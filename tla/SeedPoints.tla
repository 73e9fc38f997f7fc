------------------------------ MODULE SeedPoints -------------------------------
(***************************************************************************)
(* The seeding economy: an hourly run, which the operator can also trigger,*)
(* pays each seeding member for the time since the last run and carries    *)
(* the unpaid fraction of a point.  Each member is credited by a           *)
(* transaction and their carry saved by another statement, and the time of *)
(* the run is recorded last.                                               *)
(*                                                                         *)
(* A tick is the resolution of the clock.  Earnings are counted in units,  *)
(* Unit of them make a point.  Who seeds what is a rate in units a tick;   *)
(* one swarm serves for both economies.  A member who seeds nothing at the *)
(* moment of a run is not among the awards, and nothing of theirs changes. *)
(***************************************************************************)
EXTENDS Integers, FiniteSets

CONSTANTS
    Seeders,
    Runs,        \* the loop and the trigger: runs that may be under way at once
    Economies,   \* "classic" and "pool"
    Rate,        \* [Economies -> [Seeders -> units a tick]]
    CapRate,     \* CapPerHour, in units a tick; 0 for no cap
    Unit,
    Interval,    \* one interval, in ticks; a run pays for two at most
    Never,       \* no last run is recorded
    LastTick,    \* bound on the clock
    MaxMishaps   \* bound on crashes, failures and overlaps

ASSUME SeedAssumption ==
    /\ IsFiniteSet(Runs) /\ Rate \in [Economies -> [Seeders -> Nat]] /\ CapRate \in Nat
    /\ Unit \in Nat \ {0} /\ Interval \in Nat /\ Never \notin 0 .. LastTick
    /\ LastTick \in Nat /\ MaxMishaps \in Nat

CatchUp == 2 * Interval

VARIABLES
    now,
    economy,   \* the operator's choice, "off" or one of Economies
    lastRun,   \* last_run_unix
    fraction,  \* seed_points_carry
    payout,    \* the runs under way
    paid,      \* points credited to each member
    due,       \* history: units earned, under the cap, in the time each was paid for
    covered,   \* history: ticks each member was paid for
    capped,    \* history: members whose award was cut at the cap
    mishaps    \* history: crashes, failed statements and overlapping runs

seedVars == <<now, economy, lastRun, fraction, payout, paid, due, covered, capped, mishaps>>

NoRun == [pc |-> "idle", economy |-> "off", elapsed |-> 0,
          carry |-> [s \in Seeders |-> 0], todo |-> {}, saving |-> {}]

Payouts == [pc : {"idle", "read", "pay"}, economy : Economies \cup {"off"}, elapsed : Nat,
            carry : [Seeders -> 0 .. Unit - 1], todo : SUBSET Seeders, saving : SUBSET Seeders]

SeedTypeOK ==
    /\ now \in 0 .. LastTick /\ economy \in Economies \cup {"off"}
    /\ lastRun \in 0 .. LastTick \cup {Never}
    /\ fraction \in [Seeders -> 0 .. Unit - 1]
    /\ payout \in [Runs -> Payouts]
    /\ paid \in [Seeders -> Nat] /\ due \in [Seeders -> Nat] /\ covered \in [Seeders -> Nat]
    /\ capped \subseteq Seeders /\ mishaps \in 0 .. MaxMishaps

SeedInit ==
    /\ now = 0 /\ economy = "off" /\ lastRun = Never
    /\ fraction = [s \in Seeders |-> 0] /\ payout = [r \in Runs |-> NoRun]
    /\ paid = [s \in Seeders |-> 0] /\ due = [s \in Seeders |-> 0] /\ covered = [s \in Seeders |-> 0]
    /\ capped = {} /\ mishaps = 0

(***************************************************************************)
(* awardFor.                                                               *)
(***************************************************************************)
Earned(r, s) == Rate[payout[r].economy][s] * payout[r].elapsed
CapThisRun(r) == CapRate * payout[r].elapsed
IsCapped(r, s) == CapRate > 0 /\ Earned(r, s) > CapThisRun(r)

AmountWithoutCarry(r, s) == IF IsCapped(r, s) THEN CapThisRun(r) ELSE Earned(r, s)
Amount(r, s) == IF IsCapped(r, s) THEN CapThisRun(r) ELSE Earned(r, s) + payout[r].carry[s]
AwardPoints(r, s) == Amount(r, s) \div Unit
AwardCarry(r, s) == IF IsCapped(r, s) THEN 0 ELSE Amount(r, s) % Unit

(***************************************************************************)
(* seedElapsed: a marker that cannot be read counts as none, and the time  *)
(* since a marker is clamped at both ends.                                 *)
(***************************************************************************)
Clamped(d) == IF d > CatchUp THEN CatchUp ELSE d
Elapsed(marker) == IF marker = Never THEN Interval ELSE Clamped(now - marker)

(***************************************************************************)
(* runSeedPoints.                                                          *)
(***************************************************************************)
Busy == \E r \in Runs : payout[r].pc # "idle"
Mishap(n) == mishaps + n <= MaxMishaps /\ mishaps' = mishaps + n

\* The settings and the time of the last run are read; nothing is while the mode is
\* off.  With the tracker not running, or its swarm not read, the run ends here too.
Begin(r, marker) ==
    /\ payout[r].pc = "idle" /\ economy # "off"
    /\ Mishap((IF Busy THEN 1 ELSE 0) + (IF marker # lastRun THEN 1 ELSE 0))
    /\ payout' = [payout EXCEPT ![r] = [@ EXCEPT !.pc = "read", !.economy = economy, !.elapsed = Elapsed(marker)]]
    /\ UNCHANGED <<now, economy, lastRun, fraction, paid, due, covered, capped>>

Awarded(r) == IF payout[r].elapsed = 0 THEN {}
              ELSE {s \in Seeders : Rate[payout[r].economy][s] > 0}

\* A carry that cannot be read is taken for zero.
ReadCarry(r, unread) ==
    /\ payout[r].pc = "read"
    /\ Mishap(IF unread THEN 1 ELSE 0)
    /\ payout' = [payout EXCEPT ![r] = [@ EXCEPT !.pc = "pay", !.todo = Awarded(r),
                                            !.carry = IF unread THEN [s \in Seeders |-> 0] ELSE fraction]]
    /\ UNCHANGED <<now, economy, lastRun, fraction, paid, due, covered, capped>>

\* CreditSeedPoints, for one member after the other in no order; none to credit
\* goes straight on to the carry.
Credit(r, s) ==
    /\ payout[r].pc = "pay" /\ payout[r].saving = {} /\ s \in payout[r].todo
    /\ paid' = [paid EXCEPT ![s] = @ + AwardPoints(r, s)]
    /\ due' = [due EXCEPT ![s] = @ + (IF IsCapped(r, s) THEN CapThisRun(r) ELSE Earned(r, s))]
    /\ covered' = [covered EXCEPT ![s] = @ + payout[r].elapsed]
    /\ capped' = IF IsCapped(r, s) THEN capped \cup {s} ELSE capped
    /\ payout' = [payout EXCEPT ![r] = [@ EXCEPT !.todo = payout[r].todo \ {s}, !.saving = {s}]]
    /\ UNCHANGED <<now, economy, lastRun, fraction, mishaps>>

\* The member is left out, carry and all, and is not paid for this time again.
CreditFails(r, s) ==
    /\ payout[r].pc = "pay" /\ payout[r].saving = {} /\ s \in payout[r].todo
    /\ AwardPoints(r, s) > 0
    /\ payout' = [payout EXCEPT ![r].todo = @ \ {s}]
    /\ UNCHANGED <<now, economy, lastRun, fraction, paid, due, covered, capped, mishaps>>

SaveCarry(r, s) ==
    /\ s \in payout[r].saving
    /\ fraction' = [fraction EXCEPT ![s] = AwardCarry(r, s)]
    /\ payout' = [payout EXCEPT ![r].saving = {}]
    /\ UNCHANGED <<now, economy, lastRun, paid, due, covered, capped, mishaps>>

SaveCarryFails(r) ==
    /\ payout[r].saving # {} /\ Mishap(1)
    /\ payout' = [payout EXCEPT ![r].saving = {}]
    /\ UNCHANGED <<now, economy, lastRun, fraction, paid, due, covered, capped>>

RunFinishes(r) == payout[r].pc = "pay" /\ payout[r].saving = {} /\ payout[r].todo = {}

RecordRun(r) ==
    /\ RunFinishes(r)
    /\ lastRun' = now /\ payout' = [payout EXCEPT ![r] = NoRun]
    /\ UNCHANGED <<now, economy, fraction, paid, due, covered, capped, mishaps>>

\* A crash, a panic, or a record that could not be written.
RunIsLost(r) ==
    /\ payout[r].pc = "pay" /\ Mishap(1)
    /\ payout' = [payout EXCEPT ![r] = NoRun]
    /\ UNCHANGED <<now, economy, lastRun, fraction, paid, due, covered, capped>>

SetEconomy(e) ==
    /\ e # economy /\ economy' = e
    /\ UNCHANGED <<now, lastRun, fraction, payout, paid, due, covered, capped, mishaps>>

SeedTick ==
    /\ now < LastTick /\ now' = now + 1
    /\ UNCHANGED <<economy, lastRun, fraction, payout, paid, due, covered, capped, mishaps>>

SeedNext ==
    \/ SeedTick
    \/ \E e \in Economies \cup {"off"} : SetEconomy(e)
    \/ \E r \in Runs : \/ \E marker \in {lastRun, Never} : Begin(r, marker)
                       \/ \E unread \in BOOLEAN : ReadCarry(r, unread)
                       \/ SaveCarryFails(r) \/ RecordRun(r) \/ RunIsLost(r)
    \/ \E r \in Runs, s \in Seeders : Credit(r, s) \/ CreditFails(r, s) \/ SaveCarry(r, s)

SeedSpec == SeedInit /\ [][SeedNext]_seedVars

(***************************************************************************)
(* Properties.                                                             *)
(***************************************************************************)
\* No time is paid for twice: the runs a member was paid by cover no more than the
\* time there was and the first interval, but for each mishap, which costs at most
\* one catch-up ("a site that was down for a week would mint a week of points").
NoTimePaidTwice ==
    \A s \in Seeders : covered[s] <= now + Interval + mishaps * CatchUp

\* However time is divided into runs, a member has been paid what they earned to
\* the fraction, and one who met the cap no more than that; each mishap is worth
\* less than a point ("every fraction eventually becomes a point").
Owing(s) == \E r \in Runs : s \in payout[r].saving
PaidToTheFraction ==
    \A s \in Seeders : ~Owing(s) =>
        /\ paid[s] * Unit + fraction[s] <= due[s] + mishaps * (Unit - 1)
        /\ (mishaps = 0 /\ s \notin capped) => paid[s] * Unit + fraction[s] = due[s]

\* What is earned is paid, once.
EarnedIsPaidOnce == NoTimePaidTwice /\ PaidToTheFraction

\* "loses no member their fractions permanently" (runSeedPoints, of a carry that
\* could not be read): a run replaces a stored fraction only by one that counts it.
FractionsAreKept ==
    [][\A r \in Runs, s \in Seeders :
        (SaveCarry(r, s) /\ ~IsCapped(r, s)) => payout[r].carry[s] = fraction[s]]_seedVars
===============================================================================
