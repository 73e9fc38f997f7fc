-------------------------------- MODULE Points ---------------------------------
(***************************************************************************)
(* Members' points: users.points and points_ledger.                        *)
(*                                                                         *)
(* A gift is a transaction that updates two rows, and holds the lock of    *)
(* each until it ends.  An award or a charge by a plugin (pgPoints.change) *)
(* is an update and then an insert, with no transaction around them.  The  *)
(* database runs statements at READ COMMITTED: an update waits for the     *)
(* row's lock and then sees what was committed.                            *)
(***************************************************************************)
EXTENDS Integers, FiniteSetsExt

CONSTANTS
    Members,
    Gifts,     \* TransferPoints calls in flight
    Changes,   \* pgPoints.change calls in flight
    Amounts,   \* amounts that requests carry
    GiftMin, GiftMax,
    Nobody,    \* no such member
    Bonus,     \* points every member starts with
    MaxMinted, \* bound: points awarded
    MaxApart   \* bound: how far a balance and its ledger drift apart

\* The table of members is finite; a balance is a whole number, and no gift is of
\* less than nothing.
ASSUME PointsAssumption ==
    /\ IsFiniteSet(Members) /\ Amounts \subseteq Int
    /\ GiftMin \in Nat /\ Bonus \in Nat

VARIABLES
    points,   \* users.points, committed
    gift,     \* the transactions
    change,   \* the awards and charges
    apart,    \* each balance less the sum of the member's rows in points_ledger
    minted    \* history: points awarded less points charged

pointsVars == <<points, gift, change, apart, minted>>

NoGift == [pc |-> "idle", from |-> Nobody, to |-> Nobody, amount |-> 0]
NoChange == [pc |-> "idle", who |-> Nobody, delta |-> 0]
Deltas == Amounts \cup {-n : n \in Amounts} \cup {0}

PointsTypeOK ==
    /\ points \in [Members -> Int]
    /\ \A g \in Gifts : /\ gift[g].pc \in {"idle", "debit", "credit", "commit"}
                        /\ gift[g].from \in Members \cup {Nobody} /\ gift[g].to \in Members \cup {Nobody}
                        /\ gift[g].amount \in Amounts \cup {0}
    /\ \A c \in Changes : /\ change[c].pc \in {"idle", "insert"}
                          /\ change[c].who \in Members \cup {Nobody} /\ change[c].delta \in Deltas
    /\ apart \in [Members -> Int] /\ minted \in Int

PointsInit ==
    /\ points = [m \in Members |-> Bonus]
    /\ gift = [g \in Gifts |-> NoGift] /\ change = [c \in Changes |-> NoChange]
    /\ apart = [m \in Members |-> 0]
    /\ minted = Bonus * Cardinality(Members)

(***************************************************************************)
(* Row locks.                                                              *)
(***************************************************************************)
Holds(g, m) ==
    \/ gift[g].pc \in {"credit", "commit"} /\ gift[g].from = m
    \/ gift[g].pc = "commit" /\ gift[g].to = m
Locked(m) == \E g \in Gifts : Holds(g, m)
Wants(g) == IF gift[g].pc = "debit" THEN gift[g].from ELSE gift[g].to
Waits(g) == gift[g].pc \in {"debit", "credit"} /\ Locked(Wants(g))

(***************************************************************************)
(* giftsSend and TransferPoints.                                           *)
(***************************************************************************)
\* The amount and the two members are judged before the transaction begins.
GiftBegins(g, from, to, n) ==
    /\ gift[g].pc = "idle"
    /\ from # to /\ n >= GiftMin /\ n <= GiftMax
    /\ gift' = [gift EXCEPT ![g] = [pc |-> "debit", from |-> from, to |-> to, amount |-> n]]
    /\ UNCHANGED <<points, change, apart, minted>>

CoversAlways(m, n) == TRUE
Covers(m, n) == points[m] - n >= 0

GiftDebit(g) ==
    /\ gift[g].pc = "debit" /\ ~Locked(gift[g].from)
    /\ Covers(gift[g].from, gift[g].amount)
    /\ gift' = [gift EXCEPT ![g].pc = "credit"]
    /\ UNCHANGED <<points, change, apart, minted>>

GiftCredit(g) ==
    /\ gift[g].pc = "credit" /\ ~Locked(gift[g].to)
    /\ gift' = [gift EXCEPT ![g].pc = "commit"]
    /\ UNCHANGED <<points, change, apart, minted>>

\* The gift's row and the ledger rows of both are written, and everything commits:
\* each ledger moves by what its balance does.
GiftCommit(g) == LET from == gift[g].from  to == gift[g].to  n == gift[g].amount IN
    /\ gift[g].pc = "commit"
    /\ points' = [points EXCEPT ![from] = @ - n, ![to] = @ + n]
    /\ gift' = [gift EXCEPT ![g] = NoGift]
    /\ UNCHANGED <<change, apart, minted>>

\* The deferred rollback, which ends the transaction on every early return.
LeftOpen(g) == UNCHANGED gift
RolledBack(g) == gift' = [gift EXCEPT ![g] = NoGift]

\* A giver who is short by the time the row is theirs to update.
GiftRefused(g) ==
    /\ gift[g].pc = "debit" /\ ~Locked(gift[g].from)
    /\ ~Covers(gift[g].from, gift[g].amount)
    /\ RolledBack(g)
    /\ UNCHANGED <<points, change, apart, minted>>

\* A statement that fails, or a receiver who is gone.
GiftFails(g) ==
    /\ gift[g].pc # "idle" /\ ~Waits(g) /\ RolledBack(g)
    /\ UNCHANGED <<points, change, apart, minted>>

\* Two crossed gifts each hold the row the other wants: the database ends one.
Crossed(g, h) == Waits(g) /\ Waits(h) /\ Holds(h, Wants(g)) /\ Holds(g, Wants(h))
DeadlockDetected(g) ==
    /\ \E h \in Gifts : Crossed(g, h)
    /\ gift' = [gift EXCEPT ![g] = NoGift]
    /\ UNCHANGED <<points, change, apart, minted>>

(***************************************************************************)
(* pgPoints.change, behind core.PointsService: Award and Refund add,       *)
(* Deduct takes away.                                                      *)
(***************************************************************************)
ChangeUpdate(c, m, d) ==
    /\ change[c].pc = "idle" /\ ~Locked(m)
    /\ Covers(m, -d)
    /\ minted + d <= MaxMinted /\ apart[m] + d \in -MaxApart .. MaxApart
    /\ points' = [points EXCEPT ![m] = @ + d]
    /\ apart' = [apart EXCEPT ![m] = @ + d]
    /\ minted' = minted + d
    /\ change' = [change EXCEPT ![c] = [pc |-> "insert", who |-> m, delta |-> d]]
    /\ UNCHANGED gift

ChangeInsert(c) ==
    /\ change[c].pc = "insert"
    /\ apart' = [apart EXCEPT ![change[c].who] = @ - change[c].delta]
    /\ change' = [change EXCEPT ![c] = NoChange]
    /\ UNCHANGED <<points, gift, minted>>

\* The insert fails, or the process ends: the balance has moved all the same.
InsertFails(c) ==
    /\ change[c].pc = "insert"
    /\ change' = [change EXCEPT ![c] = NoChange]
    /\ UNCHANGED <<points, gift, apart, minted>>

PointsNext ==
    \/ \E g \in Gifts, from, to \in Members, n \in Amounts : GiftBegins(g, from, to, n)
    \/ \E g \in Gifts : \/ GiftDebit(g) \/ GiftCredit(g) \/ GiftCommit(g)
                        \/ GiftRefused(g) \/ GiftFails(g) \/ DeadlockDetected(g)
    \/ \E c \in Changes, m \in Members, d \in Deltas \ {0} : ChangeUpdate(c, m, d)
    \/ \E c \in Changes : ChangeInsert(c) \/ InsertFails(c)

\* A request that has begun goes on, statement by statement, and the database
\* ends one of two that wait for each other.  No statement has to fail.
GiftProgress(g) == GiftDebit(g) \/ GiftRefused(g) \/ GiftCredit(g) \/ GiftCommit(g) \/ DeadlockDetected(g)
PointsFairness == \A g \in Gifts : SF_pointsVars(GiftProgress(g))

PointsSpec == PointsInit /\ [][PointsNext]_pointsVars /\ PointsFairness

(***************************************************************************)
(* Properties.                                                             *)
(***************************************************************************)
\* However gifts, awards and charges interleave, nobody's balance goes below
\* zero, and gifts neither make points nor lose them ("a concurrent spend cannot
\* slip a balance negative between a read and a write").
BalancesAddUp ==
    /\ \A m \in Members : points[m] >= 0
    /\ MapThenSumSet(LAMBDA m : points[m], Members) = minted

\* "so the two can never disagree" (pgPoints.change): between requests, every
\* member's balance is the sum of their ledger.
BalanceIsLedger ==
    (\A c \in Changes : change[c].pc = "idle") => \A m \in Members : apart[m] = 0

\* Crossed gifts do not hang, and no early return leaves a row locked: every gift
\* that has begun ends, by its commit, its refusal or a rollback.
EveryGiftEnds == \A g \in Gifts : gift[g].pc # "idle" ~> gift[g].pc = "idle"
===============================================================================
