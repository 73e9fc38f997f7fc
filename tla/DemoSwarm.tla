------------------------------- MODULE DemoSwarm -------------------------------
(***************************************************************************)
(* The demo's swarm and the job that keeps it from looking dead:           *)
(* demoTrackerActivity (demoseedtracker_web.go).                           *)
(*                                                                         *)
(* A row of a member's accounting is as old as its last announce.  Counts  *)
(* of who is seeding go by a window of an hour (storage/tracker.go).  The  *)
(* job takes the rows that fell out of it and spreads them over the window *)
(* again, by rank; clients that really run announce in between.  Ages are  *)
(* minutes, and time goes on by Grain of them.                             *)
(***************************************************************************)
EXTENDS Naturals, FiniteSets

CONSTANTS
    Torrents,       \* the torrents a member has, numbered from 0
    Holders,        \* the members, numbered from 0
    LastSeenStep, LastSeenMax, SwarmEvery, SwarmWindow,     \* of the code, in minutes
    AnnounceEvery,  \* at most between two announces of a running client
    Grain,          \* how much time goes by at once
    Clients,        \* the rows whose member may run a real client
    LastMinute,     \* bound: the clock
    MaxSwarmMishaps \* bound: passes that fail and processes that end

ASSUME DemoSwarmAssumption ==
    /\ Torrents \subseteq Nat /\ IsFiniteSet(Torrents)
    /\ Holders \subseteq Nat /\ IsFiniteSet(Holders)
    /\ LastSeenStep \in Nat /\ LastSeenMax \in Nat /\ SwarmEvery \in Nat \ {0} /\ SwarmWindow \in Nat
    /\ AnnounceEvery \in Nat /\ LastMinute \in Nat /\ MaxSwarmMishaps \in Nat
    /\ Grain \in Nat \ {0} /\ LastSeenMax < SwarmWindow

VARIABLES
    lastSeen,       \* of each row: the minutes since its last announce
    running,        \* the rows a real client announces for
    waited,         \* the minutes since the job's last pass
    jobIs,          \* what /admin/jobs says of it
    minute,         \* the clock
    swarmMishaps

swarmVars == <<lastSeen, running, waited, jobIs, minute, swarmMishaps>>
Rows == Torrents \X Holders

Least(a, b) == IF a <= b THEN a ELSE b
DemoLastSeenAgo(i, m) == Least(i * LastSeenStep + m * 2, LastSeenMax)

-----------------------------------------------------------------------------
Stale == {row \in Rows : lastSeen[row] > SwarmWindow}
\* row_number() OVER (ORDER BY last_seen DESC) - 1; of one age, by their numbers.
Fresher(a, b) ==
    \/ lastSeen[a] < lastSeen[b]
    \/ lastSeen[a] = lastSeen[b] /\ (a[1] < b[1] \/ (a[1] = b[1] /\ a[2] < b[2]))
\* Mutant: every row is ranked.
RankedAll == Rows
Ranked == Stale
Rank(row) == Cardinality({r \in Ranked : Fresher(r, row)})

\* A pass is due after its interval, or when the process has just come up.
Due == waited >= SwarmEvery

DemoTrackerActivity ==
    /\ Due
    /\ lastSeen' = [row \in Rows |-> IF row \in Ranked THEN Least(Rank(row) * LastSeenStep, LastSeenMax)
                                     ELSE lastSeen[row]]
    /\ waited' = 0 /\ jobIs' = "idle"
    /\ UNCHANGED <<running, minute, swarmMishaps>>

SwarmMishap == swarmMishaps < MaxSwarmMishaps /\ swarmMishaps' = swarmMishaps + 1

\* The statement fails; the loop comes again after its interval.
ActivityFails ==
    /\ Due /\ SwarmMishap
    /\ waited' = 0 /\ jobIs' = "error"
    /\ UNCHANGED <<lastSeen, running, minute>>

\* The process comes back, and the loop's first pass is due at once.
SwarmRestarts ==
    /\ SwarmMishap
    /\ waited' = SwarmEvery /\ jobIs' = "idle"
    /\ UNCHANGED <<lastSeen, running, minute>>

-----------------------------------------------------------------------------
\* The tracker, which is a plugin: an announce sets last_seen.
Announce(row) ==
    /\ row \in Clients
    /\ lastSeen' = [lastSeen EXCEPT ![row] = 0]
    /\ running' = running \cup {row}
    /\ UNCHANGED <<waited, jobIs, minute, swarmMishaps>>

ClientLeaves(row) ==
    /\ row \in running
    /\ running' = running \ {row}
    /\ UNCHANGED <<lastSeen, waited, jobIs, minute, swarmMishaps>>

\* A pass that is due comes first, and a running client announces in time.
TimePasses ==
    /\ ~Due /\ minute + Grain <= LastMinute
    /\ \A row \in running : lastSeen[row] + Grain <= AnnounceEvery
    /\ minute' = minute + Grain /\ waited' = waited + Grain
    /\ lastSeen' = [row \in Rows |-> lastSeen[row] + Grain]
    /\ UNCHANGED <<running, jobIs, swarmMishaps>>

SwarmInit ==
    /\ lastSeen = [row \in Rows |-> DemoLastSeenAgo(row[1], row[2])]
    /\ running = {} /\ waited = SwarmEvery /\ jobIs = "idle"
    /\ minute = 0 /\ swarmMishaps = 0

SwarmNext ==
    \/ DemoTrackerActivity \/ ActivityFails \/ SwarmRestarts \/ TimePasses
    \/ \E row \in Rows : Announce(row) \/ ClientLeaves(row)

SwarmSpec == SwarmInit /\ [][SwarmNext]_swarmVars

-----------------------------------------------------------------------------
SwarmTypeOK ==
    /\ lastSeen \in [Rows -> Nat] /\ running \subseteq Rows
    /\ waited \in Nat /\ jobIs \in {"idle", "error"} /\ minute \in 0..LastMinute

\* The swarm never reads as dead while passes go through: whatever clusters the announces
\* made of the ages, someone is inside the window, and nobody is out of it for more than one
\* interval.
Counted == {row \in Rows : lastSeen[row] < SwarmWindow}
SwarmLooksAlive ==
    swarmMishaps = 0 =>
        /\ ~Due => Counted # {}
        /\ \A row \in Rows : lastSeen[row] <= SwarmWindow + SwarmEvery

\* What a running client reported is never rewritten (the safety argument of the job).
ClientsAreLeftAlone ==
    [][(Due /\ waited' = 0) => \A row \in running : lastSeen'[row] = lastSeen[row]]_swarmVars

\* The demo looks alive, and no real member is told anything but what their client said.
SwarmIsPlausible == []SwarmLooksAlive /\ ClientsAreLeftAlone

\* Checked by hand, and violated: the job stops when a real client announces (its own words,
\* demoseedtracker_web.go:406), and keeps the order of who announced last (:332).
StopsForClients ==
    [][running # {} => \A row \in Rows \ running' : lastSeen'[row] >= lastSeen[row]]_swarmVars
OrderIsKept ==
    [][\A a, b \in Rows \ Clients : lastSeen[a] < lastSeen[b] => lastSeen'[a] <= lastSeen'[b]]_swarmVars
===============================================================================
