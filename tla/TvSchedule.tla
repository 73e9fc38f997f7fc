------------------------------ MODULE TvSchedule ------------------------------
(***************************************************************************)
(* What airs, what of it the index lacks, and what is then asked for       *)
(* (tvschedule_web.go, tvgaps_web.go, tvgapsrequest_web.go,                *)
(* tvgrab_web.go).  Episodes are numbered in the order in which they air.  *)
(* A pass may be the loop's or one an operator started, and two of them    *)
(* may overlap.                                                            *)
(***************************************************************************)
EXTENDS Integers, FiniteSets, TLC

CONSTANTS
    LastEpisode,   \* bound: episodes that air
    Days, DayOf,   \* the upstream's pages, and the page of each episode
    ShowOf,        \* [episodes -> shows]; one season each
    Runners,       \* passes that may run at once
    FilePerPass,   \* tvRequestPerPass
    MaxBad         \* bound: calls of a pass that fail

Episodes == 1..LastEpisode
Shows == {ShowOf[e] : e \in Episodes}
AirStates == {"ahead", "aired", "due", "gone"}

VARIABLES
    age,       \* airs yet; missing after the grace; old enough for a request; before the window
    held,      \* episodes the index has a release of
    packs,     \* shows whose season the index has as one release
    eps,       \* tvSchedule.eps, of the shows carried
    gaps,      \* tvSchedule.gaps
    inIndex,     \* those of them that are Indexed
    board,     \* requests filed
    pass,      \* where each runner's pass stands
    card,      \* the job's card: how the last pass ended, and what failed in it
    fresh,     \* episodes that arrived since the gaps were computed (history)
    bad

tvVars == <<age, held, packs, eps, gaps, inIndex, board, pass, card, fresh, bad>>

TvTypeOK ==
    /\ age \in [Episodes -> AirStates] /\ held \subseteq Episodes /\ packs \subseteq Shows
    /\ eps \subseteq Episodes /\ gaps \subseteq Episodes /\ inIndex \subseteq gaps
    /\ board \subseteq Episodes /\ fresh \subseteq Episodes
    /\ pass \in [Runners -> {"idle", "join", "request", "grab"}]
    /\ card \in [state : {"idle", "running", "error"}, days : SUBSET Days, carried : BOOLEAN]
    /\ bad \in 0..MaxBad

TvInit ==
    /\ age = [e \in Episodes |-> "ahead"] /\ held = {} /\ packs = {}
    /\ eps = {} /\ gaps = {} /\ inIndex = {} /\ board = {} /\ fresh = {}
    /\ pass = [r \in Runners |-> "idle"] /\ bad = 0
    /\ card = [state |-> "idle", days |-> {}, carried |-> TRUE]

Has(e) == e \in held \/ ShowOf[e] \in packs
Indexed(e) == \E x \in Episodes : ShowOf[x] = ShowOf[e] /\ Has(x)
FirstFew(S, n) == {e \in S : Cardinality({x \in S : x < e}) < n}

(***************************************************************************)
(* The world: time passes in the order of airing, and releases arrive.     *)
(***************************************************************************)
NextAir == [ahead |-> "aired", aired |-> "due", due |-> "gone"]
Aging(e) ==
    /\ age[e] # "gone" /\ \A x \in 1..e - 1 : age[x] # age[e]
    /\ age' = [age EXCEPT ![e] = NextAir[@]]
    /\ UNCHANGED <<held, packs, eps, gaps, inIndex, board, pass, card, fresh, bad>>

ReleaseArrives(e, pack) ==
    /\ ~ Has(e) /\ age[e] # "ahead"
    /\ held' = held \cup {e} /\ packs' = IF pack THEN packs \cup {ShowOf[e]} ELSE packs
    /\ fresh' = fresh \cup {e} \cup {x \in Episodes : pack /\ ShowOf[x] = ShowOf[e]}
    /\ UNCHANGED <<age, eps, gaps, inIndex, board, pass, card, bad>>

(***************************************************************************)
(* refill: one call a day of the window.  The window is replaced when it   *)
(* found anything or nothing failed, and the first error is returned.      *)
(***************************************************************************)
Listed(failed) == {e \in Episodes : age[e] # "gone" /\ DayOf[e] \notin failed}

Refill(r, failed, carried) ==
    /\ pass[r] = "idle" /\ bad + Cardinality(failed) + (IF carried THEN 0 ELSE 1) <= MaxBad
    /\ bad' = bad + Cardinality(failed) + (IF carried THEN 0 ELSE 1)
    /\ carried \/ failed = {}
    /\ eps' = IF carried /\ (Listed(failed) # {} \/ failed = {}) THEN Listed(failed) ELSE eps
    /\ IF carried /\ failed = {}
       THEN /\ pass' = [pass EXCEPT ![r] = "join"]
            /\ card' = [state |-> "running", days |-> {}, carried |-> TRUE]
       ELSE /\ card' = [state |-> "error", days |-> failed, carried |-> carried] /\ UNCHANGED pass
    /\ UNCHANGED <<age, held, packs, gaps, inIndex, board, fresh>>

(***************************************************************************)
(* recomputeGaps: a season whose lookup failed counts as held.             *)
(***************************************************************************)
Missing(unread) == {e \in eps : age[e] \in {"aired", "due", "gone"} /\ ShowOf[e] \notin unread /\ ~ Has(e)}

IndexedGaps(unread) == {e \in Missing(unread) : Indexed(e)}

RecomputeGaps(r, unread) ==
    /\ pass[r] = "join" /\ bad + Cardinality(unread) <= MaxBad
    /\ bad' = bad + Cardinality(unread)
    /\ gaps' = Missing(unread) /\ inIndex' = IndexedGaps(unread) /\ fresh' = {}
    /\ pass' = [pass EXCEPT ![r] = "request"]
    /\ UNCHANGED <<age, held, packs, eps, board, card>>

(***************************************************************************)
(* runGapRequests: the oldest first.  The cap counts the rows that are     *)
(* new, neither those already open nor those that could not be filed.      *)
(***************************************************************************)
Requestable == {e \in inIndex : age[e] = "due"}
NewlyFiledCountingAll(failing) == FirstFew(Requestable, FilePerPass) \ (board \cup failing)
NewlyFiled(failing) == FirstFew(Requestable \ (board \cup failing), FilePerPass)

RunGapRequests(r, failing) ==
    /\ pass[r] = "request" /\ failing \subseteq Requestable \ board
    /\ bad + Cardinality(failing) <= MaxBad /\ bad' = bad + Cardinality(failing)
    /\ board' = board \cup NewlyFiled(failing)
    /\ pass' = [pass EXCEPT ![r] = "grab"]
    /\ UNCHANGED <<age, held, packs, eps, gaps, inIndex, card, fresh>>

\* runAutoGrab: the oldest few go to the fleet, as Dispatch of AgentQueue; the
\* schedule keeps nothing of it.
RunAutoGrab(r) ==
    /\ pass[r] = "grab"
    /\ pass' = [pass EXCEPT ![r] = "idle"] /\ card' = [card EXCEPT !.state = "idle"]
    /\ UNCHANGED <<age, held, packs, eps, gaps, inIndex, board, fresh, bad>>

PassStep(r) ==
    \/ \E failed \in SUBSET Days, carried \in BOOLEAN : Refill(r, failed, carried)
    \/ \E unread \in SUBSET Shows : RecomputeGaps(r, unread)
    \/ \E failing \in SUBSET Episodes : RunGapRequests(r, failing)
    \/ RunAutoGrab(r)

TvNext ==
    \/ \E e \in Episodes : Aging(e) \/ \E pack \in BOOLEAN : ReleaseArrives(e, pack)
    \/ \E r \in Runners : PassStep(r)

\* Every pass is run to its end, and the loop starts another.
TvFairness == \A r \in Runners : WF_tvVars(PassStep(r))
TvSpec == TvInit /\ [][TvNext]_tvVars /\ TvFairness

(***************************************************************************)
(* Properties.                                                             *)
(***************************************************************************)
\* A gap of a show the index knows is requested in the end, however long the
\* backlog in front of it ("the cap spreads a backlog over passes"), unless it is
\* filled or leaves the window first.
Wanted(e) == age[e] = "due" /\ ~ Has(e) /\ Indexed(e)
GapsAreRequested == \A e \in Episodes : Wanted(e) ~> (e \in board \/ ~ Wanted(e))

\* No request is filed for an episode that was in the index when the gaps were
\* computed, also when the index could not be read then.
NoRequestForWhatIsHeld ==
    [][\A e \in board' \ board : ~ Has(e) \/ e \in fresh]_tvVars

\* What is asked for is what is missing: all of it in the end, and nothing else.
RequestsAreRight == GapsAreRequested /\ NoRequestForWhatIsHeld

\* "One bad day inside a good pass is absorbed by refill and never reaches here":
\* a pass ends in error only when every day failed.
BadDayIsAbsorbed == card.state = "error" => ~ card.carried \/ card.days = Days
===============================================================================
