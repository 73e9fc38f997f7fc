----------------------------- MODULE CatalogSweep -----------------------------
(***************************************************************************)
(* The sweeps that give releases without art another chance: the match     *)
(* job's candidates (catalog_web.go) and the links to entries already answered *)
(* (locallink_web.go), each walking down the index behind a cursor that is *)
(* kept in the database.  Releases are their ids; a higher id is newer.    *)
(***************************************************************************)
EXTENDS Integers, FiniteSets, SequencesExt

CONSTANTS
    Kinds,       \* the kinds linkFromCatalog takes, in its order
    KindOf,      \* [ids -> Range(Kinds)]: a release's kind, by its category
    TitleOf,     \* [ids -> titles]: releases of one title are answered by one entry
    Batch,       \* candidateBatch and localLinkBatch
    MaxId,       \* bound: newest release
    MaxSlips   \* bound: statements that fail, and processes that end

Ids == 1..MaxId
Sweeps == {"match"} \cup Range(Kinds)

VARIABLES
    arrived,   \* releases in usenet.nzbs
    withArt,   \* releases with a release_cover row
    answered,      \* releases whose title an entry with art answers
    cursor,    \* site_settings: where each sweep stands, 0 the top
    batch,     \* the candidates of the match job that are still to be tried
    links,     \* the candidates of the link sweep that are still to be tried
    at,        \* the place in Kinds of the link sweep, 0 between two passes
    offered,   \* releases the match job tried last (for the liveness property)
    slips

sweepVars == <<arrived, withArt, answered, cursor, batch, links, at, offered, slips>>

SweepTypeOK ==
    /\ withArt \subseteq arrived /\ answered \subseteq Ids /\ cursor \in [Sweeps -> 0..MaxId]
    /\ batch \subseteq arrived /\ links \subseteq arrived /\ at \in 0..Len(Kinds)
    /\ offered \in SUBSET Ids /\ arrived \subseteq Ids /\ slips \in 0..MaxSlips

SweepInit ==
    /\ \E n \in 0..MaxId : arrived = 1..n
    /\ withArt = {} /\ answered = {} /\ cursor = [s \in Sweeps |-> 0]
    /\ batch = {} /\ links = {} /\ at = 0 /\ offered = {} /\ slips = 0

Slip == slips < MaxSlips /\ slips' = slips + 1

\* The next release is indexed.
ReleaseIndexed ==
    /\ arrived # Ids /\ arrived' = 1..Cardinality(arrived) + 1
    /\ UNCHANGED <<withArt, answered, cursor, batch, links, at, offered, slips>>

(***************************************************************************)
(* One page of a sweep: the newest Batch ids without art below the cursor. *)
(***************************************************************************)
Below(s) == {i \in arrived \ withArt : cursor[s] = 0 \/ i < cursor[s]}
Page(S) == {i \in S : Cardinality({j \in S : j > i}) < Batch}
OfKind(k) == {i \in Ids : KindOf[i] = k}
Lowest(S) == CHOOSE i \in S : \A j \in S : i <= j

NextCandidateCursorAtTop(page) == IF Cardinality(page) <= Batch THEN 0 ELSE Lowest(page)
NextCandidateCursor(page) == IF Cardinality(page) < Batch THEN 0 ELSE Lowest(page)

(***************************************************************************)
(* The match job: catalogCandidates, and then the scraper tries each.  A   *)
(* cursor that is not saved is only logged.                                *)
(***************************************************************************)
CatalogCandidates ==
    /\ batch = {}
    /\ LET page == Page(Below("match"))
       IN  /\ batch' = page
           /\ \/ cursor' = [cursor EXCEPT !["match"] = NextCandidateCursor(page)] /\ UNCHANGED slips
              \/ Slip /\ UNCHANGED cursor
    /\ offered' = {} /\ UNCHANGED <<arrived, withArt, answered, links, at>>

\* A source finds the title, with its art, or does not; the link may fail.
TryMatch(i, found, linked) ==
    /\ i \in batch
    /\ batch' = batch \ {i} /\ offered' = offered \cup {i}
    /\ answered' = IF found THEN answered \cup {j \in Ids : TitleOf[j] = TitleOf[i]} ELSE answered
    /\ withArt' = IF found /\ linked THEN withArt \cup {i} ELSE withArt
    /\ UNCHANGED <<arrived, cursor, links, at, slips>>

(***************************************************************************)
(* linkFromCatalog: the kinds one after the other.  A cursor that is not   *)
(* read or not saved ends the pass, and the kinds after it wait for the    *)
(* next one.                                                               *)
(***************************************************************************)
LinkOneKind ==
    /\ links = {} /\ at < Len(Kinds)
    /\ LET k == Kinds[at + 1]   page == Page(Below(k) \cap OfKind(k))
       IN  \/ /\ links' = page /\ at' = at + 1 /\ UNCHANGED slips
              /\ cursor' = [cursor EXCEPT ![k] = NextCandidateCursor(page)]
           \/ Slip /\ at' = 0 /\ UNCHANGED <<links, cursor>>
    /\ UNCHANGED <<arrived, withArt, answered, batch, offered>>

\* coverForKeys and linkCover; an error passes over the release.
LinkRelease(i) ==
    /\ i \in links
    /\ links' = links \ {i}
    /\ \/ withArt' = withArt \cup ({i} \cap answered) /\ UNCHANGED slips
       \/ Slip /\ UNCHANGED withArt
    /\ UNCHANGED <<arrived, answered, cursor, batch, at, offered>>

PassEnds ==
    /\ at = Len(Kinds) /\ links = {}
    /\ at' = 0 /\ UNCHANGED <<arrived, withArt, answered, cursor, batch, links, offered, slips>>

\* The process ends with a batch in hand; the cursors are past it.
SweepRestart ==
    /\ Slip /\ batch' = {} /\ links' = {} /\ at' = 0
    /\ UNCHANGED <<arrived, withArt, answered, cursor, offered>>

LinkStep == LinkOneKind \/ PassEnds \/ \E i \in Ids : LinkRelease(i)
MatchStep == CatalogCandidates \/ \E i \in Ids, found, linked \in BOOLEAN : TryMatch(i, found, linked)

SweepNext == ReleaseIndexed \/ MatchStep \/ LinkStep \/ SweepRestart

\* Both jobs are loops on a timer.
SweepFairness == WF_sweepVars(MatchStep) /\ WF_sweepVars(LinkStep)
SweepSpec == SweepInit /\ [][SweepNext]_sweepVars /\ SweepFairness

(***************************************************************************)
(* Properties.                                                             *)
(***************************************************************************)
\* A release without art is tried again and again, however many releases that
\* cannot be matched lie above it ("the sweep jams against the first batch of
\* unmatchable titles and never reaches the rest of the index").
EveryReleaseIsOffered == \A i \in Ids : []<>(i \in arrived => i \in withArt \cup offered)

\* A release whose title the catalogue answers is linked to it in the end, also
\* after passes that were cut short and batches a restart dropped.
HeldIsLinked == \A i \in Ids : i \in arrived \cap answered ~> i \in withArt

\* Neither sweep leaves a release behind.
SweepsReachEverything == EveryReleaseIsOffered /\ HeldIsLinked
===============================================================================
