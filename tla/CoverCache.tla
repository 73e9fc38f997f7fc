------------------------------ MODULE CoverCache ------------------------------
(***************************************************************************)
(* Cover art: what a release's row and its catalogue entry are given when  *)
(* art is matched, linked or filled in afterwards (covercache_web.go,      *)
(* catalog_web.go), under a mode the operator may change at any moment     *)
(* (covermode_web.go).  A stored cover is a shape: the provider's URL,     *)
(* this site's copy of it, or a blank.                                     *)
(***************************************************************************)
EXTENDS Integers, FiniteSets

CONSTANTS
    Posters,    \* image URLs of the providers, one catalogue entry each
    Releases,
    PosterOf,   \* [Releases -> Posters]: the art a match finds for a release
    Callers,    \* goroutines that are inside localize at once
    MaxGets     \* bound: downloads of one image

ASSUME CoverAssumption == PosterOf \in [Releases -> Posters] /\ MaxGets \in Nat

Modes == {"remote", "local", "local_remote", "remote_local"}
Shapes == {"none", "blank", "remote", "local"}

VARIABLES
    mode,      \* coverModeVal
    entry,     \* catalog_entry.cover_url by poster
    cover,     \* release_cover.cover_url by release
    inflight,  \* coverCache.inflight: the caller that downloads, by poster
    call,      \* what each caller is doing
    gets       \* downloads asked of the provider, by poster (history)

coverVars == <<mode, entry, cover, inflight, call, gets>>

NoCall == [pc |-> "idle"]
\* strict and lenient: the mode was local, or was never local, since the call began.
Calls == [pc : {"localize", "join", "fetching", "waiting", "clearing", "settle", "store"},
          for : {"entry", "link", "fill"}, release : Releases, was : Shapes, lead : Callers,
          ok : BOOLEAN, result : Shapes, strict : BOOLEAN, lenient : BOOLEAN]
Url(j) == PosterOf[call[j].release]
Busy(j, pc) == call[j].pc = pc

CoverTypeOK ==
    /\ mode \in Modes /\ entry \in [Posters -> Shapes] /\ cover \in [Releases -> Shapes]
    /\ DOMAIN inflight \subseteq Posters /\ \A u \in DOMAIN inflight : inflight[u] \in Callers
    /\ \A j \in Callers : call[j] \in Calls \cup {NoCall}
    /\ gets \in [Posters -> 0..MaxGets]

CoverInit ==
    /\ mode = "local_remote"
    /\ entry = [u \in Posters |-> "none"] /\ cover = [r \in Releases |-> "none"]
    /\ inflight = [u \in {} |-> u] /\ call = [j \in Callers |-> NoCall]
    /\ gets = [u \in Posters |-> 0]

(***************************************************************************)
(* The callers of localize.                                                *)
(***************************************************************************)
Enter(j, for, r, was) ==
    /\ call[j] = NoCall
    /\ call' = [call EXCEPT ![j] = [pc |-> "localize", for |-> for, release |-> r, was |-> was,
                                    lead |-> j, ok |-> FALSE, result |-> "none",
                                    strict |-> mode = "local", lenient |-> mode # "local"]]
    /\ UNCHANGED <<mode, entry, cover, inflight, gets>>

\* lazySink.Upsert: the entry of a match, with the provider's URL.
Upsert(j, r) == Enter(j, "entry", r, "remote")
\* linkCover: from a match with the provider's URL, or from an entry already held
\* with whatever that entry stores.  Their candidates had no row when the batch was
\* read, and may have one by now.
Link(j, r) ==
    \/ Enter(j, "link", r, "remote")
    \/ entry[PosterOf[r]] \notin {"none", "blank"} /\ Enter(j, "link", r, entry[PosterOf[r]])
\* backfillCovers: one goroutine, a row whose URL is not this site's.
Backfill(j, r) ==
    /\ cover[r] \in {"remote", "blank"}
    /\ \A k \in Callers : call[k] # NoCall => call[k].for # "fill"
    /\ Enter(j, "fill", r, cover[r])

(***************************************************************************)
(* localize.                                                               *)
(***************************************************************************)
Returns(j, shape) == call' = [call EXCEPT ![j].pc = "store", ![j].result = shape]

\* What is already here, or is no URL, is returned as it is.  In remote_local a
\* HEAD decides whether a copy is tried.
Decide(j) ==
    /\ Busy(j, "localize")
    /\ \/ /\ call[j].was # "remote" \/ mode \in {"remote", "remote_local"}
          /\ Returns(j, call[j].was)
       \/ /\ call[j].was = "remote" /\ mode # "remote"
          /\ call' = [call EXCEPT ![j].pc = "join"]
    /\ UNCHANGED <<mode, entry, cover, inflight, gets>>

FetchNeverRunning(u) == FALSE
FetchRunning(u) == u \in DOMAIN inflight

\* One fetch per URL, however many callers ask at once.
Join(j) ==
    /\ Busy(j, "join")
    /\ IF FetchRunning(Url(j))
       THEN /\ call' = [call EXCEPT ![j].pc = "waiting", ![j].lead = inflight[Url(j)]]
            /\ UNCHANGED <<inflight, gets>>
       ELSE /\ gets[Url(j)] < MaxGets
            /\ call' = [call EXCEPT ![j].pc = "fetching"]
            /\ inflight' = [u \in DOMAIN inflight \cup {Url(j)} |-> IF u = Url(j) THEN j ELSE inflight[u]]
            /\ gets' = [gets EXCEPT ![Url(j)] = @ + 1]
    /\ UNCHANGED <<mode, entry, cover>>

\* A caller that joined after the fetch ended and before the entry is deleted
\* finds the outcome there at once.
Waiters(j) == {k \in Callers : Busy(k, "waiting") /\ call[k].lead = j}
FetchEnds(j, ok) ==
    /\ Busy(j, "fetching")
    /\ call' = [k \in Callers |-> IF k = j THEN [call[k] EXCEPT !.pc = "clearing", !.ok = ok]
                                  ELSE IF k \in Waiters(j) THEN [call[k] EXCEPT !.pc = "settle", !.ok = ok]
                                  ELSE call[k]]
    /\ UNCHANGED <<mode, entry, cover, inflight, gets>>

JoinedLate(j) ==
    /\ Busy(j, "waiting") /\ Busy(call[j].lead, "clearing")
    /\ call' = [call EXCEPT ![j].pc = "settle", ![j].ok = call[call[j].lead].ok]
    /\ UNCHANGED <<mode, entry, cover, inflight, gets>>

\* The entry of the URL is deleted.  A caller that found it and has not looked yet
\* keeps it, and with it its outcome.
Clear(j) ==
    /\ Busy(j, "clearing")
    /\ inflight' = [u \in DOMAIN inflight \ {Url(j)} |-> inflight[u]]
    /\ call' = [k \in Callers |-> IF k = j THEN [call[k] EXCEPT !.pc = "settle"]
                                  ELSE IF k \in Waiters(j)
                                       THEN [call[k] EXCEPT !.pc = "settle", !.ok = call[j].ok]
                                  ELSE call[k]]
    /\ UNCHANGED <<mode, entry, cover, gets>>

\* onCoverFailure reads the mode again.
OnCoverFailure(failed) == IF failed = "local" THEN "blank" ELSE "remote"
Settle(j) ==
    /\ Busy(j, "settle")
    /\ Returns(j, IF call[j].ok THEN "local" ELSE OnCoverFailure(mode))
    /\ UNCHANGED <<mode, entry, cover, inflight, gets>>

(***************************************************************************)
(* What the caller stores; a statement that fails leaves the row alone.    *)
(***************************************************************************)
Kept(j) == \/ call[j].for = "link" /\ call[j].result = "blank"
           \/ call[j].for = "fill" /\ call[j].result = call[j].was
Store(j) ==
    /\ Busy(j, "store") /\ ~ Kept(j)
    /\ call' = [call EXCEPT ![j] = NoCall]
    /\ IF call[j].for = "entry"
       THEN entry' = [entry EXCEPT ![Url(j)] = call[j].result] /\ UNCHANGED cover
       ELSE cover' = [cover EXCEPT ![call[j].release] = call[j].result] /\ UNCHANGED entry
    /\ UNCHANGED <<mode, inflight, gets>>
RowFails(j) ==
    /\ Busy(j, "store")
    /\ call' = [call EXCEPT ![j] = NoCall] /\ UNCHANGED <<mode, entry, cover, inflight, gets>>

SaveCoverMode(to) ==
    /\ mode' = to
    /\ call' = [j \in Callers |->
                   IF call[j] = NoCall THEN NoCall
                   ELSE [call[j] EXCEPT !.strict = @ /\ to = "local", !.lenient = @ /\ to # "local"]]
    /\ UNCHANGED <<entry, cover, inflight, gets>>

Fetching(j) == Join(j) \/ JoinedLate(j) \/ Clear(j) \/ \E ok \in BOOLEAN : FetchEnds(j, ok)
CoverNext ==
    \/ \E to \in Modes \ {mode} : SaveCoverMode(to)
    \/ \E j \in Callers :
           \/ \E r \in Releases : Upsert(j, r) \/ Link(j, r) \/ Backfill(j, r)
           \/ Decide(j) \/ Fetching(j) \/ Settle(j) \/ Store(j) \/ RowFails(j)

CoverSpec == CoverInit /\ [][CoverNext]_coverVars

(***************************************************************************)
(* Properties.                                                             *)
(***************************************************************************)
\* One image is never being downloaded twice at once, and nobody waits for a
\* download that is over ("the exact burst this cache exists to prevent").
OneFetchPerUrl ==
    \A j, k \in Callers :
        /\ j # k /\ Busy(j, "fetching") /\ Busy(k, "fetching") => Url(j) # Url(k)
        /\ Busy(k, "waiting") => /\ call[call[k].lead].pc \in {"fetching", "clearing"}
                                 /\ Url(call[k].lead) = Url(k)

\* A call that saw nothing but the strict mode stores no provider's URL, and one
\* that never saw it stores no blank, whatever the mode reads in between.
ModeIsKept ==
    \A j \in Callers : Busy(j, "store") /\ call[j].was = "remote" =>
        /\ call[j].strict => call[j].result # "remote"
        /\ call[j].lenient => call[j].result # "blank"

\* The two, whatever the operator makes of the mode meanwhile.
CoversAreSound == OneFetchPerUrl /\ ModeIsKept

\* The provider is asked for an image a single time.
FetchedOnce == \A u \in Posters : gets[u] <= 1

\* A release the fill could not convert keeps its URL and is tried again by the
\* next process.
FailureKeepsTheUrl ==
    [][\A r \in Releases : cover[r] = "remote" => cover'[r] \in {"remote", "local"}]_coverVars

\* The row of a release and its catalogue entry hold the same cover, which is what
\* releaseArt joins them by, once nobody is working on them.
ArtIsReachable ==
    (\A j \in Callers : call[j] = NoCall) =>
        \A r \in Releases : cover[r] \in {"remote", "local"} /\ entry[PosterOf[r]] # "none"
                            => entry[PosterOf[r]] = cover[r]
===============================================================================
