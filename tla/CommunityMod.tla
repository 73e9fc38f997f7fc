------------------------------ MODULE CommunityMod -----------------------------
(***************************************************************************)
(* The queue of reported avatars (communitymod_web.go).  A report opens an *)
(* item or adds a vote to the one that is open; curators vote on the page, *)
(* and a vote that makes the tally decisive carries out what was decided;  *)
(* staff may close an item outright.                                       *)
(*                                                                         *)
(* Every handler is a few statements, each on its own.  What a cleared     *)
(* avatar leaves behind, its undo and its file, is in Avatars.             *)
(***************************************************************************)
EXTENDS Integers, Sequences, FiniteSets

CONSTANTS
    Voters,         \* members who report, one request of each at a time
    Curators,       \* those of them who may open the queue: administrators
    Subjects,       \* members whose pictures are reported
    Community,      \* who resolved an item that no moderator did
    MaxItems, MaxPictures,  \* bounds: items ever opened, pictures a member ever shows
    MaxModMishaps   \* bound: statements that fail, and processes that end

ASSUME ModAssumption ==
    /\ Curators \subseteq Voters /\ Community \notin Voters
    /\ MaxItems \in Nat /\ MaxPictures \in Nat /\ MaxModMishaps \in Nat

VARIABLES
    items,          \* moderation_items with their votes, by id
    picture,        \* users.avatar_path: the member's nth, or 0 for none
    pictures,       \* how many each member has shown
    ballot,         \* what each member's request does next
    cleared,        \* history: the items whose removal was carried out
    modMishaps

modVars == <<items, picture, pictures, ballot, cleared, modMishaps>>

NoBallot == [at |-> "idle", id |-> 0, of |-> Community, ref |-> 0, vote |-> "", res |-> "", by |-> Community]
Goes(v, b) == ballot' = [ballot EXCEPT ![v] = b]
Done(v) == Goes(v, NoBallot)

OpenItems(s) == {id \in DOMAIN items : items[id].of = s /\ items[id].resolution = "open"}

-----------------------------------------------------------------------------
(* voteOutcome.                                                            *)

VoteQuorum == 3
VoteOutcome(removes, keeps) ==
    LET total == removes + keeps IN
    IF total < VoteQuorum THEN ""
    ELSE IF removes * 3 >= total * 2 THEN "removed"
    ELSE IF keeps * 3 >= total * 2 THEN "kept" ELSE ""

Count(id, vote) == Cardinality({v \in Voters : items[id].votes[v] = vote})
Tally(id) == VoteOutcome(Count(id, "remove"), Count(id, "keep"))

CastVote(id, v, vote, filed) ==
    items' = [items EXCEPT ![id].votes[v] = vote, ![id].filed = filed]

-----------------------------------------------------------------------------
(* reportAvatar.                                                           *)

ReportReads(v, s) ==
    /\ ballot[v].at = "idle"
    /\ v # s /\ picture[s] # 0
    /\ Goes(v, [NoBallot EXCEPT !.at = "file", !.of = s, !.ref = picture[s]])
    /\ UNCHANGED <<items, picture, pictures, cleared, modMishaps>>

\* The partial index lets one open item of a member in.
ReportFiles(v) ==
    LET b == ballot[v] IN
    /\ b.at = "file"
    /\ IF OpenItems(b.of) # {}
       THEN UNCHANGED items /\ Goes(v, [b EXCEPT !.at = "find"])
       ELSE /\ Len(items) < MaxItems
            /\ items' = Append(items, [of |-> b.of, ref |-> b.ref, votes |-> [w \in Voters |-> "none"],
                                       filed |-> FALSE, resolution |-> "open", by |-> Community])
            /\ Goes(v, [b EXCEPT !.at = "report", !.id = Len(items) + 1])
    /\ UNCHANGED <<picture, pictures, cleared, modMishaps>>

\* The item may have been closed since; the report then ends in an error.
ReportFinds(v) ==
    /\ ballot[v].at = "find"
    /\ \/ \E id \in OpenItems(ballot[v].of) : Goes(v, [ballot[v] EXCEPT !.at = "report", !.id = id])
       \/ OpenItems(ballot[v].of) = {} /\ Done(v)
    /\ UNCHANGED <<items, picture, pictures, cleared, modMishaps>>

ReportVotes(v) ==
    /\ ballot[v].at = "report"
    /\ CastVote(ballot[v].id, v, "remove", TRUE)
    /\ Done(v)
    /\ UNCHANGED <<picture, pictures, cleared, modMishaps>>

-----------------------------------------------------------------------------
(* communityModVote.                                                       *)

\* An item that is closed takes no vote, and nobody votes on their own.
VoteReads(v, id, vote) ==
    /\ ballot[v].at = "idle" /\ v \in Curators
    /\ items[id].resolution = "open" /\ items[id].of # v
    /\ Goes(v, [NoBallot EXCEPT !.at = "cast", !.id = id, !.vote = vote])
    /\ UNCHANGED <<items, picture, pictures, cleared, modMishaps>>

VoteCasts(v) ==
    /\ ballot[v].at = "cast"
    /\ CastVote(ballot[v].id, v, ballot[v].vote, FALSE)
    /\ Goes(v, [ballot[v] EXCEPT !.at = "decide"])
    /\ UNCHANGED <<picture, pictures, cleared, modMishaps>>

\* Mutant: the votes that were there before this one.
TallyWithout(id, v) ==
    LET others(vote) == Cardinality({w \in Voters \ {v} : items[id].votes[w] = vote})
    IN  VoteOutcome(others("remove"), others("keep"))
TallyFor(id, v) == Tally(id)

Decide(v) ==
    /\ ballot[v].at = "decide"
    /\ LET res == TallyFor(ballot[v].id, v)
       IN  IF res = "" THEN Done(v) ELSE Goes(v, [ballot[v] EXCEPT !.at = "resolve", !.res = res])
    /\ UNCHANGED <<items, picture, pictures, cleared, modMishaps>>

StaffResolves(v, id, res) ==
    /\ ballot[v].at = "idle" /\ v \in Curators
    /\ Goes(v, [NoBallot EXCEPT !.at = "resolve", !.id = id, !.res = res, !.by = v])
    /\ UNCHANGED <<items, picture, pictures, cleared, modMishaps>>

(***************************************************************************)
(* resolveItem: the item is looked up, a removal is carried out, and the   *)
(* item is closed unless somebody else closed it meanwhile.                *)
(***************************************************************************)
ResolveReads(v) ==
    LET b == ballot[v] IN
    /\ b.at = "resolve"
    /\ IF items[b.id].resolution # "open" THEN Done(v)
       ELSE Goes(v, [b EXCEPT !.at = IF b.res = "removed" THEN "apply" ELSE "close"])
    /\ UNCHANGED <<items, picture, pictures, cleared, modMishaps>>

ApplyResolution(v) ==
    /\ ballot[v].at = "apply"
    /\ picture' = [picture EXCEPT ![items[ballot[v].id].of] = 0]
    /\ cleared' = cleared \cup {ballot[v].id}
    /\ Goes(v, [ballot[v] EXCEPT !.at = "close"])
    /\ UNCHANGED <<items, pictures, modMishaps>>

ResolveCloses(v) ==
    LET b == ballot[v] IN
    /\ b.at = "close"
    /\ items' = IF items[b.id].resolution # "open" THEN items
                ELSE [items EXCEPT ![b.id].resolution = b.res, ![b.id].by = b.by]
    /\ Done(v)
    /\ UNCHANGED <<picture, pictures, cleared, modMishaps>>

\* A statement fails, or the process ends.
ModerationFails(v) ==
    /\ ballot[v].at # "idle"
    /\ modMishaps < MaxModMishaps /\ modMishaps' = modMishaps + 1
    /\ Done(v)
    /\ UNCHANGED <<items, picture, pictures, cleared>>

-----------------------------------------------------------------------------
(* The member uploads another picture, or takes theirs down.               *)

ShowsAnother(s) ==
    /\ pictures[s] < MaxPictures
    /\ pictures' = [pictures EXCEPT ![s] = @ + 1]
    /\ picture' = [picture EXCEPT ![s] = pictures[s] + 1]
    /\ UNCHANGED <<items, ballot, cleared, modMishaps>>

TakesDown(s) ==
    /\ picture' = [picture EXCEPT ![s] = 0]
    /\ UNCHANGED <<items, pictures, ballot, cleared, modMishaps>>

\* The undo of a removal, their own or the queue's.
PutsBack(s) ==
    /\ picture' \in {[picture EXCEPT ![s] = n] : n \in 1..pictures[s]}
    /\ UNCHANGED <<items, pictures, ballot, cleared, modMishaps>>

ModInit ==
    /\ items = << >> /\ ballot = [v \in Voters |-> NoBallot]
    /\ picture = [s \in Subjects |-> 0] /\ pictures = [s \in Subjects |-> 0]
    /\ cleared = {} /\ modMishaps = 0

ModNext ==
    \/ \E s \in Subjects : ShowsAnother(s) \/ TakesDown(s) \/ PutsBack(s) \/ \E v \in Voters : ReportReads(v, s)
    \/ \E v \in Voters :
          \/ ReportFiles(v) \/ ReportFinds(v) \/ ReportVotes(v)
          \/ VoteCasts(v) \/ Decide(v)
          \/ ResolveReads(v) \/ ApplyResolution(v) \/ ResolveCloses(v) \/ ModerationFails(v)
          \/ \E id \in DOMAIN items :
                \/ \E vote \in {"remove", "keep"} : VoteReads(v, id, vote)
                \/ \E res \in {"removed", "kept"} : StaffResolves(v, id, res)

ModSpec == ModInit /\ [][ModNext]_modVars

-----------------------------------------------------------------------------
ModTypeOK ==
    /\ \A id \in DOMAIN items :
          /\ items[id].of \in Subjects /\ items[id].votes \in [Voters -> {"none", "remove", "keep"}]
          /\ items[id].resolution \in {"open", "removed", "kept"} /\ items[id].by \in Voters \cup {Community}
    /\ \A s \in Subjects : picture[s] \in 0..pictures[s]
    /\ cleared \subseteq DOMAIN items /\ modMishaps \in 0..MaxModMishaps

AtRest == \A v \in Voters : ballot[v].at = "idle"
Decisive(id) == items[id].resolution = "open" /\ Tally(id) # ""

\* However votes cross, the one that was counted last finds them all: nothing that was voted
\* on in the queue stays open with a decisive tally (communitymod_web.go:164-166).
LastVoteDecides ==
    [][(AtRest /\ modMishaps = 0)' => \A id \in DOMAIN items' : Decisive(id)' => items'[id].filed]_modVars

\* What the history says of an item was done: a removal was carried out before it is
\* recorded, and a decision of the community had its quorum.
DecisionsAreTrue ==
    [][\A id \in DOMAIN items' :
          /\ items'[id].resolution = "removed" => id \in cleared'
          /\ (items'[id].resolution # "open" /\ items'[id].by = Community) =>
                (Count(id, "remove") + Count(id, "keep"))' >= VoteQuorum]_modVars

\* Two decisions at once leave the one that came first, and who made it.
DecidedOnce ==
    [][\A id \in DOMAIN items : items[id].resolution # "open" =>
          items'[id].resolution = items[id].resolution /\ items'[id].by = items[id].by]_modVars

\* The queue does what its curators voted for, once, and says so.
VotesDecide == LastVoteDecides /\ DecisionsAreTrue /\ DecidedOnce

\* Violated: a report is a vote (communitymod_web.go:42) and decide is "called after every
\* vote" (:164), but a report never calls it.
DecidedAfterEveryVote ==
    AtRest /\ modMishaps = 0 => \A id \in DOMAIN items : ~Decisive(id)

\* Checked by hand, and violated.  The picture that goes is the one that was reported
\* (storage/migrate.go:307-309), not what the member shows since.
ReportedPictureGoes ==
    [][\A id \in cleared' \ cleared : picture[items[id].of] \in {0, items[id].ref}]_modVars
\* An item that was kept took nothing down: a removal under way beside it does.
KeptIsKept == \A id \in DOMAIN items : items[id].resolution = "kept" => id \notin cleared
\* A vote finds the item open (storage/settings.go:61-63): it is cast by a later statement.
OnlyOpenIsVotedOn ==
    [][\A id \in DOMAIN items : items[id].resolution # "open" => items'[id].votes = items[id].votes]_modVars
===============================================================================
