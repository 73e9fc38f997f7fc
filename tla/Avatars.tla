-------------------------------- MODULE Avatars --------------------------------
(***************************************************************************)
(* Avatars, the undo offers that put a cleared one back, the sweep that    *)
(* owns deleting the files, and the moderators' review queue.              *)
(*                                                                         *)
(* Every request is a few statements, each on its own; so is the sweep: it *)
(* lists the directory, reads the members' paths, then the undo offers,    *)
(* and then removes what neither named.  Whether an image is fit to store  *)
(* is judged before the first of these steps.                              *)
(***************************************************************************)
EXTENDS Integers, FiniteSets

CONSTANTS
    Uploaders,
    Pictures,   \* file names that avatarName may draw
    Offers,     \* undo tokens
    Requests,   \* requests being served
    NoPicture

ASSUME AvatarAssumption == NoPicture \notin Pictures

VARIABLES
    avatar,    \* users.avatar_path
    disk,      \* the avatars directory: "none", "young", "old" or "removed"
    offer,     \* undo_actions of kind avatar.cleared
    request,   \* what each request does next
    sweep,     \* the sweep under way
    unvetted,  \* members whose avatar changed after it was last reviewed
    crossed    \* history: pictures being cleared or restored as a sweep read

avatarVars == <<avatar, disk, offer, request, sweep, unvetted, crossed>>

NoOffer == [state |-> "none", expired |-> FALSE, of |-> NoPicture, picture |-> NoPicture]
Idling == [op |-> "idle", for |-> NoPicture, picture |-> NoPicture, offer |-> NoPicture, moderator |-> FALSE]
NoSweep == [pc |-> "idle", found |-> {}, keep |-> {}]

AvatarTypeOK ==
    /\ avatar \in [Uploaders -> Pictures \cup {NoPicture}]
    /\ disk \in [Pictures -> {"none", "young", "old", "removed"}]
    /\ offer \in [Offers -> [state : {"none", "live", "used"}, expired : BOOLEAN,
                             of : Uploaders \cup {NoPicture}, picture : Pictures \cup {NoPicture}]]
    /\ request \in [Requests -> [op : {"idle", "upload", "clear", "record", "review", "restore"},
                                 for : Uploaders \cup {NoPicture}, picture : Pictures \cup {NoPicture},
                                 offer : Offers \cup {NoPicture}, moderator : BOOLEAN]]
    /\ sweep \in [pc : {"idle", "listed", "users", "remove"}, found : SUBSET Pictures, keep : SUBSET Pictures]
    /\ unvetted \subseteq Uploaders /\ crossed \subseteq Pictures

AvatarInit ==
    /\ avatar = [m \in Uploaders |-> NoPicture] /\ disk = [p \in Pictures |-> "none"]
    /\ offer = [o \in Offers |-> NoOffer] /\ request = [q \in Requests |-> Idling]
    /\ sweep = NoSweep /\ unvetted = {}
    /\ crossed = {}

Become(q, r) == request' = [request EXCEPT ![q] = r]
EndRequest(q) == Become(q, Idling)

(***************************************************************************)
(* setAvatar: the file is saved first, and taken back if the row cannot    *)
(* be updated.  A crash between the two leaves it to the sweep.            *)
(***************************************************************************)
UploadSaves(q, m, p) ==
    /\ request[q].op = "idle" /\ disk[p] = "none"
    /\ disk' = [disk EXCEPT ![p] = "young"]
    /\ Become(q, [Idling EXCEPT !.op = "upload", !.for = m, !.picture = p])
    /\ UNCHANGED <<avatar, offer, sweep, unvetted, crossed>>

UploadSets(q) ==
    /\ request[q].op = "upload"
    /\ avatar' = [avatar EXCEPT ![request[q].for] = request[q].picture]
    /\ unvetted' = unvetted \cup {request[q].for}
    /\ EndRequest(q)
    /\ UNCHANGED <<disk, offer, sweep, crossed>>

UploadFails(q, crash) ==
    /\ request[q].op = "upload"
    /\ disk' = IF crash THEN disk ELSE [disk EXCEPT ![request[q].picture] = "removed"]
    /\ EndRequest(q)
    /\ UNCHANGED <<avatar, offer, sweep, unvetted, crossed>>

(***************************************************************************)
(* clearAvatar, by the member or by a moderator, who also marks the member *)
(* reviewed: the path is read, the row is cleared, the offer is recorded.  *)
(***************************************************************************)
ClearReads(q, m, byModerator) ==
    /\ request[q].op = "idle"
    /\ Become(q, [Idling EXCEPT !.op = "clear", !.for = m, !.picture = avatar[m], !.moderator = byModerator])
    /\ UNCHANGED <<avatar, disk, offer, sweep, unvetted, crossed>>

AfterClear(q) == IF request[q].moderator THEN [request[q] EXCEPT !.op = "review"] ELSE Idling

ClearWrites(q) ==
    /\ request[q].op = "clear"
    /\ avatar' = [avatar EXCEPT ![request[q].for] = NoPicture]
    /\ Become(q, IF request[q].picture = NoPicture THEN AfterClear(q) ELSE [request[q] EXCEPT !.op = "record"])
    /\ UNCHANGED <<disk, offer, sweep, unvetted, crossed>>

RecordUndo(q, o) ==
    /\ request[q].op = "record" /\ offer[o].state = "none"
    /\ offer' = [offer EXCEPT ![o] = [state |-> "live", expired |-> FALSE,
                                      of |-> request[q].for, picture |-> request[q].picture]]
    /\ Become(q, AfterClear(q))
    /\ UNCHANGED <<avatar, disk, sweep, unvetted, crossed>>

\* Recording is best effort, and a crash ends a request anywhere.
ClearFails(q) ==
    /\ request[q].op \in {"clear", "record", "review"} /\ EndRequest(q)
    /\ UNCHANGED <<avatar, disk, offer, sweep, unvetted, crossed>>

(***************************************************************************)
(* performUndo: the offer is claimed, then the path is written back; an    *)
(* offer whose restoring failed is put back.                               *)
(***************************************************************************)
ClaimUndo(q, o) ==
    /\ request[q].op = "idle"
    /\ offer[o].state = "live" /\ ~offer[o].expired
    /\ offer' = [offer EXCEPT ![o].state = "used"]
    /\ Become(q, [Idling EXCEPT !.op = "restore", !.for = offer[o].of,
                                !.picture = offer[o].picture, !.offer = o])
    /\ crossed' = IF sweep.pc = "users" THEN crossed \cup {offer[o].picture} ELSE crossed
    /\ UNCHANGED <<avatar, disk, sweep, unvetted>>

Restore(q) ==
    /\ request[q].op = "restore"
    /\ avatar' = [avatar EXCEPT ![request[q].for] = request[q].picture]
    /\ unvetted' = unvetted \cup {request[q].for}
    /\ EndRequest(q)
    /\ UNCHANGED <<disk, offer, sweep, crossed>>

RestoreFails(q, crash) ==
    /\ request[q].op = "restore"
    /\ offer' = IF crash THEN offer ELSE [offer EXCEPT ![request[q].offer].state = "live"]
    /\ EndRequest(q)
    /\ UNCHANGED <<avatar, disk, sweep, unvetted, crossed>>

\* The fifteen minutes pass.  A row that purgeUndo deletes a day later is one that
\* no statement would have matched again.
OfferExpires(o) ==
    /\ offer[o].state # "none" /\ ~offer[o].expired
    /\ offer' = [offer EXCEPT ![o].expired = TRUE]
    /\ UNCHANGED <<avatar, disk, request, sweep, unvetted, crossed>>

(***************************************************************************)
(* sweepAvatars.  Half an hour is longer than any request or sweep: a file *)
(* whose upload is under way is young, and so is one that was as the sweep *)
(* began.  A read that fails ends the sweep.                               *)
(***************************************************************************)
PictureAges(p) ==
    /\ disk[p] = "young" /\ sweep.pc = "idle"
    /\ \A q \in Requests : request[q].op = "upload" => request[q].picture # p
    /\ disk' = [disk EXCEPT ![p] = "old"]
    /\ UNCHANGED <<avatar, offer, request, sweep, unvetted, crossed>>

Changing == {request[q].picture : q \in {r \in Requests : request[r].op \in {"clear", "record", "restore"}}}
                \ {NoPicture}

SweepLists ==
    /\ sweep.pc = "idle"
    /\ sweep' = [pc |-> "listed", found |-> {p \in Pictures : disk[p] \in {"young", "old"}}, keep |-> {}]
    /\ UNCHANGED <<avatar, disk, offer, request, unvetted, crossed>>

SweepReadsPaths ==
    /\ sweep.pc = "listed"
    /\ sweep' = [sweep EXCEPT !.pc = "users", !.keep = {avatar[m] : m \in Uploaders} \ {NoPicture}]
    /\ crossed' = crossed \cup Changing
    /\ UNCHANGED <<avatar, disk, offer, request, unvetted>>

OffersIgnored == {}
OffersKept == {offer[o].picture : o \in {x \in Offers : offer[x].state = "live" /\ ~offer[x].expired}}

SweepReadsOffers ==
    /\ sweep.pc = "users"
    /\ sweep' = [sweep EXCEPT !.pc = "remove", !.keep = @ \cup OffersKept]
    /\ crossed' = crossed \cup Changing
    /\ UNCHANGED <<avatar, disk, offer, request, unvetted>>

SweepRemoves(p) ==
    /\ sweep.pc = "remove" /\ p \in sweep.found \ sweep.keep /\ disk[p] = "old"
    /\ disk' = [disk EXCEPT ![p] = "removed"]
    /\ UNCHANGED <<avatar, offer, request, sweep, unvetted, crossed>>

SweepEnds ==
    /\ sweep.pc # "idle" /\ sweep' = NoSweep
    /\ UNCHANGED <<avatar, disk, offer, request, unvetted, crossed>>

(***************************************************************************)
(* The review queue.  A moderator marks the member, whichever picture the  *)
(* page they have open was showing.                                        *)
(***************************************************************************)
Approve(m) ==
    /\ m \in unvetted /\ unvetted' = unvetted \ {m}
    /\ UNCHANGED <<avatar, disk, offer, request, sweep, crossed>>

MarkReviewed(q) ==
    /\ request[q].op = "review"
    /\ unvetted' = unvetted \ {request[q].for} /\ EndRequest(q)
    /\ UNCHANGED <<avatar, disk, offer, sweep, crossed>>

AvatarNext ==
    \/ SweepLists \/ SweepReadsPaths \/ SweepReadsOffers \/ SweepEnds
    \/ \E p \in Pictures : PictureAges(p) \/ SweepRemoves(p)
    \/ \E o \in Offers : OfferExpires(o)
    \/ \E m \in Uploaders : Approve(m)
    \/ \E q \in Requests :
        \/ \E m \in Uploaders, p \in Pictures : UploadSaves(q, m, p)
        \/ \E m \in Uploaders, byModerator \in BOOLEAN : ClearReads(q, m, byModerator)
        \/ \E o \in Offers : RecordUndo(q, o) \/ ClaimUndo(q, o)
        \/ \E crash \in BOOLEAN : UploadFails(q, crash) \/ RestoreFails(q, crash)
        \/ UploadSets(q) \/ ClearWrites(q) \/ ClearFails(q) \/ Restore(q) \/ MarkReviewed(q)

AvatarSpec == AvatarInit /\ [][AvatarNext]_avatarVars

(***************************************************************************)
(* Properties.                                                             *)
(***************************************************************************)
OnDisk(p) == disk[p] \in {"young", "old"}
Needed(p) == \/ \E m \in Uploaders : avatar[m] = p
             \/ \E o \in Offers : offer[o].state = "live" /\ ~offer[o].expired /\ offer[o].picture = p

\* The sweep takes no file that a member shows or an undo can still bring back,
\* unless that picture was being cleared or restored as the sweep read.
SweptIsUnneeded == \A p \in Pictures \ crossed : Needed(p) => OnDisk(p)

\* "a file goes when NO row references it AND no undo record could still need it"
\* (avatarsweep_web.go): every avatar a member shows has its file.
ShownAvatarHasFile == \A m \in Uploaders : avatar[m] # NoPicture => OnDisk(avatar[m])
===============================================================================
