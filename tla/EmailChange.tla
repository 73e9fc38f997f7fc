------------------------------ MODULE EmailChange ------------------------------
(***************************************************************************)
(* Changing an account's address: a request records a link (email_changes) *)
(* and following the link claims it, writes the address, and drops every   *)
(* other link of the account, each by a statement of its own.              *)
(*                                                                         *)
(* An address that fails the shape check is refused before anything is     *)
(* read, and is no step.  Any statement after the claim may fail, which is *)
(* also what a crash does to the request.                                  *)
(***************************************************************************)
EXTENDS Integers, FiniteSets

CONSTANTS
    Accounts,
    Addresses,
    Links,      \* tokens that newUndoToken may draw
    NoAddress,  \* the account has not registered; also: nothing requested
    OneOwner    \* whether the account store refuses an address twice

ASSUME EmailAssumption == NoAddress \notin Accounts \cup Addresses

VARIABLES
    address,  \* users.email
    link,     \* email_changes, "none" where there is no row
    asking,   \* the address each account's POST in flight has found free
    follow,   \* what the GET that claimed each link does next
    undropped \* history: accounts whose other links could not be dropped

emailVars == <<address, link, asking, follow, undropped>>

NoLink == [state |-> "none", of |-> NoAddress, to |-> NoAddress, from |-> NoAddress]
Link == [state : {"none", "live", "expired", "used"}, of : Accounts \cup {NoAddress},
         to : Addresses \cup {NoAddress}, from : Addresses \cup {NoAddress}]

EmailTypeOK ==
    /\ address \in [Accounts -> Addresses \cup {NoAddress}]
    /\ link \in [Links -> Link]
    /\ asking \in [Accounts -> Addresses \cup {NoAddress}]
    /\ follow \in [Links -> {"nothing", "apply", "drop"}]
    /\ undropped \subseteq Accounts

EmailInit ==
    /\ address = [a \in Accounts |-> NoAddress]
    /\ link = [l \in Links |-> NoLink]
    /\ asking = [a \in Accounts |-> NoAddress]
    /\ follow = [l \in Links |-> "nothing"]
    /\ undropped = {}

InUse(x) == \E a \in Accounts : address[a] = x

\* The account store gives an address to one registration only.
JoinWith(a, x) ==
    /\ address[a] = NoAddress /\ ~InUse(x)
    /\ address' = [address EXCEPT ![a] = x]
    /\ UNCHANGED <<link, asking, follow, undropped>>

(***************************************************************************)
(* requestEmailChange: an address of somebody else, or one's own, is       *)
(* refused; then the link is recorded, with an expiry the database sets.   *)
(***************************************************************************)
RequestChecks(a, x) ==
    /\ address[a] # NoAddress /\ asking[a] = NoAddress
    /\ ~InUse(x)
    /\ asking' = [asking EXCEPT ![a] = x]
    /\ UNCHANGED <<address, link, follow, undropped>>

StartEmailChange(a, l) ==
    /\ asking[a] # NoAddress /\ link[l].state = "none"
    /\ link' = [link EXCEPT ![l] = [state |-> "live", of |-> a, to |-> asking[a], from |-> address[a]]]
    /\ asking' = [asking EXCEPT ![a] = NoAddress]
    /\ UNCHANGED <<address, follow, undropped>>

RequestFails(a) ==
    /\ asking[a] # NoAddress
    /\ asking' = [asking EXCEPT ![a] = NoAddress]
    /\ UNCHANGED <<address, link, follow, undropped>>

LinkExpires(l) ==
    /\ link[l].state = "live"
    /\ link' = [link EXCEPT ![l].state = "expired"]
    /\ UNCHANGED <<address, asking, follow, undropped>>

(***************************************************************************)
(* emailConfirm.                                                           *)
(***************************************************************************)
ClaimEmailChange(l) ==
    /\ link[l].state = "live"
    /\ link' = [link EXCEPT ![l].state = "used"]
    /\ follow' = [follow EXCEPT ![l] = "apply"]
    /\ UNCHANGED <<address, asking, undropped>>

ApplyEmailChange(l) ==
    /\ follow[l] = "apply"
    /\ OneOwner => ~InUse(link[l].to)
    /\ address' = [address EXCEPT ![link[l].of] = link[l].to]
    /\ follow' = [follow EXCEPT ![l] = "drop"]
    /\ UNCHANGED <<link, asking, undropped>>

ApplyFails(l) ==
    /\ follow[l] = "apply"
    /\ follow' = [follow EXCEPT ![l] = "nothing"]
    /\ UNCHANGED <<address, link, asking, undropped>>

\* The rows with used_at NULL, whether they have expired or not.
DroppedLive(l) == {m \in Links : link[m].of = link[l].of /\ link[m].to = link[l].to /\ link[m].state = "live"}
Dropped(l) == {m \in Links : link[m].of = link[l].of /\ link[m].state \in {"live", "expired"}}

DropPendingEmailChanges(l) ==
    /\ follow[l] = "drop"
    /\ link' = [m \in Links |-> IF m \in Dropped(l) THEN [link[m] EXCEPT !.state = "used"] ELSE link[m]]
    /\ follow' = [follow EXCEPT ![l] = "nothing"]
    /\ UNCHANGED <<address, asking, undropped>>

\* Logged only: the change has been made.
DropFails(l) ==
    /\ follow[l] = "drop"
    /\ follow' = [follow EXCEPT ![l] = "nothing"]
    /\ undropped' = undropped \cup {link[l].of}
    /\ UNCHANGED <<address, link, asking>>

EmailNext ==
    \/ \E a \in Accounts : RequestFails(a)
    \/ \E a \in Accounts, x \in Addresses : JoinWith(a, x) \/ RequestChecks(a, x)
    \/ \E a \in Accounts, l \in Links : StartEmailChange(a, l)
    \/ \E l \in Links : \/ LinkExpires(l) \/ ClaimEmailChange(l)
                        \/ ApplyEmailChange(l) \/ ApplyFails(l)
                        \/ DropPendingEmailChanges(l) \/ DropFails(l)

EmailSpec == EmailInit /\ [][EmailNext]_emailVars

(***************************************************************************)
(* Properties.                                                             *)
(***************************************************************************)
Settled(a) == \A l \in Links : link[l].of = a => follow[l] = "nothing"

\* Once every change of an account has settled, and its other links could be
\* dropped, no link asked for under an address it has given up can still be
\* followed (emailConfirm: "they were all requested from the old address").
NoLinkFromOldAddress ==
    \A l \in Links :
        (link[l].state = "live" /\ Settled(link[l].of) /\ link[l].of \notin undropped)
            => link[l].from = address[link[l].of]

\* A link that changes an address was asked for under the address it replaces.
\* Two links claimed before either drops the other break this.
AppliedFromHere ==
    [][\A l \in Links :
        follow[l] = "apply" /\ follow'[l] = "drop" => link[l].from = address[link[l].of]]_emailVars
===============================================================================
