-------------------------------- MODULE Invites --------------------------------
(***************************************************************************)
(* Invitations: a member's balance (users.invites), the codes it is spent  *)
(* on (invite_codes), and the registration gate the codes open.            *)
(*                                                                         *)
(* A step is one statement or one transaction, with the code that follows  *)
(* it up to the next one.  Reads and the writes they decide on are         *)
(* therefore separate steps, as they are in the handlers: a registration   *)
(* looks a code up, creates an account and only then redeems; an issuer's  *)
(* limits are checked before the mint; a refund follows its revocation.    *)
(***************************************************************************)
EXTENDS Integers, FiniteSets

CONSTANTS
    Members,     \* account ids, the ones still to be created included
    Founders,    \* accounts that exist at the start
    Nobody,      \* created_by 0: issued by the site itself; also SQL NULL
    Codes,       \* codes that newInviteCode may draw
    Emails,      \* normalised addresses
    NoEmail,     \* the empty address
    Visitors,    \* registrations the site serves at once
    Issuers,     \* POST /invites requests the site serves at once
    Modes,       \* registration modes the operator switches between
    FirstMode,   \* the one in force at the start
    PluginModes, \* those that plugins added
    InviteModes, \* plugin modes with RequiresInvite
    Options,     \* invite options the operator switches between
    MaxGranted,  \* bound: invites ever granted to one member
    SiteIssues,  \* whether plugins issue invites through the InviteIssuer
    Faults       \* whether a statement may fail

ASSUME InvitesAssumption ==
    /\ Founders \subseteq Members /\ Nobody \notin Members \cup Codes
    /\ NoEmail \notin Emails
    /\ FirstMode \in Modes
    /\ Modes \subseteq {"open", "invite", "closed"} \cup PluginModes
    /\ PluginModes \cap {"open", "invite", "closed"} = {} /\ InviteModes \subseteq PluginModes
    /\ Options # {}
    /\ Options \subseteq [required : BOOLEAN, strict : BOOLEAN, revoke : BOOLEAN,
                          refund : BOOLEAN, cap : Nat]
    /\ MaxGranted \in Nat /\ SiteIssues \in BOOLEAN /\ Faults \in BOOLEAN

VARIABLES
    user,     \* users: how each account joined, its address, balance and session
    code,     \* invite_codes, with by = Nobody and live = FALSE before the mint
    mode,     \* regMode, the mirror of access_registration
    opts,     \* the invite option mirrors
    visitor,  \* registerPost handlers in flight
    issuer,   \* invitesCreate handlers in flight
    owed,     \* invitesRevoke handlers between the revocation and the refund
    granted   \* history: invites each member was ever granted

vars == <<user, code, mode, opts, visitor, issuer, owed, granted>>

Address == Emails \cup {NoEmail}
Account == [gate : {"none", "founder", "open", "invite"}, email : Address,
            invites : Nat, session : BOOLEAN]
Code == [minted : BOOLEAN, by : Members \cup {Nobody}, email : Address,
         used : Members \cup {Nobody}, revoked : BOOLEAN, live : BOOLEAN,
         charged : BOOLEAN, refunded : BOOLEAN]
Visit == [pc : {"idle", "gate", "create", "redeem"}, mode : Modes \cup {"invite"},
          email : Address, code : Codes \cup {Nobody}, as : Members \cup {Nobody}]
Issue == [pc : {"idle", "count", "mint"}, by : Members \cup {Nobody},
          email : Address, cap : Nat]

NoAccount == [gate |-> "none", email |-> NoEmail, invites |-> 0, session |-> FALSE]
NoCode == [minted |-> FALSE, by |-> Nobody, email |-> NoEmail, used |-> Nobody,
           revoked |-> FALSE, live |-> FALSE, charged |-> FALSE, refunded |-> FALSE]
IdleIssue == [pc |-> "idle", by |-> Nobody, email |-> NoEmail, cap |-> 0]
IdleVisit == [pc |-> "idle", mode |-> FirstMode, email |-> NoEmail,
              code |-> Nobody, as |-> Nobody]

TypeOK ==
    /\ user \in [Members -> Account]
    /\ code \in [Codes -> Code]
    /\ mode \in Modes /\ opts \in Options
    /\ visitor \in [Visitors -> Visit]
    /\ issuer \in [Issuers -> Issue]
    /\ owed \subseteq Members \X Codes
    /\ granted \in [Members -> 0 .. MaxGranted]

Init ==
    /\ user = [m \in Members |-> IF m \in Founders
                                 THEN [NoAccount EXCEPT !.gate = "founder"] ELSE NoAccount]
    /\ code = [c \in Codes |-> NoCode]
    /\ mode = FirstMode
    /\ opts \in Options
    /\ visitor = [v \in Visitors |-> IdleVisit]
    /\ issuer = [i \in Issuers |-> IdleIssue]
    /\ owed = {}
    /\ granted = [m \in Members |-> 0]

Exists(m) == user[m].gate # "none"
Spent(c) == code[c].used # Nobody
Pending(c) == code[c].minted /\ ~Spent(c) /\ ~code[c].revoked /\ code[c].live
PendingOf(m) == {c \in Codes : Pending(c) /\ code[c].by = m}

(***************************************************************************)
(* The operator's settings and the store's grants.                         *)
(***************************************************************************)
saveAccessSettings(mo) ==
    /\ mode' = mo
    /\ UNCHANGED <<user, code, opts, visitor, issuer, owed, granted>>

saveInviteOptions(o) ==
    /\ opts' = o
    /\ UNCHANGED <<user, code, mode, visitor, issuer, owed, granted>>

GrantInvites(m) ==
    /\ Exists(m) /\ granted[m] < MaxGranted
    /\ user' = [user EXCEPT ![m].invites = @ + 1]
    /\ granted' = [granted EXCEPT ![m] = @ + 1]
    /\ UNCHANGED <<code, mode, opts, visitor, issuer, owed>>

(***************************************************************************)
(* invitesCreate: the address is looked up, the member's pending invites   *)
(* are counted, and only then are the balance and the code exchanged, in   *)
(* one transaction.                                                        *)
(***************************************************************************)
AddressIsFree(e) ==
    /\ \A c \in Codes : Pending(c) => code[c].email # e
    /\ \A m \in Members : Exists(m) => user[m].email # e

CreateBegin(i, m, e) ==
    /\ issuer[i].pc = "idle" /\ Exists(m)
    /\ opts.required => e # NoEmail /\ (AddressIsFree(e) \/ Faults)
    /\ issuer' = [issuer EXCEPT ![i] = [pc |-> "count", by |-> m, email |-> e,
                                        cap |-> opts.cap]]
    /\ UNCHANGED <<user, code, mode, opts, visitor, owed, granted>>

CreateCount(i) ==
    LET r == issuer[i] IN
    /\ r.pc = "count"
    /\ issuer' = [issuer EXCEPT ![i] =
                     IF r.cap > 0 /\ Cardinality(PendingOf(r.by)) >= r.cap
                     THEN IdleIssue ELSE [r EXCEPT !.pc = "mint"]]
    /\ UNCHANGED <<user, code, mode, opts, visitor, owed, granted>>

CanPay(m) == user[m].invites > 0

\* MintInviteCode, with a code newInviteCode has never drawn before.
Mint(c, m, e, charged) ==
    /\ ~code[c].minted
    /\ code' = [code EXCEPT ![c] = [NoCode EXCEPT !.minted = TRUE, !.by = m, !.email = e,
                                                  !.live = TRUE, !.charged = charged]]
    /\ user' = IF charged THEN [user EXCEPT ![m].invites = @ - 1] ELSE user

CreateMint(i) ==
    LET r == issuer[i] IN
    /\ r.pc = "mint"
    /\ IF CanPay(r.by) THEN \E c \in Codes : Mint(c, r.by, r.email, TRUE)
                       ELSE UNCHANGED <<user, code>>
    /\ issuer' = [issuer EXCEPT ![i] = IdleIssue]
    /\ UNCHANGED <<mode, opts, visitor, owed, granted>>

\* A failing count answers 0, a failing mint rolls back and answers an error.
CreateFails(i) ==
    /\ Faults /\ issuer[i].pc # "idle"
    /\ issuer' = [issuer EXCEPT ![i] = IF @.pc = "count" THEN [@ EXCEPT !.pc = "mint"]
                                                         ELSE IdleIssue]
    /\ UNCHANGED <<user, code, mode, opts, visitor, owed, granted>>

\* inviteIssuer.IssueInvite: no limits, and the issuer's balance only if asked.
IssueInvite(m, e, charge) ==
    /\ SiteIssues /\ e # NoEmail /\ (m \in Members => Exists(m))
    /\ charge => m \in Members /\ CanPay(m)
    /\ \E c \in Codes : Mint(c, m, e, charge)
    /\ UNCHANGED <<mode, opts, visitor, issuer, owed, granted>>

(***************************************************************************)
(* The end of a code: its expiry, a revocation by its issuer or by staff.  *)
(* RevokeInviteCode checks everything in the statement; the refund is the  *)
(* handler's next one, and the setting is read again for it.               *)
(***************************************************************************)
Expire(c) ==
    /\ code[c].live
    /\ code' = [code EXCEPT ![c].live = FALSE]
    /\ UNCHANGED <<user, mode, opts, visitor, issuer, owed, granted>>

RevocableTwice(c) == code[c].minted /\ ~Spent(c)
Revocable(c) == code[c].minted /\ ~Spent(c) /\ ~code[c].revoked

invitesRevoke(m, c) ==
    /\ opts.revoke /\ code[c].by = m /\ Revocable(c)
    /\ code' = [code EXCEPT ![c].revoked = TRUE]
    /\ owed' = owed \cup {<<m, c>>}
    /\ UNCHANGED <<user, mode, opts, visitor, issuer, granted>>

RefundInvite(m, c) ==
    /\ <<m, c>> \in owed
    /\ owed' = owed \ {<<m, c>>}
    /\ \/ /\ opts.refund
          /\ user' = [user EXCEPT ![m].invites = @ + 1]
          /\ code' = [code EXCEPT ![c].refunded = TRUE]
       \/ (~opts.refund \/ Faults) /\ UNCHANGED <<user, code>>
    /\ UNCHANGED <<mode, opts, visitor, issuer, granted>>

adminInvitesRevoke(c) ==
    /\ Revocable(c)
    /\ code' = [code EXCEPT ![c].revoked = TRUE]
    /\ UNCHANGED <<user, mode, opts, visitor, issuer, owed, granted>>

(***************************************************************************)
(* registerPost.  The mode is read twice: readRegisterInput fills          *)
(* in.RegMode, and the handler then asks registrationModeInfo afresh.      *)
(***************************************************************************)
RegisterBegin(v, e, c) ==
    /\ visitor[v].pc = "idle"
    /\ visitor' = [visitor EXCEPT ![v] = [pc |-> "gate", mode |-> mode, email |-> e,
                                          code |-> c, as |-> Nobody]]
    /\ UNCHANGED <<user, code, mode, opts, issuer, owed, granted>>

\* A plugin's mode is settled by its flags, from the second read; what is left
\* of the first read meets the built-in modes.
Settled(read) == IF mode \in InviteModes THEN "invite"
                 ELSE IF mode \in PluginModes THEN "closed" ELSE read

\* LookupInviteCode and the email lock.
LockOffWhenEmpty(r) ==
    opts.strict /\ code[r.code].email # NoEmail /\ r.email # NoEmail => r.email = code[r.code].email
LockOpens(r) ==
    opts.strict /\ code[r.code].email # NoEmail => r.email = code[r.code].email

RegisterGate(v) ==
    LET r == visitor[v]
        settled == Settled(r.mode) IN
    /\ r.pc = "gate"
    /\ visitor' = [visitor EXCEPT ![v] =
          IF \/ settled = "closed"
             \/ settled = "invite" /\ ~(Pending(r.code) /\ LockOpens(r))
          THEN IdleVisit ELSE [r EXCEPT !.pc = "create", !.mode = settled]]
    /\ UNCHANGED <<user, code, mode, opts, issuer, owed, granted>>

\* flow.Register (external): a new account, or a refusal.  Without an invite to
\* redeem the session follows at once.
RegisterCreate(v) ==
    LET r == visitor[v]
        invited == r.mode = "invite" IN
    /\ r.pc = "create"
    /\ \/ \E m \in Members :
            /\ ~Exists(m)
            /\ user' = [user EXCEPT ![m] =
                  [NoAccount EXCEPT !.gate = IF invited THEN "invite" ELSE "open",
                                    !.email = r.email, !.session = ~invited]]
            /\ visitor' = [visitor EXCEPT ![v] =
                  IF invited THEN [r EXCEPT !.pc = "redeem", !.as = m] ELSE IdleVisit]
       \/ UNCHANGED user /\ visitor' = [visitor EXCEPT ![v] = IdleVisit]
    /\ UNCHANGED <<code, mode, opts, issuer, owed, granted>>

\* RedeemInviteCode, then the session: what the redemption answered is logged.
RedeemableUsed(c) == code[c].minted /\ ~code[c].revoked /\ code[c].live
Redeemable(c) == Pending(c)

RegisterRedeem(v) ==
    LET r == visitor[v] IN
    /\ r.pc = "redeem"
    /\ \/ code' = IF Redeemable(r.code) THEN [code EXCEPT ![r.code].used = r.as] ELSE code
       \/ Faults /\ UNCHANGED code
    /\ user' = [user EXCEPT ![r.as].session = TRUE]
    /\ visitor' = [visitor EXCEPT ![v] = IdleVisit]
    /\ UNCHANGED <<mode, opts, issuer, owed, granted>>

-----------------------------------------------------------------------------
Operator ==
    \/ \E mo \in Modes \ {mode} : saveAccessSettings(mo)
    \/ \E o \in Options \ {opts} : saveInviteOptions(o)
    \/ \E c \in Codes : adminInvitesRevoke(c)

Create ==
    \/ \E i \in Issuers, m \in Members, e \in Address : CreateBegin(i, m, e)
    \/ \E i \in Issuers : CreateCount(i) \/ CreateMint(i) \/ CreateFails(i)

Revoke == \E m \in Members, c \in Codes : invitesRevoke(m, c) \/ RefundInvite(m, c)

Register ==
    \/ \E v \in Visitors, e \in Address, c \in Codes : RegisterBegin(v, e, c)
    \/ \E v \in Visitors : RegisterGate(v) \/ RegisterCreate(v) \/ RegisterRedeem(v)

Next ==
    \/ Operator
    \/ \E m \in Members : GrantInvites(m)
    \/ Create
    \/ \E m \in Members \cup {Nobody}, e \in Emails, charge \in BOOLEAN : IssueInvite(m, e, charge)
    \/ \E c \in Codes : Expire(c)
    \/ Revoke
    \/ Register

Spec == Init /\ [][Next]_vars

-----------------------------------------------------------------------------
(***************************************************************************)
(* Properties.                                                             *)
(***************************************************************************)

\* Invites come from grants alone: what a member has left, and what it has in
\* codes that were charged and not refunded, never exceeds what it was given.
\* (The mint is one transaction, the refund follows a revocation that happened.)
InvitesConserved ==
    \A m \in Members :
        user[m].invites
          + Cardinality({c \in Codes : code[c].charged /\ code[c].by = m /\ ~code[c].refunded})
        <= granted[m]

\* A code ends one way: the claim and the cancellation are each one statement
\* that checks for the other (RedeemInviteCode, RevokeInviteCode).
ClaimedOrCancelled == \A c \in Codes : ~(Spent(c) /\ code[c].revoked)

\* The chain is never rewritten: who used a code is settled by the first
\* redemption, however many registrations race on it.
ChainIsFinal ==
    [][\A c \in Codes : Spent(c) => code'[c].used = code[c].used /\ code'[c].by = code[c].by]_vars

\* While the lock is strict, a locked code admits only the address it went to:
\* the comparison happens two statements before the redemption.
LockedToItsAddress ==
    \A c \in Codes : Spent(c) /\ code[c].email # NoEmail /\ (\A o \in Options : o.strict) =>
        user[code[c].used].email = code[c].email

\* A code ends one way, and for the address it was meant for.
ClaimedAsIssued == ClaimedOrCancelled /\ LockedToItsAddress

\* What the code says of itself and does not do; each is the subject of a run
\* that finds it violated.

\* "a gate that checks without consuming lets one code make any number of
\* accounts": who joined by invite and is signed in, redeemed one.
SignedInMeansRedeemed ==
    \A m \in Members : user[m].gate = "invite" /\ user[m].session =>
        \E c \in Codes : code[c].used = m

\* PENDING "is the only state a member can still act on": a member cancels
\* nothing but pending invites.
OnlyPendingIsCancelled ==
    [][\A c \in Codes : code'[c].revoked /\ ~code[c].revoked => Pending(c)]_vars

\* InviteEmailPending "stops two members burning two invites on one person".
OneLiveInvitePerAddress ==
    \A c, d \in Codes :
        Pending(c) /\ Pending(d) /\ code[c].email = code[d].email /\ code[c].email # NoEmail
          => c = d

\* "a registered mode never falls through to the open-signup default".
NoFallThrough ==
    \A v \in Visitors : visitor[v].pc = "create" => visitor[v].mode \in {"open", "invite"}
=============================================================================
