------------------------------- MODULE TwoFactor -------------------------------
(***************************************************************************)
(* The second factor of one account: the live and the pending secret       *)
(* (users.totp_secret, users.totp_pending), the recovery codes             *)
(* (totp_recovery_codes), the requests of /settings/security that change   *)
(* them, and the sign-ins that depend on them.  Every statement is keyed   *)
(* by the account, so accounts do not interact.                            *)
(*                                                                         *)
(* A step is one statement or transaction with the code up to the next     *)
(* one; a request between two of its statements is a state.  Any statement *)
(* may fail, which is also what a crash does to the request.               *)
(*                                                                         *)
(* A code of an authenticator app is modelled by the secret it was made    *)
(* from.  A wrong code leaves everything as it was, and is no step.        *)
(***************************************************************************)
EXTENDS Integers, FiniteSets

CONSTANTS
    Secrets,   \* secrets that totpSecret may draw
    None,      \* the empty secret; also: no code
    Tabs,      \* settings requests the site serves at once for the account
    Browsers,  \* sessions of the account's owner
    PerSet,    \* recoveryCodeCount
    MaxSets    \* bound: sets of recovery codes ever issued

Codes == (1 .. MaxSets) \X (1 .. PerSet)

ASSUME TwoFactorAssumption ==
    /\ None \notin Secrets \cup Codes
    /\ Secrets \cap Codes = {}
    /\ PerSet \in Nat \ {0} /\ MaxSets \in Nat

VARIABLES
    secret,   \* users.totp_secret
    pending,  \* users.totp_pending
    unused,   \* rows of totp_recovery_codes with used_at NULL
    used,     \* the other rows
    tab,      \* settings requests in flight
    seat,     \* each browser's session, and the POST /login/2fa it has in flight
    minted,   \* history: secrets drawn so far
    issued,   \* history: number of sets issued
    shown,    \* history: sets shown to the member
    accepted, \* history: how many requests each recovery code let through
    overtaken,\* history: settings requests for which another one has, since
              \* their check, rewritten the secret they are about to promote
              \* or written the codes they are about to delete
    astray    \* history: such a request went through, and no codes came since

vars == <<secret, pending, unused, used, tab, seat, minted, issued, shown, accepted, overtaken, astray>>

Maybe(S) == S \cup {None}
Tab == [pc : {"idle", "issue", "reissue", "enable", "spend", "clear", "delete"},
        secret : Maybe(Secrets), code : Maybe(Codes), set : 0 .. MaxSets]
Seat == [at : {"out", "challenge", "spend", "in"}, code : Maybe(Codes)]

Idle == [pc |-> "idle", secret |-> None, code |-> None, set |-> 0]
Sit(at) == [at |-> at, code |-> None]

TypeOK ==
    /\ secret \in Maybe(Secrets) /\ pending \in Maybe(Secrets)
    /\ unused \subseteq Codes /\ used \subseteq Codes
    /\ tab \in [Tabs -> Tab] /\ seat \in [Browsers -> Seat]
    /\ minted \subseteq Secrets /\ issued \in 0 .. MaxSets
    /\ shown \subseteq 0 .. MaxSets /\ accepted \in [Codes -> Nat]
    /\ overtaken \subseteq Tabs /\ astray \in BOOLEAN

Init ==
    /\ secret = None /\ pending = None /\ unused = {} /\ used = {}
    /\ tab = [t \in Tabs |-> Idle] /\ seat = [b \in Browsers |-> Sit("out")]
    /\ minted = {} /\ issued = 0 /\ shown = {}
    /\ accepted = [c \in Codes |-> 0] /\ overtaken = {} /\ astray = FALSE

Rows == unused \cup used
Enabled == secret # None
Free(t) == tab[t].pc = "idle"
SignedIn == \E b \in Browsers : seat[b].at = "in"

(***************************************************************************)
(* What decides.                                                           *)
(***************************************************************************)
\* totpVerify: the empty secret verifies nothing.
Verifies(s, of) == of # None /\ s = of

\* SpendRecoveryCode updates the row, and reports whether it did.
SpendableTwice(c) == c \in Rows
SpendableGone(c) == c \notin used
Spendable(c) == c \in unused

\* HasTOTP asks for the second step, and a failed read refuses the sign-in.
PasswordOnFailure(read) == read => ~Enabled
PasswordSuffices(read) == read /\ ~Enabled

\* The set that issueRecoveryCodes mints.
SetOf(n) == {n} \X (1 .. PerSet)

\* What follows the check of a pending secret's code.
AfterCheckAtOnce == "enable"
AfterCheck == "issue"

(***************************************************************************)
(* /settings/security, behind a session.                                   *)
(***************************************************************************)
Goto(t, pc) == tab' = [tab EXCEPT ![t].pc = pc]
Ends(t) == tab' = [tab EXCEPT ![t] = Idle]

\* History, and read by no guard: whom a request overtakes, among those at pcs.
Overtakes(t, pcs) == overtaken' = (overtaken \cup {u \in Tabs : tab[u].pc \in pcs}) \ {t}
RewritesPending(t) == Overtakes(t, {"issue", "enable"})
Leaves(t) == overtaken' = overtaken \ {t}
GoesThrough(t) == astray' = (astray \/ t \in overtaken)

Fails(t) ==
    /\ ~Free(t) /\ Ends(t) /\ Leaves(t)
    /\ UNCHANGED <<secret, pending, unused, used, seat, minted, issued, shown, accepted, astray>>

totpBeginLive(t, s) ==
    /\ Free(t) /\ SignedIn /\ s \notin minted
    /\ secret' = s /\ minted' = minted \cup {s}
    /\ UNCHANGED <<pending, unused, used, tab, seat, issued, shown, accepted, overtaken, astray>>

totpBegin(t, s) ==
    /\ Free(t) /\ SignedIn /\ s \notin minted
    /\ pending' = s /\ minted' = minted \cup {s} /\ RewritesPending(t)
    /\ UNCHANGED <<secret, unused, used, tab, seat, issued, shown, accepted, astray>>

totpCancel(t) ==
    /\ Free(t) /\ SignedIn
    /\ pending' = None /\ RewritesPending(t)
    /\ UNCHANGED <<secret, unused, used, tab, seat, minted, issued, shown, accepted, astray>>

\* The read of the status and the check of the code for the secret read.
totpConfirm(t, s) ==
    /\ Free(t) /\ SignedIn /\ Verifies(s, pending)
    /\ tab' = [tab EXCEPT ![t].pc = AfterCheck, ![t].secret = s]
    /\ UNCHANGED <<secret, pending, unused, used, seat, minted, issued, shown, accepted, overtaken, astray>>

\* Two reads: a secret that verifies at the second was there to be seen at the
\* first, had it come later, so they make one step.
totpRegenerate(t, s) ==
    /\ Free(t) /\ SignedIn /\ Verifies(s, secret)
    /\ Goto(t, "reissue")
    /\ UNCHANGED <<secret, pending, unused, used, seat, minted, issued, shown, accepted, overtaken, astray>>

\* The set is shown at once by totpRegenerate, and after EnableTOTP by
\* totpConfirm.
ReplaceRecoveryCodes(t) ==
    /\ tab[t].pc \in {"issue", "reissue"} /\ issued < MaxSets
    /\ issued' = issued + 1
    /\ unused' = SetOf(issued') /\ used' = {}
    /\ \/ /\ tab[t].pc = "issue" /\ UNCHANGED shown
          /\ tab' = [tab EXCEPT ![t].pc = "enable", ![t].set = issued']
       \/ tab[t].pc = "reissue" /\ Ends(t) /\ shown' = shown \cup {issued'}
    /\ overtaken' = overtaken \cup {u \in Tabs : tab[u].pc = "delete"} /\ astray' = FALSE
    /\ UNCHANGED <<secret, pending, seat, minted, accepted>>

EnableTOTP(t) ==
    /\ tab[t].pc = "enable"
    /\ secret' = pending /\ pending' = None
    /\ shown' = shown \cup {tab[t].set}
    /\ Ends(t) /\ RewritesPending(t) /\ GoesThrough(t)
    /\ UNCHANGED <<unused, used, seat, minted, issued, accepted>>

\* totpDisable with a code of the app, and with a recovery code it found unused.
DisableByApp(t, s) ==
    /\ Free(t) /\ SignedIn /\ Verifies(s, secret)
    /\ Goto(t, "clear")
    /\ UNCHANGED <<secret, pending, unused, used, seat, minted, issued, shown, accepted, overtaken, astray>>

DisableByCode(t, c) ==
    /\ Free(t) /\ SignedIn /\ c \in unused
    /\ tab' = [tab EXCEPT ![t].pc = "spend", ![t].code = c]
    /\ UNCHANGED <<secret, pending, unused, used, seat, minted, issued, shown, accepted, overtaken, astray>>

DisableSpends(t) == LET c == tab[t].code IN
    /\ tab[t].pc = "spend" /\ Spendable(c)
    /\ unused' = unused \ {c} /\ used' = used \cup ({c} \cap Rows)
    /\ accepted' = [accepted EXCEPT ![c] = @ + 1]
    /\ tab' = [tab EXCEPT ![t].pc = "clear", ![t].code = None]
    /\ UNCHANGED <<secret, pending, seat, minted, issued, shown, overtaken, astray>>

\* DisableTOTP: the factor by one statement, its codes by the next.
DisableClears(t) ==
    /\ tab[t].pc = "clear"
    /\ secret' = None /\ pending' = None
    /\ Goto(t, "delete") /\ RewritesPending(t)
    /\ UNCHANGED <<unused, used, seat, minted, issued, shown, accepted, astray>>

DisableDeletes(t) ==
    /\ tab[t].pc = "delete"
    /\ unused' = {} /\ used' = {}
    /\ Ends(t) /\ Leaves(t) /\ GoesThrough(t)
    /\ UNCHANGED <<secret, pending, seat, minted, issued, shown, accepted>>

(***************************************************************************)
(* Signing in.                                                             *)
(***************************************************************************)
Seated(b, at) == seat' = [seat EXCEPT ![b] = Sit(at)]
Doors == <<secret, pending, tab, minted, issued, shown, overtaken, astray>>

\* loginPost with the right password; read says whether HasTOTP could tell.
loginPost(b, read) ==
    /\ seat[b].at # "spend"
    /\ \/ PasswordSuffices(read) /\ Seated(b, "in")
       \/ read /\ Enabled /\ Seated(b, "challenge")
    /\ UNCHANGED <<Doors, unused, used, accepted>>

\* A challenge older than pendingTOTPTTL is cleared by whoever reads it next.
ChallengeLapses(b) ==
    /\ seat[b].at = "challenge" /\ Seated(b, "out")
    /\ UNCHANGED <<Doors, unused, used, accepted>>

ChallengeByApp(b, s) ==
    /\ seat[b].at = "challenge" /\ Verifies(s, secret) /\ Seated(b, "in")
    /\ UNCHANGED <<Doors, unused, used, accepted>>

ChallengeByCode(b, c) ==
    /\ seat[b].at = "challenge" /\ c \in unused
    /\ seat' = [seat EXCEPT ![b] = [at |-> "spend", code |-> c]]
    /\ UNCHANGED <<Doors, unused, used, accepted>>

\* The code is spent; if the account cannot be read afterwards it is gone and
\* the challenge is not met.
ChallengeSpends(b) == LET c == seat[b].code IN
    /\ seat[b].at = "spend" /\ Spendable(c)
    /\ unused' = unused \ {c} /\ used' = used \cup ({c} \cap Rows)
    /\ \/ Seated(b, "in") /\ accepted' = [accepted EXCEPT ![c] = @ + 1]
       \/ Seated(b, "challenge") /\ UNCHANGED accepted
    /\ UNCHANGED Doors

ChallengeRefused(b) ==
    /\ seat[b].at = "spend" /\ Seated(b, "challenge")
    /\ UNCHANGED <<Doors, unused, used, accepted>>

logout(b) ==
    /\ seat[b].at = "in" /\ Seated(b, "out")
    /\ UNCHANGED <<Doors, unused, used, accepted>>

Settings(t) ==
    \/ \E s \in Secrets : totpBegin(t, s) \/ totpConfirm(t, s) \/ totpRegenerate(t, s) \/ DisableByApp(t, s)
    \/ \E c \in Codes : DisableByCode(t, c)
    \/ totpCancel(t) \/ ReplaceRecoveryCodes(t) \/ EnableTOTP(t)
    \/ DisableSpends(t) \/ DisableClears(t) \/ DisableDeletes(t) \/ Fails(t)

SignIn(b) ==
    \/ \E read \in BOOLEAN : loginPost(b, read)
    \/ \E s \in Secrets : ChallengeByApp(b, s)
    \/ \E c \in Codes : ChallengeByCode(b, c)
    \/ ChallengeLapses(b) \/ ChallengeSpends(b) \/ ChallengeRefused(b) \/ logout(b)

Next == (\E t \in Tabs : Settings(t)) \/ (\E b \in Browsers : SignIn(b))

Spec == Init /\ [][Next]_vars
-----------------------------------------------------------------------------
(***************************************************************************)
(* Properties                                                              *)
(***************************************************************************)
\* A recovery code lets at most one request through, be it a sign-in or the
\* removal of the factor, whoever submits it and however often
\* (SpendRecoveryCode: "two simultaneous logins cannot both spend one code").
CodeOpensOnce == \A c \in Codes : accepted[c] <= 1

\* A recovery code that opened something was still valid when it did: not one
\* of a set that was replaced or deleted after the request had found it.
AcceptedCodeWasValid ==
    [][\A c \in Codes : accepted'[c] > accepted[c] => c \in unused]_vars

\* Nobody gets a session on a password alone while the factor is on, not even
\* when the factor cannot be read.
PasswordAloneOnlyWhileOff ==
    [][\A b \in Browsers : (seat[b].at \in {"out", "challenge"} /\ seat'[b].at = "in" /\ Enabled)
         => \E s \in Secrets : ChallengeByApp(b, s)]_vars

\* The live secret moves only as somebody verified: to the very secret whose
\* code totpConfirm checked, never to another or to none, or away by
\* DisableTOTP after its own check.  The one way around is a confirmation whose
\* pending column another request has rewritten since its check.
SecretMovesAsVerified ==
    [][secret' # secret =>
         \E t \in Tabs : \/ DisableClears(t)
                         \/ EnableTOTP(t) /\ (secret' = tab[t].secret \/ t \in overtaken)]_vars

\* A live factor has recovery codes behind it, used or not, whatever statement
\* fails.  The ways around are a removal that deletes a set written since its
\* own first statement, and a confirmation that was overtaken.
CodesStandBehindFactor == (Enabled /\ Rows = {}) => astray

(***************************************************************************)
(* What the comments say without those ways around.  Two tabs break it.    *)
(***************************************************************************)
\* A secret becomes live only by the request that verified a code for it
\* ("ENROLMENT IS NOT COMPLETE UNTIL A CODE IS VERIFIED").
LiveSecretIsProven ==
    [][secret' \notin {secret, None} =>
         \E t \in Tabs : EnableTOTP(t) /\ secret' = tab[t].secret]_vars

\* There is no moment when the factor is on and the site has no recovery codes
\* for it, used or not (EnableTOTP's comment).
LiveFactorHasCodes == Enabled => Rows # {}

\* A factor goes off only by the request that asks for it, after its check of a
\* code ("TURNING IT OFF NEEDS A CODE").
OffOnlyByDisable ==
    [][Enabled /\ secret' = None => \E t \in Tabs : DisableClears(t)]_vars

\* With no request in flight, the codes that the site would accept for a live
\* factor are codes the member has been shown ("They are generated and shown in
\* the same request that enables it").
CodesWereShown ==
    ((\A t \in Tabs : Free(t)) /\ Enabled) => \A c \in unused : c[1] \in shown
=============================================================================
