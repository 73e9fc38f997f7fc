--------------------------- MODULE TwoFactorProofs ----------------------------
(***************************************************************************)
(* Proofs about TwoFactor, for every number of tabs and browsers.          *)
(***************************************************************************)
EXTENDS TwoFactor, TLAPS

LEMMA SetFacts ==
    ASSUME NEW n \in 1 .. MaxSets
    PROVE  /\ SetOf(n) \subseteq Codes /\ SetOf(n) # {}
           /\ \A c \in SetOf(n) : c[1] = n
<1>1. \A i \in 1 .. PerSet : <<n, i>> \in Codes
  BY DEF Codes
<1>2. \A c \in SetOf(n) : \E i \in 1 .. PerSet : c = <<n, i>>
  BY DEF SetOf
<1>3. <<n, 1>> \in SetOf(n)
  BY TwoFactorAssumption DEF SetOf
<1> QED
  BY <1>1, <1>2, <1>3

\* The state stays in its types.
THEOREM TypeCorrect == Spec => []TypeOK
<1>1. ASSUME Init PROVE TypeOK
  <2>1. Idle \in Tab /\ Sit("out") \in Seat
    BY TwoFactorAssumption DEF Idle, Sit, Tab, Seat, Maybe
  <2>2. tab \in [Tabs -> Tab] /\ seat \in [Browsers -> Seat] /\ accepted \in [Codes -> Nat]
    BY <1>1, <2>1 DEF Init
  <2>3. overtaken \subseteq Tabs /\ astray \in BOOLEAN
    BY <1>1 DEF Init
  <2> QED
    BY <1>1, <2>2, <2>3, TwoFactorAssumption DEF Init, TypeOK, Maybe
<1>2. TypeOK /\ [Next]_vars => TypeOK'
  <2> SUFFICES ASSUME TypeOK, [Next]_vars PROVE TypeOK'
    OBVIOUS
  <2> USE DEF TypeOK
  <2>1. CASE UNCHANGED vars
    BY <2>1 DEF vars
  <2>2. ASSUME NEW t \in Tabs, Settings(t) PROVE TypeOK'
    <3> USE <2>2 DEF Tab, Maybe
    <3>1. ASSUME NEW s \in Secrets, totpBegin(t, s) PROVE TypeOK'
      BY <3>1 DEF totpBegin, RewritesPending, Overtakes
    <3>2. ASSUME NEW s \in Secrets, totpConfirm(t, s) PROVE TypeOK'
      BY <3>2 DEF totpConfirm, AfterCheck
    <3>3. ASSUME NEW s \in Secrets, totpRegenerate(t, s) PROVE TypeOK'
      BY <3>3 DEF totpRegenerate, Goto
    <3>4. ASSUME NEW s \in Secrets, DisableByApp(t, s) PROVE TypeOK'
      BY <3>4 DEF DisableByApp, Goto
    <3>5. ASSUME NEW c \in Codes, DisableByCode(t, c) PROVE TypeOK'
      BY <3>5 DEF DisableByCode
    <3>6. CASE totpCancel(t)
      BY <3>6 DEF totpCancel, RewritesPending, Overtakes
    <3>7. CASE ReplaceRecoveryCodes(t)
      <4>1. issued' \in 1 .. MaxSets
        BY <3>7, TwoFactorAssumption DEF ReplaceRecoveryCodes
      <4>2. SetOf(issued') \subseteq Codes
        BY <4>1, SetFacts
      <4>3. tab' \in [Tabs -> Tab]
        BY <3>7, <4>1, TwoFactorAssumption DEF ReplaceRecoveryCodes, Ends, Idle
      <4>4. issued' \in 0 .. MaxSets
        BY <4>1, TwoFactorAssumption
      <4>5. shown' \subseteq shown \cup {issued'}
        BY <3>7 DEF ReplaceRecoveryCodes
      <4>6. unused' \subseteq Codes /\ used' \subseteq Codes
        BY <3>7, <4>2 DEF ReplaceRecoveryCodes
      <4> QED
        BY <3>7, <4>3, <4>4, <4>5, <4>6 DEF ReplaceRecoveryCodes
    <3>8. CASE EnableTOTP(t)
      <4>1. tab' \in [Tabs -> Tab]
        BY <3>8, TwoFactorAssumption DEF EnableTOTP, Ends, Idle
      <4>2. shown' \subseteq 0 .. MaxSets
        BY <3>8, TwoFactorAssumption DEF EnableTOTP
      <4> QED
        BY <3>8, <4>1, <4>2 DEF EnableTOTP, RewritesPending, Overtakes, GoesThrough
    <3>9. CASE DisableSpends(t)
      <4>1. tab[t].code \in unused
        BY <3>9 DEF DisableSpends, Spendable
      <4>2. accepted' \in [Codes -> Nat]
        BY <3>9, <4>1 DEF DisableSpends
      <4>3. tab' \in [Tabs -> Tab]
        BY <3>9 DEF DisableSpends
      <4>4. unused' \subseteq Codes /\ used' \subseteq Codes
        BY <3>9, <4>1 DEF DisableSpends, Rows
      <4> QED
        BY <3>9, <4>2, <4>3, <4>4 DEF DisableSpends
    <3>10. CASE DisableClears(t)
      BY <3>10 DEF DisableClears, Goto, RewritesPending, Overtakes
    <3>11. CASE DisableDeletes(t)
      BY <3>11, TwoFactorAssumption DEF DisableDeletes, Ends, Idle, Leaves, GoesThrough
    <3>12. CASE Fails(t)
      BY <3>12, TwoFactorAssumption DEF Fails, Ends, Idle, Leaves
    <3> QED
      BY <2>2, <3>1, <3>2, <3>3, <3>4, <3>5, <3>6, <3>7, <3>8, <3>9, <3>10, <3>11, <3>12 DEF Settings
  <2>3. ASSUME NEW b \in Browsers, SignIn(b) PROVE TypeOK'
    <3> USE DEF Seat, Maybe, Sit, Seated, Doors
    <3>1. ASSUME NEW read \in BOOLEAN, loginPost(b, read) PROVE TypeOK'
      BY <3>1 DEF loginPost
    <3>2. ASSUME NEW s \in Secrets, ChallengeByApp(b, s) PROVE TypeOK'
      BY <3>2 DEF ChallengeByApp
    <3>3. ASSUME NEW c \in Codes, ChallengeByCode(b, c) PROVE TypeOK'
      BY <3>3 DEF ChallengeByCode
    <3>4. CASE ChallengeLapses(b)
      BY <3>4 DEF ChallengeLapses
    <3>5. CASE ChallengeSpends(b)
      BY <3>5 DEF ChallengeSpends, Spendable, Rows
    <3>6. CASE ChallengeRefused(b)
      BY <3>6 DEF ChallengeRefused
    <3>7. CASE logout(b)
      BY <3>7 DEF logout
    <3> QED
      BY <2>3, <3>1, <3>2, <3>3, <3>4, <3>5, <3>6, <3>7 DEF SignIn
  <2> QED
    BY <2>1, <2>2, <2>3 DEF Next
<1> QED
  BY <1>1, <1>2, PTL DEF Spec
-----------------------------------------------------------------------------
(***************************************************************************)
(* Recovery codes.  CodeOpensOnce is not inductive: it needs that a code   *)
(* still unused has opened nothing, and so, for the sets still to come,    *)
(* that no code of a set not yet issued has opened anything.               *)
(***************************************************************************)
UnusedIsFresh == \A c \in unused : accepted[c] = 0
LaterSetsAreFresh == \A c \in Codes : c[1] > issued => accepted[c] = 0
CodeInv == CodeOpensOnce /\ UnusedIsFresh /\ LaterSetsAreFresh

\* What a code is spent for, a sign-in or the removal of the factor, counts once.
LEMMA SpendOnce ==
    ASSUME TypeOK, CodeInv, NEW c \in unused, UNCHANGED issued,
           unused' = unused \ {c}, c[1] <= issued,
           accepted' = [accepted EXCEPT ![c] = @ + 1] \/ UNCHANGED accepted
    PROVE  CodeInv'
BY TwoFactorAssumption DEF TypeOK, CodeInv, CodeOpensOnce, UnusedIsFresh, LaterSetsAreFresh, Codes

UnusedIsIssued == \A c \in unused : c[1] <= issued
IInv == TypeOK /\ CodeInv /\ UnusedIsIssued

LEMMA CodeStep == IInv /\ [Next]_vars => CodeInv' /\ UnusedIsIssued'
<1> SUFFICES ASSUME IInv, [Next]_vars PROVE CodeInv' /\ UnusedIsIssued'
  OBVIOUS
<1>1. TypeOK
  BY DEF IInv
<1>2. CASE UNCHANGED <<unused, accepted, issued>>
  BY <1>2 DEF IInv, CodeInv, CodeOpensOnce, UnusedIsFresh, LaterSetsAreFresh, UnusedIsIssued
<1>3. ASSUME NEW t \in Tabs, ReplaceRecoveryCodes(t) PROVE CodeInv' /\ UnusedIsIssued'
  <2>1. issued' = issued + 1 /\ unused' = SetOf(issued') /\ accepted' = accepted
    BY <1>3 DEF ReplaceRecoveryCodes
  <2>2. issued' \in 1 .. MaxSets
    BY <1>1, <1>3, TwoFactorAssumption DEF ReplaceRecoveryCodes, TypeOK
  <2>3. \A c \in unused' : c \in Codes /\ c[1] = issued'
    BY <2>1, <2>2, SetFacts
  <2>4. \A c \in Codes : c[1] \in Int
    BY DEF Codes
  <2> QED
    BY <1>1, <2>1, <2>2, <2>3, <2>4, TwoFactorAssumption
    DEF IInv, TypeOK, CodeInv, CodeOpensOnce, UnusedIsFresh, LaterSetsAreFresh, UnusedIsIssued
<1>4. ASSUME NEW t \in Tabs, DisableSpends(t) PROVE CodeInv' /\ UnusedIsIssued'
  <2>1. tab[t].code \in unused
    BY <1>4 DEF DisableSpends, Spendable
  <2> QED
    BY <1>1, <1>4, <2>1, SpendOnce DEF DisableSpends, IInv, UnusedIsIssued
<1>5. ASSUME NEW t \in Tabs, DisableDeletes(t) PROVE CodeInv' /\ UnusedIsIssued'
  BY <1>5 DEF DisableDeletes, IInv, CodeInv, CodeOpensOnce, UnusedIsFresh, LaterSetsAreFresh, UnusedIsIssued
<1>6. ASSUME NEW b \in Browsers, ChallengeSpends(b) PROVE CodeInv' /\ UnusedIsIssued'
  <2>1. seat[b].code \in unused /\ UNCHANGED issued
    BY <1>6 DEF ChallengeSpends, Spendable, Doors
  <2> QED
    BY <1>1, <1>6, <2>1, SpendOnce DEF ChallengeSpends, IInv, UnusedIsIssued
<1>7. ASSUME NEW t \in Tabs, Settings(t),
             ~ReplaceRecoveryCodes(t), ~DisableSpends(t), ~DisableDeletes(t)
      PROVE  UNCHANGED <<unused, accepted, issued>>
  BY <1>7 DEF Settings, totpBegin, totpConfirm, totpRegenerate, DisableByApp, DisableByCode,
      totpCancel, EnableTOTP, DisableClears, Fails
<1>8. ASSUME NEW b \in Browsers, SignIn(b), ~ChallengeSpends(b)
      PROVE  UNCHANGED <<unused, accepted, issued>>
  BY <1>8 DEF SignIn, loginPost, ChallengeByApp, ChallengeByCode, ChallengeLapses,
      ChallengeRefused, logout, Doors
<1> QED
  BY <1>2, <1>3, <1>4, <1>5, <1>6, <1>7, <1>8 DEF Next, vars

\* The inductive invariant behind the recovery codes.
THEOREM CodesInductive == Spec => []IInv
<1>1. Init => CodeInv /\ UnusedIsIssued
  BY DEF Init, CodeInv, CodeOpensOnce, UnusedIsFresh, LaterSetsAreFresh, UnusedIsIssued
<1>2. (CodeInv /\ UnusedIsIssued) /\ TypeOK /\ [Next]_vars => (CodeInv /\ UnusedIsIssued)'
  BY CodeStep DEF IInv
<1> QED
  BY <1>1, <1>2, TypeCorrect, PTL DEF Spec, IInv

\* A recovery code opens at most one door (SpendRecoveryCode), however many
\* sign-ins and settings requests submit it at once.
THEOREM CodesOpenOnce == Spec => []CodeOpensOnce
<1>1. IInv => CodeOpensOnce
  BY DEF IInv, CodeInv
<1> QED
  BY <1>1, CodesInductive, PTL

\* A code that opened a door was valid as it did, also when its set was
\* replaced or deleted after spendRecoveryCode had listed it.
THEOREM AcceptedWasValid == Spec => AcceptedCodeWasValid
<1>1. ASSUME TypeOK, [Next]_vars
      PROVE  [\A c \in Codes : accepted'[c] > accepted[c] => c \in unused]_vars
  <2> SUFFICES ASSUME NEW c \in Codes, accepted'[c] > accepted[c] PROVE c \in unused
    OBVIOUS
  <2>0. accepted[c] \in Nat /\ accepted' # accepted
    BY <1>1 DEF TypeOK
  <2>1. ASSUME NEW t \in Tabs, DisableSpends(t) PROVE c \in unused
    BY <1>1, <2>0, <2>1 DEF DisableSpends, Spendable, TypeOK
  <2>2. ASSUME NEW b \in Browsers, ChallengeSpends(b) PROVE c \in unused
    BY <1>1, <2>0, <2>2 DEF ChallengeSpends, Spendable, TypeOK
  <2>3. ASSUME NEW t \in Tabs, Settings(t), ~DisableSpends(t) PROVE UNCHANGED accepted
    BY <2>3 DEF Settings, totpBegin, totpConfirm, totpRegenerate, DisableByApp, DisableByCode,
        totpCancel, ReplaceRecoveryCodes, EnableTOTP, DisableClears, DisableDeletes, Fails
  <2>4. ASSUME NEW b \in Browsers, SignIn(b), ~ChallengeSpends(b) PROVE UNCHANGED accepted
    BY <2>4 DEF SignIn, loginPost, ChallengeByApp, ChallengeByCode, ChallengeLapses,
        ChallengeRefused, logout
  <2> QED
    BY <1>1, <2>0, <2>1, <2>2, <2>3, <2>4 DEF Next, vars
<1> QED
  BY <1>1, TypeCorrect, PTL DEF Spec, AcceptedCodeWasValid
-----------------------------------------------------------------------------
(***************************************************************************)
(* The enrolment, for any number of tabs.  A request past its check still  *)
(* finds the secret it checked, and past its replacement of the codes      *)
(* still finds them, unless it was overtaken; a removal past its first     *)
(* statement deletes nothing a live factor needs, unless codes came since. *)
(***************************************************************************)
EnrolInv ==
    /\ CodesStandBehindFactor
    /\ \A t \in Tabs \ overtaken :
        /\ tab[t].pc \in {"issue", "enable"} => (pending = tab[t].secret /\ pending # None)
        /\ tab[t].pc = "enable" => (Rows # {} \/ astray)
        /\ tab[t].pc = "delete" =>
             /\ Enabled => astray
             /\ \A u \in Tabs : tab[u].pc = "enable" => u \in overtaken

LEMMA EnrolStep == IInv /\ EnrolInv /\ [Next]_vars => EnrolInv'
<1> SUFFICES ASSUME IInv, EnrolInv, [Next]_vars PROVE EnrolInv'
  OBVIOUS
<1>1. TypeOK
  BY DEF IInv
<1> USE DEF EnrolInv, CodesStandBehindFactor, Enabled, Rows
<1>2. CASE UNCHANGED <<secret, pending, unused, used, tab, overtaken, astray>>
  BY <1>2
<1>3. ASSUME NEW t \in Tabs, Settings(t) PROVE EnrolInv'
  <2> USE <1>1 DEF TypeOK
  <2>1. ASSUME NEW s \in Secrets, totpBegin(t, s) PROVE EnrolInv'
    BY <2>1 DEF totpBegin, Free, RewritesPending, Overtakes
  <2>2. ASSUME NEW s \in Secrets, totpConfirm(t, s) PROVE EnrolInv'
    BY <2>2 DEF totpConfirm, Verifies, AfterCheck
  <2>3. ASSUME NEW s \in Secrets, totpRegenerate(t, s) PROVE EnrolInv'
    BY <2>3 DEF totpRegenerate, Goto
  <2>4. ASSUME NEW s \in Secrets, DisableByApp(t, s) PROVE EnrolInv'
    BY <2>4 DEF DisableByApp, Goto
  <2>5. ASSUME NEW c \in Codes, DisableByCode(t, c) PROVE EnrolInv'
    BY <2>5 DEF DisableByCode
  <2>6. CASE totpCancel(t)
    BY <2>6 DEF totpCancel, Free, RewritesPending, Overtakes
  <2>7. CASE ReplaceRecoveryCodes(t)
    <3>1. issued' \in 1 .. MaxSets
      BY <2>7, TwoFactorAssumption DEF ReplaceRecoveryCodes
    <3>2. Rows' # {}
      BY <2>7, <3>1, SetFacts DEF ReplaceRecoveryCodes
    <3>3. UNCHANGED <<secret, pending>>
      BY <2>7 DEF ReplaceRecoveryCodes
    <3>4. \A u \in Tabs : tab'[u].pc \in {"issue", "enable"} =>
                            tab[u].pc \in {"issue", "enable"} /\ tab'[u].secret = tab[u].secret
      BY <2>7 DEF ReplaceRecoveryCodes, Ends, Idle, Tab
    <3>5. \A u \in Tabs : tab'[u].pc = "delete" => u \in overtaken'
      BY <2>7 DEF ReplaceRecoveryCodes, Ends, Idle, Tab
    <3>6. overtaken \subseteq overtaken'
      BY <2>7 DEF ReplaceRecoveryCodes
    <3> QED
      BY <3>2, <3>3, <3>4, <3>5, <3>6
  <2>8. CASE EnableTOTP(t)
    BY <2>8 DEF EnableTOTP, Ends, Idle, RewritesPending, Overtakes, GoesThrough
  <2>9. CASE DisableSpends(t)
    BY <2>9 DEF DisableSpends, Spendable, Tab
  <2>10. CASE DisableClears(t)
    BY <2>10 DEF DisableClears, Goto, RewritesPending, Overtakes
  <2>11. CASE DisableDeletes(t)
    BY <2>11 DEF DisableDeletes, Ends, Idle, Leaves, GoesThrough
  <2>12. CASE Fails(t)
    BY <2>12 DEF Fails, Ends, Idle, Leaves
  <2> QED
    BY <1>3, <2>1, <2>2, <2>3, <2>4, <2>5, <2>6, <2>7, <2>8, <2>9, <2>10, <2>11, <2>12 DEF Settings
<1>4. ASSUME NEW b \in Browsers, ChallengeSpends(b) PROVE EnrolInv'
  BY <1>4 DEF ChallengeSpends, Spendable, Doors
<1>5. ASSUME NEW b \in Browsers, SignIn(b), ~ChallengeSpends(b)
      PROVE  UNCHANGED <<secret, pending, unused, used, tab, overtaken, astray>>
  BY <1>5 DEF SignIn, loginPost, ChallengeByApp, ChallengeByCode, ChallengeLapses,
      ChallengeRefused, logout, Doors
<1> QED
  BY <1>2, <1>3, <1>4, <1>5 DEF Next, vars

LEMMA EnrolInductive == Spec => []EnrolInv
<1>1. Init => EnrolInv
  BY DEF Init, EnrolInv, CodesStandBehindFactor, Enabled, Idle
<1>2. IInv /\ EnrolInv /\ [Next]_vars => EnrolInv'
  BY EnrolStep
<1> QED
  BY <1>1, <1>2, CodesInductive, PTL DEF Spec

\* For any number of settings requests at once, each of which may fail between
\* any two of its statements, a live factor has recovery codes behind it, but for
\* a removal whose DELETE comes after a set written since its first statement and
\* a confirmation whose pending secret was rewritten.
THEOREM FactorHasCodes == Spec => []CodesStandBehindFactor
<1>1. EnrolInv => CodesStandBehindFactor
  BY DEF EnrolInv
<1> QED
  BY <1>1, EnrolInductive, PTL

\* For any number of settings requests at once, the live secret becomes the one
\* totpConfirm verified, or is taken away by totpDisable; only a confirmation
\* whose pending column was rewritten after its check may do otherwise.
THEOREM SecretIsVerified == Spec => SecretMovesAsVerified
<1>1. ASSUME TypeOK, EnrolInv, [Next]_vars
      PROVE  [secret' # secret =>
                \E t \in Tabs : \/ DisableClears(t)
                                \/ EnableTOTP(t) /\ (secret' = tab[t].secret \/ t \in overtaken)]_vars
  <2> SUFFICES ASSUME secret' # secret
               PROVE  \E t \in Tabs : \/ DisableClears(t)
                                      \/ EnableTOTP(t) /\ (secret' = tab[t].secret \/ t \in overtaken)
    OBVIOUS
  <2>1. ASSUME NEW t \in Tabs, EnableTOTP(t), t \notin overtaken PROVE secret' = tab[t].secret
    BY <1>1, <2>1 DEF EnableTOTP, EnrolInv
  <2>2. ASSUME NEW t \in Tabs, Settings(t), ~EnableTOTP(t), ~DisableClears(t) PROVE UNCHANGED secret
    BY <2>2 DEF Settings, totpBegin, totpConfirm, totpRegenerate, DisableByApp, DisableByCode,
        totpCancel, ReplaceRecoveryCodes, DisableSpends, DisableDeletes, Fails
  <2>3. ASSUME NEW b \in Browsers, SignIn(b) PROVE UNCHANGED secret
    BY <2>3 DEF SignIn, loginPost, ChallengeByApp, ChallengeByCode, ChallengeLapses,
        ChallengeSpends, ChallengeRefused, logout, Doors
  <2> QED
    BY <1>1, <2>1, <2>2, <2>3 DEF Next, vars
<1> QED
  BY <1>1, TypeCorrect, EnrolInductive, PTL DEF Spec, SecretMovesAsVerified

\* No session is issued on a password alone while the factor is on, whether or
\* not HasTOTP could read it.
THEOREM NoPasswordAlone == Spec => PasswordAloneOnlyWhileOff
<1>1. ASSUME TypeOK, [Next]_vars
      PROVE  [\A b \in Browsers :
                 (seat[b].at \in {"out", "challenge"} /\ seat'[b].at = "in" /\ Enabled)
                   => \E s \in Secrets : ChallengeByApp(b, s)]_vars
  <2> SUFFICES ASSUME NEW b \in Browsers, seat[b].at \in {"out", "challenge"},
                      seat'[b].at = "in", Enabled
               PROVE  \E s \in Secrets : ChallengeByApp(b, s)
    OBVIOUS
  <2>1. seat'[b] # seat[b]
    OBVIOUS
  <2>2. ASSUME NEW t \in Tabs, Settings(t) PROVE UNCHANGED seat
    BY <2>2 DEF Settings, totpBegin, totpConfirm, totpRegenerate, DisableByApp, DisableByCode,
        totpCancel, ReplaceRecoveryCodes, EnableTOTP, DisableSpends, DisableClears, DisableDeletes, Fails
  <2>3. ASSUME NEW a \in Browsers, SignIn(a), a # b PROVE UNCHANGED seat[b]
    BY <1>1, <2>3 DEF SignIn, loginPost, ChallengeByApp, ChallengeByCode, ChallengeLapses,
        ChallengeSpends, ChallengeRefused, logout, Seated, TypeOK
  <2>4. ASSUME SignIn(b) PROVE \E s \in Secrets : ChallengeByApp(b, s)
    <3>1. ASSUME NEW read \in BOOLEAN, loginPost(b, read) PROVE FALSE
      BY <1>1, <3>1 DEF loginPost, PasswordSuffices, Seated, Sit, TypeOK
    <3>2. ~ChallengeLapses(b) /\ ~ChallengeRefused(b) /\ ~logout(b) /\ ~ChallengeSpends(b)
      BY <1>1 DEF ChallengeLapses, ChallengeRefused, logout, ChallengeSpends, Seated, Sit, TypeOK
    <3>3. ASSUME NEW c \in Codes, ChallengeByCode(b, c) PROVE FALSE
      BY <1>1, <3>3 DEF ChallengeByCode, TypeOK
    <3> QED
      BY <2>4, <3>1, <3>2, <3>3 DEF SignIn
  <2> QED
    BY <1>1, <2>1, <2>2, <2>3, <2>4 DEF Next, vars
<1> QED
  BY <1>1, TypeCorrect, PTL DEF Spec, PasswordAloneOnlyWhileOff
=============================================================================
