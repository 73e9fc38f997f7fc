----------------------------- MODULE InvitesProofs -----------------------------
(***************************************************************************)
(* Proofs about invitations, for any members, codes, visitors and issuers, *)
(* any settings of the operator and every combination of failures.         *)
(***************************************************************************)
EXTENDS Invites, FiniteSetTheorems, TLAPS

-----------------------------------------------------------------------------
(***************************************************************************)
(* Type correctness.  A type invariant alone does not survive a mint or a  *)
(* redemption: that the handler in flight has an issuer, a code and an     *)
(* account is known from the step it has reached.                          *)
(***************************************************************************)
IssuerShape == \A i \in Issuers : issuer[i].pc # "idle" => issuer[i].by \in Members

VisitorShape ==
    \A v \in Visitors :
        /\ visitor[v].pc # "idle" => visitor[v].code \in Codes
        /\ visitor[v].pc = "redeem" => visitor[v].as \in Members /\ visitor[v].mode = "invite"

Shape == TypeOK /\ IssuerShape /\ VisitorShape

LEMMA RecordsTyped ==
    /\ NoAccount \in Account /\ NoCode \in Code
    /\ IdleIssue \in Issue /\ IdleVisit \in Visit
BY InvitesAssumption DEF NoAccount, Account, NoCode, Code, IdleIssue, Issue, IdleVisit, Visit, Address

\* A mint writes one code, and one balance of a member who can pay.
LEMMA MintType ==
    ASSUME TypeOK, NEW c \in Codes, NEW m \in Members \cup {Nobody}, NEW e \in Address,
           NEW charged \in BOOLEAN, charged => m \in Members /\ CanPay(m), Mint(c, m, e, charged)
    PROVE  user' \in [Members -> Account] /\ code' \in [Codes -> Code]
<1>1. code' \in [Codes -> Code]
  <2>1. [NoCode EXCEPT !.minted = TRUE, !.by = m, !.email = e, !.live = TRUE, !.charged = charged] \in Code
    BY RecordsTyped DEF NoCode, Code
  <2> QED
    BY <2>1 DEF Mint, TypeOK
<1>2. CASE charged
  <2>1. user[m] \in Account /\ user[m].invites - 1 \in Nat
    BY <1>2 DEF CanPay, TypeOK, Account
  <2>2. [user[m] EXCEPT !.invites = @ - 1] \in Account
    BY <2>1 DEF Account
  <2>3. user' = [user EXCEPT ![m] = [user[m] EXCEPT !.invites = @ - 1]]
    BY <1>2 DEF Mint
  <2> QED
    BY <1>1, <1>2, <2>2, <2>3 DEF TypeOK
<1>3. CASE ~charged
  BY <1>1, <1>3 DEF Mint, TypeOK
<1> QED
  BY <1>2, <1>3

\* The end of a code, by the clock or by hand, changes flags of one row.
LEMMA EndType ==
    ASSUME TypeOK, NEW c \in Codes,
           \/ code' = [code EXCEPT ![c].revoked = TRUE]
           \/ code' = [code EXCEPT ![c].live = FALSE]
           \/ code' = [code EXCEPT ![c].refunded = TRUE]
    PROVE  code' \in [Codes -> Code]
<1>1. /\ [code[c] EXCEPT !.revoked = TRUE] \in Code
      /\ [code[c] EXCEPT !.live = FALSE] \in Code
      /\ [code[c] EXCEPT !.refunded = TRUE] \in Code
  BY DEF TypeOK, Code
<1>2. \/ code' = [code EXCEPT ![c] = [code[c] EXCEPT !.revoked = TRUE]]
      \/ code' = [code EXCEPT ![c] = [code[c] EXCEPT !.live = FALSE]]
      \/ code' = [code EXCEPT ![c] = [code[c] EXCEPT !.refunded = TRUE]]
  OBVIOUS
<1> QED
  BY <1>1, <1>2 DEF TypeOK

\* The settings, the grants and the ends of codes keep the shape.
LEMMA OperatorShape == ASSUME Shape, Operator PROVE Shape'
<1>1. ASSUME NEW mo \in Modes, saveAccessSettings(mo) PROVE Shape'
  BY <1>1 DEF saveAccessSettings, Shape, TypeOK, IssuerShape, VisitorShape
<1>2. ASSUME NEW o \in Options, saveInviteOptions(o) PROVE Shape'
  BY <1>2 DEF saveInviteOptions, Shape, TypeOK, IssuerShape, VisitorShape
<1>3. ASSUME NEW c \in Codes, adminInvitesRevoke(c) PROVE Shape'
  <2>1. code' \in [Codes -> Code]
    BY <1>3, EndType DEF adminInvitesRevoke, Shape
  <2> QED
    BY <1>3, <2>1 DEF adminInvitesRevoke, Shape, TypeOK, IssuerShape, VisitorShape
<1> QED
  BY <1>1, <1>2, <1>3 DEF Operator

LEMMA ExpireShape == ASSUME Shape, NEW c \in Codes, Expire(c) PROVE Shape'
<1>1. code' \in [Codes -> Code]
  BY EndType DEF Expire, Shape
<1> QED
  BY <1>1 DEF Expire, Shape, TypeOK, IssuerShape, VisitorShape

LEMMA GrantShape == ASSUME Shape, NEW m \in Members, GrantInvites(m) PROVE Shape'
<1>1. [user[m] EXCEPT !.invites = @ + 1] \in Account
  BY DEF Shape, TypeOK, Account
<1>2. user' = [user EXCEPT ![m] = [user[m] EXCEPT !.invites = @ + 1]]
  BY DEF GrantInvites
<1>3. user' \in [Members -> Account]
  BY <1>1, <1>2 DEF Shape, TypeOK
<1>4. granted[m] + 1 \in 0 .. MaxGranted
  BY InvitesAssumption DEF Shape, TypeOK, GrantInvites
<1>5. granted' \in [Members -> 0 .. MaxGranted]
  BY <1>4 DEF Shape, TypeOK, GrantInvites
<1> QED
  BY <1>3, <1>5 DEF GrantInvites, Shape, TypeOK, IssuerShape, VisitorShape

LEMMA RevokeShape == ASSUME Shape, Revoke PROVE Shape'
<1>1. ASSUME NEW m \in Members, NEW c \in Codes, invitesRevoke(m, c) PROVE Shape'
  <2>1. code' \in [Codes -> Code]
    BY <1>1, EndType DEF invitesRevoke, Shape
  <2> QED
    BY <1>1, <2>1 DEF invitesRevoke, Shape, TypeOK, IssuerShape, VisitorShape
<1>2. ASSUME NEW m \in Members, NEW c \in Codes, RefundInvite(m, c) PROVE Shape'
  <2>1. code' \in [Codes -> Code]
    BY <1>2, EndType DEF RefundInvite, Shape, TypeOK
  <2>2. [user[m] EXCEPT !.invites = @ + 1] \in Account
    BY DEF Shape, TypeOK, Account
  <2>3. \/ user' = [user EXCEPT ![m] = [user[m] EXCEPT !.invites = @ + 1]]
        \/ user' = user
    BY <1>2 DEF RefundInvite
  <2>4. user' \in [Members -> Account]
    BY <2>2, <2>3 DEF Shape, TypeOK
  <2>5. owed' \subseteq Members \X Codes
    BY <1>2 DEF RefundInvite, Shape, TypeOK
  <2> QED
    BY <1>2, <2>1, <2>4, <2>5 DEF RefundInvite, Shape, TypeOK, IssuerShape, VisitorShape
<1> QED
  BY <1>1, <1>2 DEF Revoke

\* An issuer that mints has been let through by its count, and is a member.
LEMMA CreateShape == ASSUME Shape, Create PROVE Shape'
<1>1. ASSUME NEW i \in Issuers, NEW m \in Members, NEW e \in Address, CreateBegin(i, m, e)
      PROVE  Shape'
  <2>1. [pc |-> "count", by |-> m, email |-> e, cap |-> opts.cap] \in Issue
    BY InvitesAssumption DEF Issue, Shape, TypeOK
  <2> QED
    BY <1>1, <2>1 DEF CreateBegin, Shape, TypeOK, IssuerShape, VisitorShape
<1>2. ASSUME NEW i \in Issuers, issuer[i].pc # "idle",
             \/ issuer' = [issuer EXCEPT ![i] = IdleIssue]
             \/ issuer' = [issuer EXCEPT ![i] = [issuer[i] EXCEPT !.pc = "mint"]]
      PROVE  issuer' \in [Issuers -> Issue] /\ IssuerShape'
  <2>1. IdleIssue \in Issue /\ [issuer[i] EXCEPT !.pc = "mint"] \in Issue
    BY RecordsTyped DEF Issue, Shape, TypeOK
  <2>2. IdleIssue.pc = "idle" /\ [issuer[i] EXCEPT !.pc = "mint"].by = issuer[i].by
    BY DEF IdleIssue, Shape, TypeOK, Issue
  <2> QED
    BY <1>2, <2>1, <2>2 DEF Shape, TypeOK, IssuerShape
<1>3. ASSUME NEW i \in Issuers, CreateCount(i) PROVE Shape'
  BY <1>2, <1>3 DEF CreateCount, Shape, TypeOK, VisitorShape
<1>4. ASSUME NEW i \in Issuers, CreateFails(i) PROVE Shape'
  BY <1>2, <1>4 DEF CreateFails, Shape, TypeOK, VisitorShape
<1>5. ASSUME NEW i \in Issuers, CreateMint(i) PROVE Shape'
  <2>1. issuer' \in [Issuers -> Issue] /\ IssuerShape'
    BY <1>2, <1>5 DEF CreateMint
  <2>2. user' \in [Members -> Account] /\ code' \in [Codes -> Code]
    <3>1. issuer[i].by \in Members /\ issuer[i].email \in Address
      BY <1>5 DEF CreateMint, Shape, TypeOK, IssuerShape, Issue
    <3>2. CASE CanPay(issuer[i].by)
      BY <1>5, <3>1, <3>2, MintType DEF CreateMint, Shape
    <3>3. CASE ~CanPay(issuer[i].by)
      BY <1>5, <3>3 DEF CreateMint, Shape, TypeOK
    <3> QED
      BY <3>2, <3>3
  <2> QED
    BY <1>5, <2>1, <2>2 DEF CreateMint, Shape, TypeOK, VisitorShape
<1> QED
  BY <1>1, <1>3, <1>4, <1>5 DEF Create

LEMMA IssueShape ==
    ASSUME Shape, NEW m \in Members \cup {Nobody}, NEW e \in Emails, NEW charge \in BOOLEAN,
           IssueInvite(m, e, charge)
    PROVE  Shape'
<1>1. user' \in [Members -> Account] /\ code' \in [Codes -> Code]
  BY MintType DEF IssueInvite, Shape, Address
<1> QED
  BY <1>1 DEF IssueInvite, Shape, TypeOK, IssuerShape, VisitorShape

\* A registration carries its code from its first step, and its account from
\* the one that creates it.
LEMMA RegisterShape == ASSUME Shape, Register PROVE Shape'
<1>1. ASSUME NEW v \in Visitors, NEW e \in Address, NEW c \in Codes, RegisterBegin(v, e, c)
      PROVE  Shape'
  <2>1. [pc |-> "gate", mode |-> mode, email |-> e, code |-> c, as |-> Nobody] \in Visit
    BY <1>1 DEF Shape, TypeOK, Visit
  <2> QED
    BY <1>1, <2>1 DEF RegisterBegin, Shape, TypeOK, IssuerShape, VisitorShape
<1>2. ASSUME NEW v \in Visitors, NEW r \in Visit, visitor' = [visitor EXCEPT ![v] = r],
             r.pc # "idle" => r.code \in Codes,
             r.pc = "redeem" => r.as \in Members /\ r.mode = "invite"
      PROVE  visitor' \in [Visitors -> Visit] /\ VisitorShape'
  BY <1>2 DEF Shape, TypeOK, VisitorShape
<1>3. IdleVisit \in Visit /\ IdleVisit.pc = "idle"
  BY RecordsTyped DEF IdleVisit
<1>4. ASSUME NEW v \in Visitors, RegisterGate(v) PROVE Shape'
  <2> DEFINE s == Settled(visitor[v].mode)
             next == [visitor[v] EXCEPT !.pc = "create", !.mode = s]
  <2>1. visitor[v] \in Visit /\ visitor[v].code \in Codes
    BY <1>4 DEF RegisterGate, Shape, TypeOK, VisitorShape
  <2>2. CASE s # "closed"
    <3>1. s \in Modes \cup {"invite"}
      BY <2>1, <2>2 DEF Settled, Visit
    <3>2. next \in Visit /\ next.pc = "create" /\ next.code = visitor[v].code
      BY <2>1, <3>1 DEF Visit
    <3>3. visitor' = [visitor EXCEPT ![v] = next] \/ visitor' = [visitor EXCEPT ![v] = IdleVisit]
      BY <1>4 DEF RegisterGate
    <3>4. visitor' \in [Visitors -> Visit] /\ VisitorShape'
      BY <1>2, <1>3, <2>1, <3>2, <3>3
    <3> QED
      BY <1>4, <3>4 DEF RegisterGate, Shape, TypeOK, IssuerShape
  <2>3. CASE s = "closed"
    <3>1. visitor' = [visitor EXCEPT ![v] = IdleVisit]
      BY <1>4, <2>3 DEF RegisterGate
    <3>2. visitor' \in [Visitors -> Visit] /\ VisitorShape'
      BY <1>2, <1>3, <3>1
    <3> QED
      BY <1>4, <3>2 DEF RegisterGate, Shape, TypeOK, IssuerShape
  <2> QED
    BY <2>2, <2>3
<1>5. ASSUME NEW v \in Visitors, RegisterCreate(v) PROVE Shape'
  <2>1. visitor[v] \in Visit /\ visitor[v].code \in Codes
    BY <1>5 DEF RegisterCreate, Shape, TypeOK, VisitorShape
  <2>2. CASE UNCHANGED user /\ visitor' = [visitor EXCEPT ![v] = IdleVisit]
    <3>1. visitor' \in [Visitors -> Visit] /\ VisitorShape'
      BY <1>2, <1>3, <2>2
    <3> QED
      BY <1>5, <2>2, <3>1 DEF RegisterCreate, Shape, TypeOK, IssuerShape
  <2>3. ASSUME NEW m \in Members, ~Exists(m),
               user' = [user EXCEPT ![m] =
                  [NoAccount EXCEPT !.gate = IF visitor[v].mode = "invite" THEN "invite" ELSE "open",
                                    !.email = visitor[v].email,
                                    !.session = ~(visitor[v].mode = "invite")]],
               visitor' = [visitor EXCEPT ![v] =
                  IF visitor[v].mode = "invite"
                  THEN [visitor[v] EXCEPT !.pc = "redeem", !.as = m] ELSE IdleVisit]
        PROVE  Shape'
    <3> DEFINE next == [visitor[v] EXCEPT !.pc = "redeem", !.as = m]
    <3>1. /\ next \in Visit /\ next.as = m /\ next.code = visitor[v].code
          /\ next.mode = visitor[v].mode
      BY <2>1 DEF Visit
    <3>2. visitor' \in [Visitors -> Visit] /\ VisitorShape'
      BY <1>2, <1>3, <2>1, <2>3, <3>1
    <3>3. [NoAccount EXCEPT !.gate = IF visitor[v].mode = "invite" THEN "invite" ELSE "open",
                            !.email = visitor[v].email,
                            !.session = ~(visitor[v].mode = "invite")] \in Account
      BY <2>1 DEF NoAccount, Account, Visit
    <3>4. user' \in [Members -> Account]
      BY <2>3, <3>3 DEF Shape, TypeOK
    <3> QED
      BY <1>5, <3>2, <3>4 DEF RegisterCreate, Shape, TypeOK, IssuerShape
  <2> QED
    BY <1>5, <2>2, <2>3 DEF RegisterCreate
<1>6. ASSUME NEW v \in Visitors, RegisterRedeem(v) PROVE Shape'
  <2> DEFINE r == visitor[v]
  <2>1. r \in Visit /\ r.code \in Codes /\ r.as \in Members
    BY <1>6 DEF RegisterRedeem, Shape, TypeOK, VisitorShape
  <2>2. visitor' \in [Visitors -> Visit] /\ VisitorShape'
    BY <1>2, <1>3, <1>6 DEF RegisterRedeem
  <2>3. user[r.as] \in Account /\ code[r.code] \in Code
    BY <2>1 DEF Shape, TypeOK
  <2>4. [user[r.as] EXCEPT !.session = TRUE] \in Account
    BY <2>3 DEF Account
  <2>5. [code[r.code] EXCEPT !.used = r.as] \in Code
    BY <2>1, <2>3 DEF Code
  <2>6. user' = [user EXCEPT ![r.as] = [user[r.as] EXCEPT !.session = TRUE]]
    BY <1>6 DEF RegisterRedeem
  <2>7. code' = [code EXCEPT ![r.code] = [code[r.code] EXCEPT !.used = r.as]] \/ code' = code
    BY <1>6 DEF RegisterRedeem
  <2>8. user' \in [Members -> Account] /\ code' \in [Codes -> Code]
    BY <2>1, <2>6, <2>7, <2>4, <2>5 DEF Shape, TypeOK
  <2> QED
    BY <1>6, <2>2, <2>8 DEF RegisterRedeem, Shape, TypeOK, IssuerShape
<1> QED
  BY <1>1, <1>4, <1>5, <1>6 DEF Register

LEMMA NextShape == ASSUME Shape, [Next]_vars PROVE Shape'
<1>1. CASE UNCHANGED vars
  BY <1>1 DEF vars, Shape, TypeOK, IssuerShape, VisitorShape
<1> QED
  BY <1>1, OperatorShape, GrantShape, CreateShape, IssueShape, ExpireShape, RevokeShape,
     RegisterShape DEF Next

LEMMA InitShape == Init => Shape
<1> SUFFICES ASSUME Init PROVE Shape
  OBVIOUS
<1>1. NoAccount \in Account /\ [NoAccount EXCEPT !.gate = "founder"] \in Account
  BY RecordsTyped DEF NoAccount, Account
<1>2. user \in [Members -> Account]
  BY <1>1 DEF Init
<1>3. TypeOK
  BY <1>2, InvitesAssumption, RecordsTyped DEF Init, TypeOK
<1> QED
  BY <1>3 DEF Init, Shape, IssuerShape, VisitorShape, IdleIssue, IdleVisit

\* Every reachable state is well typed, whatever the settings and the failures.
THEOREM TypeCorrect == Spec => []TypeOK
<1>1. Spec => []Shape
  BY InitShape, NextShape, PTL DEF Spec
<1>2. Shape => TypeOK
  BY DEF Shape
<1> QED
  BY <1>1, <1>2, PTL

-----------------------------------------------------------------------------
(***************************************************************************)
(* How a code ends, and for whom.  The claim's statement checks the code,  *)
(* but the address was compared two statements earlier, against a row that *)
(* other registrations, its issuer, staff and the clock go on changing.    *)
(* What carries the comparison over is that a minted row keeps its issuer  *)
(* and its address, and an account its own address.                        *)
(***************************************************************************)
Strict == \A o \in Options : o.strict

\* A step creates accounts and mints codes; it rewrites neither's address, and
\* no code's issuer or claim.
Kept ==
    /\ \A m \in Members : Exists(m) => Exists(m)' /\ user'[m].email = user[m].email
    /\ \A c \in Codes : code[c].minted =>
           /\ code'[c].minted /\ code'[c].email = code[c].email /\ code'[c].by = code[c].by
           /\ code'[c].revoked \/ ~code[c].revoked
           /\ Spent(c) => code'[c].used = code[c].used

RowShape ==
    \A c \in Codes :
        /\ ~code[c].minted => code[c] = NoCode
        /\ Spent(c) => code[c].used \in Members /\ Exists(code[c].used)

\* A registration past the gate by invite carries a code that opened for its
\* address, and past the creation the account of that address.
Carries(v) ==
    /\ visitor[v].pc \in {"create", "redeem"} /\ visitor[v].mode = "invite" =>
           /\ code[visitor[v].code].minted
           /\ Strict /\ code[visitor[v].code].email # NoEmail =>
                  visitor[v].email = code[visitor[v].code].email
    /\ visitor[v].pc = "redeem" =>
           Exists(visitor[v].as) /\ user[visitor[v].as].email = visitor[v].email

GateKept == \A v \in Visitors : Carries(v)

\* A refund is owed for a code that was minted.
OwedIsMinted == \A p \in owed : code[p[2]].minted

Claim == Shape /\ RowShape /\ GateKept /\ OwedIsMinted /\ ClaimedAsIssued

\* A step that redeems nothing leaves every claim as it is.
Quiet ==
    /\ \A c \in Codes :
          /\ code'[c].used = code[c].used
          /\ ~code'[c].minted => code'[c] = NoCode
          /\ code'[c].revoked /\ Spent(c) => code[c].revoked
    /\ \A p \in owed' : code'[p[2]].minted

\* A mint takes a code that was never drawn, and a balance.
LEMMA MintKeeps ==
    ASSUME Claim, NEW c \in Codes, NEW m \in Members \cup {Nobody}, NEW e \in Address,
           NEW charged \in BOOLEAN, Mint(c, m, e, charged), owed' = owed
    PROVE  Kept /\ Quiet
<1>1. code[c] = NoCode
  BY DEF Mint, Claim, RowShape
<1> DEFINE new == [NoCode EXCEPT !.minted = TRUE, !.by = m, !.email = e, !.live = TRUE,
                                 !.charged = charged]
<1>2. new.minted /\ new.used = code[c].used /\ ~new.revoked
  BY <1>1 DEF NoCode
<1>3. code'[c] = new /\ \A d \in Codes \ {c} : code'[d] = code[d]
  BY DEF Mint, Claim, Shape, TypeOK
<1>4. \A n \in Members : user'[n].gate = user[n].gate /\ user'[n].email = user[n].email
  <2>1. user' = user \/ user' = [user EXCEPT ![m] = [user[m] EXCEPT !.invites = @ - 1]]
    BY DEF Mint
  <2> QED
    BY <2>1 DEF Claim, Shape, TypeOK, Account
<1>5. Kept
  BY <1>2, <1>3, <1>4 DEF Kept, Exists, Spent, Mint
<1> HIDE DEF new
<1>6. \A d \in Codes : /\ code'[d].used = code[d].used
                       /\ ~code'[d].minted => code'[d] = NoCode
                       /\ code'[d].revoked /\ Spent(d) => code[d].revoked
  BY <1>2, <1>3 DEF Claim, RowShape
<1>7. \A p \in owed' : code'[p[2]].minted
  BY <1>2, <1>3 DEF Claim, Shape, TypeOK, OwedIsMinted
<1> QED
  BY <1>5, <1>6, <1>7 DEF Quiet

\* A step that writes no code, no debt, and of the accounts only balances and
\* sessions, keeps everything.
LEMMA BalanceKeeps ==
    ASSUME Claim, code' = code, owed' \subseteq owed,
           user' \in [Members -> Account],
           \A n \in Members : user'[n].gate = user[n].gate /\ user'[n].email = user[n].email
    PROVE  Kept /\ Quiet
BY DEF Kept, Quiet, Exists, Spent, Claim, RowShape, OwedIsMinted

\* The end of a code keeps the rest of its row.
LEMMA EndKeeps ==
    ASSUME Claim, NEW c \in Codes, code[c].minted,
           \/ ~Spent(c) /\ code' = [code EXCEPT ![c].revoked = TRUE]
           \/ code' = [code EXCEPT ![c].live = FALSE]
           \/ code' = [code EXCEPT ![c].refunded = TRUE],
           \A n \in Members : user'[n].gate = user[n].gate /\ user'[n].email = user[n].email,
           \A p \in owed' : p \in owed \/ p[2] = c
    PROVE  Kept /\ Quiet
<1>1. code[c] \in Code /\ \A d \in Codes \ {c} : code'[d] = code[d]
  BY DEF Claim, Shape, TypeOK
<1>2. /\ code'[c].used = code[c].used /\ code'[c].by = code[c].by
      /\ code'[c].email = code[c].email /\ code'[c].minted
      /\ code'[c].revoked => code[c].revoked \/ ~Spent(c)
      /\ code'[c].revoked \/ ~code[c].revoked
  <2>1. \/ code' = [code EXCEPT ![c] = [code[c] EXCEPT !.revoked = TRUE]] /\ ~Spent(c)
        \/ code' = [code EXCEPT ![c] = [code[c] EXCEPT !.live = FALSE]]
        \/ code' = [code EXCEPT ![c] = [code[c] EXCEPT !.refunded = TRUE]]
    OBVIOUS
  <2>2. \/ code'[c] = [code[c] EXCEPT !.revoked = TRUE] /\ ~Spent(c)
        \/ code'[c] = [code[c] EXCEPT !.live = FALSE]
        \/ code'[c] = [code[c] EXCEPT !.refunded = TRUE]
    BY <2>1 DEF Claim, Shape, TypeOK
  <2> QED
    BY <1>1, <2>2 DEF Code
<1>3. Kept
  BY <1>1, <1>2 DEF Kept, Exists, Spent
<1>4. \A p \in owed' : code'[p[2]].minted
  BY <1>1, <1>2 DEF Claim, Shape, TypeOK, OwedIsMinted
<1>5. \A d \in Codes : /\ code'[d].used = code[d].used
                       /\ ~code'[d].minted => code'[d] = NoCode
                       /\ code'[d].revoked /\ Spent(d) => code[d].revoked
  BY <1>1, <1>2 DEF Claim, RowShape
<1> QED
  BY <1>3, <1>4, <1>5 DEF Quiet

\* Every step but a redemption is quiet.
LEMMA OthersKeep ==
    ASSUME Claim, [Next]_vars, \A v \in Visitors : ~RegisterRedeem(v)
    PROVE  Kept /\ Quiet
<1>1. CASE UNCHANGED vars
  BY <1>1, BalanceKeeps DEF vars, Claim, Shape, TypeOK
<1>2. CASE Operator
  <2>1. ASSUME NEW c \in Codes, adminInvitesRevoke(c) PROVE Kept /\ Quiet
    BY <2>1, EndKeeps DEF adminInvitesRevoke, Revocable
  <2>2. ASSUME NEW mo \in Modes, saveAccessSettings(mo) PROVE Kept /\ Quiet
    BY <2>2, BalanceKeeps DEF saveAccessSettings, Claim, Shape, TypeOK
  <2>3. ASSUME NEW o \in Options, saveInviteOptions(o) PROVE Kept /\ Quiet
    BY <2>3, BalanceKeeps DEF saveInviteOptions, Claim, Shape, TypeOK
  <2> QED
    BY <1>2, <2>1, <2>2, <2>3 DEF Operator
<1>3. ASSUME NEW m \in Members, NEW b \in Nat,
             user' = user \/ user' = [user EXCEPT ![m] = [user[m] EXCEPT !.invites = b]]
      PROVE  \A n \in Members : user'[n].gate = user[n].gate /\ user'[n].email = user[n].email
  BY <1>3 DEF Claim, Shape, TypeOK, Account
<1>4. ASSUME NEW m \in Members, GrantInvites(m) PROVE Kept /\ Quiet
  <2>1. user[m].invites + 1 \in Nat
    BY DEF Claim, Shape, TypeOK, Account
  <2>2. user' = [user EXCEPT ![m] = [user[m] EXCEPT !.invites = user[m].invites + 1]]
    BY <1>4 DEF GrantInvites
  <2>3. Shape'
    BY <1>4, GrantShape DEF Claim
  <2> QED
    BY <1>3, <1>4, <2>1, <2>2, <2>3, BalanceKeeps DEF GrantInvites, Shape, TypeOK
<1>5. CASE Create
  <2>1. ASSUME NEW i \in Issuers, CreateMint(i) PROVE Kept /\ Quiet
    <3>1. issuer[i].by \in Members /\ issuer[i].email \in Address
      BY <2>1 DEF CreateMint, Claim, Shape, TypeOK, IssuerShape, Issue
    <3> QED
      BY <2>1, <3>1, MintKeeps, BalanceKeeps DEF CreateMint, Claim, Shape, TypeOK
  <2>2. ASSUME user' = user, code' = code, owed' = owed PROVE Kept /\ Quiet
    BY <2>2, BalanceKeeps DEF Claim, Shape, TypeOK
  <2> QED
    BY <1>5, <2>1, <2>2 DEF Create, CreateBegin, CreateCount, CreateFails
<1>6. ASSUME NEW m \in Members \cup {Nobody}, NEW e \in Emails, NEW charge \in BOOLEAN,
             IssueInvite(m, e, charge)
      PROVE  Kept /\ Quiet
  BY <1>6, MintKeeps DEF IssueInvite, Address
<1>7. ASSUME NEW c \in Codes, Expire(c) PROVE Kept /\ Quiet
  <2>1. code[c].minted
    BY <1>7 DEF Expire, Claim, RowShape, NoCode
  <2> QED
    BY <1>7, <2>1, EndKeeps DEF Expire
<1>8. CASE Revoke
  <2>1. ASSUME NEW m \in Members, NEW c \in Codes, invitesRevoke(m, c) PROVE Kept /\ Quiet
    <3>1. code[c].minted /\ ~Spent(c) /\ user' = user
      BY <2>1 DEF invitesRevoke, Revocable
    <3>2. code' = [code EXCEPT ![c].revoked = TRUE] /\ owed' = owed \cup {<<m, c>>}
      BY <2>1 DEF invitesRevoke
    <3>3. \A p \in owed' : p \in owed \/ p[2] = c
      BY <3>2
    <3> QED
      BY <3>1, <3>2, <3>3, EndKeeps
  <2>2. ASSUME NEW m \in Members, NEW c \in Codes, RefundInvite(m, c) PROVE Kept /\ Quiet
    <3>1. code[c].minted /\ user[m].invites + 1 \in Nat
      BY <2>2 DEF RefundInvite, Claim, OwedIsMinted, Shape, TypeOK, Account
    <3>2. \/ user' = user
          \/ user' = [user EXCEPT ![m] = [user[m] EXCEPT !.invites = user[m].invites + 1]]
      BY <2>2 DEF RefundInvite
    <3>3. \A n \in Members : user'[n].gate = user[n].gate /\ user'[n].email = user[n].email
      BY <1>3, <3>1, <3>2
    <3>4. code' = [code EXCEPT ![c].refunded = TRUE] \/ UNCHANGED <<user, code>>
      BY <2>2 DEF RefundInvite
    <3>5. CASE code' = [code EXCEPT ![c].refunded = TRUE]
      BY <2>2, <3>1, <3>3, <3>5, EndKeeps DEF RefundInvite
    <3>6. CASE UNCHANGED <<user, code>>
      BY <2>2, <3>6, BalanceKeeps DEF RefundInvite, Claim, Shape, TypeOK
    <3> QED
      BY <3>4, <3>5, <3>6
  <2> QED
    BY <1>8, <2>1, <2>2 DEF Revoke
<1>9. CASE Register
  <2>1. ASSUME user' = user, code' = code, owed' = owed PROVE Kept /\ Quiet
    BY <2>1, BalanceKeeps DEF Claim, Shape, TypeOK
  <2>2. ASSUME NEW v \in Visitors, RegisterCreate(v), user' # user PROVE Kept /\ Quiet
    <3>1. PICK m \in Members : ~Exists(m) /\ \A n \in Members \ {m} : user'[n] = user[n]
      BY <2>2 DEF RegisterCreate, Claim, Shape, TypeOK
    <3>2. Kept
      BY <2>2, <3>1 DEF Kept, Exists, RegisterCreate, Spent
    <3>3. Quiet
      BY <2>2 DEF RegisterCreate, Quiet, Claim, RowShape, OwedIsMinted
    <3> QED
      BY <3>2, <3>3
  <2> QED
    BY <1>9, <2>1, <2>2 DEF Register, RegisterBegin, RegisterGate, RegisterCreate
<1> QED
  BY <1>1, <1>2, <1>4, <1>5, <1>6, <1>7, <1>8, <1>9 DEF Next

\* A claim is made by a registration whose address opened the code, for a code
\* that is still pending when the statement runs.
LEMMA RedeemKeeps ==
    ASSUME Claim, NEW v \in Visitors, RegisterRedeem(v)
    PROVE  Kept /\ RowShape' /\ OwedIsMinted' /\ ClaimedAsIssued'
<1> DEFINE r == visitor[v]
<1>1. r.code \in Codes /\ r.as \in Members /\ r.mode = "invite" /\ r.pc = "redeem"
  BY DEF RegisterRedeem, Claim, Shape, VisitorShape
<1>2. /\ code[r.code].minted /\ Exists(r.as) /\ user[r.as].email = r.email
      /\ Strict /\ code[r.code].email # NoEmail => r.email = code[r.code].email
  BY <1>1 DEF Claim, GateKept, Carries
<1>3. \A n \in Members : user'[n].gate = user[n].gate /\ user'[n].email = user[n].email
  <2>1. user' = [user EXCEPT ![r.as] = [user[r.as] EXCEPT !.session = TRUE]]
    BY DEF RegisterRedeem
  <2> QED
    BY <1>1, <2>1 DEF Claim, Shape, TypeOK, Account
<1>4. CASE code' = code
  <2>1. Kept /\ RowShape' /\ OwedIsMinted'
    BY <1>3, <1>4 DEF Kept, RowShape, OwedIsMinted, Exists, Spent, Claim, RegisterRedeem
  <2>2. ClaimedAsIssued'
    BY <1>3, <1>4 DEF Claim, RowShape, ClaimedAsIssued, ClaimedOrCancelled, LockedToItsAddress, Spent
  <2> QED
    BY <2>1, <2>2
<1>5. CASE Redeemable(r.code) /\ code' = [code EXCEPT ![r.code].used = r.as]
  <2> DEFINE new == [code[r.code] EXCEPT !.used = r.as]
  <2>1. code[r.code] \in Code /\ ~Spent(r.code) /\ ~code[r.code].revoked
    BY <1>1, <1>5 DEF Redeemable, Pending, Claim, Shape, TypeOK
  <2>2. /\ new.used = r.as /\ new.minted /\ ~new.revoked
        /\ new.email = code[r.code].email /\ new.by = code[r.code].by
    BY <1>2, <2>1 DEF Code
  <2>3. code'[r.code] = new /\ \A d \in Codes \ {r.code} : code'[d] = code[d]
    BY <1>1, <1>5 DEF Claim, Shape, TypeOK
  <2> HIDE DEF new
  <2>4. Kept
    BY <1>3, <2>1, <2>2, <2>3 DEF Kept, Exists, Spent
  <2>5. RowShape'
    BY <1>1, <1>2, <1>3, <2>2, <2>3 DEF RowShape, Exists, Spent, Claim
  <2>6. OwedIsMinted'
    BY <2>2, <2>3 DEF OwedIsMinted, Claim, Shape, TypeOK, RegisterRedeem
  <2>7. ClaimedOrCancelled'
    BY <2>2, <2>3 DEF ClaimedOrCancelled, Spent, Claim, ClaimedAsIssued
  <2>8. LockedToItsAddress'
    <3> SUFFICES ASSUME NEW c \in Codes, Spent(c)', code'[c].email # NoEmail, Strict
                 PROVE  user'[code'[c].used].email = code'[c].email
      BY DEF LockedToItsAddress, Strict
    <3>1. CASE c = r.code
      BY <1>1, <1>2, <1>3, <2>2, <2>3, <3>1
    <3>2. CASE c # r.code
      BY <1>3, <2>3, <3>2 DEF Claim, RowShape, ClaimedAsIssued, LockedToItsAddress, Spent, Strict
    <3> QED
      BY <3>1, <3>2
  <2> QED
    BY <2>4, <2>5, <2>6, <2>7, <2>8 DEF ClaimedAsIssued
<1> QED
  BY <1>4, <1>5 DEF RegisterRedeem

\* What a registration in flight knows of its code survives every step of the
\* others, and its own gate is where it learns it.
LEMMA GateStep ==
    ASSUME Claim, Kept, [Next]_vars PROVE GateKept'
<1>1. ASSUME NEW w \in Visitors, visitor'[w] = visitor[w] PROVE Carries(w)'
  <2>1. Carries(w)
    BY DEF Claim, GateKept
  <2>2. visitor[w].pc # "idle" => visitor[w].code \in Codes
    BY DEF Claim, Shape, VisitorShape
  <2>3. visitor[w].pc = "redeem" => visitor[w].as \in Members /\ visitor[w].mode = "invite"
    BY DEF Claim, Shape, VisitorShape
  <2> QED
    BY <1>1, <2>1, <2>2, <2>3 DEF Carries, Kept, Exists, Strict
<1>2. ASSUME NEW w \in Visitors, visitor'[w] = IdleVisit PROVE Carries(w)'
  BY <1>2 DEF Carries, IdleVisit
<1>3. ASSUME NEW v \in Visitors, NEW w \in Visitors, RegisterGate(v), w = v PROVE Carries(w)'
  <2> DEFINE r == visitor[v]
             next == [r EXCEPT !.pc = "create", !.mode = Settled(r.mode)]
  <2>1. r \in Visit /\ r.code \in Codes
    BY <1>3 DEF RegisterGate, Claim, Shape, TypeOK, VisitorShape
  <2>2. next.pc = "create" /\ next.mode = Settled(r.mode) /\ next.code = r.code /\ next.email = r.email
    BY <2>1 DEF Visit
  <2>3. Strict => opts.strict
    BY DEF Strict, Claim, Shape, TypeOK
  <2>4. UNCHANGED <<user, code>>
    BY <1>3 DEF RegisterGate
  <2>5. CASE visitor'[v] = IdleVisit
    BY <1>2, <1>3, <2>5
  <2>6. CASE visitor'[v] = next /\ (Settled(r.mode) = "invite" => Pending(r.code) /\ LockOpens(r))
    BY <1>3, <2>2, <2>3, <2>4, <2>6 DEF Carries, Pending, LockOpens, Exists, Strict
  <2> QED
    BY <1>3, <2>5, <2>6 DEF RegisterGate, Claim, Shape, TypeOK
<1>4. ASSUME NEW v \in Visitors, NEW w \in Visitors, RegisterCreate(v), w = v PROVE Carries(w)'
  <2> DEFINE r == visitor[v]
  <2>1. CASE visitor'[v] = IdleVisit
    BY <1>2, <1>4, <2>1
  <2>2. ASSUME NEW m \in Members, r.mode = "invite",
               visitor' = [visitor EXCEPT ![v] = [r EXCEPT !.pc = "redeem", !.as = m]],
               user' = [user EXCEPT ![m] = [NoAccount EXCEPT !.gate = "invite",
                                                             !.email = r.email,
                                                             !.session = FALSE]]
        PROVE  Carries(w)'
    <3>1. r \in Visit /\ Carries(v) /\ r.pc = "create"
      BY <1>4 DEF RegisterCreate, Claim, Shape, TypeOK, GateKept
    <3>2. /\ visitor'[v].pc = "redeem" /\ visitor'[v].as = m /\ visitor'[v].code = r.code
          /\ visitor'[v].email = r.email
      BY <2>2, <3>1 DEF Claim, Shape, TypeOK, Visit
    <3>3. user'[m].gate = "invite" /\ user'[m].email = r.email
      BY <2>2 DEF Claim, Shape, TypeOK, NoAccount
    <3>4. code' = code
      BY <1>4 DEF RegisterCreate
    <3>5. /\ code[r.code].minted
          /\ Strict /\ code[r.code].email # NoEmail => r.email = code[r.code].email
      BY <2>2, <3>1 DEF Carries
    <3> QED
      BY <1>4, <3>2, <3>3, <3>4, <3>5 DEF Carries, Exists, Strict
  <2> QED
    BY <1>4, <2>1, <2>2 DEF RegisterCreate, Claim, Shape, TypeOK
<1>5. ASSUME NEW w \in Visitors PROVE Carries(w)'
  <2>1. CASE visitor' = visitor
    BY <1>1, <2>1
  <2>2. ASSUME NEW v \in Visitors, NEW e \in Address, NEW c \in Codes, RegisterBegin(v, e, c)
        PROVE  Carries(w)'
    <3>1. CASE w = v
      BY <2>2, <3>1 DEF RegisterBegin, Carries, Claim, Shape, TypeOK
    <3>2. CASE w # v
      BY <1>1, <2>2, <3>2 DEF RegisterBegin, Claim, Shape, TypeOK
    <3> QED
      BY <3>1, <3>2
  <2>3. ASSUME NEW v \in Visitors, RegisterGate(v) PROVE Carries(w)'
    BY <1>1, <1>3, <2>3 DEF RegisterGate, Claim, Shape, TypeOK
  <2>4. ASSUME NEW v \in Visitors, RegisterCreate(v) PROVE Carries(w)'
    BY <1>1, <1>4, <2>4 DEF RegisterCreate, Claim, Shape, TypeOK
  <2>5. ASSUME NEW v \in Visitors, RegisterRedeem(v) PROVE Carries(w)'
    BY <1>1, <1>2, <2>5 DEF RegisterRedeem, Claim, Shape, TypeOK
  <2>6. CASE Register
    BY <2>2, <2>3, <2>4, <2>5, <2>6 DEF Register
  <2>7. [Next]_vars => visitor' = visitor \/ Register
    BY DEF Next, vars, Operator, saveAccessSettings, saveInviteOptions, adminInvitesRevoke,
           GrantInvites, Create, CreateBegin, CreateCount, CreateMint, CreateFails, IssueInvite,
           Expire, Revoke, invitesRevoke, RefundInvite
  <2> QED
    BY <2>1, <2>6, <2>7
<1> QED
  BY <1>5 DEF GateKept

LEMMA ClaimStep == ASSUME Claim, [Next]_vars PROVE Claim' /\ Kept
<1>1. Shape'
  BY NextShape DEF Claim
<1>2. ASSUME NEW v \in Visitors, RegisterRedeem(v) PROVE Claim' /\ Kept
  BY <1>1, <1>2, RedeemKeeps, GateStep DEF Claim
<1>3. CASE \A v \in Visitors : ~RegisterRedeem(v)
  <2>1. Kept /\ Quiet
    BY <1>3, OthersKeep
  <2>2. RowShape' /\ OwedIsMinted' /\ ClaimedOrCancelled'
    BY <2>1 DEF RowShape, OwedIsMinted, ClaimedOrCancelled, ClaimedAsIssued, Claim, Kept, Quiet,
                Spent, Exists
  <2>3. LockedToItsAddress'
    <3> SUFFICES ASSUME NEW c \in Codes, Spent(c)', code'[c].email # NoEmail, Strict
                 PROVE  user'[code'[c].used].email = code'[c].email
      BY DEF LockedToItsAddress, Strict
    <3>1. Spent(c) /\ code[c].minted /\ code'[c].used = code[c].used /\ code'[c].email = code[c].email
      BY <2>1 DEF Quiet, Kept, Spent, Claim, RowShape, NoCode
    <3> QED
      BY <2>1, <3>1 DEF Claim, RowShape, ClaimedAsIssued, LockedToItsAddress, Kept, Strict
  <2> QED
    BY <1>1, <2>1, <2>2, <2>3, GateStep DEF Claim, ClaimedAsIssued
<1> QED
  BY <1>2, <1>3

LEMMA InitClaim == Init => Claim
<1> SUFFICES ASSUME Init PROVE Claim
  OBVIOUS
<1>1. Shape
  BY InitShape
<1>2. \A c \in Codes : code[c] = NoCode /\ ~Spent(c)
  BY DEF Init, Spent, NoCode
<1> QED
  BY <1>1, <1>2 DEF Init, Claim, RowShape, GateKept, Carries, OwedIsMinted, ClaimedAsIssued,
     ClaimedOrCancelled, LockedToItsAddress, IdleVisit

\* A code is claimed or cancelled and never both, and while the lock is strict a
\* code locked to an address is claimed by an account of that address, however
\* registrations, refunds and the operator's switches interleave.
THEOREM ClaimsHold == Spec => []ClaimedAsIssued
<1>1. Spec => []Claim
  BY InitClaim, ClaimStep, PTL DEF Spec
<1>2. Claim => ClaimedAsIssued
  BY DEF Claim
<1> QED
  BY <1>1, <1>2, PTL

\* Who invited whom is settled by the first redemption.
THEOREM ChainHolds == Spec => ChainIsFinal
<1>1. Spec => []Claim
  BY InitClaim, ClaimStep, PTL DEF Spec
<1>2. ASSUME Claim, [Next]_vars
      PROVE  [\A c \in Codes : Spent(c) => code'[c].used = code[c].used /\ code'[c].by = code[c].by]_vars
  <2>1. Kept
    BY <1>2, ClaimStep
  <2>2. \A c \in Codes : Spent(c) => code[c].minted
    BY <1>2 DEF Claim, RowShape, Spent, NoCode
  <2> QED
    BY <2>1, <2>2 DEF Kept
<1> QED
  BY <1>1, <1>2, PTL DEF Spec, ChainIsFinal

-----------------------------------------------------------------------------
(***************************************************************************)
(* Conservation.  A charged code stands for the invite that was spent on   *)
(* it until it is refunded; a refund is owed once for each cancellation.   *)
(* This needs that the site issues no codes uncharged: refunding one of    *)
(* those makes an invite out of nothing.                                   *)
(***************************************************************************)
Outstanding(m) == {c \in Codes : code[c].charged /\ code[c].by = m /\ ~code[c].refunded}

DebtShape ==
    /\ \A c \in Codes : /\ code[c].minted => code[c].charged
                        /\ code[c].refunded => code[c].revoked
    /\ \A m \in Members, c \in Codes : <<m, c>> \in owed =>
          code[c].revoked /\ code[c].by = m /\ ~code[c].refunded

Ledger ==
    /\ Claim /\ DebtShape
    /\ \A m \in Members : IsFiniteSet(Outstanding(m))
    /\ InvitesConserved

\* A step that leaves what is outstanding, and pays nobody but by a grant.
LEMMA LedgerStays ==
    ASSUME Ledger, Claim', DebtShape',
           \A m \in Members : /\ Outstanding(m)' = Outstanding(m)
                              /\ \/ user'[m].invites = user[m].invites /\ granted'[m] = granted[m]
                                 \/ /\ user'[m].invites = user[m].invites + 1
                                    /\ granted'[m] = granted[m] + 1
                                 \/ user'[m].invites = 0 /\ granted'[m] = granted[m]
    PROVE  Ledger'
<1>1. ASSUME NEW m \in Members
      PROVE  user'[m].invites + Cardinality(Outstanding(m)') <= granted'[m]
  <2>1. /\ user[m].invites \in Nat /\ user'[m].invites \in Nat
        /\ granted[m] \in Int /\ granted'[m] \in Int
    BY DEF Ledger, Claim, Shape, TypeOK, Account
  <2>2. Cardinality(Outstanding(m)) \in Nat
    BY FS_CardinalityType DEF Ledger
  <2>3. user[m].invites + Cardinality(Outstanding(m)) <= granted[m]
    BY DEF Ledger, InvitesConserved, Outstanding
  <2>4. Outstanding(m)' = Outstanding(m)
    OBVIOUS
  <2> QED
    BY <2>1, <2>2, <2>3, <2>4
<1>2. InvitesConserved'
  BY <1>1 DEF InvitesConserved, Outstanding
<1> QED
  BY <1>2 DEF Ledger

\* A step that leaves every code's charge, issuer and refund leaves what is
\* outstanding.
LEMMA SameOutstanding ==
    ASSUME \A c \in Codes : /\ code'[c].charged = code[c].charged /\ code'[c].by = code[c].by
                            /\ code'[c].refunded = code[c].refunded
    PROVE  \A m \in Members : Outstanding(m)' = Outstanding(m)
BY DEF Outstanding

\* A charged mint turns one invite into one outstanding code.
LEMMA LedgerMint ==
    ASSUME Ledger, Claim', NEW c \in Codes, NEW m \in Members, NEW e \in Address, CanPay(m),
           Mint(c, m, e, TRUE), granted' = granted, owed' = owed
    PROVE  Ledger'
<1> DEFINE new == [NoCode EXCEPT !.minted = TRUE, !.by = m, !.email = e, !.live = TRUE,
                                 !.charged = TRUE]
<1>1. new.charged /\ new.by = m /\ ~new.refunded
  BY DEF NoCode
<1>2. code'[c] = new /\ \A d \in Codes \ {c} : code'[d] = code[d]
  BY DEF Mint, Ledger, Claim, Shape, TypeOK
<1>3. code[c] = NoCode
  BY DEF Mint, Ledger, Claim, RowShape
<1>4. ~code[c].charged /\ ~code[c].revoked
  BY <1>3 DEF NoCode
<1> HIDE DEF new
<1>5. DebtShape'
  BY <1>1, <1>2, <1>4 DEF Ledger, DebtShape
<1>6. c \notin Outstanding(m) /\ Outstanding(m)' = Outstanding(m) \cup {c}
  BY <1>1, <1>2, <1>4 DEF Outstanding
<1>7. \A n \in Members \ {m} : Outstanding(n)' = Outstanding(n)
  BY <1>1, <1>2, <1>4 DEF Outstanding
<1>8. \A n \in Members : IsFiniteSet(Outstanding(n)')
  BY <1>6, <1>7, FS_AddElement DEF Ledger
<1>9. user' = [user EXCEPT ![m] = [user[m] EXCEPT !.invites = user[m].invites - 1]]
  BY DEF Mint
<1>10. /\ user'[m].invites = user[m].invites - 1
       /\ \A n \in Members \ {m} : user'[n].invites = user[n].invites
  BY <1>9 DEF Ledger, Claim, Shape, TypeOK, Account
<1>11. ASSUME NEW n \in Members
       PROVE  user'[n].invites + Cardinality(Outstanding(n)') <= granted'[n]
  <2>1. user[n].invites \in Nat /\ granted[n] \in Int /\ Cardinality(Outstanding(n)) \in Nat
    BY FS_CardinalityType DEF Ledger, Claim, Shape, TypeOK, Account
  <2>2. user[n].invites + Cardinality(Outstanding(n)) <= granted[n]
    BY DEF Ledger, InvitesConserved, Outstanding
  <2>3. CASE n = m
    <3>1. Cardinality(Outstanding(m)') = Cardinality(Outstanding(m)) + 1
      BY <1>6, FS_AddElement DEF Ledger
    <3> QED
      BY <1>10, <2>1, <2>2, <2>3, <3>1
  <2>4. CASE n # m
    <3>1. Outstanding(n)' = Outstanding(n) /\ user'[n].invites = user[n].invites
      BY <1>7, <1>10, <2>4
    <3> QED
      BY <2>1, <2>2, <3>1
  <2> QED
    BY <2>3, <2>4
<1> QED
  BY <1>5, <1>8, <1>11 DEF Ledger, InvitesConserved, Outstanding

\* A refund turns one outstanding code back into one invite, once.
LEMMA LedgerRefund ==
    ASSUME Ledger, Claim', NEW m \in Members, NEW c \in Codes, RefundInvite(m, c)
    PROVE  Ledger'
<1>1. /\ code[c].minted /\ code[c].charged /\ code[c].revoked
      /\ code[c].by = m /\ ~code[c].refunded /\ code[c] \in Code
  BY DEF RefundInvite, Ledger, DebtShape, Claim, OwedIsMinted, Shape, TypeOK
<1>2. owed' = owed \ {<<m, c>>} /\ granted' = granted
  BY DEF RefundInvite
<1>3. CASE UNCHANGED <<user, code>>
  <2>1. DebtShape'
    BY <1>2, <1>3 DEF Ledger, DebtShape
  <2> QED
    BY <1>2, <1>3, <2>1, LedgerStays, SameOutstanding
<1>4. CASE /\ user' = [user EXCEPT ![m].invites = @ + 1]
           /\ code' = [code EXCEPT ![c].refunded = TRUE]
  <2>1. code'[c] = [code[c] EXCEPT !.refunded = TRUE] /\ \A d \in Codes \ {c} : code'[d] = code[d]
    BY <1>4 DEF Ledger, Claim, Shape, TypeOK
  <2>2. /\ code'[c].minted /\ code'[c].charged /\ code'[c].revoked
        /\ code'[c].by = m /\ code'[c].refunded
    BY <1>1, <2>1 DEF Code
  <2>3. DebtShape'
    <3>1. ASSUME NEW n \in Members, NEW d \in Codes, <<n, d>> \in owed'
          PROVE  code'[d].revoked /\ code'[d].by = n /\ ~code'[d].refunded
      <4>1. code[d].revoked /\ code[d].by = n /\ ~code[d].refunded
        BY <1>2, <3>1 DEF Ledger, DebtShape
      <4>2. d # c
        BY <1>1, <1>2, <3>1, <4>1
      <4> QED
        BY <2>1, <4>1, <4>2
    <3>2. \A d \in Codes : /\ code'[d].minted => code'[d].charged
                           /\ code'[d].refunded => code'[d].revoked
      BY <2>1, <2>2 DEF Ledger, DebtShape
    <3> QED
      BY <3>1, <3>2 DEF DebtShape
  <2>4. c \in Outstanding(m) /\ Outstanding(m)' = Outstanding(m) \ {c}
    BY <1>1, <2>1, <2>2 DEF Outstanding
  <2>5. \A n \in Members \ {m} : Outstanding(n)' = Outstanding(n)
    BY <1>1, <2>1, <2>2 DEF Outstanding
  <2>6. \A n \in Members : IsFiniteSet(Outstanding(n)')
    BY <2>4, <2>5, FS_RemoveElement DEF Ledger
  <2>7. user' = [user EXCEPT ![m] = [user[m] EXCEPT !.invites = user[m].invites + 1]]
    BY <1>4
  <2>8. /\ user'[m].invites = user[m].invites + 1
        /\ \A n \in Members \ {m} : user'[n].invites = user[n].invites
    BY <2>7 DEF Ledger, Claim, Shape, TypeOK, Account
  <2>9. ASSUME NEW n \in Members
        PROVE  user'[n].invites + Cardinality(Outstanding(n)') <= granted'[n]
    <3>1. user[n].invites \in Nat /\ granted[n] \in Int /\ Cardinality(Outstanding(n)) \in Nat
      BY FS_CardinalityType DEF Ledger, Claim, Shape, TypeOK, Account
    <3>2. user[n].invites + Cardinality(Outstanding(n)) <= granted[n]
      BY DEF Ledger, InvitesConserved, Outstanding
    <3>3. CASE n = m
      <4>1. Cardinality(Outstanding(m)') = Cardinality(Outstanding(m)) - 1
        BY <2>4, FS_RemoveElement DEF Ledger
      <4> QED
        BY <1>2, <2>8, <3>1, <3>2, <3>3, <4>1
    <3>4. CASE n # m
      <4>1. Outstanding(n)' = Outstanding(n) /\ user'[n].invites = user[n].invites
        BY <2>5, <2>8, <3>4
      <4> QED
        BY <1>2, <3>1, <3>2, <4>1
    <3> QED
      BY <3>3, <3>4
  <2> QED
    BY <2>3, <2>6, <2>9 DEF Ledger, InvitesConserved, Outstanding
<1> QED
  BY <1>3, <1>4 DEF RefundInvite

\* The step that cancels: the debt it leaves is for a charged code.
LEMMA LedgerRevoke ==
    ASSUME Ledger, Claim', NEW c \in Codes, Revocable(c),
           code' = [code EXCEPT ![c].revoked = TRUE], user' = user, granted' = granted,
           owed' = owed \/ owed' = owed \cup {<<code[c].by, c>>}
    PROVE  Ledger'
<1>1. code'[c] = [code[c] EXCEPT !.revoked = TRUE] /\ \A d \in Codes \ {c} : code'[d] = code[d]
  BY DEF Ledger, Claim, Shape, TypeOK
<1>2. code[c] \in Code /\ code[c].minted /\ ~code[c].revoked
  BY DEF Revocable, Ledger, Claim, Shape, TypeOK
<1>3. /\ code'[c].minted = code[c].minted /\ code'[c].charged = code[c].charged
      /\ code'[c].by = code[c].by /\ code'[c].refunded = code[c].refunded /\ code'[c].revoked
  <2>1. \A r \in Code : LET s == [r EXCEPT !.revoked = TRUE] IN
           /\ s.minted = r.minted /\ s.charged = r.charged /\ s.by = r.by
           /\ s.refunded = r.refunded /\ s.revoked
    BY DEF Code
  <2> QED
    BY <1>1, <1>2, <2>1
<1>4. code[c].charged /\ ~code[c].refunded
  BY <1>2 DEF Ledger, DebtShape
<1>5. DebtShape'
  <2>1. ASSUME NEW n \in Members, NEW d \in Codes, <<n, d>> \in owed'
        PROVE  code'[d].revoked /\ code'[d].by = n /\ ~code'[d].refunded
    <3>1. CASE <<n, d>> \in owed
      BY <1>1, <1>3, <3>1 DEF Ledger, DebtShape
    <3>2. CASE n = code[c].by /\ d = c
      BY <1>3, <1>4, <3>2
    <3> QED
      BY <2>1, <3>1, <3>2
  <2>2. \A d \in Codes : /\ code'[d].minted => code'[d].charged
                         /\ code'[d].refunded => code'[d].revoked
    BY <1>1, <1>3 DEF Ledger, DebtShape
  <2> QED
    BY <2>1, <2>2 DEF DebtShape
<1>6. \A d \in Codes : /\ code'[d].charged = code[d].charged /\ code'[d].by = code[d].by
                       /\ code'[d].refunded = code[d].refunded
  BY <1>1, <1>3
<1> QED
  BY <1>5, <1>6, SameOutstanding, LedgerStays

\* A step that writes no code and no debt, and pays nobody but by a grant.
LEMMA LedgerQuiet ==
    ASSUME Ledger, Claim',
           code' = code \/ \E c \in Codes :
                              \/ code' = [code EXCEPT ![c].live = FALSE]
                              \/ \E m \in Members : code' = [code EXCEPT ![c].used = m],
           owed' = owed,
           \A m \in Members : \/ user'[m].invites = user[m].invites /\ granted'[m] = granted[m]
                              \/ /\ user'[m].invites = user[m].invites + 1
                                 /\ granted'[m] = granted[m] + 1
                              \/ user'[m].invites = 0 /\ granted'[m] = granted[m]
    PROVE  Ledger'
<1>1. \A d \in Codes : /\ code'[d].charged = code[d].charged /\ code'[d].by = code[d].by
                       /\ code'[d].refunded = code[d].refunded
                       /\ code'[d].minted = code[d].minted /\ code'[d].revoked = code[d].revoked
  <2>1. ASSUME NEW c \in Codes, code' = [code EXCEPT ![c] = [code[c] EXCEPT !.live = FALSE]]
        PROVE  \A d \in Codes : /\ code'[d].charged = code[d].charged /\ code'[d].by = code[d].by
                                /\ code'[d].refunded = code[d].refunded
                                /\ code'[d].minted = code[d].minted
                                /\ code'[d].revoked = code[d].revoked
    BY <2>1 DEF Ledger, Claim, Shape, TypeOK, Code
  <2>2. ASSUME NEW c \in Codes, NEW m \in Members,
               code' = [code EXCEPT ![c] = [code[c] EXCEPT !.used = m]]
        PROVE  \A d \in Codes : /\ code'[d].charged = code[d].charged /\ code'[d].by = code[d].by
                                /\ code'[d].refunded = code[d].refunded
                                /\ code'[d].minted = code[d].minted
                                /\ code'[d].revoked = code[d].revoked
    BY <2>2 DEF Ledger, Claim, Shape, TypeOK, Code
  <2>3. CASE code' = code
    BY <2>3
  <2> QED
    BY <2>1, <2>2, <2>3
<1>2. DebtShape'
  BY <1>1 DEF Ledger, DebtShape
<1>3. \A m \in Members : Outstanding(m)' = Outstanding(m)
  BY <1>1, SameOutstanding
<1> QED
  BY <1>2, <1>3, LedgerStays

LEMMA LedgerStep == ASSUME ~SiteIssues, Ledger, [Next]_vars PROVE Ledger'
<1>1. Claim' /\ Shape
  BY ClaimStep DEF Ledger, Claim
<1>2. ASSUME code' = code, owed' = owed, user' = user, granted' = granted PROVE Ledger'
  BY <1>1, <1>2, LedgerQuiet
<1>3. CASE Operator
  <2>1. ASSUME NEW c \in Codes, adminInvitesRevoke(c) PROVE Ledger'
    BY <1>1, <2>1, LedgerRevoke DEF adminInvitesRevoke
  <2> QED
    BY <1>2, <1>3, <2>1 DEF Operator, saveAccessSettings, saveInviteOptions
<1>4. ASSUME NEW m \in Members, GrantInvites(m) PROVE Ledger'
  <2>1. user' = [user EXCEPT ![m] = [user[m] EXCEPT !.invites = user[m].invites + 1]]
    BY <1>4 DEF GrantInvites
  <2>2. granted' = [granted EXCEPT ![m] = granted[m] + 1]
    BY <1>4 DEF GrantInvites
  <2>3. ASSUME NEW n \in Members
        PROVE  \/ user'[n].invites = user[n].invites /\ granted'[n] = granted[n]
               \/ user'[n].invites = user[n].invites + 1 /\ granted'[n] = granted[n] + 1
    BY <1>1, <2>1, <2>2 DEF Shape, TypeOK, Account
  <2> QED
    BY <1>1, <1>4, <2>3, LedgerQuiet DEF GrantInvites
<1>5. CASE Create
  <2>1. ASSUME NEW i \in Issuers, CreateMint(i) PROVE Ledger'
    <3>1. issuer[i].by \in Members /\ issuer[i].email \in Address
      BY <1>1, <2>1 DEF CreateMint, Shape, TypeOK, IssuerShape, Issue
    <3> QED
      BY <1>1, <1>2, <2>1, <3>1, LedgerMint DEF CreateMint
  <2> QED
    BY <1>2, <1>5, <2>1 DEF Create, CreateBegin, CreateCount, CreateFails
<1>6. ASSUME NEW c \in Codes, Expire(c) PROVE Ledger'
  BY <1>1, <1>6, LedgerQuiet DEF Expire
<1>7. CASE Revoke
  <2>1. ASSUME NEW m \in Members, NEW c \in Codes, invitesRevoke(m, c) PROVE Ledger'
    BY <1>1, <2>1, LedgerRevoke DEF invitesRevoke
  <2> QED
    BY <1>1, <1>7, <2>1, LedgerRefund DEF Revoke
<1>8. CASE Register
  <2>1. ASSUME NEW v \in Visitors, RegisterCreate(v) PROVE Ledger'
    <3>1. CASE user' = user
      BY <1>2, <2>1, <3>1 DEF RegisterCreate
    <3>2. ASSUME NEW m \in Members, NEW a, user' = [user EXCEPT ![m] = a], a.invites = 0
          PROVE  Ledger'
      <4>1. \A n \in Members : user'[n].invites = user[n].invites \/ user'[n].invites = 0
        BY <1>1, <3>2 DEF Shape, TypeOK
      <4> QED
        BY <1>1, <2>1, <4>1, LedgerQuiet DEF RegisterCreate
    <3> DEFINE made == [NoAccount EXCEPT
                    !.gate = IF visitor[v].mode = "invite" THEN "invite" ELSE "open",
                    !.email = visitor[v].email, !.session = ~(visitor[v].mode = "invite")]
    <3>3. made.invites = 0
      BY DEF NoAccount
    <3>4. CASE \E m \in Members : user' = [user EXCEPT ![m] = made]
      <4> HIDE DEF made
      <4> QED
        BY <3>2, <3>3, <3>4
    <3> QED
      BY <2>1, <3>1, <3>4 DEF RegisterCreate
  <2>2. ASSUME NEW v \in Visitors, RegisterRedeem(v) PROVE Ledger'
    <3>1. visitor[v].as \in Members /\ visitor[v].code \in Codes
      BY <1>1, <2>2 DEF RegisterRedeem, Shape, VisitorShape
    <3>2. user' = [user EXCEPT ![visitor[v].as] = [user[visitor[v].as] EXCEPT !.session = TRUE]]
      BY <2>2 DEF RegisterRedeem
    <3>3. \A n \in Members : user'[n].invites = user[n].invites
      BY <1>1, <3>1, <3>2 DEF Shape, TypeOK, Account
    <3> QED
      BY <1>1, <2>2, <3>1, <3>3, LedgerQuiet DEF RegisterRedeem
  <2> QED
    BY <1>2, <1>8, <2>1, <2>2 DEF Register, RegisterBegin, RegisterGate
<1>9. CASE UNCHANGED vars
  BY <1>2, <1>9 DEF vars
<1>10. ASSUME NEW m \in Members \cup {Nobody}, NEW e \in Emails, NEW charge \in BOOLEAN,
              IssueInvite(m, e, charge)
       PROVE  FALSE
  BY <1>10 DEF IssueInvite
<1> QED
  BY <1>3, <1>4, <1>5, <1>6, <1>7, <1>8, <1>9, <1>10 DEF Next

LEMMA InitLedger == Init => Ledger
<1> SUFFICES ASSUME Init PROVE Ledger
  OBVIOUS
<1>1. Claim /\ DebtShape
  BY InitClaim DEF Init, DebtShape, NoCode
<1>2. \A m \in Members : Outstanding(m) = {}
  BY DEF Init, Outstanding, NoCode
<1>3. IsFiniteSet({}) /\ Cardinality({}) = 0
  BY FS_EmptySet
<1>4. \A m \in Members : user[m].invites = 0 /\ granted[m] = 0
  BY DEF Init, NoAccount
<1>5. ASSUME NEW m \in Members
      PROVE  user[m].invites + Cardinality(Outstanding(m)) <= granted[m]
  <2>1. Cardinality(Outstanding(m)) = 0
    BY <1>2, <1>3
  <2>2. user[m].invites = 0 /\ granted[m] = 0
    BY <1>4
  <2> QED
    BY <2>1, <2>2
<1> QED
  BY <1>1, <1>2, <1>3, <1>5 DEF Ledger, InvitesConserved, Outstanding

\* Where no plugin issues codes, invites come from grants alone: no interleaving
\* of mints, cancellations, refunds and failing statements makes one more.
THEOREM Conserved == ASSUME ~SiteIssues PROVE Spec => []InvitesConserved
<1>1. Ledger /\ [Next]_vars => Ledger'
  BY LedgerStep
<1>2. Ledger => InvitesConserved
  BY DEF Ledger
<1> QED
  BY <1>1, <1>2, InitLedger, PTL DEF Spec
===============================================================================
