------------------------------ MODULE SiteProofs ------------------------------
(***************************************************************************)
(* Proofs about what stands behind the pages: the credentials of the fleet *)
(* (AgentRegistry), the boots of the processes on one database (Boot), the *)
(* menus (SiteNav), the widgets (Widgets), what a new site is planted with *)
(* (DemoSeeds) and the demo's swarm (DemoSwarm).                           *)
(* They share no state; each part states its own inductive invariant and   *)
(* its own theorems.                                                       *)
(***************************************************************************)
EXTENDS AgentRegistry, Boot, SiteNav, Widgets, DemoSeeds, DemoSwarm, Sums, SequenceTheorems, TLAPS

-----------------------------------------------------------------------------
(***************************************************************************)
(* The agents' credentials, for any workers, owners, names and secrets,    *)
(* however many registrations travel, are late or are lost, and however    *)
(* often the site comes back under another secret.                         *)
(*                                                                         *)
(* The three promises are about tokens a row no longer has, so they are    *)
(* carried by the history of the tokens rather than by the table: a token  *)
(* is made once, is in one row at most, and leaves it for good.            *)
(***************************************************************************)
Row == [name : Names, owner : Owners \cup {Nobody}, hash : (1 .. tokens) \X Keys]
Asking == [worker : Workers, name : Names, owner : Owners \cup {Nobody}, token : 0 .. tokens]

RegistryShape ==
    /\ ids \in 0 .. MaxAgents /\ tokens \in 0 .. MaxTokens /\ key \in Keys
    /\ DOMAIN agents \subseteq 1 .. ids /\ agents \in [DOMAIN agents -> Row]
    /\ registering \subseteq Asking
    /\ holds \in [Workers -> 0 .. tokens]
    /\ handedOut \in [Owners -> SUBSET (1 .. tokens)] /\ revoked \subseteq 1 .. tokens

TokenOf(id) == agents[id].hash[1]

\* A token is in one row at most, and one that was replaced in none.
TokensAreUnique ==
    /\ \A a, b \in DOMAIN agents : TokenOf(a) = TokenOf(b) => a = b
    /\ \A id \in DOMAIN agents : TokenOf(id) \notin revoked

NamesAreUnique == \A a, b \in DOMAIN agents : agents[a].name = agents[b].name => a = b

\* The row with a token a member was shown is that member's.
ShownIsOwned ==
    \A o \in Owners : \A tok \in handedOut[o] : \A id \in DOMAIN agents :
        TokenOf(id) = tok => agents[id].owner = o

RegistryInv == RegistryShape /\ TokensAreUnique /\ NamesAreUnique /\ ShownIsOwned

-----------------------------------------------------------------------------
\* Registrations and the workers' tokens stay typed as the tokens grow.
LEMMA TypesGrow ==
    ASSUME RegistryShape, NewAgentToken
    PROVE  /\ tokens' \in 0 .. MaxTokens /\ tokens' = tokens + 1
           /\ tokens + 1 \in 1 .. tokens' /\ tokens + 1 \notin 1 .. tokens
           /\ \A t \in 1 .. tokens : t \in 1 .. tokens'
           /\ \A t \in 0 .. tokens : t \in 0 .. tokens'
BY RegistryAssumption DEF RegistryShape, NewAgentToken

\* At most one row is written, with a token never made before, and a name is
\* taken by one row.
RowIsWritten(id, name, owner) ==
    /\ id \in 1 .. ids' /\ ids' \in 0 .. MaxAgents /\ ids <= ids'
    /\ DOMAIN agents' = DOMAIN agents \cup {id} /\ agents' = [i \in DOMAIN agents' |-> agents'[i]]
    /\ agents'[id] = [name |-> name, owner |-> owner, hash |-> HashAgentToken(tokens + 1)]
    /\ \A i \in DOMAIN agents \ {id} : agents'[i] = agents[i] /\ agents[i].name # name
    /\ \/ revoked' = revoked
       \/ id \in DOMAIN agents /\ revoked' = revoked \cup {TokenOf(id)}

\* A token is shown to the owner of the row it is written to, or to nobody whose
\* tokens are followed.
MayBeShown(owner) ==
    \/ handedOut' = handedOut
    \/ owner \in Owners /\ handedOut' = [handedOut EXCEPT ![owner] = @ \cup {tokens + 1}]

WorkersTyped == registering' \subseteq Asking' /\ holds' \in [Workers -> 0 .. tokens'] /\ key' = key

LEMMA RowWritten ==
    ASSUME RegistryInv, NewAgentToken, WorkersTyped,
           NEW id, NEW name \in Names, NEW owner \in Owners \cup {Nobody},
           RowIsWritten(id, name, owner), MayBeShown(owner)
    PROVE  RegistryInv'
<1> USE DEF RowIsWritten, MayBeShown, WorkersTyped
<1>1. /\ tokens' \in 0 .. MaxTokens /\ tokens' = tokens + 1
      /\ tokens + 1 \in 1 .. tokens' /\ tokens + 1 \notin 1 .. tokens
      /\ \A t \in 1 .. tokens : t \in 1 .. tokens'
  BY TypesGrow DEF RegistryInv
<1>2. agents'[id] \in Row'
  BY <1>1 DEF HashAgentToken, RegistryInv, RegistryShape, Row
<1>3. \A i \in DOMAIN agents : agents[i] \in Row /\ agents[i] \in Row' /\ TokenOf(i) \in 1 .. tokens
  BY <1>1 DEF RegistryInv, RegistryShape, Row, TokenOf
<1>4. TokenOf(id)' = tokens + 1
  BY DEF TokenOf, HashAgentToken
<1>5. \A i \in DOMAIN agents \ {id} : TokenOf(i)' = TokenOf(i) /\ TokenOf(i) # tokens + 1
  BY <1>1, <1>3 DEF TokenOf
<1>6. RegistryShape'
  <2>1. agents' \in [DOMAIN agents' -> Row']
    BY <1>2, <1>3
  <2>2. DOMAIN agents' \subseteq 1 .. ids'
    BY DEF RegistryInv, RegistryShape
  <2>3. revoked' \subseteq 1 .. tokens'
    BY <1>1, <1>3 DEF RegistryInv, RegistryShape
  <2>4. handedOut' \in [Owners -> SUBSET (1 .. tokens')]
    BY <1>1 DEF RegistryInv, RegistryShape
  <2> QED
    BY <1>1, <2>1, <2>2, <2>3, <2>4 DEF RegistryInv, RegistryShape
<1>7. TokensAreUnique'
  <2>1. \A i \in DOMAIN agents' : TokenOf(i)' \notin revoked'
    <3>1. tokens + 1 \notin revoked'
      BY <1>1, <1>3 DEF RegistryInv, RegistryShape
    <3>2. \A i \in DOMAIN agents \ {id} : TokenOf(i) \notin revoked'
      BY DEF RegistryInv, TokensAreUnique
    <3> QED
      BY <1>4, <1>5, <3>1, <3>2
  <2>2. \A a, b \in DOMAIN agents' : TokenOf(a)' = TokenOf(b)' => a = b
    BY <1>4, <1>5 DEF RegistryInv, TokensAreUnique
  <2> QED
    BY <2>1, <2>2 DEF TokensAreUnique
<1>8. NamesAreUnique'
  <2>1. agents'[id].name = name
    OBVIOUS
  <2> QED
    BY <2>1 DEF NamesAreUnique, RegistryInv
<1>9. ShownIsOwned'
  <2> SUFFICES ASSUME NEW o \in Owners, NEW tok \in handedOut'[o], NEW i \in DOMAIN agents',
                      TokenOf(i)' = tok
               PROVE  agents'[i].owner = o
    BY DEF ShownIsOwned
  <2>1. CASE tok \in handedOut[o]
    <3>1. i # id /\ i \in DOMAIN agents /\ TokenOf(i) = tok
      BY <1>1, <1>4, <1>5, <2>1 DEF RegistryInv, RegistryShape
    <3> QED
      BY <2>1, <3>1 DEF RegistryInv, ShownIsOwned
  <2>2. CASE tok \notin handedOut[o]
    <3>1. o = owner /\ tok = tokens + 1
      BY <2>2 DEF RegistryInv, RegistryShape
    <3>2. i = id
      BY <1>5, <3>1
    <3> QED
      BY <3>1, <3>2
  <2> QED
    BY <2>1, <2>2
<1> QED
  BY <1>6, <1>7, <1>8, <1>9 DEF RegistryInv

\* A row that is deleted takes its token with it.
LEMMA RowDiscarded ==
    ASSUME RegistryInv, NEW id \in DOMAIN agents, Discard(id), WorkersRest, handedOut' = handedOut
    PROVE  RegistryInv'
<1>1. DOMAIN agents' = DOMAIN agents \ {id} /\ \A i \in DOMAIN agents' : agents'[i] = agents[i]
  BY DEF Discard
<1>2. revoked' = revoked \cup {TokenOf(id)} /\ tokens' = tokens /\ ids' = ids
  BY DEF Discard, TokenOf
<1>3. \A i \in DOMAIN agents : agents[i] \in Row /\ TokenOf(i) \in 1 .. tokens
  BY DEF RegistryInv, RegistryShape, Row, TokenOf
<1>4. RegistryShape'
  <2>1. agents' \in [DOMAIN agents' -> Row']
    BY <1>1, <1>2, <1>3 DEF Discard, Row
  <2>2. Asking' = Asking
    BY <1>2 DEF Asking
  <2> QED
    BY <1>1, <1>2, <1>3, <2>1, <2>2 DEF RegistryInv, RegistryShape, WorkersRest
<1>5. \A i \in DOMAIN agents' : TokenOf(i)' = TokenOf(i)
  BY <1>1 DEF TokenOf
<1> QED
  BY <1>1, <1>2, <1>4, <1>5 DEF RegistryInv, TokensAreUnique, NamesAreUnique, ShownIsOwned

\* The statements of the store, with what their caller shows and keeps.
LEMMA NewRowsKeep ==
    ASSUME RegistryInv, NewAgentToken, NEW name \in Names, NEW owner \in Owners \cup {Nobody},
           Named(name) = {}, Insert(name, owner), MayBeShown(owner), WorkersTyped
    PROVE  RegistryInv'
<1>1. PICK id : id = ids + 1
  OBVIOUS
<1>2. id \in 1 .. ids' /\ ids' \in 0 .. MaxAgents /\ ids <= ids' /\ id \notin DOMAIN agents
  BY <1>1, RegistryAssumption DEF Insert, RegistryInv, RegistryShape
<1>3. /\ DOMAIN agents' = DOMAIN agents \cup {id}
      /\ agents' = [i \in DOMAIN agents' |-> agents'[i]]
      /\ agents'[id] = [name |-> name, owner |-> owner, hash |-> HashAgentToken(tokens + 1)]
      /\ \A i \in DOMAIN agents \ {id} : agents'[i] = agents[i]
  BY <1>1, <1>2 DEF Insert
<1>4. \A i \in DOMAIN agents \ {id} : agents[i].name # name
  BY DEF Named
<1>5. revoked' = revoked
  BY DEF Insert
<1>6. RowIsWritten(id, name, owner)
  BY <1>2, <1>3, <1>4, <1>5 DEF RowIsWritten
<1> QED
  BY <1>6, RowWritten

LEMMA Reminted ==
    ASSUME RegistryInv, NewAgentToken, NEW id \in DOMAIN agents, NEW owner \in Owners \cup {Nobody},
           Remint(id, owner), MayBeShown(owner), WorkersTyped
    PROVE  RegistryInv'
<1> DEFINE name == agents[id].name
<1>1. agents[id] \in Row
  BY DEF RegistryInv, RegistryShape
<1>2. id \in 1 .. ids' /\ ids' \in 0 .. MaxAgents /\ ids <= ids' /\ name \in Names
  BY <1>1 DEF Remint, RegistryInv, RegistryShape, Row
<1>3. agents'[id] = [name |-> name, owner |-> owner, hash |-> HashAgentToken(tokens + 1)]
  BY <1>1 DEF Remint, Row
<1>4. /\ DOMAIN agents' = DOMAIN agents \cup {id}
      /\ agents' = [i \in DOMAIN agents' |-> agents'[i]]
      /\ \A i \in DOMAIN agents \ {id} : agents'[i] = agents[i]
  BY DEF Remint
<1>5. \A i \in DOMAIN agents \ {id} : agents[i].name # name
  BY DEF RegistryInv, NamesAreUnique
<1>6. revoked' = revoked \cup {TokenOf(id)}
  BY DEF Remint, TokenOf
<1>7. RowIsWritten(id, name, owner)
  BY <1>2, <1>3, <1>4, <1>5, <1>6 DEF RowIsWritten
<1> HIDE DEF name
<1> QED
  BY <1>2, <1>7, RowWritten

\* EnsureAgent: whichever of the two it does.
LEMMA Ensured ==
    ASSUME RegistryInv, NEW name \in Names, NEW owner \in Owners \cup {Nobody},
           EnsureAgent(name, owner), handedOut' = handedOut, WorkersTyped
    PROVE  RegistryInv'
<1>1. CASE Named(name) = {}
  BY <1>1, NewRowsKeep DEF EnsureAgent, MayBeShown
<1>2. CASE Named(name) # {}
  <2>1. PICK id \in Named(name) : Remint(id, IF owner = Nobody THEN agents[id].owner ELSE owner)
    BY <1>2 DEF EnsureAgent
  <2>2. id \in DOMAIN agents
    BY DEF Named
  <2>3. agents[id].owner \in Owners \cup {Nobody}
    BY <2>2 DEF RegistryInv, RegistryShape, Row
  <2> QED
    BY <2>1, <2>2, <2>3, Reminted DEF EnsureAgent, MayBeShown
<1> QED
  BY <1>1, <1>2

\* What is under way stays typed under a step that leaves it alone.
LEMMA WorkersStayTyped ==
    ASSUME RegistryInv, NewAgentToken \/ tokens' = tokens, WorkersRest
    PROVE  WorkersTyped
<1>1. \A t \in 0 .. tokens : t \in 0 .. tokens'
  BY TypesGrow DEF RegistryInv
<1>2. Asking \subseteq Asking'
  BY <1>1 DEF Asking
<1> QED
  BY <1>1, <1>2 DEF RegistryInv, RegistryShape, WorkersRest, WorkersTyped

\* A step that leaves the table and the histories alone.
LEMMA TableRests ==
    ASSUME RegistryInv, UNCHANGED <<agents, ids, tokens, revoked, handedOut>>, key' \in Keys,
           registering' \subseteq Asking, holds' \in [Workers -> 0 .. tokens]
    PROVE  RegistryInv'
BY DEF RegistryInv, RegistryShape, Row, Asking, TokensAreUnique, NamesAreUnique, ShownIsOwned, TokenOf

LEMMA MembersStep ==
    ASSUME RegistryInv, NEW o \in Owners,
           \/ \E name \in Names : CreateAgentOwned(o, name)
           \/ \E id \in 1 .. ids : RotateAgentTokenOwned(o, id) \/ DeleteAgentOwned(o, id)
           \/ \E w \in Workers : Configure(o, w)
    PROVE  RegistryInv'
<1>1. ASSUME NEW name \in Names, CreateAgentOwned(o, name) PROVE RegistryInv'
  BY <1>1, WorkersStayTyped, NewRowsKeep DEF CreateAgentOwned, ShowTo, MayBeShown
<1>2. ASSUME NEW id \in 1 .. ids, RotateAgentTokenOwned(o, id) PROVE RegistryInv'
  BY <1>2, WorkersStayTyped, Reminted DEF RotateAgentTokenOwned, ShowTo, Owned, MayBeShown
<1>3. ASSUME NEW id \in 1 .. ids, DeleteAgentOwned(o, id) PROVE RegistryInv'
  BY <1>3, RowDiscarded DEF DeleteAgentOwned, Owned
<1>4. ASSUME NEW w \in Workers, Configure(o, w) PROVE RegistryInv'
  <2>1. PICK tok \in handedOut[o] : holds' = [holds EXCEPT ![w] = tok]
    BY <1>4 DEF Configure
  <2>2. tok \in 0 .. tokens
    BY DEF RegistryInv, RegistryShape
  <2> QED
    BY <1>4, <2>1, <2>2, TableRests DEF Configure, RegistryInv, RegistryShape
<1> QED
  BY <1>1, <1>2, <1>3, <1>4

LEMMA OperatorsStep ==
    ASSUME RegistryInv,
           \/ \E name \in Names, owner \in Owners \cup {Nobody} : AdminAgentCreate(name, owner)
           \/ \E id \in 1 .. ids : AdminAgentToken(id) \/ AdminAgentDelete(id)
    PROVE  RegistryInv'
<1>1. ASSUME NEW name \in Names, NEW owner \in Owners \cup {Nobody}, AdminAgentCreate(name, owner)
      PROVE  RegistryInv'
  BY <1>1, WorkersStayTyped, Ensured DEF AdminAgentCreate, EnsureAgent
<1>2. ASSUME NEW id \in 1 .. ids, AdminAgentToken(id) PROVE RegistryInv'
  <2>1. WorkersTyped
    BY <1>2, WorkersStayTyped DEF AdminAgentToken
  <2>2. CASE id \in DOMAIN agents
    <3>1. agents[id].owner \in Owners \cup {Nobody}
      BY <2>2 DEF RegistryInv, RegistryShape, Row
    <3> QED
      BY <1>2, <2>1, <2>2, <3>1, Reminted DEF AdminAgentToken, MayBeShown
  <2>3. CASE id \notin DOMAIN agents
    <3>1. /\ tokens' \in 0 .. MaxTokens /\ \A t \in 1 .. tokens : t \in 1 .. tokens'
      BY <1>2, TypesGrow DEF AdminAgentToken, RegistryInv
    <3>2. UNCHANGED <<agents, ids, revoked, handedOut, key>>
      BY <1>2, <2>3 DEF AdminAgentToken, WorkersRest
    <3>3. agents' \in [DOMAIN agents' -> Row']
      BY <3>1, <3>2 DEF RegistryInv, RegistryShape, Row
    <3>4. RegistryShape'
      BY <2>1, <3>1, <3>2, <3>3 DEF RegistryInv, RegistryShape, WorkersTyped
    <3> QED
      BY <3>2, <3>4 DEF RegistryInv, TokensAreUnique, NamesAreUnique, ShownIsOwned, TokenOf
  <2> QED
    BY <2>2, <2>3
<1>3. ASSUME NEW id \in 1 .. ids, AdminAgentDelete(id) PROVE RegistryInv'
  BY <1>3, RowDiscarded DEF AdminAgentDelete
<1> QED
  BY <1>1, <1>2, <1>3

LEMMA WorkersStep ==
    ASSUME RegistryInv,
           \/ \E name \in Names, owner \in Owners \cup {Nobody}, w \in Workers :
                 AskToRegister(w, name, owner)
           \/ \E a \in registering : AgentRegister(a) \/ Registered(a) \/ AnswerIsLost(a)
           \/ SiteRestarts
    PROVE  RegistryInv'
<1> USE DEF RegistryInv, RegistryShape
<1>1. ASSUME NEW name \in Names, NEW owner \in Owners \cup {Nobody}, NEW w \in Workers,
             AskToRegister(w, name, owner)
      PROVE  RegistryInv'
  <2>1. [worker |-> w, name |-> name, owner |-> owner, token |-> 0] \in Asking
    BY DEF Asking
  <2> QED
    BY <1>1, <2>1, TableRests DEF AskToRegister
<1>2. ASSUME NEW a \in registering, AgentRegister(a) PROVE RegistryInv'
  <2>1. a \in Asking /\ a.name \in Names /\ a.owner \in Owners \cup {Nobody}
    BY DEF Asking
  <2>2. /\ tokens + 1 \in 0 .. tokens'
        /\ \A t \in 0 .. tokens : t \in 0 .. tokens'
    BY <1>2, TypesGrow DEF AgentRegister, EnsureAgent
  <2>3. [a EXCEPT !.token = tokens + 1] \in Asking' /\ Asking \subseteq Asking'
    BY <2>1, <2>2 DEF Asking
  <2>4. WorkersTyped
    BY <1>2, <2>2, <2>3 DEF AgentRegister, WorkersTyped
  <2> QED
    BY <1>2, <2>1, <2>4, Ensured DEF AgentRegister
<1>3. ASSUME NEW a \in registering, Registered(a) PROVE RegistryInv'
  <2>1. a.worker \in Workers /\ a.token \in 0 .. tokens
    BY DEF Asking
  <2> QED
    BY <1>3, <2>1, TableRests DEF Registered
<1>4. ASSUME NEW a \in registering, AnswerIsLost(a) PROVE RegistryInv'
  BY <1>4, TableRests DEF AnswerIsLost
<1>5. CASE SiteRestarts
  BY <1>5, TableRests DEF SiteRestarts
<1> QED
  BY <1>1, <1>2, <1>3, <1>4, <1>5

LEMMA RegistryStep == ASSUME RegistryInv, [RegistryNext]_registryVars PROVE RegistryInv'
<1>1. CASE UNCHANGED registryVars
  BY <1>1, TableRests DEF registryVars, RegistryInv, RegistryShape
<1> QED
  BY <1>1, MembersStep, OperatorsStep, WorkersStep DEF RegistryNext

LEMMA RegistryStart == RegistryInit => RegistryInv
BY RegistryAssumption DEF RegistryInit, RegistryInv, RegistryShape, TokensAreUnique,
   NamesAreUnique, ShownIsOwned

\* Every reachable state is well typed.
THEOREM RegistryTypeCorrect == RegistrySpec => []RegistryTypeOK
<1>1. RegistryInv => RegistryTypeOK
  BY DEF RegistryInv, RegistryShape, RegistryTypeOK, Row
<1> QED
  BY <1>1, RegistryStart, RegistryStep, PTL DEF RegistrySpec

\* A token a member was shown opens only an agent that is theirs, a token that
\* was replaced or whose agent was deleted opens nothing, under no secret the
\* site comes back with, and a name is one agent's: whatever registers under it.
THEOREM Credentials == RegistrySpec => []CredentialsHold
<1>1. ASSUME RegistryInv PROVE CredentialsHold
  <2>1. \A tok, id : id \in AgentByToken(tok) => id \in DOMAIN agents /\ TokenOf(id) = tok
    BY DEF AgentByToken, HashAgentToken, TokenOf
  <2>2. MembersHoldTheirOwn
    BY <1>1, <2>1 DEF MembersHoldTheirOwn, RegistryInv, ShownIsOwned
  <2>3. RevokedIsDead
    BY <1>1, <2>1 DEF RevokedIsDead, RegistryInv, TokensAreUnique
  <2>4. OwnedOnce
    BY <1>1, RegistryAssumption DEF OwnedOnce, RegistryInv, NamesAreUnique, ShownIsOwned, TokenOf
  <2> QED
    BY <2>2, <2>3, <2>4 DEF CredentialsHold
<1> QED
  BY <1>1, RegistryStart, RegistryStep, PTL DEF RegistrySpec

-----------------------------------------------------------------------------
(***************************************************************************)
(* The boots.  That one program is in order is computed (ProgramIsOrdered);*)
(* what is shown is that it is enough for any number of processes that     *)
(* boot at once, fail and are killed: what a step before made for good     *)
(* nobody takes away.                                                      *)
(***************************************************************************)
OfferedBefore(k) == UNION {Program[j].offers : j \in {i \in DOMAIN Program : i < k}}
WantedBefore(k) == UNION {Program[j].wants : j \in {i \in DOMAIN Program : i < k}}

\* What a process counts on is there.
FoundationsStand == \A p \in Processes : MadeBefore(Program, pc[p]) \subseteq objects
SeamsAreOfSteps ==
    \A p \in Processes :
        /\ registered[p] \subseteq OfferedBefore(pc[p]) /\ missed[p] \subseteq WantedBefore(pc[p])
        /\ missed[p] \cap registered[p] = {}
BootShape ==
    /\ pc \in [Processes -> 0..(Len(Program) + 1)]
    /\ DOMAIN registered = Processes /\ registered = [p \in Processes |-> registered[p]]
    /\ DOMAIN missed = Processes /\ missed = [p \in Processes |-> missed[p]]
    /\ passedOver = [p \in Processes |-> {}]

BootInv == BootShape /\ FoundationsStand /\ SeamsAreOfSteps

LEMMA TheProgram ==
    /\ Len(Program) \in Nat /\ DOMAIN Program = 1..Len(Program)
    /\ \A k \in DOMAIN Program :
          /\ Len(Program[k].stmts) \in Nat /\ DOMAIN Program[k].stmts = 1..Len(Program[k].stmts)
          /\ \A j \in k..Len(Program) : Program[k].wants \cap Program[j].offers = {}
          /\ ~Program[k].fatal => PassedOverInOrder(Program, k)
<1>1. DonationsOn \in BOOLEAN /\ TrackerOn \in BOOLEAN /\ DispatchOn \in BOOLEAN
  BY BootAssumption
<1>2. IsOrdered(Program)
  BY <1>1, ProgramIsOrdered DEF Program
<1> QED
  BY <1>2 DEF IsOrdered, SeamsInOrder

LEMMA RunsToTheFirstRefusal ==
    ASSUME NEW k \in DOMAIN Program
    PROVE  LET stmts == Program[k].stmts
           IN  /\ Ran(stmts) \in 0..Len(stmts)
               /\ (\A i \in DOMAIN stmts : Accepted(stmts, i)) => Ran(stmts) = Len(stmts)
<1> DEFINE stmts == Program[k].stmts
           refused == {i \in DOMAIN stmts : ~Accepted(stmts, i)}
<1>1. Len(stmts) \in Nat /\ DOMAIN stmts = 1..Len(stmts)
  BY TheProgram
<1> HIDE DEF stmts
<1>2. CASE refused = {}
  BY <1>1, <1>2 DEF Ran, stmts
<1>3. CASE refused # {}
  <2>1. refused \in SUBSET Nat
    BY <1>1
  <2>2. PICK m \in refused : \A i \in refused : m <= i
    BY <2>1, <1>3, LeastNumber
  <2> DEFINE n == m - 1
  <2>3. n \in 0..(Len(stmts) - 1) /\ ~Accepted(stmts, n + 1) /\ \A i \in 1..n : Accepted(stmts, i)
    BY <1>1, <2>2
  <2>4. ~ \A i \in DOMAIN stmts : Accepted(stmts, i)
    BY <1>3
  <2>5. Ran(stmts) \in 0..(Len(stmts) - 1)
    BY <2>3, <2>4 DEF Ran
  <2> QED
    BY <1>1, <2>4, <2>5 DEF stmts
<1> QED
  BY <1>2, <1>3

\* Whatever a migration comes to, what it made is there, and what others made for good stays.
LEMMA LeavesWhatIsMade ==
    ASSUME NEW k \in DOMAIN Program, NEW n \in 0..Len(Program[k].stmts), Leaves(Program[k].stmts, n)
    PROVE  /\ objects \ Droppable(Program) \subseteq objects'
           /\ n = Len(Program[k].stmts) => Makes(Program[k]) \subseteq objects'
<1>1. DOMAIN Program[k].stmts = 1..Len(Program[k].stmts) /\ Len(Program[k].stmts) \in Nat
  BY TheProgram
<1>2. objects' = After(Program[k].stmts, n)
  BY DEF Leaves
<1>3. \A i \in 1..n : i \in DOMAIN Program[k].stmts
  BY <1>1
<1>4. \A i \in 1..n : Program[k].stmts[i].drops \subseteq Droppable(Program)
  BY <1>3 DEF Droppable
<1>5. objects \ Droppable(Program) \subseteq objects'
  BY <1>2, <1>4 DEF After
<1>6. n = Len(Program[k].stmts) => Makes(Program[k]) \subseteq objects'
  BY <1>1, <1>2 DEF After, Makes
<1> QED
  BY <1>5, <1>6

LEMMA FoundationsGrow ==
    ASSUME NEW k \in DOMAIN Program
    PROVE  /\ MadeBefore(Program, k + 1) \subseteq MadeBefore(Program, k) \cup Makes(Program[k])
           /\ ~Program[k].fatal =>
                 MadeBefore(Program, k + Program[k].skips) \subseteq MadeBefore(Program, k)
           /\ MadeBefore(Program, k) \cap Droppable(Program) = {}
<1>0. k \in 1..Len(Program) /\ Len(Program) \in Nat /\ DOMAIN Program = 1..Len(Program)
  BY TheProgram
<1>1. ASSUME NEW j \in StepsBefore(Program, k + 1), j # k PROVE j \in StepsBefore(Program, k)
  <2>1. j \in DOMAIN Program /\ j \in 1..(k - 1)
    BY <1>0, <1>1 DEF StepsBefore
  <2>2. ~Program[j].fatal => Program[j].skips \in Nat
    BY <1>0, <2>1, TheProgram DEF PassedOverInOrder
  <2> QED
    BY <1>0, <2>1, <2>2 DEF StepsBefore
<1>2. MadeBefore(Program, k + 1) \subseteq MadeBefore(Program, k) \cup Makes(Program[k])
  BY <1>1 DEF MadeBefore
<1>3. ASSUME ~Program[k].fatal, NEW j \in StepsBefore(Program, k + Program[k].skips)
      PROVE  j \in StepsBefore(Program, k) \/ Makes(Program[j]) = {}
  <2> DEFINE s == Program[k].skips
  <2>1. s \in 1..(Len(Program) + 1 - k) /\ \A i \in (k + 1)..(k + s - 1) : Makes(Program[i]) = {}
    BY <1>3, TheProgram DEF PassedOverInOrder
  <2>2. j \in 1..(k + s - 1) /\ (~Program[j].fatal => k + s < j + Program[j].skips)
    BY <1>0, <1>3, <2>1 DEF StepsBefore
  <2> HIDE DEF s
  <2>3. CASE j \in (k + 1)..(k + s - 1)
    BY <2>1, <2>3
  <2>4. CASE j = k
    BY <1>0, <1>3, <2>1, <2>2, <2>4 DEF s
  <2>5. CASE j \in 1..(k - 1)
    <3>1. j \in DOMAIN Program
      BY <1>0, <2>5
    <3>2. ~Program[j].fatal => Program[j].skips \in Nat
      BY <1>0, <3>1, TheProgram DEF PassedOverInOrder
    <3> QED
      BY <1>0, <2>1, <2>2, <2>5, <3>2 DEF StepsBefore
  <2> QED
    BY <1>0, <2>1, <2>2, <2>3, <2>4, <2>5
<1>4. ~Program[k].fatal => MadeBefore(Program, k + Program[k].skips) \subseteq MadeBefore(Program, k)
  BY <1>3 DEF MadeBefore
<1> QED
  BY <1>2, <1>4 DEF MadeBefore

LEMMA NothingBeforeABoot == MadeBefore(Program, 0) = {} /\ MadeBefore(Program, 1) = {}
BY DEF MadeBefore, StepsBefore

\* A step that is passed over when it fails is not refused.
LEMMA NoneIsPassedOver ==
    ASSUME NEW k \in DOMAIN Program, ~Program[k].fatal, MadeBefore(Program, k) \subseteq objects
    PROVE  Ran(Program[k].stmts) = Len(Program[k].stmts) /\ Program[k].requires = {}
<1> DEFINE stmts == Program[k].stmts
<1>1. /\ Program[k].requires = {}
      /\ \A i \in DOMAIN stmts :
            /\ stmts[i].drops = {} /\ stmts[i].shape = {}
            /\ stmts[i].needs \subseteq MadeBefore(Program, k) \cup UNION {stmts[m].makes : m \in 1..(i - 1)}
  BY TheProgram DEF PassedOverInOrder
<1>2. DOMAIN stmts = 1..Len(stmts) /\ Len(stmts) \in Nat
  BY TheProgram
<1>3. ASSUME NEW i \in DOMAIN stmts PROVE Accepted(stmts, i)
  <2>1. \A m \in 1..(i - 1) : stmts[m].drops = {}
    BY <1>1, <1>2
  <2>2. objects \subseteq After(stmts, i - 1) /\ UNION {stmts[m].makes : m \in 1..(i - 1)} \subseteq After(stmts, i - 1)
    BY <2>1 DEF After
  <2> QED
    BY <1>1, <2>2 DEF Accepted
<1> QED
  BY <1>1, <1>3, RunsToTheFirstRefusal

\* A boot that ends leaves nothing that another counts on undone.
LEMMA BootEndsSafely ==
    ASSUME BootInv, NEW p \in Processes, BootEnds(p),
           objects \ Droppable(Program) \subseteq objects'
    PROVE  BootInv'
<1>1. BootShape'
  <2>1. 0 \in 0..(Len(Program) + 1)
    BY TheProgram
  <2>2. pc' \in [Processes -> 0..(Len(Program) + 1)]
    BY <2>1 DEF BootInv, BootShape, BootEnds
  <2>3. passedOver' = [q \in Processes |-> {}]
    BY DEF BootInv, BootShape, BootEnds
  <2>4. /\ DOMAIN registered' = Processes /\ registered' = [q \in Processes |-> registered'[q]]
        /\ DOMAIN missed' = Processes /\ missed' = [q \in Processes |-> missed'[q]]
    BY DEF BootInv, BootShape, BootEnds
  <2> QED
    BY <2>2, <2>3, <2>4 DEF BootShape
<1>2. \A q \in Processes : q # p => pc'[q] = pc[q] /\ registered'[q] = registered[q] /\ missed'[q] = missed[q]
  BY DEF BootInv, BootShape, BootEnds
<1>3. pc'[p] = 0 /\ registered'[p] = {} /\ missed'[p] = {}
  BY DEF BootInv, BootShape, BootEnds
<1>4. FoundationsStand'
  <2> SUFFICES ASSUME NEW q \in Processes PROVE MadeBefore(Program, pc'[q]) \subseteq objects'
    BY DEF FoundationsStand
  <2>1. CASE q = p
    BY <1>3, <2>1, NothingBeforeABoot
  <2>2. CASE q # p
    BY <1>2, <2>2 DEF BootInv, FoundationsStand, MadeBefore
  <2> QED
    BY <2>1, <2>2
<1>5. SeamsAreOfSteps'
  BY <1>2, <1>3 DEF BootInv, SeamsAreOfSteps, OfferedBefore, WantedBefore
<1> QED
  BY <1>1, <1>4, <1>5 DEF BootInv

\* One that goes on to step n, where what is made before n is there.
LEMMA BootGoesOn ==
    ASSUME BootInv, NEW p \in Processes, NEW n \in 1..(Len(Program) + 1),
           pc' = [pc EXCEPT ![p] = n], n > pc[p], UNCHANGED passedOver,
           objects \ Droppable(Program) \subseteq objects', MadeBefore(Program, n) \subseteq objects',
           UNCHANGED <<registered, missed>>
    PROVE  BootInv'
<1>1. BootShape'
  BY TheProgram DEF BootInv, BootShape
<1>2. FoundationsStand'
  BY DEF BootInv, BootShape, FoundationsStand, MadeBefore
<1>3. SeamsAreOfSteps'
  <2> SUFFICES ASSUME NEW q \in Processes
               PROVE  /\ registered[q] \subseteq OfferedBefore(pc'[q]) /\ missed[q] \subseteq WantedBefore(pc'[q])
                      /\ missed[q] \cap registered[q] = {}
    BY DEF SeamsAreOfSteps, OfferedBefore, WantedBefore
  <2>1. pc[q] \in Nat /\ pc'[q] \in Nat /\ pc[q] <= pc'[q]
    BY TheProgram DEF BootInv, BootShape
  <2>2. OfferedBefore(pc[q]) \subseteq OfferedBefore(pc'[q]) /\ WantedBefore(pc[q]) \subseteq WantedBefore(pc'[q])
    BY <2>1, TheProgram DEF OfferedBefore, WantedBefore
  <2> QED
    BY <2>2 DEF BootInv, SeamsAreOfSteps
<1> QED
  BY <1>1, <1>2, <1>3 DEF BootInv

LEMMA AdvanceIsSafe ==
    ASSUME BootInv, NEW p \in Processes, BootAdvance(p)
    PROVE  BootInv'
<1> DEFINE k == pc[p]
           step == Program[pc[p]]
           ran == Ran(Program[pc[p]].stmts)
<1>0. k \in DOMAIN Program /\ k \in 1..Len(Program) /\ Len(Program) \in Nat
  BY TheProgram DEF BootAdvance, Booting
<1>1. Leaves(step.stmts, ran) /\ ran \in 0..Len(step.stmts)
  BY <1>0, RunsToTheFirstRefusal DEF BootAdvance
<1>2. /\ objects \ Droppable(Program) \subseteq objects'
      /\ ran = Len(step.stmts) => Makes(step) \subseteq objects'
  BY <1>0, <1>1, LeavesWhatIsMade
<1>3. MadeBefore(Program, k) \subseteq objects /\ MadeBefore(Program, k) \cap Droppable(Program) = {}
  BY <1>0, FoundationsGrow DEF BootInv, FoundationsStand
<1>4. CASE ran = Len(step.stmts) /\ step.requires \subseteq registered[p]
  <2>1. /\ pc' = [pc EXCEPT ![p] = k + 1] /\ UNCHANGED passedOver
        /\ registered' = [registered EXCEPT ![p] = @ \cup step.offers]
        /\ missed' = [missed EXCEPT ![p] = @ \cup (step.wants \ registered[p])]
    BY <1>4 DEF BootAdvance
  <2>2. MadeBefore(Program, k + 1) \subseteq objects'
    BY <1>0, <1>2, <1>3, <1>4, FoundationsGrow
  <2>3. BootShape'
    <3>1. pc' \in [Processes -> 0..(Len(Program) + 1)]
      BY <1>0, <2>1 DEF BootInv, BootShape
    <3>2. passedOver' = [q \in Processes |-> {}]
      BY <2>1 DEF BootInv, BootShape
    <3>3. /\ DOMAIN registered' = Processes /\ registered' = [q \in Processes |-> registered'[q]]
          /\ DOMAIN missed' = Processes /\ missed' = [q \in Processes |-> missed'[q]]
      BY <2>1 DEF BootInv, BootShape
    <3> QED
      BY <3>1, <3>2, <3>3 DEF BootShape
  <2>4. /\ \A q \in Processes : q # p => pc'[q] = pc[q] /\ registered'[q] = registered[q] /\ missed'[q] = missed[q]
        /\ pc'[p] = k + 1 /\ registered'[p] = registered[p] \cup step.offers
        /\ missed'[p] = missed[p] \cup (step.wants \ registered[p])
    BY <2>1 DEF BootInv, BootShape
  <2>5. FoundationsStand'
    <3> SUFFICES ASSUME NEW q \in Processes PROVE MadeBefore(Program, pc'[q]) \subseteq objects'
      BY DEF FoundationsStand
    <3>1. CASE q = p
      BY <2>2, <2>4, <3>1
    <3>2. CASE q # p
      BY <1>2, <2>4, <3>2 DEF BootInv, FoundationsStand, MadeBefore
    <3> QED
      BY <3>1, <3>2
  <2>6. SeamsAreOfSteps'
    <3>1. OfferedBefore(k + 1) = OfferedBefore(k) \cup step.offers /\ WantedBefore(k + 1) = WantedBefore(k) \cup step.wants
      <4>1. {i \in DOMAIN Program : i < k + 1} = {i \in DOMAIN Program : i < k} \cup {k}
        BY <1>0, TheProgram
      <4> QED
        BY <4>1 DEF OfferedBefore, WantedBefore
    <3>2. step.wants \cap step.offers = {} /\ WantedBefore(k) \cap step.offers = {}
      <4>1. \A j \in DOMAIN Program : j <= k => Program[j].wants \cap step.offers = {}
        BY <1>0, TheProgram
      <4> QED
        BY <1>0, <4>1, TheProgram DEF WantedBefore
    <3>3. /\ registered[p] \subseteq OfferedBefore(k) /\ missed[p] \subseteq WantedBefore(k)
          /\ missed[p] \cap registered[p] = {}
      BY DEF BootInv, SeamsAreOfSteps
    <3>4. /\ registered'[p] \subseteq OfferedBefore(pc'[p]) /\ missed'[p] \subseteq WantedBefore(pc'[p])
          /\ missed'[p] \cap registered'[p] = {}
      BY <2>4, <3>1, <3>2, <3>3
    <3>5. ASSUME NEW q \in Processes, q # p
          PROVE  /\ registered'[q] \subseteq OfferedBefore(pc'[q]) /\ missed'[q] \subseteq WantedBefore(pc'[q])
                 /\ missed'[q] \cap registered'[q] = {}
      BY <2>4, <3>5 DEF BootInv, SeamsAreOfSteps
    <3> QED
      BY <3>4, <3>5 DEF SeamsAreOfSteps, OfferedBefore, WantedBefore
  <2> QED
    BY <2>3, <2>5, <2>6 DEF BootInv
<1>5. CASE ~(ran = Len(step.stmts) /\ step.requires \subseteq registered[p])
  <2>1. step.fatal
    BY <1>0, <1>3, <1>5, NoneIsPassedOver
  <2>2. BootEnds(p)
    BY <1>5, <2>1 DEF BootAdvance, StepFails
  <2> QED
    BY <1>2, <2>2, BootEndsSafely
<1> QED
  BY <1>4, <1>5

LEMMA TroubleIsSafe ==
    ASSUME BootInv, NEW p \in Processes, BootTrouble(p)
    PROVE  BootInv'
<1> DEFINE k == pc[p]
           step == Program[pc[p]]
<1>0. k \in DOMAIN Program /\ k \in 1..Len(Program) /\ Len(Program) \in Nat
  BY TheProgram DEF BootTrouble, Booting
<1>1. PICK n \in 0..Ran(step.stmts) : Leaves(step.stmts, n)
  BY DEF BootTrouble
<1>2. n \in 0..Len(step.stmts)
  BY <1>0, <1>1, RunsToTheFirstRefusal, TheProgram
<1>3. objects \ Droppable(Program) \subseteq objects'
  BY <1>0, <1>1, <1>2, LeavesWhatIsMade
<1>4. CASE step.fatal
  BY <1>3, <1>4, BootEndsSafely DEF BootTrouble, StepFails
<1>5. CASE ~step.fatal
  <2>1. step.skips \in 1..(Len(Program) + 1 - k)
    BY <1>0, <1>5, TheProgram DEF PassedOverInOrder
  <2>2. /\ pc' = [pc EXCEPT ![p] = k + step.skips]
        /\ UNCHANGED <<registered, missed>> /\ UNCHANGED passedOver
    BY <1>5 DEF BootTrouble, StepFails
  <2>3. MadeBefore(Program, k + step.skips) \subseteq objects'
    BY <1>0, <1>3, <1>5, FoundationsGrow DEF BootInv, FoundationsStand
  <2> DEFINE m == k + step.skips
  <2>4. m \in 1..(Len(Program) + 1) /\ m > k
    BY <1>0, <2>1
  <2> QED
    BY <1>3, <2>2, <2>3, <2>4, BootGoesOn
<1> QED
  BY <1>4, <1>5

\* Every reachable state of the boots: what a process counts on is there, and what it
\* asked for in vain is offered by none of its steps yet to come.
THEOREM BootsStand == BootSpec => []BootInv
<1>1. BootInit => BootInv
  BY TheProgram, NothingBeforeABoot
     DEF BootInit, BootInv, BootShape, FoundationsStand, SeamsAreOfSteps
<1>2. BootInv /\ [BootNext]_bootVars => BootInv'
  <2> SUFFICES ASSUME BootInv, [BootNext]_bootVars PROVE BootInv'
    OBVIOUS
  <2>1. ASSUME NEW p \in Processes, BootStart(p) PROVE BootInv'
    <3>1. 1 \in 1..(Len(Program) + 1) /\ pc[p] = 0 /\ pc' = [pc EXCEPT ![p] = 1]
      BY <2>1, TheProgram DEF BootStart
    <3>2. UNCHANGED passedOver /\ UNCHANGED <<registered, missed>> /\ objects' = objects
      BY <2>1 DEF BootStart, bootDb
    <3>3. 1 > pc[p] /\ objects \ Droppable(Program) \subseteq objects' /\ MadeBefore(Program, 1) \subseteq objects'
      BY <3>1, <3>2, NothingBeforeABoot
    <3> QED
      BY <3>1, <3>2, <3>3, BootGoesOn
  <2>2. ASSUME NEW p \in Processes, BootKill(p) PROVE BootInv'
    BY <2>2, BootEndsSafely DEF BootKill, bootDb
  <2>3. CASE UNCHANGED bootVars
    BY <2>3 DEF bootVars, bootDb, bootProcess, BootInv, BootShape, FoundationsStand, SeamsAreOfSteps,
                MadeBefore, OfferedBefore, WantedBefore
  <2> QED
    BY <2>1, <2>2, <2>3, AdvanceIsSafe, TroubleIsSafe DEF BootNext
<1> QED
  BY <1>1, <1>2, PTL DEF BootSpec

\* For any number of processes, failures and kills, in every flavour of the site: no boot
\* passes over a step because another took or has not yet made what it needs, and none
\* serves with a seam published too late.
THEOREM BootsServeWhole == BootSpec => []ServesWhole
<1>1. BootInv => ServesWhole
  BY DEF BootInv, BootShape, SeamsAreOfSteps, ServesWhole
<1> QED
  BY <1>1, BootsStand, PTL

-----------------------------------------------------------------------------
(***************************************************************************)
(* The menus.  That a link is drawn once is a fact about the drawing, for  *)
(* any tables; that a shipped link has one row holds for one process: a    *)
(* second that boots at the same time may put the same link in again.      *)
(***************************************************************************)
OneServer == \A s, t \in Servers : s = t

IsRow(row) == {"key", "href", "builtin"} \subseteq DOMAIN row

BootingShape ==
    booting \in [Servers -> [at : {"down", "menus", "up"}]
                            \cup [at : {"links"}, left : SUBSET DOMAIN Shipped, look : DOMAIN Shipped \cup {NoKey}]]
LinksAreRows == \A row \in links : IsRow(row)
KeysAreUnique == \A a, b \in links : KeyOf(a) = KeyOf(b) /\ KeyOf(a) # NoKey => a = b
\* Rows of the first version are there only until the first boot lifts them.
LiftedFirst ==
    (\E row \in links : row.builtin /\ row.key = NoKey) => \A s \in Servers : booting[s].at = "down"
\* What a boot found missing is missing until it puts it in.
LookIsMissing ==
    \A s \in Servers : booting[s].at = "links" /\ booting[s].look # NoKey => NotThere(booting[s].look)

NavInv == BootingShape /\ LinksAreRows /\ KeysAreUnique /\ LiftedFirst /\ LookIsMissing

LEMMA KeysArePairs ==
    /\ \A k \in DOMAIN Shipped : k = <<k[1], k[2]>> /\ k # NoKey
    /\ \A x, y : <<x, y>> # NoKey
<1>1. \A x, y : <<x, y>> # NoKey
  <2> SUFFICES ASSUME NEW x, NEW y, <<x, y>> = << >>  PROVE FALSE
    BY DEF NoKey
  <2>1. Len(<<x, y>>) = 2 /\ Len(<< >>) = 0
    OBVIOUS
  <2> QED
    BY <2>1
<1>2. \A k \in DOMAIN Shipped : k = <<k[1], k[2]>>
  BY SiteNavAssumption
<1> QED
  BY <1>1, <1>2

LEMMA NavInitially == NavInit => NavInv
<1> SUFFICES ASSUME NavInit PROVE NavInv
  OBVIOUS
<1>1. \A s \in Servers : booting[s] = [at |-> "down"]
  BY DEF NavInit
<1>2. BootingShape /\ LookIsMissing /\ LiftedFirst
  BY <1>1 DEF NavInit, BootingShape, LookIsMissing, LiftedFirst
<1>3. links = {} \/ \E k \in DOMAIN Shipped, hidden \in BOOLEAN :
                          links = {[ShippedRow(k, 1) EXCEPT !.key = NoKey, !.hidden = hidden]}
  BY DEF NavInit
<1>4. \A k \in DOMAIN Shipped, hidden \in BOOLEAN : IsRow([ShippedRow(k, 1) EXCEPT !.key = NoKey, !.hidden = hidden])
  <2> SUFFICES ASSUME NEW k \in DOMAIN Shipped, NEW hidden \in BOOLEAN
               PROVE  IsRow([ShippedRow(k, 1) EXCEPT !.key = NoKey, !.hidden = hidden])
    OBVIOUS
  <2> QED
    BY DEF ShippedRow, IsRow
<1>5. LinksAreRows /\ KeysAreUnique
  BY <1>3, <1>4 DEF LinksAreRows, KeysAreUnique
<1> QED
  BY <1>2, <1>5 DEF NavInv

\* An editor keeps the keys of the rows it leaves, and what it adds has none.
SameKey(x, row) == IsRow(row) /\ row.key = x.key /\ row.builtin = x.builtin /\ row.href = x.href
OperatorsOwn(row) == IsRow(row) /\ row.key = NoKey /\ row.builtin = FALSE
KeepsTheKeys ==
    /\ \E as : /\ \A x \in links : SameKey(x, as[x])
               /\ \A row \in links' : OperatorsOwn(row) \/ \E x \in links : row = as[x]
    /\ UNCHANGED booting

LEMMA EditorsKeepTheKeys == NavInv /\ KeepsTheKeys => NavInv'
<1> SUFFICES ASSUME NavInv, UNCHANGED booting,
                    NEW as, \A x \in links : SameKey(x, as[x]),
                    \A row \in links' : OperatorsOwn(row) \/ \E x \in links : row = as[x]
             PROVE  NavInv'
  BY DEF KeepsTheKeys
<1>1. \A x \in links : KeyOf(as[x]) = KeyOf(x) /\ IsRow(as[x]) /\ as[x].key = x.key /\ as[x].builtin = x.builtin
  BY DEF KeyOf, SameKey
<1>2. \A row : OperatorsOwn(row) => KeyOf(row) = NoKey /\ IsRow(row) /\ row.key = NoKey /\ ~row.builtin
  BY DEF KeyOf, OperatorsOwn
<1>3. LinksAreRows'
  <2> SUFFICES ASSUME NEW row \in links' PROVE IsRow(row)
    BY DEF LinksAreRows, IsRow
  <2> QED
    BY <1>1, <1>2
<1>4. KeysAreUnique'
  <2> SUFFICES ASSUME NEW a \in links', NEW b \in links', KeyOf(a) = KeyOf(b), KeyOf(a) # NoKey
               PROVE  a = b
    BY DEF KeysAreUnique, KeyOf
  <2>1. PICK x \in links : a = as[x]
    BY <1>2
  <2>2. PICK y \in links : b = as[y]
    BY <1>2
  <2>3. KeyOf(x) = KeyOf(y) /\ KeyOf(x) # NoKey
    BY <1>1, <2>1, <2>2
  <2> QED
    BY <2>1, <2>2, <2>3 DEF NavInv, KeysAreUnique
<1>5. LiftedFirst'
  <2> SUFFICES ASSUME NEW row \in links', row.builtin, row.key = NoKey, NEW s \in Servers
               PROVE  booting[s].at = "down"
    BY DEF LiftedFirst
  <2>1. PICK x \in links : row = as[x]
    BY <1>2
  <2> QED
    BY <1>1, <2>1 DEF NavInv, LiftedFirst
<1>6. LookIsMissing'
  <2> SUFFICES ASSUME NEW s \in Servers, booting[s].at = "links", booting[s].look # NoKey, NEW row \in links'
               PROVE  row.key # booting[s].look
    BY DEF LookIsMissing, NotThere
  <2>1. CASE OperatorsOwn(row)
    BY <1>2, <2>1
  <2>2. ASSUME NEW x \in links, row = as[x]  PROVE row.key # booting[s].look
    <3>1. row.key = x.key
      BY <1>1, <2>2
    <3> QED
      BY <3>1 DEF NavInv, LookIsMissing, NotThere
  <2> QED
    BY <2>1, <2>2
<1> QED
  BY <1>3, <1>4, <1>5, <1>6 DEF NavInv, BootingShape

LEMMA MovedRows ==
    ASSUME NEW row, IsRow(row), NEW g, NEW h
    PROVE  SameKey(row, [row EXCEPT !.grp = g, !.hidden = h])
BY DEF IsRow, SameKey

LEMMA OperatorsRows == \A href, grp : OperatorsOwn(OperatorRow(href, grp))
BY DEF OperatorRow, IsRow, OperatorsOwn

LEMMA EditorsKeep ==
    ASSUME NavInv, NEW a \in Admins, NEW sent, links' = LinksSaved(a, sent), UNCHANGED booting
    PROVE  NavInv'
<1> DEFINE as == [row \in links |-> IF row.id \in sent THEN LinkSaved(a, row) ELSE row]
<1>1. \A x \in links : SameKey(x, as[x])
  <2> SUFFICES ASSUME NEW x \in links PROVE SameKey(x, as[x])
    OBVIOUS
  <2>1. IsRow(x)
    BY DEF NavInv, LinksAreRows
  <2>2. CASE x.id \in sent
    <3>1. PICK g, h : LinkSaved(a, x) = [x EXCEPT !.grp = g, !.hidden = h]
      BY DEF LinkSaved
    <3>2. as[x] = [x EXCEPT !.grp = g, !.hidden = h]
      BY <2>2, <3>1
    <3>3. SameKey(x, [x EXCEPT !.grp = g, !.hidden = h])
      BY <2>1, MovedRows
    <3> HIDE DEF as
    <3> QED
      BY <3>2, <3>3, Zenon
  <2>3. CASE x.id \notin sent
    BY <2>1, <2>3 DEF SameKey
  <2> QED
    BY <2>2, <2>3
<1>2. \A row \in links' : OperatorsOwn(row) \/ \E x \in links : row = as[x]
  <2>1. \A row \in links' : row \in AddedLinks(a) \/ \E x \in links : row = as[x]
    BY DEF LinksSaved
  <2>2. \A row \in AddedLinks(a) : OperatorsOwn(row)
    BY OperatorsRows DEF AddedLinks
  <2> QED
    BY <2>1, <2>2
<1> HIDE DEF as
<1>3. KeepsTheKeys
  BY <1>1, <1>2 DEF KeepsTheKeys
<1> QED
  BY <1>3, EditorsKeepTheKeys

LEMMA PagesKeep ==
    ASSUME NavInv, NEW s \in Servers, AdminPagesSave(s) \/ AdminPagesDelete(s)
    PROVE  NavInv'
<1>0. UNCHANGED booting
  BY DEF AdminPagesSave, AdminPagesDelete, PageHandler
<1>1. \A x \in links : SameKey(x, x)
  BY DEF NavInv, LinksAreRows, SameKey
<1> DEFINE same == [row \in links |-> row]
<1>2. ASSUME \A row \in links' : OperatorsOwn(row) \/ row \in links
      PROVE  KeepsTheKeys
  <2>1. \A x \in links : SameKey(x, same[x])
    BY <1>1
  <2>2. \A row \in links' : OperatorsOwn(row) \/ \E x \in links : row = same[x]
    BY <1>2
  <2> HIDE DEF same
  <2> QED
    BY <1>0, <2>1, <2>2 DEF KeepsTheKeys
<1>3. ASSUME UNCHANGED links \/ Unplace  PROVE KeepsTheKeys
  <2>1. \A row \in links' : row \in links
    BY <1>3 DEF Unplace
  <2> QED
    BY <1>2, <2>1
<1>4. ASSUME NEW grp, PlacePage(s, grp)  PROVE KeepsTheKeys
  <2>1. CASE Unplace
    BY <1>3, <2>1
  <2>2. ASSUME NEW placed,
               links' = {IF row.id = placed.id
                         THEN [row EXCEPT !.grp = grp, !.hidden = placed.hidden] ELSE row : row \in links}
        PROVE  KeepsTheKeys
    <3> DEFINE as == [row \in links |-> IF row.id = placed.id
                                        THEN [row EXCEPT !.grp = grp, !.hidden = placed.hidden] ELSE row]
    <3>1. \A row \in links' : \E x \in links : row = as[x]
      BY <2>2
    <3>2. ASSUME NEW x \in links PROVE SameKey(x, as[x])
      <4>1. as[x] = x \/ as[x] = [x EXCEPT !.grp = grp, !.hidden = placed.hidden]
        OBVIOUS
      <4> HIDE DEF as
      <4>2. IsRow(x)
        BY DEF NavInv, LinksAreRows
      <4>3. SameKey(x, [x EXCEPT !.grp = grp, !.hidden = placed.hidden])
        BY <4>2, MovedRows
      <4> QED
        BY <1>1, <4>1, <4>3, Zenon
    <3> HIDE DEF as
    <3> QED
      BY <1>0, <3>1, <3>2 DEF KeepsTheKeys
  <2>3. CASE links' = links \cup {OperatorRow(Page, grp)}
    BY <1>2, <2>3, OperatorsRows
  <2> QED
    BY <1>4, <2>1, <2>2, <2>3 DEF PlacePage
<1>5. ASSUME AdminPagesSave(s) PROVE KeepsTheKeys
  <2>1. PICK grp : UNCHANGED links \/ PlacePage(s, grp)
    BY <1>5 DEF AdminPagesSave, PageHandler
  <2> QED
    BY <1>3, <1>4, <2>1
<1>6. ASSUME AdminPagesDelete(s) PROVE UNCHANGED links \/ Unplace
  BY <1>6 DEF AdminPagesDelete, PageHandler
<1> QED
  BY <1>3, <1>5, <1>6, EditorsKeepTheKeys

LEMMA LiftedRows ==
    ASSUME NEW row, IsRow(row), NEW k
    PROVE  LET up == [row EXCEPT !.key = k]
           IN  IsRow(up) /\ up.key = k /\ up.builtin = row.builtin
BY DEF IsRow

LEMMA LiftsKeep ==
    ASSUME NavInv, OneServer, NEW s \in Servers, MigrateNav(s)
    PROVE  NavInv'
<1>1. booting' = [booting EXCEPT ![s] = [at |-> "menus"]]
  BY DEF MigrateNav, BootAt
<1>2. BootingShape' /\ LookIsMissing'
  BY <1>1 DEF NavInv, BootingShape, OneServer, LookIsMissing
<1>3. \A row \in links : LET up == [row EXCEPT !.key = KeyOf(row)]
                         IN  IsRow(up) /\ KeyOf(up) = KeyOf(row) /\ (up.builtin => up.key # NoKey)
  <2> SUFFICES ASSUME NEW row \in links
               PROVE  LET up == [row EXCEPT !.key = KeyOf(row)]
                      IN  IsRow(up) /\ KeyOf(up) = KeyOf(row) /\ (up.builtin => up.key # NoKey)
    OBVIOUS
  <2> DEFINE k == KeyOf(row)
             up == [row EXCEPT !.key = k]
  <2>1. IsRow(up) /\ up.key = k /\ up.builtin = row.builtin
    BY LiftedRows DEF NavInv, LinksAreRows
  <2>2. row.builtin => k # NoKey
    BY KeysArePairs DEF KeyOf
  <2> HIDE DEF up, k
  <2>3. KeyOf(up) = k
    BY <2>1, <2>2 DEF KeyOf
  <2> QED
    BY <2>1, <2>2, <2>3 DEF up, k
<1>4. links' = {[row EXCEPT !.key = KeyOf(row)] : row \in links}
  BY DEF MigrateNav, Lifted
<1>5. \A row \in links' : IsRow(row) /\ (row.builtin => row.key # NoKey)
  BY <1>3, <1>4
<1>7. LinksAreRows' /\ LiftedFirst'
  BY <1>5 DEF LinksAreRows, LiftedFirst, IsRow
<1>6. KeysAreUnique'
  <2> SUFFICES ASSUME NEW a \in links', NEW b \in links', KeyOf(a) = KeyOf(b), KeyOf(a) # NoKey
               PROVE  a = b
    BY DEF KeysAreUnique, KeyOf
  <2>1. PICK x \in links, y \in links : a = [x EXCEPT !.key = KeyOf(x)] /\ b = [y EXCEPT !.key = KeyOf(y)]
    BY <1>4
  <2>2. KeyOf(x) = KeyOf(y) /\ KeyOf(x) # NoKey
    BY <1>3, <2>1
  <2> QED
    BY <2>1, <2>2 DEF NavInv, KeysAreUnique
<1> QED
  BY <1>2, <1>6, <1>7 DEF NavInv

LEMMA BootsKeep ==
    ASSUME NavInv, OneServer, NEW s \in Servers,
           \/ EnsureMenus(s) \/ LookForLink(s) \/ EnsureLink(s)
           \/ BootMirrors(s) \/ LoadSiteNavFails(s) \/ NavRestart(s)
    PROVE  NavInv'
<1> USE DEF BootAt
<1>1. ASSUME UNCHANGED links,
             NEW step \in [at : {"down", "menus", "up"}]
                            \cup [at : {"links"}, left : SUBSET DOMAIN Shipped, look : DOMAIN Shipped \cup {NoKey}],
             BootAt(s, step), booting[s].at = "down" => step.at = "down",
             step.at = "links" /\ step.look # NoKey => NotThere(step.look)
      PROVE  NavInv'
  <2>1. BootingShape' /\ LookIsMissing'
    BY <1>1 DEF NavInv, BootingShape, LookIsMissing, OneServer, NotThere
  <2>2. LinksAreRows' /\ KeysAreUnique' /\ LiftedFirst'
    BY <1>1 DEF NavInv, BootingShape, LinksAreRows, IsRow, KeysAreUnique, KeyOf, LiftedFirst, OneServer
  <2> QED
    BY <2>1, <2>2 DEF NavInv
<1>2. CASE EnsureMenus(s)
  <2> DEFINE step == [at |-> "links", left |-> DOMAIN Shipped, look |-> NoKey]
  <2>1. UNCHANGED links /\ BootAt(s, step) /\ booting[s].at # "down"
    BY <1>2 DEF EnsureMenus
  <2> QED
    BY <1>1, <2>1
<1>3. CASE LookForLink(s)
  <2>1. PICK k \in booting[s].left :
          BootAt(s, [booting[s] EXCEPT !.look = IF NotThere(k) THEN k ELSE @,
                                       !.left = IF NotThere(k) THEN @ ELSE @ \ {k}])
    BY <1>3 DEF LookForLink
  <2> DEFINE step == [booting[s] EXCEPT !.look = IF NotThere(k) THEN k ELSE @,
                                        !.left = IF NotThere(k) THEN @ ELSE @ \ {k}]
  <2>2. booting[s] \in [at : {"links"}, left : SUBSET DOMAIN Shipped, look : DOMAIN Shipped \cup {NoKey}]
        /\ booting[s].look = NoKey
    BY <1>3 DEF LookForLink, NavInv, BootingShape
  <2>3. step \in [at : {"links"}, left : SUBSET DOMAIN Shipped, look : DOMAIN Shipped \cup {NoKey}]
        /\ (step.look # NoKey => NotThere(step.look))
    BY <2>2
  <2>4. UNCHANGED links /\ booting[s].at # "down"
    BY <1>3, <2>2 DEF LookForLink, navTables
  <2> HIDE DEF step
  <2> QED
    BY <1>1, <2>1, <2>3, <2>4 DEF step
<1>4. CASE EnsureLink(s)
  <2> DEFINE k == booting[s].look
             new == ShippedRow(k, lastRow + 1)
             step == [booting[s] EXCEPT !.look = NoKey, !.left = @ \ {k}]
  <2>1. booting[s] \in [at : {"links"}, left : SUBSET DOMAIN Shipped, look : DOMAIN Shipped \cup {NoKey}]
    BY <1>4 DEF EnsureLink, NavInv, BootingShape
  <2>2. k \in DOMAIN Shipped /\ k # NoKey /\ NotThere(k)
    BY <1>4, <2>1 DEF EnsureLink, NavInv, LookIsMissing
  <2>3. links' = links \cup {new} /\ booting' = [booting EXCEPT ![s] = step]
    BY <1>4 DEF EnsureLink
  <2>4. \A row \in links : row.builtin => row.key # NoKey
    BY <2>1 DEF NavInv, LiftedFirst
  <2>5. \A row \in links : KeyOf(row) = row.key
    BY <2>4 DEF KeyOf
  <2>6. IsRow(new) /\ KeyOf(new) = k /\ new.key # NoKey
    <3>1. IsRow(new)
      BY DEF ShippedRow, IsRow
    <3> QED
      BY <2>2, <3>1 DEF ShippedRow, KeyOf
  <2>7. \A row \in links : KeyOf(row) # k
    BY <2>2, <2>5 DEF NotThere
  <2>8. LinksAreRows' /\ KeysAreUnique' /\ LiftedFirst'
    <3> HIDE DEF new, k
    <3>1. LinksAreRows'
      BY <2>3, <2>6 DEF LinksAreRows, NavInv, IsRow
    <3>2. KeysAreUnique'
      BY <2>3, <2>6, <2>7 DEF KeysAreUnique, NavInv, KeyOf
    <3>3. LiftedFirst'
      BY <2>3, <2>4, <2>6 DEF LiftedFirst
    <3> QED
      BY <3>1, <3>2, <3>3
  <2>9. step \in [at : {"links"}, left : SUBSET DOMAIN Shipped, look : DOMAIN Shipped \cup {NoKey}] /\ step.look = NoKey
    BY <2>1
  <2> HIDE DEF step
  <2>10. BootingShape' /\ LookIsMissing'
    BY <2>3, <2>9 DEF NavInv, BootingShape, LookIsMissing, OneServer
  <2> QED
    BY <2>8, <2>10 DEF NavInv
<1>5. CASE BootMirrors(s) \/ LoadSiteNavFails(s)
  <2>1. UNCHANGED links /\ BootAt(s, [at |-> "up"]) /\ booting[s].at # "down"
    BY <1>5 DEF BootMirrors, LoadSiteNavFails, navTables
  <2> QED
    BY <1>1, <2>1
<1>6. CASE NavRestart(s)
  <2>1. UNCHANGED links /\ BootAt(s, [at |-> "down"])
    BY <1>6 DEF NavRestart, navTables
  <2> QED
    BY <1>1, <2>1
<1> QED
  BY <1>2, <1>3, <1>4, <1>5, <1>6

LEMMA NavInductive == NavInv /\ OneServer /\ [NavNext]_navVars => NavInv'
<1> SUFFICES ASSUME NavInv, OneServer, [NavNext]_navVars PROVE NavInv'
  OBVIOUS
<1>1. ASSUME UNCHANGED <<links, booting>>  PROVE NavInv'
  BY <1>1 DEF NavInv, BootingShape, LinksAreRows, IsRow, KeysAreUnique, KeyOf, LiftedFirst, LookIsMissing, NotThere
<1>2. CASE UNCHANGED navVars
  BY <1>1, <1>2 DEF navVars
<1>3. ASSUME NEW a \in Admins, NEW s \in Servers, AdminNavEditor(a, s)  PROVE NavInv'
  BY <1>1, <1>3 DEF AdminNavEditor, navTables
<1>4. ASSUME NEW a \in Admins, AdminNavSave(a) \/ GiveUp(a) \/ RefreshReads(a) \/ RefreshSwaps(a)  PROVE NavInv'
  BY <1>1, <1>4 DEF AdminNavSave, GiveUp, RefreshReads, RefreshSwaps, navTables
<1>5. ASSUME NEW a \in Admins, WriteMenus(a)  PROVE NavInv'
  BY <1>5, EditorsKeep DEF WriteMenus
<1>6. ASSUME NEW a \in Admins, StopsAtLinks(a)  PROVE NavInv'
  <2>1. UNCHANGED <<links, booting>> \/ \E sent : links' = LinksSaved(a, sent) /\ UNCHANGED booting
    BY <1>6 DEF StopsAtLinks
  <2> QED
    BY <1>1, <2>1, EditorsKeep
<1> QED
  BY <1>2, <1>3, <1>4, <1>5, <1>6, PagesKeep, LiftsKeep, BootsKeep DEF NavNext

\* A link is drawn in one menu or in a hidden one, whatever the tables hold.
LEMMA DrawingIsWhole == DrawnOnce
<1> SUFFICES ASSUME NEW s \in Servers, NEW row \in CurrentNav(s).links,
                    ~row.hidden, row.href \notin Gated, "other" \in DOMAIN CurrentNav(s).menus
             PROVE  LET nav == CurrentNav(s)
                        drawn == AssembleNav(nav)
                    IN  \/ Cardinality({m \in DOMAIN drawn : row \in drawn[m]}) = 1
                        \/ \E m \in DOMAIN nav.menus : nav.menus[m].hidden /\ m = Bucket(nav, row)
  BY DEF DrawnOnce
<1> DEFINE nav == CurrentNav(s)
           in == Bucket(nav, row)
           drawn == AssembleNav(nav)
<1>1. in \in DOMAIN nav.menus
  BY DEF Bucket
<1>2. CASE ~nav.menus[in].hidden
  <2>1. {m \in DOMAIN drawn : row \in drawn[m]} = {in}
    BY <1>1, <1>2 DEF AssembleNav
  <2> QED
    BY <2>1, FS_Singleton
<1> QED
  BY <1>1, <1>2

\* For one process at a time, any number of editors, shipped links and mishaps: a shipped
\* link has one row at most, whatever boots and editors did, and a link that is not hidden is
\* drawn in exactly one menu or belongs to one the operator hid.
THEOREM NavIsWhole == NavSpec /\ []OneServer => []MenusAreWhole
<1>1. NavInv => ShippedOnce
  <2> SUFFICES ASSUME NavInv, NEW k \in DOMAIN Shipped
               PROVE  Cardinality({row \in links : KeyOf(row) = k}) <= 1
    BY DEF ShippedOnce
  <2> DEFINE rows == {row \in links : KeyOf(row) = k}
  <2>1. \A a, b \in rows : a = b
    BY KeysArePairs DEF NavInv, KeysAreUnique
  <2>2. CASE rows = {}
    BY <2>2, FS_EmptySet
  <2>3. CASE rows # {}
    <3>1. PICK a : rows = {a}
      BY <2>1, <2>3
    <3> QED
      <4> HIDE DEF rows
      <4>1. Cardinality(rows) = 1
        BY <3>1, FS_Singleton
      <4> QED
        BY <4>1 DEF rows
  <2> QED
    BY <2>2, <2>3
<1>2. NavInv => MenusAreWhole
  BY <1>1, DrawingIsWhole DEF MenusAreWhole
<1> QED
  BY <1>2, NavInitially, NavInductive, PTL DEF NavSpec

-----------------------------------------------------------------------------
(***************************************************************************)
(* The layout, for any regions, widgets, pages and operators at work, and  *)
(* one process: a second that boots at the same time may have read the     *)
(* marker before the first left it.                                        *)
(*                                                                         *)
(* A move numbers a region by the order it read, so what it read has to be *)
(* an order: every widget of the region once.  That is because the reading *)
(* ranks them, by position and then by slug, which is total whatever ties  *)
(* the positions have.                                                     *)
(***************************************************************************)
OneHost == \A g, h \in Hosts : g = h

Placement == [position : Nat, enabled : BOOLEAN, pages : Rules \cup {EveryPage}]
RowsAre(rows) == DOMAIN rows \subseteq Slugs /\ rows \in [DOMAIN rows -> Placement]
Before(rows) == [s \in DOMAIN rows |-> {t \in DOMAIN rows : Earlier(rows, t, s)}]

LEMMA SlugsAreFinite == IsFiniteSet(Slugs)
<1> DEFINE n == Len(Alphabet)
           f == [i \in 1..n |-> Alphabet[i]]
<1>1. n \in Nat /\ DOMAIN Alphabet = 1..n
  BY WidgetsAssumption
<1>2. IsFiniteSet(1..n)
  BY <1>1, FS_Interval
<1>3. f \in Surjection(1..n, Slugs)
  BY <1>1 DEF Slugs, Surjection
<1> HIDE DEF f, n
<1> QED
  BY <1>2, <1>3, FS_Surjection

Place(s) == CHOOSE i \in DOMAIN Alphabet : Alphabet[i] = s

LEMMA SlugsHavePlaces ==
    /\ \A s \in Slugs : Place(s) \in Nat /\ Alphabet[Place(s)] = s
    /\ \A s, t \in Slugs : Alphabetical(s, t) <=> Place(s) < Place(t)
<1>1. \A s \in Slugs : Place(s) \in DOMAIN Alphabet /\ Alphabet[Place(s)] = s
  BY DEF Slugs, Place
<1>2. DOMAIN Alphabet \subseteq Nat
  BY WidgetsAssumption
<1>3. \A s \in Slugs : \A i \in DOMAIN Alphabet : Alphabet[i] = s => i = Place(s)
  BY <1>1, WidgetsAssumption
<1>4. \A s, t \in Slugs : Alphabetical(s, t) <=> Place(s) < Place(t)
  BY <1>1, <1>3 DEF Alphabetical
<1> QED
  BY <1>1, <1>2, <1>4

\* Before what, in a region: a strict total order.
LEMMA RegionsAreOrdered ==
    ASSUME NEW rows, RowsAre(rows)
    PROVE  /\ IsFiniteSet(DOMAIN rows)
           /\ \A s, t \in DOMAIN rows : t \in Before(rows)[s] <=> Earlier(rows, t, s)
           /\ \A s \in DOMAIN rows : Before(rows)[s] \subseteq DOMAIN rows /\ s \notin Before(rows)[s]
           /\ \A s \in DOMAIN rows : \A t \in Before(rows)[s] : Before(rows)[t] \subseteq Before(rows)[s]
           /\ \A s, t \in DOMAIN rows : s = t \/ s \in Before(rows)[t] \/ t \in Before(rows)[s]
<1> DEFINE D == DOMAIN rows
           at == [s \in D |-> rows[s].position]
<1>1. \A s \in D : at[s] \in Nat /\ Place(s) \in Nat /\ Alphabet[Place(s)] = s
  BY SlugsHavePlaces DEF RowsAre, Placement
<1>2. \A s, t \in D : Earlier(rows, t, s) <=> at[t] < at[s] \/ (at[t] = at[s] /\ Place(t) < Place(s))
  BY SlugsHavePlaces DEF RowsAre, Earlier
<1>3. IsFiniteSet(D)
  BY SlugsAreFinite, FS_Subset DEF RowsAre
<1>4. \A s \in D : Before(rows)[s] \subseteq D /\ \A t \in D : t \in Before(rows)[s] <=> Earlier(rows, t, s)
  BY DEF Before
<1> HIDE DEF at
<1>5. \A s \in D : ~Earlier(rows, s, s)
  BY <1>1, <1>2
<1>6. ASSUME NEW s \in D, NEW t \in D, NEW u \in D, Earlier(rows, t, s), Earlier(rows, u, t)
      PROVE  Earlier(rows, u, s)
  BY <1>1, <1>2, <1>6
<1>7. ASSUME NEW s \in D, NEW t \in D, s # t PROVE Earlier(rows, s, t) \/ Earlier(rows, t, s)
  <2>1. Place(s) # Place(t)
    BY <1>1, <1>7
  <2> QED
    BY <1>1, <1>2, <2>1
<1>8. \A s \in D : \A t \in Before(rows)[s] : Before(rows)[t] \subseteq Before(rows)[s]
  BY <1>4, <1>6
<1> QED
  BY <1>3, <1>4, <1>5, <1>7, <1>8

RankIn(rows, s) == Cardinality({t \in DOMAIN rows : Earlier(rows, t, s)})

\* What is read of a region: every widget once, each behind those before it.
LEMMA ReadingIsAnOrder ==
    ASSUME NEW rows, RowsAre(rows)
    PROVE  LET order == ReadPlacements(rows)
               n == Cardinality(DOMAIN rows)
           IN  /\ n \in Nat /\ DOMAIN order = 1..n /\ order = [i \in 1..n |-> order[i]]
               /\ \A i \in 1..n : order[i] \in DOMAIN rows /\ RankIn(rows, order[i]) = i - 1
               /\ \A s, t \in DOMAIN rows : Earlier(rows, s, t) => RankIn(rows, s) < RankIn(rows, t)
<1> DEFINE order == ReadPlacements(rows)
           n == Cardinality(DOMAIN rows)
<1>1. \A s \in DOMAIN rows : Cardinality(Before(rows)[s]) = RankIn(rows, s)
  BY DEF Before, RankIn
<1>2. /\ n \in Nat
      /\ \A s \in DOMAIN rows : \A t \in Before(rows)[s] : Cardinality(Before(rows)[t]) < Cardinality(Before(rows)[s])
      /\ \A k \in 0..(n - 1) : \E s \in DOMAIN rows : Cardinality(Before(rows)[s]) = k
  <2> HIDE DEF n
  <2> QED
    BY RegionsAreOrdered, RanksCount DEF n
<1>3. \A k \in 0..(n - 1) : \E s \in DOMAIN rows : RankIn(rows, s) = k
  BY <1>1, <1>2
<1>4. order = [i \in 1..n |-> CHOOSE s \in DOMAIN rows : RankIn(rows, s) = i - 1]
  BY DEF ReadPlacements, RankIn
<1> HIDE DEF order, n
<1>5. \A i \in 1..n : order[i] \in DOMAIN rows /\ RankIn(rows, order[i]) = i - 1
  <2> TAKE i \in 1..n
  <2>1. i - 1 \in 0..(n - 1)
    BY <1>2
  <2>2. \E s \in DOMAIN rows : RankIn(rows, s) = i - 1
    BY <1>3, <2>1
  <2> QED
    BY <1>4, <2>2
<1>6. \A s, t \in DOMAIN rows : Earlier(rows, s, t) => RankIn(rows, s) < RankIn(rows, t)
  BY <1>1, <1>2, RegionsAreOrdered
<1>7. DOMAIN order = 1..n /\ order = [i \in 1..n |-> order[i]]
  BY <1>4
<1> QED
  BY <1>2, <1>5, <1>6, <1>7 DEF order, n

\* PlaceWidget counts from the rows there are.
LEMMA NextPositionIsNatural ==
    ASSUME NEW rows, RowsAre(rows)
    PROVE  NextPosition(rows) \in Nat
<1> DEFINE D == DOMAIN rows
           taken_ == {rows[s].position : s \in D}
<1>1. CASE D = {}
  BY <1>1 DEF NextPosition
<1>2. CASE D # {}
  <2>1. taken_ \in SUBSET Nat /\ taken_ # {}
    BY <1>2 DEF RowsAre, Placement
  <2>2. IsFiniteSet(D)
    BY RegionsAreOrdered
  <2> DEFINE f == [s \in D |-> rows[s].position]
  <2>3. f \in Surjection(D, taken_)
    BY DEF Surjection
  <2> HIDE DEF f
  <2>4. IsFiniteSet(taken_)
    <3> HIDE DEF taken_, D
    <3> QED
      BY <2>2, <2>3, FS_Surjection
  <2>5. \E p \in taken_ : \A q \in taken_ : q <= p
    <3> HIDE DEF taken_
    <3> QED
      BY <2>1, <2>4, GreatestNumber
  <2> DEFINE last == CHOOSE p \in taken_ : \A q \in taken_ : q <= p
  <2>6. \E p \in taken_ : \A s \in D : rows[s].position <= p
    BY <2>5
  <2>7. PICK p \in taken_ : NextPosition(rows) = 1 + p
    BY <1>2, <2>6 DEF NextPosition
  <2> QED
    BY <2>1, <2>7
<1> QED
  BY <1>1, <1>2

-----------------------------------------------------------------------------
Injected(order) == \A i, j \in DOMAIN order : order[i] = order[j] => i = j
IsPlacing(act) ==
    act.at = "place" /\ act.region \in Regions /\ act.slug \in Slugs /\ act.position \in Nat
IsMove(act) ==
    /\ act.at = "move" /\ act.region \in Regions
    /\ DOMAIN act.order \subseteq Nat \ {0} /\ Injected(act.order)
    /\ act.top \in DOMAIN act.order /\ act.top + 1 \in DOMAIN act.order

LayoutShape ==
    /\ DOMAIN placements = Regions /\ placements = [r \in Regions |-> placements[r]]
    /\ \A r \in Regions : RowsAre(placements[r])
EditsShape ==
    /\ DOMAIN arranging = Arrangers /\ arranging = [o \in Arrangers |-> arranging[o]]
    /\ \A o \in Arrangers : arranging[o] = NotArranging \/ IsPlacing(arranging[o]) \/ IsMove(arranging[o])
SeedersShape ==
    /\ seeding \in [Hosts -> [at : {"down", "up"}] \cup [at : {"look", "place", "mark"}, seed : 1..2, blind : BOOLEAN]]
    /\ seeded \subseteq {"widgets", "poll"} /\ offered \subseteq Slugs /\ widgetMishaps \in Nat
\* A seeder that places does so because it read that its marker is not there, or could not.
UnmarkedIsPlaced ==
    \A h \in Hosts : seeding[h].at = "place" => seeding[h].blind \/ Seeds[seeding[h].seed] \notin seeded

WidgetsInv == LayoutShape /\ EditsShape /\ SeedersShape /\ UnmarkedIsPlaced

LEMMA WidgetsInitially == WidgetsInit => WidgetsInv
<1> SUFFICES ASSUME WidgetsInit PROVE WidgetsInv
  OBVIOUS
<1>1. \A rows \in {<< >>, [s \in {"swarm"} \cap Slugs |-> PlacementAt(0)]} : RowsAre(rows)
  <2>1. RowsAre(<< >>)
    <3>1. DOMAIN << >> = {} /\ << >> = [s \in {} |-> s]
      OBVIOUS
    <3> QED
      BY <3>1 DEF RowsAre
  <2>2. RowsAre([s \in {"swarm"} \cap Slugs |-> PlacementAt(0)])
    BY DEF RowsAre, PlacementAt, Placement, EveryPage
  <2> QED
    BY <2>1, <2>2
<1>2. LayoutShape
  BY <1>1 DEF WidgetsInit, LayoutShape
<1> QED
  BY <1>2 DEF WidgetsInit, WidgetsInv, EditsShape, SeedersShape, UnmarkedIsPlaced

\* What an edit of one region leaves of the layout.
LEMMA RewrittenLayout ==
    ASSUME LayoutShape, NEW r \in Regions, NEW rows, RowsAre(rows), Rewrite(r, rows)
    PROVE  LayoutShape'
<1>1. \A x \in Regions : placements'[x] = IF x = r THEN rows ELSE placements[x]
  BY DEF Rewrite, LayoutShape
<1>2. \A x \in Regions : RowsAre(placements'[x])
  BY <1>1 DEF LayoutShape
<1>3. DOMAIN placements' = Regions /\ placements' = [x \in Regions |-> placements'[x]]
  BY DEF Rewrite, LayoutShape
<1> QED
  BY <1>2, <1>3 DEF LayoutShape, RowsAre

\* A step of one operator, which neither boots nor fails.
LEMMA EditedShape ==
    ASSUME EditsShape, NEW o \in Arrangers, NEW act, Arrange(o, act),
           act = NotArranging \/ IsPlacing(act) \/ IsMove(act)
    PROVE  EditsShape'
<1>1. \A x \in Arrangers : arranging'[x] = IF x = o THEN act ELSE arranging[x]
  BY DEF Arrange, EditsShape
<1>2. \A x \in Arrangers : arranging'[x] = NotArranging \/ IsPlacing(arranging'[x]) \/ IsMove(arranging'[x])
  BY <1>1 DEF EditsShape
<1>3. DOMAIN arranging' = Arrangers /\ arranging' = [x \in Arrangers |-> arranging'[x]]
  BY DEF Arrange, EditsShape
<1> QED
  BY <1>2, <1>3 DEF EditsShape, NotArranging, IsPlacing, IsMove, Injected

LEMMA InsertedRows ==
    ASSUME NEW rows, RowsAre(rows), NEW s \in Slugs, NEW pos \in Nat
    PROVE  RowsAre(Inserted(rows, s, pos)) /\ DOMAIN Inserted(rows, s, pos) = DOMAIN rows \cup {s}
BY DEF RowsAre, Inserted, PlacementAt, Placement, EveryPage

LEMMA SeededRows ==
    ASSUME NEW rows, RowsAre(rows), NEW seed
    PROVE  RowsAre(SeedPlacements(rows, SeedRows(seed)))
<1>1. DOMAIN SeedRows(seed) \subseteq Slugs /\ \A s \in DOMAIN SeedRows(seed) : SeedRows(seed)[s] \in Nat
  BY DEF SeedRows
<1> QED
  BY <1>1 DEF RowsAre, SeedPlacements, PlacementAt, Placement, EveryPage

LEMMA RemovedRows ==
    ASSUME NEW rows, RowsAre(rows), NEW s
    PROVE  RowsAre([t \in DOMAIN rows \ {s} |-> rows[t]])
BY DEF RowsAre

LEMMA EditedRows ==
    ASSUME NEW rows, RowsAre(rows), NEW s \in DOMAIN rows
    PROVE  /\ RowsAre([rows EXCEPT ![s].enabled = ~@])
           /\ \A rule \in Rules : RowsAre([rows EXCEPT ![s].pages = rule])
BY DEF RowsAre, Placement

LEMMA RenumberedRows ==
    ASSUME NEW rows, RowsAre(rows), NEW act, IsMove(act)
    PROVE  LET new == ReorderWidgets(rows, act.order)
           IN  /\ RowsAre(new)
               /\ \A i \in DOMAIN act.order : act.order[i] \in DOMAIN rows => new[act.order[i]].position = i - 1
<1> DEFINE order == act.order
           new == ReorderWidgets(rows, order)
           slot(s) == CHOOSE i \in DOMAIN order : order[i] = s
<1>1. \A i \in DOMAIN order : slot(order[i]) = i
  BY DEF IsMove, Injected
<1>2. \A s : (\E i \in DOMAIN order : order[i] = s) => slot(s) - 1 \in Nat
  BY <1>1 DEF IsMove
<1>3. new = [s \in DOMAIN rows |-> IF \E i \in DOMAIN order : order[i] = s
                                   THEN [rows[s] EXCEPT !.position = slot(s) - 1] ELSE rows[s]]
  BY DEF ReorderWidgets
<1>4. \A s \in DOMAIN rows : rows[s] \in Placement
  BY DEF RowsAre
<1> HIDE DEF slot, new, order
<1>5. \A s \in DOMAIN rows : new[s] \in Placement
  BY <1>2, <1>3, <1>4 DEF Placement
<1>6. DOMAIN new = DOMAIN rows /\ new \in [DOMAIN rows -> Placement]
  BY <1>3, <1>5
<1>7. RowsAre(new)
  BY <1>6 DEF RowsAre
<1>8. \A i \in DOMAIN order : order[i] \in DOMAIN rows => new[order[i]].position = i - 1
  BY <1>1, <1>3, <1>4 DEF Placement
<1> QED
  BY <1>7, <1>8 DEF new, order

\* The widget moved up is read, and so drawn, before the one it changed places with.
LEMMA MovedIsBefore ==
    ASSUME NEW rows, RowsAre(rows), NEW act, IsMove(act), NEW path
    PROVE  ~DrawnBefore(ReorderWidgets(rows, act.order), path, act.order[act.top + 1], act.order[act.top])
<1> DEFINE new == ReorderWidgets(rows, act.order)
           a == act.order[act.top + 1]
           b == act.order[act.top]
           order == ReadPlacements(new)
<1> SUFFICES ASSUME DrawnBefore(new, path, a, b) PROVE FALSE
  OBVIOUS
<1>1. RowsAre(new) /\ DOMAIN new = DOMAIN rows
  BY RenumberedRows DEF ReorderWidgets
<1>2. a \in DOMAIN new /\ b \in DOMAIN new
  BY DEF DrawnBefore, RenderPlaced
<1>3. new[b].position = act.top - 1 /\ new[a].position = act.top
  BY <1>1, <1>2, RenumberedRows DEF IsMove
<1>4. Earlier(new, b, a)
  BY <1>3 DEF Earlier, IsMove
<1> HIDE DEF new, a, b
<1>5. PICK i \in DOMAIN order, j \in DOMAIN order : i < j /\ order[i] = a /\ order[j] = b
  BY DEF DrawnBefore
<1>6. /\ DOMAIN order \subseteq Nat /\ RankIn(new, a) = i - 1 /\ RankIn(new, b) = j - 1
      /\ RankIn(new, b) < RankIn(new, a)
  BY <1>1, <1>2, <1>4, <1>5, ReadingIsAnOrder
<1> QED
  BY <1>5, <1>6

-----------------------------------------------------------------------------
LEMMA EditsKeepLayouts ==
    ASSUME WidgetsInv, NEW o \in Arrangers, NEW r \in Regions, NEW s \in Slugs,
           PlaceWidget(o, r, s) \/ RemoveWidget(o, r, s) \/ ToggleWidget(o, r, s) \/ SetWidgetPages(o, r, s)
    PROVE  WidgetsInv'
<1> USE DEF WidgetsInv
<1>1. SeedersShape' /\ UnmarkedIsPlaced'
  BY DEF SeedersShape, UnmarkedIsPlaced, EditorOnly, PlaceWidget, RemoveWidget, ToggleWidget, SetWidgetPages
<1>2. RowsAre(placements[r])
  BY DEF LayoutShape
<1>3. CASE PlaceWidget(o, r, s)
  <2>1. LayoutShape'
    BY <1>3 DEF PlaceWidget, LayoutShape, RowsAre
  <2> DEFINE act == [at |-> "place", region |-> r, slug |-> s, position |-> NextPosition(placements[r])]
  <2>2. Arrange(o, act) /\ IsPlacing(act)
    BY <1>2, <1>3, NextPositionIsNatural DEF PlaceWidget, IsPlacing
  <2> HIDE DEF act
  <2>3. EditsShape'
    BY <2>2, EditedShape
  <2> QED
    BY <1>1, <2>1, <2>3
<1>4. ASSUME NEW rows, RowsAre(rows), Rewrite(r, rows), UNCHANGED arranging  PROVE WidgetsInv'
  <2>1. LayoutShape'
    BY <1>4, RewrittenLayout
  <2>2. EditsShape'
    BY <1>4 DEF EditsShape, NotArranging, IsPlacing, IsMove, Injected
  <2> QED
    BY <1>1, <2>1, <2>2
<1>5. CASE RemoveWidget(o, r, s)
  <2>1. Rewrite(r, [t \in DOMAIN placements[r] \ {s} |-> placements[r][t]]) /\ UNCHANGED arranging
    BY <1>5 DEF RemoveWidget
  <2> QED
    BY <1>2, <1>4, <2>1, RemovedRows
<1>6. CASE ToggleWidget(o, r, s)
  <2>1. Rewrite(r, [placements[r] EXCEPT ![s].enabled = ~@]) /\ UNCHANGED arranging /\ s \in DOMAIN placements[r]
    BY <1>6 DEF ToggleWidget
  <2> QED
    BY <1>2, <1>4, <2>1, EditedRows
<1>7. CASE SetWidgetPages(o, r, s)
  <2>1. PICK rule \in Rules : Rewrite(r, [placements[r] EXCEPT ![s].pages = rule])
    BY <1>7 DEF SetWidgetPages
  <2>2. UNCHANGED arranging /\ s \in DOMAIN placements[r]
    BY <1>7 DEF SetWidgetPages
  <2> QED
    BY <1>2, <1>4, <2>1, <2>2, EditedRows
<1> QED
  BY <1>3, <1>5, <1>6, <1>7

LEMMA MovesStart ==
    ASSUME WidgetsInv, NEW o \in Arrangers, NEW r \in Regions, MoveWidget(o, r)
    PROVE  WidgetsInv'
<1> USE DEF WidgetsInv
<1>1. SeedersShape' /\ UnmarkedIsPlaced' /\ LayoutShape'
  BY DEF SeedersShape, UnmarkedIsPlaced, EditorOnly, MoveWidget, LayoutShape, RowsAre
<1> DEFINE order == ReadPlacements(placements[r])
           n == Cardinality(DOMAIN placements[r])
           moved(i) == [order EXCEPT ![i] = order[i + 1], ![i + 1] = order[i]]
           act(i) == [at |-> "move", region |-> r, top |-> i, order |-> moved(i)]
<1>2. n \in Nat /\ DOMAIN order = 1..n /\ \A i, j \in 1..n : order[i] = order[j] => i = j
  <2>1. /\ n \in Nat /\ DOMAIN order = 1..n
        /\ \A i \in 1..n : RankIn(placements[r], order[i]) = i - 1
    BY ReadingIsAnOrder DEF LayoutShape
  <2> HIDE DEF order, n
  <2> QED
    BY <2>1
<1>3. order \in Seq({order[i] : i \in 1..n}) /\ Len(order) = n
  <2>1. order = [i \in 1..n |-> order[i]]
    BY ReadingIsAnOrder DEF LayoutShape
  <2> HIDE DEF order, n
  <2> QED
    BY <1>2, <2>1
<1>4. PICK i \in 1..(Len(order) - 1) : Arrange(o, act(i))
  BY DEF MoveWidget
<1>5. i \in DOMAIN order /\ i + 1 \in DOMAIN order /\ DOMAIN order \subseteq Nat \ {0}
  BY <1>2, <1>3
<1>6. DOMAIN moved(i) = DOMAIN order /\ Injected(moved(i))
  <2> HIDE DEF order, n
  <2> QED
    BY <1>2, <1>5 DEF Injected
<1>7. IsMove(act(i))
  <2> HIDE DEF order, n, moved
  <2> QED
    BY <1>5, <1>6 DEF IsMove
<1>8. EditsShape'
  <2> HIDE DEF act
  <2> QED
    BY <1>4, <1>7, EditedShape
<1> QED
  BY <1>1, <1>8

LEMMA EditsEnd ==
    ASSUME WidgetsInv, NEW o \in Arrangers,
           PlaceWidgetInserts(o) \/ MoveWidgetCommits(o) \/ ArrangingFails(o)
    PROVE  WidgetsInv'
<1> USE DEF WidgetsInv
<1>1. SeedersShape' /\ UnmarkedIsPlaced'
  <2>1. UNCHANGED <<seeded, offered, seeding>>
    BY DEF EditorOnly, PlaceWidgetInserts, MoveWidgetCommits, ArrangingFails
  <2>2. widgetMishaps' = widgetMishaps \/ widgetMishaps' = widgetMishaps + 1
    BY DEF EditorOnly, PlaceWidgetInserts, MoveWidgetCommits, ArrangingFails
  <2> QED
    BY <2>1, <2>2 DEF SeedersShape, UnmarkedIsPlaced
<1>2. Arrange(o, NotArranging)
  BY DEF PlaceWidgetInserts, MoveWidgetCommits, ArrangingFails
<1>3. EditsShape'
  BY <1>2, EditedShape
<1> DEFINE act == arranging[o]
<1>4. act = NotArranging \/ IsPlacing(act) \/ IsMove(act)
  BY DEF EditsShape
<1>5. CASE PlaceWidgetInserts(o)
  <2>1. IsPlacing(act)
    BY <1>4, <1>5 DEF PlaceWidgetInserts, NotArranging, IsMove
  <2>2. RowsAre(Inserted(placements[act.region], act.slug, act.position))
    BY <2>1, InsertedRows DEF IsPlacing, LayoutShape
  <2>3. Rewrite(act.region, Inserted(placements[act.region], act.slug, act.position)) /\ act.region \in Regions
    BY <1>5, <2>1 DEF PlaceWidgetInserts, IsPlacing
  <2> QED
    BY <1>1, <1>3, <2>2, <2>3, RewrittenLayout
<1>6. CASE MoveWidgetCommits(o)
  <2>1. IsMove(act)
    BY <1>4, <1>6 DEF MoveWidgetCommits, NotArranging, IsPlacing
  <2>2. RowsAre(ReorderWidgets(placements[act.region], act.order))
    BY <2>1, RenumberedRows DEF IsMove, LayoutShape
  <2>3. Rewrite(act.region, ReorderWidgets(placements[act.region], act.order)) /\ act.region \in Regions
    BY <1>6, <2>1 DEF MoveWidgetCommits, IsMove
  <2> QED
    BY <1>1, <1>3, <2>2, <2>3, RewrittenLayout
<1>7. CASE ArrangingFails(o)
  BY <1>1, <1>3, <1>7 DEF ArrangingFails, LayoutShape, RowsAre
<1> QED
  BY <1>5, <1>6, <1>7

LEMMA SeedersKeep ==
    ASSUME WidgetsInv, OneHost, NEW h \in Hosts,
           HostStarts(h) \/ LookForMarker(h) \/ SeedPlaces(h) \/ SeedMarks(h) \/ SeedFails(h) \/ HostEnds(h)
    PROVE  WidgetsInv'
<1> USE DEF WidgetsInv
<1> DEFINE Steps == [at : {"down", "up"}] \cup [at : {"look", "place", "mark"}, seed : 1..2, blind : BOOLEAN]
<1>0. Len(Seeds) = 2 /\ \A i \in 1..2 : Seeds[i] \in {"widgets", "poll"}
  BY DEF Seeds
<1>1. \A i \in 1..2 : UpAfter(i) \in Steps /\ UpAfter(i).at # "place"
  BY <1>0 DEF UpAfter, Seeder
<1>2. seeding[h].at \in {"look", "place", "mark"} => seeding[h] \in [at : {"look", "place", "mark"}, seed : 1..2, blind : BOOLEAN]
  BY DEF SeedersShape
<1>3. ASSUME NEW step \in Steps, BootSeeds(h, step), seeded' \subseteq {"widgets", "poll"}, offered' \subseteq Slugs,
             widgetMishaps' \in Nat, step.at = "place" => step.blind \/ Seeds[step.seed] \notin seeded'
      PROVE  SeedersShape' /\ UnmarkedIsPlaced'
  BY <1>3 DEF BootSeeds, SeedersShape, UnmarkedIsPlaced, OneHost
<1>4. SeedersShape' /\ UnmarkedIsPlaced'
  <2> USE DEF SeedersShape
  <2>1. CASE HostStarts(h)
    <3>1. BootSeeds(h, Seeder(1)) /\ Seeder(1) \in Steps /\ Seeder(1).at # "place"
      BY <2>1 DEF HostStarts, Seeder
    <3>2. offered' \subseteq Slugs
      BY <2>1, WidgetsAssumption DEF HostStarts, Slugs
    <3> QED
      BY <1>3, <2>1, <3>1, <3>2 DEF HostStarts
  <2>2. CASE LookForMarker(h)
    <3> DEFINE i == seeding[h].seed
               blind == [seeding[h] EXCEPT !.at = "place", !.blind = TRUE]
               plain == [seeding[h] EXCEPT !.at = "place"]
    <3>1. UNCHANGED <<seeded, offered>> /\ widgetMishaps' \in Nat /\ i \in 1..2
      BY <1>2, <2>2 DEF LookForMarker
    <3>2. \/ BootSeeds(h, UpAfter(i))
          \/ BootSeeds(h, plain) /\ Seeds[i] \notin seeded
          \/ BootSeeds(h, blind)
      BY <2>2 DEF LookForMarker
    <3>3. plain \in Steps /\ plain.seed = i /\ blind \in Steps /\ blind.blind = TRUE
      BY <1>2, <2>2 DEF LookForMarker
    <3> HIDE DEF plain, blind
    <3> QED
      BY <1>1, <1>3, <3>1, <3>2, <3>3
  <2>3. CASE SeedPlaces(h)
    <3> DEFINE step == [seeding[h] EXCEPT !.at = "mark"]
    <3>1. step \in Steps /\ step.at # "place" /\ BootSeeds(h, step)
      BY <1>2, <2>3 DEF SeedPlaces
    <3> HIDE DEF step
    <3> QED
      BY <1>3, <2>3, <3>1 DEF SeedPlaces
  <2>4. CASE SeedMarks(h)
    <3>1. seeding[h].seed \in 1..2
      BY <1>2, <2>4 DEF SeedMarks
    <3> QED
      BY <1>0, <1>1, <1>3, <2>4, <3>1 DEF SeedMarks
  <2>5. CASE SeedFails(h)
    <3>1. seeding[h].seed \in 1..2
      BY <1>2, <2>5 DEF SeedFails
    <3> QED
      BY <1>1, <1>3, <2>5, <3>1 DEF SeedFails
  <2>6. CASE HostEnds(h)
    <3>1. [at |-> "down"] \in Steps
      OBVIOUS
    <3> QED
      BY <1>3, <2>6, <3>1 DEF HostEnds
  <2> QED
    BY <2>1, <2>2, <2>3, <2>4, <2>5, <2>6
<1>5. EditsShape'
  <2>1. arranging' = arranging \/ arranging' = [o \in Arrangers |-> NotArranging]
    BY DEF HostStarts, LookForMarker, SeedPlaces, SeedMarks, SeedFails, HostEnds
  <2> QED
    BY <2>1 DEF EditsShape, NotArranging, IsPlacing, IsMove, Injected
<1>6. LayoutShape'
  <2>1. CASE UNCHANGED placements
    BY <2>1 DEF LayoutShape, RowsAre
  <2>2. ASSUME NEW seed, SeedRegion(seed) \in Regions,
               Rewrite(SeedRegion(seed), SeedPlacements(placements[SeedRegion(seed)], SeedRows(seed)))
        PROVE  LayoutShape'
    BY <2>2, SeededRows, RewrittenLayout DEF LayoutShape
  <2> QED
    BY <2>1, <2>2 DEF HostStarts, LookForMarker, SeedPlaces, SeedMarks, SeedFails, HostEnds
<1> QED
  BY <1>4, <1>5, <1>6

LEMMA WidgetsInductive == OneHost /\ WidgetsInv /\ [WidgetsNext]_widgetVars => WidgetsInv'
<1> SUFFICES ASSUME OneHost, WidgetsInv, [WidgetsNext]_widgetVars  PROVE WidgetsInv'
  OBVIOUS
<1>1. CASE UNCHANGED widgetVars
  BY <1>1 DEF widgetVars, WidgetsInv, LayoutShape, RowsAre, EditsShape, NotArranging, IsPlacing, IsMove, Injected,
              SeedersShape, UnmarkedIsPlaced
<1> QED
  BY <1>1, EditsKeepLayouts, MovesStart, EditsEnd, SeedersKeep DEF WidgetsNext

-----------------------------------------------------------------------------
LEMMA CommittedMoves ==
    ASSUME WidgetsInv, [WidgetsNext]_widgetVars, NEW o \in Arrangers, NEW path,
           arranging[o].at = "move", arranging'[o].at = "idle", widgetMishaps' = widgetMishaps
    PROVE  LET act == arranging[o]
           IN  ~DrawnBefore(placements'[act.region], path, act.order[act.top + 1], act.order[act.top])
<1> DEFINE act == arranging[o]
<1>1. widgetMishaps \in Nat
  BY DEF WidgetsInv, SeedersShape
<1>2. MoveWidgetCommits(o)
  <2>1. arranging' # arranging
    OBVIOUS
  <2>2. ASSUME NEW h \in Hosts  PROVE ~HostEnds(h)
    BY <1>1 DEF HostEnds
  <2>3. PICK x \in Arrangers :
           \/ \E r \in Regions, s \in Slugs : PlaceWidget(x, r, s)
           \/ \E r \in Regions : MoveWidget(x, r)
           \/ PlaceWidgetInserts(x) \/ MoveWidgetCommits(x)
    <3>1. ASSUME NEW h \in Hosts,
                 HostStarts(h) \/ LookForMarker(h) \/ SeedPlaces(h) \/ SeedMarks(h) \/ SeedFails(h)
          PROVE  FALSE
      BY <2>1, <3>1 DEF HostStarts, LookForMarker, SeedPlaces, SeedMarks, SeedFails
    <3>2. ASSUME NEW x \in Arrangers, NEW r \in Regions, NEW s \in Slugs,
                 RemoveWidget(x, r, s) \/ ToggleWidget(x, r, s) \/ SetWidgetPages(x, r, s)
          PROVE  FALSE
      BY <2>1, <3>2 DEF RemoveWidget, ToggleWidget, SetWidgetPages
    <3>3. ASSUME NEW x \in Arrangers  PROVE ~ArrangingFails(x)
      BY <1>1 DEF ArrangingFails
    <3>4. WidgetsNext
      BY <2>1 DEF widgetVars
    <3> QED
      BY <2>2, <3>1, <3>2, <3>3, <3>4 DEF WidgetsNext
  <2>4. \E new : Arrange(x, new)
    BY <2>3 DEF PlaceWidget, MoveWidget, PlaceWidgetInserts, MoveWidgetCommits
  <2>5. x = o
    BY <2>4 DEF Arrange, WidgetsInv, EditsShape
  <2> QED
    BY <2>3, <2>5 DEF PlaceWidget, MoveWidget, PlaceWidgetInserts, Unengaged
<1>3. IsMove(act)
  BY DEF WidgetsInv, EditsShape, NotArranging, IsPlacing
<1>4. placements'[act.region] = ReorderWidgets(placements[act.region], act.order)
  BY <1>2, <1>3 DEF MoveWidgetCommits, Rewrite, IsMove, WidgetsInv, LayoutShape
<1>5. RowsAre(placements[act.region])
  BY <1>3 DEF IsMove, WidgetsInv, LayoutShape
<1> HIDE DEF act
<1> QED
  BY <1>3, <1>4, <1>5, MovedIsBefore DEF act

LEMMA OnlyUnmarkedSeedersPutBack ==
    ASSUME WidgetsInv, [WidgetsNext]_widgetVars, NEW r \in Regions, NEW s \in Slugs,
           <<r, s>> \in taken', s \in DOMAIN placements'[r] \ DOMAIN placements[r]
    PROVE  \E h \in Hosts : /\ seeding[h].at = "place"
                            /\ seeding[h].blind \/ Seeds[seeding[h].seed] \notin seeded
<1>1. ASSUME NEW h \in Hosts, SeedPlaces(h)
      PROVE  seeding[h].at = "place" /\ (seeding[h].blind \/ Seeds[seeding[h].seed] \notin seeded)
  BY <1>1 DEF SeedPlaces, WidgetsInv, UnmarkedIsPlaced
<1>2. ASSUME NEW x \in Regions, NEW rows, Rewrite(x, rows)
      PROVE  \A y \in Regions : placements'[y] = IF y = x THEN rows ELSE placements[y]
  BY <1>2 DEF Rewrite, WidgetsInv, LayoutShape
<1>3. placements' # placements
  OBVIOUS
<1>4. ASSUME NEW o \in Arrangers, PlaceWidgetInserts(o)  PROVE FALSE
  <2> DEFINE act == arranging[o]
  <2>1. IsPlacing(act)
    BY <1>4 DEF PlaceWidgetInserts, WidgetsInv, EditsShape, NotArranging, IsMove
  <2>2. placements'[r] = IF r = act.region THEN Inserted(placements[act.region], act.slug, act.position) ELSE placements[r]
    BY <1>2, <1>4, <2>1 DEF PlaceWidgetInserts, IsPlacing
  <2>3. r = act.region /\ s = act.slug
    BY <2>2 DEF Inserted
  <2> QED
    BY <1>4, <2>3 DEF PlaceWidgetInserts
<1>5. ASSUME NEW o \in Arrangers, NEW x \in Regions, NEW t \in Slugs,
             RemoveWidget(o, x, t) \/ ToggleWidget(o, x, t) \/ SetWidgetPages(o, x, t)
      PROVE  DOMAIN placements'[r] \subseteq DOMAIN placements[r]
  <2>1. \E rows : Rewrite(x, rows) /\ DOMAIN rows \subseteq DOMAIN placements[x]
    <3>1. CASE RemoveWidget(o, x, t)
      BY <3>1 DEF RemoveWidget
    <3>2. CASE ToggleWidget(o, x, t)
      <4>1. DOMAIN [placements[x] EXCEPT ![t].enabled = ~@] = DOMAIN placements[x]
        OBVIOUS
      <4> QED
        BY <3>2, <4>1, Zenon DEF ToggleWidget
    <3>3. CASE SetWidgetPages(o, x, t)
      BY <3>3 DEF SetWidgetPages
    <3> QED
      BY <1>5, <3>1, <3>2, <3>3
  <2> QED
    BY <1>2, <2>1
<1>6. ASSUME NEW o \in Arrangers, MoveWidgetCommits(o)
      PROVE  DOMAIN placements'[r] \subseteq DOMAIN placements[r]
  <2> DEFINE act == arranging[o]
  <2>1. act.region \in Regions
    BY <1>6 DEF MoveWidgetCommits, WidgetsInv, EditsShape, NotArranging, IsPlacing, IsMove
  <2>2. Rewrite(act.region, ReorderWidgets(placements[act.region], act.order))
    BY <1>6 DEF MoveWidgetCommits
  <2>3. DOMAIN ReorderWidgets(placements[act.region], act.order) = DOMAIN placements[act.region]
    BY DEF ReorderWidgets
  <2> QED
    BY <1>2, <2>1, <2>2, <2>3
<1> QED
  BY <1>1, <1>3, <1>4, <1>5, <1>6
     DEF WidgetsNext, widgetVars, PlaceWidget, MoveWidget, ArrangingFails,
         HostStarts, LookForMarker, SeedMarks, SeedFails, HostEnds

\* For any regions, widgets and operators at work, and one process that boots, fails and is
\* killed: a move that goes through is drawn as it was asked for, on every page, and what an
\* operator took out no boot puts back once it can read its marker.
THEOREM LayoutIsKept == WidgetsSpec /\ []OneHost => LayoutIsTheOperators
<1>1. WidgetsInv /\ [WidgetsNext]_widgetVars =>
        [\A o \in Arrangers, path \in Viewed :
          (arranging[o].at = "move" /\ arranging'[o].at = "idle" /\ widgetMishaps' = widgetMishaps) =>
              LET act == arranging[o]
              IN  ~DrawnBefore(placements'[act.region], path, act.order[act.top + 1], act.order[act.top])]_widgetVars
  BY CommittedMoves
<1>2. WidgetsInv /\ [WidgetsNext]_widgetVars =>
        [\A r \in Regions, s \in Slugs :
          (<<r, s>> \in taken \cap taken' /\ s \in DOMAIN placements'[r] \ DOMAIN placements[r]) =>
              \E h \in Hosts :
                 /\ seeding[h].at = "place"
                 /\ seeding[h].blind \/ Seeds[seeding[h].seed] \notin seeded]_widgetVars
  BY OnlyUnmarkedSeedersPutBack
<1> QED
  BY <1>1, <1>2, WidgetsInitially, WidgetsInductive, PTL
     DEF WidgetsSpec, LayoutIsTheOperators, MovesAreSeen, RemovedStays

-----------------------------------------------------------------------------
(***************************************************************************)
(* What a boot plants, for any releases, shares, statements that fail and  *)
(* processes that end, of a site that one process seeds: a second may have *)
(* looked at a table before an operator filled and trimmed it.             *)
(*                                                                         *)
(* A row that was taken out comes back by the statement of a seeder, and   *)
(* that went by an empty table: so while anything taken out is held        *)
(* against a table, the table has rows (HeldRows), and no statement names  *)
(* a table of an operator that is not its seeder's (ScriptsAreRight).      *)
(***************************************************************************)
Editable == {"categories", "ranks", "items", "news", "torrents"}
OnePlanter == \A g, h \in Planters : g = h

OwnTable(i, stmt) ==
    stmt.table = SeedOrder[i] \/ stmt.table \notin Editable \cup {"users", "achievements"}

LEMMA ForumScript ==
    /\ 1 \in DOMAIN ForumSeed /\ DOMAIN ForumSeed \subseteq Nat
    /\ \A n \in DOMAIN ForumSeed : OwnTable(2, ForumSeed[n])
<1> DEFINE one == SeedThread("General", 7)
           two == SeedThread("Off Topic", Stop)
           head == <<Stmt("categories", {"General", "Off Topic"}, {}, Stop),
                     Stmt("none", {}, {<<"users", "alice">>, <<"users", "bob">>}, Stop)>>
           start == head \o one
           S == {head[1], head[2], one[1], one[2], one[3], one[4], two[1], two[2], two[3], two[4]}
<1>1. ForumSeed = start \o SubSeq(two, 1, 2)
  BY DEF ForumSeed
<1>2. /\ one \in Seq(S) /\ Len(one) = 4
      /\ two \in Seq(S) /\ Len(two) = 4
      /\ head \in Seq(S) /\ Len(head) = 2
  BY DEF SeedThread
<1>3. \A s \in S : OwnTable(2, s)
  <2>1. OwnTable(2, head[1]) /\ OwnTable(2, head[2])
    BY DEF Stmt, OwnTable, SeedOrder, Editable
  <2>2. ASSUME NEW cat, NEW next, NEW i \in 1 .. 4
        PROVE  OwnTable(2, SeedThread(cat, next)[i])
    BY DEF SeedThread, Stmt, OwnTable, Editable
  <2>3. \A i \in 1 .. 4 : OwnTable(2, one[i]) /\ OwnTable(2, two[i])
    BY <2>2
  <2> HIDE DEF one, two, head
  <2> QED
    BY <2>1, <2>3
<1>4. \A i \in 1 .. 2 : two[i] \in S
  <2>1. two[1] \in S /\ two[2] \in S
    OBVIOUS
  <2> HIDE DEF two, S
  <2> QED
    BY <2>1
<1> HIDE DEF one, two, head, S
<1>5. SubSeq(two, 1, 2) \in Seq(S)
  BY <1>4, SubSeqProperties
<1>6. start \in Seq(S) /\ Len(start) = Len(head) + Len(one)
  <2>1. head \in Seq(S) /\ one \in Seq(S)
    BY <1>2
  <2> QED
    BY <2>1, ConcatProperties
<1> HIDE DEF start
<1>7. Len(start) \in Nat \ {0}
  BY <1>2, <1>6
<1>8. ForumSeed \in Seq(S) /\ Len(ForumSeed) = Len(start) + Len(SubSeq(two, 1, 2))
  <2>1. start \in Seq(S)
    BY <1>6
  <2> QED
    BY <1>1, <1>5, <2>1, ConcatProperties
<1>9. Len(ForumSeed) \in Nat \ {0}
  <2>1. Len(SubSeq(two, 1, 2)) \in Nat
    BY <1>5, LenProperties
  <2> QED
    BY <1>7, <1>8, <2>1
<1> QED
  BY <1>3, <1>8, <1>9

LEMMA AchievementScript ==
    LET slug(n) == IF n <= 3 THEN "first-post" ELSE "familiar-face"
    IN  /\ DOMAIN AchievementsSeed = 1 .. 7
        /\ \A n \in {1, 4} : AchievementsSeed[n] = Stmt("rewards", {slug(n)}, {}, Stop)
        /\ \A n \in {2, 5} : AchievementsSeed[n] = Stmt("payouts", {slug(n)}, {<<"rewards", slug(n)>>}, Stop)
        /\ \A n \in {3, 6} : AchievementsSeed[n] = Stmt("achievements", {slug(n)}, {}, Stop)
        /\ AchievementsSeed[7] = Stmt("texts", {"first-post"}, {}, Stop)
<1> DEFINE a == AchievementDef("first-post")
           b == AchievementDef("familiar-face")
           c == <<Stmt("texts", {"first-post"}, {}, Stop)>>
           ab == a \o b
           S == {a[1], a[2], a[3], b[1], b[2], b[3], c[1]}
<1>1. /\ a \in Seq(S) /\ Len(a) = 3
      /\ b \in Seq(S) /\ Len(b) = 3
      /\ c \in Seq(S) /\ Len(c) = 1
  BY DEF AchievementDef
<1>2. /\ a[1] = Stmt("rewards", {"first-post"}, {}, Stop)
      /\ a[2] = Stmt("payouts", {"first-post"}, {<<"rewards", "first-post">>}, Stop)
      /\ a[3] = Stmt("achievements", {"first-post"}, {}, Stop)
      /\ b[1] = Stmt("rewards", {"familiar-face"}, {}, Stop)
      /\ b[2] = Stmt("payouts", {"familiar-face"}, {<<"rewards", "familiar-face">>}, Stop)
      /\ b[3] = Stmt("achievements", {"familiar-face"}, {}, Stop)
      /\ c[1] = Stmt("texts", {"first-post"}, {}, Stop)
  BY DEF AchievementDef
<1>3. AchievementsSeed = ab \o c
  BY DEF AchievementsSeed
<1> HIDE DEF a, b, c, S
<1>4. /\ ab \in Seq(S) /\ Len(ab) = Len(a) + Len(b)
      /\ \A i \in 1 .. Len(a) + Len(b) : ab[i] = IF i <= Len(a) THEN a[i] ELSE b[i - Len(a)]
  <2>1. a \in Seq(S) /\ b \in Seq(S)
    BY <1>1
  <2> QED
    BY <2>1, ConcatProperties
<1> HIDE DEF ab
<1>5. /\ AchievementsSeed \in Seq(S) /\ Len(AchievementsSeed) = Len(ab) + Len(c)
      /\ \A i \in 1 .. Len(ab) + Len(c) : AchievementsSeed[i] = IF i <= Len(ab) THEN ab[i] ELSE c[i - Len(ab)]
  <2>1. ab \in Seq(S) /\ c \in Seq(S)
    BY <1>1, <1>4
  <2> QED
    BY <1>3, <2>1, ConcatProperties
<1>6. DOMAIN AchievementsSeed = 1 .. 7
  BY <1>1, <1>4, <1>5
<1>7. /\ AchievementsSeed[1] = a[1] /\ AchievementsSeed[2] = a[2] /\ AchievementsSeed[3] = a[3]
      /\ AchievementsSeed[4] = b[1] /\ AchievementsSeed[5] = b[2] /\ AchievementsSeed[6] = b[3]
      /\ AchievementsSeed[7] = c[1]
  BY <1>1, <1>4, <1>5
<1> QED
  BY <1>2, <1>6, <1>7

\* The accounting is in tables no operator edits here, whatever there is to account for.
LEMMA AccountingScript ==
  ASSUME NEW members, NEW made \in Seq(STRING)
  PROVE  /\ 1 \in DOMAIN TrackerStatsSeed(members, made) /\ DOMAIN TrackerStatsSeed(members, made) \subseteq Nat
         /\ \A n \in DOMAIN TrackerStatsSeed(members, made) : TrackerStatsSeed(members, made)[n].table \in {"none", "stats", "swarms"}
<1> DEFINE has == {mi \in (DOMAIN members \cap DOMAIN Shares) \X DOMAIN made :
                   Shares[mi[1]].from < mi[2] /\ mi[2] <= Shares[mi[1]].from + Shares[mi[1]].take}
           before(x, y) == x[1] < y[1] \/ (x[1] = y[1] /\ x[2] <= y[2])
           nth(n) == CHOOSE mi \in has : Cardinality({x \in has : before(x, mi)}) = n
           mid == [n \in 1..Cardinality(has) |->
               Stmt("stats", {<<members[nth(n)[1]], made[nth(n)[2]], Picks[nth(n)[2]]>>}, {}, n + 2)]
           first == Stmt("none", {}, {}, Stop)
           last == Stmt("swarms", {"counted"}, {}, Stop)
           S == {first, last} \cup {mid[n] : n \in 1 .. Cardinality(has)}
<1>1. TrackerStatsSeed(members, made) = (<<first>> \o mid) \o <<last>>
  BY DEF TrackerStatsSeed
<1>2. Cardinality(has) \in Nat
  <2>1. IsFiniteSet(DOMAIN Shares) /\ IsFiniteSet(DOMAIN made)
    BY DemoSeedsAssumption, LenProperties, FS_Interval
  <2>2. IsFiniteSet((DOMAIN Shares) \X (DOMAIN made))
    BY <2>1, FS_Product
  <2>3. has \subseteq (DOMAIN Shares) \X (DOMAIN made)
    OBVIOUS
  <2> QED
    BY <2>2, <2>3, FS_Subset, FS_CardinalityType
<1>3. \A s \in S : s.table \in {"none", "stats", "swarms"}
  <2>1. first.table = "none" /\ last.table = "swarms"
    BY DEF Stmt
  <2>2. \A n \in 1 .. Cardinality(has) : mid[n].table = "stats"
    BY DEF Stmt
  <2> HIDE DEF first, last, mid
  <2> QED
    BY <2>1, <2>2
<1>4. mid \in Seq(S) /\ <<first>> \in Seq(S) /\ Len(<<first>>) = 1 /\ <<last>> \in Seq(S)
  <2> DEFINE C == Cardinality(has)
  <2>1. C \in Nat
    BY <1>2
  <2>2. mid = [n \in 1 .. C |-> mid[n]]
    OBVIOUS
  <2>3. first \in S /\ last \in S /\ \A n \in 1 .. C : mid[n] \in S
    OBVIOUS
  <2> HIDE DEF C, mid, S, first, last
  <2>4. mid \in Seq(S)
    BY <2>1, <2>2, <2>3
  <2> QED
    BY <2>3, <2>4
<1> HIDE DEF has, mid, first, last, S
<1>5. <<first>> \o mid \in Seq(S) /\ Len(<<first>> \o mid) \in Nat \ {0}
  BY <1>4, ConcatProperties, LenProperties
<1>6. TrackerStatsSeed(members, made) \in Seq(S) /\ Len(TrackerStatsSeed(members, made)) \in Nat \ {0}
  BY <1>1, <1>4, <1>5, ConcatProperties, LenProperties
<1> QED
  BY <1>3, <1>6, LenProperties, ElementOfSeq

LEMMA TorrentScript ==
    /\ DOMAIN TrackerSeed = DOMAIN Picks
    /\ \A n \in DOMAIN TrackerSeed : TrackerSeed[n] = Stmt("torrents", {Picks[n]}, {}, n + 1)
  BY DEF TrackerSeed

\* The script of each seeder has a statement, and names no table of an operator but its own.
LEMMA ScriptsAreRight ==
  ASSUME NEW i \in 1 .. 8
  PROVE  /\ (i = 8 => Picks # << >>) => 1 \in DOMAIN Scripts[i]
         /\ DOMAIN Scripts[i] \subseteq Nat
         /\ \A n \in DOMAIN Scripts[i] :
               IF i = 6 THEN Scripts[i][n].table = "items" /\ Scripts[i][n].keys \subseteq CreditItems
               ELSE OwnTable(i, Scripts[i][n])
<1> USE DEF Scripts
<1>1. CASE i = 1
  BY <1>1 DEF SeedDemoUsers, OwnTable, Stmt, Editable, SeedOrder
<1>2. CASE i = 2
  BY <1>2, ForumScript
<1>3. CASE i = 3
  <2>1. \A n \in 1 .. 7 : AchievementsSeed[n].table \in {"rewards", "payouts", "achievements", "texts"}
    BY AchievementScript DEF Stmt
  <2>2. DOMAIN AchievementsSeed = 1 .. 7 /\ Scripts[i] = AchievementsSeed
    BY <1>3, AchievementScript
  <2> QED
    BY <1>3, <2>1, <2>2 DEF OwnTable, Editable, SeedOrder
<1>4. CASE i = 4
  BY <1>4 DEF RanksSeed, OwnTable, Stmt, Editable, SeedOrder
<1>5. CASE i = 5
  <2>1. Scripts[i] = StoreSeed
    BY <1>5
  <2>2. DOMAIN StoreSeed = 1 .. 5
    BY DEF StoreSeed
  <2>3. /\ StoreSeed[1].table = "items" /\ StoreSeed[2].table = "items" /\ StoreSeed[3].table = "items"
        /\ StoreSeed[4].table = "items" /\ StoreSeed[5].table = "items"
    BY DEF StoreSeed, Stmt
  <2> QED
    BY <1>5, <2>1, <2>2, <2>3 DEF OwnTable, SeedOrder
<1>6. CASE i = 6
  <2>1. Scripts[i] = StoreCreditItems
    BY <1>6
  <2>2. DOMAIN StoreCreditItems = 1 .. 2
    BY DEF StoreCreditItems
  <2>4. StoreCreditItems[1].table = "items" /\ StoreCreditItems[2].table = "items"
    BY DEF StoreCreditItems, Stmt
  <2>3. \A n \in DOMAIN StoreCreditItems : StoreCreditItems[n].keys \subseteq CreditItems
    BY DEF CreditItems
  <2> QED
    BY <1>6, <2>1, <2>2, <2>3, <2>4
<1>7. CASE i = 7
  BY <1>7 DEF NewsSeed, OwnTable, Stmt, Editable, SeedOrder
<1>8. CASE i = 8
  <2>1. Scripts[i] = TrackerSeed
    BY <1>8
  <2>2. DOMAIN Picks \subseteq Nat /\ (Picks # << >> => 1 \in DOMAIN Picks)
    BY DemoSeedsAssumption
  <2> QED
    BY <1>8, <2>1, <2>2, TorrentScript DEF OwnTable, Stmt, SeedOrder
<1> QED
  BY <1>1, <1>2, <1>3, <1>4, <1>5, <1>6, <1>7, <1>8

-----------------------------------------------------------------------------
Where == [at : {"down", "look", "write", "up"}, seeder : 0 .. 9, stmt : Nat, made : Seq(STRING)]

\* What the achievement's statement needs is there when its turn comes.
Readied(stmt) ==
    /\ stmt \in {2, 3} => Has("rewards", "first-post")
    /\ stmt = 3 => Has("payouts", "first-post")
    /\ stmt \in {5, 6} => Has("rewards", "familiar-face")
    /\ stmt = 6 => Has("payouts", "familiar-face")

AtWork(p) ==
    /\ p.at \in {"look", "write"} => p.seeder \in 1 .. 9
    /\ p.at = "write" => /\ p.stmt \in DOMAIN Statements(p)
                         /\ \A gone \in uprooted : gone[1] # SeedOrder[p.seeder]
                         /\ p.seeder = 3 => Readied(p.stmt)

PlanterShape == planting \in [Planters -> Where]
HeldRows == \A gone \in uprooted : gone[1] \in Trimmed /\ In(gone[1]) # {}
PlantInv == PlanterShape /\ HeldRows /\ (\A h \in Planters : AtWork(planting[h])) /\ Payable

LEMMA PlantInitially == PlantInit => PlantInv
  BY EmptySeq DEF PlantInit, PlantInv, PlanterShape, Where, HeldRows, AtWork, Payable, In

\* Where a seeder that is done or put off goes: to the next one's look, or up.
LEMMA NextSeeder ==
  ASSUME NEW i \in 1 .. 10, NEW made \in Seq(STRING)
  PROVE  /\ SeederFrom(i, made) \in Where
         /\ SeederFrom(i, made).at = IF i = 10 THEN "up" ELSE "look"
         /\ i # 10 => SeederFrom(i, made).seeder = i
  BY EmptySeq DEF SeederFrom, SeedOrder, Where

LEMMA SeederPutOff ==
  ASSUME NEW i \in 1 .. 10
  PROVE  \E where \in Where : /\ where = SeederFrom(i, << >>) /\ where.at # "write"
                              /\ where.at = "look" => where.seeder \in 1 .. 9
<1>1. /\ i = 10 => SeederFrom(i, << >>) = [at |-> "up", seeder |-> 0, stmt |-> 0, made |-> << >>]
      /\ i # 10 => SeederFrom(i, << >>) = [at |-> "look", seeder |-> i, stmt |-> 0, made |-> << >>]
  BY DEF SeederFrom, SeedOrder
<1>2. /\ [at |-> "up", seeder |-> 0, stmt |-> 0, made |-> << >>] \in Where
      /\ i # 10 => [at |-> "look", seeder |-> i, stmt |-> 0, made |-> << >>] \in Where
  BY DEF Where
<1> QED
  BY <1>1, <1>2

\* The statements of a place go by its seeder, and by the accounts for the accounting only.
LEMMA SameStatements ==
  ASSUME NEW h \in Planters, planting[h].seeder \in 1 .. 9, planting'[h].seeder = planting[h].seeder,
         planting[h].seeder = 9 => planting'[h].made = planting[h].made /\ In("users")' = In("users")
  PROVE  Statements(planting[h])' = Statements(planting[h])
<1>1. CASE planting[h].seeder = 9
  <2>1. Members' = Members
    BY <1>1 DEF Members
  <2> QED
    BY <1>1, <2>1 DEF Statements
<1>2. CASE planting[h].seeder # 9
  BY <1>2 DEF Statements
<1> QED
  BY <1>1, <1>2

\* Statements of a place are right by its seeder's script.
LEMMA StatementsAreRight ==
  ASSUME NEW h \in Planters, planting[h] \in Where, planting[h].seeder \in 1 .. 9,
         NEW n \in DOMAIN Statements(planting[h])
  PROVE  LET s == Statements(planting[h])[n]
         IN  /\ n \in Nat
             /\ IF planting[h].seeder = 6 THEN s.table = "items" /\ s.keys \subseteq CreditItems
                ELSE OwnTable(planting[h].seeder, s)
<1>1. CASE planting[h].seeder = 9
  <2>1. planting[h].made \in Seq(STRING)
    BY DEF Where
  <2>2. Statements(planting[h]) = TrackerStatsSeed(Members, planting[h].made)
    BY <1>1 DEF Statements
  <2>3. Statements(planting[h])[n].table \in {"none", "stats", "swarms"}
    BY <2>1, <2>2, AccountingScript
  <2>4. n \in Nat
    BY <2>1, <2>2, AccountingScript
  <2> QED
    BY <1>1, <2>3, <2>4 DEF OwnTable, Editable
<1>2. CASE planting[h].seeder # 9
  BY <1>2, ScriptsAreRight DEF Statements
<1> QED
  BY <1>1, <1>2

\* The first statement of a seeder that found its table empty.
LEMMA FirstStatement ==
  ASSUME NEW h \in Planters, planting[h] \in Where, planting[h].seeder \in 1 .. 9,
         planting[h].seeder = 8 => Picks # << >>
  PROVE  1 \in DOMAIN Statements(planting[h])
<1>1. CASE planting[h].seeder = 9
  <2>1. planting[h].made \in Seq(STRING)
    BY DEF Where
  <2> QED
    BY <1>1, <2>1, AccountingScript DEF Statements
<1>2. CASE planting[h].seeder # 9
  BY <1>2, ScriptsAreRight DEF Statements
<1> QED
  BY <1>1, <1>2

-----------------------------------------------------------------------------
\* A seeder that goes on is at a statement of its own, or at the next one's look.
LEMMA GoingOn ==
  ASSUME OnePlanter, PlantInv, UNCHANGED uprooted,
         NEW h \in Planters, planting[h].at = "write",
         NEW stmt, NEW made \in Seq(STRING), GoesOn(h, stmt, made),
         planting[h].seeder = 9 => made = planting[h].made /\ In("users")' = In("users"),
         planting[h].seeder = 3 /\ stmt \in 1 .. 7 => Readied(stmt)'
  PROVE  PlanterShape' /\ \A g \in Planters : AtWork(planting[g])'
<1>1. planting \in [Planters -> Where] /\ planting[h] \in Where /\ AtWork(planting[h])
  BY DEF PlantInv, PlanterShape
<1>2. planting[h].seeder \in 1 .. 9
  BY <1>1 DEF AtWork
<1>3. CASE stmt \notin DOMAIN Statements(planting[h])
  <2>1. planting' = [planting EXCEPT ![h] = SeederFrom(planting[h].seeder + 1, made)]
    BY <1>3 DEF GoesOn, Goes
  <2>2. SeederFrom(planting[h].seeder + 1, made) \in Where
    BY <1>2, NextSeeder
  <2>3. PlanterShape'
    BY <1>1, <2>1, <2>2 DEF PlanterShape
  <2>4. planting'[h].at # "write" /\ (planting'[h].at = "look" => planting'[h].seeder \in 1 .. 9)
    BY <1>1, <1>2, <2>1, NextSeeder
  <2> QED
    BY <2>3, <2>4 DEF AtWork, OnePlanter
<1>4. CASE stmt \in DOMAIN Statements(planting[h])
  <2>1. planting' = [planting EXCEPT ![h] = [planting[h] EXCEPT !.stmt = stmt, !.made = made]]
    BY <1>4 DEF GoesOn, Goes
  <2>2. stmt \in Nat
    BY <1>1, <1>2, <1>4, StatementsAreRight
  <2>3. [planting[h] EXCEPT !.stmt = stmt, !.made = made] \in Where
    BY <1>1, <2>2 DEF Where
  <2>4. PlanterShape'
    BY <1>1, <2>1, <2>3 DEF PlanterShape
  <2>5. /\ planting'[h].at = "write" /\ planting'[h].stmt = stmt /\ planting'[h].made = made
        /\ planting'[h].seeder = planting[h].seeder
    BY <1>1, <2>1 DEF Where
  <2>6. Statements(planting[h])' = Statements(planting[h])
    BY <1>2, <2>5, SameStatements
  <2>7. planting[h].seeder = 3 => stmt \in 1 .. 7
    BY <1>4, AchievementScript DEF Statements, Scripts
  <2>8. AtWork(planting[h])'
    BY <1>1, <1>2, <1>4, <2>5, <2>6, <2>7 DEF AtWork
  <2> QED
    BY <2>4, <2>8 DEF OnePlanter
<1> QED
  BY <1>3, <1>4

\* What a statement puts in, and that nothing is taken out with it.
LEMMA WrittenRows ==
  ASSUME NEW h \in Planters, Write(h)
  PROVE  /\ planted \subseteq planted'
         /\ \A row \in planted' \ planted : row[1] = Now(h).table /\ row[2] \in Now(h).keys
         /\ \A t, name : Has(t, name) => Has(t, name)'
         /\ \A t : In(t) \subseteq In(t)'
         /\ \A t : t # Now(h).table => In(t)' = In(t)
<1>1. planted' = planted \/ planted' = Put(Now(h), SeedOrder[planting[h].seeder] \in ByName)
  BY DEF Write
<1>2. /\ planted \subseteq planted'
      /\ \A row \in planted' \ planted : row[1] = Now(h).table /\ row[2] \in Now(h).keys
  BY <1>1 DEF Put
<1> QED
  BY <1>2 DEF Has, In

LEMMA PutsItsKeys ==
  ASSUME NEW s, s.table \notin Keyless, NEW byName, planted' = Put(s, byName)
  PROVE  \A name \in s.keys : Has(s.table, name)'
<1> SUFFICES ASSUME NEW name \in s.keys  PROVE Has(s.table, name)'
  OBVIOUS
<1>1. CASE Has(s.table, name)
  BY <1>1 DEF Put, Has
<1>2. CASE ~Has(s.table, name)
  <2>1. <<s.table, name, NextNumber(s.table)>> \in planted'
    BY <1>2 DEF Put
  <2> QED
    BY <2>1 DEF Has
<1> QED
  BY <1>1, <1>2

LEMMA AtAStatement ==
  ASSUME PlantInv, NEW h \in Planters, planting[h].at = "write"
  PROVE  /\ planting[h] \in Where /\ planting[h].seeder \in 1 .. 9 /\ planting[h].stmt \in Nat
         /\ planting[h].stmt \in DOMAIN Statements(planting[h])
         /\ IF planting[h].seeder = 6 THEN Now(h).table = "items" /\ Now(h).keys \subseteq CreditItems
            ELSE OwnTable(planting[h].seeder, Now(h))
<1>1. planting[h] \in Where /\ AtWork(planting[h])
  BY DEF PlantInv, PlanterShape
<1>2. planting[h].seeder \in 1 .. 9 /\ planting[h].stmt \in DOMAIN Statements(planting[h])
  BY <1>1 DEF AtWork
<1> QED
  BY <1>1, <1>2, StatementsAreRight DEF Now

\* Where the seeder of the achievements is, and what its statement says.
LEMMA AtAnAchievement ==
  ASSUME PlantInv, NEW h \in Planters, planting[h].at = "write", planting[h].seeder = 3
  PROVE  LET n == planting[h].stmt
             slug == IF n <= 3 THEN "first-post" ELSE "familiar-face"
         IN  /\ n \in 1 .. 7
             /\ n \in {1, 4} => Now(h) = Stmt("rewards", {slug}, {}, Stop)
             /\ n \in {2, 5} => Now(h) = Stmt("payouts", {slug}, {<<"rewards", slug>>}, Stop)
             /\ n \in {3, 6} => Now(h) = Stmt("achievements", {slug}, {}, Stop)
             /\ n = 7 => Now(h) = Stmt("texts", {"first-post"}, {}, Stop)
<1>1. Statements(planting[h]) = AchievementsSeed
  BY DEF Statements, Scripts
<1>2. planting[h].stmt \in DOMAIN AchievementsSeed
  BY <1>1, AtAStatement
<1>3. Now(h) = AchievementsSeed[planting[h].stmt]
  BY <1>1 DEF Now
<1> QED
  BY <1>2, <1>3, AchievementScript

LEMMA WritesReady ==
  ASSUME PlantInv, NEW h \in Planters, Write(h), planting[h].seeder = 3,
         \A need \in Now(h).needs : Has(need[1], need[2]),
         NEW n, n = planting[h].stmt
  PROVE  Readied(n + 1)'
<1>1. planting[h].at = "write"
  BY DEF Write
<1>2. PICK slug : slug = IF n <= 3 THEN "first-post" ELSE "familiar-face"
  OBVIOUS
<1>3. /\ n \in 1 .. 7
      /\ n \in {1, 4} => Now(h) = Stmt("rewards", {slug}, {}, Stop)
      /\ n \in {2, 5} => Now(h) = Stmt("payouts", {slug}, {<<"rewards", slug>>}, Stop)
  BY <1>1, <1>2, AtAnAchievement
<1>4. Readied(n)
  BY <1>1 DEF PlantInv, AtWork
<1>5. CASE n \in {1, 4}
  <2>1. Now(h).table = "rewards" /\ Now(h).keys = {slug}
    BY <1>3, <1>5 DEF Stmt
  <2>2. planted' = Put(Now(h), SeedOrder[planting[h].seeder] \in ByName)
    BY <2>1 DEF Write
  <2>3. Has("rewards", slug)'
    BY <2>1, <2>2, PutsItsKeys DEF Keyless
  <2>4. (n = 1 /\ slug = "first-post") \/ (n = 4 /\ slug = "familiar-face")
    BY <1>2, <1>5
  <2> QED
    BY <2>3, <2>4 DEF Readied
<1>6. CASE n \in {2, 5}
  <2>1. Now(h).table = "payouts" /\ Now(h).keys = {slug}
    BY <1>3, <1>6 DEF Stmt
  <2>2. planted' = Put(Now(h), SeedOrder[planting[h].seeder] \in ByName)
    BY <2>1 DEF Write
  <2>3. Has("payouts", slug)'
    BY <2>1, <2>2, PutsItsKeys DEF Keyless
  <2>4. (n = 2 /\ slug = "first-post") \/ (n = 5 /\ slug = "familiar-face")
    BY <1>2, <1>6
  <2>5. Has("rewards", slug)
    BY <1>4, <2>4 DEF Readied
  <2>6. Has("rewards", slug)'
    BY <2>5, WrittenRows
  <2> QED
    BY <2>3, <2>4, <2>6 DEF Readied
<1>7. CASE n \in {3, 6, 7}
  <2>1. n + 1 \in {4, 7, 8}
    BY <1>7
  <2> QED
    BY <2>1 DEF Readied
<1> QED
  BY <1>3, <1>5, <1>6, <1>7

LEMMA WritesPay ==
  ASSUME PlantInv, NEW h \in Planters, Write(h)
  PROVE  Payable'
<1> SUFFICES ASSUME NEW row \in In("achievements")'
             PROVE  Has("rewards", row[2])' /\ Has("payouts", row[2])'
  BY DEF Payable
<1>1. CASE row \in In("achievements")
  BY <1>1, WrittenRows DEF PlantInv, Payable
<1>2. CASE row \notin In("achievements")
  <2>1. planting[h].at = "write" /\ row \in planted' \ planted /\ row[1] = "achievements"
    BY <1>2 DEF Write, In
  <2>2. Now(h).table = "achievements" /\ row[2] \in Now(h).keys
    BY <2>1, WrittenRows
  <2>3. planting[h].seeder = 3
    <3>1. planting[h].seeder \in 1 .. 9 /\ planting[h].seeder # 6
      BY <2>1, <2>2, AtAStatement
    <3>2. SeedOrder[planting[h].seeder] = "achievements"
      BY <2>1, <2>2, <3>1, AtAStatement DEF OwnTable
    <3> QED
      BY <3>1, <3>2 DEF SeedOrder
  <2>4. PICK n : n = planting[h].stmt
    OBVIOUS
  <2>5. PICK slug : slug = IF n <= 3 THEN "first-post" ELSE "familiar-face"
    OBVIOUS
  <2>6. n \in {3, 6} /\ Now(h).keys = {slug}
    BY <2>1, <2>2, <2>3, <2>4, <2>5, AtAnAchievement DEF Stmt
  <2>7. Readied(n)
    BY <2>1, <2>3, <2>4 DEF PlantInv, AtWork
  <2>8. row[2] = slug /\ Has("rewards", slug) /\ Has("payouts", slug)
    BY <2>2, <2>5, <2>6, <2>7 DEF Readied
  <2> QED
    BY <2>8, WrittenRows
<1> QED
  BY <1>1, <1>2

LEMMA WritesKeep ==
  ASSUME OnePlanter, PlantInv, NEW h \in Planters, Write(h)
  PROVE  PlantInv'
<1>1. /\ planting[h].at = "write" /\ UNCHANGED uprooted /\ planting[h] \in Where
      /\ planting[h].seeder \in 1 .. 9 /\ planting[h].stmt \in Nat
  BY AtAStatement DEF Write, OperatorsRest
<1>2. HeldRows'
  BY <1>1, WrittenRows DEF HeldRows, PlantInv
<1>3. planting[h].seeder = 9 => In("users")' = In("users") /\ Now(h).table # "torrents"
  BY <1>1, AtAStatement, WrittenRows DEF OwnTable, SeedOrder, Editable
<1>4. planting[h].made \in Seq(STRING)
  BY <1>1 DEF Where
<1>5. CASE \A need \in Now(h).needs : Has(need[1], need[2])
  <2> DEFINE made == IF Now(h).table = "torrents" THEN Append(planting[h].made, Picks[planting[h].stmt])
                     ELSE planting[h].made
  <2>1. GoesOn(h, planting[h].stmt + 1, made)
    BY <1>5 DEF Write
  <2>2. made \in Seq(STRING)
    <3>1. CASE Now(h).table = "torrents"
      <4>1. planting[h].seeder = 8
        BY <1>1, <3>1, AtAStatement DEF OwnTable, Editable, SeedOrder
      <4>2. planting[h].stmt \in DOMAIN Picks
        BY <1>1, <4>1, AtAStatement, TorrentScript DEF Statements, Scripts
      <4>3. Picks[planting[h].stmt] \in STRING
        BY <4>2, DemoSeedsAssumption
      <4> QED
        BY <1>4, <3>1, <4>3
    <3>2. CASE Now(h).table # "torrents"
      BY <1>4, <3>2
    <3> QED
      BY <3>1, <3>2
  <2>3. planting[h].seeder = 9 => made = planting[h].made
    BY <1>3
  <2> HIDE DEF made
  <2>4. PICK n : n = planting[h].stmt
    OBVIOUS
  <2>5. planting[h].seeder = 3 => Readied(n + 1)'
    BY <1>5, <2>4, WritesReady
  <2>6. PICK m \in Seq(STRING) : m = made
    BY <2>2
  <2>7. GoesOn(h, n + 1, m)
    BY <2>1, <2>4, <2>6
  <2>8. PlanterShape' /\ \A g \in Planters : AtWork(planting[g])'
    BY <1>1, <1>3, <2>3, <2>5, <2>6, <2>7, GoingOn
  <2> QED
    BY <1>2, <2>8, WritesPay DEF PlantInv
<1>6. CASE ~\A need \in Now(h).needs : Has(need[1], need[2])
  <2>1. GoesOn(h, Now(h).onError, planting[h].made)
    BY <1>6 DEF Write
  <2>2. PICK n, m : n = Now(h).onError /\ m = planting[h].made
    OBVIOUS
  <2>3. planting[h].seeder = 3 => n = 0
    BY <1>1, <2>2, AtAnAchievement DEF Stmt, Stop
  <2>4. PlanterShape' /\ \A g \in Planters : AtWork(planting[g])'
    BY <1>1, <1>3, <1>4, <2>1, <2>2, <2>3, GoingOn
  <2> QED
    BY <1>2, <2>4, WritesPay DEF PlantInv
<1> QED
  BY <1>5, <1>6

\* What leaves the rows and what operators did alone keeps the rest of the invariant.
LEMMA SameRows ==
  ASSUME PlantInv, UNCHANGED <<planted, uprooted>>, PlanterShape',
         \A g \in Planters : AtWork(planting[g])'
  PROVE  PlantInv'
  BY DEF PlantInv, HeldRows, Payable, In, Has

\* A place that is not at a statement: down, up, or at a seeder's look.
LEMMA Placed ==
  ASSUME OnePlanter, PlantInv, UNCHANGED <<planted, uprooted>>, NEW h \in Planters,
         NEW where \in Where, Goes(h, where), where.at # "write",
         where.at = "look" => where.seeder \in 1 .. 9
  PROVE  PlantInv'
<1>1. planting \in [Planters -> Where]
  BY DEF PlantInv, PlanterShape
<1>2. planting'[h] = where /\ planting' \in [Planters -> Where]
  BY <1>1 DEF Goes
<1>3. \A g \in Planters : AtWork(planting[g])'
  BY <1>2 DEF AtWork, OnePlanter
<1> QED
  BY <1>2, <1>3, SameRows DEF PlanterShape

LEMMA PutOffSeeders ==
  ASSUME OnePlanter, PlantInv, UNCHANGED <<planted, uprooted>>, NEW h \in Planters,
         NEW i \in 1 .. 10, Goes(h, SeederFrom(i, << >>))
  PROVE  PlantInv'
<1>1. PICK where \in Where : /\ where = SeederFrom(i, << >>) /\ where.at # "write"
                             /\ where.at = "look" => where.seeder \in 1 .. 9
  BY SeederPutOff
<1>2. Goes(h, where)
  BY <1>1
<1> QED
  BY <1>1, <1>2, Placed

LEMMA LooksKeep ==
  ASSUME Trimmed \subseteq Editable, OnePlanter, PlantInv, NEW h \in Planters, Look(h)
  PROVE  PlantInv'
<1>1. /\ planting \in [Planters -> Where] /\ planting[h] \in Where /\ planting[h].at = "look"
      /\ planting[h].seeder \in 1 .. 9 /\ UNCHANGED <<planted, uprooted>>
  BY DEF Look, PlantInv, PlanterShape, AtWork, OperatorsRest
<1>2. CASE Goes(h, SeederFrom(planting[h].seeder + 1, << >>))
  <2>1. PICK i \in 1 .. 10 : i = planting[h].seeder + 1
    BY <1>1
  <2> QED
    BY <1>1, <1>2, <2>1, PutOffSeeders
<1>3. CASE /\ Goes(h, [planting[h] EXCEPT !.at = "write", !.stmt = 1])
           /\ IF planting[h].seeder = 9 THEN planting[h].made # << >> ELSE Untouched(planting[h].seeder)
  <2>1. /\ planting' \in [Planters -> Where] /\ planting'[h].at = "write" /\ planting'[h].stmt = 1
        /\ planting'[h].seeder = planting[h].seeder /\ planting'[h].made = planting[h].made
    BY <1>1, <1>3 DEF Goes, Where
  <2>2. Statements(planting[h])' = Statements(planting[h])
    BY <1>1, <2>1, SameStatements DEF In
  <2>3. 1 \in DOMAIN Statements(planting[h])
    BY <1>1, <1>3, FirstStatement DEF Untouched, SeedOrder
  <2>4. ASSUME NEW gone \in uprooted, gone[1] = SeedOrder[planting[h].seeder]  PROVE FALSE
    <3>1. SeedOrder[planting[h].seeder] \in Editable /\ In(SeedOrder[planting[h].seeder]) # {}
      BY <2>4 DEF PlantInv, HeldRows
    <3>2. planting[h].seeder # 9
      BY <3>1 DEF SeedOrder, Editable
    <3> QED
      BY <1>3, <3>1, <3>2 DEF Untouched, ByName, Editable
  <2>5. AtWork(planting[h])'
    BY <1>1, <2>1, <2>2, <2>3, <2>4 DEF AtWork, Readied
  <2>6. \A g \in Planters : AtWork(planting[g])'
    BY <2>5 DEF OnePlanter
  <2> QED
    BY <1>1, <2>1, <2>6, SameRows DEF PlanterShape
<1> QED
  BY <1>2, <1>3 DEF Look

LEMMA MishapsKeep ==
  ASSUME OnePlanter, PlantInv, NEW h \in Planters, StartPlanting(h) \/ PlantingFails(h) \/ PlanterEnds(h)
  PROVE  PlantInv'
<1>1. UNCHANGED <<planted, uprooted>> /\ planting[h] \in Where
  BY DEF StartPlanting, PlantingFails, PlanterEnds, OperatorsRest, PlantInv, PlanterShape
<1>2. CASE planting[h].at = "write" /\ GoesOn(h, Now(h).onError, planting[h].made)
  <2>1. PICK n, m : n = Now(h).onError /\ m = planting[h].made /\ m \in Seq(STRING)
    BY <1>1 DEF Where
  <2>2. planting[h].seeder = 3 => n = 0
    BY <1>2, <2>1, AtAnAchievement DEF Stmt, Stop
  <2>3. PlanterShape' /\ \A g \in Planters : AtWork(planting[g])'
    BY <1>1, <1>2, <2>1, <2>2, GoingOn DEF In
  <2> QED
    BY <1>1, <2>3, SameRows
<1>3. ASSUME NEW i \in 1 .. 10, Goes(h, SeederFrom(i, << >>))  PROVE PlantInv'
  BY <1>1, <1>3, PutOffSeeders
<1>4. CASE Goes(h, [at |-> "down", seeder |-> 0, stmt |-> 0, made |-> << >>])
  <2>1. [at |-> "down", seeder |-> 0, stmt |-> 0, made |-> << >>] \in Where
    BY EmptySeq DEF Where
  <2> QED
    BY <1>1, <1>4, <2>1, Placed
<1>5. CASE planting[h].at = "look" /\ Goes(h, SeederFrom(planting[h].seeder + 1, << >>))
  <2>1. planting[h].seeder + 1 \in 1 .. 10
    BY <1>5 DEF PlantInv, AtWork
  <2> QED
    BY <1>3, <1>5, <2>1
<1> QED
  BY <1>2, <1>3, <1>4, <1>5 DEF StartPlanting, PlantingFails, PlanterEnds

-----------------------------------------------------------------------------
\* What an operator takes out goes with nothing of another table they edit.
LEMMA TakenRows ==
  ASSUME NEW row \in planted, Trimmed \subseteq Editable, TakeOut(row)
  PROVE  /\ \A t \in Editable \cup {"achievements"} : t # row[1] => In(t)' = In(t)
         /\ In(row[1])' = In(row[1]) \ {row}
         /\ \A t \in {"rewards", "payouts"} : \A k : Has(t, k)' <=> Has(t, k)
<1>1. row[1] \in Editable /\ planted' = planted \ GoesWith(row)
  BY DEF TakeOut
<1>2. \A r \in GoesWith(row) : r = row \/ r[1] \in {"threads", "posts", "replies", "counted"}
  BY DEF GoesWith
<1>3. row \in GoesWith(row)
  BY DEF GoesWith
<1>4. \A t : t \notin {"threads", "posts", "replies", "counted", row[1]} => In(t)' = In(t)
  BY <1>1, <1>2 DEF In
<1>5. In(row[1])' = In(row[1]) \ {row}
  BY <1>1, <1>2, <1>3 DEF In, Editable
<1>6. \A t, k : Has(t, k) <=> \E r \in In(t) : r[2] = k
  BY DEF Has, In
<1>7. \A t, k : Has(t, k)' <=> \E r \in In(t)' : r[2] = k
  BY DEF Has, In
<1> QED
  BY <1>1, <1>4, <1>5, <1>6, <1>7 DEF Editable

LEMMA TakingKeeps ==
  ASSUME NEW row \in planted, Trimmed \subseteq Editable, HeldRows, Payable, TakeOut(row)
  PROVE  HeldRows' /\ Payable'
<1>1. row[1] \in Trimmed
  BY DEF TakeOut
<1>2. Payable'
  BY <1>1, TakenRows DEF Payable, Editable
<1>3. CASE In(row[1]) = {row}
  <2>1. /\ uprooted' = {gone \in uprooted : gone[1] # row[1]}
        /\ \A t \in Trimmed : t # row[1] => In(t)' = In(t)
    BY <1>3, TakenRows DEF TakeOut
  <2> QED
    BY <1>2, <2>1 DEF HeldRows
<1>4. CASE In(row[1]) # {row}
  <2>1. In(row[1]) \ {row} # {}
    BY <1>4 DEF In
  <2>2. /\ uprooted' = uprooted \cup {<<row[1], row[2]>>}
        /\ In(row[1])' # {} /\ \A t \in Trimmed : t # row[1] => In(t)' = In(t)
    BY <1>4, <2>1, TakenRows DEF TakeOut
  <2> QED
    BY <1>1, <1>2, <2>2 DEF HeldRows
<1> QED
  BY <1>2, <1>3, <1>4

LEMMA AddingKeeps ==
  ASSUME NEW t \in Trimmed, Trimmed \subseteq Editable, HeldRows, Payable, AddOwn(t)
  PROVE  HeldRows' /\ Payable'
<1>1. In("achievements")' = In("achievements")
  BY DEF AddOwn, In, Editable
<1>2. planted \subseteq planted' /\ uprooted' \subseteq uprooted
  BY DEF AddOwn
<1> QED
  BY <1>1, <1>2 DEF HeldRows, Payable, In, Has

LEMMA EditsKeep ==
  ASSUME Trimmed \subseteq Editable, OnePlanter, PlantInv, Edit
  PROVE  PlantInv'
<1>1. UNCHANGED planting /\ \A h \in Planters : planting[h].at = "up"
  BY DEF Edit, OnePlanter
<1>2. PlanterShape' /\ \A h \in Planters : AtWork(planting[h])'
  BY <1>1 DEF PlantInv, PlanterShape, AtWork
<1>3. HeldRows' /\ Payable'
  BY TakingKeeps, AddingKeeps DEF Edit, PlantInv
<1> QED
  BY <1>2, <1>3 DEF PlantInv

LEMMA PlantInductive ==
  ASSUME Trimmed \subseteq Editable, OnePlanter, PlantInv, [PlantNext]_plantVars
  PROVE  PlantInv'
<1>1. CASE UNCHANGED plantVars
  BY <1>1 DEF plantVars, PlantInv, PlanterShape, HeldRows, AtWork, Readied, Payable, In, Has, Statements, Members
<1> QED
  BY <1>1, WritesKeep, LooksKeep, MishapsKeep, EditsKeep DEF PlantNext

LEMMA TakenOutStaysOut ==
  ASSUME Trimmed \subseteq Editable, OnePlanter, PlantInv, [PlantNext]_plantVars,
         NEW row \in planted' \ planted, <<row[1], row[2]>> \in uprooted'
  PROVE  row[2] \in CreditItems
<1>1. ASSUME NEW h \in Planters, Write(h)  PROVE row[2] \in CreditItems
  <2>1. planting[h].at = "write" /\ uprooted' = uprooted /\ row[1] = Now(h).table /\ row[2] \in Now(h).keys
    BY <1>1, WrittenRows DEF Write, OperatorsRest
  <2>2. row[1] \in Editable
    BY <2>1 DEF PlantInv, HeldRows
  <2>3. row[1] # SeedOrder[planting[h].seeder]
    BY <2>1 DEF PlantInv, AtWork
  <2> QED
    BY <2>1, <2>2, <2>3, AtAStatement DEF OwnTable
<1>2. ASSUME NEW t \in Trimmed, AddOwn(t)  PROVE FALSE
  <2>1. row = <<t, "own", NextNumber(t)>>
    BY <1>2 DEF AddOwn
  <2> QED
    BY <1>2, <2>1 DEF AddOwn
<1>3. ASSUME NEW lifted \in planted, TakeOut(lifted)  PROVE FALSE
  BY <1>3 DEF TakeOut
<1>4. planted' # planted
  OBVIOUS
<1> QED
  BY <1>1, <1>2, <1>3, <1>4 DEF PlantNext, Edit, plantVars, StartPlanting, Look, PlantingFails, PlanterEnds

\* Whatever statements fail and wherever boots break off, what the catalogue promises can be
\* paid, and a row an operator took out of a table that kept others is not planted again.
THEOREM SeedsKeep ==
  ASSUME OnePlanter, Trimmed \subseteq Editable
  PROVE  PlantSpec => SeedsKeepTheirWord
<1>1. PlantInv /\ [PlantNext]_plantVars => PlantInv'
  BY PlantInductive
<1>2. PlantInv' => [Payable']_plantVars
  BY DEF PlantInv
<1>3. PlantInv /\ [PlantNext]_plantVars =>
        [\A row \in planted' \ planted : <<row[1], row[2]>> \in uprooted' => row[2] \in CreditItems]_plantVars
  BY TakenOutStaysOut
<1> QED
  BY <1>1, <1>2, <1>3, PlantInitially, PTL
     DEF PlantSpec, SeedsKeepTheirWord, AchievementsPay, DeletedStaysDeleted

-----------------------------------------------------------------------------
(***************************************************************************)
(* The demo's swarm, for any torrents, members, clients and passes that    *)
(* fail.                                                                   *)
(***************************************************************************)
\* A client announces before its row falls out of the window.
ClientsAnnounceInTime == AnnounceEvery <= SwarmWindow

SwarmInv ==
    /\ SwarmTypeOK /\ swarmMishaps \in Nat /\ waited < SwarmEvery + Grain
    /\ \A row \in running : lastSeen[row] <= AnnounceEvery
    /\ swarmMishaps = 0 => \A row \in Rows : lastSeen[row] <= SwarmWindow + waited

LEMMA RanksAreSmall ==
    ASSUME NEW i \in Nat, NEW n \in Nat
    PROVE  Least(i * LastSeenStep + n, LastSeenMax) \in Nat /\ Least(i * LastSeenStep + n, LastSeenMax) <= LastSeenMax
<1>1. i * LastSeenStep \in Nat
  BY DemoSwarmAssumption
<1> QED
  BY <1>1, DemoSwarmAssumption DEF Least

LEMMA PassesRankTheStale ==
    ASSUME SwarmTypeOK, DemoTrackerActivity
    PROVE  /\ lastSeen' \in [Rows -> Nat]
           /\ \A row \in Rows : lastSeen'[row] <= SwarmWindow
           /\ \A row \in Rows : lastSeen[row] <= SwarmWindow => lastSeen'[row] = lastSeen[row]
<1>1. IsFiniteSet(Rows)
  BY DemoSwarmAssumption, FS_Product DEF Rows
<1>2. \A row : Rank(row) \in Nat
  <2> SUFFICES ASSUME NEW row PROVE Cardinality({r \in Ranked : Fresher(r, row)}) \in Nat
    BY DEF Rank
  <2>1. {r \in Ranked : Fresher(r, row)} \in SUBSET Rows
    BY DEF Ranked, Stale
  <2>2. IsFiniteSet({r \in Ranked : Fresher(r, row)})
    BY <1>1, <2>1, FS_Subset
  <2> QED
    BY <2>2, FS_CardinalityType
<1>3. \A row : LET new == Least(Rank(row) * LastSeenStep, LastSeenMax) IN new \in Nat /\ new <= LastSeenMax
  <2> SUFFICES ASSUME NEW row
               PROVE  LET new == Least(Rank(row) * LastSeenStep, LastSeenMax) IN new \in Nat /\ new <= LastSeenMax
    OBVIOUS
  <2>1. Rank(row) * LastSeenStep \in Nat
    BY <1>2, DemoSwarmAssumption
  <2> QED
    BY <2>1, DemoSwarmAssumption DEF Least
<1>4. \A row \in Rows : lastSeen'[row] = IF row \in Ranked THEN Least(Rank(row) * LastSeenStep, LastSeenMax)
                                         ELSE lastSeen[row]
  BY DEF DemoTrackerActivity
<1>5. \A row \in Rows : row \in Ranked <=> lastSeen[row] > SwarmWindow
  BY DEF Ranked, Stale
<1>6. \A row \in Rows : lastSeen[row] \in Nat
  BY DEF SwarmTypeOK
<1>7. lastSeen' = [row \in Rows |-> lastSeen'[row]]
  BY DEF DemoTrackerActivity
<1> QED
  BY <1>3, <1>4, <1>5, <1>6, <1>7, DemoSwarmAssumption

LEMMA SwarmInitially == SwarmInit => SwarmInv
<1> SUFFICES ASSUME SwarmInit PROVE SwarmInv
  OBVIOUS
<1>1. \A row \in Rows : row[1] \in Nat /\ row[2] * 2 \in Nat
  <2>1. \A row \in Rows : row[1] \in Torrents /\ row[2] \in Holders
    BY DEF Rows
  <2>2. \A m \in Nat : m * 2 \in Nat
    OBVIOUS
  <2> QED
    BY <2>1, <2>2, DemoSwarmAssumption
<1>2. \A row \in Rows : DemoLastSeenAgo(row[1], row[2]) \in Nat /\ DemoLastSeenAgo(row[1], row[2]) <= LastSeenMax
  BY <1>1, RanksAreSmall DEF DemoLastSeenAgo
<1>3. lastSeen \in [Rows -> Nat] /\ \A row \in Rows : lastSeen[row] <= LastSeenMax
  BY <1>2 DEF SwarmInit
<1> QED
  BY <1>3, DemoSwarmAssumption DEF SwarmInit, SwarmInv, SwarmTypeOK

LEMMA SwarmInductive == ClientsAnnounceInTime /\ SwarmInv /\ [SwarmNext]_swarmVars => SwarmInv'
<1> SUFFICES ASSUME ClientsAnnounceInTime, SwarmInv, [SwarmNext]_swarmVars  PROVE SwarmInv'
  OBVIOUS
<1> USE DemoSwarmAssumption DEF SwarmInv, SwarmTypeOK
<1>1. CASE DemoTrackerActivity
  <2>1. \A row \in running : lastSeen'[row] = lastSeen[row]
    BY <1>1, PassesRankTheStale DEF ClientsAnnounceInTime
  <2> QED
    BY <1>1, <2>1, PassesRankTheStale DEF DemoTrackerActivity
<1>2. CASE ActivityFails \/ SwarmRestarts
  BY <1>2 DEF ActivityFails, SwarmRestarts, SwarmMishap
<1>3. CASE TimePasses
  BY <1>3 DEF TimePasses, Due
<1>4. ASSUME NEW row \in Rows, Announce(row)  PROVE SwarmInv'
  BY <1>4 DEF Announce
<1>5. ASSUME NEW row \in Rows, ClientLeaves(row)  PROVE SwarmInv'
  BY <1>5 DEF ClientLeaves
<1>6. CASE UNCHANGED swarmVars
  BY <1>6 DEF swarmVars
<1> QED
  BY <1>1, <1>2, <1>3, <1>4, <1>5, <1>6 DEF SwarmNext

\* Every reachable state of the ages is well typed, and while passes go through no row is out
\* of the window for longer than the job's interval, to the grain of the clock.
THEOREM SwarmIsSeen ==
    SwarmSpec /\ []ClientsAnnounceInTime =>
        [](/\ SwarmTypeOK
           /\ swarmMishaps = 0 => \A row \in Rows : lastSeen[row] < SwarmWindow + SwarmEvery + Grain)
<1>1. SwarmInv => /\ SwarmTypeOK
                  /\ swarmMishaps = 0 => \A row \in Rows : lastSeen[row] < SwarmWindow + SwarmEvery + Grain
  BY DemoSwarmAssumption DEF SwarmInv, SwarmTypeOK
<1> QED
  BY <1>1, SwarmInitially, SwarmInductive, PTL DEF SwarmSpec

\* What a running client reported the job never rewrites, however many rows fell out of the
\* window and whatever the ages are: a client that announces in time is not among them.
THEOREM ClientsKeepTheirWord == SwarmSpec /\ []ClientsAnnounceInTime => ClientsAreLeftAlone
<1>1. ASSUME ClientsAnnounceInTime, SwarmInv, [SwarmNext]_swarmVars, Due, waited' = 0, NEW row \in running
      PROVE  lastSeen'[row] = lastSeen[row]
  <2>1. lastSeen[row] <= SwarmWindow /\ row \in Rows
    BY <1>1, DemoSwarmAssumption DEF SwarmInv, SwarmTypeOK, ClientsAnnounceInTime
  <2>2. CASE DemoTrackerActivity
    BY <2>1, <2>2, <1>1, PassesRankTheStale DEF SwarmInv
  <2>3. CASE UNCHANGED lastSeen
    BY <2>3
  <2>4. CASE TimePasses
    BY <1>1, <2>4 DEF TimePasses
  <2>5. ASSUME NEW r \in Rows, Announce(r)  PROVE lastSeen'[row] = lastSeen[row]
    BY <1>1, <2>5, DemoSwarmAssumption DEF Announce, Due, SwarmInv, SwarmTypeOK
  <2> QED
    BY <1>1, <2>2, <2>3, <2>4, <2>5 DEF SwarmNext, ActivityFails, SwarmRestarts, ClientLeaves, swarmVars
<1>2. ClientsAnnounceInTime /\ SwarmInv /\ [SwarmNext]_swarmVars
        => [(Due /\ waited' = 0) => \A row \in running : lastSeen'[row] = lastSeen[row]]_swarmVars
  BY <1>1
<1> QED
  BY <1>2, SwarmInitially, SwarmInductive, PTL DEF SwarmSpec, ClientsAreLeftAlone
===============================================================================
