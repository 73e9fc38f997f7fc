----------------------------- MODULE AgentRegistry -----------------------------
(***************************************************************************)
(* Who the fleet's agents are and whose: storage/agents.go, the registering*)
(* endpoint (agentapi_web.go), the member's page (agent_web.go) and the    *)
(* operator's (agentadmin_web.go).                                         *)
(*                                                                         *)
(* A row keeps the hash of one token, which only the answer to the call    *)
(* that minted it ever carried.  Workers register by a name, with a token  *)
(* of the site's; members create, rotate and delete their own; operators   *)
(* do so for all.  Registrations travel: they may be handled late, and     *)
(* their answers may be lost.  What an agent works on is in AgentQueue.    *)
(***************************************************************************)
EXTENDS Naturals, FiniteSets

CONSTANTS
    Workers,        \* the machines that register themselves
    Owners,         \* the members
    Names,          \* the names agents are given
    Keys,           \* the values of AGENT_TOKEN_SECRET
    Nobody,         \* no owner
    MaxAgents, MaxTokens,   \* bounds: rows and tokens ever made
    MaxAsking,      \* bound: registrations of a worker under way
    MaxRegistryMishaps      \* bound: answers lost and processes restarted

ASSUME RegistryAssumption ==
    /\ Nobody \notin Owners
    /\ MaxAgents \in Nat /\ MaxTokens \in Nat /\ MaxAsking \in Nat /\ MaxRegistryMishaps \in Nat

VARIABLES
    agents,         \* the table: from ids to rows
    ids, tokens,    \* how many ids and tokens were ever given
    key,            \* agentTokenSecret of the running process
    registering,    \* registrations under way
    holds,          \* the token each worker goes by, 0 for none
    handedOut,      \* history: the tokens each member was shown for an agent of theirs
    revoked,        \* history: tokens that were replaced or deleted
    registryMishaps

registryVars == <<agents, ids, tokens, key, registering, holds, handedOut, revoked, registryMishaps>>

-----------------------------------------------------------------------------
(* The statements of storage/agents.go.                                    *)

HashAgentToken(tok) == <<tok, key>>
AgentByToken(tok) == {id \in DOMAIN agents : agents[id].hash = HashAgentToken(tok)}
Named(name) == {id \in DOMAIN agents : agents[id].name = name}
Owned(o) == {id \in DOMAIN agents : agents[id].owner = o}

NewAgentToken == tokens < MaxTokens /\ tokens' = tokens + 1

Insert(name, owner) ==
    /\ ids < MaxAgents /\ ids' = ids + 1
    /\ agents' = [id \in DOMAIN agents \cup {ids + 1} |->
                    IF id \in DOMAIN agents THEN agents[id]
                    ELSE [name |-> name, owner |-> owner, hash |-> HashAgentToken(tokens + 1)]]
    /\ UNCHANGED revoked

Remint(id, owner) ==
    /\ agents' = [agents EXCEPT ![id].hash = HashAgentToken(tokens + 1), ![id].owner = owner]
    /\ revoked' = revoked \cup {agents[id].hash[1]}
    /\ UNCHANGED ids

Discard(id) ==
    /\ agents' = [other \in DOMAIN agents \ {id} |-> agents[other]]
    /\ revoked' = revoked \cup {agents[id].hash[1]}
    /\ UNCHANGED <<ids, tokens>>

\* EnsureAgent: a known name gets a new token, and keeps its owner unless one is given.
EnsureAgent(name, owner) ==
    /\ NewAgentToken
    /\ IF Named(name) = {} THEN Insert(name, owner)
       ELSE \E id \in Named(name) : Remint(id, IF owner = Nobody THEN agents[id].owner ELSE owner)

-----------------------------------------------------------------------------
(* Members, on their page.                                                 *)

ShowTo(o) == handedOut' = [handedOut EXCEPT ![o] = @ \cup {tokens + 1}]
WorkersRest == UNCHANGED <<key, registering, holds, registryMishaps>>

\* Mutant: the statement the registration uses.
CreateOrRemint(o, name) == EnsureAgent(name, Nobody) /\ ShowTo(o) /\ WorkersRest
\* A taken name is refused.
CreateAgentOwned(o, name) ==
    /\ NewAgentToken
    /\ Named(name) = {}
    /\ Insert(name, o)
    /\ ShowTo(o) /\ WorkersRest

RotateAgentTokenOwned(o, id) ==
    /\ NewAgentToken
    /\ id \in Owned(o)
    /\ Remint(id, o)
    /\ ShowTo(o) /\ WorkersRest

DeleteAgentOwned(o, id) ==
    /\ id \in Owned(o)
    /\ Discard(id)
    /\ WorkersRest /\ UNCHANGED handedOut

-----------------------------------------------------------------------------
(* Operators.  What they are shown once is not followed further.           *)

AdminAgentCreate(name, owner) == EnsureAgent(name, owner) /\ WorkersRest /\ UNCHANGED handedOut

\* RegenerateAgentToken shows a token also for an agent that is gone.
AdminAgentToken(id) ==
    /\ NewAgentToken
    /\ IF id \in DOMAIN agents THEN Remint(id, agents[id].owner) ELSE UNCHANGED <<agents, ids, revoked>>
    /\ WorkersRest /\ UNCHANGED handedOut

AdminAgentDelete(id) ==
    /\ id \in DOMAIN agents
    /\ Discard(id)
    /\ WorkersRest /\ UNCHANGED handedOut

-----------------------------------------------------------------------------
(* Workers.                                                                *)

RegistryMishap == registryMishaps < MaxRegistryMishaps /\ registryMishaps' = registryMishaps + 1
AskedBy(w) == {a \in registering : a.worker = w}

AskToRegister(w, name, owner) ==
    /\ Cardinality(AskedBy(w)) < MaxAsking
    /\ registering' = registering \cup {[worker |-> w, name |-> name, owner |-> owner, token |-> 0]}
    /\ UNCHANGED <<handedOut, agents, ids, tokens, key, holds, revoked, registryMishaps>>

AgentRegister(a) ==
    /\ a.token = 0
    /\ EnsureAgent(a.name, a.owner)
    /\ registering' = (registering \ {a}) \cup {[a EXCEPT !.token = tokens + 1]}
    /\ UNCHANGED <<handedOut, key, holds, registryMishaps>>

\* A worker goes by the answer that came last.
Registered(a) ==
    /\ a.token # 0
    /\ holds' = [holds EXCEPT ![a.worker] = a.token]
    /\ registering' = registering \ {a}
    /\ UNCHANGED <<handedOut, agents, ids, tokens, key, revoked, registryMishaps>>

AnswerIsLost(a) ==
    /\ RegistryMishap
    /\ registering' = registering \ {a}
    /\ UNCHANGED <<handedOut, agents, ids, tokens, key, holds, revoked>>

\* The member types a token into the worker's settings.
Configure(o, w) ==
    /\ \E tok \in handedOut[o] : tok # holds[w] /\ holds' = [holds EXCEPT ![w] = tok]
    /\ UNCHANGED <<handedOut, agents, ids, tokens, key, registering, revoked, registryMishaps>>

\* The site comes back, perhaps under another secret; what was under way is gone.
SiteRestarts ==
    /\ RegistryMishap
    /\ key' \in Keys
    /\ registering' = {}
    /\ UNCHANGED <<handedOut, agents, ids, tokens, holds, revoked>>

-----------------------------------------------------------------------------
RegistryInit ==
    /\ agents = [id \in {} |-> 0] /\ ids = 0 /\ tokens = 0
    /\ key \in Keys
    /\ registering = {} /\ holds = [w \in Workers |-> 0]
    /\ handedOut = [o \in Owners |-> {}] /\ revoked = {}
    /\ registryMishaps = 0

RegistryNext ==
    \/ \E o \in Owners :
          \/ \E name \in Names : CreateAgentOwned(o, name)
          \/ \E id \in 1..ids : RotateAgentTokenOwned(o, id) \/ DeleteAgentOwned(o, id)
          \/ \E w \in Workers : Configure(o, w)
    \/ \E name \in Names, owner \in Owners \cup {Nobody} :
          AdminAgentCreate(name, owner) \/ \E w \in Workers : AskToRegister(w, name, owner)
    \/ \E id \in 1..ids : AdminAgentToken(id) \/ AdminAgentDelete(id)
    \/ \E a \in registering : AgentRegister(a) \/ Registered(a) \/ AnswerIsLost(a)
    \/ SiteRestarts

RegistrySpec == RegistryInit /\ [][RegistryNext]_registryVars

-----------------------------------------------------------------------------
RegistryTypeOK ==
    /\ DOMAIN agents \subseteq 1..ids /\ ids \in 0..MaxAgents /\ tokens \in 0..MaxTokens
    /\ \A id \in DOMAIN agents :
          agents[id].name \in Names /\ agents[id].owner \in Owners \cup {Nobody} /\ agents[id].hash \in (1..tokens) \X Keys
    /\ holds \in [Workers -> 0..tokens] /\ revoked \subseteq 1..tokens

\* A token a member was shown opens only an agent that is theirs now, whoever registered
\* or created one under its name since.
MembersHoldTheirOwn ==
    \A o \in Owners : \A tok \in handedOut[o] : \A id \in AgentByToken(tok) : agents[id].owner = o

\* A token that was replaced, or whose agent was deleted, opens nothing again: not under a
\* later agent of that name, nor when the site comes back under an earlier secret.
RevokedIsDead == \A tok \in revoked : AgentByToken(tok) = {}

\* An agent that had an owner has one, and its name is nobody else's.
OwnedOnce ==
    /\ \A a, b \in DOMAIN agents : agents[a].name = agents[b].name => a = b
    /\ \A o \in Owners : \A tok \in handedOut[o] : \A id \in DOMAIN agents :
          agents[id].hash[1] = tok => agents[id].owner # Nobody

CredentialsHold == MembersHoldTheirOwn /\ RevokedIsDead /\ OwnedOnce

\* Checked by hand, and violated: a client that registers at every start holds the one live
\* token of its name (agentapi_web.go:62).  Two machines under one name take it from each
\* other, and so does a registration that is handled after its repetition.
RegistrationSparesOthers ==
    [][\A w \in Workers :
          (registering' # registering /\ AgentByToken(holds[w]) # {} /\ AgentByToken(holds[w])' = {} /\ key' = key) =>
              \E a \in registering' : a.worker = w]_registryVars
===============================================================================
