------------------------------- MODULE Throttle --------------------------------
(***************************************************************************)
(* The request limiter of one tier: token buckets shared through Redis,    *)
(* and a table in each replica's memory for when Redis does not answer.    *)
(* A login is charged by the middleware and refunded by the handler when   *)
(* the password was right.                                                 *)
(*                                                                         *)
(* A tick is the resolution of the clock.  Tokens are counted in ticks:    *)
(* Every of them make one, so that fractions of a token are exact.  A site *)
(* without Redis is the case in which it never answers.                    *)
(***************************************************************************)
EXTENDS Integers, FiniteSets

CONSTANTS
    Callers,     \* throttleKey: a member, or an address
    Replicas,    \* processes, each with its table
    Redis,       \* the shared table
    Burst, Every,
    Minute,      \* the least idle time after which a bucket is forgotten
    Second,      \* what a key in Redis outlives a full refill by
    MaxBuckets,  \* memStore.max
    MaxTrying    \* bound: requests of one caller being served

\* A tier without a burst or a rate limits nothing, and is not modelled.
ASSUME ThrottleAssumption ==
    /\ IsFiniteSet(Callers)
    /\ Burst \in Nat \ {0} /\ Every \in Nat \ {0} /\ Minute \in Nat /\ Second \in Nat \ {0}
    /\ MaxBuckets \in Nat /\ MaxTrying \in Nat

Tables == Replicas \cup {Redis}

VARIABLES
    bucket,   \* each table's buckets
    trying,   \* requests let through by a token and not yet answered
    heard     \* history: callers each table has heard of since it was dropped

throttleVars == <<bucket, trying, heard>>

Full == Burst * Every
Capped(n) == IF n > Full THEN Full ELSE n
IdleTime == IF Full * 2 < Minute THEN Minute ELSE Full * 2
LifetimeInTokens == Burst + Second - 1
Lifetime == Full + Second
OldAge == 1 + (IF IdleTime < Lifetime THEN Lifetime ELSE IdleTime)  \* no code tells older from older
Bucket == [tokens : 0 .. Full, age : 0 .. OldAge]
NoBucket == [tokens |-> Full, age |-> -1]
FullBucket == [tokens |-> Full, age |-> 0]

ThrottleTypeOK ==
    /\ bucket \in [Tables -> [Callers -> Bucket \cup {NoBucket}]]
    /\ trying \in [Callers -> 0 .. MaxTrying]
    /\ heard \in [Tables -> SUBSET Callers]

ThrottleInit ==
    /\ bucket = [t \in Tables |-> [k \in Callers |-> NoBucket]]
    /\ trying = [k \in Callers |-> 0]
    /\ heard = [t \in Tables |-> {}]

(***************************************************************************)
(* A bucket is refilled when it is looked at, and is forgotten when nobody *)
(* has looked for so long that it must be full.                            *)
(***************************************************************************)
Known(t) == {k \in Callers : bucket[t][k] # NoBucket}
Refilled(b) == IF b = NoBucket THEN FullBucket
               ELSE [tokens |-> Capped(b.tokens + b.age), age |-> 0]

\* HMGET finds nothing under an expired key.
Stored(t, k) ==
    IF t = Redis /\ bucket[t][k] # NoBucket /\ bucket[t][k].age >= Lifetime
        THEN NoBucket ELSE bucket[t][k]

\* At its bound a table in memory is dropped whole, before the caller is looked up.
DropsAt(t) == t # Redis /\ Cardinality(Known(t)) >= MaxBuckets
Emptied(t) == [k \in Callers |-> NoBucket]
Looked(t, k) == [(IF DropsAt(t) THEN Emptied(t) ELSE bucket[t])
                    EXCEPT ![k] = Refilled(IF DropsAt(t) THEN NoBucket ELSE Stored(t, k))]

HasToken(t, k) == Looked(t, k)[k].tokens >= Every
Taken(t, k) == IF HasToken(t, k) THEN [Looked(t, k) EXCEPT ![k].tokens = @ - Every] ELSE Looked(t, k)

\* give: a bucket that is not there has nothing to give back.
Given(t, k) ==
    IF Stored(t, k) = NoBucket THEN bucket[t]
    ELSE [bucket[t] EXCEPT ![k].tokens = Capped(@ + Every)]

\* The tables a call from replica r reaches, the one that answers it last: Redis
\* in time, Redis too late and the local table, or the local table alone.
Reached(r) == {<<{Redis}, Redis>>, <<{Redis, r}, r>>, <<{r}, r>>}

(***************************************************************************)
(* The middleware and the handler.                                         *)
(***************************************************************************)
\* Guard.  A refused request of staff is let through all the same, and a path
\* that another tier governs is not counted: neither changes a bucket.
Guard(r, k) == \E c \in Reached(r) :
    /\ trying[k] < MaxTrying
    /\ bucket' = [t \in Tables |-> IF t \in c[1] THEN Taken(t, k) ELSE bucket[t]]
    /\ heard' = [t \in Tables |-> IF t \in c[1] THEN (IF DropsAt(t) THEN {} ELSE heard[t]) \cup {k} ELSE heard[t]]
    /\ IF HasToken(c[2], k)
        THEN trying' = [trying EXCEPT ![k] = @ + 1]
        ELSE UNCHANGED trying

\* A wrong password keeps the charge, and so does any page that is no login.
Answered(k) ==
    /\ trying[k] > 0 /\ trying' = [trying EXCEPT ![k] = @ - 1]
    /\ UNCHANGED <<bucket, heard>>

LoginRefund(r, k) == \E c \in Reached(r) :
    /\ trying[k] > 0 /\ trying' = [trying EXCEPT ![k] = @ - 1]
    /\ bucket' = [t \in Tables |-> IF t \in c[1] THEN Given(t, k) ELSE bucket[t]]
    /\ UNCHANGED heard

Sweep(r) ==
    /\ \E k \in Known(r) : bucket[r][k].age > IdleTime
    /\ bucket' = [bucket EXCEPT ![r] =
            [k \in Callers |-> IF @[k].age > IdleTime THEN NoBucket ELSE @[k]]]
    /\ UNCHANGED <<trying, heard>>

ThrottleTick ==
    /\ bucket' = [t \in Tables |-> [k \in Callers |->
            IF bucket[t][k] = NoBucket \/ bucket[t][k].age = OldAge THEN bucket[t][k]
            ELSE [bucket[t][k] EXCEPT !.age = @ + 1]]]
    /\ UNCHANGED <<trying, heard>>

ThrottleNext ==
    \/ ThrottleTick
    \/ \E r \in Replicas : Sweep(r)
    \/ \E k \in Callers : Answered(k)
    \/ \E r \in Replicas, k \in Callers : Guard(r, k) \/ LoginRefund(r, k)

ThrottleSpec == ThrottleInit /\ [][ThrottleNext]_throttleVars

(***************************************************************************)
(* Properties.                                                             *)
(***************************************************************************)
\* What each table would find if it were asked now.
Credit == [t \in Tables |-> [k \in Callers |->
    IF Stored(t, k) = NoBucket THEN Full ELSE Capped(bucket[t][k].tokens + bucket[t][k].age)]]

B == INSTANCE Budget WITH Counters <- Tables, credit <- Credit, owed <- trying, Crowd <- MaxBuckets

\* The limiter keeps the budget: buckets that are swept or that expire, and looks
\* that refill them, change no decision (throttle.go "forgetting them changes no
\* decision", throttle_redis.go "expiring it decides nothing differently"); a script
\* that ran and answered too late costs a token and serves nothing more; a table
\* forgets a caller's debt only when MaxBuckets callers have asked of it.
KeepsBudget == B!Spec
===============================================================================
