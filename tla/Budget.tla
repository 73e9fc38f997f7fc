-------------------------------- MODULE Budget ---------------------------------
(***************************************************************************)
(* What a rate limit promises: every caller has a credit with every        *)
(* counter, a request is served out of one token of it, and nothing gives  *)
(* credit back but time, the refund of a request that was served, and a    *)
(* counter that forgets everybody because too many callers have come.      *)
(***************************************************************************)
EXTENDS Integers, FiniteSets

CONSTANTS Callers, Counters,
          Burst,  \* tokens of a full credit
          Every,  \* ticks in which one token returns
          Crowd   \* callers that make a counter forget

VARIABLES credit,  \* in ticks: Every of them make a token
          owed,    \* requests served, for which a refund may be asked
          heard    \* callers each counter has heard of since it last forgot

budgetVars == <<credit, owed, heard>>

Full == Burst * Every
Capped(n) == IF n > Full THEN Full ELSE n

Init ==
    /\ credit = [c \in Counters |-> [k \in Callers |-> Full]]
    /\ owed = [k \in Callers |-> 0]
    /\ heard = [c \in Counters |-> {}]

Tick ==
    /\ UNCHANGED <<owed, heard>>
    /\ credit' = [c \in Counters |-> [k \in Callers |-> Capped(credit[c][k] + 1)]]

\* What is left of the credits once the counters in A have forgotten everybody.
After(A) == [c \in Counters |-> IF c \in A THEN [k \in Callers |-> Full] ELSE credit[c]]

\* One request, which the counters in H hear of.  Those in A forget everybody
\* first, those in P take a token, and if there is one the request may be served.
Ask(k, H, A, P) ==
    /\ \/ P # {} /\ owed' = [owed EXCEPT ![k] = @ + 1]
       \/ UNCHANGED owed
    /\ heard' = [c \in Counters |-> IF c \in H THEN (IF c \in A THEN {} ELSE heard[c]) \cup {k}
                                              ELSE heard[c]]
    /\ \A c \in A : Cardinality(heard[c]) >= Crowd
    /\ \A c \in P : After(A)[c][k] >= Every
    /\ credit' = [c \in Counters |-> IF c \in P THEN [After(A)[c] EXCEPT ![k] = @ - Every]
                                               ELSE After(A)[c]]

\* A request is done with, and the counters in R give it back: none, if it is
\* not to be refunded.
Settle(k, R) ==
    /\ owed[k] > 0 /\ owed' = [owed EXCEPT ![k] = @ - 1]
    /\ UNCHANGED heard
    /\ credit' = [c \in Counters |-> IF c \in R THEN [credit[c] EXCEPT ![k] = Capped(@ + Every)]
                                               ELSE credit[c]]

Next ==
    \/ Tick
    \/ \E k \in Callers, H \in SUBSET Counters : \E A, P \in SUBSET H : Ask(k, H, A, P)
    \/ \E k \in Callers, R \in SUBSET Counters : Settle(k, R)

Spec == Init /\ [][Next]_budgetVars
===============================================================================
