------------------------------ MODULE GrabLedger ------------------------------
(***************************************************************************)
(* What the dispatcher's contract promises about a grab, however agents,   *)
(* leases and crashes get it done: a torrent is taken up once, dealt with  *)
(* once, and never taken up again unless the operator retires it.          *)
(***************************************************************************)
CONSTANTS Grabs,      \* torrents, by their normalised info hash
          Retirable   \* whether the operator may retire rows

VARIABLE ledger       \* [Grabs -> {"unknown", "open", "dealt"}]

Init == ledger = [g \in Grabs |-> "unknown"]

\* A dispatched torrent the ledger does not know becomes an open job.
TakeUp(g) == ledger[g] = "unknown" /\ ledger' = [ledger EXCEPT ![g] = "open"]

\* Somebody finished it, either way.
Deal(g) == ledger[g] = "open" /\ ledger' = [ledger EXCEPT ![g] = "dealt"]

\* The operator forgets it.
Retire(g) ==
    /\ Retirable /\ ledger[g] # "unknown"
    /\ ledger' = [ledger EXCEPT ![g] = "unknown"]

Next == \E g \in Grabs : TakeUp(g) \/ Deal(g) \/ Retire(g)

Spec == Init /\ [][Next]_ledger
=============================================================================
