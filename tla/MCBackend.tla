------------------------------ MODULE MCBackend ------------------------------
(***************************************************************************)
(* The terminal and the replicas with their key, which share no state, for *)
(* one run: `part` names the one that steps, the other stays in an initial *)
(* state in which nothing happens.                                         *)
(***************************************************************************)
EXTENDS MCTerminal, MCKey

VARIABLE part

BackendInit ==
  /\ part \in {"terminal", "keys"}
  /\ Init /\ (part = "terminal" \/ view.size = small)
  /\ KeyInit /\ (part = "keys" \/ secret = Nothing)

BackendNext ==
  /\ UNCHANGED part
  /\ \/ part = "terminal" /\ Next /\ UNCHANGED keyVars
     \/ part = "keys" /\ KeyNext /\ UNCHANGED vars

BackendSpec ==
  /\ BackendInit /\ [][BackendNext]_<<part, vars, keyVars>>
  /\ Fairness /\ KeyFairness
=============================================================================
