--------------------------- MODULE MCAgentClients ---------------------------
(***************************************************************************)
(* AgentClients with tasks and data that can be exchanged for each other:  *)
(* nothing in the module tells one user, editor or value from another.     *)
(***************************************************************************)
EXTENDS AgentClients, TLC

Alike == Permutations(Users) \cup Permutations(Editors) \cup Permutations(Data)
=============================================================================
