---------------------------- MODULE MCConnections ----------------------------
(* Small instances of Connections for TLC.                                  *)
EXTENDS Connections

CONSTANTS alice, k1

(* All connections are of one user: every race between the clean-up of one   *)
(* and the arrival and clean-up of the others.                               *)
OneUserConns == [c \in Conns |-> alice]

(* Nothing keeps two users from registering with the same key.               *)
SharedKey == [u \in Users |-> k1]

(* Moderation and the names of presence meet only in the connections'        *)
(* own steps: a behaviour has requests, or key changes and failed lookups.   *)
OneTrouble ==
  \/ \A r \in Requests : request[r].step = "dropped" /\ request[r].user = alice
  \/ renamings = MaxRenamings

MCInit == Init /\ OneTrouble

MCFairSpec == MCInit /\ [][Next]_vars /\ Fairness
==============================================================================
