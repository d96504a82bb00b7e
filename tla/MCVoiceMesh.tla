----------------------------- MODULE MCVoiceMesh -----------------------------
EXTENDS VoiceMesh

CONSTANTS lobby, den

TwoClients == {1, 2}

(* den is for one, lobby for all.                                          *)
DenForOne == [ch \in Rooms |-> IF ch = den THEN 1 ELSE 0]

(* Client 1 joins and stays, client 2 moves, or leaves and joins anew.      *)
JoinsOf == <<1, 2>>
LeavesOf == <<0, 1>>
==============================================================================
