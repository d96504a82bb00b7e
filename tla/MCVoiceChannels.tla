--------------------------- MODULE MCVoiceChannels ---------------------------
(* Small instances of VoiceChannels for TLC.                                *)
EXTENDS VoiceChannels, TLC

CONSTANTS alice, bob, lobby, den, c3

(* Alice is connected twice, or reconnects before the old socket is noticed; *)
(* bob speaks through c3.                                                    *)
AliceTwice == [c \in Conns |-> IF c = c3 THEN bob ELSE alice]

(* The lobby takes a single user, the den has no limit.                      *)
TightLobby == lobby :> 1 @@ den :> 0
==============================================================================
