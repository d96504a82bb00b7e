---------------------------- MODULE MCReadMarkers ----------------------------
(* An instance of ReadMarkers for TLC: a channel that has a message and gets *)
(* another, and one that is empty.                                           *)
EXTENDS ReadMarkers

CONSTANTS busy, calm

BusyAndCalm == {busy, calm}
MCStored == [c \in BusyAndCalm |-> IF c = busy THEN 1 ELSE 0]
MCWrites == [c \in BusyAndCalm |-> IF c = busy THEN 1 ELSE 0]
===============================================================================
