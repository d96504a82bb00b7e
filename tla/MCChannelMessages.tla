-------------------------- MODULE MCChannelMessages --------------------------
(* Instances of ChannelMessages for TLC.                                     *)
EXTENDS ChannelMessages, TLC

Symmetry == Permutations(Fetches)
===============================================================================
