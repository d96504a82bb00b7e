---------------------------- MODULE MCOnboarding ----------------------------
EXTENDS Onboarding, TLC

Symmetry == Permutations(Ids) \cup Permutations(Servers)
==============================================================================
