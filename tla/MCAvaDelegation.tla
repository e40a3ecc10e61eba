-------------------------- MODULE MCAvaDelegation --------------------------
EXTENDS AvaDelegation, TLC

Interchangeable == Permutations(Keys) \cup Permutations(Messages)
=============================================================================
