-------------------------------- MODULE MCFido --------------------------------
EXTENDS Fido, TLC

Symmetry == Permutations(RelyingParties) \cup Permutations(Ids)
=============================================================================
