------------------------- MODULE MCProviderGateway -------------------------
EXTENDS ProviderGateway, TLC
SmallAndLarge == [d \in Digests |-> IF d = "large" THEN 2 ELSE 1]
Symmetry == Permutations(Requests) \cup Permutations(Calls) \cup Permutations(Auths)
=============================================================================
