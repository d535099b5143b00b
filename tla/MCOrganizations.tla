--------------------------- MODULE MCOrganizations ---------------------------
EXTENDS Organizations, TLC
Symmetry == Permutations(Users) \cup Permutations(Orgs \ Named) \cup Permutations(Invs)
            \cup Permutations(Requests)
===============================================================================
