----------------------------- MODULE MCDocuments -----------------------------
EXTENDS Documents, TLC

CONSTANTS a1, a2, p1, p2

\* Each Activity belongs to another Partner.
OwnerOf == [a \in Activity |-> IF a = a1 THEN p1 ELSE p2]

\* Users have any roles at the start, and documents are drawn in any order.
Symmetry == Permutations(User) \union Permutations(Document)
=============================================================================
