--------------------------- MODULE MCConfirmations --------------------------
\* Two operations, in one scope or in one scope each.
EXTENDS Confirmations
CONSTANTS h1, h2, s1, s2, c1, c2, w1

TwoScopes == [h \in {h1, h2} |-> IF h = h1 THEN s1 ELSE s2]
Swap == h1 :> h2 @@ h2 :> h1 @@ s1 :> s2 @@ s2 :> s1
\* Calls are alike; so are the two operations, with their scopes.
Symmetry == Permutations(Calls) \union {Swap} \union {p @@ Swap : p \in Permutations(Calls)}
=============================================================================
