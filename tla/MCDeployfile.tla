---------------------------- MODULE MCDeployfile ----------------------------
EXTENDS Deployfile, TLC

CONSTANTS d, s1, s2, f1, f2

Symmetry == Permutations(Fragments)

Paths == <<s1, s2>>

\* Two entries where they matter most: diamonds, and a Deployfile that includes its stage.
Sizes == [f \in Files |-> IF f \in Fragments THEN 1 ELSE 2]

\* Fields of one file, and fields two files compete for.
Shared == {p \in SUBSET Files : Cardinality(p) \in 1..2}

=============================================================================
