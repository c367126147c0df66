------------------------ MODULE MCMutationCoordinator -----------------------
\* One project with two environments.
EXTENDS MutationCoordinator
CONSTANTS e1, e2, p1, p2, o1, o2, o3, w1, w2

TwoEnvironments == [e \in {e1, e2} |-> p1]
=============================================================================
