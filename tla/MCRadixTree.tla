---------------------------- MODULE MCRadixTree ----------------------------
EXTENDS RadixTree, TLC

\* Three pages: two that share both inner nodes, and a third that shares one.
ThreePages == { <<1, 1, 1>>, <<1, 1, 2>>, <<1, 2, 1>> }

Symmetry == Permutations(Thread) \cup Permutations(Node)
=============================================================================
