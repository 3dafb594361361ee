-------------------------- MODULE MCBlockRegistry --------------------------
EXTENDS BlockRegistry, TLC

Symmetry == Permutations(Blocks) \cup Permutations(Commands)
=============================================================================
