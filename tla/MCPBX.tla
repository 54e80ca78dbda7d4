------------------------------- MODULE MCPBX -------------------------------
EXTENDS PBXProperties, TLC

Symmetry == Permutations(Conns)

=============================================================================
