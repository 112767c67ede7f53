---------------------------- MODULE MCImagePool ----------------------------
(* ImagePool with interchangeable block addresses.                         *)
EXTENDS ImagePool, TLC

SymmetricBlocks == Permutations(Blocks)
=============================================================================
