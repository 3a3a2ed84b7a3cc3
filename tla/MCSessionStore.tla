---------------------------- MODULE MCSessionStore ----------------------------
(* SessionStore with its files made interchangeable for TLC: which inode a *)
(* new file gets is of no consequence.                                     *)
EXTENDS SessionStore, TLC

InodeSymmetry == Permutations(Inodes)
=============================================================================
