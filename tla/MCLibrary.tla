----------------------------- MODULE MCLibrary -----------------------------
(***************************************************************************)
(* An instance of Library for TLC.                                         *)
(***************************************************************************)
EXTENDS Library, TLC

CONSTANTS ann, bob, cat, rec1, rec2, show1, show2
=============================================================================
