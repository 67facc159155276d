---------------------------- MODULE MCLineEditor ----------------------------
(* LineEditor with the constants of its .cfg; the characters that are typed *)
(* are alike.                                                               *)
EXTENDS LineEditor
Symmetry == Permutations(Chars)
=============================================================================
