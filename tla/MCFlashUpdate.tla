--------------------------- MODULE MCFlashUpdate ---------------------------
(* FlashUpdate with the constants of its .cfg; the contents of images are  *)
(* interchangeable.                                                        *)
EXTENDS FlashUpdate, TLC

MCSymmetry == Permutations(Data)
============================================================================
