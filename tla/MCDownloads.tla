---------------------------- MODULE MCDownloads ----------------------------
(* Downloads with interchangeable models.                                  *)
EXTENDS Downloads, TLC
Symmetric == Permutations(Model)
=============================================================================
