------------------------------ MODULE MCFiles ------------------------------
(* Instances of Files for TLC.                                             *)
EXTENDS FilesProperties, TLC

Symmetric == Permutations(Names) \cup Permutations(Handles)
=============================================================================
