---------------------------- MODULE MCRemoteSaves ----------------------------
(* Symmetry for checking RemoteSaves: the contents of saves are            *)
(* interchangeable, and no safety property names one.                      *)
EXTENDS RemoteSaves, TLC

VersionSymmetry == Permutations(Versions)

=============================================================================
