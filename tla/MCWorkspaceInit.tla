---------------------------- MODULE MCWorkspaceInit ----------------------------
(***************************************************************************)
(* Instances of WorkspaceInit for TLC.                                     *)
(***************************************************************************)
EXTENDS WorkspaceInit, TLC

VersionSymmetry == Permutations(Version)

=============================================================================
