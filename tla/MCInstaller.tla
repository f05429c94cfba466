------------------------------ MODULE MCInstaller ------------------------------
(***************************************************************************)
(* Two releases, one content of the operator and two stamps: a run that    *)
(* dies, another that backs up what the first has left, and an upgrade.    *)
(* Stamps are alike: nothing looks at which one a backup has.              *)
(***************************************************************************)
EXTENDS Installer, TLC

Alike == Permutations(Stamps)

=============================================================================
