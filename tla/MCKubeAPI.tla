------------------------------ MODULE MCKubeAPI ------------------------------
(* A small instance of KubeAPI for TLC.                                      *)
EXTENDS KubeAPI, TLC

LaunchSymmetry == Permutations(Launches)
===============================================================================
