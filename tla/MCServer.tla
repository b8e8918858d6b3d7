------------------------------ MODULE MCServer ------------------------------
(* Small instances of Server for TLC.                                      *)
EXTENDS ServerRefinement, TLC

\* Consumers are interchangeable: no action or property names one.
ConsumerSymmetry == Permutations(Consumers)
=============================================================================
