----------------------------- MODULE MCSession -----------------------------
(* Small instances of Session for TLC.                                     *)
EXTENDS SessionRefinement, TLC

\* Sessions are interchangeable, and so are consumer threads.
SessionSymmetry == Permutations(Clients) \cup Permutations(Consumers)
=============================================================================
