----------------------------- MODULE MCPipeLabs -----------------------------
(* A small instance of PipeLabs for TLC.                                   *)
EXTENDS PipeLabs

\* Two numbers whose sum overflows an int of four bits, a negative one, and
\* the ending.
FewNumbers == {-3, 0, 5, 6}
=============================================================================
