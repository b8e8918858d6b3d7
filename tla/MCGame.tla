------------------------------- MODULE MCGame -------------------------------
(* Small instances of Game for TLC.                                        *)
EXTENDS Game, TLC

\* Boards as they look on the screen, the top row first.
Screen(rows) == [p \in Points |-> rows[GRID_SIZE - p[2]][p[1] + 1]]
A == "RED"
R == "ROCK"
P == "PAPER"

\* Without a line, but two swaps in the upper right make one: of RED, which
\* only explodes itself, or of ROCK.
Ripe == Screen(<< <<A, A, R>>, <<P, R, A>>, <<A, R, P>> >>)
\* With a line, and different from Ripe everywhere.
Lined == Screen(<< <<P, P, P>>, <<R, A, R>>, <<R, A, A>> >>)
FewRolls == {Ripe, Lined}
=============================================================================
