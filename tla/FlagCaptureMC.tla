--------------------------- MODULE FlagCaptureMC ---------------------------
(* Small instances of FlagCapture. *)
EXTENDS FlagCapture, TLC

CONSTANTS red, blue, flag, cube   \* the teams and the items

\* Two robots against one: two members of a team meet on one item.
Robots3 == {1, 2, 3}
Teams3 == (1 :> red) @@ (2 :> blue) @@ (3 :> red)

\* One robot a side.
Robots2 == {1, 2}
Teams2 == (1 :> red) @@ (2 :> blue)
=============================================================================
