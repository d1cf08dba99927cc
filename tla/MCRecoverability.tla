--------------------------- MODULE MCRecoverability ---------------------------
(* Two callers, the second of which needs a longer validity than the first. *)
EXTENDS Recoverability, TLC

CONSTANTS c1, c2
Pair == {c1, c2}
Longer == c1 :> 1 @@ c2 :> 2
One == {c1}
Short == c1 :> 1
=============================================================================
