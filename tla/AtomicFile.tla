------------------------------ MODULE AtomicFile ------------------------------
(***************************************************************************)
(* What a scoped file operation promises its callers: at one instant the   *)
(* file turns from its preimage into its postimage.  Programs outside the  *)
(* repository may write the file at any time, which ends the promise.      *)
(***************************************************************************)
VARIABLES
  image,  \* "before" or "after" the operation, or "foreign"
  done    \* the operation has taken effect

Init == image = "before" /\ done = FALSE

Commit == ~ done /\ image = "before" /\ image' = "after" /\ done' = TRUE

OutsideWrites == image' = "foreign" /\ done' \in BOOLEAN

Next == Commit \/ OutsideWrites

Spec == Init /\ [][Next]_<<image, done>>
=============================================================================
