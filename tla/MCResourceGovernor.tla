------------------------- MODULE MCResourceGovernor -------------------------
(* An instance of ResourceGovernor for TLC: two processes, one of which    *)
(* may be held up, and requests of which only the two smaller fit together. *)
EXTENDS ResourceGovernor, TLC

CONSTANTS r1, r2, r3, o1, o2

Processes == (r1 :> o1) @@ (r2 :> o2) @@ (r3 :> o2)
Limits == ("agent" :> 2) @@ ("memoryMiB" :> 3)
Sizes == (r1 :> ("agent" :> 1 @@ "memoryMiB" :> 1))
      @@ (r2 :> ("agent" :> 1 @@ "memoryMiB" :> 3))
      @@ (r3 :> ("agent" :> 1 @@ "memoryMiB" :> 2))
=============================================================================
