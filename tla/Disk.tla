-------------------------------- MODULE Disk --------------------------------
(***************************************************************************)
(* What the block cache promises: a disk on which a block, once written,   *)
(* reads as written, and of which everything survives a crash that was     *)
(* carried over to the medium before it.  When that happens is not said.   *)
(***************************************************************************)
CONSTANTS Block, Value

VARIABLES seen,   \* what reading a block gives
          stable  \* what the medium holds

Init == seen \in [Block -> Value] /\ stable = seen

Write == stable' = stable /\ \E b \in Block, v \in Value : seen' = [seen EXCEPT ![b] = v]

(* Any of the blocks written so far may be carried over. *)
CarryOver ==
    /\ seen' = seen
    /\ stable' \in {f \in [Block -> Value] : \A b \in Block : f[b] \in {stable[b], seen[b]}}

Crash == stable' = stable /\ seen' = stable

Next == CarryOver \/ Write \/ Crash

Spec == Init /\ [][Next]_<<seen, stable>>
=============================================================================
