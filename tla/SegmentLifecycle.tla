-------------------------- MODULE SegmentLifecycle --------------------------
(***************************************************************************)
(* What becomes of one segment on its way to the translator, whatever the  *)
(* tasks of a session do: it is detected, becomes final, is queued once    *)
(* and handled once, or it is dropped, and then never queued.              *)
(* StreamingPipeline and Conversation implement it.                        *)
(***************************************************************************)
CONSTANT Segments

VARIABLE stage

Stages == {"none", "live", "final", "queued", "handled", "dropped"}

\* The stages a segment can go to in one step.
Follows(a) ==
  CASE a = "none"   -> {"live"}
    [] a = "live"   -> {"final", "queued", "dropped"}
    [] a = "final"  -> {"queued", "dropped"}
    [] a = "queued" -> {"handled"}
    [] OTHER        -> {}

Init == stage = [s \in Segments |-> "none"]

Next ==
  /\ stage' \in [Segments -> Stages]
  /\ \A s \in Segments : stage'[s] = stage[s] \/ stage'[s] \in Follows(stage[s])

Spec == Init /\ [][Next]_stage

=============================================================================
