-------------------------- MODULE TranscriptLedger --------------------------
(***************************************************************************)
(* What the transcript of one session promises to its readers, without     *)
(* times, texts or speakers.  An utterance is an entry: a number and a     *)
(* body.  It is opened under the next free number, may be revised while it *)
(* is live, is settled once, and is never lost, reopened or rewritten      *)
(* after that.  SegmentTracker implements it.                              *)
(***************************************************************************)
EXTENDS Naturals

VARIABLES
  next,                  \* the number of the next utterance
  live,                  \* entries that may still be revised
  settled                \* entries that will not change any more

vars == <<next, live, settled>>

Init ==
  /\ next = 0
  /\ live = {}
  /\ settled = {}

Open ==
  /\ \E e \in live' : e.id = next /\ live' = live \cup {e}
  /\ next' = next + 1
  /\ UNCHANGED settled

Revise ==
  /\ \E e \in live, f \in live' : f.id = e.id /\ live' = (live \ {e}) \cup {f}
  /\ UNCHANGED <<next, settled>>

Settle ==
  /\ live' \subseteq live
  /\ settled' = settled \cup (live \ live')
  /\ UNCHANGED next

Next == Open \/ Revise \/ Settle

Spec == Init /\ [][Next]_vars

=============================================================================
