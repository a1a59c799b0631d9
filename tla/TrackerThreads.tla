--------------------------- MODULE TrackerThreads ---------------------------
(***************************************************************************)
(* The steps inside the calls of a tracker (streaming_policy.py) when two  *)
(* threads make them at once.  run_asr_* calls update_from_hypothesis in   *)
(* an executor thread; the event loop calls force_finalize_all when a      *)
(* release timer fires or the host stops, and at stop update_from_hypothesis *)
(* with no hypotheses.  No lock keeps them apart.                          *)
(*                                                                         *)
(* SegmentTracker has the tests on texts and times.  Here a segment is its *)
(* id, its text the number of times it was written, and a test on texts or *)
(* times is a choice.  What matters is which list object a thread holds    *)
(* and what it has read of it.  `lists` has every list object that         *)
(* cumulative_segments was ever bound to.  A thread may be interrupted     *)
(* between any two steps below.  list.sort empties the list while the sort *)
(* keys are computed, and raises ValueError when something was appended    *)
(* meanwhile: CPython notes that in the list's `allocated` field.          *)
(***************************************************************************)
EXTENDS Integers, Sequences, FiniteSets, SequencesExt

CONSTANTS
  None,
  MaxSegs,      \* bound: segments opened
  MaxHyps,      \* bound: hypotheses of one update
  MaxUpdates,   \* bound: updates of the executor thread
  MaxForced     \* bound: calls of the event loop

ThreadsAssumption ==
  /\ None \notin Nat
  /\ {MaxSegs, MaxHyps, MaxUpdates, MaxForced} \subseteq Nat

Threads == {"executor", "loop"}

VARIABLES
  next_id,
  written,      \* [segment -> how often its text was written]
  final,        \* the segments whose final flag is set
  finalized,    \* finalized_segments
  untouched,    \* nothing was appended to it since a sort began
  lists,        \* list objects, in the order of their creation
  cumulative,   \* which of them cumulative_segments is bound to
  thread,       \* [thread -> its local variables]
  calls,        \* [thread -> number of calls made]
  handed,       \* history: [thread -> segments its calls returned]
  cut,          \* history: segments that a raising sort dropped
  settledAt,    \* history: [segment -> writings when it became final]
  shared        \* history: segments opened by an update that met another call

data == <<next_id, written, final, finalized, untouched, lists, cumulative>>
history == <<handed, cut, settledAt, shared>>
vars == <<data, thread, calls, history>>

Segments == 0..(next_id - 1)

Idle ==
  [pc |-> "idle", hyps |-> 0, at |-> 0, i |-> 0, hit |-> None, still |-> <<>>,
   newly |-> <<>>, saved |-> <<>>, mark |-> TRUE, met |-> FALSE, opened |-> {}]

Init ==
  /\ next_id = 0
  /\ written = <<>>
  /\ final = {}
  /\ finalized = <<>>
  /\ untouched = FALSE
  /\ lists = <<<<>>>>
  /\ cumulative = 1
  /\ thread = [t \in Threads |-> Idle]
  /\ calls = [t \in Threads |-> 0]
  /\ handed = [t \in Threads |-> <<>>]
  /\ cut = {}
  /\ settledAt = <<>>
  /\ shared = {}

At(t, pc) == thread[t].pc = pc

Go(t, r) == thread' = [thread EXCEPT ![t] = r]
----------------------------------------------------------------------------
(* A call begins.  Calls under way at the same time have met each other.   *)

Meet(t, r) ==
  LET running == {o \in Threads \ {t} : ~At(o, "idle")}
  IN /\ thread' = [o \in Threads |->
                     IF o = t THEN [r EXCEPT !.met = running # {}]
                     ELSE IF o \in running THEN [thread[o] EXCEPT !.met = TRUE]
                     ELSE thread[o]]
     /\ shared' = shared \cup UNION {thread[o].opened : o \in running}

UpdateFromHypothesis(n) ==
  /\ At("executor", "idle")
  /\ calls["executor"] < MaxUpdates
  /\ calls' = [calls EXCEPT !["executor"] = @ + 1]
  /\ Meet("executor", [Idle EXCEPT !.pc = "ingest", !.hyps = n])
  /\ UNCHANGED <<data, handed, cut, settledAt>>

\* The stop sequence's update without hypotheses.
UpdateAtStop ==
  /\ At("loop", "idle")
  /\ calls["loop"] < MaxForced
  /\ calls' = [calls EXCEPT !["loop"] = @ + 1]
  /\ Meet("loop", [Idle EXCEPT !.pc = "ingest"])
  /\ UNCHANGED <<data, handed, cut, settledAt>>

ForceFinalizeAll ==
  /\ At("loop", "idle")
  /\ calls["loop"] < MaxForced
  /\ calls' = [calls EXCEPT !["loop"] = @ + 1]
  /\ Meet("loop", [Idle EXCEPT !.pc = "force", !.at = cumulative, !.i = 1])
  /\ UNCHANGED <<data, handed, cut, settledAt>>
----------------------------------------------------------------------------
(* _ingest_hypothesis_segment: first the search, then what it leads to.    *)

\* A hypothesis finds a live segment (its text or its neighbour), or none.
FindMatch(t) ==
  /\ At(t, "ingest") /\ thread[t].hyps > 0
  /\ \E s \in (ToSet(lists[cumulative]) \ final) \cup {None} :
       /\ s = None => next_id < MaxSegs
       /\ Go(t, [thread[t] EXCEPT !.pc = "apply", !.hyps = @ - 1,
                                  !.hit = s, !.at = cumulative])
  /\ UNCHANGED <<data, calls, history>>

\* The match is written, whatever has become of it since.
UpdateExisting(t) ==
  /\ At(t, "apply") /\ thread[t].hit # None
  /\ written' = [written EXCEPT ![thread[t].hit + 1] = @ + 1]
  /\ Go(t, [thread[t] EXCEPT !.pc = "ingest", !.hit = None])
  /\ UNCHANGED <<next_id, final, finalized, untouched, lists, cumulative, calls, history>>

\* The new segment is appended to the list object looked up before.
CreateNew(t) ==
  /\ At(t, "apply") /\ thread[t].hit = None
  /\ lists' = [lists EXCEPT ![thread[t].at] = Append(@, next_id)]
  /\ written' = Append(written, 1)
  /\ next_id' = next_id + 1
  /\ settledAt' = Append(settledAt, None)
  /\ shared' = IF thread[t].met THEN shared \cup {next_id} ELSE shared
  /\ Go(t, [thread[t] EXCEPT !.pc = "ingest", !.opened = @ \cup {next_id}])
  /\ UNCHANGED <<final, finalized, untouched, cumulative, calls, handed, cut>>

----------------------------------------------------------------------------
(* _finalize_stale and the loop of force_finalize_all.                     *)

StaleBegins(t) ==
  /\ At(t, "ingest")
  /\ thread[t].hyps = 0
  /\ Go(t, [thread[t] EXCEPT !.pc = "stale", !.at = cumulative, !.i = 1])
  /\ UNCHANGED <<data, calls, history>>

Scanning(t) ==
  /\ At(t, "stale") \/ At(t, "force")
  /\ thread[t].hit = None

Current(t) == lists[thread[t].at][thread[t].i]

\* Mutant: the final flag is not tested.
FindsAny(t) ==
  /\ Scanning(t) /\ thread[t].i <= Len(lists[thread[t].at])
  /\ Go(t, [thread[t] EXCEPT !.hit = Current(t)])
  /\ UNCHANGED <<data, calls, history>>

SkipsFinal(t) ==
  /\ Scanning(t) /\ thread[t].i <= Len(lists[thread[t].at])
  /\ Current(t) \in final
  /\ Go(t, [thread[t] EXCEPT !.i = @ + 1])
  /\ UNCHANGED <<data, calls, history>>

\* Mutant: what is not stale yet is not kept.
KeepsNothing(t) ==
  /\ Scanning(t) /\ thread[t].i <= Len(lists[thread[t].at])
  /\ At(t, "stale")
  /\ Current(t) \notin final
  /\ Go(t, [thread[t] EXCEPT !.i = @ + 1])
  /\ UNCHANGED <<data, calls, history>>

\* Not stale yet.
KeepsLive(t) ==
  /\ Scanning(t) /\ thread[t].i <= Len(lists[thread[t].at])
  /\ At(t, "stale")
  /\ Current(t) \notin final
  /\ Go(t, [thread[t] EXCEPT !.i = @ + 1, !.still = Append(@, Current(t))])
  /\ UNCHANGED <<data, calls, history>>

FindsLive(t) ==
  /\ Scanning(t) /\ thread[t].i <= Len(lists[thread[t].at])
  /\ Current(t) \notin final
  /\ Go(t, [thread[t] EXCEPT !.hit = Current(t)])
  /\ UNCHANGED <<data, calls, history>>

Settle(t) ==
  /\ At(t, "stale") \/ At(t, "force")
  /\ thread[t].hit # None
  /\ LET s == thread[t].hit
     IN /\ final' = final \cup {s}
        /\ finalized' = Append(finalized, s)
        /\ settledAt' = [settledAt EXCEPT ![s + 1] = IF @ = None THEN written[s + 1] ELSE @]
        /\ Go(t, [thread[t] EXCEPT !.hit = None, !.i = @ + 1, !.newly = Append(@, s)])
  /\ untouched' = FALSE
  /\ UNCHANGED <<next_id, written, lists, cumulative, calls, handed, cut, shared>>

ScanEnds(t) ==
  /\ Scanning(t) /\ thread[t].i > Len(lists[thread[t].at])
  /\ Go(t, [thread[t] EXCEPT !.pc = "replace"])
  /\ UNCHANGED <<data, calls, history>>

\* Mutant: the loop's own list stays bound, with the final segments on it.
ReplaceNothing(t) ==
  /\ At(t, "replace")
  /\ Go(t, [thread[t] EXCEPT !.pc = "sort"])
  /\ UNCHANGED <<data, calls, history>>

\* cumulative_segments is bound to a list of its own: what is still live, or none.
ReplaceList(t) ==
  /\ At(t, "replace")
  /\ lists' = Append(lists, thread[t].still)
  /\ cumulative' = Len(lists) + 1
  /\ Go(t, [thread[t] EXCEPT !.pc = "sort"])
  /\ UNCHANGED <<next_id, written, final, finalized, untouched, calls, history>>
----------------------------------------------------------------------------
(* finalized_segments.sort, and the return.                                *)

Sorted(s) == SetToSortSeq(DOMAIN s, LAMBDA i, j : s[i] < s[j] \/ (s[i] = s[j] /\ i < j))

InIdOrder(s) == [i \in DOMAIN s |-> s[Sorted(s)[i]]]

Return(t) ==
  /\ Go(t, Idle)
  /\ handed' = [handed EXCEPT ![t] = @ \o thread[t].newly]

\* No key is computed for an empty list, so nothing can come in between.
SortNothing(t) ==
  /\ At(t, "sort") /\ finalized = <<>>
  /\ Return(t)
  /\ UNCHANGED <<data, calls, cut, settledAt, shared>>

SortBegins(t) ==
  /\ At(t, "sort") /\ finalized # <<>>
  /\ finalized' = <<>>
  /\ untouched' = TRUE
  /\ Go(t, [thread[t] EXCEPT !.pc = "sorting", !.saved = finalized, !.mark = untouched])
  /\ UNCHANGED <<next_id, written, final, lists, cumulative, calls, history>>

SortEnds(t) ==
  /\ At(t, "sorting")
  /\ finalized' = InIdOrder(thread[t].saved)
  /\ untouched' = thread[t].mark
  /\ \/ /\ untouched
        /\ Return(t)
        /\ UNCHANGED cut
     \/ /\ ~untouched     \* ValueError: list modified during sort
        /\ Go(t, Idle)
        /\ cut' = cut \cup ToSet(finalized) \cup ToSet(thread[t].newly)
        /\ UNCHANGED handed
  /\ UNCHANGED <<next_id, written, final, lists, cumulative, calls, settledAt, shared>>

Step(t) ==
  \/ FindMatch(t) \/ UpdateExisting(t) \/ CreateNew(t)
  \/ StaleBegins(t) \/ SkipsFinal(t) \/ KeepsLive(t) \/ FindsLive(t) \/ Settle(t)
  \/ ScanEnds(t) \/ ReplaceList(t) \/ SortNothing(t) \/ SortBegins(t) \/ SortEnds(t)

Next ==
  \/ \E n \in 1..MaxHyps : UpdateFromHypothesis(n)
  \/ UpdateAtStop
  \/ ForceFinalizeAll
  \/ \E t \in Threads : Step(t)

Spec == Init /\ [][Next]_vars
----------------------------------------------------------------------------
(* Properties. *)

ThreadOK(r) ==
  /\ r.pc \in {"idle", "ingest", "apply", "stale", "force", "replace", "sort", "sorting"}
  /\ r.hyps \in 0..MaxHyps
  /\ r.at \in 0..Len(lists)
  /\ r.hit \in Segments \cup {None}
  /\ {r.still, r.newly, r.saved} \subseteq Seq(Segments)

TypeOK ==
  /\ next_id \in 0..MaxSegs
  /\ written \in Seq(Nat) /\ Len(written) = next_id
  /\ final \subseteq Segments
  /\ finalized \in Seq(Segments)
  /\ lists \in Seq(Seq(Segments))
  /\ cumulative \in DOMAIN lists
  /\ \A t \in Threads : ThreadOK(thread[t]) /\ handed[t] \in Seq(Segments)
  /\ cut \cup shared \subseteq Segments

(* No thread hands a segment out twice, so a segment that was tested by    *)
(* both at once is translated twice at most.                               *)
HandedOncePerThread == \A t \in Threads : IsInjective(handed[t] \o thread[t].newly)

(* Whatever became final is handed to a caller and is on the final list,   *)
(* or a call that is under way has it; a sort that raises is the one way   *)
(* to drop it.                                                             *)
FinalIsHandedAndKept ==
  \A s \in final \ cut :
    /\ \E t \in Threads : s \in ToSet(handed[t]) \cup ToSet(thread[t].newly)
    /\ s \in ToSet(finalized) \cup UNION {ToSet(thread[t].saved) : t \in Threads}

(* A final segment is written once more at most, by the hypothesis that    *)
(* had found it before it was final.                                       *)
WrittenOnceMoreAtMost ==
  \A s \in final : written[s + 1] <= settledAt[s + 1] + 1

(* What is left, without a lock, of "returned once, then frozen".          *)
FinalsOK == TypeOK /\ HandedOncePerThread /\ FinalIsHandedAndKept /\ WrittenOnceMoreAtMost

StillLive == ToSet(lists[cumulative])

(* A segment that is neither final nor live any more was opened by an      *)
(* update that another thread's call met: an update that ran alone loses   *)
(* nothing, then or when later calls meet.                                 *)
OnlyMeetingUpdatesLose == Segments \ (final \cup StillLive) \subseteq shared

(* A final segment on the live list, which the pages would be shown twice, *)
(* is gone when a call has run that no other call met.                     *)
CallAloneClearsFinal ==
  [][\A t \in Threads :
       thread[t].pc # "idle" /\ ~thread[t].met /\ thread'[t].pc = "idle"
         => ToSet(lists'[cumulative']) \cap final' = {}]_vars

=============================================================================
