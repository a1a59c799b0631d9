------------------------ MODULE SegmentTrackerProofs ------------------------
(***************************************************************************)
(* Proofs about SegmentTracker for every vocabulary, every set of ASR      *)
(* windows and any number of calls.  What the three ways of folding a      *)
(* hypothesis do to the live segments is stated once (IngestShape); the    *)
(* invariants and the refinement of TranscriptLedger follow from it.       *)
(***************************************************************************)
EXTENDS SegmentTracker, SequenceTheorems, TLAPS

(* s is replaced by u, the same segment with new text, times or speaker,   *)
(* all of them its own or those of a compatible hypothesis h.              *)
Revises(h, s, u) ==
  /\ s \in cumulative_segments
  /\ ~s.final
  /\ s.speaker_id = h.speaker_id \/ IsCompatibleSegment(h, s)
  /\ u.speaker_id \in {s.speaker_id, h.speaker_id}
  /\ u.speaker_role \in {s.speaker_role, h.speaker_role}
  /\ ToSet(u.src) \subseteq ToSet(s.src) \cup ToSet(h.text)
  /\ u \in Segment
  /\ u.id = s.id
  /\ ~u.final
  /\ cumulative_segments' = (cumulative_segments \ {s}) \cup {u}
  /\ UNCHANGED <<next_id, finalized_segments>>

(* u, made of hypothesis h, is appended under the next id.                 *)
Opens(h, u) ==
  /\ u.speaker_id = h.speaker_id /\ u.speaker_role = h.speaker_role
  /\ u.src = h.text
  /\ u \in Segment
  /\ u.id = next_id
  /\ ~u.final
  /\ cumulative_segments' = cumulative_segments \cup {u}
  /\ next_id' = next_id + 1
  /\ UNCHANGED finalized_segments

(* The smaller and the larger of two time stamps are one of the two.       *)
LEMMA MinMaxPair ==
  ASSUME NEW a \in Int, NEW b \in Int
  PROVE  Min({a, b}) \in Int /\ Max({a, b}) \in Int
<1>1. \E x \in {a, b} : \A y \in {a, b} : x <= y
  <2>1. CASE a <= b  BY <2>1
  <2>2. CASE ~(a <= b)  BY <2>2
  <2>3. QED  BY <2>1, <2>2
<1>2. \E x \in {a, b} : \A y \in {a, b} : x >= y
  <2>1. CASE a >= b  BY <2>1
  <2>2. CASE ~(a >= b)  BY <2>2
  <2>3. QED  BY <2>1, <2>2
<1>3. QED  BY <1>1, <1>2 DEF Min, Max

(* Stripping final text off the front of a text leaves a text.             *)
LEMMA StripType ==
  ASSUME TypeOK, NEW t \in Texts, NEW r \in StripFinalizedPrefix(t)
  PROVE  r \in Texts /\ ToSet(r) \subseteq ToSet(t)
<1>1. CASE r = t  BY <1>1
<1>2. CASE r # t
  <2>1. PICK s \in finalized_segments : r = SubSeq(t, Len(s.src) + 1, Len(t))
    BY <1>2 DEF StripFinalizedPrefix, RecentlyFinalized
  <2>2. s.src \in Seq(Words) /\ t \in Seq(Words)
    BY <2>1 DEF TypeOK, Segment, Texts
  <2>3. Len(s.src) + 1 \in Int /\ Len(t) \in Int /\ Len(s.src) + 1 >= 1
    BY <2>2, LenProperties
  <2>4. \A i \in Len(s.src) + 1 .. Len(t) : t[i] \in Words
    BY <2>2, <2>3, ElementOfSeq
  <2>5. r \in Seq(Words)
    BY <2>1, <2>3, <2>4, SubSeqProperties
  <2>6. \A i \in DOMAIN r : \E j \in DOMAIN t : r[i] = t[j]
    <3> DEFINE m == Len(s.src) + 1
               n == Len(t)
    <3>1. r = SubSeq(t, m, n) /\ m \in Int /\ n \in Int /\ m >= 1
      BY <2>1, <2>3
    <3>2. \A i \in m .. n : t[i] \in Words
      BY <2>4
    <3>3. DOMAIN t = 1 .. n
      BY <2>2, LenProperties
    <3>4. DOMAIN r = 1 .. Len(r)
      BY <2>5, LenProperties
    <3> HIDE DEF m, n
    <3>5. /\ Len(r) = IF m <= n THEN n - m + 1 ELSE 0
          /\ \A i \in 1 .. n - m + 1 : r[i] = t[m + i - 1]
      BY <3>1, <3>2, SubSeqProperties
    <3>6. ASSUME NEW i \in DOMAIN r  PROVE \E j \in DOMAIN t : r[i] = t[j]
      <4>1. i \in 1 .. n - m + 1 /\ m + i - 1 \in 1 .. n
        BY <3>1, <3>4, <3>5
      <4>2. r[i] = t[m + i - 1]
        BY <4>1, <3>5
      <4>3. QED  BY <4>1, <4>2, <3>3
    <3>7. QED  BY <3>6
  <2>7. QED  BY <2>5, <2>6 DEF Texts, ToSet
<1>3. QED  BY <1>1, <1>2

(* The words of a concatenation are the words of its two parts.            *)
LEMMA ConcatWords ==
  ASSUME NEW a \in Texts, NEW b \in Texts
  PROVE  a \o b \in Texts /\ ToSet(a \o b) \subseteq ToSet(a) \cup ToSet(b)
<1>1. /\ a \o b \in Seq(Words)
      /\ Len(a \o b) = Len(a) + Len(b)
      /\ \A i \in 1 .. Len(a) + Len(b) :
           (a \o b)[i] = IF i <= Len(a) THEN a[i] ELSE b[i - Len(a)]
  BY ConcatProperties DEF Texts
<1>2. /\ Len(a) \in Nat /\ DOMAIN a = 1 .. Len(a)
      /\ Len(b) \in Nat /\ DOMAIN b = 1 .. Len(b)
      /\ DOMAIN (a \o b) = 1 .. Len(a \o b)
  BY <1>1, LenProperties DEF Texts
<1>3. ASSUME NEW i \in DOMAIN (a \o b)
      PROVE  (a \o b)[i] \in ToSet(a) \cup ToSet(b)
  <2>1. CASE i <= Len(a)
    <3>1. i \in DOMAIN a /\ (a \o b)[i] = a[i]  BY <1>1, <1>2, <2>1
    <3>2. QED  BY <3>1 DEF ToSet
  <2>2. CASE ~(i <= Len(a))
    <3>1. i - Len(a) \in DOMAIN b /\ (a \o b)[i] = b[i - Len(a)]  BY <1>1, <1>2, <2>2
    <3>2. QED  BY <3>1 DEF ToSet
  <2>3. QED  BY <2>1, <2>2
<1>4. QED  BY <1>1, <1>3 DEF Texts, ToSet

(* update_existing rewrites one live segment in place.                     *)
LEMMA UpdateShape ==
  ASSUME TypeOK, NEW h \in Hypothesis, UpdateExisting(h)
  PROVE  \E s, u : Revises(h, s, u)
<1>1. PICK s \in First(Matching(h)) :
        LET stretched == [s EXCEPT !.abs_start = Min({@, h.start}),
                                   !.abs_end = Max({@, h.end})]
            rewritten == [stretched EXCEPT
                           !.src = h.text,
                           !.src_lang = h.lang,
                           !.speaker_id = IF h.speaker_id = None THEN @ ELSE h.speaker_id,
                           !.speaker_role = IF h.speaker_role = None THEN @ ELSE h.speaker_role]
            muchShorter == 10 * CharLen(h.text) < 7 * CharLen(s.src)
        IN cumulative_segments' = (cumulative_segments \ {s})
                                    \cup {IF muchShorter THEN stretched ELSE rewritten}
  BY DEF UpdateExisting
<1> DEFINE stretched == [s EXCEPT !.abs_start = Min({@, h.start}),
                                  !.abs_end = Max({@, h.end})]
           rewritten == [stretched EXCEPT
                           !.src = h.text,
                           !.src_lang = h.lang,
                           !.speaker_id = IF h.speaker_id = None THEN @ ELSE h.speaker_id,
                           !.speaker_role = IF h.speaker_role = None THEN @ ELSE h.speaker_role]
<1>2. /\ s \in cumulative_segments /\ ~s.final /\ s \in Segment
      /\ IsCompatibleSegment(h, s)
  BY DEF First, Matching, TypeOK
<1>3. /\ stretched \in Segment /\ stretched.id = s.id /\ stretched.final = s.final
      /\ stretched.speaker_id = s.speaker_id
      /\ stretched.speaker_role = s.speaker_role
      /\ stretched.src = s.src
  <2>1. Min({s.abs_start, h.start}) \in Int /\ Max({s.abs_end, h.end}) \in Int
    BY <1>2, MinMaxPair DEF Segment, Hypothesis
  <2>2. QED  BY <1>2, <2>1 DEF Segment
<1>4. /\ rewritten \in Segment /\ rewritten.id = s.id /\ rewritten.final = s.final
      /\ rewritten.speaker_id \in {s.speaker_id, h.speaker_id}
      /\ rewritten.speaker_role \in {s.speaker_role, h.speaker_role}
      /\ rewritten.src = h.text
  <2> HIDE DEF stretched
  <2>1. QED  BY <1>3 DEF Segment, Hypothesis
<1>5. PICK u \in {stretched, rewritten} :
        cumulative_segments' = (cumulative_segments \ {s}) \cup {u}
  BY <1>1
<1>6. /\ u \in Segment /\ u.id = s.id /\ u.final = s.final
      /\ u.speaker_id \in {s.speaker_id, h.speaker_id}
      /\ u.speaker_role \in {s.speaker_role, h.speaker_role}
      /\ u.src \in {s.src, h.text}
  <2> HIDE DEF stretched, rewritten
  <2>1. QED  BY <1>3, <1>4, <1>5
<1>7. UNCHANGED <<next_id, finalized_segments>>
  BY DEF UpdateExisting
<1>8. ToSet(u.src) \subseteq ToSet(s.src) \cup ToSet(h.text)
  BY <1>6
<1>9. QED  BY <1>2, <1>5, <1>6, <1>7, <1>8 DEF Revises

(* merge_into_existing extends one live segment.                           *)
LEMMA MergeShape ==
  ASSUME TypeOK, NEW h \in Hypothesis, MergeIntoExisting(h)
  PROVE  \E s, u : Revises(h, s, u)
<1>1. PICK s \in First(Mergeable(h)) :
        cumulative_segments' = (cumulative_segments \ {s})
          \cup {[s EXCEPT !.src = @ \o h.text, !.abs_end = h.end]}
  BY DEF MergeIntoExisting
<1>2. /\ s \in cumulative_segments /\ ~s.final /\ s \in Segment
      /\ s.speaker_id = h.speaker_id
  BY DEF First, Mergeable, TypeOK
<1>3. /\ s.src \o h.text \in Texts
      /\ ToSet(s.src \o h.text) \subseteq ToSet(s.src) \cup ToSet(h.text)
  <2>1. s.src \in Texts /\ h.text \in Texts
    BY <1>2 DEF Segment, Hypothesis
  <2>2. QED  BY <2>1, ConcatWords
<1> DEFINE u == [s EXCEPT !.src = @ \o h.text, !.abs_end = h.end]
<1>4. /\ u \in Segment /\ u.id = s.id /\ u.final = s.final
      /\ u.speaker_id = s.speaker_id /\ u.speaker_role = s.speaker_role
      /\ u.src = s.src \o h.text
  BY <1>2, <1>3 DEF Segment, Hypothesis
<1>5. cumulative_segments' = (cumulative_segments \ {s}) \cup {u}
  BY <1>1
<1> HIDE DEF u
<1>6. ToSet(u.src) \subseteq ToSet(s.src) \cup ToSet(h.text)
  BY <1>3, <1>4
<1>7. QED  BY <1>2, <1>4, <1>5, <1>6 DEF Revises, MergeIntoExisting

(* create_new appends one live segment.                                    *)
LEMMA CreateShape ==
  ASSUME TypeOK, NEW h \in Hypothesis, CreateNew(h)
  PROVE  \E u : Opens(h, u)
<1>1. NewSegment(h) \in Segment
  BY DEF NewSegment, Segment, Hypothesis, TypeOK
<1>2. /\ NewSegment(h).id = next_id /\ ~NewSegment(h).final
      /\ NewSegment(h).speaker_id = h.speaker_id
      /\ NewSegment(h).speaker_role = h.speaker_role
      /\ NewSegment(h).src = h.text
  BY DEF NewSegment
<1>3. QED  BY <1>1, <1>2 DEF Opens, CreateNew

(* h is the next hypothesis, without a prefix that is final already.       *)
StrippedHead(h) ==
  /\ h \in Hypothesis
  /\ h.speaker_id = Head(hyps).speaker_id
  /\ h.speaker_role = Head(hyps).speaker_role
  /\ ToSet(h.text) \subseteq ToSet(Head(hyps).text)

(* Folding one hypothesis drops it, revises one live segment or opens one. *)
LEMMA IngestShape ==
  ASSUME TypeOK, IngestHypothesisSegment
  PROVE  \E h : /\ StrippedHead(h)
                /\ \/ UNCHANGED tracker
                   \/ \E s, u : Revises(h, s, u)
                   \/ \E u : Opens(h, u)
<1>1. Head(hyps) \in Hypothesis
  BY HeadTailProperties DEF TypeOK, IngestHypothesisSegment
<1>2. PICK t \in StripFinalizedPrefix(Head(hyps).text) :
        LET h == [Head(hyps) EXCEPT !.text = t]
        IN DropHypothesis(h) \/ UpdateExisting(h) \/ MergeIntoExisting(h) \/ CreateNew(h)
  BY DEF IngestHypothesisSegment
<1> DEFINE h == [Head(hyps) EXCEPT !.text = t]
<1>3. t \in Texts /\ ToSet(t) \subseteq ToSet(Head(hyps).text)
  BY <1>1, StripType DEF Hypothesis
<1>4. /\ h \in Hypothesis /\ h.text = t
      /\ h.speaker_id = Head(hyps).speaker_id
      /\ h.speaker_role = Head(hyps).speaker_role
  BY <1>1, <1>3 DEF Hypothesis
<1>5. DropHypothesis(h) \/ UpdateExisting(h) \/ MergeIntoExisting(h) \/ CreateNew(h)
  BY <1>2
<1> HIDE DEF h
<1>6. StrippedHead(h)
  BY <1>3, <1>4 DEF StrippedHead
<1>7. CASE DropHypothesis(h)  BY <1>6, <1>7 DEF DropHypothesis
<1>8. CASE UpdateExisting(h)  BY <1>4, <1>6, <1>8, UpdateShape
<1>9. CASE MergeIntoExisting(h)  BY <1>4, <1>6, <1>9, MergeShape
<1>10. CASE CreateNew(h)  BY <1>4, <1>6, <1>10, CreateShape
<1>11. QED  BY <1>5, <1>7, <1>8, <1>9, <1>10
-----------------------------------------------------------------------------
(* Type correctness. *)

(* Marking segments final changes their flag only.                         *)
LEMMA MarkFinalType ==
  ASSUME NEW S \in SUBSET Segment
  PROVE  MarkFinal(S) \subseteq Segment /\ Ids(MarkFinal(S)) = Ids(S)
<1>1. ASSUME NEW s \in S
      PROVE  [s EXCEPT !.final = TRUE] \in Segment /\ [s EXCEPT !.final = TRUE].id = s.id
  BY <1>1 DEF Segment
<1>2. QED  BY <1>1 DEF MarkFinal, Ids

(* Finalizing a set of live segments keeps the tracker and the results     *)
(* well typed.                                                             *)
LEMMA FinalizeType ==
  ASSUME TypeOK, NEW S \in SUBSET cumulative_segments, Finalize(S)
  PROVE  /\ next_id' \in Nat
         /\ finalized_segments' \subseteq Segment
         /\ cumulative_segments' \subseteq Segment
         /\ newly_finalized' \subseteq Nat
         /\ returned' \subseteq Nat
<1>1. S \subseteq Segment  BY DEF TypeOK
<1>2. MarkFinal(S) \subseteq Segment  BY <1>1, MarkFinalType
<1>3. Ids(S) \subseteq Nat  BY <1>1 DEF Ids, Segment
<1>4. QED  BY <1>2, <1>3 DEF Finalize, TypeOK

(* The initial state is well typed.                                        *)
LEMMA InitType == Init => TypeOK
<1> SUFFICES ASSUME Init  PROVE TypeOK
  OBVIOUS
<1>1. hyps \in Seq(Hypothesis)
  BY EmptySeq, Zenon DEF Init
<1>2. next_id \in Nat /\ now_sec \in Int /\ calls \in Nat
  BY DEF Init
<1>3. busy \in BOOLEAN
  BY Zenon DEF Init
<1>4. /\ finalized_segments = {} /\ cumulative_segments = {} /\ folded = {}
      /\ newly_finalized = {} /\ returned = {}
  BY DEF Init
<1>5. QED  BY <1>1, <1>2, <1>3, <1>4 DEF TypeOK

(* Every variable keeps its type: a tracker whose calls are given well     *)
(* typed windows holds well typed segments and returns ids.                *)
THEOREM TypeCorrect == Spec => []TypeOK
<1>1. Init => TypeOK
  BY InitType
<1>2. TypeOK /\ [Next]_vars => TypeOK'
  <2> SUFFICES ASSUME TypeOK, [Next]_vars  PROVE TypeOK'
    OBVIOUS
  <2>1. ASSUME NEW b \in Batches, NEW t \in Times, UpdateFromHypothesis(b, t)
        PROVE  TypeOK'
    BY <2>1, TrackerAssumption DEF UpdateFromHypothesis, TypeOK, tracker, result
  <2>2. CASE IngestHypothesisSegment
    <3>1. /\ next_id' \in Nat
          /\ finalized_segments' \subseteq Segment
          /\ cumulative_segments' \subseteq Segment
      BY <2>2, IngestShape DEF TypeOK, Revises, Opens, tracker
    <3>2. hyps' \in Seq(Hypothesis) /\ Head(hyps) \in Hypothesis
      BY <2>2, HeadTailProperties DEF IngestHypothesisSegment, TypeOK
    <3>3. folded' \subseteq Hypothesis
      BY <2>2, <3>2 DEF IngestHypothesisSegment, TypeOK
    <3>4. UNCHANGED <<busy, now_sec, result, calls>>
      BY <2>2 DEF IngestHypothesisSegment
    <3>5. QED  BY <3>1, <3>2, <3>3, <3>4 DEF TypeOK, result
  <2>3. CASE FinalizeStale
    BY <2>3, FinalizeType DEF FinalizeStale, TypeOK
  <2>4. CASE ForceFinalizeAll
    BY <2>4, FinalizeType DEF ForceFinalizeAll, TypeOK
  <2>5. CASE UNCHANGED vars
    BY <2>5 DEF vars, tracker, result, TypeOK
  <2>6. QED  BY <2>1, <2>2, <2>3, <2>4, <2>5 DEF Next
<1>3. QED  BY <1>1, <1>2, PTL DEF Spec
-----------------------------------------------------------------------------
(* Ids are unique, and what was returned is what is final.  IInv joins the *)
(* two with TypeOK: UniqueIds needs ids to be numbers, and the history     *)
(* variables need the ids to be unique.                                    *)

(* Finalizing moves ids from the live to the final segments.               *)
LEMMA FinalizeIds ==
  ASSUME IInv, NEW S \in SUBSET cumulative_segments, Finalize(S)
  PROVE  (UniqueIds /\ ReturnedIsFinal)'
<1>1. S \subseteq Segment /\ cumulative_segments \subseteq Segment
  BY DEF IInv, TypeOK
<1>2. \A u \in MarkFinal(S) : \E s \in S : u = [s EXCEPT !.final = TRUE]
  BY DEF MarkFinal
<1>3. ASSUME NEW s \in S
      PROVE  [s EXCEPT !.final = TRUE].id = s.id /\ [s EXCEPT !.final = TRUE].final
  BY <1>1, <1>3 DEF Segment
<1>4. \A u \in MarkFinal(S) : u.final /\ \E s \in S : u = [s EXCEPT !.final = TRUE] /\ u.id = s.id
  BY <1>2, <1>3
<1>5. cumulative_segments' = cumulative_segments \ S
  BY DEF Finalize, IInv, UniqueIds
<1>6. finalized_segments' = finalized_segments \cup MarkFinal(S) /\ next_id' = next_id
  BY DEF Finalize
<1>7. \A s, o \in S : s.id = o.id => s = o
  BY DEF IInv, UniqueIds, AllSegments
<1>8. \A s \in S, o \in finalized_segments \cup (cumulative_segments \ S) : s.id # o.id
  <2>1. \A s \in S, o \in finalized_segments : s # o
    BY DEF IInv, UniqueIds
  <2>2. QED  BY <2>1 DEF IInv, UniqueIds, AllSegments
<1>9. \A u, w \in AllSegments' : u.id = w.id => u = w
  <2> SUFFICES ASSUME NEW u \in AllSegments', NEW w \in AllSegments', u.id = w.id
               PROVE  u = w
    OBVIOUS
  <2>1. AllSegments' = MarkFinal(S) \cup (finalized_segments \cup (cumulative_segments \ S))
    BY <1>5, <1>6 DEF AllSegments
  <2>2. CASE u \in MarkFinal(S) /\ w \in MarkFinal(S)
    <3>1. PICK s \in S : u = [s EXCEPT !.final = TRUE] /\ u.id = s.id
      BY <2>2, <1>4
    <3>2. PICK o \in S : w = [o EXCEPT !.final = TRUE] /\ w.id = o.id
      BY <2>2, <1>4
    <3>3. s = o  BY <3>1, <3>2, <1>7
    <3>4. QED  BY <3>1, <3>2, <3>3
  <2>3. \A m \in MarkFinal(S), o \in finalized_segments \cup (cumulative_segments \ S) : m.id # o.id
    BY <1>4, <1>8
  <2>4. CASE (u \in MarkFinal(S)) # (w \in MarkFinal(S))
    BY <2>1, <2>3, <2>4
  <2>5. CASE u \notin MarkFinal(S) /\ w \notin MarkFinal(S)
    BY <2>1, <2>5 DEF IInv, UniqueIds, AllSegments
  <2>6. QED  BY <2>2, <2>4, <2>5
<1>10. \A u \in AllSegments' : u.id < next_id'
  BY <1>4, <1>5, <1>6 DEF IInv, UniqueIds, AllSegments
<1>11. (\A u \in finalized_segments' : u.final) /\ (\A u \in cumulative_segments' : ~u.final)
  BY <1>4, <1>5, <1>6 DEF IInv, UniqueIds
<1>12. UniqueIds'
  BY <1>9, <1>10, <1>11 DEF UniqueIds
<1>13. returned' = Ids(finalized_segments')
  <2>1. Ids(MarkFinal(S)) = Ids(S)  BY <1>1, MarkFinalType
  <2>2. QED  BY <2>1, <1>6 DEF Finalize, IInv, ReturnedIsFinal, Ids
<1>14. QED  BY <1>12, <1>13 DEF ReturnedIsFinal

(* Every reachable state satisfies the inductive invariant.                *)
THEOREM TrackerInvariant == Spec => []IInv
<1>1. Init => IInv
  BY InitType DEF Init, IInv, UniqueIds, ReturnedIsFinal, AllSegments, Ids
<1>2. IInv /\ TypeOK' /\ [Next]_vars => IInv'
  <2> SUFFICES ASSUME IInv, TypeOK', [Next]_vars  PROVE IInv'
    OBVIOUS
  <2> USE DEF IInv
  <2>1. ASSUME NEW b \in Batches, NEW t \in Times, UpdateFromHypothesis(b, t)
        PROVE  IInv'
    BY <2>1 DEF UpdateFromHypothesis, tracker, result, UniqueIds, ReturnedIsFinal, AllSegments
  <2>2. CASE IngestHypothesisSegment
    <3>1. finalized_segments' = finalized_segments /\ returned' = returned
      BY <2>2, IngestShape DEF Revises, Opens, tracker, result, IngestHypothesisSegment
    <3>2. UniqueIds'
      <4>1. CASE UNCHANGED tracker
        BY <4>1 DEF tracker, UniqueIds, AllSegments
      <4>2. ASSUME NEW h, NEW s, NEW u, Revises(h, s, u)  PROVE UniqueIds'
        BY <4>2 DEF Revises, UniqueIds, AllSegments
      <4>3. ASSUME NEW h, NEW u, Opens(h, u)  PROVE UniqueIds'
        <5>1. \A o \in AllSegments : o.id < u.id
          BY <4>3 DEF Opens, UniqueIds
        <5>2. \A o \in AllSegments : o.id \in Nat
          BY DEF TypeOK, Segment, AllSegments
        <5>3. u.id \in Nat /\ u.id = next_id /\ next_id' = next_id + 1
          BY <4>3 DEF Opens, TypeOK
        <5>4. \A o \in AllSegments' : o.id < next_id'
          BY <4>3, <5>1, <5>2, <5>3 DEF Opens, AllSegments
        <5>5. \A o \in AllSegments : o.id # u.id
          BY <5>1, <5>2, <5>3
        <5>6. QED  BY <4>3, <5>4, <5>5 DEF Opens, UniqueIds, AllSegments
      <4>4. QED  BY <2>2, <4>1, <4>2, <4>3, IngestShape
    <3>3. QED  BY <3>1, <3>2 DEF ReturnedIsFinal
  <2>3. CASE FinalizeStale
    BY <2>3, FinalizeIds DEF FinalizeStale
  <2>4. CASE ForceFinalizeAll
    BY <2>4, FinalizeIds DEF ForceFinalizeAll
  <2>5. CASE UNCHANGED vars
    BY <2>5 DEF vars, tracker, result, UniqueIds, ReturnedIsFinal, AllSegments
  <2>6. QED  BY <2>1, <2>2, <2>3, <2>4, <2>5 DEF Next
<1>3. QED  BY <1>1, <1>2, TypeCorrect, PTL DEF Spec

(* An id names one segment, live or final, in every reachable state.       *)
THEOREM IdsAreUnique == Spec => []UniqueIds
BY TrackerInvariant, PTL DEF IInv

(* What the calls returned for translation is what is final: nothing       *)
(* becomes final behind the caller's back.                                 *)
THEOREM EveryFinalIsReturned == Spec => []ReturnedIsFinal
BY TrackerInvariant, PTL DEF IInv
-----------------------------------------------------------------------------
(* No text crosses from one speaker to the other. *)

(* A segment carries the id and role of one detected hypothesis: without   *)
(* that, two compatible segments could have one role and different ids.    *)
SpeakerInv ==
  /\ \A i \in DOMAIN hyps : hyps[i] \in Detected
  /\ \A s \in AllSegments : \E g \in Detected :
       s.speaker_id = g.speaker_id /\ s.speaker_role = g.speaker_role
  /\ TextFromOwnSpeaker

(* A window holds detected hypotheses only.                                *)
LEMMA WindowDetected ==
  ASSUME NEW b \in Batches, NEW i \in DOMAIN b
  PROVE  b[i] \in Detected
BY DEF Detected, ToSet

(* The next hypothesis and the ones after it are detected.                 *)
LEMMA HypsDetected ==
  ASSUME TypeOK, SpeakerInv, hyps # <<>>
  PROVE  /\ Head(hyps) \in Detected
         /\ \A i \in DOMAIN Tail(hyps) : Tail(hyps)[i] \in Detected
<1>1. /\ Len(hyps) \in Nat /\ Len(hyps) # 0 /\ DOMAIN hyps = 1 .. Len(hyps)
      /\ Head(hyps) = hyps[1]
  BY EmptySeq, LenProperties, HeadTailProperties DEF TypeOK
<1>2. /\ Tail(hyps) \in Seq(Hypothesis)
      /\ Len(Tail(hyps)) = Len(hyps) - 1
      /\ \A i \in 1 .. Len(Tail(hyps)) : Tail(hyps)[i] = hyps[i + 1]
  BY HeadTailProperties DEF TypeOK
<1>3. DOMAIN Tail(hyps) = 1 .. Len(Tail(hyps))
  BY <1>2, LenProperties
<1>4. \A i \in DOMAIN Tail(hyps) : i + 1 \in DOMAIN hyps
  BY <1>1, <1>2, <1>3
<1>5. 1 \in DOMAIN hyps
  BY <1>1
<1>6. QED  BY <1>1, <1>2, <1>3, <1>4, <1>5 DEF SpeakerInv

(* Marking segments final keeps their text and speaker.                    *)
LEMMA MarkFinalKeeps ==
  ASSUME NEW S \in SUBSET Segment, NEW u \in MarkFinal(S)
  PROVE  \E s \in S : /\ u.speaker_id = s.speaker_id
                      /\ u.speaker_role = s.speaker_role
                      /\ u.src = s.src
<1>1. PICK s \in S : u = [s EXCEPT !.final = TRUE]
  BY DEF MarkFinal
<1>2. QED  BY <1>1 DEF Segment

(* Finalizing keeps every segment with its own speaker.                    *)
LEMMA FinalizeSpeakers ==
  ASSUME TypeOK, SpeakerInv, NEW S \in SUBSET cumulative_segments, Finalize(S),
         UNCHANGED hyps
  PROVE  SpeakerInv'
<1>1. S \in SUBSET Segment
  BY DEF TypeOK
<1>2. \A u \in AllSegments' : u \in AllSegments \/ u \in MarkFinal(S)
  BY DEF Finalize, AllSegments
<1>3. \A u \in AllSegments' : \E s \in AllSegments :
        u.speaker_id = s.speaker_id /\ u.speaker_role = s.speaker_role /\ u.src = s.src
  BY <1>1, <1>2, MarkFinalKeeps DEF AllSegments
<1>4. \A i \in DOMAIN hyps' : hyps'[i] \in Detected
  BY DEF SpeakerInv
<1>5. ASSUME NEW u \in AllSegments'
      PROVE  /\ ToSet(u.src) \subseteq Vocabulary(u.speaker_id)
             /\ \E g \in Detected :
                  u.speaker_id = g.speaker_id /\ u.speaker_role = g.speaker_role
  <2>1. PICK s \in AllSegments :
          u.speaker_id = s.speaker_id /\ u.speaker_role = s.speaker_role /\ u.src = s.src
    BY <1>3
  <2>2. ToSet(s.src) \subseteq Vocabulary(s.speaker_id)
    BY DEF SpeakerInv, TextFromOwnSpeaker
  <2>3. PICK g \in Detected : s.speaker_id = g.speaker_id /\ s.speaker_role = g.speaker_role
    BY DEF SpeakerInv
  <2>4. QED  BY <2>1, <2>2, <2>3
<1>6. QED  BY <1>4, <1>5 DEF SpeakerInv, TextFromOwnSpeaker

(* A revision keeps a segment with its own speaker: a compatible segment   *)
(* has the id or the role of the hypothesis, and the role decides the id.  *)
LEMMA ReviseSpeaker ==
  ASSUME SpeakerInv, NEW h, StrippedHead(h), Head(hyps) \in Detected,
         NEW s, NEW u, Revises(h, s, u)
  PROVE  /\ ToSet(u.src) \subseteq Vocabulary(u.speaker_id)
         /\ \E g \in Detected : u.speaker_id = g.speaker_id /\ u.speaker_role = g.speaker_role
<1>1. PICK g \in Detected : s.speaker_id = g.speaker_id /\ s.speaker_role = g.speaker_role
  BY DEF Revises, SpeakerInv, AllSegments
<1>2. s.speaker_id # None /\ h.speaker_id # None
  BY <1>1, ChannelAssumption DEF StrippedHead
<1>3. s.speaker_id = h.speaker_id \/ s.speaker_role = h.speaker_role
  BY <1>2 DEF Revises, IsCompatibleSegment
<1>4. s.speaker_id = h.speaker_id
  BY <1>1, <1>3, ChannelAssumption DEF StrippedHead
<1>5. u.speaker_id = s.speaker_id
  BY <1>4 DEF Revises
<1>6. ToSet(s.src) \subseteq Vocabulary(s.speaker_id)
  BY DEF Revises, SpeakerInv, TextFromOwnSpeaker, AllSegments
<1>7. ToSet(h.text) \subseteq Vocabulary(h.speaker_id)
  BY DEF StrippedHead, Vocabulary
<1>8. ToSet(u.src) \subseteq Vocabulary(u.speaker_id)
  BY <1>4, <1>5, <1>6, <1>7 DEF Revises
<1>9. \E d \in Detected : u.speaker_id = d.speaker_id /\ u.speaker_role = d.speaker_role
  BY <1>1, <1>4, <1>5 DEF Revises, StrippedHead
<1>10. QED  BY <1>8, <1>9

(* Folding the next hypothesis keeps every segment with its own speaker.   *)
LEMMA IngestSpeakers ==
  ASSUME TypeOK, SpeakerInv, IngestHypothesisSegment
  PROVE  SpeakerInv'
<1>1. /\ Head(hyps) \in Detected
      /\ \A i \in DOMAIN hyps' : hyps'[i] \in Detected
  BY HypsDetected DEF IngestHypothesisSegment
<1>2. PICK h : /\ StrippedHead(h)
               /\ \/ UNCHANGED tracker
                  \/ \E s, u : Revises(h, s, u)
                  \/ \E u : Opens(h, u)
  BY IngestShape
<1> DEFINE Own(s) == /\ ToSet(s.src) \subseteq Vocabulary(s.speaker_id)
                     /\ \E g \in Detected : s.speaker_id = g.speaker_id
                                           /\ s.speaker_role = g.speaker_role
<1>3. \A s \in AllSegments : Own(s)
  BY DEF SpeakerInv, TextFromOwnSpeaker
<1>4. \A o \in AllSegments' : o \in AllSegments \/ Own(o)
  <2>1. CASE UNCHANGED tracker
    BY <2>1 DEF tracker, AllSegments
  <2>2. ASSUME NEW s, NEW u, Revises(h, s, u)  
        PROVE  \A o \in AllSegments' : o \in AllSegments \/ Own(o)
    <3>1. Own(u)
      BY <1>1, <1>2, <2>2, ReviseSpeaker
    <3> HIDE DEF Own
    <3>2. QED  BY <2>2, <3>1 DEF Revises, AllSegments
  <2>3. ASSUME NEW u, Opens(h, u)  
        PROVE  \A o \in AllSegments' : o \in AllSegments \/ Own(o)
    <3>1. Own(u)
      BY <1>1, <1>2, <2>3 DEF Opens, StrippedHead, Vocabulary
    <3> HIDE DEF Own
    <3>2. QED  BY <2>3, <3>1 DEF Opens, AllSegments
  <2>4. QED  BY <1>2, <2>1, <2>2, <2>3
<1>5. \A s \in AllSegments' : Own(s)
  BY <1>3, <1>4
<1>6. QED  BY <1>1, <1>5 DEF SpeakerInv, TextFromOwnSpeaker

LEMMA SpeakerInvHolds == Spec => []SpeakerInv
<1>1. Init => SpeakerInv
  BY DEF Init, SpeakerInv, TextFromOwnSpeaker, AllSegments
<1>2. TypeOK /\ SpeakerInv /\ [Next]_vars => SpeakerInv'
  <2> SUFFICES ASSUME TypeOK, SpeakerInv, [Next]_vars  PROVE SpeakerInv'
    OBVIOUS
  <2>1. ASSUME NEW b \in Batches, NEW t \in Times, UpdateFromHypothesis(b, t)
        PROVE  SpeakerInv'
    <3>1. \A i \in DOMAIN hyps' : hyps'[i] \in Detected
      BY <2>1, WindowDetected DEF UpdateFromHypothesis
    <3>2. AllSegments' = AllSegments
      BY <2>1 DEF UpdateFromHypothesis, tracker, AllSegments
    <3>3. QED  BY <3>1, <3>2 DEF SpeakerInv, TextFromOwnSpeaker
  <2>2. CASE IngestHypothesisSegment
    BY <2>2, IngestSpeakers
  <2>3. CASE FinalizeStale
    BY <2>3, FinalizeSpeakers DEF FinalizeStale
  <2>4. CASE ForceFinalizeAll
    BY <2>4, FinalizeSpeakers DEF ForceFinalizeAll
  <2>5. CASE UNCHANGED vars
    BY <2>5 DEF vars, tracker, SpeakerInv, TextFromOwnSpeaker, AllSegments
  <2>6. QED  BY <2>1, <2>2, <2>3, <2>4, <2>5 DEF Next
<1>3. QED  BY <1>1, <1>2, TypeCorrect, PTL DEF Spec

(* The words of a segment all come from hypotheses of its own speaker,     *)
(* whatever updates, merges and windows it went through.                   *)
THEOREM SpeakersNeverMix == Spec => []TextFromOwnSpeaker
BY SpeakerInvHolds, PTL DEF SpeakerInv
-----------------------------------------------------------------------------
(* The tracker implements the ledger. *)

(* Marking live segments final does not change their entries.              *)
LEMMA MarkFinalEntries ==
  ASSUME NEW S \in SUBSET Segment
  PROVE  Entries(MarkFinal(S)) = Entries(S)
<1>1. ASSUME NEW s \in S  PROVE Entry([s EXCEPT !.final = TRUE]) = Entry(s)
  <2> DEFINE m == [s EXCEPT !.final = TRUE]
  <2>1. /\ m.id = s.id /\ m.abs_start = s.abs_start /\ m.abs_end = s.abs_end
        /\ m.src = s.src /\ m.src_lang = s.src_lang
        /\ m.speaker_id = s.speaker_id /\ m.speaker_role = s.speaker_role
    BY <1>1 DEF Segment
  <2> HIDE DEF m
  <2>2. QED  BY <2>1 DEF Entry, m
<1>2. Entries(MarkFinal(S)) = {Entry([s EXCEPT !.final = TRUE]) : s \in S}
  BY DEF Entries, MarkFinal
<1>3. QED  BY <1>1, <1>2 DEF Entries

(* A call that finalizes settles those entries in the ledger.              *)
LEMMA FinalizeSettles ==
  ASSUME IInv, NEW S \in SUBSET cumulative_segments, Finalize(S)
  PROVE  Ledger!Settle
<1>1. S \in SUBSET Segment
  BY DEF IInv, TypeOK
<1>2. cumulative_segments' = cumulative_segments \ S
  BY DEF Finalize, IInv, UniqueIds
<1>3. \A s \in S, o \in cumulative_segments \ S : Entry(s) # Entry(o)
  <2>1. \A s \in S, o \in cumulative_segments \ S : s.id # o.id
    BY DEF IInv, UniqueIds, AllSegments
  <2>2. \A s : Entry(s).id = s.id
    BY DEF Entry
  <2>3. QED  BY <2>1, <2>2
<1>4. Entries(cumulative_segments') \subseteq Entries(cumulative_segments)
  BY <1>2 DEF Entries
<1>5. Entries(cumulative_segments) \ Entries(cumulative_segments') = Entries(S)
  BY <1>2, <1>3 DEF Entries
<1>6. Entries(finalized_segments') = Entries(finalized_segments) \cup Entries(S)
  <2>1. Entries(finalized_segments') = Entries(finalized_segments) \cup Entries(MarkFinal(S))
    BY DEF Finalize, Entries
  <2>2. QED  BY <2>1, <1>1, MarkFinalEntries
<1>7. QED  BY <1>4, <1>5, <1>6 DEF Ledger!Settle, Finalize

(* Rewriting a live segment revises its entry.                             *)
LEMMA RevisesEntry ==
  ASSUME IInv, NEW h, NEW s, NEW u, Revises(h, s, u)
  PROVE  Ledger!Revise
<1>1. \A o \in cumulative_segments \ {s} : Entry(o) # Entry(s)
  <2>1. \A o \in cumulative_segments \ {s} : o.id # s.id
    BY DEF IInv, UniqueIds, AllSegments, Revises
  <2>2. \A o : Entry(o).id = o.id
    BY DEF Entry
  <2>3. QED  BY <2>1, <2>2
<1>2. Entries(cumulative_segments') = (Entries(cumulative_segments) \ {Entry(s)}) \cup {Entry(u)}
  BY <1>1 DEF Revises, Entries
<1>3. /\ Entry(s) \in Entries(cumulative_segments)
      /\ Entry(u) \in Entries(cumulative_segments')
      /\ Entry(u).id = Entry(s).id
  BY DEF Revises, Entries, Entry
<1>4. UNCHANGED <<next_id, Entries(finalized_segments)>>
  BY DEF Revises
<1>5. QED  BY <1>2, <1>3, <1>4 DEF Ledger!Revise

(* Appending a live segment opens its entry.                               *)
LEMMA OpensEntry ==
  ASSUME NEW h, NEW u, Opens(h, u)
  PROVE  Ledger!Open
<1>1. Entry(u).id = next_id
  BY DEF Opens, Entry
<1>2. Entries(cumulative_segments') = Entries(cumulative_segments) \cup {Entry(u)}
  BY DEF Opens, Entries
<1>3. next_id' = next_id + 1 /\ UNCHANGED Entries(finalized_segments)
  BY DEF Opens
<1>4. QED  BY <1>1, <1>2, <1>3 DEF Ledger!Open

(* The tracker implements the ledger: whatever it does with windows, an    *)
(* utterance is opened once, revised while live, settled once and kept.    *)
THEOREM TrackerImplementsLedger == Spec => ImplementsLedger
<1>1. Init => Ledger!Init
  BY DEF Init, Ledger!Init, Entries
<1>2. IInv /\ [Next]_vars => [Ledger!Next]_(Ledger!vars)
  <2> SUFFICES ASSUME IInv, [Next]_vars
               PROVE  Ledger!Next \/ UNCHANGED Ledger!vars
    OBVIOUS
  <2>1. CASE UNCHANGED tracker
    BY <2>1 DEF tracker, Ledger!vars
  <2>2. CASE IngestHypothesisSegment
    <3>1. TypeOK  BY DEF IInv
    <3>2. PICK h : \/ UNCHANGED tracker
                   \/ \E s, u : Revises(h, s, u)
                   \/ \E u : Opens(h, u)
      BY <2>2, <3>1, IngestShape
    <3>3. CASE \E s, u : Revises(h, s, u)
      BY <3>3, RevisesEntry DEF Ledger!Next
    <3>4. CASE \E u : Opens(h, u)
      BY <3>4, OpensEntry DEF Ledger!Next
    <3>5. QED  BY <2>1, <3>2, <3>3, <3>4
  <2>3. CASE FinalizeStale \/ ForceFinalizeAll
    BY <2>3, FinalizeSettles DEF FinalizeStale, ForceFinalizeAll, Ledger!Next
  <2>4. QED
    BY <2>1, <2>2, <2>3 DEF Next, UpdateFromHypothesis, vars
<1>3. QED  BY <1>1, <1>2, TrackerInvariant, PTL DEF Spec, ImplementsLedger, Ledger!Spec

-----------------------------------------------------------------------------
(* Speech that is detected again. *)

\* A detection with words takes half a second: a shorter one could be merged
\* into the segment after it and shorten that segment.
LongDetections == \A h \in Detected : h.text = <<>> \/ h.end - h.start >= 5

Covers(s, h) == s.abs_start <= h.start /\ h.end <= s.abs_end

\* Every hypothesis that went into a segment is still within one, whatever
\* was stretched, merged or finalized since.
CoverInv ==
  /\ \A s \in AllSegments : s.abs_end - s.abs_start >= 5
  /\ \A h \in folded : h.end - h.start >= 5 /\ \E s \in AllSegments : Covers(s, h)

LEMMA MinMaxBounds ==
  ASSUME NEW a \in Int, NEW b \in Int
  PROVE  /\ Min({a, b}) <= a /\ Min({a, b}) <= b
         /\ a <= Max({a, b}) /\ b <= Max({a, b})
<1>1. \E x \in {a, b} : \A y \in {a, b} : x <= y
  <2>1. CASE a <= b  BY <2>1
  <2>2. CASE ~(a <= b)  BY <2>2
  <2>3. QED  BY <2>1, <2>2
<1>2. \E x \in {a, b} : \A y \in {a, b} : x >= y
  <2>1. CASE a >= b  BY <2>1
  <2>2. CASE ~(a >= b)  BY <2>2
  <2>3. QED  BY <2>1, <2>2
<1>3. QED  BY <1>1, <1>2 DEF Min, Max

\* Nothing comes of a text without words.
LEMMA StripEmpty ==
  ASSUME TypeOK, NEW r \in StripFinalizedPrefix(<<>>)
  PROVE  r = <<>>
<1>1. \A s \in finalized_segments : ~(Len(s.src) < Len(<<>>))
  BY LenProperties, EmptySeq DEF TypeOK, Segment, Texts
<1>2. \A s \in RecentlyFinalized : s \in finalized_segments
  BY DEF RecentlyFinalized
<1>3. QED  BY <1>1, <1>2 DEF StripFinalizedPrefix

LEMMA EmptyIsShort == TooShort(<<>>)
<1>1. CharLen(<<>>) = 0
  BY Zenon DEF CharLen
<1>2. QED  BY <1>1 DEF TooShort

\* One hypothesis is dropped, or it is folded into a segment.
LEMMA IngestFolds ==
  ASSUME TypeOK, IngestHypothesisSegment
  PROVE  \E h \in Hypothesis :
           /\ h.start = Head(hyps).start /\ h.end = Head(hyps).end
           /\ \/ UNCHANGED <<tracker, folded>>
              \/ /\ UpdateExisting(h) \/ MergeIntoExisting(h) \/ CreateNew(h)
                 /\ folded' = folded \cup {Head(hyps)} /\ Head(hyps).text # <<>>
<1>1. Head(hyps) \in Hypothesis
  BY HeadTailProperties DEF TypeOK, IngestHypothesisSegment
<1>2. PICK t \in StripFinalizedPrefix(Head(hyps).text) :
        LET h == [Head(hyps) EXCEPT !.text = t]
        IN \/ DropHypothesis(h) /\ UNCHANGED folded
           \/ /\ UpdateExisting(h) \/ MergeIntoExisting(h) \/ CreateNew(h)
              /\ folded' = folded \cup {Head(hyps)}
  BY DEF IngestHypothesisSegment
<1> DEFINE h == [Head(hyps) EXCEPT !.text = t]
<1>3. t \in Texts
  BY <1>1, StripType DEF Hypothesis
<1>4. /\ h \in Hypothesis /\ h.text = t
      /\ h.start = Head(hyps).start /\ h.end = Head(hyps).end
  BY <1>1, <1>3 DEF Hypothesis
<1>5. \/ DropHypothesis(h) /\ UNCHANGED folded
      \/ /\ UpdateExisting(h) \/ MergeIntoExisting(h) \/ CreateNew(h)
         /\ folded' = folded \cup {Head(hyps)}
  BY <1>2
<1> HIDE DEF h
<1>6. ASSUME ~Dropped(h)  PROVE Head(hyps).text # <<>>
  <2>1. h.text # <<>>  BY <1>6, EmptyIsShort DEF Dropped
  <2>2. QED  BY <1>4, <2>1, StripEmpty
<1>7. CASE DropHypothesis(h) /\ UNCHANGED folded
  BY <1>4, <1>7 DEF DropHypothesis
<1>8. CASE /\ UpdateExisting(h) \/ MergeIntoExisting(h) \/ CreateNew(h)
           /\ folded' = folded \cup {Head(hyps)}
  <2>1. ~Dropped(h)  BY <1>8 DEF UpdateExisting, MergeIntoExisting, CreateNew
  <2>2. QED  BY <1>4, <1>6, <1>8, <2>1
<1>9. QED  BY <1>5, <1>7, <1>8

\* Segment s becomes u, within which are s and h.
Widens(h, s, u) ==
  /\ s \in cumulative_segments /\ u \in Segment
  /\ cumulative_segments' = (cumulative_segments \ {s}) \cup {u}
  /\ UNCHANGED finalized_segments
  /\ u.abs_start <= s.abs_start /\ s.abs_end <= u.abs_end
  /\ Covers(u, h)

LEMMA UpdateWidens ==
  ASSUME TypeOK, NEW h \in Hypothesis, UpdateExisting(h)
  PROVE  \E s, u : Widens(h, s, u)
<1>1. PICK s \in First(Matching(h)) :
        LET stretched == [s EXCEPT !.abs_start = Min({@, h.start}),
                                   !.abs_end = Max({@, h.end})]
            rewritten == [stretched EXCEPT
                           !.src = h.text,
                           !.src_lang = h.lang,
                           !.speaker_id = IF h.speaker_id = None THEN @ ELSE h.speaker_id,
                           !.speaker_role = IF h.speaker_role = None THEN @ ELSE h.speaker_role]
            muchShorter == 10 * CharLen(h.text) < 7 * CharLen(s.src)
        IN cumulative_segments' = (cumulative_segments \ {s})
                                    \cup {IF muchShorter THEN stretched ELSE rewritten}
  BY DEF UpdateExisting
<1> DEFINE stretched == [s EXCEPT !.abs_start = Min({@, h.start}),
                                  !.abs_end = Max({@, h.end})]
           rewritten == [stretched EXCEPT
                           !.src = h.text,
                           !.src_lang = h.lang,
                           !.speaker_id = IF h.speaker_id = None THEN @ ELSE h.speaker_id,
                           !.speaker_role = IF h.speaker_role = None THEN @ ELSE h.speaker_role]
           Wide(u) == /\ u \in Segment
                      /\ u.abs_start <= s.abs_start /\ s.abs_end <= u.abs_end
                      /\ u.abs_start <= h.start /\ h.end <= u.abs_end
<1>2. s \in cumulative_segments /\ s \in Segment
  BY DEF First, Matching, TypeOK
<1>3. Wide(stretched)
  <2>1. /\ s.abs_start \in Int /\ h.start \in Int /\ s.abs_end \in Int /\ h.end \in Int
    BY <1>2 DEF Segment, Hypothesis
  <2>2. Min({s.abs_start, h.start}) \in Int /\ Max({s.abs_end, h.end}) \in Int
    BY <2>1, MinMaxPair
  <2>3. /\ stretched \in Segment
        /\ stretched.abs_start = Min({s.abs_start, h.start})
        /\ stretched.abs_end = Max({s.abs_end, h.end})
    BY <1>2, <2>2 DEF Segment
  <2> HIDE DEF stretched
  <2>4. QED  BY <2>1, <2>3, MinMaxBounds
<1>4. Wide(rewritten)
  <2> HIDE DEF stretched
  <2>1. /\ rewritten \in Segment /\ rewritten.abs_start = stretched.abs_start
        /\ rewritten.abs_end = stretched.abs_end
    BY <1>3 DEF Segment, Hypothesis
  <2> HIDE DEF rewritten
  <2>2. QED  BY <1>3, <2>1
<1>5. PICK u \in {stretched, rewritten} :
        cumulative_segments' = (cumulative_segments \ {s}) \cup {u}
  BY <1>1
<1>6. Wide(u)
  <2> HIDE DEF stretched, rewritten
  <2>1. QED  BY <1>3, <1>4, <1>5
<1>7. QED  BY <1>2, <1>5, <1>6 DEF Widens, Covers, UpdateExisting

\* A merge appends a detection that begins half a second before the end of
\* the segment at the earliest.
LEMMA MergeWidens ==
  ASSUME TypeOK, CoverInv, NEW h \in Hypothesis, h.end - h.start >= 5, MergeIntoExisting(h)
  PROVE  \E s, u : Widens(h, s, u)
<1>1. PICK s \in First(Mergeable(h)) :
        cumulative_segments' = (cumulative_segments \ {s})
          \cup {[s EXCEPT !.src = @ \o h.text, !.abs_end = h.end]}
  BY DEF MergeIntoExisting
<1>2. /\ s \in cumulative_segments /\ s \in Segment /\ h.start - s.abs_end >= -5
      /\ s.abs_end - s.abs_start >= 5
  BY DEF First, Mergeable, TypeOK, CoverInv, AllSegments
<1>3. s.src \o h.text \in Texts
  <2>1. s.src \in Texts /\ h.text \in Texts
    BY <1>2 DEF Segment, Hypothesis
  <2>2. QED  BY <2>1, ConcatWords
<1> DEFINE u == [s EXCEPT !.src = @ \o h.text, !.abs_end = h.end]
<1>4. u \in Segment /\ u.abs_start = s.abs_start /\ u.abs_end = h.end
  BY <1>2, <1>3 DEF Segment, Hypothesis
<1>5. cumulative_segments' = (cumulative_segments \ {s}) \cup {u}
  BY <1>1
<1> HIDE DEF u
<1>6. /\ s.abs_start \in Int /\ s.abs_end \in Int /\ h.start \in Int /\ h.end \in Int
  BY <1>2 DEF Segment, Hypothesis
<1>7. s.abs_end <= h.end /\ s.abs_start <= h.start
  BY <1>2, <1>6
<1>8. QED  BY <1>2, <1>4, <1>5, <1>6, <1>7 DEF Widens, Covers, MergeIntoExisting

\* When every segment is within one of the next state, so is what was folded.
LEMMA StillCovered ==
  ASSUME TypeOK, TypeOK', CoverInv,
         \A s \in AllSegments : \E u \in AllSegments' :
           u.abs_start <= s.abs_start /\ s.abs_end <= u.abs_end
  PROVE  \A h \in folded : h.end - h.start >= 5 /\ \E u \in AllSegments' : Covers(u, h)
<1> TAKE h \in folded
<1>1. PICK s \in AllSegments : Covers(s, h)
  BY DEF CoverInv
<1>2. PICK u \in AllSegments' : u.abs_start <= s.abs_start /\ s.abs_end <= u.abs_end
  OBVIOUS
<1>3. /\ h.start \in Int /\ h.end \in Int /\ s.abs_start \in Int /\ s.abs_end \in Int
      /\ u.abs_start \in Int /\ u.abs_end \in Int
  BY DEF TypeOK, AllSegments, Segment, Hypothesis
<1>4. Covers(u, h)
  BY <1>1, <1>2, <1>3 DEF Covers
<1>5. QED  BY <1>4 DEF CoverInv

LEMMA IngestCovers ==
  ASSUME LongDetections, TypeOK, TypeOK', SpeakerInv, CoverInv, IngestHypothesisSegment
  PROVE  CoverInv'
<1>1. PICK h \in Hypothesis :
           /\ h.start = Head(hyps).start /\ h.end = Head(hyps).end
           /\ \/ UNCHANGED <<tracker, folded>>
              \/ /\ UpdateExisting(h) \/ MergeIntoExisting(h) \/ CreateNew(h)
                 /\ folded' = folded \cup {Head(hyps)} /\ Head(hyps).text # <<>>
  BY IngestFolds
<1>2. CASE UNCHANGED <<tracker, folded>>
  BY <1>2 DEF CoverInv, AllSegments, tracker
<1>3. CASE /\ UpdateExisting(h) \/ MergeIntoExisting(h) \/ CreateNew(h)
           /\ folded' = folded \cup {Head(hyps)} /\ Head(hyps).text # <<>>
  <2>1. h.end - h.start >= 5
    BY <1>1, <1>3, HypsDetected DEF LongDetections, IngestHypothesisSegment
  <2>2. h.start \in Int /\ h.end \in Int
    BY DEF Hypothesis
  <2>3. SUFFICES /\ \A s \in AllSegments : \E u \in AllSegments' :
                      u.abs_start <= s.abs_start /\ s.abs_end <= u.abs_end
                 /\ \A u \in AllSegments' : u.abs_end - u.abs_start >= 5
                 /\ \E u \in AllSegments' : Covers(u, h)
    <3>1. \A g \in folded : g.end - g.start >= 5 /\ \E u \in AllSegments' : Covers(u, g)
      BY <2>3, StillCovered
    <3>2. Head(hyps).end - Head(hyps).start >= 5 /\ \E u \in AllSegments' : Covers(u, Head(hyps))
      BY <1>1, <2>1, <2>3 DEF Covers
    <3>3. \A g \in folded' : g.end - g.start >= 5 /\ \E u \in AllSegments' : Covers(u, g)
      BY <1>3, <3>1, <3>2
    <3>4. QED  BY <2>3, <3>3 DEF CoverInv
  <2>4. \A s \in AllSegments : /\ s.abs_start \in Int /\ s.abs_end \in Int
                               /\ s.abs_end - s.abs_start >= 5
    BY DEF TypeOK, AllSegments, Segment, CoverInv
  <2>5. CASE UpdateExisting(h) \/ MergeIntoExisting(h)
    <3>1. PICK s, u : Widens(h, s, u)
      BY <2>1, <2>5, UpdateWidens, MergeWidens
    <3>2. /\ s \in AllSegments /\ u \in AllSegments'
          /\ \A o \in AllSegments : o = s \/ o \in AllSegments'
          /\ \A o \in AllSegments' : o = u \/ o \in AllSegments
      BY <3>1 DEF Widens, AllSegments
    <3>3. u.abs_start \in Int /\ u.abs_end \in Int
      BY <3>1 DEF Widens, Segment
    <3>4. u.abs_end - u.abs_start >= 5
      BY <2>4, <3>1, <3>2, <3>3 DEF Widens
    <3>5. \A o \in AllSegments : \E w \in AllSegments' :
            w.abs_start <= o.abs_start /\ o.abs_end <= w.abs_end
      BY <2>4, <3>1, <3>2 DEF Widens
    <3>6. QED  BY <2>4, <3>1, <3>2, <3>4, <3>5 DEF Widens
  <2>6. CASE CreateNew(h)
    <3>1. cumulative_segments' = cumulative_segments \cup {NewSegment(h)}
          /\ UNCHANGED finalized_segments
      BY <2>6 DEF CreateNew
    <3>2. NewSegment(h).abs_start = h.start /\ NewSegment(h).abs_end = h.end
      BY DEF NewSegment
    <3>3. AllSegments' = AllSegments \cup {NewSegment(h)}
      BY <3>1 DEF AllSegments
    <3>4. Covers(NewSegment(h), h)
      BY <2>2, <3>2 DEF Covers
    <3>5. \A s \in AllSegments : \E u \in AllSegments' :
            u.abs_start <= s.abs_start /\ s.abs_end <= u.abs_end
      BY <2>4, <3>3
    <3>6. QED  BY <2>1, <2>4, <3>2, <3>3, <3>4, <3>5
  <2>7. QED  BY <1>3, <2>5, <2>6
<1>4. QED  BY <1>1, <1>2, <1>3

\* Finalizing leaves the times alone.
LEMMA FinalizeCovers ==
  ASSUME TypeOK, TypeOK', IInv, CoverInv, NEW S \in SUBSET cumulative_segments, Finalize(S),
         UNCHANGED folded
  PROVE  CoverInv'
<1>0. \A o \in S : /\ [o EXCEPT !.final = TRUE].abs_start = o.abs_start
                   /\ [o EXCEPT !.final = TRUE].abs_end = o.abs_end
  BY DEF TypeOK, Segment
<1>1. \A s \in MarkFinal(S) : \E o \in S : s.abs_start = o.abs_start /\ s.abs_end = o.abs_end
  BY <1>0 DEF MarkFinal
<1>2. \A o \in S : \E s \in MarkFinal(S) : s.abs_start = o.abs_start /\ s.abs_end = o.abs_end
  <2> TAKE o \in S
  <2>1. [o EXCEPT !.final = TRUE] \in MarkFinal(S)  BY DEF MarkFinal
  <2>2. QED  BY <1>0, <2>1
<1>3. /\ finalized_segments' = finalized_segments \cup MarkFinal(S)
      /\ cumulative_segments' = cumulative_segments \ S
  BY DEF Finalize, IInv, UniqueIds
<1>4. \A s \in AllSegments' : \E o \in AllSegments :
        s.abs_start = o.abs_start /\ s.abs_end = o.abs_end
  BY <1>1, <1>3 DEF AllSegments
<1>5. \A o \in AllSegments : \E s \in AllSegments' :
        s.abs_start = o.abs_start /\ s.abs_end = o.abs_end
  BY <1>2, <1>3 DEF AllSegments
<1>6. \A s \in AllSegments : s.abs_start \in Int /\ s.abs_end \in Int
  BY DEF TypeOK, AllSegments, Segment
<1>7. \A o \in AllSegments : \E s \in AllSegments' :
        s.abs_start <= o.abs_start /\ o.abs_end <= s.abs_end
  BY <1>5, <1>6
<1>8. \A s \in AllSegments' : s.abs_end - s.abs_start >= 5
  BY <1>4 DEF CoverInv
<1>9. QED  BY <1>7, <1>8, StillCovered DEF CoverInv

LEMMA CoverInvHolds ==
  ASSUME LongDetections
  PROVE  Spec => []CoverInv
<1>1. Init => CoverInv
  BY DEF Init, CoverInv, AllSegments
<1>2. IInv /\ TypeOK' /\ SpeakerInv /\ CoverInv /\ [Next]_vars => CoverInv'
  <2> SUFFICES ASSUME IInv, TypeOK', SpeakerInv, CoverInv, [Next]_vars  PROVE CoverInv'
    OBVIOUS
  <2>0. TypeOK
    BY DEF IInv
  <2>1. ASSUME NEW b \in Batches, NEW t \in Times, UpdateFromHypothesis(b, t)
        PROVE  CoverInv'
    BY <2>1 DEF UpdateFromHypothesis, tracker, CoverInv, AllSegments
  <2>2. CASE IngestHypothesisSegment
    BY <2>0, <2>2, IngestCovers
  <2>3. CASE FinalizeStale
    BY <2>0, <2>3, FinalizeCovers DEF FinalizeStale
  <2>4. CASE ForceFinalizeAll
    BY <2>0, <2>4, FinalizeCovers DEF ForceFinalizeAll
  <2>5. CASE UNCHANGED vars
    BY <2>5 DEF vars, tracker, CoverInv, AllSegments
  <2>6. QED  BY <2>1, <2>2, <2>3, <2>4, <2>5 DEF Next
<1>3. QED  BY <1>1, <1>2, TypeCorrect, TrackerInvariant, SpeakerInvHolds, PTL DEF Spec

\* A segment around a hypothesis overlaps with all of it.
LEMMA CoveredIsDuplicate ==
  ASSUME TypeOK, NEW h \in Hypothesis, h.end - h.start >= 5,
         NEW S \in SUBSET AllSegments, NEW s \in S, Covers(s, h)
  PROVE  IsDuplicateSegment(h, S)
<1>1. /\ h.start \in Int /\ h.end \in Int /\ s.abs_start \in Int /\ s.abs_end \in Int
  BY DEF Hypothesis, TypeOK, AllSegments, Segment
<1>2. s.abs_start <= h.start /\ h.end <= s.abs_end
  BY DEF Covers
<1>3. Min({h.end, s.abs_end}) = h.end /\ Max({h.start, s.abs_start}) = h.start
  <2>1. \A a, b \in Int : a <= b => Min({a, b}) = a /\ Max({b, a}) = b
    <3> SUFFICES ASSUME NEW a \in Int, NEW b \in Int, a <= b
                 PROVE  Min({a, b}) = a /\ Max({b, a}) = b
      OBVIOUS
    <3>1. Min({a, b}) \in {a, b} /\ Min({a, b}) <= a
      <4>1. \E x \in {a, b} : \A y \in {a, b} : x <= y  OBVIOUS
      <4>2. QED  BY <4>1 DEF Min
    <3>2. Max({b, a}) \in {b, a} /\ Max({b, a}) >= b
      <4>1. \E x \in {b, a} : \A y \in {b, a} : x >= y  OBVIOUS
      <4>2. QED  BY <4>1 DEF Max
    <3>3. QED  BY <3>1, <3>2
  <2>2. QED  BY <1>1, <1>2, <2>1
<1>4. OverlapsMajority(h.start, h.end, s.abs_start, s.abs_end)
  BY <1>1, <1>3 DEF OverlapsMajority
<1>5. QED  BY <1>4 DEF IsDuplicateSegment

LEMMA CoveredOpensNothing ==
  ASSUME TypeOK, CoverInv, NEW g \in folded, Ingests(g), IngestHypothesisSegment
  PROVE  next_id' = next_id
<1>1. PICK h \in Hypothesis :
           /\ h.start = Head(hyps).start /\ h.end = Head(hyps).end
           /\ \/ UNCHANGED <<tracker, folded>>
              \/ /\ UpdateExisting(h) \/ MergeIntoExisting(h) \/ CreateNew(h)
                 /\ folded' = folded \cup {Head(hyps)} /\ Head(hyps).text # <<>>
  BY IngestFolds
<1>2. h.start = g.start /\ h.end = g.end
  BY <1>1 DEF Ingests
<1>3. PICK s \in AllSegments : g.end - g.start >= 5 /\ Covers(s, g)
  BY DEF CoverInv
<1>4. h.end - h.start >= 5 /\ Covers(s, h)
  BY <1>2, <1>3 DEF Covers
<1>5. IsDuplicateSegment(h, finalized_segments) \/ IsDuplicateSegment(h, cumulative_segments)
  BY <1>4, CoveredIsDuplicate DEF AllSegments
<1>6. ~CreateNew(h)
  BY <1>5 DEF CreateNew, Dropped
<1>7. QED  BY <1>1, <1>6 DEF UpdateExisting, MergeIntoExisting, tracker

(* Speech that a later window detects again opens no second segment, if    *)
(* every detection with words takes half a second (update_from_hypothesis).*)
THEOREM RedetectionHolds ==
  ASSUME LongDetections
  PROVE  Spec => RedetectionOpensNothing
<1>1. TypeOK /\ CoverInv /\ [Next]_vars
        => [\A h \in folded : Ingests(h) => next_id' = next_id]_vars
  <2> SUFFICES ASSUME TypeOK, CoverInv, Next, NEW h \in folded, Ingests(h)
               PROVE  next_id' = next_id
    OBVIOUS
  <2>1. CASE IngestHypothesisSegment
    BY <2>1, CoveredOpensNothing
  <2>2. CASE ~IngestHypothesisSegment
    BY <2>2 DEF Next, UpdateFromHypothesis, FinalizeStale, ForceFinalizeAll, Finalize, tracker
  <2>3. QED  BY <2>1, <2>2
<1>2. QED
  BY <1>1, TypeCorrect, CoverInvHolds, PTL DEF Spec, RedetectionOpensNothing
=============================================================================
