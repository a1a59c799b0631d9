--------------------------- MODULE SegmentTracker ---------------------------
(***************************************************************************)
(* The cumulative transcript of one session (streaming_policy.py): ASR     *)
(* hypotheses for a sliding window are folded, one by one, into the live   *)
(* segments; segments whose end lies STABILITY_SEC in the past become      *)
(* final and are handed back to the caller, which queues them for          *)
(* translation.                                                            *)
(*                                                                         *)
(* Abstractions.  A text is a sequence of words, each with a length and a  *)
(* lower-case form.  Times are integers in tenths of a second.  Both lists *)
(* of the tracker are kept in id order by the code (segments are appended  *)
(* with increasing ids and finalized_segments is sorted by id before a     *)
(* call returns), so each is modelled as a set: the list is the set in id  *)
(* order.  last_updated and stable_since are left out: nothing reads them. *)
(*                                                                         *)
(* The event loop may force-finalize while the executor thread is between  *)
(* two hypotheses of an update.  What becomes of calls that interrupt each *)
(* other inside a step of this module is in TrackerThreads.                *)
(***************************************************************************)
EXTENDS Integers, Sequences, FiniteSets, SequencesExt

CONSTANTS
  Words, WordLen, Lower,  \* the words, their lengths, their lower-case forms
  Langs,                  \* language codes, "de" and "unknown" among them
  Speakers, Roles, None,  \* speaker ids and roles; None where ASR gives none
  Batches,                \* the hypothesis lists ASR can return for a window
  Times,                  \* the values now_sec can take
  STABILITY_SEC,          \* finalization age, tenths of a second
  PrefixScope,            \* how many final segments the prefix test looks at
  MaxCalls                \* bound: calls of the tracker in one behaviour

Texts == Seq(Words)

Hypothesis ==
  [start : Int, end : Int, text : Texts, lang : Langs,
   speaker_id : Speakers \cup {None}, speaker_role : Roles \cup {None}]

Segment ==
  [id : Nat, abs_start : Int, abs_end : Int, src : Texts, src_lang : Langs,
   final : BOOLEAN, speaker_id : Speakers \cup {None},
   speaker_role : Roles \cup {None}]

ASSUME TrackerAssumption ==
  /\ WordLen \in [Words -> Nat \ {0}]
  /\ Lower \in [Words -> Words]
  /\ Batches \subseteq Seq(Hypothesis)
  /\ Times \subseteq Int
  /\ STABILITY_SEC \in Nat
  /\ PrefixScope \in Nat
  /\ MaxCalls \in Nat

Detected == UNION {ToSet(b) : b \in Batches}

\* asr.py gives every hypothesis a speaker id, and each of the two channels
\* its own id and role.
ASSUME ChannelAssumption ==
  \A h, g \in Detected :
    /\ h.speaker_id # None
    /\ h.speaker_role = g.speaker_role => h.speaker_id = g.speaker_id

VARIABLES
  next_id, finalized_segments, cumulative_segments,   \* the tracker's fields
  busy,              \* update_from_hypothesis is running
  hyps,              \* the hypotheses it has not ingested yet
  now_sec,           \* the time it was called with
  folded,            \* history: the hypotheses that went into a segment
  newly_finalized,   \* ids the last completed call returned
  returned,          \* ids every completed call returned
  calls              \* number of calls made

tracker == <<next_id, finalized_segments, cumulative_segments>>
result  == <<newly_finalized, returned>>
vars    == <<tracker, busy, hyps, now_sec, folded, result, calls>>

Ids(S) == {s.id : s \in S}
----------------------------------------------------------------------------
(* Texts and time ranges. *)

NormalizeText(t) == [i \in DOMAIN t |-> Lower[t[i]]]

\* len() of the words joined by single blanks; the empty text has length 0.
CharLen(t) ==
  IF t = <<>> THEN 0 ELSE FoldLeft(LAMBDA n, w : n + 1 + WordLen[w], -1, t)

TooShort(t) == CharLen(t) < 2

IsSubstringMatch(a, b, percent) ==
  /\ a # <<>> /\ b # <<>>
  /\ LET shorter == IF CharLen(a) <= CharLen(b) THEN a ELSE b
         longer  == IF CharLen(a) <= CharLen(b) THEN b ELSE a
     IN /\ shorter \in SubSeqs(longer)
        /\ 100 * CharLen(shorter) >= percent * CharLen(longer)

Distance(a, b) == IF a >= b THEN a - b ELSE b - a

\* Either range has more than half of itself inside the other one.
OverlapsMajority(aStart, aEnd, bStart, bEnd) ==
  LET overlap == Min({aEnd, bEnd}) - Max({aStart, bStart})
      covered(s, e) == e > s /\ 2 * overlap > e - s
  IN overlap > 0 /\ (covered(aStart, aEnd) \/ covered(bStart, bEnd))
----------------------------------------------------------------------------
(* The tests that decide what becomes of a hypothesis. *)

TextMatch(h, s) ==
  LET a == NormalizeText(h.text)
      b == NormalizeText(s.src)
      drift == Distance(h.start, s.abs_start)
  IN /\ CharLen(a) >= 6 /\ CharLen(b) >= 6
     /\ \/ a = b /\ drift <= 30
        \/ IsSubstringMatch(a, b, 80) /\ drift <= 20

TextDuplicate(h, s) ==
  LET a == NormalizeText(h.text)
      b == NormalizeText(s.src)
      drift == Distance(h.start, s.abs_start)
  IN /\ a # <<>> /\ b # <<>>
     /\ \/ a = b /\ drift < (IF CharLen(a) < 6 THEN 20 ELSE 50)
        \/ /\ CharLen(a) > 4 /\ CharLen(b) > 4
           /\ IsSubstringMatch(a, b, 70) /\ drift < 60

IsDuplicateSegment(h, segments) ==
  \E s \in segments :
    \/ OverlapsMajority(h.start, h.end, s.abs_start, s.abs_end)
    \/ TextDuplicate(h, s)

SameLanguageSide(h, s) ==
  \/ s.src_lang = "unknown" \/ h.lang = "unknown"
  \/ (s.src_lang = "de") <=> (h.lang = "de")

IsCompatibleSegment(h, s) ==
  IF s.speaker_id # None /\ h.speaker_id # None
  THEN \/ s.speaker_id = h.speaker_id
       \/ /\ s.speaker_role # None /\ s.speaker_role = h.speaker_role
          /\ SameLanguageSide(h, s)
  ELSE SameLanguageSide(h, s)

\* The first element, in list order, of a set of segments.
First(S) == {s \in S : \A o \in S : s.id <= o.id}

Matching(h) ==
  {s \in cumulative_segments :
     /\ ~s.final
     /\ IsCompatibleSegment(h, s)
     /\ \/ TextMatch(h, s)
        \/ OverlapsMajority(h.start, h.end, s.abs_start, s.abs_end)}

\* Mutant: speech is appended whoever said it.
MergeableAnySpeaker(h) ==
  {s \in cumulative_segments :
     /\ ~s.final
     /\ s.src_lang = h.lang
     /\ -5 <= h.start - s.abs_end /\ h.start - s.abs_end < 8}

Mergeable(h) ==
  {s \in cumulative_segments :
     /\ h.speaker_id # None
     /\ ~s.final
     /\ s.speaker_id = h.speaker_id
     /\ s.src_lang = h.lang
     /\ -5 <= h.start - s.abs_end /\ h.start - s.abs_end < 8}

RecentlyFinalized ==
  {s \in finalized_segments :
     Cardinality({o \in finalized_segments : o.id > s.id}) < PrefixScope}

\* The text without the most recent final text it starts with (a singleton).
StripFinalizedPrefix(t) ==
  LET prefixes == {s \in RecentlyFinalized :
                     /\ CharLen(NormalizeText(s.src)) >= 6
                     /\ IsPrefix(NormalizeText(s.src), NormalizeText(t))
                     /\ Len(s.src) < Len(t)}
      latest == {s \in prefixes : \A o \in prefixes : o.id <= s.id}
  IN IF prefixes = {} THEN {t}
     ELSE {SubSeq(t, Len(s.src) + 1, Len(t)) : s \in latest}

\* Mutant: a re-detection of final speech is not recognised.
DroppedIfShort(h) == TooShort(h.text)

Dropped(h) == TooShort(h.text) \/ IsDuplicateSegment(h, finalized_segments)
----------------------------------------------------------------------------
(* update_from_hypothesis: one Ingest per hypothesis, then Finish. *)

Init ==
  /\ next_id = 0
  /\ finalized_segments = {}
  /\ cumulative_segments = {}
  /\ busy = FALSE
  /\ hyps = <<>>
  /\ now_sec = 0
  /\ folded = {}
  /\ newly_finalized = {}
  /\ returned = {}
  /\ calls = 0

UpdateFromHypothesis(b, t) ==
  /\ ~busy
  /\ calls < MaxCalls
  /\ calls' = calls + 1
  /\ busy' = TRUE
  /\ hyps' = b
  /\ now_sec' = t
  /\ UNCHANGED <<tracker, folded, result>>

DropHypothesis(h) ==
  /\ \/ Dropped(h)
     \/ /\ Matching(h) = {} /\ Mergeable(h) = {}
        /\ IsDuplicateSegment(h, cumulative_segments)
  /\ UNCHANGED tracker

UpdateExisting(h) ==
  /\ ~Dropped(h)
  /\ \E s \in First(Matching(h)) :
       LET stretched == [s EXCEPT !.abs_start = Min({@, h.start}),
                                  !.abs_end = Max({@, h.end})]
           rewritten == [stretched EXCEPT
                           !.src = h.text,
                           !.src_lang = h.lang,
                           !.speaker_id = IF h.speaker_id = None THEN @ ELSE h.speaker_id,
                           !.speaker_role = IF h.speaker_role = None THEN @ ELSE h.speaker_role]
           muchShorter == 10 * CharLen(h.text) < 7 * CharLen(s.src)
       IN cumulative_segments' = (cumulative_segments \ {s})
                                   \cup {IF muchShorter THEN stretched ELSE rewritten}
  /\ UNCHANGED <<next_id, finalized_segments>>

MergeIntoExisting(h) ==
  /\ ~Dropped(h)
  /\ Matching(h) = {}
  /\ \E s \in First(Mergeable(h)) :
       cumulative_segments' = (cumulative_segments \ {s})
          \cup {[s EXCEPT !.src = @ \o h.text, !.abs_end = h.end]}
  /\ UNCHANGED <<next_id, finalized_segments>>

NewSegment(h) ==
  [id |-> next_id, abs_start |-> h.start, abs_end |-> h.end, src |-> h.text,
   src_lang |-> h.lang, final |-> FALSE,
   speaker_id |-> h.speaker_id, speaker_role |-> h.speaker_role]

\* Mutant: the id is given out again.
CreateNewSameId(h) ==
  /\ ~Dropped(h)
  /\ Matching(h) = {} /\ Mergeable(h) = {}
  /\ ~IsDuplicateSegment(h, cumulative_segments)
  /\ cumulative_segments' = cumulative_segments \cup {NewSegment(h)}
  /\ UNCHANGED <<next_id, finalized_segments>>

CreateNew(h) ==
  /\ ~Dropped(h)
  /\ Matching(h) = {} /\ Mergeable(h) = {}
  /\ ~IsDuplicateSegment(h, cumulative_segments)
  /\ cumulative_segments' = cumulative_segments \cup {NewSegment(h)}
  /\ next_id' = next_id + 1
  /\ UNCHANGED finalized_segments

IngestHypothesisSegment ==
  /\ busy /\ hyps # <<>>
  /\ hyps' = Tail(hyps)
  /\ \E t \in StripFinalizedPrefix(Head(hyps).text) :
       LET h == [Head(hyps) EXCEPT !.text = t]
       IN \/ DropHypothesis(h) /\ UNCHANGED folded
          \/ /\ UpdateExisting(h) \/ MergeIntoExisting(h) \/ CreateNew(h)
             /\ folded' = folded \cup {Head(hyps)}
  /\ UNCHANGED <<busy, now_sec, result, calls>>

MarkFinal(S) == {[s EXCEPT !.final = TRUE] : s \in S}

\* Mutant: the live list is cleared, whatever has not become final is lost.
FinalizeAndClear(S) ==
  /\ finalized_segments' = finalized_segments \cup MarkFinal(S)
  /\ cumulative_segments' = {}
  /\ newly_finalized' = Ids(S)
  /\ returned' = returned \cup Ids(S)
  /\ UNCHANGED next_id

\* Moves the segments of S to the final ones and hands their ids back.
Finalize(S) ==
  /\ finalized_segments' = finalized_segments \cup MarkFinal(S)
  /\ cumulative_segments' = {s \in cumulative_segments : ~s.final} \ S
  /\ newly_finalized' = Ids(S)
  /\ returned' = returned \cup Ids(S)
  /\ UNCHANGED next_id

FinalizeStale ==
  /\ busy /\ hyps = <<>>
  /\ Finalize({s \in cumulative_segments :
                 ~s.final /\ s.abs_end <= now_sec - STABILITY_SEC})
  /\ busy' = FALSE
  /\ UNCHANGED <<hyps, now_sec, folded, calls>>

\* Called on the event loop (stop, push-to-talk release), also while the
\* executor thread is in the middle of an update.
ForceFinalizeAll ==
  /\ calls < MaxCalls
  /\ calls' = calls + 1
  /\ Finalize({s \in cumulative_segments : ~s.final})
  /\ UNCHANGED <<busy, hyps, now_sec, folded>>

Next ==
  \/ \E b \in Batches, t \in Times : UpdateFromHypothesis(b, t)
  \/ IngestHypothesisSegment
  \/ FinalizeStale
  \/ ForceFinalizeAll

Spec == Init /\ [][Next]_vars
----------------------------------------------------------------------------
(* Properties. *)

TypeOK ==
  /\ next_id \in Nat
  /\ finalized_segments \subseteq Segment
  /\ cumulative_segments \subseteq Segment
  /\ busy \in BOOLEAN
  /\ hyps \in Seq(Hypothesis)
  /\ now_sec \in Int
  /\ folded \subseteq Hypothesis
  /\ newly_finalized \subseteq Nat
  /\ returned \subseteq Nat
  /\ calls \in Nat

AllSegments == finalized_segments \cup cumulative_segments

(* An id names one segment: no two segments share one, all were given out  *)
(* by next_id, and a segment is live or final, never both.                 *)
UniqueIds ==
  /\ \A s, o \in AllSegments : s.id = o.id => s = o
  /\ \A s \in AllSegments : s.id < next_id
  /\ \A s \in finalized_segments : s.final
  /\ \A s \in cumulative_segments : ~s.final

(* What the calls have returned for translation is exactly what is final:  *)
(* no segment becomes final without being handed to the caller.            *)
ReturnedIsFinal == returned = Ids(finalized_segments)

(* All three; together they are inductive.                                 *)
IInv == TypeOK /\ UniqueIds /\ ReturnedIsFinal

(* The words of a segment all come from hypotheses of its own speaker:     *)
(* no update or merge mixes the German and the foreign channel.            *)
Vocabulary(sp) ==
  UNION {ToSet(h.text) : h \in {g \in Detected : g.speaker_id = sp}}

TextFromOwnSpeaker ==
  \A s \in AllSegments : ToSet(s.src) \subseteq Vocabulary(s.speaker_id)

(* A hypothesis that went into a segment never opens a second one when a   *)
(* later window detects it again, however that segment was stretched,      *)
(* merged or finalized in between.                                         *)
Ingests(h) == hyps # <<>> /\ h = Head(hyps) /\ hyps' = Tail(hyps)

RedetectionOpensNothing ==
  [][\A h \in folded : Ingests(h) => next_id' = next_id]_vars
----------------------------------------------------------------------------
(* The tracker implements TranscriptLedger: an entry is a segment without  *)
(* its final flag, live entries are cumulative_segments.                   *)

Entry(s) ==
  [id |-> s.id,
   body |-> <<s.abs_start, s.abs_end, s.src, s.src_lang, s.speaker_id, s.speaker_role>>]

Entries(S) == {Entry(s) : s \in S}

Ledger == INSTANCE TranscriptLedger WITH
  next <- next_id,
  live <- Entries(cumulative_segments),
  settled <- Entries(finalized_segments)

(* Every step of the tracker opens, revises or settles utterances the way  *)
(* the ledger allows, so readers may rely on the ledger's promises.        *)
ImplementsLedger == Ledger!Spec

=============================================================================
