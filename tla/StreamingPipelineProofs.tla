----------------------- MODULE StreamingPipelineProofs -----------------------
(***************************************************************************)
(* Proofs about StreamingPipeline for any number of segments and any set   *)
(* of languages, with and without viewers that come and go.                *)
(***************************************************************************)
EXTENDS StreamingPipeline, SequenceTheorems, FiniteSetTheorems, TLAPS

\* The segments of S, and nothing else, are appended to the queue.
Queues(S) ==
  /\ queue' \in Seq(Segments)
  /\ ToSet(queue') = ToSet(queue) \cup S
  /\ unfinished' \in Int
  /\ unfinished' - unfinished = Len(queue') - Len(queue)
  /\ enqueued' = enqueued \cup S

(* A list of segments in id order is a sequence of just these segments.    *)
LEMMA InIdOrderType ==
  ASSUME NEW S \in SUBSET Segments, NEW q \in InIdOrder(S)
  PROVE  q \in Seq(Segments) /\ ToSet(q) = S
<1>1. IsFiniteSet(S) /\ Cardinality(S) \in Nat
  <2>1. 0 \in Int /\ MaxSegments - 1 \in Int
    BY PipelineAssumption
  <2>2. IsFiniteSet(Segments)
    BY <2>1, FS_Interval DEF Segments
  <2>3. QED  BY <2>2, FS_Subset, FS_CardinalityType
<1>2. q \in [1 .. Cardinality(S) -> S] /\ ToSet(q) = S
  BY DEF InIdOrder
<1>3. QED  BY <1>1, <1>2

(* The elements of a concatenation.                                        *)
LEMMA ConcatElements ==
  ASSUME NEW a \in Seq(Segments), NEW b \in Seq(Segments)
  PROVE  /\ a \o b \in Seq(Segments)
         /\ Len(a) \in Nat /\ Len(b) \in Nat
         /\ Len(a \o b) = Len(a) + Len(b)
         /\ ToSet(a \o b) = ToSet(a) \cup ToSet(b)
<1>1. /\ a \o b \in Seq(Segments)
      /\ Len(a \o b) = Len(a) + Len(b)
      /\ \A i \in 1 .. Len(a) + Len(b) :
           (a \o b)[i] = IF i <= Len(a) THEN a[i] ELSE b[i - Len(a)]
  BY ConcatProperties
<1>2. /\ Len(a) \in Nat /\ DOMAIN a = 1 .. Len(a)
      /\ Len(b) \in Nat /\ DOMAIN b = 1 .. Len(b)
      /\ DOMAIN (a \o b) = 1 .. Len(a) + Len(b)
  BY <1>1, LenProperties
<1>3. ToSet(a) \subseteq ToSet(a \o b)
  BY <1>1, <1>2 DEF ToSet
<1>4. ASSUME NEW i \in DOMAIN b  PROVE b[i] \in ToSet(a \o b)
  <2>1. i + Len(a) \in DOMAIN (a \o b) /\ (a \o b)[i + Len(a)] = b[i]
    BY <1>1, <1>2
  <2>2. QED  BY <2>1 DEF ToSet
<1>5. ASSUME NEW i \in DOMAIN (a \o b)  PROVE (a \o b)[i] \in ToSet(a) \cup ToSet(b)
  <2>1. CASE i <= Len(a)
    <3>1. i \in DOMAIN a /\ (a \o b)[i] = a[i]  BY <1>1, <1>2, <2>1
    <3>2. QED  BY <3>1 DEF ToSet
  <2>2. CASE ~(i <= Len(a))
    <3>1. i - Len(a) \in DOMAIN b /\ (a \o b)[i] = b[i - Len(a)]  BY <1>1, <1>2, <2>2
    <3>2. QED  BY <3>1 DEF ToSet
  <2>3. QED  BY <2>1, <2>2
<1>6. ToSet(b) \subseteq ToSet(a \o b)
  BY <1>4 DEF ToSet
<1>7. ToSet(a \o b) \subseteq ToSet(a) \cup ToSet(b)
  BY <1>5 DEF ToSet
<1>8. QED  BY <1>1, <1>2, <1>3, <1>6, <1>7

(* Taking the head leaves a queue of the rest.                             *)
LEMMA TailElements ==
  ASSUME NEW q \in Seq(Segments), q # <<>>
  PROVE  /\ Head(q) \in Segments /\ Tail(q) \in Seq(Segments)
         /\ Len(q) \in Nat /\ Len(Tail(q)) = Len(q) - 1
         /\ ToSet(q) = {Head(q)} \cup ToSet(Tail(q))
<1>1. /\ Head(q) \in Segments /\ Tail(q) \in Seq(Segments)
      /\ Head(q) = q[1] /\ Len(Tail(q)) = Len(q) - 1
      /\ \A i \in 1 .. Len(Tail(q)) : Tail(q)[i] = q[i + 1]
  BY HeadTailProperties
<1>2. /\ Len(q) \in Nat /\ Len(q) # 0 /\ DOMAIN q = 1 .. Len(q)
      /\ DOMAIN Tail(q) = 1 .. Len(q) - 1
  BY <1>1, EmptySeq, LenProperties
<1>3. ASSUME NEW i \in DOMAIN q  PROVE q[i] \in {Head(q)} \cup ToSet(Tail(q))
  <2>1. CASE i = 1  BY <1>1, <2>1
  <2>2. CASE i # 1
    <3>1. i - 1 \in DOMAIN Tail(q) /\ Tail(q)[i - 1] = q[i]  BY <1>1, <1>2, <2>2
    <3>2. QED  BY <3>1 DEF ToSet
  <2>3. QED  BY <2>1, <2>2
<1>4. ASSUME NEW i \in DOMAIN Tail(q)  PROVE Tail(q)[i] \in ToSet(q)
  <2>1. i + 1 \in DOMAIN q /\ Tail(q)[i] = q[i + 1]  BY <1>1, <1>2
  <2>2. QED  BY <2>1 DEF ToSet
<1>5. Head(q) \in ToSet(q)
  <2>1. 1 \in DOMAIN q  BY <1>2
  <2>2. QED  BY <1>1, <2>1 DEF ToSet
<1>6. ToSet(q) = {Head(q)} \cup ToSet(Tail(q))
  BY <1>3, <1>4, <1>5 DEF ToSet
<1>7. QED  BY <1>1, <1>2, <1>6

(* What EnqueueForTranslation does to the queue.                           *)
LEMMA EnqueueQueues ==
  ASSUME TypeOK, NEW q \in Seq(Segments), EnqueueForTranslation(q)
  PROVE  Queues(ToSet(q))
<1>1. queue \in Seq(Segments) /\ unfinished \in Int
  BY DEF TypeOK
<1>2. /\ queue \o q \in Seq(Segments)
      /\ Len(queue) \in Nat /\ Len(q) \in Nat
      /\ Len(queue \o q) = Len(queue) + Len(q)
      /\ ToSet(queue \o q) = ToSet(queue) \cup ToSet(q)
  BY <1>1, ConcatElements
<1>3. QED  BY <1>1, <1>2 DEF EnqueueForTranslation, Queues

(* The three places that queue what is live, and the one that queues what  *)
(* a tick was given.                                                       *)
LEMMA EnqueuesInOrder ==
  ASSUME TypeOK, NEW S \in SUBSET Segments, \E q \in InIdOrder(S) : EnqueueForTranslation(q)
  PROVE  Queues(S)
BY InIdOrderType, EnqueueQueues

LEMMA StopQueues ==
  ASSUME TypeOK, StopFinalizes
  PROVE  Queues(live)
<1>1. PICK S \in SUBSET live : \E q \in InIdOrder(S), r \in InIdOrder(live \ S) :
                                 EnqueueForTranslation(q \o r)
  BY DEF StopFinalizes
<1>2. PICK q \in InIdOrder(S), r \in InIdOrder(live \ S) : EnqueueForTranslation(q \o r)
  BY <1>1
<1>3. S \in SUBSET Segments /\ live \ S \in SUBSET Segments
  BY DEF TypeOK
<1>4. q \in Seq(Segments) /\ ToSet(q) = S /\ r \in Seq(Segments) /\ ToSet(r) = live \ S
  BY <1>3, InIdOrderType
<1>5. q \o r \in Seq(Segments) /\ ToSet(q \o r) = live
  <2>1. q \o r \in Seq(Segments) /\ ToSet(q \o r) = ToSet(q) \cup ToSet(r)
    BY <1>4, ConcatElements
  <2>2. S \cup (live \ S) = live
    OBVIOUS
  <2>3. QED  BY <1>4, <2>1, <2>2
<1>6. QED  BY <1>2, <1>5, EnqueueQueues
-----------------------------------------------------------------------------
(* Types. *)

\* The MT loop has a segment and a target in its hands while it works.
InHand == mt \in {"translating", "sending"} => mt_seg \in Segments /\ mt_tgt \in ForeignLangs

TypeInv == TypeOK /\ InHand

\* What a loop does next is one of its states.
LEMMA AsrTypes ==
  ASSUME TypeInv, AsrLoop
  PROVE  TypeInv'
<1>0. asr_new \in SUBSET Segments
  BY DEF TypeInv, TypeOK
<1>1. CASE AsrTick
  BY <1>1 DEF AsrTick, TypeInv, TypeOK, InHand, LoopOr, AsrStates, queue_vars, mt_vars,
      main_vars, timers, env_vars, tracker
<1>2. CASE AsrTickResumes
  BY <1>2 DEF AsrTickResumes, TypeInv, TypeOK, InHand, LoopOr, AsrStates, queue_vars, mt_vars,
      main_vars, timers, env_vars, tracker
<1>3. CASE AsrTickEnqueues
  <2>1. Queues(asr_new)
    BY <1>0, <1>3, EnqueuesInOrder DEF AsrTickEnqueues, TypeInv
  <2>2. QED
    BY <1>3, <2>1 DEF AsrTickEnqueues, Queues, TypeInv, TypeOK, InHand, LoopOr, AsrStates,
        mt_vars, main_vars, timers, env_vars, tracker
<1>4. CASE AsrTickFails
  BY <1>4 DEF AsrTickFails, TypeInv, TypeOK, InHand, LoopOr, AsrStates, queue_vars, mt_vars,
      main_vars, timers, env_vars, tracker
<1>5. QED  BY <1>1, <1>2, <1>3, <1>4 DEF AsrLoop

LEMMA ThreadTypes ==
  ASSUME TypeInv, Thread
  PROVE  TypeInv'
<1>1. CASE AsrJobStarts
  BY <1>1 DEF AsrJobStarts, TypeInv, TypeOK, InHand, AsrStates, queue_vars, mt_vars, main_vars,
      timers,
      env_vars, tracker
<1>2. CASE ThreadDetects
  <2>1. next_id \in Segments /\ next_id + 1 \in 0 .. MaxSegments
    BY <1>2, PipelineAssumption DEF ThreadDetects, TypeInv, TypeOK, Segments
  <2>2. QED
    BY <1>2, <2>1 DEF ThreadDetects, TypeInv, TypeOK, InHand, asr_vars, queue_vars, mt_vars,
        main_vars, timers, env_vars
<1>3. CASE \E S \in SUBSET live : ThreadReturns(S)
  BY <1>3 DEF ThreadReturns, TypeInv, TypeOK, InHand, AsrStates, queue_vars, mt_vars, main_vars,
      timers,
      env_vars
<1>4. QED  BY <1>1, <1>2, <1>3 DEF Thread

LEMMA MtTypes ==
  ASSUME TypeInv, MtLoop \/ MtJob
  PROVE  TypeInv'
<1>1. CASE MtTake
  <2>1. Head(queue) \in Segments /\ Tail(queue) \in Seq(Segments)
    BY <1>1, TailElements DEF MtTake, TypeInv, TypeOK
  <2>2. HasTarget(Head(queue)) => foreign_lang \in ForeignLangs
    BY DEF HasTarget, ResolvesPair, TypeInv, TypeOK
  <2>3. QED
    BY <1>1, <2>1, <2>2 DEF MtTake, TypeInv, TypeOK, InHand, MtStates, asr_vars, main_vars,
        timers,
        env_vars, tracker
<1>2. CASE MtIdles
  BY <1>2 DEF MtIdles, TypeInv, TypeOK, InHand, MtStates, asr_vars, queue_vars, main_vars, timers,
      env_vars, tracker
<1>3. CASE MtSent
  BY <1>3 DEF MtSent, FinishSegment, TaskDone, LoopOr, TypeInv, TypeOK, InHand, MtStates,
      asr_vars, main_vars, timers, env_vars, tracker
<1>4. CASE MtJob
  <2>1. PICK ok \in BOOLEAN : MtTranslated(ok)
    BY <1>4 DEF MtJob
  <2>2. translations' \subseteq Segments \X ForeignLangs
    BY <2>1 DEF MtTranslated, TypeInv, TypeOK, InHand
  <2>3. QED
    BY <2>1, <2>2 DEF MtTranslated, FinishSegment, TaskDone, LoopOr, TypeInv, TypeOK, InHand,
        MtStates, asr_vars, queue_vars, main_vars, timers, env_vars, tracker
<1>5. QED  BY <1>1, <1>2, <1>3, <1>4 DEF MtLoop

LEMMA TimerTypes ==
  ASSUME TypeInv, NEW p \in Parties, StartsTimer(p) \/ CancelsTimer(p) \/ Expires(p)
  PROVE  off' \subseteq Parties /\ orphans' \in [Parties -> Nat]
<1>1. off \subseteq Parties /\ orphans \in [Parties -> Nat]
  BY DEF TypeInv, TypeOK
<1>2. CASE StartsTimer(p)
  BY <1>1, <1>2 DEF StartsTimer
<1>3. CASE CancelsTimer(p)
  BY <1>1, <1>3 DEF CancelsTimer
<1>4. CASE Expires(p)
  BY <1>1, <1>4 DEF Expires
<1>5. QED  BY <1>2, <1>3, <1>4

LEMMA PttTypes ==
  ASSUME TypeInv, Ptt
  PROVE  TypeInv'
<1>0. live \in SUBSET Segments /\ "host" \in Parties /\ "viewer" \in Parties
  BY DEF TypeInv, TypeOK, Parties
<1>1. CASE \E speaking \in BOOLEAN : HostSpeakingState(speaking) \/ ViewerSpeakingState(speaking)
  <2>1. PICK p \in Parties, speaking \in BOOLEAN : SpeakingState(p, speaking)
    BY <1>0, <1>1 DEF HostSpeakingState, ViewerSpeakingState
  <2>2. off' \subseteq Parties /\ orphans' \in [Parties -> Nat]
    BY <2>1, TimerTypes DEF SpeakingState
  <2>3. QED
    BY <2>1, <2>2 DEF SpeakingState, TypeInv, TypeOK, InHand, asr_vars, queue_vars, mt_vars,
        main_vars, env_vars, tracker
<1>2. CASE ViewerLeaves
  <2>1. off' \subseteq Parties /\ orphans' \in [Parties -> Nat]
    BY <1>0, <1>2, TimerTypes DEF ViewerLeaves
  <2>2. QED
    BY <1>2, <2>1 DEF ViewerLeaves, TypeInv, TypeOK, InHand, asr_vars, queue_vars, mt_vars,
        main_vars, env_vars, tracker
<1>3. CASE HostReleaseTimerFires
  <2>1. Queues(live)
    BY <1>0, <1>3, EnqueuesInOrder DEF HostReleaseTimerFires, TypeInv
  <2>2. off' \subseteq Parties /\ orphans' \in [Parties -> Nat]
    BY <1>0, <1>3, TimerTypes DEF HostReleaseTimerFires
  <2>3. QED
    BY <1>3, <2>1, <2>2 DEF HostReleaseTimerFires, ForceFinalizeAll, Queues, TypeInv, TypeOK,
        InHand, asr_vars, mt_vars, main_vars, env_vars
<1>4. CASE ViewerReleaseTimerFires
  <2>0. off' \subseteq Parties /\ orphans' \in [Parties -> Nat]
    BY <1>0, <1>4, TimerTypes DEF ViewerReleaseTimerFires
  <2>1. CASE registered
    <3>1. Queues(live)
      BY <1>0, <1>4, <2>1, EnqueuesInOrder DEF ViewerReleaseTimerFires, TypeInv
    <3>2. QED
      BY <1>4, <2>0, <2>1, <3>1 DEF ViewerReleaseTimerFires, ForceFinalizeAll, Queues, TypeInv,
          TypeOK, InHand, asr_vars, mt_vars, main_vars, env_vars
  <2>2. CASE ~registered
    BY <1>4, <2>0, <2>2 DEF ViewerReleaseTimerFires, TypeInv, TypeOK, InHand, asr_vars,
        queue_vars, mt_vars, main_vars, env_vars, tracker
  <2>3. QED  BY <2>1, <2>2
<1>5. QED  BY <1>1, <1>2, <1>3, <1>4 DEF Ptt

LEMMA StopTypes ==
  ASSUME TypeInv, Stop \/ Cleanup
  PROVE  TypeInv'
<1> USE DEF TypeInv, TypeOK, InHand, MainStates, timers
<1>1. CASE RequestSummary
  BY <1>1 DEF RequestSummary, CancelAsrTask, AsrStates, queue_vars, mt_vars, env_vars, tracker
<1>2. CASE StopFinalizes
  <2>1. Queues(live)
    BY <1>2, StopQueues
  <2>2. QED
    BY <1>2, <2>1 DEF StopFinalizes, ForceFinalizeAll, Queues, asr_vars, mt_vars, env_vars
<1>3. CASE JoinDone \/ JoinTimeout
  BY <1>3 DEF JoinDone, JoinTimeout, AfterJoin, asr_vars, queue_vars, mt_vars, env_vars, tracker
<1>4. CASE FinalSegmentsSent \/ Summarized
  BY <1>4 DEF FinalSegmentsSent, Summarized, asr_vars, queue_vars, mt_vars, env_vars, tracker
<1>5. CASE Closed \/ Disconnected
  BY <1>5 DEF Closed, Disconnected, asr_vars, queue_vars, mt_vars, env_vars, tracker
<1>6. CASE CleanupBegins \/ CleanupFails
  BY <1>6 DEF CleanupBegins, CleanupFails, asr_vars, queue_vars, mt_vars, env_vars, tracker
<1>7. CASE CleanupUnregisters
  BY <1>7 DEF CleanupUnregisters, CancelAsrTask, AsrStates, queue_vars, mt_vars, env_vars, tracker
<1>8. CASE CleanupCancels
  BY <1>8 DEF CleanupCancels, CancelsTimer, CancelMtTask, TaskDone, MtStates, asr_vars,
      queue_vars, env_vars,
      tracker
<1>9. QED
  BY <1>1, <1>2, <1>3, <1>4, <1>5, <1>6, <1>7, <1>8 DEF Stop, Cleanup

LEMMA EnvironmentTypes ==
  ASSUME TypeInv, Environment
  PROVE  TypeInv'
BY DEF Environment, HostDrops, SetForeignLang, TypeInv, TypeOK, InHand, asr_vars, queue_vars,
    mt_vars, main_vars, timers, tracker

LEMMA TypesHold == Spec => []TypeInv
<1>1. Init => TypeInv
  <2>1. <<>> \in Seq(Segments) /\ 0 \in 0 .. MaxSegments
    BY PipelineAssumption
  <2>2. Init => queue \in Seq(Segments) /\ next_id \in 0 .. MaxSegments /\ unfinished \in Int
    BY <2>1 DEF Init
  <2>3. Init => asr \in AsrStates /\ mt \in MtStates /\ main \in MainStates
    BY DEF Init, AsrStates, MtStates, MainStates
  <2>4. Init => orphan \in BOOLEAN /\ running \in BOOLEAN /\ registered \in BOOLEAN
                 /\ timed_out \in BOOLEAN /\ host_up \in BOOLEAN
    BY Zenon DEF Init
  <2>5. QED
    BY <2>2, <2>3, <2>4 DEF Init, TypeInv, TypeOK, InHand, Parties
<1>2. TypeInv /\ [Next]_vars => TypeInv'
  <2>1. TypeInv /\ Next => TypeInv'
    BY AsrTypes, ThreadTypes, MtTypes, PttTypes, StopTypes, EnvironmentTypes DEF Next
  <2>2. TypeInv /\ UNCHANGED vars => TypeInv'
    BY DEF vars, tracker, asr_vars, queue_vars, mt_vars, main_vars, timers, env_vars, TypeInv,
        TypeOK,
        InHand
  <2>3. QED  BY <2>1, <2>2
<1>3. QED  BY <1>1, <1>2, PTL DEF Spec

(* Every reachable state is well typed, however many segments there are.   *)
THEOREM TypeCorrect == Spec => []TypeOK
BY TypesHold, PTL DEF TypeInv
-----------------------------------------------------------------------------
(* The queue and the MT loop. *)

\* The number of items in the hands of the MT loop.
Held == IF mt \in {"translating", "sending"} THEN 1 ELSE 0

LEMMA AccountingStep ==
  ASSUME TypeInv, QueueAccounting, Next
  PROVE  QueueAccounting'
<1>1. /\ unfinished = Len(queue) + Held /\ unfinished \in Int
      /\ queue \in Seq(Segments) /\ Len(queue) \in Nat
  BY LenProperties DEF QueueAccounting, Held, TypeInv, TypeOK
<1>2. SUFFICES unfinished' = Len(queue') + Held'
  BY DEF QueueAccounting, Held
<1>3. ASSUME NEW S, Queues(S), mt' = mt
      PROVE  unfinished' = Len(queue') + Held'
  <2>1. Len(queue') \in Nat  BY <1>3, LenProperties DEF Queues
  <2>2. QED  BY <1>1, <1>3, <2>1 DEF Queues, Held
<1>4. CASE UNCHANGED <<queue, unfinished, mt>>
  BY <1>1, <1>4 DEF Held
<1>5. CASE AsrTickEnqueues
  <2>1. asr_new \in SUBSET Segments  BY DEF TypeInv, TypeOK
  <2>2. Queues(asr_new)
    BY <1>5, <2>1, EnqueuesInOrder DEF AsrTickEnqueues, TypeInv
  <2>3. QED  BY <1>3, <1>5, <2>2 DEF AsrTickEnqueues, mt_vars
<1>6. CASE HostReleaseTimerFires \/ (ViewerReleaseTimerFires /\ registered)
  <2>1. live \in SUBSET Segments  BY DEF TypeInv, TypeOK
  <2>2. Queues(live)
    BY <1>6, <2>1, EnqueuesInOrder
    DEF HostReleaseTimerFires, ViewerReleaseTimerFires, TypeInv
  <2>3. QED  BY <1>3, <1>6, <2>2 DEF HostReleaseTimerFires, ViewerReleaseTimerFires, mt_vars
<1>7. CASE StopFinalizes
  <2>1. Queues(live)  BY <1>7, StopQueues DEF TypeInv
  <2>2. QED  BY <1>3, <1>7, <2>1 DEF StopFinalizes, mt_vars
<1>8. CASE MtTake
  <2>1. Len(queue') = Len(queue) - 1
    BY <1>1, <1>8, TailElements DEF MtTake
  <2>2. QED  BY <1>1, <1>8, <2>1 DEF MtTake, Held
<1>9. CASE MtSent \/ MtJob
  BY <1>1, <1>9 DEF MtSent, MtJob, MtTranslated, FinishSegment, TaskDone, LoopOr, queue_vars, Held
<1>10. CASE CleanupCancels
  BY <1>1, <1>10 DEF CleanupCancels, CancelMtTask, TaskDone, queue_vars, Held
<1>11. CASE MtIdles
  BY <1>1, <1>11 DEF MtIdles, queue_vars, Held
<1>12. CASE AsrTick \/ AsrTickResumes \/ AsrTickFails \/ Thread \/ Environment
  BY <1>4, <1>12 DEF AsrTick, AsrTickResumes, AsrTickFails, Thread, AsrJobStarts, ThreadDetects,
     ThreadReturns, Environment, HostDrops, SetForeignLang, queue_vars, mt_vars
<1>13. CASE \/ \E speaking \in BOOLEAN : HostSpeakingState(speaking) \/ ViewerSpeakingState(speaking)
            \/ ViewerLeaves \/ (ViewerReleaseTimerFires /\ ~registered)
  BY <1>4, <1>13 DEF HostSpeakingState, ViewerSpeakingState, SpeakingState, ViewerLeaves,
     ViewerReleaseTimerFires, queue_vars, mt_vars
<1>14. CASE \/ RequestSummary \/ JoinDone \/ JoinTimeout \/ FinalSegmentsSent \/ Summarized \/ Closed
            \/ Disconnected \/ CleanupBegins \/ CleanupUnregisters \/ CleanupFails
  BY <1>4, <1>14 DEF RequestSummary, JoinDone, JoinTimeout, FinalSegmentsSent, Summarized, Closed,
     Disconnected, CleanupBegins, CleanupUnregisters, CleanupFails, queue_vars, mt_vars
<1>15. QED
  BY <1>5, <1>6, <1>7, <1>8, <1>9, <1>10, <1>11, <1>12, <1>13, <1>14
  DEF Next, AsrLoop, MtLoop, Ptt, Stop, Cleanup

(* The count that the stop sequence waits for is exact in every reachable  *)
(* state, however the MT loop leaves an item and however many there are.   *)
THEOREM QueueIsAccounted == Spec => []QueueAccounting
<1>1. Init => QueueAccounting
  BY EmptySeq DEF Init, QueueAccounting
<1>2. TypeInv /\ QueueAccounting /\ [Next]_vars => QueueAccounting'
  <2>1. QueueAccounting /\ UNCHANGED vars => QueueAccounting'
    BY DEF QueueAccounting, vars, queue_vars, mt_vars
  <2>2. QED  BY <2>1, AccountingStep
<1>3. QED  BY <1>1, <1>2, TypesHold, PTL DEF Spec

(* What the run of the pipeline checks of the queue, for any number of     *)
(* segments and languages.                                                 *)
THEOREM QueueHolds == Spec => []QueueOK
BY TypeCorrect, QueueIsAccounted, PTL DEF QueueOK
-----------------------------------------------------------------------------
(* The account of the final segments. *)

\* Ids are given out once, no segment is live and final, and only a tick
\* between its job and its end has something in its hands.
SegInv ==
  /\ FinalIsAccountedFor
  /\ live \cap finals = {}
  /\ \A s \in live \cup finals : s < next_id
  /\ asr \notin {"returned", "sending"} => asr_new = {}

\* Nothing that the account speaks of changes.
SegIdle == UNCHANGED <<tracker, asr_new, lost, enqueued>> /\ (asr' = asr \/ asr_new = {})

LEMMA SegIdleStep ==
  ASSUME SegInv, SegIdle
  PROVE  SegInv'
BY DEF SegInv, SegIdle, FinalIsAccountedFor, tracker

\* What is live becomes final and is queued at once.
LEMMA SegQueueLive ==
  ASSUME SegInv, Queues(live), ForceFinalizeAll, UNCHANGED <<asr, asr_new, lost>>
  PROVE  SegInv'
BY DEF SegInv, Queues, ForceFinalizeAll, FinalIsAccountedFor

LEMMA SegAsr ==
  ASSUME TypeInv, SegInv, AsrLoop
  PROVE  SegInv'
<1>1. CASE AsrTick
  BY <1>1, SegIdleStep DEF AsrTick, SegIdle, SegInv, queue_vars
<1>2. CASE AsrTickResumes
  BY <1>2 DEF AsrTickResumes, SegInv, FinalIsAccountedFor, tracker, queue_vars
<1>3. CASE AsrTickEnqueues
  <2>1. asr_new \in SUBSET Segments  BY DEF TypeInv, TypeOK
  <2>2. Queues(asr_new)
    BY <1>3, <2>1, EnqueuesInOrder DEF AsrTickEnqueues, TypeInv
  <2>3. QED
    BY <1>3, <2>2 DEF AsrTickEnqueues, Queues, SegInv, FinalIsAccountedFor, tracker
<1>4. CASE AsrTickFails
  BY <1>4 DEF AsrTickFails, SegInv, FinalIsAccountedFor, tracker, queue_vars
<1>5. QED  BY <1>1, <1>2, <1>3, <1>4 DEF AsrLoop

LEMMA SegThread ==
  ASSUME TypeInv, SegInv, Thread
  PROVE  SegInv'
<1>1. CASE AsrJobStarts
  BY <1>1, SegIdleStep DEF AsrJobStarts, SegIdle, SegInv, queue_vars
<1>2. CASE ThreadDetects
  <2>1. next_id \in Int /\ live \subseteq Int /\ finals \subseteq Int
    BY PipelineAssumption DEF TypeInv, TypeOK, Segments
  <2>2. QED
    BY <1>2, <2>1 DEF ThreadDetects, SegInv, FinalIsAccountedFor, asr_vars, queue_vars
<1>3. CASE \E S \in SUBSET live : ThreadReturns(S)
  BY <1>3 DEF ThreadReturns, SegInv, FinalIsAccountedFor, queue_vars
<1>4. QED  BY <1>1, <1>2, <1>3 DEF Thread

LEMMA SegPtt ==
  ASSUME TypeInv, SegInv, Ptt
  PROVE  SegInv'
<1>0. live \in SUBSET Segments  BY DEF TypeInv, TypeOK
<1>1. CASE HostReleaseTimerFires \/ (ViewerReleaseTimerFires /\ registered)
  <2>1. Queues(live)
    BY <1>0, <1>1, EnqueuesInOrder
    DEF HostReleaseTimerFires, ViewerReleaseTimerFires, TypeInv
  <2>2. QED
    BY <1>1, <2>1, SegQueueLive
    DEF HostReleaseTimerFires, ViewerReleaseTimerFires, asr_vars
<1>2. CASE \/ \E speaking \in BOOLEAN : HostSpeakingState(speaking) \/ ViewerSpeakingState(speaking)
           \/ ViewerLeaves \/ (ViewerReleaseTimerFires /\ ~registered)
  BY <1>2, SegIdleStep DEF HostSpeakingState, ViewerSpeakingState, SpeakingState, ViewerLeaves,
     ViewerReleaseTimerFires, SegIdle, asr_vars, queue_vars
<1>3. QED  BY <1>1, <1>2 DEF Ptt

LEMMA SegStop ==
  ASSUME TypeInv, SegInv, Stop \/ Cleanup
  PROVE  SegInv'
<1>1. CASE RequestSummary
  BY <1>1 DEF RequestSummary, CancelAsrTask, SegInv, FinalIsAccountedFor, tracker, queue_vars
<1>2. CASE CleanupUnregisters
  BY <1>2 DEF CleanupUnregisters, CancelAsrTask, SegInv, FinalIsAccountedFor, tracker, queue_vars
<1>3. CASE StopFinalizes
  <2>1. Queues(live)  BY <1>3, StopQueues DEF TypeInv
  <2>2. QED  BY <1>3, <2>1, SegQueueLive DEF StopFinalizes, asr_vars
<1>4. CASE CleanupCancels
  BY <1>4, SegIdleStep DEF CleanupCancels, CancelMtTask, TaskDone, SegIdle, asr_vars, queue_vars
<1>5. CASE \/ JoinDone \/ JoinTimeout \/ FinalSegmentsSent \/ Summarized \/ Closed
           \/ Disconnected \/ CleanupBegins \/ CleanupFails
  BY <1>5, SegIdleStep DEF JoinDone, JoinTimeout, FinalSegmentsSent, Summarized, Closed,
     Disconnected, CleanupBegins, CleanupFails, SegIdle, asr_vars, queue_vars
<1>6. QED  BY <1>1, <1>2, <1>3, <1>4, <1>5 DEF Stop, Cleanup

LEMMA SegOthers ==
  ASSUME SegInv, MtLoop \/ MtJob \/ Environment
  PROVE  SegInv'
<1>1. SegIdle
  BY DEF MtLoop, MtJob, MtTake, MtIdles, MtSent, MtTranslated, FinishSegment, TaskDone,
     Environment, HostDrops, SetForeignLang, SegIdle, asr_vars, queue_vars
<1>2. QED  BY <1>1, SegIdleStep

LEMMA SegInvHolds == Spec => []SegInv
<1>1. Init => SegInv
  BY DEF Init, SegInv, FinalIsAccountedFor
<1>2. TypeInv /\ SegInv /\ [Next]_vars => SegInv'
  <2>1. TypeInv /\ SegInv /\ Next => SegInv'
    BY SegAsr, SegThread, SegPtt, SegStop, SegOthers DEF Next
  <2>2. SegInv /\ UNCHANGED vars => SegInv'
    BY SegIdleStep DEF SegIdle, vars, asr_vars, queue_vars
  <2>3. QED  BY <2>1, <2>2
<1>3. QED  BY <1>1, <1>2, TypesHold, PTL DEF Spec

(* Whatever path makes a segment final, it is queued exactly once, is in   *)
(* the hands of the tick that returned it, or was lost with that tick.     *)
THEOREM FinalsAreAccountedFor == Spec => []FinalIsAccountedFor
BY SegInvHolds, PTL DEF SegInv
-----------------------------------------------------------------------------
(* The stop sequence. *)

\* While the session runs, a segment that was ever queued is processed, on
\* the queue or in the hands of the MT loop.
OpenSegments == ToSet(queue) \cup (IF mt \in {"translating", "sending"} THEN {mt_seg} ELSE {})

DrainInv ==
  /\ main \in {"receive", "stopping", "joining", "reporting", "summarizing"} => running
  /\ main \in {"saying_goodbye", "cancelling"} => ~running
  /\ running => enqueued \subseteq processed \cup OpenSegments

LEMMA DrainQueues ==
  ASSUME NEW S, DrainInv, Queues(S), UNCHANGED <<mt_vars, running>>,
         main' = main \/ (main = "stopping" /\ main' = "joining")
  PROVE  DrainInv'
BY DEF DrainInv, Queues, OpenSegments, mt_vars

\* Steps that neither touch the queue nor end the run of the loops.
LEMMA DrainIdle ==
  ASSUME DrainInv, UNCHANGED <<queue_vars, mt_vars, main, running>>
  PROVE  DrainInv'
BY DEF DrainInv, OpenSegments, queue_vars, mt_vars

LEMMA DrainMt ==
  ASSUME TypeInv, DrainInv, MtLoop \/ MtJob
  PROVE  DrainInv'
<1>1. CASE MtTake
  <2>1. ToSet(queue) = {Head(queue)} \cup ToSet(queue')
    BY <1>1, TailElements DEF MtTake, TypeInv, TypeOK
  <2>2. QED
    BY <1>1, <2>1 DEF MtTake, DrainInv, OpenSegments, main_vars
<1>2. CASE MtIdles
  BY <1>2 DEF MtIdles, DrainInv, main_vars
<1>3. CASE MtSent
  BY <1>3 DEF MtSent, FinishSegment, TaskDone, LoopOr, DrainInv, OpenSegments, main_vars
<1>4. CASE MtJob
  BY <1>4 DEF MtJob, MtTranslated, FinishSegment, TaskDone, LoopOr, DrainInv, OpenSegments,
      main_vars, queue_vars
<1>5. QED  BY <1>1, <1>2, <1>3, <1>4 DEF MtLoop

LEMMA DrainStop ==
  ASSUME TypeInv, DrainInv, Stop \/ Cleanup
  PROVE  DrainInv'
<1>1. CASE StopFinalizes
  <2>1. Queues(live)  BY <1>1, StopQueues DEF TypeInv
  <2>2. QED  BY <1>1, <2>1, DrainQueues DEF StopFinalizes
<1>2. CASE \/ RequestSummary \/ JoinDone \/ JoinTimeout \/ FinalSegmentsSent \/ Summarized \/ Closed
           \/ Disconnected \/ CleanupBegins \/ CleanupUnregisters \/ CleanupFails
  BY <1>2 DEF RequestSummary, JoinDone, JoinTimeout, AfterJoin, FinalSegmentsSent, Summarized,
      Closed,
     Disconnected, CleanupBegins, CleanupUnregisters, CleanupFails, DrainInv, OpenSegments,
     queue_vars, mt_vars
<1>3. CASE CleanupCancels
  BY <1>3 DEF CleanupCancels, DrainInv
<1>4. QED  BY <1>1, <1>2, <1>3 DEF Stop, Cleanup

LEMMA DrainOthers ==
  ASSUME TypeInv, DrainInv, AsrLoop \/ Thread \/ Ptt \/ Environment
  PROVE  DrainInv'
<1>0. asr_new \in SUBSET Segments /\ live \in SUBSET Segments  BY DEF TypeInv, TypeOK
<1>1. CASE AsrTickEnqueues
  <2>1. Queues(asr_new)
    BY <1>0, <1>1, EnqueuesInOrder DEF AsrTickEnqueues, TypeInv
  <2>2. QED  BY <1>1, <2>1, DrainQueues DEF AsrTickEnqueues, main_vars
<1>2. CASE HostReleaseTimerFires \/ (ViewerReleaseTimerFires /\ registered)
  <2>1. Queues(live)
    BY <1>0, <1>2, EnqueuesInOrder
    DEF HostReleaseTimerFires, ViewerReleaseTimerFires, TypeInv
  <2>2. QED
    BY <1>2, <2>1, DrainQueues DEF HostReleaseTimerFires, ViewerReleaseTimerFires, main_vars
<1>3. CASE AsrTick \/ AsrTickResumes \/ AsrTickFails \/ Thread \/ Environment
  BY <1>3, DrainIdle DEF AsrTick, AsrTickResumes, AsrTickFails, Thread, AsrJobStarts,
      ThreadDetects,
     ThreadReturns, Environment, HostDrops, SetForeignLang, main_vars
<1>4. CASE \/ \E speaking \in BOOLEAN : HostSpeakingState(speaking) \/ ViewerSpeakingState(speaking)
           \/ ViewerLeaves \/ (ViewerReleaseTimerFires /\ ~registered)
  BY <1>4, DrainIdle DEF HostSpeakingState, ViewerSpeakingState, SpeakingState, ViewerLeaves,
     ViewerReleaseTimerFires, main_vars
<1>5. QED  BY <1>1, <1>2, <1>3, <1>4 DEF AsrLoop, Ptt

LEMMA DrainInvHolds == Spec => []DrainInv
<1>1. Init => DrainInv
  BY DEF Init, DrainInv
<1>2. TypeInv /\ DrainInv /\ [Next]_vars => DrainInv'
  <2>1. TypeInv /\ DrainInv /\ Next => DrainInv'
    BY DrainMt, DrainStop, DrainOthers DEF Next
  <2>2. DrainInv /\ UNCHANGED vars => DrainInv'
    BY DrainIdle DEF vars, main_vars
  <2>3. QED  BY <2>1, <2>2
<1>3. QED  BY <1>1, <1>2, TypesHold, PTL DEF Spec

\* A count of zero means that nothing is open.
LEMMA NothingOpen ==
  ASSUME TypeInv, QueueAccounting, unfinished = 0
  PROVE  OpenSegments = {}
<1>1. Len(queue) \in Nat /\ queue \in Seq(Segments)
  BY LenProperties DEF TypeInv, TypeOK
<1>2. Len(queue) = 0 /\ ~(mt \in {"translating", "sending"})
  BY <1>1 DEF QueueAccounting
<1>3. DOMAIN queue = {}
  BY <1>1, <1>2, LenProperties
<1>4. QED  BY <1>2, <1>3 DEF OpenSegments, ToSet

(* When the join of the stop sequence ends without its timeout, the MT     *)
(* loop is done with every segment that was ever queued: nothing slips     *)
(* past the join between the queue, the loop and the timers.               *)
THEOREM JoinMeansDrained == Spec => DrainComplete
<1>1. TypeInv /\ QueueAccounting /\ DrainInv /\ [Next]_vars
        => [main = "joining" /\ main' # "joining" /\ ~timed_out' => enqueued \subseteq processed]_vars
  <2> SUFFICES ASSUME TypeInv, QueueAccounting, DrainInv, Next,
                      main = "joining", main' # "joining", ~timed_out'
               PROVE  enqueued \subseteq processed
    BY DEF vars, main_vars
  <2>1. running  BY DEF DrainInv
  <2>2. CASE JoinDone
    <3>1. OpenSegments = {}  BY <2>2, NothingOpen DEF JoinDone
    <3>2. QED  BY <2>1, <3>1 DEF DrainInv
  <2>3. CASE JoinTimeout  BY <2>3 DEF JoinTimeout
  <2>4. CASE (Stop \/ Cleanup) /\ ~JoinDone /\ ~JoinTimeout
    BY <2>4 DEF Stop, Cleanup, RequestSummary, StopFinalizes, FinalSegmentsSent, Summarized,
        Closed,
       Disconnected, CleanupBegins, CleanupUnregisters, CleanupFails, CleanupCancels
  <2>5. CASE AsrLoop \/ Thread
    BY <2>5 DEF AsrLoop, AsrTick, AsrTickResumes, AsrTickFails, AsrTickEnqueues, Thread,
       AsrJobStarts, ThreadDetects, ThreadReturns, main_vars
  <2>6. CASE MtLoop \/ MtJob
    BY <2>6 DEF MtLoop, MtTake, MtIdles, MtSent, MtJob, MtTranslated, main_vars
  <2>7. CASE Ptt \/ Environment
    BY <2>7 DEF Ptt, HostSpeakingState, ViewerSpeakingState, SpeakingState, ViewerLeaves,
        HostReleaseTimerFires,
       ViewerReleaseTimerFires, Environment, HostDrops, SetForeignLang, main_vars
  <2>8. QED  BY <2>2, <2>3, <2>4, <2>5, <2>6, <2>7 DEF Next
<1>2. QED
  BY <1>1, TypesHold, QueueIsAccounted, DrainInvHolds, PTL DEF Spec, DrainComplete
-----------------------------------------------------------------------------
(* The end of the session. *)

\* A session leaves the registry on its way out, with its ASR loop ended; when
\* it has returned then, its MT loop and the host's timer are gone as well.
EndInv ==
  /\ ~registered => main \in {"cancelling", "ended"} /\ asr = "ended"
  /\ ~registered /\ main = "ended" => mt = "ended" /\ "host" \notin off

LEMMA EndIdle ==
  ASSUME EndInv, UNCHANGED <<registered, main, mt>>, asr' = asr \/ asr # "ended",
         "host" \in off' => "host" \in off \/ main = "receive"
  PROVE  EndInv'
BY DEF EndInv

LEMMA EndInvHolds == Spec => []EndInv
<1>1. Init => EndInv
  BY DEF Init, EndInv
<1>2. ASSUME EndInv, Next  PROVE EndInv'
  <2>1. CASE AsrLoop \/ Thread
    BY <1>2, <2>1, EndIdle DEF AsrLoop, AsrTick, AsrTickResumes, AsrTickFails, AsrTickEnqueues,
        Thread,
       AsrJobStarts, ThreadDetects, ThreadReturns, main_vars, timers, mt_vars, asr_vars
  <2>2. CASE MtLoop \/ MtJob
    BY <1>2, <2>2 DEF EndInv, MtLoop, MtTake, MtIdles, MtSent, MtJob, MtTranslated, FinishSegment,
       TaskDone, LoopOr, main_vars, timers, asr_vars
  <2>3. CASE Ptt
    BY <1>2, <2>3, EndIdle DEF Ptt, HostSpeakingState, ViewerSpeakingState, SpeakingState,
       StartsTimer, CancelsTimer, Expires, ViewerLeaves, HostReleaseTimerFires,
       ViewerReleaseTimerFires, main_vars, timers, mt_vars, asr_vars
  <2>4. CASE Environment
    BY <1>2, <2>4, EndIdle DEF Environment, HostDrops, SetForeignLang, main_vars, timers,
        mt_vars, asr_vars
  <2>5. CASE Stop
    BY <1>2, <2>5 DEF EndInv, Stop, RequestSummary, StopFinalizes, JoinDone, JoinTimeout,
        AfterJoin,
       FinalSegmentsSent, Summarized, Closed
  <2>6. CASE Cleanup
    BY <1>2, <2>6 DEF EndInv, Cleanup, Disconnected, CleanupBegins, CleanupUnregisters,
        CleanupFails,
       CleanupCancels, CancelsTimer, CancelAsrTask, CancelMtTask, asr_vars, timers
  <2>7. QED  BY <1>2, <2>1, <2>2, <2>3, <2>4, <2>5, <2>6 DEF Next
<1>3. EndInv /\ UNCHANGED vars => EndInv'
  BY EndIdle DEF vars, main_vars, timers, mt_vars, asr_vars
<1>4. QED  BY <1>1, <1>2, <1>3, PTL DEF Spec

(* A session that has ended and left the registry translates nothing more,  *)
(* whatever its executor thread and the viewer's timers do; a timer of the  *)
(* host that a second release overwrote is all that can still queue.        *)
THEOREM OnlyOrphansQueueAfterEnd == Spec => OnlyOrphansAfterEnd
<1>1. EndInv /\ TypeInv /\ [Next]_vars
        => [main = "ended" /\ ~registered
              => /\ UNCHANGED <<translations, processed, mt>>
                 /\ OverwrittenTimerFires \/ UNCHANGED queue_vars]_vars
  <2> SUFFICES ASSUME EndInv, TypeInv, Next, main = "ended", ~registered
               PROVE  /\ UNCHANGED <<translations, processed, mt>>
                      /\ OverwrittenTimerFires \/ UNCHANGED queue_vars
    BY DEF vars, mt_vars, queue_vars
  <2>0. asr = "ended" /\ mt = "ended" /\ "host" \notin off
    BY DEF EndInv
  <2>1. CASE AsrLoop \/ Thread
    BY <2>0, <2>1 DEF AsrLoop, AsrTick, AsrTickResumes, AsrTickFails, AsrTickEnqueues, Thread,
       AsrJobStarts, ThreadDetects, ThreadReturns, mt_vars
  <2>2. CASE MtLoop \/ MtJob
    BY <2>0, <2>2 DEF MtLoop, MtTake, MtIdles, MtSent, MtJob, MtTranslated
  <2>3. CASE HostReleaseTimerFires
    <3>1. orphans["host"] > 0 /\ orphans' = [orphans EXCEPT !["host"] = @ - 1]
      BY <2>0, <2>3 DEF HostReleaseTimerFires, Expires
    <3>2. orphans \in [Parties -> Nat] /\ "host" \in Parties
      BY DEF TypeInv, TypeOK, Parties
    <3>3. OverwrittenTimerFires
      BY <3>1, <3>2 DEF OverwrittenTimerFires
    <3>4. QED  BY <2>3, <3>3 DEF HostReleaseTimerFires, mt_vars
  <2>4. CASE (Ptt /\ ~HostReleaseTimerFires) \/ Environment
    BY <2>0, <2>4 DEF Ptt, HostSpeakingState, ViewerSpeakingState, SpeakingState, ViewerLeaves,
       ViewerReleaseTimerFires, Environment, HostDrops, SetForeignLang, mt_vars
  <2>5. CASE Stop \/ Cleanup
    BY <2>5 DEF Stop, RequestSummary, StopFinalizes, JoinDone, JoinTimeout, FinalSegmentsSent,
       Summarized, Closed, Cleanup, Disconnected, CleanupBegins, CleanupUnregisters, CleanupFails,
       CleanupCancels
  <2>6. QED  BY <2>1, <2>2, <2>3, <2>4, <2>5 DEF Next
<1>2. QED  BY <1>1, EndInvHolds, TypesHold, PTL DEF Spec, OnlyOrphansAfterEnd
-----------------------------------------------------------------------------
(* The contract with the tracker. *)

\* The entries of the ledger: as many as there are ids.
Entries(S) == {[id |-> s] : s \in S}

LEMMA EntriesOfDifference ==
  ASSUME NEW S, NEW T
  PROVE  Entries(S) \ Entries(T) = Entries(S \ T)
BY DEF Entries

\* A set of live segments becomes final.
LEMMA SettleStep ==
  ASSUME NEW S, S \subseteq live, live' = live \ S, finals' = finals \cup S, next_id' = next_id
  PROVE  Ledger!Settle
<1>1. Entries(live') \subseteq Entries(live)  BY DEF Entries
<1>2. live \ live' = S  OBVIOUS
<1>3. Entries(live) \ Entries(live') = Entries(S)
  BY <1>2, EntriesOfDifference
<1>4. Entries(finals') = Entries(finals) \cup Entries(S)  BY DEF Entries
<1>5. QED  BY <1>1, <1>3, <1>4 DEF Ledger!Settle, Entries

LEMMA LedgerStep ==
  ASSUME Next
  PROVE  Ledger!Next \/ UNCHANGED tracker
<1>1. CASE AsrLoop
  BY <1>1 DEF AsrLoop, AsrTick, AsrTickResumes, AsrTickFails, AsrTickEnqueues, tracker
<1>2. CASE Thread
  <2>1. CASE AsrJobStarts  BY <2>1 DEF AsrJobStarts
  <2>2. CASE ThreadDetects
    <3>1. [id |-> next_id] \in Entries(live') /\ Entries(live') = Entries(live) \cup {[id |-> next_id]}
      BY <2>2 DEF ThreadDetects, Entries
    <3>2. Ledger!Open
      BY <2>2, <3>1 DEF ThreadDetects, Ledger!Open, Entries
    <3>3. QED  BY <3>2 DEF Ledger!Next
  <2>3. CASE \E S \in SUBSET live : ThreadReturns(S)
    <3>1. PICK S \in SUBSET live : ThreadReturns(S)  BY <2>3
    <3>2. Ledger!Settle  BY <3>1, SettleStep DEF ThreadReturns
    <3>3. QED  BY <3>2 DEF Ledger!Next
  <2>4. QED  BY <1>2, <2>1, <2>2, <2>3 DEF Thread
<1>3. CASE MtLoop \/ MtJob
  BY <1>3 DEF MtLoop, MtTake, MtIdles, MtSent, MtJob, MtTranslated
<1>4. CASE ForceFinalizeAll
  <2>1. live' = live \ live  BY <1>4 DEF ForceFinalizeAll
  <2>2. Ledger!Settle  BY <1>4, <2>1, SettleStep DEF ForceFinalizeAll
  <2>3. QED  BY <2>2 DEF Ledger!Next
<1>5. CASE (Stop \/ Cleanup) /\ ~ForceFinalizeAll
  BY <1>5 DEF Stop, RequestSummary, StopFinalizes, JoinDone, JoinTimeout, FinalSegmentsSent,
     Summarized, Closed, Cleanup, Disconnected, CleanupBegins, CleanupUnregisters, CleanupFails,
     CleanupCancels
<1>6. CASE (Ptt \/ Environment) /\ ~ForceFinalizeAll
  BY <1>6 DEF Ptt, HostSpeakingState, ViewerSpeakingState, SpeakingState, ViewerLeaves,
      HostReleaseTimerFires,
     ViewerReleaseTimerFires, Environment, HostDrops, SetForeignLang
<1>7. QED  BY <1>1, <1>2, <1>3, <1>4, <1>5, <1>6 DEF Next

(* The tasks of a session let the tracker take no step that the ledger     *)
(* does not allow: what SegmentTracker is shown to implement is all that   *)
(* the pipeline assumes of it.                                             *)
THEOREM PipelineImplementsLedger == Spec => ImplementsLedger
<1>1. Init => Ledger!Init
  BY DEF Init, Ledger!Init
<1>2. [Next]_vars => [Ledger!Next]_(Ledger!vars)
  <2>1. UNCHANGED tracker => UNCHANGED Ledger!vars
    BY DEF tracker, Ledger!vars
  <2>2. UNCHANGED vars => UNCHANGED tracker
    BY DEF vars
  <2>3. QED  BY <2>1, <2>2, LedgerStep
<1>3. QED  BY <1>1, <1>2, PTL DEF Spec, ImplementsLedger, Ledger!Spec
-----------------------------------------------------------------------------
(* The life cycle of a segment. *)

Distinct(q) == \A i, j \in DOMAIN q : q[i] = q[j] => i = j

\* A list in id order is strictly ascending.
LEMMA InIdOrderDistinct ==
  ASSUME NEW S \in SUBSET Segments, NEW q \in InIdOrder(S)
  PROVE  Distinct(q)
<1>1. q \in Seq(Segments)
  BY InIdOrderType
<1>2. Len(q) \in Nat /\ DOMAIN q = 1 .. Len(q) /\ \A i \in 1 .. Len(q) : q[i] \in Int
  BY <1>1, LenProperties, PipelineAssumption DEF Segments
<1>3. \A i, j \in DOMAIN q : i < j => q[i] < q[j]
  BY DEF InIdOrder
<1>4. QED  BY <1>2, <1>3 DEF Distinct

LEMMA ConcatDistinct ==
  ASSUME NEW a \in Seq(Segments), NEW b \in Seq(Segments), Distinct(a), Distinct(b),
         ToSet(a) \cap ToSet(b) = {}
  PROVE  Distinct(a \o b)
<1>1. /\ Len(a \o b) = Len(a) + Len(b)
      /\ \A i \in 1 .. Len(a) + Len(b) :
           (a \o b)[i] = IF i <= Len(a) THEN a[i] ELSE b[i - Len(a)]
  BY ConcatProperties
<1>2. /\ a \o b \in Seq(Segments)
      /\ Len(a) \in Nat /\ DOMAIN a = 1 .. Len(a)
      /\ Len(b) \in Nat /\ DOMAIN b = 1 .. Len(b)
      /\ DOMAIN (a \o b) = 1 .. Len(a) + Len(b)
  BY <1>1, ConcatElements, LenProperties
<1>3. ASSUME NEW i \in DOMAIN (a \o b), NEW j \in DOMAIN (a \o b), (a \o b)[i] = (a \o b)[j]
      PROVE  i = j
  <2>1. CASE i <= Len(a) /\ j <= Len(a)
    <3>1. i \in DOMAIN a /\ j \in DOMAIN a /\ a[i] = a[j]  BY <1>1, <1>2, <1>3, <2>1
    <3>2. QED  BY <3>1 DEF Distinct
  <2>2. CASE ~(i <= Len(a)) /\ ~(j <= Len(a))
    <3>1. /\ i - Len(a) \in DOMAIN b /\ j - Len(a) \in DOMAIN b
          /\ b[i - Len(a)] = b[j - Len(a)]
      BY <1>1, <1>2, <1>3, <2>2
    <3>2. i - Len(a) = j - Len(a)  BY <3>1 DEF Distinct
    <3>3. QED  BY <1>2, <3>2
  <2>3. CASE i <= Len(a) /\ ~(j <= Len(a))
    <3>1. i \in DOMAIN a /\ j - Len(a) \in DOMAIN b /\ a[i] = b[j - Len(a)]
      BY <1>1, <1>2, <1>3, <2>3
    <3>2. QED  BY <3>1 DEF ToSet
  <2>4. CASE ~(i <= Len(a)) /\ j <= Len(a)
    <3>1. j \in DOMAIN a /\ i - Len(a) \in DOMAIN b /\ a[j] = b[i - Len(a)]
      BY <1>1, <1>2, <1>3, <2>4
    <3>2. QED  BY <3>1 DEF ToSet
  <2>5. QED  BY <2>1, <2>2, <2>3, <2>4
<1>4. QED  BY <1>3 DEF Distinct

LEMMA TailDistinct ==
  ASSUME NEW q \in Seq(Segments), q # <<>>, Distinct(q)
  PROVE  Distinct(Tail(q)) /\ Head(q) \notin ToSet(Tail(q))
<1>1. /\ Head(q) = q[1] /\ Len(Tail(q)) = Len(q) - 1 /\ Tail(q) \in Seq(Segments)
      /\ \A i \in 1 .. Len(Tail(q)) : Tail(q)[i] = q[i + 1]
  BY HeadTailProperties
<1>2. /\ Len(q) \in Nat /\ Len(q) # 0 /\ DOMAIN q = 1 .. Len(q)
      /\ DOMAIN Tail(q) = 1 .. Len(q) - 1
  BY <1>1, EmptySeq, LenProperties
<1>3. \A i \in DOMAIN Tail(q) : i + 1 \in DOMAIN q /\ Tail(q)[i] = q[i + 1] /\ i \in Int
  BY <1>1, <1>2
<1>4. ASSUME NEW i \in DOMAIN Tail(q), NEW j \in DOMAIN Tail(q), Tail(q)[i] = Tail(q)[j]
      PROVE  i = j
  <2>1. i + 1 = j + 1  BY <1>3, <1>4 DEF Distinct
  <2>2. QED  BY <1>3, <2>1
<1>5. ASSUME NEW i \in DOMAIN Tail(q)  PROVE Tail(q)[i] # Head(q)
  <2>1. 1 \in DOMAIN q /\ i + 1 # 1  BY <1>2, <1>3
  <2>2. QED  BY <1>1, <1>3, <2>1 DEF Distinct
<1>6. QED  BY <1>4, <1>5 DEF Distinct, ToSet

\* A segment is in one place: on the queue, in the hands of the MT loop or
\* done with, and it came there over the queue.
UniqueInv ==
  /\ Distinct(queue)
  /\ ToSet(queue) \subseteq enqueued /\ processed \subseteq enqueued
  /\ ToSet(queue) \cap processed = {}
  /\ mt_seg # None => mt_seg \in enqueued \ (ToSet(queue) \cup processed)

\* New segments are queued.
LEMMA EnqueueKeeps ==
  ASSUME TypeInv, UniqueInv, NEW q \in Seq(Segments), EnqueueForTranslation(q), Distinct(q),
         ToSet(q) \cap enqueued = {}, UNCHANGED mt_vars
  PROVE  UniqueInv'
<1>1. queue \in Seq(Segments) /\ Distinct(queue) /\ ToSet(queue) \cap ToSet(q) = {}
  BY DEF TypeInv, TypeOK, UniqueInv
<1>2. Distinct(queue \o q) /\ ToSet(queue \o q) = ToSet(queue) \cup ToSet(q)
  BY <1>1, ConcatDistinct, ConcatElements
<1>3. /\ queue' = queue \o q /\ enqueued' = enqueued \cup ToSet(q)
      /\ UNCHANGED <<mt_seg, processed>>
  BY DEF EnqueueForTranslation, mt_vars
<1>4. QED  BY <1>2, <1>3 DEF UniqueInv

LEMMA EnqueueOnce ==
  ASSUME TypeInv, UniqueInv, NEW S \in SUBSET Segments, S \cap enqueued = {},
         \E q \in InIdOrder(S) : EnqueueForTranslation(q), UNCHANGED mt_vars
  PROVE  UniqueInv'
<1>1. PICK q \in InIdOrder(S) : EnqueueForTranslation(q)
  OBVIOUS
<1>2. q \in Seq(Segments) /\ ToSet(q) = S /\ Distinct(q)
  BY InIdOrderType, InIdOrderDistinct
<1>3. QED  BY <1>1, <1>2, EnqueueKeeps

LEMMA StopOnce ==
  ASSUME TypeInv, SegInv, UniqueInv, StopFinalizes
  PROVE  UniqueInv'
<1>1. PICK S \in SUBSET live : \E q \in InIdOrder(S), r \in InIdOrder(live \ S) :
                                 EnqueueForTranslation(q \o r)
  BY DEF StopFinalizes
<1>2. PICK q \in InIdOrder(S), r \in InIdOrder(live \ S) : EnqueueForTranslation(q \o r)
  BY <1>1
<1>3. S \in SUBSET Segments /\ live \ S \in SUBSET Segments
  BY DEF TypeInv, TypeOK
<1>4. /\ q \in Seq(Segments) /\ ToSet(q) = S /\ Distinct(q)
      /\ r \in Seq(Segments) /\ ToSet(r) = live \ S /\ Distinct(r)
  BY <1>3, InIdOrderType, InIdOrderDistinct
<1>5. q \o r \in Seq(Segments) /\ Distinct(q \o r) /\ ToSet(q \o r) \subseteq live
  BY <1>4, ConcatDistinct, ConcatElements
<1>6. live \cap enqueued = {}
  BY DEF SegInv, FinalIsAccountedFor
<1>7. QED  BY <1>2, <1>5, <1>6, EnqueueKeeps DEF StopFinalizes

\* Steps that touch neither the queue nor the MT loop.
LEMMA UniqueIdle ==
  ASSUME UniqueInv, UNCHANGED <<queue, enqueued, mt_seg, processed>>
  PROVE  UniqueInv'
BY DEF UniqueInv

LEMMA UniqueMt ==
  ASSUME TypeInv, UniqueInv, MtLoop \/ MtJob
  PROVE  UniqueInv'
<1>1. mt \in {"translating", "sending"} => mt_seg # None
  BY PipelineAssumption DEF TypeInv, InHand
<1>2. CASE MtTake
  <2>1. /\ queue' = Tail(queue) /\ enqueued' = enqueued
        /\ \/ UNCHANGED <<mt_seg, processed>>
           \/ mt_seg' = Head(queue) /\ processed' = processed
           \/ mt_seg' = mt_seg /\ processed' = processed \cup {Head(queue)}
    BY <1>2 DEF MtTake
  <2>2. /\ ToSet(queue) = {Head(queue)} \cup ToSet(Tail(queue))
        /\ Distinct(Tail(queue)) /\ Head(queue) \notin ToSet(Tail(queue))
    BY <1>2, TailElements, TailDistinct DEF MtTake, TypeInv, TypeOK, UniqueInv
  <2>3. QED  BY <2>1, <2>2 DEF UniqueInv
<1>3. CASE MtIdles
  BY <1>3, UniqueIdle DEF MtIdles, queue_vars
<1>4. CASE MtSent \/ MtJob
  <2>1. \/ UNCHANGED <<queue, enqueued, mt_seg, processed>>
        \/ /\ mt \in {"translating", "sending"} /\ UNCHANGED <<queue, enqueued>>
           /\ mt_seg' = None /\ processed' = processed \cup {mt_seg}
    BY <1>4 DEF MtSent, MtJob, MtTranslated, FinishSegment, TaskDone, queue_vars
  <2>2. QED  BY <1>1, <2>1, UniqueIdle DEF UniqueInv
<1>5. QED  BY <1>2, <1>3, <1>4 DEF MtLoop

LEMMA UniqueOthers ==
  ASSUME TypeInv, SegInv, UniqueInv, AsrLoop \/ Thread \/ Ptt \/ Environment \/ Stop \/ Cleanup
  PROVE  UniqueInv'
<1>0. /\ asr_new \in SUBSET Segments /\ live \in SUBSET Segments
      /\ asr_new \cap enqueued = {} /\ live \cap enqueued = {}
  BY DEF TypeInv, TypeOK, SegInv, FinalIsAccountedFor
<1>1. CASE AsrTickEnqueues
  BY <1>0, <1>1, EnqueueOnce DEF AsrTickEnqueues
<1>2. CASE HostReleaseTimerFires \/ (ViewerReleaseTimerFires /\ registered)
  BY <1>0, <1>2, EnqueueOnce DEF HostReleaseTimerFires, ViewerReleaseTimerFires
<1>3. CASE StopFinalizes
  BY <1>3, StopOnce
<1>4. CASE AsrTick \/ AsrTickResumes \/ AsrTickFails \/ Thread \/ Environment
  BY <1>4, UniqueIdle DEF AsrTick, AsrTickResumes, AsrTickFails, Thread, AsrJobStarts,
     ThreadDetects, ThreadReturns, Environment, HostDrops, SetForeignLang, queue_vars, mt_vars
<1>5. CASE \/ \E speaking \in BOOLEAN : HostSpeakingState(speaking) \/ ViewerSpeakingState(speaking)
           \/ ViewerLeaves \/ (ViewerReleaseTimerFires /\ ~registered)
  BY <1>5, UniqueIdle DEF HostSpeakingState, ViewerSpeakingState, SpeakingState, ViewerLeaves,
     ViewerReleaseTimerFires, queue_vars, mt_vars
<1>6. CASE \/ RequestSummary \/ JoinDone \/ JoinTimeout \/ FinalSegmentsSent \/ Summarized \/ Closed
           \/ Disconnected \/ CleanupBegins \/ CleanupUnregisters \/ CleanupFails
  BY <1>6, UniqueIdle DEF RequestSummary, JoinDone, JoinTimeout, FinalSegmentsSent, Summarized,
     Closed, Disconnected, CleanupBegins, CleanupUnregisters, CleanupFails, queue_vars, mt_vars
<1>7. CASE CleanupCancels
  <2>1. mt_seg' = None /\ UNCHANGED <<queue, enqueued, processed>>
    BY <1>7 DEF CleanupCancels, CancelMtTask, TaskDone, queue_vars
  <2>2. QED  BY <2>1 DEF UniqueInv
<1>8. QED
  BY <1>1, <1>2, <1>3, <1>4, <1>5, <1>6, <1>7 DEF AsrLoop, Ptt, Stop, Cleanup

LEMMA UniqueInvHolds == Spec => []UniqueInv
<1>1. Init => UniqueInv
  <2>1. DOMAIN << >> = {}  OBVIOUS
  <2>2. QED  BY <2>1 DEF Init, UniqueInv, Distinct, ToSet
<1>2. TypeInv /\ SegInv /\ UniqueInv /\ [Next]_vars => UniqueInv'
  <2>1. TypeInv /\ SegInv /\ UniqueInv /\ Next => UniqueInv'
    BY UniqueMt, UniqueOthers DEF Next
  <2>2. UniqueInv /\ UNCHANGED vars => UniqueInv'
    BY UniqueIdle DEF vars, queue_vars, mt_vars
  <2>3. QED  BY <2>1, <2>2
<1>3. QED  BY <1>1, <1>2, TypesHold, SegInvHolds, PTL DEF Spec

\* The number of places where s is.
LEMMA CopiesAre ==
  ASSUME TypeInv, UniqueInv, NEW s \in Segments
  PROVE  Copies(s) \in {0, 1} /\ (s \in processed => Copies(s) = 1)
<1> DEFINE on == {i \in DOMAIN queue : queue[i] = s}
           off_queue == {s} \cap ({mt_seg} \cup processed)
<1>1. on = {} \/ \E i : on = {i}
  BY DEF UniqueInv, Distinct
<1>2. Cardinality(on) = IF on = {} THEN 0 ELSE 1
  BY <1>1, FS_EmptySet, FS_Singleton
<1>3. off_queue = {} \/ off_queue = {s}
  OBVIOUS
<1>4. Cardinality(off_queue) = IF off_queue = {} THEN 0 ELSE 1
  BY <1>3, FS_EmptySet, FS_Singleton
<1>5. on # {} => s \in ToSet(queue)
  BY DEF ToSet
<1>6. on # {} => off_queue = {}
  BY <1>5, PipelineAssumption DEF UniqueInv
<1>7. s \in processed => off_queue # {}
  OBVIOUS
<1>8. Copies(s) = Cardinality(on) + Cardinality(off_queue)
  BY DEF Copies
<1>9. QED  BY <1>2, <1>4, <1>6, <1>7, <1>8

\* The stage of a segment when it is never in two places.
Reached(s) ==
  IF s \in processed THEN "handled"
  ELSE IF s \in enqueued THEN "queued"
  ELSE IF s \in lost THEN "dropped"
  ELSE IF s \in finals THEN "final"
  ELSE IF s \in live THEN "live" ELSE "none"

stage == [s \in Segments |-> Stage(s)]

StagesAgree == stage = [s \in Segments |-> Reached(s)]

\* The cases of Stage exclude each other.
LEMMA StageIsReached ==
  ASSUME TypeInv, SegInv, UniqueInv
  PROVE  StagesAgree
<1>1. ASSUME NEW s \in Segments  PROVE Stage(s) = Reached(s)
  <2>1. ~(Copies(s) > 1) /\ (s \in processed => Copies(s) = 1)
    BY CopiesAre
  <2>2. /\ processed \subseteq enqueued /\ enqueued \cap lost = {}
        /\ enqueued \subseteq finals /\ lost \subseteq finals /\ live \cap finals = {}
    BY DEF UniqueInv, SegInv, FinalIsAccountedFor
  <2>3. CASE s \in processed
    BY <2>1, <2>2, <2>3 DEF Stage, Reached
  <2>4. CASE s \in enqueued \ processed
    BY <2>1, <2>2, <2>4 DEF Stage, Reached
  <2>5. CASE s \in lost
    BY <2>1, <2>2, <2>5 DEF Stage, Reached
  <2>6. CASE s \in finals \ (enqueued \cup lost)
    BY <2>1, <2>2, <2>6 DEF Stage, Reached
  <2>7. CASE s \in live
    BY <2>1, <2>2, <2>7 DEF Stage, Reached
  <2>8. CASE s \notin live \cup finals
    BY <2>1, <2>2, <2>8 DEF Stage, Reached
  <2>9. QED  BY <2>2, <2>3, <2>4, <2>5, <2>6, <2>7, <2>8
<1>2. QED  BY <1>1 DEF StagesAgree, stage

\* Where segments can go in one step.
Moves ==
  /\ processed \subseteq processed' /\ processed' \subseteq processed \cup enqueued
  /\ enqueued \subseteq enqueued' /\ lost \subseteq lost'
  /\ finals \subseteq finals' /\ finals' \subseteq finals \cup live
  /\ live \subseteq live' \cup finals'

LEMMA NextMoves ==
  ASSUME TypeInv, UniqueInv, Next
  PROVE  Moves
<1> DEFINE Still == UNCHANGED <<live, finals, lost, enqueued, processed>>
<1>0. Still => Moves
  BY DEF Moves
<1>1. CASE AsrLoop
  <2>1. /\ UNCHANGED <<live, finals, processed>>
        /\ lost \subseteq lost' /\ enqueued \subseteq enqueued'
    BY <1>1 DEF AsrLoop, AsrTick, AsrTickResumes, AsrTickFails, AsrTickEnqueues,
       EnqueueForTranslation, tracker, queue_vars, mt_vars
  <2>2. QED  BY <2>1 DEF Moves
<1>2. CASE Thread
  BY <1>2 DEF Thread, AsrJobStarts, ThreadDetects, ThreadReturns, Moves, tracker, asr_vars,
     queue_vars, mt_vars
<1>3. CASE MtTake
  <2>1. Head(queue) \in enqueued
    BY <1>3, TailElements DEF MtTake, TypeInv, TypeOK, UniqueInv
  <2>2. QED  BY <1>3, <2>1 DEF MtTake, Moves, tracker, asr_vars
<1>4. CASE MtIdles \/ MtSent \/ MtJob
  <2>1. mt \in {"translating", "sending"} => mt_seg \in enqueued
    BY PipelineAssumption DEF TypeInv, InHand, UniqueInv
  <2>2. QED
    BY <1>4, <2>1 DEF MtIdles, MtSent, MtJob, MtTranslated, FinishSegment, TaskDone, Moves,
       tracker, asr_vars, queue_vars
<1>5. CASE HostReleaseTimerFires \/ ViewerReleaseTimerFires \/ StopFinalizes
  BY <1>5 DEF HostReleaseTimerFires, ViewerReleaseTimerFires, StopFinalizes, ForceFinalizeAll,
     EnqueueForTranslation, Moves, tracker, asr_vars, queue_vars, mt_vars
<1>6. CASE RequestSummary \/ CleanupUnregisters
  BY <1>6 DEF RequestSummary, CleanupUnregisters, CancelAsrTask, Moves, tracker, queue_vars,
     mt_vars
<1>7. CASE \/ JoinDone \/ JoinTimeout \/ FinalSegmentsSent \/ Summarized \/ Closed
           \/ Disconnected \/ CleanupBegins \/ CleanupCancels \/ CleanupFails
  BY <1>0, <1>7 DEF JoinDone, JoinTimeout, FinalSegmentsSent, Summarized, Closed, Disconnected,
     CleanupBegins, CleanupCancels, CleanupFails, CancelMtTask, TaskDone, tracker, asr_vars,
     queue_vars, mt_vars
<1>8. CASE \/ \E speaking \in BOOLEAN : HostSpeakingState(speaking) \/ ViewerSpeakingState(speaking)
           \/ ViewerLeaves \/ Environment
  BY <1>0, <1>8 DEF HostSpeakingState, ViewerSpeakingState, SpeakingState, ViewerLeaves,
      Environment, HostDrops,
     SetForeignLang, tracker, asr_vars, queue_vars, mt_vars
<1>9. QED
  BY <1>1, <1>2, <1>3, <1>4, <1>5, <1>6, <1>7, <1>8 DEF Next, MtLoop, Ptt, Stop, Cleanup

\* Each of these moves is a step of the life cycle or none.
LEMMA MoveFollows ==
  ASSUME SegInv, SegInv', UniqueInv, UniqueInv', Moves, NEW s
  PROVE  Reached(s)' = Reached(s) \/ Reached(s)' \in Lifecycle!Follows(Reached(s))
<1>1. /\ finals = enqueued \cup asr_new \cup lost /\ enqueued \cap lost = {}
      /\ live \cap finals = {} /\ processed \subseteq enqueued
      /\ enqueued' \subseteq finals' /\ lost' \subseteq finals' /\ enqueued' \cap lost' = {}
      /\ processed' \subseteq enqueued'
  BY DEF SegInv, FinalIsAccountedFor, UniqueInv
<1>2. CASE s \in processed
  BY <1>2 DEF Moves, Reached
<1>3. CASE s \in enqueued \ processed
  BY <1>3 DEF Moves, Reached, Lifecycle!Follows
<1>4. CASE s \in lost
  BY <1>1, <1>4 DEF Moves, Reached
<1>5. CASE s \in finals \ (enqueued \cup lost)
  <2>1. s \in finals' /\ s \notin processed' /\ Reached(s) = "final"
    BY <1>1, <1>5 DEF Moves, Reached
  <2>2. Reached(s)' \in {"queued", "dropped", "final"}
    BY <2>1 DEF Reached
  <2>3. QED  BY <2>1, <2>2 DEF Lifecycle!Follows
<1>6. CASE s \in live
  <2>1. s \in live' \cup finals' /\ s \notin processed' /\ Reached(s) = "live"
    BY <1>1, <1>6 DEF Moves, Reached
  <2>2. Reached(s)' \in {"queued", "dropped", "final", "live"}
    BY <2>1 DEF Reached
  <2>3. QED  BY <2>1, <2>2 DEF Lifecycle!Follows
<1>7. CASE s \notin live \cup finals
  <2>1. s \notin finals' /\ s \notin enqueued' /\ s \notin lost' /\ s \notin processed'
        /\ Reached(s) = "none"
    BY <1>1, <1>7 DEF Moves, Reached
  <2>2. Reached(s)' \in {"none", "live"}
    BY <2>1 DEF Reached
  <2>3. QED  BY <2>1, <2>2 DEF Lifecycle!Follows
<1>8. QED  BY <1>1, <1>2, <1>3, <1>4, <1>5, <1>6, <1>7

LEMMA LifecycleStep ==
  ASSUME TypeInv, SegInv, UniqueInv, StagesAgree, SegInv', UniqueInv', StagesAgree', [Next]_vars
  PROVE  [Lifecycle!Next]_stage
<1>1. /\ stage = [s \in Segments |-> Reached(s)]
      /\ stage' = [s \in Segments |-> Reached(s)']
  BY DEF StagesAgree
<1>2. CASE UNCHANGED vars
  <2>1. \A s \in Segments : Reached(s)' = Reached(s)
    BY <1>2 DEF Reached, vars, tracker, asr_vars, queue_vars, mt_vars
  <2>2. QED  BY <1>1, <2>1
<1>3. CASE Next
  <2>1. Moves  BY <1>3, NextMoves
  <2>2. \A s \in Segments :
          Reached(s)' = Reached(s) \/ Reached(s)' \in Lifecycle!Follows(Reached(s))
    BY <2>1, MoveFollows
  <2>3. \A s \in Segments : Reached(s)' \in Lifecycle!Stages
    BY DEF Reached, Lifecycle!Stages
  <2>4. /\ stage' \in [Segments -> Lifecycle!Stages]
        /\ \A s \in Segments :
             stage'[s] = stage[s] \/ stage'[s] \in Lifecycle!Follows(stage[s])
    BY <1>1, <2>2, <2>3
  <2>5. QED  BY <2>4 DEF stage, Lifecycle!Next
<1>4. QED  BY <1>2, <1>3

(* Every segment is queued at most once and handled at most once, a dropped*)
(* one is never queued, and no task makes it skip a stage or go back.      *)
THEOREM PipelineImplementsLifecycle == Spec => ImplementsLifecycle
<1>1. Init /\ StagesAgree => Lifecycle!Init
  BY DEF Init, StagesAgree, stage, Reached, Lifecycle!Init
<1>2. TypeInv /\ SegInv /\ UniqueInv => StagesAgree
  BY StageIsReached
<1>3. TypeInv /\ SegInv /\ UniqueInv /\ StagesAgree /\ SegInv' /\ UniqueInv' /\ StagesAgree'
        /\ [Next]_vars => [Lifecycle!Next]_stage
  BY LifecycleStep
<1>4. QED
  BY <1>1, <1>2, <1>3, TypesHold, SegInvHolds, UniqueInvHolds, PTL
  DEF Spec, ImplementsLifecycle, Lifecycle!Spec, stage

(* One run of the pipeline keeps both contracts, with the tracker and with *)
(* each segment.                                                           *)
THEOREM ContractsAreKept == Spec => KeepsContracts
BY PipelineImplementsLedger, PipelineImplementsLifecycle DEF KeepsContracts
-----------------------------------------------------------------------------
(* What is lost, and when. *)

\* The loop is cancelled by stop and cleanup only, and until then a tick
\* loses what it has in its hands only if its sends raise.
LossInv ==
  /\ main = "receive" => running /\ ~orphan
  /\ main = "receive" /\ host_up /\ ~ViewersChange => lost = {}
  /\ main \in {"stopping", "joining"} => asr = "ended"

\* The message loop, or the thread, does nothing that the invariant speaks of.
LossIdle ==
  /\ UNCHANGED <<main, running, orphan, lost>> /\ (host_up' => host_up)
  /\ asr = "ended" => asr' = "ended"

LEMMA LossIdleStep ==
  ASSUME LossInv, LossIdle
  PROVE  LossInv'
BY DEF LossInv, LossIdle

LEMMA LossInvHolds == Spec => []LossInv
<1>1. Init => LossInv
  BY DEF Init, LossInv
<1>2. ASSUME LossInv, Next  PROVE LossInv'
  <2>1. CASE AsrTick \/ AsrTickEnqueues
    BY <1>2, <2>1, LossIdleStep DEF AsrTick, AsrTickEnqueues, LossIdle, main_vars, env_vars
  <2>2. CASE AsrTickResumes \/ AsrTickFails
    BY <1>2, <2>2 DEF AsrTickResumes, AsrTickFails, SendRaises, LossInv, main_vars, env_vars
  <2>3. CASE AsrJobStarts \/ ThreadDetects
    BY <1>2, <2>3, LossIdleStep DEF AsrJobStarts, ThreadDetects, LossIdle, asr_vars, main_vars,
       env_vars
  <2>4. CASE \E S \in SUBSET live : ThreadReturns(S)
    BY <1>2, <2>4 DEF ThreadReturns, LossInv, main_vars, env_vars
  <2>5. CASE MtLoop \/ MtJob \/ Ptt \/ Environment
    BY <1>2, <2>5, LossIdleStep DEF MtLoop, MtTake, MtIdles, MtSent, MtJob, MtTranslated, Ptt,
       HostSpeakingState, ViewerSpeakingState, SpeakingState, ViewerLeaves, HostReleaseTimerFires,
       ViewerReleaseTimerFires, Environment, HostDrops, SetForeignLang, LossIdle, asr_vars,
       main_vars, env_vars
  <2>6. CASE RequestSummary \/ CleanupUnregisters
    BY <1>2, <2>6 DEF RequestSummary, CleanupUnregisters, CancelAsrTask, LossInv
  <2>7. CASE \/ StopFinalizes \/ JoinDone \/ JoinTimeout \/ FinalSegmentsSent \/ Summarized
             \/ Closed \/ Disconnected \/ CleanupBegins \/ CleanupCancels \/ CleanupFails
    BY <1>2, <2>7 DEF StopFinalizes, JoinDone, JoinTimeout, AfterJoin, FinalSegmentsSent,
        Summarized,
       Closed, Disconnected, CleanupBegins, CleanupCancels, CleanupFails, LossInv, asr_vars
  <2>8. QED
    BY <1>2, <2>1, <2>2, <2>3, <2>4, <2>5, <2>6, <2>7 DEF Next, AsrLoop, Thread, Stop, Cleanup
<1>3. LossInv /\ UNCHANGED vars => LossInv'
  BY LossIdleStep DEF LossIdle, vars, asr_vars, main_vars, env_vars
<1>4. QED  BY <1>1, <1>2, <1>3, PTL DEF Spec

(* As long as the host records and is connected, and no viewer comes or    *)
(* goes, nothing is lost: what is final is queued, or will be by the tick  *)
(* that is about to send it.                                               *)
THEOREM RecordingLosesNothing ==
  ASSUME ~ViewersChange
  PROVE  Spec => [](main = "receive" /\ host_up => lost = {} /\ finals = enqueued \cup asr_new)
<1>1. LossInv /\ FinalIsAccountedFor =>
        (main = "receive" /\ host_up => lost = {} /\ finals = enqueued \cup asr_new)
  BY DEF LossInv, FinalIsAccountedFor
<1>2. QED  BY <1>1, LossInvHolds, FinalsAreAccountedFor, PTL

(* When the join of the stop sequence ends without its timeout, every      *)
(* segment that is final was handled by the MT loop, but for those that a  *)
(* cancelled or failed tick took with it.                                  *)
THEOREM StopHandsOver ==
  Spec => [][main = "joining" /\ main' # "joining" /\ ~timed_out'
               => finals \subseteq processed \cup lost]_vars
<1>1. SegInv /\ LossInv
        /\ [main = "joining" /\ main' # "joining" /\ ~timed_out' => enqueued \subseteq processed]_vars
        => [main = "joining" /\ main' # "joining" /\ ~timed_out'
              => finals \subseteq processed \cup lost]_vars
  BY DEF SegInv, FinalIsAccountedFor, LossInv
<1>2. QED  BY <1>1, SegInvHolds, LossInvHolds, JoinMeansDrained, PTL DEF DrainComplete
=============================================================================
