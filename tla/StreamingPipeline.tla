-------------------------- MODULE StreamingPipeline --------------------------
(***************************************************************************)
(* The tasks of one recording session (streaming/handler.py) between       *)
(* config and disconnect: the message loop with its stop sequence, the ASR *)
(* loop and its executor thread, the translation (MT) loop, and the        *)
(* push-to-talk release timers of the host and of the viewer (viewer.py).  *)
(* They share the segment tracker, the translation queue and _running.     *)
(*                                                                         *)
(* One action is what a coroutine does between two of its suspension       *)
(* points, so the event loop interleaves exactly these actions; the        *)
(* executor thread runs beside it.  A call of the tracker is atomic here   *)
(* and a segment is its id: SegmentTracker has the detail, TranscriptLedger*)
(* is the contract between the two modules.                                *)
(***************************************************************************)
EXTENDS Integers, Sequences, FiniteSets, SequencesExt

CONSTANTS
  ForeignLangs, None,   \* languages a guest can speak; None before one is known
  ViewersChange,        \* viewers come and go while a broadcast is suspended
  MaxSegments,          \* bound: segments detected in one behaviour
  MaxOrphans            \* bound: overwritten release timers of one party

Segments == 0 .. MaxSegments - 1
Parties  == {"host", "viewer"}

ASSUME PipelineAssumption ==
  /\ None \notin ForeignLangs /\ None \notin Segments
  /\ ViewersChange \in BOOLEAN
  /\ MaxSegments \in Nat /\ MaxOrphans \in Nat

VARIABLES
  next_id, live, finals,       \* the tracker: ids of live and final segments
  asr,                         \* where the ASR loop is
  asr_new,                     \* newly_finalized of the tick it is in
  orphan,                      \* the thread runs a job whose tick was cancelled
  lost,                        \* history: newly_finalized that nobody received
  queue, unfinished,           \* _translation_queue and its unfinished tasks
  enqueued,                    \* history: ids ever put on the queue
  mt, mt_seg, mt_tgt,          \* the MT loop, its segment and target language
  processed,                   \* history: ids the MT loop is done with
  translations,                \* session.translations: <<id, language>>
  main,                        \* where the message loop is
  running, registered,         \* _running; the registry has the session
  timed_out,                   \* the join of the stop sequence timed out
  off,                         \* parties whose release timer a press can cancel
  orphans,                     \* [party -> pending timers that a second release
                               \*  has overwritten and nobody can cancel]
  host_up, foreign_lang        \* the host's socket; session.foreign_lang

tracker    == <<next_id, live, finals>>
asr_vars   == <<asr, asr_new, orphan, lost>>
queue_vars == <<queue, unfinished, enqueued>>
mt_vars    == <<mt, mt_seg, mt_tgt, processed, translations>>
main_vars  == <<main, running, registered, timed_out>>
timers     == <<off, orphans>>
env_vars   == <<host_up, foreign_lang>>
vars == <<tracker, asr_vars, queue_vars, mt_vars, main_vars, timers, env_vars>>
----------------------------------------------------------------------------
(* Helpers. *)

\* The ids of S in list order, the order the tracker returns them in.
InIdOrder(S) ==
  {q \in [1 .. Cardinality(S) -> S] :
     ToSet(q) = S /\ \A i, j \in DOMAIN q : i < j => q[i] < q[j]}

EnqueueForTranslation(q) ==
  /\ queue' = queue \o q
  /\ unfinished' = unfinished + Len(q)
  /\ enqueued' = enqueued \cup ToSet(q)

ForceFinalizeAll ==
  /\ finals' = finals \cup live
  /\ live' = {}
  /\ UNCHANGED next_id

\* send_text raises on a closed socket, and iterating over the WeakSet of
\* viewers raises when a viewer joined or left meanwhile.
SendRaises == ~host_up \/ ViewersChange

LoopOr(pc) == IF running THEN pc ELSE "ended"
----------------------------------------------------------------------------
(* The ASR loop and its executor thread. *)

\* The loop wakes up every TICK_SEC and submits a job.
AsrTick ==
  /\ asr = "sleep"
  /\ asr' = LoopOr("submitted")
  /\ UNCHANGED <<asr_new, orphan, lost, tracker, queue_vars, mt_vars, main_vars, timers, env_vars>>

AsrJobStarts ==
  /\ asr = "submitted"
  /\ asr' = "running"
  /\ UNCHANGED <<asr_new, orphan, lost, tracker, queue_vars, mt_vars, main_vars, timers, env_vars>>

\* The thread folds a hypothesis into a new segment.
ThreadDetects ==
  /\ asr = "running" \/ orphan
  /\ next_id < MaxSegments
  /\ live' = live \cup {next_id}
  /\ next_id' = next_id + 1
  /\ UNCHANGED <<finals, asr_vars, queue_vars, mt_vars, main_vars, timers, env_vars>>

\* The thread finalizes what is stale, some of the live segments or none, and
\* returns it; nobody waits for the result of an orphan.
ThreadReturns(S) ==
  /\ finals' = finals \cup S
  /\ live' = live \ S
  /\ \/ /\ asr = "running"
        /\ asr' = "returned"
        /\ asr_new' = S
        /\ UNCHANGED <<orphan, lost>>
     \/ /\ orphan
        /\ orphan' = FALSE
        /\ lost' = lost \cup S
        /\ UNCHANGED <<asr, asr_new>>
  /\ UNCHANGED <<next_id, queue_vars, mt_vars, main_vars, timers, env_vars>>

\* The tick goes on: it sends the segments if anything has changed.
AsrTickResumes ==
  /\ asr = "returned"
  /\ IF running
     THEN /\ \/ asr' = "sending"
             \/ asr_new = {} /\ asr' = "sleep"
          /\ UNCHANGED <<asr_new, lost>>
     ELSE /\ asr' = "ended"
          /\ lost' = lost \cup asr_new
          /\ asr_new' = {}
  /\ UNCHANGED <<orphan, tracker, queue_vars, mt_vars, main_vars, timers, env_vars>>

\* Host and viewers have the segments; the new final ones are queued.
AsrTickEnqueues ==
  /\ asr = "sending"
  /\ \E q \in InIdOrder(asr_new) : EnqueueForTranslation(q)
  /\ asr' = LoopOr("sleep")
  /\ asr_new' = {}
  /\ UNCHANGED <<orphan, lost, tracker, mt_vars, main_vars, timers, env_vars>>

\* Sending raises: the loop logs "ASR tick error" and goes on with the next tick.
AsrTickFails ==
  /\ asr = "sending"
  /\ SendRaises
  /\ asr' = LoopOr("sleep")
  /\ lost' = lost \cup asr_new
  /\ asr_new' = {}
  /\ UNCHANGED <<orphan, tracker, queue_vars, mt_vars, main_vars, timers, env_vars>>

\* A job the thread has begun cannot be cancelled.
CancelAsrTask ==
  /\ asr' = "ended"
  /\ orphan' = (orphan \/ asr = "running")
  /\ lost' = lost \cup asr_new
  /\ asr_new' = {}
----------------------------------------------------------------------------
(* The MT loop. *)

TaskDone ==
  /\ unfinished' = unfinished - 1
  /\ UNCHANGED <<queue, enqueued>>

FinishSegment ==
  /\ TaskDone
  /\ processed' = processed \cup {mt_seg}
  /\ mt' = LoopOr("get")
  /\ mt_seg' = None /\ mt_tgt' = None

\* Every segment carries a role (asr.py), so that is all its pair depends on;
\* its target is the other party's language, one language per segment.
ResolvesPair == foreign_lang # None

HasTarget(s) == ResolvesPair /\ <<s, foreign_lang>> \notin translations

\* Mutant: a segment without a target ends the loop.
MtTakeOrBreak ==
  /\ mt = "get" /\ queue # <<>>
  /\ queue' = Tail(queue)
  /\ UNCHANGED enqueued
  /\ IF running /\ HasTarget(Head(queue))
     THEN /\ mt' = "translating"
          /\ mt_seg' = Head(queue)
          /\ mt_tgt' = foreign_lang
          /\ UNCHANGED <<unfinished, processed>>
     ELSE /\ mt' = "ended"
          /\ unfinished' = unfinished - 1
          /\ UNCHANGED <<mt_seg, mt_tgt, processed>>
  /\ UNCHANGED <<translations, tracker, asr_vars, main_vars, timers, env_vars>>

MtTake ==
  /\ mt = "get" /\ queue # <<>>
  /\ queue' = Tail(queue)
  /\ UNCHANGED enqueued
  /\ IF ~running
     THEN /\ mt' = "ended"
          /\ unfinished' = unfinished - 1
          /\ UNCHANGED <<mt_seg, mt_tgt, processed>>
     ELSE \/ /\ HasTarget(Head(queue))
             /\ mt' = "translating"
             /\ mt_seg' = Head(queue)
             /\ mt_tgt' = foreign_lang
             /\ UNCHANGED <<unfinished, processed>>
          \/ /\ ~HasTarget(Head(queue))
             /\ unfinished' = unfinished - 1
             /\ processed' = processed \cup {Head(queue)}
             /\ UNCHANGED <<mt, mt_seg, mt_tgt>>
  /\ UNCHANGED <<translations, tracker, asr_vars, main_vars, timers, env_vars>>

\* The wait for an item ends after 0.5 s; _running is looked at again.
MtIdles ==
  /\ mt = "get" /\ ~running
  /\ mt' = "ended"
  /\ UNCHANGED <<mt_seg, mt_tgt, processed, translations,
                 tracker, asr_vars, queue_vars, main_vars, timers, env_vars>>

\* The executor has translated the text, or raised.
MtTranslated(ok) ==
  /\ mt = "translating"
  /\ translations' = IF ok THEN translations \cup {<<mt_seg, mt_tgt>>} ELSE translations
  /\ IF running
     THEN mt' = "sending" /\ UNCHANGED <<mt_seg, mt_tgt, processed, queue_vars>>
     ELSE FinishSegment
  /\ UNCHANGED <<tracker, asr_vars, main_vars, timers, env_vars>>

\* The translation, or the error, is sent; what raises here is caught.
MtSent ==
  /\ mt = "sending"
  /\ FinishSegment
  /\ UNCHANGED <<translations, tracker, asr_vars, main_vars, timers, env_vars>>

\* Mutant: no finally clause, a cancelled item is never done.
CancelMtTaskOnly ==
  /\ mt' = "ended"
  /\ mt_seg' = None /\ mt_tgt' = None
  /\ UNCHANGED <<queue_vars, processed, translations>>

\* The finally clause of the loop still marks the item as done.
CancelMtTask ==
  /\ mt' = "ended"
  /\ mt_seg' = None /\ mt_tgt' = None
  /\ IF mt \in {"translating", "sending"} THEN TaskDone ELSE UNCHANGED queue_vars
  /\ UNCHANGED <<processed, translations>>
----------------------------------------------------------------------------
(* Push-to-talk: a release starts a timer, a press cancels the last one. *)

\* A second release (blur, then keyup) overwrites the variable of the first timer.
StartsTimer(p) ==
  /\ off' = off \cup {p}
  /\ IF p \in off
     THEN orphans[p] < MaxOrphans /\ orphans' = [orphans EXCEPT ![p] = @ + 1]
     ELSE UNCHANGED orphans

CancelsTimer(p) == off' = off \ {p} /\ UNCHANGED orphans

SpeakingState(p, speaking) ==
  /\ IF speaking THEN CancelsTimer(p) ELSE StartsTimer(p)
  /\ UNCHANGED <<tracker, asr_vars, queue_vars, mt_vars, main_vars, env_vars>>

\* The message loop reads the host's messages.
HostSpeakingState(speaking) ==
  /\ main = "receive" /\ host_up
  /\ SpeakingState("host", speaking)

\* The viewer has a loop of its own, which ignores them without a session.
ViewerSpeakingState(speaking) ==
  /\ registered
  /\ SpeakingState("viewer", speaking)

\* A viewer that leaves takes its last timer along.
ViewerLeaves ==
  /\ CancelsTimer("viewer")
  /\ UNCHANGED <<tracker, asr_vars, queue_vars, mt_vars, main_vars, env_vars>>

\* One of the party's timers is over.
Expires(p) ==
  \/ p \in off /\ off' = off \ {p} /\ UNCHANGED orphans
  \/ orphans[p] > 0 /\ orphans' = [orphans EXCEPT ![p] = @ - 1] /\ UNCHANGED off

\* The host's timer keeps the session: it finalizes and queues, also after the end.
HostReleaseTimerFires ==
  /\ Expires("host")
  /\ ForceFinalizeAll
  /\ \E q \in InIdOrder(live) : EnqueueForTranslation(q)
  /\ UNCHANGED <<asr_vars, mt_vars, main_vars, env_vars>>

\* Mutant: the timer finalizes, nothing is queued.
ViewerTimerOnlyFinalizes ==
  /\ Expires("viewer")
  /\ IF registered THEN ForceFinalizeAll ELSE UNCHANGED tracker
  /\ UNCHANGED <<queue_vars, asr_vars, mt_vars, main_vars, env_vars>>

\* Mutant: the timer keeps the session instead of looking it up.
ViewerTimerKeepsSession ==
  /\ Expires("viewer")
  /\ ForceFinalizeAll
  /\ \E q \in InIdOrder(live) : EnqueueForTranslation(q)
  /\ UNCHANGED <<asr_vars, mt_vars, main_vars, env_vars>>

\* The viewer's timer looks the session up in the registry.
ViewerReleaseTimerFires ==
  /\ Expires("viewer")
  /\ IF registered
     THEN ForceFinalizeAll /\ \E q \in InIdOrder(live) : EnqueueForTranslation(q)
     ELSE UNCHANGED <<tracker, queue_vars>>
  /\ UNCHANGED <<asr_vars, mt_vars, main_vars, env_vars>>
----------------------------------------------------------------------------
(* The message loop: request_summary is the stop button. *)

RequestSummary ==
  /\ main = "receive" /\ host_up
  /\ main' = "stopping"
  /\ CancelAsrTask
  /\ UNCHANGED <<running, registered, timed_out, tracker, queue_vars, mt_vars, timers, env_vars>>

\* Mutant: every final segment is queued, not only the newly final ones.
StopFinalizesAgain ==
  /\ main = "stopping"
  /\ \E q \in InIdOrder(finals \cup live) : EnqueueForTranslation(q)
  /\ ForceFinalizeAll
  /\ main' = "joining"
  /\ UNCHANGED <<running, registered, timed_out, asr_vars, mt_vars, timers, env_vars>>

\* First what has become stale, then the rest.
StopFinalizes ==
  /\ main = "stopping"
  /\ \E S \in SUBSET live : \E q \in InIdOrder(S), r \in InIdOrder(live \ S) :
       EnqueueForTranslation(q \o r)
  /\ ForceFinalizeAll
  /\ main' = "joining"
  /\ UNCHANGED <<running, registered, timed_out, asr_vars, mt_vars, timers, env_vars>>

AfterJoin == IF finals = {} THEN "summarizing" ELSE "reporting"

\* Mutant: an empty queue is taken for a finished one.
JoinWhenEmpty ==
  /\ main = "joining"
  /\ queue = <<>>
  /\ main' = AfterJoin
  /\ UNCHANGED <<running, registered, timed_out, tracker, asr_vars, queue_vars, mt_vars, timers, env_vars>>

\* Mutant: join() without a timeout.
JoinForever == main = "joining" /\ unfinished # 0 /\ FALSE

JoinDone ==
  /\ main = "joining"
  /\ unfinished = 0
  /\ main' = AfterJoin
  /\ UNCHANGED <<running, registered, timed_out, tracker, asr_vars, queue_vars, mt_vars, timers, env_vars>>

JoinTimeout ==
  /\ main = "joining"
  /\ unfinished # 0
  /\ main' = AfterJoin
  /\ timed_out' = TRUE
  /\ UNCHANGED <<running, registered, tracker, asr_vars, queue_vars, mt_vars, timers, env_vars>>

\* The final segments go to the viewers, then to the host; only a failure of
\* the broadcast leaves the handler.
FinalSegmentsSent ==
  /\ main = "reporting"
  /\ main' \in {"summarizing"} \cup (IF ViewersChange THEN {"cleanup"} ELSE {})
  /\ UNCHANGED <<running, registered, timed_out, tracker, asr_vars, queue_vars, mt_vars, timers, env_vars>>

\* summary_progress is sent outside of the try block.
Summarized ==
  /\ main = "summarizing"
  /\ \/ main' = "closing" /\ running' = FALSE
     \/ ~host_up /\ finals # {} /\ main' = "cleanup" /\ UNCHANGED running
  /\ UNCHANGED <<registered, timed_out, tracker, asr_vars, queue_vars, mt_vars, timers, env_vars>>

\* After close() the next receive() ends the loop.
Closed ==
  /\ main = "closing"
  /\ main' = "cleanup"
  /\ host_up' = FALSE
  /\ UNCHANGED <<running, registered, timed_out, tracker, asr_vars, queue_vars, mt_vars, timers, foreign_lang>>

Disconnected ==
  /\ main = "receive" /\ ~host_up
  /\ main' = "cleanup"
  /\ UNCHANGED <<running, registered, timed_out, tracker, asr_vars, queue_vars, mt_vars, timers, env_vars>>

\* Mutant: _running is left alone.
CleanupKeepsRunning ==
  /\ main = "cleanup"
  /\ main' = "saying_goodbye"
  /\ UNCHANGED <<running, registered, timed_out, tracker, asr_vars, queue_vars, mt_vars, timers, env_vars>>

CleanupBegins ==
  /\ main = "cleanup"
  /\ running' = FALSE
  /\ main' = "saying_goodbye"
  /\ UNCHANGED <<registered, timed_out, tracker, asr_vars, queue_vars, mt_vars, timers, env_vars>>

\* session_ended is out: the session leaves the registry, then the tasks are
\* cancelled one by one.
CleanupUnregisters ==
  /\ main = "saying_goodbye"
  /\ registered' = FALSE
  /\ CancelAsrTask
  /\ main' = "cancelling"
  /\ UNCHANGED <<running, timed_out, tracker, queue_vars, mt_vars, timers, env_vars>>

CleanupCancels ==
  /\ main = "cancelling"
  /\ CancelMtTask
  /\ CancelsTimer("host")
  /\ main' = "ended"
  /\ UNCHANGED <<running, registered, timed_out, tracker, asr_vars, env_vars>>

\* The broadcast of session_ended raises: nothing else is cleaned up.
CleanupFails ==
  /\ main = "saying_goodbye"
  /\ ViewersChange
  /\ main' = "ended"
  /\ UNCHANGED <<running, registered, timed_out, tracker, asr_vars, queue_vars, mt_vars, timers, env_vars>>
----------------------------------------------------------------------------
(* The surroundings. *)

HostDrops ==
  /\ host_up
  /\ host_up' = FALSE
  /\ UNCHANGED <<foreign_lang, tracker, asr_vars, queue_vars, mt_vars, main_vars, timers>>

\* The viewer's audio_config, or the first detection by the executor thread.
SetForeignLang(l) ==
  /\ l # foreign_lang
  /\ foreign_lang' = l
  /\ UNCHANGED <<host_up, tracker, asr_vars, queue_vars, mt_vars, main_vars, timers>>
----------------------------------------------------------------------------
Init ==
  /\ next_id = 0 /\ live = {} /\ finals = {}
  /\ asr = "sleep" /\ asr_new = {} /\ orphan = FALSE /\ lost = {}
  /\ queue = <<>> /\ unfinished = 0 /\ enqueued = {}
  /\ mt = "get" /\ mt_seg = None /\ mt_tgt = None /\ processed = {} /\ translations = {}
  /\ main = "receive" /\ running = TRUE /\ registered = TRUE /\ timed_out = FALSE
  /\ off = {} /\ orphans = [p \in Parties |-> 0]
  /\ host_up = TRUE
  /\ foreign_lang \in ForeignLangs \cup {None}

AsrLoop == AsrTick \/ AsrTickResumes \/ AsrTickEnqueues \/ AsrTickFails
Thread  == AsrJobStarts \/ ThreadDetects \/ \E S \in SUBSET live : ThreadReturns(S)
MtLoop  == MtTake \/ MtIdles \/ MtSent
MtJob   == \E ok \in BOOLEAN : MtTranslated(ok)
Stop    == RequestSummary \/ StopFinalizes \/ JoinDone \/ JoinTimeout
             \/ FinalSegmentsSent \/ Summarized \/ Closed
Cleanup == Disconnected \/ CleanupBegins \/ CleanupUnregisters
             \/ CleanupCancels \/ CleanupFails
Ptt     == \/ \E speaking \in BOOLEAN : HostSpeakingState(speaking) \/ ViewerSpeakingState(speaking)
           \/ ViewerLeaves \/ HostReleaseTimerFires \/ ViewerReleaseTimerFires
Environment == HostDrops \/ \E l \in ForeignLangs : SetForeignLang(l)

Next == AsrLoop \/ Thread \/ MtLoop \/ MtJob \/ Stop \/ Cleanup \/ Ptt \/ Environment

Spec == Init /\ [][Next]_vars

(* The event loop runs every task that can go on, and its timers fire: the *)
(* sends complete or raise, as the server pings a silent peer.  Nothing is *)
(* assumed of the people, and of the executor only that a summary returns. *)
EventLoopFairness ==
  /\ WF_vars(AsrLoop)
  /\ WF_vars(MtLoop)
  /\ WF_vars(StopFinalizes \/ JoinDone \/ JoinTimeout \/ FinalSegmentsSent \/ Summarized \/ Closed)
  /\ WF_vars(Cleanup)

\* Whisper and the translation model return too.
ExecutorFairness ==
  /\ WF_vars(AsrJobStarts \/ \E S \in SUBSET live : ThreadReturns(S))
  /\ WF_vars(MtJob)

FairSpec == Spec /\ EventLoopFairness
----------------------------------------------------------------------------
(* Properties. *)

AsrStates  == {"sleep", "submitted", "running", "returned", "sending", "ended"}
MtStates   == {"get", "translating", "sending", "ended"}
MainStates == {"receive", "stopping", "joining", "reporting", "summarizing", "closing",
               "cleanup", "saying_goodbye", "cancelling", "ended"}

TypeOK ==
  /\ next_id \in 0 .. MaxSegments
  /\ live \subseteq Segments /\ finals \subseteq Segments
  /\ asr \in AsrStates /\ asr_new \subseteq Segments
  /\ orphan \in BOOLEAN /\ lost \subseteq Segments
  /\ queue \in Seq(Segments) /\ unfinished \in Int /\ enqueued \subseteq Segments
  /\ mt \in MtStates
  /\ mt_seg \in Segments \cup {None} /\ mt_tgt \in ForeignLangs \cup {None}
  /\ processed \subseteq Segments /\ translations \subseteq Segments \X ForeignLangs
  /\ main \in MainStates
  /\ running \in BOOLEAN /\ registered \in BOOLEAN /\ timed_out \in BOOLEAN
  /\ off \subseteq Parties /\ orphans \in [Parties -> Nat]
  /\ host_up \in BOOLEAN /\ foreign_lang \in ForeignLangs \cup {None}

(* The join of the stop sequence counts what is really open: the items on  *)
(* the queue and the one in the MT loop's hands, however the loop leaves   *)
(* it (translated, skipped, failed, cancelled, session over).              *)
QueueAccounting ==
  unfinished = Len(queue) + (IF mt \in {"translating", "sending"} THEN 1 ELSE 0)

(* In every reachable state the count is exact and every variable typed.   *)
QueueOK == TypeOK /\ QueueAccounting

(* A final segment is queued, is about to be queued by the tick that       *)
(* returned it, or was lost with its tick: no timer, no stop and no later  *)
(* tick drops one, and none is queued that was lost.                       *)
FinalIsAccountedFor ==
  /\ finals = enqueued \cup asr_new \cup lost
  /\ enqueued \cap asr_new = {} /\ enqueued \cap lost = {} /\ asr_new \cap lost = {}

(* When the join of the stop sequence succeeds, the MT loop is done with   *)
(* every segment that was ever queued.                                     *)
DrainComplete ==
  [][main = "joining" /\ main' # "joining" /\ ~timed_out' => enqueued \subseteq processed]_vars

(* A session that ended and left the registry translates and stores nothing *)
(* more, and only a timer of the host that a second release had overwritten *)
(* can still queue what it finalizes; _cleanup cancels the last timer only.  *)
(* Neither the executor thread nor a viewer's timer touches the queue then.  *)
OverwrittenTimerFires == orphans'["host"] < orphans["host"]

OnlyOrphansAfterEnd ==
  [][main = "ended" /\ ~registered
       => /\ UNCHANGED <<translations, processed, mt>>
          /\ OverwrittenTimerFires \/ UNCHANGED queue_vars]_vars

(* The stop button ends the session, even if a translation never returns.  *)
StopEnds == (main = "stopping") ~> (main = "ended")

(* Once the handler has returned both loops end, even if the broadcast of  *)
(* session_ended raised and nobody cancelled them, if the models return.   *)
LoopsEnd ==
  ExecutorFairness => ((main = "ended") ~> (asr = "ended" /\ mt = "ended"))

(* While the session runs, the MT loop gets to every queued segment, if    *)
(* the models return.                                                      *)
QueueIsServed ==
  ExecutorFairness =>
    \A s \in Segments : (s \in enqueued) ~> (s \in processed \/ ~running)
----------------------------------------------------------------------------
(* The pipeline keeps the tracker's contract and takes every segment       *)
(* through its life cycle.                                                 *)

Ledger == INSTANCE TranscriptLedger WITH
  next <- next_id,
  live <- {[id |-> s] : s \in live},
  settled <- {[id |-> s] : s \in finals}

(* The steps the pipeline lets the tracker take are the ones that          *)
(* SegmentTracker is shown to take.                                        *)
ImplementsLedger == Ledger!Spec

\* How often the queue, the MT loop and its history have s.
Copies(s) ==
  Cardinality({i \in DOMAIN queue : queue[i] = s})
    + Cardinality({s} \cap ({mt_seg} \cup processed))

Stage(s) ==
  CASE Copies(s) > 1                        -> "again"
    [] Copies(s) = 1 /\ s \in processed     -> "handled"
    [] s \in enqueued \ processed           -> "queued"
    [] s \in lost                           -> "dropped"
    [] s \in finals \ (enqueued \cup lost)  -> "final"
    [] s \in live                           -> "live"
    [] OTHER                                -> "none"

Lifecycle == INSTANCE SegmentLifecycle WITH
  stage <- [s \in Segments |-> Stage(s)]

(* A segment is queued at most once and handled at most once, and one that *)
(* was dropped stays dropped.                                              *)
ImplementsLifecycle == Lifecycle!Spec

(* One run of the pipeline is a behaviour of both specifications at once.  *)
KeepsContracts == ImplementsLedger /\ ImplementsLifecycle
=============================================================================
