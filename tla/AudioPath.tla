------------------------------ MODULE AudioPath ------------------------------
(***************************************************************************)
(* The way of the audio during one recording: microphones of the host page *)
(* and of the viewer pages, their sockets, the two channel buffers with    *)
(* their clocks (streaming/session.py), the release timers of push-to-talk *)
(* (handler.py, viewer.py) and the ASR job that reads the buffers in a     *)
(* thread of its own while the event loop goes on (asr.py).                *)
(*                                                                         *)
(* Time and audio are counted in frames: in one unit of the wall clock an  *)
(* open microphone takes one frame.  Of the transcript only the end of the *)
(* youngest live segment of each channel is kept; SegmentTracker has the   *)
(* rest.                                                                   *)
(***************************************************************************)
EXTENDS Integers, FiniteSets

CONSTANTS
  Viewers, None,
  Stability, ReleaseDelay,     \* STABILITY_SEC, STABILITY_SEC + TICK_SEC
  Window, MaxBuffer,           \* WINDOW_SEC, MAX_BUFFER_SEC
  MinAudio,                    \* the 0.1 s a window must have to be transcribed
  MaxLag,                      \* how many frames can be under way in a socket
  MaxNow, JobTimes             \* bounds: wall clock, when the ASR loop starts jobs

ASSUME AudioAssumption ==
  /\ None \notin Nat
  /\ "host" \notin Viewers /\ IsFiniteSet(Viewers)
  /\ {Stability, ReleaseDelay, Window, MaxBuffer, MinAudio, MaxLag, MaxNow} \subseteq Nat
  /\ Stability <= ReleaseDelay
  /\ 0 < MinAudio /\ MinAudio <= Window /\ Window <= MaxBuffer

Sources  == {"host"} \cup Viewers
Channels == {"german", "foreign"}
ChannelOf(p) == IF p = "host" THEN "german" ELSE "foreign"

VARIABLES
  now,                         \* time.time() - start_time
  ptt, mic,                    \* the mode; whose microphone is open
  ready,                       \* pages whose microphone push-to-talk has set up
  waiting,                     \* frames under way in each page's socket
  acted,                       \* bound: a page has acted since time went on
  silent,                      \* history: pages muted without a release since their channel's reset
  start_offset, total, buffered, started,   \* the two ChannelBuffers
  mark,                        \* history: the end of a channel at its last reset
  all_total, dual,             \* session.total_samples, dual_channel_locked
  off, orphans,                \* the release timer of a page, and those it has forgotten
  job,                         \* the ASR job in the executor thread
  stale,                       \* history: channels reset under the job
  live, final_end,             \* youngest live segment; end of the final ones
  late                         \* history: a job brought a segment of a channel reset under it

page_vars    == <<ptt, mic, ready, waiting, acted, silent>>
channel_vars == <<start_offset, total, buffered, started, mark, all_total, dual>>
timer_vars   == <<off, orphans>>
job_vars     == <<job, stale>>
seg_vars     == <<live, final_end, late>>
vars == <<now, page_vars, channel_vars, timer_vars, job_vars, seg_vars>>
----------------------------------------------------------------------------
(* The channels. *)

Least(a, b) == IF a < b THEN a ELSE b
Most(a, b)  == IF a < b THEN b ELSE a

End(c) == start_offset[c] + total[c]

\* get_current_time
Clock == IF dual THEN Most(End("german"), End("foreign")) ELSE all_total

\* Mutant: channels start at the beginning of the recording.
AddUnanchored(frames) ==
  /\ start_offset' = [c \in Channels |-> 0]
  /\ started' = [c \in Channels |-> started[c] \/ frames[c] > 0]
  /\ total' = [c \in Channels |-> total[c] + frames[c]]
  /\ buffered' = [c \in Channels |-> Least(buffered[c] + frames[c], MaxBuffer)]
  /\ all_total' = all_total + frames["german"] + frames["foreign"]
  /\ dual' = (dual \/ frames["foreign"] > 0)

\* The first frame after a reset anchors its channel in the wall clock.
AddAudio(frames) ==
  /\ start_offset' = [c \in Channels |->
       IF frames[c] > 0 /\ ~started[c] THEN Most(0, now' - 1) ELSE start_offset[c]]
  /\ started' = [c \in Channels |-> started[c] \/ frames[c] > 0]
  /\ total' = [c \in Channels |-> total[c] + frames[c]]
  /\ buffered' = [c \in Channels |-> Least(buffered[c] + frames[c], MaxBuffer)]
  /\ all_total' = all_total + frames["german"] + frames["foreign"]
  /\ dual' = (dual \/ frames["foreign"] > 0)

Taken(p) == waiting[p] + (IF mic[p] THEN 1 ELSE 0)

TakenOf(S) == Cardinality({f \in S \X (1 .. MaxLag + 1) : f[2] <= Taken(f[1])})

\* Time goes on by a frame, and not past a timer that is due.  The sockets
\* of held are held up, the others deliver what is under way.
Elapse(held) ==
  /\ now < MaxNow
  /\ \A p \in Sources : off[p] # now /\ now \notin orphans[p]
  /\ \A p \in held : 0 < Taken(p) /\ Taken(p) <= MaxLag
  /\ now' = now + 1
  /\ waiting' = [p \in Sources |-> IF p \in held THEN Taken(p) ELSE 0]
  /\ AddAudio([german  |-> IF "host" \in held THEN 0 ELSE Taken("host"),
               foreign |-> TakenOf(Viewers \ held)])
  /\ acted' = FALSE
  /\ UNCHANGED <<ptt, mic, ready, silent, mark, timer_vars, job_vars, seg_vars>>

\* Mutant: the channel stays anchored where it was.
ResetKeepsStarted(c) ==
  /\ total' = [total EXCEPT ![c] = 0]
  /\ buffered' = [buffered EXCEPT ![c] = 0]
  /\ mark' = [mark EXCEPT ![c] = End(c)]
  /\ UNCHANGED <<started, start_offset, all_total, dual>>

\* ChannelBuffer.reset
Reset(c) ==
  /\ total' = [total EXCEPT ![c] = 0]
  /\ buffered' = [buffered EXCEPT ![c] = 0]
  /\ started' = [started EXCEPT ![c] = FALSE]
  /\ mark' = [mark EXCEPT ![c] = End(c)]
  /\ UNCHANGED <<start_offset, all_total, dual>>
----------------------------------------------------------------------------
(* Pages and release timers.  A socket keeps the order of what it carries, *)
(* so a key event arrives when no frame is under way before it.            *)

PageActs == ~acted /\ acted' = TRUE

\* The key goes down: the timer is cancelled.
Press(p) ==
  /\ ptt /\ waiting[p] = 0
  /\ PageActs
  /\ mic' = [mic EXCEPT ![p] = TRUE]
  /\ ready' = ready \cup {p}
  /\ off' = [off EXCEPT ![p] = None]
  /\ UNCHANGED <<now, ptt, waiting, silent, channel_vars, orphans, job_vars, seg_vars>>

\* A second release forgets the task of the first one, which goes on.
StartReleaseTimer(p) ==
  /\ off' = [off EXCEPT ![p] = now + ReleaseDelay]
  /\ orphans' = [orphans EXCEPT ![p] = @ \cup ({off[p]} \ {None})]

\* The key goes up; nobody asks whether it was down (keyup after blur, any
\* mouseup on the viewer's page).
Release(p) ==
  /\ ptt /\ p \in ready /\ waiting[p] = 0
  /\ PageActs
  /\ mic' = [mic EXCEPT ![p] = FALSE]
  /\ StartReleaseTimer(p)
  /\ UNCHANGED <<now, ptt, ready, waiting, silent, channel_vars, job_vars, seg_vars>>

\* Without push-to-talk a microphone is opened and closed in silence.
ToggleMute(p) ==
  /\ ~ptt
  /\ PageActs
  /\ mic' = [mic EXCEPT ![p] = ~@]
  /\ silent' = IF mic[p] THEN silent \cup {p} ELSE silent
  /\ UNCHANGED <<now, ptt, ready, waiting, channel_vars, timer_vars, job_vars, seg_vars>>

\* Push-to-talk on: the host's microphone closes.
PttOn ==
  /\ ~ptt
  /\ PageActs
  /\ ptt' = TRUE
  /\ mic' = [mic EXCEPT !["host"] = FALSE]
  /\ silent' = IF mic["host"] THEN silent \cup {"host"} ELSE silent
  /\ UNCHANGED <<now, ready, waiting, channel_vars, timer_vars, job_vars, seg_vars>>

\* Push-to-talk off: the host's key is released, the host's microphone opens,
\* those of the viewers close.
PttOff ==
  /\ ptt /\ waiting["host"] = 0
  /\ PageActs
  /\ ptt' = FALSE
  /\ mic' = [p \in Sources |-> p = "host"]
  /\ silent' = silent \cup {v \in Viewers : mic[v]}
  /\ ready' = {"host"}
  /\ IF mic["host"] THEN StartReleaseTimer("host") ELSE UNCHANGED timer_vars
  /\ UNCHANGED <<now, waiting, channel_vars, job_vars, seg_vars>>

\* The latest of t and the times in S.
Latest(S, t) == CHOOSE m \in S \cup {t} : \A e \in S \cup {t} : e <= m

LiveEnds == {live[c] : c \in Channels} \ {None}

\* Mutant: the channel is emptied, its segments stay live.
FinalizeNothing == UNCHANGED <<live, final_end, late>>

ForceFinalizeAll ==
  /\ live' = [c \in Channels |-> None]
  /\ final_end' = Latest(LiveEnds, final_end)
  /\ late' = FALSE

ReleaseTimerFires(p) ==
  /\ \/ /\ off[p] = now
        /\ off' = [off EXCEPT ![p] = None]
        /\ UNCHANGED orphans
     \/ /\ now \in orphans[p]
        /\ orphans' = [orphans EXCEPT ![p] = @ \ {now}]
        /\ UNCHANGED off
  /\ ForceFinalizeAll
  /\ Reset(ChannelOf(p))
  /\ silent' = {q \in silent : ChannelOf(q) # ChannelOf(p) \/ waiting[q] > 0}
  /\ stale' = IF job.at = "idle" THEN stale ELSE stale \cup {ChannelOf(p)}
  /\ UNCHANGED <<now, ptt, mic, ready, waiting, acted, job>>
----------------------------------------------------------------------------
(* The ASR job: run_asr_german_channel and run_asr_dual_channel. *)

Idle == [at |-> "idle", of |-> "german", both |-> FALSE, now |-> 0,
         len |-> [c \in Channels |-> 0], start |-> [c \in Channels |-> 0]]

\* The tick chooses the function while it is on the event loop.
JobSubmitted ==
  /\ job.at = "idle" /\ now \in JobTimes
  /\ job' = [Idle EXCEPT !.at = "submitted", !.both = dual]
  /\ stale' = {}
  /\ UNCHANGED <<now, page_vars, channel_vars, timer_vars, seg_vars>>

JobReadsClock ==
  /\ job.at = "submitted"
  /\ job' = [job EXCEPT !.at = "join", !.now = Clock]
  /\ UNCHANGED <<now, page_vars, channel_vars, timer_vars, stale, seg_vars>>

\* The foreign channel is read after the german one.
ReadNext(j) ==
  IF j.both /\ j.of = "german" THEN [j EXCEPT !.at = "join", !.of = "foreign"]
                               ELSE [j EXCEPT !.at = "fold"]

\* A window is joined first and placed in time afterwards.
JobJoinsAudio ==
  LET n == Least(buffered[job.of], Window)
  IN  /\ job.at = "join"
      /\ job' = IF n = 0 THEN ReadNext(job)
                         ELSE [job EXCEPT !.at = "place", !.len[job.of] = n]
      /\ UNCHANGED <<now, page_vars, channel_vars, timer_vars, stale, seg_vars>>

JobPlacesWindow ==
  LET c == job.of
      start == start_offset[c] + Most(0, total[c] - job.len[c])
  IN  /\ job.at = "place"
      /\ job' = ReadNext([job EXCEPT !.start[c] = start])
      /\ UNCHANGED <<now, page_vars, channel_vars, timer_vars, stale, seg_vars>>

Transcribed == {c \in Channels : job.len[c] >= MinAudio}

\* Too little audio: the job returns before it gets to the tracker.
JobReturnsEarly ==
  /\ job.at = "fold" /\ Transcribed = {}
  /\ job' = Idle
  /\ stale' = {}
  /\ UNCHANGED <<now, page_vars, channel_vars, timer_vars, seg_vars>>

Ends(c) == {e \in job.start[c] + 1 .. job.start[c] + job.len[c] : e > final_end}

\* What was found opens a segment or moves the end of the live one; then
\* what ends Stability before the clock that was read becomes final.
JobFolds(found) ==
  LET seen(c) == IF c \in DOMAIN found THEN found[c] ELSE live[c]
      done == {c \in Channels : seen(c) # None /\ seen(c) <= job.now - Stability}
  IN  /\ \A c \in DOMAIN found : found[c] \in Ends(c)
      /\ live' = [c \in Channels |-> IF c \in done THEN None ELSE seen(c)]
      /\ final_end' = Latest({seen(c) : c \in done}, final_end)
      /\ late' = (late \/ DOMAIN found \cap stale # {})
      /\ job' = Idle
      /\ stale' = {}
      /\ UNCHANGED <<now, page_vars, channel_vars, timer_vars>>

JobEnds ==
  /\ job.at = "fold" /\ Transcribed # {}
  /\ \E D \in SUBSET Transcribed :
       \E found \in [D -> UNION {Ends(c) : c \in D}] : JobFolds(found)
----------------------------------------------------------------------------
Init ==
  /\ now = 0
  /\ ptt \in BOOLEAN
  /\ mic = [p \in Sources |-> p = "host" /\ ~ptt] /\ ready = {"host"}
  /\ waiting = [p \in Sources |-> 0] /\ acted = FALSE /\ silent = {}
  /\ start_offset = [c \in Channels |-> 0] /\ total = [c \in Channels |-> 0]
  /\ buffered = [c \in Channels |-> 0] /\ started = [c \in Channels |-> FALSE]
  /\ mark = [c \in Channels |-> 0]
  /\ all_total = 0 /\ dual = FALSE
  /\ off = [p \in Sources |-> None] /\ orphans = [p \in Sources |-> {}]
  /\ job = Idle /\ stale = {}
  /\ live = [c \in Channels |-> None] /\ final_end = 0 /\ late = FALSE

Pages  == \/ \E p \in Sources : Press(p) \/ Release(p) \/ ToggleMute(p)
          \/ PttOn \/ PttOff
Timers == \E p \in Sources : ReleaseTimerFires(p)
Job    == \/ JobSubmitted \/ JobReadsClock \/ JobJoinsAudio \/ JobPlacesWindow \/ JobReturnsEarly
          \/ JobEnds

Next == (\E held \in SUBSET Sources : Elapse(held)) \/ Pages \/ Timers \/ Job

Spec == Init /\ [][Next]_vars
----------------------------------------------------------------------------
(* Properties. *)

TypeOK ==
  /\ now \in Nat /\ ptt \in BOOLEAN
  /\ mic \in [Sources -> BOOLEAN] /\ ready \subseteq Sources
  /\ waiting \in [Sources -> 0 .. MaxLag] /\ acted \in BOOLEAN /\ silent \subseteq Sources
  /\ start_offset \in [Channels -> Nat] /\ total \in [Channels -> Nat]
  /\ buffered \in [Channels -> 0 .. MaxBuffer] /\ started \in [Channels -> BOOLEAN]
  /\ mark \in [Channels -> Nat]
  /\ all_total \in Nat /\ dual \in BOOLEAN
  /\ off \in [Sources -> Nat \cup {None}] /\ orphans \in [Sources -> SUBSET Nat]
  /\ job \in [at : {"idle", "submitted", "join", "place", "fold"}, of : Channels,
              both : BOOLEAN, now : Nat, len : [Channels -> 0 .. Window],
              start : [Channels -> Nat]]
  /\ stale \subseteq Channels
  /\ live \in [Channels -> Nat \cup {None}] /\ final_end \in Nat /\ late \in BOOLEAN

(* Until the first viewer speaks the clock is the sum of all samples,      *)
(* while segments are placed in the wall clock: the sum never runs ahead   *)
(* of the host's channel, so no segment becomes final before its time.     *)
ClockNotAhead == ~dual /\ started["german"] => all_total <= End("german")

(* Buffers keep their bounds, and the clock does not lead.                 *)
ClockOK == TypeOK /\ ClockNotAhead

(* The clock goes back, at a reset or at the switch to two channels, only  *)
(* when no live segment waits for it.                                      *)
ClockBackOnlyWhenIdle == [][Clock' < Clock => \A c \in Channels : live'[c] = None]_vars

(* Nobody's words are stuck: while a segment is live, a microphone of its  *)
(* channel is open, whose samples move the clock on, or a release timer is *)
(* still to finalize it; unless a microphone was closed without a release, *)
(* or a job brought the segment in after its channel was reset.            *)
Attended(c) ==
  \E p \in Sources : /\ ChannelOf(p) = c
                     /\ mic[p] \/ off[p] # None \/ orphans[p] # {} \/ p \in silent
LiveIsAttended == \A c \in Channels : live[c] # None => Attended(c) \/ late

(* How far a channel may be anchored before its old end: each page that    *)
(* feeds it adds a frame in a unit of time, and may hold back MaxLag.      *)
Feeders(c) == IF c = "german" THEN 1 ELSE Cardinality(Viewers)
AnchorDriftBounded ==
  [][\A c \in Channels :
       started'[c] /\ ~started[c] => mark[c] <= Feeders(c) * (start_offset'[c] + MaxLag)]_vars

(* session.py:37-39, "re-anchor start_offset_sec to the current wall-clock *)
(* [...] keeps segment timestamps strictly ascending": a channel is        *)
(* anchored where it ended before its last reset, or later.                *)
AnchorsAscend ==
  [][\A c \in Channels : started'[c] /\ ~started[c] => start_offset'[c] >= mark[c]]_vars

=============================================================================
