--------------------------- MODULE AudioPathProofs ---------------------------
(***************************************************************************)
(* Proofs about AudioPath for any number of viewers, any socket delay, any *)
(* lengths of window, buffer and release timer, and any schedule of jobs.  *)
(***************************************************************************)
EXTENDS AudioPath, FiniteSetTheorems, TLAPS

\* The parts of TypeOK, for the proofs to take one at a time.
PageType ==
  /\ ptt \in BOOLEAN /\ mic \in [Sources -> BOOLEAN] /\ ready \subseteq Sources
  /\ waiting \in [Sources -> 0 .. MaxLag] /\ acted \in BOOLEAN /\ silent \subseteq Sources
ChannelType ==
  /\ start_offset \in [Channels -> Nat] /\ total \in [Channels -> Nat]
  /\ buffered \in [Channels -> 0 .. MaxBuffer] /\ started \in [Channels -> BOOLEAN]
  /\ mark \in [Channels -> Nat] /\ all_total \in Nat /\ dual \in BOOLEAN
TimerType == off \in [Sources -> Nat \cup {None}] /\ orphans \in [Sources -> SUBSET Nat]
JobsSet ==
  [at : {"idle", "submitted", "join", "place", "fold"}, of : Channels, both : BOOLEAN,
   now : Nat, len : [Channels -> 0 .. Window], start : [Channels -> Nat]]
JobType == job \in JobsSet /\ stale \subseteq Channels
SegType == live \in [Channels -> Nat \cup {None}] /\ final_end \in Nat /\ late \in BOOLEAN

LEMMA TypeParts ==
  TypeOK <=> now \in Nat /\ PageType /\ ChannelType /\ TimerType /\ JobType /\ SegType
BY DEF TypeOK, PageType, ChannelType, TimerType, JobType, JobsSet, SegType

\* The parameters are natural numbers.
LEMMA Parameters ==
  /\ Stability \in Nat /\ ReleaseDelay \in Nat /\ Window \in Nat /\ MaxBuffer \in Nat
  /\ MinAudio \in Nat /\ MaxLag \in Nat /\ MaxNow \in Nat
  /\ 0 < MinAudio /\ 0 < Window /\ 0 < MaxBuffer
BY AudioAssumption

LEMMA SourcesAndChannels ==
  /\ "host" \in Sources /\ ChannelOf("host") = "german"
  /\ \A v \in Viewers : v \in Sources /\ ChannelOf(v) = "foreign"
  /\ \A p \in Sources : ChannelOf(p) \in Channels
  /\ Channels = {"german", "foreign"} /\ "german" # "foreign"
BY AudioAssumption DEF Sources, Channels, ChannelOf
-----------------------------------------------------------------------------
(* What arrives while time goes on. *)

\* The frames that arrive in each channel when the sockets of held are held up.
Frames(held) == [german  |-> IF "host" \in held THEN 0 ELSE Taken("host"),
                 foreign |-> TakenOf(Viewers \ held)]

(* A page has at most one frame more than its socket carries.              *)
LEMMA TakenType ==
  ASSUME TypeOK, NEW p \in Sources
  PROVE  /\ waiting[p] \in Nat /\ Taken(p) \in Nat
         /\ waiting[p] <= Taken(p) /\ Taken(p) <= waiting[p] + 1
<1>1. waiting[p] \in 0 .. MaxLag /\ mic[p] \in BOOLEAN
  BY DEF TypeOK
<1>2. QED  BY <1>1, Parameters DEF Taken

(* The viewers' frames are counted.                                        *)
LEMMA TakenOfType ==
  ASSUME NEW S \in SUBSET Viewers
  PROVE  TakenOf(S) \in Nat
<1> DEFINE F == {f \in S \X (1 .. MaxLag + 1) : f[2] <= Taken(f[1])}
<1>1. IsFiniteSet(S)
  BY AudioAssumption, FS_Subset
<1>2. IsFiniteSet(1 .. MaxLag + 1)
  <2>1. 1 \in Int /\ MaxLag + 1 \in Int  BY Parameters
  <2>2. QED  BY <2>1, FS_Interval
<1>3. IsFiniteSet(S \X (1 .. MaxLag + 1))
  BY <1>1, <1>2, FS_Product
<1>4. F \in SUBSET (S \X (1 .. MaxLag + 1))
  OBVIOUS
<1>5. IsFiniteSet(F)
  BY <1>3, <1>4, FS_Subset
<1>6. Cardinality(F) \in Nat
  BY <1>5, FS_CardinalityType
<1>7. QED  BY <1>6 DEF TakenOf

LEMMA FramesType ==
  ASSUME TypeOK, NEW held \in SUBSET Sources
  PROVE  Frames(held) \in [Channels -> Nat]
<1>1. TakenOf(Viewers \ held) \in Nat
  BY TakenOfType
<1>2. Taken("host") \in Nat
  BY TakenType, SourcesAndChannels
<1>3. QED  BY <1>1, <1>2 DEF Frames, Channels

(* The smaller and the greater of two numbers, the greatest of three.      *)
LEMMA LeastMost ==
  ASSUME NEW a \in Int, NEW b \in Int
  PROVE  /\ Least(a, b) \in {a, b} /\ Least(a, b) <= a /\ Least(a, b) <= b
         /\ Most(a, b) \in {a, b} /\ a <= Most(a, b) /\ b <= Most(a, b)
BY DEF Least, Most

LEMMA LatestType ==
  ASSUME NEW a, NEW b, NEW S \in SUBSET Nat, S \subseteq {a, b}, NEW t \in Nat
  PROVE  Latest(S, t) \in Nat
<1>1. \E m \in S \cup {t} : \A e \in S \cup {t} : e <= m
  <2>1. CASE \A e \in S : e <= t
    BY <2>1
  <2>2. CASE \E e \in S : t < e
    <3>1. PICK e \in S : t < e  BY <2>2
    <3>2. CASE \A x \in S : x <= e
      BY <3>1, <3>2
    <3>3. CASE \E x \in S : e < x
      <4>1. PICK x \in S : e < x  BY <3>3
      <4>2. S \subseteq {e, x}  BY <4>1
      <4>3. QED  BY <3>1, <4>1, <4>2
    <3>4. QED  BY <3>2, <3>3
  <2>3. QED  BY <2>1, <2>2
<1>2. Latest(S, t) \in S \cup {t}
  BY <1>1 DEF Latest
<1>3. QED  BY <1>2
-----------------------------------------------------------------------------
(* Types. *)

LEMMA AddAudioTypes ==
  ASSUME TypeOK, now' \in Nat, NEW f \in [Channels -> Nat], AddAudio(f), mark' = mark
  PROVE  ChannelType'
<1>1. ASSUME NEW c \in Channels
      PROVE  Least(buffered[c] + f[c], MaxBuffer) \in 0 .. MaxBuffer /\ Most(0, now' - 1) \in Nat
  <2>1. buffered[c] \in 0 .. MaxBuffer /\ f[c] \in Nat
    BY DEF TypeOK
  <2>2. buffered[c] + f[c] \in Nat /\ now' - 1 \in Int /\ MaxBuffer \in Nat
    BY <2>1, Parameters
  <2>3. Least(buffered[c] + f[c], MaxBuffer) \in 0 .. MaxBuffer
    BY <2>2 DEF Least
  <2>4. Most(0, now' - 1) \in Nat
    <3>1. \A n \in Nat : Most(0, n - 1) \in Nat
      BY DEF Most
    <3>2. QED  BY <3>1
  <2>5. QED  BY <2>3, <2>4
<1>2. total' \in [Channels -> Nat] /\ start_offset' \in [Channels -> Nat]
  BY <1>1 DEF AddAudio, TypeOK
<1>3. buffered' \in [Channels -> 0 .. MaxBuffer]
  BY <1>1 DEF AddAudio
<1>4. all_total' \in Nat
  BY SourcesAndChannels DEF AddAudio, TypeOK
<1>5. started' \in [Channels -> BOOLEAN] /\ dual' \in BOOLEAN
  BY DEF AddAudio, TypeOK
<1>6. mark' \in [Channels -> Nat]
  BY DEF TypeOK
<1>7. QED  BY <1>2, <1>3, <1>4, <1>5, <1>6 DEF ChannelType

LEMMA ElapseTypes ==
  ASSUME TypeOK, NEW held \in SUBSET Sources, Elapse(held)
  PROVE  TypeOK'
<1>1. now' \in Nat
  BY DEF Elapse, TypeOK
<1>2. ChannelType'
  <2>1. AddAudio(Frames(held)) /\ mark' = mark
    BY DEF Elapse, Frames
  <2>2. QED  BY <1>1, <2>1, FramesType, AddAudioTypes
<1>3. PageType'
  <2>1. ASSUME NEW p \in Sources
        PROVE  (IF p \in held THEN Taken(p) ELSE 0) \in 0 .. MaxLag
    BY TakenType, Parameters DEF Elapse
  <2>2. waiting' \in [Sources -> 0 .. MaxLag]
    BY <2>1 DEF Elapse
  <2>3. QED  BY <2>2 DEF Elapse, TypeOK, PageType
<1>4. UNCHANGED <<timer_vars, job_vars, seg_vars>>
  BY DEF Elapse
<1>5. TimerType' /\ JobType' /\ SegType'
  BY <1>4, TypeParts DEF timer_vars, job_vars, seg_vars, TimerType, JobType, SegType
<1>6. QED
  <2>1. TypeOK' <=> (now \in Nat /\ PageType /\ ChannelType /\ TimerType /\ JobType /\ SegType)'
    BY TypeParts, PTL
  <2>2. QED  BY <1>1, <1>2, <1>3, <1>5, <2>1

LEMMA PagesTypes ==
  ASSUME TypeOK, Pages
  PROVE  TypeOK'
<1>1. /\ UNCHANGED <<now, channel_vars, job_vars, seg_vars>>
      /\ waiting' = waiting /\ acted' = TRUE
  BY DEF Pages, Press, Release, ToggleMute, PttOn, PttOff, PageActs
<1>2. /\ ptt' \in BOOLEAN /\ mic' \in [Sources -> BOOLEAN] /\ ready' \subseteq Sources
      /\ silent' \subseteq Sources
  <2>1. ptt' \in BOOLEAN
    BY DEF Pages, Press, Release, ToggleMute, PttOn, PttOff, TypeOK
  <2>2. mic' \in [Sources -> BOOLEAN]
    BY DEF Pages, Press, Release, ToggleMute, PttOn, PttOff, TypeOK
  <2>3. ready' \subseteq Sources
    BY SourcesAndChannels DEF Pages, Press, Release, ToggleMute, PttOn, PttOff, TypeOK
  <2>4. silent' \subseteq Sources
    BY SourcesAndChannels DEF Pages, Press, Release, ToggleMute, PttOn, PttOff, TypeOK
  <2>5. QED  BY <2>1, <2>2, <2>3, <2>4
<1>3. TimerType'
  <2>1. \A p \in Sources : StartReleaseTimer(p) => TimerType'
    <3>1. SUFFICES ASSUME NEW p \in Sources, StartReleaseTimer(p)  PROVE TimerType'
      OBVIOUS
    <3>2. now + ReleaseDelay \in Nat
      BY Parameters DEF TypeOK
    <3>3. off' \in [Sources -> Nat \cup {None}]
      BY <3>1, <3>2 DEF StartReleaseTimer, TypeOK
    <3>4. orphans[p] \cup ({off[p]} \ {None}) \in SUBSET Nat
      BY DEF TypeOK
    <3>5. orphans' \in [Sources -> SUBSET Nat]
      BY <3>1, <3>4 DEF StartReleaseTimer, TypeOK
    <3>6. QED  BY <3>3, <3>5 DEF TimerType
  <2>2. ASSUME NEW p \in Sources, Press(p)  PROVE TimerType'
    BY <2>2 DEF Press, TypeOK, TimerType
  <2>3. (\E p \in Sources : StartReleaseTimer(p)) \/ (\E p \in Sources : Press(p)) \/ UNCHANGED timer_vars
    BY SourcesAndChannels DEF Pages, Release, ToggleMute, PttOn, PttOff
  <2>4. UNCHANGED timer_vars => TimerType'
    BY DEF timer_vars, TypeOK, TimerType
  <2>5. QED  BY <2>1, <2>2, <2>3, <2>4
<1>4. PageType'
  BY <1>1, <1>2 DEF TypeOK, PageType
<1>5. now' \in Nat /\ ChannelType' /\ JobType' /\ SegType'
  BY <1>1, TypeParts DEF channel_vars, job_vars, seg_vars, ChannelType, JobType, SegType
<1>6. QED
  <2>1. TypeOK' <=> (now \in Nat /\ PageType /\ ChannelType /\ TimerType /\ JobType /\ SegType)'
    BY TypeParts, PTL
  <2>2. QED  BY <1>3, <1>4, <1>5, <2>1

LEMMA ResetTypes ==
  ASSUME TypeOK, NEW c \in Channels, Reset(c)
  PROVE  ChannelType'
<1>1. End(c) \in Nat
  BY DEF End, TypeOK
<1>2. /\ total' \in [Channels -> Nat] /\ buffered' \in [Channels -> 0 .. MaxBuffer]
      /\ mark' \in [Channels -> Nat]
  BY <1>1, Parameters DEF Reset, TypeOK
<1>3. started' \in [Channels -> BOOLEAN]
  BY DEF Reset, TypeOK
<1>4. QED  BY <1>2, <1>3 DEF Reset, TypeOK, ChannelType

LEMMA ForceFinalizeAllTypes ==
  ASSUME TypeOK, ForceFinalizeAll
  PROVE  SegType'
<1>1. live' \in [Channels -> Nat \cup {None}] /\ late' \in BOOLEAN
  BY DEF ForceFinalizeAll
<1>2. LiveEnds \in SUBSET Nat /\ LiveEnds \subseteq {live["german"], live["foreign"]}
  BY DEF LiveEnds, Channels, TypeOK
<1>3. final_end' \in Nat
  BY <1>2, LatestType DEF ForceFinalizeAll, TypeOK
<1>4. QED  BY <1>1, <1>3 DEF SegType

LEMMA ReleaseTimerTypes ==
  ASSUME TypeOK, NEW p \in Sources, ReleaseTimerFires(p)
  PROVE  TypeOK'
<1>1. ChannelOf(p) \in Channels
  BY SourcesAndChannels
<1>2. UNCHANGED <<now, ptt, mic, ready, waiting, acted, job>> /\ silent' \subseteq silent
  BY DEF ReleaseTimerFires
<1>3. TimerType'
  BY DEF ReleaseTimerFires, TypeOK, TimerType
<1>4. ChannelType' /\ SegType'
  BY <1>1, ResetTypes, ForceFinalizeAllTypes DEF ReleaseTimerFires
<1>5. JobType'
  BY <1>1, TypeParts DEF ReleaseTimerFires, JobType
<1>6. now' \in Nat /\ PageType'
  BY <1>2 DEF TypeOK, PageType
<1>7. QED
  <2>1. TypeOK' <=> (now \in Nat /\ PageType /\ ChannelType /\ TimerType /\ JobType /\ SegType)'
    BY TypeParts, PTL
  <2>2. QED  BY <1>3, <1>4, <1>5, <1>6, <2>1

(* The ASR job's record. *)

LEMMA IdleType ==
  /\ Idle \in JobsSet
  /\ Idle.at = "idle" /\ Idle.len = [c \in Channels |-> 0]
BY Parameters, SourcesAndChannels DEF Idle, JobsSet

LEMMA ReadNextType ==
  ASSUME NEW j \in JobsSet
  PROVE  /\ ReadNext(j) \in JobsSet
         /\ ReadNext(j).len = j.len /\ ReadNext(j).start = j.start
         /\ ReadNext(j).at # "idle"
BY DEF ReadNext, JobsSet, Channels

(* What a job folds in has one of the ends it found.                       *)
LEMMA EndsType ==
  ASSUME TypeOK, NEW c \in Channels
  PROVE  Ends(c) \in SUBSET Nat
<1>1. job.start[c] \in Nat /\ job.len[c] \in Nat
  <2>1. job.start \in [Channels -> Nat] /\ job.len \in [Channels -> 0 .. Window]
    BY TypeParts DEF JobType, JobsSet
  <2>2. QED  BY <2>1, Parameters
<1>2. QED  BY <1>1 DEF Ends

LEMMA JobFoldsTypes ==
  ASSUME TypeOK, NEW D \in SUBSET Channels, NEW found \in [D -> UNION {Ends(c) : c \in D}],
         JobFolds(found)
  PROVE  TypeOK'
<1> DEFINE seen(c) == IF c \in DOMAIN found THEN found[c] ELSE live[c]
           done == {c \in Channels : seen(c) # None /\ seen(c) <= job.now - Stability}
<1>1. /\ live' = [c \in Channels |-> IF c \in done THEN None ELSE seen(c)]
      /\ final_end' = Latest({seen(c) : c \in done}, final_end)
      /\ late' = (late \/ DOMAIN found \cap stale # {})
      /\ job' = Idle /\ stale' = {}
      /\ UNCHANGED <<now, page_vars, channel_vars, timer_vars>>
  BY DEF JobFolds
<1>2. ASSUME NEW c \in Channels  PROVE seen(c) \in Nat \cup {None}
  <2>1. c \in DOMAIN found => found[c] \in Nat
    <3>1. c \in DOMAIN found => found[c] \in Ends(c)
      BY DEF JobFolds
    <3>2. QED  BY <3>1, EndsType
  <2>2. QED  BY <2>1 DEF TypeOK
<1>3. live' \in [Channels -> Nat \cup {None}] /\ late' \in BOOLEAN
  <2>1. live' \in [Channels -> Nat \cup {None}]
    BY <1>1, <1>2
  <2>2. late' \in BOOLEAN
    BY <1>1 DEF TypeOK
  <2>3. QED  BY <2>1, <2>2
<1>4. final_end' \in Nat
  <2>1. {seen(c) : c \in done} \in SUBSET Nat
    BY <1>2
  <2>2. {seen(c) : c \in done} \subseteq {seen("german"), seen("foreign")}
    BY DEF Channels
  <2>3. final_end \in Nat
    BY DEF TypeOK
  <2> HIDE DEF seen, done
  <2>4. QED  BY <1>1, <2>1, <2>2, <2>3, LatestType
<1>5. SegType'
  BY <1>3, <1>4 DEF SegType
<1>6. JobType'
  BY <1>1, IdleType DEF JobType
<1>7. now' \in Nat /\ PageType' /\ ChannelType' /\ TimerType'
  BY <1>1, TypeParts DEF page_vars, channel_vars, timer_vars, PageType, ChannelType, TimerType
<1>8. QED
  <2>1. TypeOK' <=> (now \in Nat /\ PageType /\ ChannelType /\ TimerType /\ JobType /\ SegType)'
    BY TypeParts, PTL
  <2>2. QED  BY <1>5, <1>6, <1>7, <2>1

LEMMA ClockType ==
  ASSUME TypeOK
  PROVE  /\ Clock \in Nat
         /\ \A c \in Channels : End(c) \in Nat
<1>1. \A c \in Channels : End(c) \in Nat
  BY DEF End, TypeOK
<1>2. QED  BY <1>1, SourcesAndChannels DEF Clock, Most, TypeOK

\* A step of the job that leaves all else alone keeps the types if it keeps its own.
JobSteps == \/ JobSubmitted \/ JobReadsClock \/ JobJoinsAudio \/ JobPlacesWindow
            \/ JobReturnsEarly

LEMMA JobStepsTypes ==
  ASSUME TypeOK, JobSteps
  PROVE  TypeOK'
<1>1. job \in JobsSet /\ stale \subseteq Channels
  BY TypeParts DEF JobType
<1>2. UNCHANGED <<now, page_vars, channel_vars, timer_vars, seg_vars>> /\ stale' \in {stale, {}}
  BY DEF JobSteps, JobSubmitted, JobReadsClock, JobJoinsAudio, JobPlacesWindow, JobReturnsEarly
<1>3. job' \in JobsSet
  <2>1. CASE JobSubmitted
    BY <2>1, IdleType DEF JobSubmitted, JobsSet, TypeOK
  <2>2. CASE JobReadsClock
    BY <1>1, <2>2, ClockType DEF JobReadsClock, JobsSet
  <2>3. CASE JobJoinsAudio
    <3>1. Least(buffered[job.of], Window) \in 0 .. Window
      <4>1. job.of \in Channels  BY <1>1 DEF JobsSet
      <4>2. buffered[job.of] \in 0 .. MaxBuffer  BY <4>1 DEF TypeOK
      <4>3. QED  BY <4>2, Parameters DEF Least
    <3>2. [job EXCEPT !.at = "place", !.len[job.of] = Least(buffered[job.of], Window)] \in JobsSet
      BY <1>1, <3>1 DEF JobsSet
    <3>3. QED  BY <1>1, <2>3, <3>2, ReadNextType DEF JobJoinsAudio
  <2>4. CASE JobPlacesWindow
    <3> DEFINE start == start_offset[job.of] + Most(0, total[job.of] - job.len[job.of])
    <3>1. start \in Nat
      <4>1. job.of \in Channels  BY <1>1 DEF JobsSet
      <4>2. start_offset[job.of] \in Nat /\ total[job.of] \in Nat  BY <4>1 DEF TypeOK
      <4>3. job.len[job.of] \in Nat  BY <1>1, <4>1, Parameters DEF JobsSet
      <4>4. QED  BY <4>2, <4>3 DEF Most
    <3>2. job' = ReadNext([job EXCEPT !.start[job.of] = start])
      BY <2>4 DEF JobPlacesWindow
    <3> HIDE DEF start
    <3>3. [job EXCEPT !.start[job.of] = start] \in JobsSet
      BY <1>1, <3>1 DEF JobsSet
    <3>4. QED  BY <3>2, <3>3, ReadNextType
  <2>5. CASE JobReturnsEarly
    BY <2>5, IdleType DEF JobReturnsEarly
  <2>6. QED  BY <2>1, <2>2, <2>3, <2>4, <2>5 DEF JobSteps
<1>4. JobType'
  BY <1>1, <1>2, <1>3 DEF JobType
<1>5. now' \in Nat /\ PageType' /\ ChannelType' /\ TimerType' /\ SegType'
  BY <1>2, TypeParts
  DEF page_vars, channel_vars, timer_vars, seg_vars, PageType, ChannelType, TimerType, SegType
<1>6. QED
  <2>1. TypeOK' <=> (now \in Nat /\ PageType /\ ChannelType /\ TimerType /\ JobType /\ SegType)'
    BY TypeParts, PTL
  <2>2. QED  BY <1>4, <1>5, <2>1

LEMMA TypeInit == Init => TypeOK
<1> SUFFICES ASSUME Init  PROVE TypeOK
  OBVIOUS
<1>1. now \in Nat /\ PageType
  <2>1. now \in Nat /\ waiting \in [Sources -> 0 .. MaxLag]
    BY Parameters DEF Init
  <2>2. mic \in [Sources -> BOOLEAN]
    <3>1. \A p \in Sources : (p = "host" /\ ~ptt) \in BOOLEAN
      BY Zenon
    <3>2. mic = [p \in Sources |-> p = "host" /\ ~ptt]
      BY DEF Init
    <3>3. QED  BY <3>1, <3>2, Zenon
  <2>3. ptt \in BOOLEAN /\ acted \in BOOLEAN /\ ready \subseteq Sources /\ silent \subseteq Sources
    BY SourcesAndChannels DEF Init
  <2>4. QED  BY <2>1, <2>2, <2>3 DEF PageType
<1>2. ChannelType /\ TimerType
  <2>1. /\ start_offset \in [Channels -> Nat] /\ total \in [Channels -> Nat]
        /\ buffered \in [Channels -> 0 .. MaxBuffer] /\ mark \in [Channels -> Nat]
        /\ all_total \in Nat
    BY Parameters DEF Init
  <2>2. started \in [Channels -> BOOLEAN] /\ dual \in BOOLEAN
    BY DEF Init
  <2>3. TimerType
    BY DEF Init, TimerType
  <2>4. QED  BY <2>1, <2>2, <2>3 DEF ChannelType
<1>3. JobType /\ SegType
  BY IdleType DEF Init, JobType, SegType
<1>4. QED  BY <1>1, <1>2, <1>3, TypeParts

LEMMA TypeNext == TypeOK /\ [Next]_vars => TypeOK'
<1> SUFFICES ASSUME TypeOK, [Next]_vars  PROVE TypeOK'
  OBVIOUS
<1>1. ASSUME NEW held \in SUBSET Sources, Elapse(held)  PROVE TypeOK'
  BY <1>1, ElapseTypes
<1>2. CASE Pages
  BY <1>2, PagesTypes
<1>3. ASSUME NEW p \in Sources, ReleaseTimerFires(p)  PROVE TypeOK'
  BY <1>3, ReleaseTimerTypes
<1>4. CASE JobSteps
  BY <1>4, JobStepsTypes
<1>5. CASE JobEnds
  <2>1. PICK D \in SUBSET Transcribed : \E found \in [D -> UNION {Ends(c) : c \in D}] : JobFolds(found)
    BY <1>5 DEF JobEnds
  <2>2. D \in SUBSET Channels
    BY DEF Transcribed
  <2>3. QED  BY <2>1, <2>2, JobFoldsTypes
<1>6. CASE UNCHANGED vars
  BY <1>6 DEF vars, page_vars, channel_vars, timer_vars, job_vars, seg_vars, TypeOK
<1>7. QED  BY <1>1, <1>2, <1>3, <1>4, <1>5, <1>6 DEF Next, Timers, Job, JobSteps

(* The types hold in every reachable state.                                *)
THEOREM TypeCorrect == Spec => []TypeOK
BY TypeInit, TypeNext, PTL DEF Spec
-----------------------------------------------------------------------------
(* The clock.                                                              *)
(*                                                                         *)
(* ClockNotAhead is not inductive: the sum of all samples may grow to what *)
(* the wall clock allows while the host's channel is anchored in the wall  *)
(* clock afresh.  What is needed is that the sum, with what is under way,  *)
(* never exceeds the wall clock as long as only the host has spoken.       *)

UnstartedIsEmpty  == \A c \in Channels : ~started[c] => total[c] = 0
AnchoredInPast    == \A c \in Channels : start_offset[c] <= now
SumWithinTime     == ~dual => all_total + waiting["host"] <= now
ForeignMeansDual  == started["foreign"] => dual

ClockInv ==
  /\ TypeOK
  /\ UnstartedIsEmpty /\ AnchoredInPast /\ SumWithinTime /\ ForeignMeansDual
  /\ ClockNotAhead

(* The channels after a frame of time.                                     *)
LEMMA ElapseChannels ==
  ASSUME TypeOK, NEW held \in SUBSET Sources, Elapse(held), NEW c \in Channels
  PROVE  /\ Frames(held)[c] \in Nat
         /\ now' = now + 1 /\ now \in Nat
         /\ start_offset'[c] = IF Frames(held)[c] > 0 /\ ~started[c] THEN now ELSE start_offset[c]
         /\ started'[c] = (started[c] \/ Frames(held)[c] > 0)
         /\ total'[c] = total[c] + Frames(held)[c]
         /\ buffered'[c] = Least(buffered[c] + Frames(held)[c], MaxBuffer)
         /\ start_offset[c] \in Nat /\ total[c] \in Nat /\ buffered[c] \in Nat
<1>1. AddAudio(Frames(held)) /\ now' = now + 1
  BY DEF Elapse, Frames
<1>2. now \in Nat /\ start_offset[c] \in Nat /\ total[c] \in Nat /\ buffered[c] \in Nat
  BY Parameters DEF TypeOK
<1>3. Most(0, now' - 1) = now
  <2>1. Most(0, (now + 1) - 1) = now
    BY <1>2 DEF Most
  <2>2. QED  BY <1>1, <2>1
<1>4. Frames(held)[c] \in Nat
  BY FramesType
<1>5. QED  BY <1>1, <1>2, <1>3, <1>4 DEF AddAudio

(* The sum after a frame of time.                                          *)
LEMMA ElapseSum ==
  ASSUME TypeOK, NEW held \in SUBSET Sources, Elapse(held)
  PROVE  /\ all_total' = all_total + Frames(held)["german"] + Frames(held)["foreign"]
         /\ dual' = (dual \/ Frames(held)["foreign"] > 0)
         /\ Frames(held)["german"] + waiting'["host"] <= waiting["host"] + 1
         /\ Frames(held)["german"] \in Nat /\ Frames(held)["foreign"] \in Nat
         /\ all_total \in Nat /\ waiting["host"] \in Nat /\ waiting'["host"] \in Nat
<1>1. AddAudio(Frames(held))
  BY DEF Elapse, Frames
<1>2. waiting'["host"] = IF "host" \in held THEN Taken("host") ELSE 0
  BY SourcesAndChannels DEF Elapse
<1>3. Frames(held)["german"] = IF "host" \in held THEN 0 ELSE Taken("host")
  BY DEF Frames
<1>4. Taken("host") \in Nat /\ Taken("host") <= waiting["host"] + 1 /\ waiting["host"] \in Nat
  BY TakenType, SourcesAndChannels
<1>5. Frames(held)["german"] \in Nat /\ Frames(held)["foreign"] \in Nat
  BY FramesType, SourcesAndChannels
<1>6. all_total \in Nat
  BY DEF TypeOK
<1>7. all_total' = all_total + Frames(held)["german"] + Frames(held)["foreign"]
  BY <1>1 DEF AddAudio
<1>8. dual' = (dual \/ Frames(held)["foreign"] > 0)
  BY <1>1 DEF AddAudio
<1>9. QED  BY <1>2, <1>3, <1>4, <1>5, <1>6, <1>7, <1>8

(* As long as there is one channel no viewer speaks.                       *)
LEMMA OneChannelElapse ==
  ASSUME TypeOK, NEW held \in SUBSET Sources, Elapse(held), ~dual'
  PROVE  ~dual /\ Frames(held)["foreign"] = 0
<1>1. ~dual /\ ~(Frames(held)["foreign"] > 0)
  <2>1. dual' = (dual \/ Frames(held)["foreign"] > 0)
    BY ElapseSum
  <2>2. QED  BY <2>1, Zenon
<1>2. Frames(held)["foreign"] \in Nat
  BY ElapseSum
<1>3. QED  BY <1>1, <1>2

LEMMA ElapseClock ==
  ASSUME ClockInv, NEW held \in SUBSET Sources, Elapse(held)
  PROVE  /\ UnstartedIsEmpty' /\ AnchoredInPast' /\ SumWithinTime' /\ ForeignMeansDual'
         /\ ClockNotAhead'
<1> USE DEF ClockInv
<1>1. UnstartedIsEmpty'
  <2>1. SUFFICES ASSUME NEW c \in Channels, ~started'[c]  PROVE total'[c] = 0
    BY DEF UnstartedIsEmpty
  <2>2. ~started[c] /\ ~(Frames(held)[c] > 0)
    <3>1. started'[c] = (started[c] \/ Frames(held)[c] > 0)
      BY ElapseChannels
    <3>2. QED  BY <2>1, <3>1, Zenon
  <2>3. total[c] = 0
    BY <2>2 DEF UnstartedIsEmpty
  <2>4. QED  BY <2>2, <2>3, ElapseChannels
<1>2. AnchoredInPast'
  BY ElapseChannels DEF AnchoredInPast
<1>3. SumWithinTime'
  <2>1. SUFFICES ASSUME ~dual'  PROVE all_total' + waiting'["host"] <= now'
    BY DEF SumWithinTime
  <2>2. ~dual /\ Frames(held)["foreign"] = 0
    BY <2>1, OneChannelElapse
  <2>3. all_total + waiting["host"] <= now /\ now \in Nat /\ now' = now + 1
    BY <2>2, ElapseChannels, SourcesAndChannels DEF SumWithinTime
  <2>4. QED  BY <2>2, <2>3, ElapseSum
<1>4. ForeignMeansDual'
  BY ElapseChannels, ElapseSum, SourcesAndChannels DEF ForeignMeansDual
<1>5. ClockNotAhead'
  <2>1. SUFFICES ASSUME ~dual', started'["german"]
                 PROVE  all_total' <= start_offset'["german"] + total'["german"]
    BY DEF ClockNotAhead, End
  <2>2. ~dual /\ Frames(held)["foreign"] = 0
    BY <2>1, OneChannelElapse
  <2>3. all_total' = all_total + Frames(held)["german"]
    BY <2>2, ElapseSum
  <2>4. CASE started["german"]
    <3>1. all_total <= start_offset["german"] + total["german"]
      BY <2>2, <2>4 DEF ClockNotAhead, End
    <3>2. QED  BY <2>3, <2>4, <3>1, ElapseChannels, ElapseSum, SourcesAndChannels
  <2>5. CASE ~started["german"]
    <3>1. /\ start_offset'["german"] = now /\ total["german"] = 0
          /\ total'["german"] = total["german"] + Frames(held)["german"]
      BY <2>1, <2>5, ElapseChannels, SourcesAndChannels DEF UnstartedIsEmpty
    <3>2. all_total + waiting["host"] <= now /\ now \in Nat
      BY <2>2, ElapseChannels, SourcesAndChannels DEF SumWithinTime
    <3>3. QED  BY <2>3, <3>1, <3>2, ElapseSum
  <2>6. QED  BY <2>4, <2>5
<1>6. QED  BY <1>1, <1>2, <1>3, <1>4, <1>5

(* A release timer empties one channel and leaves the sum alone.           *)
LEMMA ReleaseTimerClock ==
  ASSUME ClockInv, NEW p \in Sources, ReleaseTimerFires(p)
  PROVE  /\ UnstartedIsEmpty' /\ AnchoredInPast' /\ SumWithinTime' /\ ForeignMeansDual'
         /\ ClockNotAhead'
<1>1. PICK c \in Channels : Reset(c)
  BY SourcesAndChannels DEF ReleaseTimerFires
<1>2. /\ now' = now /\ waiting' = waiting
      /\ start_offset' = start_offset /\ all_total' = all_total /\ dual' = dual
  BY <1>1 DEF ReleaseTimerFires, Reset
<1>3. ASSUME NEW d \in Channels
      PROVE  IF d = c THEN started'[d] = FALSE /\ total'[d] = 0
                      ELSE started'[d] = started[d] /\ total'[d] = total[d]
  BY <1>1 DEF Reset, ClockInv, TypeOK
<1>4. UnstartedIsEmpty'
  BY <1>3 DEF UnstartedIsEmpty, ClockInv
<1>5. AnchoredInPast' /\ SumWithinTime'
  BY <1>2 DEF AnchoredInPast, SumWithinTime, ClockInv
<1>6. ForeignMeansDual'
  BY <1>2, <1>3, SourcesAndChannels DEF ForeignMeansDual, ClockInv
<1>7. ClockNotAhead'
  BY <1>2, <1>3, SourcesAndChannels DEF ClockNotAhead, End, ClockInv
<1>8. QED  BY <1>4, <1>5, <1>6, <1>7

(* Everything else leaves time, channels and sockets alone.                *)
LEMMA OtherSteps ==
  ASSUME TypeOK, Pages \/ Job \/ UNCHANGED vars
  PROVE  UNCHANGED <<now, waiting, channel_vars>>
<1>1. Pages => UNCHANGED <<now, waiting, channel_vars>>
  BY DEF Pages, Press, Release, ToggleMute, PttOn, PttOff
<1>2. Job => UNCHANGED <<now, waiting, channel_vars>>
  BY DEF Job, JobSubmitted, JobReadsClock, JobJoinsAudio, JobPlacesWindow, JobReturnsEarly,
         JobEnds, JobFolds, page_vars
<1>3. UNCHANGED vars => UNCHANGED <<now, waiting, channel_vars>>
  BY DEF vars, page_vars
<1>4. QED  BY <1>1, <1>2, <1>3

LEMMA ClockNext == ClockInv /\ [Next]_vars => ClockInv'
<1> SUFFICES ASSUME ClockInv, [Next]_vars  PROVE ClockInv'
  OBVIOUS
<1>1. TypeOK'
  BY TypeNext DEF ClockInv
<1>2. ASSUME NEW held \in SUBSET Sources, Elapse(held)  PROVE ClockInv'
  BY <1>1, <1>2, ElapseClock DEF ClockInv
<1>3. ASSUME NEW p \in Sources, ReleaseTimerFires(p)  PROVE ClockInv'
  BY <1>1, <1>3, ReleaseTimerClock DEF ClockInv
<1>4. CASE Pages \/ Job \/ UNCHANGED vars
  <2>1. UNCHANGED <<now, waiting, channel_vars>>
    BY <1>4, OtherSteps DEF ClockInv
  <2>2. (UnstartedIsEmpty /\ AnchoredInPast /\ SumWithinTime /\ ForeignMeansDual /\ ClockNotAhead)'
    BY <2>1 DEF channel_vars, ClockInv, UnstartedIsEmpty, AnchoredInPast, SumWithinTime,
                ForeignMeansDual, ClockNotAhead, End
  <2>3. QED  BY <1>1, <2>2 DEF ClockInv
<1>5. QED  BY <1>2, <1>3, <1>4 DEF Next, Timers

LEMMA ClockInit == Init => ClockInv
<1> SUFFICES ASSUME Init  PROVE ClockInv
  OBVIOUS
<1>1. UnstartedIsEmpty /\ AnchoredInPast /\ SumWithinTime
  BY SourcesAndChannels DEF Init, UnstartedIsEmpty, AnchoredInPast, SumWithinTime
<1>2. ~started["foreign"] /\ ~started["german"]
  BY SourcesAndChannels DEF Init
<1>3. QED  BY <1>1, <1>2, TypeInit DEF ClockInv, ForeignMeansDual, ClockNotAhead

(* The sum of samples never runs ahead of the host's channel.              *)
THEOREM ClockNeverAhead == Spec => []ClockNotAhead
<1>1. Spec => []ClockInv
  BY ClockInit, ClockNext, PTL DEF Spec
<1>2. ClockInv => ClockNotAhead
  BY DEF ClockInv
<1>3. QED  BY <1>1, <1>2, PTL

(* What the run of the audio path checks of buffers and clock.             *)
THEOREM ClockHolds == Spec => []ClockOK
BY TypeCorrect, ClockNeverAhead, PTL DEF ClockOK
-----------------------------------------------------------------------------
(* Live segments, their audio, and who is to finalize them.                *)
(*                                                                         *)
(* A live segment has audio in its channel, for a job opens segments from  *)
(* the window it has copied, and what it has copied is still there unless  *)
(* the channel was reset under the job.  The audio has come from a page    *)
(* that is still open, was closed in silence, or has a timer that will     *)
(* take it away together with what is live.                                *)

LiveHasAudio   == \A c \in Channels : live[c] # None => buffered[c] > 0 \/ late
WindowHasAudio == \A c \in Channels : job.len[c] > 0 => buffered[c] > 0 \/ c \in stale
IdleHasWindow  == job.at = "idle" => \A c \in Channels : job.len[c] = 0

AudioInv == TypeOK /\ LiveHasAudio /\ WindowHasAudio /\ IdleHasWindow

(* A job at rest has no window.                                            *)
LEMMA IdleJob ==
  ASSUME job' = Idle
  PROVE  WindowHasAudio' /\ IdleHasWindow'
<1>1. \A c \in Channels : job'.len[c] = 0
  BY IdleType
<1>2. QED  BY <1>1 DEF WindowHasAudio, IdleHasWindow

(* Audio that is there stays while time goes on.                           *)
LEMMA ElapseAudio ==
  ASSUME AudioInv, NEW held \in SUBSET Sources, Elapse(held)
  PROVE  LiveHasAudio' /\ WindowHasAudio' /\ IdleHasWindow'
<1>1. UNCHANGED <<job, stale, live, late>>
  BY DEF Elapse, job_vars, seg_vars
<1>2. ASSUME NEW c \in Channels, buffered[c] > 0  PROVE buffered'[c] > 0
  <2>1. /\ buffered'[c] = Least(buffered[c] + Frames(held)[c], MaxBuffer)
        /\ buffered[c] \in Nat /\ Frames(held)[c] \in Nat
    BY ElapseChannels DEF AudioInv
  <2>2. Least(buffered[c] + Frames(held)[c], MaxBuffer) > 0
    BY <1>2, <2>1, Parameters DEF Least
  <2>3. QED  BY <2>1, <2>2
<1>3. LiveHasAudio'
  BY <1>1, <1>2 DEF LiveHasAudio, AudioInv
<1>4. WindowHasAudio' /\ IdleHasWindow'
  BY <1>1, <1>2 DEF WindowHasAudio, IdleHasWindow, AudioInv
<1>5. QED  BY <1>3, <1>4

(* A release timer leaves nothing live and marks the channel it empties.   *)
LEMMA ReleaseTimerAudio ==
  ASSUME AudioInv, NEW p \in Sources, ReleaseTimerFires(p)
  PROVE  LiveHasAudio' /\ WindowHasAudio' /\ IdleHasWindow'
<1> DEFINE c == ChannelOf(p)
<1>1. c \in Channels
  BY SourcesAndChannels
<1>2. LiveHasAudio'
  BY DEF ReleaseTimerFires, ForceFinalizeAll, LiveHasAudio
<1>3. /\ job' = job /\ stale' = IF job.at = "idle" THEN stale ELSE stale \cup {c}
      /\ buffered' = [buffered EXCEPT ![c] = 0]
  BY DEF ReleaseTimerFires, Reset
<1>4. IdleHasWindow'
  BY <1>3 DEF IdleHasWindow, AudioInv
<1>5. WindowHasAudio'
  <2>1. SUFFICES ASSUME NEW d \in Channels, job.len[d] > 0
                 PROVE  buffered'[d] > 0 \/ d \in stale'
    BY <1>3 DEF WindowHasAudio
  <2>2. job.at # "idle"
    BY <2>1 DEF IdleHasWindow, AudioInv
  <2>3. CASE d = c
    BY <1>3, <2>2, <2>3
  <2>4. CASE d # c
    <3>1. buffered'[d] = buffered[d]
      BY <1>3, <2>4 DEF AudioInv, TypeOK
    <3>2. buffered[d] > 0 \/ d \in stale
      BY <2>1 DEF WindowHasAudio, AudioInv
    <3>3. QED  BY <1>3, <3>1, <3>2
  <2>5. QED  BY <2>3, <2>4
<1>6. QED  BY <1>2, <1>4, <1>5

(* What a job folds in has audio, or is late.                              *)
LEMMA JobEndsAudio ==
  ASSUME AudioInv, JobEnds
  PROVE  LiveHasAudio' /\ WindowHasAudio' /\ IdleHasWindow'
<1>0. PICK D \in SUBSET Transcribed : \E found \in [D -> UNION {Ends(c) : c \in D}] : JobFolds(found)
  BY DEF JobEnds
<1>1. PICK found \in [D -> UNION {Ends(c) : c \in D}] : JobFolds(found)
  BY <1>0
<1>2. job' = Idle /\ buffered' = buffered /\ DOMAIN found = D
  BY <1>1 DEF JobFolds, channel_vars
<1>3. ASSUME NEW c \in Channels, live'[c] # None
      PROVE  buffered'[c] > 0 \/ late'
  <2>1. c \in D \/ live[c] # None
    BY <1>1, <1>2, <1>3 DEF JobFolds
  <2>2. CASE c \in D
    <3>1. job.len[c] > 0
      <4>1. job.len[c] >= MinAudio  BY <2>2 DEF Transcribed
      <4>2. job.len[c] \in Nat
        BY TypeParts, Parameters DEF AudioInv, JobType, JobsSet
      <4>3. QED  BY <4>1, <4>2, Parameters
    <3>2. buffered[c] > 0 \/ c \in stale
      BY <3>1 DEF AudioInv, WindowHasAudio
    <3>3. c \in stale => late'
      BY <1>1, <1>2, <2>2 DEF JobFolds
    <3>4. QED  BY <1>2, <3>2, <3>3
  <2>3. CASE live[c] # None
    <3>1. buffered[c] > 0 \/ late
      BY <2>3 DEF AudioInv, LiveHasAudio
    <3>2. late => late'
      BY <1>1 DEF JobFolds
    <3>3. QED  BY <1>2, <3>1, <3>2
  <2>4. QED  BY <2>1, <2>2, <2>3
<1>4. LiveHasAudio'
  BY <1>3 DEF LiveHasAudio
<1>5. QED  BY <1>2, <1>4, IdleJob

(* A window is copied from audio that is there.                            *)
LEMMA JobStepsAudio ==
  ASSUME AudioInv, JobSteps
  PROVE  LiveHasAudio' /\ WindowHasAudio' /\ IdleHasWindow'
<1>1. job \in JobsSet /\ stale \subseteq Channels
  BY TypeParts DEF AudioInv, JobType
<1>2. UNCHANGED <<channel_vars, seg_vars>>
  BY DEF JobSteps, JobSubmitted, JobReadsClock, JobJoinsAudio, JobPlacesWindow, JobReturnsEarly
<1>3. LiveHasAudio'
  BY <1>2 DEF channel_vars, seg_vars, LiveHasAudio, AudioInv
<1>4. WindowHasAudio' /\ IdleHasWindow'
  <2>1. CASE JobSubmitted
    <3>1. job'.len = [c \in Channels |-> 0]
      BY <2>1, IdleType DEF JobSubmitted, Idle
    <3>2. QED  BY <3>1 DEF WindowHasAudio, IdleHasWindow
  <2>2. CASE job' = Idle
    BY <2>2, IdleJob
  <2>3. CASE JobReadsClock
    <3>1. job'.len = job.len /\ job'.at = "join" /\ stale' = stale /\ buffered' = buffered
      BY <1>1, <1>2, <2>3 DEF JobReadsClock, JobsSet, channel_vars
    <3>2. QED  BY <3>1 DEF WindowHasAudio, IdleHasWindow, AudioInv
  <2>4. CASE JobJoinsAudio
    <3> DEFINE n == Least(buffered[job.of], Window)
    <3>1. /\ stale' = stale /\ buffered' = buffered
          /\ job' = IF n = 0 THEN ReadNext(job)
                             ELSE [job EXCEPT !.at = "place", !.len[job.of] = n]
      BY <1>2, <2>4 DEF JobJoinsAudio, channel_vars
    <3>2. CASE n = 0
      <4>1. job'.len = job.len /\ job'.at # "idle"
        BY <1>1, <3>1, <3>2, ReadNextType
      <4>2. QED  BY <3>1, <4>1 DEF WindowHasAudio, IdleHasWindow, AudioInv
    <3>3. CASE n # 0
      <4>1. job.of \in Channels /\ buffered[job.of] \in Nat
        <5>1. job.of \in Channels  BY <1>1 DEF JobsSet
        <5>2. QED  BY <5>1, Parameters DEF AudioInv, TypeOK
      <4>2. buffered[job.of] > 0
        BY <3>3, <4>1, Parameters DEF Least
      <4> HIDE DEF n
      <4>3. job'.len = [job.len EXCEPT ![job.of] = n] /\ job'.at = "place"
        BY <1>1, <3>1, <3>3 DEF JobsSet
      <4>4. \A c \in Channels : c # job.of => job'.len[c] = job.len[c]
        BY <1>1, <4>3 DEF JobsSet
      <4>5. QED  BY <3>1, <4>2, <4>3, <4>4 DEF WindowHasAudio, IdleHasWindow, AudioInv
    <3>4. QED  BY <3>2, <3>3
  <2>5. CASE JobPlacesWindow
    <3> DEFINE start == start_offset[job.of] + Most(0, total[job.of] - job.len[job.of])
    <3>1. /\ stale' = stale /\ buffered' = buffered
          /\ job' = ReadNext([job EXCEPT !.start[job.of] = start])
      BY <1>2, <2>5 DEF JobPlacesWindow, channel_vars
    <3>2. start \in Nat
      <4>1. job.of \in Channels  BY <1>1 DEF JobsSet
      <4>2. start_offset[job.of] \in Nat /\ total[job.of] \in Nat
        BY <4>1 DEF AudioInv, TypeOK
      <4>3. job.len[job.of] \in Nat  BY <1>1, <4>1, Parameters DEF JobsSet
      <4>4. QED  BY <4>2, <4>3 DEF Most
    <3> HIDE DEF start
    <3>3. [job EXCEPT !.start[job.of] = start] \in JobsSet
      BY <1>1, <3>2 DEF JobsSet
    <3>4. [job EXCEPT !.start[job.of] = start].len = job.len
      BY <1>1 DEF JobsSet
    <3>5. job'.len = job.len /\ job'.at # "idle"
      BY <3>1, <3>3, <3>4, ReadNextType
    <3>6. QED  BY <3>1, <3>5 DEF WindowHasAudio, IdleHasWindow, AudioInv
  <2>6. QED  BY <2>1, <2>2, <2>3, <2>4, <2>5 DEF JobSteps, JobReturnsEarly
<1>5. QED  BY <1>3, <1>4

LEMMA AudioNext == AudioInv /\ [Next]_vars => AudioInv'
<1> SUFFICES ASSUME AudioInv, [Next]_vars  PROVE AudioInv'
  OBVIOUS
<1>1. TypeOK'
  BY TypeNext DEF AudioInv
<1>2. ASSUME NEW held \in SUBSET Sources, Elapse(held)  PROVE AudioInv'
  BY <1>1, <1>2, ElapseAudio DEF AudioInv
<1>3. ASSUME NEW p \in Sources, ReleaseTimerFires(p)  PROVE AudioInv'
  BY <1>1, <1>3, ReleaseTimerAudio DEF AudioInv
<1>4. CASE JobEnds
  BY <1>1, <1>4, JobEndsAudio DEF AudioInv
<1>5. CASE JobSteps
  BY <1>1, <1>5, JobStepsAudio DEF AudioInv
<1>6. CASE Pages \/ UNCHANGED vars
  <2>1. UNCHANGED <<buffered, job, stale, live, late>>
    BY <1>6 DEF Pages, Press, Release, ToggleMute, PttOn, PttOff, vars, channel_vars, job_vars,
                seg_vars
  <2>2. (LiveHasAudio /\ WindowHasAudio /\ IdleHasWindow)'
    BY <2>1 DEF LiveHasAudio, WindowHasAudio, IdleHasWindow, AudioInv
  <2>3. QED  BY <1>1, <2>2 DEF AudioInv
<1>7. QED  BY <1>2, <1>3, <1>4, <1>5, <1>6 DEF Next, Timers, Job, JobSteps

LEMMA AudioInvariant == Spec => []AudioInv
<1>1. Init => AudioInv
  <2> SUFFICES ASSUME Init  PROVE AudioInv
    OBVIOUS
  <2>1. LiveHasAudio
    BY DEF Init, LiveHasAudio
  <2>2. \A c \in Channels : job.len[c] = 0
    BY IdleType DEF Init
  <2>3. QED  BY <2>1, <2>2, TypeInit DEF AudioInv, WindowHasAudio, IdleHasWindow
<1>2. QED  BY <1>1, AudioNext, PTL DEF Spec

\* Somebody or something is still to happen to what p has said.
Attends(p) == mic[p] \/ off[p] # None \/ orphans[p] # {} \/ p \in silent

AudioIsAttended == \A c \in Channels : buffered[c] > 0 => Attended(c)

\* A page whose frames are under way is open, or was closed in silence.
WaitingIsOpen == \A p \in Sources : waiting[p] > 0 => mic[p] \/ p \in silent

AttendInv == AudioIsAttended /\ WaitingIsOpen

LEMMA AttendedBy ==
  ASSUME NEW c \in Channels
  PROVE  Attended(c) <=> \E p \in Sources : ChannelOf(p) = c /\ Attends(p)
BY DEF Attended, Attends

(* Frames that arrive come from a page.                                    *)
LEMMA FramesFrom ==
  ASSUME TypeOK, NEW held \in SUBSET Sources, NEW c \in Channels, Frames(held)[c] > 0
  PROVE  \E p \in Sources : ChannelOf(p) = c /\ Taken(p) > 0
<1>1. CASE c = "german"
  BY <1>1, SourcesAndChannels DEF Frames
<1>2. CASE c = "foreign"
  <2> DEFINE F == {f \in (Viewers \ held) \X (1 .. MaxLag + 1) : f[2] <= Taken(f[1])}
  <2>1. Cardinality(F) > 0
    BY <1>2, SourcesAndChannels DEF Frames, TakenOf
  <2>2. F # {}
    <3> HIDE DEF F
    <3>1. QED  BY <2>1, FS_EmptySet
  <2>3. PICK f \in F : TRUE
    BY <2>2
  <2>4. f[1] \in Viewers /\ f[2] \in 1 .. MaxLag + 1 /\ f[2] <= Taken(f[1])
    BY <2>3
  <2>5. f[1] \in Sources /\ Taken(f[1]) \in Nat
    BY <2>4, SourcesAndChannels, TakenType
  <2>6. Taken(f[1]) > 0
    BY <2>4, <2>5, Parameters
  <2>7. QED  BY <1>2, <2>4, <2>5, <2>6, SourcesAndChannels
<1>3. QED  BY <1>1, <1>2, SourcesAndChannels

LEMMA ElapseAttended ==
  ASSUME TypeOK, AttendInv, NEW held \in SUBSET Sources, Elapse(held)
  PROVE  AttendInv'
<1>1. UNCHANGED <<mic, silent, off, orphans>>
  BY DEF Elapse, timer_vars
<1>2. \A p \in Sources : Taken(p) > 0 => mic[p] \/ p \in silent
  BY Parameters DEF Taken, WaitingIsOpen, AttendInv, TypeOK
<1>3. WaitingIsOpen'
  <2>1. \A p \in Sources : waiting'[p] = IF p \in held THEN Taken(p) ELSE 0
    BY DEF Elapse
  <2>2. QED  BY <1>1, <1>2, <2>1 DEF WaitingIsOpen
<1>4. AudioIsAttended'
  <2>1. SUFFICES ASSUME NEW c \in Channels, buffered'[c] > 0  PROVE Attended(c)
    BY <1>1 DEF AudioIsAttended, Attended
  <2>2. CASE buffered[c] > 0
    BY <2>2 DEF AttendInv, AudioIsAttended
  <2>3. CASE ~(buffered[c] > 0)
    <3>1. Frames(held)[c] > 0
      <4>1. /\ buffered'[c] = Least(buffered[c] + Frames(held)[c], MaxBuffer)
            /\ buffered[c] \in Nat /\ Frames(held)[c] \in Nat
        BY ElapseChannels
      <4>2. QED  BY <2>1, <2>3, <4>1, Parameters DEF Least
    <3>2. PICK p \in Sources : ChannelOf(p) = c /\ Taken(p) > 0
      BY <3>1, FramesFrom
    <3>3. QED  BY <1>2, <3>2 DEF Attended
  <2>4. QED  BY <2>2, <2>3
<1>5. QED  BY <1>3, <1>4 DEF AttendInv

(* Pages leave the buffers and sockets alone, and go on attending.         *)
LEMMA PagesAttended ==
  ASSUME TypeOK, AttendInv, Pages
  PROVE  AttendInv'
<1>1. UNCHANGED <<buffered, waiting>>
  BY DEF Pages, Press, Release, ToggleMute, PttOn, PttOff, channel_vars
<1>2. ASSUME NEW p \in Sources
      PROVE  /\ Attends(p) => Attends(p)'
             /\ waiting[p] > 0 /\ (mic[p] \/ p \in silent) => mic'[p] \/ p \in silent'
  <2>1. ASSUME NEW q \in Sources, Press(q)
        PROVE  /\ Attends(p) => Attends(p)'
               /\ waiting[p] > 0 /\ (mic[p] \/ p \in silent) => mic'[p] \/ p \in silent'
    BY <2>1 DEF Press, Attends, TypeOK
  <2>2. ASSUME NEW q \in Sources, Release(q)
        PROVE  /\ Attends(p) => Attends(p)'
               /\ waiting[p] > 0 /\ (mic[p] \/ p \in silent) => mic'[p] \/ p \in silent'
    <3>1. now + ReleaseDelay # None
      BY Parameters, AudioAssumption DEF TypeOK
    <3>2. CASE p = q
      <4>1. off'[p] = now + ReleaseDelay /\ waiting[p] = 0
        BY <2>2, <3>2 DEF Release, StartReleaseTimer, TypeOK
      <4>2. QED  BY <3>1, <4>1 DEF Attends
    <3>3. CASE p # q
      BY <2>2, <3>3 DEF Release, StartReleaseTimer, Attends, TypeOK
    <3>4. QED  BY <3>2, <3>3
  <2>3. ASSUME NEW q \in Sources, ToggleMute(q)
        PROVE  /\ Attends(p) => Attends(p)'
               /\ waiting[p] > 0 /\ (mic[p] \/ p \in silent) => mic'[p] \/ p \in silent'
    BY <2>3 DEF ToggleMute, timer_vars, Attends, TypeOK
  <2>4. CASE PttOn
    BY <2>4 DEF PttOn, timer_vars, Attends, TypeOK
  <2>5. CASE PttOff
    <3>1. mic'[p] = (p = "host") /\ (p # "host" => p \in Viewers)
      BY <2>5 DEF PttOff, Sources
    <3>2. CASE p = "host"
      BY <3>1, <3>2 DEF Attends
    <3>3. CASE p # "host"
      <4>1. off'[p] = off[p] /\ orphans'[p] = orphans[p]
        BY <2>5, <3>3 DEF PttOff, StartReleaseTimer, timer_vars, TypeOK
      <4>2. p \in silent \/ mic[p] => p \in silent'
        BY <2>5, <3>1, <3>3 DEF PttOff
      <4>3. QED  BY <4>1, <4>2 DEF Attends
    <3>4. QED  BY <3>2, <3>3
  <2>6. QED  BY <2>1, <2>2, <2>3, <2>4, <2>5 DEF Pages
<1>3. WaitingIsOpen'
  BY <1>1, <1>2 DEF WaitingIsOpen, AttendInv
<1>4. \A c \in Channels : Attended(c) => Attended(c)'
  BY <1>2 DEF Attended, Attends
<1>5. AudioIsAttended'
  BY <1>1, <1>4 DEF AudioIsAttended, AttendInv
<1>6. QED  BY <1>3, <1>5 DEF AttendInv

(* A release timer takes the audio of its channel away.                    *)
LEMMA TimerAttended ==
  ASSUME TypeOK, AttendInv, NEW p \in Sources, ReleaseTimerFires(p)
  PROVE  AttendInv'
<1> DEFINE c == ChannelOf(p)
<1>1. UNCHANGED <<mic, waiting>>
      /\ silent' = {q \in silent : ChannelOf(q) # c \/ waiting[q] > 0}
      /\ buffered' = [buffered EXCEPT ![c] = 0] /\ c \in Channels
  BY SourcesAndChannels DEF ReleaseTimerFires, Reset
<1>2. WaitingIsOpen'
  BY <1>1 DEF WaitingIsOpen, AttendInv
<1>3. ASSUME NEW d \in Channels, buffered'[d] > 0  PROVE Attended(d)'
  <2>1. d # c /\ buffered[d] > 0
    BY <1>1, <1>3 DEF TypeOK
  <2>2. PICK q \in Sources : ChannelOf(q) = d /\ Attends(q)
    BY <2>1, AttendedBy DEF AttendInv, AudioIsAttended
  <2>3. q # p /\ off'[q] = off[q] /\ orphans'[q] = orphans[q]
    BY <2>1, <2>2 DEF ReleaseTimerFires, TypeOK
  <2>4. QED  BY <1>1, <2>1, <2>2, <2>3 DEF Attended, Attends
<1>4. QED  BY <1>2, <1>3 DEF AttendInv, AudioIsAttended

(* While a segment is live, somebody or a timer is still to finalize it.   *)
THEOREM LiveAttended == Spec => []LiveIsAttended
<1>1. Init => AttendInv
  BY DEF Init, AttendInv, AudioIsAttended, WaitingIsOpen
<1>2. TypeOK /\ AttendInv /\ [Next]_vars => AttendInv'
  <2>1. ASSUME TypeOK, AttendInv, Job \/ UNCHANGED vars  PROVE AttendInv'
    <3>1. UNCHANGED <<mic, silent, off, orphans, waiting, buffered>>
      BY <2>1 DEF Job, JobSubmitted, JobReadsClock, JobJoinsAudio, JobPlacesWindow,
                  JobReturnsEarly, JobEnds, JobFolds, vars, page_vars, timer_vars, channel_vars
    <3>2. QED
      BY <2>1, <3>1 DEF AttendInv, AudioIsAttended, WaitingIsOpen, Attended
  <2>2. QED
    BY <2>1, ElapseAttended, PagesAttended, TimerAttended DEF Next, Timers
<1>3. AudioInv /\ AttendInv => LiveIsAttended
  BY DEF AudioInv, LiveHasAudio, AttendInv, AudioIsAttended, LiveIsAttended
<1>4. Spec => []AttendInv
  BY <1>1, <1>2, TypeCorrect, PTL DEF Spec
<1>5. QED  BY <1>3, <1>4, AudioInvariant, PTL
-----------------------------------------------------------------------------
(* The clock goes back only at a reset.                                    *)

(* A frame of time moves no channel's end back.                            *)
LEMMA ElapseEnds ==
  ASSUME ClockInv, NEW held \in SUBSET Sources, Elapse(held), NEW c \in Channels
  PROVE  /\ End(c) \in Nat /\ End(c)' \in Nat /\ End(c) <= End(c)'
         /\ Frames(held)[c] > 0 /\ ~started[c] => End(c)' >= now
<1>1. /\ End(c) = start_offset[c] + total[c]
      /\ End(c)' = start_offset'[c] + total'[c]
  BY DEF End
<1>2. CASE Frames(held)[c] > 0 /\ ~started[c]
  <2>1. total[c] = 0 /\ start_offset[c] <= now
    BY <1>2 DEF ClockInv, UnstartedIsEmpty, AnchoredInPast
  <2>2. start_offset'[c] = now /\ total'[c] = total[c] + Frames(held)[c]
    BY <1>2, ElapseChannels DEF ClockInv
  <2>3. /\ Frames(held)[c] \in Nat /\ now \in Nat
        /\ start_offset[c] \in Nat /\ total[c] \in Nat
    BY ElapseChannels DEF ClockInv
  <2>4. QED  BY <1>1, <2>1, <2>2, <2>3
<1>3. CASE ~(Frames(held)[c] > 0 /\ ~started[c])
  <2>1. start_offset'[c] = start_offset[c] /\ total'[c] = total[c] + Frames(held)[c]
    BY <1>3, ElapseChannels DEF ClockInv
  <2>2. Frames(held)[c] \in Nat /\ start_offset[c] \in Nat /\ total[c] \in Nat
    BY ElapseChannels DEF ClockInv
  <2>3. QED  BY <1>1, <1>3, <2>1, <2>2
<1>4. QED  BY <1>2, <1>3

(* Neither does it move the clock back, at the switch to two channels      *)
(* least of all.                                                           *)
LEMMA ElapseClockForward ==
  ASSUME ClockInv, NEW held \in SUBSET Sources, Elapse(held)
  PROVE  ~(Clock' < Clock)
<1> DEFINE g == End("german")  f == End("foreign")
<1>1. /\ g \in Nat /\ g' \in Nat /\ g <= g'
      /\ f \in Nat /\ f' \in Nat /\ f <= f'
      /\ Frames(held)["foreign"] > 0 /\ ~started["foreign"] => f' >= now
  BY ElapseEnds, SourcesAndChannels
<1>2. /\ Clock = IF dual THEN Most(g, f) ELSE all_total
      /\ Clock' = IF dual' THEN Most(g', f') ELSE all_total'
  BY DEF Clock, Most
<1>3. /\ all_total \in Nat /\ all_total' \in Nat /\ all_total <= all_total'
  BY ElapseSum DEF ClockInv
<1>4. /\ Most(g, f) \in {g, f} /\ Most(g', f') >= g' /\ Most(g', f') >= f'
      /\ Most(g', f') \in {g', f'}
  BY <1>1, LeastMost
<1>5. CASE dual
  <2>1. dual'
    BY <1>5, ElapseSum DEF ClockInv
  <2>2. Clock = Most(g, f) /\ Clock' = Most(g', f')
    BY <1>2, <1>5, <2>1
  <2> HIDE DEF g, f
  <2>3. QED  BY <1>1, <1>4, <2>2
<1>6. CASE ~dual /\ ~dual'
  BY <1>2, <1>3, <1>6
<1>7. CASE ~dual /\ dual'
  <2>1. Frames(held)["foreign"] > 0
    <3>1. dual' = (dual \/ Frames(held)["foreign"] > 0)
      BY ElapseSum DEF ClockInv
    <3>2. QED  BY <1>7, <3>1
  <2>2. ~started["foreign"]
    BY <1>7 DEF ClockInv, ForeignMeansDual
  <2>3. all_total + waiting["host"] <= now /\ waiting["host"] \in Nat /\ now \in Nat
    BY <1>7, ElapseSum DEF ClockInv, SumWithinTime, TypeOK
  <2>4. Clock = all_total /\ Clock' = Most(g', f')
    BY <1>2, <1>7
  <2> HIDE DEF g, f
  <2>5. QED  BY <1>1, <1>3, <1>4, <2>1, <2>2, <2>3, <2>4
<1>8. QED  BY <1>5, <1>6, <1>7

(* The clock goes back only when no live segment waits for it.             *)
THEOREM ClockBackIsIdle == Spec => ClockBackOnlyWhenIdle
<1>1. ClockInv /\ [Next]_vars => [Clock' < Clock => \A c \in Channels : live'[c] = None]_vars
  <2>1. SUFFICES ASSUME ClockInv, Next, Clock' < Clock
                 PROVE  \A c \in Channels : live'[c] = None
    OBVIOUS
  <2>2. ASSUME NEW held \in SUBSET Sources, Elapse(held)  PROVE FALSE
    BY <2>1, <2>2, ElapseClockForward
  <2>3. ASSUME NEW p \in Sources, ReleaseTimerFires(p)  PROVE \A c \in Channels : live'[c] = None
    BY <2>3 DEF ReleaseTimerFires, ForceFinalizeAll
  <2>4. CASE Pages \/ Job
    <3>1. UNCHANGED channel_vars
      BY <2>1, <2>4, OtherSteps DEF ClockInv
    <3>2. Clock' = Clock
      BY <3>1 DEF channel_vars, Clock, End, Most
    <3>3. Clock \in Nat
      BY <2>1, ClockType DEF ClockInv
    <3>4. QED  BY <2>1, <3>2, <3>3
  <2>5. QED  BY <2>1, <2>2, <2>3, <2>4 DEF Next, Timers
<1>2. Spec => []ClockInv
  BY ClockInit, ClockNext, PTL DEF Spec
<1>3. QED  BY <1>1, <1>2, PTL DEF Spec, ClockBackOnlyWhenIdle
-----------------------------------------------------------------------------
(* Anchors.                                                                *)
(*                                                                         *)
(* A channel runs ahead of the wall clock by what the pages that feed it   *)
(* bring in a unit of time beyond one frame, and by what their sockets can *)
(* hold back; by so much may it be anchored before its old end.            *)

\* The frames under way, of the host or of all viewers.
Pairs(w) == {f \in Viewers \X (1 .. MaxLag + 1) : f[2] <= w[f[1]]}
Held(c) == IF c = "german" THEN waiting["host"] ELSE Cardinality(Pairs(waiting))

DriftInv ==
  \A c \in Channels :
    /\ start_offset[c] + total[c] + Held(c) <= Feeders(c) * (now + MaxLag)
    /\ mark[c] <= Feeders(c) * (now + MaxLag)

LEMMA ViewersFinite ==
  /\ IsFiniteSet(Viewers) /\ Cardinality(Viewers) \in Nat
  /\ \A c \in Channels : Feeders(c) \in Nat
BY AudioAssumption, FS_CardinalityType DEF Feeders

LEMMA PairsFinite ==
  ASSUME NEW w
  PROVE  IsFiniteSet(Pairs(w)) /\ Cardinality(Pairs(w)) \in Nat
<1>1. 1 \in Int /\ MaxLag + 1 \in Int
  BY Parameters
<1>2. IsFiniteSet(Viewers \X (1 .. MaxLag + 1))
  BY <1>1, ViewersFinite, FS_Interval, FS_Product
<1>3. Pairs(w) \in SUBSET (Viewers \X (1 .. MaxLag + 1))
  BY DEF Pairs
<1>4. QED  BY <1>2, <1>3, FS_Subset, FS_CardinalityType

(* No page's socket has more than MaxLag frames.                           *)
LEMMA HeldBound ==
  ASSUME TypeOK, NEW c \in Channels
  PROVE  Held(c) \in Nat /\ Held(c) <= Feeders(c) * MaxLag
<1>1. \A p \in Sources : waiting[p] \in 0 .. MaxLag
  BY DEF TypeOK
<1>2. CASE c = "german"
  BY <1>1, <1>2, SourcesAndChannels, Parameters DEF Held, Feeders
<1>3. CASE c # "german"
  <2> DEFINE P == Viewers \X (1 .. MaxLag)
  <2>1. Pairs(waiting) \subseteq P
    BY <1>1, SourcesAndChannels, Parameters DEF Pairs
  <2>2. IsFiniteSet(1 .. MaxLag) /\ Cardinality(1 .. MaxLag) = MaxLag
    <3>1. 1 \in Int /\ MaxLag \in Int /\ MaxLag \in Nat  BY Parameters
    <3>2. QED  BY <3>1, FS_Interval
  <2>3. IsFiniteSet(P) /\ Cardinality(P) = Cardinality(Viewers) * MaxLag
    BY <2>2, ViewersFinite, FS_Product
  <2>4. Cardinality(Pairs(waiting)) <= Cardinality(P)
    <3> HIDE DEF P
    <3>1. QED  BY <2>1, <2>3, FS_Subset
  <2>5. QED  BY <1>3, <2>3, <2>4, PairsFinite DEF Held, Feeders
<1>4. QED  BY <1>2, <1>3

(* What the viewers have under way after a frame of time, and what has     *)
(* arrived, is one frame more for each of them at most.                    *)
LEMMA ViewersHeld ==
  ASSUME TypeOK, NEW held \in SUBSET Sources, Elapse(held)
  PROVE  TakenOf(Viewers \ held) + Cardinality(Pairs(waiting')) 
           <= Cardinality(Pairs(waiting)) + Cardinality(Viewers)
<1> DEFINE A == {f \in (Viewers \ held) \X (1 .. MaxLag + 1) : f[2] <= Taken(f[1])}
           B == Pairs(waiting')
           W == Pairs(waiting)
           M == {<<v, waiting[v] + 1>> : v \in Viewers}
<1>1. \A v \in Viewers : /\ waiting[v] \in Nat /\ Taken(v) \in Nat /\ Taken(v) <= waiting[v] + 1
                         /\ waiting'[v] = IF v \in held THEN Taken(v) ELSE 0
  BY TakenType, SourcesAndChannels DEF Elapse
<1>2. A \subseteq W \cup M
  <2>1. SUFFICES ASSUME NEW f \in A  PROVE f \in W \cup M
    OBVIOUS
  <2>2. /\ f[1] \in Viewers /\ f[2] \in 1 .. MaxLag + 1 /\ f[2] <= Taken(f[1])
        /\ f = <<f[1], f[2]>> /\ f \in Viewers \X (1 .. MaxLag + 1)
    BY <2>1
  <2>3. f[2] <= waiting[f[1]] \/ f[2] = waiting[f[1]] + 1
    BY <1>1, <2>2, Parameters
  <2>4. QED  BY <2>2, <2>3 DEF Pairs
<1>3. B \subseteq W \cup M
  <2>1. SUFFICES ASSUME NEW f \in B  PROVE f \in W \cup M
    OBVIOUS
  <2>2. /\ f[1] \in Viewers /\ f[2] \in 1 .. MaxLag + 1 /\ f[2] <= waiting'[f[1]]
        /\ f = <<f[1], f[2]>> /\ f \in Viewers \X (1 .. MaxLag + 1)
    BY <2>1 DEF Pairs
  <2>3. f[2] <= waiting[f[1]] \/ f[2] = waiting[f[1]] + 1
    BY <1>1, <2>2, Parameters
  <2>4. QED  BY <2>2, <2>3 DEF Pairs
<1>4. A \cap B = {}
  <2>1. SUFFICES ASSUME NEW f \in A, f \in B  PROVE FALSE
    OBVIOUS
  <2>2. f[1] \in Viewers \ held /\ f[2] \in 1 .. MaxLag + 1 /\ f[2] <= waiting'[f[1]]
    BY <2>1 DEF Pairs
  <2>3. QED  BY <1>1, <2>2, Parameters
<1>5. IsFiniteSet(B) /\ IsFiniteSet(W) /\ Cardinality(B) \in Nat /\ Cardinality(W) \in Nat
  BY PairsFinite
<1>6. IsFiniteSet(M) /\ Cardinality(M) <= Cardinality(Viewers) /\ Cardinality(M) \in Nat
  <2> DEFINE g == [v \in Viewers |-> <<v, waiting[v] + 1>>]
  <2>1. g \in Surjection(Viewers, M)
    BY DEF Surjection
  <2> HIDE DEF g, M
  <2>2. QED  BY <2>1, ViewersFinite, FS_Surjection, FS_CardinalityType
<1>7. IsFiniteSet(W \cup M) /\ Cardinality(W \cup M) <= Cardinality(W) + Cardinality(M)
  <2>1. IsFiniteSet(W \cap M) /\ Cardinality(W \cap M) \in Nat
    <3> HIDE DEF W, M
    <3>1. W \cap M \in SUBSET W  OBVIOUS
    <3>2. QED  BY <1>5, <3>1, FS_Subset, FS_CardinalityType
  <2> HIDE DEF W, M
  <2>2. /\ IsFiniteSet(W \cup M)
        /\ Cardinality(W \cup M) = Cardinality(W) + Cardinality(M) - Cardinality(W \cap M)
    BY <1>5, <1>6, FS_Union
  <2>3. QED  BY <1>5, <1>6, <2>1, <2>2
<1>8. IsFiniteSet(A) /\ Cardinality(A) \in Nat
  <2> HIDE DEF A, W, M
  <2>1. QED  BY <1>2, <1>7, FS_Subset, FS_CardinalityType
<1>9. Cardinality(A) + Cardinality(B) <= Cardinality(W \cup M)
  <2> HIDE DEF A, B, W, M
  <2>1. Cardinality(A \cup B) = Cardinality(A) + Cardinality(B) - Cardinality(A \cap B)
    BY <1>5, <1>8, FS_Union
  <2>2. Cardinality(A \cap B) = 0
    BY <1>4, FS_EmptySet
  <2>3. A \cup B \in SUBSET (W \cup M)
    BY <1>2, <1>3
  <2>4. Cardinality(A \cup B) <= Cardinality(W \cup M)
    BY <1>7, <2>3, FS_Subset
  <2>5. QED  BY <1>5, <1>8, <2>1, <2>2, <2>4
<1>10. TakenOf(Viewers \ held) = Cardinality(A)
  BY DEF TakenOf
<1> HIDE DEF A, B, W, M
<1>11. Cardinality(A) + Cardinality(B) <= Cardinality(W) + Cardinality(Viewers)
  <2>1. IsFiniteSet(W \cup M) /\ Cardinality(W \cup M) \in Nat
    BY <1>7, FS_CardinalityType
  <2>2. QED  BY <1>5, <1>6, <1>7, <1>8, <1>9, <2>1, ViewersFinite
<1>12. QED  BY <1>10, <1>11 DEF B, W

LEMMA ElapseHeld ==
  ASSUME TypeOK, NEW held \in SUBSET Sources, Elapse(held), NEW c \in Channels
  PROVE  /\ Frames(held)[c] + Held(c)' <= Held(c) + Feeders(c)
         /\ Held(c)' \in Nat
         /\ Frames(held)[c] > 0 => Feeders(c) >= 1
<1>1. CASE c = "german"
  BY <1>1, ElapseSum DEF Held, Feeders
<1>2. CASE c # "german"
  <2>1. Frames(held)[c] = TakenOf(Viewers \ held) /\ Held(c)' = Cardinality(Pairs(waiting'))
    BY <1>2, SourcesAndChannels DEF Frames, Held
  <2>2. Cardinality(Pairs(waiting')) \in Nat
    BY PairsFinite
  <2>3. Frames(held)[c] > 0 => Cardinality(Viewers) >= 1
    <3>1. ASSUME Frames(held)[c] > 0  PROVE Viewers # {}
      <4>1. PICK p \in Sources : ChannelOf(p) = c
        BY <3>1, FramesFrom
      <4>2. QED  BY <1>2, <4>1, SourcesAndChannels DEF Sources
    <3>2. Viewers # {} => Cardinality(Viewers) # 0
      BY ViewersFinite, FS_EmptySet
    <3>3. QED  BY <3>1, <3>2, ViewersFinite
  <2>4. QED  BY <1>2, <2>1, <2>2, <2>3, ViewersHeld DEF Held, Feeders
<1>3. QED  BY <1>1, <1>2

LEMMA Products ==
  ASSUME NEW k \in Nat, NEW n \in Nat, NEW m \in Nat
  PROVE  /\ k * (n + m) \in Nat /\ k * m \in Nat
         /\ k * (n + 1 + m) = k * (n + m) + k
         /\ k >= 1 => n + k * m <= k * (n + m)
<1>1. k * (n + m) = k * n + k * m /\ k * n \in Nat /\ k * m \in Nat
  OBVIOUS
<1>2. k * (n + 1 + m) = k * n + k + k * m
  OBVIOUS
<1>3. k >= 1 => n <= k * n
  OBVIOUS
<1>4. QED  BY <1>1, <1>2, <1>3

LEMMA DriftElapse ==
  ASSUME ClockInv, DriftInv, NEW held \in SUBSET Sources, Elapse(held)
  PROVE  DriftInv'
<1>1. SUFFICES ASSUME NEW c \in Channels
               PROVE  /\ start_offset'[c] + total'[c] + Held(c)' <= Feeders(c) * (now' + MaxLag)
                      /\ mark'[c] <= Feeders(c) * (now' + MaxLag)
  BY DEF DriftInv, Feeders
<1> DEFINE n == Frames(held)[c]
           k == Feeders(c)
<1>2. /\ n \in Nat /\ now' = now + 1 /\ now \in Nat
      /\ start_offset'[c] = IF n > 0 /\ ~started[c] THEN now ELSE start_offset[c]
      /\ total'[c] = total[c] + n
      /\ start_offset[c] \in Nat /\ total[c] \in Nat
  BY ElapseChannels DEF ClockInv
<1>3. n + Held(c)' <= Held(c) + k /\ Held(c)' \in Nat /\ (n > 0 => k >= 1)
  BY ElapseHeld DEF ClockInv
<1>4. Held(c) \in Nat /\ Held(c) <= k * MaxLag /\ k \in Nat /\ MaxLag \in Nat
  BY HeldBound, ViewersFinite, Parameters DEF ClockInv
<1>5. /\ k * (now + MaxLag) \in Nat /\ k * MaxLag \in Nat
      /\ k * (now' + MaxLag) = k * (now + MaxLag) + k
      /\ k >= 1 => now + k * MaxLag <= k * (now + MaxLag)
  BY <1>2, <1>4, Products
<1>6. ~started[c] => total[c] = 0
  BY DEF ClockInv, UnstartedIsEmpty
<1>7. mark'[c] = mark[c] /\ mark[c] \in Nat
  BY DEF Elapse, ClockInv, TypeOK
<1>8. start_offset[c] + total[c] + Held(c) <= k * (now + MaxLag) /\ mark[c] <= k * (now + MaxLag)
  BY DEF DriftInv
<1> HIDE DEF n, k
<1>9. start_offset'[c] + total'[c] + Held(c)' <= k * (now' + MaxLag)
  <2>1. CASE n > 0 /\ ~started[c]
    BY <1>2, <1>3, <1>4, <1>5, <1>6, <2>1
  <2>2. CASE ~(n > 0 /\ ~started[c])
    BY <1>2, <1>3, <1>4, <1>5, <1>8, <2>2
  <2>3. QED  BY <2>1, <2>2
<1>10. mark'[c] <= k * (now' + MaxLag)
  BY <1>4, <1>5, <1>7, <1>8
<1>11. QED  BY <1>9, <1>10 DEF k

LEMMA DriftTimer ==
  ASSUME ClockInv, DriftInv, NEW q \in Sources, ReleaseTimerFires(q)
  PROVE  DriftInv'
<1>1. SUFFICES ASSUME NEW c \in Channels
               PROVE  /\ start_offset'[c] + total'[c] + Held(c)' <= Feeders(c) * (now' + MaxLag)
                      /\ mark'[c] <= Feeders(c) * (now' + MaxLag)
  BY DEF DriftInv, Feeders
<1>2. PICK d \in Channels : Reset(d)
  BY SourcesAndChannels DEF ReleaseTimerFires
<1>3. now' = now /\ Held(c)' = Held(c) /\ start_offset' = start_offset
  BY <1>2 DEF ReleaseTimerFires, Reset, Held
<1>4. /\ total'[c] = IF c = d THEN 0 ELSE total[c]
      /\ mark'[c] = IF c = d THEN start_offset[c] + total[c] ELSE mark[c]
  BY <1>2 DEF Reset, End, ClockInv, TypeOK
<1> DEFINE b == Feeders(c) * (now + MaxLag)
<1>5. /\ start_offset[c] \in Nat /\ total[c] \in Nat /\ Held(c) \in Nat /\ b \in Nat
      /\ mark[c] \in Nat
  BY HeldBound, ViewersFinite, Parameters, Products DEF ClockInv, TypeOK
<1>6. start_offset[c] + total[c] + Held(c) <= b /\ mark[c] <= b
  BY DEF DriftInv
<1>7. Feeders(c) * (now' + MaxLag) = b
  BY <1>3
<1> HIDE DEF b
<1>8. QED  BY <1>3, <1>4, <1>5, <1>6, <1>7

LEMMA DriftInit == Init => DriftInv
<1> SUFFICES ASSUME Init, NEW c \in Channels
             PROVE  /\ start_offset[c] + total[c] + Held(c) <= Feeders(c) * (now + MaxLag)
                    /\ mark[c] <= Feeders(c) * (now + MaxLag)
  BY DEF DriftInv
<1>1. Held(c) \in Nat /\ Held(c) <= Feeders(c) * MaxLag
  BY TypeInit, HeldBound
<1>2. now = 0 /\ 0 + MaxLag = MaxLag /\ start_offset[c] = 0 /\ total[c] = 0 /\ mark[c] = 0
  BY Parameters DEF Init
<1>3. Feeders(c) * MaxLag \in Nat
  BY ViewersFinite, Parameters, Products
<1>4. QED  BY <1>1, <1>2, <1>3

LEMMA DriftInvariant == Spec => [](ClockInv /\ DriftInv)
<1>1. Init => ClockInv /\ DriftInv
  BY ClockInit, DriftInit
<1>2. ClockInv /\ DriftInv /\ [Next]_vars => (ClockInv /\ DriftInv)'
  <2> SUFFICES ASSUME ClockInv, DriftInv, [Next]_vars  PROVE DriftInv'
    BY ClockNext
  <2>1. CASE Pages \/ Job \/ UNCHANGED vars
    BY <2>1, OtherSteps DEF channel_vars, ClockInv, DriftInv, Held, Feeders
  <2>2. QED  BY <2>1, DriftElapse, DriftTimer DEF Next, Timers
<1>3. QED  BY <1>1, <1>2, PTL DEF Spec

\* Only a frame of audio starts a channel, and it is anchored now.
LEMMA StartIsNow ==
  ASSUME ClockInv, [Next]_vars, NEW c \in Channels, started'[c], ~started[c]
  PROVE  /\ start_offset'[c] = now
         /\ \E held \in SUBSET Sources : Elapse(held) /\ Frames(held)[c] > 0
<1>1. ASSUME NEW held \in SUBSET Sources, Elapse(held)
      PROVE  start_offset'[c] = now /\ Frames(held)[c] > 0
  BY <1>1, ElapseChannels DEF ClockInv
<1>2. ASSUME NEW p \in Sources, ReleaseTimerFires(p)  PROVE FALSE
  <2>1. PICK d \in Channels : Reset(d)
    BY <1>2, SourcesAndChannels DEF ReleaseTimerFires
  <2>2. started'[c] = IF c = d THEN FALSE ELSE started[c]
    BY <2>1 DEF Reset, ClockInv, TypeOK
  <2>3. QED  BY <2>2
<1>3. CASE Pages \/ Job \/ UNCHANGED vars
  BY <1>3, OtherSteps DEF channel_vars, ClockInv
<1>4. QED  BY <1>1, <1>2, <1>3 DEF Next, Timers

(* A channel that starts again is anchored before its old end by no more   *)
(* than its pages can bring in beyond the wall clock, for any number of    *)
(* viewers and any delay; the host's by no more than its socket can hold.  *)
THEOREM AnchorDriftHolds == Spec => AnchorDriftBounded
<1>1. ClockInv /\ DriftInv /\ [Next]_vars =>
        [\A c \in Channels :
           started'[c] /\ ~started[c] => mark[c] <= Feeders(c) * (start_offset'[c] + MaxLag)]_vars
  BY StartIsNow DEF DriftInv
<1>2. QED  BY <1>1, DriftInvariant, PTL DEF Spec, AnchorDriftBounded
=============================================================================
