# LinguaGap: a verification project

LinguaGap transcribes and translates a conversation between a German-speaking
host and a foreign-speaking guest. The host's page streams microphone audio over
a WebSocket; a guest opens the session's link on a phone (a *viewer*), reads along
and may speak as well. The server keeps 8-second windows of each channel, runs
Whisper over them twice a second, folds the hypotheses into a cumulative
transcript, and translates every segment once it is final.

The modules here model the server's core (the transcript, the tasks of a session,
the registry that connects hosts and viewers, the way of the audio from the
microphones to the transcript) and the pages in the browser: the host's, the
guest's, the conversation both show, the consent they exchange, the page that
translates texts, and the panel that edits accounts. Paths below are relative to
the repository.

## 1. Inventory

| Component | Source | State | Operations | Properties that make it correct |
|---|---|---|---|---|
| Segment tracker | `src/app/streaming_policy.py` | live and final segments, next id | `update_from_hypothesis`, `force_finalize_all` | calls in turn: ids unique, every final segment returned once and frozen, a re-detection opens no second segment, speakers do not mix; calls at once: no thread returns a segment twice, and only calls that meet lose one |
| Session handler | `src/app/streaming/handler.py` | `_running`, translation queue, ASR and MT tasks, release timer | config, audio, PTT, stop, disconnect; ASR loop; MT loop | every final segment is queued once and handled; stop drains and ends; after the end only a forgotten timer acts |
| ASR pipeline | `src/app/streaming/asr.py` | none of its own (runs in an executor thread on the session) | German-only and dual-channel run | what it finds becomes final in time; a language it settles may overtake a choice |
| Channel buffers and clock | `src/app/streaming/session.py` | two channels, sample counters, offsets, foreign language | add audio, trim, reset, window, `get_current_time` | the clock goes back only when nothing waits for it; anchors go back no further than the feeders explain; what is live has a microphone or a timer that finalizes it |
| Viewer endpoint | `src/app/streaming/viewer.py` | cached session, release timer per socket | init, audio config, audio, consent, speaking state | release finalizes and queues; init matches the session; a hint goes to the session it is for |
| Session registry | `src/app/session_registry.py` | token -> entry (session, host socket, viewers, consent) | reserve, activate, get, unregister, add/remove viewer | the token maps to the live session |
| Broadcast | `src/app/streaming/broadcast.py` | none | send to every viewer, drop dead ones | every connected viewer is sent to |
| Serialization | `src/app/streaming/serialize.py` | none | segment to JSON, role, translation pair | a segment is translated into the other party's language |
| Host page | `static/js/host.js` | recording, stopping, cleared, socket, stream, watchdog, switches, space bar | start, stop, clear, toggles, keys, messages | keeps its last recording only; releases the microphone; the server knows the switches; finalizing ends |
| Viewer page | `static/js/viewer.js` | connection, session, language, microphone | messages, reconnect, language, PTT | language agreed with the server; no stream lost; comes back after a loss |
| What the pages show | `host.js`, `viewer.js` | copies of the segments, bubbles, waiting and failed translations, speech queue | snapshots, translations, failures, TTS | bubbles match copies, copies match the server, each translation spoken once |
| Transcript export | `static/js/transcript_export.js` | none | format | every final segment under its speaker |
| Transcript consent | `host.js`, `viewer.js`, `handler.py`, `viewer.py` | switch, flags of the entry, banner | request, answer | nothing counts as consent but a guest's yes; who has to know knows |
| Translate page | `static/js/translate.js` | timer, request number, result, error | type, choose, clear, answers | the result fits the text |
| Accounts | `auth.py`, `routes/admin.py`, `static/js/admin.js` | list in memory, JSON file, table | create, update, delete, list | memory, file and table agree |
| Whisper backend | `src/app/backends/asr/whisper.py` | model | transcribe, filter, split | text filters keep speech |
| Translation, summary backends | `src/app/backends/` | models | translate, summarize | - |
| TTS | `src/app/tts.py` | voice cache | synthesize | - |
| Routes, pages, metrics | `src/app/routes/`, `src/app/main.py` | counters | HTTP | - |

Interaction. The event loop runs, per recording, the message loop of the handler,
the ASR loop and the MT loop, plus one loop per viewer and the release timers. They
share the session object (tracker, queue, channels) and the registry entry without
locks; what runs between two `await`s is atomic, except that the ASR job and the
translations run in a two-thread executor beside the event loop. Viewers are
reached through a `WeakSet` on the registry entry.

In the browser every page is one thread, but a handler is suspended at each
`await` (permission for the microphone, loading of the worklet, responses), and the
handlers of old sockets, timers and requests go on to use the page's variables.

Hard behaviours. Cancelling a task whose executor job cannot be cancelled; sending
before queueing; iterating over a set across suspensions; a cleanup that can fail
half-way; a token that outlives its recordings; release timers that fire into an
ended session; sliding windows that re-detect the same words with drifting times;
snapshots that overtake single translations; a button pressed again while its
first press is suspended; answers that arrive after their question was withdrawn.
`PROJECT.json` lists them as hazards, each at its line.

## 2. Plan

Done:

1. `SegmentTracker` against `TranscriptLedger`, with proofs in `SegmentTrackerProofs`.
2. `StreamingPipeline` against `SegmentLifecycle` and, again, `TranscriptLedger`.
3. `SessionRegistry`.
4. `AudioPath`, with proofs in `AudioPathProofs`: channels and clock, push-to-talk,
   release timers, the ASR job beside the event loop.
5. `HostPage` and `ViewerPage`: the two pages as state machines against their socket,
   their microphone and their buttons.
6. `Conversation`: the server's three senders composed with both pages, the speech of
   the guest's page and the exported protocol.
7. `TranscriptConsent`: three parties and their messages in flight.
8. `TranslatePage` and `Accounts`.
9. Proofs about the remaining modules (`SessionRegistryProofs`, `HostPageProofs`,
   `ViewerPageProofs`, `ConversationProofs`, `SmallModulesProofs`), the refinement of
   `SegmentLifecycle` by `StreamingPipeline` and `Conversation`, and re-detection in `SegmentTrackerProofs`.
10. `TrackerThreads`: the steps inside the two tracker calls, taken by the executor
    thread and by the event loop at once (`handler.py:286`, `viewer.py:37` against
    `asr.py:286`).
11. The writers of the foreign language, and the session that a viewer's loop has
    cached (`viewer.py:122`), in `ViewerPage`.

Next, in this order:

12. `WhisperFilter`: the repetition and split rules as operators, checked against
    reference definitions over bounded inputs.
13. Broadcasts by token across overlapping recordings (`handler.py:365`): what the next
    recording's viewers are sent of the previous one, in `SessionRegistry` with the
    messages' contents.
14. An invariant of `TrackerThreads` that proves `FinalsOK` for any number of calls.

## 3. Modules

### TranscriptLedger (abstract)
What a transcript promises: utterances are opened under the next number, revised
while live, settled once, never lost or rewritten.

### SegmentTracker, MCSegmentTracker
`streaming_policy.py`, operation by operation. `update_from_hypothesis` is
`UpdateFromHypothesis` (the call), one `IngestHypothesisSegment` per hypothesis
and `FinalizeStale` (end and return); `force_finalize_all` is `ForceFinalizeAll`.
A hypothesis is dropped (`DropHypothesis`), rewrites a segment (`UpdateExisting`),
is appended to one (`MergeIntoExisting`) or opens one (`CreateNew`), in the code's
order of tests.

Abstractions. A text is a sequence of words with lengths and lower-case forms;
`len()` ratios are computed from the lengths, substrings are word-aligned (the
code's `in` and `startswith` could also match inside a word). Times are tenths of a
second. The lists are kept in id order by the code, so a set in id order stands
for each. `PrefixScope` is the code's 10. `last_updated` and `stable_since` are
left out because nothing reads them. The assumption `ChannelAssumption` is what
`_transcribe_channel` (`asr.py:78-88`) guarantees: each channel has its own id and
role.

A call is taken to run alone: `ForceFinalizeAll` needs the tracker idle. In the program
it is called on the event loop (`handler.py:286`, `handler.py:334`, `viewer.py:37`) while
the executor thread may be in `update_from_hypothesis`; `TrackerThreads` is about that.

### TrackerThreads
The two threads in the tracker, without a lock between them. `FindMatch`,
`UpdateExisting`, `CreateNew` are `_ingest_hypothesis_segment` from its search to its
effect; `StaleBegins` to `ReplaceList` the loops of `_finalize_stale` (`"stale"`) and
`force_finalize_all` (`"force"`), with the test of `final` apart from what follows it;
`SortBegins`, `SortEnds` the sort of `finalized_segments`. Both threads hold on to list
*objects*: `lists` has each that `cumulative_segments` was ever bound to, and a thread its
position in one. CPython empties a list while its sort keys are computed and raises
`ValueError` when something was appended meanwhile, which `untouched` notes; the
one append meanwhile is lost then (`cut`). A thread may be interrupted between any two of
these steps. Texts and times are choices: a segment is its id and the number of times it
was written.

What the code still promises is `FinalsOK`: one thread returns no segment twice (both
together may return it twice), what became final is returned and kept but for a sort that
raised, and a hypothesis that found a segment before it was final may rewrite it once.
`OnlyMeetingUpdatesLose`: a segment that is neither live nor final any more was opened by
an update that another call met, so an update that ran alone loses nothing.
`CallAloneClearsFinal`: a final segment left on the live list goes with the next
call that runs alone. The docstring of `update_from_hypothesis` says "segments are never
lost" (`streaming_policy.py:500`); for calls that meet, that is not so.

### StreamingPipeline
One recording between config and disconnect. An action is what a coroutine does
between two suspension points:

| Coroutine | Program counter | Actions |
|---|---|---|
| `_asr_loop`, `_asr_tick` | `asr` | `AsrTick`, `AsrTickResumes`, `AsrTickEnqueues`, `AsrTickFails` |
| executor job | `asr = "submitted"/"running"`, `orphan` | `AsrJobStarts`, `ThreadDetects`, `ThreadReturns` |
| `_mt_loop` | `mt` | `MtTake`, `MtIdles`, `MtTranslated`, `MtSent` |
| message loop, stop, `_cleanup` | `main` | `RequestSummary` ... `Closed`, `Disconnected`, `Cleanup*` |
| release timers | `off` | `HostSpeakingState`, `ViewerSpeakingState`, `ViewerLeaves`, `*TimerFires` |

A segment is its id and a tracker call is atomic here; `ImplementsLedger` ties both
modules to the same contract: `SegmentTracker` implements the ledger, and the
tracker steps of the pipeline are ledger steps. `ResolvesPair` says whether
`_resolve_translation_pair` finds a pair; languages without an entry in
`LANG_INFO` count as unknown. `lost`, `enqueued` and `processed` are history
variables. `off` has the parties whose last release timer a press, or for the host
`_cleanup`, can cancel; `orphans` counts the timers of which a second release has
overwritten the task (`handler.py:254`, `viewer.py:187`): nobody can cancel them, and the
host's still finalize and queue after the end (`OnlyOrphansAfterEnd`).

### SegmentLifecycle (abstract)
The stages of one segment: live, final, queued once, handled once, or dropped.
`StreamingPipeline` implements it through `Stage`, which maps a segment that
occurs twice to no stage at all, and so does `Conversation`, from the state that the
pages see, as part of `OnceAndInTurn`.

### SessionRegistry
One token over several recordings. A registry call takes its lock without
suspending and is atomic. A broadcast is `CastStarts`, `CastGoesOn` and then
`CastCompletes` or `CastRaises`: CPython raises `RuntimeError: Set changed size
during iteration` when the size of the `WeakSet` differs from the size at the
start, which `Changed` says. Who catches it differs: the ASR and MT tasks do
(`TaskBroadcastEnds`), the message loop does not and the session is cleaned up
(`LoopBroadcastRaises`), and inside `_cleanup` it leaves the entry behind
(`CleanupRaises`). `Overlap` says whether a recording may start while one of the
same token is still busy. The page allows it: its token is constant and
its start button is enabled as soon as stop is pressed (`host.js:1164-1168`).
`status` is what init and `session_active` have told a viewer's page. What else a
broadcast carries is left out: with a restart during a stop the old recording's final
segments go to the viewers of the new one (`handler.py:365`), and no property here is
about that.

### AudioPath, MCAudioPath
One recording's audio in two channels, the host's (`german`) and the one all
viewers share (`foreign`).

| Code | Actions |
|---|---|
| audio messages, `add_german_audio`, `add_foreign_audio` | `Elapse` with `AddAudio` |
| keys and buttons of the pages, `speaking_state` messages | `Press`, `Release`, `ToggleMute`, `PttOn`, `PttOff` |
| `_delayed_speaking_broadcast`, `_delayed_viewer_speaking_off` | `ReleaseTimerFires` with `ForceFinalizeAll`, `Reset` |
| `run_asr_german_channel`, `run_asr_dual_channel` | `JobSubmitted`, `JobReadsClock`, `JobJoinsAudio`, `JobPlacesWindow`, `JobReturnsEarly`, `JobEnds` |

Time and audio are both counted in frames, so `start_offset`, `total` and `now` can
be compared as the code's seconds are. The job runs in a thread: between any two
of its steps audio may arrive or a timer may empty the channel. `off` is the
timer a page's handler still knows, `orphans` are those whose task was overwritten
by a second release and which nobody can cancel. Of the transcript the module
keeps the end of the youngest live segment of each channel; crosstalk suppression,
silence and the bleed filter are a channel in which nothing is found. `mark`,
`silent`, `stale` and `late` are history variables. `ready` is a viewer page's
`micInitialized`.

Abstractions: a key event is sent when no frame is under way before it (a socket
keeps its order); timers fire on time; the broadcast of the mode reaches the
viewers' pages at once; the job reads offset and counter of a channel in one step;
one recording.

### HostPage
The page over several recordings. `startRecording` is `StartClicked`, `MicGranted` and
`WorkletLoaded`, one action for each stretch between two awaits, or `StartFails`.
The socket's handlers are `SocketOpens`, `ConfigAck`, `SegmentsArrive`, `ConsentArrives`,
`SocketCloses`; the buttons `StopClicked`, `ClearClicked`, `ToggleTranscript`,
`TogglePtt`, `MuteClicked`; the keys `SpaceDown`, `SpaceUp`; the timer `WatchdogFires`.
All of them read and write the page's one `ws`, `mediaStream` and `stopWatchdogTimer`,
whichever recording they belong to, and that is what makes the page hard.
`server` is what the server has been told of each recording. `overlap` records that a
recording began before its predecessor's handlers were done; `OnlyLastRecording`,
`MicReleased` and `ServerKnowsToggles` are claimed without it only, because the code
gives no such promise with it: a socket that closes late sets the new `ws` to null.
`shown.from` is the recording of `allSegments`, which the download uses, `shown.bubbles` that
of the bubbles: a start empties the one and leaves the other on the page until the first
snapshot.

### ViewerPage, MCViewerPage
The guest's page: `SocketOpens`, `InitArrives`, `SocketCloses`, `Reconnect`; the host's
messages `HostStarts`, `HostTogglesPtt`, `SegmentsArrive`, `HostEnds`; the language by
dropdown, popup, earlier visit or recognition; `startMicrophone` in three steps and
the buttons. The host's session and the server are one actor. `_maybe_lock_foreign_lang`
tests in the executor thread (`DetectionBegins`) and sets later (`LanguageDetected`);
another guest may choose a language, too (`OtherGuestChooses`). `loop` is the guest's loop
on the server: whether the entry lists its socket, and the session it has cached, which
takes the guest's hints (`Hint`) even when a later recording runs. `LanguageOK` names both
as its exceptions, `overruled` and an `"old"` session. `torn` and `missed`
name the situations in which the page loses a stream or leaves the microphone open:
a call of `startMicrophone` met another one, or a stop, while suspended (`torn`);
push-to-talk was switched on with the microphone open, or the button was released
before the first press had set the microphone up (`missed`). Both happen in the
code; the invariants say that nothing else leads there.

### Conversation, MCConversation
One recording as host and guest see it. The ASR loop sends snapshots (`AsrTick` to the
host, `AsrTickEnds` to the guest and into the queue), the MT loop single results
(`MtTakes`, `MtResult`, `MtSent`), a release timer a snapshot of what it has made final
(`Released` to the host, `ReleaseSent` to the guest), and the stop sequence one last
snapshot, made before its broadcast is awaited (`FinalSnapshot` to the guest, `Closed`,
as it is, to the host). A page handles what it is sent in the same step:
`HostSegments`, `HostTranslation`, `HostFailure`, `GuestSegments`, `GuestTranslation`,
`GuestFailure`, `GuestConnects` are the handlers of the two pages, `Enqueue`,
`NextSpoken`, `SpeechFetched`, `SpeechAdvances` the speech queue, `Row` a row of the
exported protocol. `mail` has the snapshots that one page only has, `cast` is
the translation that the host has and the guest does not. `stale` says that the guest has
got a release's snapshot that something newer had overtaken: nothing hashes those, so only
the next change corrects the page. `rushed` says that the stop went on although
translations were under way (the join timed out): the host's copy, from which the protocol is
exported, may lack them. `Enqueue` and
`EnqueueAgain` append what a snapshot brings in id order, which `InOrder` gives as the set
of the one ascending list of its segments. A text is its origin; a bubble holds the spoken text, its
translation, dots or a failure. What is heard wrongly is a choice of `Init`
(`heard`). `Stage` maps a segment to its stage in `SegmentLifecycle`: final and without a
job it is still to be queued while the recording lasts, and dropped afterwards.
A page handles what it is sent when it is sent; a tick whose thread still runs at the stop
is `StreamingPipeline`'s.

### TranscriptConsent
Host page, server and guests with their sockets as queues. A guest that drops loses
what is on its way, and what it answers while it is away is lost (`viewer.js:879`), so
no promise is made that a yes arrives. A request has a number, which the program does not
have, so that
`ConsentIsCurrent` can say which request a yes was given to. The end of a recording is a
message to the host's page (`"bye"`); what the page has sent to the old socket by then is
lost with it.

### TranslatePage
`translate.js` with its timer and its requests, each with two waits. An abort ends a
wait in the microtasks that follow, so it is part of the step that aborts.

### Accounts
Memory, file and the panel's requests, which overlap because no button is disabled.
A write fails and leaves the file as it was or broken; a restart loads it. `disturbed`
says that a request failed or met another one, `unsaved` that the last write
failed, `renamed` that an edit changed an address, which the code does not compare
with those of other accounts. `Selected` is the list without an account, in the order of
the old one.

### MCSideBySide
`Accounts`, `TranslatePage`, `TranscriptConsent` and `TrackerThreads` share no state;
`MCSideBySide` has all four and lets one of them move, chosen at the start, so that one run
checks each by itself. Their assumptions are definitions in the modules and assumed here.

### The proof modules
`SegmentTrackerProofs`, `StreamingPipelineProofs`, `AudioPathProofs`,
`SessionRegistryProofs`, `HostPageProofs`, `ViewerPageProofs` and `ConversationProofs`
extend the module they are about. `SmallModulesProofs` extends `Accounts` and
instantiates `TranslatePage` and `TranscriptConsent`. Section 5 says what they show.

## 4. Runs

| Run | Result | Question | Bounds |
|---|---|---|---|
| tracker | passes | ids, finalization, ownership of text, re-detection, refinement of the ledger | 4 calls from 14 windows over 10 words, 3 times; enough for detect, re-detect or merge, finalize, re-detect |
| pipeline | passes | queue accounting, account of finals, drain, what acts after the end, both refinements; does stop always end; if the models return, do the loops end, is the queue served? | 2 segments: one in hand, one queued; one foreign language; one overwritten timer for each party; the proofs cover any number |
| registry | passes | registry in sync when recordings follow each other? does a waiting viewer learn of the start? | 2 recordings, 2 viewers: the least for a set to change under an iteration, and to change back |
| overlapping | passes | whose is the token when recordings overlap, and how does the registry fall out of step? | 3 recordings: one that starts while two are ending; 1 viewer |
| restart_during_stop | violated | in sync even with overlapping recordings? | 2 recordings |
| audio | passes | does the sum of samples stay behind the host's channel, is a live segment attended by a microphone or a timer, does the clock go back only when idle, how far do anchors go back? | 2 viewers, sockets that hold back a frame, 4 frames of time: speak, release, reset, speak again; a job that starts at 3 and takes as long as it likes |
| anchors | violated | are anchors ascending? | 2 viewers, sockets without delay, 5 frames |
| host_page | passes | does a cleared page stay empty, does the page keep its last recording only and draw what it keeps, is the microphone given back and muted as push-to-talk says, does the server know the switches, does finalizing end? | 2 recordings, so that handlers of the first meet the second |
| viewer_page | passes | do page and server agree on the language, is no stream lost, is the microphone open only while held, does the page come back? | two instances (`focus`): 2 languages with 1 call of `startMicrophone`; 2 calls with one language |
| conversation | passes | do bubbles match copies, do the pages agree with the server, is the protocol right, is each segment queued, translated and spoken once and in turn, does it arrive? | 2 segments, the second said by either party; two instances (`focus`): with speech, and with release timers |
| stale_consent | violated | is the consent given to the current request? | 1 guest, 2 requests, 2 recordings, 2 messages waiting |
| side_by_side | passes | accounts: is memory the file, no address created twice, does the table fit? translation: is one call under way at most, does the result fit, does the panel settle? consent: is it a guest's, do both sides know, is every guest asked? tracker threads: is nothing returned twice by one thread, what is lost, what is cleared? | 3 addresses and 2 overlapping operations; 2 texts, 2 languages, 5 edits; 1 guest, 2 requests, 2 recordings, 2 messages waiting; 2 segments, 2 updates of up to 2 hypotheses, 2 calls of the event loop |

Deadlock is checked in host_page, viewer_page and conversation, whose pages can always
go on. It is off elsewhere: sessions end, the tracker's calls are bounded by
`MaxCalls`, the wall clock of `AudioPath` by `MaxNow`, requests, recordings, edits and
operations by the constants named in the modules.

The properties of a run join what belongs together: `IInv` of the tracker is its
type with the two facts about ids, `QueueOK`, `TokenOK`, `ClockOK`, `ShownOK`,
`LanguageOK`, `BubblesOK`, `ConsentOK`, `ResultOK`, `FinalsOK` and `AdminOK` begin with the type
invariant of their module, and each part has its own definition and comment.

Bounds of `AudioPath`: `acted` admits one page event in each frame of time;
`JobTimes` says when jobs start; `Stability` is 1, `ReleaseDelay` 2, the window 3 of a buffer of 4 frames, so that
windows are cut, buffers trimmed, and timers of two releases overlap.

The violated runs show where code and comments disagree; `PROJECT.json` quotes them:
two viewers bring more audio into their channel than time passes, so that after a reset it is
anchored before its old end; restarting during a stop unregisters the new session; a yes that is in flight while
the host switches its request off and on counts for the new request, which the guest
has not seen.

Other behaviour of the code that the models contain and that a reader might not
expect: a re-detection can overwrite merged text; segments that the executor
finalizes while stop is pressed, or in a tick whose broadcast a coming or going viewer
interrupts, are never translated (`lost`); a second release before the next press
leaves a timer that cuts into the new utterance, or acts after the end (`orphans`); two
calls of the tracker that meet may lose a segment, return it twice or rewrite a final
one (`TrackerThreads`); a page without a session is told to wait, whatever it knew before
(`ComesBack`); a job that reads its
window before a release and ends after it leaves a segment live with nothing to
finalize it (`late`); until the first viewer speaks, every second the host is
muted delays finalization by a second; the watchdog of a stop closes the socket of the
next recording if that begins too soon; the mark of a failed translation on the
guest's page goes with the next snapshot; the guest's page can hold a hot microphone
in push-to-talk (`missed`); a translation that was asked for before the text was
cleared appears after it; an account can be given the address of another.

`RedetectionOpensNothing` is claimed for windows in which a detection with words takes at
least 0.5 s, the overlap a merge may have; those of the run do, and section 5 shows what
happens otherwise.

Fairness. `EventLoopFairness` gives every coroutine its turn: asyncio schedules
whatever is ready, timeouts fire, and a send completes or raises because the
server pings a silent peer. It also assumes that a summary returns.
`ExecutorFairness` says that Whisper and the translation model return; `LoopsEnd`
and `QueueIsServed` have it as a premise, `StopEnds` does without it, as the join has
a timeout. Nobody is assumed to press, speak, join or leave. In `SessionRegistry` only
the handlers are fair. On the pages, timers that are armed fire (`WatchdogFires`,
`Reconnect`, `TimerFires`). `ViewerPage` is strongly fair to the opening of the socket
and to init: a page that tries again and again is answered at last. In
`Conversation` the loops go on and the models and the TTS service answer or fail,
and audio ends or is ended by its watchdog. In `TranslatePage` a request is answered or
fails, which the browser sees to. The MC modules have the fairness of the modules they
extend, kept to the instance that moves.

## 5. Proofs

All of `SegmentTrackerProofs` holds for every vocabulary, every set of windows and
times, every `STABILITY_SEC`, from `TrackerAssumption` and, for
`SpeakersNeverMix`, `ChannelAssumption`.

* `TypeCorrect`: `TypeOK` is inductive by itself; the lemmas about
  `StripFinalizedPrefix` and word sequences keep texts in `Seq(Words)`.
* `TrackerInvariant`: `IInv`, which the run checks, adds to the type what
  finalization needs: ids below `next_id`, no id twice, the live segments not final
  and the final ones final, and `returned` equal to the ids of the final segments. `UniqueIds` alone does not
  say what a returned id stands for, hence the last part.
* `IdsAreUnique` and `EveryFinalIsReturned` follow from it. What a final segment is
  spared when calls meet in two threads is model-checked only (`TrackerThreads`).
* `RedetectionHolds`: if every detection with words takes at least half a second
  (`LongDetections`), no phrase that went into a segment opens another one. `CoverInv`
  says that such a phrase lies within a segment, whatever was stretched, merged or
  finalized since, so that it overlaps that segment whole when it is detected again. A
  merge sets `abs_end` to the end of the phrase, which begins at most 0.5 s before
  the old `abs_end`; a phrase of that length cannot end before it. The hypothesis is
  needed: after "Tag" from 1.3 to 1.6 s a detection from 1.2 to 1.3 s is merged in
  front of it, `abs_end` becomes 1.3 s, and "Tag", detected again once that segment is
  final, opens a second one.
* `SpeakersNeverMix`: `SpeakerInv` also says that the pending hypotheses are
  detected ones and that role and id of a segment go together; without it an update
  of a segment of the same role could change its owner.
* `TrackerImplementsLedger`: each action maps to `Open`, `Revise`, `Settle` or a
  stutter.

All of `StreamingPipelineProofs` holds for any number of segments, any languages,
with and without viewers that come and go, from `PipelineAssumption`. Every
safety property of the run `pipeline` is proved:

* `TypeCorrect`, and with it `QueueHolds`: `TypeInv` adds that the MT loop has a
  segment and a language in its hands while it works; without it `translations` could get a pair with `None`.
* `QueueIsAccounted`: `QueueAccounting` is inductive together with `TypeInv`.
  `InIdOrderType`, `ConcatElements` and `TailElements` say what appending and
  taking do to length and elements of the queue.
* `FinalsAreAccountedFor`: `SegInv` adds that no segment is live and final, that
  ids are below `next_id`, and that only a tick between its job and its end has
  segments in its hands; otherwise a new tick could forget those of an old one.
* `JoinMeansDrained`: `DrainInv` says that, while the session runs, what was queued
  is processed, still queued or held by the MT loop, and that the session runs
  until the stop sequence is over. With a count of zero nothing is queued or held.
* `OnlyOrphansQueueAfterEnd`: `EndInv` says which tasks are gone once the session left the
  registry; the executor thread, the viewer's timers and the host's overwritten ones are
  not, and of these only the last touch the queue.
* `PipelineImplementsLedger`: each step is `Open`, `Settle` or a stutter.
* `PipelineImplementsLifecycle`, and with both `ContractsAreKept`: `UniqueInv` says that
  a segment is in one place (on the queue once, in the hands of the MT loop or handled), so
  that the cases of `Stage` exclude each other. `Moves` says what a step does to the
  sets behind them, whichever action it is, and `MoveFollows` that this is a
  step of the life cycle or none. `None` is no segment number, which
  `PipelineAssumption` says.
* `RecordingLosesNothing` and `StopHandsOver` say what of `FinalsAreAccountedFor` may be
  lost, and when: nothing while the host records and is connected and the audience stays
  (`~ViewersChange`; otherwise a broadcast may raise and take a tick's segments along);
  and after a join without timeout whatever is final is handled, but for what a
  cancelled or failed tick had in its hands. `LossInv` says that nothing but stop and cleanup
  cancels the ASR loop, and that it has ended when the stop sequence finalizes, so that
  no tick can make another segment final after the join has begun.

All of `AudioPathProofs` holds for any number of viewers, any delay of sockets, any
sizes of window, buffer and release delay, from `AudioAssumption`. Every property of
the passing runs of `AudioPath` is proved:

* `TypeCorrect`: `TypeOK` is inductive; `TypeParts` splits it by the groups of
  variables that an action changes.
* `ClockNeverAhead`, and with it `ClockHolds`: `ClockInv` adds that, as long as only
  the host has spoken, all samples together with those under way in the host's socket are no more than
  the wall clock (`SumWithinTime`): each unit of time adds at most one frame to
  that sum. With it a fresh anchor lies after the sum.
* `ClockBackIsIdle`: from `ClockInv`; at the switch to two channels the foreign
  channel is anchored at the wall clock, which the sum has not passed.
* `LiveAttended`: the invariant adds that audio in a channel, or in the hands of a job,
  has a page that is attended behind it: its microphone is open, a timer of it runs, or it
  was muted without a release since the channel's last reset (`silent`).
* `AnchorDriftHolds`: `DriftInv` says that what a channel holds and what its pages' sockets
  still hold back are together no more than `Feeders` times the time passed and `MaxLag`;
  without the second part the audio held back could arrive on top of a channel that is
  already ahead. For the host's channel `Feeders` is 1, so it is anchored at most `MaxLag`
  before its old end. That anchors ascend (`AnchorsAscend`) is false with two viewers: the
  run `anchors`.

All of `SessionRegistryProofs` holds for any number of recordings and viewers, from
`RegistryAssumption`:

* `TypeCorrect`, and with `LoopInv` (a broadcast of the message loop belongs to a handler
  that waits for it) `EntriesInv`. `HandlerStep` states once what any step of a
  handler may change; the other theorems use it instead of the actions.
* `RegistryStaysInSync` has the hypothesis `~Overlap`: at most
  one handler is then under way, the one activated last (`SyncInv`). Without it the
  theorem is false, which the run `restart_during_stop` shows.
* What remains true of overlapping recordings needs no hypothesis. `TokenHolds`:
  the token's entry is the latest recording's or nobody's (`TokenInv`), and never one that
  has unregistered. `EarlierEndDesyncs`: `RegistryInSync` is lost in a step that ends an
  earlier recording, and in no other. `LostEntryStaysLost`: that recording never gets an
  entry back. So the counterexample of the run is the only kind there is, and it lasts
  until that recording ends or a later one starts.

`HostPageProofs` holds for any number of recordings. `HostInv` joins the type, the three
facts that `MicReleased`, `PushToTalk` and the cleared page state, and what they rest on:
what has not begun has left no trace (`StartInv`); unless recordings overlap, only
the last one has a suspended start or a socket, and that socket is the page's (`LastInv`);
the server has heard what the page's switches say, the request for a transcript from
`config_ack` on (`ToggleInv`); and the bubbles are of the recording whose segments are kept,
if any are (`DrawnIsKept`). From it follow `ShownHolds`, `MicHolds` and `TogglesKnown`.

`ViewerPageProofs` holds for any languages and any number of calls of
`startMicrophone`, with other guests and detections that set what they tested long ago. The language and the microphone are invariants of their own, since
few actions touch both. `StartInv` says that, unless `torn`, there is one suspended
start, with nothing recorded meanwhile and its stream the page's; `PressInv` that one
which ends under push-to-talk is held or `missed`. `LanguageHolds` and `MicHolds`
follow.

`ConversationProofs` holds for any segments and speakers, from
`ConversationAssumption`. What was true once of a segment stays true (`True`), so a copy can
be late but not wrong; that holds of every snapshot on its way as well. `HostCopyInv` says that the host's copy is the last snapshot and
the translations since, `GuestCopyInv` the same of the guest but for what is on its
way, `HostPageInv` and `GuestPageInv` that the bubbles are those of the copy, and
`SpeechInv` that the queue holds each segment once. `BubblesHold`, `PagesAgreeHolds`,
`ProtocolHolds` and the action property `SpokenHolds` follow. `PagesAgreeHolds` has two
exceptions, which the code has: `stale` for the guest, and `rushed` for the host's last copy.
`ConversationImplementsLifecycle` is the refinement: `Moves` says what a step does to one
segment, its job and the recording's phase, `SegmentFollows` that this is a step of the life cycle
or none. `OnceAndInTurnHolds` joins it with `SpokenHolds`.

`SmallModulesProofs`:

* `AdminHolds`, for any addresses and any number of operations.
  `UniqueInv` has the file free of doubles too, because a restart loads it; `TableInv`
  says that, undisturbed, one request is under way, and where between a change and the
  load that follows it the table may lag.
* `ResultHolds` (`ResultOK` of `TranslatePage`) under `TranslateAssumption`: the one call
  under way is the newest and, unless a timer runs, of what the page wants now.
* `ConsentHolds` (`ConsentOK` of `TranscriptConsent`) under `ConsentAssumption`, for any
  number of guests and any length of the sockets' queues: until a guest said yes there
  is no yes under way (`GivenInv`); a consent of the entry is known to the host, or the
  last answer on its way says so, or a withdrawal is on its way (`KnownInv`); a guest on
  the list was asked or will be by the last message in its socket (`AskedInv`). `Appended` and `Taken` say what a queue
  keeps.

The last two reach their module through an instance, whose assumptions are therefore
hypotheses of the theorem instead of facts of the module.

Only model-checked: liveness, which the prover does not handle (`StopEnds`, `LoopsEnd`,
`QueueIsServed`, `WaitingViewersLearn`, `FinalizingEnds`, `ComesBack`, `SpeechEnds`,
`TranslationArrives`, `Settles`); `TrackerThreads`, whose sort is a community operator that
the prover does not know. No module here uses recursion.

## 6. Not modelled

The components marked `not_modelled` in `PROJECT.json`, with the reasons there: the
planned ones of section 2, the models themselves, stateless routes, the login form,
tables, logging, layout, tests and deployment. Of the pages: wording and its
translations (`lib/i18n.js`), the resampling of samples (`lib/audio.js`), the list of
audio devices, level meters, the QR code, scrolling and animation. Audio samples are
not modelled anywhere; the tracker sees hypotheses. The two pages and the server are
composed where they share state that a property is about (`Conversation`,
`TranscriptConsent`, `SessionRegistry`); `HostPage` and `ViewerPage` keep their peer as
simple as what it was told.
