------------------------------- MODULE HostPage -------------------------------
(***************************************************************************)
(* The page of the host (static/js/host.js): one recording after another,  *)
(* started and stopped with one button, cleared with another, each with a  *)
(* microphone stream and a WebSocket of its own.  The handlers of every    *)
(* recording share the page's variables: the socket `ws', the stream, the  *)
(* watchdog of the last stop, the toggles and what is shown.               *)
(*                                                                         *)
(* startRecording is suspended twice, for the permission and for the       *)
(* worklet; the page's other handlers run in between, the start button's   *)
(* too.  The browser never delivers messages of a socket that is closing,  *)
(* only its close event.  What the page sends reaches the server at once.  *)
(***************************************************************************)
EXTENDS Integers

CONSTANTS
  MaxStarts,     \* how often the start button starts a recording
  None

ASSUME HostAssumption == MaxStarts \in Nat \ {0} /\ None \notin 1..MaxStarts

Recordings == 1..MaxStarts
OrNone == Recordings \cup {None}

VARIABLES
  started,     \* the recordings begun so far
  overlap,     \* one began before its predecessor had ended
  start,       \* where startRecording is, per recording
  sock,        \* the readyState of the recording's socket
  live,        \* the recordings whose microphone tracks run
  timers,      \* the watchdogs that are armed, by the recording they end
  page,        \* isRecording, isStoppingRecording, sessionCleared, ws,
               \*   mediaStream, stopWatchdogTimer
  talk,        \* isMuted, pttMode, spaceHeld
  shown,       \* whose segments allSegments holds, whether one is final,
               \*   whose bubbles are drawn, whether foreignLang is known,
               \*   the download bar
  consent,     \* hostTranscriptConsent, and whose viewer consented
  server       \* what the server knows of each recording

vars == <<started, overlap, start, sock, live, timers, page, talk, shown, consent, server>>

TypeOK ==
  /\ started \in 0..MaxStarts
  /\ overlap \in BOOLEAN
  /\ start \in [Recordings -> {"unused", "mic", "worklet", "running", "failed"}]
  /\ sock \in [Recordings -> {"none", "connecting", "open", "closing", "closed"}]
  /\ live \subseteq Recordings
  /\ timers \subseteq Recordings
  /\ page \in [recording : BOOLEAN, stopping : BOOLEAN, cleared : BOOLEAN,
               ws : OrNone, mic : OrNone, watchdog : OrNone]
  /\ talk \in [muted : BOOLEAN, ptt : BOOLEAN, held : BOOLEAN]
  /\ shown \in [from : OrNone, final : BOOLEAN, bubbles : OrNone,
                foreign : BOOLEAN, bar : BOOLEAN]
  /\ consent \in [host : BOOLEAN, viewer : OrNone]
  /\ server \in [Recordings -> [phase : {"idle", "configured", "acked", "draining"},
                                ptt : BOOLEAN, requested : BOOLEAN, speaking : BOOLEAN]]

Idle == [phase |-> "idle", ptt |-> FALSE, requested |-> FALSE, speaking |-> FALSE]

NothingShown ==
  [from |-> None, final |-> FALSE, bubbles |-> None, foreign |-> FALSE, bar |-> FALSE]

Init ==
  /\ started = 0
  /\ overlap = FALSE
  /\ start = [i \in Recordings |-> "unused"]
  /\ sock = [i \in Recordings |-> "none"]
  /\ live = {}
  /\ timers = {}
  /\ page = [recording |-> FALSE, stopping |-> FALSE, cleared |-> FALSE,
             ws |-> None, mic |-> None, watchdog |-> None]
  /\ talk = [muted |-> FALSE, ptt |-> FALSE, held |-> FALSE]
  /\ shown = NothingShown
  /\ consent = [host |-> FALSE, viewer |-> None]
  /\ server = [i \in Recordings |-> Idle]
----------------------------------------------------------------------------
(* Helpers. *)

\* The page can send: its socket is open, and the config went first.
Connected ==
  page.ws # None /\ sock[page.ws] = "open" /\ server[page.ws].phase # "idle"

Told(i, field, value) == [server EXCEPT ![i][field] = value]

Send(field, value) == IF Connected THEN Told(page.ws, field, value) ELSE server

\* ws.close(): the close event follows.
ClosePageSocket ==
  IF page.ws # None /\ sock[page.ws] \in {"connecting", "open"}
  THEN [sock EXCEPT ![page.ws] = "closing"] ELSE sock

\* A recording has not come to its end: a handler or a timer of it is left.
Busy ==
  \/ timers # {}
  \/ \E i \in Recordings : start[i] \in {"mic", "worklet"} \/ sock[i] \notin {"none", "closed"}

\* maybeShowTranscriptDownload.
MayDownload == consent.host /\ consent.viewer # None /\ shown.foreign /\ shown.final
Bar == shown.bar \/ MayDownload
----------------------------------------------------------------------------
(* startRecording. *)

\* Mutant: the transcript and the consent stay for the next recording.
StartClickedKeepsShown ==
  /\ ~page.recording
  /\ started < MaxStarts
  /\ started' = started + 1
  /\ start' = [start EXCEPT ![started + 1] = "mic"]
  /\ overlap' = (overlap \/ Busy)
  /\ page' = [page EXCEPT !.cleared = FALSE, !.stopping = FALSE]
  /\ UNCHANGED <<sock, live, timers, talk, server, consent, shown>>

\* Up to the first await.  What is drawn stays until the first snapshot.
StartClicked ==
  /\ ~page.recording
  /\ started < MaxStarts
  /\ started' = started + 1
  /\ start' = [start EXCEPT ![started + 1] = "mic"]
  /\ overlap' = (overlap \/ Busy)
  /\ page' = [page EXCEPT !.cleared = FALSE, !.stopping = FALSE]
  /\ shown' = [shown EXCEPT !.from = None, !.final = FALSE, !.bar = FALSE]
  /\ consent' = [consent EXCEPT !.viewer = None]
  /\ UNCHANGED <<sock, live, timers, talk, server>>

MicGranted(i) ==
  /\ start[i] = "mic"
  /\ start' = [start EXCEPT ![i] = "worklet"]
  /\ page' = [page EXCEPT !.mic = i]
  /\ live' = live \cup {i}
  /\ UNCHANGED <<started, overlap, sock, timers, talk, shown, consent, server>>

\* The catch clause: the stream of a start that fails later keeps running.
StartFails(i) ==
  /\ start[i] \in {"mic", "worklet"}
  /\ start' = [start EXCEPT ![i] = "failed"]
  /\ UNCHANGED <<started, overlap, sock, live, timers, page, talk, shown, consent, server>>

\* The rest of startRecording; a context closed meanwhile makes it fail.
WorkletLoaded(i) ==
  /\ start[i] = "worklet"
  /\ page.mic # None
  /\ start' = [start EXCEPT ![i] = "running"]
  /\ sock' = [sock EXCEPT ![i] = "connecting"]
  /\ page' = [page EXCEPT !.ws = i, !.recording = TRUE]
  /\ talk' = [talk EXCEPT !.muted = talk.ptt]
  /\ UNCHANGED <<started, overlap, live, timers, shown, consent, server>>
----------------------------------------------------------------------------
(* The socket's handlers; they use the page's `ws', whoever's it is. *)

\* onopen: the config, with the toggle as it is now.
SocketOpens(i) ==
  /\ sock[i] = "connecting"
  /\ sock' = [sock EXCEPT ![i] = "open"]
  /\ \E selected \in BOOLEAN : shown' = [shown EXCEPT !.foreign = @ \/ selected]
  /\ server' = IF page.ws # None /\ sock'[page.ws] = "open"
               THEN [server EXCEPT ![page.ws].phase = "configured", ![page.ws].ptt = talk.ptt]
               ELSE server
  /\ UNCHANGED <<started, overlap, start, live, timers, page, talk, consent>>

\* Mutant: the request for a transcript made before the start is not sent.
ConfigAckForgetsRequest(i) ==
  /\ sock[i] = "open" /\ server[i].phase = "configured"
  /\ server' = [server EXCEPT ![i].phase = "acked"]
  /\ UNCHANGED <<started, overlap, start, sock, live, timers, page, talk, shown, consent>>

\* handleConfigAck, unless the page was cleared.
ConfigAck(i) ==
  /\ sock[i] = "open" /\ server[i].phase = "configured"
  /\ server' = [j \in Recordings |->
       IF j = page.ws /\ Connected /\ ~page.cleared
       THEN [server[j] EXCEPT !.phase = IF j = i THEN "acked" ELSE @,
                              !.ptt = @ \/ talk.ptt, !.requested = @ \/ consent.host]
       ELSE [server[j] EXCEPT !.phase = IF j = i THEN "acked" ELSE @]]
  /\ UNCHANGED <<started, overlap, start, sock, live, timers, page, talk, shown, consent>>

\* A message of the server that the page does not ignore.
Delivered(i) ==
  /\ sock[i] = "open"
  /\ server[i].phase \in {"acked", "draining"}
  /\ ~page.cleared

\* handleSegments draws every bubble anew; the message may name the foreign
\* language.
SegmentsArrive(i) ==
  /\ Delivered(i)
  /\ \E final, detected \in BOOLEAN :
       shown' = [shown EXCEPT !.from = i, !.final = final, !.bubbles = i,
                                !.foreign = @ \/ detected]
  /\ UNCHANGED <<started, overlap, start, sock, live, timers, page, talk, consent, server>>

\* transcript_consent of a viewer the server has asked.
ConsentArrives(i) ==
  /\ Delivered(i)
  /\ server[i].requested
  /\ consent' = [consent EXCEPT !.viewer = i]
  /\ UNCHANGED <<started, overlap, start, sock, live, timers, page, talk, shown, server>>

\* onclose, with finalizeAfterStop when the page is finalizing: the server
\* is done, refused the connection or was lost.
SocketCloses(i) ==
  /\ sock[i] \in {"connecting", "open", "closing"}
  /\ sock' = [sock EXCEPT ![i] = "closed"]
  /\ IF page.stopping
     THEN /\ page' = [page EXCEPT !.stopping = FALSE, !.watchdog = None, !.ws = None]
          /\ timers' = timers \ {page.watchdog}
          /\ shown' = [shown EXCEPT !.bar = Bar]
     ELSE /\ page' = [page EXCEPT !.ws = None]
          /\ UNCHANGED <<timers, shown>>
  /\ server' = [server EXCEPT ![i] = Idle]
  /\ UNCHANGED <<started, overlap, start, live, talk, consent>>
----------------------------------------------------------------------------
(* stopRecording and the clear button. *)

\* Mutant: nothing guards the wait for the server.
StopClickedUnguarded ==
  /\ page.recording
  /\ talk' = [talk EXCEPT !.muted = FALSE, !.held = FALSE]
  /\ live' = live \ {page.mic}
  /\ IF Connected
     THEN /\ page' = [page EXCEPT !.recording = FALSE, !.mic = None, !.stopping = TRUE]
          /\ server' = Told(page.ws, "phase", "draining")
          /\ UNCHANGED <<timers, shown>>
     ELSE /\ page' = [page EXCEPT !.recording = FALSE, !.mic = None, !.stopping = FALSE]
          /\ shown' = [shown EXCEPT !.bar = Bar]
          /\ UNCHANGED <<timers, server>>
  /\ UNCHANGED <<started, overlap, start, sock, consent>>

\* The capture ends at once; with a connection the server gets the time to
\* drain that the watchdog grants, without one the page finalizes here.
StopClicked ==
  /\ page.recording
  /\ talk' = [talk EXCEPT !.muted = FALSE, !.held = FALSE]
  /\ live' = live \ {page.mic}
  /\ IF page.ws # None /\ sock[page.ws] = "open"
     THEN /\ page' = [page EXCEPT !.recording = FALSE, !.mic = None, !.stopping = TRUE,
                                  !.watchdog = page.ws]
          /\ timers' = timers \cup {page.ws}
          /\ server' = Send("phase", "draining")
          /\ UNCHANGED shown
     ELSE /\ page' = [page EXCEPT !.recording = FALSE, !.mic = None, !.stopping = FALSE,
                                  !.watchdog = None]
          /\ timers' = timers \ {page.watchdog}
          /\ shown' = [shown EXCEPT !.bar = Bar]
          /\ UNCHANGED server
  /\ UNCHANGED <<started, overlap, start, sock, consent>>

\* The watchdog closes the page's socket and finalizes if that is due.
WatchdogFires(w) ==
  /\ w \in timers
  /\ timers' = timers \ {w}
  /\ sock' = ClosePageSocket
  /\ page' = [page EXCEPT !.watchdog = None, !.stopping = FALSE]
  /\ shown' = [shown EXCEPT !.bar = IF page.stopping THEN Bar ELSE @]
  /\ UNCHANGED <<started, overlap, start, live, talk, consent, server>>

\* Mutant: clearing forgets the stream it has to stop.
ClearClickedKeepsMic ==
  /\ page' = [page EXCEPT !.recording = FALSE, !.stopping = FALSE, !.cleared = TRUE,
                          !.ws = None, !.watchdog = None, !.mic = None]
  /\ sock' = ClosePageSocket
  /\ timers' = timers \ {page.watchdog}
  /\ talk' = [muted |-> FALSE, ptt |-> FALSE, held |-> FALSE]
  /\ shown' = NothingShown
  /\ consent' = [consent EXCEPT !.viewer = None]
  /\ UNCHANGED <<started, overlap, start, server, live>>

\* A recording is ended without a word to the server; a start that is still
\* suspended is not.
ClearClicked ==
  /\ page' = [page EXCEPT !.recording = FALSE, !.stopping = FALSE, !.cleared = TRUE,
                          !.ws = None, !.watchdog = None,
                          !.mic = IF page.recording THEN None ELSE @]
  /\ live' = IF page.recording THEN live \ {page.mic} ELSE live
  /\ sock' = ClosePageSocket
  /\ timers' = timers \ {page.watchdog}
  /\ talk' = IF page.recording THEN [muted |-> FALSE, ptt |-> FALSE, held |-> FALSE]
                               ELSE [talk EXCEPT !.ptt = FALSE]
  /\ shown' = NothingShown
  /\ consent' = [consent EXCEPT !.viewer = None]
  /\ UNCHANGED <<started, overlap, start, server>>
----------------------------------------------------------------------------
(* The toggles, the mute button and the space bar. *)

ToggleTranscript ==
  /\ consent' = [host |-> ~consent.host,
                 viewer |-> IF consent.host THEN None ELSE consent.viewer]
  /\ server' = Send("requested", ~consent.host)
  /\ UNCHANGED <<started, overlap, start, sock, live, timers, page, talk, shown>>

\* On: muted until the space bar is held.  Off: a press is released.
TogglePtt ==
  /\ talk' = [muted |-> ~talk.ptt, ptt |-> ~talk.ptt, held |-> talk.held /\ ~talk.ptt]
  /\ server' = IF Connected THEN [server EXCEPT ![page.ws].ptt = ~talk.ptt,
                                                ![page.ws].speaking = @ /\ ~talk.held]
                            ELSE server
  /\ UNCHANGED <<started, overlap, start, sock, live, timers, page, shown, consent>>

SpaceDown ==
  /\ talk.ptt /\ page.recording
  /\ talk' = [talk EXCEPT !.held = TRUE, !.muted = FALSE]
  /\ server' = Send("speaking", TRUE)
  /\ UNCHANGED <<started, overlap, start, sock, live, timers, page, shown, consent>>

\* keyup; releasePTT does the same when the page loses the focus.
SpaceUp ==
  /\ talk.ptt /\ page.recording
  /\ talk' = [talk EXCEPT !.held = FALSE, !.muted = TRUE]
  /\ server' = Send("speaking", FALSE)
  /\ UNCHANGED <<started, overlap, start, sock, live, timers, page, shown, consent>>

\* The button is shown only while recording without push-to-talk.
MuteClicked ==
  /\ page.recording /\ ~talk.ptt
  /\ talk' = [talk EXCEPT !.muted = ~@]
  /\ UNCHANGED <<started, overlap, start, sock, live, timers, page, shown, consent, server>>
----------------------------------------------------------------------------
Next ==
  \/ StartClicked \/ StopClicked \/ ClearClicked
  \/ ToggleTranscript \/ TogglePtt \/ SpaceDown \/ SpaceUp \/ MuteClicked
  \/ \E i \in Recordings :
       \/ MicGranted(i) \/ StartFails(i) \/ WorkletLoaded(i)
       \/ SocketOpens(i) \/ ConfigAck(i) \/ SocketCloses(i)
       \/ SegmentsArrive(i) \/ ConsentArrives(i)
       \/ WatchdogFires(i)

\* A timer that is armed fires; nothing else has to happen.
Spec == Init /\ [][Next]_vars /\ \A w \in Recordings : WF_vars(WatchdogFires(w))
----------------------------------------------------------------------------
(* Properties. *)

Last == started

\* Once cleared, the page stays empty until the next start, whatever
\* sockets, timers and suspended starts are left.
ClearedStaysEmpty ==
  page.cleared => shown.from = None /\ shown.bubbles = None /\ ~shown.bar

\* Unless recordings overlap, a stop or a clear releases every stream but
\* those of a start that is still suspended or has failed.
MicReleased ==
  ~overlap => \A i \in live : \/ start[i] \in {"worklet", "failed"}
                              \/ page.recording /\ page.mic = i

\* With push-to-talk the host is heard only while the space bar is held,
\* and then heard indeed unless a second start has muted the page.
PushToTalk ==
  page.recording /\ talk.ptt => IF talk.held THEN talk.muted => overlap ELSE talk.muted

\* The server has the state of the toggles, those moved before the start or
\* while the socket connected included, and takes nobody for a speaker who
\* released the space bar.
ServerKnowsToggles ==
  \A i \in Recordings :
    page.recording /\ page.ws = i /\ sock[i] = "open" /\ server[i].phase = "acked"
      /\ ~page.cleared /\ ~overlap
    => /\ server[i].ptt = talk.ptt
       /\ server[i].requested = consent.host
       /\ server[i].speaking => talk.held

\* Unless recordings overlap, the page keeps for the download the segments
\* of the last recording only, with the consent given in it, and uses the
\* socket it has.
OnlyLastRecording ==
  ~overlap => /\ shown.from \in {None, Last}
              /\ consent.viewer \in {None, Last}
              /\ \A i \in Recordings : page.recording /\ sock[i] = "open" => page.ws = i

\* The segments kept for the download are the ones drawn; an earlier
\* recording's bubbles are there only while the last has sent no snapshot.
DrawnIsKept == shown.from # None => shown.bubbles = shown.from

\* A stop comes to its end even when the server never answers.
FinalizingEnds == page.stopping ~> ~page.stopping

\* What the page keeps and draws: nothing once cleared, for the download the
\* last recording, and drawn the same as soon as there is any of it.
ShownOK == TypeOK /\ ClearedStaysEmpty /\ OnlyLastRecording /\ DrawnIsKept

\* The microphone: given back at the end, and heard when it should be.
MicOK == MicReleased /\ PushToTalk
=============================================================================
