------------------------------ MODULE ViewerPage ------------------------------
(***************************************************************************)
(* The page of a guest (static/js/viewer.js) on its phone: the connection  *)
(* that it restores until the session has ended, the choice of the guest's *)
(* language, and the microphone, used by clicks or, while push-to-talk is  *)
(* on, by holding the button.                                              *)
(*                                                                         *)
(* startMicrophone is suspended for the permission and for the worklet;    *)
(* messages, clicks and the connection's end come in between.  The host    *)
(* and the server are one actor here: what the guest's socket sends is     *)
(* handled at once, and a broadcast reaches the page as it is made.  The   *)
(* language has more writers: another guest, and the recognition, which    *)
(* tests in its thread whether it is open and sets it later; and what this *)
(* guest chooses goes to the session its loop on the server has cached.    *)
(***************************************************************************)
EXTENDS Integers

CONSTANTS
  Langs,         \* the guest's possible languages
  MaxMics,       \* how often startMicrophone is called
  None

ASSUME ViewerAssumption == MaxMics \in Nat \ {0} /\ None \notin Langs \cup 1..MaxMics

Mics == 1..MaxMics
LangOrNone == Langs \cup {None}

VARIABLES
  conn,        \* the socket; "greeted" once init has arrived
  host,        \* the session of the token's entry: active, ptt_mode,
               \*   foreign_lang
  loop,        \* the guest's loop on the server: whether the entry lists its
               \*   socket, and which session it has cached
  detecting,   \* the recognition has found the language open, to set it
  overruled,   \* another one has set the language since the guest's choice
  loaded,      \* /api/languages has filled the dropdown
  overlay,     \* the privacy popup: its state and the language it selects
  page,        \* sessionActive, sessionEnded, foreignLang, viewerLangSelect
  mic,         \* micRecording, micMuted, pttModeActive, micInitialized, mediaStream
  start,       \* where each call of startMicrophone is
  live,        \* the calls whose tracks run
  held,        \* the button is held down
  missed,      \* push-to-talk began with an open microphone, or the button
               \*   was released before the microphone was set up
  torn         \* a call met another one or a stop while it was suspended

server_vars == <<host, loop, detecting, overruled>>
mic_vars == <<mic, start, live, held, missed, torn>>
vars == <<conn, server_vars, loaded, overlay, page, mic_vars>>

TypeOK ==
  /\ conn \in {"connecting", "open", "greeted", "closed"}
  /\ host \in [active : BOOLEAN, ptt : BOOLEAN, lang : LangOrNone]
  /\ loop \in [listed : BOOLEAN, session : {"none", "current", "old"}]
  /\ detecting \in BOOLEAN /\ overruled \in BOOLEAN
  /\ loaded \in BOOLEAN
  /\ overlay \in [state : {"asking", "accepted", "gone"}, picked : LangOrNone]
  /\ page \in [active : BOOLEAN, ended : BOOLEAN, lang : LangOrNone, select : LangOrNone]
  /\ mic \in [recording : BOOLEAN, muted : BOOLEAN, ptt : BOOLEAN, initialized : BOOLEAN,
              stream : Mics \cup {None}]
  /\ start \in [Mics -> [at : {"unused", "permission", "worklet", "done", "failed"},
                         pressed : BOOLEAN]]
  /\ live \subseteq Mics
  /\ held \in BOOLEAN /\ missed \in BOOLEAN /\ torn \in BOOLEAN

NoSession == [active |-> FALSE, ptt |-> FALSE, lang |-> None]
NoLoop == [listed |-> FALSE, session |-> "none"]

\* A consent given earlier in this browser session is restored with its
\* language; None stands for German, which leaves the language open.
Init ==
  /\ conn = "connecting"
  /\ host = NoSession /\ loop = NoLoop
  /\ detecting = FALSE /\ overruled = FALSE
  /\ loaded = FALSE
  /\ \/ /\ overlay = [state |-> "asking", picked |-> None]
        /\ page = [active |-> FALSE, ended |-> FALSE, lang |-> None, select |-> None]
     \/ \E l \in LangOrNone :
          /\ overlay = [state |-> "gone", picked |-> None]
          /\ page = [active |-> FALSE, ended |-> FALSE, lang |-> l, select |-> None]
  /\ mic = [recording |-> FALSE, muted |-> FALSE, ptt |-> FALSE, initialized |-> FALSE,
            stream |-> None]
  /\ start = [i \in Mics |-> [at |-> "unused", pressed |-> FALSE]]
  /\ live = {}
  /\ held = FALSE /\ missed = FALSE /\ torn = FALSE
----------------------------------------------------------------------------
(* Helpers. *)

Connected == conn \in {"open", "greeted"}

Suspended == {i \in Mics : start[i].at \in {"permission", "worklet"}}

\* The messages of the token's entry reach the page.
Reached == Connected /\ loop.listed

\* viewer_audio_config: the language goes to the session that the loop has
\* cached, without one to the session of the entry.
Hint(session, cached, lang) ==
  LET taker == IF cached = "none" /\ session.active THEN "current" ELSE cached
  IN IF lang = None
     THEN host' = session /\ loop' = [loop EXCEPT !.session = cached] /\ UNCHANGED overruled
     ELSE /\ host' = IF taker = "current" THEN [session EXCEPT !.lang = lang] ELSE session
          /\ loop' = [loop EXCEPT !.session = taker]
          /\ overruled' = (overruled /\ taker # "current")

HintIfConnected(lang) ==
  IF Connected THEN Hint(host, loop.session, lang) ELSE UNCHANGED <<host, loop, overruled>>

\* stopMicrophone.
StopMicrophone ==
  /\ mic' = [mic EXCEPT !.recording = FALSE, !.muted = FALSE, !.stream = None]
  /\ live' = live \ {mic.stream}
  /\ torn' = (torn \/ Suspended # {})
  /\ missed' = (missed /\ Suspended # {})

\* The microphone is open, or about to be, without push-to-talk.
OpenUnheld == Suspended # {} \/ (mic.recording /\ ~mic.muted)

\* updatePTTMode: only switching off touches the microphone.
UpdatePTTMode(enabled) ==
  IF enabled
  THEN /\ mic' = [mic EXCEPT !.ptt = TRUE]
       /\ missed' = (missed \/ (~mic.ptt /\ OpenUnheld))
       /\ UNCHANGED <<live, torn>>
  ELSE /\ mic' = [mic EXCEPT !.ptt = FALSE, !.initialized = FALSE, !.recording = FALSE,
                             !.muted = @ /\ ~mic.recording,
                             !.stream = IF mic.recording THEN None ELSE @]
       /\ live' = IF mic.recording THEN live \ {mic.stream} ELSE live
       /\ torn' = (torn \/ (mic.recording /\ Suspended # {}))
       /\ missed' = (missed /\ Suspended # {})

\* applyConsentSessionLanguage.
OverlayFor(lang) ==
  IF overlay.state = "asking" /\ lang # None THEN [overlay EXCEPT !.picked = lang] ELSE overlay

\* Mutant: a language the guest chose before is not sent to the new session.
StartActiveSessionSilently(session, cached) ==
  /\ page' = [page EXCEPT !.active = TRUE,
                !.lang = IF session.lang # None THEN session.lang ELSE @,
                !.select = IF loaded /\ session.lang # None THEN session.lang ELSE @]
  /\ overlay' = OverlayFor(session.lang)
  /\ Hint(session, cached, None)
  /\ UpdatePTTMode(session.ptt)

\* startActiveSession: the session's language counts, else the guest's,
\* which the change event of the dropdown sends to the server.
StartActiveSession(session, cached) ==
  LET lang == IF session.lang # None THEN session.lang ELSE page.lang
  IN /\ page' = [page EXCEPT !.active = TRUE, !.lang = lang,
                             !.select = IF loaded /\ lang # None THEN lang ELSE @]
     /\ overlay' = OverlayFor(session.lang)
     /\ Hint(session, cached, IF loaded THEN lang ELSE None)
     /\ UpdatePTTMode(session.ptt)
----------------------------------------------------------------------------
(* The connection. *)

\* _register_viewer lists the socket, in a reserved entry if there is none.
SocketOpens ==
  /\ conn = "connecting"
  /\ conn' = "open"
  /\ loop' = [listed |-> TRUE, session |-> "none"]
  /\ UNCHANGED <<host, detecting, overruled, loaded, overlay, page, mic_vars>>

\* init: the session that runs, or word that none does, which changes
\* nothing of what the page believed before.
InitArrives ==
  /\ conn = "open"
  /\ conn' = "greeted"
  /\ IF host.active THEN StartActiveSession(host, loop.session)
     ELSE UNCHANGED <<host, loop, overruled, overlay, page, mic, live, missed, torn>>
  /\ UNCHANGED <<detecting, loaded, start, held>>

\* onclose, whether or not the socket ever opened; the loop ends with it.
SocketCloses ==
  /\ conn # "closed"
  /\ conn' = "closed"
  /\ loop' = NoLoop
  /\ mic' = [mic EXCEPT !.recording = FALSE, !.muted = FALSE, !.stream = None,
                        !.ptt = FALSE, !.initialized = FALSE]
  /\ live' = live \ {mic.stream}
  /\ torn' = (torn \/ Suspended # {})
  /\ missed' = (missed /\ Suspended # {})
  /\ UNCHANGED <<host, detecting, overruled, loaded, overlay, page, start, held>>

\* Mutant: only a page whose session was live connects again.
ReconnectIfActive ==
  /\ conn = "closed" /\ ~page.ended /\ page.active
  /\ conn' = "connecting"
  /\ UNCHANGED <<server_vars, loaded, overlay, page, mic_vars>>

\* The timer of onclose calls connect.
Reconnect ==
  /\ conn = "closed" /\ ~page.ended
  /\ conn' = "connecting"
  /\ UNCHANGED <<server_vars, loaded, overlay, page, mic_vars>>
----------------------------------------------------------------------------
(* The host's session, as its messages reach the page. *)

\* session_active.  The entry may have a session still, of a recording that
\* the new one overlaps; the loop keeps the one it has cached.
HostStarts ==
  /\ detecting' = FALSE
  /\ \E lang \in LangOrNone, ptt \in BOOLEAN :
       LET session == [active |-> TRUE, ptt |-> ptt, lang |-> lang]
           cached == IF loop.session = "current" THEN "old" ELSE loop.session
       IN IF Reached THEN StartActiveSession(session, cached)
          ELSE Hint(session, cached, None) /\ UNCHANGED <<overlay, page, mic, live, missed, torn>>
  /\ UNCHANGED <<conn, loaded, start, held>>

\* ptt_mode.
HostTogglesPtt ==
  /\ host.active
  /\ host' = [host EXCEPT !.ptt = ~@]
  /\ IF Reached THEN UpdatePTTMode(~host.ptt) ELSE UNCHANGED <<mic, live, missed, torn>>
  /\ UNCHANGED <<conn, loop, detecting, overruled, loaded, overlay, page, start, held>>

\* _maybe_lock_foreign_lang, in the thread of the recognition: the test, and
\* what it sets later, whatever was set meanwhile.
DetectionBegins ==
  /\ host.active /\ host.lang = None /\ ~detecting
  /\ detecting' = TRUE
  /\ UNCHANGED <<conn, host, loop, overruled, loaded, overlay, page, mic_vars>>

LanguageDetected ==
  /\ detecting
  /\ detecting' = FALSE
  /\ \E lang \in Langs : host' = [host EXCEPT !.lang = lang]
  /\ overruled' = (overruled \/ host.lang # None)
  /\ UNCHANGED <<conn, loop, loaded, overlay, page, mic_vars>>

\* viewer_audio_config of another guest.
OtherGuestChooses ==
  /\ host.active
  /\ \E lang \in Langs : host' = [host EXCEPT !.lang = lang]
  /\ overruled' = TRUE
  /\ UNCHANGED <<conn, loop, detecting, loaded, overlay, page, mic_vars>>

\* segments: the page adopts the language if it has none.
SegmentsArrive ==
  /\ host.active /\ conn = "greeted" /\ loop.listed
  /\ page' = [page EXCEPT !.lang = IF @ = None THEN host.lang ELSE @]
  /\ overlay' = OverlayFor(host.lang)
  /\ UNCHANGED <<conn, server_vars, loaded, mic_vars>>

\* session_ended, to the sockets listed; then the entry is gone.
HostEnds ==
  /\ host.active
  /\ host' = NoSession
  /\ loop' = [listed |-> FALSE, session |-> IF loop.session = "current" THEN "old"
                                           ELSE loop.session]
  /\ detecting' = FALSE /\ overruled' = FALSE
  /\ IF Reached
     THEN page' = [page EXCEPT !.active = FALSE, !.ended = TRUE] /\ StopMicrophone
     ELSE UNCHANGED <<page, mic, live, missed, torn>>
  /\ UNCHANGED <<conn, loaded, overlay, start, held>>

\* The first sound of a loop without a session takes that of the entry.
AudioArrives ==
  /\ Connected /\ mic.recording /\ ~mic.muted
  /\ loop.session = "none" /\ host.active
  /\ loop' = [loop EXCEPT !.session = "current"]
  /\ UNCHANGED <<conn, host, detecting, overruled, loaded, overlay, page, mic_vars>>
----------------------------------------------------------------------------
(* The guest's language. *)

LanguagesLoaded ==
  /\ ~loaded
  /\ loaded' = TRUE
  /\ page' = [page EXCEPT !.select = IF page.lang # None THEN page.lang ELSE @]
  /\ UNCHANGED <<conn, server_vars, overlay, mic_vars>>

\* The change handler of the dropdown, which is locked while recording.
LanguageChosen ==
  /\ loaded /\ overlay.state = "gone" /\ ~mic.recording
  /\ \E lang \in Langs :
       /\ page' = [page EXCEPT !.lang = lang, !.select = lang]
       /\ HintIfConnected(lang)
  /\ UNCHANGED <<conn, detecting, loaded, overlay, mic_vars>>

OverlayLanguageChosen ==
  /\ overlay.state = "asking"
  /\ \E lang \in LangOrNone : overlay' = [overlay EXCEPT !.picked = lang]
  /\ UNCHANGED <<conn, server_vars, loaded, page, mic_vars>>

ConsentAccepted ==
  /\ overlay.state = "asking"
  /\ overlay' = [overlay EXCEPT !.state = "accepted"]
  /\ UNCHANGED <<conn, server_vars, loaded, page, mic_vars>>

\* The popup's timer; German leaves the language open, and a dropdown without
\* the language gets no value.
ConsentTimerFires ==
  /\ overlay.state = "accepted"
  /\ overlay' = [state |-> "gone", picked |-> None]
  /\ IF overlay.picked = None
     THEN UNCHANGED <<page, host, loop, overruled>>
     ELSE /\ page' = [page EXCEPT !.lang = overlay.picked,
                                  !.select = IF loaded THEN overlay.picked ELSE None]
          /\ IF loaded THEN HintIfConnected(overlay.picked)
             ELSE UNCHANGED <<host, loop, overruled>>
  /\ UNCHANGED <<conn, detecting, loaded, mic_vars>>
----------------------------------------------------------------------------
(* startMicrophone. *)

\* The button is enabled.
CanMic == page.active /\ page.select # None /\ overlay.state = "gone"

Calls(pressed) ==
  \E i \in Mics :
    /\ start[i].at = "unused" /\ \A j \in 1..(i - 1) : start[j].at # "unused"
    /\ start' = [start EXCEPT ![i] = [at |-> "permission", pressed |-> pressed]]
    /\ torn' = (torn \/ Suspended # {} \/ mic.recording)

\* The first await of pttPress is over: the call was its, so it is set up.
Resumed(i, next) == [next EXCEPT !.initialized = @ \/ start[i].pressed]

MicGranted(i) ==
  /\ start[i].at = "permission"
  /\ start' = [start EXCEPT ![i].at = "worklet"]
  /\ mic' = [mic EXCEPT !.stream = i]
  /\ live' = live \cup {i}
  /\ UNCHANGED <<conn, server_vars, loaded, overlay, page, held, missed, torn>>

\* The worklet is there: the hint goes out and the microphone is open.
MicStarts(i) ==
  /\ start[i].at = "worklet" /\ mic.stream # None
  /\ start' = [start EXCEPT ![i] = [at |-> "done", pressed |-> FALSE]]
  /\ HintIfConnected(page.lang)
  /\ mic' = Resumed(i, [mic EXCEPT !.recording = TRUE, !.muted = FALSE])
  /\ UNCHANGED <<conn, detecting, loaded, overlay, page, live, held, missed, torn>>

\* Denied, or the audio context was closed meanwhile; the catch clause
\* swallows it, so a press goes on all the same.
MicFails(i) ==
  /\ i \in Suspended
  /\ start' = [start EXCEPT ![i] = [at |-> "failed", pressed |-> FALSE]]
  /\ mic' = Resumed(i, mic)
  /\ UNCHANGED <<conn, server_vars, loaded, overlay, page, live, held, missed, torn>>
----------------------------------------------------------------------------
(* The buttons. *)

\* The click handler, without push-to-talk.
MicClicked ==
  /\ CanMic /\ ~mic.ptt
  /\ IF mic.recording
     THEN StopMicrophone /\ UNCHANGED start
     ELSE Calls(FALSE) /\ UNCHANGED <<mic, live, missed>>
  /\ UNCHANGED <<conn, server_vars, loaded, overlay, page, held>>

\* pttPress.
PttPress ==
  /\ CanMic /\ mic.ptt /\ ~held
  /\ held' = TRUE
  /\ IF mic.initialized
     THEN mic' = [mic EXCEPT !.muted = FALSE] /\ UNCHANGED <<start, torn>>
     ELSE Calls(TRUE) /\ UNCHANGED mic
  /\ UNCHANGED <<conn, server_vars, loaded, overlay, page, live, missed>>

\* Mutant: a release outside the button is not noticed.
PttReleaseOnButton ==
  /\ held
  /\ held' = FALSE
  /\ \E over \in BOOLEAN :
       IF over /\ mic.ptt /\ mic.initialized
       THEN mic' = [mic EXCEPT !.muted = TRUE] /\ missed' = (missed /\ Suspended # {})
       ELSE missed' = (missed \/ (mic.ptt /\ ~mic.initialized)) /\ UNCHANGED mic
  /\ UNCHANGED <<conn, server_vars, loaded, overlay, page, start, live, torn>>

\* pttRelease, on the button or elsewhere; it does nothing while the first
\* press is still being set up.
PttRelease ==
  /\ held
  /\ held' = FALSE
  /\ IF mic.ptt /\ mic.initialized
     THEN mic' = [mic EXCEPT !.muted = TRUE] /\ missed' = (missed /\ Suspended # {})
     ELSE missed' = (missed \/ mic.ptt) /\ UNCHANGED mic
  /\ UNCHANGED <<conn, server_vars, loaded, overlay, page, start, live, torn>>

MuteClicked ==
  /\ mic.recording /\ ~mic.ptt
  /\ mic' = [mic EXCEPT !.muted = ~@]
  /\ UNCHANGED <<conn, server_vars, loaded, overlay, page, start, live, held, missed, torn>>

\* setMode; the server ignores the message it sends.
ModeClicked ==
  /\ UpdatePTTMode(~mic.ptt)
  /\ UNCHANGED <<conn, server_vars, loaded, overlay, page, start, held>>
----------------------------------------------------------------------------
Next ==
  \/ SocketOpens \/ InitArrives \/ SocketCloses \/ Reconnect
  \/ HostStarts \/ HostTogglesPtt \/ SegmentsArrive \/ HostEnds \/ AudioArrives
  \/ DetectionBegins \/ LanguageDetected \/ OtherGuestChooses
  \/ LanguagesLoaded \/ LanguageChosen \/ OverlayLanguageChosen
  \/ ConsentAccepted \/ ConsentTimerFires
  \/ \E i \in Mics : MicGranted(i) \/ MicStarts(i) \/ MicFails(i)
  \/ MicClicked \/ PttPress \/ PttRelease \/ MuteClicked \/ ModeClicked

\* The timer of a lost connection fires, and a server that is asked again
\* and again answers at last.
Spec ==
  /\ Init /\ [][Next]_vars
  /\ WF_vars(Reconnect) /\ SF_vars(SocketOpens) /\ SF_vars(InitArrives)
----------------------------------------------------------------------------
(* Properties. *)

\* The server transcribes who speaks in the language the page shows, chosen
\* before the session, in the popup, on an earlier visit or while
\* disconnected, with two exceptions: another guest or a late detection has
\* set another language since, or the guest's loop holds on to the session
\* of an earlier recording and gives the choice to that one.
LanguageAgreed ==
  mic.recording /\ conn = "greeted" /\ host.active /\ loop.listed /\ page.lang # None
    => host.lang = page.lang \/ overruled \/ loop.session = "old"

\* Every stream but one of a start that is suspended or failed is the one
\* in use, unless a start met another one or a stop.
NoStreamLeft ==
  ~torn => \A i \in live : \/ start[i].at \in {"worklet", "failed"}
                           \/ mic.recording /\ mic.stream = i

\* With push-to-talk an open microphone is held, but for the two cases
\* that `missed' names and for starts that met.
HotWhileHeld ==
  mic.ptt /\ mic.recording /\ ~mic.muted => held \/ missed \/ torn

\* A page that loses the connection before it was told of the end connects
\* again, and is in the session if there is one by then.  Without one it is
\* told to wait: whether a session it knew has ended it does not learn.
ComesBack ==
  conn = "closed" /\ ~page.ended
    ~> page.ended \/ (conn = "greeted" /\ (host.active => page.active))

\* Page and server are in order and agree on the guest's language.
LanguageOK == TypeOK /\ LanguageAgreed

\* The microphone: never forgotten, and open only while the key is held.
MicOK == NoStreamLeft /\ HotWhileHeld
=============================================================================
