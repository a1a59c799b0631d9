---------------------------- MODULE HostPageProofs ----------------------------
(***************************************************************************)
(* Proofs about HostPage for any number of recordings on one page.         *)
(***************************************************************************)
EXTENDS HostPage, TLAPS

\* The records of TypeOK.
PageSet == [recording : BOOLEAN, stopping : BOOLEAN, cleared : BOOLEAN,
            ws : OrNone, mic : OrNone, watchdog : OrNone]
Known == [phase : {"idle", "configured", "acked", "draining"},
          ptt : BOOLEAN, requested : BOOLEAN, speaking : BOOLEAN]
StartSet == {"unused", "mic", "worklet", "running", "failed"}
SockSet == {"none", "connecting", "open", "closing", "closed"}
TalkSet == [muted : BOOLEAN, ptt : BOOLEAN, held : BOOLEAN]
ShownSet == [from : OrNone, final : BOOLEAN, bubbles : OrNone,
             foreign : BOOLEAN, bar : BOOLEAN]
ConsentSet == [host : BOOLEAN, viewer : OrNone]

\* TypeOK by its parts, for the proofs to take one at a time.
Types ==
  /\ started \in 0..MaxStarts /\ overlap \in BOOLEAN
  /\ start \in [Recordings -> StartSet] /\ sock \in [Recordings -> SockSet]
  /\ live \subseteq Recordings /\ timers \subseteq Recordings
  /\ page \in PageSet /\ talk \in TalkSet /\ shown \in ShownSet
  /\ consent \in ConsentSet /\ server \in [Recordings -> Known]

LEMMA TypeParts == (TypeOK <=> Types) /\ (TypeOK' <=> Types')
BY DEF Types, TypeOK, StartSet, SockSet, PageSet, TalkSet, ShownSet, ConsentSet, Known

(* The page's connection is one of its recordings'.                        *)
LEMMA ConnectedSocket ==
  ASSUME TypeOK, Connected
  PROVE  page.ws \in Recordings /\ sock[page.ws] = "open" /\ server[page.ws].phase # "idle"
BY DEF TypeOK, Connected, OrNone

(* What the page sends changes one thing the server knows, of its socket.  *)
LEMMA SendsPhase ==
  ASSUME TypeOK, server' = Send("phase", "draining")
  PROVE  /\ server' \in [Recordings -> Known]
         /\ \A j \in Recordings : server'[j] =
              IF Connected /\ j = page.ws THEN [server[j] EXCEPT !.phase = "draining"] ELSE server[j]
BY ConnectedSocket, SMTT(40) DEF TypeOK, Send, Told, Known

LEMMA SendsRequested ==
  ASSUME TypeOK, NEW b \in BOOLEAN, server' = Send("requested", b)
  PROVE  /\ server' \in [Recordings -> Known]
         /\ \A j \in Recordings : server'[j] =
              IF Connected /\ j = page.ws THEN [server[j] EXCEPT !.requested = b] ELSE server[j]
BY ConnectedSocket, SMTT(40) DEF TypeOK, Send, Told, Known

LEMMA SendsSpeaking ==
  ASSUME TypeOK, NEW b \in BOOLEAN, server' = Send("speaking", b)
  PROVE  /\ server' \in [Recordings -> Known]
         /\ \A j \in Recordings : server'[j] =
              IF Connected /\ j = page.ws THEN [server[j] EXCEPT !.speaking = b] ELSE server[j]
BY ConnectedSocket, SMTT(40) DEF TypeOK, Send, Told, Known
-----------------------------------------------------------------------------
(* Types. *)

LEMMA RecordingsFacts ==
  /\ \A i \in Recordings : i \in Nat /\ 1 <= i /\ i <= MaxStarts
  /\ None \notin Recordings /\ MaxStarts \in Nat
BY HostAssumption DEF Recordings

LEMMA InitType == Init => TypeOK
<1> SUFFICES ASSUME Init  PROVE TypeOK
  OBVIOUS
<1>1. page \in PageSet /\ shown \in ShownSet /\ consent \in ConsentSet
  BY DEF Init, NothingShown, PageSet, ShownSet, ConsentSet, OrNone
<1>2. talk \in TalkSet /\ server \in [Recordings -> Known]
  BY DEF Init, TalkSet, Known, Idle
<1>3. start \in [Recordings -> StartSet] /\ sock \in [Recordings -> SockSet]
  BY DEF Init, StartSet, SockSet
<1>4. started \in 0..MaxStarts
  BY RecordingsFacts DEF Init
<1>5. QED  BY <1>1, <1>2, <1>3, <1>4, TypeParts DEF Init, Types

(* The bar is shown or not, whoever asks.                                  *)
LEMMA BarType ==
  ASSUME TypeOK
  PROVE  Bar \in BOOLEAN
BY DEF TypeOK, Bar, MayDownload

LEMMA ClosePageSocketType ==
  ASSUME TypeOK
  PROVE  /\ ClosePageSocket \in [Recordings -> SockSet]
         /\ \A i \in Recordings :
              ClosePageSocket[i] = IF i = page.ws /\ sock[i] \in {"connecting", "open"}
                                   THEN "closing" ELSE sock[i]
<1>1. sock \in [Recordings -> SockSet] /\ page.ws \in Recordings \cup {None}
  BY TypeParts DEF Types, PageSet, OrNone
<1>2. "closing" \in SockSet
  BY DEF SockSet
<1> HIDE DEF SockSet
<1>3. QED  BY <1>1, <1>2, RecordingsFacts DEF ClosePageSocket

LEMMA StartClickedType ==
  ASSUME TypeOK, StartClicked
  PROVE  TypeOK'
<1> USE DEF StartClicked
<1>1. started + 1 \in Recordings /\ started' \in 0..MaxStarts
  BY RecordingsFacts DEF TypeOK, Recordings
<1>2. start' \in [Recordings -> StartSet]
  BY <1>1, TypeParts DEF Types, StartSet
<1>3. overlap' \in BOOLEAN
  BY DEF TypeOK, Busy
<1>4. page' \in PageSet
  BY TypeParts DEF Types, PageSet
<1>5. shown' \in ShownSet
  BY TypeParts DEF Types, ShownSet, OrNone
<1>6. consent' \in ConsentSet
  BY TypeParts DEF Types, ConsentSet, OrNone
<1>7. QED  BY <1>1, <1>2, <1>3, <1>4, <1>5, <1>6, TypeParts DEF Types

LEMMA MicGrantedType ==
  ASSUME TypeOK, NEW i \in Recordings, MicGranted(i)
  PROVE  TypeOK'
<1> USE DEF MicGranted
<1>1. start' \in [Recordings -> StartSet]
  BY TypeParts DEF Types, StartSet
<1>2. page' \in PageSet
  BY TypeParts DEF Types, PageSet, OrNone
<1>3. QED  BY <1>1, <1>2, TypeParts DEF Types

LEMMA StartFailsType ==
  ASSUME TypeOK, NEW i \in Recordings, StartFails(i)
  PROVE  TypeOK'
<1>1. start' \in [Recordings -> StartSet]
  BY TypeParts DEF StartFails, Types, StartSet
<1>2. QED  BY <1>1, TypeParts DEF StartFails, Types

LEMMA WorkletLoadedType ==
  ASSUME TypeOK, NEW i \in Recordings, WorkletLoaded(i)
  PROVE  TypeOK'
<1> USE DEF WorkletLoaded
<1>1. start' \in [Recordings -> StartSet] /\ sock' \in [Recordings -> SockSet]
  BY TypeParts DEF Types, StartSet, SockSet
<1>2. page' \in PageSet
  BY TypeParts DEF Types, PageSet, OrNone
<1>3. talk' \in TalkSet
  BY TypeParts DEF Types, TalkSet
<1>4. QED  BY <1>1, <1>2, <1>3, TypeParts DEF Types

LEMMA SocketOpensType ==
  ASSUME TypeOK, NEW i \in Recordings, SocketOpens(i)
  PROVE  TypeOK'
<1> USE DEF SocketOpens
<1>1. sock' \in [Recordings -> SockSet]
  BY TypeParts DEF Types, SockSet
<1>2. shown' \in ShownSet
  BY TypeParts DEF Types, ShownSet
<1>3. server' \in [Recordings -> Known]
  <2>1. page.ws \in Recordings \cup {None} /\ talk.ptt \in BOOLEAN
    BY TypeParts DEF Types, PageSet, TalkSet, OrNone
  <2>2. QED  BY <2>1, TypeParts DEF Types, Known
<1>4. QED  BY <1>1, <1>2, <1>3, TypeParts DEF Types

LEMMA ConfigAckType ==
  ASSUME TypeOK, NEW i \in Recordings, ConfigAck(i)
  PROVE  TypeOK'
<1>1. server' \in [Recordings -> Known]
  BY TypeParts DEF ConfigAck, Types, Known, TalkSet, ConsentSet
<1>2. QED  BY <1>1, TypeParts DEF ConfigAck, Types

LEMMA SocketClosesType ==
  ASSUME TypeOK, NEW i \in Recordings, SocketCloses(i)
  PROVE  TypeOK'
<1> USE DEF SocketCloses
<1>1. sock' \in [Recordings -> SockSet]
  BY TypeParts DEF Types, SockSet
<1>2. page' \in PageSet
  BY TypeParts DEF Types, PageSet, OrNone
<1>3. shown' \in ShownSet
  BY TypeParts, BarType DEF Types, ShownSet
<1>4. server' \in [Recordings -> Known]
  BY TypeParts DEF Types, Known, Idle
<1>5. timers' \subseteq Recordings
  BY TypeParts DEF Types
<1>6. QED  BY <1>1, <1>2, <1>3, <1>4, <1>5, TypeParts DEF Types

LEMMA ArriveTypes ==
  ASSUME TypeOK, NEW i \in Recordings, SegmentsArrive(i) \/ ConsentArrives(i)
  PROVE  TypeOK'
<1>1. CASE SegmentsArrive(i)
  <2>1. shown' \in ShownSet
    BY <1>1, TypeParts DEF SegmentsArrive, Types, ShownSet, OrNone
  <2>2. QED  BY <1>1, <2>1, TypeParts DEF SegmentsArrive, Types
<1>2. CASE ConsentArrives(i)
  <2>1. consent' \in ConsentSet
    BY <1>2, TypeParts DEF ConsentArrives, Types, ConsentSet, OrNone
  <2>2. QED  BY <1>2, <2>1, TypeParts DEF ConsentArrives, Types
<1>3. QED  BY <1>1, <1>2

LEMMA StopClickedType ==
  ASSUME TypeOK, StopClicked
  PROVE  TypeOK'
<1> USE DEF StopClicked
<1>1. talk' \in TalkSet /\ live' \subseteq Recordings
  BY TypeParts DEF Types, TalkSet
<1>2. CASE page.ws # None /\ sock[page.ws] = "open"
  <2>1. page' \in PageSet /\ timers' \subseteq Recordings
    BY <1>2, TypeParts DEF Types, PageSet, OrNone
  <2>2. server' \in [Recordings -> Known]
    BY <1>2, SendsPhase
  <2>3. QED  BY <1>1, <1>2, <2>1, <2>2, TypeParts DEF Types
<1>3. CASE ~(page.ws # None /\ sock[page.ws] = "open")
  <2>1. page' \in PageSet /\ timers' \subseteq Recordings
    BY <1>3, TypeParts DEF Types, PageSet, OrNone
  <2>2. shown' \in ShownSet
    BY <1>3, TypeParts, BarType DEF Types, ShownSet
  <2>3. QED  BY <1>1, <1>3, <2>1, <2>2, TypeParts DEF Types
<1>4. QED  BY <1>2, <1>3

LEMMA ClearClickedType ==
  ASSUME TypeOK, ClearClicked
  PROVE  TypeOK'
<1> USE DEF ClearClicked
<1>1. page' \in PageSet
  BY TypeParts DEF Types, PageSet, OrNone
<1>2. live' \subseteq Recordings /\ timers' \subseteq Recordings
  BY TypeParts DEF Types
<1>3. sock' \in [Recordings -> SockSet]
  BY ClosePageSocketType
<1>4. talk' \in TalkSet
  BY TypeParts DEF Types, TalkSet
<1>5. shown' \in ShownSet /\ consent' \in ConsentSet
  BY TypeParts DEF Types, NothingShown, ShownSet, ConsentSet, OrNone
<1>6. QED  BY <1>1, <1>2, <1>3, <1>4, <1>5, TypeParts DEF Types

LEMMA WatchdogFiresType ==
  ASSUME TypeOK, NEW w \in Recordings, WatchdogFires(w)
  PROVE  TypeOK'
<1> USE DEF WatchdogFires
<1>1. page' \in PageSet /\ timers' \subseteq Recordings
  BY TypeParts DEF Types, PageSet, OrNone
<1>2. sock' \in [Recordings -> SockSet]
  BY ClosePageSocketType
<1>3. shown' \in ShownSet
  BY TypeParts, BarType DEF Types, ShownSet
<1>4. QED  BY <1>1, <1>2, <1>3, TypeParts DEF Types

(* What the server knows after the push-to-talk switch was moved.          *)
LEMMA PttSent ==
  ASSUME TypeOK, TogglePtt
  PROVE  /\ server' \in [Recordings -> Known]
         /\ \A j \in Recordings : server'[j] =
              IF Connected /\ j = page.ws
              THEN [server[j] EXCEPT !.ptt = ~talk.ptt, !.speaking = @ /\ ~talk.held]
              ELSE server[j]
<1>1. talk.ptt \in BOOLEAN /\ talk.held \in BOOLEAN
  BY TypeParts DEF Types, TalkSet
<1>2. server \in [Recordings -> Known]
  BY TypeParts DEF Types
<1>3. CASE Connected
  <2> DEFINE told == [server[page.ws] EXCEPT !.ptt = ~talk.ptt, !.speaking = @ /\ ~talk.held]
  <2>1. page.ws \in Recordings /\ server' = [server EXCEPT ![page.ws] = told]
    BY <1>2, <1>3, ConnectedSocket DEF TogglePtt
  <2>2. told \in Known
    BY <1>1, <1>2, <2>1 DEF Known
  <2> HIDE DEF told
  <2>3. server' \in [Recordings -> Known]
        /\ \A j \in Recordings : server'[j] = IF j = page.ws THEN told ELSE server[j]
    BY <1>2, <2>1, <2>2
  <2>4. QED  BY <1>3, <2>3 DEF told
<1>4. CASE ~Connected
  BY <1>2, <1>4 DEF TogglePtt
<1>5. QED  BY <1>3, <1>4

LEMMA TalkTypes ==
  ASSUME TypeOK, ToggleTranscript \/ TogglePtt \/ SpaceDown \/ SpaceUp \/ MuteClicked
  PROVE  TypeOK'
<1>1. CASE ToggleTranscript
  <2>1. consent' \in ConsentSet
    BY <1>1, TypeParts DEF ToggleTranscript, Types, ConsentSet, OrNone
  <2>2. (~consent.host) \in BOOLEAN
    BY TypeParts DEF Types, ConsentSet
  <2>3. server' \in [Recordings -> Known]
    BY <1>1, <2>2, SendsRequested DEF ToggleTranscript
  <2>4. QED  BY <1>1, <2>1, <2>3, TypeParts DEF ToggleTranscript, Types
<1>2. CASE TogglePtt
  <2>1. talk' \in TalkSet
    BY <1>2, TypeParts DEF TogglePtt, Types, TalkSet
  <2>2. server' \in [Recordings -> Known]
    BY <1>2, PttSent
  <2>3. QED  BY <1>2, <2>1, <2>2, TypeParts DEF TogglePtt, Types
<1>3. CASE SpaceDown
  <2>1. talk' \in TalkSet
    BY <1>3, TypeParts DEF SpaceDown, Types, TalkSet
  <2>2. server' \in [Recordings -> Known]
    BY <1>3, SendsSpeaking DEF SpaceDown
  <2>3. QED  BY <1>3, <2>1, <2>2, TypeParts DEF SpaceDown, Types
<1>4. CASE SpaceUp
  <2>1. talk' \in TalkSet
    BY <1>4, TypeParts DEF SpaceUp, Types, TalkSet
  <2>2. server' \in [Recordings -> Known]
    BY <1>4, SendsSpeaking DEF SpaceUp
  <2>3. QED  BY <1>4, <2>1, <2>2, TypeParts DEF SpaceUp, Types
<1>5. CASE MuteClicked
  <2>1. talk' \in TalkSet
    BY <1>5, TypeParts DEF MuteClicked, Types, TalkSet
  <2>2. QED  BY <1>5, <2>1, TypeParts DEF MuteClicked, Types
<1>6. QED  BY <1>1, <1>2, <1>3, <1>4, <1>5

(* The page's variables are what they should be.                           *)
THEOREM TypeCorrect == Spec => []TypeOK
<1>1. TypeOK /\ [Next]_vars => TypeOK'
  <2> SUFFICES ASSUME TypeOK, [Next]_vars  PROVE TypeOK'
    OBVIOUS
  <2>1. CASE UNCHANGED vars
    BY <2>1 DEF vars, TypeOK
  <2>2. CASE StartClicked \/ StopClicked \/ ClearClicked
    BY <2>2, StartClickedType, StopClickedType, ClearClickedType
  <2>3. ASSUME NEW i \in Recordings,
               \/ MicGranted(i) \/ StartFails(i) \/ WorkletLoaded(i)
               \/ SocketOpens(i) \/ ConfigAck(i) \/ SocketCloses(i)
               \/ SegmentsArrive(i) \/ ConsentArrives(i) \/ WatchdogFires(i)
        PROVE  TypeOK'
    BY <2>3, MicGrantedType, StartFailsType, WorkletLoadedType, SocketOpensType,
       ConfigAckType, SocketClosesType, ArriveTypes, WatchdogFiresType
  <2>4. QED
    BY <2>1, <2>2, <2>3, TalkTypes DEF Next
<1>2. QED  BY <1>1, InitType, PTL DEF Spec
-----------------------------------------------------------------------------
(* The inductive invariant. *)

\* Nothing is final on a cleared page either: the bar cannot come back.  What
\* is kept for the download is drawn.
ClearedInv ==
  /\ page.cleared => /\ shown.from = None /\ shown.bubbles = None
                     /\ ~shown.final /\ ~shown.bar
  /\ DrawnIsKept

\* What has not begun has left no trace, and the page's socket is not closed.
StartInv ==
  /\ \A i \in Recordings : i > started => start[i] = "unused"
  /\ \A i \in Recordings : start[i] \in {"unused", "mic", "worklet"} => sock[i] = "none"
  /\ page.ws # None => sock[page.ws] \in {"connecting", "open", "closing"}
  /\ talk.held => page.recording /\ talk.ptt

\* Unless recordings overlap, only the last one has a suspended start or a
\* socket, which is the page's while it records.
LastInv ==
  ~overlap =>
    /\ \A i \in Recordings : i # started => start[i] \notin {"mic", "worklet"}
                                           /\ sock[i] \in {"none", "closed"}
    /\ \A i \in Recordings : start[i] = "worklet" => page.mic = i
    /\ page.recording => /\ started # 0 /\ start[started] = "running"
                         /\ sock[started] \in {"connecting", "open"} => page.ws = started
    /\ shown.from \in {None, started} /\ consent.viewer \in {None, started}

\* Before config_ack the server may not have heard of the request for a
\* transcript; what it has heard is what the page has.
ToggleInv ==
  /\ \A i \in Recordings :
       server[i].phase = "idle" \/ sock[i] \in {"none", "connecting"} => server[i] = Idle
  /\ \A i \in Recordings :
       page.recording /\ page.ws = i /\ sock[i] = "open" /\ ~page.cleared /\ ~overlap
         /\ server[i].phase \in {"configured", "acked"}
       => /\ server[i].ptt = talk.ptt
          /\ server[i].requested => consent.host
          /\ server[i].phase = "acked" => server[i].requested = consent.host
          /\ server[i].speaking => talk.held

HostInv ==
  TypeOK /\ ClearedInv /\ StartInv /\ LastInv /\ MicReleased /\ PushToTalk /\ ToggleInv
-----------------------------------------------------------------------------
(* Every action preserves the invariant. *)

LEMMA InitHost == Init => HostInv
<1> SUFFICES ASSUME Init  PROVE HostInv
  OBVIOUS
<1>1. ClearedInv /\ StartInv /\ LastInv /\ MicReleased /\ PushToTalk
  BY RecordingsFacts DEF Init, NothingShown, ClearedInv, DrawnIsKept, StartInv, LastInv,
      MicReleased, PushToTalk
<1>2. ToggleInv
  BY DEF Init, ToggleInv, Idle
<1>3. QED  BY <1>1, <1>2, InitType DEF HostInv

(* A start that does not overlap finds nothing left of what came before.   *)
LEMMA StartClickedHost ==
  ASSUME HostInv, StartClicked
  PROVE  HostInv'
<1> USE DEF StartClicked
<1>1. started \in Nat /\ started' = started + 1 /\ started' \in Recordings
  BY RecordingsFacts DEF HostInv, TypeOK, Recordings
<1>2. /\ ~page'.recording /\ ~page'.cleared /\ page'.ws = page.ws /\ page'.mic = page.mic
      /\ ~page.recording
  BY TypeParts DEF HostInv, Types, PageSet
<1>3. \A i \in Recordings : start'[i] = IF i = started' THEN "mic" ELSE start[i]
  BY <1>1 DEF HostInv, TypeOK
<1>4. ClearedInv'
  <2>1. shown'.from = None
    BY TypeParts DEF HostInv, Types, ShownSet
  <2>2. QED  BY <1>2, <2>1 DEF ClearedInv, DrawnIsKept
<1>5. StartInv'
  BY <1>1, <1>2, <1>3, RecordingsFacts DEF HostInv, StartInv
<1>6. LastInv'
  <2> SUFFICES ASSUME ~overlap'  PROVE LastInv'
    BY DEF LastInv
  <2>1. ~overlap /\ ~Busy
    BY DEF HostInv, TypeOK
  <2>2. \A i \in Recordings : start[i] \notin {"mic", "worklet"} /\ sock[i] \in {"none", "closed"}
    BY <2>1 DEF Busy
  <2>3. shown'.from = None /\ consent'.viewer = None
    BY TypeParts DEF HostInv, Types, ShownSet, ConsentSet
  <2>4. QED  BY <1>1, <1>2, <1>3, <2>2, <2>3 DEF LastInv
<1>7. MicReleased'
  <2>1. start[started'] = "unused"
    BY <1>1 DEF HostInv, StartInv
  <2>2. overlap' \/ ~overlap
    BY DEF HostInv, TypeOK
  <2>3. QED  BY <1>2, <1>3, <2>1, <2>2, RecordingsFacts DEF HostInv, MicReleased, TypeOK
<1>8. PushToTalk' /\ ToggleInv'
  BY <1>2 DEF PushToTalk, ToggleInv, HostInv
<1>9. QED  BY <1>4, <1>5, <1>6, <1>7, <1>8, StartClickedType DEF HostInv

LEMMA MicGrantedHost ==
  ASSUME HostInv, NEW i \in Recordings, MicGranted(i)
  PROVE  HostInv'
<1> USE DEF MicGranted
<1>1. /\ page'.recording = page.recording /\ page'.cleared = page.cleared
      /\ page'.ws = page.ws /\ page'.mic = i
  BY TypeParts DEF HostInv, Types, PageSet
<1>2. \A j \in Recordings : start'[j] = IF j = i THEN "worklet" ELSE start[j]
  BY DEF HostInv, TypeOK
<1>3. ~overlap => i = started /\ ~page.recording
  BY DEF HostInv, LastInv
<1>4. ClearedInv' /\ StartInv' /\ PushToTalk'
  BY <1>1, <1>2 DEF HostInv, ClearedInv, DrawnIsKept, StartInv, PushToTalk
<1>5. LastInv'
  BY <1>1, <1>2, <1>3 DEF HostInv, LastInv
<1>6. MicReleased'
  BY <1>1, <1>2, <1>3, TypeParts DEF HostInv, MicReleased, Types
<1>7. ToggleInv'
  BY <1>1 DEF HostInv, ToggleInv
<1>8. QED  BY <1>4, <1>5, <1>6, <1>7, MicGrantedType DEF HostInv

LEMMA StartFailsHost ==
  ASSUME HostInv, NEW i \in Recordings, StartFails(i)
  PROVE  HostInv'
<1> USE DEF StartFails
<1>1. \A j \in Recordings : start'[j] = IF j = i THEN "failed" ELSE start[j]
  BY DEF HostInv, TypeOK
<1>2. ~overlap => i = started /\ ~page.recording
  BY DEF HostInv, LastInv
<1>3. ClearedInv' /\ StartInv' /\ PushToTalk' /\ ToggleInv'
  BY <1>1 DEF HostInv, ClearedInv, DrawnIsKept, StartInv, PushToTalk, ToggleInv
<1>4. LastInv'
  BY <1>1, <1>2 DEF HostInv, LastInv
<1>5. MicReleased'
  BY <1>1, <1>2, TypeParts DEF HostInv, MicReleased, Types
<1>6. QED  BY <1>3, <1>4, <1>5, StartFailsType DEF HostInv

LEMMA WorkletLoadedHost ==
  ASSUME HostInv, NEW i \in Recordings, WorkletLoaded(i)
  PROVE  HostInv'
<1> USE DEF WorkletLoaded
<1>1. page'.recording /\ page'.cleared = page.cleared /\ page'.ws = i /\ page'.mic = page.mic
  BY TypeParts DEF HostInv, Types, PageSet
<1>2. /\ \A j \in Recordings : start'[j] = IF j = i THEN "running" ELSE start[j]
      /\ \A j \in Recordings : sock'[j] = IF j = i THEN "connecting" ELSE sock[j]
  BY DEF HostInv, TypeOK
<1>3. talk'.ptt = talk.ptt /\ talk'.held = talk.held /\ talk'.muted = talk.ptt
  BY TypeParts DEF HostInv, Types, TalkSet
<1>4. ~overlap => i = started /\ ~page.recording /\ page.mic = i
  BY DEF HostInv, LastInv
<1>5. ClearedInv'
  BY <1>1 DEF HostInv, ClearedInv, DrawnIsKept
<1>6. StartInv'
  BY <1>1, <1>2, <1>3 DEF HostInv, StartInv
<1>7. LastInv'
  BY <1>1, <1>2, <1>4, RecordingsFacts DEF HostInv, LastInv
<1>8. MicReleased'
  BY <1>1, <1>2, <1>4, TypeParts DEF HostInv, MicReleased, Types
<1>9. PushToTalk'
  BY <1>1, <1>3, <1>4 DEF HostInv, PushToTalk, StartInv
<1>10. ToggleInv'
  BY <1>1, <1>2 DEF HostInv, ToggleInv, StartInv
<1>11. QED  BY <1>5, <1>6, <1>7, <1>8, <1>9, <1>10, WorkletLoadedType DEF HostInv

(* The config goes out with the toggle as it is, on the page's socket.     *)
LEMMA SocketOpensHost ==
  ASSUME HostInv, NEW i \in Recordings, SocketOpens(i)
  PROVE  HostInv'
<1>0. UNCHANGED <<started, overlap, start, live, timers, page, talk, consent>>
  BY DEF SocketOpens
<1>1. sock[i] = "connecting" /\ \A j \in Recordings : sock'[j] = IF j = i THEN "open" ELSE sock[j]
  BY DEF HostInv, TypeOK, SocketOpens
<1>2. /\ shown'.from = shown.from /\ shown'.bubbles = shown.bubbles
      /\ shown'.final = shown.final /\ shown'.bar = shown.bar
  BY TypeParts DEF HostInv, Types, ShownSet, SocketOpens
<1>3. page.ws \in Recordings \cup {None} /\ talk.ptt \in BOOLEAN /\ page.recording \in BOOLEAN
  BY TypeParts DEF HostInv, Types, PageSet, TalkSet, OrNone
<1>4. \A j \in Recordings : server'[j] =
        IF page.ws = j /\ sock'[j] = "open"
        THEN [server[j] EXCEPT !.phase = "configured", !.ptt = talk.ptt] ELSE server[j]
  BY <1>3, RecordingsFacts, TypeParts DEF HostInv, Types, Known, SocketOpens
<1>5. ~overlap => i = started /\ (page.recording => page.ws = i)
  BY <1>1 DEF HostInv, LastInv
<1>6. ClearedInv' /\ MicReleased' /\ PushToTalk'
  BY <1>0, <1>2 DEF HostInv, ClearedInv, DrawnIsKept, MicReleased, PushToTalk
<1>7. StartInv'
  BY <1>0, <1>1, <1>3 DEF HostInv, StartInv
<1>8. LastInv'
  BY <1>0, <1>1, <1>2, <1>5, RecordingsFacts DEF HostInv, LastInv
<1>9. ToggleInv'
  <2>1. ASSUME NEW j \in Recordings, server'[j].phase = "idle" \/ sock'[j] \in {"none", "connecting"}
        PROVE  server'[j] = Idle
    <3>1. ~(page.ws = j /\ sock'[j] = "open")
      <4> SUFFICES ASSUME page.ws = j, sock'[j] = "open"  PROVE FALSE
        OBVIOUS
      <4>1. server'[j].phase = "configured"
        BY <1>4, TypeParts DEF HostInv, Types, Known
      <4>2. QED  BY <2>1, <4>1
    <3>2. server[j].phase = "idle" \/ sock[j] \in {"none", "connecting"}
      BY <1>1, <1>4, <2>1, <3>1
    <3>3. QED  BY <1>4, <3>1, <3>2 DEF HostInv, ToggleInv
  <2>2. ASSUME NEW j \in Recordings,
               page.recording, page.ws = j, sock'[j] = "open", ~page.cleared, ~overlap,
               server'[j].phase \in {"configured", "acked"}
        PROVE  /\ server'[j].ptt = talk.ptt
               /\ server'[j].requested => consent.host
               /\ server'[j].phase = "acked" => server'[j].requested = consent.host
               /\ server'[j].speaking => talk.held
    <3>1. j = i /\ server[i] = Idle
      BY <1>1, <1>5, <2>2 DEF HostInv, ToggleInv
    <3>2. server'[i] = [Idle EXCEPT !.phase = "configured", !.ptt = talk.ptt]
      BY <1>4, <2>2, <3>1
    <3>3. /\ server'[i].phase = "configured" /\ server'[i].ptt = talk.ptt
          /\ ~server'[i].requested /\ ~server'[i].speaking
      BY <3>2 DEF Idle
    <3>4. QED  BY <3>1, <3>3
  <2>3. QED  BY <1>0, <2>1, <2>2 DEF ToggleInv
<1>10. QED  BY <1>6, <1>7, <1>8, <1>9, SocketOpensType DEF HostInv

(* The acknowledgement brings the server up to the toggles.                *)
LEMMA ConfigAckHost ==
  ASSUME HostInv, NEW i \in Recordings, ConfigAck(i)
  PROVE  HostInv'
<1>1. /\ sock[i] = "open" /\ server[i].phase = "configured"
      /\ UNCHANGED <<started, overlap, start, sock, live, timers, page, talk, shown, consent>>
  BY DEF ConfigAck
<1>2. /\ talk.ptt \in BOOLEAN /\ consent.host \in BOOLEAN
      /\ \A j \in Recordings : server[j] \in Known
  BY TypeParts DEF HostInv, Types, TalkSet, ConsentSet
<1>3. \A j \in Recordings : server'[j] =
        IF j = page.ws /\ Connected /\ ~page.cleared
        THEN [server[j] EXCEPT !.phase = IF j = i THEN "acked" ELSE @,
                               !.ptt = @ \/ talk.ptt, !.requested = @ \/ consent.host]
        ELSE [server[j] EXCEPT !.phase = IF j = i THEN "acked" ELSE @]
  BY DEF ConfigAck
<1>4. ASSUME NEW j \in Recordings
      PROVE  server'[j].phase = IF j = i THEN "acked" ELSE server[j].phase
  <2>1. CASE j = page.ws /\ Connected /\ ~page.cleared
    BY <1>2, <1>3, <2>1 DEF Known
  <2>2. CASE ~(j = page.ws /\ Connected /\ ~page.cleared)
    BY <1>2, <1>3, <2>2 DEF Known
  <2>3. QED  BY <2>1, <2>2
<1>5. ClearedInv' /\ StartInv' /\ LastInv' /\ MicReleased' /\ PushToTalk'
  <2>1. ClearedInv' /\ StartInv' /\ PushToTalk'
    BY <1>1 DEF HostInv, ClearedInv, DrawnIsKept, StartInv, PushToTalk
  <2>2. LastInv'
    BY <1>1 DEF HostInv, LastInv
  <2>3. MicReleased'
    BY <1>1 DEF HostInv, MicReleased
  <2>4. QED  BY <2>1, <2>2, <2>3
<1>6. ASSUME NEW j \in Recordings, server'[j].phase = "idle" \/ sock[j] \in {"none", "connecting"}
      PROVE  server'[j] = Idle
  <2>1. j # i /\ (server[j].phase = "idle" \/ sock[j] \in {"none", "connecting"})
    BY <1>1, <1>4, <1>6
  <2>2. server[j] = Idle
    BY <2>1 DEF HostInv, ToggleInv
  <2>3. ~(j = page.ws /\ Connected)
    <3>1. server[j].phase = "idle"
      BY <2>2 DEF Idle
    <3>2. QED  BY <3>1 DEF Connected
  <2>4. QED  BY <1>3, <2>1, <2>2, <2>3 DEF Idle
<1>7. ASSUME NEW j \in Recordings,
             page.recording, page.ws = j, sock[j] = "open", ~page.cleared, ~overlap
      PROVE  /\ server'[j].ptt = talk.ptt
             /\ server'[j].requested = consent.host
             /\ server'[j].speaking => talk.held
  <2>1. j = i
    BY <1>1, <1>7 DEF HostInv, LastInv
  <2>2. Connected
    BY <1>1, <1>7, <2>1, RecordingsFacts DEF Connected
  <2>3. /\ server[i].ptt = talk.ptt
        /\ server[i].requested => consent.host
        /\ server[i].speaking => talk.held
    BY <1>1, <1>7, <2>1 DEF HostInv, ToggleInv
  <2>4. /\ server'[i].ptt \in BOOLEAN /\ server'[i].requested \in BOOLEAN
        /\ server'[i].ptt <=> server[i].ptt \/ talk.ptt
        /\ server'[i].requested <=> server[i].requested \/ consent.host
        /\ server'[i].speaking = server[i].speaking
    BY <1>2, <1>3, <1>7, <2>1, <2>2 DEF Known
  <2>5. (server'[i].ptt <=> talk.ptt) /\ (server'[i].requested <=> consent.host)
    BY <2>3, <2>4
  <2>6. server'[i].ptt = talk.ptt /\ server'[i].requested = consent.host
    BY <1>2, <2>4, <2>5
  <2>7. QED  BY <2>1, <2>3, <2>4, <2>6
<1>8. ToggleInv'
  <2>1. ASSUME NEW j \in Recordings,
               page'.recording, page'.ws = j, sock'[j] = "open", ~page'.cleared, ~overlap'
        PROVE  /\ server'[j].ptt = talk'.ptt
               /\ server'[j].requested = consent'.host
               /\ server'[j].speaking => talk'.held
    BY <1>1, <1>7, <2>1
  <2>2. \A j \in Recordings :
          server'[j].phase = "idle" \/ sock'[j] \in {"none", "connecting"} => server'[j] = Idle
    BY <1>1, <1>6
  <2>3. QED  BY <2>1, <2>2 DEF ToggleInv
<1>9. QED  BY <1>5, <1>8, ConfigAckType DEF HostInv

LEMMA SocketClosesHost ==
  ASSUME HostInv, NEW i \in Recordings, SocketCloses(i)
  PROVE  HostInv'
<1> USE DEF SocketCloses
<1>1. /\ page'.recording = page.recording /\ page'.cleared = page.cleared
      /\ page'.ws = None /\ page'.mic = page.mic
  BY TypeParts DEF HostInv, Types, PageSet
<1>2. \A j \in Recordings : sock'[j] = IF j = i THEN "closed" ELSE sock[j]
  BY DEF HostInv, TypeOK
<1>3. /\ shown'.from = shown.from /\ shown'.bubbles = shown.bubbles /\ shown'.final = shown.final
      /\ shown'.bar => shown.bar \/ shown.final
  BY TypeParts DEF HostInv, Types, ShownSet, Bar, MayDownload
<1>4. \A j \in Recordings : server'[j] = IF j = i THEN Idle ELSE server[j]
  BY DEF HostInv, TypeOK
<1>5. ~overlap => i = started
  BY DEF HostInv, LastInv
<1>6. ClearedInv' /\ MicReleased' /\ PushToTalk'
  BY <1>1, <1>3 DEF HostInv, ClearedInv, DrawnIsKept, MicReleased, PushToTalk
<1>7. StartInv'
  BY <1>1, <1>2 DEF HostInv, StartInv
<1>8. LastInv'
  BY <1>1, <1>2, <1>3, <1>5, RecordingsFacts DEF HostInv, LastInv
<1>9. ToggleInv'
  BY <1>1, <1>2, <1>4, RecordingsFacts DEF HostInv, ToggleInv
<1>10. QED  BY <1>6, <1>7, <1>8, <1>9, SocketClosesType DEF HostInv

LEMMA ArriveHost ==
  ASSUME HostInv, NEW i \in Recordings, SegmentsArrive(i) \/ ConsentArrives(i)
  PROVE  HostInv'
<1>1. /\ ~page.cleared /\ sock[i] = "open"
      /\ UNCHANGED <<started, overlap, start, sock, live, timers, page, talk, server>>
  BY DEF SegmentsArrive, ConsentArrives, Delivered
<1>2. ~overlap => i = started
  BY <1>1 DEF HostInv, LastInv
<1>3. /\ shown'.from \in {shown.from, i} /\ consent'.viewer \in {consent.viewer, i}
      /\ consent'.host = consent.host
      /\ shown' = shown \/ shown'.bubbles = shown'.from
  BY TypeParts DEF HostInv, Types, ShownSet, ConsentSet, SegmentsArrive, ConsentArrives
<1>4. ClearedInv' /\ StartInv' /\ MicReleased' /\ PushToTalk'
  BY <1>1, <1>3 DEF HostInv, ClearedInv, DrawnIsKept, StartInv, MicReleased, PushToTalk
<1>5. LastInv'
  BY <1>1, <1>2, <1>3 DEF HostInv, LastInv
<1>6. ToggleInv'
  BY <1>1, <1>3 DEF HostInv, ToggleInv
<1>7. QED  BY <1>4, <1>5, <1>6, ArriveTypes DEF HostInv

(* A stop ends the recording and gives the microphone back.                *)
LEMMA StopClickedHost ==
  ASSUME HostInv, StopClicked
  PROVE  HostInv'
<1>1. /\ page.recording /\ live' = live \ {page.mic}
      /\ UNCHANGED <<started, overlap, start, sock, consent>>
  BY DEF StopClicked
<1>2. /\ ~page'.recording /\ page'.cleared = page.cleared /\ page'.ws = page.ws
      /\ ~talk'.held
  BY TypeParts DEF HostInv, Types, PageSet, TalkSet, StopClicked
<1>3. /\ shown'.from = shown.from /\ shown'.bubbles = shown.bubbles /\ shown'.final = shown.final
      /\ shown'.bar => shown.bar \/ shown.final
  BY TypeParts DEF HostInv, Types, ShownSet, Bar, MayDownload, StopClicked
<1>4. ClearedInv' /\ PushToTalk'
  BY <1>2, <1>3 DEF HostInv, ClearedInv, DrawnIsKept, PushToTalk
<1>5. StartInv'
  BY <1>1, <1>2 DEF HostInv, StartInv
<1>6. LastInv'
  BY <1>1, <1>2, <1>3, RecordingsFacts DEF HostInv, LastInv
<1>7. MicReleased'
  BY <1>1 DEF HostInv, MicReleased
<1>8. ToggleInv'
  <2>1. ASSUME NEW j \in Recordings,
               server'[j].phase = "idle" \/ sock[j] \in {"none", "connecting"}
        PROVE  server'[j] = Idle
    <3>1. \/ server'[j] = server[j]
          \/ Connected /\ j = page.ws /\ server'[j].phase = "draining"
      <4>1. CASE server' = server
        BY <4>1
      <4>2. CASE server' = Send("phase", "draining")
        <5>1. server[j] \in Known
          BY TypeParts DEF HostInv, Types
        <5>2. server'[j] = IF Connected /\ j = page.ws
                           THEN [server[j] EXCEPT !.phase = "draining"] ELSE server[j]
          BY <4>2, SendsPhase DEF HostInv
        <5>3. QED  BY <5>1, <5>2 DEF Known
      <4>3. QED  BY <4>1, <4>2 DEF StopClicked
    <3>2. server'[j] = server[j]
      BY <2>1, <3>1 DEF Connected
    <3>3. QED  BY <2>1, <3>2 DEF HostInv, ToggleInv
  <2>2. QED  BY <1>1, <1>2, <2>1 DEF ToggleInv
<1>9. QED  BY <1>4, <1>5, <1>6, <1>7, <1>8, StopClickedType DEF HostInv

LEMMA ClearClickedHost ==
  ASSUME HostInv, ClearClicked
  PROVE  HostInv'
<1>1. /\ sock' = ClosePageSocket
      /\ UNCHANGED <<started, overlap, start, server>>
      /\ page.recording => live' = live \ {page.mic}
      /\ ~page.recording => live' = live
  BY DEF ClearClicked
<1>2. /\ ~page'.recording /\ page'.ws = None
      /\ ~page.recording => page'.mic = page.mic
  BY TypeParts DEF HostInv, Types, PageSet, ClearClicked
<1>3. /\ shown'.from = None /\ shown'.bubbles = None /\ ~shown'.bar /\ ~shown'.final
      /\ consent'.viewer = None
  BY TypeParts DEF HostInv, Types, NothingShown, ConsentSet, ClearClicked
<1>4. ~talk'.held
  BY TypeParts DEF HostInv, StartInv, Types, TalkSet, ClearClicked
<1>5. \A j \in Recordings :
        sock'[j] = IF j = page.ws /\ sock[j] \in {"connecting", "open"} THEN "closing" ELSE sock[j]
  BY <1>1, ClosePageSocketType DEF HostInv
<1>6. ClearedInv' /\ PushToTalk'
  BY <1>2, <1>3 DEF ClearedInv, DrawnIsKept, PushToTalk
<1>7. StartInv'
  BY <1>1, <1>2, <1>4, <1>5 DEF HostInv, StartInv
<1>8. LastInv'
  BY <1>1, <1>2, <1>3, <1>5 DEF HostInv, LastInv
<1>9. MicReleased'
  BY <1>1 DEF HostInv, MicReleased
<1>10. ToggleInv'
  BY <1>1, <1>2, <1>5 DEF HostInv, ToggleInv
<1>11. QED  BY <1>6, <1>7, <1>8, <1>9, <1>10, ClearClickedType DEF HostInv

LEMMA WatchdogFiresHost ==
  ASSUME HostInv, NEW w \in Recordings, WatchdogFires(w)
  PROVE  HostInv'
<1>1. sock' = ClosePageSocket /\ UNCHANGED <<started, overlap, start, live, talk, consent, server>>
  BY DEF WatchdogFires
<1>2. /\ page'.recording = page.recording /\ page'.cleared = page.cleared
      /\ page'.ws = page.ws /\ page'.mic = page.mic
  BY TypeParts DEF HostInv, Types, PageSet, WatchdogFires
<1>3. /\ shown'.from = shown.from /\ shown'.bubbles = shown.bubbles /\ shown'.final = shown.final
      /\ shown'.bar => shown.bar \/ shown.final
  BY TypeParts DEF HostInv, Types, ShownSet, Bar, MayDownload, WatchdogFires
<1>4. \A j \in Recordings :
        sock'[j] = IF j = page.ws /\ sock[j] \in {"connecting", "open"} THEN "closing" ELSE sock[j]
  BY <1>1, ClosePageSocketType DEF HostInv
<1>5. ClearedInv' /\ PushToTalk'
  BY <1>1, <1>2, <1>3 DEF HostInv, ClearedInv, DrawnIsKept, PushToTalk
<1>6. StartInv'
  <2>1. page.ws \in Recordings \cup {None}
    BY TypeParts DEF HostInv, Types, PageSet, OrNone
  <2>2. QED  BY <1>1, <1>2, <1>4, <2>1 DEF HostInv, StartInv
<1>7. LastInv'
  <2>1. started # 0 => started \in Recordings
    BY RecordingsFacts DEF HostInv, TypeOK, Recordings
  <2>2. QED  BY <1>1, <1>2, <1>3, <1>4, <2>1 DEF HostInv, LastInv
<1>8. MicReleased'
  BY <1>1, <1>2 DEF HostInv, MicReleased
<1>9. ToggleInv'
  BY <1>1, <1>2, <1>4 DEF HostInv, ToggleInv
<1>10. QED  BY <1>5, <1>6, <1>7, <1>8, <1>9, WatchdogFiresType DEF HostInv

(* The request for a transcript is known as soon as it is made.            *)
LEMMA ToggleTranscriptHost ==
  ASSUME HostInv, ToggleTranscript
  PROVE  HostInv'
<1>1. UNCHANGED <<started, overlap, start, sock, live, timers, page, talk, shown>>
  BY DEF ToggleTranscript
<1>2. /\ (~consent.host) \in BOOLEAN /\ consent'.host = ~consent.host
      /\ consent'.viewer \in {None, consent.viewer}
  BY TypeParts DEF HostInv, Types, ConsentSet, ToggleTranscript
<1>3. \A j \in Recordings : server'[j] =
        IF Connected /\ j = page.ws THEN [server[j] EXCEPT !.requested = ~consent.host]
                                    ELSE server[j]
  BY <1>2, SendsRequested DEF HostInv, ToggleTranscript
<1>4. \A j \in Recordings : server[j] \in Known
  BY TypeParts DEF HostInv, Types
<1>5. ClearedInv' /\ StartInv' /\ MicReleased' /\ PushToTalk'
  <2>1. ClearedInv' /\ StartInv' /\ PushToTalk'
    BY <1>1 DEF HostInv, ClearedInv, DrawnIsKept, StartInv, PushToTalk
  <2>2. MicReleased'
    BY <1>1 DEF HostInv, MicReleased
  <2>3. QED  BY <2>1, <2>2
<1>6. LastInv'
  BY <1>1, <1>2 DEF HostInv, LastInv
<1>7. ASSUME NEW j \in Recordings
      PROVE  /\ server'[j].phase = server[j].phase /\ server'[j].ptt = server[j].ptt
             /\ server'[j].speaking = server[j].speaking
             /\ server[j].phase = "idle" => server'[j] = server[j]
             /\ page.ws = j /\ sock[j] = "open" /\ server[j].phase # "idle"
                => server'[j].requested = ~consent.host
  <2>1. CASE Connected /\ j = page.ws
    <3>1. server'[j] = [server[j] EXCEPT !.requested = ~consent.host]
      BY <1>3, <2>1
    <3>2. QED  BY <1>4, <2>1, <3>1 DEF Known, Connected
  <2>2. CASE ~(Connected /\ j = page.ws)
    BY <1>3, <2>2, RecordingsFacts DEF Connected
  <2>3. QED  BY <2>1, <2>2
<1>8. ToggleInv'
  <2>1. ASSUME NEW j \in Recordings, server'[j].phase = "idle" \/ sock[j] \in {"none", "connecting"}
        PROVE  server'[j] = Idle
    <3>1. server[j] = Idle
      BY <1>7, <2>1 DEF HostInv, ToggleInv
    <3>2. QED  BY <1>7, <3>1 DEF Idle
  <2>2. ASSUME NEW j \in Recordings,
               page.recording, page.ws = j, sock[j] = "open", ~page.cleared, ~overlap,
               server'[j].phase \in {"configured", "acked"}
        PROVE  /\ server'[j].ptt = talk.ptt
               /\ server'[j].requested = consent'.host
               /\ server'[j].speaking => talk.held
    BY <1>2, <1>7, <2>2 DEF HostInv, ToggleInv
  <2>3. QED  BY <1>1, <2>1, <2>2 DEF ToggleInv
<1>9. QED  BY <1>5, <1>6, <1>8, TalkTypes DEF HostInv

(* The push-to-talk switch; a speaker who is switched off is released.     *)
LEMMA TogglePttHost ==
  ASSUME HostInv, TogglePtt
  PROVE  HostInv'
<1>1. UNCHANGED <<started, overlap, start, sock, live, timers, page, shown, consent>>
  BY DEF TogglePtt
<1>2. /\ talk.ptt \in BOOLEAN /\ talk'.ptt = ~talk.ptt /\ talk'.muted = ~talk.ptt
      /\ ~talk'.held
  BY TypeParts DEF HostInv, StartInv, Types, TalkSet, TogglePtt
<1>3. \A j \in Recordings : server[j] \in Known
  BY TypeParts DEF HostInv, Types
<1>4. ClearedInv' /\ StartInv' /\ MicReleased' /\ PushToTalk'
  <2>1. ClearedInv' /\ StartInv'
    BY <1>1, <1>2 DEF HostInv, ClearedInv, DrawnIsKept, StartInv
  <2>2. MicReleased'
    BY <1>1 DEF HostInv, MicReleased
  <2>3. PushToTalk'
    BY <1>2 DEF PushToTalk
  <2>4. QED  BY <2>1, <2>2, <2>3
<1>5. LastInv'
  BY <1>1 DEF HostInv, LastInv
<1>6. ASSUME NEW j \in Recordings
      PROVE  /\ server'[j].phase = server[j].phase /\ server'[j].requested = server[j].requested
             /\ server'[j].speaking => server[j].speaking
             /\ server[j].phase = "idle" => server'[j] = server[j]
             /\ page.ws = j /\ sock[j] = "open" /\ server[j].phase # "idle"
                => server'[j].ptt = ~talk.ptt /\ (server'[j].speaking => ~talk.held)
  <2>1. CASE Connected /\ j = page.ws
    <3>1. server'[j] = [server[j] EXCEPT !.ptt = ~talk.ptt, !.speaking = @ /\ ~talk.held]
      BY <2>1, PttSent DEF HostInv
    <3>2. QED  BY <1>3, <2>1, <3>1 DEF Known, Connected
  <2>2. CASE ~(Connected /\ j = page.ws)
    <3>1. server'[j] = server[j]
      BY <2>2, PttSent DEF HostInv
    <3>2. QED  BY <2>2, <3>1, RecordingsFacts DEF Connected
  <2>3. QED  BY <2>1, <2>2
<1>7. ToggleInv'
  <2>1. ASSUME NEW j \in Recordings, server'[j].phase = "idle" \/ sock[j] \in {"none", "connecting"}
        PROVE  server'[j] = Idle
    <3>1. server[j] = Idle
      BY <1>6, <2>1 DEF HostInv, ToggleInv
    <3>2. QED  BY <1>6, <3>1 DEF Idle
  <2>2. ASSUME NEW j \in Recordings,
               page.recording, page.ws = j, sock[j] = "open", ~page.cleared, ~overlap,
               server'[j].phase \in {"configured", "acked"}
        PROVE  /\ server'[j].ptt = talk'.ptt
               /\ server'[j].requested => consent.host
               /\ server'[j].phase = "acked" => server'[j].requested = consent.host
               /\ ~server'[j].speaking
    BY <1>2, <1>6, <2>2 DEF HostInv, ToggleInv
  <2>3. QED  BY <1>1, <2>1, <2>2 DEF ToggleInv
<1>8. QED  BY <1>4, <1>5, <1>7, TalkTypes DEF HostInv

(* The space bar; the server hears of it as soon as the page does.         *)
LEMMA SpaceHost ==
  ASSUME HostInv, SpaceDown \/ SpaceUp
  PROVE  HostInv'
<1>1. /\ UNCHANGED <<started, overlap, start, sock, live, timers, page, shown, consent>>
      /\ talk.ptt /\ page.recording
  BY DEF SpaceDown, SpaceUp
<1>2. /\ talk'.ptt = talk.ptt /\ talk'.held \in BOOLEAN /\ talk'.muted = ~talk'.held
      /\ server' = Send("speaking", talk'.held)
  BY TypeParts DEF HostInv, Types, TalkSet, SpaceDown, SpaceUp
<1>3. \A j \in Recordings : server'[j] =
        IF Connected /\ j = page.ws THEN [server[j] EXCEPT !.speaking = talk'.held] ELSE server[j]
  BY <1>2, SendsSpeaking DEF HostInv
<1>4. \A j \in Recordings : server[j] \in Known
  BY TypeParts DEF HostInv, Types
<1>5. ClearedInv' /\ StartInv' /\ MicReleased' /\ PushToTalk'
  <2>1. ClearedInv' /\ StartInv'
    BY <1>1, <1>2 DEF HostInv, ClearedInv, DrawnIsKept, StartInv
  <2>2. MicReleased'
    BY <1>1 DEF HostInv, MicReleased
  <2>3. PushToTalk'
    BY <1>2 DEF PushToTalk
  <2>4. QED  BY <2>1, <2>2, <2>3
<1>6. LastInv'
  BY <1>1 DEF HostInv, LastInv
<1>7. ASSUME NEW j \in Recordings
      PROVE  /\ server'[j].phase = server[j].phase /\ server'[j].ptt = server[j].ptt
             /\ server'[j].requested = server[j].requested
             /\ server[j].phase = "idle" => server'[j] = server[j]
             /\ page.ws = j /\ sock[j] = "open" /\ server[j].phase # "idle"
                => server'[j].speaking = talk'.held
  <2>1. CASE Connected /\ j = page.ws
    <3>1. server'[j] = [server[j] EXCEPT !.speaking = talk'.held]
      BY <1>3, <2>1
    <3>2. QED  BY <1>4, <2>1, <3>1 DEF Known, Connected
  <2>2. CASE ~(Connected /\ j = page.ws)
    BY <1>3, <2>2, RecordingsFacts DEF Connected
  <2>3. QED  BY <2>1, <2>2
<1>8. ToggleInv'
  <2>1. ASSUME NEW j \in Recordings, server'[j].phase = "idle" \/ sock[j] \in {"none", "connecting"}
        PROVE  server'[j] = Idle
    <3>1. server[j] = Idle
      BY <1>7, <2>1 DEF HostInv, ToggleInv
    <3>2. QED  BY <1>7, <3>1 DEF Idle
  <2>2. ASSUME NEW j \in Recordings,
               page.recording, page.ws = j, sock[j] = "open", ~page.cleared, ~overlap,
               server'[j].phase \in {"configured", "acked"}
        PROVE  /\ server'[j].ptt = talk.ptt
               /\ server'[j].requested => consent.host
               /\ server'[j].phase = "acked" => server'[j].requested = consent.host
               /\ server'[j].speaking => talk'.held
    BY <1>7, <2>2 DEF HostInv, ToggleInv
  <2>3. QED  BY <1>1, <1>2, <2>1, <2>2 DEF ToggleInv
<1>9. QED  BY <1>5, <1>6, <1>8, TalkTypes DEF HostInv

LEMMA MuteClickedHost ==
  ASSUME HostInv, MuteClicked
  PROVE  HostInv'
<1>1. /\ UNCHANGED <<started, overlap, start, sock, live, timers, page, shown, consent, server>>
      /\ ~talk.ptt
  BY DEF MuteClicked
<1>2. talk'.ptt = talk.ptt /\ talk'.held = talk.held
  BY TypeParts DEF HostInv, Types, TalkSet, MuteClicked
<1>3. ClearedInv' /\ StartInv' /\ PushToTalk'
  BY <1>1, <1>2 DEF HostInv, ClearedInv, DrawnIsKept, StartInv, PushToTalk
<1>4. LastInv' /\ MicReleased'
  BY <1>1 DEF HostInv, LastInv, MicReleased
<1>5. ToggleInv'
  BY <1>1, <1>2 DEF HostInv, ToggleInv
<1>6. QED  BY <1>3, <1>4, <1>5, TalkTypes DEF HostInv

(* The inductive invariant holds for any number of recordings.            *)
THEOREM HostInvariant == Spec => []HostInv
<1>1. HostInv /\ [Next]_vars => HostInv'
  <2> SUFFICES ASSUME HostInv, [Next]_vars  PROVE HostInv'
    OBVIOUS
  <2>1. CASE UNCHANGED vars
    <3>1. TypeOK' /\ ClearedInv' /\ StartInv' /\ PushToTalk'
      BY <2>1 DEF vars, HostInv, TypeOK, ClearedInv, DrawnIsKept, StartInv, PushToTalk
    <3>2. LastInv'
      BY <2>1 DEF vars, HostInv, LastInv
    <3>3. MicReleased' /\ ToggleInv'
      BY <2>1 DEF vars, HostInv, MicReleased, ToggleInv
    <3>4. QED  BY <3>1, <3>2, <3>3 DEF HostInv
  <2>2. CASE StartClicked \/ StopClicked \/ ClearClicked
    BY <2>2, StartClickedHost, StopClickedHost, ClearClickedHost
  <2>3. CASE ToggleTranscript \/ TogglePtt \/ SpaceDown \/ SpaceUp \/ MuteClicked
    BY <2>3, ToggleTranscriptHost, TogglePttHost, SpaceHost, MuteClickedHost
  <2>4. ASSUME NEW i \in Recordings,
               \/ MicGranted(i) \/ StartFails(i) \/ WorkletLoaded(i)
               \/ SocketOpens(i) \/ ConfigAck(i) \/ SocketCloses(i)
               \/ SegmentsArrive(i) \/ ConsentArrives(i) \/ WatchdogFires(i)
        PROVE  HostInv'
    BY <2>4, MicGrantedHost, StartFailsHost, WorkletLoadedHost, SocketOpensHost,
       ConfigAckHost, SocketClosesHost, ArriveHost, WatchdogFiresHost
  <2>5. QED  BY <2>1, <2>2, <2>3, <2>4 DEF Next
<1>2. QED  BY <1>1, InitHost, PTL DEF Spec
-----------------------------------------------------------------------------
(* What the runs check, for any number of recordings. *)

(* Whatever sockets, timers and suspended starts are left of the           *)
(* recordings before, a cleared page keeps and draws nothing; unless       *)
(* recordings overlap it keeps segments and consent of the last only; and  *)
(* what it keeps is what it draws.                                         *)
THEOREM ShownHolds == Spec => []ShownOK
<1>1. HostInv => ShownOK
  <2> SUFFICES ASSUME HostInv  PROVE ShownOK
    OBVIOUS
  <2>1. ClearedStaysEmpty
    BY DEF HostInv, ClearedInv, DrawnIsKept, ClearedStaysEmpty
  <2>2. OnlyLastRecording
    BY DEF HostInv, LastInv, OnlyLastRecording, Last
  <2>3. QED  BY <2>1, <2>2 DEF HostInv, ClearedInv, ShownOK
<1>2. QED  BY <1>1, HostInvariant, PTL

(* A stop or a clear gives the microphone back, and with push-to-talk the  *)
(* host is heard while the space bar is held and only then.                *)
THEOREM MicHolds == Spec => []MicOK
<1>1. HostInv => MicOK
  BY DEF HostInv, MicOK
<1>2. QED  BY <1>1, HostInvariant, PTL

(* Once it has acknowledged the config the server has the page's toggles,  *)
(* also those moved while the microphone was asked for or the socket       *)
(* connected.                                                              *)
THEOREM TogglesKnown == Spec => []ServerKnowsToggles
<1>1. HostInv => ServerKnowsToggles
  BY DEF HostInv, ToggleInv, ServerKnowsToggles
<1>2. QED  BY <1>1, HostInvariant, PTL
=============================================================================
