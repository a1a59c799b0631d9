--------------------------- MODULE ViewerPageProofs ---------------------------
(***************************************************************************)
(* Proofs about ViewerPage for any languages and any number of calls of    *)
(* startMicrophone.                                                        *)
(***************************************************************************)
EXTENDS ViewerPage, TLAPS

\* The records of TypeOK.
HostSet == [active : BOOLEAN, ptt : BOOLEAN, lang : LangOrNone]
LoopSet == [listed : BOOLEAN, session : {"none", "current", "old"}]
OverlaySet == [state : {"asking", "accepted", "gone"}, picked : LangOrNone]
PageSet == [active : BOOLEAN, ended : BOOLEAN, lang : LangOrNone, select : LangOrNone]
MicSet == [recording : BOOLEAN, muted : BOOLEAN, ptt : BOOLEAN, initialized : BOOLEAN,
           stream : Mics \cup {None}]
CallSet == [at : {"unused", "permission", "worklet", "done", "failed"}, pressed : BOOLEAN]

\* TypeOK in two halves: what is about the language, and the microphone.
LangTypes ==
  /\ conn \in {"connecting", "open", "greeted", "closed"}
  /\ host \in HostSet /\ loop \in LoopSet
  /\ detecting \in BOOLEAN /\ overruled \in BOOLEAN /\ loaded \in BOOLEAN
  /\ overlay \in OverlaySet /\ page \in PageSet
MicTypes ==
  /\ mic \in MicSet /\ start \in [Mics -> CallSet] /\ live \subseteq Mics
  /\ held \in BOOLEAN /\ missed \in BOOLEAN /\ torn \in BOOLEAN

LEMMA TypeParts == (TypeOK <=> LangTypes /\ MicTypes) /\ (TypeOK' <=> LangTypes' /\ MicTypes')
BY DEF TypeOK, LangTypes, MicTypes, HostSet, LoopSet, OverlaySet, PageSet, MicSet, CallSet
-----------------------------------------------------------------------------
(* The inductive invariant, in the same two halves. *)

\* Nobody records before the dropdown is filled.
LoadedInv ==
  page.select # None \/ mic.recording \/ (\E i \in Mics : start[i].at # "unused") => loaded

LangInv == LangTypes /\ LanguageAgreed

\* Unless starts met each other or a stop, there is one at a time, while
\* nothing is recorded, and the stream that it has got is the page's.
StartInv ==
  ~torn => \A i \in Suspended :
             /\ \A j \in Suspended : j = i
             /\ ~mic.recording
             /\ start[i].at = "worklet" => mic.stream = i

\* A start that ends with push-to-talk on is held or known to be missed; a
\* press that is still being set up has not been initialized.
PressInv ==
  ~torn /\ Suspended # {} /\ mic.ptt => missed \/ (held /\ ~mic.initialized)

MicInv == MicTypes /\ StartInv /\ NoStreamLeft /\ PressInv /\ HotWhileHeld

ViewerInv == LangInv /\ MicInv /\ LoadedInv
-----------------------------------------------------------------------------
(* The microphone: the helpers first. *)

LEMMA MicsFacts == None \notin Mics /\ None \notin Langs
BY ViewerAssumption DEF Mics

LEMMA MicUnchanged ==
  ASSUME MicInv, UNCHANGED <<mic, start, live, held, missed, torn>>
  PROVE  MicInv'
<1>1. Suspended' = Suspended
  BY DEF Suspended
<1>2. MicTypes' /\ PressInv' /\ HotWhileHeld'
  BY <1>1 DEF MicInv, MicTypes, PressInv, HotWhileHeld
<1>3. StartInv' /\ NoStreamLeft'
  BY <1>1 DEF MicInv, StartInv, NoStreamLeft
<1>4. QED  BY <1>2, <1>3 DEF MicInv

(* A stop while a start is suspended is one that met it.                   *)
LEMMA StopMic ==
  ASSUME MicInv, StopMicrophone, UNCHANGED <<start, held>>
  PROVE  MicInv' /\ ~mic'.recording
<1>1. Suspended' = Suspended
  BY DEF Suspended
<1>2. /\ mic' \in MicSet /\ ~mic'.recording /\ mic'.ptt = mic.ptt
      /\ live' = live \ {mic.stream}
      /\ torn' = (torn \/ Suspended # {})
      /\ missed' = (missed /\ Suspended # {})
  BY DEF MicInv, MicTypes, MicSet, StopMicrophone
<1>3. torn' \in BOOLEAN /\ missed' \in BOOLEAN /\ (~torn' => ~torn /\ Suspended = {})
  BY <1>2 DEF MicInv, MicTypes
<1>4. MicTypes'
  BY <1>2, <1>3 DEF MicInv, MicTypes
<1>5. StartInv' /\ PressInv' /\ HotWhileHeld'
  BY <1>1, <1>2, <1>3 DEF StartInv, PressInv, HotWhileHeld
<1>6. NoStreamLeft'
  BY <1>2, <1>3 DEF MicInv, NoStreamLeft
<1>7. QED  BY <1>2, <1>4, <1>5, <1>6 DEF MicInv

(* The mode of the host: on, or off with a stop of what is recorded.       *)
LEMMA SwitchPtt ==
  ASSUME MicInv, NEW b \in BOOLEAN, UpdatePTTMode(b), UNCHANGED <<start, held>>
  PROVE  MicInv' /\ (mic'.recording => mic.recording)
<1>1. Suspended' = Suspended
  BY DEF Suspended
<1>2. CASE b
  <2>1. /\ mic' \in MicSet /\ mic'.recording = mic.recording /\ mic'.ptt /\ mic'.muted = mic.muted
        /\ mic'.stream = mic.stream /\ mic'.initialized = mic.initialized
        /\ missed' = (missed \/ (~mic.ptt /\ OpenUnheld)) /\ live' = live /\ torn' = torn
    BY <1>2 DEF MicInv, MicTypes, MicSet, UpdatePTTMode
  <2>2. missed' \in BOOLEAN /\ (missed => missed') /\ (~mic.ptt /\ OpenUnheld => missed')
    BY <2>1
  <2>3. MicTypes' /\ StartInv' /\ NoStreamLeft'
    BY <1>1, <2>1, <2>2 DEF MicInv, MicTypes, StartInv, NoStreamLeft
  <2>4. PressInv'
    BY <1>1, <2>1, <2>2 DEF MicInv, PressInv, OpenUnheld
  <2>5. HotWhileHeld'
    BY <2>1, <2>2 DEF MicInv, HotWhileHeld, OpenUnheld
  <2>6. QED  BY <2>1, <2>3, <2>4, <2>5 DEF MicInv
<1>3. CASE ~b
  <2>1. /\ mic' \in MicSet /\ ~mic'.recording /\ ~mic'.ptt
        /\ mic'.stream = IF mic.recording THEN None ELSE mic.stream
        /\ live' = IF mic.recording THEN live \ {mic.stream} ELSE live
        /\ torn' = (torn \/ (mic.recording /\ Suspended # {}))
        /\ missed' = (missed /\ Suspended # {})
    BY <1>3 DEF MicInv, MicTypes, MicSet, UpdatePTTMode
  <2>2. torn' \in BOOLEAN /\ missed' \in BOOLEAN
        /\ (~torn' => ~torn /\ (mic.recording => Suspended = {}))
    BY <2>1 DEF MicInv, MicTypes
  <2>3. MicTypes' /\ PressInv' /\ HotWhileHeld'
    BY <2>1, <2>2 DEF MicInv, MicTypes, PressInv, HotWhileHeld
  <2>4. StartInv'
    BY <1>1, <2>1, <2>2 DEF MicInv, StartInv
  <2>5. NoStreamLeft'
    BY <2>1, <2>2 DEF MicInv, NoStreamLeft
  <2>6. QED  BY <2>1, <2>3, <2>4, <2>5 DEF MicInv
<1>4. QED  BY <1>2, <1>3

LEMMA SocketClosesMic ==
  ASSUME MicInv, SocketCloses
  PROVE  MicInv' /\ ~mic'.recording
<1>1. Suspended' = Suspended
  BY DEF Suspended, SocketCloses
<1>2. /\ mic' \in MicSet /\ ~mic'.recording /\ ~mic'.ptt
      /\ live' = live \ {mic.stream} /\ start' = start /\ held' = held
      /\ torn' = (torn \/ Suspended # {})
      /\ missed' = (missed /\ Suspended # {})
  BY DEF MicInv, MicTypes, MicSet, SocketCloses
<1>3. torn' \in BOOLEAN /\ missed' \in BOOLEAN /\ (~torn' => ~torn /\ Suspended = {})
  BY <1>2 DEF MicInv, MicTypes
<1>4. MicTypes'
  BY <1>2, <1>3 DEF MicInv, MicTypes
<1>5. StartInv' /\ PressInv' /\ HotWhileHeld'
  BY <1>1, <1>2, <1>3 DEF StartInv, PressInv, HotWhileHeld
<1>6. NoStreamLeft'
  BY <1>2, <1>3 DEF MicInv, NoStreamLeft
<1>7. QED  BY <1>2, <1>4, <1>5, <1>6 DEF MicInv
-----------------------------------------------------------------------------
(* The microphone: its own actions. *)

(* A call that begins while another is suspended has met it.               *)
LEMMA CallsMic ==
  ASSUME MicInv, NEW b \in BOOLEAN, Calls(b), UNCHANGED <<mic, live, missed>>,
         held' \in BOOLEAN, mic.ptt => held' /\ ~mic.initialized
  PROVE  MicInv' /\ start' \in [Mics -> CallSet]
<1>1. PICK i \in Mics :
        /\ start[i].at = "unused"
        /\ start' = [start EXCEPT ![i] = [at |-> "permission", pressed |-> b]]
        /\ torn' = (torn \/ Suspended # {} \/ mic.recording)
  BY DEF Calls
<1>2. /\ torn' \in BOOLEAN /\ mic.recording \in BOOLEAN
      /\ ~torn' => ~torn /\ Suspended = {} /\ ~mic.recording
  BY <1>1 DEF MicInv, MicTypes, MicSet
<1>3. [at |-> "permission", pressed |-> b] \in CallSet
  BY DEF CallSet
<1>4. /\ start' \in [Mics -> CallSet] /\ start'[i].at = "permission"
      /\ \A j \in Mics : j # i => start'[j] = start[j]
  BY <1>1, <1>3 DEF MicInv, MicTypes
<1>5. ~torn' => Suspended' = {i}
  BY <1>2, <1>4 DEF Suspended
<1>6. MicTypes'
  BY <1>2, <1>4 DEF MicInv, MicTypes
<1>7. StartInv'
  BY <1>2, <1>4, <1>5 DEF StartInv
<1>8. NoStreamLeft'
  BY <1>1, <1>2, <1>4 DEF MicInv, MicTypes, NoStreamLeft
<1>9. PressInv'
  BY DEF PressInv
<1>10. HotWhileHeld'
  BY <1>2 DEF HotWhileHeld, MicInv
<1>11. QED  BY <1>4, <1>6, <1>7, <1>8, <1>9, <1>10 DEF MicInv

LEMMA MicGrantedMic ==
  ASSUME MicInv, NEW i \in Mics, MicGranted(i)
  PROVE  MicInv' /\ mic'.recording = mic.recording
<1>1. /\ start[i].at = "permission" /\ start' = [start EXCEPT ![i].at = "worklet"]
      /\ live' = live \cup {i} /\ UNCHANGED <<held, missed, torn>>
  BY DEF MicGranted
<1>2. /\ mic' \in MicSet /\ mic'.stream = i /\ mic'.recording = mic.recording
      /\ mic'.ptt = mic.ptt /\ mic'.muted = mic.muted /\ mic'.initialized = mic.initialized
  BY DEF MicInv, MicTypes, MicSet, MicGranted
<1>3. /\ start' \in [Mics -> CallSet] /\ start'[i].at = "worklet"
      /\ \A j \in Mics : j # i => start'[j] = start[j]
  BY <1>1 DEF MicInv, MicTypes, CallSet
<1>4. Suspended' = Suspended /\ i \in Suspended
  BY <1>1, <1>3 DEF Suspended
<1>5. MicTypes' /\ PressInv' /\ HotWhileHeld'
  BY <1>1, <1>2, <1>3, <1>4 DEF MicInv, MicTypes, PressInv, HotWhileHeld
<1>6. StartInv'
  BY <1>1, <1>2, <1>4 DEF MicInv, StartInv
<1>7. NoStreamLeft'
  BY <1>1, <1>2, <1>3, <1>4 DEF MicInv, MicTypes, StartInv, NoStreamLeft
<1>8. QED  BY <1>2, <1>5, <1>6, <1>7 DEF MicInv

(* A call that comes to its end: the last one, unless calls have met.      *)
LEMMA CallOver ==
  ASSUME MicInv, NEW i \in Suspended, NEW st \in {"done", "failed"},
         start' = [start EXCEPT ![i] = [at |-> st, pressed |-> FALSE]]
  PROVE  /\ start' \in [Mics -> CallSet] /\ start'[i].at = st /\ i \in Mics
         /\ \A j \in Mics : j # i => start'[j] = start[j]
         /\ ~torn => Suspended' = {}
<1>1. i \in Mics
  BY DEF Suspended
<1>2. [at |-> st, pressed |-> FALSE] \in CallSet
  BY DEF CallSet
<1>3. /\ start' \in [Mics -> CallSet] /\ start'[i].at = st
      /\ \A j \in Mics : j # i => start'[j] = start[j]
  BY <1>1, <1>2 DEF MicInv, MicTypes
<1>4. ASSUME ~torn  PROVE Suspended' = {}
  BY <1>3, <1>4 DEF MicInv, StartInv, Suspended
<1>5. QED  BY <1>1, <1>3, <1>4

LEMMA MicStartsMic ==
  ASSUME MicInv, NEW i \in Mics, MicStarts(i)
  PROVE  MicInv'
<1>1. /\ i \in Suspended /\ start[i].at = "worklet"
      /\ start' = [start EXCEPT ![i] = [at |-> "done", pressed |-> FALSE]]
      /\ UNCHANGED <<live, held, missed, torn>>
  BY DEF MicStarts, Suspended
<1>2. /\ start' \in [Mics -> CallSet] /\ \A j \in Mics : j # i => start'[j] = start[j]
      /\ ~torn => Suspended' = {}
  BY <1>1, CallOver
<1>3. /\ mic' \in MicSet /\ mic'.recording /\ mic'.ptt = mic.ptt /\ mic'.stream = mic.stream
  BY DEF MicInv, MicTypes, MicSet, CallSet, MicStarts, Resumed
<1>4. MicTypes'
  BY <1>1, <1>2, <1>3 DEF MicInv, MicTypes
<1>5. StartInv' /\ PressInv'
  BY <1>1, <1>2 DEF StartInv, PressInv
<1>6. NoStreamLeft'
  BY <1>1, <1>2, <1>3 DEF MicInv, MicTypes, StartInv, NoStreamLeft
<1>7. HotWhileHeld'
  BY <1>1, <1>3 DEF MicInv, PressInv, HotWhileHeld
<1>8. QED  BY <1>4, <1>5, <1>6, <1>7 DEF MicInv

LEMMA MicFailsMic ==
  ASSUME MicInv, NEW i \in Mics, MicFails(i)
  PROVE  MicInv' /\ mic'.recording = mic.recording
<1>1. /\ i \in Suspended
      /\ start' = [start EXCEPT ![i] = [at |-> "failed", pressed |-> FALSE]]
      /\ UNCHANGED <<live, held, missed, torn>>
  BY DEF MicFails
<1>2. /\ start' \in [Mics -> CallSet] /\ start'[i].at = "failed"
      /\ \A j \in Mics : j # i => start'[j] = start[j]
      /\ ~torn => Suspended' = {}
  BY <1>1, CallOver
<1>3. /\ mic' \in MicSet /\ mic'.recording = mic.recording /\ mic'.ptt = mic.ptt
      /\ mic'.stream = mic.stream /\ mic'.muted = mic.muted
  BY DEF MicInv, MicTypes, MicSet, CallSet, MicFails, Resumed
<1>4. MicTypes' /\ HotWhileHeld'
  BY <1>1, <1>2, <1>3 DEF MicInv, MicTypes, HotWhileHeld
<1>5. StartInv' /\ PressInv'
  BY <1>1, <1>2 DEF StartInv, PressInv
<1>6. NoStreamLeft'
  BY <1>1, <1>2, <1>3 DEF MicInv, MicTypes, NoStreamLeft
<1>7. QED  BY <1>3, <1>4, <1>5, <1>6 DEF MicInv

LEMMA MicClickedMic ==
  ASSUME MicInv, MicClicked
  PROVE  MicInv' /\ (mic'.recording => mic.recording)
<1>1. CASE mic.recording
  BY <1>1, StopMic DEF MicClicked
<1>2. CASE ~mic.recording
  <2>1. /\ Calls(FALSE) /\ UNCHANGED <<mic, live, missed>> /\ held' \in BOOLEAN /\ ~mic.ptt
    BY <1>2 DEF MicClicked, MicInv, MicTypes
  <2>2. QED  BY <2>1, CallsMic
<1>3. QED  BY <1>1, <1>2

LEMMA PttPressMic ==
  ASSUME MicInv, PttPress
  PROVE  MicInv' /\ mic'.recording = mic.recording
<1>1. CASE mic.initialized
  <2>1. /\ mic.ptt /\ held' = TRUE /\ UNCHANGED <<start, live, missed, torn>>
    BY <1>1 DEF PttPress
  <2>2. /\ mic' \in MicSet /\ mic'.recording = mic.recording /\ mic'.ptt = mic.ptt
        /\ mic'.stream = mic.stream /\ mic'.initialized
    BY <1>1 DEF MicInv, MicTypes, MicSet, PttPress
  <2>3. Suspended' = Suspended
    BY <2>1 DEF Suspended
  <2>4. MicTypes' /\ PressInv' /\ HotWhileHeld'
    BY <1>1, <2>1, <2>2, <2>3 DEF MicInv, MicTypes, PressInv, HotWhileHeld
  <2>5. StartInv' /\ NoStreamLeft'
    BY <2>1, <2>2, <2>3 DEF MicInv, StartInv, NoStreamLeft
  <2>6. QED  BY <2>2, <2>4, <2>5 DEF MicInv
<1>2. CASE ~mic.initialized
  <2>1. /\ Calls(TRUE) /\ UNCHANGED <<mic, live, missed>> /\ held' = TRUE
    BY <1>2 DEF PttPress
  <2>2. QED  BY <1>2, <2>1, CallsMic
<1>3. QED  BY <1>1, <1>2

LEMMA PttReleaseMic ==
  ASSUME MicInv, PttRelease
  PROVE  MicInv' /\ mic'.recording = mic.recording
<1>1. held' = FALSE /\ UNCHANGED <<start, live, torn>>
  BY DEF PttRelease
<1>2. Suspended' = Suspended
  BY <1>1 DEF Suspended
<1>3. CASE mic.ptt /\ mic.initialized
  <2>1. /\ mic' \in MicSet /\ mic'.recording = mic.recording /\ mic'.ptt = mic.ptt
        /\ mic'.stream = mic.stream /\ mic'.muted
        /\ missed' = (missed /\ Suspended # {})
    BY <1>3 DEF MicInv, MicTypes, MicSet, PttRelease
  <2>2. missed' \in BOOLEAN /\ (Suspended # {} /\ missed => missed')
    BY <2>1
  <2>3. MicTypes' /\ PressInv' /\ HotWhileHeld'
    BY <1>1, <1>2, <1>3, <2>1, <2>2 DEF MicInv, MicTypes, PressInv, HotWhileHeld
  <2>4. StartInv' /\ NoStreamLeft'
    BY <1>1, <1>2, <2>1 DEF MicInv, StartInv, NoStreamLeft
  <2>5. QED  BY <2>1, <2>3, <2>4 DEF MicInv
<1>4. CASE ~(mic.ptt /\ mic.initialized)
  <2>1. mic' = mic /\ missed' = (missed \/ mic.ptt)
    BY <1>4 DEF PttRelease
  <2>2. missed' \in BOOLEAN /\ (mic.ptt => missed')
    BY <2>1
  <2>3. MicTypes' /\ PressInv' /\ HotWhileHeld'
    BY <1>1, <1>2, <2>1, <2>2 DEF MicInv, MicTypes, PressInv, HotWhileHeld
  <2>4. StartInv' /\ NoStreamLeft'
    BY <1>1, <1>2, <2>1 DEF MicInv, StartInv, NoStreamLeft
  <2>5. QED  BY <2>1, <2>3, <2>4 DEF MicInv
<1>5. QED  BY <1>3, <1>4

LEMMA MuteClickedMic ==
  ASSUME MicInv, MuteClicked
  PROVE  MicInv' /\ mic'.recording = mic.recording
<1>1. ~mic.ptt /\ UNCHANGED <<start, live, held, missed, torn>>
  BY DEF MuteClicked
<1>2. /\ mic' \in MicSet /\ mic'.recording = mic.recording /\ ~mic'.ptt
      /\ mic'.stream = mic.stream
  BY DEF MicInv, MicTypes, MicSet, MuteClicked
<1>3. Suspended' = Suspended
  BY <1>1 DEF Suspended
<1>4. MicTypes' /\ PressInv' /\ HotWhileHeld'
  BY <1>1, <1>2, <1>3 DEF MicInv, MicTypes, PressInv, HotWhileHeld
<1>5. StartInv' /\ NoStreamLeft'
  BY <1>1, <1>2, <1>3 DEF MicInv, StartInv, NoStreamLeft
<1>6. QED  BY <1>2, <1>4, <1>5 DEF MicInv
-----------------------------------------------------------------------------
(* The language: what is sent, and when. *)

\* The session and the page have one language if the page has one, but for
\* the two exceptions of LanguageAgreed.
Agreed ==
  host.active /\ loop.listed /\ page.lang # None
    => host.lang = page.lang \/ overruled \/ loop.session = "old"

(* A choice that is sent is the session's language, unless the loop gives  *)
(* it to an old one.                                                       *)
LEMMA HintSent ==
  ASSUME LangTypes, NEW session \in HostSet, NEW cached \in {"none", "current", "old"},
         NEW lang \in LangOrNone, Hint(session, cached, lang)
  PROVE  /\ host' \in HostSet /\ loop' \in LoopSet /\ overruled' \in BOOLEAN
         /\ host'.active = session.active /\ loop'.listed = loop.listed
         /\ session.active /\ lang # None => host'.lang = lang \/ loop'.session = "old"
<1>1. CASE lang = None
  BY <1>1 DEF Hint, HostSet, LoopSet, LangTypes
<1>2. CASE lang # None
  <2> DEFINE taker == IF cached = "none" /\ session.active THEN "current" ELSE cached
  <2>1. /\ host' = IF taker = "current" THEN [session EXCEPT !.lang = lang] ELSE session
        /\ loop' = [loop EXCEPT !.session = taker]
        /\ overruled' = (overruled /\ taker # "current")
    BY <1>2 DEF Hint
  <2>2. taker \in {"none", "current", "old"} /\ (session.active => taker # "none")
    OBVIOUS
  <2> HIDE DEF taker
  <2>3. loop' \in LoopSet /\ loop'.session = taker /\ loop'.listed = loop.listed
    BY <2>1, <2>2 DEF LangTypes, LoopSet
  <2>4. /\ host' \in HostSet /\ host'.active = session.active
        /\ taker = "current" => host'.lang = lang
    BY <2>1 DEF HostSet
  <2>5. overruled' \in BOOLEAN
    BY <2>1 DEF LangTypes
  <2>6. QED  BY <2>2, <2>3, <2>4, <2>5
<1>3. QED  BY <1>1, <1>2

LEMMA HintIfConnectedSent ==
  ASSUME LangTypes, NEW lang \in LangOrNone, HintIfConnected(lang)
  PROVE  /\ host' \in HostSet /\ loop' \in LoopSet /\ overruled' \in BOOLEAN
         /\ page'.lang = lang /\ conn = "greeted" => Agreed'
<1>1. host \in HostSet /\ loop.session \in {"none", "current", "old"}
  BY DEF LangTypes, LoopSet
<1>2. CASE Connected
  <2>1. Hint(host, loop.session, lang)
    BY <1>2 DEF HintIfConnected
  <2>2. QED  BY <1>1, <2>1, HintSent DEF Agreed
<1>3. CASE ~Connected
  BY <1>3 DEF HintIfConnected, Connected, LangTypes
<1>4. QED  BY <1>2, <1>3

LEMMA OverlayType ==
  ASSUME LangTypes, NEW lang \in LangOrNone
  PROVE  OverlayFor(lang) \in OverlaySet
BY DEF LangTypes, OverlayFor, OverlaySet

LEMMA StopRecords ==
  ASSUME LoadedInv, loaded => loaded', start' = start,
         mic'.recording => mic.recording, page'.select # None => loaded' \/ page.select # None
  PROVE  LoadedInv'
BY DEF LoadedInv

(* A session that begins, or is found, has the guest's language at once if *)
(* the dropdown is filled.                                                 *)
LEMMA SessionTaken ==
  ASSUME LangTypes, NEW session \in HostSet, NEW cached \in {"none", "current", "old"},
         session.active, StartActiveSession(session, cached)
  PROVE  /\ page' \in PageSet /\ overlay' \in OverlaySet /\ host' \in HostSet
         /\ loop' \in LoopSet /\ overruled' \in BOOLEAN
         /\ page'.select # None => loaded \/ page.select # None
         /\ loaded => Agreed'
         /\ UpdatePTTMode(session.ptt) /\ session.ptt \in BOOLEAN
<1> DEFINE lang == IF session.lang # None THEN session.lang ELSE page.lang
<1>1. /\ lang \in LangOrNone /\ session.lang \in LangOrNone
      /\ (IF loaded THEN lang ELSE None) \in LangOrNone
  BY DEF LangTypes, HostSet, PageSet, LangOrNone
<1>2. /\ page' \in PageSet /\ page'.lang = lang
      /\ page'.select # None => loaded \/ page.select # None
  BY <1>1 DEF LangTypes, PageSet, StartActiveSession
<1>3. overlay' \in OverlaySet
  BY <1>1, OverlayType DEF StartActiveSession
<1>4. Hint(session, cached, IF loaded THEN lang ELSE None)
  BY DEF StartActiveSession
<1> HIDE DEF lang
<1>5. /\ host' \in HostSet /\ loop' \in LoopSet /\ overruled' \in BOOLEAN
      /\ loaded => Agreed'
  BY <1>1, <1>2, <1>4, HintSent DEF Agreed
<1>6. UpdatePTTMode(session.ptt) /\ session.ptt \in BOOLEAN
  BY DEF StartActiveSession, HostSet
<1>7. QED  BY <1>2, <1>3, <1>5, <1>6

LEMMA ConnectionStep ==
  ASSUME ViewerInv, SocketOpens \/ SocketCloses \/ Reconnect
  PROVE  ViewerInv'
<1>1. /\ UNCHANGED <<host, detecting, overruled, loaded, overlay, page, start>>
      /\ conn' \in {"connecting", "open", "closed"}
  BY DEF SocketOpens, SocketCloses, Reconnect, server_vars, mic_vars
<1>2. MicInv' /\ (mic'.recording => mic.recording)
  <2>1. CASE SocketCloses
    BY <2>1, SocketClosesMic DEF ViewerInv
  <2>2. CASE SocketOpens \/ Reconnect
    BY <2>2, MicUnchanged DEF ViewerInv, SocketOpens, Reconnect, mic_vars
  <2>3. QED  BY <2>1, <2>2
<1>3. loop' \in LoopSet
  <2>1. loop' \in {loop, NoLoop, [listed |-> TRUE, session |-> "none"]}
    BY DEF SocketOpens, SocketCloses, Reconnect, server_vars
  <2>2. loop \in LoopSet
    BY DEF ViewerInv, LangInv, LangTypes
  <2>3. NoLoop \in LoopSet
    BY DEF LoopSet, NoLoop
  <2>4. [listed |-> TRUE, session |-> "none"] \in LoopSet
    BY DEF LoopSet
  <2>5. QED  BY <2>1, <2>2, <2>3, <2>4
<1>4. LangInv'
  BY <1>1, <1>3 DEF ViewerInv, LangInv, LangTypes, LanguageAgreed
<1>5. LoadedInv'
  BY <1>1, <1>2, StopRecords DEF ViewerInv
<1>6. QED  BY <1>2, <1>4, <1>5 DEF ViewerInv

(* What a page learns from the server when it connects.                    *)
LEMMA InitArrivesStep ==
  ASSUME ViewerInv, InitArrives
  PROVE  ViewerInv'
<1>1. UNCHANGED <<detecting, loaded, start, held>> /\ conn' = "greeted"
  BY DEF InitArrives
<1>2. CASE host.active
  <2>1. /\ page' \in PageSet /\ overlay' \in OverlaySet /\ host' \in HostSet
        /\ loop' \in LoopSet /\ overruled' \in BOOLEAN
        /\ page'.select # None => loaded \/ page.select # None
        /\ loaded => Agreed'
        /\ UpdatePTTMode(host.ptt) /\ host.ptt \in BOOLEAN
    <3>1. host \in HostSet /\ loop.session \in {"none", "current", "old"}
      BY DEF ViewerInv, LangInv, LangTypes, LoopSet
    <3>2. StartActiveSession(host, loop.session)
      BY <1>2 DEF InitArrives
    <3>3. QED  BY <1>2, <3>1, <3>2, SessionTaken DEF ViewerInv, LangInv
  <2>2. MicInv' /\ (mic'.recording => mic.recording)
    BY <1>1, <2>1, SwitchPtt DEF ViewerInv
  <2>3. LangInv'
    BY <1>1, <2>1, <2>2 DEF ViewerInv, LangInv, LangTypes, LoadedInv, Agreed, LanguageAgreed
  <2>4. LoadedInv'
    BY <1>1, <2>1, <2>2, StopRecords DEF ViewerInv
  <2>5. QED  BY <2>2, <2>3, <2>4 DEF ViewerInv
<1>3. CASE ~host.active
  <2>1. UNCHANGED <<host, loop, overruled, overlay, page, mic, live, missed, torn>>
    BY <1>3 DEF InitArrives
  <2>2. MicInv'
    BY <1>1, <2>1, MicUnchanged DEF ViewerInv
  <2>3. LangInv' /\ LoadedInv'
    BY <1>1, <1>3, <2>1 DEF ViewerInv, LangInv, LangTypes, LanguageAgreed, LoadedInv
  <2>4. QED  BY <2>2, <2>3 DEF ViewerInv
<1>4. QED  BY <1>2, <1>3

LEMMA HostStartsStep ==
  ASSUME ViewerInv, HostStarts
  PROVE  ViewerInv'
<1>1. UNCHANGED <<conn, loaded, start, held>> /\ detecting' = FALSE
  BY DEF HostStarts
<1> DEFINE cached == IF loop.session = "current" THEN "old" ELSE loop.session
<1>2. PICK session \in HostSet :
        /\ session.active
        /\ IF Reached THEN StartActiveSession(session, cached)
           ELSE Hint(session, cached, None) /\ UNCHANGED <<overlay, page, mic, live, missed, torn>>
  BY DEF HostStarts, HostSet
<1>3. cached \in {"none", "current", "old"} /\ LangTypes /\ None \in LangOrNone
  BY DEF ViewerInv, LangInv, LangTypes, LoopSet, LangOrNone
<1> HIDE DEF cached
<1>4. CASE Reached
  <2>1. /\ page' \in PageSet /\ overlay' \in OverlaySet /\ host' \in HostSet
        /\ loop' \in LoopSet /\ overruled' \in BOOLEAN
        /\ page'.select # None => loaded \/ page.select # None
        /\ loaded => Agreed'
        /\ UpdatePTTMode(session.ptt) /\ session.ptt \in BOOLEAN
    BY <1>2, <1>3, <1>4, SessionTaken
  <2>2. MicInv' /\ (mic'.recording => mic.recording)
    BY <1>1, <2>1, SwitchPtt DEF ViewerInv
  <2>3. LangInv'
    BY <1>1, <1>3, <2>1, <2>2 DEF ViewerInv, LangInv, LangTypes, LoadedInv, Agreed, LanguageAgreed
  <2>4. LoadedInv'
    BY <1>1, <2>1, <2>2, StopRecords DEF ViewerInv
  <2>5. QED  BY <2>2, <2>3, <2>4 DEF ViewerInv
<1>5. CASE ~Reached
  <2>1. /\ Hint(session, cached, None)
        /\ UNCHANGED <<overlay, page, mic, live, missed, torn>>
    BY <1>2, <1>5
  <2>2. MicInv'
    BY <1>1, <2>1, MicUnchanged DEF ViewerInv
  <2>3. /\ host' \in HostSet /\ loop' \in LoopSet /\ overruled' \in BOOLEAN
        /\ loop'.listed = loop.listed
    BY <1>3, <2>1, HintSent
  <2>4. LangInv' /\ LoadedInv'
    BY <1>1, <1>3, <1>5, <2>1, <2>3
       DEF ViewerInv, LangInv, LangTypes, LanguageAgreed, LoadedInv, Connected, Reached
  <2>5. QED  BY <2>2, <2>4 DEF ViewerInv
<1>6. QED  BY <1>4, <1>5

LEMMA HostTogglesPttStep ==
  ASSUME ViewerInv, HostTogglesPtt
  PROVE  ViewerInv'
<1>1. UNCHANGED <<conn, loop, detecting, overruled, loaded, overlay, page, start, held>>
  BY DEF HostTogglesPtt
<1>2. /\ host' \in HostSet /\ host'.active = host.active /\ host'.lang = host.lang
      /\ (~host.ptt) \in BOOLEAN
  BY DEF ViewerInv, LangInv, LangTypes, HostSet, HostTogglesPtt
<1>3. MicInv' /\ (mic'.recording => mic.recording)
  <2>1. CASE Reached
    BY <1>1, <1>2, <2>1, SwitchPtt DEF ViewerInv, HostTogglesPtt
  <2>2. CASE ~Reached
    BY <2>2, MicUnchanged DEF ViewerInv, HostTogglesPtt
  <2>3. QED  BY <2>1, <2>2
<1>4. LangInv'
  BY <1>1, <1>2, <1>3 DEF ViewerInv, LangInv, LangTypes, LanguageAgreed
<1>5. LoadedInv'
  BY <1>1, <1>3, StopRecords DEF ViewerInv
<1>6. QED  BY <1>3, <1>4, <1>5 DEF ViewerInv

(* The language is set by others, or taken over by the page.               *)
LEMMA LanguageComesStep ==
  ASSUME ViewerInv,
         \/ DetectionBegins \/ LanguageDetected \/ OtherGuestChooses
         \/ SegmentsArrive \/ AudioArrives
  PROVE  ViewerInv'
<1>1. UNCHANGED <<conn, loaded, mic, start, live, held, missed, torn>>
  BY DEF DetectionBegins, LanguageDetected, OtherGuestChooses, SegmentsArrive, AudioArrives,
         mic_vars
<1>2. MicInv' /\ LangTypes /\ LanguageAgreed
  BY <1>1, MicUnchanged DEF ViewerInv, LangInv
<1>3. LangInv' /\ page'.select = page.select
  <2>1. CASE LanguageDetected \/ OtherGuestChooses
    <3>1. PICK lang \in Langs : host' = [host EXCEPT !.lang = lang]
      BY <2>1 DEF LanguageDetected, OtherGuestChooses
    <3>2. /\ host' \in HostSet /\ host'.active = host.active
          /\ detecting' \in BOOLEAN
          /\ UNCHANGED <<loop, page, overlay>>
      BY <1>2, <2>1, <3>1 DEF LangTypes, HostSet, LangOrNone, LanguageDetected, OtherGuestChooses
    <3>3. overruled' \in BOOLEAN /\ (overruled \/ host.lang # None => overruled')
      BY <1>2, <2>1 DEF LangTypes, LanguageDetected, OtherGuestChooses
    <3>4. QED
      BY <1>1, <1>2, <3>2, <3>3 DEF LangInv, LangTypes, LanguageAgreed
  <2>2. CASE SegmentsArrive
    <3>1. /\ UNCHANGED <<host, loop, detecting, overruled>>
          /\ page' = [page EXCEPT !.lang = IF @ = None THEN host.lang ELSE @]
          /\ overlay' = OverlayFor(host.lang)
      BY <2>2 DEF SegmentsArrive, server_vars
    <3>2. /\ page' \in PageSet /\ page'.lang = (IF page.lang = None THEN host.lang ELSE page.lang)
          /\ page'.select = page.select /\ host.lang \in LangOrNone
      BY <1>2, <3>1 DEF LangTypes, HostSet, PageSet
    <3>3. overlay' \in OverlaySet
      BY <1>2, <3>1, <3>2, OverlayType
    <3>4. QED
      BY <1>1, <1>2, <3>1, <3>2, <3>3 DEF LangInv, LangTypes, LanguageAgreed
  <2>3. CASE DetectionBegins \/ AudioArrives
    <3>1. /\ UNCHANGED <<host, overruled, page, overlay>> /\ detecting' \in BOOLEAN
          /\ loop' \in LoopSet /\ loop'.listed = loop.listed
          /\ loop.session = "old" => loop'.session = "old"
      BY <1>2, <2>3 DEF LangTypes, LoopSet, DetectionBegins, AudioArrives
    <3>2. QED
      BY <1>1, <1>2, <3>1 DEF LangInv, LangTypes, LanguageAgreed
  <2>4. QED  BY <2>1, <2>2, <2>3
<1>4. LoadedInv'
  BY <1>1, <1>3, StopRecords DEF ViewerInv
<1>5. QED  BY <1>2, <1>3, <1>4 DEF ViewerInv

LEMMA HostEndsStep ==
  ASSUME ViewerInv, HostEnds
  PROVE  ViewerInv'
<1>1. UNCHANGED <<conn, loaded, overlay, start, held>>
  BY DEF HostEnds
<1>2. /\ host' \in HostSet /\ ~host'.active /\ loop' \in LoopSet
      /\ detecting' \in BOOLEAN /\ overruled' \in BOOLEAN
  BY DEF ViewerInv, LangInv, LangTypes, HostSet, LoopSet, LangOrNone, NoSession, HostEnds
<1>3. MicInv' /\ (mic'.recording => mic.recording)
  <2>1. CASE Reached
    BY <2>1, StopMic DEF ViewerInv, HostEnds
  <2>2. CASE ~Reached
    BY <2>2, MicUnchanged DEF ViewerInv, HostEnds
  <2>3. QED  BY <2>1, <2>2
<1>4. page' \in PageSet /\ page'.select = page.select
  BY DEF ViewerInv, LangInv, LangTypes, PageSet, HostEnds
<1>5. LangInv'
  BY <1>1, <1>2, <1>4 DEF ViewerInv, LangInv, LangTypes, LanguageAgreed
<1>6. LoadedInv'
  BY <1>1, <1>3, <1>4, StopRecords DEF ViewerInv
<1>7. QED  BY <1>3, <1>5, <1>6 DEF ViewerInv

(* The guest's own choices: in the dropdown, which is locked while one     *)
(* records, and in the popup, which is not.                                *)
LEMMA ChoiceStep ==
  ASSUME ViewerInv,
         LanguagesLoaded \/ LanguageChosen \/ OverlayLanguageChosen \/ ConsentAccepted
         \/ ConsentTimerFires
  PROVE  ViewerInv'
<1>1. UNCHANGED <<conn, detecting, mic, start, live, held, missed, torn>>
  BY DEF server_vars, mic_vars, LanguagesLoaded, LanguageChosen, OverlayLanguageChosen,
      ConsentAccepted,
         ConsentTimerFires
<1>2. MicInv'
  BY <1>1, MicUnchanged DEF ViewerInv
<1>3. /\ LangTypes /\ page.lang \in LangOrNone /\ overlay.picked \in LangOrNone
  BY DEF ViewerInv, LangInv, LangTypes, PageSet, OverlaySet
<1>4. CASE LanguagesLoaded
  <2>1. /\ loaded' = TRUE /\ UNCHANGED <<host, loop, overruled, overlay>>
        /\ page' \in PageSet /\ page'.lang = page.lang
    BY <1>3, <1>4 DEF LangTypes, PageSet, LanguagesLoaded, server_vars
  <2>2. LangInv' /\ LoadedInv'
    BY <1>1, <2>1 DEF ViewerInv, LangInv, LangTypes, LanguageAgreed, LoadedInv
  <2>3. QED  BY <1>2, <2>2 DEF ViewerInv
<1>5. CASE LanguageChosen
  <2>1. PICK lang \in Langs : /\ page' = [page EXCEPT !.lang = lang, !.select = lang]
                              /\ HintIfConnected(lang)
    BY <1>5 DEF LanguageChosen
  <2>2. loaded /\ ~mic.recording /\ loaded' = loaded /\ overlay' = overlay
    BY <1>5 DEF LanguageChosen
  <2>3. page' \in PageSet /\ lang \in LangOrNone
    BY <1>3, <2>1 DEF LangTypes, PageSet, LangOrNone
  <2>4. host' \in HostSet /\ loop' \in LoopSet /\ overruled' \in BOOLEAN
    BY <1>3, <2>1, <2>3, HintIfConnectedSent
  <2>5. LangInv' /\ LoadedInv'
    BY <1>1, <2>2, <2>3, <2>4 DEF ViewerInv, LangInv, LangTypes, LanguageAgreed, LoadedInv
  <2>6. QED  BY <1>2, <2>5 DEF ViewerInv
<1>6. CASE OverlayLanguageChosen \/ ConsentAccepted
  <2>1. overlay' \in OverlaySet /\ UNCHANGED <<host, loop, overruled, loaded, page>>
    BY <1>3, <1>6 DEF LangTypes, server_vars, OverlaySet, OverlayLanguageChosen, ConsentAccepted
  <2>2. LangInv' /\ LoadedInv'
    BY <1>1, <2>1 DEF ViewerInv, LangInv, LangTypes, LanguageAgreed, LoadedInv
  <2>3. QED  BY <1>2, <2>2 DEF ViewerInv
<1>7. CASE ConsentTimerFires
  <2>1. overlay' \in OverlaySet /\ loaded' = loaded
    BY <1>7 DEF OverlaySet, ConsentTimerFires, LangOrNone
  <2>2. CASE overlay.picked = None
    <3>1. UNCHANGED <<page, host, loop, overruled>>
      BY <1>7, <2>2 DEF ConsentTimerFires
    <3>2. LangInv' /\ LoadedInv'
      BY <1>1, <2>1, <3>1 DEF ViewerInv, LangInv, LangTypes, LanguageAgreed, LoadedInv
    <3>3. QED  BY <1>2, <3>2 DEF ViewerInv
  <2>3. CASE overlay.picked # None
    <3>1. /\ page' = [page EXCEPT !.lang = overlay.picked,
                                  !.select = IF loaded THEN overlay.picked ELSE None]
          /\ IF loaded THEN HintIfConnected(overlay.picked)
             ELSE UNCHANGED <<host, loop, overruled>>
      BY <1>7, <2>3 DEF ConsentTimerFires
    <3>2. /\ page' \in PageSet /\ page'.lang = overlay.picked
          /\ page'.select # None => loaded
      BY <1>3, <3>1 DEF LangTypes, PageSet, LangOrNone
    <3>3. /\ host' \in HostSet /\ loop' \in LoopSet /\ overruled' \in BOOLEAN
          /\ loaded /\ conn = "greeted" => Agreed'
      <4>1. CASE loaded
        BY <1>3, <3>1, <3>2, <4>1, HintIfConnectedSent
      <4>2. CASE ~loaded
        BY <1>3, <3>1, <4>2 DEF LangTypes
      <4>3. QED  BY <4>1, <4>2
    <3>4. LangInv' /\ LoadedInv'
      BY <1>1, <2>1, <3>2, <3>3
         DEF ViewerInv, LangInv, LangTypes, LanguageAgreed, LoadedInv, Agreed
    <3>5. QED  BY <1>2, <3>4 DEF ViewerInv
  <2>4. QED  BY <2>2, <2>3
<1>8. QED  BY <1>4, <1>5, <1>6, <1>7

(* The microphone opens with a hint of the language.                       *)
LEMMA MicStartsStep ==
  ASSUME ViewerInv, NEW i \in Mics, MicStarts(i)
  PROVE  ViewerInv'
<1>1. /\ start[i].at = "worklet" /\ UNCHANGED <<conn, detecting, loaded, overlay, page>>
      /\ HintIfConnected(page.lang)
  BY DEF MicStarts
<1>2. MicInv'
  BY MicStartsMic DEF ViewerInv
<1>3. /\ host' \in HostSet /\ loop' \in LoopSet /\ overruled' \in BOOLEAN
      /\ conn = "greeted" => Agreed'
  <2>1. LangTypes /\ page.lang \in LangOrNone
    BY DEF ViewerInv, LangInv, LangTypes, PageSet
  <2>2. QED  BY <1>1, <2>1, HintIfConnectedSent
<1>4. LangInv'
  BY <1>1, <1>3 DEF ViewerInv, LangInv, LangTypes, LanguageAgreed, Agreed
<1>5. LoadedInv'
  BY <1>1 DEF ViewerInv, LoadedInv
<1>6. QED  BY <1>2, <1>4, <1>5 DEF ViewerInv

(* Every call of startMicrophone comes from a button that is enabled.      *)
LEMMA MicStep ==
  ASSUME ViewerInv,
         \/ \E i \in Mics : MicGranted(i) \/ MicFails(i)
         \/ MicClicked \/ PttPress \/ PttRelease \/ MuteClicked \/ ModeClicked
  PROVE  ViewerInv'
<1>1. UNCHANGED <<conn, host, loop, detecting, overruled, loaded, overlay, page>>
  BY DEF server_vars, MicGranted, MicFails, MicClicked, PttPress, PttRelease, MuteClicked,
      ModeClicked
<1>2. MicInv' /\ (mic'.recording => mic.recording)
  <2>1. CASE ModeClicked
    <3>1. (~mic.ptt) \in BOOLEAN
      OBVIOUS
    <3>2. QED  BY <2>1, <3>1, SwitchPtt DEF ViewerInv, ModeClicked
  <2>2. QED
    BY <2>1, MicGrantedMic, MicFailsMic, MicClickedMic, PttPressMic, PttReleaseMic,
       MuteClickedMic DEF ViewerInv
<1>3. LangInv'
  BY <1>1, <1>2 DEF ViewerInv, LangInv, LangTypes, LanguageAgreed
<1>4. loaded => LoadedInv'
  BY <1>1 DEF LoadedInv
<1>5. CASE MicClicked \/ PttPress
  <2>1. page.select # None
    BY <1>5 DEF MicClicked, PttPress, CanMic
  <2>2. QED  BY <1>2, <1>3, <1>4, <2>1 DEF ViewerInv, LoadedInv
<1>6. CASE \E i \in Mics : MicGranted(i) \/ MicFails(i)
  <2>1. PICK i \in Mics : MicGranted(i) \/ MicFails(i)
    BY <1>6
  <2>2. start[i].at # "unused"
    BY <2>1 DEF MicGranted, MicFails, Suspended
  <2>3. QED  BY <1>2, <1>3, <1>4, <2>2 DEF ViewerInv, LoadedInv
<1>7. CASE PttRelease \/ MuteClicked \/ ModeClicked
  <2>1. start' = start
    BY <1>7 DEF PttRelease, MuteClicked, ModeClicked
  <2>2. QED  BY <1>1, <1>2, <1>3, <2>1, StopRecords DEF ViewerInv
<1>8. QED  BY <1>5, <1>6, <1>7

LEMMA InitViewer == Init => ViewerInv
<1> SUFFICES ASSUME Init  PROVE ViewerInv
  OBVIOUS
<1>1. LangTypes
  <2>1. /\ conn = "connecting" /\ loaded = FALSE /\ host \in HostSet /\ loop \in LoopSet
        /\ detecting = FALSE /\ overruled = FALSE
    BY DEF Init, HostSet, LoopSet, LangOrNone, NoSession, NoLoop
  <2>2. \E l \in LangOrNone :
          page = [active |-> FALSE, ended |-> FALSE, lang |-> l, select |-> None]
    BY DEF Init, LangOrNone
  <2>3. page \in PageSet
    BY <2>2 DEF PageSet, LangOrNone
  <2>4. overlay \in OverlaySet
    BY DEF Init, OverlaySet, LangOrNone
  <2>5. QED  BY <2>1, <2>3, <2>4 DEF LangTypes
<1>2. MicTypes /\ ~mic.recording
  BY DEF Init, MicTypes, MicSet, CallSet
<1>3. Suspended = {} /\ live = {} /\ page.select = None /\ \A i \in Mics : start[i].at = "unused"
  BY DEF Init, Suspended
<1>4. QED
  BY <1>1, <1>2, <1>3
     DEF ViewerInv, LangInv, LanguageAgreed, MicInv, StartInv, NoStreamLeft, PressInv,
         HotWhileHeld, LoadedInv

(* The inductive invariant holds for any languages and calls.              *)
THEOREM ViewerInvariant == Spec => []ViewerInv
<1>1. ViewerInv /\ [Next]_vars => ViewerInv'
  <2> SUFFICES ASSUME ViewerInv, [Next]_vars  PROVE ViewerInv'
    OBVIOUS
  <2>1. CASE UNCHANGED vars
    <3>1. MicInv'
      BY <2>1, MicUnchanged DEF vars, mic_vars, ViewerInv
    <3>2. LangInv' /\ LoadedInv'
      BY <2>1 DEF vars, server_vars, mic_vars, ViewerInv, LangInv, LangTypes, LanguageAgreed,
                  LoadedInv
    <3>3. QED  BY <3>1, <3>2 DEF ViewerInv
  <2>2. CASE SocketOpens \/ InitArrives \/ SocketCloses \/ Reconnect
    BY <2>2, ConnectionStep, InitArrivesStep
  <2>3. CASE \/ HostStarts \/ HostTogglesPtt \/ SegmentsArrive \/ HostEnds \/ AudioArrives
             \/ DetectionBegins \/ LanguageDetected \/ OtherGuestChooses
    BY <2>3, HostStartsStep, HostTogglesPttStep, LanguageComesStep, HostEndsStep
  <2>4. CASE LanguagesLoaded \/ LanguageChosen \/ OverlayLanguageChosen
             \/ ConsentAccepted \/ ConsentTimerFires
    BY <2>4, ChoiceStep
  <2>5. ASSUME NEW i \in Mics, MicGranted(i) \/ MicStarts(i) \/ MicFails(i)
        PROVE  ViewerInv'
    BY <2>5, MicStartsStep, MicStep
  <2>6. CASE MicClicked \/ PttPress \/ PttRelease \/ MuteClicked \/ ModeClicked
    BY <2>6, MicStep
  <2>7. QED  BY <2>1, <2>2, <2>3, <2>4, <2>5, <2>6 DEF Next
<1>2. QED  BY <1>1, InitViewer, PTL DEF Spec
-----------------------------------------------------------------------------
(* What the runs check, for any languages and any number of calls. *)

(* The server transcribes who speaks in the language the page shows,       *)
(* unless a late detection or another guest has set another one since, or  *)
(* the guest's loop holds on to an earlier recording's session.            *)
THEOREM LanguageHolds == Spec => []LanguageOK
<1>1. ViewerInv => LanguageOK
  BY TypeParts DEF ViewerInv, LangInv, MicInv, LanguageOK
<1>2. QED  BY <1>1, ViewerInvariant, PTL

(* No stream is forgotten, and with push-to-talk an open microphone is one *)
(* that is held, but for the cases that `missed' and `torn' name.          *)
THEOREM MicHolds == Spec => []MicOK
<1>1. ViewerInv => MicOK
  BY DEF ViewerInv, MicInv, MicOK
<1>2. QED  BY <1>1, ViewerInvariant, PTL
=============================================================================
