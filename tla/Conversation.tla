----------------------------- MODULE Conversation -----------------------------
(***************************************************************************)
(* One recording as the two pages see it: the server's segments and        *)
(* translations (streaming/handler.py, serialize.py), the copy that the    *)
(* host's page keeps, renders and exports (static/js/host.js,              *)
(* transcript_export.js), and the copy of the guest's page, which also     *)
(* reads translations aloud (static/js/viewer.js).                         *)
(*                                                                         *)
(* Three tasks of the server send: the ASR loop whole snapshots, the MT    *)
(* loop single translations and failures, and the timer that follows the   *)
(* release of a talk button a snapshot of what it has made final; each to  *)
(* the host first and, after an await, to the guest, so a snapshot may     *)
(* reach the guest after something newer.  The stop's last snapshot goes   *)
(* to the guest first.  Pages handle a message as it is sent.              *)
(* A text is its origin: spoken ("src"), translated ("trans") or missing.  *)
(***************************************************************************)
EXTENDS Integers, Sequences, FiniteSets, SequencesExt

CONSTANTS
  Segs,          \* ids of the segments
  SaidByHost,    \* those the host says in any case; the others are anybody's
  Foreign,       \* the guest's language
  None

ASSUME ConversationAssumption ==
  /\ Segs \subseteq Nat /\ IsFiniteSet(Segs) /\ SaidByHost \subseteq Segs
  /\ Foreign # "de"
  /\ None \notin Segs /\ None \notin {Foreign, "de"}

VARIABLES
  guests,      \* the segments the guest says; the host speaks German
  heard,       \* the language Whisper takes each segment for
  seg,         \* "absent", "live" or "final", as the tracker has it
  job,         \* where each segment is on its way through the MT loop
  stored,      \* the segments with an entry in session.translations
  foreign,     \* session.foreign_lang
  phase,       \* of the recording: up to the stop sequence's end
  sent,        \* the snapshot the ASR loop has hashed last
  mail,        \* snapshots that one page only has: tick and release, those
               \* that the host has; final, the stop's, which the guest has
  rushed,      \* the stop did not wait for the translations any longer
  cast,        \* the segment whose result the MT loop has sent to the host only
  host,        \* the host's page: copy, lang, dom, pending
  guest,       \* the guest's page: online, copy, lang, failed, pending
  stale,       \* the guest has got a release's snapshot that was overtaken
  speech       \* its speech: enabled, queue, and the state of each segment

server == <<seg, job, stored, foreign, phase, sent, mail, rushed, cast>>
client == <<guest, stale>>
said == <<guests, heard>>
vars == <<said, server, host, client, speech>>

Jobs == {"none", "queued", "translating", "translated", "failed", "skipped"}
Text == {"src", "trans", "dots", "failed"}
Snapshot == [Segs -> [state : {"absent", "live", "final"}, lang : {"de", Foreign},
                      trans : BOOLEAN]]
\* A snapshot and the foreign language that it names.
Message == [view : Snapshot, lang : {Foreign, None}]
\* What a page takes for the foreign language.
PageLang == {Foreign, "en", None}

HostSegs == Segs \ guests
GuestSegs == guests

TypeOK ==
  /\ guests \subseteq Segs \ SaidByHost
  /\ heard \in [Segs -> {"de", Foreign}]
  /\ seg \in [Segs -> {"absent", "live", "final"}]
  /\ job \in [Segs -> Jobs]
  /\ stored \subseteq Segs
  /\ foreign \in {Foreign, None}
  /\ phase \in {"recording", "stopping", "closing", "ended"}
  /\ sent \in Snapshot
  /\ mail \in [tick : SUBSET Message, release : SUBSET Message, final : SUBSET Message]
  /\ rushed \in BOOLEAN
  /\ cast \in Segs \cup {None}
  /\ host \in [copy : Snapshot, lang : PageLang, pending : SUBSET Segs,
               dom : [Segs -> [german : Text, foreign : Text]]]
  /\ guest \in [online : BOOLEAN, copy : Snapshot, lang : PageLang,
                failed : SUBSET Segs, pending : SUBSET Segs]
  /\ stale \in BOOLEAN
  /\ speech \in [enabled : BOOLEAN, queue : Seq(Segs),
                 at : [Segs -> {"none", "queued", "fetching", "playing", "over", "dropped"}]]
----------------------------------------------------------------------------
(* What the server sends. *)

Absent == [state |-> "absent", lang |-> "de", trans |-> FALSE]
Nothing == [s \in Segs |-> Absent]

\* Mutant: what Whisper heard counts.
ViewAsHeard(state) ==
  [s \in Segs |->
     IF state[s] = "absent" THEN Absent
     ELSE [state |-> state[s], lang |-> heard[s], trans |-> s \in stored]]

\* _serialize_segments: a certain role overrides the language heard.
View(state) ==
  [s \in Segs |->
     IF state[s] = "absent" THEN Absent
     ELSE [state |-> state[s],
           lang |-> IF s \in HostSegs THEN "de" ELSE IF foreign # None THEN foreign ELSE heard[s],
           trans |-> s \in stored]]

Serialized == View(seg)
MessageOf(view) == [view |-> view, lang |-> foreign]

\* computeSegmentTexts, the host's bubbles of a segment.
Bubbles(s, copy, lang) ==
  IF s \in HostSegs
  THEN [german |-> "src", foreign |-> IF lang = Foreign /\ copy.trans THEN "trans" ELSE "dots"]
  ELSE [german |-> IF copy.trans THEN "trans" ELSE IF copy.lang = "de" THEN "src" ELSE "dots",
        foreign |-> IF lang # None /\ copy.lang = lang THEN "src" ELSE "dots"]

Blank == [german |-> "dots", foreign |-> "dots"]

Init ==
  /\ guests \in SUBSET (Segs \ SaidByHost)
  /\ heard \in [Segs -> {"de", Foreign}]
  /\ \A s \in HostSegs : heard[s] = "de"
  /\ seg = [s \in Segs |-> "absent"]
  /\ job = [s \in Segs |-> "none"]
  /\ stored = {}
  /\ foreign \in {Foreign, None}
  /\ phase = "recording"
  /\ sent = Nothing /\ mail = [tick |-> {}, release |-> {}, final |-> {}]
  /\ rushed = FALSE /\ cast = None
  /\ host = [copy |-> Nothing, lang |-> foreign, pending |-> {}, dom |-> [s \in Segs |-> Blank]]
  /\ guest = [online |-> FALSE, copy |-> Nothing, lang |-> None, failed |-> {}, pending |-> {}]
  /\ stale = FALSE
  /\ speech = [enabled |-> FALSE, queue |-> <<>>, at |-> [s \in Segs |-> "none"]]
----------------------------------------------------------------------------
(* The host's page. *)

\* renderSegments: every bubble anew.
RenderSegments(view, lang) ==
  [s \in Segs |-> IF view[s].state = "absent" THEN Blank ELSE Bubbles(s, view[s], lang)]

\* refreshPendingFromSegments: what the host cannot read yet.
HostPending(view) ==
  {s \in Segs : view[s].state = "final" /\ view[s].lang # "de" /\ ~view[s].trans}

\* handleSegments: the copy, the bubbles and the pending set anew.
HostSegments(view, told) ==
  LET lang == IF host.lang # None THEN host.lang ELSE told
  IN host' = [copy |-> view, lang |-> lang, dom |-> RenderSegments(view, lang),
              pending |-> HostPending(view)]

\* A bubble in place: the text under the other language than the speaker's.
SetBubble(s, text) ==
  IF s \in GuestSegs THEN [host.dom[s] EXCEPT !.german = text]
  ELSE IF host.lang = Foreign THEN [host.dom[s] EXCEPT !.foreign = text]
  ELSE host.dom[s]

\* Mutant: the host's own words are not updated in place.
HostTranslationGuestOnly(s) ==
  host' = [host EXCEPT !.copy[s].trans = TRUE,
                       !.dom[s] = IF s \in GuestSegs THEN SetBubble(s, "trans") ELSE @,
                       !.pending = @ \ {s}]

\* handleTranslation: the copy, and the one bubble in place.
HostTranslation(s) ==
  host' = [host EXCEPT !.copy[s].trans = TRUE,
                       !.dom[s] = SetBubble(s, "trans"),
                       !.pending = IF s \in GuestSegs THEN @ \ {s} ELSE @]

\* applyFailed writes over the placeholder only: a text stays, and so do the
\* dots under a final segment of the host.
ShowsPlaceholder(s) ==
  IF s \in GuestSegs THEN host.dom[s].german = "dots"
  ELSE host.dom[s].foreign = "dots" /\ host.copy[s].state = "live"

\* handleTranslationError.
HostFailure(s) ==
  host' = [host EXCEPT !.dom[s] = IF host.copy[s].state # "absent" /\ ShowsPlaceholder(s)
                                 THEN SetBubble(s, "failed") ELSE @,
                       !.pending = IF s \in GuestSegs THEN @ \ {s} ELSE @]
----------------------------------------------------------------------------
(* The guest's page and its speech. *)

\* processTTSQueue, when a segment has been dealt with.
NextSpoken(sp) ==
  IF sp.queue = <<>> THEN sp
  ELSE [sp EXCEPT !.queue = Tail(@), !.at[Head(sp.queue)] = "fetching"]

\* The ids of S in the order of the list.
InOrder(S) ==
  {q \in [1 .. Cardinality(S) -> S] :
     ToSet(q) = S /\ \A i, j \in DOMAIN q : i < j => q[i] < q[j]}

Speaking(sp) == \E s \in Segs : sp.at[s] \in {"fetching", "playing"}

\* Mutant: what has been spoken already is not looked up.
EnqueueAgain(sp, S) ==
  LET new == IF sp.enabled THEN {s \in S : sp.at[s] \notin {"queued", "fetching", "playing"}}
                           ELSE {}
      queued(q) == [sp EXCEPT !.queue = @ \o q,
                              !.at = [s \in Segs |-> IF s \in new THEN "queued" ELSE @[s]]]
  IN {IF Speaking(sp) THEN queued(q) ELSE NextSpoken(queued(q)) : q \in InOrder(new)}

\* enqueueTTS of the segments S, in order of their ids.
Enqueue(sp, S) ==
  LET new == IF sp.enabled THEN {s \in S : sp.at[s] = "none"} ELSE {}
      queued(q) == [sp EXCEPT !.queue = @ \o q,
                              !.at = [s \in Segs |-> IF s \in new THEN "queued" ELSE @[s]]]
  IN {IF Speaking(sp) THEN queued(q) ELSE NextSpoken(queued(q)) : q \in InOrder(new)}

\* Segments the guest hears: the host's, translated.
Speakable(view) == {s \in HostSegs : view[s].state = "final" /\ view[s].trans}

\* refreshPendingFromSegments: what the guest cannot read yet.
GuestPending(view, lang) ==
  IF lang = None THEN guest.pending
  ELSE {s \in HostSegs : view[s].state = "final" /\ ~(view[s].trans /\ lang = Foreign)}

\* chooseBubbleText: the guest reads no German.
GuestBubble(s) ==
  IF guest.lang = Foreign /\ guest.copy[s].trans /\ s \in HostSegs THEN "trans"
  ELSE IF s \in GuestSegs /\ guest.copy[s].lang = guest.lang THEN "src"
  ELSE IF guest.lang = Foreign /\ s \in HostSegs \cap guest.failed THEN "failed"
  ELSE "dots"

\* updateSegments and refreshPendingFromSegments: the marks of failures are
\* those of the old list.
GuestSegments(view, lang) ==
  /\ guest' = [guest EXCEPT !.copy = view, !.lang = lang, !.failed = {},
                            !.pending = GuestPending(view, lang)]
  /\ speech' \in IF lang = Foreign THEN Enqueue(speech, Speakable(view)) ELSE {speech}

\* handleViewerSegments: the page's own language comes first.
GuestReceives(view, told) ==
  IF guest.online THEN GuestSegments(view, IF guest.lang # None THEN guest.lang ELSE told)
                  ELSE UNCHANGED <<guest, speech>>

\* handleViewerTranslation; an unknown segment is passed over.
GuestTranslation(s) ==
  IF guest.online
  THEN /\ guest' = [guest EXCEPT !.copy[s].trans = @ \/ guest.copy[s].state # "absent",
                                 !.pending = IF guest.lang = Foreign /\ s \in HostSegs
                                            THEN @ \ {s} ELSE @]
       /\ speech' \in IF s \in HostSegs /\ guest.lang = Foreign /\ guest.copy[s].state = "final"
                      THEN Enqueue(speech, {s}) ELSE {speech}
  ELSE UNCHANGED <<guest, speech>>

\* handleViewerTranslationError.
GuestFailure(s) ==
  IF guest.online /\ guest.copy[s].state # "absent"
  THEN /\ guest' = [guest EXCEPT !.failed = @ \cup {s},
                      !.pending = IF guest.lang = Foreign /\ s \in HostSegs
                                  THEN @ \ {s} ELSE @]
       /\ UNCHANGED speech
  ELSE UNCHANGED <<guest, speech>>

\* init, or session_active: the server's language comes first.
GuestConnects ==
  /\ ~guest.online /\ phase # "ended"
  /\ LET lang == IF foreign # None THEN foreign ELSE guest.lang
     IN /\ guest' = [online |-> TRUE, copy |-> Serialized, lang |-> lang, failed |-> {},
          pending |-> GuestPending(Serialized, lang)]
        /\ speech' \in IF lang = Foreign THEN Enqueue(speech, Speakable(Serialized)) ELSE {speech}
  /\ stale' = FALSE
  /\ UNCHANGED <<said, server, host>>

GuestDrops ==
  /\ guest.online
  /\ guest' = [guest EXCEPT !.online = FALSE, !.pending = {}]
  /\ UNCHANGED <<said, server, host, stale, speech>>

\* The guest picks the language; the server is told.
GuestChoosesLanguage ==
  /\ guest.online /\ guest.lang # Foreign
  /\ guest' = [guest EXCEPT !.lang = Foreign]
  /\ foreign' = IF phase = "ended" THEN foreign ELSE Foreign
  /\ UNCHANGED <<said, seg, job, stored, phase, sent, mail, rushed, cast, host, stale, speech>>

\* PENDING_TRANSLATION_TIMEOUT_MS, on either page.
HostPendingExpires(s) ==
  /\ s \in host.pending /\ host' = [host EXCEPT !.pending = @ \ {s}]
  /\ UNCHANGED <<said, server, client, speech>>
GuestPendingExpires(s) ==
  /\ s \in guest.pending /\ guest' = [guest EXCEPT !.pending = @ \ {s}]
  /\ UNCHANGED <<said, server, host, stale, speech>>
----------------------------------------------------------------------------
(* Speech. *)

\* Off empties the queue; what is being fetched is played all the same.
ToggleSpeech ==
  /\ speech' = IF speech.enabled
               THEN [enabled |-> FALSE, queue |-> <<>>,
                     at |-> [s \in Segs |-> IF speech.at[s] = "queued" THEN "dropped"
                                            ELSE speech.at[s]]]
               ELSE [speech EXCEPT !.enabled = TRUE]
  /\ UNCHANGED <<said, server, host, client>>

\* Mutant: a text that cannot be fetched ends the queue.
SpeechFetchedOrStuck(s) ==
  /\ speech.at[s] = "fetching"
  /\ \/ speech' = [speech EXCEPT !.at[s] = "playing"]
     \/ speech' = [speech EXCEPT !.at[s] = "over"]
  /\ UNCHANGED <<said, server, host, client>>

\* The answer of the TTS service, or none.
SpeechFetched(s) ==
  /\ speech.at[s] = "fetching"
  /\ \/ speech' = [speech EXCEPT !.at[s] = "playing"]
     \/ speech' = NextSpoken([speech EXCEPT !.at[s] = "over"])
  /\ UNCHANGED <<said, server, host, client>>

\* advance, once per audio: its end, its error, or its watchdog.
SpeechAdvances(s) ==
  /\ speech.at[s] = "playing"
  /\ speech' = NextSpoken([speech EXCEPT !.at[s] = "over"])
  /\ UNCHANGED <<said, server, host, client>>
----------------------------------------------------------------------------
(* The server's loops. *)

SetForeignLang ==
  /\ phase = "recording" /\ foreign = None
  /\ foreign' = Foreign
  /\ UNCHANGED <<said, seg, job, stored, phase, sent, mail, rushed, cast, host, client, speech>>

\* What a job may do to the segments: open one, or finalize one.
Recognized ==
  \/ \E s \in Segs : seg[s] = "absent" /\ seg' = [seg EXCEPT ![s] = "live"]
  \/ \E s \in Segs : seg[s] = "live" /\ seg' = [seg EXCEPT ![s] = "final"]
  \/ UNCHANGED seg

\* Mutant: translations do not count as a change of the snapshot.
AsrTickUnhashed ==
  /\ phase = "recording" /\ mail.tick = {}
  /\ Recognized
  /\ \E s \in Segs : seg'[s] # sent[s].state
  /\ sent' = View(seg') /\ mail' = [mail EXCEPT !.tick = {MessageOf(View(seg'))}]
  /\ HostSegments(View(seg'), foreign)
  /\ UNCHANGED <<said, job, stored, foreign, phase, rushed, cast, client, speech>>

\* _asr_tick: a snapshot that differs from the last one goes to the host.
AsrTick ==
  /\ phase = "recording" /\ mail.tick = {}
  /\ Recognized
  /\ View(seg') # sent
  /\ sent' = View(seg') /\ mail' = [mail EXCEPT !.tick = {MessageOf(View(seg'))}]
  /\ HostSegments(View(seg'), foreign)
  /\ UNCHANGED <<said, job, stored, foreign, phase, rushed, cast, client, speech>>

\* Then to the guest, and what is newly final is queued.
AsrTickEnds ==
  /\ phase = "recording"
  /\ \E m \in mail.tick : GuestReceives(m.view, m.lang)
  /\ job' = [s \in Segs |-> IF seg[s] = "final" /\ job[s] = "none" THEN "queued" ELSE job[s]]
  /\ mail' = [mail EXCEPT !.tick = {}]
  /\ stale' = FALSE
  /\ UNCHANGED <<said, seg, stored, foreign, phase, sent, rushed, cast, host>>

\* A talk button was released a while ago: what is live is made final and
\* queued, and the host is sent what is final now, which is everything.
Released ==
  /\ \E s \in Segs : seg[s] = "live"
  /\ seg' = [s \in Segs |-> IF seg[s] = "live" THEN "final" ELSE seg[s]]
  /\ job' = [s \in Segs |-> IF seg[s] = "live" THEN "queued" ELSE job[s]]
  /\ mail' = [mail EXCEPT !.release = @ \cup {MessageOf(View(seg'))}]
  /\ HostSegments(View(seg'), foreign)
  /\ UNCHANGED <<said, stored, foreign, phase, sent, rushed, cast, client, speech>>

\* Then the guest is; no hash tells whether that was overtaken.
ReleaseSent(m) ==
  /\ GuestReceives(m.view, m.lang)
  /\ mail' = [mail EXCEPT !.release = @ \ {m}]
  /\ stale' = (stale \/ m.view # Serialized)
  /\ UNCHANGED <<said, seg, job, stored, foreign, phase, sent, rushed, cast, host>>

MtIdle == cast = None /\ \A s \in Segs : job[s] # "translating"

\* A pair is resolved only when the foreign language is known by now.
MtTakes(s) ==
  /\ phase # "ended" /\ MtIdle
  /\ job[s] = "queued"
  /\ job' = [job EXCEPT ![s] = IF foreign = None THEN "skipped" ELSE "translating"]
  /\ UNCHANGED <<said, seg, stored, foreign, phase, sent, mail, rushed, cast, host, client, speech>>

MtResult(s) ==
  /\ phase # "ended"
  /\ job[s] = "translating"
  /\ \/ /\ job' = [job EXCEPT ![s] = "translated"]
        /\ stored' = stored \cup {s}
        /\ HostTranslation(s)
     \/ /\ job' = [job EXCEPT ![s] = "failed"]
        /\ HostFailure(s)
        /\ UNCHANGED stored
  /\ cast' = s
  /\ UNCHANGED <<said, seg, foreign, phase, sent, mail, rushed, client, speech>>

MtSent ==
  /\ phase # "ended" /\ cast # None
  /\ IF job[cast] = "translated" THEN GuestTranslation(cast) ELSE GuestFailure(cast)
  /\ cast' = None
  /\ UNCHANGED <<said, seg, job, stored, foreign, phase, sent, mail, rushed, host, stale>>

\* request_summary: the ASR task is cancelled where it is, and everything
\* live is finalized and queued.
StopRequested ==
  /\ phase = "recording"
  /\ phase' = "stopping"
  /\ mail' = [mail EXCEPT !.tick = {}]
  /\ seg' = [s \in Segs |-> IF seg[s] = "live" THEN "final" ELSE seg[s]]
  /\ job' = [s \in Segs |-> IF seg[s] = "live" THEN "queued" ELSE job[s]]
  /\ UNCHANGED <<said, stored, foreign, sent, rushed, cast, host, client, speech>>

Drained == MtIdle /\ \A s \in Segs : job[s] # "queued"

\* When the queue is drained, or after a minute, a final snapshot is made,
\* if there is anything to send ...
FinalMessages ==
  IF \E s \in Segs : seg[s] = "final" THEN {MessageOf(Serialized)} ELSE {}

\* The language that the final snapshot names: the foreign one "or 'en'".
Named(m) == IF m.lang = None THEN "en" ELSE m.lang

\* Mutant: the guest gets no final snapshot.
FinalSnapshotHostOnly ==
  /\ phase = "stopping"
  /\ phase' = "closing"
  /\ rushed' = ~Drained
  /\ mail' = [mail EXCEPT !.final = FinalMessages]
  /\ UNCHANGED <<said, seg, job, stored, foreign, sent, cast, host, client, speech>>

\* ... and goes to the guest ...
FinalSnapshot ==
  /\ phase = "stopping"
  /\ phase' = "closing"
  /\ rushed' = ~Drained
  /\ mail' = [mail EXCEPT !.final = FinalMessages]
  /\ IF FinalMessages = {} THEN UNCHANGED <<guest, speech>>
     ELSE \E m \in FinalMessages : GuestReceives(m.view, Named(m))
  /\ stale' = FALSE
  /\ UNCHANGED <<said, seg, job, stored, foreign, sent, cast, host>>

\* ... and, as it is, to the host; meanwhile the MT loop goes on.
Closed ==
  /\ phase = "closing"
  /\ phase' = "ended"
  /\ IF mail.final = {} THEN UNCHANGED host
     ELSE \E m \in mail.final : HostSegments(m.view, Named(m))
  /\ UNCHANGED <<said, seg, job, stored, foreign, sent, mail, rushed, cast, client, speech>>
----------------------------------------------------------------------------
Next ==
  \/ AsrTick \/ AsrTickEnds \/ SetForeignLang \/ Released
  \/ \E m \in mail.release : ReleaseSent(m)
  \/ MtSent \/ StopRequested \/ FinalSnapshot \/ Closed
  \/ GuestConnects \/ GuestDrops \/ GuestChoosesLanguage \/ ToggleSpeech
  \/ \E s \in Segs : MtTakes(s) \/ MtResult(s) \/ SpeechFetched(s) \/ SpeechAdvances(s)
                   \/ HostPendingExpires(s) \/ GuestPendingExpires(s)

\* The loops go on, the model and the TTS service answer, and every audio
\* ends or is ended by its watchdog.
Spec ==
  /\ Init /\ [][Next]_vars
  /\ WF_vars(AsrTick \/ AsrTickEnds) /\ WF_vars(FinalSnapshot \/ Closed)
  /\ WF_vars(\E m \in mail.release : ReleaseSent(m))
  /\ WF_vars(MtSent \/ \E s \in Segs : MtTakes(s) \/ MtResult(s))
  /\ WF_vars(\E s \in Segs : SpeechFetched(s) \/ SpeechAdvances(s))
----------------------------------------------------------------------------
(* Properties. *)

\* The bubbles that the host's page changes in place are those it would
\* render from its copy, but for a failure marked where a text is missing.
BubblesMatchCopy ==
  \A s \in Segs : host.copy[s].state # "absent" =>
    LET rendered == Bubbles(s, host.copy[s], host.lang)
    IN \A b \in {"german", "foreign"} :
         host.dom[s][b] = rendered[b] \/ (host.dom[s][b] = "failed" /\ rendered[b] = "dots")

\* While nothing is under way, both pages have what the server has.  When the
\* stop has sent its snapshot, the guest also gets the last translations;
\* the host's page, which is exported, has at the end all that was made
\* before a stop that did not have to hurry.  A guest that was sent a
\* release's snapshot after something newer is excepted: nothing corrects
\* it while the recording stands still.
Quiet == phase = "recording" /\ mail.tick = {} /\ cast = None /\ Serialized = sent
PagesAgree ==
  /\ Quiet => host.copy = Serialized
  /\ Quiet /\ guest.online /\ ~stale => guest.copy = Serialized
  /\ phase = "closing" /\ Drained /\ guest.online /\ ~stale =>
       \A s \in Segs : guest.copy[s].state = seg[s] /\ guest.copy[s].trans = (s \in stored)
  /\ phase = "ended" =>
       \A s \in Segs : /\ host.copy[s].state = seg[s]
                       /\ host.copy[s].trans = (s \in stored) \/ rushed

\* "Translation in progress" stands for a final segment whose bubble shows
\* neither a text nor a failure.
PendingIsWaiting ==
  /\ \A s \in host.pending : host.copy[s].state = "final" /\ host.dom[s].german = "dots"
  /\ \A s \in guest.pending : guest.copy[s].state = "final" /\ GuestBubble(s) = "dots"

\* One text at a time is read aloud, and only final translated ones of the
\* host are.
SpokenOneByOne ==
  /\ \A s, t \in Segs : {speech.at[s], speech.at[t]} \subseteq {"fetching", "playing"} => s = t
  /\ \A s \in Segs : speech.at[s] # "none" => s \in HostSegs \cap stored /\ seg[s] = "final"

\* No text is read twice.
SpokenOnce == [][\A s \in Segs : speech.at[s] \in {"over", "dropped"} => speech'.at[s] = speech.at[s]]_vars

\* The speech always comes to an end of what it has to read.
SpeechEnds ==
  []<>(\A s \in Segs : speech.at[s] \in {"none", "over", "dropped"})

\* Again and again the guest that is there has every translation made so
\* far, whatever snapshots of the ASR loop overtake one.
TranslationArrives ==
  []<>(guest.online /\ ~stale /\ phase \notin {"closing", "ended"} =>
         \A s \in Segs : job[s] = "translated" => guest.copy[s].trans)

\* buildHtml: who spoke and the German text, per row of the protocol.
Row(s) ==
  LET german == host.copy[s].lang = "de"
  IN [speaker |-> IF s \in HostSegs \/ german THEN "Host" ELSE "Gast",
      german |-> IF german THEN "src" ELSE IF host.copy[s].trans THEN "trans" ELSE "dots"]

\* The protocol that the host may download has every final segment under
\* its speaker and with the German text that the page shows, if the final
\* snapshot was made with the foreign language known.
ProtocolFaithful ==
  phase = "ended" /\ (\A m \in mail.final : m.lang # None) =>
    \A s \in Segs : seg[s] # "absent" =>
      /\ host.copy[s].state = "final"
      /\ Row(s).speaker = (IF s \in HostSegs THEN "Host" ELSE "Gast")
      /\ Row(s).german = host.dom[s].german

\* Every bubble of both pages shows what its page knows: a text, a failure,
\* or that a text is being waited for.
BubblesOK == TypeOK /\ BubblesMatchCopy /\ PendingIsWaiting

\* Where a segment is on its way to the translator.  What the recording
\* leaves final and not queued is dropped.
Stage(s) ==
  CASE seg[s] = "absent" -> "none"
    [] seg[s] = "live" -> "live"
    [] seg[s] = "final" /\ job[s] = "none" -> IF phase = "recording" THEN "final" ELSE "dropped"
    [] job[s] \in {"queued", "translating"} -> "queued"
    [] OTHER -> "handled"

Lifecycle == INSTANCE SegmentLifecycle WITH
  Segments <- Segs,
  stage <- [s \in Segs |-> Stage(s)]

\* Each text goes its way once: a segment is queued, translated and read
\* at most once, and texts are read one after the other.
OnceAndInTurn == Lifecycle!Spec /\ []SpokenOneByOne /\ SpokenOnce
=============================================================================
