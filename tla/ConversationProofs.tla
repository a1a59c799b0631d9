-------------------------- MODULE ConversationProofs --------------------------
(***************************************************************************)
(* Proofs about Conversation for any segments, said by anybody and heard   *)
(* as any of the two languages.                                            *)
(***************************************************************************)
EXTENDS Conversation, FiniteSetTheorems, SequenceTheorems, TLAPS

\* The records of TypeOK.
SegView == [state : {"absent", "live", "final"}, lang : {"de", Foreign}, trans : BOOLEAN]
LangOrNone == {Foreign, None}
Dom == [Segs -> [german : Text, foreign : Text]]
HostSet == [copy : Snapshot, lang : PageLang, pending : SUBSET Segs, dom : Dom]
GuestSet == [online : BOOLEAN, copy : Snapshot, lang : PageLang,
             failed : SUBSET Segs, pending : SUBSET Segs]
MailSet == [tick : SUBSET Message, release : SUBSET Message, final : SUBSET Message]
SpeechState == {"none", "queued", "fetching", "playing", "over", "dropped"}
SpeechSet == [enabled : BOOLEAN, queue : Seq(Segs), at : [Segs -> SpeechState]]

\* TypeOK by its owners: the server, the pages, the speech.
SaidTypes == guests \subseteq Segs \ SaidByHost /\ heard \in [Segs -> {"de", Foreign}]
ServerTypes ==
  /\ seg \in [Segs -> {"absent", "live", "final"}] /\ job \in [Segs -> Jobs]
  /\ stored \subseteq Segs /\ foreign \in LangOrNone
  /\ phase \in {"recording", "stopping", "closing", "ended"}
  /\ sent \in Snapshot /\ mail \in MailSet /\ rushed \in BOOLEAN /\ cast \in Segs \cup {None}

\* What the server knows only grows: jobs are of final segments, the stored
\* translations are those made, there is one job at a time, and none before
\* the foreign language is known.
ServerInv ==
  /\ ServerTypes
  /\ \A s \in Segs : job[s] # "none" => seg[s] = "final"
  /\ \A s \in Segs : s \in stored <=> job[s] = "translated"
  /\ \A s, t \in Segs : job[s] = "translating" /\ job[t] = "translating" => s = t
  /\ \A s \in Segs : job[s] = "translating" => cast = None
  /\ foreign = None => cast = None /\ \A s \in Segs : job[s] \in {"none", "queued", "skipped"}
  /\ phase # "recording" => mail.tick = {} /\ \A s \in Segs : seg[s] # "live"

\* A copy that was true once: what is in it, final or translated, still is.
True(copy) ==
  \A s \in Segs : /\ copy[s].state # "absent" => seg[s] # "absent"
                  /\ copy[s].state = "final" => seg[s] = "final"
                  /\ copy[s].trans => s \in stored

\* The language that a segment is sent with.
SentLang(s) == IF s \in HostSegs THEN "de" ELSE IF foreign # None THEN foreign ELSE heard[s]

\* The snapshot sent last is true, and older than the foreign language.
SentInv ==
  /\ True(sent)
  /\ foreign = None => \A s \in Segs : sent[s].state # "absent" => sent[s].lang = SentLang(s)
  /\ \A s \in Segs : sent[s].state = "absent" => sent[s].lang = "de"

\* Snapshots on their way are true, and the tick's is the one hashed last.
MailInv ==
  /\ \A m \in mail.tick : m.view = sent
  /\ \A m \in mail.release \cup mail.final : True(m.view)

\* The final snapshot has every segment, and every translation if the stop
\* has waited for them, for then there is none after it.
Ending == phase \in {"closing", "ended"}
FinalInv ==
  Ending =>
    /\ ~rushed => \A s \in Segs : job[s] \notin {"queued", "translating"}
    /\ mail.final = {} => \A s \in Segs : seg[s] = "absent"
    /\ \A m, n \in mail.final : m = n
    /\ \A m \in mail.final, s \in Segs :
         /\ m.view[s].state = seg[s]
         /\ s \in HostSegs => m.view[s].lang = "de"
         /\ ~rushed /\ s \in stored => m.view[s].trans
         /\ m.lang # None /\ s \notin HostSegs /\ seg[s] # "absent" => m.view[s].lang = Foreign

\* Unless a release has made something final since, the host's copy is the
\* snapshot hashed last and the translations since; at the end it is the
\* final one, and the page shows it.
HostCopyInv ==
  /\ True(host.copy)
  /\ phase # "ended" /\ (\A s \in Segs : seg[s] = "final" => sent[s].state = "final") =>
       \A s \in Segs : /\ host.copy[s].state = sent[s].state
                       /\ host.copy[s].lang = sent[s].lang
                       /\ sent[s].trans => host.copy[s].trans
  /\ phase = "ended" =>
       \A s \in Segs :
         /\ host.copy[s].state = seg[s]
         /\ ~rushed /\ s \in stored => host.copy[s].trans
         /\ seg[s] # "absent" =>
              /\ host.dom[s] = Bubbles(s, host.copy[s], host.lang)
              /\ s \in HostSegs => host.copy[s].lang = "de"
              /\ (\A m \in mail.final : m.lang # None) /\ s \notin HostSegs =>
                   host.copy[s].lang = Foreign

\* What waits at the host is the guest's.
HostPageInv ==
  /\ host \in HostSet /\ BubblesMatchCopy
  /\ \A s \in host.pending : host.copy[s].state = "final" /\ host.dom[s].german = "dots"

\* Where the server still has what it has hashed, so has the guest, unless it
\* was sent something older; when the stop has sent its snapshot the guest
\* lacks no more than the translation on its way.
GuestCopyInv ==
  /\ True(guest.copy)
  /\ phase = "recording" /\ mail.tick = {} /\ guest.online /\ ~stale =>
       \A s \in Segs :
         /\ Serialized[s].state = sent[s].state /\ Serialized[s].lang = sent[s].lang
            => guest.copy[s].state = sent[s].state /\ guest.copy[s].lang = sent[s].lang
         /\ sent[s].trans => guest.copy[s].trans
  /\ phase = "closing" /\ guest.online /\ ~stale =>
       \A s \in Segs : /\ guest.copy[s].state = seg[s]
                       /\ s \in stored /\ s # cast => guest.copy[s].trans

\* What waits at the guest is the host's.
GuestPageInv ==
  /\ guest \in GuestSet /\ stale \in BOOLEAN
  /\ guest.lang = None => guest.pending = {}
  /\ guest.pending \subseteq HostSegs
  /\ \A s \in guest.pending : guest.copy[s].state = "final" /\ GuestBubble(s) = "dots"

\* The page takes English for the foreign language only when the final
\* snapshot was sent without one, and then nothing is translated.
GuestLangInv ==
  /\ guest.lang \notin {Foreign, None} => foreign = None /\ Ending
  /\ foreign = None => guest.failed = {}

\* The queue holds, once each, segments that are queued, and one at a time
\* is spoken.
SpeechOK(sp) ==
  /\ sp \in SpeechSet
  /\ \A i \in 1 .. Len(sp.queue) : sp.at[sp.queue[i]] = "queued"
  /\ \A i, j \in 1 .. Len(sp.queue) : sp.queue[i] = sp.queue[j] => i = j
  /\ \A s, t \in Segs : sp.at[s] \in {"fetching", "playing"} /\ sp.at[t] \in {"fetching", "playing"}
                       => s = t

SpeechInv ==
  /\ SpeechOK(speech)
  /\ \A s \in Segs : speech.at[s] # "none" => s \in HostSegs \cap stored

ConvInv ==
  /\ SaidTypes /\ ServerInv /\ SentInv /\ MailInv /\ FinalInv /\ HostCopyInv /\ HostPageInv
  /\ GuestCopyInv /\ GuestPageInv /\ GuestLangInv /\ SpeechInv
-----------------------------------------------------------------------------
(* Constants, and what the server sends. *)

LEMMA ConvFacts ==
  /\ None \notin Segs /\ Foreign # "de" /\ None # Foreign /\ None # "de"
  /\ Segs \subseteq Nat /\ IsFiniteSet(Segs)
BY ConversationAssumption

\* What a snapshot says of a segment.
ViewOf(state, s) ==
  IF state = "absent" THEN Absent
  ELSE [state |-> state, lang |-> SentLang(s), trans |-> s \in stored]

\* The same by its fields.
Shows(view, state, s) ==
  /\ view.state = state
  /\ view.lang = IF state = "absent" THEN "de" ELSE SentLang(s)
  /\ view.trans <=> state # "absent" /\ s \in stored

LEMMA ViewFacts ==
  ASSUME SaidTypes, ServerTypes, NEW state \in [Segs -> {"absent", "live", "final"}]
  PROVE  /\ View(state) \in Snapshot
         /\ \A s \in Segs : View(state)[s] = ViewOf(state[s], s)
         /\ \A s \in Segs : Shows(View(state)[s], state[s], s)
<1>1. ASSUME NEW s \in Segs
      PROVE  ViewOf(state[s], s) \in SegView /\ Shows(ViewOf(state[s], s), state[s], s)
  <2>1. /\ state[s] \in {"absent", "live", "final"} /\ SentLang(s) \in {"de", Foreign}
        /\ (s \in stored) \in BOOLEAN
    BY DEF SentLang, SaidTypes, ServerTypes, LangOrNone
  <2>2. CASE state[s] = "absent"
    BY <2>1, <2>2 DEF ViewOf, Shows, SegView, Absent
  <2>3. CASE state[s] # "absent"
    BY <2>1, <2>3 DEF ViewOf, Shows, SegView
  <2>4. QED  BY <2>2, <2>3
<1>2. View(state) = [s \in Segs |-> ViewOf(state[s], s)]
  BY DEF View, ViewOf, SentLang
<1>3. Snapshot = [Segs -> SegView]
  BY DEF Snapshot, SegView
<1>4. QED  BY <1>1, <1>2, <1>3

(* The same of the state after a step.                                     *)
LEMMA ViewFactsNext ==
  ASSUME SaidTypes', ServerTypes'
  PROVE  /\ Serialized' \in Snapshot
         /\ \A s \in Segs : Serialized'[s] = ViewOf(seg[s], s)'
         /\ \A s \in Segs : Shows(Serialized[s], seg[s], s)'
<1>1. ASSUME NEW s \in Segs
      PROVE  ViewOf(seg[s], s)' \in SegView /\ Shows(ViewOf(seg[s], s), seg[s], s)'
  <2>1. /\ seg'[s] \in {"absent", "live", "final"} /\ SentLang(s)' \in {"de", Foreign}
        /\ (s \in stored') \in BOOLEAN
    BY DEF SentLang, SaidTypes, ServerTypes, LangOrNone
  <2>2. CASE seg'[s] = "absent"
    BY <2>1, <2>2 DEF ViewOf, Shows, SegView, Absent
  <2>3. CASE seg'[s] # "absent"
    BY <2>1, <2>3 DEF ViewOf, Shows, SegView
  <2>4. QED  BY <2>2, <2>3
<1>2. Serialized' = [s \in Segs |-> ViewOf(seg[s], s)']
  BY DEF View, ViewOf, SentLang, Serialized
<1>3. Snapshot = [Segs -> SegView]
  BY DEF Snapshot, SegView
<1>4. QED  BY <1>1, <1>2, <1>3
-----------------------------------------------------------------------------
(* The server alone. *)

\* A step takes nothing back.
Grows ==
  /\ UNCHANGED said
  /\ \A s \in Segs : /\ seg[s] # "absent" => seg'[s] # "absent"
                     /\ seg[s] = "final" => seg'[s] = "final"
  /\ stored \subseteq stored'
  /\ foreign' \in {foreign, Foreign} /\ (foreign # None => foreign' = foreign)

LEMMA ServerUnchanged ==
  ASSUME ServerInv, UNCHANGED <<said, server>>
  PROVE  ServerInv' /\ Grows
<1>1. UNCHANGED <<said, seg, job, stored, foreign, phase, sent, mail, rushed, cast>>
  BY DEF server
<1>2. ServerInv'
  BY <1>1 DEF ServerInv, ServerTypes
<1>3. Grows
  BY <1>1 DEF Grows, ServerInv, ServerTypes
<1>4. QED  BY <1>2, <1>3

LEMMA RecognizedGrows ==
  ASSUME ServerInv, Recognized
  PROVE  /\ seg' \in [Segs -> {"absent", "live", "final"}]
         /\ \A s \in Segs : /\ seg[s] # "absent" => seg'[s] # "absent"
                            /\ seg[s] = "final" => seg'[s] = "final"
BY DEF ServerInv, ServerTypes, Recognized

LEMMA MailFields ==
  ASSUME ServerTypes
  PROVE  /\ mail.tick \in SUBSET Message /\ mail.release \in SUBSET Message
         /\ mail.final \in SUBSET Message
         /\ \A S \in SUBSET Message :
              /\ [mail EXCEPT !.tick = S] \in MailSet
              /\ [mail EXCEPT !.tick = S].tick = S
              /\ [mail EXCEPT !.tick = S].release = mail.release
              /\ [mail EXCEPT !.tick = S].final = mail.final
              /\ [mail EXCEPT !.release = S] \in MailSet
              /\ [mail EXCEPT !.release = S].tick = mail.tick
              /\ [mail EXCEPT !.release = S].release = S
              /\ [mail EXCEPT !.release = S].final = mail.final
              /\ [mail EXCEPT !.final = S] \in MailSet
              /\ [mail EXCEPT !.final = S].tick = mail.tick
              /\ [mail EXCEPT !.final = S].release = mail.release
              /\ [mail EXCEPT !.final = S].final = S
BY DEF ServerTypes, MailSet

LEMMA MessageFacts ==
  ASSUME SaidTypes, ServerTypes, NEW state \in [Segs -> {"absent", "live", "final"}]
  PROVE  /\ MessageOf(View(state)) \in Message
         /\ MessageOf(View(state)).view = View(state) /\ MessageOf(View(state)).lang = foreign
<1>1. View(state) \in Snapshot /\ foreign \in {Foreign, None}
  BY ViewFacts DEF ServerTypes, LangOrNone
<1>2. QED  BY <1>1 DEF MessageOf, Message

LEMMA AsrTickServer ==
  ASSUME SaidTypes, ServerInv, AsrTick
  PROVE  ServerInv' /\ Grows
<1>1. /\ UNCHANGED <<said, job, stored, foreign, phase, rushed, cast>>
      /\ phase = "recording" /\ Recognized /\ sent' = View(seg')
      /\ mail' = [mail EXCEPT !.tick = {MessageOf(View(seg'))}]
  BY DEF AsrTick
<1>2. /\ seg' \in [Segs -> {"absent", "live", "final"}]
      /\ \A s \in Segs : /\ seg[s] # "absent" => seg'[s] # "absent"
                         /\ seg[s] = "final" => seg'[s] = "final"
  BY <1>1, RecognizedGrows
<1>3. sent' \in Snapshot /\ mail' \in MailSet
  <2>1. View(seg') \in Snapshot /\ {MessageOf(View(seg'))} \in SUBSET Message
    BY <1>2, ViewFacts, MessageFacts DEF ServerInv
  <2>2. QED  BY <1>1, <2>1, MailFields DEF ServerInv
<1>4. ServerTypes'
  BY <1>1, <1>2, <1>3 DEF ServerInv, ServerTypes
<1>5. ServerInv'
  <2>1. /\ \A s \in Segs : job[s] # "none" => seg[s] = "final"
        /\ phase' = "recording"
    BY <1>1 DEF ServerInv
  <2>2. \A s \in Segs : job'[s] # "none" => seg'[s] = "final"
    BY <1>1, <1>2, <2>1
  <2>3. QED  BY <1>1, <1>4, <2>1, <2>2 DEF ServerInv
<1>6. Grows
  BY <1>1, <1>2 DEF Grows, ServerInv, ServerTypes
<1>7. QED  BY <1>5, <1>6

LEMMA AsrTickEndsServer ==
  ASSUME SaidTypes, ServerInv, AsrTickEnds
  PROVE  ServerInv' /\ Grows
<1>1. /\ UNCHANGED <<said, seg, stored, foreign, phase, sent, rushed, cast>>
      /\ phase = "recording" /\ mail' = [mail EXCEPT !.tick = {}]
      /\ job' = [s \in Segs |-> IF seg[s] = "final" /\ job[s] = "none" THEN "queued" ELSE job[s]]
  BY DEF AsrTickEnds
<1>2. job' \in [Segs -> Jobs] /\ mail' \in MailSet
  BY <1>1, MailFields DEF ServerInv, ServerTypes, Jobs
<1>3. ServerTypes'
  BY <1>1, <1>2 DEF ServerInv, ServerTypes
<1>4. ServerInv'
  BY <1>1, <1>2, <1>3 DEF ServerInv
<1>5. Grows
  BY <1>1 DEF Grows, ServerInv, ServerTypes
<1>6. QED  BY <1>4, <1>5

(* The release of a talk button finalizes and queues what is live.         *)
LEMMA ReleasedServer ==
  ASSUME SaidTypes, ServerInv, Released
  PROVE  /\ ServerInv' /\ Grows /\ phase = "recording" /\ phase' = phase
         /\ \A s \in Segs : seg'[s] = seg[s] \/ (seg[s] = "live" /\ seg'[s] = "final")
<1>1. /\ UNCHANGED <<said, stored, foreign, phase, sent, rushed, cast>>
      /\ \E s \in Segs : seg[s] = "live"
      /\ seg' = [s \in Segs |-> IF seg[s] = "live" THEN "final" ELSE seg[s]]
      /\ job' = [s \in Segs |-> IF seg[s] = "live" THEN "queued" ELSE job[s]]
      /\ mail' = [mail EXCEPT !.release = mail.release \cup {MessageOf(View(seg'))}]
  BY DEF Released
<1>2. /\ seg' \in [Segs -> {"absent", "live", "final"}] /\ job' \in [Segs -> Jobs]
  BY <1>1 DEF ServerInv, ServerTypes, Jobs
<1>3. mail' \in MailSet
  <2>1. mail.release \cup {MessageOf(View(seg'))} \in SUBSET Message
    BY <1>2, MailFields, MessageFacts DEF ServerInv
  <2>2. QED  BY <1>1, <2>1, MailFields DEF ServerInv
<1>4. phase = "recording"
  BY <1>1 DEF ServerInv
<1>5. ServerTypes'
  BY <1>1, <1>2, <1>3 DEF ServerInv, ServerTypes
<1>6. \A s \in Segs : /\ seg'[s] = IF seg[s] = "live" THEN "final" ELSE seg[s]
                      /\ job'[s] = IF seg[s] = "live" THEN "queued" ELSE job[s]
  BY <1>1
<1>7. ServerInv'
  BY <1>1, <1>4, <1>5, <1>6 DEF ServerInv
<1>8. Grows
  BY <1>1, <1>6 DEF Grows, ServerInv, ServerTypes
<1>9. QED  BY <1>1, <1>4, <1>6, <1>7, <1>8

LEMMA ReleaseSentServer ==
  ASSUME SaidTypes, ServerInv, NEW m, ReleaseSent(m)
  PROVE  ServerInv' /\ Grows
<1>1. /\ UNCHANGED <<said, seg, job, stored, foreign, phase, sent, rushed, cast>>
      /\ mail' = [mail EXCEPT !.release = mail.release \ {m}]
  BY DEF ReleaseSent
<1>2. mail' \in MailSet /\ mail'.tick = mail.tick
  BY <1>1, MailFields DEF ServerInv
<1>3. ServerTypes'
  BY <1>1, <1>2 DEF ServerInv, ServerTypes
<1>4. ServerInv'
  BY <1>1, <1>2, <1>3 DEF ServerInv
<1>5. Grows
  BY <1>1 DEF Grows, ServerInv, ServerTypes
<1>6. QED  BY <1>4, <1>5

LEMMA ForeignServer ==
  ASSUME SaidTypes, ServerInv, SetForeignLang \/ GuestChoosesLanguage
  PROVE  ServerInv' /\ Grows
<1>1. /\ UNCHANGED <<said, seg, job, stored, phase, sent, mail, rushed, cast>>
      /\ foreign' \in {foreign, Foreign}
  BY DEF SetForeignLang, GuestChoosesLanguage
<1>2. foreign \in LangOrNone
  BY DEF ServerInv, ServerTypes
<1>3. ServerTypes' /\ (foreign' = None => foreign = None)
  BY <1>1, <1>2, ConvFacts DEF ServerInv, ServerTypes, LangOrNone
<1>4. ServerInv'
  BY <1>1, <1>3 DEF ServerInv
<1>5. Grows
  BY <1>1, <1>2 DEF Grows, LangOrNone
<1>6. QED  BY <1>4, <1>5

LEMMA MtTakesServer ==
  ASSUME SaidTypes, ServerInv, NEW s \in Segs, MtTakes(s)
  PROVE  ServerInv' /\ Grows
<1>1. /\ UNCHANGED <<said, seg, stored, foreign, phase, sent, mail, rushed, cast>>
      /\ cast = None /\ (\A t \in Segs : job[t] # "translating") /\ job[s] = "queued"
      /\ job' = [job EXCEPT ![s] = IF foreign = None THEN "skipped" ELSE "translating"]
  BY DEF MtTakes, MtIdle
<1>2. /\ job' \in [Segs -> Jobs] /\ job'[s] \in {"skipped", "translating"}
      /\ foreign = None => job'[s] = "skipped"
      /\ \A t \in Segs : t # s => job'[t] = job[t]
  BY <1>1 DEF ServerInv, ServerTypes, Jobs
<1>3. ServerTypes'
  BY <1>1, <1>2 DEF ServerInv, ServerTypes
<1>4. ServerInv'
  BY <1>1, <1>2, <1>3 DEF ServerInv
<1>5. Grows
  BY <1>1 DEF Grows, ServerInv, ServerTypes
<1>6. QED  BY <1>4, <1>5

LEMMA MtResultServer ==
  ASSUME SaidTypes, ServerInv, NEW s \in Segs, MtResult(s)
  PROVE  ServerInv' /\ Grows
<1>1. /\ UNCHANGED <<said, seg, foreign, phase, sent, mail, rushed>>
      /\ job[s] = "translating" /\ cast' = s
      /\ \/ job' = [job EXCEPT ![s] = "translated"] /\ stored' = stored \cup {s}
         \/ job' = [job EXCEPT ![s] = "failed"] /\ stored' = stored
  BY DEF MtResult
<1>2. /\ job' \in [Segs -> Jobs] /\ \A t \in Segs : t # s => job'[t] = job[t]
      /\ \/ job'[s] = "translated" /\ stored' = stored \cup {s}
         \/ job'[s] = "failed" /\ stored' = stored
  BY <1>1 DEF ServerInv, ServerTypes, Jobs
<1>3. ServerTypes'
  BY <1>1, <1>2 DEF ServerInv, ServerTypes
<1>4. foreign # None
  BY <1>1 DEF ServerInv
<1>5. ServerInv'
  BY <1>1, <1>2, <1>3, <1>4 DEF ServerInv
<1>6. Grows
  BY <1>1, <1>2 DEF Grows, ServerInv, ServerTypes
<1>7. QED  BY <1>5, <1>6

LEMMA FinalMessagesFacts ==
  ASSUME SaidTypes, ServerInv
  PROVE  /\ FinalMessages \in SUBSET Message
         /\ FinalMessages = {} => \A s \in Segs : seg[s] # "final"
         /\ \A m \in FinalMessages : m.view = Serialized /\ m.lang = foreign
<1>1. /\ MessageOf(Serialized) \in Message
      /\ MessageOf(Serialized).view = Serialized /\ MessageOf(Serialized).lang = foreign
  BY MessageFacts DEF ServerInv, ServerTypes, Serialized
<1>2. QED  BY <1>1 DEF FinalMessages

LEMMA SentServer ==
  ASSUME SaidTypes, ServerInv, MtSent \/ FinalSnapshot \/ Closed
  PROVE  ServerInv' /\ Grows
<1>1. /\ UNCHANGED <<said, seg, job, stored, foreign, sent>>
      /\ cast' \in {cast, None} /\ (phase' = phase \/ phase # "recording")
      /\ phase' \in {phase, "closing", "ended"}
  BY DEF MtSent, FinalSnapshot, Closed
<1>2. mail' \in MailSet /\ mail'.tick = mail.tick /\ rushed' \in BOOLEAN
  <2>1. CASE FinalSnapshot
    BY <2>1, MailFields, FinalMessagesFacts DEF FinalSnapshot, ServerInv, Drained
  <2>2. CASE MtSent \/ Closed
    BY <2>2 DEF MtSent, Closed, ServerInv, ServerTypes
  <2>3. QED  BY <2>1, <2>2
<1>3. ServerTypes'
  BY <1>1, <1>2 DEF ServerInv, ServerTypes
<1>4. ServerInv'
  BY <1>1, <1>2, <1>3 DEF ServerInv
<1>5. Grows
  BY <1>1 DEF Grows, ServerInv, ServerTypes
<1>6. QED  BY <1>4, <1>5

(* The stop finalizes and queues all that is live.                         *)
LEMMA StopRequestedServer ==
  ASSUME SaidTypes, ServerInv, StopRequested
  PROVE  ServerInv' /\ Grows
<1>1. /\ UNCHANGED <<said, stored, foreign, sent, rushed, cast>> /\ phase' = "stopping"
      /\ mail' = [mail EXCEPT !.tick = {}]
      /\ seg' = [s \in Segs |-> IF seg[s] = "live" THEN "final" ELSE seg[s]]
      /\ job' = [s \in Segs |-> IF seg[s] = "live" THEN "queued" ELSE job[s]]
  BY DEF StopRequested
<1>2. /\ seg' \in [Segs -> {"absent", "live", "final"}] /\ job' \in [Segs -> Jobs]
      /\ mail' \in MailSet /\ mail'.tick = {} /\ \A s \in Segs : seg'[s] # "live"
  BY <1>1, MailFields DEF ServerInv, ServerTypes, Jobs
<1>3. ServerTypes'
  BY <1>1, <1>2 DEF ServerInv, ServerTypes
<1>4. ServerInv'
  BY <1>1, <1>2, <1>3 DEF ServerInv
<1>5. Grows
  BY <1>1, <1>2 DEF Grows, ServerInv, ServerTypes
<1>6. QED  BY <1>4, <1>5
-----------------------------------------------------------------------------
(* The speech queue. *)

LEMMA SpeechFields ==
  ASSUME NEW sp, SpeechOK(sp)
  PROVE  /\ sp \in SpeechSet /\ sp.enabled \in BOOLEAN /\ sp.queue \in Seq(Segs)
         /\ sp.at \in [Segs -> SpeechState]
BY DEF SpeechOK, SpeechSet

(* What is next is taken off the queue only when nothing is spoken.        *)
LEMMA NextSpokenOK ==
  ASSUME NEW sp, SpeechOK(sp), ~Speaking(sp)
  PROVE  /\ SpeechOK(NextSpoken(sp))
         /\ \A s \in Segs : \/ NextSpoken(sp).at[s] = sp.at[s]
                            \/ sp.at[s] = "queued" /\ NextSpoken(sp).at[s] = "fetching"
<1>1. CASE sp.queue = <<>>
  BY <1>1 DEF NextSpoken
<1>2. CASE sp.queue # <<>>
  <2> DEFINE h == Head(sp.queue)
             at == [sp.at EXCEPT ![h] = "fetching"]
             q == Tail(sp.queue)
  <2>1. /\ sp.queue \in Seq(Segs) /\ sp.at \in [Segs -> SpeechState] /\ sp \in SpeechSet
        /\ sp.enabled \in BOOLEAN
    BY SpeechFields
  <2>2. /\ h \in Segs /\ h = sp.queue[1] /\ Len(sp.queue) \in Nat /\ 1 \in 1 .. Len(sp.queue)
        /\ q \in Seq(Segs) /\ Len(q) = Len(sp.queue) - 1
        /\ \A i \in 1 .. Len(q) : i + 1 \in 1 .. Len(sp.queue) /\ q[i] = sp.queue[i + 1]
    BY <1>2, <2>1
  <2>3. sp.at[h] = "queued"
    BY <2>2 DEF SpeechOK
  <2>4. /\ at \in [Segs -> SpeechState] /\ at[h] = "fetching"
        /\ \A s \in Segs : s # h => at[s] = sp.at[s]
    BY <2>1, <2>2 DEF SpeechState
  <2>5. NextSpoken(sp) = [sp EXCEPT !.queue = q, !.at = at]
    BY <1>2, <2>1 DEF NextSpoken, SpeechSet
  <2> HIDE DEF h, at, q
  <2>6. /\ NextSpoken(sp) \in SpeechSet /\ NextSpoken(sp).queue = q /\ NextSpoken(sp).at = at
    BY <2>1, <2>2, <2>4, <2>5 DEF SpeechSet
  <2>7. \A i \in 1 .. Len(q) : q[i] \in Segs /\ q[i] # h /\ at[q[i]] = "queued"
    <3> SUFFICES ASSUME NEW i \in 1 .. Len(q)  PROVE q[i] \in Segs /\ q[i] # h /\ at[q[i]] = "queued"
      OBVIOUS
    <3>1. i + 1 \in 1 .. Len(sp.queue) /\ q[i] = sp.queue[i + 1] /\ i + 1 # 1
      BY <2>2
    <3>2. q[i] # h /\ sp.at[q[i]] = "queued" /\ q[i] \in Segs
      BY <2>1, <2>2, <3>1 DEF SpeechOK
    <3>3. QED  BY <2>4, <3>2
  <2>8. \A i, j \in 1 .. Len(q) : q[i] = q[j] => i = j
    <3> SUFFICES ASSUME NEW i \in 1 .. Len(q), NEW j \in 1 .. Len(q), q[i] = q[j]  PROVE i = j
      OBVIOUS
    <3>1. /\ i + 1 \in 1 .. Len(sp.queue) /\ j + 1 \in 1 .. Len(sp.queue)
          /\ sp.queue[i + 1] = sp.queue[j + 1]
      BY <2>2
    <3>2. \A m, n \in 1 .. Len(sp.queue) : sp.queue[m] = sp.queue[n] => m = n
      BY DEF SpeechOK
    <3>3. i + 1 = j + 1 /\ i \in Int /\ j \in Int
      BY <2>2, <3>1, <3>2
    <3>4. QED  BY <3>3
  <2>9. \A s \in Segs : at[s] \in {"fetching", "playing"} => s = h
    BY <2>4 DEF Speaking
  <2>10. SpeechOK(NextSpoken(sp))
    BY <2>6, <2>7, <2>8, <2>9 DEF SpeechOK
  <2>11. QED  BY <2>3, <2>4, <2>6, <2>10
<1>3. QED  BY <1>1, <1>2

LEMMA InOrderOnce ==
  ASSUME NEW S \in SUBSET Segs, NEW q \in InOrder(S)
  PROVE  /\ q \in Seq(S) /\ \A i, j \in 1 .. Len(q) : q[i] = q[j] => i = j
<1>1. IsFiniteSet(S) /\ Cardinality(S) \in Nat
  BY ConvFacts, FS_Subset, FS_CardinalityType
<1>2. q \in [1 .. Cardinality(S) -> S] /\ \A i, j \in DOMAIN q : i < j => q[i] < q[j]
  BY DEF InOrder
<1>3. q \in Seq(S) /\ Len(q) = Cardinality(S) /\ DOMAIN q = 1 .. Len(q)
  BY <1>1, <1>2
<1>4. ASSUME NEW i \in 1 .. Len(q), NEW j \in 1 .. Len(q), q[i] = q[j]
      PROVE  i = j
  <2>1. q[i] \in S
    BY <1>3
  <2> DEFINE x == q[i]
  <2>2. x \in Nat
    BY <2>1, ConvFacts
  <2> HIDE DEF x
  <2>3. ~(x < x)
    BY <2>2
  <2>4. ~(i < j) /\ ~(j < i)
    BY <1>2, <1>3, <1>4, <2>3 DEF x
  <2>5. QED  BY <1>1, <1>3, <2>4
<1>5. QED  BY <1>3, <1>4

(* What is new is queued behind the rest, once.                            *)
LEMMA EnqueueOK ==
  ASSUME NEW sp, SpeechOK(sp), NEW S \in SUBSET Segs, NEW r \in Enqueue(sp, S)
  PROVE  /\ SpeechOK(r)
         /\ \A s \in Segs : sp.at[s] = "none" /\ r.at[s] # "none" => s \in S
         /\ \A s \in Segs : sp.at[s] \in {"over", "dropped"} => r.at[s] = sp.at[s]
<1> DEFINE new == IF sp.enabled THEN {s \in S : sp.at[s] = "none"} ELSE {}
           at == [s \in Segs |-> IF s \in new THEN "queued" ELSE sp.at[s]]
           queued(q) == [sp EXCEPT !.queue = sp.queue \o q, !.at = at]
<1>1. PICK q \in InOrder(new) :
        r = IF Speaking(sp) THEN queued(q) ELSE NextSpoken(queued(q))
  BY DEF Enqueue
<1>2. /\ sp \in SpeechSet /\ sp.enabled \in BOOLEAN /\ sp.queue \in Seq(Segs)
      /\ sp.at \in [Segs -> SpeechState]
  BY SpeechFields
<1>3. new \in SUBSET Segs /\ new \subseteq S /\ \A s \in new : sp.at[s] = "none"
  OBVIOUS
<1>4. /\ at \in [Segs -> SpeechState]
      /\ \A s \in Segs : at[s] = IF s \in new THEN "queued" ELSE sp.at[s]
  BY <1>2 DEF SpeechState
<1> HIDE DEF new
<1>5. q \in Seq(new) /\ \A i, j \in 1 .. Len(q) : q[i] = q[j] => i = j
  BY <1>3, InOrderOnce
<1> HIDE DEF at
<1> DEFINE all == sp.queue \o q
<1>6. /\ all \in Seq(Segs) /\ Len(all) = Len(sp.queue) + Len(q)
      /\ \A i \in 1 .. Len(sp.queue) : all[i] = sp.queue[i]
      /\ \A i \in Len(sp.queue) + 1 .. Len(all) :
           i - Len(sp.queue) \in 1 .. Len(q) /\ all[i] = q[i - Len(sp.queue)] /\ all[i] \in new
  <2>1. q \in Seq(Segs) /\ \A i \in 1 .. Len(q) : q[i] \in new
    BY <1>3, <1>5
  <2>2. Len(q) \in Nat /\ Len(sp.queue) \in Nat
    BY <1>2, <2>1
  <2>3. all \in Seq(Segs) /\ Len(all) = Len(sp.queue) + Len(q)
        /\ \A i \in 1 .. Len(sp.queue) + Len(q) :
             all[i] = IF i <= Len(sp.queue) THEN sp.queue[i] ELSE q[i - Len(sp.queue)]
    BY <1>2, <2>1, ConcatProperties
  <2>4. QED  BY <2>1, <2>2, <2>3
<1>7. SpeechOK(queued(q)) /\ queued(q).at = at
  <2>1. queued(q) \in SpeechSet /\ queued(q).queue = all /\ queued(q).at = at
    BY <1>2, <1>4, <1>6 DEF SpeechSet
  <2> HIDE DEF all, queued
  <2>2. Len(sp.queue) \in Nat /\ Len(q) \in Nat
    BY <1>2, <1>5
  <2>3. ASSUME NEW i \in 1 .. Len(all)
        PROVE  /\ at[all[i]] = "queued" /\ all[i] \in Segs
               /\ i <= Len(sp.queue) => i \in 1 .. Len(sp.queue) /\ all[i] \notin new
               /\ i > Len(sp.queue) => i \in Len(sp.queue) + 1 .. Len(all) /\ all[i] \in new
    <3>1. CASE i <= Len(sp.queue)
      <4>1. i \in 1 .. Len(sp.queue) /\ all[i] = sp.queue[i] /\ sp.queue[i] \in Segs
        BY <1>2, <1>6, <2>2, <3>1
      <4>2. sp.at[all[i]] = "queued"
        BY <4>1 DEF SpeechOK
      <4>3. sp.at[all[i]] # "none"
        BY <4>2
      <4>4. all[i] \notin new /\ all[i] \in Segs
        BY <1>3, <4>1, <4>3
      <4>5. at[all[i]] = "queued"
        BY <1>4, <4>2, <4>4
      <4>6. QED  BY <2>2, <3>1, <4>1, <4>4, <4>5
    <3>2. CASE i > Len(sp.queue)
      BY <1>3, <1>4, <1>6, <2>2, <3>2
    <3>3. QED  BY <2>2, <3>1, <3>2
  <2>4. ASSUME NEW i \in 1 .. Len(all), NEW j \in 1 .. Len(all), all[i] = all[j]
        PROVE  i = j
    <3>1. CASE i <= Len(sp.queue)
      <4>1. j <= Len(sp.queue)
        BY <2>2, <2>3, <2>4, <3>1, <1>6
      <4>2. sp.queue[i] = sp.queue[j] /\ i \in 1 .. Len(sp.queue) /\ j \in 1 .. Len(sp.queue)
        BY <1>6, <2>3, <2>4, <3>1, <4>1
      <4>3. QED  BY <4>2 DEF SpeechOK
    <3>2. CASE i > Len(sp.queue)
      <4>1. j > Len(sp.queue)
        BY <2>2, <2>3, <2>4, <3>2, <1>6
      <4>2. /\ i - Len(sp.queue) \in 1 .. Len(q) /\ j - Len(sp.queue) \in 1 .. Len(q)
            /\ q[i - Len(sp.queue)] = q[j - Len(sp.queue)]
        BY <1>6, <2>3, <2>4, <3>2, <4>1
      <4>3. i - Len(sp.queue) = j - Len(sp.queue)
        BY <1>5, <4>2
      <4>4. QED  BY <1>6, <2>2, <4>3
    <3>3. QED  BY <1>6, <2>2, <3>1, <3>2
  <2>5. \A s, t \in Segs : at[s] \in {"fetching", "playing"} /\ at[t] \in {"fetching", "playing"}
                           => s = t
    BY <1>4 DEF SpeechOK
  <2>6. QED  BY <2>1, <2>3, <2>4, <2>5 DEF SpeechOK
<1>8. ~Speaking(sp) => ~Speaking(queued(q))
  BY <1>4, <1>7 DEF Speaking
<1> HIDE DEF queued
<1>9. CASE Speaking(sp)
  BY <1>1, <1>3, <1>4, <1>7, <1>9
<1>10. CASE ~Speaking(sp)
  <2>1. /\ SpeechOK(NextSpoken(queued(q)))
        /\ \A s \in Segs : \/ NextSpoken(queued(q)).at[s] = at[s]
                           \/ at[s] = "queued" /\ NextSpoken(queued(q)).at[s] = "fetching"
    BY <1>7, <1>8, <1>10, NextSpokenOK
  <2>2. r = NextSpoken(queued(q))
    BY <1>1, <1>10
  <2>3. QED  BY <1>3, <1>4, <2>1, <2>2
<1>11. QED  BY <1>9, <1>10

(* What is spoken passes on, and ends.                                     *)
LEMMA SpokenChanges ==
  ASSUME NEW sp, SpeechOK(sp), NEW s \in Segs, sp.at[s] \in {"fetching", "playing"},
         NEW to \in {"playing", "over"}
  PROVE  LET r == [sp EXCEPT !.at[s] = to]
         IN /\ SpeechOK(r) /\ r.at[s] = to
            /\ \A t \in Segs : t # s => r.at[t] = sp.at[t]
            /\ to = "over" => ~Speaking(r)
<1> DEFINE at == [sp.at EXCEPT ![s] = to]
           r == [sp EXCEPT !.at = at]
<1>1. /\ sp \in SpeechSet /\ sp.enabled \in BOOLEAN /\ sp.queue \in Seq(Segs)
      /\ sp.at \in [Segs -> SpeechState]
  BY SpeechFields
<1>2. /\ at \in [Segs -> SpeechState] /\ at[s] = to
      /\ \A t \in Segs : t # s => at[t] = sp.at[t]
  BY <1>1 DEF SpeechState
<1> HIDE DEF at
<1>3. r \in SpeechSet /\ r.queue = sp.queue /\ r.at = at
  BY <1>1, <1>2 DEF SpeechSet
<1> HIDE DEF r
<1>4. /\ \A i \in 1 .. Len(sp.queue) : sp.queue[i] \in Segs /\ sp.at[sp.queue[i]] = "queued"
      /\ \A i, j \in 1 .. Len(sp.queue) : sp.queue[i] = sp.queue[j] => i = j
  BY <1>1 DEF SpeechOK
<1>5. \A i \in 1 .. Len(sp.queue) : at[sp.queue[i]] = "queued"
  <2> SUFFICES ASSUME NEW i \in 1 .. Len(sp.queue)  PROVE at[sp.queue[i]] = "queued"
    OBVIOUS
  <2>1. sp.queue[i] \in Segs /\ sp.at[sp.queue[i]] = "queued"
    BY <1>4
  <2>2. sp.queue[i] # s
    BY <2>1
  <2>3. QED  BY <1>2, <2>1, <2>2
<1>6. \A t \in Segs : sp.at[t] \in {"fetching", "playing"} => t = s
  BY DEF SpeechOK
<1>7. \A t \in Segs : at[t] \in {"fetching", "playing"} => t = s /\ to = "playing"
  BY <1>2, <1>6
<1>8. SpeechOK(r)
  BY <1>3, <1>4, <1>5, <1>7 DEF SpeechOK
<1>9. to = "over" => ~Speaking(r)
  BY <1>3, <1>7 DEF Speaking
<1>10. [sp EXCEPT !.at[s] = to] = r
  BY <1>1 DEF r, at, SpeechSet
<1>11. QED  BY <1>2, <1>3, <1>8, <1>9, <1>10

\* A step of the speech: what has been dealt with stays so, and only what
\* the host said and is translated joins.
SpeechStep ==
  /\ SpeechOK(speech')
  /\ \A s \in Segs : speech.at[s] = "none" /\ speech'.at[s] # "none" => s \in HostSegs \cap stored
  /\ \A s \in Segs : speech.at[s] \in {"over", "dropped"} => speech'.at[s] = speech.at[s]

LEMMA SpeechUnchanged ==
  ASSUME SpeechInv, speech' = speech
  PROVE  SpeechStep
BY DEF SpeechInv, SpeechStep

LEMMA SpeechEnqueues ==
  ASSUME SpeechInv, NEW S \in SUBSET (HostSegs \cap stored), speech' \in Enqueue(speech, S)
  PROVE  SpeechStep
<1>1. SpeechOK(speech) /\ S \in SUBSET Segs
  BY DEF SpeechInv, HostSegs
<1>2. /\ SpeechOK(speech')
      /\ \A s \in Segs : speech.at[s] = "none" /\ speech'.at[s] # "none" => s \in S
      /\ \A s \in Segs : speech.at[s] \in {"over", "dropped"} => speech'.at[s] = speech.at[s]
  BY <1>1, EnqueueOK
<1>3. QED  BY <1>2 DEF SpeechStep

LEMMA SpeechAdvancesStep ==
  ASSUME SpeechInv, NEW s \in Segs, SpeechFetched(s) \/ SpeechAdvances(s)
  PROVE  SpeechStep
<1>1. /\ SpeechOK(speech) /\ speech.at[s] \in {"fetching", "playing"}
      /\ \/ speech' = [speech EXCEPT !.at[s] = "playing"]
         \/ speech' = NextSpoken([speech EXCEPT !.at[s] = "over"])
  BY DEF SpeechInv, SpeechFetched, SpeechAdvances
<1>2. CASE speech' = [speech EXCEPT !.at[s] = "playing"]
  <2> DEFINE r == [speech EXCEPT !.at[s] = "playing"]
  <2>1. /\ SpeechOK(r) /\ r.at[s] = "playing"
        /\ \A t \in Segs : t # s => r.at[t] = speech.at[t]
    BY <1>1, SpokenChanges
  <2>2. speech' = r
    BY <1>2
  <2> HIDE DEF r
  <2>3. QED  BY <1>1, <2>1, <2>2 DEF SpeechStep
<1>3. CASE speech' = NextSpoken([speech EXCEPT !.at[s] = "over"])
  <2> DEFINE r == [speech EXCEPT !.at[s] = "over"]
  <2>1. /\ SpeechOK(r) /\ r.at[s] = "over" /\ ~Speaking(r)
        /\ \A t \in Segs : t # s => r.at[t] = speech.at[t]
    BY <1>1, SpokenChanges
  <2>2. speech' = NextSpoken(r)
    BY <1>3
  <2> HIDE DEF r
  <2>3. /\ SpeechOK(speech')
        /\ \A t \in Segs : \/ speech'.at[t] = r.at[t]
                           \/ r.at[t] = "queued" /\ speech'.at[t] = "fetching"
    BY <2>1, <2>2, NextSpokenOK
  <2>4. QED  BY <1>1, <2>1, <2>3 DEF SpeechStep
<1>4. QED  BY <1>1, <1>2, <1>3

LEMMA ToggleSpeechStep ==
  ASSUME SpeechInv, ToggleSpeech
  PROVE  SpeechStep
<1>1. /\ speech \in SpeechSet /\ speech.enabled \in BOOLEAN /\ speech.queue \in Seq(Segs)
      /\ speech.at \in [Segs -> SpeechState] /\ SpeechOK(speech)
  BY SpeechFields DEF SpeechInv
<1>2. CASE speech.enabled
  <2> DEFINE at == [s \in Segs |-> IF speech.at[s] = "queued" THEN "dropped" ELSE speech.at[s]]
  <2>1. /\ at \in [Segs -> SpeechState]
        /\ \A s \in Segs : at[s] = IF speech.at[s] = "queued" THEN "dropped" ELSE speech.at[s]
    BY <1>1 DEF SpeechState
  <2>2. speech' = [enabled |-> FALSE, queue |-> <<>>, at |-> at]
    BY <1>2 DEF ToggleSpeech
  <2> HIDE DEF at
  <2>3. speech' \in SpeechSet /\ speech'.queue = <<>> /\ speech'.at = at
    BY <2>1, <2>2 DEF SpeechSet
  <2>4. 1 .. Len(speech'.queue) = {}
    BY <2>3
  <2>5. SpeechOK(speech')
    BY <1>1, <2>1, <2>3, <2>4 DEF SpeechOK
  <2>6. QED  BY <2>1, <2>3, <2>5 DEF SpeechStep
<1>3. CASE ~speech.enabled
  <2>1. speech' = [speech EXCEPT !.enabled = TRUE]
    BY <1>3 DEF ToggleSpeech
  <2>2. speech' \in SpeechSet /\ speech'.queue = speech.queue /\ speech'.at = speech.at
    BY <1>1, <2>1 DEF SpeechSet
  <2>3. SpeechOK(speech')
    BY <1>1, <2>2 DEF SpeechOK
  <2>4. QED  BY <2>2, <2>3 DEF SpeechStep
<1>4. QED  BY <1>2, <1>3

LEMMA SpeechInvNext ==
  ASSUME SaidTypes, SpeechInv, Grows, SpeechStep
  PROVE  SpeechInv'
<1>1. /\ guests' = guests /\ stored \subseteq stored'
  BY DEF Grows, said
<1>2. \A s \in Segs : speech'.at[s] # "none" => s \in HostSegs \cap stored
  BY DEF SpeechStep, SpeechInv
<1>3. HostSegs' = HostSegs
  BY <1>1 DEF HostSegs
<1>4. QED  BY <1>1, <1>2, <1>3 DEF SpeechInv, SpeechStep
-----------------------------------------------------------------------------
(* The snapshot sent last. *)

LEMMA TrueGrows ==
  ASSUME Grows, NEW copy, True(copy)
  PROVE  \A s \in Segs : /\ copy[s].state # "absent" => seg'[s] # "absent"
                         /\ copy[s].state = "final" => seg'[s] = "final"
                         /\ copy[s].trans => s \in stored'
<1> SUFFICES ASSUME NEW s \in Segs
             PROVE  /\ copy[s].state # "absent" => seg'[s] # "absent"
                    /\ copy[s].state = "final" => seg'[s] = "final"
                    /\ copy[s].trans => s \in stored'
  OBVIOUS
<1>1. /\ copy[s].state # "absent" => seg[s] # "absent"
      /\ copy[s].state = "final" => seg[s] = "final"
      /\ copy[s].trans => s \in stored
  BY DEF True
<1>2. /\ seg[s] # "absent" => seg'[s] # "absent"
      /\ seg[s] = "final" => seg'[s] = "final"
      /\ stored \subseteq stored'
  BY DEF Grows
<1>3. QED  BY <1>1, <1>2

(* A snapshot of the server is true, and German is what the host says.     *)
LEMMA SerializedTrue ==
  ASSUME SaidTypes, ServerInv
  PROVE  /\ Serialized \in Snapshot /\ True(Serialized)
         /\ \A s \in Segs : Shows(Serialized[s], seg[s], s)
         /\ \A s \in HostSegs : Serialized[s].lang = "de"
<1>1. seg \in [Segs -> {"absent", "live", "final"}] /\ ServerTypes
  BY DEF ServerInv, ServerTypes
<1>2. /\ Serialized \in Snapshot
      /\ \A s \in Segs : Shows(Serialized[s], seg[s], s)
  BY <1>1, ViewFacts DEF Serialized
<1>3. \A s \in HostSegs : s \in Segs /\ SentLang(s) = "de"
  BY DEF HostSegs, SentLang
<1>4. QED  BY <1>2, <1>3 DEF Shows, True

LEMMA ViewNext ==
  ASSUME SaidTypes, ServerInv', UNCHANGED <<said, stored, foreign>>
  PROVE  /\ View(seg') = Serialized'
         /\ Serialized' \in Snapshot /\ \A s \in Segs : Shows(Serialized[s], seg[s], s)'
         /\ \A s \in HostSegs : Serialized'[s].lang = "de"
<1>1. SaidTypes' /\ ServerTypes'
  BY DEF SaidTypes, said, ServerInv
<1>2. /\ Serialized' \in Snapshot
      /\ \A s \in Segs : Shows(Serialized[s], seg[s], s)'
  BY <1>1, ViewFactsNext
<1>3. HostSegs' = HostSegs /\ heard' = heard
  BY DEF HostSegs, said
<1>4. Serialized' = View(seg')
  BY <1>3 DEF Serialized, View
<1>5. \A s \in HostSegs : s \in Segs /\ SentLang(s)' = "de"
  BY <1>3 DEF HostSegs, SentLang
<1>6. \A s \in HostSegs : Serialized'[s].lang = "de"
  BY <1>2, <1>5 DEF Shows
<1>7. QED  BY <1>2, <1>4, <1>6

LEMMA AsrTickSends ==
  ASSUME SaidTypes, ServerInv, AsrTick
  PROVE  /\ sent' = Serialized' /\ HostSegments(sent', foreign)
         /\ sent' \in Snapshot /\ \A s \in Segs : Shows(Serialized[s], seg[s], s)'
         /\ \A s \in HostSegs : sent'[s].lang = "de"
<1>1. /\ UNCHANGED <<said, job, stored, foreign, phase, cast>>
      /\ sent' = View(seg') /\ HostSegments(View(seg'), foreign)
  BY DEF AsrTick
<1>2. ServerInv'
  BY AsrTickServer
<1>3. QED  BY <1>1, <1>2, ViewNext

LEMMA SentInvTick ==
  ASSUME SaidTypes, ServerInv, AsrTick
  PROVE  SentInv'
<1>1. /\ sent' = Serialized'
      /\ \A s \in Segs : Shows(Serialized[s], seg[s], s)'
  BY AsrTickSends
<1>2. \A s \in Segs : /\ sent'[s].state = seg'[s]
                      /\ sent'[s].lang = IF seg'[s] = "absent" THEN "de" ELSE SentLang(s)'
                      /\ sent'[s].trans => s \in stored'
  BY <1>1 DEF Shows
<1>3. QED  BY <1>2 DEF SentInv, True

LEMMA SentInvNext ==
  ASSUME ServerInv, SentInv, Grows, UNCHANGED sent
  PROVE  SentInv'
<1>1. \A s \in Segs : /\ sent[s].state # "absent" => seg'[s] # "absent"
                      /\ sent[s].state = "final" => seg'[s] = "final"
                      /\ sent[s].trans => s \in stored'
  BY TrueGrows DEF SentInv
<1>2. /\ foreign' = None => foreign = None
      /\ \A s \in Segs : foreign' = foreign => SentLang(s)' = SentLang(s)
  BY ConvFacts DEF Grows, SentLang, HostSegs, said
<1>3. QED  BY <1>1, <1>2 DEF SentInv, True
-----------------------------------------------------------------------------
(* Snapshots on their way. *)

LEMMA MailKept ==
  ASSUME MailInv, Grows,
         \A m \in mail'.tick : m \in mail.tick /\ sent' = sent,
         \A m \in mail'.release \cup mail'.final : m \in mail.release \cup mail.final \/ True(m.view)'
  PROVE  MailInv'
<1>1. \A m \in mail.release \cup mail.final : True(m.view)'
  BY TrueGrows DEF MailInv, True
<1>2. QED  BY <1>1 DEF MailInv

LEMMA AsrTickMail ==
  ASSUME SaidTypes, ServerInv, MailInv, AsrTick
  PROVE  MailInv'
<1>1. /\ mail' = [mail EXCEPT !.tick = {MessageOf(View(seg'))}] /\ sent' = View(seg')
      /\ seg' \in [Segs -> {"absent", "live", "final"}]
  BY RecognizedGrows DEF AsrTick
<1>2. MessageOf(View(seg')) \in Message /\ MessageOf(View(seg')).view = View(seg')
  BY <1>1, MessageFacts DEF ServerInv
<1>3. /\ mail'.tick = {MessageOf(View(seg'))} /\ mail'.release = mail.release
      /\ mail'.final = mail.final
  BY <1>1, <1>2, MailFields DEF ServerInv
<1>4. \A m \in mail.release \cup mail.final : True(m.view)'
  BY AsrTickServer, TrueGrows DEF MailInv, True
<1>5. QED  BY <1>1, <1>2, <1>3, <1>4 DEF MailInv

LEMMA ReleasedMail ==
  ASSUME SaidTypes, ServerInv, MailInv, Released
  PROVE  MailInv'
<1>1. /\ mail' = [mail EXCEPT !.release = mail.release \cup {MessageOf(View(seg'))}]
      /\ UNCHANGED <<said, stored, foreign, sent>>
  BY DEF Released
<1>2. ServerInv' /\ Grows
  BY ReleasedServer
<1>3. View(seg') = Serialized' /\ \A s \in Segs : Shows(Serialized[s], seg[s], s)'
  BY <1>1, <1>2, ViewNext
<1>4. seg' \in [Segs -> {"absent", "live", "final"}]
  BY <1>2 DEF ServerInv, ServerTypes
<1>5. MessageOf(View(seg')) \in Message /\ MessageOf(View(seg')).view = View(seg')
  BY <1>4, MessageFacts DEF ServerInv
<1>6. /\ mail'.release = mail.release \cup {MessageOf(View(seg'))}
      /\ mail'.tick = mail.tick /\ mail'.final = mail.final
  BY <1>1, <1>5, MailFields DEF ServerInv
<1>7. ASSUME NEW m \in mail'.release \cup mail'.final
      PROVE  m \in mail.release \cup mail.final \/ True(m.view)'
  <2>1. CASE m = MessageOf(View(seg'))
    BY <1>3, <1>5, <2>1 DEF True, Shows
  <2>2. CASE m # MessageOf(View(seg'))
    BY <1>6, <2>2
  <2>3. QED  BY <2>1, <2>2
<1>8. QED  BY <1>1, <1>2, <1>6, <1>7, MailKept

(* Only the final snapshot adds to the stop's messages.                    *)
LEMMA FinalKept ==
  ASSUME FinalInv, UNCHANGED <<said, rushed>>, mail'.final = mail.final,
         Ending' => /\ Ending /\ UNCHANGED seg
                    /\ ~rushed => /\ stored' = stored
                                  /\ \A s \in Segs : job'[s] \notin {"queued", "translating"}
  PROVE  FinalInv'
<1>1. HostSegs' = HostSegs
  BY DEF HostSegs, said
<1>2. QED  BY <1>1 DEF FinalInv

LEMMA FinalSnapshotMail ==
  ASSUME SaidTypes, ServerInv, MailInv, FinalSnapshot
  PROVE  /\ MailInv' /\ FinalInv'
         /\ mail'.final = FinalMessages /\ mail'.tick = mail.tick /\ mail'.release = mail.release
<1>1. /\ UNCHANGED <<said, seg, job, stored, foreign, sent>> /\ phase # "recording"
      /\ rushed' = ~Drained /\ mail' = [mail EXCEPT !.final = FinalMessages]
  BY DEF FinalSnapshot
<1>2. /\ FinalMessages \in SUBSET Message
      /\ FinalMessages = {} => \A s \in Segs : seg[s] # "final"
      /\ \A m \in FinalMessages : m.view = Serialized /\ m.lang = foreign
  BY FinalMessagesFacts
<1>3. mail'.final = FinalMessages /\ mail'.tick = mail.tick /\ mail'.release = mail.release
  BY <1>1, <1>2, MailFields DEF ServerInv
<1>4. /\ True(Serialized) /\ \A s \in Segs : Shows(Serialized[s], seg[s], s)
      /\ \A s \in HostSegs : Serialized[s].lang = "de"
  BY SerializedTrue
<1>5. MailInv'
  <2>1. \A m \in FinalMessages : True(m.view)'
    BY <1>1, <1>2, <1>4 DEF True
  <2>2. Grows
    BY SentServer
  <2>3. QED  BY <1>1, <1>3, <2>1, <2>2, MailKept
<1>6. \A s \in Segs : /\ seg[s] \in {"absent", "final"}
                      /\ s \in stored => seg[s] = "final" /\ Serialized[s].trans
  BY <1>1, <1>4 DEF ServerInv, ServerTypes, Shows
<1>7. HostSegs' = HostSegs
  BY <1>1 DEF HostSegs, said
<1>8. \A m, n \in FinalMessages : m = n
  BY DEF FinalMessages
<1>9. ~rushed' => \A s \in Segs : job[s] \notin {"queued", "translating"}
  BY <1>1 DEF Drained, MtIdle
<1>10. ASSUME NEW m \in FinalMessages, NEW s \in Segs
       PROVE  /\ m.view[s].state = seg[s]
              /\ s \in HostSegs => m.view[s].lang = "de"
              /\ s \in stored => m.view[s].trans
              /\ m.lang # None /\ s \notin HostSegs /\ seg[s] # "absent" => m.view[s].lang = Foreign
  <2>1. m.view = Serialized /\ m.lang = foreign /\ foreign \in {Foreign, None}
    BY <1>2 DEF ServerInv, ServerTypes, LangOrNone
  <2>2. QED  BY <1>4, <1>6, <2>1 DEF Shows, SentLang
<1>11. FinalInv'
  BY <1>1, <1>2, <1>3, <1>6, <1>7, <1>8, <1>9, <1>10 DEF FinalInv
<1>12. QED  BY <1>3, <1>5, <1>11
-----------------------------------------------------------------------------
(* The host's page. *)

Bubble == [german : Text, foreign : Text]

LEMMA RenderFacts ==
  ASSUME NEW view \in Snapshot, NEW lang \in PageLang
  PROVE  /\ RenderSegments(view, lang) \in Dom
         /\ \A s \in Segs : view[s].state # "absent" =>
              RenderSegments(view, lang)[s] = Bubbles(s, view[s], lang)
<1>1. ASSUME NEW s \in Segs
      PROVE  (IF view[s].state = "absent" THEN Blank ELSE Bubbles(s, view[s], lang)) \in Bubble
  BY DEF Blank, Bubbles, Bubble, Text
<1>2. Dom = [Segs -> Bubble]
  BY DEF Dom, Bubble
<1>3. QED  BY <1>1, <1>2 DEF RenderSegments

(* Rendered anew, the bubbles match, and what waits shows dots.            *)
LEMMA HostRendered ==
  ASSUME SaidTypes, HostPageInv, UNCHANGED said, NEW told \in PageLang,
         NEW view \in Snapshot, HostSegments(view, told),
         \A s \in HostSegs : view[s].lang = "de"
  PROVE  /\ HostPageInv' /\ host'.copy = view
         /\ host'.dom = RenderSegments(view, host'.lang)
<1> DEFINE lang == IF host.lang # None THEN host.lang ELSE told
           dom == RenderSegments(view, lang)
           pending == HostPending(view)
<1>1. host' = [copy |-> view, lang |-> lang, dom |-> dom, pending |-> pending]
  BY DEF HostSegments
<1>2. lang \in PageLang /\ pending \in SUBSET Segs
  BY DEF HostPageInv, HostSet, HostPending
<1>3. dom \in Dom /\ \A s \in Segs : view[s].state # "absent" => dom[s] = Bubbles(s, view[s], lang)
  BY <1>2, RenderFacts
<1>4. \A s \in pending : s \in Segs /\ s \notin HostSegs /\ view[s].state = "final"
                         /\ view[s].lang # "de" /\ ~view[s].trans
  BY DEF HostPending
<1> HIDE DEF lang, dom, pending
<1>5. \A s \in pending : dom[s].german = "dots"
  <2> SUFFICES ASSUME NEW s \in pending  PROVE dom[s].german = "dots"
    OBVIOUS
  <2>1. dom[s] = Bubbles(s, view[s], lang)
    BY <1>3, <1>4
  <2>2. QED  BY <1>4, <2>1 DEF Bubbles
<1>6. /\ host' \in HostSet /\ host'.copy = view /\ host'.lang = lang
      /\ host'.dom = dom /\ host'.pending = pending
  BY <1>1, <1>2, <1>3 DEF HostSet
<1>7. BubblesMatchCopy'
  <2>1. HostSegs' = HostSegs
    BY DEF HostSegs, said
  <2>2. ASSUME NEW s \in Segs, host'.copy[s].state # "absent"
        PROVE  host'.dom[s] = Bubbles(s, host.copy[s], host.lang)'
    <3>1. host'.dom[s] = Bubbles(s, view[s], lang)
      BY <1>3, <1>6, <2>2
    <3>2. QED  BY <1>6, <2>1, <3>1 DEF Bubbles
  <2>3. QED  BY <2>2 DEF BubblesMatchCopy
<1>8. HostPageInv'
  BY <1>4, <1>5, <1>6, <1>7 DEF HostPageInv
<1>9. QED  BY <1>6, <1>8 DEF dom

LEMMA HostFields ==
  ASSUME HostPageInv
  PROVE  /\ host \in HostSet /\ host.copy \in [Segs -> SegView] /\ host.lang \in PageLang
         /\ host.pending \in SUBSET Segs /\ host.dom \in [Segs -> Bubble]
         /\ \A s \in Segs : host.copy[s] \in SegView /\ host.dom[s] \in Bubble
BY DEF HostPageInv, HostSet, Snapshot, SegView, Dom, Bubble

LEMMA SetBubbleFacts ==
  ASSUME HostPageInv, NEW s \in Segs, NEW text \in Text
  PROVE  /\ SetBubble(s, text) \in Bubble
         /\ SetBubble(s, text).german = IF s \in guests THEN text ELSE host.dom[s].german
         /\ SetBubble(s, text).foreign =
              IF s \notin guests /\ host.lang = Foreign THEN text ELSE host.dom[s].foreign
<1>1. host.dom[s] \in Bubble
  BY HostFields
<1>2. CASE s \in guests
  BY <1>1, <1>2 DEF SetBubble, GuestSegs, Bubble
<1>3. CASE s \notin guests /\ host.lang = Foreign
  BY <1>1, <1>3 DEF SetBubble, GuestSegs, Bubble
<1>4. CASE s \notin guests /\ host.lang # Foreign
  BY <1>1, <1>4 DEF SetBubble, GuestSegs, Bubble
<1>5. QED  BY <1>2, <1>3, <1>4

(* A translation in place gives the bubble that rendering would.           *)
LEMMA HostTranslated ==
  ASSUME HostPageInv, UNCHANGED said, NEW s \in Segs, HostTranslation(s)
  PROVE  /\ HostPageInv'
         /\ \A t \in Segs : /\ host'.copy[t].state = host.copy[t].state
                            /\ host'.copy[t].lang = host.copy[t].lang
                            /\ host'.copy[t].trans = IF t = s THEN TRUE ELSE host.copy[t].trans
<1> DEFINE row == [host.copy[s] EXCEPT !.trans = TRUE]
           copy == [host.copy EXCEPT ![s] = row]
           bubble == SetBubble(s, "trans")
           dom == [host.dom EXCEPT ![s] = bubble]
           pending == IF s \in GuestSegs THEN host.pending \ {s} ELSE host.pending
<1>1. /\ host \in HostSet /\ host.copy \in [Segs -> SegView] /\ host.lang \in PageLang
      /\ host.pending \in SUBSET Segs /\ host.dom \in [Segs -> Bubble]
      /\ \A t \in Segs : host.copy[t] \in SegView /\ host.dom[t] \in Bubble
  BY HostFields
<1>2. host' = [host EXCEPT !.copy = copy, !.dom = dom, !.pending = pending]
  BY <1>1 DEF HostTranslation, HostSet
<1>3. /\ row \in SegView /\ row.state = host.copy[s].state /\ row.lang = host.copy[s].lang
      /\ row.trans = TRUE
  BY <1>1 DEF SegView
<1>4. /\ bubble \in Bubble
      /\ bubble.german = IF s \in guests THEN "trans" ELSE host.dom[s].german
      /\ bubble.foreign = IF s \notin guests /\ host.lang = Foreign THEN "trans"
                           ELSE host.dom[s].foreign
  BY SetBubbleFacts DEF Text
<1>5. /\ pending \in SUBSET Segs /\ pending \subseteq host.pending
      /\ s \in guests => s \notin pending
  BY <1>1 DEF GuestSegs
<1> HIDE DEF row, bubble, pending
<1>6. /\ copy \in [Segs -> SegView] /\ dom \in [Segs -> Bubble]
      /\ copy[s] = row /\ dom[s] = bubble
      /\ \A t \in Segs : t # s => copy[t] = host.copy[t] /\ dom[t] = host.dom[t]
  BY <1>1, <1>3, <1>4
<1> HIDE DEF copy, dom
<1>7. /\ host' \in HostSet /\ host'.copy = copy /\ host'.dom = dom /\ host'.pending = pending
      /\ host'.lang = host.lang
  <2>1. Snapshot = [Segs -> SegView] /\ Dom = [Segs -> Bubble]
    BY DEF Snapshot, SegView, Dom, Bubble
  <2>2. QED  BY <1>1, <1>2, <1>5, <1>6, <2>1 DEF HostSet
<1>8. guests' = guests /\ HostSegs' = HostSegs
  BY DEF said, HostSegs
<1>9. \A t \in Segs : host.copy[t].state # "absent" =>
        \A b \in {"german", "foreign"} :
          \/ host.dom[t][b] = Bubbles(t, host.copy[t], host.lang)[b]
          \/ host.dom[t][b] = "failed" /\ Bubbles(t, host.copy[t], host.lang)[b] = "dots"
  BY DEF HostPageInv, BubblesMatchCopy
<1>10. BubblesMatchCopy'
  <2> SUFFICES ASSUME NEW t \in Segs, copy[t].state # "absent", NEW b \in {"german", "foreign"}
               PROVE  LET rendered == Bubbles(t, copy[t], host.lang)
                      IN \/ dom[t][b] = rendered[b]
                         \/ dom[t][b] = "failed" /\ rendered[b] = "dots"
    BY <1>7, <1>8 DEF BubblesMatchCopy, Bubbles
  <2>1. CASE t # s
    BY <1>6, <1>9, <2>1
  <2>2. CASE t = s /\ s \in guests
    <3>1. s \notin HostSegs
      BY <2>2 DEF HostSegs
    <3>2. QED  BY <1>3, <1>4, <1>6, <1>9, <2>2, <3>1 DEF Bubbles
  <2>3. CASE t = s /\ s \notin guests
    <3>1. s \in HostSegs
      BY <2>3 DEF HostSegs
    <3>2. QED  BY <1>3, <1>4, <1>6, <1>9, <2>3, <3>1 DEF Bubbles
  <2>4. QED  BY <2>1, <2>2, <2>3
<1>11. \A t \in pending : copy[t].state = "final" /\ dom[t].german = "dots"
  BY <1>1, <1>3, <1>4, <1>5, <1>6 DEF HostPageInv
<1>12. HostPageInv'
  BY <1>7, <1>10, <1>11 DEF HostPageInv
<1>13. QED  BY <1>3, <1>6, <1>7, <1>12

(* A failure in place only replaces the dots of a text that is missing.    *)
LEMMA HostFailed ==
  ASSUME HostPageInv, UNCHANGED said, NEW s \in Segs, HostFailure(s)
  PROVE  HostPageInv' /\ host'.copy = host.copy
<1> DEFINE bubble == IF host.copy[s].state # "absent" /\ ShowsPlaceholder(s)
                     THEN SetBubble(s, "failed") ELSE host.dom[s]
           dom == [host.dom EXCEPT ![s] = bubble]
           pending == IF s \in GuestSegs THEN host.pending \ {s} ELSE host.pending
<1>1. /\ host \in HostSet /\ host.copy \in [Segs -> SegView] /\ host.lang \in PageLang
      /\ host.pending \in SUBSET Segs /\ host.dom \in [Segs -> Bubble]
      /\ \A t \in Segs : host.copy[t] \in SegView /\ host.dom[t] \in Bubble
  BY HostFields
<1>2. host' = [host EXCEPT !.dom = dom, !.pending = pending]
  BY <1>1 DEF HostFailure, HostSet
<1>3. /\ bubble \in Bubble
      /\ bubble.german # host.dom[s].german =>
           s \in guests /\ host.dom[s].german = "dots" /\ bubble.german = "failed"
      /\ bubble.foreign # host.dom[s].foreign =>
           host.dom[s].foreign = "dots" /\ bubble.foreign = "failed"
  <2>1. CASE ~(host.copy[s].state # "absent" /\ ShowsPlaceholder(s))
    BY <1>1, <2>1
  <2>2. CASE host.copy[s].state # "absent" /\ ShowsPlaceholder(s)
    <3>1. /\ SetBubble(s, "failed") \in Bubble
          /\ SetBubble(s, "failed").german = IF s \in guests THEN "failed" ELSE host.dom[s].german
          /\ SetBubble(s, "failed").foreign =
               IF s \notin guests /\ host.lang = Foreign THEN "failed" ELSE host.dom[s].foreign
      BY SetBubbleFacts DEF Text
    <3>2. IF s \in guests THEN host.dom[s].german = "dots" ELSE host.dom[s].foreign = "dots"
      BY <2>2 DEF ShowsPlaceholder, GuestSegs
    <3>3. bubble = SetBubble(s, "failed")
      BY <2>2
    <3> HIDE DEF bubble
    <3>4. QED  BY <3>1, <3>2, <3>3
  <2>3. QED  BY <2>1, <2>2
<1>4. /\ pending \in SUBSET Segs /\ pending \subseteq host.pending
      /\ s \in guests => s \notin pending
  BY <1>1 DEF GuestSegs
<1> HIDE DEF bubble, pending
<1>5. /\ dom \in [Segs -> Bubble] /\ dom[s] = bubble
      /\ \A t \in Segs : t # s => dom[t] = host.dom[t]
  BY <1>1, <1>3
<1> HIDE DEF dom
<1>6. /\ host' \in HostSet /\ host'.copy = host.copy /\ host'.dom = dom
      /\ host'.pending = pending /\ host'.lang = host.lang
  <2>1. Snapshot = [Segs -> SegView] /\ Dom = [Segs -> Bubble]
    BY DEF Snapshot, SegView, Dom, Bubble
  <2>2. QED  BY <1>1, <1>2, <1>4, <1>5, <2>1 DEF HostSet
<1>7. guests' = guests /\ HostSegs' = HostSegs
  BY DEF said, HostSegs
<1>8. \A t \in Segs : host.copy[t].state # "absent" =>
        \A b \in {"german", "foreign"} :
          \/ host.dom[t][b] = Bubbles(t, host.copy[t], host.lang)[b]
          \/ host.dom[t][b] = "failed" /\ Bubbles(t, host.copy[t], host.lang)[b] = "dots"
  BY DEF HostPageInv, BubblesMatchCopy
<1>9. BubblesMatchCopy'
  <2> SUFFICES ASSUME NEW t \in Segs, host.copy[t].state # "absent",
                      NEW b \in {"german", "foreign"}
               PROVE  LET rendered == Bubbles(t, host.copy[t], host.lang)
                      IN \/ dom[t][b] = rendered[b]
                         \/ dom[t][b] = "failed" /\ rendered[b] = "dots"
    BY <1>6, <1>7 DEF BubblesMatchCopy, Bubbles
  <2>1. CASE t # s
    BY <1>5, <1>8, <2>1
  <2>2. CASE t = s
    <3>1. \/ dom[s][b] = host.dom[s][b]
          \/ host.dom[s][b] = "dots" /\ dom[s][b] = "failed"
      <4>1. CASE b = "german"
        BY <1>3, <1>5, <4>1
      <4>2. CASE b = "foreign"
        BY <1>3, <1>5, <4>2
      <4>3. QED  BY <4>1, <4>2
    <3>2. QED  BY <1>8, <2>2, <3>1
  <2>3. QED  BY <2>1, <2>2
<1>10. \A t \in pending : host.copy[t].state = "final" /\ dom[t].german = "dots"
  BY <1>1, <1>3, <1>4, <1>5 DEF HostPageInv
<1>11. HostPageInv'
  BY <1>6, <1>9, <1>10 DEF HostPageInv
<1>12. QED  BY <1>6, <1>11

LEMMA HostUnchanged ==
  ASSUME HostPageInv, UNCHANGED said, UNCHANGED host
  PROVE  HostPageInv'
BY DEF HostPageInv, BubblesMatchCopy, Bubbles, HostSegs, said

LEMMA HostExpires ==
  ASSUME HostPageInv, NEW s \in Segs, HostPendingExpires(s)
  PROVE  /\ HostPageInv' /\ host'.copy = host.copy /\ host'.dom = host.dom
         /\ host'.lang = host.lang
<1>1. UNCHANGED said /\ host' = [host EXCEPT !.pending = host.pending \ {s}]
  BY DEF HostPendingExpires
<1>2. /\ host' \in HostSet /\ host'.copy = host.copy /\ host'.dom = host.dom
      /\ host'.lang = host.lang /\ host'.pending = host.pending \ {s}
  BY <1>1, HostFields DEF HostSet
<1>3. BubblesMatchCopy'
  BY <1>1, <1>2 DEF HostPageInv, BubblesMatchCopy, Bubbles, HostSegs, said
<1>4. QED  BY <1>2, <1>3 DEF HostPageInv

LEMMA HostCopyKept ==
  ASSUME HostCopyInv, Grows, UNCHANGED sent, host'.copy = host.copy,
         host'.dom = host.dom, host'.lang = host.lang,
         phase' = "ended" <=> phase = "ended",
         phase = "ended" => UNCHANGED <<seg, stored, rushed>> /\ mail'.final = mail.final
  PROVE  HostCopyInv'
<1>1. True(host.copy)'
  BY TrueGrows DEF HostCopyInv, True
<1>2. CASE phase' # "ended"
  <2>1. ASSUME \A s \in Segs : seg'[s] = "final" => sent[s].state = "final"
        PROVE  \A s \in Segs : seg[s] = "final" => sent[s].state = "final"
    <3>1. \A s \in Segs : seg[s] = "final" => seg'[s] = "final"
      BY DEF Grows
    <3>2. QED  BY <2>1, <3>1
  <2>2. QED  BY <1>1, <1>2, <2>1 DEF HostCopyInv
<1>3. CASE phase' = "ended"
  <2>1. /\ phase = "ended" /\ UNCHANGED <<seg, stored, rushed, guests>>
        /\ mail'.final = mail.final
    BY <1>3 DEF Grows, said
  <2>2. HostSegs' = HostSegs
    BY <2>1 DEF HostSegs
  <2>3. \A s \in Segs : Bubbles(s, host.copy[s], host.lang)' = Bubbles(s, host.copy[s], host.lang)
    BY <2>2 DEF Bubbles
  <2>4. QED  BY <1>1, <1>3, <2>1, <2>2, <2>3 DEF HostCopyInv
<1>4. QED  BY <1>2, <1>3

LEMMA AsrTickHost ==
  ASSUME SaidTypes, ServerInv, HostPageInv, AsrTick
  PROVE  HostPageInv' /\ HostCopyInv'
<1>1. UNCHANGED said /\ foreign \in PageLang /\ phase' = "recording"
  BY DEF AsrTick, ServerInv, ServerTypes, LangOrNone, PageLang
<1>2. /\ sent' = Serialized' /\ HostSegments(sent', foreign)
      /\ sent' \in Snapshot /\ \A s \in Segs : Shows(Serialized[s], seg[s], s)'
      /\ \A s \in HostSegs : sent'[s].lang = "de"
  BY AsrTickSends
<1>3. HostPageInv' /\ host'.copy = sent'
  BY <1>1, <1>2, HostRendered
<1>4. True(host.copy)'
  BY <1>2, <1>3 DEF True, Shows
<1>5. HostCopyInv'
  BY <1>1, <1>3, <1>4 DEF HostCopyInv
<1>6. QED  BY <1>3, <1>5

(* A release makes something final that the snapshot hashed last has not.  *)
LEMMA ReleasedHost ==
  ASSUME SaidTypes, ServerInv, SentInv, HostPageInv, Released
  PROVE  HostPageInv' /\ HostCopyInv'
<1>1. /\ UNCHANGED <<said, stored, foreign, sent>> /\ foreign \in PageLang
      /\ HostSegments(View(seg'), foreign)
      /\ \E s \in Segs : seg[s] = "live" /\ seg'[s] = "final"
  BY DEF Released, ServerInv, ServerTypes, LangOrNone, PageLang
<1>2. ServerInv' /\ phase' = "recording"
  BY ReleasedServer
<1>3. /\ View(seg') = Serialized'
      /\ Serialized' \in Snapshot /\ \A s \in Segs : Shows(Serialized[s], seg[s], s)'
      /\ \A s \in HostSegs : Serialized'[s].lang = "de"
  BY <1>1, <1>2, ViewNext
<1>4. HostPageInv' /\ host'.copy = Serialized'
  BY <1>1, <1>3, HostRendered
<1>5. True(host.copy)'
  BY <1>3, <1>4 DEF True, Shows
<1>6. \E s \in Segs : seg'[s] = "final" /\ sent'[s].state # "final"
  BY <1>1 DEF SentInv, True
<1>7. HostCopyInv'
  BY <1>2, <1>5, <1>6 DEF HostCopyInv
<1>8. QED  BY <1>4, <1>7

LEMMA ClosedHost ==
  ASSUME SaidTypes, ServerInv, MailInv, FinalInv, HostPageInv, HostCopyInv, Closed
  PROVE  HostPageInv' /\ HostCopyInv'
<1>1. /\ UNCHANGED said /\ UNCHANGED <<seg, stored, foreign, sent, mail, rushed>>
      /\ phase = "closing" /\ phase' = "ended" /\ Ending
  BY DEF Closed, Ending
<1>2. HostSegs' = HostSegs
  BY <1>1 DEF HostSegs, said
<1>3. CASE mail.final = {}
  <2>1. UNCHANGED host /\ \A s \in Segs : seg[s] = "absent"
    BY <1>1, <1>3 DEF Closed, FinalInv
  <2>2. True(host.copy)' /\ \A s \in Segs : host.copy[s].state = "absent"
    BY <1>1, <2>1 DEF HostCopyInv, True
  <2>3. \A s \in Segs : s \notin stored
    BY <2>1 DEF ServerInv
  <2>4. HostCopyInv'
    BY <1>1, <2>1, <2>2, <2>3 DEF HostCopyInv
  <2>5. QED  BY <1>1, <2>1, <2>4, HostUnchanged
<1>4. ASSUME NEW m \in mail.final, HostSegments(m.view, Named(m))
      PROVE  HostPageInv' /\ HostCopyInv'
  <2>1. m \in Message
    BY MailFields DEF ServerInv
  <2>2. m.view \in Snapshot /\ Named(m) \in PageLang
    BY <2>1 DEF Message, Named, PageLang
  <2>3. /\ True(m.view)
        /\ \A n \in mail.final : n = m
        /\ \A s \in Segs :
             /\ m.view[s].state = seg[s]
             /\ s \in HostSegs => m.view[s].lang = "de"
             /\ ~rushed /\ s \in stored => m.view[s].trans
             /\ m.lang # None /\ s \notin HostSegs /\ seg[s] # "absent" => m.view[s].lang = Foreign
    BY <1>1 DEF MailInv, FinalInv
  <2>4. \A s \in HostSegs : m.view[s].lang = "de"
    BY <2>3 DEF HostSegs
  <2>5. /\ HostPageInv' /\ host'.copy = m.view
        /\ host'.dom = RenderSegments(m.view, host'.lang)
    BY <1>1, <1>4, <2>2, <2>4, HostRendered
  <2>6. host'.lang \in PageLang
    BY <2>5 DEF HostPageInv, HostSet
  <2>7. \A s \in Segs : seg[s] # "absent" => host'.dom[s] = Bubbles(s, m.view[s], host'.lang)
    BY <2>2, <2>3, <2>5, <2>6, RenderFacts
  <2>8. \A s \in Segs : Bubbles(s, host.copy[s], host.lang)' = Bubbles(s, m.view[s], host'.lang)
    BY <1>2, <2>5 DEF Bubbles
  <2>9. True(host.copy)'
    BY <1>1, <2>3, <2>5 DEF True
  <2>10. ASSUME NEW s \in Segs
         PROVE  /\ host'.copy[s].state = seg'[s]
                /\ ~rushed' /\ s \in stored' => host'.copy[s].trans
                /\ seg'[s] # "absent" =>
                     /\ host'.dom[s] = Bubbles(s, host.copy[s], host.lang)'
                     /\ s \in HostSegs' => host'.copy[s].lang = "de"
                     /\ (\A n \in mail'.final : n.lang # None) /\ s \notin HostSegs' =>
                          host'.copy[s].lang = Foreign
    BY <1>1, <1>2, <2>3, <2>5, <2>7, <2>8
  <2>11. HostCopyInv'
    BY <1>1, <2>9, <2>10 DEF HostCopyInv
  <2>12. QED  BY <2>5, <2>11
<1>5. QED  BY <1>3, <1>4 DEF Closed

LEMMA MtResultHost ==
  ASSUME SaidTypes, ServerInv, HostPageInv, HostCopyInv, NEW s \in Segs, MtResult(s)
  PROVE  HostPageInv' /\ HostCopyInv'
<1>1. /\ UNCHANGED said /\ UNCHANGED <<seg, phase, sent, foreign>> /\ phase # "ended"
      /\ \/ HostTranslation(s) /\ stored' = stored \cup {s}
         \/ HostFailure(s) /\ stored' = stored
  BY DEF MtResult
<1>2. /\ True(host.copy)
      /\ (\A t \in Segs : seg[t] = "final" => sent[t].state = "final") =>
           \A t \in Segs : /\ host.copy[t].state = sent[t].state
                           /\ host.copy[t].lang = sent[t].lang
                           /\ sent[t].trans => host.copy[t].trans
  BY <1>1 DEF HostCopyInv
<1>3. CASE HostTranslation(s) /\ stored' = stored \cup {s}
  <2>1. /\ HostPageInv'
        /\ \A t \in Segs : /\ host'.copy[t].state = host.copy[t].state
                           /\ host'.copy[t].lang = host.copy[t].lang
                           /\ host'.copy[t].trans = IF t = s THEN TRUE ELSE host.copy[t].trans
    BY <1>1, <1>3, HostTranslated
  <2>2. True(host.copy)'
    BY <1>1, <1>2, <1>3, <2>1 DEF True
  <2>3. QED  BY <1>1, <1>2, <2>1, <2>2 DEF HostCopyInv
<1>4. CASE HostFailure(s) /\ stored' = stored
  <2>1. HostPageInv' /\ host'.copy = host.copy
    BY <1>1, <1>4, HostFailed
  <2>2. True(host.copy)'
    BY <1>1, <1>2, <1>4, <2>1 DEF True
  <2>3. QED  BY <1>1, <1>2, <2>1, <2>2 DEF HostCopyInv
<1>5. QED  BY <1>1, <1>3, <1>4
-----------------------------------------------------------------------------
(* The guest's page. *)

LEMMA GuestFields ==
  ASSUME GuestPageInv
  PROVE  /\ guest \in GuestSet /\ guest.online \in BOOLEAN /\ guest.copy \in [Segs -> SegView]
         /\ guest.lang \in PageLang /\ guest.failed \in SUBSET Segs
         /\ guest.pending \in SUBSET Segs /\ \A s \in Segs : guest.copy[s] \in SegView
BY DEF GuestPageInv, GuestSet, Snapshot, SegView

LEMMA GuestUnchanged ==
  ASSUME GuestPageInv, UNCHANGED said, UNCHANGED guest
  PROVE  stale' \in BOOLEAN => GuestPageInv'
BY DEF GuestPageInv, GuestBubble, HostSegs, GuestSegs, said

(* A list taken over leaves waiting what has no translation.               *)
LEMMA GuestRenewed ==
  ASSUME GuestPageInv, UNCHANGED said, NEW view \in Snapshot, NEW lang \in PageLang,
         stale' \in BOOLEAN, lang = None => guest.lang = None,
         guest' \in GuestSet, guest'.copy = view, guest'.lang = lang, guest'.failed = {},
         guest'.pending = GuestPending(view, lang)
  PROVE  GuestPageInv'
<1>1. lang = None => guest'.pending = {}
  BY DEF GuestPageInv, GuestPending
<1>2. \A s \in guest'.pending : /\ lang # None /\ s \in HostSegs /\ view[s].state = "final"
                                /\ ~(view[s].trans /\ lang = Foreign)
  BY <1>1 DEF GuestPending
<1>3. HostSegs' = HostSegs /\ GuestSegs' = GuestSegs /\ HostSegs \cap GuestSegs = {}
  BY DEF HostSegs, GuestSegs, said
<1>4. \A s \in guest'.pending : GuestBubble(s)' = "dots"
  BY <1>2, <1>3 DEF GuestBubble
<1>5. QED  BY <1>1, <1>2, <1>3, <1>4 DEF GuestPageInv

(* What a received list does.                                              *)
LEMMA GuestReceived ==
  ASSUME GuestPageInv, SpeechInv, UNCHANGED said, NEW told \in PageLang, stale' \in BOOLEAN,
         NEW view \in Snapshot, True(view), GuestReceives(view, told)
  PROVE  /\ GuestPageInv' /\ SpeechStep /\ guest'.online = guest.online
         /\ guest'.copy = IF guest.online THEN view ELSE guest.copy
         /\ guest'.lang = guest.lang \/ (guest.lang = None /\ guest'.lang = told)
         /\ guest'.failed \subseteq guest.failed
<1>1. CASE ~guest.online
  BY <1>1, GuestUnchanged, SpeechUnchanged DEF GuestReceives
<1>2. CASE guest.online
  <2> DEFINE lang == IF guest.lang # None THEN guest.lang ELSE told
             pending == GuestPending(view, lang)
  <2>1. /\ lang \in PageLang /\ (lang = None => guest.lang = None)
        /\ lang = guest.lang \/ (guest.lang = None /\ lang = told)
    BY DEF GuestPageInv, GuestSet
  <2>2. pending \in SUBSET Segs
    BY GuestFields DEF GuestPending, HostSegs
  <2>3. GuestSegments(view, lang)
    BY <1>2 DEF GuestReceives
  <2>4. guest' = [guest EXCEPT !.copy = view, !.lang = lang, !.failed = {}, !.pending = pending]
    BY <2>3 DEF GuestSegments
  <2>5. speech' \in IF lang = Foreign THEN Enqueue(speech, Speakable(view)) ELSE {speech}
    BY <2>3 DEF GuestSegments
  <2> HIDE DEF lang, pending
  <2>6. /\ guest' \in GuestSet /\ guest'.online = guest.online /\ guest'.copy = view
        /\ guest'.lang = lang /\ guest'.failed = {} /\ guest'.pending = pending
    BY <2>1, <2>2, <2>4, GuestFields DEF GuestSet
  <2>7. GuestPageInv'
    BY <2>1, <2>6, GuestRenewed DEF pending
  <2>8. Speakable(view) \in SUBSET (HostSegs \cap stored)
    BY DEF Speakable, True, HostSegs
  <2>9. SpeechStep
    BY <2>5, <2>8, SpeechUnchanged, SpeechEnqueues
  <2>10. QED  BY <1>2, <2>1, <2>6, <2>7, <2>9
<1>3. QED  BY <1>1, <1>2

LEMMA GuestConnected ==
  ASSUME SaidTypes, ServerInv, GuestPageInv, SpeechInv, GuestConnects
  PROVE  /\ GuestPageInv' /\ SpeechStep /\ guest'.online = TRUE /\ guest'.copy = Serialized
         /\ guest'.lang = (IF foreign # None THEN foreign ELSE guest.lang) /\ guest'.failed = {}
<1> DEFINE lang == IF foreign # None THEN foreign ELSE guest.lang
           pending == GuestPending(Serialized, lang)
<1>1. /\ UNCHANGED said /\ stale' = FALSE
      /\ guest' = [online |-> TRUE, copy |-> Serialized, lang |-> lang, failed |-> {},
                   pending |-> pending]
      /\ speech' \in IF lang = Foreign THEN Enqueue(speech, Speakable(Serialized)) ELSE {speech}
  BY DEF GuestConnects
<1>2. Serialized \in Snapshot /\ True(Serialized)
  BY SerializedTrue
<1>3. lang \in PageLang /\ (lang = None => guest.lang = None)
  BY GuestFields DEF ServerInv, ServerTypes, LangOrNone, PageLang
<1>4. pending \in SUBSET Segs
  BY GuestFields DEF GuestPending, HostSegs
<1> HIDE DEF lang, pending
<1>5. /\ guest' \in GuestSet /\ guest'.online = TRUE /\ guest'.copy = Serialized
      /\ guest'.lang = lang /\ guest'.failed = {} /\ guest'.pending = pending
  BY <1>1, <1>2, <1>3, <1>4 DEF GuestSet
<1>6. GuestPageInv'
  BY <1>1, <1>2, <1>3, <1>5, GuestRenewed DEF pending
<1>7. Speakable(Serialized) \in SUBSET (HostSegs \cap stored)
  BY <1>2 DEF Speakable, True, HostSegs
<1>8. SpeechStep
  BY <1>1, <1>7, SpeechUnchanged, SpeechEnqueues
<1>9. QED  BY <1>5, <1>6, <1>8 DEF lang

(* A translation that arrives ends the waiting for it.                     *)
LEMMA GuestTranslated ==
  ASSUME GuestPageInv, SpeechInv, UNCHANGED <<said, stale>>, NEW s \in stored, s \in Segs,
         GuestTranslation(s)
  PROVE  /\ GuestPageInv' /\ SpeechStep /\ guest'.online = guest.online
         /\ guest'.lang = guest.lang /\ guest'.failed = guest.failed
         /\ ~guest.online => guest'.copy = guest.copy
         /\ guest.online => \A t \in Segs :
              /\ guest'.copy[t].state = guest.copy[t].state
              /\ guest'.copy[t].lang = guest.copy[t].lang
              /\ guest'.copy[t].trans <=> guest.copy[t].trans
                                          \/ (t = s /\ guest.copy[t].state # "absent")
<1>1. CASE ~guest.online
  <2>1. UNCHANGED <<guest, speech>> /\ stale' \in BOOLEAN
    BY <1>1 DEF GuestTranslation, GuestPageInv
  <2>2. QED  BY <1>1, <2>1, GuestUnchanged, SpeechUnchanged
<1>2. CASE guest.online
  <2> DEFINE trans == guest.copy[s].trans \/ guest.copy[s].state # "absent"
             row == [guest.copy[s] EXCEPT !.trans = trans]
             copy == [guest.copy EXCEPT ![s] = row]
             pending == IF guest.lang = Foreign /\ s \in HostSegs THEN guest.pending \ {s}
                        ELSE guest.pending
  <2>1. /\ guest \in GuestSet /\ guest.online \in BOOLEAN /\ guest.copy \in [Segs -> SegView]
        /\ guest.lang \in PageLang /\ guest.failed \in SUBSET Segs
        /\ guest.pending \in SUBSET Segs /\ \A t \in Segs : guest.copy[t] \in SegView
    BY GuestFields
  <2>2. guest' = [guest EXCEPT !.copy = copy, !.pending = pending]
    BY <1>2, <2>1 DEF GuestTranslation, GuestSet
  <2>3. trans \in BOOLEAN /\ (trans <=> guest.copy[s].trans \/ guest.copy[s].state # "absent")
    BY <2>1 DEF SegView
  <2> HIDE DEF trans
  <2>4. /\ row \in SegView /\ row.state = guest.copy[s].state /\ row.lang = guest.copy[s].lang
        /\ row.trans = trans
    BY <2>1, <2>3 DEF SegView
  <2> HIDE DEF row
  <2>5. /\ copy \in [Segs -> SegView] /\ copy[s] = row
        /\ \A t \in Segs : t # s => copy[t] = guest.copy[t]
    BY <2>1, <2>4
  <2>6. /\ pending \in SUBSET Segs /\ pending \subseteq guest.pending
        /\ guest.lang = Foreign => s \notin pending
    BY <2>1 DEF GuestPageInv
  <2> HIDE DEF copy, pending
  <2>7. /\ guest' \in GuestSet /\ guest'.online = guest.online /\ guest'.copy = copy
        /\ guest'.lang = guest.lang /\ guest'.failed = guest.failed /\ guest'.pending = pending
    <3>1. Snapshot = [Segs -> SegView]
      BY DEF Snapshot, SegView
    <3>2. QED  BY <2>1, <2>2, <2>5, <2>6, <3>1 DEF GuestSet
  <2>8. HostSegs' = HostSegs /\ GuestSegs' = GuestSegs
    BY DEF HostSegs, GuestSegs, said
  <2>9. \A t \in pending : copy[t].state = "final" /\ GuestBubble(t)' = "dots"
    <3> SUFFICES ASSUME NEW t \in pending
                 PROVE  copy[t].state = "final" /\ GuestBubble(t)' = "dots"
      OBVIOUS
    <3>1. /\ t \in Segs /\ guest.copy[t].state = "final" /\ GuestBubble(t) = "dots"
          /\ guest.lang = Foreign => t # s
      BY <2>6 DEF GuestPageInv
    <3>2. /\ copy[t].state = guest.copy[t].state /\ copy[t].lang = guest.copy[t].lang
          /\ guest.lang = Foreign => copy[t] = guest.copy[t]
      BY <2>4, <2>5, <3>1
    <3>3. QED  BY <2>7, <2>8, <3>1, <3>2 DEF GuestBubble
  <2>10. GuestPageInv'
    BY <2>6, <2>7, <2>8, <2>9 DEF GuestPageInv
  <2>11. SpeechStep
    <3>1. CASE s \in HostSegs
      <4>1. {s} \in SUBSET (HostSegs \cap stored)
        BY <3>1
      <4>2. speech' \in Enqueue(speech, {s}) \/ speech' = speech
        BY <1>2 DEF GuestTranslation
      <4>3. QED  BY <4>1, <4>2, SpeechEnqueues, SpeechUnchanged
    <3>2. CASE s \notin HostSegs
      <4>1. speech' = speech
        BY <1>2, <3>2 DEF GuestTranslation
      <4>2. QED  BY <4>1, SpeechUnchanged
    <3>3. QED  BY <3>1, <3>2
  <2>12. ASSUME NEW t \in Segs
         PROVE  /\ copy[t].state = guest.copy[t].state /\ copy[t].lang = guest.copy[t].lang
                /\ copy[t].trans <=> guest.copy[t].trans \/ (t = s /\ guest.copy[t].state # "absent")
    <3>1. CASE t = s
      <4>1. copy[t] = row
        BY <2>5, <3>1
      <4>2. copy[t].trans = trans
        BY <2>4, <4>1
      <4>3. copy[t].trans <=> trans
        BY <4>2
      <4>4. copy[t].trans <=> guest.copy[s].trans \/ guest.copy[s].state # "absent"
        BY <2>3, <4>3
      <4>5. copy[t].trans <=> guest.copy[t].trans \/ (t = s /\ guest.copy[t].state # "absent")
        BY <3>1, <4>4
      <4>6. QED  BY <2>4, <3>1, <4>1, <4>5
    <3>2. CASE t # s
      <4>1. copy[t] = guest.copy[t]
        BY <2>5, <3>2
      <4>2. copy[t].trans <=> guest.copy[t].trans
        BY <4>1
      <4>3. QED  BY <3>2, <4>1, <4>2
    <3>3. QED  BY <3>1, <3>2
  <2>13. QED  BY <1>2, <2>7, <2>10, <2>11, <2>12
<1>3. QED  BY <1>1, <1>2

(* So does a failure, which the bubble shows.                              *)
LEMMA GuestFailed ==
  ASSUME GuestPageInv, SpeechInv, UNCHANGED <<said, stale>>, NEW s \in Segs, GuestFailure(s)
  PROVE  /\ GuestPageInv' /\ SpeechStep /\ guest'.online = guest.online
         /\ guest'.copy = guest.copy /\ guest'.lang = guest.lang
<1>1. CASE ~(guest.online /\ guest.copy[s].state # "absent")
  <2>1. UNCHANGED <<guest, speech>> /\ stale' \in BOOLEAN
    BY <1>1 DEF GuestFailure, GuestPageInv
  <2>2. QED  BY <2>1, GuestUnchanged, SpeechUnchanged
<1>2. CASE guest.online /\ guest.copy[s].state # "absent"
  <2> DEFINE failed == guest.failed \cup {s}
             pending == IF guest.lang = Foreign /\ s \in HostSegs THEN guest.pending \ {s}
                        ELSE guest.pending
  <2>1. guest' = [guest EXCEPT !.failed = failed, !.pending = pending] /\ speech' = speech
    BY <1>2, GuestFields DEF GuestFailure, GuestSet
  <2>2. /\ failed \in SUBSET Segs /\ (\A t \in failed : t # s => t \in guest.failed)
        /\ pending \in SUBSET Segs /\ pending \subseteq guest.pending
        /\ guest.lang = Foreign => s \notin pending
    BY GuestFields DEF GuestPageInv
  <2> HIDE DEF failed, pending
  <2>3. /\ guest' \in GuestSet /\ guest'.online = guest.online /\ guest'.copy = guest.copy
        /\ guest'.lang = guest.lang /\ guest'.failed = failed /\ guest'.pending = pending
    BY <2>1, <2>2, GuestFields DEF GuestSet
  <2>4. HostSegs' = HostSegs /\ GuestSegs' = GuestSegs
    BY DEF HostSegs, GuestSegs, said
  <2>5. \A t \in pending : guest.copy[t].state = "final" /\ GuestBubble(t)' = "dots"
    <3> SUFFICES ASSUME NEW t \in pending
                 PROVE  guest.copy[t].state = "final" /\ GuestBubble(t)' = "dots"
      OBVIOUS
    <3>1. /\ guest.copy[t].state = "final" /\ GuestBubble(t) = "dots"
          /\ guest.lang = Foreign /\ t \in failed => t \in guest.failed
      BY <2>2 DEF GuestPageInv
    <3>2. QED  BY <2>3, <2>4, <3>1 DEF GuestBubble
  <2>6. GuestPageInv'
    BY <2>2, <2>3, <2>4, <2>5 DEF GuestPageInv
  <2>7. QED  BY <2>1, <2>3, <2>6, SpeechUnchanged
<1>3. QED  BY <1>1, <1>2

LEMMA GuestDropped ==
  ASSUME GuestPageInv, GuestDrops
  PROVE  /\ GuestPageInv' /\ guest'.online = FALSE /\ guest'.copy = guest.copy
         /\ guest'.lang = guest.lang /\ guest'.failed = guest.failed
<1>1. guest' = [guest EXCEPT !.online = FALSE, !.pending = {}] /\ stale' = stale
  BY DEF GuestDrops
<1>2. /\ guest' \in GuestSet /\ guest'.online = FALSE /\ guest'.copy = guest.copy
      /\ guest'.pending = {} /\ guest'.lang = guest.lang /\ guest'.failed = guest.failed
  BY <1>1, GuestFields DEF GuestSet
<1>3. QED  BY <1>1, <1>2 DEF GuestPageInv

(* With no language known, or with English for it, nothing is translated   *)
(* yet, so nothing new shows when the guest picks its own.                 *)
LEMMA GuestChose ==
  ASSUME ServerInv, GuestCopyInv, GuestPageInv, GuestLangInv, GuestChoosesLanguage
  PROVE  /\ GuestPageInv' /\ GuestLangInv'
         /\ guest'.online = guest.online /\ guest'.copy = guest.copy
<1>1. /\ guest' = [guest EXCEPT !.lang = Foreign] /\ guest.lang # Foreign
      /\ UNCHANGED <<said, stale>> /\ foreign' \in {foreign, Foreign}
  BY DEF GuestChoosesLanguage
<1>2. /\ guest' \in GuestSet /\ guest'.online = guest.online /\ guest'.copy = guest.copy
      /\ guest'.pending = guest.pending /\ guest'.failed = guest.failed /\ guest'.lang = Foreign
  BY <1>1, GuestFields DEF GuestSet, PageLang
<1>3. HostSegs' = HostSegs /\ GuestSegs' = GuestSegs /\ HostSegs \cap GuestSegs = {}
  BY <1>1 DEF HostSegs, GuestSegs, said
<1>4. \A s \in guest'.pending : guest.copy[s].state = "final" /\ GuestBubble(s)' = "dots"
  <2>1. CASE guest.lang = None
    BY <1>2, <2>1 DEF GuestPageInv
  <2>2. CASE guest.lang # None
    <3>1. foreign = None /\ guest.failed = {}
      BY <1>1, <2>2 DEF GuestLangInv
    <3>2. \A s \in Segs : s \notin stored
      BY <3>1 DEF ServerInv
    <3>3. \A s \in Segs : ~guest.copy[s].trans
      BY <3>2 DEF GuestCopyInv, True
    <3>4. \A s \in guest.pending : /\ s \in HostSegs /\ s \in Segs /\ s \notin GuestSegs
                                   /\ guest.copy[s].state = "final"
      BY <1>3, GuestFields DEF GuestPageInv
    <3>5. QED  BY <1>2, <1>3, <3>1, <3>3, <3>4 DEF GuestBubble
  <2>3. QED  BY <2>1, <2>2
<1>5. GuestPageInv'
  BY <1>1, <1>2, <1>3, <1>4, ConvFacts DEF GuestPageInv
<1>6. GuestLangInv'
  BY <1>1, <1>2, ConvFacts DEF GuestLangInv
<1>7. QED  BY <1>2, <1>5, <1>6

LEMMA GuestExpires ==
  ASSUME GuestPageInv, NEW s \in Segs, GuestPendingExpires(s)
  PROVE  /\ GuestPageInv' /\ guest'.online = guest.online /\ guest'.copy = guest.copy
         /\ guest'.lang = guest.lang /\ guest'.failed = guest.failed
<1>1. UNCHANGED <<said, stale>> /\ guest' = [guest EXCEPT !.pending = guest.pending \ {s}]
  BY DEF GuestPendingExpires
<1>2. /\ guest' \in GuestSet /\ guest'.online = guest.online /\ guest'.copy = guest.copy
      /\ guest'.lang = guest.lang /\ guest'.failed = guest.failed
      /\ guest'.pending = guest.pending \ {s}
  BY <1>1, GuestFields DEF GuestSet
<1>3. HostSegs' = HostSegs /\ \A t \in Segs : GuestBubble(t)' = GuestBubble(t)
  BY <1>1, <1>2 DEF GuestBubble, HostSegs, GuestSegs, said
<1>4. guest.lang = None => guest.pending = {}
  BY DEF GuestPageInv
<1>5. QED  BY <1>1, <1>2, <1>3, <1>4, GuestFields DEF GuestPageInv

(* The page's language stays, unless a message names it.                   *)
LEMMA GuestLangKept ==
  ASSUME GuestLangInv, guest'.lang = guest.lang \/ guest'.lang \in {Foreign, None},
         foreign' = foreign \/ guest.lang \in {Foreign, None},
         foreign' = None => foreign = None /\ guest'.failed \subseteq guest.failed,
         Ending => Ending'
  PROVE  GuestLangInv'
BY DEF GuestLangInv
-----------------------------------------------------------------------------
(* What the guest's page knows of the server. *)

LEMMA GuestCopyVacuous ==
  ASSUME GuestCopyInv, Grows, guest'.copy = guest.copy,
         phase' # "closing", phase' = "recording" => mail'.tick # {}
  PROVE  GuestCopyInv'
<1>1. \A s \in Segs : /\ guest.copy[s].state # "absent" => seg'[s] # "absent"
                      /\ guest.copy[s].state = "final" => seg'[s] = "final"
                      /\ guest.copy[s].trans => s \in stored'
  BY TrueGrows DEF GuestCopyInv
<1>2. QED  BY <1>1 DEF GuestCopyInv, True

\* The server has of a segment what it has sent of it.
AsSent(s) == Serialized[s].state = sent[s].state /\ Serialized[s].lang = sent[s].lang

\* A step makes a segment final, or leaves it.
Finalizes == \A s \in Segs : seg'[s] = seg[s] \/ (seg[s] = "live" /\ seg'[s] = "final")

(* A language settled in between was not sent before, and neither was what *)
(* a release makes final.                                                  *)
LEMMA AsSentBefore ==
  ASSUME SaidTypes, ServerInv, SentInv, Grows, ServerInv', Finalizes, UNCHANGED sent,
         NEW s \in Segs, AsSent(s)'
  PROVE  AsSent(s)
<1>1. SaidTypes' /\ ServerTypes'
  BY DEF SaidTypes, Grows, said, ServerInv
<1>2. Shows(Serialized[s], seg[s], s)'
  BY <1>1, ViewFactsNext
<1>3. Shows(Serialized[s], seg[s], s)
  BY SerializedTrue
<1>4. /\ sent[s].state = seg'[s]
      /\ sent[s].lang = IF seg'[s] = "absent" THEN "de" ELSE SentLang(s)'
  BY <1>2 DEF AsSent, Shows
<1>5. seg'[s] = seg[s]
  BY <1>4 DEF Finalizes, SentInv, True
<1>6. /\ sent[s].state = seg[s] /\ Serialized[s].state = seg[s]
      /\ sent[s].lang = IF seg[s] = "absent" THEN "de" ELSE SentLang(s)'
      /\ Serialized[s].lang = IF seg[s] = "absent" THEN "de" ELSE SentLang(s)
  BY <1>3, <1>4, <1>5 DEF Shows
<1>7. CASE seg[s] = "absent"
  BY <1>6, <1>7 DEF AsSent
<1>8. CASE seg[s] # "absent" /\ foreign = None
  BY <1>6, <1>8 DEF AsSent, SentInv
<1>9. CASE seg[s] # "absent" /\ foreign # None
  <2>1. SentLang(s)' = SentLang(s)
    BY <1>9 DEF SentLang, Grows, said, HostSegs
  <2>2. QED  BY <1>6, <1>9, <2>1 DEF AsSent
<1>10. QED  BY <1>7, <1>8, <1>9

LEMMA GuestCopyKept ==
  ASSUME SaidTypes, ServerInv, SentInv, GuestCopyInv, Grows, ServerInv',
         UNCHANGED <<sent, phase, stale>>, mail'.tick = mail.tick, guest'.copy = guest.copy,
         guest'.online => guest.online,
         Finalizes, phase = "closing" => seg' = seg,
         \A s \in Segs : s \in stored' /\ s # cast' => s \in stored /\ s # cast
  PROVE  GuestCopyInv'
<1>1. \A s \in Segs : /\ guest.copy[s].state # "absent" => seg'[s] # "absent"
                      /\ guest.copy[s].state = "final" => seg'[s] = "final"
                      /\ guest.copy[s].trans => s \in stored'
  BY TrueGrows DEF GuestCopyInv
<1>2. ASSUME phase = "recording", mail.tick = {}, guest.online, ~stale, NEW s \in Segs
      PROVE  /\ AsSent(s)' =>
                  guest.copy[s].state = sent[s].state /\ guest.copy[s].lang = sent[s].lang
             /\ sent[s].trans => guest.copy[s].trans
  <2>1. AsSent(s)' => AsSent(s)
    BY AsSentBefore
  <2>2. QED  BY <1>2, <2>1 DEF GuestCopyInv, AsSent
<1>3. ASSUME phase = "closing", guest.online, ~stale, NEW s \in Segs
      PROVE  /\ guest.copy[s].state = seg'[s]
             /\ s \in stored' /\ s # cast' => guest.copy[s].trans
  BY <1>3 DEF GuestCopyInv
<1>4. QED  BY <1>1, <1>2, <1>3 DEF GuestCopyInv, True, AsSent

LEMMA AsrTickEndsGuest ==
  ASSUME SaidTypes, ServerInv, SentInv, MailInv, GuestCopyInv, GuestPageInv, GuestLangInv,
         SpeechInv, Grows, AsrTickEnds
  PROVE  GuestCopyInv' /\ GuestPageInv' /\ GuestLangInv' /\ SpeechStep
<1>1. /\ UNCHANGED said /\ UNCHANGED <<foreign, sent, phase>> /\ phase = "recording"
      /\ stale' = FALSE
  BY DEF AsrTickEnds
<1>2. PICK m \in mail.tick : GuestReceives(m.view, m.lang)
  BY DEF AsrTickEnds
<1>3. m.view = sent /\ m.lang \in {Foreign, None} /\ m.lang \in PageLang
  BY MailFields DEF MailInv, ServerInv, Message, PageLang
<1>4. True(sent) /\ sent \in Snapshot
  BY DEF SentInv, ServerInv, ServerTypes
<1>5. /\ GuestPageInv' /\ SpeechStep /\ guest'.online = guest.online
      /\ guest'.copy = IF guest.online THEN sent ELSE guest.copy
      /\ guest'.lang = guest.lang \/ (guest.lang = None /\ guest'.lang = m.lang)
      /\ guest'.failed \subseteq guest.failed
  BY <1>1, <1>2, <1>3, <1>4, GuestReceived
<1>6. True(guest'.copy)
  BY <1>4, <1>5 DEF GuestCopyInv
<1>7. \A s \in Segs : /\ guest'.copy[s].state # "absent" => seg'[s] # "absent"
                      /\ guest'.copy[s].state = "final" => seg'[s] = "final"
                      /\ guest'.copy[s].trans => s \in stored'
  BY <1>6, TrueGrows
<1>8. GuestCopyInv'
  BY <1>1, <1>5, <1>7 DEF GuestCopyInv, True
<1>9. GuestLangInv'
  BY <1>1, <1>3, <1>5, GuestLangKept DEF Ending
<1>10. QED  BY <1>5, <1>8, <1>9

(* The final snapshot, a release's that was not overtaken, and the list of *)
(* a guest that connects are whole.                                        *)
LEMMA GuestWhole ==
  ASSUME SaidTypes, ServerInv, SentInv, UNCHANGED said,
         UNCHANGED <<seg, stored, foreign, sent>>,
         guest'.online /\ ~stale' => guest'.copy = Serialized, True(guest'.copy)
  PROVE  GuestCopyInv'
<1>1. Serialized' = Serialized
  BY DEF Serialized, View, HostSegs, said
<1>2. \A s \in Segs : Shows(Serialized[s], seg[s], s)
  BY SerializedTrue
<1>3. \A s \in Segs : s \in stored => seg[s] = "final"
  BY DEF ServerInv
<1>4. \A s \in Segs : sent[s].trans => s \in stored
  BY DEF SentInv, True
<1>5. \A s \in Segs : /\ Serialized[s].state = seg[s]
                      /\ s \in stored => Serialized[s].trans
  BY <1>2, <1>3 DEF Shows
<1>6. True(guest.copy)'
  BY DEF True
<1>7. QED  BY <1>1, <1>4, <1>5, <1>6 DEF GuestCopyInv

LEMMA ReleaseSentGuest ==
  ASSUME SaidTypes, ServerInv, SentInv, MailInv, GuestCopyInv, GuestPageInv, GuestLangInv,
         SpeechInv, NEW m \in mail.release, ReleaseSent(m)
  PROVE  GuestCopyInv' /\ GuestPageInv' /\ GuestLangInv' /\ SpeechStep
<1>1. /\ UNCHANGED said /\ UNCHANGED <<seg, stored, foreign, sent, phase>>
      /\ GuestReceives(m.view, m.lang) /\ stale' = (stale \/ m.view # Serialized)
  BY DEF ReleaseSent
<1>2. /\ m.view \in Snapshot /\ m.lang \in {Foreign, None} /\ m.lang \in PageLang
      /\ True(m.view)
  BY MailFields DEF MailInv, ServerInv, Message, PageLang
<1>3. stale' \in BOOLEAN
  BY <1>1 DEF GuestPageInv
<1>4. /\ GuestPageInv' /\ SpeechStep /\ guest'.online = guest.online
      /\ guest'.copy = IF guest.online THEN m.view ELSE guest.copy
      /\ guest'.lang = guest.lang \/ (guest.lang = None /\ guest'.lang = m.lang)
      /\ guest'.failed \subseteq guest.failed
  BY <1>1, <1>2, <1>3, GuestReceived
<1>5. True(guest'.copy)
  BY <1>2, <1>4 DEF GuestCopyInv
<1>6. guest'.online /\ ~stale' => guest'.copy = Serialized
  BY <1>1, <1>4
<1>7. GuestCopyInv'
  BY <1>1, <1>5, <1>6, GuestWhole
<1>8. GuestLangInv'
  BY <1>1, <1>2, <1>4, GuestLangKept DEF Ending
<1>9. QED  BY <1>4, <1>7, <1>8

LEMMA FinalSnapshotGuest ==
  ASSUME SaidTypes, ServerInv, SentInv, GuestCopyInv, GuestPageInv, GuestLangInv, SpeechInv,
         FinalSnapshot
  PROVE  GuestCopyInv' /\ GuestPageInv' /\ GuestLangInv' /\ SpeechStep
<1>1. /\ UNCHANGED said /\ UNCHANGED <<seg, stored, foreign, sent>>
      /\ phase = "stopping" /\ phase' = "closing" /\ stale' = FALSE
  BY DEF FinalSnapshot
<1>2. Ending' /\ foreign' = foreign
  BY <1>1 DEF Ending
<1>3. /\ FinalMessages = {} => \A s \in Segs : seg[s] # "final"
      /\ \A m \in FinalMessages : m.view = Serialized /\ m.lang = foreign
  BY FinalMessagesFacts
<1>4. CASE FinalMessages = {}
  <2>1. UNCHANGED <<guest, speech>>
    BY <1>4 DEF FinalSnapshot
  <2>2. \A s \in Segs : seg[s] = "absent" /\ s \notin stored
    BY <1>1, <1>3, <1>4 DEF ServerInv, ServerTypes
  <2>3. True(guest.copy)' /\ \A s \in Segs : guest.copy[s].state = "absent"
    BY <1>1, <2>1, <2>2 DEF GuestCopyInv, True
  <2>4. GuestCopyInv'
    BY <1>1, <2>1, <2>2, <2>3 DEF GuestCopyInv
  <2>5. GuestPageInv' /\ SpeechStep
    BY <1>1, <2>1, GuestUnchanged, SpeechUnchanged
  <2>6. GuestLangInv'
    BY <1>2, <2>1 DEF GuestLangInv
  <2>7. QED  BY <2>4, <2>5, <2>6
<1>5. ASSUME NEW m \in FinalMessages, GuestReceives(m.view, Named(m))
      PROVE  GuestCopyInv' /\ GuestPageInv' /\ GuestLangInv' /\ SpeechStep
  <2>1. m.view = Serialized /\ m.lang = foreign /\ foreign \in {Foreign, None}
    BY <1>3 DEF ServerInv, ServerTypes, LangOrNone
  <2>2. Named(m) \in PageLang /\ (Named(m) # Foreign => foreign = None)
    BY <2>1, ConvFacts DEF Named, PageLang
  <2>3. True(Serialized) /\ Serialized \in Snapshot
    BY SerializedTrue
  <2>4. /\ GuestPageInv' /\ SpeechStep /\ guest'.online = guest.online
        /\ guest'.copy = IF guest.online THEN Serialized ELSE guest.copy
        /\ guest'.lang = guest.lang \/ (guest.lang = None /\ guest'.lang = Named(m))
        /\ guest'.failed \subseteq guest.failed
    BY <1>1, <1>5, <2>1, <2>2, <2>3, GuestReceived
  <2>5. True(guest'.copy)
    BY <2>3, <2>4 DEF GuestCopyInv
  <2>6. GuestCopyInv'
    BY <1>1, <2>4, <2>5, GuestWhole
  <2>7. GuestLangInv'
    BY <1>2, <2>2, <2>4 DEF GuestLangInv
  <2>8. QED  BY <2>4, <2>6, <2>7
<1>6. QED  BY <1>4, <1>5 DEF FinalSnapshot

LEMMA GuestConnectsGuest ==
  ASSUME SaidTypes, ServerInv, SentInv, GuestPageInv, GuestLangInv, SpeechInv, GuestConnects
  PROVE  GuestCopyInv' /\ GuestPageInv' /\ GuestLangInv' /\ SpeechStep
<1>1. UNCHANGED said /\ UNCHANGED <<seg, stored, foreign, sent, phase>>
  BY DEF GuestConnects, server
<1>2. /\ GuestPageInv' /\ SpeechStep /\ guest'.online = TRUE /\ guest'.copy = Serialized
      /\ guest'.lang = (IF foreign # None THEN foreign ELSE guest.lang) /\ guest'.failed = {}
  BY GuestConnected DEF ServerInv
<1>3. True(guest'.copy)
  BY <1>2, SerializedTrue
<1>4. GuestCopyInv'
  BY <1>1, <1>2, <1>3, GuestWhole
<1>5. foreign = None \/ foreign = Foreign
  BY DEF ServerInv, ServerTypes, LangOrNone
<1>6. GuestLangInv'
  BY <1>1, <1>2, <1>5 DEF GuestLangInv, Ending
<1>7. QED  BY <1>2, <1>4, <1>6

LEMMA MtSentGuest ==
  ASSUME SaidTypes, ServerInv, SentInv, GuestCopyInv, GuestPageInv, GuestLangInv, SpeechInv,
         MtSent
  PROVE  GuestCopyInv' /\ GuestPageInv' /\ GuestLangInv' /\ SpeechStep
<1>1. /\ UNCHANGED said /\ UNCHANGED <<seg, stored, foreign, sent, phase, mail, stale>>
      /\ cast # None /\ cast' = None /\ cast \in Segs
      /\ IF job[cast] = "translated" THEN GuestTranslation(cast) ELSE GuestFailure(cast)
  BY DEF MtSent, ServerInv, ServerTypes
<1>2. (\A s \in Segs : s \in stored <=> job[s] = "translated") /\ foreign # None
  BY <1>1 DEF ServerInv
<1>3. Serialized' = Serialized
  BY <1>1 DEF Serialized, View, HostSegs, said
<1>4. \A s \in stored : s \in Segs /\ seg[s] = "final"
  BY DEF ServerInv, ServerTypes
<1>5. guest'.lang = guest.lang => GuestLangInv'
  BY <1>1, <1>2 DEF GuestLangInv, Ending
<1>6. CASE job[cast] = "translated"
  <2>1. cast \in stored /\ GuestTranslation(cast)
    BY <1>1, <1>2, <1>6
  <2>2. /\ GuestPageInv' /\ SpeechStep /\ guest'.online = guest.online
        /\ guest'.lang = guest.lang
        /\ ~guest.online => guest'.copy = guest.copy
        /\ guest.online => \A t \in Segs :
             /\ guest'.copy[t].state = guest.copy[t].state
             /\ guest'.copy[t].lang = guest.copy[t].lang
             /\ guest'.copy[t].trans <=>
                  guest.copy[t].trans \/ (t = cast /\ guest.copy[t].state # "absent")
    BY <1>1, <2>1, GuestTranslated
  <2>3. True(guest.copy)'
    <3>1. CASE ~guest.online
      BY <1>1, <2>2, <3>1 DEF GuestCopyInv, True
    <3>2. CASE guest.online
      BY <1>1, <2>1, <2>2, <3>2 DEF GuestCopyInv, True
    <3>3. QED  BY <3>1, <3>2
  <2>4. ASSUME phase = "recording", mail.tick = {}, guest.online, ~stale, NEW s \in Segs
        PROVE  /\ AsSent(s) => guest'.copy[s].state = sent[s].state
                               /\ guest'.copy[s].lang = sent[s].lang
               /\ sent[s].trans => guest'.copy[s].trans
    BY <2>2, <2>4 DEF GuestCopyInv, AsSent
  <2>5. ASSUME phase = "closing", guest.online, ~stale, NEW s \in Segs
        PROVE  /\ guest'.copy[s].state = seg[s]
               /\ s \in stored => guest'.copy[s].trans
    <3>1. /\ guest.copy[s].state = seg[s]
          /\ s \in stored /\ s # cast => guest.copy[s].trans
      BY <2>5 DEF GuestCopyInv
    <3>2. s = cast => guest.copy[s].state # "absent"
      BY <1>4, <2>1, <3>1
    <3>3. QED  BY <2>2, <2>5, <3>1, <3>2
  <2>6. GuestCopyInv'
    BY <1>1, <1>3, <2>2, <2>3, <2>4, <2>5 DEF GuestCopyInv, AsSent
  <2>7. QED  BY <1>5, <2>2, <2>6
<1>7. CASE job[cast] # "translated"
  <2>1. cast \notin stored /\ GuestFailure(cast)
    BY <1>1, <1>2, <1>7
  <2>2. /\ GuestPageInv' /\ SpeechStep /\ guest'.online = guest.online
        /\ guest'.copy = guest.copy /\ guest'.lang = guest.lang
    BY <1>1, <2>1, GuestFailed
  <2>3. GuestCopyInv'
    BY <1>1, <1>3, <2>1, <2>2 DEF GuestCopyInv, True
  <2>4. QED  BY <1>5, <2>2, <2>3
<1>8. QED  BY <1>6, <1>7
-----------------------------------------------------------------------------
(* Every step. *)

LEMMA HostKept ==
  ASSUME HostPageInv, HostCopyInv, Grows, UNCHANGED <<host, sent>>,
         phase' = "ended" <=> phase = "ended",
         phase = "ended" => UNCHANGED <<seg, stored, rushed>> /\ mail'.final = mail.final
  PROVE  HostPageInv' /\ HostCopyInv'
BY HostUnchanged, HostCopyKept DEF Grows

LEMMA ConvInit ==
  ASSUME Init
  PROVE  ConvInv
<1>1. /\ guests \subseteq Segs \ SaidByHost /\ heard \in [Segs -> {"de", Foreign}]
      /\ foreign \in LangOrNone /\ stored = {}
      /\ seg = [s \in Segs |-> "absent"] /\ job = [s \in Segs |-> "none"]
      /\ phase = "recording" /\ sent = Nothing /\ rushed = FALSE /\ cast = None
      /\ mail = [tick |-> {}, release |-> {}, final |-> {}] /\ stale = FALSE
      /\ host = [copy |-> Nothing, lang |-> foreign, pending |-> {},
                 dom |-> [s \in Segs |-> Blank]]
      /\ guest = [online |-> FALSE, copy |-> Nothing, lang |-> None, failed |-> {},
                  pending |-> {}]
      /\ speech = [enabled |-> FALSE, queue |-> <<>>, at |-> [s \in Segs |-> "none"]]
  BY DEF Init, LangOrNone
<1>2. /\ Nothing \in Snapshot
      /\ \A s \in Segs : /\ Nothing[s].state = "absent" /\ Nothing[s].lang = "de"
                         /\ Nothing[s].trans = FALSE
  BY DEF Nothing, Absent, Snapshot
<1>3. [s \in Segs |-> Blank] \in Dom
  BY DEF Blank, Dom, Text
<1>4. mail \in MailSet /\ mail.tick = {} /\ mail.release = {} /\ mail.final = {}
  BY <1>1 DEF MailSet
<1>5. ServerInv
  BY <1>1, <1>2, <1>4 DEF ServerInv, ServerTypes, Jobs
<1>6. SentInv
  BY <1>1, <1>2 DEF SentInv, True
<1>7. MailInv /\ FinalInv
  BY <1>1, <1>4 DEF MailInv, FinalInv, Ending
<1>8. host \in HostSet /\ host.copy = Nothing /\ host.pending = {}
  BY <1>1, <1>2, <1>3 DEF HostSet, LangOrNone, PageLang
<1>9. HostCopyInv /\ HostPageInv
  BY <1>1, <1>2, <1>8 DEF HostCopyInv, HostPageInv, True, BubblesMatchCopy
<1>10. /\ guest \in GuestSet /\ guest.copy = Nothing /\ guest.pending = {}
       /\ guest.online = FALSE /\ guest.lang = None /\ guest.failed = {}
  BY <1>1, <1>2 DEF GuestSet, PageLang
<1>11. GuestCopyInv /\ GuestPageInv /\ GuestLangInv
  BY <1>1, <1>2, <1>10 DEF GuestCopyInv, GuestPageInv, GuestLangInv, True
<1>12. speech \in SpeechSet /\ speech.queue = <<>> /\ \A s \in Segs : speech.at[s] = "none"
  BY <1>1 DEF SpeechSet, SpeechState
<1>13. 1 .. Len(speech.queue) = {}
  BY <1>12
<1>14. SpeechInv
  BY <1>12, <1>13 DEF SpeechInv, SpeechOK
<1>15. SaidTypes
  BY <1>1 DEF SaidTypes
<1>16. QED  BY <1>5, <1>6, <1>7, <1>9, <1>11, <1>14, <1>15 DEF ConvInv

\* What a step keeps besides the server's own invariant.
PartsNext ==
  /\ ServerInv' /\ Grows /\ SentInv' /\ MailInv' /\ FinalInv' /\ HostPageInv' /\ HostCopyInv'
  /\ GuestCopyInv' /\ GuestPageInv' /\ GuestLangInv' /\ SpeechStep

(* The steps that the guest's page does not see.                           *)
LEMMA GuestUnaware ==
  ASSUME GuestPageInv, GuestLangInv, SpeechInv, UNCHANGED <<said, guest, stale, speech>>,
         foreign' = foreign \/ (foreign' = Foreign /\ ~Ending), Ending => Ending'
  PROVE  GuestPageInv' /\ GuestLangInv' /\ SpeechStep
<1>1. GuestPageInv' /\ SpeechStep
  BY GuestUnchanged, SpeechUnchanged DEF GuestPageInv
<1>2. foreign' = foreign \/ guest.lang \in {Foreign, None}
  BY DEF GuestLangInv
<1>3. foreign' = None => foreign = None
  BY ConvFacts
<1>4. GuestLangInv'
  BY <1>2, <1>3, GuestLangKept
<1>5. QED  BY <1>1, <1>4

LEMMA AsrNext ==
  ASSUME ConvInv, AsrTick \/ AsrTickEnds
  PROVE  PartsNext
<1> USE DEF ConvInv
<1>1. CASE AsrTick
  <2>1. /\ UNCHANGED <<said, foreign, guest, stale, speech, rushed>>
        /\ phase = "recording" /\ phase' = "recording"
    BY <1>1 DEF AsrTick, client
  <2>2. mail'.tick # {} /\ mail'.final = mail.final
    <3>1. /\ mail' = [mail EXCEPT !.tick = {MessageOf(View(seg'))}]
          /\ seg' \in [Segs -> {"absent", "live", "final"}]
      BY <1>1, RecognizedGrows DEF AsrTick
    <3>2. MessageOf(View(seg')) \in Message
      BY <3>1, MessageFacts DEF ServerInv
    <3>3. QED  BY <3>1, <3>2, MailFields DEF ServerInv
  <2>3. /\ ServerInv' /\ Grows /\ SentInv' /\ MailInv' /\ HostPageInv' /\ HostCopyInv'
    BY <1>1, AsrTickServer, SentInvTick, AsrTickMail, AsrTickHost
  <2>4. FinalInv'
    BY <2>1, <2>2, FinalKept DEF Ending
  <2>5. GuestCopyInv' /\ GuestPageInv' /\ GuestLangInv' /\ SpeechStep
    BY <2>1, <2>2, <2>3, GuestCopyVacuous, GuestUnaware DEF Ending
  <2>6. QED  BY <2>3, <2>4, <2>5 DEF PartsNext
<1>2. CASE AsrTickEnds
  <2>1. /\ UNCHANGED <<said, sent, host, phase, rushed>> /\ phase = "recording"
        /\ mail' = [mail EXCEPT !.tick = {}]
    BY <1>2 DEF AsrTickEnds
  <2>2. mail'.tick = {} /\ mail'.release = mail.release /\ mail'.final = mail.final
    BY <2>1, MailFields DEF ServerInv
  <2>3. ServerInv' /\ Grows
    BY <1>2, AsrTickEndsServer
  <2>4. SentInv' /\ HostPageInv' /\ HostCopyInv'
    BY <2>1, <2>3, SentInvNext, HostKept
  <2>5. MailInv' /\ FinalInv'
    BY <2>1, <2>2, <2>3, MailKept, FinalKept DEF Ending
  <2>6. GuestCopyInv' /\ GuestPageInv' /\ GuestLangInv' /\ SpeechStep
    BY <1>2, <2>3, AsrTickEndsGuest
  <2>7. QED  BY <2>3, <2>4, <2>5, <2>6 DEF PartsNext
<1>3. QED  BY <1>1, <1>2

(* The timer of a released talk button.                                    *)
LEMMA ReleaseNext ==
  ASSUME ConvInv, Released \/ \E m \in mail.release : ReleaseSent(m)
  PROVE  PartsNext
<1> USE DEF ConvInv
<1>1. CASE Released
  <2>1. /\ UNCHANGED <<said, stored, foreign, sent, rushed, cast, guest, stale, speech>>
        /\ mail' = [mail EXCEPT !.release = mail.release \cup {MessageOf(View(seg'))}]
    BY <1>1 DEF Released, client
  <2>2. /\ ServerInv' /\ Grows /\ phase = "recording" /\ phase' = phase /\ Finalizes
    BY <1>1, ReleasedServer DEF Finalizes
  <2>3. mail'.tick = mail.tick /\ mail'.final = mail.final
    <3>1. seg' \in [Segs -> {"absent", "live", "final"}]
      BY <2>2 DEF ServerInv, ServerTypes
    <3>2. MessageOf(View(seg')) \in Message
      BY <3>1, MessageFacts DEF ServerInv
    <3>3. QED  BY <2>1, <3>2, MailFields DEF ServerInv
  <2>4. SentInv' /\ MailInv' /\ HostPageInv' /\ HostCopyInv'
    BY <1>1, <2>1, <2>2, SentInvNext, ReleasedMail, ReleasedHost
  <2>5. FinalInv'
    BY <2>1, <2>2, <2>3, FinalKept DEF Ending
  <2>6. GuestCopyInv'
    BY <2>1, <2>2, <2>3, GuestCopyKept
  <2>7. GuestPageInv' /\ GuestLangInv' /\ SpeechStep
    BY <2>1, <2>2, GuestUnaware DEF Ending
  <2>8. QED  BY <2>2, <2>4, <2>5, <2>6, <2>7 DEF PartsNext
<1>2. ASSUME NEW m \in mail.release, ReleaseSent(m)
      PROVE  PartsNext
  <2>1. /\ UNCHANGED <<said, seg, job, stored, sent, host, phase, rushed>>
        /\ mail' = [mail EXCEPT !.release = mail.release \ {m}]
    BY <1>2 DEF ReleaseSent
  <2>2. /\ mail'.tick = mail.tick /\ mail'.release = mail.release \ {m}
        /\ mail'.final = mail.final
    BY <2>1, MailFields DEF ServerInv
  <2>3. ServerInv' /\ Grows
    BY <1>2, ReleaseSentServer
  <2>4. SentInv' /\ HostPageInv' /\ HostCopyInv'
    BY <2>1, <2>2, <2>3, SentInvNext, HostKept
  <2>5. MailInv' /\ FinalInv'
    BY <2>1, <2>2, <2>3, MailKept, FinalKept DEF Ending, FinalInv
  <2>6. GuestCopyInv' /\ GuestPageInv' /\ GuestLangInv' /\ SpeechStep
    BY <1>2, ReleaseSentGuest
  <2>7. QED  BY <2>3, <2>4, <2>5, <2>6 DEF PartsNext
<1>3. QED  BY <1>1, <1>2

LEMMA MtNext ==
  ASSUME ConvInv, MtSent \/ \E s \in Segs : MtTakes(s) \/ MtResult(s)
  PROVE  PartsNext
<1> USE DEF ConvInv
<1>1. CASE MtSent
  <2>1. /\ UNCHANGED <<said, seg, job, stored, foreign, sent, host, phase, mail, rushed>>
        /\ phase # "ended"
    BY <1>1 DEF MtSent
  <2>2. ServerInv' /\ Grows
    BY <1>1, SentServer
  <2>3. SentInv' /\ HostPageInv' /\ HostCopyInv'
    BY <2>1, <2>2, SentInvNext, HostKept
  <2>4. MailInv' /\ FinalInv'
    BY <2>1, <2>2, MailKept, FinalKept DEF Ending, FinalInv
  <2>5. GuestCopyInv' /\ GuestPageInv' /\ GuestLangInv' /\ SpeechStep
    BY <1>1, MtSentGuest
  <2>6. QED  BY <2>2, <2>3, <2>4, <2>5 DEF PartsNext
<1>2. ASSUME NEW s \in Segs, MtTakes(s)
      PROVE  PartsNext
  <2>1. /\ UNCHANGED <<said, seg, stored, foreign, sent, mail, rushed, phase, cast>>
        /\ UNCHANGED <<host, guest, stale, speech>> /\ phase # "ended" /\ job[s] = "queued"
    BY <1>2 DEF MtTakes, client
  <2>2. ServerInv' /\ Grows
    BY <1>2, MtTakesServer
  <2>3. SentInv' /\ HostPageInv' /\ HostCopyInv'
    BY <2>1, <2>2, SentInvNext, HostKept
  <2>4. MailInv' /\ FinalInv'
    <3>1. Ending => rushed
      BY <2>1 DEF FinalInv
    <3>2. Ending' <=> Ending
      BY <2>1 DEF Ending
    <3>3. rushed \in BOOLEAN
      BY DEF ServerInv, ServerTypes
    <3>4. FinalInv'
      BY <2>1, <3>1, <3>2, <3>3, FinalKept
    <3>5. QED  BY <2>1, <2>2, <3>4, MailKept
  <2>5. GuestCopyInv'
    BY <2>1, <2>2, GuestCopyKept DEF Finalizes
  <2>6. GuestPageInv' /\ GuestLangInv' /\ SpeechStep
    BY <2>1, GuestUnaware DEF Ending
  <2>7. QED  BY <2>2, <2>3, <2>4, <2>5, <2>6 DEF PartsNext
<1>3. ASSUME NEW s \in Segs, MtResult(s)
      PROVE  PartsNext
  <2>1. /\ UNCHANGED <<said, seg, foreign, sent, mail, rushed, phase, guest, stale, speech>>
        /\ job[s] = "translating" /\ cast' = s /\ stored' \subseteq stored \cup {s}
    BY <1>3 DEF MtResult, client
  <2>2. ServerInv' /\ Grows
    BY <1>3, MtResultServer
  <2>3. HostPageInv' /\ HostCopyInv' /\ SentInv'
    BY <1>3, <2>1, <2>2, MtResultHost, SentInvNext
  <2>4. MailInv' /\ FinalInv'
    <3>1. Ending => rushed
      BY <2>1 DEF FinalInv
    <3>2. Ending' <=> Ending
      BY <2>1 DEF Ending
    <3>3. rushed \in BOOLEAN
      BY DEF ServerInv, ServerTypes
    <3>4. FinalInv'
      BY <2>1, <3>1, <3>2, <3>3, FinalKept
    <3>5. QED  BY <2>1, <2>2, <3>4, MailKept
  <2>5. cast = None
    BY <2>1 DEF ServerInv
  <2>6. \A t \in Segs : t \in stored' /\ t # cast' => t \in stored /\ t # cast
    BY <2>1, <2>5, ConvFacts
  <2>7. GuestCopyInv'
    BY <2>1, <2>2, <2>6, GuestCopyKept DEF Finalizes
  <2>8. GuestPageInv' /\ GuestLangInv' /\ SpeechStep
    BY <2>1, GuestUnaware DEF Ending
  <2>9. QED  BY <2>2, <2>3, <2>4, <2>7, <2>8 DEF PartsNext
<1>4. QED  BY <1>1, <1>2, <1>3

LEMMA StopNext ==
  ASSUME ConvInv, StopRequested \/ FinalSnapshot \/ Closed
  PROVE  PartsNext
<1> USE DEF ConvInv
<1>1. CASE StopRequested
  <2>1. /\ UNCHANGED <<said, foreign, sent, rushed, host, guest, stale, speech>>
        /\ phase = "recording" /\ phase' = "stopping" /\ mail' = [mail EXCEPT !.tick = {}]
    BY <1>1 DEF StopRequested, client
  <2>2. mail'.tick = {} /\ mail'.release = mail.release /\ mail'.final = mail.final
    BY <2>1, MailFields DEF ServerInv
  <2>3. ServerInv' /\ Grows
    BY <1>1, StopRequestedServer
  <2>4. SentInv' /\ HostPageInv' /\ HostCopyInv'
    BY <2>1, <2>3, SentInvNext, HostKept
  <2>5. MailInv' /\ FinalInv'
    BY <2>1, <2>2, <2>3, MailKept, FinalKept DEF Ending
  <2>6. GuestCopyInv'
    BY <2>1, <2>3, GuestCopyVacuous
  <2>7. GuestPageInv' /\ GuestLangInv' /\ SpeechStep
    BY <2>1, GuestUnaware DEF Ending
  <2>8. QED  BY <2>3, <2>4, <2>5, <2>6, <2>7 DEF PartsNext
<1>2. CASE FinalSnapshot
  <2>1. UNCHANGED <<said, sent, host>> /\ phase = "stopping" /\ phase' = "closing"
    BY <1>2 DEF FinalSnapshot
  <2>2. ServerInv' /\ Grows
    BY <1>2, SentServer
  <2>3. SentInv' /\ HostPageInv' /\ HostCopyInv'
    BY <2>1, <2>2, SentInvNext, HostKept
  <2>4. MailInv' /\ FinalInv'
    BY <1>2, FinalSnapshotMail
  <2>5. GuestCopyInv' /\ GuestPageInv' /\ GuestLangInv' /\ SpeechStep
    BY <1>2, FinalSnapshotGuest
  <2>6. QED  BY <2>2, <2>3, <2>4, <2>5 DEF PartsNext
<1>3. CASE Closed
  <2>1. /\ UNCHANGED <<said, seg, job, stored, foreign, sent, mail, rushed>>
        /\ UNCHANGED <<guest, stale, speech>> /\ phase = "closing" /\ phase' = "ended"
    BY <1>3 DEF Closed, client
  <2>2. ServerInv' /\ Grows
    BY <1>3, SentServer
  <2>3. HostPageInv' /\ HostCopyInv' /\ SentInv'
    BY <1>3, <2>1, <2>2, ClosedHost, SentInvNext
  <2>4. MailInv' /\ FinalInv'
    BY <2>1, <2>2, MailKept, FinalKept DEF Ending, FinalInv
  <2>5. GuestCopyInv'
    BY <2>1, <2>2, GuestCopyVacuous
  <2>6. GuestPageInv' /\ GuestLangInv' /\ SpeechStep
    BY <2>1, GuestUnaware DEF Ending
  <2>7. QED  BY <2>2, <2>3, <2>4, <2>5, <2>6 DEF PartsNext
<1>4. QED  BY <1>1, <1>2, <1>3

(* The language that the host or the guest settles on.                     *)
LEMMA LanguageNext ==
  ASSUME ConvInv, SetForeignLang \/ GuestChoosesLanguage
  PROVE  PartsNext
<1> USE DEF ConvInv
<1>1. /\ UNCHANGED <<said, seg, job, stored, sent, mail, rushed, phase, cast>>
      /\ UNCHANGED <<host, stale, speech>>
  BY DEF SetForeignLang, GuestChoosesLanguage, client
<1>2. ServerInv' /\ Grows
  BY ForeignServer
<1>3. SentInv' /\ HostPageInv' /\ HostCopyInv'
  BY <1>1, <1>2, SentInvNext, HostKept
<1>4. MailInv' /\ FinalInv'
  BY <1>1, <1>2, MailKept, FinalKept DEF Ending, FinalInv
<1>5. /\ GuestPageInv' /\ GuestLangInv'
      /\ guest'.online = guest.online /\ guest'.copy = guest.copy
  <2>1. CASE SetForeignLang
    <3>1. UNCHANGED guest /\ foreign' = Foreign /\ phase = "recording"
      BY <2>1 DEF SetForeignLang, client
    <3>2. QED  BY <1>1, <3>1, GuestUnaware DEF Ending
  <2>2. CASE GuestChoosesLanguage
    BY <2>2, GuestChose
  <2>3. QED  BY <2>1, <2>2
<1>6. GuestCopyInv' /\ SpeechStep
  BY <1>1, <1>2, <1>5, GuestCopyKept, SpeechUnchanged DEF Finalizes
<1>7. QED  BY <1>2, <1>3, <1>4, <1>5, <1>6 DEF PartsNext

(* A page alone.                                                           *)
LEMMA PageNext ==
  ASSUME ConvInv,
         \/ GuestConnects \/ GuestDrops \/ ToggleSpeech
         \/ \E s \in Segs : SpeechFetched(s) \/ SpeechAdvances(s)
                            \/ HostPendingExpires(s) \/ GuestPendingExpires(s)
  PROVE  PartsNext
<1> USE DEF ConvInv
<1>1. UNCHANGED <<said, server>>
  BY DEF GuestConnects, GuestDrops, ToggleSpeech, SpeechFetched, SpeechAdvances,
         HostPendingExpires, GuestPendingExpires
<1>2. UNCHANGED <<said, seg, job, stored, foreign, phase, sent, mail, rushed, cast>>
  BY <1>1 DEF server
<1>3. ServerInv' /\ Grows
  BY <1>1, ServerUnchanged
<1>4. SentInv' /\ MailInv' /\ FinalInv'
  BY <1>2, <1>3, SentInvNext, MailKept, FinalKept DEF Ending, FinalInv
<1>5. host' = host => HostPageInv' /\ HostCopyInv'
  BY <1>2, <1>3, HostKept
<1>6. guest'.copy = guest.copy /\ (guest'.online => guest.online) /\ stale' = stale
        => GuestCopyInv'
  BY <1>2, <1>3, GuestCopyKept DEF Finalizes
<1>7. guest' = guest /\ stale' = stale => GuestPageInv' /\ GuestCopyInv' /\ GuestLangInv'
  BY <1>2, <1>6, GuestUnchanged DEF GuestPageInv, GuestLangInv, Ending
<1>8. speech' = speech => SpeechStep
  BY SpeechUnchanged
<1>9. guest'.lang = guest.lang /\ guest'.failed = guest.failed => GuestLangInv'
  BY <1>2 DEF GuestLangInv, Ending
<1>10. CASE GuestConnects
  <2>1. host' = host
    BY <1>10 DEF GuestConnects
  <2>2. QED  BY <1>3, <1>4, <1>5, <1>10, <2>1, GuestConnectsGuest DEF PartsNext
<1>11. CASE GuestDrops
  <2>1. host' = host /\ speech' = speech /\ stale' = stale
    BY <1>11 DEF GuestDrops
  <2>2. QED  BY <1>3, <1>4, <1>5, <1>6, <1>8, <1>9, <1>11, <2>1, GuestDropped DEF PartsNext
<1>12. CASE ToggleSpeech
  <2>1. host' = host /\ guest' = guest /\ stale' = stale
    BY <1>12 DEF ToggleSpeech, client
  <2>2. QED  BY <1>3, <1>4, <1>5, <1>7, <1>12, <2>1, ToggleSpeechStep DEF PartsNext
<1>13. ASSUME NEW s \in Segs, SpeechFetched(s) \/ SpeechAdvances(s)
       PROVE  PartsNext
  <2>1. host' = host /\ guest' = guest /\ stale' = stale
    BY <1>13 DEF SpeechFetched, SpeechAdvances, client
  <2>2. SpeechStep
    BY <1>13, SpeechAdvancesStep
  <2>3. QED  BY <1>3, <1>4, <1>5, <1>7, <2>1, <2>2 DEF PartsNext
<1>14. ASSUME NEW s \in Segs, HostPendingExpires(s)
       PROVE  PartsNext
  <2>1. guest' = guest /\ speech' = speech /\ stale' = stale
    BY <1>14 DEF HostPendingExpires, client
  <2>2. /\ HostPageInv' /\ host'.copy = host.copy /\ host'.dom = host.dom
        /\ host'.lang = host.lang
    BY <1>14, HostExpires
  <2>3. HostCopyInv'
    BY <1>2, <1>3, <2>2, HostCopyKept
  <2>4. QED  BY <1>3, <1>4, <1>7, <1>8, <2>1, <2>2, <2>3 DEF PartsNext
<1>15. ASSUME NEW s \in Segs, GuestPendingExpires(s)
       PROVE  PartsNext
  <2>1. host' = host /\ speech' = speech /\ stale' = stale
    BY <1>15 DEF GuestPendingExpires
  <2>2. QED  BY <1>3, <1>4, <1>5, <1>6, <1>8, <1>9, <1>15, <2>1, GuestExpires DEF PartsNext
<1>16. QED  BY <1>10, <1>11, <1>12, <1>13, <1>14, <1>15

LEMMA ConvNext ==
  ASSUME ConvInv, Next
  PROVE  ConvInv' /\ SpeechStep
<1>1. PartsNext
  BY AsrNext, ReleaseNext, MtNext, StopNext, LanguageNext, PageNext DEF Next
<1>2. SaidTypes'
  BY <1>1 DEF PartsNext, Grows, said, ConvInv, SaidTypes
<1>3. SpeechInv'
  BY <1>1, SpeechInvNext DEF PartsNext, ConvInv
<1>4. QED  BY <1>1, <1>2, <1>3 DEF PartsNext, ConvInv

LEMMA ConvStutters ==
  ASSUME ConvInv, UNCHANGED vars
  PROVE  ConvInv'
<1>1. UNCHANGED <<guests, heard, seg, job, stored, foreign, phase, sent, mail, rushed, cast,
                  host, guest, stale, speech>>
  BY DEF vars, said, server, client
<1>2. UNCHANGED said /\ UNCHANGED server
  BY <1>1 DEF said, server
<1>3. ServerInv' /\ Grows
  BY <1>2, ServerUnchanged DEF ConvInv
<1>4. SentInv' /\ HostPageInv' /\ HostCopyInv'
  BY <1>1, <1>2, <1>3, SentInvNext, HostKept DEF ConvInv
<1>5. MailInv' /\ FinalInv'
  BY <1>1, <1>2, <1>3, MailKept, FinalKept DEF ConvInv, Ending, FinalInv
<1>6. GuestCopyInv' /\ GuestPageInv' /\ GuestLangInv' /\ SpeechStep
  <2>1. GuestCopyInv'
    BY <1>1, <1>3, GuestCopyKept DEF ConvInv, Finalizes
  <2>2. QED  BY <1>1, <1>2, <2>1, GuestUnaware DEF ConvInv, Ending
<1>7. SpeechInv' /\ SaidTypes'
  BY <1>1, <1>3, <1>6, SpeechInvNext DEF ConvInv, SaidTypes
<1>8. QED  BY <1>3, <1>4, <1>5, <1>6, <1>7 DEF ConvInv
-----------------------------------------------------------------------------
(* The results. *)

(* The pages' copies, bubbles and speech are what the server's segments    *)
(* and translations allow, and so are the snapshots on their way, for any  *)
(* number of segments.                                                     *)
THEOREM ConvInvariant == Spec => []ConvInv
<1>1. Init => ConvInv
  BY ConvInit
<1>2. ConvInv /\ [Next]_vars => ConvInv'
  BY ConvNext, ConvStutters
<1>3. QED  BY <1>1, <1>2, PTL DEF Spec

LEMMA TypesHold ==
  ASSUME ConvInv
  PROVE  TypeOK
<1>1. guests \subseteq Segs \ SaidByHost /\ heard \in [Segs -> {"de", Foreign}]
  BY DEF ConvInv, SaidTypes
<1>2. /\ seg \in [Segs -> {"absent", "live", "final"}] /\ job \in [Segs -> Jobs]
      /\ stored \subseteq Segs /\ foreign \in {Foreign, None}
      /\ phase \in {"recording", "stopping", "closing", "ended"}
      /\ sent \in Snapshot /\ mail \in MailSet /\ rushed \in BOOLEAN
      /\ cast \in Segs \cup {None}
  BY DEF ConvInv, ServerInv, ServerTypes, LangOrNone
<1>3. host \in HostSet /\ guest \in GuestSet /\ speech \in SpeechSet /\ stale \in BOOLEAN
  BY DEF ConvInv, HostPageInv, GuestPageInv, SpeechInv, SpeechOK
<1>4. QED  BY <1>1, <1>2, <1>3
           DEF TypeOK, HostSet, GuestSet, SpeechSet, SpeechState, MailSet, Dom

(* Every bubble of both pages shows what its page knows: those of the      *)
(* host's that are changed in place (handleTranslation,                    *)
(* markTranslationFailed) are those that renderSegments would make, and    *)
(* "translation in progress" stands where nothing is shown yet.            *)
THEOREM BubblesHold == Spec => []BubblesOK
<1>1. ConvInv => BubblesOK
  <2>1. ConvInv => BubblesMatchCopy /\ PendingIsWaiting
    BY DEF ConvInv, HostPageInv, GuestPageInv, PendingIsWaiting
  <2>2. QED  BY <2>1, TypesHold DEF BubblesOK
<1>2. QED  BY <1>1, ConvInvariant, PTL

(* Equal fields make equal records of a copy.                              *)
LEMMA SameView ==
  ASSUME NEW a \in SegView, NEW b \in SegView, a.state = b.state, a.lang = b.lang,
         a.trans <=> b.trans
  PROVE  a = b
<1>1. a.trans = b.trans
  <2>1. a.trans \in BOOLEAN /\ b.trans \in BOOLEAN
    BY DEF SegView
  <2>2. QED  BY <2>1
<1>2. QED  BY <1>1 DEF SegView

LEMMA SameCopy ==
  ASSUME NEW a \in Snapshot, NEW b \in Snapshot,
         \A s \in Segs : /\ a[s].state = b[s].state /\ a[s].lang = b[s].lang
                         /\ a[s].trans <=> b[s].trans
  PROVE  a = b
<1>1. a \in [Segs -> SegView] /\ b \in [Segs -> SegView]
  BY DEF Snapshot, SegView
<1>2. \A s \in Segs : a[s] \in SegView /\ b[s] \in SegView
  BY <1>1
<1>3. \A s \in Segs : a[s] = b[s]
  BY <1>2, SameView
<1>4. QED  BY <1>1, <1>3

LEMMA AgreeFollows ==
  ASSUME ConvInv
  PROVE  PagesAgree
<1>1. /\ Serialized \in Snapshot /\ host.copy \in Snapshot /\ guest.copy \in Snapshot
      /\ \A s \in Segs : Shows(Serialized[s], seg[s], s)
  BY SerializedTrue DEF ConvInv, HostPageInv, HostSet, GuestPageInv, GuestSet
<1>2. \A s \in Segs : s \in stored => seg[s] = "final" /\ Serialized[s].trans
  BY <1>1 DEF ConvInv, ServerInv, Shows
<1>3. \A s \in Segs : /\ host.copy[s].trans => s \in stored
                      /\ guest.copy[s].trans => s \in stored
  BY DEF ConvInv, HostCopyInv, GuestCopyInv, True
<1>4. ASSUME Quiet
      PROVE  host.copy = Serialized
  <2>1. Serialized = sent /\ phase = "recording"
    BY <1>4 DEF Quiet
  <2>2. \A s \in Segs : seg[s] = "final" => sent[s].state = "final"
    BY <1>1, <2>1 DEF Shows
  <2>3. \A s \in Segs : /\ host.copy[s].state = sent[s].state
                        /\ host.copy[s].lang = sent[s].lang
                        /\ sent[s].trans => host.copy[s].trans
    BY <2>1, <2>2 DEF ConvInv, HostCopyInv
  <2>4. QED  BY <1>1, <1>2, <1>3, <2>1, <2>3, SameCopy
<1>5. ASSUME phase = "ended", NEW s \in Segs
      PROVE  host.copy[s].state = seg[s] /\ (host.copy[s].trans = (s \in stored) \/ rushed)
  <2>1. host.copy[s].state = seg[s] /\ (~rushed /\ s \in stored => host.copy[s].trans)
    BY <1>5 DEF ConvInv, HostCopyInv
  <2>2. host.copy[s].trans \in BOOLEAN
    BY HostFields DEF ConvInv, SegView
  <2>3. QED  BY <1>3, <2>1, <2>2
<1>6. ASSUME Quiet, guest.online, ~stale
      PROVE  guest.copy = Serialized
  <2>1. Serialized = sent /\ phase = "recording" /\ mail.tick = {}
    BY <1>6 DEF Quiet
  <2>2. \A s \in Segs : /\ guest.copy[s].state = sent[s].state
                        /\ guest.copy[s].lang = sent[s].lang
                        /\ sent[s].trans => guest.copy[s].trans
    BY <1>6, <2>1 DEF ConvInv, GuestCopyInv
  <2>3. QED  BY <1>1, <1>2, <1>3, <2>1, <2>2, SameCopy
<1>7. ASSUME phase = "closing", Drained, guest.online, ~stale, NEW s \in Segs
      PROVE  guest.copy[s].state = seg[s] /\ guest.copy[s].trans = (s \in stored)
  <2>1. cast = None
    BY <1>7 DEF Drained, MtIdle
  <2>2. /\ guest.copy[s].state = seg[s]
        /\ s \in stored /\ s # cast => guest.copy[s].trans
    BY <1>7 DEF ConvInv, GuestCopyInv
  <2>3. guest.copy[s].trans <=> s \in stored
    BY <1>3, <2>1, <2>2, ConvFacts
  <2>4. guest.copy[s].trans \in BOOLEAN
    BY GuestFields DEF ConvInv, SegView
  <2>5. QED  BY <2>2, <2>3, <2>4
<1>8. QED  BY <1>4, <1>5, <1>6, <1>7 DEF PagesAgree

(* Three tasks send, a snapshot of one may overtake a translation of       *)
(* another, and the stop's last one (handler.py:349-367) is made before    *)
(* the await after which the host gets it.  All the same, while nothing is *)
(* under way the host has what the server has, and so has a guest that was *)
(* not sent an overtaken snapshot of a release; the guest has the last     *)
(* translations before the recording ends; and the host's page ends with   *)
(* every segment, and with every translation of a stop that waited.        *)
THEOREM PagesAgreeHolds == Spec => []PagesAgree
BY AgreeFollows, ConvInvariant, PTL

LEMMA ProtocolFollows ==
  ASSUME ConvInv
  PROVE  ProtocolFaithful
<1> SUFFICES ASSUME phase = "ended", \A m \in mail.final : m.lang # None,
                    NEW s \in Segs, seg[s] # "absent"
             PROVE  /\ host.copy[s].state = "final"
                    /\ Row(s).speaker = (IF s \in HostSegs THEN "Host" ELSE "Gast")
                    /\ Row(s).german = host.dom[s].german
  BY DEF ProtocolFaithful
<1>1. /\ host.copy[s].state = seg[s] /\ host.dom[s] = Bubbles(s, host.copy[s], host.lang)
      /\ s \in HostSegs => host.copy[s].lang = "de"
      /\ s \notin HostSegs => host.copy[s].lang = Foreign
  BY DEF ConvInv, HostCopyInv
<1>2. seg[s] = "final"
  BY DEF ConvInv, ServerInv, ServerTypes
<1>3. host.dom[s].german = IF s \in HostSegs THEN "src"
                           ELSE IF host.copy[s].trans THEN "trans" ELSE "dots"
  BY <1>1, ConvFacts DEF Bubbles
<1>4. CASE s \in HostSegs
  BY <1>1, <1>2, <1>3, <1>4 DEF Row
<1>5. CASE s \notin HostSegs
  BY <1>1, <1>2, <1>3, <1>5, ConvFacts DEF Row
<1>6. QED  BY <1>4, <1>5

(* The protocol that the host may download at the end (buildHtml) has      *)
(* every segment, under who spoke, with the German text of the page.       *)
THEOREM ProtocolHolds == Spec => []ProtocolFaithful
BY ProtocolFollows, ConvInvariant, PTL
-----------------------------------------------------------------------------
(* A segment's way to the translator. *)

stage == [s \in Segs |-> Stage(s)]

\* What a step does to a segment and to the recording.
Moves(s) ==
  \/ /\ seg'[s] = seg[s] /\ job'[s] = job[s]
     /\ phase # "recording" => phase' # "recording"
  \/ /\ phase' = phase /\ job'[s] = job[s]
     /\ <<seg[s], seg'[s]>> \in {<<"absent", "live">>, <<"live", "final">>}
  \/ /\ phase = "recording" /\ seg[s] = "final" /\ job[s] = "none"
     /\ phase' = "recording" /\ seg'[s] = "final" /\ job'[s] = "queued"
  \/ seg[s] = "live" /\ seg'[s] = "final" /\ job'[s] = "queued"
  \/ /\ seg[s] = "final" /\ job[s] = "queued"
     /\ seg'[s] = "final" /\ job'[s] \in {"skipped", "translating"}
  \/ /\ seg[s] = "final" /\ job[s] = "translating"
     /\ seg'[s] = "final" /\ job'[s] \in {"translated", "failed"}

LEMMA SegmentMoves ==
  ASSUME ServerInv, Next, NEW s \in Segs
  PROVE  Moves(s)
<1>1. /\ seg \in [Segs -> {"absent", "live", "final"}] /\ job \in [Segs -> Jobs]
      /\ \A t \in Segs : job[t] # "none" => seg[t] = "final"
  BY DEF ServerInv, ServerTypes
<1>2. CASE AsrTick
  <2>1. phase' = phase /\ job' = job /\ Recognized
    BY <1>2 DEF AsrTick
  <2>2. \/ seg'[s] = seg[s]
        \/ <<seg[s], seg'[s]>> \in {<<"absent", "live">>, <<"live", "final">>}
    BY <1>1, <2>1 DEF Recognized
  <2>3. QED  BY <2>1, <2>2 DEF Moves
<1>3. CASE AsrTickEnds
  BY <1>1, <1>3 DEF AsrTickEnds, Moves
<1>4. CASE StopRequested \/ Released
  <2>1. /\ phase' = "stopping" \/ phase' = phase
        /\ seg'[s] = IF seg[s] = "live" THEN "final" ELSE seg[s]
        /\ job'[s] = IF seg[s] = "live" THEN "queued" ELSE job[s]
    BY <1>4 DEF StopRequested, Released
  <2>2. QED  BY <2>1 DEF Moves
<1>5. ASSUME NEW t \in Segs, MtTakes(t)  PROVE Moves(s)
  <2>1. /\ phase' = phase /\ seg' = seg /\ job[t] = "queued"
        /\ job' = [job EXCEPT ![t] = IF foreign = None THEN "skipped" ELSE "translating"]
    BY <1>5 DEF MtTakes
  <2>2. QED  BY <1>1, <2>1 DEF Moves
<1>6. ASSUME NEW t \in Segs, MtResult(t)  PROVE Moves(s)
  <2>1. /\ phase' = phase /\ seg' = seg /\ job[t] = "translating"
        /\ \/ job' = [job EXCEPT ![t] = "translated"]
           \/ job' = [job EXCEPT ![t] = "failed"]
    BY <1>6 DEF MtResult
  <2>2. QED  BY <1>1, <2>1 DEF Moves
<1>7. CASE FinalSnapshot \/ Closed
  BY <1>7 DEF FinalSnapshot, Closed, Moves
<1>8. CASE \/ SetForeignLang \/ MtSent \/ GuestConnects \/ GuestDrops \/ GuestChoosesLanguage
           \/ ToggleSpeech \/ \E m \in mail.release : ReleaseSent(m)
           \/ \E t \in Segs : \/ SpeechFetched(t) \/ SpeechAdvances(t)
                              \/ HostPendingExpires(t) \/ GuestPendingExpires(t)
  <2>1. UNCHANGED <<seg, job, phase>>
    BY <1>8 DEF SetForeignLang, MtSent, GuestConnects, GuestDrops, GuestChoosesLanguage,
       ReleaseSent, ToggleSpeech, SpeechFetched, SpeechAdvances, HostPendingExpires, GuestPendingExpires, server
  <2>2. QED  BY <2>1 DEF Moves
<1>9. QED  BY <1>2, <1>3, <1>4, <1>5, <1>6, <1>7, <1>8 DEF Next

LEMMA SegmentFollows ==
  ASSUME ServerInv, NEW s \in Segs, Moves(s)
  PROVE  Stage(s)' = Stage(s) \/ Stage(s)' \in Lifecycle!Follows(Stage(s))
<1>1. /\ seg[s] \in {"absent", "live", "final"} /\ job[s] \in Jobs
      /\ job[s] # "none" => seg[s] = "final"
      /\ seg[s] = "live" => phase = "recording"
  BY DEF ServerInv, ServerTypes
<1>2. CASE /\ seg'[s] = seg[s] /\ job'[s] = job[s]
           /\ phase # "recording" => phase' # "recording"
  BY <1>1, <1>2 DEF Stage, Lifecycle!Follows
<1>3. CASE /\ phase' = phase /\ job'[s] = job[s]
           /\ <<seg[s], seg'[s]>> \in {<<"absent", "live">>, <<"live", "final">>}
  BY <1>1, <1>3 DEF Stage, Lifecycle!Follows
<1>4. CASE /\ phase = "recording" /\ seg[s] = "final" /\ job[s] = "none"
           /\ phase' = "recording" /\ seg'[s] = "final" /\ job'[s] = "queued"
  BY <1>4 DEF Stage, Lifecycle!Follows
<1>5. CASE seg[s] = "live" /\ seg'[s] = "final" /\ job'[s] = "queued"
  BY <1>5 DEF Stage, Lifecycle!Follows
<1>6. CASE /\ seg[s] = "final" /\ job[s] = "queued"
           /\ seg'[s] = "final" /\ job'[s] \in {"skipped", "translating"}
  BY <1>6 DEF Stage, Lifecycle!Follows
<1>7. CASE /\ seg[s] = "final" /\ job[s] = "translating"
           /\ seg'[s] = "final" /\ job'[s] \in {"translated", "failed"}
  BY <1>7 DEF Stage, Lifecycle!Follows
<1>8. QED  BY <1>2, <1>3, <1>4, <1>5, <1>6, <1>7 DEF Moves

(* Seen from the two pages, too, a segment is queued at most once and      *)
(* translated at most once, and what the stop leaves unqueued never is:    *)
(* the recording implements the life cycle of its segments.                *)
THEOREM ConversationImplementsLifecycle == Spec => Lifecycle!Spec
<1>1. Init => Lifecycle!Init
  BY DEF Init, Stage, Lifecycle!Init
<1>2. ConvInv /\ [Next]_vars => [Lifecycle!Next]_stage
  <2>1. ASSUME ConvInv, Next  PROVE Lifecycle!Next
    <3>1. \A s \in Segs : Stage(s)' = Stage(s) \/ Stage(s)' \in Lifecycle!Follows(Stage(s))
      BY <2>1, SegmentMoves, SegmentFollows DEF ConvInv
    <3>2. \A s \in Segs : Stage(s)' \in Lifecycle!Stages
      BY DEF Stage, Lifecycle!Stages
    <3>3. QED  BY <3>1, <3>2 DEF Lifecycle!Next
  <2>2. ConvInv /\ UNCHANGED vars => UNCHANGED stage
    BY DEF vars, server, stage, Stage
  <2>3. QED  BY <2>1, <2>2
<1>3. QED  BY <1>1, <1>2, ConvInvariant, PTL DEF Spec, Lifecycle!Spec, stage

(* What the guest hears: one text at a time, only final translated ones of *)
(* the host, and none twice.                                               *)
LEMMA SpokenHolds == Spec => []SpokenOneByOne /\ SpokenOnce
<1>1. ConvInv => SpokenOneByOne
  <2> SUFFICES ASSUME ConvInv  PROVE SpokenOneByOne
    OBVIOUS
  <2>1. \A s, t \in Segs : {speech.at[s], speech.at[t]} \subseteq {"fetching", "playing"} => s = t
    BY DEF ConvInv, SpeechInv, SpeechOK
  <2>2. \A s \in Segs : speech.at[s] # "none" => s \in HostSegs \cap stored /\ seg[s] = "final"
    BY DEF ConvInv, SpeechInv, ServerInv
  <2>3. QED  BY <2>1, <2>2 DEF SpokenOneByOne
<1>2. ConvInv /\ [Next]_vars =>
        [\A s \in Segs : speech.at[s] \in {"over", "dropped"} => speech'.at[s] = speech.at[s]]_vars
  BY ConvNext DEF SpeechStep
<1>3. QED  BY <1>1, <1>2, ConvInvariant, PTL DEF Spec, SpokenOnce

(* Every text goes its way once: queued, translated and read at most once, *)
(* and no two are read at a time.                                          *)
THEOREM OnceAndInTurnHolds == Spec => OnceAndInTurn
BY SpokenHolds, ConversationImplementsLifecycle DEF OnceAndInTurn
=============================================================================
