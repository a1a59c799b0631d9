--------------------------- MODULE TranscriptConsent ---------------------------
(***************************************************************************)
(* The consent to the transcript: the host's switch (static/js/host.js),   *)
(* the flags of the registry entry (streaming/handler.py, viewer.py) and   *)
(* the banner of the guests' pages (static/js/viewer.js), with the         *)
(* messages between them.  A host page keeps its token for its recordings; *)
(* the entry ends with a recording, and a guest that connects in between   *)
(* has a new one made.  Recordings do not overlap here.                    *)
(*                                                                         *)
(* Every request of the host has a number, which the program does not      *)
(* have: 0 stands for "off" in messages and flags, any other for "on".     *)
(***************************************************************************)
EXTENDS Integers, Sequences, SequencesExt

CONSTANTS
  Guests,
  MaxRequests,     \* bound: requests of the host
  MaxRecordings,   \* bound: recordings
  MaxWaiting,      \* bound: messages to the host when an answer is handled
  None

ConsentAssumption == MaxRequests \in Nat /\ MaxRecordings \in Nat /\ MaxWaiting \in Nat

VARIABLES
  host,      \* the page: state, toggle, consented (viewerConsentedTranscript)
  request,   \* number of the last request
  recs,      \* recordings started
  up, down,  \* the host's socket
  entry,     \* of the registry: active, requested, consent, viewers; or None
  guest,     \* the pages: online, asked, decision, ended
  in, out,   \* their sockets
  yes        \* the requests some guest has said yes to

pages == <<guest, in, out, yes>>
vars == <<host, request, recs, up, down, entry, pages>>

Requests == 0..MaxRequests
FreshPage == [online |-> FALSE, asked |-> 0, decision |-> "pending", ended |-> FALSE]
FreshEntry == [active |-> FALSE, requested |-> 0, consent |-> FALSE, viewers |-> {}]

TypeOK ==
  /\ host \in [state : {"idle", "starting", "on"}, toggle : BOOLEAN, consented : BOOLEAN]
  /\ request \in Requests /\ recs \in 0..MaxRecordings
  /\ up \in Seq(Requests)
  /\ down \in Seq({"ack", "yes", "no", "bye"})
  /\ entry \in {None} \cup [active : BOOLEAN, requested : Requests, consent : BOOLEAN,
                            viewers : SUBSET Guests]
  /\ guest \in [Guests -> [online : BOOLEAN, asked : Requests, ended : BOOLEAN,
                           decision : {"pending", "yes", "no"}]]
  /\ \A g \in Guests : in[g] \in Seq(Requests \cup {-1}) /\ out[g] \in Seq(BOOLEAN)
  /\ yes \subseteq Requests \ {0}

Init ==
  /\ host = [state |-> "idle", toggle |-> FALSE, consented |-> FALSE]
  /\ request = 0 /\ recs = 0 /\ up = <<>> /\ down = <<>>
  /\ entry = None
  /\ guest = [g \in Guests |-> FreshPage]
  /\ in = [g \in Guests |-> <<>>] /\ out = in
  /\ yes = {}

Active == entry # None /\ entry.active

\* broadcast_to_viewers; -1 is session_ended.
ToViewers(m) == in' = [g \in Guests |-> IF g \in entry.viewers THEN Append(in[g], m) ELSE in[g]]
----------------------------------------------------------------------------
(* The host's page. *)

\* startRecording; the config reaches the server before anything else.
HostStarts ==
  /\ host.state = "idle" /\ recs < MaxRecordings /\ ~Active
  /\ host.toggle => request < MaxRequests
  /\ host' = [host EXCEPT !.state = "starting", !.consented = FALSE]
  /\ request' = IF host.toggle THEN request + 1 ELSE request
  /\ recs' = recs + 1
  /\ UNCHANGED <<up, down, entry, pages>>

\* The switch: the server is told while the socket is open.
Sends(m) == up' = IF Active \/ host.state = "starting" THEN Append(up, m) ELSE up
ToggleOn ==
  /\ ~host.toggle /\ request < MaxRequests
  /\ host' = [host EXCEPT !.toggle = TRUE]
  /\ request' = request + 1
  /\ IF host.state = "idle" THEN UNCHANGED up ELSE Sends(request + 1)
  /\ UNCHANGED <<recs, down, entry, pages>>
ToggleOff ==
  /\ host.toggle
  /\ host' = [host EXCEPT !.toggle = FALSE, !.consented = FALSE]
  /\ IF host.state = "idle" THEN UNCHANGED up ELSE Sends(0)
  /\ UNCHANGED <<request, recs, down, entry, pages>>

\* config_ack, transcript_consent, and the end of the socket, which takes
\* what was still sent with it.
HostReceives ==
  /\ down # <<>>
  /\ down' = Tail(down)
  /\ host' = CASE Head(down) = "ack" -> [host EXCEPT !.state = "on"]
               [] Head(down) = "bye" -> [host EXCEPT !.state = "idle"]
               [] OTHER -> [host EXCEPT !.consented = Head(down) = "yes"]
  /\ CASE Head(down) = "ack" /\ host.toggle -> Sends(request)
       [] Head(down) = "bye" -> up' = <<>>
       [] OTHER -> UNCHANGED up
  /\ UNCHANGED <<request, recs, entry, pages>>
----------------------------------------------------------------------------
(* The server. *)

HandleConfig ==
  /\ host.state = "starting" /\ ~Active /\ down = <<>>
  /\ entry' = [(IF entry = None THEN FreshEntry ELSE entry) EXCEPT !.active = TRUE]
  /\ down' = down \o (IF entry'.consent THEN <<"ack", "yes">> ELSE <<"ack">>)
  /\ UNCHANGED <<host, request, recs, up, pages>>

\* _handle_host_transcript_requested.
HandleRequested ==
  /\ up # <<>> /\ Active
  /\ up' = Tail(up)
  /\ entry' = [entry EXCEPT !.requested = Head(up), !.consent = @ /\ Head(up) # 0]
  /\ ToViewers(Head(up))
  /\ UNCHANGED <<host, request, recs, down, guest, out, yes>>

\* _handle_transcript_consent: a "no" takes nothing back, and the host is
\* told what holds.
HandleConsent(g) ==
  /\ out[g] # <<>> /\ Len(down) < MaxWaiting
  /\ out' = [out EXCEPT ![g] = Tail(@)]
  /\ entry' = IF entry # None /\ Head(out[g]) THEN [entry EXCEPT !.consent = TRUE] ELSE entry
  /\ down' = IF Active THEN Append(down, IF entry'.consent THEN "yes" ELSE "no") ELSE down
  /\ UNCHANGED <<host, request, recs, up, guest, in, yes>>

\* The recording ends, for whatever reason; the entry goes.
RecordingEnds ==
  /\ Active
  /\ entry' = None /\ up' = <<>>
  /\ down' = Append(down, "bye")
  /\ ToViewers(-1)
  /\ UNCHANGED <<host, request, recs, guest, out, yes>>
----------------------------------------------------------------------------
(* The guests' pages. *)

\* Mutant: a guest that comes late is not told of the request.
GuestConnectsUntold(g) ==
  /\ ~guest[g].online /\ ~guest[g].ended
  /\ guest' = [guest EXCEPT ![g].online = TRUE]
  /\ entry' = [(IF entry = None THEN FreshEntry ELSE entry) EXCEPT !.viewers = @ \cup {g}]
  /\ UNCHANGED <<host, request, recs, up, down, in, out, yes>>

\* _register_viewer and _send_init.
GuestConnects(g) ==
  /\ ~guest[g].online /\ ~guest[g].ended
  /\ guest' = [guest EXCEPT ![g].online = TRUE]
  /\ entry' = [(IF entry = None THEN FreshEntry ELSE entry) EXCEPT !.viewers = @ \cup {g}]
  /\ in' = [in EXCEPT ![g] = IF entry'.requested # 0 THEN <<entry'.requested>> ELSE <<>>]
  /\ UNCHANGED <<host, request, recs, up, down, out, yes>>

\* The connection is lost, with what is on its way, or the page is loaded anew.
GuestDrops(g) ==
  /\ guest[g].online
  /\ guest' = [guest EXCEPT ![g].online = FALSE] \/ guest' = [guest EXCEPT ![g] = FreshPage]
  /\ in' = [in EXCEPT ![g] = <<>>] /\ out' = [out EXCEPT ![g] = <<>>]
  /\ entry' = IF entry = None THEN None ELSE [entry EXCEPT !.viewers = @ \ {g}]
  /\ UNCHANGED <<host, request, recs, up, down, yes>>

\* showSessionEnded.
Ended(shown) == [shown EXCEPT !.asked = 0, !.ended = TRUE]

\* handleHostTranscriptRequested, or showSessionEnded.
GuestReceives(g) ==
  /\ in[g] # <<>>
  /\ in' = [in EXCEPT ![g] = Tail(@)]
  /\ LET r == Head(in[g])
     IN guest' = [guest EXCEPT ![g] =
          IF r = -1 THEN Ended(guest[g])
          ELSE [guest[g] EXCEPT !.asked = r,
                                !.decision = IF (r # 0) = (guest[g].asked # 0)
                                             THEN guest[g].decision ELSE "pending"]]
  /\ UNCHANGED <<host, request, recs, up, down, entry, out, yes>>

\* The banner is there.
Asked(g) == guest[g].asked # 0 /\ guest[g].decision = "pending"

\* The buttons of the banner; without a connection the answer is not sent.
GuestAnswers(g, b) ==
  /\ Asked(g)
  /\ guest' = [guest EXCEPT ![g].decision = IF b THEN "yes" ELSE "no"]
  /\ out' = IF guest[g].online THEN [out EXCEPT ![g] = Append(@, b)] ELSE out
  /\ yes' = IF b THEN yes \cup {guest[g].asked} ELSE yes
  /\ UNCHANGED <<host, request, recs, up, down, entry, in>>
----------------------------------------------------------------------------
Delivered(g) == GuestReceives(g) \/ HandleConsent(g)

Next ==
  \/ HostStarts \/ ToggleOn \/ ToggleOff \/ HostReceives
  \/ HandleConfig \/ HandleRequested \/ RecordingEnds
  \/ \E g \in Guests : GuestConnects(g) \/ GuestDrops(g) \/ Delivered(g)
  \/ \E g \in Guests, b \in BOOLEAN : GuestAnswers(g, b)

Spec == Init /\ [][Next]_vars
----------------------------------------------------------------------------
AtRest == host.state = "on" /\ Active /\ up = <<>> /\ down = <<>>

\* No consent comes from anywhere but a guest's yes.
ConsentIsGiven ==
  host.consented \/ "yes" \in ToSet(down) \/ (entry # None /\ entry.consent) => yes # {}

\* A consent that the server has is known to the host, whether it came
\* before the recording, during it, or while the switch was being changed.
ConsentKnown == AtRest /\ entry.consent => host.consented

\* Every guest listed is asked while the host's switch is on, whether it was
\* set before the recording, before the guest came, or later.
GuestsAreAsked ==
  AtRest /\ host.toggle =>
    \A g \in entry.viewers : in[g] = <<>> => guest[g].asked # 0

\* "Re-toggle later must re-prompt the viewer explicitly" (host.js:433): what
\* the host holds is a yes to the request that it has made last.
ConsentIsCurrent == host.toggle /\ host.consented => request \in yes

\* A consent is a guest's, and both sides know of question and answer.
ConsentOK == TypeOK /\ ConsentIsGiven /\ ConsentKnown /\ GuestsAreAsked
=============================================================================
