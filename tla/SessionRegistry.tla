--------------------------- MODULE SessionRegistry ---------------------------
(***************************************************************************)
(* The registry entry of one token (session_registry.py), as the host      *)
(* handlers (streaming/handler.py), the viewer endpoint                    *)
(* (streaming/viewer.py) and the broadcasts (streaming/broadcast.py) use   *)
(* it.  A host page keeps its token, so every recording it starts is a new *)
(* handler on the same token; a viewer is one socket, a page that connects *)
(* again is another one.                                                   *)
(*                                                                         *)
(* A broadcast goes through the viewers of an entry and is suspended at    *)
(* every send; whatever runs in between may change the set it iterates     *)
(* over.  Registry calls hold the lock without suspending: they are atomic.*)
(***************************************************************************)
EXTENDS Integers, FiniteSets

CONSTANTS
  Handlers, Viewers, None,
  EntryIds,             \* identities of SessionEntry objects
  Overlap               \* a recording may start while one is still busy

ASSUME RegistryAssumption ==
  /\ None \notin Handlers \cup EntryIds
  /\ IsFiniteSet(Viewers)
  /\ Overlap \in BOOLEAN

VARIABLES
  sessions,    \* the entry the token maps to, or None
  entries,     \* the SessionEntry objects
  host,        \* where the message loop of each handler is
  latest,      \* the handler activated last
  cast,        \* the broadcasts under way: of the message loop and of a task
  viewer,      \* the sockets: "new", "online", "dropped", "gone"
  status       \* what the viewer's page says

vars == <<sessions, entries, host, latest, cast, viewer, status>>

Kinds == {"loop", "task"}
EmptyEntry == [session |-> None, main_ws |-> None, viewers |-> {}]
Entry == [session : Handlers \cup {None}, main_ws : Handlers \cup {None}, viewers : SUBSET Viewers]
Cast == [entry : EntryIds, msg : {"active", "note", "update", "final", "ended"},
         all : SUBSET Viewers, seen : SUBSET Viewers]

\* Entries nobody refers to any more.
Unused ==
  {e \in EntryIds : e # sessions
                    /\ \A h \in Handlers, k \in Kinds :
                         cast[h][k] # None => cast[h][k].entry # e}

Alive(h) == host[h] \notin {"off", "ended", "leaked"}

\* The handler, or a broadcast of one of its tasks, is still under way.
Busy(h) == Alive(h) \/ cast[h]["task"] # None
----------------------------------------------------------------------------
(* broadcast_to_viewers. *)

\* What one message does to the page of the viewers in V.
Receive(V, msg) ==
  LET W == {v \in V : viewer[v] = "online"}
  IN status' = [v \in Viewers |->
       IF v \in W /\ msg = "active" THEN "live"
       ELSE IF v \in W /\ msg = "ended" THEN "ended" ELSE status[v]]

HasViewers == sessions # None /\ entries[sessions].viewers # {}

\* The broadcast looks the entry up and sends to a first viewer.
CastStarts(h, k, msg) ==
  \E v \in entries[sessions].viewers :
    /\ cast' = [cast EXCEPT ![h][k] =
         [entry |-> sessions, msg |-> msg, all |-> entries[sessions].viewers, seen |-> {v}]]
    /\ Receive({v}, msg)

\* The set changed its size during the iteration.
Changed(c) == Cardinality(entries[c.entry].viewers) # Cardinality(c.all)

Unseen(c) == entries[c.entry].viewers \ c.seen

CastGoesOn(h, k) ==
  /\ cast[h][k] # None
  /\ ~Changed(cast[h][k])
  /\ \E v \in Unseen(cast[h][k]) :
       /\ cast' = [cast EXCEPT ![h][k].seen = @ \cup {v}]
       /\ Receive({v}, cast[h][k].msg)
  /\ UNCHANGED <<sessions, entries, host, latest, viewer>>

\* The viewers of the snapshot have been sent to; dead ones leave the entry.
CastCompletes(h, k) ==
  /\ cast[h][k] # None
  /\ ~Changed(cast[h][k])
  /\ Unseen(cast[h][k]) \cap cast[h][k].all = {}
  /\ entries' = [entries EXCEPT ![cast[h][k].entry].viewers =
                   {v \in @ : v \in cast[h][k].seen => viewer[v] = "online"}]

CastRaises(h, k) ==
  /\ cast[h][k] # None
  /\ Changed(cast[h][k])
----------------------------------------------------------------------------
(* The host handler. *)

\* Mutants: an entry that exists is given the session, or the host's
\* socket, but not both.
HandleConfigPartly(h, Kept(_)) ==
  /\ host[h] = "off"
  /\ Overlap \/ \A g \in Handlers : ~Busy(g)
  /\ latest' = h
  /\ host' = [host EXCEPT ![h] = "acking"]
  /\ \E e \in IF sessions = None THEN Unused ELSE {sessions} :
       LET old == IF sessions = None THEN [EmptyEntry EXCEPT !.session = h, !.main_ws = h]
                                     ELSE entries[e]
       IN sessions' = e /\ entries' = [entries EXCEPT ![e] = Kept(old)]
  /\ UNCHANGED <<cast, viewer, status>>
HandleConfigKeepsHost(h) ==
  LET Kept(entry) == [entry EXCEPT !.session = h] IN HandleConfigPartly(h, Kept)
HandleConfigKeepsSession(h) ==
  LET Kept(entry) == [entry EXCEPT !.main_ws = h] IN HandleConfigPartly(h, Kept)

\* config: registry.activate, then config_ack goes out.
HandleConfig(h) ==
  /\ host[h] = "off"
  /\ Overlap \/ \A g \in Handlers : ~Busy(g)
  /\ latest' = h
  /\ host' = [host EXCEPT ![h] = "acking"]
  /\ IF sessions = None
     THEN \E e \in Unused :
            /\ sessions' = e
            /\ entries' = [entries EXCEPT ![e] = [EmptyEntry EXCEPT !.session = h, !.main_ws = h]]
     ELSE /\ entries' = [entries EXCEPT ![sessions].session = h, ![sessions].main_ws = h]
          /\ UNCHANGED sessions
  /\ UNCHANGED <<cast, viewer, status>>

\* Mutant: only viewers that connect later learn of the session.
ConfigAckedQuietly(h) ==
  /\ host[h] = "acking"
  /\ host' = [host EXCEPT ![h] = "recording"]
  /\ UNCHANGED <<sessions, entries, latest, cast, viewer, status>>

\* The viewers of the entry are told of the session.
ConfigAcked(h) ==
  /\ host[h] = "acking"
  /\ IF HasViewers
     THEN CastStarts(h, "loop", "active") /\ host' = [host EXCEPT ![h] = "announcing"]
     ELSE host' = [host EXCEPT ![h] = "recording"] /\ UNCHANGED <<cast, status>>
  /\ UNCHANGED <<sessions, entries, latest, viewer>>

\* The ASR or the MT task has something for the viewers.
TaskBroadcasts(h) ==
  /\ Alive(h)
  /\ cast[h]["task"] = None
  /\ HasViewers
  /\ CastStarts(h, "task", "update")
  /\ UNCHANGED <<sessions, entries, host, latest, viewer>>

\* The tasks catch and log what a broadcast raises.
TaskBroadcastEnds(h) ==
  /\ \/ CastCompletes(h, "task")
     \/ CastRaises(h, "task") /\ UNCHANGED entries
  /\ cast' = [cast EXCEPT ![h]["task"] = None]
  /\ UNCHANGED <<sessions, host, latest, viewer, status>>

\* ptt_mode, speaking_state, host_transcript_requested.
RelayToViewers(h) ==
  /\ host[h] = "recording"
  /\ HasViewers
  /\ CastStarts(h, "loop", "note")
  /\ host' = [host EXCEPT ![h] = "relaying"]
  /\ UNCHANGED <<sessions, entries, latest, viewer>>

\* request_summary, and the drain of the translation queue.
RequestSummary(h) ==
  /\ host[h] = "recording"
  /\ host' = [host EXCEPT ![h] = "draining"]
  /\ UNCHANGED <<sessions, entries, latest, cast, viewer, status>>

\* The final segments, if there are any, go to the viewers of the token.
Drained(h) ==
  /\ host[h] = "draining"
  /\ \/ HasViewers /\ CastStarts(h, "loop", "final") /\ host' = [host EXCEPT ![h] = "reporting"]
     \/ host' = [host EXCEPT ![h] = "cleanup"] /\ UNCHANGED <<cast, status>>
  /\ UNCHANGED <<sessions, entries, latest, viewer>>

LoopBroadcastCompletes(h) ==
  /\ host[h] \in {"announcing", "relaying", "reporting"}
  /\ CastCompletes(h, "loop")
  /\ cast' = [cast EXCEPT ![h]["loop"] = None]
  /\ host' = [host EXCEPT ![h] = IF @ = "reporting" THEN "cleanup" ELSE "recording"]
  /\ UNCHANGED <<sessions, latest, viewer, status>>

\* Nothing in the message loop catches it: the session is cleaned up.
LoopBroadcastRaises(h) ==
  /\ host[h] \in {"announcing", "relaying", "reporting"}
  /\ CastRaises(h, "loop")
  /\ cast' = [cast EXCEPT ![h]["loop"] = None]
  /\ host' = [host EXCEPT ![h] = "cleanup"]
  /\ UNCHANGED <<sessions, entries, latest, viewer, status>>

\* The host's socket fails or closes.
HostDisconnects(h) ==
  /\ host[h] \in {"acking", "recording"}
  /\ host' = [host EXCEPT ![h] = "cleanup"]
  /\ UNCHANGED <<sessions, entries, latest, cast, viewer, status>>

\* Whatever the token maps to is removed; then the tasks are cancelled.
Unregister(h) ==
  /\ sessions' = None
  /\ host' = [host EXCEPT ![h] = "ended"]
  /\ cast' = [cast EXCEPT ![h] = [k \in Kinds |-> None]]

CleanupStarts(h) ==
  /\ host[h] = "cleanup"
  /\ IF HasViewers
     THEN /\ CastStarts(h, "loop", "ended")
          /\ host' = [host EXCEPT ![h] = "saying_goodbye"]
          /\ UNCHANGED sessions
     ELSE Unregister(h) /\ UNCHANGED status
  /\ UNCHANGED <<entries, latest, viewer>>

CleanupCompletes(h) ==
  /\ host[h] = "saying_goodbye"
  /\ CastCompletes(h, "loop")
  /\ Unregister(h)
  /\ UNCHANGED <<latest, viewer, status>>

\* The broadcast of session_ended raises: the entry stays, and no task is
\* cancelled: each ends by itself when it sees _running.
CleanupRaises(h) ==
  /\ host[h] = "saying_goodbye"
  /\ CastRaises(h, "loop")
  /\ host' = [host EXCEPT ![h] = "leaked"]
  /\ cast' = [cast EXCEPT ![h]["loop"] = None]
  /\ UNCHANGED <<sessions, entries, latest, viewer, status>>
----------------------------------------------------------------------------
(* The viewer endpoint. *)

\* _register_viewer, then init is sent: nothing suspends in between.
ViewerConnects(v) ==
  /\ viewer[v] = "new"
  /\ viewer' = [viewer EXCEPT ![v] = "online"]
  /\ \E e \in IF sessions = None THEN Unused ELSE {sessions} :
       LET entry == IF sessions = None THEN EmptyEntry ELSE entries[e]
       IN /\ sessions' = e
          /\ entries' = [entries EXCEPT ![e] = [entry EXCEPT !.viewers = @ \cup {v}]]
          /\ status' = [status EXCEPT ![v] = IF entry.session = None THEN "waiting" ELSE "live"]
  /\ UNCHANGED <<host, latest, cast>>

ViewerDrops(v) ==
  /\ viewer[v] = "online"
  /\ viewer' = [viewer EXCEPT ![v] = "dropped"]
  /\ UNCHANGED <<sessions, entries, host, latest, cast, status>>

\* Mutant: with its last viewer the entry goes, too.
ViewerRemovedPops(v) ==
  /\ viewer[v] = "dropped"
  /\ viewer' = [viewer EXCEPT ![v] = "gone"]
  /\ entries' = IF sessions = None THEN entries
                ELSE [entries EXCEPT ![sessions].viewers = @ \ {v}]
  /\ sessions' = IF sessions # None /\ entries[sessions].viewers = {v} THEN None ELSE sessions
  /\ UNCHANGED <<host, latest, cast, status>>

\* The endpoint notices and removes the viewer from the token's entry.
ViewerRemoved(v) ==
  /\ viewer[v] = "dropped"
  /\ viewer' = [viewer EXCEPT ![v] = "gone"]
  /\ entries' = IF sessions = None THEN entries
                ELSE [entries EXCEPT ![sessions].viewers = @ \ {v}]
  /\ UNCHANGED <<sessions, host, latest, cast, status>>
----------------------------------------------------------------------------
Init ==
  /\ sessions = None
  /\ entries = [e \in EntryIds |-> EmptyEntry]
  /\ host = [h \in Handlers |-> "off"]
  /\ latest = None
  /\ cast = [h \in Handlers |-> [k \in Kinds |-> None]]
  /\ viewer = [v \in Viewers |-> "new"]
  /\ status = [v \in Viewers |-> "none"]

\* What a handler does without anybody pressing a button.
HandlerGoesOn(h) ==
  \/ ConfigAcked(h) \/ Drained(h)
  \/ CastGoesOn(h, "loop") \/ LoopBroadcastCompletes(h) \/ LoopBroadcastRaises(h)
  \/ CleanupStarts(h) \/ CleanupCompletes(h) \/ CleanupRaises(h)

TaskGoesOn(h) == CastGoesOn(h, "task") \/ TaskBroadcastEnds(h)

HostActs(h) ==
  HandleConfig(h) \/ RelayToViewers(h) \/ RequestSummary(h) \/ HostDisconnects(h)

ViewerActs(v) == ViewerConnects(v) \/ ViewerDrops(v) \/ ViewerRemoved(v)

Next ==
  \/ \E h \in Handlers : HandlerGoesOn(h) \/ TaskGoesOn(h) \/ TaskBroadcasts(h) \/ HostActs(h)
  \/ \E v \in Viewers : ViewerActs(v)

(* A handler runs on whenever it can; people are not fair. *)
Spec == Init /\ [][Next]_vars
FairSpec == Spec /\ \A h \in Handlers : WF_vars(HandlerGoesOn(h))
----------------------------------------------------------------------------
(* Properties. *)

TypeOK ==
  /\ sessions \in EntryIds \cup {None}
  /\ entries \in [EntryIds -> Entry]
  /\ host \in [Handlers -> {"off", "acking", "announcing", "recording", "relaying", "draining",
                            "reporting", "cleanup", "saying_goodbye", "ended", "leaked"}]
  /\ latest \in Handlers \cup {None}
  /\ cast \in [Handlers -> [Kinds -> Cast \cup {None}]]
  /\ viewer \in [Viewers -> {"new", "online", "dropped", "gone"}]
  /\ status \in [Viewers -> {"none", "waiting", "live", "ended"}]

(* session_registry.py:81-82, "so the registry stays in sync with the live *)
(* session either way": until its cleanup unregisters it, the session      *)
(* activated last is the one the token maps to.                            *)
RegistryInSync ==
  \A h \in Handlers :
    Alive(h) /\ h = latest
      => sessions # None /\ entries[sessions].session = h /\ entries[sessions].main_ws = h

(* An entry is not left with a session whose handler has returned and      *)
(* unregistered: a viewer that connects is not told of a dead session.     *)
NoDeadSession ==
  sessions # None =>
    entries[sessions].session = None \/ host[entries[sessions].session] # "ended"

(* However recordings overlap, the token never leads to a recording that a *)
(* later one has replaced, nor to one recording's session with another     *)
(* one's socket: it leads to the latest recording or to none.              *)
TokenInv ==
  sessions # None =>
    /\ entries[sessions].session \in {None, latest}
    /\ entries[sessions].main_ws = entries[sessions].session

(* Entries, handlers and pages are in order, no entry is a dead one's, and *)
(* the token is the latest recording's or nobody's.                        *)
TokenOK == TypeOK /\ NoDeadSession /\ TokenInv

(* With overlapping recordings the registry does fall out of step (see     *)
(* RegistryInSync), in one way only: an earlier recording comes to its end *)
(* and takes the entry of the one that runs with it.  No viewer that comes *)
(* or goes, no broadcast that raises and no start of a recording does it.  *)
OnlyAnEarlierEndDesyncs ==
  [][RegistryInSync /\ ~RegistryInSync'
       => /\ sessions' = None
          /\ \E h \in Handlers : h # latest /\ Alive(h) /\ ~Alive(h)']_vars

(* A viewer that is told to wait is told when the recording starts, unless *)
(* the recording ends or the viewer leaves before.                         *)
WaitingViewersLearn ==
  \A v \in Viewers, h \in Handlers :
    (status[v] = "waiting" /\ Alive(h))
      ~> (status[v] # "waiting" \/ viewer[v] # "online" \/ ~Alive(h))

=============================================================================
