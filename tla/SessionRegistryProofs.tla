------------------------- MODULE SessionRegistryProofs -------------------------
(***************************************************************************)
(* Proofs about SessionRegistry for any number of handlers, viewers and    *)
(* entries.  What needs recordings that do not overlap says so: when they  *)
(* do, the token may be left without its session (RestartDuringStop.cfg).  *)
(***************************************************************************)
EXTENDS SessionRegistry, TLAPS

\* What the status line of a page may say.
StatusSet == {"none", "waiting", "live", "ended"}

(* One broadcast of one handler is replaced.                               *)
LEMMA CastReplaced ==
  ASSUME TypeOK, NEW h \in Handlers, NEW k \in Kinds, NEW c \in Cast \cup {None},
         cast' = [cast EXCEPT ![h][k] = c]
  PROVE  /\ cast' \in [Handlers -> [Kinds -> Cast \cup {None}]]
         /\ \A g \in Handlers, j \in Kinds :
              cast'[g][j] = IF g = h /\ j = k THEN c ELSE cast[g][j]
<1> DEFINE casts == Cast \cup {None}
           row == [cast[h] EXCEPT ![k] = c]
<1>1. cast \in [Handlers -> [Kinds -> casts]] /\ c \in casts
  BY DEF TypeOK
<1> HIDE DEF casts
<1>2. cast' = [cast EXCEPT ![h] = row]
  BY <1>1
<1>3. row \in [Kinds -> casts] /\ \A j \in Kinds : row[j] = IF j = k THEN c ELSE cast[h][j]
  BY <1>1
<1> HIDE DEF row
<1>4. /\ cast' \in [Handlers -> [Kinds -> casts]]
      /\ \A g \in Handlers : cast'[g] = IF g = h THEN row ELSE cast[g]
  BY <1>1, <1>2, <1>3
<1>5. QED  BY <1>3, <1>4 DEF casts

(* A message leaves the pages with a status.                               *)
LEMMA ReceiveType ==
  ASSUME TypeOK, NEW V, NEW msg, Receive(V, msg)
  PROVE  status' \in [Viewers -> StatusSet]
BY DEF TypeOK, Receive, StatusSet

(* A broadcast that starts is one of the entry the token maps to.          *)
LEMMA CastStartsType ==
  ASSUME TypeOK, HasViewers, NEW h \in Handlers, NEW k \in Kinds,
         NEW msg \in {"active", "note", "update", "final", "ended"}, CastStarts(h, k, msg)
  PROVE  /\ cast' \in [Handlers -> [Kinds -> Cast \cup {None}]]
         /\ \A g \in Handlers, j \in Kinds :
              cast'[g][j] # None => cast[g][j] # None \/ (g = h /\ j = k)
         /\ \E v \in Viewers : Receive({v}, msg)
<1>1. PICK v \in entries[sessions].viewers :
        /\ cast' = [cast EXCEPT ![h][k] =
             [entry |-> sessions, msg |-> msg, all |-> entries[sessions].viewers, seen |-> {v}]]
        /\ Receive({v}, msg)
  BY DEF CastStarts
<1> DEFINE c == [entry |-> sessions, msg |-> msg, all |-> entries[sessions].viewers, seen |-> {v}]
<1>2. entries[sessions] \in Entry /\ sessions \in EntryIds
  BY DEF HasViewers, TypeOK
<1>3. c \in Cast /\ v \in Viewers
  BY <1>2 DEF Entry, Cast
<1> HIDE DEF c
<1>4. cast' = [cast EXCEPT ![h][k] = c]
  BY <1>1 DEF c
<1>5. /\ cast' \in [Handlers -> [Kinds -> Cast \cup {None}]]
      /\ \A g \in Handlers, j \in Kinds :
           cast'[g][j] = IF g = h /\ j = k THEN c ELSE cast[g][j]
  BY <1>3, <1>4, CastReplaced
<1>6. QED  BY <1>1, <1>3, <1>5

(* A broadcast that goes on is still the same one.                         *)
LEMMA CastGoesOnType ==
  ASSUME TypeOK, NEW h \in Handlers, NEW k \in Kinds, CastGoesOn(h, k)
  PROVE  /\ cast' \in [Handlers -> [Kinds -> Cast \cup {None}]]
         /\ \A g \in Handlers, j \in Kinds : cast'[g][j] # None => cast[g][j] # None
         /\ \E v \in Viewers : \E msg : Receive({v}, msg)
         /\ cast[h][k] # None /\ UNCHANGED <<sessions, entries, host, latest, viewer>>
<1>1. PICK v \in Unseen(cast[h][k]) :
        /\ cast' = [cast EXCEPT ![h][k].seen = @ \cup {v}]
        /\ Receive({v}, cast[h][k].msg)
  BY DEF CastGoesOn
<1>2. cast[h][k] \in Cast
  BY DEF CastGoesOn, TypeOK
<1>3. v \in Viewers
  BY <1>2 DEF Unseen, TypeOK, Cast, Entry
<1>4. [cast[h][k] EXCEPT !.seen = @ \cup {v}] \in Cast
  BY <1>2, <1>3 DEF Cast
<1> DEFINE c == [cast[h][k] EXCEPT !.seen = @ \cup {v}]
<1>5. cast' = [cast EXCEPT ![h][k] = c]
  BY <1>1, <1>2 DEF TypeOK
<1>6. c \in Cast
  BY <1>4
<1> HIDE DEF c
<1>7. /\ cast' \in [Handlers -> [Kinds -> Cast \cup {None}]]
      /\ \A g \in Handlers, j \in Kinds :
           cast'[g][j] = IF g = h /\ j = k THEN c ELSE cast[g][j]
  BY <1>5, <1>6, CastReplaced
<1>8. QED  BY <1>1, <1>3, <1>7 DEF CastGoesOn

\* No session and no host's socket is exchanged, in any entry.
SessionsKept ==
  /\ entries' \in [EntryIds -> Entry]
  /\ \A e \in EntryIds : /\ entries'[e].session = entries[e].session
                         /\ entries'[e].main_ws = entries[e].main_ws

LEMMA UnchangedKeeps ==
  ASSUME TypeOK, UNCHANGED entries
  PROVE  SessionsKept
BY DEF TypeOK, SessionsKept

(* At its end a broadcast takes dead viewers out of its entry, no more.    *)
LEMMA CastCompletesKeeps ==
  ASSUME TypeOK, NEW h \in Handlers, NEW k \in Kinds, CastCompletes(h, k)
  PROVE  SessionsKept
<1>1. cast[h][k] \in Cast
  BY DEF CastCompletes, TypeOK
<1> DEFINE e == cast[h][k].entry
           left == {v \in entries[e].viewers : v \in cast[h][k].seen => viewer[v] = "online"}
<1>2. e \in EntryIds
  BY <1>1 DEF Cast
<1>3. left \in SUBSET Viewers
  BY <1>2 DEF TypeOK, Entry
<1>4. entries' = [entries EXCEPT ![e].viewers = left]
  BY DEF CastCompletes
<1> HIDE DEF e, left
<1>5. QED  BY <1>2, <1>3, <1>4 DEF TypeOK, Entry, SessionsKept

(* The session's end leaves no broadcast of it.                            *)
LEMMA UnregisterType ==
  ASSUME TypeOK, NEW h \in Handlers, Unregister(h)
  PROVE  /\ cast' \in [Handlers -> [Kinds -> Cast \cup {None}]]
         /\ \A g \in Handlers, j \in Kinds : cast'[g][j] = IF g = h THEN None ELSE cast[g][j]
<1> DEFINE casts == Cast \cup {None}
<1>1. cast \in [Handlers -> [Kinds -> casts]] /\ None \in casts
  BY DEF TypeOK
<1> HIDE DEF casts
<1>2. cast' = [cast EXCEPT ![h] = [k \in Kinds |-> None]]
  BY DEF Unregister
<1>3. /\ cast' \in [Handlers -> [Kinds -> casts]]
      /\ \A g \in Handlers : cast'[g] = IF g = h THEN [k \in Kinds |-> None] ELSE cast[g]
  BY <1>1, <1>2
<1>4. QED  BY <1>3 DEF casts
-----------------------------------------------------------------------------
(* Types. *)

LEMMA InitType == Init => TypeOK
BY DEF Init, TypeOK, EmptyEntry, Entry

LEMMA HandlerGoesOnType ==
  ASSUME TypeOK, NEW h \in Handlers, HandlerGoesOn(h)
  PROVE  TypeOK'
<1>1. "loop" \in Kinds /\ None \in Cast \cup {None}
  BY DEF Kinds
<1>2. CASE ConfigAcked(h)
  <2>1. CASE HasViewers
    BY <1>1, <1>2, <2>1, CastStartsType, ReceiveType DEF ConfigAcked, TypeOK, StatusSet
  <2>2. CASE ~HasViewers
    BY <1>2, <2>2 DEF ConfigAcked, TypeOK
  <2>3. QED  BY <2>1, <2>2
<1>3. CASE Drained(h)
  <2>1. CASE HasViewers /\ CastStarts(h, "loop", "final") /\ host' = [host EXCEPT ![h] = "reporting"]
    BY <1>1, <1>3, <2>1, CastStartsType, ReceiveType DEF Drained, TypeOK, StatusSet
  <2>2. CASE host' = [host EXCEPT ![h] = "cleanup"] /\ UNCHANGED <<cast>>
    BY <1>3, <2>2 DEF Drained, TypeOK
  <2>3. QED  BY <1>3, <2>1, <2>2 DEF Drained
<1>4. CASE CastGoesOn(h, "loop")
  BY <1>1, <1>4, CastGoesOnType, ReceiveType DEF TypeOK, StatusSet
<1>5. CASE LoopBroadcastCompletes(h)
  <2>1. entries' \in [EntryIds -> Entry]
    BY <1>1, <1>5, CastCompletesKeeps DEF LoopBroadcastCompletes, SessionsKept
  <2>2. cast' \in [Handlers -> [Kinds -> Cast \cup {None}]]
    BY <1>1, <1>5, CastReplaced DEF LoopBroadcastCompletes
  <2>3. QED  BY <1>5, <2>1, <2>2 DEF LoopBroadcastCompletes, TypeOK
<1>6. CASE LoopBroadcastRaises(h)
  <2>1. cast' \in [Handlers -> [Kinds -> Cast \cup {None}]]
    BY <1>1, <1>6, CastReplaced DEF LoopBroadcastRaises
  <2>2. QED  BY <1>6, <2>1 DEF LoopBroadcastRaises, TypeOK
<1>7. CASE CleanupStarts(h)
  <2>1. CASE HasViewers
    BY <1>1, <1>7, <2>1, CastStartsType, ReceiveType DEF CleanupStarts, TypeOK, StatusSet
  <2>2. CASE ~HasViewers
    <3>1. cast' \in [Handlers -> [Kinds -> Cast \cup {None}]]
      BY <1>7, <2>2, UnregisterType DEF CleanupStarts
    <3>2. QED  BY <1>7, <2>2, <3>1 DEF CleanupStarts, Unregister, TypeOK
  <2>3. QED  BY <2>1, <2>2
<1>8. CASE CleanupCompletes(h)
  <2>1. entries' \in [EntryIds -> Entry]
    BY <1>1, <1>8, CastCompletesKeeps DEF CleanupCompletes, SessionsKept
  <2>2. cast' \in [Handlers -> [Kinds -> Cast \cup {None}]]
    BY <1>8, UnregisterType DEF CleanupCompletes
  <2>3. QED  BY <1>8, <2>1, <2>2 DEF CleanupCompletes, Unregister, TypeOK
<1>9. CASE CleanupRaises(h)
  <2>1. cast' \in [Handlers -> [Kinds -> Cast \cup {None}]]
    BY <1>1, <1>9, CastReplaced DEF CleanupRaises
  <2>2. QED  BY <1>9, <2>1 DEF CleanupRaises, TypeOK
<1>10. QED
  BY <1>2, <1>3, <1>4, <1>5, <1>6, <1>7, <1>8, <1>9 DEF HandlerGoesOn

LEMMA HostActsType ==
  ASSUME TypeOK, NEW h \in Handlers, HostActs(h)
  PROVE  TypeOK'
<1>1. CASE HandleConfig(h)
  <2> DEFINE fresh == [EmptyEntry EXCEPT !.session = h, !.main_ws = h]
  <2>1. fresh \in Entry
    BY DEF EmptyEntry, Entry
  <2>2. \A e \in EntryIds : [entries[e] EXCEPT !.session = h, !.main_ws = h] \in Entry
    BY DEF TypeOK, Entry
  <2> HIDE DEF fresh
  <2>3. CASE sessions = None
    <3>1. PICK e \in Unused : sessions' = e /\ entries' = [entries EXCEPT ![e] = fresh]
      BY <1>1, <2>3 DEF HandleConfig, fresh
    <3>2. QED  BY <1>1, <2>1, <3>1 DEF HandleConfig, TypeOK, Unused
  <2>4. CASE sessions # None
    <3>1. entries' = [entries EXCEPT ![sessions] =
                        [entries[sessions] EXCEPT !.session = h, !.main_ws = h]]
      BY <1>1, <2>4 DEF HandleConfig, TypeOK
    <3>2. QED  BY <1>1, <2>2, <2>4, <3>1 DEF HandleConfig, TypeOK
  <2>5. QED  BY <2>3, <2>4
<1>2. CASE RelayToViewers(h)
  <2>1. "loop" \in Kinds  BY DEF Kinds
  <2>2. QED
    BY <1>2, <2>1, CastStartsType, ReceiveType DEF RelayToViewers, TypeOK, StatusSet
<1>3. CASE RequestSummary(h) \/ HostDisconnects(h)
  BY <1>3 DEF RequestSummary, HostDisconnects, TypeOK
<1>4. QED  BY <1>1, <1>2, <1>3 DEF HostActs

LEMMA TaskType ==
  ASSUME TypeOK, NEW h \in Handlers, TaskGoesOn(h) \/ TaskBroadcasts(h)
  PROVE  TypeOK'
<1>1. "task" \in Kinds /\ None \in Cast \cup {None}
  BY DEF Kinds
<1>2. CASE CastGoesOn(h, "task")
  BY <1>1, <1>2, CastGoesOnType, ReceiveType DEF TypeOK, StatusSet
<1>3. CASE TaskBroadcastEnds(h)
  <2>1. entries' \in [EntryIds -> Entry]
    BY <1>1, <1>3, CastCompletesKeeps DEF TaskBroadcastEnds, SessionsKept, TypeOK
  <2>2. cast' \in [Handlers -> [Kinds -> Cast \cup {None}]]
    BY <1>1, <1>3, CastReplaced DEF TaskBroadcastEnds
  <2>3. QED  BY <1>3, <2>1, <2>2 DEF TaskBroadcastEnds, TypeOK
<1>4. CASE TaskBroadcasts(h)
  BY <1>1, <1>4, CastStartsType, ReceiveType DEF TaskBroadcasts, TypeOK, StatusSet
<1>5. QED  BY <1>2, <1>3, <1>4 DEF TaskGoesOn

\* What a connection finds: the entry of the token, or a fresh one.
Joins(v, e) ==
  LET entry == IF sessions = None THEN EmptyEntry ELSE entries[e]
  IN /\ e \in EntryIds /\ (e = sessions \/ sessions = None)
     /\ sessions' = e
     /\ entries' \in [EntryIds -> Entry]
     /\ \A o \in EntryIds \ {e} : entries'[o] = entries[o]
     /\ entries'[e].session = entry.session /\ entries'[e].main_ws = entry.main_ws

(* A viewer that connects changes no session.                              *)
LEMMA ViewerJoins ==
  ASSUME TypeOK, NEW v \in Viewers, ViewerConnects(v)
  PROVE  \E e \in EntryIds : Joins(v, e)
<1>1. PICK e \in IF sessions = None THEN Unused ELSE {sessions} :
        LET entry == IF sessions = None THEN EmptyEntry ELSE entries[e]
        IN /\ sessions' = e
           /\ entries' = [entries EXCEPT ![e] = [entry EXCEPT !.viewers = @ \cup {v}]]
  BY DEF ViewerConnects
<1> DEFINE entry == IF sessions = None THEN EmptyEntry ELSE entries[e]
           joined == [entry EXCEPT !.viewers = @ \cup {v}]
<1>2. e \in EntryIds /\ (e = sessions \/ sessions = None)
  BY <1>1 DEF TypeOK, Unused
<1>3. entry \in Entry
  BY <1>2 DEF TypeOK, EmptyEntry, Entry
<1>4. /\ joined \in Entry /\ entry.session \in Handlers \cup {None}
      /\ joined.session = entry.session /\ joined.main_ws = entry.main_ws
  BY <1>3 DEF Entry
<1>5. entries' = [entries EXCEPT ![e] = joined] /\ sessions' = e
  BY <1>1
<1> HIDE DEF joined
<1>6. entries' \in [EntryIds -> Entry] /\ entries'[e] = joined
      /\ \A o \in EntryIds \ {e} : entries'[o] = entries[o]
  BY <1>2, <1>4, <1>5 DEF TypeOK
<1>7. QED  BY <1>2, <1>4, <1>5, <1>6 DEF Joins

(* One that leaves neither.                                                *)
LEMMA ViewerRemovedKeeps ==
  ASSUME TypeOK, NEW v \in Viewers, ViewerRemoved(v)
  PROVE  SessionsKept
<1>1. CASE sessions = None
  BY <1>1, UnchangedKeeps DEF ViewerRemoved
<1>2. CASE sessions # None
  <2> DEFINE left == entries[sessions].viewers \ {v}
  <2>1. sessions \in EntryIds /\ entries' = [entries EXCEPT ![sessions].viewers = left]
    BY <1>2 DEF ViewerRemoved, TypeOK
  <2>2. left \in SUBSET Viewers
    BY <2>1 DEF TypeOK, Entry
  <2> HIDE DEF left
  <2>3. QED  BY <2>1, <2>2 DEF TypeOK, Entry, SessionsKept
<1>3. QED  BY <1>1, <1>2

LEMMA ViewerActsType ==
  ASSUME TypeOK, NEW v \in Viewers, ViewerActs(v)
  PROVE  TypeOK'
<1>1. CASE ViewerConnects(v)
  <2>1. PICK e \in EntryIds : Joins(v, e)
    BY <1>1, ViewerJoins
  <2>2. status' \in [Viewers -> StatusSet] /\ viewer' \in [Viewers -> {"new", "online", "dropped", "gone"}]
    BY <1>1 DEF ViewerConnects, TypeOK, StatusSet
  <2>3. QED  BY <1>1, <2>1, <2>2 DEF ViewerConnects, Joins, TypeOK, StatusSet
<1>2. CASE ViewerDrops(v)
  BY <1>2 DEF ViewerDrops, TypeOK
<1>3. CASE ViewerRemoved(v)
  BY <1>3, ViewerRemovedKeeps DEF ViewerRemoved, SessionsKept, TypeOK
<1>4. QED  BY <1>1, <1>2, <1>3 DEF ViewerActs

(* Entries, handlers, broadcasts and pages are what they should be.        *)
THEOREM TypeCorrect == Spec => []TypeOK
<1>1. TypeOK /\ [Next]_vars => TypeOK'
  <2> SUFFICES ASSUME TypeOK, [Next]_vars  PROVE TypeOK'
    OBVIOUS
  <2>1. ASSUME NEW h \in Handlers,
               HandlerGoesOn(h) \/ TaskGoesOn(h) \/ TaskBroadcasts(h) \/ HostActs(h)
        PROVE  TypeOK'
    BY <2>1, HandlerGoesOnType, TaskType, HostActsType
  <2>2. ASSUME NEW v \in Viewers, ViewerActs(v)  PROVE TypeOK'
    BY <2>2, ViewerActsType
  <2>3. CASE UNCHANGED vars
    BY <2>3 DEF vars, TypeOK
  <2>4. QED  BY <2>1, <2>2, <2>3 DEF Next
<1>2. QED  BY <1>1, InitType, PTL DEF Spec
-----------------------------------------------------------------------------
(* What a handler under way may do. *)

\* Its message loop is suspended in a broadcast.
Casting == {"announcing", "relaying", "reporting", "saying_goodbye"}
LoopInv == \A h \in Handlers : cast[h]["loop"] # None => host[h] \in Casting

\* A step of h, but for its start: it changes no session; if the entry is
\* unregistered h ends, and no other handler does.
HandlerStep(h) ==
  /\ SessionsKept /\ UNCHANGED <<latest, viewer>>
  /\ \/ UNCHANGED sessions /\ \A g \in Handlers : host'[g] = "ended" => host[g] = "ended"
     \/ sessions' = None /\ Alive(h) /\ ~Alive(h)'
  /\ \A g \in Handlers : (Alive(g)' => Alive(g)) /\ (Busy(g)' => Busy(g))
  /\ LoopInv'

(* A message loop that starts a broadcast.                                 *)
LEMMA LoopCastsStep ==
  ASSUME TypeOK, LoopInv, NEW h \in Handlers, Alive(h), HasViewers,
         NEW msg \in {"active", "note", "update", "final", "ended"}, CastStarts(h, "loop", msg),
         NEW at \in Casting, host' = [host EXCEPT ![h] = at],
         UNCHANGED <<sessions, entries, latest, viewer>>
  PROVE  HandlerStep(h)
<1>1. "loop" \in Kinds /\ "task" \in Kinds /\ "loop" # "task"
  BY DEF Kinds
<1>2. \A g \in Handlers, j \in Kinds : cast'[g][j] # None => cast[g][j] # None \/ (g = h /\ j = "loop")
  BY <1>1, CastStartsType
<1>3. \A g \in Handlers : host'[g] = IF g = h THEN at ELSE host[g]
  BY DEF TypeOK
<1>4. \A g \in Handlers : (Alive(g)' => Alive(g)) /\ (Busy(g)' => Busy(g))
  BY <1>1, <1>2, <1>3 DEF Alive, Busy
<1>5. LoopInv'
  BY <1>1, <1>2, <1>3 DEF LoopInv
<1>6. \A g \in Handlers : host'[g] = "ended" => host[g] = "ended"
  BY <1>3 DEF Casting
<1>7. QED
  BY <1>4, <1>5, <1>6, UnchangedKeeps DEF HandlerStep, Busy

(* A message loop that goes to another place; it is not in a broadcast.    *)
LEMMA LoopMovesStep ==
  ASSUME TypeOK, LoopInv, NEW h \in Handlers, Alive(h),
         NEW at, at # "ended", host' = [host EXCEPT ![h] = at],
         SessionsKept, UNCHANGED <<sessions, latest, viewer>>,
         \/ UNCHANGED cast /\ host[h] \notin Casting
         \/ cast' = [cast EXCEPT ![h]["loop"] = None]
  PROVE  HandlerStep(h)
<1>1. "loop" \in Kinds /\ "task" \in Kinds /\ "loop" # "task" /\ None \in Cast \cup {None}
  BY DEF Kinds
<1>2. \A g \in Handlers, j \in Kinds :
        cast'[g][j] # None => cast[g][j] # None /\ ~(g = h /\ j = "loop")
  <2>1. CASE UNCHANGED cast /\ host[h] \notin Casting
    BY <2>1 DEF LoopInv
  <2>2. CASE cast' = [cast EXCEPT ![h]["loop"] = None]
    BY <1>1, <2>2, CastReplaced
  <2>3. QED  BY <2>1, <2>2
<1>3. \A g \in Handlers : host'[g] = IF g = h THEN at ELSE host[g]
  BY DEF TypeOK
<1>4. \A g \in Handlers : (Alive(g)' => Alive(g)) /\ (Busy(g)' => Busy(g))
  BY <1>1, <1>2, <1>3 DEF Alive, Busy
<1>5. LoopInv'
  BY <1>1, <1>2, <1>3 DEF LoopInv
<1>6. QED
  BY <1>3, <1>4, <1>5 DEF HandlerStep

(* The end of a handler.                                                   *)
LEMMA UnregisterStep ==
  ASSUME TypeOK, LoopInv, NEW h \in Handlers, Alive(h), Unregister(h),
         SessionsKept, UNCHANGED <<latest, viewer>>
  PROVE  HandlerStep(h)
<1>1. "loop" \in Kinds /\ "task" \in Kinds
  BY DEF Kinds
<1>2. \A g \in Handlers, j \in Kinds : cast'[g][j] = IF g = h THEN None ELSE cast[g][j]
  BY UnregisterType
<1>3. \A g \in Handlers : host'[g] = IF g = h THEN "ended" ELSE host[g]
  BY DEF Unregister, TypeOK
<1>4. \A g \in Handlers : (Alive(g)' => Alive(g)) /\ (Busy(g)' => Busy(g))
  BY <1>1, <1>2, <1>3 DEF Alive, Busy
<1>5. LoopInv' /\ ~Alive(h)'
  BY <1>1, <1>2, <1>3 DEF LoopInv, Alive
<1>6. QED  BY <1>4, <1>5 DEF HandlerStep, Unregister

(* A broadcast that goes on.                                               *)
LEMMA CastGoesOnStep ==
  ASSUME TypeOK, LoopInv, NEW h \in Handlers, NEW k \in Kinds, CastGoesOn(h, k)
  PROVE  HandlerStep(h)
<1>1. "loop" \in Kinds /\ "task" \in Kinds
  BY DEF Kinds
<1>2. /\ \A g \in Handlers, j \in Kinds : cast'[g][j] # None => cast[g][j] # None
      /\ cast[h][k] # None /\ UNCHANGED <<sessions, entries, host, latest, viewer>>
  BY CastGoesOnType
<1>3. \A g \in Handlers : (Alive(g)' => Alive(g)) /\ (Busy(g)' => Busy(g))
  BY <1>1, <1>2 DEF Alive, Busy
<1>4. LoopInv'
  BY <1>1, <1>2 DEF LoopInv
<1>5. QED  BY <1>2, <1>3, <1>4, UnchangedKeeps DEF HandlerStep

LEMMA HandlerGoesOnStep ==
  ASSUME TypeOK, LoopInv, NEW h \in Handlers, HandlerGoesOn(h)
  PROVE  HandlerStep(h)
<1>1. "loop" \in Kinds
  BY DEF Kinds
<1>2. CASE ConfigAcked(h)
  <2>1. CASE HasViewers
    BY <1>2, <2>1, LoopCastsStep DEF ConfigAcked, Alive, Casting
  <2>2. CASE ~HasViewers
    BY <1>2, <2>2, LoopMovesStep, UnchangedKeeps DEF ConfigAcked, Alive, Casting
  <2>3. QED  BY <2>1, <2>2
<1>3. CASE Drained(h)
  <2>1. CASE HasViewers /\ CastStarts(h, "loop", "final") /\ host' = [host EXCEPT ![h] = "reporting"]
    BY <1>3, <2>1, LoopCastsStep DEF Drained, Alive, Casting
  <2>2. CASE host' = [host EXCEPT ![h] = "cleanup"] /\ UNCHANGED <<cast>>
    BY <1>3, <2>2, LoopMovesStep, UnchangedKeeps DEF Drained, Alive, Casting
  <2>3. QED  BY <1>3, <2>1, <2>2 DEF Drained
<1>4. CASE CastGoesOn(h, "loop")
  BY <1>1, <1>4, CastGoesOnStep
<1>5. CASE LoopBroadcastCompletes(h)
  <2>1. SessionsKept
    BY <1>1, <1>5, CastCompletesKeeps DEF LoopBroadcastCompletes
  <2> DEFINE at == IF host[h] = "reporting" THEN "cleanup" ELSE "recording"
  <2>2. host' = [host EXCEPT ![h] = at] /\ at # "ended"
    BY <1>5 DEF LoopBroadcastCompletes
  <2> HIDE DEF at
  <2>3. QED
    BY <1>5, <2>1, <2>2, LoopMovesStep DEF LoopBroadcastCompletes, Alive
<1>6. CASE LoopBroadcastRaises(h)
  BY <1>6, LoopMovesStep, UnchangedKeeps DEF LoopBroadcastRaises, Alive
<1>7. CASE CleanupStarts(h)
  <2>1. CASE HasViewers
    BY <1>7, <2>1, LoopCastsStep DEF CleanupStarts, Alive, Casting
  <2>2. CASE ~HasViewers
    BY <1>7, <2>2, UnregisterStep, UnchangedKeeps DEF CleanupStarts, Alive
  <2>3. QED  BY <2>1, <2>2
<1>8. CASE CleanupCompletes(h)
  BY <1>1, <1>8, CastCompletesKeeps, UnregisterStep DEF CleanupCompletes, Alive
<1>9. CASE CleanupRaises(h)
  BY <1>9, LoopMovesStep, UnchangedKeeps DEF CleanupRaises, Alive
<1>10. QED
  BY <1>2, <1>3, <1>4, <1>5, <1>6, <1>7, <1>8, <1>9 DEF HandlerGoesOn

LEMMA TaskStep ==
  ASSUME TypeOK, LoopInv, NEW h \in Handlers, TaskGoesOn(h) \/ TaskBroadcasts(h)
  PROVE  HandlerStep(h)
<1>1. "loop" \in Kinds /\ "task" \in Kinds /\ "loop" # "task" /\ None \in Cast \cup {None}
  BY DEF Kinds
<1>2. CASE CastGoesOn(h, "task")
  BY <1>1, <1>2, CastGoesOnStep
<1>3. CASE TaskBroadcastEnds(h)
  <2>1. SessionsKept
    BY <1>1, <1>3, CastCompletesKeeps, UnchangedKeeps DEF TaskBroadcastEnds
  <2>2. \A g \in Handlers, j \in Kinds : cast'[g][j] = IF g = h /\ j = "task" THEN None ELSE cast[g][j]
    BY <1>1, <1>3, CastReplaced DEF TaskBroadcastEnds
  <2>3. UNCHANGED <<sessions, host, latest, viewer>>
    BY <1>3 DEF TaskBroadcastEnds
  <2>4. QED  BY <1>1, <2>1, <2>2, <2>3 DEF HandlerStep, LoopInv, Alive, Busy
<1>4. CASE TaskBroadcasts(h)
  <2>1. \A g \in Handlers, j \in Kinds : cast'[g][j] # None => cast[g][j] # None \/ (g = h /\ j = "task")
    BY <1>1, <1>4, CastStartsType DEF TaskBroadcasts
  <2>2. Alive(h) /\ UNCHANGED <<sessions, entries, host, latest, viewer>>
    BY <1>4 DEF TaskBroadcasts
  <2>3. QED  BY <1>1, <2>1, <2>2, UnchangedKeeps DEF HandlerStep, LoopInv, Alive, Busy
<1>5. QED  BY <1>2, <1>3, <1>4 DEF TaskGoesOn

LEMMA HostActsStep ==
  ASSUME TypeOK, LoopInv, NEW h \in Handlers,
         RelayToViewers(h) \/ RequestSummary(h) \/ HostDisconnects(h)
  PROVE  HandlerStep(h)
<1>1. CASE RelayToViewers(h)
  BY <1>1, LoopCastsStep DEF RelayToViewers, Alive, Casting
<1>2. CASE RequestSummary(h)
  BY <1>2, LoopMovesStep, UnchangedKeeps DEF RequestSummary, Alive, Casting
<1>3. CASE HostDisconnects(h)
  BY <1>3, LoopMovesStep, UnchangedKeeps DEF HostDisconnects, Alive, Casting
<1>4. QED  BY <1>1, <1>2, <1>3

(* Every step is a handler's, the start of one, a viewer's, or none.       *)
LEMMA StepKinds ==
  ASSUME TypeOK, LoopInv, [Next]_vars
  PROVE  \/ \E h \in Handlers : HandlerStep(h)
         \/ \E h \in Handlers : HandleConfig(h)
         \/ \E v \in Viewers : ViewerActs(v)
         \/ UNCHANGED vars
BY HandlerGoesOnStep, TaskStep, HostActsStep DEF Next, HostActs
-----------------------------------------------------------------------------
(* The entries. *)

EntriesInv == TypeOK /\ LoopInv /\ NoDeadSession

(* The new handler's entry: the token's or a fresh one.                    *)
LEMMA ConfigStep ==
  ASSUME TypeOK, LoopInv, NEW h \in Handlers, HandleConfig(h)
  PROVE  /\ sessions' \in EntryIds
         /\ entries'[sessions'].session = h /\ entries'[sessions'].main_ws = h
         /\ \A g \in Handlers : host'[g] = IF g = h THEN "acking" ELSE host[g]
         /\ host[h] = "off" /\ latest' = h /\ UNCHANGED <<cast, viewer>>
         /\ LoopInv'
<1>1. /\ \A g \in Handlers : host'[g] = IF g = h THEN "acking" ELSE host[g]
      /\ host[h] = "off" /\ latest' = h /\ UNCHANGED <<cast, viewer>>
  BY DEF HandleConfig, TypeOK
<1>2. LoopInv'
  BY <1>1 DEF LoopInv, Casting
<1>3. CASE sessions = None
  <2> DEFINE fresh == [EmptyEntry EXCEPT !.session = h, !.main_ws = h]
  <2>1. PICK e \in Unused : sessions' = e /\ entries' = [entries EXCEPT ![e] = fresh]
    BY <1>3 DEF HandleConfig
  <2>2. fresh.session = h /\ fresh.main_ws = h
    BY DEF EmptyEntry
  <2> HIDE DEF fresh
  <2>3. QED  BY <1>1, <1>2, <2>1, <2>2 DEF Unused, TypeOK
<1>4. CASE sessions # None
  <2> DEFINE taken == [entries[sessions] EXCEPT !.session = h, !.main_ws = h]
  <2>1. sessions' = sessions /\ sessions \in EntryIds /\ entries' = [entries EXCEPT ![sessions] = taken]
    BY <1>4 DEF HandleConfig, TypeOK
  <2>2. taken.session = h /\ taken.main_ws = h
    BY <2>1 DEF TypeOK, Entry
  <2> HIDE DEF taken
  <2>3. QED  BY <1>1, <1>2, <2>1, <2>2 DEF TypeOK
<1>5. QED  BY <1>3, <1>4

LEMMA ViewerKeepsLoops ==
  ASSUME TypeOK, LoopInv, NEW v \in Viewers, ViewerActs(v)
  PROVE  UNCHANGED <<host, latest, cast>> /\ LoopInv'
BY DEF ViewerActs, ViewerConnects, ViewerDrops, ViewerRemoved, LoopInv

(* The inductive invariant of the entries.                                 *)
LEMMA EntriesInvariant == Spec => []EntriesInv
<1>1. Init => EntriesInv
  BY InitType DEF Init, EntriesInv, LoopInv, NoDeadSession, Kinds
<1>2. EntriesInv /\ TypeOK' /\ [Next]_vars => EntriesInv'
  <2> SUFFICES ASSUME EntriesInv, TypeOK', [Next]_vars  PROVE LoopInv' /\ NoDeadSession'
    BY DEF EntriesInv
  <2> USE DEF EntriesInv
  <2>1. ASSUME NEW h \in Handlers, HandlerStep(h)  PROVE LoopInv' /\ NoDeadSession'
    BY <2>1 DEF HandlerStep, SessionsKept, NoDeadSession, TypeOK, Entry
  <2>2. ASSUME NEW h \in Handlers, HandleConfig(h)  PROVE LoopInv' /\ NoDeadSession'
    BY <2>2, ConfigStep DEF NoDeadSession
  <2>3. ASSUME NEW v \in Viewers, ViewerActs(v)  PROVE LoopInv' /\ NoDeadSession'
    <3>1. CASE ViewerConnects(v)
      <4>1. PICK e \in EntryIds : Joins(v, e)
        BY <3>1, ViewerJoins
      <4>2. QED  BY <2>3, <4>1, ViewerKeepsLoops DEF Joins, NoDeadSession, EmptyEntry
    <3>2. CASE ViewerDrops(v)
      BY <2>3, <3>2, ViewerKeepsLoops DEF ViewerDrops, NoDeadSession
    <3>3. CASE ViewerRemoved(v)
      <4>1. SessionsKept /\ UNCHANGED sessions
        BY <3>3, ViewerRemovedKeeps DEF ViewerRemoved
      <4>2. QED  BY <2>3, <4>1, ViewerKeepsLoops DEF SessionsKept, NoDeadSession, TypeOK
    <3>4. QED  BY <2>3, <3>1, <3>2, <3>3 DEF ViewerActs
  <2>4. CASE UNCHANGED vars
    BY <2>4 DEF vars, LoopInv, NoDeadSession
  <2>5. QED  BY <2>1, <2>2, <2>3, <2>4, StepKinds
<1>3. QED  BY <1>1, <1>2, TypeCorrect, PTL DEF Spec

-----------------------------------------------------------------------------
(* Recordings that do not overlap. *)

\* At most one handler is under way, the one activated last; the token's
\* session is its session or nobody's.
SyncInv ==
  /\ \A h \in Handlers : Busy(h) => h = latest
  /\ RegistryInSync
  /\ sessions # None => entries[sessions].session \in {None, latest}

(* A handler under way keeps the registry in step with it.                 *)
LEMMA HandlerSyncs ==
  ASSUME EntriesInv, SyncInv, NEW h \in Handlers, HandlerStep(h)
  PROVE  SyncInv'
<1>1. TypeOK
  BY DEF EntriesInv
<1>2. \A g \in Handlers : Busy(g)' => g = latest'
  BY DEF HandlerStep, SyncInv
<1>3. \A g \in Handlers : Alive(g)' => g = latest /\ Alive(g)
  BY <1>2 DEF HandlerStep, Busy
<1>4. (sessions # None => entries[sessions].session \in {None, latest})'
  BY <1>1 DEF HandlerStep, SessionsKept, SyncInv, TypeOK
<1>5. RegistryInSync'
  <2> SUFFICES ASSUME NEW g \in Handlers, Alive(g)', g = latest'
               PROVE  /\ sessions' # None
                      /\ entries'[sessions'].session = g /\ entries'[sessions'].main_ws = g
    BY DEF RegistryInSync
  <2>1. Alive(g) /\ g = latest
    BY <1>3
  <2>2. sessions # None /\ entries[sessions].session = g /\ entries[sessions].main_ws = g
    BY <2>1 DEF SyncInv, RegistryInSync
  <2>3. UNCHANGED sessions
    <3>1. CASE Alive(h) /\ ~Alive(h)'
      BY <2>1, <3>1 DEF SyncInv, Busy
    <3>2. QED  BY <3>1 DEF HandlerStep
  <2>4. QED  BY <1>1, <2>2, <2>3 DEF HandlerStep, SessionsKept, TypeOK
<1>6. QED  BY <1>2, <1>4, <1>5 DEF SyncInv

(* A start finds nobody under way.                                         *)
LEMMA ConfigSyncs ==
  ASSUME EntriesInv, SyncInv, ~Overlap, NEW h \in Handlers, HandleConfig(h)
  PROVE  SyncInv'
<1>1. \A g \in Handlers : ~Busy(g)
  BY DEF HandleConfig
<1>2. /\ sessions' \in EntryIds
      /\ entries'[sessions'].session = h /\ entries'[sessions'].main_ws = h
      /\ \A g \in Handlers : host'[g] = IF g = h THEN "acking" ELSE host[g]
      /\ latest' = h /\ UNCHANGED <<cast, viewer>>
  BY ConfigStep DEF EntriesInv
<1>3. \A g \in Handlers : Busy(g)' => g = h
  BY <1>1, <1>2 DEF Busy, Alive
<1>4. QED  BY <1>2, <1>3, RegistryAssumption DEF SyncInv, RegistryInSync

LEMMA ViewerSyncs ==
  ASSUME EntriesInv, SyncInv, NEW v \in Viewers, ViewerActs(v)
  PROVE  SyncInv'
<1>1. TypeOK /\ UNCHANGED <<host, latest, cast>>
  BY ViewerKeepsLoops DEF EntriesInv
<1>2. \A g \in Handlers : (Alive(g)' <=> Alive(g)) /\ (Busy(g)' <=> Busy(g))
  BY <1>1 DEF Alive, Busy
<1>3. CASE ViewerConnects(v)
  <2>1. PICK e \in EntryIds : Joins(v, e)
    BY <1>1, <1>3, ViewerJoins
  <2>3. RegistryInSync'
    <3>1. CASE sessions = None
      BY <1>1, <1>2, <3>1 DEF SyncInv, RegistryInSync
    <3>2. CASE sessions # None
      <4>1. /\ sessions' = sessions /\ sessions \in EntryIds
            /\ entries'[sessions].session = entries[sessions].session
            /\ entries'[sessions].main_ws = entries[sessions].main_ws
        BY <2>1, <3>2 DEF Joins
      <4>2. QED  BY <1>1, <1>2, <3>2, <4>1 DEF SyncInv, RegistryInSync
    <3>3. QED  BY <3>1, <3>2
  <2>4. (sessions # None => entries[sessions].session \in {None, latest})'
    BY <1>1, <2>1 DEF Joins, SyncInv, EmptyEntry
  <2>5. QED  BY <1>1, <1>2, <2>3, <2>4 DEF SyncInv
<1>4. CASE ViewerDrops(v)
  BY <1>1, <1>2, <1>4 DEF ViewerDrops, SyncInv, RegistryInSync, TypeOK
<1>5. CASE ViewerRemoved(v)
  <2>1. SessionsKept /\ viewer' = [viewer EXCEPT ![v] = "gone"] /\ UNCHANGED sessions
    BY <1>1, <1>5, ViewerRemovedKeeps DEF ViewerRemoved
  <2>2. QED  BY <1>1, <1>2, <2>1 DEF SessionsKept, SyncInv, RegistryInSync, TypeOK
<1>6. QED  BY <1>3, <1>4, <1>5 DEF ViewerActs

LEMMA SyncStep ==
  ASSUME ~Overlap, EntriesInv, SyncInv, [Next]_vars
  PROVE  SyncInv'
<1>1. CASE UNCHANGED vars
  BY <1>1 DEF vars, SyncInv, RegistryInSync, Busy, Alive
<1>2. QED
  BY <1>1, StepKinds, HandlerSyncs, ConfigSyncs, ViewerSyncs DEF EntriesInv

LEMMA SyncInvariant ==
  ASSUME ~Overlap
  PROVE  Spec => []SyncInv
<1>1. Init => SyncInv
  BY DEF Init, SyncInv, RegistryInSync, Busy, Alive, Kinds
<1>2. EntriesInv /\ SyncInv /\ [Next]_vars => SyncInv'
  BY SyncStep
<1>3. QED  BY <1>1, <1>2, EntriesInvariant, PTL DEF Spec

(* As long as one recording ends before the next starts, the token maps to *)
(* the session that runs until that session's own cleanup.                 *)
THEOREM RegistryStaysInSync ==
  ASSUME ~Overlap
  PROVE  Spec => []RegistryInSync
<1>1. SyncInv => RegistryInSync
  BY DEF SyncInv
<1>2. QED  BY <1>1, SyncInvariant, PTL
-----------------------------------------------------------------------------
(* Recordings that overlap: what is lost, how, and for how long. *)

(* Viewers change neither the token's session nor its host's socket; one   *)
(* that finds no entry is given one that is nobody's.                      *)
LEMMA ViewerKeepsToken ==
  ASSUME TypeOK, LoopInv, NEW v \in Viewers, ViewerActs(v)
  PROVE  /\ UNCHANGED <<host, latest, cast>>
         /\ sessions # None =>
              /\ sessions' = sessions
              /\ entries'[sessions].session = entries[sessions].session
              /\ entries'[sessions].main_ws = entries[sessions].main_ws
         /\ sessions = None /\ sessions' # None =>
              entries'[sessions'].session = None /\ entries'[sessions'].main_ws = None
<1>1. UNCHANGED <<host, latest, cast>>
  BY ViewerKeepsLoops
<1>2. CASE ViewerConnects(v)
  <2>1. PICK e \in EntryIds : Joins(v, e)
    BY <1>2, ViewerJoins
  <2>2. QED  BY <1>1, <2>1 DEF Joins, EmptyEntry
<1>3. CASE ViewerDrops(v)
  BY <1>1, <1>3 DEF ViewerDrops
<1>4. CASE ViewerRemoved(v)
  <2>1. SessionsKept /\ UNCHANGED sessions
    BY <1>4, ViewerRemovedKeeps DEF ViewerRemoved
  <2>2. QED  BY <1>1, <2>1 DEF SessionsKept, TypeOK
<1>5. QED  BY <1>2, <1>3, <1>4 DEF ViewerActs

LEMMA TokenStep ==
  ASSUME EntriesInv, TokenInv, [Next]_vars
  PROVE  TokenInv'
<1>1. TypeOK /\ LoopInv
  BY DEF EntriesInv
<1>2. ASSUME NEW h \in Handlers, HandlerStep(h)  PROVE TokenInv'
  BY <1>1, <1>2 DEF HandlerStep, SessionsKept, TokenInv, TypeOK
<1>3. ASSUME NEW h \in Handlers, HandleConfig(h)  PROVE TokenInv'
  BY <1>1, <1>3, ConfigStep DEF TokenInv
<1>4. ASSUME NEW v \in Viewers, ViewerActs(v)  PROVE TokenInv'
  BY <1>1, <1>4, ViewerKeepsToken DEF TokenInv
<1>5. CASE UNCHANGED vars
  BY <1>5 DEF vars, TokenInv
<1>6. QED  BY <1>1, <1>2, <1>3, <1>4, <1>5, StepKinds

(* However recordings overlap, the token never leads to a recording that a *)
(* later one has replaced, to one that has unregistered and returned, nor  *)
(* to the session of one recording with the host's socket of another: what *)
(* a viewer registers with is the latest recording or an entry without any.*)
THEOREM TokenHolds == Spec => []TokenOK
<1>1. Init => TokenInv
  BY DEF Init, TokenInv
<1>2. EntriesInv /\ TokenInv /\ [Next]_vars => TokenInv'
  BY TokenStep
<1>3. EntriesInv /\ TokenInv => TokenOK
  BY DEF EntriesInv, TokenOK
<1>4. QED  BY <1>1, <1>2, <1>3, EntriesInvariant, PTL DEF Spec

(* The registry falls out of step in one way only: an earlier recording    *)
(* comes to its end and takes the entry of the one that runs with it.      *)
THEOREM EarlierEndDesyncs == Spec => OnlyAnEarlierEndDesyncs
<1>1. EntriesInv /\ [Next]_vars
        => [RegistryInSync /\ ~RegistryInSync'
              => /\ sessions' = None
                 /\ \E h \in Handlers : h # latest /\ Alive(h) /\ ~Alive(h)']_vars
  <2> SUFFICES ASSUME EntriesInv, [Next]_vars, RegistryInSync, ~RegistryInSync'
               PROVE  /\ sessions' = None
                      /\ \E h \in Handlers : h # latest /\ Alive(h) /\ ~Alive(h)'
    OBVIOUS
  <2>1. TypeOK /\ LoopInv
    BY DEF EntriesInv
  <2>2. PICK g \in Handlers :
          /\ Alive(g)' /\ g = latest'
          /\ ~(sessions' # None /\ entries'[sessions'].session = g
                                /\ entries'[sessions'].main_ws = g)
    BY DEF RegistryInSync
  <2>3. ASSUME NEW h \in Handlers, HandlerStep(h)
        PROVE  sessions' = None /\ h # latest /\ Alive(h) /\ ~Alive(h)'
    <3>1. g = latest /\ Alive(g)
      BY <2>2, <2>3 DEF HandlerStep
    <3>2. sessions # None /\ entries[sessions].session = g /\ entries[sessions].main_ws = g
      BY <3>1 DEF RegistryInSync
    <3>3. sessions' = None /\ Alive(h) /\ ~Alive(h)'
      BY <2>1, <2>2, <2>3, <3>2 DEF HandlerStep, SessionsKept, TypeOK
    <3>4. QED  BY <2>2, <3>1, <3>3
  <2>4. ASSUME NEW h \in Handlers, HandleConfig(h)  PROVE FALSE
    BY <2>1, <2>2, <2>4, ConfigStep, RegistryAssumption
  <2>5. ASSUME NEW v \in Viewers, ViewerActs(v)  PROVE FALSE
    BY <2>1, <2>2, <2>5, ViewerKeepsToken DEF RegistryInSync, Alive
  <2>6. CASE UNCHANGED vars
    BY <2>6 DEF vars, RegistryInSync, Alive
  <2>7. QED  BY <2>1, <2>3, <2>4, <2>5, <2>6, StepKinds
<1>2. QED  BY <1>1, EntriesInvariant, PTL DEF Spec, OnlyAnEarlierEndDesyncs

(* And a recording that lost its entry never gets one back: the registry   *)
(* is in step again only when that recording ends or a later one starts.   *)
THEOREM LostEntryStaysLost ==
  Spec => [][~RegistryInSync /\ RegistryInSync'
               => \/ latest' # latest
                  \/ \A h \in Handlers : h = latest => ~Alive(h)']_vars
<1>1. EntriesInv /\ [Next]_vars
        => [~RegistryInSync /\ RegistryInSync'
              => \/ latest' # latest
                 \/ \A h \in Handlers : h = latest => ~Alive(h)']_vars
  <2> SUFFICES ASSUME EntriesInv, [Next]_vars, ~RegistryInSync, latest' = latest,
                      NEW g \in Handlers, g = latest, Alive(g)'
               PROVE  ~RegistryInSync'
    OBVIOUS
  <2>1. TypeOK /\ LoopInv
    BY DEF EntriesInv
  <2>2. \/ sessions = None
        \/ ~(entries[sessions].session = g /\ entries[sessions].main_ws = g)
    BY DEF RegistryInSync
  <2>3. ASSUME NEW h \in Handlers, HandlerStep(h)  PROVE ~RegistryInSync'
    BY <2>1, <2>2, <2>3 DEF HandlerStep, SessionsKept, RegistryInSync, TypeOK
  <2>4. ASSUME NEW h \in Handlers, HandleConfig(h)  PROVE FALSE
    <3>1. h = latest /\ host[h] = "off"
      BY <2>1, <2>4, ConfigStep
    <3>2. QED  BY <2>2, <3>1 DEF RegistryInSync, Alive
  <2>5. ASSUME NEW v \in Viewers, ViewerActs(v)  PROVE ~RegistryInSync'
    BY <2>1, <2>2, <2>5, ViewerKeepsToken, RegistryAssumption DEF RegistryInSync, Alive
  <2>6. CASE UNCHANGED vars
    BY <2>6 DEF vars, RegistryInSync, Alive
  <2>7. QED  BY <2>1, <2>3, <2>4, <2>5, <2>6, StepKinds
<1>2. QED  BY <1>1, EntriesInvariant, PTL DEF Spec
=============================================================================
