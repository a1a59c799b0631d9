-------------------------- MODULE SmallModulesProofs --------------------------
(***************************************************************************)
(* Proofs about Accounts, TranslatePage and TranscriptConsent.  They share *)
(* no variable: the module extends the first and instantiates the others,  *)
(* whose assumptions on the constants are hypotheses of their theorems.    *)
(***************************************************************************)
EXTENDS Accounts, SequenceTheorems, TLAPS

CONSTANTS
  Texts, Langs, SrcDefault, TgtDefault, MaxEdits,       \* of TranslatePage
  Guests, MaxRequests, MaxRecordings, MaxWaiting        \* of TranscriptConsent

VARIABLES
  text, list, src, tgt, timer, seq, calls, shown, error, page, signedIn, edits,
  host, request, recs, up, down, entry, guest, in, out, yes

T == INSTANCE TranslatePage
C == INSTANCE TranscriptConsent
-----------------------------------------------------------------------------
(* The translation page. *)

Stages == {"sent", "ok", "bad"}
ShownSet == {T!Empty, T!Pending} \cup [kind : {"text"}, of : T!Inputs]

\* TypeOK without the calls.
TranslateTypes ==
  /\ text \in Texts \cup {None}
  /\ src \in Langs \cup {None} /\ tgt \in Langs \cup {None}
  /\ list \in {"loading", "ready", "failed"}
  /\ timer \in BOOLEAN /\ signedIn \in BOOLEAN
  /\ seq \in Nat /\ edits \in 0..MaxEdits
  /\ shown \in ShownSet
  /\ error \in {None, "same", "failed", "network", "list"}
  /\ page \in {"open", "login"}

\* The one request under way, the newest.
CallInv ==
  \A c \in calls : /\ calls = {c}
                   /\ c \in [seq : 1..seq, input : T!Inputs, stage : Stages] /\ c.seq = seq

\* Nothing is asked for before the languages are there.
ListInv ==
  /\ list = "ready" => src \in Langs /\ tgt \in Langs
  /\ list # "ready" => src = None /\ tgt = None /\ calls = {} /\ shown = T!Empty

\* The call, or its result, is of what the page wants unless a timer runs;
\* and a result is there only when nothing is awaited.
WantedInv ==
  /\ calls # {} => shown.kind # "text"
  /\ page = "open" /\ ~timer /\ text # None /\ src # tgt =>
       /\ \A c \in calls : c.input = T!Wanted
       /\ shown.kind = "text" => shown.of = T!Wanted

TranslateInv == TranslateTypes /\ CallInv /\ ListInv /\ WantedInv

LEMMA ShownFacts ==
  /\ T!Empty \in ShownSet /\ T!Pending \in ShownSet
  /\ T!Empty.kind = "empty" /\ T!Pending.kind = "pending"
  /\ \A i \in T!Inputs : /\ T!Result(i) \in ShownSet
                         /\ T!Result(i).kind = "text" /\ T!Result(i).of = i
BY DEF ShownSet, T!Empty, T!Pending, T!Result

LEMMA TranslateInit ==
  ASSUME T!TranslateAssumption, T!Init
  PROVE  TranslateInv
<1>1. /\ text = None /\ list = "loading" /\ src = None /\ tgt = None /\ timer = FALSE
      /\ seq = 0 /\ calls = {} /\ shown = T!Empty /\ error = None /\ page = "open"
      /\ signedIn \in BOOLEAN /\ edits = 0
  BY DEF T!Init
<1>2. edits \in 0..MaxEdits
  BY <1>1 DEF T!TranslateAssumption
<1>3. TranslateTypes
  BY <1>1, <1>2, ShownFacts DEF TranslateTypes
<1>4. CallInv /\ ListInv /\ WantedInv
  BY <1>1, ShownFacts DEF CallInv, ListInv, WantedInv
<1>5. QED  BY <1>3, <1>4 DEF TranslateInv

LEMMA LanguagesLoadedKeeps ==
  ASSUME T!TranslateAssumption, TranslateInv, T!LanguagesLoaded
  PROVE  TranslateInv'
<1>1. /\ list = "loading" /\ calls = {} /\ shown = T!Empty
      /\ UNCHANGED <<text, timer, seq, calls, shown, page, signedIn, edits>>
      /\ \/ list' = "ready" /\ src' = SrcDefault /\ tgt' = TgtDefault /\ error' = error
         \/ list' = "failed" /\ error' = "list" /\ src' = src /\ tgt' = tgt
      /\ {SrcDefault, TgtDefault} \subseteq Langs
  BY DEF T!LanguagesLoaded, T!TranslateAssumption, TranslateInv, ListInv
<1>2. TranslateTypes'
  BY <1>1 DEF TranslateInv, TranslateTypes
<1>3. CallInv' /\ ListInv' /\ WantedInv'
  BY <1>1, ShownFacts DEF TranslateInv, CallInv, ListInv, WantedInv
<1>4. QED  BY <1>2, <1>3 DEF TranslateInv

(* An edit starts the timer, or takes the text away.                       *)
LEMMA EditKeeps ==
  ASSUME T!TranslateAssumption, TranslateInv,
         \/ T!Cleared
         \/ \E t \in Texts \cup {None} : T!Typed(t)
         \/ \E s, t \in Langs : T!LangChosen(s, t)
  PROVE  TranslateInv'
<1>1. /\ UNCHANGED <<list, seq, calls, page, signedIn>>
      /\ timer' = TRUE \/ text' = None
      /\ text' \in Texts \cup {None} /\ timer' \in {TRUE, timer}
      /\ shown' \in {shown, T!Empty} /\ error' \in {error, None}
      /\ \/ src' = src /\ tgt' = tgt
         \/ list = "ready" /\ src' \in Langs /\ tgt' \in Langs
      /\ edits' \in {edits, edits + 1} /\ (edits' = edits \/ edits < MaxEdits)
  BY DEF T!Cleared, T!Typed, T!LangChosen, T!Edits, TranslateInv, TranslateTypes
<1>2. TranslateTypes'
  <2>1. edits' \in 0..MaxEdits
    BY <1>1 DEF TranslateInv, TranslateTypes, T!TranslateAssumption
  <2>2. QED  BY <1>1, <2>1, ShownFacts DEF TranslateInv, TranslateTypes
<1>3. CallInv' /\ ListInv' /\ WantedInv'
  BY <1>1, ShownFacts DEF TranslateInv, CallInv, ListInv, WantedInv
<1>4. QED  BY <1>2, <1>3 DEF TranslateInv

LEMMA TimerFiresKeeps ==
  ASSUME T!TranslateAssumption, TranslateInv, T!TimerFires
  PROVE  TranslateInv'
<1>1. /\ UNCHANGED <<text, list, src, tgt, page, signedIn, edits>> /\ timer' = FALSE
      /\ T!NothingToDo \/ T!SendRequest
  BY DEF T!TimerFires
<1>2. CASE T!NothingToDo
  <2>1. /\ text = None \/ src = tgt
        /\ shown' = T!Empty /\ error' \in {None, "same"} /\ UNCHANGED <<seq, calls>>
    BY <1>2 DEF T!NothingToDo
  <2>2. TranslateTypes'
    BY <1>1, <2>1, ShownFacts DEF TranslateInv, TranslateTypes
  <2>3. CallInv' /\ ListInv' /\ WantedInv'
    BY <1>1, <2>1, ShownFacts DEF TranslateInv, CallInv, ListInv, WantedInv
  <2>4. QED  BY <2>2, <2>3 DEF TranslateInv
<1>3. CASE T!SendRequest
  <2>1. /\ text # None /\ src # tgt /\ seq' = seq + 1
        /\ calls' = {c \in calls : c.seq # seq} \cup {T!Request}
        /\ shown' \in {T!Empty, T!Pending} /\ error' \in {None, "failed"}
    BY <1>3 DEF T!SendRequest
  <2>2. calls' = {T!Request}
    BY <2>1 DEF TranslateInv, CallInv
  <2>3. list = "ready" /\ src \in Langs /\ tgt \in Langs /\ text \in Texts
    BY <2>1 DEF TranslateInv, ListInv, TranslateTypes
  <2>4. T!Wanted \in T!Inputs /\ T!Wanted' = T!Wanted
    BY <1>1, <2>3 DEF T!Wanted, T!Inputs
  <2>5. seq \in Nat /\ seq' \in Nat /\ seq + 1 \in 1..seq'
    BY <2>1 DEF TranslateInv, TranslateTypes
  <2>6. /\ T!Request \in [seq : 1..seq', input : T!Inputs, stage : Stages]
        /\ T!Request.seq = seq' /\ T!Request.input = T!Wanted
    BY <2>1, <2>4, <2>5 DEF T!Request, Stages
  <2>7. TranslateTypes'
    BY <1>1, <2>1, <2>5, ShownFacts DEF TranslateInv, TranslateTypes
  <2>8. CallInv'
    BY <2>2, <2>6 DEF CallInv
  <2>9. ListInv'
    BY <1>1, <2>3 DEF ListInv
  <2>10. WantedInv'
    BY <2>1, <2>2, <2>4, <2>6, ShownFacts DEF WantedInv
  <2>11. QED  BY <2>7, <2>8, <2>9, <2>10 DEF TranslateInv
<1>4. QED  BY <1>1, <1>2, <1>3

(* The page is left, or its session expires.                               *)
LEMMA LeftKeeps ==
  ASSUME TranslateInv,
         /\ UNCHANGED <<text, list, src, tgt, seq, shown, error, edits>>
         /\ signedIn' \in BOOLEAN
         /\ T!Leave \/ UNCHANGED <<calls, timer, page>>
  PROVE  TranslateInv'
<1>1. /\ calls' \in {{}, calls} /\ timer' \in {FALSE, timer} /\ page' \in {"login", page}
      /\ page' = "open" => timer' = timer /\ calls' = calls /\ page = "open"
  BY DEF T!Leave
<1>2. TranslateTypes'
  BY <1>1 DEF TranslateInv, TranslateTypes
<1>3. CallInv' /\ ListInv' /\ WantedInv'
  BY <1>1 DEF TranslateInv, CallInv, ListInv, WantedInv, T!Wanted
<1>4. QED  BY <1>2, <1>3 DEF TranslateInv

LEMMA AnswerKeeps ==
  ASSUME TranslateInv, NEW c \in calls,
         T!Responded(c) \/ T!AnswerRead(c) \/ T!ErrorRead(c) \/ T!CallFails(c)
  PROVE  TranslateInv'
<1>1. /\ calls = {c} /\ c \in [seq : 1..seq, input : T!Inputs, stage : Stages] /\ c.seq = seq
      /\ list = "ready"
  BY DEF TranslateInv, CallInv, ListInv
<1>2. CASE T!Responded(c)
  <2>1. /\ UNCHANGED <<text, list, src, tgt, seq, shown, error, signedIn, edits>>
        /\ T!Leave \/ ((T!Stage(c, "ok") \/ T!Stage(c, "bad")) /\ UNCHANGED <<timer, page>>)
    BY <1>1, <1>2 DEF T!Responded
  <2>2. CASE T!Leave
    BY <2>1, <2>2, LeftKeeps DEF TranslateInv, TranslateTypes
  <2>3. ASSUME NEW st \in {"ok", "bad"}, T!Stage(c, st), UNCHANGED <<timer, page>>
        PROVE  TranslateInv'
    <3> DEFINE d == [c EXCEPT !.stage = st]
    <3>1. calls' = {d}
      BY <1>1, <2>3 DEF T!Stage
    <3>2. /\ d \in [seq : 1..seq, input : T!Inputs, stage : Stages] /\ d.seq = seq
          /\ d.input = c.input
      BY <1>1 DEF Stages
    <3> HIDE DEF d
    <3>3. TranslateTypes'
      BY <2>1, <2>3 DEF TranslateInv, TranslateTypes
    <3>4. CallInv' /\ ListInv' /\ WantedInv'
      BY <1>1, <2>1, <2>3, <3>1, <3>2
         DEF TranslateInv, CallInv, ListInv, WantedInv, T!Wanted
    <3>5. QED  BY <3>3, <3>4 DEF TranslateInv
  <2>4. QED  BY <2>1, <2>2, <2>3
<1>3. CASE T!AnswerRead(c)
  <2>1. /\ UNCHANGED <<text, list, src, tgt, timer, seq, error, page, signedIn, edits>>
        /\ calls' = {} /\ shown' \in {T!Result(c.input), T!Empty}
    BY <1>1, <1>3 DEF T!AnswerRead
  <2>2. c.input \in T!Inputs
    BY <1>1
  <2>3. TranslateTypes'
    BY <2>1, <2>2, ShownFacts DEF TranslateInv, TranslateTypes
  <2>4. CallInv' /\ ListInv'
    BY <1>1, <2>1 DEF TranslateInv, CallInv, ListInv
  <2>5. WantedInv'
    BY <1>1, <2>1, <2>2, ShownFacts DEF TranslateInv, WantedInv, T!Wanted
  <2>6. QED  BY <2>3, <2>4, <2>5 DEF TranslateInv
<1>4. CASE T!ErrorRead(c) \/ T!CallFails(c)
  <2>1. /\ UNCHANGED <<text, list, src, tgt, timer, seq, page, signedIn, edits>>
        /\ calls' = {} /\ shown' = T!Empty /\ error' \in {"failed", "network"}
    BY <1>1, <1>4 DEF T!ErrorRead, T!CallFails
  <2>2. TranslateTypes'
    BY <2>1, ShownFacts DEF TranslateInv, TranslateTypes
  <2>3. CallInv' /\ ListInv' /\ WantedInv'
    BY <1>1, <2>1, ShownFacts DEF TranslateInv, CallInv, ListInv, WantedInv
  <2>4. QED  BY <2>2, <2>3 DEF TranslateInv
<1>5. QED  BY <1>2, <1>3, <1>4

LEMMA TranslateNext ==
  ASSUME T!TranslateAssumption, TranslateInv, [T!Next]_T!vars
  PROVE  TranslateInv'
<1>1. CASE T!LanguagesLoaded
  BY <1>1, LanguagesLoadedKeeps
<1>2. CASE \/ T!Cleared \/ (\E t \in Texts \cup {None} : T!Typed(t))
           \/ \E s, t \in Langs : T!LangChosen(s, t)
  BY <1>2, EditKeeps
<1>3. CASE T!TimerFires
  BY <1>3, TimerFiresKeeps
<1>4. CASE T!UserChecked \/ T!LoggedOut \/ T!SessionExpires
  <2>1. /\ UNCHANGED <<text, list, src, tgt, seq, shown, error, edits>>
        /\ signedIn' \in BOOLEAN
        /\ T!Leave \/ UNCHANGED <<calls, timer, page>>
    BY <1>4 DEF T!UserChecked, T!LoggedOut, T!SessionExpires, TranslateInv, TranslateTypes
  <2>2. QED  BY <2>1, LeftKeeps
<1>5. CASE \E c \in calls :
             T!Responded(c) \/ T!AnswerRead(c) \/ T!ErrorRead(c) \/ T!CallFails(c)
  BY <1>5, AnswerKeeps
<1>6. CASE UNCHANGED T!vars
  <2>1. /\ UNCHANGED <<text, list, src, tgt, seq, shown, error, edits>>
        /\ signedIn' \in BOOLEAN /\ UNCHANGED <<calls, timer, page>>
    BY <1>6 DEF T!vars, TranslateInv, TranslateTypes
  <2>2. QED  BY <2>1, LeftKeeps
<1>7. QED  BY <1>1, <1>2, <1>3, <1>4, <1>5, <1>6 DEF T!Next

(* No answer but that of the last request gets to the panel, and when all  *)
(* has come to rest the panel shows the translation of the text that is    *)
(* there between the languages chosen: the number compared after the first *)
(* wait of runTranslate suffices, however many edits overlap.              *)
THEOREM ResultHolds ==
  ASSUME T!TranslateAssumption
  PROVE  T!Spec => []T!ResultOK
<1>1. T!Init => TranslateInv
  BY TranslateInit
<1>2. TranslateInv /\ [T!Next]_T!vars => TranslateInv'
  BY TranslateNext
<1>3. TranslateInv => T!ResultOK
  <2> SUFFICES ASSUME TranslateInv  PROVE T!ResultOK
    OBVIOUS
  <2>1. T!TypeOK
    <3>1. calls \subseteq [seq : 1..seq, input : T!Inputs, stage : {"sent", "ok", "bad"}]
      BY DEF TranslateInv, CallInv, Stages
    <3>2. QED  BY <3>1 DEF TranslateInv, TranslateTypes, T!TypeOK, ShownSet
  <2>2. T!OneCall
    BY DEF TranslateInv, CallInv, T!OneCall
  <2>3. T!ResultFits
    BY DEF TranslateInv, WantedInv, T!ResultFits, T!Open
  <2>4. QED  BY <2>1, <2>2, <2>3 DEF T!ResultOK
<1>4. QED  BY <1>1, <1>2, <1>3, PTL DEF T!Spec
-----------------------------------------------------------------------------
(* Queues of messages. *)

Has(q, e) == \E i \in 1 .. Len(q) : q[i] = e

\* A "no" is followed by a "yes".
Settled(q) ==
  \A i \in 1 .. Len(q) : q[i] = "no" => \E j \in 1 .. Len(q) : j > i /\ q[j] = "yes"

LEMMA EmptyQueue ==
  /\ \A e : ~Has(<<>>, e)
  /\ Settled(<<>>)
<1>1. 1 .. Len(<<>>) = {}
  OBVIOUS
<1>2. QED  BY <1>1 DEF Has, Settled

LEMMA Appended ==
  ASSUME NEW S, NEW q \in Seq(S), NEW x \in S
  PROVE  /\ Append(q, x) \in Seq(S) /\ Append(q, x) # <<>> /\ Last(Append(q, x)) = x
         /\ \A e : Has(Append(q, x), e) <=> Has(q, e) \/ x = e
         /\ x = "yes" => Settled(Append(q, x))
<1> DEFINE a == Append(q, x)
           n == Len(q)
<1>1. /\ n \in Nat /\ a \in Seq(S) /\ Len(a) = n + 1 /\ a[n + 1] = x
      /\ \A i \in 1 .. n : a[i] = q[i]
  OBVIOUS
<1>2. a # <<>>
  BY <1>1
<1> HIDE DEF a
<1>3. Last(a) = x
  BY <1>1 DEF Last
<1>4. \A e : Has(a, e) <=> Has(q, e) \/ x = e
  <2> SUFFICES ASSUME NEW e  PROVE Has(a, e) <=> Has(q, e) \/ x = e
    OBVIOUS
  <2>1. ASSUME NEW i \in 1 .. n + 1
        PROVE  i \in 1 .. n \/ i = n + 1
    BY <1>1
  <2>2. \A i \in 1 .. n : i \in 1 .. n + 1
    BY <1>1
  <2>3. n + 1 \in 1 .. n + 1
    BY <1>1
  <2>4. ASSUME Has(a, e)
        PROVE  Has(q, e) \/ x = e
    <3>1. PICK i \in 1 .. n + 1 : a[i] = e
      BY <1>1, <2>4 DEF Has
    <3>2. CASE i \in 1 .. n
      BY <1>1, <3>1, <3>2 DEF Has
    <3>3. CASE i = n + 1
      BY <1>1, <3>1, <3>3
    <3>4. QED  BY <2>1, <3>2, <3>3
  <2>5. ASSUME Has(q, e)
        PROVE  Has(a, e)
    <3>1. PICK i \in 1 .. n : q[i] = e
      BY <2>5 DEF Has
    <3>2. i \in 1 .. Len(a) /\ a[i] = e
      BY <1>1, <2>2, <3>1
    <3>3. QED  BY <3>2 DEF Has
  <2>6. ASSUME x = e
        PROVE  Has(a, e)
    <3>1. n + 1 \in 1 .. Len(a) /\ a[n + 1] = e
      BY <1>1, <2>3, <2>6
    <3>2. QED  BY <3>1 DEF Has
  <2>7. QED  BY <2>4, <2>5, <2>6
<1>5. ASSUME x = "yes"
      PROVE  Settled(a)
  <2>1. ASSUME NEW i \in 1 .. Len(a), a[i] = "no"
        PROVE  \E j \in 1 .. Len(a) : j > i /\ a[j] = "yes"
    <3>1. i \in 1 .. n + 1 /\ i # n + 1
      BY <1>1, <1>5, <2>1
    <3>2. n + 1 \in 1 .. Len(a) /\ n + 1 > i
      BY <1>1, <3>1
    <3>3. a[n + 1] = "yes"
      BY <1>1, <1>5
    <3>4. QED  BY <3>2, <3>3
  <2>2. QED  BY <2>1 DEF Settled
<1>6. QED  BY <1>1, <1>2, <1>3, <1>4, <1>5 DEF a

LEMMA Taken ==
  ASSUME NEW S, NEW q \in Seq(S), q # <<>>
  PROVE  /\ Head(q) \in S /\ Tail(q) \in Seq(S)
         /\ \A e : Has(q, e) <=> Head(q) = e \/ Has(Tail(q), e)
         /\ Settled(q) => Settled(Tail(q)) /\ (Head(q) = "no" => Has(Tail(q), "yes"))
         /\ IF Tail(q) = <<>> THEN Last(q) = Head(q) ELSE Last(q) = Last(Tail(q))
<1> DEFINE t == Tail(q)
           n == Len(q)
<1>1. /\ n \in Nat /\ n > 0 /\ Head(q) = q[1] /\ q[1] \in S /\ t \in Seq(S) /\ Len(t) = n - 1
      /\ \A i \in 1 .. n - 1 : t[i] = q[i + 1]
  OBVIOUS
<1> HIDE DEF t
<1>9. t = <<>> <=> n = 1
  BY <1>1
<1>2. ASSUME NEW i \in 1 .. n, i # 1
      PROVE  i - 1 \in 1 .. Len(t) /\ t[i - 1] = q[i]
  <2>1. i - 1 \in 1 .. n - 1 /\ (i - 1) + 1 = i
    BY <1>1, <1>2
  <2>2. t[i - 1] = q[(i - 1) + 1]
    BY <1>1, <2>1
  <2>3. QED  BY <1>1, <2>1, <2>2
<1>3. ASSUME NEW i \in 1 .. Len(t)
      PROVE  i + 1 \in 1 .. n /\ t[i] = q[i + 1]
  BY <1>1
<1>4. 1 \in 1 .. n
  BY <1>1
<1>5. \A e : Has(q, e) <=> Head(q) = e \/ Has(t, e)
  <2> SUFFICES ASSUME NEW e  PROVE Has(q, e) <=> Head(q) = e \/ Has(t, e)
    OBVIOUS
  <2>1. ASSUME Has(q, e)
        PROVE  Head(q) = e \/ Has(t, e)
    <3>1. PICK i \in 1 .. n : q[i] = e
      BY <2>1 DEF Has
    <3>2. CASE i = 1
      BY <1>1, <3>1, <3>2
    <3>3. CASE i # 1
      BY <1>2, <3>1, <3>3 DEF Has
    <3>4. QED  BY <3>2, <3>3
  <2>2. ASSUME Head(q) = e \/ Has(t, e)
        PROVE  Has(q, e)
    <3>1. CASE Head(q) = e
      BY <1>1, <1>4, <3>1 DEF Has
    <3>2. CASE Has(t, e)
      <4>1. PICK i \in 1 .. Len(t) : t[i] = e
        BY <3>2 DEF Has
      <4>2. i + 1 \in 1 .. n /\ q[i + 1] = e
        BY <1>3, <4>1
      <4>3. QED  BY <4>2 DEF Has
    <3>3. QED  BY <2>2, <3>1, <3>2
  <2>3. QED  BY <2>1, <2>2
<1>6. ASSUME Settled(q)
      PROVE  Settled(t) /\ (Head(q) = "no" => Has(t, "yes"))
  <2>1. ASSUME NEW i \in 1 .. Len(t), t[i] = "no"
        PROVE  \E j \in 1 .. Len(t) : j > i /\ t[j] = "yes"
    <3>1. i + 1 \in 1 .. n /\ q[i + 1] = "no"
      BY <1>3, <2>1
    <3>2. PICK j \in 1 .. n : j > i + 1 /\ q[j] = "yes"
      BY <1>6, <3>1 DEF Settled
    <3>3. j # 1 /\ j - 1 > i
      BY <3>2
    <3>4. j - 1 \in 1 .. Len(t) /\ t[j - 1] = "yes"
      BY <1>2, <3>2, <3>3
    <3>5. QED  BY <3>3, <3>4
  <2>2. ASSUME Head(q) = "no"
        PROVE  Has(t, "yes")
    <3>1. PICK j \in 1 .. n : j > 1 /\ q[j] = "yes"
      BY <1>1, <1>4, <1>6, <2>2 DEF Settled
    <3>2. j # 1
      BY <3>1
    <3>3. j - 1 \in 1 .. Len(t) /\ t[j - 1] = "yes"
      BY <1>2, <3>1, <3>2
    <3>4. QED  BY <3>3 DEF Has
  <2>3. QED  BY <2>1, <2>2 DEF Settled
<1>7. IF t = <<>> THEN Last(q) = Head(q) ELSE Last(q) = Last(t)
  <2>1. CASE t = <<>>
    BY <1>1, <1>9, <2>1 DEF Last
  <2>2. CASE t # <<>>
    <3>1. n # 1 /\ n \in 1 .. n /\ n - 1 = Len(t)
      BY <1>1, <1>9, <2>2
    <3>2. QED  BY <1>2, <2>2, <3>1 DEF Last
  <2>3. QED  BY <2>1, <2>2
<1>8. QED  BY <1>1, <1>5, <1>6, <1>7 DEF t
-----------------------------------------------------------------------------
(* The consent to the transcript. *)

Requests == 0..MaxRequests
Downs == {"ack", "yes", "no", "bye"}
Hosts == [state : {"idle", "starting", "on"}, toggle : BOOLEAN, consented : BOOLEAN]
Entries == [active : BOOLEAN, requested : Requests, consent : BOOLEAN, viewers : SUBSET Guests]
Page == [online : BOOLEAN, asked : Requests, ended : BOOLEAN, decision : {"pending", "yes", "no"}]

\* TypeOK by its owners; the queues are functions on all guests.
HostTypes ==
  /\ host \in Hosts /\ request \in Requests /\ recs \in 0..MaxRecordings
  /\ up \in Seq(Requests) /\ down \in Seq(Downs)
EntryTypes == entry \in {None} \cup Entries
GuestTypes ==
  /\ guest \in [Guests -> Page]
  /\ in \in [Guests -> Seq(Requests \cup {-1})] /\ out \in [Guests -> Seq(BOOLEAN)]
  /\ yes \subseteq Requests \ {0}

\* Until a guest has said yes, nobody has heard of one.
GivenInv ==
  yes = {} => /\ ~host.consented /\ ~Has(down, "yes")
              /\ entry # None => ~entry.consent
              /\ \A g \in Guests : ~Has(out[g], TRUE)

\* A recording that is served has a page that has not been told of its end.
SocketInv ==
  /\ C!Active => host.state \in {"starting", "on"} /\ ~Has(down, "bye")
  /\ host.toggle => request # 0

\* The host knows of the entry's consent, or a "yes" is the last answer on
\* its way, or a withdrawal is.
KnownInv ==
  C!Active /\ entry.consent /\ ~Has(up, 0) =>
    Settled(down) /\ (host.consented \/ Has(down, "yes"))

\* The last request of the page is the entry's, or is on its way.
RequestInv ==
  host.state = "on" /\ C!Active /\ host.toggle =>
    IF up = <<>> THEN entry.requested # 0 ELSE Last(up) # 0

\* A listed guest has seen the request, or it is the last on its way.
AskedInv ==
  entry # None /\ entry.requested # 0 =>
    \A g \in entry.viewers :
      IF in[g] = <<>> THEN guest[g].asked # 0 ELSE Last(in[g]) \notin {0, -1}

ConsentInv ==
  /\ HostTypes /\ EntryTypes /\ GuestTypes
  /\ GivenInv /\ SocketInv /\ KnownInv /\ RequestInv /\ AskedInv

LEMMA ConsentInit ==
  ASSUME C!ConsentAssumption, C!Init
  PROVE  ConsentInv
<1>1. /\ host = [state |-> "idle", toggle |-> FALSE, consented |-> FALSE]
      /\ request = 0 /\ recs = 0 /\ up = <<>> /\ down = <<>> /\ entry = None
      /\ guest = [g \in Guests |-> C!FreshPage]
      /\ in = [g \in Guests |-> <<>>] /\ out = in /\ yes = {}
      /\ MaxRequests \in Nat /\ MaxRecordings \in Nat
  BY DEF C!Init, C!ConsentAssumption
<1>2. HostTypes
  BY <1>1 DEF HostTypes, Hosts, Requests
<1>3. GuestTypes
  <2>1. C!FreshPage \in Page
    BY <1>1 DEF C!FreshPage, Page, Requests
  <2>2. QED  BY <1>1, <2>1 DEF GuestTypes
<1>4. GivenInv
  BY <1>1, EmptyQueue DEF GivenInv
<1>5. ~C!Active
  BY <1>1 DEF C!Active
<1>6. QED  BY <1>1, <1>2, <1>3, <1>4, <1>5
           DEF ConsentInv, EntryTypes, SocketInv, KnownInv, RequestInv, AskedInv

(* The switch and the start of a recording.                                *)
LEMMA HostStartsKeeps ==
  ASSUME C!ConsentAssumption, ConsentInv, C!HostStarts
  PROVE  ConsentInv'
<1>1. /\ host' = [host EXCEPT !.state = "starting", !.consented = FALSE]
      /\ UNCHANGED <<up, down, entry, guest, in, out, yes>>
      /\ request' = (IF host.toggle THEN request + 1 ELSE request)
      /\ recs' = recs + 1 /\ recs < MaxRecordings /\ ~C!Active
      /\ host.toggle => request < MaxRequests
      /\ MaxRequests \in Nat /\ MaxRecordings \in Nat
  BY DEF C!HostStarts, C!pages, C!ConsentAssumption
<1>2. /\ host' \in Hosts /\ host'.state = "starting" /\ host'.consented = FALSE
      /\ host'.toggle = host.toggle
  BY <1>1 DEF ConsentInv, HostTypes, Hosts
<1>3. request' \in Requests /\ recs' \in 0..MaxRecordings /\ (host.toggle => request' # 0)
  BY <1>1 DEF ConsentInv, HostTypes, Requests
<1>4. ~C!Active'
  BY <1>1 DEF C!Active
<1>5. HostTypes' /\ EntryTypes' /\ GuestTypes'
  BY <1>1, <1>2, <1>3 DEF ConsentInv, HostTypes, EntryTypes, GuestTypes
<1>6. GivenInv' /\ SocketInv' /\ KnownInv' /\ RequestInv' /\ AskedInv'
  BY <1>1, <1>2, <1>3, <1>4 DEF ConsentInv, GivenInv, SocketInv, KnownInv, RequestInv, AskedInv
<1>7. QED  BY <1>5, <1>6 DEF ConsentInv

LEMMA ToggleOnKeeps ==
  ASSUME C!ConsentAssumption, ConsentInv, C!ToggleOn
  PROVE  ConsentInv'
<1>1. /\ host' = [host EXCEPT !.toggle = TRUE]
      /\ UNCHANGED <<recs, down, entry, guest, in, out, yes>>
      /\ request' = request + 1 /\ request < MaxRequests /\ MaxRequests \in Nat
      /\ up' \in {up, Append(up, request + 1)}
      /\ host.state # "idle" /\ C!Active => up' = Append(up, request + 1)
  BY DEF C!ToggleOn, C!Sends, C!pages, C!ConsentAssumption
<1>2. /\ host' \in Hosts /\ host'.state = host.state /\ host'.consented = host.consented
      /\ host'.toggle = TRUE
  BY <1>1 DEF ConsentInv, HostTypes, Hosts
<1>3. request + 1 \in Requests /\ request + 1 # 0
  BY <1>1 DEF ConsentInv, HostTypes, Requests
<1>4. up \in Seq(Requests)
  BY DEF ConsentInv, HostTypes
<1>5. /\ Append(up, request + 1) \in Seq(Requests) /\ Append(up, request + 1) # <<>>
      /\ Last(Append(up, request + 1)) = request + 1
      /\ Has(Append(up, request + 1), 0) <=> Has(up, 0) \/ request + 1 = 0
  BY <1>3, <1>4, Appended
<1>6. up' \in Seq(Requests) /\ (Has(up, 0) <=> Has(up', 0))
  BY <1>1, <1>3, <1>4, <1>5
<1>7. C!Active' <=> C!Active
  BY <1>1 DEF C!Active
<1>8. HostTypes' /\ EntryTypes' /\ GuestTypes'
  BY <1>1, <1>2, <1>3, <1>6 DEF ConsentInv, HostTypes, EntryTypes, GuestTypes
<1>9. GivenInv' /\ SocketInv' /\ AskedInv'
  BY <1>1, <1>2, <1>3, <1>7 DEF ConsentInv, GivenInv, SocketInv, AskedInv
<1>10. KnownInv'
  BY <1>1, <1>2, <1>6, <1>7 DEF ConsentInv, KnownInv
<1>11. RequestInv'
  BY <1>1, <1>2, <1>3, <1>5, <1>7 DEF RequestInv
<1>12. QED  BY <1>8, <1>9, <1>10, <1>11 DEF ConsentInv

LEMMA ToggleOffKeeps ==
  ASSUME ConsentInv, 0 \in Requests, C!ToggleOff
  PROVE  ConsentInv'
<1>1. /\ host' = [host EXCEPT !.toggle = FALSE, !.consented = FALSE]
      /\ UNCHANGED <<request, recs, down, entry, guest, in, out, yes>>
      /\ up' \in {up, Append(up, 0)}
      /\ host.state # "idle" /\ C!Active => up' = Append(up, 0)
  BY DEF C!ToggleOff, C!Sends, C!pages
<1>2. /\ host' \in Hosts /\ host'.state = host.state /\ host'.consented = FALSE
      /\ host'.toggle = FALSE
  BY <1>1 DEF ConsentInv, HostTypes, Hosts
<1>3. up \in Seq(Requests)
  BY DEF ConsentInv, HostTypes
<1>4. Append(up, 0) \in Seq(Requests) /\ Has(Append(up, 0), 0)
  BY <1>3, Appended
<1>5. up' \in Seq(Requests) /\ (C!Active => Has(up', 0))
  BY <1>1, <1>3, <1>4 DEF ConsentInv, SocketInv
<1>6. C!Active' <=> C!Active
  BY <1>1 DEF C!Active
<1>7. HostTypes' /\ EntryTypes' /\ GuestTypes'
  BY <1>1, <1>2, <1>5 DEF ConsentInv, HostTypes, EntryTypes, GuestTypes
<1>8. GivenInv' /\ SocketInv' /\ AskedInv'
  BY <1>1, <1>2, <1>6 DEF ConsentInv, GivenInv, SocketInv, AskedInv
<1>9. KnownInv' /\ RequestInv'
  BY <1>2, <1>5, <1>6 DEF KnownInv, RequestInv
<1>10. QED  BY <1>7, <1>8, <1>9 DEF ConsentInv

(* What the page is told.                                                  *)
LEMMA HostReceivesKeeps ==
  ASSUME ConsentInv, C!HostReceives
  PROVE  ConsentInv'
<1> DEFINE h == Head(down)
<1>1. /\ down # <<>> /\ down' = Tail(down)
      /\ UNCHANGED <<request, recs, entry, guest, in, out, yes>>
      /\ host' = CASE h = "ack" -> [host EXCEPT !.state = "on"]
                   [] h = "bye" -> [host EXCEPT !.state = "idle"]
                   [] OTHER -> [host EXCEPT !.consented = h = "yes"]
      /\ CASE h = "ack" /\ host.toggle -> C!Sends(request)
           [] h = "bye" -> up' = <<>>
           [] OTHER -> UNCHANGED up
  BY DEF C!HostReceives, C!pages
<1>2. /\ up \in Seq(Requests) /\ down \in Seq(Downs) /\ host \in Hosts /\ request \in Requests
      /\ host.toggle => request # 0
  BY DEF ConsentInv, HostTypes, SocketInv
<1>3. /\ h \in Downs /\ down' \in Seq(Downs)
      /\ \A e : Has(down, e) <=> h = e \/ Has(down', e)
      /\ Settled(down) => Settled(down') /\ (h = "no" => Has(down', "yes"))
  BY <1>1, <1>2, Taken
<1> HIDE DEF h
<1>4. C!Active' <=> C!Active
  BY <1>1 DEF C!Active
<1>5. C!Active => h # "bye" /\ ~Has(down', "bye")
  BY <1>3 DEF ConsentInv, SocketInv
<1>6. /\ host' \in Hosts /\ host'.toggle = host.toggle
      /\ host'.state = IF h = "ack" THEN "on" ELSE IF h = "bye" THEN "idle" ELSE host.state
      /\ host'.consented = IF h = "yes" THEN TRUE ELSE IF h = "no" THEN FALSE ELSE host.consented
  <2>1. CASE h = "ack"
    BY <1>1, <1>2, <2>1 DEF Hosts
  <2>2. CASE h = "bye"
    BY <1>1, <1>2, <2>2 DEF Hosts
  <2>3. CASE h = "yes"
    <3>1. host' = [host EXCEPT !.consented = TRUE]
      BY <1>1, <2>3
    <3>2. QED  BY <1>2, <2>3, <3>1 DEF Hosts
  <2>4. CASE h = "no"
    <3>1. host' = [host EXCEPT !.consented = FALSE]
      BY <1>1, <2>4
    <3>2. QED  BY <1>2, <2>4, <3>1 DEF Hosts
  <2>5. QED  BY <1>3, <2>1, <2>2, <2>3, <2>4 DEF Downs
<1>7. /\ up' \in {up, Append(up, request), <<>>}
      /\ up' = Append(up, request) => host.toggle \/ up' = up
      /\ h # "bye" => up' \in {up, Append(up, request)}
      /\ h = "ack" /\ host.toggle /\ C!Active => up' = Append(up, request)
      /\ h \notin {"ack", "bye"} => up' = up
  <2>1. CASE h = "ack" /\ host.toggle
    BY <1>1, <2>1 DEF C!Sends
  <2>2. CASE h = "ack" /\ ~host.toggle
    BY <1>1, <2>2
  <2>3. CASE h = "bye"
    <3>1. up' = <<>> /\ h # "ack"
      BY <1>1, <2>3
    <3>2. Append(up, request) # <<>>
      BY <1>2, Appended
    <3>3. QED  BY <2>3, <3>1, <3>2
  <2>4. CASE h \notin {"ack", "bye"}
    BY <1>1, <2>4
  <2>5. QED  BY <2>1, <2>2, <2>3, <2>4
<1>8. /\ Append(up, request) \in Seq(Requests) /\ Append(up, request) # <<>>
      /\ Last(Append(up, request)) = request
      /\ Has(Append(up, request), 0) <=> Has(up, 0) \/ request = 0
  BY <1>2, Appended
<1>9. up' \in Seq(Requests)
  <2>1. <<>> \in Seq(Requests)
    OBVIOUS
  <2>2. QED  BY <1>2, <1>7, <1>8, <2>1
<1>10. HostTypes' /\ EntryTypes' /\ GuestTypes'
  BY <1>1, <1>3, <1>6, <1>9 DEF ConsentInv, HostTypes, EntryTypes, GuestTypes
<1>11. GivenInv'
  BY <1>1, <1>3, <1>6 DEF ConsentInv, GivenInv
<1>12. SocketInv'
  BY <1>1, <1>4, <1>5, <1>6 DEF ConsentInv, SocketInv
<1>13. AskedInv'
  BY <1>1 DEF ConsentInv, AskedInv
<1>14. KnownInv'
  <2> SUFFICES ASSUME C!Active, entry.consent, ~Has(up', 0)
               PROVE  Settled(down') /\ (host'.consented \/ Has(down', "yes"))
    BY <1>1, <1>4 DEF KnownInv
  <2>1. h # "bye"
    BY <1>5
  <2>2. ~Has(up, 0)
    BY <1>7, <1>8, <2>1
  <2>3. Settled(down) /\ (host.consented \/ Has(down, "yes"))
    BY <2>2 DEF ConsentInv, KnownInv
  <2>4. QED  BY <1>3, <1>6, <2>3
<1>15. RequestInv'
  <2> SUFFICES ASSUME host'.state = "on", C!Active, host.toggle
               PROVE  IF up' = <<>> THEN entry.requested # 0 ELSE Last(up') # 0
    BY <1>1, <1>4, <1>6 DEF RequestInv
  <2>1. CASE h = "ack"
    BY <1>2, <1>7, <1>8, <2>1
  <2>2. CASE h # "ack"
    <3>1. up' = up /\ host.state = "on"
      BY <1>5, <1>6, <1>7, <2>2
    <3>2. QED  BY <3>1 DEF ConsentInv, RequestInv
  <2>3. QED  BY <2>1, <2>2
<1>16. QED  BY <1>10, <1>11, <1>12, <1>13, <1>14, <1>15 DEF ConsentInv

(* The recording starts: a consent there is known with the acknowledgement. *)
LEMMA HandleConfigKeeps ==
  ASSUME ConsentInv, 0 \in Requests, C!HandleConfig
  PROVE  ConsentInv'
<1> DEFINE b == IF entry = None THEN C!FreshEntry ELSE entry
<1>1. /\ host.state = "starting" /\ down = <<>> /\ entry' = [b EXCEPT !.active = TRUE]
      /\ down' = down \o (IF entry'.consent THEN <<"ack", "yes">> ELSE <<"ack">>)
      /\ UNCHANGED <<host, request, recs, up, guest, in, out, yes>>
  BY DEF C!HandleConfig, C!pages
<1>2. /\ b \in Entries
      /\ b.consent => entry # None /\ entry.consent
      /\ b.requested # 0 => entry # None /\ b = entry
  <2>1. CASE entry = None
    BY <2>1 DEF C!FreshEntry, Entries
  <2>2. CASE entry # None
    BY <2>2 DEF ConsentInv, EntryTypes
  <2>3. QED  BY <2>1, <2>2
<1> HIDE DEF b
<1>3. /\ entry' \in Entries /\ entry'.consent = b.consent /\ entry'.requested = b.requested
      /\ entry'.viewers = b.viewers
  BY <1>1, <1>2 DEF Entries
<1> DEFINE one == <<"ack">>
           two == <<"ack", "yes">>
<1>4. /\ one \in Seq(Downs) /\ ~Has(one, "bye") /\ ~Has(one, "yes")
  <2>1. one \in Seq(Downs) /\ Len(one) = 1 /\ one[1] = "ack"
    BY DEF Downs
  <2> HIDE DEF one
  <2>2. QED  BY <2>1 DEF Has
<1>5. /\ two \in Seq(Downs) /\ ~Has(two, "bye") /\ Has(two, "yes") /\ Settled(two)
  <2>1. /\ two \in Seq(Downs) /\ Len(two) = 2 /\ two[1] = "ack" /\ two[2] = "yes"
        /\ 1..2 = {1, 2}
    BY DEF Downs
  <2> HIDE DEF two
  <2>2. QED  BY <2>1 DEF Has, Settled
<1>6. down' = IF entry'.consent THEN two ELSE one
  <2>1. one = <<"ack">> /\ two = <<"ack", "yes">>
    OBVIOUS
  <2>2. one \in Seq(Downs) /\ two \in Seq(Downs)
    BY <1>4, <1>5
  <2> HIDE DEF one, two
  <2>3. <<>> \o one = one /\ <<>> \o two = two
    BY <2>2
  <2>4. CASE entry'.consent
    <3>1. down' = <<>> \o two
      BY <1>1, <2>1, <2>4
    <3>2. QED  BY <2>3, <2>4, <3>1
  <2>5. CASE ~entry'.consent
    <3>1. down' = <<>> \o one
      BY <1>1, <2>1, <2>5
    <3>2. QED  BY <2>3, <2>5, <3>1
  <2>6. QED  BY <2>4, <2>5
<1> HIDE DEF one, two
<1>7. HostTypes' /\ EntryTypes' /\ GuestTypes'
  BY <1>1, <1>3, <1>4, <1>5, <1>6 DEF ConsentInv, HostTypes, EntryTypes, GuestTypes
<1>8. GivenInv'
  BY <1>1, <1>2, <1>3, <1>4, <1>6 DEF ConsentInv, GivenInv
<1>9. SocketInv'
  BY <1>1, <1>4, <1>5, <1>6 DEF ConsentInv, SocketInv
<1>10. KnownInv'
  BY <1>5, <1>6 DEF KnownInv
<1>11. RequestInv'
  BY <1>1 DEF RequestInv
<1>12. AskedInv'
  BY <1>1, <1>2, <1>3 DEF ConsentInv, AskedInv
<1>13. QED  BY <1>7, <1>8, <1>9, <1>10, <1>11, <1>12 DEF ConsentInv

(* The request reaches the entry and is passed to the guests listed.       *)
LEMMA HandleRequestedKeeps ==
  ASSUME ConsentInv, C!HandleRequested
  PROVE  ConsentInv'
<1> DEFINE m == Head(up)
           c == entry.consent /\ m # 0
<1>1. /\ up # <<>> /\ C!Active /\ up' = Tail(up)
      /\ entry' = [entry EXCEPT !.requested = m, !.consent = c]
      /\ in' = [g \in Guests |-> IF g \in entry.viewers THEN Append(in[g], m) ELSE in[g]]
      /\ UNCHANGED <<host, request, recs, down, guest, out, yes>>
  BY DEF C!HandleRequested, C!ToViewers
<1>2. /\ entry # None /\ entry \in Entries /\ up \in Seq(Requests)
      /\ in \in [Guests -> Seq(Requests \cup {-1})]
  BY <1>1 DEF ConsentInv, EntryTypes, HostTypes, GuestTypes, C!Active
<1>3. c \in BOOLEAN /\ (c => entry.consent /\ m # 0)
  BY <1>2 DEF Entries
<1>4. /\ m \in Requests /\ up' \in Seq(Requests)
      /\ \A e : Has(up, e) <=> m = e \/ Has(up', e)
      /\ IF up' = <<>> THEN Last(up) = m ELSE Last(up) = Last(up')
  BY <1>1, <1>2, Taken
<1> HIDE DEF m, c
<1>5. \A g \in Guests : /\ Append(in[g], m) \in Seq(Requests \cup {-1})
                        /\ Append(in[g], m) # <<>> /\ Last(Append(in[g], m)) = m
  <2> SUFFICES ASSUME NEW g \in Guests
               PROVE  /\ Append(in[g], m) \in Seq(Requests \cup {-1})
                      /\ Append(in[g], m) # <<>> /\ Last(Append(in[g], m)) = m
    OBVIOUS
  <2>1. in[g] \in Seq(Requests \cup {-1}) /\ m \in Requests \cup {-1}
    BY <1>2, <1>4
  <2>2. QED  BY <2>1, Appended
<1>6. /\ entry' \in Entries /\ entry'.active = entry.active /\ entry'.requested = m
      /\ entry'.consent = c /\ entry'.viewers = entry.viewers
  BY <1>1, <1>2, <1>3, <1>4 DEF Entries
<1>7. HostTypes' /\ EntryTypes' /\ GuestTypes'
  BY <1>1, <1>2, <1>4, <1>5, <1>6 DEF ConsentInv, HostTypes, EntryTypes, GuestTypes
<1>8. GivenInv'
  BY <1>1, <1>2, <1>3, <1>6 DEF ConsentInv, GivenInv
<1>9. SocketInv'
  BY <1>1 DEF ConsentInv, SocketInv
<1>10. KnownInv'
  <2> SUFFICES ASSUME c, ~Has(up', 0)
               PROVE  Settled(down) /\ (host.consented \/ Has(down, "yes"))
    BY <1>1, <1>6 DEF KnownInv
  <2>1. entry.consent /\ ~Has(up, 0)
    BY <1>3, <1>4
  <2>2. QED  BY <1>1, <2>1 DEF ConsentInv, KnownInv
<1>11. RequestInv'
  <2> SUFFICES ASSUME host.state = "on", host.toggle
               PROVE  IF up' = <<>> THEN m # 0 ELSE Last(up') # 0
    BY <1>1, <1>6 DEF RequestInv
  <2>1. Last(up) # 0
    BY <1>1 DEF ConsentInv, RequestInv
  <2>2. QED  BY <1>4, <2>1
<1>12. AskedInv'
  <2> SUFFICES ASSUME m # 0, NEW g \in entry.viewers
               PROVE  in'[g] # <<>> /\ Last(in'[g]) \notin {0, -1}
    BY <1>6 DEF AskedInv
  <2>1. g \in Guests /\ in'[g] = Append(in[g], m) /\ m # -1
    BY <1>1, <1>2, <1>4 DEF Entries, Requests
  <2>2. QED  BY <1>5, <2>1
<1>13. QED  BY <1>7, <1>8, <1>9, <1>10, <1>11, <1>12 DEF ConsentInv

(* An answer reaches the entry, and the host is told what holds.           *)
LEMMA HandleConsentKeeps ==
  ASSUME ConsentInv, NEW g \in Guests, C!HandleConsent(g)
  PROVE  ConsentInv'
<1>1. /\ out[g] # <<>> /\ out' = [out EXCEPT ![g] = Tail(out[g])]
      /\ entry' = IF entry # None /\ Head(out[g]) THEN [entry EXCEPT !.consent = TRUE] ELSE entry
      /\ down' = IF C!Active THEN Append(down, IF entry'.consent THEN "yes" ELSE "no") ELSE down
      /\ UNCHANGED <<host, request, recs, up, guest, in, yes>>
  BY DEF C!HandleConsent
<1>2. /\ out \in [Guests -> Seq(BOOLEAN)] /\ down \in Seq(Downs) /\ entry \in {None} \cup Entries
  BY DEF ConsentInv, EntryTypes, HostTypes, GuestTypes
<1>3. /\ Head(out[g]) \in BOOLEAN /\ Tail(out[g]) \in Seq(BOOLEAN)
      /\ \A e : Has(out[g], e) <=> Head(out[g]) = e \/ Has(Tail(out[g]), e)
  BY <1>1, <1>2, Taken
<1>4. /\ out' \in [Guests -> Seq(BOOLEAN)] /\ out'[g] = Tail(out[g])
      /\ \A h \in Guests : h # g => out'[h] = out[h]
  BY <1>1, <1>2, <1>3
<1>5. /\ entry' = entry \/ (entry # None /\ Head(out[g]))
      /\ entry' \in {None} \cup Entries
      /\ entry = None => entry' = None
      /\ entry # None => /\ entry'.active = entry.active /\ entry'.requested = entry.requested
                         /\ entry'.viewers = entry.viewers
  <2>1. CASE entry # None /\ Head(out[g])
    <3>1. entry' = [entry EXCEPT !.consent = TRUE] /\ entry \in Entries
      BY <1>1, <1>2, <2>1
    <3>2. /\ entry' \in Entries /\ entry'.active = entry.active
          /\ entry'.requested = entry.requested /\ entry'.viewers = entry.viewers
      BY <3>1 DEF Entries
    <3>3. QED  BY <2>1, <3>2
  <2>2. CASE ~(entry # None /\ Head(out[g]))
    BY <1>1, <1>2, <2>2
  <2>3. QED  BY <2>1, <2>2
<1>6. C!Active' => C!Active
  BY <1>5 DEF C!Active
<1> DEFINE x == IF entry'.consent THEN "yes" ELSE "no"
<1>7. /\ x \in Downs /\ (x = "yes" <=> entry'.consent) /\ x # "bye"
      /\ down' = IF C!Active THEN Append(down, x) ELSE down
  BY <1>1 DEF Downs
<1> HIDE DEF x
<1>8. /\ Append(down, x) \in Seq(Downs)
      /\ \A e : Has(Append(down, x), e) <=> Has(down, e) \/ x = e
      /\ x = "yes" => Settled(Append(down, x))
  BY <1>2, <1>7, Appended
<1>9. HostTypes' /\ EntryTypes' /\ GuestTypes'
  BY <1>1, <1>2, <1>4, <1>5, <1>7, <1>8 DEF ConsentInv, HostTypes, EntryTypes, GuestTypes
<1>10. GivenInv'
  <2> SUFFICES ASSUME yes = {}
               PROVE  /\ ~host.consented /\ ~Has(down', "yes")
                      /\ entry' # None => ~entry'.consent
                      /\ \A h \in Guests : ~Has(out'[h], TRUE)
    BY <1>1 DEF GivenInv
  <2>1. /\ ~host.consented /\ ~Has(down, "yes") /\ (entry # None => ~entry.consent)
        /\ \A h \in Guests : ~Has(out[h], TRUE)
    BY DEF ConsentInv, GivenInv
  <2>2. ~Head(out[g])
    <3>1. Head(out[g]) # TRUE
      BY <1>3, <2>1
    <3>2. QED  BY <1>3, <3>1
  <2>3. entry' = entry
    BY <1>5, <2>2
  <2>4. ~Has(down', "yes")
    <3>1. CASE C!Active
      <4>1. entry # None
        BY <3>1 DEF C!Active
      <4>2. x # "yes"
        BY <1>7, <2>1, <2>3, <4>1
      <4>3. QED  BY <1>7, <1>8, <2>1, <3>1, <4>2
    <3>2. CASE ~C!Active
      BY <1>7, <2>1, <3>2
    <3>3. QED  BY <3>1, <3>2
  <2>5. \A h \in Guests : ~Has(out'[h], TRUE)
    BY <1>3, <1>4, <2>1
  <2>6. QED  BY <2>1, <2>3, <2>4, <2>5
<1>11. SocketInv'
  BY <1>1, <1>6, <1>7, <1>8 DEF ConsentInv, SocketInv
<1>12. KnownInv'
  BY <1>6, <1>7, <1>8 DEF KnownInv
<1>13. RequestInv'
  <2>1. C!Active => entry # None
    BY DEF C!Active
  <2>2. QED  BY <1>1, <1>5, <1>6, <2>1 DEF ConsentInv, RequestInv
<1>14. AskedInv'
  BY <1>1, <1>5 DEF ConsentInv, AskedInv
<1>15. QED  BY <1>9, <1>10, <1>11, <1>12, <1>13, <1>14 DEF ConsentInv

LEMMA RecordingEndsKeeps ==
  ASSUME ConsentInv, C!RecordingEnds
  PROVE  ConsentInv'
<1>1. /\ C!Active /\ entry' = None /\ up' = <<>> /\ down' = Append(down, "bye")
      /\ in' = [g \in Guests |-> IF g \in entry.viewers THEN Append(in[g], -1) ELSE in[g]]
      /\ UNCHANGED <<host, request, recs, guest, out, yes>>
  BY DEF C!RecordingEnds, C!ToViewers
<1>2. down \in Seq(Downs) /\ in \in [Guests -> Seq(Requests \cup {-1})]
  BY DEF ConsentInv, HostTypes, GuestTypes
<1>3. Append(down, "bye") \in Seq(Downs) /\ (Has(Append(down, "bye"), "yes") => Has(down, "yes"))
  <2>1. "bye" \in Downs
    BY DEF Downs
  <2>2. QED  BY <1>2, <2>1, Appended
<1>4. \A g \in Guests : Append(in[g], -1) \in Seq(Requests \cup {-1})
  BY <1>2
<1>5. ~C!Active'
  BY <1>1 DEF C!Active
<1>6. HostTypes' /\ EntryTypes' /\ GuestTypes'
  <2>1. <<>> \in Seq(Requests)
    OBVIOUS
  <2>2. QED  BY <1>1, <1>2, <1>3, <1>4, <2>1
             DEF ConsentInv, HostTypes, EntryTypes, GuestTypes
<1>7. GivenInv'
  BY <1>1, <1>3 DEF ConsentInv, GivenInv
<1>8. SocketInv' /\ KnownInv' /\ RequestInv' /\ AskedInv'
  BY <1>1, <1>5 DEF ConsentInv, SocketInv, KnownInv, RequestInv, AskedInv
<1>9. QED  BY <1>6, <1>7, <1>8 DEF ConsentInv

(* The guests' pages.                                                      *)
LEMMA GuestConnectsKeeps ==
  ASSUME ConsentInv, 0 \in Requests, NEW g \in Guests, C!GuestConnects(g)
  PROVE  ConsentInv'
<1> DEFINE b == IF entry = None THEN C!FreshEntry ELSE entry
           told == IF entry'.requested # 0 THEN <<entry'.requested>> ELSE <<>>
<1>1. /\ guest' = [guest EXCEPT ![g] = [guest[g] EXCEPT !.online = TRUE]]
      /\ entry' = [b EXCEPT !.viewers = b.viewers \cup {g}]
      /\ in' = [in EXCEPT ![g] = told]
      /\ UNCHANGED <<host, request, recs, up, down, out, yes>>
  BY DEF C!GuestConnects
<1>2. /\ b \in Entries
      /\ entry = None => /\ b.active = FALSE /\ b.requested = 0 /\ b.consent = FALSE
                         /\ b.viewers = {}
      /\ entry # None => b = entry
  <2>1. CASE entry = None
    BY <2>1 DEF C!FreshEntry, Entries
  <2>2. CASE entry # None
    BY <2>2 DEF ConsentInv, EntryTypes
  <2>3. QED  BY <2>1, <2>2
<1> HIDE DEF b
<1>3. /\ entry' \in Entries /\ entry'.active = b.active /\ entry'.requested = b.requested
      /\ entry'.consent = b.consent /\ entry'.viewers = b.viewers \cup {g}
  BY <1>1, <1>2 DEF Entries
<1>4. /\ told \in Seq(Requests \cup {-1})
      /\ entry'.requested # 0 => told # <<>> /\ Last(told) = entry'.requested
  <2>1. CASE entry'.requested = 0
    BY <2>1
  <2>2. CASE entry'.requested # 0
    <3> DEFINE r == entry'.requested
    <3>1. r \in Requests /\ r # 0
      BY <1>3, <2>2 DEF Entries
    <3> HIDE DEF r
    <3>2. /\ <<r>> \in Seq(Requests \cup {-1}) /\ Len(<<r>>) = 1
          /\ <<r>> # <<>> /\ <<r>>[1] = r
      BY <3>1
    <3>3. Last(<<r>>) = r
      BY <3>2 DEF Last
    <3>4. told = <<r>>
      BY <2>2 DEF r
    <3>5. QED  BY <3>2, <3>3, <3>4 DEF r
  <2>3. QED  BY <2>1, <2>2
<1> HIDE DEF told
<1>5. /\ guest \in [Guests -> Page] /\ in \in [Guests -> Seq(Requests \cup {-1})]
  BY DEF ConsentInv, GuestTypes
<1>6. /\ guest' \in [Guests -> Page] /\ \A h \in Guests : guest'[h].asked = guest[h].asked
  <2> DEFINE n == [guest[g] EXCEPT !.online = TRUE]
  <2>1. n \in Page /\ n.asked = guest[g].asked
    BY <1>5 DEF Page
  <2>2. guest' = [guest EXCEPT ![g] = n]
    BY <1>1
  <2> HIDE DEF n
  <2>3. QED  BY <1>5, <2>1, <2>2
<1>7. /\ in' \in [Guests -> Seq(Requests \cup {-1})] /\ in'[g] = told
      /\ \A h \in Guests : h # g => in'[h] = in[h]
  BY <1>1, <1>4, <1>5
<1>8. C!Active' => entry # None /\ C!Active /\ b = entry
  BY <1>2, <1>3 DEF C!Active
<1>9. HostTypes' /\ EntryTypes' /\ GuestTypes'
  BY <1>1, <1>3, <1>6, <1>7 DEF ConsentInv, HostTypes, EntryTypes, GuestTypes
<1>10. GivenInv'
  BY <1>1, <1>2, <1>3 DEF ConsentInv, GivenInv
<1>11. SocketInv' /\ KnownInv' /\ RequestInv'
  BY <1>1, <1>3, <1>8 DEF ConsentInv, SocketInv, KnownInv, RequestInv
<1>12. AskedInv'
  <2> SUFFICES ASSUME entry'.requested # 0, NEW h \in entry'.viewers
               PROVE  IF in'[h] = <<>> THEN guest'[h].asked # 0 ELSE Last(in'[h]) \notin {0, -1}
    BY DEF AskedInv
  <2>1. CASE h = g
    <3>1. entry'.requested \notin {0, -1}
      BY <1>3 DEF Entries, Requests
    <3>2. QED  BY <1>4, <1>7, <2>1, <3>1
  <2>2. CASE h # g
    <3>1. h \in b.viewers /\ h \in Guests
      BY <1>2, <1>3, <2>2 DEF Entries
    <3>2. entry # None /\ b = entry
      BY <1>2, <3>1
    <3>3. IF in[h] = <<>> THEN guest[h].asked # 0 ELSE Last(in[h]) \notin {0, -1}
      BY <1>3, <3>1, <3>2 DEF ConsentInv, AskedInv
    <3>4. QED  BY <1>6, <1>7, <2>2, <3>1, <3>3
  <2>3. QED  BY <2>1, <2>2
<1>13. QED  BY <1>9, <1>10, <1>11, <1>12 DEF ConsentInv

LEMMA GuestDropsKeeps ==
  ASSUME ConsentInv, 0 \in Requests, NEW g \in Guests, C!GuestDrops(g)
  PROVE  ConsentInv'
<1> DEFINE off == [guest[g] EXCEPT !.online = FALSE]
<1>1. /\ guest' = [guest EXCEPT ![g] = off] \/ guest' = [guest EXCEPT ![g] = C!FreshPage]
      /\ in' = [in EXCEPT ![g] = <<>>] /\ out' = [out EXCEPT ![g] = <<>>]
      /\ entry' = IF entry = None THEN None ELSE [entry EXCEPT !.viewers = entry.viewers \ {g}]
      /\ UNCHANGED <<host, request, recs, up, down, yes>>
  BY DEF C!GuestDrops
<1>2. /\ guest \in [Guests -> Page] /\ in \in [Guests -> Seq(Requests \cup {-1})]
      /\ out \in [Guests -> Seq(BOOLEAN)] /\ entry \in {None} \cup Entries
  BY DEF ConsentInv, GuestTypes, EntryTypes
<1>3. /\ guest' \in [Guests -> Page] /\ \A h \in Guests : h # g => guest'[h] = guest[h]
  <2>1. off \in Page
    BY <1>2 DEF Page
  <2>2. C!FreshPage \in Page
    BY DEF C!FreshPage, Page
  <2> HIDE DEF off
  <2>3. QED  BY <1>1, <1>2, <2>1, <2>2
<1>4. /\ in' \in [Guests -> Seq(Requests \cup {-1})] /\ out' \in [Guests -> Seq(BOOLEAN)]
      /\ out'[g] = <<>>
      /\ \A h \in Guests : h # g => in'[h] = in[h] /\ out'[h] = out[h]
  <2>1. <<>> \in Seq(Requests \cup {-1}) /\ <<>> \in Seq(BOOLEAN)
    OBVIOUS
  <2>2. QED  BY <1>1, <1>2, <2>1
<1>5. /\ entry' \in {None} \cup Entries
      /\ entry' # None => /\ entry # None
                          /\ entry'.active = entry.active /\ entry'.requested = entry.requested
                          /\ entry'.consent = entry.consent
                          /\ entry'.viewers = entry.viewers \ {g} /\ entry.viewers \subseteq Guests
  <2>1. CASE entry = None
    BY <1>1, <2>1
  <2>2. CASE entry # None
    <3>1. entry \in Entries /\ entry' = [entry EXCEPT !.viewers = entry.viewers \ {g}]
      BY <1>1, <1>2, <2>2
    <3>2. QED  BY <2>2, <3>1 DEF Entries
  <2>3. QED  BY <2>1, <2>2
<1>6. C!Active' => C!Active /\ entry' # None
  BY <1>5 DEF C!Active
<1>7. HostTypes' /\ EntryTypes' /\ GuestTypes'
  BY <1>1, <1>3, <1>4, <1>5 DEF ConsentInv, HostTypes, EntryTypes, GuestTypes
<1>8. GivenInv'
  <2>1. ~Has(out'[g], TRUE)
    BY <1>4, EmptyQueue
  <2>2. QED  BY <1>1, <1>4, <1>5, <2>1 DEF ConsentInv, GivenInv
<1>9. SocketInv' /\ KnownInv' /\ RequestInv'
  BY <1>1, <1>5, <1>6 DEF ConsentInv, SocketInv, KnownInv, RequestInv
<1>10. AskedInv'
  BY <1>3, <1>4, <1>5 DEF ConsentInv, AskedInv
<1>11. QED  BY <1>7, <1>8, <1>9, <1>10 DEF ConsentInv

LEMMA GuestReceivesKeeps ==
  ASSUME ConsentInv, 0 \in Requests, NEW g \in Guests, C!GuestReceives(g)
  PROVE  ConsentInv'
<1> DEFINE r == Head(in[g])
           t == Tail(in[g])
           p == IF r = -1 THEN C!Ended(guest[g])
                ELSE [guest[g] EXCEPT !.asked = r,
                        !.decision = IF (r # 0) = (guest[g].asked # 0) THEN guest[g].decision
                                                                       ELSE "pending"]
<1>1. /\ in[g] # <<>> /\ in' = [in EXCEPT ![g] = t] /\ guest' = [guest EXCEPT ![g] = p]
      /\ UNCHANGED <<host, request, recs, up, down, entry, out, yes>>
  BY DEF C!GuestReceives
<1>2. /\ guest \in [Guests -> Page] /\ in \in [Guests -> Seq(Requests \cup {-1})]
      /\ guest[g] \in Page
  BY DEF ConsentInv, GuestTypes
<1>3. /\ r \in Requests \cup {-1} /\ t \in Seq(Requests \cup {-1})
      /\ IF t = <<>> THEN Last(in[g]) = r ELSE Last(in[g]) = Last(t)
  BY <1>1, <1>2, Taken
<1> HIDE DEF r, t
<1>4. /\ p \in Page
      /\ r # -1 => p.asked = r
  <2>1. CASE r = -1
    <3>1. p = [guest[g] EXCEPT !.asked = 0, !.ended = TRUE]
      BY <2>1 DEF C!Ended
    <3>2. QED  BY <1>2, <2>1, <3>1 DEF Page
  <2>2. CASE r # -1
    <3> DEFINE d == IF (r # 0) = (guest[g].asked # 0) THEN guest[g].decision ELSE "pending"
    <3>1. d \in {"pending", "yes", "no"} /\ r \in Requests
      BY <1>2, <1>3, <2>2 DEF Page
    <3>2. p = [guest[g] EXCEPT !.asked = r, !.decision = d]
      BY <2>2
    <3> HIDE DEF d, p
    <3>3. QED  BY <1>2, <3>1, <3>2 DEF Page
  <2>3. QED  BY <2>1, <2>2
<1> HIDE DEF p
<1>5. /\ guest' \in [Guests -> Page] /\ guest'[g] = p
      /\ in' \in [Guests -> Seq(Requests \cup {-1})] /\ in'[g] = t
      /\ \A h \in Guests : h # g => guest'[h] = guest[h] /\ in'[h] = in[h]
  BY <1>1, <1>2, <1>3, <1>4
<1>6. C!Active' <=> C!Active
  BY <1>1 DEF C!Active
<1>7. HostTypes' /\ EntryTypes' /\ GuestTypes'
  BY <1>1, <1>5 DEF ConsentInv, HostTypes, EntryTypes, GuestTypes
<1>8. GivenInv' /\ SocketInv' /\ KnownInv' /\ RequestInv'
  BY <1>1, <1>6 DEF ConsentInv, GivenInv, SocketInv, KnownInv, RequestInv
<1>9. AskedInv'
  <2> SUFFICES ASSUME entry # None, entry.requested # 0, NEW h \in entry.viewers
               PROVE  IF in'[h] = <<>> THEN guest'[h].asked # 0 ELSE Last(in'[h]) \notin {0, -1}
    BY <1>1 DEF AskedInv
  <2>1. h \in Guests
    BY DEF ConsentInv, EntryTypes, Entries
  <2>2. IF in[h] = <<>> THEN guest[h].asked # 0 ELSE Last(in[h]) \notin {0, -1}
    BY DEF ConsentInv, AskedInv
  <2>3. CASE h = g
    BY <1>1, <1>3, <1>4, <1>5, <2>2, <2>3
  <2>4. CASE h # g
    BY <1>5, <2>1, <2>2, <2>4
  <2>5. QED  BY <2>3, <2>4
<1>10. QED  BY <1>7, <1>8, <1>9 DEF ConsentInv

LEMMA GuestAnswersKeeps ==
  ASSUME ConsentInv, NEW g \in Guests, NEW b \in BOOLEAN, C!GuestAnswers(g, b)
  PROVE  ConsentInv'
<1> DEFINE p == [guest[g] EXCEPT !.decision = IF b THEN "yes" ELSE "no"]
           a == Append(out[g], b)
<1>1. /\ guest[g].asked # 0 /\ guest' = [guest EXCEPT ![g] = p]
      /\ out' = IF guest[g].online THEN [out EXCEPT ![g] = a] ELSE out
      /\ yes' = IF b THEN yes \cup {guest[g].asked} ELSE yes
      /\ UNCHANGED <<host, request, recs, up, down, entry, in>>
  BY DEF C!GuestAnswers, C!Asked
<1>2. /\ guest \in [Guests -> Page] /\ guest[g] \in Page
      /\ out \in [Guests -> Seq(BOOLEAN)] /\ yes \subseteq Requests \ {0}
  BY DEF ConsentInv, GuestTypes
<1>3. p \in Page /\ p.asked = guest[g].asked
  <2> DEFINE d == IF b THEN "yes" ELSE "no"
  <2>1. d \in {"pending", "yes", "no"} /\ p = [guest[g] EXCEPT !.decision = d]
    OBVIOUS
  <2> HIDE DEF d, p
  <2>2. QED  BY <1>2, <2>1 DEF Page
<1> HIDE DEF p
<1>4. /\ guest' \in [Guests -> Page]
      /\ \A h \in Guests : guest'[h].asked = guest[h].asked
  BY <1>1, <1>2, <1>3
<1>5. a \in Seq(BOOLEAN) /\ (Has(a, TRUE) <=> Has(out[g], TRUE) \/ b = TRUE)
  <2>1. out[g] \in Seq(BOOLEAN)
    BY <1>2
  <2>2. QED  BY <2>1, Appended
<1> HIDE DEF a
<1>6. /\ out' \in [Guests -> Seq(BOOLEAN)] /\ out'[g] \in {out[g], a}
      /\ \A h \in Guests : h # g => out'[h] = out[h]
  BY <1>1, <1>2, <1>5
<1>7. yes' \subseteq Requests \ {0} /\ yes \subseteq yes' /\ (b => yes' # {})
  BY <1>1, <1>2 DEF Page
<1>8. C!Active' <=> C!Active
  BY <1>1 DEF C!Active
<1>9. HostTypes' /\ EntryTypes' /\ GuestTypes'
  BY <1>1, <1>4, <1>6, <1>7 DEF ConsentInv, HostTypes, EntryTypes, GuestTypes
<1>10. GivenInv'
  <2> SUFFICES ASSUME yes' = {}
               PROVE  /\ ~host.consented /\ ~Has(down, "yes")
                      /\ entry # None => ~entry.consent
                      /\ \A h \in Guests : ~Has(out'[h], TRUE)
    BY <1>1 DEF GivenInv
  <2>1. yes = {} /\ ~b
    BY <1>7
  <2>2. b # TRUE
    BY <2>1
  <2>3. /\ ~host.consented /\ ~Has(down, "yes") /\ (entry # None => ~entry.consent)
        /\ \A h \in Guests : ~Has(out[h], TRUE)
    BY <2>1 DEF ConsentInv, GivenInv
  <2>4. \A h \in Guests : ~Has(out'[h], TRUE)
    BY <1>5, <1>6, <2>2, <2>3
  <2>5. QED  BY <2>3, <2>4
<1>11. SocketInv' /\ KnownInv' /\ RequestInv'
  BY <1>1, <1>8 DEF ConsentInv, SocketInv, KnownInv, RequestInv
<1>12. AskedInv'
  <2>1. entry # None => entry.viewers \subseteq Guests
    BY DEF ConsentInv, EntryTypes, Entries
  <2>2. QED  BY <1>1, <1>4, <2>1 DEF ConsentInv, AskedInv
<1>13. QED  BY <1>9, <1>10, <1>11, <1>12 DEF ConsentInv

LEMMA ConsentNext ==
  ASSUME C!ConsentAssumption, ConsentInv, [C!Next]_C!vars
  PROVE  ConsentInv'
<1>1. 0 \in Requests
  BY DEF C!ConsentAssumption, Requests
<1>2. CASE UNCHANGED C!vars
  <2>1. UNCHANGED <<host, request, recs, up, down, entry, guest, in, out, yes>>
    BY <1>2 DEF C!vars, C!pages
  <2>2. C!Active' <=> C!Active
    BY <2>1 DEF C!Active
  <2>3. QED  BY <2>1, <2>2 DEF ConsentInv, HostTypes, EntryTypes, GuestTypes, GivenInv,
                               SocketInv, KnownInv, RequestInv, AskedInv
<1>3. CASE C!HostStarts
  BY <1>3, HostStartsKeeps
<1>4. CASE C!ToggleOn
  BY <1>4, ToggleOnKeeps
<1>5. CASE C!ToggleOff
  BY <1>1, <1>5, ToggleOffKeeps
<1>6. CASE C!HostReceives
  BY <1>6, HostReceivesKeeps
<1>7. CASE C!HandleConfig
  BY <1>1, <1>7, HandleConfigKeeps
<1>8. CASE C!HandleRequested
  BY <1>8, HandleRequestedKeeps
<1>9. CASE C!RecordingEnds
  BY <1>9, RecordingEndsKeeps
<1>10. ASSUME NEW g \in Guests, C!GuestConnects(g) \/ C!GuestDrops(g) \/ C!Delivered(g)
       PROVE  ConsentInv'
  <2>1. CASE C!GuestConnects(g)
    BY <1>1, <2>1, GuestConnectsKeeps
  <2>2. CASE C!GuestDrops(g)
    BY <1>1, <2>2, GuestDropsKeeps
  <2>3. CASE C!GuestReceives(g)
    BY <1>1, <2>3, GuestReceivesKeeps
  <2>4. CASE C!HandleConsent(g)
    BY <2>4, HandleConsentKeeps
  <2>5. QED  BY <1>10, <2>1, <2>2, <2>3, <2>4 DEF C!Delivered
<1>11. ASSUME NEW g \in Guests, NEW b \in BOOLEAN, C!GuestAnswers(g, b)
       PROVE  ConsentInv'
  BY <1>11, GuestAnswersKeeps
<1>12. QED
  BY <1>2, <1>3, <1>4, <1>5, <1>6, <1>7, <1>8, <1>9, <1>10, <1>11 DEF C!Next

LEMMA ConsentFollows ==
  ASSUME ConsentInv
  PROVE  C!ConsentOK
<1>1. C!TypeOK
  BY DEF ConsentInv, HostTypes, EntryTypes, GuestTypes, C!TypeOK, Hosts, Requests, C!Requests,
         Downs, Entries, Page
<1>2. C!ConsentIsGiven
  <2>1. ASSUME "yes" \in C!ToSet(down)
        PROVE  Has(down, "yes")
    <3>1. PICK i \in DOMAIN down : down[i] = "yes"
      BY <2>1 DEF C!ToSet
    <3>2. down \in Seq(Downs)
      BY DEF ConsentInv, HostTypes
    <3>3. i \in 1 .. Len(down)
      BY <3>1, <3>2
    <3>4. QED  BY <3>1, <3>3 DEF Has
  <2>2. QED  BY <2>1 DEF ConsentInv, GivenInv, C!ConsentIsGiven
<1>3. C!ConsentKnown
  <2>1. up = <<>> /\ down = <<>> => ~Has(up, 0) /\ ~Has(down, "yes")
    BY EmptyQueue
  <2>2. QED  BY <2>1 DEF ConsentInv, KnownInv, C!ConsentKnown, C!AtRest
<1>4. C!GuestsAreAsked
  <2> SUFFICES ASSUME C!AtRest, host.toggle, NEW g \in entry.viewers, in[g] = <<>>
               PROVE  guest[g].asked # 0
    BY DEF C!GuestsAreAsked
  <2>1. entry # None /\ entry.requested # 0
    BY DEF ConsentInv, RequestInv, C!AtRest, C!Active
  <2>2. QED  BY <2>1 DEF ConsentInv, AskedInv
<1>5. QED  BY <1>1, <1>2, <1>3, <1>4 DEF C!ConsentOK

\* The consent to the transcript (host.js, viewer.js, viewer.py): it is a
\* guest's, it is known to the host once all that was sent has arrived, and
\* every guest listed is asked while the switch is on.
THEOREM ConsentHolds ==
  ASSUME C!ConsentAssumption
  PROVE  C!Spec => []C!ConsentOK
<1>1. C!Init => ConsentInv
  BY ConsentInit
<1>2. ConsentInv /\ [C!Next]_C!vars => ConsentInv'
  BY ConsentNext
<1>3. ConsentInv => C!ConsentOK
  BY ConsentFollows
<1>4. QED  BY <1>1, <1>2, <1>3, PTL DEF C!Spec
-----------------------------------------------------------------------------
(* The accounts. *)

Outcomes == {"sent", "ok", "refused", "forbidden", "error"}
Asked == [id : 0..MaxOps, kind : Kinds, email : Emails \cup {None}, new : Emails \cup {None},
          stage : Outcomes, list : Seq(Emails)]

\* TypeOK, with the requests as a set of records; what is to be written is an address.
AccountTypes ==
  /\ file \in {Broken} \cup Seq(Emails) /\ cache \in {None} \cup Seq(Emails)
  /\ admin \in BOOLEAN /\ panel \in {"open", "login"}
  /\ table \in Seq(Emails) /\ editing \in Emails \cup {None} /\ opened \in Emails \cup {None}
  /\ ops \in 0..MaxOps
  /\ asks \subseteq Asked /\ \A r \in asks : r.kind \in {"add", "save"} => r.new \in Emails
  /\ unsaved \in BOOLEAN /\ renamed \in BOOLEAN /\ disturbed \in BOOLEAN

\* NoDoubles, for the file too: a restart loads it.
UniqueInv ==
  ~renamed => /\ file # Broken => IsInjective(file)
              /\ cache # None => IsInjective(cache)

\* Undisturbed, there is one request at a time; the table is the server's but
\* between a change and the answer to the load that follows it.
Fits == table = Loaded /\ opened = editing
TableInv ==
  panel = "open" /\ ~disturbed =>
    /\ ~unsaved
    /\ asks = {} => Fits
    /\ \A r \in asks :
         /\ asks = {r} /\ r.stage # "error"
         /\ r.kind # "load" /\ r.stage \in {"sent", "refused"} => Fits
         /\ r.kind = "load" => r.stage # "refused" /\ (r.stage = "ok" => r.list = Loaded)

AccountInv == AccountTypes /\ CacheIsFile /\ UniqueInv /\ TableInv

LEMMA AccountInit ==
  ASSUME Init
  PROVE  AccountInv
<1> DEFINE r == Ask(0, "load", None, None)
<1>1. /\ file \in {Broken, <<>>} \cup {<<e>> : e \in Emails} /\ cache = None /\ admin \in BOOLEAN
      /\ panel = "open" /\ table = <<>> /\ editing = None /\ opened = None
      /\ asks = {r} /\ ops = 0
      /\ unsaved = FALSE /\ renamed = FALSE /\ disturbed = FALSE
      /\ MaxOps \in Nat
  BY AccountsAssumption DEF Init, AccountsAssumption
<1>2. r \in Asked /\ r.kind = "load" /\ r.stage = "sent"
  BY <1>1 DEF Ask, Asked, Kinds, Outcomes
<1> HIDE DEF r
<1>3. file \in {Broken} \cup Seq(Emails) /\ (file # Broken => IsInjective(file))
  <2>1. CASE file = Broken
    BY <2>1
  <2>2. CASE file = <<>>
    BY <2>2 DEF IsInjective
  <2>3. ASSUME NEW e \in Emails, file = <<e>>
        PROVE  file \in Seq(Emails) /\ IsInjective(file)
    <3>1. file \in Seq(Emails) /\ DOMAIN file = {1}
      BY <2>3
    <3>2. QED  BY <3>1 DEF IsInjective
  <2>4. QED  BY <1>1, <2>1, <2>2, <2>3
<1>4. AccountTypes
  <2>1. <<>> \in Seq(Emails) /\ ops \in 0..MaxOps
    BY <1>1
  <2>2. asks \subseteq Asked /\ \A c \in asks : c.kind \in {"add", "save"} => c.new \in Emails
    BY <1>1, <1>2
  <2>3. QED  BY <1>1, <1>3, <2>1, <2>2 DEF AccountTypes
<1>5. QED  BY <1>1, <1>2, <1>3, <1>4 DEF AccountInv, CacheIsFile, UniqueInv, TableInv

\* Loaded is a list unless the file cannot be read.
LEMMA LoadedFacts ==
  ASSUME AccountInv, Loaded # Broken
  PROVE  Loaded \in Seq(Emails) /\ (~renamed => IsInjective(Loaded))
BY DEF AccountInv, AccountTypes, UniqueInv, Loaded

\* A request under way changes in stage and answer only.
LEMMA Staged ==
  ASSUME asks \subseteq Asked, NEW r \in asks, NEW st \in Outcomes, NEW l \in Seq(Emails),
         Stage(r, st, l)
  PROVE  \E n \in Asked : /\ n.kind = r.kind /\ n.new = r.new /\ n.stage = st /\ n.list = l
                          /\ asks' = (asks \ {r}) \cup {n}
<1> DEFINE n == [r EXCEPT !.stage = st, !.list = l]
<1>1. r \in Asked
  OBVIOUS
<1>2. n \in Asked /\ n.kind = r.kind /\ n.new = r.new /\ n.stage = st /\ n.list = l
  BY <1>1 DEF Asked
<1>3. asks' = (asks \ {r}) \cup {n}
  BY DEF Stage
<1> HIDE DEF n
<1>4. QED  BY <1>2, <1>3

\* The same of an answer that brings no list.
LEMMA StagedEmpty ==
  ASSUME asks \subseteq Asked, NEW r \in asks, NEW st \in Outcomes, Stage(r, st, <<>>)
  PROVE  \E n \in Asked : /\ n.kind = r.kind /\ n.new = r.new /\ n.stage = st
                          /\ asks' = (asks \ {r}) \cup {n}
<1> DEFINE n == [r EXCEPT !.stage = st, !.list = <<>>]
<1>1. r \in Asked /\ <<>> \in Seq(Emails)
  OBVIOUS
<1>2. n \in Asked /\ n.kind = r.kind /\ n.new = r.new /\ n.stage = st
  BY <1>1 DEF Asked
<1>3. asks' = (asks \ {r}) \cup {n}
  BY DEF Stage
<1> HIDE DEF n
<1>4. QED  BY <1>2, <1>3

\* The server writes a list.
LEMMA SaveKeeps ==
  ASSUME AccountInv, NEW r \in asks, r.kind # "load",
         NEW l \in Seq(Emails), NEW m \in Seq(Emails), SaveAccounts(r, l, m),
         renamed' \in BOOLEAN, renamed => renamed',
         ~renamed' => IsInjective(l) /\ IsInjective(m),
         UNCHANGED <<admin, panel, table, editing, opened, ops>>
  PROVE  AccountInv'
<1>1. AccountTypes /\ asks \subseteq Asked /\ <<>> \in Seq(Emails)
  BY DEF AccountInv, AccountTypes
<1>2. CASE file' = l /\ cache' = l /\ Stage(r, "ok", <<>>) /\ unsaved' = FALSE
           /\ UNCHANGED disturbed
  <2>1. PICK n \in Asked : /\ n.kind = r.kind /\ n.new = r.new /\ n.stage = "ok"
                           /\ asks' = (asks \ {r}) \cup {n}
    <3>1. "ok" \in Outcomes
      BY DEF Outcomes
    <3>2. QED  BY <1>1, <1>2, <3>1, StagedEmpty
  <2>2. AccountTypes'
    BY <1>1, <1>2, <2>1 DEF AccountTypes
  <2>3. CacheIsFile' /\ UniqueInv'
    BY <1>2 DEF CacheIsFile, UniqueInv
  <2>4. TableInv'
    <3> SUFFICES ASSUME panel = "open", ~disturbed
                 PROVE  asks' = {n}
      BY <1>2, <2>1 DEF TableInv
    <3>1. QED  BY <2>1 DEF AccountInv, TableInv
  <2>5. QED  BY <2>2, <2>3, <2>4 DEF AccountInv
<1>3. CASE file' \in {file, Broken} /\ cache' = m /\ Stage(r, "error", <<>>)
           /\ unsaved' = TRUE /\ disturbed' = TRUE
  <2>1. PICK n \in Asked : /\ n.kind = r.kind /\ n.new = r.new
                           /\ asks' = (asks \ {r}) \cup {n}
    <3>1. "error" \in Outcomes
      BY DEF Outcomes
    <3>2. QED  BY <1>1, <1>3, <3>1, StagedEmpty
  <2>2. AccountTypes'
    BY <1>1, <1>3, <2>1 DEF AccountTypes
  <2>3. CacheIsFile' /\ TableInv'
    BY <1>3 DEF CacheIsFile, TableInv
  <2>4. UniqueInv'
    BY <1>3 DEF AccountInv, UniqueInv
  <2>5. QED  BY <2>2, <2>3, <2>4 DEF AccountInv
<1>4. QED  BY <1>2, <1>3 DEF SaveAccounts

\* The server has no such account, or has it already.
LEMMA RefuseKeeps ==
  ASSUME AccountInv, NEW r \in asks, r.kind # "load", r.stage = "sent", Loaded # Broken,
         Refuse(r), UNCHANGED <<admin, panel, table, editing, opened, ops, renamed>>
  PROVE  AccountInv'
<1>1. AccountTypes /\ asks \subseteq Asked
  BY DEF AccountInv, AccountTypes
<1>2. Stage(r, "refused", <<>>) /\ cache' = Loaded /\ UNCHANGED <<file, unsaved, disturbed>>
  BY DEF Refuse
<1>3. PICK n \in Asked : /\ n.kind = r.kind /\ n.new = r.new /\ n.stage = "refused"
                         /\ asks' = (asks \ {r}) \cup {n}
  <2>1. "refused" \in Outcomes /\ <<>> \in Seq(Emails)
    BY DEF Outcomes
  <2>2. QED  BY <1>1, <1>2, <2>1, Staged
<1>4. Loaded \in Seq(Emails) /\ (~renamed => IsInjective(Loaded))
  BY LoadedFacts
<1>5. Loaded' = Loaded
  BY <1>2 DEF Loaded
<1>6. AccountTypes'
  BY <1>1, <1>2, <1>3, <1>4 DEF AccountTypes
<1>7. CacheIsFile' /\ UniqueInv'
  BY <1>2, <1>4 DEF AccountInv, CacheIsFile, UniqueInv, Loaded
<1>8. TableInv'
  <2> SUFFICES ASSUME panel = "open", ~disturbed
               PROVE  asks' = {n} /\ Fits' /\ ~unsaved
    BY <1>2, <1>3 DEF TableInv
  <2>1. asks = {r} /\ Fits /\ ~unsaved
    BY DEF AccountInv, TableInv
  <2>2. QED  BY <1>3, <1>5, <2>1 DEF Fits
<1>9. QED  BY <1>6, <1>7, <1>8 DEF AccountInv

\* What is left of a list has nothing that was not there, and nothing twice
\* that was there once.
LEMMA SelectedFacts ==
  ASSUME NEW l \in Seq(Emails), NEW S \in SUBSET (DOMAIN l), NEW k \in Selected(l, S)
  PROVE  k \in Seq(Emails) /\ (IsInjective(l) => IsInjective(k))
<1>1. PICK o \in UNION {[1..n -> S] : n \in 0..Len(l)} :
        /\ \A i, j \in DOMAIN o : i < j => o[i] < o[j]
        /\ k = [i \in DOMAIN o |-> l[o[i]]]
  BY DEF Selected
<1>2. PICK n \in Nat : o \in [1..n -> S]
  <2>1. Len(l) \in Nat
    OBVIOUS
  <2>2. QED  BY <2>1
<1>3. /\ DOMAIN o = 1..n /\ DOMAIN k = 1..n
      /\ \A i \in 1..n : o[i] \in DOMAIN l /\ k[i] = l[o[i]] /\ k[i] \in Emails
  BY <1>1, <1>2
<1>4. k \in Seq(Emails)
  <2>1. k \in [1..n -> Emails]
    BY <1>1, <1>2, <1>3
  <2>2. QED  BY <1>2, <2>1, SeqDef
<1>5. ASSUME IsInjective(l)
      PROVE  IsInjective(k)
  <2> SUFFICES ASSUME NEW i \in 1..n, NEW j \in 1..n, k[i] = k[j]
               PROVE  i = j
    BY <1>3 DEF IsInjective
  <2>1. o[i] = o[j]
    BY <1>3, <1>5 DEF IsInjective
  <2>2. o[i] \in Int /\ o[j] \in Int
    <3>1. Len(l) \in Nat /\ DOMAIN l = 1..Len(l)
      OBVIOUS
    <3>2. QED  BY <1>3, <3>1
  <2>3. (i < j => o[i] < o[j]) /\ (j < i => o[j] < o[i])
    BY <1>1, <1>3
  <2>4. ~(o[i] < o[j]) /\ ~(o[j] < o[i])
    BY <2>1, <2>2
  <2>5. QED  BY <1>2, <2>3, <2>4
<1>6. QED  BY <1>4, <1>5

\* A list with one place taken by another address, or by the one there.
LEMMA ReplacedFacts ==
  ASSUME NEW l \in Seq(Emails), NEW e, NEW n \in Emails, e \in ToSet(l)
  PROVE  LET k == [l EXCEPT ![FirstIndex(l, e)] = n]
         IN k \in Seq(Emails) /\ (IsInjective(l) /\ n = e => IsInjective(k))
<1> DEFINE i == FirstIndex(l, e)
           k == [l EXCEPT ![i] = n]
<1>1. Len(l) \in Nat /\ DOMAIN l = 1..Len(l) /\ l \in [1..Len(l) -> Emails]
  OBVIOUS
<1> HIDE DEF i
<1>2. k \in Seq(Emails)
  <2>1. k \in [1..Len(l) -> Emails]
    BY <1>1
  <2>2. QED  BY <1>1, <2>1, SeqDef
<1>3. ASSUME IsInjective(l), n = e
      PROVE  k = l
  <2>1. PICK x \in DOMAIN l : l[x] = e
    BY DEF ToSet
  <2>2. \A j \in 1..(x - 1) : l[j] # e
    <3>1. ASSUME NEW j \in 1..(x - 1)
          PROVE  j \in DOMAIN l /\ j # x
      BY <1>1, <2>1
    <3>2. QED  BY <1>3, <2>1, <3>1 DEF IsInjective
  <2>3. \E y \in DOMAIN l : l[y] = e /\ \A j \in 1..(y - 1) : l[j] # e
    BY <2>1, <2>2
  <2>4. i \in DOMAIN l /\ l[i] = e
    BY <2>3 DEF i, FirstIndex
  <2>5. QED  BY <1>1, <1>3, <2>4
<1>4. QED  BY <1>2, <1>3 DEF i

LEMMA HandleKeeps ==
  ASSUME AccountInv, NEW r \in asks, Handle(r)
  PROVE  AccountInv'
<1>1. r.stage = "sent" /\ UNCHANGED <<admin, panel, table, editing, opened, ops>>
  BY DEF Handle
<1>2. AccountTypes /\ asks \subseteq Asked /\ r \in Asked /\ <<>> \in Seq(Emails)
  BY DEF AccountInv, AccountTypes
<1>3. CASE ~admin
  <2>1. Stage(r, "forbidden", <<>>) /\ UNCHANGED <<file, cache, unsaved, renamed, disturbed>>
    BY <1>3 DEF Handle
  <2>2. PICK n \in Asked : /\ n.kind = r.kind /\ n.new = r.new /\ n.stage = "forbidden"
                           /\ asks' = (asks \ {r}) \cup {n}
    <3>1. "forbidden" \in Outcomes
      BY DEF Outcomes
    <3>2. QED  BY <1>2, <2>1, <3>1, Staged
  <2>3. AccountTypes'
    BY <1>1, <1>2, <2>1, <2>2 DEF AccountTypes
  <2>4. CacheIsFile' /\ UniqueInv'
    BY <2>1 DEF AccountInv, CacheIsFile, UniqueInv
  <2>5. TableInv'
    <3> SUFFICES ASSUME panel = "open", ~disturbed
                 PROVE  asks' = {n} /\ ~unsaved
      BY <1>1, <2>1, <2>2 DEF TableInv
    <3>1. QED  BY <2>2 DEF AccountInv, TableInv
  <2>6. QED  BY <2>3, <2>4, <2>5 DEF AccountInv
<1>4. CASE admin /\ Loaded = Broken
  <2>1. Stage(r, "error", <<>>) /\ disturbed' = TRUE /\ UNCHANGED <<file, cache, unsaved, renamed>>
    BY <1>4 DEF Handle
  <2>2. PICK n \in Asked : /\ n.kind = r.kind /\ n.new = r.new
                           /\ asks' = (asks \ {r}) \cup {n}
    <3>1. "error" \in Outcomes
      BY DEF Outcomes
    <3>2. QED  BY <1>2, <2>1, <3>1, Staged
  <2>3. AccountTypes'
    BY <1>1, <1>2, <2>1, <2>2 DEF AccountTypes
  <2>4. CacheIsFile' /\ UniqueInv' /\ TableInv'
    BY <2>1 DEF AccountInv, CacheIsFile, UniqueInv, TableInv
  <2>5. QED  BY <2>3, <2>4 DEF AccountInv
<1>5. CASE Loaded # Broken /\ ListAccounts(r)
  <2>1. /\ r.kind = "load" /\ Stage(r, "ok", Loaded) /\ cache' = Loaded
        /\ UNCHANGED <<file, unsaved, renamed, disturbed>>
    BY <1>5 DEF ListAccounts
  <2>2. Loaded \in Seq(Emails) /\ (~renamed => IsInjective(Loaded))
    BY <1>5, LoadedFacts
  <2>3. PICK n \in Asked : /\ n.kind = r.kind /\ n.new = r.new /\ n.stage = "ok"
                           /\ n.list = Loaded /\ asks' = (asks \ {r}) \cup {n}
    <3>1. "ok" \in Outcomes
      BY DEF Outcomes
    <3>2. QED  BY <1>2, <2>1, <2>2, <3>1, Staged
  <2>4. Loaded' = Loaded
    BY <2>1 DEF Loaded
  <2>5. AccountTypes'
    BY <1>1, <1>2, <2>1, <2>2, <2>3 DEF AccountTypes
  <2>6. CacheIsFile' /\ UniqueInv'
    BY <2>1, <2>2 DEF AccountInv, CacheIsFile, UniqueInv, Loaded
  <2>7. TableInv'
    <3> SUFFICES ASSUME panel = "open", ~disturbed
                 PROVE  asks' = {n} /\ ~unsaved
      BY <1>1, <2>1, <2>3, <2>4 DEF TableInv
    <3>1. QED  BY <2>3 DEF AccountInv, TableInv
  <2>8. QED  BY <2>5, <2>6, <2>7 DEF AccountInv
<1>6. CASE Loaded # Broken /\ CreateAccount(r)
  <2>1. r.kind = "add" /\ r.new \in Emails /\ UNCHANGED renamed
    BY <1>2, <1>6 DEF CreateAccount, AccountTypes
  <2>2. CASE r.new \in ToSet(Loaded)
    <3>1. Refuse(r)
      BY <1>6, <2>2 DEF CreateAccount
    <3>2. QED  BY <1>1, <1>6, <2>1, <3>1, RefuseKeeps
  <2>3. CASE r.new \notin ToSet(Loaded)
    <3> DEFINE q == Loaded
               e == r.new
               l == Append(q, e)
    <3>1. SaveAccounts(r, l, l)
      BY <1>6, <2>3 DEF CreateAccount
    <3>2. q \in Seq(Emails) /\ (~renamed => IsInjective(q))
      BY <1>6, LoadedFacts
    <3>3. e \in Emails /\ \A i \in DOMAIN q : q[i] # e
      BY <2>1, <2>3 DEF ToSet
    <3> HIDE DEF q, e
    <3>4. /\ l \in Seq(Emails) /\ Len(q) \in Nat /\ DOMAIN q = 1..Len(q)
          /\ DOMAIN l = 1..(Len(q) + 1) /\ l[Len(q) + 1] = e
          /\ \A i \in 1..Len(q) : l[i] = q[i]
      BY <3>2, <3>3
    <3> HIDE DEF l
    <3>5. ASSUME IsInjective(q)
          PROVE  IsInjective(l)
      <4> SUFFICES ASSUME NEW i \in DOMAIN l, NEW j \in DOMAIN l, l[i] = l[j]
                   PROVE  i = j
        BY DEF IsInjective
      <4>1. (i \in 1..Len(q) \/ i = Len(q) + 1) /\ (j \in 1..Len(q) \/ j = Len(q) + 1)
        BY <3>4
      <4>2. QED  BY <3>3, <3>4, <3>5, <4>1 DEF IsInjective
    <3>6. renamed' \in BOOLEAN
      BY <1>2, <2>1 DEF AccountTypes
    <3>7. r.kind # "load"
      BY <2>1
    <3>8. QED  BY <1>1, <2>1, <3>1, <3>2, <3>4, <3>5, <3>6, <3>7, SaveKeeps
  <2>4. QED  BY <2>2, <2>3
<1>7. CASE Loaded # Broken /\ UpdateAccount(r)
  <2>1. r.kind = "save" /\ r.new \in Emails
    BY <1>2, <1>7 DEF UpdateAccount, AccountTypes
  <2>2. CASE r.email \notin ToSet(Loaded)
    <3>1. Refuse(r) /\ UNCHANGED renamed
      BY <1>7, <2>2 DEF UpdateAccount
    <3>2. QED  BY <1>1, <1>7, <2>1, <3>1, RefuseKeeps
  <2>3. CASE r.email \in ToSet(Loaded)
    <3> DEFINE q == Loaded
               l == [q EXCEPT ![FirstIndex(q, r.email)] = r.new]
    <3>1. SaveAccounts(r, l, l) /\ renamed' = (renamed \/ r.new # r.email)
      BY <1>7, <2>3 DEF UpdateAccount
    <3>2. q \in Seq(Emails) /\ (~renamed => IsInjective(q))
      BY <1>7, LoadedFacts
    <3>3. r.email \in ToSet(q)
      BY <2>3
    <3> HIDE DEF q
    <3>4. l \in Seq(Emails) /\ (IsInjective(q) /\ r.new = r.email => IsInjective(l))
      BY <2>1, <3>2, <3>3, ReplacedFacts
    <3> HIDE DEF l
    <3>5. renamed' \in BOOLEAN /\ (renamed => renamed') /\ (~renamed' => IsInjective(l))
      BY <3>1, <3>2, <3>4
    <3>6. r.kind # "load"
      BY <2>1
    <3>7. QED  BY <1>1, <3>1, <3>4, <3>5, <3>6, SaveKeeps
  <2>4. QED  BY <2>2, <2>3
<1>8. CASE Loaded # Broken /\ RemoveAccount(r)
  <2>1. r.kind = "delete" /\ r.kind # "load" /\ UNCHANGED renamed
    BY <1>8 DEF RemoveAccount
  <2>2. CASE r.email \notin ToSet(Loaded)
    <3>1. Refuse(r)
      BY <1>8, <2>2 DEF RemoveAccount
    <3>2. QED  BY <1>1, <1>8, <2>1, <3>1, RefuseKeeps
  <2>3. CASE r.email \in ToSet(Loaded)
    <3> DEFINE q == Loaded
               S == {i \in DOMAIN q : q[i] # r.email}
    <3>1. PICK l \in Selected(q, S) : SaveAccounts(r, l, q)
      BY <1>8, <2>3 DEF RemoveAccount
    <3>2. q \in Seq(Emails) /\ (~renamed => IsInjective(q)) /\ S \subseteq DOMAIN q
      BY <1>8, LoadedFacts
    <3> HIDE DEF q, S
    <3>3. l \in Seq(Emails) /\ (IsInjective(q) => IsInjective(l))
      BY <3>1, <3>2, SelectedFacts
    <3>4. renamed' \in BOOLEAN /\ (renamed => renamed')
      BY <1>2, <2>1 DEF AccountTypes
    <3>5. ~renamed' => IsInjective(l) /\ IsInjective(q)
      BY <2>1, <3>2, <3>3
    <3>6. QED  BY <1>1, <2>1, <3>1, <3>2, <3>3, <3>4, <3>5, SaveKeeps
  <2>4. QED  BY <2>2, <2>3
<1>9. admin /\ Loaded # Broken =>
        ListAccounts(r) \/ CreateAccount(r) \/ UpdateAccount(r) \/ RemoveAccount(r)
  BY DEF Handle
<1>10. QED  BY <1>3, <1>4, <1>5, <1>6, <1>7, <1>8, <1>9

LEMMA AsksKeeps ==
  ASSUME AccountInv, NEW k \in {"add", "save", "delete"},
         NEW e \in Emails \cup {None}, NEW n \in Emails \cup {None},
         k \in {"add", "save"} => n \in Emails, Asks(k, e, n)
  PROVE  AccountInv'
<1> DEFINE c == Ask(ops + 1, k, e, n)
<1>1. /\ panel = "open" /\ ops < MaxOps /\ ops' = ops + 1 /\ asks' = asks \cup {c}
      /\ disturbed' = (disturbed \/ asks # {})
      /\ UNCHANGED <<file, cache, admin, unsaved, panel, table, editing, opened, renamed>>
      /\ MaxOps \in Nat
  BY AccountsAssumption DEF Asks, Open, server, AccountsAssumption
<1>2. ops' \in 0..MaxOps
  BY <1>1 DEF AccountInv, AccountTypes
<1>3. c \in Asked /\ c.kind = k /\ c.new = n /\ c.stage = "sent"
  <2>1. <<>> \in Seq(Emails) /\ k \in Kinds /\ "sent" \in Outcomes
    BY DEF Kinds, Outcomes
  <2>2. QED  BY <1>1, <1>2, <2>1 DEF Ask, Asked
<1> HIDE DEF c
<1>4. AccountTypes'
  <2>1. disturbed' \in BOOLEAN
    BY <1>1
  <2>2. asks' \subseteq Asked /\ \A r \in asks' : r.kind \in {"add", "save"} => r.new \in Emails
    BY <1>1, <1>3 DEF AccountInv, AccountTypes
  <2>3. QED  BY <1>1, <1>2, <2>1, <2>2 DEF AccountInv, AccountTypes
<1>5. CacheIsFile' /\ UniqueInv'
  BY <1>1 DEF AccountInv, CacheIsFile, UniqueInv
<1>6. TableInv'
  <2> SUFFICES ASSUME panel = "open", ~disturbed'
               PROVE  asks' = {c} /\ Fits' /\ ~unsaved
    BY <1>1, <1>3 DEF TableInv
  <2>1. ~disturbed /\ asks = {}
    BY <1>1
  <2>2. Fits /\ ~unsaved
    BY <2>1 DEF AccountInv, TableInv
  <2>3. Fits'
    BY <1>1, <2>2 DEF Fits, Loaded
  <2>4. QED  BY <1>1, <2>1, <2>2, <2>3
<1>7. QED  BY <1>4, <1>5, <1>6 DEF AccountInv

\* A row is opened, or closed again.
LEMMA RowKeeps ==
  ASSUME AccountInv, NEW e \in Emails \cup {None}, editing' = e, opened' = e, table' = table,
         UNCHANGED <<file, cache, admin, unsaved, panel, asks, ops, renamed, disturbed>>
  PROVE  AccountInv'
<1>1. AccountTypes'
  BY DEF AccountInv, AccountTypes
<1>2. CacheIsFile' /\ UniqueInv'
  BY DEF AccountInv, CacheIsFile, UniqueInv
<1>3. Loaded' = Loaded /\ (Fits => Fits')
  BY DEF Loaded, Fits
<1>4. TableInv'
  BY <1>3 DEF AccountInv, TableInv
<1>5. QED  BY <1>1, <1>2, <1>4 DEF AccountInv

LEMMA AnsweredKeeps ==
  ASSUME AccountInv, NEW r \in asks, Answered(r)
  PROVE  AccountInv'
<1>1. /\ panel = "open" /\ r.stage = "ok"
      /\ UNCHANGED <<file, cache, admin, unsaved, panel, ops, renamed, disturbed>>
  BY DEF Answered, Open, server
<1>2. Loaded' = Loaded
  BY <1>1 DEF Loaded
<1>3. AccountTypes /\ r \in Asked /\ MaxOps \in Nat
  BY AccountsAssumption DEF AccountInv, AccountTypes, AccountsAssumption
<1>4. CacheIsFile' /\ UniqueInv'
  BY <1>1 DEF AccountInv, CacheIsFile, UniqueInv
<1>5. CASE r.kind = "load"
  <2>1. asks' = asks \ {r} /\ table' = r.list /\ opened' = editing /\ editing' = editing
    BY <1>5 DEF Answered, Render
  <2>2. AccountTypes'
    BY <1>1, <1>3, <2>1 DEF AccountTypes, Asked
  <2>3. TableInv'
    <3> SUFFICES ASSUME panel = "open", ~disturbed
                 PROVE  asks' = {} /\ Fits' /\ ~unsaved
      BY <1>1 DEF TableInv
    <3>1. asks = {r} /\ ~unsaved /\ r.list = Loaded
      BY <1>1, <1>5 DEF AccountInv, TableInv
    <3>2. QED  BY <1>2, <2>1, <3>1 DEF Fits
  <2>4. QED  BY <1>4, <2>2, <2>3 DEF AccountInv
<1>6. CASE r.kind # "load"
  <2> DEFINE c == Ask(r.id, "load", None, None)
  <2>1. /\ asks' = (asks \ {r}) \cup {c} /\ editing' \in {None, editing}
        /\ UNCHANGED <<table, opened>>
    BY <1>6 DEF Answered
  <2>2. c \in Asked /\ c.kind = "load" /\ c.stage = "sent"
    <3>1. <<>> \in Seq(Emails) /\ "load" \in Kinds /\ "sent" \in Outcomes /\ r.id \in 0..MaxOps
      BY <1>3 DEF Kinds, Outcomes, Asked
    <3>2. QED  BY <3>1 DEF Ask, Asked
  <2> HIDE DEF c
  <2>3. AccountTypes'
    <3>1. asks' \subseteq Asked /\ \A q \in asks' : q.kind \in {"add", "save"} => q.new \in Emails
      BY <1>3, <2>1, <2>2 DEF AccountTypes
    <3>2. QED  BY <1>1, <1>3, <2>1, <3>1 DEF AccountTypes
  <2>4. TableInv'
    <3> SUFFICES ASSUME panel = "open", ~disturbed
                 PROVE  asks' = {c} /\ ~unsaved
      BY <1>1, <2>2 DEF TableInv
    <3>1. asks = {r} /\ ~unsaved
      BY DEF AccountInv, TableInv
    <3>2. QED  BY <2>1, <3>1
  <2>5. QED  BY <1>4, <2>3, <2>4 DEF AccountInv
<1>7. QED  BY <1>5, <1>6

LEMMA RejectedKeeps ==
  ASSUME AccountInv, NEW r \in asks, Rejected(r)
  PROVE  AccountInv'
<1>1. /\ panel = "open" /\ r.stage \in {"refused", "error"} /\ asks' = asks \ {r}
      /\ UNCHANGED <<file, cache, admin, unsaved, panel, table, editing, opened, ops, renamed,
                     disturbed>>
  BY DEF Rejected, Open, server
<1>2. AccountTypes'
  BY <1>1 DEF AccountInv, AccountTypes
<1>3. CacheIsFile' /\ UniqueInv'
  BY <1>1 DEF AccountInv, CacheIsFile, UniqueInv
<1>4. TableInv'
  <2> SUFFICES ASSUME panel = "open", ~disturbed
               PROVE  asks' = {} /\ Fits' /\ ~unsaved
    BY <1>1 DEF TableInv
  <2>1. asks = {r} /\ Fits /\ ~unsaved
    BY <1>1 DEF AccountInv, TableInv
  <2>2. Fits'
    BY <1>1, <2>1 DEF Fits, Loaded
  <2>3. QED  BY <1>1, <2>1, <2>2
<1>5. QED  BY <1>2, <1>3, <1>4 DEF AccountInv

\* The panel is left, or a connection fails.
LEMMA LostKeeps ==
  ASSUME AccountInv,
         \/ \E r \in asks : Forbidden(r) \/ ConnectionFails(r)
         \/ LoggedOut
  PROVE  AccountInv'
<1>1. /\ UNCHANGED <<file, cache, unsaved, table, editing, opened, ops, renamed>>
      /\ admin' \in BOOLEAN /\ panel' \in {"open", "login"} /\ disturbed' \in BOOLEAN
      /\ asks' \subseteq asks
      /\ panel' = "login" \/ disturbed' = TRUE \/ UNCHANGED <<panel, asks, disturbed>>
  <2>1. AccountTypes
    BY DEF AccountInv
  <2>2. ASSUME NEW r \in asks, Forbidden(r)
        PROVE  <1>1!:
    BY <2>1, <2>2 DEF Forbidden, server, AccountTypes
  <2>3. ASSUME NEW r \in asks, ConnectionFails(r)
        PROVE  <1>1!:
    BY <2>1, <2>3 DEF ConnectionFails, server, AccountTypes
  <2>4. CASE LoggedOut
    BY <2>1, <2>4 DEF LoggedOut, AccountTypes
  <2>5. QED  BY <2>2, <2>3, <2>4
<1>2. AccountTypes'
  BY <1>1 DEF AccountInv, AccountTypes
<1>3. CacheIsFile' /\ UniqueInv'
  BY <1>1 DEF AccountInv, CacheIsFile, UniqueInv
<1>4. Loaded' = Loaded /\ (Fits => Fits')
  BY <1>1 DEF Loaded, Fits
<1>5. TableInv'
  <2>1. CASE panel' = "login" \/ disturbed' = TRUE
    BY <2>1 DEF TableInv
  <2>2. CASE UNCHANGED <<panel, asks, disturbed>>
    BY <1>1, <1>4, <2>2 DEF AccountInv, TableInv
  <2>3. QED  BY <1>1, <2>1, <2>2
<1>6. QED  BY <1>2, <1>3, <1>5 DEF AccountInv

\* Undisturbed, the file is what was in memory.
LEMMA RestartKeeps ==
  ASSUME AccountInv, Restart
  PROVE  AccountInv'
<1>1. /\ cache # None /\ cache' = None /\ unsaved' = FALSE
      /\ UNCHANGED <<file, admin, panel, table, editing, opened, asks, ops, renamed, disturbed>>
  BY DEF Restart
<1>2. AccountTypes'
  BY <1>1 DEF AccountInv, AccountTypes
<1>3. CacheIsFile' /\ UniqueInv'
  BY <1>1 DEF AccountInv, CacheIsFile, UniqueInv
<1>4. TableInv'
  <2> SUFFICES ASSUME panel = "open", ~disturbed
               PROVE  TableInv'
    BY <1>1 DEF TableInv
  <2>1. cache = file
    BY <1>1 DEF AccountInv, TableInv, CacheIsFile
  <2>2. Loaded' = Loaded
    BY <1>1, <2>1 DEF Loaded
  <2>3. Fits => Fits'
    BY <1>1, <2>2 DEF Fits
  <2>4. QED  BY <1>1, <2>2, <2>3 DEF AccountInv, TableInv
<1>5. QED  BY <1>2, <1>3, <1>4 DEF AccountInv

LEMMA AccountNext ==
  ASSUME AccountInv, [Next]_vars
  PROVE  AccountInv'
<1>1. CASE UNCHANGED vars
  <2>1. UNCHANGED <<file, cache, admin, unsaved, panel, table, editing, opened, asks, ops,
                    renamed, disturbed>>
    BY <1>1 DEF vars, server
  <2>2. Loaded' = Loaded /\ (Fits => Fits')
    BY <2>1 DEF Loaded, Fits
  <2>3. AccountTypes' /\ CacheIsFile' /\ UniqueInv'
    BY <2>1 DEF AccountInv, AccountTypes, CacheIsFile, UniqueInv
  <2>4. TableInv'
    BY <2>1, <2>2 DEF AccountInv, TableInv
  <2>5. QED  BY <2>3, <2>4 DEF AccountInv
<1>2. CASE CancelEdit
  <2>1. /\ editing' = None /\ opened' = None /\ table' = table
        /\ UNCHANGED <<file, cache, admin, unsaved, panel, asks, ops, renamed, disturbed>>
    BY <1>2 DEF CancelEdit, Render, server
  <2>2. QED  BY <2>1, RowKeeps
<1>3. ASSUME NEW e \in Emails, StartEdit(e)
      PROVE  AccountInv'
  <2>1. /\ editing' = e /\ opened' = e /\ table' = table
        /\ UNCHANGED <<file, cache, admin, unsaved, panel, asks, ops, renamed, disturbed>>
    BY <1>3 DEF StartEdit, Render, server
  <2>2. QED  BY <2>1, RowKeeps
<1>4. ASSUME NEW e \in Emails, AddSubmitted(e) \/ SaveEdit(e) \/ DeleteAccount(e)
      PROVE  AccountInv'
  <2>1. opened \in Emails \cup {None}
    BY DEF AccountInv, AccountTypes
  <2>2. CASE AddSubmitted(e)
    BY <2>2, AsksKeeps DEF AddSubmitted
  <2>3. CASE SaveEdit(e)
    BY <2>1, <2>3, AsksKeeps DEF SaveEdit
  <2>4. CASE DeleteAccount(e)
    BY <2>4, AsksKeeps DEF DeleteAccount
  <2>5. QED  BY <1>4, <2>2, <2>3, <2>4
<1>5. CASE Restart
  BY <1>5, RestartKeeps
<1>6. CASE LoggedOut \/ \E r \in asks : Forbidden(r) \/ ConnectionFails(r)
  BY <1>6, LostKeeps
<1>7. ASSUME NEW r \in asks, Answered(r) \/ Rejected(r) \/ Handle(r)
      PROVE  AccountInv'
  BY <1>7, AnsweredKeeps, RejectedKeeps, HandleKeeps
<1>8. QED  BY <1>1, <1>2, <1>3, <1>4, <1>5, <1>6, <1>7 DEF Next

LEMMA AccountFollows ==
  ASSUME AccountInv
  PROVE  AdminOK
<1>1. TypeOK
  BY DEF AccountInv, AccountTypes, Asked, Outcomes, TypeOK, Lists
<1>2. CacheIsFile
  BY DEF AccountInv
<1>3. NoDoubles
  BY LoadedFacts DEF NoDoubles
<1>4. TableFits
  BY DEF AccountInv, TableInv, Fits, TableFits, Open
<1>5. QED  BY <1>1, <1>2, <1>3, <1>4 DEF AdminOK

LEMMA AccountInvariant == Spec => []AccountInv
<1>1. Init => AccountInv
  BY AccountInit
<1>2. AccountInv /\ [Next]_vars => AccountInv'
  BY AccountNext
<1>3. QED  BY <1>1, <1>2, PTL DEF Spec

\* The accounts in memory are those on disk unless the last write has failed,
\* and none is there twice before one is given another address (auth.py,
\* routes/admin.py); the panel shows them whenever no answer is awaited,
\* nothing has failed and no operations have overlapped (admin.js).
THEOREM AdminHolds == Spec => []AdminOK
<1>1. AccountInv => AdminOK
  BY AccountFollows
<1>2. QED  BY <1>1, AccountInvariant, PTL
=============================================================================
