----------------------------- MODULE TranslatePage -----------------------------
(***************************************************************************)
(* The text translation page (static/js/translate.js, lib/auth_guard.js):  *)
(* every edit of the text or of a language restarts a timer; when it runs  *)
(* out the text is sent to /api/translate and the request before it is     *)
(* aborted.  Requests wait twice, for the response and for its body; the   *)
(* number of a request is compared with the newest after the first wait    *)
(* only.  An abort ends either wait at once, in the microtasks that follow *)
(* the step that aborts.                                                   *)
(***************************************************************************)
EXTENDS Integers, FiniteSets

CONSTANTS
  Texts,         \* what may be typed, but for blanks
  Langs,         \* the languages of /api/languages
  SrcDefault, TgtDefault,
  MaxEdits,      \* bound: edits of the texts and the languages
  None

TranslateAssumption ==
  /\ MaxEdits \in Nat
  /\ {SrcDefault, TgtDefault} \subseteq Langs
  /\ None \notin Texts \cup Langs

VARIABLES
  text,          \* the source text, None when it is blank
  list,          \* the language list: "loading", "ready" or "failed"
  src, tgt,      \* the languages chosen, None until the list is loaded
  timer,         \* debounceTimer is running
  seq,           \* translateSeq
  calls,         \* the requests under way
  shown,         \* the result panel
  error,         \* the error banner, or None
  page,          \* "open", or "login" once the page has been left
  signedIn,      \* the session at the server
  edits

vars == <<text, list, src, tgt, timer, seq, calls, shown, error, page, signedIn, edits>>

Wanted == [text |-> text, src |-> src, tgt |-> tgt]
Inputs == [text : Texts, src : Langs, tgt : Langs]
Empty == [kind |-> "empty", of |-> None]
Pending == [kind |-> "pending", of |-> None]
Result(input) == [kind |-> "text", of |-> input]

TypeOK ==
  /\ text \in Texts \cup {None}
  /\ src \in Langs \cup {None} /\ tgt \in Langs \cup {None}
  /\ list \in {"loading", "ready", "failed"}
  /\ timer \in BOOLEAN /\ signedIn \in BOOLEAN
  /\ seq \in Nat /\ edits \in 0..MaxEdits
  /\ calls \subseteq [seq : 1..seq, input : Inputs, stage : {"sent", "ok", "bad"}]
  /\ shown \in {Empty, Pending} \cup [kind : {"text"}, of : Inputs]
  /\ error \in {None, "same", "failed", "network", "list"}
  /\ page \in {"open", "login"}

Init ==
  /\ text = None /\ list = "loading" /\ src = None /\ tgt = None
  /\ timer = FALSE /\ seq = 0 /\ calls = {}
  /\ shown = Empty /\ error = None
  /\ page = "open" /\ signedIn \in BOOLEAN /\ edits = 0
----------------------------------------------------------------------------
Open == page = "open"

\* The page is left; nothing it awaits matters any more.
Leave == page' = "login" /\ calls' = {} /\ timer' = FALSE

\* The language list fills both dropdowns, or cannot be loaded.
LanguagesLoaded ==
  /\ Open /\ list = "loading"
  /\ \/ list' = "ready" /\ src' = SrcDefault /\ tgt' = TgtDefault /\ UNCHANGED error
     \/ list' = "failed" /\ error' = "list" /\ UNCHANGED <<src, tgt>>
  /\ UNCHANGED <<text, timer, seq, calls, shown, page, signedIn, edits>>

Edits == Open /\ edits < MaxEdits /\ edits' = edits + 1

\* scheduleTranslate.
Typed(t) ==
  /\ Edits /\ t # text
  /\ text' = t /\ timer' = TRUE
  /\ UNCHANGED <<list, src, tgt, seq, calls, shown, error, page, signedIn>>

\* Mutant: a new language does not translate anew.
LangChosenOnly(s, t) ==
  /\ Edits /\ list = "ready"
  /\ src' = s /\ tgt' = t /\ <<s, t>> # <<src, tgt>>
  /\ UNCHANGED <<text, list, timer, seq, calls, shown, error, page, signedIn>>

LangChosen(s, t) ==
  /\ Edits /\ list = "ready"
  /\ (s = src) # (t = tgt)
  /\ src' = s /\ tgt' = t /\ timer' = TRUE
  /\ UNCHANGED <<text, list, seq, calls, shown, error, page, signedIn>>

\* The clear button stops neither the timer nor a request.
Cleared ==
  /\ Open
  /\ text' = None /\ shown' = Empty /\ error' = None
  /\ UNCHANGED <<list, src, tgt, timer, seq, calls, page, signedIn, edits>>

NothingToDo ==
  /\ text = None \/ src = tgt
  /\ shown' = Empty
  /\ error' = IF text = None THEN None ELSE "same"
  /\ UNCHANGED <<seq, calls>>

Request == [seq |-> seq + 1, input |-> Wanted, stage |-> "sent"]

\* The abort of a request that awaits the detail of an error shows that
\* error after all, over the new request's placeholder.
SendRequest ==
  /\ text # None /\ src # tgt
  /\ seq' = seq + 1
  /\ calls' = {c \in calls : c.seq # seq} \cup {Request}
  /\ IF \E c \in calls : c.seq = seq /\ c.stage = "bad"
     THEN shown' = Empty /\ error' = "failed"
     ELSE shown' = Pending /\ error' = None

\* runTranslate.
TimerFires ==
  /\ Open /\ timer
  /\ timer' = FALSE
  /\ NothingToDo \/ SendRequest
  /\ UNCHANGED <<text, list, src, tgt, page, signedIn, edits>>

Stage(c, st) == calls' = (calls \ {c}) \cup {[c EXCEPT !.stage = st]}

\* The response: 401 leaves the page, the others await a body.
Responded(c) ==
  /\ Open /\ c.stage = "sent"
  /\ IF c.seq # seq THEN calls' = calls \ {c} /\ UNCHANGED <<timer, page>>
     ELSE IF ~signedIn THEN Leave
     ELSE (Stage(c, "ok") \/ Stage(c, "bad")) /\ UNCHANGED <<timer, page>>
  /\ UNCHANGED <<text, list, src, tgt, seq, shown, error, signedIn, edits>>

\* The body of a translation; a blank one is shown as such.
AnswerRead(c) ==
  /\ Open /\ c.stage = "ok"
  /\ calls' = calls \ {c}
  /\ shown' \in {Result(c.input), Empty}
  /\ UNCHANGED <<text, list, src, tgt, timer, seq, error, page, signedIn, edits>>

\* Mutant: only the banner is shown.
ErrorReadOnly(c) ==
  /\ Open /\ c.stage = "bad"
  /\ calls' = calls \ {c}
  /\ error' = "failed"
  /\ UNCHANGED <<text, list, src, tgt, timer, seq, shown, page, signedIn, edits>>

ErrorRead(c) ==
  /\ Open /\ c.stage = "bad"
  /\ calls' = calls \ {c}
  /\ error' = "failed" /\ shown' = Empty
  /\ UNCHANGED <<text, list, src, tgt, timer, seq, page, signedIn, edits>>

\* The network fails, or the body of a translation is no JSON.
CallFails(c) ==
  /\ Open /\ c.stage \in {"sent", "ok"}
  /\ calls' = calls \ {c}
  /\ IF c.seq = seq THEN error' = "network" /\ shown' = Empty ELSE UNCHANGED <<error, shown>>
  /\ UNCHANGED <<text, list, src, tgt, timer, seq, page, signedIn, edits>>

\* requireUser, or the logout button.
UserChecked ==
  /\ Open /\ ~signedIn /\ Leave
  /\ UNCHANGED <<text, list, src, tgt, seq, shown, error, signedIn, edits>>
LoggedOut ==
  /\ Open /\ Leave /\ signedIn' = FALSE
  /\ UNCHANGED <<text, list, src, tgt, seq, shown, error, edits>>

SessionExpires ==
  /\ signedIn /\ signedIn' = FALSE
  /\ UNCHANGED <<text, list, src, tgt, timer, seq, calls, shown, error, page, edits>>
----------------------------------------------------------------------------
Next ==
  \/ LanguagesLoaded \/ Cleared \/ TimerFires
  \/ UserChecked \/ LoggedOut \/ SessionExpires
  \/ \E t \in Texts \cup {None} : Typed(t)
  \/ \E s, t \in Langs : LangChosen(s, t)
  \/ \E c \in calls : Responded(c) \/ AnswerRead(c) \/ ErrorRead(c) \/ CallFails(c)

\* Timers run out, and a request gets its answers or fails.
Fairness ==
  /\ WF_vars(TimerFires)
  /\ WF_vars(\E c \in calls : Responded(c) \/ AnswerRead(c) \/ ErrorRead(c) \/ CallFails(c))

Spec == Init /\ [][Next]_vars /\ Fairness
----------------------------------------------------------------------------
\* There is one request under way at most, the newest (translate.js:98): so
\* the comparison after the first wait suffices for the second.
OneCall == \A c \in calls : c.seq = seq /\ calls = {c}

\* When everything has come to rest, the panel does not show the translation
\* of another text, or into another language, than those on the page.
ResultFits ==
  Open /\ ~timer /\ calls = {} /\ text # None /\ src # tgt /\ shown.kind = "text"
    => shown.of = Wanted

\* The placeholder gives way to a result, an error or another page.
Settles == shown = Pending ~> shown # Pending \/ ~Open

\* No answer but that of the last request gets to the panel, and it fits.
ResultOK == TypeOK /\ OneCall /\ ResultFits
=============================================================================
