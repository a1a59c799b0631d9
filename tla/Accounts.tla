------------------------------- MODULE Accounts -------------------------------
(***************************************************************************)
(* The demo accounts: the file and its cache at the server (auth.py,       *)
(* routes/admin.py) and the admin panel that edits them                    *)
(* (static/js/admin.js).  Every operation of the panel is a request, and   *)
(* one that succeeds loads the table anew by another; the panel disables   *)
(* no button meanwhile, so requests overlap.  A handler of the server does *)
(* not suspend.  Creating and updating change the cached list in place     *)
(* before the file is written; deleting makes a new list.                  *)
(*                                                                         *)
(* An account is its e-mail address; what is not modelled of it (password, *)
(* name, logo) travels with it.                                            *)
(***************************************************************************)
EXTENDS Integers, Sequences, FiniteSets, SequencesExt

CONSTANTS
  Emails,
  MaxOps,        \* bound: operations of the panel
  None, Broken

ASSUME AccountsAssumption ==
  MaxOps \in Nat /\ None \notin Emails

VARIABLES
  file,        \* accounts.json, or Broken
  cache,       \* _accounts, or None
  admin,       \* is_admin in the session
  panel,       \* "open", or "login" once it has been left
  table,       \* the accounts as the panel shows them
  editing,     \* editingEmail, or None
  opened,      \* the row that the table shows with inputs, or None
  asks,        \* the requests under way
  ops,
  unsaved,     \* the last write has failed
  renamed,     \* an update has changed an address
  disturbed    \* a request has failed, or operations have overlapped

server == <<file, cache, admin, unsaved>>
vars == <<server, panel, table, editing, opened, asks, ops, renamed, disturbed>>

Lists == Seq(Emails)
Kinds == {"load", "add", "save", "delete"}

TypeOK ==
  /\ file \in {Broken} \cup Lists /\ cache \in {None} \cup Lists
  /\ admin \in BOOLEAN /\ panel \in {"open", "login"}
  /\ table \in Lists /\ {editing, opened} \subseteq Emails \cup {None} /\ ops \in 0..MaxOps
  /\ \A r \in asks :
       /\ r.id \in 0..MaxOps /\ r.kind \in Kinds /\ r.list \in Lists
       /\ r.email \in Emails \cup {None} /\ r.new \in Emails \cup {None}
       /\ r.stage \in {"sent", "ok", "refused", "forbidden", "error"}
  /\ unsaved \in BOOLEAN /\ renamed \in BOOLEAN /\ disturbed \in BOOLEAN

Ask(id, kind, email, new) ==
  [id |-> id, kind |-> kind, email |-> email, new |-> new, stage |-> "sent", list |-> <<>>]

Init ==
  /\ file \in {Broken, <<>>} \cup {<<e>> : e \in Emails} /\ cache = None /\ admin \in BOOLEAN
  /\ panel = "open" /\ table = <<>> /\ editing = None /\ opened = None
  /\ asks = {Ask(0, "load", None, None)} /\ ops = 0
  /\ unsaved = FALSE /\ renamed = FALSE /\ disturbed = FALSE
----------------------------------------------------------------------------
(* The panel. *)

Open == panel = "open"

\* renderTable: what the buttons of the rows are for.
Plain(e) == e \in ToSet(table) /\ e # opened
Inputs == opened \in ToSet(table)

Render(list, email) == table' = list /\ opened' = email

\* Any button that starts a request.
Asks(kind, email, new) ==
  /\ Open /\ ops < MaxOps
  /\ ops' = ops + 1
  /\ asks' = asks \cup {Ask(ops + 1, kind, email, new)}
  /\ disturbed' = (disturbed \/ asks # {})
  /\ UNCHANGED <<server, panel, table, editing, opened, renamed>>

AddSubmitted(e) == Asks("add", None, e)
SaveEdit(e) == Inputs /\ Asks("save", opened, e)
DeleteAccount(e) == Plain(e) /\ Asks("delete", e, None)

StartEdit(e) ==
  /\ Open /\ Plain(e)
  /\ editing' = e /\ Render(table, e)
  /\ UNCHANGED <<server, panel, asks, ops, renamed, disturbed>>
CancelEdit ==
  /\ Open /\ Inputs
  /\ editing' = None /\ Render(table, None)
  /\ UNCHANGED <<server, panel, asks, ops, renamed, disturbed>>

\* Mutant: the table is not loaded after a deletion.
AnsweredKeepsDeleted(r) ==
  /\ Open /\ r.stage = "ok"
  /\ IF r.kind = "load"
     THEN asks' = asks \ {r} /\ Render(r.list, editing) /\ UNCHANGED editing
     ELSE /\ asks' = (asks \ {r}) \cup
                      (IF r.kind = "delete" THEN {} ELSE {Ask(r.id, "load", None, None)})
          /\ editing' = (IF r.kind = "save" THEN None ELSE editing)
          /\ UNCHANGED <<table, opened>>
  /\ UNCHANGED <<server, panel, ops, renamed, disturbed>>

\* What has succeeded is followed by loadAccounts; a saved row is closed,
\* whichever row is being edited by then.
Answered(r) ==
  /\ Open /\ r.stage = "ok"
  /\ IF r.kind = "load"
     THEN asks' = asks \ {r} /\ Render(r.list, editing) /\ UNCHANGED editing
     ELSE /\ asks' = (asks \ {r}) \cup {Ask(r.id, "load", None, None)}
          /\ editing' = (IF r.kind = "save" THEN None ELSE editing)
          /\ UNCHANGED <<table, opened>>
  /\ UNCHANGED <<server, panel, ops, renamed, disturbed>>

\* A toast, or nothing; the table stays as it is.
Rejected(r) ==
  /\ Open /\ r.stage \in {"refused", "error"}
  /\ asks' = asks \ {r}
  /\ UNCHANGED <<server, panel, table, editing, opened, ops, renamed, disturbed>>

Forbidden(r) ==
  /\ Open /\ r.stage = "forbidden"
  /\ panel' = "login" /\ asks' = {}
  /\ UNCHANGED <<server, table, editing, opened, ops, renamed, disturbed>>

\* The request or its answer is lost.
ConnectionFails(r) ==
  /\ Open /\ asks' = asks \ {r} /\ disturbed' = TRUE
  /\ UNCHANGED <<server, panel, table, editing, opened, ops, renamed>>
----------------------------------------------------------------------------
(* The server. *)

\* get_accounts.
Loaded == IF cache = None THEN file ELSE cache

Stage(r, st, l) == asks' = (asks \ {r}) \cup {[r EXCEPT !.stage = st, !.list = l]}

\* save_accounts of the list l, when the list in memory has become m before.
SaveAccounts(r, l, m) ==
  \/ /\ file' = l /\ cache' = l
     /\ Stage(r, "ok", <<>>) /\ unsaved' = FALSE /\ UNCHANGED disturbed
  \/ /\ file' \in {file, Broken} /\ cache' = m
     /\ Stage(r, "error", <<>>) /\ unsaved' = TRUE /\ disturbed' = TRUE

Refuse(r) ==
  Stage(r, "refused", <<>>) /\ cache' = Loaded /\ UNCHANGED <<file, unsaved, disturbed>>

CreateAccount(r) ==
  /\ r.kind = "add"
  /\ IF r.new \in ToSet(Loaded) THEN Refuse(r)
     ELSE SaveAccounts(r, Append(Loaded, r.new), Append(Loaded, r.new))
  /\ UNCHANGED renamed

FirstIndex(l, e) == CHOOSE i \in DOMAIN l : l[i] = e /\ \A j \in 1..(i - 1) : l[j] # e

\* Mutant: the list is changed in memory only.
UpdateAccountUnsaved(r) ==
  /\ r.kind = "save"
  /\ r.email \in ToSet(Loaded)
  /\ cache' = [Loaded EXCEPT ![FirstIndex(Loaded, r.email)] = r.new]
  /\ Stage(r, "ok", <<>>)
  /\ renamed' = TRUE
  /\ UNCHANGED <<file, unsaved, disturbed>>

\* The new address is not compared with those of the other accounts.
UpdateAccount(r) ==
  /\ r.kind = "save"
  /\ IF r.email \notin ToSet(Loaded) THEN Refuse(r) /\ UNCHANGED renamed
     ELSE LET l == [Loaded EXCEPT ![FirstIndex(Loaded, r.email)] = r.new]
          IN SaveAccounts(r, l, l) /\ renamed' = (renamed \/ r.new # r.email)

\* The lists of what is at the positions S of l, in their order: there is one.
Selected(l, S) ==
  {[i \in DOMAIN o |-> l[o[i]]] :
     o \in {p \in UNION {[1..n -> S] : n \in 0..Len(l)} :
             ToSet(p) = S /\ \A i, j \in DOMAIN p : i < j => p[i] < p[j]}}

RemoveAccount(r) ==
  /\ r.kind = "delete"
  /\ IF r.email \notin ToSet(Loaded) THEN Refuse(r)
     ELSE \E l \in Selected(Loaded, {i \in DOMAIN Loaded : Loaded[i] # r.email}) :
            SaveAccounts(r, l, Loaded)
  /\ UNCHANGED renamed

ListAccounts(r) ==
  /\ r.kind = "load"
  /\ Stage(r, "ok", Loaded) /\ cache' = Loaded
  /\ UNCHANGED <<file, unsaved, renamed, disturbed>>

\* require_admin comes first; a file that cannot be read fails the request.
Handle(r) ==
  /\ r.stage = "sent"
  /\ IF ~admin THEN Stage(r, "forbidden", <<>>) /\ UNCHANGED <<file, cache, unsaved, renamed, disturbed>>
     ELSE IF Loaded = Broken
     THEN Stage(r, "error", <<>>) /\ disturbed' = TRUE /\ UNCHANGED <<file, cache, unsaved, renamed>>
     ELSE ListAccounts(r) \/ CreateAccount(r) \/ UpdateAccount(r) \/ RemoveAccount(r)
  /\ UNCHANGED <<admin, panel, table, editing, opened, ops>>

Restart ==
  /\ cache # None /\ cache' = None /\ unsaved' = FALSE
  /\ UNCHANGED <<file, admin, panel, table, editing, opened, asks, ops, renamed, disturbed>>

\* The panel's logout button, or another page's, and the cookie's end.
LoggedOut ==
  /\ admin /\ admin' = FALSE
  /\ panel' \in {panel, "login"}
  /\ asks' = IF panel' = "login" THEN {} ELSE asks
  /\ UNCHANGED <<file, cache, unsaved, table, editing, opened, ops, renamed, disturbed>>
----------------------------------------------------------------------------
Next ==
  \/ CancelEdit \/ Restart \/ LoggedOut
  \/ \E e \in Emails : AddSubmitted(e) \/ SaveEdit(e) \/ DeleteAccount(e) \/ StartEdit(e)
  \/ \E r \in asks : Answered(r) \/ Rejected(r) \/ Forbidden(r) \/ ConnectionFails(r) \/ Handle(r)

Spec == Init /\ [][Next]_vars
----------------------------------------------------------------------------
\* The accounts in memory are those a restart would load, unless the last
\* write has failed: one that succeeds saves what failed before, too.
CacheIsFile == cache # None /\ ~unsaved => cache = file

\* The add form, submitted twice, makes one account: as long as no address is
\* changed, there are no two with the same.
NoDoubles == ~renamed /\ Loaded # Broken => IsInjective(Loaded)

\* Who waits for the answers sees, after them, what the server has, and
\* inputs in the row that is being edited only.
TableFits ==
  Open /\ asks = {} /\ ~disturbed => table = Loaded /\ opened = editing

\* The list in memory is the one on disk and has no address twice, and the
\* panel shows it.
AdminOK == TypeOK /\ CacheIsFile /\ NoDoubles /\ TableFits
=============================================================================
