----------------------------- MODULE MCSideBySide -----------------------------
(***************************************************************************)
(* Four modules that share nothing, each by itself, in one run: which of   *)
(* them moves is chosen at first, and the others stay as they began.       *)
(***************************************************************************)
EXTENDS Accounts

CONSTANTS
  Texts, Langs, SrcDefault, TgtDefault, MaxEdits,        \* of TranslatePage
  Guests, MaxRequests, MaxRecordings, MaxWaiting,        \* of TranscriptConsent
  MaxSegs, MaxHyps, MaxUpdates, MaxForced                \* of TrackerThreads

VARIABLES
  text, list, src, tgt, timer, seq, calls, shown, error, page, signedIn, edits,
  host, request, recs, up, down, entry, guest, in, out, yes,
  next_id, written, final, finalized, untouched, lists, cumulative, thread, made,
  handed, cut, settledAt, shared,
  moving       \* the module that does

Translation == INSTANCE TranslatePage
Consent == INSTANCE TranscriptConsent
Tracker == INSTANCE TrackerThreads WITH calls <- made

ASSUME SideBySideAssumption ==
  /\ Translation!TranslateAssumption
  /\ Consent!ConsentAssumption
  /\ Tracker!ThreadsAssumption

translation_vars == <<text, list, src, tgt, timer, seq, calls, shown, error, page, signedIn, edits>>
consent_vars == <<host, request, recs, up, down, entry, guest, in, out, yes>>
tracker_vars == <<next_id, written, final, finalized, untouched, lists, cumulative, thread, made,
                  handed, cut, settledAt, shared>>
side_vars == <<vars, translation_vars, consent_vars, tracker_vars, moving>>

SideInit ==
  /\ Init /\ Translation!Init /\ Consent!Init /\ Tracker!Init
  /\ moving \in {"accounts", "translation", "consent", "tracker"}
  /\ moving # "accounts" => file = <<>> /\ admin
  /\ moving # "translation" => signedIn

SideNext ==
  /\ \/ moving = "accounts" /\ Next
        /\ UNCHANGED <<translation_vars, consent_vars, tracker_vars>>
     \/ moving = "translation" /\ Translation!Next
        /\ UNCHANGED <<vars, consent_vars, tracker_vars>>
     \/ moving = "consent" /\ Consent!Next
        /\ UNCHANGED <<vars, translation_vars, tracker_vars>>
     \/ moving = "tracker" /\ Tracker!Next
        /\ UNCHANGED <<vars, translation_vars, consent_vars>>
  /\ UNCHANGED moving

SideSpec == SideInit /\ [][SideNext]_side_vars /\ Translation!Fairness

\* The modules' properties, under the names they have there.
ResultOK == Translation!ResultOK
Settles == Translation!Settles
ConsentOK == Consent!ConsentOK
FinalsOK == Tracker!FinalsOK
OnlyMeetingUpdatesLose == Tracker!OnlyMeetingUpdatesLose
CallAloneClearsFinal == Tracker!CallAloneClearsFinal
=============================================================================
