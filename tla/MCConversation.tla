--------------------------- MODULE MCConversation ---------------------------
(***************************************************************************)
(* Two instances of Conversation in one run: one whose guest has texts     *)
(* read aloud, without the release of a talk button, and one with all that *)
(* is sent, in which the language is unknown at first, without speech, for *)
(* a guest that stays once it has come and a page that never stops waiting *)
(* for a translation.                                                      *)
(***************************************************************************)
EXTENDS Conversation

VARIABLE focus     \* which of the two runs

mc_vars == <<vars, focus>>

Bound ==
  IF focus = "speech" THEN mail'.release = {}
  ELSE /\ ~speech'.enabled /\ ~GuestDrops
       /\ \A s \in Segs : ~HostPendingExpires(s) /\ ~GuestPendingExpires(s)

MCInit ==
  /\ Init /\ focus \in {"speech", "snapshots"}
  /\ focus = "snapshots" <=> foreign = None

MCNext == Next /\ Bound /\ UNCHANGED focus

MCSpec ==
  /\ MCInit /\ [][MCNext]_mc_vars
  /\ WF_mc_vars((AsrTick \/ AsrTickEnds) /\ UNCHANGED focus)
  /\ WF_mc_vars((FinalSnapshot \/ Closed) /\ UNCHANGED focus)
  /\ WF_mc_vars((\E m \in mail.release : ReleaseSent(m)) /\ UNCHANGED focus)
  /\ WF_mc_vars((MtSent \/ \E s \in Segs : MtTakes(s) \/ MtResult(s)) /\ UNCHANGED focus)
  /\ WF_mc_vars((\E s \in Segs : SpeechFetched(s) \/ SpeechAdvances(s)) /\ UNCHANGED focus)
=============================================================================
