---------------------------- MODULE MCViewerPage ----------------------------
(***************************************************************************)
(* Two instances of ViewerPage in one run: one with every language and a   *)
(* single call of startMicrophone, and one with all the calls, in which    *)
(* the other language is never chosen and nobody but the guest chooses.    *)
(***************************************************************************)
EXTENDS ViewerPage

CONSTANT Other     \* the language left out when the microphone is looked at

VARIABLE focus     \* which of the two runs

mc_vars == <<vars, focus>>

Bound ==
  IF focus = "language"
  THEN \A i \in Mics \ {1} : start'[i].at = "unused"
  ELSE /\ Other \notin {host'.lang, page'.lang, overlay'.picked}
       /\ ~detecting' /\ ~overruled'

MCInit ==
  /\ Init
  /\ focus \in {"language", "microphone"}
  /\ focus = "microphone" => page.lang # Other

MCNext == Next /\ Bound /\ UNCHANGED focus

MCSpec ==
  /\ MCInit /\ [][MCNext]_mc_vars
  /\ WF_mc_vars(Reconnect /\ UNCHANGED focus)
  /\ SF_mc_vars(SocketOpens /\ UNCHANGED focus)
  /\ SF_mc_vars(InitArrives /\ Bound /\ UNCHANGED focus)
=============================================================================
