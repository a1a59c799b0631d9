-------------------------- MODULE MCSegmentTracker --------------------------
(* Instances of SegmentTracker for TLC: windows over one conversation.     *)
EXTENDS SegmentTracker

MCWords == {"Guten", "guten", "Tag", "Ja", "wie", "geht", "es", "Hello", "there", "now"}

MCWordLen ==
  [w \in MCWords |->
     CASE w \in {"Ja", "es"} -> 2
       [] w \in {"Tag", "wie", "now"} -> 3
       [] w = "geht" -> 4
       [] OTHER -> 5]

MCLower == [w \in MCWords |-> IF w = "Guten" THEN "guten" ELSE w]

MCLangs == {"de", "en", "unknown"}

german(s, e, t) ==
  [start |-> s, end |-> e, text |-> t, lang |-> "de",
   speaker_id |-> "SPEAKER_00", speaker_role |-> "german"]

foreign(s, e, t) ==
  [start |-> s, end |-> e, text |-> t, lang |-> "en",
   speaker_id |-> "SPEAKER_01", speaker_role |-> "foreign"]

guten   == german(0, 10, <<"Guten", "Tag">>)
wie     == german(13, 30, <<"wie", "geht", "es">>)
both    == german(0, 30, <<"guten", "Tag", "wie", "geht", "es">>)
drifted == german(18, 30, <<"guten", "Tag">>)
noise   == german(5, 6, <<>>)
hello   == foreign(31, 50, <<"Hello", "there">>)
over    == foreign(12, 28, <<"Hello", "now">>)
\* The guest's phone hears the host before the foreign language is known.
bleed   == [foreign(31, 45, <<"there">>) EXCEPT !.lang = "de"]
late    == foreign(55, 70, <<"Hello", "there", "now">>)

\* One phrase that Whisper places at slightly different times.
jittered == {<<german(s, s + d, <<"wie", "geht", "es">>)>> : s \in {4, 20}, d \in {6, 18}}

\* Windows of a conversation of two speakers: re-detections, a merged
\* detection, a drifted one, speech over speech.
MCBatches ==
  jittered \cup
  {<<guten>>, <<guten, wie>>, <<both>>, <<drifted>>, <<noise>>,
   <<wie, hello>>, <<wie, bleed>>, <<over>>, <<guten, over>>, <<hello, late>>}

MCTimes == {20, 32, 70}

=============================================================================
