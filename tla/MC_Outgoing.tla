----------------------------- MODULE MC_Outgoing -----------------------------
(* An instance of Outgoing: two frame codecs and a pseudo-encoding, two
   connections, a level beyond the range. *)
EXTENDS Outgoing

MCRegistered == {"tight", "raw", "xcursor"}
MCFrame == {"tight", "raw"}
MCNameSets == {{"raw"}, {"tight", "raw"}}
MCLevels == {16}
=============================================================================
