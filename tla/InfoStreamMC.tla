---------------------------- MODULE InfoStreamMC ----------------------------
(***************************************************************************)
(* Instances of InfoStream for TLC.  The bounds are in the cfg files.      *)
(***************************************************************************)
EXTENDS InfoStream

CONSTANT s1

OneStream  == {s1}

\* 0 is what old_volume starts from: a volume set to 0 before the stream opens
\* is no news for its first message.
SmallVolumes == {0, 50}
=============================================================================
