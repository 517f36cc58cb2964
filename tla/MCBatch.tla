-------------------------------- MODULE MCBatch --------------------------------
(* Three tasks in a chain of overlapping scopes, and a fourth that joins the manifest later. *)
EXTENDS Batch

MCManifests == {1..3, 1..4}
MCOverlap == {<<1, 2>>, <<2, 1>>, <<2, 3>>, <<3, 2>>}
=============================================================================
