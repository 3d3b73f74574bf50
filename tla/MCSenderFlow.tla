--------------------------- MODULE MCSenderFlow ---------------------------
(* SenderFlow for TLC. *)
EXTENDS SenderFlow

\* One step right, one up, and a diagonal that undoes both.
SmallDeltas == {<<1, 0>>, <<0, 1>>, <<-1, -1>>}
=============================================================================
