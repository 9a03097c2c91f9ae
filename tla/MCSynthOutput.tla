--------------------------- MODULE MCSynthOutput ---------------------------
(***************************************************************************)
(* SynthOutput on the feed of MCOrderBookEvents.                           *)
(***************************************************************************)
EXTENDS SynthOutput, MCOrderBookEvents

=============================================================================
