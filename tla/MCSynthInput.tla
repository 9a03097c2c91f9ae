---------------------------- MODULE MCSynthInput ----------------------------
(***************************************************************************)
(* SynthInput on the datagrams of MCDatagrams.                             *)
(***************************************************************************)
EXTENDS SynthInput, MCDatagrams

=============================================================================
