---------------------------- MODULE MCItchStream ----------------------------
(***************************************************************************)
(* ItchStream on the datagrams of MCDatagrams.                             *)
(***************************************************************************)
EXTENDS ItchStream, MCDatagrams

\* The traffic is of the kind that the theorems are about.
ASSUME TrafficAssumption ==
  TrafficFits /\ TrafficMeant /\ RegistersFit /\ SkippedSurely

=============================================================================
