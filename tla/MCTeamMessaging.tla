-------------------------- MODULE MCTeamMessaging --------------------------
(* TeamMessaging for TLC: the leader and one other process, one recipient. *)
EXTENDS TeamMessaging

CONSTANT MaxDisturbances  \* bound: kills, and reads of files that are not whole

FewDisturbances == races + faults <= MaxDisturbances
=============================================================================
