------------------------------- MODULE MCDisk -------------------------------
(* The disk driver under two tasks that can both have a request at once. *)
EXTENDS Disk

CONSTANTS idle, init, a, kbd, exits

MCTasks == {idle, init, a}
MCChannels == {kbd, exits}
MCExitChannels == {exits}
MCHighPriority == {}
=============================================================================
