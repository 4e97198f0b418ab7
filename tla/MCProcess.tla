----------------------------- MODULE MCProcess ------------------------------
(* A shell that forks one child at a time, and children that exec, grow and exit. *)
EXTENDS Process, TLC

CONSTANTS idle, init, a, b, kbd

MCTasks == {idle, init, a, b}
MCDevices == {kbd}
MCChannels == MCTasks \cup MCDevices
MCHighPriority == {}
\* The shipped programs: only init, the shell, forks (user/shell.c:134).
MCShell == {init}
MCSymmetry == Permutations({a, b})
=============================================================================
