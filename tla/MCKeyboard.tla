----------------------------- MODULE MCKeyboard -----------------------------
(* Two readers of the keyboard, with a ring small enough to wrap. *)
EXTENDS Keyboard, TLC

CONSTANTS idle, init, a, b, kbd, exits, x, y

MCTasks == {idle, init, a}
MCChannels == {kbd, exits}
MCExitChannels == {exits}
MCHighPriority == {}
MCCodes == {x, y}
MCReadSizes == {1, 2}
=============================================================================
