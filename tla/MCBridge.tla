------------------------------ MODULE MCBridge ------------------------------
(* Instance of Bridge for TLC: two statuses, two commands.  *)
EXTENDS Bridge

CONSTANTS s1, s2, c1, c2

OneStatus == {s1}
TwoStatuses == {s1, s2}
TwoCommands == {c1, c2}
NoCommands == {}
=============================================================================
