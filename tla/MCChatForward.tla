--------------------------- MODULE MCChatForward ---------------------------
\* ChatForward for TLC: the MacBook and the stronger ZBook, both hosts.
EXTENDS ChatForward

CONSTANTS Mac, Zbook

Strength == [n \in Nodes |-> IF n = Zbook THEN 2 ELSE 1]
=============================================================================
