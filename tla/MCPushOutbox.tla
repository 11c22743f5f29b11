---------------------------- MODULE MCPushOutbox ----------------------------
(* PushOutbox for TLC: the rows are model values.                          *)
EXTENDS PushOutbox, TLC

CONSTANTS e1, e2
=============================================================================
