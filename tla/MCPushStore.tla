---------------------------- MODULE MCPushStore ----------------------------
\* PushStore for TLC; the configurations give the other constants their values.
EXTENDS PushStore

\* The texts grow with the table.
TextLength == [s \in Tables |-> 1 + Cardinality(s)]
=============================================================================
