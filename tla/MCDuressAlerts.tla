--------------------------- MODULE MCDuressAlerts ---------------------------
\* DuressAlerts for TLC; the configurations give the constants their values.
EXTENDS DuressAlerts
=============================================================================
