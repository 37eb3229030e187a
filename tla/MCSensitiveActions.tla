------------------------- MODULE MCSensitiveActions -------------------------
\* SensitiveActions for TLC; the configuration gives the constants their values.
EXTENDS SensitiveActions
=============================================================================
