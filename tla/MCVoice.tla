------------------------------ MODULE MCVoice ------------------------------
\* Voice for TLC; the configuration gives the constants their values.
EXTENDS Voice
=============================================================================
