---------------------------- MODULE MCEventBus ----------------------------
\* EventBus for TLC; the configurations give the constants their values.
EXTENDS EventBus
=============================================================================
