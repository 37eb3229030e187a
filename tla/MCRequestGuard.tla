-------------------------- MODULE MCRequestGuard --------------------------
\* RequestGuard for TLC; the configurations give the constants their values.
EXTENDS RequestGuard
=============================================================================
