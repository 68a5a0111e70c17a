----------------------------- MODULE MCClassAdLog -----------------------------
EXTENDS ClassAdLog
==============================================================================
