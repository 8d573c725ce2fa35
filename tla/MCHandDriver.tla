----------------------------- MODULE MCHandDriver -----------------------------
\* Instances of HandDriver for TLC.
EXTENDS HandDriver
=============================================================================
