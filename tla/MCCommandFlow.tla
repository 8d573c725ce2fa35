---------------------------- MODULE MCCommandFlow ----------------------------
\* Instances of CommandFlow for TLC: CommandFlow*.cfg.
EXTENDS CommandFlow
=============================================================================
