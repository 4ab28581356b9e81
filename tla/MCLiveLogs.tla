----------------------------- MODULE MCLiveLogs -----------------------------
EXTENDS LiveLogs, TLC

=============================================================================
