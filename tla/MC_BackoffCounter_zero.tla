----------------------- MODULE MC_BackoffCounter_zero -----------------------
EXTENDS BackoffCounter

\* max_tries = 0, the edge case spec 4.5 names.
MC_MaxTries == 0
=============================================================================
