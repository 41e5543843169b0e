------------------------- MODULE MC_BackoffCounter -------------------------
EXTENDS BackoffCounter

\* Six tries: countdowns of up to 64 values, and saturation is reached.
MC_MaxTries == 6
=============================================================================
