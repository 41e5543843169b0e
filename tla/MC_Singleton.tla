--------------------------- MODULE MC_Singleton ---------------------------
EXTENDS Singleton

\* Three threads with two calls each: the racers of the first call and the
\* later calls that must find the stored instance.
MC_Threads == {"t1", "t2", "t3"}
MC_MaxCalls == 2
\* Two threads with one call each are enough for the race.
MC_RaceThreads == {"t1", "t2"}
MC_RaceCalls == 1
=============================================================================
