--------------------------- MODULE MC_JobPoller ---------------------------
EXTENDS JobPoller

\* Two jobs so that the poller interleaves them; three tries so that the
\* counter escalates twice (delays 2 and 4) before it gives up at 8.
MC_Jobs == {"j1", "j2"}
MC_MaxTries == 3
=============================================================================
