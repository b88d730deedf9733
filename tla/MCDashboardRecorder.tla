------------------------ MODULE MCDashboardRecorder ------------------------
\* The recorder under two requests, each of which may stand for the timer or
\* the shutdown.
EXTENDS DashboardRecorder
CONSTANTS r1, r2
Two == {r1, r2}
=============================================================================
