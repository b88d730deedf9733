------------------------- MODULE MCCaptureLifecycle -------------------------
\* The HTTP server, the supervisor and an updating task as callers.
EXTENDS CaptureLifecycle, TLC
CONSTANTS httpd, ota
Callers == {httpd, ota}
CallerSymmetry == Permutations(Callers)
=============================================================================
