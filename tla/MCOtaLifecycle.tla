--------------------------- MODULE MCOtaLifecycle ---------------------------
\* A receiver with one apply request over HTTP beside the supervisor's own.
EXTENDS OtaLifecycle
CONSTANT a1
ApplyTasks == {a1}
=============================================================================
