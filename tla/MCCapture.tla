------------------------------ MODULE MCCapture ------------------------------
\* Capturing, on the receiver and on the host, each on its own: the receiver's
\* starts and stops, one after the other, and a session of the experiment runner
\* with its collector.  A behaviour is of one of them.
EXTENDS MCCaptureLifecycle, CaptureSession

VARIABLE part
partVars == <<part, vars, sessionVars>>

CaptureInit ==
  /\ part \in {"receiver", "host"} /\ Init /\ SessionInit
  /\ part = "receiver" => ~device

Receiver == part = "receiver" /\ Next /\ UNCHANGED <<part, sessionVars>>
HostSession == part = "host" /\ SessionNext /\ UNCHANGED <<part, vars>>

\* As in CaptureLifecycle and CaptureSession.
CaptureFairness ==
  /\ \A c \in Caller : WF_vars(part = "receiver" /\ Hook(c))
  /\ \A g \in Gen :
       /\ WF_vars(part = "receiver" /\ EncBegin(g))
       /\ WF_vars(part = "receiver" /\ EncEnd(g))
       /\ WF_vars(part = "receiver" /\ Network(g))
  /\ WF_sessionVars(part = "host" /\ Runner)
  /\ WF_sessionVars(part = "host" /\ StopCollector)
  /\ WF_sessionVars(part = "host" /\ Collector)
  /\ WF_sessionVars(part = "host" /\ Killed)

CaptureSpec ==
  CaptureInit /\ [][Receiver \/ HostSession]_partVars /\ CaptureFairness
=============================================================================
