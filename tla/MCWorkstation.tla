--------------------------- MODULE MCWorkstation ---------------------------
\* What runs on the operator's workstation, each part on its own: the USB
\* console server, the tools that set receivers up, and the publishing of
\* firmware; the model requests of the dashboard server, the guidance of its
\* page, and the page that calibrates a room.  A behaviour is of one of them.
EXTENDS UsbConsole, ReceiverSetup, OtaPublish,
        DashboardServer, Guidance, CalibrationWizard, TLC

\* Nothing tells two boards, hosts or tool processes apart.
Interchangeable == Permutations(Board) \cup Permutations(Host) \cup Permutations(Tool)

\* The steps of a calibration: two zones beside the empty room.
Bases == <<"near", "far">>

VARIABLE part
workstationVars ==
  <<part, consoleVars, setupVars, publishVars, serverVars, guidanceVars, wizardVars>>

WorkstationInit ==
  /\ part \in {"console", "setup", "publish", "server", "guidance", "wizard"}
  /\ ConsoleInit /\ SetupInit /\ PublishInit
  /\ ServerInit /\ GuidanceInit /\ WizardInit
  /\ part # "setup" => \A d \in Board : dev[d].app = "none"

Console == part = "console" /\ ConsoleNext
  /\ UNCHANGED <<part, setupVars, publishVars, serverVars, guidanceVars, wizardVars>>
Setup == part = "setup" /\ SetupNext
  /\ UNCHANGED <<part, consoleVars, publishVars, serverVars, guidanceVars, wizardVars>>
Publishing == part = "publish" /\ PublishNext
  /\ UNCHANGED <<part, consoleVars, setupVars, serverVars, guidanceVars, wizardVars>>
Serving == part = "server" /\ ServerNext
  /\ UNCHANGED <<part, consoleVars, setupVars, publishVars, guidanceVars, wizardVars>>
Guiding == part = "guidance" /\ GuidanceNext
  /\ UNCHANGED <<part, consoleVars, setupVars, publishVars, serverVars, wizardVars>>
Calibrating == part = "wizard" /\ WizardNext
  /\ UNCHANGED <<part, consoleVars, setupVars, publishVars, serverVars, guidanceVars>>

WorkstationNext ==
  Console \/ Setup \/ Publishing \/ Serving \/ Guiding \/ Calibrating

WorkstationSpec == WorkstationInit /\ [][WorkstationNext]_workstationVars
=============================================================================
