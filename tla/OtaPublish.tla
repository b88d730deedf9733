------------------------------ MODULE OtaPublish ------------------------------
(***************************************************************************)
(* Publishing firmware: the deployment that uploads an image and switches  *)
(* the stable manifest (.github/workflows/deploy-ota.yml), the server that *)
(* validates the OTA root once and then serves whatever is in it           *)
(* (tools/ota-server), and a receiver that reads the manifest, downloads   *)
(* the image it names and checks its digest, driven by the CLI             *)
(* (tools/cli/src/ota.ts).  Version v's image is of release v.             *)
(***************************************************************************)
EXTENDS Naturals

CONSTANTS
  Releases,            \* the newest release's version; versions are 1..Releases
  MaxDeploy, MaxLaunch  \* bounds: deployments, starts of the server

ASSUME ReleasesAssumption == Releases \in Nat \ {0}

VARIABLES
  root,    \* the OTA root: the image of each version, both manifest files
  deploy,  \* the deployment under way; ghosts: the versions the manifest has
           \* named, and whether one of them was deployed again
  server,  \* the server process, and what its validation saw
  unit,    \* the receiver: what it runs, is offered and downloads
  tally   \* deployments and starts so far

publishVars == <<root, deploy, server, unit, tally>>

Version == 1..Releases
NoVersion == 0

PublishInit ==
  /\ root = [firmware |-> [v \in Version |-> "none"], manifest |-> NoVersion, incoming |-> NoVersion]
  /\ deploy = [at |-> "idle", version |-> NoVersion, live |-> {}, again |-> FALSE]
  /\ server = [at |-> "down", read |-> NoVersion]
  /\ unit = [runs |-> NoVersion, at |-> "idle", offer |-> NoVersion, length |-> "none"]
  /\ tally = [deploys |-> 0, starts |-> 0]

-----------------------------------------------------------------------------
(* The deployment; the workflow's concurrency group lets one run at a time.*)

\* A release that passed its checks, of any tag: an older one, or one that was
\* deployed before.
StartDeploy ==
  /\ deploy.at = "idle" /\ tally.deploys < MaxDeploy
  /\ tally' = [tally EXCEPT !.deploys = @ + 1]
  /\ \E v \in Version :
       deploy' = [deploy EXCEPT !.at = "upload", !.version = v, !.again = @ \/ v \in deploy.live]
  /\ UNCHANGED <<root, server, unit>>

\* scp truncates the file it writes ...
BeginUpload ==
  /\ deploy.at = "upload" /\ deploy' = [deploy EXCEPT !.at = "uploading"]
  /\ root' = [root EXCEPT !.firmware[deploy.version] = "part"]
  /\ UNCHANGED <<server, unit, tally>>

\* ... and then it is all there.
FinishUpload ==
  /\ deploy.at = "uploading" /\ deploy' = [deploy EXCEPT !.at = "stage"]
  /\ root' = [root EXCEPT !.firmware[deploy.version] = "whole"]
  /\ UNCHANGED <<server, unit, tally>>

\* Mutant: the upload of the image is not waited for.
StageUnfinished ==
  /\ deploy.at \in {"uploading", "stage"} /\ deploy' = [deploy EXCEPT !.at = "switch"]
  /\ root' = [root EXCEPT !.incoming = deploy.version]
  /\ UNCHANGED <<server, unit, tally>>

\* The manifest goes to stable.json.incoming,
StageManifest ==
  /\ deploy.at = "stage" /\ deploy' = [deploy EXCEPT !.at = "switch"]
  /\ root' = [root EXCEPT !.incoming = deploy.version]
  /\ UNCHANGED <<server, unit, tally>>

\* which is renamed.
SwitchManifest ==
  /\ deploy.at = "switch"
  /\ deploy' = [deploy EXCEPT !.at = "idle", !.live = @ \cup {root.incoming}]
  /\ root' = [root EXCEPT !.manifest = root.incoming, !.incoming = NoVersion]
  /\ UNCHANGED <<server, unit, tally>>

\* The job fails, loses its connection or is cancelled.
FailDeploy ==
  /\ deploy.at # "idle" /\ deploy' = [deploy EXCEPT !.at = "idle"]
  /\ UNCHANGED <<root, server, unit, tally>>

-----------------------------------------------------------------------------
(* The server.                                                             *)

\* validateOtaRoot reads the manifest, ...
StartServer ==
  /\ server.at = "down" /\ tally.starts < MaxLaunch
  /\ tally' = [tally EXCEPT !.starts = @ + 1]
  /\ server' = [at |-> "validating", read |-> root.manifest]
  /\ UNCHANGED <<root, deploy, unit>>

\* ... then the image it names: the server listens, or exits with 1.
Validated ==
  /\ server.at = "validating"
  /\ server' = [server EXCEPT !.at =
       IF server.read = NoVersion \/ root.firmware[server.read] = "whole" THEN "up" ELSE "down"]
  /\ UNCHANGED <<root, deploy, unit, tally>>

StopServer ==
  /\ server.at = "up" /\ server' = [server EXCEPT !.at = "down"]
  /\ UNCHANGED <<root, deploy, unit, tally>>

-----------------------------------------------------------------------------
(* A receiver that is told to check and to apply.                          *)

\* GET /manifest/stable.json: only a newer version is offered.
GetManifest ==
  /\ unit.at = "idle" /\ server.at = "up" /\ root.manifest > unit.runs
  /\ unit' = [unit EXCEPT !.at = "offered", !.offer = root.manifest]
  /\ UNCHANGED <<root, deploy, server, tally>>

\* GET /firmware/<version>/rf-sense.bin: the length is that of the file now.
GetFirmware ==
  /\ unit.at = "offered" /\ server.at = "up" /\ root.firmware[unit.offer] # "none"
  /\ unit' = [unit EXCEPT !.at = "downloading", !.length = root.firmware[unit.offer]]
  /\ UNCHANGED <<root, deploy, server, tally>>

\* The stream ends: what came is the image if the file was whole at both ends,
\* unless it was written in between.
Install(intact) ==
  /\ unit.at = "downloading"
  /\ intact => (server.at = "up" /\ unit.length = "whole" /\ root.firmware[unit.offer] = "whole")
  /\ unit' = [unit EXCEPT !.at = "idle", !.offer = NoVersion, !.length = "none",
                          !.runs = IF intact THEN unit.offer ELSE @]
  /\ UNCHANGED <<root, deploy, server, tally>>

\* The server answers 404, or not at all.
NotServed ==
  /\ unit.at = "offered" /\ (server.at # "up" \/ root.firmware[unit.offer] = "none")
  /\ unit' = [unit EXCEPT !.at = "idle", !.offer = NoVersion]
  /\ UNCHANGED <<root, deploy, server, tally>>

PublishNext ==
  \/ StartDeploy \/ BeginUpload \/ FinishUpload \/ StageManifest \/ SwitchManifest \/ FailDeploy
  \/ StartServer \/ Validated \/ StopServer
  \/ GetManifest \/ GetFirmware \/ NotServed \/ \E intact \in BOOLEAN : Install(intact)

PublishSpec == PublishInit /\ [][PublishNext]_publishVars

-----------------------------------------------------------------------------
\* As long as no version that the manifest has named is deployed again, whatever
\* the manifest names is there in full: over deployments that stop half-way, are
\* repeated or are followed by others, of older versions too.  So a server that
\* is started does not refuse, and an offer that a receiver holds can be
\* downloaded (deploy-ota.yml, validateOtaRoot).
ManifestIsBacked ==
  ~deploy.again =>
    /\ root.manifest # NoVersion => root.firmware[root.manifest] = "whole"
    /\ unit.offer # NoVersion => root.firmware[unit.offer] = "whole"

\* "The device never sees a manifest that points at a file that isn't fully in
\* place yet" (deploy-ota.yml): refuted, by a version that is deployed again.
ManifestAlwaysBacked == root.manifest # NoVersion => root.firmware[root.manifest] = "whole"

-----------------------------------------------------------------------------
(* The inductive invariant.                                                *)

PublishTypeOK ==
  /\ root \in [firmware : [Version -> {"none", "part", "whole"}],
               manifest : Version \cup {NoVersion}, incoming : Version \cup {NoVersion}]
  /\ deploy \in [at : {"idle", "upload", "uploading", "stage", "switch"},
                 version : Version \cup {NoVersion}, live : SUBSET Version, again : BOOLEAN]
  /\ server \in [at : {"down", "validating", "up"}, read : Version \cup {NoVersion}]
  /\ unit \in [runs : Version \cup {NoVersion}, at : {"idle", "offered", "downloading"},
               offer : Version \cup {NoVersion}, length : {"none", "part", "whole"}]

\* A deployment has a version, and stages it once it is there.
DeployedInOrder ==
  /\ deploy.at # "idle" => deploy.version # NoVersion
  /\ deploy.at \in {"stage", "switch"} => root.firmware[deploy.version] = "whole"
  /\ deploy.at = "switch" => root.incoming = deploy.version

\* What the manifest names, and what is on offer, has been named.
NamedIsLive ==
  /\ unit.at # "idle" => unit.offer # NoVersion
  /\ root.manifest # NoVersion => root.manifest \in deploy.live
  /\ unit.offer # NoVersion => unit.offer \in deploy.live

\* Unless one was deployed again, no deployment touches what was ever named.
LiveIsWhole ==
  ~deploy.again =>
    /\ \A v \in deploy.live : root.firmware[v] = "whole"
    /\ deploy.at # "idle" => deploy.version \notin deploy.live

PublishIInv == PublishTypeOK /\ DeployedInOrder /\ NamedIsLive /\ LiveIsWhole
=============================================================================
