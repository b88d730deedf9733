------------------------- MODULE WorkstationProofs -------------------------
(***************************************************************************)
(* What holds of the three tools beside the receivers, for every value of  *)
(* the constants: of the publishing of firmware, with any number of        *)
(* releases and deployments; of the tools that set receivers up, with any  *)
(* receivers, hosts and tool processes; and of the USB console, with any   *)
(* ports, overlapping calls and buffer size.                               *)
(***************************************************************************)
EXTENDS UsbConsole, ReceiverSetup, OtaPublish, FiniteSetTheorems, SequenceTheorems, TLAPS

-----------------------------------------------------------------------------
(* Publishing.                                                             *)

LEMMA Versions == NoVersion \notin Version /\ Version \subseteq Nat
BY ReleasesAssumption DEF ReleasesAssumption, Version, NoVersion

LEMMA PublishStarts == PublishInit => PublishIInv
<1>. SUFFICES ASSUME PublishInit PROVE PublishIInv
  OBVIOUS
<1>1. PublishTypeOK
  BY DEF PublishInit, PublishTypeOK
<1>2. DeployedInOrder /\ NamedIsLive /\ LiveIsWhole
  BY DEF PublishInit, DeployedInOrder, NamedIsLive, LiveIsWhole
<1>. QED BY <1>1, <1>2 DEF PublishIInv

\* The deployment's steps write the OTA root.
LEMMA DeployKeeps ==
  ASSUME PublishIInv,
         \/ StartDeploy \/ BeginUpload \/ FinishUpload \/ StageManifest
         \/ SwitchManifest \/ FailDeploy
  PROVE  PublishIInv'
<1>1. PublishTypeOK /\ DeployedInOrder /\ NamedIsLive /\ LiveIsWhole
  BY DEF PublishIInv
<1>2. server' = server /\ unit' = unit
  BY DEF StartDeploy, BeginUpload, FinishUpload, StageManifest, SwitchManifest, FailDeploy
<1>3. CASE StartDeploy
  <2>1. PICK v \in Version :
          deploy' = [deploy EXCEPT !.at = "upload", !.version = v, !.again = @ \/ v \in deploy.live]
    BY <1>3 DEF StartDeploy
  <2>2. root' = root
    BY <1>3 DEF StartDeploy
  <2>3. /\ deploy'.at = "upload" /\ deploy'.version = v /\ deploy'.live = deploy.live
        /\ deploy'.again = (deploy.again \/ v \in deploy.live)
    BY <1>1, <2>1 DEF PublishTypeOK
  <2>4. PublishTypeOK'
    BY <1>1, <1>2, <2>1, <2>2 DEF PublishTypeOK
  <2>5. DeployedInOrder' /\ NamedIsLive' /\ LiveIsWhole'
    BY <1>1, <1>2, <2>2, <2>3, Versions DEF DeployedInOrder, NamedIsLive, LiveIsWhole
  <2>. QED BY <2>4, <2>5 DEF PublishIInv
<1>4. ASSUME NEW was \in {"part", "whole"}, NEW to \in {"uploading", "stage"},
             deploy.at # "idle", deploy' = [deploy EXCEPT !.at = to],
             root' = [root EXCEPT !.firmware[deploy.version] = was],
             to = "stage" => was = "whole"
      PROVE  PublishIInv'
  <2>1. deploy.version \in Version
    BY <1>1, <1>4 DEF DeployedInOrder, PublishTypeOK
  <2>2. /\ deploy'.at = to /\ deploy'.version = deploy.version /\ deploy'.live = deploy.live
        /\ deploy'.again = deploy.again
        /\ root'.manifest = root.manifest /\ root'.incoming = root.incoming
        /\ \A v \in Version : root'.firmware[v] = IF v = deploy.version THEN was ELSE root.firmware[v]
    BY <1>1, <1>4 DEF PublishTypeOK
  <2>3. PublishTypeOK'
    BY <1>1, <1>2, <1>4, <2>1 DEF PublishTypeOK
  <2>4. DeployedInOrder' /\ NamedIsLive'
    BY <1>1, <1>2, <1>4, <2>1, <2>2 DEF DeployedInOrder, NamedIsLive
  <2>5. deploy.live \subseteq Version
    BY <1>1 DEF PublishTypeOK
  <2>6. LiveIsWhole'
    BY <1>1, <1>4, <2>1, <2>2, <2>5 DEF LiveIsWhole
  <2>. QED BY <2>3, <2>4, <2>6 DEF PublishIInv
<1>5. CASE BeginUpload
  BY <1>4, <1>5 DEF BeginUpload
<1>6. CASE FinishUpload
  BY <1>4, <1>6 DEF FinishUpload
<1>7. CASE StageManifest
  <2>1. /\ deploy.at = "stage" /\ deploy' = [deploy EXCEPT !.at = "switch"]
        /\ root' = [root EXCEPT !.incoming = deploy.version]
    BY <1>7 DEF StageManifest
  <2>2. PublishTypeOK'
    BY <1>1, <1>2, <2>1 DEF PublishTypeOK
  <2>3. /\ deploy'.at = "switch" /\ deploy'.version = deploy.version /\ deploy'.live = deploy.live
        /\ deploy'.again = deploy.again /\ root'.manifest = root.manifest
        /\ root'.incoming = deploy.version /\ root'.firmware = root.firmware
    BY <1>1, <2>1 DEF PublishTypeOK
  <2>4. DeployedInOrder' /\ NamedIsLive' /\ LiveIsWhole'
    BY <1>1, <1>2, <2>1, <2>3 DEF DeployedInOrder, NamedIsLive, LiveIsWhole
  <2>. QED BY <2>2, <2>4 DEF PublishIInv
<1>8. CASE SwitchManifest
  <2>1. /\ deploy.at = "switch"
        /\ deploy' = [deploy EXCEPT !.at = "idle", !.live = @ \cup {root.incoming}]
        /\ root' = [root EXCEPT !.manifest = root.incoming, !.incoming = NoVersion]
    BY <1>8 DEF SwitchManifest
  <2>2. root.incoming = deploy.version /\ deploy.version \in Version
        /\ root.firmware[deploy.version] = "whole"
    BY <1>1, <2>1 DEF DeployedInOrder, PublishTypeOK
  <2>3. PublishTypeOK'
    BY <1>1, <1>2, <2>1, <2>2 DEF PublishTypeOK
  <2>4. /\ deploy'.at = "idle" /\ deploy'.live = deploy.live \cup {deploy.version}
        /\ deploy'.again = deploy.again /\ root'.manifest = deploy.version
        /\ root'.firmware = root.firmware
    BY <1>1, <2>1, <2>2 DEF PublishTypeOK
  <2>5. DeployedInOrder' /\ NamedIsLive' /\ LiveIsWhole'
    BY <1>1, <1>2, <2>2, <2>4 DEF DeployedInOrder, NamedIsLive, LiveIsWhole
  <2>. QED BY <2>3, <2>5 DEF PublishIInv
<1>9. CASE FailDeploy
  <2>1. deploy' = [deploy EXCEPT !.at = "idle"] /\ root' = root
    BY <1>9 DEF FailDeploy
  <2>2. PublishTypeOK'
    BY <1>1, <1>2, <2>1 DEF PublishTypeOK
  <2>3. /\ deploy'.at = "idle" /\ deploy'.live = deploy.live /\ deploy'.again = deploy.again
    BY <1>1, <2>1 DEF PublishTypeOK
  <2>4. DeployedInOrder' /\ NamedIsLive' /\ LiveIsWhole'
    BY <1>1, <1>2, <2>1, <2>3 DEF DeployedInOrder, NamedIsLive, LiveIsWhole
  <2>. QED BY <2>2, <2>4 DEF PublishIInv
<1>. QED BY <1>3, <1>5, <1>6, <1>7, <1>8, <1>9

\* The server and the receiver only read it.
LEMMA ServingKeeps ==
  ASSUME PublishIInv,
         \/ StartServer \/ Validated \/ StopServer
         \/ GetManifest \/ GetFirmware \/ NotServed \/ \E intact \in BOOLEAN : Install(intact)
  PROVE  PublishIInv'
<1>1. PublishTypeOK /\ DeployedInOrder /\ NamedIsLive /\ LiveIsWhole
  BY DEF PublishIInv
<1>2. root' = root /\ deploy' = deploy
  BY DEF StartServer, Validated, StopServer, GetManifest, GetFirmware, NotServed, Install
<1>3. DeployedInOrder' /\ LiveIsWhole'
  BY <1>1, <1>2 DEF DeployedInOrder, LiveIsWhole
<1>4. PublishTypeOK' /\ unit'.offer \in {unit.offer, root.manifest, NoVersion}
  <2>1. CASE StartServer \/ Validated \/ StopServer
    BY <1>1, <1>2, <2>1 DEF StartServer, Validated, StopServer, PublishTypeOK
  <2>2. CASE GetManifest
    BY <1>1, <1>2, <2>2 DEF GetManifest, PublishTypeOK
  <2>3. CASE GetFirmware
    <3>1. unit.offer \in Version
      BY <1>1, <2>3 DEF GetFirmware, NamedIsLive, PublishTypeOK
    <3>. QED BY <1>1, <1>2, <2>3, <3>1 DEF GetFirmware, PublishTypeOK
  <2>4. CASE NotServed
    BY <1>1, <1>2, <2>4 DEF NotServed, PublishTypeOK
  <2>5. CASE \E intact \in BOOLEAN : Install(intact)
    BY <1>1, <1>2, <2>5 DEF Install, PublishTypeOK
  <2>. QED BY <2>1, <2>2, <2>3, <2>4, <2>5
<1>5. unit'.at # "idle" => unit'.offer # NoVersion
  <2>1. CASE StartServer \/ Validated \/ StopServer
    BY <1>1, <2>1 DEF StartServer, Validated, StopServer, NamedIsLive
  <2>2. CASE GetManifest
    <3>1. unit.runs \in Nat /\ root.manifest > unit.runs /\ unit'.offer = root.manifest
      BY <1>1, <2>2, Versions DEF GetManifest, PublishTypeOK, NoVersion
    <3>. QED BY <3>1 DEF NoVersion
  <2>3. CASE GetFirmware
    BY <1>1, <2>3 DEF GetFirmware, NamedIsLive, PublishTypeOK
  <2>4. CASE NotServed
    BY <1>1, <2>4 DEF NotServed, PublishTypeOK
  <2>5. CASE \E intact \in BOOLEAN : Install(intact)
    BY <1>1, <2>5 DEF Install, PublishTypeOK
  <2>. QED BY <2>1, <2>2, <2>3, <2>4, <2>5
<1>6. NamedIsLive'
  BY <1>1, <1>2, <1>4, <1>5 DEF NamedIsLive
<1>. QED BY <1>3, <1>4, <1>6 DEF PublishIInv

LEMMA PublishStep == PublishIInv /\ [PublishNext]_publishVars => PublishIInv'
<1>. SUFFICES ASSUME PublishIInv, [PublishNext]_publishVars PROVE PublishIInv'
  OBVIOUS
<1>1. CASE UNCHANGED publishVars
  BY <1>1 DEF publishVars, PublishIInv, PublishTypeOK, DeployedInOrder, NamedIsLive, LiveIsWhole
<1>. QED BY <1>1, DeployKeeps, ServingKeeps DEF PublishNext

\* The inductive invariant of publishing: what each deployment, the server's
\* validation and a download know of the files (deploy-ota.yml, ota-server).
THEOREM PublishInductive == PublishSpec => []PublishIInv
BY PublishStarts, PublishStep, PTL DEF PublishSpec

\* Whatever the manifest names is there in full, as long as no version it has
\* named is deployed again, and so is what a receiver was offered: for any
\* number of releases and deployments, each of which may stop at any step.
THEOREM NamedIsThere == PublishSpec => []ManifestIsBacked
<1>1. PublishIInv => ManifestIsBacked
  BY DEF PublishIInv, NamedIsLive, LiveIsWhole, ManifestIsBacked
<1>. QED BY <1>1, PublishInductive, PTL
-----------------------------------------------------------------------------
(* Setting receivers up.                                                   *)

LEMMA NamesApart == NoHost \notin Host /\ Blank \notin Setting /\ Gone \notin Tool
                    /\ Blank.host = "blank" /\ "blank" \notin Host
BY SetupAssumption DEF SetupAssumption, NoHost, Blank, Setting, Gone

LEMMA IdleIs == Idle \in Job /\ Idle.at = "idle" /\ Idle.job = "none" /\ Idle.all = {}
                /\ Idle.todo = {} /\ Idle.changed = {}
BY DEF Idle, Job, NoHost

LEMMA OffIs ==
  ASSUME NEW r \in Receiver
  PROVE  Off(r) \in Receiver /\ Off(r).app = r.app /\ Off(r).saved = r.saved /\ ~Off(r).up
BY DEF Off, Receiver

LEMMA SpoilIs ==
  ASSUME NEW d \in Board, NEW by, tool \in [Tool -> Job]
  PROVE  /\ Spoil(d, by) \in [Tool -> Job]
         /\ \A u \in Tool : Spoil(d, by)[u] =
              IF u = by THEN tool[u] ELSE [tool[u] EXCEPT !.spoiled = @ \cup {d}]
<1>1. ASSUME NEW u \in Tool
      PROVE  [tool[u] EXCEPT !.spoiled = @ \cup {d}] \in Job
  <2>1. tool[u] \in Job
    OBVIOUS
  <2>. QED BY <2>1 DEF Job
<1>. QED BY <1>1 DEF Spoil

LEMMA SavedIs ==
  ASSUME NEW t \in Tool, NEW d \in Board, NEW c \in SUBSET Board, tool[t] \in Job
  PROVE  /\ Saved(t, d, c) \in Job
         /\ Saved(t, d, c).job = tool[t].job /\ Saved(t, d, c).host = tool[t].host
         /\ Saved(t, d, c).all = tool[t].all /\ Saved(t, d, c).seen = tool[t].seen
         /\ Saved(t, d, c).spoiled = tool[t].spoiled
         /\ Saved(t, d, c).changed = tool[t].changed \cup c
         /\ tool[t].todo # {d} /\ tool[t].todo # {} =>
              Saved(t, d, c).todo = tool[t].todo \ {d} /\ Saved(t, d, c).at = tool[t].at
         /\ tool[t].todo = {d} =>
              Saved(t, d, c).at \in {"verify", "report", "reboot"}
              /\ Saved(t, d, c).todo = tool[t].changed \cup c
<1>. DEFINE left == tool[t].todo \ {d}
            all == tool[t].changed \cup c
            todo == IF left = {} THEN all ELSE left
            at == IF left # {} THEN tool[t].at
                  ELSE IF tool[t].job = "cli" THEN "verify"
                  ELSE IF all = {} THEN "report" ELSE "reboot"
<1>1. Saved(t, d, c) = [tool[t] EXCEPT !.changed = all, !.todo = todo, !.at = at]
  BY DEF Saved
<1>2. /\ todo \in SUBSET Board /\ all \in SUBSET Board
      /\ at \in {"idle", "erase", "image", "nvs", "check", "inventory", "save", "verify",
                 "reboot", "report"}
  BY DEF Job
<1>3. /\ todo = (IF left = {} THEN all ELSE left)
      /\ at = (IF left # {} THEN tool[t].at ELSE IF tool[t].job = "cli" THEN "verify"
               ELSE IF all = {} THEN "report" ELSE "reboot")
  OBVIOUS
<1>. HIDE DEF todo, at, all, left
<1>4. Saved(t, d, c) \in Job
  BY <1>1, <1>2 DEF Job
<1>5. LET new == Saved(t, d, c)
      IN  /\ new.job = tool[t].job /\ new.host = tool[t].host /\ new.all = tool[t].all
          /\ new.seen = tool[t].seen /\ new.spoiled = tool[t].spoiled
          /\ new.changed = all /\ new.todo = todo /\ new.at = at
  BY <1>1 DEF Job
<1>6. /\ left = {} => tool[t].todo = {d} \/ tool[t].todo = {}
      /\ left # {} => tool[t].todo # {d}
  BY DEF left
<1>. QED BY <1>3, <1>4, <1>5, <1>6 DEF left, all

LEMMA WantedIs ==
  ASSUME NEW t \in Tool, NEW d \in Board, tool[t] \in Job, dev[d] \in Receiver,
         tool[t].host \in Host, dev[d].saved # Blank
  PROVE  /\ Wanted(t, d) \in Setting
         /\ tool[t].job # "four" => Wanted(t, d).host = tool[t].host
         /\ tool[t].seen[d] = dev[d].saved => Wanted(t, d).host = tool[t].host
<1>1. dev[d].saved \in Setting
  BY DEF Receiver
<1>. QED BY <1>1 DEF Wanted, Setting

LEMMA SetupStarts == SetupInit => SetupIInv
<1>. SUFFICES ASSUME SetupInit PROVE SetupIInv
  OBVIOUS
<1>1. PICK app \in [Board -> {"none", "whole"}] :
        dev = [d \in Board |-> [app |-> app[d], saved |-> Blank, active |-> Blank,
                                up |-> FALSE, due |-> FALSE]]
  BY DEF SetupInit
<1>2. /\ tool = [t \in Tool |-> Idle] /\ applying = [d \in Board |-> {}]
      /\ promise = [d \in Board |-> NoHost]
  BY DEF SetupInit
<1>3. dev \in [Board -> Receiver] /\ \A d \in Board : ~dev[d].up
  BY <1>1 DEF Receiver
<1>4. SetupTypeOK
  BY <1>2, <1>3, IdleIs DEF SetupTypeOK
<1>5. \A t \in Tool : OnCourse(t) /\ \A d \in tool[t].all \ tool[t].spoiled : Knows(t, d)
  BY <1>2, IdleIs DEF OnCourse
<1>6. \A d \in Board : RunsSaved(d) /\ PromiseIsSaved(d)
  BY <1>2, <1>3 DEF RunsSaved, PromiseIsSaved
<1>. QED BY <1>4, <1>5, <1>6 DEF SetupIInv

\* The receivers' states, one receiver at a time.
LEMMA ReceiverTypes ==
  ASSUME SetupTypeOK, \A t \in Tool : OnCourse(t), SetupNext
  PROVE  dev' \in [Board -> Receiver]
<1>1. dev \in [Board -> Receiver] /\ tool \in [Tool -> Job]
  BY DEF SetupTypeOK
<1>2. ASSUME NEW d \in Board, NEW x \in Receiver, dev' = [dev EXCEPT ![d] = x]
      PROVE  dev' \in [Board -> Receiver]
  BY <1>1, <1>2
<1>3. ASSUME NEW d \in Board, Boot(d) \/ Restart(d) \/ Provision(d) \/ ClearProvisioning(d)
      PROVE  dev' \in [Board -> Receiver]
  <2>1. CASE Boot(d)
    BY <1>1, <2>1 DEF Boot, Receiver
  <2>2. CASE Restart(d)
    BY <1>1, <1>2, <2>2, OffIs DEF Restart
  <2>3. CASE Provision(d)
    <3>1. PICK h \in Host :
            dev' = [dev EXCEPT ![d].saved = [host |-> h, tuned |-> FALSE], ![d].due = TRUE]
      BY <2>3 DEF Provision
    <3>2. [host |-> h, tuned |-> FALSE] \in Setting
      BY DEF Setting
    <3>. DEFINE c == [host |-> h, tuned |-> FALSE]
    <3>. HIDE DEF c
    <3>. QED BY <1>1, <3>1, <3>2 DEF Receiver, c
  <2>4. CASE ClearProvisioning(d)
    BY <1>1, <2>4 DEF ClearProvisioning, Receiver
  <2>. QED BY <1>3, <2>1, <2>2, <2>3, <2>4
<1>4. ASSUME NEW t \in Tool, NEW d \in Board, FlashErase(t, d) \/ FlashImage(t, d)
      PROVE  dev' \in [Board -> Receiver]
  <2>1. Off(dev[d]) \in Receiver
    BY <1>1, OffIs
  <2>2. ASSUME NEW a \in {"none", "part", "whole"},
               dev' = [dev EXCEPT ![d] = [Off(@) EXCEPT !.app = a, !.saved = Blank]]
        PROVE  dev' \in [Board -> Receiver]
    <3>1. [Off(dev[d]) EXCEPT !.app = a, !.saved = Blank] \in Receiver
      BY <2>1 DEF Receiver
    <3>. QED BY <1>1, <2>2, <3>1
  <2>3. CASE dev' = [dev EXCEPT ![d] = Off(@)]
    BY <1>1, <2>1, <2>3
  <2>. QED BY <1>4, <2>2, <2>3 DEF FlashErase, FlashImage
<1>5. ASSUME NEW t \in Tool, NEW d \in Board, FlashConfig(t, d) \/ FlashDone(t, d)
      PROVE  dev' \in [Board -> Receiver]
  <2>1. Off(dev[d]) \in Receiver
    BY <1>1, OffIs
  <2>2. CASE FlashConfig(t, d)
    <3>. DEFINE c == [host |-> tool[t].host, tuned |-> TRUE]
    <3>1. tool[t].host \in Host
      BY <2>2 DEF FlashConfig, At, OnCourse
    <3>2. c \in Setting
      BY <3>1 DEF Setting
    <3>3. dev' = [dev EXCEPT ![d] = [Off(@) EXCEPT !.saved = c]]
      BY <2>2 DEF FlashConfig
    <3>. HIDE DEF c
    <3>4. [Off(dev[d]) EXCEPT !.saved = c] \in Receiver
      BY <2>1, <3>2 DEF Receiver
    <3>. QED BY <1>1, <3>3, <3>4
  <2>3. CASE FlashDone(t, d)
    BY <1>1, <2>1, <2>3 DEF FlashDone
  <2>. QED BY <1>5, <2>2, <2>3
<1>6. ASSUME NEW t \in Tool, NEW d \in Board, Save(t, d)
      PROVE  dev' \in [Board -> Receiver]
  <2>1. CASE dev' = dev
    BY <1>1, <2>1
  <2>2. CASE dev[d].saved # Blank /\ dev' = [dev EXCEPT ![d].saved = Wanted(t, d)]
    <3>1. Wanted(t, d) \in Setting
      <4>1. tool[t].host \in Host
        BY <1>6 DEF Save, At, OnCourse
      <4>. QED BY <1>1, <2>2, <4>1, WantedIs
    <3>. QED BY <1>1, <2>2, <3>1 DEF Receiver
  <2>. QED BY <1>6, <2>1, <2>2 DEF Save
<1>7. ASSUME NEW t \in Tool, NEW d \in Board, RequestReboot(t, d)
      PROVE  dev' \in [Board -> Receiver]
  BY <1>1, <1>7 DEF RequestReboot, Receiver
<1>8. ASSUME \/ \E t \in Tool : StartTool(t) \/ Abandon(t) \/ Report(t)
             \/ \E t \in Tool, d \in Board : Inventory(t, d) \/ Verify(t, d)
      PROVE  dev' \in [Board -> Receiver]
  <2>1. dev' = dev
    BY <1>8 DEF StartTool, Abandon, Report, Inventory, Verify
  <2>. QED BY <1>1, <2>1
<1>. QED BY <1>3, <1>4, <1>5, <1>6, <1>7, <1>8 DEF SetupNext

\* The tools' states, one tool at a time; the others only learn that a receiver
\* is not as they left it.
LEMMA ToolTypes ==
  ASSUME SetupTypeOK, SetupNext
  PROVE  tool' \in [Tool -> Job]
<1>1. dev \in [Board -> Receiver] /\ tool \in [Tool -> Job]
  BY DEF SetupTypeOK
<1>2. ASSUME NEW d \in Board, Boot(d) \/ Restart(d) \/ Provision(d) \/ ClearProvisioning(d)
      PROVE  tool' \in [Tool -> Job]
  BY <1>1, <1>2, SpoilIs DEF Boot, Restart, Provision, ClearProvisioning
<1>3. ASSUME NEW t \in Tool, StartTool(t) \/ Abandon(t) \/ Report(t)
      PROVE  tool' \in [Tool -> Job]
  <2>1. CASE StartTool(t)
    <3>1. PICK h \in Host, d \in Board, job \in {"flash", "rf", "cli", "four"} :
            LET all == IF job = "four" THEN Board ELSE {d}
            IN  tool' = [tool EXCEPT ![t] =
                  [Idle EXCEPT !.job = job, !.host = h, !.all = all, !.todo = all,
                     !.at = CASE job = "flash" -> "erase" [] job = "cli" -> "save"
                              [] OTHER -> "inventory"]]
      BY <2>1 DEF StartTool
    <3>. DEFINE all == IF job = "four" THEN Board ELSE {d}
                at == CASE job = "flash" -> "erase" [] job = "cli" -> "save"
                        [] OTHER -> "inventory"
    <3>2. tool' = [tool EXCEPT ![t] = [Idle EXCEPT !.job = job, !.host = h, !.all = all,
                                                   !.todo = all, !.at = at]]
      BY <3>1
    <3>3. all \subseteq Board /\ at \in {"erase", "save", "inventory"}
      OBVIOUS
    <3>. HIDE DEF all, at
    <3>4. [Idle EXCEPT !.job = job, !.host = h, !.all = all, !.todo = all, !.at = at] \in Job
      BY <3>3, IdleIs DEF Job
    <3>. QED BY <1>1, <3>2, <3>4
  <2>2. CASE Abandon(t) \/ Report(t)
    BY <1>1, <2>2, IdleIs DEF Abandon, Report, Succeed
  <2>. QED BY <1>3, <2>1, <2>2
<1>4. ASSUME NEW t \in Tool, NEW d \in Board,
             \/ FlashErase(t, d) \/ FlashImage(t, d) \/ FlashConfig(t, d) \/ FlashDone(t, d)
      PROVE  tool' \in [Tool -> Job]
  <2>. DEFINE sp == Spoil(d, t)
  <2>1. sp \in [Tool -> Job]
    BY <1>1, SpoilIs
  <2>2. ASSUME NEW f \in [Tool -> Job], NEW at \in {"image", "nvs", "check"}
        PROVE  /\ [f EXCEPT ![t].at = at] \in [Tool -> Job]
               /\ [f EXCEPT ![t] = [@ EXCEPT !.at = at]] \in [Tool -> Job]
    <3>1. f[t] \in Job
      OBVIOUS
    <3>2. [f[t] EXCEPT !.at = at] \in Job
      BY <3>1 DEF Job
    <3>. QED BY <3>2
  <2>3. ASSUME NEW f \in [Tool -> Job] PROVE [f EXCEPT ![t] = Idle] \in [Tool -> Job]
    BY IdleIs
  <2>. HIDE DEF sp
  <2>4. CASE FlashErase(t, d)
    BY <1>1, <2>1, <2>2, <2>4 DEF FlashErase, sp
  <2>5. CASE FlashImage(t, d)
    <3>1. \/ tool' = [sp EXCEPT ![t] = [@ EXCEPT !.at = "nvs"]]
          \/ tool' = [sp EXCEPT ![t] = Idle]
      BY <2>5 DEF FlashImage, sp
    <3>. QED BY <2>1, <2>2, <2>3, <3>1
  <2>6. CASE FlashConfig(t, d)
    BY <2>1, <2>2, <2>6 DEF FlashConfig, sp
  <2>7. CASE FlashDone(t, d)
    BY <1>1, <2>3, <2>7 DEF FlashDone, Succeed
  <2>. QED BY <1>4, <2>4, <2>5, <2>6, <2>7
<1>5. ASSUME NEW t \in Tool, NEW d \in Board, Inventory(t, d)
      PROVE  tool' \in [Tool -> Job]
  <2>. DEFINE todo == IF tool[t].todo = {d} THEN tool[t].all ELSE tool[t].todo \ {d}
              at == IF tool[t].todo = {d} THEN "save" ELSE tool[t].at
              x == [tool[t] EXCEPT !.seen[d] = dev[d].saved, !.todo = todo, !.at = at]
  <2>1. tool' = [tool EXCEPT ![t] = Idle] \/ tool' = [tool EXCEPT ![t] = x]
    BY <1>5 DEF Inventory, Succeed
  <2>2. todo \in SUBSET Board /\ dev[d].saved \in Setting \cup {Blank}
    BY <1>1 DEF Job, Receiver
  <2>3. at \in {"idle", "erase", "image", "nvs", "check", "inventory", "save", "verify",
                "reboot", "report"}
    BY <1>1 DEF Job
  <2>. HIDE DEF todo, at
  <2>4. x \in Job
    BY <1>1, <2>2, <2>3 DEF Job
  <2>. HIDE DEF x
  <2>. QED BY <1>1, <2>1, <2>4, IdleIs
<1>6. ASSUME NEW t \in Tool, NEW d \in Board, Save(t, d)
      PROVE  tool' \in [Tool -> Job]
  <2>1. \A c \in SUBSET Board : Saved(t, d, c) \in Job
    BY <1>1, SavedIs
  <2>2. Spoil(d, t) \in [Tool -> Job] /\ {} \in SUBSET Board /\ {d} \in SUBSET Board
    BY <1>1, SpoilIs
  <2>. QED BY <1>1, <1>6, <2>1, <2>2 DEF Save
<1>7. ASSUME NEW t \in Tool, NEW d \in Board, Verify(t, d) \/ RequestReboot(t, d)
      PROVE  tool' \in [Tool -> Job]
  <2>1. tool[t] \in Job
    BY <1>1
  <2>2. CASE Verify(t, d)
    <3>1. [tool[t] EXCEPT !.at = "reboot"] \in Job
      BY <2>1 DEF Job
    <3>. QED BY <1>1, <2>2, <3>1 DEF Verify
  <2>3. CASE RequestReboot(t, d)
    <3>. DEFINE left == tool[t].todo \ {d}
                todo == IF left = {} THEN tool[t].changed ELSE left
                at == IF left = {} THEN "report" ELSE tool[t].at
                x == [tool[t] EXCEPT !.todo = todo, !.at = at]
    <3>1. tool' = [tool EXCEPT ![t] = x]
      BY <1>1, <2>3 DEF RequestReboot
    <3>2. /\ todo \in SUBSET Board
          /\ at \in {"idle", "erase", "image", "nvs", "check", "inventory", "save", "verify",
                     "reboot", "report"}
      BY <2>1 DEF Job
    <3>. HIDE DEF todo, at
    <3>3. x \in Job
      BY <2>1, <3>2 DEF Job
    <3>. HIDE DEF x
    <3>. QED BY <1>1, <3>1, <3>3
  <2>. QED BY <1>7, <2>2, <2>3
<1>. QED BY <1>2, <1>3, <1>4, <1>5, <1>6, <1>7 DEF SetupNext

\* Who saved, and what was promised.
LEMMA LedgerTypes ==
  ASSUME SetupTypeOK, \A t \in Tool : OnCourse(t), SetupNext
  PROVE  /\ applying' \in [Board -> SUBSET (Tool \cup {Gone})]
         /\ promise' \in [Board -> Host \cup {NoHost}]
<1>1. /\ applying \in [Board -> SUBSET (Tool \cup {Gone})]
      /\ promise \in [Board -> Host \cup {NoHost}]
  BY DEF SetupTypeOK
<1>2. ASSUME NEW t \in Tool, tool[t].at # "idle", Succeed(t)
      PROVE  promise' \in [Board -> Host \cup {NoHost}]
  <2>1. tool[t].host \in Host
    BY <1>2 DEF OnCourse
  <2>. QED BY <1>1, <1>2, <2>1 DEF Succeed
<1>3. ASSUME NEW d \in Board, Boot(d) \/ Restart(d) \/ Provision(d) \/ ClearProvisioning(d)
      PROVE  /\ applying' \in [Board -> SUBSET (Tool \cup {Gone})]
             /\ promise' \in [Board -> Host \cup {NoHost}]
  BY <1>1, <1>3 DEF Boot, Restart, Provision, ClearProvisioning
<1>4. ASSUME NEW t \in Tool, StartTool(t) \/ Abandon(t) \/ Report(t)
      PROVE  /\ applying' \in [Board -> SUBSET (Tool \cup {Gone})]
             /\ promise' \in [Board -> Host \cup {NoHost}]
  <2>1. CASE StartTool(t)
    BY <1>1, <2>1 DEF StartTool
  <2>2. CASE Abandon(t)
    BY <1>1, <2>2 DEF Abandon
  <2>3. CASE Report(t)
    BY <1>1, <1>2, <2>3 DEF Report
  <2>. QED BY <1>4, <2>1, <2>2, <2>3
<1>5. ASSUME NEW t \in Tool, NEW d \in Board,
             \/ FlashErase(t, d) \/ FlashImage(t, d) \/ FlashConfig(t, d) \/ FlashDone(t, d)
             \/ Inventory(t, d) \/ Save(t, d) \/ Verify(t, d) \/ RequestReboot(t, d)
      PROVE  /\ applying' \in [Board -> SUBSET (Tool \cup {Gone})]
             /\ promise' \in [Board -> Host \cup {NoHost}]
  <2>1. CASE FlashErase(t, d) \/ FlashImage(t, d) \/ FlashConfig(t, d)
    BY <1>1, <2>1 DEF FlashErase, FlashImage, FlashConfig
  <2>2. CASE FlashDone(t, d)
    BY <1>1, <1>2, <2>2 DEF FlashDone, At
  <2>3. CASE Inventory(t, d)
    BY <1>1, <1>2, <2>3 DEF Inventory, At
  <2>4. CASE Save(t, d)
    BY <1>1, <2>4 DEF Save, Rewrites
  <2>5. CASE Verify(t, d) \/ RequestReboot(t, d)
    BY <1>1, <2>5 DEF Verify, RequestReboot
  <2>. QED BY <1>5, <2>1, <2>2, <2>3, <2>4, <2>5
<1>. QED BY <1>3, <1>4, <1>5 DEF SetupNext

\* A tool, and all it knows.
InTheKnow(t) ==
  OnCourse(t) /\ \A d \in tool[t].all \ tool[t].spoiled : Knows(t, d)

LEMMA IdleKnows ==
  ASSUME NEW t \in Tool, tool'[t] = Idle
  PROVE  InTheKnow(t)'
BY IdleIs DEF InTheKnow, OnCourse

\* What another does on one receiver: it leaves the image and what is saved
\* alone, or this tool has to count that receiver out.
LEMMA BystanderKnows ==
  ASSUME NEW u \in Tool, NEW d \in Board, tool \in [Tool -> Job], InTheKnow(u),
         \A e \in Board : e # d => dev'[e] = dev[e],
         \/ tool'[u] = tool[u] /\ dev'[d].app = dev[d].app /\ dev'[d].saved = dev[d].saved
         \/ tool'[u] = [tool[u] EXCEPT !.spoiled = @ \cup {d}]
  PROVE  InTheKnow(u)'
<1>1. tool[u] \in Job
  OBVIOUS
<1>2. /\ tool'[u].job = tool[u].job /\ tool'[u].host = tool[u].host /\ tool'[u].at = tool[u].at
      /\ tool'[u].all = tool[u].all /\ tool'[u].todo = tool[u].todo
      /\ tool'[u].changed = tool[u].changed /\ tool'[u].seen = tool[u].seen
      /\ tool[u].spoiled \subseteq tool'[u].spoiled
      /\ d \in tool'[u].spoiled \/ (dev'[d].app = dev[d].app /\ dev'[d].saved = dev[d].saved)
  BY <1>1 DEF Job
<1>3. OnCourse(u)'
  BY <1>2 DEF InTheKnow, OnCourse
<1>4. ASSUME NEW e \in tool'[u].all \ tool'[u].spoiled
      PROVE  Knows(u, e)'
  <2>1. e \in Board /\ e \in tool[u].all \ tool[u].spoiled
    BY <1>1, <1>2, <1>4 DEF Job
  <2>2. dev'[e].app = dev[e].app /\ dev'[e].saved = dev[e].saved
    BY <1>2, <1>4, <2>1
  <2>3. Knows(u, e)
    BY <2>1 DEF InTheKnow
  <2>. QED BY <1>2, <2>2, <2>3 DEF Knows, Made
<1>. QED BY <1>3, <1>4 DEF InTheKnow

\* The whole of the tools' knowledge, through every step.
LEMMA KnowledgeKept ==
  ASSUME SetupIInv, SetupNext, NEW u \in Tool
  PROVE  InTheKnow(u)'
<1>1. dev \in [Board -> Receiver] /\ tool \in [Tool -> Job]
  BY DEF SetupIInv, SetupTypeOK
<1>2. \A t \in Tool : InTheKnow(t)
  BY DEF SetupIInv, InTheKnow
<1>3. \A d \in Board : dev[d].up => dev[d].app = "whole"
  BY DEF SetupIInv, RunsSaved
<1>4. ASSUME NEW d \in Board, \A e \in Board : e # d => dev'[e] = dev[e],
             tool'[u] = [tool[u] EXCEPT !.spoiled = @ \cup {d}]
      PROVE  InTheKnow(u)'
  BY <1>1, <1>2, <1>4, BystanderKnows
<1>5. ASSUME NEW d \in Board, \A e \in Board : e # d => dev'[e] = dev[e],
             tool'[u] = tool[u], dev'[d].app = dev[d].app, dev'[d].saved = dev[d].saved
      PROVE  InTheKnow(u)'
  BY <1>1, <1>2, <1>5, BystanderKnows
<1>6. ASSUME NEW t \in Tool, dev' = dev, tool' = [tool EXCEPT ![t] = Idle]
      PROVE  InTheKnow(u)'
  <2>1. CASE u = t
    BY <1>1, <1>6, <2>1, IdleKnows
  <2>2. CASE u # t /\ Board # {}
    BY <1>1, <1>5, <1>6, <2>2
  <2>3. CASE u # t /\ Board = {}
    <3>1. tool'[u] = tool[u] /\ tool[u].all \subseteq Board
      BY <1>1, <1>6, <2>3 DEF Job
    <3>. QED BY <1>2, <2>3, <3>1 DEF InTheKnow, OnCourse
  <2>. QED BY <2>1, <2>2, <2>3
<1>7. ASSUME NEW d \in Board, Boot(d) \/ Restart(d) \/ Provision(d) \/ ClearProvisioning(d)
      PROVE  InTheKnow(u)'
  <2>1. CASE Boot(d)
    <3>1. /\ dev' = [dev EXCEPT ![d] = [@ EXCEPT !.up = TRUE, !.active = dev[d].saved]]
          /\ tool' = tool
      BY <2>1 DEF Boot
    <3>2. dev[d] \in Receiver
      BY <1>1
    <3>3. dev'[d].app = dev[d].app /\ dev'[d].saved = dev[d].saved
      BY <1>1, <3>1, <3>2 DEF Receiver
    <3>. QED BY <1>1, <1>5, <3>1, <3>3
  <2>2. CASE Restart(d)
    <3>1. dev' = [dev EXCEPT ![d] = Off(@)] /\ tool' = tool
      BY <2>2 DEF Restart
    <3>2. dev'[d].app = dev[d].app /\ dev'[d].saved = dev[d].saved
      BY <1>1, <3>1, OffIs
    <3>. QED BY <1>1, <1>5, <3>1, <3>2
  <2>3. CASE Provision(d) \/ ClearProvisioning(d)
    <3>1. tool' = Spoil(d, Gone) /\ \A e \in Board : e # d => dev'[e] = dev[e]
      BY <1>1, <2>3 DEF Provision, ClearProvisioning
    <3>2. tool'[u] = [tool[u] EXCEPT !.spoiled = @ \cup {d}]
      BY <1>1, <3>1, SpoilIs, NamesApart
    <3>. QED BY <1>4, <3>1, <3>2
  <2>. QED BY <1>7, <2>1, <2>2, <2>3
<1>8. ASSUME NEW t \in Tool, StartTool(t)
      PROVE  InTheKnow(u)'
  <2>1. PICK h \in Host, d \in Board, job \in {"flash", "rf", "cli", "four"} :
          LET all == IF job = "four" THEN Board ELSE {d}
          IN  tool' = [tool EXCEPT ![t] =
                [Idle EXCEPT !.job = job, !.host = h, !.all = all, !.todo = all,
                   !.at = CASE job = "flash" -> "erase" [] job = "cli" -> "save"
                            [] OTHER -> "inventory"]]
    BY <1>8 DEF StartTool
  <2>. DEFINE all == IF job = "four" THEN Board ELSE {d}
              at == CASE job = "flash" -> "erase" [] job = "cli" -> "save"
                      [] OTHER -> "inventory"
  <2>2. /\ tool' = [tool EXCEPT ![t] = [Idle EXCEPT !.job = job, !.host = h, !.all = all,
                                                    !.todo = all, !.at = at]]
        /\ dev' = dev
    BY <1>8, <2>1 DEF StartTool
  <2>3. /\ at = "erase" => job = "flash"
        /\ at = "save" => job = "cli"
        /\ at \in {"erase", "save", "inventory"}
        /\ job # "four" => all = {d}
    OBVIOUS
  <2>. HIDE DEF all, at
  <2>4. CASE u = t
    <3>1. /\ tool'[u].job = job /\ tool'[u].host = h /\ tool'[u].all = all
          /\ tool'[u].todo = all /\ tool'[u].at = at /\ tool'[u].changed = {}
      BY <1>1, <2>2, <2>4, IdleIs DEF Job
    <3>2. OnCourse(u)'
      BY <2>3, <3>1 DEF OnCourse
    <3>3. \A e \in tool'[u].all : Knows(u, e)'
      BY <2>3, <3>1 DEF Knows
    <3>. QED BY <3>2, <3>3 DEF InTheKnow
  <2>5. CASE u # t
    BY <1>1, <1>5, <2>2, <2>5
  <2>. QED BY <2>4, <2>5
<1>9. ASSUME NEW t \in Tool, Abandon(t) \/ Report(t)
      PROVE  InTheKnow(u)'
  BY <1>6, <1>9 DEF Abandon, Report, Succeed
\* The flasher, which has one receiver in hand.
<1>10. ASSUME NEW t \in Tool, NEW d \in Board,
              \/ FlashErase(t, d) \/ FlashImage(t, d) \/ FlashConfig(t, d) \/ FlashDone(t, d)
       PROVE  InTheKnow(u)'
  <2>1. dev[d] \in Receiver /\ tool[t] \in Job /\ tool[u] \in Job
    BY <1>1
  <2>2. tool[t].all = {d} /\ tool[t].job = "flash" /\ tool[t].host \in Host
    BY <1>2, <1>10 DEF FlashErase, FlashImage, FlashConfig, FlashDone, At, InTheKnow, OnCourse
  <2>3. \A e \in Board : e # d => dev'[e] = dev[e]
    BY <1>1, <1>10 DEF FlashErase, FlashImage, FlashConfig, FlashDone
  <2>. DEFINE sp == Spoil(d, t)
  <2>4. sp \in [Tool -> Job] /\ sp[t] = tool[t]
        /\ (u # t => sp[u] = [tool[u] EXCEPT !.spoiled = @ \cup {d}])
    BY <1>1, SpoilIs
  <2>. HIDE DEF sp
  <2>6. ASSUME u = t, NEW at, NEW w, w.at = at, at \in {"image", "nvs", "check"},
               tool'[t] = w, w = [tool[t] EXCEPT !.at = at],
               at = "nvs" => dev'[d].app = "whole",
               at = "check" /\ d \notin tool[t].spoiled => Made(t, d)'
        PROVE  InTheKnow(u)'
    <3>1. /\ w.job = "flash" /\ w.host \in Host /\ w.todo = tool[t].todo
          /\ w.changed = tool[t].changed /\ w.all = {d} /\ w.spoiled = tool[t].spoiled
      BY <2>1, <2>2, <2>6 DEF Job
    <3>2. OnCourse(u)'
      BY <1>2, <2>2, <2>6, <3>1 DEF OnCourse, InTheKnow
    <3>3. \A e \in tool'[u].all \ tool'[u].spoiled : Knows(u, e)'
      BY <2>6, <3>1 DEF Knows
    <3>. QED BY <3>2, <3>3 DEF InTheKnow
  <2>7. CASE FlashErase(t, d)
    <3>. DEFINE w == [tool[t] EXCEPT !.at = "image"]
    <3>1. /\ \/ tool' = [sp EXCEPT ![t] = w]
             \/ tool' = [tool EXCEPT ![t] = w] /\ dev' = [dev EXCEPT ![d] = Off(@)]
      BY <2>4, <2>7 DEF FlashErase, sp
    <3>2. w.at = "image"
      BY <2>1 DEF Job
    <3>3. tool'[t] = w
      BY <1>1, <2>4, <3>1
    <3>4. CASE u = t
      BY <2>6, <3>2, <3>3, <3>4
    <3>5. CASE u # t
      <4>. HIDE DEF w
      <4>1. CASE tool' = [sp EXCEPT ![t] = w]
        BY <1>4, <2>3, <2>4, <3>5, <4>1
      <4>2. CASE tool' = [tool EXCEPT ![t] = w] /\ dev' = [dev EXCEPT ![d] = Off(@)]
        BY <1>1, <1>5, <2>1, <2>3, <3>5, <4>2, OffIs
      <4>. QED BY <3>1, <4>1, <4>2
    <3>. QED BY <3>4, <3>5
  <2>8. CASE FlashImage(t, d)
    <3>. DEFINE w == [tool[t] EXCEPT !.at = "nvs"]
    <3>1. \/ /\ dev' = [dev EXCEPT ![d] = [Off(@) EXCEPT !.app = "whole", !.saved = Blank]]
             /\ tool' = [sp EXCEPT ![t] = w]
          \/ tool' = [sp EXCEPT ![t] = Idle]
      BY <2>4, <2>8 DEF FlashImage, sp
    <3>2. w.at = "nvs"
      BY <2>1 DEF Job
    <3>3. CASE u # t
      <4>. HIDE DEF w
      <4>. QED BY <1>4, <2>3, <2>4, <3>1, <3>3
    <3>4. CASE u = t /\ tool' = [sp EXCEPT ![t] = Idle]
      BY <2>4, <3>4, IdleKnows
    <3>5. CASE u = t /\ tool' = [sp EXCEPT ![t] = w]
               /\ dev' = [dev EXCEPT ![d] = [Off(@) EXCEPT !.app = "whole", !.saved = Blank]]
      <4>1. dev'[d].app = "whole"
        <5>1. Off(dev[d]) \in Receiver
          BY <2>1, OffIs
        <5>. QED BY <1>1, <3>5, <5>1 DEF Receiver
      <4>2. tool'[t] = w
        BY <2>4, <3>5
      <4>. QED BY <2>6, <3>2, <3>5, <4>1, <4>2
    <3>. QED BY <3>1, <3>3, <3>4, <3>5
  <2>9. CASE FlashConfig(t, d)
    <3>. DEFINE w == [tool[t] EXCEPT !.at = "check"]
                c == [host |-> tool[t].host, tuned |-> TRUE]
    <3>1. /\ dev' = [dev EXCEPT ![d] = [Off(@) EXCEPT !.saved = c]]
          /\ tool' = [sp EXCEPT ![t] = w] /\ tool[t].at = "nvs"
      BY <2>4, <2>9 DEF FlashConfig, At, sp
    <3>2. w.at = "check" /\ w.host = tool[t].host /\ c.host = tool[t].host
      BY <2>1 DEF Job
    <3>. HIDE DEF c
    <3>3. CASE u # t
      <4>. HIDE DEF w
      <4>. QED BY <1>4, <2>3, <2>4, <3>1, <3>3
    <3>4. CASE u = t
      <4>1. tool'[t] = w
        BY <2>4, <3>1
      <4>2. dev'[d].app = dev[d].app /\ dev'[d].saved = c
        <5>1. Off(dev[d]) \in Receiver /\ Off(dev[d]).app = dev[d].app
          BY <2>1, OffIs
        <5>. QED BY <1>1, <3>1, <5>1 DEF Receiver
      <4>3. d \notin tool[t].spoiled => dev[d].app = "whole"
        BY <1>2, <2>2, <3>1 DEF InTheKnow, Knows
      <4>4. d \notin tool[t].spoiled => Made(t, d)'
        BY <3>2, <4>1, <4>2, <4>3 DEF Made
      <4>. QED BY <2>6, <3>2, <3>4, <4>1, <4>4
    <3>. QED BY <3>3, <3>4
  <2>10. CASE FlashDone(t, d)
    <3>1. dev' = [dev EXCEPT ![d] = Off(@)] /\ tool' = [tool EXCEPT ![t] = Idle]
      BY <2>10 DEF FlashDone, Succeed
    <3>2. CASE u # t
      BY <1>1, <1>5, <2>1, <2>3, <3>1, <3>2, OffIs
    <3>3. CASE u = t
      BY <1>1, <3>1, <3>3, IdleKnows
    <3>. QED BY <3>2, <3>3
  <2>. QED BY <1>10, <2>7, <2>8, <2>9, <2>10
\* The tools that use the control API.
<1>11. ASSUME NEW t \in Tool, NEW d \in Board, Inventory(t, d)
       PROVE  InTheKnow(u)'
  <2>. DEFINE todo == IF tool[t].todo = {d} THEN tool[t].all ELSE tool[t].todo \ {d}
              at == IF tool[t].todo = {d} THEN "save" ELSE tool[t].at
              seen == [tool[t].seen EXCEPT ![d] = dev[d].saved]
              x == [tool[t] EXCEPT !.seen = seen, !.todo = todo, !.at = at]
  <2>1. /\ tool[t].at = "inventory" /\ d \in tool[t].todo /\ dev' = dev
        /\ tool' = [tool EXCEPT ![t] = Idle] \/ tool' = [tool EXCEPT ![t] = x]
    BY <1>11 DEF Inventory, Succeed, At
  <2>2. tool[t] \in Job /\ InTheKnow(t)
    BY <1>1, <1>2
  <2>3. /\ \A e \in Board : seen[e] = IF e = d THEN dev[d].saved ELSE tool[t].seen[e]
        /\ tool[t].todo = {d} => todo = tool[t].all /\ at = "save"
        /\ tool[t].todo # {d} => todo = tool[t].todo \ {d} /\ at = "inventory"
    BY <2>1, <2>2 DEF Job
  <2>. HIDE DEF seen, todo, at
  <2>4. /\ x.job = tool[t].job /\ x.host = tool[t].host /\ x.at = at /\ x.all = tool[t].all
        /\ x.todo = todo /\ x.changed = tool[t].changed /\ x.seen = seen
        /\ x.spoiled = tool[t].spoiled
    BY <2>2 DEF Job
  <2>. HIDE DEF x
  <2>5. CASE tool' = [tool EXCEPT ![t] = Idle]
    BY <1>6, <2>1, <2>5
  <2>6. CASE tool' = [tool EXCEPT ![t] = x] /\ u # t
    BY <1>1, <1>5, <2>1, <2>6
  <2>7. CASE tool' = [tool EXCEPT ![t] = x] /\ u = t
    <3>1. tool'[t] = x
      BY <1>1, <2>7
    <3>2. OnCourse(t)'
      BY <2>1, <2>2, <2>3, <2>4, <3>1 DEF InTheKnow, OnCourse
    <3>3. ASSUME NEW e \in x.all \ x.spoiled
          PROVE  Knows(t, e)'
      <4>1. Knows(t, e) /\ e \in Board
        BY <2>2, <2>4, <3>3 DEF InTheKnow, Job
      <4>2. e \notin tool[t].todo \/ e = d => seen[e] = dev[e].saved
        BY <2>1, <2>3, <4>1 DEF Knows
      <4>. QED BY <2>1, <2>3, <2>4, <3>1, <3>3, <4>2 DEF Knows
    <3>. QED BY <2>7, <3>1, <3>2, <3>3 DEF InTheKnow
  <2>. QED BY <2>1, <2>5, <2>6, <2>7
<1>12. ASSUME NEW t \in Tool, NEW d \in Board, Save(t, d)
       PROVE  InTheKnow(u)'
  <2>1. tool[t] \in Job /\ dev[d] \in Receiver /\ InTheKnow(t)
    BY <1>1, <1>2
  <2>2. tool[t].at = "save" /\ d \in tool[t].todo /\ dev[d].app = "whole"
    BY <1>3, <1>12 DEF Save, At, Answers
  <2>3. d \in tool[t].all /\ tool[t].host \in Host
    BY <2>1, <2>2 DEF InTheKnow, OnCourse
  <2>4. d \notin tool[t].spoiled /\ tool[t].job = "four" => tool[t].seen[d] = dev[d].saved
    BY <2>1, <2>2, <2>3 DEF InTheKnow, Knows
  <2>5. ASSUME NEW c \in SUBSET {d}, tool'[t] = Saved(t, d, c),
               \A e \in Board : e # d => dev'[e] = dev[e], dev'[d].app = "whole",
               d \notin tool[t].spoiled => dev'[d].saved.host = tool[t].host
        PROVE  InTheKnow(t)'
    <3>. DEFINE left == tool[t].todo \ {d}
                all == tool[t].changed \cup c
                x == Saved(t, d, c)
    <3>0. c \in SUBSET Board
      OBVIOUS
    <3>1. /\ x.job = tool[t].job /\ x.host = tool[t].host /\ x.all = tool[t].all
          /\ x.seen = tool[t].seen /\ x.spoiled = tool[t].spoiled /\ x.changed = all
          /\ left # {} => x.at = "save" /\ x.todo = left
          /\ left = {} => x.at \in {"verify", "report", "reboot"} /\ x.todo = all
      BY <2>1, <2>2, <3>0, SavedIs
    <3>2. tool'[t] = x /\ all \subseteq tool[t].all
      BY <2>1, <2>3, <2>5 DEF InTheKnow, OnCourse
    <3>. HIDE DEF x, all
    <3>3. OnCourse(t)'
      BY <2>1, <2>3, <3>1, <3>2 DEF InTheKnow, OnCourse
    <3>4. ASSUME NEW e \in x.all \ x.spoiled
          PROVE  Knows(t, e)'
      <4>1. Knows(t, e) /\ e \in Board
        BY <2>1, <3>1, <3>4 DEF InTheKnow, Job
      <4>2. e \notin left => Made(t, e)'
        BY <2>2, <2>5, <3>1, <3>2, <3>4, <4>1 DEF Knows, Made
      <4>3. e \in left /\ tool[t].job = "four" => tool[t].seen[e] = dev'[e].saved
        BY <2>2, <2>5, <4>1 DEF Knows
      <4>. QED BY <3>1, <3>2, <4>2, <4>3 DEF Knows
    <3>. QED BY <3>2, <3>3, <3>4 DEF InTheKnow
  <2>6. CASE /\ tool[t].job = "four" /\ tool[t].seen[d] = [host |-> tool[t].host, tuned |-> TRUE]
             /\ tool' = [tool EXCEPT ![t] = Saved(t, d, {})] /\ dev' = dev
    <3>1. CASE u # t
      BY <1>1, <1>5, <2>6, <3>1
    <3>2. CASE u = t
      <4>1. tool'[t] = Saved(t, d, {})
        BY <1>1, <2>6
      <4>2. d \notin tool[t].spoiled => dev'[d].saved.host = tool[t].host
        BY <2>4, <2>6
      <4>. QED BY <2>2, <2>5, <2>6, <3>2, <4>1, <4>2
    <3>. QED BY <3>1, <3>2
  <2>7. CASE /\ dev[d].saved # Blank
             /\ dev' = [dev EXCEPT ![d].saved = Wanted(t, d)]
             /\ tool' = [Spoil(d, t) EXCEPT ![t] = Saved(t, d, {d})]
    <3>1. \A e \in Board : e # d => dev'[e] = dev[e]
      BY <1>1, <2>7
    <3>2. /\ Spoil(d, t) \in [Tool -> Job]
          /\ u # t => Spoil(d, t)[u] = [tool[u] EXCEPT !.spoiled = @ \cup {d}]
      BY <1>1, SpoilIs
    <3>3. CASE u # t
      BY <1>4, <2>7, <3>1, <3>2, <3>3
    <3>4. CASE u = t
      <4>1. tool'[t] = Saved(t, d, {d})
        BY <2>7, <3>2
      <4>2. dev'[d].app = "whole" /\ dev'[d].saved = Wanted(t, d)
        BY <1>1, <2>1, <2>2, <2>7 DEF Receiver
      <4>3. d \notin tool[t].spoiled => dev'[d].saved.host = tool[t].host
        BY <2>1, <2>3, <2>4, <2>7, <4>2, WantedIs
      <4>. QED BY <2>5, <3>1, <3>4, <4>1, <4>2, <4>3
    <3>. QED BY <3>3, <3>4
  <2>. QED BY <1>12, <2>6, <2>7 DEF Save
<1>13. ASSUME NEW t \in Tool, NEW d \in Board, Verify(t, d) \/ RequestReboot(t, d)
       PROVE  InTheKnow(u)'
  <2>1. tool[t] \in Job /\ dev[d] \in Receiver /\ InTheKnow(t)
    BY <1>1, <1>2
  <2>2. /\ tool[t].at \in {"verify", "reboot"} /\ d \in tool[t].todo
        /\ \A e \in Board : e # d => dev'[e] = dev[e]
        /\ dev'[d].app = dev[d].app /\ dev'[d].saved = dev[d].saved
    BY <1>1, <1>13, <2>1 DEF Verify, RequestReboot, At, Receiver
  <2>3. \E x \in Job :
          /\ tool' = [tool EXCEPT ![t] = x]
          /\ x.job = tool[t].job /\ x.host = tool[t].host /\ x.all = tool[t].all
          /\ x.changed = tool[t].changed /\ x.spoiled = tool[t].spoiled
          /\ x.at \in {"reboot", "report"}
          /\ x.todo \subseteq tool[t].all
    <3>1. tool[t].todo \subseteq tool[t].all /\ tool[t].changed \subseteq tool[t].all
      BY <2>1 DEF InTheKnow, OnCourse
    <3>2. CASE Verify(t, d)
      <4>. DEFINE x == [tool[t] EXCEPT !.at = "reboot"]
      <4>1. tool' = [tool EXCEPT ![t] = x]
        BY <3>2 DEF Verify
      <4>2. /\ x \in Job
            /\ x.job = tool[t].job /\ x.host = tool[t].host /\ x.all = tool[t].all
            /\ x.changed = tool[t].changed /\ x.spoiled = tool[t].spoiled
            /\ x.at = "reboot" /\ x.todo = tool[t].todo
        BY <2>1 DEF Job
      <4>. HIDE DEF x
      <4>. QED BY <3>1, <4>1, <4>2
    <3>3. CASE RequestReboot(t, d)
      <4>. DEFINE left == tool[t].todo \ {d}
                  todo == IF left = {} THEN tool[t].changed ELSE left
                  at == IF left = {} THEN "report" ELSE tool[t].at
                  x == [tool[t] EXCEPT !.todo = todo, !.at = at]
      <4>1. tool' = [tool EXCEPT ![t] = x] /\ tool[t].at = "reboot"
        BY <1>1, <3>3 DEF RequestReboot, At
      <4>2. todo \subseteq tool[t].all /\ todo \in SUBSET Board /\ at \in {"reboot", "report"}
        BY <2>1, <3>1, <4>1 DEF Job
      <4>. HIDE DEF todo, at
      <4>3. /\ x \in Job
            /\ x.job = tool[t].job /\ x.host = tool[t].host /\ x.all = tool[t].all
            /\ x.changed = tool[t].changed /\ x.spoiled = tool[t].spoiled
            /\ x.at = at /\ x.todo = todo
        BY <2>1, <4>2 DEF Job
      <4>. HIDE DEF x
      <4>. QED BY <4>1, <4>2, <4>3
    <3>. QED BY <1>13, <3>2, <3>3
  <2>4. PICK x \in Job :
          /\ tool' = [tool EXCEPT ![t] = x]
          /\ x.job = tool[t].job /\ x.host = tool[t].host /\ x.all = tool[t].all
          /\ x.changed = tool[t].changed /\ x.spoiled = tool[t].spoiled
          /\ x.at \in {"reboot", "report"}
          /\ x.todo \subseteq tool[t].all
    BY <2>3
  <2>5. CASE u # t
    BY <1>1, <1>5, <2>2, <2>4, <2>5
  <2>6. CASE u = t
    <3>1. tool'[t] = x
      BY <1>1, <2>4
    <3>2. OnCourse(t)'
      BY <2>1, <2>2, <2>4, <3>1 DEF InTheKnow, OnCourse
    <3>3. ASSUME NEW e \in x.all \ x.spoiled
          PROVE  Knows(t, e)'
      <4>1. Knows(t, e) /\ e \in Board
        BY <2>1, <2>4, <3>3 DEF InTheKnow, Job
      <4>2. Made(t, e)
        BY <2>2, <4>1 DEF Knows
      <4>3. Made(t, e)'
        BY <2>2, <2>4, <3>1, <4>1, <4>2 DEF Made
      <4>. QED BY <2>4, <3>1, <4>3 DEF Knows
    <3>. QED BY <2>6, <3>1, <3>2, <3>3 DEF InTheKnow
  <2>. QED BY <2>5, <2>6
<1>. QED BY <1>7, <1>8, <1>9, <1>10, <1>11, <1>12, <1>13 DEF SetupNext

\* Nothing about a receiver that a step leaves alone, or only takes restarts from.
LEMMA ReceiverLeft ==
  ASSUME NEW d \in Board, dev'[d] = dev[d], promise'[d] = promise[d],
         applying'[d] = {} <=> applying[d] = {},
         RunsSaved(d), PromiseIsSaved(d)
  PROVE  RunsSaved(d)' /\ PromiseIsSaved(d)'
BY DEF RunsSaved, PromiseIsSaved

\* A tool that succeeds promises what it knows.
LEMMA PromiseKept ==
  ASSUME NEW t \in Tool, InTheKnow(t), tool[t].at # "idle", Succeed(t), applying' = applying,
         \A d \in Board : PromiseIsSaved(d),
         \A d \in Board : dev'[d].app = dev[d].app /\ dev'[d].saved = dev[d].saved,
         \A d \in tool[t].all \ tool[t].spoiled : Made(t, d)
  PROVE  \A d \in Board : PromiseIsSaved(d)'
<1>. SUFFICES ASSUME NEW d \in Board PROVE PromiseIsSaved(d)'
  OBVIOUS
<1>1. promise'[d] = IF d \in tool[t].all \ tool[t].spoiled /\ applying[d] = {} THEN tool[t].host
                    ELSE promise[d]
  BY DEF Succeed
<1>2. dev'[d].app = dev[d].app /\ dev'[d].saved = dev[d].saved /\ applying'[d] = applying[d]
  OBVIOUS
<1>3. PromiseIsSaved(d) /\ d \in tool[t].all \ tool[t].spoiled => Made(t, d)
  OBVIOUS
<1>. QED BY <1>1, <1>2, <1>3 DEF PromiseIsSaved, Made

LEMMA ReceiversKept ==
  ASSUME SetupIInv, SetupNext, NEW e \in Board
  PROVE  RunsSaved(e)' /\ PromiseIsSaved(e)'
<1>1. /\ dev \in [Board -> Receiver] /\ tool \in [Tool -> Job]
      /\ applying \in [Board -> SUBSET (Tool \cup {Gone})]
      /\ promise \in [Board -> Host \cup {NoHost}]
  BY DEF SetupIInv, SetupTypeOK
<1>2. \A t \in Tool : InTheKnow(t)
  BY DEF SetupIInv, InTheKnow
<1>3. \A d \in Board : RunsSaved(d) /\ PromiseIsSaved(d)
  BY DEF SetupIInv
<1>4. ASSUME NEW d \in Board, e # d, dev'[e] = dev[e], promise'[e] = promise[e],
             applying'[e] = applying[e]
      PROVE  RunsSaved(e)' /\ PromiseIsSaved(e)'
  BY <1>3, <1>4, ReceiverLeft
\* It is off: only what was promised matters.
<1>5. ASSUME ~dev'[e].up, applying'[e] = applying[e], promise'[e] = promise[e],
             dev'[e].app = dev[e].app, dev'[e].saved = dev[e].saved
      PROVE  RunsSaved(e)' /\ PromiseIsSaved(e)'
  BY <1>3, <1>5 DEF RunsSaved, PromiseIsSaved
<1>6. ASSUME NEW t \in Tool, tool[t].at # "idle", Succeed(t), applying' = applying,
             \A d \in Board : dev'[d].app = dev[d].app /\ dev'[d].saved = dev[d].saved,
             \A d \in tool[t].all \ tool[t].spoiled : Made(t, d),
             dev'[e] = dev[e] \/ ~dev'[e].up
      PROVE  RunsSaved(e)' /\ PromiseIsSaved(e)'
  <2>1. PromiseIsSaved(e)'
    BY <1>2, <1>3, <1>6, PromiseKept
  <2>2. RunsSaved(e)'
    BY <1>3, <1>6 DEF RunsSaved
  <2>. QED BY <2>1, <2>2
<1>7. ASSUME NEW d \in Board, Boot(d) \/ Restart(d) \/ Provision(d) \/ ClearProvisioning(d)
      PROVE  RunsSaved(e)' /\ PromiseIsSaved(e)'
  <2>1. dev[d] \in Receiver
    BY <1>1
  <2>2. CASE e # d
    <3>1. dev'[e] = dev[e] /\ promise'[e] = promise[e] /\ applying'[e] = applying[e]
      BY <1>1, <1>7, <2>2 DEF Boot, Restart, Provision, ClearProvisioning
    <3>. QED BY <1>4, <2>2, <3>1
  <2>3. CASE e = d /\ Boot(d)
    <3>1. /\ dev' = [dev EXCEPT ![d] = [@ EXCEPT !.up = TRUE, !.active = dev[d].saved]]
          /\ dev[d].app = "whole"
          /\ applying' = [applying EXCEPT ![d] = {}] /\ promise' = promise
      BY <2>3 DEF Boot
    <3>2. /\ dev'[e].app = "whole" /\ dev'[e].saved = dev[e].saved /\ dev'[e].active = dev[e].saved
          /\ applying'[e] = {} /\ promise'[e] = promise[e]
      BY <1>1, <2>1, <2>3, <3>1 DEF Receiver
    <3>3. PromiseIsSaved(e)
      BY <1>3
    <3>. QED BY <3>2, <3>3 DEF RunsSaved, PromiseIsSaved
  <2>4. CASE e = d /\ Restart(d)
    <3>1. dev'[e] = Off(dev[e]) /\ applying' = applying /\ promise' = promise
      BY <1>1, <2>4 DEF Restart
    <3>. QED BY <1>5, <2>1, <2>4, <3>1, OffIs
  <2>5. CASE e = d /\ (Provision(d) \/ ClearProvisioning(d))
    <3>1. \E c \in Setting \cup {Blank} : dev' = [dev EXCEPT ![d] = [@ EXCEPT !.saved = c, !.due = TRUE]]
      <4>1. CASE Provision(d)
        <5>1. PICK h \in Host :
                dev' = [dev EXCEPT ![d].saved = [host |-> h, tuned |-> FALSE], ![d].due = TRUE]
          BY <4>1 DEF Provision
        <5>. DEFINE c == [host |-> h, tuned |-> FALSE]
        <5>2. c \in Setting
          BY DEF Setting
        <5>3. dev' = [dev EXCEPT ![d] = [@ EXCEPT !.saved = c, !.due = TRUE]]
          BY <5>1
        <5>. QED BY <5>2, <5>3
      <4>2. CASE ClearProvisioning(d)
        BY <4>2 DEF ClearProvisioning
      <4>. QED BY <2>5, <4>1, <4>2
    <3>2. dev'[e].app = dev[e].app /\ (dev'[e].up <=> dev[e].up) /\ dev'[e].due
      BY <1>1, <2>1, <2>5, <3>1 DEF Receiver
    <3>3. promise'[e] = NoHost
      BY <1>1, <2>5 DEF Provision, ClearProvisioning
    <3>4. RunsSaved(e)
      BY <1>3
    <3>. QED BY <3>2, <3>3, <3>4 DEF RunsSaved, PromiseIsSaved
  <2>. QED BY <1>7, <2>2, <2>3, <2>4, <2>5
<1>8. ASSUME NEW t \in Tool, StartTool(t)
      PROVE  RunsSaved(e)' /\ PromiseIsSaved(e)'
  BY <1>3, <1>8, ReceiverLeft DEF StartTool
<1>9. ASSUME NEW t \in Tool, Abandon(t)
      PROVE  RunsSaved(e)' /\ PromiseIsSaved(e)'
  <2>1. applying'[e] = IF t \in applying[e] THEN (applying[e] \ {t}) \cup {Gone} ELSE applying[e]
    BY <1>1, <1>9 DEF Abandon
  <2>2. applying'[e] = {} <=> applying[e] = {}
    BY <2>1
  <2>3. dev' = dev /\ promise' = promise
    BY <1>9 DEF Abandon
  <2>. QED BY <1>3, <2>2, <2>3, ReceiverLeft
<1>10. ASSUME NEW t \in Tool, Report(t)
       PROVE  RunsSaved(e)' /\ PromiseIsSaved(e)'
  <2>1. tool[t].at = "report" /\ Succeed(t) /\ dev' = dev /\ applying' = applying
    BY <1>10 DEF Report
  <2>2. \A d \in tool[t].all \ tool[t].spoiled : Made(t, d)
    BY <1>2, <2>1 DEF InTheKnow, Knows
  <2>. QED BY <1>6, <2>1, <2>2
\* Every command of the flasher leaves the receiver off.
<1>11. ASSUME NEW t \in Tool, NEW d \in Board,
              FlashErase(t, d) \/ FlashImage(t, d) \/ FlashConfig(t, d)
       PROVE  RunsSaved(e)' /\ PromiseIsSaved(e)'
  <2>1. dev[d] \in Receiver /\ Off(dev[d]) \in Receiver /\ ~Off(dev[d]).up
        /\ Off(dev[d]).app = dev[d].app /\ Off(dev[d]).saved = dev[d].saved
    BY <1>1, OffIs
  <2>2. CASE e # d
    <3>1. dev'[e] = dev[e] /\ promise'[e] = promise[e] /\ applying'[e] = applying[e]
      BY <1>1, <1>11, <2>2 DEF FlashErase, FlashImage, FlashConfig
    <3>. QED BY <1>4, <2>2, <3>1
  <2>3. CASE e = d /\ dev' = [dev EXCEPT ![d] = Off(@)] /\ UNCHANGED <<promise, applying>>
    <3>1. dev'[e] = Off(dev[d])
      BY <1>1, <2>3
    <3>. QED BY <1>5, <2>1, <2>3, <3>1
  <2>4. CASE e = d /\ ~dev'[e].up /\ promise' = [promise EXCEPT ![d] = NoHost]
    BY <1>1, <2>4 DEF RunsSaved, PromiseIsSaved
  <2>5. \/ /\ dev' = [dev EXCEPT ![d] = Off(@)] /\ UNCHANGED <<promise, applying>>
        \/ /\ ~dev'[d].up /\ promise' = [promise EXCEPT ![d] = NoHost]
    <3>1. ASSUME NEW a \in {"none", "whole", "part"}
          PROVE  ~[Off(dev[d]) EXCEPT !.app = a, !.saved = Blank].up
      BY <2>1 DEF Receiver
    <3>2. CASE FlashErase(t, d)
      BY <1>1, <3>1, <3>2 DEF FlashErase
    <3>3. CASE FlashImage(t, d)
      BY <1>1, <3>1, <3>3 DEF FlashImage
    <3>4. CASE FlashConfig(t, d)
      <4>. DEFINE c == [host |-> tool[t].host, tuned |-> TRUE]
      <4>1. dev' = [dev EXCEPT ![d] = [Off(@) EXCEPT !.saved = c]]
            /\ promise' = [promise EXCEPT ![d] = NoHost]
        BY <3>4 DEF FlashConfig
      <4>. HIDE DEF c
      <4>2. ~[Off(dev[d]) EXCEPT !.saved = c].up
        BY <2>1 DEF Receiver
      <4>. QED BY <1>1, <4>1, <4>2
    <3>. QED BY <1>11, <3>2, <3>3, <3>4
  <2>. QED BY <2>2, <2>3, <2>4, <2>5
<1>12. ASSUME NEW t \in Tool, NEW d \in Board, FlashDone(t, d)
       PROVE  RunsSaved(e)' /\ PromiseIsSaved(e)'
  <2>1. /\ tool[t].at = "check" /\ dev' = [dev EXCEPT ![d] = Off(@)]
        /\ Succeed(t) /\ applying' = applying
    BY <1>12 DEF FlashDone, At
  <2>2. \A b \in Board : dev'[b] = IF b = d THEN Off(dev[d]) ELSE dev[b]
    BY <1>1, <2>1
  <2>3. Off(dev[d]).app = dev[d].app /\ Off(dev[d]).saved = dev[d].saved /\ ~Off(dev[d]).up
    BY <1>1, OffIs
  <2>4. \A b \in Board : dev'[b].app = dev[b].app /\ dev'[b].saved = dev[b].saved
    BY <2>2, <2>3
  <2>5. \A b \in tool[t].all \ tool[t].spoiled : Made(t, b)
    BY <1>2, <2>1 DEF InTheKnow, Knows
  <2>. QED BY <1>6, <2>1, <2>2, <2>3, <2>4, <2>5
<1>13. ASSUME NEW t \in Tool, NEW d \in Board, Inventory(t, d)
       PROVE  RunsSaved(e)' /\ PromiseIsSaved(e)'
  <2>1. /\ tool[t].at = "inventory" /\ d \in tool[t].todo /\ dev' = dev /\ applying' = applying
        /\ dev[d].up
    BY <1>13 DEF Inventory, At, Answers
  <2>2. CASE promise' = promise
    BY <1>3, <2>1, <2>2, ReceiverLeft
  <2>3. CASE tool[t].job = "rf" /\ dev[d].saved.host = tool[t].host /\ Succeed(t)
    <3>1. tool[t].all = {d}
      BY <1>2, <2>1, <2>3 DEF InTheKnow, OnCourse
    <3>2. Made(t, d)
      BY <1>3, <2>1, <2>3 DEF RunsSaved, Made
    <3>. QED BY <1>6, <2>1, <2>3, <3>1, <3>2
  <2>. QED BY <1>13, <2>2, <2>3 DEF Inventory
<1>14. ASSUME NEW t \in Tool, NEW d \in Board, Save(t, d)
       PROVE  RunsSaved(e)' /\ PromiseIsSaved(e)'
  <2>1. CASE UNCHANGED <<dev, applying, promise>>
    BY <1>3, <2>1, ReceiverLeft
  <2>2. CASE dev' = [dev EXCEPT ![d].saved = Wanted(t, d)] /\ Rewrites(d, t)
    <3>1. CASE e # d
      <4>1. dev'[e] = dev[e] /\ promise'[e] = promise[e] /\ applying'[e] = applying[e]
        BY <1>1, <2>2, <3>1 DEF Rewrites
      <4>. QED BY <1>4, <3>1, <4>1
    <3>2. CASE e = d
      <4>. DEFINE c == Wanted(t, d)
      <4>. HIDE DEF c
      <4>1. dev' = [dev EXCEPT ![d] = [@ EXCEPT !.saved = c]]
        BY <2>2 DEF c
      <4>2. dev[d] \in Receiver
        BY <1>1
      <4>3. dev'[d].app = dev[d].app /\ (dev'[d].up <=> dev[d].up)
        BY <1>1, <4>1, <4>2 DEF Receiver
      <4>4. promise'[d] = NoHost /\ applying'[d] # {}
        BY <1>1, <2>2 DEF Rewrites
      <4>5. RunsSaved(d)
        BY <1>3
      <4>. QED BY <3>2, <4>3, <4>4, <4>5 DEF RunsSaved, PromiseIsSaved
    <3>. QED BY <3>1, <3>2
  <2>. QED BY <1>14, <2>1, <2>2 DEF Save
<1>15. ASSUME NEW t \in Tool, NEW d \in Board, Verify(t, d)
       PROVE  RunsSaved(e)' /\ PromiseIsSaved(e)'
  BY <1>3, <1>15, ReceiverLeft DEF Verify
<1>16. ASSUME NEW t \in Tool, NEW d \in Board, RequestReboot(t, d)
       PROVE  RunsSaved(e)' /\ PromiseIsSaved(e)'
  <2>1. CASE e # d
    <3>1. dev'[e] = dev[e] /\ promise'[e] = promise[e] /\ applying'[e] = applying[e]
      BY <1>1, <1>16, <2>1 DEF RequestReboot
    <3>. QED BY <1>4, <2>1, <3>1
  <2>2. CASE e = d
    <3>1. /\ dev' = [dev EXCEPT ![d] = [@ EXCEPT !.due = TRUE]]
          /\ applying'[d] = applying[d] \ {t} /\ promise' = promise /\ dev[d] \in Receiver
      BY <1>1, <1>16 DEF RequestReboot
    <3>2. /\ dev'[d].app = dev[d].app /\ (dev'[d].up <=> dev[d].up) /\ dev'[d].due
          /\ dev'[d].saved = dev[d].saved
      BY <1>1, <3>1 DEF Receiver
    <3>3. RunsSaved(d) /\ PromiseIsSaved(d)
      BY <1>3
    <3>. QED BY <2>2, <3>1, <3>2, <3>3 DEF RunsSaved, PromiseIsSaved
  <2>. QED BY <2>1, <2>2
<1>. QED BY <1>7, <1>8, <1>9, <1>10, <1>11, <1>12, <1>13, <1>14, <1>15, <1>16 DEF SetupNext

LEMMA SetupStep == SetupIInv /\ [SetupNext]_setupVars => SetupIInv'
<1>. SUFFICES ASSUME SetupIInv, [SetupNext]_setupVars PROVE SetupIInv'
  OBVIOUS
<1>1. CASE SetupNext
  <2>1. SetupTypeOK /\ \A t \in Tool : OnCourse(t)
    BY DEF SetupIInv
  <2>2. SetupTypeOK'
    BY <1>1, <2>1, ReceiverTypes, ToolTypes, LedgerTypes DEF SetupTypeOK
  <2>3. \A t \in Tool : InTheKnow(t)'
    BY <1>1, KnowledgeKept
  <2>4. \A d \in Board : RunsSaved(d)' /\ PromiseIsSaved(d)'
    BY <1>1, ReceiversKept
  <2>. QED BY <2>2, <2>3, <2>4 DEF SetupIInv, InTheKnow
<1>2. CASE UNCHANGED setupVars
  BY <1>2 DEF setupVars, SetupIInv, SetupTypeOK, OnCourse, Knows, Made, RunsSaved, PromiseIsSaved
<1>. QED BY <1>1, <1>2

\* The inductive invariant of setting receivers up: what each tool has found out
\* of its receiver, and what the receiver runs (rf.mjs, the flasher, the CLI).
THEOREM SetupInductive == SetupSpec => []SetupIInv
BY SetupStarts, SetupStep, PTL DEF SetupSpec

\* A receiver a tool was done with streams to that tool's collector, or is about
\* to restart so that it will: for any receivers, collectors and tools side by
\* side, any number of runs, abandoned anywhere, and any power cuts.
THEOREM DoneIsConfigured == SetupSpec => []ConfiguredTakesEffect
<1>1. SetupIInv => ConfiguredTakesEffect
  BY DEF SetupIInv, RunsSaved, PromiseIsSaved, ConfiguredTakesEffect
<1>. QED BY <1>1, SetupInductive, PTL

-----------------------------------------------------------------------------
(* The console.                                                            *)

LEMMA ConsoleNumbers == MaxBytes \in Nat /\ MaxBytes > 0 /\ Free \notin SerialPath
BY ConsoleAssumption DEF ConsoleAssumption, Free

\* What an answer's text is made of: each byte, or the mark in its place.
LEMMA DecodeIs ==
  ASSUME NEW bytes, Len(bytes) \in Nat
  PROVE  /\ Len(Decode(bytes)) = Len(bytes)
         /\ \A k \in 1..Len(bytes) :
              Decode(bytes)[k] = IF Legible(bytes, k) THEN bytes[k] ELSE Mark
BY DEF Decode

\* Of consecutive bytes a mark stands only for one that is no UTF-8, or for half
\* of a character cut by an end.
LEMMA RowIsLegible ==
  ASSUME NEW bytes, NEW n \in Nat, Len(bytes) \in Nat,
         \A k \in 1..Len(bytes) : bytes[k] = n + k
  PROVE  \A k \in 1..Len(bytes) : InPlace(Decode(bytes), k, n + k)
<1>. SUFFICES ASSUME NEW k \in 1..Len(bytes) PROVE InPlace(Decode(bytes), k, n + k)
  OBVIOUS
<1>1. /\ Len(Decode(bytes)) = Len(bytes)
      /\ Decode(bytes)[k] = IF Legible(bytes, k) THEN bytes[k] ELSE Mark
  BY DecodeIs
<1>2. bytes[k] = n + k
  OBVIOUS
<1>3. CASE Legible(bytes, k)
  BY <1>1, <1>2, <1>3 DEF InPlace
<1>4. CASE n + k \in Noise
  BY <1>1, <1>2, <1>4 DEF InPlace, Legible
<1>5. CASE /\ n + k \in Lead
           /\ ~(k < Len(bytes) /\ bytes[k + 1] = n + k + 1)
  <2>1. k = Len(bytes)
    BY <1>5
  <2>. QED BY <1>1, <1>2, <1>3, <1>5, <2>1 DEF InPlace
<1>6. CASE /\ n + k - 1 \in Lead
           /\ ~(k > 1 /\ bytes[k - 1] = n + k - 1)
  <2>1. k = 1 /\ (n + k) - 1 \in Lead
    BY <1>6
  <2>2. CASE ~Legible(bytes, k)
    <3>1. Decode(bytes)[k] = Mark
      BY <1>1, <2>2
    <3>. QED BY <2>1, <3>1, Zenon DEF InPlace
  <2>. QED BY <1>3, <2>2
<1>. QED BY <1>2, <1>3, <1>4, <1>5, <1>6 DEF Legible

LEMMA BufferIs ==
  ASSUME NEW b \in Buffer
  PROVE  /\ b.path \in SerialPath /\ b.base \in Nat /\ b.bytes \in Seq(Nat) /\ b.closed \in BOOLEAN
         /\ Len(b.bytes) \in Nat /\ EndOffset(b) = b.base + Len(b.bytes)
         /\ \A k \in 1..Len(b.bytes) : b.bytes[k] \in Nat
<1>1. b.path \in SerialPath /\ b.base \in Nat /\ b.bytes \in Seq(Nat) /\ b.closed \in BOOLEAN
  BY DEF Buffer
<1>2. Len(b.bytes) \in Nat /\ \A k \in 1..Len(b.bytes) : b.bytes[k] \in Nat
  BY <1>1, LenProperties, ElementOfSeq, Zenon
<1>. QED BY <1>1, <1>2 DEF EndOffset

LEMMA NewBufferIs == \A p \in SerialPath : NewBuffer(p) \in Buffer
BY DEF NewBuffer, Buffer

LEMMA SumsAgree == \A x, y, z \in Nat : x + (y + z) = x + y + z
OBVIOUS

\* The bytes an answer holds, and the cursor that follows them.
LEMMA TailIs ==
  ASSUME NEW s \in Seq(Nat), NEW m \in Nat, m >= 1
  PROVE  /\ SubSeq(s, m, Len(s)) \in Seq(Nat)
         /\ Len(SubSeq(s, m, Len(s))) = (IF m <= Len(s) THEN Len(s) - m + 1 ELSE 0)
         /\ \A i \in 1..(Len(s) - m + 1) : SubSeq(s, m, Len(s))[i] = s[m + i - 1]
<1>1. Len(s) \in Nat /\ \A i \in 1..Len(s) : s[i] \in Nat
  BY LenProperties, ElementOfSeq, Zenon
<1>2. m \in Int /\ Len(s) \in Int /\ \A i \in m..Len(s) : s[i] \in Nat
  BY <1>1
<1>. QED BY <1>2, SubSeqProperties

LEMMA HeadIs ==
  ASSUME NEW s \in Seq(Nat), NEW n \in Nat, n <= Len(s)
  PROVE  /\ SubSeq(s, 1, n) \in Seq(Nat) /\ Len(SubSeq(s, 1, n)) = n
         /\ \A i \in 1..n : SubSeq(s, 1, n)[i] = s[i]
<1>1. Len(s) \in Nat /\ \A i \in 1..Len(s) : s[i] \in Nat
  BY LenProperties, ElementOfSeq, Zenon
<1>2. \A i \in 1..n : s[i] \in Nat
  BY <1>1
<1>3. /\ SubSeq(s, 1, n) \in Seq(Nat)
      /\ Len(SubSeq(s, 1, n)) = (IF 1 <= n THEN n - 1 + 1 ELSE 0)
      /\ \A i \in 1..(n - 1 + 1) : SubSeq(s, 1, n)[i] = s[1 + i - 1]
  BY <1>2, SubSeqProperties
<1>. QED BY <1>3

LEMMA ReadIs ==
  ASSUME NEW b \in Buffer, NEW cursor \in Nat, NEW most \in 1..2, NEW start,
         start = IF cursor < b.base THEN b.base ELSE cursor,
         b.base > 0 => Len(b.bytes) > 0, NEW a, a = Read(b, cursor, most)
  PROVE  /\ a.got \in Seq(Nat) /\ Len(a.got) \in Nat /\ a.data = Decode(a.got)
         /\ a.next = start + Len(a.got) /\ a.truncated = (cursor < b.base)
         /\ \A k \in 1..Len(a.got) : a.got[k] = b.bytes[start - b.base + k]
         /\ start < EndOffset(b) => Len(a.got) > 0 /\ a.next <= EndOffset(b)
         /\ start >= EndOffset(b) => Len(a.got) = 0
         /\ cursor < b.base => start < EndOffset(b)
<1>. DEFINE bytes == b.bytes
            size == Len(bytes)
            base == b.base
            end == EndOffset(b)
            from == start - base + 1
            rest == SubSeq(bytes, from, Len(bytes))
            left == Len(rest)
            upto == IF left < most THEN left ELSE most
            got == SubSeq(rest, 1, upto)
<1>1. /\ base \in Nat /\ bytes \in Seq(Nat) /\ size \in Nat /\ end = base + size
      /\ base > 0 => size > 0
  BY BufferIs
<1>2. /\ a.got = got /\ a.next = start + Len(got) /\ a.truncated = (cursor < base)
      /\ a.data = Decode(a.got)
  BY DEF Read
<1>3. start = IF cursor < base THEN base ELSE cursor
  OBVIOUS
<1>. HIDE DEF base, end, bytes
<1>4. start \in Nat /\ start >= base /\ from \in Nat /\ from >= 1 /\ from = start - base + 1
      /\ (cursor < base => start = base)
  BY <1>1, <1>3
<1>. HIDE DEF from
<1>5. /\ rest \in Seq(Nat) /\ left = (IF from <= size THEN size - from + 1 ELSE 0)
      /\ \A k \in 1..(size - from + 1) : rest[k] = bytes[from + k - 1]
  BY <1>1, <1>4, TailIs
<1>. HIDE DEF rest, size
<1>6. left = IF from <= size THEN size - from + 1 ELSE 0
  BY <1>5
<1>. HIDE DEF left
<1>61. /\ size \in Nat /\ from \in Nat /\ most \in 1..2
       /\ from <= size => left = size - from + 1
       /\ ~(from <= size) => left = 0
  BY <1>1, <1>4, <1>6
<1>7. left \in Nat /\ upto \in Nat /\ upto <= left /\ (left > 0 => upto > 0)
  <2>1. left \in Nat
    BY <1>61
  <2>2. upto = left \/ (upto = most /\ ~(left < most))
    BY DEF upto
  <2>. HIDE DEF upto
  <2>3. upto \in Nat
    BY <1>61, <2>1, <2>2
  <2>. QED BY <1>61, <2>1, <2>2, <2>3
<1>. HIDE DEF upto
<1>8. upto <= Len(rest)
  BY <1>7 DEF left
<1>9. got \in Seq(Nat) /\ Len(got) = upto /\ \A k \in 1..upto : got[k] = rest[k]
  BY <1>5, <1>7, <1>8, HeadIs
<1>. HIDE DEF got
<1>10. ASSUME NEW k \in 1..upto
       PROVE  got[k] = bytes[start - base + k]
  <2>1. k \in 1..(size - from + 1) /\ from + k - 1 = start - base + k
    <3>1. CASE from <= size
      <4>1. base \in Nat /\ start \in Nat /\ from = start - base + 1 /\ left = size - from + 1
        BY <1>1, <1>4, <1>61, <3>1, Zenon
      <4>2. left \in Nat /\ upto \in Nat /\ upto <= left /\ k \in 1..upto
        BY <1>7
      <4>3. k \in Int /\ 1 <= k /\ k <= left
        BY <4>2
      <4>4. from \in Int /\ size \in Int
        BY <1>61
      <4>5. k \in 1..(size - from + 1)
        BY <4>1, <4>3, <4>4
      <4>6. from + k - 1 = start - base + k
        BY <4>1, <4>3
      <4>. QED BY <4>5, <4>6
    <3>2. CASE ~(from <= size)
      BY <1>61, <1>7, <3>2
    <3>. QED BY <3>1, <3>2
  <2>2. got[k] = rest[k] /\ rest[k] = bytes[from + k - 1]
    BY <1>5, <1>9, <2>1
  <2>. QED BY <2>1, <2>2
<1>11. /\ start < end => upto > 0 /\ start + upto <= end
       /\ start >= end => upto = 0
       /\ cursor < base => start < end
  <2>1. end = base + size /\ (base > 0 => size > 0) /\ base \in Nat /\ from = start - base + 1
        /\ start \in Nat /\ start >= base /\ (cursor < base => start = base)
    BY <1>1, <1>4
  <2>2. CASE from <= size
    <3>1. left = size - from + 1
      BY <1>61, <2>2, Zenon
    <3>2. left = end - start
      BY <1>61, <2>1, <3>1
    <3>3. start <= end
      BY <1>61, <2>1, <2>2
    <3>4. start < end => upto > 0
      BY <1>7, <2>1, <3>2, <3>3
    <3>5. start + upto <= end
      BY <1>7, <2>1, <3>2, <3>3
    <3>6. start >= end => upto = 0
      BY <1>7, <2>1, <3>2, <3>3
    <3>7. cursor < base => start < end
      BY <1>61, <2>1
    <3>. QED BY <3>4, <3>5, <3>6, <3>7
  <2>3. CASE ~(from <= size)
    BY <1>61, <1>7, <2>1, <2>3
  <2>. QED BY <2>2, <2>3
<1>12. \A k \in 1..upto : got[k] = bytes[start - base + k]
  BY <1>10
<1>. QED BY <1>2, <1>7, <1>9, <1>11, <1>12 DEF base, bytes, end

LEMMA ConsoleStarts == ConsoleInit => ConsoleIInv
<1>. SUFFICES ASSUME ConsoleInit PROVE ConsoleIInv
  OBVIOUS
<1>1. buffers = <<>> /\ devices = <<>> /\ buffers \in Seq(Buffer)
      /\ DOMAIN buffers = {} /\ DOMAIN devices = {}
  BY DEF ConsoleInit
<1>2. ConsoleTypeOK
  BY <1>1 DEF ConsoleInit, ConsoleTypeOK, Reader
<1>3. OwnBuffers /\ FullOnceTrimmed /\ BytesInOrder /\ NoLostWakeup
  BY <1>1 DEF ConsoleInit, OwnBuffers, FullOnceTrimmed, BytesInOrder, NoLostWakeup
<1>. QED BY <1>2, <1>3 DEF ConsoleIInv

LEMMA ConsoleTyped ==
  ASSUME ConsoleTypeOK
  PROVE  /\ Len(buffers) \in Nat /\ DOMAIN buffers = 1..Len(buffers)
         /\ \A i \in DOMAIN buffers : buffers[i] \in Buffer
         /\ \A p \in SerialPath : written[p] \in Nat
         /\ reader.cursor \in Nat /\ reader.on \in Nat /\ reader.last \in Nat
         /\ reader.path \in SerialPath \cup {Free} /\ reader.gap \in BOOLEAN
<1>1. buffers \in Seq(Buffer)
  BY DEF ConsoleTypeOK
<1>2. Len(buffers) \in Nat /\ DOMAIN buffers = 1..Len(buffers)
      /\ \A i \in DOMAIN buffers : buffers[i] \in Buffer
  BY <1>1, LenProperties, ElementOfSeq, Zenon
<1>. QED BY <1>2 DEF ConsoleTypeOK, Reader

\* A port's buffer is opened: the first of its port starts with what is next.
LEMMA OpenedKeeps ==
  ASSUME ConsoleIInv, NEW c \in Opener, Opened(c)
  PROVE  ConsoleIInv'
<1>1. ConsoleTypeOK /\ OwnBuffers /\ FullOnceTrimmed /\ BytesInOrder /\ NoLostWakeup
  BY DEF ConsoleIInv
<1>2. /\ Len(buffers) \in Nat /\ DOMAIN buffers = 1..Len(buffers)
      /\ \A i \in DOMAIN buffers : buffers[i] \in Buffer
      /\ \A q \in SerialPath : written[q] \in Nat
      /\ reader.path \in SerialPath \cup {Free}
  BY <1>1, ConsoleTyped
<1>. DEFINE p == opening[c]
            n == Len(buffers) + 1
            new == NewBuffer(p)
<1>3. /\ p \in SerialPath /\ opening' = [opening EXCEPT ![c] = Free]
      /\ buffers' = Append(buffers, new)
      /\ devices' = [q \in DOMAIN devices \cup {p} |-> IF q = p THEN n ELSE devices[q]]
      /\ written' = written /\ reader' = reader /\ unplugs' = unplugs
  BY <1>1 DEF Opened, ConsoleTypeOK
<1>4. new \in Buffer /\ new.path = p /\ new.base = 0 /\ new.bytes = <<>>
      /\ Len(new.bytes) = 0
  BY <1>3, NewBufferIs DEF NewBuffer
<1>. HIDE DEF new
<1>5. buffers \in Seq(Buffer)
  BY <1>1 DEF ConsoleTypeOK
<1>6. /\ buffers' \in Seq(Buffer) /\ Len(buffers') = n
      /\ \A i \in 1..Len(buffers) : buffers'[i] = buffers[i]
      /\ buffers'[n] = new
  BY <1>4, <1>5, AppendProperties, <1>3
<1>. HIDE DEF p
<1>7. DOMAIN buffers' = 1..n
  BY <1>6, LenProperties, Zenon
<1>8. \A i \in 1..n : i = n \/ (i \in DOMAIN buffers /\ buffers'[i] = buffers[i])
  BY <1>2, <1>6
<1>9. n \in 1..n /\ n \notin DOMAIN buffers /\ \A i \in DOMAIN buffers : i \in 1..n
  BY <1>2
<1>. HIDE DEF n
<1>10. ConsoleTypeOK'
  BY <1>1, <1>3, <1>6 DEF ConsoleTypeOK
<1>11. OwnBuffers'
  BY <1>1, <1>3, <1>4, <1>6, <1>7, <1>8, <1>9 DEF OwnBuffers
<1>12. FullOnceTrimmed'
  BY <1>1, <1>4, <1>6, <1>7, <1>8 DEF FullOnceTrimmed
<1>13. NoLostWakeup'
  BY <1>1, <1>3, <1>8, <1>9 DEF NoLostWakeup, OwnBuffers
<1>14. ASSUME NEW i \in 1..n, OpenedOnce(buffers[i].path)'
       PROVE  \E before \in 0..written[buffers'[i].path] : InOrder(i, before)'
  <2>1. CASE i # n
    <3>1. i \in DOMAIN buffers /\ buffers'[i] = buffers[i]
      BY <1>8, <2>1
    <3>2. OpenedOnce(buffers[i].path)
      BY <1>7, <1>8, <1>9, <1>14, <3>1 DEF OpenedOnce
    <3>3. PICK before \in 0..written[buffers[i].path] : InOrder(i, before)
      BY <1>1, <3>1, <3>2 DEF BytesInOrder
    <3>4. InOrder(i, before)'
      BY <1>3, <3>1, <3>3 DEF InOrder
    <3>. QED BY <3>1, <3>3, <3>4
  <2>2. CASE i = n
    <3>1. \A j \in DOMAIN buffers : buffers[j].path # p
      BY <1>4, <1>6, <1>7, <1>8, <1>9, <1>14, <2>2 DEF OpenedOnce
    <3>2. reader.path # p
      BY <1>1, <1>3, <3>1, ConsoleNumbers DEF OwnBuffers
    <3>3. PICK before \in 0..written[p] : before = written[p] /\ before = before + (0 + 0)
      BY <1>2, <1>3
    <3>4. EndOffset(new) = 0 + 0
      BY <1>4 DEF EndOffset
    <3>5. InOrder(i, before)'
      BY <1>3, <1>4, <1>6, <2>2, <3>2, <3>3, <3>4 DEF InOrder
    <3>. QED BY <1>4, <1>6, <2>2, <3>3, <3>5
  <2>. QED BY <2>1, <2>2
<1>15. BytesInOrder'
  BY <1>3, <1>7, <1>14 DEF BytesInOrder
<1>. QED BY <1>10, <1>11, <1>12, <1>13, <1>15 DEF ConsoleIInv

\* The bytes after the "a"-th, in order.
Row(s, a) == \A k \in 1..Len(s) : s[k] = a + k

\* What Arrive makes of a buffer: the n bytes after the w-th, and a trim.
Chunk(w, n) == [k \in 1..n |-> w + k]
Longer(b, w, n) == [b EXCEPT !.bytes = @ \o Chunk(w, n)]
Kept(b) == IF Len(b.bytes) > MaxBytes THEN Trim(b) ELSE b

\* The bytes a port writes next go on where its buffer ends.
LEMMA RowGrows ==
  ASSUME NEW s \in Seq(Nat), NEW w \in Nat, NEW n \in 1..2, NEW all, all = s \o Chunk(w, n)
  PROVE  /\ all \in Seq(Nat) /\ Len(all) = Len(s) + n
         /\ \A a \in Nat : Row(s, a) /\ w = a + Len(s) => Row(all, a)
<1>. DEFINE chunk == Chunk(w, n)
            size == Len(s)
<1>1. n \in Nat /\ n > 0 /\ size \in Nat
  BY LenProperties
<1>2. chunk \in [1..n -> Nat] /\ DOMAIN chunk = 1..n /\ \A k \in 1..n : chunk[k] = w + k
  BY <1>1 DEF Chunk
<1>3. all = s \o chunk
  OBVIOUS
<1>4. chunk \in Seq(Nat)
  BY <1>1, <1>2, SeqDef
<1>. HIDE DEF chunk
<1>5. Len(chunk) = n
  <2>1. Len(chunk) \in Nat /\ 1..Len(chunk) = 1..n
    BY <1>2, <1>4, LenProperties, Zenon
  <2>. QED BY <1>1, <2>1
<1>6. /\ all \in Seq(Nat) /\ Len(all) = size + n
      /\ \A k \in 1..(size + n) : all[k] = IF k <= size THEN s[k] ELSE chunk[k - size]
  <2>1. /\ s \o chunk \in Seq(Nat) /\ Len(s \o chunk) = Len(s) + Len(chunk)
        /\ \A k \in 1..(Len(s) + Len(chunk)) :
             (s \o chunk)[k] = IF k <= Len(s) THEN s[k] ELSE chunk[k - Len(s)]
    BY <1>4, ConcatProperties
  <2>. QED BY <1>3, <1>5, <2>1, Zenon
<1>7. ASSUME NEW a \in Nat, Row(s, a), w = a + size, NEW k \in 1..Len(all)
      PROVE  all[k] = a + k
  <2>. HIDE DEF size
  <2>1. k \in 1..(size + n)
    BY <1>6
  <2>2. CASE k <= size
    <3>1. k \in 1..size
      BY <1>1, <2>1, <2>2
    <3>. QED BY <1>6, <1>7, <2>1, <2>2, <3>1 DEF Row, size
  <2>3. CASE ~(k <= size)
    <3>1. k - size \in 1..n /\ w + (k - size) = a + k
      BY <1>1, <1>7, <2>1, <2>3
    <3>2. all[k] = chunk[k - size]
      BY <1>6, <2>1, <2>3, Zenon
    <3>. QED BY <1>2, <3>1, <3>2
  <2>. QED BY <2>2, <2>3
<1>. QED BY <1>6, <1>7 DEF Row, size

\* What is left of it once the oldest are cut off.
LEMMA RowIsCut ==
  ASSUME NEW s \in Seq(Nat), NEW m \in Nat, m > 0, Len(s) > m, NEW cut,
         cut = SubSeq(s, Len(s) - m + 1, Len(s))
  PROVE  /\ cut \in Seq(Nat) /\ Len(cut) = m
         /\ \A a \in Nat : Row(s, a) => Row(cut, a + (Len(s) - m))
<1>. DEFINE from == Len(s) - m + 1
            size == Len(s)
<1>1. size \in Nat /\ size > m
  BY LenProperties
<1>2. from \in Nat /\ from >= 1 /\ from <= size /\ size - from + 1 = m /\ from = size - m + 1
  BY <1>1
<1>3. cut = SubSeq(s, from, Len(s))
  OBVIOUS
<1>. HIDE DEF from
<1>4. /\ cut \in Seq(Nat) /\ Len(cut) = (IF from <= Len(s) THEN Len(s) - from + 1 ELSE 0)
      /\ \A k \in 1..(Len(s) - from + 1) : cut[k] = s[from + k - 1]
  BY <1>2, <1>3, TailIs
<1>5. Len(cut) = m /\ \A k \in 1..m : cut[k] = s[from + k - 1]
  BY <1>2, <1>4
<1>6. ASSUME NEW a \in Nat, Row(s, a), NEW k \in 1..m
      PROVE  cut[k] = a + (size - m) + k
  <2>. HIDE DEF size
  <2>1. from + k - 1 \in 1..size /\ a + (from + k - 1) = a + (size - m) + k
    BY <1>1, <1>2
  <2>2. s[from + k - 1] = a + (from + k - 1)
    BY <1>6, <2>1 DEF Row, size
  <2>. QED BY <1>5, <2>1, <2>2
<1>. QED BY <1>4, <1>5, <1>6 DEF Row

\* A chunk reaches a buffer, with or without a trim.
LEMMA ChunkIs ==
  ASSUME NEW b \in Buffer, NEW w \in Nat, NEW n \in 1..2, NEW b2, b2 = Kept(Longer(b, w, n))
  PROVE  /\ b2 \in Buffer /\ b2.path = b.path /\ (b2.closed <=> b.closed)
         /\ EndOffset(b2) = EndOffset(b) + n /\ Len(b2.bytes) > 0
         /\ \A before \in Nat :
              Row(b.bytes, before + b.base) /\ w = before + EndOffset(b)
                => Row(b2.bytes, before + b2.base)
<1>. DEFINE bytes == b.bytes
            size == Len(bytes)
            all == bytes \o Chunk(w, n)
            long == Longer(b, w, n)
            over == Len(all) - MaxBytes
            cut == SubSeq(all, over + 1, Len(all))
<1>1. bytes \in Seq(Nat) /\ size \in Nat /\ b.base \in Nat /\ EndOffset(b) = b.base + size
  BY BufferIs
<1>2. n \in Nat /\ n > 0 /\ MaxBytes \in Nat /\ MaxBytes > 0
  BY ConsoleNumbers
<1>3. long = [b EXCEPT !.bytes = all] /\ b2 = IF Len(long.bytes) > MaxBytes THEN Trim(long) ELSE long
  BY DEF Longer, Kept
<1>. HIDE DEF bytes, long
<1>9. b.base \in Nat /\ size \in Nat /\ EndOffset(b) = b.base + size
  BY <1>1
<1>4. /\ all \in Seq(Nat) /\ Len(all) = size + n
      /\ \A a \in Nat : Row(bytes, a) /\ w = a + size => Row(all, a)
  <2>1. all = bytes \o Chunk(w, n)
    OBVIOUS
  <2>. HIDE DEF all
  <2>. QED BY <1>1, <2>1, RowGrows, Zenon
<1>. HIDE DEF all, size
<1>5. /\ long \in Buffer /\ long.path = b.path /\ (long.closed <=> b.closed)
      /\ long.base = b.base /\ long.bytes = all
  BY <1>3, <1>4 DEF Buffer
<1>6. ASSUME NEW before \in Nat, Row(b.bytes, before + b.base), w = before + EndOffset(b)
      PROVE  Row(all, before + b.base)
  <2>1. before + b.base \in Nat /\ w = (before + b.base) + size
    BY <1>1, <1>6
  <2>. QED BY <1>4, <1>6, <2>1 DEF bytes
<1>7. CASE Len(all) > MaxBytes
  <2>1. b2 = [long EXCEPT !.bytes = cut, !.base = @ + Len(all) - MaxBytes]
    BY <1>3, <1>5, <1>7 DEF Trim
  <2>2. /\ cut \in Seq(Nat) /\ Len(cut) = MaxBytes
        /\ \A a \in Nat : Row(all, a) => Row(cut, a + over)
    BY <1>2, <1>4, <1>7, RowIsCut
  <2>. HIDE DEF cut
  <2>3. over \in Nat /\ b.base + over \in Nat /\ b.base + Len(all) - MaxBytes = b.base + over
        /\ b.base + over + MaxBytes = b.base + size + n
    <3>1. Len(all) = size + n
      BY <1>4
    <3>. QED BY <1>2, <1>7, <1>9, <3>1
  <2>. HIDE DEF over
  <2>4. b2 = [long EXCEPT !.bytes = cut, !.base = b.base + over]
    BY <1>5, <2>1, <2>3
  <2>5. /\ b2 \in Buffer /\ b2.path = b.path /\ (b2.closed <=> b.closed)
        /\ b2.base = b.base + over /\ b2.bytes = cut
    BY <1>5, <2>2, <2>3, <2>4 DEF Buffer
  <2>6. EndOffset(b2) = EndOffset(b) + n /\ Len(b2.bytes) > 0
    <3>1. EndOffset(b2) = b.base + over + MaxBytes
      BY <2>2, <2>5 DEF EndOffset
    <3>. QED BY <1>1, <1>2, <2>2, <2>3, <2>5, <3>1
  <2>7. ASSUME NEW before \in Nat, Row(b.bytes, before + b.base), w = before + EndOffset(b)
        PROVE  Row(b2.bytes, before + b2.base)
    <3>1. Row(all, before + b.base)
      BY <1>6, <2>7
    <3>2. before + b.base \in Nat /\ (before + b.base) + over = before + (b.base + over)
      BY <1>9, <2>3
    <3>. QED BY <2>2, <2>5, <3>1, <3>2
  <2>. QED BY <2>5, <2>6, <2>7
<1>8. CASE ~(Len(all) > MaxBytes)
  <2>1. b2 = long
    BY <1>3, <1>5, <1>8
  <2>2. EndOffset(b2) = EndOffset(b) + n /\ Len(b2.bytes) > 0
    <3>1. EndOffset(b2) = b.base + Len(all) /\ Len(b2.bytes) = Len(all)
      BY <1>5, <2>1 DEF EndOffset
    <3>. QED BY <1>1, <1>2, <1>4, <3>1
  <2>. QED BY <1>5, <1>6, <2>1, <2>2
<1>. QED BY <1>7, <1>8

\* A chunk arrives: nobody listens, or one of the port's streams gets it.
LEMMA ArriveKeeps ==
  ASSUME ConsoleIInv, NEW p \in SerialPath, NEW n \in 1..2, Arrive(p, n)
  PROVE  ConsoleIInv'
<1>1. ConsoleTypeOK /\ OwnBuffers /\ FullOnceTrimmed /\ BytesInOrder /\ NoLostWakeup
  BY DEF ConsoleIInv
<1>2. /\ Len(buffers) \in Nat /\ DOMAIN buffers = 1..Len(buffers) /\ buffers \in Seq(Buffer)
      /\ \A i \in DOMAIN buffers : buffers[i] \in Buffer
      /\ written \in [SerialPath -> Nat] /\ \A q \in SerialPath : written[q] \in Nat
      /\ reader.cursor \in Nat /\ reader.on \in Nat /\ reader.last \in Nat
  BY <1>1, ConsoleTyped DEF ConsoleTypeOK
<1>3. /\ written' = [written EXCEPT ![p] = @ + n]
      /\ opening' = opening /\ devices' = devices /\ unplugs' = unplugs
  BY DEF Arrive
<1>4. /\ written' \in [SerialPath -> Nat]
      /\ \A q \in SerialPath : written'[q] = IF q = p THEN written[p] + n ELSE written[q]
  BY <1>2, <1>3
<1>. DEFINE streams == {i \in DOMAIN buffers : buffers[i].path = p /\ ~buffers[i].closed}
\* Nobody listens.
<1>5. CASE streams = {} /\ UNCHANGED <<buffers, reader>>
  <2>1. ConsoleTypeOK' /\ OwnBuffers' /\ FullOnceTrimmed' /\ NoLostWakeup'
    BY <1>1, <1>3, <1>4, <1>5
       DEF ConsoleTypeOK, OwnBuffers, FullOnceTrimmed, NoLostWakeup
  <2>2. ASSUME NEW i \in DOMAIN buffers, OpenedOnce(buffers[i].path)
        PROVE  \E before \in 0..written'[buffers[i].path] : InOrder(i, before)'
    <3>1. PICK before \in 0..written[buffers[i].path] : InOrder(i, before)
      BY <1>1, <2>2 DEF BytesInOrder
    <3>2. buffers[i].path \in SerialPath /\ (buffers[i].path = p => buffers[i].closed)
      BY <1>2, <1>5, BufferIs
    <3>3. before \in 0..written'[buffers[i].path]
      BY <1>2, <1>4, <3>2
    <3>4. InOrder(i, before)'
      BY <1>4, <1>5, <3>1, <3>2 DEF InOrder
    <3>. QED BY <3>3, <3>4
  <2>3. BytesInOrder'
    BY <1>5, <2>2 DEF BytesInOrder, OpenedOnce
  <2>. QED BY <2>1, <2>3 DEF ConsoleIInv
\* One stream gets the chunk.
<1>6. ASSUME NEW m \in streams,
             LET b == [buffers[m] EXCEPT !.bytes = @ \o [k \in 1..n |-> written[p] + k]]
             IN  /\ buffers' = [buffers EXCEPT ![m] = IF Len(b.bytes) > MaxBytes THEN Trim(b) ELSE b]
                 /\ reader' = [reader EXCEPT !.woken = @ \/ reader.on = m]
      PROVE  ConsoleIInv'
  <2>. DEFINE b2 == Kept(Longer(buffers[m], written[p], n))
  <2>1. m \in DOMAIN buffers /\ buffers[m].path = p /\ ~buffers[m].closed
    OBVIOUS
  <2>2. /\ b2 \in Buffer /\ b2.path = buffers[m].path /\ (b2.closed <=> buffers[m].closed)
        /\ EndOffset(b2) = EndOffset(buffers[m]) + n /\ Len(b2.bytes) > 0
        /\ \A before \in Nat :
             Row(buffers[m].bytes, before + buffers[m].base) /\ written[p] = before + EndOffset(buffers[m])
               => Row(b2.bytes, before + b2.base)
    <3>1. buffers[m] \in Buffer /\ written[p] \in Nat
      BY <1>2, <2>1
    <3>2. b2 = Kept(Longer(buffers[m], written[p], n))
      OBVIOUS
    <3>. HIDE DEF b2, streams
    <3>. QED BY <3>1, <3>2, ChunkIs, SMT
  <2>3. /\ buffers' = [buffers EXCEPT ![m] = b2]
        /\ reader' = [reader EXCEPT !.woken = @ \/ reader.on = m]
    BY <1>6 DEF Kept, Longer, Chunk
  <2>. HIDE DEF b2, streams
  <2>4. /\ buffers' \in Seq(Buffer) /\ DOMAIN buffers' = DOMAIN buffers
        /\ \A i \in DOMAIN buffers : buffers'[i] = IF i = m THEN b2 ELSE buffers[i]
    BY <1>2, <2>1, <2>2, <2>3, ExceptSeq
  <2>5. /\ reader'.path = reader.path /\ reader'.cursor = reader.cursor /\ reader'.on = reader.on
        /\ reader'.last = reader.last /\ (reader'.gap <=> reader.gap)
        /\ (reader'.woken <=> (reader.woken \/ reader.on = m))
        /\ reader' \in Reader
    BY <1>1, <2>3 DEF ConsoleTypeOK, Reader
  <2>6. \A i \in DOMAIN buffers : buffers'[i].path = buffers[i].path
    BY <2>2, <2>4
  <2>7. ConsoleTypeOK'
    BY <1>1, <1>3, <1>4, <2>4, <2>5 DEF ConsoleTypeOK
  <2>8. OwnBuffers'
    BY <1>1, <1>3, <2>4, <2>5, <2>6 DEF OwnBuffers
  <2>9. FullOnceTrimmed'
    BY <1>1, <2>2, <2>4 DEF FullOnceTrimmed
  <2>10. NoLostWakeup'
    <3>1. CASE reader.on = m
      BY <2>5, <3>1 DEF NoLostWakeup
    <3>2. CASE reader.on # m
      <4>1. reader.on # 0 => buffers'[reader.on] = buffers[reader.on]
        BY <1>1, <2>4, <3>2 DEF OwnBuffers
      <4>. QED BY <1>1, <2>5, <4>1 DEF NoLostWakeup
    <3>. QED BY <3>1, <3>2
  <2>11. ASSUME NEW i \in DOMAIN buffers, OpenedOnce(buffers[i].path)
         PROVE  \E before \in 0..written'[buffers[i].path] : InOrder(i, before)'
    <3>1. PICK before \in 0..written[buffers[i].path] : InOrder(i, before)
      BY <1>1, <2>11 DEF BytesInOrder
    <3>2. buffers[i] \in Buffer /\ buffers[i].path \in SerialPath
      BY <1>2, BufferIs
    <3>3. before \in Nat /\ before \in 0..written'[buffers[i].path]
      BY <1>2, <1>4, <3>2
    <3>4. CASE i = m
      <4>1. /\ \A k \in 1..Len(buffers[m].bytes) :
                 buffers[m].bytes[k] = before + buffers[m].base + k
            /\ written[p] = before + EndOffset(buffers[m])
            /\ reader.path = p =>
                 /\ reader.cursor <= EndOffset(buffers[m])
                 /\ reader.last > 0 => reader.last = before + reader.cursor
                 /\ ~reader.gap
        BY <2>1, <3>1, <3>4 DEF InOrder
      <4>2. EndOffset(buffers[m]) \in Nat
        <5>1. /\ buffers[m].base \in Nat /\ Len(buffers[m].bytes) \in Nat
              /\ EndOffset(buffers[m]) = buffers[m].base + Len(buffers[m].bytes)
          BY <1>2, <2>1, BufferIs
        <5>. QED BY <5>1
      <4>3. \A k \in 1..Len(b2.bytes) : b2.bytes[k] = before + b2.base + k
        BY <2>2, <3>3, <4>1 DEF Row
      <4>4. written'[p] = before + EndOffset(b2)
        BY <1>2, <1>4, <2>2, <3>3, <4>1, <4>2
      <4>5. reader.path = p => reader.cursor <= EndOffset(b2)
        BY <1>2, <2>2, <4>1, <4>2
      <4>6. buffers'[m] = b2 /\ b2.path = p /\ reader'.path = reader.path
            /\ reader'.cursor = reader.cursor /\ reader'.last = reader.last
            /\ (reader'.gap <=> reader.gap)
        BY <2>1, <2>2, <2>4, <2>5
      <4>7. InOrder(m, before)'
        BY <4>1, <4>3, <4>4, <4>5, <4>6 DEF InOrder
      <4>. QED BY <3>3, <3>4, <4>7
    <3>5. CASE i # m
      <4>1. buffers[i].path # p
        BY <2>1, <2>11, <3>5 DEF OpenedOnce
      <4>2. buffers'[i] = buffers[i] /\ written'[buffers[i].path] = written[buffers[i].path]
        BY <1>4, <2>4, <3>2, <3>5, <4>1
      <4>3. InOrder(i, before)'
        BY <2>5, <3>1, <4>2 DEF InOrder
      <4>. QED BY <3>3, <4>3
    <3>. QED BY <3>4, <3>5
  <2>12. BytesInOrder'
    <3>. SUFFICES ASSUME NEW i \in DOMAIN buffers, OpenedOnce(buffers[i].path)'
                  PROVE  \E before \in 0..written'[buffers'[i].path] : InOrder(i, before)'
      BY <2>4 DEF BytesInOrder
    <3>1. OpenedOnce(buffers[i].path)
      BY <2>4, <2>6 DEF OpenedOnce
    <3>. QED BY <2>6, <2>11, <3>1
  <2>. QED BY <2>7, <2>8, <2>9, <2>10, <2>12 DEF ConsoleIInv
<1>. QED BY <1>5, <1>6 DEF Arrive

LEMMA UnplugKeeps ==
  ASSUME ConsoleIInv, NEW p \in SerialPath, Unplug(p)
  PROVE  ConsoleIInv'
<1>1. ConsoleTypeOK /\ OwnBuffers /\ FullOnceTrimmed /\ BytesInOrder /\ NoLostWakeup
  BY DEF ConsoleIInv
<1>2. /\ Len(buffers) \in Nat /\ DOMAIN buffers = 1..Len(buffers)
      /\ \A i \in DOMAIN buffers : buffers[i] \in Buffer
  BY <1>1, ConsoleTyped
<1>3. /\ unplugs' = unplugs + 1
      /\ buffers' = [i \in DOMAIN buffers |->
           IF buffers[i].path = p THEN [buffers[i] EXCEPT !.closed = TRUE] ELSE buffers[i]]
      /\ written' = written /\ opening' = opening /\ devices' = devices /\ reader' = reader
  BY DEF Unplug
<1>4. ASSUME NEW b \in Buffer
      PROVE  LET b2 == [b EXCEPT !.closed = TRUE]
             IN  b2 \in Buffer /\ b2.path = b.path /\ b2.base = b.base /\ b2.bytes = b.bytes
                 /\ b2.closed
  BY DEF Buffer
<1>5. DOMAIN buffers' = 1..Len(buffers)
  BY <1>2, <1>3
<1>6. ASSUME NEW i \in DOMAIN buffers
      PROVE  /\ buffers'[i] \in Buffer /\ buffers'[i].path = buffers[i].path
             /\ buffers'[i].base = buffers[i].base /\ buffers'[i].bytes = buffers[i].bytes
             /\ buffers[i].closed => buffers'[i].closed
  <2>1. buffers[i] \in Buffer
    BY <1>2
  <2>2. \/ buffers'[i] = buffers[i]
        \/ buffers'[i] = [buffers[i] EXCEPT !.closed = TRUE]
    BY <1>3
  <2>. QED BY <1>4, <2>1, <2>2
<1>7. buffers' \in [1..Len(buffers) -> Buffer]
  BY <1>2, <1>3, <1>6
<1>8. buffers' \in Seq(Buffer)
  BY <1>2, <1>7, SeqDef
<1>9. ConsoleTypeOK'
  BY <1>1, <1>3, <1>8 DEF ConsoleTypeOK
<1>10. OwnBuffers' /\ FullOnceTrimmed'
  BY <1>1, <1>2, <1>3, <1>5, <1>6 DEF OwnBuffers, FullOnceTrimmed
<1>11. \A i \in DOMAIN buffers : EndOffset(buffers'[i]) = EndOffset(buffers[i])
  BY <1>6 DEF EndOffset
<1>12. NoLostWakeup'
  BY <1>1, <1>3, <1>11 DEF NoLostWakeup, OwnBuffers
<1>13. BytesInOrder'
  <2>. SUFFICES ASSUME NEW i \in DOMAIN buffers, OpenedOnce(buffers[i].path)'
                PROVE  \E before \in 0..written'[buffers'[i].path] : InOrder(i, before)'
    BY <1>2, <1>5 DEF BytesInOrder
  <2>1. OpenedOnce(buffers[i].path)
    BY <1>2, <1>5, <1>6 DEF OpenedOnce
  <2>2. PICK before \in 0..written[buffers[i].path] : InOrder(i, before)
    BY <1>1, <2>1 DEF BytesInOrder
  <2>3. InOrder(i, before)'
    BY <1>3, <1>6, <1>11, <2>2 DEF InOrder
  <2>. QED BY <1>3, <1>6, <2>3
<1>. QED BY <1>9, <1>10, <1>12, <1>13 DEF ConsoleIInv

\* What Take makes of a reader.
Answered(r, cursor, last, gap) ==
  [r EXCEPT !.cursor = cursor, !.on = 0, !.woken = FALSE, !.last = last, !.gap = gap]

LEMMA AnswerTaken ==
  ASSUME NEW r \in Reader, NEW cursor \in Nat, NEW last \in Nat, NEW gap \in BOOLEAN
  PROVE  LET r2 == Answered(r, cursor, last, gap)
         IN  /\ r2.path = r.path /\ r2.cursor = cursor /\ r2.on = 0
             /\ r2.last = last /\ r2.gap = gap
             /\ r2 \in Reader
BY DEF Answered, Reader

\* The client reads a buffer of its port from its cursor on.
LEMMA TakeKeeps ==
  ASSUME ConsoleIInv, NEW i \in DOMAIN buffers, buffers[i].path = reader.path,
         NEW most \in 1..2, reader' = Take(Read(buffers[i], reader.cursor, most)),
         UNCHANGED <<written, opening, buffers, devices, unplugs>>
  PROVE  ConsoleIInv'
<1>1. ConsoleTypeOK /\ OwnBuffers /\ FullOnceTrimmed /\ BytesInOrder /\ NoLostWakeup
  BY DEF ConsoleIInv
<1>2. /\ Len(buffers) \in Nat /\ DOMAIN buffers = 1..Len(buffers)
      /\ \A j \in DOMAIN buffers : buffers[j] \in Buffer
      /\ \A q \in SerialPath : written[q] \in Nat
      /\ reader.cursor \in Nat /\ reader.last \in Nat
      /\ reader \in Reader
  BY <1>1, ConsoleTyped DEF ConsoleTypeOK
<1>. DEFINE b == buffers[i]
            a == Read(b, reader.cursor, most)
            start == IF reader.cursor < b.base THEN b.base ELSE reader.cursor
            size == Len(a.data)
            anew == reader.last = 0 \/ a.truncated
            wrong == \E k \in 1..size : ~InPlace(a.data, k, reader.last + k)
            last == IF size = 0 THEN reader.last
                    ELSE IF anew THEN a.got[size] ELSE reader.last + size
            gap == reader.gap \/ (~anew /\ wrong)
<1>3. /\ b \in Buffer /\ b.base \in Nat /\ Len(b.bytes) \in Nat
      /\ EndOffset(b) = b.base + Len(b.bytes) /\ b.path \in SerialPath
  BY <1>2, BufferIs
<1>4. /\ a.got \in Seq(Nat) /\ Len(a.got) \in Nat /\ a.data = Decode(a.got)
      /\ a.next = start + Len(a.got) /\ a.truncated = (reader.cursor < b.base)
      /\ \A k \in 1..Len(a.got) : a.got[k] = b.bytes[start - b.base + k]
      /\ start < EndOffset(b) => Len(a.got) > 0 /\ a.next <= EndOffset(b)
      /\ start >= EndOffset(b) => Len(a.got) = 0
      /\ reader.cursor < b.base => start < EndOffset(b)
  <2>1. b.base > 0 => Len(b.bytes) > 0
    BY <1>1 DEF FullOnceTrimmed
  <2>2. start = (IF reader.cursor < b.base THEN b.base ELSE reader.cursor)
        /\ a = Read(b, reader.cursor, most)
    OBVIOUS
  <2>3. reader.cursor \in Nat /\ b \in Buffer
    BY <1>2, <1>3
  <2>. HIDE DEF a, start, b
  <2>. QED BY <2>1, <2>2, <2>3, ReadIs, SMTT(20)
<1>5. start \in Nat /\ start >= b.base /\ start >= reader.cursor /\ a.next \in Nat
      /\ (start = reader.cursor \/ reader.cursor < b.base)
  BY <1>2, <1>3, <1>4
<1>6. size = Len(a.got)
  <2>. HIDE DEF a
  <2>. QED BY <1>4, DecodeIs
<1>7. reader' = Answered(reader, a.next, last, gap)
  BY DEF Take, Answered
<1>8. last \in Nat /\ gap \in BOOLEAN
  <2>1. size > 0 => a.got[size] \in Nat
    <3>1. \A k \in 1..Len(a.got) : a.got[k] \in Nat
      BY <1>4, ElementOfSeq, Zenon
    <3>. QED BY <1>4, <1>6, <3>1
  <2>2. size \in Nat /\ reader.last \in Nat
    BY <1>2, <1>4, <1>6
  <2>3. last \in Nat
    <3>. HIDE DEF size, a, anew
    <3>. QED BY <2>1, <2>2
  <2>4. gap \in BOOLEAN
    BY <1>2 DEF Reader
  <2>. QED BY <2>3, <2>4
<1>9. /\ size = 0 => last = reader.last
      /\ size > 0 /\ anew => last = a.got[size]
      /\ size > 0 /\ ~anew => last = reader.last + size
      /\ gap <=> (reader.gap \/ (~anew /\ wrong))
      /\ anew <=> reader.last = 0 \/ reader.cursor < b.base
      /\ wrong <=> \E k \in 1..Len(a.got) : ~InPlace(Decode(a.got), k, reader.last + k)
  <2>1. a.truncated = (reader.cursor < b.base)
    BY <1>4
  <2>2. wrong <=> \E k \in 1..Len(a.got) : ~InPlace(Decode(a.got), k, reader.last + k)
    <3>1. a.data = Decode(a.got)
      BY <1>4
    <3>. HIDE DEF a
    <3>. QED BY <1>6, <3>1, Zenon
  <2>3. size > 0 => size # 0
    OBVIOUS
  <2>4. /\ size = 0 => last = reader.last
        /\ size > 0 /\ anew => last = a.got[size]
        /\ size > 0 /\ ~anew => last = reader.last + size
        /\ gap <=> (reader.gap \/ (~anew /\ wrong))
    <3>. HIDE DEF size, anew, wrong, a
    <3>. QED BY <2>3, Zenon
  <2>. QED BY <2>1, <2>2, <2>4, Zenon
<1>. HIDE DEF last, gap, size, anew, wrong
<1>10. /\ reader'.path = reader.path /\ reader'.cursor = a.next /\ reader'.on = 0
       /\ reader'.last = last /\ (reader'.gap <=> gap)
       /\ reader' \in Reader
  <2>1. a.next \in Nat
    BY <1>5
  <2>2. reader \in Reader
    BY <1>2
  <2>. HIDE DEF a
  <2>3. PICK c \in Nat : c = a.next
    BY <2>1
  <2>4. PICK l \in Nat : l = last
    BY <1>8
  <2>5. PICK g \in BOOLEAN : g = gap
    BY <1>8, Zenon
  <2>. DEFINE r2 == Answered(reader, c, l, g)
  <2>6. /\ r2.path = reader.path /\ r2.cursor = c /\ r2.on = 0
        /\ r2.last = l /\ r2.gap = g /\ r2 \in Reader
    BY <2>2, AnswerTaken
  <2>. HIDE DEF r2
  <2>7. reader' = r2
    BY <1>7, <2>3, <2>4, <2>5, Zenon DEF r2
  <2>. QED BY <2>3, <2>4, <2>5, <2>6, <2>7
<1>11. reader.path # Free
  BY <1>3, ConsoleNumbers
<1>12. ConsoleTypeOK'
  BY <1>1, <1>10 DEF ConsoleTypeOK
<1>13. OwnBuffers' /\ FullOnceTrimmed' /\ NoLostWakeup'
  BY <1>1, <1>10, <1>11 DEF OwnBuffers, FullOnceTrimmed, NoLostWakeup
<1>. HIDE DEF a, start
<1>14. ASSUME NEW j \in DOMAIN buffers, OpenedOnce(buffers[j].path)
       PROVE  \E before \in 0..written[buffers[j].path] : InOrder(j, before)'
  <2>1. PICK before \in 0..written[buffers[j].path] : InOrder(j, before)
    BY <1>1, <1>14 DEF BytesInOrder
  <2>2. CASE j # i
    <3>1. buffers[j].path # reader.path
      BY <1>14, <2>2 DEF OpenedOnce
    <3>2. InOrder(j, before)'
      BY <1>10, <2>1, <3>1 DEF InOrder
    <3>. QED BY <2>1, <3>2
  <2>3. CASE j = i
    <3>1. /\ \A k \in 1..Len(b.bytes) : b.bytes[k] = before + b.base + k
          /\ ~b.closed => written[b.path] = before + EndOffset(b)
          /\ reader.cursor <= EndOffset(b)
          /\ reader.last > 0 => reader.last = before + reader.cursor
          /\ ~reader.gap
      BY <2>1, <2>3 DEF InOrder
    <3>2. before \in Nat
      BY <1>2, <1>3, <2>1, <2>3
    <3>. HIDE DEF b
    <3>3. Len(a.got) > 0 => start + Len(a.got) <= EndOffset(b)
      BY <1>3, <1>4, <1>5
    <3>4. \A k \in 1..Len(a.got) : a.got[k] = before + start + k
      <4>. SUFFICES ASSUME NEW k \in 1..Len(a.got) PROVE a.got[k] = before + start + k
        OBVIOUS
      <4>1. start - b.base + k \in 1..Len(b.bytes)
        <5>1. Len(a.got) \in Nat /\ start + Len(a.got) <= b.base + Len(b.bytes)
          BY <1>3, <1>4, <3>3
        <5>. QED BY <1>3, <1>5, <5>1
      <4>2. b.bytes[start - b.base + k] = before + b.base + (start - b.base + k)
        BY <3>1, <4>1
      <4>. QED BY <1>3, <1>4, <1>5, <3>2, <4>2
    <3>5. a.next <= EndOffset(b)
      BY <1>3, <1>4, <1>5, <3>1
    <3>6. CASE Len(a.got) = 0
      <4>1. start = reader.cursor /\ a.next = reader.cursor
        BY <1>2, <1>3, <1>4, <1>5, <3>6
      <4>2. last = reader.last /\ ~gap
        BY <1>6, <1>9, <3>1, <3>6
      <4>3. InOrder(j, before)'
        BY <1>10, <2>3, <3>1, <3>5, <4>1, <4>2 DEF InOrder, b
      <4>. QED BY <2>1, <4>3
    <3>7. CASE Len(a.got) > 0
      <4>1. a.next = start + Len(a.got) /\ start \in Nat /\ Len(a.got) \in Nat
        BY <1>4, <1>5
      <4>2. CASE anew
        <5>1. Len(a.got) \in 1..Len(a.got) /\ last = a.got[Len(a.got)]
          BY <1>6, <1>9, <3>7, <4>1, <4>2
        <5>2. last = before + start + Len(a.got)
          BY <3>4, <5>1
        <5>3. before + (start + Len(a.got)) = before + start + Len(a.got)
          BY <3>2, <4>1, SumsAgree, Zenon
        <5>4. last = before + a.next /\ ~gap
          BY <1>9, <3>1, <4>1, <4>2, <5>2, <5>3, Zenon
        <5>5. InOrder(j, before)'
          BY <1>10, <2>3, <3>1, <3>5, <5>4 DEF InOrder, b
        <5>. QED BY <2>1, <5>5
      \* The answer goes on where the last one ended.
      <4>3. CASE ~anew
        <5>1. start = reader.cursor /\ reader.last = before + start
          BY <1>2, <1>5, <1>9, <3>1, <4>3
        <5>2. last = reader.last + Len(a.got)
          BY <1>6, <1>9, <3>7, <4>3
        <5>3. last = before + a.next
          BY <3>2, <4>1, <5>1, <5>2
        <5>4. \A k \in 1..Len(a.got) : a.got[k] = reader.last + k
          BY <3>4, <5>1
        <5>5. ~wrong
          BY <1>2, <1>9, <4>1, <5>4, RowIsLegible
        <5>6. InOrder(j, before)'
          BY <1>9, <1>10, <2>3, <3>1, <3>5, <5>3, <5>5 DEF InOrder, b
        <5>. QED BY <2>1, <5>6
      <4>. QED BY <4>2, <4>3
    <3>. QED BY <1>4, <3>6, <3>7
  <2>. QED BY <2>2, <2>3
<1>15. BytesInOrder'
  BY <1>14 DEF BytesInOrder, OpenedOnce
<1>. QED BY <1>12, <1>13, <1>15 DEF ConsoleIInv

\* There is nothing for it: it waits where it is, or where the buffer ends.
LEMMA WaitKeeps ==
  ASSUME ConsoleIInv, NEW p \in DOMAIN devices, reader.on = 0, reader.path \in {Free, p},
         NEW cursor,
         reader.path = Free => cursor = EndOffset(buffers[devices[p]]),
         reader.path = p => cursor = reader.cursor /\ cursor >= EndOffset(buffers[devices[p]]),
         reader' = [reader EXCEPT !.path = p, !.on = devices[p], !.cursor = cursor],
         UNCHANGED <<written, opening, buffers, devices, unplugs>>
  PROVE  ConsoleIInv'
<1>1. ConsoleTypeOK /\ OwnBuffers /\ FullOnceTrimmed /\ BytesInOrder /\ NoLostWakeup
  BY DEF ConsoleIInv
<1>2. /\ DOMAIN buffers = 1..Len(buffers) /\ Len(buffers) \in Nat
      /\ \A j \in DOMAIN buffers : buffers[j] \in Buffer
      /\ reader.cursor \in Nat /\ reader.last \in Nat /\ p \in SerialPath
      /\ reader \in Reader
  BY <1>1, ConsoleTyped DEF ConsoleTypeOK
<1>. DEFINE i == devices[p]
            b == buffers[i]
<1>3. i \in DOMAIN buffers /\ b.path = p /\ i \in Nat
  BY <1>1, <1>2 DEF OwnBuffers
<1>4. b \in Buffer /\ EndOffset(b) \in Nat
  <2>1. b \in Buffer
    BY <1>2, <1>3
  <2>2. b.base \in Nat /\ Len(b.bytes) \in Nat /\ EndOffset(b) = b.base + Len(b.bytes)
    BY <2>1, BufferIs
  <2>. QED BY <2>1, <2>2
<1>5. cursor \in Nat /\ cursor >= EndOffset(b)
  BY <1>2, <1>4
<1>6. /\ reader'.path = p /\ reader'.cursor = cursor /\ reader'.on = i
      /\ reader'.last = reader.last /\ (reader'.gap <=> reader.gap)
      /\ reader' \in Reader
  BY <1>2, <1>3, <1>5 DEF Reader
<1>7. ConsoleTypeOK'
  BY <1>1, <1>6 DEF ConsoleTypeOK
<1>8. p # Free
  BY <1>2, ConsoleNumbers
<1>. HIDE DEF i
<1>9. OwnBuffers' /\ FullOnceTrimmed'
  BY <1>1, <1>3, <1>6, <1>8 DEF OwnBuffers, FullOnceTrimmed
<1>10. NoLostWakeup'
  BY <1>4, <1>5, <1>6 DEF NoLostWakeup
<1>11. ASSUME NEW j \in DOMAIN buffers, OpenedOnce(buffers[j].path)
       PROVE  \E before \in 0..written[buffers[j].path] : InOrder(j, before)'
  <2>1. PICK before \in 0..written[buffers[j].path] : InOrder(j, before)
    BY <1>1, <1>11 DEF BytesInOrder
  <2>2. CASE buffers[j].path # p
    BY <1>6, <2>1, <2>2 DEF InOrder
  <2>3. CASE buffers[j].path = p /\ reader.path = p
    BY <1>6, <2>1, <2>3 DEF InOrder
  <2>4. CASE buffers[j].path = p /\ reader.path = Free
    <3>1. j = i
      BY <1>3, <1>11, <2>4 DEF OpenedOnce
    <3>2. reader.last = 0 /\ ~reader.gap
      BY <1>1, <2>4 DEF OwnBuffers
    <3>3. cursor = EndOffset(buffers[j])
      BY <2>4, <3>1 DEF i
    <3>4. cursor <= EndOffset(buffers[j])
      BY <1>5, <3>3
    <3>5. InOrder(j, before)'
      BY <1>6, <2>1, <3>2, <3>4 DEF InOrder
    <3>. QED BY <2>1, <3>5
  <2>. QED BY <2>2, <2>3, <2>4
<1>12. BytesInOrder'
  BY <1>11 DEF BytesInOrder, OpenedOnce
<1>. QED BY <1>7, <1>9, <1>10, <1>12 DEF ConsoleIInv

LEMMA StartReadKeeps ==
  ASSUME ConsoleIInv, NEW p \in SerialPath, NEW most \in 1..2, StartRead(p, most)
  PROVE  ConsoleIInv'
<1>1. ConsoleTypeOK /\ OwnBuffers /\ FullOnceTrimmed
  BY DEF ConsoleIInv
<1>. DEFINE b == buffers[devices[p]]
            from == IF reader.path = Free THEN EndOffset(b) ELSE reader.cursor
            a == Read(b, from, most)
            cursor == IF reader.path = Free THEN a.next ELSE reader.cursor
<1>2. /\ p \in DOMAIN devices /\ reader.on = 0 /\ reader.path \in {Free, p}
      /\ UNCHANGED <<written, opening, buffers, devices, unplugs>>
      /\ \/ a.got # <<>> /\ reader' = Take(a)
         \/ a.got = <<>> /\ reader' = [reader EXCEPT !.path = p, !.on = devices[p], !.cursor = cursor]
  BY DEF StartRead
<1>3. devices[p] \in DOMAIN buffers /\ b.path = p
  BY <1>1, <1>2 DEF OwnBuffers
<1>4. b \in Buffer /\ EndOffset(b) \in Nat /\ b.base \in Nat /\ EndOffset(b) >= b.base
      /\ reader.cursor \in Nat
  <2>1. b \in Buffer /\ reader.cursor \in Nat
    BY <1>1, <1>3, ConsoleTyped
  <2>2. b.base \in Nat /\ Len(b.bytes) \in Nat /\ EndOffset(b) = b.base + Len(b.bytes)
    BY <2>1, BufferIs
  <2>. QED BY <2>1, <2>2
<1>5. from \in Nat /\ (b.base > 0 => Len(b.bytes) > 0)
  BY <1>1, <1>3, <1>4 DEF FullOnceTrimmed
<1>. DEFINE start == IF from < b.base THEN b.base ELSE from
<1>6. /\ a.got \in Seq(Nat) /\ Len(a.got) \in Nat /\ a.next = start + Len(a.got)
      /\ start < EndOffset(b) => Len(a.got) > 0
      /\ start >= EndOffset(b) => Len(a.got) = 0
      /\ from < b.base => start < EndOffset(b)
  <2>1. start = (IF from < b.base THEN b.base ELSE from) /\ a = Read(b, from, most)
    OBVIOUS
  <2>. HIDE DEF a, start, from, b
  <2>. QED BY <1>4, <1>5, <2>1, ReadIs
<1>7. a.got = <<>> <=> Len(a.got) = 0
  BY <1>6, EmptySeq
<1>8. CASE reader.path = Free
  <2>1. from = EndOffset(b) /\ start = from
    BY <1>4, <1>8
  <2>2. Len(a.got) = 0 /\ a.next = EndOffset(b)
    BY <1>4, <1>6, <2>1
  <2>3. cursor = EndOffset(b) /\ p # Free
    BY <1>8, <2>2, ConsoleNumbers
  <2>4. reader' = [reader EXCEPT !.path = p, !.on = devices[p], !.cursor = cursor]
    BY <1>2, <1>7, <2>2
  <2>. HIDE DEF cursor, a, from, start
  <2>. QED BY <1>2, <1>8, <2>3, <2>4, WaitKeeps
<1>9. CASE reader.path # Free
  <2>1. reader.path = p /\ from = reader.cursor /\ cursor = reader.cursor
    BY <1>2, <1>9
  <2>2. CASE a.got # <<>>
    <3>1. reader' = Take(Read(buffers[devices[p]], reader.cursor, most))
      BY <1>2, <2>1, <2>2
    <3>. QED BY <1>2, <1>3, <2>1, <3>1, TakeKeeps
  <2>3. CASE a.got = <<>>
    <3>1. reader.cursor >= EndOffset(b)
      BY <1>4, <1>6, <1>7, <2>1, <2>3
    <3>2. reader' = [reader EXCEPT !.path = p, !.on = devices[p], !.cursor = cursor]
      BY <1>2, <2>3
    <3>. HIDE DEF cursor, a, from, start
    <3>. QED BY <1>2, <1>9, <2>1, <3>1, <3>2, WaitKeeps
  <2>. QED BY <2>2, <2>3
<1>. QED BY <1>8, <1>9

LEMMA ConsoleStep == ConsoleIInv /\ [ConsoleNext]_consoleVars => ConsoleIInv'
<1>. SUFFICES ASSUME ConsoleIInv, [ConsoleNext]_consoleVars PROVE ConsoleIInv'
  OBVIOUS
<1>1. ConsoleTypeOK /\ OwnBuffers /\ FullOnceTrimmed /\ BytesInOrder /\ NoLostWakeup
  BY DEF ConsoleIInv
<1>2. ASSUME UNCHANGED <<written, buffers, devices, reader, unplugs>>,
             opening' \in [Opener -> SerialPath \cup {Free}]
      PROVE  ConsoleIInv'
  <2>1. ConsoleTypeOK'
    BY <1>1, <1>2 DEF ConsoleTypeOK
  <2>2. OwnBuffers' /\ FullOnceTrimmed' /\ NoLostWakeup'
    BY <1>1, <1>2 DEF OwnBuffers, FullOnceTrimmed, NoLostWakeup
  <2>3. BytesInOrder'
    BY <1>1, <1>2 DEF BytesInOrder, OpenedOnce, InOrder
  <2>. QED BY <2>1, <2>2, <2>3 DEF ConsoleIInv
<1>3. ASSUME NEW c \in Opener, NEW p \in SerialPath, OpenDevice(c, p)
      PROVE  ConsoleIInv'
  BY <1>1, <1>2, <1>3 DEF OpenDevice, ConsoleTypeOK
<1>4. ASSUME NEW c \in Opener, NotOpened(c)
      PROVE  ConsoleIInv'
  BY <1>1, <1>2, <1>4 DEF NotOpened, ConsoleTypeOK
<1>5. ASSUME NEW most \in 1..2, FinishRead(most)
      PROVE  ConsoleIInv'
  <2>1. /\ reader.on \in DOMAIN buffers /\ buffers[reader.on].path = reader.path
        /\ reader' = Take(Read(buffers[reader.on], reader.cursor, most))
        /\ UNCHANGED <<written, opening, buffers, devices, unplugs>>
    BY <1>1, <1>5 DEF FinishRead, OwnBuffers
  <2>. QED BY <2>1, TakeKeeps
<1>6. CASE UNCHANGED consoleVars
  BY <1>1, <1>2, <1>6 DEF consoleVars, ConsoleTypeOK
<1>7. CASE ConsoleNext
  BY <1>3, <1>4, <1>5, <1>7, OpenedKeeps, ArriveKeeps, UnplugKeeps, StartReadKeeps
     DEF ConsoleNext
<1>. QED BY <1>6, <1>7

\* The inductive invariant of the console: the buffers hold consecutive bytes and
\* the reader's cursor is behind the last it got (buffer.mjs, serial.mjs).
THEOREM ConsoleInductive == ConsoleSpec => []ConsoleIInv
BY ConsoleStarts, ConsoleStep, PTL DEF ConsoleSpec

\* A client that reads on gets every byte of a port that was opened once, as
\* text or as the mark that stands for it, or is told of the loss: for any ports,
\* buffer size, number of bytes and calls, wherever the characters begin.
THEOREM GapsAreTold == ConsoleSpec => []NoSilentGap
<1>1. ConsoleIInv => NoSilentGap
  <2>. SUFFICES ASSUME ConsoleIInv, reader.gap
                PROVE  Cardinality({i \in DOMAIN buffers : buffers[i].path = reader.path}) > 1
    BY DEF NoSilentGap
  <2>1. ConsoleTypeOK /\ OwnBuffers /\ BytesInOrder
    BY DEF ConsoleIInv
  <2>2. Len(buffers) \in Nat /\ DOMAIN buffers = 1..Len(buffers)
    BY <2>1, ConsoleTyped
  <2>. DEFINE B == {i \in DOMAIN buffers : buffers[i].path = reader.path}
  <2>3. PICK i \in DOMAIN buffers : buffers[i].path = reader.path
    BY <2>1 DEF OwnBuffers
  <2>4. ~OpenedOnce(reader.path)
    BY <2>1, <2>3 DEF BytesInOrder, InOrder
  <2>5. PICK j \in B, k \in B : j # k
    BY <2>4 DEF OpenedOnce
  <2>6. IsFiniteSet(B)
    <3>1. IsFiniteSet(1..Len(buffers))
      BY <2>2, FS_Interval
    <3>. QED BY <2>2, <3>1, FS_Subset
  <2>. HIDE DEF B
  <2>7. Cardinality(B) \in Nat
    BY <2>6, FS_CardinalityType
  <2>8. Cardinality(B) # 0
    BY <2>5, <2>6, FS_EmptySet
  <2>9. Cardinality(B) # 1
    BY <2>5, <2>6, FS_Singleton
  <2>10. Cardinality(B) > 1
    BY <2>7, <2>8, <2>9
  <2>. QED BY <2>10 DEF B
<1>. QED BY <1>1, ConsoleInductive, PTL

\* A client that waits while there are bytes beyond its cursor has been woken
\* (CursorBuffer.append, readWhenAvailable).
THEOREM WaitersAreWoken == ConsoleSpec => []NoLostWakeup
<1>1. ConsoleIInv => NoLostWakeup
  BY DEF ConsoleIInv
<1>. QED BY <1>1, ConsoleInductive, PTL
=============================================================================
