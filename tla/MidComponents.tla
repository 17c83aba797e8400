---------------------------- MODULE MidComponents ----------------------------
(***************************************************************************)
(* The machine components of src/common/pulumi/components/mid as graphs of *)
(* resources.  A graph is a function from the resource's name to           *)
(*                                                                         *)
(*   on       what its operation waits for: dependsOn and the outputs of   *)
(*            other resources it is computed from                          *)
(*   refresh  the resources whose triggers.lastChanged it refers to: it    *)
(*            waits for them too, and is applied again when one changed    *)
(*   needs    what must be on the machine for the operation to succeed:    *)
(*            the directory of a file, the user that owns it, the package  *)
(*            of a service, the daemon of a container                      *)
(*   reads    for a service or a container, what it or systemd loads when  *)
(*            it is (re)started and holds until the next time              *)
(*                                                                         *)
(*   once     the command that creates it fails when what it makes is      *)
(*            there already (git clone, gpg --dearmor -o, swapon)          *)
(*                                                                         *)
(* "on" and "refresh" are what the program tells the deployment; the rest  *)
(* is what the paths, users and commands in it ask of the machine.         *)
(* Elsewhere a SystemdUnit is one resource: the component chains its file  *)
(* and its service itself (SystemdUnit below).                             *)
(***************************************************************************)
EXTENDS TLC

Svc(on, refresh, needs, reads) ==
  [on |-> on, refresh |-> refresh, needs |-> needs \cup reads, reads |-> reads,
   once |-> FALSE]

Op(on, needs) == Svc(on, {}, needs, {})
Once(resource) == [resource EXCEPT !.once = TRUE]
Each(names, resource) == [n \in names |-> resource]

(***************************************************************************)
(* SystemdUnit: the service is refreshed by its file.                      *)
(***************************************************************************)
SystemdUnitUnwatched ==      \* a wrong variant, dependsOn alone
  [file |-> Op({}, {}),
   unit |-> Svc({"file"}, {}, {}, {"file"})]

SystemdUnit ==
  [file |-> Op({}, {}),
   unit |-> Svc({}, {"file"}, {}, {"file"})]

MidTarget ==
  Each({"aptPrereqs", "hostname", "noInstallRecommends", "noSnap",
        "removeMotdHelpText", "sysctlTweaks"}, Op({}, {}))
  @@ Each({"addPackages", "removePackages"}, Op({"aptPrereqs"}, {"aptPrereqs"}))

Autoupdate ==
  [service |-> Op({}, {}),
   timer   |-> Op({"service"}, {"service"})]

(***************************************************************************)
(* Selfheal lists the resources themselves under refresh, not their        *)
(* lastChanged: the operation waits for them, and the reference it holds   *)
(* is the same whatever their contents.                                    *)
(***************************************************************************)
Selfheal ==
  [ansiblePackage     |-> Op({}, {}),
   selfHealDir        |-> Op({}, {}),
   tasksDir           |-> Op({"selfHealDir"}, {"selfHealDir"}),
   entryPointPlaybook |-> Op({"selfHealDir"}, {"selfHealDir"}),
   taskFile           |-> Op({"tasksDir"}, {"tasksDir"}),
   systemdServiceFile |-> Op({}, {}),
   systemdTimerFile   |-> Op({}, {}),
   service |-> Svc({"ansiblePackage", "entryPointPlaybook", "systemdServiceFile",
                    "taskFile"}, {}, {}, {"systemdServiceFile"}),
   timer   |-> Svc({"service", "systemdTimerFile"}, {}, {"service"},
                   {"systemdTimerFile"})]

DockerHost ==
  [repoSetup           |-> Op({}, {}),
   dockerPackages      |-> Svc({}, {"repoSetup"}, {"repoSetup"}, {}),
   dockerConfig        |-> Op({"dockerPackages"}, {}),
   dockerGroup         |-> Op({}, {}),
   dockerGroupAddition |-> Op({"dockerGroup"}, {"dockerGroup"}),
   service |-> Svc({"dockerPackages"}, {"dockerConfig", "dockerGroup"},
                   {"dockerPackages", "dockerGroup"}, {"dockerConfig"}),
   housekeeperService  |-> Op({"service"}, {}),
   housekeeperTimer    |-> Op({"housekeeperService"}, {"housekeeperService"}),
   watchtower          |-> Op({"service"}, {"service"}),
   cadvisor            |-> Op({"service"}, {"service"})]


NASClient ==
  [packages |-> Op({}, {}),
   mount    |-> Op({"packages"}, {"packages"})]

(***************************************************************************)
(* The password is written to /etc/default/vector, line by line; the       *)
(* service is refreshed by vector.yaml only.                               *)
(***************************************************************************)
Vector ==
  [curl       |-> Op({}, {}),
   rsyslog    |-> Op({}, {}),
   repoSetup  |-> Op({"curl"}, {"curl"}),
   package    |-> Op({"repoSetup"}, {"repoSetup"}),
   envVarLine |-> Op({"package"}, {"package"}),
   configFile |-> Op({"package", "envVarLine"}, {"package"}),
   service    |-> Svc({"package"}, {"configFile"}, {"package"},
                      {"configFile", "envVarLine"})]

OpenTelemetryCollector ==
  [package    |-> Op({}, {}),
   envVarLine |-> Op({"package"}, {"package"}),
   configFile |-> Op({"package"}, {"package"}),
   service    |-> Svc({"package"}, {"configFile"}, {"package"},
                      {"configFile", "envVarLine"})]

(***************************************************************************)
(* install stops the service and puts the latest release in its place.     *)
(***************************************************************************)
PrometheusNodeExporter ==
  [install |-> Op({}, {}),
   service |-> Svc({"install"}, {}, {}, {"install"})]

RsyncBackup ==
  [rsyncPackage |-> Op({}, {}),
   service      |-> Op({"rsyncPackage"}, {"rsyncPackage"}),
   timer        |-> Op({"service"}, {"service"})]

(***************************************************************************)
(* The started timer of a job may fire at once: it needs all its script    *)
(* runs, the rclone package included.                                      *)
(***************************************************************************)
Rclone ==
  [package        |-> Op({}, {}),
   configDir      |-> Op({}, {}),
   configFile     |-> Op({"configDir"}, {"configDir"}),
   jobsDir        |-> Op({}, {}),
   systemdService |-> Op({}, {}),
   systemdTimer   |-> Op({}, {}),
   script         |-> Op({"jobsDir"}, {"jobsDir"}),
   job |-> Svc({"script", "systemdTimer", "systemdService", "configFile"}, {},
               {"package", "script", "configFile"},
               {"systemdTimer", "systemdService"})]

Swap ==
  [swapfileCreate |-> Op({}, {}),
   fstab          |-> Op({"swapfileCreate"}, {}),
   swapon         |-> Once(Op({"fstab"}, {"swapfileCreate"})),
   swappiness     |-> Op({}, {})]

Tailscale ==
  [tailnetKey     |-> Op({}, {}),
   sysctl         |-> Op({}, {}),
   tailscaleRepos |-> Op({}, {}),
   packages       |-> Op({"sysctl", "tailscaleRepos"}, {"tailscaleRepos"}),
   service        |-> Op({"packages"}, {"packages"}),
   up             |-> Op({"service", "tailnetKey"}, {"service", "tailnetKey"})]

BaselineUsers ==
  [passwordlessSudo  |-> Op({}, {}),
   adminGroup        |-> Op({}, {}),
   user              |-> Op({"adminGroup"}, {"adminGroup"}),
   sshDir            |-> Op({"user"}, {"user"}),
   authorizedKeys    |-> Op({"sshDir", "user"}, {"sshDir", "user"}),
   authorizedKeyLine |-> Op({"authorizedKeys", "user"}, {"authorizedKeys"})]

DockerContainer == [container |-> Op({}, {})]

Components ==
  [SystemdUnit |-> SystemdUnit, MidTarget |-> MidTarget,
   Autoupdate |-> Autoupdate, Selfheal |-> Selfheal, DockerHost |-> DockerHost,
   NASClient |-> NASClient, Vector |-> Vector,
   OpenTelemetryCollector |-> OpenTelemetryCollector,
   PrometheusNodeExporter |-> PrometheusNodeExporter,
   RsyncBackup |-> RsyncBackup, Rclone |-> Rclone, Swap |-> Swap,
   Tailscale |-> Tailscale, BaselineUsers |-> BaselineUsers,
   DockerContainer |-> DockerContainer]
==============================================================================
