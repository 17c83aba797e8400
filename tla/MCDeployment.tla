----------------------------- MODULE MCDeployment -----------------------------
(***************************************************************************)
(* Deployment on the graphs of all machines and components.                *)
(***************************************************************************)
EXTENDS Deployment, Stacks, FiniteSets

CONSTANT MaxSlice   \* resources in a slice

All == Machines @@ Components

AllResources == UNION {{m} \X DOMAIN All[m] : m \in DOMAIN All}

AllGraph == [p \in AllResources |->
  LET r == All[p[1]][p[2]]
      In(S) == {p[1]} \X S
  IN  [on |-> In(r.on), refresh |-> In(r.refresh), needs |-> In(r.needs),
       reads |-> In(r.reads), once |-> r.once]]

(* What is behind a resource, through every chain.                         *)
AllBehind[p \in AllResources] ==
  LET waits == AllGraph[p].on \cup AllGraph[p].refresh
  IN  waits \cup UNION {AllBehind[q] : q \in waits}

(* What r needs and does not wait for, and what it reads and is not        *)
(* refreshed by: the stacks as they are today, machine by machine.         *)
Pairs(m, rows) == {<<<<m, p[1]>>, <<m, p[2]>>>> : p \in rows}

KnownUnordered == UNION {
  Pairs("remRam", {"ip6Zone", "inAddrZone", "sapslajZone", "zonepopHosts"}
                  \X {"etcCoredns"}),
  Pairs("aqua", {<<"baselineUsers", "kvmPackages">>}),
  Pairs("playboy", {<<"baselineUsers", "cupsPackage">>,
                    <<"zigbee2mqttRepo", "nodePackages">>,
                    <<"nodesourceRepoSet", "vector">>}),
  Pairs("shimiko", {<<"restoreBackup", "nasClient">>}),
  Pairs("koyuki", {<<"docker", "vector">>}),
  Pairs("omada", {<<"mongo7RepoSetup", "vector">>}),
  Pairs("unifi", {<<"mongodbGpgKey", "vector">>}),
  Pairs("hoshino", {<<"garmService", "providerK8sInstall">>}),
  Pairs("miyabi", {<<"tailscaleUp", "tailscaled">>}),
  Pairs("uptimeKuma", {<<"tailscaleUp", "tailscaled">>, <<"docker", "vector">>,
                       <<"tailscaleRepos", "vector">>}),
  Pairs("eris", {"upsdUsers", "upsmonConf"} \X {"userPassword"}),
  Pairs("awsIngress", {<<"portConfig", "baselineUsers">>, <<"tailscale", "vector">>}),
  Pairs("rockytest", {<<"htop", "epelRelease">>}),
  Pairs("OpenTelemetryCollector", {<<"service", "envVarLine">>}),
  Pairs("Rclone", {<<"job", "package">>})}

KnownUnwatched == UNION {
  Pairs("koyuki", {"qbittorrent", "flairsolverr", "jackett"} \X {"vpn"}),
  Pairs("mitsuru", {<<"shortrack", "shortrackBinary">>}),
  Pairs("aqua", {<<"shortrack", "shortrackBinary">>,
                 <<"libvirtExporter", "libvirtExporterBinary">>}),
  Pairs("hoshino", {<<"actRunner", "actRunnerConfig">>}),
  Pairs("misc", {"caddyService"}
                \X {"caddyEnv", "caddyfile", "caddyEntrypoint"}),
  Pairs("playboy", {"zigbee2mqtt"} \X {"zigbee2mqttRepo", "npmInstall"}),
  Pairs("eris", {"upsdUsers", "upsmonConf"} \X {"userPassword"}),
  Pairs("awsVpnRouter", {<<"sysctl", "sysctlConf">>}),
  Pairs("Selfheal", {<<"service", "systemdServiceFile">>,
                     <<"timer", "systemdTimerFile">>}),
  Pairs("Vector", {<<"service", "envVarLine">>}),
  Pairs("OpenTelemetryCollector", {<<"service", "envVarLine">>}),
  Pairs("PrometheusNodeExporter", {<<"service", "install">>}),
  Pairs("Rclone", {"job"} \X {"systemdService", "systemdTimer"})}

(* One slice for each resource and a thing it needs, or reads.             *)
SliceOf(p, n) == {p, n} \cup AllBehind[p] \cup AllBehind[n]
UpToMaxSlice(slices) == {s \in slices : Cardinality(s) <= MaxSlice}
AllSlices ==
  UpToMaxSlice(UNION {{SliceOf(p, n) : n \in AllGraph[p].needs} : p \in AllResources})
ServiceSlices ==
  UpToMaxSlice(UNION {{SliceOf(p, x) : x \in AllGraph[p].reads} : p \in AllResources})
===============================================================================
