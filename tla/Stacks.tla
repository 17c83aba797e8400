-------------------------------- MODULE Stacks --------------------------------
(***************************************************************************)
(* The machine stacks (src/<machine>/index.ts) as graphs of resources, in  *)
(* the notation of MidComponents.  A component, a virtual machine (vm), an *)
(* EC2 instance and its providers are one resource each: what waits for a  *)
(* component waits for all its children.  What a resource reads from an    *)
(* output that changes with the contents (a key, a checksum) is listed     *)
(* under refresh as well.  Of the commands a resource runs, those count as *)
(* needs that another resource of the stack installs: git, and curl, which *)
(* comes with Vector.                                                      *)
(***************************************************************************)
EXTENDS MidComponents

(* Machines that are not created by a stack: midTarget comes first. *)
Baseline == [midTarget |-> Op({}, {})]
  @@ Each({"baselineUsers", "nodeExporter", "vector", "autoupdate"},
          Op({"midTarget"}, {}))

(***************************************************************************)
(* rem-ram: the CoreDNS servers.  The Corefile and the zones are reread by *)
(* CoreDNS itself (its reload plugin): nothing is held.                    *)
(***************************************************************************)
RemRamBase == Baseline @@ [curl |-> Op({"midTarget"}, {})]

RemRamCoreDNS ==
  [coreDNSInstall |-> Op({"midTarget"}, {}),
   etcCoredns     |-> Op({"coreDNSInstall"}, {"coreDNSInstall"}),
   corefile       |-> Op({"etcCoredns"}, {"etcCoredns", "coreDNSInstall"}),
   vsddUser       |-> Op({"coreDNSInstall"}, {"coreDNSInstall"})]
  @@ Each({"ip6Zone", "inAddrZone", "sapslajZone", "zonepopHosts"},
          Op({"vsddUser"}, {"vsddUser", "coreDNSInstall", "etcCoredns"}))

(***************************************************************************)
(* koyuki: the media server.  A container in the network namespace of the  *)
(* vpn container holds the one it was started with.                        *)
(***************************************************************************)
KoyukiBase == Baseline
  @@ Each({"apparmor", "selfheal", "nasClient"}, Op({"midTarget"}, {}))
  @@ [docker        |-> Op({"midTarget"}, {"vector"}),
      varDocker     |-> Op({}, {}),
      dockerVolumes |-> Op({"varDocker"}, {}),
      rsyncBackup   |-> Op({"nasClient"}, {}),
      vpn           |-> Op({"docker"}, {"docker"})]

InVpn(on) == Svc(on \cup {"docker", "vpn"}, {}, {"docker"}, {"vpn"})

LinkedToVpn == Op({"docker", "dockerVolumes", "nasClient", "vpn"},
                  {"docker", "nasClient", "vpn"})

KoyukiMedia ==
  [qbittorrent         |-> InVpn({"dockerVolumes", "nasClient"}),
   qbittorrentExporter |-> Op({"docker"}, {"docker"}),
   flairsolverr        |-> InVpn({}),
   jackett             |-> InVpn({"dockerVolumes"})]
  @@ Each({"lidarr", "prowlarr"}, LinkedToVpn)

KoyukiPlayers ==
  Each({"radarr", "sonarr"}, LinkedToVpn)
  @@ Each({"plex", "jellyfin"},
          Op({"docker", "dockerVolumes", "nasClient", "vpn"}, {"docker", "nasClient"}))

KoyukiLogs ==
  [syslogngConfigDir |-> Op({"dockerVolumes"}, {}),
   syslogngConfig    |-> Op({"syslogngConfigDir"}, {"syslogngConfigDir"}),
   syslogng |-> Svc({"docker"}, {"syslogngConfig"}, {"docker"}, {"syslogngConfig"}),
   vectorConfigDir   |-> Op({"dockerVolumes"}, {}),
   vectorConfig      |-> Op({"vectorConfigDir"}, {"vectorConfigDir"}),
   vectorContainer |-> Svc({"docker"}, {"vectorConfig"}, {"docker"}, {"vectorConfig"})]

KoyukiMorbius ==
  [syncthing     |-> Op({"docker", "dockerVolumes", "nasClient"}, {"docker", "nasClient"}),
   etcMorbius    |-> Op({}, {}),
   morbiusConfig |-> Op({"etcMorbius"}, {"etcMorbius"}),
   varMorbius    |-> Op({}, {}),
   geoliteSync   |-> Op({"docker", "varMorbius", "nasClient"}, {"docker", "nasClient"}),
   morbius |-> Svc({"docker", "geoliteSync", "nasClient"}, {"morbiusConfig"},
                   {"docker", "geoliteSync"}, {"morbiusConfig"})]

(***************************************************************************)
(* oci: the registry.  The proxy carries a label with the checksum of its  *)
(* configuration, traefik the access key in its environment.               *)
(***************************************************************************)
OciBase ==
  [vm          |-> Op({}, {}),
   nasClient   |-> Op({"vm"}, {}),
   docker      |-> Op({"vm"}, {}),
   rsyncBackup |-> Op({"nasClient"}, {}),
   iamKey      |-> Op({}, {}),
   cname       |-> Op({"vm"}, {})]

OciContainers ==
  [traefik  |-> Svc({"docker"}, {"iamKey"}, {"docker"}, {"iamKey"}),
   registry |-> Op({"docker"}, {"docker"}),
   proxyZotConfigDir |-> Op({"vm"}, {}),
   proxyZotConfig |-> Op({"proxyZotConfigDir"}, {"proxyZotConfigDir"}),
   proxy |-> Svc({"docker", "proxyZotConfigDir"}, {"proxyZotConfig"},
                 {"docker"}, {"proxyZotConfig"})]

(***************************************************************************)
(* mitsuru: a Proxmox host with NFS exports and backups.                   *)
(***************************************************************************)
MitsuruExporter == Baseline @@
  [pveExporterConfig  |-> Op({"midTarget"}, {}),
   pveExporterBinary  |-> Op({"midTarget"}, {}),
   pveExporterService |-> Svc({}, {"pveExporterConfig", "pveExporterBinary"}, {},
                              {"pveExporterConfig", "pveExporterBinary"})]

MitsuruServices ==
  [nasClient       |-> Op({"midTarget"}, {}),
   shortrackBinary |-> Op({}, {}),
   shortrack       |-> Svc({"shortrackBinary"}, {}, {}, {"shortrackBinary"}),
   nfsPackages     |-> Op({"midTarget"}, {}),
   nfsExports      |-> Op({"nfsPackages"}, {}),
   nfsServer       |-> Svc({"nfsPackages"}, {"nfsExports"}, {"nfsPackages"}, {"nfsExports"})]

MitsuruBackups ==
  [rsyncBackup      |-> Op({"midTarget", "nasClient"}, {}),
   pv               |-> Op({"midTarget"}, {}),
   redbackupScript  |-> Op({}, {}),
   redbackupService |-> Op({"redbackupScript", "pv"}, {}),
   redbackupTimer   |-> Op({"redbackupService"}, {"redbackupService"}),
   rclone           |-> Op({"midTarget"}, {})]

(***************************************************************************)
(* aqua: the hypervisor.  The users are put into the group "libvirt" that  *)
(* the virtualisation packages create; libvirt_exporter is refreshed by    *)
(* the binary of du_exporter.                                              *)
(***************************************************************************)
AquaBase == [baselineUsers |-> Op({"midTarget"}, {"kvmPackages"})]
  @@ Baseline
  @@ Each({"motd", "pipx", "kvmPackages", "selfheal", "storagePackages"},
          Op({"midTarget"}, {}))

AquaExporters ==
  [duExporterBinary  |-> Op({}, {}),
   duExporter |-> Svc({}, {"duExporterBinary"}, {}, {"duExporterBinary"}),
   shortrackBinary   |-> Op({}, {}),
   shortrack  |-> Svc({"shortrackBinary"}, {}, {}, {"shortrackBinary"}),
   networkingSysctl  |-> Op({}, {})]

AquaNetworking ==
  [networkingPackages |-> Op({"midTarget"}, {}),
   nmManageAllInterfaces |-> Op({"networkingPackages"}, {"networkingPackages"}),
   networkManager |-> Svc({}, {"nmManageAllInterfaces"}, {"networkingPackages"},
                          {"nmManageAllInterfaces"}),
   networkingConfig |-> Op({"networkingPackages", "networkManager"},
                           {"networkManager"}),
   libvirtExporterBinary |-> Op({}, {}),
   libvirtExporter |-> Svc({"libvirtExporterBinary"}, {"duExporterBinary"}, {},
                           {"libvirtExporterBinary"})]

AquaBackups ==
  [virtBackupInstall |-> Op({"pipx"}, {"pipx"}),
   etcVirtBackup     |-> Op({}, {}),
   virtBackupConfig  |-> Op({"etcVirtBackup"}, {"etcVirtBackup"}),
   virtBackupService |-> Op({"virtBackupInstall", "virtBackupConfig"}, {}),
   virtBackupTimer   |-> Op({"virtBackupService"}, {"virtBackupService"}),
   nfsPackages       |-> Op({"midTarget"}, {}),
   nfsExports        |-> Op({"nfsPackages"}, {}),
   nfsServer         |-> Svc({"nfsPackages"}, {"nfsExports"}, {"nfsPackages"}, {"nfsExports"})]

AquaStorage ==
  [cockpit          |-> Op({"midTarget"}, {}),
   seaweedFSInstall |-> Op({}, {}),
   weed   |-> Svc({}, {"seaweedFSInstall"}, {}, {"seaweedFSInstall"}),
   rclone |-> Op({"midTarget"}, {})]

(***************************************************************************)
(* hoshino: the runner manager garm.  Owners and groups of the directories *)
(* are outputs of the user and the group.  garm.service needs the          *)
(* executable of every provider its configuration names.                   *)
(***************************************************************************)
GarmOwned(on) == Op(on \cup {"vm", "garmUser", "garmGroup"},
                    on \cup {"garmUser", "garmGroup"})

HoshinoBase ==
  [namespace       |-> Op({}, {}),
   vm              |-> Op({}, {}),
   docker          |-> Op({"vm"}, {}),
   etcActRunner    |-> Op({"vm"}, {}),
   actRunnerConfig |-> Op({"vm", "etcActRunner"}, {"etcActRunner"}),
   actRunner       |-> Svc({"docker", "actRunnerConfig"}, {}, {"docker"},
                           {"actRunnerConfig"})]

HoshinoGarmDirectories ==
  [incusPackages |-> Op({"vm"}, {}),
   buildPackages |-> Op({"vm"}, {}),
   garmGroup     |-> Op({"vm"}, {}),
   garmUser      |-> Op({"vm", "incusPackages", "garmGroup"},
                        {"incusPackages", "garmGroup"}),
   etcGarm       |-> GarmOwned({}),
   etcGarmProvidersd |-> GarmOwned({"etcGarm"}),
   optGarm       |-> Op({"vm", "garmGroup"}, {"garmGroup"}),
   optGarmBin    |-> Op({"vm", "garmGroup", "optGarm"}, {"garmGroup", "optGarm"}),
   varGarm       |-> GarmOwned({})]

GarmBuild == Op({"buildPackages", "optGarm"}, {"buildPackages", "optGarm"})

ProviderConfig(on) == Op(on \cup {"etcGarmProvidersd"}, {"etcGarmProvidersd"})

HoshinoIncus ==
  [githubAppPrivateKey  |-> GarmOwned({"etcGarm"}),
   incusContainerConfig |-> ProviderConfig({}),
   incusVMConfig        |-> ProviderConfig({}),
   providerIncusInstall |-> GarmBuild]

HoshinoAWS ==
  [awsAccessKey       |-> Op({}, {}),
   awsConfig          |-> ProviderConfig({"awsAccessKey"}),
   providerAWSInstall |-> GarmBuild]

HoshinoK8s ==
  [k8sKubeconfig      |-> ProviderConfig({}),
   k8sConfig          |-> ProviderConfig({"k8sKubeconfig", "namespace"}),
   providerK8sInstall |-> GarmBuild]

HoshinoGarm ==
  [garmConfig |-> Op({"etcGarm", "incusContainerConfig", "incusVMConfig",
                      "awsConfig", "k8sConfig"}, {"etcGarm"}),
   garmInstall |-> GarmBuild,
   garmService |->
     Svc({"garmGroup", "garmUser", "githubAppPrivateKey", "optGarm",
          "optGarmBin", "providerAWSInstall", "varGarm"},
         {"garmConfig", "garmInstall", "providerIncusInstall"},
         {"garmGroup", "garmUser", "varGarm", "githubAppPrivateKey",
          "providerIncusInstall", "providerAWSInstall", "providerK8sInstall"},
         {"garmConfig", "garmInstall"})]

HoshinoIngress ==
  [kubernetesService     |-> Op({"namespace", "vm"}, {"namespace"}),
   ipAllowListMiddleware |-> Op({"namespace"}, {"namespace"}),
   ingressRoute |-> Op({"namespace", "ipAllowListMiddleware", "kubernetesService"},
                       {"namespace"})]

(***************************************************************************)
(* shimiko and ZonePop on one machine.  In production the data directory   *)
(* is restored from the backup before it is created empty.  The resources  *)
(* take the connection of the machine and do not depend on it: they do not *)
(* wait for what its traits install, as the NAS client with the backup.    *)
(***************************************************************************)
ShimikoServer ==
  [vm            |-> Op({}, {}),
   nasClient     |-> Op({"vm"}, {}),
   etcSysconfig  |-> Op({"vm"}, {}),
   restoreBackup |-> Op({"vm"}, {"nasClient"}),
   varShimiko    |-> Op({"vm", "restoreBackup"}, {"restoreBackup"}),
   rsyncBackup   |-> Op({"varShimiko"}, {}),
   shimikoBinary |-> Op({"vm"}, {}),
   shimikoEnv    |-> Op({"etcSysconfig"}, {"etcSysconfig"}),
   shimikoService |-> Svc({}, {"varShimiko", "shimikoBinary", "shimikoEnv"},
                          {"varShimiko"}, {"shimikoBinary", "shimikoEnv"})]

ShimikoZonepop ==
  [etcZonepop    |-> Op({"vm"}, {}),
   zonepopConfig |-> Op({"etcZonepop"}, {"etcZonepop"}),
   zonepopBinary |-> Op({"vm"}, {}),
   zonepopEnv    |-> Op({"etcSysconfig"}, {"etcSysconfig"}),
   zonepopService |-> Svc({}, {"zonepopConfig", "zonepopBinary", "zonepopEnv"}, {},
                          {"zonepopConfig", "zonepopBinary", "zonepopEnv"})]

(***************************************************************************)
(* misc: Caddy, built by its entry point at every start.                   *)
(***************************************************************************)
MiscPackages ==
  [vm                |-> Op({}, {}),
   golangPPA         |-> Op({"vm"}, {}),
   xcaddyDeps        |-> Op({"vm", "golangPPA"}, {"golangPPA"}),
   cloudsmithGPGKey  |-> Once(Op({"xcaddyDeps"}, {})),
   cloudsmithAptRepo |-> Op({"xcaddyDeps"}, {}),
   xcaddyPackage |-> Op({"cloudsmithGPGKey", "cloudsmithAptRepo"},
                        {"cloudsmithGPGKey", "cloudsmithAptRepo"})]

MiscCaddy ==
  [etcSysconfig |-> Op({"vm"}, {}),
   caddyEnv     |-> Op({"etcSysconfig"}, {"etcSysconfig"}),
   etcCaddy     |-> Op({"vm"}, {}),
   caddyfile    |-> Op({"etcCaddy"}, {"etcCaddy"}),
   caddyEntrypoint |-> Op({"etcCaddy"}, {}),
   caddyService |-> Svc({"xcaddyPackage", "caddyEnv", "caddyfile", "caddyEntrypoint"},
                        {}, {"xcaddyPackage"},
                        {"caddyEnv", "caddyfile", "caddyEntrypoint"})]

(***************************************************************************)
(* miyabi and uptime-kuma join the tailnet with resources of their own,    *)
(* not with the Tailscale component.                                       *)
(***************************************************************************)
OwnTailscale(machine, curl) ==
  [tailnetKey        |-> Op({}, {}),
   sysctl            |-> Op({machine}, {}),
   tailscaleRepos    |-> Op({machine}, curl),
   tailscalePackages |-> Op({"sysctl", "tailscaleRepos"}, {"tailscaleRepos"}),
   tailscaled        |-> Op({"tailscalePackages"}, {"tailscalePackages"}),
   tailscaleUp       |-> Op({"tailscalePackages", "tailnetKey"},
                            {"tailscaled", "tailnetKey"})]

Miyabi == [vm |-> Op({}, {})] @@ OwnTailscale("vm", {"vm"})

UptimeKumaBase ==
  [instance  |-> Op({}, {}),
   midTarget |-> Op({"instance"}, {}),
   docker    |-> Op({"midTarget"}, {"vector"})] @@ Baseline

UptimeKumaServices ==
  [tailscalePackages |-> Op({"midTarget", "sysctl", "tailscaleRepos"},
                            {"tailscaleRepos"}),
   tunnel      |-> Op({}, {}),
   cloudflared |-> Svc({"docker"}, {"tunnel"}, {"docker"}, {"tunnel"}),
   container   |-> Op({"docker"}, {"docker"})] @@ OwnTailscale("instance", {"vector"})

(***************************************************************************)
(* playboy: a print server and zigbee2mqtt.  The users are put into the    *)
(* group "lpadmin" that the cups package creates; the repository is cloned *)
(* with the git of nodePackages.                                           *)
(***************************************************************************)
PlayboyCups == [baselineUsers |-> Op({"midTarget"}, {"cupsPackage"})] @@ Baseline @@
  [cupsPackage       |-> Op({"midTarget"}, {}),
   cupsFiltersModule |-> Op({"cupsPackage"}, {}),
   modulesLoad |-> Svc({}, {"cupsFiltersModule"}, {}, {"cupsFiltersModule"}),
   cupsPermissions   |-> Op({"cupsPackage"}, {"cupsPackage"}),
   cupsdConf         |-> Op({"cupsPackage"}, {"cupsPackage"}),
   cups |-> Svc({}, {"cupsdConf"}, {"cupsPackage"}, {"cupsdConf"})]

PlayboyZigbee2mqtt ==
  [nodesourceRepoSet |-> Op({"midTarget"}, {"vector"}),
   nodePackages      |-> Op({"nodesourceRepoSet"}, {"nodesourceRepoSet"}),
   zigbee2mqttUser   |-> Op({"midTarget"}, {}),
   zigbee2mqttRepo   |-> Once(Op({"zigbee2mqttUser"},
                                 {"zigbee2mqttUser", "nodePackages"})),
   corepackEnable    |-> Op({"nodePackages"}, {"nodePackages"}),
   npmInstall |->
     Op({"corepackEnable", "zigbee2mqttRepo", "zigbee2mqttUser", "nodePackages"},
        {"corepackEnable", "zigbee2mqttRepo", "zigbee2mqttUser"}),
   zigbee2mqtt |-> Svc({"npmInstall", "zigbee2mqttUser"}, {}, {"zigbee2mqttUser"},
                       {"npmInstall", "zigbee2mqttRepo"})]

(***************************************************************************)
(* eris: the UPS monitor.  Its three services are refreshed by all files.  *)
(* upsd.users and upsmon.conf are plain template strings: the passwords in *)
(* them are outputs the files neither wait for nor follow.                 *)
(***************************************************************************)
ErisBase == Baseline @@ [nasClient |-> Op({"midTarget"}, {})]

NutFiles == {"nutConf", "upsConf", "upsdConf", "upsdUsers", "notifyScript",
             "upsmonConf"}

ErisNutFiles ==
  [nutPackage     |-> Op({"midTarget"}, {}),
   nutSnmpPackage |-> Op({"midTarget"}, {}),
   userPassword   |-> Op({}, {}),
   nutConf        |-> Op({"nutPackage", "nutSnmpPackage"}, {"nutPackage"}),
   upsConf        |-> Op({"nutPackage"}, {"nutPackage"}),
   upsdConf       |-> Op({"nutPackage"}, {"nutPackage"}),
   upsdUsers      |-> Svc({"nutPackage"}, {}, {"nutPackage"}, {"userPassword"}),
   notifyScript   |-> Op({"nutPackage"}, {}),
   upsmonConf     |-> Svc({"nutPackage", "notifyScript"}, {}, {"nutPackage"},
                          {"userPassword"})]

ErisNutServices ==
  [nutServer  |-> Svc({"nutPackage"}, NutFiles, {"nutPackage"},
                      {"nutConf", "upsdConf", "upsdUsers", "upsConf"}),
   nutMonitor |-> Svc({"nutPackage"}, NutFiles, {"nutPackage"},
                      {"nutConf", "upsmonConf"}),
   nutDriver  |-> Svc({"nutPackage"}, NutFiles, {"nutPackage"}, {"upsConf"})]

(***************************************************************************)
(* The EC2 machines.  bell's configuration belongs to the user "ci" that   *)
(* BaselineUsers creates; sysctl reads 99-wireguard.conf when it runs.     *)
(***************************************************************************)
Ec2Base(afterMidTarget) ==
  [instance |-> Op({}, {})]
  @@ Each(afterMidTarget, Op({"instance", "midTarget"}, {}))
  @@ Each({"midTarget", "baselineUsers", "nodeExporter", "vector", "autoupdate"},
          Op({"instance"}, {}))

AwsIngressBase == Ec2Base({"nodeExporter", "vector"})
  @@ [swap      |-> Op({"instance"}, {}),
      tailscale |-> Op({"instance"}, {"vector"})]

AwsIngressBell ==
  [etcBell     |-> Op({"midTarget"}, {}),
   bellBinary  |-> Op({"midTarget"}, {}),
   portConfig  |-> Op({"etcBell"}, {"etcBell", "baselineUsers"}),
   bellService |-> Svc({}, {"portConfig", "bellBinary"}, {},
                       {"portConfig", "bellBinary"})]

AwsVpnRouterBase == Ec2Base({"nodeExporter", "vector"})
  @@ [swap |-> Op({"instance"}, {})]

AwsVpnRouter ==
  [wireguard    |-> Op({"midTarget"}, {}),
   sysctlConf   |-> Op({"instance"}, {}),
   sysctl       |-> Svc({"sysctlConf"}, {}, {}, {"sysctlConf"}),
   etcWireguard |-> Op({"wireguard"}, {}),
   wg0config    |-> Op({"etcWireguard", "wireguard"}, {"etcWireguard"}),
   wgQuick      |-> Svc({"sysctl", "wireguard"}, {"wg0config"}, {"wireguard"},
                        {"wg0config"})]

OmadaBase == Ec2Base({}) @@ [swap |-> Op({"instance"}, {})]

Omada ==
  [jre17          |-> Op({"midTarget"}, {}),
   jsvc           |-> Op({"jre17"}, {}),
   mongo7RepoSetup |-> Op({"instance"}, {"vector"}),
   mongo7Install  |-> Op({"mongo7RepoSetup", "midTarget"}, {"mongo7RepoSetup"}),
   omada          |-> Op({"jre17", "jsvc", "mongo7Install"},
                         {"jre17", "jsvc", "mongo7Install"})]

UnifiBase == Ec2Base({"baselineUsers", "nodeExporter", "vector", "autoupdate"})

UnifiController ==
  [mongodbSourceList |-> Op({"instance"}, {}),
   mongodbGpgKey     |-> Once(Op({"instance"}, {"vector"})),
   mongodb |-> Op({"midTarget", "mongodbSourceList", "mongodbGpgKey"},
                  {"mongodbSourceList", "mongodbGpgKey"}),
   ubntSourceList    |-> Op({"instance"}, {}),
   ubntGpgKey        |-> Op({"instance"}, {}),
   unifi   |-> Op({"midTarget", "mongodb", "ubntSourceList", "ubntGpgKey"},
                  {"mongodb", "ubntSourceList", "ubntGpgKey"})]

UnifiCertificate ==
  [certbot      |-> Op({"midTarget"}, {}),
   renewalHook  |-> Op({"certbot"}, {"certbot"}),
   certbotSetup |-> Op({"certbot", "renewalHook"}, {"certbot"})]

(***************************************************************************)
(* tohru runs jobs (a service and its timer, both started when applied),   *)
(* ganyu and rockytest are hosts without services of their own.            *)
(***************************************************************************)
TohruBase ==
  [vm       |-> Op({}, {}),
   ciSSHKey |-> Op({"vm"}, {})]
  @@ Each({"motd", "uv", "nas"}, Op({"vm"}, {}))

TohruJobUnordered(script) == Op({"vm"}, script)   \* a wrong variant

TohruJob(script) == Op({"vm"} \cup script, script)

TohruJobs ==
  [photographyRebuild   |-> TohruJob({}),
   playboyBackupScript  |-> Op({"ciSSHKey", "nas", "vm"}, {}),
   playboyBackup        |-> TohruJob({"playboyBackupScript"}),
   uptimeKumaBackupScript |-> Op({"ciSSHKey", "nas", "vm"}, {}),
   uptimeKumaBackup     |-> TohruJob({"uptimeKumaBackupScript"})]

Ganyu ==
  [pbsSourcesList |-> Op({}, {}),
   midTarget      |-> Op({"pbsSourcesList"}, {}),
   nasClient      |-> Op({"midTarget"}, {})] @@ Baseline

Rockytest ==
  [vm |-> Op({}, {})]
  @@ Each({"baselineUsers", "nodeExporter", "epelRelease"}, Op({"vm"}, {}))
  @@ [htop |-> Op({"vm"}, {"epelRelease"})]

Machines ==
  [remRam  |-> RemRamBase @@ RemRamCoreDNS,
   koyuki  |-> KoyukiBase @@ KoyukiMedia @@ KoyukiPlayers @@ KoyukiLogs
               @@ KoyukiMorbius,
   oci     |-> OciBase @@ OciContainers,
   mitsuru |-> MitsuruExporter @@ MitsuruServices @@ MitsuruBackups,
   aqua    |-> AquaBase @@ AquaExporters @@ AquaNetworking @@ AquaBackups
               @@ AquaStorage,
   hoshino |-> HoshinoBase @@ HoshinoGarmDirectories @@ HoshinoIncus @@ HoshinoAWS
               @@ HoshinoK8s @@ HoshinoGarm @@ HoshinoIngress,
   shimiko |-> ShimikoServer @@ ShimikoZonepop,
   misc    |-> MiscPackages @@ MiscCaddy,
   miyabi  |-> Miyabi,
   uptimeKuma   |-> UptimeKumaBase @@ UptimeKumaServices,
   playboy      |-> PlayboyCups @@ PlayboyZigbee2mqtt,
   eris         |-> ErisBase @@ ErisNutFiles @@ ErisNutServices,
   awsIngress   |-> AwsIngressBase @@ AwsIngressBell,
   awsVpnRouter |-> AwsVpnRouterBase @@ AwsVpnRouter,
   omada        |-> OmadaBase @@ Omada,
   unifi        |-> UnifiBase @@ UnifiController @@ UnifiCertificate,
   tohru        |-> TohruBase @@ TohruJobs,
   ganyu        |-> Ganyu,
   rockytest    |-> Rockytest]
===============================================================================
