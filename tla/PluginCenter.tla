---------------------------- MODULE PluginCenter ----------------------------
(***************************************************************************)
(* The plugin centre (plugins/center.go, docker_combined.go,               *)
(* dockercontainers.go, watchdog.go): the captcha engines run as processes *)
(* of this machine or inside one container that holds all of them, and     *)
(* every engine has one fixed port of the host.                            *)
(*                                                                         *)
(* Install and Stop hold the lock of the centre from beginning to end; the *)
(* deployment of the container, the page's container actions, the status   *)
(* polls and the check before a batch do not.  Docker is external: a       *)
(* container whose port is taken does not start, or (in a virtual machine, *)
(* where a forwarder maps the ports) runs without that port.  A protected  *)
(* release always builds its container anew (center.go:769); the other     *)
(* kind is modelled.  Images, payloads, logs and worker counts are left    *)
(* out.                                                                    *)
(***************************************************************************)
EXTENDS Naturals, FiniteSets

CONSTANTS
  PlugIds,       \* the engines
  PlugOld,       \* engines with a container of their own, of an older release
  Box,           \* the container of all of them
  LooseStart,    \* a container may run without a port that is taken
  PlugOps,       \* bound: operations of the user
  PlugOutages    \* bound: outages of Docker

ASSUME PlugAssumption ==
  /\ PlugOld \subseteq PlugIds
  /\ Box \notin PlugIds /\ LooseStart \in BOOLEAN
  /\ PlugOps \in Nat /\ PlugOutages \in Nat

Containers == PlugOld \cup {Box}
NoCall == [what |-> "none"]

VARIABLES
  plugMode,     \* states: "local" or "docker"; not persisted
  plugPort,     \* who serves the port of each engine
  plugBox,      \* each container; Docker brings back those that are "down"
  plugCurrent,  \* the common one is of the current bootstrap version
  plugDaemon,   \* Docker answers
  plugCall,     \* the call that holds the lock
  plugAuto,     \* engines the start of the program has yet to look at
  plugReady,    \* EnsureCaptchaReady
  plugWatch,    \* restartEngine
  plugDeploy,   \* where the deployment task is, or how it has ended
  plugExcused,  \* the container it found would not start, or could not be seen
  plugOps, plugOutages

plugHost   == <<plugPort, plugBox, plugCurrent>>
plugAgents == <<plugAuto, plugReady, plugWatch>>
plugJob    == <<plugDeploy, plugExcused>>
plugBounds == <<plugOps, plugOutages>>
plugVars   == <<plugMode, plugHost, plugDaemon, plugCall, plugAgents, plugJob,
                plugBounds>>

PlugInit ==
  /\ plugMode = [i \in PlugIds |-> "local"]
  /\ plugPort = [i \in PlugIds |-> "free"]
  /\ plugBox \in [Containers -> {"none", "stopped"}]
  /\ plugCurrent \in IF plugBox[Box] = "none" THEN {FALSE} ELSE BOOLEAN
  /\ plugDaemon \in BOOLEAN
  /\ plugCall = NoCall /\ plugAuto = PlugIds
  /\ plugReady = NoCall /\ plugWatch = NoCall
  /\ plugDeploy = "idle" /\ plugExcused = FALSE
  /\ plugOps = 0 /\ plugOutages = 0

-----------------------------------------------------------------------------
(* The host and Docker                                                     *)

Exists(c) == c \in Containers /\ plugBox[c] # "none"
Wants(c)  == IF c = Box THEN PlugIds ELSE {c}

\* killPortOwner: what listens there, unless it is Docker's.
Killed(port, ids) == [i \in PlugIds |->
                        IF i \in ids /\ port[i] = "local" THEN "free" ELSE port[i]]
Without(port, c)  == [i \in PlugIds |-> IF port[i] = c THEN "free" ELSE port[i]]
Halted(c) == [plugBox EXCEPT ![c] = "stopped"]

\* docker start, with the ports as they are given: a running container stays.
StartPort(c, port) ==
  [i \in PlugIds |-> IF i \in Wants(c) /\ port[i] = "free" THEN c ELSE port[i]]
MayStart(c, port) ==
  plugDaemon /\ (LooseStart \/ \A i \in Wants(c) : port[i] \in {"free", c})
MayRefuse(c, port) ==
  ~plugDaemon \/ \E i \in Wants(c) : port[i] \notin {"free", c}

\* Both outcomes of a start of c, the ports being port before it.
StartsWith(c, port) ==
  /\ MayStart(c, port)
  /\ plugBox' = [plugBox EXCEPT ![c] = "running"]
  /\ plugPort' = IF plugBox[c] = "running" THEN port ELSE StartPort(c, port)
RefusesWith(c, port) ==
  /\ plugBox[c] # "running" /\ MayRefuse(c, port)
  /\ plugPort' = port
  /\ plugBox' = IF plugDaemon THEN [plugBox EXCEPT ![c] = "stopped"] ELSE plugBox

\* dockerRunningCaptcha: the common container or its own.
Runs(i) == \E c \in Containers \cap {Box, i} : plugBox[c] = "running"

\* effectiveMode: an engine of a running container is in docker mode.
SeenMode(i) ==
  IF plugDaemon /\ Runs(i) THEN "docker" ELSE plugMode[i]
Seen(i) == [plugMode EXCEPT ![i] = SeenMode(i)]

\* Status: something answers and, in docker mode, a container runs; whether the
\* engine behind it is ready is not known here.
CanBeHealthy(i) ==
  /\ plugPort[i] # "free"
  /\ SeenMode(i) = "docker" => plugDaemon /\ Runs(i)

PlugPoll(i) ==
  /\ plugMode' = Seen(i)
  /\ UNCHANGED <<plugHost, plugDaemon, plugCall, plugAgents, plugJob, plugBounds>>

\* Docker stops with all it runs: a crash, the end of its virtual machine, or
\* the resizing of it (ApplyDockerVMSpecs).
DockerDown ==
  /\ plugDaemon /\ plugOutages < PlugOutages
  /\ plugOutages' = plugOutages + 1
  /\ plugDaemon' = FALSE
  /\ \E sticky \in SUBSET {c \in Containers : plugBox[c] = "running"} :
       plugBox' = [c \in Containers |-> IF c \in sticky THEN "down"
                                        ELSE IF Exists(c) THEN "stopped" ELSE "none"]
  /\ plugPort' = [i \in PlugIds |-> IF plugPort[i] \in Containers THEN "free"
                                    ELSE plugPort[i]]
  /\ UNCHANGED <<plugMode, plugCurrent, plugCall, plugAgents, plugJob, plugOps>>

\* It is started by hand, by runDockerInstall or by StartDockerVM.
DockerUp ==
  /\ ~plugDaemon /\ plugDaemon' = TRUE
  /\ UNCHANGED <<plugMode, plugHost, plugCall, plugAgents, plugJob, plugBounds>>

\* Restart policy unless-stopped.
DockerRestarts(c) ==
  /\ plugDaemon /\ plugBox[c] = "down"
  /\ StartsWith(c, plugPort) \/ RefusesWith(c, plugPort)
  /\ UNCHANGED <<plugMode, plugCurrent, plugDaemon, plugCall, plugAgents, plugJob,
                 plugBounds>>

-----------------------------------------------------------------------------
(* Install and Stop, under the lock                                        *)

\* The call returns to whoever made it; its last act is Status.
PlugReturns ==
  /\ plugCall' = NoCall
  /\ plugMode' = Seen(plugCall.id)
  /\ plugWatch' = IF plugCall.by = "watch" THEN NoCall ELSE plugWatch
  /\ plugReady' = IF plugCall.by = "ready" THEN NoCall ELSE plugReady
  /\ UNCHANGED plugAuto

\* installLocal: the container gives way, and the engine's old process.
LocalBegin ==
  /\ plugCall.what = "local" /\ plugCall.at = "begin"
  /\ LET i == plugCall.id
         halts == plugDaemon /\ Exists(Box)
     IN /\ plugBox' = IF halts THEN Halted(Box) ELSE plugBox
        /\ plugPort' = Killed(IF halts THEN Without(plugPort, Box) ELSE plugPort, {i})
        /\ plugMode' = [plugMode EXCEPT ![i] = "local"]
  /\ plugCall' = [plugCall EXCEPT !.at = "start"]
  /\ UNCHANGED <<plugCurrent, plugDaemon, plugAgents, plugJob, plugBounds>>

\* The process is started, or cannot be made ready to start; it exits by itself
\* when its port is taken.
LocalStart ==
  /\ plugCall.what = "local" /\ plugCall.at = "start"
  /\ \/ /\ LET left == Killed(plugPort, {plugCall.id})
           IN plugPort' = [left EXCEPT ![plugCall.id] =
                             IF @ = "free" THEN "local" ELSE @]
        /\ plugCall' = [plugCall EXCEPT !.at = "health"]
        /\ UNCHANGED <<plugMode, plugAgents>>
     \/ PlugReturns /\ UNCHANGED plugPort
  /\ UNCHANGED <<plugBox, plugCurrent, plugDaemon, plugJob,
                 plugBounds>>

LocalEnd ==
  /\ plugCall.what = "local" /\ plugCall.at = "health"
  /\ PlugReturns
  /\ UNCHANGED <<plugHost, plugDaemon, plugJob, plugBounds>>

\* installDockerMode: the container is used if there is one, never made.
DockerMode ==
  /\ plugCall.what = "docker"
  /\ LET i == plugCall.id
         freed == Killed(plugPort, PlugIds)
     IN /\ IF plugDaemon /\ Exists(Box)
           THEN StartsWith(Box, freed) \/ RefusesWith(Box, freed)
           ELSE UNCHANGED <<plugPort, plugBox>>
        /\ plugMode' = [plugMode EXCEPT ![i] =
             IF plugDaemon /\ (Exists(Box) \/ Exists(i)) THEN "docker" ELSE SeenMode(i)]
        /\ plugCall' = NoCall
        /\ plugWatch' = IF plugCall.by = "watch" THEN NoCall ELSE plugWatch
  /\ UNCHANGED <<plugCurrent, plugDaemon, plugAuto, plugReady, plugJob,
                 plugBounds>>

\* Stop: in docker mode the container of all, which is kept; otherwise the
\* engine's own container is removed.
StopEngine ==
  /\ plugCall.what = "stop"
  /\ LET i == plugCall.id
         freed == Killed(plugPort, {i})
         shared == plugMode[i] = "docker" /\ plugDaemon /\ Exists(Box)
     IN IF shared
        THEN plugBox' = Halted(Box) /\ plugPort' = Without(freed, Box)
        ELSE IF plugDaemon /\ i \in PlugOld
        THEN plugBox' = [plugBox EXCEPT ![i] = "none"] /\ plugPort' = Without(freed, i)
        ELSE plugPort' = freed /\ UNCHANGED plugBox
  /\ plugCall' = NoCall
  /\ plugWatch' = IF plugCall.by = "watch" THEN [plugWatch EXCEPT !.what = "install"]
                  ELSE plugWatch
  /\ UNCHANGED <<plugMode, plugCurrent, plugDaemon, plugAuto, plugReady, plugJob,
                 plugBounds>>

PlugStarts(by, what, i) ==
  /\ plugCall = NoCall
  /\ plugCall' = [what |-> what, id |-> i, by |-> by, at |-> "begin"]

PlugUser(what, i) ==
  /\ plugOps < PlugOps /\ plugOps' = plugOps + 1
  /\ PlugStarts("user", what, i)
  /\ UNCHANGED <<plugMode, plugHost, plugDaemon, plugAgents, plugJob, plugOutages>>

-----------------------------------------------------------------------------
(* Those who call them                                                     *)

\* AutoStartLocalBundled: nothing is started beside a container.
AutoLook ==
  /\ plugDaemon /\ plugAuto = PlugIds /\ \E c \in Containers : Exists(c)
  /\ plugAuto' = {}
  /\ UNCHANGED <<plugMode, plugHost, plugDaemon, plugCall, plugReady, plugWatch,
                 plugJob, plugBounds>>

AutoStart(i) ==
  /\ i \in plugAuto
  /\ plugAuto = PlugIds => (~plugDaemon \/ \A c \in Containers : ~Exists(c))
  /\ plugAuto' = plugAuto \ {i}
  /\ \/ PlugStarts("auto", "local", i)
     \/ CanBeHealthy(i) /\ UNCHANGED plugCall
  /\ UNCHANGED <<plugMode, plugHost, plugDaemon, plugReady, plugWatch, plugJob,
                 plugBounds>>

\* EnsureCaptchaReady, before a batch: a stopped container is started, and what
\* does not become healthy falls back to the local mode.
ReadyBegin(i) ==
  /\ plugReady = NoCall /\ plugOps < PlugOps
  /\ plugOps' = plugOps + 1
  /\ plugMode' = Seen(i)
  /\ plugReady' = [what |-> IF SeenMode(i) = "docker" THEN "start" ELSE "local", id |-> i]
  /\ UNCHANGED <<plugHost, plugDaemon, plugCall, plugAuto, plugWatch, plugJob,
                 plugOutages>>

ReadyStart ==
  /\ plugReady.what = "start"
  /\ LET name == IF plugDaemon /\ Exists(Box) THEN Box ELSE plugReady.id
     IN /\ \/ /\ plugDaemon /\ Exists(name) /\ StartsWith(name, plugPort)
              /\ plugReady' \in {NoCall, [plugReady EXCEPT !.what = "local"]}
           \/ /\ IF Exists(name) THEN RefusesWith(name, plugPort)
                 ELSE UNCHANGED <<plugPort, plugBox>>
              /\ plugReady' = [plugReady EXCEPT !.what = "local"]
        /\ plugMode' = [plugMode EXCEPT ![plugReady.id] = "docker"]
  /\ UNCHANGED <<plugCurrent, plugDaemon, plugCall, plugAuto, plugWatch,
                 plugJob, plugBounds>>

ReadyLocal ==
  /\ plugReady.what = "local"
  /\ PlugStarts("ready", "local", plugReady.id)
  /\ plugReady' = [plugReady EXCEPT !.what = "wait"]
  /\ UNCHANGED <<plugMode, plugHost, plugDaemon, plugAuto, plugWatch, plugJob,
                 plugBounds>>

\* The watchdog finds an engine that answers but solves nothing, and restarts it
\* in the mode it has.
WatchBegin(i) ==
  /\ plugWatch = NoCall /\ plugOps < PlugOps
  /\ plugOps' = plugOps + 1
  /\ plugPort[i] # "free"
  /\ plugMode' = Seen(i)
  /\ plugWatch' = [what |-> "stop", id |-> i, mode |-> SeenMode(i)]
  /\ UNCHANGED <<plugHost, plugDaemon, plugCall, plugAuto, plugReady, plugJob,
                 plugOutages>>

WatchCall ==
  /\ plugWatch.what \in {"stop", "install"}
  /\ PlugStarts("watch", IF plugWatch.what = "stop" THEN "stop" ELSE plugWatch.mode,
          plugWatch.id)
  /\ plugWatch' = [plugWatch EXCEPT !.what = "wait"]
  /\ UNCHANGED <<plugMode, plugHost, plugDaemon, plugAuto, plugReady, plugJob,
                 plugBounds>>

-----------------------------------------------------------------------------
(* The page's container actions, without the lock                          *)

\* Only the single containers take the mode of their engine with them.
Forgets(c) == IF c \in PlugIds THEN [plugMode EXCEPT ![c] = "local"] ELSE plugMode

PlugContainer(c) ==
  /\ plugDaemon /\ Exists(c) /\ plugOps < PlugOps
  /\ plugOps' = plugOps + 1
  /\ \/ /\ StartsWith(c, plugPort) \/ RefusesWith(c, plugPort)
        /\ UNCHANGED <<plugMode, plugCurrent>>
     \/ /\ plugBox' = Halted(c) /\ plugPort' = Without(plugPort, c)
        /\ plugMode' = Forgets(c) /\ UNCHANGED plugCurrent
     \/ /\ plugBox' = [plugBox EXCEPT ![c] = "none"]
        /\ plugPort' = Without(plugPort, c) /\ plugMode' = Forgets(c)
        /\ plugCurrent' = (plugCurrent /\ c # Box)
  /\ UNCHANGED <<plugDaemon, plugCall, plugAgents, plugJob, plugOutages>>

\* UninstallDocker: containers go first, and Docker may stay.
PlugUninstall ==
  /\ plugDaemon /\ plugOps < PlugOps
  /\ plugOps' = plugOps + 1
  /\ plugBox' = [c \in Containers |-> "none"]
  /\ plugPort' = [i \in PlugIds |-> IF plugPort[i] \in Containers THEN "free"
                                    ELSE plugPort[i]]
  /\ plugCurrent' = FALSE
  /\ plugDaemon' \in BOOLEAN
  /\ UNCHANGED <<plugMode, plugCall, plugAgents, plugJob, plugOutages>>

-----------------------------------------------------------------------------
(* DeployAllCaptchaDockerAsync and its task                                *)

Deploying == plugDeploy \notin {"idle", "ready", "failed"}

DeployBegin ==
  /\ ~Deploying /\ plugDaemon /\ plugOps < PlugOps
  /\ plugOps' = plugOps + 1
  /\ plugDeploy' = "probe" /\ plugExcused' = FALSE
  /\ UNCHANGED <<plugMode, plugHost, plugDaemon, plugCall, plugAgents, plugOutages>>

DeployProbe ==
  /\ plugDeploy = "probe"
  /\ plugDeploy' = IF plugDaemon THEN "inspect" ELSE "failed"
  /\ UNCHANGED <<plugMode, plugHost, plugDaemon, plugCall, plugAgents, plugExcused,
                 plugBounds>>

\* Variants of definitions of the model, each with a plausible slip, are named
\* after them; the model uses none of them.
\* Here no answer counts as no container.
DeployInspectBlind ==
  /\ plugDeploy = "inspect"
  /\ plugDeploy' = IF ~(plugDaemon /\ plugCurrent) THEN "clear"
                   ELSE IF plugBox[Box] = "running" THEN "reuse" ELSE "revive"
  /\ UNCHANGED <<plugMode, plugHost, plugDaemon, plugCall, plugAgents, plugExcused,
                 plugBounds>>

\* containerState: a container of the current version is used again.
DeployInspect ==
  /\ plugDeploy = "inspect"
  /\ plugDeploy' = IF ~plugDaemon THEN "ask" ELSE IF ~plugCurrent THEN "clear"
                   ELSE IF plugBox[Box] = "running" THEN "reuse" ELSE "revive"
  /\ UNCHANGED <<plugMode, plugHost, plugDaemon, plugCall, plugAgents, plugExcused,
                 plugBounds>>

\* classifyInspect: no answer means that there is no container only if Docker
\* answers now.
DeployAsk ==
  /\ plugDeploy = "ask"
  /\ plugDeploy' = IF plugDaemon THEN "clear" ELSE "failed"
  /\ plugExcused' = plugDaemon
  /\ UNCHANGED <<plugMode, plugHost, plugDaemon, plugCall, plugAgents, plugBounds>>

AllDocker == [i \in PlugIds |-> "docker"]

\* It runs already, or is started, and replaced when it does not start.
DeployReuse ==
  /\ \/ /\ \/ plugDeploy = "reuse" /\ UNCHANGED <<plugBox, plugPort>>
           \/ plugDeploy = "revive" /\ Exists(Box) /\ StartsWith(Box, plugPort)
        /\ plugMode' = AllDocker
        /\ plugDeploy' = "await" /\ UNCHANGED plugExcused
     \/ /\ plugDeploy = "revive"
        /\ IF Exists(Box) THEN RefusesWith(Box, plugPort)
           ELSE UNCHANGED <<plugBox, plugPort>>
        /\ plugExcused' = TRUE /\ plugDeploy' = "clear"
        /\ UNCHANGED plugMode
  /\ UNCHANGED <<plugCurrent, plugDaemon, plugCall, plugAgents, plugBounds>>

\* The single containers and the local processes make room.
DeployClear ==
  /\ plugDeploy = "clear"
  /\ plugDeploy' = "pull"
  /\ LET gone == IF plugDaemon THEN PlugOld ELSE {}
     IN /\ plugBox' = [c \in Containers |-> IF c \in gone THEN "none" ELSE plugBox[c]]
        /\ plugPort' = [i \in PlugIds |-> IF plugPort[i] \in {"local"} \cup gone
                                          THEN "free" ELSE plugPort[i]]
  /\ UNCHANGED <<plugMode, plugCurrent, plugDaemon, plugCall, plugAgents, plugExcused,
                 plugBounds>>

\* The image; then the ports are cleared once more.
DeployPull ==
  /\ plugDeploy = "pull"
  /\ \/ plugDeploy' = "failed" /\ UNCHANGED plugPort
     \/ plugDeploy' = "create" /\ plugPort' = Killed(plugPort, PlugIds)
  /\ UNCHANGED <<plugMode, plugBox, plugCurrent, plugDaemon, plugCall, plugAgents,
                 plugExcused, plugBounds>>

\* createCombinedContainer, up to the start: rm -f, create, cp.
DeployCreate ==
  /\ plugDeploy = "create"
  /\ IF plugDaemon
     THEN /\ plugPort' = Without(plugPort, Box)
          /\ plugCurrent' \in BOOLEAN
          /\ plugBox' = [plugBox EXCEPT ![Box] = IF plugCurrent' THEN "stopped" ELSE "none"]
          /\ plugDeploy' = IF plugCurrent' THEN "start" ELSE "failed"
     ELSE plugDeploy' = "failed" /\ UNCHANGED plugHost
  /\ UNCHANGED <<plugMode, plugDaemon, plugCall, plugAgents, plugExcused, plugBounds>>

DeployStart ==
  /\ plugDeploy = "start"
  /\ \/ /\ Exists(Box) /\ StartsWith(Box, plugPort)
        /\ plugMode' = AllDocker /\ plugDeploy' = "await"
     \/ /\ IF Exists(Box) THEN RefusesWith(Box, plugPort)
           ELSE UNCHANGED <<plugPort, plugBox>>
        /\ plugDeploy' = "failed" /\ UNCHANGED plugMode
  /\ UNCHANGED <<plugCurrent, plugDaemon, plugCall, plugAgents, plugExcused,
                 plugBounds>>

\* repairPortForwards, once: a restart of the container.
DeployRepair ==
  /\ plugDeploy = "await" /\ plugDeploy' = "await again"
  /\ plugDaemon /\ plugBox[Box] = "running"
  /\ \E i \in PlugIds : plugPort[i] # Box
  /\ plugPort' = StartPort(Box, Without(plugPort, Box))
  /\ UNCHANGED <<plugMode, plugBox, plugCurrent, plugDaemon, plugCall, plugAgents,
                 plugExcused, plugBounds>>

\* awaitAllCaptchaHealthy: every engine answers, or the time is over.
DeployEnd ==
  /\ plugDeploy \in {"await", "await again"}
  /\ plugDeploy' \in {"failed"} \cup
       (IF \A i \in PlugIds : CanBeHealthy(i) THEN {"ready"} ELSE {})
  /\ plugMode' = [i \in PlugIds |-> SeenMode(i)]
  /\ UNCHANGED <<plugHost, plugDaemon, plugCall, plugAgents, plugExcused, plugBounds>>

PlugNext ==
  \/ DockerDown \/ DockerUp \/ \E c \in Containers : DockerRestarts(c) \/ PlugContainer(c)
  \/ LocalBegin \/ LocalStart \/ LocalEnd \/ DockerMode \/ StopEngine
  \/ AutoLook \/ ReadyStart \/ ReadyLocal \/ WatchCall
  \/ \E i \in PlugIds :
       \/ PlugPoll(i) \/ AutoStart(i) \/ ReadyBegin(i) \/ WatchBegin(i)
       \/ \E what \in {"local", "docker", "stop"} : PlugUser(what, i)
  \/ PlugUninstall \/ DeployBegin \/ DeployProbe \/ DeployInspect \/ DeployAsk \/ DeployReuse
  \/ DeployClear
  \/ DeployPull \/ DeployCreate \/ DeployStart \/ DeployRepair \/ DeployEnd

PlugSpec == PlugInit /\ [][PlugNext]_plugVars

-----------------------------------------------------------------------------
(* Properties                                                              *)

PlugTypeOK ==
  /\ plugMode \in [PlugIds -> {"local", "docker"}]
  /\ plugPort \in [PlugIds -> {"free", "local"} \cup Containers]
  /\ plugBox \in [Containers -> {"none", "stopped", "down", "running"}]
  /\ plugCurrent \in BOOLEAN
  /\ plugCurrent => Exists(Box)
  /\ plugDaemon \in BOOLEAN /\ plugAuto \subseteq PlugIds
  /\ plugDeploy \in {"idle", "probe", "inspect", "ask", "reuse", "revive",
                     "clear", "pull", "create", "start", "await", "await again", "ready", "failed"}
  /\ plugExcused \in BOOLEAN
  /\ plugOps \in 0..PlugOps /\ plugOutages \in 0..PlugOutages

\* A deployment never removes a container of the current version that would have
\* started, whatever Docker does meanwhile: only the user removes that one.  The
\* one exception is an outage that ends between the inspection and the question
\* whether Docker answers (docker_payload.go:121-142).
GoodBoxKept ==
  [][(plugCurrent /\ plugBox'[Box] = "none")
       => (plugOps' # plugOps \/ plugExcused)]_plugVars

\* "A local process keeps the ports and docker-proxy cannot bind: the container
\* runs, and registrations go through the local engine while the page says
\* docker" (docker_combined.go): a deployment that reports every engine ready is
\* served by the container.
DeployServes ==
  [][(plugDeploy' = "ready" /\ plugDeploy # "ready")
       => \A i \in PlugIds : plugPort[i] = Box]_plugVars
=============================================================================
