--------------------------- MODULE GatewayService ---------------------------
(***************************************************************************)
(* The lifecycle of the gateway's listener (gateway/service.go): Start at  *)
(* boot, Stop, and ApplyConfig, called by concurrent PUT /gateway/config   *)
(* requests.  ApplyConfig holds GatewayService.mu while it saves, and lets *)
(* it go before it calls Stop and Start, which take it again: each of the  *)
(* three is one action, and other callers run in between.                  *)
(***************************************************************************)
EXTENDS Naturals

CONSTANTS
  Callers,      \* PUT /gateway/config handlers
  Ports, DefaultPort,
  Hosts, DefaultHost,
  Down,         \* no listener
  Bad,          \* a port out of range, an address SetConfig does not allow
  PortsTaken    \* ports another program may hold

ASSUME ServiceAssumption ==
  /\ DefaultPort \in Ports /\ DefaultHost \in Hosts
  /\ Bad \notin Ports \cup Hosts
  /\ PortsTaken \subseteq Ports

Listeners == [port: Ports, host: Hosts]
Configs   == [enabled: BOOLEAN, port: Ports, host: Hosts]

ASSUME DownAssumption == Down \notin Listeners

\* What a client may send.
Bodies == [enabled: BOOLEAN, port: Ports \cup {Bad}, host: Hosts \cup {Bad}]

DefaultSettings == [enabled |-> TRUE, port |-> DefaultPort, host |-> DefaultHost]

VARIABLES
  stored,    \* gateway_config, in settings.json and in memory
  shown,     \* GatewayService.config, what Status shows
  srv,       \* GatewayService.srv with its listener, or Down
  booted,    \* main has called Start; the admin server answers
  applying   \* the place of each caller in ApplyConfig

serviceVars == <<stored, shown, srv, booted, applying>>

ServiceInit ==
  /\ stored = DefaultSettings /\ shown = DefaultSettings
  /\ srv = Down
  /\ booted = FALSE
  /\ applying = [u \in Callers |-> "idle"]

-----------------------------------------------------------------------------
\* A variant of a definition below, the trace of a plausible slip; the
\* model does not use it.
UnchangedIfRunning(c) == srv # Down

\* SetConfig refuses anything else.
Valid(c) == c.port # Bad /\ c.host # Bad

\* ApplyConfig: "配置未变，无需重启" - only the port is compared.
Unchanged(c) == srv # Down /\ c.port = srv.port

\* startLocked: nothing when it runs already; the port may be taken.
Listen(c) ==
  srv' \in IF srv # Down \/ ~ c.enabled THEN {srv}
           ELSE {[port |-> c.port, host |-> c.host]}
                \cup (IF c.port \in PortsTaken THEN {Down} ELSE {})

\* Stop, under the mutex.
StopServer == srv' = Down

\* Start, under the mutex: the stored configuration is read again.  The
\* defaults are there (ServiceInit), so EnsureDefaults has nothing to write.
StartServer == shown' = stored /\ Listen(stored)

-----------------------------------------------------------------------------

Boot ==
  /\ ~ booted
  /\ StartServer
  /\ booted' = TRUE
  /\ UNCHANGED <<stored, applying>>

\* ApplyConfig's first critical section; the file is written.
Save(u) ==
  /\ booted /\ applying[u] = "idle"
  /\ \E c \in Bodies :
       /\ Valid(c)
       /\ stored' = c /\ shown' = c
       /\ applying' = [applying EXCEPT ![u] = IF ~ c.enabled THEN "disable"
                                 ELSE IF Unchanged(c) THEN "idle" ELSE "stop"]
  /\ UNCHANGED <<srv, booted>>

Stop(u) ==
  /\ applying[u] \in {"disable", "stop"}
  /\ StopServer
  /\ applying' = [applying EXCEPT ![u] = IF @ = "stop" THEN "start" ELSE "idle"]
  /\ UNCHANGED <<stored, shown, booted>>

Start(u) ==
  /\ applying[u] = "start"
  /\ StartServer
  /\ applying' = [applying EXCEPT ![u] = "idle"]
  /\ UNCHANGED <<stored, booted>>

\* The application exits or dies, and comes back with the file.
Exit ==
  /\ shown' = DefaultSettings
  /\ srv' = Down
  /\ booted' = FALSE
  /\ applying' = [u \in Callers |-> "idle"]
  /\ UNCHANGED stored

ServiceNext ==
  \/ Boot \/ Exit
  \/ \E u \in Callers : Save(u) \/ Stop(u) \/ Start(u)

ServiceSpec == ServiceInit /\ [][ServiceNext]_serviceVars

-----------------------------------------------------------------------------
(* Properties                                                              *)

ServiceTypeOK ==
  /\ stored \in Configs /\ shown \in Configs
  /\ srv \in Listeners \cup {Down}
  /\ booted \in BOOLEAN
  /\ applying \in [Callers -> {"idle", "disable", "stop", "start"}]

Settled == booted /\ \A u \in Callers : applying[u] = "idle"

\* ApplyConfig: "停用→停止；端口变化→重启" - however concurrent applies
\* interleave, and whichever ports are taken, once they have returned a listener stands
\* only when the shown configuration is enabled, and on its port.
RunsAsConfigured ==
  Settled /\ srv # Down => shown.enabled /\ srv.port = shown.port

\* A listener that stands is one some apply still has to stop, or is as shown.
StaleIsDoomed ==
  srv # Down /\ (~ shown.enabled \/ srv.port # shown.port)
    => \E u \in Callers : applying[u] \in {"disable", "stop"}

\* ApplyConfig: "启用→启动" - once every apply has returned, an enabled gateway
\* listens.
EnabledListens == Settled /\ shown.enabled => srv # Down
=============================================================================
