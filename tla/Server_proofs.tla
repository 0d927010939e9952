--------------------------- MODULE Server_proofs ----------------------------
(***************************************************************************)
(* Theorems about GatewayStore, for any number of services, groups, keys   *)
(* and requests; about GatewayService, for any number of callers and       *)
(* ports; about PluginCenter, for any engines, containers of older         *)
(* releases and numbers of operations and outages; and about WarpPool, for *)
(* any ports, requests and numbers of operations and outages.              *)
(***************************************************************************)
EXTENDS GatewayStore, GatewayService, PluginCenter, WarpPool, TLAPS

(***************************************************************************)
(* Type correctness                                                        *)
(***************************************************************************)

\* TypeOK is inductive: no operation of the store, and no crash in the middle
\* of a start, leaves a record of the wrong shape.
THEOREM TypeCorrect == Spec => []TypeOK
<1>1. Init => TypeOK
  BY StoreAssumption DEF Init, TypeOK
<1>2. TypeOK /\ [Next]_vars => TypeOK'
  <2> SUFFICES ASSUME TypeOK, [Next]_vars PROVE TypeOK'
    OBVIOUS
  <2> USE StoreAssumption DEF TypeOK, recordVars, requestVars
  <2>1. CASE EnsureDefaults
    <3>1. CASE DefaultServices
      BY <3>1 DEF DefaultServices
    <3>2. CASE DefaultGroups
      BY <3>2 DEF DefaultGroups
    <3>3. CASE DefaultConfig
      BY <3>3 DEF DefaultConfig
    <3>4. CASE DefaultKey
      BY <3>4 DEF DefaultKey
    <3>5. QED
      BY <2>1, <3>1, <3>2, <3>3, <3>4 DEF EnsureDefaults
  <2>2. CASE Crash
    BY <2>2 DEF Crash
  <2>3. ASSUME NEW s \in Services, AdminService(s) PROVE TypeOK'
    BY <2>3 DEF AdminService, CreateService, UpdateService, DeleteService, Up
  <2>4. ASSUME NEW g \in Groups, AdminGroup(g) PROVE TypeOK'
    <3>1. CASE CreateGroup(g)
      <4>1. PICK s \in (Listed(services) \cap Services) \cup {Empty} :
              serviceID' = [serviceID EXCEPT ![g] = ServiceOf(s)]
        BY <3>1 DEF CreateGroup
      <4>2. ServiceOf(s) \in Services
        BY DEF ServiceOf
      <4>3. QED
        BY <3>1, <4>1, <4>2 DEF CreateGroup, Up
    <3>2. CASE UpdateGroup(g)
      <4>1. PICK s \in (Listed(services) \cap Services) \cup {Empty, serviceID[g]} :
              serviceID' = [serviceID EXCEPT ![g] = s]
        BY <3>2 DEF UpdateGroup
      <4>2. s \in Services \cup {Empty}
        OBVIOUS
      <4>3. QED
        BY <3>2, <4>1, <4>2 DEF UpdateGroup, Up
    <3>3. CASE DeleteGroup(g)
      BY <3>3 DEF DeleteGroup, Up
    <3>4. QED
      BY <2>4, <3>1, <3>2, <3>3 DEF AdminGroup
  <2>5. ASSUME NEW k \in Keys, AdminKey(k) PROVE TypeOK'
    <3>1. CASE CreateKey(k)
      <4>1. PICK h \in (Listed(groups) \cap Groups) \cup {Empty, AllAccounts} :
              keyGroup' = [keyGroup EXCEPT ![k] = h]
        BY <3>1 DEF CreateKey
      <4>2. h \in Groups \cup {Empty, AllAccounts}
        OBVIOUS
      <4>3. QED
        BY <3>1, <4>1, <4>2 DEF CreateKey, Up
    <3>2. CASE SetKeyStatus(k)
      BY <3>2 DEF SetKeyStatus, Up
    <3>3. CASE DeleteKey(k)
      BY <3>3 DEF DeleteKey, Up
    <3>4. QED
      BY <2>5, <3>1, <3>2, <3>3 DEF AdminKey
  <2>6. ASSUME NEW r \in Requests, NEW k \in Keys, Auth(r, k) PROVE TypeOK'
    BY <2>6 DEF Auth, Up, Internal
  <2>7. ASSUME NEW r \in Requests, Request(r) PROVE TypeOK'
    BY <2>7 DEF Request, LookUpGroup, LookUpService, Answer, Up, GroupOf, ServiceOf
  <2>8. CASE UNCHANGED vars
    BY <2>8 DEF vars
  <2>9. QED
    BY <2>1, <2>2, <2>3, <2>4, <2>5, <2>6, <2>7, <2>8 DEF Next
<1>3. QED
  BY <1>1, <1>2, PTL DEF Spec

(***************************************************************************)
(* The internal key                                                        *)
(***************************************************************************)

\* However often the start is repeated after a crash, and whatever keys the
\* administration makes, a second internal key is never made (EnsureDefaults).
THEOREM OneKeyIsInternal == Spec => []OneInternalKey
<1>1. Init => OneInternalKey
  BY DEF Init, OneInternalKey
<1>2. TypeOK /\ OneInternalKey /\ [Next]_vars => OneInternalKey'
  <2> SUFFICES ASSUME TypeOK, OneInternalKey, [Next]_vars PROVE OneInternalKey'
    OBVIOUS
  <2>1. CASE DefaultKey
    <3>1. CASE UNCHANGED <<keys, keyGroup>>
      BY <3>1 DEF OneInternalKey, Internal
    <3>2. ASSUME NEW k \in Keys, keys' = keys \cup {k}, ~ \E j \in keys : Internal(j),
                 keyGroup' = [keyGroup EXCEPT ![k] = AllAccounts], k \notin keys
          PROVE  OneInternalKey'
      <4>1. \A j \in keys : keyGroup'[j] = keyGroup[j]
        BY <3>2 DEF TypeOK
      <4>2. QED
        BY <3>2, <4>1 DEF OneInternalKey, Internal
    <3>3. QED
      BY <2>1, <3>1, <3>2 DEF DefaultKey
  <2>2. ASSUME NEW k \in Keys, CreateKey(k) PROVE OneInternalKey'
    <3>1. PICK g \in (Listed(groups) \cap Groups) \cup {Empty, AllAccounts} :
            GroupOf(g) \in groups /\ keyGroup' = [keyGroup EXCEPT ![k] = g]
      BY <2>2 DEF CreateKey
    <3>2. g # AllAccounts
      BY <3>1, StoreAssumption DEF GroupOf, TypeOK
    <3>3. keyGroup'[k] = g /\ \A j \in keys : j # k => keyGroup'[j] = keyGroup[j]
      BY <3>1 DEF TypeOK
    <3>4. QED
      BY <2>2, <3>2, <3>3 DEF CreateKey, OneInternalKey, Internal
  <2>3. CASE keys' \subseteq keys /\ keyGroup' = keyGroup
    BY <2>3 DEF OneInternalKey, Internal
  <2>4. QED
    BY <2>1, <2>2, <2>3 DEF Next, EnsureDefaults, DefaultServices, DefaultGroups,
       DefaultConfig, Crash, AdminService, CreateService, UpdateService, DeleteService,
       AdminGroup, CreateGroup, UpdateGroup, DeleteGroup, AdminKey, SetKeyStatus,
       DeleteKey, Auth, Request, LookUpGroup, LookUpService, Answer, recordVars, vars
<1>3. QED
  BY <1>1, <1>2, TypeCorrect, PTL DEF Spec

(***************************************************************************)
(* The defaults                                                            *)
(***************************************************************************)

\* What DefaultsStand needs of the other phases: a kind of record is missing
\* altogether or its default is there, and a phase has run once it is passed.
DefaultsInv ==
  /\ services = {} \/ DefaultService \in services
  /\ groups = {} \/ DefaultGroup \in groups
  /\ phase # "services" => DefaultService \in services
  /\ phase \notin {"services", "groups"} => DefaultGroup \in groups
  /\ phase \notin {"services", "groups", "config"} => config

\* After any start, the ones cut short by a crash included, the built-in
\* service, the built-in group and the configuration exist, whatever the
\* administration deletes, and no start has made a second internal key.
THEOREM DefaultsAlwaysStand == Spec => []DefaultsStand
<1>1. Init => DefaultsInv
  BY DEF Init, DefaultsInv
<1>2. DefaultsInv /\ [Next]_vars => DefaultsInv'
  <2> SUFFICES ASSUME DefaultsInv, [Next]_vars PROVE DefaultsInv'
    OBVIOUS
  <2> USE DEF DefaultsInv, recordVars, requestVars
  <2>1. CASE EnsureDefaults
    BY <2>1 DEF EnsureDefaults, DefaultServices, DefaultGroups, DefaultConfig, DefaultKey
  <2>2. CASE Crash
    BY <2>2 DEF Crash
  <2>3. ASSUME NEW s \in Services, AdminService(s) PROVE DefaultsInv'
    BY <2>3 DEF AdminService, CreateService, UpdateService, DeleteService, Up
  <2>4. ASSUME NEW g \in Groups, AdminGroup(g) PROVE DefaultsInv'
    BY <2>4 DEF AdminGroup, CreateGroup, UpdateGroup, DeleteGroup, Up
  <2>5. ASSUME NEW k \in Keys, AdminKey(k) PROVE DefaultsInv'
    BY <2>5 DEF AdminKey, CreateKey, SetKeyStatus, DeleteKey, Up
  <2>6. ASSUME NEW r \in Requests, NEW k \in Keys, Auth(r, k) PROVE DefaultsInv'
    BY <2>6 DEF Auth
  <2>7. ASSUME NEW r \in Requests, Request(r) PROVE DefaultsInv'
    BY <2>7 DEF Request, LookUpGroup, LookUpService, Answer
  <2>8. CASE UNCHANGED vars
    BY <2>8 DEF vars
  <2>9. QED
    BY <2>1, <2>2, <2>3, <2>4, <2>5, <2>6, <2>7, <2>8 DEF Next
<1>3. DefaultsInv /\ OneInternalKey => DefaultsStand
  BY DEF DefaultsInv, DefaultsStand, Up
<1>4. QED
  BY <1>1, <1>2, <1>3, OneKeyIsInternal, PTL DEF Spec

(***************************************************************************)
(* Keys and the requests that come with them                               *)
(***************************************************************************)

\* A request between its two look-ups still knows the group of its key, unless
\* the key is gone; a deleted key does not come back.
LookUpInv ==
  \A r \in Requests :
    /\ pc[r] \in {"group", "no group"} => reqKey[r] \in keys \cup retired
    /\ pc[r] = "group" /\ reqKey[r] \in keys =>
         ~ Internal(reqKey[r]) /\ reqGroup[r] = keyGroup[reqKey[r]]
    /\ pc[r] = "no group" => reqKey[r] \notin keys

KeyInv == TypeOK /\ KeysResolve /\ LookUpInv

\* Every operation keeps both: a creation chooses the group of a new key only,
\* a deletion takes a group no key has, and deleted ids are not used again.
LEMMA KeyStep == KeyInv /\ [Next]_vars => KeysResolve' /\ LookUpInv'
<1> SUFFICES ASSUME KeyInv, [Next]_vars PROVE KeysResolve' /\ LookUpInv'
  OBVIOUS
<1> DEFINE Typed == /\ keys \subseteq Keys
                    /\ keyGroup \in [Keys -> Groups \cup {Empty, AllAccounts}]
                    /\ reqKey \in [Requests -> Keys]
                    /\ DOMAIN pc = Requests /\ DOMAIN reqGroup = Requests
                    /\ pc = [r \in Requests |-> pc[r]]
                    /\ reqGroup = [r \in Requests |-> reqGroup[r]]
<1>t. Typed
  BY DEF KeyInv, TypeOK
<1>k. KeysResolve /\ LookUpInv
  BY DEF KeyInv
<1> USE StoreAssumption, <1>k DEF recordVars, requestVars
<1> HIDE DEF Typed
<1>n. ASSUME NEW k \in Keys \ (keys \cup retired), NEW g,
             g = AllAccounts \/ GroupOf(g) \in groups,
             keys' = keys \cup {k}, keyGroup' = [keyGroup EXCEPT ![k] = g],
             UNCHANGED <<groups, retired, requestVars>>
      PROVE  KeysResolve' /\ LookUpInv'
  <2>1. keyGroup'[k] = g /\ \A j \in keys : j # k /\ keyGroup'[j] = keyGroup[j]
    BY <1>t, <1>n DEF Typed
  <2>2. KeysResolve'
    BY <1>n, <2>1 DEF KeysResolve, Internal, GroupOf
  <2>3. ASSUME NEW r \in Requests, pc[r] \in {"group", "no group"}
        PROVE  reqKey[r] # k
    BY <1>n, <2>3 DEF LookUpInv
  <2>4. LookUpInv'
    BY <1>n, <2>1, <2>3 DEF LookUpInv, Internal
  <2>5. QED
    BY <2>2, <2>4
<1>1. CASE DefaultServices \/ DefaultGroups \/ DefaultConfig
  BY <1>1 DEF DefaultServices, DefaultGroups, DefaultConfig, KeysResolve, LookUpInv, Internal
<1>2. CASE DefaultKey
  <2>1. CASE UNCHANGED <<keys, active, keyGroup>>
    BY <1>2, <2>1 DEF DefaultKey, KeysResolve, LookUpInv, Internal
  <2>2. ASSUME NEW k \in Keys \ (keys \cup retired), keys' = keys \cup {k},
               keyGroup' = [keyGroup EXCEPT ![k] = AllAccounts]
        PROVE  KeysResolve' /\ LookUpInv'
    BY <1>2, <1>n, <2>2 DEF DefaultKey
  <2>3. QED
    BY <1>2, <2>1, <2>2 DEF DefaultKey
<1>3. CASE Crash
  BY <1>3 DEF Crash, KeysResolve, LookUpInv, Internal
<1>4. ASSUME NEW s \in Services, AdminService(s) PROVE KeysResolve' /\ LookUpInv'
  BY <1>4 DEF AdminService, CreateService, UpdateService, DeleteService,
     KeysResolve, LookUpInv, Internal
<1>5. ASSUME NEW g \in Groups, AdminGroup(g) PROVE KeysResolve' /\ LookUpInv'
  BY <1>5 DEF AdminGroup, CreateGroup, UpdateGroup, DeleteGroup, KeysResolve,
     LookUpInv, Internal, GroupOf
<1>6. ASSUME NEW k \in Keys, CreateKey(k) PROVE KeysResolve' /\ LookUpInv'
  <2>1. PICK g \in (Listed(groups) \cap Groups) \cup {Empty, AllAccounts} :
          GroupOf(g) \in groups /\ keyGroup' = [keyGroup EXCEPT ![k] = g]
    BY <1>6 DEF CreateKey
  <2>2. QED
    BY <1>6, <1>n, <2>1 DEF CreateKey
<1>7. ASSUME NEW k \in Keys, SetKeyStatus(k) \/ DeleteKey(k)
      PROVE  KeysResolve' /\ LookUpInv'
  BY <1>7 DEF SetKeyStatus, DeleteKey, KeysResolve, LookUpInv, Internal
<1>8. ASSUME NEW r \in Requests, NEW k \in Keys, Auth(r, k)
      PROVE  KeysResolve' /\ LookUpInv'
  <2>1. k \in keys
    BY <1>8 DEF Auth, KeyInv, TypeOK
  <2>2. ASSUME NEW q \in Requests, q # r
        PROVE  pc'[q] = pc[q] /\ reqKey'[q] = reqKey[q] /\ reqGroup'[q] = reqGroup[q]
    BY <1>t, <1>8, <2>2 DEF Auth, Typed
  <2>3. /\ reqKey'[r] = k
        /\ reqGroup'[r] = IF Internal(k) THEN DefaultService ELSE keyGroup[k]
        /\ pc'[r] = IF Internal(k) THEN "service" ELSE "group"
    BY <1>t, <1>8 DEF Auth, Typed
  <2>4. UNCHANGED recordVars
    BY <1>8 DEF Auth
  <2>5. KeysResolve'
    BY <2>4 DEF KeysResolve, Internal
  <2>6. LookUpInv'
    BY <2>1, <2>2, <2>3, <2>4 DEF LookUpInv, Internal
  <2>7. QED
    BY <2>5, <2>6
<1>9. ASSUME NEW r \in Requests, Request(r) PROVE KeysResolve' /\ LookUpInv'
  <2>1. CASE LookUpGroup(r)
    BY <1>t, <1>9, <2>1 DEF LookUpGroup, KeysResolve, LookUpInv, Internal, Typed
  <2>2. CASE LookUpService(r) \/ Answer(r)
    BY <1>t, <1>9, <2>2 DEF LookUpService, Answer, KeysResolve, LookUpInv, Internal, Typed
  <2>3. QED
    BY <1>9, <2>1, <2>2 DEF Request
<1>10. CASE UNCHANGED vars
  BY <1>10 DEF vars, KeysResolve, LookUpInv, Internal
<1>11. QED
  BY <1>1, <1>2, <1>3, <1>4, <1>5, <1>6, <1>7, <1>8, <1>9, <1>10
  DEF Next, EnsureDefaults, AdminKey

\* KeysResolve and LookUpInv hold in every reachable state.
LEMMA KeyInvariant == Spec => [](KeysResolve /\ LookUpInv)
<1>1. Init => KeysResolve /\ LookUpInv
  BY DEF Init, KeysResolve, LookUpInv
<1>2. QED
  BY <1>1, KeyStep, TypeCorrect, PTL DEF Spec, KeyInv

\* Whatever is created, renamed and deleted in between, the group of every key
\* is there: a client never holds a key that leads nowhere.
THEOREM KeysAlwaysResolve == Spec => []KeysResolve
  BY KeyInvariant, PTL

\* A request that is told "no group" came with a key that was deleted under it.
THEOREM MissesAreExplained == Spec => []MissedGroupLostKey
<1>1. LookUpInv => MissedGroupLostKey
  BY DEF LookUpInv, MissedGroupLostKey
<1>2. QED
  BY <1>1, KeyInvariant, PTL

(***************************************************************************)
(* The lifecycle of the gateway                                            *)
(***************************************************************************)

\* No configuration SetConfig refuses is stored, shown or listened on, restarts
\* included.
THEOREM ServiceTypeCorrect == ServiceSpec => []ServiceTypeOK
<1>1. ServiceInit => ServiceTypeOK
  <2>1. DefaultSettings \in Configs
    BY ServiceAssumption DEF DefaultSettings, Configs
  <2>2. QED
    BY <2>1 DEF ServiceInit, ServiceTypeOK
<1>2. ServiceTypeOK /\ [ServiceNext]_serviceVars => ServiceTypeOK'
  <2> SUFFICES ASSUME ServiceTypeOK, [ServiceNext]_serviceVars PROVE ServiceTypeOK'
    OBVIOUS
  <2> USE ServiceAssumption DEF ServiceTypeOK, Configs, Listeners
  <2>1. CASE Boot
    BY <2>1 DEF Boot, StartServer, Listen
  <2>2. CASE Exit
    BY <2>2 DEF Exit, DefaultSettings
  <2>3. ASSUME NEW u \in Callers, Save(u) PROVE ServiceTypeOK'
    BY <2>3 DEF Save, Bodies, Valid
  <2>4. ASSUME NEW u \in Callers, Stop(u) PROVE ServiceTypeOK'
    BY <2>4 DEF Stop, StopServer
  <2>5. ASSUME NEW u \in Callers, Start(u) PROVE ServiceTypeOK'
    BY <2>5 DEF Start, StartServer, Listen
  <2>6. CASE UNCHANGED serviceVars
    BY <2>6 DEF serviceVars
  <2>7. QED
    BY <2>1, <2>2, <2>3, <2>4, <2>5, <2>6 DEF ServiceNext
<1>3. QED
  BY <1>1, <1>2, PTL DEF ServiceSpec

\* What RunsAsConfigured needs between the critical sections of ApplyConfig:
\* Start reads back what is shown, and a listener that differs from it is one
\* that some caller is about to stop.
ServiceInv ==
  /\ booted => stored = shown
  /\ ~ booted => srv = Down /\ \A u \in Callers : applying[u] = "idle"
  /\ StaleIsDoomed

\* ServiceInv holds in every reachable state.
LEMMA ServiceInvariant == ServiceSpec => []ServiceInv
<1>1. ServiceInit => ServiceInv
  BY DEF ServiceInit, ServiceInv, StaleIsDoomed
<1>2. ServiceTypeOK /\ ServiceInv /\ [ServiceNext]_serviceVars => ServiceInv'
  <2> SUFFICES ASSUME ServiceTypeOK, ServiceInv, [ServiceNext]_serviceVars PROVE ServiceInv'
    OBVIOUS
  <2> USE DownAssumption DEF ServiceInv, StaleIsDoomed
  <2>1. CASE Boot
    BY <2>1 DEF Boot, StartServer, Listen, ServiceTypeOK, Configs, Listeners
  <2>2. CASE Exit
    BY <2>2 DEF Exit
  <2>3. ASSUME NEW u \in Callers, Save(u) PROVE ServiceInv'
    <3>1. PICK c \in Bodies :
            /\ stored' = c /\ shown' = c
            /\ applying' = [applying EXCEPT ![u] = IF ~ c.enabled THEN "disable"
                                    ELSE IF Unchanged(c) THEN "idle" ELSE "stop"]
      BY <2>3 DEF Save
    <3>2. booted /\ booted' /\ srv' = srv
      BY <2>3 DEF Save
    <3>3. applying'[u] = IF ~ c.enabled THEN "disable"
                 ELSE IF Unchanged(c) THEN "idle" ELSE "stop"
      BY <3>1 DEF ServiceTypeOK
    <3>4. CASE c.enabled /\ Unchanged(c)
      BY <3>1, <3>2, <3>4 DEF Unchanged
    <3>5. CASE ~ (c.enabled /\ Unchanged(c))
      <4>1. applying'[u] \in {"disable", "stop"}
        BY <3>3, <3>5
      <4>2. QED
        BY <3>1, <3>2, <4>1
    <3>6. QED
      BY <3>4, <3>5
  <2>4. ASSUME NEW u \in Callers, Stop(u) PROVE ServiceInv'
    BY <2>4 DEF Stop, StopServer
  <2>5. ASSUME NEW u \in Callers, Start(u) PROVE ServiceInv'
    <3>1. booted' = booted /\ stored' = stored /\ shown' = stored
      BY <2>5 DEF Start, StartServer
    <3>2. applying[u] = "start" /\ \A w \in Callers : w # u => applying'[w] = applying[w]
      BY <2>5 DEF Start, ServiceTypeOK
    <3>3. booted /\ stored = shown
      BY <3>2
    <3>4. CASE srv # Down
      <4>1. srv' = srv
        BY <2>5, <3>4 DEF Start, StartServer, Listen
      <4>2. QED
        BY <3>1, <3>2, <3>3, <4>1
    <3>5. CASE srv = Down
      <4>1. srv' = Down \/ /\ stored.enabled
                           /\ srv' = [port |-> stored.port, host |-> stored.host]
        BY <2>5, <3>5 DEF Start, StartServer, Listen
      <4>2. QED
        BY <3>1, <3>3, <4>1
    <3>6. QED
      BY <3>4, <3>5
  <2>6. CASE UNCHANGED serviceVars
    BY <2>6 DEF serviceVars
  <2>7. QED
    BY <2>1, <2>2, <2>3, <2>4, <2>5, <2>6 DEF ServiceNext
<1>3. QED
  BY <1>1, <1>2, ServiceTypeCorrect, PTL DEF ServiceSpec

\* A listener that is not as shown, be it left by a save or by a start that read an
\* older file, always has a caller that is about to stop it (service.go, ApplyConfig).
THEOREM StaleIsAlwaysDoomed == ServiceSpec => []StaleIsDoomed
<1>1. ServiceInv => StaleIsDoomed
  BY DEF ServiceInv
<1>2. QED
  BY <1>1, ServiceInvariant, PTL

\* A listener that survives every pending apply is enabled in the configuration
\* shown, and on its port.
THEOREM RunsAsShown == ServiceSpec => []RunsAsConfigured
<1>1. ServiceInv => RunsAsConfigured
  BY DEF ServiceInv, StaleIsDoomed, RunsAsConfigured, Settled
<1>2. QED
  BY <1>1, ServiceInvariant, PTL

-----------------------------------------------------------------------------
(* Plug-ins: types                                                         *)

Modes   == {"local", "docker"}
Servers == {"free", "local"} \cup Containers
States  == {"none", "stopped", "down", "running"}
Stages  == {"idle", "probe", "inspect", "ask", "reuse", "revive", "clear", "pull",
            "create", "start", "await", "await again", "ready", "failed"}

\* The types, by the groups of variables that steps leave alone together.
ModeOK   == plugMode \in [PlugIds -> Modes]
PortOK   == plugPort \in [PlugIds -> Servers]
BoxOK    == plugBox \in [Containers -> States]
GoodOK   == plugCurrent \in BOOLEAN /\ (plugCurrent => Exists(Box))
DaemonOK == plugDaemon \in BOOLEAN
AutoOK   == plugAuto \subseteq PlugIds
DeployOK == plugDeploy \in Stages /\ plugExcused \in BOOLEAN
BoundsOK == plugOps \in 0..PlugOps /\ plugOutages \in 0..PlugOutages
HostOK   == PortOK /\ BoxOK /\ GoodOK
PlugTypes == ModeOK /\ HostOK /\ DaemonOK /\ AutoOK /\ DeployOK /\ BoundsOK

LEMMA PlugTypesAre == PlugTypes <=> PlugTypeOK
BY DEF PlugTypes, HostOK, PlugTypeOK, ModeOK, PortOK, BoxOK, GoodOK, DaemonOK, AutoOK,
       DeployOK, BoundsOK, Modes, Servers, States, Stages

LEMMA BoxIsOne == Box \in Containers /\ PlugOld \subseteq Containers /\ Box \notin PlugOld
BY PlugAssumption DEF Containers

LEMMA PlugTypesFirst == PlugInit => PlugTypes
<1> SUFFICES ASSUME PlugInit PROVE PlugTypes
  OBVIOUS
<1> USE PlugAssumption DEF PlugInit
<1>1. ModeOK /\ PortOK
  BY DEF ModeOK, PortOK, Modes, Servers
<1>2. DaemonOK /\ AutoOK /\ DeployOK
  BY DEF DaemonOK, AutoOK, DeployOK, Stages
<1>3. BoundsOK
  BY SMT DEF BoundsOK, PlugAssumption
<1>4. BoxOK /\ GoodOK
  BY BoxIsOne DEF BoxOK, GoodOK, Exists, States
<1>5. QED
  BY <1>1, <1>2, <1>3, <1>4 DEF PlugTypes, HostOK

-----------------------------------------------------------------------------
(* The host                                                                *)

\* What the helpers make of the modes and the ports.
LEMMA SeenType == ASSUME ModeOK, NEW i PROVE Seen(i) \in [PlugIds -> Modes]
BY DEF ModeOK, Seen, SeenMode, Modes

LEMMA PortTypes ==
  ASSUME NEW port \in [PlugIds -> Servers], NEW ids, NEW c \in Containers
  PROVE  /\ Killed(port, ids) \in [PlugIds -> Servers]
         /\ StartPort(c, port) \in [PlugIds -> Servers]
BY DEF Killed, StartPort, Servers

LEMMA WithoutType ==
  ASSUME NEW port \in [PlugIds -> Servers], NEW c
  PROVE  Without(port, c) \in [PlugIds -> Servers]
BY DEF Without, Servers

\* A container that is started or not is still there.
LEMMA HostStarts ==
  ASSUME BoxOK, GoodOK, NEW c \in Containers, NEW port \in [PlugIds -> Servers],
         StartsWith(c, port) \/ RefusesWith(c, port), plugCurrent' = plugCurrent
  PROVE  HostOK' /\ (plugCurrent => plugBox'[Box] # "none")
<1>1. /\ \/ \E s \in {"running", "stopped"} : plugBox' = [plugBox EXCEPT ![c] = s]
         \/ plugBox' = plugBox
      /\ plugPort' \in {port, StartPort(c, port)}
  BY DEF StartsWith, RefusesWith
<1>2. PortOK'
  BY <1>1, PortTypes DEF PortOK
<1>3. BoxOK' /\ (plugCurrent => plugBox'[Box] # "none")
  BY <1>1, BoxIsOne DEF BoxOK, GoodOK, Exists, States
<1>4. QED
  BY <1>2, <1>3, BoxIsOne DEF HostOK, GoodOK, Exists

\* A container is stopped, and its ports are freed.
LEMMA HostHalts ==
  ASSUME HostOK, plugBox' = Halted(Box), PortOK', plugCurrent' = plugCurrent
  PROVE  HostOK' /\ (plugCurrent => plugBox'[Box] # "none")
BY BoxIsOne DEF HostOK, BoxOK, GoodOK, Exists, Halted, States

\* The containers of older releases go.
LEMMA HostDrops ==
  ASSUME HostOK, NEW gone \in SUBSET PlugOld, PortOK', plugCurrent' = plugCurrent,
         plugBox' = [c \in Containers |-> IF c \in gone THEN "none" ELSE plugBox[c]]
  PROVE  HostOK' /\ (plugCurrent => plugBox'[Box] # "none")
BY BoxIsOne DEF HostOK, BoxOK, GoodOK, Exists, States

\* Nothing happens to the containers.
LEMMA HostRests ==
  ASSUME HostOK, plugBox' = plugBox, plugCurrent' = plugCurrent, PortOK'
  PROVE  HostOK' /\ (plugCurrent => plugBox'[Box] # "none")
BY DEF HostOK, BoxOK, GoodOK, Exists

-----------------------------------------------------------------------------
(* A deployment takes down no good container                               *)

\* A rebuild under way has found no container of the current version, or one
\* that would not start or could not be seen.
RebuildExcused ==
  plugDeploy \in {"clear", "pull", "create"} /\ plugCurrent => plugExcused

PlugInv == PlugTypes /\ RebuildExcused

\* What a step must keep.
BoxKept == (plugCurrent /\ plugBox'[Box] = "none") => (plugOps' # plugOps \/ plugExcused)
StepKeeps == PlugTypes' /\ RebuildExcused' /\ BoxKept

\* Steps that touch neither deployment nor version.
LEMMA HostStep ==
  ASSUME PlugInv, UNCHANGED <<plugJob, plugCurrent>>, HostOK',
         (plugCurrent => plugBox'[Box] # "none") \/ plugOps' # plugOps,
         ModeOK', DaemonOK', AutoOK', BoundsOK'
  PROVE  StepKeeps
BY DEF PlugInv, PlugTypes, RebuildExcused, StepKeeps, BoxKept, DeployOK, plugJob

LEMMA CallSteps ==
  ASSUME PlugInv, LocalBegin \/ LocalStart \/ LocalEnd \/ DockerMode \/ StopEngine
  PROVE  StepKeeps
<1> USE DEF PlugInv, PlugTypes
<1>0. /\ UNCHANGED <<plugJob, plugCurrent, plugBounds, plugDaemon>>
      /\ BoundsOK' /\ DaemonOK' /\ AutoOK' /\ PortOK /\ BoxOK /\ GoodOK
  BY DEF LocalBegin, LocalStart, LocalEnd, DockerMode, StopEngine, plugJob, plugBounds,
         plugHost, plugAgents, PlugReturns, BoundsOK, DaemonOK, AutoOK, HostOK
<1>1. CASE LocalBegin
  <2>1. ModeOK' /\ PortOK'
    BY <1>0, <1>1, PortTypes, WithoutType, BoxIsOne DEF LocalBegin, ModeOK, PortOK, Modes
  <2>2. HostOK' /\ (plugCurrent => plugBox'[Box] # "none")
    <3>1. plugBox' = Halted(Box) \/ plugBox' = plugBox
      BY <1>1 DEF LocalBegin
    <3>2. QED
      BY <1>0, <2>1, <3>1, HostHalts, HostRests
  <2>3. QED
    BY <1>0, <2>1, <2>2, HostStep
<1>2. CASE LocalStart
  <2>1. ModeOK'
    BY <1>2, SeenType DEF LocalStart, PlugReturns, ModeOK
  <2>2. PortOK'
    <3>1. Killed(plugPort, {plugCall.id}) \in [PlugIds -> Servers]
      BY <1>0, PortTypes, BoxIsOne DEF PortOK
    <3>2. CASE plugPort' = plugPort
      BY <1>0, <3>2 DEF PortOK
    <3>3. CASE plugPort' # plugPort
      BY <1>2, <3>1, <3>3 DEF LocalStart, PortOK, Servers
    <3>4. QED
      BY <3>2, <3>3
  <2>3. HostOK' /\ (plugCurrent => plugBox'[Box] # "none")
    BY <1>0, <1>2, <2>2, HostRests DEF LocalStart
  <2>4. QED
    BY <1>0, <2>1, <2>3, HostStep
<1>3. CASE LocalEnd
  <2>1. ModeOK' /\ PortOK'
    BY <1>0, <1>3, SeenType DEF LocalEnd, PlugReturns, ModeOK, PortOK, plugHost
  <2>2. HostOK' /\ (plugCurrent => plugBox'[Box] # "none")
    BY <1>0, <1>3, <2>1, HostRests DEF LocalEnd, plugHost
  <2>3. QED
    BY <1>0, <2>1, <2>2, HostStep
<1>4. CASE DockerMode
  <2>1. ModeOK'
    BY <1>4 DEF DockerMode, ModeOK, SeenMode, Modes
  <2>2. Killed(plugPort, PlugIds) \in [PlugIds -> Servers]
    BY <1>0, PortTypes, BoxIsOne DEF PortOK
  <2>3. HostOK' /\ (plugCurrent => plugBox'[Box] # "none")
    <3>1. CASE UNCHANGED <<plugPort, plugBox>>
      BY <1>0, <3>1, HostRests DEF PortOK
    <3>2. CASE ~UNCHANGED <<plugPort, plugBox>>
      <4>1. \/ StartsWith(Box, Killed(plugPort, PlugIds))
            \/ RefusesWith(Box, Killed(plugPort, PlugIds))
        BY <1>4, <3>2 DEF DockerMode
      <4>2. QED
        BY <1>0, <2>2, <4>1, HostStarts, BoxIsOne
    <3>3. QED
      BY <3>1, <3>2
  <2>4. QED
    BY <1>0, <2>1, <2>3, HostStep
<1>5. CASE StopEngine
  <2> DEFINE freed == Killed(plugPort, {plugCall.id})
  <2>1. freed \in [PlugIds -> Servers]
    BY <1>0, PortTypes, BoxIsOne DEF PortOK
  <2>2. ModeOK'
    BY <1>5 DEF StopEngine, ModeOK
  <2>3. \/ plugBox' = Halted(Box) /\ plugPort' = Without(freed, Box)
        \/ /\ plugCall.id \in PlugOld
           /\ plugBox' = [plugBox EXCEPT ![plugCall.id] = "none"]
           /\ plugPort' = Without(freed, plugCall.id)
        \/ plugPort' = freed /\ plugBox' = plugBox
    BY <1>5 DEF StopEngine
  <2>4. PortOK'
    BY <2>1, <2>3, WithoutType DEF PortOK
  <2>5. HostOK' /\ (plugCurrent => plugBox'[Box] # "none")
    <3>1. CASE plugBox' = Halted(Box)
      BY <1>0, <2>4, <3>1, HostHalts
    <3>2. CASE plugBox' = plugBox
      BY <1>0, <2>4, <3>2, HostRests
    <3>3. CASE plugCall.id \in PlugOld /\ plugBox' = [plugBox EXCEPT ![plugCall.id] = "none"]
      <4>1. plugBox' = [c \in Containers |-> IF c \in {plugCall.id} THEN "none"
                                                            ELSE plugBox[c]]
        BY <1>0, <3>3 DEF BoxOK
      <4>2. QED
        BY <1>0, <2>4, <3>3, <4>1, HostDrops
    <3>4. QED
      BY <2>3, <3>1, <3>2, <3>3
  <2>6. QED
    BY <1>0, <2>2, <2>5, HostStep
<1>6. QED
  BY <1>1, <1>2, <1>3, <1>4, <1>5

\* Those who call them, and the polls.
LEMMA AgentSteps ==
  ASSUME PlugInv,
         \/ AutoLook \/ ReadyStart \/ ReadyLocal \/ WatchCall
         \/ \E i \in PlugIds :
              \/ PlugPoll(i) \/ AutoStart(i) \/ ReadyBegin(i) \/ WatchBegin(i)
              \/ \E what \in {"local", "docker", "stop"} : PlugUser(what, i)
  PROVE  StepKeeps
<1> USE DEF PlugInv, PlugTypes
<1>0. PortOK /\ BoxOK /\ GoodOK /\ PlugOps \in Nat
  BY PlugAssumption DEF HostOK
<1>1. UNCHANGED <<plugJob, plugCurrent, plugDaemon>> /\ AutoOK'
  BY DEF AutoLook, ReadyStart, ReadyLocal, WatchCall, PlugPoll, AutoStart, ReadyBegin,
         WatchBegin, PlugUser, plugJob, plugHost, plugAgents, AutoOK
<1>2. DaemonOK'
  BY <1>1 DEF DaemonOK
<1>3. BoundsOK'
  BY <1>0 DEF AutoLook, ReadyStart, ReadyLocal, WatchCall, PlugPoll, AutoStart,
     ReadyBegin, WatchBegin, PlugUser, plugBounds, BoundsOK
<1>4. ModeOK'
  <2>1. ASSUME NEW i \in PlugIds, PlugPoll(i) \/ ReadyBegin(i) \/ WatchBegin(i)
        PROVE  ModeOK'
    BY <2>1, SeenType DEF PlugPoll, ReadyBegin, WatchBegin, ModeOK
  <2>2. CASE ReadyStart
    BY <2>2 DEF ReadyStart, ModeOK, Modes
  <2>3. QED
    BY <2>1, <2>2 DEF AutoLook, ReadyLocal, WatchCall, AutoStart, PlugUser, ModeOK
<1>5. HostOK' /\ (plugCurrent => plugBox'[Box] # "none")
  <2>1. CASE ReadyStart /\ ~UNCHANGED <<plugPort, plugBox>>
    <3>1. PICK c \in Containers : StartsWith(c, plugPort) \/ RefusesWith(c, plugPort)
      BY <2>1 DEF ReadyStart, Exists
    <3>2. QED
      BY <1>0, <1>1, <3>1, HostStarts DEF PortOK
  <2>2. CASE UNCHANGED <<plugPort, plugBox>>
    BY <1>0, <1>1, <2>2, HostRests DEF PortOK
  <2>3. QED
    BY <2>1, <2>2 DEF AutoLook, ReadyLocal, WatchCall, PlugPoll, AutoStart, ReadyBegin,
       WatchBegin, PlugUser, plugHost
<1>6. QED
  BY <1>1, <1>2, <1>3, <1>4, <1>5, HostStep

\* Docker, and the user's operations on containers.
LEMMA DockerSteps ==
  ASSUME PlugInv,
         \/ DockerDown \/ DockerUp \/ PlugUninstall
         \/ \E c \in Containers : DockerRestarts(c) \/ PlugContainer(c)
  PROVE  StepKeeps
<1> USE DEF PlugInv, PlugTypes
<1>0. /\ PortOK /\ BoxOK /\ GoodOK /\ PlugOps \in Nat /\ PlugOutages \in Nat
      /\ plugOps \in 0..PlugOps /\ plugOutages \in 0..PlugOutages
  BY PlugAssumption DEF HostOK, BoundsOK
<1>1. UNCHANGED plugJob /\ AutoOK'
  BY DEF DockerDown, DockerUp, PlugUninstall, DockerRestarts, PlugContainer, plugJob,
         plugAgents, AutoOK
<1>2. BoundsOK' /\ DaemonOK'
  <2>1. CASE DockerDown
    <3>1. /\ plugOutages < PlugOutages /\ plugOutages' = plugOutages + 1
          /\ plugOps' = plugOps /\ plugDaemon' = FALSE
      BY <2>1 DEF DockerDown
    <3>2. BoundsOK'
      BY <1>0, <3>1 DEF BoundsOK
    <3>3. DaemonOK'
      BY <3>1 DEF DaemonOK
    <3>4. QED
      BY <3>2, <3>3
  <2>2. CASE DockerUp
    BY <1>0, <2>2 DEF DockerUp, plugBounds, BoundsOK, DaemonOK
  <2>3. CASE PlugUninstall
    BY <1>0, <2>3 DEF PlugUninstall, BoundsOK, DaemonOK
  <2>4. ASSUME NEW c \in Containers, DockerRestarts(c) PROVE BoundsOK' /\ DaemonOK'
    BY <1>0, <2>4 DEF DockerRestarts, plugBounds, BoundsOK, DaemonOK
  <2>5. ASSUME NEW c \in Containers, PlugContainer(c) PROVE BoundsOK' /\ DaemonOK'
    BY <1>0, <2>5 DEF PlugContainer, BoundsOK, DaemonOK
  <2>6. QED
    BY <2>1, <2>2, <2>3, <2>4, <2>5
<1>3. CASE DockerDown
  <2>1. ModeOK' /\ PortOK' /\ plugCurrent' = plugCurrent
    BY <1>0, <1>3 DEF DockerDown, ModeOK, PortOK, Servers
  <2>2. BoxOK' /\ (plugCurrent => plugBox'[Box] # "none")
    BY <1>0, <1>3, BoxIsOne DEF DockerDown, BoxOK, GoodOK, Exists, States
  <2>3. HostOK'
    BY <1>0, <2>1, <2>2, BoxIsOne DEF HostOK, GoodOK, Exists
  <2>4. QED
    BY <1>1, <1>2, <2>1, <2>2, <2>3, HostStep
<1>4. CASE DockerUp
  BY <1>0, <1>1, <1>2, <1>4, HostRests, HostStep DEF DockerUp, plugHost, ModeOK, PortOK
<1>5. CASE PlugUninstall
  <2>1. ModeOK' /\ PortOK' /\ plugOps' # plugOps /\ plugCurrent' = FALSE
    BY <1>0, <1>5 DEF PlugUninstall, ModeOK, PortOK, Servers
  <2>2. BoxOK' /\ GoodOK'
    BY <1>5, <2>1 DEF PlugUninstall, BoxOK, GoodOK, States
  <2>3. QED
    BY <1>1, <1>2, <2>1, <2>2 DEF StepKeeps, BoxKept, RebuildExcused, HostOK, DeployOK,
       plugJob
<1>6. ASSUME NEW c \in Containers, DockerRestarts(c) PROVE StepKeeps
  <2>1. HostOK' /\ (plugCurrent => plugBox'[Box] # "none")
    BY <1>0, <1>6, HostStarts DEF DockerRestarts, PortOK
  <2>2. QED
    BY <1>1, <1>2, <1>6, <2>1, HostStep DEF DockerRestarts, ModeOK
<1>7. ASSUME NEW c \in Containers, PlugContainer(c) PROVE StepKeeps
  <2>1. plugOps' # plugOps
    BY <1>0, <1>7 DEF PlugContainer
  <2>2. Forgets(c) \in [PlugIds -> Modes] /\ ModeOK'
    BY <1>7 DEF Forgets, PlugContainer, ModeOK, Modes
  <2>3. CASE StartsWith(c, plugPort) \/ RefusesWith(c, plugPort)
    <3>1. CASE plugCurrent' = plugCurrent
      <4>1. HostOK'
        BY <1>0, <2>3, <3>1, HostStarts DEF PortOK
      <4>2. QED
        BY <1>1, <1>2, <2>1, <2>2, <3>1, <4>1, HostStep
    <3>2. CASE plugCurrent' # plugCurrent
      <4>1. plugCurrent' = FALSE /\ plugBox' = [plugBox EXCEPT ![c] = "none"]
            /\ plugPort' = Without(plugPort, c)
        BY <1>0, <1>7, <3>2 DEF PlugContainer, GoodOK
      <4>2. HostOK'
        BY <1>0, <4>1, WithoutType DEF HostOK, PortOK, BoxOK, GoodOK, States
      <4>3. QED
        BY <1>1, <1>2, <2>1, <2>2, <4>1, <4>2 DEF StepKeeps, BoxKept, RebuildExcused,
           DeployOK, plugJob
    <3>3. QED
      BY <3>1, <3>2
  <2>4. CASE ~(StartsWith(c, plugPort) \/ RefusesWith(c, plugPort))
    <3>1. /\ plugPort' = Without(plugPort, c)
          /\ \/ plugBox' = Halted(c) /\ plugCurrent' = plugCurrent
             \/ /\ plugBox' = [plugBox EXCEPT ![c] = "none"]
                /\ plugCurrent' = (plugCurrent /\ c # Box)
      BY <1>7, <2>4 DEF PlugContainer
    <3>2. PortOK'
      BY <1>0, <3>1, WithoutType DEF PortOK
    <3>3. BoxOK' /\ plugCurrent' \in BOOLEAN /\ (plugCurrent' => plugCurrent)
      <4>1. BoxOK'
        BY <1>0, <3>1 DEF Halted, BoxOK, States
      <4>2. CASE plugCurrent' = plugCurrent
        BY <1>0, <4>1, <4>2 DEF GoodOK
      <4>3. CASE plugCurrent' = (plugCurrent /\ c # Box)
        BY <1>0, <4>1, <4>3 DEF GoodOK
      <4>4. QED
        BY <3>1, <4>2, <4>3
    <3>4. plugCurrent' => Exists(Box)'
      <4>1. CASE plugBox' = Halted(c) /\ plugCurrent' = plugCurrent
        BY <1>0, <4>1, BoxIsOne DEF Halted, BoxOK, GoodOK, Exists
      <4>2. CASE c = Box /\ plugCurrent' = (plugCurrent /\ c # Box)
        BY <4>2
      <4>3. CASE c # Box /\ plugBox' = [plugBox EXCEPT ![c] = "none"]
        BY <1>0, <3>3, <4>3, BoxIsOne DEF BoxOK, GoodOK, Exists
      <4>4. QED
        BY <3>1, <4>1, <4>2, <4>3
    <3>5. HostOK'
      BY <3>2, <3>3, <3>4 DEF HostOK, GoodOK
    <3>6. QED
      BY <1>1, <1>2, <2>1, <2>2, <3>3, <3>5 DEF StepKeeps, BoxKept, RebuildExcused,
         DeployOK, plugJob
  <2>5. QED
    BY <2>3, <2>4
<1>8. QED
  BY <1>3, <1>4, <1>5, <1>6, <1>7

\* The deployment.
LEMMA DeploySteps ==
  ASSUME PlugInv,
         \/ DeployBegin \/ DeployProbe \/ DeployInspect \/ DeployAsk \/ DeployReuse
         \/ DeployClear \/ DeployPull \/ DeployCreate \/ DeployStart \/ DeployRepair
         \/ DeployEnd
  PROVE  StepKeeps
<1> USE DEF PlugInv, PlugTypes
<1>0. /\ PortOK /\ BoxOK /\ GoodOK /\ PlugOps \in Nat /\ plugExcused \in BOOLEAN
      /\ plugDeploy \in Stages /\ HostOK
  BY PlugAssumption DEF HostOK, DeployOK
<1>1. AutoOK' /\ DaemonOK' /\ BoundsOK'
  <2>1. UNCHANGED <<plugDaemon, plugAuto>>
    BY DEF DeployBegin, DeployProbe, DeployInspect, DeployAsk, DeployReuse, DeployClear,
       DeployPull, DeployCreate, DeployStart, DeployRepair, DeployEnd, plugAgents
  <2>2. \/ plugOps < PlugOps /\ plugOps' = plugOps + 1 /\ UNCHANGED plugOutages
        \/ UNCHANGED plugBounds
    BY DEF DeployBegin, DeployProbe, DeployInspect, DeployAsk, DeployReuse, DeployClear,
       DeployPull, DeployCreate, DeployStart, DeployRepair, DeployEnd
  <2>3. BoundsOK'
    BY <1>0, <2>2 DEF BoundsOK, plugBounds
  <2>4. QED
    BY <2>1, <2>3 DEF AutoOK, DaemonOK
<1>2. DeployOK'
  BY <1>0 DEF DeployBegin, DeployProbe, DeployInspect, DeployAsk, DeployReuse, DeployClear,
     DeployPull, DeployCreate, DeployStart, DeployRepair, DeployEnd, DeployOK, Stages,
     DaemonOK
<1>3. ModeOK'
  BY DEF DeployBegin, DeployProbe, DeployInspect, DeployAsk, DeployReuse, DeployClear,
     DeployPull, DeployCreate, DeployStart, DeployRepair, DeployEnd, ModeOK, AllDocker,
     SeenMode, Modes
<1>4. CASE DeployBegin \/ DeployProbe \/ DeployInspect \/ DeployAsk \/ DeployEnd
  <2>1. HostOK' /\ (plugCurrent => plugBox'[Box] # "none") /\ plugCurrent' = plugCurrent
    <3>1. plugPort' = plugPort /\ plugBox' = plugBox /\ plugCurrent' = plugCurrent
      BY <1>4 DEF DeployBegin, DeployProbe, DeployInspect, DeployAsk, DeployEnd, plugHost
    <3>2. PortOK'
      BY <1>0, <3>1 DEF PortOK
    <3>3. QED
      BY <1>0, <3>1, <3>2, HostRests
  <2>2. RebuildExcused'
    <3>1. CASE DeployInspect
      BY <2>1, <3>1 DEF DeployInspect, RebuildExcused
    <3>2. CASE DeployAsk
      BY <3>2 DEF DeployAsk, RebuildExcused
    <3>3. CASE DeployBegin \/ DeployProbe \/ DeployEnd
      <4>1. plugDeploy' \in {"probe", "inspect", "failed", "ready"}
        BY <3>3 DEF DeployBegin, DeployProbe, DeployEnd
      <4>2. QED
        BY <4>1 DEF RebuildExcused
    <3>4. QED
      BY <1>4, <3>1, <3>2, <3>3
  <2>3. QED
    BY <1>1, <1>2, <1>3, <2>1, <2>2 DEF StepKeeps, BoxKept
<1>5. CASE DeployReuse \/ DeployStart
  <2>1. plugCurrent' = plugCurrent
    BY <1>5 DEF DeployReuse, DeployStart
  <2>2. HostOK' /\ (plugCurrent => plugBox'[Box] # "none")
    <3>1. CASE UNCHANGED <<plugPort, plugBox>>
      BY <1>0, <2>1, <3>1, HostRests DEF PortOK
    <3>2. CASE ~UNCHANGED <<plugPort, plugBox>>
      <4>1. StartsWith(Box, plugPort) \/ RefusesWith(Box, plugPort)
        BY <1>5, <3>2 DEF DeployReuse, DeployStart
      <4>2. QED
        BY <1>0, <2>1, <4>1, HostStarts, BoxIsOne DEF PortOK
    <3>3. QED
      BY <3>1, <3>2
  <2>3. RebuildExcused'
    BY <1>5, <2>1 DEF DeployReuse, DeployStart, RebuildExcused
  <2>4. QED
    BY <1>1, <1>2, <1>3, <2>2, <2>3 DEF StepKeeps, BoxKept
<1>6. CASE DeployClear
  <2>1. PortOK' /\ plugCurrent' = plugCurrent
    BY <1>0, <1>6 DEF DeployClear, PortOK, Servers
  <2>2. HostOK' /\ (plugCurrent => plugBox'[Box] # "none")
    <3>1. PICK gone \in SUBSET PlugOld :
            plugBox' = [c \in Containers |-> IF c \in gone THEN "none" ELSE plugBox[c]]
      BY <1>6 DEF DeployClear
    <3>2. QED
      BY <1>0, <2>1, <3>1, HostDrops
  <2>3. RebuildExcused'
    BY <1>6, <2>1 DEF DeployClear, RebuildExcused
  <2>4. QED
    BY <1>1, <1>2, <1>3, <2>2, <2>3 DEF StepKeeps, BoxKept
<1>7. CASE DeployPull
  <2>1. PortOK' /\ plugCurrent' = plugCurrent /\ plugBox' = plugBox
    BY <1>0, <1>7, PortTypes, BoxIsOne DEF DeployPull, PortOK
  <2>2. RebuildExcused'
    BY <1>7, <2>1 DEF DeployPull, RebuildExcused
  <2>3. QED
    BY <1>0, <1>1, <1>2, <1>3, <2>1, <2>2, HostRests DEF StepKeeps, BoxKept
<1>8. CASE DeployCreate
  \* The step that takes the container down.
  <2>1. plugCurrent => plugExcused
    BY <1>8 DEF DeployCreate, RebuildExcused
  <2>2. RebuildExcused'
    BY <1>8 DEF DeployCreate, RebuildExcused
  <2>3. HostOK'
    <3>1. CASE plugDaemon
      <4>1. PortOK'
        BY <1>0, <1>8, <3>1, WithoutType DEF DeployCreate, PortOK
      <4>2. BoxOK' /\ GoodOK'
        BY <1>0, <1>8, <3>1, BoxIsOne DEF DeployCreate, BoxOK, GoodOK, Exists, States
      <4>3. QED
        BY <4>1, <4>2 DEF HostOK
    <3>2. CASE ~plugDaemon
      <4>1. UNCHANGED plugHost
        BY <1>8, <3>2 DEF DeployCreate
      <4>2. QED
        BY <1>0, <4>1, HostRests DEF plugHost, PortOK
    <3>3. QED
      BY <3>1, <3>2
  <2>4. QED
    BY <1>1, <1>2, <1>3, <2>1, <2>2, <2>3 DEF StepKeeps, BoxKept
<1>9. CASE DeployRepair
  <2>1. /\ plugBox' = plugBox /\ plugCurrent' = plugCurrent
        /\ plugPort' = StartPort(Box, Without(plugPort, Box))
    BY <1>9 DEF DeployRepair
  <2>2. PortOK'
    BY <1>0, <2>1, PortTypes, WithoutType, BoxIsOne DEF PortOK
  <2>3. RebuildExcused'
    BY <1>9 DEF DeployRepair, RebuildExcused
  <2>4. QED
    BY <1>0, <1>1, <1>2, <1>3, <2>1, <2>2, <2>3, HostRests DEF StepKeeps, BoxKept
<1>10. QED
  BY <1>4, <1>5, <1>6, <1>7, <1>8, <1>9

LEMMA PlugStep == PlugInv /\ [PlugNext]_plugVars => StepKeeps
<1> SUFFICES ASSUME PlugInv, [PlugNext]_plugVars PROVE StepKeeps
  OBVIOUS
<1>1. CASE UNCHANGED plugVars
  <2>1. HostOK' /\ (plugCurrent => plugBox'[Box] # "none")
    BY <1>1, HostRests DEF plugVars, plugHost, PlugInv, PlugTypes, HostOK, PortOK
  <2>2. QED
    BY <1>1, <2>1, HostStep DEF plugVars, plugHost, plugAgents, plugBounds, PlugInv,
       PlugTypes, ModeOK, DaemonOK, AutoOK, BoundsOK
<1>2. CASE PlugNext
  BY <1>2, CallSteps, AgentSteps, DockerSteps, DeploySteps DEF PlugNext
<1>3. QED
  BY <1>1, <1>2

LEMMA PlugAlways == PlugSpec => []PlugInv
<1>1. PlugInit => PlugInv
  BY PlugTypesFirst DEF PlugInit, PlugInv, RebuildExcused
<1>2. PlugInv /\ [PlugNext]_plugVars => PlugInv'
  BY PlugStep DEF StepKeeps, PlugInv
<1>3. QED
  BY <1>1, <1>2, PTL DEF PlugSpec

\* Whatever calls, polls, deployments and outages overlap, modes, ports and containers
\* keep their types, and a container of the current version is there
\* (center.go, docker_combined.go).
THEOREM PlugTypeCorrect == PlugSpec => []PlugTypeOK
<1>1. PlugInv => PlugTypeOK
  BY PlugTypesAre DEF PlugInv
<1>2. QED
  BY <1>1, PlugAlways, PTL

\* No deployment takes down a container of the current version that would have
\* started: it is the user who removes it, or it did not start, or Docker was away
\* between two questions (docker_payload.go, classifyInspect).
THEOREM GoodBoxIsKept == PlugSpec => GoodBoxKept
<1>1. PlugInv /\ [PlugNext]_plugVars => BoxKept
  BY PlugStep DEF StepKeeps
<1>2. BoxKept => [(plugCurrent /\ plugBox'[Box] = "none")
                    => (plugOps' # plugOps \/ plugExcused)]_plugVars
  BY DEF BoxKept
<1>3. QED
  BY <1>1, <1>2, PlugAlways, PTL DEF PlugSpec, GoodBoxKept

-----------------------------------------------------------------------------
(* Exits: types and places                                                 *)

\* Where a request can be.
WarpPlaces ==
  {WarpIdle, <<"get", "read">>, <<"get", "sync">>,
   <<"deploy", "save">>, <<"deploy", "read">>, <<"deploy", "sync">>,
   <<"remove", "save">>, <<"remove", "read">>, <<"remove", "sync">>, <<"remove", "clean">>,
   <<"restart", "recreate">>, <<"restart", "merge">>,
   <<"recreate", "recreate">>, <<"recreate", "merge">>}

PoolTyped(pool) ==
  DOMAIN pool \subseteq WarpUrls /\ \A u \in DOMAIN pool : pool[u] \in WarpEntry
ListTyped(list) ==
  DOMAIN list \subseteq WarpPorts /\ \A p \in DOMAIN list : list[p] \in BOOLEAN

\* The types, by what steps leave alone together.
ExitsTyped  == wBoxes \subseteq WarpPorts /\ ListTyped(wInsts)
StoreTyped  == PoolTyped(wPool) /\ wKept \in BOOLEAN /\ wMirror \subseteq WarpUrls
PageTyped   == PoolTyped(wPage)
LockTyped   == wLock \in WarpCalls \cup {NoWarp}
WarpBounded == wOps \in 0..WarpOps /\ wFaults \in 0..WarpOutages
PlacesTyped ==
  /\ wAt \in [WarpCalls -> WarpPlaces]
  /\ wPort \in [WarpCalls -> WarpPorts \cup {NoWarp}]
CopiesTyped ==
  /\ DOMAIN wList = WarpCalls /\ \A c \in WarpCalls : ListTyped(wList[c])
  /\ DOMAIN wRead = WarpCalls /\ \A c \in WarpCalls : PoolTyped(wRead[c])
WarpTyped ==
  /\ ExitsTyped /\ StoreTyped /\ PageTyped /\ LockTyped /\ WarpBounded
  /\ PlacesTyped /\ CopiesTyped

LEMMA WarpTypesAre == WarpTyped => WarpTypeOK
BY DEF WarpTyped, WarpTypeOK, ExitsTyped, StoreTyped, LockTyped, WarpBounded, ListTyped, PoolTyped

\* The step a request is in tells what it does, and the lock who may change the list.
LEMMA WarpSteps ==
  ASSUME PlacesTyped, NEW c \in WarpCalls
  PROVE  /\ InStep(c, "save") => wAt[c] = <<"deploy", "save">> \/ wAt[c] = <<"remove", "save">>
         /\ InStep(c, "read") => \/ wAt[c] = <<"get", "read">>
                                 \/ wAt[c] = <<"deploy", "read">>
                                 \/ wAt[c] = <<"remove", "read">>
         /\ InStep(c, "sync") => \/ wAt[c] = <<"get", "sync">>
                                 \/ wAt[c] = <<"deploy", "sync">>
                                 \/ wAt[c] = <<"remove", "sync">>
         /\ InStep(c, "clean") => wAt[c] = <<"remove", "clean">>
         /\ InStep(c, "recreate") => \/ wAt[c] = <<"restart", "recreate">>
                                     \/ wAt[c] = <<"recreate", "recreate">>
         /\ InStep(c, "merge") => \/ wAt[c] = <<"restart", "merge">>
                                  \/ wAt[c] = <<"recreate", "merge">>
<1>1. wAt[c] \in WarpPlaces
  BY DEF PlacesTyped
<1>2. QED
  BY <1>1 DEF WarpPlaces, WarpIdle, InStep

\* What the pool operations return.
LEMMA PoolReadTyped == ASSUME StoreTyped PROVE PoolTyped(PoolRead)
BY DEF StoreTyped, PoolTyped, PoolRead, WarpEntry

LEMMA ReconciledTyped ==
  ASSUME NEW pool, PoolTyped(pool), NEW list, ListTyped(list)
  PROVE  PoolTyped(Reconciled(pool, list))
<1> DEFINE kept == {u \in DOMAIN pool : pool[u].warp => u \in LiveExits(list)}
<1>1. LiveExits(list) \subseteq WarpUrls /\ kept \subseteq DOMAIN pool
  BY DEF LiveExits, ListTyped, WarpUrls
<1>2. [warp |-> TRUE, on |-> TRUE] \in WarpEntry
  BY DEF WarpEntry
<1>3. Reconciled(pool, list) =
        [u \in kept \cup LiveExits(list) |->
           IF u \in kept THEN pool[u] ELSE [warp |-> TRUE, on |-> TRUE]]
  BY DEF Reconciled
<1> HIDE DEF kept
<1>4. QED
  BY <1>1, <1>2, <1>3 DEF PoolTyped

LEMMA PoolSaveTyped ==
  ASSUME NEW pool, PoolTyped(pool), PoolSave(pool)
  PROVE  StoreTyped'
BY DEF PoolSave, StoreTyped, PoolTyped

LEMMA EditedTyped ==
  ASSUME PageTyped, NEW pool \in Edited
  PROVE  PoolTyped(pool)
<1>1. CASE \E u \in DOMAIN wPage : pool = [wPage EXCEPT ![u].on = ~@]
  <2>1. PICK u \in DOMAIN wPage : pool = [wPage EXCEPT ![u].on = ~@]
    BY <1>1
  <2>2. DOMAIN pool = DOMAIN wPage /\ \A v \in DOMAIN wPage : v # u => pool[v] = wPage[v]
    BY <2>1
  <2>3. pool[u] \in WarpEntry
    <3>1. wPage[u] \in WarpEntry
      BY DEF PageTyped, PoolTyped
    <3>2. pool[u] = [wPage[u] EXCEPT !.on = ~@]
      BY <2>1
    <3>3. QED
      BY <3>1, <3>2, Zenon DEF WarpEntry
  <2>4. QED
    BY <2>2, <2>3 DEF PageTyped, PoolTyped
<1>2. CASE \E u \in WarpUrls \ DOMAIN wPage :
             pool = [v \in DOMAIN wPage \cup {u} |->
                       IF v = u THEN [warp |-> FALSE, on |-> TRUE] ELSE wPage[v]]
  BY <1>2 DEF PageTyped, PoolTyped, WarpEntry
<1>3. CASE \E u \in DOMAIN wPage : pool = Restrict(wPage, DOMAIN wPage \ {u})
  BY <1>3 DEF PageTyped, PoolTyped, Restrict
<1>4. QED
  BY <1>1, <1>2, <1>3 DEF Edited

\* A request that is over.
LEMMA OverTyped ==
  ASSUME PlacesTyped, CopiesTyped, NEW c \in WarpCalls, Over(c)
  PROVE  PlacesTyped' /\ CopiesTyped'
<1>1. PlacesTyped'
  BY DEF PlacesTyped, Over, WarpPlaces
<1>2. ListTyped(Nothing) /\ PoolTyped(Nothing)
  BY DEF ListTyped, PoolTyped, Nothing
<1>3. CopiesTyped'
  BY <1>2 DEF CopiesTyped, Over
<1>4. QED
  BY <1>1, <1>3

LEMMA WarpInitTyped == WarpInit => WarpTyped
<1> SUFFICES ASSUME WarpInit PROVE WarpTyped
  OBVIOUS
<1>1. ListTyped(Nothing) /\ PoolTyped(Nothing) /\ DOMAIN Nothing = {}
  BY DEF ListTyped, PoolTyped, Nothing
<1>2. ListTyped(wInsts)
  <2>1. ASSUME NEW q \in WarpPorts PROVE ListTyped([p \in {q} |-> FALSE])
    BY DEF ListTyped
  <2>2. QED
    BY <1>1, <2>1 DEF WarpInit
<1>3. ExitsTyped
  BY <1>2 DEF ExitsTyped, WarpInit, ListTyped
<1>4. StoreTyped
  BY <1>1, <1>2 DEF StoreTyped, WarpInit, ListTyped, WarpUrls
<1>5. PageTyped
  BY <1>1 DEF PageTyped, WarpInit
<1>6. LockTyped
  BY DEF LockTyped, WarpInit
<1>7. WarpBounded
  BY WarpAssumption DEF WarpBounded, WarpInit
<1>8. PlacesTyped
  BY DEF PlacesTyped, WarpInit, WarpPlaces
<1>9. CopiesTyped
  BY <1>1 DEF CopiesTyped, WarpInit
<1>10. QED
  BY <1>3, <1>4, <1>5, <1>6, <1>7, <1>8, <1>9 DEF WarpTyped

\* A request that begins: one more operation, and the place it goes to.
LEMMA BeginTyped ==
  ASSUME PlacesTyped, WarpBounded, NEW c \in WarpCalls, NEW op, NEW step,
         WarpBegin(c, op, step), <<op, step>> \in WarpPlaces, UNCHANGED wFaults
  PROVE  wAt' \in [WarpCalls -> WarpPlaces] /\ WarpBounded'
BY WarpAssumption DEF WarpBegin, PlacesTyped, WarpBounded

LEMMA WarpCallTyped ==
  ASSUME WarpTyped, NEW c \in WarpCalls,
         \/ WarpGet(c) \/ WarpDeploy(c) \/ WarpRemove(c) \/ WarpSave(c) \/ WarpRead(c)
         \/ WarpSync(c) \/ WarpClean(c) \/ WarpRestart(c) \/ WarpRecreate(c)
         \/ WarpRestarted(c) \/ WarpRecreated(c)
  PROVE  WarpTyped'
<1> USE DEF WarpTyped
<1>0. LockTyped /\ c \in WarpCalls /\ DOMAIN wAt = WarpCalls /\ DOMAIN wPort = WarpCalls
      /\ DOMAIN wList = WarpCalls /\ DOMAIN wRead = WarpCalls
  BY DEF PlacesTyped, CopiesTyped
<1>p. PoolTyped(PoolRead)
  BY PoolReadTyped
<1>1. CASE WarpGet(c)
  <2>1. wAt' \in [WarpCalls -> WarpPlaces] /\ WarpBounded'
    BY <1>1, BeginTyped DEF WarpGet, WarpPlaces
  <2>2. ListTyped(wInsts')
    BY <1>1 DEF WarpGet, ExitsTyped, ListTyped
  <2>3. CopiesTyped'
    BY <1>0, <1>1, <2>2 DEF WarpGet, CopiesTyped
  <2>4. QED
    BY <1>1, <2>1, <2>2, <2>3 DEF WarpGet, PlacesTyped, ExitsTyped, StoreTyped, PageTyped, LockTyped
<1>2. CASE WarpDeploy(c)
  <2>1. PICK p \in WarpPorts, error \in BOOLEAN :
          /\ WarpBegin(c, "deploy", "save") /\ UNCHANGED wFaults
          /\ BoxRuns(p, error)
          /\ wLock' = c
          /\ wPort' = [wPort EXCEPT ![c] = p]
          /\ wList' = [wList EXCEPT ![c] = [q \in DOMAIN wInsts \cup {p} |->
                                              IF q = p THEN error ELSE wInsts[q]]]
    BY <1>2 DEF WarpDeploy
  <2>2. wAt' \in [WarpCalls -> WarpPlaces] /\ WarpBounded'
    BY <2>1, BeginTyped DEF WarpPlaces
  <2>3. wBoxes' \subseteq WarpPorts
    BY <2>1 DEF BoxRuns, ExitsTyped
  <2>4. ListTyped([q \in DOMAIN wInsts \cup {p} |-> IF q = p THEN error ELSE wInsts[q]])
    BY DEF ListTyped, ExitsTyped
  <2>5. UNCHANGED wRead
    BY <1>2 DEF WarpDeploy
  <2>6. CopiesTyped'
    BY <1>0, <2>1, <2>4, <2>5 DEF CopiesTyped
  <2>7. PlacesTyped'
    BY <2>1, <2>2 DEF PlacesTyped
  <2>8. UNCHANGED <<wInsts, wPool, wKept, wMirror, wPage>>
    BY <1>2 DEF WarpDeploy
  <2>9. QED
    BY <2>1, <2>2, <2>3, <2>6, <2>7, <2>8 DEF ExitsTyped, StoreTyped, PageTyped, LockTyped
<1>3. CASE WarpRemove(c)
  <2>1. PICK p \in WarpPorts :
          /\ WarpBegin(c, "remove", "save") /\ UNCHANGED wFaults
          /\ wBoxes' = wBoxes \ {p}
          /\ wLock' = c
          /\ wPort' = [wPort EXCEPT ![c] = p]
          /\ wList' = [wList EXCEPT ![c] = Restrict(wInsts, DOMAIN wInsts \ {p})]
    BY <1>3 DEF WarpRemove
  <2>2. wAt' \in [WarpCalls -> WarpPlaces] /\ WarpBounded'
    BY <2>1, BeginTyped DEF WarpPlaces
  <2>3. ListTyped(Restrict(wInsts, DOMAIN wInsts \ {p}))
    BY DEF ListTyped, ExitsTyped, Restrict
  <2>4. UNCHANGED <<wRead, wInsts, wPool, wKept, wMirror, wPage>>
    BY <1>3 DEF WarpRemove
  <2>5. CopiesTyped'
    BY <1>0, <2>1, <2>3, <2>4 DEF CopiesTyped
  <2>6. PlacesTyped'
    BY <2>1, <2>2 DEF PlacesTyped
  <2>7. QED
    BY <2>1, <2>2, <2>4, <2>5, <2>6 DEF ExitsTyped, StoreTyped, PageTyped, LockTyped
<1>4. CASE WarpSave(c)
  <2>1. wAt' \in [WarpCalls -> WarpPlaces]
    <3>1. wAt' = [wAt EXCEPT ![c] = <<wAt[c][1], "read">>]
      BY <1>0, <1>4 DEF WarpSave
    <3>2. <<wAt[c][1], "read">> \in WarpPlaces
      BY <1>4, WarpSteps DEF WarpSave, WarpPlaces
    <3>3. QED
      BY <3>1, <3>2 DEF PlacesTyped
  <2>2. ListTyped(wInsts')
    BY <1>4 DEF WarpSave, CopiesTyped
  <2>3. QED
    BY <1>4, <2>1, <2>2 DEF WarpSave, PlacesTyped, CopiesTyped, ExitsTyped, StoreTyped,
       PageTyped, LockTyped, WarpBounded
<1>5. CASE WarpRead(c)
  <2>1. wAt' \in [WarpCalls -> WarpPlaces]
    <3>1. wAt' = [wAt EXCEPT ![c] = <<wAt[c][1], "sync">>]
      BY <1>0, <1>5 DEF WarpRead, SyncStarts
    <3>2. <<wAt[c][1], "sync">> \in WarpPlaces
      BY <1>5, WarpSteps DEF WarpRead, WarpPlaces
    <3>3. QED
      BY <3>1, <3>2 DEF PlacesTyped
  <2>2. CopiesTyped'
    BY <1>0, <1>5, <1>p DEF WarpRead, SyncStarts, CopiesTyped
  <2>3. QED
    BY <1>5, <2>1, <2>2 DEF WarpRead, PlacesTyped, ExitsTyped, StoreTyped,
       PageTyped, LockTyped, WarpBounded
<1>6. CASE WarpSync(c)
  <2>1. PoolTyped(Reconciled(wRead[c], wList[c]))
    BY ReconciledTyped DEF CopiesTyped
  <2>2. StoreTyped'
    BY <1>6, <2>1, PoolSaveTyped DEF WarpSync, SyncSaves
  <2>3. CASE InCall(c, "remove")
    <3>1. wAt' \in [WarpCalls -> WarpPlaces]
      BY <1>6, <2>3 DEF WarpSync, PlacesTyped, WarpPlaces
    <3>2. QED
      BY <1>6, <2>2, <2>3, <3>1 DEF WarpSync, PlacesTyped, CopiesTyped, ExitsTyped,
         PageTyped, LockTyped, WarpBounded
  <2>4. CASE ~ InCall(c, "remove")
    <3>1. Over(c) /\ (wLock' = IF wLock = c THEN NoWarp ELSE wLock)
      BY <1>6, <2>4 DEF WarpSync
    <3>2. QED
      BY <1>6, <2>2, <3>1, OverTyped DEF WarpSync, ExitsTyped, PageTyped, LockTyped, WarpBounded
  <2>5. QED
    BY <2>3, <2>4
<1>7. CASE WarpClean(c)
  BY <1>7, OverTyped DEF WarpClean, ExitsTyped, StoreTyped, PageTyped, LockTyped, WarpBounded
<1>8. CASE WarpRestart(c)
  <2>1. \/ /\ WarpBegin(c, "restart", "recreate")
           /\ wList' = [wList EXCEPT ![c] = wInsts]
        \/ /\ WarpBegin(c, "recreate", "recreate")
           /\ \E p \in DOMAIN wInsts : wList' = [wList EXCEPT ![c] = Restrict(wInsts, {p})]
    BY <1>8 DEF WarpRestart
  <2>2. UNCHANGED <<wBoxes, wInsts, wPool, wKept, wMirror, wLock, wPort, wRead, wPage, wFaults>>
    BY <1>8 DEF WarpRestart
  <2>3. wAt' \in [WarpCalls -> WarpPlaces] /\ WarpBounded'
    BY <2>1, <2>2, BeginTyped DEF WarpPlaces
  <2>4. ListTyped(wInsts) /\ \A p \in DOMAIN wInsts : ListTyped(Restrict(wInsts, {p}))
    BY DEF ExitsTyped, ListTyped, Restrict
  <2>5. CopiesTyped'
    BY <1>0, <2>1, <2>2, <2>4 DEF CopiesTyped
  <2>6. QED
    BY <2>2, <2>3, <2>5 DEF PlacesTyped, ExitsTyped, StoreTyped, PageTyped, LockTyped
<1>9. CASE WarpRecreate(c)
  <2>1. PICK p \in DOMAIN wList[c], error \in BOOLEAN :
          /\ BoxRuns(p, error)
          /\ wList' = [wList EXCEPT ![c][p] = error]
    BY <1>9 DEF WarpRecreate
  <2>2. wAt' = wAt \/ wAt' = [wAt EXCEPT ![c] = <<wAt[c][1], "merge">>]
    BY <1>0, <1>9 DEF WarpRecreate
  <2>3. <<wAt[c][1], "merge">> \in WarpPlaces
    BY <1>9, WarpSteps DEF WarpRecreate, WarpPlaces
  <2>4. ListTyped(wList[c])
    BY DEF CopiesTyped
  <2>5. wBoxes' \subseteq WarpPorts
    BY <2>1, <2>4 DEF BoxRuns, ExitsTyped, ListTyped
  <2>6. ListTyped(wList'[c]) /\ \A d \in WarpCalls : d # c => wList'[d] = wList[d]
    BY <1>0, <2>1, <2>4 DEF ListTyped
  <2>7. DOMAIN wList' = WarpCalls
    BY <1>0, <2>1
  <2>8. UNCHANGED <<wInsts, wPool, wKept, wMirror, wLock, wPort, wRead, wPage, wOps, wFaults>>
    BY <1>9 DEF WarpRecreate
  <2>9. CopiesTyped'
    BY <2>6, <2>7, <2>8 DEF CopiesTyped
  <2>10. PlacesTyped'
    BY <2>2, <2>3, <2>8 DEF PlacesTyped
  <2>11. QED
    BY <2>5, <2>8, <2>9, <2>10 DEF ExitsTyped, StoreTyped, PageTyped, LockTyped, WarpBounded
<1>10. CASE WarpRestarted(c)
  <2>1. ListTyped(wList[c])
    BY DEF CopiesTyped
  <2>2. StoreTyped'
    <3>1. wMirror' \subseteq wMirror \cup DOMAIN PoolRead \cup LiveExits(wList[c])
      BY <1>10 DEF WarpRestarted
    <3>2. DOMAIN PoolRead \subseteq WarpUrls /\ LiveExits(wList[c]) \subseteq WarpUrls
      BY <1>p, <2>1 DEF PoolTyped, ListTyped, LiveExits, WarpUrls
    <3>3. QED
      BY <1>10, <3>1, <3>2 DEF WarpRestarted, StoreTyped
  <2>3. QED
    BY <1>10, <2>1, <2>2, OverTyped DEF WarpRestarted, ExitsTyped, PageTyped, LockTyped, WarpBounded
<1>11. CASE WarpRecreated(c)
  <2>1. ListTyped(wInsts')
    BY <1>11 DEF WarpRecreated, CopiesTyped, ListTyped, ExitsTyped
  <2>2. QED
    BY <1>11, <2>1, OverTyped DEF WarpRecreated, ExitsTyped, StoreTyped, PageTyped, LockTyped,
       WarpBounded
<1>12. QED
  BY <1>1, <1>2, <1>3, <1>4, <1>5, <1>6, <1>7, <1>8, <1>9, <1>10, <1>11

LEMMA WarpOtherTyped ==
  ASSUME WarpTyped,
         \/ WarpPush \/ WarpProbe \/ PageLoad \/ PageSave \/ BoxRemoved \/ WarpCrash
         \/ UNCHANGED warpVars
  PROVE  WarpTyped'
<1> USE DEF WarpTyped
<1>p. PoolTyped(PoolRead)
  BY PoolReadTyped
<1>1. CASE WarpPush
  <2>1. DOMAIN wInsts \subseteq WarpUrls
    BY DEF ExitsTyped, ListTyped, WarpUrls
  <2>2. StoreTyped'
    BY <1>1, <1>p, <2>1 DEF WarpPush, StoreTyped, PoolTyped
  <2>3. ExitsTyped'
    BY <1>1 DEF WarpPush, ExitsTyped, ListTyped
  <2>4. WarpBounded'
    BY <1>1, WarpAssumption DEF WarpPush, WarpBounded
  <2>5. QED
    BY <1>1, <2>2, <2>3, <2>4 DEF WarpPush, warpCall, PlacesTyped, CopiesTyped, PageTyped, LockTyped
<1>2. CASE WarpProbe
  <2>1. ExitsTyped'
    BY <1>2 DEF WarpProbe, ExitsTyped, ListTyped
  <2>2. QED
    BY <1>2, <2>1 DEF WarpProbe, warpCall, PlacesTyped, CopiesTyped, StoreTyped, PageTyped,
       LockTyped, WarpBounded
<1>3. CASE PageLoad
  BY <1>3, <1>p DEF PageLoad, warpCall, PlacesTyped, CopiesTyped, ExitsTyped, StoreTyped,
     PageTyped, LockTyped, WarpBounded
<1>4. CASE PageSave
  <2>1. PICK pool \in Edited : PoolSave(pool) /\ wPage' = pool
    BY <1>4 DEF PageSave
  <2>2. StoreTyped' /\ PageTyped'
    BY <2>1, EditedTyped, PoolSaveTyped DEF PageTyped
  <2>3. WarpBounded'
    BY <1>4, WarpAssumption DEF PageSave, WarpBounded
  <2>4. QED
    BY <1>4, <2>2, <2>3 DEF PageSave, warpCall, PlacesTyped, CopiesTyped, ExitsTyped, LockTyped
<1>5. CASE BoxRemoved
  <2>1. WarpBounded'
    BY <1>5, WarpAssumption DEF BoxRemoved, WarpBounded
  <2>2. QED
    BY <1>5, <2>1 DEF BoxRemoved, warpCall, PlacesTyped, CopiesTyped, ExitsTyped, StoreTyped,
       PageTyped, LockTyped
<1>6. CASE WarpCrash
  <2>1. WarpBounded'
    BY <1>6, WarpAssumption DEF WarpCrash, WarpBounded
  <2>2. ListTyped(Nothing) /\ PoolTyped(Nothing)
    BY DEF ListTyped, PoolTyped, Nothing
  <2>3. CopiesTyped'
    BY <1>6, <2>2 DEF WarpCrash, CopiesTyped
  <2>4. PlacesTyped'
    BY <1>6 DEF WarpCrash, PlacesTyped, WarpPlaces
  <2>5. QED
    BY <1>6, <2>1, <2>3, <2>4 DEF WarpCrash, ExitsTyped, StoreTyped, PageTyped, LockTyped
<1>7. CASE UNCHANGED warpVars
  BY <1>7 DEF warpVars, warpCall, PlacesTyped, CopiesTyped, ExitsTyped, StoreTyped, PageTyped,
     LockTyped, WarpBounded
<1>8. QED
  BY <1>1, <1>2, <1>3, <1>4, <1>5, <1>6, <1>7

-----------------------------------------------------------------------------
(* Exits: the lock                                                         *)

WarpCallStep(c) ==
  \/ WarpGet(c) \/ WarpDeploy(c) \/ WarpRemove(c) \/ WarpSave(c) \/ WarpRead(c)
  \/ WarpSync(c) \/ WarpClean(c) \/ WarpRestart(c) \/ WarpRecreate(c)
  \/ WarpRestarted(c) \/ WarpRecreated(c)
WarpOtherStep ==
  \/ WarpPush \/ WarpProbe \/ PageLoad \/ PageSave \/ BoxRemoved \/ WarpCrash
  \/ UNCHANGED warpVars

\* Deploy and Remove hold the lock from the first step to the last.
Locked(c) == InCall(c, "deploy") \/ InCall(c, "remove")
WarpLocking == \A c \in WarpCalls : Locked(c) => wLock = c /\ wPort[c] \in WarpPorts

\* A request moves itself only.
LEMMA CallAlone ==
  ASSUME PlacesTyped, CopiesTyped, NEW c \in WarpCalls, WarpCallStep(c),
         NEW d \in WarpCalls, d # c
  PROVE  wAt'[d] = wAt[d] /\ wPort'[d] = wPort[d] /\ wList'[d] = wList[d] /\ wRead'[d] = wRead[d]
<1> USE DEF PlacesTyped, CopiesTyped
<1>1. CASE WarpGet(c)
  BY <1>1 DEF WarpGet, WarpBegin
<1>2. CASE WarpDeploy(c)
  BY <1>2 DEF WarpDeploy, WarpBegin
<1>3. CASE WarpRemove(c)
  BY <1>3 DEF WarpRemove, WarpBegin
<1>4. CASE WarpSave(c)
  BY <1>4 DEF WarpSave
<1>5. CASE WarpRead(c)
  BY <1>5 DEF WarpRead, SyncStarts
<1>6. CASE WarpSync(c)
  BY <1>6 DEF WarpSync, SyncSaves, Over
<1>7. CASE WarpClean(c)
  BY <1>7 DEF WarpClean, Over
<1>8. CASE WarpRestart(c)
  BY <1>8 DEF WarpRestart, WarpBegin
<1>9. CASE WarpRecreate(c)
  BY <1>9 DEF WarpRecreate
<1>10. CASE WarpRestarted(c)
  BY <1>10 DEF WarpRestarted, Over
<1>11. CASE WarpRecreated(c)
  BY <1>11 DEF WarpRecreated, Over
<1>12. QED
  BY <1>1, <1>2, <1>3, <1>4, <1>5, <1>6, <1>7, <1>8, <1>9, <1>10, <1>11 DEF WarpCallStep

\* Where each operation leaves its request.
LEMMA CallGoes ==
  ASSUME PlacesTyped, NEW c \in WarpCalls
  PROVE  /\ WarpGet(c) => wAt[c] = WarpIdle /\ wAt'[c] = <<"get", "read">>
         /\ WarpDeploy(c) => wAt[c] = WarpIdle /\ wAt'[c] = <<"deploy", "save">>
         /\ WarpRemove(c) => wAt[c] = WarpIdle /\ wAt'[c] = <<"remove", "save">>
         /\ WarpSave(c) => \/ wAt[c] = <<"deploy", "save">> /\ wAt'[c] = <<"deploy", "read">>
                           \/ wAt[c] = <<"remove", "save">> /\ wAt'[c] = <<"remove", "read">>
         /\ WarpRead(c) => \/ wAt[c] = <<"get", "read">> /\ wAt'[c] = <<"get", "sync">>
                           \/ wAt[c] = <<"deploy", "read">> /\ wAt'[c] = <<"deploy", "sync">>
                           \/ wAt[c] = <<"remove", "read">> /\ wAt'[c] = <<"remove", "sync">>
         /\ WarpSync(c) => \/ wAt[c] = <<"get", "sync">> /\ wAt'[c] = WarpIdle
                           \/ wAt[c] = <<"deploy", "sync">> /\ wAt'[c] = WarpIdle
                           \/ wAt[c] = <<"remove", "sync">> /\ wAt'[c] = <<"remove", "clean">>
         /\ WarpClean(c) => wAt[c] = <<"remove", "clean">> /\ wAt'[c] = WarpIdle
         /\ WarpRestart(c) => /\ wAt[c] = WarpIdle
                              /\ \/ wAt'[c] = <<"restart", "recreate">>
                                 \/ wAt'[c] = <<"recreate", "recreate">>
         /\ WarpRecreate(c) =>
              \/ /\ wAt[c] = <<"restart", "recreate">>
                 /\ wAt'[c] \in {<<"restart", "recreate">>, <<"restart", "merge">>}
              \/ /\ wAt[c] = <<"recreate", "recreate">>
                 /\ wAt'[c] \in {<<"recreate", "recreate">>, <<"recreate", "merge">>}
         /\ WarpRestarted(c) => wAt[c] = <<"restart", "merge">> /\ wAt'[c] = WarpIdle
         /\ WarpRecreated(c) => wAt[c] = <<"recreate", "merge">> /\ wAt'[c] = WarpIdle
<1> DOMAIN wAt = WarpCalls
  BY DEF PlacesTyped
<1>1. WarpGet(c) => wAt[c] = WarpIdle /\ wAt'[c] = <<"get", "read">>
  BY DEF WarpGet, WarpBegin
<1>2. WarpDeploy(c) => wAt[c] = WarpIdle /\ wAt'[c] = <<"deploy", "save">>
  BY DEF WarpDeploy, WarpBegin
<1>3. WarpRemove(c) => wAt[c] = WarpIdle /\ wAt'[c] = <<"remove", "save">>
  BY DEF WarpRemove, WarpBegin
<1>4. WarpSave(c) => \/ wAt[c] = <<"deploy", "save">> /\ wAt'[c] = <<"deploy", "read">>
                     \/ wAt[c] = <<"remove", "save">> /\ wAt'[c] = <<"remove", "read">>
  BY WarpSteps DEF WarpSave
<1>5. WarpRead(c) => \/ wAt[c] = <<"get", "read">> /\ wAt'[c] = <<"get", "sync">>
                     \/ wAt[c] = <<"deploy", "read">> /\ wAt'[c] = <<"deploy", "sync">>
                     \/ wAt[c] = <<"remove", "read">> /\ wAt'[c] = <<"remove", "sync">>
  BY WarpSteps DEF WarpRead, SyncStarts
<1>6. WarpSync(c) => \/ wAt[c] = <<"get", "sync">> /\ wAt'[c] = WarpIdle
                     \/ wAt[c] = <<"deploy", "sync">> /\ wAt'[c] = WarpIdle
                     \/ wAt[c] = <<"remove", "sync">> /\ wAt'[c] = <<"remove", "clean">>
  BY WarpSteps DEF WarpSync, InCall, Over
<1>7. WarpClean(c) => wAt[c] = <<"remove", "clean">> /\ wAt'[c] = WarpIdle
  BY WarpSteps DEF WarpClean, Over
<1>8. WarpRestart(c) => /\ wAt[c] = WarpIdle
                        /\ \/ wAt'[c] = <<"restart", "recreate">>
                           \/ wAt'[c] = <<"recreate", "recreate">>
  BY DEF WarpRestart, WarpBegin
<1>9. WarpRecreate(c) =>
        \/ /\ wAt[c] = <<"restart", "recreate">>
           /\ wAt'[c] \in {<<"restart", "recreate">>, <<"restart", "merge">>}
        \/ /\ wAt[c] = <<"recreate", "recreate">>
           /\ wAt'[c] \in {<<"recreate", "recreate">>, <<"recreate", "merge">>}
  BY WarpSteps DEF WarpRecreate
<1>10. WarpRestarted(c) => wAt[c] = <<"restart", "merge">> /\ wAt'[c] = WarpIdle
  BY WarpSteps DEF WarpRestarted, InCall, Over
<1>11. WarpRecreated(c) => wAt[c] = <<"recreate", "merge">> /\ wAt'[c] = WarpIdle
  BY WarpSteps DEF WarpRecreated, InCall, Over
<1>12. QED
  BY <1>1, <1>2, <1>3, <1>4, <1>5, <1>6, <1>7, <1>8, <1>9, <1>10, <1>11

\* What the lock says about the others.
LEMMA LockSays ==
  ASSUME PlacesTyped, WarpLocking, NEW c \in WarpCalls
  PROVE  /\ InStep(c, "save") \/ InStep(c, "clean") => Locked(c)
         /\ Locked(c) => wLock = c /\ wLock # NoWarp /\ wPort[c] \in WarpPorts
         /\ InCall(c, "restart") => InStep(c, "recreate") \/ InStep(c, "merge")
<1>1. wAt[c] \in WarpPlaces
  BY DEF PlacesTyped
<1>2. InCall(c, "restart") => InStep(c, "recreate") \/ InStep(c, "merge")
  BY <1>1 DEF WarpPlaces, WarpIdle, InCall, InStep
<1>3. QED
  BY <1>2, WarpSteps, WarpAssumption DEF WarpLocking, Locked, InCall

LEMMA LockingKept ==
  ASSUME WarpTyped, WarpLocking, WarpOtherStep \/ \E c \in WarpCalls : WarpCallStep(c)
  PROVE  WarpLocking'
<1> USE DEF WarpTyped
<1>1. ASSUME NEW c \in WarpCalls, WarpCallStep(c), NEW d \in WarpCalls, Locked(d)'
      PROVE  wLock' = d /\ wPort'[d] \in WarpPorts
  <2>0. DOMAIN wPort = WarpCalls /\ DOMAIN wAt = WarpCalls
    BY DEF PlacesTyped
  <2>1. CASE WarpDeploy(c) \/ WarpRemove(c)
    <3>1. wLock = NoWarp /\ wLock' = c /\ wPort'[c] \in WarpPorts
      BY <2>0, <2>1 DEF WarpDeploy, WarpRemove
    <3>2. d # c => Locked(d)
      BY <1>1, CallAlone DEF Locked, InCall
    <3>3. QED
      BY <3>1, <3>2, LockSays
  <2>2. CASE d # c /\ ~ (WarpDeploy(c) \/ WarpRemove(c))
    <3>1. Locked(d) /\ wPort'[d] = wPort[d]
      BY <1>1, <2>2, CallAlone DEF Locked, InCall
    <3>2. wLock = d /\ wPort[d] \in WarpPorts
      BY <3>1, LockSays
    <3>3. ~ WarpClean(c)
      BY <2>2, <3>2, LockSays DEF WarpClean
    <3>4. wLock' = wLock \/ (wLock = c /\ wLock' = NoWarp)
      BY <1>1, <2>2, <3>3 DEF WarpCallStep, WarpGet, WarpSave, WarpRead, WarpSync, WarpRestart,
         WarpRecreate, WarpRestarted, WarpRecreated
    <3>5. QED
      BY <2>2, <3>1, <3>2, <3>4
  <2>3. CASE d = c /\ ~ (WarpDeploy(c) \/ WarpRemove(c))
    <3>1. WarpSave(c) \/ WarpRead(c) \/ (WarpSync(c) /\ wAt[c] = <<"remove", "sync">>)
      BY <1>1, <2>3, CallGoes DEF WarpCallStep, Locked, InCall, WarpIdle
    <3>2. Locked(c)
      BY <1>1, <2>3, <3>1, CallGoes DEF Locked, InCall, WarpIdle
    <3>3. UNCHANGED <<wLock, wPort>>
      BY <3>1 DEF WarpSave, WarpRead, WarpSync, InCall
    <3>4. QED
      BY <2>3, <3>2, <3>3, LockSays
  <2>4. QED
    BY <2>1, <2>2, <2>3
<1>2. CASE WarpCrash
  BY <1>2 DEF WarpCrash, WarpLocking, Locked, InCall, WarpIdle
<1>3. CASE WarpOtherStep /\ ~ WarpCrash
  BY <1>3 DEF WarpOtherStep, WarpPush, WarpProbe, PageLoad, PageSave, BoxRemoved, warpVars,
     warpCall, WarpLocking, Locked, InCall
<1>4. QED
  BY <1>1, <1>2, <1>3 DEF WarpLocking, Locked, InCall

-----------------------------------------------------------------------------
(* Exits: containers and instances                                         *)

\* The copy of the list a request is about to save; a removed container is back
\* only when containers are being recreated.
SaveKnows(c) ==
  InStep(c, "save") =>
    /\ InCall(c, "deploy") => DOMAIN wList[c] = DOMAIN wInsts \cup {wPort[c]}
    /\ InCall(c, "remove") => /\ DOMAIN wList[c] = DOMAIN wInsts \ {wPort[c]}
                              /\ wPort[c] \in wBoxes => Recreating # {}

\* What recreating containers may bring to light, and what RestartAll may forget.
CopyKnows(c) ==
  InStep(c, "recreate") \/ InStep(c, "merge") => DOMAIN wList[c] \subseteq DOMAIN wInsts \cup wRaced
RestartKnows(c) ==
  InCall(c, "restart") => DOMAIN wInsts \subseteq DOMAIN wList[c] \cup wRaced

BoxInv ==
  /\ BoxesKnown
  /\ \A c \in WarpCalls : SaveKnows(c) /\ CopyKnows(c) /\ RestartKnows(c)

\* Steps that leave the list's domain alone and save nothing under the lock.
LEMMA ListStays ==
  ASSUME WarpTyped, WarpLocking, BoxInv, DOMAIN wInsts' = DOMAIN wInsts,
         wBoxes' \subseteq wBoxes \cup wRaced \cup DOMAIN wInsts, wRaced' = wRaced,
         NEW c \in WarpCalls, WarpCallStep(c), ~ WarpDeploy(c), ~ WarpRemove(c), ~ WarpSave(c)
  PROVE  /\ BoxesKnown'
         /\ \A d \in WarpCalls : d # c => CopyKnows(d)' /\ RestartKnows(d)'
<1> USE DEF WarpTyped
<1>1. ASSUME NEW d \in WarpCalls, InStep(d, "save")
      PROVE  InStep(d, "save")' /\ wPort'[d] = wPort[d]
  <2>1. d # c
    BY <1>1, CallGoes, WarpSteps DEF WarpCallStep, InStep, WarpIdle
  <2>2. QED
    BY <1>1, <2>1, CallAlone DEF InStep
<1>2. BoxesKnown'
  BY <1>1 DEF BoxInv, BoxesKnown
<1>3. ASSUME NEW d \in WarpCalls, d # c
      PROVE  CopyKnows(d)' /\ RestartKnows(d)'
  BY <1>3, CallAlone DEF BoxInv, CopyKnows, RestartKnows, InStep, InCall
<1>4. QED
  BY <1>2, <1>3

\* While a request saves under the lock, the others may add containers only where
\* they recreate them.
LEMMA SaveStays ==
  ASSUME WarpTyped, WarpLocking, BoxInv, wInsts' = wInsts, wLock' = wLock,
         NEW c \in WarpCalls, WarpCallStep(c), WarpRecreate(c) \/ wBoxes' \subseteq wBoxes,
         InStep(c, "recreate") \/ InStep(c, "merge")
           => InStep(c, "recreate")' \/ InStep(c, "merge")',
         NEW d \in WarpCalls, d # c
  PROVE  SaveKnows(d)'
<1>1. wAt'[d] = wAt[d] /\ wPort'[d] = wPort[d] /\ wList'[d] = wList[d]
  BY CallAlone DEF WarpTyped
<1>2. Recreating # {} => Recreating' # {}
  <2>1. ASSUME NEW e \in Recreating
        PROVE  e \in Recreating'
    <3>1. e \in WarpCalls /\ (InStep(e, "recreate") \/ InStep(e, "merge"))
      BY DEF Recreating
    <3>2. e # c => wAt'[e] = wAt[e]
      BY <3>1, CallAlone DEF WarpTyped
    <3>3. QED
      BY <3>1, <3>2 DEF Recreating, InStep
  <2>2. QED
    BY <2>1
<1>3. WarpRecreate(c) => Recreating' # {}
  BY CallGoes DEF WarpTyped, Recreating, InStep
<1>4. QED
  BY <1>1, <1>2, <1>3 DEF BoxInv, SaveKnows, InStep, InCall

LEMMA BoxCallKept ==
  ASSUME WarpTyped, WarpLocking, BoxInv, NEW c \in WarpCalls, WarpCallStep(c)
  PROVE  BoxInv'
<1> USE DEF WarpTyped
<1>a. /\ DOMAIN wPort = WarpCalls /\ DOMAIN wAt = WarpCalls /\ DOMAIN wList = WarpCalls
  BY DEF PlacesTyped, CopiesTyped
<1>b. BoxesKnown /\ \A d \in WarpCalls : SaveKnows(d) /\ CopyKnows(d) /\ RestartKnows(d)
  BY DEF BoxInv
\* Nobody saves while the lock is free, or a step ago.
<1>c. ASSUME wLock = NoWarp, ~ WarpDeploy(c), ~ WarpRemove(c), NEW d \in WarpCalls
      PROVE  SaveKnows(d)'
  <2>1. ~ InStep(d, "save")
    BY <1>c, LockSays
  <2>2. ~ InStep(d, "save")'
    BY <1>c, <2>1, CallAlone, CallGoes DEF WarpCallStep, InStep, WarpIdle
  <2>3. QED
    BY <2>2 DEF SaveKnows
<1>1. CASE WarpGet(c)
  <2>1. wLock = NoWarp /\ DOMAIN wInsts' = DOMAIN wInsts /\ wRaced' = wRaced /\ wBoxes' = wBoxes
    BY <1>1 DEF WarpGet, warpPast
  <2>2. wAt[c] = WarpIdle /\ wAt'[c] = <<"get", "read">>
    BY <1>1, CallGoes
  <2>3. ~ WarpDeploy(c) /\ ~ WarpRemove(c) /\ ~ WarpSave(c)
    BY <2>2, CallGoes DEF WarpIdle
  <2>4. CopyKnows(c)' /\ RestartKnows(c)'
    BY <2>2 DEF CopyKnows, RestartKnows, InStep, InCall
  <2>5. QED
    BY <1>c, <2>1, <2>3, <2>4, ListStays DEF BoxInv
<1>2. CASE WarpDeploy(c)
  <2>1. PICK p \in WarpPorts, error \in BOOLEAN :
          /\ wLock = NoWarp
          /\ BoxRuns(p, error)
          /\ wPort' = [wPort EXCEPT ![c] = p]
          /\ wList' = [wList EXCEPT ![c] = [q \in DOMAIN wInsts \cup {p} |->
                                              IF q = p THEN error ELSE wInsts[q]]]
    BY <1>2 DEF WarpDeploy
  <2>2. UNCHANGED <<wInsts, wRaced>>
    BY <1>2 DEF WarpDeploy, warpPast
  <2>3. wAt'[c] = <<"deploy", "save">> /\ wPort'[c] = p
        /\ DOMAIN wList'[c] = DOMAIN wInsts \cup {p}
    BY <1>2, <1>a, <2>1, CallGoes
  <2>4. ASSUME NEW d \in WarpCalls
        PROVE  ~ InStep(d, "save")
    BY <2>1, LockSays
  <2>5. ASSUME NEW d \in WarpCalls, d # c
        PROVE  SaveKnows(d)' /\ CopyKnows(d)' /\ RestartKnows(d)'
    BY <1>b, <2>2, <2>4, <2>5, CallAlone DEF SaveKnows, CopyKnows, RestartKnows, InStep, InCall
  <2>6. SaveKnows(c)' /\ CopyKnows(c)' /\ RestartKnows(c)'
    BY <2>2, <2>3 DEF SaveKnows, CopyKnows, RestartKnows, InStep, InCall
  <2>7. wBoxes' \subseteq wBoxes \cup {p}
    BY <2>1 DEF BoxRuns
  <2>8. BoxesKnown'
    BY <1>b, <2>2, <2>3, <2>4, <2>7 DEF BoxesKnown, InStep
  <2>9. QED
    BY <2>5, <2>6, <2>8 DEF BoxInv
<1>3. CASE WarpRemove(c)
  <2>1. PICK p \in WarpPorts :
          /\ wLock = NoWarp
          /\ wBoxes' = wBoxes \ {p}
          /\ wPort' = [wPort EXCEPT ![c] = p]
          /\ wList' = [wList EXCEPT ![c] = Restrict(wInsts, DOMAIN wInsts \ {p})]
    BY <1>3 DEF WarpRemove
  <2>2. UNCHANGED <<wInsts, wRaced>>
    BY <1>3 DEF WarpRemove, warpPast
  <2>3. wAt'[c] = <<"remove", "save">> /\ wPort'[c] = p
        /\ DOMAIN wList'[c] = DOMAIN wInsts \ {p}
    BY <1>3, <1>a, <2>1, CallGoes DEF Restrict
  <2>4. ASSUME NEW d \in WarpCalls
        PROVE  ~ InStep(d, "save")
    BY <2>1, LockSays
  <2>5. ASSUME NEW d \in WarpCalls, d # c
        PROVE  SaveKnows(d)' /\ CopyKnows(d)' /\ RestartKnows(d)'
    BY <1>b, <2>2, <2>4, <2>5, CallAlone DEF SaveKnows, CopyKnows, RestartKnows, InStep, InCall
  <2>6. SaveKnows(c)' /\ CopyKnows(c)' /\ RestartKnows(c)'
    BY <2>1, <2>2, <2>3 DEF SaveKnows, CopyKnows, RestartKnows, InStep, InCall
  <2>7. BoxesKnown'
    BY <1>b, <2>1, <2>2, <2>4 DEF BoxesKnown, InStep
  <2>8. QED
    BY <2>5, <2>6, <2>7 DEF BoxInv
<1>4. CASE WarpSave(c)
  <2> DEFINE p == wPort[c]
  <2>1. /\ wInsts' = wList[c] /\ wBoxes' = wBoxes /\ wList' = wList /\ wPort' = wPort
        /\ wRaced' = IF Recreating = {} THEN wRaced ELSE wRaced \cup {p}
    BY <1>4 DEF WarpSave
  <2>2. InStep(c, "save") /\ Locked(c) /\ ~ InStep(c, "save")'
    <3>1. InStep(c, "save")
      BY <1>4 DEF WarpSave
    <3>2. ~ InStep(c, "save")'
      BY <1>4, CallGoes DEF InStep
    <3>3. QED
      BY <3>1, <3>2, LockSays
  <2>3. ASSUME NEW d \in WarpCalls, d # c
        PROVE  wAt'[d] = wAt[d] /\ ~ InStep(d, "save")
    BY <2>2, <2>3, CallAlone, LockSays
  <2>4. ASSUME NEW d \in WarpCalls
        PROVE  SaveKnows(d)'
    BY <2>2, <2>3 DEF SaveKnows, InStep
  <2>5. /\ DOMAIN wInsts \subseteq DOMAIN wInsts' \cup {p}
        /\ DOMAIN wInsts' \subseteq DOMAIN wInsts \cup {p}
        /\ p \in wBoxes => p \in DOMAIN wInsts' \/ Recreating # {}
    BY <1>b, <2>1, <2>2 DEF SaveKnows, Locked
  <2>6. BoxesKnown'
    <3>1. ASSUME NEW q \in wBoxes, q # p
          PROVE  q \in DOMAIN wInsts \cup wRaced
      BY <1>b, <2>3, <3>1 DEF BoxesKnown
    <3>2. ASSUME NEW q \in wBoxes
          PROVE  q \in DOMAIN wInsts' \cup wRaced'
      BY <2>1, <2>5, <3>1
    <3>3. QED
      BY <2>1, <3>2 DEF BoxesKnown
  <2>7. ASSUME NEW d \in WarpCalls
        PROVE  CopyKnows(d)' /\ RestartKnows(d)'
    <3>1. CASE d = c
      BY <1>4, <3>1, CallGoes DEF CopyKnows, RestartKnows, InStep, InCall
    <3>2. CASE d # c /\ d \in Recreating
      BY <1>b, <2>1, <2>3, <2>5, <3>2 DEF CopyKnows, RestartKnows, InStep, InCall
    <3>3. CASE d # c /\ d \notin Recreating
      BY <2>3, <3>3, LockSays DEF CopyKnows, RestartKnows, InStep, InCall, Recreating
    <3>4. QED
      BY <3>1, <3>2, <3>3
  <2>8. QED
    BY <2>4, <2>6, <2>7 DEF BoxInv
<1>5. CASE WarpRead(c) \/ WarpSync(c) \/ WarpClean(c)
  <2>1. wInsts' = wInsts /\ wRaced' = wRaced /\ wBoxes' = wBoxes
    BY <1>5 DEF WarpRead, WarpSync, WarpClean, warpPast
  <2>2. /\ ~ WarpDeploy(c) /\ ~ WarpRemove(c) /\ ~ WarpSave(c)
        /\ ~ InStep(c, "recreate") /\ ~ InStep(c, "merge") /\ ~ InStep(c, "save")'
        /\ ~ InStep(c, "recreate")' /\ ~ InStep(c, "merge")' /\ ~ InCall(c, "restart")'
    BY <1>5, CallGoes DEF InStep, InCall, WarpIdle
  <2>3. SaveKnows(c)' /\ CopyKnows(c)' /\ RestartKnows(c)'
    BY <2>2 DEF SaveKnows, CopyKnows, RestartKnows
  <2>4. BoxesKnown' /\ \A d \in WarpCalls : d # c => CopyKnows(d)' /\ RestartKnows(d)'
    BY <2>1, <2>2, ListStays
  <2>5. ASSUME NEW d \in WarpCalls, d # c
        PROVE  SaveKnows(d)'
    <3>1. CASE wLock' = wLock
      BY <2>1, <2>2, <2>5, <3>1, SaveStays
    <3>2. CASE wLock' # wLock
      <4>1. (WarpSync(c) /\ wLock = c) \/ WarpClean(c)
        BY <1>5, <3>2 DEF WarpRead, WarpSync
      <4>2. wLock = c
        BY <4>1, LockSays DEF WarpClean
      <4>3. ~ InStep(d, "save")
        BY <2>5, <4>2, LockSays
      <4>4. QED
        BY <2>5, <4>3, CallAlone DEF SaveKnows, InStep
    <3>3. QED
      BY <3>1, <3>2
  <2>6. QED
    BY <2>3, <2>4, <2>5 DEF BoxInv
<1>6. CASE WarpRestart(c)
  <2>1. wLock = NoWarp /\ wInsts' = wInsts /\ wRaced' = wRaced /\ wBoxes' = wBoxes
    BY <1>6 DEF WarpRestart, warpPast
  <2>2. wAt[c] = WarpIdle
    BY <1>6, CallGoes
  <2>3. ~ WarpDeploy(c) /\ ~ WarpRemove(c) /\ ~ WarpSave(c)
    BY <1>6, CallGoes, WarpSteps DEF WarpIdle
  <2>4. \/ /\ wAt'[c] = <<"restart", "recreate">>
           /\ DOMAIN wList'[c] = DOMAIN wInsts
        \/ /\ wAt'[c] = <<"recreate", "recreate">>
           /\ DOMAIN wList'[c] \subseteq DOMAIN wInsts
    <3>1. CASE WarpBegin(c, "restart", "recreate") /\ wList' = [wList EXCEPT ![c] = wInsts]
      BY <1>a, <3>1 DEF WarpBegin
    <3>2. CASE /\ WarpBegin(c, "recreate", "recreate")
               /\ \E p \in DOMAIN wInsts : wList' = [wList EXCEPT ![c] = Restrict(wInsts, {p})]
      <4>1. \A p \in DOMAIN wInsts : DOMAIN Restrict(wInsts, {p}) \subseteq DOMAIN wInsts
        BY DEF Restrict
      <4>2. QED
        BY <1>a, <3>2, <4>1 DEF WarpBegin
    <3>3. QED
      BY <1>6, <3>1, <3>2 DEF WarpRestart
  <2>5. CopyKnows(c)' /\ RestartKnows(c)'
    BY <2>1, <2>4 DEF CopyKnows, RestartKnows, InCall
  <2>6. QED
    BY <1>c, <2>1, <2>3, <2>5, ListStays DEF BoxInv
<1>7. CASE WarpRecreate(c)
  <2>1. PICK p \in DOMAIN wList[c], error \in BOOLEAN :
          /\ BoxRuns(p, error)
          /\ wList' = [wList EXCEPT ![c][p] = error]
    BY <1>7 DEF WarpRecreate
  <2>2. UNCHANGED <<wInsts, wRaced, wLock, wPort>>
    BY <1>7 DEF WarpRecreate, warpPast
  <2>3. InStep(c, "recreate") /\ DOMAIN wList'[c] = DOMAIN wList[c]
    BY <1>7, <1>a, <2>1 DEF WarpRecreate
  <2>4. wBoxes' \subseteq wBoxes \cup wRaced \cup DOMAIN wInsts
    BY <1>b, <2>1, <2>3 DEF CopyKnows, BoxRuns
  <2>5. /\ ~ WarpDeploy(c) /\ ~ WarpRemove(c) /\ ~ WarpSave(c)
        /\ InStep(c, "recreate")' \/ InStep(c, "merge")'
        /\ ~ InStep(c, "save")' /\ (InCall(c, "restart")' => InCall(c, "restart"))
    BY <1>7, CallGoes DEF InStep, InCall, WarpIdle
  <2>6. SaveKnows(c)' /\ CopyKnows(c)' /\ RestartKnows(c)'
    BY <1>b, <2>2, <2>3, <2>5 DEF SaveKnows, CopyKnows, RestartKnows
  <2>7. BoxesKnown' /\ \A d \in WarpCalls : d # c => CopyKnows(d)' /\ RestartKnows(d)'
    BY <2>2, <2>4, <2>5, ListStays
  <2>8. ASSUME NEW d \in WarpCalls, d # c
        PROVE  SaveKnows(d)'
    BY <1>7, <2>2, <2>5, <2>8, SaveStays
  <2>9. QED
    BY <2>6, <2>7, <2>8 DEF BoxInv
<1>8. CASE WarpRestarted(c)
  <2>1. wLock = NoWarp /\ wInsts' = wList[c] /\ wRaced' = wRaced /\ wBoxes' = wBoxes
    BY <1>8 DEF WarpRestarted
  <2>2. wAt[c] = <<"restart", "merge">> /\ wAt'[c] = WarpIdle
    BY <1>8, CallGoes
  <2>3. DOMAIN wInsts \subseteq DOMAIN wInsts' \cup wRaced
        /\ DOMAIN wInsts' \subseteq DOMAIN wInsts \cup wRaced
    BY <1>b, <2>1, <2>2 DEF CopyKnows, RestartKnows, InStep, InCall
  <2>4. ~ WarpDeploy(c) /\ ~ WarpRemove(c)
    BY <2>2, CallGoes DEF WarpIdle
  <2>5. BoxesKnown'
    <3>1. ASSUME NEW d \in WarpCalls PROVE ~ InStep(d, "save")
      BY <2>1, LockSays
    <3>2. QED
      BY <1>b, <2>1, <2>3, <3>1 DEF BoxesKnown
  <2>6. ASSUME NEW d \in WarpCalls
        PROVE  CopyKnows(d)' /\ RestartKnows(d)'
    <3>1. CASE d = c
      BY <2>2, <3>1 DEF CopyKnows, RestartKnows, InStep, InCall, WarpIdle
    <3>2. CASE d # c
      BY <1>b, <2>1, <2>3, <3>2, CallAlone DEF CopyKnows, RestartKnows, InStep, InCall
    <3>3. QED
      BY <3>1, <3>2
  <2>7. QED
    BY <1>c, <2>1, <2>4, <2>5, <2>6 DEF BoxInv
<1>9. CASE WarpRecreated(c)
  <2>1. wLock = NoWarp /\ DOMAIN wInsts' = DOMAIN wInsts /\ wRaced' = wRaced /\ wBoxes' = wBoxes
    BY <1>9 DEF WarpRecreated, warpPast
  <2>2. wAt[c] = <<"recreate", "merge">> /\ wAt'[c] = WarpIdle
    BY <1>9, CallGoes
  <2>3. ~ WarpDeploy(c) /\ ~ WarpRemove(c) /\ ~ WarpSave(c)
    BY <2>2, CallGoes DEF WarpIdle
  <2>4. CopyKnows(c)' /\ RestartKnows(c)'
    BY <2>2 DEF CopyKnows, RestartKnows, InStep, InCall, WarpIdle
  <2>5. QED
    BY <1>c, <2>1, <2>3, <2>4, ListStays DEF BoxInv
<1>10. QED
  BY <1>1, <1>2, <1>3, <1>4, <1>5, <1>6, <1>7, <1>8, <1>9 DEF WarpCallStep

LEMMA BoxOtherKept ==
  ASSUME WarpTyped, WarpLocking, BoxInv, WarpOtherStep
  PROVE  BoxInv'
<1>1. CASE WarpCrash
  <2>1. UNCHANGED <<wBoxes, wInsts>> /\ wAt' = [d \in WarpCalls |-> WarpIdle]
        /\ wRaced' = wRaced \cup ({wPort[d] : d \in WarpCalls} \cap WarpPorts)
    BY <1>1 DEF WarpCrash
  <2>2. ASSUME NEW d \in WarpCalls
        PROVE  SaveKnows(d)' /\ CopyKnows(d)' /\ RestartKnows(d)'
    BY <2>1 DEF SaveKnows, CopyKnows, RestartKnows, InStep, InCall, WarpIdle
  <2>3. ASSUME NEW p \in wBoxes
        PROVE  p \in DOMAIN wInsts \cup wRaced'
    <3>1. p \in WarpPorts
      BY DEF WarpTyped, ExitsTyped
    <3>2. QED
      BY <2>1, <3>1 DEF BoxInv, BoxesKnown
  <2>4. QED
    BY <2>1, <2>2, <2>3 DEF BoxInv, BoxesKnown
<1>2. CASE WarpOtherStep /\ ~ WarpCrash
  <2>1. DOMAIN wInsts' = DOMAIN wInsts
    BY <1>2 DEF WarpOtherStep, WarpPush, WarpProbe, PageLoad, PageSave, BoxRemoved, warpVars
  <2>2. wBoxes' \subseteq wBoxes /\ UNCHANGED <<wAt, wPort, wList, wRaced>>
    BY <1>2 DEF WarpOtherStep, WarpPush, WarpProbe, PageLoad, PageSave, BoxRemoved, warpVars,
       warpCall, warpPast
  <2>3. QED
    BY <2>1, <2>2 DEF BoxInv, BoxesKnown, SaveKnows, CopyKnows, RestartKnows, InStep, InCall,
       Recreating
<1>3. QED
  BY <1>1, <1>2

-----------------------------------------------------------------------------
(* Exits: pool and instances                                               *)

WarpIn(pool) == {u \in DOMAIN pool : pool[u].warp}

\* In the list, being removed, or left behind by a named race.
Accounted(u) ==
  \/ u \in DOMAIN wInsts \cup wStale
  \/ \E c \in WarpCalls : InCall(c, "remove") /\ wPort[c] = u

\* The copy a request reconciles the pool with, and the exit a removal is about to
\* take its hands off: if anybody still remembers it, that has been noted.
ListKnows(c) ==
  InStep(c, "read") \/ InStep(c, "sync") => \A u \in DOMAIN wList[c] : Accounted(u)
CleanKnows(c) ==
  InStep(c, "clean") =>
    \/ wPort[c] \in wStale
    \/ /\ wPort[c] \notin WarpIn(wPool) \cup WarpIn(wPage)
       /\ \A d \in WarpCalls : wPort[c] \notin DOMAIN wList[d]

ExitInv ==
  /\ \A u \in WarpIn(wPool) \cup WarpIn(wPage) : Accounted(u)
  /\ \A c \in WarpCalls : ListKnows(c) /\ CleanKnows(c)

\* Only the end of a removal gives an account up.
LEMMA AccountedKept ==
  ASSUME WarpTyped, WarpLocking, BoxInv, WarpOtherStep \/ \E c \in WarpCalls : WarpCallStep(c),
         NEW u, Accounted(u), ~ \E c \in WarpCalls : WarpClean(c) /\ wPort[c] = u
  PROVE  Accounted(u)'
<1> USE DEF WarpTyped
<1>1. CASE WarpCrash
  <2>1. wStale' = wStale \cup ({wPort[c] : c \in WarpCalls} \cap WarpPorts) /\ wInsts' = wInsts
    BY <1>1 DEF WarpCrash
  <2>2. \A c \in WarpCalls : InCall(c, "remove") => wPort[c] \in WarpPorts
    BY LockSays DEF Locked
  <2>3. QED
    BY <2>1, <2>2 DEF Accounted
<1>2. CASE WarpOtherStep /\ ~ WarpCrash
  <2>1. DOMAIN wInsts' = DOMAIN wInsts
    BY <1>2 DEF WarpOtherStep, WarpPush, WarpProbe, PageLoad, PageSave, BoxRemoved, warpVars
  <2>2. UNCHANGED <<wAt, wPort, wStale>>
    BY <1>2 DEF WarpOtherStep, WarpPush, WarpProbe, PageLoad, PageSave, BoxRemoved, warpVars,
       warpCall, warpPast
  <2>3. QED
    BY <2>1, <2>2 DEF Accounted, InCall
<1>3. ASSUME NEW c \in WarpCalls, WarpCallStep(c)
      PROVE  Accounted(u)'
  <2>1. wStale \subseteq wStale'
    BY <1>3 DEF WarpCallStep, WarpGet, WarpDeploy, WarpRemove, WarpSave, WarpRead, WarpSync,
       WarpClean, WarpRestart, WarpRecreate, WarpRestarted, WarpRecreated, warpPast
  <2>2. ASSUME NEW d \in WarpCalls, InCall(d, "remove"), wPort[d] = u
        PROVE  InCall(d, "remove")' /\ wPort'[d] = u
    <3>1. CASE d # c
      BY <1>3, <2>2, <3>1, CallAlone DEF InCall
    <3>2. CASE d = c
      <4>1. WarpSave(c) \/ WarpRead(c) \/ WarpSync(c) \/ WarpClean(c)
        BY <1>3, <2>2, <3>2, CallGoes DEF WarpCallStep, InCall, WarpIdle
      <4>2. ~ WarpClean(c)
        BY <2>2, <3>2
      <4>3. InCall(c, "remove")'
        BY <2>2, <3>2, <4>1, <4>2, CallGoes DEF InCall
      <4>4. wPort' = wPort
        BY <2>2, <3>2, <4>1, <4>2 DEF WarpSave, WarpRead, WarpSync
      <4>5. QED
        BY <2>2, <3>2, <4>3, <4>4
    <3>3. QED
      BY <3>1, <3>2
  <2>3. ASSUME u \in DOMAIN wInsts
        PROVE  Accounted(u)'
    <3>1. CASE WarpSave(c)
      <4>1. SaveKnows(c) /\ wInsts' = wList[c] /\ wPort' = wPort
        BY <3>1 DEF BoxInv, WarpSave
      <4>2. CASE wAt[c] = <<"deploy", "save">>
        <5>1. u \in DOMAIN wInsts'
          BY <2>3, <4>1, <4>2 DEF SaveKnows, InStep, InCall
        <5>2. QED
          BY <5>1 DEF Accounted
      <4>3. CASE wAt[c] = <<"remove", "save">>
        <5>1. u \in DOMAIN wInsts' \/ u = wPort[c]
          BY <2>3, <4>1, <4>3 DEF SaveKnows, InStep, InCall
        <5>2. InCall(c, "remove")'
          BY <3>1, <4>3, CallGoes DEF InCall
        <5>3. QED
          BY <4>1, <5>1, <5>2 DEF Accounted
      <4>4. QED
        BY <3>1, <4>2, <4>3, CallGoes
    <3>2. CASE WarpRestarted(c)
      <4>1. u \in DOMAIN wInsts' \cup wStale'
        BY <2>3, <3>2 DEF WarpRestarted
      <4>2. QED
        BY <4>1 DEF Accounted
    <3>3. CASE ~ WarpSave(c) /\ ~ WarpRestarted(c)
      <4>1. DOMAIN wInsts' = DOMAIN wInsts
        BY <1>3, <3>3 DEF WarpCallStep, WarpGet, WarpDeploy, WarpRemove, WarpRead, WarpSync,
           WarpClean, WarpRestart, WarpRecreate, WarpRecreated
      <4>2. QED
        BY <2>3, <4>1 DEF Accounted
    <3>4. QED
      BY <3>1, <3>2, <3>3
  <2>4. QED
    BY <2>1, <2>2, <2>3 DEF Accounted
<1>4. QED
  BY <1>1, <1>2, <1>3

\* A sync leaves the exits of its list in the pool, and no others.
LEMMA SyncLeaves ==
  ASSUME NEW c \in WarpCalls, SyncSaves(c)
  PROVE  WarpIn(wPool') \subseteq DOMAIN wList[c]
<1> DEFINE pool == wRead[c]
           list == wList[c]
           kept == {u \in DOMAIN pool : pool[u].warp => u \in LiveExits(list)}
<1>1. wPool' = [u \in kept \cup LiveExits(list) |->
                  IF u \in kept THEN pool[u] ELSE [warp |-> TRUE, on |-> TRUE]]
  BY DEF SyncSaves, PoolSave, Reconciled
<1>2. LiveExits(list) \subseteq DOMAIN list
  BY DEF LiveExits
<1>3. ASSUME NEW u \in DOMAIN wPool', wPool'[u].warp
      PROVE  u \in LiveExits(list)
  BY <1>1, <1>3
<1>4. QED
  BY <1>2, <1>3 DEF WarpIn

\* Before the first save all entries are the user's; his edits make no exits.
LEMMA ReadIn == WarpIn(PoolRead) \subseteq WarpIn(wPool)
BY DEF WarpIn, PoolRead

LEMMA EditedIn ==
  ASSUME PageTyped, NEW pool \in Edited
  PROVE  WarpIn(pool) \subseteq WarpIn(wPage)
<1>1. CASE \E u \in DOMAIN wPage : pool = [wPage EXCEPT ![u].on = ~@]
  <2>1. PICK u \in DOMAIN wPage : pool = [wPage EXCEPT ![u].on = ~@]
    BY <1>1
  <2>2. DOMAIN pool = DOMAIN wPage /\ \A v \in DOMAIN wPage : v # u => pool[v] = wPage[v]
    BY <2>1
  <2>3. pool[u].warp = wPage[u].warp
    <3>1. wPage[u] \in WarpEntry
      BY DEF PageTyped, PoolTyped
    <3>2. pool[u] = [wPage[u] EXCEPT !.on = ~@]
      BY <2>1
    <3>3. QED
      BY <3>1, <3>2 DEF WarpEntry
  <2>4. QED
    BY <2>2, <2>3 DEF WarpIn
<1>2. CASE \E u \in WarpUrls \ DOMAIN wPage :
             pool = [v \in DOMAIN wPage \cup {u} |->
                       IF v = u THEN [warp |-> FALSE, on |-> TRUE] ELSE wPage[v]]
  BY <1>2 DEF WarpIn
<1>3. CASE \E u \in DOMAIN wPage : pool = Restrict(wPage, DOMAIN wPage \ {u})
  BY <1>3 DEF WarpIn, Restrict
<1>4. QED
  BY <1>1, <1>2, <1>3 DEF Edited

\* Exits enter the pool and the page from where they are accounted for.
LEMMA PoolSources ==
  ASSUME WarpTyped, WarpOtherStep \/ \E c \in WarpCalls : WarpCallStep(c)
  PROVE  /\ WarpIn(wPage') \subseteq WarpIn(wPool) \cup WarpIn(wPage)
         /\ \/ WarpIn(wPool') \subseteq WarpIn(wPool) \cup WarpIn(wPage)
            \/ \E c \in WarpCalls : WarpSync(c) /\ WarpIn(wPool') \subseteq DOMAIN wList[c]
<1> USE DEF WarpTyped
<1>1. CASE PageSave
  <2>1. PICK pool \in Edited : wPool' = pool /\ wPage' = pool
    BY <1>1 DEF PageSave, PoolSave
  <2>2. QED
    BY <2>1, EditedIn
<1>2. CASE PageLoad
  <2>1. wPage' = PoolRead /\ wPool' = wPool
    BY <1>2 DEF PageLoad
  <2>2. QED
    BY <2>1, ReadIn
<1>3. CASE WarpOtherStep /\ ~ PageSave /\ ~ PageLoad
  <2>1. UNCHANGED <<wPage, wPool>>
    BY <1>3 DEF WarpOtherStep, WarpPush, WarpProbe, BoxRemoved, WarpCrash, warpVars
  <2>2. QED
    BY <2>1
<1>4. ASSUME NEW c \in WarpCalls, WarpSync(c)
      PROVE  wPage' = wPage /\ WarpIn(wPool') \subseteq DOMAIN wList[c]
  BY <1>4, SyncLeaves DEF WarpSync
<1>5. ASSUME NEW c \in WarpCalls, WarpCallStep(c), ~ WarpSync(c)
      PROVE  UNCHANGED <<wPage, wPool>>
  BY <1>5 DEF WarpCallStep, WarpGet, WarpDeploy, WarpRemove, WarpSave, WarpRead,
     WarpClean, WarpRestart, WarpRecreate, WarpRestarted, WarpRecreated
<1>6. QED
  BY <1>1, <1>2, <1>3, <1>4, <1>5

\* Copies of the list are made under the lock.
LEMMA CopySources ==
  ASSUME WarpTyped, NEW d \in WarpCalls,
         WarpOtherStep \/ \E c \in WarpCalls : WarpCallStep(c)
  PROVE  wLock = NoWarp \/ DOMAIN wList'[d] \subseteq DOMAIN wList[d]
<1> USE DEF WarpTyped
<1>0. DOMAIN wList = WarpCalls
  BY DEF CopiesTyped
<1>1. CASE WarpOtherStep
  <2>1. wList' = wList \/ wList' = [c \in WarpCalls |-> Nothing]
    BY <1>1 DEF WarpOtherStep, WarpPush, WarpProbe, PageLoad, PageSave, BoxRemoved, WarpCrash,
       warpVars, warpCall
  <2>2. QED
    BY <2>1 DEF Nothing
<1>2. ASSUME NEW c \in WarpCalls, WarpCallStep(c), wLock # NoWarp
      PROVE  DOMAIN wList'[d] \subseteq DOMAIN wList[d]
  <2>1. CASE WarpSave(c) \/ WarpRead(c)
    BY <2>1 DEF WarpSave, WarpRead
  <2>2. CASE WarpSync(c) \/ WarpClean(c)
    <3>1. wList' = wList \/ wList' = [wList EXCEPT ![c] = Nothing]
      BY <2>2 DEF WarpSync, WarpClean, Over
    <3>2. QED
      BY <1>0, <3>1 DEF Nothing
  <2>3. CASE WarpRecreate(c)
    <3>1. PICK p, error : wList' = [wList EXCEPT ![c][p] = error]
      BY <2>3 DEF WarpRecreate
    <3>2. QED
      BY <1>0, <3>1
  <2>4. QED
    BY <1>2, <2>1, <2>2, <2>3 DEF WarpCallStep, WarpGet, WarpDeploy, WarpRemove, WarpRestart,
       WarpRestarted, WarpRecreated
<1>3. QED
  BY <1>1, <1>2

\* Between its sync and its end, a removal's exit is not remembered again.
LEMMA CleanKept ==
  ASSUME WarpTyped, WarpLocking, ExitInv,
         WarpOtherStep \/ \E c \in WarpCalls : WarpCallStep(c),
         NEW c \in WarpCalls, InStep(c, "clean")'
  PROVE  CleanKnows(c)'
<1> USE DEF WarpTyped
<1>1. CASE WarpSync(c)
  <2>1. wAt[c] = <<"remove", "sync">>
    BY <1>1, CallGoes DEF InStep, WarpIdle
  <2>2. /\ SyncSaves(c) /\ UNCHANGED <<wPort, wList, wPage>>
        /\ wStale' = IF Remembered(wPort[c]) THEN wStale \cup {wPort[c]} ELSE wStale
    BY <1>1, <2>1 DEF WarpSync, InCall
  <2>3. WarpIn(wPool') \subseteq DOMAIN wList[c] /\ WarpIn(wPage) \subseteq DOMAIN wPage
    BY <2>2, SyncLeaves DEF WarpIn
  <2>4. QED
    BY <2>2, <2>3 DEF CleanKnows, Remembered
<1>2. CASE ~ WarpSync(c)
  <2>1. wAt'[c] = wAt[c] /\ wPort'[c] = wPort[c] /\ InStep(c, "clean") /\ wStale \subseteq wStale'
    <3>1. CASE WarpCrash
      BY <3>1 DEF WarpCrash, InStep, WarpIdle
    <3>2. CASE WarpOtherStep /\ ~ WarpCrash
      BY <3>2 DEF WarpOtherStep, WarpPush, WarpProbe, PageLoad, PageSave, BoxRemoved,
         warpVars, warpCall, warpPast, InStep
    <3>3. ASSUME NEW d \in WarpCalls, WarpCallStep(d)
          PROVE  wAt'[c] = wAt[c] /\ wPort'[c] = wPort[c] /\ InStep(c, "clean")
                 /\ wStale \subseteq wStale'
      <4>1. d # c
        BY <1>2, <3>3, CallGoes DEF WarpCallStep, InStep, WarpIdle
      <4>2. wStale \subseteq wStale'
        BY <3>3 DEF WarpCallStep, WarpGet, WarpDeploy, WarpRemove, WarpSave, WarpRead, WarpSync,
           WarpClean, WarpRestart, WarpRecreate, WarpRestarted, WarpRecreated, warpPast
      <4>3. QED
        BY <3>3, <4>1, <4>2, CallAlone DEF InStep
    <3>4. QED
      BY <3>1, <3>2, <3>3
  <2>2. wLock # NoWarp
    BY <2>1, LockSays
  <2>3. CleanKnows(c)
    BY DEF ExitInv
  <2>4. CASE wPort[c] \in wStale
    BY <2>1, <2>4 DEF CleanKnows
  <2>5. CASE /\ wPort[c] \notin WarpIn(wPool) \cup WarpIn(wPage)
             /\ \A d \in WarpCalls : wPort[c] \notin DOMAIN wList[d]
    <3>1. \A d \in WarpCalls : wPort[c] \notin DOMAIN wList'[d]
      BY <2>2, <2>5, CopySources
    <3>2. wPort[c] \notin WarpIn(wPool') \cup WarpIn(wPage')
      BY <2>5, PoolSources
    <3>3. QED
      BY <2>1, <3>1, <3>2 DEF CleanKnows, WarpIn
  <2>6. QED
    BY <2>1, <2>3, <2>4, <2>5 DEF CleanKnows
<1>3. QED
  BY <1>1, <1>2

LEMMA ExitKept ==
  ASSUME WarpTyped, WarpLocking, BoxInv, ExitInv,
         WarpOtherStep \/ \E c \in WarpCalls : WarpCallStep(c)
  PROVE  ExitInv'
<1> USE DEF WarpTyped
\* What the pool, the page or a copy has is not given up by the end of a removal.
<1>1. ASSUME NEW u, Accounted(u),
             \/ u \in WarpIn(wPool) \cup WarpIn(wPage)
             \/ \E c \in WarpCalls : u \in DOMAIN wList[c]
      PROVE  Accounted(u)'
  <2>1. CASE \E c \in WarpCalls : WarpClean(c) /\ wPort[c] = u
    <3>1. PICK c \in WarpCalls : WarpClean(c) /\ wPort[c] = u
      BY <2>1
    <3>2. CleanKnows(c) /\ InStep(c, "clean")
      BY <3>1 DEF ExitInv, WarpClean
    <3>3. u \in wStale
      BY <1>1, <3>1, <3>2 DEF CleanKnows
    <3>4. wStale' = wStale
      BY <3>1 DEF WarpClean, warpPast
    <3>5. QED
      BY <3>3, <3>4 DEF Accounted
  <2>2. QED
    BY <1>1, <2>1, AccountedKept
<1>2. ASSUME NEW u \in WarpIn(wPool') \cup WarpIn(wPage')
      PROVE  Accounted(u)'
  <2>1. CASE u \in WarpIn(wPool) \cup WarpIn(wPage)
    BY <1>1, <2>1 DEF ExitInv
  <2>2. ASSUME NEW c \in WarpCalls, WarpSync(c), u \in DOMAIN wList[c]
        PROVE  Accounted(u)'
    <3>1. Accounted(u)
      BY <2>2 DEF ExitInv, ListKnows, WarpSync
    <3>2. QED
      BY <1>1, <2>2, <3>1
  <2>3. QED
    BY <1>2, <2>1, <2>2, PoolSources
<1>3. ASSUME NEW c \in WarpCalls, InStep(c, "read")' \/ InStep(c, "sync")'
      PROVE  \A u \in DOMAIN wList'[c] : Accounted(u)'
  <2>1. CASE WarpGet(c)
    <3>1. wList'[c] = wInsts'
      BY <2>1 DEF WarpGet, CopiesTyped
    <3>2. QED
      BY <3>1 DEF Accounted
  <2>2. CASE WarpSave(c)
    <3>1. wList'[c] = wInsts'
      BY <2>2 DEF WarpSave
    <3>2. QED
      BY <3>1 DEF Accounted
  <2>3. CASE ~ WarpGet(c) /\ ~ WarpSave(c)
    <3>1. (InStep(c, "read") \/ InStep(c, "sync")) /\ wList'[c] = wList[c]
      <4>1. CASE WarpCrash
        BY <1>3, <4>1 DEF WarpCrash, InStep, WarpIdle
      <4>2. CASE WarpOtherStep /\ ~ WarpCrash
        BY <1>3, <4>2 DEF WarpOtherStep, WarpPush, WarpProbe, PageLoad, PageSave, BoxRemoved,
           warpVars, warpCall, InStep
      <4>3. ASSUME NEW d \in WarpCalls, WarpCallStep(d), d # c
            PROVE  (InStep(c, "read") \/ InStep(c, "sync")) /\ wList'[c] = wList[c]
        BY <1>3, <4>3, CallAlone DEF InStep
      <4>4. CASE WarpCallStep(c)
        <5>1. WarpRead(c)
          BY <1>3, <2>3, <4>4, CallGoes DEF WarpCallStep, InStep, WarpIdle
        <5>2. QED
          BY <5>1 DEF WarpRead
      <4>5. QED
        BY <4>1, <4>2, <4>3, <4>4
    <3>2. QED
      BY <1>1, <3>1 DEF ExitInv, ListKnows
  <2>4. QED
    BY <2>1, <2>2, <2>3
<1>4. QED
  BY <1>2, <1>3, CleanKept DEF ExitInv, ListKnows, CleanKnows, WarpIn

-----------------------------------------------------------------------------
(* Exits: what the user saved                                              *)

Agrees(pool) == \A u \in DOMAIN wSaved : u \in DOMAIN pool /\ pool[u] = wSaved[u]

UserInv ==
  /\ Agrees(wPool)
  /\ \A c \in WarpCalls : InStep(c, "sync") => Agrees(wRead[c])
  /\ ~ wKept => DOMAIN wSaved = {}

LEMMA UserKeptAlways ==
  ASSUME WarpTyped, UserInv, WarpOtherStep \/ \E c \in WarpCalls : WarpCallStep(c)
  PROVE  UserInv'
<1> USE DEF WarpTyped
<1>1. CASE WarpCrash
  BY <1>1 DEF WarpCrash, UserInv, Agrees, InStep, WarpIdle
<1>2. CASE PageSave
  <2>1. PICK pool \in Edited :
          /\ PoolSave(pool)
          /\ wSaved' = IF \E c \in WarpCalls : InStep(c, "sync") THEN Nothing ELSE pool
    BY <1>2 DEF PageSave
  <2>2. UNCHANGED warpCall /\ wPool' = pool /\ wKept' = TRUE
    BY <1>2, <2>1 DEF PageSave, PoolSave
  <2>3. CASE \E c \in WarpCalls : InStep(c, "sync")
    BY <2>1, <2>2, <2>3 DEF UserInv, Agrees, Nothing
  <2>4. CASE ~ \E c \in WarpCalls : InStep(c, "sync")
    BY <2>1, <2>2, <2>4 DEF UserInv, Agrees, warpCall, InStep
  <2>5. QED
    BY <2>3, <2>4
<1>3. CASE WarpOtherStep /\ ~ WarpCrash /\ ~ PageSave
  <2>1. UNCHANGED <<wAt, wRead, wPool, wKept, wSaved>>
    BY <1>3 DEF WarpOtherStep, WarpPush, WarpProbe, PageLoad, BoxRemoved, warpVars, warpCall,
       warpPast
  <2>2. QED
    BY <2>1 DEF UserInv, Agrees, InStep
<1>4. ASSUME NEW c \in WarpCalls, WarpSync(c)
      PROVE  UserInv'
  <2> DEFINE pool == wRead[c]
             list == wList[c]
             kept == {u \in DOMAIN pool : pool[u].warp => u \in LiveExits(list)}
             all  == kept \cup LiveExits(list)
  <2>1. /\ wPool' = [u \in all |->
                       IF u \in kept THEN pool[u] ELSE [warp |-> TRUE, on |-> TRUE]]
        /\ wKept' = TRUE
        /\ wSaved' = Restrict(wSaved, {u \in DOMAIN wSaved : wSaved[u].warp => u \in DOMAIN wPool'})
    BY <1>4 DEF WarpSync, SyncSaves, PoolSave, Reconciled
  <2>2. Agrees(pool)
    BY <1>4 DEF WarpSync, UserInv
  <2>3. ASSUME NEW u \in DOMAIN wSaved'
        PROVE  /\ u \in DOMAIN wSaved /\ wSaved'[u] = wSaved[u]
               /\ wSaved[u].warp => u \in DOMAIN wPool'
    BY <2>1 DEF Restrict
  <2>4. ASSUME NEW u \in DOMAIN wSaved'
        PROVE  u \in DOMAIN wPool' /\ wPool'[u] = wSaved'[u]
    <3>1. u \in DOMAIN pool /\ pool[u] = wSaved'[u]
      BY <2>2, <2>3 DEF Agrees
    <3>2. u \in kept
      <4>1. CASE ~ pool[u].warp
        BY <3>1, <4>1
      <4>2. CASE pool[u].warp
        <5>1. u \in all
          BY <2>1, <2>3, <3>1, <4>2
        <5>2. QED
          BY <5>1, <3>1
      <4>3. QED
        BY <4>1, <4>2
    <3>3. QED
      BY <2>1, <3>1, <3>2
  <2>5. ASSUME NEW d \in WarpCalls, InStep(d, "sync")'
        PROVE  Agrees(wRead[d]) /\ wRead'[d] = wRead[d]
    <3>1. d # c
      BY <1>4, <2>5, CallGoes DEF InStep, WarpIdle
    <3>2. QED
      BY <1>4, <2>5, <3>1, CallAlone DEF WarpCallStep, InStep, UserInv
  <2>6. QED
    BY <2>1, <2>3, <2>4, <2>5 DEF UserInv, Agrees
<1>5. ASSUME NEW c \in WarpCalls, WarpRead(c)
      PROVE  UserInv'
  <2>1. wRead'[c] = PoolRead /\ UNCHANGED <<wPool, wKept, wSaved>>
    BY <1>5 DEF WarpRead, SyncStarts, warpPast, CopiesTyped
  <2>2. Agrees(PoolRead)
    BY DEF UserInv, Agrees, PoolRead
  <2>3. ASSUME NEW d \in WarpCalls, d # c
        PROVE  wAt'[d] = wAt[d] /\ wRead'[d] = wRead[d]
    BY <1>5, <2>3, CallAlone DEF WarpCallStep
  <2>4. QED
    BY <2>1, <2>2, <2>3 DEF UserInv, Agrees, InStep
<1>6. ASSUME NEW c \in WarpCalls, WarpCallStep(c), ~ WarpSync(c), ~ WarpRead(c)
      PROVE  UserInv'
  <2>1. UNCHANGED <<wPool, wKept, wSaved>>
    BY <1>6 DEF WarpCallStep, WarpGet, WarpDeploy, WarpRemove, WarpSave, WarpClean, WarpRestart,
       WarpRecreate, WarpRestarted, WarpRecreated, warpPast
  <2>2. ~ InStep(c, "sync")'
    BY <1>6, CallGoes DEF WarpCallStep, InStep, WarpIdle
  <2>3. ASSUME NEW d \in WarpCalls, d # c
        PROVE  wAt'[d] = wAt[d] /\ wRead'[d] = wRead[d]
    BY <1>6, <2>3, CallAlone
  <2>4. QED
    BY <2>1, <2>2, <2>3 DEF UserInv, Agrees, InStep
<1>7. QED
  BY <1>1, <1>2, <1>3, <1>4, <1>5, <1>6

-----------------------------------------------------------------------------
(* Exits: the theorem                                                      *)

WarpInv == WarpTyped /\ WarpLocking /\ BoxInv /\ ExitInv /\ UserInv

LEMMA WarpInvFirst == WarpInit => WarpInv
<1> SUFFICES ASSUME WarpInit PROVE WarpInv
  OBVIOUS
<1>1. wAt = [c \in WarpCalls |-> WarpIdle] /\ wBoxes = DOMAIN wInsts
      /\ wPool = Nothing /\ wPage = Nothing /\ wSaved = Nothing
  BY DEF WarpInit
<1>2. WarpLocking
  BY <1>1 DEF WarpLocking, Locked, InCall, WarpIdle
<1>3. BoxInv
  BY <1>1 DEF BoxInv, BoxesKnown, SaveKnows, CopyKnows, RestartKnows, InStep, InCall, WarpIdle
<1>4. ExitInv
  BY <1>1 DEF ExitInv, ListKnows, CleanKnows, WarpIn, Nothing, InStep, WarpIdle
<1>5. UserInv
  BY <1>1 DEF UserInv, Agrees, Nothing, InStep, WarpIdle
<1>6. QED
  BY <1>2, <1>3, <1>4, <1>5, WarpInitTyped DEF WarpInv

LEMMA WarpInvNext == WarpInv /\ [WarpNext]_warpVars => WarpInv'
<1> SUFFICES ASSUME WarpInv, [WarpNext]_warpVars PROVE WarpInv'
  OBVIOUS
<1>1. WarpOtherStep \/ \E c \in WarpCalls : WarpCallStep(c)
  BY DEF WarpNext, WarpOtherStep, WarpCallStep
<1>2. WarpTyped'
  BY <1>1, WarpCallTyped, WarpOtherTyped DEF WarpInv, WarpCallStep, WarpOtherStep
<1>3. WarpLocking'
  BY <1>1, LockingKept DEF WarpInv
<1>4. BoxInv'
  BY <1>1, BoxCallKept, BoxOtherKept DEF WarpInv
<1>5. ExitInv'
  BY <1>1, ExitKept DEF WarpInv
<1>6. UserInv'
  BY <1>1, UserKeptAlways DEF WarpInv
<1>7. QED
  BY <1>2, <1>3, <1>4, <1>5, <1>6 DEF WarpInv

LEMMA WarpInvImplies == WarpInv => WarpSound
<1> SUFFICES ASSUME WarpInv PROVE WarpSound
  OBVIOUS
<1>1. WarpTypeOK
  BY WarpTypesAre DEF WarpInv
<1>2. BoxesKnown
  BY DEF WarpInv, BoxInv
<1>3. ExitsKnown
  BY DEF WarpInv, ExitInv, ExitsKnown, Accounted, WarpIn
<1>4. UserKept
  BY DEF WarpInv, UserInv, UserKept, Agrees
<1>5. QED
  BY <1>1, <1>2, <1>3, <1>4 DEF WarpSound

\* Whatever the requests of the WARP page, the pool page, Docker and restarts do to
\* each other: a container without an instance, and an exit without one in the pool,
\* come only of the races the model names, and what the user saved stays as saved.
THEOREM WarpIsSound == WarpSpec => []WarpSound
BY WarpInvFirst, WarpInvNext, WarpInvImplies, PTL DEF WarpSpec
=============================================================================
