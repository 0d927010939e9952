---------------------------- MODULE GatewayStore ----------------------------
(***************************************************************************)
(* The gateway's records: upstream services, account groups, API keys and  *)
(* the configuration (gateway/store.go), the administration routes that    *)
(* change them (server/gateway_routes.go), and the requests that are       *)
(* resolved through them, key -> group -> service (middleware.go, http.go).*)
(*                                                                         *)
(* Every method of GatewayStore runs under its mutex and writes one        *)
(* settings key, so it is one action.  EnsureDefaults writes up to four    *)
(* keys: one action each, and the process may die between them.  A request *)
(* takes the mutex once per record it looks up.                            *)
(***************************************************************************)
EXTENDS Naturals, FiniteSets

CONSTANTS
  Services, DefaultService,   \* service ids, the built-in one
  Groups, DefaultGroup,       \* group ids, the built-in one
  Keys,                       \* API key ids
  AllAccounts,                \* "__all__": the group of the internal key
  Empty,                      \* "": no group or service named
  Requests                    \* gateway handlers

ASSUME StoreAssumption ==
  /\ DefaultService \in Services /\ DefaultGroup \in Groups
  /\ AllAccounts \notin Groups /\ Empty \notin Groups /\ Empty \notin Services
  /\ AllAccounts # Empty

VARIABLES
  services,   \* gateway_services: the ids
  enabled,    \* those that are enabled
  groups,     \* gateway_groups: the ids
  serviceID,  \* group id -> service id
  keys,       \* gateway_keys: the ids
  active,     \* those with status active
  keyGroup,   \* key id -> group id
  config,     \* gateway_config has been written
  retired,    \* ids of deleted records; a uuid is not drawn twice
  phase,      \* of EnsureDefaults, or "up"
  pc,         \* of each request
  reqKey,     \* the key it came with
  reqGroup    \* the group, then the service it has to look up

recordVars  == <<services, enabled, groups, serviceID, keys, active,
                 keyGroup, config, retired>>
requestVars == <<pc, reqKey, reqGroup>>
vars == <<services, enabled, groups, serviceID, keys, active,
          keyGroup, config, retired, phase, pc, reqKey, reqGroup>>

Init ==
  /\ services = {} /\ enabled = {}
  /\ groups = {} /\ keys = {} /\ active = {}
  /\ serviceID = [g \in Groups |-> Empty]
  /\ keyGroup = [k \in Keys |-> Empty]
  /\ config = FALSE
  /\ retired = {}
  /\ phase = "services"
  /\ pc = [r \in Requests |-> "idle"]
  /\ reqKey \in [Requests -> Keys]
  /\ reqGroup = [r \in Requests |-> Empty]

Up == phase = "up"

\* The defaults an empty id stands for (getGroupLocked, GetService).
GroupOf(g)   == IF g = Empty THEN DefaultGroup ELSE g
ServiceOf(s) == IF s = Empty THEN DefaultService ELSE s

\* A record the interface may still show, since it once listed it.
Listed(ids) == ids \cup retired

-----------------------------------------------------------------------------
(* Variants of single definitions, each the trace of a plausible slip; the *)
(* model does not use them.                                                *)

DeleteGroupUnchecked(g) ==
  /\ Up /\ g \in groups /\ g # DefaultGroup
  /\ groups' = groups \ {g}
  /\ retired' = retired \cup {g}
  /\ UNCHANGED <<services, enabled, serviceID, keys, active,
                 keyGroup, config, phase, requestVars>>

DefaultKeyAlways ==
  /\ phase = "keys"
  /\ \E k \in Keys \ (keys \cup retired) :
       /\ keys' = keys \cup {k}
       /\ active' = active \cup {k}
       /\ keyGroup' = [keyGroup EXCEPT ![k] = AllAccounts]
  /\ phase' = "up"
  /\ UNCHANGED <<services, enabled, groups, serviceID, config,
                 retired, requestVars>>

AuthPlain(r, k) ==
  /\ Up /\ pc[r] = "idle"
  /\ k \in active
  /\ reqKey' = [reqKey EXCEPT ![r] = k]
  /\ reqGroup' = [reqGroup EXCEPT ![r] = keyGroup[k]]
  /\ pc' = [pc EXCEPT ![r] = "group"]
  /\ UNCHANGED <<recordVars, phase>>

-----------------------------------------------------------------------------
(* Start: EnsureDefaults                                                   *)

\* Each part is written when it is missing.
DefaultServices ==
  /\ phase = "services"
  /\ services' = IF services = {} THEN {DefaultService} ELSE services
  /\ enabled' = IF services = {} THEN {DefaultService} ELSE enabled
  /\ phase' = "groups"
  /\ UNCHANGED <<groups, serviceID, keys, active, keyGroup, config,
                 retired, requestVars>>

DefaultGroups ==
  /\ phase = "groups"
  /\ groups' = IF groups = {} THEN {DefaultGroup} ELSE groups
  /\ serviceID' = IF groups = {}
                    THEN [serviceID EXCEPT ![DefaultGroup] = DefaultService]
                    ELSE serviceID
  /\ phase' = "config"
  /\ UNCHANGED <<services, enabled, keys, active, keyGroup, config,
                 retired, requestVars>>

DefaultConfig ==
  /\ phase = "config"
  /\ config' = TRUE
  /\ phase' = "keys"
  /\ UNCHANGED <<services, enabled, groups, serviceID, keys, active,
                 keyGroup, retired, requestVars>>

Internal(k) == keyGroup[k] = AllAccounts

DefaultKey ==
  /\ phase = "keys"
  /\ \/ /\ \E k \in keys : Internal(k)
        /\ UNCHANGED <<keys, active, keyGroup>>
     \/ /\ ~ \E k \in keys : Internal(k)
        /\ \E k \in Keys \ (keys \cup retired) :
             /\ keys' = keys \cup {k}
             /\ active' = active \cup {k}
             /\ keyGroup' = [keyGroup EXCEPT ![k] = AllAccounts]
  /\ phase' = "up"
  /\ UNCHANGED <<services, enabled, groups, serviceID, config,
                 retired, requestVars>>

\* The process dies; settings.json keeps what was written.
Crash ==
  /\ phase' = "services"
  /\ pc' = [r \in Requests |-> "idle"]
  /\ reqGroup' = [r \in Requests |-> Empty]
  /\ UNCHANGED <<recordVars, reqKey>>

-----------------------------------------------------------------------------
(* Administration                                                          *)

CreateService(s) ==
  /\ Up /\ s \in Services \ (services \cup retired)
  /\ services' = services \cup {s}
  /\ enabled' \in {enabled, enabled \cup {s}}
  /\ UNCHANGED <<groups, serviceID, keys, active, keyGroup, config,
                 retired, phase, requestVars>>

\* The built-in service can be switched off, too.
UpdateService(s) ==
  /\ Up /\ s \in services
  /\ enabled' \in {enabled \cup {s}, enabled \ {s}}
  /\ UNCHANGED <<services, groups, serviceID, keys, active,
                 keyGroup, config, retired, phase, requestVars>>

DeleteService(s) ==
  /\ Up /\ s \in services /\ s # DefaultService
  /\ \A g \in groups : serviceID[g] # s
  /\ services' = services \ {s}
  /\ enabled' = enabled \ {s}
  /\ retired' = retired \cup {s}
  /\ UNCHANGED <<groups, serviceID, keys, active, keyGroup, config,
                 phase, requestVars>>

\* The service is taken as the interface sends it, be it there or not; the name
\* must be new, which may refuse any creation and changes nothing else.
CreateGroup(g) ==
  /\ Up /\ g \in Groups \ (groups \cup retired \cup {DefaultGroup})
  /\ \E s \in (Listed(services) \cap Services) \cup {Empty} :
       serviceID' = [serviceID EXCEPT ![g] = ServiceOf(s)]
  /\ groups' = groups \cup {g}
  /\ UNCHANGED <<services, enabled, keys, active, keyGroup, config, retired,
                 phase, requestVars>>

\* A patch of the service; it is not looked up either.
UpdateGroup(g) ==
  /\ Up /\ g \in groups
  /\ \E s \in (Listed(services) \cap Services) \cup {Empty, serviceID[g]} :
       serviceID' = [serviceID EXCEPT ![g] = s]
  /\ UNCHANGED <<services, enabled, groups, keys, active, keyGroup, config,
                 retired, phase, requestVars>>

DeleteGroup(g) ==
  /\ Up /\ g \in groups /\ g # DefaultGroup
  /\ \A k \in keys : keyGroup[k] # g
  /\ groups' = groups \ {g}
  /\ retired' = retired \cup {g}
  /\ UNCHANGED <<services, enabled, serviceID, keys, active,
                 keyGroup, config, phase, requestVars>>

\* The group must exist; an empty id is kept, and stands for the default.
CreateKey(k) ==
  /\ Up /\ k \in Keys \ (keys \cup retired)
  /\ \E g \in (Listed(groups) \cap Groups) \cup {Empty, AllAccounts} :
       /\ GroupOf(g) \in groups
       /\ keyGroup' = [keyGroup EXCEPT ![k] = g]
  /\ keys' = keys \cup {k}
  /\ active' = active \cup {k}
  /\ UNCHANGED <<services, enabled, groups, serviceID, config,
                 retired, phase, requestVars>>

SetKeyStatus(k) ==
  /\ Up /\ k \in keys
  /\ active' \in {active \cup {k}, active \ {k}}
  /\ UNCHANGED <<services, enabled, groups, serviceID, keys,
                 keyGroup, config, retired, phase, requestVars>>

DeleteKey(k) ==
  /\ Up /\ k \in keys
  /\ keys' = keys \ {k}
  /\ active' = active \ {k}
  /\ retired' = retired \cup {k}
  /\ UNCHANGED <<services, enabled, groups, serviceID, keyGroup,
                 config, phase, requestVars>>

-----------------------------------------------------------------------------
(* A request: auth(), then resolveTarget                                   *)

\* GetKeyBySecret.
Auth(r, k) ==
  /\ Up /\ pc[r] = "idle"
  /\ k \in active
  /\ reqKey' = [reqKey EXCEPT ![r] = k]
  /\ reqGroup' = [reqGroup EXCEPT ![r] =
                    IF Internal(k) THEN DefaultService ELSE keyGroup[k]]
  /\ pc' = [pc EXCEPT ![r] = IF Internal(k) THEN "service" ELSE "group"]
  /\ UNCHANGED <<recordVars, phase>>

\* GetGroup.
LookUpGroup(r) ==
  LET g == GroupOf(reqGroup[r]) IN
  /\ Up /\ pc[r] = "group"
  /\ IF g \in groups
       THEN /\ pc' = [pc EXCEPT ![r] = "service"]
            /\ reqGroup' = [reqGroup EXCEPT ![r] = serviceID[g]]
       ELSE /\ pc' = [pc EXCEPT ![r] = "no group"]
            /\ UNCHANGED reqGroup
  /\ UNCHANGED <<recordVars, phase, reqKey>>

\* GetService, and whether it is enabled.
LookUpService(r) ==
  LET s == ServiceOf(reqGroup[r]) IN
  /\ Up /\ pc[r] = "service"
  /\ pc' = [pc EXCEPT ![r] = IF s \in services /\ s \in enabled
                               THEN "found" ELSE "no service"]
  /\ UNCHANGED <<recordVars, phase, reqKey, reqGroup>>

\* The rest of the handler is GatewayPool's.
Answer(r) ==
  /\ pc[r] \in {"found", "no group", "no service"}
  /\ pc' = [pc EXCEPT ![r] = "idle"]
  /\ reqGroup' = [reqGroup EXCEPT ![r] = Empty]
  /\ UNCHANGED <<recordVars, phase, reqKey>>

-----------------------------------------------------------------------------

EnsureDefaults == DefaultServices \/ DefaultGroups \/ DefaultConfig \/ DefaultKey

AdminService(s) == CreateService(s) \/ UpdateService(s) \/ DeleteService(s)
AdminGroup(g)   == CreateGroup(g) \/ UpdateGroup(g) \/ DeleteGroup(g)
AdminKey(k)     == CreateKey(k) \/ SetKeyStatus(k) \/ DeleteKey(k)

Request(r) == LookUpGroup(r) \/ LookUpService(r) \/ Answer(r)

Next ==
  \/ EnsureDefaults
  \/ Crash
  \/ \E s \in Services : AdminService(s)
  \/ \E g \in Groups : AdminGroup(g)
  \/ \E k \in Keys : AdminKey(k)
  \/ \E r \in Requests, k \in Keys : Auth(r, k)
  \/ \E r \in Requests : Request(r)

Spec == Init /\ [][Next]_vars

-----------------------------------------------------------------------------
(* Properties                                                              *)

TypeOK ==
  /\ services \subseteq Services /\ enabled \subseteq services
  /\ groups \subseteq Groups
  /\ serviceID \in [Groups -> Services \cup {Empty}]
  /\ keys \subseteq Keys /\ active \subseteq keys
  /\ keyGroup \in [Keys -> Groups \cup {Empty, AllAccounts}]
  /\ config \in BOOLEAN
  /\ retired \subseteq Services \cup Groups \cup Keys
  /\ phase \in {"services", "groups", "config", "keys", "up"}
  /\ pc \in [Requests -> {"idle", "group", "service", "found", "no group",
                          "no service"}]
  /\ reqKey \in [Requests -> Keys]
  /\ reqGroup \in [Requests -> Groups \cup Services \cup {Empty}]

\* Every key leads to a group, whatever was created and deleted in between:
\* DeleteGroup refuses while a key is left, and CreateKey needs the group.
KeysResolve ==
  \A k \in keys : Internal(k) \/ GroupOf(keyGroup[k]) \in groups

OneInternalKey == \A j, k \in keys : Internal(j) /\ Internal(k) => j = k

\* Once started, and after any crash during an earlier start, the built-in
\* service and group and the configuration are there and stay there; and a start
\* doubles nothing (EnsureDefaults, "幂等创建"), there is at most one internal key.
DefaultsStand ==
  /\ Up => DefaultService \in services /\ DefaultGroup \in groups /\ config
  /\ OneInternalKey

\* A request misses its group only when its key was deleted on the way.
MissedGroupLostKey == \A r \in Requests : pc[r] = "no group" => reqKey[r] \notin keys
=============================================================================
