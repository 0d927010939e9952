------------------------------ MODULE WarpPool ------------------------------
(***************************************************************************)
(* WARP exits and the proxy pool (engine/warp.go, engine/proxy_pool_warp.go *)
(* and the pool and settings of engine/accounts.go).  An exit is a Docker  *)
(* container on a port of its own, an instance in a stored list and an     *)
(* entry of the proxy pool that registrations take their exits from.       *)
(*                                                                         *)
(* WarpService.mu guards the list, but recreating containers runs without  *)
(* it, and the pool has no lock: SyncWarpProxyEntries and the pool page    *)
(* read it, and save it later.  Addresses measured through an exit,        *)
(* upstream proxies and licences are left out; so is the order of entries. *)
(***************************************************************************)
EXTENDS Naturals, FiniteSets, Functions

CONSTANTS
  WarpPorts,     \* ports an exit may have; the exit's URL is its port
  WarpOwn,       \* URL of a proxy of the user's own
  WarpCalls,     \* requests of the WARP page, each handled by one goroutine
  WarpOps,       \* bound: requests and saves of the pool page
  WarpOutages,   \* bound: restarts, containers removed by hand
  NoWarp

ASSUME WarpAssumption ==
  /\ WarpOwn \notin WarpPorts
  /\ NoWarp \notin WarpPorts \cup WarpCalls \cup {WarpOwn}
  /\ WarpOps \in Nat /\ WarpOutages \in Nat

VARIABLES
  wBoxes,    \* ports whose container exists
  wInsts,    \* the stored list: by port, whether its status is "error"
  wPool,     \* KeyProxyPool: by URL, source and switch
  wKept,     \* whether it has ever been saved
  wMirror,   \* ProxySettings.RegisterURLs
  wLock,     \* holder of WarpService.mu between two steps
  wAt,       \* where each request is: <<operation, step>>
  wPort,     \* the port it is about
  wList,     \* its copy of the list
  wDone,     \* ports RestartAll has recreated
  wRead,     \* the pool it has read
  wProbed,   \* ports that probeCreated goroutines still look at
  wPage,     \* the pool as the pool page shows it
  wOps, wFaults,
  wSaved,    \* history: what the user last saved, less the exits syncs dropped
  wRaced,    \* history: ports whose list entry changed during a recreation
  wStale     \* history: exits removed while someone held an older copy

warpCall == <<wAt, wPort, wList, wDone, wRead>>
warpPast == <<wSaved, wRaced, wStale>>
warpVars == <<wBoxes, wInsts, wPool, wKept, wMirror, wLock, warpCall, wProbed, wPage,
              wOps, wFaults, warpPast>>

WarpUrls == WarpPorts \cup {WarpOwn}
WarpEntry == [warp : BOOLEAN, on : BOOLEAN]
Nothing == [p \in {} |-> FALSE]
WarpIdle == <<"idle", "idle">>
InCall(c, op) == wAt[c][1] = op
InStep(c, step) == wAt[c][2] = step

\* An earlier version wrote the URLs of its exits to RegisterURLs only.
WarpInit ==
  /\ wInsts \in {Nothing} \cup {[p \in {q} |-> FALSE] : q \in WarpPorts}
  /\ wBoxes = DOMAIN wInsts
  /\ wPool = Nothing /\ wKept = FALSE /\ wMirror \in {{}, DOMAIN wInsts}
  /\ wLock = NoWarp
  /\ wAt = [c \in WarpCalls |-> WarpIdle]
  /\ wPort = [c \in WarpCalls |-> NoWarp]
  /\ wList = [c \in WarpCalls |-> Nothing]
  /\ wDone = [c \in WarpCalls |-> {}]
  /\ wRead = [c \in WarpCalls |-> Nothing]
  /\ wProbed = {} /\ wPage = Nothing /\ wOps = 0 /\ wFaults = 0
  /\ wSaved = Nothing /\ wRaced = {} /\ wStale = {}

-----------------------------------------------------------------------------
\* The pool (accounts.go).

\* GetProxyPool: before the first save, RegisterURLs as entries of the user's.
PoolRead ==
  IF wKept THEN wPool
  ELSE [u \in wMirror |-> [warp |-> FALSE, on |-> TRUE]]

\* SaveProxyPool: RegisterURLs are the URLs switched on.
PoolSave(pool) ==
  /\ wPool' = pool /\ wKept' = TRUE
  /\ wMirror' = {u \in DOMAIN pool : pool[u].on}

\* SyncWarpProxyEntries: what the user added stays, an exit keeps its switch as
\* long as its instance is in the list and not in error, a new one is added.
LiveExits(list) == {p \in DOMAIN list : ~list[p]}
\* A plausible bug: the sync keeps the entries of instances that are gone.
ReconciledKeeps(pool, list) ==
  [u \in DOMAIN pool \cup LiveExits(list) |->
     IF u \in DOMAIN pool THEN pool[u] ELSE [warp |-> TRUE, on |-> TRUE]]

Reconciled(pool, list) ==
  LET kept == {u \in DOMAIN pool : pool[u].warp => u \in LiveExits(list)}
  IN  [u \in kept \cup LiveExits(list) |->
         IF u \in kept THEN pool[u] ELSE [warp |-> TRUE, on |-> TRUE]]

\* The two halves of SyncWarpProxyEntries in request c, which then goes to next.
SyncStarts(c, next) ==
  /\ wRead' = [wRead EXCEPT ![c] = PoolRead]
  /\ wAt' = [wAt EXCEPT ![c] = <<@[1], next>>]
SyncSaves(c) ==
  LET pool == Reconciled(wRead[c], wList[c])
  IN  /\ PoolSave(pool)
      /\ wSaved' = Restrict(wSaved, {u \in DOMAIN wSaved : wSaved[u].warp => u \in DOMAIN pool})

Over(c) ==
  /\ wAt' = [wAt EXCEPT ![c] = WarpIdle]
  /\ wPort' = [wPort EXCEPT ![c] = NoWarp]
  /\ wList' = [wList EXCEPT ![c] = Nothing]
  /\ wDone' = [wDone EXCEPT ![c] = {}]
  /\ wRead' = [wRead EXCEPT ![c] = Nothing]

-----------------------------------------------------------------------------
WarpBegin(c, op, step) ==
  /\ wAt[c] = WarpIdle /\ wOps < WarpOps
  /\ wOps' = wOps + 1
  /\ wAt' = [wAt EXCEPT ![c] = <<op, step>>]

\* Requests whose copy of the list is being recreated.
Recreating == {c \in WarpCalls : InStep(c, "recreate") \/ InStep(c, "merge")}

\* docker rm -f and docker run under the name of port p: when the run fails,
\* a container that could not be started may be left.
BoxRuns(p, error) ==
  wBoxes' \in {wBoxes \cup {p}} \cup (IF error THEN {wBoxes \ {p}} ELSE {})

\* GET /warp/instances: List asks Docker about every container, so that no
\* instance is in error afterwards, and has the addresses missing looked up;
\* the pool is reconciled after the lock is released.
WarpGet(c) ==
  /\ WarpBegin(c, "get", "read") /\ wLock = NoWarp
  /\ wInsts' = [p \in DOMAIN wInsts |-> FALSE]
  /\ wList' = [wList EXCEPT ![c] = wInsts']
  /\ \E missing \in SUBSET (DOMAIN wInsts \cap wBoxes) : wProbed' = wProbed \cup missing
  /\ UNCHANGED <<wBoxes, wPool, wKept, wMirror, wLock, wPort, wDone, wRead, wPage, wFaults,
                 warpPast>>

\* Deploy: under the lock, a container on a free port, the longer list, and
\* the pool.  A port whose container is not in the list is in use.
WarpDeploy(c) ==
  \E p \in WarpPorts \ (DOMAIN wInsts \cup wBoxes), error \in BOOLEAN :
    /\ WarpBegin(c, "deploy", "save") /\ wLock = NoWarp
    /\ BoxRuns(p, error)
    /\ wLock' = c
    /\ wPort' = [wPort EXCEPT ![c] = p]
    /\ wList' = [wList EXCEPT ![c] = [q \in DOMAIN wInsts \cup {p} |->
                                        IF q = p THEN error ELSE wInsts[q]]]
    /\ UNCHANGED <<wInsts, wPool, wKept, wMirror, wDone, wRead, wProbed, wPage, wFaults,
                   warpPast>>

\* Remove: the container, and the list without the instance.  The rest is for
\* an instance that was there.
WarpRemove(c) ==
  \E p \in WarpPorts :
    /\ WarpBegin(c, "remove", "save") /\ wLock = NoWarp
    /\ p \in DOMAIN wInsts
    /\ wBoxes' = wBoxes \ {p}
    /\ wLock' = c
    /\ wPort' = [wPort EXCEPT ![c] = p]
    /\ wList' = [wList EXCEPT ![c] = Restrict(wInsts, DOMAIN wInsts \ {p})]
    /\ UNCHANGED <<wInsts, wPool, wKept, wMirror, wDone, wRead, wProbed, wPage, wFaults,
                   warpPast>>

\* Deploy and Remove save the list, under the lock.
WarpSave(c) ==
  /\ InStep(c, "save")
  /\ wInsts' = wList[c]
  /\ wAt' = [wAt EXCEPT ![c] = <<@[1], "read">>]
  /\ wRaced' = IF Recreating = {} THEN wRaced ELSE wRaced \cup {wPort[c]}
  /\ UNCHANGED <<wBoxes, wPool, wKept, wMirror, wLock, wPort, wList, wDone, wRead, wProbed,
                 wPage, wOps, wFaults, wSaved, wStale>>

WarpRead(c) ==
  /\ InStep(c, "read")
  /\ SyncStarts(c, "sync")
  /\ UNCHANGED <<wBoxes, wInsts, wPool, wKept, wMirror, wLock, wPort, wList, wDone, wProbed,
                 wPage, wOps, wFaults, warpPast>>

\* Copies that still hold the exit p when it is removed.
Remembered(p) ==
  \/ p \in DOMAIN wPage
  \/ \E d \in WarpCalls : p \in DOMAIN wList[d]

\* A removal then takes the URL out of RegisterURLs as well.
WarpSync(c) ==
  /\ InStep(c, "sync")
  /\ SyncSaves(c)
  /\ IF InCall(c, "remove")
     THEN /\ wAt' = [wAt EXCEPT ![c] = <<"remove", "clean">>]
          /\ wStale' = IF Remembered(wPort[c]) THEN wStale \cup {wPort[c]} ELSE wStale
          /\ UNCHANGED <<wPort, wList, wDone, wRead, wLock, wProbed>>
     ELSE /\ Over(c)
          /\ wLock' = IF wLock = c THEN NoWarp ELSE wLock
          /\ wProbed' = IF InCall(c, "deploy") THEN wProbed \cup {wPort[c]} ELSE wProbed
          /\ UNCHANGED wStale
  /\ UNCHANGED <<wBoxes, wInsts, wPage, wOps, wFaults, wRaced>>

WarpClean(c) ==
  /\ InStep(c, "clean")
  /\ wMirror' = wMirror \ {wPort[c]}
  /\ Over(c) /\ wLock' = NoWarp
  /\ UNCHANGED <<wBoxes, wInsts, wPool, wKept, wProbed, wPage, wOps, wFaults, warpPast>>

-----------------------------------------------------------------------------
\* RestartAll and RecreateOne copy instances under the lock and recreate their
\* containers without it.
WarpRestart(c) ==
  /\ wLock = NoWarp /\ DOMAIN wInsts # {}
  /\ \/ /\ WarpBegin(c, "restart", "recreate")
        /\ wList' = [wList EXCEPT ![c] = wInsts]
     \/ /\ WarpBegin(c, "recreate", "recreate")
        /\ \E p \in DOMAIN wInsts :
             wList' = [wList EXCEPT ![c] = Restrict(wInsts, {p})]
  /\ UNCHANGED <<wBoxes, wInsts, wPool, wKept, wMirror, wLock, wPort, wDone, wRead, wProbed,
                 wPage, wFaults, warpPast>>

\* recreateInstances, one instance after the other.
WarpRecreate(c) ==
  /\ InStep(c, "recreate")
  /\ \E p \in DOMAIN wList[c] \ wDone[c], error \in BOOLEAN :
       /\ BoxRuns(p, error)
       /\ wList' = [wList EXCEPT ![c][p] = error]
       /\ wDone' = [wDone EXCEPT ![c] = @ \cup {p}]
       /\ wAt' = IF wDone'[c] = DOMAIN wList[c]
                 THEN [wAt EXCEPT ![c] = <<@[1], "merge">>] ELSE wAt
       /\ wProbed' = IF wDone'[c] = DOMAIN wList[c] THEN wProbed \cup wDone'[c] ELSE wProbed
  /\ UNCHANGED <<wInsts, wPool, wKept, wMirror, wLock, wPort, wRead, wPage, wOps, wFaults,
                 warpPast>>

\* RestartAll saves its copy as the list; exits not in error are appended to
\* RegisterURLs.  Those it forgets stay in the pool.
WarpRestarted(c) ==
  /\ InStep(c, "merge") /\ InCall(c, "restart") /\ wLock = NoWarp
  /\ wInsts' = wList[c]
  /\ wMirror' = (IF wMirror = {} THEN {u \in DOMAIN PoolRead : PoolRead[u].on} ELSE wMirror)
                  \cup LiveExits(wList[c])
  /\ wStale' = wStale \cup (DOMAIN wInsts \ DOMAIN wList[c])
  /\ Over(c)
  /\ UNCHANGED <<wBoxes, wPool, wKept, wLock, wProbed, wPage, wOps, wFaults, wSaved, wRaced>>

\* RecreateOne changes its own instance in the list as it is now.
WarpRecreated(c) ==
  /\ InStep(c, "merge") /\ InCall(c, "recreate") /\ wLock = NoWarp
  /\ wInsts' = [p \in DOMAIN wInsts |-> IF p \in DOMAIN wList[c] THEN wList[c][p] ELSE wInsts[p]]
  /\ Over(c)
  /\ UNCHANGED <<wBoxes, wPool, wKept, wMirror, wLock, wProbed, wPage, wOps, wFaults, warpPast>>

\* SyncProxyPool: List, and every exit in the list appended to RegisterURLs.
WarpPush ==
  /\ wLock = NoWarp /\ wOps < WarpOps /\ wOps' = wOps + 1
  /\ wInsts' = [p \in DOMAIN wInsts |-> FALSE]
  /\ wMirror' = (IF wMirror = {} THEN {u \in DOMAIN PoolRead : PoolRead[u].on} ELSE wMirror)
                  \cup DOMAIN wInsts
  /\ UNCHANGED <<wBoxes, wPool, wKept, wLock, warpCall, wProbed, wPage, wFaults, warpPast>>

\* One round of probeCreated, or RefreshIP: instances that are still in the
\* list get the state of their containers.
WarpProbe ==
  /\ wLock = NoWarp /\ wProbed # {}
  /\ wInsts' = [p \in DOMAIN wInsts |-> IF p \in wProbed THEN FALSE ELSE wInsts[p]]
  /\ \E done \in SUBSET wProbed : wProbed' = wProbed \ done
  /\ UNCHANGED <<wBoxes, wPool, wKept, wMirror, wLock, warpCall, wPage, wOps, wFaults, warpPast>>

-----------------------------------------------------------------------------
\* The pool page.

PageLoad ==
  /\ wPage # PoolRead
  /\ wPage' = PoolRead
  /\ UNCHANGED <<wBoxes, wInsts, wPool, wKept, wMirror, wLock, warpCall, wProbed, wOps, wFaults,
                 warpPast>>

\* The user switches an entry, adds a proxy or deletes one of the user's own.
Edited ==
  {[wPage EXCEPT ![u].on = ~@] : u \in DOMAIN wPage}
    \cup {[v \in DOMAIN wPage \cup {u} |->
             IF v = u THEN [warp |-> FALSE, on |-> TRUE] ELSE wPage[v]] :
           u \in WarpUrls \ DOMAIN wPage}
    \cup {Restrict(wPage, DOMAIN wPage \ {u}) : u \in {v \in DOMAIN wPage : ~wPage[v].warp}}

\* PUT /proxy-pool.  A request between reading and saving the pool will undo it.
PageSave ==
  /\ wOps < WarpOps /\ wOps' = wOps + 1
  /\ \E pool \in Edited :
       /\ PoolSave(pool)
       /\ wPage' = pool
       /\ wSaved' = IF \E c \in WarpCalls : InStep(c, "sync") THEN Nothing ELSE pool
  /\ UNCHANGED <<wBoxes, wInsts, wLock, warpCall, wProbed, wFaults, wRaced, wStale>>

\* A container is removed behind the application's back.
BoxRemoved ==
  /\ wFaults < WarpOutages /\ wFaults' = wFaults + 1
  /\ \E p \in wBoxes : wBoxes' = wBoxes \ {p}
  /\ UNCHANGED <<wInsts, wPool, wKept, wMirror, wLock, warpCall, wProbed, wPage, wOps, warpPast>>

\* The application ends, its requests with it; containers and the store stay.
WarpCrash ==
  /\ wFaults < WarpOutages /\ wFaults' = wFaults + 1
  /\ \E c \in WarpCalls : wAt[c] # WarpIdle
  /\ wLock' = NoWarp
  /\ wAt' = [c \in WarpCalls |-> WarpIdle]
  /\ wPort' = [c \in WarpCalls |-> NoWarp]
  /\ wList' = [c \in WarpCalls |-> Nothing]
  /\ wDone' = [c \in WarpCalls |-> {}]
  /\ wRead' = [c \in WarpCalls |-> Nothing]
  /\ wProbed' = {}
  /\ LET held == {wPort[c] : c \in WarpCalls} \cap WarpPorts
     IN  wRaced' = wRaced \cup held /\ wStale' = wStale \cup held
  /\ UNCHANGED <<wBoxes, wInsts, wPool, wKept, wMirror, wPage, wOps, wSaved>>

WarpNext ==
  \/ \E c \in WarpCalls :
       \/ WarpGet(c) \/ WarpDeploy(c) \/ WarpRemove(c) \/ WarpSave(c) \/ WarpRead(c)
       \/ WarpSync(c) \/ WarpClean(c) \/ WarpRestart(c) \/ WarpRecreate(c)
       \/ WarpRestarted(c) \/ WarpRecreated(c)
  \/ WarpPush \/ WarpProbe \/ PageLoad \/ PageSave \/ BoxRemoved \/ WarpCrash

WarpSpec == WarpInit /\ [][WarpNext]_warpVars

-----------------------------------------------------------------------------
WarpTypeOK ==
  /\ wBoxes \subseteq WarpPorts
  /\ DOMAIN wInsts \subseteq WarpPorts /\ \A p \in DOMAIN wInsts : wInsts[p] \in BOOLEAN
  /\ DOMAIN wPool \subseteq WarpUrls /\ \A u \in DOMAIN wPool : wPool[u] \in WarpEntry
  /\ wKept \in BOOLEAN /\ wMirror \subseteq WarpUrls
  /\ wLock \in WarpCalls \cup {NoWarp}
  /\ wOps \in 0..WarpOps /\ wFaults \in 0..WarpOutages

\* A container without an instance, which nobody can see or remove any more:
\* only when the list changed while containers were recreated without the lock
\* (RestartAll then saves its older list), or the application ended halfway.
BoxesKnown ==
  \A p \in wBoxes :
    p \in DOMAIN wInsts \cup wRaced \/ \E c \in WarpCalls : InStep(c, "save") /\ wPort[c] = p

\* An exit in the pool whose instance is gone, which fails every registration
\* that takes it: only while its removal is under way, or when someone who had
\* read the list or the pool before the removal saved it afterwards.
ExitsKnown ==
  \A u \in DOMAIN wPool :
    wPool[u].warp =>
      u \in DOMAIN wInsts \cup wStale \/ \E c \in WarpCalls : InCall(c, "remove") /\ wPort[c] = u

\* What the user saved in the pool stays as saved whatever the WARP page does:
\* proxies of the user's own are kept, and an exit switched off is not switched
\* on as long as it stays in the pool.
UserKept ==
  \A u \in DOMAIN wSaved :
    /\ ~wSaved[u].warp => u \in DOMAIN wPool /\ wPool[u] = wSaved[u]
    /\ u \in DOMAIN wPool => wPool[u].on = wSaved[u].on

\* WARP containers, instances and pool entries agree, save for the named races.
WarpSound == WarpTypeOK /\ BoxesKnown /\ ExitsKnown /\ UserKept

=============================================================================
