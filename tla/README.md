# Verification of Grok-Nobody

Grok-Nobody (`src/backend`, module `umbraforge`, with a Vue page in `src/frontend`)
is a desktop program that registers accounts in batches, keeps them, and serves
them to other programs through a local API gateway. This directory holds TLA+
modules of its concurrent core and of the translations between protocols, TLC
configurations that check them on small instances, and TLAPS proofs about them for
every value of their constants.

    tlc -config PoolSlots.cfg MCGatewayPool      # one line per run, see "Runs"
    tlapm GatewayPool_proofs.tla                 # and the other *_proofs modules

`PROJECT.json` lists the components, the runs, the line of code each definition
stands for (`map`), the known hazards and the disagreements found.

## 1. Inventory

Paths are relative to `src/backend/internal`.

| Component | State | Operations | Talks to |
|---|---|---|---|
| **Gateway account pool** `engine/gateway/{picker,http,anthropic,chat,upstream}.go` | slots taken per account, cooldowns, banned set, sticky bindings (all in memory, one mutex) | `Pick`, `PickWithSession`, `Release`, `RecordFailure`; handlers for forwarding, models, chat, connectivity test | reads the account store without its own lock, writes verdicts back after it |
| **Gateway records** `engine/gateway/{store,types,middleware}.go` | services, groups, keys, configuration in settings.json (mutex per call) | `EnsureDefaults`, create / update / delete, look-ups of a request | JSON store, admin routes |
| **Gateway lifecycle** `engine/gateway/service.go` | listener, shown configuration | `Start`, `Stop`, `ApplyConfig` | records; called by main and by concurrent HTTP handlers |
| **Registration batch** `pkg/grokregister/{batch,proxy_workingset,proxy_check,safe_cancel,helpers}.go` | working set and reserve of proxies, failure counts, rests, sticky proxy per worker, job channel, counters, automatic pause | `RunBatch` with its workers | register engine (progress and result callbacks), the registrar, proxies |
| **Register engine** `engine/{register,stats,monitor,captcha_workers}.go` | status, counters, per-minute samples | `Start`, `Stop`, `run`, asynchronous imports | batch, account store, plugins |
| **Account store and import** `engine/{accounts,convert_retry,import_progress}.go` | the account list, import progress | upsert, update, delete, move, 3-phase OAuth conversion, usage query | JSON store, xAI client, gateway pool |
| **JSON store** `store/{jsonstore,lock}.go` | one map, one file | `Get`, `Set`, save by rename | everything |
| **Proxy pool and WARP** `engine/{proxy_pool_warp,warp,warp_keys}.go` | pool entries in two stored forms, WARP instances, containers, keys | deploy, remove, restart, recreate, clean up, list, synchronise; the pool page | JSON store, Docker |
| **iCloud mail pool** `engine/{icloud,icloud_email}.go` | addresses with states | claim, release, delete, synchronise, reset | JSON store, panel process, Apple |
| **Mail workers** `engine/edu.go`, `pkg/cfemail` | a list of workers | page operations | Cloudflare |
| **Captcha prefetch** `pkg/grokregister/captcha_prefetch.go` | one slot per worker | `Start`, `Take`, `Clear` | solvers |
| **Registration protocol** `pkg/grokregister/{register,captcha,...}.go` | a session; cached page data; gates, counters and a warm pool of captcha tokens | `Run`, `SolveTurnstileWithOptions`, the warm-up loop | services outside, solver engines |
| **Captcha clients** `pkg/captcha` | none | HTTP calls | services outside |
| **xAI client** `pkg/xai` | client version, its age | refresh, usage, OAuth | services outside |
| **API converters** `pkg/apicompat` | the state of a stream | requests, answers, streams between three protocols | gateway handlers |
| **Plugin centre** `plugins` | tasks, processes, modes, containers | install, start, stop, deploy, automatic start, watchdog | processes, Docker |
| **Protected bundle** `protectedbundle, protectbuild, protectionconfig` | none | packaging | - |
| **HTTP server, program, frontend** `server`, `cmd`, `src/frontend` | none of interest | routes | calls the components above |

What is hard in it, and what makes each part correct:

- *Account pool.* Handlers race for slots and health; the stored and the
  remembered half of an account's health are read and written at different times;
  retries give back one account and take another. Correct: no slot is lost or
  given back twice, the cap holds, recorded bans and limits are honoured over
  restarts, a conversation keeps its account, every request ends.
- *Records.* The process may die between the four writes of a start; records
  refer to each other and are deleted from one page while another page, or a
  request, uses them. Correct: every key leads to a group, the defaults stand.
- *Lifecycle.* `ApplyConfig` drops its mutex between saving and restarting.
  Correct: the listener agrees with the configuration shown.
- *Batch.* N workers share a shrinking proxy pool, probe without the lock, retry,
  pause, and may be cancelled anywhere. Correct: each job is counted once, the
  batch ends, limits and pauses hold as far as the code can promise.
- *Register engine.* Callbacks of the batch, asynchronous imports and a sampler
  outlive the batch they belong to. Correct: numbers belong to their batch, a
  stopped engine becomes idle and can start again.
- *Account import.* Read-modify-write with a remote call in between. Correct: no
  edit of another caller is lost or undone, a deleted account stays deleted.
- *Mail pool.* Some writers of the pool hold the lock and some do not. Correct: an
  address is in one pair of hands, and a job that ends loses none.
- *Proxy pool and WARP.* A container, an instance and a pool entry stand for one
  exit, and are changed one after the other. Correct: they agree, and what the user
  entered stays.
- *Captchas.* Calls, a background loop, settings and stops overlap. Correct: gates
  hold, a token is used once, a pool nobody keeps warm is empty.
- *Attempt.* A solver, a prefetcher and the script meet over channels. Correct: who waits
  is answered, a success has its account.
- *Plugin centre.* Long operations without the lock, ports shared by processes and
  containers, a Docker that comes and goes. Correct: a good container is not torn
  down, and what is reported ready serves.
- *Converters.* State machines over event streams, and folds over histories.
  Correct: events are properly nested and end once, calls and their answers
  stay together, nothing is lost or said twice.

## 2. Modules

| Module | Models | Uses |
|---|---|---|
| `SlotLease` | what an account pool promises: a bounded lease | - |
| `GatewayPool` | picker, handlers and the account fields they share | `SlotLease` (refinement) |
| `GatewayStore` | records, start-up defaults, administration, look-ups | - |
| `GatewayService` | Start / Stop / ApplyConfig | - |
| `BatchTally` | what a batch promises its caller | - |
| `RunBatch` | the registration batch | `BatchTally` (refinement) |
| `AccountImport` | the account list, imports and refreshes | - |
| `RegisterEngine` | the engine around the batches: start, stop, end, imports, figures | - |
| `MailPool` | mailboxes of a batch and of the page | - |
| `CaptchaSolver` | gates, counters and the warm pool of captcha tokens | - |
| `RegisterAttempt` | one job from the sign-up page to its session, with the prefetcher | - |
| `WarpPool` | WARP exits, their containers and the proxy pool | - |
| `PluginCenter` | captcha engines as processes and as containers | - |
| `AnthropicStreams` | converters that write Anthropic streams | - |
| `ResponsesStreams` | converters that write Responses streams, and their readers | - |
| `Conversations` | converters of histories | - |
| `ClientTools` | renaming of tools and of their calls | - |
| `MCGatewayPool`, `MCRunBatch` | small instances | one module each |
| `MCServer` | small instance of what surrounds the account pool | `GatewayStore`, `GatewayService`, the four translations, `WarpPool`, `PluginCenter` |
| `MCRegistration` | small instance of what surrounds a batch | `AccountImport`, `RegisterEngine`, `MailPool`, `CaptchaSolver`, `RegisterAttempt` |
| `GatewayPool_proofs`, `Server_proofs` (of `GatewayStore`, `GatewayService`, `PluginCenter` and `WarpPool`), `AnthropicStreams_proofs` (also of `ClientTools` and `Conversations`), `ResponsesStreams_proofs`, `RunBatch_proofs`, `RegisterEngine_proofs` (also of `AccountImport`), `MailPool_proofs` (also of `RegisterAttempt`), `CaptchaSolver_proofs` | theorems | TLAPS |

How they meet: the engine starts a batch (`RegisterEngine`, which sees of it what
`BatchTally` promises); a worker of the batch (`RunBatch`) takes a mailbox (`MailPool`),
makes an attempt (`RegisterAttempt`) over a proxy, perhaps a WARP exit (`WarpPool`),
with a captcha (`CaptchaSolver`) that an engine solves (`PluginCenter`); a success is
imported (`AccountImport`) and served by the gateway (`GatewayPool`, `GatewayStore`,
`GatewayService`) in the protocol of the client (the four translations). What one part
needs of another is an outcome in its own module, so they share no variables.

Each module keeps "variants" of some definitions, each with one plausible slip;
the specification uses none of them. They show that a property notices the slip
(`PROJECT.json`, `mutants`).

### GatewayPool

`running`, `cooldown`, `forbidden`, `sticky`, `stickyN` are the fields of
`AccountPicker`; `groupID`, `usable`, `bannedAt`, `resetAt`, `unsched` are what the
picker reads of the account records. A handler `r` is a goroutine with a place
`pc[r]`, the list it read, the account its `defer Release` will give back
(`entry`) and the one whose slot it holds (`cur`); the two differ after a retry.
Each critical section of `AccountPicker.mu` is one action. `PickWithSession` has three
(`StickyReuse` / `StickyMiss`, `Choose`, `Bind`); the account list is read outside
of the lock (`ReadList`); `RecordFailure` changes memory (`Upstream`) and then, outside
of the lock, the record (`Persist`). `ReleaseCurrent` is the release inside
`forwardWithRetry` and `handleModels`, `Finish` the deferred one. The account list under
it is changed by the operations in `Admin`: bans and unbans, clearing a limit, a
usage query, re-import (`Upsert`), move, gaining or losing a token. `Restart` forgets memory.

Time is counted in ticks: a deadline is the number of ticks left. `Tick` does not happen
while a handler is between two instructions (`Instant`): those take milliseconds,
a tick is minutes. Bodies, headers, streams and the contents of the answer are the
outcome of one forward: `ok`, a transport error (whose text may contain "forbidden"
or "rate limit", as `RecordFailure` reads the text), or an HTTP error.

`condemned` and `limited` are history: the bans and limits that reached the store and
that nobody has lifted.

### GatewayStore

A record is its id and the ids it refers to; names, descriptions, proxies and
secrets are left out, except that a creation may always be refused. Every method
runs under the store's mutex and writes one settings key, so it is one action;
`EnsureDefaults` is four, and `Crash` falls between any two. A request looks up
key, group and service in three critical sections. Ids are not drawn twice
(`retired`), and a page may send ids of records that are gone (`Listed`).

### GatewayService

`ApplyConfig` is `Save`, `Stop`, `Start`: the mutex is free in between. `Listen` may
fail when another program holds the port. `Exit` is the end of the program,
orderly or not: configuration saved, listener gone.

### RunBatch

Every critical section of `proxyMu` is one action of a worker: `KeepSticky`,
`PickProxy`, `Reconnect`, `Track`, `Remove`, `Rest`, `TakeReserve`, `Release`; a
probe of a proxy (`Verify`), a reconnection and the search in the reserve happen
between two of them. The reserve is read in `Remove` or `Rest`
(`found[w]`), probed without the lock, and written back in `TakeReserve`, as in the
code: another worker may have written it meanwhile. The pool is a function
from proxies to slots, because two workers may bring the same proxy in; the order
of slots only decides which of several equally good proxies is used, and that
choice is left open. `Attempt` ends as the registrar decides: a member of `Outcomes`,
which `Retryable`, `Limited`, `Unresolved` sort the way the code sorts error texts.
`Stop` is the engine closing the `SafeCancel`, at any time; `GiveUp` is a
worker that finds no proxy left and closes it itself. Rests and
pauses end at any time (`RestEnds`, `PauseEnds`): their lengths do not matter to the
properties. `held` is history: workers that finished a job in the current pause.

Left out: the pace between jobs, the choice of mailbox, statistics, log and
progress texts, the stall diagnosis (in `RegisterEngine`), and captcha prefetch
(in `RegisterAttempt`). `SkipProxyPreCheck` is never
set in this code and not modelled.

### AccountImport

`book` is the stored account list, a function from ids; every method of
`AccountService` that holds `mu` is one action on it (`Upsert`, `Delete`, `MarkImported`,
`Update`). A request `c` is an HTTP call that converts: `ConvertToOAuth` called
directly, as the background task of `ConvertToOAuthAsync`, or `RefreshOAuth` for one
account. Its place is `pc[c]`; `Split` (or `Read`) and `Merge` (or `SaveRefreshed`) are its two
locked sections, and between them `jobs[c]` holds one conversion per account, of which `Gate`
run at a time. `Attempt` is one `ConvertSSOToOAuth`, whose outcome `After` sorts as
`convertOnce` does: from the proxy to a direct connection without counting it, a wait and
another try, or the end. `progress` is the shared `importProg`; every
import counts into it, also one that is not the task. `ConvertToOAuthAsync`
looks at it in `Arrive` and sets it in `Begin`, two critical sections. `written` is history:
the note the user last wrote.

An address stands for the SSO cookie it was registered with (`UpsertFromResult` looks for
either). Left out: the trace of a failed conversion in the record, the test trace,
export, usage queries (those the gateway depends on are in `GatewayPool`), proxy
settings, and the failing write of the JSON store.

### RegisterEngine

Batches are numbered, because goroutines outlive them: the imports of successes
(`engImport[b]` counts those of batch `b` at each stage), the sampler, which only the
closed channel of its batch ends, and a stall diagnosis about to report (`engStall`).
`engAt[b]` is the place of `run()`; `EngEnd` is its deferred end. `EngStop` notes the cancel
channel under the lock and `EngClose` closes it without. `Reported` is what `OnProgress`
writes into the status, `Flush` is `flushPerMinLocked`: the figures of a minute
are the counters less those at the last sample. `engLate` is history: a diagnosis has
reported after its batch.

### MailPool

`mailPool` is the stored pool, `mailLive` the addresses the platform knows. A job
claims (`MailClaim`), has an address made (`MailCreate`), or takes the one the platform
offers (`MailFallback`); after its attempts the address is released or deleted by
goroutines of their own (`mailTasks`). Claims and releases hold the gateway's lock;
`SyncList`, `SyncRead` and `SyncWrite` are `SyncPool`, which does not. `mailUndone`, `mailOutside` and
`mailLeft` are history: addresses a synchronisation or reset has overwritten while
used, that the platform chose itself, that are left behind.

### CaptchaSolver

`capCall[c]` is a call of `SolveTurnstileWithOptions`, of a worker or of the warm-up loop:
from the queue through a gate of a host (`EnterGate`; another limit makes a new
gate, and who holds the old one gives its slot back there) to the request, the retry after
a hung browser, and the token. `capPool` holds the tokens kept warm, `capLoop[l]` the place of
each warm-up loop, `capStop` the loop in charge, `capAt` the batch that starts and
stops it. A token may grow too old at any time.

### RegisterAttempt

`attAt[w]` is the place of a worker in `Run`: page, cold start of the cached page data (one
worker at a time, `attLoader`), address, captcha, code, submission, session. The captcha
is solved beside it: `attWait[w]` says where from, `attPre[w]` is the prefetcher's
goroutine and `attSlot[w]` its slot. `attPosted` counts how often each token was
submitted, `attAccount` says whether the site has opened an account. The site may change its
action at any time (`SiteRotates`).

### WarpPool

A port stands for an exit: its container (`wBoxes`), its instance in the stored list
(`wInsts`), its entry in the pool (`wPool`, with `RegisterURLs` as `wMirror`). A request
`c` works on its copy of the list (`wList`) and of the pool (`wRead`); `WarpService.mu` is
`wLock`, which recreations run without and the pool page does not know. `WarpCrash` is a
restart of the program, `BoxRemoved` a container removed by hand. `wRaced` and
`wStale` are history: the entries that changed under a recreation, the exits removed
while someone held an older copy.

### PluginCenter

`plugPort[i]` says who serves the port of engine `i`: nobody, a process of this machine, or
a container; `plugBox` is the state of each container as `docker inspect` gives it
(`down`: the runtime stopped with it), `plugCurrent` whether the combined
container is of this version. Operations that hold the lock of the centre are one call
with its steps (`LocalBegin` ... `LocalEnd`); the deployment has its own place
(`plugDeploy`), from the probe over the inspection, the reuse, the removal and the creation to
the wait for the engines. Docker goes down and comes up at any time. `plugExcused` is history:
an outage ended between the inspection and the question whether Docker answers.

### AnthropicStreams, ResponsesStreams

Each holds an upstream that produces events in any legal order and may break off
anywhere (`antUp`, `rspUp`), the state of the converters (`antRes`, `antChat`; `rspChat`, `rspAnth`,
`rspCalls`), and a client that folds what it is sent (`antSeen`, `rspSeen`), noting what it could not
place (`astray`). `ResponsesStreams` chains two more readers behind the converter: the
converter back to Chat chunks (`rspBack`) and the accumulator of deltas (`rspAcc`). Texts are left out,
arguments are counted in pieces, of each call apart. What `gateway/anthropic.go` answers to a
client that does not stream is the operator `ResBlocks`.

### Conversations, ClientTools

Converters without state: the modules grow a history (`cvHistory`), or a list of tools
(`ctTools`), one member at a time, and every state is an input, so that the invariants
check the converters on all inputs up to a bound. A text or an output is
its position in the history, so that loss, duplication and reordering show. The
reference is what the receiving protocol demands (turns alternate, calls are
answered where it wants it) and what a conversion there and back returns.

### MCServer, MCRegistration

Two instances hold the modules that share no state. `part` says which one moves; the
others stay where they start. What they check is what each module would check alone,
and a state of one part is never multiplied by those of another. Each part takes
its steps under `PartsNext`, whose disjuncts are the parts.

### SlotLease and BatchTally

The abstract specifications, each about a page: who leases what, at most
`Limit` each; how many jobs are completed, succeeded, failed, and when it ends.
`GatewayPool` implements the first with `lease <- cur`; `RunBatch`
the second with `Total <- Count, ended <- phase \in {"aborted", "done"}`. The
register engine sees of a batch what `BatchTally` promises.

## 3. Runs

| Run | Instance | Checks |
|---|---|---|
| `PoolSlots` | 3 handlers of all kinds, 2 accounts, cap 2, HTTP errors | `TypeOK`, `SlotsExact`, `CapRespected`, `SlotsReturned`, refinement of `SlotLease` |
| `PoolHealth` | 2 handlers, 1 account, every outcome, bans, unbans, usage, restarts | `BanHonoured`, `RateLimitHonoured`, `RequestEnds` |
| `PoolTurns` | 2 conversations and a chat, 2 accounts, 2 groups, re-imports, moves, expiry | `StickyStable`, `ForwardHasAccount` |
| `PoolLeak` | 2 handlers, 2 accounts, network errors | `SlotsReturned` is violated |
| `PoolBanLost` | re-import and restart | `BanHonoured` is violated |
| `StoreRecords` | `MCServer`, see below | records: `KeysResolve`, `DefaultsStand`, `MissedGroupLostKey`; listener: `StaleIsDoomed`; translations: `ClientStreamFits`, `ResponsesStreamsFit`, `AnthropicFits`, `ConversationsFit`, `ClientToolsFit`; exits: `WarpSound`; plug-ins: `GoodBoxKept` |
| `ServiceRace` | 2 callers | `EnabledListens` is violated |
| `BatchRun` | 2 workers, 2 jobs, 3 proxies, working set 2, all limits 1, 2 attempts | `JobsConserved`, `PauseHolds`, `BatchEnds`, refinement of `BatchTally` |
| `BatchLimits` | 2 workers, 3 jobs, `max_per_ip` 2, no pause and no rest | `CapOvershoot` |
| `BatchReserve` | as `BatchRun`, no pause | `ReserveFirst` is violated |
| `ImportMerge` | `MCRegistration`, see below | accounts: `EditsSurvive`, `ResultsAddUp`, `RunningIsReal`, `NeverRevived`, `AttemptsRunOut`; engine: `EngineSound`, `SuccessesArrive`, `PerMinSound`; mail: `MailSound`; captchas: `SolverSound`; attempts: `AttemptSound` |
| `DeployServes` | 2 engines, one with an old container, 1 outage | `DeployServes` is violated |

What the collected properties say: `ClientStreamFits` - an Anthropic client is sent events
in order, one end, a block for every call, and each piece of the arguments once and with
its own call, and shows the blocks of the answer read whole; `ResponsesStreamsFit` - the client
of a Responses stream can place all it is sent, sees every item done, is shown the answer
the stream ends with, and no reader loses a call; `AnthropicFits` - a Responses history reaches an Anthropic upstream
as alternating turns, each call answered in the next, with nothing said lost or moved; `ConversationsFit` -
the same for a Chat upstream, and conversions there and back agree;
`ClientToolsFit` - tools are refused exactly when their names collide, and calls come back as meant; `WarpSound` - containers,
instances and pool entries agree and what the user saved stays; `GoodBoxKept` - a
deployment never removes a container that would have started; `EngineSound` - a free
engine says so, and only one batch is at work; `SuccessesArrive` - every success
is in the import; `PerMinSound` - the figures per minute are gains of the counters, successes and failures, and no baseline is above its counter; `MailSound` - an
address is in one pair of hands, and a used one is accounted for; `SolverSound` - gates
hold, counters are exact, tokens are handed out once, a pool nobody keeps
warm is empty; `AttemptSound` - tokens are submitted once, waiters are answered,
a success has its account and session.

The parts of the two collected runs and their distinct states:

| Run | Part | Instance | States |
|---|---|---|---|
| `StoreRecords` | records | 2 services, 2 groups, 2 keys, 1 request, crashes | 174,000 |
| | service | 3 callers of `ApplyConfig`, 2 ports, one taken, 2 hosts | 1,600 |
| | anthropic | 2 items or calls, 2 pieces, 2 text parts | 19,000 |
| | responses | 2 tools, 3 blocks, 2 pieces | 63,000 |
| | conversations | histories of 4 items, 5 blocks or 3 messages, 2 ids | 195,000 |
| | tools | 3 tools with names that flatten to one another | 14,000 |
| | warp | 2 ports, 2 requests, 3 operations, 1 outage | 706,000 |
| | plugins | 2 engines, one with an old container, 2 operations, 1 outage | 273,000 |
| `ImportMerge` | accounts | 2 requests of any kind, 2 accounts and an id for a third, 1 edit, gate 1, 2 attempts | 121,000 |
| | engine | 2 batches of 1 job, 2 minutes, imports that may fail | 321,000 |
| | mail | 2 addresses, 2 workers, 3 jobs, 1 operation of the page | 149,000 |
| | captcha | 2 hosts, 1 worker and 1 fill, limits 1 and 2, 1 batch | 334,000 |
| | attempt | 1 worker, 2 jobs, 2 tries, 2 proxies, prefetch, 1 rotation | 145,000 |

Why the bounds are enough for the interesting cases:

- *PoolSlots*: three handlers exceed the cap of two on one account, while there is
  a second account to fall back to. *PoolHealth*: two handlers on one account
  write verdicts that overtake each other; a rate limit (2 ticks) is longer than a
  network cooldown (1), so that the shorter can replace the longer. *PoolTurns*: two
  conversations on two accounts with a cap of one compete; the lifetime of a
  binding is one tick, and the sweep comes every second miss.
- *StoreRecords*: the keys are the internal one and one to be created while a group
  is deleted. Three callers of `ApplyConfig`, so that a save can fall between the stop
  and the start of a second one while a third still has to stop. Two items, blocks or
  tools are needed for one to close another; an answered call, an answer that
  never came and a notice between them fit into four items; three tools are a pair that
  collides and one between. Two requests and two ports for exits, so that one
  recreates while the other removes. Two engines, so that one runs in the container and
  one beside it.
- *BatchRun*: two workers suffice for every race on the pool; a working set of two out of
  three leaves one proxy in the reserve; with all limits at one every elimination,
  reconnection, rest and pause is a step away; `throttled` is the outcome that
  leads through every branch of `trackProxyResult` (the other failures take a part of its
  branches), `cancelled` the one the counters treat apart. *BatchLimits*: with a limit of two and three
  jobs a worker keeps its proxy for a second job, and two workers sharing a proxy can
  exceed its limit; a failed connection removes the proxy between the two. `Count`, `MaxJobAttempts` and
  `ModelRounds`, `ChatTurns` are bounds of the code itself, small here.
- *ImportMerge*: the first request is for both accounts and names one of them twice, the second
  for that account alone, so that two conversions of one account overlap, as two tasks
  do that begin at the same time. One edit falls anywhere into them; any number of edits is
  what the theorems are about. A gate of one makes the second conversion wait
  for the first; the outcomes are one of each class that `After` tells apart. Two
  batches are a batch and what it leaves to the next one; two minutes are one that
  ends. Three jobs on two addresses use one again, while a synchronisation
  of the page overlaps that of the job. A change of the limit replaces one of the two gates
  while it is held. Two jobs of one worker are what a prefetch needs: concurrent
  attempts meet only in the cached page data.
Symmetry is used where no liveness property and no `CHOOSE` on the set is
checked: requests and accounts in `PoolSlots`, requests in `PoolLeak`. In `StoreRecords`
one key and one port stand for the others at the start, which are alike.
`CHECK_DEADLOCK FALSE` is set for the batch, which ends, and for the two collected
runs, whose requests, streams and operations run out.

**Fairness.** `GatewayPool.FairSpec`: weak fairness of each handler - goroutines
are scheduled, and the upstream answers, the connection breaks, or the client hangs up
and with it the request's context (`upstream.go:68`). This is an assumption about
the environment: the forward has no timeout of its own, and an upstream that keeps a
silent connection open holds the slot as long as the client waits.
Nothing is assumed of the administrator or of the clock. `RunBatch.FairSpec`:
weak fairness of each worker (attempts, probes and reconnections have timeouts), of the
pre-check, of the end of a pause (a deadline, `batch.go:101`) and of
`wg.Wait` returning. `Stop` and the end of a rest need not happen. `AccountImport` assumes
none: that a conversion ends is `AttemptsRunOut`, a measure that each try lowers. The
other modules state safety only. What would be liveness in them is stated so that
it needs no fairness: a waiter has someone who will answer (`WaitersServed`), a stream that
is closed has been ended (`EndsOnce`, `ItemsEnd`), a used address has someone who
will return it (`UsedIsAccounted`).

## 4. What is proved

TLAPS checks these theorems for any number of handlers, workers, accounts, proxies,
jobs, requests, and for every bound.

| Theorem | Says | Argument |
|---|---|---|
| `GatewayPool_proofs!TypeCorrect` | `[]TypeOK` | `TypeInv`: types, and a handler at its binding step serves a session |
| `SlotsAreExact`, `CapIsRespected`, `SlotsAreReturned`, `PoolImplementsLease` | the four properties of `PoolSlots` | `LeaseInv`: `running[a]` is the number of handlers with `cur = a`, and `cur`, `entry` agree with each handler's place |
| `BansAreHonoured`, `RateLimitsAreHonoured` | no pick of a banned or limited account | `VerdictInv`: history is below the stored field, and a list that still contains the account is contradicted by what the picker remembers, since the verdict enters memory before the store |
| `ForwardedHaveAccounts` | only a first attempt of a conversation goes out without an account | `EntryPosition`, for each handler: one that binds holds an account, one that forwards without is a conversation at its first attempt |
| `ConversationsStay` | a conversation keeps its account | `TurnInv`: a handler that has not bound its conversation yet finds it unbound |
| `Server_proofs!DefaultsAlwaysStand` | the defaults stand after any start, none twice | `DefaultsInv`: which part is there at which phase, whatever crashed before |
| `KeysAlwaysResolve`, `MissesAreExplained` | keys lead to groups; a miss lost its key | `LookUpInv`: a request at "group" holds the group its key had, and the key is there or retired |
| `OneKeyIsInternal` | at most one key is internal | a start makes one only where it sees none, and no administration makes one |
| `StaleIsAlwaysDoomed` (of `GatewayService`) | a listener that is stale has a caller about to stop it | `ServiceInv`: once the program runs, what is stored is what is shown; before that nothing listens and nobody applies |
| `RunsAsShown` | once the applies have returned, a listener is as shown | it follows from `StaleIsDoomed` |
| `AnthropicStreams_proofs!ClientStreamsFit` | an Anthropic client can place all it is sent, and holds each piece of the arguments once; the blocks shown are those of the answer read whole | `AntInv`: the converter's open block, the client's and the item at work agree; of a call's pieces, what is not with the client is held back (the call has no name yet), kept (arguments of Read), or still to come with the event that ends it. `AntShown`: the blocks at the client are the blocks of the items begun so far, laid end to end; that an item more, or a part more of the last one, appends just its blocks follows from how `FlattenSeq` grows at its end (`FlattenAppend`) |
| `ToolsAreToldApart` (of `ClientTools`) | tools are refused exactly when names collide, and calls come back | no invariant but the types: from `Distinct`, the names of two calls differ, and each branch of `RestoredCall` is shown to find the call it came from |
| `AnthropicRequestsFit` (of `Conversations`) | `[]AnthropicFits`, for histories of any length | below |
| `ResponsesStreams_proofs!ResponsesStreamsHold` | a Responses stream is in order, ended, and carries its own answer | `RspInv`, below |
| `RunBatch_proofs!TypeCorrect` | `[]TypeOK` | a worker that judges a proxy has one |
| `JobsAreConserved`, `BatchImplementsTally` | each job once; the refinement | `JobsInv`: what waits, what workers hold and what is completed add up to `Count`; what is completed and not recorded is in a worker's hands; an uncancelled worker leaves only when no job is left |
| `CapIsOvershotAtMost` | the bound on `max_per_ip` | `CapOvershoot` is inductive with the types: a registration that reaches the limit puts its worker at the reconnection, which resets the count |
| `PauseHoldsAlways` | a pause holds | `HeldInv`: a worker held by a pause waits for a job or at the gate |
| `RegisterEngine_proofs!TypeCorrect` (of `AccountImport`) | `[]TypeOK` | the gate: a conversion starts only below it, a queue starts empty |
| `DeletedStaysDeleted`, `ConversionsEnd` | the two action properties | from the types: each write is into accounts that are there, each further try has fewer left |
| `UserEditsSurvive` | edits survive | `NotesOK`: an id that is not given yet has no note |
| `ProgressIsReal` | "running" has a task | `KindsOK`: only a task begins, only a refresh reads |
| `ResultsAreComplete` | results add up | `TallyOK`: until the merge, a result lacks the accounts being converted and nothing else |
| `EngTypeCorrect` | `[]EngTypeOK` | `EngTypeInv`, by the groups of variables that steps leave alone together |
| `EngineAlwaysSettles` | a free engine says so, one batch at work | `SettleInv`: a batch that has left `RunBatch` is complete or cancelled, so that its late diagnosis finds nothing running |
| `SuccessesAlwaysArrive` | every success is in the import | `ArriveInv`: workers are busy only while their batch runs, so that nothing to hand over is left when it ends |
| `FiguresAreSound` | the figures per minute are gains | `RateInv`: the page may lag behind the batch, never be ahead of it, so that no report lowers a counter; a batch without mailboxes is written off as failed and reports nothing after that |
| `MailPool_proofs!MailTypeCorrect`, `MailboxesAreSound` | one pair of hands, nothing lost | `MailInv`: outside of the histories an available address is nobody's, and there is one task for each at most |
| `AttTypeCorrect`, `AttemptsAreSound` (of `RegisterAttempt`) | `[]AttTypeOK`; tokens, budget, waiters, sessions and the cold start | `AttInv`: the tokens in the hands of different workers, and in the places of one, are different and not submitted yet; what a worker, its prefetcher and its slot say about a solve agree at each place |
| `CaptchaSolver_proofs!CapTypeCorrect`, `SolverAlwaysSound` | gates, counters, tokens and pool | `CapInv`: a call has a gate exactly at the places that hold one, the gate of its own host; tokens of fills are new and distinct; every loop but the one in charge has its channel closed; a fill at work has a loop that waits for it |
| `Server_proofs!PlugTypeCorrect`, `GoodBoxIsKept` | a good container is kept | `RebuildExcused`: a deployment on its way to a new container found no current one, or was excused |
| `WarpIsSound` (of `WarpPool`) | containers, instances, entries and what the user saved | `WarpInv`: who holds the lock is in a locked call (`WarpLocking`); what a request's copy of the list or of the pool may lack or have too much is in the histories `wRaced`, `wStale` (`BoxInv`, `ExitInv`); the pool, and the copy a synchronisation has read, agree with what was saved last (`UserInv`) |

None of the invariants of interest is inductive as it stands: `SlotsExact`
needs to know which handlers hold what between two critical sections, `JobsConserved`
who is about to record, and so on.

*The Responses streams.* A step of a converter emits a sequence of events that
`Emit` folds over the restorer and three readers. The proof replaces the fold by a
chain: readers after no event, after one, after two (`PassesChain`), where each
reader of the chain follows from the one before, and the sequence may grow at its end
(`PassesAppend`). That the chain is the fold is shown once, by `NatStepwise` (a set of
numbers with 0 and the next of each of its members has them all). For each kind of
event a lemma says what becomes of readers that agree (`ReadersAgree`: the three know the same
calls, with the same pieces). `RspInv` has three cases. A stream that is
closed fits. An open one of a chat (`ChatHolds`) has at the client exactly the items the
converter has laid out: the reasoning, the message and the tools at the indexes it gave them, in the
state and with the pieces it remembers (`Shows`, `ItemOf`); a tool whose type cannot be told
yet is not there. An open one of an Anthropic message (`AnthHolds`) has
the items below the converter's index done as `outs` lists them, one at the index, open as
the converter has it, and none above; a call the restorer holds back is open there too. At the
end, `ToolsClosedFit` closes the tools one by one, and what is then listed is
what is there, item by item (`ListAgrees`) and call by call (`CallsMatch`).

*The histories.* Every state is an input, so that the invariant says only what items a
history is made of (`ItemsHold`); the argument is about the passes of the converter. Each pass
but one lays end to end what a function gives for each member (`Mapped`), and grows with the
sequence it reads (`MappedAppend`); what picks members out is one of them (`Sifted`). The merging
of turns is a fold, shown to be a chain of `MergedWith` as for the Responses streams. What holds
of all sequences then follows from the empty one and one member more (`SeqStepwise`, which
speaks of a set of sequences, so that it has no operator as a parameter). The main one of these
(`PairedTurnsFit`): turns that fit stay so when a further turn is paired and merged in. What the turn
says follows, or joins the last turn behind its results (`SayingHolds`); if it keeps calls, the conversation ends in
open calls, until the turn of results that is put behind it answers them one by one (`AnsweringFits`). Merging moves no block
(`MergingKeepsBlocks`), pairing moves no text (`PairingKeepsTexts`), keeps a call iff a result with its id is somewhere
(`PairedCalls`), and that result is the last of its id (`PairedResults`, `LastResults`).

Assumptions beyond those on the constants (`PoolAssumption`, `StoreAssumption`,
`ServiceAssumption`, `BatchAssumption`, `ImportAssumption`, `EngineAssumption`, `MailAssumption`,
`CaptchaAssumption`, `PlugAssumption`, `AttemptAssumption`, `WarpAssumption`, `AntAssumption`,
`RspAssumption`, `ClientToolsAssumption`, `ConversationsAssumption`):

- the four theorems on slots: `Outcomes \cap TransportErrors = {}`, no connection
  breaks. With broken connections they are false (`PoolLeak`).
- the two on bans and limits: `"upsert" \notin Admin`, no account is registered again. With
  re-imports they are false (`PoolBanLost`).
- `ConversationsStay`: `OneTurnAtATime`, a client waits for its answer before it asks
  again, so that no two handlers are given the same conversation (two at a time may both find it
  unbound, and the later binding wins, `picker.go:155-215`); and `"restart" \notin Admin`,
  since bindings are in memory. `PoolTurns` checks the property under the same two.

The type invariants of the parts are conjuncts of `EngineSound`, `MailSound`, `SolverSound`,
`AttemptSound`, `ClientStreamFits`, `ClientToolsFit`, and so of their theorems.

Only model-checked: `RequestEnds` and `BatchEnds` (liveness and `ENABLED` are out of the
prover's reach), and of the invariants `ConversationsFit` alone. Its parts equate whole
compositions of converters, there and back, or (`ChatFits`) follow a call through a fold that rewrites
the last message and a pass that reads two results of it; TLC enumerates all histories up to the
bounds instead. No module with a theorem reaches a recursive
operator; `Size` (a fold over the pool) occurs only in guards, and no theorem
depends on its value.

## 5. Where the code and its promises differ

Shown by a run:

1. **`PoolLeak`** - the account taken for the retry is not given back when the retry
   succeeds; the first one is given back twice (`http.go:178-186`, `anthropic.go:52`).
   `CapRespected` fails in the same situation.
2. **`PoolBanLost`** - a re-registration drops `BannedAt` (`accounts.go:164`), and a
   restart forgets the rest, although a 403 is a "permanent ban ... kept over restarts".
3. **`ServiceRace`** - a disable that is overtaken by an enable of the same port
   stops the gateway while its configuration is enabled (`service.go:115-140`).
4. **`BatchReserve`** - a worker that finds the pool empty cancels the batch while
   another still probes the reserve (`batch.go:634-656`).
5. **`DeployServes`** - a deployment that starts an existing container does not free its
   ports first; a local engine that holds one is taken for the container's
   (`center.go:771-791`, against `docker_combined.go:535`).

Met while modelling, described here only; the models follow the code:

- a conversation with nothing to pick is bound to, and forwarded with, the
  zero account (`picker.go:199`; `ForwardHasAccount` says how far this goes);
- a binding keeps an account that has been moved to another group
  (`picker.go:162`), so a conversation may use an account outside its key's group;
- lifting a ban clears the record but not the picker's memory (`server/http.go:1002`);
- the service of a group is not looked up when it is written (`store.go:364-370`);
- a change of the listening host alone is saved but not applied (`service.go:128`);
- a write that fails stays in the JSON store's memory (`jsonstore.go:63`);
- candidates from the reserve are those read before probing, so a proxy may be
  enabled twice, or again after its elimination (`batch.go:634-646, 688-699`);
- `max_per_ip` is exceeded by registrations in progress (`batch.go:300, 312`);
- two import tasks that arrive together both begin, although the second is meant to be
  refused (`import_progress.go`, `ConvertToOAuthAsync`); they share one progress;
- a worker goes on with its sticky proxy although another one has eliminated it, and a job
  fails at once when the pool is empty only for a moment (`batch.go:846`).

*Register engine and batch*

- a late import is counted into the status of the next batch, and a diagnosis of a stalled
  batch may write its counters there (`register.go:1030`, `batch.go:725`; `PerMinSound` says how far that goes);
- a second sample within a minute moves the baseline, so that the first half of the
  minute is missing (`register.go:1205`); the minute recorded is the new one;
- the sampler of a batch that ends by itself is never told to stop (`register.go:1182`);
- the deferred end leaves `Stopping` set and overwrites the message of a batch that found no proxy (`register.go:635`);
- a cooldown of 0 minutes becomes the default when it is used (`register.go:138-145`).

*Mailboxes*

- `SyncPool` and `ResetPool` during a batch make used addresses available again, and an
  overlapping write brings a deleted address back;
- `claimFallback` may hand out an address another worker holds;
- a job of a pool batch may end with a public temporary mailbox (`batch.go:779, 903-912`), against
  the comments at `batch.go:778` and `:908`;
- two concurrent `StartPanel` both start a panel.

*Captchas and attempts*

- a new limit replaces the gates of the hosts, and old and new holders together exceed it until the old ones are gone;
- a finished prefetch cannot be taken, although `Take` says it can (`captcha_prefetch.go`);
- early returns of a start (`engine/register.go:866-940`) leave the warm-up loop running until it idles out; a late stop can end the loop of the next batch;
- `WaitForEzTokenWarmup` has no caller, although the log announces the wait (`engine/register.go:809`);
- the hot path stores cached page data again with a fresh time, so that under load it never grows
  old, and a concurrent one undoes its invalidation;
- a submission that opened an account whose redirect failed is made again with the same address, and the account is lost; a cancel after the session reports "cancelled" for an account that exists;
- a solver goroutine reads the registrar's cancel after `Run` has returned (a data race).

*WARP exits*

- `RestartAll` saves the list it read before: an instance deployed meanwhile is
  forgotten while its container runs, one removed meanwhile comes back; `RecreateOne` of an instance
  that was removed leaves its container;
- `List` replaces the status "error" by the state of the container, and the next sync adds
  an exit that never worked; a container removed by hand keeps its entry, against `http.go:137-142`;
- the sync reads and saves the pool without a lock, so that it can undo the pool page,
  against "手动添加的条目一律不动"; a switched-off exit is switched on again if its
  instance was in error during a sync;
- before the first save of a pool, the exits in `RegisterURLs` become entries of the user's, which are never removed, against `warp.go:538-540`.

*Plug-ins*

- stopping or removing the combined container records the mode of an engine that does not
  exist (`captcha-all`); the local installation stops only the combined container;
- the watchdog that restarts an engine of an old single container removes it first;
- an automatic start while Docker is down starts local engines beside the container that comes back later;
- an uninstallation of Docker removes the containers first, against "先卸载，成功了再清容器";
- an outage between the inspection and the question whether Docker answers removes a
  good container (`plugExcused`), against "什么都探不到时绝不能往下走重建";
- fields of a task are written without its lock.

*Translations*

- a stream that broke off inside a call delivers the call as completed with part of its
  arguments; the text part under way is missing from the final answer;
- a gap in the tool indexes of a chat leaves tools open; interleaved tool calls give deltas of
  closed blocks; reasoning after content goes to a closed item;
- the answer read whole has no blocks for custom tools, always one for a search, and says
  `end_turn` for a failed answer that has tools;
- the direct bridge from Anthropic to Chat is not the composition of the two others for a turn
  that only thinks, nor for two turns of the assistant in a row
  (`chatcompletions_anthropic_bridge.go:31-41` says it is);
- a `web_search_call` between reasoning and a call drops the reasoning; reasoning with
  `"content": null` becomes a message of the user; images of Chat tool messages are lost;
- the Chat bridge lets a custom tool and a function of one name pass, and gives the
  function's call back as one of the custom tool; an output of a custom tool is rewritten even if its call is not;
- the scanner of the gateway ends a stream at a line of more than 1 MB as if the turn were
  over; the chat page keeps only the last of several calls (`chat.go:288`).

*Elsewhere*: a failed refresh of the client version leaves its old time, so that every call
starts another (`xai/cli_version.go:48`); the list of mail workers is read, changed and
written without a lock (`edu.go:99`).

## 6. Not modelled

- *Mail workers*: a list that one page reads, changes and writes, and a sequence of
  calls of the Cloudflare interface.
- *xAI client*, *captcha clients* beyond the order of their hosts, *mail providers*, the browser
  disguise and the OAuth exchange: remote calls without state of their own, whose results are outcomes
  in `AccountImport`, `CaptchaSolver` and `RegisterAttempt`.
- *Protected bundle*: data formats. *Frontend*: a page that polls.
- In the *plugin centre*: the installation of Docker, the records of tasks, the
  estimate of capacity, the window nanny. In the *HTTP server*: routes that only call.
- *JSON store*: the temporary file and its rename; the models write atomically, and a crash falls between writes.
- In the *converters*: texts, sampling parameters, usage figures, schemas and the hashing of long names.

What could follow: liveness of `RegisterEngine` (a stopped engine becomes idle) on
top of `BatchTally`, `ChatFits` as a theorem, with the lemmas that prove `AnthropicFits`,
and a conversation that goes through a tool loop of the chat page.
