--------------------------- MODULE RegisterAttempt ---------------------------
(***************************************************************************)
(* GrokRegistrar.Run (grokregister/register.go): one worker takes a job    *)
(* through the sign-up page, an address, the code that is sent to it, a    *)
(* captcha that is solved meanwhile, the submission and the check of the   *)
(* session, while captcha_prefetch.go solves the captcha of its next job.  *)
(*                                                                         *)
(* The site is external: it gives the page with its current action, sends  *)
(* and verifies codes, and opens an account for a submission with a token  *)
(* it has not seen, the verified code and its current action.  Mail, code, *)
(* token and session of a job are told apart by whether they are there;    *)
(* tokens are numbers, so that it shows where each one goes.  Retries over *)
(* another proxy, which RunBatch makes, are jobs of their own here.        *)
(***************************************************************************)
EXTENDS Integers, FiniteSets

CONSTANTS
  AttWorkers,    \* workers of the batch
  AttJobs,       \* bound: jobs each worker runs
  AttTries,      \* captchaSolveAttemptLimitFor: solves of one job
  AttCaptcha,    \* FALSE for the provider none
  AttProxies,    \* proxies a job may use
  AttPosts,      \* size of grokPostSem
  AttTokens,     \* bound: tokens the solver gives
  AttRotations,  \* bound: times the site changes its action
  AttPipeline,   \* pipeline mode of the batch
  SkipVerify     \* skip_verify of the batch

ASSUME AttemptAssumption ==
  /\ AttTries \in Nat \ {0} /\ AttPosts \in Nat \ {0}
  /\ AttJobs \in Nat \ {0} /\ AttTokens \in Nat /\ AttRotations \in Nat
  /\ AttCaptcha \in BOOLEAN /\ AttPipeline \in BOOLEAN /\ SkipVerify \in BOOLEAN

VARIABLES
  attAt,         \* where each worker's job is
  attJob,        \* the number of its job
  attUse,        \* what the job knows: its proxy, action, try, solves, errors
  attWait,       \* captchaCh: who will send ("none", "solver", "prefetch"), or
                 \* what was sent
  attSlot,       \* the slot of the prefetcher: proxy, active
  attPre,        \* the goroutine of the slot: its proxy, whether its channel is
                 \* still to be written, full or read, and what it carries
  attCache,      \* grokCfgCache: the action, 0 for none
  attLoader,     \* who holds grokCfgLoadMu
  attSite,       \* the action of the site's current build
  attMade,       \* history: tokens given
  attPosted,     \* history: the tokens submitted, in what number
  attAccount,    \* accounts of the running job
  attResult,     \* the result of the last job
  attCancelled   \* the cancel of the batch is closed

attJobVars   == <<attAt, attJob, attUse>>
attTokenVars == <<attWait, attSlot, attPre, attMade>>
attSiteVars  == <<attSite, attPosted, attAccount>>
attCacheVars == <<attCache, attLoader>>
attVars == <<attJobVars, attTokenVars, attSiteVars, attCacheVars, attResult,
             attCancelled>>

NoUse == [proxy |-> "none", page |-> 0, action |-> 0, try |-> 0, solves |-> 0,
          token |-> 0, verified |-> FALSE, captchaErr |-> FALSE, session |-> FALSE]
NoWait == [from |-> "none", token |-> 0]
NoSlot == [proxy |-> "none", active |-> FALSE]
NoPre  == [at |-> "none", token |-> 0, proxy |-> "none"]

AttInit ==
  /\ attAt = [w \in AttWorkers |-> "idle"] /\ attJob = [w \in AttWorkers |-> 0]
  /\ attUse = [w \in AttWorkers |-> NoUse]
  /\ attWait = [w \in AttWorkers |-> NoWait]
  /\ attSlot = [w \in AttWorkers |-> NoSlot] /\ attPre = [w \in AttWorkers |-> NoPre]
  /\ attCache = 0 /\ attLoader = {} /\ attSite = 1 /\ attMade = 0
  /\ attPosted = [t \in 1..AttTokens |-> 0]
  /\ attAccount = [w \in AttWorkers |-> FALSE]
  /\ attResult = [w \in AttWorkers |-> "none"] /\ attCancelled = FALSE

AttGoto(w, where) == attAt' = [attAt EXCEPT ![w] = where]
AttSet(w, use) == attUse' = [attUse EXCEPT ![w] = use]

-----------------------------------------------------------------------------
(* The job ends                                                            *)

AttEnd(w, result) ==
  /\ AttGoto(w, "idle")
  /\ AttSet(w, [NoUse EXCEPT !.verified = attUse[w].verified,
                             !.session = attUse[w].session])
  /\ attWait' = [attWait EXCEPT ![w] = NoWait]
  /\ attResult' = [attResult EXCEPT ![w] = result]
  /\ UNCHANGED attJob

AttEnds(w, result) ==
  /\ AttEnd(w, result)
  /\ UNCHANGED <<attSlot, attPre, attMade, attSiteVars, attCacheVars, attCancelled>>

\* Between the steps the job looks at its cancel; a failing step ends it.
AttCancelSeen(w) ==
  /\ attCancelled
  /\ attAt[w] \in {"init", "email", "captcha", "otp", "verify", "collect", "try",
                   "slot"}
  /\ AttEnds(w, "cancelled")

AttStepFails(w) ==
  /\ attAt[w] \in {"page", "email", "send", "otp", "verify"}
  /\ AttEnds(w, "failed")

-----------------------------------------------------------------------------
(* The sign-up page and its action                                         *)

AttStart(w, proxy) ==
  /\ attAt[w] = "idle" /\ attJob[w] < AttJobs /\ ~attCancelled
  /\ AttGoto(w, "init") /\ attJob' = [attJob EXCEPT ![w] = @ + 1]
  /\ AttSet(w, [NoUse EXCEPT !.proxy = proxy])
  /\ attResult' = [attResult EXCEPT ![w] = "none"]
  /\ attAccount' = [attAccount EXCEPT ![w] = FALSE]
  /\ UNCHANGED <<attTokenVars, attSite, attPosted, attCacheVars, attCancelled>>

\* grokInitConfig: the cached action is read before the page is fetched.
AttInitConfig(w) ==
  /\ attAt[w] = "init" /\ ~attCancelled
  /\ AttGoto(w, "page") /\ AttSet(w, [attUse[w] EXCEPT !.action = attCache])
  /\ UNCHANGED <<attJob, attTokenVars, attSiteVars, attCacheVars, attResult,
                 attCancelled>>

\* A cached action is stored again, as if it were new; without one the chunks of
\* the page have to be searched.
AttPage(w) ==
  /\ attAt[w] = "page"
  /\ IF attUse[w].action # 0
     THEN AttGoto(w, "email") /\ attCache' = attUse[w].action /\ UNCHANGED attUse
     ELSE /\ AttGoto(w, "cold") /\ UNCHANGED attCache
          /\ AttSet(w, [attUse[w] EXCEPT !.page = attSite])
  /\ UNCHANGED <<attJob, attTokenVars, attSiteVars, attLoader, attResult,
                 attCancelled>>

\* One worker searches at a time, and those behind it use what it found.
AttCold(w) ==
  /\ attAt[w] = "cold" /\ attLoader = {}
  /\ IF attCache # 0
     THEN /\ AttGoto(w, "email") /\ UNCHANGED attLoader
          /\ AttSet(w, [attUse[w] EXCEPT !.action = attCache, !.page = 0])
     ELSE AttGoto(w, "scan") /\ attLoader' = {w} /\ UNCHANGED attUse
  /\ UNCHANGED <<attJob, attTokenVars, attSiteVars, attCache, attResult,
                 attCancelled>>

AttScan(w) ==
  /\ attAt[w] = "scan" /\ attLoader' = attLoader \ {w}
  /\ \/ /\ AttGoto(w, "email") /\ attCache' = attUse[w].page
        /\ AttSet(w, [attUse[w] EXCEPT !.action = attUse[w].page, !.page = 0])
        /\ UNCHANGED <<attJob, attWait, attResult>>
     \/ AttEnd(w, "failed") /\ UNCHANGED attCache
  /\ UNCHANGED <<attSlot, attPre, attMade, attSiteVars, attCancelled>>

\* The cached action grows older than its twenty minutes.
AttCacheExpires ==
  /\ attCache # 0 /\ attCache' = 0
  /\ UNCHANGED <<attJobVars, attTokenVars, attSiteVars, attLoader, attResult,
                 attCancelled>>

-----------------------------------------------------------------------------
(* The address and its code                                                *)

AttStep(w, from, to) ==
  /\ attAt[w] = from /\ AttGoto(w, to)
  /\ UNCHANGED <<attJob, attSiteVars, attCacheVars, attResult, attCancelled>>

AttEmail(w) ==
  /\ ~attCancelled /\ AttStep(w, "email", "captcha")
  /\ UNCHANGED <<attUse, attTokenVars>>

\* Prefetch.Take gives the channel of a solve for the same proxy that is not over
\* and that nobody took.
MayTake(w) == attSlot[w].active /\ attSlot[w].proxy = attUse[w].proxy

AttCaptchaLeft(w) ==
  /\ ~attCancelled /\ AttStep(w, "captcha", "send")
  /\ IF AttPipeline /\ MayTake(w)
     THEN /\ attSlot' = [attSlot EXCEPT ![w].active = FALSE]
          /\ attWait' = [attWait EXCEPT ![w].from = "prefetch"]
     ELSE UNCHANGED <<attWait, attSlot>>
  /\ UNCHANGED <<attUse, attPre, attMade>>

\* The captcha is solved while the code is under way.
AttCaptchaStart(w) ==
  /\ ~attCancelled /\ AttStep(w, "captcha", "send")
  /\ IF ~AttCaptcha THEN UNCHANGED <<attWait, attSlot>>
     ELSE IF AttPipeline /\ MayTake(w)
     THEN /\ attSlot' = [attSlot EXCEPT ![w].active = FALSE]
          /\ attWait' = [attWait EXCEPT ![w].from = "prefetch"]
     ELSE /\ attWait' = [attWait EXCEPT ![w].from = "solver"] /\ UNCHANGED attSlot
  /\ UNCHANGED <<attUse, attPre, attMade>>

AttSend(w) ==
  /\ AttStep(w, "send", "otp") /\ UNCHANGED <<attUse, attTokenVars>>

AttOTP(w) ==
  /\ ~attCancelled /\ AttStep(w, "otp", "verify")
  /\ UNCHANGED <<attUse, attTokenVars>>

AttVerify(w) ==
  /\ ~attCancelled /\ AttStep(w, "verify", "collect")
  /\ AttSet(w, [attUse[w] EXCEPT !.verified = TRUE])
  /\ UNCHANGED attTokenVars

-----------------------------------------------------------------------------
(* Solvers                                                                 *)

\* What a solve yields: a token nobody has seen, or 0 for an error.
Solved(t) == t \in {0, attMade + 1} /\ t <= AttTokens
             /\ attMade' = IF t = 0 THEN attMade ELSE t

AttSolver(w, t) ==
  /\ attWait[w].from = "solver" /\ Solved(t)
  /\ attWait' = [attWait EXCEPT ![w] = [from |-> "ready", token |-> t]]
  /\ UNCHANGED <<attJobVars, attSlot, attPre, attSiteVars, attCacheVars,
                 attResult, attCancelled>>

\* CaptchaPrefetch.Start, its goroutine, and the one that forwards what a job
\* took.
StartPrefetch(w, proxy) ==
  IF attSlot[w] = [proxy |-> proxy, active |-> TRUE]
  THEN UNCHANGED <<attSlot, attPre>>
  ELSE /\ attSlot' = [attSlot EXCEPT ![w] = [proxy |-> proxy, active |-> TRUE]]
       /\ attPre' = [attPre EXCEPT ![w] = [at |-> "running", token |-> 0,
                                           proxy |-> proxy]]

PreSolved(w, t) ==
  /\ attPre[w].at = "running" /\ Solved(t)
  /\ attPre' = [attPre EXCEPT ![w].at = "sent", ![w].token = t]
  /\ UNCHANGED <<attJobVars, attWait, attSlot, attSiteVars, attCacheVars,
                 attResult, attCancelled>>

PreEnds(w) ==
  /\ attPre[w].at # "running" /\ attSlot[w].active
  /\ attSlot' = [attSlot EXCEPT ![w].active = FALSE]
  /\ UNCHANGED <<attJobVars, attWait, attPre, attMade, attSiteVars, attCacheVars,
                 attResult, attCancelled>>

AttForward(w) ==
  /\ attWait[w].from = "prefetch" /\ attPre[w].at = "sent"
  /\ attWait' = [attWait EXCEPT ![w] = [from |-> "ready", token |-> attPre[w].token]]
  /\ attPre' = [attPre EXCEPT ![w].at = "read", ![w].token = 0]
  /\ UNCHANGED <<attJobVars, attSlot, attMade, attSiteVars, attCacheVars,
                 attResult, attCancelled>>

-----------------------------------------------------------------------------
(* Captcha and submission                                                  *)

\* The captcha is awaited, with no eye on the cancel, and the next one asked for.
AttCollect(w) ==
  /\ attAt[w] = "collect" /\ ~attCancelled
  /\ AttGoto(w, "try")
  /\ IF ~AttCaptcha THEN UNCHANGED <<attUse, attTokenVars>>
     ELSE /\ attWait[w].from = "ready"
          /\ AttSet(w, [attUse[w] EXCEPT !.solves = 1, !.token = attWait[w].token,
                                        !.captchaErr = attWait[w].token = 0])
          /\ attWait' = [attWait EXCEPT ![w] = NoWait]
          /\ \/ AttPipeline /\ \E proxy \in AttProxies : StartPrefetch(w, proxy)
             \/ ~AttPipeline /\ UNCHANGED <<attSlot, attPre>>
          /\ UNCHANGED attMade
  /\ UNCHANGED <<attJob, attSiteVars, attCacheVars, attResult, attCancelled>>

Ready(w) == AttCaptcha => attUse[w].try = 0 /\ attUse[w].token # 0
Spent(w) ==
  \/ attUse[w].try >= AttTries
  \/ ~Ready(w) /\ attUse[w].solves >= AttTries

\* One turn of the submission loop: the first token, a fresh one, or the end.
AttTry(w) ==
  /\ attAt[w] = "try" /\ ~attCancelled
  /\ IF Spent(w) THEN AttGoto(w, "finish") /\ UNCHANGED attUse
     ELSE IF Ready(w) THEN AttGoto(w, "slot") /\ UNCHANGED attUse
     ELSE /\ AttGoto(w, "solving")
          /\ AttSet(w, [attUse[w] EXCEPT !.solves = @ + 1])
  /\ UNCHANGED <<attJob, attTokenVars, attSiteVars, attCacheVars, attResult,
                 attCancelled>>

\* An error of the configuration ends the loop, any other the turn.
AttSolve(w, t) ==
  /\ attAt[w] = "solving" /\ Solved(t)
  /\ \/ /\ t # 0 /\ AttGoto(w, "slot")
        /\ AttSet(w, [attUse[w] EXCEPT !.token = t, !.captchaErr = FALSE])
     \/ /\ t = 0 /\ AttGoto(w, "try")
        /\ AttSet(w, [attUse[w] EXCEPT !.try = @ + 1, !.captchaErr = TRUE])
     \/ /\ t = 0 /\ AttGoto(w, "finish")
        /\ AttSet(w, [attUse[w] EXCEPT !.captchaErr = TRUE])
  /\ UNCHANGED <<attJob, attWait, attSlot, attPre, attSiteVars, attCacheVars,
                 attResult, attCancelled>>

AttSlot(w) ==
  /\ attAt[w] = "slot" /\ Cardinality({v \in AttWorkers : attAt[v] = "post"}) < AttPosts
  /\ AttGoto(w, "post")
  /\ UNCHANGED <<attJob, attUse, attTokenVars, attSiteVars, attCacheVars,
                 attResult, attCancelled>>

\* What the site accepts.
Accepted(w) ==
  /\ AttCaptcha => attUse[w].token # 0 /\ attPosted[attUse[w].token] = 0
  /\ attUse[w].verified /\ attUse[w].action = attSite /\ ~attAccount[w]

Posted(w) ==
  attPosted' = IF attUse[w].token = 0 THEN attPosted
               ELSE [attPosted EXCEPT ![attUse[w].token] = @ + 1]

\* The submission opens the account, and its answer leads to the session or is
\* lost on the way; or the site refuses, and asks for a fresh captcha or not.
AttPost(w) ==
  /\ attAt[w] = "post" /\ Posted(w)
  /\ \/ /\ Accepted(w) /\ attAccount' = [attAccount EXCEPT ![w] = TRUE]
        /\ \/ AttGoto(w, "redirect") \/ AttGoto(w, "finish")
        /\ UNCHANGED attUse
     \/ /\ AttGoto(w, "finish") /\ UNCHANGED <<attUse, attAccount>>
     \/ /\ attUse[w].try + 1 < AttTries /\ AttGoto(w, "try")
        /\ AttSet(w, [attUse[w] EXCEPT !.try = @ + 1]) /\ UNCHANGED attAccount
  /\ UNCHANGED <<attJob, attTokenVars, attSite, attCacheVars, attResult,
                 attCancelled>>

\* The redirects end in a session, or the loop goes on with another submission.
AttRedirect(w) ==
  /\ attAt[w] = "redirect"
  /\ \/ AttGoto(w, "session") /\ AttSet(w, [attUse[w] EXCEPT !.session = TRUE])
     \/ AttGoto(w, "try") /\ AttSet(w, [attUse[w] EXCEPT !.try = @ + 1])
  /\ UNCHANGED <<attJob, attTokenVars, attSiteVars, attCacheVars, attResult,
                 attCancelled>>

\* Without a session the job has failed, and unless it was the captcha the cached
\* action is given up.
AttFinish(w) ==
  /\ attAt[w] = "finish" /\ AttEnd(w, "failed")
  /\ attCache' = IF attUse[w].captchaErr THEN attCache ELSE 0
  /\ UNCHANGED <<attSlot, attPre, attMade, attSiteVars, attLoader, attCancelled>>

\* grokVerifyRegisteredSSO: alive, with tokens or without, dead, or given up when
\* the job is cancelled or its time is over.
AttSession(w) ==
  /\ attAt[w] = "session"
  /\ \E result \in IF SkipVerify THEN {"success"}
                    ELSE {"success", "failed", "cancelled"} : AttEnd(w, result)
  /\ UNCHANGED <<attSlot, attPre, attMade, attSiteVars, attCacheVars, attCancelled>>

-----------------------------------------------------------------------------

AttCancel ==
  /\ ~attCancelled /\ attCancelled' = TRUE
  /\ UNCHANGED <<attJobVars, attTokenVars, attSiteVars, attCacheVars, attResult>>

\* The site is built anew and its pages carry another action.
SiteRotates ==
  /\ attSite <= AttRotations /\ attSite' = attSite + 1
  /\ UNCHANGED <<attJobVars, attTokenVars, attPosted, attAccount, attCacheVars,
                 attResult, attCancelled>>

AttWorkerStep(w) ==
  \/ AttCancelSeen(w) \/ AttStepFails(w) \/ AttInitConfig(w) \/ AttPage(w)
  \/ AttCold(w) \/ AttScan(w) \/ AttEmail(w) \/ AttCaptchaStart(w) \/ AttSend(w)
  \/ AttOTP(w) \/ AttVerify(w) \/ AttForward(w) \/ PreEnds(w) \/ AttCollect(w)
  \/ AttTry(w) \/ AttSlot(w) \/ AttPost(w) \/ AttRedirect(w) \/ AttFinish(w)
  \/ AttSession(w)
  \/ \E t \in 0..AttTokens : AttSolver(w, t) \/ PreSolved(w, t) \/ AttSolve(w, t)
  \/ \E proxy \in AttProxies : AttStart(w, proxy)

AttNext ==
  \/ \E w \in AttWorkers : AttWorkerStep(w)
  \/ AttCacheExpires \/ AttCancel \/ SiteRotates

AttSpec == AttInit /\ [][AttNext]_attVars

-----------------------------------------------------------------------------
(* Properties                                                              *)

AttPlaces == {"idle", "init", "page", "cold", "scan", "email", "captcha", "send",
              "otp", "verify", "collect", "try", "solving", "slot", "post",
              "redirect", "finish", "session"}

\* Every variable has its type (register.go Run, captcha_prefetch.go).
AttTypeOK ==
  /\ attAt \in [AttWorkers -> AttPlaces] /\ attJob \in [AttWorkers -> 0..AttJobs]
  /\ attUse \in [AttWorkers ->
       [proxy : AttProxies \cup {"none"}, page : Nat, action : Nat,
        try : 0..AttTries, solves : Nat, token : 0..AttTokens,
        verified : BOOLEAN, captchaErr : BOOLEAN, session : BOOLEAN]]
  /\ attWait \in [AttWorkers -> [from : {"none", "solver", "prefetch", "ready"},
                                token : 0..AttTokens]]
  /\ attSlot \in [AttWorkers -> [proxy : AttProxies \cup {"none"}, active : BOOLEAN]]
  /\ attPre \in [AttWorkers -> [at : {"none", "running", "sent", "read"},
                 token : 0..AttTokens, proxy : AttProxies \cup {"none"}]]
  /\ attCache \in Nat /\ attLoader \subseteq AttWorkers /\ attSite \in Nat
  /\ attMade \in 0..AttTokens /\ attPosted \in [1..AttTokens -> Nat]
  /\ attAccount \in [AttWorkers -> BOOLEAN]
  /\ attResult \in [AttWorkers -> {"none", "success", "failed", "cancelled"}]
  /\ attCancelled \in BOOLEAN

\* A token is submitted once at most, whether it was solved for the job, ahead of
\* it by the prefetcher, or again after a refusal.
TokensOnce == \A t \in 1..AttTokens : attPosted[t] <= 1

\* The solve that runs in parallel and those of the loop share one budget.
SolveBudget == \A w \in AttWorkers : attUse[w].solves <= AttTries

\* A job that waits for its captcha, which no cancel interrupts, has a goroutine
\* that will answer it, with a captcha solved for its own proxy.
WaitersServed ==
  \A w \in AttWorkers :
    AttCaptcha /\ attAt[w] \in {"send", "otp", "verify", "collect"} =>
      \/ attWait[w].from \in {"solver", "ready"}
      \/ /\ attWait[w].from = "prefetch" /\ attPre[w].at \in {"running", "sent"}
         /\ attPre[w].proxy = attUse[w].proxy

\* A job reported as a success has verified its address, has an account at the
\* site and its session.
SuccessIsReal ==
  \A w \in AttWorkers :
    attResult[w] = "success" =>
      attAccount[w] /\ attUse[w].verified /\ attUse[w].session

\* The lock of the cold start is held by the one who searches.
LoaderWorks == attLoader = {w \in AttWorkers : attAt[w] = "scan"}

\* What an attempt promises.
AttemptSound ==
  /\ AttTypeOK
  /\ TokensOnce /\ SolveBudget /\ WaitersServed /\ SuccessIsReal /\ LoaderWorks
=============================================================================
