------------------------------- MODULE Connect -------------------------------
(***************************************************************************)
(* NewLndServices: the start-up of the services, composed with the pumps   *)
(* of Subscriptions.                                                       *)
(*                                                                         *)
(* Start-up is the caller of two kinds of subscription.  getLndInfo opens  *)
(* the wallet state subscription (subscription 0 here) and, if asked to,   *)
(* reads it until the wallet is unlocked.  waitForChainNotifier makes one  *)
(* block epoch subscription per attempt (1, 2, ...), each under a context  *)
(* of its own that ends with the attempt.  When start-up fails late it     *)
(* runs the same cleanup as Close, which waits for those pumps.            *)
(***************************************************************************)
EXTENDS Subscriptions, Setup

CONSTANTS
    MaxAttempts,    \* bound: attempts to reach the chain notifier
    MaxStates,      \* bound: wallet states lnd sends
    MaxHeights,     \* bound: block heights it sends to an attempt
    Starts          \* the configurations NewLndServices is called with, and
                    \*   the lnd it meets

\* The fields of LndServicesConfig that decide what start-up waits for;
\* callerCtx says whether a CallerCtx is given.
ConfigType == [unlocked : BOOLEAN, sync : BOOLEAN, notifier : BOOLEAN,
               callerCtx : BOOLEAN, options : OptionsType]

ASSUME SubsAreAttempts == MaxAttempts \in Nat /\ Subs = 0 .. MaxAttempts
ASSUME MaxStatesAssumption == MaxStates \in 0 .. MaxMsgs
ASSUME MaxHeightsAssumption == MaxHeights \in 0 .. MaxMsgs
ASSUME StartsAssumption == Starts \subseteq [config : ConfigType, lnd : LndType]

VARIABLES
    cfg,        \* the configuration of this call
    lnd,        \* the lnd at the other end
    at,         \* where NewLndServices is
    after,      \* in an attempt whose result is known: what comes next
    attempt,    \* the number of the current attempt
    wallet,     \* the wallet state of each message on subscription 0
    synced,     \* lnd is synced to its chain backend
    callerDone, \* CallerCtx is done
    outcome     \* what NewLndServices returned: none, ok, error, panic

startVars == <<cfg, lnd, at, after, attempt, wallet, synced, callerDone, outcome>>
allVars == <<vars, startVars>>

StartInit ==
    /\ Init
    /\ kind = [s \in Subs |-> IF s = 0 THEN "SubscribeState"
                                       ELSE "RegisterBlockEpochNtfn"]
    /\ \E start \in Starts : cfg = start.config /\ lnd = start.lnd
    /\ at = "options"
    /\ after = "none"
    /\ attempt = 0
    /\ wallet = <<>>
    /\ synced = FALSE
    /\ callerDone = FALSE
    /\ outcome = "none"

-----------------------------------------------------------------------------
(* Control. *)

GoTo(next) ==
    /\ at' = next
    /\ UNCHANGED <<cfg, lnd, after, attempt, wallet, synced, callerDone, outcome>>

Return(result) ==
    /\ at' = "returned"
    /\ outcome' = result
    /\ UNCHANGED <<cfg, lnd, after, attempt, wallet, synced, callerDone>>

-----------------------------------------------------------------------------
(* Connecting. *)

\* The macaroon options and the default macaroon directory.
CheckOptions ==
    /\ at = "options"
    /\ \/ MacaroonOptionsValid(cfg.options) /\ GoTo("dial")
       \/ ~MacaroonOptionsValid(cfg.options) /\ Return("error")
    /\ UNCHANGED vars

\* getClientConn; the certificate or the address may be none.
Dial ==
    /\ at = "dial"
    /\ \/ TLSOptionsValid(cfg.options) /\ GoTo("prepare")
       \/ Return("error")
    /\ UNCHANGED vars

\* ChainParams and the read-only macaroon; an error here leaves the connection
\* open.
Prepare ==
    /\ at = "prepare"
    /\ \/ cfg.options.network \in Networks /\ GoTo("subscribe")
       \/ cfg.options.network \notin Networks /\ Return("error")
       \/ ReadOnlyMacaroon(cfg.options) # "hex" /\ Return("error")
    /\ UNCHANGED vars

-----------------------------------------------------------------------------
(* getLndInfo. *)

SubscribeWallet ==
    \/ /\ at = "subscribe"
       /\ ~callerDone
       /\ OpenStream(0)
       /\ GoTo("launch")
    \/ /\ at = "subscribe"
       /\ GoTo("closeConn")
       /\ UNCHANGED vars
    \/ /\ at = "launch"
       /\ Launch(0)
       /\ GoTo(IF cfg.unlocked THEN "await" ELSE "getInfo")

ReadyForGetInfo(state) == state \in {"rpcActive", "serverActive"}

\* case state, ok := <-stateChan
AwaitState ==
    /\ at = "await"
    /\ \/ /\ TakeUpdate(0)
          /\ GoTo(IF ReadyForGetInfo(wallet[Head(upd[0])])
                     THEN "getInfo" ELSE "await")
       \/ /\ upd[0] = <<>> /\ "upd" \in closed[0]
          /\ GoTo("getInfo")
          /\ UNCHANGED vars

\* case err, ok := <-errChan
AwaitError ==
    /\ at = "await"
    /\ \/ /\ TakeError(0)
          /\ GoTo("closeConn")
       \/ /\ errs[0] = 0 /\ "err" \in closed[0]
          /\ GoTo("getInfo")
          /\ UNCHANGED vars

\* A faulty wait for the wallet: no ctx.Done case.
AwaitCancelledMissing == FALSE

\* case <-ctx.Done()
AwaitCancelled ==
    /\ at = "await"
    /\ callerDone
    /\ GoTo("closeConn")
    /\ UNCHANGED vars

\* The GetInfo call has the caller's context and no timeout of its own.
GetInfo ==
    /\ at = "getInfo"
    /\ \/ ~callerDone /\ GoTo("check")
       \/ GoTo("closeConn")
    /\ UNCHANGED vars

\* checkLndCompatibility, whose GetVersion may fail, and newMacaroonPouch, which
\* may find no files.
Check ==
    /\ at = "check"
    /\ \/ LndCompatible(cfg.options, lnd) /\ GoTo("sync")
       \/ GoTo("closeConn")
    /\ UNCHANGED vars

\* A faulty early return: no cleanupConn.
FailEarlyLeaks ==
    /\ at = "closeConn"
    /\ Return("error")
    /\ UNCHANGED vars

\* cleanupConn; return err
FailEarly ==
    /\ at = "closeConn"
    /\ CloseConn
    /\ Return("error")

-----------------------------------------------------------------------------
(* waitForChainSync; every GetInfo of it has a timeout. *)

\* A faulty poll: it takes any answer of GetInfo for a synced lnd.
PollSyncUnchecked ==
    /\ at = "sync"
    /\ \/ GoTo("notify")
       \/ cfg.sync /\ GoTo("cleanup")
    /\ UNCHANGED vars

PollSync ==
    /\ at = "sync"
    /\ \/ (cfg.sync => synced /\ ~callerDone) /\ GoTo("notify")
       \/ cfg.sync /\ ~synced /\ GoTo("pause")
       \/ cfg.sync /\ GoTo("cleanup")
    /\ UNCHANGED vars

PauseSync ==
    /\ at = "pause"
    /\ \/ GoTo("sync")
       \/ callerDone /\ GoTo("cleanup")
    /\ UNCHANGED vars

-----------------------------------------------------------------------------
(* waitForChainNotifier. *)

SkipNotifier ==
    /\ at = "notify"
    /\ ~cfg.notifier
    /\ Return("ok")
    /\ UNCHANGED vars

\* context.WithTimeout with a nil parent panics.
NilContext ==
    /\ at = "notify"
    /\ cfg.notifier /\ ~cfg.callerCtx
    /\ Return("panic")
    /\ UNCHANGED vars

\* register(subCtx)
Register ==
    /\ at = "notify"
    /\ cfg.notifier /\ cfg.callerCtx
    /\ attempt < MaxAttempts
    /\ \/ /\ ~callerDone
          /\ OpenStream(attempt + 1)
          /\ at' = "registered"
          /\ attempt' = attempt + 1
          /\ UNCHANGED <<cfg, lnd, after, wallet, synced, callerDone, outcome>>
       \/ /\ GoTo("cleanup")
          /\ UNCHANGED vars

StartAttempt ==
    /\ at = "registered"
    /\ Launch(attempt)
    /\ GoTo("select")

\* The attempt's result is known; its deferred cancel is next.
Leave(from, next) ==
    /\ at = from
    /\ at' = "leave"
    /\ after' = next
    /\ UNCHANGED <<cfg, lnd, attempt, wallet, synced, callerDone, outcome>>

\* A faulty select: no subCtx.Done case.
AttemptTimedOutMissing == FALSE

\* case <-subCtx.Done(), which the timeout or the caller brings about.
AttemptTimedOut == ctx[attempt] /\ Leave("select", "cleanup") /\ UNCHANGED vars

\* A faulty attempt: it takes an error for a sign of life.
AttemptFailedIgnored ==
    /\ TakeError(attempt)
    /\ Leave("select", "ok")

\* case err := <-errChan: a notifier that is starting is tried again.  That
\* MaxAttempts bounds: the error of the last attempt is a final one.
AttemptFailed ==
    /\ TakeError(attempt)
    /\ \/ Leave("select", "cleanup")
       \/ at = "select" /\ attempt < MaxAttempts /\ GoTo("backOff")

BackOff ==
    /\ Leave("backOff", "notify") \/ (callerDone /\ Leave("backOff", "cleanup"))
    /\ UNCHANGED vars

\* case <-blockChan
AttemptSucceeded ==
    /\ DeliverHandover(attempt)
    /\ Leave("select", "ok")

\* A faulty attempt: no deferred cancel.
EndAttemptWithoutCancel ==
    /\ at = "leave"
    /\ IF after = "ok" THEN Return("ok") ELSE GoTo(after)
    /\ UNCHANGED vars

\* defer cancel()
EndAttempt ==
    /\ at = "leave"
    /\ IF after = "ok" THEN Return("ok") ELSE GoTo(after)
    /\ ctx' = [ctx EXCEPT ![attempt] = TRUE]
    /\ UNCHANGED <<kind, pumpVars, lndVars, chanVars, readVars, svcVars>>

\* A faulty cleanup: it returns once the connection is closed.
CleanupWithoutWait ==
    /\ at = "cleanup"
    /\ \/ CloseConn /\ GoTo("cleanup")
       \/ closing > 0 /\ Return("error") /\ UNCHANGED vars

\* cleanup(); return err
Cleanup ==
    /\ at = "cleanup"
    /\ \/ CloseConn /\ GoTo("cleanup")
       \/ WaitForFinished /\ GoTo("cleanup")
       \/ Closed /\ Return("error") /\ UNCHANGED vars

-----------------------------------------------------------------------------
(* What goes on beside it. *)

\* The class of the messages on the wallet state subscription; they are of
\* interest only to a start-up that waits for the wallet.
StatesOf(class) ==
    CASE class = "value" -> {"locked", "rpcActive"}
      [] class = "final" -> {"serverActive"}
      [] class = "bad"   -> {"unknown"}

LndSendsState ==
    /\ cfg.unlocked
    /\ Len(wallet) < MaxStates
    /\ \E class \in MessageClass(0) : \E state \in StatesOf(class) :
          /\ LndSends(0, class)
          /\ wallet' = Append(wallet, state)
          /\ UNCHANGED <<cfg, lnd, at, after, attempt, synced, callerDone, outcome>>

LndSendsHeight(s) ==
    /\ Len(sent[s]) < MaxHeights
    /\ LndSends(s, "value")
    /\ UNCHANGED startVars

\* Of interest only to a start-up that asks.
LndSyncs ==
    /\ cfg.sync /\ ~synced
    /\ synced' = TRUE
    /\ UNCHANGED <<vars, cfg, lnd, at, after, attempt, wallet, callerDone, outcome>>

\* The timeout of the current attempt's context.
AttemptTimeout ==
    /\ attempt > 0
    /\ Cancel(attempt)
    /\ UNCHANGED startVars

\* CallerCtx ends, and with it every context derived from it.
CallerCancels ==
    /\ cfg.callerCtx /\ ~callerDone
    /\ callerDone' = TRUE
    /\ ctx' = [s \in Subs |-> ctx[s] \/ pc[s] # "unused"]
    /\ UNCHANGED <<kind, pumpVars, lndVars, chanVars, readVars, svcVars,
                   cfg, lnd, at, after, attempt, wallet, synced, outcome>>

-----------------------------------------------------------------------------

StartStep ==
    \/ CheckOptions \/ Dial \/ Prepare \/ SubscribeWallet
    \/ AwaitState \/ AwaitError \/ AwaitCancelled
    \/ GetInfo \/ Check \/ FailEarly
    \/ PollSync \/ PauseSync
    \/ SkipNotifier \/ NilContext \/ Register \/ StartAttempt
    \/ AttemptTimedOut \/ AttemptFailed \/ BackOff \/ AttemptSucceeded
    \/ EndAttempt \/ Cleanup

StartNext ==
    \/ StartStep
    \/ \E s \in Subs : PumpStep(s) /\ UNCHANGED startVars
    \/ LndSendsState
    \/ \E s \in Subs \ {0} : LndSendsHeight(s)
    \/ \E s \in Subs, how \in {"eof", "err"} :
          LndEnds(s, how) /\ UNCHANGED startVars
    \/ LndSyncs \/ AttemptTimeout \/ CallerCancels

StartSpec == StartInit /\ [][StartNext]_allVars

\* Goroutines are scheduled, and timeouts pass.  lnd promises nothing: a call
\* without a timeout, or a wait for the wallet, ends only if lnd or the caller
\* makes it.
StartFairness ==
    /\ \A s \in Subs : WF_allVars(PumpStep(s) /\ UNCHANGED startVars)
    /\ WF_allVars(StartStep /\ at # "getInfo")
    /\ WF_allVars(callerDone /\ GetInfo)
    /\ SF_allVars(callerDone /\ at = "pause" /\ PauseSync /\ at' = "cleanup")
    /\ WF_allVars(AttemptTimeout)

FairStartSpec == StartSpec /\ StartFairness

-----------------------------------------------------------------------------
(* Properties. *)

StartTypeOK ==
    /\ TypeOK
    /\ [config |-> cfg, lnd |-> lnd] \in Starts
    /\ at \in {"options", "dial", "prepare", "subscribe", "launch", "await",
               "getInfo", "check", "closeConn", "sync", "pause", "notify",
               "registered", "select", "backOff", "leave", "cleanup", "returned"}
    /\ after \in {"none", "ok", "notify", "cleanup"}
    /\ attempt \in 0 .. MaxAttempts
    /\ Len(wallet) = Len(sent[0])
    /\ {synced, callerDone} \subseteq BOOLEAN
    /\ outcome \in {"none", "ok", "error", "panic"}

PastInfo == {"check", "sync", "pause", "notify", "registered", "select",
             "backOff", "leave", "cleanup"}

\* With BlockUntilUnlocked, GetInfo is called only once lnd has told that its
\* RPC server is active, whether start-up read that state or concluded it from
\* a channel the state pump had closed.
InfoOnlyWhenReady ==
    cfg.unlocked /\ (at \in PastInfo \cup {"getInfo"} \/ outcome = "ok") =>
        \E i \in 1 .. rcvd[0] : ReadyForGetInfo(wallet[i])

\* Reference: a version as one number.
VersionNumber(v) ==
    ((v.major * (MaxPart + 1)) + v.minor) * (MaxPart + 1) + v.patch

\* A start-up that succeeds has met an lnd of the configured network, of at
\* least the required version and with the required subservers; and the
\* macaroon it made its checks with comes from where all others come from.
StartedAsConfigured ==
    outcome = "ok" =>
        /\ lnd.network = cfg.options.network
        /\ VersionNumber(lnd.version) >= VersionNumber(Expected(cfg.options))
        /\ Expected(cfg.options).tags \subseteq lnd.version.tags
        /\ ReadOnlyMacaroon(cfg.options) = MacaroonPouch(cfg.options)

\* What start-up was asked to wait for has happened when it succeeds, and the
\* connection it hands out is open.
SuccessMeansReady ==
    outcome = "ok" =>
        /\ connOpen
        /\ cfg.sync => synced
        /\ cfg.notifier => got[attempt] # <<>>

\* A start-up that fails after it has subscribed to lnd's state has closed the
\* connection, and a failure after the clients exist leaves no pump of theirs.
\* However start-up ends, no context of an attempt is left open, so that each
\* attempt's pump will end.
StartCleansUp ==
    /\ outcome = "error" /\ pc[0] # "unused" => ~connOpen
    /\ outcome = "error" => \A s \in Subs \ {0} : ~Live(s)
    /\ outcome \in {"ok", "error"} =>
           \A s \in Subs \ {0} : pc[s] # "unused" => ctx[s]

\* The doc of CallerCtx: "these waits will be aborted".
CancelAborts == callerDone ~> outcome # "none"

\* The doc of CallerCtx: it "is an optional context".
CallerCtxIsOptional == outcome # "panic"

=============================================================================
