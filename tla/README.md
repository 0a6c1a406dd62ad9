# A TLA+ model of lndclient

lndclient is a Go client library for lnd. A program calls `NewLndServices`, gets
a set of sub server clients that share one gRPC connection, calls their methods,
and calls `Close`. Most methods are one RPC with a timeout and a conversion of
the answer; they keep no state. What the library adds to gRPC, and what can go
wrong in it, is concurrency: goroutines that move messages from gRPC streams to
Go channels, wait groups that let `Close` wait for them, contexts that end them,
and a start-up that is itself a caller of these subscriptions. That is what the
modules here model. All paths are relative to the root of the repository;
"pump" is our word for the goroutine behind a subscription.

## 1. Inventory

| Component | State | Operations | Talks to |
|---|---|---|---|
| Stream subscriptions: `src/lightning_client.go`, `invoices_client.go`, `router_client.go`, `state_client.go`, `chainnotifier_client.go` | per subscription: stream, update channel, error channel, goroutine; per client: a wait group | the 13 methods of section 3.1 | lnd by a server stream, the caller by channels and a context, `Close` by the wait group |
| Chain notifications: `chainnotifier_client.go` | as above, and the caller's `ReOrgChan` | `RegisterConfirmationsNtfn`, `RegisterSpendNtfn` | as above |
| HTLC interceptor: `router_client.go` (`InterceptHtlcs`), `invoices_client.go` (`HtlcModifier`) | a request channel, an error channel with room for one, one receiver and any number of handler goroutines, the client's `quit` channel | receive, hand over, handle, answer, report, return | lnd by one bidirectional stream, the caller's handler, `WaitForFinished` by `quit` and the wait group |
| Close: `lnd_services.go` | the connection, how far `cleanup` is | `cleanupConn`, four `WaitForFinished` | every pump |
| Start-up: `lnd_services.go` | the configuration, the attempt's context, the wallet state last read | dial, wait for the wallet, check compatibility, wait for the chain sync, wait for the chain notifier with retry, clean up | the state and notifier clients as their caller, `cleanup` |
| Calls of the lightning client with a goroutine of their own: `PayInvoice` (with `payInvoice` of `router_client.go`), `ChannelAcceptor`, `RegisterRPCMiddleware` | a stream, the fallback from sending to tracking, a result channel; an error channel, a registration channel | send, track, result; register, one request at a time through the caller's function, report | lnd, the caller and its function, `Close` by the wait group |
| Macaroon service: `macaroon_service.go` | on disk: the root key store and its password, the macaroon file; in memory: the configuration, whether the store is open | `Start` (unlock, re-encrypt, bake, write), `Stop` | the store, the file system, lnd's signer |
| Macaroon pouch: `macaroon_pouch.go` | none after construction | which macaroon a client gets | the file system |
| Macaroon recipes: `macaroon_recipes.go` | four tables | the permissions for all methods of some packages | lnd's permission list, the clients' interfaces by reflection |
| Requests that are more than a copy: `SendPayment`, `EstimateRouteFeeWithProbe`, `SignOutputRaw` | the caller's map of custom records | check, round, add a preimage, send | lnd; the caller by the map |
| Version and network checks, TLS, basic client: `lnd_services.go`, `basic_client.go`, `network.go`, `versioner_client.go` | none | precedence of options, comparison of versions | lnd |
| Unary calls of all clients, those of the WalletKit, Signer, ChainKit and watchtower clients among them | none of their own; what lnd holds for a caller: leases, sessions | one RPC each, with a timeout but for six methods | lnd, which may execute a call after it has returned |
| Conversions: `tx_utils.go`, the `unmarshal*` and `new*` functions | none | message to value, or an error, which fails a whole list | none |

**What is hard.** A pump blocks in three places (`Recv`, the send of an update,
the send of an error) and each must be freed by something that is going to
happen. Its caller may stop reading either channel at any time. `Close` closes
the connection and waits, but cancels nobody's context. `wg.Add` follows the RPC
that opens the stream, so `Close` can come between. Error channels have room for
one error, and no other reader is promised. `InterceptHtlcs` has one such
channel for several goroutines. Confirmations and re-organisations travel on two
channels. Start-up has about a dozen failure paths, each with its own set of
things to undo, and its waits can be ended by lnd, a timeout or `CallerCtx`. A
unary call that timed out may still be executed, before or after the caller's
next one, and lists are read in parts while lnd's side changes.

**What makes each component correct.**

* Subscriptions: updates arrive in lnd's order, none twice and none missing; a
  caller can tell why its subscription ended; a pump ends when its context does,
  whatever the caller has left unread.
* Close: a client whose `WaitForFinished` has returned has no pump left, and
  nothing happens to its channels any more; Close returns once callers cancel.
* Chain notifications: no event is lost or duplicated; the disorder between the
  two channels has a bound.
* HTLC interceptor: a request is answered at most once and is not dropped while
  the call runs; the error returned is true; nothing is left running.
* Start-up: success means what was asked for; failure undoes what was done;
  `CallerCtx` ends every wait.
* Payments, acceptor, middleware: a result told is the payment's; the end of a
  call is told once; a retry of a payment already in flight is followed, not
  failed; `Close` alone ends all of them.
* Recipes: a recipe has the permissions of what the methods call and no others, and is
  made for every lnd that lists those calls.
* Requests: lnd is asked for what the caller asked for, within the rounding that
  its types make necessary, over a connection that trusts whom the caller chose.
* Unary calls: a call returns although lnd does not; what a call tells is still
  so at lnd; whoever reads a list in parts misses nothing.
* Macaroon service: what `Start` leaves behind is what the configuration asks
  for; `Start` succeeds from any state a crash can leave behind, or fails for a
  reason the user can do something about.

The full list of hazards, each at its line with the properties that cover it, is
`hazards` in `PROJECT.json`.

## 2. Modules

    SubscriptionPromise      abstract: what the caller of a subscription is promised
    Subscriptions            the pumps of 13 methods, and Close; implements it
      MCSubscriptions          instances for TLC
      SubscriptionsProofs      theorems: wait groups, channels
        PromiseProofs          theorems: the refinement, order, ends
      Setup                    options, macaroons, versions: operators only
      Connect                  NewLndServices, composed of Subscriptions and Setup
        MCConnect
        ConnectProofs          theorems: what success and failure mean
    InterceptorPromise       abstract: what lnd and the caller see of an interceptor
    HtlcInterceptor          InterceptHtlcs and HtlcModifier; implements it
      MCHtlcInterceptor
      HtlcInterceptorProofs    theorems, the refinement among them
    ChainNotifications       RegisterConfirmationsNtfn and RegisterSpendNtfn
      MCChainNotifications
      ChainNotificationsProofs theorems
    LightningCalls           PayInvoice, ChannelAcceptor, RegisterRPCMiddleware
      MCLightningCalls
      LightningCallsProofs     theorems
    MacaroonService          NewMacaroonService, Start and Stop, with crashes
      MCMacaroonService
      MacaroonServiceProofs    theorems
    Recipes                  tables of MacaroonRecipe, and the RPCs that methods
                             call: operators only
    Credentials              options of the basic client, TLS: operators only
    Descriptors              key descriptors of the signer: operators only
      Requests                 requests of SendPayment, fee probes, SignOutputRaw,
                               NewBasicConn, MacaroonRecipe
    Answers                  conversions of records and channels: operators only
        UnaryCalls             the life of a unary call; composes the five above
          MCRequests
          RequestsProofs         theorems: requests and unary calls

`Connect` EXTENDS `Subscriptions` and drives its actions: start-up *is* the
caller. `HtlcInterceptor`, `ChainNotifications` and `LightningCalls` stand alone,
because their calls meet the rest of the library only in a context, a wait group
and the connection. They follow `Close` up to their own client's
`WaitForFinished`.
`MacaroonService` shares nothing with the others but one RPC,
`DeriveSharedKey`. `Requests` is about what happens before a call leaves the
client; what becomes of a payment's stream is in `Subscriptions`. It EXTENDS
`Recipes` because a recipe, too, is a request turned into what lnd must admit.
`UnaryCalls` EXTENDS `Requests` with what happens after: lnd executes a request or
does not, and `Answers` says what the client makes of its answer.

In every module, definitions whose comment begins with "A faulty" are not part
of the specification. Each is a definition with a plausible bug in it, used to
check that a property notices the bug.

### 2.1 Conventions

* **Atomicity.** An action is one channel operation, one RPC result, one wait
  group operation or one close of a channel, with the local computation up to
  the next such operation. Go code between two of these is invisible to other
  goroutines.
* **Channels.** A buffered channel is its buffer. A send on an unbuffered one is
  a single *handover* action of both sides, which needs the receiver to be
  there. `select` is a disjunction: several ready cases may each be taken.
* **Streams (external).** A message reaches a local buffer (`sent`, `inbox`,
  `events`), and `Recv` takes it from there. lnd may end a stream with EOF or an
  error, which `Recv` returns after the messages before it. Once the context is
  done or the connection closed `Recv` *may* return an error at any moment, also
  while messages are buffered, and *may* still return those messages: gRPC
  promises no order of the two. It may not block for ever in that case.
* **Data.** A message is an index and a class: it converts (`value`), it does
  not (`bad`), or it is the last state of a wallet (`final`). What it says is
  left out, and so is the wording of errors.
* **Callers (external)** open at most one stream per subscription, may read
  either channel or stop, may cancel, and promise nothing else. The exception
  is the fairness of `ChainNotifications`, given below.
* `CHECK_DEADLOCK FALSE` stands in every configuration but `macaroon.cfg`
  because those models can come to rest: all goroutines have ended or wait for an lnd or a caller that
  owes them nothing. The deadlocks that matter, a goroutine that should end and
  does not, are stated as liveness properties.

## 3. What is modelled

### 3.1 Subscriptions

Thirteen methods have the same shape and differ in a few decisions. A record
per method, its *profile*, holds the decisions:

| Method | client | counted | buffers (upd, err) | peculiarity |
|---|---|---|---|---|
| `SubscribeGraph`, `SubscribeChannelEvents` | lightning | yes | 0, 1 | closes no channel |
| `SubscribeChannelBackups`, `OpenChannelStream` | lightning | yes | 0, 1 | the conversion cannot fail |
| `CloseChannel` | lightning | yes | 0, 0 | EOF closes both; the error send selects on the context; a cancel during the update send goes back to `Recv` |
| `SubscribeInvoices` | lightning | yes | 0, 1 | every return closes both |
| `SubscribeCustomMessages` | lightning | yes | 0, 1 | every return closes both, the error channel first |
| `SubscribeTransactions` | lightning | yes | 0, 1 | the same, and no return after a conversion error |
| `SubscribeSingleInvoice` | invoices | yes | 0, 1 | EOF closes both |
| `RegisterBlockEpochNtfn` | notifier | yes | 0, 1 | the conversion cannot fail |
| `SubscribeState` | state | yes, but in a group nobody waits for | 1, 1 | the final state closes both |
| `trackPayment` (`SendPayment`, `TrackPayment`) | router | no | 0, 1 | EOF closes both |
| `SubscribeHtlcEvents` | router | no | 0, 1 | every return closes both; a cancel during the update send is reported |

State: `pc` says where a pump is (`launch` is the moment between the RPC and
`wg.Add`), `rcvd`, `hand` and `cause` are its locals, `sent` and `ended` belong
to lnd's side, `upd`, `errs` and `closed` are the channels, `got` and `errGot`
what the caller read, `ctx` the caller's cancel, `wg` one counter per client,
`closing` the progress of `Close`. `late` is a history variable: the pump was
added after its client had been waited for.

`OpenStream` and `Launch` are the method's body; `Receive*`, `Report*`,
`Deliver*`, `CloseChan` and `Finish` the pump's; `CloseConn` and
`WaitForFinished` are `cleanup`, which waits for lightning, notifier, invoices
and router, in this order (`WaitOrder`). Two closes of channels are two steps,
in the order of the code, and `wg.Done` is a third, after them, because that is
what the order of the deferred calls gives. `SubscribeTransactions`, after a
conversion error, goes on to offer the zero value (`hand = 0`).

`SubscriptionPromise` is one subscription as its caller knows it: what lnd sends,
what is passed on, one error at most, channels that close, and no goroutine,
buffer, wait group or `Close`. A message is passed on only in lnd's order and,
unless the caller has cancelled, only if it is the next; an error is told only
when the stream has ended and everything before has been passed, when the next
message does not convert, or when the stream was cut off; nothing follows it; a
channel closes only after an error, a final value, a complete stream or a
cancel. `Promise(s)` maps the state of subscription `s`: what is passed on is
what the caller has read followed by what is in the buffer (`Passed`), and
errors likewise, so that reading is invisible. `KeepsPromises` says that every
subscription implements its promise, `SubscribeTransactions` excepted.

### 3.2 HtlcInterceptor

One call of `InterceptHtlcs`, or of `HtlcModifier`, which shares its structure
except for three decisions: it does not validate requests, it does not refuse
responses, and it answers with whatever circuit key the handler put into the
response. The main loop (`mpc`), the receiver (`rpc`) and one handler per HTLC
(`hpc`) are separate processes. `Handover` is the unbuffered `requestChan`;
`StartHandler` is `wg.Add(1)` and the `go` statement, which come after it and so
may come after `WaitForFinished` returned; `SendErr` is the select of `sendErr`:
room in the buffer, context done, or quit. `Return` includes the deferred
`cancel`. `failures` and `late` are history. That concurrent handlers call
`Send` on one stream, which gRPC forbids, has no outcome in this code to model:
a send is one atomic step.

`InterceptorPromise` is the same call as lnd and the caller see it, without
channels and goroutines: a queue of requests without a handler, the state of each
handler, the answers, and why the call returned. A request gets its handler when it is
the first of the queue, so in lnd's order and none skipped, and only while the call
runs; one that does not parse gets none and lets no other pass. A handler answers once
or fails once. The call returns a stream error only if the stream was lost or the
caller cancelled, the error of a request only if that request is the next one, a
handler's only if a handler has failed, and the other two for the caller's context
and the client's shutdown. `Promise` maps the state: the queue is what the main loop has
in its hand, what the receiver has in its own, and the stream's buffer, in this
order (`Waiting`), so that receiving and handing over cannot be seen; the receiver keeps
the request it was offering when it gives up (`Held`). `HandlerState` is what a
handler has come to, an error included from the moment it occurs, whether or not anybody
ever reads it. The order of the promise is that of the `go` statements: what the caller's
function does in two handlers is concurrent. `KeepsPromise` is the
refinement.

### 3.3 Connect

`NewLndServices` step by step (`at`), for any configuration `cfg` and any `lnd`
it meets, with subscription 0 the wallet state and
subscriptions 1, 2, ... one block epoch subscription for each attempt to reach
the chain notifier. `getLndInfo` reads subscription 0 in a three-way select;
each attempt has a context of its own that a timeout, `CallerCtx` or the
deferred `cancel` (`EndAttempt`) ends. Failure before the clients exist closes
the connection only (`FailEarly`); later failures run `cleanup`, the `CloseConn`
and `WaitForFinished` of `Subscriptions`. `Prepare` has the early returns that
leave the connection open, as the code does. A nil `CallerCtx` is
`callerCtx = FALSE`; `NilContext` is the panic of `context.WithTimeout`.

What start-up decides without waiting is in `Setup`: which macaroon and TLS
options go together (`CheckOptions`, `Dial`), from where the read-only macaroon
and those of the pouch are loaded (`Prepare`), and whether network, version and
build tags of the lnd that was reached will do (`Check`). The two places that
pick a macaroon use different precedences, `CustomMacaroonHex` first in one and
`CustomMacaroonPath` first in the other; they agree because `CheckOptions` takes
one option at most, which is what `StartedAsConfigured` is about. Files may be
missing and calls may fail at each of these steps.

### 3.4 ChainNotifications

One registration for a confirmation or a spend, with or without a `ReOrgChan`
(`aware`) of capacity `cap`. The two methods differ when the context is done: a
confirmation pump returns; a spend pump reports `ctx.Err` if it was delivering,
and goes back to `Recv` if it was signalling a re-organisation. So a cancelled
spend registration may skip a re-organisation and then still deliver a later
spend; `SkipsReorgs` names this case, and the two order properties leave it out,
because a caller that has cancelled is owed nothing. lnd alternates between
event and re-organisation, with malformed messages anywhere.

### 3.5 LightningCalls

Three methods that start a goroutine of their own in the lightning client's wait
group and are not subscriptions. `PayInvoice` sends (`SendPayment`), falls back
to `TrackPayment` when lnd says that the payment exists already, and reads
updates until one is final (`PaymentResult`). All `PayInvoice` calls of the
model pay one invoice, so what lnd tells one of them depends on what another has
started: `payments` is lnd's list of attempts, of which a failed one may be
followed by another. lnd's refusal is either the error of the call or, since a
gRPC client learns of a server's error only when it reads, the error of the
first `Recv` (`refused`). A context that was cancelled and one that expired
differ: only the first (and a closed connection, sometimes) gives the code
Canceled, for which the code sends no result.

`ChannelAcceptor` and `RegisterRPCMiddleware` share a loop: check the context,
receive, call the caller's function, answer; each error is put into an error
channel with room for one and ends the loop. The acceptor may also receive a
request that it cannot convert. The middleware first registers: a goroutine that
no wait group counts (`reader`) reads the answer, and the method selects over the
two channels it may write to, one of which is the error channel that the loop
writes to later. What callers read from these channels is left out, which is
the hardest case for the goroutines that write to them.

### 3.6 MacaroonService

The service of one process after another. On disk, and so across crashes: the
root key store (`extended`: does it implement the interface with a password;
`storeKey`: the password it is under; `rootKey`: its default root key) and the
macaroon file (`file`: absent, torn, or a macaroon with permissions and a root
key). In memory: `cfg`, `at`, `unlocked`. `roots` numbers root keys, so that two
stores never have the same one. `Start` is a sequence of steps, each of which
is one call of lnd, the database or the file system: `Start`, `DeriveSharedKey`,
`Unlock`, `UnlockEmpty`, `ChangePassword`, `CheckFile`, `CheckPermissions`,
`Bake` and the two steps of `WriteFile`, because `os.WriteFile` truncates
before it writes. Each step may fail (`FailsTo`), and an error ends `Start`
with two exceptions that the code makes: any error of the first `CreateUnlock`
leads to the empty password, and any error of `Allow` counts as no match.

`Crash` may come between any two steps; the next process may have another
configuration. `ReplaceStore` is a user who starts with a new database beside an
old macaroon file. A caller may call `Start` again without a `Stop` after a
failure. These and the errors are bounded together by `MaxDisturbances`.

External, and modelled as the code and its tests use them: `CreateUnlock`
refuses a store that is open or under another password, and gives a new store
its password without making a root key; `ChangePassword` needs a root key
(`src/macaroon_service_test.go` generates one first for this reason). Left out:
errors of `Stop`, `Interceptors`, `NewBoltMacaroonStore`, the location and the
caveats of a macaroon, and configurations that `NewMacaroonService` refuses for
an empty location or path, a negative timeout or no permissions.

### 3.7 Requests

Calls of several methods beside each other. `req` is what the caller passes, `wire`
what lnd is sent, or the recipe that is returned. A map in Go is shared by whoever
holds it, so `keySent` is the value under `record.KeySendType` in each map of the
callers, and `own` that in the map `SendPayment` makes when it is given none.
`BuildRequest` only takes the map over; `AddPreimage` writes to it;
`SendPaymentV2` reads it, when gRPC encodes the request. A caller may pass one map
to several calls, but not to two that overlap, which would be a data race. A
preimage and its hash are both the name of the call that drew them. Left out:
fields that are copied without a decision, an error of `rand.Read`, and the errors
of `marshallRouteHints`, which a compressed key cannot cause.

Units are scaled: a second has `Second` units of a duration and lnd's integers have
`W` bits, with the code's arithmetic and order of checks. An `int32` made of a
number of seconds that does not fit is either the least or the greatest `int32`, as
machines differ.

`SignOutputRaw` stands for the two methods that send key descriptors; they differ
in what they send of one. `PartialDescriptor` sends the public key and, when there is
none, the locator; `FullDescriptor` sends both, and takes a locator for set if its
family *or* its index is not zero. A signer is external: it looks a key up by the
locator if it is sent one, else among the keys it has derived (`KeyFound`).

`NewBasicConn` applies its options in order (`ApplyBasicClientOptions`), and the
result decides whom the connection trusts (`TLSSource`) and where the macaroon comes
from (`MacaroonSource`). Certificates, macaroons and paths are names. `insecure`
precedes a certificate that is given as well, which the code allows.

`MacaroonRecipe` is one action: after its one RPC, `ListPermissions`, whose answer
is `listed`, it is a pure function of its packages. It is given a set of packages;
their order and repetition make no difference to a union.

### 3.8 Recipes

The methods of the eight interfaces and the tables of `macaroon_recipes.go` are
those of the source, by name. `LooksUp` is the recipe's way from a method to the
RPCs in lnd's list; `Calls` is what the method really calls, read from its body.
The two are written down independently, which is what `RecipeIsRight` compares.
lnd is external: `listed` gives the permissions of each RPC that it knows, and may be
any function (`PermissionLists`). Six methods are `Misnamed`: the tables name another
RPC than the one they call, a *stand-in*. An lnd may list both, one or none of
such a pair, and demand the same for both or not; section 7 says what follows.

### 3.9 UnaryCalls

Every other method is one RPC: derive a context with the client's timeout, call,
convert. `Call` puts the request into `flight`; lnd (external) takes it from there
and executes it once (`Done`), refuses or never gets it (`LndFails`), or leaves it
there. The call returns what lnd answered (`Return*`) or, at any time before,
an error (`GiveUp`), because its deadline has passed, its caller has cancelled or the
connection has broken. What
is still in `flight` then may be executed later, also after the caller's next
call: this is what a caller of a call that changes something must live with. `made`
numbers the calls of a caller, `told` is what it has learned from those that returned,
`lastDone` a history variable.

Four uses of these calls need more than one of them to be right.

* *Paged lists* (`ListPayments`, `ListInvoices`, `ForwardingHistory`). A caller
  follows the first or last index of each page until one is empty, while records
  are added to lnd's list and come to an end. A record that does not convert fails
  its page; the caller asks again. Whether lnd sends a preimage is a part of its
  record: always of a settled one that is not of an AMP invoice, and of others or not,
  as it likes. `UnmarshalInvoice` and `UnmarshallPaymentStatus` show it of settled
  invoices and payments only; `UnmarshalPayment` sets the payment's own `Preimage` to
  what lnd sends, whatever the status.
* *Lists of channels* (`ListChannels`, `PendingChannels`, `ClosedChannels`). A caller
  who looks for a channel reads the three in this order, while the channel moves
  through them. `RpcCloseInitiator` infers the initiator of a force close from its
  type. Any list may fail to convert for a reason that has nothing to do with the
  channel. lnd's answer to `PendingChannels` is taken as one read of its state.
* *Leases* (`LeaseOutput`, `ReleaseOutput`, `ListLeases`, `FundPsbt`). One coin and two
  callers. `LeaseSeconds` cuts a time to whole seconds, and no seconds means lnd's
  default. `FundPsbt` locks the coin under an ID of lnd's own, and is the one
  funder there is: two of them would share that ID, and so each other's leases.
* *MuSig2 sessions* (`MuSig2CreateSession` and the four methods that use one). A
  session ends at lnd when a signature is made with `cleanup`, when the last
  signature is combined, or by `MuSig2Cleanup`.

Calls that leave nothing behind and depend on no other call are not made: they
are `Call`, an answer or an error, and a return. Which methods derive a deadline is
a fact of each body and not a property of their life; section 7 lists those that do
not.

## 4. Runs

State counts are of distinct states. Each property has, in `PROJECT.json`, a
mutant: a bug in one mapped definition that makes TLC refute that property.

| Run | Instance | States | What it shows |
|---|---|---|---|
| `subs_each` | 1 subscription, 12 methods, 3 messages | 130 thousand | the safety and liveness of a single pump against its caller, lnd and Close |
| `subs_close` | 2 subscriptions, 3 methods, 1 message, symmetry | 2.2 million | what Close may rely on when several pumps race with it |
| `htlc` | both methods, 2 requests | 145 thousand | the interceptor, safety and liveness |
| `chain_ntfns` | both methods, 4 events, `ReOrgChan` absent or of capacity 0 or 1 | 67 thousand | nothing is lost, disorder is bounded, re-organisations are signalled |
| `connect` | 10 combinations of waits with 2 wallet states, 2 attempts and 1 height each; 64 choices of options; 544 pairs of a requirement and an lnd | 191 thousand | start-up: what success and failure mean, and that the waits end |
| `calls` | a `PayInvoice` beside a call of each method, 2 requests, 2 payments | 223 thousand | results and errors are told and true, and Close ends the calls |
| `macaroon` | 2 permissions, 2 disturbances | 21 thousand | what a process may rely on after `Start`, and that crashes are survived |
| `requests` | 2 callers, 1 map, a second of 3 units, 2 bits; recipes for up to 2 packages; 10 permission lists of lnd; up to 3 options; 3 records, 5 calls for pages; 1 channel; 1 coin, 3 calls of one holder and 1 of another; 4 calls for sessions | 224 thousand | what lnd is asked for is what the caller asked for; recipes are sufficient, least, and refused for a reason, but for six methods; what unary calls tell is complete and holds at lnd |
| `bad_tx_block` | `SubscribeTransactions`, 2 messages | violation | finding 1 |
| `bad_close` | the methods Close does not wait for | violation | finding 2 |
| `bad_nil_ctx` | no `CallerCtx` | violation | finding 3 |
| `bad_in_flight` | two `PayInvoice` calls | violation | finding 4 |

`TypeOK` is checked in `subs_each`, where its theorem has content (section 6); the
other modules define one, `Connect` as `StartTypeOK`, and `RequestsProofs` its own, for
their proofs.

**Why these bounds are enough.** *One subscription* in `subs_each`: pumps share
nothing but the connection and a wait group, so what a pump does to its own
channels does not depend on another pump; what does depend on others is in
`subs_close`, where two pumps may be of one client or of two, and one kind is
counted by no group. *Three messages* allow a message in the buffer of the
channel, one in the pump's hand and one in the stream's buffer at the same time,
and a bad one at each place. `subs_each` leaves out `SubscribeTransactions`,
which `bad_tx_block` shows to break `ErrorSendNeverBlocks` and which shares its
other decisions with `SubscribeCustomMessages`. *Two requests* are the least
with which two handlers and the receiver can fail at once while the error
channel holds one error; a third would find the same full channel. *Four
events*: happened, re-organised, happened again, re-organised again fills both
channels and the goroutine's hand. *Two attempts*: one failed and one that
decides, with the first one's pump still running; those starts wait for nothing
else, because each wait begins when the one before it is over. *Parts of a
version up to 1* (`MaxPart`) give every order of two parts, and so of two
versions; *one build tag* is there or missing, and is required or not. *Two
calls*, one a payment: what a call shares with another one is the wait group and,
between payments, the invoice. *Two requests*: an answered one and one whose
answer may fail. *Two payments*: one that failed and a new one beside a call that
still follows the first. *Two permissions* are the
least with which a macaroon can have too few, too many or just other ones. *Two
disturbances*: a crash inside the recovery from a crash, or from an error. *Two
calls and one map* in `requests`: an earlier call that left something in the map,
or one beside it that does not share it. *A second of three units* has a timeout
below, at and above a half; *two bits* make 0, 1, 2 and 3 seconds the values of
an unsigned integer, and timeouts run from below zero to past the last of them.
*Two packages*: the recipe's loop keeps nothing but a union from one to the next.
*Three options* are the least with two of a kind and one between or
after them. *Keys at 0 or 1* give a locator with no, one or two components of zero.
*Two records, then three*, by pages of one and two: a page in the middle of the list,
one at its end that is full and one that is not, and a record that comes after the
caller has passed its place or ended. *Five calls* leave one to repeat with three pages
of one record and an empty page. *One channel*: lists are per channel but for failing
together, which `ChannelsDoNotConvert` allows at any time. *Two seconds* of lnd's clock
(`MaxClock`) and a default lease as long (`DefaultLease`) make leases of one second,
two and the default end at different times. *Three calls* of a holder: one that
timed out, one that repeats or undoes it, and one more before the first is executed.
*Four calls for sessions*: two sessions, and two uses of them in any order.
*Ten permission lists* (`Lists10`): all RPCs with permissions as fine, as coarse or as
equal between the six pairs as they can be; only the called names; the names that
`src/testdata/permissions.json` has of the last three pairs; and all but one RPC, one
of each way from a method to it (overridden, renamed, shared by two methods, a
stand-in, of the method's own name).

**Subscriptions.** `InOrderDelivery` and `EndIsExplained` are the caller's view:
order and completeness, and how to tell a final end from a failure.
`KeepsPromises` is the refinement; beyond the other two it forbids a second
error, anything after an end, an error without a cause or ahead of its turn, and
that a message which does not convert is passed over.
`ErrorSendNeverBlocks`, `PumpsEnd` (a cancel alone ends a pump, and so does
a failure of lnd's stream, without another read) and `CloseReturns` say that the blocking places of a pump are freed.
`WaitCoversPumps` and `ChannelsOnlyDrain` are what a program may rely on after
`WaitForFinished`. The second one counts what a caller has read together with what
is in a buffer, because a send on an unbuffered channel is seen in the reader only;
and it fails if a pump's `wg.Done` runs before its channels are closed. They except `late` pumps: the call that opened its stream
before Close and reaches `wg.Add` after the wait is not covered in the code.

**HtlcInterceptor.** `NoRequestDropped` follows a request from the stream to its
answer; `KeepsPromise` is the refinement of section 3.2: order, one answer at most, no
handler after the return, and an error that is true; `WaitCoversGoroutines`,
`FailureEndsCall` and `CallLeavesNothingBehind` (the return of a call, and quitting,
free every goroutine and so `WaitForFinished`) are about the races between
handlers, receiver, loop and shutdown.

**ChainNotifications.** `OvertakingIsBounded` says how far the two channels may
be out of step: a re-organisation overtakes at most the one buffered
notification, a notification at most as many re-organisations as the caller's
channel buffers, so none with an unbuffered `ReOrgChan`.

**Connect.** `InfoOnlyWhenReady` relates what start-up concludes from a value or
from a closed channel to what lnd really said; `SuccessMeansReady`,
`StartCleansUp` and `CancelAborts` relate the outcome to what it leaves behind:
a failure, and each attempt that is over; that the pump of a released attempt ends is
`PumpsEnd` of `subs_each`. `StartedAsConfigured` compares a successful
start with the configuration, versions by a reference definition that makes one
number of the three parts.

**LightningCalls.** `ResultIsTrue` relates a result to the payment its call
follows, which need not be the one it asked for; `EndIsTold` is the caller's
view, one error or one result for each end, except for a payment that was
cancelled or lost its connection; `WaitFindsNoneRunning` says what the end of the wait
means, for calls that race with it; `CloseEndsCalls` says that `Close` needs no
help here, because these goroutines block in nothing but `Recv`.

**MacaroonService.** `StartedServiceFits` relates a started service to the disk:
the store is under the password of this configuration, and the file holds a
macaroon for exactly the permissions of this configuration, made with the root
key of this store. `FailureIsExplained` lists why `Start` may fail, and a crash
between two steps of an earlier `Start` is not among the reasons but for a torn
file. `RecoversFromCrashes` says that the service comes up again, except when it
is `LockedOut`. Locked out is a store under the password of a configuration that
is no longer used, and one case more, which the doc does not mention: if
the first `CreateUnlock` of a new store fails for a passing reason, `Start` gives
the store the empty password, `ChangePassword` then fails because there is no
root key, and it does so at every later `Start`.

**Requests.** `KeysendPaysItself` holds although the caller's map keeps the
preimage of an earlier payment, and says that a refused payment leaves none there.
`TimeoutsFit` is about the two directions of rounding, down for a payment and up
for a probe, and about the ends of lnd's integers. `RecipeIsRight` relates three
tables to what about a hundred methods call, in both directions, for any permission
list, and names what the six misnamed methods cost: their calls may not be
admitted, a stand-in's permissions are given although nothing calls it, and a
stand-in that lnd does not list makes the recipe fail. `KeyIsFound` follows a
key from what the caller knows of it to what a signer finds, one that was restored
from its seed too; a locator of zeros and no public key is the case nobody can
save. `BasicClientIsAsAsked` compares the connection with the last option of each kind,
while the code applies all of them, one after the other, to one record.

**UnaryCalls.** `PagesAreComplete`: following indices over a list that grows,
with failures between the pages, misses nothing and repeats nothing; an invoice and
the status of a payment show no preimage before they are settled, and a settled payment
shows the same one twice, in its status and in itself. `ChannelsAreSeen`: the order open, pending, closed cannot miss
a channel (another order can), and the initiator of a force close is never wrong.
`ToldIsHeld`: what a caller was told of a lease or a session is so at lnd, with the one
exception that a call of its own, executed late, has undone it; and no session stays at
lnd that no caller could know of.

## 5. Fairness

* Every goroutine of the library is scheduled (`WF` on its steps), and a method
  that has opened its stream goes on to start its pump. Go's scheduler is
  preemptive and gives both.
* `Recv` returns once the context is done or the connection closed: the weak
  fairness of the pump covers `ReceiveError`. gRPC documents this.
* `WaitForFinished` returns when its group is empty.
* lnd promises nothing. `GetInfo` in `getLndInfo` has no timeout, so nothing is
  assumed of it until `CallerCtx` is done. `UnaryCalls` assumes no fairness at all.
* Timers fire (`AttemptTimeout`, `PauseSync`). A poll of the chain sync whose
  timer and context are both ready takes either case, as `select` does, and
  `select` chooses at random: strong fairness of the context's case.
* The functions given to `ChannelAcceptor` and `RegisterRPCMiddleware` return when
  the timeout given with them has passed: their context ends then.
* A handler of an HTLC may take for ever, but returns after its context is done:
  the doc of `InterceptHtlcs` (`src/router_client.go:991`) demands it.
* A program that uses the macaroon service is started again when it is down,
  stops a service that did not start and starts it anew. Its user removes a torn
  macaroon file, as the log asks (`src/macaroon_service.go:253`), at one of the
  restarts: strong fairness, because the file can be removed only while `Start`
  does not run. None of this is code; it is what "comes up again" presupposes.
* Callers promise nothing, in no module but `ChainNotifications`: there the
  caller reads its two event channels until it cancels, which is what
  `ReorgIsSignalled` needs and the doc of `WithReOrgChan` presupposes.

## 6. Proofs

`SubscriptionsProofs` proves, with TLAPS, for any finite set of subscriptions,
any choice of methods and any number of messages:

* `Invariance`: `Spec => []Inv`, where
  `Inv == TypeOK /\ WgCounts /\ WaitCoversPumps`.
* `TypeCorrect` (`TypeOK`; that `wg` stays in `Nat` is the part with content: in
  Go a negative counter panics).
* `WaitIsSound` (`WaitCoversPumps`).
* `ReleasedChannelsDrain` (`ChannelsOnlyDrain`).
* `ErrorSendsFindRoom` (`ErrorSendNeverBlocks`, unless `SubscribeTransactions`
  is among the methods; `bad_tx_block` shows that the exception is needed).

Assumptions: `SubsAssumption` (finitely many subscriptions), `KindsAssumption`,
`MaxMsgsAssumption`. TLC evaluates them in every run of the module.

*Why the strengthening.* `WaitCoversPumps` alone is not inductive: the step that
matters is `WaitForFinished`, whose guard says that a counter is zero, and
nothing in `WaitCoversPumps` says what a counter means. `WgCounts` does: each
client's wait group is the cardinality of the set of its running, counted pumps
(`PumpsOf`). Then zero means none. `Launch` adds one pump and one to the counter
(`LaunchCounts`), `Finish` removes one of each (`FinishCounts`), and every other
step leaves both alone (`QuietStepIsQuiet`, `SamePumps`), which is also where
`wg - 1 >= 0` comes from: a pump that finishes is in the set. A launch after the
wait makes its pump `late`, which the property excepts.

`ChannelsOnlyDrain` follows from `Inv` and a lemma per kind of step: no step sends
on the channels of a pump that does not run or closes them (`StepDrains`). A read
moves the first of the buffer to the end of what was read, which leaves the two in a row
the same (`TakeKeeps`); every other step leaves both alone.

`ErrorSendsFindRoom` has an invariant of its own, `OneReport`: before its report
a pump's error channel has never been written to, and a report ends the loop.

`PromiseProofs` proves, for any number of subscriptions of any methods but
`SubscribeTransactions`:

* `PumpsKeepTheirPromises` (`KeepsPromises`), and as an implication of
  specifications for each subscription, `SubscriptionImplementsPromise`.
* `DeliveryIsInOrder` (`InOrderDelivery`) and `EndsAreExplained`
  (`EndIsExplained`).

All three follow from one inductive invariant, `PumpInv`: what has been passed is
older than what is in the pump's hand (`Holds`, `Ordered`); without a cancel it
is exactly the first `rcvd` messages, less the one in hand or the bad one that
ends the loop (`Gapless`); a pump in its loop has shown no end (`Silent`); a
pump past it has a reason and has shown it (`Reason`). `Gapless` is what makes a
delivery the promise's `Pass` of the *next* message, `Silent` is its guard
`Open`, and `Reason` is the guard of `Tell` and `Shut`. The proof has a lemma for
each class of steps: of another subscription (`OtherStep`), reading
(`ReadingIsElsewhere`), not seen by the caller (`InternalKeeps`), lnd's and the
caller's (`OutsideKeeps`), and the three that are steps of the promise
(`DeliverKeeps`, `ReportKeeps`, `CloseChanKeeps`). `OneReport` serves again: it
is where `SubscribeTransactions` is excluded.

`MacaroonServiceProofs` proves, for any finite, nonempty set of permissions and
any number of disturbances:

* `Invariance`: `Spec => []Inv`, with `TypeOK` and what `Start` knows at each of
  its steps: the store it is about to open is locked, unless this `Start` was
  spoilt from outside (`OpensLocked`); the empty password is tried only for a
  store that refused the shared key (`TriedSharedKey`); re-encryption starts from
  an open store under the empty password (`Migrates`); from the file on, the
  store is open under the right password (`StoreIsOpen`).
* `StartedServicesFit` (`StartedServiceFits`). `Inv` is needed because the
  property speaks of the last step only, and what it claims was established up
  to six steps earlier. The comparison of permissions is the lemma
  `MatchesExactly`: a finite set that contains another one of the same
  cardinality equals it, which is why the code may count.
* `FailuresAreExplained` (`FailureIsExplained`), by the lemma `FailingStep`: each
  step that fails does so for one of the four reasons, given `Inv`.

Assumptions: `PermsAssumption`, `NoneAssumption`, `MaxDisturbancesAssumption`.

`HtlcInterceptorProofs` proves, for any finite set of HTLCs and both methods:
`TypeCorrect`, `NothingDropped` (`NoRequestDropped`), `WaitIsComplete`
(`WaitCoversGoroutines`) and `CallKeepsPromise` (`KeepsPromise`), and two invariants
that no run checks because the promise contains them: `AtMostOneAnswer`
(`OneAnswerPerRequest`) and `ResultTellsTheTruth` (`ResultIsTrue`). Four parts of their `Inv` do the work.

* `OnePlace`: a request is in one place at a time, in the stream's buffer, the
  receiver's hand, the main loop's hand or a handler. Without it a second handler
  could be started for an HTLC, and one step could lose what another place still
  holds. Only four steps move a request (`Moves`); for all the others `OnePlace` and
  what of `NoRequestDropped` depends on places is one lemma (`UnmovedKeepsPlaces`).
* `AnsweredOnce`: an answer is the last thing a handler does.
* `ErrorsAreCaused`: an error has its cause wherever it is on its way, in a
  goroutine's hand or in the buffer of `errChan`; `ResultIsTrue` speaks of its end.
* `WgCounts`, as for subscriptions. Here the counter can be zero while a request is
  between receiver and handler, which is where `late` is needed.

`CallKeepsPromise` needs more than `Inv`. `QueueInv` says what `Waiting` can be: what
the receiver holds is not in the buffer any more, and it holds something only while it
offers, reports or has given up. `ReportInv` says of whom an error on its way is: each
one in `errChan` is still the `pend` of the goroutine that put it there, so that when
the main loop reads it, the promise's handler is still in that state, or the request it
could not parse still first of the queue. With them each step is a step of the
promise or not seen: receiving and handing over only move a request along the queue
(`ReceiveKeepsLine`, `HandoverKeepsLine`), `StartHandler` takes its first
(`StartIsNext`), an answer or error of a handler is the promise's (`HandlersAnswerOrFail`),
and a return has a reason (`ReturnsAreTrue`).

`ChainNotificationsProofs` proves, for streams of any length and a `ReOrgChan` of any
capacity: `TypeCorrect`, `ChannelsAreFaithful` (`NothingLost`), `LittleOvertaking`
(`OvertakingIsBounded`) and `EndIsJustified` (`EndHasAReason`). `InHand` and `Complete`
locate every received event: sent, or in the goroutine's hand, or given up.
`LittleOvertaking` counts events that were overtaken: what the goroutine has in its
hand is later than what it has sent, so they are all still in the other channel, and
its capacity bounds their number (`ListedSet`). `OvertakingIsBounded` is in `Inv`
because what was overtaken when it was read is a fact about the past.

`LightningCallsProofs` proves, for any finite set of calls, any mix of methods and any
number of requests and payments: `TypeCorrect`, `PaymentResultIsTrue` (`ResultIsTrue`),
`CallEndIsTold` (`EndIsTold`) and `WaitIsForAll` (`WaitFindsNoneRunning`). `PaymentInv` and `HandlerInv` say what each point of the
control flow has already sent; `ResultInv` ties what `payInvoice` returned to the
payment it follows, which is stable because a payment that has ended does not change;
`WgCounts` is what keeps the counter in its type, and what makes zero mean none.

`ConnectProofs` reuses the invariant of `SubscriptionsProofs`, for start-up takes steps
of `Subscriptions` and its own changes of contexts (`StartNextIsNext`, `Cancels`). It
proves, for any number of attempts, wallet states and heights, for parts of a version of any
size, and for any configurations and lnds:

* `GetInfoWaits` (`InfoOnlyWhenReady`). Start-up concludes from a value or from a
  closed channel that the RPC server is active. `StatePump` says that the wallet
  state's pump closes its channels only for the final state, `Wallet` that this state
  is "server active".
* `LndIsAsConfigured` (`StartedAsConfigured`), from `Control`, which keeps what
  each check has shown, and a lemma on versions: comparing parts one by one is
  comparing numbers whose digits are the parts, in any base that is large enough
  (`LargerNumber`).
* `ServicesAreReady` (`SuccessMeansReady`) and `NothingIsLeftBehind`
  (`StartCleansUp`), from `Reason` (why an attempt is left), `Connection` (it is open
  until `cleanup` closes it, so that no pump starts late and the wait covers all of
  them) and `Contexts` (only the current attempt's context can be open).

`RequestsProofs` is about `AllSpec`, the simple and the unary calls together, for any
finite set of callers, any maps, any units and width of integers. Of the simple calls
(`Inv`, one `CallerInv` for each caller):

* `KeysendIsClaimable` (`KeysendPaysItself`). `Exclusive` and `HasItsPreimage` say
  that between writing the preimage and reading it nobody else has the map;
  `LeftByPayments` is the claim about refused payments for every map.
* `TimeoutsAreConverted` (`TimeoutsFit`): arithmetic over any `Second` and `W`.
* `DescriptorsFindKeys` (`KeyIsFound`): for any locators, those of zeros included.
* `ConnectionsAreAsAsked` (`BasicClientIsAsAsked`), for any number of options in any
  order. It needs what a fold over a sequence of any length computes
  (`ApplyIsApplied`), which is an induction over data. The library's induction
  theorems cannot be used, because they take an operator as a parameter; `Induction` is
  proved here for sets instead, from the well-foundedness of `<` on `Nat` (`Least`). The
  fold is defined by a CHOOSE of a function that satisfies its equation: the function
  `Applied`, by which each field has the value of the last option for it, satisfies
  the equation, so the chosen one does, and two solutions agree on `1 .. k` for every `k`.
* `RecipesAdmitTheCalls` (`RecipeIsRight`), for any set of packages and any permission
  list. The tables are as in the source; `LookedUpAreCalled` compares them with the
  calls in both directions, with the six stand-ins as its only exceptions, and
  `DemandsGrow` carries that over to permissions.

Of the unary calls (`UnaryInv`, of which `CallsInv` is shared: requests in flight are
numbered, at most one belongs to the current call, and nobody but a waiting caller is
answered):

* `PagesMissNothing` (`PagesAreComplete`), for lists and pages of any length.
  `ToldPages` says that a caller has seen, in order, all it must see on its side of the
  offset; `AnsweredPage` that an answer on its way has all beyond the offset up to its
  own end, which stays true while records are added, for they are added at the far
  end. `PageIsAdded` joins the two. What was shown of a record still fits when the
  record goes on, as a settled one stays what it is (`StaysFit`). That the entries of a page can be put in order, so that
  `Ascending` is defined at all, is `Enumerations`: the rank of a number is the
  cardinality of what is not greater.
* `ChannelsAreFollowed` (`ChannelsAreSeen`). A channel only moves forward, and
  `LaterThan` says that one which has not been seen is in a list not yet read.
* `WhatIsToldIsHeld` (`ToldIsHeld`), under the hypothesis `OneFunder`: at most one
  caller uses `FundPsbt`. lnd has one lock ID for all of them, and TLC refutes the
  property for two (section 7). `Rely` is what a caller can count on between its
  calls: lnd's lease is as told unless it has expired or lnd has executed another
  request of this caller; that nobody else touches the lease is where lock IDs matter.

Assumptions of these modules are on constants only, and TLC evaluates them: sets of
processes are finite, bounds are natural numbers, names that mean "none" are not members of
the set they are added to (`NamesAssumption`, `NoMapAssumption`, `NoValueAssumption`,
`LocksAssumption`), `Subs` are the attempts (`SubsAreAttempts`), what callers ask is of
the modelled requests (`AskedAssumption`, `UnaryAssumption`), lnd's first list is one
of records (`RecordsAssumption`), and `2^(W - 1) \in Nat` (`PowerAssumption`), which is so for
every `W` but not known to the provers.

**Only model-checked.**

* Liveness: `PumpsEnd`, `CloseReturns`, `FailureEndsCall`, `CallLeavesNothingBehind`,
  `ReorgIsSignalled`, `CancelAborts`, `CloseEndsCalls`, `RecoversFromCrashes`.
  Fairness and ENABLED are outside the prover's reach.
* The operators of `Setup`, `Recipes`, `Credentials`, `Descriptors` and `Answers`, except
  where a theorem above needs them.

## 7. Findings

1. **A subscription can block for ever on its error channel** (`bad_tx_block`).
   `SubscribeTransactions` reports a transaction it cannot convert and goes on
   (`src/lightning_client.go:4529`), sending an empty transaction to the caller.
   Its next error finds the one-place error channel full, and that send has no
   `ctx.Done` case. With a caller that reads only updates the goroutine never
   ends, and neither does `Close`. Every other method returns.
2. **Close does not wait for all goroutines** (`bad_close`). `cleanup` never waits
   for the state client, and the router's pumps are in no wait group.
3. **`BlockUntilChainNotifier` without a `CallerCtx` panics** (`bad_nil_ctx`).
   `waitForChainNotifier` lacks the nil check its two siblings have.
4. **A payment in flight can be reported as failed** (`bad_in_flight`).
   `payInvoice` looks for lnd's AlreadyExists in the error of the call and not in
   that of the first `Recv`, where a streaming RPC delivers it;
   `paymentResultFromStream` then returns it as the result.

More observations contradict no doc that is clear enough to check against.

* A handler can start after `WaitForFinished`: the loop of `InterceptHtlcs` may
  pick the request it was handed after the receiver, the only goroutine counted at
  the time, has ended. `WaitCoversGoroutines` excepts such a handler (`late`).
* A payment can carry the preimage of another one. For a keysend payment
  `SendPayment` writes the preimage into the caller's own map of custom records;
  a later payment with that map and without `KeySend` sends it.
  `KeysendPaysItself` speaks of keysend payments only.
* Six methods have no deadline of their own (`SignMessage`, `VerifyMessage`,
  `ListAliases`, `GetState`, `EstimateRouteFee`,
  `EstimateRouteFeeWithProbe`), although the doc of `RPCTimeout`
  (`src/lnd_services.go:164`) speaks of RPC calls in general. `ListAliases` also sends no
  macaroon (`src/lightning_client.go:4552`), so an lnd that demands one refuses it;
  `RecipeIsRight` is about what a macaroon admits once it is sent.
* `ListInvoices` ignores `PendingOnly` of its request (`src/lightning_client.go:2478`).
* A descriptor without a public key and with the locator of zeros is sent empty.
* `Insecure` is not refused beside a certificate, and precedes it.
* `FundPsbt` locks coins under an ID that all callers share, so one funder may release
  the coins of another. The instance has one funder, and the theorem assumes it (`OneFunder`).
* Six methods call an RPC under another name than the recipe looks up:
  `OpenChannel`, `SendPayment`, `TrackPayment`, `XAddLocalChanAlias`,
  `XDeleteLocalChanAlias` and `ImportTaprootScript`. An lnd that lists only the names
  that are called (`XAddLocalChanAliases`, `XDeleteLocalChanAliases`, `ImportTapscript`
  for the last three) makes `MacaroonRecipe` fail for `routerrpc` and `walletrpc`, on
  account of the client's tables alone (`src/macaroon_recipes.go:144`).
  `src/testdata/permissions.json`, which the test of recipes uses, lists both names of
  the first three pairs and only the name that is not called of the others, so the test
  cannot tell. Where both are listed, the calls are admitted if lnd demands no more for the
  called name than for the other one. `RecipeIsRight` states all of this as the exception.
* `ListPayments` shows the preimage that lnd sends whatever the payment's status
  (`src/lightning_client.go:2640`), while the status it shows has one only if the payment
  has succeeded (`src/router_client.go:868`).

## 8. What is not modelled, and why

* A second call of `Close`. The code allows for it where it would hurt: `quit` is
  closed by a `sync.Once` (`src/router_client.go:502`, `src/invoices_client.go:131`), and
  the rest only closes and waits once more.
* What start-up leaves behind when it fails before it has clients: an error of
  `ChainParams` or of loading the read-only macaroon (`src/lnd_services.go:297`, `:314`)
  leaves the connection open. `Prepare` has these returns; nobody promises better.
* The first `GetInfo` of the compatibility check (`src/lnd_services.go:687`) has no
  timeout; a start without a `CallerCtx` waits for lnd, which `CancelAborts`
  allows.
* `HtlcModifier` reads a circuit key without the nil check of `InterceptHtlcs`
  (`src/invoices_client.go:337`); it is in the conversion, and a panic there ends
  the process. What a resolution contains is left out.
* Two goroutines in one `SendMsg` (`src/router_client.go:1143`): the race is inside gRPC.
* What macaroons and certificates contain, and so the caveats that a macaroon on disk
  may have beyond the configured ones (`src/macaroon_service.go:434`).
* Methods and conversions that copy fields: most of the lightning, router, walletkit,
  signer, chainkit and watchtower clients. Their life is that of a call of `UnaryCalls`;
  their fields have no state and no decision to model. So too the
  life of a hold invoice and mission control, which are lnd's.
* Logging and the wording of errors.

## 9. Plan

Done: the modules of section 3, their runs, the two refinements (3.1 and 3.2), and the
proofs of section 6, which cover every safety property of the runs. What would come next:

1. **A promise for chain notifications and for the calls of 3.5**, as abstract
   specifications like the two there are. The invariants of these modules already say
   most of what they would contain.
2. **What `late` excepts**: that after `WaitForFinished` lnd is answered, and the
   channels of `LightningCalls` are written to, only by goroutines that were counted
   after the wait, as `ReleasedChannelsDrain` says of subscriptions.
3. **The remaining rules**: the resolutions of an intercepted HTLC and the
   validation of a handler's response, where a component above relies on them.

## 10. Reproducing

    tlasany Subscriptions.tla
    tlc -workers 2 -config subs_each.cfg MCSubscriptions.tla
    tlapm PromiseProofs.tla

with the module and configuration of each run as `PROJECT.json` lists them. The
longest run takes about two minutes. A run listed there as a violation must end
with a counterexample to its one property.
