---------------------------- MODULE Subscriptions ----------------------------
(***************************************************************************)
(* The stream subscriptions of lndclient and LndServices.Close.            *)
(*                                                                         *)
(* Every Subscribe*, Track*, OpenChannelStream, CloseChannel and           *)
(* RegisterBlockEpochNtfn method opens a gRPC stream, makes an update      *)
(* channel and an error channel, and starts one goroutine, the pump, that  *)
(* moves messages from the stream to the channels until the stream fails,  *)
(* ends, or the caller's context is done.  The pumps share one shape and   *)
(* differ in a handful of decisions (buffers, who closes what, whether the *)
(* wait group counts them, what a conversion error does); a Profile        *)
(* records these decisions for one method, and the actions below are the   *)
(* shape.                                                                  *)
(***************************************************************************)
EXTENDS Naturals, Sequences, FiniteSets

CONSTANTS
    Subs,       \* the subscriptions the program makes
    Kinds,      \* the methods they may be made with
    MaxMsgs     \* bound: messages lnd sends on one stream

(***************************************************************************)
(* Profiles.                                                               *)
(*   client       the sub server client that owns the pump                 *)
(*   counted      the pump is in the client's wait group                   *)
(*   updCap       capacity of the update channel                           *)
(*   errCap       capacity of the error channel                            *)
(*   convFails    turning the RPC message into a value may fail            *)
(*   convReturns  the pump returns after reporting such a failure          *)
(*   eofCloses    io.EOF closes both channels instead of being an error    *)
(*   finalCloses  a final value closes both channels                       *)
(*   exitCloses   every return closes both channels                        *)
(*   errFirst     the error channel is the first of the two to be closed   *)
(*   errSelects   reporting an error also selects on ctx.Done              *)
(*   onCancel     what ctx.Done does to a pump that offers an update:      *)
(*                return, report ctx.Err, or receive the next message      *)
(***************************************************************************)

SubscribeGraph ==
    [client |-> "lightning", counted |-> TRUE, updCap |-> 0, errCap |-> 1,
     convFails |-> TRUE, convReturns |-> TRUE, eofCloses |-> FALSE,
     finalCloses |-> FALSE, exitCloses |-> FALSE, errFirst |-> FALSE,
     errSelects |-> FALSE, onCancel |-> "return"]

SubscribeChannelEvents == SubscribeGraph

SubscribeChannelBackups == [SubscribeGraph EXCEPT !.convFails = FALSE]

OpenChannelStream == [SubscribeGraph EXCEPT !.convFails = FALSE]

CloseChannel ==
    [SubscribeGraph EXCEPT !.errCap = 0, !.eofCloses = TRUE,
                           !.errSelects = TRUE, !.onCancel = "receive"]

\* A faulty SubscribeInvoices: no return after a conversion error.
SubscribeInvoicesNoReturn ==
    [SubscribeGraph EXCEPT !.exitCloses = TRUE, !.convReturns = FALSE]

SubscribeInvoices == [SubscribeGraph EXCEPT !.exitCloses = TRUE]

SubscribeCustomMessages ==
    [SubscribeGraph EXCEPT !.exitCloses = TRUE, !.errFirst = TRUE]

SubscribeTransactions ==
    [SubscribeGraph EXCEPT !.exitCloses = TRUE, !.errFirst = TRUE,
                           !.convReturns = FALSE]

SubscribeSingleInvoice ==
    [SubscribeGraph EXCEPT !.client = "invoices", !.eofCloses = TRUE]

RegisterBlockEpochNtfn ==
    [SubscribeGraph EXCEPT !.client = "notifier", !.convFails = FALSE]

\* A faulty SubscribeState: an error closes the channels too.
SubscribeStateClosesOnError ==
    [SubscribeGraph EXCEPT !.client = "state", !.updCap = 1,
                           !.exitCloses = TRUE]

SubscribeState ==
    [SubscribeGraph EXCEPT !.client = "state", !.updCap = 1,
                           !.finalCloses = TRUE]

\* SendPayment and TrackPayment both hand their stream to trackPayment.
trackPayment ==
    [SubscribeGraph EXCEPT !.client = "router", !.counted = FALSE,
                           !.eofCloses = TRUE]

SubscribeHtlcEvents ==
    [SubscribeGraph EXCEPT !.client = "router", !.counted = FALSE,
                           !.convFails = FALSE, !.exitCloses = TRUE,
                           !.onCancel = "report"]

Profiles ==
    [SubscribeGraph          |-> SubscribeGraph,
     SubscribeChannelEvents  |-> SubscribeChannelEvents,
     SubscribeChannelBackups |-> SubscribeChannelBackups,
     OpenChannelStream       |-> OpenChannelStream,
     CloseChannel            |-> CloseChannel,
     SubscribeInvoices       |-> SubscribeInvoices,
     SubscribeCustomMessages |-> SubscribeCustomMessages,
     SubscribeTransactions   |-> SubscribeTransactions,
     SubscribeSingleInvoice  |-> SubscribeSingleInvoice,
     RegisterBlockEpochNtfn  |-> RegisterBlockEpochNtfn,
     SubscribeState          |-> SubscribeState,
     trackPayment            |-> trackPayment,
     SubscribeHtlcEvents     |-> SubscribeHtlcEvents]

Clients == {"lightning", "notifier", "invoices", "router", "state"}

\* The clients whose WaitForFinished cleanup calls, in the order of the calls.
WaitOrder == <<"lightning", "notifier", "invoices", "router">>

ASSUME SubsAssumption  == IsFiniteSet(Subs)
ASSUME KindsAssumption == Kinds \subseteq DOMAIN Profiles
ASSUME MaxMsgsAssumption == MaxMsgs \in Nat

VARIABLES
    kind,       \* the method each subscription is made with
    pc,         \* where each pump is
    rcvd,       \* how many messages its stream.Recv has returned
    hand,       \* the message it offers on the update channel; 0 a zero value
    cause,      \* why its loop ended, once it has
    sent,       \* what lnd sent on the stream: the class of each message
    ended,      \* how lnd ended the stream: no, eof, err
    upd,        \* the buffer of the update channel
    errs,       \* how many errors the error channel's buffer holds
    closed,     \* the channels the pump has closed
    got,        \* the updates the caller has read
    errGot,     \* how many errors the caller has read
    ctx,        \* whether the caller has cancelled its context
    connOpen,   \* the gRPC connection all clients share
    closing,    \* how far Close is: 0 not called, i waits for WaitOrder[i]
    wg,         \* the wait group of each client
    late        \* history: pumps started after their client was waited for

pumpVars == <<pc, rcvd, hand, cause>>
lndVars  == <<sent, ended>>
chanVars == <<upd, errs, closed>>
readVars == <<got, errGot>>
svcVars  == <<connOpen, closing, wg, late>>
vars == <<kind, pumpVars, lndVars, chanVars, readVars, ctx, svcVars>>

Profile(s) == Profiles[kind[s]]

\* The goroutine of s is running.
Live(s) == pc[s] \in {"recv", "deliver", "report", "exit"}

\* Close has got past the WaitForFinished of client c.
Waited(c) == \E i \in DOMAIN WaitOrder : WaitOrder[i] = c /\ closing > i

Init ==
    /\ kind \in [Subs -> Kinds]
    /\ pc = [s \in Subs |-> "unused"]
    /\ rcvd = [s \in Subs |-> 0]
    /\ hand = [s \in Subs |-> 0]
    /\ cause = [s \in Subs |-> "none"]
    /\ sent = [s \in Subs |-> <<>>]
    /\ ended = [s \in Subs |-> "no"]
    /\ upd = [s \in Subs |-> <<>>]
    /\ errs = [s \in Subs |-> 0]
    /\ closed = [s \in Subs |-> {}]
    /\ got = [s \in Subs |-> <<>>]
    /\ errGot = [s \in Subs |-> 0]
    /\ ctx = [s \in Subs |-> FALSE]
    /\ connOpen = TRUE
    /\ closing = 0
    /\ wg = [c \in Clients |-> 0]
    /\ late = [s \in Subs |-> FALSE]

-----------------------------------------------------------------------------
(* The caller's call. *)

\* The RPC that opens the stream succeeds.  When it fails the method returns
\* the error and nothing has changed.
OpenStream(s) ==
    /\ pc[s] = "unused"
    /\ connOpen
    /\ ~ctx[s]
    /\ pc' = [pc EXCEPT ![s] = "launch"]
    /\ UNCHANGED <<kind, rcvd, hand, cause, lndVars, chanVars, readVars, ctx,
                   svcVars>>

\* A faulty start: no wg.Add.
LaunchUncounted(s) ==
    /\ pc[s] = "launch"
    /\ pc' = [pc EXCEPT ![s] = "recv"]
    /\ late' = [late EXCEPT ![s] = Waited(Profile(s).client)]
    /\ UNCHANGED <<kind, rcvd, hand, cause, lndVars, chanVars, readVars, ctx,
                   connOpen, closing, wg>>

\* wg.Add(1) and the go statement.  Close may run between the RPC and here.
Launch(s) ==
    LET c == Profile(s).client IN
    /\ pc[s] = "launch"
    /\ pc' = [pc EXCEPT ![s] = "recv"]
    /\ wg' = IF Profile(s).counted THEN [wg EXCEPT ![c] = @ + 1] ELSE wg
    /\ late' = [late EXCEPT ![s] = Waited(c)]
    /\ UNCHANGED <<kind, rcvd, hand, cause, lndVars, chanVars, readVars, ctx,
                   connOpen, closing>>

-----------------------------------------------------------------------------
(* lnd and the gRPC library (external). *)

MessageClass(s) ==
    {"value"} \cup (IF Profile(s).convFails THEN {"bad"} ELSE {})
              \cup (IF Profile(s).finalCloses THEN {"final"} ELSE {})

\* A message reaches the stream's local buffer; a stream that is cancelled or
\* whose connection is closed takes no more.
LndSends(s, class) ==
    /\ pc[s] # "unused"
    /\ connOpen /\ ~ctx[s]
    /\ ended[s] = "no"
    /\ Len(sent[s]) < MaxMsgs
    /\ sent' = [sent EXCEPT ![s] = Append(@, class)]
    /\ UNCHANGED <<kind, pumpVars, ended, chanVars, readVars, ctx, svcVars>>

LndEnds(s, how) ==
    /\ pc[s] # "unused"
    /\ connOpen /\ ~ctx[s]
    /\ ended[s] = "no"
    /\ ended' = [ended EXCEPT ![s] = how]
    /\ UNCHANGED <<kind, pumpVars, sent, chanVars, readVars, ctx, svcVars>>

-----------------------------------------------------------------------------
(* The pump. *)

HasNext(s) == rcvd[s] < Len(sent[s])

\* Recv returns a message that converts.
ReceiveValue(s) ==
    /\ pc[s] = "recv"
    /\ HasNext(s)
    /\ sent[s][rcvd[s] + 1] # "bad"
    /\ rcvd' = [rcvd EXCEPT ![s] = @ + 1]
    /\ hand' = [hand EXCEPT ![s] = rcvd[s] + 1]
    /\ pc' = [pc EXCEPT ![s] = "deliver"]
    /\ UNCHANGED <<kind, cause, lndVars, chanVars, readVars, ctx, svcVars>>

\* A faulty receive: it passes over a message that does not convert.
ReceiveBadSkips(s) ==
    /\ pc[s] = "recv"
    /\ HasNext(s)
    /\ sent[s][rcvd[s] + 1] = "bad"
    /\ rcvd' = [rcvd EXCEPT ![s] = @ + 1]
    /\ UNCHANGED <<kind, pc, hand, cause, lndVars, chanVars, readVars, ctx,
                   svcVars>>

\* Recv returns a message that does not convert.
ReceiveBad(s) ==
    /\ pc[s] = "recv"
    /\ HasNext(s)
    /\ sent[s][rcvd[s] + 1] = "bad"
    /\ rcvd' = [rcvd EXCEPT ![s] = @ + 1]
    /\ hand' = [hand EXCEPT ![s] = 0]
    /\ cause' = [cause EXCEPT ![s] =
                    IF Profile(s).convReturns THEN "error" ELSE "none"]
    /\ pc' = [pc EXCEPT ![s] = "report"]
    /\ UNCHANGED <<kind, lndVars, chanVars, readVars, ctx, svcVars>>

\* Recv returns io.EOF and the method has a case for it.
ReceiveEOF(s) ==
    /\ pc[s] = "recv"
    /\ ~HasNext(s)
    /\ ended[s] = "eof"
    /\ Profile(s).eofCloses
    /\ cause' = [cause EXCEPT ![s] = "eof"]
    /\ pc' = [pc EXCEPT ![s] = "exit"]
    /\ UNCHANGED <<kind, rcvd, hand, lndVars, chanVars, readVars, ctx, svcVars>>

\* A faulty receive: it returns without reporting the error.
ReceiveErrorSilently(s) ==
    /\ pc[s] = "recv"
    /\ ctx[s] \/ ~connOpen \/ (~HasNext(s) /\ ended[s] = "err")
    /\ cause' = [cause EXCEPT ![s] = "error"]
    /\ pc' = [pc EXCEPT ![s] = "exit"]
    /\ UNCHANGED <<kind, rcvd, hand, lndVars, chanVars, readVars, ctx, svcVars>>

\* Recv returns an error: the server's, after the messages before it, or one
\* for a cancelled context or a closed connection, at any moment.
ReceiveError(s) ==
    /\ pc[s] = "recv"
    /\ \/ ctx[s]
       \/ ~connOpen
       \/ ~HasNext(s) /\ ended[s] = "err"
       \/ ~HasNext(s) /\ ended[s] = "eof" /\ ~Profile(s).eofCloses
    /\ cause' = [cause EXCEPT ![s] = "error"]
    /\ pc' = [pc EXCEPT ![s] = "report"]
    /\ UNCHANGED <<kind, rcvd, hand, lndVars, chanVars, readVars, ctx, svcVars>>

\* A faulty pump: it does not return after reporting an error.
AfterReportLoops(s) == pc' = [pc EXCEPT ![s] = "recv"]

\* What follows the send of an error: return, or, after a conversion error in
\* a method that does not return, the offer of the zero value.
AfterReport(s) ==
    pc' = [pc EXCEPT ![s] = IF cause[s] = "none" THEN "deliver" ELSE "exit"]

\* errChan <- err, into the buffer.
Report(s) ==
    /\ pc[s] = "report"
    /\ errs[s] < Profile(s).errCap
    /\ errs' = [errs EXCEPT ![s] = @ + 1]
    /\ AfterReport(s)
    /\ UNCHANGED <<kind, rcvd, hand, cause, lndVars, upd, closed, readVars,
                   ctx, svcVars>>

\* errChan <- err without a buffer: the caller is reading.
ReportHandover(s) ==
    /\ pc[s] = "report"
    /\ Profile(s).errCap = 0
    /\ errGot' = [errGot EXCEPT ![s] = @ + 1]
    /\ AfterReport(s)
    /\ UNCHANGED <<kind, rcvd, hand, cause, lndVars, chanVars, got, ctx,
                   svcVars>>

\* The ctx.Done case of a method that selects when it reports.
ReportCancelled(s) ==
    /\ pc[s] = "report"
    /\ Profile(s).errSelects
    /\ ctx[s]
    /\ AfterReport(s)
    /\ UNCHANGED <<kind, rcvd, hand, cause, lndVars, chanVars, readVars, ctx,
                   svcVars>>

\* What follows the send of an update: the next message, or the return after
\* the final one.
AfterDelivery(s) ==
    LET final == /\ Profile(s).finalCloses
                 /\ hand[s] # 0
                 /\ sent[s][hand[s]] = "final"
    IN  /\ pc' = [pc EXCEPT ![s] = IF final THEN "exit" ELSE "recv"]
        /\ cause' = [cause EXCEPT ![s] = IF final THEN "final" ELSE @]

\* updates <- update, into the buffer.
Deliver(s) ==
    /\ pc[s] = "deliver"
    /\ Len(upd[s]) < Profile(s).updCap
    /\ upd' = [upd EXCEPT ![s] = Append(@, hand[s])]
    /\ AfterDelivery(s)
    /\ UNCHANGED <<kind, rcvd, hand, lndVars, errs, closed, readVars, ctx,
                   svcVars>>

\* updates <- update without a buffer: the caller is reading.
DeliverHandover(s) ==
    /\ pc[s] = "deliver"
    /\ Profile(s).updCap = 0
    /\ got' = [got EXCEPT ![s] = Append(@, hand[s])]
    /\ AfterDelivery(s)
    /\ UNCHANGED <<kind, rcvd, hand, lndVars, chanVars, errGot, ctx, svcVars>>

\* A faulty select: no ctx.Done case.
DeliverCancelledMissing(s) == FALSE

\* A faulty select: its ctx.Done case reports the error but does not return.
DeliverCancelledLoops(s) ==
    /\ pc[s] = "deliver"
    /\ ctx[s]
    /\ pc' = [pc EXCEPT ![s] = "report"]
    /\ UNCHANGED <<kind, rcvd, hand, cause, lndVars, chanVars, readVars, ctx,
                   svcVars>>

\* The ctx.Done case of the select that offers an update.
DeliverCancelled(s) ==
    /\ pc[s] = "deliver"
    /\ ctx[s]
    /\ \/ /\ Profile(s).onCancel = "return"
          /\ pc' = [pc EXCEPT ![s] = "exit"]
          /\ cause' = [cause EXCEPT ![s] = "cancel"]
       \/ /\ Profile(s).onCancel = "report"
          /\ pc' = [pc EXCEPT ![s] = "report"]
          /\ cause' = [cause EXCEPT ![s] = "error"]
       \/ /\ Profile(s).onCancel = "receive"
          /\ pc' = [pc EXCEPT ![s] = "recv"]
          /\ UNCHANGED cause
    /\ UNCHANGED <<kind, rcvd, hand, lndVars, chanVars, readVars, ctx, svcVars>>

\* The channels the pump still has to close on its way out, and their order.
Unclosed(s) ==
    IF Profile(s).exitCloses \/ cause[s] \in {"eof", "final"}
        THEN {"upd", "err"} \ closed[s]
        ELSE {}

CloseOrder(s, ch) == ch = IF Profile(s).errFirst THEN "err" ELSE "upd"

CloseChan(s, ch) ==
    /\ pc[s] = "exit"
    /\ ch \in Unclosed(s)
    /\ closed[s] = {} => CloseOrder(s, ch)
    /\ closed' = [closed EXCEPT ![s] = @ \cup {ch}]
    /\ UNCHANGED <<kind, pumpVars, lndVars, upd, errs, readVars, ctx, svcVars>>

\* A faulty exit: wg.Done whether or not the pump was added.
FinishAlwaysDone(s) ==
    /\ pc[s] = "exit"
    /\ Unclosed(s) = {}
    /\ pc' = [pc EXCEPT ![s] = "done"]
    /\ wg' = [wg EXCEPT ![Profile(s).client] = @ - 1]
    /\ UNCHANGED <<kind, rcvd, hand, cause, lndVars, chanVars, readVars, ctx,
                   connOpen, closing, late>>

\* A faulty exit: no wg.Done.
FinishNeverDone(s) ==
    /\ pc[s] = "exit"
    /\ Unclosed(s) = {}
    /\ pc' = [pc EXCEPT ![s] = "done"]
    /\ UNCHANGED <<kind, rcvd, hand, cause, lndVars, chanVars, readVars, ctx,
                   svcVars>>

\* A faulty order of the deferred calls: wg.Done comes before the channels.
FinishDoneFirst(s) ==
    \/ /\ pc[s] = "exit"
       /\ pc' = [pc EXCEPT ![s] = "done"]
       /\ wg' = IF Profile(s).counted
                   THEN [wg EXCEPT ![Profile(s).client] = @ - 1]
                   ELSE wg
       /\ UNCHANGED <<kind, rcvd, hand, cause, lndVars, chanVars, readVars, ctx,
                      connOpen, closing, late>>
    \/ /\ pc[s] = "done"
       /\ \E ch \in Unclosed(s) : closed' = [closed EXCEPT ![s] = @ \cup {ch}]
       /\ UNCHANGED <<kind, pumpVars, lndVars, upd, errs, readVars, ctx, svcVars>>

\* The deferred wg.Done, the last thing a pump does.
Finish(s) ==
    /\ pc[s] = "exit"
    /\ Unclosed(s) = {}
    /\ pc' = [pc EXCEPT ![s] = "done"]
    /\ wg' = IF Profile(s).counted
                THEN [wg EXCEPT ![Profile(s).client] = @ - 1]
                ELSE wg
    /\ UNCHANGED <<kind, rcvd, hand, cause, lndVars, chanVars, readVars, ctx,
                   connOpen, closing, late>>

-----------------------------------------------------------------------------
(* The caller. *)

TakeUpdate(s) ==
    /\ upd[s] # <<>>
    /\ got' = [got EXCEPT ![s] = Append(@, Head(upd[s]))]
    /\ upd' = [upd EXCEPT ![s] = Tail(@)]
    /\ UNCHANGED <<kind, pumpVars, lndVars, errs, closed, errGot, ctx, svcVars>>

TakeError(s) ==
    /\ errs[s] > 0
    /\ errs' = [errs EXCEPT ![s] = @ - 1]
    /\ errGot' = [errGot EXCEPT ![s] = @ + 1]
    /\ UNCHANGED <<kind, pumpVars, lndVars, upd, closed, got, ctx, svcVars>>

Cancel(s) ==
    /\ pc[s] # "unused"
    /\ ~ctx[s]
    /\ ctx' = [ctx EXCEPT ![s] = TRUE]
    /\ UNCHANGED <<kind, pumpVars, lndVars, chanVars, readVars, svcVars>>

-----------------------------------------------------------------------------
(* LndServices.Close. *)

\* cleanupConn: the connection is closed before anything is waited for.
CloseConn ==
    /\ closing = 0
    /\ connOpen' = FALSE
    /\ closing' = 1
    /\ UNCHANGED <<kind, pumpVars, lndVars, chanVars, readVars, ctx, wg, late>>

\* A faulty cleanup: it goes on without waiting.
WaitForFinishedSkipped ==
    /\ closing \in DOMAIN WaitOrder
    /\ closing' = closing + 1
    /\ UNCHANGED <<kind, pumpVars, lndVars, chanVars, readVars, ctx, connOpen,
                   wg, late>>

\* WaitForFinished of the next client returns.
WaitForFinished ==
    /\ closing \in DOMAIN WaitOrder
    /\ wg[WaitOrder[closing]] = 0
    /\ closing' = closing + 1
    /\ UNCHANGED <<kind, pumpVars, lndVars, chanVars, readVars, ctx, connOpen,
                   wg, late>>

Closed == closing = Len(WaitOrder) + 1

-----------------------------------------------------------------------------

\* What the goroutine of s does on its own.
PumpStep(s) ==
    \/ ReceiveValue(s) \/ ReceiveBad(s) \/ ReceiveEOF(s) \/ ReceiveError(s)
    \/ Report(s) \/ ReportCancelled(s)
    \/ Deliver(s) \/ DeliverCancelled(s)
    \/ \E ch \in {"upd", "err"} : CloseChan(s, ch)
    \/ Finish(s)

\* What the caller does, and what takes both.
CallerStep(s) ==
    \/ OpenStream(s) \/ Launch(s)
    \/ ReportHandover(s) \/ DeliverHandover(s)
    \/ TakeUpdate(s) \/ TakeError(s) \/ Cancel(s)

LndStep(s) ==
    \/ \E class \in MessageClass(s) : LndSends(s, class)
    \/ \E how \in {"eof", "err"} : LndEnds(s, how)

Next ==
    \/ \E s \in Subs : PumpStep(s) \/ CallerStep(s) \/ LndStep(s)
    \/ CloseConn
    \/ WaitForFinished

Spec == Init /\ [][Next]_vars

\* Goroutines are scheduled; a method call that opened its stream goes on; a
\* WaitForFinished whose group is empty returns.  Callers promise nothing: they
\* need not read, cancel or close.  lnd promises nothing either.
Fairness ==
    /\ \A s \in Subs : WF_vars(PumpStep(s)) /\ WF_vars(Launch(s))
    /\ WF_vars(WaitForFinished)

FairSpec == Spec /\ Fairness

-----------------------------------------------------------------------------
(* Properties. *)

TypeOK ==
    /\ kind \in [Subs -> Kinds]
    /\ pc \in [Subs -> {"unused", "launch", "recv", "deliver", "report",
                        "exit", "done"}]
    /\ rcvd \in [Subs -> Nat]
    /\ hand \in [Subs -> Nat]
    /\ cause \in [Subs -> {"none", "eof", "final", "error", "cancel"}]
    /\ sent \in [Subs -> Seq({"value", "bad", "final"})]
    /\ ended \in [Subs -> {"no", "eof", "err"}]
    /\ upd \in [Subs -> Seq(Nat)]
    /\ errs \in [Subs -> Nat]
    /\ closed \in [Subs -> SUBSET {"upd", "err"}]
    /\ got \in [Subs -> Seq(Nat)]
    /\ errGot \in [Subs -> Nat]
    /\ ctx \in [Subs -> BOOLEAN]
    /\ connOpen \in BOOLEAN
    /\ closing \in 0 .. Len(WaitOrder) + 1
    /\ wg \in [Clients -> Nat]
    /\ late \in [Subs -> BOOLEAN]

\* The updates that have reached the update channel, read or not.
Passed(s) == got[s] \o upd[s]

\* An update channel carries what lnd sent: only messages that converted, in
\* the order lnd sent them, none twice; and as long as the caller has not
\* cancelled, none is missing either (the one in the pump's hand is next).
InOrderDelivery ==
    \A s \in Subs :
        LET p == Passed(s) IN
        /\ \A i \in DOMAIN p :
              /\ p[i] \in 1 .. rcvd[s]
              /\ sent[s][p[i]] # "bad"
              /\ \A j \in DOMAIN p : i < j => p[i] < p[j]
        /\ ~ctx[s] => \A n \in 1 .. rcvd[s] :
              \/ sent[s][n] = "bad"
              \/ \E i \in DOMAIN p : p[i] = n
              \/ pc[s] = "deliver" /\ hand[s] = n

\* A caller that did not cancel can tell how a subscription ended: when the
\* pump has closed a channel or is gone, either an error is in the error
\* channel or was read from it, or both channels are (being) closed and every
\* message lnd sent before its EOF, or the final state, is in the channel.
EndIsExplained ==
    \A s \in Subs :
        pc[s] = "done" \/ closed[s] # {} =>
            \/ ctx[s]
            \/ errs[s] + errGot[s] > 0
            \/ /\ pc[s] = "done" => closed[s] = {"upd", "err"}
               /\ \/ /\ ended[s] = "eof"
                     /\ Len(Passed(s)) = Len(sent[s])
                  \/ /\ Passed(s) # <<>>
                     /\ sent[s][Passed(s)[Len(Passed(s))]] = "final"

\* What the caller of s sees, as the abstract specification has it.
Promise(s) == INSTANCE SubscriptionPromise WITH
    sent <- sent[s],
    ended <- ended[s],
    cancelled <- ctx[s],
    lost <- ~connOpen,
    passed <- Passed(s),
    told <- errs[s] + errGot[s],
    shut <- closed[s]

\* Every pump is an implementation of what its caller is promised, whatever
\* goes on in its buffers, at Close and in the wait groups.
KeepsPromises ==
    /\ \A s \in Subs : Promise(s)!Init
    /\ [][\A s \in Subs : [Promise(s)!Next]_(Promise(s)!vars)]_vars

\* The buffered error channels are there so that a caller that does not read
\* errors cannot keep the pump from returning: the send finds room.
ErrorSendNeverBlocks ==
    \A s \in Subs :
        pc[s] = "report" /\ Profile(s).errCap > 0 => errs[s] < Profile(s).errCap

\* Once Close is past the WaitForFinished of a client, none of the goroutines
\* that the client's wait group was to cover is left, except one whose wg.Add
\* came after the wait.
WaitCoversPumps ==
    \A s \in Subs :
        Live(s) /\ Profile(s).counted /\ ~late[s] => ~Waited(Profile(s).client)

\* Once Close is past the WaitForFinished of a client, its subscriptions'
\* channels only drain: nothing more is sent on them, be it into a buffer or
\* straight to a reader, and none of them is closed.  What a caller finds in them
\* then is all there will ever be, which needs wg.Done to be the last of a
\* pump's deferred calls.
ChannelsOnlyDrain ==
    [][\A s \in Subs :
        Profile(s).counted /\ ~late[s] /\ Waited(Profile(s).client) =>
            \/ late'[s]
            \/ /\ Passed(s)' = Passed(s)
               /\ errs'[s] + errGot'[s] = errs[s] + errGot[s]
               /\ closed'[s] = closed[s]]_vars

\* The doc of Close: it "waits for all sub server clients to finish their
\* goroutines".  What the code gives is WaitCoversPumps.
CloseWaitsForAll == Closed => \A s \in Subs : ~Live(s)

\* Cancelling the context is enough to end a subscription, whether or not the
\* caller still reads its channels; and when lnd fails the stream of a method with
\* a buffered error channel and the caller has taken every update, the pump ends
\* without any further read.
PumpsEnd ==
    \A s \in Subs :
        /\ (ctx[s] /\ pc[s] # "unused") ~> (pc[s] = "done")
        /\ (/\ pc[s] = "recv" /\ ~HasNext(s)
            /\ ended[s] = "err" /\ Profile(s).errCap > 0) ~> (pc[s] = "done")

\* Close returns once every caller has cancelled its context, whatever they
\* have left unread.
CloseReturns ==
    (closing > 0 /\ \A s \in Subs : pc[s] # "unused" => ctx[s]) ~> Closed

=============================================================================
