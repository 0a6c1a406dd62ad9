------------------------- MODULE ChainNotifications -------------------------
(***************************************************************************)
(* RegisterConfirmationsNtfn and RegisterSpendNtfn: one registration with  *)
(* lnd's chain notifier, against the shutdown of the notifier client.      *)
(*                                                                         *)
(* Unlike the other subscriptions these have three channels: one for the   *)
(* confirmation or spend, one for errors (both made by the method, with    *)
(* room for one), and the caller's own ReOrgChan.  Without a ReOrgChan the *)
(* goroutine ends with the first confirmation or spend; with one it stays, *)
(* and reports re-organisations in between.                                *)
(***************************************************************************)
EXTENDS Naturals, Sequences, FiniteSets

CONSTANTS
    MaxEvents,  \* bound: events lnd sends
    ReorgCaps   \* the capacities the caller's ReOrgChan may have

ASSUME BoundsAssumption == MaxEvents \in Nat /\ ReorgCaps \subseteq Nat

\* They differ in what they do when the context is done while they send.
Methods == {"RegisterConfirmationsNtfn", "RegisterSpendNtfn"}

VARIABLES
    method,     \* the method called
    aware,      \* the caller passed a ReOrgChan
    cap,        \* its capacity
    pc,         \* the goroutine: unused, launch, recv, deliver, reorg, report,
                \*   exit, done
    events,     \* what lnd has sent: happened, reorg, bad
    ended,      \* lnd has ended the stream
    rcvd,       \* how many events the goroutine has received
    ntfns,      \* the notification channel's buffer: indices into events
    reorgs,     \* the caller's ReOrgChan's buffer: indices into events
    errs,       \* the error channel's buffer
    seen,       \* history: the events the caller has read, in its order
    errSeen,    \* history: the errors the caller has read
    ctx,        \* the caller's context is done
    connOpen,   \* the gRPC connection
    wg,         \* the notifier client's wait group
    waited      \* WaitForFinished has returned

lndVars    == <<events, ended>>
chanVars   == <<ntfns, reorgs, errs>>
callerVars == <<seen, errSeen, ctx>>
svcVars    == <<connOpen, wg, waited>>
callVars   == <<method, aware, cap>>
vars == <<callVars, pc, lndVars, rcvd, chanVars, callerVars, svcVars>>

Init ==
    /\ method \in Methods
    /\ aware \in BOOLEAN
    /\ cap \in ReorgCaps
    /\ pc = "unused"
    /\ events = <<>> /\ ended = FALSE /\ rcvd = 0
    /\ ntfns = <<>> /\ reorgs = <<>> /\ errs = 0
    /\ seen = <<>> /\ errSeen = 0 /\ ctx = FALSE
    /\ connOpen = TRUE /\ wg = 0 /\ waited = FALSE

GoTo(next) == pc' = next /\ UNCHANGED callVars

-----------------------------------------------------------------------------
(* The call. *)

Open ==
    /\ pc = "unused"
    /\ connOpen /\ ~ctx
    /\ GoTo("launch")
    /\ UNCHANGED <<lndVars, rcvd, chanVars, callerVars, svcVars>>

Launch ==
    /\ pc = "launch"
    /\ wg' = wg + 1
    /\ GoTo("recv")
    /\ UNCHANGED <<lndVars, rcvd, chanVars, callerVars, connOpen, waited>>

-----------------------------------------------------------------------------
(* The goroutine. *)

\* Recv returns an event.
Receive ==
    /\ pc = "recv"
    /\ rcvd < Len(events)
    /\ rcvd' = rcvd + 1
    /\ LET event == events[rcvd + 1] IN
          \/ event = "happened" /\ GoTo("deliver")
          \/ event = "bad" /\ GoTo("report")
          \/ event = "reorg" /\ GoTo(IF aware THEN "reorg" ELSE "recv")
    /\ UNCHANGED <<lndVars, chanVars, callerVars, svcVars>>

\* Recv returns an error; io.EOF is one too.
ReceiveError ==
    /\ pc = "recv"
    /\ ctx \/ ~connOpen \/ (rcvd = Len(events) /\ ended)
    /\ GoTo("report")
    /\ UNCHANGED <<lndVars, rcvd, chanVars, callerVars, svcVars>>

\* A faulty delivery: it returns although there is a ReOrgChan.
DeliverOnce ==
    /\ pc = "deliver"
    /\ ntfns = <<>>
    /\ ntfns' = <<rcvd>>
    /\ GoTo("exit")
    /\ UNCHANGED <<lndVars, rcvd, reorgs, errs, callerVars, svcVars>>

\* A faulty channel: room for two notifications.
DeliverDeep ==
    /\ pc = "deliver"
    /\ Len(ntfns) < 2
    /\ ntfns' = Append(ntfns, rcvd)
    /\ GoTo(IF aware THEN "recv" ELSE "exit")
    /\ UNCHANGED <<lndVars, rcvd, reorgs, errs, callerVars, svcVars>>

\* confChan <- conf, spendChan <- spend; without a ReOrgChan, return.
Deliver ==
    /\ pc = "deliver"
    /\ ntfns = <<>>
    /\ ntfns' = <<rcvd>>
    /\ GoTo(IF aware THEN "recv" ELSE "exit")
    /\ UNCHANGED <<lndVars, rcvd, reorgs, errs, callerVars, svcVars>>

\* A faulty select: no ctx.Done case.
DeliverCancelledMissing == FALSE

\* The ctx.Done case: a confirmation returns, a spend reports ctx.Err first.
DeliverCancelled ==
    /\ pc = "deliver"
    /\ ctx
    /\ GoTo(IF method = "RegisterSpendNtfn" THEN "report" ELSE "exit")
    /\ UNCHANGED <<lndVars, rcvd, chanVars, callerVars, svcVars>>

\* A faulty signal: a default case drops it when the caller is not reading.
SignalReorgOrDrop ==
    /\ pc = "reorg"
    /\ \/ Len(reorgs) < cap /\ reorgs' = Append(reorgs, rcvd)
       \/ Len(reorgs) = cap /\ UNCHANGED reorgs
    /\ GoTo("recv")
    /\ UNCHANGED <<lndVars, rcvd, ntfns, errs, callerVars, svcVars>>

\* opts.ReOrgChan <- struct{}{}, into the buffer.
SignalReorg ==
    /\ pc = "reorg"
    /\ Len(reorgs) < cap
    /\ reorgs' = Append(reorgs, rcvd)
    /\ GoTo("recv")
    /\ UNCHANGED <<lndVars, rcvd, ntfns, errs, callerVars, svcVars>>

\* opts.ReOrgChan <- struct{}{} without a buffer: the caller is reading.
SignalReorgHandover ==
    /\ pc = "reorg"
    /\ cap = 0
    /\ seen' = Append(seen, rcvd)
    /\ GoTo("recv")
    /\ UNCHANGED <<lndVars, rcvd, chanVars, errSeen, ctx, svcVars>>

\* The ctx.Done case: a confirmation returns, a spend receives again.
ReorgCancelled ==
    /\ pc = "reorg"
    /\ ctx
    /\ GoTo(IF method = "RegisterSpendNtfn" THEN "recv" ELSE "exit")
    /\ UNCHANGED <<lndVars, rcvd, chanVars, callerVars, svcVars>>

\* A faulty report: the error is not sent.
ReportSilently ==
    /\ pc = "report"
    /\ GoTo("exit")
    /\ UNCHANGED <<lndVars, rcvd, chanVars, callerVars, svcVars>>

\* errChan <- err
Report ==
    /\ pc = "report"
    /\ errs < 1
    /\ errs' = errs + 1
    /\ GoTo("exit")
    /\ UNCHANGED <<lndVars, rcvd, ntfns, reorgs, callerVars, svcVars>>

\* defer s.wg.Done()
Finish ==
    /\ pc = "exit"
    /\ wg' = wg - 1
    /\ GoTo("done")
    /\ UNCHANGED <<lndVars, rcvd, chanVars, callerVars, connOpen, waited>>

-----------------------------------------------------------------------------
(* lnd (external): a transaction confirms or is spent, and may be          *)
(* re-organised out, in turns.                                             *)

\* The last event that was not malformed is a confirmation or spend.
Happened ==
    \E n \in DOMAIN events :
        /\ events[n] = "happened"
        /\ \A m \in n + 1 .. Len(events) : events[m] = "bad"

LndSends(event) ==
    /\ pc # "unused" /\ connOpen /\ ~ctx /\ ~ended
    /\ Len(events) < MaxEvents
    /\ event # "bad" => (event = "reorg") = Happened
    /\ events' = Append(events, event)
    /\ UNCHANGED <<callVars, pc, ended, rcvd, chanVars, callerVars, svcVars>>

LndEnds ==
    /\ pc # "unused" /\ ~ended
    /\ ended' = TRUE
    /\ UNCHANGED <<callVars, pc, events, rcvd, chanVars, callerVars, svcVars>>

-----------------------------------------------------------------------------
(* The caller (external) and Close. *)

TakeNotification ==
    /\ ntfns # <<>>
    /\ seen' = Append(seen, Head(ntfns))
    /\ ntfns' = Tail(ntfns)
    /\ UNCHANGED <<callVars, pc, lndVars, rcvd, reorgs, errs, errSeen, ctx,
                   svcVars>>

TakeReorg ==
    /\ reorgs # <<>>
    /\ seen' = Append(seen, Head(reorgs))
    /\ reorgs' = Tail(reorgs)
    /\ UNCHANGED <<callVars, pc, lndVars, rcvd, ntfns, errs, errSeen, ctx,
                   svcVars>>

TakeError ==
    /\ errs > 0
    /\ errs' = errs - 1
    /\ errSeen' = errSeen + 1
    /\ UNCHANGED <<callVars, pc, lndVars, rcvd, ntfns, reorgs, seen, ctx,
                   svcVars>>

Cancel ==
    /\ ~ctx
    /\ ctx' = TRUE
    /\ UNCHANGED <<callVars, pc, lndVars, rcvd, chanVars, seen, errSeen,
                   svcVars>>

CloseConn ==
    /\ connOpen
    /\ connOpen' = FALSE
    /\ UNCHANGED <<callVars, pc, lndVars, rcvd, chanVars, callerVars, wg,
                   waited>>

\* s.wg.Wait()
WaitForFinished ==
    /\ ~connOpen /\ ~waited
    /\ wg = 0
    /\ waited' = TRUE
    /\ UNCHANGED <<callVars, pc, lndVars, rcvd, chanVars, callerVars,
                   connOpen, wg>>

-----------------------------------------------------------------------------

PumpStep ==
    \/ Receive \/ ReceiveError
    \/ Deliver \/ DeliverCancelled
    \/ SignalReorg \/ ReorgCancelled
    \/ Report \/ Finish

CallerReads == TakeNotification \/ TakeReorg \/ SignalReorgHandover \/ TakeError

Next ==
    \/ Open \/ Launch \/ PumpStep
    \/ CallerReads \/ Cancel
    \/ \E event \in {"happened", "reorg", "bad"} : LndSends(event)
    \/ LndEnds
    \/ CloseConn \/ WaitForFinished

Spec == Init /\ [][Next]_vars

\* The goroutine and a WaitForFinished that can return are scheduled; the caller
\* reads its channels, in whatever order, until it cancels, and no longer.
FairSpec ==
    /\ Spec
    /\ WF_vars(Launch) /\ WF_vars(PumpStep) /\ WF_vars(WaitForFinished)
    /\ WF_vars(~ctx /\ TakeNotification)
    /\ WF_vars(~ctx /\ (TakeReorg \/ SignalReorgHandover))

-----------------------------------------------------------------------------
(* Properties. *)

TypeOK ==
    /\ method \in Methods
    /\ aware \in BOOLEAN
    /\ cap \in ReorgCaps
    /\ pc \in {"unused", "launch", "recv", "deliver", "reorg", "report", "exit",
               "done"}
    /\ events \in Seq({"happened", "reorg", "bad"})
    /\ rcvd \in 0 .. Len(events)
    /\ ntfns \in Seq(1 .. rcvd) /\ Len(ntfns) <= 1
    /\ reorgs \in Seq(1 .. rcvd) /\ Len(reorgs) <= cap
    /\ seen \in Seq(1 .. rcvd)
    /\ errs \in 0 .. 1 /\ errSeen \in 0 .. 1 /\ wg \in 0 .. 1
    /\ ended \in BOOLEAN /\ ctx \in BOOLEAN
    /\ connOpen \in BOOLEAN /\ waited \in BOOLEAN

\* The goroutine has put the n-th event into the caller's channel.
Sent(n) ==
    \/ \E i \in DOMAIN seen : seen[i] = n
    \/ \E i \in DOMAIN ntfns : ntfns[i] = n
    \/ \E i \in DOMAIN reorgs : reorgs[i] = n

\* A channel carries its events in lnd's order, none twice: the caller's reads
\* first, then the buffer.
Ordered(kind, buffer) ==
    /\ \A i, j \in DOMAIN seen :
          i < j /\ events[seen[i]] = kind /\ events[seen[j]] = kind
              => seen[i] < seen[j]
    /\ \A j \in DOMAIN buffer :
          /\ events[buffer[j]] = kind
          /\ \A i \in DOMAIN buffer : i < j => buffer[i] < buffer[j]
          /\ \A i \in DOMAIN seen : events[seen[i]] = kind => seen[i] < buffer[j]

\* A cancelled spend registration goes on receiving after it has given up a
\* re-organisation, so it may deliver later spends all the same.
SkipsReorgs == ctx /\ method = "RegisterSpendNtfn"

\* Each channel carries every event of its kind once and in lnd's order, except
\* the one in the goroutine's hand, or the one it had in hand when the caller
\* cancelled.
NothingLost ==
    /\ Ordered("happened", ntfns) /\ Ordered("reorg", reorgs)
    /\ \A n \in 1 .. rcvd :
          \/ Sent(n)
          \/ events[n] = "bad"
          \/ events[n] = "reorg" /\ (~aware \/ SkipsReorgs)
          \/ n = rcvd /\ (ctx \/ pc = IF events[n] = "reorg" THEN "reorg" ELSE "deliver")

\* The events before the i-th one the caller read that it had not read by then.
Overtaken(i, kind) ==
    {n \in 1 .. seen[i] : events[n] = kind /\ \A j \in 1 .. i : seen[j] # n}

\* Confirmations and re-organisations travel on two channels, so the caller may
\* read them out of lnd's order, but not far: a re-organisation overtakes at
\* most the one notification the buffer holds, and a notification overtakes at
\* most the re-organisations the caller's own buffer holds, with an unbuffered
\* ReOrgChan none.
OvertakingIsBounded ==
    \A i \in DOMAIN seen :
        IF events[seen[i]] = "reorg"
            THEN Cardinality(Overtaken(i, "happened")) <= 1
            ELSE aware /\ ~SkipsReorgs
                     => Cardinality(Overtaken(i, "reorg")) <= cap

\* "we don't cancel the notification listener after having received one
\* confirmation event": with a ReOrgChan the goroutine ends only after the
\* caller's cancel or with an error; without one it ends so too, or after
\* exactly one notification.
EndHasAReason ==
    pc \in {"exit", "done"} =>
        \/ ctx
        \/ errs + errSeen = 1
        \/ ~aware /\ Len(seen) + Len(ntfns) = 1

\* ReOrgChan "will be sent on if the transaction is re-organized out of the
\* chain": a caller that keeps reading hears of every re-organisation lnd
\* reported, unless it cancels, the services are closed or an earlier event
\* was malformed.
ReorgIsSignalled ==
    \A n \in 1 .. MaxEvents :
        (aware /\ n \in DOMAIN events /\ events[n] = "reorg") ~>
            \/ \E i \in DOMAIN seen : seen[i] = n
            \/ ctx \/ ~connOpen
            \/ \E m \in DOMAIN events : m < n /\ events[m] = "bad"

\* Once the caller has cancelled, Close gets past the notifier client, whatever
\* the caller has left unread on its channels.
CloseReturns == (ctx /\ ~connOpen) ~> waited

=============================================================================
