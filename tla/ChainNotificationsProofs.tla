----------------------- MODULE ChainNotificationsProofs -----------------------
(* Theorems about ChainNotifications and their proofs. *)
EXTENDS ChainNotifications, FiniteSetTheorems, SequenceTheorems, TLAPS

USE BoundsAssumption

-----------------------------------------------------------------------------
(***************************************************************************)
(* The inductive invariant.                                                *)
(***************************************************************************)

\* What the goroutine has in its hand at each point, and that it reports one error at
\* most, as its last act.
Phase ==
    /\ pc = "unused" => rcvd = 0
    /\ pc = "deliver" => rcvd > 0 /\ events[rcvd] = "happened"
    /\ pc = "reorg" => rcvd > 0 /\ events[rcvd] = "reorg" /\ aware
    /\ pc \notin {"exit", "done"} => errs = 0 /\ errSeen = 0
    /\ errs + errSeen <= 1
    /\ wg = IF pc \in {"unused", "launch", "done"} THEN 0 ELSE 1

\* Without a ReOrgChan nothing is ever sent on one, and the first confirmation or spend
\* ends the goroutine.
Unaware ==
    ~aware =>
        /\ reorgs = <<>>
        /\ pc \notin {"exit", "done"} => seen = <<>> /\ ntfns = <<>>

\* What the goroutine has in its hand it has not sent yet.
InHand == pc \in {"deliver", "reorg"} => ~Sent(rcvd)

\* The one event a cancel makes the goroutine give up is the last it receives.
Complete ==
    \A n \in 1 .. rcvd :
        \/ Sent(n)
        \/ events[n] = "bad"
        \/ events[n] = "reorg" /\ (~aware \/ SkipsReorgs)
        \/ /\ n = rcvd
           /\ \/ pc \in {"deliver", "reorg"}
              \/ ctx /\ pc \in {"report", "exit", "done"}

InOrder == Ordered("happened", ntfns) /\ Ordered("reorg", reorgs)

Inv ==
    /\ TypeOK /\ Phase /\ Unaware /\ InHand /\ Complete /\ InOrder
    /\ OvertakingIsBounded /\ EndHasAReason

-----------------------------------------------------------------------------
(***************************************************************************)
(* Types and phases.                                                       *)
(***************************************************************************)

\* What has been received, and so what has been sent, is among what lnd has sent.
LEMMA Indices ==
    ASSUME TypeOK
    PROVE  /\ rcvd \in Nat /\ DOMAIN events = 1 .. Len(events) /\ Len(events) \in Nat
           /\ rcvd <= Len(events)
           /\ \A i \in DOMAIN seen : seen[i] \in 1 .. rcvd
           /\ \A i \in DOMAIN ntfns : ntfns[i] \in 1 .. rcvd
           /\ \A i \in DOMAIN reorgs : reorgs[i] \in 1 .. rcvd
<1>1. /\ events \in Seq({"happened", "reorg", "bad"}) /\ rcvd \in 0 .. Len(events)
      /\ seen \in Seq(1 .. rcvd) /\ ntfns \in Seq(1 .. rcvd)
      /\ reorgs \in Seq(1 .. rcvd)
  BY DEF TypeOK
<1>2. Len(events) \in Nat /\ DOMAIN events = 1 .. Len(events)
  BY <1>1, LenProperties
<1>3. /\ \A i \in DOMAIN seen : seen[i] \in 1 .. rcvd
      /\ \A i \in DOMAIN ntfns : ntfns[i] \in 1 .. rcvd
      /\ \A i \in DOMAIN reorgs : reorgs[i] \in 1 .. rcvd
  BY <1>1
<1>4. QED
  BY <1>1, <1>2, <1>3

\* Every step keeps the types.
LEMMA StepTypes ==
    ASSUME TypeOK, Phase, Next
    PROVE  TypeOK'
<1> USE DEF lndVars, chanVars, callerVars, svcVars, callVars
<1>0. cap \in Nat /\ rcvd \in Nat
  BY DEF TypeOK
<1>1. CASE Open \/ Launch \/ Finish
  BY <1>1 DEF Open, Launch, Finish, GoTo, TypeOK, Phase
<1>2. CASE Receive
  <2>1. /\ rcvd' = rcvd + 1 /\ rcvd' \in 0 .. Len(events)
        /\ pc' \in {"deliver", "report", "reorg", "recv"}
        /\ UNCHANGED <<method, aware, cap, lndVars, chanVars, callerVars, svcVars>>
    BY <1>2 DEF Receive, GoTo, TypeOK
  <2>2. 1 .. rcvd \subseteq 1 .. rcvd'
    BY <1>0, <2>1
  <2>3. /\ ntfns \in Seq(1 .. rcvd') /\ reorgs \in Seq(1 .. rcvd')
        /\ seen \in Seq(1 .. rcvd')
    BY <2>2, SeqMonotonic DEF TypeOK
  <2>4. QED
    BY <2>1, <2>3 DEF TypeOK
<1>3. CASE ReceiveError \/ DeliverCancelled \/ ReorgCancelled
  BY <1>3 DEF ReceiveError, DeliverCancelled, ReorgCancelled, GoTo, TypeOK
<1>4. CASE Deliver
  <2>1. rcvd \in 1 .. rcvd /\ ntfns' = <<rcvd>> /\ pc' \in {"recv", "exit"}
    BY <1>0, <1>4 DEF Deliver, GoTo, Phase
  <2>2. ntfns' \in Seq(1 .. rcvd) /\ Len(ntfns') <= 1
    BY <2>1
  <2>3. QED
    BY <1>4, <2>1, <2>2 DEF Deliver, GoTo, TypeOK
<1>5. CASE SignalReorg
  <2>1. rcvd \in 1 .. rcvd /\ reorgs' = Append(reorgs, rcvd) /\ Len(reorgs) < cap
    BY <1>0, <1>5 DEF SignalReorg, Phase
  <2>2. reorgs' \in Seq(1 .. rcvd) /\ Len(reorgs') <= cap
    BY <1>0, <2>1 DEF TypeOK
  <2>3. QED
    BY <1>5, <2>2 DEF SignalReorg, GoTo, TypeOK
<1>6. CASE SignalReorgHandover
  <2>1. rcvd \in 1 .. rcvd /\ seen' = Append(seen, rcvd)
    BY <1>0, <1>6 DEF SignalReorgHandover, Phase
  <2>2. seen' \in Seq(1 .. rcvd)
    BY <2>1 DEF TypeOK
  <2>3. QED
    BY <1>6, <2>2 DEF SignalReorgHandover, GoTo, TypeOK
<1>7. CASE Report \/ TakeError
  <2>1. errs \in 0 .. 1 /\ errSeen \in 0 .. 1 /\ errs + errSeen <= 1
    BY DEF TypeOK, Phase
  <2>2. errs' \in 0 .. 1 /\ errSeen' \in 0 .. 1
    BY <1>7, <2>1 DEF Report, TakeError
  <2>3. QED
    BY <1>7, <2>2 DEF Report, TakeError, GoTo, TypeOK
<1>8. CASE TakeNotification
  <2>1. /\ seen' \in Seq(1 .. rcvd) /\ ntfns' \in Seq(1 .. rcvd)
        /\ Len(ntfns') <= 1
    BY <1>8 DEF TakeNotification, TypeOK
  <2>2. QED
    BY <1>8, <2>1 DEF TakeNotification, TypeOK
<1>9. CASE TakeReorg
  <2>1. /\ seen' \in Seq(1 .. rcvd) /\ reorgs' \in Seq(1 .. rcvd)
        /\ Len(reorgs') <= cap
    BY <1>0, <1>9 DEF TakeReorg, TypeOK
  <2>2. QED
    BY <1>9, <2>1 DEF TakeReorg, TypeOK
<1>10. ASSUME NEW event \in {"happened", "reorg", "bad"}, LndSends(event)
       PROVE  TypeOK'
  <2>1. /\ events' \in Seq({"happened", "reorg", "bad"})
        /\ rcvd \in 0 .. Len(events')
    BY <1>10 DEF LndSends, TypeOK
  <2>2. QED
    BY <1>10, <2>1 DEF LndSends, TypeOK
<1>11. CASE LndEnds \/ Cancel
  BY <1>11 DEF LndEnds, Cancel, TypeOK
<1>12. CASE CloseConn \/ WaitForFinished
  BY <1>12 DEF CloseConn, WaitForFinished, TypeOK
<1>13. QED
  BY <1>1, <1>2, <1>3, <1>4, <1>5, <1>6, <1>7, <1>8, <1>9, <1>10, <1>11, <1>12
     DEF Next, PumpStep, CallerReads

\* Every step keeps what is said of each phase of the goroutine.
LEMMA StepPhase ==
    ASSUME TypeOK, Phase, Next
    PROVE  Phase'
<1> USE DEF lndVars, chanVars, callerVars, svcVars, callVars
<1>0. rcvd \in 0 .. Len(events) /\ errs \in 0 .. 1 /\ errSeen \in 0 .. 1
  BY DEF TypeOK
<1>1. CASE Open \/ Launch \/ Finish
  BY <1>0, <1>1 DEF Open, Launch, Finish, GoTo, Phase
<1>2. CASE Receive
  BY <1>0, <1>2 DEF Receive, GoTo, Phase
<1>3. CASE ReceiveError \/ DeliverCancelled \/ ReorgCancelled
  BY <1>0, <1>3 DEF ReceiveError, DeliverCancelled, ReorgCancelled, GoTo, Phase
<1>4. CASE Deliver \/ SignalReorg \/ SignalReorgHandover
  BY <1>0, <1>4 DEF Deliver, SignalReorg, SignalReorgHandover, GoTo, Phase
<1>5. CASE Report \/ TakeError
  BY <1>0, <1>5 DEF Report, TakeError, GoTo, Phase
<1>6. ASSUME NEW event \in {"happened", "reorg", "bad"}, LndSends(event)
      PROVE  Phase'
  <2>1. rcvd > 0 => events'[rcvd] = events[rcvd]
    BY <1>0, <1>6 DEF LndSends, TypeOK
  <2>2. UNCHANGED <<pc, rcvd, aware, errs, errSeen, wg>>
    BY <1>6 DEF LndSends
  <2>3. QED
    BY <2>1, <2>2 DEF Phase
<1>7. CASE TakeNotification \/ TakeReorg \/ LndEnds \/ Cancel \/ CloseConn
             \/ WaitForFinished
  BY <1>7 DEF TakeNotification, TakeReorg, LndEnds, Cancel, CloseConn,
     WaitForFinished, Phase
<1>8. QED
  BY <1>1, <1>2, <1>3, <1>4, <1>5, <1>6, <1>7 DEF Next, PumpStep, CallerReads

\* A caller without a reorg channel is sent no re-organisation, and one
\* notification as the last thing the goroutine sends.
LEMMA StepUnaware ==
    ASSUME TypeOK, Phase, Unaware, Next
    PROVE  Unaware'
<1> USE DEF lndVars, chanVars, callerVars, svcVars, callVars
<1>0. SUFFICES ASSUME ~aware', aware' = aware
               PROVE  Unaware'
  <2>1. aware' = aware
    BY DEF Next, PumpStep, CallerReads, Open, Launch, Receive, ReceiveError, Deliver,
       DeliverCancelled, SignalReorg, ReorgCancelled, Report, Finish, TakeNotification,
       TakeReorg, SignalReorgHandover, TakeError, Cancel, LndSends, LndEnds, CloseConn,
       WaitForFinished, GoTo
  <2>2. QED
    BY <2>1 DEF Unaware
<1>1. reorgs = <<>> /\ pc # "reorg"
      /\ (pc \notin {"exit", "done"} => seen = <<>> /\ ntfns = <<>>)
  BY <1>0 DEF Unaware, Phase
<1>2. CASE Open \/ Launch \/ Finish \/ Receive \/ ReceiveError \/ DeliverCancelled
             \/ Report \/ ReorgCancelled \/ TakeError \/ LndEnds \/ Cancel
             \/ CloseConn \/ WaitForFinished
  BY <1>1, <1>2 DEF Unaware, Open, Launch, Finish, Receive, ReceiveError,
     DeliverCancelled, Report, ReorgCancelled, TakeError, LndEnds, Cancel, CloseConn,
     WaitForFinished, GoTo
<1>3. CASE Deliver \/ TakeNotification
  BY <1>0, <1>1, <1>3 DEF Unaware, Deliver, TakeNotification, GoTo
<1>4. CASE SignalReorg \/ SignalReorgHandover \/ TakeReorg
  BY <1>1, <1>4 DEF SignalReorg, SignalReorgHandover, TakeReorg
<1>5. CASE \E event \in {"happened", "reorg", "bad"} : LndSends(event)
  BY <1>1, <1>5 DEF Unaware, LndSends
<1>6. QED
  BY <1>2, <1>3, <1>4, <1>5 DEF Next, PumpStep, CallerReads

-----------------------------------------------------------------------------
(***************************************************************************)
(* The order on a channel.                                                 *)
(***************************************************************************)

\* Ordered, of given events and given reads.
OrderedIn(evs, read, kind, buffer) ==
    /\ \A i, j \in DOMAIN read :
          i < j /\ evs[read[i]] = kind /\ evs[read[j]] = kind => read[i] < read[j]
    /\ \A j \in DOMAIN buffer :
          /\ evs[buffer[j]] = kind
          /\ \A i \in DOMAIN buffer : i < j => buffer[i] < buffer[j]
          /\ \A i \in DOMAIN read : evs[read[i]] = kind => read[i] < buffer[j]

\* Sending the latest event.
LEMMA SendKeepsOrder ==
    ASSUME NEW n \in Nat \ {0}, NEW evs, NEW kind, evs[n] = kind,
           NEW read \in Seq(1 .. n), \A i \in DOMAIN read : read[i] # n,
           NEW buffer \in Seq(1 .. n), \A i \in DOMAIN buffer : buffer[i] # n,
           OrderedIn(evs, read, kind, buffer)
    PROVE  OrderedIn(evs, read, kind, Append(buffer, n))
<1> DEFINE longer == Append(buffer, n)
<1>1. /\ DOMAIN longer = 1 .. Len(buffer) + 1 /\ DOMAIN buffer = 1 .. Len(buffer)
      /\ Len(buffer) \in Nat
      /\ \A i \in 1 .. Len(buffer) : longer[i] = buffer[i] /\ longer[i] < n
      /\ longer[Len(buffer) + 1] = n
  BY AppendProperties
<1>2. \A i \in DOMAIN read : read[i] < n
  OBVIOUS
<1>3. ASSUME NEW j \in DOMAIN longer
      PROVE  /\ evs[longer[j]] = kind
             /\ \A i \in DOMAIN longer : i < j => longer[i] < longer[j]
             /\ \A i \in DOMAIN read : evs[read[i]] = kind => read[i] < longer[j]
  <2>1. CASE j = Len(buffer) + 1
    BY <1>1, <1>2, <2>1
  <2>2. CASE j \in 1 .. Len(buffer)
    BY <1>1, <2>2 DEF OrderedIn
  <2>3. QED
    BY <1>1, <2>1, <2>2
<1>4. QED
  BY <1>3 DEF OrderedIn

\* The caller reads the channel.
LEMMA TakeKeepsOrder ==
    ASSUME NEW n \in Nat, NEW evs, NEW kind,
           NEW read \in Seq(1 .. n),
           NEW buffer \in Seq(1 .. n), buffer # <<>>,
           OrderedIn(evs, read, kind, buffer)
    PROVE  OrderedIn(evs, Append(read, Head(buffer)), kind, Tail(buffer))
<1> DEFINE e == Head(buffer)
           longer == Append(read, e)
           rest == Tail(buffer)
<1>1. /\ DOMAIN longer = 1 .. Len(read) + 1 /\ DOMAIN read = 1 .. Len(read)
      /\ Len(read) \in Nat
      /\ \A i \in 1 .. Len(read) : longer[i] = read[i]
      /\ longer[Len(read) + 1] = e
  BY HeadTailProperties, AppendProperties
<1>2. /\ DOMAIN buffer = 1 .. Len(buffer) /\ Len(buffer) \in Nat \ {0}
      /\ DOMAIN rest = 1 .. Len(buffer) - 1 /\ e = buffer[1]
      /\ \A j \in 1 .. Len(buffer) - 1 : rest[j] = buffer[j + 1]
  BY HeadTailProperties, EmptySeq, LenProperties
<1>3. ASSUME NEW i \in DOMAIN longer, NEW j \in DOMAIN longer, i < j,
             evs[longer[i]] = kind, evs[longer[j]] = kind
      PROVE  longer[i] < longer[j]
  <2>1. i \in 1 .. Len(read) /\ longer[i] = read[i]
    BY <1>1, <1>3
  <2>2. CASE j \in 1 .. Len(read)
    BY <1>1, <1>3, <2>1, <2>2 DEF OrderedIn
  <2>3. CASE j = Len(read) + 1
    BY SMTT(30), <1>1, <1>2, <1>3, <2>1, <2>3 DEF OrderedIn
  <2>4. QED
    BY <1>1, <2>2, <2>3
<1>4. ASSUME NEW j \in DOMAIN rest
      PROVE  /\ evs[rest[j]] = kind
             /\ \A i \in DOMAIN rest : i < j => rest[i] < rest[j]
             /\ \A i \in DOMAIN longer : evs[longer[i]] = kind => longer[i] < rest[j]
  <2>1. j + 1 \in DOMAIN buffer /\ rest[j] = buffer[j + 1] /\ 1 \in DOMAIN buffer
        /\ 1 < j + 1
    BY <1>2
  <2>2. evs[rest[j]] = kind
    BY <2>1 DEF OrderedIn
  <2>3. ASSUME NEW i \in DOMAIN rest, i < j PROVE rest[i] < rest[j]
    BY SMTT(30), <1>2, <2>1, <2>3 DEF OrderedIn
  <2>4. ASSUME NEW i \in DOMAIN longer, evs[longer[i]] = kind
        PROVE  longer[i] < rest[j]
    <3>1. CASE i \in 1 .. Len(read)
      BY <1>1, <2>1, <2>4, <3>1 DEF OrderedIn
    <3>2. CASE i = Len(read) + 1
      BY <1>1, <1>2, <2>1, <3>2 DEF OrderedIn
    <3>3. QED
      BY <1>1, <3>1, <3>2
  <2>5. QED
    BY <2>2, <2>3, <2>4
<1>5. QED
  BY <1>3, <1>4 DEF OrderedIn

\* The caller reads the other channel.
LEMMA OtherKeepsOrder ==
    ASSUME NEW n \in Nat, NEW evs, NEW kind, NEW e \in 1 .. n, evs[e] # kind,
           NEW read \in Seq(1 .. n), NEW buffer,
           OrderedIn(evs, read, kind, buffer)
    PROVE  OrderedIn(evs, Append(read, e), kind, buffer)
<1> DEFINE longer == Append(read, e)
<1>1. /\ DOMAIN longer = 1 .. Len(read) + 1 /\ DOMAIN read = 1 .. Len(read)
      /\ Len(read) \in Nat
      /\ \A i \in 1 .. Len(read) : longer[i] = read[i]
      /\ longer[Len(read) + 1] = e
  BY AppendProperties
<1>2. \A i \in DOMAIN longer :
          evs[longer[i]] = kind => i \in DOMAIN read /\ longer[i] = read[i]
  BY <1>1
<1>3. QED
  BY <1>2 DEF OrderedIn

\* A step that leaves the channels and the caller's reads alone.
Quiet == UNCHANGED <<events, seen, ntfns, reorgs>>

\* These steps put nothing into a channel and take nothing from one.
LEMMA QuietSteps ==
    ASSUME Open \/ Launch \/ Finish \/ Receive \/ ReceiveError \/ DeliverCancelled
           \/ ReorgCancelled \/ Report \/ TakeError \/ LndEnds \/ Cancel \/ CloseConn
           \/ WaitForFinished
    PROVE  Quiet
BY DEF Quiet, Open, Launch, Finish, Receive, ReceiveError, DeliverCancelled,
   ReorgCancelled, Report, TakeError, LndEnds, Cancel, CloseConn, WaitForFinished,
   lndVars, chanVars, callerVars

\* lnd's next event leaves the earlier ones as they are.
LEMMA LndOnlyAppends ==
    ASSUME TypeOK, NEW event \in {"happened", "reorg", "bad"}, LndSends(event)
    PROVE  /\ \A n \in 1 .. rcvd : events'[n] = events[n]
           /\ UNCHANGED <<method, aware, cap, pc, rcvd, seen, ntfns, reorgs, ctx>>
<1>1. /\ events \in Seq({"happened", "reorg", "bad"})
      /\ events' = Append(events, event) /\ rcvd \in 0 .. Len(events)
  BY DEF LndSends, TypeOK
<1>2. \A n \in 1 .. Len(events) : events'[n] = events[n]
  BY <1>1, AppendProperties
<1>3. QED
  BY <1>1, <1>2 DEF LndSends, callVars, chanVars, callerVars

\* Each channel has its notifications in the order of lnd after every step.
LEMMA StepOrder ==
    ASSUME TypeOK, Phase, InHand, InOrder, Next
    PROVE  InOrder'
<1> USE DEF lndVars, chanVars, callerVars, svcVars, callVars
<1>0. /\ OrderedIn(events, seen, "happened", ntfns)
      /\ OrderedIn(events, seen, "reorg", reorgs)
  BY DEF InOrder, Ordered, OrderedIn
<1>1. SUFFICES /\ OrderedIn(events', seen', "happened", ntfns')
               /\ OrderedIn(events', seen', "reorg", reorgs')
  BY DEF InOrder, Ordered, OrderedIn
<1>2. /\ seen \in Seq(1 .. rcvd) /\ ntfns \in Seq(1 .. rcvd)
      /\ reorgs \in Seq(1 .. rcvd) /\ rcvd \in Nat
      /\ Len(ntfns) <= 1 /\ Len(reorgs) <= cap
  BY Indices DEF TypeOK
<1>3. CASE Quiet
  BY <1>0, <1>3 DEF Quiet
<1>4. CASE Deliver
  <2>1. /\ rcvd \in Nat \ {0} /\ events[rcvd] = "happened"
        /\ \A i \in DOMAIN seen : seen[i] # rcvd
        /\ \A i \in DOMAIN ntfns : ntfns[i] # rcvd
    BY <1>2, <1>4 DEF Deliver, Phase, InHand, Sent
  <2>2. ntfns' = Append(ntfns, rcvd) /\ UNCHANGED <<events, seen, reorgs>>
    BY <1>4 DEF Deliver
  <2>3. QED
    BY <1>0, <1>2, <2>1, <2>2, SendKeepsOrder
<1>5. CASE SignalReorg \/ SignalReorgHandover
  <2>1. /\ rcvd \in Nat \ {0} /\ events[rcvd] = "reorg"
        /\ \A i \in DOMAIN seen : seen[i] # rcvd
        /\ \A i \in DOMAIN reorgs : reorgs[i] # rcvd
    BY <1>2, <1>5 DEF SignalReorg, SignalReorgHandover, Phase, InHand, Sent
  <2>2. OrderedIn(events, seen, "reorg", Append(reorgs, rcvd))
    BY <1>0, <1>2, <2>1, SendKeepsOrder
  <2>3. CASE SignalReorg
    BY <1>0, <2>2, <2>3 DEF SignalReorg
  <2>4. CASE SignalReorgHandover
    <3>1. /\ reorgs = <<>> /\ seen' = Append(seen, rcvd)
          /\ UNCHANGED <<events, ntfns, reorgs>>
      BY <1>2, <2>4 DEF SignalReorgHandover
    <3>2. /\ Append(reorgs, rcvd) \in Seq(1 .. rcvd) /\ Append(reorgs, rcvd) # <<>>
          /\ Head(Append(reorgs, rcvd)) = rcvd /\ Tail(Append(reorgs, rcvd)) = <<>>
      BY <1>2, <2>1, <3>1
    <3>3. OrderedIn(events, seen', "reorg", reorgs)
      BY <1>2, <2>2, <3>1, <3>2, TakeKeepsOrder
    <3>4. OrderedIn(events, seen', "happened", ntfns)
      BY <1>0, <1>2, <2>1, <3>1, OtherKeepsOrder
    <3>5. QED
      BY <3>1, <3>3, <3>4
  <2>5. QED
    BY <1>5, <2>3, <2>4
<1>6. CASE TakeNotification
  <2>1. /\ ntfns # <<>> /\ seen' = Append(seen, Head(ntfns)) /\ ntfns' = Tail(ntfns)
        /\ UNCHANGED <<events, reorgs>>
    BY <1>6 DEF TakeNotification
  <2>2. Head(ntfns) \in 1 .. rcvd /\ events[Head(ntfns)] = "happened"
    BY <1>0, <1>2, <2>1 DEF OrderedIn
  <2>3. OrderedIn(events, seen', "happened", ntfns')
    BY <1>0, <1>2, <2>1, TakeKeepsOrder
  <2>4. OrderedIn(events, seen', "reorg", reorgs)
    BY <1>0, <1>2, <2>1, <2>2, OtherKeepsOrder
  <2>5. QED
    BY <2>1, <2>3, <2>4
<1>7. CASE TakeReorg
  <2>1. /\ reorgs # <<>> /\ seen' = Append(seen, Head(reorgs)) /\ reorgs' = Tail(reorgs)
        /\ UNCHANGED <<events, ntfns>>
    BY <1>7 DEF TakeReorg
  <2>2. Head(reorgs) \in 1 .. rcvd /\ events[Head(reorgs)] = "reorg"
    BY <1>0, <1>2, <2>1 DEF OrderedIn
  <2>3. OrderedIn(events, seen', "reorg", reorgs')
    BY <1>0, <1>2, <2>1, TakeKeepsOrder
  <2>4. OrderedIn(events, seen', "happened", ntfns)
    BY <1>0, <1>2, <2>1, <2>2, OtherKeepsOrder
  <2>5. QED
    BY <2>1, <2>3, <2>4
<1>8. ASSUME NEW event \in {"happened", "reorg", "bad"}, LndSends(event)
      PROVE  /\ OrderedIn(events', seen', "happened", ntfns')
             /\ OrderedIn(events', seen', "reorg", reorgs')
  BY <1>0, <1>8, Indices, LndOnlyAppends DEF OrderedIn
<1>9. QED
  BY <1>3, <1>4, <1>5, <1>6, <1>7, <1>8, QuietSteps DEF Next, PumpStep, CallerReads

-----------------------------------------------------------------------------
(***************************************************************************)
(* What has been sent.                                                     *)
(***************************************************************************)

\* The members of a sequence.
Has(seq, n) == \E i \in DOMAIN seq : seq[i] = n

\* What a buffer has when something is put into it.
LEMMA AppendHas ==
    ASSUME NEW S, NEW seq \in Seq(S), NEW e \in S, NEW n
    PROVE  Has(Append(seq, e), n) <=> Has(seq, n) \/ n = e
<1> DEFINE longer == Append(seq, e)
<1>1. /\ DOMAIN longer = 1 .. Len(seq) + 1 /\ DOMAIN seq = 1 .. Len(seq)
      /\ Len(seq) \in Nat
      /\ \A i \in 1 .. Len(seq) : longer[i] = seq[i]
      /\ longer[Len(seq) + 1] = e
  BY AppendProperties
<1>2. \A i \in DOMAIN longer : i \in DOMAIN seq \/ i = Len(seq) + 1
  BY <1>1
<1>3. DOMAIN seq \subseteq DOMAIN longer /\ Len(seq) + 1 \in DOMAIN longer
  BY <1>1
<1>4. QED
  BY <1>1, <1>2, <1>3 DEF Has

\* What it has when its head is taken.
LEMMA TakeHas ==
    ASSUME NEW S, NEW seq \in Seq(S), seq # <<>>, NEW n
    PROVE  Has(seq, n) <=> Has(Tail(seq), n) \/ n = Head(seq)
<1> DEFINE rest == Tail(seq)
<1>1. /\ DOMAIN seq = 1 .. Len(seq) /\ Len(seq) \in Nat \ {0}
      /\ DOMAIN rest = 1 .. Len(seq) - 1 /\ Head(seq) = seq[1]
      /\ \A j \in 1 .. Len(seq) - 1 : rest[j] = seq[j + 1]
  BY HeadTailProperties, EmptySeq, LenProperties
<1>2. \A i \in DOMAIN seq : i = 1 \/ (i - 1 \in DOMAIN rest /\ rest[i - 1] = seq[i])
  BY <1>1
<1>3. /\ 1 \in DOMAIN seq
      /\ \A j \in DOMAIN rest : j + 1 \in DOMAIN seq /\ rest[j] = seq[j + 1]
  BY <1>1
<1>4. QED
  BY ZenonT(60), <1>1, <1>2, <1>3 DEF Has

SendsLatest == Deliver \/ SignalReorg \/ SignalReorgHandover

\* What has been sent stays sent, for the caller's reads only move it, and what is sent
\* is what the goroutine has in its hand.
LEMMA SentGrows ==
    ASSUME TypeOK, Phase, Next, NEW n
    PROVE  Has(seen', n) \/ Has(ntfns', n) \/ Has(reorgs', n)
               <=> Sent(n) \/ (SendsLatest /\ n = rcvd)
<1> USE DEF lndVars, chanVars, callerVars, svcVars, callVars
<1>1. /\ seen \in Seq(1 .. rcvd) /\ ntfns \in Seq(1 .. rcvd)
      /\ reorgs \in Seq(1 .. rcvd) /\ rcvd \in Nat
  BY Indices DEF TypeOK
<1>2. Sent(n) <=> Has(seen, n) \/ Has(ntfns, n) \/ Has(reorgs, n)
  BY DEF Sent, Has
<1>3. CASE Deliver
  <2>1. rcvd \in 1 .. rcvd /\ ntfns' = Append(ntfns, rcvd) /\ UNCHANGED <<seen, reorgs>>
    BY <1>1, <1>3 DEF Deliver, Phase
  <2>2. Has(ntfns', n) <=> Has(ntfns, n) \/ n = rcvd
    BY ZenonT(60), <1>1, <2>1, AppendHas
  <2>3. QED
    BY <1>2, <1>3, <2>1, <2>2 DEF SendsLatest
<1>4. CASE SignalReorg
  <2>1. /\ rcvd \in 1 .. rcvd /\ reorgs' = Append(reorgs, rcvd)
        /\ UNCHANGED <<seen, ntfns>>
    BY <1>1, <1>4 DEF SignalReorg, Phase
  <2>2. Has(reorgs', n) <=> Has(reorgs, n) \/ n = rcvd
    BY ZenonT(60), <1>1, <2>1, AppendHas
  <2>3. QED
    BY <1>2, <1>4, <2>1, <2>2 DEF SendsLatest
<1>5. CASE SignalReorgHandover
  <2>1. /\ rcvd \in 1 .. rcvd /\ seen' = Append(seen, rcvd)
        /\ UNCHANGED <<ntfns, reorgs>>
    BY <1>1, <1>5 DEF SignalReorgHandover, Phase
  <2>2. Has(seen', n) <=> Has(seen, n) \/ n = rcvd
    BY ZenonT(60), <1>1, <2>1, AppendHas
  <2>3. QED
    BY <1>2, <1>5, <2>1, <2>2 DEF SendsLatest
<1>6. CASE TakeNotification
  <2>1. /\ ntfns # <<>> /\ seen' = Append(seen, Head(ntfns)) /\ ntfns' = Tail(ntfns)
        /\ UNCHANGED <<reorgs, rcvd>> /\ Head(ntfns) \in 1 .. rcvd
    BY <1>1, <1>6 DEF TakeNotification
  <2>2. ~SendsLatest
    BY <1>6 DEF TakeNotification, SendsLatest, Deliver, SignalReorg,
       SignalReorgHandover, GoTo
  <2>3. Has(seen', n) <=> Has(seen, n) \/ n = Head(ntfns)
    BY <1>1, <2>1, AppendHas
  <2>4. Has(ntfns, n) <=> Has(ntfns', n) \/ n = Head(ntfns)
    BY <1>1, <2>1, TakeHas
  <2>5. QED
    BY <1>2, <2>1, <2>2, <2>3, <2>4
<1>7. CASE TakeReorg
  <2>1. /\ reorgs # <<>> /\ seen' = Append(seen, Head(reorgs)) /\ reorgs' = Tail(reorgs)
        /\ UNCHANGED <<ntfns, rcvd>> /\ Head(reorgs) \in 1 .. rcvd
    BY <1>1, <1>7 DEF TakeReorg
  <2>2. ~SendsLatest
    BY <1>7 DEF TakeReorg, SendsLatest, Deliver, SignalReorg, SignalReorgHandover, GoTo
  <2>3. Has(seen', n) <=> Has(seen, n) \/ n = Head(reorgs)
    BY <1>1, <2>1, AppendHas
  <2>4. Has(reorgs, n) <=> Has(reorgs', n) \/ n = Head(reorgs)
    BY <1>1, <2>1, TakeHas
  <2>5. QED
    BY <1>2, <2>1, <2>2, <2>3, <2>4
<1>8. CASE Quiet \/ \E event \in {"happened", "reorg", "bad"} : LndSends(event)
  <2>1. UNCHANGED <<seen, ntfns, reorgs>>
    BY <1>8 DEF Quiet, LndSends
  <2>2. ~SendsLatest
    <3>1. ASSUME rcvd \in 1 .. rcvd
          PROVE  Append(reorgs, rcvd) # reorgs /\ Append(seen, rcvd) # seen
      BY <1>1, <3>1
    <3>2. CASE Deliver
      BY <2>1, <3>2 DEF Deliver
    <3>3. CASE SignalReorg \/ SignalReorgHandover
      BY <1>1, <2>1, <3>1, <3>3 DEF SignalReorg, SignalReorgHandover, Phase
    <3>4. QED
      BY <3>2, <3>3 DEF SendsLatest
  <2>3. QED
    BY <1>2, <2>1, <2>2
<1>9. QED
  BY <1>3, <1>4, <1>5, <1>6, <1>7, <1>8, QuietSteps DEF Next, PumpStep, CallerReads

\* What the goroutine has in its hand it has not sent, after every step.
LEMMA StepInHand ==
    ASSUME TypeOK, Phase, InHand, Next
    PROVE  InHand'
<1> USE DEF lndVars, chanVars, callerVars, svcVars, callVars
<1>0. /\ \A n : Has(seen', n) \/ Has(ntfns', n) \/ Has(reorgs', n)
                    <=> Sent(n) \/ (SendsLatest /\ n = rcvd)
      /\ \A n : Sent(n) => n \in 1 .. rcvd
      /\ rcvd \in Nat
  BY SentGrows, Indices DEF Sent
<1>1. SUFFICES ASSUME pc' \in {"deliver", "reorg"}
               PROVE  ~(Has(seen', rcvd') \/ Has(ntfns', rcvd') \/ Has(reorgs', rcvd'))
  BY DEF InHand, Sent, Has
<1>2. ~SendsLatest
  BY <1>1 DEF SendsLatest, Deliver, SignalReorg, SignalReorgHandover, GoTo
<1>3. CASE Receive
  BY <1>0, <1>2, <1>3 DEF Receive
<1>4. CASE pc' = pc /\ rcvd' = rcvd
  BY <1>0, <1>1, <1>2, <1>4 DEF InHand
<1>5. CASE Open \/ Launch \/ ReceiveError \/ DeliverCancelled \/ ReorgCancelled
             \/ Report \/ Finish
  BY <1>1, <1>5 DEF Open, Launch, ReceiveError, DeliverCancelled, ReorgCancelled, Report,
     Finish, GoTo
<1>6. CASE TakeNotification \/ TakeReorg \/ TakeError \/ Cancel \/ LndEnds \/ CloseConn
             \/ WaitForFinished
             \/ \E event \in {"happened", "reorg", "bad"} : LndSends(event)
  BY <1>4, <1>6 DEF TakeNotification, TakeReorg, TakeError, Cancel, LndEnds, CloseConn,
     WaitForFinished, LndSends
<1>7. QED
  BY <1>2, <1>3, <1>5, <1>6 DEF Next, PumpStep, CallerReads, SendsLatest

\* A cancelled call stays cancelled.
LEMMA CtxStays ==
    ASSUME Next
    PROVE  /\ UNCHANGED <<method, aware, cap>>
           /\ ctx => ctx'
           /\ SkipsReorgs => SkipsReorgs'
<1>1. UNCHANGED <<method, aware, cap>> /\ (ctx => ctx')
  BY DEF Next, PumpStep, CallerReads, Open, Launch, Receive, ReceiveError, Deliver,
     DeliverCancelled, SignalReorg, ReorgCancelled, Report, Finish, TakeNotification,
     TakeReorg, SignalReorgHandover, TakeError, Cancel, LndSends, LndEnds, CloseConn,
     WaitForFinished, GoTo, lndVars, chanVars, callerVars, svcVars, callVars
<1>2. QED
  BY <1>1 DEF SkipsReorgs

\* What was received is in a channel, read or in hand after every step.
LEMMA StepComplete ==
    ASSUME TypeOK, Phase, Complete, Next
    PROVE  Complete'
<1> USE DEF lndVars, chanVars, callerVars, svcVars, callVars
<1> DEFINE Reached(n) == Has(seen', n) \/ Has(ntfns', n) \/ Has(reorgs', n)
           Excused(n) == \/ events'[n] = "bad"
                         \/ events'[n] = "reorg" /\ (~aware' \/ SkipsReorgs')
           Last(n) == /\ n = rcvd'
                      /\ \/ pc' \in {"deliver", "reorg"}
                         \/ ctx' /\ pc' \in {"report", "exit", "done"}
<1>0. SUFFICES ASSUME NEW n \in 1 .. rcvd'
               PROVE  Reached(n) \/ Excused(n) \/ Last(n)
  BY DEF Complete, Sent, Has
<1>1. /\ Reached(n) <=> Sent(n) \/ (SendsLatest /\ n = rcvd)
      /\ rcvd \in Nat
  BY SentGrows, Indices
<1>2. n \in 1 .. rcvd => events'[n] = events[n]
  <2>1. CASE \E event \in {"happened", "reorg", "bad"} : LndSends(event)
    BY <2>1, LndOnlyAppends
  <2>2. CASE SendsLatest \/ TakeNotification \/ TakeReorg
    BY <2>2 DEF SendsLatest, Deliver, SignalReorg, SignalReorgHandover,
       TakeNotification, TakeReorg
  <2>3. QED
    BY <2>1, <2>2, QuietSteps DEF Quiet, Next, PumpStep, CallerReads, SendsLatest
<1>3. CASE Receive
  <2>1. rcvd' = rcvd + 1 /\ pc = "recv" /\ UNCHANGED <<events, aware>>
    BY <1>3 DEF Receive, GoTo
  <2>2. CASE n \in 1 .. rcvd
    BY <1>1, <1>2, <2>1, <2>2, CtxStays DEF Complete
  <2>3. CASE n = rcvd + 1
    BY <1>3, <2>1, <2>3 DEF Receive, GoTo
  <2>4. QED
    BY <1>0, <1>1, <2>1, <2>2, <2>3
<1>4. ASSUME rcvd' = rcvd,
             n = rcvd /\ (pc \in {"deliver", "reorg"}
                            \/ (ctx /\ pc \in {"report", "exit", "done"}))
                 => Reached(n) \/ Excused(n) \/ Last(n)
      PROVE  Reached(n) \/ Excused(n) \/ Last(n)
  BY <1>0, <1>1, <1>2, <1>4, CtxStays DEF Complete
<1>5. CASE SendsLatest
  BY <1>1, <1>4, <1>5 DEF SendsLatest, Deliver, SignalReorg, SignalReorgHandover
<1>6. CASE DeliverCancelled
  BY <1>4, <1>6 DEF DeliverCancelled, GoTo
<1>7. CASE ReorgCancelled
  BY <1>0, <1>4, <1>7 DEF ReorgCancelled, GoTo, Phase, SkipsReorgs
<1>8. CASE Report \/ Finish
  BY <1>4, <1>8 DEF Report, Finish, GoTo
<1>9. CASE Open \/ Launch \/ ReceiveError
  BY <1>4, <1>9 DEF Open, Launch, ReceiveError, GoTo
<1>10. CASE TakeNotification \/ TakeReorg \/ TakeError \/ Cancel \/ LndEnds \/ CloseConn
              \/ WaitForFinished
              \/ \E event \in {"happened", "reorg", "bad"} : LndSends(event)
  <2>1. UNCHANGED <<pc, rcvd>>
    BY <1>10 DEF TakeNotification, TakeReorg, TakeError, Cancel, LndEnds, CloseConn,
       WaitForFinished, LndSends
  <2>2. QED
    BY <1>4, <2>1, CtxStays
<1>11. QED
  BY <1>3, <1>5, <1>6, <1>7, <1>8, <1>9, <1>10
     DEF Next, PumpStep, CallerReads, SendsLatest

-----------------------------------------------------------------------------
(***************************************************************************)
(* How far events overtake one another.                                    *)
(***************************************************************************)

\* Overtaken, of given events and given reads.
OvertakenIn(evs, read, i, kind) ==
    {n \in 1 .. read[i] : evs[n] = kind /\ \A j \in 1 .. i : read[j] # n}

\* A set that a sequence lists has no more members than the sequence.
LEMMA ListedSet ==
    ASSUME NEW S, NEW seq \in Seq(S), NEW T, \A n \in T : Has(seq, n)
    PROVE  IsFiniteSet(T) /\ Cardinality(T) <= Len(seq)
<1> DEFINE U == {seq[i] : i \in 1 .. Len(seq)}
<1>1. Len(seq) \in Nat /\ DOMAIN seq = 1 .. Len(seq)
  BY LenProperties
<1>2. seq \in Surjection(1 .. Len(seq), U)
  BY <1>1 DEF Surjection
<1>3. ExistsSurjection(1 .. Len(seq), U)
  BY <1>2 DEF ExistsSurjection
<1>4. IsFiniteSet(U) /\ Cardinality(U) <= Len(seq)
  BY <1>1, <1>3, FS_NatSurjection, FS_SurjCardinalityBound
<1>5. T \subseteq U
  BY <1>1 DEF Has
<1>6. /\ IsFiniteSet(T) /\ Cardinality(T) <= Cardinality(U)
      /\ Cardinality(T) \in Nat /\ Cardinality(U) \in Nat
  BY <1>4, <1>5, FS_Subset, FS_CardinalityType
<1>7. QED
  BY <1>1, <1>4, <1>6

\* A read adds one event to those the caller has read, the oldest in one of the two
\* buffers or the re-organisation handed over.
LEMMA ReadsGrow ==
    ASSUME TypeOK, Phase, Next
    PROVE  \/ seen' = seen
           \/ /\ seen' = Append(seen, Head(ntfns)) /\ ntfns # <<>>
              /\ UNCHANGED <<events, reorgs, pc, rcvd>>
           \/ /\ seen' = Append(seen, Head(reorgs)) /\ reorgs # <<>>
              /\ UNCHANGED <<events, ntfns, pc, rcvd>>
           \/ /\ seen' = Append(seen, rcvd) /\ pc = "reorg"
              /\ UNCHANGED <<events, ntfns, rcvd>>
<1> USE DEF lndVars, chanVars, callerVars, svcVars, callVars
<1>1. CASE TakeNotification \/ TakeReorg \/ SignalReorgHandover
  BY <1>1 DEF TakeNotification, TakeReorg, SignalReorgHandover
<1>2. CASE Deliver \/ SignalReorg
          \/ \E event \in {"happened", "reorg", "bad"} : LndSends(event)
  BY <1>2 DEF Deliver, SignalReorg, LndSends
<1>3. QED
  BY <1>1, <1>2, QuietSteps DEF Quiet, Next, PumpStep, CallerReads

\* What an event overtook is settled when the caller reads it.
LEMMA OvertakenStays ==
    ASSUME TypeOK, Phase, Next, NEW i \in DOMAIN seen
    PROVE  /\ i \in DOMAIN seen' /\ seen'[i] = seen[i]
           /\ events'[seen[i]] = events[seen[i]]
           /\ \A kind : OvertakenIn(events', seen', i, kind)
                            = OvertakenIn(events, seen, i, kind)
<1>1. /\ seen \in Seq(1 .. rcvd) /\ rcvd \in Nat /\ i \in 1 .. Len(seen)
      /\ DOMAIN seen = 1 .. Len(seen) /\ Len(seen) \in Nat
      /\ seen[i] \in 1 .. rcvd
      /\ ntfns # <<>> => Head(ntfns) \in 1 .. rcvd
      /\ reorgs # <<>> => Head(reorgs) \in 1 .. rcvd
      /\ pc = "reorg" => rcvd \in 1 .. rcvd
  <2>1. /\ seen \in Seq(1 .. rcvd) /\ ntfns \in Seq(1 .. rcvd)
        /\ reorgs \in Seq(1 .. rcvd) /\ rcvd \in Nat
    BY Indices DEF TypeOK
  <2>2. /\ ntfns # <<>> => Head(ntfns) \in 1 .. rcvd
        /\ reorgs # <<>> => Head(reorgs) \in 1 .. rcvd
    BY <2>1, HeadTailProperties
  <2>3. DOMAIN seen = 1 .. Len(seen) /\ Len(seen) \in Nat /\ seen[i] \in 1 .. rcvd
    BY <2>1, LenProperties, Indices
  <2>4. pc = "reorg" => rcvd \in 1 .. rcvd
    BY <2>1 DEF Phase
  <2>5. QED
    BY <2>1, <2>2, <2>3, <2>4
<1>2. \/ seen' = seen
      \/ \E e \in 1 .. rcvd : seen' = Append(seen, e)
  BY <1>1, ReadsGrow
<1>3. \A j \in 1 .. i : j \in DOMAIN seen' /\ seen'[j] = seen[j]
  <2>1. CASE seen' = seen
    BY <1>1, <2>1
  <2>2. ASSUME NEW e \in 1 .. rcvd, seen' = Append(seen, e)
        PROVE  \A j \in 1 .. i : j \in DOMAIN seen' /\ seen'[j] = seen[j]
    BY <1>1, <2>2, AppendProperties
  <2>3. QED
    BY <1>2, <2>1, <2>2
<1>4. \A n \in 1 .. rcvd : events'[n] = events[n]
  <2>1. CASE \E event \in {"happened", "reorg", "bad"} : LndSends(event)
    BY <2>1, LndOnlyAppends
  <2>2. CASE SendsLatest \/ TakeNotification \/ TakeReorg
    BY <2>2 DEF SendsLatest, Deliver, SignalReorg, SignalReorgHandover,
       TakeNotification, TakeReorg, lndVars
  <2>3. QED
    BY <2>1, <2>2, QuietSteps DEF Quiet, Next, PumpStep, CallerReads, SendsLatest
<1>5. i \in 1 .. i
  BY <1>1
<1>6. ASSUME NEW kind
      PROVE  OvertakenIn(events', seen', i, kind) = OvertakenIn(events, seen, i, kind)
  <2>1. seen'[i] = seen[i] /\ 1 .. seen[i] \subseteq 1 .. rcvd
    BY <1>1, <1>3, <1>5
  <2>2. QED
    BY <1>3, <1>4, <2>1 DEF OvertakenIn
<1>7. QED
  BY <1>1, <1>3, <1>4, <1>5, <1>6

\* An event that is read overtakes only what the other channel's buffer holds.
LEMMA ReadOvertakesBuffer ==
    ASSUME TypeOK, Phase, InOrder, Complete,
           NEW e \in 1 .. rcvd, NEW kind \in {"happened", "reorg"}, events[e] # kind,
           kind = "reorg" => aware /\ ~SkipsReorgs,
           NEW n \in OvertakenIn(events, Append(seen, e), Len(seen) + 1, kind)
    PROVE  Has(IF kind = "reorg" THEN reorgs ELSE ntfns, n)
<1> DEFINE longer == Append(seen, e)
<1>1. /\ seen \in Seq(1 .. rcvd) /\ rcvd \in Nat
      /\ DOMAIN seen = 1 .. Len(seen) /\ Len(seen) \in Nat
      /\ \A i \in 1 .. Len(seen) : longer[i] = seen[i]
      /\ longer[Len(seen) + 1] = e
  <2>1. seen \in Seq(1 .. rcvd) /\ rcvd \in Nat
    BY Indices DEF TypeOK
  <2>2. DOMAIN seen = 1 .. Len(seen) /\ Len(seen) \in Nat
    BY <2>1, LenProperties
  <2>3. QED
    BY <2>1, <2>2, AppendProperties
<1>2. /\ n \in 1 .. e /\ events[n] = kind
      /\ \A j \in 1 .. Len(seen) + 1 : longer[j] # n
  BY <1>1 DEF OvertakenIn
<1>3. n \in 1 .. rcvd /\ n # e /\ n # rcvd /\ ~Has(seen, n)
  BY <1>1, <1>2 DEF Has
<1>4. Sent(n)
  BY <1>2, <1>3 DEF Complete
<1>5. Has(ntfns, n) \/ Has(reorgs, n)
  BY <1>3, <1>4 DEF Sent, Has
<1>6. /\ Has(ntfns, n) => events[n] = "happened"
      /\ Has(reorgs, n) => events[n] = "reorg"
  BY DEF InOrder, Ordered, Has
<1>7. QED
  BY <1>2, <1>5, <1>6

\* No step lets the caller read further ahead than the buffers allow.
LEMMA StepOvertaking ==
    ASSUME TypeOK, Phase, Unaware, InOrder, Complete, OvertakingIsBounded, Next
    PROVE  OvertakingIsBounded'
<1> DEFINE Bounded(i) ==
        IF events'[seen'[i]] = "reorg"
            THEN Cardinality(OvertakenIn(events', seen', i, "happened")) <= 1
            ELSE aware' /\ ~SkipsReorgs'
                     => Cardinality(OvertakenIn(events', seen', i, "reorg")) <= cap'
<1>0. SUFFICES ASSUME NEW i \in DOMAIN seen' PROVE Bounded(i)
  BY DEF OvertakingIsBounded, Overtaken, OvertakenIn
<1>1. CASE i \in DOMAIN seen
  <2>1. /\ seen'[i] = seen[i] /\ events'[seen[i]] = events[seen[i]]
        /\ \A kind : OvertakenIn(events', seen', i, kind)
                         = OvertakenIn(events, seen, i, kind)
    BY <1>1, OvertakenStays
  <2>2. UNCHANGED <<aware, cap>> /\ (SkipsReorgs => SkipsReorgs')
    BY CtxStays
  <2>3. IF events[seen[i]] = "reorg"
            THEN Cardinality(OvertakenIn(events, seen, i, "happened")) <= 1
            ELSE aware /\ ~SkipsReorgs
                     => Cardinality(OvertakenIn(events, seen, i, "reorg")) <= cap
    BY <1>1 DEF OvertakingIsBounded, Overtaken, OvertakenIn
  <2>4. QED
    BY <2>1, <2>2, <2>3
<1>2. /\ seen \in Seq(1 .. rcvd) /\ ntfns \in Seq(1 .. rcvd)
      /\ reorgs \in Seq(1 .. rcvd) /\ rcvd \in Nat /\ cap \in Nat
      /\ Len(ntfns) <= 1 /\ Len(reorgs) <= cap
      /\ Len(ntfns) \in Nat /\ Len(reorgs) \in Nat
  BY Indices DEF TypeOK
<1>3. ASSUME NEW e \in 1 .. rcvd, seen' = Append(seen, e), events' = events,
             events[e] \in {"happened", "reorg"}, i \notin DOMAIN seen
      PROVE  Bounded(i)
  <2>1. i = Len(seen) + 1 /\ seen'[i] = e
    <3>1. DOMAIN seen = 1 .. Len(seen) /\ Len(seen) \in Nat
      BY <1>2, LenProperties
    <3>2. /\ seen' \in Seq(1 .. rcvd) /\ Len(seen') = Len(seen) + 1
          /\ seen'[Len(seen) + 1] = e
      BY <1>2, <1>3, AppendProperties
    <3>3. DOMAIN seen' = 1 .. Len(seen) + 1
      BY <3>2, LenProperties
    <3>4. QED
      BY <1>0, <1>3, <3>1, <3>2, <3>3
  <2>2. CASE events[e] = "reorg"
    <3>1. \A n \in OvertakenIn(events, seen', i, "happened") : Has(ntfns, n)
      BY <1>3, <2>1, <2>2, ReadOvertakesBuffer
    <3>2. Cardinality(OvertakenIn(events, seen', i, "happened")) <= Len(ntfns)
          /\ IsFiniteSet(OvertakenIn(events, seen', i, "happened"))
      BY <1>2, <3>1, ListedSet
    <3>3. Cardinality(OvertakenIn(events, seen', i, "happened")) \in Nat
      BY <3>2, FS_CardinalityType
    <3>4. QED
      BY <1>2, <1>3, <2>1, <2>2, <3>2, <3>3
  <2>3. CASE events[e] = "happened"
    <3>1. SUFFICES ASSUME aware', ~SkipsReorgs'
                   PROVE  Cardinality(OvertakenIn(events', seen', i, "reorg")) <= cap'
      BY <1>3, <2>1, <2>3
    <3>2. aware /\ ~SkipsReorgs /\ cap' = cap
      BY <3>1, CtxStays
    <3>3. \A n \in OvertakenIn(events, seen', i, "reorg") : Has(reorgs, n)
      BY <1>3, <2>1, <2>3, <3>2, ReadOvertakesBuffer
    <3>4. Cardinality(OvertakenIn(events, seen', i, "reorg")) <= Len(reorgs)
          /\ IsFiniteSet(OvertakenIn(events, seen', i, "reorg"))
      BY <1>2, <3>3, ListedSet
    <3>5. Cardinality(OvertakenIn(events, seen', i, "reorg")) \in Nat
      BY <3>4, FS_CardinalityType
    <3>6. QED
      BY <1>2, <1>3, <3>2, <3>4, <3>5
  <2>4. QED
    BY <1>3, <2>2, <2>3
<1>4. CASE seen' = seen
  BY <1>0, <1>1, <1>4
<1>5. CASE i \notin DOMAIN seen /\ seen' # seen
  <2>1. CASE seen' = Append(seen, Head(ntfns)) /\ ntfns # <<>> /\ events' = events
    <3>1. 1 \in DOMAIN ntfns /\ Head(ntfns) = ntfns[1] /\ Head(ntfns) \in 1 .. rcvd
      BY <1>2, <2>1
    <3>2. events[Head(ntfns)] = "happened"
      BY <3>1 DEF InOrder, Ordered
    <3>3. QED
      BY <1>3, <1>5, <2>1, <3>1, <3>2
  <2>2. CASE seen' = Append(seen, Head(reorgs)) /\ reorgs # <<>> /\ events' = events
    <3>1. 1 \in DOMAIN reorgs /\ Head(reorgs) = reorgs[1] /\ Head(reorgs) \in 1 .. rcvd
      BY <1>2, <2>2
    <3>2. events[Head(reorgs)] = "reorg"
      BY <3>1 DEF InOrder, Ordered
    <3>3. QED
      BY <1>3, <1>5, <2>2, <3>1, <3>2
  <2>3. CASE seen' = Append(seen, rcvd) /\ pc = "reorg" /\ events' = events
    <3>1. rcvd \in 1 .. rcvd /\ events[rcvd] = "reorg"
      BY <1>2, <2>3 DEF Phase
    <3>2. QED
      BY <1>3, <1>5, <2>3, <3>1
  <2>4. QED
    BY <1>5, <2>1, <2>2, <2>3, ReadsGrow
<1>6. QED
  BY <1>1, <1>4, <1>5

-----------------------------------------------------------------------------
(***************************************************************************)
(* The end, the invariant and the theorems.                                *)
(***************************************************************************)

\* The goroutine ends for a reason only.
LEMMA StepEnd ==
    ASSUME TypeOK, Phase, Unaware, EndHasAReason, Next
    PROVE  EndHasAReason'
<1> USE DEF lndVars, chanVars, callerVars, svcVars, callVars
<1>0. SUFFICES ASSUME pc' \in {"exit", "done"}
               PROVE  EndHasAReason'
  BY DEF EndHasAReason
<1>1. /\ errs \in 0 .. 1 /\ errSeen \in 0 .. 1 /\ aware' = aware /\ (ctx => ctx')
      /\ seen \in Seq(1 .. rcvd) /\ ntfns \in Seq(1 .. rcvd)
  BY CtxStays DEF TypeOK
<1>2. CASE Deliver
  <2>1. ~aware /\ pc = "deliver" /\ ntfns' = <<rcvd>> /\ seen' = seen
    BY <1>0, <1>2 DEF Deliver, GoTo
  <2>2. seen = <<>>
    BY <2>1 DEF Unaware
  <2>3. QED
    BY <1>1, <2>1, <2>2 DEF EndHasAReason
<1>3. CASE DeliverCancelled \/ ReorgCancelled
  BY <1>1, <1>3 DEF DeliverCancelled, ReorgCancelled, EndHasAReason
<1>4. CASE Report
  BY <1>1, <1>4 DEF Report, Phase, EndHasAReason
<1>5. CASE Open \/ Launch \/ Receive \/ ReceiveError \/ SignalReorg
             \/ SignalReorgHandover
  BY <1>0, <1>5 DEF Open, Launch, Receive, ReceiveError, SignalReorg,
     SignalReorgHandover, GoTo
<1>6. CASE TakeNotification
  <2>1. /\ ntfns # <<>> /\ seen' = Append(seen, Head(ntfns)) /\ ntfns' = Tail(ntfns)
        /\ Len(seen') + Len(ntfns') = Len(seen) + Len(ntfns)
    BY <1>1, <1>6 DEF TakeNotification
  <2>2. UNCHANGED <<pc, ctx, errs, errSeen, aware>>
    BY <1>6 DEF TakeNotification
  <2>3. QED
    BY <1>0, <2>1, <2>2 DEF EndHasAReason
<1>7. CASE TakeReorg
  <2>1. aware /\ UNCHANGED <<pc, ctx, errs, errSeen, aware>>
    BY <1>7 DEF TakeReorg, Unaware
  <2>2. QED
    BY <1>0, <2>1 DEF EndHasAReason
<1>8. CASE TakeError
  BY <1>0, <1>1, <1>8 DEF TakeError, EndHasAReason
<1>9. CASE Finish \/ LndEnds \/ Cancel \/ CloseConn \/ WaitForFinished
  BY <1>0, <1>1, <1>9 DEF Finish, LndEnds, Cancel, CloseConn, WaitForFinished,
     EndHasAReason, GoTo
<1>10. CASE \E event \in {"happened", "reorg", "bad"} : LndSends(event)
  BY <1>0, <1>10 DEF LndSends, EndHasAReason
<1>11. QED
  BY <1>2, <1>3, <1>4, <1>5, <1>6, <1>7, <1>8, <1>9, <1>10
     DEF Next, PumpStep, CallerReads

\* At first nothing is registered.
LEMMA InitInv ==
    ASSUME Init
    PROVE  Inv
<1>1. TypeOK
  <2>1. /\ aware \in BOOLEAN /\ ended \in BOOLEAN /\ ctx \in BOOLEAN
        /\ connOpen \in BOOLEAN /\ waited \in BOOLEAN
    BY DEF Init
  <2>2. /\ events \in Seq({"happened", "reorg", "bad"}) /\ rcvd \in 0 .. Len(events)
        /\ ntfns \in Seq(1 .. rcvd) /\ Len(ntfns) <= 1
        /\ reorgs \in Seq(1 .. rcvd) /\ Len(reorgs) <= cap
        /\ seen \in Seq(1 .. rcvd)
    BY DEF Init
  <2>3. QED
    BY <2>1, <2>2 DEF Init, TypeOK
<1>2. Phase /\ Unaware /\ InHand /\ Complete /\ EndHasAReason
  BY DEF Init, Phase, Unaware, InHand, Complete, EndHasAReason
<1>3. InOrder /\ OvertakingIsBounded
  BY DEF Init, InOrder, Ordered, OvertakingIsBounded
<1>4. QED
  BY <1>1, <1>2, <1>3 DEF Inv

\* A step that changes nothing keeps the invariant.
LEMMA StutterInv ==
    ASSUME Inv, UNCHANGED vars
    PROVE  Inv'
<1> USE DEF vars, lndVars, chanVars, callerVars, svcVars, callVars
<1>1. TypeOK' /\ Phase' /\ Unaware' /\ EndHasAReason'
  BY DEF Inv, TypeOK, Phase, Unaware, EndHasAReason
<1>2. InHand' /\ Complete' /\ InOrder'
  BY DEF Inv, InHand, Complete, InOrder, Ordered, Sent, SkipsReorgs
<1>3. OvertakingIsBounded'
  BY DEF Inv, OvertakingIsBounded, Overtaken, SkipsReorgs
<1>4. QED
  BY <1>1, <1>2, <1>3 DEF Inv

\* Everything the theorems below rest on holds in every reachable state of a
\* registration, whatever number of events lnd sends and whatever the capacity of the
\* caller's ReOrgChan.
THEOREM Invariance == Spec => []Inv
<1>1. Init => Inv
  BY InitInv
<1>2. Inv /\ [Next]_vars => Inv'
  <2>1. ASSUME Inv, Next PROVE Inv'
    <3>1. /\ TypeOK /\ Phase /\ Unaware /\ InHand /\ Complete /\ InOrder
          /\ OvertakingIsBounded /\ EndHasAReason
      BY <2>1 DEF Inv
    <3>2. TypeOK' /\ Phase' /\ Unaware'
      BY <2>1, <3>1, StepTypes, StepPhase, StepUnaware
    <3>3. InHand' /\ Complete' /\ InOrder'
      BY <2>1, <3>1, StepInHand, StepComplete, StepOrder
    <3>4. OvertakingIsBounded' /\ EndHasAReason'
      BY <2>1, <3>1, StepOvertaking, StepEnd
    <3>5. QED
      BY <3>2, <3>3, <3>4 DEF Inv
  <2>2. QED
    BY <2>1, StutterInv
<1>3. QED
  BY <1>1, <1>2, PTL DEF Spec

\* Types, and the bounds of the three channels' buffers.
THEOREM TypeCorrect == Spec => []TypeOK
<1>1. Inv => TypeOK
  BY DEF Inv
<1>2. QED
  BY Invariance, <1>1, PTL

\* The caller's channels carry every confirmation or spend, and every re-organisation,
\* once and in lnd's order, but for the one in the goroutine's hand.
THEOREM ChannelsAreFaithful == Spec => []NothingLost
<1>1. Inv => NothingLost
  <2>1. SUFFICES ASSUME Inv, NEW n \in 1 .. rcvd
                 PROVE  \/ Sent(n)
                        \/ events[n] = "bad"
                        \/ events[n] = "reorg" /\ (~aware \/ SkipsReorgs)
                        \/ n = rcvd /\ (ctx \/ pc = IF events[n] = "reorg"
                                                       THEN "reorg" ELSE "deliver")
    BY DEF Inv, InOrder, NothingLost
  <2>2. QED
    BY <2>1 DEF Inv, Complete, Phase
<1>2. QED
  BY Invariance, <1>1, PTL

\* Between the two channels an event overtakes no more than the other's buffer holds.
THEOREM LittleOvertaking == Spec => []OvertakingIsBounded
<1>1. Inv => OvertakingIsBounded
  BY DEF Inv
<1>2. QED
  BY Invariance, <1>1, PTL

\* The goroutine of a registration ends after a cancel, with an error, or, without a
\* ReOrgChan, after one notification.
THEOREM EndIsJustified == Spec => []EndHasAReason
<1>1. Inv => EndHasAReason
  BY DEF Inv
<1>2. QED
  BY Invariance, <1>1, PTL
=============================================================================
