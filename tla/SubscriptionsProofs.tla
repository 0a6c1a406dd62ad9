------------------------- MODULE SubscriptionsProofs -------------------------
(* Theorems about Subscriptions and their proofs. *)
EXTENDS Subscriptions, FiniteSetTheorems, SequenceTheorems, TLAPS

USE SubsAssumption, KindsAssumption, MaxMsgsAssumption

ProfileType ==
    [client : Clients, counted : BOOLEAN, updCap : {0, 1}, errCap : {0, 1},
     convFails : BOOLEAN, convReturns : BOOLEAN, eofCloses : BOOLEAN,
     finalCloses : BOOLEAN, exitCloses : BOOLEAN, errFirst : BOOLEAN,
     errSelects : BOOLEAN, onCancel : {"return", "report", "receive"}]

\* Every method's profile is a profile.
LEMMA ProfilesType == \A k \in DOMAIN Profiles : Profiles[k] \in ProfileType
<1>1. SubscribeGraph \in ProfileType
  BY DEF SubscribeGraph, ProfileType, Clients
<1>2. SubscribeChannelEvents \in ProfileType
  BY <1>1 DEF SubscribeChannelEvents, ProfileType, Clients
<1>3. SubscribeChannelBackups \in ProfileType
  BY <1>1 DEF SubscribeChannelBackups, ProfileType, Clients
<1>4. OpenChannelStream \in ProfileType
  BY <1>1 DEF OpenChannelStream, ProfileType, Clients
<1>5. CloseChannel \in ProfileType
  BY <1>1 DEF CloseChannel, ProfileType, Clients
<1>6. SubscribeInvoices \in ProfileType
  BY <1>1 DEF SubscribeInvoices, ProfileType, Clients
<1>7. SubscribeCustomMessages \in ProfileType
  BY <1>1 DEF SubscribeCustomMessages, ProfileType, Clients
<1>8. SubscribeTransactions \in ProfileType
  BY <1>1 DEF SubscribeTransactions, ProfileType, Clients
<1>9. SubscribeSingleInvoice \in ProfileType
  BY <1>1 DEF SubscribeSingleInvoice, ProfileType, Clients
<1>10. RegisterBlockEpochNtfn \in ProfileType
  BY <1>1 DEF RegisterBlockEpochNtfn, ProfileType, Clients
<1>11. SubscribeState \in ProfileType
  BY <1>1 DEF SubscribeState, ProfileType, Clients
<1>12. trackPayment \in ProfileType
  BY <1>1 DEF trackPayment, ProfileType, Clients
<1>13. SubscribeHtlcEvents \in ProfileType
  BY <1>1 DEF SubscribeHtlcEvents, ProfileType, Clients
<1>14. QED
  BY <1>1, <1>2, <1>3, <1>4, <1>5, <1>6, <1>7,
     <1>8, <1>9, <1>10, <1>11, <1>12, <1>13 DEF Profiles

\* A subscription has the profile of a method.
LEMMA ProfileOfSub ==
    ASSUME kind \in [Subs -> Kinds], NEW s \in Subs
    PROVE  Profile(s) \in ProfileType
BY ProfilesType DEF Profile

-----------------------------------------------------------------------------
(***************************************************************************)
(* The wait groups.  A client's wait group counts exactly its running      *)
(* pumps that were added to it; that is why an empty group means that none *)
(* of them is left, and why wg.Done never takes the group below zero.      *)
(***************************************************************************)

PumpsOf(c) ==
    {s \in Subs : Live(s) /\ Profile(s).counted /\ Profile(s).client = c}

WgCounts == \A c \in Clients : wg[c] = Cardinality(PumpsOf(c))

Inv == TypeOK /\ WgCounts /\ WaitCoversPumps

\* The pumps of a client can be counted.
LEMMA PumpsFinite ==
    \A c \in Clients : IsFiniteSet(PumpsOf(c)) /\ Cardinality(PumpsOf(c)) \in Nat
<1>1. \A c \in Clients : PumpsOf(c) \subseteq Subs
  BY DEF PumpsOf
<1>2. QED
  BY <1>1, FS_Subset, FS_CardinalityType

\* A step that starts and ends no pump leaves the sets of pumps alone.
LEMMA SamePumps ==
    ASSUME kind' = kind, wg' = wg,
           \A s \in Subs : Live(s)' = Live(s),
           WgCounts
    PROVE  WgCounts'
<1>1. \A c \in Clients : PumpsOf(c)' = PumpsOf(c)
  BY DEF PumpsOf, Profile
<1>2. QED
  BY <1>1 DEF WgCounts

\* wg.Add(1) and the start of the pump go together.
LEMMA LaunchCounts ==
    ASSUME TypeOK, WgCounts, NEW s \in Subs, Launch(s)
    PROVE  WgCounts' /\ wg' \in [Clients -> Nat]
<1>0. Profile(s).client \in Clients /\ Profile(s).counted \in BOOLEAN
  BY ProfileOfSub DEF TypeOK, ProfileType
<1>1. PICK c \in Clients : c = Profile(s).client
  BY <1>0
<1>2. /\ ~Live(s) /\ Live(s)'
      /\ \A t \in Subs \ {s} : Live(t)' = Live(t)
      /\ \A t \in Subs : Profile(t)' = Profile(t)
  BY DEF TypeOK, Launch, Live, Profile
<1>3. \A d \in Clients : s \notin PumpsOf(d)
  BY <1>2 DEF PumpsOf
<1>4. CASE Profile(s).counted
  <2>1. \A d \in Clients \ {c} : PumpsOf(d)' = PumpsOf(d)
    BY <1>1, <1>2 DEF PumpsOf
  <2>2. PumpsOf(c)' = PumpsOf(c) \cup {s}
    BY <1>1, <1>2, <1>4 DEF PumpsOf
  <2>3. Cardinality(PumpsOf(c)') = Cardinality(PumpsOf(c)) + 1
    BY <1>1, <1>3, <2>2, PumpsFinite, FS_AddElement
  <2>4. wg' = [wg EXCEPT ![c] = @ + 1]
    BY <1>1, <1>4 DEF Launch
  <2>5. wg \in [Clients -> Nat] /\ wg[c] = Cardinality(PumpsOf(c))
    BY <1>1 DEF TypeOK, WgCounts
  <2>6. wg'[c] = Cardinality(PumpsOf(c)') /\ wg' \in [Clients -> Nat]
    BY <1>1, <2>3, <2>4, <2>5
  <2>7. \A d \in Clients \ {c} : wg'[d] = Cardinality(PumpsOf(d)')
    BY <2>1, <2>4, <2>5 DEF WgCounts
  <2>8. \A d \in Clients : wg'[d] = Cardinality(PumpsOf(d)')
    BY <2>6, <2>7
  <2>9. QED
    BY <2>6, <2>8 DEF WgCounts
<1>5. CASE ~Profile(s).counted
  <2>1. \A d \in Clients : PumpsOf(d)' = PumpsOf(d)
    BY <1>2, <1>5 DEF PumpsOf
  <2>2. wg' = wg
    BY <1>5 DEF Launch
  <2>3. QED
    BY <2>1, <2>2 DEF WgCounts, TypeOK
<1>6. QED
  BY <1>0, <1>4, <1>5

\* wg.Done and the end of the pump go together.
LEMMA FinishCounts ==
    ASSUME TypeOK, WgCounts, NEW s \in Subs, Finish(s)
    PROVE  WgCounts' /\ wg' \in [Clients -> Nat]
<1>0. Profile(s).client \in Clients /\ Profile(s).counted \in BOOLEAN
  BY ProfileOfSub DEF TypeOK, ProfileType
<1>1. PICK c \in Clients : c = Profile(s).client
  BY <1>0
<1>2. /\ Live(s) /\ ~Live(s)'
      /\ \A t \in Subs \ {s} : Live(t)' = Live(t)
      /\ \A t \in Subs : Profile(t)' = Profile(t)
  BY DEF TypeOK, Finish, Live, Profile
<1>3. CASE Profile(s).counted
  <2>1. \A d \in Clients \ {c} : PumpsOf(d)' = PumpsOf(d)
    BY <1>1, <1>2 DEF PumpsOf
  <2>2. PumpsOf(c)' = PumpsOf(c) \ {s} /\ s \in PumpsOf(c)
    BY <1>1, <1>2, <1>3 DEF PumpsOf
  <2>3. /\ Cardinality(PumpsOf(c)') = Cardinality(PumpsOf(c)) - 1
        /\ Cardinality(PumpsOf(c)') \in Nat
    BY <1>1, <2>2, PumpsFinite, FS_RemoveElement, FS_CardinalityType
  <2>4. wg' = [wg EXCEPT ![c] = @ - 1]
    BY <1>1, <1>3 DEF Finish
  <2>5. wg \in [Clients -> Nat] /\ wg[c] = Cardinality(PumpsOf(c))
    BY <1>1 DEF TypeOK, WgCounts
  <2>6. wg'[c] = Cardinality(PumpsOf(c)') /\ wg' \in [Clients -> Nat]
    BY <1>1, <2>3, <2>4, <2>5
  <2>7. \A d \in Clients \ {c} : wg'[d] = Cardinality(PumpsOf(d)')
    BY <2>1, <2>4, <2>5 DEF WgCounts
  <2>8. \A d \in Clients : wg'[d] = Cardinality(PumpsOf(d)')
    BY <2>6, <2>7
  <2>9. QED
    BY <2>6, <2>8 DEF WgCounts
<1>4. CASE ~Profile(s).counted
  <2>1. \A d \in Clients : PumpsOf(d)' = PumpsOf(d)
    BY <1>2, <1>4 DEF PumpsOf
  <2>2. wg' = wg
    BY <1>4 DEF Finish
  <2>3. QED
    BY <2>1, <2>2 DEF WgCounts, TypeOK
<1>5. QED
  BY <1>0, <1>3, <1>4


-----------------------------------------------------------------------------
(***************************************************************************)
(* Steps that neither start nor end a pump.                                *)
(***************************************************************************)

Quiet ==
    /\ kind' = kind /\ wg' = wg /\ late' = late /\ closing' = closing
    /\ \A s \in Subs : Live(s)' = Live(s)

\* A step that neither starts nor ends a pump, and is not one of Close, keeps
\* the wait groups exact and every wait covered.
LEMMA QuietKeepsCounts ==
    ASSUME WgCounts, WaitCoversPumps, Quiet
    PROVE  WgCounts' /\ WaitCoversPumps'
<1>1. WgCounts'
  BY SamePumps DEF Quiet
<1>2. WaitCoversPumps'
  BY DEF Quiet, WaitCoversPumps, Profile, Waited
<1>3. QED
  BY <1>1, <1>2

\* The steps of one subscription other than the start and the end of its pump.
QuietStep(s) ==
    \/ OpenStream(s)
    \/ ReceiveValue(s)
    \/ ReceiveBad(s)
    \/ ReceiveEOF(s)
    \/ ReceiveError(s)
    \/ Report(s)
    \/ ReportHandover(s)
    \/ ReportCancelled(s)
    \/ Deliver(s)
    \/ DeliverHandover(s)
    \/ DeliverCancelled(s)
    \/ TakeUpdate(s)
    \/ TakeError(s)
    \/ Cancel(s)
    \/ \E ch \in {"upd", "err"} : CloseChan(s, ch)
    \/ LndStep(s)

\* Receiving, reporting, delivering, closing channels, reading and cancelling
\* start and end no pump.
LEMMA QuietStepIsQuiet ==
    ASSUME TypeOK, NEW s \in Subs, QuietStep(s)
    PROVE  Quiet
<1>0. pc \in [Subs -> {"unused", "launch", "recv", "deliver", "report",
                     "exit", "done"}]
  BY DEF TypeOK
<1>1. CASE OpenStream(s)
  BY <1>0, <1>1 DEF Quiet, Live, OpenStream,
     pumpVars, lndVars, chanVars, readVars, svcVars
<1>2. CASE ReceiveValue(s)
  BY <1>0, <1>2 DEF Quiet, Live, ReceiveValue,
     pumpVars, lndVars, chanVars, readVars, svcVars
<1>3. CASE ReceiveBad(s)
  BY <1>0, <1>3 DEF Quiet, Live, ReceiveBad,
     pumpVars, lndVars, chanVars, readVars, svcVars
<1>4. CASE ReceiveEOF(s)
  BY <1>0, <1>4 DEF Quiet, Live, ReceiveEOF,
     pumpVars, lndVars, chanVars, readVars, svcVars
<1>5. CASE ReceiveError(s)
  BY <1>0, <1>5 DEF Quiet, Live, ReceiveError,
     pumpVars, lndVars, chanVars, readVars, svcVars
<1>6. CASE Report(s)
  BY <1>0, <1>6 DEF Quiet, Live, Report, AfterReport,
     pumpVars, lndVars, chanVars, readVars, svcVars
<1>7. CASE ReportHandover(s)
  BY <1>0, <1>7 DEF Quiet, Live, ReportHandover, AfterReport,
     pumpVars, lndVars, chanVars, readVars, svcVars
<1>8. CASE ReportCancelled(s)
  BY <1>0, <1>8 DEF Quiet, Live, ReportCancelled, AfterReport,
     pumpVars, lndVars, chanVars, readVars, svcVars
<1>9. CASE Deliver(s)
  BY <1>0, <1>9 DEF Quiet, Live, Deliver, AfterDelivery,
     pumpVars, lndVars, chanVars, readVars, svcVars
<1>10. CASE DeliverHandover(s)
  BY <1>0, <1>10 DEF Quiet, Live, DeliverHandover, AfterDelivery,
     pumpVars, lndVars, chanVars, readVars, svcVars
<1>11. CASE DeliverCancelled(s)
  BY <1>0, <1>11 DEF Quiet, Live, DeliverCancelled,
     pumpVars, lndVars, chanVars, readVars, svcVars
<1>12. CASE TakeUpdate(s)
  BY <1>0, <1>12 DEF Quiet, Live, TakeUpdate,
     pumpVars, lndVars, chanVars, readVars, svcVars
<1>13. CASE TakeError(s)
  BY <1>0, <1>13 DEF Quiet, Live, TakeError,
     pumpVars, lndVars, chanVars, readVars, svcVars
<1>14. CASE Cancel(s)
  BY <1>0, <1>14 DEF Quiet, Live, Cancel,
     pumpVars, lndVars, chanVars, readVars, svcVars
<1>15. CASE \E ch \in {"upd", "err"} : CloseChan(s, ch)
  BY <1>0, <1>15 DEF Quiet, Live, CloseChan,
     pumpVars, lndVars, chanVars, readVars, svcVars
<1>16. CASE LndStep(s)
  BY <1>0, <1>16 DEF Quiet, Live, LndStep, LndSends, LndEnds,
     pumpVars, lndVars, chanVars, readVars, svcVars
<1>17. QED
  BY <1>1, <1>2, <1>3, <1>4, <1>5, <1>6, <1>7, <1>8,
     <1>9, <1>10, <1>11, <1>12, <1>13, <1>14, <1>15, <1>16 DEF QuietStep

\* They keep the types as well.
LEMMA QuietStepTypes ==
    ASSUME TypeOK, NEW s \in Subs, QuietStep(s)
    PROVE  TypeOK'
<1>1. CASE OpenStream(s)
  BY <1>1 DEF TypeOK, OpenStream,
     pumpVars, lndVars, chanVars, readVars, svcVars
<1>2. CASE ReceiveValue(s)
  BY <1>2, SMTT(30) DEF TypeOK, ReceiveValue,
     pumpVars, lndVars, chanVars, readVars, svcVars
<1>3. CASE ReceiveBad(s)
  BY <1>3, SMTT(30) DEF TypeOK, ReceiveBad,
     pumpVars, lndVars, chanVars, readVars, svcVars
<1>4. CASE ReceiveEOF(s)
  BY <1>4 DEF TypeOK, ReceiveEOF,
     pumpVars, lndVars, chanVars, readVars, svcVars
<1>5. CASE ReceiveError(s)
  BY <1>5 DEF TypeOK, ReceiveError,
     pumpVars, lndVars, chanVars, readVars, svcVars
<1>6. CASE Report(s)
  <2>1. errs' \in [Subs -> Nat]
    BY <1>6 DEF TypeOK, Report
  <2>2. pc' \in [Subs -> {"unused", "launch", "recv", "deliver", "report",
                          "exit", "done"}]
    BY <1>6 DEF TypeOK, Report, AfterReport
  <2>3. QED
    BY <1>6, <2>1, <2>2 DEF TypeOK, Report, lndVars, readVars, svcVars
<1>7. CASE ReportHandover(s)
  BY <1>7, SMTT(30) DEF TypeOK, ReportHandover, AfterReport,
     pumpVars, lndVars, chanVars, readVars, svcVars
<1>8. CASE ReportCancelled(s)
  BY <1>8 DEF TypeOK, ReportCancelled, AfterReport,
     pumpVars, lndVars, chanVars, readVars, svcVars
<1>9. CASE Deliver(s)
  BY <1>9, SMTT(30) DEF TypeOK, Deliver, AfterDelivery,
     pumpVars, lndVars, chanVars, readVars, svcVars
<1>10. CASE DeliverHandover(s)
  BY <1>10, SMTT(30) DEF TypeOK, DeliverHandover, AfterDelivery,
     pumpVars, lndVars, chanVars, readVars, svcVars
<1>11. CASE DeliverCancelled(s)
  BY <1>11 DEF TypeOK, DeliverCancelled,
     pumpVars, lndVars, chanVars, readVars, svcVars
<1>12. CASE TakeUpdate(s)
  <2>1. upd[s] \in Seq(Nat) /\ upd[s] # <<>>
    BY <1>12 DEF TypeOK, TakeUpdate
  <2>2. Head(upd[s]) \in Nat /\ Tail(upd[s]) \in Seq(Nat)
    BY <2>1
  <2>3. got' \in [Subs -> Seq(Nat)] /\ upd' \in [Subs -> Seq(Nat)]
    BY <1>12, <2>2, SMTT(30) DEF TypeOK, TakeUpdate
  <2>4. QED
    BY <1>12, <2>3 DEF TypeOK, TakeUpdate, pumpVars, lndVars, svcVars
<1>13. CASE TakeError(s)
  <2>1. errs[s] - 1 \in Nat /\ errGot[s] + 1 \in Nat
    BY <1>13 DEF TypeOK, TakeError
  <2>2. errs' \in [Subs -> Nat] /\ errGot' \in [Subs -> Nat]
    BY <1>13, <2>1 DEF TypeOK, TakeError
  <2>3. QED
    BY <1>13, <2>2 DEF TypeOK, TakeError, pumpVars, lndVars, svcVars
<1>14. CASE Cancel(s)
  BY <1>14 DEF TypeOK, Cancel,
     pumpVars, lndVars, chanVars, readVars, svcVars
<1>15. CASE \E ch \in {"upd", "err"} : CloseChan(s, ch)
  BY <1>15, SMTT(30) DEF TypeOK, CloseChan,
     pumpVars, lndVars, chanVars, readVars, svcVars
<1>16. CASE LndStep(s)
  <2>1. MessageClass(s) \subseteq {"value", "bad", "final"}
    BY DEF MessageClass
  <2>2. ASSUME NEW class \in MessageClass(s), LndSends(s, class)
        PROVE  TypeOK'
    BY <2>1, <2>2, SMTT(30) DEF TypeOK, LndSends, pumpVars, chanVars, readVars, svcVars
  <2>3. ASSUME NEW how \in {"eof", "err"}, LndEnds(s, how)
        PROVE  TypeOK'
    BY <2>3 DEF TypeOK, LndEnds, pumpVars, chanVars, readVars, svcVars
  <2>4. QED
    BY <1>16, <2>2, <2>3 DEF LndStep
<1>17. QED
  BY <1>1, <1>2, <1>3, <1>4, <1>5, <1>6, <1>7, <1>8,
     <1>9, <1>10, <1>11, <1>12, <1>13, <1>14, <1>15, <1>16 DEF QuietStep

-----------------------------------------------------------------------------
(***************************************************************************)
(* The steps that start and end a pump, and those of Close.                *)
(***************************************************************************)

\* Starting a pump keeps the invariant: a pump added after its client was
\* waited for is late.
LEMMA LaunchKeepsInv ==
    ASSUME Inv, NEW s \in Subs, Launch(s)
    PROVE  Inv'
<1>1. WgCounts' /\ wg' \in [Clients -> Nat]
  BY LaunchCounts DEF Inv
<1>2. late' \in [Subs -> BOOLEAN]
  BY DEF Inv, TypeOK, Launch, Waited
<1>3. pc' \in [Subs -> {"unused", "launch", "recv", "deliver", "report",
                        "exit", "done"}]
  BY DEF Inv, TypeOK, Launch
<1>4. TypeOK'
  BY <1>1, <1>2, <1>3 DEF Inv, TypeOK, Launch, lndVars, chanVars, readVars
<1>5. WaitCoversPumps'
  <2>1. SUFFICES ASSUME NEW t \in Subs, Live(t)', Profile(t).counted',
                        ~late'[t], Waited(Profile(t).client)'
                 PROVE  FALSE
    BY DEF WaitCoversPumps
  <2>2. Profile(t)' = Profile(t) /\ closing' = closing
    BY DEF Launch, Profile
  <2>3. CASE t = s
    BY <2>1, <2>2, <2>3 DEF Inv, TypeOK, Launch, Waited
  <2>4. CASE t # s
    BY <2>1, <2>2, <2>4, SMTT(30) DEF Inv, TypeOK, WaitCoversPumps, Launch, Live, Waited
  <2>5. QED
    BY <2>3, <2>4
<1>6. QED
  BY <1>1, <1>4, <1>5 DEF Inv

\* Ending a pump keeps the invariant.
LEMMA FinishKeepsInv ==
    ASSUME Inv, NEW s \in Subs, Finish(s)
    PROVE  Inv'
<1>1. WgCounts' /\ wg' \in [Clients -> Nat]
  BY FinishCounts DEF Inv
<1>2. pc' \in [Subs -> {"unused", "launch", "recv", "deliver", "report",
                        "exit", "done"}]
  BY DEF Inv, TypeOK, Finish
<1>3. TypeOK'
  BY <1>1, <1>2 DEF Inv, TypeOK, Finish, lndVars, chanVars, readVars
<1>4. WaitCoversPumps'
  BY DEF Inv, TypeOK, WaitCoversPumps, Finish, Live, Profile, Waited
<1>5. QED
  BY <1>1, <1>3, <1>4 DEF Inv

\* cleanup waits for four clients.
LEMMA FourWaits == Len(WaitOrder) = 4 /\ DOMAIN WaitOrder = 1 .. 4
BY DEF WaitOrder

\* Closing the connection keeps the invariant: it ends no wait.
LEMMA CloseConnKeepsInv ==
    ASSUME Inv, CloseConn
    PROVE  Inv'
<1>1. WgCounts'
  BY SamePumps DEF Inv, CloseConn, Live, pumpVars
<1>2. TypeOK'
  <2>1. closing' \in 0 .. Len(WaitOrder) + 1
    BY FourWaits DEF CloseConn
  <2>2. QED
    BY <2>1 DEF Inv, TypeOK, CloseConn, pumpVars, lndVars, chanVars, readVars
<1>3. WaitCoversPumps'
  BY DEF Inv, WaitCoversPumps, CloseConn, Live, Profile, Waited, WaitOrder,
     pumpVars
<1>4. QED
  BY <1>1, <1>2, <1>3 DEF Inv

\* The step that the invariant is about: Close goes past a client only when the
\* client's wait group is empty, and an empty group means that no pump is left.
LEMMA WaitForFinishedKeepsInv ==
    ASSUME Inv, WaitForFinished
    PROVE  Inv'
<1>1. WgCounts'
  BY SamePumps DEF Inv, WaitForFinished, Live, pumpVars
<1>2. TypeOK'
  BY DEF Inv, TypeOK, WaitForFinished, pumpVars, lndVars, chanVars, readVars,
     WaitOrder
<1>3. PICK c \in Clients : c = WaitOrder[closing]
  BY DEF WaitForFinished, WaitOrder, Clients
<1>4. PumpsOf(c) = {}
  <2>1. Cardinality(PumpsOf(c)) = 0
    BY <1>3 DEF Inv, WgCounts, WaitForFinished
  <2>2. QED
    BY <2>1, PumpsFinite, FS_EmptySet
<1>5. \A d : Waited(d)' => Waited(d) \/ d = c
  <2>1. /\ closing \in DOMAIN WaitOrder /\ closing' = closing + 1
        /\ \A i \in DOMAIN WaitOrder : closing' > i => closing > i \/ i = closing
    BY FourWaits DEF WaitForFinished
  <2>2. QED
    BY <1>3, <2>1 DEF Waited
<1>6. WaitCoversPumps'
  BY <1>4, <1>5 DEF Inv, WaitCoversPumps, WaitForFinished, PumpsOf, Live,
     Profile, pumpVars
<1>7. QED
  BY <1>1, <1>2, <1>6 DEF Inv

-----------------------------------------------------------------------------

\* Before the first subscription every wait group is empty.
LEMMA InitInv == Init => Inv
<1> SUFFICES ASSUME Init PROVE Inv
  OBVIOUS
<1>1. TypeOK
  BY DEF Init, TypeOK, WaitOrder
<1>2. \A c \in Clients : PumpsOf(c) = {}
  BY DEF Init, PumpsOf, Live
<1>3. WgCounts
  BY <1>2, FS_EmptySet DEF Init, WgCounts
<1>4. WaitCoversPumps
  BY DEF Init, WaitCoversPumps, Live
<1>5. QED
  BY <1>1, <1>3, <1>4 DEF Inv

\* Every step keeps the invariant.
LEMMA NextInv == Inv /\ [Next]_vars => Inv'
<1> SUFFICES ASSUME Inv, [Next]_vars PROVE Inv'
  OBVIOUS
<1>1. ASSUME NEW s \in Subs, QuietStep(s)
      PROVE  Inv'
  BY <1>1, QuietStepIsQuiet, QuietStepTypes, QuietKeepsCounts DEF Inv
<1>2. CASE UNCHANGED vars
  <2>1. Quiet
    BY <1>2 DEF Quiet, Live, vars, pumpVars, svcVars
  <2>2. TypeOK'
    BY <1>2 DEF Inv, TypeOK, vars, pumpVars, lndVars, chanVars, readVars, svcVars
  <2>3. QED
    BY <2>1, <2>2, QuietKeepsCounts DEF Inv
<1>3. CASE CloseConn
  BY <1>3, CloseConnKeepsInv
<1>4. CASE WaitForFinished
  BY <1>4, WaitForFinishedKeepsInv
<1>5. ASSUME NEW s \in Subs, PumpStep(s) \/ CallerStep(s) \/ LndStep(s)
      PROVE  Inv'
  <2>1. QuietStep(s) \/ Launch(s) \/ Finish(s)
    BY <1>5 DEF PumpStep, CallerStep, QuietStep
  <2>2. QED
    BY <1>1, <2>1, LaunchKeepsInv, FinishKeepsInv
<1>6. QED
  BY <1>2, <1>3, <1>4, <1>5 DEF Next

\* The inductive invariant holds in every behaviour.
THEOREM Invariance == Spec => []Inv
<1>1. Init => Inv
  BY InitInv
<1>2. Inv /\ [Next]_vars => Inv'
  BY NextInv
<1>3. QED
  BY <1>1, <1>2, PTL DEF Spec

\* Every variable keeps its type; in particular no wait group goes negative,
\* which in Go is a panic.
THEOREM TypeCorrect == Spec => []TypeOK
<1>1. Inv => TypeOK
  BY DEF Inv
<1>2. QED
  BY <1>1, Invariance, PTL

\* Once Close is past the WaitForFinished of a client, no pump that was added
\* to its wait group before the wait is left.
THEOREM WaitIsSound == Spec => []WaitCoversPumps
<1>1. Inv => WaitCoversPumps
  BY DEF Inv
<1>2. QED
  BY <1>1, Invariance, PTL

-----------------------------------------------------------------------------
(***************************************************************************)
(* The channels of a subscription whose client Close is past only drain:   *)
(* only a running pump sends or closes, and none is running.               *)
(***************************************************************************)

OnlyDrains(s) ==
    /\ Passed(s)' = Passed(s)
    /\ errs'[s] + errGot'[s] = errs[s] + errGot[s]
    /\ closed'[s] = closed[s]

\* Taking an update from the buffer leaves the updates that were passed.
LEMMA TakeKeeps ==
    ASSUME NEW g \in Seq(Nat), NEW u \in Seq(Nat), u # <<>>
    PROVE  Append(g, Head(u)) \o Tail(u) = g \o u
<1>1. Append(g, Head(u)) \in Seq(Nat) /\ Tail(u) \in Seq(Nat)
  OBVIOUS
<1>2. Len(Append(g, Head(u)) \o Tail(u)) = Len(g \o u)
  BY <1>1
<1>3. \A i \in 1 .. Len(g \o u) :
          (Append(g, Head(u)) \o Tail(u))[i] = (g \o u)[i]
  BY <1>1
<1>4. Append(g, Head(u)) \o Tail(u) \in Seq(Nat) /\ g \o u \in Seq(Nat)
  BY <1>1, ConcatProperties
<1>5. QED
  BY <1>2, <1>3, <1>4, SeqEqual, Zenon

\* What a step leaves alone of a subscription's channels and of what was read
\* from them.
Untouched(s) ==
    /\ got'[s] = got[s] /\ upd'[s] = upd[s] /\ closed'[s] = closed[s]
    /\ errs'[s] = errs[s] /\ errGot'[s] = errGot[s]

LEMMA UntouchedDrains ==
    ASSUME NEW s \in Subs, Untouched(s)
    PROVE  OnlyDrains(s)
BY DEF Untouched, OnlyDrains, Passed

\* No step of any goroutine puts something on, or closes, the channels of a
\* pump that does not run.
LEMMA QuietDrains ==
    ASSUME TypeOK, NEW s \in Subs, ~Live(s), NEW t \in Subs, QuietStep(t)
    PROVE  OnlyDrains(s)
<1>0. /\ upd \in [Subs -> Seq(Nat)] /\ got \in [Subs -> Seq(Nat)]
      /\ errs \in [Subs -> Nat] /\ errGot \in [Subs -> Nat]
      /\ closed \in [Subs -> SUBSET {"upd", "err"}]
      /\ pc[s] \notin {"recv", "deliver", "report", "exit"}
  BY DEF TypeOK, Live
<1>1. CASE OpenStream(t)
  BY <1>0, <1>1, UntouchedDrains DEF Untouched, OpenStream, chanVars, readVars
<1>2. CASE ReceiveValue(t)
  BY <1>0, <1>2, UntouchedDrains DEF Untouched, ReceiveValue, chanVars, readVars
<1>3. CASE ReceiveBad(t)
  BY <1>0, <1>3, UntouchedDrains DEF Untouched, ReceiveBad, chanVars, readVars
<1>4. CASE ReceiveEOF(t)
  BY <1>0, <1>4, UntouchedDrains DEF Untouched, ReceiveEOF, chanVars, readVars
<1>5. CASE ReceiveError(t)
  BY <1>0, <1>5, UntouchedDrains DEF Untouched, ReceiveError, chanVars, readVars
<1>6. CASE Report(t)
  BY <1>0, <1>6, UntouchedDrains DEF Untouched, Report, chanVars, readVars
<1>7. CASE ReportHandover(t)
  BY <1>0, <1>7, UntouchedDrains DEF Untouched, ReportHandover, chanVars, readVars
<1>8. CASE ReportCancelled(t)
  BY <1>0, <1>8, UntouchedDrains DEF Untouched, ReportCancelled, chanVars, readVars
<1>9. CASE Deliver(t)
  BY <1>0, <1>9, UntouchedDrains DEF Untouched, Deliver, chanVars, readVars
<1>10. CASE DeliverHandover(t)
  BY <1>0, <1>10, UntouchedDrains DEF Untouched, DeliverHandover, chanVars, readVars
<1>11. CASE DeliverCancelled(t)
  BY <1>0, <1>11, UntouchedDrains DEF Untouched, DeliverCancelled, chanVars, readVars
<1>12. CASE TakeUpdate(t)
  <2>1. errs' = errs /\ closed' = closed /\ errGot' = errGot
    BY <1>12 DEF TakeUpdate
  <2>2. CASE t = s
    <3>1. /\ upd[s] # <<>> /\ upd'[s] = Tail(upd[s])
          /\ got'[s] = Append(got[s], Head(upd[s]))
      BY <1>0, <1>12, <2>2 DEF TakeUpdate
    <3>2. got[s] \in Seq(Nat) /\ upd[s] \in Seq(Nat)
      BY <1>0
    <3>3. got'[s] \o upd'[s] = got[s] \o upd[s]
      BY <3>1, <3>2, TakeKeeps
    <3>4. QED
      BY <2>1, <3>3 DEF OnlyDrains, Passed
  <2>3. CASE t # s
    BY <1>0, <1>12, <2>1, <2>3, UntouchedDrains DEF Untouched, TakeUpdate
  <2>4. QED
    BY <2>2, <2>3
<1>13. CASE TakeError(t)
  <2>1. got' = got /\ upd' = upd /\ closed' = closed
    BY <1>13 DEF TakeError
  <2>2. errs'[s] + errGot'[s] = errs[s] + errGot[s]
    BY <1>0, <1>13 DEF TakeError
  <2>3. QED
    BY <2>1, <2>2 DEF OnlyDrains, Passed
<1>14. CASE Cancel(t)
  BY <1>14, UntouchedDrains DEF Untouched, Cancel, chanVars, readVars
<1>15. CASE \E ch \in {"upd", "err"} : CloseChan(t, ch)
  BY <1>0, <1>15, UntouchedDrains DEF Untouched, CloseChan, readVars
<1>16. CASE LndStep(t)
  BY <1>16, UntouchedDrains
     DEF Untouched, LndStep, LndSends, LndEnds, chanVars, readVars
<1>17. QED
  BY <1>1, <1>2, <1>3, <1>4, <1>5, <1>6, <1>7, <1>8,
     <1>9, <1>10, <1>11, <1>12, <1>13, <1>14, <1>15, <1>16 DEF QuietStep

\* The same for every step there is.
LEMMA StepDrains ==
    ASSUME TypeOK, [Next]_vars, NEW s \in Subs, ~Live(s)
    PROVE  OnlyDrains(s)
<1>1. ASSUME chanVars' = chanVars, readVars' = readVars
      PROVE  OnlyDrains(s)
  BY <1>1, UntouchedDrains DEF Untouched, chanVars, readVars
<1>2. CASE UNCHANGED vars \/ CloseConn \/ WaitForFinished
  BY <1>1, <1>2 DEF vars, CloseConn, WaitForFinished
<1>3. ASSUME NEW t \in Subs, PumpStep(t) \/ CallerStep(t) \/ LndStep(t)
      PROVE  OnlyDrains(s)
  <2>1. QuietStep(t) \/ Launch(t) \/ Finish(t)
    BY <1>3 DEF PumpStep, CallerStep, QuietStep
  <2>2. CASE Launch(t) \/ Finish(t)
    BY <1>1, <2>2 DEF Launch, Finish
  <2>3. QED
    BY <2>1, <2>2, QuietDrains
<1>4. QED
  BY <1>2, <1>3 DEF Next

\* Past the WaitForFinished of a client, nothing is sent on the channels of its
\* counted subscriptions, into a buffer or straight to a reader, and none of them
\* is closed.
THEOREM ReleasedChannelsDrain == Spec => ChannelsOnlyDrain
<1>1. Inv /\ [Next]_vars =>
        [\A s \in Subs :
            Profile(s).counted /\ ~late[s] /\ Waited(Profile(s).client) =>
                late'[s] \/ OnlyDrains(s)]_vars
  BY StepDrains DEF Inv, WaitCoversPumps
<1>2. Inv /\ [Next]_vars =>
        [\A s \in Subs :
            Profile(s).counted /\ ~late[s] /\ Waited(Profile(s).client) =>
                \/ late'[s]
                \/ /\ Passed(s)' = Passed(s)
                   /\ errs'[s] + errGot'[s] = errs[s] + errGot[s]
                   /\ closed'[s] = closed[s]]_vars
  BY <1>1 DEF OnlyDrains
<1>3. QED
  BY <1>2, Invariance, PTL DEF Spec, ChannelsOnlyDrain

-----------------------------------------------------------------------------
(***************************************************************************)
(* A pump reports at most one error, because it returns after the report.  *)
(* SubscribeTransactions is the one method of which this is not true.      *)
(***************************************************************************)

OneReport ==
    \A s \in Subs :
        /\ pc[s] \in {"unused", "launch", "recv", "deliver", "report"} =>
              errs[s] = 0
        /\ pc[s] = "report" => cause[s] = "error"

\* Every method but SubscribeTransactions returns after a conversion error.
LEMMA OthersReturn ==
    \A k \in DOMAIN Profiles \ {"SubscribeTransactions"} : Profiles[k].convReturns
<1>1. SubscribeGraph.convReturns
  BY DEF SubscribeGraph
<1>2. SubscribeChannelEvents.convReturns
  BY DEF SubscribeChannelEvents, SubscribeGraph
<1>3. SubscribeChannelBackups.convReturns
  BY DEF SubscribeChannelBackups, SubscribeGraph
<1>4. OpenChannelStream.convReturns
  BY DEF OpenChannelStream, SubscribeGraph
<1>5. CloseChannel.convReturns
  BY DEF CloseChannel, SubscribeGraph
<1>6. SubscribeInvoices.convReturns
  BY DEF SubscribeInvoices, SubscribeGraph
<1>7. SubscribeCustomMessages.convReturns
  BY DEF SubscribeCustomMessages, SubscribeGraph
<1>8. SubscribeSingleInvoice.convReturns
  BY DEF SubscribeSingleInvoice, SubscribeGraph
<1>9. RegisterBlockEpochNtfn.convReturns
  BY DEF RegisterBlockEpochNtfn, SubscribeGraph
<1>10. SubscribeState.convReturns
  BY DEF SubscribeState, SubscribeGraph
<1>11. trackPayment.convReturns
  BY DEF trackPayment, SubscribeGraph
<1>12. SubscribeHtlcEvents.convReturns
  BY DEF SubscribeHtlcEvents, SubscribeGraph
<1>13. QED
  BY <1>1, <1>2, <1>3, <1>4, <1>5, <1>6, <1>7,
     <1>8, <1>9, <1>10, <1>11, <1>12 DEF Profiles

\* A pump that is about to report has reported nothing yet.
LEMMA QuietKeepsOneReport ==
    ASSUME "SubscribeTransactions" \notin Kinds,
           TypeOK, OneReport, NEW s \in Subs, QuietStep(s)
    PROVE  OneReport'
<1>1. CASE OpenStream(s)
  BY <1>1 DEF TypeOK, OneReport, OpenStream,
     pumpVars, lndVars, chanVars
<1>2. CASE ReceiveValue(s)
  BY <1>2 DEF TypeOK, OneReport, ReceiveValue,
     pumpVars, lndVars, chanVars
<1>3. CASE ReceiveBad(s)
  BY <1>3, OthersReturn DEF TypeOK, OneReport, Profile, ReceiveBad,
     pumpVars, lndVars, chanVars
<1>4. CASE ReceiveEOF(s)
  BY <1>4 DEF TypeOK, OneReport, ReceiveEOF,
     pumpVars, lndVars, chanVars
<1>5. CASE ReceiveError(s)
  BY <1>5 DEF TypeOK, OneReport, ReceiveError,
     pumpVars, lndVars, chanVars
<1>6. CASE Report(s)
  BY <1>6 DEF TypeOK, OneReport, Report, AfterReport,
     pumpVars, lndVars, chanVars
<1>7. CASE ReportHandover(s)
  BY <1>7 DEF TypeOK, OneReport, ReportHandover, AfterReport,
     pumpVars, lndVars, chanVars
<1>8. CASE ReportCancelled(s)
  BY <1>8 DEF TypeOK, OneReport, ReportCancelled, AfterReport,
     pumpVars, lndVars, chanVars
<1>9. CASE Deliver(s)
  BY <1>9 DEF TypeOK, OneReport, Deliver, AfterDelivery,
     pumpVars, lndVars, chanVars
<1>10. CASE DeliverHandover(s)
  BY <1>10 DEF TypeOK, OneReport, DeliverHandover, AfterDelivery,
     pumpVars, lndVars, chanVars
<1>11. CASE DeliverCancelled(s)
  BY <1>11, SMTT(30) DEF TypeOK, OneReport, DeliverCancelled,
     pumpVars, lndVars, chanVars
<1>12. CASE TakeUpdate(s)
  BY <1>12 DEF TypeOK, OneReport, TakeUpdate,
     pumpVars, lndVars, chanVars
<1>13. CASE TakeError(s)
  BY <1>13, SMTT(30) DEF TypeOK, OneReport, TakeError,
     pumpVars, lndVars, chanVars
<1>14. CASE Cancel(s)
  BY <1>14 DEF TypeOK, OneReport, Cancel,
     pumpVars, lndVars, chanVars
<1>15. CASE \E ch \in {"upd", "err"} : CloseChan(s, ch)
  BY <1>15 DEF TypeOK, OneReport, CloseChan,
     pumpVars, lndVars, chanVars
<1>16. CASE LndStep(s)
  BY <1>16 DEF TypeOK, OneReport, LndStep, LndSends, LndEnds,
     pumpVars, lndVars, chanVars
<1>17. QED
  BY <1>1, <1>2, <1>3, <1>4, <1>5, <1>6, <1>7, <1>8,
     <1>9, <1>10, <1>11, <1>12, <1>13, <1>14, <1>15, <1>16 DEF QuietStep

\* So no goroutine of theirs has reported an error before its last.
LEMMA OneReportHolds ==
    ASSUME "SubscribeTransactions" \notin Kinds
    PROVE  Spec => []OneReport
<1>1. Init => OneReport
  BY DEF Init, OneReport
<1>2. TypeOK /\ OneReport /\ [Next]_vars => OneReport'
  <2> SUFFICES ASSUME TypeOK, OneReport, [Next]_vars PROVE OneReport'
    OBVIOUS
  <2>1. CASE UNCHANGED vars \/ CloseConn \/ WaitForFinished
    BY <2>1 DEF OneReport, vars, CloseConn, WaitForFinished, pumpVars, chanVars
  <2>2. ASSUME NEW s \in Subs, PumpStep(s) \/ CallerStep(s) \/ LndStep(s)
        PROVE  OneReport'
    <3>1. QuietStep(s) \/ Launch(s) \/ Finish(s)
      BY <2>2 DEF PumpStep, CallerStep, QuietStep
    <3>2. CASE Launch(s)
      BY <3>2 DEF TypeOK, OneReport, Launch, chanVars
    <3>3. CASE Finish(s)
      BY <3>3 DEF TypeOK, OneReport, Finish, chanVars
    <3>4. QED
      BY <3>1, <3>2, <3>3, QuietKeepsOneReport
  <2>3. QED
    BY <2>1, <2>2 DEF Next
<1>3. QED
  BY <1>1, <1>2, TypeCorrect, PTL DEF Spec

\* A pump never has to wait for room in a buffered error channel, whatever the
\* caller does, for every method but SubscribeTransactions.
THEOREM ErrorSendsFindRoom ==
    ASSUME "SubscribeTransactions" \notin Kinds
    PROVE  Spec => []ErrorSendNeverBlocks
<1>1. TypeOK /\ OneReport => ErrorSendNeverBlocks
  BY ProfileOfSub DEF TypeOK, OneReport, ErrorSendNeverBlocks, ProfileType
<1>2. QED
  BY <1>1, OneReportHolds, TypeCorrect, PTL

=============================================================================
