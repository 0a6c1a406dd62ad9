------------------------------ MODULE Answers ------------------------------
(***************************************************************************)
(* What the client makes of lnd's answers: the records of its lists and    *)
(* its channels (lightning_client.go, router_client.go).  A record is its  *)
(* state, "strange" standing for anything the client cannot convert,       *)
(* whether it is of an AMP invoice and whether lnd sends a preimage with   *)
(* it; the rest of it is passed on as it is.                               *)
(***************************************************************************)
EXTENDS Integers, Sequences

-----------------------------------------------------------------------------
(* Pages of payments, invoices and forwards. *)

Converts(record) == record.state # "strange"

\* A faulty conversion that shows what lnd sends.
UnmarshalInvoiceAlways(record) ==
    [state |-> record.state, preimage |-> record.preimage]

\* The preimage is shown of a settled invoice only, and not of an AMP one, which
\* has none of its own.
UnmarshalInvoice(record) ==
    [state |-> record.state,
     preimage |-> record.state = "done" /\ ~ record.amp]

\* A faulty status with whatever preimage lnd sends.
PaymentStatusAlways(record) ==
    [state |-> record.state, preimage |-> record.preimage]

\* The preimage in the status is that of a settled payment.
UnmarshallPaymentStatus(record) ==
    [state |-> record.state,
     preimage |-> record.state = "done" /\ record.preimage]

\* A payment has its status and, whatever the status is, the preimage lnd sends.
UnmarshalPayment(record) ==
    [status |-> UnmarshallPaymentStatus(record), preimage |-> record.preimage]

\* One record that does not convert fails the whole page.
Unmarshal(page, shown) ==
    [converts |-> \A k \in DOMAIN page.list : Converts(page.list[k].record),
     first |-> page.first, last |-> page.last,
     list |-> [k \in DOMAIN page.list |->
                  [index |-> page.list[k].index, is |-> shown[k]]]]

\* A forwarding event always converts, and has nothing but its numbers.
ForwardingHistoryResult(page) ==
    [converts |-> TRUE, last |-> page.last,
     list |-> [k \in DOMAIN page.list |->
                  [index |-> page.list[k].index, is |-> "forwarded"]]]

ListInvoicesResult(page) ==
    Unmarshal(page, [k \in DOMAIN page.list |-> UnmarshalInvoice(page.list[k].record)])

\* A faulty result that leaves out what does not convert.
ListPaymentsSkipStrange(page) ==
    LET good == SelectSeq(page.list, LAMBDA entry : Converts(entry.record))
    IN  Unmarshal([page EXCEPT !.list = good],
                  [k \in DOMAIN good |-> UnmarshalPayment(good[k].record)])

ListPaymentsResult(page) ==
    Unmarshal(page, [k \in DOMAIN page.list |-> UnmarshalPayment(page.list[k].record)])

-----------------------------------------------------------------------------
(* Channels. *)

ForceCloses == {"local force", "remote force", "breach"}
CloseTypes ==
    ForceCloses \cup {"cooperative", "funding canceled", "abandoned"}

\* Initiators of the RPC and of the client have the same names, but for the one
\* that is not known.
GetInitiator(initiator) ==
    IF initiator = "unknown" THEN "unrecorded" ELSE initiator

\* A faulty initiator: what lnd has recorded, whatever the close type tells.
RecordedInitiator(initiator, closeType) == GetInitiator(initiator)

\* The initiator of a force close is inferred from its type, as lnd has not always
\* recorded it.
RpcCloseInitiator(initiator, closeType) ==
    CASE closeType = "local force" -> "local"
      [] closeType \in {"remote force", "breach"} -> "remote"
      [] OTHER -> GetInitiator(initiator)

\* A close type that is unknown fails the whole list.
RpcCloseTypeKnown(closeType) == closeType \in CloseTypes

GetClosedChannel(summary) ==
    [list |-> "closed", type |-> summary.type,
     initiator |-> RpcCloseInitiator(summary.initiator, summary.type)]

ClosedChannelsResult(summaries) ==
    [converts |-> \A s \in summaries : RpcCloseTypeKnown(s.type),
     channels |-> {GetClosedChannel(s) : s \in summaries}]

\* A channel is shown in the list of its stage.
NewChannelInfo(channel) == [list |-> "open"]
NewPendingChannel(channel) == [list |-> channel.stage]

ListChannelsResult(channels) ==
    [converts |-> TRUE, channels |-> {NewChannelInfo(x) : x \in channels}]

\* A faulty result without the channels whose close is not confirmed.
PendingWithoutWaiting(channels) ==
    [converts |-> TRUE,
     channels |-> {NewPendingChannel(x) :
                      x \in {y \in channels : y.stage # "waiting close"}}]

PendingChannelsResult(channels) ==
    [converts |-> TRUE, channels |-> {NewPendingChannel(x) : x \in channels}]
=============================================================================
