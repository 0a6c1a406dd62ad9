----------------------------- MODULE UnaryCalls -----------------------------
(***************************************************************************)
(* The life of a unary call: it is sent, lnd executes it, once, late or    *)
(* never, and the call returns with what the client makes of the answer,   *)
(* or with an error when its deadline passes or its caller cancels; lnd    *)
(* may still execute it then.  Callers use calls that depend on earlier    *)
(* ones: pages of a list, lists of channels, leases and MuSig2 sessions.    *)
(* What lnd does is read off the requests and answers of the client.       *)
(***************************************************************************)
EXTENDS Requests, Answers

CONSTANTS
    MaxClock,       \* bound: lnd's clock in seconds
    MaxRecords,     \* bound: the records of lnd's list
    FirstRecords,   \* the records lnd has at first
    DefaultLease    \* the seconds lnd leases a coin for when it is not told

\* A payment, an invoice or a forward: its state, whether it is of an AMP invoice,
\* and whether lnd sends a preimage with it, as it does when it is settled and not
\* of an AMP invoice.
Records ==
    {r \in [state : {"open", "done", "canceled", "strange"}, amp : BOOLEAN,
            preimage : BOOLEAN] : r.state = "done" /\ ~ r.amp => r.preimage}

ASSUME RecordsAssumption == FirstRecords \in Seq(Records)

ASSUME ClockAssumption == {MaxClock, MaxRecords, DefaultLease} \subseteq Nat

\* A page of a list.  reversed and incomplete are fields of the request; "calls"
\* bounds the calls a caller makes.
ListMethods == {"ForwardingHistory", "ListInvoices", "ListPayments"}
LeaseMethods == {"LeaseOutput", "FundPsbt"}
ChannelLists == <<"ListChannels", "PendingChannels", "ClosedChannels">>
ChannelMethods == {ChannelLists[k] : k \in DOMAIN ChannelLists}

SessionMethods ==
    {"MuSig2RegisterNonces", "MuSig2Sign", "MuSig2CombineSig", "MuSig2Cleanup"}

PageRequests ==
    {r \in [method : ListMethods, max : 1 .. MaxRecords, reversed : BOOLEAN,
            incomplete : BOOLEAN, calls : Nat] :
        /\ r.method # "ListPayments" => r.incomplete
        /\ r.method = "ForwardingHistory" => ~ r.reversed}

\* A caller who looks for channels in all lists, one after the other.
ChannelRequests == [method : {"ListChannels"}, calls : Nat]

\* The holder of a coin, by LeaseOutput for a time or by FundPsbt; and the user of
\* MuSig2 sessions.
LeaseRequests ==
    [method : {"LeaseOutput"}, time : Nat, calls : Nat]
        \cup [method : {"FundPsbt"}, calls : Nat]
SessionRequests == [method : {"MuSig2CreateSession"}, calls : Nat]

UnaryRequests ==
    PageRequests \cup ChannelRequests \cup LeaseRequests \cup SessionRequests

ASSUME UnaryAssumption ==
    \A asked \in Asked : \A c \in Callers :
        asked[c] \in SimpleRequests \cup UnaryRequests

\* The lock IDs that callers choose are not lnd's own.
ASSUME LocksAssumption ==
    "lnd" \notin Callers /\ NoValue \notin [id : Callers \cup {"lnd"}, until : Nat]

VARIABLES
    clock,      \* lnd's
    lease,      \* who holds the coin at lnd, and until when
    records,    \* lnd's list of payments, invoices or forwards
    sessions,   \* lnd's MuSig2 sessions
    channel,    \* a channel of lnd's: its stage and how it ends
    flight,     \* the requests that lnd may still execute
    made,       \* the number of calls of each caller
    lastDone,   \* the last of them that lnd has executed, of a caller with leases
    answer,     \* lnd's answer to the call of a caller
    told        \* what a caller knows by the calls that have returned

lndVars == <<clock, lease, records, sessions, channel>>
callVars == <<flight, made, lastDone, answer, told>>
allVars == <<vars, lndVars, callVars>>

ToldAtFirst(r) ==
    IF r.method \in ListMethods
    THEN [offset |-> 0, seen |-> <<>>, must |-> {}, over |-> FALSE]
    ELSE IF r.method = "ListChannels" THEN [lists |-> 0, seen |-> {}, must |-> FALSE]
    ELSE IF r.method = "MuSig2CreateSession" THEN [known |-> {}, dropped |-> {}]
    ELSE NoValue

AllInit ==
    /\ Init
    /\ clock = 0
    /\ lease = NoValue
    /\ records = FirstRecords
    /\ sessions = {}
    /\ channel = [stage |-> "pending open"]
    /\ flight = {}
    /\ made = [c \in Callers |-> 0]
    /\ lastDone = [c \in Callers |-> 0]
    /\ answer = [c \in Callers |-> NoValue]
    /\ told = [c \in Callers |-> ToldAtFirst(req[c])]

-----------------------------------------------------------------------------
(* The common parts of calls. *)

\* The requests of a caller that lnd has not executed, and the current one.
Current(m) == at[m.by] = "waiting" /\ made[m.by] = m.n

\* A call is made, if its caller has not made its last one.
Call(c, rpc) ==
    /\ at[c] = "idle" /\ made[c] < req[c].calls
    /\ at' = [at EXCEPT ![c] = "waiting"]
    /\ wire' = [wire EXCEPT ![c] = rpc]
    /\ made' = [made EXCEPT ![c] = @ + 1]
    /\ flight' = flight \cup {[by |-> c, n |-> made[c] + 1, rpc |-> rpc]}
    /\ UNCHANGED <<req, keySent, own, listed, lndVars, lastDone, answer>>

\* lnd has executed a request, and its answer is on its way if anybody waits.
Done(m, value) ==
    /\ flight' = flight \ {m}
    /\ answer' = [answer EXCEPT ![m.by] = IF Current(m) THEN value ELSE @]
    /\ lastDone' = [lastDone EXCEPT ![m.by] =
                       IF req[m.by].method \in LeaseMethods THEN m.n ELSE @]
    /\ UNCHANGED <<vars, clock, made, told>>

\* lnd refuses a request, or it never reaches lnd.
LndFails(m) ==
    /\ flight' = flight \ {m}
    /\ answer' = [answer EXCEPT ![m.by] = IF Current(m) THEN [error |-> TRUE] ELSE @]
    /\ UNCHANGED <<vars, lndVars, made, lastDone, told>>

Returns(c) ==
    /\ at' = [at EXCEPT ![c] = "idle"]
    /\ wire' = [wire EXCEPT ![c] = NoValue]
    /\ answer' = [answer EXCEPT ![c] = NoValue]
    /\ UNCHANGED <<req, keySent, own, listed, lndVars, made, lastDone>>

\* What a caller who gets an error knows: a session may be there all the same.
Unknowing(c) ==
    IF wire[c].method = "MuSig2CreateSession"
    THEN [told EXCEPT ![c].dropped = @ \cup {made[c]}] ELSE told

Answered(c, method) ==
    at[c] = "waiting" /\ wire[c].method = method /\ answer[c] # NoValue

IsError(c) == "error" \in DOMAIN answer[c]

\* The call returns the error of lnd.
ReturnError(c) ==
    /\ at[c] = "waiting" /\ answer[c] # NoValue /\ IsError(c)
    /\ Returns(c)
    /\ told' = Unknowing(c)
    /\ UNCHANGED flight

\* The calls that change something at lnd.
Changing ==
    {"LeaseOutput", "ReleaseOutput", "FundPsbt", "MuSig2CreateSession"}
        \cup SessionMethods

\* The call's context is done, or its connection breaks, though lnd may have
\* executed the request or may do so later.
GiveUp(c) ==
    /\ at[c] = "waiting"
    /\ Returns(c)
    /\ told' = Unknowing(c)
    /\ flight' = {m \in flight : m.by = c => m.rpc.method \in Changing}

-----------------------------------------------------------------------------
(* Paged lists. *)

Wanted(rpc, record) == rpc.incomplete \/ record.state = "done"

ForwardingHistoryRequest(c) ==
    [method |-> "ForwardingHistory", offset |-> told[c].offset,
     max |-> req[c].max, reversed |-> FALSE, incomplete |-> TRUE]

\* PendingOnly of the caller's request is not passed on.
ListInvoicesRequest(c) ==
    [method |-> "ListInvoices", offset |-> told[c].offset,
     max |-> req[c].max, reversed |-> req[c].reversed, incomplete |-> TRUE]

ListPaymentsRequest(c) ==
    [method |-> "ListPayments", offset |-> told[c].offset, max |-> req[c].max,
     reversed |-> req[c].reversed, incomplete |-> req[c].incomplete]

PageRequest(c) ==
    CASE req[c].method = "ForwardingHistory" -> ForwardingHistoryRequest(c)
      [] req[c].method = "ListInvoices" -> ListInvoicesRequest(c)
      [] OTHER -> ListPaymentsRequest(c)

\* A caller asks for its next page, until one is empty.
AskPage(c) ==
    /\ req[c].method \in ListMethods /\ ~ told[c].over
    /\ Call(c, PageRequest(c))
    /\ told' = IF made[c] > 0 THEN told
               ELSE [told EXCEPT ![c].must =
                        {i \in DOMAIN records : Wanted(PageRequest(c), records[i])}]

\* A set of numbers as a sequence, in their order.
Ascending(S) ==
    CHOOSE s \in [1 .. Cardinality(S) -> S] :
        \A j, k \in DOMAIN s : j < k => s[j] < s[k]

\* lnd's page: the records after the offset or, reversed, before it, 0 being the
\* end; in the order of the list.
Page(rpc) ==
    LET found == Ascending(
            {i \in DOMAIN records :
                /\ Wanted(rpc, records[i])
                /\ IF rpc.reversed THEN rpc.offset = 0 \/ i < rpc.offset
                                   ELSE i > rpc.offset})
        rest == IF Len(found) > rpc.max THEN Len(found) - rpc.max ELSE 0
        page == IF rpc.reversed THEN SubSeq(found, rest + 1, Len(found))
                ELSE SubSeq(found, 1, Len(found) - rest)
    IN  [list |-> [k \in DOMAIN page |->
                      [index |-> page[k], record |-> records[page[k]]]],
         first |-> IF page = <<>> THEN 0 ELSE Head(page),
         last |-> IF page = <<>> THEN 0 ELSE page[Len(page)]]

LndLists(m) ==
    /\ m.rpc.method \in ListMethods
    /\ Done(m, Page(m.rpc))
    /\ UNCHANGED <<lease, records, sessions, channel>>

PageResult(c) ==
    CASE wire[c].method = "ForwardingHistory" -> ForwardingHistoryResult(answer[c])
      [] wire[c].method = "ListInvoices" -> ListInvoicesResult(answer[c])
      [] OTHER -> ListPaymentsResult(answer[c])

\* The caller goes on from the last index, or the first if it goes backwards.
ReturnPage(c) ==
    /\ \E method \in ListMethods : Answered(c, method)
    /\ ~ IsError(c) /\ PageResult(c).converts
    /\ Returns(c)
    /\ LET result == PageResult(c)
           before == told[c]
       IN  told' = [told EXCEPT ![c] =
               IF result.list = <<>> THEN [before EXCEPT !.over = TRUE]
               ELSE IF wire[c].reversed
               THEN [before EXCEPT !.offset = result.first, !.seen = result.list \o @]
               ELSE [before EXCEPT !.offset = result.last, !.seen = @ \o result.list]]
    /\ UNCHANGED flight

PageDoesNotConvert(c) ==
    /\ \E method \in ListMethods : Answered(c, method)
    /\ ~ IsError(c) /\ ~ PageResult(c).converts
    /\ Returns(c)
    /\ UNCHANGED <<told, flight>>

\* lnd's list grows, and what is open comes to an end.
Lists == \E c \in Callers : req[c].method \in ListMethods

NewRecord ==
    /\ Lists /\ Len(records) < MaxRecords
    /\ \E preimage \in BOOLEAN :
          records' = Append(records,
                         [state |-> "open", amp |-> FALSE, preimage |-> preimage])
    /\ UNCHANGED <<vars, clock, lease, sessions, channel, callVars>>

RecordEnds ==
    /\ Lists
    /\ \E i \in DOMAIN records, state \in {"done", "canceled", "strange"} :
          /\ records[i].state = "open"
          /\ records' = [records EXCEPT ![i].state = state,
                                        ![i].preimage = @ \/ state = "done"]
    /\ UNCHANGED <<vars, clock, lease, sessions, channel, callVars>>

-----------------------------------------------------------------------------
(* Lists of channels.  A channel goes forward through the lists: it is       *)
(* pending open, open, pending close, closed.                                *)

Looks(c) == req[c].method = "ListChannels"

\* A caller asks for the open, the pending and the closed channels, in that order.
AskChannels(c) ==
    /\ Looks(c) /\ told[c].lists < Len(ChannelLists)
    /\ Call(c, [method |-> ChannelLists[told[c].lists + 1]])
    /\ told' = IF made[c] > 0 THEN told
               ELSE [told EXCEPT ![c].must = channel.stage # "pending open"]

PendingStages == {"pending open", "waiting close", "force closing"}

LndListsChannels(m) ==
    /\ m.rpc.method \in ChannelMethods
    /\ Done(m, CASE m.rpc.method = "ListChannels" ->
                      [channels |-> {x \in {channel} : x.stage = "open"}]
                 [] m.rpc.method = "PendingChannels" ->
                      [channels |-> {x \in {channel} : x.stage \in PendingStages}]
                 [] OTHER ->
                      [channels |-> {x \in {channel} : x.stage = "closed"}])
    /\ UNCHANGED <<lease, records, sessions, channel>>

\* How a channel can end: who closes it, and whom lnd records.  The records of
\* older channels have nobody; a type is "strange" to a client that is older
\* than lnd.
Ends ==
    {end \in [stage : {"waiting close", "force closing", "closed"},
              type : CloseTypes \cup {"strange"}, closer : {"local", "remote", "both"},
              initiator : {"local", "remote", "both", "unknown"}] :
        /\ end.initiator \in {end.closer, "unknown"}
        /\ end.closer = "both" => end.type \in {"cooperative", "strange"}
        /\ end.type = "local force" => end.closer = "local"
        /\ end.type \in {"remote force", "breach"} => end.closer = "remote"}

\* A channel is closed by this node or its peer, on chain at once or later.
ChannelCloses ==
    /\ \E c \in Callers : Looks(c)
    /\ \E end \in Ends :
          /\ CASE channel.stage = "pending open" ->
                    end.stage = "closed" /\ end.type = "funding canceled"
               [] channel.stage = "open" -> end.type # "funding canceled"
               [] channel.stage = "waiting close" ->
                    /\ [channel EXCEPT !.stage = end.stage] = end
                    /\ end.stage # "waiting close"
               [] channel.stage = "force closing" ->
                    [channel EXCEPT !.stage = "closed"] = end
               [] OTHER -> FALSE
          /\ end.stage = "force closing" => end.type \in ForceCloses
          /\ end.type = "abandoned" => end.stage = "closed"
          /\ channel' = end
    /\ UNCHANGED <<vars, clock, lease, records, sessions, callVars>>

ChannelOpens ==
    /\ (\E c \in Callers : Looks(c)) /\ channel.stage = "pending open"
    /\ channel' = [stage |-> "open"]
    /\ UNCHANGED <<vars, clock, lease, records, sessions, callVars>>

ChannelsResult(c) ==
    CASE wire[c].method = "ListChannels" -> ListChannelsResult(answer[c].channels)
      [] wire[c].method = "PendingChannels" -> PendingChannelsResult(answer[c].channels)
      [] OTHER -> ClosedChannelsResult(answer[c].channels)

ReturnChannels(c) ==
    /\ \E method \in ChannelMethods : Answered(c, method)
    /\ ~ IsError(c) /\ ChannelsResult(c).converts
    /\ Returns(c)
    /\ told' = [told EXCEPT ![c].lists = @ + 1,
                           ![c].seen = @ \cup ChannelsResult(c).channels]
    /\ UNCHANGED flight

\* Any list may have something that does not convert, and fails.
ChannelsDoNotConvert(c) ==
    /\ \E method \in ChannelMethods : Answered(c, method)
    /\ ~ IsError(c)
    /\ Returns(c)
    /\ UNCHANGED <<told, flight>>

-----------------------------------------------------------------------------
(* Leases.  One coin; its holder's lock ID is the caller's own, or lnd's for *)
(* one that FundPsbt has selected.                                           *)

\* The uint64 of leaseTime.Seconds(): 0 leaves the time to lnd.
LeaseSeconds(time) == time \div Second

AskLease(c) ==
    /\ req[c].method = "LeaseOutput"
    /\ Call(c, [method |-> "LeaseOutput", id |-> c,
                seconds |-> LeaseSeconds(req[c].time)])
    /\ UNCHANGED told

AskFunds(c) ==
    /\ req[c].method = "FundPsbt"
    /\ Call(c, [method |-> "FundPsbt"])
    /\ UNCHANGED told

\* A caller releases its own lock, or the one it was told of, as long as that lasts.
AskRelease(c) ==
    /\ req[c].method \in LeaseMethods
    /\ \E id \in {c, "lnd"} :
          /\ id = "lnd" => /\ told[c] # NoValue /\ told[c].id = id
                           /\ clock < told[c].until
          /\ Call(c, [method |-> "ReleaseOutput", id |-> id])
    /\ UNCHANGED told

AskLeases(c) ==
    /\ req[c].method \in LeaseMethods
    /\ Call(c, [method |-> "ListLeases"])
    /\ UNCHANGED told

Held == lease # NoValue /\ clock < lease.until

LndLeases(m) ==
    /\ m.rpc.method = "LeaseOutput"
    /\ Held => lease.id = m.rpc.id
    /\ lease' = [id |-> m.rpc.id,
                 until |-> clock + IF m.rpc.seconds = 0 THEN DefaultLease
                                   ELSE m.rpc.seconds]
    /\ Done(m, lease')
    /\ UNCHANGED <<records, sessions, channel>>

LndFunds(m) ==
    /\ m.rpc.method = "FundPsbt" /\ ~ Held
    /\ lease' = [id |-> "lnd", until |-> clock + DefaultLease]
    /\ Done(m, lease')
    /\ UNCHANGED <<records, sessions, channel>>

LndReleases(m) ==
    /\ m.rpc.method = "ReleaseOutput"
    /\ Held /\ lease.id = m.rpc.id
    /\ lease' = NoValue
    /\ Done(m, [released |-> TRUE])
    /\ UNCHANGED <<records, sessions, channel>>

LndListsLeases(m) ==
    /\ m.rpc.method = "ListLeases"
    /\ Done(m, [leases |-> IF Held THEN {lease} ELSE {}])
    /\ UNCHANGED <<lease, records, sessions, channel>>

Tick ==
    /\ clock < MaxClock
    /\ \E c \in Callers : req[c].method \in LeaseMethods
    /\ clock' = clock + 1
    /\ UNCHANGED <<vars, lease, records, sessions, channel, callVars>>

\* A caller is told a lease by the call that made it, or by a list of all.
Tell(c, l) == told' = [told EXCEPT ![c] = [id |-> l.id, until |-> l.until, by |-> made[c]]]

\* A faulty return that tells the caller when the time it asked for is over.
ReturnLeaseAsAsked(c) ==
    /\ Answered(c, "LeaseOutput") /\ ~ IsError(c)
    /\ Returns(c)
    /\ Tell(c, [id |-> c, until |-> clock + req[c].time])
    /\ UNCHANGED flight

\* LeaseOutput returns the expiry that lnd answers with.
ReturnLease(c) ==
    /\ Answered(c, "LeaseOutput") /\ ~ IsError(c)
    /\ Returns(c)
    /\ Tell(c, [id |-> c, until |-> answer[c].until])
    /\ UNCHANGED flight

\* FundPsbt returns the packet and the locks.
ReturnFunds(c) ==
    /\ Answered(c, "FundPsbt") /\ ~ IsError(c)
    /\ Returns(c)
    /\ Tell(c, answer[c])
    /\ UNCHANGED flight

\* The packet cannot be parsed: the caller learns nothing of the locks.
FundsDoNotConvert(c) ==
    /\ Answered(c, "FundPsbt") /\ ~ IsError(c)
    /\ Returns(c)
    /\ UNCHANGED <<told, flight>>

ReturnRelease(c) ==
    /\ Answered(c, "ReleaseOutput") /\ ~ IsError(c)
    /\ Returns(c)
    /\ told' = [told EXCEPT ![c] = NoValue]
    /\ UNCHANGED flight

\* ListLeases returns the locks; the caller looks for its own.
ReturnLeases(c) ==
    /\ Answered(c, "ListLeases") /\ ~ IsError(c)
    /\ Returns(c)
    /\ LET mine == {l \in answer[c].leases : l.id = c}
       IN  IF mine = {} THEN UNCHANGED told
           ELSE \E l \in mine : Tell(c, l)
    /\ UNCHANGED flight

-----------------------------------------------------------------------------
(* MuSig2 sessions.  A session is known by the caller and the call that     *)
(* created it, and ends when it signs or combines for the last time or is   *)
(* cleaned up.                                                              *)

AskSession(c) ==
    /\ req[c].method = "MuSig2CreateSession"
    /\ Call(c, [method |-> "MuSig2CreateSession"])
    /\ UNCHANGED told

\* What a caller asks for a session of its own may end it: the caller does not
\* count on it any more.
UseSession(c, method, mayEnd) ==
    /\ req[c].method = "MuSig2CreateSession"
    /\ \E session \in told[c].known :
          /\ Call(c, [method |-> method, session |-> <<c, session>>, mayEnd |-> mayEnd])
          /\ told' = IF mayEnd
                     THEN [told EXCEPT ![c].known = @ \ {session},
                                       ![c].dropped = @ \cup {session}]
                     ELSE told

MuSig2RegisterNonces(c) == UseSession(c, "MuSig2RegisterNonces", FALSE)
MuSig2Sign(c) == \E cleanup \in BOOLEAN : UseSession(c, "MuSig2Sign", cleanup)
MuSig2CombineSig(c) == UseSession(c, "MuSig2CombineSig", TRUE)
MuSig2Cleanup(c) == UseSession(c, "MuSig2Cleanup", TRUE)

LndCreates(m) ==
    /\ m.rpc.method = "MuSig2CreateSession"
    /\ sessions' = sessions \cup {<<m.by, m.n>>}
    /\ Done(m, [session |-> m.n])
    /\ UNCHANGED <<lease, records, channel>>

\* MuSig2CombineSig ends a session if it has all signatures.
LndUses(m) ==
    /\ m.rpc.method \in SessionMethods /\ m.rpc.session \in sessions
    /\ \E ends \in IF m.rpc.method = "MuSig2CombineSig" THEN BOOLEAN ELSE {m.rpc.mayEnd} :
          /\ sessions' = IF ends THEN sessions \ {m.rpc.session} ELSE sessions
          /\ Done(m, [ends |-> ends])
    /\ UNCHANGED <<lease, records, channel>>

\* A faulty return that has no session ID when the nonces are not as expected.
ReturnSessionWithoutId(c) ==
    /\ Answered(c, "MuSig2CreateSession") /\ ~ IsError(c)
    /\ Returns(c)
    /\ \E session \in {0, answer[c].session} :
          told' = [told EXCEPT ![c].known = @ \cup {session}]
    /\ UNCHANGED flight

ReturnSession(c) ==
    /\ Answered(c, "MuSig2CreateSession") /\ ~ IsError(c)
    /\ Returns(c)
    /\ told' = [told EXCEPT ![c].known = @ \cup {answer[c].session}]
    /\ UNCHANGED flight

\* The key, the nonces or the ID are not as expected: the session stays at lnd.
SessionDoesNotConvert(c) ==
    /\ Answered(c, "MuSig2CreateSession") /\ ~ IsError(c)
    /\ Returns(c)
    /\ told' = Unknowing(c)
    /\ UNCHANGED flight

\* The caller of MuSig2CombineSig learns whether there are all signatures.
ReturnUse(c) ==
    /\ \E method \in SessionMethods : Answered(c, method)
    /\ ~ IsError(c)
    /\ Returns(c)
    /\ told' = IF answer[c].ends THEN told
               ELSE [told EXCEPT ![c].known = @ \cup {wire[c].session[2]},
                                 ![c].dropped = @ \ {wire[c].session[2]}]
    /\ UNCHANGED flight

-----------------------------------------------------------------------------
Ask(c) ==
    \/ AskPage(c) \/ AskChannels(c) \/ AskLease(c) \/ AskFunds(c) \/ AskRelease(c)
    \/ AskLeases(c) \/ AskSession(c) \/ MuSig2RegisterNonces(c) \/ MuSig2Sign(c)
    \/ MuSig2CombineSig(c) \/ MuSig2Cleanup(c)

Lnd(m) ==
    \/ LndLists(m) \/ LndListsChannels(m) \/ LndLeases(m) \/ LndFunds(m)
    \/ LndReleases(m) \/ LndListsLeases(m) \/ LndCreates(m) \/ LndUses(m)
    \/ LndFails(m)

Return(c) ==
    \/ ReturnError(c) \/ ReturnPage(c) \/ PageDoesNotConvert(c) \/ ReturnChannels(c)
    \/ ChannelsDoNotConvert(c) \/ ReturnLease(c) \/ ReturnFunds(c)
    \/ FundsDoNotConvert(c) \/ ReturnRelease(c) \/ ReturnLeases(c) \/ ReturnSession(c)
    \/ SessionDoesNotConvert(c) \/ ReturnUse(c)

AllNext ==
    \/ Next /\ UNCHANGED <<lndVars, callVars>>
    \/ \E c \in Callers : Ask(c) \/ Return(c) \/ GiveUp(c)
    \/ \E m \in flight : Lnd(m)
    \/ NewRecord \/ RecordEnds \/ ChannelOpens \/ ChannelCloses \/ Tick

AllSpec == AllInit /\ [][AllNext]_allVars

(***************************************************************************)
(* Properties.                                                             *)
(***************************************************************************)

\* The preimages that were shown of a record fit with what it is now.
PreimageFits(method, record, shown) ==
    IF method = "ListInvoices"
    THEN /\ shown.state = "done" => record.state = "done"
         /\ shown.preimage <=> shown.state = "done" /\ ~ record.amp
    ELSE /\ shown.status.state = "done" => record.state = "done"
         /\ shown.status.preimage <=> shown.status.state = "done" /\ record.preimage
         /\ shown.status.state = "done" => (shown.preimage <=> record.preimage)

\* A caller that follows the indices of the pages sees every record that was there
\* when it began, once and in order, though the list grows, records change, and calls
\* fail, time out and are repeated between its pages: what it has passed it has seen.
\* A record that cannot be converted is never passed over.  An invoice shows a
\* preimage exactly when it is settled and not an AMP one; the status of a payment
\* shows one only if the payment is settled, and when it does, so does the payment
\* itself, which may show one before (ForwardingHistory, ListInvoices, ListPayments).
PagesAreComplete ==
    \A c \in Callers : req[c].method \in ListMethods =>
        LET seen == told[c].seen
            passed(i) ==
                \/ told[c].over
                \/ told[c].offset # 0 /\ IF req[c].reversed THEN i >= told[c].offset
                                         ELSE i <= told[c].offset
        IN  /\ \A k \in 1 .. Len(seen) - 1 : seen[k].index < seen[k + 1].index
            /\ \A i \in told[c].must :
                   passed(i) => \E k \in DOMAIN seen : seen[k].index = i
            /\ req[c].method # "ForwardingHistory" =>
                   \A k \in DOMAIN seen :
                       PreimageFits(req[c].method, records[seen[k].index], seen[k].is)

\* A caller that has read the lists of open, pending and closed channels in that order
\* has seen every channel that was open when it began in at least one of them, though
\* the channel moves from list to list meanwhile and a list that has something strange
\* fails as a whole.  The close initiator it is shown is the true one or unrecorded,
\* and the true one of every force close, as lnd may not have recorded it
\* (ListChannels, PendingChannels, ClosedChannels, rpcCloseInitiator).
ChannelsAreSeen ==
    \A c \in Callers : Looks(c) =>
        /\ told[c].lists = Len(ChannelLists) /\ told[c].must => told[c].seen # {}
        /\ \A shown \in told[c].seen : shown.list = "closed" =>
               /\ shown.initiator \in {channel.closer, "unrecorded"}
               /\ shown.type \in ForceCloses => shown.initiator = channel.closer

\* Until the time it was told, a caller holds the coin at lnd under the lock ID it was
\* told, whatever the other callers do, unless lnd has since executed a request of
\* its own, such as a release whose call had timed out.  (At most one caller uses
\* FundPsbt, as lnd has one lock ID for all that do.)  A caller can use a session
\* it was told of until it asks for its end, and lnd holds no session but of a caller
\* who knows it, has asked for its end or got an error for its creation (LeaseOutput,
\* FundPsbt, ListLeases, MuSig2CreateSession).
ToldIsHeld ==
    \A c \in Callers :
        /\ req[c].method \in LeaseMethods /\ told[c] # NoValue =>
               (lastDone[c] = told[c].by /\ clock < told[c].until =>
                    lease = [id |-> told[c].id, until |-> told[c].until])
        /\ req[c].method = "MuSig2CreateSession" =>
               LET there == {n \in 1 .. made[c] : <<c, n>> \in sessions}
                   pending == IF at[c] = "waiting" THEN {made[c]} ELSE {}
               IN  /\ told[c].known \subseteq there
                   /\ there \subseteq told[c].known \cup told[c].dropped \cup pending
=============================================================================
