----------------------------- MODULE MCRequests -----------------------------
(* Instances of Requests and UnaryCalls for TLC. *)
EXTENDS UnaryCalls

CONSTANTS m1, c1, c2

TwoCallers == {c1, c2}

OneMap == {m1}

\* One caller asks, or both ask.
AskedBy(first, second) == [c \in TwoCallers |-> IF c = c1 THEN first ELSE second]
By1(requests) == {AskedBy(r, NoRequest) : r \in requests}
By2(some, others) == {AskedBy(r, s) : r \in some, s \in others}

\* Every kind of payment, without and with a map.
Payments ==
    {r \in [method : {"SendPayment"}, keySend : BOOLEAN, preset : BOOLEAN,
            invoice : BOOLEAN, records : OneMap \cup {NoMap}, timeout : {3}] :
        r.invoice => ~ r.preset}

\* Timeouts around each boundary of seconds and of lnd's integers.
Timeouts ==
    [method : {"EstimateRouteFeeWithProbe"}, timeout : -2 .. 14]
        \cup [method : {"SendPayment"}, keySend : {FALSE}, preset : {FALSE},
              invoice : {TRUE}, records : {NoMap}, timeout : -2 .. 14]

\* Lists of up to two packages; "litrpc" stands for one that is not supported.
Recipes2 ==
    {[method |-> "MacaroonRecipe", packages |-> {p, q}] :
        p \in Supported \cup {"litrpc"}, q \in Supported}
        \cup {[method |-> "MacaroonRecipe", packages |-> {}]}

\* Keys at locators of which none, one or both components are zero.
Signings ==
    [method : {"SignOutputRaw", "SignOutputRawKeyLocator"},
     key : (0 .. 1) \X (0 .. 1), knows : (SUBSET {"public key", "locator"}) \ {{}}]

\* Up to three options; an option may be given twice, and be empty.
Options ==
    {MacFilename("my.macaroon"), TLSData("cert"), TLSData("other cert"), TLSData(""),
     MacaroonData("mac"), MacaroonData(""), Insecure, SystemCerts}

Conns ==
    [method : {"NewBasicConn"}, tlsPath : {"", "tls path"}, macDir : {"", "dir"},
     options : UNION {[1 .. n -> Options] : n \in 0 .. 3}]

\* All lists, by pages of one and of two.
Pagers == [method : {"ListPayments"}, max : 1 .. 2, reversed : BOOLEAN,
           incomplete : BOOLEAN, calls : {5}]
    \cup [method : {"ListInvoices"}, max : 1 .. 2, reversed : BOOLEAN,
          incomplete : {TRUE}, calls : {5}]
    \cup [method : {"ForwardingHistory"}, max : 1 .. 2, reversed : {FALSE},
          incomplete : {TRUE}, calls : {5}]

\* A settled AMP invoice and one that is open.
TwoRecords ==
    <<[state |-> "done", amp |-> TRUE, preimage |-> FALSE],
      [state |-> "open", amp |-> FALSE, preimage |-> TRUE]>>

\* All lists of channels, with one call to repeat.
Lookers == [method : {"ListChannels"}, calls : {4}]

\* Leases of less than a second, and of one and a fraction.
Lessees == [method : {"LeaseOutput"}, time : {1, Second + 1}, calls : {3}]
Funders == [method : {"FundPsbt"}, calls : {3}]
Others == [method : {"LeaseOutput"}, time : {Second}, calls : {1}]
Signers == [method : {"MuSig2CreateSession"}, calls : {4}]

AllAsked ==
    By2(Payments, Payments) \cup By1(Timeouts \cup Recipes2 \cup Signings \cup Conns)
        \cup By1(Pagers \cup Lookers) \cup By2(Lessees \cup Funders, Others)
        \cup By1(Signers)

\* The RPCs that the client calls, and those that recipes ask for in the place
\* of some of them, named in the same order.
Called == UNION {UNION {Calls(pkg, method) : method \in Methods[pkg]} : pkg \in Supported}

Astray ==
    <<<<"lnrpc", "OpenChannelSync">>, <<"routerrpc", "SendPaymentV2">>,
      <<"routerrpc", "TrackPaymentV2">>, <<"routerrpc", "XAddLocalChanAliases">>,
      <<"routerrpc", "XDeleteLocalChanAliases">>, <<"walletrpc", "ImportTapscript">>>>
AskedFor ==
    <<<<"lnrpc", "OpenChannel">>, <<"routerrpc", "SendPayment">>,
      <<"routerrpc", "TrackPayment">>, <<"routerrpc", "XAddLocalChanAlias">>,
      <<"routerrpc", "XDeleteLocalChanAlias">>, <<"walletrpc", "ImportTaprootScript">>>>

AllRpcs == Called \cup {AskedFor[k] : k \in DOMAIN AskedFor} \cup {<<"lnrpc", "StopDaemon">>}

\* One permission for each RPC; the same for two RPCs of which one is asked for in
\* the place of the other; one for each package, and one for all besides.
Finest(rpcs) == [rpc \in rpcs |-> {rpc}]
Alike(rpcs) ==
    [rpc \in rpcs |-> {IF \E k \in DOMAIN Astray : Astray[k] = rpc
                        THEN AskedFor[CHOOSE k \in DOMAIN Astray : Astray[k] = rpc]
                        ELSE rpc}]
Coarse(rpcs) == [rpc \in rpcs |-> {rpc[1], "info"}]

\* lnd knows all of them, none of those asked for in the place of others, only
\* those of the last three pairs (as in testdata/permissions.json), or all but one:
\* one that is overridden, renamed, shared by two methods, asked for in the place
\* of another, called in the place of another, or none of these.
Lists10 ==
    {Finest(AllRpcs), Alike(AllRpcs), Coarse(AllRpcs), Finest(Called),
     Alike(AllRpcs \ {Astray[k] : k \in 4 .. 6})}
        \cup {Alike(AllRpcs \ {rpc}) : rpc \in {
                 <<"routerrpc", "SendPaymentV2">>, <<"lnrpc", "ConnectPeer">>,
                 <<"walletrpc", "EstimateFee">>, <<"routerrpc", "XAddLocalChanAlias">>,
                 <<"wtclientrpc", "TerminateSession">>}}
=============================================================================
