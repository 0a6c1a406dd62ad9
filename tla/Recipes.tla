------------------------------ MODULE Recipes ------------------------------
(***************************************************************************)
(* MacaroonRecipe: the permissions a macaroon needs for all the methods of *)
(* some packages of the client.  It walks over the methods of the          *)
(* interfaces by reflection and asks lnd's permission list for an RPC of   *)
(* each method's name, so a recipe is right only while the tables of       *)
(* renames, overrides and ignored methods agree with what the methods      *)
(* really call.  The methods, the tables and the calls are those of the    *)
(* source; an RPC is its package and its name, as each package has one     *)
(* service.                                                                *)
(***************************************************************************)
LightningMethods ==
    {"AddInvoice", "ChannelAcceptor", "ChannelBackup", "ChannelBackups",
     "ChannelBalance", "CheckMacaroonPermissions", "CloseChannel",
     "ClosedChannels", "Connect", "DecodePaymentRequest", "DescribeGraph",
     "EstimateFee", "EstimateFeeToP2WSH", "ForwardingHistory",
     "FundingStateStep", "GetChanInfo", "GetInfo", "GetNodeInfo",
     "ListAliases", "ListChannels", "ListInvoices", "ListPayments",
     "ListPeers", "ListPermissions", "ListTransactions", "LookupInvoice",
     "NetworkInfo", "OpenChannel", "OpenChannelStream", "PayInvoice",
     "PendingChannels", "QueryRoutes", "RawClientWithMacAuth",
     "RegisterRPCMiddleware", "SendCoins", "SendCustomMessage",
     "SignMessage", "SubscribeChannelBackups", "SubscribeChannelEvents",
     "SubscribeCustomMessages", "SubscribeGraph", "SubscribeInvoices",
     "SubscribeTransactions", "UpdateChanPolicy", "VerifyMessage",
     "WalletBalance"}

ChainNotifierMethods ==
    {"RawClientWithMacAuth", "RegisterBlockEpochNtfn",
     "RegisterConfirmationsNtfn", "RegisterSpendNtfn"}

InvoicesMethods ==
    {"AddHoldInvoice", "CancelInvoice", "HtlcModifier",
     "RawClientWithMacAuth", "SettleInvoice", "SubscribeSingleInvoice"}

RouterMethods ==
    {"EstimateRouteFee", "EstimateRouteFeeWithProbe", "ImportMissionControl",
     "InterceptHtlcs", "QueryMissionControl", "RawClientWithMacAuth",
     "ResetMissionControl", "SendPayment", "SubscribeHtlcEvents",
     "TrackPayment", "UpdateChanStatus", "XAddLocalChanAlias",
     "XDeleteLocalChanAlias", "XFindBaseLocalChanAlias"}

SignerMethods ==
    {"ComputeInputScript", "DeriveSharedKey", "MuSig2Cleanup",
     "MuSig2CombineSig", "MuSig2CreateSession", "MuSig2GetCombinedNonce",
     "MuSig2RegisterCombinedNonce", "MuSig2RegisterNonces", "MuSig2Sign",
     "RawClientWithMacAuth", "SignMessage", "SignOutputRaw",
     "SignOutputRawKeyLocator", "VerifyMessage"}

VersionerMethods == {"GetVersion", "RawClientWithMacAuth"}

WalletKitMethods ==
    {"BumpFee", "DeriveKey", "DeriveNextKey", "EstimateFeeRate",
     "FinalizePsbt", "FundPsbt", "GetTransaction", "ImportPublicKey",
     "ImportTaprootScript", "LeaseOutput", "ListAccounts", "ListLeases",
     "ListSweeps", "ListSweepsVerbose", "ListUnspent", "MinRelayFee",
     "NextAddr", "PublishTransaction", "RawClientWithMacAuth",
     "ReleaseOutput", "RemoveTransaction", "SendOutputs", "SignPsbt",
     "SubmitPackage"}

WatchtowerClientMethods ==
    {"AddTower", "DeactivateTower", "GetTowerInfo", "ListTowers", "Policy",
     "RawClientWithMacAuth", "RemoveTower", "Stats", "TerminateSession"}

\* supportedSubservers
Methods ==
    [lnrpc |-> LightningMethods, chainrpc |-> ChainNotifierMethods,
     invoicesrpc |-> InvoicesMethods, routerrpc |-> RouterMethods,
     signrpc |-> SignerMethods, verrpc |-> VersionerMethods,
     walletrpc |-> WalletKitMethods, wtclientrpc |-> WatchtowerClientMethods]

Supported == DOMAIN Methods

(***************************************************************************)
(* The tables of MacaroonRecipe.                                           *)
(***************************************************************************)
Renames ==
    [ChannelBackup |-> "ExportChannelBackup",
     ChannelBackups |-> "ExportAllChannelBackups",
     ConfirmedWalletBalance |-> "WalletBalance",
     Connect |-> "ConnectPeer",
     DecodePaymentRequest |-> "DecodePayReq",
     ListTransactions |-> "GetTransactions",
     UpdateChanPolicy |-> "UpdateChannelPolicy",
     NetworkInfo |-> "GetNetworkInfo",
     SubscribeGraph |-> "SubscribeChannelGraph",
     InterceptHtlcs |-> "HtlcInterceptor",
     ImportMissionControl |-> "XImportMissionControl",
     EstimateFeeRate |-> "EstimateFee",
     EstimateFeeToP2WSH |-> "EstimateFee",
     EstimateRouteFeeWithProbe |-> "EstimateRouteFee",
     OpenChannelStream |-> "OpenChannel",
     ListSweepsVerbose |-> "ListSweeps",
     MinRelayFee |-> "EstimateFee",
     SignOutputRawKeyLocator |-> "SignOutputRaw"]

Ignores == {"RawClientWithMacAuth"}

\* A faulty table: it has an RPC that the method does not call any more.
MethodOverridesOutdated(pkg, method) ==
    IF pkg = "lnrpc" /\ method = "PayInvoice"
    THEN {<<"routerrpc", "SendPaymentV2">>, <<"routerrpc", "TrackPaymentV2">>,
          <<"routerrpc", "EstimateRouteFee">>}
    ELSE {}

\* The RPCs that methodOverrides has for a method, none for most.
MethodOverrides(pkg, method) ==
    IF pkg = "lnrpc" /\ method = "PayInvoice"
    THEN {<<"routerrpc", "SendPaymentV2">>, <<"routerrpc", "TrackPaymentV2">>}
    ELSE {}

Rename(method) == IF method \in DOMAIN Renames THEN Renames[method] ELSE method

\* A faulty look-up that forgets the renames.
LooksUpUnrenamed(pkg, method) ==
    IF method \in Ignores THEN {}
    ELSE IF MethodOverrides(pkg, method) # {} THEN MethodOverrides(pkg, method)
    ELSE {<<pkg, method>>}

\* The RPCs whose permissions a method's are taken to be.
LooksUp(pkg, method) ==
    IF Rename(method) \in Ignores THEN {}
    ELSE IF MethodOverrides(pkg, method) # {} THEN MethodOverrides(pkg, method)
    ELSE {<<pkg, Rename(method)>>}

LooksUpAll(pkg) == UNION {LooksUp(pkg, method) : method \in Methods[pkg]}

(***************************************************************************)
(* What the methods call.                                                  *)
(***************************************************************************)

\* The RPC of a method that is not of its own name.
RpcNames ==
    [ChannelBackup |-> "ExportChannelBackup",
     ChannelBackups |-> "ExportAllChannelBackups",
     Connect |-> "ConnectPeer", DecodePaymentRequest |-> "DecodePayReq",
     EstimateFeeToP2WSH |-> "EstimateFee", NetworkInfo |-> "GetNetworkInfo",
     ListTransactions |-> "GetTransactions",
     OpenChannel |-> "OpenChannelSync", OpenChannelStream |-> "OpenChannel",
     SubscribeGraph |-> "SubscribeChannelGraph",
     UpdateChanPolicy |-> "UpdateChannelPolicy",
     EstimateRouteFeeWithProbe |-> "EstimateRouteFee",
     ImportMissionControl |-> "XImportMissionControl",
     InterceptHtlcs |-> "HtlcInterceptor", SendPayment |-> "SendPaymentV2",
     TrackPayment |-> "TrackPaymentV2",
     XAddLocalChanAlias |-> "XAddLocalChanAliases",
     XDeleteLocalChanAlias |-> "XDeleteLocalChanAliases",
     SignOutputRawKeyLocator |-> "SignOutputRaw",
     EstimateFeeRate |-> "EstimateFee", MinRelayFee |-> "EstimateFee",
     ImportTaprootScript |-> "ImportTapscript",
     ListSweepsVerbose |-> "ListSweeps"]

\* PayInvoice goes through the router; RawClientWithMacAuth calls nothing.
Calls(pkg, method) ==
    IF method = "RawClientWithMacAuth" THEN {}
    ELSE IF method = "PayInvoice"
    THEN {<<"routerrpc", "SendPaymentV2">>, <<"routerrpc", "TrackPaymentV2">>}
    ELSE IF method \in DOMAIN RpcNames THEN {<<pkg, RpcNames[method]>>}
    ELSE {<<pkg, method>>}

(***************************************************************************)
(* MacaroonRecipe, for a list of packages; their order does not matter.    *)
(* lnd's permission list has the permissions it demands for each RPC that  *)
(* it knows.                                                               *)
(***************************************************************************)
Demanded(rpcs, listed) == UNION {listed[rpc] : rpc \in rpcs \cap DOMAIN listed}

\* A faulty walk that passes over what lnd does not list.
RecipeFoundAnyway(packages, listed) == packages \subseteq Supported

\* Every package is known and every URI is in lnd's list.
RecipeFound(packages, listed) ==
    /\ packages \subseteq Supported
    /\ \A pkg \in packages : LooksUpAll(pkg) \subseteq DOMAIN listed

Recipe(packages, listed) ==
    Demanded(UNION {LooksUpAll(pkg) : pkg \in packages}, listed)
=============================================================================
