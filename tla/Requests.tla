------------------------------ MODULE Requests ------------------------------
(***************************************************************************)
(* What the client asks of lnd, and with which credentials: how            *)
(* SendPayment, EstimateRouteFeeWithProbe and SignOutputRaw turn what      *)
(* their callers pass into a request, whom NewBasicConn trusts, and what a *)
(* macaroon must admit (MacaroonRecipe).  Callers run concurrently.  A     *)
(* caller keeps the maps of custom records it passes and may pass them     *)
(* again, though not to two calls at once; SendPayment takes the map as it *)
(* is and, for a keysend payment, writes to it.                            *)
(***************************************************************************)
EXTENDS Integers, FiniteSets, Sequences, Recipes, Credentials, Descriptors

CONSTANTS
    Callers,        \* one call of one function each; also their preimages
    Maps,           \* the callers' maps of custom records
    NoMap,          \* CustomRecords is nil
    Second,         \* bound: the units of time in a second
    W,              \* bound: the width of lnd's integers
    Asked,          \* what the callers may ask, one function for all of them
    PermissionLists \* the lists an lnd may have: the permissions of each RPC

ASSUME CallersAssumption == IsFiniteSet(Callers) /\ NoValue \notin Callers
ASSUME NoMapAssumption == NoMap \notin Maps
ASSUME UnitsAssumption == {Second, W} \subseteq Nat \ {0}

\* So it is, for any W: the provers know nothing of powers.
ASSUME PowerAssumption == 2^(W - 1) \in Nat

\* time.Duration is signed; preset says that the caller gives a payment hash.
SendRequests ==
    [method : {"SendPayment"}, keySend : BOOLEAN, preset : BOOLEAN,
     invoice : BOOLEAN, records : Maps \cup {NoMap}, timeout : Int]

ProbeRequests == [method : {"EstimateRouteFeeWithProbe"}, timeout : Int]

RecipeRequests ==
    [method : {"MacaroonRecipe"}, packages : SUBSET (Supported \cup {"litrpc"})]

\* key is the locator of the key; knows says which of the two the caller knows.
SignRequests ==
    [method : {"SignOutputRaw", "SignOutputRawKeyLocator"}, key : Nat \X Nat,
     knows : (SUBSET {"public key", "locator"}) \ {{}}]

ConnRequests ==
    [method : {"NewBasicConn"}, tlsPath : STRING, macDir : STRING,
     options : Seq(BasicClientOption)]

\* A caller who asks for nothing of this.
NoRequest == [method |-> "none"]

ASSUME AskedAssumption == \A asked \in Asked : DOMAIN asked = Callers

SimpleRequests ==
    SendRequests \cup ProbeRequests \cup RecipeRequests \cup SignRequests
        \cup ConnRequests \cup {NoRequest}

VARIABLES
    req,        \* the request of each call
    at,         \* where a call is
    keySent,    \* the value at record.KeySendType in each map
    own,        \* that value in the map SendPayment makes when there is none
    wire,       \* what lnd is sent; the recipe that is returned
    listed      \* lnd's permission list

vars == <<req, at, keySent, own, wire, listed>>

MaxUint == 2^W - 1
MaxInt == 2^(W - 1) - 1
MinInt == -(2^(W - 1))

Init ==
    /\ req \in Asked
    /\ at = [c \in Callers |-> "idle"]
    /\ keySent = [m \in Maps |-> NoValue]
    /\ own = [c \in Callers |-> NoValue]
    /\ wire = [c \in Callers |-> NoValue]
    /\ listed \in IF \E c \in Callers : req[c].method = "MacaroonRecipe"
                 THEN PermissionLists ELSE {<<>>}

InSend(c) == req[c].method = "SendPayment" /\ at[c] \in {"built", "keyed"}

\* A faulty conversion that rounds a payment's timeout up.
PaymentTimeoutUp(t) == {(t + Second - 1) \div Second}

\* The int32 of request.Timeout.Seconds(): the fraction is cut off towards zero,
\* and what does not fit becomes what the machine makes of it.
PaymentTimeout(t) ==
    LET seconds == IF t < 0 THEN -((-t) \div Second) ELSE t \div Second
    IN  IF seconds \in MinInt .. MaxInt THEN {seconds} ELSE {MinInt, MaxInt}

\* The request is made of the arguments; the records are the caller's map.
BuildRequest(c) ==
    /\ req[c].method = "SendPayment" /\ at[c] = "idle"
    /\ req[c].records \in Maps =>
           \A d \in Callers : InSend(d) => req[d].records # req[c].records
    /\ at' = [at EXCEPT ![c] = "built"]
    /\ UNCHANGED <<req, keySent, own, wire, listed>>

RefusePresetHash(c) ==
    /\ req[c].method = "SendPayment" /\ at[c] = "built"
    /\ req[c].keySend /\ req[c].preset
    /\ at' = [at EXCEPT ![c] = "refused"]
    /\ UNCHANGED <<req, keySent, own, wire, listed>>

\* A faulty step that keeps the preimage of an earlier payment.
AddPreimageOnce(c) ==
    /\ req[c].method = "SendPayment" /\ at[c] = "built"
    /\ req[c].keySend /\ ~ req[c].preset
    /\ IF req[c].records = NoMap
       THEN own' = [own EXCEPT ![c] = c] /\ UNCHANGED keySent
       ELSE /\ keySent' = [keySent EXCEPT ![req[c].records] =
                              IF @ = NoValue THEN c ELSE @]
            /\ UNCHANGED own
    /\ at' = [at EXCEPT ![c] = "keyed"]
    /\ UNCHANGED <<req, wire, listed>>

\* A faulty step that does not mind a preset hash.
AddPreimageAnyway(c) ==
    /\ req[c].method = "SendPayment" /\ at[c] = "built"
    /\ req[c].keySend
    /\ IF req[c].records = NoMap
       THEN own' = [own EXCEPT ![c] = c] /\ UNCHANGED keySent
       ELSE keySent' = [keySent EXCEPT ![req[c].records] = c] /\ UNCHANGED own
    /\ at' = [at EXCEPT ![c] = IF req[c].preset THEN "refused" ELSE "keyed"]
    /\ UNCHANGED <<req, wire, listed>>

\* A keysend payment gets a random preimage, written to the records.
AddPreimage(c) ==
    /\ req[c].method = "SendPayment" /\ at[c] = "built"
    /\ req[c].keySend /\ ~ req[c].preset
    /\ IF req[c].records = NoMap
       THEN own' = [own EXCEPT ![c] = c] /\ UNCHANGED keySent
       ELSE keySent' = [keySent EXCEPT ![req[c].records] = c] /\ UNCHANGED own
    /\ at' = [at EXCEPT ![c] = "keyed"]
    /\ UNCHANGED <<req, wire, listed>>

CanSend(c) ==
    /\ req[c].method = "SendPayment"
    /\ at[c] = IF req[c].keySend THEN "keyed" ELSE "built"

\* The hash that lnd is given: none with an invoice, whose own it takes, else the
\* caller's, which stands for itself, or that of the preimage.
PaymentHash(c) ==
    IF req[c].invoice THEN NoValue
    ELSE IF req[c].preset THEN "preset"
    ELSE IF req[c].keySend THEN c ELSE NoValue

\* The map is read when the request is encoded.
SendPaymentV2(c) ==
    /\ CanSend(c)
    /\ \E t \in PaymentTimeout(req[c].timeout) :
          wire' = [wire EXCEPT ![c] =
              [timeout |-> t, hash |-> PaymentHash(c),
               preimage |-> IF req[c].records = NoMap THEN own[c]
                            ELSE keySent[req[c].records]]]
    /\ at' = [at EXCEPT ![c] = "sent"]
    /\ UNCHANGED <<req, keySent, own, listed>>

\* The stream cannot be opened.
SendPaymentV2Fails(c) ==
    /\ CanSend(c)
    /\ at' = [at EXCEPT ![c] = "failed"]
    /\ UNCHANGED <<req, keySent, own, wire, listed>>

\* A faulty conversion that cuts the fraction off.
ProbeTimeoutDown(t) == IF t > 0 THEN t \div Second ELSE 0

\* The timeout of the probe in whole seconds, rounded up; 0 is lnd's default.
ProbeTimeout(t) == IF t > 0 THEN (t + Second - 1) \div Second ELSE 0

ProbeTimeoutValid(t) == t >= 0 /\ t <= MaxUint * Second

EstimateRouteFeeWithProbe(c) ==
    /\ req[c].method = "EstimateRouteFeeWithProbe" /\ at[c] = "idle"
    /\ ProbeTimeoutValid(req[c].timeout)
    /\ wire' = [wire EXCEPT ![c] = [timeout |-> ProbeTimeout(req[c].timeout)]]
    /\ at' = [at EXCEPT ![c] = "sent"]
    /\ UNCHANGED <<req, keySent, own, listed>>

RefuseProbeTimeout(c) ==
    /\ req[c].method = "EstimateRouteFeeWithProbe" /\ at[c] = "idle"
    /\ ~ ProbeTimeoutValid(req[c].timeout)
    /\ at' = [at EXCEPT ![c] = "refused"]
    /\ UNCHANGED <<req, keySent, own, wire, listed>>

MacaroonRecipe(c) ==
    /\ req[c].method = "MacaroonRecipe" /\ at[c] = "idle"
    /\ RecipeFound(req[c].packages, listed)
    /\ wire' = [wire EXCEPT ![c] = Recipe(req[c].packages, listed)]
    /\ at' = [at EXCEPT ![c] = "sent"]
    /\ UNCHANGED <<req, keySent, own, listed>>

\* A package is unknown, or lnd does not list an RPC.
RefuseRecipe(c) ==
    /\ req[c].method = "MacaroonRecipe" /\ at[c] = "idle"
    /\ ~ RecipeFound(req[c].packages, listed)
    /\ at' = [at EXCEPT ![c] = "refused"]
    /\ UNCHANGED <<req, keySent, own, wire, listed>>

\* ListPermissions fails.
RecipeFails(c) ==
    /\ req[c].method = "MacaroonRecipe" /\ at[c] = "idle"
    /\ at' = [at EXCEPT ![c] = "failed"]
    /\ UNCHANGED <<req, keySent, own, wire, listed>>

\* signOutputRaw: the descriptor depends on which of the two methods is called.
SignOutputRaw(c) ==
    /\ req[c].method \in {"SignOutputRaw", "SignOutputRawKeyLocator"}
    /\ at[c] = "idle"
    /\ LET d == KeyDescriptor(req[c].key, "public key" \in req[c].knows,
                              "locator" \in req[c].knows)
       IN  wire' = [wire EXCEPT ![c] =
                       IF req[c].method = "SignOutputRaw"
                       THEN PartialDescriptor(d) ELSE FullDescriptor(d)]
    /\ at' = [at EXCEPT ![c] = "sent"]
    /\ UNCHANGED <<req, keySent, own, listed>>

\* The options that NewBasicConn applies, and whether GetTLSCredentials refuses.
BasicOptions(c) == ApplyBasicClientOptions(req[c].options)

BasicContradiction(c) ==
    LET bc == BasicOptions(c)
    IN  TLSContradiction(bc.tlsData, req[c].tlsPath, bc.insecure # "",
                         bc.systemCerts # "")

NewBasicConn(c) ==
    /\ req[c].method = "NewBasicConn" /\ at[c] = "idle"
    /\ ~ BasicContradiction(c)
    /\ LET bc == BasicOptions(c)
       IN  wire' = [wire EXCEPT ![c] =
               [trusts |-> TLSSource(bc.tlsData, req[c].tlsPath,
                                     bc.insecure # "", bc.systemCerts # ""),
                macaroon |-> MacaroonSource(bc, req[c].macDir)]]
    /\ at' = [at EXCEPT ![c] = "sent"]
    /\ UNCHANGED <<req, keySent, own, listed>>

RefuseBasicConn(c) ==
    /\ req[c].method = "NewBasicConn" /\ at[c] = "idle"
    /\ BasicContradiction(c)
    /\ at' = [at EXCEPT ![c] = "refused"]
    /\ UNCHANGED <<req, keySent, own, wire, listed>>

\* A certificate or the macaroon cannot be read or decoded.
BasicConnFails(c) ==
    /\ req[c].method = "NewBasicConn" /\ at[c] = "idle"
    /\ ~ BasicContradiction(c)
    /\ at' = [at EXCEPT ![c] = "failed"]
    /\ UNCHANGED <<req, keySent, own, wire, listed>>

Next ==
    \E c \in Callers :
       \/ BuildRequest(c) \/ RefusePresetHash(c) \/ AddPreimage(c)
       \/ SendPaymentV2(c) \/ SendPaymentV2Fails(c)
       \/ EstimateRouteFeeWithProbe(c) \/ RefuseProbeTimeout(c)
       \/ MacaroonRecipe(c) \/ RefuseRecipe(c) \/ RecipeFails(c)
       \/ SignOutputRaw(c)
       \/ NewBasicConn(c) \/ RefuseBasicConn(c) \/ BasicConnFails(c)

Spec == Init /\ [][Next]_vars

(***************************************************************************)
(* Properties.                                                             *)
(***************************************************************************)
Sent(c, method) == req[c].method = method /\ at[c] = "sent"

\* The receiver of a keysend payment can claim it, as the preimage that travels
\* in the records is that of the payment's hash, whatever an earlier or a failed
\* payment has left in the caller's map; and a payment that is refused leaves
\* nothing there (SendPayment).
KeysendPaysItself ==
    \A c \in Callers :
        /\ Sent(c, "SendPayment") /\ req[c].keySend /\ ~ req[c].invoice =>
               wire[c].preimage = c /\ wire[c].hash = c
        /\ at[c] = "refused" => \A m \in Maps : keySent[m] # c

\* A payment's timeout is never made longer, not even one that lnd's type cannot
\* hold (SendPayment).  A probe has at least the time that was asked for and less
\* than a second more, so a timeout that is set never becomes lnd's default; and
\* every one that lnd can express is passed on (EstimateRouteFeeWithProbe).
TimeoutsFit ==
    \A c \in Callers :
        /\ Sent(c, "SendPayment") /\ req[c].timeout >= 0 =>
               wire[c].timeout * Second <= req[c].timeout
        /\ Sent(c, "EstimateRouteFeeWithProbe") =>
               /\ req[c].timeout >= 0 /\ wire[c].timeout \in 0 .. MaxUint
               /\ wire[c].timeout * Second - req[c].timeout \in 0 .. Second - 1
        /\ req[c].method = "EstimateRouteFeeWithProbe" /\ at[c] = "refused" =>
               req[c].timeout < 0 \/ req[c].timeout > MaxUint * Second

\* The methods whose recipe asks for an RPC of the method's own name, though the
\* method calls another one.
Misnamed ==
    {"OpenChannel", "SendPayment", "TrackPayment", "XAddLocalChanAlias",
     "XDeleteLocalChanAlias", "ImportTaprootScript"}

\* The RPCs of a package's methods that the tables name right, and those they
\* name in the place of what the other methods call.
NamedRight(pkg) ==
    UNION {Calls(pkg, method) : method \in Methods[pkg] \ Misnamed}
StandIns(pkg) == {<<pkg, method>> : method \in Methods[pkg] \cap Misnamed}

\* A macaroon of a recipe admits every call of every method of the packages and
\* nothing else, whatever lnd lists and demands, which takes four tables to agree
\* with what about a hundred methods call.  Six methods are the exception: the
\* tables name another RPC than the one they call.  Their calls are admitted if
\* lnd lists that other RPC and demands no less for it, and the macaroon has its
\* permissions.  A recipe is refused only for a package that is not known, for a
\* called RPC that lnd does not list, or, on account of the tables, for one of the
\* six other RPCs that lnd does not list (MacaroonRecipe).
RecipeIsRight ==
    \A c \in Callers : req[c].method = "MacaroonRecipe" =>
        LET known == req[c].packages \cap Supported
            right == UNION {NamedRight(pkg) : pkg \in known}
            standIns == UNION {StandIns(pkg) : pkg \in known}
        IN  /\ at[c] = "sent" =>
                   /\ req[c].packages \subseteq Supported
                   /\ right \subseteq DOMAIN listed
                   /\ Demanded(right, listed) \subseteq wire[c]
                   /\ wire[c] \subseteq Demanded(right \cup standIns, listed)
                   /\ \A pkg \in known : \A method \in Methods[pkg] \cap Misnamed :
                          LET demands == Demanded(Calls(pkg, method), listed)
                          IN  demands \subseteq Demanded({<<pkg, method>>}, listed)
                                  => demands \subseteq wire[c]
            /\ at[c] = "refused" =>
                   \/ ~ req[c].packages \subseteq Supported
                   \/ ~ right \cup standIns \subseteq DOMAIN listed

\* A caller of SignOutputRawKeyLocator who knows the key's locator, and its public
\* key if the locator is <<0, 0>>, gets its key even from a signer that was restored
\* from its seed and knows the public key of <<0, 0>> only: neither a family nor an
\* index of zero loses the locator.  Either method finds the key on a signer that has
\* derived it, if it is not one at <<0, 0>> whose public key the caller does not know
\* (marshallSignDescriptors).
KeyIsFound ==
    \A c \in Callers :
        LET key == req[c].key
            knows == req[c].knows
            named == key # NoLocator \/ "public key" \in knows
        IN  /\ Sent(c, "SignOutputRawKeyLocator") /\ "locator" \in knows /\ named =>
                   KeyFound(wire[c], {NoLocator}) = key
            /\ Sent(c, "SignOutputRawKeyLocator") /\ named =>
                   KeyFound(wire[c], {key}) = key
            /\ Sent(c, "SignOutputRaw") => KeyFound(wire[c], {key}) = key

\* The values the options of a kind give, and the last of them, if there is one.
Given(c, field) == {i \in DOMAIN req[c].options : req[c].options[i].field = field}
Finally(c, field, otherwise) ==
    IF Given(c, field) = {} THEN otherwise
    ELSE req[c].options[CHOOSE i \in Given(c, field) :
                            \A j \in Given(c, field) : j <= i].value

\* A basic connection verifies lnd unless an option says not to, trusts what the last
\* option of its kind or else the caller's path gives, and shows the macaroon that
\* the last options name, whatever the number and the order of the options; and it is
\* refused for two sources that exclude each other, and only for them (NewBasicConn).
BasicClientIsAsAsked ==
    \A c \in Callers : req[c].method = "NewBasicConn" =>
        LET data == Finally(c, "tlsData", "")
            path == req[c].tlsPath
            macData == Finally(c, "macData", "")
            file == Finally(c, "macFilename", AdminServiceMac)
            insecure == Given(c, "insecure") # {}
            system == Given(c, "systemCerts") # {}
            exclusive == (data # "" /\ path # "") \/ (insecure /\ system)
        IN  /\ at[c] = "sent" =>
                   /\ ~ exclusive
                   /\ (wire[c].trusts = Anyone) = insecure
                   /\ (wire[c].trusts = SystemPool) = system
                   /\ data # "" /\ ~ insecure /\ ~ system =>
                          wire[c].trusts = Cert(data)
                   /\ data = "" /\ ~ insecure /\ ~ system =>
                          wire[c].trusts =
                              CertFile(IF path = "" THEN DefaultTLSCertPath ELSE path)
                   /\ wire[c].macaroon =
                          IF macData # "" THEN <<macData>>
                          ELSE <<IF req[c].macDir = "" THEN DefaultMacDir
                                 ELSE req[c].macDir, file>>
            /\ at[c] = "refused" => exclusive
=============================================================================
