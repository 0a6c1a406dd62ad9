---------------------------- MODULE Credentials ----------------------------
(***************************************************************************)
(* Whom a connection trusts and which macaroon it shows: the options of    *)
(* the basic client (basic_client.go) and GetTLSCredentials                *)
(* (lnd_services.go).  A certificate, a macaroon and a path are names; the *)
(* empty string is one that was not given, as in the code, and a flag that *)
(* is not set.                                                             *)
(***************************************************************************)
Sequence == INSTANCE SequencesExt

AdminServiceMac == "admin.macaroon"
DefaultTLSCertPath == "default tls.cert"
DefaultMacDir == "default macaroon directory"

\* Whom a connection may trust: everyone (InsecureSkipVerify), the system's pool, a
\* certificate that was given, or one in a file.
Anyone == <<"anyone", "">>
SystemPool == <<"system pool", "">>
Cert(data) == <<"data", data>>
CertFile(path) == <<"file", path>>

DefaultBasicClientOptions ==
    [macFilename |-> AdminServiceMac, tlsData |-> "", macData |-> "",
     insecure |-> "", systemCerts |-> ""]

\* An option sets one field.
MacFilename(name) == [field |-> "macFilename", value |-> name]
TLSData(data) == [field |-> "tlsData", value |-> data]
MacaroonData(data) == [field |-> "macData", value |-> data]
Insecure == [field |-> "insecure", value |-> "TRUE"]
SystemCerts == [field |-> "systemCerts", value |-> "TRUE"]
BasicClientOption ==
    [field : {"macFilename", "tlsData", "macData"}, value : STRING]
        \cup {Insecure, SystemCerts}

\* A faulty application of the options, in which the first of a kind stays.
FirstOptionStays(options) ==
    Sequence!FoldRight(LAMBDA option, bc : [bc EXCEPT ![option.field] = option.value],
                       options, DefaultBasicClientOptions)

\* The options are processed in order, later ones overriding earlier ones.
ApplyBasicClientOptions(options) ==
    Sequence!FoldLeft(LAMBDA bc, option : [bc EXCEPT ![option.field] = option.value],
                      DefaultBasicClientOptions, options)

TLSContradiction(tlsData, tlsPath, insecure, systemCert) ==
    (tlsPath # "" /\ tlsData # "") \/ (insecure /\ systemCert)

\* Whom GetTLSCredentials makes a connection trust: the first case that applies.
TLSSource(tlsData, tlsPath, insecure, systemCert) ==
    IF insecure THEN Anyone
    ELSE IF systemCert THEN SystemPool
    ELSE IF tlsData # "" THEN Cert(tlsData)
    ELSE CertFile(IF tlsPath # "" THEN tlsPath ELSE DefaultTLSCertPath)

\* Where parseTLSAndMacaroon takes the macaroon from.
MacaroonSource(bc, macDir) ==
    IF bc.macData # "" THEN <<bc.macData>>
    ELSE <<IF macDir = "" THEN DefaultMacDir ELSE macDir, bc.macFilename>>
=============================================================================
