-------------------------------- MODULE Setup --------------------------------
(***************************************************************************)
(* What NewLndServices makes of its options before and between its waits:  *)
(* which options go together, where the macaroons come from, and whether   *)
(* the lnd it has reached is one it may work with.                         *)
(***************************************************************************)
EXTENDS Naturals, FiniteSets

CONSTANTS
    None,           \* an option that is not given
    Tags,           \* the build tags there are
    MaxPart         \* bound: the largest part of a version number

ASSUME MaxPartAssumption == MaxPart \in Nat

Networks == {"mainnet", "testnet", "testnet4", "regtest", "simnet", "signet"}

\* AppMajor, AppMinor, AppPatch and BuildTags.
VersionType == [major : 0 .. MaxPart, minor : 0 .. MaxPart, patch : 0 .. MaxPart,
                tags : SUBSET Tags]

\* The options of LndServicesConfig that are given: of MacaroonDir,
\* CustomMacaroonPath and CustomMacaroonHex; of TLSPath, TLSData, Insecure and
\* SystemCert; the network and CheckVersion.
OptionsType ==
    [macaroon : SUBSET {"dir", "path", "hex"},
     tls      : SUBSET {"path", "data", "insecure", "system"},
     network  : Networks \cup {"unknown"},
     version  : VersionType \cup {None}]

\* What lnd's GetInfo and GetVersion tell.
LndType == [network : Networks, version : VersionType]

-----------------------------------------------------------------------------
(* Macaroons. *)

\* A faulty check: two macaroon options are taken.
MacaroonOptionsUnchecked(o) ==
    "dir" \notin o.macaroon => o.network \in Networks

\* At most one macaroon option, and a default directory if none says "dir".
MacaroonOptionsValid(o) ==
    /\ Cardinality(o.macaroon) <= 1
    /\ "dir" \notin o.macaroon => o.network \in Networks

\* loadMacaroon: the custom path before the directory, given or default.
LoadMacaroon(o) == IF "path" \in o.macaroon THEN "path" ELSE "dir"

\* The macaroon of the state and versioner clients and of GetInfo.
ReadOnlyMacaroon(o) == IF "hex" \in o.macaroon THEN "hex" ELSE LoadMacaroon(o)

\* newMacaroonPouch: where the macaroons of all other clients come from.
MacaroonPouch(o) ==
    IF "hex" \in o.macaroon /\ "path" \notin o.macaroon
       THEN "hex" ELSE LoadMacaroon(o)

-----------------------------------------------------------------------------
(* TLS. *)

\* The first two cases of GetTLSCredentials; the others differ only in what
\* they load.
TLSOptionsValid(o) ==
    /\ ~({"path", "data"} \subseteq o.tls)
    /\ ~({"insecure", "system"} \subseteq o.tls)

-----------------------------------------------------------------------------
(* checkLndCompatibility. *)

MinimalCompatibleVersion ==
    [major |-> 0, minor |-> MaxPart, patch |-> 0, tags |-> Tags]

Expected(o) ==
    IF o.version = None THEN MinimalCompatibleVersion ELSE o.version

\* AssertVersionCompatible: the parts are hierarchical.
VersionCompatible(actual, expected) ==
    \/ actual.major > expected.major
    \/ /\ actual.major = expected.major
       /\ \/ actual.minor > expected.minor
          \/ actual.minor = expected.minor /\ actual.patch >= expected.patch

\* assertBuildTagsEnabled.
BuildTagsEnabled(actual, expected) == expected.tags \subseteq actual.tags

\* The network first, then the version, then the tags.
LndCompatible(o, lnd) ==
    /\ o.network = lnd.network
    /\ VersionCompatible(lnd.version, Expected(o))
    /\ BuildTagsEnabled(lnd.version, Expected(o))

=============================================================================
