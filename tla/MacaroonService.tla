--------------------------- MODULE MacaroonService ---------------------------
(***************************************************************************)
(* The MacaroonService: NewMacaroonService, Start and Stop of a process    *)
(* that may crash at any moment and is started again, perhaps with another *)
(* configuration.                                                          *)
(*                                                                         *)
(* Two things survive the process: the root key store, which may be        *)
(* encrypted under a password, and the macaroon file.  Start opens the     *)
(* store, moves it from the empty password of earlier versions to one      *)
(* derived with lnd, and makes sure that the file holds a macaroon for the *)
(* required permissions.                                                   *)
(***************************************************************************)
EXTENDS Naturals, FiniteSets

CONSTANTS
    Perms,              \* the permissions there are
    None,               \* no password
    MaxDisturbances     \* bound: crashes, failures, retries, replaced stores

ASSUME PermsAssumption == IsFiniteSet(Perms) /\ Perms # {}
ASSUME NoneAssumption  == None \notin {"empty", "given", "shared"}
ASSUME MaxDisturbancesAssumption == MaxDisturbances \in Nat

\* password and lnd say whether a DBPassword, or else an LndClient with what it
\* takes to derive a key, is given.
MacaroonServiceConfig ==
    [password : BOOLEAN, lnd : BOOLEAN, stateless : BOOLEAN,
     perms : (SUBSET Perms) \ {{}}]

VARIABLES
    extended,   \* the root key store is an ExtendedRootKeyStore
    storeKey,   \* the password it is encrypted under; None in a new store
    rootKey,    \* its default root key; 0 when it has none yet
    roots,      \* how many root keys were ever generated
    file,       \* what is at MacaroonPath: absent, torn (it does not decode),
                \*   or a macaroon with its permissions and root key
    cfg,        \* the configuration of the process
    at,         \* where the process is; down: there is none
    unlocked,   \* the process has opened the store
    trouble,    \* history: what has gone wrong outside since Start was called
    budget      \* disturbances still to come

storeVars == <<extended, storeKey, rootKey, roots>>
vars == <<storeVars, file, cfg, at, unlocked, trouble, budget>>

Absent == [kind |-> "absent", perms |-> {}, root |-> 0]
Torn == [kind |-> "torn", perms |-> {}, root |-> 0]
Macaroon(perms, root) == [kind |-> "macaroon", perms |-> perms, root |-> root]

\* The password that the configuration stands for.
Key(c) == IF c.password THEN "given" ELSE "shared"

\* A new store, or one that an earlier version has left under the empty
\* password, with or without a root key and a macaroon.
Init ==
    /\ extended \in BOOLEAN
    /\ \/ storeKey = None /\ rootKey = 0 /\ file = Absent
       \/ /\ storeKey = "empty"
          /\ \/ rootKey = 0 /\ file = Absent
             \/ /\ rootKey = 1
                /\ \/ file = Absent
                   \/ \E perms \in (SUBSET Perms) \ {{}} :
                         file = Macaroon(perms, rootKey)
    /\ roots = rootKey
    /\ cfg \in MacaroonServiceConfig
    /\ at = "down"
    /\ unlocked = FALSE
    /\ trouble = "none"
    /\ budget = MaxDisturbances

-----------------------------------------------------------------------------
(* Steps of Start. *)

Disturb == budget > 0 /\ budget' = budget - 1

\* The process goes from one step to another.
Go(from, to) ==
    /\ at = from
    /\ at' = to
    /\ UNCHANGED <<extended, cfg, trouble, budget>>

\* A step of Start that meets an error of lnd, the database or the disk; how
\* Start goes on.
FailsTo(from, to) ==
    /\ at = from
    /\ at' = to
    /\ Disturb
    /\ trouble' = "fault"
    /\ UNCHANGED <<extended, cfg>>

\* NewMacaroonService, with a configuration that it accepts.
NewMacaroonService(c) ==
    /\ at \in {"down", "new"}
    /\ extended /\ ~c.password => c.lnd
    /\ cfg' = c
    /\ at' = "new"
    /\ UNCHANGED <<storeVars, file, unlocked, trouble, budget>>

\* Start is called; macaroons.NewService may fail.  A caller that has not
\* stopped a service which failed to start may call it all the same.
Start ==
    /\ \/ at = "new" /\ UNCHANGED budget
       \/ at = "failed" /\ Disturb
    /\ \/ ~extended /\ at' = "file"
       \/ extended /\ cfg.password /\ at' = "unlock"
       \/ extended /\ ~cfg.password /\ at' = "derive"
    /\ trouble' = IF unlocked THEN "open" ELSE "none"
    /\ UNCHANGED <<storeVars, file, cfg, unlocked>>

NewServiceFails ==
    /\ FailsTo("new", "failed")
    /\ UNCHANGED <<storeVars, file, unlocked>>

DeriveSharedKey ==
    /\ Go("derive", "unlock") \/ FailsTo("derive", "failed")
    /\ UNCHANGED <<storeKey, rootKey, roots, file, unlocked>>

\* CreateUnlock (external): it opens a locked store under the right password
\* and gives a new store its password.
CreateUnlock(key) ==
    /\ ~unlocked
    /\ storeKey \in {None, key}
    /\ unlocked' = TRUE
    /\ storeKey' = key
    /\ UNCHANGED <<rootKey, roots>>

CreateUnlockRefuses(key) ==
    /\ unlocked \/ storeKey \notin {None, key}
    /\ UNCHANGED <<storeKey, rootKey, roots, unlocked>>

\* A faulty reaction: the empty password is not tried.
AfterRefusalGivesUp == "failed"

\* Where Start goes when the store does not open.
AfterRefusal == IF cfg.password THEN "failed" ELSE "unlockEmpty"

\* Under the configured password or the shared key.
Unlock ==
    /\ \/ CreateUnlock(Key(cfg)) /\ Go("unlock", "file")
       \/ CreateUnlockRefuses(Key(cfg)) /\ Go("unlock", AfterRefusal)
       \/ /\ FailsTo("unlock", AfterRefusal)
          /\ UNCHANGED <<storeKey, rootKey, roots, unlocked>>
    /\ UNCHANGED file

UnlockEmpty ==
    /\ \/ CreateUnlock("empty") /\ Go("unlockEmpty", "reencrypt")
       \/ CreateUnlockRefuses("empty") /\ Go("unlockEmpty", "failed")
       \/ /\ FailsTo("unlockEmpty", "failed")
          /\ UNCHANGED <<storeKey, rootKey, roots, unlocked>>
    /\ UNCHANGED file

\* ChangePassword needs a root key in the store.
ChangePassword ==
    /\ \/ Go("reencrypt", "file") /\ rootKey # 0 /\ storeKey' = Key(cfg)
       \/ Go("reencrypt", "failed") /\ rootKey = 0 /\ UNCHANGED storeKey
       \/ FailsTo("reencrypt", "failed") /\ UNCHANGED storeKey
    /\ UNCHANGED <<rootKey, roots, file, unlocked>>

\* StatelessInit, and FileExists.
CheckFile ==
    /\ \/ cfg.stateless /\ Go("file", "started")
       \/ ~cfg.stateless /\ file.kind # "absent" /\ Go("file", "match")
       \/ ~cfg.stateless /\ file.kind = "absent" /\ Go("file", "bake")
    /\ UNCHANGED <<storeKey, rootKey, roots, file, unlocked>>

\* A faulty comparison: a macaroon may have more than the required permissions.
MatchesWithoutCount ==
    /\ file.root = rootKey
    /\ cfg.perms \subseteq file.perms

\* macaroonMatchesPermissions, for a file that decodes: Allow, and then the
\* comparison of the number of operations.  Any error of Allow, also one of the
\* database, counts as no match.
Matches ==
    /\ file.root = rootKey
    /\ cfg.perms \subseteq file.perms
    /\ Cardinality(file.perms) = Cardinality(cfg.perms)

CheckPermissions ==
    /\ \/ file.kind = "torn" /\ Go("match", "failed")
       \/ file.kind = "macaroon" /\ Matches /\ Go("match", "started")
       \/ file.kind = "macaroon" /\ ~Matches /\ Go("match", "bake")
       \/ file.kind = "macaroon" /\ FailsTo("match", "bake")
       \/ FailsTo("match", "failed")
    /\ UNCHANGED <<storeKey, rootKey, roots, file, unlocked>>

\* Oven.NewMacaroon, which generates the root key if there is none.
Bake ==
    /\ \/ /\ Go("bake", "create")
          /\ rootKey' = IF rootKey = 0 THEN roots + 1 ELSE rootKey
          /\ roots' = IF rootKey = 0 THEN roots + 1 ELSE roots
       \/ FailsTo("bake", "failed") /\ UNCHANGED <<rootKey, roots>>
    /\ UNCHANGED <<storeKey, file, unlocked>>

\* os.WriteFile: it creates or truncates the file, and then writes it.
WriteFile ==
    /\ \/ Go("create", "write") /\ file' = Torn
       \/ Go("write", "started") /\ file' = Macaroon(cfg.perms, rootKey)
       \/ \E from \in {"create", "write"} :
             FailsTo(from, "failed") /\ UNCHANGED file
    /\ UNCHANGED <<storeKey, rootKey, roots, unlocked>>

\* A faulty stop: the store stays open.
StopWithoutClose ==
    /\ Go("started", "new") \/ Go("failed", "new")
    /\ UNCHANGED <<storeKey, rootKey, roots, file, unlocked>>

\* Stop closes the store.
Stop ==
    /\ Go("started", "new") \/ Go("failed", "new")
    /\ unlocked' = FALSE
    /\ UNCHANGED <<storeKey, rootKey, roots, file>>

-----------------------------------------------------------------------------
(* The world around it (external). *)

Crash ==
    /\ at # "down"
    /\ Disturb
    /\ at' = "down"
    /\ unlocked' = FALSE
    /\ UNCHANGED <<storeVars, file, cfg, trouble>>

\* The store is replaced by a new one; the macaroon file stays.
ReplaceStore ==
    /\ at = "down"
    /\ Disturb
    /\ storeKey' = None
    /\ rootKey' = 0
    /\ UNCHANGED <<extended, roots, file, cfg, at, unlocked, trouble>>

\* The user does what the log asks for: "please remove the macaroon file
\* manually and restart once again".
RemoveFile ==
    /\ at \in {"down", "new"}
    /\ file.kind = "torn"
    /\ file' = Absent
    /\ UNCHANGED <<storeVars, cfg, at, unlocked, trouble, budget>>

-----------------------------------------------------------------------------

StartStep ==
    \/ NewServiceFails \/ DeriveSharedKey
    \/ Unlock \/ UnlockEmpty \/ ChangePassword
    \/ CheckFile \/ CheckPermissions \/ Bake \/ WriteFile

Next ==
    \/ \E c \in MacaroonServiceConfig : NewMacaroonService(c)
    \/ Start \/ StartStep \/ Stop
    \/ Crash \/ ReplaceStore \/ RemoveFile

Spec == Init /\ [][Next]_vars

\* Start runs; a program that is down is started again, stops a service that
\* did not start, tries again, and its user follows the log's advice.
FairSpec ==
    /\ Spec
    /\ WF_vars(\E c \in MacaroonServiceConfig :
                   at = "down" /\ NewMacaroonService(c))
    /\ WF_vars(at = "new" /\ Start)
    /\ WF_vars(StartStep)
    /\ WF_vars(at = "failed" /\ Stop)
    /\ SF_vars(RemoveFile)

-----------------------------------------------------------------------------
(* Properties. *)

Places == {"down", "new", "derive", "unlock", "unlockEmpty", "reencrypt",
           "file", "match", "bake", "create", "write", "started", "failed"}

TypeOK ==
    /\ extended \in BOOLEAN
    /\ storeKey \in {None, "empty", "given", "shared"}
    /\ rootKey \in 0 .. roots
    /\ roots \in Nat
    /\ file \in [kind : {"absent", "torn", "macaroon"}, perms : SUBSET Perms,
                root : 0 .. roots]
    /\ cfg \in MacaroonServiceConfig
    /\ at \in Places
    /\ unlocked \in BOOLEAN
    /\ trouble \in {"none", "open", "fault"}
    /\ budget \in 0 .. MaxDisturbances

\* A service that has started has its store open, under the configured
\* password or the shared key and no longer under the empty one; and unless it
\* is stateless there is a macaroon on disk that its own root key verifies and
\* that has the required permissions and no others, whatever configurations,
\* crashes and replaced stores came before.
StartedServiceFits ==
    at = "started" =>
        /\ extended => unlocked /\ storeKey = Key(cfg)
        /\ ~cfg.stateless => file = Macaroon(cfg.perms, rootKey)

\* The store can never be opened with the present configuration: it is under
\* another password, or under the empty one without the root key that a change
\* of the password needs.
LockedOut ==
    /\ extended
    /\ storeKey \notin {None, Key(cfg)}
    /\ storeKey = "empty" /\ ~cfg.password => rootKey = 0

\* Start fails for one of four reasons only, none of which is a crash between
\* two of its steps: an error from outside, a store this process has left open,
\* a store it cannot open, or a file that is no macaroon.
FailureIsExplained ==
    [][at # "failed" /\ at' = "failed" =>
          \/ trouble' # "none"
          \/ LockedOut'
          \/ file.kind = "torn"]_vars

\* After the last crash or error the service comes up again, unless it is
\* locked out.
RecoversFromCrashes == []<>(at = "started" \/ LockedOut)

=============================================================================
