----------------------- MODULE MacaroonServiceProofs -----------------------
(* Theorems about MacaroonService and their proofs. *)
EXTENDS MacaroonService, FiniteSetTheorems, TLAPS

USE PermsAssumption, NoneAssumption, MaxDisturbancesAssumption

(***************************************************************************)
(* What Start knows at each of its steps.                                  *)
(***************************************************************************)

\* While the store is to be opened, it is still locked, or this Start is one
\* that something outside has spoilt.
OpensLocked ==
    at \in {"derive", "unlock", "unlockEmpty"} =>
        extended /\ (unlocked => trouble # "none")

\* The empty password is tried only when the shared key was refused.
TriedSharedKey ==
    at = "unlockEmpty" =>
        ~cfg.password /\ (trouble # "none" \/ storeKey \notin {None, Key(cfg)})

Migrates ==
    at = "reencrypt" =>
        extended /\ ~cfg.password /\ unlocked /\ storeKey = "empty"

\* From the macaroon file on, the store is open under the right password.
StoreIsOpen ==
    at \in {"file", "match", "bake", "create", "write", "started"} =>
        (extended => unlocked /\ storeKey = Key(cfg))

FileIsWanted ==
    at \in {"match", "bake", "create", "write"} => ~cfg.stateless

FileFits ==
    at = "started" /\ ~cfg.stateless => file = Macaroon(cfg.perms, rootKey)

Inv ==
    /\ TypeOK
    /\ OpensLocked /\ TriedSharedKey /\ Migrates
    /\ StoreIsOpen /\ FileIsWanted /\ FileFits

\* A macaroon that passes both comparisons has the required permissions and no
\* others.
LEMMA MatchesExactly ==
    ASSUME TypeOK, file.kind = "macaroon", Matches
    PROVE  file = Macaroon(cfg.perms, rootKey)
<1>1. file.perms \subseteq Perms /\ cfg.perms \subseteq file.perms
  BY DEF TypeOK, Matches
<1>2. IsFiniteSet(file.perms)
  BY <1>1, FS_Subset
<1>3. Cardinality(file.perms) = Cardinality(cfg.perms)
  BY DEF Matches
<1>4. cfg.perms = file.perms
  BY <1>1, <1>2, <1>3, FS_Subset
<1>5. file = [kind |-> file.kind, perms |-> file.perms, root |-> file.root]
  BY DEF TypeOK
<1>6. QED
  BY <1>4, <1>5 DEF Matches, Macaroon

-----------------------------------------------------------------------------

\* Before the first Start there is nothing to know.
LEMMA InitInv == Init => Inv
<1> SUFFICES ASSUME Init PROVE Inv
  OBVIOUS
<1>1. TypeOK
  <2>1. rootKey \in 0 .. roots /\ roots \in Nat
    BY DEF Init
  <2>2. file \in [kind : {"absent", "torn", "macaroon"}, perms : SUBSET Perms,
                 root : 0 .. roots]
    BY <2>1 DEF Init, Absent, Macaroon
  <2>3. unlocked \in BOOLEAN
    BY Zenon DEF Init
  <2>4. QED
    BY <2>1, <2>2, <2>3 DEF Init, TypeOK, Places
<1>2. QED
  BY <1>1 DEF Init, Inv, OpensLocked, TriedSharedKey, Migrates, StoreIsOpen,
     FileIsWanted, FileFits

\* Every step keeps the types.
LEMMA NextTypes == TypeOK /\ [Next]_vars => TypeOK'
<1> SUFFICES ASSUME TypeOK, [Next]_vars PROVE TypeOK'
  OBVIOUS
<1> USE DEF TypeOK, Places, storeVars, Disturb
<1>1. CASE UNCHANGED vars
  BY <1>1 DEF vars
<1>2. ASSUME NEW c \in MacaroonServiceConfig, NewMacaroonService(c)
      PROVE  TypeOK'
  BY <1>2 DEF NewMacaroonService
<1>3. CASE Start
  BY <1>3 DEF Start
<1>4. CASE NewServiceFails
  BY <1>4 DEF NewServiceFails, FailsTo
<1>5. CASE DeriveSharedKey
  BY <1>5 DEF DeriveSharedKey, Go, FailsTo
<1>6. CASE Unlock
  <2>1. unlocked' \in BOOLEAN
    BY <1>6, Zenon DEF Unlock, CreateUnlock, CreateUnlockRefuses
  <2>2. QED
    BY <1>6, <2>1 DEF Unlock, CreateUnlock, CreateUnlockRefuses, AfterRefusal,
       Key, Go, FailsTo
<1>7. CASE UnlockEmpty
  <2>1. unlocked' \in BOOLEAN
    BY <1>7, Zenon DEF UnlockEmpty, CreateUnlock, CreateUnlockRefuses
  <2>2. QED
    BY <1>7, <2>1 DEF UnlockEmpty, CreateUnlock, CreateUnlockRefuses, Go,
       FailsTo
<1>8. CASE ChangePassword
  BY <1>8 DEF ChangePassword, Key, Go, FailsTo
<1>9. CASE CheckFile
  BY <1>9 DEF CheckFile, Go
<1>10. CASE CheckPermissions
  BY <1>10 DEF CheckPermissions, Go, FailsTo
<1>11. CASE Bake
  BY <1>11 DEF Bake, Go, FailsTo
<1>12. CASE WriteFile
  BY <1>12 DEF WriteFile, Torn, Macaroon, MacaroonServiceConfig, Go, FailsTo
<1>13. CASE Stop
  BY <1>13 DEF Stop, Go
<1>14. CASE Crash
  <2>1. unlocked' \in BOOLEAN
    BY <1>14, Zenon DEF Crash
  <2>2. QED
    BY <1>14, <2>1 DEF Crash
<1>15. CASE ReplaceStore
  BY <1>15 DEF ReplaceStore
<1>16. CASE RemoveFile
  BY <1>16 DEF RemoveFile, Absent
<1>17. QED
  BY <1>1, <1>2, <1>3, <1>4, <1>5, <1>6, <1>7, <1>8, <1>9, <1>10, <1>11,
     <1>12, <1>13, <1>14, <1>15, <1>16 DEF Next, StartStep

\* Every step keeps what Start knows.
LEMMA NextInv == Inv /\ [Next]_vars => Inv'
<1> SUFFICES ASSUME Inv, [Next]_vars PROVE Inv'
  OBVIOUS
<1>0. TypeOK /\ TypeOK'
  BY NextTypes DEF Inv
<1> DEFINE Known == /\ OpensLocked /\ TriedSharedKey /\ Migrates
                    /\ StoreIsOpen /\ FileIsWanted /\ FileFits
<1> USE DEF Inv, OpensLocked, TriedSharedKey, Migrates, StoreIsOpen,
            FileIsWanted, FileFits, storeVars
<1> SUFFICES Known'
  BY <1>0
<1> HIDE DEF Inv
<1>k. Known
  BY DEF Inv
<1> USE <1>k
<1>1. CASE UNCHANGED vars
  BY <1>0, <1>1 DEF vars, Key
<1>2. ASSUME NEW c \in MacaroonServiceConfig, NewMacaroonService(c)
      PROVE  Known'
  BY <1>2 DEF NewMacaroonService
<1>3. CASE Start
  <2>1. unlocked' = unlocked /\ extended' = extended
    BY <1>3 DEF Start, storeVars
  <2>2. unlocked => trouble' # "none"
    BY <1>3 DEF Start
  <2>3. QED
    BY <1>3, <2>1, <2>2 DEF Start
<1>4. CASE NewServiceFails
  BY <1>4 DEF NewServiceFails, FailsTo
<1>5. CASE DeriveSharedKey
  BY <1>5 DEF DeriveSharedKey, Go, FailsTo
<1>6. CASE Unlock
  BY <1>6 DEF Unlock, CreateUnlock, CreateUnlockRefuses, AfterRefusal, Key,
     Go, FailsTo
<1>7. CASE UnlockEmpty
  BY <1>7 DEF UnlockEmpty, CreateUnlock, CreateUnlockRefuses, Go, FailsTo
<1>8. CASE ChangePassword
  BY <1>8 DEF ChangePassword, Key, Go, FailsTo
<1>9. CASE CheckFile
  BY <1>9 DEF CheckFile, Key, Go
<1>10. CASE CheckPermissions
  BY <1>0, <1>10, MatchesExactly DEF CheckPermissions, Key, Go, FailsTo
<1>11. CASE Bake
  BY <1>11 DEF Bake, Key, Go, FailsTo
<1>12. CASE WriteFile
  BY <1>12 DEF WriteFile, Key, Go, FailsTo
<1>13. CASE Stop
  BY <1>13 DEF Stop, Go
<1>14. CASE Crash
  BY <1>14 DEF Crash
<1>15. CASE ReplaceStore
  BY <1>15 DEF ReplaceStore
<1>16. CASE RemoveFile
  BY <1>16 DEF RemoveFile
<1>17. QED
  BY <1>0, <1>1, <1>2, <1>3, <1>4, <1>5, <1>6, <1>7, <1>8, <1>9, <1>10,
     <1>11, <1>12, <1>13, <1>14, <1>15, <1>16 DEF Next, StartStep

\* What Start knows at each of its steps, it knows in every behaviour.
THEOREM Invariance == Spec => []Inv
<1>1. Init => Inv
  BY InitInv
<1>2. Inv /\ [Next]_vars => Inv'
  BY NextInv
<1>3. QED
  BY <1>1, <1>2, PTL DEF Spec

\* A service that has started has its store open under the configured password
\* or the shared key, and a macaroon on disk that fits, after any number of
\* crashes, failures and changes of the configuration.
THEOREM StartedServicesFit == Spec => []StartedServiceFits
<1>1. Inv => StartedServiceFits
  BY DEF Inv, StartedServiceFits, StoreIsOpen, FileFits
<1>2. QED
  BY <1>1, Invariance, PTL

-----------------------------------------------------------------------------

\* A step that makes Start fail has one of the four reasons.
LEMMA FailingStep ==
    ASSUME Inv, Next, at # "failed", at' = "failed"
    PROVE  trouble' # "none" \/ LockedOut' \/ file.kind = "torn"
<1>0. ASSUME NEW from, NEW to, FailsTo(from, to)
      PROVE  trouble' # "none"
  BY <1>0 DEF FailsTo
<1>1. CASE NewServiceFails
  BY <1>1, <1>0 DEF NewServiceFails
<1>2. CASE DeriveSharedKey
  BY <1>2, <1>0 DEF DeriveSharedKey, Go
<1>3. CASE Unlock
  BY <1>3, <1>0 DEF Unlock, CreateUnlock, CreateUnlockRefuses, AfterRefusal,
     Go, Inv, TypeOK, OpensLocked, LockedOut, Key
<1>4. CASE UnlockEmpty
  BY <1>4, <1>0 DEF UnlockEmpty, CreateUnlock, CreateUnlockRefuses, Go, Inv,
     TypeOK, OpensLocked, TriedSharedKey, LockedOut, Key
<1>5. CASE ChangePassword
  BY <1>5, <1>0 DEF ChangePassword, Go, Inv, TypeOK, Migrates, LockedOut, Key
<1>6. CASE CheckPermissions
  BY <1>6, <1>0 DEF CheckPermissions, Go
<1>7. CASE Bake \/ WriteFile
  BY <1>7, <1>0 DEF Bake, WriteFile, Go
<1>8. CASE CheckFile \/ Stop
  BY <1>8 DEF CheckFile, Stop, Go
<1>9. CASE Start
  BY <1>9 DEF Start
<1>10. CASE \/ \E c \in MacaroonServiceConfig : NewMacaroonService(c)
            \/ Crash \/ ReplaceStore \/ RemoveFile
  BY <1>10 DEF NewMacaroonService, Crash, ReplaceStore, RemoveFile
<1>11. QED
  BY <1>1, <1>2, <1>3, <1>4, <1>5, <1>6, <1>7, <1>8, <1>9, <1>10
     DEF Next, StartStep

\* Start fails only because of an error from outside, a store left open, a
\* store that it cannot open, or a file that is no macaroon.
THEOREM FailuresAreExplained == Spec => FailureIsExplained
<1>1. Inv /\ [Next]_vars =>
          [at # "failed" /\ at' = "failed" =>
              \/ trouble' # "none"
              \/ LockedOut'
              \/ file.kind = "torn"]_vars
  BY FailingStep
<1>2. QED
  BY <1>1, Invariance, PTL DEF Spec, FailureIsExplained

=============================================================================
