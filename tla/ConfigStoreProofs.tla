------------------------- MODULE ConfigStoreProofs -------------------------
(***************************************************************************)
(* Theorems about ConfigStore, for every set of documents and every bound  *)
(* on interruptions.  StoreInv is the inductive invariant.  Neither        *)
(* property is inductive by itself: what a boot would find depends on      *)
(* which files the steps of save() have already moved, so StoreInv says,   *)
(* step by step, where the promised document is.                           *)
(***************************************************************************)
EXTENDS ConfigStore, TLAPS

\* The whole document is in config.tmp before any other file is touched, and a
\* reset has dealt with each file in turn.
FilesInv ==
    /\ json # Torn /\ bak # Torn
    /\ step \in {"bakGone", "rotated"} => tmp = config
    /\ step \in Erasing => promise = Nothing /\ json \in {NoFile} \cup kept
    /\ step = "bakErased" => bak \in {NoFile} \cup kept

\* Before the rotation the promised document is the live one.  A first
\* interruption can leave it in the backup, and no further.
PromiseInv ==
    promise \in Docs =>
        /\ interruptions = 0 /\ step # "rotated" => json = promise
        /\ interruptions = 0 /\ step = "rotated" =>
               json = NoFile /\ bak = promise
        /\ interruptions = 1 /\ step \in {"off", "idle", "opened", "written"} =>
               json = promise \/ (json = NoFile /\ bak = promise)

\* After a reset there is nothing but what it failed to remove, wherever the
\* saves that were interrupted since have moved it.
BlankInv == promise = NoFile => {json, bak} \subseteq {NoFile} \cup kept

StoreInv == TypeOK /\ FilesInv /\ PromiseInv /\ BlankInv

\* Every variable keeps its type; that what a reset leaves is a document rests
\* on no file but config.tmp ever being torn.
LEMMA TypeStep == StoreInv /\ [Next]_vars => TypeOK'
<1> SUFFICES ASSUME StoreInv, [Next]_vars PROVE TypeOK'
  OBVIOUS
<1> USE StoreAssumption DEF StoreInv, FilesInv, TypeOK, Files, Saving, Erasing, Remove, Erased
<1>1. CASE Boot
  BY <1>1 DEF Boot, BootDoc
<1>2. ASSUME NEW d \in Docs, Mutate(d) PROVE TypeOK'
  BY <1>2 DEF Mutate
<1>3. CASE OpenTemp
  BY <1>3 DEF OpenTemp
<1>4. CASE WriteTemp
  BY <1>4 DEF WriteTemp
<1>5. CASE RejectTemp
  BY <1>5 DEF RejectTemp
<1>6. CASE RemoveBackup
  BY <1>6 DEF RemoveBackup
<1>7. CASE Rotate
  BY <1>7 DEF Rotate
<1>8. CASE Install
  BY <1>8 DEF Install
<1>9. CASE InstallFails
  BY <1>9 DEF InstallFails
<1>10. CASE EraseJson
  BY <1>10 DEF EraseJson
<1>11. CASE EraseBackup
  BY <1>11 DEF EraseBackup
<1>12. CASE EraseTemp
  BY <1>12 DEF EraseTemp
<1>13. CASE PowerLoss
  BY <1>13 DEF PowerLoss
<1>14. CASE UNCHANGED vars
  BY <1>14 DEF vars
<1>15. QED
  BY <1>1, <1>2, <1>3, <1>4, <1>5, <1>6, <1>7, <1>8, <1>9, <1>10, <1>11,
     <1>12, <1>13, <1>14 DEF Next

LEMMA StoreInvInit == Init => StoreInv
  BY StoreAssumption
  DEF Init, StoreInv, TypeOK, FilesInv, PromiseInv, BlankInv, Files, Saving, Erasing, Remove, Erased

\* The type part of StoreInv is TypeStep's; each step of the code has then to
\* keep the other three conjuncts.
LEMMA StoreInvStep == StoreInv /\ TypeOK' /\ [Next]_vars => StoreInv'
<1> SUFFICES ASSUME StoreInv, TypeOK', [Next]_vars
             PROVE (FilesInv /\ PromiseInv /\ BlankInv)'
  BY DEF StoreInv
<1> USE StoreAssumption
    DEF StoreInv, TypeOK, FilesInv, PromiseInv, BlankInv, Files, Saving, Erasing, Remove, Erased
<1>1. CASE Boot
  BY <1>1 DEF Boot
<1>2. ASSUME NEW d \in Docs, Mutate(d) PROVE (FilesInv /\ PromiseInv /\ BlankInv)'
  BY <1>2 DEF Mutate
<1>3. CASE OpenTemp
  BY <1>3 DEF OpenTemp
<1>4. CASE WriteTemp
  BY <1>4 DEF WriteTemp
<1>5. CASE RejectTemp
  BY <1>5 DEF RejectTemp
<1>6. CASE RemoveBackup
  <2>1. FilesInv' /\ BlankInv'
    BY <1>6 DEF RemoveBackup
  <2>2. PromiseInv'
    BY <1>6 DEF RemoveBackup
  <2>3. QED
    BY <2>1, <2>2
<1>7. CASE Rotate
  <2>1. FilesInv' /\ BlankInv'
    BY <1>7 DEF Rotate
  <2>2. PromiseInv'
    BY <1>7 DEF Rotate
  <2>3. QED
    BY <2>1, <2>2
<1>8. CASE Install
  BY <1>8 DEF Install
<1>9. CASE InstallFails
  <2>1. FilesInv' /\ BlankInv'
    BY <1>9 DEF InstallFails
  <2>2. PromiseInv'
    BY <1>9 DEF InstallFails
  <2>3. QED
    BY <2>1, <2>2
<1>10. CASE EraseJson
  BY <1>10 DEF EraseJson
<1>11. CASE EraseBackup
  BY <1>11 DEF EraseBackup
<1>12. CASE EraseTemp
  BY <1>12 DEF EraseTemp
<1>13. CASE PowerLoss
  BY <1>13 DEF PowerLoss
<1>14. CASE UNCHANGED vars
  BY <1>14 DEF vars
<1>15. QED
  BY <1>1, <1>2, <1>3, <1>4, <1>5, <1>6, <1>7, <1>8, <1>9, <1>10, <1>11,
     <1>12, <1>13, <1>14 DEF Next

LEMMA StoreInvAlways == Spec => []StoreInv
<1>1. StoreInv /\ [Next]_vars => StoreInv'
  BY StoreInvStep, TypeStep
<1>2. QED
  BY <1>1, StoreInvInit, PTL DEF Spec

\* The variables have their types: in particular what load() leaves in memory
\* is always a document, whatever the flash holds.
THEOREM TypeCorrect == Spec => []TypeOK
<1>1. StoreInv => TypeOK
  BY DEF StoreInv
<1>2. QED
  BY <1>1, StoreInvAlways, PTL

\* A save that was reported as successful is what a boot finds, until a
\* second interruption.
THEOREM SavedSurvives == Spec => []SavedSurvivesOneInterruption
<1>1. StoreInv => SavedSurvivesOneInterruption
  BY StoreAssumption
  DEF StoreInv, TypeOK, PromiseInv, SavedSurvivesOneInterruption, BootDoc
<1>2. QED
  BY <1>1, StoreInvAlways, PTL

\* After a completed factory reset no boot finds a document but one whose removal
\* failed, until a save completes.
THEOREM ResetForgotten == Spec => []ResetForgets
<1>1. StoreInv => ResetForgets
  BY StoreAssumption DEF StoreInv, BlankInv, ResetForgets, BootDoc
<1>2. QED
  BY <1>1, StoreInvAlways, PTL

\* A step of the files is a step of the vault, or none of its business.
LEMMA VaultStep ==
    StoreInv /\ StoreInv' /\ [Next]_vars => [Vault!VaultNext]_(Vault!vaultVars)
<1> SUFFICES ASSUME StoreInv, StoreInv', [Next]_vars
             PROVE  Vault!VaultNext \/ UNCHANGED Vault!vaultVars
  OBVIOUS
<1> USE StoreAssumption
    DEF StoreInv, TypeOK, FilesInv, BootDoc, Files, Saving, Erasing, Remove,
        Vault!VaultNext, Vault!vaultVars
<1>1. CASE Boot
  <2>1. Vault!PowerOn
    BY <1>1 DEF Boot, Vault!PowerOn
  <2>2. QED
    BY <2>1
<1>2. ASSUME NEW d \in Docs, Mutate(d)
      PROVE Vault!VaultNext \/ UNCHANGED Vault!vaultVars
  <2>1. Vault!Change(d)
    BY <1>2 DEF Mutate, Vault!Change
  <2>2. QED
    BY <2>1
<1>3. CASE OpenTemp
  BY <1>3 DEF OpenTemp
<1>4. CASE WriteTemp
  BY <1>4 DEF WriteTemp
<1>5. CASE RejectTemp
  BY <1>5 DEF RejectTemp
<1>6. CASE RemoveBackup
  <2>1. CASE json \in Docs \/ bak' = bak
    BY <1>6, <2>1 DEF RemoveBackup
  <2>2. CASE json \notin Docs /\ bak' = NoFile
    <3>1. Vault!Drop
      BY <1>6, <2>2 DEF RemoveBackup, Vault!Drop
    <3>2. QED
      BY <3>1
  <2>3. QED
    BY <1>6, <2>1, <2>2 DEF RemoveBackup
<1>7. CASE Rotate
  <2>1. Vault!Settle
    BY <1>7 DEF Rotate, Vault!Settle
  <2>2. QED
    BY <2>1
<1>8. CASE Install
  <2>1. Vault!Commit
    BY <1>8 DEF Install, Vault!Commit
  <2>2. QED
    BY <2>1
<1>9. CASE InstallFails
  <2>1. CASE json \in Docs /\ bak \in Docs /\ json' = bak
    <3>1. Vault!Revert
      BY <1>9, <2>1 DEF InstallFails, Vault!Revert
    <3>2. QED
      BY <3>1
  <2>2. CASE ~(json \in Docs /\ bak \in Docs /\ json' = bak)
    <3>1. Vault!Settle
      BY <1>9, <2>2 DEF InstallFails, Vault!Settle
    <3>2. QED
      BY <3>1
  <2>3. QED
    BY <2>1, <2>2
<1>10. CASE EraseJson
  <2>1. Vault!BeginErase
    BY <1>10 DEF EraseJson, Vault!BeginErase
  <2>2. QED
    BY <2>1
<1>11. CASE EraseBackup
  <2>1. Vault!Erase
    BY <1>11 DEF EraseBackup, Vault!Erase
  <2>2. QED
    BY <2>1
<1>12. CASE EraseTemp
  <2>1. Vault!EndErase
    BY <1>12 DEF EraseTemp, Vault!EndErase
  <2>2. QED
    BY <2>1
<1>13. CASE PowerLoss
  <2>1. Vault!PowerOff
    BY <1>13 DEF PowerLoss, Vault!PowerOff
  <2>2. QED
    BY <2>1
<1>14. CASE UNCHANGED vars
  BY <1>14 DEF vars
<1>15. QED
  BY <1>1, <1>2, <1>3, <1>4, <1>5, <1>6, <1>7, <1>8, <1>9, <1>10, <1>11,
     <1>12, <1>13, <1>14 DEF Next

\* The three files implement the vault: no step of save(), load() or
\* factoryReset() changes what the next boot finds in a way it does not allow.
THEOREM StoreImplementsVault == Spec => ImplementsVault
<1>1. Init => Vault!VaultInit
  BY StoreAssumption DEF Init, BootDoc, Erasing, Vault!VaultInit
<1>2. QED
  BY <1>1, VaultStep, StoreInvAlways, PTL DEF Spec, ImplementsVault, Vault!VaultSpec
=============================================================================
