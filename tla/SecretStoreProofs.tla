------------------------- MODULE SecretStoreProofs -------------------------
(***************************************************************************)
(* Machine-checked proofs about SecretStore, for every set of rows,        *)
(* passwords, salts, keys and environments.                                *)
(***************************************************************************)
EXTENDS SecretStore, TLAPS

-----------------------------------------------------------------------------
(* Type correctness *)

\* Every reachable state is well typed, whether or not writes may fail.
THEOREM TypeCorrect == Spec => []TypeOK
<1>1. Init => TypeOK
  BY ConstantsAssumption DEF Init, TypeOK
<1>2. TypeOK /\ [Next]_vars => TypeOK'
  <2> SUFFICES ASSUME TypeOK, [Next]_vars PROVE TypeOK'
    OBVIOUS
  <2> USE ConstantsAssumption DEF TypeOK
  <2>1. ASSUME NEW e \in EnvValues, Boot(e) PROVE TypeOK'
    BY <2>1 DEF Boot, initSecretsFromEnv, Key
  <2>2. CASE Exit
    BY <2>2 DEF Exit, disk
  <2>3. ASSUME NEW p \in Passwords, NEW salt \in Salts, SetMasterPassword(p, salt)
        PROVE TypeOK'
    BY <2>3 DEF SetMasterPassword, Derive, Key
  <2>4. CASE RecordKeyCheck
    BY <2>4 DEF RecordKeyCheck
  <2>5. CASE RecordKeyCheckFails
    BY <2>5 DEF RecordKeyCheckFails, disk
  <2>6. ASSUME NEW p \in Passwords, UnlockStore(p) PROVE TypeOK'
    BY <2>6 DEF UnlockStore, disk, Derive, Key
  <2>7. CASE LockStore
    BY <2>7 DEF LockStore, disk
  <2>8. ASSUME NEW r \in Rows, NEW s \in Secrets \cup {None}, CreateRow(r, s)
        PROVE TypeOK'
    <3>1. (IF s = None THEN None ELSE encryptSecret(s)) \in Blob \cup {None}
      BY <2>8 DEF CreateRow, isUnlocked, encryptSecret, Blob
    <3>2. QED
      BY <2>8, <3>1 DEF CreateRow, memory
  <2>9. ASSUME NEW r \in Rows, UpdateRow(r) PROVE TypeOK'
    <3>1. \A s \in Secrets : isUnlocked => encryptSecret(s) \in Blob
      BY DEF isUnlocked, encryptSecret, Blob
    <3>2. QED
      BY <2>9, <3>1 DEF UpdateRow, memory
  <2>10. ASSUME NEW r \in Rows, DeleteRow(r) PROVE TypeOK'
    BY <2>10 DEF DeleteRow, memory
  <2>11. CASE UNCHANGED vars
    BY <2>11 DEF vars
  <2>12. QED
    BY <2>1, <2>2, <2>3, <2>4, <2>5, <2>6, <2>7, <2>8, <2>9, <2>10, <2>11
    DEF Next, CreateStoredConnection, UpdateStoredConnection, DeleteStoredConnection,
        CreateStoredAIProvider, UpdateStoredAIProvider, DeleteStoredAIProvider, Rows
<1>3. QED
  BY <1>1, <1>2, PTL DEF Spec

-----------------------------------------------------------------------------
(* Key safety *)

\* A fresh data directory satisfies StoreInv.
LEMMA InitStoreInv == Init => StoreInv
  BY ConstantsAssumption DEF Init, StoreInv

\* One step preserves StoreInv unless it is a failing write.
LEMMA StepStoreInv ==
    ASSUME ~writeFailed', TypeOK, StoreInv, [Next]_vars
    PROVE  StoreInv'
<1> USE ConstantsAssumption DEF TypeOK, StoreInv
<1>1. ASSUME NEW e \in EnvValues, Boot(e) PROVE StoreInv'
  BY <1>1 DEF Boot, initSecretsFromEnv, Key
<1>2. CASE Exit
  BY <1>2 DEF Exit, disk
<1>3. ASSUME NEW p \in Passwords, NEW salt \in Salts, SetMasterPassword(p, salt)
      PROVE StoreInv'
  BY <1>3 DEF SetMasterPassword, Idle, hasMasterPassword, Derive, Key
<1>4. CASE RecordKeyCheck
  BY <1>4 DEF RecordKeyCheck, Derive, Key
<1>5. CASE RecordKeyCheckFails
  BY <1>5 DEF RecordKeyCheckFails
<1>6. ASSUME NEW p \in Passwords, UnlockStore(p) PROVE StoreInv'
  BY <1>6 DEF UnlockStore, disk, Idle, verifyKeyCheck
<1>7. CASE LockStore
  BY <1>7 DEF LockStore, disk, Idle
<1>8. ASSUME NEW r \in Rows, NEW s \in Secrets \cup {None}, CreateRow(r, s)
      PROVE StoreInv'
  BY <1>8 DEF CreateRow, memory, Idle, isUnlocked, encryptSecret, Key
<1>9. ASSUME NEW r \in Rows, UpdateRow(r) PROVE StoreInv'
  BY <1>9 DEF UpdateRow, memory, Idle, isUnlocked, encryptSecret, Key
<1>10. ASSUME NEW r \in Rows, DeleteRow(r) PROVE StoreInv'
  BY <1>10 DEF DeleteRow, memory
<1>11. CASE UNCHANGED vars
  BY <1>11 DEF vars
<1>12. QED
  BY <1>1, <1>2, <1>3, <1>4, <1>5, <1>6, <1>7, <1>8, <1>9, <1>10, <1>11
  DEF Next, CreateStoredConnection, UpdateStoredConnection, DeleteStoredConnection,
      CreateStoredAIProvider, UpdateStoredAIProvider, DeleteStoredAIProvider, Rows

\* StoreInv is what the two key-safety properties follow from.
LEMMA StoreInvSuffices ==
    ASSUME TypeOK, StoreInv
    PROVE  NoStrandedSecret /\ OnlyVerifiedKeyInForce
BY ConstantsAssumption
   DEF TypeOK, StoreInv, NoStrandedSecret, OnlyVerifiedKeyInForce, Idle, isKeyFromEnv,
       Blob, Key

\* The history only grows, and stays empty where writes do not fail.
LEMMA WriteFailedGrows ==
    ASSUME TypeOK, [Next]_vars
    PROVE  (writeFailed => writeFailed') /\ (~WritesMayFail /\ ~writeFailed => ~writeFailed')
BY DEF Next, vars, Boot, Exit, SetMasterPassword, RecordKeyCheck, RecordKeyCheckFails, UnlockStore,
       LockStore, CreateStoredConnection, UpdateStoredConnection, DeleteStoredConnection,
       CreateStoredAIProvider, UpdateStoredAIProvider, DeleteStoredAIProvider, CreateRow, UpdateRow,
       DeleteRow

\* Unless a second write of setMasterPassword has failed, no secret sealed under a master
\* password is stranded and no unverified key is in force.
THEOREM KeySafety == Spec => [](NoStrandedSecret /\ OnlyVerifiedKeyInForce)
<1>1. TypeOK /\ (writeFailed \/ StoreInv) /\ [Next]_vars => (writeFailed \/ StoreInv)'
  BY StepStoreInv, WriteFailedGrows
<1>2. TypeOK /\ (writeFailed \/ StoreInv) => NoStrandedSecret /\ OnlyVerifiedKeyInForce
  BY StoreInvSuffices DEF NoStrandedSecret, OnlyVerifiedKeyInForce
<1>3. QED
  BY <1>1, <1>2, InitStoreInv, TypeCorrect, PTL DEF Spec

\* Failed unlocks, locks and crashes leave no wrong password's key in force.
THEOREM KeyInForce == Spec => []OnlyVerifiedKeyInForce
  BY KeySafety, PTL

\* An established key is never replaced, even when writes may fail.
THEOREM KeyForGood == Spec => EstablishedForGood
<1>1. TypeOK /\ (setting => up /\ keyCheck = None) /\ [Next]_vars =>
        /\ (setting => up /\ keyCheck = None)'
        /\ keyCheck # None => keyCheck' = keyCheck /\ kdfSalt' = kdfSalt
  <2> SUFFICES ASSUME TypeOK, setting => up /\ keyCheck = None, [Next]_vars
               PROVE  /\ (setting => up /\ keyCheck = None)'
                      /\ keyCheck # None => keyCheck' = keyCheck /\ kdfSalt' = kdfSalt
    OBVIOUS
  <2> USE DEF disk, memory
  <2>1. CASE \E e \in EnvValues : Boot(e)
    BY <2>1 DEF Boot, initSecretsFromEnv, TypeOK
  <2>2. CASE \E p \in Passwords, salt \in Salts : SetMasterPassword(p, salt)
    BY <2>2 DEF SetMasterPassword, hasMasterPassword, Idle
  <2>3. CASE Exit \/ RecordKeyCheck \/ RecordKeyCheckFails \/ LockStore
    BY <2>3 DEF Exit, RecordKeyCheck, RecordKeyCheckFails, LockStore
  <2>4. CASE \E p \in Passwords : UnlockStore(p)
    BY <2>4 DEF UnlockStore
  <2>5. ASSUME NEW r \in Rows,
               UpdateRow(r) \/ DeleteRow(r) \/ \E s \in Secrets \cup {None} : CreateRow(r, s)
        PROVE  UNCHANGED <<up, setting, keyCheck, kdfSalt>>
    BY <2>5 DEF UpdateRow, DeleteRow, CreateRow
  <2>6. CASE UNCHANGED vars
    BY <2>6 DEF vars
  <2>7. QED
    BY <2>1, <2>2, <2>3, <2>4, <2>5, <2>6
    DEF Next, CreateStoredConnection, UpdateStoredConnection, DeleteStoredConnection,
        CreateStoredAIProvider, UpdateStoredAIProvider, DeleteStoredAIProvider, Rows
<1>2. Init => (setting => up /\ keyCheck = None)
  BY DEF Init
<1>3. QED
  BY <1>1, <1>2, TypeCorrect, PTL DEF Spec, EstablishedForGood

-----------------------------------------------------------------------------
(* The store implements the vault when every boot sees the same environment *)

\* What a fixed environment adds to StoreInv: there is only one key, so every
\* blob opens under the recorded one; with an environment key there is never a
\* salt to unlock with.
OneKeyInv(e) ==
    /\ setting \/ activeKey \in {None, keyCheck}
    /\ \A r \in Rows : sealed[r] # None => sealed[r].key = keyCheck
    /\ e # None => /\ up => keyCheck = e
                   /\ keyCheck \in {None, e}
                   /\ kdfSalt = None /\ ~setting
    /\ e = None => keyCheck \notin EnvKeys

\* Every step that writes without a failure keeps the invariant.
LEMMA StepOneKeyInv ==
    ASSUME ~writeFailed', NEW e, EnvValues = {e},
           TypeOK, StoreInv, OneKeyInv(e), [Next]_vars
    PROVE  OneKeyInv(e)'
<1> USE ConstantsAssumption DEF TypeOK, StoreInv, OneKeyInv
<1>1. CASE Boot(e)
  BY <1>1 DEF Boot, initSecretsFromEnv, Key
<1>2. CASE Exit
  BY <1>2 DEF Exit, disk
<1>3. ASSUME NEW p \in Passwords, NEW salt \in Salts, SetMasterPassword(p, salt)
      PROVE OneKeyInv(e)'
  BY <1>3 DEF SetMasterPassword, Idle, hasMasterPassword, Derive, Key
<1>4. CASE RecordKeyCheck
  BY <1>4 DEF RecordKeyCheck, Derive, Key
<1>5. CASE RecordKeyCheckFails
  BY <1>5 DEF RecordKeyCheckFails
<1>6. ASSUME NEW p \in Passwords, UnlockStore(p) PROVE OneKeyInv(e)'
  BY <1>6 DEF UnlockStore, disk, Idle, verifyKeyCheck
<1>7. CASE LockStore
  BY <1>7 DEF LockStore, disk, Idle
<1>8. ASSUME NEW r \in Rows, NEW s \in Secrets \cup {None}, CreateRow(r, s)
      PROVE OneKeyInv(e)'
  BY <1>8 DEF CreateRow, memory, Idle, isUnlocked, encryptSecret, Key
<1>9. ASSUME NEW r \in Rows, UpdateRow(r) PROVE OneKeyInv(e)'
  BY <1>9 DEF UpdateRow, memory, Idle, isUnlocked, encryptSecret, Key
<1>10. ASSUME NEW r \in Rows, DeleteRow(r) PROVE OneKeyInv(e)'
  BY <1>10 DEF DeleteRow, memory
<1>11. CASE UNCHANGED vars
  BY <1>11 DEF vars
<1>12. QED
  BY <1>1, <1>2, <1>3, <1>4, <1>5, <1>6, <1>7, <1>8, <1>9, <1>10, <1>11
  DEF Next, CreateStoredConnection, UpdateStoredConnection, DeleteStoredConnection,
      CreateStoredAIProvider, UpdateStoredAIProvider, DeleteStoredAIProvider, Rows

\* The two abstract tables, by name.
Stored == [r \in Rows |-> IF sealed[r] = None THEN None ELSE sealed[r].plain]
Seen == [r \in Rows |-> tryDecrypt(r)]
Opened == isUnlocked /\ ~setting

\* With one key, a reader sees everything while the store is unlocked and
\* nothing while it is locked.
SeenIffOpened == Seen = Vault!VisibleIf(Opened, Stored)

\* What the invariant comes to: an entry is seen exactly by a store that was opened.
LEMMA OneKeySuffices ==
    ASSUME NEW e, TypeOK, StoreInv, OneKeyInv(e)
    PROVE  SeenIffOpened
<1> USE ConstantsAssumption DEF TypeOK, StoreInv, OneKeyInv
<1>1. ASSUME NEW r \in Rows, Opened
      PROVE  tryDecrypt(r) = Stored[r]
  BY <1>1 DEF tryDecrypt, Stored, isUnlocked, Opened
<1>2. ASSUME NEW r \in Rows, ~Opened
      PROVE  tryDecrypt(r) = None
  BY <1>2 DEF tryDecrypt, isUnlocked, Opened
<1>3. QED
  BY <1>1, <1>2 DEF Seen, Stored, SeenIffOpened, Vault!VisibleIf

\* Every step of the store is a step of the vault or leaves it unchanged.
LEMMA StepVault ==
    ASSUME ~WritesMayFail, NEW e, EnvValues = {e},
           TypeOK, StoreInv, OneKeyInv(e), SeenIffOpened, SeenIffOpened',
           [Next]_vars
    PROVE  [Vault!VNext]_(Vault!vvars)
<1> DEFINE OpensItself == None \notin EnvValues
<1> USE ConstantsAssumption
<1>1. OpensItself <=> e # None
  OBVIOUS
<1>2. ASSUME UNCHANGED <<sealed, rows, up>> PROVE UNCHANGED <<Stored, rows, up>>
  BY <1>2 DEF Stored
<1>3. CASE Boot(e)
  <2>1. (Opened' <=> OpensItself) /\ (hasMasterPassword' <=> hasMasterPassword \/ OpensItself)
    BY <1>1, <1>3 DEF Boot, initSecretsFromEnv, isUnlocked, StoreInv, Opened, hasMasterPassword
  <2>2. Vault!Start
    BY <1>3, <2>1 DEF Vault!Start, Vault!VisibleIf, SeenIffOpened, Seen, Stored, Opened,
        isUnlocked, hasMasterPassword, Boot
  <2>3. QED
    BY <2>2 DEF Vault!VNext
<1>4. CASE Exit
  <2>1. ~Opened' /\ (hasMasterPassword' <=> hasMasterPassword)
    BY <1>4 DEF Exit, disk, isUnlocked, Opened, hasMasterPassword
  <2>2. Vault!Stop
    BY <1>4, <2>1 DEF Vault!Stop, Vault!VisibleIf, SeenIffOpened, Seen, Stored, Opened,
        isUnlocked, hasMasterPassword, Exit, disk
  <2>3. QED
    BY <2>2 DEF Vault!VNext
<1>5. ASSUME NEW p \in Passwords, NEW salt \in Salts, SetMasterPassword(p, salt)
      PROVE  UNCHANGED Vault!vvars
  <2>1. ~Opened /\ ~Opened' /\ (hasMasterPassword' <=> hasMasterPassword)
    BY <1>5 DEF SetMasterPassword, Idle, hasMasterPassword, isUnlocked, Opened, OneKeyInv
  <2>2. UNCHANGED <<Seen, Stored>>
    BY <1>5, <2>1 DEF SetMasterPassword, SeenIffOpened, Stored, Vault!VisibleIf
  <2>3. QED
    BY <1>5, <2>1, <2>2 DEF SetMasterPassword, Vault!vvars, Seen, Stored, Opened,
                            isUnlocked, hasMasterPassword
<1>6. CASE RecordKeyCheck
  <2>1. Opened' /\ ~hasMasterPassword /\ hasMasterPassword'
    BY <1>6 DEF RecordKeyCheck, Opened, isUnlocked, hasMasterPassword, StoreInv, TypeOK,
                Derive, Key
  <2>2. up
    BY <1>6 DEF RecordKeyCheck, StoreInv
  <2>3. Vault!Establish
    BY <1>6, <2>1, <2>2
    DEF Vault!Establish, Vault!VisibleIf, SeenIffOpened, Seen, Stored, Opened,
        isUnlocked, hasMasterPassword, RecordKeyCheck
  <2>4. QED
    BY <2>3 DEF Vault!VNext
<1>7. CASE RecordKeyCheckFails
  BY <1>7 DEF RecordKeyCheckFails
<1>8. ASSUME NEW p \in Passwords, UnlockStore(p) PROVE Vault!VNext
  <2>1. ~OpensItself /\ hasMasterPassword /\ hasMasterPassword' /\ Opened' \in BOOLEAN
    BY <1>1, <1>8 DEF UnlockStore, disk, hasMasterPassword, OneKeyInv, Opened
  <2>2. Vault!TryOpen
    BY <1>8, <2>1
    DEF Vault!TryOpen, Vault!VisibleIf, SeenIffOpened, Seen, Stored, Opened,
        isUnlocked, hasMasterPassword, UnlockStore, disk, Idle
  <2>3. QED
    BY <2>2 DEF Vault!VNext
<1>9. CASE LockStore
  <2>1. ~Opened' /\ (hasMasterPassword' <=> hasMasterPassword)
    BY <1>9 DEF LockStore, disk, isUnlocked, Opened, hasMasterPassword
  <2>2. Vault!Shut
    BY <1>9, <2>1
    DEF Vault!Shut, Vault!VisibleIf, SeenIffOpened, Seen, Stored, Opened,
        isUnlocked, hasMasterPassword, LockStore, disk, Idle
  <2>3. QED
    BY <2>2 DEF Vault!VNext
<1>10. ASSUME NEW r \in Rows, NEW s \in Secrets \cup {None}, CreateRow(r, s)
       PROVE  Vault!VNext
  <2>1. /\ up /\ UNCHANGED <<up, hasMasterPassword, Opened>>
        /\ r \notin rows /\ rows' = rows \cup {r}
    BY <1>10 DEF CreateRow, Idle, memory, hasMasterPassword, isUnlocked, Opened
  <2>2. CASE s = None
    <3>1. Stored' = Stored
      BY <1>10, <2>2 DEF CreateRow, Stored, StoreInv
    <3>2. Vault!Store(r)
      BY <2>1, <3>1 DEF Vault!Store, SeenIffOpened, Seen, Stored, Opened
    <3>3. QED
      BY <3>2 DEF Vault!VNext
  <2>3. CASE s # None
    <3> DEFINE b == encryptSecret(s)
    <3>a. Opened /\ s \in Secrets /\ sealed' = [sealed EXCEPT ![r] = b]
      BY <1>10, <2>3 DEF CreateRow, Idle, isUnlocked, Opened
    <3>b. b # None /\ b.plain = s
      BY <3>a DEF encryptSecret, Blob, TypeOK, Opened, isUnlocked
    <3>1. Opened /\ s \in Secrets /\ Stored' = [Stored EXCEPT ![r] = s]
      <4> HIDE DEF b
      <4> QED BY <3>a, <3>b DEF Stored, TypeOK
    <3>2. Vault!Store(r)
      BY <2>1, <3>1 DEF Vault!Store, SeenIffOpened, Seen, Stored, Opened
    <3>3. QED
      BY <3>2 DEF Vault!VNext
  <2>4. QED
    BY <2>2, <2>3
<1>11. ASSUME NEW r \in Rows, UpdateRow(r)
       PROVE  [Vault!VNext]_(Vault!vvars)
  <2>1. /\ up /\ UNCHANGED <<up, hasMasterPassword, Opened>>
        /\ r \in rows /\ rows' = rows /\ rows' = rows \cup {r}
    BY <1>11 DEF UpdateRow, Idle, memory, hasMasterPassword, isUnlocked, Opened
  <2>2. CASE UNCHANGED sealed
    <3>1. UNCHANGED <<Stored, Seen>>
      BY <1>11, <2>2 DEF UpdateRow, memory, Stored, Seen, tryDecrypt
    <3>2. QED
      BY <2>1, <3>1 DEF Vault!vvars, Stored, Seen, Opened
  <2>3. CASE sealed' = [sealed EXCEPT ![r] = None]
    <3>1. Stored' = [Stored EXCEPT ![r] = None]
      BY <2>3 DEF Stored, TypeOK
    <3>2. Vault!Store(r)
      BY <2>1, <3>1 DEF Vault!Store, SeenIffOpened, Seen, Stored, Opened
    <3>3. QED
      BY <3>2 DEF Vault!VNext
  <2>4. ASSUME NEW s \in Secrets, isUnlocked,
               sealed' = [sealed EXCEPT ![r] = encryptSecret(s)]
        PROVE  Vault!VNext
    <3> DEFINE b == encryptSecret(s)
    <3>a. Opened /\ sealed' = [sealed EXCEPT ![r] = b]
      BY <1>11, <2>4 DEF UpdateRow, Idle, isUnlocked, Opened
    <3>b. b # None /\ b.plain = s
      BY <3>a DEF encryptSecret, Blob, TypeOK, Opened, isUnlocked
    <3>1. Opened /\ Stored' = [Stored EXCEPT ![r] = s]
      <4> HIDE DEF b
      <4> QED BY <3>a, <3>b DEF Stored, TypeOK
    <3>2. Vault!Store(r)
      BY <2>1, <3>1 DEF Vault!Store, SeenIffOpened, Seen, Stored, Opened
    <3>3. QED
      BY <3>2 DEF Vault!VNext
  <2>5. QED
    BY <1>11, <2>2, <2>3, <2>4 DEF UpdateRow
<1>12. ASSUME NEW r \in Rows, DeleteRow(r) PROVE Vault!VNext
  <2>1. /\ up /\ UNCHANGED <<up, hasMasterPassword, Opened>>
        /\ r \in rows /\ rows' = rows \ {r}
    BY <1>12 DEF DeleteRow, Idle, memory, hasMasterPassword, isUnlocked, Opened
  <2>2. Stored' = [Stored EXCEPT ![r] = None]
    BY <1>12 DEF DeleteRow, Stored, TypeOK
  <2>3. Vault!Drop(r)
    BY <2>1, <2>2 DEF Vault!Drop, SeenIffOpened, Seen, Stored, Opened
  <2>4. QED
    BY <2>3 DEF Vault!VNext
<1>13. CASE UNCHANGED vars
  BY <1>13 DEF vars, Vault!vvars, hasMasterPassword, isUnlocked, tryDecrypt
<1>14. (\E x \in EnvValues : Boot(x)) => Boot(e)
  OBVIOUS
<1>15. QED
  BY <1>3, <1>4, <1>5, <1>6, <1>7, <1>8, <1>9, <1>10, <1>11, <1>12, <1>13, <1>14
  DEF Next, CreateStoredConnection, UpdateStoredConnection, DeleteStoredConnection,
      CreateStoredAIProvider, UpdateStoredAIProvider, DeleteStoredAIProvider, Rows

\* With writes that do not fail and one fixed environment (always no key, or
\* always the same key), the store implements the vault: through crashes,
\* restarts and failed unlocks, every stored secret is visible exactly while
\* the store is unlocked.
THEOREM StoreImplementsVault ==
    ASSUME ~WritesMayFail, NEW CONSTANT e, EnvValues = {e}
    PROVE  Spec => ImplementsVault
<1>1. Init => OneKeyInv(e)
  BY ConstantsAssumption DEF Init, OneKeyInv, Key
<1>0. Init => ~writeFailed
  BY DEF Init
<1>8. TypeOK /\ ~writeFailed /\ [Next]_vars => ~writeFailed'
  BY WriteFailedGrows
<1>2. TypeOK /\ StoreInv /\ ~writeFailed' /\ [Next]_vars => StoreInv'
  BY StepStoreInv
<1>3. TypeOK /\ StoreInv /\ OneKeyInv(e) /\ ~writeFailed' /\ [Next]_vars => OneKeyInv(e)'
  BY StepOneKeyInv
<1>4. TypeOK /\ StoreInv /\ OneKeyInv(e) => SeenIffOpened
  BY OneKeySuffices
<1>5. /\ TypeOK /\ StoreInv /\ OneKeyInv(e) /\ SeenIffOpened /\ SeenIffOpened'
      /\ [Next]_vars
      => [Vault!VNext]_(Vault!vvars)
  BY StepVault
<1>6. Init => Vault!VInit
  BY DEF Init, Vault!VInit, hasMasterPassword, isUnlocked, tryDecrypt
<1>7. QED
  BY <1>1, <1>2, <1>3, <1>4, <1>5, <1>6, <1>0, <1>8, InitStoreInv, TypeCorrect, PTL
  DEF Spec, ImplementsVault, Vault!VSpec
=============================================================================
