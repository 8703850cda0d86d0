---------------------------- MODULE SecretStore ----------------------------
(***************************************************************************)
(* The encrypted credential store of the server: the key lifecycle of      *)
(* server/lib/secrets.ts and server/lib/store.ts, and the rows that hold a *)
(* sealed secret (the password of a UI-added connection, the API key of a  *)
(* UI-added AI provider).                                                  *)
(*                                                                         *)
(* The SQLite file survives a restart; the key lives in process memory     *)
(* only.  The server is single-threaded and every operation below runs     *)
(* without an await, so operations interleave only with a crash, with one  *)
(* exception made visible here: setMasterPassword commits two meta rows    *)
(* one after the other, so a crash, or a failing second write, can come    *)
(* between them.                                                           *)
(***************************************************************************)

CONSTANTS
    Conns,         \* ids of store-backed connections
    Providers,     \* ids of store-backed AI providers
    Secrets,       \* plaintext passwords and API keys
    Passwords,     \* candidate master passwords, all of an accepted length
    Salts,         \* values generateSalt can draw
    EnvKeys,       \* well-formed values of PGCONSOLE_SECRET_KEY
    EnvValues,     \* what the environment holds at a boot: EnvKeys or None
    WritesMayFail, \* whether a SQLite write may throw (disk full, busy)
    None           \* null, undefined, an absent meta row

VARIABLES
    \* the SQLite file
    kdfSalt,       \* meta.kdf_salt
    keyCheck,      \* meta.key_check: the key the known plaintext is sealed under
    rows,          \* ids present in the connections and ai_providers tables
    sealed,        \* password_enc / api_key_enc of every row, None for NULL
    \* the server process
    up,            \* the process is running and the store is open
    env,           \* PGCONSOLE_SECRET_KEY of the running process
    activeKey,     \* secrets.ts: activeKey
    keyFromEnv,    \* store.ts: keyFromEnv
    setting,       \* inside setMasterPassword, between its two writes
    \* history
    drawn,         \* salts drawn so far: randomBytes never repeats one
    writeFailed    \* a second write of setMasterPassword has thrown

disk == <<kdfSalt, keyCheck, rows, sealed>>
memory == <<up, env, activeKey, keyFromEnv, setting>>
vars == <<kdfSalt, keyCheck, rows, sealed, up, env, activeKey, keyFromEnv, setting, drawn, writeFailed>>

Rows == Conns \cup Providers

(***************************************************************************)
(* Keys and sealed values.  scrypt is injective for the model's purposes,  *)
(* so a derived key is named by what it is derived from; AES-GCM opens     *)
(* a blob only under the key that sealed it.                               *)
(***************************************************************************)
Derive(p, salt) == <<p, salt>>
Key == EnvKeys \cup (Passwords \X Salts)
Blob == [key : Key, plain : Secrets]

ASSUME ConstantsAssumption ==
    /\ EnvValues \subseteq EnvKeys \cup {None}
    /\ WritesMayFail \in BOOLEAN
    /\ EnvKeys \cap (Passwords \X Salts) = {}
    /\ Conns \cap Providers = {}
    /\ None \notin Key
    /\ None \notin Blob
    /\ None \notin Salts

\* The recorded check opens under k.
verifyKeyCheck(k) == keyCheck = k

encryptSecret(s) == [key |-> activeKey, plain |-> s]

\* What a caller gets for a row's secret: undefined when the store is locked
\* or the blob does not open under the active key.
tryDecrypt(r) ==
    IF sealed[r] # None /\ activeKey # None /\ sealed[r].key = activeKey
    THEN sealed[r].plain
    ELSE None

isUnlocked == activeKey # None
hasMasterPassword == keyCheck # None
isKeyFromEnv == keyFromEnv

TypeOK ==
    /\ kdfSalt \in Salts \cup {None}
    /\ keyCheck \in Key \cup {None}
    /\ rows \subseteq Rows
    /\ sealed \in [Rows -> Blob \cup {None}]
    /\ up \in BOOLEAN
    /\ env \in EnvKeys \cup {None}
    /\ activeKey \in Key \cup {None}
    /\ keyFromEnv \in BOOLEAN
    /\ setting \in BOOLEAN
    /\ drawn \subseteq Salts
    /\ writeFailed \in BOOLEAN

\* A fresh data directory and no process.
Init ==
    /\ kdfSalt = None
    /\ keyCheck = None
    /\ rows = {}
    /\ sealed = [r \in Rows |-> None]
    /\ up = FALSE
    /\ env = None
    /\ activeKey = None
    /\ keyFromEnv = FALSE
    /\ setting = FALSE
    /\ drawn = {}
    /\ writeFailed = FALSE

\* The process can start a request handler's synchronous part.
Idle == up /\ ~setting

-----------------------------------------------------------------------------
(* Process lifecycle *)

\* startServer: migrate, then initSecretsFromEnv.  A malformed variable makes
\* startServer fail, which leaves the process down and the disk as it was.
initSecretsFromEnv(e) ==
    /\ activeKey' = e
    /\ keyFromEnv' = (e # None)
    /\ keyCheck' = IF e # None /\ keyCheck = None THEN e ELSE keyCheck

Boot(e) ==
    /\ ~up
    /\ up' = TRUE
    /\ env' = e
    /\ initSecretsFromEnv(e)
    /\ UNCHANGED <<kdfSalt, rows, sealed, setting, drawn, writeFailed>>

\* An orderly shutdown (closeStore, then exit) or a crash at any point.
Exit ==
    /\ up
    /\ up' = FALSE
    /\ env' = None
    /\ activeKey' = None
    /\ keyFromEnv' = FALSE
    /\ setting' = FALSE
    /\ UNCHANGED <<disk, drawn, writeFailed>>

-----------------------------------------------------------------------------
(* Key lifecycle *)

\* BUG: a master password can be set over an existing one.
SetMasterPassword_Over(p, salt) ==
    /\ Idle
    /\ salt \notin drawn
    /\ drawn' = drawn \cup {salt}
    /\ kdfSalt' = salt
    /\ activeKey' = Derive(p, salt)
    /\ setting' = TRUE
    /\ UNCHANGED <<keyCheck, rows, sealed, up, env, keyFromEnv, writeFailed>>

\* First half of setMasterPassword: record the salt, derive the key.
SetMasterPassword(p, salt) ==
    /\ Idle
    /\ ~hasMasterPassword
    /\ salt \notin drawn
    /\ drawn' = drawn \cup {salt}
    /\ kdfSalt' = salt
    /\ activeKey' = Derive(p, salt)
    /\ setting' = TRUE
    /\ UNCHANGED <<keyCheck, rows, sealed, up, env, keyFromEnv, writeFailed>>

\* Second half: record the key check.
RecordKeyCheck ==
    /\ setting
    /\ keyCheck' = activeKey
    /\ setting' = FALSE
    /\ UNCHANGED <<kdfSalt, rows, sealed, up, env, activeKey, keyFromEnv, drawn, writeFailed>>

\* The second write throws; nothing undoes the first half.
RecordKeyCheckFails ==
    /\ WritesMayFail
    /\ setting
    /\ setting' = FALSE
    /\ writeFailed' = TRUE
    /\ UNCHANGED <<disk, up, env, activeKey, keyFromEnv, drawn>>

\* BUG: a wrong password's key stays in force.
UnlockStore_KeepsKey(p) ==
    /\ Idle
    /\ kdfSalt # None
    /\ keyCheck # None
    /\ activeKey' = Derive(p, kdfSalt)
    /\ UNCHANGED <<disk, up, env, keyFromEnv, setting, drawn, writeFailed>>

\* A failed attempt drops the key, including one that was in force before.
UnlockStore(p) ==
    /\ Idle
    /\ kdfSalt # None
    /\ keyCheck # None
    /\ LET k == Derive(p, kdfSalt)
       IN  activeKey' = IF verifyKeyCheck(k) THEN k ELSE None
    /\ UNCHANGED <<disk, up, env, keyFromEnv, setting, drawn, writeFailed>>

LockStore ==
    /\ Idle
    /\ activeKey' = None
    /\ keyFromEnv' = FALSE
    /\ UNCHANGED <<disk, up, env, setting, drawn, writeFailed>>

-----------------------------------------------------------------------------
(* Rows with a secret.  A connection's password and a provider's API key   *)
(* follow the same contract: create seals a non-empty value, update keeps, *)
(* clears or replaces it, and sealing needs an active key.                 *)

\* BUG: a secret is sealed while the store is locked.
CreateRow_Locked(r, s) ==
    /\ Idle
    /\ r \notin rows
    /\ rows' = rows \cup {r}
    /\ sealed' = [sealed EXCEPT ![r] = IF s = None THEN None ELSE encryptSecret(s)]
    /\ UNCHANGED <<kdfSalt, keyCheck, memory, drawn, writeFailed>>

CreateRow(r, s) ==
    /\ Idle
    /\ r \notin rows
    /\ s # None => isUnlocked
    /\ rows' = rows \cup {r}
    /\ sealed' = [sealed EXCEPT ![r] = IF s = None THEN None ELSE encryptSecret(s)]
    /\ UNCHANGED <<kdfSalt, keyCheck, memory, drawn, writeFailed>>

UpdateRow(r) ==
    /\ Idle
    /\ r \in rows
    /\ \/ UNCHANGED sealed                                  \* undefined: keep
       \/ sealed' = [sealed EXCEPT ![r] = None]             \* '': clear
       \/ /\ isUnlocked                                     \* a value: replace
          /\ \E s \in Secrets : sealed' = [sealed EXCEPT ![r] = encryptSecret(s)]
    /\ UNCHANGED <<kdfSalt, keyCheck, rows, memory, drawn, writeFailed>>

DeleteRow(r) ==
    /\ Idle
    /\ r \in rows
    /\ rows' = rows \ {r}
    /\ sealed' = [sealed EXCEPT ![r] = None]
    /\ UNCHANGED <<kdfSalt, keyCheck, memory, drawn, writeFailed>>

CreateStoredConnection == \E c \in Conns, s \in Secrets \cup {None} : CreateRow(c, s)
UpdateStoredConnection == \E c \in Conns : UpdateRow(c)
DeleteStoredConnection == \E c \in Conns : DeleteRow(c)
CreateStoredAIProvider == \E q \in Providers, s \in Secrets \cup {None} : CreateRow(q, s)
UpdateStoredAIProvider == \E q \in Providers : UpdateRow(q)
DeleteStoredAIProvider == \E q \in Providers : DeleteRow(q)

-----------------------------------------------------------------------------
Next ==
    \/ \E e \in EnvValues : Boot(e)
    \/ Exit
    \/ \E p \in Passwords, salt \in Salts : SetMasterPassword(p, salt)
    \/ RecordKeyCheck
    \/ RecordKeyCheckFails
    \/ \E p \in Passwords : UnlockStore(p)
    \/ LockStore
    \/ CreateStoredConnection
    \/ UpdateStoredConnection
    \/ DeleteStoredConnection
    \/ CreateStoredAIProvider
    \/ UpdateStoredAIProvider
    \/ DeleteStoredAIProvider

Spec == Init /\ [][Next]_vars

-----------------------------------------------------------------------------
(* Properties *)

\* Unless that write has thrown, a secret sealed under a master-password key can always
\* be opened again by typing that password: its salt is the recorded one and the recorded
\* key check accepts the key.  Re-running setMasterPassword after a crash, mixing restarts
\* with and without PGCONSOLE_SECRET_KEY, locking and failed unlocks must never strand it
\* (store.ts:214-243).
NoStrandedSecret ==
    ~writeFailed => \A r \in rows :
        sealed[r] # None /\ sealed[r].key \notin EnvKeys =>
            /\ sealed[r].key = keyCheck
            /\ \E p \in Passwords : sealed[r].key = Derive(p, kdfSalt)

\* Under the same proviso, whenever a handler can run, a key that the store does not
\* report as coming from the environment is the verified one: no sequence of failed
\* unlocks, locks and crashes leaves a wrong password's key in force, under which new
\* secrets would be sealed for good (store.ts:232-236).
OnlyVerifiedKeyInForce ==
    ~writeFailed /\ Idle /\ ~isKeyFromEnv => activeKey \in {None, keyCheck}

\* The inductive invariant behind both, as long as no write has failed.  A stopped
\* process holds no key; inside setMasterPassword nothing is established yet;
\* outside it a password-derived key, in memory or under a blob, is always the
\* recorded one; and a recorded password key is derived from the recorded salt.
StoreInv ==
    /\ ~up => activeKey = None /\ ~keyFromEnv /\ ~setting
    /\ setting => keyCheck = None /\ ~keyFromEnv /\ kdfSalt # None
                  /\ \E p \in Passwords : activeKey = Derive(p, kdfSalt)
    /\ activeKey \notin EnvKeys \cup {None} => setting \/ activeKey = keyCheck
    /\ keyFromEnv => keyCheck # None
    /\ up /\ ~setting /\ ~keyFromEnv => activeKey \in {None, keyCheck}
    /\ keyCheck \notin EnvKeys \cup {None} => \E p \in Passwords : keyCheck = Derive(p, kdfSalt)
    /\ \A r \in Rows : sealed[r] # None => r \in rows
    /\ \A r \in Rows : sealed[r] # None =>
           /\ keyCheck # None
           /\ sealed[r].key \notin EnvKeys => sealed[r].key = keyCheck

\* An established key is never replaced: changing it would have to re-encrypt
\* every secret (store.ts:210-217).  Neither another setMasterPassword nor a
\* boot with a different environment rewrites the salt or the key check.
EstablishedForGood ==
    [][keyCheck # None => keyCheck' = keyCheck /\ kdfSalt' = kdfSalt]_vars

\* The store implements the vault for a deployment that always boots with the
\* same environment: every stored secret is visible exactly while the store is
\* unlocked, through crashes, restarts and failed unlocks.
Vault == INSTANCE CredentialVault WITH
    Ids <- Rows,
    AutoOpen <- None \notin EnvValues,
    running <- up,
    established <- hasMasterPassword,
    open <- isUnlocked /\ ~setting,
    present <- rows,
    secret <- [r \in Rows |-> IF sealed[r] = None THEN None ELSE sealed[r].plain],
    visible <- [r \in Rows |-> tryDecrypt(r)]

ImplementsVault == Vault!VSpec

=============================================================================
