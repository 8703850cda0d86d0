-------------------------- MODULE CredentialVault --------------------------
(***************************************************************************)
(* What the credential store promises its callers, with no mention of      *)
(* salts, derived keys, key checks or ciphertext: a table of secrets that  *)
(* survives restarts, a vault that is open or shut, and the rule that      *)
(* every stored secret is visible exactly while the vault is open.         *)
(*                                                                         *)
(* AutoOpen distinguishes the two supported deployments: a headless server *)
(* whose key is in the environment, and a desktop whose owner types a      *)
(* master password.                                                        *)
(***************************************************************************)

CONSTANTS
    Ids,       \* rows that can hold a secret
    Secrets,   \* plaintexts
    None,      \* no secret
    AutoOpen   \* the environment supplies the key at every start

VARIABLES
    running,      \* the server process is up
    established,  \* a key has been chosen for this vault
    open,         \* secrets can be read and written
    present,      \* rows in the table
    secret,       \* what each row's owner stored
    visible       \* what a reader of each row gets

vvars == <<running, established, open, present, secret, visible>>

VisibleIf(isOpen, s) == IF isOpen THEN s ELSE [i \in Ids |-> None]

VInit ==
    /\ running = FALSE
    /\ established = FALSE
    /\ open = FALSE
    /\ present = {}
    /\ secret = [i \in Ids |-> None]
    /\ visible = [i \in Ids |-> None]

Start ==
    /\ ~running
    /\ running' = TRUE
    /\ open' = AutoOpen
    /\ established' = (established \/ AutoOpen)
    /\ visible' = VisibleIf(AutoOpen, secret)
    /\ UNCHANGED <<present, secret>>

\* However the process ends, the secrets stay and the vault shuts.
Stop ==
    /\ running
    /\ running' = FALSE
    /\ open' = FALSE
    /\ visible' = VisibleIf(FALSE, secret)
    /\ UNCHANGED <<established, present, secret>>

Establish ==
    /\ running
    /\ ~established
    /\ established' = TRUE
    /\ open' = TRUE
    /\ visible' = secret
    /\ UNCHANGED <<running, present, secret>>

\* The right password opens the vault, a wrong one shuts it.
TryOpen ==
    /\ running
    /\ established
    /\ ~AutoOpen
    /\ open' \in BOOLEAN
    /\ visible' = VisibleIf(open', secret)
    /\ UNCHANGED <<running, established, present, secret>>

Shut ==
    /\ running
    /\ open' = FALSE
    /\ visible' = VisibleIf(FALSE, secret)
    /\ UNCHANGED <<running, established, present, secret>>

\* A new secret needs an open vault; keeping or clearing one does not.
Store(i) ==
    /\ running
    /\ present' = present \cup {i}
    /\ \/ i \notin present /\ secret' = secret
       \/ i \in present /\ secret' = [secret EXCEPT ![i] = None]
       \/ open /\ \E s \in Secrets : secret' = [secret EXCEPT ![i] = s]
    /\ visible' = VisibleIf(open, secret')
    /\ UNCHANGED <<running, established, open>>

Drop(i) ==
    /\ running
    /\ i \in present
    /\ present' = present \ {i}
    /\ secret' = [secret EXCEPT ![i] = None]
    /\ visible' = VisibleIf(open, secret')
    /\ UNCHANGED <<running, established, open>>

VNext ==
    \/ Start
    \/ Stop
    \/ Establish
    \/ TryOpen
    \/ Shut
    \/ \E i \in Ids : Store(i)
    \/ \E i \in Ids : Drop(i)

VSpec == VInit /\ [][VNext]_vvars
=============================================================================
