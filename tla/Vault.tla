-------------------------------- MODULE Vault --------------------------------
(***************************************************************************)
(* The secrets of one user and the key they are encrypted with             *)
(* (core/credentials.py, core/exchange_account_store.py, core/totp.py): a  *)
(* row and an .enc file per exchange account, the TOTP seed in the users   *)
(* row, one Fernet key file.  Three kinds of process write them: the       *)
(* portal (web/routes/exchanges.py), whose handlers do not await but can   *)
(* die between two writes; scripts/rotate_credentials.py, any number of    *)
(* them; and the operator's scripts/recover_fernet.py.                     *)
(*                                                                         *)
(* A ciphertext is known by the number of the key it was made with.  0 is  *)
(* no key and no file.  Everything outside credentials and keys, the       *)
(* network and the exchange's verdict on a key pair are left out.          *)
(***************************************************************************)
EXTENDS Naturals, FiniteSets

CONSTANTS
    Accounts, Rotators, None,
    MaxKeys     \* bound on the keys ever generated

ASSUME ConstantsAssumption ==
    MaxKeys \in Nat \ {0} /\ None \notin Accounts \cup Rotators

VARIABLES
    keyfile,    \* the key in keys/<uid>.key
    backups,    \* the keys in .bak files
    prestore,   \* the key in .pre-restore
    minted,     \* the last key generated
    enc,        \* the key each account's .enc file was encrypted with
    staged,     \* the same of its .enc.tmp file
    stagedKey,  \* the key in <uid>.key.tmp
    seed,       \* the same of users.totp_seed_encrypted
    rows,       \* exchange_accounts
    half,       \* the portal's handler between its two writes
    rot,        \* the rotations under way
    named,      \* who holds the lock file that the path now names
    raced,      \* accounts saved while a rotation was under way
    overlapped, \* two rotations have held a lock at the same time
    overwritten \* a restore has replaced another restore's .pre-restore

keys == <<keyfile, backups, prestore, minted>>
blobs == <<enc, staged, stagedKey>>
portal == <<rows, half>>
history == <<raced, overlapped, overwritten>>
vars == <<keys, blobs, seed, portal, rot, named, history>>

NoRotation == [pc |-> "idle", todo |-> {}]
Rotating(r) == rot[r].pc # "idle"
Quiet == \A r \in Rotators : ~Rotating(r)
NoHandler == [kind |-> "none", account |-> None]
Free == half = NoHandler

\* The keys still to be found on disk.
Kept == ({keyfile, prestore} \cup backups) \ {0}

\* get_keys_by_uuid returns something.
Readable(a) == enc[a] # 0 /\ enc[a] = keyfile

----------------------------------------------------------------------------
\* The portal.

\* _load_or_create_user_key: the key, made on first use.
UserKey(k) ==
    \/ keyfile # 0 /\ k = keyfile /\ UNCHANGED keys
    \/ /\ keyfile = 0 /\ minted < MaxKeys /\ k = minted + 1
       /\ keyfile' = k /\ minted' = k
       /\ UNCHANGED <<backups, prestore>>

\* uuid4 has not come up before.
Unused(a) ==
    /\ a \notin rows /\ enc[a] = 0 /\ staged[a] = 0
    /\ \A r \in Rotators : a \notin rot[r].todo

\* Mutated: the row first, the file after it.
SavesBlob_rowFirst(a) ==
    /\ Free /\ Unused(a)
    /\ rows' = rows \cup {a}
    /\ half' = [kind |-> "create", account |-> a]
    /\ UNCHANGED <<keys, blobs, seed, rot, named, history>>

\* create_account, its first write: save_keys_by_uuid, by tmp and replace.
SavesBlob(a) ==
    /\ Free /\ Unused(a)
    /\ \E k \in 1..MaxKeys : UserKey(k) /\ enc' = [enc EXCEPT ![a] = k]
    /\ half' = [kind |-> "create", account |-> a]
    /\ raced' = IF Quiet THEN raced \ {a} ELSE raced \cup {a}
    /\ UNCHANGED <<staged, stagedKey, seed, rows, rot, named,
                   overlapped, overwritten>>

\* Its second: the row.
\* Another error than a duplicate alias leaves the file an orphan.
InsertsRow ==
    /\ half.kind = "create" /\ half' = NoHandler
    /\ \/ /\ rows' = rows \cup {half.account}
          /\ UNCHANGED enc
       \/ enc' = [enc EXCEPT ![half.account] = 0] /\ UNCHANGED rows
       \/ UNCHANGED <<enc, rows>>
    /\ UNCHANGED <<keys, staged, stagedKey, seed, rot, named, history>>

\* delete_user_account of an account no bot config names: the row first,
\* then the file, which may resist.
DeletesRow(a) ==
    /\ Free /\ a \in rows
    /\ rows' = rows \ {a}
    /\ half' = [kind |-> "delete", account |-> a]
    /\ UNCHANGED <<keys, blobs, seed, rot, named, history>>

DeletesBlob ==
    /\ half.kind = "delete" /\ half' = NoHandler
    /\ enc' = [enc EXCEPT ![half.account] = 0] \/ UNCHANGED enc
    /\ UNCHANGED <<keys, staged, stagedKey, seed, rows, rot, named, history>>

\* encrypt_seed_for_user at the end of an enrolment; its disabling.
SetsSeed ==
    /\ Free
    /\ \/ \E k \in 1..MaxKeys : UserKey(k) /\ seed' = k
       \/ seed' = 0 /\ UNCHANGED keys
    /\ UNCHANGED <<blobs, portal, rot, named, history>>

\* The portal ends wherever it is; as it starts it removes every .tmp file
\* under credentials/ and keys/.
PortalRestarts ==
    /\ half' = NoHandler
    /\ staged' = [a \in Accounts |-> 0] /\ stagedKey' = 0
    /\ UNCHANGED <<keys, enc, seed, rows, rot, named, history>>

----------------------------------------------------------------------------
\* rotate_user_key, and the lock around it.

Goes(r, pc) == rot' = [rot EXCEPT ![r].pc = pc]

\* The end of _rotation_lock, however it is left: the path is unlinked,
\* whoever's lock file it names.
Releases(r) ==
    /\ rot' = [rot EXCEPT ![r] = NoRotation]
    /\ named' = None

\* The loser of the lock leaves by the same way.
RotationBegins(r) ==
    /\ ~Rotating(r) /\ keyfile # 0
    /\ \/ /\ named = None /\ named' = r /\ Goes(r, "load")
          /\ overlapped' = (overlapped \/ ~Quiet)
       \/ named # None /\ Releases(r) /\ UNCHANGED overlapped
    /\ UNCHANGED <<keys, blobs, seed, portal, raced, overwritten>>

\* _list_uuids_with_keys: by the .enc files, whether or not they have a row.
WithKeys == {a \in Accounts : enc[a] # 0}

\* Mutated: a file that does not decrypt is skipped.
Loads_skips(r) ==
    /\ rot[r].pc = "load"
    /\ rot' = [rot EXCEPT ![r] = [pc |-> "backup",
                                  todo |-> {a \in Accounts : Readable(a)}]]
    /\ UNCHANGED <<keys, blobs, seed, portal, named, history>>

\* Every .enc file there is must decrypt.
Loads(r) ==
    /\ rot[r].pc = "load"
    /\ \/ /\ \A a \in WithKeys : Readable(a)
          /\ rot' = [rot EXCEPT ![r] = [pc |-> "backup", todo |-> WithKeys]]
          /\ UNCHANGED named
       \/ (\E a \in WithKeys : ~Readable(a)) /\ Releases(r)
    /\ UNCHANGED <<keys, blobs, seed, portal, history>>

\* Mutated: no snapshot of the old key.
BacksUp_not(r) ==
    /\ rot[r].pc = "backup" /\ Goes(r, "stage")
    /\ UNCHANGED <<keys, blobs, seed, portal, named, history>>

BacksUp(r) ==
    /\ rot[r].pc = "backup" /\ Goes(r, "stage")
    /\ backups' = backups \cup {keyfile}
    /\ UNCHANGED <<keyfile, prestore, minted, blobs, seed, portal, named,
                   history>>

\* A new key, and what was read encrypted under it, in .tmp files.
Stages(r) ==
    /\ rot[r].pc = "stage" /\ Goes(r, "key")
    /\ minted < MaxKeys /\ minted' = minted + 1
    /\ stagedKey' = minted'
    /\ staged' = [a \in Accounts |-> IF a \in rot[r].todo THEN minted'
                                     ELSE staged[a]]
    /\ UNCHANGED <<keyfile, backups, prestore, enc, seed, portal, named,
                   history>>

\* The key file first.  A .tmp file that is gone ends the rotation.
ReplacesKey(r) ==
    /\ rot[r].pc = "key"
    /\ \/ /\ stagedKey # 0 /\ keyfile' = stagedKey /\ stagedKey' = 0
          /\ Goes(r, "blobs")
          /\ UNCHANGED named
       \/ stagedKey = 0 /\ Releases(r) /\ UNCHANGED <<keyfile, stagedKey>>
    /\ UNCHANGED <<backups, prestore, minted, enc, staged, seed, portal, history>>

ReplacesBlob(r, a) ==
    /\ rot[r].pc = "blobs" /\ a \in rot[r].todo
    /\ \/ /\ staged[a] # 0
          /\ enc' = [enc EXCEPT ![a] = staged[a]]
          /\ staged' = [staged EXCEPT ![a] = 0]
          /\ rot' = [rot EXCEPT ![r].todo = @ \ {a}]
          /\ UNCHANGED named
       \/ staged[a] = 0 /\ Releases(r) /\ UNCHANGED <<enc, staged>>
    /\ UNCHANGED <<keys, stagedKey, seed, portal, history>>

Completes(r) == rot[r].pc = "blobs" /\ rot[r].todo = {}

\* cleanup_old_backups, by modification times: those older than the retention
\* go, which the one just made may be, copy2 having given it the key file's.
Sweeps(r) ==
    /\ Completes(r)
    /\ backups' \in SUBSET backups
    /\ Releases(r)
    /\ UNCHANGED <<keyfile, prestore, minted, blobs, seed, portal, history>>

\* The kernel drops the lock of a rotation that dies.
RotationCrashes(r) ==
    /\ Rotating(r)
    /\ rot' = [rot EXCEPT ![r] = NoRotation]
    /\ named' = IF named = r THEN None ELSE named
    /\ UNCHANGED <<keys, blobs, seed, portal, history>>

\* restore_backup, run by the operator while nothing rotates.
Restores(b) ==
    /\ Quiet /\ keyfile # 0
    /\ overwritten' = (overwritten \/ prestore # 0)
    /\ prestore' = keyfile
    /\ keyfile' = b
    /\ UNCHANGED <<backups, minted, blobs, seed, portal, rot, named, raced,
                   overlapped>>

----------------------------------------------------------------------------
Init ==
    /\ keyfile = 0 /\ backups = {} /\ prestore = 0 /\ minted = 0
    /\ enc = [a \in Accounts |-> 0] /\ staged = enc /\ stagedKey = 0
    /\ seed = 0
    /\ rows = {} /\ half = NoHandler
    /\ rot = [r \in Rotators |-> NoRotation] /\ named = None
    /\ raced = {} /\ overlapped = FALSE /\ overwritten = FALSE

Portal ==
    \/ InsertsRow \/ DeletesBlob \/ SetsSeed \/ PortalRestarts
    \/ \E a \in Accounts : SavesBlob(a) \/ DeletesRow(a)

Rotates(r) ==
    \/ RotationBegins(r) \/ Loads(r) \/ BacksUp(r) \/ Stages(r)
    \/ ReplacesKey(r) \/ Sweeps(r) \/ RotationCrashes(r)
    \/ \E a \in Accounts : ReplacesBlob(r, a)

Next ==
    \/ Portal
    \/ \E r \in Rotators : Rotates(r)
    \/ \E b \in backups : Restores(b)

Spec == Init /\ [][Next]_vars

----------------------------------------------------------------------------
(* create_account and delete_account write in opposite orders so that a    *)
(* crash between their two writes never leaves a row without its .enc      *)
(* file, whatever a rotation does meanwhile.                               *)
RowsHaveBlobs == \A a \in rows : enc[a] # 0

(* The commit order of rotate_user_key: wherever a rotation ends, the key  *)
(* of every account's file is still on disk.  Not so for an account saved  *)
(* while it ran, after two rotations held the lock at once, or once a      *)
(* second restore has overwritten the first one's .pre-restore.            *)
Recoverable ==
    ~overlapped /\ ~overwritten => \A a \in rows \ raced : enc[a] \in Kept

(* A rotation that runs to its end leaves every account readable.          *)
RotationReadable ==
    [][\A r \in Rotators : Sweeps(r) /\ ~overlapped =>
            \A a \in rows \ raced : Readable(a)]_vars

=============================================================================
