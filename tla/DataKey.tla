------------------------------ MODULE DataKey ------------------------------
(***************************************************************************)
(* pkg/database/encryption: the key that encrypts the credentials of       *)
(* password protected feeds (the DEK).  It is in the file dek.json,        *)
(* encrypted in turn under a key derived from the secret of the            *)
(* configuration; losing the file loses every stored credential.           *)
(*                                                                         *)
(* ConfigureEncryptedValueService runs once at the start of the server,    *)
(* the only process that uses the key.  It creates the file when there is  *)
(* none, in steps between which the process may die; a power failure also  *)
(* takes what was not synced.  The secret may be changed, or removed, in   *)
(* the configuration while the server is down.                             *)
(***************************************************************************)
EXTENDS Naturals

CONSTANTS
    Keys,           \* data keys that may be generated
    Secrets,        \* Encryption.SecretKey of the configuration
    Podcasts,       \* podcasts added with credentials
    None

VARIABLES
    config,         \* the secret, None without an encryption driver
    file,           \* dek.json
    synced,         \* whether what is in it would survive a power failure
    kpc,            \* where the server is in ConfigureEncryptedValueService
    key,            \* dekAEAD, None while there is none
    cred,           \* the key a podcast's credentials are encrypted with
    hasty           \* history: a key was loaded from a file not synced yet

keyVars == <<config, file, synced, kpc, key, cred, hasty>>

NoFile == [state |-> "absent", key |-> None, secret |-> None]
Torn == [state |-> "unreadable", key |-> None, secret |-> None]
Keyset(k, s) == [state |-> "keyset", key |-> k, secret |-> s]

DataKeyTypeOK ==
    /\ config \in Secrets \cup {None}
    /\ file \in {NoFile, Torn} \cup {Keyset(k, s) : k \in Keys, s \in Secrets}
    /\ synced \in BOOLEAN
    /\ kpc \in {"down", "stat", "create", "write", "sync", "load", "ready"}
    /\ key \in Keys \cup {None}
    /\ cred \in [Podcasts -> Keys \cup {None}]
    /\ hasty \in BOOLEAN

DataKeyInit ==
    /\ config \in Secrets \cup {None}
    /\ file = NoFile
    /\ synced = TRUE
    /\ kpc = "down"
    /\ key = None
    /\ cred = [p \in Podcasts |-> None]
    /\ hasty = FALSE

-----------------------------------------------------------------------------
\* The operator edits the configuration of a server that is down.
Configure(s) ==
    /\ kpc = "down"
    /\ config' = s
    /\ UNCHANGED <<file, synced, kpc, key, cred, hasty>>

\* ConfigureEncryptedValueService: without the driver the service is nil.
ConfigureEncryptedValueService ==
    /\ kpc = "down"
    /\ kpc' = IF config = None THEN "ready" ELSE "stat"
    /\ UNCHANGED <<config, file, synced, key, cred, hasty>>

\* Mutant of loadOrCreateDEK: a missing file is not told from other errors.
LoadAlways ==
    /\ kpc = "stat"
    /\ kpc' = "load"
    /\ UNCHANGED <<config, file, synced, key, cred, hasty>>

\* Stat, and the choice between createDEK and loadDEK.
loadOrCreateDEK ==
    /\ kpc = "stat"
    /\ kpc' = IF file = NoFile THEN "create" ELSE "load"
    /\ UNCHANGED <<config, file, synced, key, cred, hasty>>

\* createDEK: a new key, equal to none in use; Root.Create makes the file, still
\* empty ...
CreateFile ==
    /\ kpc = "create"
    /\ key' \in {k \in Keys : \A p \in Podcasts : cred[p] # k}
    /\ file' = Torn
    /\ synced' = FALSE
    /\ kpc' = "write"
    /\ UNCHANGED <<config, cred, hasty>>

\* Mutant of WriteKeyset: the service is returned without f.Sync.
WriteWithoutSync ==
    /\ kpc = "write"
    /\ file' = Keyset(key, config)
    /\ synced' = FALSE
    /\ kpc' = "ready"
    /\ UNCHANGED <<config, key, cred, hasty>>

\* ... handle.Write encrypts the keyset under the secret and writes it ...
WriteKeyset ==
    /\ kpc = "write"
    /\ file' = Keyset(key, config)
    /\ synced' = FALSE
    /\ kpc' = "sync"
    /\ UNCHANGED <<config, key, cred, hasty>>

\* ... and f.Sync returns when it is on disk.
Sync ==
    /\ kpc = "sync"
    /\ synced' = TRUE
    /\ kpc' = "ready"
    /\ UNCHANGED <<config, file, key, cred, hasty>>

\* loadDEK: keyset.Read decrypts the file under the secret.
LoadKeyset ==
    /\ kpc = "load"
    /\ file.state = "keyset" /\ file.secret = config
    /\ key' = file.key
    /\ hasty' = (hasty \/ ~synced)
    /\ kpc' = "ready"
    /\ UNCHANGED <<config, file, synced, cred>>

Unloadable == kpc = "load" /\ (file.state # "keyset" \/ file.secret # config)

\* AddPodcast with credentials; without a service it is refused
\* (ErrEncryptionNotConfigured).
AddPodcast(p) ==
    /\ kpc = "ready"
    /\ key # None
    /\ cred[p] = None
    /\ cred' = [cred EXCEPT ![p] = key]
    /\ UNCHANGED <<config, file, synced, kpc, key, hasty>>

\* The server ends, at any point.
KeyReleased ==
    /\ kpc' = "down"
    /\ key' = None
    /\ UNCHANGED <<config, file, synced, cred, hasty>>

\* Mutant of LoadFails: a key that cannot be read is replaced.
LoadFailsThenCreate ==
    /\ Unloadable
    /\ kpc' = "create"
    /\ UNCHANGED <<config, file, synced, key, cred, hasty>>

\* The file is empty, cut off, or encrypted under another secret: the server
\* ends (log.Fatalf) and leaves it alone.
LoadFails == Unloadable /\ KeyReleased

\* External: the operating system writes the file back in its own time.
WriteBack ==
    /\ ~synced
    /\ synced' = TRUE
    /\ UNCHANGED <<config, file, kpc, key, cred, hasty>>

\* External: the machine loses power, and of a file that was not synced it may
\* have lost the content, or the file.
PowerLoss ==
    /\ file' \in IF synced THEN {file} ELSE {file, Torn, NoFile}
    /\ synced' = TRUE
    /\ kpc' = "down"
    /\ key' = None
    /\ UNCHANGED <<config, cred, hasty>>

KeyStep ==
    \/ loadOrCreateDEK \/ CreateFile \/ WriteKeyset \/ Sync \/ LoadKeyset
-----------------------------------------------------------------------------
\* A stored credential can be decrypted whenever the server has the secret the
\* key file was made with: through crashes and power failures at any point,
\* wrong secrets, and key files that could not be read, the file holds the key
\* each credential was encrypted with.  The one exception is a process killed
\* between Write and Sync, after which loadDEK uses a key nobody has synced.
CredentialsSurvive ==
    ~hasty => \A p \in Podcasts :
        cred[p] # None => file.state = "keyset" /\ file.key = cred[p]
=============================================================================
