--------------------------- MODULE CredentialVault ---------------------------
(***************************************************************************)
(* The vault of the real API keys, orchestrator/src/core/                  *)
(* credential-vault.ts, with the rotator of credential-rotator.ts.         *)
(*                                                                         *)
(* A credential is kept in memory, in a file of its own, and for a while   *)
(* after each use decrypted in a cache.  The file system is called         *)
(* synchronously and the promises the methods await are resolved ones, so  *)
(* each method is one step.  A file operation may fail, which is only      *)
(* logged, and the process may die in the middle of a write.  Left out:    *)
(* the encryption (a key is opaque) and metadata that nothing reads.       *)
(***************************************************************************)
EXTENDS Clock, Sequences, FiniteSets

CONSTANTS
    MaxIds,         \* bound: credentials known at a time
    Kinds,          \* [type, provider] of the credentials stored by hand
    EnvKinds,       \* those importFromEnvironment() finds, in order
    Lifetimes,      \* how long a credential stored with an expiry lives
    TTL,            \* cacheTTL
    Interval,       \* of a rotation schedule
    MaxKey,         \* bound: rotations of a credential
    VaultFaults,    \* what may fail: "disk" (an operation fails), "torn" (a file is cut off)
    Torn            \* a file that is not JSON

Kind == [type : STRING, provider : STRING]

ASSUME KindsAssumption == Kinds \subseteq Kind /\ EnvKinds \in Seq(Kind)
ASSUME VaultTimesAssumption == TTL \in Nat /\ Interval \in Nat /\ Lifetimes \subseteq Nat
ASSUME VaultBoundsAssumption == MaxIds \in Nat /\ MaxKey \in Nat
ASSUME TornAssumption == Torn # None
ASSUME NoneAssumption ==
    None \notin [kind : Kind, key : Nat, expires : Nat \cup {None}] \cup [key : Nat, until : Nat]

VARIABLES
    creds,          \* credentials
    order,          \* the order of the map: that of insertion
    cache,          \* decrypted keys and until when they are good
    disk,           \* the file of each id
    next,           \* schedules of the rotator: when the next rotation is due
    unsaved         \* history: ids whose last file operation failed, or that could not be loaded

vaultVars == <<creds, order, cache, disk, next, unsaved>>

(* An id is random: it stands for nothing but the file, so they are numbered.   *)
Ids == 1 .. MaxIds

Cred == [kind : Kind, key : Nat, expires : Nat \cup {None}]

VaultInit ==
    /\ creds = [id \in Ids |-> None]
    /\ order = << >>
    /\ cache = [id \in Ids |-> None]
    /\ disk = [id \in Ids |-> None]
    /\ next = [id \in Ids |-> None]
    /\ unsaved = {}

-----------------------------------------------------------------------------
Known(id) == creds[id] # None
PastExpiry(id) == creds[id].expires # None /\ creds[id].expires < now
Hit(id) == cache[id] # None /\ cache[id].until > now

(* _saveToDisk() and _deleteFromDisk(): what is thrown is only logged.  A write *)
(* truncates the file first.  The file had one of the contents old.             *)
WrittenOver(id, old, content) ==
    \/ /\ disk' = [disk EXCEPT ![id] = content]
       /\ unsaved' = unsaved \ {id}
    \/ /\ \/ "disk" \in VaultFaults /\ \E c \in old : disk' = [disk EXCEPT ![id] = c]
          \/ "torn" \in VaultFaults /\ content # None /\ disk' = [disk EXCEPT ![id] = Torn]
       /\ unsaved' = unsaved \cup {id}

Written(id, content) == WrittenOver(id, {disk[id]}, content)

Unused == {id \in Ids : ~ Known(id) /\ disk[id] = None}

(* The first n unused ids, one after the other.                                 *)
NewIds(n) ==
    {s \in [1 .. n -> Unused] :
        /\ \A i, j \in 1 .. n : i < j => s[i] < s[j]
        /\ \A id \in Unused : (\E i \in 1 .. n : s[i] = id) \/ \A i \in 1 .. n : s[i] < id}

Fresh(kind, expires) == [kind |-> kind, key |-> 0, expires |-> expires]

StoreCredential(kind, expires) ==
    \E s \in NewIds(1) :
        /\ creds' = [creds EXCEPT ![s[1]] = Fresh(kind, expires)]
        /\ order' = order \o s
        /\ Written(s[1], Fresh(kind, expires))
        /\ UNCHANGED <<cache, next>>

(* importFromEnvironment() stores what it finds each time it is called.         *)
ImportFromEnvironment ==
    \E s \in NewIds(Len(EnvKinds)) :
        LET new == {s[i] : i \in DOMAIN s}
            stored == [id \in new |-> Fresh(EnvKinds[CHOOSE i \in DOMAIN s : s[i] = id], None)]
        IN  \E failed \in IF "disk" \in VaultFaults THEN SUBSET new ELSE {{}} :
                /\ creds' = [id \in Ids |-> IF id \in new THEN stored[id] ELSE creds[id]]
                /\ order' = order \o s
                /\ disk' = [id \in Ids |-> IF id \in new \ failed THEN stored[id] ELSE disk[id]]
                /\ unsaved' = (unsaved \ new) \cup failed
                /\ UNCHANGED <<cache, next>>

(* _ensureVaultCredentials(), before a worker is created.                       *)
EnsureVaultCredentials ==
    IF order = << >> THEN ImportFromEnvironment ELSE UNCHANGED vaultVars

(* getCredential(): the key, and what the call leaves behind.                   *)
KeyOf(id) ==
    IF Hit(id) THEN cache[id].key
    ELSE IF Known(id) /\ ~ PastExpiry(id) THEN creds[id].key ELSE None

(* (Variant: a hit prolongs the cache entry.)                                   *)
CachedAnew(id) == [cache EXCEPT ![id] = [key |-> KeyOf(id), until |-> now + TTL]]

Cached(id) ==
    IF Hit(id) THEN cache
    ELSE [cache EXCEPT ![id] = [key |-> creds[id].key, until |-> now + TTL]]

GetCredential(id) ==
    \/ KeyOf(id) = None /\ UNCHANGED vaultVars
    \/ /\ KeyOf(id) # None
       /\ cache' = Cached(id)
       /\ IF Hit(id) THEN UNCHANGED <<disk, unsaved>> ELSE Written(id, creds[id])
       /\ UNCHANGED <<creds, order, next>>

(* getCredentialByType(): the first of the type and provider, good or not.      *)
Matches(type, provider) ==
    {i \in DOMAIN order : LET kind == creds[order[i]].kind
                          IN  kind.type = type /\ provider \in {None, kind.provider}}

FirstOf(type, provider) ==
    LET first == {i \in Matches(type, provider) : \A j \in Matches(type, provider) : i <= j}
    IN  IF first = {} THEN None ELSE order[CHOOSE i \in first : TRUE]

Found(type, provider) ==
    LET id == FirstOf(type, provider) IN IF id # None /\ KeyOf(id) # None THEN id ELSE None

-----------------------------------------------------------------------------
Dropped(id) == [cache EXCEPT ![id] = None]

DeleteCredential(id) ==
    /\ Known(id)
    /\ creds' = [creds EXCEPT ![id] = None]
    /\ \E i \in DOMAIN order :
          order[i] = id /\ order' = SubSeq(order, 1, i - 1) \o SubSeq(order, i + 1, Len(order))
    /\ cache' = Dropped(id)
    /\ Written(id, None)
    /\ UNCHANGED next

(* The cache after a rotation.  (Variant: it is left alone.)                    *)
CacheKept(id) == cache

CacheRotated(id) == Dropped(id)

Rotated(id, old) ==
    LET cred == [creds[id] EXCEPT !.key = @ + 1]
    IN  /\ Known(id) /\ creds[id].key < MaxKey
        /\ creds' = [creds EXCEPT ![id] = cred]
        /\ cache' = CacheRotated(id)
        /\ WrittenOver(id, old, cred)
        /\ UNCHANGED order

RotateCredential(id) == Rotated(id, {disk[id]}) /\ UNCHANGED next

(* What is written when a credential is revoked.  (Variant: its old content.)   *)
RevocationUnwritten(id) == Written(id, disk[id])

RevocationWritten(id) == Written(id, [creds[id] EXCEPT !.expires = now])

Revoked(id) ==
    /\ Known(id)
    /\ creds' = [creds EXCEPT ![id].expires = now]
    /\ cache' = Dropped(id)
    /\ RevocationWritten(id)
    /\ UNCHANGED order

RevokeCredential(id) == Revoked(id) /\ UNCHANGED next

ClearCache ==
    /\ cache' = [id \in Ids |-> None]
    /\ UNCHANGED <<creds, order, disk, next, unsaved>>

-----------------------------------------------------------------------------
(* The rotator: a rotation needs the old key and a new one, which an admin      *)
(* brings; the hourly check never has one, so it only reads the old key.  What  *)
(* reading it wrote is there if the write of the new one fails.                 *)
ScheduleRotation(id) ==
    /\ next' = [next EXCEPT ![id] = now + Interval]
    /\ UNCHANGED <<creds, order, cache, disk, unsaved>>

UnscheduleRotation(id) ==
    /\ next[id] # None
    /\ next' = [next EXCEPT ![id] = None]
    /\ UNCHANGED <<creds, order, cache, disk, unsaved>>

Before(id) ==
    {disk[id]} \cup IF Hit(id) THEN {}
                    ELSE {creds[id]} \cup IF "torn" \in VaultFaults THEN {Torn} ELSE {}

RotatorRotates(id) ==
    /\ KeyOf(id) # None
    /\ Rotated(id, Before(id))
    /\ next' = IF next[id] = None THEN next ELSE [next EXCEPT ![id] = now + Interval]

RotatorRevokes(id) == Revoked(id) /\ next' = [next EXCEPT ![id] = None]

CheckScheduledRotation(id) == next[id] # None /\ now >= next[id] /\ GetCredential(id)

-----------------------------------------------------------------------------
(* A restart, which may come while a file is written.  The files are read in    *)
(* the order of the directory, up to the first that is not JSON.                *)
Left ==
    {disk} \cup IF "torn" \in VaultFaults
                THEN {[disk EXCEPT ![id] = Torn] : id \in {i \in Ids : Known(i)} \cup {s[1] : s \in NewIds(1)}}
                ELSE {}

Listings(files) ==
    LET S == {id \in Ids : files[id] # None}
    IN  {s \in [1 .. Cardinality(S) -> S] : \A i, j \in DOMAIN s : s[i] = s[j] => i = j}

Readable(files, listing) ==
    SubSeq(listing, 1, Cardinality({i \in DOMAIN listing :
                                       \A j \in 1 .. i : files[listing[j]] # Torn}))

VaultRestart ==
    \E files \in Left : \E listing \in Listings(files) :
        LET read == Readable(files, listing)
        IN  /\ order' = read
            /\ creds' = [id \in Ids |-> IF \E i \in DOMAIN read : read[i] = id THEN files[id] ELSE None]
            /\ disk' = files
            /\ cache' = [id \in Ids |-> None]
            /\ next' = [id \in Ids |-> None]
            /\ unsaved' = {id \in Ids : files[id] # creds'[id]}

VaultAdmin ==
    \/ \E kind \in Kinds : \E expires \in {None} \cup {now + life : life \in Lifetimes} :
          StoreCredential(kind, expires)
    \/ ImportFromEnvironment
    \/ \E id \in Ids : DeleteCredential(id) \/ RotateCredential(id) \/ RevokeCredential(id)
    \/ ClearCache

Rotator ==
    \E id \in Ids : \/ Known(id) /\ ScheduleRotation(id)
                    \/ UnscheduleRotation(id) \/ CheckScheduledRotation(id)
                    \/ RotatorRotates(id) \/ RotatorRevokes(id)

(* The vault by itself.                                                         *)
VaultNext ==
    \/ (VaultAdmin \/ Rotator \/ VaultRestart) /\ UNCHANGED now
    \/ (\E id \in Ids : GetCredential(id)) /\ UNCHANGED now
    \/ Tick /\ UNCHANGED vaultVars

VaultStart == now = 0 /\ VaultInit

VaultSpec == VaultStart /\ [][VaultNext]_<<now, vaultVars>>

-----------------------------------------------------------------------------
VaultTypeOK ==
    /\ now \in Nat
    /\ creds \in [Ids -> Cred \cup {None}]
    /\ order \in Seq(Ids)
    /\ cache \in [Ids -> [key : Nat, until : Nat] \cup {None}]
    /\ disk \in [Ids -> Cred \cup {None, Torn}]
    /\ next \in [Ids -> Nat \cup {None}]
    /\ unsaved \in SUBSET Ids

(* However uses, rotations, deletions and restarts interleave, a key that the   *)
(* cache still gives out is the key of the credential as it is.                 *)
CacheCurrent == \A id \in Ids : Hit(id) => Known(id) /\ cache[id].key = creds[id].key

(* The cache does not look at the expiry of the credential, and an entry made   *)
(* in the instant of a revocation is not seen as late: such a key is given out  *)
(* at most a cacheTTL past its expiry.                                          *)
StaleBounded ==
    \A id \in Ids : Hit(id) /\ Known(id) /\ creds[id].expires # None => now < creds[id].expires + TTL

(* The files are what the memory holds, credential by credential, except where  *)
(* an operation failed: a restart brings back no old key and no revoked one.    *)
DiskKept == \A id \in Ids \ unsaved : disk[id] = creds[id]

(* "Revoke a credential (mark as expired immediately)" (credential-vault.ts:    *)
(* 294): a credential past its expiry is not given out.                         *)
ExpiredUnusable == \A id \in Ids : Known(id) /\ PastExpiry(id) => KeyOf(id) = None

(* A lookup by type finds a usable credential when there is one.                *)
ValidFound ==
    \A id \in Ids : Known(id) /\ ~ PastExpiry(id) => Found(creds[id].kind.type, None) # None
=============================================================================
