---------------------------- MODULE ArtifactStore ----------------------------
(***************************************************************************)
(* artifacts/store.py: ArtifactStore, the content-addressed file store of  *)
(* a run.  Any number of processes open it and publish into it.  The       *)
(* store's own directories and the fan-out directory of a digest are made  *)
(* by those who find them missing, and synced by these and nobody else.    *)
(* put_bytes then holds a lock file per digest   *)
(* while it either adopts the blob that is there or writes a temporary     *)
(* file, syncs it, renames it to the blob's name, syncs the directory and  *)
(* reads the blob back.  A process may fail or die between any two of      *)
(* these steps, and the machine may lose power: then a name that was not   *)
(* synced may vanish, with what is below it, and a file whose bytes were   *)
(* not synced may come back torn.                                          *)
(***************************************************************************)
EXTENDS Naturals

CONSTANTS Procs,     \* processes that publish
          Digests,   \* contents, by their SHA-256
          Depth,     \* the store's own directories: root/objects/sha256
          FanOut,    \* digest -> the directory of its blob
          Nobody,
          MaxDamage  \* bound: power losses and corrupted blobs

ASSUME DamageAssumption == MaxDamage \in Nat /\ Nobody \notin Procs
ASSUME TreeAssumption == Depth \in Nat /\ Nobody \notin Digests /\ \A d \in Digests : FanOut[d] \notin Nat

Directories == (1 .. Depth) \cup {FanOut[d] : d \in Digests}

\* A directory and those above it.
Upto(dir) == IF dir \in 1 .. Depth THEN 1 .. dir ELSE (1 .. Depth) \cup {dir}

\* The directories above a blob.
Above(d) == Upto(FanOut[d])

\* The i-th directory on the way to the blob of digest, or, of Nobody, to the
\* store.
Down(digest, i) == IF i > Depth THEN FanOut[digest] ELSE i
Length(digest) == IF digest = Nobody THEN Depth ELSE Depth + 1

VARIABLES
    made,        \* directories that are there
    madeSynced,  \* directories whose name is on disk
    opened,      \* processes that have an ArtifactStore
    blob,        \* digest -> the file of that name: absent, whole, or wrong bytes
    bytesSynced, \* digests whose blob's bytes are on disk
    nameSynced,  \* digests whose directory entry is on disk
    temp,        \* process -> its temporary file
    lock,        \* digest -> the process that has flocked its lock file
    th,          \* process -> where it is in put_bytes, and for which digest
    returned,    \* digests for which some put_bytes returned a reference
    vouched,     \* the ones returned by a process that wrote the blob itself, into
                 \* directories whose makers had synced them
    damage

tree == <<made, madeSynced, opened>>
disk == <<blob, bytesSynced, nameSynced>>
storeVars == <<tree, disk, temp, lock, th, returned, vouched, damage>>

Idle == [pc |-> "idle", digest |-> Nobody, at |-> 0, wrote |-> FALSE]

Go(p, pc) == th' = [th EXCEPT ![p].pc = pc]

StoreInit ==
    /\ made = {} /\ madeSynced = {} /\ opened = {}
    /\ blob = [d \in Digests |-> "absent"]
    /\ bytesSynced = {} /\ nameSynced = {}
    /\ temp = [p \in Procs |-> "none"]
    /\ lock = [d \in Digests |-> Nobody]
    /\ th = [p \in Procs |-> Idle]
    /\ returned = {} /\ vouched = {}
    /\ damage = 0

\* Where a process goes when the first i directories of its way are there.
Ensured(digest, i) == IF i < Length(digest) THEN "mkdir"
                      ELSE IF digest = Nobody THEN "open" ELSE "lock"

\* _ensure_directory: up from the directory wanted to one that is there.
Ensure(p, digest) ==
    \E i \in 0 .. Length(digest) :
        /\ i > 0 => Down(digest, i) \in made
        /\ \A k \in (i + 1) .. Length(digest) : Down(digest, k) \notin made
        /\ th' = [th EXCEPT ![p] = [pc |-> Ensured(digest, i), digest |-> digest,
                                    at |-> i, wrote |-> FALSE]]

\* The constructor.
Open(p) ==
    /\ th[p].pc = "idle" /\ p \notin opened
    /\ Ensure(p, Nobody)
    /\ UNCHANGED <<tree, disk, temp, lock, returned, vouched, damage>>

Opened(p) ==
    /\ th[p].pc = "open"
    /\ opened' = opened \cup {p}
    /\ th' = [th EXCEPT ![p] = Idle]
    /\ UNCHANGED <<made, madeSynced, disk, temp, lock, returned, vouched, damage>>

PutBytes(p, d) ==
    /\ th[p].pc = "idle" /\ p \in opened
    /\ Ensure(p, d)
    /\ UNCHANGED <<tree, disk, temp, lock, returned, vouched, damage>>

\* The directory a process in _ensure_directory is about to make, or has made.
Wanted(p) == Down(th[p].digest, th[p].at + 1)

\* mkdir: whoever comes second goes on all the same.
MakeDirectory(p) ==
    /\ th[p].pc = "mkdir"
    /\ made' = made \cup {Wanted(p)}
    /\ Go(p, "parentsync")
    /\ UNCHANGED <<madeSynced, opened, disk, temp, lock, returned, vouched, damage>>

\* The new directory and the one above it are synced.
SyncParent(p) ==
    /\ th[p].pc = "parentsync"
    /\ madeSynced' = madeSynced \cup {Wanted(p)}
    /\ th' = [th EXCEPT ![p] = [@ EXCEPT !.pc = Ensured(th[p].digest, th[p].at + 1),
                                       !.at = th[p].at + 1]]
    /\ UNCHANGED <<made, opened, disk, temp, lock, returned, vouched, damage>>

\* Faulty variant: the lock file is opened but not locked.
LockSkipped(p) ==
    /\ th[p].pc = "lock"
    /\ Go(p, IF blob[th[p].digest] = "absent" THEN "write" ELSE "verify")
    /\ UNCHANGED <<tree, disk, temp, lock, returned, vouched, damage>>

\* flock(LOCK_EX), and the look at the target.
Lock(p) ==
    /\ th[p].pc = "lock" /\ lock[th[p].digest] = Nobody
    /\ lock' = [lock EXCEPT ![th[p].digest] = p]
    /\ Go(p, IF blob[th[p].digest] = "absent" THEN "write" ELSE "verify")
    /\ UNCHANGED <<tree, disk, temp, returned, vouched, damage>>

Write(p) ==
    /\ th[p].pc = "write"
    /\ temp' = [temp EXCEPT ![p] = "written"]
    /\ Go(p, "sync")
    /\ UNCHANGED <<tree, disk, lock, returned, vouched, damage>>

Sync(p) ==
    /\ th[p].pc = "sync"
    /\ temp' = [temp EXCEPT ![p] = "synced"]
    /\ Go(p, "rename")
    /\ UNCHANGED <<tree, disk, lock, returned, vouched, damage>>

\* os.replace: the name now stands for the new file.
Replace(p) ==
    LET d == th[p].digest IN
    /\ th[p].pc = "rename"
    /\ blob' = [blob EXCEPT ![d] = "whole"]
    /\ bytesSynced' = IF temp[p] = "synced" THEN bytesSynced \cup {d} ELSE bytesSynced \ {d}
    /\ nameSynced' = nameSynced \ {d}
    /\ temp' = [temp EXCEPT ![p] = "none"]
    /\ th' = [th EXCEPT ![p] = [@ EXCEPT !.pc = "dirsync", !.wrote = TRUE]]
    /\ UNCHANGED <<tree, lock, returned, vouched, damage>>

\* Faulty variant: the directory is not synced.
SyncDirectorySkipped(p) ==
    /\ th[p].pc = "dirsync"
    /\ Go(p, "verify")
    /\ UNCHANGED <<tree, disk, temp, lock, returned, vouched, damage>>

SyncDirectory(p) ==
    /\ th[p].pc = "dirsync"
    /\ nameSynced' = nameSynced \cup {th[p].digest}
    /\ Go(p, "verify")
    /\ UNCHANGED <<tree, blob, bytesSynced, temp, lock, returned, vouched, damage>>

\* _verify_path, of the blob just written or of the one that was there; an
\* integrity error leaves through the finally clause like any other.  (Blobs
\* are created read-only, so the chmod of an existing one finds nothing to do.)
Verify(p) ==
    /\ th[p].pc = "verify"
    /\ IF blob[th[p].digest] = "whole" THEN Go(p, "return")
       ELSE th' = [th EXCEPT ![p] = Idle]
    /\ lock' = [lock EXCEPT ![th[p].digest] = Nobody]
    /\ UNCHANGED <<tree, disk, temp, returned, vouched, damage>>

\* The reference is built after the lock was released.
Return(p) ==
    /\ th[p].pc = "return"
    /\ returned' = returned \cup {th[p].digest}
    /\ vouched' = IF th[p].wrote /\ Above(th[p].digest) \subseteq madeSynced THEN vouched \cup {th[p].digest}
                  ELSE vouched
    /\ th' = [th EXCEPT ![p] = Idle]
    /\ UNCHANGED <<tree, disk, temp, lock, damage>>

\* Faulty variant: no finally clause.
FailKeepingLock(p) ==
    /\ th[p].pc \in {"write", "sync", "rename", "dirsync", "verify"}
    /\ temp' = [temp EXCEPT ![p] = "none"]
    /\ th' = [th EXCEPT ![p] = Idle]
    /\ UNCHANGED <<tree, disk, lock, returned, vouched, damage>>

\* What p has locked is unlocked.
Unlock(p) == lock' = [d \in Digests |-> IF lock[d] = p THEN Nobody ELSE lock[d]]

\* An OSError on the way: the temporary file, if it still has its own name, is
\* unlinked and the lock, if it was reached, is released.
Fail(p) ==
    /\ th[p].pc \in {"mkdir", "parentsync", "lock", "write", "sync", "rename", "dirsync", "verify"}
    /\ temp' = [temp EXCEPT ![p] = "none"]
    /\ Unlock(p)
    /\ th' = [th EXCEPT ![p] = Idle]
    /\ UNCHANGED <<tree, disk, returned, vouched, damage>>

\* The process dies: the kernel drops its flock, its temporary file stays
\* under a name that nobody opens.
ProcessDies(p) ==
    /\ th[p].pc # "idle"
    /\ Unlock(p)
    /\ temp' = [temp EXCEPT ![p] = "none"]
    /\ th' = [th EXCEPT ![p] = Idle]
    /\ opened' = opened \ {p}
    /\ UNCHANGED <<made, madeSynced, disk, returned, vouched, damage>>

\* left are the directories, kept the blobs' names, that come back though they
\* were not synced; a blob is below its directories.
PowerLoss ==
    /\ damage < MaxDamage
    /\ damage' = damage + 1
    /\ \E left \in SUBSET (made \ madeSynced) :
          made' = {dir \in madeSynced \cup left : Upto(dir) \subseteq madeSynced \cup left}
    /\ madeSynced' = made'
    /\ \E kept \in SUBSET (Digests \ nameSynced), torn \in SUBSET (Digests \ bytesSynced) :
          blob' = [d \in Digests |->
                      IF \/ blob[d] = "absent" \/ d \notin kept \cup nameSynced
                         \/ ~ (Above(d) \subseteq made') THEN "absent"
                      ELSE IF d \in torn THEN "torn" ELSE blob[d]]
    /\ bytesSynced' = {d \in Digests : blob'[d] # "absent"}
    /\ nameSynced' = {d \in Digests : blob'[d] # "absent"}
    /\ temp' = [p \in Procs |-> "none"]
    /\ lock' = [d \in Digests |-> Nobody]
    /\ th' = [p \in Procs |-> Idle]
    /\ opened' = {}
    /\ UNCHANGED <<returned, vouched>>

\* Somebody else writes to a blob, or the medium does.
Corrupt(d) ==
    /\ damage < MaxDamage /\ blob[d] = "whole"
    /\ damage' = damage + 1
    /\ blob' = [blob EXCEPT ![d] = "corrupt"]
    /\ UNCHANGED <<tree, bytesSynced, nameSynced, temp, lock, th, returned, vouched>>

PutStep(p) ==
    \/ Opened(p) \/ MakeDirectory(p) \/ SyncParent(p)
    \/ Lock(p) \/ Write(p) \/ Sync(p) \/ Replace(p) \/ SyncDirectory(p)
    \/ Verify(p) \/ Return(p)

StoreNext ==
    \/ \E p \in Procs : 
          \/ PutStep(p) \/ Fail(p) \/ ProcessDies(p) \/ Open(p)
          \/ \E d \in Digests : PutBytes(p, d)
    \/ PowerLoss
    \/ \E d \in Digests : Corrupt(d)

StoreSpec == StoreInit /\ [][StoreNext]_storeVars

\* A process in put_bytes runs on.  flock is granted fairly enough that nobody
\* waits for ever behind others that come and go.
FairStoreSpec == StoreSpec /\ \A p \in Procs : WF_storeVars(PutStep(p)) /\ SF_storeVars(Lock(p))

-----------------------------------------------------------------------------
(* Properties *)

StoreTypeOK ==
    /\ made \subseteq Directories /\ madeSynced \subseteq made /\ opened \subseteq Procs
    /\ blob \in [Digests -> {"absent", "whole", "torn", "corrupt"}]
    /\ bytesSynced \subseteq Digests /\ nameSynced \subseteq Digests
    /\ temp \in [Procs -> {"none", "written", "synced"}]
    /\ lock \in [Digests -> Procs \cup {Nobody}]
    /\ th \in [Procs -> [pc : {"idle", "mkdir", "parentsync", "open", "lock", "write", "sync", "rename", "dirsync",
                               "verify", "return"},
                         digest : Digests \cup {Nobody}, at : 0 .. Depth + 1, wrote : BOOLEAN]]
    /\ \A p \in Procs : th[p].pc \in {"lock", "write", "sync", "rename", "dirsync", "verify", "return"}
                           => th[p].digest \in Digests
    /\ vouched \subseteq returned /\ returned \subseteq Digests
    /\ damage \in Nat

\* Wherever a writer stops and whenever the power goes, a blob's name never
\* stands for a partial file: the bytes are on disk before the name is.
NoTornBlob == \A d \in Digests : blob[d] # "torn"

\* A reference returned by the process that wrote the blob, into directories
\* whose makers had synced them by then, survives a power loss.  Two kinds of
\* reference need not: one that adopted a blob whose writer died before it
\* synced the directory, and one written into a directory that another process
\* had made and not yet synced, or never lived to sync.  Nobody syncs either
\* name again.
PublishedSurvives == \A d \in vouched : blob[d] # "absent"

\* Power may go between any two steps: what a reference stands for is there,
\* and is all there.
BlobsDurable == StoreTypeOK /\ NoTornBlob /\ PublishedSurvives

\* Whoever is about to rename is alone: a blob that is there, and that others
\* may be reading, is never replaced.
NeverReplaced == \A p \in Procs : th[p].pc \in {"write", "sync", "rename"}
                                     => blob[th[p].digest] = "absent"

\* Every put_bytes ends, with a reference or with an error, whatever became of
\* the process that had the lock before.
PutEnds == \A p \in Procs : th[p].pc # "idle" ~> th[p].pc = "idle"
=============================================================================
