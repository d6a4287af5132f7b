------------------------------ MODULE Catalog ------------------------------
(***************************************************************************)
(* The catalogue of images: SQLite's tables images and image_aliases, the  *)
(* stored files, and the in-memory delivery index that serves every read.  *)
(* Requests of the image, alias and import services change all three under *)
(* the locks of internal/indexbarrier; a rebuild replaces the whole index. *)
(*                                                                         *)
(* Each request is a goroutine that walks through the code of its service; *)
(* pc names the next call it makes on shared state.  The two keyed lockers *)
(* appear here as what module KeyedLocker is proved to implement, one      *)
(* mutex per image and one per path.  Thumbnails and temporary files, which *)
(* no step of this module reads, are left out.                             *)
(***************************************************************************)
EXTENDS Naturals, FiniteSets

CONSTANTS Procs,      \* goroutines serving requests
          Images,     \* UUIDs an upload or an import can be given
          SpareKeys,  \* UUIDs a conversion can be given for its new file
          Paths,      \* normalised alias paths
          AliasIDs,   \* UUIDs an alias can be given
          Requests,   \* the kinds of request clients make
          Faults,     \* what may go wrong around the program
          None        \* "no row", "no lock holder", "no argument"

\* An upload stores its file under its own image id; a conversion draws a key.
Keys == Images \cup SpareKeys

Visibility == {"public", "private"}

\* A row of table images, and equally a delivery.Target.  What a Target says of
\* the bytes (MIME type, size, ETag) is a function of the key: files are
\* written once, under a fresh key.
Row == [key : Keys, vis : Visibility]

AliasRow == [id : AliasIDs, image : Images]

AllRequests == {"upload", "import", "visibility", "delete", "convert",
                "createAlias", "deleteAlias", "rebuild"}

AllFaults == {"databaseError", "thumbnailError", "removeError", "fileLoss", "restart"}

ASSUME CatalogAssumption ==
    /\ None \notin Procs \cup Keys \cup Paths \cup AliasIDs \cup Visibility \cup AllRequests
    /\ None \notin Row \cup AliasRow
    /\ Images \cap SpareKeys = {}
    /\ Requests \subseteq AllRequests
    /\ Faults \subseteq AllFaults

VARIABLES
    rows,       \* rows[i]: the row of image i, or None
    aliasRow,   \* aliasRow[q]: the row with the (UNIQUE) path q, or None
    files,      \* files[k]: the stored file of key k
    tainted,    \* keys whose file something outside the program has touched
    used,       \* UUIDs drawn so far for images and for storage keys
    usedAlias,  \* UUIDs drawn so far for aliases
    byID,       \* delivery.Index.byID, None where the map has no key
    aliases,    \* delivery.Index.aliases, None where the map has no key
    imageLock,  \* who holds LockImage(i), or None
    pathLock,   \* who holds the path part of BeginAliasChange(q), or None
    readers,    \* goroutines inside Barrier.mu.RLock
    blocked,    \* goroutines parked in Barrier.mu.RLock behind a writer
    writer,     \* the goroutine that has called Barrier.mu.Lock, or None
    snapshot,   \* the delivery.Snapshot the writer is loading
    pc,         \* the next call of each goroutine
    job         \* the local variables of its request

vars == <<rows, aliasRow, files, tainted, used, usedAlias, byID, aliases,
          imageLock, pathLock, readers, blocked, writer, snapshot, pc, job>>

db      == <<rows, aliasRow>>
disk    == <<files, tainted>>
uuids   == <<used, usedAlias>>
index   == <<byID, aliases>>
locks   == <<imageLock, pathLock>>
barrier == <<readers, blocked, writer, snapshot>>

Steps == {"idle", "process", "lockImage", "read", "transform", "lockPath",
          "rlock", "blocked", "db", "index", "indexAlias", "runlock",
          "unlockPath", "removeFile", "unlockImage",
          "lock", "drain", "loadTargets", "loadAliases", "replace", "unlock"}

\* The locals of a request: its arguments, the UUIDs it drew, what it read of
\* the image's row, and the key of the file it removes before it returns.
Job == [op : AllRequests \cup {None},
        image : Images \cup {None}, path : Paths \cup {None},
        vis : Visibility \cup {None}, aliasID : AliasIDs \cup {None},
        key : Keys \cup {None}, drop : Keys \cup {None}]

NoJob == [op |-> None, image |-> None, path |-> None, vis |-> None,
          aliasID |-> None, key |-> None, drop |-> None]

TypeOK ==
    /\ rows \in [Images -> Row \cup {None}]
    /\ aliasRow \in [Paths -> AliasRow \cup {None}]
    /\ files \in [Keys -> {"absent", "intact", "damaged"}]
    /\ tainted \in SUBSET Keys
    /\ used \in SUBSET Keys
    /\ usedAlias \in SUBSET AliasIDs
    /\ byID \in [Images -> Row \cup {None}]
    /\ aliases \in [Paths -> Images \cup {None}]
    /\ imageLock \in [Images -> Procs \cup {None}]
    /\ pathLock \in [Paths -> Procs \cup {None}]
    /\ readers \in SUBSET Procs
    /\ blocked \in SUBSET Procs
    /\ writer \in Procs \cup {None}
    /\ snapshot \in [targets : [Images -> Row \cup {None}],
                     aliases : [Paths -> Images \cup {None}]]
    /\ pc \in [Procs -> Steps]
    /\ job \in [Procs -> Job]

EmptyTargets == [i \in Images |-> None]
EmptyAliases == [q \in Paths |-> None]
EmptySnapshot == [targets |-> EmptyTargets, aliases |-> EmptyAliases]

Init ==
    /\ rows = EmptyTargets
    /\ aliasRow = EmptyAliases
    /\ files = [k \in Keys |-> "absent"]
    /\ tainted = {}
    /\ used = {}
    /\ usedAlias = {}
    /\ byID = EmptyTargets
    /\ aliases = EmptyAliases
    /\ imageLock = [i \in Images |-> None]
    /\ pathLock = [q \in Paths |-> None]
    /\ readers = {}
    /\ blocked = {}
    /\ writer = None
    /\ snapshot = EmptySnapshot
    /\ pc = [p \in Procs |-> "idle"]
    /\ job = [p \in Procs |-> NoJob]

-----------------------------------------------------------------------------
(* Requests up to the first lock.                                          *)

Begin(p, step, locals) ==
    /\ pc[p] = "idle"
    /\ pc' = [pc EXCEPT ![p] = step]
    /\ job' = [job EXCEPT ![p] = locals]

\* CommitStagedUpload up to LockImage: the prepared file is renamed to the new
\* image's key.  A failure before that leaves nothing of this module behind.
StartUpload(p) ==
    /\ "upload" \in Requests
    /\ \E i \in Images \ used, v \in Visibility :
          /\ Begin(p, "lockImage", [NoJob EXCEPT !.op = "upload", !.image = i,
                                                 !.key = i, !.vis = v])
          /\ files' = [files EXCEPT ![i] = "intact"]
          /\ used' = used \cup {i}
    /\ UNCHANGED <<tainted, usedAlias, db, index, locks, barrier>>

\* ImportStaged up to the decoding of the staged file: a path that is taken
\* is refused at once (no state changes), a free one is processed further.
StartImport(p) ==
    /\ "import" \in Requests
    /\ \E q \in Paths, v \in Visibility :
          /\ aliasRow[q] = None
          /\ Begin(p, "process", [NoJob EXCEPT !.op = "import", !.path = q, !.vis = v])
    /\ UNCHANGED <<db, disk, uuids, index, locks, barrier>>

\* ImportStaged from the decoding to LockImage.
StoreImport(p) ==
    /\ pc[p] = "process"
    /\ \E i \in Images \ used, a \in AliasIDs \ usedAlias :
          /\ job' = [job EXCEPT ![p] = [@ EXCEPT !.image = i, !.key = i, !.aliasID = a]]
          /\ files' = [files EXCEPT ![i] = "intact"]
          /\ used' = used \cup {i}
          /\ usedAlias' = usedAlias \cup {a}
    /\ pc' = [pc EXCEPT ![p] = "lockImage"]
    /\ UNCHANGED <<tainted, db, index, locks, barrier>>

\* The staged file is not an acceptable image, or cannot be stored.
RejectImport(p) ==
    /\ pc[p] = "process"
    /\ pc' = [pc EXCEPT ![p] = "idle"]
    /\ job' = [job EXCEPT ![p] = NoJob]
    /\ UNCHANGED <<db, disk, uuids, index, locks, barrier>>

\* CommitThumbnailTemporary fails after the image file was stored: the deferred
\* cleanup removes the file, and the request never takes a lock.
CommitThumbnailFails(p) ==
    /\ "thumbnailError" \in Faults
    /\ pc[p] = "lockImage"
    /\ job[p].op \in {"upload", "import"}
    /\ job' = [job EXCEPT ![p].drop = job[p].key]
    /\ pc' = [pc EXCEPT ![p] = "removeFile"]
    /\ UNCHANGED <<db, disk, uuids, index, locks, barrier>>

\* ChangeVisibility, Delete and ConvertToWebP take any UUID from the client.
StartVisibility(p) ==
    /\ "visibility" \in Requests
    /\ \E i \in Images, v \in Visibility :
          Begin(p, "lockImage", [NoJob EXCEPT !.op = "visibility", !.image = i, !.vis = v])
    /\ UNCHANGED <<db, disk, uuids, index, locks, barrier>>

StartDelete(p) ==
    /\ "delete" \in Requests
    /\ \E i \in Images :
          Begin(p, "lockImage", [NoJob EXCEPT !.op = "delete", !.image = i])
    /\ UNCHANGED <<db, disk, uuids, index, locks, barrier>>

StartConvert(p) ==
    /\ "convert" \in Requests
    /\ \E i \in Images :
          Begin(p, "lockImage", [NoJob EXCEPT !.op = "convert", !.image = i])
    /\ UNCHANGED <<db, disk, uuids, index, locks, barrier>>

\* alias.Service.Create up to LockImage: it draws the alias id.
StartCreateAlias(p) ==
    /\ "createAlias" \in Requests
    /\ \E i \in Images, q \in Paths, a \in AliasIDs \ usedAlias :
          /\ Begin(p, "lockImage", [NoJob EXCEPT !.op = "createAlias", !.image = i,
                                                 !.path = q, !.aliasID = a])
          /\ usedAlias' = usedAlias \cup {a}
    /\ UNCHANGED <<used, db, disk, index, locks, barrier>>

\* alias.Service.Delete up to the path lock: PathByID reads the path of the
\* alias, with no lock held.  An unknown id is refused.
StartDeleteAlias(p) ==
    /\ "deleteAlias" \in Requests
    /\ \E q \in Paths :
          /\ aliasRow[q] # None
          /\ Begin(p, "lockPath", [NoJob EXCEPT !.op = "deleteAlias", !.path = q,
                                                !.aliasID = aliasRow[q].id])
    /\ UNCHANGED <<db, disk, uuids, index, locks, barrier>>

\* Rebuilder.Rebuild, called by an administrator.
StartRebuild(p) ==
    /\ "rebuild" \in Requests
    /\ Begin(p, "lock", [NoJob EXCEPT !.op = "rebuild"])
    /\ UNCHANGED <<db, disk, uuids, index, locks, barrier>>

-----------------------------------------------------------------------------
(* Barrier.LockImage, BeginChange and BeginAliasChange.                    *)

TakesPath(p) == job[p].op \in {"import", "createAlias", "deleteAlias"}

\* BROKEN, for mutation: a conversion does not wait for the lock.
ImageFreeForConvert(p) == imageLock[job[p].image] = None \/ job[p].op = "convert"

ImageFree(p) == imageLock[job[p].image] = None

LockImage(p) ==
    /\ pc[p] = "lockImage"
    /\ ImageFree(p)
    /\ imageLock' = [imageLock EXCEPT ![job[p].image] = p]
    /\ pc' = [pc EXCEPT ![p] = IF job[p].op = "convert" THEN "read"
                               ELSE IF TakesPath(p) THEN "lockPath" ELSE "rlock"]
    /\ UNCHANGED <<pathLock, job, db, disk, uuids, index, barrier>>

\* BROKEN, for mutation: nobody waits for a path.
PathAlwaysFree(p) == TRUE

PathFree(p) == pathLock[job[p].path] = None

LockPath(p) ==
    /\ pc[p] = "lockPath"
    /\ PathFree(p)
    /\ pathLock' = [pathLock EXCEPT ![job[p].path] = p]
    /\ pc' = [pc EXCEPT ![p] = "rlock"]
    /\ UNCHANGED <<imageLock, job, db, disk, uuids, index, barrier>>

\* sync.RWMutex: a reader passes when no writer has announced itself ...
RLock(p) ==
    /\ pc[p] = "rlock"
    /\ writer = None
    /\ readers' = readers \cup {p}
    /\ pc' = [pc EXCEPT ![p] = "db"]
    /\ UNCHANGED <<blocked, writer, snapshot, job, db, disk, uuids, index, locks>>

\* ... and is parked until that writer leaves otherwise.
RLockParks(p) ==
    /\ pc[p] = "rlock"
    /\ writer # None
    /\ blocked' = blocked \cup {p}
    /\ pc' = [pc EXCEPT ![p] = "blocked"]
    /\ UNCHANGED <<readers, writer, snapshot, job, db, disk, uuids, index, locks>>

\* Where a request goes on after RUnlock: the deferred calls still to run.
AfterChange(p) ==
    IF TakesPath(p) THEN "unlockPath"
    ELSE IF job[p].op \in {"delete", "convert"} /\ job[p].drop # None THEN "removeFile"
    ELSE "unlockImage"

RUnlock(p) ==
    /\ pc[p] = "runlock"
    /\ readers' = readers \ {p}
    /\ pc' = [pc EXCEPT ![p] = AfterChange(p)]
    /\ UNCHANGED <<blocked, writer, snapshot, job, db, disk, uuids, index, locks>>

Return(p) == /\ pc' = [pc EXCEPT ![p] = "idle"]
             /\ job' = [job EXCEPT ![p] = NoJob]

\* BROKEN, for mutation: a refused import returns with the path locked.
PathsFreedOnSuccess(p) == [q \in Paths |-> IF pathLock[q] = p /\ job[p].drop = None
                                            THEN None ELSE pathLock[q]]

PathsFreed(p) == [q \in Paths |-> IF pathLock[q] = p THEN None ELSE pathLock[q]]

UnlockPath(p) ==
    /\ pc[p] = "unlockPath"
    /\ pathLock' = PathsFreed(p)
    /\ IF job[p].op = "deleteAlias"
         THEN Return(p)
         ELSE pc' = [pc EXCEPT ![p] = "unlockImage"] /\ UNCHANGED job
    /\ UNCHANGED <<imageLock, db, disk, uuids, index, barrier>>

\* BROKEN, for mutation: an abandoned conversion returns with the image locked.
ImagesFreedOnSuccess(p) == IF job[p].op = "convert" /\ job[p].key = None THEN imageLock
                           ELSE [imageLock EXCEPT ![job[p].image] = None]

ImagesFreed(p) == [imageLock EXCEPT ![job[p].image] = None]

\* The deferred unlock.  Upload and import clean up a file they could not
\* publish in a deferred call registered before the lock was taken, which
\* therefore runs after it; delete and convert remove files before it.
UnlockImage(p) ==
    /\ pc[p] = "unlockImage"
    /\ imageLock' = ImagesFreed(p)
    /\ IF job[p].op \in {"upload", "import"} /\ job[p].drop # None
         THEN pc' = [pc EXCEPT ![p] = "removeFile"] /\ UNCHANGED job
         ELSE Return(p)
    /\ UNCHANGED <<pathLock, db, disk, uuids, index, barrier>>

\* Filesystem.Remove of the file the request leaves behind.  Removing a file
\* that is gone already is a success; a failure is reported and the file stays.
RemoveFile(p) ==
    /\ pc[p] = "removeFile"
    /\ \/ files' = [files EXCEPT ![job[p].drop] = "absent"]
       \/ "removeError" \in Faults /\ UNCHANGED files
    /\ IF job[p].op \in {"upload", "import"}
         THEN Return(p)
         ELSE pc' = [pc EXCEPT ![p] = "unlockImage"] /\ UNCHANGED job
    /\ UNCHANGED <<tainted, db, uuids, index, locks, barrier>>

-----------------------------------------------------------------------------
(* ConvertToWebP between LockImage and BeginChange.                        *)

\* repository.Get and the checks on what it returns.  The file of a converted
\* image is WebP, which is not converted again; an image that was uploaded as
\* WebP or GIF is turned away by AbandonConversion.
ReadForConversion(p) ==
    LET row == rows[job[p].image] IN
    /\ pc[p] = "read"
    /\ row # None
    /\ row.key \notin SpareKeys
    /\ job' = [job EXCEPT ![p] = [@ EXCEPT !.vis = row.vis, !.drop = row.key]]
    /\ pc' = [pc EXCEPT ![p] = "transform"]
    /\ UNCHANGED <<db, disk, uuids, index, locks, barrier>>

\* The transformed file is stored under a key of its own.
StoreConversion(p) ==
    /\ pc[p] = "transform"
    /\ files[job[p].drop] # "absent"
    /\ \E k \in SpareKeys \ used :
          /\ job' = [job EXCEPT ![p].key = k]
          /\ files' = [files EXCEPT ![k] = "intact"]
          /\ used' = used \cup {k}
    /\ pc' = [pc EXCEPT ![p] = "rlock"]
    /\ UNCHANGED <<tainted, usedAlias, db, index, locks, barrier>>

\* Processing is busy, the image is unknown, of another format or undecodable,
\* or the result cannot be stored.
AbandonConversion(p) ==
    /\ pc[p] \in {"read", "transform"}
    /\ pc' = [pc EXCEPT ![p] = "unlockImage"]
    /\ UNCHANGED <<job, db, disk, uuids, index, locks, barrier>>

-----------------------------------------------------------------------------
(* The database statement of each request, one SQLite transaction.         *)

\* BROKEN, for mutation: a conversion that does not set databaseCommitted
\* removes the file it has just published.
SupersededIsNew(p) == CASE job[p].op = "delete" -> rows[job[p].image].key
                        [] job[p].op = "convert" -> job[p].key
                        [] OTHER -> None

\* The file that a successful statement leaves without a row: the one the
\* deleted row named, or the one the row named when the conversion read it.
Superseded(p) == CASE job[p].op = "delete" -> rows[job[p].image].key
                   [] job[p].op = "convert" -> job[p].drop
                   [] OTHER -> None

Committed(p) == /\ pc' = [pc EXCEPT ![p] = "index"]
                /\ job' = [job EXCEPT ![p].drop = Superseded(p)]

InsertImage(p) ==
    /\ pc[p] = "db" /\ job[p].op = "upload"
    /\ rows' = [rows EXCEPT ![job[p].image] = [key |-> job[p].key, vis |-> job[p].vis]]
    /\ Committed(p)
    /\ UNCHANGED <<aliasRow, disk, uuids, index, locks, barrier>>

\* importer.Repository.Create: the image and its alias in one transaction.
InsertImport(p) ==
    /\ pc[p] = "db" /\ job[p].op = "import"
    /\ aliasRow[job[p].path] = None
    /\ rows' = [rows EXCEPT ![job[p].image] = [key |-> job[p].key, vis |-> job[p].vis]]
    /\ aliasRow' = [aliasRow EXCEPT ![job[p].path] =
                       [id |-> job[p].aliasID, image |-> job[p].image]]
    /\ Committed(p)
    /\ UNCHANGED <<disk, uuids, index, locks, barrier>>

UpdateVisibility(p) ==
    /\ pc[p] = "db" /\ job[p].op = "visibility"
    /\ rows[job[p].image] # None
    /\ rows' = [rows EXCEPT ![job[p].image].vis = job[p].vis]
    /\ Committed(p)
    /\ UNCHANGED <<aliasRow, disk, uuids, index, locks, barrier>>

\* DELETE ... RETURNING, with ON DELETE CASCADE on image_aliases.
DeleteImage(p) ==
    LET i == job[p].image IN
    /\ pc[p] = "db" /\ job[p].op = "delete"
    /\ rows[i] # None
    /\ rows' = [rows EXCEPT ![i] = None]
    /\ aliasRow' = [q \in Paths |-> IF aliasRow[q] # None /\ aliasRow[q].image = i
                                      THEN None ELSE aliasRow[q]]
    /\ Committed(p)
    /\ UNCHANGED <<disk, uuids, index, locks, barrier>>

\* UpdateContent writes the key and leaves the column visibility alone.
UpdateContent(p) ==
    /\ pc[p] = "db" /\ job[p].op = "convert"
    /\ rows[job[p].image] # None
    /\ rows' = [rows EXCEPT ![job[p].image].key = job[p].key]
    /\ Committed(p)
    /\ UNCHANGED <<aliasRow, disk, uuids, index, locks, barrier>>

\* INSERT ... SELECT FROM images, under the UNIQUE constraint on the path.
InsertAlias(p) ==
    /\ pc[p] = "db" /\ job[p].op = "createAlias"
    /\ rows[job[p].image] # None
    /\ aliasRow[job[p].path] = None
    /\ aliasRow' = [aliasRow EXCEPT ![job[p].path] =
                       [id |-> job[p].aliasID, image |-> job[p].image]]
    /\ Committed(p)
    /\ UNCHANGED <<rows, disk, uuids, index, locks, barrier>>

\* DELETE ... WHERE id = ? RETURNING alias_path: the path the row has now is
\* the one that will be taken out of the index.
DeleteAlias(p) ==
    /\ pc[p] = "db" /\ job[p].op = "deleteAlias"
    /\ \E q \in Paths :
          /\ aliasRow[q] # None /\ aliasRow[q].id = job[p].aliasID
          /\ aliasRow' = [aliasRow EXCEPT ![q] = None]
          /\ job' = [job EXCEPT ![p].path = q]
    /\ pc' = [pc EXCEPT ![p] = "index"]
    /\ UNCHANGED <<rows, disk, uuids, index, locks, barrier>>

\* The statement finds nothing to change or breaks a constraint.
Refused(p) ==
    \/ /\ job[p].op \in {"visibility", "delete", "convert", "createAlias"}
       /\ rows[job[p].image] = None
    \/ /\ job[p].op \in {"import", "createAlias"}
       /\ aliasRow[job[p].path] # None
    \/ /\ job[p].op = "deleteAlias"
       /\ ~\E q \in Paths : aliasRow[q] # None /\ aliasRow[q].id = job[p].aliasID

\* The request returns an error: the statement was refused or failed, and a
\* file the request has stored has to go.
Fail(p) ==
    /\ pc[p] = "db"
    /\ Refused(p) \/ "databaseError" \in Faults
    /\ job' = [job EXCEPT ![p].drop = job[p].key]
    /\ pc' = [pc EXCEPT ![p] = "runlock"]
    /\ UNCHANGED <<db, disk, uuids, index, locks, barrier>>

-----------------------------------------------------------------------------
(* The methods of delivery.Index, each atomic under Index.mu.              *)

Published(p) == pc' = [pc EXCEPT ![p] = "runlock"]

\* Index.Add of upload, import and convert, which publish their locals.
IndexAdd(p) ==
    /\ pc[p] = "index" /\ job[p].op \in {"upload", "import", "convert"}
    /\ byID' = [byID EXCEPT ![job[p].image] = [key |-> job[p].key, vis |-> job[p].vis]]
    /\ pc' = [pc EXCEPT ![p] = IF job[p].op = "import" THEN "indexAlias" ELSE "runlock"]
    /\ UNCHANGED <<aliases, job, db, disk, uuids, locks, barrier>>

\* BROKEN, for mutation: the target is dropped, to be loaded by a rebuild.
VisibilityDropped(i, v) == [byID EXCEPT ![i] = None]

\* Index.UpdateVisibility does nothing for an image the index does not have.
VisibilityUpdated(i, v) == IF byID[i] = None THEN byID ELSE [byID EXCEPT ![i].vis = v]

IndexUpdateVisibility(p) ==
    /\ pc[p] = "index" /\ job[p].op = "visibility"
    /\ byID' = VisibilityUpdated(job[p].image, job[p].vis)
    /\ Published(p)
    /\ UNCHANGED <<aliases, job, db, disk, uuids, locks, barrier>>

\* BROKEN, for mutation: the aliases of a removed image stay.
AliasesKept(i) == aliases

\* Index.RemoveImage drops the image and every alias that leads to it.
AliasesWithout(i) == [q \in Paths |-> IF aliases[q] = i THEN None ELSE aliases[q]]

IndexRemoveImage(p) ==
    /\ pc[p] = "index" /\ job[p].op = "delete"
    /\ byID' = [byID EXCEPT ![job[p].image] = None]
    /\ aliases' = AliasesWithout(job[p].image)
    /\ Published(p)
    /\ UNCHANGED <<job, db, disk, uuids, locks, barrier>>

\* BROKEN, for mutation: the image is not looked up first.
AliasAddedUnchecked(q, i) == [aliases EXCEPT ![q] = i]

\* Index.AddAlias does nothing when the index does not have the image.
AliasAdded(q, i) == IF byID[i] = None THEN aliases ELSE [aliases EXCEPT ![q] = i]

IndexAddAlias(p) ==
    /\ \/ pc[p] = "index" /\ job[p].op = "createAlias"
       \/ pc[p] = "indexAlias"
    /\ aliases' = AliasAdded(job[p].path, job[p].image)
    /\ Published(p)
    /\ UNCHANGED <<byID, job, db, disk, uuids, locks, barrier>>

IndexRemoveAlias(p) ==
    /\ pc[p] = "index" /\ job[p].op = "deleteAlias"
    /\ aliases' = [aliases EXCEPT ![job[p].path] = None]
    /\ Published(p)
    /\ UNCHANGED <<byID, job, db, disk, uuids, locks, barrier>>

-----------------------------------------------------------------------------
(* Rebuilder.Rebuild and delivery.Build.                                   *)

\* Rows whose file is missing or has the wrong size are left out.
BuildTargets == [i \in Images |-> IF rows[i] # None /\ files[rows[i].key] = "intact"
                                    THEN rows[i] ELSE None]

\* Aliases of images that were left out are skipped.
BuildAliases(targets) ==
    [q \in Paths |-> IF aliasRow[q] # None /\ targets[aliasRow[q].image] # None
                       THEN aliasRow[q].image ELSE None]

\* BROKEN, for mutation: a rebuild does not wait for the changes under way.
AlwaysDrained == TRUE

Drained == readers = {}

\* Barrier.mu.Lock: one writer announces itself, which stops new readers ...
Lock(p) ==
    /\ pc[p] = "lock"
    /\ writer = None
    /\ writer' = p
    /\ pc' = [pc EXCEPT ![p] = "drain"]
    /\ UNCHANGED <<readers, blocked, snapshot, job, db, disk, uuids, index, locks>>

\* ... and waits until the ones inside have left.
Drain(p) ==
    /\ pc[p] = "drain"
    /\ Drained
    /\ pc' = [pc EXCEPT ![p] = "loadTargets"]
    /\ UNCHANGED <<job, db, disk, uuids, index, locks, barrier>>

LoadTargets(p) ==
    /\ pc[p] = "loadTargets"
    /\ snapshot' = [snapshot EXCEPT !.targets = BuildTargets]
    /\ pc' = [pc EXCEPT ![p] = "loadAliases"]
    /\ UNCHANGED <<readers, blocked, writer, job, db, disk, uuids, index, locks>>

\* An alias that leads to no row at all is an error, see LoadFails.
LoadAliases(p) ==
    /\ pc[p] = "loadAliases"
    /\ \A q \in Paths : aliasRow[q] # None => rows[aliasRow[q].image] # None
    /\ snapshot' = [snapshot EXCEPT !.aliases = BuildAliases(snapshot.targets)]
    /\ pc' = [pc EXCEPT ![p] = "replace"]
    /\ UNCHANGED <<readers, blocked, writer, job, db, disk, uuids, index, locks>>

\* A failed load leaves the index as it is.
LoadFails(p) ==
    /\ \/ pc[p] \in {"loadTargets", "loadAliases"} /\ "databaseError" \in Faults
       \/ /\ pc[p] = "loadAliases"
          /\ \E q \in Paths : aliasRow[q] # None /\ rows[aliasRow[q].image] = None
    /\ snapshot' = EmptySnapshot
    /\ pc' = [pc EXCEPT ![p] = "unlock"]
    /\ UNCHANGED <<readers, blocked, writer, job, db, disk, uuids, index, locks>>

\* Index.ReplaceAll swaps both maps at once.
ReplaceAll(p) ==
    /\ pc[p] = "replace"
    /\ byID' = snapshot.targets
    /\ aliases' = snapshot.aliases
    /\ snapshot' = EmptySnapshot
    /\ pc' = [pc EXCEPT ![p] = "unlock"]
    /\ UNCHANGED <<readers, blocked, writer, job, db, disk, uuids, locks>>

\* Barrier.mu.Unlock lets the parked readers in before the next writer.
Unlock(p) ==
    /\ pc[p] = "unlock"
    /\ writer' = None
    /\ readers' = readers \cup blocked
    /\ blocked' = {}
    /\ pc' = [q \in Procs |-> IF q = p THEN "idle"
                               ELSE IF q \in blocked THEN "db" ELSE pc[q]]
    /\ job' = [job EXCEPT ![p] = NoJob]
    /\ UNCHANGED <<snapshot, db, disk, uuids, index, locks>>

-----------------------------------------------------------------------------
(* Around the program.                                                     *)

\* A stored file disappears or loses bytes: an operator, the disk, or a power
\* cut after a rename that no fsync had made durable.
LoseFile(k) ==
    /\ "fileLoss" \in Faults
    /\ files[k] = "intact"
    /\ \E state \in {"absent", "damaged"} : files' = [files EXCEPT ![k] = state]
    /\ tainted' = tainted \cup {k}
    /\ UNCHANGED <<pc, job, db, uuids, index, locks, barrier>>

\* The operator copies the file back from a backup.
RestoreFile(k) ==
    /\ "fileLoss" \in Faults
    /\ k \in tainted
    /\ files[k] # "intact"
    /\ files' = [files EXCEPT ![k] = "intact"]
    /\ UNCHANGED <<tainted, pc, job, db, uuids, index, locks, barrier>>

\* The process dies, with every request and every lock, and app.Build starts
\* it again: the index is loaded before the first request is served.
Restart ==
    /\ "restart" \in Faults
    /\ byID' = BuildTargets
    /\ aliases' = BuildAliases(BuildTargets)
    /\ imageLock' = [i \in Images |-> None]
    /\ pathLock' = [q \in Paths |-> None]
    /\ readers' = {}
    /\ blocked' = {}
    /\ writer' = None
    /\ snapshot' = EmptySnapshot
    /\ pc' = [p \in Procs |-> "idle"]
    /\ job' = [p \in Procs |-> NoJob]
    /\ UNCHANGED <<db, disk, uuids>>

-----------------------------------------------------------------------------

Start(p) ==
    \/ StartUpload(p) \/ StartImport(p) \/ StartVisibility(p) \/ StartDelete(p)
    \/ StartConvert(p) \/ StartCreateAlias(p) \/ StartDeleteAlias(p) \/ StartRebuild(p)

\* Calls that wait for a mutex, and those that do not.
Acquire(p) == LockImage(p) \/ LockPath(p) \/ Lock(p)

DatabaseStep(p) ==
    \/ InsertImage(p) \/ InsertImport(p) \/ UpdateVisibility(p) \/ DeleteImage(p)
    \/ UpdateContent(p) \/ InsertAlias(p) \/ DeleteAlias(p) \/ Fail(p)

IndexStep(p) ==
    \/ IndexAdd(p) \/ IndexUpdateVisibility(p) \/ IndexRemoveImage(p)
    \/ IndexAddAlias(p) \/ IndexRemoveAlias(p)

RebuildStep(p) ==
    \/ Drain(p) \/ LoadTargets(p) \/ LoadAliases(p) \/ LoadFails(p)
    \/ ReplaceAll(p) \/ Unlock(p)

RequestStep(p) ==
    \/ StoreImport(p) \/ RejectImport(p) \/ CommitThumbnailFails(p)
    \/ ReadForConversion(p) \/ StoreConversion(p) \/ AbandonConversion(p)
    \/ RLock(p) \/ RLockParks(p) \/ DatabaseStep(p) \/ IndexStep(p)
    \/ RUnlock(p) \/ UnlockPath(p) \/ RemoveFile(p) \/ UnlockImage(p)

Next ==
    \/ \E p \in Procs : Start(p) \/ Acquire(p) \/ RequestStep(p) \/ RebuildStep(p)
    \/ \E k \in Keys : LoseFile(k) \/ RestoreFile(k)
    \/ Restart

Spec == Init /\ [][Next]_vars

(***************************************************************************)
(* A goroutine that does not wait makes its next call, a mutex in sync     *)
(* ends up serving every waiter (starvation mode), and no request is made  *)
(* by the program itself.                                                  *)
(***************************************************************************)
Fairness == \A p \in Procs : /\ WF_vars(RequestStep(p))
                             /\ WF_vars(RebuildStep(p))
                             /\ SF_vars(LockImage(p))
                             /\ SF_vars(LockPath(p))
                             /\ SF_vars(Lock(p))

FairSpec == Spec /\ Fairness

-----------------------------------------------------------------------------
(* What makes the catalogue correct.                                       *)

\* A request that has changed the row of image i and not yet the index.
Publishing(p, i) ==
    /\ pc[p] = "index"
    /\ job[p].image = i
    /\ job[p].op \in {"upload", "import", "visibility", "delete", "convert"}

\* A request that has changed the alias row of path q and not yet the index.
PublishingAlias(p, q) ==
    /\ pc[p] \in {"index", "indexAlias"}
    /\ job[p].path = q
    /\ TakesPath(p)

(***************************************************************************)
(* The delivery index never serves an image as the database no longer has  *)
(* it: a target is the row itself, unless the request that changed the row *)
(* is on its way to the index.  No deleted image, no replaced file and no  *)
(* former visibility survives, whatever rebuilds, conversions and restarts *)
(* do meanwhile (image/upload.go, indexstate/rebuilder.go).                *)
(***************************************************************************)
NoStaleTarget ==
    \A i \in Images :
        byID[i] # None => byID[i] = rows[i] \/ \E p \in Procs : Publishing(p, i)

(***************************************************************************)
(* An image in the database is served, unless its file was touched from    *)
(* outside the program or its request is on its way to the index.          *)
(***************************************************************************)
EveryRowIsServed ==
    \A i \in Images :
        rows[i] # None => \/ byID[i] = rows[i]
                          \/ rows[i].key \in tainted
                          \/ \E p \in Procs : Publishing(p, i)

(***************************************************************************)
(* An image that is private in the database is public in the index only    *)
(* while the very request that makes it private has yet to reach the index *)
(* (Service.ChangeVisibility); a conversion that read the row earlier      *)
(* cannot bring the public target back.                                    *)
(***************************************************************************)
PrivateIsNotServed ==
    \A i \in Images :
        (rows[i] # None /\ byID[i] # None /\ rows[i].vis = "private" /\ byID[i].vis = "public")
            => \E p \in Procs : Publishing(p, i) /\ job[p].op = "visibility"

(***************************************************************************)
(* A path in the index leads where its row says, unless the request that   *)
(* deleted the alias, or the image, has yet to reach the index.            *)
(***************************************************************************)
NoStaleAlias ==
    \A q \in Paths : aliases[q] # None =>
        \/ aliasRow[q] # None /\ aliasRow[q].image = aliases[q]
        \/ \E p \in Procs : /\ pc[p] = "index"
                            /\ \/ job[p].op = "deleteAlias" /\ job[p].path = q
                               \/ job[p].op = "delete" /\ job[p].image = aliases[q]

(***************************************************************************)
(* An alias of a served image is served, unless its request is on its way  *)
(* to the index.  The exception is an image whose uploaded file was        *)
(* touched from outside: a rebuild leaves out the image and its aliases,   *)
(* and a later conversion publishes the image alone.                       *)
(***************************************************************************)
EveryAliasIsServed ==
    \A q \in Paths : (aliasRow[q] # None /\ byID[aliasRow[q].image] # None) =>
        \/ aliases[q] = aliasRow[q].image
        \/ aliasRow[q].image \in tainted
        \/ \E p \in Procs : PublishingAlias(p, q)

\* An alias in the index leads to a target: Index.GetAlias never dangles.
AliasHasTarget ==
    \A q \in Paths : aliases[q] # None => byID[aliases[q]] # None

(***************************************************************************)
(* No request removes a file that a row names: cleanups of failed uploads, *)
(* imports and conversions, and the removals of delete and convert, only   *)
(* reach files nobody refers to, also after a crash in the middle.         *)
(***************************************************************************)
RowsKeepTheirFile ==
    \A i \in Images : rows[i] # None =>
        files[rows[i].key] = "intact" \/ rows[i].key \in tainted

\* The foreign key that delivery.Build relies on: no load is refused for it.
AliasRowsHaveImage ==
    \A q \in Paths : aliasRow[q] # None => rows[aliasRow[q].image] # None

(***************************************************************************)
(* What is written to the index is what the database holds at that moment: *)
(* a target is published only as its current row, an alias only as its     *)
(* current row.  A delayed request cannot resurrect a deleted image or     *)
(* alias, nor a snapshot a former state.                                   *)
(***************************************************************************)
PublishesCurrentRows ==
    [][/\ \A i \in Images : (byID'[i] # byID[i] /\ byID'[i] # None) => byID'[i] = rows[i]
       /\ \A q \in Paths : (aliases'[q] # aliases[q] /\ aliases'[q] # None) =>
              aliasRow[q] # None /\ aliasRow[q].image = aliases'[q]]_vars

\* A goroutine that waits for another one.
Waits(p) == \/ pc[p] = "lockImage" /\ imageLock[job[p].image] # None
            \/ pc[p] = "lockPath" /\ pathLock[job[p].path] # None
            \/ pc[p] = "blocked"
            \/ pc[p] = "lock" /\ writer # None
            \/ pc[p] = "drain" /\ readers # {}

(***************************************************************************)
(* Image lock, path lock and rebuild barrier are taken in one order        *)
(* (barrier.go:17): requests never all wait for each other.                *)
(***************************************************************************)
NoDeadlock ==
    (\E p \in Procs : pc[p] # "idle") => \E p \in Procs : pc[p] # "idle" /\ ~Waits(p)

(***************************************************************************)
(* Every request returns, a rebuild behind a stream of changes included,   *)
(* and no lock is left behind on any of the paths out of a request.        *)
(***************************************************************************)
RequestsReturn == \A p \in Procs : (pc[p] # "idle") ~> (pc[p] = "idle")

(***************************************************************************)
(* docs/architecture.md:13 says that a successful import updates the image *)
(* and the alias index in one go.  importer/service.go:246-250 calls       *)
(* Index.Add and Index.AddAlias one after the other.                       *)
(***************************************************************************)
ImportPublishesAtOnce ==
    \A p \in Procs : (job[p].op = "import" /\ job[p].image # None /\ byID[job[p].image] # None)
        => aliases[job[p].path] = job[p].image
=============================================================================
