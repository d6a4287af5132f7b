--------------------------- MODULE CatalogProofs ---------------------------
(***************************************************************************)
(* Catalog for any goroutines, images, keys and paths, any requests and    *)
(* any faults: types, absence of deadlock, and the agreement of the        *)
(* delivery index with the database.                                       *)
(*                                                                         *)
(* The inductive invariant comes in layers, each proved from the ones      *)
(* before it: the shape of a request's locals at each step; who holds      *)
(* which lock; which rows a request under way can rely on; the index.      *)
(***************************************************************************)
EXTENDS Catalog, TLAPS

ImageOps == {"upload", "import", "visibility", "delete", "convert", "createAlias"}
PathOps  == {"import", "createAlias", "deleteAlias"}
Creates  == {"upload", "import"}

\* Steps inside Barrier.mu.RLock, and inside Barrier.mu.Lock.
ReaderSteps == {"db", "index", "indexAlias", "runlock"}
LoadSteps   == {"loadTargets", "loadAliases", "replace", "unlock"}
WriterSteps == {"drain"} \cup LoadSteps

\* Steps between LockImage and its unlock; of a removal only where it comes first.
ImageSteps == {"read", "transform", "lockPath", "rlock", "blocked", "db", "index",
               "indexAlias", "runlock", "unlockPath", "unlockImage"}
PathSteps == {"rlock", "blocked", "db", "index", "indexAlias", "runlock", "unlockPath"}

\* A request at step s with locals j holds its image lock, its path lock.
HoldsImage(s, j) == /\ j.op \in ImageOps
                    /\ s \in ImageSteps \/ (s = "removeFile" /\ j.op \in {"delete", "convert"})

HoldsPath(s, j) == j.op \in PathOps /\ s \in PathSteps

\* The locals j of a request at step s.
WellFormed(s, j) ==
    /\ s = "idle" <=> j.op = None
    /\ s \in {"lock"} \cup WriterSteps <=> j.op = "rebuild"
    /\ s = "process" => j.op = "import"
    /\ s = "lockImage" => j.op \in ImageOps
    /\ s \in {"read", "transform"} => j.op = "convert"
    /\ s \in {"lockPath", "unlockPath"} => j.op \in PathOps
    /\ s = "indexAlias" => j.op = "import"
    /\ s = "unlockImage" => j.op \in ImageOps
    /\ s = "removeFile" => j.op \in {"upload", "import", "delete", "convert"} /\ j.drop \in Keys
    /\ (j.op \in ImageOps /\ s # "process") => j.image \in Images
    /\ j.op \in PathOps => j.path \in Paths
    /\ (j.op \in PathOps /\ s # "process") => j.aliasID \in AliasIDs
    /\ (j.op \in Creates /\ s # "process") => j.key = j.image
    /\ j.op \in Creates \cup {"visibility"} => j.vis \in Visibility
    /\ s = "transform" => j.drop \in Keys /\ j.vis \in Visibility
    /\ (j.op = "convert" /\ s \in {"rlock", "blocked", "db", "index"})
           => j.key \in SpareKeys /\ j.vis \in Visibility /\ j.drop \in Keys

JobShape == \A p \in Procs : WellFormed(pc[p], job[p])

\* A lock is held exactly by the request that is between lock and unlock.
LocksAreHeld ==
    /\ \A p \in Procs : HoldsImage(pc[p], job[p]) => imageLock[job[p].image] = p
    /\ \A p \in Procs : HoldsPath(pc[p], job[p]) => pathLock[job[p].path] = p
    /\ \A p \in Procs, i \in Images :
           imageLock[i] = p => HoldsImage(pc[p], job[p]) /\ job[p].image = i
    /\ \A p \in Procs, q \in Paths :
           pathLock[q] = p => HoldsPath(pc[p], job[p]) /\ job[p].path = q

\* sync.RWMutex: who is inside, who is parked, who writes.
BarrierIsHeld ==
    /\ \A p \in Procs : p \in readers <=> pc[p] \in ReaderSteps
    /\ \A p \in Procs : p \in blocked <=> pc[p] = "blocked"
    /\ \A p \in Procs : writer = p <=> pc[p] \in WriterSteps
    /\ writer = None => blocked = {}
    /\ \A p \in Procs : pc[p] \in LoadSteps => readers = {}

\* An alias id, once drawn, stays with one path: a pending creation has it to
\* itself, and a deletion finds it nowhere but at the path it has locked.
PendingAlias(s, j) == /\ j.op \in {"import", "createAlias"}
                      /\ s \in {"lockImage", "lockPath", "rlock", "blocked", "db"}

OwnsAliasID(s, j) == PendingAlias(s, j) \/ j.op = "deleteAlias"

AliasIdsAreUnique ==
    /\ \A q \in Paths : aliasRow[q] # None => aliasRow[q].id \in usedAlias
    /\ \A q, r \in Paths :
           (aliasRow[q] # None /\ aliasRow[r] # None /\ aliasRow[q].id = aliasRow[r].id) => q = r
    /\ \A p \in Procs : OwnsAliasID(pc[p], job[p]) => job[p].aliasID \in usedAlias
    /\ \A p \in Procs, q \in Paths : (PendingAlias(pc[p], job[p]) /\ aliasRow[q] # None)
           => aliasRow[q].id # job[p].aliasID
    /\ \A p, r \in Procs :
           (p # r /\ PendingAlias(pc[p], job[p]) /\ OwnsAliasID(pc[r], job[r]))
               => job[r].aliasID # job[p].aliasID
    /\ \A p \in Procs, q \in Paths :
           (job[p].op = "deleteAlias" /\ aliasRow[q] # None /\ aliasRow[q].id = job[p].aliasID)
               => q = job[p].path

Shape == TypeOK /\ JobShape /\ BarrierIsHeld

\* A step that moves no other goroutine; only the end of a rebuild does.
OwnStep(p) == \/ Start(p) \/ Acquire(p) \/ RequestStep(p)
              \/ Drain(p) \/ LoadTargets(p) \/ LoadAliases(p) \/ LoadFails(p) \/ ReplaceAll(p)

-----------------------------------------------------------------------------
(* Types and the shape of the locals.                                      *)

\* A request does not touch the locals of another one.
LEMMA OthersKeep ==
    ASSUME pc \in [Procs -> Steps], job \in [Procs -> Job], NEW p \in Procs, OwnStep(p)
    PROVE  \A q \in Procs \ {p} : pc'[q] = pc[q] /\ job'[q] = job[q]
<1>. DEFINE Kept == \A q \in Procs \ {p} : pc'[q] = pc[q] /\ job'[q] = job[q]
<1>1. CASE Start(p)
  BY <1>1 DEF Start, Begin, StartUpload, StartImport, StartVisibility, StartDelete, StartConvert,
              StartCreateAlias, StartDeleteAlias, StartRebuild
<1>2. CASE Acquire(p)
  BY <1>2 DEF Acquire, LockImage, LockPath, Lock
<1>3. CASE StoreImport(p) \/ RejectImport(p) \/ CommitThumbnailFails(p)
           \/ ReadForConversion(p) \/ StoreConversion(p) \/ AbandonConversion(p)
  BY <1>3 DEF StoreImport, RejectImport, CommitThumbnailFails, ReadForConversion,
              StoreConversion, AbandonConversion
<1>4. CASE DatabaseStep(p)
  BY <1>4 DEF DatabaseStep, InsertImage, InsertImport, UpdateVisibility, DeleteImage,
              UpdateContent, InsertAlias, DeleteAlias, Fail, Committed
<1>5. CASE IndexStep(p)
  BY <1>5 DEF IndexStep, IndexAdd, IndexUpdateVisibility, IndexRemoveImage, IndexAddAlias,
              IndexRemoveAlias, Published
<1>6. CASE RLock(p) \/ RLockParks(p) \/ RUnlock(p) \/ UnlockPath(p) \/ RemoveFile(p) \/ UnlockImage(p)
  BY <1>6 DEF RLock, RLockParks, RUnlock, UnlockPath, RemoveFile, UnlockImage, Return
<1>7. CASE Drain(p) \/ LoadTargets(p) \/ LoadAliases(p) \/ LoadFails(p) \/ ReplaceAll(p)
  BY <1>7 DEF Drain, LoadTargets, LoadAliases, LoadFails, ReplaceAll
<1>. QED BY <1>1, <1>2, <1>3, <1>4, <1>5, <1>6, <1>7 DEF OwnStep, RequestStep

\* A request starts with locals of the right type.
LEMMA BeginTyped ==
    ASSUME TypeOK, NEW p \in Procs, NEW s \in Steps, NEW j \in Job, Begin(p, s, j)
    PROVE  pc' \in [Procs -> Steps] /\ job' \in [Procs -> Job]
  BY DEF TypeOK, Begin

\* The same for all eight kinds of request.
LEMMA StartTyped ==
    ASSUME TypeOK, NEW p \in Procs, Start(p)
    PROVE  TypeOK'
<1>. DEFINE Typed == pc' \in [Procs -> Steps] /\ job' \in [Procs -> Job]
<1>1. CASE StartUpload(p)
  <2>1. PICK i \in Images, v \in Visibility :
            Begin(p, "lockImage", [NoJob EXCEPT !.op = "upload", !.image = i, !.key = i, !.vis = v])
    BY <1>1 DEF StartUpload
  <2>2. [NoJob EXCEPT !.op = "upload", !.image = i, !.key = i, !.vis = v] \in Job
    BY DEF NoJob, Job, Keys, AllRequests
  <2>3. Typed
    BY <2>1, <2>2, BeginTyped DEF Steps
  <2>. QED BY <1>1, <2>3 DEF StartUpload, TypeOK, Keys, db, index, locks, barrier
<1>2. CASE StartImport(p)
  <2>1. PICK q \in Paths, v \in Visibility :
            Begin(p, "process", [NoJob EXCEPT !.op = "import", !.path = q, !.vis = v])
    BY <1>2 DEF StartImport
  <2>2. [NoJob EXCEPT !.op = "import", !.path = q, !.vis = v] \in Job
    BY DEF NoJob, Job, AllRequests
  <2>3. Typed
    BY <2>1, <2>2, BeginTyped DEF Steps
  <2>. QED BY <1>2, <2>3 DEF StartImport, TypeOK, db, disk, uuids, index, locks, barrier
<1>3. CASE StartVisibility(p)
  <2>1. PICK i \in Images, v \in Visibility :
            Begin(p, "lockImage", [NoJob EXCEPT !.op = "visibility", !.image = i, !.vis = v])
    BY <1>3 DEF StartVisibility
  <2>2. [NoJob EXCEPT !.op = "visibility", !.image = i, !.vis = v] \in Job
    BY DEF NoJob, Job, AllRequests
  <2>3. Typed
    BY <2>1, <2>2, BeginTyped DEF Steps
  <2>. QED BY <1>3, <2>3 DEF StartVisibility, TypeOK, db, disk, uuids, index, locks, barrier
<1>4. CASE StartDelete(p) \/ StartConvert(p)
  <2>1. PICK i \in Images, op \in {"delete", "convert"} :
            Begin(p, "lockImage", [NoJob EXCEPT !.op = op, !.image = i])
    BY <1>4 DEF StartDelete, StartConvert
  <2>2. [NoJob EXCEPT !.op = op, !.image = i] \in Job
    BY DEF NoJob, Job, AllRequests
  <2>3. Typed
    BY <2>1, <2>2, BeginTyped DEF Steps
  <2>. QED
    BY <1>4, <2>3 DEF StartDelete, StartConvert, TypeOK, db, disk, uuids, index, locks, barrier
<1>5. CASE StartCreateAlias(p)
  <2>1. PICK i \in Images, q \in Paths, a \in AliasIDs :
            Begin(p, "lockImage", [NoJob EXCEPT !.op = "createAlias", !.image = i,
                                                !.path = q, !.aliasID = a])
    BY <1>5 DEF StartCreateAlias
  <2>2. [NoJob EXCEPT !.op = "createAlias", !.image = i, !.path = q, !.aliasID = a] \in Job
    BY DEF NoJob, Job, AllRequests
  <2>3. Typed
    BY <2>1, <2>2, BeginTyped DEF Steps
  <2>. QED BY <1>5, <2>3 DEF StartCreateAlias, TypeOK, db, disk, index, locks, barrier
<1>6. CASE StartDeleteAlias(p)
  <2>1. PICK q \in Paths :
            /\ aliasRow[q] # None
            /\ Begin(p, "lockPath", [NoJob EXCEPT !.op = "deleteAlias", !.path = q,
                                                  !.aliasID = aliasRow[q].id])
    BY <1>6 DEF StartDeleteAlias
  <2>2. aliasRow[q].id \in AliasIDs
    BY <2>1, CatalogAssumption DEF TypeOK, AliasRow
  <2>3. [NoJob EXCEPT !.op = "deleteAlias", !.path = q, !.aliasID = aliasRow[q].id] \in Job
    BY <2>2 DEF NoJob, Job, AllRequests
  <2>4. Typed
    BY <2>1, <2>3, BeginTyped DEF Steps
  <2>. QED BY <1>6, <2>4 DEF StartDeleteAlias, TypeOK, db, disk, uuids, index, locks, barrier
<1>7. CASE StartRebuild(p)
  <2>1. [NoJob EXCEPT !.op = "rebuild"] \in Job
    BY DEF NoJob, Job, AllRequests
  <2>2. Typed
    BY <1>7, <2>1, BeginTyped DEF StartRebuild, Steps
  <2>. QED BY <1>7, <2>2 DEF StartRebuild, TypeOK, db, disk, uuids, index, locks, barrier
<1>. QED BY <1>1, <1>2, <1>3, <1>4, <1>5, <1>6, <1>7 DEF Start

\* What the rows a request reads can be.
LEMMA RowsTyped ==
    ASSUME TypeOK
    PROVE  /\ \A i \in Images : rows[i] # None => rows[i].key \in Keys /\ rows[i].vis \in Visibility
           /\ \A q \in Paths : aliasRow[q] # None =>
                  aliasRow[q].id \in AliasIDs /\ aliasRow[q].image \in Images
  BY CatalogAssumption DEF TypeOK, Row, AliasRow

\* The steps of a request before its database statement.
LEMMA ProcessTyped ==
    ASSUME Shape, NEW p \in Procs,
           \/ StoreImport(p) \/ RejectImport(p) \/ CommitThumbnailFails(p)
           \/ ReadForConversion(p) \/ StoreConversion(p) \/ AbandonConversion(p)
    PROVE  TypeOK'
<1>. USE DEF db, disk, uuids, index, locks, barrier
<1>1. TypeOK /\ WellFormed(pc[p], job[p]) /\ job \in [Procs -> Job]
  BY DEF Shape, JobShape, TypeOK
<1>2. CASE StoreImport(p)
  <2>1. PICK i \in Images, a \in AliasIDs :
            /\ job' = [job EXCEPT ![p] = [@ EXCEPT !.image = i, !.key = i, !.aliasID = a]]
            /\ files' = [files EXCEPT ![i] = "intact"]
            /\ used' = used \cup {i}
            /\ usedAlias' = usedAlias \cup {a}
    BY <1>2 DEF StoreImport
  <2>2. [job[p] EXCEPT !.image = i, !.key = i, !.aliasID = a] \in Job
    BY <1>1 DEF Job, Keys
  <2>3. job' \in [Procs -> Job]
    BY <1>1, <2>1, <2>2
  <2>4. pc' = [pc EXCEPT ![p] = "lockImage"] /\ UNCHANGED <<tainted, db, index, locks, barrier>>
    BY <1>2 DEF StoreImport
  <2>5. /\ files' \in [Keys -> {"absent", "intact", "damaged"}]
        /\ used' \in SUBSET Keys /\ usedAlias' \in SUBSET AliasIDs
    BY <1>1, <2>1 DEF TypeOK, Keys
  <2>6. pc' \in [Procs -> Steps]
    BY <1>1, <2>4 DEF TypeOK, Steps
  <2>. QED BY <1>1, <2>3, <2>4, <2>5, <2>6 DEF TypeOK
<1>3. CASE RejectImport(p)
  <2>1. job' \in [Procs -> Job]
    BY <1>1, <1>3 DEF RejectImport, Job, NoJob
  <2>. QED BY <1>1, <1>3, <2>1 DEF RejectImport, TypeOK, Steps
<1>4. CASE CommitThumbnailFails(p)
  <2>1. job' \in [Procs -> Job]
    BY <1>1, <1>4 DEF CommitThumbnailFails, Job
  <2>. QED BY <1>1, <1>4, <2>1 DEF CommitThumbnailFails, TypeOK, Steps
<1>5. CASE ReadForConversion(p)
  <2>1. job[p].image \in Images
    BY <1>1, <1>5 DEF WellFormed, ReadForConversion, ImageOps
  <2>2. rows[job[p].image].key \in Keys /\ rows[job[p].image].vis \in Visibility
    BY <1>1, <1>5, <2>1, RowsTyped DEF ReadForConversion
  <2>3. [job[p] EXCEPT !.vis = rows[job[p].image].vis, !.drop = rows[job[p].image].key] \in Job
    BY <1>1, <2>2 DEF Job
  <2>4. job' \in [Procs -> Job]
    BY <1>1, <1>5, <2>3 DEF ReadForConversion
  <2>. QED BY <1>1, <1>5, <2>4 DEF ReadForConversion, TypeOK, Steps
<1>6. CASE StoreConversion(p)
  <2>1. job' \in [Procs -> Job]
    BY <1>1, <1>6 DEF StoreConversion, Job, Keys
  <2>. QED BY <1>1, <1>6, <2>1 DEF StoreConversion, TypeOK, Steps, Keys
<1>7. CASE AbandonConversion(p)
  BY <1>1, <1>7 DEF AbandonConversion, TypeOK, Steps
<1>. QED BY <1>2, <1>3, <1>4, <1>5, <1>6, <1>7

\* The database statements.
LEMMA DatabaseTyped ==
    ASSUME Shape, NEW p \in Procs, DatabaseStep(p)
    PROVE  TypeOK'
<1>. USE DEF db, disk, uuids, index, locks, barrier
<1>1. TypeOK /\ WellFormed(pc[p], job[p]) /\ job \in [Procs -> Job]
  BY DEF Shape, JobShape, TypeOK
<1>2. ASSUME Committed(p), pc[p] = "db",
             job[p].op = "delete" => rows[job[p].image] # None
      PROVE  job' \in [Procs -> Job] /\ pc' \in [Procs -> Steps]
  <2>1. CASE job[p].op = "delete"
    <3>1. job[p].image \in Images
      BY <1>1, <1>2, <2>1 DEF WellFormed, ImageOps
    <3>2. Superseded(p) \in Keys
      BY <1>1, <1>2, <2>1, <3>1, RowsTyped DEF Superseded
    <3>3. job' \in [Procs -> Job]
      BY <1>1, <1>2, <3>2 DEF Committed, Job
    <3>. QED BY <1>1, <1>2, <3>3 DEF Committed, TypeOK, Steps
  <2>2. CASE job[p].op # "delete"
    <3>1. Superseded(p) \in Keys \cup {None}
      BY <1>1, <2>2 DEF Superseded, Job
    <3>2. job' \in [Procs -> Job]
      BY <1>1, <1>2, <3>1 DEF Committed, Job
    <3>. QED BY <1>1, <1>2, <3>2 DEF Committed, TypeOK, Steps
  <2>. QED BY <2>1, <2>2
<1>3. CASE InsertImage(p)
  <2>1. job' \in [Procs -> Job] /\ pc' \in [Procs -> Steps]
    BY <1>2, <1>3 DEF InsertImage
  <2>2. job[p].key \in Keys /\ job[p].vis \in Visibility /\ job[p].image \in Images
    BY <1>1, <1>3 DEF InsertImage, WellFormed, ImageOps, Creates, Keys
  <2>. QED BY <1>1, <1>3, <2>1, <2>2 DEF InsertImage, TypeOK, Row
<1>4. CASE InsertImport(p)
  <2>1. job' \in [Procs -> Job] /\ pc' \in [Procs -> Steps]
    BY <1>2, <1>4 DEF InsertImport
  <2>2. /\ job[p].key \in Keys /\ job[p].vis \in Visibility /\ job[p].image \in Images
        /\ job[p].aliasID \in AliasIDs /\ job[p].path \in Paths
    BY <1>1, <1>4 DEF InsertImport, WellFormed, ImageOps, PathOps, Creates, Keys
  <2>. QED BY <1>1, <1>4, <2>1, <2>2 DEF InsertImport, TypeOK, Row, AliasRow
<1>5. CASE UpdateVisibility(p)
  <2>1. job' \in [Procs -> Job] /\ pc' \in [Procs -> Steps]
    BY <1>2, <1>5 DEF UpdateVisibility
  <2>2. job[p].vis \in Visibility /\ job[p].image \in Images
    BY <1>1, <1>5 DEF UpdateVisibility, WellFormed, ImageOps, Creates
  <2>. QED BY <1>1, <1>5, <2>1, <2>2 DEF UpdateVisibility, TypeOK, Row
<1>6. CASE DeleteImage(p)
  <2>1. job' \in [Procs -> Job] /\ pc' \in [Procs -> Steps]
    BY <1>2, <1>6 DEF DeleteImage
  <2>. QED BY <1>1, <1>6, <2>1 DEF DeleteImage, TypeOK
<1>7. CASE UpdateContent(p)
  <2>1. job' \in [Procs -> Job] /\ pc' \in [Procs -> Steps]
    BY <1>2, <1>7 DEF UpdateContent
  <2>2. job[p].key \in Keys /\ job[p].image \in Images
    BY <1>1, <1>7 DEF UpdateContent, WellFormed, ImageOps, Keys
  <2>. QED BY <1>1, <1>7, <2>1, <2>2 DEF UpdateContent, TypeOK, Row
<1>8. CASE InsertAlias(p)
  <2>1. job' \in [Procs -> Job] /\ pc' \in [Procs -> Steps]
    BY <1>2, <1>8 DEF InsertAlias
  <2>2. job[p].image \in Images /\ job[p].aliasID \in AliasIDs /\ job[p].path \in Paths
    BY <1>1, <1>8 DEF InsertAlias, WellFormed, ImageOps, PathOps
  <2>. QED BY <1>1, <1>8, <2>1, <2>2 DEF InsertAlias, TypeOK, AliasRow
<1>9. CASE DeleteAlias(p)
  <2>1. job' \in [Procs -> Job]
    BY <1>1, <1>9 DEF DeleteAlias, Job
  <2>. QED BY <1>1, <1>9, <2>1 DEF DeleteAlias, TypeOK, Steps
<1>10. CASE Fail(p)
  <2>1. job' \in [Procs -> Job]
    BY <1>1, <1>10 DEF Fail, Job
  <2>. QED BY <1>1, <1>10, <2>1 DEF Fail, TypeOK, Steps
<1>. QED BY <1>3, <1>4, <1>5, <1>6, <1>7, <1>8, <1>9, <1>10 DEF DatabaseStep

\* The index, the locks, the removal of files.
LEMMA OtherTyped ==
    ASSUME Shape, NEW p \in Procs,
           \/ IndexStep(p) \/ Acquire(p) \/ RLock(p) \/ RLockParks(p)
           \/ RUnlock(p) \/ UnlockPath(p) \/ RemoveFile(p) \/ UnlockImage(p)
    PROVE  TypeOK'
<1>. USE DEF db, disk, uuids, index, locks, barrier
<1>1. TypeOK /\ WellFormed(pc[p], job[p]) /\ job \in [Procs -> Job]
  BY DEF Shape, JobShape, TypeOK
<1>2. NoJob \in Job
  BY DEF NoJob, Job
<1>3. CASE IndexAdd(p)
  <2>1. job[p].key \in Keys /\ job[p].vis \in Visibility /\ job[p].image \in Images
    BY <1>1, <1>3 DEF IndexAdd, WellFormed, ImageOps, Creates, Keys
  <2>. QED BY <1>1, <1>3, <2>1 DEF IndexAdd, TypeOK, Row, Steps
<1>4. CASE IndexUpdateVisibility(p)
  <2>1. job[p].vis \in Visibility /\ job[p].image \in Images
    BY <1>1, <1>4 DEF IndexUpdateVisibility, WellFormed, ImageOps, Creates
  <2>. QED
    BY <1>1, <1>4, <2>1 DEF IndexUpdateVisibility, VisibilityUpdated, Published, TypeOK, Row, Steps
<1>5. CASE IndexRemoveImage(p)
  BY <1>1, <1>5 DEF IndexRemoveImage, AliasesWithout, Published, TypeOK, Steps
<1>6. CASE IndexAddAlias(p)
  <2>1. job[p].image \in Images
    BY <1>1, <1>6 DEF IndexAddAlias, WellFormed, ImageOps
  <2>. QED BY <1>1, <1>6, <2>1 DEF IndexAddAlias, AliasAdded, Published, TypeOK, Steps
<1>7. CASE IndexRemoveAlias(p)
  BY <1>1, <1>7 DEF IndexRemoveAlias, Published, TypeOK, Steps
<1>8. CASE Acquire(p)
  BY <1>1, <1>8 DEF Acquire, LockImage, LockPath, Lock, TypeOK, Steps
<1>9. CASE RLock(p) \/ RLockParks(p) \/ RUnlock(p)
  BY <1>1, <1>9 DEF RLock, RLockParks, RUnlock, AfterChange, TypeOK, Steps
<1>10. CASE UnlockPath(p)
  BY <1>1, <1>2, <1>10 DEF UnlockPath, PathsFreed, Return, TypeOK, Steps
<1>11. CASE RemoveFile(p)
  BY <1>1, <1>2, <1>11 DEF RemoveFile, Return, TypeOK, Steps
<1>12. CASE UnlockImage(p)
  <2>1. job[p].image \in Images
    BY <1>1, <1>12 DEF UnlockImage, WellFormed
  <2>. QED BY <2>1, <1>1, <1>2, <1>12 DEF UnlockImage, ImagesFreed, Return, TypeOK, Steps
<1>. QED
  BY <1>3, <1>4, <1>5, <1>6, <1>7, <1>8, <1>9, <1>10, <1>11, <1>12 DEF IndexStep

\* The rebuild, the outside world, the restart.
LEMMA RebuildTyped ==
    ASSUME Shape, (\E p \in Procs : RebuildStep(p)) \/ (\E k \in Keys : LoseFile(k) \/ RestoreFile(k)) \/ Restart
    PROVE  TypeOK'
<1>. USE DEF db, disk, uuids, index, locks, barrier
<1>1. TypeOK
  BY DEF Shape
<1>2. BuildTargets \in [Images -> Row \cup {None}]
  BY <1>1 DEF TypeOK, BuildTargets
<1>3. ASSUME NEW t \in [Images -> Row \cup {None}] PROVE BuildAliases(t) \in [Paths -> Images \cup {None}]
  BY <1>1, RowsTyped DEF BuildAliases
<1>4. EmptySnapshot \in [targets : [Images -> Row \cup {None}], aliases : [Paths -> Images \cup {None}]]
  BY DEF EmptySnapshot, EmptyTargets, EmptyAliases
<1>5. NoJob \in Job
  BY DEF NoJob, Job
<1>6. ASSUME NEW p \in Procs, RebuildStep(p) PROVE TypeOK'
  <2>1. CASE Drain(p)
    BY <1>1, <2>1 DEF Drain, TypeOK, Steps
  <2>2. CASE LoadTargets(p)
    BY <1>1, <1>2, <2>2 DEF LoadTargets, TypeOK, Steps
  <2>3. CASE LoadAliases(p)
    BY <1>1, <1>3, <2>3 DEF LoadAliases, TypeOK, Steps
  <2>4. CASE LoadFails(p)
    BY <1>1, <1>4, <2>4 DEF LoadFails, TypeOK, Steps
  <2>5. CASE ReplaceAll(p)
    BY <1>1, <1>4, <2>5 DEF ReplaceAll, TypeOK, Steps
  <2>6. CASE Unlock(p)
    BY <1>1, <1>5, <2>6 DEF Unlock, TypeOK, Steps
  <2>. QED BY <1>6, <2>1, <2>2, <2>3, <2>4, <2>5, <2>6 DEF RebuildStep
<1>7. ASSUME NEW k \in Keys, LoseFile(k) \/ RestoreFile(k) PROVE TypeOK'
  BY <1>1, <1>7 DEF LoseFile, RestoreFile, TypeOK
<1>8. CASE Restart
  BY <1>1, <1>2, <1>3, <1>4, <1>5, <1>8 DEF Restart, TypeOK, Steps
<1>. QED BY <1>6, <1>7, <1>8

\* No step leaves the types.
LEMMA TypeStep == Shape /\ [Next]_vars => TypeOK'
<1>. SUFFICES ASSUME Shape, [Next]_vars PROVE TypeOK'
  OBVIOUS
<1>1. CASE UNCHANGED vars
  BY <1>1 DEF Shape, TypeOK, vars
<1>2. CASE Next
  BY <1>2, StartTyped, ProcessTyped, DatabaseTyped, OtherTyped, RebuildTyped
     DEF Next, RequestStep, Shape
<1>. QED BY <1>1, <1>2

\* A request that has returned has no locals.
LEMMA IdleWellFormed == WellFormed("idle", NoJob)
  BY CatalogAssumption DEF WellFormed, NoJob, ImageOps, PathOps, Creates, WriterSteps, LoadSteps, AllRequests

\* A request keeps its own locals in shape.
LEMMA OwnWellFormed ==
    ASSUME Shape, NEW p \in Procs, OwnStep(p)
    PROVE  WellFormed(pc'[p], job'[p])
<1>1. /\ WellFormed(pc[p], job[p]) /\ job[p] \in Job
      /\ pc \in [Procs -> Steps] /\ job \in [Procs -> Job]
      /\ TypeOK
  BY DEF Shape, JobShape, TypeOK
<1>. USE <1>1, CatalogAssumption DEF WellFormed, ImageOps, PathOps, Creates, WriterSteps, LoadSteps
<1>2. CASE StartUpload(p)
  BY <1>2 DEF StartUpload, Begin, NoJob, AllRequests
<1>3. CASE StartImport(p)
  BY <1>3 DEF StartImport, Begin, NoJob, AllRequests
<1>4. CASE StartVisibility(p)
  BY <1>4 DEF StartVisibility, Begin, NoJob, AllRequests
<1>5. CASE StartDelete(p)
  BY <1>5 DEF StartDelete, Begin, NoJob, AllRequests
<1>6. CASE StartConvert(p)
  BY <1>6 DEF StartConvert, Begin, NoJob, AllRequests
<1>7. CASE StartCreateAlias(p)
  BY <1>7 DEF StartCreateAlias, Begin, NoJob, AllRequests
<1>8. CASE StartDeleteAlias(p)
  <2>1. PICK q \in Paths :
            /\ aliasRow[q] # None
            /\ Begin(p, "lockPath", [NoJob EXCEPT !.op = "deleteAlias", !.path = q,
                                                  !.aliasID = aliasRow[q].id])
    BY <1>8 DEF StartDeleteAlias
  <2>2. aliasRow[q].id \in AliasIDs
    BY <2>1, RowsTyped
  <2>. QED BY <2>1, <2>2 DEF Begin, NoJob, AllRequests
<1>9. CASE StartRebuild(p)
  BY <1>9 DEF StartRebuild, Begin, NoJob, AllRequests
<1>10. CASE LockImage(p) \/ LockPath(p) \/ Lock(p)
  BY <1>10 DEF LockImage, TakesPath, LockPath, Lock
<1>11. CASE StoreImport(p)
  BY <1>11 DEF StoreImport, Job
<1>12. CASE RejectImport(p)
  BY <1>12, IdleWellFormed DEF RejectImport
<1>13. CASE CommitThumbnailFails(p)
  BY <1>13 DEF CommitThumbnailFails, Job, Keys
<1>14. CASE ReadForConversion(p)
  <2>1. rows[job[p].image].key \in Keys /\ rows[job[p].image].vis \in Visibility
    BY <1>14, RowsTyped DEF ReadForConversion
  <2>. QED BY <1>14, <2>1 DEF ReadForConversion, Job
<1>15. CASE StoreConversion(p) \/ AbandonConversion(p)
  BY <1>15 DEF StoreConversion, AbandonConversion, Job
<1>16. CASE InsertImage(p) \/ InsertImport(p) \/ UpdateVisibility(p) \/ DeleteImage(p)
            \/ UpdateContent(p) \/ InsertAlias(p)
  BY <1>16 DEF InsertImage, InsertImport, UpdateVisibility, DeleteImage, UpdateContent,
               InsertAlias, Committed, Superseded, Job
<1>17. CASE DeleteAlias(p) \/ Fail(p)
  BY <1>17 DEF DeleteAlias, Fail, Job
<1>18. CASE IndexStep(p)
  BY <1>18 DEF IndexStep, IndexAdd, IndexUpdateVisibility, IndexRemoveImage, IndexAddAlias,
               IndexRemoveAlias, Published
<1>19. CASE RLock(p) \/ RLockParks(p)
  BY <1>19 DEF RLock, RLockParks
<1>20. CASE RUnlock(p)
  BY <1>20 DEF RUnlock, AfterChange, TakesPath, Job, AllRequests
<1>21. CASE UnlockPath(p)
  BY <1>21, IdleWellFormed DEF UnlockPath, Return
<1>22. CASE RemoveFile(p)
  BY <1>22, IdleWellFormed DEF RemoveFile, Return
<1>23. CASE UnlockImage(p)
  BY <1>23, IdleWellFormed DEF UnlockImage, Return, Job
<1>24. CASE Drain(p) \/ LoadTargets(p) \/ LoadAliases(p) \/ LoadFails(p) \/ ReplaceAll(p)
  BY <1>24 DEF Drain, LoadTargets, LoadAliases, LoadFails, ReplaceAll
<1>. QED
  BY <1>2, <1>3, <1>4, <1>5, <1>6, <1>7, <1>8, <1>9, <1>10, <1>11, <1>12, <1>13, <1>14, <1>15,
     <1>16, <1>17, <1>18, <1>19, <1>20, <1>21, <1>22, <1>23, <1>24
     DEF OwnStep, Start, Acquire, RequestStep, DatabaseStep

\* The steps that are no request's own.
LEMMA OtherSteps ==
    ASSUME [Next]_vars
    PROVE  \/ \E p \in Procs : OwnStep(p) \/ Unlock(p)
           \/ Restart
           \/ UNCHANGED <<pc, job, db, uuids, index, locks, barrier>>
  BY DEF Next, OwnStep, RebuildStep, LoseFile, RestoreFile, vars, db, uuids, index, locks, barrier

\* Every step keeps all locals in shape.
LEMMA JobStep == Shape /\ [Next]_vars => JobShape'
<1>. SUFFICES ASSUME Shape, [Next]_vars PROVE JobShape'
  OBVIOUS
<1>1. ASSUME NEW p \in Procs, OwnStep(p) PROVE JobShape'
  BY <1>1, OthersKeep, OwnWellFormed DEF Shape, TypeOK, JobShape
<1>2. ASSUME NEW p \in Procs, Unlock(p) PROVE JobShape'
  <2>1. ASSUME NEW q \in Procs PROVE WellFormed(pc'[q], job'[q])
    <3>1. CASE q = p
      BY <1>2, <3>1, IdleWellFormed DEF Unlock, Shape, TypeOK
    <3>2. CASE q # p /\ q \in blocked
      <4>1. pc'[q] = "db" /\ job'[q] = job[q] /\ pc[q] = "blocked"
        BY <1>2, <3>2 DEF Unlock, Shape, TypeOK, BarrierIsHeld
      <4>. QED
        BY <4>1 DEF Shape, JobShape, WellFormed, WriterSteps, LoadSteps
    <3>3. CASE q # p /\ q \notin blocked
      BY <1>2, <3>3 DEF Unlock, Shape, TypeOK, JobShape
    <3>. QED BY <3>1, <3>2, <3>3
  <2>. QED BY <2>1 DEF JobShape
<1>3. CASE Restart
  BY <1>3, IdleWellFormed DEF Restart, JobShape
<1>4. CASE UNCHANGED <<pc, job, db, uuids, index, locks, barrier>>
  BY <1>4 DEF Shape, JobShape
<1>. QED BY <1>1, <1>2, <1>3, <1>4, OtherSteps

\* Every step keeps the barrier's state in line with the program counters.
LEMMA BarrierStep == Shape /\ [Next]_vars => BarrierIsHeld'
<1>. SUFFICES ASSUME Shape, [Next]_vars PROVE BarrierIsHeld'
  OBVIOUS
<1>0. /\ pc \in [Procs -> Steps] /\ job \in [Procs -> Job]
      /\ readers \in SUBSET Procs /\ blocked \in SUBSET Procs /\ writer \in Procs \cup {None}
      /\ BarrierIsHeld
  BY DEF Shape, TypeOK
<1>. USE <1>0, CatalogAssumption DEF BarrierIsHeld, ReaderSteps, LoadSteps, WriterSteps, barrier
<1>1. ASSUME NEW p \in Procs, OwnStep(p) PROVE BarrierIsHeld'
  <2>0. \A q \in Procs \ {p} : pc'[q] = pc[q]
    BY <1>1, OthersKeep
  <2>. USE <2>0
  <2>1. CASE Start(p)
    <3>1. /\ pc[p] = "idle" /\ pc'[p] \in {"process", "lockImage", "lockPath", "lock"}
          /\ UNCHANGED <<readers, blocked, writer>>
      <4>1. CASE StartUpload(p)
        BY <4>1 DEF Begin, StartUpload
      <4>6. CASE StartImport(p)
        BY <4>6 DEF Begin, StartImport
      <4>2. CASE StartVisibility(p) \/ StartDelete(p) \/ StartConvert(p)
        BY <4>2 DEF Begin, StartVisibility, StartDelete, StartConvert
      <4>3. CASE StartCreateAlias(p)
        BY <4>3 DEF Begin, StartCreateAlias
      <4>4. CASE StartDeleteAlias(p)
        BY <4>4 DEF Begin, StartDeleteAlias
      <4>5. CASE StartRebuild(p)
        BY <4>5 DEF Begin, StartRebuild
      <4>. QED BY <2>1, <4>1, <4>2, <4>3, <4>4, <4>5, <4>6 DEF Start
    <3>. QED BY <3>1
  <2>2. CASE LockImage(p) \/ LockPath(p)
    BY <2>2 DEF LockImage, LockPath
  <2>3. CASE Lock(p)
    BY <2>3 DEF Lock
  <2>4. CASE StoreImport(p) \/ RejectImport(p) \/ CommitThumbnailFails(p)
             \/ ReadForConversion(p) \/ StoreConversion(p) \/ AbandonConversion(p)
    <3>1. /\ pc[p] \in {"process", "lockImage", "read", "transform"}
          /\ pc'[p] \in {"idle", "lockImage", "transform", "rlock", "removeFile", "unlockImage"}
          /\ UNCHANGED <<readers, blocked, writer>>
      <4>1. CASE StoreImport(p)
        BY <4>1 DEF StoreImport
      <4>2. CASE RejectImport(p) \/ CommitThumbnailFails(p) \/ AbandonConversion(p)
        BY <4>2 DEF RejectImport, CommitThumbnailFails, AbandonConversion
      <4>3. CASE ReadForConversion(p)
        BY <4>3 DEF ReadForConversion
      <4>4. CASE StoreConversion(p)
        BY <4>4 DEF StoreConversion
      <4>. QED BY <2>4, <4>1, <4>2, <4>3, <4>4
    <3>. QED BY <3>1
  <2>5. CASE DatabaseStep(p)
    BY <2>5 DEF DatabaseStep, InsertImage, InsertImport, UpdateVisibility, DeleteImage,
                UpdateContent, InsertAlias, DeleteAlias, Fail, Committed
  <2>6. CASE IndexStep(p)
    BY <2>6 DEF IndexStep, IndexAdd, IndexUpdateVisibility, IndexRemoveImage, IndexAddAlias,
                IndexRemoveAlias, Published
  <2>7. CASE RLock(p)
    BY <2>7 DEF RLock
  <2>8. CASE RLockParks(p)
    BY <2>8 DEF RLockParks
  <2>9. CASE RUnlock(p)
    BY <2>9 DEF RUnlock, AfterChange
  <2>10. CASE UnlockPath(p) \/ RemoveFile(p) \/ UnlockImage(p)
    BY <2>10 DEF UnlockPath, RemoveFile, UnlockImage, Return
  <2>11. CASE Drain(p)
    BY <2>11 DEF Drain, Drained
  <2>12. CASE LoadTargets(p) \/ LoadAliases(p) \/ LoadFails(p) \/ ReplaceAll(p)
    BY <2>12 DEF LoadTargets, LoadAliases, LoadFails, ReplaceAll
  <2>. QED
    BY <1>1, <2>1, <2>2, <2>3, <2>4, <2>5, <2>6, <2>7, <2>8, <2>9, <2>10, <2>11, <2>12
       DEF OwnStep, Acquire, RequestStep
<1>2. ASSUME NEW p \in Procs, Unlock(p) PROVE BarrierIsHeld'
  BY <1>2 DEF Unlock
<1>3. CASE Restart
  BY <1>3 DEF Restart
<1>4. CASE UNCHANGED <<pc, job, db, uuids, index, locks, barrier>>
  BY <1>4
<1>. QED BY <1>1, <1>2, <1>3, <1>4, OtherSteps

\* The program starts with every request idle and every lock free.
LEMMA InitShape == Init => Shape
<1>. SUFFICES ASSUME Init PROVE Shape
  OBVIOUS
<1>1. TypeOK
  BY CatalogAssumption DEF Init, TypeOK, EmptyTargets, EmptyAliases, EmptySnapshot, NoJob, Job, Steps
<1>2. JobShape
  BY IdleWellFormed DEF Init, JobShape
<1>3. BarrierIsHeld
  BY CatalogAssumption DEF Init, BarrierIsHeld, ReaderSteps, LoadSteps, WriterSteps
<1>. QED BY <1>1, <1>2, <1>3 DEF Shape

\* The first layer of the invariant.
LEMMA ShapeHolds == Spec => []Shape
<1>1. Shape /\ [Next]_vars => Shape'
  BY TypeStep, JobStep, BarrierStep DEF Shape
<1>. QED BY <1>1, InitShape, PTL DEF Spec

(***************************************************************************)
(* Requests, rebuilds, faults and restarts keep every variable in its      *)
(* type; in particular the index never holds a target without a storage    *)
(* key, whichever part of it a change meets.                               *)
(***************************************************************************)
THEOREM CatalogTypes == Spec => []TypeOK
<1>1. Shape => TypeOK
  BY DEF Shape
<1>. QED BY <1>1, ShapeHolds, PTL

-----------------------------------------------------------------------------
(* Alias ids.                                                              *)

\* The steps that draw an alias id or change the table image_aliases.
AliasStep(p) == \/ StartCreateAlias(p) \/ StartDeleteAlias(p) \/ StoreImport(p)
                \/ InsertImport(p) \/ InsertAlias(p) \/ DeleteAlias(p) \/ DeleteImage(p)

\* Any other step leaves the table and the ids in use alone.
LEMMA AliasIdsKept ==
    ASSUME Shape, NEW p \in Procs, OwnStep(p), ~AliasStep(p)
    PROVE  /\ aliasRow' = aliasRow /\ usedAlias' = usedAlias
           /\ PendingAlias(pc'[p], job'[p]) =>
                  PendingAlias(pc[p], job[p]) /\ job'[p].aliasID = job[p].aliasID
           /\ job'[p].op = "deleteAlias" =>
                  /\ job[p].op = "deleteAlias"
                  /\ job'[p].aliasID = job[p].aliasID
                  /\ job'[p].path = job[p].path
<1>1. /\ WellFormed(pc[p], job[p]) /\ job[p] \in Job
      /\ pc \in [Procs -> Steps] /\ job \in [Procs -> Job]
  BY DEF Shape, JobShape, TypeOK
<1>2. aliasRow' = aliasRow /\ usedAlias' = usedAlias
  <2>1. CASE Start(p)
    BY <2>1 DEF AliasStep, Start, StartUpload, StartImport, StartVisibility, StartDelete,
                StartConvert, StartRebuild, db, uuids
  <2>2. CASE RequestStep(p)
    BY <2>2 DEF AliasStep, RequestStep, RejectImport, CommitThumbnailFails, ReadForConversion,
                StoreConversion, AbandonConversion, RLock, RLockParks, RUnlock, UnlockPath,
                RemoveFile, UnlockImage, DatabaseStep, InsertImage, UpdateVisibility,
                UpdateContent, Fail, IndexStep, IndexAdd, IndexUpdateVisibility,
                IndexRemoveImage, IndexAddAlias, IndexRemoveAlias, db, uuids
  <2>3. CASE Acquire(p) \/ Drain(p) \/ LoadTargets(p) \/ LoadAliases(p) \/ LoadFails(p) \/ ReplaceAll(p)
    BY <2>3 DEF Acquire, LockImage, LockPath, Lock, Drain, LoadTargets, LoadAliases, LoadFails,
                ReplaceAll, db, uuids
  <2>. QED BY <2>1, <2>2, <2>3 DEF OwnStep
<1>. USE <1>1, CatalogAssumption DEF PendingAlias, AllRequests
<1>3. CASE Start(p)
  <2>1. CASE StartUpload(p)
    BY <1>2, <2>1 DEF StartUpload, Begin, NoJob
  <2>2. CASE StartImport(p)
    BY <1>2, <2>2 DEF StartImport, Begin, NoJob
  <2>3. CASE StartVisibility(p)
    BY <1>2, <2>3 DEF StartVisibility, Begin, NoJob
  <2>4. CASE StartDelete(p)
    BY <1>2, <2>4 DEF StartDelete, Begin, NoJob
  <2>5. CASE StartConvert(p)
    BY <1>2, <2>5 DEF StartConvert, Begin, NoJob
  <2>6. CASE StartRebuild(p)
    BY <1>2, <2>6 DEF StartRebuild, Begin, NoJob
  <2>. QED BY <1>3, <2>1, <2>2, <2>3, <2>4, <2>5, <2>6 DEF Start, AliasStep
<1>4. CASE Acquire(p)
  BY <1>2, <1>4 DEF Acquire, LockImage, LockPath, Lock
<1>5. CASE RejectImport(p) \/ CommitThumbnailFails(p) \/ ReadForConversion(p)
           \/ StoreConversion(p) \/ AbandonConversion(p)
  <2>1. CASE RejectImport(p)
    BY <1>2, <2>1 DEF RejectImport, NoJob
  <2>2. CASE CommitThumbnailFails(p)
    BY <1>2, <2>2 DEF CommitThumbnailFails, Job
  <2>3. CASE ReadForConversion(p)
    BY <1>2, <2>3 DEF ReadForConversion, Job, WellFormed
  <2>4. CASE StoreConversion(p) \/ AbandonConversion(p)
    BY <1>2, <2>4 DEF StoreConversion, AbandonConversion, Job, WellFormed
  <2>. QED BY <1>5, <2>1, <2>2, <2>3, <2>4
<1>6. CASE InsertImage(p) \/ UpdateVisibility(p) \/ UpdateContent(p) \/ Fail(p)
  BY <1>2, <1>6 DEF InsertImage, UpdateVisibility, UpdateContent, Fail, Committed, Job
<1>7. CASE IndexStep(p)
  BY <1>2, <1>7 DEF IndexStep, IndexAdd, IndexUpdateVisibility, IndexRemoveImage, IndexAddAlias,
                    IndexRemoveAlias, Published
<1>8. CASE RLock(p) \/ RLockParks(p) \/ RUnlock(p)
  BY <1>2, <1>8 DEF RLock, RLockParks, RUnlock, AfterChange
<1>9. CASE UnlockPath(p) \/ RemoveFile(p) \/ UnlockImage(p)
  BY <1>2, <1>9 DEF UnlockPath, RemoveFile, UnlockImage, Return, NoJob
<1>10. CASE Drain(p) \/ LoadTargets(p) \/ LoadAliases(p) \/ LoadFails(p) \/ ReplaceAll(p)
  BY <1>2, <1>10 DEF Drain, LoadTargets, LoadAliases, LoadFails, ReplaceAll
<1>. QED
  BY <1>3, <1>4, <1>5, <1>6, <1>7, <1>8, <1>9, <1>10
     DEF OwnStep, RequestStep, DatabaseStep, AliasStep

\* Every step keeps each alias id with one owner.
LEMMA AliasIdsStep == Shape /\ AliasIdsAreUnique /\ [Next]_vars => AliasIdsAreUnique'
<1>. SUFFICES ASSUME Shape, AliasIdsAreUnique, [Next]_vars PROVE AliasIdsAreUnique'
  OBVIOUS
<1>0. /\ pc \in [Procs -> Steps] /\ job \in [Procs -> Job]
      /\ aliasRow \in [Paths -> AliasRow \cup {None}]
      /\ \A p \in Procs : WellFormed(pc[p], job[p])
  BY DEF Shape, TypeOK, JobShape
<1>1. ASSUME NEW p \in Procs, OwnStep(p) PROVE AliasIdsAreUnique'
  <2>0. \A q \in Procs \ {p} : pc'[q] = pc[q] /\ job'[q] = job[q]
    BY <1>0, <1>1, OthersKeep
  <2>. USE <1>0, <2>0, CatalogAssumption DEF AliasIdsAreUnique, OwnsAliasID
  <2>1. CASE ~AliasStep(p)
    BY <1>1, <2>1, AliasIdsKept
  <2>2. CASE StartCreateAlias(p)
    BY <2>2 DEF StartCreateAlias, Begin, NoJob, db, PendingAlias
  <2>3. CASE StoreImport(p)
    BY <2>3 DEF StoreImport, db, PendingAlias, Job, WellFormed
  <2>4. CASE StartDeleteAlias(p)
    BY <2>4 DEF StartDeleteAlias, Begin, NoJob, db, uuids, PendingAlias
  <2>5. CASE InsertImport(p) \/ InsertAlias(p)
    <3>1. /\ pc[p] = "db" /\ job[p].op \in {"import", "createAlias"}
          /\ job[p].path \in Paths
      BY <2>5 DEF InsertImport, InsertAlias, WellFormed, PathOps
    <3>2. /\ aliasRow' = [aliasRow EXCEPT ![job[p].path] =
                              [id |-> job[p].aliasID, image |-> job[p].image]]
          /\ usedAlias' = usedAlias
      BY <2>5 DEF InsertImport, InsertAlias, uuids
    <3>3. pc'[p] = "index" /\ job'[p].op = job[p].op
      BY <2>5 DEF InsertImport, InsertAlias, Committed, Job
    <3>4. ~OwnsAliasID(pc'[p], job'[p]) /\ PendingAlias(pc[p], job[p])
      BY <3>1, <3>3 DEF PendingAlias
    <3>. QED BY <3>1, <3>2, <3>4
  <2>6. CASE DeleteAlias(p)
    BY <2>6 DEF DeleteAlias, uuids, PendingAlias, Job
  <2>7. CASE DeleteImage(p)
    BY <2>7 DEF DeleteImage, Committed, uuids, PendingAlias, Job
  <2>. QED BY <2>1, <2>2, <2>3, <2>4, <2>5, <2>6, <2>7 DEF AliasStep
<1>2. ASSUME NEW p \in Procs, Unlock(p) PROVE AliasIdsAreUnique'
  <2>1. /\ aliasRow' = aliasRow /\ usedAlias' = usedAlias
        /\ \A q \in Procs : /\ PendingAlias(pc'[q], job'[q]) => PendingAlias(pc[q], job[q])
                            /\ job'[q] = job[q] \/ job'[q].op = None
    BY <1>0, <1>2, CatalogAssumption
       DEF Unlock, Shape, TypeOK, BarrierIsHeld, PendingAlias, NoJob, AllRequests, db, uuids
  <2>. QED BY <2>1, CatalogAssumption DEF AliasIdsAreUnique, OwnsAliasID, PendingAlias, AllRequests
<1>3. CASE Restart
  BY <1>3, CatalogAssumption
     DEF Restart, AliasIdsAreUnique, OwnsAliasID, PendingAlias, NoJob, AllRequests, db, uuids
<1>4. CASE UNCHANGED <<pc, job, db, uuids, index, locks, barrier>>
  BY <1>4 DEF AliasIdsAreUnique, db, uuids
<1>. QED BY <1>1, <1>2, <1>3, <1>4, OtherSteps

-----------------------------------------------------------------------------
(* Who holds which lock, and the absence of deadlock.                      *)

\* A request starts before its first lock.
LEMMA StartEnters ==
    ASSUME NEW p \in Procs, pc \in [Procs -> Steps], job \in [Procs -> Job], Start(p)
    PROVE  /\ UNCHANGED locks
           /\ pc[p] = "idle"
           /\ \/ pc'[p] \in {"process", "lockImage", "lock"}
              \/ pc'[p] = "lockPath" /\ job'[p].op = "deleteAlias"
<1>1. CASE StartDeleteAlias(p)
  <2>1. PICK q \in Paths : Begin(p, "lockPath", [NoJob EXCEPT !.op = "deleteAlias", !.path = q,
                                                !.aliasID = aliasRow[q].id])
    BY <1>1 DEF StartDeleteAlias
  <2>2. pc[p] = "idle" /\ pc'[p] = "lockPath"
    BY <2>1 DEF Begin
  <2>3. job'[p].op = "deleteAlias"
    BY <2>1 DEF Begin, NoJob
  <2>4. UNCHANGED locks
    BY <1>1 DEF StartDeleteAlias
  <2>. QED BY <2>2, <2>3, <2>4
<1>2. CASE StartUpload(p)
  BY <1>2 DEF StartUpload, Begin
<1>3. CASE StartImport(p)
  BY <1>3 DEF StartImport, Begin
<1>4. CASE StartVisibility(p) \/ StartDelete(p) \/ StartConvert(p)
  BY <1>4 DEF StartVisibility, StartDelete, StartConvert, Begin
<1>5. CASE StartCreateAlias(p)
  BY <1>5 DEF StartCreateAlias, Begin
<1>6. CASE StartRebuild(p)
  BY <1>6 DEF StartRebuild, Begin
<1>. QED BY <1>1, <1>2, <1>3, <1>4, <1>5, <1>6 DEF Start

\* Every step keeps the locks with the requests between lock and unlock.
LEMMA LocksStep ==
    Shape /\ AliasIdsAreUnique /\ LocksAreHeld /\ [Next]_vars => LocksAreHeld'
<1>. SUFFICES ASSUME Shape, AliasIdsAreUnique, LocksAreHeld, [Next]_vars PROVE LocksAreHeld'
  OBVIOUS
<1>0. /\ pc \in [Procs -> Steps] /\ job \in [Procs -> Job]
      /\ imageLock \in [Images -> Procs \cup {None}]
      /\ pathLock \in [Paths -> Procs \cup {None}]
      /\ \A p \in Procs : WellFormed(pc[p], job[p])
  BY DEF Shape, TypeOK, JobShape
<1>1. ASSUME NEW p \in Procs, OwnStep(p) PROVE LocksAreHeld'
  <2>0. /\ \A q \in Procs \ {p} : pc'[q] = pc[q] /\ job'[q] = job[q]
        /\ WellFormed(pc'[p], job'[p])
    BY <1>0, <1>1, OthersKeep, OwnWellFormed
  <2>. USE <1>0, <2>0, CatalogAssumption
       DEF LocksAreHeld, HoldsImage, HoldsPath, ImageSteps, PathSteps, ImageOps, PathOps,
           AllRequests, Job, WellFormed, locks
  <2>1. CASE Start(p)
    BY <2>1, StartEnters
  <2>2. CASE LockImage(p)
    BY <2>2 DEF LockImage, ImageFree, TakesPath
  <2>3. CASE LockPath(p)
    BY <2>3 DEF LockPath, PathFree
  <2>4. CASE Lock(p)
    BY <2>4 DEF Lock
  <2>5. CASE StoreImport(p)
    BY <2>5 DEF StoreImport
  <2>6. CASE RejectImport(p)
    BY <2>6 DEF RejectImport, NoJob
  <2>7. CASE CommitThumbnailFails(p)
    BY <2>7 DEF CommitThumbnailFails
  <2>8. CASE ReadForConversion(p)
    BY <2>8 DEF ReadForConversion
  <2>9. CASE StoreConversion(p) \/ AbandonConversion(p)
    BY <2>9 DEF StoreConversion, AbandonConversion
  <2>10. CASE InsertImage(p) \/ InsertImport(p) \/ UpdateVisibility(p) \/ DeleteImage(p)
              \/ UpdateContent(p) \/ InsertAlias(p)
    <3>1. /\ UNCHANGED locks
          /\ pc[p] = "db" /\ pc'[p] = "index" /\ job'[p].op = job[p].op
          /\ job'[p].image = job[p].image /\ job'[p].path = job[p].path
      BY <2>10 DEF InsertImage, InsertImport, UpdateVisibility, DeleteImage, UpdateContent,
                   InsertAlias, Committed
    <3>. QED BY <3>1
  <2>11. CASE DeleteAlias(p)
    \* The id of the alias is at the path the request has locked, or nowhere.
    <3>1. job'[p].path = job[p].path /\ job'[p].op = job[p].op /\ job'[p].image = job[p].image
      BY <2>11 DEF DeleteAlias, AliasIdsAreUnique
    <3>. QED BY <2>11, <3>1 DEF DeleteAlias
  <2>12. CASE Fail(p)
    BY <2>12 DEF Fail
  <2>13. CASE IndexStep(p)
    BY <2>13 DEF IndexStep, IndexAdd, IndexUpdateVisibility, IndexRemoveImage, IndexAddAlias,
                 IndexRemoveAlias, Published
  <2>14. CASE RLock(p) \/ RLockParks(p)
    BY <2>14 DEF RLock, RLockParks
  <2>15. CASE RUnlock(p)
    BY <2>15 DEF RUnlock, AfterChange, TakesPath
  <2>16. CASE UnlockPath(p)
    <3>1. /\ pc[p] = "unlockPath" /\ pathLock' = PathsFreed(p) /\ imageLock' = imageLock
          /\ job[p].op = "deleteAlias" => pc'[p] = "idle" /\ job'[p] = NoJob
          /\ job[p].op # "deleteAlias" => pc'[p] = "unlockImage" /\ job' = job
      BY <2>16 DEF UnlockPath, Return
    <3>2. CASE job[p].op = "deleteAlias"
      BY <3>1, <3>2 DEF PathsFreed, NoJob
    <3>3. CASE job[p].op # "deleteAlias"
      BY <3>1, <3>3 DEF PathsFreed
    <3>. QED BY <3>2, <3>3
  <2>17. CASE RemoveFile(p)
    BY <2>17 DEF RemoveFile, Return, NoJob
  <2>18. CASE UnlockImage(p)
    BY <2>18 DEF UnlockImage, ImagesFreed, Return, NoJob
  <2>19. CASE Drain(p) \/ LoadTargets(p) \/ LoadAliases(p) \/ LoadFails(p) \/ ReplaceAll(p)
    BY <2>19 DEF Drain, LoadTargets, LoadAliases, LoadFails, ReplaceAll
  <2>. QED
    BY <1>1, <2>1, <2>2, <2>3, <2>4, <2>5, <2>6, <2>7, <2>8, <2>9, <2>10, <2>11, <2>12, <2>13,
       <2>14, <2>15, <2>16, <2>17, <2>18, <2>19
       DEF OwnStep, Acquire, RequestStep, DatabaseStep
<1>2. ASSUME NEW p \in Procs, Unlock(p) PROVE LocksAreHeld'
  <2>1. UNCHANGED locks /\ pc[p] = "unlock" /\ job[p].op = "rebuild"
    BY <1>0, <1>2 DEF Unlock, WellFormed, WriterSteps, LoadSteps
  <2>2. pc'[p] = "idle" /\ job'[p] = NoJob
    BY <1>0, <1>2 DEF Unlock
  <2>3. \A q \in Procs \ {p} : /\ job'[q] = job[q]
                               /\ pc'[q] = pc[q] \/ (pc[q] = "blocked" /\ pc'[q] = "db")
    BY <1>0, <1>2 DEF Unlock, Shape, BarrierIsHeld
  <2>. QED
    BY <1>0, <2>1, <2>2, <2>3, CatalogAssumption
       DEF LocksAreHeld, HoldsImage, HoldsPath, ImageSteps, PathSteps, ImageOps, PathOps,
           AllRequests, NoJob, locks
<1>3. CASE Restart
  BY <1>3, CatalogAssumption
     DEF Restart, LocksAreHeld, HoldsImage, HoldsPath, ImageOps, PathOps, NoJob, AllRequests
<1>4. CASE UNCHANGED <<pc, job, db, uuids, index, locks, barrier>>
  BY <1>4 DEF LocksAreHeld, locks
<1>. QED BY <1>1, <1>2, <1>3, <1>4, OtherSteps

LockInv == Shape /\ AliasIdsAreUnique /\ LocksAreHeld

\* The first three layers hold in every reachable state.
LEMMA LockInvHolds == Spec => []LockInv
<1>1. Init => LockInv
  <2>1. Init => AliasIdsAreUnique
    BY CatalogAssumption DEF Init, AliasIdsAreUnique, OwnsAliasID, PendingAlias, NoJob,
                             EmptyAliases, AllRequests
  <2>2. Init => LocksAreHeld
    BY CatalogAssumption DEF Init, LocksAreHeld, HoldsImage, HoldsPath, ImageOps, PathOps,
                             NoJob, AllRequests
  <2>. QED BY <2>1, <2>2, InitShape DEF LockInv
<1>2. LockInv /\ [Next]_vars => LockInv'
  BY TypeStep, JobStep, BarrierStep, AliasIdsStep, LocksStep DEF LockInv, Shape
<1>. QED BY <1>1, <1>2, PTL DEF Spec

(***************************************************************************)
(* However many requests and rebuilds there are, they never all wait for   *)
(* each other: whoever waits for an image lock, a path lock or the rebuild *)
(* barrier waits, through at most three more goroutines, for one that can  *)
(* go on.                                                                  *)
(***************************************************************************)
THEOREM CatalogNoDeadlock == Spec => []NoDeadlock
<1>1. ASSUME LockInv PROVE NoDeadlock
  <2>. DEFINE Moves == \E p \in Procs : pc[p] # "idle" /\ ~Waits(p)
  <2>0. /\ \A p \in Procs : WellFormed(pc[p], job[p])
        /\ imageLock \in [Images -> Procs \cup {None}]
        /\ pathLock \in [Paths -> Procs \cup {None}]
        /\ readers \in SUBSET Procs /\ writer \in Procs \cup {None}
        /\ BarrierIsHeld /\ LocksAreHeld
    BY <1>1 DEF LockInv, Shape, JobShape, TypeOK
  <2>1. ASSUME NEW p \in Procs, p \in readers PROVE Moves
    BY <2>0, <2>1 DEF BarrierIsHeld, ReaderSteps, Waits
  <2>2. ASSUME writer # None PROVE Moves
    <3>1. writer \in Procs /\ pc[writer] \in WriterSteps
      BY <2>0, <2>2 DEF BarrierIsHeld
    <3>2. CASE readers = {}
      BY <3>1, <3>2 DEF WriterSteps, LoadSteps, Waits
    <3>3. CASE readers # {}
      BY <2>0, <2>1, <3>3
    <3>. QED BY <3>2, <3>3
  <2>3. ASSUME NEW p \in Procs, HoldsPath(pc[p], job[p]) PROVE Moves
    <3>1. CASE pc[p] = "blocked"
      BY <2>0, <2>2, <3>1 DEF BarrierIsHeld
    <3>2. CASE pc[p] # "blocked"
      BY <2>3, <3>2 DEF HoldsPath, PathSteps, Waits
    <3>. QED BY <3>1, <3>2
  <2>4. ASSUME NEW p \in Procs, pc[p] = "lockPath" PROVE Moves
    <3>1. job[p].path \in Paths
      BY <2>0, <2>4 DEF WellFormed
    <3>2. CASE pathLock[job[p].path] = None
      BY <2>4, <3>2 DEF Waits
    <3>3. CASE pathLock[job[p].path] # None
      BY <2>0, <2>3, <3>1, <3>3 DEF LocksAreHeld
    <3>. QED BY <3>2, <3>3
  <2>5. ASSUME NEW p \in Procs, HoldsImage(pc[p], job[p]) PROVE Moves
    <3>1. CASE pc[p] = "blocked"
      BY <2>0, <2>2, <3>1 DEF BarrierIsHeld
    <3>2. CASE pc[p] = "lockPath"
      BY <2>4, <3>2
    <3>3. CASE pc[p] \notin {"blocked", "lockPath"}
      BY <2>5, <3>3 DEF HoldsImage, ImageSteps, Waits
    <3>. QED BY <3>1, <3>2, <3>3
  <2>6. ASSUME NEW p \in Procs, pc[p] # "idle" PROVE Moves
    <3>1. CASE ~Waits(p)
      BY <2>6, <3>1
    <3>2. CASE pc[p] = "lockImage" /\ imageLock[job[p].image] # None
      <4>1. job[p].image \in Images
        BY <2>0, <3>2 DEF WellFormed, ImageOps
      <4>. QED BY <2>0, <2>5, <3>2, <4>1 DEF LocksAreHeld
    <3>3. CASE pc[p] = "lockPath"
      BY <2>4, <3>3
    <3>4. CASE pc[p] = "blocked"
      BY <2>0, <2>2, <3>4 DEF BarrierIsHeld
    <3>5. CASE pc[p] = "lock" /\ writer # None
      BY <2>2, <3>5
    <3>6. CASE pc[p] = "drain" /\ readers # {}
      BY <2>0, <2>1, <3>6
    <3>. QED BY <3>1, <3>2, <3>3, <3>4, <3>5, <3>6 DEF Waits
  <2>. QED BY <2>6 DEF NoDeadlock
<1>. QED BY <1>1, LockInvHolds, PTL

-----------------------------------------------------------------------------
(* The index and the table images.                                         *)

\* An upload or an import whose row is still to be inserted.
PendingImage(s, j) == j.op \in Creates /\ s \in {"lockImage", "lockPath", "rlock", "blocked", "db"}

\* What a request at step s with locals j relies on: the image it creates is
\* unknown to everybody else; the row a conversion has read stays as it was;
\* and what a request has written to the database is still there when it
\* brings it to the index.
Relies(s, j) ==
    /\ PendingImage(s, j) =>
           j.image \in used /\ rows[j.image] = None /\ byID[j.image] = None
    /\ (j.op = "convert" /\ s \in {"transform", "rlock", "blocked", "db"}) =>
           /\ rows[j.image] # None
           /\ rows[j.image].vis = j.vis /\ rows[j.image].key = j.drop
    /\ (j.op \in Creates /\ s = "index") =>
           /\ rows[j.image] = [key |-> j.key, vis |-> j.vis]
           /\ byID[j.image] = None
    /\ (j.op = "convert" /\ s = "index") =>
           /\ rows[j.image] = [key |-> j.key, vis |-> j.vis]
           /\ byID[j.image] # None => byID[j.image].vis = j.vis
    /\ (j.op = "visibility" /\ s = "index") =>
           /\ rows[j.image] # None /\ rows[j.image].vis = j.vis
           /\ byID[j.image] # None => byID[j.image].key = rows[j.image].key
    /\ (j.op = "delete" /\ s = "index") => rows[j.image] = None

RequestsRely == \A p \in Procs : Relies(pc[p], job[p])

\* A drawn image id is in use, by one request at a time.
ImagesAreFresh ==
    /\ \A i \in Images : (rows[i] # None \/ byID[i] # None) => i \in used
    /\ \A p, r \in Procs :
           (p # r /\ PendingImage(pc[p], job[p]) /\ PendingImage(pc[r], job[r]))
               => job[p].image # job[r].image

\* Behind the barrier the rows a rebuild has read do not change.
SnapshotIsCurrent ==
    \A p \in Procs : pc[p] \in {"loadAliases", "replace"} =>
        \A i \in Images : snapshot.targets[i] # None => snapshot.targets[i] = rows[i]

TargetInv == RequestsRely /\ ImagesAreFresh /\ SnapshotIsCurrent /\ NoStaleTarget

\* The steps that draw an image id, read a row to rely on it, or change the
\* table, the index or the snapshot of targets.
TargetStep(p) ==
    \/ StartUpload(p) \/ StoreImport(p) \/ ReadForConversion(p) \/ InsertImage(p)
    \/ InsertImport(p) \/ UpdateVisibility(p) \/ DeleteImage(p) \/ UpdateContent(p)
    \/ IndexAdd(p) \/ IndexUpdateVisibility(p) \/ IndexRemoveImage(p)
    \/ LoadTargets(p) \/ ReplaceAll(p)

\* A request on its way from the table images to the index.
Publishes(s, j) == /\ s = "index"
                   /\ j.op \in {"upload", "import", "visibility", "delete", "convert"}

\* Two requests that hold an image lock work on two images.
LEMMA HoldersDiffer ==
    ASSUME LocksAreHeld, NEW p \in Procs, NEW q \in Procs, p # q,
           HoldsImage(pc[p], job[p]), HoldsImage(pc[q], job[q])
    PROVE  job[p].image # job[q].image
  BY DEF LocksAreHeld

\* Who relies on something has an image.
LEMMA RelyingHasImage ==
    ASSUME NEW s, NEW j, WellFormed(s, j),
           PendingImage(s, j) \/ HoldsImage(s, j)
    PROVE  j.image \in Images
  BY DEF WellFormed, PendingImage, HoldsImage, ImageOps, ImageSteps, Creates

\* A request relies on nothing but its image.
LEMMA RelyFrame ==
    ASSUME NEW q \in Procs, Relies(pc[q], job[q]), pc'[q] = pc[q], job'[q] = job[q],
           used \subseteq used',
           (PendingImage(pc[q], job[q]) \/ HoldsImage(pc[q], job[q])) =>
               /\ rows'[job[q].image] = rows[job[q].image]
               /\ byID'[job[q].image] = byID[job[q].image]
    PROVE  Relies(pc[q], job[q])'
<1>1. CASE PendingImage(pc[q], job[q]) \/ HoldsImage(pc[q], job[q])
  BY <1>1 DEF Relies, PendingImage
<1>2. CASE ~(PendingImage(pc[q], job[q]) \/ HoldsImage(pc[q], job[q]))
  BY <1>2 DEF Relies, PendingImage, HoldsImage, ImageOps, ImageSteps, Creates
<1>. QED BY <1>1, <1>2

\* A step inside the barrier that changes at most the row and the target of the
\* image it has locked keeps the invariant if it does so for its own image.
LEMMA ImageWrite ==
    ASSUME LockInv, TargetInv, NEW p \in Procs, OwnStep(p),
           HoldsImage(pc[p], job[p]), pc[p] \in ReaderSteps, pc'[p] \in ReaderSteps,
           job'[p].image = job[p].image, used' = used,
           \A k \in Images \ {job[p].image} : rows'[k] = rows[k] /\ byID'[k] = byID[k],
           \/ rows[job[p].image] # None
           \/ PendingImage(pc[p], job[p])
           \/ rows'[job[p].image] = None /\ byID'[job[p].image] = None,
           (rows'[job[p].image] # None \/ byID'[job[p].image] # None) => job[p].image \in used,
           ~PendingImage(pc'[p], job'[p]),
           Relies(pc[p], job[p])',
           byID'[job[p].image] # None =>
               byID'[job[p].image] = rows'[job[p].image] \/ Publishes(pc'[p], job'[p])
    PROVE  TargetInv'
<1>. DEFINE i == job[p].image
<1>0. /\ pc \in [Procs -> Steps] /\ job \in [Procs -> Job]
      /\ \A q \in Procs : WellFormed(pc[q], job[q])
      /\ BarrierIsHeld /\ LocksAreHeld
  BY DEF LockInv, Shape, TypeOK, JobShape
<1>1. \A q \in Procs \ {p} : pc'[q] = pc[q] /\ job'[q] = job[q]
  BY <1>0, OthersKeep
<1>2. ASSUME NEW q \in Procs \ {p} PROVE Relies(pc[q], job[q])'
  <2>1. Relies(pc[q], job[q])
    BY DEF TargetInv, RequestsRely
  <2>2. CASE HoldsImage(pc[q], job[q])
    <3>1. job[q].image \in Images \ {i}
      BY <1>0, <2>2, HoldersDiffer, RelyingHasImage
    <3>. QED BY <1>1, <2>1, <3>1, RelyFrame
  <2>3. CASE PendingImage(pc[q], job[q]) /\ job[q].image # i
    <3>1. job[q].image \in Images \ {i}
      BY <1>0, <2>3, RelyingHasImage
    <3>. QED BY <1>1, <2>1, <3>1, RelyFrame
  <2>4. CASE PendingImage(pc[q], job[q]) /\ job[q].image = i
    <3>1. rows[i] = None
      BY <2>1, <2>4 DEF Relies
    <3>2. ~PendingImage(pc[p], job[p])
      BY <2>4 DEF TargetInv, ImagesAreFresh
    <3>3. rows'[i] = rows[i] /\ byID'[i] = byID[i]
      BY <2>1, <2>4, <3>1, <3>2 DEF Relies
    <3>. QED BY <1>1, <2>1, <2>4, <3>3, RelyFrame
  <2>5. CASE ~PendingImage(pc[q], job[q]) /\ ~HoldsImage(pc[q], job[q])
    BY <1>1, <2>1, <2>5, RelyFrame
  <2>. QED BY <2>2, <2>3, <2>4, <2>5
<1>3. RequestsRely'
  BY <1>2 DEF RequestsRely
<1>4. ImagesAreFresh'
  <2>1. \A q \in Procs : PendingImage(pc'[q], job'[q]) =>
            PendingImage(pc[q], job[q]) /\ job'[q].image = job[q].image
    BY <1>1
  <2>2. \A k \in Images : (rows'[k] # None \/ byID'[k] # None) => k \in used'
    BY DEF TargetInv, ImagesAreFresh
  <2>. QED BY <2>1, <2>2 DEF TargetInv, ImagesAreFresh
<1>5. SnapshotIsCurrent'
  <2>1. \A q \in Procs : pc'[q] \notin {"loadAliases", "replace"}
    BY <1>0, <1>1 DEF BarrierIsHeld, LoadSteps, ReaderSteps
  <2>. QED BY <2>1 DEF SnapshotIsCurrent
<1>6. NoStaleTarget'
  <2>1. ASSUME NEW k \in Images, byID'[k] # None
        PROVE  byID'[k] = rows'[k] \/ \E q \in Procs : Publishing(q, k)'
    <3>1. CASE k = i
      BY <2>1, <3>1 DEF Publishing, Publishes
    <3>2. CASE k # i
      <4>1. byID[k] = rows[k] \/ \E q \in Procs : Publishing(q, k)
        BY <2>1, <3>2 DEF TargetInv, NoStaleTarget
      <4>2. \A q \in Procs : Publishing(q, k) => Publishing(q, k)'
        BY <1>1, <3>2 DEF Publishing
      <4>. QED BY <3>2, <4>1, <4>2
    <3>. QED BY <3>1, <3>2
  <2>. QED BY <2>1 DEF NoStaleTarget
<1>. QED BY <1>3, <1>4, <1>5, <1>6 DEF TargetInv

\* Any other step leaves the targets alone and relies on nothing new.
LEMMA TargetsKept ==
    ASSUME Shape, NEW p \in Procs, OwnStep(p), ~TargetStep(p), Relies(pc[p], job[p])
    PROVE  /\ rows' = rows /\ byID' = byID /\ used \subseteq used'
           /\ Relies(pc'[p], job'[p])
           /\ PendingImage(pc'[p], job'[p]) =>
                  PendingImage(pc[p], job[p]) /\ job'[p].image = job[p].image
           /\ pc'[p] \in {"loadAliases", "replace"} => pc[p] \in {"loadAliases", "replace"}
           /\ \/ snapshot' = snapshot
              \/ pc[p] \in LoadSteps /\ pc'[p] = "unlock"
              \/ pc[p] \in LoadSteps /\ snapshot'.targets = snapshot.targets
           /\ \A i \in Images : ~Publishing(p, i)
<1>1. /\ WellFormed(pc[p], job[p]) /\ job[p] \in Job
      /\ pc \in [Procs -> Steps] /\ job \in [Procs -> Job]
      /\ snapshot \in [targets : [Images -> Row \cup {None}],
                       aliases : [Paths -> Images \cup {None}]]
  BY DEF Shape, JobShape, TypeOK
<1>2. rows' = rows /\ byID' = byID /\ used \subseteq used'
  <2>1. CASE Start(p)
    BY <2>1 DEF TargetStep, Start, StartImport, StartVisibility, StartDelete, StartConvert,
                StartCreateAlias, StartDeleteAlias, StartRebuild, db, uuids, index
  <2>2. CASE RequestStep(p)
    BY <2>2 DEF TargetStep, RequestStep, RejectImport, CommitThumbnailFails, StoreConversion,
                AbandonConversion, RLock, RLockParks, RUnlock, UnlockPath, RemoveFile,
                UnlockImage, DatabaseStep, InsertAlias, DeleteAlias, Fail, IndexStep,
                IndexAddAlias, IndexRemoveAlias, db, uuids, index
  <2>3. CASE Acquire(p) \/ Drain(p) \/ LoadAliases(p) \/ LoadFails(p)
    BY <2>3 DEF Acquire, LockImage, LockPath, Lock, Drain, LoadAliases, LoadFails, db, uuids, index
  <2>. QED BY <2>1, <2>2, <2>3 DEF OwnStep, TargetStep
<1>3. CASE Start(p)
  <2>1. /\ pc'[p] \in {"process", "lockImage", "lock", "lockPath"} /\ pc[p] = "idle"
        /\ snapshot' = snapshot
    BY <1>1, <1>3, StartEnters
       DEF Start, StartUpload, StartImport, StartVisibility, StartDelete, StartConvert,
           StartCreateAlias, StartDeleteAlias, StartRebuild, barrier
  <2>2. job'[p].op \notin Creates \/ pc'[p] = "process"
    <3>1. CASE StartImport(p)
      BY <1>1, <3>1 DEF StartImport, Begin
    <3>2. CASE StartVisibility(p)
      BY <1>1, <3>2 DEF StartVisibility, Begin, NoJob, Creates
    <3>3. CASE StartDelete(p)
      BY <1>1, <3>3 DEF StartDelete, Begin, NoJob, Creates
    <3>4. CASE StartConvert(p)
      BY <1>1, <3>4 DEF StartConvert, Begin, NoJob, Creates
    <3>5. CASE StartCreateAlias(p)
      BY <1>1, <3>5 DEF StartCreateAlias, Begin, NoJob, Creates
    <3>6. CASE StartDeleteAlias(p)
      BY <1>1, <3>6 DEF StartDeleteAlias, Begin, NoJob, Creates
    <3>7. CASE StartRebuild(p)
      BY <1>1, <3>7 DEF StartRebuild, Begin, NoJob, Creates
    <3>. QED BY <1>3, <3>1, <3>2, <3>3, <3>4, <3>5, <3>6, <3>7 DEF Start, TargetStep
  <2>. QED BY <1>2, <2>1, <2>2 DEF Relies, PendingImage, Publishing
<1>. USE <1>1, <1>2, CatalogAssumption
     DEF Relies, PendingImage, Publishing, Creates, AllRequests, barrier
<1>4. CASE Acquire(p)
  <2>1. CASE LockImage(p)
    BY <2>1 DEF LockImage, TakesPath
  <2>2. CASE LockPath(p)
    BY <2>2 DEF LockPath, WellFormed, PathOps
  <2>3. CASE Lock(p)
    BY <2>3 DEF Lock
  <2>. QED BY <1>4, <2>1, <2>2, <2>3 DEF Acquire
<1>5. CASE RejectImport(p) \/ CommitThumbnailFails(p)
  BY <1>5 DEF RejectImport, CommitThumbnailFails, NoJob, Job
<1>6. CASE StoreConversion(p) \/ AbandonConversion(p)
  BY <1>6 DEF StoreConversion, AbandonConversion, Job, WellFormed
<1>7. CASE InsertAlias(p) \/ DeleteAlias(p) \/ Fail(p)
  BY <1>7 DEF InsertAlias, DeleteAlias, Fail, Committed, Job
<1>8. CASE IndexAddAlias(p) \/ IndexRemoveAlias(p)
  BY <1>8 DEF IndexAddAlias, IndexRemoveAlias, Published
<1>9. CASE RLock(p) \/ RLockParks(p) \/ RUnlock(p)
  BY <1>9 DEF RLock, RLockParks, RUnlock, AfterChange
<1>10. CASE UnlockPath(p) \/ RemoveFile(p) \/ UnlockImage(p)
  BY <1>10 DEF UnlockPath, RemoveFile, UnlockImage, Return, NoJob
<1>11. CASE Drain(p) \/ LoadAliases(p) \/ LoadFails(p)
  BY <1>11 DEF Drain, LoadAliases, LoadFails, LoadSteps
<1>. QED
  BY <1>3, <1>4, <1>5, <1>6, <1>7, <1>8, <1>9, <1>10, <1>11
     DEF OwnStep, RequestStep, DatabaseStep, IndexStep, TargetStep

\* The steps that write a row or a target.
LEMMA ImageWrites ==
    ASSUME LockInv, TargetInv, NEW p \in Procs,
           \/ InsertImage(p) \/ InsertImport(p) \/ UpdateVisibility(p) \/ DeleteImage(p)
           \/ UpdateContent(p) \/ IndexAdd(p) \/ IndexUpdateVisibility(p) \/ IndexRemoveImage(p)
    PROVE  TargetInv'
<1>. DEFINE i == job[p].image
<1>0. /\ pc \in [Procs -> Steps] /\ job \in [Procs -> Job] /\ job[p] \in Job
      /\ rows \in [Images -> Row \cup {None}] /\ byID \in [Images -> Row \cup {None}]
      /\ WellFormed(pc[p], job[p]) /\ Relies(pc[p], job[p])
      /\ \A k \in Images : (rows[k] # None \/ byID[k] # None) => k \in used
  BY DEF LockInv, Shape, TypeOK, JobShape, TargetInv, RequestsRely, ImagesAreFresh
<1>1. OwnStep(p)
  BY DEF OwnStep, RequestStep, DatabaseStep, IndexStep
<1>2. /\ pc[p] \in {"db", "index"} /\ pc'[p] \in {"index", "indexAlias", "runlock"}
      /\ job[p].op \in ImageOps
      /\ used' = used
  BY <1>0 DEF InsertImage, InsertImport, UpdateVisibility, DeleteImage, UpdateContent, IndexAdd,
              IndexUpdateVisibility, IndexRemoveImage, Committed, Published, ImageOps, uuids
<1>3. /\ HoldsImage(pc[p], job[p]) /\ i \in Images
      /\ pc[p] \in ReaderSteps /\ pc'[p] \in ReaderSteps
      /\ ~PendingImage(pc'[p], job'[p])
  BY <1>0, <1>2, RelyingHasImage DEF HoldsImage, ImageSteps, ReaderSteps, PendingImage
<1>4. ~Publishes(pc[p], job[p]) /\ byID[i] # None => byID[i] = rows[i]
  <2>1. ASSUME NEW r \in Procs \ {p}, Publishing(r, i) PROVE FALSE
    <3>1. HoldsImage(pc[r], job[r])
      BY <2>1 DEF Publishing, HoldsImage, ImageOps, ImageSteps
    <3>. QED BY <1>3, <2>1, <3>1, HoldersDiffer DEF Publishing, LockInv
  <2>. QED BY <1>3, <2>1 DEF TargetInv, NoStaleTarget, Publishing, Publishes
<1>. DEFINE Framed == /\ job'[p].image = i
                      /\ \A k \in Images \ {i} : rows'[k] = rows[k] /\ byID'[k] = byID[k]
            Known  == \/ rows[i] # None
                      \/ PendingImage(pc[p], job[p])
                      \/ rows'[i] = None /\ byID'[i] = None
            Fresh  == (rows'[i] # None \/ byID'[i] # None) => i \in used
            Shown  == byID'[i] # None => byID'[i] = rows'[i] \/ Publishes(pc'[p], job'[p])
<1>5. ASSUME Framed, Known, Fresh, Shown, Relies(pc[p], job[p])' PROVE TargetInv'
  BY <1>1, <1>2, <1>3, <1>5, ImageWrite
<1>. HIDE DEF i
<1>6. i = job[p].image
  BY DEF i
<1>7. CASE InsertImage(p) \/ InsertImport(p)
  <2>1. /\ rows' = [rows EXCEPT ![i] = [key |-> job[p].key, vis |-> job[p].vis]]
        /\ byID' = byID /\ pc[p] = "db" /\ pc'[p] = "index" /\ job[p].op \in Creates
        /\ job'[p] = [job[p] EXCEPT !.drop = Superseded(p)]
    BY <1>0, <1>6, <1>7 DEF InsertImage, InsertImport, Committed, index, Creates
  <2>2. PendingImage(pc[p], job[p])
    BY <2>1 DEF PendingImage
  <2>3. i \in used /\ rows[i] = None /\ byID[i] = None
    BY <1>0, <1>6, <2>2 DEF Relies
  <2>4. /\ job'[p].op = job[p].op /\ job'[p].image = i
        /\ job'[p].key = job[p].key /\ job'[p].vis = job[p].vis
    BY <1>0, <1>6, <2>1 DEF Job
  <2>5. Framed /\ Known /\ Fresh /\ Shown
    BY <1>0, <1>3, <2>1, <2>2, <2>3, <2>4
  <2>6. Relies(pc[p], job[p])'
    BY <1>0, <1>3, <2>1, <2>3, <2>4 DEF Relies, PendingImage, Creates
  <2>. QED BY <1>5, <2>5, <2>6
<1>8. CASE UpdateVisibility(p)
  <2>1. /\ rows' = [rows EXCEPT ![i].vis = job[p].vis] /\ rows[i] # None
        /\ byID' = byID /\ pc[p] = "db" /\ pc'[p] = "index" /\ job[p].op = "visibility"
        /\ job'[p] = [job[p] EXCEPT !.drop = Superseded(p)]
    BY <1>0, <1>6, <1>8 DEF UpdateVisibility, Committed, index
  <2>2. /\ job'[p].op = job[p].op /\ job'[p].image = i /\ job'[p].vis = job[p].vis
    BY <1>0, <1>6, <2>1 DEF Job
  <2>3. rows'[i] # None /\ rows'[i].vis = job[p].vis /\ rows'[i].key = rows[i].key
    <3>1. rows[i] \in Row /\ job[p].vis \in Visibility
      BY <1>0, <1>3, <2>1 DEF WellFormed
    <3>2. rows'[i] = [rows[i] EXCEPT !.vis = job[p].vis]
      BY <1>0, <1>3, <2>1
    <3>3. rows'[i] \in Row
      BY <3>1, <3>2 DEF Row
    <3>. QED BY <3>1, <3>2, <3>3, CatalogAssumption DEF Row
  <2>4. Publishes(pc'[p], job'[p])
    BY <2>1, <2>2 DEF Publishes
  <2>5. Framed /\ Known /\ Fresh /\ Shown
    BY <1>0, <1>3, <2>1, <2>2, <2>4
  <2>6. byID[i] # None => byID[i] = rows[i]
    BY <1>4, <2>1 DEF Publishes
  <2>7. Relies(pc[p], job[p])'
    BY <2>1, <2>2, <2>3, <2>6 DEF Relies, PendingImage, Creates
  <2>. QED BY <1>5, <2>5, <2>7
<1>9. CASE DeleteImage(p)
  <2>1. /\ rows' = [rows EXCEPT ![i] = None] /\ rows[i] # None
        /\ byID' = byID /\ pc[p] = "db" /\ pc'[p] = "index" /\ job[p].op = "delete"
        /\ job'[p] = [job[p] EXCEPT !.drop = Superseded(p)]
    BY <1>0, <1>6, <1>9 DEF DeleteImage, Committed, index
  <2>2. job'[p].op = job[p].op /\ job'[p].image = i
    BY <1>0, <1>6, <2>1 DEF Job
  <2>3. Publishes(pc'[p], job'[p])
    BY <2>1, <2>2 DEF Publishes
  <2>4. Framed /\ Known /\ Fresh /\ Shown
    BY <1>0, <1>3, <2>1, <2>2, <2>3
  <2>5. Relies(pc[p], job[p])'
    BY <1>0, <1>3, <2>1, <2>2 DEF Relies, PendingImage, Creates
  <2>. QED BY <1>5, <2>4, <2>5
<1>10. CASE UpdateContent(p)
  <2>1. /\ rows' = [rows EXCEPT ![i].key = job[p].key] /\ rows[i] # None
        /\ byID' = byID /\ pc[p] = "db" /\ pc'[p] = "index" /\ job[p].op = "convert"
        /\ job'[p] = [job[p] EXCEPT !.drop = Superseded(p)]
    BY <1>0, <1>6, <1>10 DEF UpdateContent, Committed, index
  <2>2. /\ job'[p].op = job[p].op /\ job'[p].image = i
        /\ job'[p].key = job[p].key /\ job'[p].vis = job[p].vis
    BY <1>0, <1>6, <2>1 DEF Job
  <2>3. rows[i].vis = job[p].vis
    BY <1>0, <1>6, <2>1 DEF Relies
  <2>4. rows'[i] = [key |-> job[p].key, vis |-> job[p].vis]
    <3>1. rows[i] \in Row
      BY <1>0, <1>3, <2>1
    <3>2. rows'[i] = [rows[i] EXCEPT !.key = job[p].key]
      BY <1>0, <1>3, <2>1
    <3>. QED BY <2>3, <3>1, <3>2 DEF Row
  <2>5. Publishes(pc'[p], job'[p])
    BY <2>1, <2>2 DEF Publishes
  <2>6. Framed /\ Known /\ Fresh /\ Shown
    BY <1>0, <1>3, <2>1, <2>2, <2>5
  <2>7. byID[i] # None => byID[i] = rows[i]
    BY <1>4, <2>1 DEF Publishes
  <2>8. Relies(pc[p], job[p])'
    BY <2>1, <2>2, <2>3, <2>4, <2>7 DEF Relies, PendingImage, Creates
  <2>. QED BY <1>5, <2>6, <2>8
<1>11. CASE IndexAdd(p)
  <2>1. /\ byID' = [byID EXCEPT ![i] = [key |-> job[p].key, vis |-> job[p].vis]]
        /\ rows' = rows /\ job' = job
        /\ pc[p] = "index" /\ pc'[p] \in {"indexAlias", "runlock"}
        /\ job[p].op \in Creates \cup {"convert"}
    BY <1>0, <1>6, <1>11 DEF IndexAdd, db, Creates
  <2>2. rows[i] = [key |-> job[p].key, vis |-> job[p].vis]
    BY <1>0, <1>6, <2>1 DEF Relies
  <2>3. rows[i] # None
    <3>1. job[p].key \in Keys /\ job[p].vis \in Visibility
      BY <1>0, <1>3, <1>6, <2>1 DEF WellFormed, Creates, Keys
    <3>. QED BY <2>2, <3>1, CatalogAssumption DEF Row
  <2>4. Framed /\ Known /\ Fresh /\ Shown
    BY <1>0, <1>3, <1>6, <2>1, <2>2, <2>3
  <2>5. Relies(pc[p], job[p])'
    BY <2>1 DEF Relies, PendingImage
  <2>. QED BY <1>5, <2>4, <2>5
<1>12. CASE IndexUpdateVisibility(p)
  <2>1. /\ byID' = VisibilityUpdated(i, job[p].vis)
        /\ rows' = rows /\ job' = job
        /\ pc[p] = "index" /\ pc'[p] = "runlock" /\ job[p].op = "visibility"
    BY <1>0, <1>6, <1>12 DEF IndexUpdateVisibility, Published, db
  <2>2. /\ rows[i] # None /\ rows[i].vis = job[p].vis
        /\ byID[i] # None => byID[i].key = rows[i].key
    BY <1>0, <1>6, <2>1 DEF Relies
  <2>3. byID'[i] # None => byID'[i] = rows[i]
    <3>1. CASE byID[i] = None
      BY <2>1, <3>1 DEF VisibilityUpdated
    <3>2. CASE byID[i] # None
      <4>1. byID[i] \in Row /\ rows[i] \in Row
        BY <1>0, <1>3, <2>2, <3>2
      <4>2. byID'[i] = [byID[i] EXCEPT !.vis = job[p].vis]
        BY <1>0, <1>3, <2>1, <3>2 DEF VisibilityUpdated
      <4>. QED BY <2>2, <3>2, <4>1, <4>2 DEF Row
    <3>. QED BY <3>1, <3>2
  <2>4. Framed /\ Known /\ Fresh /\ Shown
    BY <1>0, <1>3, <1>6, <2>1, <2>2, <2>3 DEF VisibilityUpdated
  <2>5. Relies(pc[p], job[p])'
    BY <2>1 DEF Relies, PendingImage
  <2>. QED BY <1>5, <2>4, <2>5
<1>13. CASE IndexRemoveImage(p)
  <2>1. /\ byID' = [byID EXCEPT ![i] = None]
        /\ rows' = rows /\ job' = job
        /\ pc[p] = "index" /\ pc'[p] = "runlock" /\ job[p].op = "delete"
    BY <1>0, <1>6, <1>13 DEF IndexRemoveImage, Published, db
  <2>2. rows[i] = None
    BY <1>0, <1>6, <2>1 DEF Relies
  <2>3. Framed /\ Known /\ Fresh /\ Shown
    BY <1>0, <1>3, <1>6, <2>1, <2>2
  <2>4. Relies(pc[p], job[p])'
    BY <2>1 DEF Relies, PendingImage
  <2>. QED BY <1>5, <2>3, <2>4
<1>. QED BY <1>7, <1>8, <1>9, <1>10, <1>11, <1>12, <1>13

\* A step that leaves rows and targets alone, and what the others do.
LEMMA TargetFrame ==
    ASSUME LockInv, TargetInv, NEW p \in Procs, OwnStep(p),
           rows' = rows, byID' = byID, used \subseteq used', ~Publishes(pc[p], job[p]),
           Relies(pc[p], job[p])',
           PendingImage(pc'[p], job'[p]) =>
               \/ PendingImage(pc[p], job[p]) /\ job'[p].image = job[p].image
               \/ job'[p].image \notin used,
           SnapshotIsCurrent'
    PROVE  TargetInv'
<1>0. /\ pc \in [Procs -> Steps] /\ job \in [Procs -> Job]
      /\ \A q \in Procs : Relies(pc[q], job[q])
      /\ ImagesAreFresh /\ NoStaleTarget
  BY DEF LockInv, Shape, TypeOK, TargetInv, RequestsRely
<1>1. \A q \in Procs \ {p} : pc'[q] = pc[q] /\ job'[q] = job[q]
  BY <1>0, OthersKeep
<1>2. \A q \in Procs \ {p} : Relies(pc[q], job[q])'
  BY <1>0, <1>1, RelyFrame
<1>3. RequestsRely'
  BY <1>2 DEF RequestsRely
<1>4. ImagesAreFresh'
  <2>1. \A q \in Procs : PendingImage(pc[q], job[q]) => job[q].image \in used
    BY <1>0 DEF Relies
  <2>. QED BY <1>0, <1>1, <2>1 DEF ImagesAreFresh
<1>5. NoStaleTarget'
  <2>1. \A q \in Procs, i \in Images : Publishing(q, i) => Publishing(q, i)'
    BY <1>1 DEF Publishing, Publishes
  <2>. QED BY <1>0, <2>1 DEF NoStaleTarget
<1>. QED BY <1>3, <1>4, <1>5 DEF TargetInv

\* Every step keeps the index in line with the table images.
LEMMA TargetInvStep == LockInv /\ TargetInv /\ [Next]_vars => TargetInv'
<1>. SUFFICES ASSUME LockInv, TargetInv, [Next]_vars PROVE TargetInv'
  OBVIOUS
<1>0. /\ TypeOK /\ pc \in [Procs -> Steps] /\ job \in [Procs -> Job]
      /\ rows \in [Images -> Row \cup {None}]
      /\ snapshot \in [targets : [Images -> Row \cup {None}],
                       aliases : [Paths -> Images \cup {None}]]
      /\ \A q \in Procs : WellFormed(pc[q], job[q]) /\ Relies(pc[q], job[q])
      /\ BarrierIsHeld /\ SnapshotIsCurrent
  BY DEF LockInv, Shape, TypeOK, JobShape, TargetInv, RequestsRely
<1>1. ASSUME NEW p \in Procs, OwnStep(p) PROVE TargetInv'
  <2>0. \A q \in Procs \ {p} : pc'[q] = pc[q] /\ job'[q] = job[q]
    BY <1>0, <1>1, OthersKeep
  <2>1. CASE ~TargetStep(p)
    <3>1. /\ rows' = rows /\ byID' = byID /\ used \subseteq used'
          /\ Relies(pc'[p], job'[p])
          /\ PendingImage(pc'[p], job'[p]) =>
                 PendingImage(pc[p], job[p]) /\ job'[p].image = job[p].image
          /\ pc'[p] \in {"loadAliases", "replace"} => pc[p] \in {"loadAliases", "replace"}
          /\ \/ snapshot' = snapshot
             \/ pc[p] \in LoadSteps /\ pc'[p] = "unlock"
             \/ pc[p] \in LoadSteps /\ snapshot'.targets = snapshot.targets
          /\ \A i \in Images : ~Publishing(p, i)
      BY <1>0, <1>1, <2>1, TargetsKept DEF LockInv
    <3>2. Relies(pc[p], job[p])'
      BY <3>1 DEF Relies, PendingImage
    <3>3. ~Publishes(pc[p], job[p])
      BY <1>0, <3>1, RelyingHasImage
         DEF Publishes, Publishing, HoldsImage, ImageOps, ImageSteps
    <3>4. SnapshotIsCurrent'
      <4>1. CASE snapshot'.targets = snapshot.targets
        BY <1>0, <2>0, <3>1, <4>1 DEF SnapshotIsCurrent
      <4>2. CASE pc[p] \in LoadSteps /\ pc'[p] = "unlock"
        BY <1>0, <2>0, <4>2 DEF SnapshotIsCurrent, BarrierIsHeld, LoadSteps, WriterSteps
      <4>. QED BY <3>1, <4>1, <4>2
    <3>. QED BY <1>1, <3>1, <3>2, <3>3, <3>4, TargetFrame
  <2>2. CASE StartUpload(p)
    <3>1. PICK i \in Images \ used, v \in Visibility :
             /\ Begin(p, "lockImage", [NoJob EXCEPT !.op = "upload", !.image = i,
                                                    !.key = i, !.vis = v])
             /\ used' = used \cup {i}
      BY <2>2 DEF StartUpload
    <3>2. /\ pc[p] = "idle" /\ pc'[p] = "lockImage"
          /\ job'[p].op = "upload" /\ job'[p].image = i
      BY <1>0, <3>1 DEF Begin, NoJob
    <3>3. rows' = rows /\ byID' = byID /\ snapshot' = snapshot
      BY <2>2 DEF StartUpload, db, index, barrier
    <3>4. rows[i] = None /\ byID[i] = None
      BY DEF TargetInv, ImagesAreFresh
    <3>5. Relies(pc[p], job[p])'
      BY <3>1, <3>2, <3>3, <3>4 DEF Relies, PendingImage, Creates
    <3>6. SnapshotIsCurrent'
      BY <1>0, <2>0, <3>2, <3>3 DEF SnapshotIsCurrent
    <3>. QED BY <1>1, <3>1, <3>2, <3>3, <3>5, <3>6, TargetFrame DEF Publishes
  <2>3. CASE StoreImport(p)
    <3>1. PICK i \in Images \ used, a \in AliasIDs \ usedAlias :
             /\ job' = [job EXCEPT ![p] = [@ EXCEPT !.image = i, !.key = i, !.aliasID = a]]
             /\ used' = used \cup {i}
      BY <2>3 DEF StoreImport
    <3>2. /\ pc[p] = "process" /\ pc'[p] = "lockImage"
          /\ job'[p].op = job[p].op /\ job'[p].image = i
      BY <1>0, <2>3, <3>1 DEF StoreImport, Job
    <3>3. rows' = rows /\ byID' = byID /\ snapshot' = snapshot /\ job[p].op = "import"
      BY <1>0, <2>3 DEF StoreImport, db, index, barrier, WellFormed
    <3>4. rows[i] = None /\ byID[i] = None
      BY DEF TargetInv, ImagesAreFresh
    <3>5. Relies(pc[p], job[p])'
      BY <3>1, <3>2, <3>3, <3>4 DEF Relies, PendingImage, Creates
    <3>6. SnapshotIsCurrent'
      BY <1>0, <2>0, <3>2, <3>3 DEF SnapshotIsCurrent
    <3>. QED BY <1>1, <3>1, <3>2, <3>3, <3>5, <3>6, TargetFrame DEF Publishes
  <2>4. CASE ReadForConversion(p)
    <3>1. /\ pc[p] = "read" /\ pc'[p] = "transform" /\ rows[job[p].image] # None
          /\ job'[p] = [job[p] EXCEPT !.vis = rows[job[p].image].vis,
                                      !.drop = rows[job[p].image].key]
          /\ rows' = rows /\ byID' = byID /\ used' = used /\ snapshot' = snapshot
      BY <1>0, <2>4 DEF ReadForConversion, db, index, barrier, uuids
    <3>2. /\ job'[p].op = "convert" /\ job'[p].image = job[p].image
          /\ job'[p].vis = rows[job[p].image].vis /\ job'[p].drop = rows[job[p].image].key
      BY <1>0, <3>1 DEF Job, WellFormed
    <3>3. Relies(pc[p], job[p])'
      BY <3>1, <3>2 DEF Relies, PendingImage, Creates
    <3>4. SnapshotIsCurrent'
      BY <1>0, <2>0, <3>1 DEF SnapshotIsCurrent
    <3>. QED BY <1>1, <3>1, <3>2, <3>3, <3>4, TargetFrame DEF Publishes, PendingImage
  <2>5. CASE LoadTargets(p)
    <3>1. /\ pc[p] = "loadTargets" /\ pc'[p] = "loadAliases" /\ job' = job
          /\ snapshot'.targets = BuildTargets
          /\ rows' = rows /\ byID' = byID /\ used' = used
      BY <1>0, <2>5 DEF LoadTargets, db, index, uuids
    <3>2. Relies(pc[p], job[p])'
      BY <1>0, <3>1 DEF Relies, PendingImage
    <3>3. SnapshotIsCurrent'
      BY <3>1, <2>0, <1>0 DEF SnapshotIsCurrent, BuildTargets
    <3>. QED BY <1>1, <3>1, <3>2, <3>3, TargetFrame DEF Publishes, PendingImage
  <2>6. CASE ReplaceAll(p)
    <3>1. /\ pc[p] = "replace" /\ pc'[p] = "unlock" /\ job' = job
          /\ byID' = snapshot.targets
          /\ rows' = rows /\ used' = used
      BY <1>0, <2>6 DEF ReplaceAll, db, index, uuids
    <3>2. \A i \in Images : byID'[i] # None => byID'[i] = rows[i]
      BY <1>0, <3>1 DEF SnapshotIsCurrent
    <3>3. \A q \in Procs : pc'[q] \notin ReaderSteps \cup {"loadAliases", "replace"}
      BY <1>0, <2>0, <3>1 DEF BarrierIsHeld, LoadSteps, WriterSteps, ReaderSteps
    <3>4. ASSUME NEW q \in Procs PROVE Relies(pc[q], job[q])'
      <4>1. pc'[q] = pc[q] \/ q = p
        BY <2>0
      <4>2. CASE q = p
        BY <3>1, <4>2 DEF Relies, PendingImage
      <4>3. CASE pc'[q] = pc[q]
        <5>1. PendingImage(pc[q], job[q]) => job[q].image \in Images
          BY <1>0, RelyingHasImage
        <5>2. PendingImage(pc[q], job[q]) => byID'[job[q].image] = None
          <6>1. PendingImage(pc[q], job[q]) => rows[job[q].image] = None
            BY <1>0 DEF Relies
          <6>. QED BY <3>2, <5>1, <6>1
        <5>. QED BY <1>0, <3>1, <3>3, <4>3, <5>2 DEF Relies, PendingImage, ReaderSteps
      <4>. QED BY <4>1, <4>2, <4>3
    <3>5. ImagesAreFresh'
      BY <2>0, <3>1, <3>2 DEF TargetInv, ImagesAreFresh, PendingImage
    <3>. QED BY <3>1, <3>2, <3>3, <3>4, <3>5
                DEF TargetInv, RequestsRely, SnapshotIsCurrent, NoStaleTarget
  <2>7. CASE \/ InsertImage(p) \/ InsertImport(p) \/ UpdateVisibility(p) \/ DeleteImage(p)
             \/ UpdateContent(p) \/ IndexAdd(p) \/ IndexUpdateVisibility(p) \/ IndexRemoveImage(p)
    BY <2>7, ImageWrites
  <2>. QED BY <2>1, <2>2, <2>3, <2>4, <2>5, <2>6, <2>7 DEF TargetStep
<1>2. ASSUME NEW p \in Procs, Unlock(p) PROVE TargetInv'
  <2>1. /\ rows' = rows /\ byID' = byID /\ used' = used /\ snapshot' = snapshot
        /\ pc[p] = "unlock" /\ pc'[p] = "idle" /\ job'[p].op = None
    BY <1>0, <1>2 DEF Unlock, db, index, uuids, NoJob
  <2>2. \A q \in Procs \ {p} : /\ job'[q] = job[q]
                               /\ pc'[q] = pc[q] \/ (pc[q] = "blocked" /\ pc'[q] = "db")
    BY <1>0, <1>2 DEF Unlock, BarrierIsHeld
  <2>3. ASSUME NEW q \in Procs PROVE Relies(pc[q], job[q])'
    <3>1. CASE q = p
      BY <2>1, <3>1 DEF Relies, PendingImage
    <3>2. CASE q # p
      BY <1>0, <2>1, <2>2, <3>2 DEF Relies, PendingImage
    <3>. QED BY <3>1, <3>2
  <2>4. \A q \in Procs : PendingImage(pc'[q], job'[q]) =>
            PendingImage(pc[q], job[q]) /\ job'[q].image = job[q].image
    BY <2>1, <2>2 DEF PendingImage
  <2>5. ImagesAreFresh'
    BY <2>1, <2>4 DEF TargetInv, ImagesAreFresh
  <2>6. SnapshotIsCurrent'
    BY <1>0, <2>1, <2>2 DEF SnapshotIsCurrent
  <2>7. NoStaleTarget'
    <3>1. \A q \in Procs, i \in Images : Publishing(q, i) => Publishing(q, i)'
      BY <2>1, <2>2 DEF Publishing
    <3>. QED BY <2>1, <3>1 DEF TargetInv, NoStaleTarget
  <2>. QED BY <2>3, <2>5, <2>6, <2>7 DEF TargetInv, RequestsRely
<1>3. CASE Restart
  <2>1. /\ rows' = rows /\ byID' = BuildTargets /\ used' = used
        /\ \A q \in Procs : pc'[q] = "idle"
    BY <1>3 DEF Restart, db, uuids
  <2>2. \A i \in Images : byID'[i] # None => byID'[i] = rows[i]
    BY <2>1 DEF BuildTargets
  <2>3. RequestsRely' /\ SnapshotIsCurrent'
    BY <2>1 DEF RequestsRely, Relies, PendingImage, SnapshotIsCurrent
  <2>4. ImagesAreFresh' /\ NoStaleTarget'
    BY <2>1, <2>2 DEF TargetInv, ImagesAreFresh, NoStaleTarget, PendingImage
  <2>. QED BY <2>3, <2>4 DEF TargetInv
<1>4. CASE UNCHANGED <<pc, job, db, uuids, index, locks, barrier>>
  BY <1>4 DEF TargetInv, RequestsRely, Relies, ImagesAreFresh, SnapshotIsCurrent, NoStaleTarget,
              Publishing, db, uuids, index, barrier
<1>. QED BY <1>1, <1>2, <1>3, <1>4, OtherSteps

\* Locks and targets hold in every reachable state.
LEMMA TargetInvHolds == Spec => [](LockInv /\ TargetInv)
<1>1. Init => TargetInv
  BY DEF Init, EmptyTargets, TargetInv, RequestsRely, Relies, PendingImage, ImagesAreFresh,
         SnapshotIsCurrent, NoStaleTarget
<1>. QED BY <1>1, TargetInvStep, LockInvHolds, PTL DEF Spec

(***************************************************************************)
(* The delivery index serves an image only as the database has it, or      *)
(* while the request that changed the row is on its way to the index:      *)
(* for any number of uploads, imports, changes, deletions, conversions and *)
(* rebuilds, with any faults, across restarts.                             *)
(***************************************************************************)
THEOREM CatalogNoStaleTarget == Spec => []NoStaleTarget
<1>1. TargetInv => NoStaleTarget
  BY DEF TargetInv
<1>. QED BY <1>1, TargetInvHolds, PTL

(***************************************************************************)
(* A private image is public in the index only while the request that made *)
(* it private has yet to reach the index.                                  *)
(***************************************************************************)
THEOREM CatalogPrivacy == Spec => []PrivateIsNotServed
<1>1. LockInv /\ TargetInv => PrivateIsNotServed
  <2>. SUFFICES ASSUME LockInv, TargetInv, NEW i \in Images,
                       rows[i] # None, byID[i] # None,
                       rows[i].vis = "private", byID[i].vis = "public"
                PROVE  \E p \in Procs : Publishing(p, i) /\ job[p].op = "visibility"
    BY DEF PrivateIsNotServed
  <2>1. PICK p \in Procs : Publishing(p, i)
    BY DEF TargetInv, NoStaleTarget
  <2>2. Relies(pc[p], job[p])
    BY DEF TargetInv, RequestsRely
  <2>3. job[p].op = "convert" => byID[i].vis = rows[i].vis
    BY <2>1, <2>2 DEF Publishing, Relies
  <2>. QED BY <2>1, <2>2, <2>3 DEF Publishing, Relies, Creates
<1>. QED BY <1>1, TargetInvHolds, PTL

-----------------------------------------------------------------------------
(* The index and the table image_aliases.                                  *)

\* What a request relies on between its alias row and the index.
ReliesAlias(s, j) ==
    /\ (j.op \in {"import", "createAlias"} /\ s \in {"index", "indexAlias"}) =>
           aliasRow[j.path] # None /\ aliasRow[j.path].image = j.image
    /\ (j.op = "deleteAlias" /\ s = "index") => aliasRow[j.path] = None

AliasSnapshotIsCurrent ==
    \A p \in Procs : pc[p] = "replace" =>
        \A q \in Paths : snapshot.aliases[q] # None =>
            /\ aliasRow[q] # None /\ aliasRow[q].image = snapshot.aliases[q]
            /\ snapshot.targets[snapshot.aliases[q]] # None

AliasInv ==
    /\ \A p \in Procs : ReliesAlias(pc[p], job[p])
    /\ AliasSnapshotIsCurrent
    /\ AliasRowsHaveImage
    /\ NoStaleAlias
    /\ AliasHasTarget

\* The steps that write an alias row or the alias part of index and snapshot.
AliasWrite(p) ==
    \/ InsertImport(p) \/ InsertAlias(p) \/ DeleteAlias(p) \/ DeleteImage(p)
    \/ IndexRemoveImage(p) \/ IndexAddAlias(p) \/ IndexRemoveAlias(p)
    \/ LoadAliases(p) \/ ReplaceAll(p)

\* Any other step leaves them alone and takes no row and no target away.
LEMMA AliasesUntouched ==
    ASSUME Shape, NEW p \in Procs, OwnStep(p), ~AliasWrite(p), ReliesAlias(pc[p], job[p])
    PROVE  /\ aliasRow' = aliasRow /\ aliases' = aliases
           /\ \A i \in Images : rows[i] # None => rows'[i] # None
           /\ \A i \in Images : byID[i] # None => byID'[i] # None
           /\ ReliesAlias(pc'[p], job'[p])
           /\ pc[p] = "index" => job[p].op \notin {"delete", "deleteAlias"}
           /\ pc'[p] # "replace"
           /\ snapshot' = snapshot \/ pc[p] \in LoadSteps
<1>1. /\ WellFormed(pc[p], job[p]) /\ job[p] \in Job
      /\ pc \in [Procs -> Steps] /\ job \in [Procs -> Job]
      /\ rows \in [Images -> Row \cup {None}] /\ byID \in [Images -> Row \cup {None}]
      /\ \A i \in Images : rows[i] # None => rows[i] \in Row
      /\ \A i \in Images : byID[i] # None => byID[i] \in Row
      /\ None \notin Row
  BY CatalogAssumption DEF Shape, JobShape, TypeOK
<1>2. aliasRow' = aliasRow /\ aliases' = aliases
  <2>1. CASE Start(p)
    BY <2>1 DEF Start, StartUpload, StartImport, StartVisibility, StartDelete, StartConvert,
                StartCreateAlias, StartDeleteAlias, StartRebuild, db, index
  <2>2. CASE RequestStep(p)
    BY <2>2 DEF AliasWrite, RequestStep, StoreImport, RejectImport, CommitThumbnailFails,
                ReadForConversion, StoreConversion, AbandonConversion, RLock, RLockParks, RUnlock,
                UnlockPath, RemoveFile, UnlockImage, DatabaseStep, InsertImage, UpdateVisibility,
                UpdateContent, Fail, IndexStep, IndexAdd, IndexUpdateVisibility, db, index
  <2>3. CASE Acquire(p) \/ Drain(p) \/ LoadTargets(p) \/ LoadFails(p)
    BY <2>3 DEF Acquire, LockImage, LockPath, Lock, Drain, LoadTargets, LoadFails, db, index
  <2>. QED BY <2>1, <2>2, <2>3 DEF OwnStep, AliasWrite
<1>. DEFINE Grow == /\ \A i \in Images : rows[i] # None => rows'[i] # None
                    /\ \A i \in Images : byID[i] # None => byID'[i] # None
<1>3. CASE Start(p)
  <2>1. /\ pc'[p] \in {"process", "lockImage", "lock", "lockPath"} /\ pc[p] = "idle"
        /\ snapshot' = snapshot /\ rows' = rows /\ byID' = byID
    BY <1>1, <1>3, StartEnters
       DEF Start, StartUpload, StartImport, StartVisibility, StartDelete, StartConvert,
           StartCreateAlias, StartDeleteAlias, StartRebuild, barrier, db, index
  <2>. QED BY <1>2, <2>1 DEF ReliesAlias
<1>4. CASE Acquire(p) \/ Drain(p) \/ LoadTargets(p) \/ LoadFails(p)
  <2>1. /\ pc'[p] \in {"read", "lockPath", "rlock", "drain", "loadTargets", "loadAliases", "unlock"}
        /\ pc[p] # "index" /\ rows' = rows /\ byID' = byID
        /\ snapshot' = snapshot \/ pc[p] \in LoadSteps
    BY <1>1, <1>4 DEF Acquire, LockImage, LockPath, Lock, Drain, LoadTargets, LoadFails, LoadSteps,
                      db, index, barrier
  <2>. QED BY <1>2, <2>1 DEF ReliesAlias
<1>5. CASE \/ StoreImport(p) \/ RejectImport(p) \/ CommitThumbnailFails(p) \/ ReadForConversion(p)
           \/ StoreConversion(p) \/ AbandonConversion(p) \/ RLock(p) \/ RLockParks(p) \/ Fail(p)
           \/ RUnlock(p) \/ UnlockPath(p) \/ RemoveFile(p) \/ UnlockImage(p)
  <2>1. /\ pc'[p] \notin {"index", "indexAlias", "replace"}
        /\ pc[p] # "index" /\ rows' = rows /\ byID' = byID /\ snapshot' = snapshot
    BY <1>1, <1>5
       DEF StoreImport, RejectImport, CommitThumbnailFails, ReadForConversion, StoreConversion,
           AbandonConversion, RLock, RLockParks, Fail, RUnlock, AfterChange, UnlockPath,
           RemoveFile, UnlockImage, Return, db, index, barrier
  <2>. QED BY <1>2, <2>1 DEF ReliesAlias
<1>6. CASE InsertImage(p) \/ UpdateVisibility(p) \/ UpdateContent(p)
  <2>1. /\ pc'[p] = "index" /\ pc[p] = "db" /\ job'[p].op = job[p].op
        /\ job[p].op \in {"upload", "visibility", "convert"}
        /\ byID' = byID /\ snapshot' = snapshot
    BY <1>1, <1>6 DEF InsertImage, UpdateVisibility, UpdateContent, Committed, Job, index, barrier
  <2>2. /\ job[p].image \in Images
        /\ job[p].op = "upload" => job[p].key \in Keys /\ job[p].vis \in Visibility
        /\ job[p].op = "visibility" => job[p].vis \in Visibility
        /\ job[p].op = "convert" => job[p].key \in Keys
    BY <1>1, <2>1 DEF WellFormed, ImageOps, Creates, Keys
  <2>3. Grow
    <3>1. CASE InsertImage(p)
      <4>1. [key |-> job[p].key, vis |-> job[p].vis] \in Row
        BY <2>2, <3>1 DEF InsertImage, Row
      <4>. QED BY <1>1, <2>1, <2>2, <3>1, <4>1 DEF InsertImage
    <3>2. CASE UpdateVisibility(p)
      <4>1. [rows[job[p].image] EXCEPT !.vis = job[p].vis] \in Row
        BY <1>1, <2>2, <3>2 DEF UpdateVisibility, Row
      <4>. QED BY <1>1, <2>1, <2>2, <3>2, <4>1 DEF UpdateVisibility
    <3>3. CASE UpdateContent(p)
      <4>1. [rows[job[p].image] EXCEPT !.key = job[p].key] \in Row
        BY <1>1, <2>2, <3>3 DEF UpdateContent, Row
      <4>. QED BY <1>1, <2>1, <2>2, <3>3, <4>1 DEF UpdateContent
    <3>. QED BY <1>6, <3>1, <3>2, <3>3
  <2>. QED BY <1>2, <2>1, <2>3 DEF ReliesAlias
<1>7. CASE IndexAdd(p)
  <2>1. /\ pc[p] = "index" /\ job' = job /\ rows' = rows /\ snapshot' = snapshot
        /\ pc'[p] = IF job[p].op = "import" THEN "indexAlias" ELSE "runlock"
        /\ byID' = [byID EXCEPT ![job[p].image] = [key |-> job[p].key, vis |-> job[p].vis]]
        /\ job[p].op \in {"upload", "import", "convert"}
    BY <1>1, <1>7 DEF IndexAdd, db, barrier
  <2>2. job[p].image \in Images /\ [key |-> job[p].key, vis |-> job[p].vis] \in Row
    BY <1>1, <2>1 DEF WellFormed, ImageOps, Creates, Keys, Row
  <2>3. Grow
    BY <1>1, <2>1, <2>2
  <2>. QED BY <1>2, <2>1, <2>3 DEF ReliesAlias
<1>8. CASE IndexUpdateVisibility(p)
  <2>1. /\ pc[p] = "index" /\ pc'[p] = "runlock" /\ rows' = rows /\ snapshot' = snapshot
        /\ byID' = VisibilityUpdated(job[p].image, job[p].vis)
        /\ job[p].op = "visibility"
    BY <1>1, <1>8 DEF IndexUpdateVisibility, Published, db, barrier
  <2>2. job[p].image \in Images /\ job[p].vis \in Visibility
    BY <1>1, <2>1 DEF WellFormed, ImageOps
  <2>3. byID[job[p].image] # None => [byID[job[p].image] EXCEPT !.vis = job[p].vis] \in Row
    BY <1>1, <2>2 DEF Row
  <2>4. Grow
    BY <1>1, <2>1, <2>2, <2>3 DEF VisibilityUpdated
  <2>. QED BY <1>2, <2>1, <2>4 DEF ReliesAlias
<1>. QED
  BY <1>3, <1>4, <1>5, <1>6, <1>7, <1>8
     DEF OwnStep, RequestStep, DatabaseStep, IndexStep, AliasWrite

\* A request relies on nothing but the row of the path it has locked.
LEMMA RelyAliasFrame ==
    ASSUME NEW q \in Procs, ReliesAlias(pc[q], job[q]), pc'[q] = pc[q], job'[q] = job[q],
           HoldsPath(pc[q], job[q]) => aliasRow'[job[q].path] = aliasRow[job[q].path]
    PROVE  ReliesAlias(pc[q], job[q])'
  BY DEF ReliesAlias, HoldsPath, PathOps, PathSteps

\* Two requests that hold a path lock work on two paths.
LEMMA PathHoldersDiffer ==
    ASSUME LocksAreHeld, NEW p \in Procs, NEW q \in Procs, p # q,
           HoldsPath(pc[p], job[p]), HoldsPath(pc[q], job[q])
    PROVE  job[p].path # job[q].path
  BY DEF LocksAreHeld

\* While a request is inside the barrier no rebuild has anything loaded.
LEMMA NobodyLoads ==
    ASSUME BarrierIsHeld, NEW p \in Procs, pc[p] \in ReaderSteps
    PROVE  \A q \in Procs : pc[q] \notin LoadSteps
  BY DEF BarrierIsHeld

\* A request on its way to the index that excuses a stale path q.
Excuses(p, q) == /\ pc[p] = "index"
                 /\ \/ job[p].op = "deleteAlias" /\ job[p].path = q
                    \/ job[p].op = "delete" /\ job[p].image = aliases[q]

\* Every step keeps the aliases of the index in line with their table.
LEMMA AliasInvStep == LockInv /\ TargetInv /\ AliasInv /\ [Next]_vars => AliasInv'
<1>. SUFFICES ASSUME LockInv, TargetInv, AliasInv, [Next]_vars PROVE AliasInv'
  OBVIOUS
<1>0. /\ pc \in [Procs -> Steps] /\ job \in [Procs -> Job]
      /\ rows \in [Images -> Row \cup {None}] /\ byID \in [Images -> Row \cup {None}]
      /\ aliasRow \in [Paths -> AliasRow \cup {None}]
      /\ aliases \in [Paths -> Images \cup {None}]
      /\ snapshot \in [targets : [Images -> Row \cup {None}],
                       aliases : [Paths -> Images \cup {None}]]
      /\ \A q \in Procs : WellFormed(pc[q], job[q])
      /\ BarrierIsHeld /\ LocksAreHeld /\ AliasIdsAreUnique
  BY DEF LockInv, Shape, TypeOK, JobShape
<1>1. /\ \A q \in Procs : ReliesAlias(pc[q], job[q])
      /\ AliasSnapshotIsCurrent /\ AliasRowsHaveImage /\ AliasHasTarget
      /\ \A q \in Paths : aliases[q] # None =>
             \/ aliasRow[q] # None /\ aliasRow[q].image = aliases[q]
             \/ \E r \in Procs : Excuses(r, q)
  BY DEF AliasInv, NoStaleAlias, Excuses
<1>2. \A q \in Paths : aliasRow[q] # None => aliasRow[q].image \in Images
  BY <1>0, CatalogAssumption DEF AliasRow
<1>3. ASSUME NEW p \in Procs, OwnStep(p) PROVE AliasInv'
  <2>0. \A q \in Procs \ {p} : pc'[q] = pc[q] /\ job'[q] = job[q]
    BY <1>0, <1>3, OthersKeep
  <2>1. CASE ~AliasWrite(p)
    <3>1. /\ aliasRow' = aliasRow /\ aliases' = aliases
          /\ \A i \in Images : rows[i] # None => rows'[i] # None
          /\ \A i \in Images : byID[i] # None => byID'[i] # None
          /\ ReliesAlias(pc'[p], job'[p])
          /\ pc[p] = "index" => job[p].op \notin {"delete", "deleteAlias"}
          /\ pc'[p] # "replace"
          /\ snapshot' = snapshot \/ pc[p] \in LoadSteps
      BY <1>1, <1>3, <2>1, AliasesUntouched DEF LockInv
    <3>2. \A q \in Procs : ReliesAlias(pc[q], job[q])'
      <4>1. \A q \in Procs \ {p} : ReliesAlias(pc[q], job[q])'
        BY <1>1, <2>0, <3>1, RelyAliasFrame
      <4>2. ReliesAlias(pc[p], job[p])'
        BY <3>1 DEF ReliesAlias
      <4>. QED BY <4>1, <4>2
    <3>3. AliasSnapshotIsCurrent'
      <4>1. CASE snapshot' = snapshot
        BY <1>1, <2>0, <3>1, <4>1 DEF AliasSnapshotIsCurrent
      <4>2. CASE pc[p] \in LoadSteps
        BY <1>0, <2>0, <3>1, <4>2
           DEF AliasSnapshotIsCurrent, BarrierIsHeld, WriterSteps, LoadSteps
      <4>. QED BY <3>1, <4>1, <4>2
    <3>4. AliasRowsHaveImage'
      BY <1>1, <1>2, <3>1 DEF AliasRowsHaveImage
    <3>5. AliasHasTarget'
      BY <1>0, <1>1, <3>1 DEF AliasHasTarget
    <3>6. NoStaleAlias'
      <4>1. \A r \in Procs, q \in Paths : Excuses(r, q) => Excuses(r, q)'
        BY <2>0, <3>1 DEF Excuses
      <4>. QED BY <1>1, <3>1, <4>1 DEF NoStaleAlias, Excuses
    <3>. QED BY <3>2, <3>3, <3>4, <3>5, <3>6 DEF AliasInv
  <2>2. CASE InsertImport(p) \/ InsertAlias(p)
    <3>1. /\ pc[p] = "db" /\ pc'[p] = "index" /\ aliasRow[job[p].path] = None
          /\ aliasRow' = [aliasRow EXCEPT ![job[p].path] =
                             [id |-> job[p].aliasID, image |-> job[p].image]]
          /\ job[p].op \in {"import", "createAlias"}
          /\ aliases' = aliases /\ byID' = byID
      BY <1>0, <2>2 DEF InsertImport, InsertAlias, Committed, index
    <3>2. /\ job'[p].op = job[p].op /\ job'[p].image = job[p].image
          /\ job'[p].path = job[p].path
      BY <1>0, <2>2 DEF InsertImport, InsertAlias, Committed, Job
    <3>3. /\ job[p].path \in Paths /\ job[p].image \in Images /\ job[p].aliasID \in AliasIDs
          /\ HoldsPath(pc[p], job[p])
      BY <1>0, <3>1 DEF WellFormed, PathOps, ImageOps, HoldsPath, PathSteps
    <3>4. aliasRow'[job[p].path] # None /\ aliasRow'[job[p].path].image = job[p].image
      <4>1. [id |-> job[p].aliasID, image |-> job[p].image] \in AliasRow
        BY <3>3 DEF AliasRow
      <4>. QED BY <1>0, <3>1, <3>3, <4>1, CatalogAssumption
    <3>5. \A i \in Images : rows[i] # None => rows'[i] # None
      <4>1. CASE InsertAlias(p)
        BY <4>1 DEF InsertAlias
      <4>2. CASE InsertImport(p)
        <5>1. job[p].key \in Keys /\ job[p].vis \in Visibility
          BY <1>0, <3>1, <4>2 DEF InsertImport, WellFormed, Creates, ImageOps, Keys
        <5>2. [key |-> job[p].key, vis |-> job[p].vis] # None
          BY <5>1, CatalogAssumption DEF Row
        <5>. QED BY <1>0, <3>3, <4>2, <5>2 DEF InsertImport
      <4>. QED BY <2>2, <4>1, <4>2
    <3>6. rows'[job[p].image] # None
      <4>1. CASE InsertAlias(p)
        BY <4>1 DEF InsertAlias
      <4>2. CASE InsertImport(p)
        <5>1. job[p].key \in Keys /\ job[p].vis \in Visibility
          BY <1>0, <3>1, <4>2 DEF InsertImport, WellFormed, Creates, ImageOps, Keys
        <5>2. [key |-> job[p].key, vis |-> job[p].vis] # None
          BY <5>1, CatalogAssumption DEF Row
        <5>. QED BY <1>0, <3>3, <4>2, <5>2 DEF InsertImport
      <4>. QED BY <2>2, <4>1, <4>2
    <3>7. \A q \in Procs : ReliesAlias(pc[q], job[q])'
      <4>1. ASSUME NEW q \in Procs \ {p} PROVE ReliesAlias(pc[q], job[q])'
        <5>1. HoldsPath(pc[q], job[q]) => job[q].path \in Paths \ {job[p].path}
          BY <1>0, <3>3, PathHoldersDiffer DEF HoldsPath, WellFormed
        <5>. QED BY <1>0, <1>1, <2>0, <3>1, <5>1, RelyAliasFrame
      <4>2. ReliesAlias(pc[p], job[p])'
        BY <3>1, <3>2, <3>4 DEF ReliesAlias
      <4>. QED BY <4>1, <4>2
    <3>8. AliasSnapshotIsCurrent'
      <4>1. \A q \in Procs : pc[q] \notin LoadSteps
        BY <1>0, <3>1, NobodyLoads DEF ReaderSteps
      <4>. QED BY <2>0, <3>1, <4>1 DEF AliasSnapshotIsCurrent, LoadSteps
    <3>9. AliasRowsHaveImage' /\ AliasHasTarget'
      BY <1>0, <1>1, <1>2, <3>1, <3>3, <3>4, <3>5, <3>6 DEF AliasRowsHaveImage, AliasHasTarget
    <3>10. NoStaleAlias'
      <4>1. \A r \in Procs, q \in Paths : Excuses(r, q) => Excuses(r, q)'
        BY <2>0, <3>1 DEF Excuses
      <4>2. \A q \in Paths : aliases[q] # None =>
                \/ aliasRow'[q] # None /\ aliasRow'[q].image = aliases[q]
                \/ \E r \in Procs : Excuses(r, q)
        BY <1>0, <1>1, <3>1, <3>3
      <4>. QED BY <3>1, <4>1, <4>2 DEF NoStaleAlias, Excuses
    <3>. QED BY <3>7, <3>8, <3>9, <3>10 DEF AliasInv
  <2>3. CASE DeleteAlias(p)
    <3>1. /\ pc[p] = "db" /\ pc'[p] = "index" /\ job[p].op = "deleteAlias"
          /\ aliases' = aliases /\ byID' = byID /\ rows' = rows
      BY <1>0, <2>3 DEF DeleteAlias, index
    <3>2. PICK a \in Paths : /\ aliasRow[a] # None /\ aliasRow[a].id = job[p].aliasID
                             /\ aliasRow' = [aliasRow EXCEPT ![a] = None]
                             /\ job' = [job EXCEPT ![p].path = a]
      BY <2>3 DEF DeleteAlias
    <3>3. a = job[p].path
      BY <1>0, <3>1, <3>2 DEF AliasIdsAreUnique
    <3>4. job'[p].op = "deleteAlias" /\ job'[p].path = a
      BY <1>0, <3>1, <3>2 DEF Job
    <3>5. \A q \in Procs : ReliesAlias(pc[q], job[q])'
      <4>1. ASSUME NEW q \in Procs \ {p} PROVE ReliesAlias(pc[q], job[q])'
        <5>1. HoldsPath(pc[q], job[q]) => job[q].path \in Paths \ {a}
          BY <1>0, <3>1, <3>3, PathHoldersDiffer DEF HoldsPath, WellFormed, PathOps, PathSteps
        <5>. QED BY <1>0, <1>1, <2>0, <3>2, <5>1, RelyAliasFrame
      <4>2. ReliesAlias(pc[p], job[p])'
        BY <1>0, <3>1, <3>2, <3>4 DEF ReliesAlias
      <4>. QED BY <4>1, <4>2
    <3>6. AliasSnapshotIsCurrent'
      <4>1. \A q \in Procs : pc[q] \notin LoadSteps
        BY <1>0, <3>1, NobodyLoads DEF ReaderSteps
      <4>. QED BY <2>0, <3>1, <4>1 DEF AliasSnapshotIsCurrent, LoadSteps
    <3>7. AliasRowsHaveImage' /\ AliasHasTarget'
      BY <1>0, <1>1, <3>1, <3>2 DEF AliasRowsHaveImage, AliasHasTarget
    <3>8. NoStaleAlias'
      <4>1. \A r \in Procs, q \in Paths : Excuses(r, q) => Excuses(r, q)'
        BY <2>0, <3>1 DEF Excuses
      <4>2. Excuses(p, a)'
        BY <3>1, <3>4 DEF Excuses
      <4>. QED BY <1>0, <1>1, <3>1, <3>2, <4>1, <4>2 DEF NoStaleAlias, Excuses
    <3>. QED BY <3>5, <3>6, <3>7, <3>8 DEF AliasInv
  <2>4. CASE DeleteImage(p)
    <3>. DEFINE i == job[p].image
    <3>1. /\ pc[p] = "db" /\ pc'[p] = "index" /\ job[p].op = "delete"
          /\ rows' = [rows EXCEPT ![i] = None]
          /\ aliasRow' = [q \in Paths |-> IF aliasRow[q] # None /\ aliasRow[q].image = i
                                            THEN None ELSE aliasRow[q]]
          /\ aliases' = aliases /\ byID' = byID
      BY <1>0, <2>4 DEF DeleteImage, Committed, index
    <3>2. job'[p].op = "delete" /\ job'[p].image = i
      BY <1>0, <2>4, <3>1 DEF DeleteImage, Committed, Job
    <3>3. HoldsImage(pc[p], job[p]) /\ i \in Images
      BY <1>0, <3>1, RelyingHasImage DEF HoldsImage, ImageOps, ImageSteps
    <3>4. \A q \in Procs : ReliesAlias(pc[q], job[q])'
      <4>1. ASSUME NEW q \in Procs \ {p} PROVE ReliesAlias(pc[q], job[q])'
        <5>1. CASE job[q].op \in {"import", "createAlias"} /\ pc[q] \in {"index", "indexAlias"}
          <6>1. HoldsImage(pc[q], job[q]) /\ job[q].path \in Paths
            BY <1>0, <5>1 DEF HoldsImage, ImageOps, ImageSteps, WellFormed, PathOps
          <6>2. job[q].image # i
            BY <1>0, <3>3, <6>1, HoldersDiffer
          <6>3. aliasRow[job[q].path] # None /\ aliasRow[job[q].path].image = job[q].image
            BY <1>1, <5>1 DEF ReliesAlias
          <6>. QED BY <2>0, <3>1, <5>1, <6>1, <6>2, <6>3 DEF ReliesAlias
        <5>2. CASE job[q].op = "deleteAlias" /\ pc[q] = "index"
          <6>1. job[q].path \in Paths /\ aliasRow[job[q].path] = None
            BY <1>0, <1>1, <5>2 DEF WellFormed, PathOps, ReliesAlias
          <6>. QED BY <2>0, <3>1, <5>2, <6>1 DEF ReliesAlias
        <5>. QED BY <2>0, <5>1, <5>2 DEF ReliesAlias
      <4>2. ReliesAlias(pc[p], job[p])'
        BY <3>1, <3>2 DEF ReliesAlias
      <4>. QED BY <4>1, <4>2
    <3>5. AliasSnapshotIsCurrent'
      <4>1. \A q \in Procs : pc[q] \notin LoadSteps
        BY <1>0, <3>1, NobodyLoads DEF ReaderSteps
      <4>. QED BY <2>0, <3>1, <4>1 DEF AliasSnapshotIsCurrent, LoadSteps
    <3>6. AliasRowsHaveImage'
      BY <1>0, <1>1, <1>2, <3>1 DEF AliasRowsHaveImage
    <3>7. AliasHasTarget'
      BY <1>1, <3>1 DEF AliasHasTarget
    <3>8. NoStaleAlias'
      <4>1. \A r \in Procs, q \in Paths : Excuses(r, q) => Excuses(r, q)'
        BY <2>0, <3>1 DEF Excuses
      <4>2. \A q \in Paths : aliases[q] = i => Excuses(p, q)'
        BY <3>1, <3>2 DEF Excuses
      <4>. QED BY <1>1, <3>1, <4>1, <4>2 DEF NoStaleAlias, Excuses
    <3>. QED BY <3>4, <3>5, <3>6, <3>7, <3>8 DEF AliasInv
  <2>5. CASE IndexRemoveImage(p) \/ IndexAddAlias(p) \/ IndexRemoveAlias(p)
    <3>1. /\ pc[p] \in {"index", "indexAlias"} /\ pc'[p] = "runlock" /\ job' = job
          /\ rows' = rows /\ aliasRow' = aliasRow
      BY <1>0, <2>5 DEF IndexRemoveImage, IndexAddAlias, IndexRemoveAlias, Published, db
    <3>2. \A q \in Procs : ReliesAlias(pc[q], job[q])'
      <4>1. \A q \in Procs \ {p} : ReliesAlias(pc[q], job[q])'
        BY <1>1, <2>0, <3>1, RelyAliasFrame
      <4>2. ReliesAlias(pc[p], job[p])'
        BY <3>1 DEF ReliesAlias
      <4>. QED BY <4>1, <4>2
    <3>3. AliasSnapshotIsCurrent'
      <4>1. \A q \in Procs : pc[q] \notin LoadSteps
        BY <1>0, <3>1, NobodyLoads DEF ReaderSteps
      <4>. QED BY <2>0, <3>1, <4>1 DEF AliasSnapshotIsCurrent, LoadSteps
    <3>4. AliasRowsHaveImage'
      BY <1>1, <3>1 DEF AliasRowsHaveImage
    <3>5. CASE IndexRemoveImage(p)
      <4>1. /\ byID' = [byID EXCEPT ![job[p].image] = None]
            /\ aliases' = [q \in Paths |-> IF aliases[q] = job[p].image THEN None ELSE aliases[q]]
            /\ pc[p] = "index" /\ job[p].op = "delete"
        BY <3>5 DEF IndexRemoveImage, AliasesWithout
      <4>2. job[p].image \in Images
        BY <1>0, <4>1 DEF WellFormed, ImageOps
      <4>3. AliasHasTarget'
        BY <1>0, <1>1, <4>1, <4>2 DEF AliasHasTarget
      <4>4. ASSUME NEW q \in Paths, aliases'[q] # None
            PROVE  \/ aliasRow[q] # None /\ aliasRow[q].image = aliases'[q]
                   \/ \E r \in Procs : Excuses(r, q)'
        <5>1. aliases'[q] = aliases[q] /\ aliases[q] # job[p].image
          BY <4>1, <4>4
        <5>2. \A r \in Procs : Excuses(r, q) => Excuses(r, q)'
          BY <2>0, <4>1, <5>1 DEF Excuses
        <5>. QED BY <1>1, <4>4, <5>1, <5>2
      <4>5. NoStaleAlias'
        BY <3>1, <4>4 DEF NoStaleAlias, Excuses
      <4>. QED BY <3>2, <3>3, <3>4, <4>3, <4>5 DEF AliasInv
    <3>6. CASE IndexAddAlias(p)
      <4>1. /\ byID' = byID
            /\ aliases' = IF byID[job[p].image] = None THEN aliases
                          ELSE [aliases EXCEPT ![job[p].path] = job[p].image]
            /\ (pc[p] = "index" /\ job[p].op = "createAlias") \/ pc[p] = "indexAlias"
        BY <3>6 DEF IndexAddAlias, AliasAdded
      <4>2. /\ job[p].image \in Images /\ job[p].path \in Paths
            /\ job[p].op \in {"import", "createAlias"}
        BY <1>0, <4>1 DEF WellFormed, ImageOps, PathOps
      <4>3. aliasRow[job[p].path] # None /\ aliasRow[job[p].path].image = job[p].image
        BY <1>1, <4>1, <4>2 DEF ReliesAlias
      <4>4. AliasHasTarget'
        BY <1>0, <1>1, <4>1, <4>2 DEF AliasHasTarget
      <4>5. ASSUME NEW q \in Paths, aliases'[q] # None
            PROVE  \/ aliasRow[q] # None /\ aliasRow[q].image = aliases'[q]
                   \/ \E r \in Procs : Excuses(r, q)'
        <5>1. CASE aliases'[q] = aliases[q]
          <6>1. \A r \in Procs : Excuses(r, q) => Excuses(r, q)'
            BY <2>0, <4>2, <5>1 DEF Excuses
          <6>. QED BY <1>1, <4>5, <5>1, <6>1
        <5>2. CASE aliases'[q] # aliases[q]
          BY <1>0, <4>1, <4>2, <4>3, <5>2
        <5>. QED BY <5>1, <5>2
      <4>6. NoStaleAlias'
        BY <3>1, <4>5 DEF NoStaleAlias, Excuses
      <4>. QED BY <3>2, <3>3, <3>4, <4>4, <4>6 DEF AliasInv
    <3>7. CASE IndexRemoveAlias(p)
      <4>1. /\ byID' = byID /\ aliases' = [aliases EXCEPT ![job[p].path] = None]
            /\ pc[p] = "index" /\ job[p].op = "deleteAlias"
        BY <3>7 DEF IndexRemoveAlias
      <4>2. AliasHasTarget'
        BY <1>0, <1>1, <4>1 DEF AliasHasTarget
      <4>3. ASSUME NEW q \in Paths, aliases'[q] # None
            PROVE  \/ aliasRow[q] # None /\ aliasRow[q].image = aliases'[q]
                   \/ \E r \in Procs : Excuses(r, q)'
        <5>1. aliases'[q] = aliases[q] /\ q # job[p].path
          BY <1>0, <4>1, <4>3
        <5>2. \A r \in Procs : Excuses(r, q) => Excuses(r, q)'
          BY <2>0, <4>1, <5>1 DEF Excuses
        <5>. QED BY <1>1, <4>3, <5>1, <5>2
      <4>4. NoStaleAlias'
        BY <3>1, <4>3 DEF NoStaleAlias, Excuses
      <4>. QED BY <3>2, <3>3, <3>4, <4>2, <4>4 DEF AliasInv
    <3>. QED BY <2>5, <3>5, <3>6, <3>7
  <2>6. CASE LoadAliases(p)
    <3>1. /\ pc[p] = "loadAliases" /\ pc'[p] = "replace" /\ job' = job
          /\ snapshot'.targets = snapshot.targets
          /\ snapshot'.aliases = BuildAliases(snapshot.targets)
          /\ UNCHANGED <<rows, aliasRow, byID, aliases>>
      BY <1>0, <2>6 DEF LoadAliases, db, index
    <3>2. \A q \in Procs : ReliesAlias(pc[q], job[q])'
      <4>1. \A q \in Procs \ {p} : ReliesAlias(pc[q], job[q])'
        BY <1>1, <2>0, <3>1, RelyAliasFrame
      <4>2. ReliesAlias(pc[p], job[p])'
        BY <3>1 DEF ReliesAlias
      <4>. QED BY <4>1, <4>2
    <3>3. AliasSnapshotIsCurrent'
      BY <3>1 DEF AliasSnapshotIsCurrent, BuildAliases
    <3>4. AliasRowsHaveImage' /\ AliasHasTarget'
      BY <1>1, <3>1 DEF AliasRowsHaveImage, AliasHasTarget
    <3>5. NoStaleAlias'
      <4>1. \A r \in Procs, q \in Paths : Excuses(r, q) => Excuses(r, q)'
        BY <2>0, <3>1 DEF Excuses
      <4>. QED BY <1>1, <3>1, <4>1 DEF NoStaleAlias, Excuses
    <3>. QED BY <3>2, <3>3, <3>4, <3>5 DEF AliasInv
  <2>7. CASE ReplaceAll(p)
    <3>1. /\ pc[p] = "replace" /\ pc'[p] = "unlock" /\ job' = job
          /\ byID' = snapshot.targets /\ aliases' = snapshot.aliases
          /\ rows' = rows /\ aliasRow' = aliasRow
      BY <1>0, <2>7 DEF ReplaceAll, db
    <3>2. \A q \in Procs : ReliesAlias(pc[q], job[q])'
      <4>1. \A q \in Procs \ {p} : ReliesAlias(pc[q], job[q])'
        BY <1>1, <2>0, <3>1, RelyAliasFrame
      <4>2. ReliesAlias(pc[p], job[p])'
        BY <3>1 DEF ReliesAlias
      <4>. QED BY <4>1, <4>2
    <3>3. AliasSnapshotIsCurrent'
      BY <1>0, <2>0, <3>1 DEF AliasSnapshotIsCurrent, BarrierIsHeld, WriterSteps, LoadSteps
    <3>4. AliasRowsHaveImage'
      BY <1>1, <3>1 DEF AliasRowsHaveImage
    <3>5. AliasHasTarget' /\ NoStaleAlias'
      BY <1>1, <3>1 DEF AliasSnapshotIsCurrent, AliasHasTarget, NoStaleAlias
    <3>. QED BY <3>2, <3>3, <3>4, <3>5 DEF AliasInv
  <2>. QED BY <2>1, <2>2, <2>3, <2>4, <2>5, <2>6, <2>7 DEF AliasWrite
<1>4. ASSUME NEW p \in Procs, Unlock(p) PROVE AliasInv'
  <2>1. /\ UNCHANGED <<rows, aliasRow, byID, aliases, snapshot>>
        /\ pc[p] = "unlock" /\ pc'[p] = "idle"
    BY <1>0, <1>4 DEF Unlock, db, index
  <2>2. \A q \in Procs \ {p} : /\ job'[q] = job[q]
                               /\ pc'[q] = pc[q] \/ (pc[q] = "blocked" /\ pc'[q] = "db")
    BY <1>0, <1>4 DEF Unlock, BarrierIsHeld
  <2>3. \A q \in Procs : ReliesAlias(pc[q], job[q])'
    <3>1. ASSUME NEW q \in Procs PROVE ReliesAlias(pc[q], job[q])'
      <4>1. CASE pc'[q] = pc[q] /\ job'[q] = job[q]
        BY <1>1, <2>1, <4>1, RelyAliasFrame
      <4>2. CASE pc'[q] \in {"idle", "db"}
        BY <4>2 DEF ReliesAlias
      <4>. QED BY <2>1, <2>2, <4>1, <4>2
    <3>. QED BY <3>1
  <2>4. AliasSnapshotIsCurrent'
    BY <1>1, <2>1, <2>2 DEF AliasSnapshotIsCurrent
  <2>5. AliasRowsHaveImage' /\ AliasHasTarget'
    BY <1>1, <2>1 DEF AliasRowsHaveImage, AliasHasTarget
  <2>6. NoStaleAlias'
    <3>1. \A r \in Procs, q \in Paths : Excuses(r, q) => Excuses(r, q)'
      BY <2>1, <2>2 DEF Excuses
    <3>. QED BY <1>1, <2>1, <3>1 DEF NoStaleAlias, Excuses
  <2>. QED BY <2>3, <2>4, <2>5, <2>6 DEF AliasInv
<1>5. CASE Restart
  <2>1. /\ rows' = rows /\ aliasRow' = aliasRow
        /\ byID' = BuildTargets /\ aliases' = BuildAliases(BuildTargets)
        /\ \A q \in Procs : pc'[q] = "idle"
    BY <1>5 DEF Restart, db
  <2>2. (\A q \in Procs : ReliesAlias(pc[q], job[q])') /\ AliasSnapshotIsCurrent'
    BY <2>1 DEF ReliesAlias, AliasSnapshotIsCurrent
  <2>3. AliasRowsHaveImage'
    BY <1>1, <2>1 DEF AliasRowsHaveImage
  <2>4. AliasHasTarget' /\ NoStaleAlias'
    BY <2>1 DEF AliasHasTarget, NoStaleAlias, BuildAliases
  <2>. QED BY <2>2, <2>3, <2>4 DEF AliasInv
<1>6. CASE UNCHANGED <<pc, job, db, uuids, index, locks, barrier>>
  BY <1>6 DEF AliasInv, ReliesAlias, AliasSnapshotIsCurrent, AliasRowsHaveImage, NoStaleAlias,
              AliasHasTarget, db, index, barrier
<1>. QED BY <1>3, <1>4, <1>5, <1>6, OtherSteps

\* Everything above, in every reachable state.
CatalogInv == LockInv /\ TargetInv /\ AliasInv

\* The inductive invariant.
LEMMA CatalogInvHolds == Spec => []CatalogInv
<1>1. Init => AliasInv
  BY DEF Init, EmptyAliases, AliasInv, ReliesAlias, AliasSnapshotIsCurrent, AliasRowsHaveImage,
         NoStaleAlias, AliasHasTarget
<1>2. LockInv /\ TargetInv /\ AliasInv /\ [Next]_vars => AliasInv'
  BY AliasInvStep
<1>. QED BY <1>1, <1>2, TargetInvHolds, PTL DEF Spec, CatalogInv

(***************************************************************************)
(* A path in the index leads where its row says, or the request that       *)
(* deleted the alias or the image is on its way to the index.              *)
(***************************************************************************)
THEOREM CatalogNoStaleAlias == Spec => []NoStaleAlias
<1>1. CatalogInv => NoStaleAlias
  BY DEF CatalogInv, AliasInv
<1>. QED BY <1>1, CatalogInvHolds, PTL

(***************************************************************************)
(* Index.GetAlias never finds an alias without its target, and             *)
(* delivery.Build never an alias without its image.                        *)
(***************************************************************************)
THEOREM CatalogAliasesLeadSomewhere == Spec => [](AliasHasTarget /\ AliasRowsHaveImage)
<1>1. CatalogInv => AliasHasTarget /\ AliasRowsHaveImage
  BY DEF CatalogInv, AliasInv
<1>. QED BY <1>1, CatalogInvHolds, PTL

\* What a step writes to the targets of the index.
LEMMA TargetsPublished ==
    ASSUME CatalogInv, [Next]_vars, NEW i \in Images, byID'[i] # byID[i], byID'[i] # None
    PROVE  byID'[i] = rows[i]
<1>0. /\ rows \in [Images -> Row \cup {None}] /\ byID \in [Images -> Row \cup {None}]
      /\ \A p \in Procs : WellFormed(pc[p], job[p]) /\ Relies(pc[p], job[p])
      /\ SnapshotIsCurrent
  BY DEF CatalogInv, LockInv, Shape, TypeOK, JobShape, TargetInv, RequestsRely
<1>1. CASE Restart
  BY <1>1 DEF Restart, BuildTargets
<1>2. ASSUME NEW p \in Procs, OwnStep(p) PROVE byID'[i] = rows[i]
  <2>1. CASE IndexAdd(p)
    <3>1. pc[p] = "index" /\ job[p].op \in Creates \cup {"convert"}
      BY <2>1 DEF IndexAdd, Creates
    <3>2. rows[job[p].image] = [key |-> job[p].key, vis |-> job[p].vis]
      BY <1>0, <3>1 DEF Relies
    <3>. QED BY <1>0, <2>1, <3>2 DEF IndexAdd
  <2>2. CASE IndexUpdateVisibility(p)
    <3>1. /\ pc[p] = "index" /\ job[p].op = "visibility"
          /\ byID' = VisibilityUpdated(job[p].image, job[p].vis)
      BY <2>2 DEF IndexUpdateVisibility
    <3>2. i = job[p].image /\ byID[i] # None /\ byID'[i] = [byID[i] EXCEPT !.vis = job[p].vis]
      BY <1>0, <3>1 DEF VisibilityUpdated
    <3>3. rows[i] # None /\ rows[i].vis = job[p].vis /\ byID[i].key = rows[i].key
      BY <1>0, <3>1, <3>2 DEF Relies
    <3>4. rows[i] \in Row /\ byID[i] \in Row
      BY <1>0, <3>2, <3>3
    <3>. QED BY <3>2, <3>3, <3>4 DEF Row
  <2>3. CASE IndexRemoveImage(p)
    BY <1>0, <2>3 DEF IndexRemoveImage
  <2>4. CASE ReplaceAll(p)
    BY <1>0, <2>4 DEF ReplaceAll, SnapshotIsCurrent
  <2>5. CASE ~(IndexAdd(p) \/ IndexUpdateVisibility(p) \/ IndexRemoveImage(p) \/ ReplaceAll(p))
    <3>1. byID' = byID
      <4>1. CASE TargetStep(p)
        BY <2>5, <4>1 DEF TargetStep, StartUpload, StoreImport, ReadForConversion, InsertImage,
             InsertImport, UpdateVisibility, DeleteImage, UpdateContent, LoadTargets, index
      <4>2. CASE ~TargetStep(p)
        BY <1>0, <1>2, <4>2, TargetsKept DEF CatalogInv, LockInv
      <4>. QED BY <4>1, <4>2
    <3>. QED BY <3>1
  <2>. QED BY <2>1, <2>2, <2>3, <2>4, <2>5
<1>3. ASSUME NEW p \in Procs, Unlock(p) PROVE FALSE
  BY <1>3 DEF Unlock, index
<1>4. CASE UNCHANGED <<pc, job, db, uuids, index, locks, barrier>>
  BY <1>4 DEF index
<1>. QED BY <1>1, <1>2, <1>3, <1>4, OtherSteps

\* What a step writes to the aliases of the index.
LEMMA AliasesPublished ==
    ASSUME CatalogInv, [Next]_vars, NEW q \in Paths, aliases'[q] # aliases[q], aliases'[q] # None
    PROVE  aliasRow[q] # None /\ aliasRow[q].image = aliases'[q]
<1>. DEFINE Current == aliasRow[q] # None /\ aliasRow[q].image = aliases'[q]
<1>0. /\ aliases \in [Paths -> Images \cup {None}]
      /\ \A p \in Procs : WellFormed(pc[p], job[p]) /\ ReliesAlias(pc[p], job[p])
      /\ AliasSnapshotIsCurrent
  BY DEF CatalogInv, LockInv, Shape, TypeOK, JobShape, AliasInv
<1>1. CASE Restart
  BY <1>1 DEF Restart, BuildAliases
<1>2. ASSUME NEW p \in Procs, OwnStep(p) PROVE Current
  <2>1. CASE IndexAddAlias(p)
    <3>1. /\ aliases' = IF byID[job[p].image] = None THEN aliases
                        ELSE [aliases EXCEPT ![job[p].path] = job[p].image]
          /\ (pc[p] = "index" /\ job[p].op = "createAlias") \/ pc[p] = "indexAlias"
      BY <2>1 DEF IndexAddAlias, AliasAdded
    <3>2. q = job[p].path /\ aliases'[q] = job[p].image
      BY <1>0, <3>1
    <3>3. job[p].op \in {"import", "createAlias"}
      BY <1>0, <3>1 DEF WellFormed
    <3>. QED BY <1>0, <3>1, <3>2, <3>3 DEF ReliesAlias
  <2>2. CASE IndexRemoveAlias(p)
    BY <1>0, <2>2 DEF IndexRemoveAlias
  <2>3. CASE IndexRemoveImage(p)
    BY <1>0, <2>3 DEF IndexRemoveImage, AliasesWithout
  <2>4. CASE ReplaceAll(p)
    BY <1>0, <2>4 DEF ReplaceAll, AliasSnapshotIsCurrent
  <2>5. CASE ~(IndexAddAlias(p) \/ IndexRemoveAlias(p) \/ IndexRemoveImage(p) \/ ReplaceAll(p))
    <3>1. aliases' = aliases
      <4>1. CASE AliasWrite(p)
        BY <2>5, <4>1 DEF AliasWrite, InsertImport, InsertAlias, DeleteAlias, DeleteImage,
                          LoadAliases, index
      <4>2. CASE ~AliasWrite(p)
        BY <1>0, <1>2, <4>2, AliasesUntouched DEF CatalogInv, LockInv
      <4>. QED BY <4>1, <4>2
    <3>. QED BY <3>1
  <2>. QED BY <2>1, <2>2, <2>3, <2>4, <2>5
<1>3. ASSUME NEW p \in Procs, Unlock(p) PROVE FALSE
  BY <1>3 DEF Unlock, index
<1>4. CASE UNCHANGED <<pc, job, db, uuids, index, locks, barrier>>
  BY <1>4 DEF index
<1>. QED BY <1>1, <1>2, <1>3, <1>4, OtherSteps

(***************************************************************************)
(* No request and no rebuild ever writes to the index anything but what    *)
(* the database holds at that moment: a deleted image or alias is never    *)
(* published again, however late the step that would do it.                *)
(***************************************************************************)
THEOREM CatalogPublishesCurrentRows == Spec => PublishesCurrentRows
<1>1. CatalogInv /\ [Next]_vars =>
          [/\ \A i \in Images : (byID'[i] # byID[i] /\ byID'[i] # None) => byID'[i] = rows[i]
           /\ \A q \in Paths : (aliases'[q] # aliases[q] /\ aliases'[q] # None) =>
                  aliasRow[q] # None /\ aliasRow[q].image = aliases'[q]]_vars
  BY TargetsPublished, AliasesPublished
<1>. QED BY <1>1, CatalogInvHolds, PTL DEF Spec, PublishesCurrentRows
=============================================================================
