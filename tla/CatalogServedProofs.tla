------------------------ MODULE CatalogServedProofs ------------------------
(***************************************************************************)
(* The other half of Catalog: CatalogProofs shows that the delivery index  *)
(* holds nothing the database does not have; here, that every row of the   *)
(* database is served and keeps its file, for any goroutines, images, keys *)
(* and paths, any requests and any faults.                                 *)
(*                                                                         *)
(* Three layers above CatalogInv: which storage key belongs to whom, and   *)
(* hence which files may be removed; the targets the index must have; the  *)
(* aliases it must have.                                                   *)
(***************************************************************************)
EXTENDS CatalogProofs

\* A request that has stored a file under a key no row has yet.
Storing(s, j) ==
    PendingImage(s, j) \/ (j.op = "convert" /\ s \in {"rlock", "blocked", "db"})

\* A request that removes the file of j.drop before it returns, if it gets so
\* far.  An abandoned conversion has read a key there, and removes nothing.
Doomed(s, j) ==
    /\ j.drop # None
    /\ s \in {"index", "indexAlias", "runlock", "unlockPath", "unlockImage", "removeFile"}
    /\ ~(j.op = "convert" /\ s = "unlockImage")

Names(i, k) == rows[i] # None /\ rows[i].key = k

Kept(k) == files[k] = "intact" \/ k \in tainted

\* An image has the key it was uploaded with or one that a conversion drew; no
\* two have the same.
KeysAreUnique ==
    /\ \A i \in Images : rows[i] # None => rows[i].key \in used \cap ({i} \cup SpareKeys)
    /\ \A i, k \in Images :
           (i # k /\ rows[i] # None /\ rows[k] # None) => rows[i].key # rows[k].key

\* A stored file that is to be published belongs to one request, and is there.
StoredAreOwned ==
    /\ \A p \in Procs : Storing(pc[p], job[p]) =>
           /\ job[p].key \in used /\ Kept(job[p].key)
           /\ \A i \in Images : ~Names(i, job[p].key)
    /\ \A p, r \in Procs :
           (p # r /\ Storing(pc[p], job[p]) /\ Storing(pc[r], job[r]))
               => job[p].key # job[r].key

\* A file that is to be removed belongs to no row and to no other request that
\* is about to publish it.
DoomedAreFree ==
    \A p \in Procs : Doomed(pc[p], job[p]) =>
        /\ job[p].drop \in used
        /\ \A i \in Images : ~Names(i, job[p].drop)
        /\ \A r \in Procs : Storing(pc[r], job[r]) => job[r].key # job[p].drop

\* Only requests that store a file have a key, and the deletion of an alias
\* never has a file to remove; a conversion starts from an uploaded file.
Drawn(s, j) ==
    /\ j.op \notin Creates \cup {"convert"} => j.key = None
    /\ j.op = "deleteAlias" => j.drop = None
    /\ (j.op = "convert" /\ s \in {"transform", "rlock", "blocked", "db"})
           => j.drop \notin SpareKeys

KeysAreDrawn == \A p \in Procs : Drawn(pc[p], job[p])

FileInv == /\ KeysAreUnique /\ StoredAreOwned /\ DoomedAreFree /\ KeysAreDrawn
           /\ RowsKeepTheirFile

\* An image that the index must have and does not has lost its file, also when
\* the request is about to update its visibility, or when a rebuild has read
\* the table.
ServedInv ==
    /\ EveryRowIsServed
    /\ \A p \in Procs :
           (pc[p] = "index" /\ job[p].op = "visibility" /\ byID[job[p].image] = None)
               => rows[job[p].image].key \in tainted
    /\ \A p \in Procs : pc[p] \in {"loadAliases", "replace"} =>
           \A i \in Images : rows[i] # None =>
               snapshot.targets[i] = rows[i] \/ rows[i].key \in tainted

\* The same for aliases.  A conversion publishes an image that a rebuild had
\* left out only when its upload was touched; a new image has no alias but the
\* one of its own import; a rebuild has read every alias of its targets.
ConversionsOfLost ==
    \A p \in Procs :
        (pc[p] = "index" /\ job[p].op = "convert" /\ byID[job[p].image] = None)
            => job[p].image \in tainted

NewImagesHaveOneAlias ==
    \A p \in Procs : (pc[p] = "index" /\ job[p].op \in Creates) =>
        \A q \in Paths : (aliasRow[q] # None /\ aliasRow[q].image = job[p].image)
            => job[p].op = "import" /\ q = job[p].path

AliasSnapshotIsWhole ==
    \A p \in Procs : pc[p] = "replace" =>
        \A q \in Paths :
            (aliasRow[q] # None /\ snapshot.targets[aliasRow[q].image] # None)
                => snapshot.aliases[q] = aliasRow[q].image

AliasServedInv == /\ EveryAliasIsServed /\ ConversionsOfLost
                  /\ NewImagesHaveOneAlias /\ AliasSnapshotIsWhole

-----------------------------------------------------------------------------
(* Which key belongs to whom.                                              *)

\* The steps that draw a storage key, write a row, or remove a file.
StoreStep(p)  == StartUpload(p) \/ StoreImport(p) \/ StoreConversion(p)
RowStep(p)    == \/ InsertImage(p) \/ InsertImport(p) \/ UpdateVisibility(p)
                 \/ DeleteImage(p) \/ UpdateContent(p)
FileStep(p)   == StoreStep(p) \/ RowStep(p) \/ RemoveFile(p)

\* Any other step leaves rows and files alone and draws nothing; who has a file
\* to remove afterwards had it before, or gives up the one it has stored.
LEMMA FilesQuiet ==
    ASSUME Shape, KeysAreDrawn, NEW p \in Procs, OwnStep(p), ~FileStep(p)
    PROVE  /\ UNCHANGED <<rows, files, tainted, used>>
           /\ Storing(pc'[p], job'[p]) => Storing(pc[p], job[p]) /\ job'[p].key = job[p].key
           /\ Doomed(pc'[p], job'[p]) =>
                  \/ Doomed(pc[p], job[p]) /\ job'[p].drop = job[p].drop
                  \/ Storing(pc[p], job[p]) /\ job'[p].drop = job[p].key
<1>1. /\ WellFormed(pc[p], job[p]) /\ job[p] \in Job
      /\ pc \in [Procs -> Steps] /\ job \in [Procs -> Job]
      /\ job[p].op \notin Creates \cup {"convert"} => job[p].key = None
      /\ job[p].op = "deleteAlias" => job[p].drop = None
  BY DEF Shape, JobShape, TypeOK, KeysAreDrawn, Drawn
<1>. USE DEF Storing, Doomed, PendingImage, Creates, db, disk, uuids
<1>2. CASE Start(p)
  <2>1. UNCHANGED <<rows, files, tainted, used>>
    BY <1>2 DEF FileStep, StoreStep, Start, StartImport, StartVisibility, StartDelete, StartConvert,
                StartCreateAlias, StartDeleteAlias, StartRebuild
  <2>2. \/ pc'[p] \in {"process", "lock"}
        \/ pc'[p] = "lockPath" /\ job'[p].op = "deleteAlias"
        \/ pc'[p] = "lockImage" /\ job'[p].op \in {"visibility", "delete", "convert", "createAlias"}
    <3>1. CASE StartVisibility(p)
      BY <1>1, <3>1 DEF StartVisibility, Begin, NoJob
    <3>2. CASE StartDelete(p)
      BY <1>1, <3>2 DEF StartDelete, Begin, NoJob
    <3>3. CASE StartConvert(p)
      BY <1>1, <3>3 DEF StartConvert, Begin, NoJob
    <3>4. CASE StartCreateAlias(p)
      BY <1>1, <3>4 DEF StartCreateAlias, Begin, NoJob
    <3>5. CASE StartImport(p) \/ StartDeleteAlias(p) \/ StartRebuild(p)
      <4>1. pc'[p] \notin {"lockImage"}
        BY <1>1, <3>5 DEF StartImport, StartDeleteAlias, StartRebuild, Begin
      <4>. QED BY <1>1, <1>2, <4>1, StartEnters
    <3>. QED BY <1>2, <3>1, <3>2, <3>3, <3>4, <3>5 DEF FileStep, StoreStep, Start
  <2>. QED BY <2>1, <2>2
<1>3. CASE Acquire(p)
  <2>1. CASE LockImage(p)
    BY <1>1, <2>1 DEF LockImage, TakesPath
  <2>2. CASE LockPath(p)
    BY <1>1, <2>2 DEF LockPath, WellFormed, PathOps
  <2>3. CASE Lock(p)
    BY <1>1, <2>3 DEF Lock
  <2>. QED BY <1>3, <2>1, <2>2, <2>3 DEF Acquire
<1>4. CASE RejectImport(p)
  BY <1>1, <1>4 DEF RejectImport
<1>5. CASE CommitThumbnailFails(p)
  <2>1. /\ job'[p].drop = job[p].key /\ pc'[p] = "removeFile" /\ pc[p] = "lockImage"
        /\ job[p].op \in {"upload", "import"} /\ UNCHANGED <<rows, files, tainted, used>>
    BY <1>1, <1>5 DEF CommitThumbnailFails, Job
  <2>. QED BY <2>1
<1>6. CASE ReadForConversion(p) \/ AbandonConversion(p)
  <2>1. /\ pc'[p] \in {"transform", "unlockImage"} /\ UNCHANGED <<rows, files, tainted, used>>
        /\ pc'[p] = "unlockImage" => job'[p].op = "convert"
    BY <1>1, <1>6 DEF ReadForConversion, AbandonConversion, WellFormed
  <2>. QED BY <2>1
<1>7. CASE RLock(p) \/ RLockParks(p)
  BY <1>1, <1>7 DEF RLock, RLockParks
<1>8. CASE InsertAlias(p) \/ DeleteAlias(p)
  <2>1. /\ pc'[p] = "index" /\ UNCHANGED <<rows, files, tainted, used>>
        /\ job'[p].drop = None
    <3>1. CASE InsertAlias(p)
      BY <1>1, <3>1 DEF InsertAlias, Committed, Superseded, Job
    <3>2. CASE DeleteAlias(p)
      BY <1>1, <3>2 DEF DeleteAlias, Job
    <3>. QED BY <1>8, <3>1, <3>2
  <2>. QED BY <2>1
<1>9. CASE Fail(p)
  <2>1. /\ pc[p] = "db" /\ pc'[p] = "runlock" /\ UNCHANGED <<rows, files, tainted, used>>
        /\ job'[p].drop = job[p].key
    BY <1>1, <1>9 DEF Fail, Job
  <2>. QED BY <1>1, <2>1
<1>10. CASE IndexStep(p)
  BY <1>1, <1>10 DEF IndexStep, IndexAdd, IndexUpdateVisibility, IndexRemoveImage, IndexAddAlias,
                     IndexRemoveAlias, Published
<1>11. CASE RUnlock(p)
  BY <1>1, <1>11 DEF RUnlock, AfterChange, TakesPath
<1>12. CASE UnlockPath(p)
  BY <1>1, <1>12 DEF UnlockPath, Return, WellFormed, PathOps
<1>13. CASE UnlockImage(p)
  BY <1>1, <1>13 DEF UnlockImage, Return
<1>14. CASE Drain(p) \/ LoadTargets(p) \/ LoadAliases(p) \/ LoadFails(p) \/ ReplaceAll(p)
  BY <1>1, <1>14 DEF Drain, LoadTargets, LoadAliases, LoadFails, ReplaceAll
<1>. QED
  BY <1>2, <1>3, <1>4, <1>5, <1>6, <1>7, <1>8, <1>9, <1>10, <1>11, <1>12, <1>13, <1>14
     DEF OwnStep, RequestStep, DatabaseStep, FileStep, StoreStep, RowStep

\* A stored file lies under a key nobody has used.
LEMMA StoreDraws ==
    ASSUME Shape, NEW p \in Procs, StoreStep(p)
    PROVE  \E k \in Keys \ used :
               /\ files' = [files EXCEPT ![k] = "intact"] /\ used' = used \cup {k}
               /\ UNCHANGED <<rows, tainted>>
               /\ job'[p].key = k /\ ~Doomed(pc'[p], job'[p])
<1>1. /\ job[p] \in Job /\ pc \in [Procs -> Steps] /\ job \in [Procs -> Job]
  BY DEF Shape, TypeOK
<1>. USE DEF db, disk, Keys
<1>2. CASE StartUpload(p)
  <2>1. PICK i \in Images \ used, v \in Visibility :
           /\ Begin(p, "lockImage", [NoJob EXCEPT !.op = "upload", !.image = i, !.key = i, !.vis = v])
           /\ files' = [files EXCEPT ![i] = "intact"] /\ used' = used \cup {i}
    BY <1>2 DEF StartUpload
  <2>2. pc'[p] = "lockImage" /\ job'[p].key = i /\ UNCHANGED <<rows, tainted>>
    BY <1>1, <1>2, <2>1 DEF Begin, NoJob, StartUpload
  <2>. QED BY <2>1, <2>2 DEF Doomed
<1>3. CASE StoreImport(p)
  <2>1. PICK i \in Images \ used, a \in AliasIDs :
           /\ job' = [job EXCEPT ![p] = [@ EXCEPT !.image = i, !.key = i, !.aliasID = a]]
           /\ files' = [files EXCEPT ![i] = "intact"] /\ used' = used \cup {i}
    BY <1>3 DEF StoreImport
  <2>2. pc'[p] = "lockImage" /\ job'[p].key = i /\ UNCHANGED <<rows, tainted>>
    BY <1>1, <1>3, <2>1 DEF Job, StoreImport
  <2>. QED BY <2>1, <2>2 DEF Doomed
<1>4. CASE StoreConversion(p)
  <2>1. PICK k \in SpareKeys \ used :
           /\ job' = [job EXCEPT ![p].key = k]
           /\ files' = [files EXCEPT ![k] = "intact"] /\ used' = used \cup {k}
    BY <1>4 DEF StoreConversion
  <2>2. pc'[p] = "rlock" /\ job'[p].key = k /\ UNCHANGED <<rows, tainted>>
    BY <1>1, <1>4, <2>1 DEF Job, StoreConversion
  <2>. QED BY <2>1, <2>2 DEF Doomed
<1>. QED BY <1>2, <1>3, <1>4 DEF StoreStep

\* What a statement does to the row of its image, and the file it gives up.
LEMMA RowWritten ==
    ASSUME LockInv, TargetInv, NEW p \in Procs, RowStep(p)
    PROVE  /\ UNCHANGED <<files, tainted, used>> /\ pc[p] = "db" /\ pc'[p] = "index"
           /\ job'[p].op = job[p].op /\ job'[p].image = job[p].image /\ job[p].image \in Images
           /\ \A k \in Images \ {job[p].image} : rows'[k] = rows[k]
           /\ \/ /\ PendingImage(pc[p], job[p]) /\ rows[job[p].image] = None
                 /\ rows'[job[p].image] # None /\ rows'[job[p].image].key = job[p].key
                 /\ job[p].key = job[p].image /\ job'[p].drop = None
              \/ /\ UpdateVisibility(p) /\ rows[job[p].image] # None
                 /\ rows'[job[p].image] # None
                 /\ rows'[job[p].image].key = rows[job[p].image].key /\ job'[p].drop = None
              \/ /\ DeleteImage(p) /\ rows[job[p].image] # None
                 /\ rows'[job[p].image] = None /\ job'[p].drop = rows[job[p].image].key
              \/ /\ UpdateContent(p) /\ rows[job[p].image] # None
                 /\ rows'[job[p].image] # None /\ rows'[job[p].image].key = job[p].key
                 /\ job[p].key \in SpareKeys
                 /\ job'[p].drop = job[p].drop /\ job[p].drop = rows[job[p].image].key
<1>. DEFINE i == job[p].image
<1>1. /\ pc \in [Procs -> Steps] /\ job \in [Procs -> Job] /\ job[p] \in Job
      /\ rows \in [Images -> Row \cup {None}] /\ None \notin Row
      /\ WellFormed(pc[p], job[p]) /\ Relies(pc[p], job[p])
  BY CatalogAssumption DEF LockInv, Shape, TypeOK, JobShape, TargetInv, RequestsRely
<1>2. /\ UNCHANGED <<files, tainted, used>> /\ pc[p] = "db"
      /\ job[p].op \in {"upload", "import", "visibility", "delete", "convert"} /\ Committed(p)
  BY DEF RowStep, InsertImage, InsertImport, UpdateVisibility, DeleteImage, UpdateContent, disk, uuids
<1>3. i \in Images
  BY <1>1, <1>2 DEF WellFormed, ImageOps
<1>4. /\ pc'[p] = "index" /\ job'[p].op = job[p].op /\ job'[p].image = i
      /\ job'[p].drop = Superseded(p)
  <2>1. pc' = [pc EXCEPT ![p] = "index"] /\ job' = [job EXCEPT ![p].drop = Superseded(p)]
    BY <1>2 DEF Committed
  <2>. QED BY <1>1, <2>1 DEF Job
<1>5. CASE InsertImage(p) \/ InsertImport(p)
  <2>1. /\ rows' = [rows EXCEPT ![i] = [key |-> job[p].key, vis |-> job[p].vis]]
        /\ job[p].op \in Creates
    BY <1>5 DEF InsertImage, InsertImport, Creates
  <2>2. job[p].key = i /\ job[p].vis \in Visibility /\ PendingImage(pc[p], job[p])
    BY <1>1, <1>2, <2>1 DEF WellFormed, PendingImage
  <2>3. [key |-> job[p].key, vis |-> job[p].vis] \in Row
    BY <1>3, <2>2 DEF Row, Keys
  <2>4. rows[i] = None
    BY <1>1, <2>2 DEF Relies
  <2>5. Superseded(p) = None
    BY <2>1 DEF Superseded, Creates
  <2>6. rows'[i] = [key |-> job[p].key, vis |-> job[p].vis]
    BY <1>1, <1>3, <2>1
  <2>7. rows'[i] # None /\ rows'[i].key = job[p].key
    BY <1>1, <2>3, <2>6
  <2>8. \A k \in Images \ {i} : rows'[k] = rows[k]
    BY <1>1, <2>1
  <2>. QED BY <1>2, <1>3, <1>4, <2>2, <2>4, <2>5, <2>7, <2>8
<1>6. CASE UpdateVisibility(p)
  <2>1. /\ rows' = [rows EXCEPT ![i].vis = job[p].vis] /\ rows[i] # None
        /\ job[p].op = "visibility"
    BY <1>6 DEF UpdateVisibility
  <2>2. rows[i] \in Row /\ job[p].vis \in Visibility
    BY <1>1, <1>3, <2>1 DEF WellFormed
  <2>3. rows'[i] = [rows[i] EXCEPT !.vis = job[p].vis]
    BY <1>1, <1>3, <2>1
  <2>4. rows'[i] \in Row /\ rows'[i].key = rows[i].key
    BY <2>2, <2>3 DEF Row
  <2>5. Superseded(p) = None
    BY <2>1 DEF Superseded
  <2>6. \A k \in Images \ {i} : rows'[k] = rows[k]
    BY <1>1, <2>1
  <2>. QED BY <1>1, <1>2, <1>3, <1>4, <1>6, <2>1, <2>4, <2>5, <2>6
<1>7. CASE DeleteImage(p)
  <2>1. rows' = [rows EXCEPT ![i] = None] /\ rows[i] # None /\ job[p].op = "delete"
    BY <1>7 DEF DeleteImage
  <2>2. Superseded(p) = rows[i].key
    BY <2>1 DEF Superseded
  <2>. QED BY <1>1, <1>2, <1>3, <1>4, <1>7, <2>1, <2>2
<1>8. CASE UpdateContent(p)
  <2>1. /\ rows' = [rows EXCEPT ![i].key = job[p].key] /\ rows[i] # None
        /\ job[p].op = "convert"
    BY <1>8 DEF UpdateContent
  <2>2. rows[i] \in Row /\ job[p].key \in SpareKeys /\ rows[i].key = job[p].drop
    BY <1>1, <1>2, <1>3, <2>1 DEF WellFormed, Relies
  <2>3. rows'[i] = [rows[i] EXCEPT !.key = job[p].key]
    BY <1>1, <1>3, <2>1
  <2>4. rows'[i] \in Row /\ rows'[i].key = job[p].key
    BY <2>2, <2>3 DEF Row, Keys
  <2>5. Superseded(p) = job[p].drop
    BY <2>1 DEF Superseded
  <2>6. \A k \in Images \ {i} : rows'[k] = rows[k]
    BY <1>1, <2>1
  <2>. QED BY <1>1, <1>2, <1>3, <1>4, <1>8, <2>1, <2>2, <2>4, <2>5, <2>6
<1>. QED BY <1>5, <1>6, <1>7, <1>8 DEF RowStep

\* A request draws its key before it publishes, and a conversion reads the key
\* of an uploaded file.
LEMMA DrawnKept ==
    ASSUME Shape, KeysAreDrawn, NEW p \in Procs, OwnStep(p)
    PROVE  Drawn(pc'[p], job'[p])
<1>1. /\ WellFormed(pc[p], job[p]) /\ job[p] \in Job /\ Drawn(pc[p], job[p])
      /\ pc \in [Procs -> Steps] /\ job \in [Procs -> Job]
  BY DEF Shape, JobShape, TypeOK, KeysAreDrawn
<1>. USE DEF Drawn, Creates
<1>2. CASE Start(p)
  <2>0. pc'[p] \in {"process", "lockImage", "lock", "lockPath"}
    BY <1>1, <1>2, StartEnters
  <2>1. CASE StartUpload(p)
    <3>1. job'[p].op = "upload"
      BY <1>1, <2>1 DEF StartUpload, Begin, NoJob
    <3>. QED BY <2>0, <3>1
  <2>2. CASE ~StartUpload(p)
    <3>1. CASE StartImport(p)
      BY <1>1, <3>1 DEF StartImport, Begin, NoJob
    <3>2. CASE StartVisibility(p) \/ StartDelete(p) \/ StartConvert(p)
      <4>1. job'[p].key = None /\ job'[p].op \in {"visibility", "delete", "convert"}
        BY <1>1, <3>2 DEF StartVisibility, StartDelete, StartConvert, Begin, NoJob
      <4>. QED BY <2>0, <4>1
    <3>3. CASE StartCreateAlias(p)
      BY <1>1, <3>3 DEF StartCreateAlias, Begin, NoJob
    <3>4. CASE StartDeleteAlias(p)
      BY <1>1, <3>4 DEF StartDeleteAlias, Begin, NoJob
    <3>5. CASE StartRebuild(p)
      BY <1>1, <3>5 DEF StartRebuild, Begin, NoJob
    <3>. QED BY <1>2, <2>2, <3>1, <3>2, <3>3, <3>4, <3>5 DEF Start
  <2>. QED BY <2>1, <2>2
<1>3. CASE Acquire(p)
  <2>1. CASE LockImage(p)
    BY <1>1, <2>1 DEF LockImage
  <2>2. CASE LockPath(p)
    BY <1>1, <2>2 DEF LockPath, WellFormed, PathOps
  <2>3. CASE Lock(p)
    BY <1>1, <2>3 DEF Lock
  <2>. QED BY <1>3, <2>1, <2>2, <2>3 DEF Acquire
<1>4. CASE StoreImport(p)
  <2>1. job'[p].op = "import"
    BY <1>1, <1>4 DEF StoreImport, WellFormed, Job
  <2>. QED BY <2>1
<1>5. CASE RejectImport(p)
  <2>1. job'[p] = NoJob /\ pc'[p] = "idle"
    BY <1>1, <1>5 DEF RejectImport
  <2>. QED BY <2>1 DEF NoJob
<1>6. CASE CommitThumbnailFails(p)
  <2>1. job'[p].op \in {"upload", "import"}
    BY <1>1, <1>6 DEF CommitThumbnailFails, Job
  <2>. QED BY <2>1
<1>7. CASE ReadForConversion(p)
  <2>1. job'[p].op = "convert" /\ job'[p].drop \notin SpareKeys
    BY <1>1, <1>7 DEF ReadForConversion, WellFormed, Job
  <2>. QED BY <2>1
<1>8. CASE StoreConversion(p)
  <2>1. job'[p].op = "convert" /\ job'[p].drop = job[p].drop /\ job[p].op = "convert"
    BY <1>1, <1>8 DEF StoreConversion, WellFormed, Job
  <2>. QED BY <1>1, <1>8, <2>1 DEF StoreConversion
<1>9. CASE AbandonConversion(p) \/ RLock(p) \/ RLockParks(p) \/ RUnlock(p)
  BY <1>1, <1>9 DEF AbandonConversion, RLock, RLockParks, RUnlock, AfterChange
<1>10. CASE UnlockPath(p) \/ RemoveFile(p) \/ UnlockImage(p)
  <2>1. job'[p] \in {job[p], NoJob} /\ pc'[p] \in {"idle", "unlockImage", "removeFile"}
    BY <1>1, <1>10 DEF UnlockPath, RemoveFile, UnlockImage, Return
  <2>. QED BY <1>1, <2>1, CatalogAssumption DEF NoJob, AllRequests
<1>11. CASE DatabaseStep(p)
  <2>1. CASE DeleteAlias(p)
    <3>1. job'[p].op = job[p].op /\ job'[p].key = job[p].key /\ job'[p].drop = job[p].drop
      BY <1>1, <2>1 DEF DeleteAlias, Job
    <3>. QED BY <1>1, <2>1, <3>1 DEF DeleteAlias
  <2>2. CASE Fail(p)
    <3>1. job'[p].op = job[p].op /\ job'[p].key = job[p].key /\ job'[p].drop = job[p].key
      BY <1>1, <2>2 DEF Fail, Job
    <3>. QED BY <1>1, <2>2, <3>1 DEF Fail
  <2>3. CASE Committed(p) /\ job[p].op # "deleteAlias"
    <3>1. job'[p].op = job[p].op /\ job'[p].key = job[p].key /\ pc'[p] = "index"
      BY <1>1, <2>3 DEF Committed, Job
    <3>. QED BY <1>1, <2>3, <3>1
  <2>. QED
    BY <1>11, <2>1, <2>2, <2>3 DEF DatabaseStep, InsertImage, InsertImport, UpdateVisibility,
                                   DeleteImage, UpdateContent, InsertAlias
<1>12. CASE IndexStep(p)
  BY <1>1, <1>12 DEF IndexStep, IndexAdd, IndexUpdateVisibility, IndexRemoveImage, IndexAddAlias,
                     IndexRemoveAlias, Published
<1>13. CASE Drain(p) \/ LoadTargets(p) \/ LoadAliases(p) \/ LoadFails(p) \/ ReplaceAll(p)
  BY <1>1, <1>13 DEF Drain, LoadTargets, LoadAliases, LoadFails, ReplaceAll
<1>. QED
  BY <1>2, <1>3, <1>4, <1>5, <1>6, <1>7, <1>8, <1>9, <1>10, <1>11, <1>12, <1>13
     DEF OwnStep, RequestStep

\* What the steps that are no request's own leave behind.
LEMMA AloneSteps ==
    ASSUME Shape, [Next]_vars
    PROVE  \/ \E p \in Procs : OwnStep(p)
           \/ /\ UNCHANGED <<rows, aliasRow, files, tainted, used, byID, aliases, snapshot>>
              /\ \A q \in Procs : \/ pc'[q] = pc[q] /\ job'[q] = job[q]
                                  \/ pc[q] = "blocked" /\ pc'[q] = "db" /\ job'[q] = job[q]
                                  \/ pc'[q] = "idle" /\ job'[q] = NoJob
                                     /\ pc[q] = "unlock"
           \/ /\ Restart /\ UNCHANGED <<rows, aliasRow, files, tainted, used>>
              /\ \A q \in Procs : pc'[q] = "idle" /\ job'[q] = NoJob
           \/ /\ UNCHANGED <<rows, aliasRow, used, byID, aliases, snapshot, pc, job>>
              /\ tainted \subseteq tainted'
              /\ \A k \in Keys : Kept(k) => Kept(k)'
<1>0. /\ pc \in [Procs -> Steps] /\ job \in [Procs -> Job]
      /\ files \in [Keys -> {"absent", "intact", "damaged"}]
      /\ BarrierIsHeld
  BY DEF Shape, TypeOK
<1>. USE DEF db, disk, uuids, index, barrier
<1>1. ASSUME NEW p \in Procs, Unlock(p)
      PROVE  /\ UNCHANGED <<rows, aliasRow, files, tainted, used, byID, aliases, snapshot>>
             /\ \A q \in Procs : \/ pc'[q] = pc[q] /\ job'[q] = job[q]
                                 \/ pc[q] = "blocked" /\ pc'[q] = "db" /\ job'[q] = job[q]
                                 \/ pc'[q] = "idle" /\ job'[q] = NoJob /\ pc[q] = "unlock"
  <2>1. UNCHANGED <<rows, aliasRow, files, tainted, used, byID, aliases, snapshot>>
    BY <1>1 DEF Unlock
  <2>2. \A q \in Procs : pc'[q] = (IF q = p THEN "idle" ELSE IF q \in blocked THEN "db" ELSE pc[q])
    BY <1>1 DEF Unlock
  <2>3. pc[p] = "unlock" /\ \A q \in Procs : job'[q] = IF q = p THEN NoJob ELSE job[q]
    BY <1>0, <1>1 DEF Unlock
  <2>4. \A q \in Procs : q \in blocked => pc[q] = "blocked"
    BY <1>0 DEF BarrierIsHeld
  <2>. QED BY <2>1, <2>2, <2>3, <2>4
<1>2. ASSUME NEW l \in Keys, LoseFile(l) \/ RestoreFile(l)
      PROVE  /\ UNCHANGED <<rows, aliasRow, used, byID, aliases, snapshot, pc, job>>
             /\ tainted \subseteq tainted'
             /\ \A k \in Keys : Kept(k) => Kept(k)'
  <2>1. /\ UNCHANGED <<rows, aliasRow, used, byID, aliases, snapshot, pc, job>>
        /\ tainted \subseteq tainted'
    BY <1>2 DEF LoseFile, RestoreFile
  <2>2. \A k \in Keys \ {l} : files'[k] = files[k]
    BY <1>0, <1>2 DEF LoseFile, RestoreFile
  <2>3. l \in tainted'
    BY <1>2 DEF LoseFile, RestoreFile
  <2>. QED BY <2>1, <2>2, <2>3 DEF Kept
<1>3. CASE Restart
  BY <1>3 DEF Restart
<1>4. CASE UNCHANGED vars
  BY <1>4 DEF vars, Kept
<1>. QED BY <1>1, <1>2, <1>3, <1>4 DEF Next, OwnStep, RebuildStep

\* Nobody stores anything new and no file goes: everybody keeps what he has.
LEMMA FileFrame ==
    ASSUME TypeOK, FileInv, UNCHANGED <<rows, used>>,
           \A k \in Keys : Kept(k) => Kept(k)',
           \A q \in Procs : Storing(pc'[q], job'[q]) =>
               Storing(pc[q], job[q]) /\ job'[q].key = job[q].key,
           \A q \in Procs : Doomed(pc'[q], job'[q]) =>
               \/ Doomed(pc[q], job[q]) /\ job'[q].drop = job[q].drop
               \/ Storing(pc[q], job[q]) /\ job'[q].drop = job[q].key
    PROVE  KeysAreUnique' /\ StoredAreOwned' /\ DoomedAreFree' /\ RowsKeepTheirFile'
<1>0. /\ KeysAreUnique /\ StoredAreOwned /\ DoomedAreFree /\ RowsKeepTheirFile
      /\ used \subseteq Keys
      /\ \A q \in Procs : ~(Storing(pc'[q], job'[q]) /\ Doomed(pc'[q], job'[q]))
  BY DEF FileInv, TypeOK, Storing, Doomed, PendingImage
<1>1. KeysAreUnique'
  BY <1>0 DEF KeysAreUnique
<1>2. StoredAreOwned'
  BY <1>0 DEF StoredAreOwned, Names
<1>3. DoomedAreFree'
  <2>. SUFFICES ASSUME NEW q \in Procs, Doomed(pc'[q], job'[q])
                PROVE  /\ job'[q].drop \in used
                       /\ \A i \in Images : ~Names(i, job'[q].drop)
                       /\ \A r \in Procs : Storing(pc'[r], job'[r]) => job'[r].key # job'[q].drop
    BY DEF DoomedAreFree, Names
  <2>1. CASE Doomed(pc[q], job[q]) /\ job'[q].drop = job[q].drop
    BY <1>0, <2>1 DEF DoomedAreFree
  <2>2. CASE Storing(pc[q], job[q]) /\ job'[q].drop = job[q].key
    BY <1>0, <2>2 DEF StoredAreOwned
  <2>. QED BY <2>1, <2>2
<1>4. RowsKeepTheirFile'
  BY <1>0 DEF RowsKeepTheirFile, KeysAreUnique, Kept
<1>. QED BY <1>1, <1>2, <1>3, <1>4

\* A file stored under a fresh key.
LEMMA FilesStored ==
    ASSUME TypeOK, FileInv, NEW p \in Procs, StoreStep(p), Shape,
           \A q \in Procs \ {p} : pc'[q] = pc[q] /\ job'[q] = job[q]
    PROVE  KeysAreUnique' /\ StoredAreOwned' /\ DoomedAreFree' /\ RowsKeepTheirFile'
<1>0. /\ KeysAreUnique /\ StoredAreOwned /\ DoomedAreFree /\ RowsKeepTheirFile
      /\ used \subseteq Keys /\ files \in [Keys -> {"absent", "intact", "damaged"}]
  BY DEF FileInv, TypeOK
<1>1. PICK k \in Keys \ used :
         /\ files' = [files EXCEPT ![k] = "intact"] /\ used' = used \cup {k}
         /\ UNCHANGED <<rows, tainted>>
         /\ job'[p].key = k /\ ~Doomed(pc'[p], job'[p])
  BY StoreDraws
<1>. DEFINE KeptNow(x) == files'[x] = "intact" \/ x \in tainted'
<1>2. KeptNow(k) /\ \A x \in Keys : Kept(x) => KeptNow(x)
  BY <1>0, <1>1 DEF Kept
<1>3. KeysAreUnique' /\ \A i \in Images : ~Names(i, k)
  BY <1>0, <1>1 DEF KeysAreUnique, Names
<1>4. StoredAreOwned'
  <2>1. ASSUME NEW q \in Procs, Storing(pc'[q], job'[q])
        PROVE  /\ job'[q].key \in used' /\ KeptNow(job'[q].key)
               /\ \A i \in Images : ~Names(i, job'[q].key)
               /\ q # p => job'[q].key \in used
    <3>1. CASE q = p
      BY <1>1, <1>2, <1>3, <3>1
    <3>2. CASE q # p
      <4>1. Storing(pc[q], job[q]) /\ job'[q] = job[q]
        BY <2>1, <3>2
      <4>2. /\ job[q].key \in used /\ Kept(job[q].key)
            /\ \A i \in Images : ~Names(i, job[q].key)
        BY <1>0, <4>1 DEF StoredAreOwned
      <4>. QED BY <1>0, <1>1, <1>2, <3>2, <4>1, <4>2
    <3>. QED BY <3>1, <3>2
  <2>2. ASSUME NEW q \in Procs, NEW r \in Procs, q # r,
               Storing(pc'[q], job'[q]), Storing(pc'[r], job'[r])
        PROVE  job'[q].key # job'[r].key
    BY <1>0, <1>1, <2>1, <2>2 DEF StoredAreOwned
  <2>. QED BY <1>1, <2>1, <2>2 DEF StoredAreOwned, Names, Kept
<1>5. DoomedAreFree'
  <2>1. ASSUME NEW q \in Procs, Doomed(pc'[q], job'[q])
        PROVE  /\ job'[q].drop \in used
               /\ \A i \in Images : ~Names(i, job'[q].drop)
               /\ \A r \in Procs : Storing(pc'[r], job'[r]) => job'[r].key # job'[q].drop
    <3>1. q # p /\ Doomed(pc[q], job[q]) /\ job'[q] = job[q]
      BY <1>1, <2>1
    <3>2. /\ job[q].drop \in used /\ \A i \in Images : ~Names(i, job[q].drop)
          /\ \A r \in Procs : Storing(pc[r], job[r]) => job[r].key # job[q].drop
      BY <1>0, <3>1 DEF DoomedAreFree
    <3>3. \A r \in Procs : Storing(pc'[r], job'[r]) => job'[r].key # job[q].drop
      BY <1>1, <3>2
    <3>. QED BY <3>1, <3>2, <3>3
  <2>2. rows' = rows /\ used \subseteq used'
    BY <1>1
  <2>. QED BY <2>1, <2>2 DEF DoomedAreFree, Names
<1>6. RowsKeepTheirFile'
  <2>1. \A i \in Images : rows[i] # None => Kept(rows[i].key) /\ rows[i].key \in Keys
    BY <1>0 DEF RowsKeepTheirFile, KeysAreUnique, Kept
  <2>2. \A i \in Images : rows'[i] # None => KeptNow(rows'[i].key)
    BY <1>1, <1>2, <2>1
  <2>. QED BY <2>2 DEF RowsKeepTheirFile, Kept
<1>. QED BY <1>3, <1>4, <1>5, <1>6

\* A row inserted, changed or deleted: its former file now belongs to the
\* request alone, the one it names from now on was the request's.
LEMMA FilesNamed ==
    ASSUME LockInv, TargetInv, FileInv, NEW p \in Procs, RowStep(p),
           \A q \in Procs \ {p} : pc'[q] = pc[q] /\ job'[q] = job[q]
    PROVE  KeysAreUnique' /\ StoredAreOwned' /\ DoomedAreFree' /\ RowsKeepTheirFile'
<1>. DEFINE i == job[p].image
<1>0. /\ KeysAreUnique /\ StoredAreOwned /\ DoomedAreFree /\ RowsKeepTheirFile
  BY DEF FileInv
<1>1. /\ UNCHANGED <<files, tainted, used>> /\ pc[p] = "db" /\ pc'[p] = "index"
      /\ i \in Images /\ \A k \in Images \ {i} : rows'[k] = rows[k]
  BY RowWritten
<1>. DEFINE Own == Storing(pc[p], job[p])
            \* what becomes of the row of i
            Same  == /\ rows[i] # None /\ rows'[i] # None /\ rows'[i].key = rows[i].key
                     /\ job'[p].drop = None
            Gone  == /\ rows[i] # None /\ rows'[i] = None /\ job'[p].drop = rows[i].key
            First == /\ Own /\ rows[i] = None /\ rows'[i] # None /\ rows'[i].key = job[p].key
                     /\ job[p].key = i /\ job'[p].drop = None
            Moved == /\ Own /\ rows[i] # None /\ rows'[i] # None /\ rows'[i].key = job[p].key
                     /\ job[p].key \in SpareKeys /\ job'[p].drop = rows[i].key
<1>2. Same \/ Gone \/ First \/ Moved
  <2>1. UpdateContent(p) => Own
    BY DEF UpdateContent, Storing
  <2>2. PendingImage(pc[p], job[p]) => Own
    BY DEF Storing
  <2>3. \/ /\ PendingImage(pc[p], job[p]) /\ rows[i] = None
           /\ rows'[i] # None /\ rows'[i].key = job[p].key
           /\ job[p].key = i /\ job'[p].drop = None
        \/ Same \/ Gone
        \/ /\ UpdateContent(p) /\ rows[i] # None
           /\ rows'[i] # None /\ rows'[i].key = job[p].key
           /\ job[p].key \in SpareKeys
           /\ job'[p].drop = job[p].drop /\ job[p].drop = rows[i].key
    BY RowWritten
  <2>. QED BY <2>1, <2>2, <2>3
<1>3. KeysAreUnique'
  <2>1. Own => job[p].key \in used /\ \A k \in Images : ~Names(k, job[p].key)
    BY <1>0 DEF StoredAreOwned
  <2>2. rows'[i] # None =>
            /\ rows'[i].key \in used \cap ({i} \cup SpareKeys)
            /\ \A k \in Images \ {i} : rows[k] # None => rows[k].key # rows'[i].key
    BY <1>0, <1>1, <1>2, <2>1 DEF KeysAreUnique, Names
  <2>. QED BY <1>0, <1>1, <2>2 DEF KeysAreUnique
<1>. DEFINE NamesNow(k, x) == rows'[k] # None /\ rows'[k].key = x
<1>4. \A x : \A k \in Images : NamesNow(k, x) => Names(k, x) \/ (Own /\ x = job[p].key)
  BY <1>1, <1>2 DEF Names
<1>5. ~Storing(pc'[p], job'[p])
  BY <1>1 DEF Storing, PendingImage
<1>6. StoredAreOwned'
  <2>1. ASSUME NEW q \in Procs, Storing(pc'[q], job'[q])
        PROVE  /\ q # p /\ Storing(pc[q], job[q]) /\ job'[q].key = job[q].key
               /\ job'[q].key \in used /\ Kept(job'[q].key)
               /\ \A k \in Images : ~NamesNow(k, job'[q].key)
    <3>1. q # p /\ Storing(pc[q], job[q]) /\ job'[q] = job[q]
      BY <1>5, <2>1
    <3>2. Own => job[p].key # job[q].key
      BY <1>0, <3>1 DEF StoredAreOwned
    <3>. QED BY <1>0, <1>4, <3>1, <3>2 DEF StoredAreOwned
  <2>2. \A q, r \in Procs : (q # r /\ Storing(pc'[q], job'[q]) /\ Storing(pc'[r], job'[r]))
                                => job'[q].key # job'[r].key
    BY <1>0, <2>1 DEF StoredAreOwned
  <2>. QED BY <1>1, <2>1, <2>2 DEF StoredAreOwned, Names, Kept
<1>7. DoomedAreFree'
  <2>1. ASSUME NEW q \in Procs, Doomed(pc'[q], job'[q])
        PROVE  /\ job'[q].drop \in used
               /\ \A k \in Images : ~NamesNow(k, job'[q].drop)
               /\ \A r \in Procs : Storing(pc'[r], job'[r]) => job'[r].key # job'[q].drop
    <3>1. CASE q = p
      <4>1. Gone \/ Moved
        BY <1>2, <2>1, <3>1 DEF Doomed
      <4>2. /\ rows[i].key \in used
            /\ \A k \in Images \ {i} : rows[k] # None => rows[k].key # rows[i].key
        BY <1>0, <1>1, <4>1 DEF KeysAreUnique
      <4>3. \A r \in Procs : Storing(pc[r], job[r]) => job[r].key # rows[i].key
        BY <1>0, <1>1, <4>1 DEF StoredAreOwned, Names
      <4>4. ~NamesNow(i, rows[i].key)
        BY <4>1, <4>3
      <4>5. job'[p].drop = rows[i].key
        BY <4>1
      <4>. QED BY <1>1, <1>5, <3>1, <4>2, <4>3, <4>4, <4>5
    <3>2. CASE q # p
      <4>1. Doomed(pc[q], job[q]) /\ job'[q] = job[q]
        BY <2>1, <3>2
      <4>2. /\ job[q].drop \in used /\ \A k \in Images : ~Names(k, job[q].drop)
            /\ \A r \in Procs : Storing(pc[r], job[r]) => job[r].key # job[q].drop
        BY <1>0, <4>1 DEF DoomedAreFree
      <4>. QED BY <1>4, <1>5, <4>1, <4>2
    <3>. QED BY <3>1, <3>2
  <2>. QED BY <1>1, <2>1 DEF DoomedAreFree, Names
<1>8. RowsKeepTheirFile'
  <2>1. Own => Kept(job[p].key)
    BY <1>0 DEF StoredAreOwned
  <2>2. \A k \in Images : rows[k] # None => Kept(rows[k].key)
    BY <1>0 DEF RowsKeepTheirFile, Kept
  <2>3. \A k \in Images : rows'[k] # None => Kept(rows'[k].key)
    BY <1>1, <1>2, <2>1, <2>2
  <2>. QED BY <1>1, <2>3 DEF RowsKeepTheirFile, Kept
<1>. QED BY <1>3, <1>6, <1>7, <1>8

\* A removal reaches the file the request is doomed to remove, and no other.
LEMMA FilesRemoved ==
    ASSUME Shape, FileInv, NEW p \in Procs, RemoveFile(p),
           \A q \in Procs \ {p} : pc'[q] = pc[q] /\ job'[q] = job[q]
    PROVE  KeysAreUnique' /\ StoredAreOwned' /\ DoomedAreFree' /\ RowsKeepTheirFile'
<1>0. /\ KeysAreUnique /\ StoredAreOwned /\ DoomedAreFree /\ RowsKeepTheirFile
      /\ pc \in [Procs -> Steps] /\ job \in [Procs -> Job]
      /\ files \in [Keys -> {"absent", "intact", "damaged"}]
      /\ WellFormed(pc[p], job[p]) /\ None \notin Keys
  BY CatalogAssumption DEF FileInv, Shape, TypeOK, JobShape
<1>. DEFINE d == job[p].drop
            KeptNow(x) == files'[x] = "intact" \/ x \in tainted'
<1>1. Doomed(pc[p], job[p])
  BY <1>0 DEF RemoveFile, Doomed, WellFormed
<1>2. /\ \A i \in Images : ~Names(i, d)
      /\ \A r \in Procs : Storing(pc[r], job[r]) => job[r].key # d
  BY <1>0, <1>1 DEF DoomedAreFree
<1>3. /\ UNCHANGED <<rows, used, tainted>>
      /\ files' = [files EXCEPT ![d] = "absent"] \/ files' = files
  BY DEF RemoveFile, db, uuids
<1>4. \A x : x # d /\ Kept(x) /\ x \in Keys => KeptNow(x)
  BY <1>0, <1>3 DEF Kept
<1>5. ~Storing(pc'[p], job'[p])
      /\ (Doomed(pc'[p], job'[p]) => job'[p] = job[p])
  <2>1. pc'[p] \in {"idle", "unlockImage"}
        /\ (job'[p] = job[p] \/ pc'[p] = "idle")
    BY <1>0 DEF RemoveFile, Return
  <2>. QED BY <2>1 DEF Storing, PendingImage, Doomed
<1>6. KeysAreUnique'
  BY <1>0, <1>3 DEF KeysAreUnique
<1>7. StoredAreOwned'
  <2>1. ASSUME NEW q \in Procs, Storing(pc'[q], job'[q])
        PROVE  /\ Storing(pc[q], job[q]) /\ job'[q] = job[q]
               /\ job'[q].key \in used /\ KeptNow(job'[q].key)
               /\ \A i \in Images : ~Names(i, job'[q].key)
    <3>1. q # p /\ Storing(pc[q], job[q]) /\ job'[q] = job[q]
      BY <1>5, <2>1
    <3>2. /\ job[q].key \in used /\ Kept(job[q].key) /\ job[q].key # d
          /\ \A i \in Images : ~Names(i, job[q].key)
      BY <1>0, <1>2, <3>1 DEF StoredAreOwned
    <3>3. job[q].key \in Keys
      BY <3>2 DEF FileInv, Shape, TypeOK
    <3>. QED BY <1>4, <3>1, <3>2, <3>3
  <2>2. \A q, r \in Procs : (q # r /\ Storing(pc'[q], job'[q]) /\ Storing(pc'[r], job'[r]))
                                => job'[q].key # job'[r].key
    BY <1>0, <2>1 DEF StoredAreOwned
  <2>. QED BY <1>3, <2>1, <2>2 DEF StoredAreOwned, Names, Kept
<1>8. DoomedAreFree'
  <2>1. ASSUME NEW q \in Procs, Doomed(pc'[q], job'[q])
        PROVE  Doomed(pc[q], job[q]) /\ job'[q].drop = job[q].drop
    BY <1>1, <1>5, <2>1
  <2>2. \A r \in Procs : Storing(pc'[r], job'[r]) =>
            Storing(pc[r], job[r]) /\ job'[r].key = job[r].key
    BY <1>5
  <2>. QED BY <1>0, <1>3, <2>1, <2>2 DEF DoomedAreFree, Names
<1>9. RowsKeepTheirFile'
  <2>1. \A i \in Images : rows[i] # None =>
            Kept(rows[i].key) /\ rows[i].key \in Keys /\ rows[i].key # d
    BY <1>0, <1>2 DEF RowsKeepTheirFile, KeysAreUnique, Kept, Names, FileInv, Shape, TypeOK, Keys
  <2>2. \A i \in Images : rows'[i] # None => KeptNow(rows'[i].key)
    BY <1>3, <1>4, <2>1
  <2>. QED BY <2>2 DEF RowsKeepTheirFile, Kept
<1>. QED BY <1>6, <1>7, <1>8, <1>9

\* Every step leaves each stored file with one owner.
LEMMA FileInvStep == LockInv /\ TargetInv /\ FileInv /\ [Next]_vars => FileInv'
<1>. SUFFICES ASSUME LockInv, TargetInv, FileInv, [Next]_vars PROVE FileInv'
  OBVIOUS
<1>0. /\ Shape /\ TypeOK /\ KeysAreDrawn
      /\ pc \in [Procs -> Steps] /\ job \in [Procs -> Job]
      /\ \A q \in Procs : WellFormed(pc[q], job[q])
  BY DEF LockInv, Shape, TypeOK, JobShape, FileInv
<1>. DEFINE Done == KeysAreUnique' /\ StoredAreOwned' /\ DoomedAreFree' /\ RowsKeepTheirFile'
<1>1. ASSUME NEW p \in Procs, OwnStep(p) PROVE FileInv'
  <2>1. \A q \in Procs \ {p} : pc'[q] = pc[q] /\ job'[q] = job[q]
    BY <1>0, <1>1, OthersKeep
  <2>2. KeysAreDrawn'
    <3>1. Drawn(pc'[p], job'[p])
      BY <1>0, <1>1, DrawnKept
    <3>. QED BY <1>0, <2>1, <3>1 DEF KeysAreDrawn
  <2>3. CASE StoreStep(p)
    BY <1>0, <2>1, <2>2, <2>3, FilesStored DEF FileInv
  <2>4. CASE RowStep(p)
    BY <2>1, <2>2, <2>4, FilesNamed DEF FileInv
  <2>5. CASE RemoveFile(p)
    BY <1>0, <2>1, <2>2, <2>5, FilesRemoved DEF FileInv
  <2>6. CASE ~FileStep(p)
    <3>1. /\ UNCHANGED <<rows, files, tainted, used>>
          /\ Storing(pc'[p], job'[p]) => Storing(pc[p], job[p]) /\ job'[p].key = job[p].key
          /\ Doomed(pc'[p], job'[p]) =>
                 \/ Doomed(pc[p], job[p]) /\ job'[p].drop = job[p].drop
                 \/ Storing(pc[p], job[p]) /\ job'[p].drop = job[p].key
      BY <1>0, <1>1, <2>6, FilesQuiet
    <3>2. \A k \in Keys : Kept(k) => Kept(k)'
      BY <3>1 DEF Kept
    <3>3. \A q \in Procs : Storing(pc'[q], job'[q]) =>
              Storing(pc[q], job[q]) /\ job'[q].key = job[q].key
      BY <2>1, <3>1
    <3>4. \A q \in Procs : Doomed(pc'[q], job'[q]) =>
              \/ Doomed(pc[q], job[q]) /\ job'[q].drop = job[q].drop
              \/ Storing(pc[q], job[q]) /\ job'[q].drop = job[q].key
      BY <2>1, <3>1
    <3>5. Done
      BY <1>0, <3>1, <3>2, <3>3, <3>4, FileFrame
    <3>. QED BY <2>2, <3>5 DEF FileInv
  <2>. QED BY <2>3, <2>4, <2>5, <2>6 DEF FileStep
<1>2. ASSUME UNCHANGED <<rows, used>>, \A k \in Keys : Kept(k) => Kept(k)',
             \A q \in Procs : \/ pc'[q] = pc[q] /\ job'[q] = job[q]
                              \/ pc[q] = "blocked" /\ pc'[q] = "db" /\ job'[q] = job[q]
                              \/ pc'[q] = "idle" /\ job'[q] = NoJob
      PROVE  FileInv'
  <2>1. \A q \in Procs : Storing(pc'[q], job'[q]) =>
            Storing(pc[q], job[q]) /\ job'[q].key = job[q].key
    BY <1>2 DEF Storing, PendingImage
  <2>2. \A q \in Procs : Doomed(pc'[q], job'[q]) =>
            \/ Doomed(pc[q], job[q]) /\ job'[q].drop = job[q].drop
            \/ Storing(pc[q], job[q]) /\ job'[q].drop = job[q].key
    BY <1>2 DEF Doomed
  <2>3. Done
    BY <1>0, <1>2, <2>1, <2>2, FileFrame
  <2>4. KeysAreDrawn'
    <3>1. NoJob.op \notin {"deleteAlias", "convert"} /\ NoJob.key = None
      BY CatalogAssumption DEF NoJob, AllRequests
    <3>. QED BY <1>0, <1>2, <3>1 DEF KeysAreDrawn, Drawn
  <2>. QED BY <2>3, <2>4 DEF FileInv
<1>3. UNCHANGED <<files, tainted>> => \A k \in Keys : Kept(k) => Kept(k)'
  BY DEF Kept
<1>. QED BY <1>0, <1>1, <1>2, <1>3, AloneSteps

\* No request removes a file that a row names: the lemma behind the theorem.
LEMMA FileInvHolds == Spec => [](CatalogInv /\ FileInv)
<1>1. Init => FileInv
  <2>1. Init => KeysAreUnique /\ RowsKeepTheirFile
    BY DEF Init, EmptyTargets, KeysAreUnique, RowsKeepTheirFile
  <2>2. Init => StoredAreOwned /\ DoomedAreFree
    BY DEF Init, StoredAreOwned, DoomedAreFree, Storing, Doomed, PendingImage
  <2>3. Init => KeysAreDrawn
    BY CatalogAssumption DEF Init, KeysAreDrawn, Drawn, NoJob, AllRequests
  <2>. QED BY <2>1, <2>2, <2>3 DEF FileInv
<1>2. CatalogInv /\ FileInv /\ [Next]_vars => FileInv'
  BY FileInvStep DEF CatalogInv
<1>. QED BY <1>1, <1>2, CatalogInvHolds, PTL DEF Spec

(***************************************************************************)
(* The file of every image in the database is there and whole unless       *)
(* something outside the program touched it: whatever uploads, imports and *)
(* conversions clean up after a failure, and whatever delete and convert   *)
(* remove, also when a restart leaves half of it undone, no request ever   *)
(* removes a file that a row names (image/upload.go, importer/service.go). *)
(***************************************************************************)
THEOREM CatalogRowsKeepTheirFile == Spec => []RowsKeepTheirFile
<1>1. FileInv => RowsKeepTheirFile
  BY DEF FileInv
<1>. QED BY <1>1, FileInvHolds, PTL

-----------------------------------------------------------------------------
(* The targets the index must have.                                        *)

\* What happens outside the program is no step of a request.
LEMMA TaintKept ==
    ASSUME LockInv, TargetInv, FileInv, NEW p \in Procs, OwnStep(p)
    PROVE  tainted' = tainted
<1>0. Shape /\ KeysAreDrawn
  BY DEF LockInv, FileInv
<1>1. CASE StoreStep(p)
  BY <1>0, <1>1, StoreDraws
<1>2. CASE RowStep(p)
  BY <1>2, RowWritten
<1>3. CASE RemoveFile(p)
  BY <1>3 DEF RemoveFile
<1>4. CASE ~FileStep(p)
  BY <1>0, <1>4, FilesQuiet
<1>. QED BY <1>1, <1>2, <1>3, <1>4 DEF FileStep

\* A request comes to the index from its statement.
LEMMA EntersIndex ==
    ASSUME Shape, NEW p \in Procs, OwnStep(p), ~RowStep(p), pc'[p] = "index"
    PROVE  (InsertAlias(p) \/ DeleteAlias(p)) /\ job'[p].op \in {"createAlias", "deleteAlias"}
<1>1. pc \in [Procs -> Steps] /\ job \in [Procs -> Job] /\ job[p] \in Job
  BY DEF Shape, TypeOK
<1>2. InsertAlias(p) \/ DeleteAlias(p)
  <2>1. ~Start(p)
    BY <1>1, StartEnters
  <2>2. ~Acquire(p)
    BY <1>1 DEF Acquire, LockImage, LockPath, Lock
  <2>3. ~(StoreImport(p) \/ RejectImport(p) \/ CommitThumbnailFails(p)
          \/ ReadForConversion(p) \/ StoreConversion(p) \/ AbandonConversion(p))
    BY <1>1 DEF StoreImport, RejectImport, CommitThumbnailFails, ReadForConversion,
                StoreConversion, AbandonConversion
  <2>4. ~(RLock(p) \/ RLockParks(p) \/ RUnlock(p) \/ Fail(p))
    BY <1>1 DEF RLock, RLockParks, RUnlock, AfterChange, Fail
  <2>5. ~IndexStep(p)
    BY <1>1 DEF IndexStep, IndexAdd, IndexUpdateVisibility, IndexRemoveImage, IndexAddAlias,
                IndexRemoveAlias, Published
  <2>6. ~(UnlockPath(p) \/ RemoveFile(p) \/ UnlockImage(p))
    BY <1>1 DEF UnlockPath, RemoveFile, UnlockImage, Return
  <2>7. ~(Drain(p) \/ LoadTargets(p) \/ LoadAliases(p) \/ LoadFails(p) \/ ReplaceAll(p))
    BY <1>1 DEF Drain, LoadTargets, LoadAliases, LoadFails, ReplaceAll
  <2>. QED BY <2>1, <2>2, <2>3, <2>4, <2>5, <2>6, <2>7
           DEF OwnStep, RequestStep, DatabaseStep, RowStep
<1>3. CASE InsertAlias(p)
  BY <1>1, <1>3 DEF InsertAlias, Committed, Job
<1>4. CASE DeleteAlias(p)
  BY <1>1, <1>4 DEF DeleteAlias, Job
<1>. QED BY <1>2, <1>3, <1>4

\* A rebuild has the barrier to itself.
LEMMA LoadsAlone ==
    ASSUME BarrierIsHeld, NEW p \in Procs, pc[p] \in LoadSteps
    PROVE  \A q \in Procs \ {p} : pc[q] \notin LoadSteps \cup ReaderSteps
<1>1. writer = p /\ readers = {}
  BY DEF BarrierIsHeld, WriterSteps
<1>. QED BY <1>1 DEF BarrierIsHeld, WriterSteps

\* A request at work on an image with a lock on it is the only one.
LEMMA PublisherAlone ==
    ASSUME LocksAreHeld, NEW p \in Procs, HoldsImage(pc[p], job[p]), pc[p] # "index"
    PROVE  \A r \in Procs : ~Publishing(r, job[p].image)
<1>1. SUFFICES ASSUME NEW r \in Procs, Publishing(r, job[p].image) PROVE FALSE
  OBVIOUS
<1>2. r # p /\ HoldsImage(pc[r], job[r]) /\ job[r].image = job[p].image
  BY <1>1 DEF Publishing, HoldsImage, ImageOps, ImageSteps
<1>. QED BY <1>2, HoldersDiffer

\* The index as a load makes it has every image whose file is as it was.
LEMMA LoadedTargets ==
    ASSUME RowsKeepTheirFile
    PROVE  \A i \in Images : rows[i] # None => BuildTargets[i] = rows[i] \/ rows[i].key \in tainted
  BY DEF RowsKeepTheirFile, BuildTargets

\* The images of requests that have a target or a row at hand.
PublishesVisibility(s, j) == s = "index" /\ j.op = "visibility"

ServedSnapshot ==
    \A p \in Procs : pc[p] \in {"loadAliases", "replace"} =>
        \A i \in Images : rows[i] # None =>
            snapshot.targets[i] = rows[i] \/ rows[i].key \in tainted

\* A step that touches neither rows nor targets takes no target away.
LEMMA ServedFrame ==
    ASSUME ServedInv, UNCHANGED <<rows, byID>>, tainted \subseteq tainted',
           \A q \in Procs : Publishes(pc[q], job[q]) => pc'[q] = pc[q] /\ job'[q] = job[q],
           \A q \in Procs : PublishesVisibility(pc'[q], job'[q]) =>
               pc'[q] = pc[q] /\ job'[q] = job[q],
           ServedSnapshot'
    PROVE  ServedInv'
<1>1. EveryRowIsServed'
  <2>. SUFFICES ASSUME NEW i \in Images, rows[i] # None
                PROVE  byID[i] = rows[i] \/ rows[i].key \in tainted' \/ \E p \in Procs : Publishing(p, i)'
    BY DEF EveryRowIsServed
  <2>1. \A q \in Procs : Publishing(q, i) => Publishing(q, i)'
    BY DEF Publishing, Publishes
  <2>. QED BY <2>1 DEF ServedInv, EveryRowIsServed
<1>2. \A p \in Procs : (pc'[p] = "index" /\ job'[p].op = "visibility" /\ byID[job'[p].image] = None)
          => rows[job'[p].image].key \in tainted'
  BY DEF ServedInv, PublishesVisibility
<1>. QED BY <1>1, <1>2 DEF ServedInv, ServedSnapshot

\* A statement that changes a row is on its way to the index.
LEMMA ServedByRow ==
    ASSUME LockInv, TargetInv, FileInv, ServedInv, NEW p \in Procs, RowStep(p),
           \A q \in Procs \ {p} : pc'[q] = pc[q] /\ job'[q] = job[q]
    PROVE  ServedInv'
<1>. DEFINE i == job[p].image
<1>0. /\ BarrierIsHeld /\ LocksAreHeld /\ pc \in [Procs -> Steps] /\ job \in [Procs -> Job]
  BY DEF LockInv, Shape, TypeOK
<1>1. /\ UNCHANGED <<tainted, byID, snapshot>> /\ pc[p] = "db" /\ pc'[p] = "index"
      /\ job'[p].op = job[p].op /\ job'[p].image = i /\ i \in Images
      /\ \A k \in Images \ {i} : rows'[k] = rows[k]
      /\ job[p].op \in {"upload", "import", "visibility", "delete", "convert"}
  <2>1. UNCHANGED <<byID, snapshot>> /\ job[p].op \in {"upload", "import", "visibility", "delete", "convert"}
    BY DEF RowStep, InsertImage, InsertImport, UpdateVisibility, DeleteImage, UpdateContent,
           index, barrier
  <2>. QED BY <2>1, RowWritten
<1>2. HoldsImage(pc[p], job[p])
  BY <1>1 DEF HoldsImage, ImageOps, ImageSteps
<1>3. \A r \in Procs : ~Publishing(r, i)
  BY <1>0, <1>1, <1>2, PublisherAlone
<1>4. EveryRowIsServed'
  <2>1. ASSUME NEW k \in Images, rows'[k] # None
        PROVE  byID[k] = rows'[k] \/ rows'[k].key \in tainted \/ \E r \in Procs : Publishing(r, k)'
    <3>1. CASE k = i
      BY <1>1, <3>1 DEF Publishing
    <3>2. CASE k # i
      <4>1. \A r \in Procs : Publishing(r, k) => Publishing(r, k)'
        BY <1>1, <3>2 DEF Publishing
      <4>2. rows'[k] = rows[k]
        BY <1>1, <3>2
      <4>. QED BY <2>1, <4>1, <4>2 DEF ServedInv, EveryRowIsServed
    <3>. QED BY <3>1, <3>2
  <2>. QED BY <1>1, <2>1 DEF EveryRowIsServed
<1>5. \A q \in Procs : (pc'[q] = "index" /\ job'[q].op = "visibility" /\ byID[job'[q].image] = None)
          => rows'[job'[q].image].key \in tainted
  <2>. SUFFICES ASSUME NEW q \in Procs, pc'[q] = "index", job'[q].op = "visibility",
                       byID[job'[q].image] = None
                PROVE  rows'[job'[q].image].key \in tainted
    OBVIOUS
  <2>1. CASE q = p
    <3>1. job[p].op = "visibility" /\ job'[q].image = i /\ byID[i] = None
      BY <1>1, <2>1
    <3>2. UpdateVisibility(p)
      BY <3>1 DEF RowStep, InsertImage, InsertImport, DeleteImage, UpdateContent
    <3>3. rows[i] # None /\ rows'[i].key = rows[i].key
      <4>1. ~DeleteImage(p) /\ ~UpdateContent(p) /\ ~PendingImage(pc[p], job[p])
        BY <3>1 DEF DeleteImage, UpdateContent, PendingImage, Creates
      <4>. QED BY <4>1, RowWritten
    <3>4. rows[i].key \in tainted
      BY <1>1, <1>3, <3>1, <3>3 DEF ServedInv, EveryRowIsServed
    <3>. QED BY <3>1, <3>3, <3>4
  <2>2. CASE q # p
    <3>1. pc[q] = "index" /\ job[q].op = "visibility" /\ job'[q] = job[q]
      BY <2>2
    <3>2. HoldsImage(pc[q], job[q])
      BY <3>1 DEF HoldsImage, ImageOps, ImageSteps
    <3>3. job[q].image \in Images \ {i}
      BY <1>0, <1>2, <2>2, <3>2, HoldersDiffer, RelyingHasImage DEF LockInv, Shape, JobShape
    <3>. QED BY <1>1, <3>1, <3>3 DEF ServedInv
  <2>. QED BY <2>1, <2>2
<1>6. \A q \in Procs : pc'[q] \notin {"loadAliases", "replace"}
  <2>1. \A q \in Procs : pc[q] \notin LoadSteps
    BY <1>0, <1>1, NobodyLoads DEF ReaderSteps
  <2>. QED BY <1>1, <2>1 DEF LoadSteps
<1>. QED BY <1>1, <1>4, <1>5, <1>6 DEF ServedInv

\* What a request brings to the index is the row; only a target that has been
\* lost stays lost.
LEMMA ServedByIndex ==
    ASSUME LockInv, TargetInv, ServedInv, NEW p \in Procs, UNCHANGED tainted,
           IndexAdd(p) \/ IndexUpdateVisibility(p) \/ IndexRemoveImage(p),
           \A q \in Procs \ {p} : pc'[q] = pc[q] /\ job'[q] = job[q]
    PROVE  ServedInv'
<1>. DEFINE i == job[p].image
<1>0. /\ BarrierIsHeld /\ LocksAreHeld /\ pc \in [Procs -> Steps] /\ job \in [Procs -> Job]
      /\ rows \in [Images -> Row \cup {None}] /\ byID \in [Images -> Row \cup {None}]
      /\ Relies(pc[p], job[p]) /\ WellFormed(pc[p], job[p])
  BY DEF LockInv, Shape, TypeOK, JobShape, TargetInv, RequestsRely
<1>1. /\ UNCHANGED <<rows, snapshot>> /\ pc[p] = "index" /\ pc'[p] \in {"indexAlias", "runlock"}
      /\ job[p].op \in {"upload", "import", "visibility", "delete", "convert"} /\ job' = job
  BY <1>0 DEF IndexAdd, IndexUpdateVisibility, IndexRemoveImage, Published, db, barrier
<1>2. HoldsImage(pc[p], job[p]) /\ i \in Images
  BY <1>0, <1>1, RelyingHasImage DEF HoldsImage, ImageOps, ImageSteps
<1>3. \A k \in Images \ {i} : byID'[k] = byID[k]
  BY <1>0 DEF IndexAdd, IndexUpdateVisibility, VisibilityUpdated, IndexRemoveImage
<1>4. rows[i] # None => byID'[i] = rows[i] \/ rows[i].key \in tainted
  <2>1. CASE IndexAdd(p)
    <3>1. byID' = [byID EXCEPT ![i] = [key |-> job[p].key, vis |-> job[p].vis]]
      BY <2>1 DEF IndexAdd
    <3>2. byID'[i] = [key |-> job[p].key, vis |-> job[p].vis]
      BY <1>0, <1>2, <3>1
    <3>. QED BY <1>0, <1>1, <2>1, <3>2 DEF IndexAdd, Relies, Creates
  <2>2. CASE IndexUpdateVisibility(p) /\ byID[i] = None
    BY <1>1, <2>2 DEF IndexUpdateVisibility, ServedInv
  <2>3. CASE IndexUpdateVisibility(p) /\ byID[i] # None
    <3>1. byID' = [byID EXCEPT ![i].vis = job[p].vis]
      BY <2>3 DEF IndexUpdateVisibility, VisibilityUpdated
    <3>2. byID'[i] = [byID[i] EXCEPT !.vis = job[p].vis]
      BY <1>0, <1>2, <3>1
    <3>3. /\ rows[i] # None /\ rows[i].vis = job[p].vis /\ byID[i].key = rows[i].key
      BY <1>0, <1>1, <2>3 DEF IndexUpdateVisibility, Relies
    <3>4. byID[i] \in Row /\ rows[i] \in Row
      BY <1>0, <1>2, <2>3, <3>3
    <3>. QED BY <3>2, <3>3, <3>4 DEF Row
  <2>4. CASE IndexRemoveImage(p)
    BY <1>0, <1>1, <2>4 DEF IndexRemoveImage, Relies
  <2>. QED BY <2>1, <2>2, <2>3, <2>4
<1>5. EveryRowIsServed'
  <2>1. ASSUME NEW k \in Images, rows[k] # None
        PROVE  byID'[k] = rows[k] \/ rows[k].key \in tainted \/ \E r \in Procs : Publishing(r, k)'
    <3>1. CASE k = i
      BY <1>4, <2>1, <3>1
    <3>2. CASE k # i
      <4>1. \A r \in Procs : Publishing(r, k) => Publishing(r, k)'
        BY <1>1, <3>2 DEF Publishing
      <4>. QED BY <1>3, <2>1, <3>2, <4>1 DEF ServedInv, EveryRowIsServed
    <3>. QED BY <3>1, <3>2
  <2>. QED BY <1>1, <2>1 DEF EveryRowIsServed
<1>6. \A q \in Procs : (pc'[q] = "index" /\ job'[q].op = "visibility" /\ byID'[job'[q].image] = None)
          => rows[job'[q].image].key \in tainted
  <2>. SUFFICES ASSUME NEW q \in Procs, pc'[q] = "index", job'[q].op = "visibility",
                       byID'[job'[q].image] = None
                PROVE  rows[job'[q].image].key \in tainted
    OBVIOUS
  <2>1. q # p /\ pc[q] = "index" /\ job[q].op = "visibility" /\ job'[q] = job[q]
    BY <1>1
  <2>2. HoldsImage(pc[q], job[q])
    BY <2>1 DEF HoldsImage, ImageOps, ImageSteps
  <2>3. job[q].image \in Images \ {i}
    BY <1>0, <1>2, <2>1, <2>2, HoldersDiffer, RelyingHasImage DEF LockInv, Shape, JobShape
  <2>. QED BY <1>3, <2>1, <2>3 DEF ServedInv
<1>7. \A q \in Procs : pc'[q] \notin {"loadAliases", "replace"}
  <2>1. \A q \in Procs : pc[q] \notin LoadSteps
    BY <1>0, <1>1, NobodyLoads DEF ReaderSteps
  <2>. QED BY <1>1, <2>1 DEF LoadSteps
<1>. QED BY <1>1, <1>5, <1>6, <1>7 DEF ServedInv

\* Every step keeps what is in the database in the index.
LEMMA ServedInvStep ==
    LockInv /\ TargetInv /\ FileInv /\ ServedInv /\ [Next]_vars => ServedInv'
<1>. SUFFICES ASSUME LockInv, TargetInv, FileInv, ServedInv, [Next]_vars PROVE ServedInv'
  OBVIOUS
<1>0. /\ Shape /\ pc \in [Procs -> Steps] /\ job \in [Procs -> Job]
      /\ snapshot \in [targets : [Images -> Row \cup {None}],
                       aliases : [Paths -> Images \cup {None}]]
      /\ \A q \in Procs : WellFormed(pc[q], job[q]) /\ Relies(pc[q], job[q])
      /\ BarrierIsHeld /\ RowsKeepTheirFile /\ ServedSnapshot
  BY DEF LockInv, Shape, TypeOK, JobShape, TargetInv, RequestsRely, FileInv, ServedInv, ServedSnapshot
<1>1. ASSUME NEW p \in Procs, OwnStep(p) PROVE ServedInv'
  <2>0. /\ \A q \in Procs \ {p} : pc'[q] = pc[q] /\ job'[q] = job[q]
        /\ tainted' = tainted
    BY <1>0, <1>1, OthersKeep, TaintKept
  <2>1. CASE RowStep(p)
    BY <2>0, <2>1, ServedByRow
  <2>2. CASE IndexAdd(p) \/ IndexUpdateVisibility(p) \/ IndexRemoveImage(p)
    BY <2>0, <2>2, ServedByIndex
  <2>3. CASE LoadTargets(p)
    <3>1. /\ UNCHANGED <<rows, byID>> /\ job' = job /\ pc[p] = "loadTargets"
          /\ pc'[p] = "loadAliases" /\ snapshot'.targets = BuildTargets
      BY <1>0, <2>3 DEF LoadTargets, db, index
    <3>2. ServedSnapshot'
      <4>1. \A q \in Procs \ {p} : pc[q] \notin LoadSteps
        BY <1>0, <3>1, LoadsAlone DEF LoadSteps
      <4>2. \A i \in Images : rows[i] # None =>
                snapshot'.targets[i] = rows[i] \/ rows[i].key \in tainted
        BY <1>0, <3>1, LoadedTargets
      <4>. QED BY <2>0, <3>1, <4>1, <4>2 DEF ServedSnapshot, LoadSteps
    <3>. QED BY <2>0, <3>1, <3>2, ServedFrame DEF Publishes, PublishesVisibility
  <2>4. CASE ReplaceAll(p)
    <3>1. /\ rows' = rows /\ byID' = snapshot.targets /\ job' = job /\ pc[p] = "replace"
          /\ pc'[p] = "unlock"
      BY <1>0, <2>4 DEF ReplaceAll, db
    <3>2. \A q \in Procs : pc'[q] \notin LoadSteps \ {"unlock"} /\ pc'[q] # "index"
      <4>1. \A q \in Procs \ {p} : pc[q] \notin LoadSteps \cup ReaderSteps
        BY <1>0, <3>1, LoadsAlone DEF LoadSteps
      <4>. QED BY <2>0, <3>1, <4>1 DEF ReaderSteps
    <3>3. EveryRowIsServed'
      BY <1>0, <2>0, <3>1 DEF EveryRowIsServed, ServedSnapshot
    <3>. QED BY <3>2, <3>3 DEF ServedInv, LoadSteps
  <2>5. CASE ~RowStep(p) /\ ~(IndexAdd(p) \/ IndexUpdateVisibility(p) \/ IndexRemoveImage(p))
             /\ ~LoadTargets(p) /\ ~ReplaceAll(p)
    <3>1. /\ UNCHANGED <<rows, byID>> /\ ~Publishes(pc[p], job[p])
          /\ pc'[p] \in {"loadAliases", "replace"} => pc[p] \in {"loadAliases", "replace"}
          /\ \/ snapshot' = snapshot
             \/ pc[p] \in LoadSteps /\ pc'[p] = "unlock"
             \/ pc[p] \in LoadSteps /\ snapshot'.targets = snapshot.targets
      <4>1. CASE StartUpload(p)
        BY <1>0, <4>1, StartEnters DEF Start, StartUpload, db, index, barrier, Publishes
      <4>2. CASE StoreImport(p) \/ ReadForConversion(p)
        BY <1>0, <4>2 DEF StoreImport, ReadForConversion, db, index, barrier, Publishes
      <4>3. CASE ~TargetStep(p)
        <5>1. \A i \in Images : ~Publishing(p, i)
          BY <1>0, <1>1, <4>3, TargetsKept
        <5>2. Publishes(pc[p], job[p]) => job[p].image \in Images
          BY <1>0 DEF Publishes, WellFormed, ImageOps
        <5>3. ~Publishes(pc[p], job[p])
          BY <5>1, <5>2 DEF Publishing, Publishes
        <5>. QED BY <1>0, <1>1, <4>3, <5>3, TargetsKept
      <4>. QED BY <2>5, <4>1, <4>2, <4>3 DEF TargetStep, RowStep
    <3>2. ~PublishesVisibility(pc'[p], job'[p])
      BY <1>0, <1>1, <2>5, EntersIndex DEF PublishesVisibility
    <3>3. ServedSnapshot'
      <4>1. ASSUME NEW q \in Procs, pc'[q] \in {"loadAliases", "replace"}
            PROVE  pc[q] \in {"loadAliases", "replace"} /\ snapshot'.targets = snapshot.targets
        <5>1. CASE q = p
          BY <3>1, <4>1, <5>1
        <5>2. CASE q # p
          <6>1. pc[q] \in {"loadAliases", "replace"}
            BY <2>0, <4>1, <5>2
          <6>2. pc[p] \notin LoadSteps
            BY <1>0, <5>2, <6>1, LoadsAlone DEF LoadSteps
          <6>. QED BY <3>1, <6>1, <6>2
        <5>. QED BY <5>1, <5>2
      <4>2. \A q \in Procs : pc'[q] \in {"loadAliases", "replace"} =>
                \A i \in Images : rows[i] # None =>
                    snapshot'.targets[i] = rows[i] \/ rows[i].key \in tainted
        BY <1>0, <4>1 DEF ServedSnapshot
      <4>. QED BY <2>0, <3>1, <4>2 DEF ServedSnapshot
    <3>. QED BY <2>0, <3>1, <3>2, <3>3, ServedFrame
  <2>. QED BY <2>1, <2>2, <2>3, <2>4, <2>5
<1>2. ASSUME UNCHANGED <<rows, byID, snapshot>>, tainted \subseteq tainted',
             \A q \in Procs : \/ pc'[q] = pc[q] /\ job'[q] = job[q]
                              \/ pc[q] = "blocked" /\ pc'[q] = "db" /\ job'[q] = job[q]
                              \/ pc'[q] = "idle" /\ job'[q] = NoJob /\ pc[q] = "unlock"
      PROVE  ServedInv'
  <2>1. \A q \in Procs : Publishes(pc[q], job[q]) => pc'[q] = pc[q] /\ job'[q] = job[q]
    BY <1>2 DEF Publishes
  <2>2. \A q \in Procs : PublishesVisibility(pc'[q], job'[q]) => pc'[q] = pc[q] /\ job'[q] = job[q]
    BY <1>2 DEF PublishesVisibility
  <2>3. ServedSnapshot'
    <3>1. \A q \in Procs : pc'[q] \in {"loadAliases", "replace"} => pc[q] = pc'[q]
      BY <1>2
    <3>. QED BY <1>0, <1>2, <3>1 DEF ServedSnapshot
  <2>. QED BY <1>2, <2>1, <2>2, <2>3, ServedFrame
<1>3. ASSUME Restart, UNCHANGED <<rows, tainted>>, \A q \in Procs : pc'[q] = "idle"
      PROVE  ServedInv'
  <2>1. byID' = BuildTargets
    BY <1>3 DEF Restart
  <2>2. EveryRowIsServed'
    BY <1>0, <1>3, <2>1, LoadedTargets DEF EveryRowIsServed
  <2>. QED BY <1>3, <2>2 DEF ServedInv
<1>. QED BY <1>0, <1>1, <1>2, <1>3, AloneSteps

\* The first five layers hold in every reachable state.
LEMMA ServedInvHolds == Spec => [](CatalogInv /\ FileInv /\ ServedInv)
<1>1. Init => ServedInv
  BY DEF Init, EmptyTargets, ServedInv, EveryRowIsServed
<1>2. CatalogInv /\ FileInv /\ ServedInv /\ [Next]_vars => ServedInv'
  BY ServedInvStep DEF CatalogInv
<1>. QED BY <1>1, <1>2, FileInvHolds, PTL DEF Spec

(***************************************************************************)
(* An image in the database is served exactly as its row says, unless its  *)
(* file was touched from outside the program or the request that wrote the *)
(* row is on its way to the index: no upload, change of visibility or      *)
(* conversion is lost to a rebuild that ran meanwhile, and a rebuild or a  *)
(* restart forgets none (indexstate/rebuilder.go, delivery/loader.go).     *)
(***************************************************************************)
THEOREM CatalogEveryRowIsServed == Spec => []EveryRowIsServed
<1>1. ServedInv => EveryRowIsServed
  BY DEF ServedInv
<1>. QED BY <1>1, ServedInvHolds, PTL

-----------------------------------------------------------------------------
(* The aliases the index must have.                                        *)

\* A request at the index does nothing but go on there.
LEMMA AtIndex ==
    ASSUME pc \in [Procs -> Steps], job \in [Procs -> Job], NEW p \in Procs, OwnStep(p),
           pc[p] \in {"index", "indexAlias"}
    PROVE  IndexStep(p)
<1>1. ~Start(p)
  BY StartEnters
<1>2. ~Acquire(p)
  BY DEF Acquire, LockImage, LockPath, Lock
<1>3. ~(StoreImport(p) \/ RejectImport(p) \/ CommitThumbnailFails(p)
        \/ ReadForConversion(p) \/ StoreConversion(p) \/ AbandonConversion(p))
  BY DEF StoreImport, RejectImport, CommitThumbnailFails, ReadForConversion,
         StoreConversion, AbandonConversion
<1>4. ~(RLock(p) \/ RLockParks(p) \/ RUnlock(p) \/ UnlockPath(p) \/ RemoveFile(p) \/ UnlockImage(p))
  BY DEF RLock, RLockParks, RUnlock, UnlockPath, RemoveFile, UnlockImage
<1>5. ~DatabaseStep(p)
  BY DEF DatabaseStep, InsertImage, InsertImport, UpdateVisibility, DeleteImage, UpdateContent,
         InsertAlias, DeleteAlias, Fail
<1>6. ~(Drain(p) \/ LoadTargets(p) \/ LoadAliases(p) \/ LoadFails(p) \/ ReplaceAll(p))
  BY DEF Drain, LoadTargets, LoadAliases, LoadFails, ReplaceAll
<1>. QED BY <1>1, <1>2, <1>3, <1>4, <1>5, <1>6 DEF OwnStep, RequestStep

\* Only a request with a lock on the image, or a rebuild, changes its target.
LEMMA TargetWritten ==
    ASSUME LockInv, NEW p \in Procs, OwnStep(p), Relies(pc[p], job[p]), ~ReplaceAll(p)
    PROVE  \/ byID' = byID
           \/ /\ IndexAdd(p) \/ IndexUpdateVisibility(p) \/ IndexRemoveImage(p)
              /\ pc[p] = "index" /\ HoldsImage(pc[p], job[p]) /\ job[p].image \in Images
              /\ \A k \in Images \ {job[p].image} : byID'[k] = byID[k]
              /\ IndexAdd(p) => byID'[job[p].image] # None
              /\ IndexUpdateVisibility(p) => (byID'[job[p].image] # None <=> byID[job[p].image] # None)
<1>0. /\ Shape /\ byID \in [Images -> Row \cup {None}] /\ None \notin Row
      /\ WellFormed(pc[p], job[p])
  BY CatalogAssumption DEF LockInv, Shape, TypeOK, JobShape
<1>1. CASE ~TargetStep(p)
  BY <1>0, <1>1, TargetsKept
<1>2. CASE IndexAdd(p) \/ IndexUpdateVisibility(p) \/ IndexRemoveImage(p)
  <2>1. pc[p] = "index" /\ HoldsImage(pc[p], job[p]) /\ job[p].image \in Images
    BY <1>0, <1>2, RelyingHasImage
       DEF IndexAdd, IndexUpdateVisibility, IndexRemoveImage, HoldsImage, ImageOps, ImageSteps
  <2>2. \A k \in Images \ {job[p].image} : byID'[k] = byID[k]
    BY <1>0, <1>2 DEF IndexAdd, IndexUpdateVisibility, VisibilityUpdated, IndexRemoveImage
  <2>3. IndexAdd(p) => byID'[job[p].image] # None
    <3>1. SUFFICES ASSUME IndexAdd(p) PROVE byID'[job[p].image] # None
      OBVIOUS
    <3>2. byID' = [byID EXCEPT ![job[p].image] = [key |-> job[p].key, vis |-> job[p].vis]]
      BY <3>1 DEF IndexAdd
    <3>3. byID'[job[p].image] = [key |-> job[p].key, vis |-> job[p].vis]
      BY <1>0, <2>1, <3>2
    <3>4. job[p].key \in Keys /\ job[p].vis \in Visibility
      BY <1>0, <2>1, <3>1 DEF IndexAdd, WellFormed, ImageOps, Creates, Keys
    <3>. QED BY <1>0, <3>3, <3>4 DEF Row
  <2>4. IndexUpdateVisibility(p) => (byID'[job[p].image] # None <=> byID[job[p].image] # None)
    <3>1. SUFFICES ASSUME IndexUpdateVisibility(p), byID[job[p].image] # None
                   PROVE  byID'[job[p].image] # None
      BY DEF IndexUpdateVisibility, VisibilityUpdated
    <3>2. byID' = [byID EXCEPT ![job[p].image].vis = job[p].vis]
      BY <3>1 DEF IndexUpdateVisibility, VisibilityUpdated
    <3>3. byID'[job[p].image] = [byID[job[p].image] EXCEPT !.vis = job[p].vis]
      BY <1>0, <2>1, <3>2
    <3>4. byID[job[p].image] \in Row /\ job[p].vis \in Visibility
      BY <1>0, <2>1, <3>1 DEF IndexUpdateVisibility, WellFormed
    <3>. QED BY <1>0, <3>3, <3>4 DEF Row
  <2>. QED BY <1>2, <2>1, <2>2, <2>3, <2>4
<1>3. CASE StartUpload(p) \/ StoreImport(p) \/ ReadForConversion(p) \/ LoadTargets(p)
           \/ RowStep(p)
  BY <1>3 DEF StartUpload, StoreImport, ReadForConversion, LoadTargets, RowStep, InsertImage,
              InsertImport, UpdateVisibility, DeleteImage, UpdateContent, index
<1>. QED BY <1>1, <1>2, <1>3 DEF TargetStep, RowStep

\* A conversion that is about to publish an image the index has lost: no step
\* but its own statement brings it there.
LEMMA LostConversions ==
    ASSUME CatalogInv, FileInv, ServedInv, ConversionsOfLost, NEW p \in Procs, OwnStep(p),
           ~ReplaceAll(p)
    PROVE  ConversionsOfLost'
<1>0. /\ Shape /\ pc \in [Procs -> Steps] /\ job \in [Procs -> Job] /\ LocksAreHeld
      /\ \A q \in Procs : WellFormed(pc[q], job[q]) /\ Relies(pc[q], job[q])
      /\ LockInv /\ TargetInv
  BY DEF CatalogInv, LockInv, Shape, TypeOK, JobShape, TargetInv, RequestsRely
<1>1. \A q \in Procs \ {p} : pc'[q] = pc[q] /\ job'[q] = job[q]
  BY <1>0, OthersKeep
<1>2. tainted' = tainted
  BY <1>0, TaintKept
<1>. SUFFICES ASSUME NEW q \in Procs, pc'[q] = "index", job'[q].op = "convert",
                     byID'[job'[q].image] = None
              PROVE  job'[q].image \in tainted
  BY <1>2 DEF ConversionsOfLost
<1>3. CASE q = p
  <2>1. UpdateContent(p)
    <3>1. RowStep(p)
      BY <1>0, <1>3, EntersIndex
    <3>2. job[p].op = "convert"
      BY <1>3, <3>1, <1>0, RowWritten
    <3>. QED BY <3>1, <3>2 DEF RowStep, InsertImage, InsertImport, UpdateVisibility, DeleteImage
  <2>. DEFINE i == job[p].image
  <2>2. /\ pc[p] = "db" /\ job[p].op = "convert" /\ byID' = byID /\ rows[i] # None
    BY <2>1 DEF UpdateContent, index
  <2>3. HoldsImage(pc[p], job[p]) /\ i \in Images
    BY <1>0, <2>2, RelyingHasImage DEF HoldsImage, ImageOps, ImageSteps
  <2>4. \A r \in Procs : ~Publishing(r, i)
    BY <1>0, <2>2, <2>3, PublisherAlone
  <2>5. job'[p].image = i
    BY <1>0, <2>1, RowWritten DEF RowStep
  <2>6. rows[i].key \in tainted
    BY <1>3, <2>2, <2>3, <2>4, <2>5 DEF ServedInv, EveryRowIsServed
  <2>7. rows[i].key = job[p].drop /\ job[p].drop \notin SpareKeys
    BY <1>0, <2>2 DEF Relies, FileInv, KeysAreDrawn, Drawn
  <2>8. rows[i].key = i
    BY <2>2, <2>3, <2>7 DEF FileInv, KeysAreUnique
  <2>. QED BY <1>3, <2>5, <2>6, <2>8
<1>4. CASE q # p
  <2>1. pc[q] = "index" /\ job[q].op = "convert" /\ job'[q] = job[q]
    BY <1>1, <1>4
  <2>2. HoldsImage(pc[q], job[q]) /\ job[q].image \in Images
    BY <1>0, <2>1, RelyingHasImage DEF HoldsImage, ImageOps, ImageSteps
  <2>3. byID'[job[q].image] = byID[job[q].image]
    <3>1. CASE byID' = byID
      BY <3>1
    <3>2. CASE /\ HoldsImage(pc[p], job[p])
               /\ \A k \in Images \ {job[p].image} : byID'[k] = byID[k]
      BY <1>0, <1>4, <2>2, <3>2, HoldersDiffer
    <3>. QED BY <1>0, <3>1, <3>2, TargetWritten
  <2>. QED BY <2>1, <2>3 DEF ConversionsOfLost
<1>. QED BY <1>3, <1>4

\* A step that leaves the aliases alone.
LEMMA AliasServedQuiet ==
    ASSUME CatalogInv, FileInv, ServedInv, AliasServedInv, NEW p \in Procs, OwnStep(p),
           ~AliasWrite(p)
    PROVE  AliasServedInv'
<1>0. /\ Shape /\ pc \in [Procs -> Steps] /\ job \in [Procs -> Job] /\ BarrierIsHeld
      /\ aliasRow \in [Paths -> AliasRow \cup {None}] /\ rows \in [Images -> Row \cup {None}]
      /\ \A q \in Procs : WellFormed(pc[q], job[q]) /\ Relies(pc[q], job[q])
      /\ ReliesAlias(pc[p], job[p]) /\ AliasRowsHaveImage
      /\ LockInv /\ TargetInv
  BY DEF CatalogInv, LockInv, Shape, TypeOK, JobShape, TargetInv, RequestsRely, AliasInv
<1>1. /\ \A q \in Procs \ {p} : pc'[q] = pc[q] /\ job'[q] = job[q]
      /\ tainted' = tainted
  BY <1>0, OthersKeep, TaintKept
<1>2. /\ UNCHANGED <<aliasRow, aliases>> /\ pc'[p] # "replace"
      /\ snapshot' = snapshot \/ pc[p] \in LoadSteps
  BY <1>0, AliasesUntouched
<1>3. \A r \in Procs, q \in Paths : PublishingAlias(r, q) => PublishingAlias(r, q)'
  <2>. SUFFICES ASSUME NEW r \in Procs, NEW q \in Paths, PublishingAlias(r, q)
                PROVE  PublishingAlias(r, q)'
    OBVIOUS
  <2>1. CASE r = p
    <3>1. pc[p] \in {"index", "indexAlias"} /\ job[p].op \in {"import", "createAlias", "deleteAlias"}
      BY <2>1 DEF PublishingAlias, TakesPath
    <3>2. IndexStep(p)
      BY <1>0, <3>1, AtIndex
    <3>3. IndexAdd(p) /\ job[p].op = "import"
      BY <3>1, <3>2 DEF IndexStep, AliasWrite, IndexAdd, IndexUpdateVisibility
    <3>4. pc'[p] = "indexAlias" /\ job' = job
      BY <1>0, <3>3 DEF IndexAdd
    <3>. QED BY <2>1, <3>4 DEF PublishingAlias, TakesPath
  <2>2. CASE r # p
    BY <1>1, <2>2 DEF PublishingAlias, TakesPath
  <2>. QED BY <2>1, <2>2
<1>4. EveryAliasIsServed'
  <2>. SUFFICES ASSUME NEW q \in Paths, aliasRow[q] # None, byID'[aliasRow[q].image] # None
                PROVE  \/ aliases[q] = aliasRow[q].image
                       \/ aliasRow[q].image \in tainted
                       \/ \E r \in Procs : PublishingAlias(r, q)'
    BY <1>1, <1>2 DEF EveryAliasIsServed
  <2>. DEFINE i == aliasRow[q].image
  <2>0. i \in Images
    BY <1>0, CatalogAssumption DEF AliasRow
  <2>1. CASE byID[i] # None
    BY <1>3, <2>1 DEF AliasServedInv, EveryAliasIsServed
  <2>2. CASE byID[i] = None
    <3>1. IndexAdd(p) /\ pc[p] = "index" /\ job[p].image = i
      BY <1>0, <2>0, <2>2, TargetWritten DEF AliasWrite
    <3>2. CASE job[p].op = "convert"
      BY <2>2, <3>1, <3>2 DEF AliasServedInv, ConversionsOfLost
    <3>3. CASE job[p].op # "convert"
      <4>1. job[p].op \in Creates
        BY <3>1, <3>3 DEF IndexAdd, Creates
      <4>2. job[p].op = "import" /\ q = job[p].path
        BY <3>1, <4>1 DEF AliasServedInv, NewImagesHaveOneAlias
      <4>3. PublishingAlias(p, q)
        BY <3>1, <4>2 DEF PublishingAlias, TakesPath
      <4>. QED BY <1>3, <4>3
    <3>. QED BY <3>2, <3>3
  <2>. QED BY <2>1, <2>2
<1>5. ConversionsOfLost'
  BY <1>0, LostConversions DEF AliasServedInv, AliasWrite
<1>6. NewImagesHaveOneAlias'
  <2>1. ASSUME NEW r \in Procs, pc'[r] = "index", job'[r].op \in Creates,
               NEW q \in Paths, aliasRow[q] # None, aliasRow[q].image = job'[r].image
        PROVE  job'[r].op = "import" /\ q = job'[r].path
    <3>1. CASE r # p
      BY <1>1, <2>1, <3>1 DEF AliasServedInv, NewImagesHaveOneAlias
    <3>2. CASE r = p
      <4>1. RowStep(p)
        BY <1>0, <2>1, <3>2, EntersIndex DEF Creates
      <4>2. job[p].op \in Creates /\ job'[p].image = job[p].image /\ pc[p] = "db"
        BY <1>0, <2>1, <3>2, <4>1, RowWritten
      <4>3. PendingImage(pc[p], job[p])
        BY <4>2 DEF PendingImage
      <4>4. rows[job[p].image] = None
        BY <1>0, <4>3 DEF Relies
      <4>. QED BY <1>0, <2>1, <3>2, <4>2, <4>4 DEF AliasRowsHaveImage
    <3>. QED BY <3>1, <3>2
  <2>. QED BY <1>2, <2>1 DEF NewImagesHaveOneAlias
<1>7. AliasSnapshotIsWhole'
  <2>1. ASSUME NEW r \in Procs, pc'[r] = "replace" PROVE pc[r] = "replace" /\ snapshot' = snapshot
    <3>1. r # p /\ pc[r] = "replace"
      BY <1>1, <1>2, <2>1
    <3>2. pc[p] \notin LoadSteps
      BY <1>0, <3>1, LoadsAlone DEF LoadSteps
    <3>. QED BY <1>2, <3>1, <3>2
  <2>. QED BY <1>2, <2>1 DEF AliasServedInv, AliasSnapshotIsWhole
<1>. QED BY <1>4, <1>5, <1>6, <1>7 DEF AliasServedInv

\* A statement that writes alias rows: a new one is on its way to the index.
LEMMA AliasServedByRow ==
    ASSUME CatalogInv, FileInv, ServedInv, AliasServedInv, NEW p \in Procs,
           InsertImport(p) \/ InsertAlias(p) \/ DeleteAlias(p) \/ DeleteImage(p)
    PROVE  AliasServedInv'
<1>. DEFINE i == job[p].image
            q0 == job[p].path
<1>0. /\ Shape /\ pc \in [Procs -> Steps] /\ job \in [Procs -> Job] /\ job[p] \in Job
      /\ BarrierIsHeld /\ LocksAreHeld
      /\ aliasRow \in [Paths -> AliasRow \cup {None}] /\ None \notin AliasRow
      /\ \A q \in Procs : WellFormed(pc[q], job[q]) /\ Relies(pc[q], job[q])
      /\ AliasRowsHaveImage /\ AliasIdsAreUnique
      /\ LockInv /\ TargetInv
  BY CatalogAssumption
     DEF CatalogInv, LockInv, Shape, TypeOK, JobShape, TargetInv, RequestsRely, AliasInv
<1>1. OwnStep(p) /\ ~ReplaceAll(p) /\ pc[p] = "db"
  <2>1. pc[p] = "db"
    BY DEF InsertImport, InsertAlias, DeleteAlias, DeleteImage
  <2>. QED BY <2>1 DEF OwnStep, RequestStep, DatabaseStep, ReplaceAll
<1>2. /\ \A q \in Procs \ {p} : pc'[q] = pc[q] /\ job'[q] = job[q]
      /\ tainted' = tainted /\ UNCHANGED <<byID, aliases, snapshot>>
  <2>1. UNCHANGED <<byID, aliases, snapshot>>
    BY DEF InsertImport, InsertAlias, DeleteAlias, DeleteImage, index, barrier
  <2>. QED BY <1>0, <1>1, <2>1, OthersKeep, TaintKept
<1>3. /\ pc'[p] = "index" /\ job'[p].op = job[p].op /\ job'[p].image = i
      /\ job[p].op \in {"import", "createAlias"} => job'[p].path = q0
  <2>1. CASE DeleteAlias(p)
    BY <1>0, <2>1 DEF DeleteAlias, Job
  <2>2. CASE Committed(p)
    BY <1>0, <2>2 DEF Committed, Job
  <2>. QED BY <2>1, <2>2 DEF InsertImport, InsertAlias, DeleteImage
<1>4. \A r \in Procs, q \in Paths : PublishingAlias(r, q) => PublishingAlias(r, q)'
  BY <1>1, <1>2 DEF PublishingAlias, TakesPath
\* A row is new, or was there before.
<1>5. \A q \in Paths : aliasRow'[q] # None =>
          \/ aliasRow'[q] = aliasRow[q]
          \/ job[p].op \in {"import", "createAlias"} /\ q = q0 /\ aliasRow'[q].image = i
  <2>1. CASE InsertImport(p) \/ InsertAlias(p)
    <3>1. /\ job[p].op \in {"import", "createAlias"}
          /\ aliasRow' = [aliasRow EXCEPT ![q0] = [id |-> job[p].aliasID, image |-> i]]
      BY <2>1 DEF InsertImport, InsertAlias
    <3>2. q0 \in Paths
      BY <1>0, <3>1 DEF WellFormed, PathOps
    <3>. QED BY <1>0, <3>1, <3>2
  <2>2. CASE DeleteAlias(p)
    BY <1>0, <2>2 DEF DeleteAlias
  <2>3. CASE DeleteImage(p)
    BY <2>3 DEF DeleteImage
  <2>. QED BY <2>1, <2>2, <2>3
<1>6. EveryAliasIsServed'
  <2>1. ASSUME NEW q \in Paths, aliasRow'[q] # None, byID[aliasRow'[q].image] # None
        PROVE  \/ aliases[q] = aliasRow'[q].image
               \/ aliasRow'[q].image \in tainted
               \/ \E r \in Procs : PublishingAlias(r, q)'
    <3>1. CASE aliasRow'[q] = aliasRow[q]
      BY <1>4, <2>1, <3>1 DEF AliasServedInv, EveryAliasIsServed
    <3>2. CASE job[p].op \in {"import", "createAlias"} /\ q = q0
      <4>1. PublishingAlias(p, q)'
        BY <1>3, <3>2 DEF PublishingAlias, TakesPath
      <4>. QED BY <4>1
    <3>. QED BY <1>5, <2>1, <3>1, <3>2
  <2>. QED BY <1>2, <2>1 DEF EveryAliasIsServed
<1>7. ConversionsOfLost'
  BY <1>1, LostConversions DEF AliasServedInv
<1>8. NewImagesHaveOneAlias'
  <2>1. ASSUME NEW r \in Procs, pc'[r] = "index", job'[r].op \in Creates,
               NEW q \in Paths, aliasRow'[q] # None, aliasRow'[q].image = job'[r].image
        PROVE  job'[r].op = "import" /\ q = job'[r].path
    <3>1. CASE r # p
      <4>1. pc[r] = "index" /\ job[r].op \in Creates /\ job'[r] = job[r]
        BY <1>2, <2>1, <3>1
      <4>2. CASE aliasRow'[q] = aliasRow[q]
        BY <2>1, <4>1, <4>2 DEF AliasServedInv, NewImagesHaveOneAlias
      <4>3. CASE job[p].op \in {"import", "createAlias"} /\ aliasRow'[q].image = i
        <5>1. HoldsImage(pc[p], job[p]) /\ HoldsImage(pc[r], job[r])
          BY <1>1, <4>1, <4>3 DEF HoldsImage, ImageOps, ImageSteps, Creates
        <5>2. job[r].image # i
          BY <1>0, <3>1, <5>1, HoldersDiffer
        <5>. QED BY <2>1, <4>1, <4>3, <5>2
      <4>. QED BY <1>5, <2>1, <4>2, <4>3
    <3>2. CASE r = p
      <4>1. job[p].op \in Creates /\ job'[p].image = i
        BY <1>3, <2>1, <3>2
      <4>2. InsertImport(p) /\ job[p].op = "import"
        BY <4>1 DEF InsertImport, InsertAlias, DeleteAlias, DeleteImage, Creates
      <4>3. rows[i] = None
        BY <1>0, <1>1, <4>1 DEF Relies, PendingImage
      <4>4. ~(aliasRow[q] # None /\ aliasRow[q].image = i)
        BY <1>0, <4>3 DEF AliasRowsHaveImage
      <4>5. q = q0
        BY <1>5, <2>1, <3>2, <4>1, <4>4
      <4>. QED BY <1>3, <3>2, <4>2, <4>5
    <3>. QED BY <3>1, <3>2
  <2>. QED BY <2>1 DEF NewImagesHaveOneAlias
<1>9. AliasSnapshotIsWhole'
  <2>1. \A r \in Procs : pc'[r] # "replace"
    BY <1>0, <1>1, <1>2, <1>3, NobodyLoads DEF ReaderSteps, LoadSteps
  <2>. QED BY <2>1 DEF AliasSnapshotIsWhole
<1>. QED BY <1>6, <1>7, <1>8, <1>9 DEF AliasServedInv

\* A request that brings its alias, or the end of its image, to the index.
LEMMA AliasServedByIndex ==
    ASSUME CatalogInv, FileInv, ServedInv, AliasServedInv, NEW p \in Procs,
           IndexRemoveImage(p) \/ IndexAddAlias(p) \/ IndexRemoveAlias(p)
    PROVE  AliasServedInv'
<1>. DEFINE i == job[p].image
            q0 == job[p].path
<1>0. /\ Shape /\ pc \in [Procs -> Steps] /\ job \in [Procs -> Job]
      /\ BarrierIsHeld /\ aliases \in [Paths -> Images \cup {None}]
      /\ aliasRow \in [Paths -> AliasRow \cup {None}] /\ None \notin AliasRow
      /\ byID \in [Images -> Row \cup {None}]
      /\ WellFormed(pc[p], job[p]) /\ ReliesAlias(pc[p], job[p])
      /\ LockInv /\ TargetInv
  BY CatalogAssumption
     DEF CatalogInv, LockInv, Shape, TypeOK, JobShape, AliasInv
<1>1. /\ OwnStep(p) /\ ~ReplaceAll(p) /\ pc[p] \in {"index", "indexAlias"} /\ pc'[p] = "runlock"
      /\ job' = job
  <2>1. pc[p] \in {"index", "indexAlias"} /\ pc'[p] = "runlock" /\ job' = job
    BY <1>0 DEF IndexRemoveImage, IndexAddAlias, IndexRemoveAlias, Published
  <2>. QED BY <2>1 DEF OwnStep, RequestStep, IndexStep, ReplaceAll
<1>2. /\ \A q \in Procs \ {p} : pc'[q] = pc[q] /\ job'[q] = job[q]
      /\ tainted' = tainted /\ UNCHANGED <<aliasRow, snapshot>>
  <2>1. UNCHANGED <<aliasRow, snapshot>>
    BY DEF IndexRemoveImage, IndexAddAlias, IndexRemoveAlias, db, barrier
  <2>. QED BY <1>0, <1>1, <2>1, OthersKeep, TaintKept
<1>3. EveryAliasIsServed'
  <2>. SUFFICES ASSUME NEW q \in Paths, aliasRow[q] # None, byID'[aliasRow[q].image] # None
                PROVE  \/ aliases'[q] = aliasRow[q].image
                       \/ aliasRow[q].image \in tainted
                       \/ \E r \in Procs : PublishingAlias(r, q)'
    BY <1>2 DEF EveryAliasIsServed
  <2>1. aliasRow[q].image \in Images
    BY <1>0 DEF AliasRow
  <2>2. ASSUME ~PublishingAlias(p, q), byID[aliasRow[q].image] # None,
               aliases[q] = aliasRow[q].image => aliases'[q] = aliasRow[q].image
        PROVE  \/ aliases'[q] = aliasRow[q].image
               \/ aliasRow[q].image \in tainted
               \/ \E r \in Procs : PublishingAlias(r, q)'
    <3>1. \A r \in Procs : PublishingAlias(r, q) => PublishingAlias(r, q)'
      BY <1>2, <2>2 DEF PublishingAlias, TakesPath
    <3>. QED BY <2>2, <3>1 DEF AliasServedInv, EveryAliasIsServed
  <2>3. CASE IndexRemoveImage(p)
    <3>1. /\ ~PublishingAlias(p, q)
          /\ byID' = [byID EXCEPT ![i] = None]
          /\ aliases'[q] = IF aliases[q] = i THEN None ELSE aliases[q]
      BY <2>3 DEF IndexRemoveImage, AliasesWithout, PublishingAlias, TakesPath
    <3>2. aliasRow[q].image # i /\ byID[aliasRow[q].image] # None
      BY <1>0, <2>1, <3>1
    <3>. QED BY <2>2, <3>1, <3>2
  <2>4. CASE IndexAddAlias(p)
    <3>1. /\ aliases' = (IF byID[i] = None THEN aliases ELSE [aliases EXCEPT ![q0] = i])
          /\ byID' = byID
      BY <2>4 DEF IndexAddAlias, AliasAdded
    <3>2. CASE q = q0
      <4>1. aliasRow[q].image = i
        BY <1>0, <1>1, <2>4, <3>2 DEF IndexAddAlias, ReliesAlias, WellFormed
      <4>. QED BY <1>0, <3>1, <3>2, <4>1
    <3>3. CASE q # q0
      <4>1. aliases'[q] = aliases[q] /\ ~PublishingAlias(p, q)
        BY <1>0, <3>1, <3>3 DEF PublishingAlias
      <4>. QED BY <2>2, <3>1, <4>1
    <3>. QED BY <3>2, <3>3
  <2>5. CASE IndexRemoveAlias(p)
    <3>1. /\ aliases' = [aliases EXCEPT ![q0] = None] /\ byID' = byID
          /\ pc[p] = "index" /\ job[p].op = "deleteAlias"
      BY <2>5 DEF IndexRemoveAlias
    <3>2. q # q0
      BY <1>0, <3>1 DEF ReliesAlias
    <3>3. aliases'[q] = aliases[q] /\ ~PublishingAlias(p, q)
      BY <1>0, <3>1, <3>2 DEF PublishingAlias
    <3>. QED BY <2>2, <3>1, <3>3
  <2>. QED BY <2>3, <2>4, <2>5
<1>4. ConversionsOfLost'
  BY <1>1, LostConversions DEF AliasServedInv
<1>5. NewImagesHaveOneAlias'
  BY <1>1, <1>2 DEF AliasServedInv, NewImagesHaveOneAlias
<1>6. AliasSnapshotIsWhole'
  <2>1. \A r \in Procs : pc'[r] # "replace"
    BY <1>0, <1>1, <1>2, NobodyLoads DEF ReaderSteps, LoadSteps
  <2>. QED BY <2>1 DEF AliasSnapshotIsWhole
<1>. QED BY <1>3, <1>4, <1>5, <1>6 DEF AliasServedInv

\* Every step keeps the aliases of served images in the index.
LEMMA AliasServedStep ==
    CatalogInv /\ FileInv /\ ServedInv /\ AliasServedInv /\ [Next]_vars => AliasServedInv'
<1>. SUFFICES ASSUME CatalogInv, FileInv, ServedInv, AliasServedInv, [Next]_vars
              PROVE  AliasServedInv'
  OBVIOUS
<1>0. /\ Shape /\ pc \in [Procs -> Steps] /\ job \in [Procs -> Job] /\ BarrierIsHeld
      /\ snapshot \in [targets : [Images -> Row \cup {None}],
                       aliases : [Paths -> Images \cup {None}]]
      /\ LockInv /\ TargetInv
      /\ EveryAliasIsServed /\ ConversionsOfLost /\ NewImagesHaveOneAlias /\ AliasSnapshotIsWhole
  BY DEF CatalogInv, LockInv, Shape, TypeOK, AliasServedInv
<1>1. ASSUME NEW p \in Procs, OwnStep(p) PROVE AliasServedInv'
  <2>0. /\ \A q \in Procs \ {p} : pc'[q] = pc[q] /\ job'[q] = job[q]
        /\ tainted' = tainted
    BY <1>0, <1>1, OthersKeep, TaintKept
  <2>1. CASE ~AliasWrite(p)
    BY <1>1, <2>1, AliasServedQuiet
  <2>2. CASE InsertImport(p) \/ InsertAlias(p) \/ DeleteAlias(p) \/ DeleteImage(p)
    BY <2>2, AliasServedByRow
  <2>3. CASE IndexRemoveImage(p) \/ IndexAddAlias(p) \/ IndexRemoveAlias(p)
    BY <2>3, AliasServedByIndex
  <2>4. CASE LoadAliases(p)
    <3>1. /\ UNCHANGED <<aliasRow, byID, aliases>> /\ job' = job /\ pc[p] = "loadAliases"
          /\ pc'[p] = "replace"
          /\ snapshot' = [snapshot EXCEPT !.aliases = BuildAliases(snapshot.targets)]
      BY <1>0, <2>4 DEF LoadAliases, db, index
    <3>2. \A r \in Procs, q \in Paths : PublishingAlias(r, q) => PublishingAlias(r, q)'
      BY <2>0, <3>1 DEF PublishingAlias, TakesPath
    <3>3. EveryAliasIsServed'
      BY <1>0, <2>0, <3>1, <3>2 DEF EveryAliasIsServed
    <3>4. ConversionsOfLost' /\ NewImagesHaveOneAlias'
      <4>1. \A r \in Procs : pc'[r] = "index" => pc[r] = "index"
        BY <2>0, <3>1
      <4>. QED BY <1>0, <2>0, <3>1, <4>1 DEF ConversionsOfLost, NewImagesHaveOneAlias
    <3>5. AliasSnapshotIsWhole'
      <4>1. snapshot'.targets = snapshot.targets /\ snapshot'.aliases = BuildAliases(snapshot.targets)
        BY <1>0, <3>1
      <4>2. \A q \in Paths : (aliasRow[q] # None /\ snapshot.targets[aliasRow[q].image] # None)
                => BuildAliases(snapshot.targets)[q] = aliasRow[q].image
        BY DEF BuildAliases
      <4>. QED BY <3>1, <4>1, <4>2 DEF AliasSnapshotIsWhole
    <3>. QED BY <3>3, <3>4, <3>5 DEF AliasServedInv
  <2>5. CASE ReplaceAll(p)
    <3>1. /\ aliasRow' = aliasRow /\ byID' = snapshot.targets /\ aliases' = snapshot.aliases
          /\ pc[p] = "replace" /\ pc'[p] = "unlock"
      BY <1>0, <2>5 DEF ReplaceAll, db
    <3>2. \A r \in Procs : pc'[r] \notin {"index", "replace"}
      <4>1. \A r \in Procs \ {p} : pc[r] \notin LoadSteps \cup ReaderSteps
        BY <1>0, <3>1, LoadsAlone DEF LoadSteps
      <4>. QED BY <2>0, <3>1, <4>1 DEF LoadSteps, ReaderSteps
    <3>3. EveryAliasIsServed'
      BY <1>0, <3>1 DEF EveryAliasIsServed, AliasSnapshotIsWhole
    <3>. QED BY <3>2, <3>3
         DEF AliasServedInv, ConversionsOfLost, NewImagesHaveOneAlias, AliasSnapshotIsWhole
  <2>. QED BY <2>1, <2>2, <2>3, <2>4, <2>5 DEF AliasWrite
<1>2. ASSUME UNCHANGED <<aliasRow, byID, aliases, snapshot>>, tainted \subseteq tainted',
             \A q \in Procs : \/ pc'[q] = pc[q] /\ job'[q] = job[q]
                              \/ pc[q] = "blocked" /\ pc'[q] = "db" /\ job'[q] = job[q]
                              \/ pc'[q] = "idle" /\ job'[q] = NoJob /\ pc[q] = "unlock"
      PROVE  AliasServedInv'
  <2>1. \A r \in Procs, q \in Paths : PublishingAlias(r, q) => PublishingAlias(r, q)'
    <3>1. \A r \in Procs : pc[r] \in {"index", "indexAlias"} => pc'[r] = pc[r] /\ job'[r] = job[r]
      BY <1>2
    <3>. QED BY <3>1 DEF PublishingAlias, TakesPath
  <2>2. \A r \in Procs : pc'[r] \in {"index", "replace"} => pc[r] = pc'[r] /\ job'[r] = job[r]
    BY <1>2
  <2>3. EveryAliasIsServed'
    BY <1>0, <1>2, <2>1 DEF EveryAliasIsServed
  <2>4. ConversionsOfLost' /\ NewImagesHaveOneAlias' /\ AliasSnapshotIsWhole'
    BY <1>0, <1>2, <2>2 DEF ConversionsOfLost, NewImagesHaveOneAlias, AliasSnapshotIsWhole
  <2>. QED BY <2>3, <2>4 DEF AliasServedInv
<1>3. ASSUME Restart, aliasRow' = aliasRow, \A q \in Procs : pc'[q] = "idle"
      PROVE  AliasServedInv'
  <2>1. byID' = BuildTargets /\ aliases' = BuildAliases(BuildTargets)
    BY <1>3 DEF Restart
  <2>2. EveryAliasIsServed'
    BY <1>3, <2>1 DEF EveryAliasIsServed, BuildAliases
  <2>. QED BY <1>3, <2>2
       DEF AliasServedInv, ConversionsOfLost, NewImagesHaveOneAlias, AliasSnapshotIsWhole
<1>. QED BY <1>0, <1>1, <1>2, <1>3, AloneSteps

\* All six layers hold in every reachable state.
LEMMA AliasServedHolds == Spec => [](CatalogInv /\ FileInv /\ ServedInv /\ AliasServedInv)
<1>1. Init => AliasServedInv
  BY DEF Init, EmptyAliases, AliasServedInv, EveryAliasIsServed, ConversionsOfLost,
         NewImagesHaveOneAlias, AliasSnapshotIsWhole
<1>. QED BY <1>1, AliasServedStep, ServedInvHolds, PTL DEF Spec

(***************************************************************************)
(* An alias of a served image is served, unless its own request is on its  *)
(* way to the index; the one exception is an image whose upload was        *)
(* touched from outside, which a rebuild leaves out and a later conversion *)
(* brings back without its aliases (importer/service.go, alias/service.go, *)
(* delivery/index.go).                                                     *)
(***************************************************************************)
THEOREM CatalogEveryAliasIsServed == Spec => []EveryAliasIsServed
<1>1. AliasServedInv => EveryAliasIsServed
  BY DEF AliasServedInv
<1>. QED BY <1>1, AliasServedHolds, PTL

-----------------------------------------------------------------------------
(* Both halves together.                                                   *)

\* No file was touched from outside, no request is between its statement and
\* the index.
AtRest == tainted = {} /\ \A p \in Procs : pc[p] \notin {"index", "indexAlias"}

AliasTargets == [q \in Paths |-> IF aliasRow[q] = None THEN None ELSE aliasRow[q].image]

(***************************************************************************)
(* Between requests the delivery index is the database: it has exactly the *)
(* rows of images, each as it is, and exactly the paths of image_aliases,  *)
(* so a read served from memory and a read of SQLite answer the same.      *)
(***************************************************************************)
THEOREM CatalogAgreesAtRest == Spec => [](AtRest => byID = rows /\ aliases = AliasTargets)
<1>1. CatalogInv /\ FileInv /\ ServedInv /\ AliasServedInv
          => (AtRest => byID = rows /\ aliases = AliasTargets)
  <2>. SUFFICES ASSUME CatalogInv, ServedInv, AliasServedInv, AtRest
                PROVE  byID = rows /\ aliases = AliasTargets
    OBVIOUS
  <2>0. /\ rows \in [Images -> Row \cup {None}] /\ byID \in [Images -> Row \cup {None}]
        /\ aliasRow \in [Paths -> AliasRow \cup {None}] /\ None \notin AliasRow
        /\ aliases \in [Paths -> Images \cup {None}]
        /\ NoStaleTarget /\ EveryRowIsServed /\ NoStaleAlias /\ EveryAliasIsServed
        /\ AliasRowsHaveImage
    BY CatalogAssumption DEF CatalogInv, LockInv, Shape, TypeOK, TargetInv, AliasInv, ServedInv,
                             AliasServedInv
  <2>1. \A i \in Images : byID[i] = rows[i]
    <3>1. \A p \in Procs, i \in Images : ~Publishing(p, i)
      BY DEF AtRest, Publishing
    <3>. QED BY <2>0, <3>1 DEF NoStaleTarget, EveryRowIsServed, AtRest
  <2>2. \A q \in Paths : aliases[q] = AliasTargets[q]
    <3>. SUFFICES ASSUME NEW q \in Paths PROVE aliases[q] = AliasTargets[q]
      OBVIOUS
    <3>1. aliases[q] # None => aliasRow[q] # None /\ aliasRow[q].image = aliases[q]
      BY <2>0 DEF NoStaleAlias, AtRest
    <3>2. aliasRow[q] # None => aliasRow[q].image \in Images /\ byID[aliasRow[q].image] # None
      BY <2>0, <2>1 DEF AliasRow, AliasRowsHaveImage
    <3>3. aliasRow[q] # None => aliases[q] = aliasRow[q].image
      BY <2>0, <3>2 DEF EveryAliasIsServed, PublishingAlias, AtRest
    <3>. QED BY <3>1, <3>3 DEF AliasTargets
  <2>3. AliasTargets = [q \in Paths |-> AliasTargets[q]]
    BY DEF AliasTargets
  <2>. QED BY <2>0, <2>1, <2>2, <2>3
<1>. QED BY <1>1, AliasServedHolds, PTL
=============================================================================
