---------------------------- MODULE BackupProofs ----------------------------
(***************************************************************************)
(* Machine-checked proofs about datasets, their deletion and their backup, *)
(* for any contents and artifacts and any number of uploads, finalizations,*)
(* deletions, downloads, faults and backups.                               *)
(***************************************************************************)
EXTENDS Backup, TLAPS

States == {"ABSENT", "COMMITTED", "DELETING", "DELETED"}
VersionRow == [status: {"UPLOADING", "READY", "DELETED"}, sha: Contents \cup {None}]
JobRow == [status: {None, "RUNNING", "FAILED", "COMPLETED"}, listed: SUBSET Artifacts]
Rows == [version: VersionRow, deleted: BOOLEAN, run: {None, "ACTIVE", "TERMINAL"},
         artifacts: [Artifacts -> States], job: JobRow]
Bytes == Contents \cup Artifacts \cup {None}
Disk == [Files -> Bytes]
FinalizePcs == {"exists", "hash", "copy", "install"}
Finalizes == [pc: FinalizePcs, etag: Contents, sha: Contents, copied: Bytes, doomed: BOOLEAN]
Publishes == [pc: {"publish"}, artifact: Artifacts]
Deletings == {None, "cancel", "uploads", "datasets", "artifacts"}

(* The service's state is well typed. *)
TypeOK ==
  /\ rows \in Rows /\ disk \in Disk
  /\ puts \subseteq Contents
  /\ section \in {NoSection} \cup Finalizes \cup Publishes
  /\ deleting \in Deletings

Finalizing == section.pc \in FinalizePcs

(* The dataset was deleted, and no upload of its version can begin. *)
Shut(r) == r.deleted /\ r.version.status # "UPLOADING"

(* What rows and files must say of each other, in the service and in a      *)
(* backup.                                                                 *)
RowsOK(r, files) ==
  /\ r.version.status = "READY" => r.version.sha # None
  /\ Consistent(r, files)
  /\ \A a \in Artifacts : r.artifacts[a] = "DELETED" => files[a] = None
  /\ r.job.status = "COMPLETED" =>
       /\ Shut(r) /\ files["part"] = None /\ files["source"] = None
       /\ \A a \in r.job.listed : r.artifacts[a] = "DELETED"

(* No handler will write a part or the object again. *)
Quiet ==
  /\ Shut(rows) /\ puts = {} /\ disk["part"] = None /\ disk["source"] = None
  /\ section.pc = "install" => section.doomed

HandlersOK ==
  /\ deleting # None => /\ Shut(rows)
                        /\ \A a \in rows.job.listed : rows.artifacts[a] \in {"DELETING", "DELETED"}
  /\ Finalizing => rows.version.status \in {"UPLOADING", "DELETED"}
  /\ section.pc = "publish" => rows.artifacts[section.artifact] = "ABSENT"
  /\ deleting \in {"datasets", "artifacts"} => puts = {} /\ disk["part"] = None
  /\ deleting = "artifacts" => Quiet
  /\ rows.job.status = "COMPLETED" => Quiet

DownloadOK == download.call \in Artifacts \cup {None} /\ InstalledIsWhole

ServiceInv == TypeOK /\ RowsOK(rows, disk) /\ HandlersOK /\ DownloadOK

-----------------------------------------------------------------------------
(* Copies. *)

Copying == backup.pc \in {"list", "copy"}
Listed == backup.pc = "copy"
ListRow == [pc: {"list"}, try: Nat, before: Rows]
CopyRow == [pc: {"copy"}, try: Nat, before: Rows, todo: SUBSET Files, files: Disk]
Paths == {"automl.db", "objects", "ticket-secret"}

(* What a row was when the backup began and what the copy says now. *)
CopyOK ==
  Copying =>
    LET b == backup.before IN
    /\ backup \in IF Listed THEN CopyRow ELSE ListRow
    /\ \A a \in Artifacts :
         /\ b.artifacts[a] # "ABSENT" => rows.artifacts[a] # "ABSENT"
         /\ b.artifacts[a] \in {"DELETING", "DELETED"} => rows.artifacts[a] \in {"DELETING", "DELETED"}
         /\ b.artifacts[a] = "DELETED" => disk[a] = None
    /\ b.deleted => rows.deleted
    /\ b.version.status = "READY" /\ ~rows.deleted => rows.version = b.version
    /\ b.job.status = "COMPLETED" => Quiet
    /\ Listed =>
         /\ \A a \in Artifacts :
              /\ b.artifacts[a] = "COMMITTED" /\ rows.artifacts[a] = "COMMITTED"
                   => a \in backup.todo \/ backup.files[a] # None
              /\ b.artifacts[a] = "DELETED" => a \notin backup.todo /\ backup.files[a] = None
         /\ b.version.status = "READY" /\ ~rows.deleted
              => "source" \in backup.todo \/ backup.files["source"] = b.version.sha
         /\ b.job.status = "COMPLETED" =>
              \A f \in {"part", "source"} : f \notin backup.todo /\ backup.files[f] = None

KeptOK == HasBackup => kept.rows \in Rows /\ kept.files \in Disk /\ RowsOK(kept.rows, kept.files)

Lives == [Paths -> {"old", "aside", "new"}]
Restores == [pc: {None, "moving", "done", "mixed"}, step: 0..6, live: Lives, log: BOOLEAN]
RestoreOK ==
  /\ restore \in Restores
  /\ ~Up => backup = NoBackup /\ puts = {} /\ section = NoSection /\ deleting = None
  /\ restore.pc = "moving" =>
       /\ HasBackup
       /\ restore.step >= 4 => restore.live["automl.db"] = "new"
       /\ restore.step >= 5 => restore.live["objects"] = "new"
  /\ restore.pc = "done" => restore.live["automl.db"] = "old" /\ restore.live["objects"] = "old"

(* Of a mixture nothing is known but the types. *)
IInv ==
  /\ TypeOK /\ DownloadOK /\ CopyOK /\ KeptOK /\ RestoreOK
  /\ ~Mixed => ServiceInv

-----------------------------------------------------------------------------
(* The service. *)

(* What no step of the service undoes. *)
Stable ==
  /\ \A a \in Artifacts :
       /\ rows.artifacts[a] # "ABSENT" => rows'.artifacts[a] # "ABSENT"
       /\ rows.artifacts[a] \in {"DELETING", "DELETED"} =>
            rows'.artifacts[a] \in {"DELETING", "DELETED"} /\ (disk[a] = None => disk'[a] = None)
  /\ rows.deleted => rows'.deleted
  /\ Shut(rows) => Shut(rows')
  /\ rows.version.status = "READY" => rows'.version = rows.version \/ Shut(rows')
  /\ Quiet => Quiet'

(* Good steps keep the service's invariant and undo nothing. *)
Good == TypeOK' /\ RowsOK(rows', disk') /\ HandlersOK' /\ Stable

(* The three kinds of files are different. *)
LEMMA FileNames ==
  /\ "part" \in Files /\ "source" \in Files /\ Artifacts \subseteq Files
  /\ \A a \in Artifacts : a # "part" /\ a # "source" /\ a # None
  /\ None \notin Contents
BY DatasetsAssumption DEF Files

(* Writing one file. *)
LEMMA FileWritten ==
  ASSUME disk \in Disk, NEW f \in Files, NEW content \in Bytes, SetFile(f, content)
  PROVE  disk' \in Disk /\ disk'[f] = content /\ \A g \in Files : g # f => disk'[g] = disk[g]
BY DEF SetFile, Disk

(* The parts of the rows. *)
LEMMA RowParts ==
  ASSUME rows \in Rows
  PROVE  /\ rows.version \in VersionRow /\ rows.job \in JobRow
         /\ rows.artifacts \in [Artifacts -> States] /\ rows.run \in {None, "ACTIVE", "TERMINAL"}
BY DEF Rows

(* Steps that change neither the version, the artifacts, the job nor a file. *)
LEMMA RowsKept ==
  ASSUME TypeOK, RowsOK(rows, disk), HandlersOK, UNCHANGED disk, rows' \in Rows,
         rows'.version = rows.version, rows'.deleted = rows.deleted, rows'.artifacts = rows.artifacts, rows'.job = rows.job,
         TypeOK',
         deleting' \in {deleting, None},
         puts' = {} \/ puts' = puts \/ rows.version.status = "UPLOADING",
         \/ section' = section
         \/ section' = NoSection
         \/ section'.pc \in FinalizePcs /\ rows.version.status = "UPLOADING"
         \/ section'.pc = "publish" /\ rows.artifacts[section'.artifact] = "ABSENT"
         \/ /\ Finalizing /\ section'.pc \in FinalizePcs
            /\ section'.pc = "install" => disk["part"] # None
  PROVE  Good
<1>1. RowsOK(rows', disk')
  BY DEF RowsOK, Shut, Consistent
<1>2. Quiet => Quiet'
  BY DEF Quiet, Shut, RowsOK, NoSection, None, FinalizePcs
<1>3. HandlersOK'
  BY <1>2 DEF HandlersOK, Finalizing, Shut, RowsOK, NoSection, None, FinalizePcs, Quiet
<1>4. Stable
  BY <1>2 DEF Stable, Shut
<1>5. QED
  BY <1>1, <1>3, <1>4 DEF Good

(* Steps that leave rows, files and handlers alone. *)
LEMMA Undisturbed ==
  ASSUME TypeOK, RowsOK(rows, disk), HandlersOK, UNCHANGED <<rows, disk, puts, section, deleting>>
  PROVE  Good
<1>1. TypeOK' /\ rows' \in Rows
  BY DEF TypeOK
<1>2. QED
  BY <1>1, RowsKept

-----------------------------------------------------------------------------
(* Uploads and finalize. *)

(* A new upload starts only while the version is UPLOADING. *)
LEMMA PutBeginsGood ==
  ASSUME TypeOK, RowsOK(rows, disk), HandlersOK, NEW c \in Contents, PutBegins(c)
  PROVE  Good
<1>1. TypeOK' /\ rows' \in Rows
  BY DEF TypeOK, PutBegins
<1>2. QED
  BY <1>1, RowsKept DEF PutBegins, UploadActive, Version

(* An upload that ends still streams, so no deletion has removed its file. *)
LEMMA PutEndsGood ==
  ASSUME TypeOK, RowsOK(rows, disk), HandlersOK, NEW c \in Contents, PutEnds(c)
  PROVE  Good
<1>1. /\ disk' \in Disk /\ disk'["part"] = c
      /\ \A g \in Files : g # "part" => disk'[g] = disk[g]
  BY FileNames, FileWritten DEF PutEnds, TypeOK, Bytes
<1>2. /\ rows' = rows /\ section' = section /\ deleting' = deleting
      /\ puts' \subseteq Contents /\ puts # {}
  BY DEF PutEnds, TypeOK
<1>3. ~Quiet /\ deleting \notin {"datasets", "artifacts"} /\ rows.job.status # "COMPLETED"
  BY <1>2 DEF Quiet, HandlersOK
<1>4. TypeOK'
  BY <1>1, <1>2 DEF TypeOK
<1>5. \A a \in Artifacts : disk'[a] = disk[a]
  BY <1>1, FileNames
<1>6. disk'["source"] = disk["source"]
  BY <1>1, FileNames
<1>7. RowsOK(rows', disk')
  BY <1>2, <1>3, <1>5, <1>6 DEF RowsOK, Shut, Consistent
<1>8. HandlersOK'
  BY <1>2, <1>3 DEF HandlersOK, Finalizing, Shut
<1>9. Stable
  BY <1>2, <1>3, <1>5 DEF Stable, Shut
<1>10. QED
  BY <1>4, <1>7, <1>8, <1>9 DEF Good

(* finalize starts while the version is UPLOADING. *)
LEMMA FinalizeBeginsGood ==
  ASSUME TypeOK, RowsOK(rows, disk), HandlersOK, NEW declared \in Declarations, FinalizeBegins(declared)
  PROVE  Good
<1>1. section' \in Finalizes
  BY DEF FinalizeBegins, Finalizes, FinalizePcs, Declarations, Bytes
<1>2. TypeOK' /\ rows' \in Rows
  BY <1>1 DEF TypeOK, FinalizeBegins
<1>3. section'.pc \in FinalizePcs
  BY <1>1 DEF Finalizes
<1>4. QED
  BY <1>2, <1>3, RowsKept DEF FinalizeBegins, UploadActive, Version

(* What a finalize section holds. *)
LEMMA FinalizeSection ==
  ASSUME TypeOK, Finalizing
  PROVE  section \in Finalizes /\ section.sha \in Contents /\ section.copied \in Bytes
BY DEF TypeOK, Finalizing, FinalizePcs, NoSection, None, Publishes, Finalizes

(* A finalize that raises writes nothing. *)
LEMMA FinalizeRaisesGood ==
  ASSUME TypeOK, RowsOK(rows, disk), HandlersOK, FinalizeRaises, UNCHANGED <<disk, puts, deleting>>
  PROVE  Good
<1>1. TypeOK' /\ rows' \in Rows
  BY DEF TypeOK, FinalizeRaises
<1>2. QED
  BY <1>1, RowsKept DEF FinalizeRaises

(* finalize turns the version READY with the digest of the object that is   *)
(* there, or behind a deletion that will remove that object.               *)
LEMMA ReadiedGood ==
  ASSUME TypeOK, RowsOK(rows, disk), HandlersOK, Finalizing, Readied, UNCHANGED <<puts, deleting>>,
         disk' \in Disk, disk'["source"] = section.sha,
         \A g \in Files : g # "source" => disk'[g] = disk[g],
         ~Quiet
  PROVE  Good
<1> DEFINE row == [status |-> "READY", sha |-> section.sha]
<1>1. section \in Finalizes /\ section.sha \in Contents
  BY FinalizeSection
<1>2. rows.version.status \in {"UPLOADING", "DELETED"}
  BY DEF HandlersOK
<1>3. row \in VersionRow
  BY <1>1 DEF VersionRow
<1>4. rows' = [rows EXCEPT !.version = row] /\ section' = NoSection
  BY DEF Readied, Version
<1> HIDE DEF row
<1>5. /\ rows'.version = row /\ rows'.artifacts = rows.artifacts /\ rows'.job = rows.job
      /\ rows'.deleted = rows.deleted /\ rows' \in Rows
  BY <1>3, <1>4 DEF TypeOK, Rows
<1>6. row.status = "READY" /\ row.sha = section.sha /\ row.sha # None
  BY <1>1, FileNames DEF row
<1>7. Shut(rows) => Shut(rows')
  BY <1>5, <1>6 DEF Shut
<1>8. \A a \in Artifacts : disk'[a] = disk[a]
  BY FileNames
<1>9. disk'["part"] = disk["part"]
  BY FileNames
<1>10. rows.job.status # "COMPLETED" /\ deleting # "artifacts"
  BY DEF HandlersOK
<1>11. TypeOK'
  BY <1>4, <1>5 DEF TypeOK
<1>12. RowsOK(rows', disk')
  BY <1>5, <1>6, <1>8, <1>10 DEF RowsOK, Consistent
<1>13. HandlersOK'
  BY <1>4, <1>5, <1>7, <1>9, <1>10 DEF HandlersOK, Finalizing, FinalizePcs, NoSection, None
<1>14. Stable
  BY <1>2, <1>5, <1>7, <1>8 DEF Stable
<1>15. QED
  BY <1>11, <1>12, <1>13, <1>14 DEF Good

(* The object of an earlier attempt is there: nothing removed it yet. *)
LEMMA FinalizeFindsObjectGood ==
  ASSUME TypeOK, RowsOK(rows, disk), HandlersOK, FinalizeFindsObject
  PROVE  Good
<1>1. UNCHANGED <<disk, puts, deleting>> /\ Finalizing
  BY DEF FinalizeFindsObject, At, Finalizing, FinalizePcs
<1>2. CASE disk["source"] = section.sha
  <2>1. Readied /\ section.sha \in Contents
    BY <1>1, <1>2, FinalizeSection DEF FinalizeFindsObject
  <2>2. ~Quiet
    BY <1>2, <2>1, FileNames DEF Quiet
  <2>3. disk' \in Disk
    BY <1>1 DEF TypeOK
  <2>4. QED
    BY <1>1, <1>2, <2>1, <2>2, <2>3, ReadiedGood
<1>3. CASE disk["source"] # section.sha
  BY <1>1, <1>3, FinalizeRaisesGood DEF FinalizeFindsObject
<1>4. QED
  BY <1>2, <1>3

(* A finalize that goes on without writing. *)
LEMMA FinalizeGoesOn ==
  ASSUME TypeOK, RowsOK(rows, disk), HandlersOK, Finalizing,
         NEW pc \in {"copy", "install"}, NEW copied \in Bytes,
         section' = [section EXCEPT !.pc = pc, !.copied = copied],
         pc = "install" => disk["part"] # None,
         UNCHANGED <<rows, disk, puts, deleting>>
  PROVE  Good
<1>1. section' \in Finalizes /\ section'.pc = pc
  BY FinalizeSection DEF Finalizes, FinalizePcs
<1>2. TypeOK' /\ rows' \in Rows
  BY <1>1 DEF TypeOK
<1>3. section'.pc \in FinalizePcs
  BY <1>1 DEF FinalizePcs
<1>4. QED
  BY <1>1, <1>2, <1>3, RowsKept

(* Hashing the part. *)
LEMMA FinalizeHashesGood ==
  ASSUME TypeOK, RowsOK(rows, disk), HandlersOK, FinalizeHashes
  PROVE  Good
<1>1. UNCHANGED <<disk, puts, deleting>> /\ Finalizing
  BY DEF FinalizeHashes, At, Finalizing, FinalizePcs
<1>2. section \in Finalizes /\ section.copied \in Bytes
  BY <1>1, FinalizeSection
<1>3. [section EXCEPT !.pc = "copy"] = [section EXCEPT !.pc = "copy", !.copied = section.copied]
  BY <1>2 DEF Finalizes
<1>4. CASE FinalizeRaises
  BY <1>1, <1>4, FinalizeRaisesGood
<1>5. CASE section' = [section EXCEPT !.pc = "copy"] /\ UNCHANGED rows
  BY <1>1, <1>2, <1>3, <1>5, FinalizeGoesOn
<1>6. QED
  BY <1>4, <1>5 DEF FinalizeHashes

(* Copying the part, which is there. *)
LEMMA FinalizeCopiesGood ==
  ASSUME TypeOK, RowsOK(rows, disk), HandlersOK, FinalizeCopies
  PROVE  Good
<1>1. UNCHANGED <<disk, puts, deleting>> /\ Finalizing
  BY DEF FinalizeCopies, At, Finalizing, FinalizePcs
<1>2. disk["part"] \in Bytes
  BY FileNames DEF TypeOK, Disk
<1>3. CASE FinalizeRaises
  BY <1>1, <1>3, FinalizeRaisesGood
<1>4. CASE There("part") /\ section' = [section EXCEPT !.pc = "install", !.copied = disk["part"]]
           /\ UNCHANGED rows
  BY <1>1, <1>2, <1>4, FinalizeGoesOn DEF There
<1>5. QED
  BY <1>3, <1>4 DEF FinalizeCopies

(* Installing the copy, unless its temporary file was removed. *)
LEMMA FinalizeInstallsGood ==
  ASSUME TypeOK, RowsOK(rows, disk), HandlersOK, FinalizeInstalls
  PROVE  Good
<1>1. UNCHANGED <<puts, deleting>> /\ Finalizing /\ section.pc = "install"
  BY DEF FinalizeInstalls, At, Finalizing, FinalizePcs
<1>2. CASE Intact /\ ~section.doomed
  <2>1. Readied /\ SetFile("source", section.copied) /\ section.copied = section.sha
    BY <1>2 DEF FinalizeInstalls, Intact
  <2>2. ~Quiet
    BY <1>1, <1>2 DEF Quiet
  <2>3. /\ disk' \in Disk /\ disk'["source"] = section.copied
        /\ \A g \in Files : g # "source" => disk'[g] = disk[g]
    BY <1>1, <2>1, FileNames, FinalizeSection, FileWritten DEF TypeOK
  <2>4. QED
    BY <1>1, <2>1, <2>2, <2>3, ReadiedGood
<1>3. CASE ~(Intact /\ ~section.doomed)
  BY <1>1, <1>3, FinalizeRaisesGood DEF FinalizeInstalls
<1>4. QED
  BY <1>2, <1>3

-----------------------------------------------------------------------------
(* The run and its artifacts. *)

(* A run is made from a READY version. *)
LEMMA CreateRunGood ==
  ASSUME TypeOK, RowsOK(rows, disk), HandlersOK, CreateRun
  PROVE  Good
<1>1. /\ rows' \in Rows /\ rows'.version = rows.version /\ rows'.deleted = rows.deleted
      /\ rows'.artifacts = rows.artifacts /\ rows'.job = rows.job
  BY DEF CreateRun, TypeOK, Rows
<1>2. UNCHANGED <<disk, puts, section, deleting>>
  BY DEF CreateRun
<1>3. TypeOK'
  BY <1>1, <1>2 DEF TypeOK
<1>4. QED
  BY <1>1, <1>2, <1>3, RowsKept

(* A publication starts for an artifact that has no row. *)
LEMMA PublishBeginsGood ==
  ASSUME TypeOK, RowsOK(rows, disk), HandlersOK, NEW a \in Artifacts, PublishBegins(a)
  PROVE  Good
<1>1. section' \in Publishes /\ section'.pc = "publish" /\ section'.artifact = a
  BY DEF PublishBegins, Publishes
<1>2. TypeOK' /\ rows' \in Rows
  BY <1>1 DEF TypeOK, PublishBegins
<1>3. UNCHANGED <<rows, disk, puts, deleting>> /\ rows.artifacts[a] = "ABSENT"
  BY DEF PublishBegins
<1>4. QED
  BY <1>1, <1>2, <1>3, RowsKept

(* What a publication holds: an artifact without a row, which no deletion   *)
(* has listed.                                                             *)
LEMMA PublishSection ==
  ASSUME TypeOK, HandlersOK, section.pc = "publish"
  PROVE  section.artifact \in Artifacts /\ rows.artifacts[section.artifact] = "ABSENT"
BY DEF TypeOK, HandlersOK, FinalizePcs, NoSection, None, Publishes, Finalizes

(* A publication ends with its bytes and its row. *)
LEMMA PublishEndsGood ==
  ASSUME TypeOK, RowsOK(rows, disk), HandlersOK, PublishEnds
  PROVE  Good
<1> DEFINE a == section.artifact
<1>1. a \in Artifacts /\ rows.artifacts[a] = "ABSENT" /\ section.pc = "publish"
  BY PublishSection DEF PublishEnds, At
<1>2. PICK run \in {"ACTIVE", "TERMINAL"} :
        rows' = [rows EXCEPT !.artifacts[a] = "COMMITTED", !.run = run]
  BY DEF PublishEnds
<1>3. SetFile(a, a) /\ UNCHANGED <<puts, deleting>> /\ section' = NoSection
  BY DEF PublishEnds, Stored
<1> HIDE DEF a
<1>4. /\ rows' \in Rows /\ rows'.version = rows.version /\ rows'.job = rows.job
      /\ rows'.deleted = rows.deleted
      /\ rows'.artifacts = [rows.artifacts EXCEPT ![a] = "COMMITTED"]
  BY <1>1, <1>2 DEF TypeOK, Rows, States
<1>5. /\ disk' \in Disk /\ disk'[a] = a /\ a # None
      /\ \A g \in Files : g # a => disk'[g] = disk[g]
  BY <1>1, <1>3, FileNames, FileWritten DEF TypeOK, Bytes
<1>6. disk'["part"] = disk["part"] /\ disk'["source"] = disk["source"]
  BY <1>1, <1>5, FileNames
<1>7. \A b \in Artifacts : b # a => disk'[b] = disk[b] /\ rows'.artifacts[b] = rows.artifacts[b]
  BY <1>4, <1>5, FileNames, RowParts DEF TypeOK
<1>8. rows'.artifacts[a] = "COMMITTED"
  BY <1>1, <1>4, RowParts DEF TypeOK
<1>9. /\ deleting # None => a \notin rows.job.listed
      /\ rows.job.status = "COMPLETED" => a \notin rows.job.listed
      /\ rows.job.listed \subseteq Artifacts
  BY <1>1, RowParts DEF HandlersOK, RowsOK, TypeOK, JobRow
<1>10. TypeOK'
  BY <1>3, <1>4, <1>5 DEF TypeOK
<1>11. RowsOK(rows', disk')
  BY <1>4, <1>5, <1>6, <1>7, <1>8, <1>9 DEF RowsOK, Consistent, Shut
<1>12. Quiet => Quiet'
  BY <1>3, <1>4, <1>6 DEF Quiet, Shut, NoSection, None
<1>13. HandlersOK'
  BY <1>3, <1>4, <1>6, <1>7, <1>9, <1>12 DEF HandlersOK, Shut, Finalizing, FinalizePcs, NoSection, None
<1>14. Stable
  BY <1>1, <1>4, <1>7, <1>8, <1>12 DEF Stable, Shut
<1>15. QED
  BY <1>10, <1>11, <1>13, <1>14 DEF Good


-----------------------------------------------------------------------------
(* Deletion. *)

(* The first two transactions of a deletion close nothing yet. *)
LEMMA BeginningGood ==
  ASSUME TypeOK, RowsOK(rows, disk), HandlersOK, rows' \in {JobMade, DatasetDeleted},
         HandlersGone, UNCHANGED disk
  PROVE  Good
<1> DEFINE job == [status |-> "RUNNING", listed |-> ListedArtifacts]
<1>1. job \in JobRow /\ job.status = "RUNNING" /\ "RUNNING" # "COMPLETED"
  BY DEF JobRow, ListedArtifacts
<1>2. \/ rows' = [rows EXCEPT !.job = job]
      \/ rows' = [[rows EXCEPT !.job = job] EXCEPT !.deleted = TRUE]
  BY DEF JobMade, DatasetDeleted
<1> HIDE DEF job
<1>3. /\ rows' \in Rows /\ rows'.version = rows.version /\ rows'.artifacts = rows.artifacts
      /\ rows'.job = job /\ (rows.deleted => rows'.deleted)
  BY <1>1, <1>2 DEF TypeOK, Rows
<1>4. puts' = {} /\ section' = NoSection /\ deleting' = None
  BY DEF HandlersGone
<1>5. TypeOK'
  BY <1>3, <1>4 DEF TypeOK, Deletings
<1>6. RowsOK(rows', disk')
  BY <1>1, <1>3 DEF RowsOK, Consistent
<1>7. Quiet => Quiet'
  BY <1>3, <1>4 DEF Quiet, Shut, NoSection, None
<1>8. HandlersOK'
  BY <1>1, <1>3, <1>4 DEF HandlersOK, Finalizing, FinalizePcs, NoSection, None
<1>9. Stable
  BY <1>3, <1>7 DEF Stable, Shut
<1>10. QED
  BY <1>5, <1>6, <1>8, <1>9 DEF Good

(* The others close the version, then the artifacts that are listed. *)
LEMMA RevokedGood ==
  ASSUME TypeOK, RowsOK(rows, disk), HandlersOK,
         NEW as \in SUBSET ListedArtifacts, rows' = Revoked(as), UNCHANGED disk,
         \/ /\ as = ListedArtifacts /\ deleting' \in {"cancel", "uploads"}
            /\ UNCHANGED <<puts, section>>
         \/ HandlersGone
  PROVE  Good
<1> DEFINE artifacts == [a \in Artifacts |-> IF a \in as THEN "DELETING" ELSE rows.artifacts[a]]
           job == [status |-> "RUNNING", listed |-> ListedArtifacts]
<1>1. rows' = [[[rows EXCEPT !.job = job] EXCEPT !.deleted = TRUE]
                 EXCEPT !.version = Marked, !.artifacts = artifacts]
  <2>1. DatasetDeleted.artifacts = rows.artifacts
    BY DEF DatasetDeleted, JobMade, TypeOK, Rows
  <2>2. QED
    BY <2>1 DEF Revoked, DatasetDeleted, JobMade
<1>2. \/ HandlersGone
      \/ deleting' \in {"cancel", "uploads"} /\ UNCHANGED <<puts, section>>
  OBVIOUS
<1>3. Marked \in VersionRow /\ Marked.status = "DELETED"
  BY RowParts DEF TypeOK, Marked, VersionRow
<1>4. artifacts \in [Artifacts -> States] /\ job \in JobRow
  BY RowParts DEF TypeOK, States, JobRow, ListedArtifacts
<1>5. /\ job.status = "RUNNING" /\ job.listed = ListedArtifacts
      /\ \A a \in Artifacts : artifacts[a] = IF a \in as THEN "DELETING" ELSE rows.artifacts[a]
      /\ \A a \in as : a \in Artifacts /\ rows.artifacts[a] # "ABSENT"
  BY DEF ListedArtifacts
<1> HIDE DEF artifacts, job
<1>6. /\ rows' \in Rows /\ rows'.version = Marked /\ rows'.deleted
      /\ rows'.artifacts = artifacts /\ rows'.job = job
  BY <1>1, <1>3, <1>4 DEF TypeOK, Rows
<1>7. Shut(rows')
  BY <1>3, <1>6 DEF Shut
<1>8. TypeOK'
  BY <1>2, <1>6 DEF TypeOK, Deletings, HandlersGone
<1>9. RowsOK(rows', disk')
  BY <1>3, <1>5, <1>6 DEF RowsOK, Consistent
<1>10. Quiet => Quiet'
  BY <1>2, <1>7 DEF Quiet, HandlersGone, NoSection, None
<1>11. section.pc = "publish" => artifacts[section.artifact] = "ABSENT"
  BY <1>5, PublishSection
<1>12. HandlersOK'
  <2>1. CASE HandlersGone
    BY <1>5, <1>6, <2>1 DEF HandlersOK, HandlersGone, Finalizing, FinalizePcs, NoSection, None
  <2>2. CASE as = ListedArtifacts /\ deleting' \in {"cancel", "uploads"} /\ UNCHANGED <<puts, section>>
    BY <1>3, <1>5, <1>6, <1>7, <1>11, <2>2 DEF HandlersOK, Finalizing, ListedArtifacts
  <2>3. QED
    BY <2>1, <2>2
<1>13. Stable
  BY <1>5, <1>6, <1>7, <1>10 DEF Stable
<1>14. QED
  BY <1>8, <1>9, <1>12, <1>13 DEF Good

(* The deletion closes the rows first, all of them or - where the process   *)
(* dies - some.                                                            *)
LEMMA DeleteBeginsGood ==
  ASSUME TypeOK, RowsOK(rows, disk), HandlersOK, DeleteBegins \/ CrashInDeletion
  PROVE  Good
<1>1. CASE DeleteBegins
  BY <1>1, RevokedGood DEF DeleteBegins
<1>2. CASE CrashInDeletion
  <2>1. CASE rows' \in {JobMade, DatasetDeleted}
    BY <1>2, <2>1, BeginningGood DEF CrashInDeletion
  <2>2. CASE \E as \in SUBSET ListedArtifacts : rows' = Revoked(as)
    BY <1>2, <2>2, RevokedGood DEF CrashInDeletion
  <2>3. QED
    BY <1>2, <2>1, <2>2 DEF CrashInDeletion
<1>3. QED
  BY <1>1, <1>2

(* A deletion that fails has removed files whose rows are closed. *)
LEMMA DeleteFailsGood ==
  ASSUME TypeOK, RowsOK(rows, disk), HandlersOK, deleting # None, DeleteFails,
         UNCHANGED <<puts, section>>, disk' \in Disk,
         \A g \in Files : disk'[g] = disk[g] \/ (g \in {"part", "source"} /\ disk'[g] = None)
  PROVE  Good
<1>1. /\ rows' \in Rows /\ rows'.version = rows.version /\ rows'.artifacts = rows.artifacts
      /\ rows'.deleted = rows.deleted /\ rows'.job.status = "FAILED" /\ deleting' = None
  BY DEF DeleteFails, TypeOK, Rows, JobRow
<1>2. /\ \A a \in Artifacts : disk'[a] = disk[a]
      /\ disk["part"] = None => disk'["part"] = None
      /\ disk["source"] = None => disk'["source"] = None
  BY FileNames
<1>3. Shut(rows) /\ Shut(rows')
  BY <1>1 DEF HandlersOK, Shut
<1>4. TypeOK'
  BY <1>1 DEF TypeOK, Deletings
<1>5. RowsOK(rows', disk')
  BY <1>1, <1>2, <1>3 DEF RowsOK, Consistent, Shut
<1>6. HandlersOK'
  BY <1>1 DEF HandlersOK, Finalizing, None
<1>7. Quiet => Quiet'
  BY <1>2, <1>3 DEF Quiet
<1>8. Stable
  BY <1>1, <1>2, <1>3, <1>7 DEF Stable
<1>9. QED
  BY <1>4, <1>5, <1>6, <1>8 DEF Good

(* The run is canceled, or had ended. *)
LEMMA DeleteCancelsGood ==
  ASSUME TypeOK, RowsOK(rows, disk), HandlersOK, DeleteCancels
  PROVE  Good
<1>1. UNCHANGED <<disk, puts, section>> /\ deleting = "cancel"
  BY DEF DeleteCancels
<1>2. CASE DeleteFails
  BY <1>1, <1>2, DeleteFailsGood DEF TypeOK, None
<1>3. CASE rows' = [rows EXCEPT !.run = "TERMINAL"] /\ deleting' = "uploads"
  <2>1. /\ rows' \in Rows /\ rows'.version = rows.version /\ rows'.deleted = rows.deleted
        /\ rows'.artifacts = rows.artifacts /\ rows'.job = rows.job
    BY <1>3 DEF TypeOK, Rows
  <2>2. TypeOK'
    BY <1>1, <1>3, <2>1 DEF TypeOK, Deletings
  <2>3. RowsOK(rows', disk')
    BY <1>1, <2>1 DEF RowsOK, Consistent, Shut
  <2>4. Quiet => Quiet'
    BY <1>1, <2>1 DEF Quiet, Shut
  <2>5. HandlersOK'
    BY <1>1, <1>3, <2>1, <2>4 DEF HandlersOK, Shut, Finalizing, None
  <2>6. Stable
    BY <1>1, <2>1, <2>4 DEF Stable, Shut
  <2>7. QED
    BY <2>2, <2>3, <2>5, <2>6 DEF Good
<1>4. QED
  BY <1>2, <1>3 DEF DeleteCancels

(* The directory of the uploads goes, and with it the uploads that stream. *)
LEMMA RemoveUploadsGood ==
  ASSUME TypeOK, RowsOK(rows, disk), HandlersOK, RemoveUploads
  PROVE  Good
<1>1. deleting = "uploads" /\ UNCHANGED section /\ "uploads" # None
  BY DEF RemoveUploads, None
<1>2. SetFile("part", None) =>
        /\ disk' \in Disk /\ disk'["part"] = None
        /\ \A g \in Files : g # "part" => disk'[g] = disk[g]
  BY FileNames, FileWritten DEF TypeOK, Bytes
<1>3. CASE SetFile("part", None) /\ puts' = {} /\ deleting' = "datasets" /\ UNCHANGED rows
  <2>1. TypeOK'
    BY <1>1, <1>2, <1>3 DEF TypeOK, Deletings
  <2>2. Shut(rows) /\ (\A a \in Artifacts : disk'[a] = disk[a]) /\ disk'["source"] = disk["source"]
    BY <1>1, <1>2, <1>3, FileNames DEF HandlersOK
  <2>3. Quiet => Quiet'
    BY <1>1, <1>2, <1>3, <2>2 DEF Quiet, Shut
  <2>4. RowsOK(rows', disk')
    BY <1>2, <1>3, <2>2 DEF RowsOK, Consistent, Shut
  <2>5. HandlersOK'
    BY <1>1, <1>2, <1>3, <2>3 DEF HandlersOK, Shut, Finalizing
  <2>6. Stable
    BY <1>3, <2>2, <2>3 DEF Stable, Shut
  <2>7. QED
    BY <2>1, <2>4, <2>5, <2>6 DEF Good
<1>4. CASE DeleteFails /\ UNCHANGED <<disk, puts>>
  BY <1>1, <1>4, DeleteFailsGood DEF TypeOK
<1>5. CASE DeleteFails /\ SetFile("part", None) /\ UNCHANGED puts
  BY <1>1, <1>2, <1>5, DeleteFailsGood
<1>6. QED
  BY <1>3, <1>4, <1>5 DEF RemoveUploads

(* The directory of the dataset goes, and with it a copy not installed yet. *)
LEMMA RemoveDatasetsGood ==
  ASSUME TypeOK, RowsOK(rows, disk), HandlersOK, RemoveDatasets
  PROVE  Good
<1>1. deleting = "datasets" /\ UNCHANGED puts /\ "datasets" # None
  BY DEF RemoveDatasets, None
<1>2. SetFile("source", None) =>
        /\ disk' \in Disk /\ disk'["source"] = None
        /\ \A g \in Files : g # "source" => disk'[g] = disk[g]
  BY FileNames, FileWritten DEF TypeOK, Bytes
<1>3. CASE /\ SetFile("source", None) /\ deleting' = "artifacts" /\ UNCHANGED rows
           /\ section' = IF Free \/ At("publish") THEN section ELSE [section EXCEPT !.doomed = TRUE]
  <2>1. /\ section' \in {NoSection} \cup Finalizes \cup Publishes
        /\ section'.pc = section.pc
        /\ section'.pc = "install" => section'.doomed
        /\ section'.pc = "publish" => section' = section
    <3>1. CASE Free \/ At("publish")
      BY <1>3, <3>1 DEF TypeOK, Free, At, NoSection, None
    <3>2. CASE ~(Free \/ At("publish"))
      <4>1. section \in Finalizes
        BY <3>2 DEF TypeOK, Free, At, Publishes
      <4>2. section' = [section EXCEPT !.doomed = TRUE]
        BY <1>3, <3>2
      <4>3. section' \in Finalizes /\ section'.pc = section.pc /\ section'.doomed
        BY <4>1, <4>2 DEF Finalizes
      <4>4. section.pc # "publish"
        BY <3>2 DEF At
      <4>5. QED
        BY <4>3, <4>4
    <3>3. QED
      BY <3>1, <3>2
  <2>2. TypeOK'
    BY <1>1, <1>2, <1>3, <2>1 DEF TypeOK, Deletings
  <2>3. /\ Shut(rows) /\ puts = {} /\ disk["part"] = None
        /\ (\A a \in Artifacts : disk'[a] = disk[a]) /\ disk'["part"] = disk["part"]
    BY <1>1, <1>2, <1>3, FileNames DEF HandlersOK
  <2>4. Quiet'
    BY <1>1, <1>2, <1>3, <2>1, <2>3 DEF Quiet, Shut
  <2>5. RowsOK(rows', disk')
    BY <1>2, <1>3, <2>3 DEF RowsOK, Consistent, Shut
  <2>6. HandlersOK'
    BY <1>1, <1>2, <1>3, <2>1, <2>3, <2>4 DEF HandlersOK, Shut, Finalizing
  <2>7. Stable
    BY <1>3, <2>3, <2>4 DEF Stable, Shut
  <2>8. QED
    BY <2>2, <2>5, <2>6, <2>7 DEF Good
<1>4. CASE DeleteFails /\ UNCHANGED <<disk, section>>
  BY <1>1, <1>4, DeleteFailsGood DEF TypeOK
<1>5. CASE DeleteFails /\ SetFile("source", None) /\ UNCHANGED section
  BY <1>1, <1>2, <1>5, DeleteFailsGood
<1>6. QED
  BY <1>3, <1>4, <1>5 DEF RemoveDatasets


(* One listed artifact loses its bytes and its row says so. *)
LEMMA RemoveArtifactGood ==
  ASSUME TypeOK, RowsOK(rows, disk), HandlersOK, RemoveArtifact
  PROVE  Good
<1>1. PICK a \in Undeleted : SetFile(a, None) /\ rows' = [rows EXCEPT !.artifacts[a] = "DELETED"]
  BY DEF RemoveArtifact
<1>2. deleting = "artifacts" /\ UNCHANGED <<puts, section, deleting>>
  BY DEF RemoveArtifact
<1>3. a \in Artifacts /\ rows.artifacts[a] = "DELETING" /\ a \in rows.job.listed
  BY <1>1, RowParts DEF Undeleted, TypeOK, JobRow
<1>4. /\ rows' \in Rows /\ rows'.version = rows.version /\ rows'.job = rows.job
      /\ rows'.deleted = rows.deleted
      /\ rows'.artifacts = [rows.artifacts EXCEPT ![a] = "DELETED"]
  BY <1>1, <1>3 DEF TypeOK, Rows, States
<1>5. /\ disk' \in Disk /\ disk'[a] = None
      /\ \A g \in Files : g # a => disk'[g] = disk[g]
  BY <1>1, <1>3, FileNames, FileWritten DEF TypeOK, Bytes
<1>6. disk'["part"] = disk["part"] /\ disk'["source"] = disk["source"]
  BY <1>3, <1>5, FileNames
<1>7. \A b \in Artifacts : b # a => disk'[b] = disk[b] /\ rows'.artifacts[b] = rows.artifacts[b]
  BY <1>4, <1>5, FileNames, RowParts DEF TypeOK
<1>8. rows'.artifacts[a] = "DELETED"
  BY <1>3, <1>4, RowParts DEF TypeOK
<1>9. Quiet /\ Shut(rows)
  BY <1>2 DEF HandlersOK, None
<1>10. TypeOK'
  BY <1>2, <1>4, <1>5 DEF TypeOK
<1>11. RowsOK(rows', disk')
  BY <1>4, <1>5, <1>6, <1>7, <1>8 DEF RowsOK, Consistent, Shut
<1>12. Quiet'
  BY <1>2, <1>4, <1>6, <1>9 DEF Quiet, Shut
<1>13. section.pc = "publish" => section.artifact # a
  BY <1>3, PublishSection
<1>14. HandlersOK'
  BY <1>2, <1>3, <1>4, <1>7, <1>8, <1>12, <1>13, PublishSection DEF HandlersOK, Shut, Finalizing, Quiet
<1>15. Stable
  BY <1>3, <1>4, <1>5, <1>7, <1>8, <1>12 DEF Stable, Shut
<1>16. QED
  BY <1>10, <1>11, <1>14, <1>15 DEF Good

(* The job is COMPLETED when every listed artifact is DELETED. *)
LEMMA DeleteCompletesGood ==
  ASSUME TypeOK, RowsOK(rows, disk), HandlersOK, DeleteCompletes
  PROVE  Good
<1>1. /\ deleting = "artifacts" /\ UNCHANGED <<disk, puts, section>> /\ deleting' = None
      /\ rows' = [rows EXCEPT !.job.status = "COMPLETED"] /\ Undeleted = {}
  BY DEF DeleteCompletes
<1>2. /\ rows' \in Rows /\ rows'.version = rows.version /\ rows'.artifacts = rows.artifacts
      /\ rows'.deleted = rows.deleted /\ rows'.job.status = "COMPLETED" /\ rows'.job.listed = rows.job.listed
  BY <1>1 DEF TypeOK, Rows, JobRow
<1>3. Quiet /\ Shut(rows)
  BY <1>1 DEF HandlersOK, None
<1>4. \A a \in rows.job.listed : rows.artifacts[a] = "DELETED"
  BY <1>1 DEF HandlersOK, Undeleted, None
<1>5. TypeOK'
  BY <1>1, <1>2 DEF TypeOK, Deletings
<1>6. Quiet'
  BY <1>1, <1>2, <1>3 DEF Quiet, Shut
<1>7. RowsOK(rows', disk')
  BY <1>1, <1>2, <1>3, <1>4 DEF RowsOK, Consistent, Shut, Quiet
<1>8. HandlersOK'
  BY <1>1, <1>2, <1>6 DEF HandlersOK, Finalizing, None
<1>9. Stable
  BY <1>1, <1>2, <1>6 DEF Stable, Shut
<1>10. QED
  BY <1>5, <1>7, <1>8, <1>9 DEF Good

(* A crash loses the handlers and may leave a file that has no row. *)
LEMMA CrashGood ==
  ASSUME TypeOK, RowsOK(rows, disk), HandlersOK, Crash
  PROVE  Good
<1>1. UNCHANGED rows /\ puts' = {} /\ section' = NoSection /\ deleting' = None
  BY DEF Crash, HandlersGone
<1>2. CASE UNCHANGED disk
  <2>1. TypeOK' /\ rows' \in Rows
    BY <1>1, <1>2 DEF TypeOK, Deletings
  <2>2. QED
    BY <1>1, <1>2, <2>1, RowsKept
<1>3. ASSUME NEW f \in Files, disk' \in Disk, \A g \in Files : g # f => disk'[g] = disk[g],
             \/ f = "source" /\ ~Quiet /\ (rows.version.status = "READY" => rows.deleted)
             \/ f \in Artifacts /\ rows.artifacts[f] = "ABSENT"
      PROVE  Good
  <2>1. TypeOK'
    BY <1>1, <1>3 DEF TypeOK, Deletings
  <2>2. \A a \in Artifacts : disk'[a] = disk[a] \/ rows.artifacts[a] = "ABSENT"
    BY <1>3, FileNames
  <2>3. disk'["source"] = disk["source"] \/ (~Quiet /\ (rows.version.status = "READY" => rows.deleted))
    BY <1>3, FileNames
  <2>4. disk'["part"] = disk["part"]
    BY <1>3, FileNames
  <2>5. rows.job.status = "COMPLETED" => Quiet
    BY DEF HandlersOK
  <2>6. RowsOK(rows', disk')
    BY <1>1, <2>2, <2>3, <2>4, <2>5 DEF RowsOK, Consistent, Shut
  <2>7. Quiet => Quiet'
    BY <1>1, <2>3, <2>4 DEF Quiet, Shut, NoSection, None
  <2>8. HandlersOK'
    BY <1>1, <2>5, <2>7 DEF HandlersOK, Finalizing, FinalizePcs, NoSection, None
  <2>9. Stable
    BY <1>1, <2>2, <2>7 DEF Stable, Shut
  <2>10. QED
    BY <2>1, <2>6, <2>8, <2>9 DEF Good
<1>4. CASE At("install") /\ ~section.doomed /\ SetFile("source", section.copied)
  <2>1. Finalizing
    BY <1>4 DEF At, Finalizing, FinalizePcs
  <2>2. /\ disk' \in Disk /\ "source" \in Files
        /\ \A g \in Files : g # "source" => disk'[g] = disk[g]
    BY <1>4, <2>1, FileNames, FinalizeSection, FileWritten DEF TypeOK
  <2>3. ~Quiet /\ rows.version.status # "READY"
    BY <1>4, <2>1 DEF Quiet, At, HandlersOK
  <2>4. QED
    BY <1>3, <2>2, <2>3
<1>5. CASE At("publish") /\ Stored(section.artifact)
  <2>1. section.artifact \in Artifacts /\ rows.artifacts[section.artifact] = "ABSENT"
    BY <1>5, PublishSection DEF At
  <2>2. /\ disk' \in Disk /\ section.artifact \in Files
        /\ \A g \in Files : g # section.artifact => disk'[g] = disk[g]
    BY <1>5, <2>1, FileNames, FileWritten DEF TypeOK, Bytes, Stored
  <2>3. QED
    BY <1>3, <2>1, <2>2
<1>6. QED
  BY <1>2, <1>4, <1>5 DEF Crash

-----------------------------------------------------------------------------
(* The SDK's download. *)

(* A download changes nothing of the service. *)
LEMMA DownloadGood ==
  ASSUME TypeOK, RowsOK(rows, disk), HandlersOK, Download
  PROVE  Good
<1>1. UNCHANGED <<rows, disk, puts, section, deleting>>
  BY DEF Download, DownloadBegins, Receive, Refused, Interrupted, Install, SetDownload
<1>2. QED
  BY <1>1, Undisturbed

(* Only a whole artifact is installed. *)
LEMMA DownloadStep ==
  ASSUME DownloadOK, Download
  PROVE  DownloadOK'
<1>1. ASSUME NEW call \in Artifacts \cup {None}, NEW partial, NEW target,
             SetDownload(call, partial, target),
             target = download.target \/ \E a \in Artifacts : target = Whole(a)
      PROVE  DownloadOK'
  BY <1>1 DEF DownloadOK, SetDownload, InstalledIsWhole, Whole
<1>2. \A a \in Artifacts : DownloadBegins(a) => DownloadOK'
  BY <1>1 DEF DownloadBegins, Verified
<1>3. Receive \/ Refused \/ Interrupted => DownloadOK'
  BY <1>1 DEF Receive, Refused, Interrupted, DownloadOK, Downloading
<1>4. Install => DownloadOK'
  <2>1. SUFFICES ASSUME Install PROVE DownloadOK'
    OBVIOUS
  <2>2. download.call \in Artifacts
    BY <2>1 DEF Install, Downloading, DownloadOK
  <2>3. CASE Verified(download.call)
    BY <1>1, <2>1, <2>2, <2>3 DEF Install, Verified
  <2>4. CASE ~Verified(download.call)
    BY <1>1, <2>1, <2>4 DEF Install
  <2>5. QED
    BY <2>3, <2>4
<1>5. QED
  BY <1>2, <1>3, <1>4 DEF Download


-----------------------------------------------------------------------------
(* The service as a whole. *)

(* Every step of the service keeps its invariant, and undoes nothing that a *)
(* backup relies on.                                                       *)
LEMMA ServiceStep ==
  ASSUME ServiceInv, Next
  PROVE  ServiceInv' /\ Stable
<1>1. TypeOK /\ RowsOK(rows, disk) /\ HandlersOK /\ DownloadOK
  BY DEF ServiceInv
<1>2. CASE Download
  BY <1>1, <1>2, DownloadGood, DownloadStep DEF Good, ServiceInv
<1>3. CASE ~Download
  <2>1. Good
    <3>1. CASE \E c \in Contents : PutBegins(c) \/ PutEnds(c)
      BY <1>1, <3>1, PutBeginsGood, PutEndsGood
    <3>2. CASE \E declared \in Declarations : FinalizeBegins(declared)
      BY <1>1, <3>2, FinalizeBeginsGood
    <3>3. CASE Finalize
      BY <1>1, <3>3, FinalizeFindsObjectGood, FinalizeHashesGood, FinalizeCopiesGood,
         FinalizeInstallsGood DEF Finalize
    <3>4. CASE CreateRun \/ PublishEnds \/ Crash \/ CrashInDeletion
      BY <1>1, <3>4, CreateRunGood, PublishEndsGood, CrashGood, DeleteBeginsGood
    <3>5. CASE \E a \in Artifacts : PublishBegins(a)
      BY <1>1, <3>5, PublishBeginsGood
    <3>6. CASE Delete
      BY <1>1, <3>6, DeleteBeginsGood, DeleteCancelsGood, RemoveUploadsGood, RemoveDatasetsGood,
         RemoveArtifactGood, DeleteCompletesGood DEF Delete
    <3>7. QED
      BY <1>3, <3>1, <3>2, <3>3, <3>4, <3>5, <3>6 DEF Next
  <2>2. UNCHANGED download
    BY <1>3 DEF Next, PutBegins, PutEnds, FinalizeBegins, Finalize, FinalizeFindsObject,
       FinalizeHashes, FinalizeCopies, FinalizeInstalls, CreateRun, PublishBegins, PublishEnds,
       Delete, DeleteBegins, DeleteCancels, RemoveUploads, RemoveDatasets, RemoveArtifact,
       DeleteCompletes, Crash, CrashInDeletion
  <2>3. DownloadOK'
    BY <1>1, <2>2 DEF DownloadOK, InstalledIsWhole, Whole
  <2>4. QED
    BY <2>1, <2>3 DEF Good, ServiceInv
<1>4. QED
  BY <1>2, <1>3

(* Nothing has been stored at the start. *)
LEMMA ServiceInit ==
  ASSUME Init
  PROVE  ServiceInv
<1> DEFINE absent == [a \in Artifacts |-> "ABSENT"]
           job == [status |-> None, listed |-> {}]
<1>1. /\ rows = [version |-> NewVersion, deleted |-> FALSE, run |-> None, artifacts |-> absent, job |-> job]
      /\ disk = [f \in Files |-> None] /\ puts = {} /\ section = NoSection /\ deleting = None
      /\ download.call = None /\ download.target = <<>>
  BY DEF Init
<1>2. /\ NewVersion \in VersionRow /\ NewVersion.status = "UPLOADING"
      /\ absent \in [Artifacts -> States] /\ \A a \in Artifacts : absent[a] = "ABSENT"
      /\ job \in JobRow /\ job.status = None /\ None # "COMPLETED"
  BY DEF NewVersion, VersionRow, States, JobRow, None
<1> HIDE DEF absent, job
<1>3. /\ rows \in Rows /\ rows.version = NewVersion /\ rows.artifacts = absent /\ rows.job = job
  BY <1>1, <1>2 DEF Rows
<1>4. TypeOK
  BY <1>1, <1>3 DEF TypeOK, Disk, Bytes, Deletings
<1>5. RowsOK(rows, disk)
  BY <1>2, <1>3 DEF RowsOK, Consistent
<1>6. HandlersOK
  BY <1>1, <1>2, <1>3 DEF HandlersOK, Finalizing, FinalizePcs, NoSection, None
<1>7. DownloadOK
  BY <1>1 DEF DownloadOK, InstalledIsWhole
<1>8. QED
  BY <1>4, <1>5, <1>6, <1>7 DEF ServiceInv

-----------------------------------------------------------------------------
(* Backup. *)

(* What a backup in progress knows stays true while the service goes on. *)
LEMMA CopyStable ==
  ASSUME TypeOK, Stable, CopyOK, UNCHANGED backup
  PROVE  CopyOK'
<1>1. SUFFICES ASSUME Copying PROVE CopyOK'
  BY DEF CopyOK, Copying
<1> DEFINE b == backup.before
<1>2. /\ \A a \in Artifacts : b.artifacts[a] # "ABSENT" => rows'.artifacts[a] # "ABSENT"
      /\ \A a \in Artifacts :
           b.artifacts[a] \in {"DELETING", "DELETED"} => rows'.artifacts[a] \in {"DELETING", "DELETED"}
      /\ \A a \in Artifacts : b.artifacts[a] = "DELETED" => disk'[a] = None
  BY <1>1 DEF CopyOK, Stable
<1>3. /\ b.deleted => rows'.deleted
      /\ b.version.status = "READY" /\ ~rows'.deleted => rows'.version = b.version /\ ~rows.deleted
  BY <1>1 DEF CopyOK, Stable, Shut
<1>4. b.job.status = "COMPLETED" => Quiet'
  BY <1>1 DEF CopyOK, Stable
<1>5. \A a \in Artifacts :
        b.artifacts[a] = "COMMITTED" /\ rows'.artifacts[a] = "COMMITTED" => rows.artifacts[a] = "COMMITTED"
  BY <1>1, RowParts DEF CopyOK, Stable, TypeOK, States
<1>6. QED
  BY <1>1, <1>2, <1>3, <1>4, <1>5 DEF CopyOK, Copying, Listed

(* The first snapshot is of rows that agree with the files. *)
LEMMA BeginsOK ==
  ASSUME ServiceInv, NEW n \in Nat, backup' = Begun(n), UNCHANGED <<rows, disk, puts, section>>
  PROVE  CopyOK'
<1>1. backup' \in ListRow /\ backup'.pc = "list" /\ backup'.before = rows
  BY DEF Begun, ListRow, ServiceInv, TypeOK
<1>2. Quiet' <=> Quiet
  BY DEF Quiet, Shut
<1>3. QED
  BY <1>1, <1>2 DEF CopyOK, Copying, Listed, ServiceInv, RowsOK, HandlersOK

(* The listing holds every file that the rows name. *)
LEMMA ListObjectsOK ==
  ASSUME ServiceInv, CopyOK, ListObjects, UNCHANGED <<rows, disk, puts, section>>
  PROVE  CopyOK'
<1> DEFINE todo == {f \in Files : There(f)}
           files == [f \in Files |-> None]
<1>1. /\ backup.pc = "list" /\ Copying /\ ~Listed
      /\ backup' = [pc |-> "copy", try |-> backup.try, before |-> backup.before,
                    todo |-> todo, files |-> files]
  BY DEF ListObjects, Copying, Listed
<1>2. backup.before \in Rows /\ backup.try \in Nat
  BY <1>1 DEF CopyOK, ListRow
<1>3. /\ todo \subseteq Files /\ files \in Disk /\ \A f \in Files : files[f] = None
      /\ \A f \in Files : f \in todo <=> disk[f] # None
  BY DEF Disk, Bytes, There
<1> HIDE DEF todo, files
<1>4. /\ backup' \in CopyRow /\ backup'.pc = "copy" /\ backup'.before = backup.before
      /\ backup'.todo = todo /\ backup'.files = files
  BY <1>1, <1>2, <1>3 DEF CopyRow
<1>5. Quiet' <=> Quiet
  BY DEF Quiet, Shut
<1> DEFINE b == backup.before
<1>6. \A a \in Artifacts : rows.artifacts[a] = "COMMITTED" => a \in todo
  BY <1>3, FileNames DEF ServiceInv, RowsOK, Consistent
<1>7. \A a \in Artifacts : b.artifacts[a] = "DELETED" => a \notin todo /\ files[a] = None
  BY <1>1, <1>3, FileNames DEF CopyOK
<1>8. b.version.status = "READY" /\ ~rows.deleted => "source" \in todo
  BY <1>1, <1>3, FileNames DEF CopyOK, ServiceInv, RowsOK, Consistent
<1>9. b.job.status = "COMPLETED" => \A f \in {"part", "source"} : f \notin todo /\ files[f] = None
  BY <1>1, <1>3, FileNames DEF CopyOK, Quiet
<1>10. QED
  BY <1>1, <1>4, <1>5, <1>6, <1>7, <1>8, <1>9 DEF CopyOK, Copying, Listed

(* A file that is copied holds what the rows say now. *)
LEMMA CopyObjectOK ==
  ASSUME ServiceInv, CopyOK, CopyObject, UNCHANGED <<rows, disk, puts, section>>
  PROVE  CopyOK'
<1>1. Listed /\ Copying /\ backup \in CopyRow
  BY DEF CopyObject, CopyOK, Copying, Listed
<1>2. PICK f \in backup.todo : \/ backup' = [backup EXCEPT !.todo = @ \ {f}, !.files[f] = disk[f]]
                               \/ BackupFails
  BY DEF CopyObject
<1>3. CASE BackupFails
  BY <1>3 DEF BackupFails, NoBackup, None, CopyOK, Copying
<1>4. CASE backup' = [backup EXCEPT !.todo = @ \ {f}, !.files[f] = disk[f]]
  <2>1. f \in Files /\ disk[f] \in Bytes /\ backup.files \in Disk
    BY <1>1 DEF CopyRow, ServiceInv, TypeOK, Disk
  <2>2. /\ backup' \in CopyRow /\ backup'.pc = "copy" /\ backup'.before = backup.before
        /\ backup'.todo = backup.todo \ {f}
        /\ backup'.files = [backup.files EXCEPT ![f] = disk[f]]
    BY <1>1, <1>4, <2>1 DEF CopyRow, Disk
  <2>3. backup'.files[f] = disk[f] /\ \A g \in Files : g # f => backup'.files[g] = backup.files[g]
    BY <2>1, <2>2 DEF Disk
  <2>4. Quiet' <=> Quiet
    BY DEF Quiet, Shut
  <2> DEFINE b == backup.before
  <2>5. \A a \in Artifacts : b.artifacts[a] = "COMMITTED" /\ rows.artifacts[a] = "COMMITTED"
          => a \in backup'.todo \/ backup'.files[a] # None
    BY <1>1, <2>2, <2>3, FileNames DEF CopyOK, ServiceInv, RowsOK, Consistent
  <2>6. \A a \in Artifacts : b.artifacts[a] = "DELETED" => a \notin backup'.todo /\ backup'.files[a] = None
    BY <1>1, <1>2, <2>2, <2>3, FileNames DEF CopyOK
  <2>7. b.version.status = "READY" /\ ~rows.deleted
          => "source" \in backup'.todo \/ backup'.files["source"] = b.version.sha
    BY <1>1, <2>2, <2>3, FileNames DEF CopyOK, ServiceInv, RowsOK, Consistent
  <2>8. b.job.status = "COMPLETED" =>
          \A g \in {"part", "source"} : g \notin backup'.todo /\ backup'.files[g] = None
    BY <1>1, <1>2, <2>2, <2>3, FileNames DEF CopyOK
  <2>9. QED
    BY <1>1, <2>2, <2>4, <2>5, <2>6, <2>7, <2>8 DEF CopyOK, Copying, Listed
<1>5. QED
  BY <1>2, <1>3, <1>4


(* A backup is kept when the second snapshot says what the first one said. *)
LEMMA BackupEndsOK ==
  ASSUME ServiceInv, CopyOK, KeptOK, BackupEnds, UNCHANGED <<rows, disk, puts, section>>
  PROVE  CopyOK' /\ KeptOK'
<1>1. Listed /\ Copying /\ backup \in CopyRow /\ backup.todo = {} /\ rows \in Rows
  BY DEF BackupEnds, CopyOK, Copying, Listed, ServiceInv, TypeOK
<1>2. CASE NothingChanged
  <2>1. backup' = NoBackup /\ kept' = [made |-> kept.made + 1, rows |-> rows, files |-> backup.files]
    BY <1>2 DEF BackupEnds
  <2>2. CopyOK'
    BY <2>1 DEF CopyOK, Copying, NoBackup, None
  <2>3. kept'.rows = rows /\ kept'.files = backup.files /\ backup.files \in Disk /\ backup.before = rows
    BY <1>1, <1>2, <2>1 DEF CopyRow, NothingChanged
  <2>4. RowsOK(rows, backup.files)
    BY <1>1, <2>3 DEF CopyOK, ServiceInv, RowsOK, Consistent, Shut
  <2>5. QED
    BY <1>1, <2>2, <2>3, <2>4 DEF KeptOK
<1>3. CASE ~NothingChanged
  <2>1. UNCHANGED kept /\ (BackupFails \/ backup' = Begun(backup.try + 1)) /\ backup.try + 1 \in Nat
    BY <1>1, <1>3 DEF BackupEnds, BackupFails, CopyRow
  <2>2. KeptOK'
    BY <2>1 DEF KeptOK, HasBackup
  <2>3. CASE BackupFails
    BY <2>2, <2>3 DEF BackupFails, NoBackup, None, CopyOK, Copying
  <2>4. CASE backup' = Begun(backup.try + 1)
    BY <2>1, <2>2, <2>4, BeginsOK
  <2>5. QED
    BY <2>1, <2>3, <2>4
<1>4. QED
  BY <1>2, <1>3

(* A step of the backup program. *)
LEMMA BackupStep ==
  ASSUME ServiceInv, CopyOK, KeptOK, CreateBackup
  PROVE  CopyOK' /\ KeptOK'
<1>1. UNCHANGED <<rows, disk, puts, section>>
  BY DEF CreateBackup, vars
<1>2. UNCHANGED kept => KeptOK'
  BY DEF KeptOK, HasBackup
<1>3. CASE BackupBegins
  BY <1>1, <1>2, <1>3, BeginsOK DEF BackupBegins
<1>4. CASE ListObjects
  BY <1>1, <1>2, <1>4, ListObjectsOK DEF ListObjects
<1>5. CASE CopyObject
  BY <1>1, <1>2, <1>5, CopyObjectOK DEF CopyObject, BackupFails
<1>6. CASE BackupEnds
  BY <1>1, <1>6, BackupEndsOK
<1>7. QED
  BY <1>3, <1>4, <1>5, <1>6 DEF CreateBackup

-----------------------------------------------------------------------------
(* Restoration. *)

(* The state directory's paths. *)
LEMMA PathNames ==
  /\ \A state : Live(state) = [n \in Paths |-> state]
  /\ Names[1] = "automl.db" /\ Names[2] = "objects" /\ Names[3] = "ticket-secret"
<1>1. {Names[i] : i \in 1..3} = Paths
  BY DEF Names, Paths
<1>2. QED
  BY <1>1 DEF Live, Names

(* One path is moved aside, or its copy moved in. *)
LEMMA MovePathOK ==
  ASSUME RestoreOK, restore.pc = "moving", MovePath, UNCHANGED <<backup, kept>>
  PROVE  RestoreOK'
<1> DEFINE n == Names[(restore.step % 3) + 1]
           to == IF restore.step < 3 THEN "aside" ELSE "new"
<1>1. /\ restore' = [restore EXCEPT !.step = @ + 1, !.live[n] = to]
      /\ restore.step \in 0..5 /\ restore.live \in Lives
      /\ UNCHANGED <<puts, section, deleting>>
  BY DEF MovePath, RestoreOK, Restores, vars
<1>2. /\ n \in Paths
      /\ restore.step = 3 => n = "automl.db"
      /\ restore.step = 4 => n = "objects"
      /\ restore.step = 5 => n = "ticket-secret"
  <2>1. (restore.step % 3) + 1 \in 1..3
    BY <1>1
  <2>2. /\ restore.step = 3 => (restore.step % 3) + 1 = 1
        /\ restore.step = 4 => (restore.step % 3) + 1 = 2
        /\ restore.step = 5 => (restore.step % 3) + 1 = 3
    BY <1>1
  <2>3. QED
    BY <2>1, <2>2, PathNames DEF Paths
<1>3. to \in {"old", "aside", "new"} /\ (restore.step >= 3 => to = "new")
  BY <1>1
<1> HIDE DEF n, to
<1>4. /\ restore' \in Restores
      /\ restore'.pc = "moving" /\ restore'.step = restore.step + 1
      /\ restore'.live = [restore.live EXCEPT ![n] = to]
  <2> DEFINE live == [restore.live EXCEPT ![n] = to]
             step == restore.step + 1
  <2>1. live \in Lives /\ step \in 0..6
    BY <1>1, <1>2, <1>3 DEF Lives
  <2>2. restore \in Restores /\ restore' = [restore EXCEPT !.step = step, !.live = live]
    BY <1>1 DEF RestoreOK
  <2> HIDE DEF live, step
  <2>3. restore' \in Restores /\ restore'.pc = "moving" /\ restore'.step = step /\ restore'.live = live
    BY <2>1, <2>2 DEF Restores
  <2>4. QED
    BY <2>3 DEF live, step
<1>5. /\ restore'.live[n] = to
      /\ \A p \in Paths : p # n => restore'.live[p] = restore.live[p]
  BY <1>1, <1>2, <1>4 DEF Lives
<1>6. restore'.step >= 4 => restore'.live["automl.db"] = "new"
  BY <1>1, <1>2, <1>3, <1>4, <1>5 DEF RestoreOK, Paths
<1>7. restore'.step >= 5 => restore'.live["objects"] = "new"
  BY <1>1, <1>2, <1>3, <1>4, <1>5 DEF RestoreOK, Paths
<1>8. QED
  BY <1>1, <1>4, <1>6, <1>7 DEF RestoreOK, Up, HasBackup, None

(* A failure puts back what was moved. *)
LEMMA RestoreFailsOK ==
  ASSUME RestoreOK, restore.pc = "moving", RestoreFails, UNCHANGED <<backup, kept>>
  PROVE  RestoreOK'
<1>1. DOMAIN restore.live = Paths
  BY DEF RestoreOK, Restores, Lives
<1>2. RolledBack \in Lives /\ RolledBack["automl.db"] = "old" /\ RolledBack["objects"] = "old"
  BY <1>1 DEF RolledBack, Paths, Lives
<1>3. restore' \in Restores /\ restore'.pc = "done" /\ restore'.live = RolledBack
  BY <1>2 DEF RestoreOK, Restores, RestoreFails
<1>4. QED
  BY <1>2, <1>3 DEF RestoreOK, RestoreFails, Up, None

(* A stopped service has no handlers. *)
LEMMA StoppedOK ==
  ASSUME ServiceInv, UNCHANGED <<rows, disk, download>>, puts' = {}, section' = NoSection, deleting' = None
  PROVE  ServiceInv'
<1>1. TypeOK' /\ rows' \in Rows
  BY DEF ServiceInv, TypeOK, Deletings
<1>2. Good
  BY <1>1, RowsKept DEF ServiceInv
<1>3. DownloadOK'
  BY DEF ServiceInv, DownloadOK, InstalledIsWhole, Whole
<1>4. QED
  BY <1>2, <1>3 DEF Good, ServiceInv

(* The service starts again on its old state, on that of the backup, or on  *)
(* a mixture.                                                              *)
LEMMA ReopenOK ==
  ASSUME IInv, restore.pc \in {"moving", "done"}, Reopen
  PROVE  IInv'
<1>1. /\ ServiceInv /\ RestoreOK /\ KeptOK /\ TypeOK /\ puts = {} /\ section = NoSection
      /\ deleting = None /\ backup = NoBackup
  BY DEF IInv, ServiceInv, RestoreOK, Mixed, Up, None
<1>2. /\ puts' = {} /\ section' = NoSection /\ deleting' = None /\ backup' = NoBackup
      /\ UNCHANGED download /\ kept' = [made |-> MaxBackups]
  BY <1>1 DEF Reopen
<1>3. \/ restore' = NoRestore
      \/ restore' = [NoRestore EXCEPT !.pc = "mixed"]
  BY DEF Reopen
<1>4. NoRestore = [pc |-> None, step |-> 0, live |-> [n \in Paths |-> "old"], log |-> FALSE]
  BY PathNames DEF NoRestore
<1>5. RestoreOK'
  <2>1. [n \in Paths |-> "old"] \in Lives
    BY DEF Lives
  <2>2. PICK pc \in {None, "mixed"} :
          restore' = [pc |-> pc, step |-> 0, live |-> [n \in Paths |-> "old"], log |-> FALSE]
    BY <1>3, <1>4
  <2>3. restore' \in Restores /\ restore'.pc \in {None, "mixed"}
    BY <2>1, <2>2 DEF Restores
  <2>4. QED
    BY <1>2, <2>3 DEF RestoreOK, None
<1>6. CopyOK' /\ KeptOK'
  BY <1>2 DEF CopyOK, Copying, NoBackup, None, KeptOK, HasBackup
<1>7. \/ rows' = rows /\ disk' = disk
      \/ rows' = kept.rows /\ disk' = kept.files /\ HasBackup
      \/ Mixed' /\ rows' = rows /\ disk' = kept.files /\ HasBackup
  <2>1. CASE restore.pc = "done"
    BY <1>1, <2>1 DEF Reopen, RestoreOK, ServedRows
  <2>2. CASE restore.pc = "moving"
    <3>1. restore.step = 6 /\ HasBackup
      BY <1>1, <2>2 DEF Reopen, RestoreOK
    <3>2. restore.live["automl.db"] = "new" /\ restore.live["objects"] = "new"
      BY <1>1, <2>2, <3>1 DEF RestoreOK
    <3>3. [NoRestore EXCEPT !.pc = "mixed"].pc = "mixed"
      BY <1>4
    <3>4. QED
      BY <3>1, <3>2, <3>3 DEF Reopen, ServedRows, Mixed
  <2>3. QED
    BY <2>1, <2>2
<1>8. TypeOK'
  <2>1. rows' \in Rows /\ disk' \in Disk
    BY <1>1, <1>7 DEF TypeOK, KeptOK
  <2>2. QED
    BY <1>2, <2>1 DEF TypeOK, Deletings
<1>9. DownloadOK'
  BY <1>1, <1>2 DEF ServiceInv, DownloadOK, InstalledIsWhole, Whole
<1>10. ~Mixed' => ServiceInv'
  <2>1. CASE rows' = rows /\ disk' = disk
    BY <1>1, <1>2, <2>1, StoppedOK
  <2>2. CASE rows' = kept.rows /\ disk' = kept.files /\ HasBackup
    <3>1. RowsOK(rows', disk')
      BY <1>1, <2>2 DEF KeptOK
    <3>2. HandlersOK'
      BY <1>2, <3>1 DEF HandlersOK, Finalizing, FinalizePcs, NoSection, None, Quiet, RowsOK, Thorough
    <3>3. QED
      BY <1>8, <1>9, <3>1, <3>2 DEF ServiceInv
  <2>3. QED
    BY <1>7, <2>1, <2>2
<1>11. QED
  BY <1>5, <1>6, <1>8, <1>9, <1>10 DEF IInv

(* Every step of a restoration. *)
LEMMA RestoreStep ==
  ASSUME IInv, RestoreBackup
  PROVE  IInv'
<1>1. CopyOK /\ KeptOK /\ RestoreOK
  BY DEF IInv
<1>2. UNCHANGED <<backup, kept>> => KeptOK'
  BY <1>1 DEF KeptOK, HasBackup
<1>3. ServiceInv' => TypeOK' /\ DownloadOK'
  BY DEF ServiceInv
<1>4. CASE StopToRestore /\ UNCHANGED <<backup, kept>>
  <2>1. ServiceInv
    BY <1>4 DEF StopToRestore, IInv, Mixed, Up, None
  <2>2. ServiceInv'
    BY <1>4, <2>1, StoppedOK DEF StopToRestore, HandlersGone
  <2>3. backup' = NoBackup /\ CopyOK'
    BY <1>4 DEF StopToRestore, CopyOK, Copying, NoBackup, None
  <2>4. NoRestore = [pc |-> None, step |-> 0, live |-> [n \in Paths |-> "old"], log |-> FALSE]
    BY PathNames DEF NoRestore
  <2>5. PICK killed \in BOOLEAN :
          restore' = [pc |-> "moving", step |-> 0, live |-> [n \in Paths |-> "old"], log |-> killed]
    BY <1>4, <2>4 DEF StopToRestore
  <2>6. RestoreOK'
    <3>1. restore' \in Restores
      BY <2>5 DEF Restores, Lives
    <3>2. restore'.pc = "moving" /\ restore'.step = 0 /\ "moving" # "done"
      BY <2>5
    <3>3. HasBackup' /\ puts' = {} /\ section' = NoSection /\ deleting' = None
      BY <1>4 DEF StopToRestore, HandlersGone, HasBackup
    <3>4. QED
      BY <2>3, <3>1, <3>2, <3>3 DEF RestoreOK
  <2>7. QED
    BY <1>2, <1>3, <1>4, <2>2, <2>3, <2>6 DEF IInv
<1>5. CASE restore.pc = "moving" /\ (MovePath \/ RestoreFails) /\ UNCHANGED <<backup, kept>>
  <2>1. RestoreOK'
    BY <1>1, <1>5, MovePathOK, RestoreFailsOK
  <2>2. UNCHANGED <<rows, disk, puts, section, deleting, download>> /\ backup = NoBackup
        /\ puts = {} /\ section = NoSection /\ deleting = None
    BY <1>1, <1>5 DEF MovePath, RestoreFails, vars, RestoreOK, Up, None
  <2>3. ServiceInv
    BY <1>5 DEF IInv, Mixed
  <2>4. ServiceInv'
    BY <2>2, <2>3, StoppedOK
  <2>5. CopyOK'
    BY <1>5, <2>2 DEF CopyOK, Copying, NoBackup, None
  <2>6. QED
    BY <1>2, <1>3, <1>5, <2>1, <2>4, <2>5 DEF IInv
<1>6. CASE restore.pc \in {"moving", "done"} /\ Reopen
  BY <1>6, ReopenOK
<1>7. QED
  BY <1>4, <1>5, <1>6 DEF RestoreBackup

-----------------------------------------------------------------------------
(* The inductive invariant. *)

(* Nothing has been backed up at the start. *)
LEMMA InitStep == BackupInit => IInv
<1>1. SUFFICES ASSUME BackupInit PROVE IInv
  OBVIOUS
<1>2. ServiceInv
  BY <1>1, ServiceInit DEF BackupInit
<1>3. CopyOK /\ KeptOK
  BY <1>1 DEF BackupInit, CopyOK, Copying, NoBackup, None, KeptOK, HasBackup
<1>4. NoRestore = [pc |-> None, step |-> 0, live |-> [n \in Paths |-> "old"], log |-> FALSE]
  BY PathNames DEF NoRestore
<1>5. RestoreOK
  BY <1>1, <1>4 DEF BackupInit, RestoreOK, Restores, Lives, Up, None
<1>6. QED
  BY <1>2, <1>3, <1>5 DEF IInv, ServiceInv

(* Every step of the service, of a backup and of a restoration keeps it. *)
LEMMA NextStep == IInv /\ [BackupNext]_backupVars => IInv'
<1>1. SUFFICES ASSUME IInv, [BackupNext]_backupVars PROVE IInv'
  OBVIOUS
<1>2. TypeOK /\ DownloadOK /\ CopyOK /\ KeptOK /\ RestoreOK /\ (~Mixed => ServiceInv)
  BY <1>1 DEF IInv
<1>3. UNCHANGED restore /\ Up => RestoreOK' /\ ServiceInv
  BY <1>2 DEF RestoreOK, Up, None, Mixed
<1>4. UNCHANGED kept => KeptOK'
  BY <1>2 DEF KeptOK, HasBackup
<1>5. ServiceInv' => TypeOK' /\ DownloadOK'
  BY DEF ServiceInv
<1>6. CASE Serve
  <2>1. ServiceInv' /\ Stable
    BY <1>3, <1>6, ServiceStep DEF Serve
  <2>2. CopyOK'
    BY <1>2, <1>6, <2>1, CopyStable DEF Serve
  <2>3. QED
    BY <1>3, <1>4, <1>5, <1>6, <2>1, <2>2 DEF Serve, IInv
<1>7. CASE Up /\ CreateBackup
  <2>1. ServiceInv /\ UNCHANGED <<vars, restore>>
    BY <1>3, <1>7 DEF CreateBackup
  <2>2. CopyOK' /\ KeptOK'
    BY <1>2, <1>7, <2>1, BackupStep
  <2>3. ServiceInv'
    BY <2>1 DEF vars, ServiceInv, TypeOK, RowsOK, HandlersOK, DownloadOK,
       Consistent, Thorough, Finalizing, Quiet, Shut, InstalledIsWhole, Whole
  <2>4. QED
    BY <1>3, <1>5, <1>7, <2>1, <2>2, <2>3 DEF IInv
<1>8. CASE RestoreBackup
  BY <1>1, <1>8, RestoreStep
<1>9. CASE UNCHANGED backupVars
  <2>1. UNCHANGED <<rows, disk, puts, section, deleting, download, backup, kept, restore>>
    BY <1>9 DEF backupVars, vars
  <2>2. ServiceInv => ServiceInv'
    BY <2>1 DEF ServiceInv, TypeOK, RowsOK, HandlersOK, DownloadOK,
       Consistent, Thorough, Finalizing, Quiet, Shut, InstalledIsWhole, Whole
  <2>3. TypeOK' /\ DownloadOK' /\ (Mixed' <=> Mixed)
    BY <1>2, <2>1 DEF TypeOK, DownloadOK, InstalledIsWhole, Whole, Mixed
  <2>4. CopyOK'
    BY <1>2, <2>1 DEF CopyOK, Copying, Listed, Quiet, Shut
  <2>5. RestoreOK'
    BY <1>2, <2>1 DEF RestoreOK, Up, HasBackup
  <2>6. QED
    BY <1>2, <1>4, <2>1, <2>2, <2>3, <2>4, <2>5 DEF IInv
<1>10. QED
  BY <1>1, <1>6, <1>7, <1>8, <1>9 DEF BackupNext

(* The invariant from which everything below follows: what the rows say of  *)
(* the files, what the handlers in flight may still do, and what a backup   *)
(* in progress has copied.                                                 *)
THEOREM BackupInvariant == BackupSpec => []IInv
<1>1. QED
  BY InitStep, NextStep, PTL DEF BackupSpec

(* The service's state is well typed at every point, restored or not. *)
THEOREM ServiceTypes == BackupSpec => []TypeOK
<1>1. IInv => TypeOK
  BY DEF IInv
<1>2. QED
  BY <1>1, BackupInvariant, PTL

(* Until its dataset is deleted, a READY version has the bytes its row      *)
(* declares, and a COMMITTED artifact has bytes as long as it is COMMITTED, *)
(* through uploads, finalize, publication, deletion, crashes and            *)
(* restorations, in any order, unless a restoration mixed two states.  (A   *)
(* version of a deleted dataset that a finalize turned READY again may lack *)
(* its bytes: see NoDanglingRun.)                                          *)
THEOREM RowsAlwaysHaveBytes == BackupSpec => []RowsHaveBytes
<1>1. IInv => RowsHaveBytes
  BY DEF IInv, ServiceInv, RowsOK, RowsHaveBytes
<1>2. QED
  BY <1>1, BackupInvariant, PTL

(* Nothing of what a COMPLETED deletion listed and removed comes back,       *)
(* whatever was in flight when it began, unless a restoration mixed two     *)
(* states.                                                                 *)
THEOREM DeletionRemovesAll == BackupSpec => []DeletionIsThorough
<1>1. IInv => DeletionIsThorough
  <2>1. SUFFICES ASSUME IInv, ~Mixed, rows.job.status = "COMPLETED" PROVE Thorough(rows, disk)
    BY DEF DeletionIsThorough, Thorough
  <2>2. RowsOK(rows, disk) /\ rows.job.listed \subseteq Artifacts
    BY <2>1, RowParts DEF IInv, ServiceInv, TypeOK, JobRow
  <2>3. QED
    BY <2>1, <2>2 DEF RowsOK, Thorough
<1>2. QED
  BY <1>1, BackupInvariant, PTL

(* The SDK never installs a file put together from two artifacts. *)
THEOREM DownloadsAreWhole == BackupSpec => []InstalledIsWhole
<1>1. IInv => InstalledIsWhole
  BY DEF IInv, DownloadOK
<1>2. QED
  BY <1>1, BackupInvariant, PTL

(* The database and the files of every finished backup agree, although they *)
(* were read one after the other while the service went on.                *)
THEOREM BackupsAreWhole == BackupSpec => []BackupIsWhole
<1>1. IInv => BackupIsWhole
  BY DEF IInv, KeptOK, RowsOK, BackupIsWhole
<1>2. QED
  BY <1>1, BackupInvariant, PTL
=============================================================================
