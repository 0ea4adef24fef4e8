------------------------------ MODULE Datasets ------------------------------
(***************************************************************************)
(* A dataset version, the run made from it and the run's artifacts, in the *)
(* rows of the store and in the files of the object store (workflow.py,    *)
(* storage.py, the dataset and artifact routes of app.py), and the SDK's   *)
(* resumable download of an artifact.                                      *)
(*                                                                         *)
(* A handler is suspended where it moves bytes: an upload while it         *)
(* streams, finalize while it hashes and copies, a publication while it    *)
(* writes, a deletion in each rmtree and unlink.  Between those points it  *)
(* is one action.  finalize and publications hold the visibility lock      *)
(* throughout; uploads take no lock, a deletion only where it cancels the  *)
(* run.  Contents stand for bytes and for their SHA-256 and ETag.          *)
(***************************************************************************)
EXTENDS Integers, Sequences, FiniteSets

CONSTANTS
  Contents,      \* what an uploader may send
  Artifacts,
  MaxPuts, MaxFinalizes, MaxDeletions, MaxDownloads, MaxFaults   \* bounds

None  == "none"
Other == "other"     \* an artifact of another run
ASSUME DatasetsAssumption ==
  None \notin Contents /\ {None, Other, "part", "source"} \cap Artifacts = {}

VARIABLES
  rows,      \* the store: the version, its dataset's deleted_at, its run and
             \* artifacts, the deletion job
  disk,      \* the object store, by file
  puts,      \* contents of the uploads that are streaming
  section,   \* the handler that holds the visibility lock
  deleting,  \* where the deletion's handler is
  download,  \* the SDK's download: call, partial file, installed file
  budget

vars == <<rows, disk, puts, section, deleting, download, budget>>

Files == {"part", "source"} \cup Artifacts
There(f) == disk[f] # None
SetFile(f, content) == disk' = [disk EXCEPT ![f] = content]

NoSection == [pc |-> None]
Free == section = NoSection
Spend(what) == budget[what] > 0 /\ budget' = [budget EXCEPT ![what] = @ - 1]
Version == rows.version

(* create_dataset: the dataset and its version in one mutation. *)
NewVersion == [status |-> "UPLOADING", sha |-> None]

(* What upload_dataset_file declares: the ETag the service answered for the *)
(* bytes that were sent, and the digest of the file, which it hashes after. *)
Declarations == [etag : Contents, sha : Contents]

Init ==
  /\ rows = [version |-> NewVersion, deleted |-> FALSE,
             run |-> None,
             artifacts |-> [a \in Artifacts |-> "ABSENT"],
             job |-> [status |-> None, listed |-> {}]]
  /\ disk = [f \in Files |-> None]
  /\ puts = {} /\ section = NoSection /\ deleting = None
  \* an earlier download to the same name may have left a block, or both
  /\ \E partial \in {<<>>, <<Other>>, <<Other, Other>>} :
       download = [call |-> None, partial |-> partial, target |-> <<>>]
  /\ budget = [puts |-> MaxPuts, finalizes |-> MaxFinalizes, deletions |-> MaxDeletions,
               downloads |-> MaxDownloads, faults |-> MaxFaults]

-----------------------------------------------------------------------------
(* Defective variants of the definitions below (see the README). *)
IntactIfTagged == section.copied # None
MarkedNot == rows.version
DigestUnchecked(a) == TRUE

-----------------------------------------------------------------------------
(* Uploads.  The status is looked at before the bytes arrive; the file     *)
(* appears in one rename.  An upload that is never heard of again is one   *)
(* that failed.                                                            *)

UploadActive == Version.status = "UPLOADING"

PutBegins(c) ==
  /\ UploadActive
  /\ puts' = puts \cup {c}
  /\ Spend("puts")
  /\ UNCHANGED <<rows, disk, section, deleting, download>>

PutEnds(c) ==
  /\ c \in puts
  /\ puts' = puts \ {c}
  /\ SetFile("part", c)
  /\ UNCHANGED <<rows, section, deleting, download, budget>>

(* finalize_dataset: the client names the ETag of its part and the digest  *)
(* of the whole.  A version that is READY with that digest is returned.    *)
FinalizeBegins(declared) ==
  /\ Free /\ UploadActive
  /\ section' = [pc |-> IF There("source") THEN "exists" ELSE "hash",
                 etag |-> declared.etag, sha |-> declared.sha, copied |-> None, doomed |-> FALSE]
  /\ Spend("finalizes")
  /\ UNCHANGED <<rows, disk, puts, deleting, download>>

At(pc) == section.pc = pc

FinalizeRaises ==
  /\ section' = NoSection
  /\ UNCHANGED rows

(* The row is written from what was read before the bytes were: nobody     *)
(* looks whether the version is still UPLOADING, or its dataset deleted.   *)
Readied ==
  /\ section' = NoSection
  /\ rows' = [rows EXCEPT !.version = [status |-> "READY", sha |-> section.sha]]

(* An object from an earlier attempt is taken only with these very bytes. *)
FinalizeFindsObject ==
  /\ At("exists")
  /\ IF disk["source"] = section.sha THEN Readied ELSE FinalizeRaises
  /\ UNCHANGED <<disk, puts, deleting, download, budget>>

FinalizeHashes ==
  /\ At("hash")
  /\ IF disk["part"] = section.etag
       THEN section' = [section EXCEPT !.pc = "copy"] /\ UNCHANGED rows
       ELSE FinalizeRaises
  /\ UNCHANGED <<disk, puts, deleting, download, budget>>

(* The part is read a second time: it may be another one by now. *)
FinalizeCopies ==
  /\ At("copy")
  /\ IF There("part")
       THEN section' = [section EXCEPT !.pc = "install", !.copied = disk["part"]] /\ UNCHANGED rows
       ELSE FinalizeRaises
  /\ UNCHANGED <<disk, puts, deleting, download, budget>>

(* The digest of what was copied is compared with the declared one. *)
Intact == section.copied = section.sha

FinalizeInstalls ==
  /\ At("install")
  /\ IF Intact /\ ~section.doomed
       THEN Readied /\ SetFile("source", section.copied)
       ELSE FinalizeRaises /\ UNCHANGED disk
  /\ UNCHANGED <<puts, deleting, download, budget>>

Finalize == FinalizeFindsObject \/ FinalizeHashes \/ FinalizeCopies \/ FinalizeInstalls

-----------------------------------------------------------------------------
(* The run and its artifacts. *)

(* create_run looks at the version, not at its dataset. *)
CreateRun ==
  /\ Free /\ Version.status = "READY" /\ rows.run = None
  /\ rows' = [rows EXCEPT !.run = "ACTIVE"]
  /\ UNCHANGED <<disk, puts, section, deleting, download, budget>>

PublishBegins(a) ==
  /\ Free /\ rows.run = "ACTIVE" /\ rows.artifacts[a] = "ABSENT"
  /\ section' = [pc |-> "publish", artifact |-> a]
  /\ UNCHANGED <<rows, disk, puts, deleting, download, budget>>

(* The bytes go to a temporary file that is renamed. *)
Stored(a) == SetFile(a, a)

(* The bytes, their row, and with the last artifact the end of the run. *)
PublishEnds ==
  /\ At("publish")
  /\ Stored(section.artifact)
  /\ \E run \in {"ACTIVE", "TERMINAL"} :
       rows' = [rows EXCEPT !.artifacts[section.artifact] = "COMMITTED", !.run = run]
  /\ section' = NoSection
  /\ UNCHANGED <<puts, deleting, download, budget>>

-----------------------------------------------------------------------------
(* DELETE /v1/datasets: rows first, so that no later request finds them;   *)
(* then the run; then the bytes.  Runs and artifacts are those listed when *)
(* the request came.                                                       *)

ListedArtifacts == {a \in Artifacts : rows.run # None /\ rows.artifacts[a] # "ABSENT"}
Marked == [rows.version EXCEPT !.status = "DELETED"]

(* The transactions a deletion begins with, in their order: the job, the    *)
(* dataset's deleted_at, the version, the artifacts one by one.            *)
JobMade == [rows EXCEPT !.job = [status |-> "RUNNING", listed |-> ListedArtifacts]]
DatasetDeleted == [JobMade EXCEPT !.deleted = TRUE]
Revoked(as) ==
  [DatasetDeleted EXCEPT !.version = Marked,
     !.artifacts = [a \in Artifacts |-> IF a \in as THEN "DELETING" ELSE @[a]]]

(* No two deletions run at a time.                                         *)
DeleteBegins ==
  /\ deleting = None
  /\ rows' = Revoked(ListedArtifacts)
  /\ deleting' = IF rows.run = "ACTIVE" THEN "cancel" ELSE "uploads"
  /\ Spend("deletions")
  /\ UNCHANGED <<disk, puts, section, download>>

DeleteFails ==
  /\ rows' = [rows EXCEPT !.job.status = "FAILED"]
  /\ deleting' = None

(* A run that ended while the handler waited for the lock: 409. *)
DeleteCancels ==
  /\ deleting = "cancel" /\ Free
  /\ IF rows.run = "TERMINAL"
       THEN DeleteFails
       ELSE rows' = [rows EXCEPT !.run = "TERMINAL"] /\ deleting' = "uploads"
  /\ UNCHANGED <<disk, puts, section, download, budget>>

(* rmtree in a thread.  Uploads that still stream lose their directory; a  *)
(* file that comes or goes under it makes rmtree raise.                    *)
RemoveUploads ==
  /\ deleting = "uploads"
  /\ \/ SetFile("part", None) /\ puts' = {} /\ deleting' = "datasets" /\ UNCHANGED rows
     \/ DeleteFails /\ UNCHANGED <<disk, puts>>
     \/ DeleteFails /\ SetFile("part", None) /\ UNCHANGED puts
  /\ UNCHANGED <<section, download, budget>>

RemoveDatasets ==
  /\ deleting = "datasets"
  /\ \/ /\ SetFile("source", None) /\ deleting' = "artifacts" /\ UNCHANGED rows
        /\ section' = IF Free \/ At("publish") THEN section
                      ELSE [section EXCEPT !.doomed = TRUE]
     \/ DeleteFails /\ UNCHANGED <<disk, section>>
     \/ DeleteFails /\ SetFile("source", None) /\ UNCHANGED section
  /\ UNCHANGED <<puts, download, budget>>

Undeleted == {a \in rows.job.listed : rows.artifacts[a] = "DELETING"}

RemoveArtifact ==
  /\ deleting = "artifacts"
  /\ \E a \in Undeleted :
       /\ SetFile(a, None)
       /\ rows' = [rows EXCEPT !.artifacts[a] = "DELETED"]
  /\ UNCHANGED <<puts, section, deleting, download, budget>>

DeleteCompletes ==
  /\ deleting = "artifacts" /\ Undeleted = {}
  /\ rows' = [rows EXCEPT !.job.status = "COMPLETED"]
  /\ deleting' = None
  /\ UNCHANGED <<disk, puts, section, download, budget>>

Delete ==
  \/ DeleteBegins \/ DeleteCancels \/ RemoveUploads \/ RemoveDatasets
  \/ RemoveArtifact \/ DeleteCompletes

-----------------------------------------------------------------------------
(* download_artifact_file, which fetches every artifact to the same name.  *)
(* An artifact is two blocks; a partial file is the blocks written so far. *)
(* A ticket is for the artifact's ETag, which never changes, and its link   *)
(* looks at the row and the file again.                                    *)

Whole(a) == <<a, a>>
Ticket(a) == rows.artifacts[a] = "COMMITTED"
InRange(a, offset) == offset < Len(Whole(a))
Served(a, offset) == rows.artifacts[a] = "COMMITTED" /\ There(a) /\ InRange(a, offset)
SetDownload(call, partial, target) ==
  /\ download' = [call |-> call, partial |-> partial, target |-> target]
  /\ UNCHANGED <<rows, disk, puts, section, deleting>>

Verified(a) == download.partial = Whole(a)

DownloadBegins(a) ==
  /\ download.call = None /\ Ticket(a)
  /\ Spend("downloads")
  /\ IF Len(download.partial) = 2
       THEN IF Verified(a) THEN SetDownload(None, <<>>, download.partial)
                           ELSE SetDownload(a, <<>>, download.target)
       ELSE SetDownload(a, download.partial, download.target)

Downloading == download.call # None

(* One more block of a response that was accepted while the row was        *)
(* COMMITTED and the file there; ranges go on where the partial file ends. *)
Receive ==
  /\ Downloading /\ Served(download.call, Len(download.partial))
  /\ SetDownload(download.call, Append(download.partial, download.call), download.target)
  /\ UNCHANGED budget

(* 404, 410 or an expired ticket: not a transport error, the file goes. *)
Refused ==
  /\ Downloading /\ Len(download.partial) < 2
  /\ SetDownload(None, <<>>, download.target)
  /\ UNCHANGED budget

(* The last transport retry fails, or the caller dies: the file stays. *)
Interrupted ==
  /\ Downloading
  /\ SetDownload(None, download.partial, download.target)
  /\ UNCHANGED budget

Install ==
  /\ Downloading /\ Len(download.partial) = 2
  /\ SetDownload(None, <<>>, IF Verified(download.call) THEN download.partial ELSE download.target)
  /\ UNCHANGED budget

Download ==
  \/ \E a \in Artifacts : DownloadBegins(a)
  \/ Receive \/ Refused \/ Interrupted \/ Install

-----------------------------------------------------------------------------
(* The service stops: its handlers are gone, their temporary files with    *)
(* them; a file already renamed may lack its row.                          *)
HandlersGone == puts' = {} /\ section' = NoSection /\ deleting' = None

Crash ==
  /\ Spend("faults")
  /\ HandlersGone
  /\ \/ UNCHANGED disk
     \/ At("install") /\ Intact /\ ~section.doomed /\ SetFile("source", section.copied)
     \/ At("publish") /\ Stored(section.artifact)
  /\ UNCHANGED <<rows, download>>

(* It dies between two of the transactions a deletion begins with. *)
CrashInDeletion ==
  /\ deleting = None
  /\ budget.deletions > 0 /\ budget.faults > 0
  /\ budget' = [budget EXCEPT !.deletions = @ - 1, !.faults = @ - 1]
  /\ rows' \in {JobMade, DatasetDeleted} \cup {Revoked(as) : as \in SUBSET ListedArtifacts}
  /\ HandlersGone
  /\ UNCHANGED <<disk, download>>

Next ==
  \/ \E c \in Contents : PutBegins(c) \/ PutEnds(c)
  \/ \E declared \in Declarations : FinalizeBegins(declared)
  \/ Finalize \/ CreateRun
  \/ \E a \in Artifacts : PublishBegins(a)
  \/ PublishEnds \/ Delete \/ Download \/ Crash \/ CrashInDeletion

Spec == Init /\ [][Next]_vars

-----------------------------------------------------------------------------
(* Rows and files, of the service or of a backup: a READY version of a       *)
(* dataset that is not deleted, and a COMMITTED artifact, have their bytes. *)
Consistent(r, files) ==
  /\ r.version.status = "READY" /\ ~r.deleted => files["source"] = r.version.sha
  /\ \A a \in Artifacts : r.artifacts[a] = "COMMITTED" => files[a] # None

(* A COMPLETED deletion left no uploaded part, no dataset object and none    *)
(* of the artifacts it listed.                                             *)
Thorough(r, files) ==
  r.job.status = "COMPLETED" =>
    /\ files["part"] = None /\ files["source"] = None
    /\ \A a \in r.job.listed : r.artifacts[a] = "DELETED" /\ files[a] = None

(* Design, 10.3: what is being deleted "can no longer be referred to by a   *)
(* new Run, so that no dangling dependence arises".  An active run's        *)
(* dataset has its bytes.                                                  *)
NoDanglingRun == rows.run = "ACTIVE" => disk["source"] = rows.version.sha

(* What the SDK installs is one whole artifact, never the beginning of one *)
(* and the end of another that was downloaded to the same name.            *)
InstalledIsWhole == download.target = <<>> \/ \E a \in Artifacts : download.target = Whole(a)
=============================================================================
