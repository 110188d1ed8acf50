---------------------------- MODULE ZetaMigration ----------------------------
(***************************************************************************)
(* One session of an exit migration (zeta_migrations.py, zeta_api.py): its *)
(* exports are uploaded by a browser chunk by chunk, or downloaded by the  *)
(* job from a drop folder; the job then prepares and imports all of them   *)
(* as one batch, and a second job counts audiences when the batch is done. *)
(*                                                                         *)
(* What is on the disk and what the row says of it are written one after   *)
(* the other, and the process may end in between.  A chunk is its export   *)
(* and its place.  An export from the drop is a version of one remote file *)
(* there, as its fingerprint is of path, size and modification time; each  *)
(* change is taken to change the latter.                                   *)
(***************************************************************************)
EXTENDS Naturals, Sequences

CONSTANTS
    Export,         \* the exports of the browser
    MaxVersion,     \* versions of the file in the drop: 1..MaxVersion
    Chunks,         \* export or version -> how many chunks it has
    MaxTrouble,     \* bound on lost requests, failures, crashes and revocations
    NoExport

Version == 1..MaxVersion
AnyExport == Export \union Version

ASSUME MigrationAssumptions ==
    /\ MaxVersion \in Nat \ {0} /\ Export \intersect Version = {}
    /\ Chunks \in [AnyExport -> Nat \ {0}]
    /\ NoExport \notin AnyExport /\ MaxTrouble \in Nat

VARIABLES
    files,      \* zeta_migration_files: status and offset_bytes, by fingerprint
    disk,       \* the chunks in each local file
    spool,      \* those that were prepared: zeta_migration_files.manifests
    patch,      \* the export that an open request has locked, and how much it sent
    viewed,     \* POST /run has seen that every file is there
    session,    \* zeta_migrations.status and .batch_id
    task,       \* the job of zeta_migrations.job_id
    worker,     \* where the job is, what it listed, and its offset
    drop,       \* the version that is in the drop
    handle,     \* the version that the open remote file reads
    source,     \* the pending manifest, what was imported, is the migration completed?
    late,       \* the files begun after the manifest was saved
    settled,   \* identity and traits of the batch are done
    trouble

fileVars == <<files, disk, spool>>
jobVars  == <<task, worker, handle>>
restVars == <<source, late, settled>>
migrationVars == <<fileVars, patch, viewed, session, jobVars, drop, restVars, trouble>>

NoPatch == [file |-> NoExport, sent |-> 0]
Idle == [at |-> "idle", item |-> NoExport, offset |-> 0]

MigrationInit ==
    /\ files = [o \in AnyExport |-> [status |-> "none", offset |-> 0]]
    /\ disk = [o \in AnyExport |-> <<>>] /\ spool = [o \in AnyExport |-> <<>>]
    /\ patch = NoPatch /\ viewed = FALSE
    /\ session = [status |-> "draft", batch |-> FALSE]
    /\ task = [kind |-> "none", state |-> "none", paths |-> FALSE]
    /\ worker = Idle /\ drop = 1 /\ handle = NoExport
    /\ source = [pending |-> {}, imported |-> {}, completed |-> FALSE]
    /\ late = {} /\ settled = FALSE /\ trouble = 0

Trouble == trouble < MaxTrouble /\ trouble' = trouble + 1

Begun == {o \in AnyExport : files[o].status # "none"}

Complete(o) == files[o].offset = Chunks[o]

Content(o) == [i \in 1..Chunks[o] |-> <<o, i>>]

-----------------------------------------------------------------------------
(* The browser, and the requests of an admin.  begin_file, a PATCH and      *)
(* enqueue_migration take the session's row lock.                           *)

\* begin_file
OpenFile(o) ==
    /\ patch = NoPatch
    /\ files' = [files EXCEPT ![o] = [status |-> "uploading", offset |-> 0]]
    /\ late' = IF source.pending # {} \/ source.completed THEN late \union {o} ELSE late

\* POST /files; the one that is there already is the answer to a second one.
StartFile(e) ==
    /\ e \notin Begun /\ session.status = "draft"
    /\ OpenFile(e)
    /\ UNCHANGED <<disk, spool, patch, viewed, session, jobVars, drop, source, settled, trouble>>

\* Mutant: the file is opened for appending.
KeptAll(o) == disk[o]

\* Bytes that no commit stands for are discarded.
Kept(o) == SubSeq(disk[o], 1, files[o].offset)

\* PATCH with the offset that is saved; any other is answered 409.
OpenPatch(e) ==
    /\ patch = NoPatch /\ session.status = "draft"
    /\ files[e].status = "uploading"
    /\ patch' = [file |-> e, sent |-> 0]
    /\ disk' = [disk EXCEPT ![e] = Kept(e)]
    /\ UNCHANGED <<files, spool, viewed, session, jobVars, drop, restVars, trouble>>

\* Where the open request is in the file.
Sent == files[patch.file].offset + patch.sent

\* The client sends its file from that offset on; not more than the file has.
WritePatch ==
    /\ patch # NoPatch /\ Sent < Chunks[patch.file]
    /\ disk' = [disk EXCEPT ![patch.file] = Append(@, <<patch.file, Sent + 1>>)]
    /\ patch' = [patch EXCEPT !.sent = @ + 1]
    /\ UNCHANGED <<files, spool, viewed, session, jobVars, drop, restVars, trouble>>

CommitPatch ==
    /\ patch # NoPatch
    /\ files' = [files EXCEPT ![patch.file] =
                   [status |-> IF Sent = Chunks[patch.file] THEN "uploaded" ELSE "uploading",
                    offset |-> Sent]]
    /\ patch' = NoPatch
    /\ UNCHANGED <<disk, spool, viewed, session, jobVars, drop, restVars, trouble>>

\* The connection is lost, or the process ends: what was not synced may be gone.
LosePatch ==
    /\ patch # NoPatch /\ Trouble
    /\ \E n \in files[patch.file].offset..Sent :
         disk' = [disk EXCEPT ![patch.file] = SubSeq(@, 1, n)]
    /\ patch' = NoPatch
    /\ UNCHANGED <<files, spool, viewed, session, jobVars, drop, restVars>>

\* POST /run reads the session, without a lock.
ViewSession ==
    /\ ~session.batch /\ Begun # {}
    /\ \A o \in Begun : Complete(o) /\ files[o].status \in {"uploaded", "prepared"}
    /\ viewed' = TRUE
    /\ UNCHANGED <<fileVars, patch, session, jobVars, drop, restVars, trouble>>

\* enqueue_migration
Enqueue(kind, paths) ==
    /\ patch = NoPatch /\ task.state \notin {"queued", "running"}
    /\ task' = [kind |-> kind, state |-> "queued", paths |-> paths]
    /\ session' = [session EXCEPT !.status = IF kind = "parity" THEN "processing" ELSE "queued"]
    /\ viewed' = FALSE
    /\ UNCHANGED <<fileVars, patch, worker, handle, drop, restVars, trouble>>

\* POST /run, POST /sftp, and POST /run or /parity of a session with a batch.
RunMigration == viewed /\ Enqueue("import", FALSE)
StartSftp == Enqueue("import", TRUE)
RequestParity == session.batch /\ Enqueue("parity", FALSE)

\* An erasure revokes a file in which it finds a person, or that it cannot read,
\* and retention those of a completed session; not while an import job is active.
RevokeFile(o) ==
    /\ Trouble
    /\ patch = NoPatch /\ o \in Begun /\ files[o].status # "revoked"
    /\ ~(task.kind = "import" /\ task.state \in {"queued", "running"})
    /\ files' = [files EXCEPT ![o].status = "revoked"]
    /\ disk' = [disk EXCEPT ![o] = <<>>] /\ spool' = [spool EXCEPT ![o] = <<>>]
    /\ UNCHANGED <<patch, viewed, session, jobVars, drop, restVars>>

\* A new version is renamed into place, or written over the open file.
PublishVersion(inPlace) ==
    /\ drop < MaxVersion
    /\ drop' = drop + 1
    /\ handle' = IF inPlace /\ handle # NoExport THEN drop' ELSE handle
    /\ UNCHANGED <<fileVars, patch, viewed, session, task, worker, restVars, trouble>>

-----------------------------------------------------------------------------
(* The job zeta.import. *)

At(place) == worker.at = place
MovesTo(place) == worker' = [worker EXCEPT !.at = place]

ClaimImport ==
    /\ task.kind = "import" /\ task.state = "queued"
    /\ task' = [task EXCEPT !.state = "running"]
    /\ worker' = [Idle EXCEPT !.at = IF task.paths THEN "list" ELSE "collect"]
    /\ UNCHANGED <<fileVars, patch, viewed, session, handle, drop, restVars, trouble>>

List ==
    /\ At("list")
    /\ worker' = [worker EXCEPT !.at = "begin", !.item = drop]
    /\ UNCHANGED <<fileVars, patch, viewed, session, task, handle, drop, restVars, trouble>>

\* begin_file(worker=True), whatever the session's status; a revoked one fails.
BeginDownload ==
    /\ At("begin")
    /\ files[worker.item].status # "revoked"
    /\ IF worker.item \in Begun THEN UNCHANGED <<files, late>> ELSE OpenFile(worker.item)
    /\ MovesTo("open")
    /\ UNCHANGED <<disk, spool, patch, viewed, session, task, handle, drop, source, settled, trouble>>

OpenRemote ==
    /\ At("open")
    /\ handle' = drop
    /\ disk' = [disk EXCEPT ![worker.item] = Kept(worker.item)]
    /\ worker' = [worker EXCEPT !.at = "read", !.offset = files[worker.item].offset]
    /\ UNCHANGED <<files, spool, patch, viewed, session, task, drop, restVars, trouble>>

\* A chunk is written and synced; one beyond the listed size is an error (Raise).
ReadChunk ==
    /\ At("read") /\ worker.offset < Chunks[handle]
    /\ disk' = [disk EXCEPT ![worker.item] = Append(@, <<handle, worker.offset + 1>>)]
    /\ worker' = [worker EXCEPT !.offset = @ + 1,
                    !.at = IF worker.offset < Chunks[worker.item] THEN "save" ELSE "error"]
    /\ UNCHANGED <<files, spool, patch, viewed, session, task, handle, drop, restVars, trouble>>

SaveOffset ==
    /\ At("save")
    /\ files' = [files EXCEPT ![worker.item].offset = worker.offset]
    /\ MovesTo("read")
    /\ UNCHANGED <<disk, spool, patch, viewed, session, task, handle, drop, restVars, trouble>>

\* The end of the remote file, and what the folder says of it now.
CheckDownload ==
    /\ At("read") /\ worker.offset >= Chunks[handle]
    /\ IF drop = worker.item /\ worker.offset = Chunks[worker.item]
       THEN /\ files' = [files EXCEPT ![worker.item].status = "uploaded"]
            /\ MovesTo("collect")
       ELSE /\ UNCHANGED files
            /\ MovesTo("error")
    /\ handle' = NoExport
    /\ UNCHANGED <<disk, spool, patch, viewed, session, task, drop, restVars, trouble>>

\* "Upload every complete export file before starting the migration."
CollectFiles ==
    /\ At("collect")
    /\ IF Begun # {} /\ \A o \in Begun : Complete(o)
       THEN /\ session' = [session EXCEPT !.status = "importing"]
            /\ MovesTo("prepare")
       ELSE /\ UNCHANGED session
            /\ MovesTo("error")
    /\ UNCHANGED <<fileVars, patch, viewed, task, handle, drop, restVars, trouble>>

\* prepare_file: the next chunk of the local file, with its checkpoint.
PrepareChunk(o) ==
    /\ At("prepare") /\ Len(spool[o]) < Len(disk[o])
    /\ spool' = [spool EXCEPT ![o] = Append(@, disk[o][Len(@) + 1])]
    /\ UNCHANGED <<files, disk, patch, viewed, session, jobVars, drop, restVars, trouble>>

\* A file that was revoked cannot be read (Raise).
MarkPrepared(o) ==
    /\ At("prepare") /\ Len(spool[o]) = Len(disk[o])
    /\ o \in Begun /\ files[o].status \notin {"prepared", "revoked"}
    /\ files' = [files EXCEPT ![o].status = "prepared"]
    /\ UNCHANGED <<disk, spool, patch, viewed, session, jobVars, drop, restVars, trouble>>

Manifests == Begun

\* run_source: nothing for a migration that is completed; what is pending is
\* resumed as it was saved.
RunSource ==
    /\ At("prepare")
    /\ \A o \in Begun : files[o].status = "prepared"
    /\ MovesTo(IF source.completed THEN "publish" ELSE "import")
    /\ source' = IF source.completed \/ source.pending # {}
                 THEN source ELSE [source EXCEPT !.pending = Manifests]
    /\ UNCHANGED <<fileVars, patch, viewed, session, task, handle, drop, late, settled, trouble>>

ImportFile(o) ==
    /\ At("import") /\ o \in source.pending \ source.imported
    /\ source' = [source EXCEPT !.imported = @ \union {o}]
    /\ UNCHANGED <<fileVars, patch, viewed, session, jobVars, drop, late, settled, trouble>>

\* The batch is handed on, and the migration is completed for the source.
FinishSource ==
    /\ At("import") /\ source.pending \subseteq source.imported
    /\ source' = [source EXCEPT !.pending = {}, !.completed = TRUE]
    /\ MovesTo("publish")
    /\ UNCHANGED <<fileVars, patch, viewed, session, task, handle, drop, late, settled, trouble>>

PublishBatch ==
    /\ At("publish")
    /\ session' = [status |-> "processing", batch |-> TRUE]
    /\ task' = [kind |-> "parity", state |-> "queued", paths |-> FALSE]
    /\ worker' = Idle
    /\ UNCHANGED <<fileVars, patch, viewed, handle, drop, restVars, trouble>>

EndsWith(state) ==
    /\ task' = [task EXCEPT !.state = state]
    /\ worker' = Idle /\ handle' = NoExport

\* An exception: the session has failed, and the job is tried again or not.
Raise ==
    /\ ~At("idle")
    /\ At("error") \/ (At("prepare") /\ \E o \in Begun : files[o].status = "revoked")
         \/ (At("begin") /\ files[worker.item].status = "revoked")
    /\ session' = [session EXCEPT !.status = "failed"]
    /\ \E state \in {"queued", "failed"} : EndsWith(state)
    /\ UNCHANGED <<fileVars, patch, viewed, drop, restVars, trouble>>

\* An exception anywhere, or the process ends.
Break ==
    /\ ~At("idle") /\ Trouble
    /\ session' \in {session, [session EXCEPT !.status = "failed"]}
    /\ \E state \in {"queued", "failed"} : EndsWith(state)
    /\ UNCHANGED <<fileVars, patch, viewed, drop, restVars>>

-----------------------------------------------------------------------------
(* The batch, and the job zeta.parity. *)

ResolveBatch ==
    /\ source.completed /\ ~settled
    /\ settled' = TRUE
    /\ UNCHANGED <<fileVars, patch, viewed, session, jobVars, drop, source, late, trouble>>

\* Deferred until the batch has its identities and traits.
CountAudiences ==
    /\ task.kind = "parity" /\ task.state = "queued" /\ settled
    /\ \/ /\ session' = [session EXCEPT !.status = "completed"]
          /\ task' = [task EXCEPT !.state = "succeeded"]
          /\ UNCHANGED trouble
       \/ /\ Trouble
          /\ session' = [session EXCEPT !.status = "failed"]
          /\ \E state \in {"queued", "failed"} : task' = [task EXCEPT !.state = state]
    /\ UNCHANGED <<fileVars, patch, viewed, worker, handle, drop, restVars>>

MigrationNext ==
    \/ \E e \in Export : StartFile(e) \/ OpenPatch(e)
    \/ WritePatch \/ CommitPatch \/ LosePatch
    \/ ViewSession \/ RunMigration \/ StartSftp \/ RequestParity
    \/ \E o \in AnyExport : RevokeFile(o) \/ PrepareChunk(o) \/ MarkPrepared(o) \/ ImportFile(o)
    \/ \E inPlace \in BOOLEAN : PublishVersion(inPlace)
    \/ ClaimImport \/ List \/ BeginDownload \/ OpenRemote \/ ReadChunk \/ SaveOffset \/ CheckDownload
    \/ CollectFiles \/ RunSource \/ FinishSource \/ PublishBatch \/ Raise \/ Break
    \/ ResolveBatch \/ CountAudiences

MigrationSpec == MigrationInit /\ [][MigrationNext]_migrationVars

-----------------------------------------------------------------------------
(* What holds, and what does not. *)

\* The offset of a row stands for the first bytes of the export, whatever is lost:
\* where a file is called uploaded, they are the export.  What the browser sent is
\* all that is on the disk, and all that is imported.
UploadedIsWhole ==
    \A o \in AnyExport :
        /\ files[o].status = "uploaded" => Kept(o) = Content(o)
        /\ o \in Export /\ files[o].status \in {"uploaded", "prepared"} => disk[o] = Content(o)
        /\ o \in Export /\ files[o].status = "prepared" => spool[o] = Content(o)

\* A session that goes on to its counts has imported all of its files, whichever
\* attempt prepared them, and is completed only with identities and traits; but
\* for files begun after the first manifest was saved, which no run takes up.
NothingLeftOut ==
    /\ session.status \in {"processing", "completed"} => Begun \ late \subseteq source.imported
    /\ session.status = "completed" => settled

\* Both: nothing is lost between a source and a completed session.
SessionIsWhole == UploadedIsWhole /\ NothingLeftOut

\* "changing a remote file's size/mtime invalidates that download": an imported
\* file is of one version.
DownloadIsOneVersion ==
    \A v \in Version \intersect source.imported : \A i \in DOMAIN spool[v] : spool[v][i] = <<v, i>>

=============================================================================
