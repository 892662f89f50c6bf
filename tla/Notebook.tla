---- MODULE Notebook ----
(***************************************************************************)
(* The job notebook of the Prusa pack: which file a publish takes for the  *)
(* job, and where its notebook comes from (pack.py _resolve_job_notebook,  *)
(* _get_job_notebook): the binding to the job, the memory cache, the       *)
(* persisted <job_hash>.notebook.json with the external notes beside it,   *)
(* or a new build from the downloaded file.                                *)
(*                                                                         *)
(* The printer's files and jobs, a notes tool and the clock run beside the *)
(* publishing thread; the runtime can stop at any point, also while it     *)
(* writes the notebook.                                                    *)
(***************************************************************************)
EXTENDS Integers, Sequences, FiniteSets

CONSTANTS
    Files,              \* paths on the printer's storage
    Sizes,              \* size_bytes of a file
    Requested,          \* requested_file, or None
    MaxUploads,         \* bound: files uploaded or replaced
    MaxJobs,            \* bound: jobs
    MaxNotes,           \* bound: times a notes file is written
    MaxFaults,          \* bound: failed listings and downloads, and restarts
    None                \* Python's None

ASSUME NotebookAssumption ==
    /\ Requested \in Files \cup {None} /\ None \notin Files
    /\ {MaxUploads, MaxJobs, MaxNotes, MaxFaults} \subseteq Nat

VARIABLES
    uploads,            \* history: what was uploaded, [file, size] each
    usb,                \* file -> number of the upload it holds, 0: none
    job,                \* the job that prints, or None
    list, listFresh,    \* _files_cache: file -> size, or None; younger than 20 s
    cache,              \* _notebook_cache
    bound,              \* _bound_notebook
    disk, notesNewer,   \* <hash>.notebook.json, and its mtime against the notes'
    notes,              \* version of <hash>.notes.json, 0: none
    pc, work,           \* the publishing thread
    mixed, raced,       \* history: hashes built from another size; notes written during a persist
    jobs, faults

vars == <<uploads, usb, job, list, listFresh, cache, bound, disk, notesNewer, notes, pc, work,
          mixed, raced, jobs, faults>>

Hashes == Files \X Sizes
Uploaded == [file : Files, size : Sizes]
Notebooks == [n : 1 .. MaxUploads, notes : 0 .. MaxNotes]   \* the text and the notes it was built of
Torn == [n |-> 0, notes |-> 0]                              \* half a file
Scopes == (0 .. MaxJobs) \X Files
Statuses == {"printable_unknown", "memory_cache", "persisted_reused", "generated", "generation_failed"}
Bindings == [scope : Scopes, printable : Hashes \cup {None}, nb : Notebooks \cup {None}, status : Statuses]

(* The store is well typed. *)
TypeOK ==
    /\ uploads \in Seq(Uploaded) /\ Len(uploads) <= MaxUploads /\ usb \in [Files -> 0 .. MaxUploads]
    /\ job \in [id : 1 .. MaxJobs, file : Files, n : 1 .. MaxUploads] \cup {None}
    /\ list \in [Files -> Sizes \cup {None}] /\ listFresh \in BOOLEAN
    /\ cache \in [Hashes -> Notebooks \cup {None}] /\ bound \in Bindings \cup {None}
    /\ disk \in [Hashes -> Notebooks \cup {None, Torn}] /\ notesNewer \in [Hashes -> BOOLEAN]
    /\ notes \in [Hashes -> 0 .. MaxNotes]
    /\ pc \in {"idle", "download", "persist"}
    /\ work \in [scope : Scopes, printable : Hashes, hash : Hashes, nb : Notebooks \cup {None}] \cup {None}
    /\ mixed \subseteq Hashes /\ raced \subseteq Hashes
    /\ jobs \in 0 .. MaxJobs /\ faults \in 0 .. MaxFaults

NbInit ==
    /\ uploads = <<>> /\ usb = [f \in Files |-> 0] /\ job = None
    /\ list = [f \in Files |-> None] /\ listFresh = FALSE
    /\ cache = [h \in Hashes |-> None] /\ bound = None
    /\ disk = [h \in Hashes |-> None] /\ notesNewer = [h \in Hashes |-> FALSE]
    /\ notes = [h \in Hashes |-> 0]
    /\ pc = "idle" /\ work = None /\ mixed = {} /\ raced = {} /\ jobs = 0 /\ faults = 0

-----------------------------------------------------------------------------
(* The printer, the notes tool, the clock *)

packState == <<list, listFresh, cache, bound, pc, work>>
diskState == <<disk, notesNewer, notes>>

Upload ==
    /\ Len(uploads) < MaxUploads
    /\ \E f \in Files, z \in Sizes :
         /\ job # None => job.file # f
         /\ uploads' = Append(uploads, [file |-> f, size |-> z])
         /\ usb' = [usb EXCEPT ![f] = Len(uploads')]
    /\ UNCHANGED <<packState, diskState, job, mixed, raced, jobs, faults>>
StartJob ==
    /\ job = None /\ jobs < MaxJobs /\ jobs' = jobs + 1
    /\ \E f \in Files : usb[f] # 0 /\ job' = [id |-> jobs', file |-> f, n |-> usb[f]]
    /\ UNCHANGED <<packState, diskState, uploads, usb, mixed, raced, faults>>
EndJob ==
    /\ job # None /\ job' = None
    /\ UNCHANGED <<packState, diskState, uploads, usb, mixed, raced, jobs, faults>>
(* Whoever writes notes has the notebook and its hash.                      *)
WriteNotes ==
    /\ \E h \in Hashes :
         /\ disk[h] # None /\ notes[h] < MaxNotes
         /\ notes' = [notes EXCEPT ![h] = @ + 1] /\ notesNewer' = [notesNewer EXCEPT ![h] = TRUE]
         /\ raced' = IF pc = "persist" /\ work.hash = h THEN raced \cup {h} ELSE raced
    /\ UNCHANGED <<packState, disk, uploads, usb, job, mixed, jobs, faults>>
ListAges ==
    /\ listFresh /\ listFresh' = FALSE
    /\ UNCHANGED <<list, cache, bound, pc, work, diskState, uploads, usb, job, mixed, raced, jobs, faults>>

-----------------------------------------------------------------------------
(* _resolve_job_notebook *)

(* _notebook_scope_token: the job and its file, or the requested file.      *)
Scope ==
    IF job # None THEN <<job.id, job.file>> ELSE IF Requested # None THEN <<0, Requested>> ELSE None
BoundHere == bound # None /\ bound.scope = Scope

(* Mutant of RetryStatus: an unknown file is final, too.                    *)
RetryNever(s) == FALSE
(* _NOTEBOOK_RETRY_STATUSES *)
RetryStatus(s) == s = "printable_unknown"

(* _files_for_publish, _get_files_cached: in verify mode and for the job it *)
(* is bound to the pack takes the list it has; otherwise one younger than   *)
(* 20 s, a new one, or the old one when listing fails.                      *)
ListNow == [f \in Files |-> IF usb[f] = 0 THEN None ELSE uploads[usb[f]].size]
KeepList == UNCHANGED <<list, listFresh, faults>>
FilesForPublish(verify) ==
    IF verify \/ (job # None /\ BoundHere) \/ listFresh THEN KeepList
    ELSE \/ list' = ListNow /\ listFresh' = TRUE /\ UNCHANGED faults
         \/ faults < MaxFaults /\ faults' = faults + 1 /\ UNCHANGED <<list, listFresh>>

(* _select_notebook_file: the current file, or else the requested one.      *)
Listed(f, l) == f # None /\ l[f] # None              \* _match_requested_file
SelectFile(l) ==
    IF job # None /\ Listed(job.file, l) THEN job.file
    ELSE IF Listed(Requested, l) THEN Requested ELSE None

(* Mutant of JobHash: the path alone identifies a job.                      *)
HashOfPath(f, z) == <<f, CHOOSE y \in Sizes : TRUE>>
(* _job_hash: name, path, type and size; neither date nor content.          *)
JobHash(f, z) == <<f, z>>

Bind(p, nb, s) == bound' = [scope |-> Scope, printable |-> p, nb |-> nb, status |-> s]

(* Mutant of PersistedUsable: the notes' date is not looked at.             *)
PersistedWithoutNotes(h) == disk[h] # None /\ disk[h] # Torn
(* Mutant of PersistedUsable: the file is taken as it is.                   *)
PersistedUnread(h) == disk[h] # None /\ ~notesNewer[h]
(* notebook_from_jsonable takes a whole file and raises on half of one.     *)
Loads(h) == disk[h] # Torn
(* The persisted notebook is not older than the notes and can be loaded;    *)
(* under its hash it passes _validate_loaded_notebook.                      *)
PersistedUsable(h) == disk[h] # None /\ ~notesNewer[h] /\ Loads(h)

(* A publish, up to the notebook it finds without a download.               *)
Resolve(verify) ==
    /\ pc = "idle"
    /\ UNCHANGED <<diskState, uploads, usb, job, mixed, raced, jobs>>
    /\ FilesForPublish(verify)
    /\ LET f == SelectFile(list')
           h == JobHash(f, list'[f])
       IN IF Scope = None
          THEN bound' = None /\ UNCHANGED <<cache, pc, work>>
          ELSE IF BoundHere /\ ~RetryStatus(bound.status)
          THEN UNCHANGED <<cache, bound, pc, work>>
          ELSE IF f = None
          THEN /\ IF verify /\ BoundHere THEN UNCHANGED bound ELSE Bind(None, None, "printable_unknown")
               /\ UNCHANGED <<cache, pc, work>>
          ELSE IF cache[h] # None
          THEN Bind(<<f, list'[f]>>, cache[h], "memory_cache") /\ UNCHANGED <<cache, pc, work>>
          ELSE IF PersistedUsable(h)
          THEN /\ Bind(<<f, list'[f]>>, disk[h], "persisted_reused")
               /\ cache' = [cache EXCEPT ![h] = disk[h]] /\ UNCHANGED <<pc, work>>
          ELSE /\ pc' = "download" /\ work' = [scope |-> Scope, printable |-> <<f, list'[f]>>, hash |-> h, nb |-> None]
               /\ UNCHANGED <<cache, bound>>
Publish == Resolve(FALSE)
VerifyPublish == Resolve(TRUE)

Rebind(nb, s) == bound' = [scope |-> work.scope, printable |-> work.printable, nb |-> nb, status |-> s]
Building == UNCHANGED <<list, listFresh, uploads, usb, job, jobs>>

(* merge_external_notes: the notes there are by then.                       *)
Merged(n, h) == [n |-> n, notes |-> notes[h]]
(* What is there now is downloaded and read, and the notes merged.          *)
Generate ==
    /\ pc = "download" /\ usb[work.hash[1]] # 0
    /\ LET n == usb[work.hash[1]] IN
         /\ work' = [work EXCEPT !.nb = Merged(n, work.hash)]
         /\ mixed' = IF uploads[n].size # work.printable[2] THEN mixed \cup {work.hash} ELSE mixed \ {work.hash}
    /\ raced' = raced \ {work.hash}
    /\ pc' = "persist"
    /\ Building /\ UNCHANGED <<cache, bound, diskState, faults>>
(* The download or its decoding failed: without the text the notebook has   *)
(* no grounding.                                                            *)
DownloadFails ==
    /\ pc = "download" /\ faults < MaxFaults /\ faults' = faults + 1
    /\ Rebind(None, "generation_failed")
    /\ pc' = "idle" /\ work' = None
    /\ Building /\ UNCHANGED <<cache, diskState, mixed, raced>>
Persist ==
    /\ pc = "persist"
    /\ disk' = [disk EXCEPT ![work.hash] = work.nb] /\ notesNewer' = [notesNewer EXCEPT ![work.hash] = FALSE]
    /\ cache' = [cache EXCEPT ![work.hash] = work.nb]
    /\ Rebind(work.nb, "generated")
    /\ pc' = "idle" /\ work' = None
    /\ Building /\ UNCHANGED <<notes, mixed, raced, faults>>

(* The runtime is started anew; write_text may have got half way.           *)
Restart ==
    /\ faults < MaxFaults /\ faults' = faults + 1
    /\ list' = [f \in Files |-> None] /\ listFresh' = FALSE
    /\ cache' = [h \in Hashes |-> None] /\ bound' = None
    /\ pc' = "idle" /\ work' = None
    /\ \/ UNCHANGED <<disk, notesNewer>>
       \/ /\ pc = "persist" /\ disk' = [disk EXCEPT ![work.hash] = Torn]
          /\ notesNewer' = [notesNewer EXCEPT ![work.hash] = FALSE]
    /\ UNCHANGED <<notes, uploads, usb, job, mixed, raced, jobs>>

-----------------------------------------------------------------------------
NbNext ==
    \/ Upload \/ StartJob \/ EndJob \/ WriteNotes \/ ListAges
    \/ Publish \/ VerifyPublish \/ Generate \/ DownloadFails \/ Persist \/ Restart

NbSpec == NbInit /\ [][NbNext]_vars

-----------------------------------------------------------------------------
SameHash(n, m) == uploads[n] = uploads[m]

(* job_notebook.py:488, pack.py:2465: a job that is bound to its own file   *)
(* as listed sees the notebook of the text it prints, whatever was replaced,*)
(* cached, persisted or restarted in between: unless the text before had    *)
(* the same size (the hash does not tell them apart), or the file was       *)
(* replaced between listing and download.                                   *)
JobSeesItsText ==
    job # None /\ BoundHere /\ bound.nb # None /\ bound.printable = <<job.file, uploads[job.n].size>> =>
        SameHash(bound.nb.n, job.n) \/ bound.printable \in mixed

(* The store of notebooks (pack.py:698, 2465): well typed, and the job is   *)
(* shown the notebook of its own text.                                      *)
StoreInv == TypeOK /\ JobSeesItsText

(* pack.py:2479: a notebook that is loaded or built brings all notes        *)
(* written by then, after restarts and torn files too; only notes written   *)
(* while it was being persisted are missed.                                 *)
LoadBringsNotes ==
    [][\A h \in Hashes : cache[h] = None /\ cache'[h] # None =>
           cache'[h].notes = notes[h] \/ h \in raced]_vars

RequestUnknown == job = None /\ BoundHere /\ bound.status = "printable_unknown"

(* pack.py:97, 719: with the printer idle, a requested file that was not in *)
(* the list is found once it is on the storage.  (While a job is active     *)
(* the list is not read again, pack.py:698, and the retry finds nothing.)   *)
RequestIsFound ==
    RequestUnknown /\ Requested # None /\ usb[Requested] # 0 ~> ~RequestUnknown

(* A notebook gets to where it is needed (pack.py:719, 2479): with every    *)
(* note when it is loaded, and for a requested file that is uploaded later. *)
NotebookArrives == LoadBringsNotes /\ RequestIsFound

=============================================================================
