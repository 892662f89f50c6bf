---- MODULE Notebook_proofs ----
(***************************************************************************)
(* Proofs about the store of job notebooks: which text and which notes a   *)
(* job is shown, for any files, sizes, uploads, jobs, notes and restarts;  *)
(* and about the section map of a file: how it cuts the file, what it says *)
(* of each section, and which notes it shows, for every file of any length.*)
(***************************************************************************)
EXTENDS Notebook, Sections, FiniteSetTheorems, SequenceTheorems, TLAPS

Works == [scope : Scopes, printable : Hashes, hash : Hashes, nb : Notebooks \cup {None}]

(* The text a path holds, and the one a job prints, was uploaded there.     *)
FilesUploaded ==
    /\ \A f \in Files : usb[f] # 0 => usb[f] \in 1 .. Len(uploads) /\ uploads[usb[f]].file = f
    /\ job # None => job.n \in 1 .. Len(uploads) /\ uploads[job.n].file = job.file

(* A notebook is of a text of this path and size, unless the file was       *)
(* replaced between its listing and its download.                           *)
OfItsText(nb, h) ==
    nb.n \in 1 .. Len(uploads) /\ (uploads[nb.n] = [file |-> h[1], size |-> h[2]] \/ h \in mixed)

(* What is kept under a hash: in memory always, on the disk unless notes    *)
(* that came later make the pack build it anew.                             *)
CacheOfItsText == \A h \in Hashes : cache[h] # None => OfItsText(cache[h], h)
DiskOfItsText ==
    \A h \in Hashes : disk[h] \in Notebooks /\ disk[h] # None /\ ~notesNewer[h] => OfItsText(disk[h], h)
DiskHasNotes ==
    \A h \in Hashes : disk[h] \in Notebooks /\ disk[h] # None /\ ~notesNewer[h] =>
        disk[h].notes = notes[h] \/ h \in raced

(* What is bound to a job is in memory, too, until the runtime stops.       *)
BoundIsCached == bound # None /\ bound.nb # None => bound.printable \in Hashes /\ cache[bound.printable] = bound.nb

(* A build goes on only where nothing usable was kept.                      *)
BuildOfMissing ==
    pc # "idle" =>
        /\ work \in Works /\ work.hash = work.printable /\ cache[work.hash] = None
        /\ disk[work.hash] \in {None, Torn} \/ notesNewer[work.hash]
BuildOfItsText ==
    pc = "persist" =>
        /\ work.nb \in Notebooks /\ OfItsText(work.nb, work.hash)
        /\ work.nb.notes = notes[work.hash] \/ work.hash \in raced

NbInv ==
    /\ TypeOK /\ FilesUploaded /\ CacheOfItsText /\ DiskOfItsText /\ DiskHasNotes
    /\ BoundIsCached /\ BuildOfMissing /\ BuildOfItsText

-----------------------------------------------------------------------------
(* Parts of the type invariant.                                             *)
PrinterType ==
    /\ uploads \in Seq(Uploaded) /\ Len(uploads) <= MaxUploads /\ usb \in [Files -> 0 .. MaxUploads]
    /\ job \in [id : 1 .. MaxJobs, file : Files, n : 1 .. MaxUploads] \cup {None}
    /\ jobs \in 0 .. MaxJobs
ListType == list \in [Files -> Sizes \cup {None}] /\ listFresh \in BOOLEAN /\ faults \in 0 .. MaxFaults
MemoryType == cache \in [Hashes -> Notebooks \cup {None}] /\ bound \in Bindings \cup {None}
DiskType ==
    /\ disk \in [Hashes -> Notebooks \cup {None, Torn}] /\ notesNewer \in [Hashes -> BOOLEAN]
    /\ notes \in [Hashes -> 0 .. MaxNotes] /\ mixed \subseteq Hashes /\ raced \subseteq Hashes
WorkType == pc \in {"idle", "download", "persist"} /\ work \in Works \cup {None}

LEMMA TypeParts == TypeOK <=> PrinterType /\ ListType /\ MemoryType /\ DiskType /\ WorkType
BY Zenon DEF TypeOK, PrinterType, ListType, MemoryType, DiskType, WorkType, Works

LEMMA Bounds == MaxUploads \in Nat /\ MaxJobs \in Nat /\ MaxNotes \in Nat /\ MaxFaults \in Nat
BY NotebookAssumption

(* Half a file is no notebook.                                              *)
LEMMA TornIsNone == Torn \notin Notebooks
BY Bounds DEF Torn, Notebooks

LEMMA NbInitially == NbInit => NbInv
<1> SUFFICES ASSUME NbInit PROVE NbInv
  OBVIOUS
<1>1. PrinterType
  BY Bounds DEF NbInit, PrinterType
<1>2. ListType
  <2>1. listFresh \in BOOLEAN
    BY Zenon DEF NbInit
  <2> QED BY <2>1, Bounds DEF NbInit, ListType
<1>3. MemoryType /\ WorkType
  BY DEF NbInit, MemoryType, WorkType
<1>4. DiskType
  <2>1. notesNewer \in [Hashes -> BOOLEAN]
    BY Zenon DEF NbInit
  <2> QED BY <2>1, Bounds DEF NbInit, DiskType
<1>5. FilesUploaded /\ CacheOfItsText /\ DiskOfItsText /\ DiskHasNotes
  BY DEF NbInit, FilesUploaded, CacheOfItsText, DiskOfItsText, DiskHasNotes
<1>6. BoundIsCached /\ BuildOfMissing /\ BuildOfItsText
  BY DEF NbInit, BoundIsCached, BuildOfMissing, BuildOfItsText
<1> QED BY <1>1, <1>2, <1>3, <1>4, <1>5, <1>6, TypeParts DEF NbInv

-----------------------------------------------------------------------------
(* The files and jobs of the printer.                                       *)
LEMMA PrinterSteps ==
    ASSUME NbInv, Upload \/ StartJob \/ EndJob
    PROVE  NbInv'
<1>1. PrinterType /\ ListType /\ MemoryType /\ DiskType /\ WorkType
  BY TypeParts DEF NbInv
<1>2. UNCHANGED <<packState, diskState, mixed, raced, faults>>
  BY DEF Upload, StartJob, EndJob
<1>3. UNCHANGED <<list, listFresh, cache, bound, pc, work, disk, notesNewer, notes, mixed, raced, faults>>
  BY <1>2 DEF packState, diskState
<1>4. ListType' /\ MemoryType' /\ DiskType' /\ WorkType'
  BY <1>1, <1>3, Zenon DEF ListType, MemoryType, DiskType, WorkType
<1>5. /\ Len(uploads') \in Nat /\ Len(uploads) \in Nat /\ Len(uploads) <= Len(uploads')
      /\ \A n \in 1 .. Len(uploads) : uploads'[n] = uploads[n]
      /\ PrinterType' /\ FilesUploaded'
  <2>1. CASE Upload
    <3>1. PICK f \in Files, z \in Sizes :
             /\ job # None => job.file # f
             /\ uploads' = Append(uploads, [file |-> f, size |-> z])
             /\ usb' = [usb EXCEPT ![f] = Len(uploads')]
      BY <2>1 DEF Upload
    <3>2. Len(uploads) < MaxUploads /\ UNCHANGED <<job, jobs>>
      BY <2>1 DEF Upload
    <3>3. [file |-> f, size |-> z] \in Uploaded
      BY DEF Uploaded
    <3>4. /\ uploads' \in Seq(Uploaded) /\ Len(uploads') = Len(uploads) + 1 /\ Len(uploads) \in Nat
          /\ \A n \in 1 .. Len(uploads) : uploads'[n] = uploads[n]
          /\ uploads'[Len(uploads')] = [file |-> f, size |-> z]
      BY <1>1, <3>1, <3>3 DEF PrinterType
    <3>5. PrinterType'
      BY <1>1, <3>1, <3>2, <3>4, Bounds DEF PrinterType
    <3>6. FilesUploaded'
      BY <1>1, <3>1, <3>2, <3>4 DEF PrinterType, FilesUploaded, NbInv
    <3> QED BY <3>4, <3>5, <3>6
  <2>2. CASE StartJob
    <3>1. PICK f \in Files : usb[f] # 0 /\ job' = [id |-> jobs', file |-> f, n |-> usb[f]]
      BY <2>2 DEF StartJob
    <3>2. jobs < MaxJobs /\ jobs' = jobs + 1 /\ UNCHANGED <<uploads, usb>>
      BY <2>2 DEF StartJob
    <3>3. usb[f] \in 1 .. Len(uploads) /\ uploads[usb[f]].file = f /\ Len(uploads) \in Nat
      BY <1>1, <3>1 DEF NbInv, FilesUploaded, PrinterType
    <3>4. jobs' \in 1 .. MaxJobs /\ usb[f] \in 1 .. MaxUploads
      BY <1>1, <3>2, <3>3, Bounds DEF PrinterType
    <3>5. PrinterType'
      BY <1>1, <3>1, <3>2, <3>4 DEF PrinterType
    <3>6. FilesUploaded'
      BY <3>1, <3>2, <3>3 DEF NbInv, FilesUploaded
    <3> QED BY <1>1, <3>2, <3>5, <3>6 DEF PrinterType
  <2>3. CASE EndJob
    BY <1>1, <2>3 DEF EndJob, PrinterType, NbInv, FilesUploaded
  <2> QED BY <2>1, <2>2, <2>3
<1>6. \A nb, h : OfItsText(nb, h) => OfItsText(nb, h)'
  BY <1>3, <1>5 DEF OfItsText
<1>7. CacheOfItsText' /\ DiskOfItsText' /\ DiskHasNotes'
  BY <1>3, <1>6 DEF NbInv, CacheOfItsText, DiskOfItsText, DiskHasNotes
<1>8. BoundIsCached' /\ BuildOfMissing' /\ BuildOfItsText'
  BY <1>3, <1>6 DEF NbInv, BoundIsCached, BuildOfMissing, BuildOfItsText
<1> QED BY <1>4, <1>5, <1>7, <1>8, TypeParts, PTL DEF NbInv

(* The notes tool.                                                          *)
LEMMA NotesSteps ==
    ASSUME NbInv, WriteNotes
    PROVE  NbInv'
<1>1. PrinterType /\ ListType /\ MemoryType /\ DiskType /\ WorkType
  BY TypeParts DEF NbInv
<1>2. PICK x \in Hashes :
         /\ disk[x] # None /\ notes[x] < MaxNotes
         /\ notes' = [notes EXCEPT ![x] = @ + 1] /\ notesNewer' = [notesNewer EXCEPT ![x] = TRUE]
         /\ raced' = IF pc = "persist" /\ work.hash = x THEN raced \cup {x} ELSE raced
  BY DEF WriteNotes
<1>3. UNCHANGED <<list, listFresh, cache, bound, pc, work, disk, uploads, usb, job, mixed, jobs, faults>>
  BY DEF WriteNotes, packState
<1>4. PrinterType' /\ ListType' /\ MemoryType' /\ WorkType' /\ FilesUploaded'
  BY <1>1, <1>3, Zenon DEF PrinterType, ListType, MemoryType, WorkType, NbInv, FilesUploaded
<1>5. DiskType'
  <2>1. notes' \in [Hashes -> 0 .. MaxNotes] /\ raced' \subseteq Hashes
    BY <1>1, <1>2, Bounds DEF DiskType
  <2>2. notesNewer' \in [Hashes -> BOOLEAN]
    BY <1>1, <1>2 DEF DiskType
  <2> QED BY <1>1, <1>3, <2>1, <2>2, Zenon DEF DiskType
<1>6. \A nb, h : OfItsText(nb, h)' <=> OfItsText(nb, h)
  BY <1>3 DEF OfItsText
<1>7. \A h \in Hashes : h # x => notes'[h] = notes[h] /\ notesNewer'[h] = notesNewer[h]
  BY <1>1, <1>2 DEF DiskType
<1>8. notesNewer'[x] /\ raced \subseteq raced'
  BY <1>1, <1>2 DEF DiskType
<1>9. CacheOfItsText' /\ DiskOfItsText' /\ DiskHasNotes' /\ BoundIsCached'
  BY <1>3, <1>6, <1>7, <1>8 DEF NbInv, CacheOfItsText, DiskOfItsText, DiskHasNotes, BoundIsCached
<1>10. BuildOfMissing'
  BY <1>3, <1>7, <1>8 DEF NbInv, BuildOfMissing, Works
<1>11. BuildOfItsText'
  BY <1>2, <1>3, <1>6, <1>7, <1>8 DEF NbInv, BuildOfItsText, BuildOfMissing, Works
<1> QED BY <1>4, <1>5, <1>9, <1>10, <1>11, TypeParts, PTL DEF NbInv

(* Nothing but the list of files changes.                                   *)
LEMMA ListSteps ==
    ASSUME NbInv, ListType',
           UNCHANGED <<cache, bound, pc, work, diskState, uploads, usb, job, mixed, raced, jobs>>
    PROVE  NbInv'
<1>1. PrinterType /\ ListType /\ MemoryType /\ DiskType /\ WorkType
  BY TypeParts DEF NbInv
<1>2. UNCHANGED <<disk, notesNewer, notes>>
  BY DEF diskState
<1>3. PrinterType' /\ MemoryType' /\ DiskType' /\ WorkType'
  BY <1>1, <1>2, Zenon DEF PrinterType, MemoryType, DiskType, WorkType
<1>4. \A nb, h : OfItsText(nb, h)' <=> OfItsText(nb, h)
  BY DEF OfItsText
<1>5. FilesUploaded' /\ CacheOfItsText' /\ DiskOfItsText' /\ DiskHasNotes'
  BY <1>2, <1>4 DEF NbInv, FilesUploaded, CacheOfItsText, DiskOfItsText, DiskHasNotes
<1>6. BoundIsCached' /\ BuildOfMissing' /\ BuildOfItsText'
  BY <1>2, <1>4 DEF NbInv, BoundIsCached, BuildOfMissing, BuildOfItsText
<1> QED BY <1>3, <1>5, <1>6, TypeParts, PTL DEF NbInv

(* The list a publish uses.                                                 *)
LEMMA ListUsed ==
    ASSUME NbInv, NEW verify \in BOOLEAN, FilesForPublish(verify)
    PROVE  ListType'
<1>1. PrinterType /\ ListType
  BY TypeParts DEF NbInv
<1>2. ListNow \in [Files -> Sizes \cup {None}]
  <2>1. ASSUME NEW f \in Files, usb[f] # 0 PROVE uploads[usb[f]].size \in Sizes
    <3>1. usb[f] \in 1 .. Len(uploads)
      BY <2>1 DEF NbInv, FilesUploaded
    <3>2. uploads[usb[f]] \in Uploaded
      BY <1>1, <3>1 DEF PrinterType
    <3> QED BY <3>2 DEF Uploaded
  <2> QED BY <2>1 DEF ListNow
<1>3. CASE UNCHANGED <<list, listFresh, faults>>
  BY <1>1, <1>3, Zenon DEF ListType
<1>4. CASE list' = ListNow /\ listFresh' = TRUE /\ UNCHANGED faults
  BY <1>1, <1>2, <1>4, Zenon DEF ListType
<1>5. CASE faults < MaxFaults /\ faults' = faults + 1 /\ UNCHANGED <<list, listFresh>>
  <2>1. faults' \in 0 .. MaxFaults
    BY <1>1, <1>5, Bounds DEF ListType
  <2> QED BY <1>1, <1>5, <2>1, Zenon DEF ListType
<1> QED BY <1>3, <1>4, <1>5 DEF FilesForPublish, KeepList

(* The file a publish takes is a listed one.                                *)
LEMMA SelectType ==
    ASSUME NbInv, ListType', SelectFile(list') # None
    PROVE  SelectFile(list') \in Files /\ list'[SelectFile(list')] \in Sizes
<1>1. PrinterType
  BY TypeParts DEF NbInv
<1>2. job # None => job.file \in Files
  BY <1>1 DEF PrinterType
<1> QED BY <1>2, NotebookAssumption DEF SelectFile, Listed, ListType

LEMMA ScopeType ==
    ASSUME NbInv, Scope # None
    PROVE  Scope \in Scopes
<1>1. PrinterType
  BY TypeParts DEF NbInv
<1> QED BY <1>1, NotebookAssumption, Bounds DEF Scope, Scopes, PrinterType

(* _resolve_job_notebook, up to the download.                               *)
LEMMA ResolveSteps ==
    ASSUME NbInv, NEW verify \in BOOLEAN, Resolve(verify)
    PROVE  NbInv'
<1> DEFINE f == SelectFile(list')
           h == <<f, list'[f]>>
<1>1. PrinterType /\ ListType /\ MemoryType /\ DiskType /\ WorkType
  BY TypeParts DEF NbInv
<1>2. ListType'
  BY ListUsed DEF Resolve
<1>3. pc = "idle" /\ UNCHANGED <<diskState, uploads, usb, job, mixed, raced, jobs>>
  BY DEF Resolve
<1>4. UNCHANGED <<disk, notesNewer, notes>>
  BY <1>3 DEF diskState
<1>5. PrinterType' /\ DiskType'
  BY <1>1, <1>3, <1>4, Zenon DEF PrinterType, DiskType
<1>6. \A nb, x : OfItsText(nb, x)' <=> OfItsText(nb, x)
  BY <1>3 DEF OfItsText
<1>7. FilesUploaded' /\ DiskOfItsText' /\ DiskHasNotes'
  BY <1>3, <1>4, <1>6 DEF NbInv, FilesUploaded, DiskOfItsText, DiskHasNotes
<1>8. SUFFICES MemoryType' /\ WorkType' /\ CacheOfItsText' /\ BoundIsCached' /\ BuildOfMissing' /\ BuildOfItsText'
  BY <1>2, <1>5, <1>7, TypeParts, PTL DEF NbInv
<1>9. CASE UNCHANGED <<cache, bound, pc, work>>
  <2>1. NbInv'
    BY <1>2, <1>3, <1>9, ListSteps
  <2> QED BY <2>1, TypeParts, PTL DEF NbInv
<1>10. CASE UNCHANGED <<cache, pc, work>> /\ (bound' = None \/ (Scope # None /\ Bind(None, None, "printable_unknown")))
  <2>1. MemoryType'
    BY <1>1, <1>10, ScopeType DEF MemoryType, Bind, Bindings, Statuses
  <2>2. WorkType' /\ CacheOfItsText' /\ BoundIsCached' /\ BuildOfMissing' /\ BuildOfItsText'
    BY <1>1, <1>3, <1>6, <1>10 DEF WorkType, NbInv, CacheOfItsText, BoundIsCached, BuildOfMissing, BuildOfItsText, Bind
  <2> QED BY <2>1, <2>2
<1>11. CASE /\ Scope # None /\ f # None /\ cache[h] # None
            /\ Bind(h, cache[h], "memory_cache") /\ UNCHANGED <<cache, pc, work>>
  <2>1. h \in Hashes /\ Scope \in Scopes
    BY <1>2, <1>11, SelectType, ScopeType DEF Hashes
  <2>2. bound' = [scope |-> Scope, printable |-> h, nb |-> cache[h], status |-> "memory_cache"]
    BY <1>11 DEF Bind
  <2>3. MemoryType'
    BY <1>1, <1>11, <2>1, <2>2 DEF MemoryType, Bindings, Statuses
  <2>4. WorkType' /\ CacheOfItsText' /\ BoundIsCached' /\ BuildOfMissing' /\ BuildOfItsText'
    BY <1>1, <1>3, <1>6, <1>11, <2>1, <2>2 DEF WorkType, NbInv, CacheOfItsText, BoundIsCached, BuildOfMissing,
       BuildOfItsText
  <2> QED BY <2>3, <2>4
<1>12. CASE /\ Scope # None /\ f # None /\ cache[h] = None /\ PersistedUsable(h)
            /\ Bind(h, disk[h], "persisted_reused")
            /\ cache' = [cache EXCEPT ![h] = disk[h]] /\ UNCHANGED <<pc, work>>
  <2>1. h \in Hashes /\ Scope \in Scopes
    BY <1>2, <1>12, SelectType, ScopeType DEF Hashes
  <2>2. disk[h] \in Notebooks /\ disk[h] # None /\ ~notesNewer[h]
    BY <1>1, <1>12, <2>1 DEF PersistedUsable, Loads, DiskType
  <2>3. bound' = [scope |-> Scope, printable |-> h, nb |-> disk[h], status |-> "persisted_reused"]
    BY <1>12 DEF Bind
  <2>4. MemoryType'
    BY <1>1, <1>12, <2>1, <2>2, <2>3 DEF MemoryType, Bindings, Statuses
  <2>5. OfItsText(disk[h], h)
    BY <2>1, <2>2 DEF NbInv, DiskOfItsText
  <2>6. \A x \in Hashes : cache'[x] = IF x = h THEN disk[h] ELSE cache[x]
    BY <1>1, <1>12 DEF MemoryType
  <2>7. CacheOfItsText' /\ BoundIsCached'
    BY <1>6, <2>1, <2>3, <2>5, <2>6 DEF NbInv, CacheOfItsText, BoundIsCached
  <2>8. WorkType' /\ BuildOfMissing' /\ BuildOfItsText'
    BY <1>1, <1>3, <1>12 DEF WorkType, BuildOfMissing, BuildOfItsText
  <2> QED BY <2>4, <2>7, <2>8
<1>13. CASE /\ Scope # None /\ f # None /\ cache[h] = None /\ ~PersistedUsable(h)
            /\ pc' = "download" /\ work' = [scope |-> Scope, printable |-> h, hash |-> h, nb |-> None]
            /\ UNCHANGED <<cache, bound>>
  <2>1. h \in Hashes /\ Scope \in Scopes
    BY <1>2, <1>13, SelectType, ScopeType DEF Hashes
  <2>2. work' \in Works /\ work'.hash = h /\ work'.printable = h
    BY <1>13, <2>1 DEF Works
  <2>3. MemoryType' /\ WorkType' /\ CacheOfItsText' /\ BoundIsCached' /\ BuildOfItsText'
    BY <1>1, <1>6, <1>13, <2>2 DEF MemoryType, WorkType, NbInv, CacheOfItsText, BoundIsCached, BuildOfItsText
  <2>4. disk[h] \in {None, Torn} \/ notesNewer[h]
    BY <1>13 DEF PersistedUsable, Loads
  <2>5. BuildOfMissing'
    BY <1>4, <1>13, <2>2, <2>4 DEF BuildOfMissing
  <2> QED BY <2>3, <2>5
<1>14. CASE Scope = None
  <2>1. bound' = None /\ UNCHANGED <<cache, pc, work>>
    BY <1>14 DEF Resolve
  <2> QED BY <1>10, <2>1
<1>15. CASE Scope # None /\ BoundHere /\ ~RetryStatus(bound.status)
  BY <1>9, <1>15 DEF Resolve
<1>16. CASE Scope # None /\ ~(BoundHere /\ ~RetryStatus(bound.status)) /\ f = None
  BY <1>9, <1>10, <1>16 DEF Resolve
<1>17. CASE Scope # None /\ ~(BoundHere /\ ~RetryStatus(bound.status)) /\ f # None
  <2>1. \/ cache[h] # None /\ Bind(h, cache[h], "memory_cache") /\ UNCHANGED <<cache, pc, work>>
        \/ /\ cache[h] = None /\ PersistedUsable(h) /\ Bind(h, disk[h], "persisted_reused")
           /\ cache' = [cache EXCEPT ![h] = disk[h]] /\ UNCHANGED <<pc, work>>
        \/ /\ cache[h] = None /\ ~PersistedUsable(h)
           /\ pc' = "download" /\ work' = [scope |-> Scope, printable |-> h, hash |-> h, nb |-> None]
           /\ UNCHANGED <<cache, bound>>
    BY <1>17 DEF Resolve, JobHash
  <2> QED BY <1>11, <1>12, <1>13, <1>17, <2>1
<1> QED BY <1>14, <1>15, <1>16, <1>17

(* The download.                                                            *)
LEMMA GenerateSteps ==
    ASSUME NbInv, Generate
    PROVE  NbInv'
<1>0. PICK h, n, nb : h = work.hash /\ n = usb[h[1]] /\ nb = Merged(n, h)
  OBVIOUS
<1>1. PrinterType /\ ListType /\ MemoryType /\ DiskType /\ WorkType
  BY TypeParts DEF NbInv
<1>2. /\ pc = "download" /\ pc' = "persist" /\ n # 0
      /\ work' = [work EXCEPT !.nb = nb]
      /\ mixed' = IF uploads[n].size # work.printable[2] THEN mixed \cup {h} ELSE mixed \ {h}
      /\ raced' = raced \ {h}
  BY <1>0 DEF Generate
<1>3. UNCHANGED <<list, listFresh, uploads, usb, job, jobs, cache, bound, disk, notesNewer, notes, faults>>
  BY DEF Generate, Building, diskState
<1>4. /\ work \in Works /\ work.printable = h /\ h \in Hashes /\ cache[h] = None
      /\ disk[h] \in {None, Torn} \/ notesNewer[h]
  BY <1>0, <1>2 DEF NbInv, BuildOfMissing, Works
<1>5. h[1] \in Files /\ h[2] \in Sizes /\ h = <<h[1], h[2]>>
  BY <1>4 DEF Hashes
<1>6. n \in 1 .. Len(uploads) /\ uploads[n].file = h[1] /\ Len(uploads) \in Nat /\ uploads[n] \in Uploaded
  BY <1>0, <1>1, <1>2, <1>5 DEF NbInv, FilesUploaded, PrinterType
<1>7. nb \in Notebooks /\ nb.n = n /\ nb.notes = notes[h]
  BY <1>0, <1>1, <1>4, <1>6, Bounds DEF Merged, Notebooks, PrinterType, DiskType
<1>8. work' \in Works /\ work'.hash = h /\ work'.printable = h /\ work'.nb = nb
  BY <1>0, <1>2, <1>4, <1>7 DEF Works
<1>9. PrinterType' /\ ListType' /\ MemoryType'
  BY <1>1, <1>3, Zenon DEF PrinterType, ListType, MemoryType
<1>10. DiskType' /\ WorkType'
  BY <1>1, <1>2, <1>3, <1>4, <1>8 DEF DiskType, WorkType
<1>11. \A b, x : x # h => (OfItsText(b, x)' <=> OfItsText(b, x))
  BY <1>2, <1>3 DEF OfItsText
<1>12. OfItsText(nb, h)'
  <2>1. uploads[n].size = h[2] => uploads[n] = [file |-> h[1], size |-> h[2]]
    BY <1>6 DEF Uploaded
  <2> QED BY <1>2, <1>3, <1>4, <1>6, <1>7, <2>1 DEF OfItsText
<1>13. FilesUploaded' /\ CacheOfItsText' /\ BoundIsCached'
  BY <1>3, <1>4, <1>11 DEF NbInv, FilesUploaded, CacheOfItsText, BoundIsCached
<1>14. DiskOfItsText'
  BY <1>3, <1>4, <1>11, TornIsNone DEF NbInv, DiskOfItsText
<1>15. DiskHasNotes'
  BY <1>2, <1>3, <1>4, TornIsNone DEF NbInv, DiskHasNotes
<1>16. BuildOfMissing'
  BY <1>3, <1>4, <1>8 DEF BuildOfMissing
<1>17. BuildOfItsText'
  BY <1>2, <1>3, <1>7, <1>8, <1>12 DEF BuildOfItsText
<1> QED BY <1>9, <1>10, <1>13, <1>14, <1>15, <1>16, <1>17, TypeParts, PTL DEF NbInv

(* No text, no notebook.                                                    *)
LEMMA FailSteps ==
    ASSUME NbInv, DownloadFails
    PROVE  NbInv'
<1>1. PrinterType /\ ListType /\ MemoryType /\ DiskType /\ WorkType
  BY TypeParts DEF NbInv
<1>2. UNCHANGED <<list, listFresh, uploads, usb, job, jobs, cache, disk, notesNewer, notes, mixed, raced>>
  BY DEF DownloadFails, Building, diskState
<1>3. work \in Works
  BY DEF DownloadFails, NbInv, BuildOfMissing
<1>4. /\ bound' = [scope |-> work.scope, printable |-> work.printable, nb |-> None, status |-> "generation_failed"]
      /\ pc' = "idle" /\ work' = None
  BY DEF DownloadFails, Rebind
<1>5. faults' \in 0 .. MaxFaults
  BY <1>1, Bounds DEF DownloadFails, ListType
<1>6. PrinterType' /\ ListType' /\ DiskType'
  BY <1>1, <1>2, <1>5, Zenon DEF PrinterType, ListType, DiskType
<1>7. MemoryType' /\ WorkType'
  BY <1>1, <1>2, <1>3, <1>4 DEF MemoryType, WorkType, Works, Bindings, Statuses
<1>8. \A nb, x : OfItsText(nb, x)' <=> OfItsText(nb, x)
  BY <1>2 DEF OfItsText
<1>9. FilesUploaded' /\ CacheOfItsText' /\ DiskOfItsText' /\ DiskHasNotes'
  BY <1>2, <1>8 DEF NbInv, FilesUploaded, CacheOfItsText, DiskOfItsText, DiskHasNotes
<1>10. BoundIsCached' /\ BuildOfMissing' /\ BuildOfItsText'
  BY <1>4 DEF BoundIsCached, BuildOfMissing, BuildOfItsText
<1> QED BY <1>6, <1>7, <1>9, <1>10, TypeParts, PTL DEF NbInv

(* The notebook is written, kept in memory and bound.                       *)
LEMMA PersistSteps ==
    ASSUME NbInv, Persist
    PROVE  NbInv'
<1> DEFINE h == work.hash
           nb == work.nb
<1>1. PrinterType /\ ListType /\ MemoryType /\ DiskType /\ WorkType
  BY TypeParts DEF NbInv
<1>2. /\ disk' = [disk EXCEPT ![h] = nb] /\ notesNewer' = [notesNewer EXCEPT ![h] = FALSE]
      /\ cache' = [cache EXCEPT ![h] = nb]
      /\ bound' = [scope |-> work.scope, printable |-> work.printable, nb |-> nb, status |-> "generated"]
      /\ pc' = "idle" /\ work' = None
  BY DEF Persist, Rebind
<1>3. UNCHANGED <<list, listFresh, uploads, usb, job, jobs, notes, mixed, raced, faults>>
  BY DEF Persist, Building
<1>4. /\ work \in Works /\ work.printable = h /\ h \in Hashes /\ cache[h] = None
      /\ nb \in Notebooks /\ OfItsText(nb, h) /\ (nb.notes = notes[h] \/ h \in raced)
  BY DEF Persist, NbInv, BuildOfMissing, BuildOfItsText, Works
<1>5. work.scope \in Scopes
  BY <1>4 DEF Works
<1> HIDE DEF h, nb
<1>6. PrinterType' /\ ListType'
  BY <1>1, <1>3, Zenon DEF PrinterType, ListType
<1>7. MemoryType' /\ WorkType'
  BY <1>1, <1>2, <1>4, <1>5 DEF MemoryType, WorkType, Bindings, Statuses
<1>8. DiskType'
  <2>1. notesNewer' \in [Hashes -> BOOLEAN]
    BY <1>1, <1>2, <1>4 DEF DiskType
  <2>2. disk' \in [Hashes -> Notebooks \cup {None, Torn}]
    BY <1>1, <1>2, <1>4 DEF DiskType
  <2> QED BY <1>1, <1>3, <2>1, <2>2, Zenon DEF DiskType
<1>9. \A x \in Hashes : /\ cache'[x] = IF x = h THEN nb ELSE cache[x]
                        /\ disk'[x] = IF x = h THEN nb ELSE disk[x]
                        /\ x # h => notesNewer'[x] = notesNewer[x]
  BY <1>1, <1>2 DEF MemoryType, DiskType
<1>10. \A b, x : OfItsText(b, x)' <=> OfItsText(b, x)
  BY <1>3 DEF OfItsText
<1>11. FilesUploaded' /\ CacheOfItsText' /\ DiskOfItsText'
  BY <1>3, <1>4, <1>9, <1>10 DEF NbInv, FilesUploaded, CacheOfItsText, DiskOfItsText
<1>12. DiskHasNotes'
  BY <1>3, <1>4, <1>9 DEF NbInv, DiskHasNotes
<1>13. BoundIsCached' /\ BuildOfMissing' /\ BuildOfItsText'
  BY <1>2, <1>4, <1>9 DEF BoundIsCached, BuildOfMissing, BuildOfItsText
<1> QED BY <1>6, <1>7, <1>8, <1>11, <1>12, <1>13, TypeParts, PTL DEF NbInv

(* The runtime stops, perhaps half-way through the write.                   *)
LEMMA RestartSteps ==
    ASSUME NbInv, Restart
    PROVE  NbInv'
<1>1. PrinterType /\ ListType /\ MemoryType /\ DiskType /\ WorkType
  BY TypeParts DEF NbInv
<1>2. /\ list' = [f \in Files |-> None] /\ listFresh' = FALSE
      /\ cache' = [x \in Hashes |-> None] /\ bound' = None /\ pc' = "idle" /\ work' = None
      /\ UNCHANGED <<notes, uploads, usb, job, mixed, raced, jobs>>
  BY DEF Restart
<1>3. faults' \in 0 .. MaxFaults
  BY <1>1, Bounds DEF Restart, ListType
<1>4. PrinterType' /\ MemoryType' /\ WorkType'
  BY <1>1, <1>2 DEF PrinterType, MemoryType, WorkType
<1>5. ListType'
  <2>1. list' \in [Files -> Sizes \cup {None}]
    BY <1>2
  <2> QED BY <1>2, <1>3, <2>1, Zenon DEF ListType
<1>6. /\ disk' \in [Hashes -> Notebooks \cup {None, Torn}] /\ notesNewer' \in [Hashes -> BOOLEAN]
      /\ \A x \in Hashes : disk'[x] = Torn \/ (disk'[x] = disk[x] /\ notesNewer'[x] = notesNewer[x])
  <2>1. CASE UNCHANGED <<disk, notesNewer>>
    BY <1>1, <2>1 DEF DiskType
  <2>2. CASE /\ pc = "persist" /\ disk' = [disk EXCEPT ![work.hash] = Torn]
             /\ notesNewer' = [notesNewer EXCEPT ![work.hash] = FALSE]
    <3>1. work.hash \in Hashes
      BY <2>2 DEF NbInv, BuildOfMissing, Works
    <3> QED BY <1>1, <2>2, <3>1 DEF DiskType
  <2> QED BY <2>1, <2>2 DEF Restart
<1>7. DiskType'
  BY <1>1, <1>2, <1>6, Zenon DEF DiskType
<1>8. \A nb, x : OfItsText(nb, x)' <=> OfItsText(nb, x)
  BY <1>2 DEF OfItsText
<1>9. FilesUploaded' /\ CacheOfItsText' /\ BoundIsCached' /\ BuildOfMissing' /\ BuildOfItsText'
  BY <1>2 DEF NbInv, FilesUploaded, CacheOfItsText, BoundIsCached, BuildOfMissing, BuildOfItsText
<1>10. DiskOfItsText' /\ DiskHasNotes'
  BY <1>2, <1>6, <1>8, TornIsNone DEF NbInv, DiskOfItsText, DiskHasNotes
<1> QED BY <1>4, <1>5, <1>7, <1>9, <1>10, TypeParts, PTL DEF NbInv

-----------------------------------------------------------------------------
LEMMA NbStep == NbInv /\ [NbNext]_vars => NbInv'
<1> SUFFICES ASSUME NbInv, [NbNext]_vars PROVE NbInv'
  OBVIOUS
<1>1. CASE Upload \/ StartJob \/ EndJob
  BY <1>1, PrinterSteps
<1>2. CASE WriteNotes
  BY <1>2, NotesSteps
<1>3. CASE ListAges \/ UNCHANGED vars
  <2>1. ListType
    BY TypeParts DEF NbInv
  <2>2. ListType'
    BY <1>3, <2>1, Zenon DEF ListAges, vars, ListType
  <2>3. UNCHANGED <<cache, bound, pc, work, diskState, uploads, usb, job, mixed, raced, jobs>>
    BY <1>3 DEF ListAges, vars, diskState
  <2> QED BY <2>2, <2>3, ListSteps
<1>4. CASE Publish \/ VerifyPublish
  BY <1>4, ResolveSteps DEF Publish, VerifyPublish
<1>5. CASE Generate \/ DownloadFails \/ Persist
  BY <1>5, GenerateSteps, FailSteps, PersistSteps
<1>6. CASE Restart
  BY <1>6, RestartSteps
<1> QED BY <1>1, <1>2, <1>3, <1>4, <1>5, <1>6 DEF NbNext

(* pack.py:698, 2465, job_notebook.py:488: the store is well typed and a    *)
(* job bound to its file as listed is shown the notebook of its own text,   *)
(* whatever is replaced, cached, persisted, torn or restarted in between.   *)
THEOREM JobsSeeTheirText == NbSpec => []StoreInv
<1>1. NbInv => StoreInv
  <2> SUFFICES ASSUME NbInv PROVE JobSeesItsText
    BY DEF NbInv, StoreInv
  <2> SUFFICES ASSUME job # None, BoundHere, bound.nb # None,
                      bound.printable = <<job.file, uploads[job.n].size>>
               PROVE  SameHash(bound.nb.n, job.n) \/ bound.printable \in mixed
    BY DEF JobSeesItsText
  <2>1. bound.printable \in Hashes /\ cache[bound.printable] = bound.nb
    BY DEF NbInv, BoundIsCached, BoundHere
  <2>2. OfItsText(bound.nb, bound.printable)
    BY <2>1 DEF NbInv, CacheOfItsText
  <2>3. uploads[job.n] \in Uploaded /\ uploads[job.n].file = job.file
    BY DEF NbInv, FilesUploaded, TypeOK
  <2>4. uploads[job.n] = [file |-> job.file, size |-> uploads[job.n].size]
    BY <2>3 DEF Uploaded
  <2> QED BY <2>2, <2>4 DEF OfItsText, SameHash
<1> QED BY <1>1, NbInitially, NbStep, PTL DEF NbSpec

(* pack.py:2479: whenever a notebook comes into memory, loaded or built, it *)
(* brings all notes written by then, after restarts and torn files too, but *)
(* for those written while it was being persisted.                          *)
THEOREM NotesAreBrought == NbSpec => LoadBringsNotes
<1>1. ASSUME NbInv, [NbNext]_vars
      PROVE  [\A h \in Hashes : cache[h] = None /\ cache'[h] # None =>
                 cache'[h].notes = notes[h] \/ h \in raced]_vars
  <2> SUFFICES ASSUME NEW h \in Hashes, cache[h] = None, cache'[h] # None
               PROVE  cache'[h].notes = notes[h] \/ h \in raced
    OBVIOUS
  <2>1. PrinterType /\ ListType /\ MemoryType /\ DiskType /\ WorkType
    BY <1>1, TypeParts DEF NbInv
  <2>2. CASE Persist
    <3>1. cache' = [cache EXCEPT ![work.hash] = work.nb]
      BY <2>2 DEF Persist
    <3>2. h = work.hash /\ cache'[h] = work.nb
      BY <2>1, <3>1 DEF MemoryType
    <3> QED BY <1>1, <2>2, <3>2 DEF NbInv, BuildOfItsText, Persist
  <2>3. CASE Publish \/ VerifyPublish
    <3>1. PICK verify \in BOOLEAN : Resolve(verify)
      BY <2>3 DEF Publish, VerifyPublish
    <3>2. PICK x : PersistedUsable(x) /\ cache' = [cache EXCEPT ![x] = disk[x]]
      BY <3>1 DEF Resolve
    <3>3. h = x /\ cache'[h] = disk[h]
      BY <2>1, <3>2 DEF MemoryType
    <3>4. disk[h] \in Notebooks /\ disk[h] # None /\ ~notesNewer[h]
      BY <2>1, <3>2, <3>3 DEF PersistedUsable, Loads, DiskType
    <3> QED BY <1>1, <3>3, <3>4 DEF NbInv, DiskHasNotes
  <2>4. CASE Restart
    BY <2>4 DEF Restart
  <2>5. CASE UNCHANGED cache
    BY <2>5
  <2> QED BY <1>1, <2>2, <2>3, <2>4, <2>5
       DEF NbNext, vars, packState, Upload, StartJob, EndJob, WriteNotes, ListAges, Generate, DownloadFails
<1> QED BY <1>1, NbInitially, NbStep, PTL DEF NbSpec, LoadBringsNotes

-----------------------------------------------------------------------------
(* The section map of a file                                                *)

(* Numbers have a least one.  The subsets of the numbers that are finite    *)
(* are well founded under inclusion, so the intervals that end in S have a  *)
(* smallest one; what is proved "for each n" below takes the least n that   *)
(* is an exception.                                                         *)
LEMMA LeastExists ==
    ASSUME NEW S \in SUBSET Nat, S # {}
    PROVE  \E m \in S : \A n \in S : m <= n
<1> DEFINE T == {1 .. n : n \in S}
<1>1. T # {} /\ T \subseteq FiniteSubsetsOf(Nat)
  <2> SUFFICES ASSUME NEW n \in S PROVE 1 .. n \in SUBSET Nat /\ IsFiniteSet(1 .. n)
    BY DEF FiniteSubsetsOf
  <2> QED BY FS_Interval
<1>2. PICK x \in T : \A y \in T : <<y, x>> \notin StrictSubsetOrdering(Nat)
  BY <1>1, FS_StrictSubsetOrderingWellFounded, WFMin
<1>3. PICK m \in S : x = 1 .. m
  OBVIOUS
<1>4. ASSUME NEW n \in S PROVE m <= n
  <2>1. <<1 .. n, 1 .. m>> \notin StrictSubsetOrdering(Nat)
    BY <1>2, <1>3
  <2>2. 1 .. n \in SUBSET Nat /\ 1 .. m \in SUBSET Nat
    OBVIOUS
  <2>3. ~(1 .. n \subseteq 1 .. m /\ 1 .. n # 1 .. m)
    BY <2>1, <2>2 DEF StrictSubsetOrdering
  <2>4. CASE n < m
    <3>1. 1 .. n \subseteq 1 .. m /\ m \notin 1 .. n /\ m \in 1 .. m
      BY <2>4
    <3> QED BY <2>3, <3>1
  <2> QED BY <2>4
<1> QED BY <1>4

(* Induction: a set that has 0 and, with each number, the next has them all.*)
LEMMA SetInduction ==
    ASSUME NEW S, 0 \in S, \A n \in Nat : n \in S => n + 1 \in S
    PROVE  Nat \subseteq S
<1> DEFINE T == Nat \ S
<1> SUFFICES ASSUME T # {} PROVE FALSE
  OBVIOUS
<1>1. PICK m \in T : \A n \in T : m <= n
  BY LeastExists
<1>2. m # 0 /\ m - 1 \in Nat
  OBVIOUS
<1>3. m - 1 \in S
  BY <1>1, <1>2
<1> QED BY <1>2, <1>3

(* The last of a set of line numbers.                                       *)
LEMMA LastOfSet ==
    ASSUME NEW n \in Nat, NEW S \in SUBSET (1 .. n), S # {}
    PROVE  LastOf(S) \in S /\ \A j \in S : j <= LastOf(S)
<1> DEFINE D == {m \in 0 .. n : n - m \in S}
<1>1. D \in SUBSET Nat /\ D # {}
  <2>1. PICK i \in S : TRUE
    OBVIOUS
  <2>2. n - i \in 0 .. n /\ n - (n - i) = i
    OBVIOUS
  <2>3. n - i \in D
    BY <2>2
  <2>4. ASSUME NEW m \in D PROVE m \in Nat
    OBVIOUS
  <2> HIDE DEF D
  <2> QED BY <2>3, <2>4
<1>2. PICK m \in D : \A l \in D : m <= l
  BY <1>1, LeastExists
<1>3. ASSUME NEW j \in S PROVE j <= n - m
  <2>1. n - j \in 0 .. n /\ n - (n - j) = j
    OBVIOUS
  <2>2. n - j \in D
    BY <2>1
  <2>3. m <= n - j /\ m \in Nat /\ j \in Nat
    BY <1>2, <2>2
  <2> QED BY <2>3
<1>4. n - m \in S
  OBVIOUS
<1> HIDE DEF D
<1> QED BY <1>3, <1>4 DEF LastOf

(* The value in force, line by line.                                        *)
LEMMA InForceStep ==
    ASSUME NEW file \in Seq(Kinds), NEW n \in Nat, n < Len(file)
    PROVE  /\ InForceAt(file, 0) = Unset
           /\ InForceAt(file, n + 1) = IF file[n + 1] \in {"set1", "set2"} THEN SetValue(file[n + 1])
                                       ELSE InForceAt(file, n)
<1>1. InForceAt(file, 0) = Unset
  <2>1. Settings(file, 0) = {}
    BY DEF Settings
  <2> QED BY <2>1 DEF InForceAt
<1>2. CASE file[n + 1] \in {"set1", "set2"}
  <2>1. n + 1 \in Settings(file, n + 1) /\ \A j \in Settings(file, n + 1) : j <= n + 1
    BY <1>2 DEF Settings
  <2>2. Settings(file, n + 1) \in SUBSET (1 .. n + 1) /\ n + 1 \in Nat
    BY DEF Settings
  <2>3. LastOf(Settings(file, n + 1)) = n + 1
    <3>1. LastOf(Settings(file, n + 1)) \in 1 .. n + 1 /\ n + 1 <= LastOf(Settings(file, n + 1))
      BY <2>1, <2>2, LastOfSet
    <3> QED BY <3>1
  <2> QED BY <1>1, <1>2, <2>1, <2>3 DEF InForceAt
<1>3. CASE file[n + 1] \notin {"set1", "set2"}
  <2>1. Settings(file, n + 1) = Settings(file, n)
    BY <1>3 DEF Settings
  <2> QED BY <1>1, <1>3, <2>1 DEF InForceAt
<1> QED BY <1>2, <1>3

(* A line more changes nothing before it.                                   *)
LEMMA InForceKept ==
    ASSUME NEW file \in Seq(Kinds), NEW k \in Kinds, NEW n \in 0 .. Len(file)
    PROVE  InForceAt(Append(file, k), n) = InForceAt(file, n)
<1>1. \A i \in 1 .. n : Append(file, k)[i] = file[i]
  BY AppendProperties, LenProperties
<1>2. Settings(Append(file, k), n) = Settings(file, n) /\ n \in Nat
  BY <1>1, LenProperties DEF Settings
<1>3. Settings(file, n) # {} => LastOf(Settings(file, n)) \in 1 .. n
  <2>1. Settings(file, n) \in SUBSET (1 .. n)
    BY DEF Settings
  <2> QED BY <1>2, <2>1, LastOfSet
<1> QED BY <1>1, <1>2, <1>3 DEF InForceAt

(* The first of a set of numbers.                                           *)
LEMMA FirstOfSet ==
    ASSUME NEW S \in SUBSET Nat, S # {}
    PROVE  FirstOf(S) \in S /\ \A j \in S : FirstOf(S) <= j
BY LeastExists DEF FirstOf

(* The markers of a stretch that is not the file's last line.               *)
LEMMA MarkersKept ==
    ASSUME NEW file \in Seq(Kinds), NEW k \in Kinds, NEW mark, NEW first \in Nat, NEW last \in Int, last < Len(file)
    PROVE  /\ Markers(Append(file, k), mark, first, last) = Markers(file, mark, first, last)
           /\ InForceAtMarker(Append(file, k), mark, first, last) = InForceAtMarker(file, mark, first, last)
<1>1. \A n \in first .. last : Append(file, k)[n + 1] = file[n + 1]
  BY AppendProperties, LenProperties
<1>2. Markers(Append(file, k), mark, first, last) = Markers(file, mark, first, last)
  BY <1>1 DEF Markers
<1> DEFINE M == Markers(file, mark, first, last)
<1>3. ASSUME M # {} PROVE InForceAt(Append(file, k), FirstOf(M)) = InForceAt(file, FirstOf(M))
  <2>1. M \subseteq first .. last
    BY DEF Markers
  <2> HIDE DEF M
  <2>2. FirstOf(M) \in M
    BY <1>3, <2>1, FirstOfSet
  <2>4. FirstOf(M) \in first .. last /\ Len(file) \in Nat
    BY <2>1, <2>2, LenProperties
  <2>3. FirstOf(M) \in 0 .. Len(file)
    BY <2>4
  <2> QED BY <2>3, InForceKept
<1> QED BY <1>2, <1>3 DEF InForceAtMarker

(* The next line begins a stretch, or belongs to the stretch before it.     *)
LEMMA MarkersStep ==
    ASSUME NEW file \in Seq(Kinds), NEW k \in Kinds, NEW mark, NEW first \in Nat, first <= Len(file)
    PROVE  LET n == Len(file)  more == Append(file, k) IN
           /\ k = mark => Markers(more, mark, n, n) = {n} /\ InForceAtMarker(more, mark, n, n) = InForceAt(file, n)
           /\ k # mark => Markers(more, mark, first, n) = Markers(file, mark, first, n - 1)
           /\ k # mark => InForceAtMarker(more, mark, first, n) = InForceAtMarker(file, mark, first, n - 1)
           /\ k = mark /\ Markers(file, mark, first, n - 1) = {} =>
                 Markers(more, mark, first, n) = {n} /\ InForceAtMarker(more, mark, first, n) = InForceAt(file, n)
<1> DEFINE n == Len(file)  more == Append(file, k)
<1>1. more[n + 1] = k /\ n \in Nat /\ first <= n /\ \A i \in 1 .. n : more[i] = file[i]
  BY AppendProperties, LenProperties
<1>2. InForceAt(more, n) = InForceAt(file, n)
  BY <1>1, InForceKept
<1>3. FirstOf({n}) = n
  BY <1>1 DEF FirstOf
<1>4. Markers(more, mark, first, n) = Markers(file, mark, first, n - 1) \union (IF k = mark THEN {n} ELSE {})
  <2>1. ASSUME NEW i \in first .. n - 1 PROVE more[i + 1] = file[i + 1]
    BY <1>1
  <2> HIDE DEF more, n
  <2>2. ASSUME NEW i PROVE i \in first .. n <=> i \in first .. n - 1 \/ i = n
    BY <1>1
  <2>3. n \notin first .. n - 1
    BY <1>1
  <2> QED BY <1>1, <2>1, <2>2, <2>3 DEF Markers
<1>5. k = mark => Markers(more, mark, n, n) = {n}
  <2>1. n .. n = {n}
    BY <1>1
  <2> HIDE DEF more, n
  <2> QED BY <1>1, <2>1 DEF Markers
<1>6. Markers(file, mark, first, n - 1) = Markers(more, mark, first, n - 1)
        /\ InForceAtMarker(file, mark, first, n - 1) = InForceAtMarker(more, mark, first, n - 1)
  BY <1>1, MarkersKept
<1> HIDE DEF more, n
<1> SUFFICES
      /\ k = mark => Markers(more, mark, n, n) = {n} /\ InForceAtMarker(more, mark, n, n) = InForceAt(file, n)
      /\ k # mark => Markers(more, mark, first, n) = Markers(file, mark, first, n - 1)
      /\ k # mark => InForceAtMarker(more, mark, first, n) = InForceAtMarker(file, mark, first, n - 1)
      /\ k = mark /\ Markers(file, mark, first, n - 1) = {} =>
             Markers(more, mark, first, n) = {n} /\ InForceAtMarker(more, mark, first, n) = InForceAt(file, n)
  BY DEF more, n
<1>7. ASSUME k # mark
      PROVE  /\ Markers(more, mark, first, n) = Markers(file, mark, first, n - 1)
             /\ InForceAtMarker(more, mark, first, n) = InForceAtMarker(file, mark, first, n - 1)
  BY <1>4, <1>6, <1>7 DEF InForceAtMarker
<1>8. ASSUME NEW a, Markers(more, mark, a, n) = {n} PROVE InForceAtMarker(more, mark, a, n) = InForceAt(file, n)
  BY <1>2, <1>3, <1>8 DEF InForceAtMarker
<1> QED BY <1>4, <1>5, <1>7, <1>8

(* The sums of a list of numbers are well defined.                          *)
LEMMA SumsExist ==
    ASSUME NEW c \in Seq(Nat)
    PROVE  /\ Sums(c) \in [0 .. Len(c) -> Nat] /\ Sums(c)[0] = 0
           /\ \A i \in 1 .. Len(c) : Sums(c)[i] = Sums(c)[i - 1] + c[i]
<1> DEFINE IsSum(f, n) == f \in [0 .. n -> Nat] /\ f[0] = 0 /\ \A i \in 1 .. n : f[i] = f[i - 1] + c[i]
           S == {n \in Nat : n <= Len(c) => \E f : IsSum(f, n)}
<1>0. Len(c) \in Nat /\ \A i \in 1 .. Len(c) : c[i] \in Nat
  BY LenProperties, ElementOfSeq
<1>1. 0 \in S
  <2>1. IsSum([i \in 0 .. 0 |-> 0], 0)
    OBVIOUS
  <2> HIDE DEF IsSum
  <2> QED BY <2>1
<1>2. ASSUME NEW n \in Nat, n \in S PROVE n + 1 \in S
  <2> SUFFICES ASSUME n + 1 <= Len(c) PROVE \E f : IsSum(f, n + 1)
    <3> HIDE DEF IsSum
    <3> QED OBVIOUS
  <2>0. n <= Len(c)
    BY <1>0
  <2>1. PICK f : IsSum(f, n)
    <3> HIDE DEF IsSum
    <3> QED BY <2>0, <1>2
  <2> DEFINE g == [i \in 0 .. n + 1 |-> IF i = n + 1 THEN f[n] + c[n + 1] ELSE f[i]]
  <2>2. c[n + 1] \in Nat /\ f[n] \in Nat
    BY <1>0, <2>1
  <2>3. g \in [0 .. n + 1 -> Nat] /\ g[0] = 0
    BY <2>1, <2>2
  <2>4. ASSUME NEW i \in 1 .. n + 1 PROVE g[i] = g[i - 1] + c[i]
    <3>1. i \in 0 .. n + 1 /\ i - 1 \in 0 .. n + 1 /\ i - 1 # n + 1
      OBVIOUS
    <3>2. CASE i = n + 1
      BY <3>1, <3>2
    <3>3. CASE i \in 1 .. n
      BY <3>1, <3>3, <2>1
    <3> QED BY <3>2, <3>3
  <2>5. IsSum(g, n + 1)
    BY <2>3, <2>4
  <2> QED BY <2>5
<1>3. Len(c) \in S
  <2> HIDE DEF S
  <2> QED BY <1>0, <1>1, <1>2, SetInduction
<1>4. PICK f : IsSum(f, Len(c))
  <2> HIDE DEF IsSum
  <2> QED BY <1>0, <1>3
<1>5. f = [i \in 0 .. Len(c) |-> IF i = 0 THEN 0 ELSE f[i - 1] + c[i]]
  BY <1>0, <1>4
<1>6. Sums(c) = [i \in 0 .. Len(c) |-> IF i = 0 THEN 0 ELSE Sums(c)[i - 1] + c[i]]
  BY <1>5 DEF Sums
<1>7. Sums(c) = f
  <2> DEFINE E == {n \in Nat : n <= Len(c) => Sums(c)[n] = f[n]}
  <2>1. 0 \in E
    BY <1>0, <1>4, <1>6
  <2>2. ASSUME NEW n \in Nat, n \in E PROVE n + 1 \in E
    <3>1. CASE n + 1 <= Len(c)
      <4>1. n <= Len(c) /\ n + 1 \in 0 .. Len(c) /\ n + 1 \in 1 .. Len(c)
        BY <1>0, <3>1
      <4>2. Sums(c)[n + 1] = Sums(c)[n] + c[n + 1]
        BY <1>6, <4>1
      <4>3. f[n + 1] = f[n] + c[n + 1]
        BY <1>4, <4>1
      <4> QED BY <2>2, <4>1, <4>2, <4>3
    <3> QED BY <3>1
  <2> HIDE DEF E
  <2>3. Nat \subseteq E
    BY <2>1, <2>2, SetInduction
  <2>4. \A n \in 0 .. Len(c) : Sums(c)[n] = f[n]
    BY <2>3 DEF E
  <2> QED BY <1>4, <1>6, <2>4
<1> QED BY <1>4, <1>7

-----------------------------------------------------------------------------
(* The inductive invariant of the map under construction.                   *)

(* Sections in order, one after the other, up to a line: each line before   *)
(* it is in one of them.                                                    *)
Tiles(secs, upto) ==
    /\ \A i \in 1 .. Len(secs) :
         /\ secs[i].first <= secs[i].last /\ secs[i].last < upto
         /\ secs[i].first = (IF i = 1 THEN 0 ELSE secs[i - 1].last + 1)
    /\ \A i, j \in 1 .. Len(secs) : i < j => secs[i].last < secs[j].first
    /\ upto = IF secs = <<>> THEN 0 ELSE secs[Len(secs)].last + 1
    /\ \A n \in Nat : n < upto => \E i \in 1 .. Len(secs) : n \in secs[i].first .. secs[i].last
Tiled == Tiles(sections, start)

(* Where the two passes are.                                                *)
Passes ==
    /\ phase = "read" => /\ start <= Len(lines) /\ (lines # <<>> => start < Len(lines))
                         /\ at = 0 /\ retracted = FALSE /\ active = Unset
                         /\ \A i \in Ids : sections[i].retractions = 0 /\ sections[i].restarts = 0
    /\ phase # "read" => 0 < start /\ start = Len(lines) /\ at <= Len(lines) /\ (at = Len(lines) => phase = "done")
    /\ phase = "done" => at = Len(lines)

(* The baselines found so far, and that of the open section.                *)
Baselined ==
    /\ value = InForceAt(lines, Len(lines))
    /\ \A i \in Ids : sections[i].base = InForceAtMarker(lines, Boundary, sections[i].first, sections[i].last)
    /\ phase = "read" =>
         /\ base = InForceAtMarker(lines, Boundary, start, Len(lines) - 1)
         /\ seenMarker <=> Markers(lines, Boundary, start, Len(lines) - 1) # {}
         /\ ~seenMarker => start = 0

(* The line after a section.                                                *)
End(i) == sections[i].last + 1

(* The values at the cursor, and at the end of the sections before it.      *)
Carried ==
    /\ active = InForceAt(lines, at)
    /\ \A i \in Ids : End(i) <= at => sections[i].active = InForceAt(lines, End(i))

(* A retraction that is still open is counted, but not yet answered.        *)
Open == IF retracted THEN 1 ELSE 0
Restarting(secs) == [i \in 1 .. Len(secs) |-> secs[i].restarts]
Retracting(secs) == [i \in 1 .. Len(secs) |-> secs[i].retractions]
Answers(secs, cursor, open) ==
    \A i \in 1 .. Len(secs) :
        /\ Sums(Restarting(secs))[i] <= Sums(Retracting(secs))[i]
        /\ secs[i].last + 1 > cursor => Sums(Restarting(secs))[i] + open <= Sums(Retracting(secs))[i]
Answered == Answers(sections, at, Open)

SecInv == SecTypeOK /\ Tiled /\ Passes /\ Baselined /\ Carried /\ Answered

(* Counts and positions of a section are numbers.                           *)
LEMMA SectionFields ==
    ASSUME SecTypeOK
    PROVE  /\ Len(sections) \in Nat /\ Ids = 1 .. Len(sections)
           /\ \A i \in Ids : sections[i] \in Section /\ sections[i].first \in Nat /\ sections[i].last \in Nat
<1>1. sections \in Seq(Section) /\ Len(sections) \in Nat
  BY LenProperties DEF SecTypeOK
<1>2. \A i \in Ids : sections[i] \in Section
  BY <1>1, ElementOfSeq DEF Ids
<1>3. \A i \in Ids : sections[i].first \in Nat /\ sections[i].last \in Nat
  BY <1>2 DEF Section
<1> QED BY <1>1, <1>2, <1>3 DEF Ids

(* One more in one place is one more in the sums from there on.             *)
LEMMA SumsStep ==
    ASSUME NEW c \in Seq(Nat), NEW d \in Seq(Nat), Len(d) = Len(c), NEW k \in 1 .. Len(c),
           \A i \in 1 .. Len(c) : d[i] = c[i] + (IF i = k THEN 1 ELSE 0)
    PROVE  \A i \in 0 .. Len(c) : Sums(d)[i] = Sums(c)[i] + (IF i >= k THEN 1 ELSE 0)
<1>1. Len(c) \in Nat /\ \A i \in 1 .. Len(c) : c[i] \in Nat
  BY LenProperties, ElementOfSeq
<1>3. /\ Sums(c) \in [0 .. Len(c) -> Nat] /\ Sums(c)[0] = 0
      /\ \A i \in 1 .. Len(c) : Sums(c)[i] = Sums(c)[i - 1] + c[i]
  BY SumsExist
<1>4. Sums(d)[0] = 0 /\ \A i \in 1 .. Len(c) : Sums(d)[i] = Sums(d)[i - 1] + d[i]
  BY SumsExist
<1> DEFINE S == {n \in Nat : n <= Len(c) => Sums(d)[n] = Sums(c)[n] + (IF n >= k THEN 1 ELSE 0)}
<1>5. 0 \in S
  BY <1>1, <1>3, <1>4
<1>6. ASSUME NEW n \in Nat, n \in S PROVE n + 1 \in S
  <2> SUFFICES ASSUME n + 1 <= Len(c)
               PROVE  Sums(d)[n + 1] = Sums(c)[n + 1] + (IF n + 1 >= k THEN 1 ELSE 0)
    OBVIOUS
  <2>1. n <= Len(c) /\ n + 1 \in 1 .. Len(c) /\ n \in 0 .. Len(c)
    BY <1>1
  <2>2. Sums(d)[n] = Sums(c)[n] + (IF n >= k THEN 1 ELSE 0)
    BY <1>6, <2>1
  <2>0. (n + 1) - 1 = n
    OBVIOUS
  <2>3. Sums(d)[n + 1] = Sums(d)[n] + d[n + 1]
    BY <1>4, <2>0, <2>1
  <2>4. Sums(c)[n + 1] = Sums(c)[n] + c[n + 1]
    BY <1>3, <2>0, <2>1
  <2>5. Sums(c)[n] \in Nat /\ c[n + 1] \in Nat /\ d[n + 1] = c[n + 1] + (IF n + 1 = k THEN 1 ELSE 0)
    BY <1>1, <1>3, <2>1
  <2> HIDE DEF S
  <2>6. CASE n + 1 = k
    <3>1. ~(n >= k) /\ n + 1 >= k
      BY <1>1, <2>6
    <3>2. Sums(d)[n] = Sums(c)[n] /\ d[n + 1] = c[n + 1] + 1
      BY <2>2, <2>5, <2>6, <3>1, SMTT(30)
    <3>3. Sums(d)[n + 1] = Sums(c)[n + 1] + 1
      <4>1. \A x, y \in Nat : x + (y + 1) = (x + y) + 1
        OBVIOUS
      <4>2. Sums(c)[n] + (c[n + 1] + 1) = (Sums(c)[n] + c[n + 1]) + 1
        BY <2>5, <4>1
      <4>3. Sums(d)[n + 1] = Sums(c)[n] + (c[n + 1] + 1)
        BY <2>3, <3>2, Zenon
      <4> QED BY <2>4, <4>2, <4>3, Zenon
    <3> QED BY <3>1, <3>3
  <2>7. CASE n + 1 < k
    BY <2>2, <2>3, <2>4, <2>5, <2>7
  <2>8. CASE n >= k
    BY <2>2, <2>3, <2>4, <2>5, <2>8, SMTT(30)
  <2> QED BY <1>1, <2>6, <2>7, <2>8
<1> HIDE DEF S
<1>7. Nat \subseteq S
  BY <1>5, <1>6, SetInduction
<1>8. \A n \in 0 .. Len(c) : Sums(d)[n] = Sums(c)[n] + (IF n >= k THEN 1 ELSE 0)
  BY <1>7 DEF S
<1> QED BY <1>8

(* Before the first line.                                                   *)
LEMMA SecStart == SecInit => SecInv
<1> SUFFICES ASSUME SecInit PROVE SecInv
  OBVIOUS
<1>1. lines = <<>> /\ sections = <<>> /\ Len(lines) = 0 /\ Ids = {}
  BY EmptySeq DEF SecInit, Ids
<1>2. SecTypeOK
  <2>1. MaxLines \in Nat /\ 0 \in 0 .. MaxLines /\ Len(lines) <= MaxLines
    BY <1>1, SectionsAssumption
  <2>2. lines \in Seq(Kinds) /\ sections \in Seq(Section)
    BY <1>1, EmptySeq
  <2>3. {value, base, active} \subseteq 0 .. 2 /\ start \in Nat /\ tags \subseteq {"bridge"}
    BY DEF SecInit, Unset
  <2> QED BY <2>1, <2>2, <2>3 DEF SecInit, SecTypeOK
<1>3. Tiled /\ Passes /\ Answered
  BY <1>1 DEF SecInit, Tiled, Tiles, Passes, Answered, Answers, Ids
<1>4. InForceAt(lines, 0) = Unset
  <2>1. Settings(lines, 0) = {}
    BY DEF Settings
  <2> QED BY <2>1 DEF InForceAt
<1>5. Markers(lines, Boundary, 0, 0 - 1) = {}
  BY DEF Markers
<1>6. Baselined /\ Carried
  BY <1>1, <1>4, <1>5 DEF SecInit, Baselined, Carried, InForceAtMarker
<1> QED BY <1>2, <1>3, <1>6 DEF SecInv

(* One section more, from where the ones before it end.                     *)
LEMMA TilesAppend ==
    ASSUME NEW secs \in Seq(Section), NEW upto \in Nat, Tiles(secs, upto),
           NEW s \in Section, s.first = upto, s.first <= s.last
    PROVE  Tiles(Append(secs, s), s.last + 1)
<1> DEFINE more == Append(secs, s)  m == Len(secs)
<1>1. /\ more \in Seq(Section) /\ m \in Nat /\ Len(more) = m + 1 /\ more[m + 1] = s /\ more # <<>>
      /\ \A i \in 1 .. m : more[i] = secs[i]
  BY AppendProperties, LenProperties
<1>2. /\ \A i \in 1 .. m : secs[i].first \in Nat /\ secs[i].last \in Nat
      /\ s.first \in Nat /\ s.last \in Nat
  <2>1. \A i \in 1 .. m : secs[i] \in Section
    BY ElementOfSeq
  <2> QED BY <2>1 DEF Section
<1>3. m = 0 => upto = 0
  <2>1. m = 0 => secs = <<>>
    BY EmptySeq
  <2> QED BY <2>1 DEF Tiles
<1>4. m # 0 => upto = secs[m].last + 1
  BY EmptySeq DEF Tiles
<1>5. ASSUME NEW i \in 1 .. m
      PROVE  /\ secs[i].first <= secs[i].last /\ secs[i].last < upto
             /\ secs[i].first = (IF i = 1 THEN 0 ELSE secs[i - 1].last + 1)
  BY DEF Tiles
<1> HIDE DEF more, m
<1>6. ASSUME NEW i \in 1 .. m + 1
      PROVE  /\ more[i].first <= more[i].last /\ more[i].last < s.last + 1
             /\ more[i].first = (IF i = 1 THEN 0 ELSE more[i - 1].last + 1)
  <2>1. CASE i \in 1 .. m
    <3>1. more[i] = secs[i] /\ (i # 1 => i - 1 \in 1 .. m /\ more[i - 1] = secs[i - 1])
      BY <1>1, <2>1
    <3> QED BY <1>1, <1>2, <1>5, <2>1, <3>1
  <2>2. CASE i = m + 1
    <3>1. m # 0 => i - 1 \in 1 .. m /\ more[i - 1] = secs[m]
      BY <1>1, <2>2
    <3> QED BY <1>1, <1>2, <1>3, <1>4, <2>2, <3>1
  <2> QED BY <1>1, <2>1, <2>2
<1>7. ASSUME NEW i \in 1 .. m + 1, NEW j \in 1 .. m + 1, i < j PROVE more[i].last < more[j].first
  <2>1. CASE j \in 1 .. m
    <3>1. i \in 1 .. m
      BY <1>1, <1>7, <2>1
    <3>2. secs[i].last < secs[j].first
      BY <1>7, <2>1, <3>1 DEF Tiles, m
    <3> QED BY <1>1, <2>1, <3>1, <3>2
  <2>2. CASE j = m + 1
    <3>1. i \in 1 .. m
      BY <1>1, <1>7, <2>2
    <3> QED BY <1>1, <1>5, <2>2, <3>1
  <2> QED BY <1>1, <2>1, <2>2
<1>8. ASSUME NEW n \in Nat, n < s.last + 1
      PROVE  \E i \in 1 .. m + 1 : n \in more[i].first .. more[i].last
  <2>1. CASE n < upto
    <3>1. PICK i \in 1 .. m : n \in secs[i].first .. secs[i].last
      BY <2>1 DEF Tiles, m
    <3>2. i \in 1 .. m + 1 /\ more[i] = secs[i]
      BY <1>1
    <3> QED BY <3>1, <3>2
  <2>2. CASE n >= upto
    <3>1. n \in more[m + 1].first .. more[m + 1].last /\ m + 1 \in 1 .. m + 1
      BY <1>1, <1>2, <1>8, <2>2
    <3> QED BY <3>1
  <2> QED BY <2>1, <2>2
<1> QED BY <1>1, <1>6, <1>7, <1>8 DEF Tiles, more

(* The tiling is a matter of where sections begin and end.                  *)
LEMMA TilesKept ==
    ASSUME NEW secs \in Seq(Section), NEW upto \in Nat, Tiles(secs, upto),
           NEW same \in Seq(Section), Len(same) = Len(secs),
           \A i \in 1 .. Len(secs) : same[i].first = secs[i].first /\ same[i].last = secs[i].last
    PROVE  Tiles(same, upto)
<1> DEFINE m == Len(secs)
<1>1. m \in Nat /\ (same = <<>> <=> m = 0) /\ (secs = <<>> <=> m = 0)
  BY LenProperties, EmptySeq
<1>2. ASSUME NEW i \in 1 .. m
      PROVE  /\ same[i].first <= same[i].last /\ same[i].last < upto
             /\ same[i].first = (IF i = 1 THEN 0 ELSE same[i - 1].last + 1)
  <2>1. i # 1 => i - 1 \in 1 .. m
    BY <1>1
  <2> QED BY <2>1 DEF Tiles
<1>3. m # 0 => m \in 1 .. m
  BY <1>1
<1>4. upto = IF same = <<>> THEN 0 ELSE same[Len(same)].last + 1
  BY <1>1, <1>3 DEF Tiles
<1>5. \A n \in Nat : n < upto => \E i \in 1 .. m : n \in same[i].first .. same[i].last
  BY DEF Tiles
<1>6. \A i, j \in 1 .. m : i < j => same[i].last < same[j].first
  BY DEF Tiles
<1> QED BY <1>2, <1>4, <1>5, <1>6 DEF Tiles

(* The section a line is in.                                                *)
LEMMA TileOfLine ==
    ASSUME NEW secs \in Seq(Section), NEW upto \in Nat, Tiles(secs, upto), NEW n \in Nat, n < upto
    PROVE  LET c == CHOOSE i \in 1 .. Len(secs) : n \in secs[i].first .. secs[i].last IN
           /\ c \in 1 .. Len(secs) /\ secs[c].first <= n /\ n <= secs[c].last
           /\ \A i \in 1 .. Len(secs) : i < c => secs[i].last < n
           /\ \A i \in 1 .. Len(secs) : i > c => n < secs[i].first
<1> DEFINE c == CHOOSE i \in 1 .. Len(secs) : n \in secs[i].first .. secs[i].last
<1>1. c \in 1 .. Len(secs) /\ n \in secs[c].first .. secs[c].last
  <2>1. \E i \in 1 .. Len(secs) : n \in secs[i].first .. secs[i].last
    BY DEF Tiles
  <2> QED BY <2>1
<1>2. \A i \in 1 .. Len(secs) : secs[i].first \in Nat /\ secs[i].last \in Nat
  <2>1. \A i \in 1 .. Len(secs) : secs[i] \in Section
    BY ElementOfSeq
  <2> QED BY <2>1 DEF Section
<1> HIDE DEF c
<1>3. secs[c].first <= n /\ n <= secs[c].last
  BY <1>1, <1>2
<1>4. ASSUME NEW i \in 1 .. Len(secs), i < c PROVE secs[i].last < n
  <2>1. secs[i].last < secs[c].first
    BY <1>1, <1>4 DEF Tiles
  <2> QED BY <1>1, <1>2, <1>3, <2>1
<1>5. ASSUME NEW i \in 1 .. Len(secs), i > c PROVE n < secs[i].first
  <2>0. c < i
    BY <1>5, <1>1, LenProperties
  <2>1. secs[c].last < secs[i].first
    BY <1>1, <2>0 DEF Tiles
  <2> QED BY <1>1, <1>2, <1>3, <2>1
<1> QED BY <1>1, <1>3, <1>4, <1>5 DEF c

(* The types of the map, one by one.                                        *)
LEMMA SecTypeParts ==
    SecInv => /\ lines \in Seq(Kinds) /\ Len(lines) \in Nat /\ Len(lines) <= MaxLines /\ numbered \in BOOLEAN
              /\ start \in Nat /\ tags \subseteq {"bridge"} /\ seenMarker \in BOOLEAN
              /\ value \in 0 .. 2 /\ base \in 0 .. 2 /\ active \in 0 .. 2
              /\ sections \in Seq(Section) /\ phase \in {"read", "annotate", "done"}
              /\ at \in 0 .. MaxLines /\ at \in Nat /\ MaxLines \in Nat /\ retracted \in BOOLEAN
BY SectionsAssumption, LenProperties DEF SecInv, SecTypeOK

(* A section cut from the open lines.                                       *)
LEMMA NewSectionType ==
    ASSUME SecInv, NEW e \in Nat
    PROVE  /\ NewSection(e) \in Section
           /\ NewSection(e).first = start /\ NewSection(e).last = e /\ NewSection(e).base = base
           /\ NewSection(e).retractions = 0 /\ NewSection(e).restarts = 0
<1>1. tags \in SUBSET {"bridge", "tiny"}
  BY SecTypeParts
<1> QED BY <1>1, SecTypeParts DEF NewSection, Section, Unset

(* Where nothing is counted, nothing is unanswered.                         *)
LEMMA NothingAnswers ==
    ASSUME NEW secs \in Seq(Section), NEW cursor,
           \A i \in 1 .. Len(secs) : secs[i].retractions = 0 /\ secs[i].restarts = 0
    PROVE  Answers(secs, cursor, 0)
<1> DEFINE c == Restarting(secs)
<1>1. Retracting(secs) = c
  BY DEF Restarting, Retracting
<1>2. c \in Seq(Nat) /\ Len(c) = Len(secs)
  <2>1. Len(secs) \in Nat
    BY LenProperties
  <2>2. c = [i \in 1 .. Len(secs) |-> 0]
    BY DEF Restarting
  <2> QED BY <2>1, <2>2
<1> HIDE DEF c
<1>3. \A i \in 1 .. Len(secs) : Sums(c)[i] \in Nat
  <2>1. Sums(c) \in [0 .. Len(secs) -> Nat]
    BY <1>2, SumsExist
  <2> QED BY <2>1, LenProperties
<1>4. \A i \in 1 .. Len(secs) : Sums(c)[i] <= Sums(c)[i] /\ Sums(c)[i] + 0 <= Sums(c)[i]
  BY <1>3
<1> QED BY <1>1, <1>4 DEF Answers, c

(* A line read keeps the invariant.                                         *)
LEMMA ReadLineStep == SecInv /\ ReadLine => SecInv'
<1> SUFFICES ASSUME SecInv, ReadLine PROVE SecInv'
  OBVIOUS
<1> DEFINE n == Len(lines)
<1>1. PICK k \in Kinds :
         /\ lines' = Append(lines, k)
         /\ value' = IF k \in {"set1", "set2"} THEN SetValue(k) ELSE value
         /\ IF IsBoundary(k)
            THEN /\ IF seenMarker THEN Flush(Len(lines) - 1) ELSE UNCHANGED <<sections, start, tags>>
                 /\ OpenLayer
            ELSE /\ tags' = IF k = "bridge" THEN tags \cup {k} ELSE tags
                 /\ UNCHANGED <<sections, start, base, seenMarker>>
  BY DEF ReadLine
<1>2. /\ phase = "read" /\ n < MaxLines
      /\ numbered' = numbered /\ phase' = phase /\ at' = at /\ retracted' = retracted /\ active' = active
      /\ Boundary' = Boundary
  BY DEF ReadLine, Boundary
<1>3. /\ lines' \in Seq(Kinds) /\ Len(lines') = n + 1 /\ n \in Nat /\ lines'[n + 1] = k
      /\ \A i \in 1 .. n : lines'[i] = lines[i]
  BY <1>1, AppendProperties, SecTypeParts
<1>4. /\ start <= n /\ (lines # <<>> => start < n)
      /\ at = 0 /\ retracted = FALSE /\ active = Unset
      /\ \A i \in Ids : sections[i].retractions = 0 /\ sections[i].restarts = 0
  BY <1>2 DEF SecInv, Passes
<1>5. /\ value = InForceAt(lines, n)
      /\ \A i \in Ids : sections[i].base = InForceAtMarker(lines, Boundary, sections[i].first, sections[i].last)
      /\ base = InForceAtMarker(lines, Boundary, start, n - 1)
      /\ seenMarker <=> Markers(lines, Boundary, start, n - 1) # {}
      /\ ~seenMarker => start = 0
  BY <1>2 DEF SecInv, Baselined
<1>6. value' = InForceAt(lines', n + 1) /\ value' \in 0 .. 2
  <2>1. InForceAt(lines', n) = InForceAt(lines, n)
    BY <1>1, <1>3, InForceKept, SecTypeParts
  <2>2. InForceAt(lines', n + 1) = IF k \in {"set1", "set2"} THEN SetValue(k) ELSE InForceAt(lines', n)
    BY <1>3, InForceStep
  <2> QED BY <1>1, <1>5, <2>1, <2>2, SecTypeParts DEF SetValue
<1>7. \A i \in Ids : /\ sections[i] \in Section /\ sections[i].first \in Nat
                     /\ sections[i].last \in Nat /\ sections[i].last < start
  BY SectionFields, SecTypeParts DEF SecInv, Tiled, Tiles, Ids, Section
<1>8. \A i \in Ids : sections[i].base = InForceAtMarker(lines', Boundary, sections[i].first, sections[i].last)
  <2> SUFFICES ASSUME NEW i \in Ids
               PROVE sections[i].base = InForceAtMarker(lines', Boundary, sections[i].first, sections[i].last)
    OBVIOUS
  <2>1. sections[i].last < n /\ sections[i].last \in Int /\ sections[i].first \in Nat
    BY <1>3, <1>4, <1>7, SecTypeParts
  <2>2. InForceAtMarker(lines', Boundary, sections[i].first, sections[i].last)
          = InForceAtMarker(lines, Boundary, sections[i].first, sections[i].last)
    BY <1>1, <2>1, MarkersKept, SecTypeParts
  <2> QED BY <1>5, <2>2
<1>9. /\ k = Boundary => /\ Markers(lines', Boundary, n, n) = {n}
                         /\ InForceAtMarker(lines', Boundary, n, n) = InForceAt(lines, n)
      /\ k # Boundary => Markers(lines', Boundary, start, n) = Markers(lines, Boundary, start, n - 1)
      /\ k # Boundary => InForceAtMarker(lines', Boundary, start, n) = InForceAtMarker(lines, Boundary, start, n - 1)
      /\ k = Boundary /\ Markers(lines, Boundary, start, n - 1) = {} =>
             Markers(lines', Boundary, start, n) = {n} /\ InForceAtMarker(lines', Boundary, start, n) = InForceAt(lines, n)
  BY <1>1, <1>4, MarkersStep, SecTypeParts
<1>10. n + 1 - 1 = n
  BY <1>3
<1> HIDE DEF n
<1>11. ASSUME /\ sections' \in Seq(Section) /\ Tiles(sections', start') /\ start' \in Nat
              /\ tags' \subseteq {"bridge"} /\ base' \in 0 .. 2 /\ seenMarker' \in BOOLEAN
              /\ start' <= n
              /\ \A i \in 1 .. Len(sections') :
                    /\ sections'[i].retractions = 0 /\ sections'[i].restarts = 0
                    /\ sections'[i].base = InForceAtMarker(lines', Boundary, sections'[i].first, sections'[i].last)
              /\ base' = InForceAtMarker(lines', Boundary, start', n)
              /\ seenMarker' <=> Markers(lines', Boundary, start', n) # {}
              /\ ~seenMarker' => start' = 0
       PROVE  SecInv'
  <2>0. n + 1 <= MaxLines /\ Ids' = 1 .. Len(sections')
    BY <1>2, <1>3, SecTypeParts DEF Ids
  <2>1. SecTypeOK'
    <3>1. {value, base, active}' \subseteq 0 .. 2
      BY <1>2, <1>6, <1>11, SecTypeParts
    <3>2. (numbered \in BOOLEAN /\ phase \in {"read", "annotate", "done"} /\ at \in 0 .. MaxLines /\ retracted \in BOOLEAN)'
      BY <1>2, SecTypeParts
    <3> QED BY <1>3, <1>11, <2>0, <3>1, <3>2 DEF SecTypeOK
  <2>2. Tiled'
    BY <1>11 DEF Tiled
  <2>3. Passes'
    BY <1>2, <1>3, <1>4, <1>11, <2>0 DEF Passes
  <2>4. Baselined'
    BY <1>2, <1>3, <1>6, <1>10, <1>11, <2>0 DEF Baselined
  <2>5. Carried'
    <3>1. InForceAt(lines', 0) = Unset
      BY <1>3, InForceStep
    <3>2. \A i \in 1 .. Len(sections') : sections'[i].last \in Nat
      <4>1. \A i \in 1 .. Len(sections') : sections'[i] \in Section
        BY <1>11, ElementOfSeq
      <4> QED BY <4>1 DEF Section
    <3> QED BY <1>2, <1>4, <2>0, <3>1, <3>2 DEF Carried, End
  <2>6. Answered'
    <3>1. Answers(sections', at', 0)
      BY <1>11, NothingAnswers
    <3> QED BY <1>2, <1>4, <3>1 DEF Answered, Open
  <2> QED BY <2>1, <2>2, <2>3, <2>4, <2>5, <2>6 DEF SecInv
<1>12. Tiles(sections, start) /\ Ids = 1 .. Len(sections)
  BY DEF SecInv, Tiled, Ids
<1>13. k = Boundary /\ seenMarker => start <= n - 1
  <2>1. \A i \in Markers(lines, Boundary, start, n - 1) : start <= n - 1
    BY <1>3, SecTypeParts DEF Markers
  <2> QED BY <1>5, <2>1
<1>14. CASE k = Boundary /\ seenMarker
  <2> DEFINE s == NewSection(n - 1)
  <2>0. n - 1 \in Nat /\ ~(n - 1 < start) /\ (n - 1) + 1 = n
    BY <1>3, <1>13, <1>14, SecTypeParts
  <2>1. sections' = Append(sections, s) /\ start' = n /\ tags' = {} /\ seenMarker' = TRUE /\ base' = value
    BY <1>1, <1>14, <2>0 DEF IsBoundary, Flush, OpenLayer, n
  <2>2. /\ s \in Section /\ s.first = start /\ s.last = n - 1 /\ s.base = base
        /\ s.retractions = 0 /\ s.restarts = 0
    BY <2>0, NewSectionType
  <2> HIDE DEF s
  <2>3. sections' \in Seq(Section) /\ Tiles(sections', start')
    <3>1. s.first <= s.last /\ s.last + 1 = n
      BY <1>13, <1>14, <2>0, <2>2
    <3> QED BY <1>12, <2>1, <2>2, <3>1, TilesAppend, AppendProperties, SecTypeParts
  <2>4. /\ Len(sections) \in Nat /\ Len(sections') = Len(sections) + 1 /\ sections'[Len(sections) + 1] = s
        /\ \A i \in 1 .. Len(sections) : sections'[i] = sections[i]
    BY <2>1, AppendProperties, LenProperties, SecTypeParts
  <2>5. InForceAtMarker(lines', Boundary, start, n - 1) = InForceAtMarker(lines, Boundary, start, n - 1)
    BY <1>1, <1>3, <2>0, MarkersKept, SecTypeParts DEF n
  <2>6. ASSUME NEW i \in 1 .. Len(sections')
        PROVE  /\ sections'[i].retractions = 0 /\ sections'[i].restarts = 0
               /\ sections'[i].base = InForceAtMarker(lines', Boundary, sections'[i].first, sections'[i].last)
    <3>1. CASE i \in 1 .. Len(sections)
      BY <1>4, <1>8, <1>12, <2>4, <3>1
    <3>2. CASE i = Len(sections) + 1
      BY <1>5, <2>2, <2>4, <2>5, <3>2
    <3> QED BY <2>4, <3>1, <3>2
  <2>7. base' = InForceAtMarker(lines', Boundary, start', n) /\ Markers(lines', Boundary, start', n) # {}
    BY <1>5, <1>9, <1>14, <2>1
  <2>8. start' \in Nat /\ start' <= n /\ base' \in 0 .. 2 /\ seenMarker' \in BOOLEAN /\ tags' \subseteq {"bridge"}
    BY <1>3, <2>1, SecTypeParts
  <2> QED BY <1>11, <2>1, <2>3, <2>6, <2>7, <2>8
<1>15. CASE ~(k = Boundary /\ seenMarker)
  <2>1. sections' = sections /\ start' = start
    BY <1>1, <1>15 DEF IsBoundary
  <2>2. tags' \subseteq {"bridge"}
    BY <1>1, <1>15, SecTypeParts DEF IsBoundary
  <2>3. base' \in 0 .. 2 /\ seenMarker' \in BOOLEAN
    BY <1>1, <1>15, SecTypeParts DEF IsBoundary, OpenLayer
  <2>4. /\ base' = InForceAtMarker(lines', Boundary, start, n)
        /\ seenMarker' <=> Markers(lines', Boundary, start, n) # {}
        /\ ~seenMarker' => start = 0
    <3>1. CASE k = Boundary
      BY <1>1, <1>5, <1>9, <1>15, <3>1 DEF IsBoundary, OpenLayer
    <3>2. CASE k # Boundary
      BY <1>1, <1>5, <1>9, <3>2 DEF IsBoundary
    <3> QED BY <3>1, <3>2
  <2> QED BY <1>4, <1>8, <1>11, <1>12, <2>1, <2>2, <2>3, <2>4, SecTypeParts
<1> QED BY <1>14, <1>15

(* The last flush keeps the invariant.                                      *)
LEMMA EndOfFileStep == SecInv /\ EndOfFile => SecInv'
<1> SUFFICES ASSUME SecInv, EndOfFile PROVE SecInv'
  OBVIOUS
<1> DEFINE n == Len(lines)
           s == NewSection(n - 1)
           all == Append(sections, s)
<1>1. /\ phase = "read" /\ lines # <<>> /\ phase' = "annotate" /\ start' = n /\ tags' = {}
      /\ lines' = lines /\ numbered' = numbered /\ value' = value /\ base' = base /\ seenMarker' = seenMarker
      /\ at' = at /\ retracted' = retracted /\ active' = active /\ Boundary' = Boundary
      /\ sections' = [i \in 1 .. Len(all) |-> Tiny(all[i])]
  BY DEF EndOfFile, Boundary
<1>2. /\ start < n /\ at = 0 /\ retracted = FALSE /\ active = Unset /\ n \in Nat
      /\ \A i \in Ids : sections[i].retractions = 0 /\ sections[i].restarts = 0
  BY <1>1, SecTypeParts DEF SecInv, Passes
<1>3. /\ value = InForceAt(lines, n)
      /\ \A i \in Ids : sections[i].base = InForceAtMarker(lines, Boundary, sections[i].first, sections[i].last)
      /\ base = InForceAtMarker(lines, Boundary, start, n - 1)
  BY <1>1 DEF SecInv, Baselined
<1>4. n - 1 \in Nat /\ (n - 1) + 1 = n /\ start <= n - 1
  BY <1>2, SecTypeParts
<1>5. /\ s \in Section /\ s.first = start /\ s.last = n - 1 /\ s.base = base
      /\ s.retractions = 0 /\ s.restarts = 0
  BY <1>4, NewSectionType
<1> HIDE DEF n, s
<1>6. /\ all \in Seq(Section) /\ Len(sections) \in Nat /\ Len(all) = Len(sections) + 1 /\ all[Len(sections) + 1] = s
      /\ \A i \in 1 .. Len(sections) : all[i] = sections[i]
  BY <1>5, AppendProperties, LenProperties, SecTypeParts
<1>7. Tiles(all, n) /\ Ids = 1 .. Len(sections)
  <2>1. Tiles(sections, start)
    BY DEF SecInv, Tiled
  <2>2. s.first <= s.last /\ s.last + 1 = n
    BY <1>4, <1>5
  <2>3. Tiles(all, s.last + 1)
    BY <1>5, <2>1, <2>2, TilesAppend, SecTypeParts
  <2> QED BY <2>2, <2>3 DEF Ids
<1>8. ASSUME NEW i \in 1 .. Len(all)
      PROVE  /\ all[i].retractions = 0 /\ all[i].restarts = 0
             /\ all[i].base = InForceAtMarker(lines, Boundary, all[i].first, all[i].last)
  <2>1. CASE i \in 1 .. Len(sections)
    BY <1>2, <1>3, <1>6, <1>7, <2>1
  <2>2. CASE i = Len(sections) + 1
    BY <1>3, <1>5, <1>6, <2>2
  <2> QED BY <1>6, <2>1, <2>2
<1> HIDE DEF all
<1>9. ASSUME NEW i \in 1 .. Len(all)
      PROVE  /\ sections'[i] \in Section
             /\ sections'[i].first = all[i].first /\ sections'[i].last = all[i].last /\ sections'[i].base = all[i].base
             /\ sections'[i].retractions = all[i].retractions /\ sections'[i].restarts = all[i].restarts
  <2>1. all[i] \in Section
    BY <1>6, ElementOfSeq
  <2>2. sections'[i] = Tiny(all[i])
    BY <1>1
  <2> QED BY <2>1, <2>2 DEF Tiny, Section
<1>10. sections' \in Seq(Section) /\ Len(sections') = Len(all) /\ Len(all) \in Nat
  <2>1. Len(all) \in Nat
    BY <1>6
  <2>2. sections' = [i \in 1 .. Len(all) |-> sections'[i]]
    BY <1>1
  <2> QED BY <1>9, <2>1, <2>2
<1>11. Ids' = 1 .. Len(all)
  BY <1>10 DEF Ids
<1>12. SecTypeOK'
  <2>1. {value, base, active}' \subseteq 0 .. 2
    BY <1>1, SecTypeParts
  <2> QED BY <1>1, <1>2, <1>10, <2>1, SecTypeParts DEF SecTypeOK
<1>13. Tiled'
  BY <1>1, <1>2, <1>6, <1>7, <1>9, <1>10, TilesKept DEF Tiled
<1>14. Passes'
  <2>1. Len(lines') = n
    BY <1>1 DEF n
  <2> QED BY <1>1, <1>2, <1>4, <2>1, SecTypeParts DEF Passes
<1>15. Baselined'
  BY <1>1, <1>3, <1>8, <1>9, <1>11 DEF Baselined, n
<1>16. Carried'
  <2>1. active = InForceAt(lines, at)
    BY DEF SecInv, Carried
  <2>2. \A i \in 1 .. Len(all) : sections'[i].last \in Nat
    BY <1>9 DEF Section
  <2> QED BY <1>1, <1>2, <1>11, <2>1, <2>2 DEF Carried, End
<1>17. Answered'
  <2>1. Answers(sections', at', 0)
    BY <1>8, <1>9, <1>10, NothingAnswers
  <2> QED BY <1>1, <1>2, <2>1 DEF Answered, Open
<1> QED BY <1>12, <1>13, <1>14, <1>15, <1>16, <1>17 DEF SecInv

(* What the facts of one line do to the section it is in.                   *)
LEMMA ObserveSection ==
    ASSUME SecInv, Observe
    PROVE  LET c == Current  k == lines[at + 1]  n == Len(sections) IN
           /\ c \in 1 .. n /\ sections[c].first <= at /\ at <= sections[c].last
           /\ \A i \in 1 .. n : i < c => sections[i].last < at
           /\ \A i \in 1 .. n : i > c => at < sections[i].first
           /\ sections' \in Seq(Section) /\ Len(sections') = n /\ n \in Nat /\ k \in Kinds
           /\ \A i \in 1 .. n :
                /\ sections[i] \in Section
                /\ sections'[i].first = sections[i].first /\ sections'[i].last = sections[i].last
                /\ sections'[i].base = sections[i].base
                /\ sections'[i].retractions = sections[i].retractions + (IF i = c /\ k = "retract" THEN 1 ELSE 0)
                /\ sections'[i].restarts = sections[i].restarts + (IF i = c /\ k = "extrude" /\ retracted THEN 1 ELSE 0)
                /\ sections'[i].active = IF i = c THEN active' ELSE sections[i].active
<1> DEFINE c == Current  k == lines[at + 1]  n == Len(sections)
           s == sections[c]
           v == IF k \in {"set1", "set2"} THEN SetValue(k) ELSE active
           f == CASE k = "retract" -> [s EXCEPT !.retractions = @ + 1]
                  [] k = "extrude" -> [s EXCEPT !.restarts = IF retracted THEN @ + 1 ELSE @]
                  [] k = "travel"  -> [s EXCEPT !.travels = @ + 1]
                  [] OTHER -> s
<1>1. /\ phase = "annotate" /\ at < Len(lines)
      /\ sections' = [sections EXCEPT ![c] = [f EXCEPT !.active = v]] /\ active' = v
  BY DEF Observe
<1>2. Tiles(sections, start) /\ start = Len(lines)
  BY <1>1 DEF SecInv, Tiled, Passes
<1>3. /\ c \in 1 .. n /\ sections[c].first <= at /\ at <= sections[c].last
      /\ \A i \in 1 .. n : i < c => sections[i].last < at
      /\ \A i \in 1 .. n : i > c => at < sections[i].first
  BY <1>1, <1>2, TileOfLine, SecTypeParts DEF Current
<1> HIDE DEF c
<1>4. k \in Kinds /\ n \in Nat /\ at + 1 \in 1 .. Len(lines)
  <2>1. at + 1 \in 1 .. Len(lines)
    BY <1>1, SecTypeParts
  <2> QED BY <2>1, SecTypeParts, ElementOfSeq, LenProperties
<1>5. \A i \in 1 .. n : sections[i] \in Section
  BY SecTypeParts, ElementOfSeq
<1> HIDE DEF k
<1>6. s \in Section /\ v \in 0 .. 2
  BY <1>3, <1>5, SecTypeParts DEF SetValue
<1> HIDE DEF s, v
<1>7. /\ f \in Section /\ f.first = s.first /\ f.last = s.last /\ f.base = s.base
      /\ f.retractions = s.retractions + (IF k = "retract" THEN 1 ELSE 0)
      /\ f.restarts = s.restarts + (IF k = "extrude" /\ retracted THEN 1 ELSE 0)
  <2>0. s.retractions \in Nat /\ s.restarts \in Nat /\ s.travels \in Nat
    BY <1>6 DEF Section
  <2>1. CASE k = "retract"
    <3>1. f = [s EXCEPT !.retractions = s.retractions + 1]
      BY <2>1
    <3> QED BY <1>6, <2>0, <2>1, <3>1 DEF Section
  <2>2. CASE k = "extrude"
    <3>1. f = [s EXCEPT !.restarts = IF retracted THEN s.restarts + 1 ELSE s.restarts]
      BY <2>2
    <3> QED BY <1>6, <2>0, <2>2, <3>1 DEF Section
  <2>3. CASE k = "travel"
    <3>1. f = [s EXCEPT !.travels = s.travels + 1]
      BY <2>3
    <3> QED BY <1>6, <2>0, <2>3, <3>1 DEF Section
  <2>4. CASE k \notin {"retract", "extrude", "travel"}
    <3>1. f = s
      BY <2>4
    <3> QED BY <1>6, <2>0, <2>4, <3>1 DEF Section
  <2> QED BY <2>1, <2>2, <2>3, <2>4
<1> HIDE DEF f
<1> DEFINE g == [f EXCEPT !.active = v]
<1>8. /\ g \in Section /\ g.first = f.first /\ g.last = f.last /\ g.base = f.base
      /\ g.retractions = f.retractions /\ g.restarts = f.restarts /\ g.active = v
  BY <1>6, <1>7 DEF Section
<1> HIDE DEF g
<1>9. /\ sections' \in Seq(Section) /\ Len(sections') = n
      /\ sections'[c] = g /\ \A i \in 1 .. n : i # c => sections'[i] = sections[i]
  <2>1. sections' = [sections EXCEPT ![c] = g] /\ sections \in Seq(Section)
    BY <1>1, SecTypeParts DEF g
  <2>2. sections' \in Seq(Section) /\ Len(sections') = n
    BY <1>3, <1>8, <2>1, ExceptSeq
  <2>3. sections'[c] = g /\ \A i \in 1 .. n : i # c => sections'[i] = sections[i]
    BY <1>3, <2>1, LenProperties
  <2> QED BY <2>2, <2>3
<1>10. ASSUME NEW i \in 1 .. n
       PROVE /\ sections'[i].first = sections[i].first /\ sections'[i].last = sections[i].last
             /\ sections'[i].base = sections[i].base
             /\ sections'[i].retractions = sections[i].retractions + (IF i = c /\ k = "retract" THEN 1 ELSE 0)
             /\ sections'[i].restarts = sections[i].restarts + (IF i = c /\ k = "extrude" /\ retracted THEN 1 ELSE 0)
             /\ sections'[i].active = IF i = c THEN active' ELSE sections[i].active
  <2>1. CASE i = c
    BY <1>1, <1>7, <1>8, <1>9, <2>1 DEF s
  <2>2. CASE i # c
    <3>1. sections[i].retractions \in Nat /\ sections[i].restarts \in Nat
      BY <1>5 DEF Section
    <3> QED BY <1>9, <2>2, <3>1
  <2> QED BY <2>1, <2>2
<1> QED BY <1>3, <1>4, <1>5, <1>9, <1>10 DEF c, k

(* The facts of a line keep the count of the answered retractions.          *)
LEMMA ObserveCounts ==
    ASSUME SecInv, Observe
    PROVE  Answered'
<1> DEFINE c == Current  k == lines[at + 1]  n == Len(sections)
           old == Restarting(sections)   new == Restarting(sections')
           was == Retracting(sections)   is == Retracting(sections')
<1>1. /\ c \in 1 .. n /\ sections[c].first <= at /\ at <= sections[c].last
      /\ \A i \in 1 .. n : i < c => sections[i].last < at
      /\ sections' \in Seq(Section) /\ Len(sections') = n /\ n \in Nat
      /\ \A i \in 1 .. n :
           /\ sections[i] \in Section /\ sections'[i].last = sections[i].last
           /\ sections'[i].retractions = sections[i].retractions + (IF i = c /\ k = "retract" THEN 1 ELSE 0)
           /\ sections'[i].restarts = sections[i].restarts + (IF i = c /\ k = "extrude" /\ retracted THEN 1 ELSE 0)
  BY ObserveSection
<1>2. at' = at + 1 /\ retracted' = RetractedAfter(k) /\ at \in Nat /\ retracted \in BOOLEAN
  BY SecTypeParts DEF Observe
<1>3. Answers(sections, at, Open)
  BY DEF SecInv, Answered
<1> HIDE DEF c, k
<1>4. \A i \in 1 .. n : /\ sections[i].retractions \in Nat /\ sections[i].restarts \in Nat
                        /\ sections[i].last \in Nat /\ sections[i].first \in Nat
  BY <1>1 DEF Section
<1>5. /\ old \in Seq(Nat) /\ Len(old) = n /\ was \in Seq(Nat) /\ Len(was) = n
      /\ \A i \in 1 .. n : old[i] = sections[i].restarts /\ was[i] = sections[i].retractions
  <2>1. old = [i \in 1 .. n |-> sections[i].restarts] /\ was = [i \in 1 .. n |-> sections[i].retractions]
    BY DEF Restarting, Retracting
  <2> HIDE DEF n, old, was
  <2> QED BY <1>1, <1>4, <2>1 DEF n
<1>6. /\ new \in Seq(Nat) /\ Len(new) = n /\ is \in Seq(Nat) /\ Len(is) = n
      /\ \A i \in 1 .. n : /\ new[i] = old[i] + (IF i = c /\ k = "extrude" /\ retracted THEN 1 ELSE 0)
                            /\ is[i] = was[i] + (IF i = c /\ k = "retract" THEN 1 ELSE 0)
  <2>1. new = [i \in 1 .. n |-> sections'[i].restarts] /\ is = [i \in 1 .. n |-> sections'[i].retractions]
    BY <1>1 DEF Restarting, Retracting
  <2>2. \A i \in 1 .. n : sections'[i].restarts \in Nat /\ sections'[i].retractions \in Nat
    BY <1>1, <1>4
  <2> HIDE DEF n, old, new, was, is
  <2> QED BY <1>1, <1>4, <1>5, <2>1, <2>2, SMTT(30) DEF n
<1> HIDE DEF n, old, new, was, is
<1>7. \A i \in 0 .. n : Sums(old)[i] \in Nat /\ Sums(was)[i] \in Nat
  BY <1>5, SumsExist
<1>8. ASSUME NEW i \in 0 .. n
      PROVE  /\ Sums(new)[i] = Sums(old)[i] + (IF k = "extrude" /\ retracted /\ i >= c THEN 1 ELSE 0)
             /\ Sums(is)[i] = Sums(was)[i] + (IF k = "retract" /\ i >= c THEN 1 ELSE 0)
  <2>0. c \in 1 .. Len(old) /\ c \in 1 .. Len(was) /\ i \in 0 .. Len(old) /\ i \in 0 .. Len(was)
    BY <1>1, <1>5 DEF n
  <2>1. Sums(new)[i] = Sums(old)[i] + (IF k = "extrude" /\ retracted /\ i >= c THEN 1 ELSE 0)
    <3>1. CASE k = "extrude" /\ retracted
      <4>1. \A l \in 1 .. Len(old) : new[l] = old[l] + (IF l = c THEN 1 ELSE 0)
        BY <1>5, <1>6, <3>1
      <4>2. old \in Seq(Nat) /\ new \in Seq(Nat) /\ Len(new) = Len(old)
        BY <1>5, <1>6
      <4>3. \A l \in 0 .. Len(old) : Sums(new)[l] = Sums(old)[l] + (IF l >= c THEN 1 ELSE 0)
        BY <2>0, <4>1, <4>2, SumsStep
      <4> QED BY <2>0, <3>1, <4>3
    <3>2. CASE ~(k = "extrude" /\ retracted)
      <4>1. \A l \in 1 .. n : old[l] \in Nat
        BY <1>5, ElementOfSeq
      <4>2. \A l \in 1 .. n : new[l] = old[l]
        BY <1>6, <3>2, <4>1
      <4>3. new = old
        BY <1>5, <1>6, <4>2, SeqEqual
      <4> QED BY <1>7, <3>2, <4>3
    <3> QED BY <3>1, <3>2
  <2>2. Sums(is)[i] = Sums(was)[i] + (IF k = "retract" /\ i >= c THEN 1 ELSE 0)
    <3>1. CASE k = "retract"
      <4>1. \A l \in 1 .. Len(was) : is[l] = was[l] + (IF l = c THEN 1 ELSE 0)
        BY <1>5, <1>6, <3>1
      <4>2. was \in Seq(Nat) /\ is \in Seq(Nat) /\ Len(is) = Len(was)
        BY <1>5, <1>6
      <4>3. \A l \in 0 .. Len(was) : Sums(is)[l] = Sums(was)[l] + (IF l >= c THEN 1 ELSE 0)
        BY <2>0, <4>1, <4>2, SumsStep
      <4> QED BY <2>0, <3>1, <4>3
    <3>2. CASE k # "retract"
      <4>1. \A l \in 1 .. n : was[l] \in Nat
        BY <1>5, ElementOfSeq
      <4>2. \A l \in 1 .. n : is[l] = was[l]
        BY <1>6, <3>2, <4>1
      <4>3. is = was
        BY <1>5, <1>6, <4>2, SeqEqual
      <4> QED BY <1>7, <3>2, <4>3
    <3> QED BY <3>1, <3>2
  <2> QED BY <2>1, <2>2
<1>9. ASSUME NEW i \in 1 .. n
      PROVE  /\ Sums(new)[i] <= Sums(is)[i]
             /\ sections[i].last + 1 > at + 1 => Sums(new)[i] + Open' <= Sums(is)[i]
  <2>1. /\ Sums(old)[i] <= Sums(was)[i] /\ Sums(old)[i] \in Nat /\ Sums(was)[i] \in Nat
        /\ sections[i].last + 1 > at => Sums(old)[i] + Open <= Sums(was)[i]
    BY <1>3, <1>7 DEF Answers, n, old, was
  <2>2. /\ Sums(new)[i] = Sums(old)[i] + (IF k = "extrude" /\ retracted /\ i >= c THEN 1 ELSE 0)
        /\ Sums(is)[i] = Sums(was)[i] + (IF k = "retract" /\ i >= c THEN 1 ELSE 0)
    BY <1>8
  <2>3. i < c => sections[i].last < at
    BY <1>1
  <2>4. i >= c => sections[i].last + 1 > at
    <3>1. CASE i = c
      BY <1>1, <1>2, <1>4, <3>1
    <3>2. CASE i > c
      <4>1. at < sections[i].first /\ sections[i].first <= sections[i].last
        BY <3>2, <1>1, ObserveSection DEF SecInv, Tiled, Tiles, c, n
      <4> QED BY <1>2, <1>4, <4>1
    <3> QED BY <1>1, <3>1, <3>2 DEF n
  <2>5. Open = IF retracted THEN 1 ELSE 0
    BY DEF Open
  <2>6. Open' = IF k = "retract" THEN 1 ELSE IF k = "extrude" THEN 0 ELSE Open
    BY <1>2 DEF Open, RetractedAfter
  <2>7. i \in Nat /\ c \in Nat /\ sections[i].last \in Nat
    BY <1>1, <1>4 DEF n
  <2>8. CASE i < c
    BY <1>2, <2>1, <2>2, <2>3, <2>7, <2>8
  <2>9. CASE i >= c
    <3>1. CASE k = "retract"
      BY <2>1, <2>2, <2>4, <2>5, <2>6, <2>9, <3>1
    <3>2. CASE k = "extrude"
      BY <1>2, <2>1, <2>2, <2>4, <2>5, <2>6, <2>9, <3>2
    <3>3. CASE k \notin {"retract", "extrude"}
      BY <2>1, <2>2, <2>4, <2>5, <2>6, <2>9, <3>3
    <3> QED BY <3>1, <3>2, <3>3
  <2> QED BY <2>7, <2>8, <2>9
<1>10. \A i \in 1 .. n : sections'[i].last = sections[i].last
  BY <1>1
<1> QED BY <1>1, <1>2, <1>9, <1>10 DEF Answered, Answers, new, is, n

(* The facts of a line keep the invariant.                                  *)
LEMMA ObserveStep == SecInv /\ Observe => SecInv'
<1> SUFFICES ASSUME SecInv, Observe PROVE SecInv'
  OBVIOUS
<1> DEFINE c == Current  k == lines[at + 1]  n == Len(sections)
<1>1. /\ c \in 1 .. n /\ sections[c].first <= at /\ at <= sections[c].last
      /\ \A i \in 1 .. n : i < c => sections[i].last < at
      /\ \A i \in 1 .. n : i > c => at < sections[i].first
      /\ sections' \in Seq(Section) /\ Len(sections') = n /\ n \in Nat /\ k \in Kinds
      /\ \A i \in 1 .. n :
           /\ sections[i] \in Section
           /\ sections'[i].first = sections[i].first /\ sections'[i].last = sections[i].last
           /\ sections'[i].base = sections[i].base
           /\ sections'[i].active = IF i = c THEN active' ELSE sections[i].active
  BY ObserveSection
<1>2. /\ phase = "annotate" /\ at < Len(lines) /\ at' = at + 1 /\ retracted' = RetractedAfter(k)
      /\ active' = (IF k \in {"set1", "set2"} THEN SetValue(k) ELSE active)
      /\ phase' = IF at' = Len(lines) THEN "done" ELSE phase
      /\ lines' = lines /\ numbered' = numbered /\ start' = start /\ tags' = tags /\ value' = value
      /\ base' = base /\ seenMarker' = seenMarker /\ Boundary' = Boundary
  BY DEF Observe, Boundary
<1>3. start = Len(lines) /\ Tiles(sections, start) /\ Ids = 1 .. n /\ Ids' = 1 .. n
  BY <1>1, <1>2 DEF SecInv, Passes, Tiled, Ids
<1>4. \A i \in 1 .. n : sections[i].first \in Nat /\ sections[i].last \in Nat /\ sections[i].first <= sections[i].last
  <2>1. \A i \in 1 .. n : sections[i].first \in Nat /\ sections[i].last \in Nat
    BY <1>1 DEF Section
  <2> QED BY <1>3, <2>1 DEF Tiles
<1> HIDE DEF c, k
<1>5. SecTypeOK'
  <2>1. active' \in 0 .. 2 /\ retracted' \in BOOLEAN
    <3>1. active' \in 0 .. 2
      BY <1>2, SecTypeParts DEF SetValue
    <3>2. retracted' \in BOOLEAN
      BY <1>2, SecTypeParts DEF RetractedAfter
    <3> QED BY <3>1, <3>2
  <2>2. at' \in 0 .. MaxLines /\ phase' \in {"read", "annotate", "done"}
    BY <1>2, SecTypeParts
  <2>3. {value, base, active}' \subseteq 0 .. 2
    BY <1>2, <2>1, SecTypeParts
  <2> QED BY <1>1, <1>2, <2>1, <2>2, <2>3, SecTypeParts DEF SecTypeOK
<1>6. Tiled'
  BY <1>1, <1>2, <1>3, TilesKept, SecTypeParts DEF Tiled
<1>7. Passes'
  BY <1>2, <1>3, SecTypeParts DEF Passes
<1>8. Baselined'
  <2>1. /\ value = InForceAt(lines, Len(lines))
        /\ \A i \in 1 .. n : sections[i].base = InForceAtMarker(lines, Boundary, sections[i].first, sections[i].last)
    BY <1>3 DEF SecInv, Baselined
  <2>2. phase' # "read"
    BY <1>2
  <2> QED BY <1>1, <1>2, <1>3, <2>1, <2>2 DEF Baselined
<1>9. Carried'
  <2>1. active' = InForceAt(lines, at + 1)
    <3>1. active = InForceAt(lines, at)
      BY DEF SecInv, Carried
    <3>2. InForceAt(lines, at + 1) = IF k \in {"set1", "set2"} THEN SetValue(k) ELSE InForceAt(lines, at)
      BY <1>2, InForceStep, SecTypeParts DEF k
    <3> QED BY <1>2, <3>1, <3>2
  <2>2. ASSUME NEW i \in 1 .. n, sections[i].last + 1 <= at + 1
        PROVE  sections'[i].active = InForceAt(lines, sections[i].last + 1)
    <3>1. CASE i < c
      <4>1. sections[i].last + 1 <= at /\ i # c
        BY <1>1, <1>4, <3>1, SecTypeParts
      <4>2. sections[i].active = InForceAt(lines, sections[i].last + 1)
        BY <1>3, <4>1 DEF SecInv, Carried, End
      <4> QED BY <1>1, <4>1, <4>2
    <3>2. CASE i = c
      <4>1. sections[i].last + 1 = at + 1
        BY <1>1, <1>4, <2>2, <3>2, SecTypeParts
      <4> QED BY <1>1, <2>1, <3>2, <4>1
    <3>3. CASE i > c
      <4>1. at < sections[i].first
        BY <1>1, <3>3
      <4>2. sections[i].first <= sections[i].last /\ sections[i].first \in Nat /\ sections[i].last \in Nat
        BY <1>4
      <4>3. at \in Nat
        BY SecTypeParts
      <4> QED BY <2>2, <4>1, <4>2, <4>3
    <3> QED BY <1>1, <3>1, <3>2, <3>3
  <2> QED BY <1>1, <1>2, <1>3, <2>1, <2>2 DEF Carried, End
<1>10. Answered'
  BY ObserveCounts
<1> QED BY <1>5, <1>6, <1>7, <1>8, <1>9, <1>10 DEF SecInv

(* The map under construction, and finished, keeps its invariant.           *)
LEMMA SecStep == SecInv /\ [SecNext]_secVars => SecInv'
<1> SUFFICES ASSUME SecInv, [SecNext]_secVars PROVE SecInv'
  OBVIOUS
<1>1. CASE UNCHANGED secVars
  <2>1. SecTypeOK' /\ Tiled' /\ Passes'
    BY <1>1 DEF SecInv, secVars, SecTypeOK, Tiled, Passes, Ids
  <2>2. Baselined'
    <3>1. Boundary' = Boundary
      BY <1>1 DEF secVars, Boundary
    <3> QED BY <1>1, <3>1 DEF SecInv, secVars, Baselined, Ids
  <2>3. Carried' /\ Answered'
    BY <1>1 DEF SecInv, secVars, Carried, Answered, Open, Ids, End
  <2> QED BY <2>1, <2>2, <2>3 DEF SecInv
<1> QED BY <1>1, ReadLineStep, EndOfFileStep, ObserveStep DEF SecNext

(* The first ones of a finite set that an order ranks: each is before those *)
(* that rank higher, and there are as many as asked for.                    *)
LEMMA FirstOnes ==
    ASSUME NEW C, IsFiniteSet(C), NEW B \in [C -> SUBSET C], NEW L \in Nat,
           \A i \in C : i \notin B[i],
           \A i, j \in C : j \in B[i] => B[j] \subseteq B[i],
           \A i, j \in C : i # j => i \in B[j] \/ j \in B[i]
    PROVE  LET S == {i \in C : Cardinality(B[i]) < L} IN
           /\ \A i \in C \ S, j \in S : j \in B[i]
           /\ Cardinality(S) = IF Cardinality(C) < L THEN Cardinality(C) ELSE L
<1> DEFINE S == {i \in C : Cardinality(B[i]) < L}
           m == Cardinality(C)
           q == IF m < L THEN m ELSE L
           f == [i \in C |-> Cardinality(B[i])]
           g == [i \in S |-> Cardinality(B[i])]
<1>1. m \in Nat /\ q \in Nat /\ q <= m
  BY FS_CardinalityType
<1>2. ASSUME NEW i \in C
      PROVE  IsFiniteSet(B[i]) /\ Cardinality(B[i]) \in 0 .. m - 1
  <2>1. B[i] \in SUBSET (C \ {i}) /\ IsFiniteSet(C \ {i}) /\ Cardinality(C \ {i}) = m - 1
    BY FS_RemoveElement
  <2>2. IsFiniteSet(B[i]) /\ Cardinality(B[i]) <= m - 1
    BY <2>1, FS_Subset
  <2>3. Cardinality(B[i]) \in Nat
    BY <2>2, FS_CardinalityType
  <2> QED BY <1>1, <2>2, <2>3
<1>3. ASSUME NEW i \in C, NEW j \in C, j \in B[i]
      PROVE  Cardinality(B[j]) < Cardinality(B[i])
  <2>1. B[j] \in SUBSET B[i] /\ B[j] # B[i]
    BY <1>3
  <2>2. Cardinality(B[j]) <= Cardinality(B[i]) /\ Cardinality(B[j]) # Cardinality(B[i])
    BY <1>2, <2>1, FS_Subset
  <2> QED BY <1>1, <1>2, <2>2
<1> HIDE DEF m, q
<1>4. \A i, j \in C : Cardinality(B[i]) = Cardinality(B[j]) => i = j
  BY <1>2, <1>3
<1>5. f \in Surjection(C, 0 .. m - 1)
  <2>1. f \in Injection(C, 0 .. m - 1)
    BY <1>2, <1>4 DEF Injection, IsInjective
  <2>2. IsFiniteSet(0 .. m - 1) /\ Cardinality(0 .. m - 1) = m
    BY <1>1, FS_Interval
  <2> HIDE DEF f
  <2> QED BY <2>1, <2>2, FS_Injection DEF m
<1>6. S \subseteq C
  OBVIOUS
<1>7. g \in Bijection(S, 0 .. q - 1)
  <2>1. ASSUME NEW i \in S PROVE Cardinality(B[i]) \in 0 .. q - 1
    BY <1>1, <1>2 DEF q
  <2>2. g \in Injection(S, 0 .. q - 1)
    BY <1>4, <2>1 DEF Injection, IsInjective
  <2>3. ASSUME NEW r \in 0 .. q - 1 PROVE \E i \in S : g[i] = r
    <3>1. r \in 0 .. m - 1 /\ r < L
      BY <1>1 DEF q
    <3>2. PICK i \in C : f[i] = r
      BY <1>5, <3>1 DEF Surjection
    <3> QED BY <3>1, <3>2
  <2>4. g \in Surjection(S, 0 .. q - 1)
    BY <2>2, <2>3 DEF Injection, Surjection
  <2> QED BY <2>2, <2>4 DEF Bijection
<1>8. Cardinality(S) = q
  <2>1. IsFiniteSet(S) /\ ExistsBijection(S, 0 .. q - 1)
    BY <1>6, <1>7, FS_Subset DEF ExistsBijection
  <2> HIDE DEF S
  <2>2. Cardinality(0 .. q - 1) = Cardinality(S)
    BY <2>1, FS_Bijection
  <2> QED BY <1>1, <2>2, FS_Interval
<1>9. ASSUME NEW i \in C \ S, NEW j \in S PROVE j \in B[i]
  <2>1. j \in C /\ i \in C /\ i # j /\ i \notin B[j]
    BY <1>1, <1>2, <1>3
  <2> QED BY <2>1
<1> QED BY <1>8, <1>9 DEF q, m

(* The order of the notes is strict and total.                              *)
LEMMA NotesOrdered ==
    SecInv => /\ \A i \in Ids : Priority(i) \in Nat /\ i \in Nat
              /\ \A i \in Ids : ~NoteBefore(i, i)
              /\ \A i, j, l \in Ids : NoteBefore(i, j) /\ NoteBefore(j, l) => NoteBefore(i, l)
              /\ \A i, j \in Ids : i # j => NoteBefore(i, j) \/ NoteBefore(j, i)
<1> SUFFICES ASSUME SecInv
             PROVE  /\ \A i \in Ids : Priority(i) \in Nat /\ i \in Nat
                    /\ \A i \in Ids : ~NoteBefore(i, i)
                    /\ \A i, j, l \in Ids : NoteBefore(i, j) /\ NoteBefore(j, l) => NoteBefore(i, l)
                    /\ \A i, j \in Ids : i # j => NoteBefore(i, j) \/ NoteBefore(j, i)
  OBVIOUS
<1>1. \A i \in Ids : Priority(i) \in Nat /\ i \in Nat
  BY SecTypeParts, LenProperties DEF Priority, Ids
<1> QED BY <1>1 DEF NoteBefore

(* The notes shown are the first ones of the candidates.                    *)
LEMMA NotesShown == SecInv => UrgentNotesShown
<1> SUFFICES ASSUME SecInv, NEW p \in Progress
             PROVE  /\ \A i \in Candidates(p) \ Selected(p), j \in Selected(p) : Priority(j) <= Priority(i)
                    /\ Cardinality(Selected(p)) =
                           IF Cardinality(Candidates(p)) < LocalLimit THEN Cardinality(Candidates(p)) ELSE LocalLimit
  BY DEF UrgentNotesShown
<1> DEFINE C == Candidates(p)
           B == [i \in C |-> {j \in C : NoteBefore(j, i)}]
<1>1. C \subseteq Ids
  BY DEF Candidates, LocalNotes
<1>2. IsFiniteSet(C)
  <2>1. IsFiniteSet(Ids)
    BY SecTypeParts, LenProperties, FS_Interval DEF Ids
  <2> QED BY <1>1, <2>1, FS_Subset
<1> HIDE DEF C
<1>3. B \in [C -> SUBSET C] /\ LocalLimit \in Nat
  BY SectionsAssumption
<1>4. \A i \in C : i \notin B[i]
  BY <1>1, NotesOrdered
<1>5. \A i, j \in C : j \in B[i] => B[j] \subseteq B[i]
  BY <1>1, NotesOrdered
<1>6. \A i, j \in C : i # j => i \in B[j] \/ j \in B[i]
  BY <1>1, NotesOrdered
<1>7. Selected(p) = {i \in C : Cardinality(B[i]) < LocalLimit}
  BY DEF Selected, C
<1>8. \A i \in C \ Selected(p), j \in Selected(p) : j \in B[i]
  <2> HIDE DEF B
  <2> QED BY <1>2, <1>3, <1>4, <1>5, <1>6, <1>7, FirstOnes
<1>9. Cardinality(Selected(p)) = IF Cardinality(C) < LocalLimit THEN Cardinality(C) ELSE LocalLimit
  <2> HIDE DEF B
  <2> QED BY <1>2, <1>3, <1>4, <1>5, <1>6, <1>7, FirstOnes
<1>10. ASSUME NEW i \in C \ Selected(p), NEW j \in Selected(p) PROVE Priority(j) <= Priority(i)
  <2>1. i \in Ids /\ j \in Ids /\ NoteBefore(j, i)
    BY <1>1, <1>7, <1>8
  <2>2. Priority(i) \in Nat /\ Priority(j) \in Nat
    BY <2>1, NotesOrdered
  <2> QED BY <2>1, <2>2 DEF NoteBefore
<1> QED BY <1>9, <1>10 DEF C

(* Division with a remainder.                                               *)
LEMMA DivBounds ==
    ASSUME NEW a \in Nat, NEW b \in Nat \ {0}
    PROVE  a \div b \in Nat /\ b * (a \div b) <= a /\ a < b * (a \div b) + b
OBVIOUS

(* A limit is the nearest step: off by at most half of one.                 *)
LEMMA RoundedIsNearest ==
    ASSUME NEW n \in Nat, Total \in Nat \ {0}
    PROVE  /\ Rounded(n) \in Nat
           /\ 2 * (Rounded(n) * Total) <= 2 * n * Unit + Total
           /\ 2 * n * Unit <= 2 * (Rounded(n) * Total) + Total
<1> DEFINE a == 2 * n * Unit + Total
           b == 2 * Total
           q == Rounded(n)
<1>1. a \in Nat /\ b \in Nat \ {0} /\ Unit \in Nat /\ 2 * n * Unit \in Nat
  BY SectionsAssumption
<1>2. q = a \div b
  BY DEF Rounded
<1>3. q \in Nat /\ b * q <= a /\ a < b * q + b
  <2> HIDE DEF a, b, q
  <2> QED BY <1>1, <1>2, DivBounds
<1>4. b * q = 2 * (q * Total)
  <2> HIDE DEF a, q
  <2> QED BY <1>3
<1>5. q * Total \in Nat
  <2> HIDE DEF a, b, q
  <2> QED BY <1>3
<1> QED BY <1>1, <1>3, <1>4, <1>5

(* The first limit is the start of the file, the last one its end.          *)
LEMMA RoundedEnds ==
    ASSUME Total \in Nat \ {0}
    PROVE  Rounded(0) * Total = 0 /\ Rounded(Total) * Total = Unit * Total
<1>1. Unit \in Nat
  BY SectionsAssumption
<1>2. Rounded(0) = 0
  <2> DEFINE q == Rounded(0)
  <2>1. q \in Nat /\ 2 * (q * Total) <= Total
    BY <1>1, RoundedIsNearest
  <2> HIDE DEF q
  <2>2. ~(q >= 1)
    <3>1. ASSUME q >= 1 PROVE q * Total >= Total
      BY <2>1, <3>1
    <3> QED BY <2>1, <3>1
  <2> QED BY <2>1, <2>2 DEF q
<1>3. Rounded(Total) = Unit
  <2> DEFINE q == Rounded(Total)
  <2>1. /\ q \in Nat /\ 2 * (q * Total) <= 2 * (Unit * Total) + Total
        /\ 2 * (Unit * Total) <= 2 * (q * Total) + Total
    <3>1. 2 * Total * Unit = 2 * (Unit * Total)
      BY <1>1
    <3> QED BY <3>1, RoundedIsNearest
  <2> HIDE DEF q
  <2>2. Unit * Total \in Nat /\ q * Total \in Nat
    BY <1>1, <2>1
  <2>3. ASSUME q >= Unit + 1 PROVE q * Total >= Unit * Total + Total
    BY <1>1, <2>1, <2>3
  <2>4. ASSUME Unit >= q + 1 PROVE Unit * Total >= q * Total + Total
    BY <1>1, <2>1, <2>4
  <2> QED BY <1>1, <2>1, <2>2, <2>3, <2>4 DEF q
<1> QED BY <1>2, <1>3

(* A progress is between the limits of a section, and these are nearest to  *)
(* where the section is.                                                    *)
LEMMA ActiveFits == SecInv => ActiveSectionFits
<1> SUFFICES ASSUME SecInv, phase = "done", NEW p \in Progress
             PROVE  /\ 2 * sections[ActiveSection(p)].first * Unit <= 2 * p + Total
                    /\ 2 * p <= 2 * (sections[ActiveSection(p)].last + 1) * Unit + Total
  BY DEF ActiveSectionFits
<1> DEFINE in == {i \in Ids : From(i) <= p /\ p <= To(i)}
           notAfter == {i \in Ids : p <= To(i)}
           last == Len(sections)
<1>1. /\ Total \in Nat \ {0} /\ start = Total /\ Tiles(sections, start) /\ Unit \in Nat
      /\ p \in Nat /\ p <= Unit * Total
  <2>1. Total \in Nat \ {0} /\ start = Total /\ Tiles(sections, start) /\ Unit \in Nat
    BY SecTypeParts, SectionsAssumption DEF SecInv, Passes, Tiled, Total
  <2>2. Unit * Total \in Nat
    BY <2>1
  <2> QED BY <2>1, <2>2 DEF Progress
<1>2. \A i \in Ids : sections[i].first \in Nat /\ sections[i].last \in Nat
  BY SectionFields DEF SecInv
<1>3. \A i \in Ids : From(i) \in Nat /\ To(i) \in Nat
  <2>1. \A n \in Nat : Rounded(n) \in Nat
    BY <1>1, RoundedIsNearest
  <2> QED BY <1>1, <1>2, <2>1 DEF From, To
<1>4. Ids = 1 .. last /\ last \in Nat \ {0} /\ To(last) = Unit * Total /\ From(1) = 0
  <2>1. Ids = 1 .. last /\ last \in Nat /\ sections # <<>>
    BY <1>1, SectionFields DEF SecInv, Tiles
  <2>2. last # 0
    BY <2>1, SecTypeParts, EmptySeq
  <2>3. sections[last].last + 1 = Total /\ sections[1].first = 0
    BY <1>1, <2>1, <2>2 DEF Tiles
  <2> QED BY <1>1, <2>1, <2>2, <2>3, RoundedEnds DEF From, To
<1>5. \A i \in Ids : i # 1 => i - 1 \in Ids /\ From(i) = To(i - 1)
  <2>1. \A i \in Ids : i # 1 => i - 1 \in Ids /\ sections[i].first = sections[i - 1].last + 1
    BY <1>1, <1>4 DEF Tiles
  <2> QED BY <2>1 DEF From, To
<1>6. notAfter \in SUBSET Nat /\ notAfter # {}
  <2>1. last \in notAfter /\ Ids \subseteq Nat
    BY <1>1, <1>4
  <2> QED BY <2>1
<1>7. FirstOf(notAfter) \in in
  <2> DEFINE i == FirstOf(notAfter)
  <2>1. i \in notAfter /\ \A j \in notAfter : i <= j
    <3> HIDE DEF notAfter
    <3> QED BY <1>6, FirstOfSet
  <2> HIDE DEF i
  <2>2. From(i) <= p
    <3>1. CASE i = 1
      BY <1>1, <1>4, <3>1
    <3>2. CASE i # 1
      <4>1. i - 1 \in Ids /\ From(i) = To(i - 1) /\ i \in Nat
        BY <1>4, <1>5, <2>1, <3>2
      <4>2. ~(i <= i - 1)
        BY <4>1
      <4>3. ~(p <= To(i - 1))
        BY <2>1, <4>1, <4>2
      <4> QED BY <1>1, <1>3, <4>1, <4>3
    <3> QED BY <3>1, <3>2
  <2> QED BY <2>1, <2>2 DEF i
<1>8. in \in SUBSET Nat /\ in # {}
  <2>1. Ids \subseteq Nat
    BY <1>4
  <2> QED BY <1>7, <2>1
<1> HIDE DEF in
<1>9. FirstOf(in) \in in
  BY <1>8, FirstOfSet
<1>10. ActiveSection(p) = FirstOf(in)
  BY <1>8 DEF ActiveSection, in
<1>11. PICK a \in Ids : a = ActiveSection(p) /\ From(a) <= p /\ p <= To(a)
  BY <1>9, <1>10 DEF in
<1>12. 2 * sections[a].first * Unit <= 2 * p + Total
  <2> DEFINE f == sections[a].first
             q == Rounded(f) * Total
  <2>1. f \in Nat /\ q \in Nat /\ q <= p
    BY <1>2, <1>3, <1>11 DEF From
  <2>2. 2 * f * Unit <= 2 * q + Total
    <3> HIDE DEF f
    <3> QED BY <1>1, <2>1, RoundedIsNearest
  <2> HIDE DEF q
  <2>3. 2 * f * Unit \in Nat
    <3> HIDE DEF f
    <3> QED BY <1>1, <2>1
  <2> QED BY <1>1, <2>1, <2>2, <2>3
<1>13. 2 * p <= 2 * (sections[a].last + 1) * Unit + Total
  <2> DEFINE e == sections[a].last + 1
             q == Rounded(e) * Total
  <2>1. e \in Nat /\ q \in Nat /\ p <= q
    BY <1>2, <1>3, <1>11 DEF To
  <2>2. 2 * q <= 2 * e * Unit + Total
    <3> HIDE DEF e
    <3> QED BY <1>1, <2>1, RoundedIsNearest
  <2> HIDE DEF q
  <2>3. 2 * e * Unit \in Nat
    <3> HIDE DEF e
    <3> QED BY <1>1, <2>1
  <2> QED BY <1>1, <2>1, <2>2, <2>3
<1> QED BY <1>11, <1>12, <1>13

(* What the invariant says of a map is what is promised of it.              *)
LEMMA MapInvImplies == SecInv => SectionsRight
<1> SUFFICES ASSUME SecInv PROVE SectionsRight
  OBVIOUS
<1>1. /\ Tiles(sections, start) /\ Ids = 1 .. Len(sections) /\ Len(sections) \in Nat
      /\ \A i \in Ids : sections[i].first \in Nat /\ sections[i].last \in Nat
  BY SectionFields, SecTypeParts DEF SecInv, Tiled, Ids
<1>2. SectionsTile
  <2>1. ASSUME phase # "read" PROVE sections[Len(sections)].last = Total - 1
    BY <1>1, <2>1, SecTypeParts DEF Tiles, SecInv, Passes, Total
  <2> QED BY <1>1, <2>1 DEF SectionsTile, Tiles
<1>3. BaselineInForce
  <2> SUFFICES ASSUME phase = "done", NEW i \in Ids
               PROVE  /\ sections[i].active = InForceAt(lines, sections[i].last + 1)
                      /\ sections[i].base = InForceAtMarker(lines, Boundary, sections[i].first, sections[i].last)
    BY DEF BaselineInForce
  <2>1. End(i) <= at
    <3>1. sections[i].last < start /\ start = at
      BY <1>1 DEF Tiles, SecInv, Passes
    <3> QED BY <1>1, <3>1, SecTypeParts DEF End
  <2> QED BY <2>1 DEF SecInv, Carried, Baselined, End
<1>4. RestartsAnswerRetractions
  <2>1. Restarts = Sums(Restarting(sections)) /\ Retractions = Sums(Retracting(sections))
    BY <1>1 DEF Restarts, Retractions, Restarting, Retracting
  <2> QED BY <1>1, <2>1 DEF RestartsAnswerRetractions, SecInv, Answered, Answers
<1> QED BY <1>2, <1>3, <1>4, NotesShown, ActiveFits DEF SectionsRight, SecInv

(* job_notebook.py:537-772, types.py:388, 455: for every file of any        *)
(* length, any limit of the notes, any lookahead and any number of steps    *)
(* the limits are rounded to, the sections cover the file without gap or    *)
(* overlap; a finished map has for each section the value in force where    *)
(* its layer begins and where it ends; no restart is counted that answers   *)
(* no retraction; the active section holds the progress but for half a step *)
(* of the rounding; the notes shown are the most urgent ones, as many as    *)
(* fit.                                                                     *)
THEOREM MapIsRight == SecSpec => []SectionsRight
<1>1. SecInit => SecInv
  BY SecStart
<1>2. SecInv /\ [SecNext]_secVars => SecInv'
  BY SecStep
<1>3. SecInv => SectionsRight
  BY MapInvImplies
<1> QED BY <1>1, <1>2, <1>3, PTL DEF SecSpec

=============================================================================
