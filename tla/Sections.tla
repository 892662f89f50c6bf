---- MODULE Sections ----
(***************************************************************************)
(* The section map of a job (job_notebook.py): _build_sections reads the   *)
(* G-code once, line by line, and cuts it at the layer markers;            *)
(* _annotate_sections_with_gcode_facts reads it again, section by section, *)
(* with a state that is carried over; JobNotebook (types.py) then answers  *)
(* which section and which notes belong to a progress.                     *)
(*                                                                         *)
(* A line is its kind.  A progress is a share of the file.  To stay with   *)
(* integers it is counted in parts, of which one line has Unit and one     *)
(* step of two decimals of a percent (there are Unit of them, 10000 in the *)
(* code) has as many as the file has lines.                                *)
(***************************************************************************)
EXTENDS Integers, Sequences, FiniteSets

CONSTANTS
    MaxLines,           \* bound: lines of a file
    TinyLines,          \* a section below this many lines is tiny_layer (40 in the code)
    Unit,               \* round(percent, 2): steps of the whole (10000 in the code)
    Lookahead,          \* lookahead_pct, in those steps (500 in the code)
    LocalLimit          \* local_limit of select_active_notes (6 in the code)

ASSUME SectionsAssumption ==
    {MaxLines, TinyLines, Lookahead, LocalLimit} \subseteq Nat /\ Unit \in Nat \ {0}

(* Layer markers; M572/M204 with one of two values; ;TYPE: of a bridge; a   *)
(* retraction, an extrusion, a long travel.                                 *)
Kinds == {"layer", "num", "set1", "set2", "bridge", "retract", "extrude", "travel"}
Unset == 0
SetValue(k) == IF k = "set1" THEN 1 ELSE 2

VARIABLES
    lines, numbered,                                 \* the file; use_number_markers
    start, tags, value, base, seenMarker,     \* locals of _build_sections
    sections, phase,
    at, retracted, active                            \* the second pass: line, in_retraction, m204
secVars == <<lines, numbered, start, tags, value, base, seenMarker, sections, phase,
             at, retracted, active>>

Section == [first : Nat, last : Nat, tags : SUBSET {"bridge", "tiny"}, base : 0 .. 2,
            retractions : Nat, restarts : Nat, travels : Nat, active : 0 .. 2]

(* The map under construction is well typed. *)
SecTypeOK ==
    /\ lines \in Seq(Kinds) /\ Len(lines) <= MaxLines /\ numbered \in BOOLEAN
    /\ start \in Nat /\ tags \subseteq {"bridge"}
    /\ {value, base, active} \subseteq 0 .. 2 /\ seenMarker \in BOOLEAN
    /\ sections \in Seq(Section) /\ phase \in {"read", "annotate", "done"}
    /\ at \in 0 .. MaxLines /\ retracted \in BOOLEAN

SecInit ==
    /\ lines = <<>> /\ numbered \in BOOLEAN
    /\ start = 0 /\ tags = {} /\ value = Unset /\ base = Unset /\ seenMarker = FALSE
    /\ sections = <<>> /\ phase = "read"
    /\ at = 0 /\ retracted = FALSE /\ active = Unset

-----------------------------------------------------------------------------
(* _build_sections *)

NewSection(last) ==
    [first |-> start, last |-> last, tags |-> tags, base |-> base,
     retractions |-> 0, restarts |-> 0, travels |-> 0, active |-> Unset]

(* Mutant of Flush: the marker's own line still counts to the old section.  *)
FlushWithMarker(end) ==
    /\ sections' = Append(sections, NewSection(end + 1)) /\ start' = end + 1 /\ tags' = {}
(* flush: nothing when no line is left for the section.                     *)
Flush(end) ==
    IF end < start THEN UNCHANGED <<sections, start, tags>>
    ELSE sections' = Append(sections, NewSection(end)) /\ start' = end + 1 /\ tags' = {}

Boundary == IF numbered THEN "num" ELSE "layer"
IsBoundary(k) == k = Boundary

(* Mutant of OpenLayer: a baseline, once found, is kept for all sections.   *)
OpenLayerLate == seenMarker' = TRUE /\ base' = IF base = Unset THEN value ELSE base
(* The values in force at the marker become the section's.                  *)
OpenLayer == seenMarker' = TRUE /\ base' = value

(* One line of the loop.  A file is numbered when some line has a number:   *)
(* without one it has no such line.                                         *)
ReadLine ==
    /\ phase = "read" /\ Len(lines) < MaxLines
    /\ \E k \in Kinds :
         /\ k = "num" => numbered
         /\ lines' = Append(lines, k)
         /\ value' = IF k \in {"set1", "set2"} THEN SetValue(k) ELSE value
         /\ IF IsBoundary(k)
            THEN /\ IF seenMarker THEN Flush(Len(lines) - 1) ELSE UNCHANGED <<sections, start, tags>>
                 /\ OpenLayer
            ELSE /\ tags' = IF k = "bridge" THEN tags \cup {k} ELSE tags
                 /\ UNCHANGED <<sections, start, base, seenMarker>>
    /\ UNCHANGED <<numbered, phase, at, retracted, active>>

(* The last flush, and the mark of the short sections.                      *)
Tiny(s) == IF s.last - s.first + 1 < TinyLines THEN [s EXCEPT !.tags = @ \cup {"tiny"}] ELSE s
EndOfFile ==
    /\ phase = "read" /\ lines # <<>>
    /\ numbered => \E i \in 1 .. Len(lines) : lines[i] = "num"
    /\ phase' = "annotate"
    /\ LET all == Append(sections, NewSection(Len(lines) - 1))
       IN sections' = [i \in 1 .. Len(all) |-> Tiny(all[i])]
    /\ start' = Len(lines) /\ tags' = {}
    /\ UNCHANGED <<lines, numbered, value, base, seenMarker, at, retracted, active>>

-----------------------------------------------------------------------------
(* _annotate_sections_with_gcode_facts *)

(* Sections are read in order: the line belongs to the one that holds it.   *)
Current == CHOOSE i \in 1 .. Len(sections) : at \in sections[i].first .. sections[i].last

(* Mutant of RetractedAfter: extruding does not end a retraction.           *)
RetractedForever(k) == retracted \/ k = "retract"
RetractedAfter(k) ==
    IF k = "retract" THEN TRUE ELSE IF k = "extrude" THEN FALSE ELSE retracted

(* _observe_gcode_line_for_facts for the line at the cursor; the values of  *)
(* M204 at the end of a section are the section's.                          *)
Observe ==
    /\ phase = "annotate" /\ at < Len(lines)
    /\ LET k == lines[at + 1]
           s == sections[Current]
           v == IF k \in {"set1", "set2"} THEN SetValue(k) ELSE active
           f == CASE k = "retract" -> [s EXCEPT !.retractions = @ + 1]
                  [] k = "extrude" -> [s EXCEPT !.restarts = IF retracted THEN @ + 1 ELSE @]
                  [] k = "travel"  -> [s EXCEPT !.travels = @ + 1]
                  [] OTHER -> s
       IN /\ sections' = [sections EXCEPT ![Current] = [f EXCEPT !.active = v]]
          /\ active' = v /\ retracted' = RetractedAfter(k)
    /\ at' = at + 1
    /\ phase' = IF at' = Len(lines) THEN "done" ELSE phase
    /\ UNCHANGED <<lines, numbered, start, tags, value, base, seenMarker>>

SecNext == ReadLine \/ EndOfFile \/ Observe

SecSpec == SecInit /\ [][SecNext]_secVars

-----------------------------------------------------------------------------
(* JobNotebook: sections and notes for a progress p                         *)

Ids == 1 .. Len(sections)
Total == Len(lines)
(* Mutant of Rounded: the limits are cut off, not rounded.                  *)
Truncated(n) == (n * Unit) \div Total
(* round(n / total * 100, 2), in steps: the nearest one.  (Halfway between  *)
(* two the code's floating product decides; nothing below depends on it.)   *)
Rounded(n) == (2 * n * Unit + Total) \div (2 * Total)
From(i) == Rounded(sections[i].first) * Total       \* progress_start_pct
To(i)   == Rounded(sections[i].last + 1) * Total    \* progress_end_pct
Progress == 0 .. Unit * Total
FirstOf(S) == CHOOSE i \in S : \A j \in S : i <= j

(* Mutant of ActiveSection: the end does not count, the fallback is last.   *)
ActiveSectionLast(p) ==
    LET in == {i \in Ids : From(i) < p /\ p < To(i)}
    IN IF in # {} THEN FirstOf(in) ELSE Len(sections)
ActiveSection(p) ==
    LET in    == {i \in Ids : From(i) <= p /\ p <= To(i)}
        later == {i \in Ids : p < From(i)}
    IN IF in # {} THEN FirstOf(in) ELSE IF later # {} THEN FirstOf(later) ELSE Len(sections)

SectionsForWindow(a, b) == {i \in Ids : From(i) <= b /\ To(i) >= a}

(* _build_local_notes: the priority of a section's note, smaller first; 80  *)
(* when there is nothing to say.                                            *)
Priority(i) ==
    LET s == sections[i]
    IN IF "bridge" \in s.tags THEN 40 ELSE IF s.travels > 0 THEN 42
       ELSE IF s.retractions > 0 THEN 43 ELSE IF "tiny" \in s.tags THEN 50 ELSE 80
LocalNotes == {i \in Ids : Priority(i) < 80}

(* Mutant of NoteBefore: the sort key starts with the note's name.          *)
NoteBeforeByName(i, j) == i < j
(* _note_sort_key: priority, then the confidence it implies, then the name. *)
NoteBefore(i, j) == Priority(i) < Priority(j) \/ (Priority(i) = Priority(j) /\ i < j)

Candidates(p) ==
    LET sum == p + Lookahead * Total
        end == IF sum < Unit * Total THEN sum ELSE Unit * Total
    IN LocalNotes \cap (SectionsForWindow(p, p) \cup {ActiveSection(p)} \cup SectionsForWindow(p, end))
(* select_active_notes: the local notes in order, cut at the limit.         *)
Selected(p) ==
    {i \in Candidates(p) : Cardinality({j \in Candidates(p) : NoteBefore(j, i)}) < LocalLimit}

-----------------------------------------------------------------------------
(* job_notebook.py:537: the sections cover the file without gap or overlap, *)
(* whatever the markers are; a prefix of it while it is still being read.   *)
SectionsTile ==
    /\ \A i \in Ids : /\ sections[i].first <= sections[i].last
                      /\ sections[i].first = (IF i = 1 THEN 0 ELSE sections[i - 1].last + 1)
    /\ phase # "read" => sections[Len(sections)].last = Total - 1

(* The value in force after the first n lines of a file, by definition.     *)
Settings(file, n) == {i \in 1 .. n : file[i] \in {"set1", "set2"}}
LastOf(S) == CHOOSE i \in S : \A j \in S : j <= i
InForceAt(file, n) ==
    LET sets == Settings(file, n) IN IF sets = {} THEN Unset ELSE SetValue(file[LastOf(sets)])

(* The value in force where a stretch of a file has its first marker.       *)
Markers(file, mark, first, last) == {n \in first .. last : file[n + 1] = mark}
InForceAtMarker(file, mark, first, last) ==
    LET found == Markers(file, mark, first, last)
    IN IF found = {} THEN Unset ELSE InForceAt(file, FirstOf(found))

(* job_notebook.py:609: the baseline of a section, around which the pack    *)
(* steps, is the value in force where its layer begins, and the M204 fact   *)
(* the one where it ends.  (A file without markers has no baseline.)        *)
BaselineInForce ==
    phase = "done" =>
        \A i \in Ids : LET s == sections[i] IN
            /\ s.active = InForceAt(lines, s.last + 1)
            /\ s.base = InForceAtMarker(lines, Boundary, s.first, s.last)

(* Counts added up: the sum of the first i *)
Sums(counts) ==
    LET sum[i \in 0 .. Len(counts)] == IF i = 0 THEN 0 ELSE sum[i - 1] + counts[i] IN sum
Retractions == Sums([i \in Ids |-> sections[i].retractions])
Restarts == Sums([i \in Ids |-> sections[i].restarts])

(* job_notebook.py:772: each restart answers a retraction of its own, of    *)
(* this section or an earlier one.                                          *)
RestartsAnswerRetractions ==
    LET done == Restarts  open == Retractions IN \A i \in Ids : done[i] <= open[i]

(* types.py:388, job_notebook.py:556: whatever progress the printer says,   *)
(* the active section holds that place of the file, or ends or begins no    *)
(* further from it than the rounding of the limits to two decimals reaches, *)
(* half a step to either side: 0.005 % of the file, more than a line only   *)
(* in files of more than 20000 lines.                                       *)
ActiveSectionFits ==
    phase = "done" =>
        \A p \in Progress :
            LET s == sections[ActiveSection(p)]
            IN /\ 2 * s.first * Unit <= 2 * p + Total
               /\ 2 * p <= 2 * (s.last + 1) * Unit + Total

(* types.py:455: the limit never hides a note that is more urgent than one  *)
(* it shows, and hides none while there is room.                            *)
UrgentNotesShown ==
    phase = "done" =>
        \A p \in Progress :
            /\ \A i \in Candidates(p) \ Selected(p), j \in Selected(p) : Priority(j) <= Priority(i)
            /\ Cardinality(Selected(p)) =
                   IF Cardinality(Candidates(p)) < LocalLimit THEN Cardinality(Candidates(p)) ELSE LocalLimit

(* The section map, its facts and its notes equal their definitions on      *)
(* every file (job_notebook.py:537-772, types.py:388, 455).                 *)
SectionsRight ==
    /\ SecTypeOK
    /\ SectionsTile
    /\ BaselineInForce
    /\ RestartsAnswerRetractions
    /\ ActiveSectionFits
    /\ UrgentNotesShown

=============================================================================
