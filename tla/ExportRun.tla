----------------------------- MODULE ExportRun ------------------------------
(***************************************************************************)
(* Runs of the exporter over one output folder: main() of                  *)
(* ida_mcp_export.py, from choosing the functions (Discovery, the list of  *)
(* the database, or the failures of an earlier manifest) through the       *)
(* export, the repair of MERR_BADCALL failures and the re-export, to the   *)
(* files and the manifest.  What lasts from run to run is on disk; edits   *)
(* made by the repair last as long as the session.                         *)
(*                                                                         *)
(* The layout is --files-separate with both kinds of output wanted; runs   *)
(* of another root, or with and without --all-fns, have other folders.     *)
(* The order of rows and files, decided by Discovery, is not modelled      *)
(* again.                                                                  *)
(***************************************************************************)
EXTENDS Discovery

CONSTANTS
  Databases,\* databases to choose from: a call graph and a nature for each function
  MaxRuns   \* runs of the exporter (bounds the model)

ASSUME ExportRunAssumption ==
  /\ Databases \subseteq [callees : Graphs, nature : [Funcs -> {"good", "long", "badcall", "hopeless"}]]
  /\ MaxRuns \in Nat

VARIABLES
  nature,   \* "good", "long" (its disassembly is truncated in a batch answer),
            \* "badcall" or "hopeless" (Hex-Rays refuses it each time it is asked)
  batches,  \* does the server offer analyze_batch?
  folder,   \* whose folder it is: "graph" (a function's) or "all" (--all-fns)
  runs,     \* runs started
  phase,    \* how far main() is
  mode,     \* "graph", "all" (--all-fns) or "retry" (--retry-skipped)
  repair,   \* --repair
  repaired, \* functions the session's database edits have made decompilable
  queue,    \* all_functions
  todo,     \* those whose export task has not ended
  results,  \* results: the texts of each function
  rows,     \* failures
  unwritten,\* functions whose files main() has still to write
  files,    \* the folder: each function's .asm and .cpp
  manifest, \* the manifest's failures and exported functions
  retried,  \* the last entry of its retry_history, the functions not only counted
  last      \* history: the mode of the run that wrote the manifest, if nothing followed

given == <<nature, batches, folder>>
run == <<phase, mode, repair, repaired, queue, todo, results, rows, unwritten>>
disk == <<files, manifest, retried>>
vars == <<walk, given, runs, run, disk, last>>

NoTexts == [asm |-> "none", cpp |-> "none"]
NoRetry == [fns |-> {}, repair |-> FALSE, recovered |-> 0]
NoManifest == [state |-> "absent", rows |-> {}, exported |-> {}]

Init ==
  /\ WalkInit /\ batches \in BOOLEAN /\ folder \in {"graph", "all"}
  /\ \E d \in Databases : callees = d.callees /\ nature = d.nature
  /\ runs = 0 /\ phase = "off" /\ mode = "graph" /\ repair = FALSE /\ repaired = {}
  /\ queue = {} /\ todo = {} /\ rows = {} /\ unwritten = {}
  /\ results = [f \in Funcs |-> NoTexts] /\ files = [f \in Funcs |-> NoTexts]
  /\ manifest = NoManifest /\ retried = NoRetry /\ last = "none"

Row(f, stage, cause) == [fn |-> f, stage |-> stage, cause |-> cause]
Failed(R) == {r.fn : r \in R}
\* Rows with "permanent": true.
Permanent(R) == {r.fn : r \in {q \in R : q.cause # "transient"}}

(***************************************************************************)
(* Choosing the functions                                                  *)
(***************************************************************************)

\* The process ends, and its session with the edits made in it.
EndRun ==
  /\ phase' = "off" /\ mode' = "graph" /\ repair' = FALSE /\ repaired' = {}
  /\ queue' = {} /\ todo' = {} /\ rows' = {} /\ unwritten' = {}
  /\ results' = [f \in Funcs |-> NoTexts]
  /\ UNCHANGED <<given, runs>>

\* A run starts.
StartRun(m) ==
  /\ phase = "off" /\ runs < MaxRuns
  /\ runs' = runs + 1 /\ mode' = m /\ repair' \in BOOLEAN
  /\ last' = "none"
  /\ UNCHANGED <<given, repaired, rows, unwritten, results, disk>>

StartWalk ==
  /\ folder = "graph" /\ StartRun("graph") /\ BeginWalk
  /\ phase' = "discover" /\ queue' = {} /\ todo' = {}

\* fetch_all_functions; if it fails, main() ends with the disk as it was.
StartAll ==
  /\ folder = "all" /\ StartRun("all")
  /\ phase' = "export" /\ queue' = Funcs /\ todo' = Funcs
  /\ UNCHANGED walk

\* Bug: everything exported is exported again.
StartRetry_All ==
  /\ manifest.state = "whole"
  /\ StartRun("retry")
  /\ queue' = manifest.exported
  /\ queue' # {} /\ todo' = queue' /\ phase' = "export"
  /\ UNCHANGED walk

\* load_skipped_functions: the failed functions, without those that failed for
\* good.  With no manifest, a torn one or nothing to retry main() ends here.
StartRetry ==
  /\ manifest.state = "whole"
  /\ StartRun("retry")
  /\ queue' = Failed(manifest.rows) \ Permanent(manifest.rows)
  /\ queue' # {} /\ todo' = queue' /\ phase' = "export"
  /\ UNCHANGED walk

Discover ==
  /\ phase = "discover" /\ WalkStep
  /\ UNCHANGED <<given, runs, run, disk, last>>

\* Bug: the failures of the walk are forgotten.
EndDiscovery_NoRows ==
  /\ phase = "discover" /\ Walked
  /\ phase' = "export" /\ queue' = ToSet(discovered) /\ todo' = queue'
  /\ EndWalk
  /\ UNCHANGED <<given, runs, mode, repair, repaired, results, rows, unwritten, disk,
                 last>>

EndDiscovery ==
  /\ phase = "discover" /\ Walked
  /\ phase' = "export" /\ queue' = ToSet(discovered) /\ todo' = queue'
  /\ rows' = {Row(f, "discover", "transient") : f \in unwalked}
  /\ EndWalk
  /\ UNCHANGED <<given, runs, mode, repair, repaired, results, unwritten, disk, last>>

(***************************************************************************)
(* Exporting                                                               *)
(***************************************************************************)

Decompiles(f) == nature[f] \in {"good", "long"} \/ f \in repaired

\* What the two requests of export_one may come to.  A request that fails once
\* the retries are used up is a row, and never a permanent one; so is a page of
\* disassembly answered with an error.  A decompilation answered with an error,
\* whatever the error is and whether or not it would be gone the next time, is no
\* failed request: fetch_decompile returns its "message" as if it were pseudocode.
OneTexts(f) ==
  { [asm |-> a, cpp |-> c] :
      a \in {"whole", "placeholder"},
      c \in {"placeholder", "message"} \cup IF Decompiles(f) THEN {"whole"} ELSE {} }
OneRows(f, t) ==
  { Row(f, "disasm", "transient") : x \in {t.asm} \cap {"placeholder"} } \cup
  { Row(f, "decompile", "transient") : x \in {t.cpp} \cap {"placeholder"} }

\* What a function of an analyze_batch answer may come to.  A truncated
\* disassembly is fetched again page by page; if that fails what there is is
\* kept, and no row is added.
BatchTexts(f) ==
  { [asm |-> a, cpp |-> c] :
      a \in {"whole", "placeholder"} \cup IF nature[f] = "long" THEN {"partial"} ELSE {},
      c \in IF Decompiles(f) THEN {"whole", "placeholder"} ELSE {"placeholder"} }
BatchRows(f, t, cause) ==
  { Row(f, "disasm", "transient") : x \in {t.asm} \cap {"placeholder"} } \cup
  { Row(f, "decompile", cause) : x \in {t.cpp} \cap {"placeholder"} }
\* Why a function has no pseudocode: it was missing from the answer, or memory ran out, or
\* Hex-Rays said what is wrong with it.
Causes(f) == {"transient"} \cup IF Decompiles(f) THEN {} ELSE {nature[f]}

UseBatch == batches /\ mode \in {"all", "retry"}

Record(f, t, R) ==
  /\ results' = [results EXCEPT ![f] = t] /\ rows' = rows \cup R /\ todo' = todo \ {f}
  /\ UNCHANGED <<walk, given, runs, phase, mode, repair, repaired, queue, unwritten,
                 disk, last>>

\* A thread's task ends.  Tasks end in any order.
ExportOne(f) ==
  /\ f \in todo
  /\ \/ phase = "reexport"
     \/ phase = "export" /\ ~UseBatch
  /\ \E t \in OneTexts(f) : Record(f, t, OneRows(f, t))

ExportInBatch(f) ==
  /\ f \in todo /\ phase = "export" /\ UseBatch
  /\ \E t \in BatchTexts(f), cause \in Causes(f) : Record(f, t, BatchRows(f, t, cause))

\* The executor has been left; the repair comes next if it was asked for.
EndExport ==
  /\ phase \in {"export", "reexport"} /\ todo = {}
  /\ IF phase = "export" /\ repair
     THEN phase' = "repair" /\ unwritten' = unwritten
     ELSE phase' = "files" /\ unwritten' = queue
  /\ UNCHANGED <<walk, given, runs, mode, repair, repaired, queue, todo, results, rows,
                 disk, last>>

\* Bug: the rows of what was repaired are kept.
Repair_KeepsRows ==
  /\ phase = "repair"
  /\ \E R \in SUBSET Failed({r \in rows : r.cause = "badcall"}) :
       /\ repaired' \in SUBSET R /\ todo' = R
       /\ phase' = IF R = {} THEN "files" ELSE "reexport"
       /\ unwritten' = IF R = {} THEN queue ELSE {}
  /\ UNCHANGED <<walk, given, runs, mode, repair, queue, results, rows, disk, last>>

\* repair_badcall_failures: the tool's answer leaves some of them (R) out of those
\* not fixed, and unless a later fix broke them Hex-Rays accepts them now; their
\* decompile rows are dropped and they are exported again one by one.
Repair ==
  /\ phase = "repair"
  /\ \E R \in SUBSET Failed({r \in rows : r.cause = "badcall"}) :
       /\ repaired' \in SUBSET R
       /\ rows' = {r \in rows : r.fn \notin R \/ r.stage # "decompile"}
       /\ todo' = R
       /\ phase' = IF R = {} THEN "files" ELSE "reexport"
       /\ unwritten' = IF R = {} THEN queue ELSE {}
  /\ UNCHANGED <<walk, given, runs, mode, repair, queue, results, disk, last>>

\* A batch request, or the call of repair_badcall, raises, or Ctrl+C: the
\* process ends with nothing more written.
EndEarly ==
  /\ phase # "off" /\ EndRun /\ EndWalk
  /\ UNCHANGED <<disk, last>>

(***************************************************************************)
(* Files and manifest                                                      *)
(***************************************************************************)

\* The next function's .asm and .cpp.
WriteFiles ==
  /\ phase = "files" /\ unwritten # {}
  /\ LET f == CHOOSE f \in unwritten : TRUE
     IN files' = [files EXCEPT ![f] = results[f]] /\ unwritten' = unwritten \ {f}
  /\ UNCHANGED <<walk, given, runs, phase, mode, repair, repaired, queue, todo, results,
                 rows, manifest, retried, last>>

\* write_text opens the file, which empties it.
OpenManifest ==
  /\ phase = "files" /\ unwritten = {}
  /\ phase' = "manifest" /\ manifest' = [manifest EXCEPT !.state = "torn"]
  /\ UNCHANGED <<walk, given, runs, mode, repair, repaired, queue, todo, results, rows,
                 unwritten, files, retried, last>>

\* Bug: a function that failed twice is counted twice.
WriteManifest_CountsRows ==
  /\ phase = "manifest" /\ last' = mode
  /\ manifest' = [state |-> "whole", rows |-> rows,
                  exported |-> IF mode = "retry" THEN manifest.exported ELSE queue]
  /\ retried' = IF mode = "retry"
                THEN [fns |-> queue, repair |-> repair,
                      recovered |-> Cardinality(queue) - Cardinality(rows)]
                ELSE NoRetry
  /\ EndRun
  /\ UNCHANGED <<walk, files>>

\* A retry keeps the manifest it read and swaps in its own failures.
WriteManifest ==
  /\ phase = "manifest" /\ last' = mode
  /\ manifest' = [state |-> "whole", rows |-> rows,
                  exported |-> IF mode = "retry" THEN manifest.exported ELSE queue]
  /\ retried' = IF mode = "retry"
                THEN [fns |-> queue, repair |-> repair,
                      recovered |-> Cardinality(queue) - Cardinality(Failed(rows))]
                ELSE NoRetry
  /\ EndRun
  /\ UNCHANGED <<walk, files>>

\* The model's bound on runs is reached.
Ended == phase = "off" /\ runs = MaxRuns /\ UNCHANGED vars

Next ==
  \/ StartWalk \/ StartAll \/ StartRetry \/ Discover \/ EndDiscovery
  \/ \E f \in Funcs : ExportOne(f) \/ ExportInBatch(f)
  \/ WriteFiles \/ EndExport \/ Repair \/ EndEarly \/ OpenManifest \/ WriteManifest
  \/ Ended

Spec == Init /\ [][Next]_vars

-----------------------------------------------------------------------------
(* Properties.                                                             *)

Texts == {"none", "whole", "partial", "placeholder", "message"}
Rows == [fn : Funcs, stage : {"discover", "disasm", "decompile"},
         cause : {"transient", "badcall", "hopeless"}]

\* Every variable keeps its type.
TypeOK ==
  /\ [callees |-> callees, nature |-> nature] \in Databases /\ batches \in BOOLEAN
  /\ folder \in {"graph", "all"} /\ runs \in 0..MaxRuns
  /\ phase \in {"off", "discover", "export", "repair", "reexport", "files", "manifest"}
  /\ mode \in {"graph", "all", "retry"} /\ last \in {"none", "graph", "all", "retry"}
  /\ repair \in BOOLEAN /\ repaired \subseteq Funcs
  /\ queue \subseteq Funcs /\ todo \subseteq queue /\ unwritten \subseteq queue
  /\ results \in [Funcs -> [asm : Texts, cpp : Texts]]
  /\ files \in [Funcs -> [asm : Texts, cpp : Texts]]
  /\ rows \subseteq Rows
  /\ manifest.state \in {"absent", "torn", "whole"}
  /\ manifest.rows \subseteq Rows /\ manifest.exported \subseteq Funcs
  /\ retried \in [fns : SUBSET Funcs, repair : BOOLEAN, recovered : Nat]

HasRow(R, f, stage) == \E r \in R : r.fn = f /\ r.stage = stage

\* Functions a run in this mode may ask for one by one: with analyze_batch only
\* what the repair said it had recovered.
OneByOne(f, m) == batches /\ m = "all" => nature[f] = "badcall"

\* After a first run the manifest lists every request that failed, repairs and
\* re-exports included, and no other function as failed to decompile.  What it
\* does not own up to is a disassembly cut short, and an error that answered a
\* decompilation and was taken for pseudocode: with analyze_batch that is only of
\* functions the repair had exported again.
FirstManifestIsTrue ==
  last \in {"graph", "all"} =>
    \A f \in manifest.exported :
      /\ "none" \notin {files[f].asm, files[f].cpp}
      /\ files[f].asm = "placeholder" => HasRow(manifest.rows, f, "disasm")
      /\ files[f].cpp = "placeholder" <=> HasRow(manifest.rows, f, "decompile")
      /\ files[f].cpp = "message" => OneByOne(f, last)

\* A walk with a manifest without failures exported everything the root reaches,
\* with its whole disassembly and what answered its decompilation: pseudocode, or
\* the message of an error, which counts as well.
CleanWalkIsComplete ==
  last = "graph" /\ manifest.rows = {} =>
    \A f \in Within(Cardinality(Funcs)) :
      f \in manifest.exported /\ files[f].asm = "whole" /\ files[f].cpp \in {"whole", "message"}

\* --retry-skipped overwrites the files of functions the manifest lists as
\* failed, and no other's.
RetryWritesOnlyFailed ==
  [][ \A f \in Funcs : mode = "retry" /\ files'[f] # files[f] => f \in Failed(manifest.rows) ]_vars

\* README.md:84: "repeat runs converge".  A retry adds no function to those
\* listed as failed.
RetryNeverGrows ==
  [][ mode = "retry" /\ manifest'.state = "whole"
        => Failed(manifest'.rows) \subseteq Failed(manifest.rows) ]_vars

\* A retry counts as recovered functions none of whose requests failed (one that
\* an error answered did not): all of them, but that a repair leaves the disasm
\* row of what it re-exports behind.
RecoveredIsTrue ==
  last = "retry" =>
    LET answered == {f \in retried.fns : "placeholder" \notin {files[f].asm, files[f].cpp}}
    IN /\ retried.recovered <= Cardinality(answered)
       /\ ~retried.repair => retried.recovered = Cardinality(answered)

\* README.md:84: --retry-skipped "rewrites the manifest's failure list
\* (recovered functions drop out)".  After a retry whatever has a placeholder
\* for its pseudocode is still listed.
NothingForgotten ==
  last = "retry" =>
    \A f \in manifest.exported : files[f].cpp = "placeholder" => f \in Failed(manifest.rows)
=============================================================================
