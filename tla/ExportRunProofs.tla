---------------------------- MODULE ExportRunProofs ----------------------------
(***************************************************************************)
(* What holds of ExportRun for any functions, databases and number of      *)
(* runs.  The walk is that of DiscoveryProofs, whose lemmas the last part  *)
(* rests on.                                                               *)
(***************************************************************************)
EXTENDS ExportRun, DiscoveryProofs

\* What a run has on record of f: its texts, and a row for each request that failed.
Settled(f) ==
  /\ f \in Funcs
  /\ "none" \notin {results[f].asm, results[f].cpp}
  /\ results[f].asm = "placeholder" => HasRow(rows, f, "disasm")
  /\ results[f].cpp = "placeholder" <=> HasRow(rows, f, "decompile")
  /\ results[f].cpp = "message" => OneByOne(f, mode)

\* The functions of a run: those done are settled, those to do have no decompile row (and in
\* the re-export failed with MERR_BADCALL), and nobody is still to do once the threads are gone.
TasksInv ==
  /\ todo \subseteq queue /\ unwritten \subseteq queue
  /\ phase \in {"off", "discover"} => queue = {} /\ rows = {}
  /\ phase \notin {"export", "reexport"} => todo = {}
  /\ \A f \in queue \ todo : Settled(f)
  /\ \A f \in todo : ~HasRow(rows, f, "decompile")
  /\ \A r \in rows : r.cause # "transient" => r.fn \in queue
  /\ \A r \in rows : r.cause = "badcall" => nature[r.fn] = "badcall"
  /\ phase = "reexport" => \A f \in todo : nature[f] = "badcall"

\* What has been written of a run.
FilesInv ==
  /\ DOMAIN results = Funcs /\ DOMAIN files = Funcs
  /\ phase = "files" => \A f \in queue \ unwritten : files[f] = results[f]
  /\ phase = "manifest" => \A f \in queue : files[f] = results[f]

\* A manifest nothing followed is a finished run's.
LastInv == last # "none" => phase = "off"

ExportInv == TasksInv /\ FilesInv /\ LastInv /\ FirstManifestIsTrue

\* At first there is nothing.
LEMMA InitExport == Init => ExportInv
  BY DEF Init, ExportInv, TasksInv, FilesInv, LastInv, FirstManifestIsTrue

\* A run begins with nothing on record.
LEMMA StartExport == ExportInv /\ (StartWalk \/ StartAll \/ StartRetry) => ExportInv'
<1> SUFFICES ASSUME ExportInv, StartWalk \/ StartAll \/ StartRetry PROVE ExportInv'
  OBVIOUS
<1>1. /\ phase = "off" /\ phase' \in {"discover", "export"} /\ todo' = queue' /\ last' = "none"
      /\ UNCHANGED <<rows, unwritten, results, files, nature, batches>>
      /\ phase' = "discover" => queue' = {}
  BY DEF StartWalk, StartAll, StartRetry, StartRun, disk, given
<1>2. queue = {} /\ rows = {} /\ unwritten = {}
  BY <1>1 DEF ExportInv, TasksInv
<1>3. TasksInv'
  BY <1>1, <1>2 DEF TasksInv, HasRow
<1>4. FilesInv' /\ LastInv' /\ FirstManifestIsTrue'
  BY <1>1 DEF ExportInv, FilesInv, LastInv, FirstManifestIsTrue
<1> QED
  BY <1>3, <1>4 DEF ExportInv

\* The rows of a walk are transient, and none is a decompile row.
LEMMA WalkExport == ExportInv /\ (Discover \/ EndDiscovery) => ExportInv'
<1> SUFFICES ASSUME ExportInv, Discover \/ EndDiscovery PROVE ExportInv'
  OBVIOUS
<1>1. CASE Discover
  BY <1>1 DEF Discover, run, disk, given, ExportInv, TasksInv, FilesInv, LastInv,
              FirstManifestIsTrue, Settled, HasRow, OneByOne
<1>2. CASE EndDiscovery
  <2>1. /\ phase = "discover" /\ phase' = "export" /\ todo' = queue'
        /\ UNCHANGED <<results, unwritten, files, manifest, last, nature, batches>>
        /\ \A r \in rows' : r.stage = "discover" /\ r.cause = "transient"
    BY <1>2 DEF EndDiscovery, Row, disk, given
  <2>2. unwritten = {} /\ last = "none"
    BY <2>1 DEF ExportInv, TasksInv, LastInv
  <2> QED
    BY <2>1, <2>2 DEF ExportInv, TasksInv, FilesInv, LastInv, FirstManifestIsTrue, HasRow, OneByOne
<1> QED
  BY <1>1, <1>2

\* The rows of a task are its function's, and say which of its requests failed; a message without
\* a row is of a function asked for by itself.
RowsMatch(f, t, R) ==
  /\ \A r \in R : /\ r.fn = f /\ r.stage \in {"disasm", "decompile"}
                  /\ r.cause = "badcall" => nature[f] = "badcall"
  /\ t.asm = "placeholder" <=> \E r \in R : r.stage = "disasm"
  /\ t.cpp = "placeholder" <=> \E r \in R : r.stage = "decompile"
  /\ t.cpp = "message" => OneByOne(f, mode)

\* What a task may leave.
Outcomes == [asm : {"whole", "partial", "placeholder"}, cpp : {"whole", "placeholder", "message"}]

\* The fields of a row.
LEMMA RowFields ==
  \A f, stage, cause : LET r == Row(f, stage, cause)
                       IN r.fn = f /\ r.stage = stage /\ r.cause = cause
  BY DEF Row

\* A task ends with texts and rows that agree.
LEMMA TaskRows ==
  ASSUME TasksInv, NEW f \in Funcs, ExportOne(f) \/ ExportInBatch(f)
  PROVE  /\ f \in todo /\ phase \in {"export", "reexport"}
         /\ \E t \in Outcomes : \E R : Record(f, t, R) /\ RowsMatch(f, t, R)
<1>1. f \in todo /\ phase \in {"export", "reexport"}
  BY DEF ExportOne, ExportInBatch
<1>2. CASE ExportOne(f)
  <2>1. PICK t \in OneTexts(f) : Record(f, t, OneRows(f, t))
    BY <1>2 DEF ExportOne
  <2>2. t \in Outcomes
    BY DEF OneTexts, Outcomes
  <2>3. RowsMatch(f, t, OneRows(f, t))
    <3>1. \A r : r \in OneRows(f, t) <=>
                   \/ r = Row(f, "disasm", "transient") /\ t.asm = "placeholder"
                   \/ r = Row(f, "decompile", "transient") /\ t.cpp = "placeholder"
      BY DEF OneRows
    <3>2. \A r \in OneRows(f, t) : /\ r.fn = f /\ r.stage \in {"disasm", "decompile"}
                                   /\ r.cause = "badcall" => nature[f] = "badcall"
      BY <3>1, RowFields
    <3>3. t.asm = "placeholder" <=> \E r \in OneRows(f, t) : r.stage = "disasm"
      BY <2>2, <3>1, RowFields
    <3>4. t.cpp = "placeholder" <=> \E r \in OneRows(f, t) : r.stage = "decompile"
      BY <2>2, <3>1, RowFields
    <3>5. OneByOne(f, mode)
      <4>1. CASE phase = "reexport"
        BY <1>1, <4>1 DEF TasksInv, OneByOne
      <4>2. CASE ~UseBatch
        BY <4>2 DEF UseBatch, OneByOne
      <4> QED
        BY <1>2, <4>1, <4>2 DEF ExportOne
    <3> QED
      BY <3>2, <3>3, <3>4, <3>5 DEF RowsMatch
  <2> QED
    BY <1>1, <2>1, <2>2, <2>3
<1>3. CASE ExportInBatch(f)
  <2>1. PICK t \in BatchTexts(f), cause \in Causes(f) : Record(f, t, BatchRows(f, t, cause))
    BY <1>3 DEF ExportInBatch
  <2>2. t \in Outcomes /\ t.cpp # "message"
    BY DEF BatchTexts, Outcomes
  <2>3. RowsMatch(f, t, BatchRows(f, t, cause))
    <3>1. cause = "badcall" => nature[f] = "badcall"
      BY DEF Causes
    <3>2. \A r : r \in BatchRows(f, t, cause) <=>
                   \/ r = Row(f, "disasm", "transient") /\ t.asm = "placeholder"
                   \/ r = Row(f, "decompile", cause) /\ t.cpp = "placeholder"
      BY DEF BatchRows
    <3>3. \A r \in BatchRows(f, t, cause) :
            /\ r.fn = f /\ r.stage \in {"disasm", "decompile"}
            /\ r.cause = "badcall" => nature[f] = "badcall"
      BY <3>1, <3>2, RowFields
    <3>4. t.asm = "placeholder" <=> \E r \in BatchRows(f, t, cause) : r.stage = "disasm"
      BY <2>2, <3>2, RowFields
    <3>5. t.cpp = "placeholder" <=> \E r \in BatchRows(f, t, cause) : r.stage = "decompile"
      BY <2>2, <3>2, RowFields
    <3> QED
      BY <2>2, <3>3, <3>4, <3>5 DEF RowsMatch
  <2> QED
    BY <1>1, <2>1, <2>2, <2>3
<1> QED
  BY <1>2, <1>3

\* It settles its function, and disturbs no other.
LEMMA RecordExport ==
  ASSUME ExportInv, NEW f \in Funcs, f \in todo, phase \in {"export", "reexport"}, NEW R,
         NEW t \in Outcomes, Record(f, t, R), RowsMatch(f, t, R)
  PROVE  ExportInv'
<1>1. /\ rows' = rows \cup R /\ todo' = todo \ {f} /\ results' = [results EXCEPT ![f] = t]
      /\ UNCHANGED <<phase, mode, nature, batches, queue, unwritten, files, manifest, last>>
  BY DEF Record, disk, given
<1>2. results'[f] = t /\ \A g \in Funcs \ {f} : results'[g] = results[g]
  BY <1>1 DEF ExportInv, FilesInv
<1>3. ASSUME NEW g, g # f, NEW stage PROVE HasRow(rows, g, stage)' <=> HasRow(rows, g, stage)
  BY <1>1, <1>3 DEF HasRow, RowsMatch
<1>4. Settled(f)'
  <2>1. HasRow(rows, f, "disasm")' <=> HasRow(rows, f, "disasm") \/ t.asm = "placeholder"
    BY <1>1 DEF HasRow, RowsMatch
  <2>2. HasRow(rows, f, "decompile")' <=> t.cpp = "placeholder"
    BY <1>1 DEF HasRow, RowsMatch, ExportInv, TasksInv
  <2>3. t.cpp = "message" => OneByOne(f, mode)'
    BY <1>1 DEF RowsMatch, OneByOne
  <2>4. "none" \notin {t.asm, t.cpp}
    BY DEF Outcomes
  <2> QED
    BY <1>2, <2>1, <2>2, <2>3, <2>4 DEF Settled
<1>5. ASSUME NEW g \in queue, g \notin todo PROVE Settled(g)'
  <2>1. Settled(g) /\ g # f
    BY <1>5 DEF ExportInv, TasksInv
  <2>2. OneByOne(g, mode)' <=> OneByOne(g, mode)
    BY <1>1 DEF OneByOne
  <2> QED
    BY <1>2, <1>3, <2>1, <2>2 DEF Settled
<1>6. TasksInv'
  <2>1. \A g \in queue' \ todo' : Settled(g)'
    BY <1>1, <1>4, <1>5
  <2>2. \A g \in todo' : ~HasRow(rows, g, "decompile")'
    BY <1>1, <1>3 DEF ExportInv, TasksInv
  <2>3. \A r \in rows' : r.cause # "transient" => r.fn \in queue'
    BY <1>1 DEF ExportInv, TasksInv, RowsMatch
  <2>4. \A r \in rows' : r.cause = "badcall" => nature'[r.fn] = "badcall"
    BY <1>1 DEF ExportInv, TasksInv, RowsMatch
  <2> QED
    BY <1>1, <2>1, <2>2, <2>3, <2>4 DEF ExportInv, TasksInv
<1>7. FilesInv'
  BY <1>1 DEF ExportInv, FilesInv
<1>8. LastInv' /\ FirstManifestIsTrue'
  BY <1>1 DEF ExportInv, LastInv, FirstManifestIsTrue, OneByOne
<1> QED
  BY <1>6, <1>7, <1>8 DEF ExportInv

\* The threads are gone.
LEMMA EndExportExport == ExportInv /\ EndExport => ExportInv'
  BY DEF EndExport, disk, given, ExportInv, TasksInv, FilesInv, LastInv, FirstManifestIsTrue,
         Settled, HasRow, OneByOne

\* What the repair made decompilable is to do again, without its decompile rows.
LEMMA RepairExport == ExportInv /\ Repair => ExportInv'
<1> SUFFICES ASSUME ExportInv, Repair PROVE ExportInv'
  OBVIOUS
<1>1. PICK R \in SUBSET Failed({r \in rows : r.cause = "badcall"}) :
        /\ rows' = {r \in rows : r.fn \notin R \/ r.stage # "decompile"}
        /\ todo' = R
        /\ phase' = IF R = {} THEN "files" ELSE "reexport"
        /\ unwritten' = IF R = {} THEN queue ELSE {}
  BY DEF Repair
<1>2. /\ phase = "repair" /\ todo = {}
      /\ UNCHANGED <<queue, results, files, manifest, last, mode, nature, batches>>
  BY DEF Repair, disk, given, ExportInv, TasksInv
<1>3. R \subseteq queue
  BY <1>1 DEF Failed, ExportInv, TasksInv
<1>4. ASSUME NEW g, g \notin R, NEW stage PROVE HasRow(rows, g, stage)' <=> HasRow(rows, g, stage)
  BY <1>1, <1>4 DEF HasRow
<1>5. \A g \in queue' \ todo' : Settled(g)'
  BY <1>1, <1>2, <1>4 DEF Settled, OneByOne, ExportInv, TasksInv
<1>6. \A g \in todo' : ~HasRow(rows, g, "decompile")'
  BY <1>1 DEF HasRow
<1>7. \A g \in R : nature[g] = "badcall"
  BY <1>1 DEF Failed, ExportInv, TasksInv
<1>8. TasksInv'
  BY <1>1, <1>2, <1>3, <1>5, <1>6, <1>7 DEF ExportInv, TasksInv
<1>9. FilesInv' /\ LastInv' /\ FirstManifestIsTrue'
  BY <1>1, <1>2 DEF ExportInv, FilesInv, LastInv, FirstManifestIsTrue, OneByOne
<1> QED
  BY <1>8, <1>9 DEF ExportInv

\* The files, and the manifest's beginning.
LEMMA FilesExport == ExportInv /\ (WriteFiles \/ OpenManifest) => ExportInv'
<1> SUFFICES ASSUME ExportInv, WriteFiles \/ OpenManifest PROVE ExportInv'
  OBVIOUS
<1>1. CASE WriteFiles
  <2>1. PICK f \in unwritten : /\ files' = [files EXCEPT ![f] = results[f]]
                               /\ unwritten' = unwritten \ {f}
    BY <1>1 DEF WriteFiles
  <2>2. /\ phase = "files"
        /\ UNCHANGED <<phase, queue, todo, results, rows, manifest, last, mode, nature, batches>>
    BY <1>1 DEF WriteFiles, given
  <2>3. TasksInv'
    BY <2>1, <2>2 DEF ExportInv, TasksInv, Settled, HasRow, OneByOne
  <2>4. queue \subseteq Funcs
    BY <2>2 DEF ExportInv, TasksInv, Settled
  <2>5. FilesInv'
    BY <2>1, <2>2, <2>4 DEF ExportInv, FilesInv
  <2>6. LastInv' /\ FirstManifestIsTrue'
    BY <2>2 DEF ExportInv, LastInv, FirstManifestIsTrue
  <2> QED
    BY <2>3, <2>5, <2>6 DEF ExportInv
<1>2. CASE OpenManifest
  BY <1>2 DEF OpenManifest, given, ExportInv, TasksInv, FilesInv, LastInv, FirstManifestIsTrue,
              Settled, HasRow, OneByOne
<1> QED
  BY <1>1, <1>2

\* The process ends, with its manifest written or without.
LEMMA EndRunExport == ExportInv /\ (WriteManifest \/ EndEarly) => ExportInv'
<1> SUFFICES ASSUME ExportInv, WriteManifest \/ EndEarly PROVE ExportInv'
  OBVIOUS
<1>1. /\ phase' = "off" /\ queue' = {} /\ todo' = {} /\ rows' = {} /\ unwritten' = {}
      /\ UNCHANGED <<files, nature, batches>> /\ DOMAIN results' = Funcs
  BY DEF WriteManifest, EndEarly, EndRun, disk, given
<1>2. TasksInv' /\ LastInv'
  BY <1>1 DEF TasksInv, LastInv
<1>3. FilesInv'
  BY <1>1 DEF ExportInv, FilesInv
<1>4. FirstManifestIsTrue'
  <2>1. CASE WriteManifest
    <3>1. /\ phase = "manifest" /\ todo = {} /\ manifest'.rows = rows /\ last' = mode
          /\ last' \in {"graph", "all"} => manifest'.exported = queue
      BY <2>1 DEF WriteManifest, ExportInv, TasksInv
    <3>2. \A f \in queue : files'[f] = results[f] /\ Settled(f)
      BY <1>1, <3>1 DEF ExportInv, TasksInv, FilesInv
    <3> QED
      BY <1>1, <3>1, <3>2 DEF FirstManifestIsTrue, Settled, OneByOne
  <2>2. CASE EndEarly
    BY <1>1, <2>2 DEF EndEarly, disk, ExportInv, FirstManifestIsTrue, OneByOne
  <2> QED
    BY <2>1, <2>2
<1> QED
  BY <1>2, <1>3, <1>4 DEF ExportInv

\* Every step.
LEMMA NextExport == ExportInv /\ [Next]_vars => ExportInv'
<1> SUFFICES ASSUME ExportInv, [Next]_vars PROVE ExportInv'
  OBVIOUS
<1>1. CASE \E f \in Funcs : ExportOne(f) \/ ExportInBatch(f)
  BY <1>1, TaskRows, RecordExport DEF ExportInv
<1>2. CASE Ended \/ UNCHANGED vars
  BY <1>2 DEF Ended, vars, run, disk, given, ExportInv, TasksInv, FilesInv, LastInv,
              FirstManifestIsTrue, Settled, HasRow, OneByOne
<1> QED
  BY <1>1, <1>2, StartExport, WalkExport, EndExportExport, RepairExport, FilesExport, EndRunExport
  DEF Next

\* What a run has on record is true of its texts at every moment.
THEOREM RecordCorrect == Spec => []ExportInv
  BY InitExport, NextExport, PTL DEF Spec

\* After a first run the manifest lists every request that failed, and nothing else.
THEOREM ManifestCorrect == Spec => []FirstManifestIsTrue
<1>1. ExportInv => FirstManifestIsTrue
  BY DEF ExportInv
<1> QED
  BY <1>1, RecordCorrect, PTL

-----------------------------------------------------------------------------
(* --retry-skipped.                                                        *)

\* A retry does what the manifest lists as failed, and nothing else fails in it.
RetryInv ==
  /\ mode = "retry" => /\ queue \subseteq Failed(manifest.rows)
                       /\ \A r \in rows : r.fn \in queue
  /\ phase \in {"off", "discover"} => mode # "retry"
  /\ DOMAIN manifest = {"state", "rows", "exported"}

\* At first there is no retry.
LEMMA InitRetry == Init => RetryInv
  BY DEF Init, NoManifest, RetryInv

\* Every step keeps to the list.
LEMMA NextRetry == ExportInv /\ RetryInv /\ [Next]_vars => RetryInv'
<1> SUFFICES ASSUME ExportInv, RetryInv, [Next]_vars PROVE RetryInv'
  OBVIOUS
<1>1. CASE StartWalk \/ StartAll \/ StartRetry
  BY <1>1 DEF StartWalk, StartAll, StartRetry, StartRun, disk, ExportInv, TasksInv, RetryInv
<1>2. CASE Discover \/ EndDiscovery
  BY <1>2 DEF Discover, EndDiscovery, run, disk, RetryInv
<1>3. CASE \E f \in Funcs : ExportOne(f) \/ ExportInBatch(f)
  <2>1. PICK f \in Funcs : ExportOne(f) \/ ExportInBatch(f)
    BY <1>3
  <2>2. PICK t, R : Record(f, t, R) /\ RowsMatch(f, t, R) /\ f \in todo
                    /\ phase \in {"export", "reexport"}
    BY <2>1, TaskRows DEF ExportInv
  <2> QED
    BY <2>2 DEF Record, RowsMatch, disk, ExportInv, TasksInv, RetryInv
<1>4. CASE EndExport \/ Repair \/ WriteFiles \/ OpenManifest
  <2>1. UNCHANGED <<mode, queue>> /\ rows' \subseteq rows /\ phase' \notin {"off", "discover"}
    BY <1>4 DEF EndExport, Repair, WriteFiles, OpenManifest
  <2>2. manifest'.rows = manifest.rows /\ DOMAIN manifest' = DOMAIN manifest
    BY <1>4 DEF EndExport, Repair, WriteFiles, OpenManifest, disk, RetryInv
  <2> QED
    BY <2>1, <2>2 DEF RetryInv
<1>5. CASE WriteManifest \/ EndEarly
  BY <1>5 DEF WriteManifest, EndEarly, EndRun, disk, RetryInv
<1>6. CASE Ended \/ UNCHANGED vars
  BY <1>6 DEF Ended, vars, run, disk, RetryInv
<1> QED
  BY <1>1, <1>2, <1>3, <1>4, <1>5, <1>6 DEF Next

\* What a step does to the folder and the manifest.
LEMMA DiskSteps ==
  ASSUME [Next]_vars
  PROVE  \/ UNCHANGED <<files, manifest>>
         \/ WriteFiles /\ UNCHANGED manifest
         \/ OpenManifest /\ manifest'.state = "torn" /\ UNCHANGED files
         \/ WriteManifest /\ UNCHANGED files
<1>1. CASE \E f \in Funcs : ExportOne(f) \/ ExportInBatch(f)
  BY <1>1 DEF ExportOne, ExportInBatch, Record, disk
<1>2. CASE OpenManifest
  BY <1>2 DEF OpenManifest
<1> QED
  BY <1>1, <1>2 DEF Next, StartWalk, StartAll, StartRetry, StartRun, Discover, EndDiscovery,
     WriteFiles, EndExport, Repair, EndEarly, WriteManifest, Ended, vars, disk

\* A retry overwrites the files of functions the manifest lists as failed, and no other's.
THEOREM OverwritesCorrect == Spec => RetryWritesOnlyFailed
<1>1. ExportInv /\ RetryInv /\ [Next]_vars =>
        [ \A f \in Funcs :
            mode = "retry" /\ files'[f] # files[f] => f \in Failed(manifest.rows) ]_vars
  <2> SUFFICES ASSUME ExportInv, RetryInv, [Next]_vars, NEW f \in Funcs, mode = "retry",
                      files'[f] # files[f]
               PROVE  f \in Failed(manifest.rows)
    OBVIOUS
  <2>1. PICK g \in unwritten : files' = [files EXCEPT ![g] = results[g]]
    BY DiskSteps DEF WriteFiles
  <2>2. f = g
    BY <2>1 DEF ExportInv, FilesInv
  <2> QED
    BY <2>1, <2>2 DEF ExportInv, TasksInv, RetryInv
<1>2. Spec => [](ExportInv /\ RetryInv)
  BY InitExport, InitRetry, NextExport, NextRetry, PTL DEF Spec
<1> QED
  BY <1>1, <1>2, PTL DEF Spec, RetryWritesOnlyFailed

\* A retry adds no function to those the manifest lists as failed.
THEOREM RetriesConverge == Spec => RetryNeverGrows
<1>1. ExportInv /\ RetryInv /\ [Next]_vars =>
        [ mode = "retry" /\ manifest'.state = "whole"
            => Failed(manifest'.rows) \subseteq Failed(manifest.rows) ]_vars
  <2> SUFFICES ASSUME ExportInv, RetryInv, [Next]_vars, mode = "retry", manifest'.state = "whole"
               PROVE  Failed(manifest'.rows) \subseteq Failed(manifest.rows)
    OBVIOUS
  <2>1. CASE manifest' = manifest
    BY <2>1
  <2>2. CASE WriteManifest
    <3>1. manifest'.rows = rows
      BY <2>2 DEF WriteManifest
    <3> QED
      BY <3>1 DEF Failed, RetryInv
  <2> QED
    BY <2>1, <2>2, DiskSteps
<1>2. Spec => [](ExportInv /\ RetryInv)
  BY InitExport, InitRetry, NextExport, NextRetry, PTL DEF Spec
<1> QED
  BY <1>1, <1>2, PTL DEF Spec, RetryNeverGrows

\* In a retry every row is of a request, and without a repair one that has not been made again.
ExactInv ==
  mode = "retry" =>
    /\ \A r \in rows : r.stage \in {"disasm", "decompile"}
    /\ ~repair => /\ phase \notin {"repair", "reexport"}
                  /\ \A r \in rows : r.stage = "disasm" =>
                       r.fn \notin todo /\ results[r.fn].asm = "placeholder"

\* Each step leaves the rows that exact.
LEMMA NextExact == ExportInv /\ RetryInv /\ ExactInv /\ [Next]_vars => ExactInv'
<1> SUFFICES ASSUME ExportInv, RetryInv, ExactInv, [Next]_vars PROVE ExactInv'
  OBVIOUS
<1>1. CASE StartWalk \/ StartAll \/ StartRetry
  BY <1>1 DEF StartWalk, StartAll, StartRetry, StartRun, ExportInv, TasksInv, ExactInv
<1>2. CASE Discover \/ EndDiscovery
  BY <1>2 DEF Discover, EndDiscovery, run, RetryInv, ExactInv
<1>3. CASE \E f \in Funcs : ExportOne(f) \/ ExportInBatch(f)
  <2>1. PICK f \in Funcs : ExportOne(f) \/ ExportInBatch(f)
    BY <1>3
  <2>2. PICK t, R : Record(f, t, R) /\ RowsMatch(f, t, R) /\ f \in todo
    BY <2>1, TaskRows DEF ExportInv
  <2>3. /\ rows' = rows \cup R /\ todo' = todo \ {f} /\ results' = [results EXCEPT ![f] = t]
        /\ UNCHANGED <<phase, mode, repair, queue>>
    BY <2>2 DEF Record
  <2>4. results'[f] = t /\ \A g \in Funcs \ {f} : results'[g] = results[g]
    BY <2>3 DEF ExportInv, FilesInv
  <2>5. ASSUME mode = "retry", ~repair, NEW r \in rows', r.stage = "disasm"
        PROVE  r.fn \notin todo' /\ results'[r.fn].asm = "placeholder"
    <3>1. CASE r \in R
      BY <2>2, <2>3, <2>4, <2>5, <3>1 DEF RowsMatch
    <3>2. CASE r \in rows
      <4>1. r.fn \notin todo /\ results[r.fn].asm = "placeholder" /\ r.fn \in queue
        BY <2>5, <3>2 DEF ExactInv, RetryInv
      <4>2. r.fn \in Funcs \ {f}
        BY <2>2, <4>1 DEF ExportInv, TasksInv, Settled
      <4> QED
        BY <2>3, <2>4, <4>1, <4>2
    <3> QED
      BY <2>3, <2>5, <3>1, <3>2
  <2> QED
    BY <2>2, <2>3, <2>5 DEF RowsMatch, ExactInv
<1>4. CASE EndExport \/ WriteFiles \/ OpenManifest
  BY <1>4 DEF EndExport, WriteFiles, OpenManifest, ExactInv
<1>5. CASE Repair
  BY <1>5 DEF Repair, ExactInv
<1>6. CASE WriteManifest \/ EndEarly
  BY <1>6 DEF WriteManifest, EndEarly, EndRun, ExactInv
<1>7. CASE Ended \/ UNCHANGED vars
  BY <1>7 DEF Ended, vars, run, ExactInv
<1> QED
  BY <1>1, <1>2, <1>3, <1>4, <1>5, <1>6, <1>7 DEF Next

\* The functions without a row are those a retry counts.
LEMMA Counted ==
  ASSUME NEW Q, NEW F, NEW W, IsFiniteSet(Q), F \subseteq Q, W \subseteq Q, Q \ F \subseteq W
  PROVE  /\ Cardinality(Q) - Cardinality(F) <= Cardinality(W)
         /\ W = Q \ F => Cardinality(Q) - Cardinality(F) = Cardinality(W)
<1>1. IsFiniteSet(F) /\ IsFiniteSet(W) /\ IsFiniteSet(Q \ F)
  BY FS_Subset
<1>2. /\ Cardinality(Q) \in Nat /\ Cardinality(F) \in Nat
      /\ Cardinality(W) \in Nat /\ Cardinality(Q \ F) \in Nat
  BY <1>1, FS_CardinalityType
<1>3. Cardinality(Q \ F) = Cardinality(Q) - Cardinality(Q \cap F)
  BY FS_Difference
<1>4. Q \cap F = F
  OBVIOUS
<1>5. Cardinality(Q \ F) <= Cardinality(W)
  BY <1>1, FS_Subset
<1> QED
  BY <1>2, <1>3, <1>4, <1>5

\* The count of the manifest is taken when the files are written.
LEMMA CountStep ==
  ASSUME ExportInv, RetryInv, ExactInv, WriteManifest
  PROVE  RecoveredIsTrue'
<1> SUFFICES ASSUME mode = "retry"
             PROVE  RecoveredIsTrue'
  BY DEF WriteManifest, RecoveredIsTrue
<1> DEFINE F == Failed(rows)
           W == {f \in queue : "placeholder" \notin {results[f].asm, results[f].cpp}}
<1>1. /\ retried' = [fns |-> queue, repair |-> repair,
                     recovered |-> Cardinality(queue) - Cardinality(F)]
      /\ files' = files /\ phase = "manifest"
  BY DEF WriteManifest
<1>2. \A f \in queue : files[f] = results[f] /\ Settled(f)
  BY <1>1 DEF ExportInv, TasksInv, FilesInv
<1>3. queue \subseteq Funcs
  BY <1>2 DEF Settled
<1>4. IsFiniteSet(queue)
  BY <1>3, DiscoveryAssumption, FS_Subset
<1>5. F \subseteq queue
  BY DEF Failed, RetryInv
<1>6. queue \ F \subseteq W
  BY <1>2 DEF Failed, Settled, HasRow
<1>7. ~repair => W = queue \ F
  <2> SUFFICES ASSUME ~repair, NEW r \in rows PROVE r.fn \notin W
    BY <1>6 DEF Failed
  <2>1. CASE r.stage = "disasm"
    BY <2>1 DEF ExactInv
  <2>2. CASE r.stage = "decompile"
    BY <1>2, <2>2 DEF Settled, HasRow
  <2> QED
    BY <2>1, <2>2 DEF ExactInv
<1>8. W = {f \in retried'.fns : "placeholder" \notin {files'[f].asm, files'[f].cpp}}
  BY <1>1, <1>2
<1>9. /\ retried'.recovered <= Cardinality(W)
      /\ ~retried'.repair => retried'.recovered = Cardinality(W)
  <2> HIDE DEF F, W
  <2>1. W \subseteq queue
    BY DEF W
  <2> QED
    BY <1>1, <1>4, <1>5, <1>6, <1>7, <2>1, Counted
<1> HIDE DEF F, W
<1> QED
  BY <1>8, <1>9 DEF RecoveredIsTrue

\* A retry counts as recovered functions none of whose requests failed, and without a repair all
\* of them.
THEOREM RecoveredCorrect == Spec => []RecoveredIsTrue
<1>1. Init => ExactInv /\ RecoveredIsTrue
  BY DEF Init, ExactInv, RecoveredIsTrue
<1>2. ExportInv /\ RetryInv /\ ExactInv /\ RecoveredIsTrue /\ [Next]_vars => RecoveredIsTrue'
  <2> SUFFICES ASSUME ExportInv, RetryInv, ExactInv, RecoveredIsTrue, [Next]_vars
               PROVE  RecoveredIsTrue'
    OBVIOUS
  <2>1. CASE WriteManifest
    BY <2>1, CountStep
  <2>2. CASE ~WriteManifest
    <3>1. last' = "none" \/ (last' = last /\ retried' = retried)
      <4>1. CASE \E f \in Funcs : ExportOne(f) \/ ExportInBatch(f)
        BY <4>1 DEF ExportOne, ExportInBatch, Record, disk
      <4> QED
        BY <2>2, <4>1 DEF Next, StartWalk, StartAll, StartRetry, StartRun, Discover, EndDiscovery,
           WriteFiles, EndExport, Repair, EndEarly, OpenManifest, Ended, vars, disk
    <3>2. last # "none" => files' = files
      BY <2>2, DiskSteps DEF WriteFiles, OpenManifest, ExportInv, LastInv
    <3> QED
      BY <3>1, <3>2 DEF RecoveredIsTrue
  <2> QED
    BY <2>1, <2>2
<1> QED
  BY <1>1, <1>2, InitExport, InitRetry, NextExport, NextRetry, NextExact, PTL DEF Spec

-----------------------------------------------------------------------------
(* The walk and the types.                                                 *)

\* The walk is as it should be in every run, and gone when it is over.
RunWalkInv ==
  /\ WalkInv
  /\ phase = "discover" => mode = "graph"
  /\ phase # "discover" => unwalked = {}

LEMMA InitRunWalk == Init => RunWalkInv
  BY InitKeeps DEF Init, RunWalkInv, WalkInit

LEMMA NextRunWalk == RunWalkInv /\ [Next]_vars => RunWalkInv'
<1> SUFFICES ASSUME RunWalkInv, [Next]_vars PROVE RunWalkInv'
  OBVIOUS
<1>1. CASE StartWalk
  <2>1. WalkInv'
    BY <1>1, BeginKeeps DEF StartWalk, RunWalkInv
  <2> QED BY <2>1, <1>1 DEF StartWalk, StartRun, RunWalkInv
<1>2. CASE Discover
  <2>1. (\E f \in Funcs : DiscoverOne(f)) \/ ConsumeLevel
    BY <1>2 DEF Discover, WalkStep
  <2>2. WalkInv'
    BY <2>1, DiscoverKeeps, ConsumeKeeps DEF RunWalkInv
  <2>3. phase = "discover" /\ phase' = phase /\ mode' = mode
    BY <1>2 DEF Discover, run
  <2> QED BY <2>2, <2>3 DEF RunWalkInv
<1>3. CASE EndDiscovery \/ EndEarly
  <2>1. WalkInv'
    BY <1>3, EndKeeps DEF EndDiscovery, EndEarly, RunWalkInv
  <2>2. phase' # "discover" /\ unwalked' = {}
    BY <1>3 DEF EndDiscovery, EndEarly, EndRun, EndWalk
  <2> QED BY <2>1, <2>2 DEF RunWalkInv
<1>4. CASE StartAll \/ StartRetry \/ WriteFiles \/ EndExport \/ Repair \/ OpenManifest \/ WriteManifest
           \/ (\E f \in Funcs : ExportOne(f) \/ ExportInBatch(f))
  <2>1. UNCHANGED walk /\ phase' # "discover" /\ phase # "discover"
    BY <1>4 DEF StartAll, StartRetry, StartRun, WriteFiles, EndExport, Repair, OpenManifest, WriteManifest,
                EndRun, ExportOne, ExportInBatch, Record
  <2>2. unwalked' = unwalked
    BY <2>1 DEF walk
  <2> QED BY <2>1, <2>2, UnchangedKeeps DEF RunWalkInv
<1>5. CASE Ended \/ UNCHANGED vars
  <2>1. UNCHANGED walk /\ phase' = phase /\ mode' = mode
    BY <1>5 DEF Ended, vars, run
  <2>2. unwalked' = unwalked
    BY <2>1 DEF walk
  <2> QED BY <2>1, <2>2, UnchangedKeeps DEF RunWalkInv
<1> QED BY <1>1, <1>2, <1>3, <1>4, <1>5 DEF Next

\* A walk of the exporter that has ended found each reachable function once, at its distance.
THEOREM RunExactHolds == Spec => []WalkIsExact
<1>1. RunWalkInv => WalkIsExact
  BY WalkExact DEF RunWalkInv
<1> QED BY <1>1, InitRunWalk, NextRunWalk, PTL DEF Spec

\* What a task records is typed.
LEMMA RecordTypes ==
  ASSUME TypeOK, NEW f \in Funcs, ExportOne(f) \/ ExportInBatch(f)
  PROVE  \E t \in [asm : Texts, cpp : Texts] : \E R \in SUBSET Rows : Record(f, t, R)
<1>1. nature[f] \in {"good", "long", "badcall", "hopeless"}
  BY ExportRunAssumption DEF TypeOK
<1>2. ~Decompiles(f) => nature[f] \in {"badcall", "hopeless"}
  BY <1>1 DEF Decompiles
<1>3. \A stage \in {"disasm", "decompile"}, cause \in {"transient", "badcall", "hopeless"} :
        Row(f, stage, cause) \in Rows
  BY DEF Row, Rows
<1>4. CASE ExportOne(f)
  <2>1. PICK t \in OneTexts(f) : Record(f, t, OneRows(f, t))
    BY <1>4 DEF ExportOne
  <2>2. t \in [asm : Texts, cpp : Texts]
    BY DEF OneTexts, Texts
  <2>3. OneRows(f, t) \subseteq Rows
    BY <1>3 DEF OneRows
  <2> QED BY <2>1, <2>2, <2>3
<1>5. CASE ExportInBatch(f)
  <2>1. PICK t \in BatchTexts(f), cause \in Causes(f) : Record(f, t, BatchRows(f, t, cause))
    BY <1>5 DEF ExportInBatch
  <2>2. t \in [asm : Texts, cpp : Texts]
    BY DEF BatchTexts, Texts
  <2>3. BatchRows(f, t, cause) \subseteq Rows
    <3>1. cause \in {"transient", "badcall", "hopeless"}
      BY <1>2 DEF Causes
    <3> QED BY <1>3, <3>1 DEF BatchRows
  <2> QED BY <2>1, <2>2, <2>3
<1> QED BY <1>4, <1>5

\* A retry never counts more failures than functions.
LEMMA CountIsNatural ==
  ASSUME TypeOK, RetryInv, mode = "retry"
  PROVE  Cardinality(queue) - Cardinality(Failed(rows)) \in Nat
<1>1. IsFiniteSet(queue)
  BY DiscoveryAssumption, FS_Subset DEF TypeOK
<1>2. Failed(rows) \subseteq queue
  BY DEF Failed, RetryInv
<1> DEFINE F == Failed(rows)
<1> HIDE DEF F
<1>3. IsFiniteSet(F) /\ Cardinality(F) <= Cardinality(queue)
  BY <1>1, <1>2, FS_Subset DEF F
<1>4. Cardinality(F) \in Nat /\ Cardinality(queue) \in Nat
  BY <1>1, <1>3, FS_CardinalityType
<1> QED BY <1>3, <1>4 DEF F

LEMMA NextTypes ==
  TypeOK /\ RunWalkInv /\ ExportInv /\ RetryInv /\ [Next]_vars => TypeOK'
<1> SUFFICES ASSUME TypeOK, RunWalkInv, ExportInv, RetryInv, [Next]_vars PROVE TypeOK'
  OBVIOUS
<1>1. CASE StartWalk \/ StartAll
  BY <1>1, ExportRunAssumption DEF StartWalk, StartAll, StartRun, BeginWalk, walk, given, disk, TypeOK,
     ExportInv, TasksInv
<1>2. CASE StartRetry
  <2>1. queue' \subseteq Funcs
    BY <1>2 DEF StartRetry, Failed, Rows, TypeOK
  <2> QED BY <2>1, <1>2, ExportRunAssumption DEF StartRetry, StartRun, walk, given, disk, TypeOK, ExportInv, TasksInv
<1>3. CASE Discover
  <2>1. callees' = callees
    BY <1>3 DEF Discover, WalkStep, DiscoverOne, ConsumeLevel
  <2> QED BY <2>1, <1>3 DEF Discover, run, given, disk, TypeOK
<1>4. CASE EndDiscovery
  <2>1. queue' \subseteq Funcs /\ unwalked \subseteq Funcs
    BY <1>4, WalkTyped DEF EndDiscovery, RunWalkInv, WalkInv, FoundOnce
  <2>2. rows' \subseteq Rows
    BY <2>1, <1>4 DEF EndDiscovery, Row, Rows
  <2>3. unwritten = {} /\ todo' = queue' /\ callees' = callees /\ phase' = "export"
    BY <1>4 DEF EndDiscovery, EndWalk, ExportInv, TasksInv, TypeOK
  <2> QED BY <2>1, <2>2, <2>3, <1>4 DEF EndDiscovery, given, disk, TypeOK
<1>5. CASE \E f \in Funcs : ExportOne(f) \/ ExportInBatch(f)
  <2>1. PICK f \in Funcs : ExportOne(f) \/ ExportInBatch(f)
    BY <1>5
  <2>2. PICK t \in [asm : Texts, cpp : Texts], R \in SUBSET Rows : Record(f, t, R)
    BY <2>1, RecordTypes
  <2>3. results' \in [Funcs -> [asm : Texts, cpp : Texts]]
    BY <2>2 DEF Record, TypeOK
  <2> QED BY <2>2, <2>3 DEF Record, walk, given, disk, TypeOK
<1>6. CASE EndExport
  BY <1>6 DEF EndExport, walk, given, disk, TypeOK
<1>7. CASE Repair
  <2>1. PICK R \in SUBSET Failed({r \in rows : r.cause = "badcall"}) :
          /\ repaired' \in SUBSET R
          /\ rows' = {r \in rows : r.fn \notin R \/ r.stage # "decompile"}
          /\ todo' = R
          /\ phase' = IF R = {} THEN "files" ELSE "reexport"
          /\ unwritten' = IF R = {} THEN queue ELSE {}
    BY <1>7 DEF Repair
  <2>2. R \subseteq queue
    BY DEF Failed, ExportInv, TasksInv
  <2> QED BY <2>1, <2>2, <1>7 DEF Repair, walk, given, disk, TypeOK
<1>8. CASE WriteFiles
  <2>1. PICK f \in unwritten : files' = [files EXCEPT ![f] = results[f]] /\ unwritten' = unwritten \ {f}
    BY <1>8 DEF WriteFiles
  <2>2. files' \in [Funcs -> [asm : Texts, cpp : Texts]]
    BY <2>1 DEF TypeOK
  <2> QED BY <2>1, <2>2, <1>8 DEF WriteFiles, walk, given, TypeOK
<1>9. CASE OpenManifest
  <2>1. manifest'.state = "torn" /\ manifest'.rows = manifest.rows /\ manifest'.exported = manifest.exported
    BY <1>9 DEF OpenManifest, RetryInv
  <2> QED BY <2>1, <1>9 DEF OpenManifest, walk, given, TypeOK
<1>10. CASE WriteManifest
  <2>1. manifest'.state = "whole" /\ manifest'.rows = rows /\ manifest'.exported \subseteq Funcs
    BY <1>10 DEF WriteManifest, TypeOK
  <2>2. retried' \in [fns : SUBSET Funcs, repair : BOOLEAN, recovered : Nat]
    <3>1. CASE mode = "retry"
      BY <3>1, <1>10, CountIsNatural DEF WriteManifest, TypeOK
    <3>2. CASE mode # "retry"
      BY <3>2, <1>10 DEF WriteManifest, NoRetry
    <3> QED BY <3>1, <3>2
  <2>3. results' \in [Funcs -> [asm : Texts, cpp : Texts]]
    BY <1>10 DEF WriteManifest, EndRun, NoTexts, Texts
  <2> QED BY <2>1, <2>2, <2>3, <1>10 DEF WriteManifest, EndRun, walk, given, TypeOK
<1>11. CASE EndEarly
  <2>1. results' \in [Funcs -> [asm : Texts, cpp : Texts]]
    BY <1>11 DEF EndEarly, EndRun, NoTexts, Texts
  <2> QED BY <2>1, <1>11 DEF EndEarly, EndRun, EndWalk, given, disk, TypeOK
<1>12. CASE Ended \/ UNCHANGED vars
  BY <1>12 DEF Ended, vars, walk, given, run, disk, TypeOK
<1> QED BY <1>1, <1>2, <1>3, <1>4, <1>5, <1>6, <1>7, <1>8, <1>9, <1>10, <1>11, <1>12 DEF Next

LEMMA InitTypes == Init => TypeOK
<1> SUFFICES ASSUME Init PROVE TypeOK
  OBVIOUS
<1>1. PICK d \in Databases : callees = d.callees /\ nature = d.nature
  BY DEF Init
<1>2. [callees |-> callees, nature |-> nature] = d
  BY <1>1, ExportRunAssumption
<1>3. NoTexts \in [asm : Texts, cpp : Texts]
  BY DEF NoTexts, Texts
<1>4. retried \in [fns : SUBSET Funcs, repair : BOOLEAN, recovered : Nat]
  BY DEF Init, NoRetry
<1>5. results \in [Funcs -> [asm : Texts, cpp : Texts]] /\ files \in [Funcs -> [asm : Texts, cpp : Texts]]
  BY <1>3 DEF Init
<1>6. manifest.state = "absent" /\ manifest.rows = {} /\ manifest.exported = {}
  BY DEF Init, NoManifest
<1>7. runs \in 0..MaxRuns
  BY ExportRunAssumption DEF Init
<1>8. [callees |-> callees, nature |-> nature] \in Databases
  BY <1>1, <1>2
<1> QED BY <1>4, <1>5, <1>6, <1>7, <1>8 DEF Init, TypeOK

\* Every variable keeps its type: no retry counts more failures than it had functions.
THEOREM ExportTypesHold == Spec => []TypeOK
  BY InitTypes, NextTypes, InitRunWalk, NextRunWalk, InitExport, NextExport, InitRetry, NextRetry, PTL DEF Spec

-----------------------------------------------------------------------------
(* A walk whose manifest lists no failure.                                 *)

\* What the root reaches.
Reach == Within(Cardinality(Funcs))

\* The texts of a function none of whose requests was cut short.
Answered(t) == t.asm \in {"placeholder", "whole"} /\ t.cpp \in {"placeholder", "whole", "message"}

\* In a run that walks, the rows tell of the functions that may be missing: those called by one
\* that was not walked.  Every function is asked for by itself.
GraphRunInv ==
  /\ phase = "off" => mode = "graph"
  /\ mode = "graph" =>
       /\ \A f \in queue \ todo : Answered(results[f])
       /\ phase \notin {"off", "discover"} =>
            Reach \subseteq queue \/ \E r \in rows : r.stage = "discover"

\* What it has written.
GraphFilesInv ==
  last = "graph" =>
    /\ \A f \in manifest.exported : Answered(files[f])
    /\ Reach \subseteq manifest.exported \/ manifest.rows # {}

LEMMA ReachStays == UNCHANGED <<callees, unwalked>> => Reach' = Reach
  BY DEF Reach, Within

LEMMA InitGraph == Init => GraphRunInv /\ GraphFilesInv
  BY DEF Init, GraphRunInv, GraphFilesInv

\* The walk hands over what the root reaches, unless it has failures.
LEMMA WalkGraph == ASSUME RunWalkInv, ExportInv, GraphRunInv, EndDiscovery PROVE GraphRunInv'
<1>1. /\ phase' = "export" /\ queue' = ToSet(discovered) /\ todo' = queue' /\ mode' = "graph"
      /\ rows' = {Row(f, "discover", "transient") : f \in unwalked}
      /\ Walked /\ callees' = callees /\ unwalked' = {} /\ mode = "graph"
  BY DEF EndDiscovery, EndWalk, RunWalkInv
<1>2. \A r \in rows' : r.stage = "discover"
  BY <1>1 DEF Row
<1>3. CASE unwalked = {}
  <2>1. Reach' = Reach
    BY <1>1, <1>3, ReachStays
  <2>2. Reach = queue'
    BY <1>1, WalkExact DEF RunWalkInv, WalkIsExact, Reach
  <2>3. Reach' \subseteq queue'
    BY <2>1, <2>2
  <2> QED BY <2>3, <1>1, <1>2 DEF GraphRunInv
<1>4. CASE unwalked # {}
  <2>1. \E r \in rows' : r.stage = "discover"
    BY <1>1, <1>2, <1>4
  <2> QED BY <2>1, <1>1, <1>2 DEF GraphRunInv
<1> QED BY <1>3, <1>4

\* A task leaves answers, or placeholders.
LEMMA TaskGraph ==
  ASSUME TypeOK, ExportInv, GraphRunInv, NEW f \in Funcs, ExportOne(f) \/ ExportInBatch(f)
  PROVE  GraphRunInv'
<1> SUFFICES ASSUME mode = "graph" PROVE GraphRunInv'
  BY DEF ExportOne, ExportInBatch, Record, GraphRunInv
<1>1. ExportOne(f)
  <2>1. ~ExportInBatch(f)
    BY DEF ExportInBatch, UseBatch
  <2> QED BY <2>1
<1>2. PICK t \in OneTexts(f) : Record(f, t, OneRows(f, t))
  BY <1>1 DEF ExportOne
<1>3. /\ rows' = rows \cup OneRows(f, t) /\ todo' = todo \ {f} /\ results' = [results EXCEPT ![f] = t]
      /\ UNCHANGED <<callees, unwalked, phase, mode, queue>>
  BY <1>2 DEF Record, walk, given
<1>4. Answered(t)
  BY DEF OneTexts, Answered
<1>6. Reach' = Reach
  BY <1>3, ReachStays
<1>7. \A g \in queue' \ todo' : Answered(results'[g])
  <2> TAKE g \in queue' \ todo'
  <2>1. CASE g = f
    BY <2>1, <1>3, <1>4 DEF TypeOK
  <2>2. CASE g # f
    BY <2>2, <1>3 DEF GraphRunInv
  <2> QED BY <2>1, <2>2
<1> QED BY <1>3, <1>6, <1>7 DEF GraphRunInv, Answered

LEMMA NextGraphRun ==
  TypeOK /\ RunWalkInv /\ ExportInv /\ GraphRunInv /\ [Next]_vars => GraphRunInv'
<1> SUFFICES ASSUME TypeOK, RunWalkInv, ExportInv, GraphRunInv, [Next]_vars PROVE GraphRunInv'
  OBVIOUS
<1>1. CASE StartWalk \/ StartAll \/ StartRetry
  <2>1. /\ phase = "off" /\ phase' # "off"
        /\ mode' # "graph" \/ (phase' = "discover" /\ queue' = {})
    BY <1>1 DEF StartWalk, StartAll, StartRetry, StartRun
  <2> QED BY <2>1 DEF GraphRunInv
<1>2. CASE Discover
  <2>1. phase' = "discover" /\ UNCHANGED <<mode, rows, queue, todo, results>>
    BY <1>2 DEF Discover, run, given
  <2>2. queue = {}
    BY <1>2 DEF Discover, ExportInv, TasksInv
  <2> QED BY <2>1, <2>2 DEF GraphRunInv
<1>3. CASE EndDiscovery
  BY <1>3, WalkGraph
<1>4. CASE \E f \in Funcs : ExportOne(f) \/ ExportInBatch(f)
  BY <1>4, TaskGraph
<1>5. CASE EndExport \/ WriteFiles \/ OpenManifest
  <2>1. /\ UNCHANGED <<callees, unwalked, mode, rows, queue, todo, results>>
        /\ phase \notin {"off", "discover"} /\ phase' # "off"
    BY <1>5 DEF EndExport, WriteFiles, OpenManifest, walk, given
  <2>2. Reach' = Reach
    BY <2>1, ReachStays
  <2> QED BY <2>1, <2>2 DEF GraphRunInv, Answered
<1>6. CASE Repair
  <2>1. PICK R \in SUBSET Failed({r \in rows : r.cause = "badcall"}) :
          /\ todo' = R
          /\ rows' = {r \in rows : r.fn \notin R \/ r.stage # "decompile"}
    BY <1>6 DEF Repair
  <2>2. UNCHANGED <<callees, unwalked, mode, queue, results>> /\ phase = "repair" /\ phase' # "off"
    BY <1>6 DEF Repair, walk, given
  <2>3. Reach' = Reach
    BY <2>2, ReachStays
  <2>4. todo = {}
    BY <2>2 DEF ExportInv, TasksInv
  <2>5. \A r \in rows : r.stage = "discover" => r \in rows'
    BY <2>1
  <2> QED BY <2>2, <2>3, <2>4, <2>5 DEF GraphRunInv, Answered
<1>7. CASE WriteManifest \/ EndEarly
  BY <1>7 DEF WriteManifest, EndEarly, EndRun, GraphRunInv
<1>8. CASE Ended \/ UNCHANGED vars
  <2>1. UNCHANGED <<callees, unwalked, phase, mode, rows, queue, todo, results>>
    BY <1>8 DEF Ended, vars, walk, given, run
  <2>2. Reach' = Reach
    BY <2>1, ReachStays
  <2> QED BY <2>1, <2>2 DEF GraphRunInv, Answered
<1> QED BY <1>1, <1>2, <1>3, <1>4, <1>5, <1>6, <1>7, <1>8 DEF Next

\* A walk's manifest and files are those of its run, until another starts.
LEMMA NextGraphFiles ==
  RunWalkInv /\ ExportInv /\ GraphRunInv /\ GraphFilesInv /\ [Next]_vars => GraphFilesInv'
<1> SUFFICES ASSUME RunWalkInv, ExportInv, GraphRunInv, GraphFilesInv, [Next]_vars PROVE GraphFilesInv'
  OBVIOUS
<1>1. CASE WriteManifest
  <2> SUFFICES ASSUME mode = "graph" PROVE GraphFilesInv'
    BY <1>1 DEF WriteManifest, GraphFilesInv
  <2>1. /\ manifest'.rows = rows /\ manifest'.exported = queue /\ files' = files /\ phase = "manifest"
        /\ UNCHANGED <<callees, unwalked>>
    BY <1>1 DEF WriteManifest, EndRun, walk, given
  <2>2. Reach' = Reach
    BY <2>1, ReachStays
  <2>3. todo = {} /\ \A f \in queue : files[f] = results[f]
    BY <2>1 DEF ExportInv, TasksInv, FilesInv
  <2>4. \A f \in queue : Answered(files[f])
    BY <2>3 DEF GraphRunInv
  <2>5. Reach \subseteq queue \/ rows # {}
    BY <2>1 DEF GraphRunInv
  <2> QED BY <2>1, <2>2, <2>4, <2>5 DEF GraphFilesInv, Answered
<1>2. CASE ~WriteManifest
  <2>1. last' = "none" \/ last' = last
    <3>1. CASE \E f \in Funcs : ExportOne(f) \/ ExportInBatch(f)
      BY <3>1 DEF ExportOne, ExportInBatch, Record
    <3> QED
      BY <1>2, <3>1 DEF Next, StartWalk, StartAll, StartRetry, StartRun, Discover, EndDiscovery,
         WriteFiles, EndExport, Repair, EndEarly, OpenManifest, Ended, vars
  <2>2. ASSUME last' = "graph" PROVE UNCHANGED <<files, manifest, callees, unwalked>>
    <3>1. phase = "off" /\ last' # "none"
      BY <2>1, <2>2 DEF ExportInv, LastInv
    <3>2. Ended \/ UNCHANGED vars
      <4>1. ~(\E f \in Funcs : ExportOne(f) \/ ExportInBatch(f))
        BY <3>1 DEF ExportOne, ExportInBatch
      <4> QED
        BY <3>1, <1>2, <4>1 DEF Next, StartWalk, StartAll, StartRetry, StartRun, Discover, EndDiscovery,
           WriteFiles, EndExport, Repair, EndEarly, OpenManifest
    <3> QED BY <3>2 DEF Ended, vars, walk, given, disk
  <2>3. last' = "graph" => Reach' = Reach
    BY <2>2, ReachStays
  <2> QED BY <2>1, <2>2, <2>3 DEF GraphFilesInv, Answered
<1> QED BY <1>1, <1>2

\* A walk with a manifest without failures exported everything the root reaches, with its whole
\* disassembly and what answered its decompilation.
THEOREM CleanHolds == Spec => []CleanWalkIsComplete
<1>1. ExportInv /\ GraphFilesInv => CleanWalkIsComplete
  BY DEF ExportInv, GraphFilesInv, FirstManifestIsTrue, CleanWalkIsComplete, HasRow, Reach, Answered
<1> QED
  BY <1>1, InitTypes, NextTypes, InitRunWalk, NextRunWalk, InitExport, NextExport, InitRetry, NextRetry,
     InitGraph, NextGraphRun, NextGraphFiles, PTL DEF Spec
=============================================================================
