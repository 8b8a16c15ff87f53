------------------------------ MODULE Database ------------------------------
(***************************************************************************)
(* What McpCommands (mcp/hexport/src/mcp_commands.cpp) does to a database: *)
(* opening and closing it, saving, and the commands that edit what is in   *)
(* memory.  A command runs to its end before the next is read.             *)
(*                                                                         *)
(* Of a database's content the model keeps what repair_badcall works on:   *)
(* the type at each address a call can reach, whether it is a definite     *)
(* one, whether the address has a name of its own, and which functions     *)
(* are defined.  The rest that clients put there (comments, bytes, operand *)
(* formats, data and code items, bookmarks, frame variables, types) is a   *)
(* set of notes.  A module's name is that of the file it is read from.     *)
(***************************************************************************)
EXTENDS Integers, Sequences, FiniteSets

CONSTANTS
  Files,     \* database files on disk
  Paths,     \* texts that name them
  FileOf,    \* the file each of those names
  NoPath,    \* no database, no name
  Funcs,     \* functions
  Targets,   \* what they call: functions, and globals that hold pointers to them
  Types, NoType,
  Notes,     \* what clients may put elsewhere in a database
  Originals  \* contents the files may have at first

Contents == [types : [Targets -> Types \cup {NoType}], sure : SUBSET Targets,
             named : SUBSET Targets, defined : SUBSET Funcs, notes : SUBSET Notes]

ASSUME DatabaseAssumption ==
  /\ FileOf \in [Paths -> Files] /\ NoPath \notin Paths \cup Files
  /\ NoType \notin Types /\ Originals \subseteq Contents

VARIABLES
  disk,     \* the content of each file
  opened,   \* the path of the open database, or NoPath (is_open)
  mem,      \* the content in memory
  readable, \* can the name of its module be read this session, from the root file name or the path?
  cached,   \* cached_module
  told,     \* the last answer that named a module: the database then open, and the name
  first,    \* history: what each file held at first
  asked     \* history: the files a client asked to be written

db == <<disk, opened, mem, readable, cached, told, first, asked>>

Blank ==
  [types |-> [t \in Targets |-> NoType], sure |-> {}, named |-> {}, defined |-> {}, notes |-> {}]
IsOpen == opened # NoPath

DatabaseInit ==
  /\ first \in [Files -> Originals] /\ disk = first
  /\ opened = NoPath /\ mem = Blank /\ readable = TRUE /\ cached = NoPath
  /\ told = [of |-> NoPath, name |-> NoPath] /\ asked = {}

(***************************************************************************)
(* The session                                                             *)
(***************************************************************************)

\* module_name(): the name kept, or else the name read; "target" is an answer but is not kept.
Named(kept, path, named) ==
  IF kept # NoPath THEN kept ELSE IF named THEN FileOf[path] ELSE "target"
\* Bug: the fallback is kept as if it were the name.
Kept_Always(name) == name
Kept(name) == IF name = "target" THEN NoPath ELSE name

\* Bug: a close saves unless it is told not to.
Written_Always(save) == IF IsOpen THEN [disk EXCEPT ![FileOf[opened]] = mem] ELSE disk

\* What close(save) leaves on the disk, and in cached_module.
Written(save) == IF IsOpen /\ save THEN [disk EXCEPT ![FileOf[opened]] = mem] ELSE disk

\* Bug: the name outlives the database it belongs to.
Forgotten_Keeps == cached
Forgotten == IF IsOpen THEN NoPath ELSE cached

Close(save) ==
  /\ disk' = Written(save) /\ cached' = Forgotten
  /\ opened' = NoPath /\ mem' = Blank
  /\ UNCHANGED readable

\* open(): what is open is closed first, without saving; then the database opens or does not.
Open(path) ==
  /\ disk' = Written(FALSE)
  /\ \/ /\ opened' = NoPath /\ mem' = Blank
        /\ cached' = Forgotten /\ UNCHANGED readable
     \/ /\ opened' = path /\ mem' = disk'[FileOf[path]]
        /\ readable' \in BOOLEAN
        /\ cached' = Kept(Named(Forgotten, path, readable'))

OpenDatabase(path) ==
  /\ Open(path)
  /\ told' = IF opened' = path THEN [of |-> path, name |-> Named(cached', path, readable')] ELSE told
  /\ UNCHANGED <<first, asked>>

CloseDatabase(save) ==
  /\ Close(save)
  /\ asked' = IF IsOpen /\ save THEN asked \cup {FileOf[opened]} ELSE asked
  /\ UNCHANGED <<told, first>>

\* server_health, list_databases.
AskName ==
  /\ IsOpen
  /\ told' = [of |-> opened, name |-> Named(cached, opened, readable)]
  /\ cached' = Kept(told'.name)
  /\ UNCHANGED <<disk, opened, mem, readable, first, asked>>

\* save_as: not to the path the database was opened by; save_database may fail.
SaveAs(path) ==
  /\ IsOpen /\ path # opened
  /\ disk' \in {disk, [disk EXCEPT ![FileOf[path]] = mem]}
  /\ asked' = asked \cup {FileOf[path]}
  /\ UNCHANGED <<opened, mem, readable, cached, told, first>>

SessionCommand ==
  \/ \E p \in Paths : OpenDatabase(p) \/ SaveAs(p)
  \/ \E save \in BOOLEAN : CloseDatabase(save)
  \/ AskName

(***************************************************************************)
(* Edits of the open database.  The SDK may refuse any of them.            *)
(***************************************************************************)

\* apply_tinfo(t, ty, TINFO_DEFINITE), set_name, del_tinfo on a content.
Typed(c, t, ty) == [c EXCEPT !.types[t] = ty, !.sure = c.sure \cup {t}]
Untyped(c, t) == [c EXCEPT !.types[t] = NoType, !.sure = c.sure \ {t}]

\* set_type with the type the caller gives, infer_types with the one the kernel guesses.
SetType(t, ty) == mem' = Typed(mem, t, ty)
InferTypes(t) == \E ty \in Types : SetType(t, ty)
Rename(t) == mem' = [mem EXCEPT !.named = mem.named \cup {t}]

\* type_apply_batch: a set_type for each item, some of them refused.
TypeApplyBatch(given) ==
  \E done \in SUBSET Targets :
    mem' = [mem EXCEPT !.types = [t \in Targets |-> IF t \in done THEN given[t] ELSE mem.types[t]],
                       !.sure = mem.sure \cup done]

\* undefine drops the function that starts there, and the items in the range, functions or not.
Undefine(fs, ns) == mem' = [mem EXCEPT !.defined = mem.defined \ fs, !.notes = mem.notes \ ns]
\* define_func makes a function, if the SDK can.
DefineFunc(f) == mem' = [mem EXCEPT !.defined = mem.defined \cup {f}]

\* redefine_func drops the function and its items first: if none can be made again it is gone.
RedefineFunc(f, ns) == f \in mem.defined /\ \E fs \in SUBSET {f} : Undefine(fs, ns)

\* revert_decisions: types that are not definite go, and functions and items, and analysis may
\* guess other types and find other functions.
RevertDecisions(guessed, fs, ns) ==
  /\ \A t \in mem.sure : guessed[t] = mem.types[t]
  /\ mem' = [mem EXCEPT !.types = guessed, !.defined = fs, !.notes = mem.notes \ ns]

\* What the SDK puts in, takes out, and puts in the place of what was there.
PutIn(ns) == mem' = [mem EXCEPT !.notes = mem.notes \cup ns]
TakeOut(ns) == mem' = [mem EXCEPT !.notes = mem.notes \ ns]
PutInPlace(old, new) == mem' = [mem EXCEPT !.notes = (mem.notes \ old) \cup new]

\* patch_bytes hands back the old bytes, and may be given them to put in again.
PatchBytes(n) == PutIn({n}) \/ TakeOut({n})
\* put_int, the same for several.
PutInt(ns) == \E new \in SUBSET ns : PutInPlace(ns, new)

\* set_comments writes over a comment; append_comments adds to it, or skips what is there already.
SetComments(old, new) == PutInPlace(old, new)
AppendComments(ns) == PutIn(ns)

\* define_code stops at the first instruction it cannot make.  make_data drops the items in the
\* way first: if no data can be made they are gone.
DefineCode(ns) == PutIn(ns)
MakeData(old, n) == \E new \in SUBSET {n} : PutInPlace(old, new)
SetOpType(n) == PutIn({n})
AddBookmark(n) == PutIn({n})

\* declare_stack adds a frame variable, or retypes the one there; delete_stack takes it out.
DeclareStack(old, new) == PutInPlace(old, new)
DeleteStack(ns) == TakeOut(ns)

\* declare_type: each declaration may fail.  enum_upsert keeps the members there are, but takes
\* the place of a type of that name that is not an enumeration.
DeclareType(ns) == PutIn(ns)
EnumUpsert(old, n) == PutInPlace(old, {n})

EditNotes ==
  \/ \E n \in Notes : PatchBytes(n) \/ SetOpType(n) \/ AddBookmark(n)
  \/ \E ns \in SUBSET Notes :
       PutInt(ns) \/ AppendComments(ns) \/ DefineCode(ns) \/ DeleteStack(ns) \/ DeclareType(ns)
  \/ \E old, new \in SUBSET Notes : SetComments(old, new) \/ DeclareStack(old, new)
  \/ \E old \in SUBSET Notes, n \in Notes : MakeData(old, n) \/ EnumUpsert(old, n)

EditCommand ==
  /\ IsOpen
  /\ \/ \E t \in Targets : InferTypes(t) \/ Rename(t)
     \/ \E t \in Targets, ty \in Types : SetType(t, ty)
     \/ \E given \in [Targets -> Types] : TypeApplyBatch(given)
     \/ \E guessed \in [Targets -> Types \cup {NoType}], fs \in SUBSET Funcs, ns \in SUBSET Notes :
          RevertDecisions(guessed, fs, ns)
     \/ \E fs \in SUBSET Funcs, ns \in SUBSET Notes : Cardinality(fs) <= 1 /\ Undefine(fs, ns)
     \/ \E f \in Funcs, ns \in SUBSET Notes : RedefineFunc(f, ns)
     \/ \E f \in Funcs : DefineFunc(f)
     \/ EditNotes
  /\ UNCHANGED <<disk, opened, readable, cached, told, first, asked>>

(***************************************************************************)
(* Properties                                                              *)
(***************************************************************************)

DatabaseTypeOK ==
  /\ disk \in [Files -> Contents] /\ first \in [Files -> Contents] /\ mem \in Contents
  /\ opened \in Paths \cup {NoPath} /\ cached \in Files \cup {NoPath}
  /\ readable \in BOOLEAN
  /\ told \in [of : Paths \cup {NoPath}, name : Files \cup {NoPath, "target"}]
  /\ asked \subseteq Files

\* "an export could be filed under the wrong binary": a name once told is that of the
\* database then open, though names are kept, databases replaced and openings fail.
NameIsOfOpenDatabase == told.of # NoPath => told.name \in {FileOf[told.of], "target"}
=============================================================================
