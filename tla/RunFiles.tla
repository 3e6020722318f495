------------------------------ MODULE RunFiles ------------------------------
(* The files a run leaves, written one after another: the measurement table  *)
(* by write_measurements of summary.py, which syncs the file and not its     *)
(* directory, everything else by write_json_atomic, which syncs both unless  *)
(* the directory cannot be opened.  A file here is whole or absent, as       *)
(* AtomicWrite shows of one write; this module is about the directories.     *)
EXTENDS Integers, Sequences, FiniteSets, SequencesExt

CONSTANT CaseFiles   \* the files a benchmark seals its cases in, as a sequence

ASSUME CaseFilesAssumption == CaseFiles \in Seq(Range(CaseFiles))

File(name, dir, syncs) == [name |-> name, dir |-> dir, syncs |-> syncs]

\* Bug: the table is written after the manifest that names it.
BenchmarkFilesTableLast ==
  [i \in DOMAIN CaseFiles |-> File(CaseFiles[i], "cases", TRUE)]
    \o <<File("benchmark.json", "run", TRUE), File("measurements.csv", "run", FALSE)>>

\* run_benchmark: case files in a directory of their own, the table, the manifest.
BenchmarkFiles ==
  [i \in DOMAIN CaseFiles |-> File(CaseFiles[i], "cases", TRUE)]
    \o <<File("measurements.csv", "run", FALSE), File("benchmark.json", "run", TRUE)>>

\* write_run_tables: four files in one directory.
RunTables ==
  <<File("measurements.jsonl", "run", FALSE), File("measurements.csv", "run", FALSE),
    File("summary.json", "run", TRUE), File("run.json", "run", TRUE)>>

VARIABLES
  plan,      \* the files this call writes, in this order
  next,      \* the file that comes next, and what is left to do for it
  entries,   \* the directory entries processes see: [dir, name]
  disk,      \* those that are on disk
  skipped,   \* a directory could not be opened, and was not synced
  outcome    \* running, returned, raised or dead

filesVars == <<plan, next, entries, disk, skipped, outcome>>

Entry(dir, name) == [dir |-> dir, name |-> name]
Subdirectory == Entry("run", "cases")
In(dir) == {e \in entries : e.dir = dir}

FilesInit ==
  /\ plan \in {BenchmarkFiles, RunTables}
  /\ next = [file |-> 1, to |-> "rename"]
  /\ entries = {} /\ disk = {}
  /\ skipped = FALSE /\ outcome = "running"

Writing(to) == outcome = "running" /\ next.file \in DOMAIN plan /\ next.to = to
Current == plan[next.file]
Done == [file |-> next.file + 1, to |-> "rename"]

\* The temporary file is complete and synced: it gets its name.  The directory
\* is made when its first file is.
Rename ==
  /\ Writing("rename")
  /\ entries' = entries \cup {Entry(Current.dir, Current.name)}
                  \cup (IF Current.dir = "cases" THEN {Subdirectory} ELSE {})
  /\ next' = IF Current.syncs THEN [next EXCEPT !.to = "sync"] ELSE Done
  /\ UNCHANGED <<plan, disk, skipped, outcome>>

SyncDirectory ==
  /\ Writing("sync")
  /\ \/ disk' = disk \cup In(Current.dir) /\ UNCHANGED skipped
     \/ skipped' = TRUE /\ UNCHANGED disk
  /\ next' = Done
  /\ UNCHANGED <<plan, entries, outcome>>

Return ==
  /\ outcome = "running" /\ next.file = Len(plan) + 1
  /\ outcome' = "returned"
  /\ UNCHANGED <<plan, next, entries, disk, skipped>>

\* A call that raises, or whose process is killed, leaves what it has written.
GiveUp ==
  /\ outcome = "running" /\ next.file \in DOMAIN plan
  /\ outcome' \in {"raised", "dead"}
  /\ UNCHANGED <<plan, next, entries, disk, skipped>>

\* The kernel writes entries back in whatever order it likes.
WriteBackEntry ==
  /\ \E e \in entries \ disk : disk' = disk \cup {e}
  /\ UNCHANGED <<plan, next, entries, skipped, outcome>>

\* What a power loss leaves: an entry counts when those above it are there.
LosePower ==
  /\ entries' = {e \in disk : e.dir = "cases" => Subdirectory \in disk}
  /\ disk' = entries'
  /\ outcome' = IF outcome = "running" THEN "dead" ELSE outcome
  /\ UNCHANGED <<plan, next, skipped>>

FilesNext ==
  \/ Rename \/ SyncDirectory \/ Return \/ GiveUp
  \/ WriteBackEntry \/ LosePower

FilesSpec == FilesInit /\ [][FilesNext]_filesVars

---------------------------------------------------------------------------
\* A run whose call has returned keeps every file it wrote through a power
\* loss, unless a directory could not be opened: the table, renamed without a
\* sync of its directory, and the entry of the case directory, which nothing
\* syncs for its own sake, are made durable by the manifest's sync of the same
\* directory, because the manifest comes last (summary.py:227-264, 274-298,
\* runner.py:596-621).
TableDurable ==
  outcome = "returned" /\ ~skipped =>
    \A i \in DOMAIN plan :
      /\ Entry(plan[i].dir, plan[i].name) \in entries
      /\ Entry(plan[i].dir, plan[i].name) \in disk
      /\ plan[i].dir = "cases" => Subdirectory \in disk
=============================================================================
