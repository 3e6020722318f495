---------------------------- MODULE AtomicWrite -----------------------------
(* write_json_atomic of artifacts.py: calls that replace one artifact        *)
(* concurrently, in one process or in several.  A call serialises the value, *)
(* makes the directory, makes a temporary file, writes and syncs it, renames *)
(* it over the destination and syncs the directory, but not the directories  *)
(* above it.  Every system call may fail, a process may be killed anywhere,  *)
(* and a power loss kills all of them and takes the file system back to what *)
(* is on disk: the directory as it was last written back, and with it every  *)
(* file, when its own entry is not there; of a file that was not synced,     *)
(* anything.                                                                 *)
EXTENDS Naturals

CONSTANTS
  Writers,    \* calls of write_json_atomic on the same path
  Values,     \* the values that can be written as JSON
  Invalid,    \* a value json.dumps refuses (NaN, an infinity, an object)
  Absent,     \* there is no file yet
  Torn,       \* an incomplete file
  NoTemp      \* no temporary file

ASSUME ValuesAssumption ==
  /\ {Invalid, Absent, Torn} \cap Values = {}
  /\ Absent # Torn
  /\ NoTemp \notin [value : Values \cup {Absent, Torn}, synced : BOOLEAN]

VARIABLES
  dir,        \* the destination's directory: missing, made but with an entry
              \* above it that is not on disk, or kept, with all of them
  file,       \* the destination as processes see it, and its version
  disk,       \* the destination as the directory has it on disk
  temp,       \* per call: its temporary file
  call,       \* per call: where it is, the value it writes, and the
              \* directory as it found it
  version,    \* per call: the version of the destination it renamed, or 0
  replaced    \* how often the destination was replaced

writeVars == <<dir, file, disk, temp, call, version, replaced>>

Content == [value : Values \cup {Absent, Torn}, synced : BOOLEAN]
Directories == {"missing", "made", "kept"}
Steps == {"serialize", "mkdir", "create", "write", "sync", "chmod", "replace",
          "opendir", "syncdir", "returned", "acknowledged", "raised", "dead"}
Calls == [at : Steps, value : Values \cup {Invalid}, found : Directories]
CallEnded == {"returned", "acknowledged", "raised", "dead"}

NoFile == [value |-> Absent, synced |-> TRUE, version |-> 0]

WriteInit ==
  /\ dir \in Directories
  /\ file = NoFile
  /\ disk = file
  /\ temp = [w \in Writers |-> NoTemp]
  /\ call \in [Writers -> [at : {"serialize"}, value : Values \cup {Invalid}, found : {"missing"}]]
  /\ version = [w \in Writers |-> 0]
  /\ replaced = 0

CallAt(w, step) == call[w].at = step
CallTo(w, step) == call' = [call EXCEPT ![w] = [@ EXCEPT !.at = step]]
-----------------------------------------------------------------------------
\* Serialisation comes before anything is touched: a value it refuses raises.
Serialize(w) ==
  /\ CallAt(w, "serialize")
  /\ CallTo(w, IF call[w].value \in Values THEN "mkdir" ELSE "raised")
  /\ UNCHANGED <<dir, file, disk, temp, version, replaced>>

\* mkdir, with the directories above it: one that is there already is taken as
\* it is found.
MakeDirectory(w) ==
  /\ CallAt(w, "mkdir")
  /\ \/ /\ dir' = IF dir = "missing" THEN "made" ELSE dir
        /\ call' = [call EXCEPT ![w] = [@ EXCEPT !.at = "create", !.found = dir]]
     \/ CallTo(w, "raised") /\ UNCHANGED dir
  /\ UNCHANGED <<file, disk, temp, version, replaced>>

\* mkstemp: an empty file of a name of its own, in the destination's directory.
Create(w) ==
  /\ CallAt(w, "create")
  /\ \/ temp' = [temp EXCEPT ![w] = [value |-> Torn, synced |-> FALSE]] /\ CallTo(w, "write")
     \/ CallTo(w, "raised") /\ UNCHANGED temp
  /\ UNCHANGED <<dir, file, disk, version, replaced>>

\* Bug: the value is written over the destination itself.
WriteInPlace(w) ==
  /\ CallAt(w, "write")
  /\ file' = [file EXCEPT !.value = Torn, !.synced = FALSE]
  /\ CallTo(w, "sync")
  /\ UNCHANGED <<dir, disk, temp, version, replaced>>

Write(w) ==
  /\ CallAt(w, "write")
  /\ temp' = [temp EXCEPT ![w] = [value |-> call[w].value, synced |-> FALSE]]
  /\ CallTo(w, "sync")
  /\ UNCHANGED <<dir, file, disk, version, replaced>>

\* Bug: the temporary file is renamed before its data are on disk.
SyncNothing(w) ==
  /\ CallAt(w, "sync")
  /\ CallTo(w, "chmod")
  /\ UNCHANGED <<dir, file, disk, temp, version, replaced>>

Sync(w) ==
  /\ CallAt(w, "sync")
  /\ temp' = [temp EXCEPT ![w] = [value |-> @.value, synced |-> TRUE]]
  /\ CallTo(w, "chmod")
  /\ UNCHANGED <<dir, file, disk, version, replaced>>

Chmod(w) ==
  /\ CallAt(w, "chmod") /\ CallTo(w, "replace")
  /\ UNCHANGED <<dir, file, disk, temp, version, replaced>>

\* os.replace: the destination is the new file, the temporary name is gone.
Replace(w) ==
  /\ CallAt(w, "replace")
  /\ replaced' = replaced + 1
  /\ version' = [version EXCEPT ![w] = replaced + 1]
  /\ file' = [value |-> temp[w].value, synced |-> temp[w].synced, version |-> replaced + 1]
  /\ temp' = [temp EXCEPT ![w] = NoTemp]
  /\ CallTo(w, "opendir")
  /\ UNCHANGED <<dir, disk>>

\* A directory that cannot be opened is not synced, and the call returns.
OpenDir(w) ==
  /\ CallAt(w, "opendir")
  /\ CallTo(w, "syncdir") \/ CallTo(w, "returned")
  /\ UNCHANGED <<dir, file, disk, temp, version, replaced>>

\* Bug: the directory is closed without being synced.
SyncDirNothing(w) ==
  /\ CallAt(w, "syncdir") /\ CallTo(w, "acknowledged")
  /\ UNCHANGED <<dir, file, disk, temp, version, replaced>>

SyncDir(w) ==
  /\ CallAt(w, "syncdir")
  /\ disk' = file
  /\ CallTo(w, "acknowledged")
  /\ UNCHANGED <<dir, file, temp, version, replaced>>

\* Bug: a failed call leaves its temporary file.
FailLeavingTemp(w) ==
  /\ call[w].at \in {"write", "sync", "chmod", "replace", "opendir", "syncdir"}
  /\ CallTo(w, "raised")
  /\ UNCHANGED <<dir, file, disk, temp, version, replaced>>

\* A call that fails inside the try block removes its temporary file, if it
\* still has the name, and raises.  The rename, once done, stays done.  Removing
\* the temporary file is taken to succeed.
Fail(w) ==
  /\ call[w].at \in {"write", "sync", "chmod", "replace", "opendir", "syncdir"}
  /\ temp' = [temp EXCEPT ![w] = NoTemp]
  /\ CallTo(w, "raised")
  /\ UNCHANGED <<dir, file, disk, version, replaced>>
-----------------------------------------------------------------------------
(* The machine.                                                              *)

\* The process of a call is killed.
KillCall(w) ==
  /\ call[w].at \notin CallEnded /\ CallTo(w, "dead")
  /\ UNCHANGED <<dir, file, disk, temp, version, replaced>>

\* The kernel writes the directory back whenever it likes,
WriteBack ==
  /\ disk' = file
  /\ UNCHANGED <<dir, file, temp, call, version, replaced>>

\* and the entries above it.
WriteBackAbove ==
  /\ dir = "made" /\ dir' = "kept"
  /\ UNCHANGED <<file, disk, temp, call, version, replaced>>

\* What a power loss leaves of a file that is on disk.
Left(entry) ==
  IF entry.synced THEN {entry} ELSE {entry, [entry EXCEPT !.value = Torn]}

\* A directory that is not kept goes with all that is in it.  A call that has
\* not begun to write is one of a process that is started afterwards.
PowerLoss ==
  /\ \/ dir = "kept" /\ file' \in Left(disk) /\ UNCHANGED <<dir, temp>>
     \/ /\ dir # "kept"
        /\ dir' = "missing" /\ file' = NoFile /\ temp' = [w \in Writers |-> NoTemp]
  /\ disk' = file'
  /\ call' = [w \in Writers |->
                IF call[w].at \in CallEnded \cup {"serialize"} THEN call[w]
                ELSE [call[w] EXCEPT !.at = "dead"]]
  /\ UNCHANGED <<version, replaced>>

Step(w) ==
  \/ Serialize(w) \/ MakeDirectory(w) \/ Create(w) \/ Write(w) \/ Sync(w)
  \/ Chmod(w) \/ Replace(w) \/ OpenDir(w) \/ SyncDir(w) \/ Fail(w) \/ KillCall(w)

WriteNext == (\E w \in Writers : Step(w)) \/ WriteBack \/ WriteBackAbove \/ PowerLoss

WriteSpec == WriteInit /\ [][WriteNext]_writeVars
-----------------------------------------------------------------------------
WriteTypes ==
  /\ dir \in Directories
  /\ file \in [value : Values \cup {Absent, Torn}, synced : BOOLEAN, version : Nat]
  /\ disk \in [value : Values \cup {Absent, Torn}, synced : BOOLEAN, version : Nat]
  /\ temp \in [Writers -> Content \cup {NoTemp}]
  /\ call \in [Writers -> Calls]
  /\ version \in [Writers -> Nat]
  /\ replaced \in Nat

\* A reader finds a complete artifact or none, at every instant and after every
\* kill and power loss: what carries the destination's name is whole, and so is
\* what carries it on disk, with its data.
NeverTorn == file.value # Torn /\ disk.value # Torn /\ disk.synced

\* A call that found its directory kept, and has synced it, has made its value
\* durable: whatever has happened since, on disk is its version, with its value,
\* or one that replaced it.  Of a directory that a call has made, nothing syncs
\* the entries above it, and an acknowledged file may go with it.
AcknowledgedIsDurable ==
  \A w \in Writers : CallAt(w, "acknowledged") /\ call[w].found = "kept" =>
    /\ dir = "kept"
    /\ disk.version >= version[w]
    /\ disk.version = version[w] => disk.value = call[w].value

\* A call that returned or raised left no temporary file in the directory.
NoLitter ==
  \A w \in Writers : call[w].at \in CallEnded \ {"dead"} => temp[w] = NoTemp

\* The detailed protocol implements a file replaced as a whole.
File == INSTANCE ArtifactFile
          WITH content <- file.value, stable <- disk.value, lasting <- dir = "kept"

\* Every step replaces the whole value by one that was given to a call, makes it
\* stable or its directory lasting, falls back to the stable one or, with a
\* directory that does not last, to none, or changes nothing a reader can see.
ImplementsFile == File!Spec
=============================================================================
