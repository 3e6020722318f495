---------------------------- MODULE ArtifactFile ----------------------------
(* What artifacts.py promises of an artifact: a file that holds one complete *)
(* value at every instant, the old one or the new one, and that a power loss *)
(* takes back to a value it held before, never to a torn one.  A directory   *)
(* that does not last takes its file with it.                                *)
CONSTANTS
  Values,     \* the values that can be written as JSON
  Absent      \* there is no file yet

VARIABLES
  content,    \* what a reader of the file finds
  stable,     \* what a power loss leaves of it
  lasting     \* the directory outlives a power loss

vars == <<content, stable, lasting>>

Init == content = Absent /\ stable = Absent /\ lasting \in BOOLEAN

Replace   == content' \in Values /\ UNCHANGED <<stable, lasting>>
Persist   == stable' = content /\ UNCHANGED <<content, lasting>>
Last      == lasting' /\ UNCHANGED <<content, stable>>
PowerLoss ==
  /\ content' = IF lasting THEN stable ELSE Absent
  /\ stable' = content' /\ UNCHANGED lasting

Next == Replace \/ Persist \/ Last \/ PowerLoss

Spec == Init /\ [][Next]_vars
=============================================================================
