--------------------------- MODULE Campaign_proofs ---------------------------
(* Campaigns of any number of slots, cases, processes and invocations: what   *)
(* is measured is measured alone, a manifest that says complete is one of a   *)
(* process that measured every case, and a sealed campaign is evidence.  The  *)
(* last section is about write_json_atomic, which writes all of it.           *)
EXTENDS Campaign, Decision, AtomicWrite, TLAPS, FiniteSetTheorems, WellFoundedInduction

\* Where a process is fixes what its fields may hold.
BenchPlaces ==
  \A p \in Procs :
    /\ bench[p].at # "unused" => bench[p].slot \in Slot /\ bench[p].under \in Settings
    /\ bench[p].at \in {"measure", "after", "seal", "hash"} => bench[p].case \in Case
    /\ bench[p].at = "hash" => sealed[bench[p].slot][bench[p].case] # None

\* And where a driver is.
DriverPlaces ==
  \A d \in Drivers :
    /\ driver[d].at \in {"idle", "plan", "freeze"} => driver[d].slot = 1
    /\ driver[d].at \in {"launch", "popen", "wait", "cases"} => driver[d].slot \in Slot
    /\ driver[d].at = "wait" => driver[d].child \in Procs
    /\ driver[d].at \in {"idle", "plan", "freeze", "launch", "popen", "wait", "seal"}
         => driver[d].read = <<>>
    /\ driver[d].at = "load" => Len(driver[d].read) = driver[d].slot - 1
    /\ driver[d].at = "cases" => Len(driver[d].read) = driver[d].slot
    /\ driver[d].at = "write" => Len(driver[d].read) = NumSlots

Typed == TypeOK /\ BenchPlaces /\ DriverPlaces

Places == Trying \cup Ended \cup {"unused", "check", "failing"}
Stops  == Idle \cup {"plan", "freeze", "launch", "popen", "wait", "seal", "load", "cases", "write"}

\* A process that is somewhere else now, and nothing else of any process.
Moved(p, place) ==
  /\ bench' \in [Procs -> Benches]
  /\ bench'[p].at = place /\ bench'[p].slot = bench[p].slot /\ bench'[p].under = bench[p].under
  /\ bench'[p].case = bench[p].case /\ bench'[p].records = bench[p].records
  /\ \A q \in Procs \ {p} : bench'[q] = bench[q]

\* Goto moves a process.
LEMMA GotoMoves ==
  ASSUME bench \in [Procs -> Benches], NEW p \in Procs, NEW place \in Places, Goto(p, place)
  PROVE  Moved(p, place)
<1>1. bench' = [bench EXCEPT ![p] = [bench[p] EXCEPT !.at = place]]
  BY DEF Goto
<1>2. [bench[p] EXCEPT !.at = place] \in Benches
  BY DEF Benches, Places
<1> QED
  BY <1>1, <1>2 DEF Moved, Benches

\* A driver that is somewhere else now, and nothing else of any driver.
Steered(d, place) ==
  /\ driver' \in [Drivers -> Stands]
  /\ driver'[d].at = place /\ driver'[d].slot = driver[d].slot /\ driver'[d].child = driver[d].child
  /\ driver'[d].under = driver[d].under /\ driver'[d].read = driver[d].read
  /\ \A e \in Drivers \ {d} : driver'[e] = driver[e]

\* Stand moves a driver.
LEMMA StandSteers ==
  ASSUME driver \in [Drivers -> Stands], NEW d \in Drivers, NEW place \in Stops, Stand(d, place)
  PROVE  Steered(d, place)
<1>1. driver' = [driver EXCEPT ![d] = [driver[d] EXCEPT !.at = place]]
  BY DEF Stand
<1>2. [driver[d] EXCEPT !.at = place] \in Stands
  BY DEF Stands, Stops
<1> QED
  BY <1>1, <1>2 DEF Steered, Stands

\* The initial states are typed.
LEMMA InitTyped == Init => Typed
<1> SUFFICES ASSUME Init PROVE Typed
  OBVIOUS
<1> USE CampaignAssumption DEF Init, Slot, Case
<1>1. FilesOK
  BY DEF FilesOK
<1>2. BenchOK
  BY DEF BenchOK, Benches, Trying, Ended
<1>3. DriverOK
  BY DEF DriverOK, Stands, Idle
<1>4. GhostsOK
  BY DEF GhostsOK
<1>5. BenchPlaces
  BY DEF BenchPlaces
<1>6. DriverPlaces
  BY DEF DriverPlaces
<1> QED
  BY <1>1, <1>2, <1>3, <1>4, <1>5, <1>6 DEF Typed, TypeOK

\* Nobody takes a sealed case away.
Kept == \A s \in Slot, c \in Case : sealed[s][c] # None => sealed'[s][c] # None

\* A process that moves to a place whose conditions it meets keeps the types.
LEMMA MovedTyped ==
  ASSUME BenchOK, BenchPlaces, NEW p \in Procs, NEW place \in Places, Moved(p, place), Kept,
         gpu' \subseteq Procs, bench[p].at # "unused",
         place \in {"measure", "after", "seal", "hash"} => bench[p].case \in Case,
         place = "hash" => sealed'[bench[p].slot][bench[p].case] # None
  PROVE  BenchOK' /\ BenchPlaces'
<1>1. BenchOK'
  BY DEF BenchOK, Moved
<1>2. BenchPlaces'
  BY DEF BenchOK, BenchPlaces, Moved, Kept
<1> QED
  BY <1>1, <1>2

\* A step of a benchmark process keeps the types.
LEMMA BenchTyped ==
  ASSUME Typed, NEW p \in Procs, BenchStep(p) \/ Raise(p) \/ Kill(p)
  PROVE  Typed'
<1> USE DEF Typed, TypeOK
<1> DEFINE Frame == DriverOK' /\ DriverPlaces'
<1>a. bench \in [Procs -> Benches] /\ gpu \subseteq Procs
  BY DEF BenchOK
<1>b. ASSUME UNCHANGED driver PROVE Frame
  BY <1>b DEF DriverOK, DriverPlaces
<1>c. ASSUME UNCHANGED files PROVE FilesOK' /\ Kept
  BY <1>c DEF files, FilesOK, Kept
<1>d. ASSUME UNCHANGED ghosts PROVE GhostsOK'
  BY <1>d DEF ghosts, GhostsOK
<1>e. /\ {"context", "refused", "runtime", "case", "failing", "measure", "after", "seal",
          "hash", "manifest", "done", "failed", "killed"} \subseteq Places
      /\ bench[p].at # "unused" => bench[p].slot \in Slot /\ bench[p].under \in Settings
  BY DEF Places, Trying, Ended, BenchPlaces
<1> HIDE DEF Frame
<1>1. CASE CheckFiles(p)
  <2>1. \E place \in {"context", "refused"} : Goto(p, place)
    BY <1>1 DEF CheckFiles
  <2>2. PICK place \in {"context", "refused"} : Moved(p, place)
    BY <2>1, <1>a, <1>e, GotoMoves
  <2>3. BenchOK' /\ BenchPlaces'
    BY <1>1, <2>2, <1>a, <1>c, <1>e, MovedTyped DEF CheckFiles, At
  <2> QED
    BY <1>1, <2>3, <1>b, <1>c, <1>d DEF CheckFiles, Frame
<1>2. CASE EnterGpu(p)
  <2>1. Moved(p, "runtime")
    BY <1>2, <1>a, <1>e, GotoMoves DEF EnterGpu
  <2>2. BenchOK' /\ BenchPlaces'
    BY <1>2, <2>1, <1>a, <1>c, <1>e, MovedTyped DEF EnterGpu, At
  <2> QED
    BY <1>2, <2>2, <1>b, <1>c, <1>d DEF EnterGpu, Frame
<1>3. CASE CheckRuntime(p)
  <2>1. PICK place \in {"case", "failing"} : Moved(p, place)
    BY <1>3, <1>a, <1>e, GotoMoves DEF CheckRuntime
  <2>2. BenchOK' /\ BenchPlaces'
    BY <1>3, <2>1, <1>a, <1>c, <1>e, MovedTyped DEF CheckRuntime, At
  <2> QED
    BY <1>3, <2>2, <1>b, <1>c, <1>d DEF CheckRuntime, Frame
<1>4. CASE SnapshotBefore(p)
  <2>1. PICK place \in {"measure", "failing"} : Moved(p, place)
    BY <1>4, <1>a, <1>e, GotoMoves DEF SnapshotBefore
  <2>2. bench[p].case \in Case
    BY <1>4, <1>a, CampaignAssumption DEF SnapshotBefore, Benches, Case
  <2>3. BenchOK' /\ BenchPlaces'
    BY <1>4, <2>1, <2>2, <1>a, <1>c, <1>e, MovedTyped DEF SnapshotBefore, At
  <2> QED
    BY <1>4, <2>3, <1>b, <1>c, <1>d DEF SnapshotBefore, Frame
<1>5. CASE Measure(p)
  <2>1. Moved(p, "after")
    BY <1>5, <1>a, <1>e, GotoMoves DEF Measure
  <2>2. bench[p].case \in Case
    BY <1>5 DEF Measure, At, BenchPlaces
  <2>3. BenchOK' /\ BenchPlaces'
    BY <1>5, <2>1, <2>2, <1>a, <1>c, <1>e, MovedTyped DEF Measure, At
  <2> QED
    BY <1>5, <2>3, <1>b, <1>c, <1>d DEF Measure, Frame
<1>6. CASE SnapshotAfter(p)
  <2>1. PICK place \in {"seal", "failing"} : Moved(p, place)
    BY <1>6, <1>a, <1>e, GotoMoves DEF SnapshotAfter
  <2>2. bench[p].case \in Case
    BY <1>6 DEF SnapshotAfter, At, BenchPlaces
  <2>3. BenchOK' /\ BenchPlaces'
    BY <1>6, <2>1, <2>2, <1>a, <1>c, <1>e, MovedTyped DEF SnapshotAfter, At
  <2>4. GhostsOK'
    BY <1>6, <2>2 DEF SnapshotAfter, GhostsOK
  <2> QED
    BY <1>6, <2>3, <2>4, <1>b, <1>c DEF SnapshotAfter, Frame
<1>7. CASE SealCase(p)
  <2>1. PICK place \in {"hash", "failing"} : Moved(p, place)
    BY <1>7, <1>a, <1>e, GotoMoves DEF SealCase
  <2>2. bench[p].case \in Case /\ bench[p].slot \in Slot
    BY <1>7 DEF SealCase, At, BenchPlaces
  <2>3. sealed \in [Slot -> [Case -> Procs \cup {None}]]
    BY DEF FilesOK
  <2>4. FilesOK'
    BY <1>7, <2>2, <2>3 DEF SealCase, FilesOK
  <2>5. sealed'[bench[p].slot][bench[p].case] = p
    BY <1>7, <2>2, <2>3 DEF SealCase
  <2>6. Kept
    BY <1>7, <2>2, <2>3, CampaignAssumption DEF SealCase, Kept
  <2>7. BenchOK' /\ BenchPlaces'
    BY <1>7, <2>1, <2>2, <2>5, <2>6, <1>a, <1>e, CampaignAssumption, MovedTyped DEF SealCase, At
  <2> QED
    BY <1>7, <2>4, <2>7, <1>b, <1>d DEF SealCase, Frame
<1>8. CASE Raise(p)
  <2>1. Moved(p, "failing")
    BY <1>8, <1>a, <1>e, GotoMoves DEF Raise
  <2>2. BenchOK' /\ BenchPlaces'
    BY <1>8, <2>1, <1>a, <1>c, <1>e, MovedTyped DEF Raise, Trying
  <2> QED
    BY <1>8, <2>2, <1>b, <1>c, <1>d DEF Raise, Frame
<1>9. CASE Kill(p)
  <2>1. Moved(p, "killed")
    BY <1>9, <1>a, <1>e, GotoMoves DEF Kill
  <2>2. BenchOK' /\ BenchPlaces'
    BY <1>9, <2>1, <1>a, <1>c, <1>e, MovedTyped DEF Kill, Leave
  <2> QED
    BY <1>9, <2>2, <1>b, <1>c, <1>d DEF Kill, Frame
<1>10. CASE HashCase(p)
  <2> DEFINE record == sealed[bench[p].slot][bench[p].case]
             after  == [bench[p] EXCEPT !.at = "case", !.case = bench[p].case + 1,
                                        !.records = Append(bench[p].records, record)]
  <2>1. bench' = [bench EXCEPT ![p] = after]
    BY <1>10 DEF HashCase
  <2>2. /\ bench[p] \in Benches /\ bench[p].slot \in Slot /\ bench[p].under \in Settings
        /\ bench[p].case \in Case /\ record # None
    BY <1>10, <1>a DEF HashCase, At, BenchPlaces
  <2>3. record \in Procs
    BY <2>2 DEF FilesOK
  <2>4. bench[p].case + 1 \in 1 .. NumCases + 1 /\ bench[p].case \in Nat
    BY <2>2, CampaignAssumption DEF Case
  <2>5. bench[p].records \in Seq(Procs)
    BY <2>2 DEF Benches
  <2> HIDE DEF record
  <2>6. /\ Append(bench[p].records, record) \in Seq(Procs)
        /\ Len(Append(bench[p].records, record)) = Len(bench[p].records) + 1
    BY <2>3, <2>5
  <2>7. after \in Benches
    BY <2>2, <2>4, <2>6 DEF Benches, Trying
  <2>8. Len(after.records) = after.case - 1
    BY <2>2, <2>4, <2>6 DEF BenchOK, Benches
  <2>9. after.at = "case" /\ after.slot = bench[p].slot /\ after.under = bench[p].under
    BY <2>2 DEF Benches
  <2> HIDE DEF after
  <2>10. /\ bench' \in [Procs -> Benches] /\ bench'[p] = after
         /\ \A q \in Procs \ {p} : bench'[q] = bench[q]
    BY <2>1, <2>7, <1>a
  <2>11. BenchOK'
    BY <1>10, <2>8, <2>10 DEF HashCase, BenchOK
  <2>12. BenchPlaces'
    BY <1>10, <2>2, <2>9, <2>10 DEF HashCase, files, BenchPlaces
  <2> QED
    BY <1>10, <2>11, <2>12, <1>b, <1>c, <1>d DEF HashCase, Frame
<1>11. CASE WriteTable(p)
  <2>1. Moved(p, "manifest")
    BY <1>11, <1>a, <1>e, GotoMoves DEF WriteTable
  <2>2. FilesOK' /\ Kept
    BY <1>11, <1>e DEF WriteTable, At, FilesOK, Kept
  <2>3. BenchOK' /\ BenchPlaces'
    BY <1>11, <2>1, <2>2, <1>a, <1>e, MovedTyped DEF WriteTable, At
  <2> QED
    BY <1>11, <2>2, <2>3, <1>b, <1>d DEF WriteTable, Frame
<1>f. ASSUME bench[p].at # "unused", NEW status \in {"complete", "failed"},
             manifest' = [manifest EXCEPT ![bench[p].slot] = Manifest(p, status)],
             UNCHANGED <<plan, logs, csv, sealed, campaign>>
      PROVE  FilesOK' /\ Kept
  <2>1. Manifest(p, status) \in Runs
    BY <1>f, <1>a, <1>e DEF Manifest, Runs, Benches
  <2> QED
    BY <1>f, <2>1, <1>e DEF FilesOK, Kept
<1>12. CASE WriteManifest(p)
  <2>1. PICK place \in {"done", "failing"} : Moved(p, place)
    BY <1>12, <1>a, <1>e, GotoMoves DEF WriteManifest
  <2>2. FilesOK' /\ Kept
    BY <1>12, <1>f DEF WriteManifest, At
  <2>3. BenchOK' /\ BenchPlaces'
    BY <1>12, <2>1, <2>2, <1>a, <1>e, MovedTyped DEF WriteManifest, At, Leave
  <2>4. GhostsOK'
    BY <1>12 DEF WriteManifest, GhostsOK
  <2> QED
    BY <1>12, <2>2, <2>3, <2>4, <1>b DEF WriteManifest, Frame
<1>13. CASE Handle(p)
  <2>1. Moved(p, "failed")
    BY <1>13, <1>a, <1>e, GotoMoves DEF Handle
  <2>2. FilesOK' /\ Kept
    BY <1>13, <1>c, <1>f DEF Handle, At, files
  <2>3. BenchOK' /\ BenchPlaces'
    BY <1>13, <2>1, <2>2, <1>a, <1>e, MovedTyped DEF Handle, At, Leave
  <2> QED
    BY <1>13, <2>2, <2>3, <1>b, <1>d DEF Handle, Frame
<1> QED
  BY <1>1, <1>2, <1>3, <1>4, <1>5, <1>6, <1>7, <1>8, <1>9, <1>10, <1>11, <1>12, <1>13 DEF BenchStep

\* A driver that moves to a place whose conditions it meets keeps the types.
LEMMA SteeredTyped ==
  ASSUME DriverOK, DriverPlaces, NEW d \in Drivers, NEW place \in Stops, Steered(d, place),
         place \in {"idle", "plan", "freeze"} => driver[d].slot = 1,
         place \in {"launch", "popen"} => driver[d].slot \in Slot,
         place \in {"idle", "plan", "freeze", "launch", "popen", "seal"} => driver[d].read = <<>>,
         place \notin {"wait", "load", "cases"},
         place = "write" => Len(driver[d].read) = NumSlots
  PROVE  DriverOK' /\ DriverPlaces'
BY DEF DriverOK, DriverPlaces, Steered

\* A started process keeps the types.
LEMMA LaunchTyped ==
  ASSUME BenchOK, BenchPlaces, NEW p \in Procs, NEW s \in Slot, NEW under \in Settings,
         Launch(p, s, under), UNCHANGED <<sealed, gpu>>
  PROVE  BenchOK' /\ BenchPlaces'
<1> DEFINE after == [bench[p] EXCEPT !.at = "check", !.slot = s, !.under = under]
<1>1. bench' = [bench EXCEPT ![p] = after]
  BY DEF Launch
<1>2. bench[p] \in Benches
  BY DEF BenchOK
<1>3. /\ after \in Benches /\ after.at = "check" /\ after.slot = s /\ after.under = under
      /\ after.case = bench[p].case /\ after.records = bench[p].records
  BY <1>2 DEF Benches
<1> HIDE DEF after
<1>4. /\ bench' \in [Procs -> Benches] /\ bench'[p] = after
      /\ \A q \in Procs \ {p} : bench'[q] = bench[q]
  BY <1>1, <1>3 DEF BenchOK
<1>5. BenchOK'
  BY <1>3, <1>4 DEF BenchOK
<1>6. BenchPlaces'
  BY <1>3, <1>4 DEF BenchPlaces
<1> QED
  BY <1>5, <1>6

\* A step of a driver keeps the types.
LEMMA DriverTyped ==
  ASSUME Typed, NEW d \in Drivers, Start(d) \/ DriverStep(d) \/ Interrupt(d) \/ Die(d)
  PROVE  Typed'
<1> USE DEF Typed, TypeOK
<1> DEFINE Frame == BenchOK' /\ BenchPlaces'
<1>a. driver \in [Drivers -> Stands] /\ driver[d] \in Stands
  BY DEF DriverOK
<1>b. ASSUME UNCHANGED <<bench, gpu, sealed>> PROVE Frame
  BY <1>b DEF BenchOK, BenchPlaces
<1>c. ASSUME UNCHANGED files PROVE FilesOK'
  BY <1>c DEF files, FilesOK
<1>d. ASSUME UNCHANGED ghosts PROVE GhostsOK'
  BY <1>d DEF ghosts, GhostsOK
<1>e. {"plan", "seal", "freeze", "stopped", "launch", "popen", "write", "sealed"} \subseteq Stops
  BY DEF Stops, Idle
<1>f. 1 \in Slot /\ NumSlots \in Nat
  BY CampaignAssumption DEF Slot
<1>g. /\ 1 \in 1 .. NumSlots + 1 /\ plan \in Settings \cup {None}
      /\ \A n \in Slot : n + 1 \in 1 .. NumSlots + 1
  BY <1>f DEF Slot, FilesOK
<1>h. /\ {"launch", "seal", "load"} \subseteq
           Idle \cup {"plan", "freeze", "launch", "popen", "wait", "seal", "load", "cases", "write"}
      /\ \A n \in Slot : (IF n < NumSlots THEN "launch" ELSE "seal") \in {"launch", "seal"}
  OBVIOUS
<1> HIDE DEF Frame
<1>1. CASE Start(d)
  <2>1. PICK place \in {"plan", "seal"} : Steered(d, place)
    BY <1>1, <1>a, <1>e, StandSteers DEF Start
  <2>2. DriverOK' /\ DriverPlaces'
    BY <1>1, <2>1, <1>e, SteeredTyped DEF Start, Is, DriverPlaces
  <2> QED
    BY <1>1, <2>2, <1>b, <1>c, <1>d DEF Start, Frame, files
<1>2. CASE CheckPlan(d)
  <2>1. PICK place \in {"freeze", "stopped"} : Steered(d, place)
    BY <1>2, <1>a, <1>e, StandSteers DEF CheckPlan
  <2>2. DriverOK' /\ DriverPlaces'
    BY <1>2, <2>1, <1>e, SteeredTyped DEF CheckPlan, Is, DriverPlaces
  <2> QED
    BY <1>2, <2>2, <1>b, <1>c, <1>d DEF CheckPlan, Frame, files
<1>3. CASE Freeze(d)
  <2>1. Steered(d, "launch")
    BY <1>3, <1>a, <1>e, StandSteers DEF Freeze
  <2>2. DriverOK' /\ DriverPlaces'
    BY <1>3, <2>1, <1>e, <1>f, SteeredTyped DEF Freeze, Is, DriverPlaces
  <2>3. FilesOK'
    BY <1>3 DEF Freeze, FilesOK
  <2> QED
    BY <1>3, <2>2, <2>3, <1>b, <1>d DEF Freeze, Frame
<1>4. CASE CheckSlot(d)
  <2>1. PICK place \in {"popen", "stopped"} : Steered(d, place)
    BY <1>4, <1>a, <1>e, StandSteers DEF CheckSlot
  <2>2. DriverOK' /\ DriverPlaces'
    BY <1>4, <2>1, <1>e, SteeredTyped DEF CheckSlot, Is, DriverPlaces
  <2> QED
    BY <1>4, <2>2, <1>b, <1>c, <1>d DEF CheckSlot, Frame, files
<1>5. CASE LaunchSlot(d)
  <2>1. PICK p \in Procs, under \in Settings :
          /\ Launch(p, driver[d].slot, under)
          /\ driver' = [driver EXCEPT ![d].at = "wait", ![d].child = p]
    BY <1>5 DEF LaunchSlot
  <2>2. driver[d].slot \in Slot /\ driver[d].read = <<>>
    BY <1>5 DEF LaunchSlot, Is, DriverPlaces
  <2>3. Frame
    BY <1>5, <2>1, <2>2, LaunchTyped DEF LaunchSlot, Frame
  <2> DEFINE after == [driver[d] EXCEPT !.at = "wait", !.child = p]
  <2>4. driver' = [driver EXCEPT ![d] = after]
    BY <2>1
  <2>5. /\ after \in Stands /\ after.at = "wait" /\ after.child = p
        /\ after.slot = driver[d].slot /\ after.read = driver[d].read
    BY <1>a DEF Stands
  <2> HIDE DEF after
  <2>6. DriverOK' /\ DriverPlaces'
    BY <2>2, <2>4, <2>5, <1>a DEF DriverOK, DriverPlaces
  <2>7. FilesOK'
    BY <1>5, <2>2 DEF LaunchSlot, FilesOK
  <2> QED
    BY <1>5, <2>3, <2>6, <2>7, <1>d DEF LaunchSlot, Frame
<1>6. CASE ChildEnded(d)
  <2>1. driver[d].slot \in Slot /\ driver[d].read = <<>>
    BY <1>6 DEF ChildEnded, Is, DriverPlaces
  <2>2. DriverOK' /\ DriverPlaces'
    <3>1. CASE Succeeded(d)
      <4> DEFINE place == IF driver[d].slot < NumSlots THEN "launch" ELSE "seal"
                 after == [driver[d] EXCEPT !.slot = driver[d].slot + 1, !.at = place]
      <4>1. driver' = [driver EXCEPT ![d] = after]
        BY <1>6, <3>1 DEF ChildEnded
      <4>2. /\ after \in Stands /\ after.at = place /\ after.slot = driver[d].slot + 1
            /\ after.read = <<>>
        BY <2>1, <1>a, <1>g, <1>h DEF Stands
      <4> HIDE DEF after
      <4>3. place \in {"launch", "seal"} /\ (place = "launch" => driver[d].slot + 1 \in Slot)
        BY <2>1, <1>f DEF Slot
      <4> HIDE DEF place
      <4>4. /\ driver' \in [Drivers -> Stands] /\ driver'[d] = after
            /\ \A e \in Drivers \ {d} : driver'[e] = driver[e]
        BY <4>1, <4>2, <1>a
      <4>5. driver'[d].at \in {"launch", "seal"} /\ driver'[d].read = <<>>
        BY <4>2, <4>3, <4>4
      <4>6. driver'[d].at = "launch" => driver'[d].slot \in Slot
        BY <4>2, <4>3, <4>4
      <4> QED
        BY <4>4, <4>5, <4>6 DEF DriverOK, DriverPlaces
    <3>2. CASE ~Succeeded(d)
      <4>1. Steered(d, "stopped")
        BY <1>6, <3>2, <1>a, <1>e, StandSteers DEF ChildEnded
      <4> QED
        BY <4>1, <1>e, SteeredTyped
    <3> QED
      BY <3>1, <3>2
  <2> QED
    BY <1>6, <2>2, <1>b, <1>c, <1>d DEF ChildEnded, Frame, files
<1>7. CASE Interrupt(d)
  <2> DEFINE p == driver[d].child
  <2>1. p \in Procs
    BY <1>7 DEF Interrupt, Is, DriverPlaces
  <2>2. Steered(d, "stopped")
    BY <1>7, <1>a, <1>e, StandSteers DEF Interrupt
  <2>3. DriverOK' /\ DriverPlaces'
    BY <2>2, <1>e, SteeredTyped
  <2>4. \/ bench[p].at # "unused" /\ (Goto(p, "failing") \/ Goto(p, "refused"))
        \/ UNCHANGED bench
    BY <1>7 DEF Interrupt, At, Trying
  <2> HIDE DEF p
  <2>5. Frame
    <3>1. CASE UNCHANGED bench
      BY <1>7, <3>1, <1>b DEF Interrupt, files
    <3>2. ASSUME NEW place \in {"failing", "refused"}, Goto(p, place), bench[p].at # "unused"
          PROVE  Frame
      <4>1. place \in Places /\ Moved(p, place)
        BY <2>1, <3>2, GotoMoves DEF BenchOK, Places, Ended
      <4> QED
        BY <1>7, <2>1, <3>2, <4>1, MovedTyped DEF Interrupt, files, Kept, BenchOK, Frame
    <3> QED
      BY <2>4, <3>1, <3>2
  <2> QED
    BY <1>7, <2>3, <2>5, <1>c, <1>d DEF Interrupt, Frame
<1>8. CASE Die(d)
  <2>1. Steered(d, "stopped")
    BY <1>8, <1>a, <1>e, StandSteers DEF Die
  <2>2. DriverOK' /\ DriverPlaces'
    BY <2>1, <1>e, SteeredTyped
  <2> QED
    BY <1>8, <2>2, <1>b, <1>c, <1>d DEF Die, Frame, files
<1>9. CASE SealStart(d)
  <2> DEFINE after == [driver[d] EXCEPT !.at = "load", !.slot = 1, !.under = plan]
  <2>1. driver' = [driver EXCEPT ![d] = after]
    BY <1>9 DEF SealStart
  <2>2. driver[d].read = <<>>
    BY <1>9 DEF SealStart, Is, DriverPlaces
  <2>3. /\ after \in Stands /\ after.at = "load" /\ after.slot = 1
        /\ after.read = driver[d].read
    BY <1>a, <1>g, <1>h DEF Stands
  <2> HIDE DEF after
  <2>4. DriverOK' /\ DriverPlaces'
    BY <2>1, <2>2, <2>3, <1>a DEF DriverOK, DriverPlaces
  <2> QED
    BY <1>9, <2>4, <1>b, <1>c, <1>d DEF SealStart, Frame, files
<1>10. CASE SealLoad(d)
  <2> DEFINE s == driver[d].slot
  <2>1. s \in Slot /\ Len(driver[d].read) = s - 1 /\ driver[d].read \in Seq(Runs)
    BY <1>10, <1>a DEF SealLoad, Is, DriverPlaces, Stands, Slot
  <2>2. DriverOK' /\ DriverPlaces'
    <3>1. CASE Valid(d, s)
      <4> DEFINE run   == manifest[s]
                 after == [driver[d] EXCEPT !.at = "cases", !.read = Append(driver[d].read, run)]
      <4>1. driver' = [driver EXCEPT ![d] = after]
        BY <1>10, <3>1 DEF SealLoad
      <4>2. run \in Runs
        BY <3>1, <2>1 DEF Valid, FilesOK
      <4> HIDE DEF run
      <4>3. /\ Append(driver[d].read, run) \in Seq(Runs)
            /\ Len(Append(driver[d].read, run)) = Len(driver[d].read) + 1
        BY <2>1, <4>2
      <4>4. /\ after \in Stands /\ after.at = "cases" /\ after.slot = s
            /\ Len(after.read) = Len(driver[d].read) + 1
        BY <1>a, <4>3 DEF Stands
      <4> HIDE DEF after
      <4>5. /\ driver' \in [Drivers -> Stands] /\ driver'[d] = after
            /\ \A e \in Drivers \ {d} : driver'[e] = driver[e]
        BY <4>1, <4>4, <1>a
      <4>6. Len(after.read) = s
        BY <2>1, <4>4 DEF Slot
      <4> HIDE DEF s
      <4> QED
        BY <2>1, <4>4, <4>5, <4>6 DEF DriverOK, DriverPlaces
    <3>2. CASE ~Valid(d, s)
      <4>1. Steered(d, "stopped")
        BY <1>10, <3>2, <1>a, <1>e, StandSteers DEF SealLoad
      <4> QED
        BY <4>1, <1>e, SteeredTyped
    <3> QED
      BY <3>1, <3>2
  <2> QED
    BY <1>10, <2>2, <1>b, <1>c, <1>d DEF SealLoad, Frame, files
<1>11. CASE SealCases(d)
  <2>1. driver[d].slot \in Slot /\ Len(driver[d].read) = driver[d].slot
    BY <1>11 DEF SealCases, Is, DriverPlaces
  <2>2. DriverOK' /\ DriverPlaces'
    <3>1. CASE CasesMatch(driver[d].read[driver[d].slot])
      <4> DEFINE after == [driver[d] EXCEPT !.at = "load", !.slot = driver[d].slot + 1]
      <4>1. driver' = [driver EXCEPT ![d] = after]
        BY <1>11, <3>1 DEF SealCases
      <4>2. /\ after \in Stands /\ after.at = "load" /\ after.slot = driver[d].slot + 1
            /\ after.read = driver[d].read
        BY <2>1, <1>a, <1>g, <1>h DEF Stands
      <4> HIDE DEF after
      <4>3. Len(after.read) = after.slot - 1
        BY <2>1, <4>2 DEF Slot
      <4>4. /\ driver' \in [Drivers -> Stands] /\ driver'[d] = after
            /\ \A e \in Drivers \ {d} : driver'[e] = driver[e]
        BY <4>1, <4>2, <1>a
      <4> QED
        BY <4>2, <4>3, <4>4 DEF DriverOK, DriverPlaces
    <3>2. CASE ~CasesMatch(driver[d].read[driver[d].slot])
      <4>1. Steered(d, "stopped")
        BY <1>11, <3>2, <1>a, <1>e, StandSteers DEF SealCases
      <4> QED
        BY <4>1, <1>e, SteeredTyped
    <3> QED
      BY <3>1, <3>2
  <2> QED
    BY <1>11, <2>2, <1>b, <1>c, <1>d DEF SealCases, Frame, files
<1>12. CASE SealCheck(d)
  <2>1. PICK place \in {"write", "stopped"} : Steered(d, place)
    BY <1>12, <1>a, <1>e, StandSteers DEF SealCheck
  <2>2. Len(driver[d].read) = NumSlots
    BY <1>12, <1>a, <1>f DEF SealCheck, Is, DriverPlaces, Stands
  <2>3. DriverOK' /\ DriverPlaces'
    BY <2>1, <2>2, <1>e, SteeredTyped
  <2> QED
    BY <1>12, <2>3, <1>b, <1>c, <1>d DEF SealCheck, Frame, files
<1>13. CASE SealWrite(d)
  <2>1. Steered(d, "sealed")
    BY <1>13, <1>a, <1>e, StandSteers DEF SealWrite
  <2>2. DriverOK' /\ DriverPlaces'
    BY <2>1, <1>e, SteeredTyped
  <2>3. driver[d].read \in Seq(Runs) /\ Len(driver[d].read) = NumSlots
    BY <1>13, <1>a DEF SealWrite, Is, DriverPlaces, Stands
  <2>4. driver[d].read \in [Slot -> Runs]
    BY <2>3 DEF Slot
  <2>5. FilesOK'
    BY <1>13, <2>4 DEF SealWrite, FilesOK
  <2> QED
    BY <1>13, <2>2, <2>5, <1>b, <1>d DEF SealWrite, Frame
<1> QED
  BY <1>1, <1>2, <1>3, <1>4, <1>5, <1>6, <1>7, <1>8, <1>9, <1>10, <1>11, <1>12, <1>13
     DEF DriverStep

\* Every step keeps the types.
LEMMA NextTyped == Typed /\ [Next]_vars => Typed'
<1> SUFFICES ASSUME Typed, [Next]_vars PROVE Typed'
  OBVIOUS
<1>1. CASE LaunchByHand
  <2>1. PICK p \in Procs, s \in Slot, under \in Settings : Launch(p, s, under)
    BY <1>1, CampaignAssumption DEF LaunchByHand
  <2>2. BenchOK' /\ BenchPlaces'
    BY <1>1, <2>1, LaunchTyped DEF LaunchByHand, files, Typed, TypeOK
  <2> QED
    BY <1>1, <2>2 DEF LaunchByHand, files, ghosts, Typed, TypeOK, FilesOK, DriverOK, GhostsOK,
                      DriverPlaces
<1>2. CASE UNCHANGED vars
  BY <1>2 DEF vars, files, ghosts, Typed, TypeOK, FilesOK, BenchOK, DriverOK, GhostsOK,
              BenchPlaces, DriverPlaces
<1> QED
  BY <1>1, <1>2, BenchTyped, DriverTyped DEF Next
-----------------------------------------------------------------------------
(* What a step of a process does to its place.                               *)

\* The places a step takes a process from and to.
Path(p, from, to) ==
  /\ bench[p].at = from /\ bench'[p].at \in to
  /\ bench'[p].case = bench[p].case /\ bench'[p].slot = bench[p].slot
  /\ \A q \in Procs \ {p} : bench'[q] = bench[q]

\* Two disjuncts of a step are one path.
LEMMA GotoPath ==
  ASSUME bench \in [Procs -> Benches], NEW p \in Procs, NEW from, At(p, from),
         NEW to \in SUBSET Places, \E place \in to : Goto(p, place)
  PROVE  Path(p, from, to)
BY GotoMoves DEF Path, Moved, At

\* Every step of a process but HashCase goes a path.
LEMMA Paths ==
  ASSUME Typed, NEW p \in Procs
  PROVE  /\ CheckFiles(p) => Path(p, "check", {"context", "refused"})
         /\ EnterGpu(p) => Path(p, "context", {"runtime"})
         /\ CheckRuntime(p) => Path(p, "runtime", IF Others(p) = {} THEN {"case"} ELSE {"failing"})
         /\ SnapshotBefore(p) => Path(p, "case", IF Others(p) = {} THEN {"measure"} ELSE {"failing"})
         /\ Measure(p) => Path(p, "measure", {"after"})
         /\ SnapshotAfter(p) => Path(p, "after", IF Others(p) = {} THEN {"seal"} ELSE {"failing"})
         /\ SealCase(p) => Path(p, "seal", {"hash", "failing"})
         /\ WriteTable(p) => Path(p, "case", {"manifest"})
         /\ WriteManifest(p) => Path(p, "manifest", {"done", "failing"})
         /\ Raise(p) => Path(p, bench[p].at, {"failing"})
         /\ Handle(p) => Path(p, "failing", {"failed"})
         /\ Kill(p) => Path(p, bench[p].at, {"killed"})
<1>a. bench \in [Procs -> Benches]
  BY DEF Typed, TypeOK, BenchOK
<1>b. {"context", "refused", "runtime", "case", "failing", "measure", "after", "seal",
       "hash", "manifest", "done", "failed", "killed"} \subseteq Places
  BY DEF Places, Trying, Ended
<1>1. CheckFiles(p) => Path(p, "check", {"context", "refused"})
  BY <1>a, <1>b, GotoPath DEF CheckFiles
<1>2. EnterGpu(p) => Path(p, "context", {"runtime"})
  BY <1>a, <1>b, GotoPath DEF EnterGpu
<1>3. CheckRuntime(p) => Path(p, "runtime", IF Others(p) = {} THEN {"case"} ELSE {"failing"})
  BY <1>a, <1>b, GotoPath DEF CheckRuntime
<1>4. SnapshotBefore(p) => Path(p, "case", IF Others(p) = {} THEN {"measure"} ELSE {"failing"})
  BY <1>a, <1>b, GotoPath DEF SnapshotBefore
<1>5. Measure(p) => Path(p, "measure", {"after"})
  BY <1>a, <1>b, GotoPath DEF Measure
<1>6. SnapshotAfter(p) => Path(p, "after", IF Others(p) = {} THEN {"seal"} ELSE {"failing"})
  BY <1>a, <1>b, GotoPath DEF SnapshotAfter
<1>7. SealCase(p) => Path(p, "seal", {"hash", "failing"})
  BY <1>a, <1>b, GotoPath DEF SealCase
<1>8. WriteTable(p) => Path(p, "case", {"manifest"})
  BY <1>a, <1>b, GotoPath DEF WriteTable
<1>9. WriteManifest(p) => Path(p, "manifest", {"done", "failing"})
  BY <1>a, <1>b, GotoPath DEF WriteManifest
<1>10. Raise(p) => Path(p, bench[p].at, {"failing"})
  BY <1>a, <1>b, GotoPath DEF Raise, At
<1>11. Handle(p) => Path(p, "failing", {"failed"})
  BY <1>a, <1>b, GotoPath DEF Handle
<1>12. Kill(p) => Path(p, bench[p].at, {"killed"})
  BY <1>a, <1>b, GotoPath DEF Kill, At
<1> QED
  BY <1>1, <1>2, <1>3, <1>4, <1>5, <1>6, <1>7, <1>8, <1>9, <1>10, <1>11, <1>12

\* HashCase goes on to the next case.
LEMMA HashPath ==
  ASSUME Typed, NEW p \in Procs, HashCase(p)
  PROVE  /\ bench[p].at = "hash" /\ bench'[p].at = "case" /\ bench'[p].case = bench[p].case + 1
         /\ bench'[p].slot = bench[p].slot
         /\ \A q \in Procs \ {p} : bench'[q] = bench[q]
BY DEF HashCase, At, Typed, TypeOK, BenchOK, Benches

\* A launch takes an unused process to its check.
LEMMA LaunchPath ==
  ASSUME Typed, NEW p \in Procs, NEW s, NEW under, Launch(p, s, under)
  PROVE  /\ bench[p].at = "unused" /\ bench'[p].at = "check" /\ bench'[p].case = bench[p].case
         /\ \A q \in Procs \ {p} : bench'[q] = bench[q]
BY DEF Launch, At, Typed, TypeOK, BenchOK, Benches

\* An interrupt takes the child out of the try block, or out of its check.
LEMMA InterruptPath ==
  ASSUME Typed, NEW d \in Drivers, Interrupt(d), NEW p, p = driver[d].child
  PROVE  /\ p \in Procs
         /\ \/ Path(p, bench[p].at, {"failing"}) /\ bench[p].at \in Trying
            \/ Path(p, "check", {"refused"})
            \/ UNCHANGED bench
<1>1. p \in Procs /\ bench \in [Procs -> Benches]
  BY DEF Interrupt, Is, Typed, TypeOK, BenchOK, DriverPlaces
<1>2. {"failing", "refused"} \subseteq Places
  BY DEF Places, Ended
<1> QED
  BY <1>1, <1>2, GotoPath DEF Interrupt, At

(* Nobody else measures.                                                     *)

\* Whoever is past its first look at the GPU has a context on it, and whoever is
\* on the GPU while another one measures will see that one, or is failing.
GpuInv ==
  /\ \A p \in Procs : bench[p].at \in Trying \ {"context"} => p \in gpu
  /\ \A p, q \in Procs :
       p # q /\ bench[p].at \in {"measure", "after"} /\ q \in gpu =>
         bench[q].at \in {"runtime", "failing"}

\* A step of a process keeps it.
LEMMA BenchGpu ==
  ASSUME Typed, GpuInv, NEW p \in Procs, BenchStep(p) \/ Raise(p) \/ Kill(p)
  PROVE  GpuInv'
<1>a. ASSUME bench[p].at \in {"case", "measure", "after", "seal", "hash", "manifest"}
      PROVE  p \in gpu /\ \A q \in Procs \ {p} : bench[q].at \notin {"measure", "after"}
  BY <1>a DEF GpuInv, Trying
<1> USE Paths DEF Path, GpuInv, Trying
<1>1. CASE CheckFiles(p)
  BY <1>1 DEF CheckFiles
<1>2. CASE EnterGpu(p)
  BY <1>2 DEF EnterGpu
<1>3. CASE CheckRuntime(p)
  BY <1>3 DEF CheckRuntime, Others
<1>4. CASE SnapshotBefore(p)
  BY <1>4 DEF SnapshotBefore, Others
<1>5. CASE Measure(p)
  BY <1>5 DEF Measure
<1>6. CASE SnapshotAfter(p)
  BY <1>6 DEF SnapshotAfter, Others
<1>7. CASE SealCase(p)
  <2>1. bench[p].at = "seal" /\ bench'[p].at \in {"hash", "failing"} /\ UNCHANGED gpu
    BY <1>7 DEF SealCase
  <2>2. \A q \in Procs \ {p} : bench'[q] = bench[q]
    BY <1>7
  <2> QED
    BY <2>1, <2>2, <1>a
<1>8. CASE HashCase(p)
  <2>1. bench[p].at = "hash" /\ bench'[p].at = "case" /\ UNCHANGED gpu
    BY <1>8, HashPath DEF HashCase
  <2>2. \A q \in Procs \ {p} : bench'[q] = bench[q]
    BY <1>8, HashPath
  <2> QED
    BY <2>1, <2>2, <1>a
<1>9. CASE WriteTable(p)
  BY <1>9 DEF WriteTable
<1>10. CASE WriteManifest(p)
  <2>1. /\ bench[p].at = "manifest" /\ bench'[p].at \in {"done", "failing"}
        /\ gpu' \subseteq gpu /\ gpu \subseteq gpu' \cup {p}
    BY <1>10 DEF WriteManifest, Leave
  <2>2. \A q \in Procs \ {p} : bench'[q] = bench[q]
    BY <1>10
  <2> QED
    BY <2>1, <2>2, <1>a
<1>11. CASE Raise(p)
  BY <1>11 DEF Raise
<1>12. CASE Handle(p)
  BY <1>12 DEF Handle, Leave
<1>13. CASE Kill(p)
  BY <1>13 DEF Kill, Leave
<1> QED
  BY <1>1, <1>2, <1>3, <1>4, <1>5, <1>6, <1>7, <1>8, <1>9, <1>10, <1>11, <1>12, <1>13
     DEF BenchStep

\* Every step keeps it.
LEMMA NextGpu == Typed /\ GpuInv /\ [Next]_vars => GpuInv'
<1> SUFFICES ASSUME Typed, GpuInv, [Next]_vars PROVE GpuInv'
  OBVIOUS
<1>1. ASSUME NEW p \in Procs, NEW s, NEW under, Launch(p, s, under), UNCHANGED gpu
      PROVE  GpuInv'
  BY <1>1, LaunchPath DEF GpuInv, Trying
<1>2. CASE UNCHANGED <<bench, gpu>>
  BY <1>2 DEF GpuInv
<1>3. ASSUME NEW d \in Drivers, DriverStep(d) \/ Start(d) \/ Die(d) PROVE GpuInv'
  <2>1. CASE LaunchSlot(d)
    BY <2>1, <1>1 DEF LaunchSlot
  <2>2. CASE Start(d) \/ Die(d) \/ (DriverStep(d) /\ ~LaunchSlot(d))
    <3>1. UNCHANGED <<bench, gpu>>
      BY <2>2 DEF DriverStep, Start, Die, CheckPlan, Freeze, CheckSlot, ChildEnded,
         SealStart, SealLoad, SealCases, SealCheck, SealWrite
    <3> QED
      BY <3>1, <1>2
  <2> QED
    BY <1>3, <2>1, <2>2
<1>4. ASSUME NEW d \in Drivers, Interrupt(d) PROVE GpuInv'
  <2> DEFINE p == driver[d].child
  <2>1. UNCHANGED gpu
    BY <1>4 DEF Interrupt
  <2>2. /\ p \in Procs
        /\ \/ Path(p, bench[p].at, {"failing"}) /\ bench[p].at \in Trying
           \/ Path(p, "check", {"refused"})
           \/ UNCHANGED bench
    BY <1>4, InterruptPath
  <2> HIDE DEF p
  <2> QED
    BY <1>2, <2>1, <2>2 DEF Path, GpuInv, Trying
<1>5. CASE LaunchByHand
  BY <1>1, <1>5, CampaignAssumption DEF LaunchByHand
<1>6. CASE UNCHANGED vars
  BY <1>2, <1>6 DEF vars
<1> QED
  BY <1>3, <1>4, <1>5, <1>6, BenchGpu DEF Next

(* A complete manifest is one of a process that measured every case.         *)

\* How far a process is says which cases it measured.
CountInv ==
  \A p \in Procs :
    /\ bench[p].at \in {"unused", "check", "context", "runtime"} => bench[p].case = 1
    /\ bench[p].at \in {"case", "measure", "after"} => 1 .. bench[p].case - 1 \subseteq measured[p]
    /\ bench[p].at \in {"seal", "hash"} => 1 .. bench[p].case \subseteq measured[p]
    /\ bench[p].at = "manifest" => measured[p] = Case

\* What was measured stays measured.
Grows == \A p \in Procs : measured[p] \subseteq measured'[p]

\* A process whose path needs no more measurements keeps the counts.
LEMMA PathCounts ==
  ASSUME Typed, CountInv, NEW p \in Procs, NEW from, NEW to, Path(p, from, to), UNCHANGED measured,
         \/ to \subseteq {"failing", "failed", "killed", "refused", "done"}
         \/ from = "check" /\ to = {"context", "refused"}
         \/ from = "context" /\ to = {"runtime"}
         \/ from = "runtime" /\ to = {"case"}
         \/ from = "case" /\ to = {"measure"}
         \/ from = "measure" /\ to = {"after"}
         \/ from = "seal" /\ to = {"hash", "failing"}
  PROVE  CountInv'
<1>1. \A q \in Procs \ {p} : bench'[q] = bench[q] /\ measured'[q] = measured[q]
  BY DEF Path
<1>2. 1 .. 1 - 1 = {}
  OBVIOUS
<1>3. /\ bench[p].at = from /\ bench'[p].at \in to /\ bench'[p].case = bench[p].case
  BY DEF Path
<1> QED
  BY <1>1, <1>2, <1>3 DEF CountInv

\* A step of a process keeps the counts.
LEMMA BenchCounts ==
  ASSUME Typed, CountInv, NEW p \in Procs, BenchStep(p) \/ Raise(p) \/ Kill(p)
  PROVE  CountInv' /\ Grows
<1>a. /\ bench[p] \in Benches /\ bench[p].case \in 1 .. NumCases + 1 /\ bench[p].case \in Nat
      /\ measured \in [Procs -> SUBSET Case] /\ NumCases \in Nat
  BY CampaignAssumption DEF Typed, TypeOK, BenchOK, Benches, GhostsOK
<1>b. CASE SnapshotAfter(p) /\ Others(p) = {}
  <2>1. /\ bench[p].at = "after" /\ bench'[p].at = "seal" /\ bench'[p].case = bench[p].case
        /\ \A q \in Procs \ {p} : bench'[q] = bench[q]
    BY <1>b, Paths DEF Path
  <2>2. measured' = [measured EXCEPT ![p] = measured[p] \cup {bench[p].case}]
    BY <1>b DEF SnapshotAfter
  <2>3. 1 .. bench[p].case \subseteq measured[p] \cup {bench[p].case}
    BY <2>1, <1>a DEF CountInv
  <2> QED
    BY <2>1, <2>2, <2>3, <1>a DEF CountInv, Grows
<1>c. CASE ~(SnapshotAfter(p) /\ Others(p) = {})
  <2>1. UNCHANGED measured
    BY <1>c DEF BenchStep, Raise, Kill, CheckFiles, EnterGpu, CheckRuntime, SnapshotBefore,
       Measure, SnapshotAfter, SealCase, HashCase, WriteTable, WriteManifest, Handle, ghosts
  <2>2. Grows
    BY <2>1 DEF Grows
  <2>3. CASE HashCase(p)
    <3>1. 1 .. bench'[p].case - 1 \subseteq measured[p]
      BY <2>3, <1>a, HashPath DEF CountInv
    <3> QED
      BY <2>1, <2>2, <2>3, <3>1, HashPath DEF CountInv
  <2>4. CASE WriteTable(p)
    <3>1. bench[p].case > NumCases /\ bench[p].at = "case"
      BY <2>4 DEF WriteTable, At
    <3>2. Case \subseteq measured[p]
      BY <3>1, <1>a DEF CountInv, Case
    <3>3. measured[p] = Case
      BY <3>2, <1>a
    <3>4. Path(p, "case", {"manifest"})
      BY <2>4, Paths
    <3> QED
      BY <2>1, <2>2, <3>3, <3>4 DEF CountInv, Path
  <2>5. CASE ~HashCase(p) /\ ~WriteTable(p)
    BY <2>1, <2>2, <2>5, <1>c, Paths, PathCounts DEF BenchStep
  <2> QED
    BY <2>3, <2>4, <2>5
<1> QED
  BY <1>b, <1>c

\* Every step keeps the counts.
LEMMA NextCounts == Typed /\ CountInv /\ [Next]_vars => CountInv' /\ Grows
<1> SUFFICES ASSUME Typed, CountInv, [Next]_vars PROVE CountInv' /\ Grows
  OBVIOUS
<1>1. ASSUME NEW p \in Procs, NEW s, NEW under, Launch(p, s, under), UNCHANGED measured
      PROVE  CountInv' /\ Grows
  BY <1>1, LaunchPath DEF CountInv, Grows
<1>2. CASE UNCHANGED <<bench, measured>>
  BY <1>2 DEF CountInv, Grows
<1>3. ASSUME NEW d \in Drivers, DriverStep(d) \/ Start(d) \/ Die(d) PROVE CountInv' /\ Grows
  <2>1. CASE LaunchSlot(d)
    BY <2>1, <1>1 DEF LaunchSlot, ghosts
  <2>2. CASE Start(d) \/ Die(d) \/ (DriverStep(d) /\ ~LaunchSlot(d))
    <3>1. UNCHANGED <<bench, measured>>
      BY <2>2 DEF DriverStep, Start, Die, CheckPlan, Freeze, CheckSlot, ChildEnded,
         SealStart, SealLoad, SealCases, SealCheck, SealWrite, ghosts
    <3> QED
      BY <3>1, <1>2
  <2> QED
    BY <1>3, <2>1, <2>2
<1>4. ASSUME NEW d \in Drivers, Interrupt(d) PROVE CountInv' /\ Grows
  <2> DEFINE p == driver[d].child
  <2>1. UNCHANGED measured
    BY <1>4 DEF Interrupt, ghosts
  <2>2. /\ p \in Procs
        /\ \/ Path(p, bench[p].at, {"failing"})
           \/ Path(p, "check", {"refused"})
           \/ UNCHANGED bench
    BY <1>4, InterruptPath
  <2>3. CountInv'
    BY <2>1, <2>2, <1>2, PathCounts
  <2> QED
    BY <2>1, <2>3 DEF Grows
<1>5. CASE LaunchByHand
  BY <1>1, <1>5, CampaignAssumption DEF LaunchByHand, ghosts
<1>6. CASE UNCHANGED vars
  BY <1>2, <1>6 DEF vars, ghosts
<1> QED
  BY <1>3, <1>4, <1>5, <1>6, BenchCounts DEF Next

\* What a manifest says is what its process measured.
LEMMA NextComplete ==
  Typed /\ CountInv /\ CompleteIsMeasured /\ [Next]_vars => CompleteIsMeasured'
<1> SUFFICES ASSUME Typed, CountInv, CompleteIsMeasured, [Next]_vars PROVE CompleteIsMeasured'
  OBVIOUS
<1>1. Grows /\ measured \in [Procs -> SUBSET Case] /\ measured' \in [Procs -> SUBSET Case]
  BY NextCounts, NextTyped DEF Typed, TypeOK, GhostsOK
<1>2. manifest \in [Slot -> Runs \cup {None}]
  BY DEF Typed, TypeOK, FilesOK
<1>3. \A p \in Procs : measured[p] = Case => measured'[p] = Case
  BY <1>1 DEF Grows
<1>4. CASE UNCHANGED manifest
  BY <1>2, <1>3, <1>4 DEF CompleteIsMeasured, Runs
<1>5. ASSUME NEW p \in Procs, BenchStep(p) \/ Raise(p) \/ Kill(p), ~UNCHANGED manifest
      PROVE  CompleteIsMeasured'
  <2>1. WriteManifest(p) \/ Handle(p)
    BY <1>5 DEF BenchStep, Raise, Kill, CheckFiles, EnterGpu, CheckRuntime, SnapshotBefore,
       Measure, SnapshotAfter, SealCase, HashCase, WriteTable, files
  <2>2. bench[p].slot \in Slot
    BY <2>1, Paths DEF Path, Typed, BenchPlaces
  <2>3. PICK status \in {"complete", "failed"} :
          /\ manifest' = [manifest EXCEPT ![bench[p].slot] = Manifest(p, status)]
          /\ status = "complete" => bench[p].at = "manifest"
    BY <1>5, <2>1 DEF WriteManifest, Handle, At
  <2>4. status = "complete" => measured'[p] = Case
    BY <2>3, <1>3 DEF CountInv
  <2>5. Manifest(p, status).status = status /\ Manifest(p, status).by = p
    BY DEF Manifest
  <2> QED
    BY <1>2, <1>3, <2>2, <2>3, <2>4, <2>5 DEF CompleteIsMeasured, Runs
<1>6. ASSUME NEW d \in Drivers, DriverStep(d) \/ Start(d) \/ Die(d) \/ Interrupt(d)
      PROVE  UNCHANGED manifest
  BY <1>6 DEF DriverStep, Start, Die, Interrupt, CheckPlan, Freeze, CheckSlot, LaunchSlot,
     ChildEnded, SealStart, SealLoad, SealCases, SealCheck, SealWrite, files
<1>7. LaunchByHand => UNCHANGED manifest
  BY DEF LaunchByHand, files
<1>8. UNCHANGED vars => UNCHANGED manifest
  BY DEF vars, files
<1> QED
  BY <1>4, <1>5, <1>6, <1>7, <1>8 DEF Next

(* What a seal has read is evidence.                                         *)

\* A run that was accepted for slot s, after the first one, under these settings.
Accepted(run, s, first, under) ==
  /\ run.status = "complete" /\ run.slot = s
  /\ measured[run.by] = Case
  /\ run.under = first.under
  /\ run.under.protocol = under.protocol

\* What a seal has read so far was accepted, and what it has looked at in the
\* case files is what the process wrote.
ReadInv ==
  \A d \in Drivers :
    /\ \A s \in 1 .. Len(driver[d].read) :
         Accepted(driver[d].read[s], s, driver[d].read[1], driver[d].under)
    /\ driver[d].at \in {"load", "cases"} =>
         \A s \in 1 .. driver[d].slot - 1, c \in Case :
           driver[d].read[s].records[c] = driver[d].read[s].by
    /\ driver[d].at = "write" =>
         \A s \in Slot, c \in Case : driver[d].read[s].records[c] = driver[d].read[s].by

EvidenceInv == ReadInv /\ SealedEvidence

\* A step that changes neither a seal's reading nor the sealed campaign.
LEMMA EvidenceKept ==
  ASSUME Typed, EvidenceInv, measured' \in [Procs -> SUBSET Case], Grows, UNCHANGED campaign,
         \A d \in Drivers :
           /\ driver'[d].read = driver[d].read /\ driver'[d].under = driver[d].under
           /\ driver'[d].at \in {"load", "cases", "write"} =>
                driver'[d].at = driver[d].at /\ driver'[d].slot = driver[d].slot
  PROVE  EvidenceInv'
<1>1. \A p \in Procs : measured[p] = Case => measured'[p] = Case
  BY DEF Grows
<1>2. \A d \in Drivers : driver[d].read \in Seq(Runs)
  BY DEF Typed, TypeOK, DriverOK, Stands
<1>3. \A d \in Drivers : \A s \in 1 .. Len(driver[d].read) : driver[d].read[s].by \in Procs
  <2>1. \A run \in Runs : run.by \in Procs
    BY DEF Runs
  <2> QED
    BY <1>2, <2>1
<1>4. ReadInv'
  <2>1. ASSUME NEW d \in Drivers, NEW s \in 1 .. Len(driver[d].read)
        PROVE  Accepted(driver[d].read[s], s, driver[d].read[1], driver[d].under)'
    <3>1. Accepted(driver[d].read[s], s, driver[d].read[1], driver[d].under)
      BY DEF EvidenceInv, ReadInv
    <3> QED
      BY <3>1, <1>1, <1>3 DEF Accepted
  <2>2. ASSUME NEW d \in Drivers, driver'[d].at \in {"load", "cases"},
               NEW s \in 1 .. driver'[d].slot - 1, NEW c \in Case
        PROVE  driver'[d].read[s].records[c] = driver'[d].read[s].by
    BY <2>2 DEF EvidenceInv, ReadInv
  <2>3. ASSUME NEW d \in Drivers, driver'[d].at = "write", NEW s \in Slot, NEW c \in Case
        PROVE  driver'[d].read[s].records[c] = driver'[d].read[s].by
    BY <2>3 DEF EvidenceInv, ReadInv
  <2>4. \A d \in Drivers : Len(driver'[d].read) = Len(driver[d].read)
    OBVIOUS
  <2> QED
    BY <2>1, <2>2, <2>3, <2>4 DEF ReadInv
<1>5. SealedEvidence'
  <2>1. campaign # None => \A s \in Slot : campaign.runs[s].by \in Procs
    BY DEF Typed, TypeOK, FilesOK, Runs
  <2> QED
    BY <1>1, <2>1 DEF EvidenceInv, SealedEvidence
<1> QED
  BY <1>4, <1>5 DEF EvidenceInv

\* A step of a driver keeps the evidence.
LEMMA DriverEvidence ==
  ASSUME Typed, CompleteIsMeasured, EvidenceInv, NEW d \in Drivers,
         Start(d) \/ DriverStep(d) \/ Interrupt(d) \/ Die(d)
  PROVE  EvidenceInv'
<1>a. /\ driver \in [Drivers -> Stands] /\ driver[d] \in Stands
      /\ measured \in [Procs -> SUBSET Case] /\ NumSlots \in Nat
  BY CampaignAssumption DEF Typed, TypeOK, DriverOK, GhostsOK
<1>b. ASSUME UNCHANGED <<campaign, ghosts>>,
             \A e \in Drivers :
               /\ driver'[e].read = driver[e].read /\ driver'[e].under = driver[e].under
               /\ driver'[e].at \in {"load", "cases", "write"} =>
                    driver'[e].at = driver[e].at /\ driver'[e].slot = driver[e].slot
      PROVE  EvidenceInv'
  BY <1>a, <1>b, EvidenceKept DEF ghosts, Grows
<1>c. ASSUME UNCHANGED <<campaign, ghosts>>, NEW place \in Stops \ {"load", "cases", "write"},
             Stand(d, place)
      PROVE  EvidenceInv'
  <2>1. Steered(d, place)
    BY <1>a, <1>c, StandSteers
  <2> QED
    BY <2>1, <1>b, <1>c DEF Steered
<1>d. {"plan", "seal", "freeze", "stopped", "launch", "popen"} \subseteq Stops \ {"load", "cases", "write"}
  BY DEF Stops, Idle
<1>e. ASSUME UNCHANGED <<campaign, ghosts>> PROVE SealedEvidence'
  BY <1>e DEF EvidenceInv, SealedEvidence, ghosts
<1>1. CASE Start(d)
  BY <1>1, <1>c, <1>d DEF Start, files
<1>2. CASE CheckPlan(d)
  BY <1>2, <1>c, <1>d DEF CheckPlan, files
<1>3. CASE Freeze(d)
  BY <1>3, <1>c, <1>d DEF Freeze
<1>4. CASE CheckSlot(d)
  BY <1>4, <1>c, <1>d DEF CheckSlot, files
<1>5. CASE LaunchSlot(d)
  <2>1. PICK p : driver' = [driver EXCEPT ![d].at = "wait", ![d].child = p]
    BY <1>5 DEF LaunchSlot
  <2>2. /\ driver'[d].at = "wait" /\ driver'[d].read = driver[d].read
        /\ driver'[d].under = driver[d].under
        /\ \A e \in Drivers \ {d} : driver'[e] = driver[e]
    BY <2>1, <1>a DEF Stands
  <2> QED
    BY <1>5, <2>2, <1>b DEF LaunchSlot
<1>6. CASE ChildEnded(d)
  <2>1. CASE Succeeded(d)
    <3>1. driver' = [driver EXCEPT ![d].slot = @ + 1,
                                   ![d].at = IF driver[d].slot < NumSlots THEN "launch" ELSE "seal"]
      BY <1>6, <2>1 DEF ChildEnded
    <3>2. /\ driver'[d].at \in {"launch", "seal"} /\ driver'[d].read = driver[d].read
          /\ driver'[d].under = driver[d].under
          /\ \A e \in Drivers \ {d} : driver'[e] = driver[e]
      BY <3>1, <1>a DEF Stands
    <3> QED
      BY <1>6, <3>2, <1>b DEF ChildEnded, files
  <2>2. CASE ~Succeeded(d)
    BY <1>6, <2>2, <1>c, <1>d DEF ChildEnded, files
  <2> QED
    BY <2>1, <2>2
<1>7. CASE Interrupt(d)
  BY <1>7, <1>c, <1>d DEF Interrupt, files
<1>8. CASE Die(d)
  BY <1>8, <1>c, <1>d DEF Die, files
<1>9. CASE SealStart(d)
  <2>1. driver[d].read = <<>>
    BY <1>9 DEF SealStart, Is, Typed, DriverPlaces
  <2>2. driver' = [driver EXCEPT ![d].at = "load", ![d].slot = 1, ![d].under = plan]
    BY <1>9 DEF SealStart
  <2>3. /\ driver'[d].at = "load" /\ driver'[d].read = <<>> /\ driver'[d].slot = 1
        /\ \A e \in Drivers \ {d} : driver'[e] = driver[e]
    BY <2>1, <2>2, <1>a DEF Stands
  <2>4. 1 .. 1 - 1 = {} /\ 1 .. Len(driver'[d].read) = {}
    BY <2>3
  <2>5. measured' = measured /\ SealedEvidence'
    BY <1>9, <1>e DEF SealStart, files, ghosts
  <2>6. ASSUME NEW e \in Drivers
        PROVE  /\ (\A s \in 1 .. Len(driver[e].read) :
                     Accepted(driver[e].read[s], s, driver[e].read[1], driver[e].under))'
               /\ driver'[e].at \in {"load", "cases"} =>
                    \A s \in 1 .. driver'[e].slot - 1, c \in Case :
                      driver'[e].read[s].records[c] = driver'[e].read[s].by
               /\ driver'[e].at = "write" =>
                    \A s \in Slot, c \in Case : driver'[e].read[s].records[c] = driver'[e].read[s].by
    <3>1. CASE e = d
      BY <2>3, <2>4, <3>1
    <3>2. CASE e # d
      <4>1. driver'[e] = driver[e]
        BY <2>3, <3>2
      <4> QED BY <2>5, <4>1 DEF EvidenceInv, ReadInv, Accepted
    <3> QED BY <3>1, <3>2
  <2>7. ReadInv'
    BY <2>6 DEF ReadInv
  <2> QED
    BY <2>5, <2>7 DEF EvidenceInv
<1>10. CASE SealLoad(d)
  <2> DEFINE n    == driver[d].slot
             read == driver[d].read
             run  == manifest[n]
  <2>1. CASE Valid(d, n)
    <3>1. /\ driver[d].at = "load" /\ n \in Slot /\ Len(read) = n - 1 /\ read \in Seq(Runs)
          /\ n \in Nat
      BY <1>10, <1>a DEF SealLoad, Is, Typed, DriverPlaces, Stands, Slot
    <3>2. /\ run \in Runs /\ run.status = "complete" /\ run.slot = n /\ measured[run.by] = Case
          /\ run.under.protocol = driver[d].under.protocol
          /\ read # <<>> => run.under = read[1].under
      BY <2>1, <3>1 DEF Valid, Comparable, CompleteIsMeasured, Typed, TypeOK, FilesOK
    <3>3. driver' = [driver EXCEPT ![d].at = "cases", ![d].read = Append(@, run)]
      BY <1>10, <2>1 DEF SealLoad
    <3> HIDE DEF run
    <3>4. /\ driver'[d].at = "cases" /\ driver'[d].read = Append(read, run)
          /\ driver'[d].slot = n /\ driver'[d].under = driver[d].under
          /\ \A e \in Drivers \ {d} : driver'[e] = driver[e]
      BY <3>3, <1>a DEF Stands
    <3> HIDE DEF n, read
    <3>5. /\ Len(Append(read, run)) = n /\ Append(read, run)[n] = run
          /\ \A s \in 1 .. n - 1 : Append(read, run)[s] = read[s]
      BY <3>1, <3>2
    <3>6. measured' = measured /\ SealedEvidence'
      BY <1>10, <1>e DEF SealLoad, files, ghosts
    <3>7. \A s \in 1 .. n - 1 : Accepted(read[s], s, read[1], driver[d].under)
      BY <3>1 DEF EvidenceInv, ReadInv, read
    <3>8. \A s \in 1 .. n :
            Accepted(Append(read, run)[s], s, Append(read, run)[1], driver[d].under)
      <4>1. CASE n = 1
        BY <4>1, <3>2, <3>5 DEF Accepted
      <4>2. CASE n # 1
        <5>1. 1 \in 1 .. n - 1 /\ read # <<>>
          BY <4>2, <3>1
        <5>2. \A s \in 1 .. n - 1 :
                Accepted(Append(read, run)[s], s, Append(read, run)[1], driver[d].under)
          BY <5>1, <3>5, <3>7
        <5>3. Accepted(Append(read, run)[n], n, Append(read, run)[1], driver[d].under)
          BY <5>1, <3>2, <3>5 DEF Accepted
        <5>4. \A s \in 1 .. n : s \in 1 .. n - 1 \/ s = n
          BY <3>1
        <5> QED
          BY <5>2, <5>3, <5>4
      <4> QED
        BY <4>1, <4>2
    <3>9. \A s \in 1 .. n - 1, c \in Case :
            Append(read, run)[s].records[c] = Append(read, run)[s].by
      BY <3>1, <3>5 DEF EvidenceInv, ReadInv, n, read
    <3>10. \A e \in Drivers : \A s \in 1 .. Len(driver'[e].read) :
             Accepted(driver'[e].read[s], s, driver'[e].read[1], driver'[e].under)
      <4> SUFFICES ASSUME NEW e \in Drivers, NEW s \in 1 .. Len(driver'[e].read)
                   PROVE  Accepted(driver'[e].read[s], s, driver'[e].read[1], driver'[e].under)
        OBVIOUS
      <4>1. CASE e = d
        BY <4>1, <3>4, <3>5, <3>8
      <4>2. CASE e # d
        <5>1. driver'[e] = driver[e]
          BY <4>2, <3>4
        <5> QED
          BY <5>1 DEF EvidenceInv, ReadInv
      <4> QED
        BY <4>1, <4>2
    <3>11. \A e \in Drivers :
             /\ driver'[e].at \in {"load", "cases"} =>
                  \A s \in 1 .. driver'[e].slot - 1, c \in Case :
                    driver'[e].read[s].records[c] = driver'[e].read[s].by
             /\ driver'[e].at = "write" =>
                  \A s \in Slot, c \in Case :
                    driver'[e].read[s].records[c] = driver'[e].read[s].by
      <4> SUFFICES ASSUME NEW e \in Drivers
                   PROVE  /\ driver'[e].at \in {"load", "cases"} =>
                               \A s \in 1 .. driver'[e].slot - 1, c \in Case :
                                 driver'[e].read[s].records[c] = driver'[e].read[s].by
                          /\ driver'[e].at = "write" =>
                               \A s \in Slot, c \in Case :
                                 driver'[e].read[s].records[c] = driver'[e].read[s].by
        OBVIOUS
      <4>1. CASE e = d
        BY <4>1, <3>4, <3>9, ZenonT(30)
      <4>2. CASE e # d
        <5>1. driver'[e] = driver[e]
          BY <4>2, <3>4
        <5> QED
          BY <5>1 DEF EvidenceInv, ReadInv
      <4> QED
        BY <4>1, <4>2
    <3>12. ReadInv'
      BY <3>10, <3>11, <3>6 DEF ReadInv, Accepted
    <3> QED
      BY <3>6, <3>12 DEF EvidenceInv
  <2>2. CASE ~Valid(d, n)
    BY <1>10, <2>2, <1>c, <1>d DEF SealLoad, files
  <2> QED
    BY <2>1, <2>2
<1>11. CASE SealCases(d)
  <2> DEFINE n    == driver[d].slot
             read == driver[d].read
  <2>1. CASE CasesMatch(read[n])
    <3>1. /\ driver[d].at = "cases" /\ n \in Slot /\ n \in Nat
      BY <1>11, <1>a DEF SealCases, Is, Typed, DriverPlaces, Slot
    <3>2. \A c \in Case : read[n].records[c] = read[n].by
      BY <2>1 DEF CasesMatch
    <3>3. driver' = [driver EXCEPT ![d].at = "load", ![d].slot = @ + 1]
      BY <1>11, <2>1 DEF SealCases
    <3>4. /\ driver'[d].at = "load" /\ driver'[d].read = read
          /\ driver'[d].slot = n + 1 /\ driver'[d].under = driver[d].under
          /\ \A e \in Drivers \ {d} : driver'[e] = driver[e]
      BY <3>3, <1>a DEF Stands
    <3>5. measured' = measured /\ SealedEvidence'
      BY <1>11, <1>e DEF SealCases, files, ghosts
    <3>6. \A s \in 1 .. n - 1, c \in Case : read[s].records[c] = read[s].by
      BY <3>1 DEF EvidenceInv, ReadInv
    <3>7. \A s \in 1 .. Len(read) : Accepted(read[s], s, read[1], driver[d].under)
      BY DEF EvidenceInv, ReadInv
    <3> HIDE DEF n, read
    <3>8. \A s \in 1 .. (n + 1) - 1 : s \in 1 .. n - 1 \/ s = n
      BY <3>1
    <3>9. \A s \in 1 .. (n + 1) - 1, c \in Case : read[s].records[c] = read[s].by
      BY <3>2, <3>6, <3>8
    <3>10. \A e \in Drivers : \A s \in 1 .. Len(driver'[e].read) :
             Accepted(driver'[e].read[s], s, driver'[e].read[1], driver'[e].under)
      <4> SUFFICES ASSUME NEW e \in Drivers, NEW s \in 1 .. Len(driver'[e].read)
                   PROVE  Accepted(driver'[e].read[s], s, driver'[e].read[1], driver'[e].under)
        OBVIOUS
      <4>1. CASE e = d
        BY <4>1, <3>4, <3>7
      <4>2. CASE e # d
        <5>1. driver'[e] = driver[e]
          BY <4>2, <3>4
        <5> QED
          BY <5>1 DEF EvidenceInv, ReadInv
      <4> QED
        BY <4>1, <4>2
    <3>11. \A e \in Drivers :
             /\ driver'[e].at \in {"load", "cases"} =>
                  \A s \in 1 .. driver'[e].slot - 1, c \in Case :
                    driver'[e].read[s].records[c] = driver'[e].read[s].by
             /\ driver'[e].at = "write" =>
                  \A s \in Slot, c \in Case :
                    driver'[e].read[s].records[c] = driver'[e].read[s].by
      <4> SUFFICES ASSUME NEW e \in Drivers
                   PROVE  /\ driver'[e].at \in {"load", "cases"} =>
                               \A s \in 1 .. driver'[e].slot - 1, c \in Case :
                                 driver'[e].read[s].records[c] = driver'[e].read[s].by
                          /\ driver'[e].at = "write" =>
                               \A s \in Slot, c \in Case :
                                 driver'[e].read[s].records[c] = driver'[e].read[s].by
        OBVIOUS
      <4>1. CASE e = d
        BY <4>1, <3>4, <3>9
      <4>2. CASE e # d
        <5>1. driver'[e] = driver[e]
          BY <4>2, <3>4
        <5> QED
          BY <5>1 DEF EvidenceInv, ReadInv
      <4> QED
        BY <4>1, <4>2
    <3>12. ReadInv'
      BY <3>10, <3>11, <3>5 DEF ReadInv, Accepted
    <3> QED
      BY <3>5, <3>12 DEF EvidenceInv
  <2>2. CASE ~CasesMatch(read[n])
    BY <1>11, <2>2, <1>c, <1>d DEF SealCases, files
  <2> QED
    BY <2>1, <2>2
<1>12. CASE SealCheck(d)
  <2>1. CASE campaign # None
    BY <1>12, <2>1, <1>c, <1>d DEF SealCheck, files
  <2>2. CASE campaign = None
    <3>1. Steered(d, "write")
      BY <1>12, <2>2, <1>a, StandSteers DEF SealCheck, Stops
    <3>2. driver[d].at = "load" /\ driver[d].slot > NumSlots /\ driver[d].slot \in Nat
      BY <1>12, <1>a DEF SealCheck, Is, Stands
    <3>3. \A s \in Slot, c \in Case : driver[d].read[s].records[c] = driver[d].read[s].by
      BY <3>2, <1>a DEF EvidenceInv, ReadInv, Slot
    <3>4. measured' = measured /\ SealedEvidence'
      BY <1>12, <1>e DEF SealCheck, files, ghosts
    <3>5. ReadInv'
      <4> SUFFICES ASSUME NEW e \in Drivers
                   PROVE  /\ \A s \in 1 .. Len(driver'[e].read) :
                               Accepted(driver[e].read[s], s, driver[e].read[1], driver[e].under)'
                          /\ driver'[e].at \in {"load", "cases"} =>
                               \A s \in 1 .. driver'[e].slot - 1, c \in Case :
                                 driver'[e].read[s].records[c] = driver'[e].read[s].by
                          /\ driver'[e].at = "write" =>
                               \A s \in Slot, c \in Case :
                                 driver'[e].read[s].records[c] = driver'[e].read[s].by
        BY DEF ReadInv
      <4>1. /\ driver'[e].read = driver[e].read /\ driver'[e].under = driver[e].under
            /\ driver'[e].slot = driver[e].slot
            /\ IF e = d THEN driver'[e].at = "write" ELSE driver'[e].at = driver[e].at
        BY <3>1 DEF Steered
      <4>2. \A s \in 1 .. Len(driver'[e].read) :
              Accepted(driver[e].read[s], s, driver[e].read[1], driver[e].under)'
        BY <4>1, <3>4 DEF EvidenceInv, ReadInv, Accepted
      <4>3. CASE e = d
        BY <4>1, <4>2, <4>3, <3>3
      <4>4. CASE e # d
        BY <4>1, <4>2, <4>4 DEF EvidenceInv, ReadInv
      <4> QED
        BY <4>3, <4>4
    <3> QED
      BY <3>4, <3>5 DEF EvidenceInv
  <2> QED
    BY <2>1, <2>2
<1>13. CASE SealWrite(d)
  <2>1. Steered(d, "sealed")
    BY <1>13, <1>a, StandSteers DEF SealWrite, Stops, Idle
  <2>2. /\ campaign' = [by |-> d, under |-> driver[d].under, runs |-> driver[d].read]
        /\ driver[d].at = "write" /\ Len(driver[d].read) = NumSlots
    BY <1>13 DEF SealWrite, Is, Typed, DriverPlaces
  <2>3. measured' = measured
    BY <1>13 DEF SealWrite, ghosts
  <2>4. \A s \in Slot :
          /\ Accepted(driver[d].read[s], s, driver[d].read[1], driver[d].under)
          /\ \A c \in Case : driver[d].read[s].records[c] = driver[d].read[s].by
    BY <2>2 DEF EvidenceInv, ReadInv, Slot
  <2>5. SealedEvidence'
    <3>1. campaign'.runs = driver[d].read /\ campaign'.under = driver[d].under
      BY <2>2
    <3>2. \A s \in Slot :
            LET run == driver[d].read[s] IN
            /\ run.status = "complete" /\ run.slot = s /\ measured'[run.by] = Case
            /\ \A c \in Case : run.records[c] = run.by
            /\ run.under = driver[d].read[1].under
            /\ run.under.protocol = driver[d].under.protocol
      BY <2>3, <2>4 DEF Accepted
    <3> QED
      BY <3>1, <3>2 DEF SealedEvidence
  <2>6. ASSUME NEW e \in Drivers
        PROVE  /\ \A s \in 1 .. Len(driver'[e].read) :
                    Accepted(driver[e].read[s], s, driver[e].read[1], driver[e].under)'
               /\ driver'[e].at \in {"load", "cases", "write"} => e # d
    <3>1. /\ driver'[e].read = driver[e].read /\ driver'[e].under = driver[e].under
          /\ driver'[e].at \in {"load", "cases", "write"} => e # d
      BY <2>1 DEF Steered
    <3> QED
      BY <3>1, <2>3 DEF EvidenceInv, ReadInv, Accepted
  <2>7. \A e \in Drivers \ {d} : driver'[e] = driver[e]
    BY <2>1 DEF Steered
  <2>8. ReadInv'
    BY <2>6, <2>7 DEF EvidenceInv, ReadInv
  <2> QED
    BY <2>5, <2>8 DEF EvidenceInv
<1> QED
  BY <1>1, <1>2, <1>3, <1>4, <1>5, <1>6, <1>7, <1>8, <1>9, <1>10, <1>11, <1>12, <1>13
     DEF DriverStep
-----------------------------------------------------------------------------
(* The theorems.                                                             *)

\* The inductive invariant.
CampaignInv == Typed /\ GpuInv /\ CountInv /\ CompleteIsMeasured /\ EvidenceInv

\* The initial states satisfy it.
LEMMA InitInv == Init => CampaignInv
<1> SUFFICES ASSUME Init PROVE CampaignInv
  OBVIOUS
<1>1. Typed
  BY InitTyped
<1>2. GpuInv /\ CountInv
  BY DEF Init, GpuInv, CountInv, Trying
<1>3. CompleteIsMeasured
  BY DEF Init, CompleteIsMeasured
<1>4. \A d \in Drivers : driver[d].at = "idle" /\ driver[d].read = <<>>
  BY DEF Init
<1>5. ReadInv
  BY <1>4 DEF ReadInv
<1>6. SealedEvidence
  BY DEF Init, SealedEvidence
<1> QED
  BY <1>1, <1>2, <1>3, <1>5, <1>6 DEF CampaignInv, EvidenceInv

\* Every step keeps it.
LEMMA NextInv == CampaignInv /\ [Next]_vars => CampaignInv'
<1> SUFFICES ASSUME CampaignInv, [Next]_vars PROVE CampaignInv'
  OBVIOUS
<1> USE DEF CampaignInv
<1>1. Typed' /\ GpuInv' /\ CountInv' /\ CompleteIsMeasured' /\ Grows
  BY NextTyped, NextGpu, NextCounts, NextComplete
<1>2. measured' \in [Procs -> SUBSET Case]
  BY <1>1 DEF Typed, TypeOK, GhostsOK
<1>3. UNCHANGED <<campaign, driver>> => EvidenceInv'
  BY <1>1, <1>2, EvidenceKept
<1>4. ASSUME NEW p \in Procs, BenchStep(p) \/ Raise(p) \/ Kill(p)
      PROVE  UNCHANGED <<campaign, driver>>
  BY <1>4 DEF BenchStep, Raise, Kill, CheckFiles, EnterGpu, CheckRuntime, SnapshotBefore,
     Measure, SnapshotAfter, SealCase, HashCase, WriteTable, WriteManifest, Handle, files
<1>5. LaunchByHand \/ UNCHANGED vars => UNCHANGED <<campaign, driver>>
  BY DEF LaunchByHand, vars, files
<1>6. EvidenceInv'
  BY <1>3, <1>4, <1>5, DriverEvidence DEF Next
<1> QED
  BY <1>1, <1>6

\* The invariant holds in every reachable state.
THEOREM Correct == Spec => []CampaignInv
BY InitInv, NextInv, PTL DEF Spec

\* Every reachable state has its type.
THEOREM TypesHold == Spec => []TypeOK
<1>1. CampaignInv => TypeOK
  BY DEF CampaignInv, Typed
<1> QED
  BY <1>1, Correct, PTL

\* No two processes are between the snapshots of a measurement at once, for any
\* number of processes, started by whomever.
THEOREM Alone == Spec => []MeasuringAlone
<1>1. CampaignInv => MeasuringAlone
  BY DEF CampaignInv, GpuInv, MeasuringAlone, Trying
<1> QED
  BY <1>1, Correct, PTL

\* A manifest that says complete is one of a process that measured every case.
THEOREM Complete == Spec => []CompleteIsMeasured
<1>1. CampaignInv => CompleteIsMeasured
  BY DEF CampaignInv
<1> QED
  BY <1>1, Correct, PTL

\* A sealed campaign rests, slot by slot, on comparable measurements of one
\* process each, whoever wrote the files while the seal read them.
THEOREM Evidence == Spec => []SealedEvidence
<1>1. CampaignInv => SealedEvidence
  BY DEF CampaignInv, EvidenceInv
<1> QED
  BY <1>1, Correct, PTL
-----------------------------------------------------------------------------
(* The frozen order, when nobody starts anything beside the script.          *)

Used(p) == bench[p].at # "unused"

\* A run was the s-th to complete.
Recorded(run, s) == s <= Len(history) /\ history[s] = run.by

\* No slot is used twice, the i-th to complete had slot i, and whoever still
\* tries has the slot after the last completed one.
SlotsOrdered ==
  /\ \A p, q \in Procs : Used(p) /\ Used(q) /\ bench[p].slot = bench[q].slot => p = q
  /\ \A i \in 1 .. Len(history) : Used(history[i]) /\ bench[history[i]].slot = i
  /\ \A p \in Procs :
       /\ bench[p].at \in Trying \cup {"check"} => Len(history) = bench[p].slot - 1
       /\ bench[p].at = "done" => bench[p].slot <= Len(history) /\ history[bench[p].slot] = p

\* So are the manifests that say complete, what seals have read and what is sealed.
RunsRecorded ==
  /\ \A s \in Slot : manifest[s] # None /\ manifest[s].status = "complete" => Recorded(manifest[s], s)
  /\ \A d \in Drivers : \A s \in 1 .. Len(driver[d].read) : Recorded(driver[d].read[s], s)
  /\ campaign # None => \A s \in Slot : Recorded(campaign.runs[s], s)

\* One invocation at a time does anything, one alone freezes a plan, and the
\* slot it is at is past all that were used.
OneScript ==
  /\ \A d, e \in Drivers : d # e /\ driver[d].at \notin Idle => driver[e].at \in Idle
  /\ plan = None => \A p \in Procs : ~Used(p)
  /\ \A d \in Drivers :
       /\ driver[d].at = "freeze" => plan = None
       /\ driver[d].at \in {"launch", "popen", "wait"} => plan # None
       /\ driver[d].at \in {"launch", "popen"} =>
            /\ Len(history) = driver[d].slot - 1
            /\ \A p \in Procs : Used(p) => bench[p].slot < driver[d].slot
       /\ driver[d].at = "wait" =>
            /\ bench[driver[d].child].slot = driver[d].slot
            /\ \A p \in Procs : Used(p) => bench[p].slot <= driver[d].slot

OrderInv == SlotsOrdered /\ RunsRecorded /\ OneScript

\* A step in which nobody completes and nobody is launched.
BenchCalm ==
  /\ \A q \in Procs :
       /\ bench'[q].slot = bench[q].slot
       /\ Used(q)' <=> Used(q)
       /\ bench'[q].at \in Trying \cup {"check"} => bench[q].at \in Trying \cup {"check"}
       /\ bench'[q].at = "done" => bench[q].at = "done"
  /\ history' = history
  /\ \A s \in Slot : manifest'[s] = manifest[s] \/ manifest'[s].status = "failed"

\* A step in which no invocation begins or goes on to a slot.
DriversCalm ==
  \A d \in Drivers :
    /\ driver'[d].at \in {"freeze", "launch", "popen", "wait"} => driver'[d] = driver[d]
    /\ driver'[d].at \notin Idle => driver[d].at \notin Idle

\* Nothing new is read.
ReadsKept == \A d \in Drivers : driver'[d].read = driver[d].read

\* A calm step of the processes keeps their half of the invariant.
LEMMA SlotsKept ==
  ASSUME Typed, SlotsOrdered, BenchCalm
  PROVE  SlotsOrdered'
<1>1. history \in Seq(Procs)
  BY DEF Typed, TypeOK, GhostsOK
<1>2. \A i \in 1 .. Len(history) : history[i] \in Procs
  BY <1>1
<1>3. history' = history
  BY DEF BenchCalm
<1>4. \A p, q \in Procs : (Used(p) /\ Used(q))' /\ bench'[p].slot = bench'[q].slot => p = q
  BY DEF SlotsOrdered, BenchCalm
<1>5. \A i \in 1 .. Len(history) : Used(history[i])' /\ bench'[history[i]].slot = i
  BY <1>2 DEF SlotsOrdered, BenchCalm
<1>6. \A p \in Procs :
        /\ bench'[p].at \in Trying \cup {"check"} => Len(history) = bench'[p].slot - 1
        /\ bench'[p].at = "done" => bench'[p].slot <= Len(history) /\ history[bench'[p].slot] = p
  BY DEF SlotsOrdered, BenchCalm
<1> QED BY <1>3, <1>4, <1>5, <1>6 DEF SlotsOrdered, Used

\* So does one that reads and seals nothing.
LEMMA RecordsKept ==
  ASSUME RunsRecorded, BenchCalm, ReadsKept, UNCHANGED campaign
  PROVE  RunsRecorded'
<1>1. ASSUME NEW s \in Slot, manifest'[s] # None, manifest'[s].status = "complete"
      PROVE  Recorded(manifest[s], s) /\ manifest'[s] = manifest[s]
  BY <1>1 DEF RunsRecorded, BenchCalm
<1>2. history' = history
  BY DEF BenchCalm
<1> QED BY <1>1, <1>2 DEF RunsRecorded, ReadsKept, Recorded

\* And the script's half.
LEMMA ScriptKept ==
  ASSUME Typed, OneScript, BenchCalm, DriversCalm, UNCHANGED plan
  PROVE  OneScript'
<1>1. \A d, e \in Drivers : d # e /\ driver'[d].at \notin Idle => driver'[e].at \in Idle
  BY DEF OneScript, DriversCalm
<1>2. plan' = None => \A p \in Procs : ~Used(p)'
  BY DEF OneScript, BenchCalm
<1>3. ASSUME NEW d \in Drivers, driver'[d].at \in {"freeze", "launch", "popen", "wait"}
      PROVE  driver'[d] = driver[d]
  BY <1>3 DEF DriversCalm
<1>4. \A d \in Drivers :
        /\ driver'[d].at = "freeze" => plan' = None
        /\ driver'[d].at \in {"launch", "popen", "wait"} => plan' # None
  BY <1>3 DEF OneScript
<1>5. ASSUME NEW d \in Drivers, driver'[d].at \in {"launch", "popen"}
      PROVE  /\ Len(history') = driver'[d].slot - 1
             /\ \A p \in Procs : Used(p)' => bench'[p].slot < driver'[d].slot
  BY <1>3, <1>5 DEF OneScript, BenchCalm
<1>6. ASSUME NEW d \in Drivers, driver'[d].at = "wait"
      PROVE  /\ bench'[driver'[d].child].slot = driver'[d].slot
             /\ \A p \in Procs : Used(p)' => bench'[p].slot <= driver'[d].slot
  <2>1. driver'[d] = driver[d] /\ driver[d].child \in Procs
    BY <1>3, <1>6 DEF Typed, DriverPlaces
  <2> QED BY <2>1, <1>6 DEF OneScript, BenchCalm
<1> QED BY <1>1, <1>2, <1>4, <1>5, <1>6 DEF OneScript, Used

\* Nobody completes but at WriteManifest.
LEMMA BenchIsCalm ==
  ASSUME Typed, NEW p \in Procs, BenchStep(p) \/ Raise(p) \/ Kill(p), ~WriteManifest(p)
  PROVE  BenchCalm
<1>1. history' = history
  BY DEF BenchStep, Raise, Kill, CheckFiles, EnterGpu, CheckRuntime, SnapshotBefore,
     Measure, SnapshotAfter, SealCase, HashCase, WriteTable, Handle, ghosts
<1>2. \A s \in Slot : manifest'[s] = manifest[s] \/ manifest'[s].status = "failed"
  <2>1. CASE UNCHANGED manifest
    BY <2>1
  <2>2. CASE manifest' = [manifest EXCEPT ![bench[p].slot] = Manifest(p, "failed")]
    <3>1. manifest \in [Slot -> Runs \cup {None}] /\ Manifest(p, "failed").status = "failed"
      BY DEF Typed, TypeOK, FilesOK, Manifest
    <3> QED BY <2>2, <3>1
  <2> QED
    BY <2>1, <2>2 DEF BenchStep, Raise, Kill, CheckFiles, EnterGpu, CheckRuntime, SnapshotBefore,
       Measure, SnapshotAfter, SealCase, HashCase, WriteTable, Handle, files
<1>3. /\ bench'[p].slot = bench[p].slot
      /\ Used(p) /\ Used(p)'
      /\ bench'[p].at \in Trying \cup {"check"} => bench[p].at \in Trying \cup {"check"}
      /\ bench'[p].at # "done"
      /\ \A q \in Procs \ {p} : bench'[q] = bench[q]
  <2> USE DEF Path, Used, Trying
  <2>1. CASE CheckFiles(p)
    BY <2>1, Paths
  <2>2. CASE EnterGpu(p)
    BY <2>2, Paths
  <2>3. CASE CheckRuntime(p)
    BY <2>3, Paths
  <2>4. CASE SnapshotBefore(p)
    BY <2>4, Paths
  <2>5. CASE Measure(p)
    BY <2>5, Paths
  <2>6. CASE SnapshotAfter(p)
    BY <2>6, Paths
  <2>7. CASE SealCase(p)
    BY <2>7, Paths
  <2>8. CASE HashCase(p)
    BY <2>8, HashPath
  <2>9. CASE WriteTable(p)
    BY <2>9, Paths
  <2>10. CASE Raise(p)
    BY <2>10, Paths DEF Raise
  <2>11. CASE Handle(p)
    BY <2>11, Paths
  <2>12. CASE Kill(p)
    BY <2>12, Paths DEF Kill, Ended
  <2> QED
    BY <2>1, <2>2, <2>3, <2>4, <2>5, <2>6, <2>7, <2>8, <2>9, <2>10, <2>11, <2>12 DEF BenchStep
<1> QED BY <1>1, <1>2, <1>3 DEF BenchCalm, Used

\* Completing keeps the order: the slot after the last one completes.
LEMMA CompletesInOrder ==
  ASSUME Typed, OrderInv, NEW p \in Procs, WriteManifest(p)
  PROVE  OrderInv'
<1> DEFINE n == Len(history)
<1>1. /\ bench[p].at = "manifest" /\ bench'[p].at \in {"done", "failing"}
      /\ bench'[p].slot = bench[p].slot /\ \A q \in Procs \ {p} : bench'[q] = bench[q]
  BY Paths DEF Path
<1>2. history \in Seq(Procs) /\ manifest \in [Slot -> Runs \cup {None}]
  BY DEF Typed, TypeOK, GhostsOK, FilesOK
<1>3. /\ history' = Append(history, p) /\ UNCHANGED <<plan, campaign, driver>>
      /\ manifest' = [manifest EXCEPT ![bench[p].slot] = Manifest(p, "complete")]
  BY DEF WriteManifest
<1>4. /\ n \in Nat /\ Len(history') = n + 1 /\ history'[n + 1] = p
      /\ \A i \in 1 .. n : history'[i] = history[i] /\ history[i] \in Procs
      /\ 1 .. (n + 1) = (1 .. n) \cup {n + 1}
  BY <1>2, <1>3
<1>5. bench[p].slot \in Nat /\ bench[p].slot = n + 1 /\ bench[p].slot \in Slot /\ Used(p)
  <2>1. Used(p) /\ bench[p].slot \in Slot
    BY <1>1 DEF Used, Typed, BenchPlaces
  <2>2. n = bench[p].slot - 1
    BY <1>1 DEF OrderInv, SlotsOrdered, Trying
  <2> QED BY <2>1, <2>2, <1>4, CampaignAssumption DEF Slot
<1> HIDE DEF n
<1>6. \A q \in Procs : bench'[q].slot = bench[q].slot /\ (Used(q)' <=> Used(q))
  BY <1>1, <1>5 DEF Used
<1>7. \A q \in Procs : Used(q) /\ bench[q].slot = n + 1 => q = p
  BY <1>5 DEF OrderInv, SlotsOrdered
<1>8. \A i \in 1 .. n : Used(history[i]) /\ bench[history[i]].slot = i
  BY DEF OrderInv, SlotsOrdered, n
<1>9. SlotsOrdered'
  <2>1. \A q, r \in Procs : (Used(q) /\ Used(r))' /\ bench'[q].slot = bench'[r].slot => q = r
    BY <1>6 DEF OrderInv, SlotsOrdered
  <2>2. \A i \in 1 .. (n + 1) : (Used(history[i]) /\ bench[history[i]].slot = i)'
    BY <1>4, <1>5, <1>6, <1>8 DEF Used
  <2>3. ASSUME NEW q \in Procs, bench'[q].at \in Trying \cup {"check"} PROVE FALSE
    <3>1. q # p
      BY <1>1, <2>3 DEF Trying
    <3>2. bench[q].at \in Trying \cup {"check"} /\ bench[q].slot = bench'[q].slot
      BY <1>1, <2>3, <3>1
    <3>3. Used(q) /\ bench[q].slot \in Slot
      BY <3>2 DEF Used, Trying, Typed, BenchPlaces
    <3>4. n = bench[q].slot - 1
      BY <3>2 DEF OrderInv, SlotsOrdered, n
    <3>5. bench[q].slot = n + 1
      BY <1>4, <3>3, <3>4, CampaignAssumption DEF Slot
    <3> QED BY <1>7, <3>1, <3>3, <3>5
  <2>4. ASSUME NEW q \in Procs, bench'[q].at = "done"
        PROVE  bench'[q].slot <= n + 1 /\ history'[bench'[q].slot] = q
    <3>1. CASE q = p
      BY <1>1, <1>4, <1>5, <3>1
    <3>2. CASE q # p
      <4>1. bench[q].at = "done" /\ bench'[q].slot = bench[q].slot
        BY <1>1, <2>4, <3>2
      <4>2. bench[q].slot <= n /\ history[bench[q].slot] = q
        BY <4>1 DEF OrderInv, SlotsOrdered, n
      <4>3. bench[q].slot \in Slot
        BY <4>1 DEF Typed, BenchPlaces
      <4>4. bench[q].slot \in 1 .. n /\ bench[q].slot <= n + 1
        BY <1>4, <4>2, <4>3, CampaignAssumption DEF Slot
      <4> QED BY <1>4, <4>1, <4>2, <4>4
    <3> QED BY <3>1, <3>2
  <2> QED BY <1>4, <2>1, <2>2, <2>3, <2>4 DEF SlotsOrdered, Used
<1>10. \A run, s : s \in Nat \ {0} /\ Recorded(run, s) => Recorded(run, s)'
  <2> SUFFICES ASSUME NEW run, NEW s \in Nat \ {0}, s <= n, history[s] = run.by
               PROVE  s <= n + 1 /\ history'[s] = run.by
    BY <1>4 DEF Recorded, n
  <2> QED BY <1>4
<1>11. RunsRecorded'
  <2>1. \A s \in Slot : s \in Nat \ {0}
    BY CampaignAssumption DEF Slot
  <2>2. ASSUME NEW s \in Slot, manifest'[s] # None, manifest'[s].status = "complete"
        PROVE  Recorded(manifest[s], s)' 
    <3>1. CASE s = bench[p].slot
      <4>1. manifest'[s] = Manifest(p, "complete") /\ Manifest(p, "complete").by = p
        BY <1>2, <1>3, <3>1 DEF Manifest
      <4> QED BY <1>4, <1>5, <3>1, <4>1 DEF Recorded
    <3>2. CASE s # bench[p].slot
      <4>1. manifest'[s] = manifest[s]
        BY <1>2, <1>3, <3>2
      <4>2. Recorded(manifest[s], s)
        BY <2>2, <4>1 DEF OrderInv, RunsRecorded
      <4> QED BY <1>10, <2>1, <4>1, <4>2 DEF Recorded
    <3> QED BY <3>1, <3>2
  <2>3. ASSUME NEW d \in Drivers, NEW s \in 1 .. Len(driver[d].read)
        PROVE  Recorded(driver[d].read[s], s)'
    <3>1. Recorded(driver[d].read[s], s) /\ s \in Nat \ {0}
      BY DEF OrderInv, RunsRecorded
    <3> QED BY <1>3, <1>10, <3>1 DEF Recorded
  <2>4. ASSUME campaign # None, NEW s \in Slot PROVE Recorded(campaign.runs[s], s)'
    <3>1. Recorded(campaign.runs[s], s)
      BY <2>4 DEF OrderInv, RunsRecorded
    <3> QED BY <1>3, <1>10, <2>1, <3>1 DEF Recorded
  <2> QED BY <1>3, <2>2, <2>3, <2>4 DEF RunsRecorded, Recorded
<1>12. OneScript'
  <2>1. \A d, e \in Drivers : d # e /\ driver'[d].at \notin Idle => driver'[e].at \in Idle
    BY <1>3 DEF OrderInv, OneScript
  <2>2. plan' = None => \A q \in Procs : ~Used(q)'
    BY <1>3, <1>6 DEF OrderInv, OneScript
  <2>3. \A d \in Drivers :
          /\ driver'[d].at = "freeze" => plan' = None
          /\ driver'[d].at \in {"launch", "popen", "wait"} => plan' # None
    BY <1>3 DEF OrderInv, OneScript
  <2>4. ASSUME NEW d \in Drivers, driver[d].at \in {"launch", "popen"} PROVE FALSE
    <3>1. n = driver[d].slot - 1 /\ bench[p].slot < driver[d].slot
      BY <1>5, <2>4 DEF OrderInv, OneScript, n
    <3>2. driver[d].slot \in Nat
      BY <2>4, CampaignAssumption DEF Typed, DriverPlaces, Slot
    <3> QED BY <1>4, <1>5, <3>1, <3>2
  <2>5. ASSUME NEW d \in Drivers, driver[d].at = "wait"
        PROVE  /\ bench'[driver[d].child].slot = driver[d].slot
               /\ \A q \in Procs : Used(q)' => bench'[q].slot <= driver[d].slot
    <3>1. driver[d].child \in Procs
      BY <2>5 DEF Typed, DriverPlaces
    <3> QED BY <1>6, <2>5, <3>1 DEF OrderInv, OneScript
  <2> QED BY <1>3, <2>1, <2>2, <2>3, <2>4, <2>5 DEF OneScript, Used
<1> QED BY <1>9, <1>11, <1>12 DEF OrderInv

\* A step of an invocation that changes neither processes nor what completed.
LEMMA SlotsAsTheyWere ==
  ASSUME Typed, SlotsOrdered, UNCHANGED <<bench, history>>
  PROVE  SlotsOrdered'
BY DEF SlotsOrdered, Used

\* The same of what is recorded.
LEMMA RecordsAsTheyWere ==
  ASSUME RunsRecorded, UNCHANGED <<history, manifest, campaign>>, ReadsKept
  PROVE  RunsRecorded'
BY DEF RunsRecorded, Recorded, ReadsKept

\* A step of an invocation, with nobody to start anything beside the script.
LEMMA DriverInOrder ==
  ASSUME Typed, OrderInv, ByHand = {}, NEW d \in Drivers, Start(d) \/ DriverStep(d) \/ Interrupt(d) \/ Die(d)
  PROVE  OrderInv'
<1> USE DEF OrderInv
<1>a. /\ driver \in [Drivers -> Stands] /\ driver[d] \in Stands /\ NumSlots \in Nat \ {0}
      /\ bench \in [Procs -> Benches] /\ manifest \in [Slot -> Runs \cup {None}]
      /\ history \in Seq(Procs)
  BY CampaignAssumption DEF Typed, TypeOK, DriverOK, BenchOK, FilesOK, GhostsOK
<1>b. ASSUME NEW place \in Stops, Stand(d, place) PROVE Steered(d, place)
  BY <1>a, <1>b, StandSteers
<1>c. {"plan", "seal", "freeze", "stopped", "launch", "popen", "write", "sealed"} \subseteq Stops
  BY DEF Stops, Idle
<1>d. ASSUME UNCHANGED <<bench, history>>,
             \A s \in Slot : manifest'[s] = manifest[s] \/ manifest'[s].status = "failed"
      PROVE  BenchCalm
  BY <1>d DEF BenchCalm, Used
<1>e. ASSUME BenchCalm, DriversCalm, ReadsKept, UNCHANGED <<plan, campaign>> PROVE OrderInv'
  BY <1>e, SlotsKept, RecordsKept, ScriptKept
<1>f. ASSUME UNCHANGED <<files, bench, ghosts>>, DriversCalm, ReadsKept PROVE OrderInv'
  BY <1>d, <1>e, <1>f DEF files, ghosts
<1>g. ASSUME UNCHANGED <<bench, history, manifest, campaign>>, ReadsKept PROVE SlotsOrdered' /\ RunsRecorded'
  BY <1>g, SlotsAsTheyWere, RecordsAsTheyWere
<1>h. ASSUME NEW place \in {"seal", "stopped", "write", "sealed"}, Steered(d, place), driver[d].at \notin Idle
      PROVE  DriversCalm /\ ReadsKept
  BY <1>h DEF Steered, DriversCalm, ReadsKept, Idle
<1>1. CASE Start(d)
  <2>1. PICK place \in {"plan", "seal"} : Steered(d, place)
    BY <1>1, <1>b, <1>c DEF Start
  <2>2. SlotsOrdered' /\ RunsRecorded'
    BY <1>1, <1>g, <2>1 DEF Start, files, ghosts, Steered, ReadsKept
  <2>3. \A e \in Drivers : driver[e].at \in Idle
    BY <1>1 DEF Start
  <2>4. \A e \in Drivers \ {d} : driver'[e] = driver[e]
    BY <2>1 DEF Steered
  <2>5. driver'[d].at \in {"plan", "seal"}
    BY <2>1 DEF Steered
  <2>6. UNCHANGED <<plan, bench, history>>
    BY <1>1 DEF Start, files, ghosts
  <2>7. \A e \in Drivers : driver'[e].at \notin {"freeze", "launch", "popen", "wait"}
    BY <2>3, <2>4, <2>5 DEF Idle
  <2>8. \A e \in Drivers \ {d} : driver'[e].at \in Idle
    BY <2>3, <2>4
  <2>9. OneScript'
    BY <2>6, <2>7, <2>8 DEF OneScript, Used
  <2> QED BY <2>2, <2>9
<1>2. CASE CheckPlan(d)
  <2>1. CASE plan = None
    <3>1. Steered(d, "freeze")
      BY <1>2, <2>1, <1>b, <1>c DEF CheckPlan
    <3>2. SlotsOrdered' /\ RunsRecorded'
      BY <1>2, <1>g, <3>1 DEF CheckPlan, files, ghosts, Steered, ReadsKept
    <3>3. driver[d].at = "plan" /\ driver'[d].at = "freeze" /\ UNCHANGED <<plan, bench, history>>
      BY <1>2, <3>1 DEF CheckPlan, Is, files, ghosts, Steered
    <3>4. \A e \in Drivers \ {d} : driver'[e] = driver[e] /\ driver[e].at \in Idle
      BY <3>1, <3>3 DEF Steered, OneScript, Idle
    <3>5. OneScript'
      BY <2>1, <3>3, <3>4 DEF OneScript, Used, Idle
    <3> QED BY <3>2, <3>5
  <2>2. CASE plan # None
    BY <1>2, <2>2, <1>b, <1>c, <1>f, <1>h DEF CheckPlan, Is, Idle
  <2> QED BY <2>1, <2>2
<1>3. CASE Freeze(d)
  <2>1. Steered(d, "launch")
    BY <1>3, <1>b, <1>c DEF Freeze
  <2>2. SlotsOrdered' /\ RunsRecorded'
    BY <1>3, <1>g, <2>1 DEF Freeze, ghosts, Steered, ReadsKept
  <2>3. /\ driver[d].at = "freeze" /\ driver'[d].at = "launch" /\ driver'[d].slot = 1
        /\ UNCHANGED <<bench, history>> /\ plan = None /\ plan' # None
    <3>1. driver[d].at = "freeze" /\ driver'[d].at = "launch" /\ UNCHANGED <<bench, history>> /\ plan' \in Settings
      BY <1>3, <2>1 DEF Freeze, Is, ghosts, Steered
    <3>2. driver[d].slot = 1 /\ driver'[d].slot = driver[d].slot
      BY <2>1, <3>1 DEF Typed, DriverPlaces, Steered
    <3> QED BY <3>1, <3>2, CampaignAssumption DEF OneScript
  <2>4. \A e \in Drivers \ {d} : driver'[e] = driver[e] /\ driver[e].at \in Idle
    BY <2>1, <2>3 DEF Steered, OneScript, Idle
  <2>5. \A p \in Procs : ~Used(p) /\ ~Used(p)'
    BY <2>3 DEF OneScript, Used
  <2>6. Len(history) = 0
    <3>1. ASSUME Len(history) # 0 PROVE FALSE
      <4>1. 1 \in 1 .. Len(history)
        BY <1>a, <3>1
      <4>2. history[1] \in Procs /\ Used(history[1])
        BY <1>a, <4>1 DEF SlotsOrdered
      <4> QED BY <2>5, <4>2
    <3> QED BY <3>1
  <2>7. \A e \in Drivers : driver'[e].at \in {"freeze", "launch", "popen", "wait"} => e = d
    BY <2>4 DEF Idle
  <2>8. OneScript'
    BY <2>3, <2>4, <2>5, <2>6, <2>7 DEF OneScript, Used, Idle
  <2> QED BY <2>2, <2>8
<1>4. CASE CheckSlot(d)
  <2>1. CASE Runnable(driver[d].slot)
    <3>1. Steered(d, "popen")
      BY <1>4, <2>1, <1>b, <1>c DEF CheckSlot
    <3>2. SlotsOrdered' /\ RunsRecorded'
      BY <1>4, <1>g, <3>1 DEF CheckSlot, files, ghosts, Steered, ReadsKept
    <3>3. /\ driver[d].at = "launch" /\ driver'[d].at = "popen" /\ driver'[d].slot = driver[d].slot
          /\ UNCHANGED <<plan, bench, history>>
      BY <1>4, <3>1 DEF CheckSlot, Is, files, ghosts, Steered
    <3>4. \A e \in Drivers \ {d} : driver'[e] = driver[e] /\ driver[e].at \in Idle
      BY <3>1, <3>3 DEF Steered, OneScript, Idle
    <3>5. OneScript'
      BY <3>3, <3>4 DEF OneScript, Used, Idle
    <3> QED BY <3>2, <3>5
  <2>2. CASE ~Runnable(driver[d].slot)
    BY <1>4, <2>2, <1>b, <1>c, <1>f, <1>h DEF CheckSlot, Is, Idle
  <2> QED BY <2>1, <2>2
<1>5. CASE LaunchSlot(d)
  <2>1. PICK p \in Procs, under \in Settings :
          Launch(p, driver[d].slot, under) /\ driver' = [driver EXCEPT ![d].at = "wait", ![d].child = p]
    BY <1>5 DEF LaunchSlot
  <2>2. /\ bench[p].at = "unused" /\ bench'[p].at = "check" /\ bench'[p].slot = driver[d].slot
        /\ \A q \in Procs \ {p} : bench'[q] = bench[q]
    BY <1>a, <2>1 DEF Launch, At, Benches
  <2>3. /\ driver[d].at = "popen" /\ UNCHANGED <<plan, manifest, campaign, history>>
        /\ driver'[d].at = "wait" /\ driver'[d].child = p /\ driver'[d].slot = driver[d].slot
        /\ driver'[d].read = driver[d].read
        /\ \A e \in Drivers \ {d} : driver'[e] = driver[e]
    BY <1>a, <1>5, <2>1 DEF LaunchSlot, Is, ghosts, Stands
  <2>4. \A e \in Drivers \ {d} : driver[e].at \in Idle
    BY <2>3 DEF OneScript, Idle
  <2>5. /\ Len(history) = driver[d].slot - 1 /\ driver[d].slot \in Nat
        /\ \A q \in Procs : Used(q) => bench[q].slot < driver[d].slot
    BY <1>a, <2>3, CampaignAssumption DEF OneScript, Stands
  <2>6. \A q \in Procs : Used(q) => bench[q].slot \in Nat
    BY CampaignAssumption DEF Used, Typed, BenchPlaces, Slot
  <2>7. \A q \in Procs \ {p} : (Used(q)' <=> Used(q)) /\ bench'[q] = bench[q]
    BY <2>2 DEF Used
  <2>8. ~Used(p) /\ Used(p)'
    BY <2>2 DEF Used
  <2>9. SlotsOrdered'
    <3>1. \A q, r \in Procs : (Used(q) /\ Used(r))' /\ bench'[q].slot = bench'[r].slot => q = r
      BY <2>2, <2>5, <2>6, <2>7 DEF SlotsOrdered
    <3>2. \A i \in 1 .. Len(history) : history[i] \in Procs /\ history[i] # p
      BY <1>a, <2>8 DEF SlotsOrdered
    <3>3. \A i \in 1 .. Len(history) : bench'[history[i]].at # "unused" /\ bench'[history[i]].slot = i
      <4> TAKE i \in 1 .. Len(history)
      <4>1. bench'[history[i]] = bench[history[i]]
        BY <2>2, <3>2
      <4>2. Used(history[i]) /\ bench[history[i]].slot = i
        BY DEF SlotsOrdered
      <4>3. bench'[history[i]].at # "unused" /\ bench'[history[i]].slot = i
        BY ONLY <4>1, <4>2 DEF Used
      <4> QED BY <4>3
    <3>4. \A q \in Procs :
            /\ bench'[q].at \in Trying \cup {"check"} => Len(history) = bench'[q].slot - 1
            /\ bench'[q].at = "done" => bench'[q].slot <= Len(history) /\ history[bench'[q].slot] = q
      BY <2>2, <2>5 DEF SlotsOrdered
    <3> QED BY <2>3, <3>1, <3>3, <3>4 DEF SlotsOrdered, Used
  <2>10. RunsRecorded'
    <3>1. ReadsKept
      BY <2>3 DEF ReadsKept
    <3> QED BY <2>3, <3>1, RecordsAsTheyWere
  <2>11. OneScript'
    <3>1. \A e, f \in Drivers : e # f /\ driver'[e].at \notin Idle => driver'[f].at \in Idle
      BY <2>3, <2>4
    <3>2. plan' # None
      BY <2>3 DEF OneScript
    <3>3. \A e \in Drivers : driver'[e].at \in {"freeze", "launch", "popen", "wait"} => e = d
      BY <2>3, <2>4 DEF Idle
    <3>4. \A q \in Procs : Used(q)' => bench'[q].slot <= driver[d].slot
      BY <2>2, <2>5, <2>6, <2>7
    <3> QED BY <2>2, <2>3, <3>1, <3>2, <3>3, <3>4 DEF OneScript, Used
  <2> QED BY <2>9, <2>10, <2>11
<1>6. CASE ChildEnded(d)
  <2>1. CASE Succeeded(d)
    <3> DEFINE c == driver[d].child
               n == Len(history)
    <3>1. driver' = [driver EXCEPT ![d].slot = @ + 1,
                                   ![d].at = IF driver[d].slot < NumSlots THEN "launch" ELSE "seal"]
      BY <1>6, <2>1 DEF ChildEnded
    <3>2. /\ driver'[d].at \in {"launch", "seal"} /\ driver'[d].slot = driver[d].slot + 1
          /\ driver'[d].read = driver[d].read
          /\ \A e \in Drivers \ {d} : driver'[e] = driver[e]
      BY <3>1, <1>a DEF Stands
    <3>3. driver[d].at = "wait" /\ UNCHANGED <<plan, manifest, campaign, bench, history>>
      BY <1>6 DEF ChildEnded, Is, files, ghosts
    <3>4. c \in Procs /\ bench[c].at = "done" /\ bench[c].slot = driver[d].slot
      BY <2>1, <3>3 DEF Succeeded, At, Typed, DriverPlaces, OneScript
    <3>5. driver[d].slot \in Nat /\ driver[d].slot <= n /\ n \in Nat
      BY <1>a, <3>4, CampaignAssumption DEF SlotsOrdered, Stands
    <3>6. \A q \in Procs : Used(q) => bench[q].slot <= driver[d].slot /\ bench[q].slot \in Nat
      BY <3>3, CampaignAssumption DEF OneScript, Used, Typed, BenchPlaces, Slot
    <3>7. n = driver[d].slot
      <4>1. CASE n = 0
        BY <3>5, <4>1
      <4>2. CASE n # 0
        <5>1. n \in 1 .. n
          BY <3>5, <4>2
        <5>2. history[n] \in Procs /\ Used(history[n]) /\ bench[history[n]].slot = n
          BY <1>a, <5>1 DEF SlotsOrdered
        <5> QED BY <3>5, <3>6, <5>2
      <4> QED BY <4>1, <4>2
    <3> HIDE DEF n, c
    <3>8. \A q \in Procs : Used(q) => bench[q].slot < driver'[d].slot
      BY <3>2, <3>5, <3>6
    <3>9. \A e \in Drivers \ {d} : driver[e].at \in Idle
      BY <3>3 DEF OneScript, Idle
    <3>10. SlotsOrdered' /\ RunsRecorded'
      <4>1. ReadsKept
        BY <3>2 DEF ReadsKept
      <4> QED BY <3>3, <4>1, <1>g
    <3>11. OneScript'
      <4>1. \A e, f \in Drivers : e # f /\ driver'[e].at \notin Idle => driver'[f].at \in Idle
        BY <3>2, <3>9
      <4>2. plan' # None
        BY <3>3 DEF OneScript
      <4>3. \A e \in Drivers : driver'[e].at \in {"freeze", "launch", "popen", "wait"} => e = d
        BY <3>2, <3>9 DEF Idle
      <4>4. n = driver'[d].slot - 1
        BY <3>2, <3>5, <3>7
      <4> QED BY <3>2, <3>3, <3>8, <4>1, <4>2, <4>3, <4>4 DEF OneScript, Used, n
    <3> QED BY <3>10, <3>11
  <2>2. CASE ~Succeeded(d)
    BY <1>6, <2>2, <1>b, <1>c, <1>f, <1>h DEF ChildEnded, Is, Idle
  <2> QED BY <2>1, <2>2
<1>7. CASE Interrupt(d)
  <2>1. Steered(d, "stopped") /\ driver[d].at = "wait" /\ UNCHANGED <<files, ghosts>>
    BY <1>7, <1>b, <1>c DEF Interrupt, Is
  <2>2. DriversCalm /\ ReadsKept
    BY <2>1, <1>h DEF Idle
  <2>3. \A q \in Procs :
          /\ bench'[q].slot = bench[q].slot /\ (Used(q)' <=> Used(q))
          /\ bench'[q].at \in Trying \cup {"check"} => bench[q].at \in Trying \cup {"check"}
          /\ bench'[q].at = "done" => bench[q].at = "done"
    BY <1>7, InterruptPath DEF Path, Used, Trying
  <2>4. BenchCalm
    BY <2>1, <2>3 DEF BenchCalm, Used, files, ghosts
  <2> QED BY <2>1, <2>2, <2>4, <1>e DEF files
<1>8. CASE Die(d)
  BY <1>8, <1>b, <1>c, <1>f, <1>h DEF Die
<1>9. CASE SealStart(d)
  <2>1. /\ driver'[d].at = "load" /\ driver'[d].read = driver[d].read /\ driver[d].at = "seal"
        /\ \A e \in Drivers \ {d} : driver'[e] = driver[e]
    BY <1>9, <1>a DEF SealStart, Is, Stands
  <2>2. DriversCalm /\ ReadsKept
    BY <2>1 DEF DriversCalm, ReadsKept, Idle
  <2> QED BY <1>9, <2>2, <1>f DEF SealStart
<1>10. CASE SealLoad(d)
  <2>1. CASE Valid(d, driver[d].slot)
    <3> DEFINE s == driver[d].slot
               n == Len(driver[d].read)
    <3>1. /\ driver' = [driver EXCEPT ![d].at = "cases", ![d].read = Append(@, manifest[s])]
          /\ driver[d].at = "load" /\ s <= NumSlots /\ UNCHANGED <<files, bench, ghosts>>
      BY <1>10, <2>1 DEF SealLoad, Is
    <3>2. /\ driver'[d].at = "cases" /\ driver'[d].read = Append(driver[d].read, manifest[s])
          /\ \A e \in Drivers \ {d} : driver'[e] = driver[e]
      BY <3>1, <1>a DEF Stands
    <3>3. s \in Slot /\ n = s - 1 /\ n \in Nat /\ driver[d].read \in Seq(Runs)
      BY <1>a, <3>1 DEF Typed, DriverPlaces, Stands, Slot
    <3>4. manifest[s] # None /\ manifest[s] \in Runs /\ manifest[s].status = "complete"
      BY <1>a, <2>1, <3>3 DEF Valid
    <3>5. Recorded(manifest[s], s)
      BY <3>3, <3>4 DEF RunsRecorded
    <3>6. /\ Len(driver'[d].read) = n + 1 /\ driver'[d].read[n + 1] = manifest[s] /\ n + 1 = s
          /\ \A i \in 1 .. n : driver'[d].read[i] = driver[d].read[i]
          /\ 1 .. (n + 1) = (1 .. n) \cup {n + 1}
      BY <3>2, <3>3, <3>4, <1>a DEF Stands
    <3> HIDE DEF n, s
    <3>7. DriversCalm
      BY <3>1, <3>2 DEF DriversCalm, Idle
    <3>8. BenchCalm
      BY <3>1, <1>d DEF files, ghosts
    <3>9. \A i \in 1 .. n : Recorded(driver[d].read[i], i)
      BY DEF RunsRecorded, n
    <3>10. \A i \in 1 .. (n + 1) : Recorded(driver'[d].read[i], i)
      BY <3>5, <3>6, <3>9
    <3>11. RunsRecorded'
      <4>1. history' = history /\ manifest' = manifest /\ campaign' = campaign
        BY <3>1 DEF files, ghosts
      <4>2. \A e \in Drivers : \A i \in 1 .. Len(driver'[e].read) : Recorded(driver'[e].read[i], i)
        BY <3>2, <3>6, <3>10 DEF RunsRecorded
      <4> QED BY <4>1, <4>2 DEF RunsRecorded, Recorded
    <3>12. SlotsOrdered' /\ OneScript'
      BY <3>1, <3>7, <3>8, SlotsKept, ScriptKept DEF files
    <3> QED BY <3>11, <3>12
  <2>2. CASE ~Valid(d, driver[d].slot)
    BY <1>10, <2>2, <1>b, <1>c, <1>f, <1>h DEF SealLoad, Is, Idle
  <2> QED BY <2>1, <2>2
<1>11. CASE SealCases(d)
  <2>1. CASE CasesMatch(driver[d].read[driver[d].slot])
    <3>1. /\ driver'[d].at = "load" /\ driver'[d].read = driver[d].read /\ driver[d].at = "cases"
          /\ \A e \in Drivers \ {d} : driver'[e] = driver[e]
      BY <1>11, <2>1, <1>a DEF SealCases, Is, Stands
    <3>2. DriversCalm /\ ReadsKept
      BY <3>1 DEF DriversCalm, ReadsKept, Idle
    <3> QED BY <1>11, <3>2, <1>f DEF SealCases
  <2>2. CASE ~CasesMatch(driver[d].read[driver[d].slot])
    BY <1>11, <2>2, <1>b, <1>c, <1>f, <1>h DEF SealCases, Is, Idle
  <2> QED BY <2>1, <2>2
<1>12. CASE SealCheck(d)
  BY <1>12, <1>b, <1>c, <1>f, <1>h DEF SealCheck, Is, Idle
<1>13. CASE SealWrite(d)
  <2>1. /\ Steered(d, "sealed") /\ driver[d].at = "write"
        /\ campaign' = [by |-> d, under |-> driver[d].under, runs |-> driver[d].read]
        /\ UNCHANGED <<plan, manifest, bench, history>>
    BY <1>13, <1>b, <1>c DEF SealWrite, Is, ghosts
  <2>2. Len(driver[d].read) = NumSlots /\ campaign'.runs = driver[d].read
    BY <2>1 DEF Typed, DriverPlaces
  <2>3. \A s \in Slot : Recorded(driver[d].read[s], s)
    BY <2>2 DEF RunsRecorded, Slot
  <2>4. DriversCalm /\ ReadsKept
    BY <2>1, <1>h DEF Idle
  <2>5. BenchCalm
    BY <2>1, <1>d
  <2>6. SlotsOrdered' /\ OneScript'
    BY <2>1, <2>4, <2>5, SlotsKept, ScriptKept
  <2>7. RunsRecorded'
    BY <2>1, <2>2, <2>3, <2>4 DEF RunsRecorded, Recorded, ReadsKept
  <2> QED BY <2>6, <2>7
<1> QED
  BY <1>1, <1>2, <1>3, <1>4, <1>5, <1>6, <1>7, <1>8, <1>9, <1>10, <1>11, <1>12, <1>13 DEF DriverStep

\* The order holds as long as only the script starts runs.
LEMMA OrderHolds ==
  ASSUME ByHand = {}
  PROVE  Spec => [](Typed /\ OrderInv)
<1>1. Init => Typed /\ OrderInv
  <2> SUFFICES ASSUME Init PROVE OrderInv
    BY InitTyped
  <2> USE DEF Init
  <2>1. SlotsOrdered
    BY DEF SlotsOrdered, Used, Trying
  <2>2. RunsRecorded
    BY DEF RunsRecorded
  <2>3. OneScript
    BY DEF OneScript, Used, Idle
  <2> QED BY <2>1, <2>2, <2>3 DEF OrderInv
<1>2. Typed /\ OrderInv /\ [Next]_vars => (Typed /\ OrderInv)'
  <2> SUFFICES ASSUME Typed, OrderInv, [Next]_vars PROVE OrderInv'
    BY NextTyped
  <2>1. ASSUME BenchCalm, UNCHANGED <<driver, plan, campaign>> PROVE OrderInv'
    <3>1. DriversCalm /\ ReadsKept
      BY <2>1 DEF DriversCalm, ReadsKept
    <3> QED BY <2>1, <3>1, SlotsKept, RecordsKept, ScriptKept DEF OrderInv
  <2>2. ASSUME NEW p \in Procs, BenchStep(p) \/ Raise(p) \/ Kill(p) PROVE OrderInv'
    <3>1. UNCHANGED <<driver, plan, campaign>>
      BY <2>2 DEF BenchStep, Raise, Kill, CheckFiles, EnterGpu, CheckRuntime, SnapshotBefore,
         Measure, SnapshotAfter, SealCase, HashCase, WriteTable, WriteManifest, Handle, files
    <3> QED BY <2>1, <2>2, <3>1, BenchIsCalm, CompletesInOrder
  <2>3. CASE UNCHANGED vars
    <3>1. BenchCalm /\ UNCHANGED <<driver, plan, campaign>>
      BY <2>3 DEF vars, files, ghosts, BenchCalm, Used
    <3> QED BY <2>1, <3>1
  <2>4. ~LaunchByHand
    BY DEF LaunchByHand
  <2> QED BY <2>2, <2>3, <2>4, DriverInOrder DEF Next
<1> QED BY <1>1, <1>2, PTL DEF Spec

\* When nobody starts a benchmark beside the script, a sealed campaign completed
\* every slot once and in the frozen order, whatever was interrupted, orphaned,
\* killed or started again.
THEOREM SlotsInOrder ==
  ASSUME ByHand = {}
  PROVE  Spec => []InFrozenOrder
<1>1. Typed /\ OrderInv => InFrozenOrder
  <2> SUFFICES ASSUME Typed, OrderInv, campaign # None
               PROVE  history = [s \in Slot |-> campaign.runs[s].by]
    BY DEF InFrozenOrder
  <2> DEFINE n == Len(history)
  <2>1. history \in Seq(Procs) /\ n \in Nat /\ NumSlots \in Nat \ {0}
    BY CampaignAssumption DEF Typed, TypeOK, GhostsOK
  <2>2. \A s \in Slot : s <= n /\ history[s] = campaign.runs[s].by
    BY DEF OrderInv, RunsRecorded, Recorded
  <2>3. n >= NumSlots
    BY <2>1, <2>2 DEF Slot
  <2>4. n \in 1 .. n
    BY <2>1, <2>3
  <2>5. history[n] \in Procs /\ Used(history[n]) /\ bench[history[n]].slot = n
    BY <2>1, <2>4 DEF OrderInv, SlotsOrdered
  <2>6. n \in Slot
    BY <2>5 DEF Used, Typed, BenchPlaces
  <2>7. n = NumSlots
    BY <2>1, <2>3, <2>6 DEF Slot
  <2>8. history = [s \in 1 .. n |-> history[s]]
    BY <2>1
  <2> QED BY <2>2, <2>7, <2>8 DEF Slot
<1> QED BY <1>1, OrderHolds, PTL

-----------------------------------------------------------------------------
(* Decision.  What a campaign concludes is no artefact of the drift: the two *)
(* positions of an arm add up to five in either order, and the first and the *)
(* last of the ratios say something of all.                                  *)

\* A nonempty set of naturals has a least element.
LEMMA HasLeast ==
  ASSUME NEW S \in SUBSET Nat, S # {}
  PROVE  \E x \in S : \A y \in S : x <= y
<1> DEFINE less == {p \in Nat \X Nat : p[1] < p[2]}
<1>1. IsWellFoundedOn(less, Nat)
  BY NatLessThanWellFounded DEF OpToRel
<1>2. \A y, x \in Nat : <<y, x>> \in less <=> y < x
  OBVIOUS
<1> HIDE DEF less
<1>3. PICK x \in S : \A y \in S : ~(<<y, x>> \in less)
  BY <1>1, WFMin
<1>4. \A y \in S : x <= y
  <2> TAKE y \in S
  <2>1. y \in Nat /\ x \in Nat /\ ~(y < x)
    BY <1>2, <1>3
  <2> QED BY <2>1
<1> QED BY <1>4


\* The equation of a sum over the subsets of T, by any choice.
Sums(it, T, g) ==
  it = [s \in SUBSET T |-> IF s = {} THEN 0
                           ELSE LET z == CHOOSE z \in s : TRUE IN g[z] + it[s \ {z}]]

LEMMA SumOfTwo ==
  ASSUME NEW x, NEW y, x # y, NEW g \in [{x, y} -> Int]
  PROVE  /\ \E it : Sums(it, {x, y}, g)
         /\ \A it : Sums(it, {x, y}, g) => it[{x, y}] = g[x] + g[y]
<1> DEFINE T == {x, y}
           w == [s \in SUBSET T |-> (IF x \in s THEN g[x] ELSE 0) + (IF y \in s THEN g[y] ELSE 0)]
           one(s) == CHOOSE z \in s : TRUE
<1>1. \A s \in SUBSET T : s # {} => one(s) \in s
  OBVIOUS
<1>2. g[x] \in Int /\ g[y] \in Int
  OBVIOUS
<1>3. \A s \in SUBSET T : w[s] = IF s = {} THEN 0 ELSE g[one(s)] + w[s \ {one(s)}]
  <2> TAKE s \in SUBSET T
  <2>1. CASE s = {}
    BY <2>1
  <2>2. CASE s # {}
    <3> HIDE DEF one
    <3>1. one(s) \in s /\ s \ {one(s)} \in SUBSET T
      BY <1>1, <2>2
    <3>2. CASE one(s) = x
      BY <3>1, <3>2, <1>2, <2>2
    <3>3. CASE one(s) = y
      BY <3>1, <3>3, <1>2, <2>2
    <3> QED BY <3>1, <3>2, <3>3
  <2> QED BY <2>1, <2>2
<1>4. Sums(w, T, g)
  <2> HIDE DEF w
  <2>1. w = [s \in SUBSET T |-> w[s]]
    BY DEF w
  <2> QED BY <2>1, <1>3 DEF Sums
<1>5. ASSUME NEW it, Sums(it, T, g) PROVE it[T] = g[x] + g[y]
  <2>1. \A s \in SUBSET T : it[s] = IF s = {} THEN 0 ELSE g[one(s)] + it[s \ {one(s)}]
    BY <1>5 DEF Sums
  <2>2. it[{}] = 0
    BY <2>1
  <2>3. \A z \in T : it[{z}] = g[z]
    <3> TAKE z \in T
    <3>1. one({z}) = z
      BY <1>1
    <3> QED BY <2>1, <2>2, <3>1, <1>2
  <2>4. one(T) \in T
    BY <1>1
  <2>5. it[T] = g[one(T)] + it[T \ {one(T)}]
    BY <2>1
  <2> HIDE DEF one
  <2>6. CASE one(T) = x
    <3>1. T \ {x} = {y}
      OBVIOUS
    <3> QED BY <2>5, <2>6, <3>1, <2>3
  <2>7. CASE one(T) = y
    <3>1. T \ {y} = {x} /\ it[{x}] = g[x]
      BY <2>3
    <3>2. it[T] = g[y] + it[T \ {y}]
      <4> HIDE DEF T
      <4> QED BY <2>5, <2>7
    <3>3. g[y] + g[x] = g[x] + g[y]
      BY <1>2
    <3>4. it[T \ {y}] = g[x]
      BY <3>1
    <3> HIDE DEF T
    <3> QED BY <3>2, <3>3, <3>4
  <2> QED BY <2>4, <2>6, <2>7
<1> QED BY <1>4, <1>5

ArmMedians(b, c, arm) == ArmSum(b, c, arm, RunMedian)

\* The medians of an arm's runs in a block are those of its two positions.
LEMMA ArmSumIs ==
  ASSUME NEW b, NEW c, NEW arm, NEW x \in 1..4, NEW y \in 1..4, x # y,
         {p \in 1..4 : ArmAt(orders[b], p) = arm} = {x, y},
         RunMedian(b, c, x) \in Int, RunMedian(b, c, y) \in Int
  PROVE  ArmMedians(b, c, arm) = RunMedian(b, c, x) + RunMedian(b, c, y)
<1> DEFINE g == [p \in {x, y} |-> RunMedian(b, c, p)]
           Eq(it) == [s \in SUBSET {x, y} |-> IF s = {} THEN 0
                       ELSE LET z == CHOOSE z \in s : TRUE IN RunMedian(b, c, z) + it[s \ {z}]]
           iter == CHOOSE it : it = Eq(it)
<1>1. ArmMedians(b, c, arm) = iter[{x, y}]
  BY DEF ArmMedians, ArmSum, MapThenSumSet, MapThenFoldSet
<1>2. g \in [{x, y} -> Int] /\ \A p \in {x, y} : g[p] = RunMedian(b, c, p)
  OBVIOUS
<1>3. ASSUME NEW it PROVE it = Eq(it) <=> Sums(it, {x, y}, g)
  <2> HIDE DEF g
  <2>1. \A s \in SUBSET {x, y} : s # {} => (CHOOSE z \in s : TRUE) \in {x, y}
    OBVIOUS
  <2>2. \A s \in SUBSET {x, y} : s # {} => g[CHOOSE z \in s : TRUE] = RunMedian(b, c, CHOOSE z \in s : TRUE)
    BY <1>2, <2>1
  <2>3. Eq(it) = [s \in SUBSET {x, y} |-> IF s = {} THEN 0
                    ELSE LET z == CHOOSE z \in s : TRUE IN g[z] + it[s \ {z}]]
    BY <2>2
  <2> QED BY <2>3 DEF Sums
<1> HIDE DEF g, Eq
<1>4. PICK it : Sums(it, {x, y}, g)
  BY <1>2, SumOfTwo
<1>5. iter = Eq(iter)
  BY <1>3, <1>4
<1>6. Sums(iter, {x, y}, g)
  BY <1>3, <1>5
<1> HIDE DEF iter
<1>7. iter[{x, y}] = g[x] + g[y]
  <2>1. \A f : Sums(f, {x, y}, g) => f[{x, y}] = g[x] + g[y]
    BY ONLY x # y, <1>2, SumOfTwo
  <2> QED BY <2>1, <1>6
<1> QED BY <1>1, <1>7, <1>2

\* The positions of an arm add up to five, in either order.
LEMMA DriftAddsUp ==
  ASSUME NEW a \in Int, NEW d \in Int, \A p \in 1 .. 4 : a + d * p > 0
  PROVE  /\ \A p \in 1 .. 4 : a + d * p \in Int
         /\ (a + d * 1) + (a + d * 4) = 2 * a + 5 * d
         /\ (a + d * 2) + (a + d * 3) = 2 * a + 5 * d
         /\ 2 * a + 5 * d \in Nat \ {0}
<1>1. a + d * 1 > 0 /\ a + d * 4 > 0
  OBVIOUS
<1> QED BY <1>1

\* What the two runs of each arm come to in block b: the same drift.
ArmIs(b, c, arm) ==
  \E a \in Int, d \in Int :
    /\ a = blocks[b].latency[c][arm] /\ d = blocks[b].drift
    /\ ArmMedians(b, c, arm) = 2 * a + 5 * d
    /\ 2 * a + 5 * d \in Nat \ {0}

LEMMA ArmsOfBlock ==
  ASSUME orders \in OrderPlans, blocks \in Seq(Shifts), Len(blocks) <= Len(orders),
         NEW c \in CampaignCases, NEW b \in DOMAIN blocks, NEW arm \in {"A", "B"}
  PROVE  ArmIs(b, c, arm)
<1>1. orders[b] \in {"ABBA", "BAAB"}
  <2>1. orders \in Seq({"ABBA", "BAAB"}) /\ b \in 1 .. Len(orders)
    BY FewBlocks
  <2> QED BY <2>1
<1>2. PICK a \in Int, d \in Int :
        /\ a = blocks[b].latency[c][arm] /\ d = blocks[b].drift
        /\ \A p \in 1 .. 4 : a + d * p > 0
  <2>1. blocks[b] \in Shifts
    OBVIOUS
  <2> QED BY <2>1, LatenciesArePositive
<1>3. \A p \in 1 .. 4 : ArmAt(orders[b], p) = arm => RunMedian(b, c, p) = a + d * p
  BY <1>2 DEF RunMedian
<1>4. /\ \A p \in 1 .. 4 : a + d * p \in Int
      /\ (a + d * 1) + (a + d * 4) = 2 * a + 5 * d
      /\ (a + d * 2) + (a + d * 3) = 2 * a + 5 * d
      /\ 2 * a + 5 * d \in Nat \ {0}
  BY <1>2, DriftAddsUp
<1>5. \/ {p \in 1 .. 4 : ArmAt(orders[b], p) = arm} = {1, 4}
      \/ {p \in 1 .. 4 : ArmAt(orders[b], p) = arm} = {2, 3}
  BY <1>1 DEF ArmAt
<1>6. ASSUME NEW x \in 1 .. 4, NEW y \in 1 .. 4, x # y,
             {p \in 1 .. 4 : ArmAt(orders[b], p) = arm} = {x, y}
      PROVE  ArmMedians(b, c, arm) = (a + d * x) + (a + d * y)
  <2>1. RunMedian(b, c, x) = a + d * x /\ RunMedian(b, c, y) = a + d * y
    BY <1>3, <1>6
  <2>2. RunMedian(b, c, x) \in Int /\ RunMedian(b, c, y) \in Int
    BY <2>1, <1>4
  <2>3. ArmMedians(b, c, arm) = RunMedian(b, c, x) + RunMedian(b, c, y)
    BY <1>6, <2>2, ArmSumIs
  <2> QED BY <2>1, <2>3
<1>7. ArmMedians(b, c, arm) = 2 * a + 5 * d
  <2>1. CASE {p \in 1 .. 4 : ArmAt(orders[b], p) = arm} = {1, 4}
    BY <1>6, <2>1, <1>4
  <2>2. CASE {p \in 1 .. 4 : ArmAt(orders[b], p) = arm} = {2, 3}
    BY <1>6, <2>2, <1>4
  <2> QED BY <1>5, <2>1, <2>2
<1> QED BY <1>2, <1>4, <1>7 DEF ArmIs

LEMMA SpeedupIs ==
  ASSUME orders \in OrderPlans, blocks \in Seq(Shifts), Len(blocks) <= Len(orders),
         NEW c \in CampaignCases
  PROVE  /\ Speedup(c) \in [1 .. Len(blocks) -> [num : Nat \ {0}, den : Nat \ {0}]]
         /\ \A b \in 1 .. Len(blocks) : LET l == blocks[b].latency[c] IN
              /\ Speedup(c)[b].num > Speedup(c)[b].den => l["B"] < l["A"]
              /\ Speedup(c)[b].num < Speedup(c)[b].den => l["A"] < l["B"]
<1>1. /\ DOMAIN blocks = 1 .. Len(blocks)
      /\ Speedup(c) = [b \in 1 .. Len(blocks) |-> Ratio(ArmMedians(b, c, "A"), ArmMedians(b, c, "B"))]
  BY DEF Speedup, ArmMedians
<1>2. ASSUME NEW b \in 1 .. Len(blocks)
      PROVE  /\ b \in DOMAIN blocks
             /\ Speedup(c)[b] \in [num : Nat \ {0}, den : Nat \ {0}]
             /\ Speedup(c)[b].num > Speedup(c)[b].den => blocks[b].latency[c]["B"] < blocks[b].latency[c]["A"]
             /\ Speedup(c)[b].num < Speedup(c)[b].den => blocks[b].latency[c]["A"] < blocks[b].latency[c]["B"]
  <2> b \in DOMAIN blocks
    BY <1>1
  <2>0. ArmIs(b, c, "A") /\ ArmIs(b, c, "B")
    BY ArmsOfBlock
  <2>1. PICK x \in Int, d \in Int :
           /\ x = blocks[b].latency[c]["A"] /\ d = blocks[b].drift
           /\ ArmMedians(b, c, "A") = 2 * x + 5 * d /\ 2 * x + 5 * d \in Nat \ {0}
    BY <2>0 DEF ArmIs
  <2>2. PICK y \in Int, e \in Int :
           /\ y = blocks[b].latency[c]["B"] /\ e = blocks[b].drift
           /\ ArmMedians(b, c, "B") = 2 * y + 5 * e /\ 2 * y + 5 * e \in Nat \ {0}
    BY <2>0 DEF ArmIs
  <2>3. Speedup(c)[b] = [num |-> 2 * x + 5 * d, den |-> 2 * y + 5 * d] /\ d = e
    BY <1>1, <2>1, <2>2 DEF Ratio
  <2>4. 2 * x + 5 * d > 2 * y + 5 * d <=> y < x
    OBVIOUS
  <2>5. 2 * x + 5 * d < 2 * y + 5 * d <=> x < y
    OBVIOUS
  <2>6. /\ Speedup(c)[b].num = 2 * x + 5 * d /\ Speedup(c)[b].den = 2 * y + 5 * d
        /\ Speedup(c)[b] \in [num : Nat \ {0}, den : Nat \ {0}]
    BY <2>1, <2>2, <2>3
  <2> QED BY <2>1, <2>2, <2>4, <2>5, <2>6
<1> QED BY <1>1, <1>2

PositiveRatio == [num : Nat \ {0}, den : Nat \ {0}]

\* At most is an order of ratios.
LEMMA AtMostOrders ==
  ASSUME NEW r \in PositiveRatio, NEW s \in PositiveRatio, NEW t \in PositiveRatio
  PROVE  /\ AtMost(r, r) /\ (AtMost(r, s) \/ AtMost(s, r))
         /\ AtMost(r, s) /\ AtMost(s, t) => AtMost(r, t)
<1> USE DEF PositiveRatio
<1>1. ASSUME NEW a \in Nat \ {0}, NEW b \in Nat \ {0}, NEW x \in Nat \ {0}, NEW y \in Nat \ {0},
             NEW u \in Nat \ {0}, NEW v \in Nat \ {0}, a * y <= x * b, x * v <= u * y
      PROVE  a * v <= u * b
  <2>1. (a * y) * v <= (x * b) * v /\ (x * v) * b <= (u * y) * b
    BY <1>1
  <2>2. (a * v) * y <= (u * b) * y
    BY <2>1
  <2> QED BY <2>2
<1>2. /\ r.num \in Nat \ {0} /\ r.den \in Nat \ {0} /\ s.num \in Nat \ {0} /\ s.den \in Nat \ {0}
      /\ t.num \in Nat \ {0} /\ t.den \in Nat \ {0}
  OBVIOUS
<1>3. AtMost(r, r) /\ (AtMost(r, s) \/ AtMost(s, r))
  BY <1>2 DEF AtMost
<1>4. AtMost(r, s) /\ AtMost(s, t) => AtMost(r, t)
  BY <1>1, <1>2 DEF AtMost
<1> QED BY <1>3, <1>4

\* Of finitely many ratios one is the least and one the greatest.
LEMMA ExtremesExist ==
  ASSUME NEW n \in Nat \ {0}, NEW f \in [1 .. n -> PositiveRatio]
  PROVE  /\ \E a \in 1 .. n : \A b \in 1 .. n : AtMost(f[a], f[b])
         /\ \E a \in 1 .. n : \A b \in 1 .. n : AtMost(f[b], f[a])
<1> DEFINE Least(m) == \E a \in 1 .. m : \A b \in 1 .. m : AtMost(f[a], f[b])
           Most(m)  == \E a \in 1 .. m : \A b \in 1 .. m : AtMost(f[b], f[a])
           Bad == {m \in 1 .. n : ~(Least(m) /\ Most(m))}
<1>1. \A a, b, c \in 1 .. n : /\ AtMost(f[a], f[a]) /\ (AtMost(f[a], f[b]) \/ AtMost(f[b], f[a]))
                              /\ AtMost(f[a], f[b]) /\ AtMost(f[b], f[c]) => AtMost(f[a], f[c])
  BY AtMostOrders
<1>2. ASSUME Bad # {} PROVE FALSE
  <2>1. PICK m \in Bad : \A k \in Bad : m <= k
    <3>1. Bad \in SUBSET Nat
      OBVIOUS
    <3> HIDE DEF Bad
    <3> QED BY <3>1, <1>2, HasLeast
  <2>2. CASE m = 1
    BY <2>1, <2>2, <1>1
  <2>3. CASE m # 1
    <3>1. m - 1 \in 1 .. n /\ m - 1 \notin Bad /\ 1 .. m = 1 .. m - 1 \cup {m} /\ m \in 1 .. n
      <4>1. m \in 1 .. n
        OBVIOUS
      <4>2. m - 1 \in 1 .. n /\ 1 .. m = 1 .. m - 1 \cup {m} /\ ~(m <= m - 1)
        BY <4>1, <2>3
      <4> HIDE DEF Bad
      <4> QED BY <4>1, <4>2, <2>1
    <3>2. PICK a \in 1 .. m - 1 : \A b \in 1 .. m - 1 : AtMost(f[a], f[b])
      BY <3>1
    <3>3. PICK z \in 1 .. m - 1 : \A b \in 1 .. m - 1 : AtMost(f[b], f[z])
      BY <3>1
    <3>4. Least(m)
      <4>1. CASE AtMost(f[a], f[m])
        BY <4>1, <3>1, <3>2
      <4>2. CASE AtMost(f[m], f[a])
        <5>1. \A b \in 1 .. m - 1 : AtMost(f[m], f[b])
          BY <4>2, <3>1, <3>2, <1>1
        <5> QED BY <5>1, <3>1, <1>1
      <4> QED BY <4>1, <4>2, <3>1, <1>1
    <3>5. Most(m)
      <4>1. CASE AtMost(f[m], f[z])
        BY <4>1, <3>1, <3>3
      <4>2. CASE AtMost(f[z], f[m])
        <5>1. \A b \in 1 .. m - 1 : AtMost(f[b], f[m])
          BY <4>2, <3>1, <3>3, <1>1
        <5> QED BY <5>1, <3>1, <1>1
      <4> QED BY <4>1, <4>2, <3>1, <1>1
    <3> QED BY <2>1, <3>4, <3>5
  <2> QED BY <2>2, <2>3
<1>3. n \in 1 .. n
  OBVIOUS
<1>4. n \notin Bad
  <2> HIDE DEF Bad
  <2> QED BY <1>2
<1> QED BY <1>3, <1>4

\* The first of them is at most any, the last of n at least any.
LEMMA KthIsExtreme ==
  ASSUME NEW n \in Nat \ {0}, NEW f \in [1 .. n -> PositiveRatio]
  PROVE  /\ Kth(f, 1) \in PositiveRatio /\ Kth(f, n) \in PositiveRatio
         /\ \A b \in 1 .. n : AtMost(Kth(f, 1), f[b]) /\ AtMost(f[b], Kth(f, n))
<1> DEFINE below(r) == {b \in DOMAIN f : Less(f[b], r)}
           upto(r) == {b \in DOMAIN f : AtMost(f[b], r)}
           range == {f[b] : b \in DOMAIN f}
<1>1. DOMAIN f = 1 .. n /\ IsFiniteSet(DOMAIN f) /\ Cardinality(DOMAIN f) = n
  BY FS_Interval
<1>2. \A r : /\ IsFiniteSet(below(r)) /\ Cardinality(below(r)) \in Nat
             /\ IsFiniteSet(upto(r)) /\ Cardinality(upto(r)) \in Nat
             /\ Cardinality(upto(r)) <= n
             /\ Cardinality(below(r)) = 0 <=> below(r) = {}
             /\ Cardinality(upto(r)) = 0 <=> upto(r) = {}
             /\ Cardinality(upto(r)) = n => upto(r) = DOMAIN f
  <2> TAKE r
  <2>1. below(r) \subseteq DOMAIN f /\ upto(r) \subseteq DOMAIN f
    OBVIOUS
  <2> HIDE DEF below, upto
  <2> QED BY <1>1, <2>1, FS_Subset, FS_CardinalityType, FS_EmptySet
<1>3. \A a, b \in 1 .. n : /\ AtMost(f[a], f[a]) /\ (AtMost(f[a], f[b]) \/ AtMost(f[b], f[a]))
  BY AtMostOrders
<1>4. /\ Kth(f, 1) = CHOOSE r \in range : Cardinality(below(r)) < 1 /\ Cardinality(upto(r)) >= 1
      /\ Kth(f, n) = CHOOSE r \in range : Cardinality(below(r)) < n /\ Cardinality(upto(r)) >= n
  BY DEF Kth
<1>5. \E r \in range : Cardinality(below(r)) < 1 /\ Cardinality(upto(r)) >= 1
  <2>1. PICK a \in 1 .. n : \A b \in 1 .. n : AtMost(f[a], f[b])
    BY ExtremesExist
  <2>2. below(f[a]) = {} /\ a \in upto(f[a])
    BY <2>1, <1>1, <1>3 DEF Less
  <2>3. Cardinality(below(f[a])) < 1 /\ Cardinality(upto(f[a])) >= 1
    <3> HIDE DEF below, upto
    <3>1. Cardinality(below(f[a])) = 0
      BY <2>2, <1>2
    <3>2. Cardinality(upto(f[a])) # 0 /\ Cardinality(upto(f[a])) \in Nat
      BY <2>2, <1>2
    <3> QED BY <3>1, <3>2
  <2> QED BY <2>3, <1>1
<1>6. \E r \in range : Cardinality(below(r)) < n /\ Cardinality(upto(r)) >= n
  <2>1. PICK a \in 1 .. n : \A b \in 1 .. n : AtMost(f[b], f[a])
    BY ExtremesExist
  <2>2. a \notin below(f[a]) /\ upto(f[a]) = DOMAIN f /\ below(f[a]) \subseteq DOMAIN f /\ a \in DOMAIN f
    BY <2>1, <1>1, <1>3 DEF Less
  <2>3. Cardinality(below(f[a])) < n /\ Cardinality(upto(f[a])) >= n
    <3> HIDE DEF below, upto
    <3>1. below(f[a]) # DOMAIN f
      BY <2>2
    <3> QED BY <2>2, <3>1, <1>1, <1>2, FS_Subset
  <2> QED BY <2>3, <1>1
<1>7. Cardinality(below(Kth(f, 1))) < 1 /\ Kth(f, 1) \in range
  <2> HIDE DEF below, upto, range
  <2> QED BY <1>4, <1>5
<1>8. Cardinality(upto(Kth(f, n))) >= n /\ Kth(f, n) \in range
  <2> HIDE DEF below, upto, range
  <2> QED BY <1>4, <1>6
<1>9. below(Kth(f, 1)) = {} /\ upto(Kth(f, n)) = DOMAIN f
  <2> HIDE DEF below, upto, range
  <2> QED BY <1>7, <1>8, <1>2
<1>10. \A b \in 1 .. n : AtMost(Kth(f, 1), f[b]) /\ AtMost(f[b], Kth(f, n))
  BY <1>1, <1>9 DEF Less
<1>11. range \subseteq PositiveRatio
  BY <1>1
<1> HIDE DEF range
<1> QED BY <1>7, <1>8, <1>10, <1>11

\* What a case's status says of every block.
LEMMA StatusTells ==
  ASSUME orders \in OrderPlans, blocks \in Seq(Shifts), Len(blocks) = Len(orders),
         NEW c \in CampaignCases
  PROVE  \A b \in DOMAIN blocks : LET l == blocks[b].latency[c] IN
           /\ CaseStatus(c) = "improved" => l["B"] < l["A"]
           /\ CaseStatus(c) = "regressed" => l["A"] < l["B"]
<1> DEFINE n == Len(blocks)
           f == Speedup(c)
<1>1. n \in Nat \ {0} /\ DOMAIN blocks = 1 .. n /\ Len(blocks) <= Len(orders)
  BY FewBlocks
<1>2. f \in [1 .. n -> PositiveRatio] /\ Len(f) = n
  BY <1>1, SpeedupIs DEF PositiveRatio, Speedup
<1>3. /\ CaseStatus(c) = "improved" => Less(One, Kth(f, 1))
      /\ CaseStatus(c) = "regressed" => Less(Kth(f, n), One)
  BY <1>2 DEF CaseStatus
<1>4. \A b \in 1 .. n : AtMost(Kth(f, 1), f[b]) /\ AtMost(f[b], Kth(f, n))
  BY <1>1, <1>2, KthIsExtreme
<1>5. Kth(f, 1) \in PositiveRatio /\ Kth(f, n) \in PositiveRatio
  BY <1>1, <1>2, KthIsExtreme
<1>6. ASSUME NEW r \in PositiveRatio, NEW s \in PositiveRatio, AtMost(r, s)
      PROVE  /\ Less(One, r) => s.num > s.den
             /\ Less(s, One) => r.num < r.den
             /\ Less(One, s) <=> s.num > s.den
             /\ Less(s, One) <=> s.num < s.den
  <2>1. ASSUME NEW a \in Nat \ {0}, NEW b \in Nat \ {0}, NEW x \in Nat \ {0}, NEW y \in Nat \ {0}, a * y <= x * b
        PROVE  (a > b => x > y) /\ (x < y => a < b)
    <3>1. ASSUME a > b PROVE x > y
      <4>1. a * y > b * y
        BY <3>1
      <4>2. x * b > y * b
        BY <4>1, <2>1
      <4> QED BY <4>2
    <3>2. ASSUME x < y PROVE a < b
      <4>1. x * b < y * b
        BY <3>2
      <4>2. a * y < b * y
        BY <4>1, <2>1
      <4> QED BY <4>2
    <3> QED BY <3>1, <3>2
  <2>2. /\ r.num \in Nat \ {0} /\ r.den \in Nat \ {0} /\ s.num \in Nat \ {0} /\ s.den \in Nat \ {0}
        /\ r.num * s.den <= s.num * r.den
    BY <1>6 DEF PositiveRatio, AtMost
  <2>3. /\ Less(One, r) <=> r.num > r.den
        /\ Less(One, s) <=> s.num > s.den
        /\ Less(s, One) <=> s.num < s.den
    BY <2>2 DEF Less, AtMost, One, Ratio
  <2> QED BY <2>1, <2>2, <2>3
<1>7. ASSUME NEW b \in 1 .. n
      PROVE  /\ CaseStatus(c) = "improved" => f[b].num > f[b].den
             /\ CaseStatus(c) = "regressed" => f[b].num < f[b].den
  <2>1. f[b] \in PositiveRatio /\ AtMost(Kth(f, 1), f[b]) /\ AtMost(f[b], Kth(f, n))
    BY <1>2, <1>4
  <2>2. Less(One, Kth(f, 1)) => f[b].num > f[b].den
    BY <2>1, <1>5, <1>6
  <2>3. Less(Kth(f, n), One) => f[b].num < f[b].den
    BY <2>1, <1>5, <1>6
  <2> QED BY <2>2, <2>3, <1>3
<1>8. \A b \in 1 .. n : LET l == blocks[b].latency[c] IN
        (f[b].num > f[b].den => l["B"] < l["A"]) /\ (f[b].num < f[b].den => l["A"] < l["B"])
  BY <1>1, SpeedupIs
<1> QED BY <1>1, <1>7, <1>8

DecisionInv ==
  /\ orders \in OrderPlans /\ blocks \in Seq(Shifts) /\ Len(blocks) <= Len(orders)
  /\ decision # Undecided => Len(blocks) = Len(orders) /\ DriftCancels

\* A verdict of a campaign is never the drift's, for any plan of three to five
\* blocks, any cases and any latencies.
THEOREM DriftIsNoVerdict == DecisionSpec => []DriftCancels
<1>1. DecisionInit => DecisionInv
  BY FewBlocks DEF DecisionInit, DecisionInv
<1>2. DecisionInv /\ [DecisionNext]_decisionVars => DecisionInv'
  <2> SUFFICES ASSUME DecisionInv, [DecisionNext]_decisionVars PROVE DecisionInv'
    OBVIOUS
  <2>1. CASE RunBlock
    <3>1. Len(orders) \in Nat /\ Len(blocks) \in Nat
      BY FewBlocks DEF DecisionInv
    <3> QED BY <2>1, <3>1 DEF RunBlock, DecisionInv
  <2>2. CASE Decide
    <3>1. /\ UNCHANGED <<orders, blocks>> /\ Len(blocks) = Len(orders)
          /\ decision'.cases = [c \in CampaignCases |-> CaseStatus(c)]
          /\ decision'.overall = Overall(decision'.cases)
      BY <2>2 DEF Decide
    <3>2. /\ decision'.overall = "improved" => \A c \in CampaignCases : CaseStatus(c) = "improved"
          /\ decision'.overall = "regressed" => \E c \in CampaignCases : CaseStatus(c) = "regressed"
      BY <3>1 DEF Overall
    <3>3. \A c \in CampaignCases : \A b \in DOMAIN blocks :
            /\ CaseStatus(c) = "improved" => blocks[b].latency[c]["B"] < blocks[b].latency[c]["A"]
            /\ CaseStatus(c) = "regressed" => blocks[b].latency[c]["A"] < blocks[b].latency[c]["B"]
      BY <3>1, StatusTells DEF DecisionInv
    <3>4. DriftCancels'
      BY <3>1, <3>2, <3>3 DEF DriftCancels
    <3> QED BY <3>1, <3>4 DEF DecisionInv
  <2>3. CASE UNCHANGED decisionVars
    BY <2>3 DEF decisionVars, DecisionInv, DriftCancels
  <2> QED BY <2>1, <2>2, <2>3 DEF DecisionNext
<1>3. DecisionInv => DriftCancels
  BY DEF DecisionInv, DriftCancels, Undecided
<1> QED BY <1>1, <1>2, <1>3, PTL DEF DecisionSpec
-----------------------------------------------------------------------------
(* write_json_atomic, for any number of concurrent calls and any values: the *)
(* artifact is never torn, an acknowledged value is durable in a directory   *)
(* that was kept, and the file is one that is replaced as a whole.           *)

\* What the temporary file of a call holds at each of its steps.
TempInv ==
  \A w \in Writers :
    /\ call[w].at \in {"serialize", "mkdir", "create", "opendir", "syncdir", "returned",
                       "acknowledged", "raised"} => temp[w] = NoTemp
    /\ CallAt(w, "write") => temp[w] = [value |-> Torn, synced |-> FALSE]
    /\ CallAt(w, "sync") => temp[w] = [value |-> call[w].value, synced |-> FALSE]
    /\ call[w].at \in {"chmod", "replace"} => temp[w] = [value |-> call[w].value, synced |-> TRUE]
    /\ call[w].at \in Steps \ {"serialize", "raised", "dead"} => call[w].value \in Values

\* Only whole and synced files ever carry the destination's name.
Whole ==
  /\ file.synced /\ file.value # Torn
  /\ disk.synced /\ disk.value # Torn

\* A directory that a call found kept stays so.
KeptInv == \A w \in Writers : call[w].found = "kept" => dir = "kept"

\* Versions grow, and a version belongs to the call that made it.
VersionInv ==
  /\ disk.version <= file.version /\ file.version <= replaced
  /\ \A w \in Writers :
       /\ version[w] <= replaced
       /\ call[w].at \in {"opendir", "syncdir", "acknowledged"} => version[w] > 0
       /\ call[w].at \in {"opendir", "syncdir"} => version[w] <= file.version
       /\ CallAt(w, "acknowledged") /\ call[w].found = "kept" => version[w] <= disk.version
       /\ version[w] > 0 /\ file.version = version[w] => file.value = call[w].value
       /\ version[w] > 0 /\ disk.version = version[w] => disk.value = call[w].value
       /\ call[w].at \in {"serialize", "mkdir", "create", "write", "sync", "chmod", "replace"}
            => version[w] = 0

WriteInv == WriteTypes /\ TempInv /\ Whole /\ KeptInv /\ VersionInv

\* The initial states satisfy the invariant.
LEMMA WriteInitInv == WriteInit => WriteInv
<1> SUFFICES ASSUME WriteInit PROVE WriteInv
  OBVIOUS
<1> USE DEF WriteInit
<1>1. WriteTypes
  BY DEF WriteTypes, Content, Calls, Directories, Steps, NoFile
<1>2. TempInv
  BY DEF TempInv, CallAt, Steps
<1>3. Whole
  BY ValuesAssumption DEF Whole, NoFile
<1>4. KeptInv /\ VersionInv
  BY DEF KeptInv, VersionInv, CallAt, NoFile
<1> QED BY <1>1, <1>2, <1>3, <1>4 DEF WriteInv

\* A step of a call changes no other call, no other temporary file and no other
\* call's version.
LEMMA StepInv ==
  ASSUME WriteInv, NEW w \in Writers, Step(w)
  PROVE  WriteInv'
<1> USE DEF WriteInv
<1>1. CASE Serialize(w)
  <2>1. WriteTypes'
    BY <1>1 DEF Serialize, CallTo, CallAt, WriteTypes, Calls, Directories, Steps
  <2>2. TempInv'
    BY <1>1 DEF Serialize, CallTo, CallAt, TempInv, Steps, Calls, Directories, WriteTypes
  <2>3. Whole' /\ KeptInv' /\ VersionInv'
    BY <1>1 DEF Serialize, CallTo, CallAt, Whole, KeptInv, VersionInv, WriteTypes, Calls, Directories, Steps
  <2> QED BY <2>1, <2>2, <2>3
<1>2. CASE Create(w)
  <2>0. CallAt(w, "create") /\ temp[w] = NoTemp /\ call[w].value \in Values
    BY <1>2 DEF Create, TempInv, CallAt, Steps
  <2>1. CASE temp' = [temp EXCEPT ![w] = [value |-> Torn, synced |-> FALSE]] /\ CallTo(w, "write")
    <3>1. WriteTypes'
      BY <1>2, <2>1 DEF Create, CallTo, WriteTypes, Calls, Directories, Steps, Content
    <3>2. TempInv'
      BY <2>0, <2>1 DEF CallTo, CallAt, TempInv, Steps, Calls, Directories, WriteTypes
    <3>3. Whole' /\ KeptInv' /\ VersionInv'
      BY <1>2, <2>0, <2>1 DEF Create, CallTo, CallAt, Whole, KeptInv, VersionInv, WriteTypes, Calls, Directories, Steps
    <3> QED BY <3>1, <3>2, <3>3
  <2>2. CASE CallTo(w, "raised") /\ UNCHANGED temp
    <3>1. WriteTypes'
      BY <1>2, <2>2 DEF Create, CallTo, WriteTypes, Calls, Directories, Steps
    <3>2. TempInv'
      BY <2>0, <2>2 DEF CallTo, CallAt, TempInv, Steps, Calls, Directories, WriteTypes
    <3>3. Whole' /\ KeptInv' /\ VersionInv'
      BY <1>2, <2>0, <2>2 DEF Create, CallTo, CallAt, Whole, KeptInv, VersionInv, WriteTypes, Calls, Directories, Steps
    <3> QED BY <3>1, <3>2, <3>3
  <2> QED BY <1>2, <2>1, <2>2 DEF Create
<1>3. CASE Write(w)
  <2>0. call[w].value \in Values
    BY <1>3 DEF Write, CallAt, TempInv, Steps
  <2>1. WriteTypes'
    BY <1>3, <2>0 DEF Write, CallTo, CallAt, WriteTypes, Calls, Directories, Steps, Content
  <2>2. TempInv'
    BY <1>3, <2>0 DEF Write, CallTo, CallAt, TempInv, Steps, Calls, Directories, WriteTypes
  <2>3. Whole' /\ KeptInv' /\ VersionInv'
    BY <1>3 DEF Write, CallTo, CallAt, Whole, KeptInv, VersionInv, WriteTypes, Calls, Directories, Steps
  <2> QED BY <2>1, <2>2, <2>3
<1>4. CASE Sync(w)
  <2>0. temp[w] = [value |-> call[w].value, synced |-> FALSE] /\ call[w].value \in Values
    BY <1>4 DEF Sync, CallAt, TempInv, Steps
  <2>1. temp' = [temp EXCEPT ![w] = [value |-> call[w].value, synced |-> TRUE]]
    BY <1>4, <2>0 DEF Sync
  <2>2. WriteTypes'
    BY <1>4, <2>0, <2>1 DEF Sync, CallTo, WriteTypes, Calls, Directories, Steps, Content
  <2>3. TempInv'
    BY <1>4, <2>0, <2>1 DEF Sync, CallTo, CallAt, TempInv, Steps, Calls, Directories, WriteTypes
  <2>4. Whole' /\ KeptInv' /\ VersionInv'
    BY <1>4 DEF Sync, CallTo, CallAt, Whole, KeptInv, VersionInv, WriteTypes, Calls, Directories, Steps
  <2> QED BY <2>2, <2>3, <2>4
<1>5. CASE Chmod(w)
  <2>1. WriteTypes'
    BY <1>5 DEF Chmod, CallTo, CallAt, WriteTypes, Calls, Directories, Steps
  <2>2. TempInv'
    BY <1>5 DEF Chmod, CallTo, CallAt, TempInv, Steps, Calls, Directories, WriteTypes
  <2>3. Whole' /\ KeptInv' /\ VersionInv'
    BY <1>5 DEF Chmod, CallTo, CallAt, Whole, KeptInv, VersionInv, WriteTypes, Calls, Directories, Steps
  <2> QED BY <2>1, <2>2, <2>3
<1>6. CASE Replace(w)
  <2>0. temp[w] = [value |-> call[w].value, synced |-> TRUE] /\ call[w].value \in Values
    BY <1>6 DEF Replace, CallAt, TempInv, Steps
  <2>1. file' = [value |-> call[w].value, synced |-> TRUE, version |-> replaced + 1]
    BY <1>6, <2>0 DEF Replace
  <2>2. WriteTypes'
    BY <1>6, <2>0, <2>1 DEF Replace, CallTo, CallAt, WriteTypes, Calls, Directories, Steps
  <2>3. TempInv'
    BY <1>6, <2>0 DEF Replace, CallTo, CallAt, TempInv, Steps, Calls, Directories, WriteTypes
  <2>4. Whole'
    BY <1>6, <2>0, <2>1, ValuesAssumption DEF Replace, Whole
  <2>5. KeptInv' /\ VersionInv'
    BY <1>6, <2>1 DEF Replace, CallTo, CallAt, KeptInv, VersionInv, WriteTypes, Calls, Directories, Steps
  <2> QED BY <2>2, <2>3, <2>4, <2>5
<1>7. CASE OpenDir(w)
  <2>1. WriteTypes'
    BY <1>7 DEF OpenDir, CallTo, CallAt, WriteTypes, Calls, Directories, Steps
  <2>2. TempInv'
    BY <1>7, SMTT(30) DEF OpenDir, CallTo, CallAt, TempInv, Steps, Calls, Directories, WriteTypes
  <2>3. Whole' /\ KeptInv'
    BY <1>7 DEF OpenDir, CallTo, Whole, KeptInv, WriteTypes, Calls, Directories
  <2>4. VersionInv'
    <3>1. UNCHANGED <<file, disk, version, replaced>> /\ CallAt(w, "opendir")
      BY <1>7 DEF OpenDir
    <3>2. CASE CallTo(w, "syncdir")
      BY <3>1, <3>2 DEF CallTo, CallAt, VersionInv, WriteTypes, Calls, Directories, Steps
    <3>3. CASE CallTo(w, "returned")
      BY <3>1, <3>3 DEF CallTo, CallAt, VersionInv, WriteTypes, Calls, Directories, Steps
    <3> QED BY <1>7, <3>2, <3>3 DEF OpenDir
  <2> QED BY <2>1, <2>2, <2>3, <2>4
<1>8. CASE SyncDir(w)
  <2>1. WriteTypes'
    BY <1>8 DEF SyncDir, CallTo, CallAt, WriteTypes, Calls, Directories, Steps
  <2>2. TempInv'
    BY <1>8 DEF SyncDir, CallTo, CallAt, TempInv, Steps, Calls, Directories, WriteTypes
  <2>3. Whole' /\ KeptInv' /\ VersionInv'
    BY <1>8 DEF SyncDir, CallTo, CallAt, Whole, KeptInv, VersionInv, WriteTypes, Calls, Directories, Steps
  <2> QED BY <2>1, <2>2, <2>3
<1>9. CASE Fail(w)
  <2>1. WriteTypes'
    BY <1>9 DEF Fail, CallTo, WriteTypes, Calls, Directories, Steps, Content
  <2>2. TempInv'
    BY <1>9 DEF Fail, CallTo, CallAt, TempInv, Steps, Calls, Directories, WriteTypes
  <2>3. Whole' /\ KeptInv' /\ VersionInv'
    BY <1>9 DEF Fail, CallTo, CallAt, Whole, KeptInv, VersionInv, WriteTypes, Calls, Directories, Steps
  <2> QED BY <2>1, <2>2, <2>3
<1>10. CASE KillCall(w)
  <2>1. WriteTypes'
    BY <1>10 DEF KillCall, CallTo, WriteTypes, Calls, Directories, Steps
  <2>2. TempInv'
    BY <1>10 DEF KillCall, CallTo, CallAt, TempInv, Steps, Calls, Directories, WriteTypes
  <2>3. Whole' /\ KeptInv' /\ VersionInv'
    BY <1>10 DEF KillCall, CallTo, CallAt, Whole, KeptInv, VersionInv, WriteTypes, Calls, Directories, Steps
  <2> QED BY <2>1, <2>2, <2>3
<1>11. CASE MakeDirectory(w)
  <2>0. CallAt(w, "mkdir") /\ temp[w] = NoTemp /\ call[w].value \in Values
    BY <1>11 DEF MakeDirectory, TempInv, CallAt, Steps
  <2>1. UNCHANGED <<file, disk, temp, version, replaced>>
    BY <1>11 DEF MakeDirectory
  <2>2. CASE /\ dir' = IF dir = "missing" THEN "made" ELSE dir
             /\ call' = [call EXCEPT ![w] = [@ EXCEPT !.at = "create", !.found = dir]]
    <3>1. WriteTypes'
      <4>1. [call[w] EXCEPT !.at = "create", !.found = dir] \in Calls
        <5>1. call[w] \in Calls /\ dir \in Directories
          BY DEF WriteTypes
        <5> QED BY <5>1 DEF Calls, Steps
      <4>2. call' \in [Writers -> Calls]
        BY <2>2, <4>1 DEF WriteTypes
      <4>3. dir' \in Directories
        BY <2>2 DEF WriteTypes, Directories
      <4> QED BY <2>1, <4>2, <4>3 DEF WriteTypes
    <3>2. TempInv'
      BY <2>0, <2>1, <2>2 DEF CallAt, TempInv, Steps, Calls, Directories, WriteTypes
    <3>3. Whole' /\ KeptInv'
      BY <2>1, <2>2 DEF Whole, KeptInv, WriteTypes, Calls, Directories
    <3>4. VersionInv'
      BY <2>0, <2>1, <2>2 DEF CallAt, VersionInv, WriteTypes, Calls, Directories, Steps
    <3> QED BY <3>1, <3>2, <3>3, <3>4
  <2>3. CASE CallTo(w, "raised") /\ UNCHANGED dir
    <3>1. WriteTypes'
      BY <2>1, <2>3 DEF CallTo, WriteTypes, Calls, Directories, Steps
    <3>2. TempInv'
      BY <2>0, <2>1, <2>3 DEF CallTo, CallAt, TempInv, Steps, Calls, Directories, WriteTypes
    <3>3. Whole' /\ KeptInv' /\ VersionInv'
      BY <2>0, <2>1, <2>3
         DEF CallTo, CallAt, Whole, KeptInv, VersionInv, WriteTypes, Calls, Directories, Steps
    <3> QED BY <3>1, <3>2, <3>3
  <2> QED BY <1>11, <2>2, <2>3 DEF MakeDirectory
<1> QED
  BY <1>1, <1>2, <1>3, <1>4, <1>5, <1>6, <1>7, <1>8, <1>9, <1>10, <1>11 DEF Step

\* A power loss finds a synced file on disk, so it leaves that file, or none when
\* the directory is not kept.
LEMMA PowerLossLeaves ==
  ASSUME Whole, PowerLoss
  PROVE  /\ file' = IF dir = "kept" THEN disk ELSE NoFile
         /\ disk' = file'
         /\ dir' = "kept" <=> dir = "kept"
BY DEF Whole, PowerLoss, Left

\* A power loss ends every call that has begun.
LEMMA PowerLossInv ==
  ASSUME WriteInv, PowerLoss
  PROVE  WriteInv'
<1>1. file' = (IF dir = "kept" THEN disk ELSE NoFile) /\ disk' = file'
  BY PowerLossLeaves DEF WriteInv
<1>2. UNCHANGED <<version, replaced>>
  BY DEF PowerLoss
<1>3. \A w \in Writers :
        /\ call'[w].value = call[w].value /\ call'[w].found = call[w].found
        /\ call[w].at \in CallEnded \cup {"serialize"} => call'[w].at = call[w].at
        /\ call[w].at \notin CallEnded \cup {"serialize"} => call'[w].at = "dead"
  BY DEF PowerLoss, WriteInv, WriteTypes, Calls, Directories
<1>4. \A w \in Writers : temp'[w] \in {temp[w], NoTemp}
  BY DEF PowerLoss
<1>5. dir' \in {"missing", "kept"} /\ (dir' = "kept" <=> dir = "kept")
  BY DEF PowerLoss
<1>6. WriteTypes'
  <2>1. file' \in [value : Values \cup {Absent, Torn}, synced : BOOLEAN, version : Nat]
    BY <1>1 DEF WriteInv, WriteTypes, NoFile
  <2>2. call' \in [Writers -> Calls]
    <3>1. \A w \in Writers : [call[w] EXCEPT !.at = "dead"] \in Calls /\ call[w] \in Calls
      BY DEF WriteInv, WriteTypes, Calls, Directories, Steps
    <3> QED BY <3>1 DEF PowerLoss
  <2>3. temp' \in [Writers -> Content \cup {NoTemp}]
    BY DEF PowerLoss, WriteInv, WriteTypes
  <2>4. dir' \in Directories
    BY <1>5 DEF Directories
  <2> QED BY <1>1, <1>2, <2>1, <2>2, <2>3, <2>4 DEF WriteInv, WriteTypes
<1>7. TempInv'
  BY <1>3, <1>4 DEF WriteInv, TempInv, WriteTypes, Calls, Directories, Steps, CallEnded, CallAt
<1>8. Whole'
  BY <1>1, ValuesAssumption DEF WriteInv, Whole, NoFile
<1>9. KeptInv'
  BY <1>3, <1>5 DEF WriteInv, KeptInv
<1>10. VersionInv'
  <2>1. disk'.version <= file'.version /\ file'.version <= replaced'
    BY <1>1, <1>2 DEF WriteInv, VersionInv, WriteTypes, NoFile
  <2> SUFFICES ASSUME NEW w \in Writers
               PROVE  /\ version'[w] <= replaced'
                      /\ call'[w].at \in {"opendir", "syncdir", "acknowledged"} => version'[w] > 0
                      /\ call'[w].at \in {"opendir", "syncdir"} => version'[w] <= file'.version
                      /\ call'[w].at = "acknowledged" /\ call'[w].found = "kept"
                           => version'[w] <= disk'.version
                      /\ version'[w] > 0 /\ file'.version = version'[w] => file'.value = call'[w].value
                      /\ version'[w] > 0 /\ disk'.version = version'[w] => disk'.value = call'[w].value
                      /\ call'[w].at \in {"serialize", "mkdir", "create", "write", "sync", "chmod", "replace"}
                           => version'[w] = 0
    BY <2>1 DEF VersionInv, CallAt
  <2>2. version'[w] <= replaced' /\ version[w] \in Nat
    BY <1>2 DEF WriteInv, VersionInv, WriteTypes
  <2>3. /\ call'[w].at \in {"opendir", "syncdir", "acknowledged"} => call[w].at = "acknowledged"
        /\ call'[w].at \notin {"opendir", "syncdir", "mkdir", "create", "write", "sync", "chmod", "replace"}
        /\ call'[w].at = "serialize" => call[w].at = "serialize"
        /\ call'[w].at = "acknowledged" => call[w].at = "acknowledged"
    BY <1>3 DEF CallEnded
  <2>4. version[w] > 0 /\ file'.version = version[w] => file'.value = call[w].value
    BY <1>1, <2>2 DEF WriteInv, VersionInv, NoFile
  <2>5. call[w].at = "acknowledged" /\ call[w].found = "kept" => version[w] <= disk'.version
    BY <1>1 DEF WriteInv, KeptInv, VersionInv, CallAt
  <2>6. /\ call[w].at = "acknowledged" => version[w] > 0
        /\ call[w].at = "serialize" => version[w] = 0
    BY DEF WriteInv, VersionInv
  <2> QED BY <1>1, <1>2, <1>3, <2>2, <2>3, <2>4, <2>5, <2>6
<1> QED BY <1>6, <1>7, <1>8, <1>9, <1>10 DEF WriteInv

\* The invariant holds in every reachable state.
THEOREM WriteCorrect == WriteSpec => []WriteInv
<1>1. WriteInv /\ [WriteNext]_writeVars => WriteInv'
  <2> SUFFICES ASSUME WriteInv, [WriteNext]_writeVars PROVE WriteInv'
    OBVIOUS
  <2>1. CASE \E w \in Writers : Step(w)
    BY <2>1, StepInv
  <2>2. CASE WriteBack
    BY <2>2 DEF WriteBack, WriteInv, WriteTypes, TempInv, Whole, KeptInv, VersionInv, CallAt
  <2>3. CASE PowerLoss
    BY <2>3, PowerLossInv
  <2>4. CASE WriteBackAbove
    BY <2>4 DEF WriteBackAbove, WriteInv, WriteTypes, Directories, TempInv, Whole, KeptInv, VersionInv, CallAt
  <2>5. CASE UNCHANGED writeVars
    BY <2>5 DEF writeVars, WriteInv, WriteTypes, TempInv, Whole, KeptInv, VersionInv, CallAt
  <2> QED BY <2>1, <2>2, <2>3, <2>4, <2>5 DEF WriteNext
<1> QED BY <1>1, WriteInitInv, PTL DEF WriteSpec

\* No reader, before or after a crash, finds an incomplete artifact.
THEOREM FileNeverTorn == WriteSpec => []NeverTorn
<1>1. WriteInv => NeverTorn
  BY DEF WriteInv, Whole, NeverTorn
<1> QED BY <1>1, WriteCorrect, PTL

\* A value whose directory sync succeeded survives every power loss, in a
\* directory that was there, with the entries above it on disk, when the call
\* took it.
THEOREM Durable == WriteSpec => []AcknowledgedIsDurable
<1>1. WriteInv => AcknowledgedIsDurable
  BY DEF WriteInv, KeptInv, VersionInv, WriteTypes, AcknowledgedIsDurable, CallAt
<1> QED BY <1>1, WriteCorrect, PTL

\* Calls that ended by themselves leave no temporary file.
THEOREM NothingLeft == WriteSpec => []NoLitter
<1>1. WriteInv => NoLitter
  BY DEF WriteInv, TempInv, NoLitter, CallEnded
<1> QED BY <1>1, WriteCorrect, PTL

\* write_json_atomic implements a file that is replaced as a whole.
THEOREM Implements == WriteSpec => ImplementsFile
<1>1. WriteInit => File!Init
  BY DEF WriteInit, NoFile, File!Init
<1>2. WriteInv /\ [WriteNext]_writeVars => [File!Next]_(File!vars)
  <2> SUFFICES ASSUME WriteInv, [WriteNext]_writeVars PROVE [File!Next]_(File!vars)
    OBVIOUS
  <2> USE DEF File!Next, File!vars
  <2>1. ASSUME NEW w \in Writers, Step(w) PROVE [File!Next]_(File!vars)
    <3>1. CASE Replace(w)
      <4>0. temp[w] = [value |-> call[w].value, synced |-> TRUE] /\ call[w].value \in Values
        BY <3>1 DEF WriteInv, TempInv, Replace, CallAt, Steps
      <4>1. temp[w].value \in Values
        BY <4>0
      <4>2. file'.value \in Values /\ UNCHANGED <<disk, dir>>
        BY <3>1, <4>1 DEF Replace
      <4> QED BY <4>2 DEF File!Replace
    <3>2. CASE SyncDir(w)
      BY <3>2 DEF SyncDir, File!Persist
    <3>3. CASE MakeDirectory(w)
      BY <3>3 DEF MakeDirectory, CallTo
    <3>4. CASE UNCHANGED <<file, disk, dir>>
      BY <3>4
    <3> QED
      BY <2>1, <3>1, <3>2, <3>3, <3>4
         DEF Step, Serialize, Create, Write, Sync, Chmod, OpenDir, Fail, KillCall
  <2>2. CASE WriteBack
    BY <2>2 DEF WriteBack, File!Persist
  <2>3. CASE PowerLoss
    BY <2>3, PowerLossLeaves DEF WriteInv, NoFile, File!PowerLoss
  <2>4. CASE WriteBackAbove
    BY <2>4 DEF WriteBackAbove, File!Last
  <2>5. CASE UNCHANGED writeVars
    BY <2>5 DEF writeVars
  <2> QED BY <2>1, <2>2, <2>3, <2>4, <2>5 DEF WriteNext
<1> QED BY <1>1, <1>2, WriteCorrect, PTL DEF WriteSpec, File!Spec, ImplementsFile
=============================================================================
