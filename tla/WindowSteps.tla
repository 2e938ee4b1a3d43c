---------------------------- MODULE WindowSteps -----------------------------
(***************************************************************************)
(* Proofs about Window, part two: the steps that rename, seal, publish,    *)
(* remove and recover a frozen log keep the invariant.                     *)
(***************************************************************************)
EXTENDS WindowFacts

\* A log whose blocks at or above the floor lie below a has none when a is the
\* floor itself.
LEMMA NothingUnsealed ==
  ASSUME TypeOK, NEW a, NEW b, Shape(a, b), a = Floor
  PROVE  \A r \in frozenLog : r.h < Floor
<1>1. Floor \in Int
  <2>1. Len(runs) # 0 => runs[Len(runs)] \in RunRef
    BY DEF TypeOK
  <2> QED
    BY <2>1 DEF Floor, RunRef
<1>2. ASSUME NEW r \in frozenLog
      PROVE  r.h < Floor
  <2>1. r.h \in Heights /\ r.h \in Int /\ InLog(frozenLog, r.h)
    BY ChainFacts DEF TypeOK, LogRecord, InLog, Heights
  <2>2. r.h >= Floor => r.h < Floor
    BY <2>1 DEF Shape
  <2> QED
    BY <1>1, <2>1, <2>2
<1> QED
  BY <1>2

\* cutWindow: the rename finds nothing unsealed under the frozen name, and
\* every record it moves is fsynced.
LEMMA InvCutRename ==
  ASSUME IInv, TypeInv', CutRename
  PROVE  IInv'
<1> USE DEF IInv
<1>1. /\ wpc = "rename" /\ wpc' = "syncdir" /\ frozenLog' = winLog /\ winLog' = {}
      /\ rename' = "pending"
      /\ UNCHANGED <<runs, synced, durFrozen, phase, mem, frozen, spc, cut, acked>>
  BY DEF CutRename
<1>2. /\ phase = "up" /\ spc = "idle" /\ ~started(frozen) /\ started(mem) /\ cut = "none"
      /\ synced = mem.next - 1
  BY <1>1 DEF TypeInv, CutInv
<1>3. WindowOK(mem, A) /\ Shape(A, B) /\ A = Floor /\ B = mem.next
  BY <1>1, <1>2 DEF PhaseInv, A, B
<1>4. Floor \in Ends /\ B \in Ends /\ Floor < B
  BY <1>2, <1>3, EndFacts
<1>5. RunsInv' /\ Floor' = Floor /\ A' = A /\ B' = B
  BY <1>1, FloorStays DEF A, B, started
<1>6. ASSUME NEW h \in Heights, h >= Floor
      PROVE  InLog(winLog, h) <=> h < B
  BY <1>3, <1>4, <1>6 DEF Shape, Heights, Ends
<1>7. Shape(B, B)'
  BY <1>1, <1>4, <1>5, <1>6 DEF Shape, InLog, Heights, Ends
<1>8. PhaseInv'
  BY <1>1, <1>2, <1>3, <1>5, <1>7 DEF PhaseInv, WindowOK, started, Expected
<1>9. LogInv'
  BY <1>1 DEF LogInv
<1>10. CutInv'
  BY <1>1, <1>2 DEF CutInv, started
<1>11. \A r \in frozenLog : r.h < Floor
  BY <1>3, NothingUnsealed DEF TypeInv
<1>12. \A r \in durFrozen : r.h < Floor
  BY <1>1, <1>2, <1>11 DEF DurableInv, TypeInv, TypeOK
<1>13. \A r \in winLog : r.h <= synced
  <2>1. ASSUME NEW r \in winLog
        PROVE  r.h <= synced
    <3>1. r.h \in Heights /\ InLog(winLog, r.h)
      BY DEF TypeInv, TypeOK, LogRecord, InLog
    <3>2. r.h < Floor \/ r.h < B
      BY <1>4, <1>6, <3>1, ChainFacts DEF Heights, Ends
    <3> QED
      BY <1>2, <1>3, <1>4, <3>1, <3>2, ChainFacts DEF Heights, Ends
  <2> QED
    BY <2>1
<1>14. \E r \in winLog : r.h >= Floor
  <2>1. Floor \in Heights
    BY <1>4, ChainFacts DEF Heights, Ends
  <2>2. InLog(winLog, Floor)
    BY <1>4, <1>6, <2>1 DEF Ends
  <2> QED
    BY <1>4, <2>2 DEF InLog, Ends
<1>15. DurableInv'
  <2>1. ASSUME NEW h \in 1..acked
        PROVE  h < Floor \/ InLog(winLog, h)
    <3>1. h < Floor \/ InLog(frozenLog, h) \/ InLog(winLog, h)
      BY DEF DurableInv
    <3> QED
      BY <1>11, <3>1 DEF InLog
  <2>2. \A h \in 1..acked' :
          h < Floor' \/ InLog(frozenLog', h) \/ (InLog(winLog', h) /\ h <= synced')
    BY <1>1, <1>5, <2>1
  <2> QED
    BY <1>1, <1>2, <1>5, <1>12, <1>13, <1>14, <2>2 DEF DurableInv
<1> QED
  BY <1>5, <1>8, <1>9, <1>10, <1>15

\* cutWindow: the directory fsync, then the swap that starts the seal.
LEMMA InvCutInstall ==
  ASSUME IInv, TypeInv', CutSyncDir \/ CutInstall
  PROVE  IInv'
<1> USE DEF IInv
<1>1. /\ wpc \in {"syncdir", "install"} /\ started(mem) /\ phase = "up"
      /\ spc = "idle" /\ ~started(frozen) /\ cut = "none"
      /\ UNCHANGED <<runs, synced, winLog, frozenLog, phase, acked>>
  BY DEF CutSyncDir, CutInstall, disk, TypeInv, CutInv
<1>2. RunsInv' /\ Floor' = Floor
  BY <1>1, FloorStays
<1>3. WindowOK(mem, A) /\ Shape(B, B) /\ A = Floor /\ B = mem.next
  BY <1>1 DEF PhaseInv, A, B
<1>4. Floor \in Ends /\ B \in Ends /\ Floor < B
  BY <1>1, <1>3, EndFacts
<1>5. CASE CutSyncDir
  <2>1. /\ wpc' = "install" /\ durFrozen' = frozenLog /\ rename' = "durable"
        /\ UNCHANGED <<mem, frozen, spc, cut>>
    BY <1>5 DEF CutSyncDir
  <2>2. A' = A /\ B' = B
    BY <1>2, <2>1 DEF A, B, started
  <2>3. PhaseInv'
    BY SMTT(60), <1>1, <1>2, <1>3, <2>1, <2>2 DEF PhaseInv, Shape, InLog, WindowOK, started, Expected
  <2>4. LogInv' /\ CutInv'
    BY <1>1, <2>1 DEF LogInv, CutInv, started
  <2>5. DurableInv'
    BY <1>1, <1>2, <2>1 DEF DurableInv, InLog
  <2> QED
    BY <1>2, <2>3, <2>4, <2>5
<1>6. CASE CutInstall
  <2>1. /\ wpc = "install" /\ wpc' = "ready" /\ frozen' = mem
        /\ mem' = EmptyWindow(mem.nextTx, mem.next) /\ cut' = "running" /\ spc' = "write"
        /\ UNCHANGED <<durFrozen, rename>>
    BY <1>6 DEF CutInstall, disk
  <2>2. ~started(mem)' /\ started(frozen)' /\ A' = B /\ B' = B
    BY <1>1, <1>3, <1>4, <2>1 DEF A, B, EmptyWindow, started, Ends
  <2>3. WindowOK(mem, A)' /\ WindowOK(frozen, Floor)'
    BY <1>1, <1>2, <1>3, <1>4, <2>1, <2>2 DEF WindowOK, EmptyWindow, Expected, started, Ends
  <2>4. Shape(A, B)'
    BY <1>1, <1>2, <1>3, <2>2 DEF Shape, InLog
  <2>5. PhaseInv'
    BY <1>1, <2>1, <2>3, <2>4 DEF PhaseInv
  <2>6. LogInv' /\ CutInv'
    BY <1>1, <2>1 DEF LogInv, CutInv
  <2>7. DurableInv'
    BY <1>1, <1>2, <2>1 DEF DurableInv, InLog
  <2> QED
    BY <1>2, <2>5, <2>6, <2>7
<1> QED
  BY <1>5, <1>6

\* Whatever the phase, the logs have some shape: what a stop leaves behind.
LEMMA AnyShape ==
  ASSUME IInv
  PROVE  \E a, b \in Ends : Shape(a, b)
<1> USE DEF IInv
<1>1. CASE phase = "down"
  BY <1>1 DEF PhaseInv
<1>2. CASE phase = "opening"
  BY <1>2, EndFacts DEF PhaseInv
<1>3. CASE phase = "up"
  BY <1>3, EndFacts DEF PhaseInv
<1> QED
  BY <1>1, <1>2, <1>3 DEF TypeInv, TypeOK

\* The seal before its manifest save, and when it fails: nothing on disk moves.
LEMMA InvSealWrite ==
  ASSUME IInv, TypeInv', SealWrite \/ SealFail
  PROVE  IInv'
<1> USE DEF IInv
<1>1. /\ UNCHANGED <<runs, winLog, synced, frozenLog, durFrozen, rename, mem, wpc, acked>>
      /\ spc \in {"write", "publish"} /\ started(frozen) /\ phase \in {"down", "opening", "up"}
  BY DEF SealWrite, SealFail, disk, TypeInv, TypeOK
<1>2. RunsInv' /\ Floor' = Floor
  BY <1>1, FloorStays
<1>3. LogInv'
  BY <1>1 DEF LogInv
<1>4. phase # "down"
  BY <1>1 DEF PhaseInv
<1>5. CASE UNCHANGED <<phase, frozen>>
  <2>1. A' = A /\ B' = B
    BY <1>1, <1>2, <1>5 DEF A, B, started
  <2>2. CASE phase = "opening"
    <3>1. SealWrite
      BY <1>5, <2>2 DEF SealFail
    <3>2. spc' = "publish" /\ cut' = cut
      BY <3>1 DEF SealWrite
    <3>3. PhaseInv'
      BY SMTT(60), <1>1, <1>2, <1>5, <2>1, <2>2, <3>2 DEF PhaseInv, Shape, InLog, WindowOK, started
    <3>4. CutInv' /\ DurableInv'
      BY <1>1, <1>2, <1>5, <2>2, <3>2 DEF CutInv, DurableInv, InLog, started
    <3> QED
      BY <1>2, <1>3, <3>3, <3>4
  <2>3. CASE phase = "up"
    <3>1. PhaseInv'
      BY SMTT(60), <1>1, <1>2, <1>5, <2>1, <2>3 DEF PhaseInv, Shape, InLog, WindowOK, started, Expected
    <3>2. CutInv'
      BY <1>1, <1>5, <2>3 DEF CutInv, started, SealWrite, SealFail
    <3>3. DurableInv'
      BY <1>1, <1>2, <1>5, <2>3 DEF DurableInv, InLog
    <3> QED
      BY SMTT(60), <1>2, <1>3, <3>1, <3>2, <3>3
  <2> QED
    BY <1>1, <1>4, <2>2, <2>3
<1>6. CASE ~UNCHANGED <<phase, frozen>>
  <2>1. phase = "opening" /\ phase' = "down" /\ frozen' = NoWindow /\ cut' = cut /\ spc' = "idle"
    BY <1>6 DEF SealWrite, SealFail
  <2>2. \E a, b \in Ends : Shape(a, b)'
    BY <1>1, <1>2, AnyShape DEF Shape, InLog
  <2>3. ~started(NoWindow)
    BY DEF started, NoWindow, EmptyWindow
  <2>4. PhaseInv'
    BY <1>1, <2>1, <2>2, <2>3 DEF PhaseInv, started
  <2>5. CutInv'
    BY <1>1, <2>1, <2>3 DEF CutInv, TypeInv, started
  <2>6. DurableInv'
    BY <1>1, <1>2, <2>1 DEF DurableInv, InLog
  <2> QED
    BY <1>2, <1>3, <2>4, <2>5, <2>6
<1> QED
  BY <1>5, <1>6

\* The manifest save: the frozen window's blocks are now below the floor.
LEMMA InvSealPublish ==
  ASSUME IInv, TypeInv', SealPublish
  PROVE  IInv'
<1> USE DEF IInv
<1>1. /\ spc = "publish" /\ spc' = "unlink" /\ frozen' = NoWindow /\ started(frozen)
      /\ runs' = Append(runs, FrozenRef) /\ durFrozen' = frozenLog /\ rename' = "durable"
      /\ UNCHANGED <<winLog, synced, frozenLog, phase, mem, wpc, cut, acked>>
  BY DEF SealPublish, JournalCommitted, TypeInv
<1>2. RunsInv' /\ Floor' = frozen.next
  BY <1>1, PublishRuns DEF PhaseInv
<1>3. A = frozen.next /\ A \in Ends /\ Floor \in Ends /\ Floor <= A
  BY <1>1, EndFacts DEF A
<1>4. ~started(frozen)' /\ A' = A /\ B' = B
  BY <1>1, <1>2, <1>3 DEF A, B, started, NoWindow, EmptyWindow
<1>5. phase \in {"opening", "up"} /\ wpc \notin {"rename", "syncdir", "install", "renamed"}
  BY <1>1 DEF PhaseInv, CutInv, TypeInv, TypeOK
<1>6. ASSUME NEW a, NEW b, Shape(a, b), a = A
      PROVE  Shape(a, b)'
  <2>1. ASSUME NEW h \in Heights, h >= Floor'
        PROVE  /\ InLog(frozenLog', h) <=> h < a
               /\ InLog(winLog', h) <=> a <= h /\ h < b
    BY <1>1, <1>2, <1>3, <1>6, <2>1 DEF Shape, Heights, Ends
  <2> QED
    BY <1>2, <1>3, <1>6, <2>1 DEF Shape, Ends
<1>7. PhaseInv'
  <2>1. CASE phase = "up"
    BY <1>1, <1>4, <1>5, <1>6, <2>1 DEF PhaseInv, WindowOK, started, Expected
  <2>2. CASE phase = "opening"
    BY <1>1, <1>4, <1>6, <2>2 DEF PhaseInv
  <2> QED
    BY <1>5, <2>1, <2>2
<1>8. LogInv'
  BY <1>1 DEF LogInv
<1>9. CutInv'
  BY <1>1, <1>4, <1>5 DEF CutInv
<1>10. \A h \in 1..acked :
         h < Floor' \/ InLog(frozenLog, h) \/ (InLog(winLog, h) /\ h <= synced)
  <2>1. \A h \in 1..acked : h < Floor => h < Floor'
    BY <1>2, <1>3 DEF Ends, TypeInv, TypeOK
  <2> QED
    BY <2>1 DEF DurableInv
<1>11. DurableInv'
  BY <1>1, <1>10 DEF DurableInv
<1> QED
  BY <1>2, <1>7, <1>8, <1>9, <1>11

\* The frozen log goes once the manifest names its run: nothing it held is
\* above the floor.
LEMMA InvSealUnlink ==
  ASSUME IInv, TypeInv', SealUnlink \/ SealTailFail
  PROVE  IInv'
<1> USE DEF IInv
<1>1. /\ spc = "unlink" /\ spc' = "idle" /\ frozenLog' \in {frozenLog, {}}
      /\ phase \in {"opening", "up"}
      /\ UNCHANGED <<runs, winLog, synced, durFrozen, rename, mem, frozen, wpc, acked>>
      /\ phase = "up" => phase' = "up" /\ cut' \in {"ok", "err"}
      /\ phase = "opening" => phase' \in {"opening", "down"} /\ cut' = cut
  BY DEF SealUnlink, SealTailFail, PhaseInv, TypeInv, TypeOK
<1>2. ~started(frozen) /\ ~started(frozen)' /\ frozen' = NoWindow
  BY <1>1 DEF CutInv, TypeInv
<1>3. RunsInv' /\ Floor' = Floor /\ A = Floor /\ A' = A /\ B' = B /\ Floor \in Ends
  BY <1>1, <1>2, FloorStays, EndFacts DEF A, B
<1>4. wpc \notin {"rename", "syncdir", "install", "renamed"}
  BY <1>1 DEF CutInv
<1>5. ASSUME NEW b, Shape(A, b)
      PROVE  Shape(A, b)' /\ Shape(Floor, b)' /\ \A r \in frozenLog : r.h < Floor
  <2>1. \A r \in frozenLog : r.h < Floor
    BY <1>3, <1>5, NothingUnsealed DEF TypeInv
  <2>2. Shape(Floor, b)'
    BY <1>1, <1>3, <1>5 DEF Shape, InLog, Heights, Ends
  <2> QED
    BY <1>3, <2>1, <2>2
<1>6. PICK b : Shape(A, b) /\ (phase = "up" => b = B) /\ (phase = "opening" => b \in Ends)
  BY <1>1, <1>4 DEF PhaseInv
<1>7. PhaseInv'
  <2>1. CASE phase = "up"
    BY SMTT(60), <1>1, <1>2, <1>3, <1>4, <1>5, <1>6, <2>1 DEF PhaseInv, WindowOK, started, Expected
  <2>2. CASE phase = "opening"
    BY SMTT(60), <1>1, <1>2, <1>3, <1>5, <1>6, <2>2 DEF PhaseInv
  <2> QED
    BY SMTT(60), <1>1, <2>1, <2>2
<1>8. LogInv'
  BY <1>1 DEF LogInv
<1>9. CutInv'
  BY SMTT(60), <1>1, <1>2, <1>4 DEF CutInv, TypeInv
<1>10. rename = "durable"
  BY <1>1, <1>2, <1>4 DEF DurableInv, TypeInv, TypeOK
<1>11. \A r \in durFrozen : r.h < Floor
  BY <1>5, <1>6, <1>10 DEF DurableInv
<1>12. \A h \in 1..acked :
         h < Floor \/ (InLog(winLog, h) /\ h <= synced)
  BY <1>5, <1>6 DEF DurableInv, InLog
<1>13. DurableInv'
  BY <1>1, <1>3, <1>10, <1>11, <1>12 DEF DurableInv
<1> QED
  BY <1>3, <1>7, <1>8, <1>9, <1>13

\* memtable.recover of a log that holds exactly the blocks Floor..e-1 above the
\* runs leaves the window that was there before the stop.
LEMMA RecoveredWindow ==
  ASSUME TypeOK, RunsInv, NEW log \in SUBSET LogRecord, NEW e \in Ends, Floor <= e,
         \A r \in log : r.nt = FirstTx[r.h + 1],
         \A h \in Heights : h >= Floor => (InLog(log, h) <=> h < e),
         NEW m, m = Recovered(log, flushedTx, flushedHeight)
  PROVE  /\ WindowOK(m, Floor)
         /\ started(m) <=> Floor < e
         /\ started(m) => m.next = e
         /\ Kept(log, flushedHeight) # {} <=> Floor < e
<1>1. Floor \in Ends /\ Floor \in Nat /\ flushedTx \in Nat /\ flushedHeight \in Nat
  BY FloorFacts, FlushedType DEF Ends
<1>2. Kept(log, flushedHeight) = {r \in log : r.h >= Floor}
  BY KeptIsUnsealed
<1>3. \A r \in Kept(log, flushedHeight) : r.h \in Heights /\ r.h >= Floor /\ r.h < e
  BY <1>2 DEF LogRecord, InLog
<1>4. CASE Floor < e
  <2>1. Floor \in Heights /\ e - 1 \in Heights /\ e - 1 >= Floor
    BY <1>1, <1>4, ChainFacts DEF Ends, Heights
  <2>2. InLog(log, Floor) /\ InLog(log, e - 1)
    BY <1>1, <1>4, <2>1 DEF Ends
  <2>3. PICK p \in log : p.h = Floor
    BY <2>2 DEF InLog
  <2>4. PICK q \in log : q.h = e - 1
    BY <2>2 DEF InLog
  <2>5. p \in Kept(log, flushedHeight) /\ q \in Kept(log, flushedHeight)
    BY <1>1, <1>2, <2>1, <2>3, <2>4
  <2>6. PICK first, last \in Kept(log, flushedHeight) :
          /\ \A x \in Kept(log, flushedHeight) : first.h <= x.h /\ x.h <= last.h
          /\ m = [baseTx |-> flushedTx, nextTx |-> last.nt, base |-> first.h,
                  next |-> last.h + 1]
    BY <1>1, <2>5, RecoveredEnds
  <2>7. first.h = Floor /\ last.h = e - 1
    <3>1. first.h <= p.h /\ q.h <= last.h
      BY <2>5, <2>6
    <3>2. first.h \in Heights /\ first.h >= Floor /\ last.h \in Heights /\ last.h < e
      BY <1>3, <2>6
    <3>3. first.h \in Int /\ last.h \in Int /\ e \in Int
      BY <3>2, ChainFacts DEF Heights, Ends
    <3>4. first.h <= Floor /\ e - 1 <= last.h
      BY <2>3, <2>4, <3>1
    <3> QED
      BY <1>1, <3>2, <3>3, <3>4
  <2>8. last.nt = FirstTx[last.h + 1]
    BY <1>2, <2>6
  <2>9. /\ m.baseTx = FirstTx[Floor] /\ m.nextTx = FirstTx[e]
        /\ m.base = Floor /\ m.next = e
    BY <2>6, <2>7, <2>8, FloorFacts DEF Ends
  <2> QED
    BY <1>1, <1>4, <2>5, <2>9 DEF WindowOK, started
<1>5. CASE ~(Floor < e)
  <2>1. Kept(log, flushedHeight) = {}
    BY <1>1, <1>3, <1>5, ChainFacts DEF Heights, Ends
  <2>2. m = EmptyWindow(flushedTx, flushedHeight)
    BY <2>1 DEF Recovered
  <2> QED
    BY <1>1, <1>5, <2>1, <2>2, FloorFacts DEF WindowOK, started, EmptyWindow, Expected, Ends
<1> QED
  BY <1>4, <1>5

\* open with an unsealed frozen log: the frozen window is the one the crash
\* interrupted.
LEMMA InvOpenFrozen ==
  ASSUME IInv, TypeInv', OpenFrozen
  PROVE  IInv'
<1> USE DEF IInv
<1>1. /\ phase = "down" /\ phase' = "opening" /\ spc' = "write"
      /\ Kept(frozenLog, flushedHeight) # {}
      /\ frozen' = Recovered(frozenLog, flushedTx, flushedHeight)
      /\ UNCHANGED <<runs, winLog, synced, frozenLog, durFrozen, rename, mem, wpc, cut, acked>>
  BY DEF OpenFrozen, disk
<1>2. RunsInv' /\ Floor' = Floor
  BY <1>1, FloorStays
<1>3. PICK a \in Ends, b \in Ends : Shape(a, b)
  BY <1>1 DEF PhaseInv
<1>4. Floor \in Ends /\ Floor <= a /\ a <= b
  BY <1>3, EndFacts DEF Shape
<1>5. \A h \in Heights : h >= Floor => (InLog(frozenLog, h) <=> h < a)
  BY Zenon, <1>3 DEF Shape
<1>6. WindowOK(frozen', Floor) /\ started(frozen') /\ frozen'.next = a
  <2> DEFINE m == Recovered(frozenLog, flushedTx, flushedHeight)
  <2>1. TypeOK /\ RunsInv /\ frozenLog \in SUBSET LogRecord
    BY DEF TypeInv, TypeOK
  <2>2. \A r \in frozenLog : r.nt = FirstTx[r.h + 1]
    BY DEF LogInv
  <2> HIDE DEF m, IInv
  <2>3. /\ WindowOK(m, Floor)
        /\ started(m) <=> Floor < a
        /\ started(m) => m.next = a
        /\ Kept(frozenLog, flushedHeight) # {} <=> Floor < a
    BY Zenon, <1>4, <1>5, <2>1, <2>2, RecoveredWindow DEF m
  <2>4. frozen' = m /\ Kept(frozenLog, flushedHeight) # {}
    BY <1>1 DEF m
  <2> QED
    BY Zenon, <2>3, <2>4
<1>7. started(frozen)' /\ A' = a /\ WindowOK(frozen, Floor)'
  BY <1>2, <1>6 DEF A, started, WindowOK, Expected
<1>8. Shape(a, b)'
  BY <1>1, <1>2, <1>3 DEF Shape, InLog
<1>9. PhaseInv'
  BY SMTT(60), <1>1, <1>3, <1>7, <1>8 DEF PhaseInv
<1>10. LogInv' /\ CutInv'
  BY <1>1 DEF LogInv, CutInv, TypeInv
<1>11. DurableInv'
  BY <1>1, <1>2, <1>7 DEF DurableInv, InLog
<1> QED
  BY <1>2, <1>9, <1>10, <1>11

=============================================================================
