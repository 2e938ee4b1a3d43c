---------------------------- MODULE WindowFacts -----------------------------
(***************************************************************************)
(* Proofs about Window, part one: the operators of the model, type         *)
(* correctness, the run list, and the writer's steps that leave the names of*)
(* the logs alone. They hold for every chain and every trigger.            *)
(***************************************************************************)
EXTENDS WindowInv, NatOrder

-----------------------------------------------------------------------------
(***************************************************************************)
(* The chain, and the operators of the model.                              *)
(***************************************************************************)

\* A block has at least its boundary slot, so TxNums are naturals and a block
\* moves nextTx up.
LEMMA ChainFacts ==
  /\ MaxHeight \in Nat /\ MaxHeight >= 1
  /\ \A h \in Ends : FirstTx[h] \in Nat
  /\ FirstTx[1] = 0
  /\ \A h \in Heights : Slots(h) \in Nat /\ FirstTx[h] + Slots(h) = FirstTx[h + 1]
BY ChainAssumption DEF Ends, Heights, Slots

\* A log with something in it has a first and a last block.
LEMMA LogEnds ==
  ASSUME NEW log \in SUBSET LogRecord, log # {}
  PROVE  /\ \E r \in log : \A q \in log : r.h <= q.h
         /\ \E r \in log : \A q \in log : q.h <= r.h
<1> DEFINE T == {r.h : r \in log}
<1>1. T # {} /\ T \subseteq Nat /\ T \subseteq 0..MaxHeight
  BY ChainFacts DEF LogRecord, Heights
<1>2. \A r \in log : r.h \in T
  OBVIOUS
<1>3. PICK x \in T : \A y \in T : x <= y
  <2> HIDE DEF T
  <2> QED
    BY Zenon, <1>1, LeastNat
<1>4. PICK z \in T : \A y \in T : y <= z
  <2> HIDE DEF T
  <2> QED
    BY Zenon, <1>1, ChainFacts, GreatestNat
<1>5. \E r \in log : r.h = x
  OBVIOUS
<1>6. \E r \in log : r.h = z
  OBVIOUS
<1> QED
  <2> HIDE DEF T
  <2> QED
    BY <1>2, <1>3, <1>4, <1>5, <1>6

\* memtable.recover keeps the blocks at or above the floor. The window it
\* leaves starts at the lowest of them and ends after the highest.
LEMMA RecoveredEnds ==
  ASSUME NEW log \in SUBSET LogRecord, NEW tx \in Nat, NEW base \in Nat,
         Kept(log, base) # {}
  PROVE  \E first, last \in Kept(log, base) :
            /\ \A q \in Kept(log, base) : first.h <= q.h /\ q.h <= last.h
            /\ Recovered(log, tx, base) =
                 [baseTx |-> tx, nextTx |-> last.nt, base |-> first.h,
                  next |-> last.h + 1]
<1> DEFINE K == Kept(log, base)
           lst == CHOOSE r \in K : \A q \in K : q.h <= r.h
           fst == CHOOSE r \in K : \A q \in K : r.h <= q.h
<1>1. K \in SUBSET LogRecord /\ K # {}
  BY DEF Kept
<1>2. lst \in K /\ \A q \in K : q.h <= lst.h
  <2> HIDE DEF K
  <2> QED
    BY <1>1, LogEnds
<1>3. fst \in K /\ \A q \in K : fst.h <= q.h
  <2> HIDE DEF K
  <2> QED
    BY <1>1, LogEnds
<1>4. Recovered(log, tx, base) =
        [baseTx |-> tx, nextTx |-> lst.nt, base |-> fst.h,
         next |-> lst.h + 1]
  BY DEF Recovered
<1> QED
  <2> HIDE DEF lst, fst
  <2> QED
    BY Zenon, <1>2, <1>3, <1>4

\* A recovered window is a window, started when something was kept.
LEMMA RecoveredType ==
  ASSUME NEW log \in SUBSET LogRecord, NEW tx \in Nat, NEW base \in Nat
  PROVE  /\ Recovered(log, tx, base) \in WindowType
         /\ started(Recovered(log, tx, base))
              => Recovered(log, tx, base).next \in 2..(MaxHeight + 1)
         /\ started(Recovered(log, tx, base)) <=> Kept(log, base) # {}
<1>1. CASE Kept(log, base) = {}
  BY <1>1 DEF Recovered, started, EmptyWindow, WindowType
<1>2. CASE Kept(log, base) # {}
  <2>1. PICK first, last \in Kept(log, base) :
          /\ \A q \in Kept(log, base) : first.h <= q.h
          /\ Recovered(log, tx, base) =
            [baseTx |-> tx, nextTx |-> last.nt, base |-> first.h,
             next |-> last.h + 1]
    BY <1>2, RecoveredEnds
  <2>2. first \in LogRecord /\ last \in LogRecord
    BY DEF Kept
  <2> QED
    BY <1>2, <2>1, <2>2, ChainFacts DEF LogRecord, started, Heights, WindowType
<1> QED
  BY <1>1, <1>2

-----------------------------------------------------------------------------
(***************************************************************************)
(* Type correctness, whatever the caller does after an error.              *)
(***************************************************************************)

\* An empty store is well typed.
LEMMA TypeInit == Init => TypeInv
BY ChainFacts DEF Init, TypeInv, started, TypeOK, NoWindow, EmptyWindow, WindowType

\* The end of the run list is a TxNum and a height.
LEMMA FlushedType ==
  ASSUME TypeOK
  PROVE  flushedTx \in Nat /\ flushedHeight \in Nat
<1>1. Len(runs) # 0 => runs[Len(runs)] \in RunRef
  BY DEF TypeOK
<1> QED
  BY <1>1 DEF RunRef, flushedTx, flushedHeight

\* Every step of the writer, the seal, open and the crashes keeps the types.
LEMMA TypeNext == TypeInv /\ [Next]_vars => TypeInv'
<1> SUFFICES ASSUME TypeInv, [Next]_vars
             PROVE  TypeInv'
  OBVIOUS
<1> USE ChainFacts DEF TypeInv, TypeOK, started
<1>1. ASSUME NEW h \in Heights, WriteBlock(h)
      PROVE  TypeInv'
  <2>1. CASE h < mem.next
    BY <1>1, <2>1 DEF WriteBlock
  <2>2. CASE ~(h < mem.next)
    <3>3. h \in Nat /\ h >= 1 /\ h <= MaxHeight /\ Slots(h) \in Nat
      BY DEF Heights
    <3>1. Added(h) \in WindowType /\ started(Added(h)) /\ Added(h).next \in 2..(MaxHeight + 1)
      BY SMTT(60), <2>2, <3>3 DEF Added, WindowType
    <3>2. {[h |-> h, nt |-> Added(h).nextTx]} \in SUBSET LogRecord
      BY <3>1 DEF WindowType, LogRecord
    <3>4. winLog' \in SUBSET LogRecord /\ frozenLog' \in SUBSET LogRecord
      BY <1>1, <2>2, <3>2 DEF WriteBlock
    <3> QED
      BY <1>1, <2>2, <3>1, <3>4 DEF WriteBlock
  <2> QED
    BY <2>1, <2>2
<1>2. CASE CutRefused \/ CutFail \/ WriteFail
  BY <1>2 DEF CutRefused, CutFail, WriteFail, disk
<1>3. CASE CutSync \/ CutAgain
  BY <1>3 DEF CutSync, CutAgain, Bigger, JournalCommitted
<1>4. CASE CutRename
  BY <1>4 DEF CutRename
<1>5. CASE CutSyncDir
  BY <1>5 DEF CutSyncDir
<1>6. CASE CutInstall
  BY <1>6 DEF CutInstall, EmptyWindow, WindowType, disk
<1>7. CASE Sync
  BY <1>7 DEF Sync, Bigger, JournalCommitted
<1>8. CASE SealWrite
  BY <1>8 DEF SealWrite, disk
<1>9. CASE SealPublish
  <2>1. FrozenRef \in RunRef
    BY <1>9 DEF SealPublish, FrozenRef, RunRef, WindowType
  <2> QED
    BY <1>9, <2>1 DEF SealPublish, NoWindow, EmptyWindow, WindowType, JournalCommitted
<1>10. CASE SealFail
  BY <1>10 DEF SealFail, NoWindow, EmptyWindow, WindowType, disk
<1>11. CASE SealUnlink \/ SealTailFail
  BY <1>11 DEF SealUnlink, SealTailFail
<1>12. CASE OpenFrozen
  BY <1>12, FlushedType, RecoveredType DEF OpenFrozen, disk
<1>13. CASE OpenWindow
  BY ZenonT(60), <1>13, FlushedType, RecoveredType DEF OpenWindow
<1>14. CASE Close
  BY <1>14 DEF Close, Stopped, NoWindow, EmptyWindow, WindowType, disk
<1>15. CASE Kill
  BY <1>15 DEF Kill, Stopped, NoWindow, EmptyWindow, WindowType, disk
<1>16. CASE PowerLoss
  <2>1. CASE rename = "durable"
    <3>1. PICK k \in {synced} \cup {r.h : r \in winLog} :
            /\ winLog' = {r \in winLog : r.h <= k}
            /\ synced' = k /\ acked' = Bigger(acked, k)
      BY Zenon, <1>16, <2>1 DEF PowerLoss
    <3>2. k \in 0..MaxHeight
      BY <3>1 DEF LogRecord, Heights
    <3>3. winLog' \in SUBSET LogRecord
      BY <3>1
    <3> QED
      BY <1>16, <2>1, <3>1, <3>2, <3>3
      DEF PowerLoss, Stopped, NoWindow, EmptyWindow, WindowType, Bigger
  <2>2. CASE rename = "pending"
    BY SMTT(60), <1>16, <2>2 DEF PowerLoss, Stopped, NoWindow, EmptyWindow, WindowType
  <2> QED
    BY <2>1, <2>2
<1>17. CASE UNCHANGED vars
  BY <1>17 DEF vars
<1> QED
  BY ZenonT(60), <1>1, <1>2, <1>3, <1>4, <1>5, <1>6, <1>7, <1>8, <1>9, <1>10, <1>11, <1>12,
     <1>13, <1>14, <1>15, <1>16, <1>17 DEF Next

-----------------------------------------------------------------------------
(***************************************************************************)
(* Where the runs end.                                                     *)
(***************************************************************************)

\* The runs end at a height of the chain, and what open reads off the last run
\* is that height and the TxNum of the block there.
LEMMA FloorFacts ==
  ASSUME TypeOK, RunsInv
  PROVE  /\ Floor \in Ends
         /\ flushedTx = FirstTx[Floor]
         /\ flushedHeight = Floor \/ (flushedHeight = 0 /\ Floor = 1)
<1>1. CASE Len(runs) = 0
  BY <1>1, ChainFacts DEF Floor, Ends, flushedTx, flushedHeight
<1>2. CASE Len(runs) # 0
  <2>1. Len(runs) \in 1..Len(runs) /\ runs[Len(runs)] \in RunRef
    BY <1>2 DEF TypeOK
  <2>2. /\ 1 <= runs[Len(runs)].from /\ runs[Len(runs)].from <= runs[Len(runs)].to
        /\ runs[Len(runs)].to <= MaxHeight
        /\ runs[Len(runs)].toTx = FirstTx[runs[Len(runs)].to + 1]
    BY <2>1 DEF RunsInv
  <2> QED
    BY <1>2, <2>1, <2>2, ChainFacts DEF Floor, Ends, flushedTx, flushedHeight, RunRef
<1> QED
  BY <1>1, <1>2

\* The floor rule of memtable.recover keeps exactly the blocks no run holds.
LEMMA KeptIsUnsealed ==
  ASSUME TypeOK, RunsInv, NEW log \in SUBSET LogRecord
  PROVE  Kept(log, flushedHeight) = {r \in log : r.h >= Floor}
<1>1. \A r \in log : r.h \in Nat /\ r.h >= 1
  BY ChainFacts DEF LogRecord, Heights
<1> QED
  BY <1>1, FloorFacts DEF Kept

\* Only the seal's manifest save moves the end of the runs.
LEMMA FloorStays == UNCHANGED runs => Floor' = Floor /\ (RunsInv => RunsInv')
BY DEF Floor, RunsInv, checkTiling, InRuns

\* SealPublish appends a run that starts where the others end: the manifest
\* tiles, covers every height below its end, and no height twice.
LEMMA PublishRuns ==
  ASSUME TypeInv, RunsInv, started(frozen), WindowOK(frozen, Floor),
         runs' = Append(runs, FrozenRef)
  PROVE  RunsInv' /\ Floor' = frozen.next
<1> DEFINE n == Len(runs)
<1>0. Floor \in Ends
  BY FloorFacts DEF TypeInv
<1>1. /\ frozen.base = Floor /\ frozen.next \in 2..(MaxHeight + 1) /\ Floor < frozen.next
      /\ frozen.baseTx = FirstTx[Floor] /\ frozen.nextTx = FirstTx[frozen.next]
  BY DEF WindowOK, started, TypeInv
<1>2. FrozenRef = [fromTx |-> FirstTx[Floor], toTx |-> FirstTx[frozen.next],
                   from |-> Floor, to |-> frozen.next - 1]
  BY <1>1 DEF FrozenRef
<1>3. FrozenRef \in RunRef
  BY <1>0, <1>1, <1>2, ChainFacts DEF RunRef, Ends
<1>4. /\ runs \in Seq(RunRef) /\ n \in Nat /\ Len(runs') = n + 1
      /\ runs'[n + 1] = FrozenRef /\ \A i \in 1..n : runs'[i] = runs[i]
  BY <1>3 DEF TypeInv, TypeOK
<1>5. Floor' = frozen.next
  BY <1>1, <1>2, <1>4, ChainFacts DEF Floor
<1>6. \A i \in 1..n : runs[i] \in RunRef
  BY <1>4
<1>7. n # 0 => runs[n].to + 1 = Floor /\ runs[n].toTx = FirstTx[Floor]
  BY <1>4, <1>6 DEF RunsInv, Floor
<1> HIDE DEF n
<1>8. ASSUME NEW i \in 1..Len(runs')
      PROVE  /\ 1 <= runs'[i].from /\ runs'[i].from <= runs'[i].to
             /\ runs'[i].to < Floor' /\ runs'[i].to <= MaxHeight
             /\ runs'[i].fromTx = FirstTx[runs'[i].from]
             /\ runs'[i].toTx = FirstTx[runs'[i].to + 1]
  <2>1. CASE i = n + 1
    BY SMTT(60), <2>1, <1>0, <1>1, <1>2, <1>4, <1>5, ChainFacts DEF Ends
  <2>2. CASE i \in 1..n
    <3>1. /\ 1 <= runs[i].from /\ runs[i].from <= runs[i].to
          /\ runs[i].to < Floor /\ runs[i].to <= MaxHeight
          /\ runs[i].fromTx = FirstTx[runs[i].from]
          /\ runs[i].toTx = FirstTx[runs[i].to + 1]
      BY <2>2 DEF RunsInv, n
    <3>2. runs'[i] = runs[i] /\ runs[i] \in RunRef
      BY <2>2, <1>4, <1>6
    <3>3. runs[i].to \in Nat
      BY <3>2 DEF RunRef
    <3> QED
      BY <3>1, <3>2, <3>3, <1>0, <1>1, <1>5 DEF Ends
  <2> QED
    BY <1>4, <2>1, <2>2
<1>9. ASSUME NEW i \in 1..Len(runs'), NEW j \in 1..Len(runs'), i < j
      PROVE  runs'[i].to < runs'[j].from
  <2>1. i \in 1..n
    BY <1>4, <1>9
  <2>2. CASE j = n + 1
    BY <2>1, <2>2, <1>2, <1>4 DEF RunsInv, n
  <2>3. CASE j \in 1..n
    BY <2>1, <2>3, <1>4, <1>9 DEF RunsInv, n
  <2> QED
    BY <1>4, <2>2, <2>3
<1>10. ASSUME NEW i \in 1..(Len(runs') - 1)
       PROVE  Tiles(runs'[i], runs'[i + 1])
  <2>1. i \in 1..n
    BY <1>4
  <2>2. CASE i = n
    BY <2>1, <2>2, <1>2, <1>4, <1>7 DEF Tiles
  <2>3. CASE i \in 1..(n - 1)
    <3>1. Tiles(runs[i], runs[i + 1])
      BY <2>3 DEF RunsInv, checkTiling, n
    <3> QED
      BY <2>3, <3>1, <1>4 DEF Tiles
  <2> QED
    BY <1>4, <2>1, <2>2, <2>3
<1>11. ASSUME NEW h \in 1..(Floor' - 1)
       PROVE  InRuns(h)'
  <2>1. CASE h >= Floor
    <3>1. runs'[n + 1].from <= h /\ h <= runs'[n + 1].to
      BY <2>1, <1>0, <1>1, <1>2, <1>4, <1>5 DEF Ends
    <3> QED
      BY <3>1, <1>4 DEF InRuns
  <2>2. CASE h < Floor
    <3>1. PICK i \in 1..n : runs[i].from <= h /\ h <= runs[i].to
      BY <2>2, <1>0 DEF RunsInv, InRuns, Ends, n
    <3>2. i \in 1..Len(runs') /\ runs'[i] = runs[i]
      BY <1>4
    <3> QED
      BY <3>1, <3>2 DEF InRuns
  <2> QED
    BY <2>1, <2>2, <1>0, <1>1, <1>5 DEF Ends
<1> QED
  BY <1>5, <1>8, <1>9, <1>10, <1>11 DEF RunsInv, checkTiling

-----------------------------------------------------------------------------
(***************************************************************************)
(* The invariant is inductive, action by action.                           *)
(***************************************************************************)

\* The empty store.
LEMMA InvInit == Init => IInv
<1> SUFFICES ASSUME Init
             PROVE  IInv
  OBVIOUS
<1>1. TypeInv
  BY TypeInit
<1>2. Floor = 1
  BY DEF Init, Floor
<1>3. RunsInv
  BY <1>2 DEF Init, RunsInv, checkTiling
<1>4. Shape(1, 1)
  BY <1>2, ChainFacts DEF Init, Shape, InLog, Heights
<1>5. PhaseInv
  BY <1>4, ChainFacts DEF Init, PhaseInv, Ends, NoWindow, EmptyWindow, started
<1>6. LogInv /\ CutInv /\ DurableInv
  BY DEF Init, LogInv, CutInv, DurableInv, NoWindow, EmptyWindow, started
<1> QED
  BY <1>1, <1>3, <1>5, <1>6 DEF IInv

\* Steps that leave the logs and the runs alone leave their shape alone.
LEMMA ShapeStays ==
  ASSUME UNCHANGED <<runs, winLog, frozenLog>>, NEW a, NEW b
  PROVE  Shape(a, b)' <=> Shape(a, b)
BY FloorStays DEF Shape, InLog

\* memtable.add: the block is the next one, or it is skipped.
LEMMA InvWriteBlock ==
  ASSUME StopOnError, IInv, TypeInv', NEW h \in Heights, WriteBlock(h)
  PROVE  IInv'
<1> USE DEF IInv
<1>1. RunsInv' /\ Floor' = Floor
  BY FloorStays DEF WriteBlock
<1>2. phase = "up" /\ wpc = "ready" /\ WindowOK(mem, A) /\ Shape(A, B)
  BY DEF WriteBlock, PhaseInv
<1>3. /\ Floor \in Ends /\ A \in Ends /\ Floor <= A /\ A <= B
      /\ B \in Ends /\ h \in 1..MaxHeight
  BY <1>2, FloorFacts, ChainFacts DEF Shape, TypeInv, Ends, A, B, Heights
<1>4. A' = A
  BY <1>1 DEF WriteBlock, A, started
<1>5. CASE h < mem.next
  <2>1. /\ mem' = mem /\ winLog' = winLog
        /\ UNCHANGED <<runs, frozenLog, durFrozen, frozen, phase, acked, synced, rename, cut, spc>>
    BY <1>2, <1>5 DEF WriteBlock
  <2>2. wpc' \in {"ready", "collect"}
    BY <1>2, <1>5 DEF WriteBlock
  <2>3. LogInv'
    BY <2>1 DEF LogInv
  <2>4. PhaseInv'
    <3>1. Shape(A, B)'
      BY <2>1, <1>1, <1>2, ShapeStays DEF A, B, Shape, InLog
    <3> QED
      BY <2>1, <2>2, <1>1, <1>2, <1>4, <3>1 DEF PhaseInv, WindowOK, started, Expected
  <2>5. CutInv'
    BY <2>1, <2>2, <1>2 DEF CutInv, started
  <2>6. DurableInv'
    BY <2>1, <2>2, <1>1, <1>2 DEF DurableInv, InLog
  <2> QED
    BY <2>3, <2>4, <2>5, <2>6, <1>1
<1>6. CASE ~(h < mem.next)
  <2>1. /\ mem' = Added(h)
        /\ winLog' = winLog \cup {[h |-> h, nt |-> Added(h).nextTx]}
        /\ UNCHANGED <<runs, frozenLog, durFrozen, frozen, phase, acked, synced, rename, cut, spc>>
    BY <1>2, <1>6 DEF WriteBlock
  <2>2. wpc' \in {"ready", "collect"}
    BY <1>2, <1>6 DEF WriteBlock
  <2>3. h = B
    <3>1. h <= Expected(mem) /\ mem.next \in Nat
      BY DEF WriteBlock, TypeInv, TypeOK, WindowType
    <3>2. CASE started(mem)
      BY <1>3, <1>6, <3>1, <3>2 DEF Expected, B, TypeInv
    <3>3. CASE ~started(mem)
      BY <1>2, <1>3, <1>6, <3>1, <3>3 DEF Expected, B, WindowOK
    <3> QED
      BY <3>2, <3>3
  <2>4. Added(h).nextTx = FirstTx[h + 1]
    BY <1>2, <2>3, ChainFacts DEF Added, WindowOK, B
  <2>5. LogInv'
    BY <2>1, <2>4 DEF LogInv
  <2>6. mem'.base = A /\ mem'.next = B + 1 /\ mem'.baseTx = FirstTx[A]
        /\ mem'.nextTx = FirstTx[B + 1]
    BY <1>2, <2>1, <2>3, <2>4 DEF Added, WindowOK, B
  <2>7. B' = B + 1 /\ WindowOK(mem, A)'
    BY SMTT(60), <1>3, <1>4, <2>6 DEF B, started, WindowOK, Ends
  <2>8. PhaseInv'
    <3>1. ASSUME NEW k \in Heights, k >= Floor
          PROVE  /\ (\E r \in frozenLog' : r.h = k) <=> k < A
                 /\ (\E r \in winLog' : r.h = k) <=> (A <= k /\ k < B + 1)
      <4>1. InLog(frozenLog, k) <=> k < A
        BY <1>2, <3>1 DEF Shape
      <4>2. InLog(winLog, k) <=> (A <= k /\ k < B)
        BY <1>2, <3>1 DEF Shape
      <4> DEFINE x == [h |-> h, nt |-> Added(h).nextTx]
      <4>0. winLog' = winLog \cup {x} /\ x.h = B
        BY <2>1, <2>3
      <4> HIDE DEF x
      <4>3. (\E r \in winLog' : r.h = k) <=> InLog(winLog, k) \/ k = B
        BY <4>0 DEF InLog
      <4>4. (\E r \in frozenLog' : r.h = k) <=> k < A
        BY <2>1, <4>1 DEF InLog
      <4>5. (\E r \in winLog' : r.h = k) <=> (A <= k /\ k < B + 1)
        BY <1>3, <4>2, <4>3 DEF Heights, Ends
      <4> QED
        BY <4>4, <4>5
    <3>3. Shape(A, B)'
      BY <1>1, <1>3, <1>4, <2>7, <3>1 DEF Shape, InLog, Ends
    <3> QED
      BY <2>1, <2>2, <1>1, <1>2, <1>4, <2>7, <3>3 DEF PhaseInv, WindowOK, started
  <2>9. CutInv'
    BY <2>1, <2>2, <1>2 DEF CutInv, started
  <2>10. DurableInv'
    BY <2>1, <2>2, <1>1, <1>2 DEF DurableInv, InLog
  <2> QED
    BY <2>5, <2>8, <2>9, <2>10, <1>1
<1> QED
  BY <1>5, <1>6

\* Where the windows end is a height of the chain.
LEMMA EndFacts ==
  ASSUME TypeInv, RunsInv, PhaseInv
  PROVE  /\ Floor \in Ends /\ A \in Ends /\ Floor <= A
         /\ phase = "up" => B \in Ends /\ A <= B /\ (started(mem) => A < B)
<1>1. Floor \in Ends
  BY FloorFacts DEF TypeInv
<1>2. A \in Ends /\ Floor <= A
  BY <1>1, ChainFacts DEF A, TypeInv, PhaseInv, WindowOK, started, Ends
<1>3. ASSUME phase = "up"
      PROVE  B \in Ends /\ A <= B /\ (started(mem) => A < B)
  <2>1. WindowOK(mem, A)
    BY <1>3 DEF PhaseInv
  <2> QED
    BY <2>1, <1>2, ChainFacts DEF B, TypeInv, WindowOK, started, Ends
<1> QED
  BY <1>1, <1>2, <1>3

\* What an fsync of the window acknowledges is on disk.
LEMMA SyncDurable ==
  ASSUME IInv, phase = "up", NEW a \in Ends, Shape(a, B), started(mem),
         UNCHANGED <<runs, winLog, frozenLog>>,
         synced' = mem.next - 1, acked' = Bigger(acked, mem.next - 1)
  PROVE  \A h \in 1..acked' :
           h < Floor' \/ InLog(frozenLog', h) \/ (InLog(winLog', h) /\ h <= synced')
<1>1. Floor' = Floor
  BY FloorStays
<1>2. B = mem.next /\ B \in Ends /\ Floor \in Ends
  BY EndFacts DEF B, IInv
<1>3. acked \in 0..MaxHeight /\ acked' \in 0..MaxHeight /\ synced' = B - 1
  BY <1>2, ChainFacts DEF IInv, TypeInv, TypeOK, Bigger, Ends
<1>4. ASSUME NEW h \in 1..acked', h >= Floor
      PROVE  InLog(frozenLog, h) \/ (InLog(winLog, h) /\ h <= synced')
  <2>1. h \in Heights
    BY <1>3, ChainFacts DEF Heights
  <2>2. (InLog(frozenLog, h) <=> h < a) /\ (InLog(winLog, h) <=> a <= h /\ h < B)
    BY <1>4, <2>1 DEF Shape
  <2>3. h < B
    <3>1. CASE h <= acked
      <4>1. InLog(frozenLog, h) \/ InLog(winLog, h)
        BY <3>1, <1>2, <1>3, <1>4 DEF IInv, DurableInv, Ends
      <4> QED
        BY <4>1, <1>2, <2>1, <2>2 DEF Ends, Heights, Shape
    <3>2. CASE h > acked
      BY <3>2, <1>2, <1>3 DEF Bigger, Ends
    <3> QED
      BY <3>1, <3>2, <1>3
  <2> QED
    BY <1>2, <1>3, <2>1, <2>2, <2>3 DEF Ends, Heights
<1>5. ASSUME NEW h \in 1..acked'
      PROVE  h < Floor \/ InLog(frozenLog, h) \/ (InLog(winLog, h) /\ h <= synced')
  <2>1. h < Floor \/ h >= Floor
    BY <1>2, <1>3 DEF Ends
  <2> QED
    BY <1>4, <2>1
<1>6. winLog' = winLog /\ frozenLog' = frozenLog
  OBVIOUS
<1> QED
  BY <1>1, <1>5, <1>6, Zenon

\* A cut that the writer takes past waitCut finds no frozen window.
LEMMA CutIsFree ==
  ASSUME IInv, wpc = "collect", cut \in {"none", "ok"}
  PROVE  phase = "up" /\ spc = "idle" /\ ~started(frozen) /\ started(mem)
BY DEF IInv, TypeInv, CutInv

\* Steps of the writer that leave the runs, the logs' names and the windows
\* alone keep what the logs and the windows say.
LEMMA PhaseStays ==
  ASSUME IInv, phase = "up", UNCHANGED <<runs, winLog, frozenLog, phase, mem, frozen, spc>>,
         wpc' \in {"syncdir", "install", "renamed"} <=> wpc \in {"syncdir", "install", "renamed"}
  PROVE  RunsInv' /\ Floor' = Floor /\ PhaseInv'
<1>1. RunsInv' /\ Floor' = Floor /\ A' = A /\ B' = B
  BY FloorStays DEF A, B, started, IInv
<1>2. WindowOK(mem, A)'
  BY <1>1 DEF IInv, PhaseInv, WindowOK, started, Expected
<1>3. /\ Shape(A, B) => Shape(A, B)'
      /\ Shape(B, B) => Shape(B, B)'
  BY SMTT(60), <1>1 DEF Shape, InLog
<1>4. PhaseInv'
  BY <1>1, <1>2, <1>3 DEF IInv, PhaseInv, WindowOK, started
<1> QED
  BY <1>1, <1>4

\* cutWindow's fsync, and DB.Sync at any step of a cut.
LEMMA InvCutSync ==
  ASSUME IInv, TypeInv', CutSync \/ Sync
  PROVE  IInv'
<1> USE DEF IInv
<1>1. /\ phase = "up" /\ started(mem)
      /\ UNCHANGED <<runs, winLog, frozenLog, phase, mem, frozen, spc>>
      /\ synced' = mem.next - 1 /\ acked' = Bigger(acked, mem.next - 1)
      /\ durFrozen' = frozenLog /\ rename' = "durable"
  BY DEF CutSync, Sync, JournalCommitted, TypeInv
<1>2. RunsInv' /\ Floor' = Floor /\ PhaseInv'
  BY <1>1, PhaseStays DEF CutSync, Sync
<1>3. DurableInv'
  <2>1. synced' <= acked'
    BY SMTT(60), <1>1 DEF Bigger, TypeInv, TypeOK, WindowType
  <2>2. PICK a \in Ends : Shape(a, B)
    BY <1>1, EndFacts DEF PhaseInv
  <2> QED
    BY <1>1, <2>1, <2>2, SyncDurable DEF DurableInv
<1>4. LogInv'
  BY <1>1 DEF LogInv
<1>5. CASE CutSync
  <2>1. CutInv'
    BY <1>1, <1>5, CutIsFree DEF CutSync, CutInv, started
  <2> QED
    BY SMTT(60), <1>2, <1>3, <1>4, <2>1
<1>6. CASE Sync
  <2>1. CutInv'
    BY <1>1, <1>6 DEF Sync, CutInv, started
  <2> QED
    BY <1>2, <1>3, <1>4, <2>1
<1> QED
  BY <1>5, <1>6

\* WriteBlock returns an error, its own or an earlier seal's: nothing on disk
\* moves.
LEMMA InvFail ==
  ASSUME StopOnError, IInv, TypeInv', CutRefused \/ CutFail \/ WriteFail
  PROVE  IInv'
<1> USE DEF IInv
<1>1. /\ phase = "up" /\ wpc' \in {"failed", "torn", "renamed"}
      /\ UNCHANGED <<runs, winLog, synced, frozenLog, durFrozen, rename, phase, mem, frozen,
                     spc, acked>>
      /\ wpc' = "renamed" <=> wpc \in {"syncdir", "install"}
      /\ wpc # "renamed"
  BY DEF CutRefused, CutFail, WriteFail, disk, TypeInv, CutInv
<1>2. RunsInv' /\ Floor' = Floor /\ PhaseInv'
  BY <1>1, PhaseStays
<1>3. LogInv'
  BY <1>1 DEF LogInv
<1>4. DurableInv'
  BY <1>1, <1>2 DEF DurableInv, InLog
<1>5. CutInv'
  BY <1>1 DEF CutRefused, CutFail, WriteFail, CutInv, started
<1> QED
  BY <1>2, <1>3, <1>4, <1>5

=============================================================================
