---------------------------- MODULE WindowProofs ----------------------------
(***************************************************************************)
(* Proofs about Window, part three: the end of open, the stops without     *)
(* Close, the inductive step as a whole, and the theorems, for every chain,*)
(* every trigger and any number of kills, power losses and failed seals.   *)
(***************************************************************************)
EXTENDS WindowSteps

\* open's last step: the active window is recovered from its log.
LEMMA InvOpenWindow ==
  ASSUME IInv, TypeInv', OpenWindow
  PROVE  IInv'
<1> USE DEF IInv
<1>1. /\ phase' = "up" /\ frozenLog' = {}
      /\ mem' = Recovered(winLog, flushedTx, flushedHeight)
      /\ UNCHANGED <<runs, winLog, synced, durFrozen, rename, frozen, wpc, spc, cut, acked>>
      /\ \/ phase = "down" /\ Kept(frozenLog, flushedHeight) = {}
         \/ phase = "opening" /\ spc = "idle"
  BY DEF OpenWindow
<1>2. RunsInv' /\ Floor' = Floor /\ Floor \in Ends
  BY <1>1, FloorStays, EndFacts
<1>3. /\ phase # "up" /\ spc = "idle" /\ cut = "none" /\ wpc = "ready"
      /\ ~started(frozen) /\ ~started(frozen)'
  <2>1. ~started(NoWindow)
    BY DEF started, NoWindow, EmptyWindow
  <2>2. ~started(frozen)
    BY <1>1, <2>1 DEF PhaseInv, CutInv
  <2>3. phase # "up" /\ spc = "idle" /\ cut = "none" /\ wpc = "ready"
    BY <1>1 DEF PhaseInv, TypeInv
  <2> QED
    BY <1>1, <2>2, <2>3 DEF started
<1>4. A = Floor /\ A' = Floor
  BY <1>2, <1>3 DEF A
<1>5. PICK b \in Ends : Shape(Floor, b)
  <2>1. CASE phase = "opening"
    BY <1>4, <2>1 DEF PhaseInv
  <2>2. CASE phase = "down"
    <3>1. PICK a \in Ends, b \in Ends : Shape(a, b)
      BY <2>2 DEF PhaseInv
    <3>2. Kept(frozenLog, flushedHeight) # {} <=> Floor < a
      <4>1. Floor <= a /\ \A h \in Heights : h >= Floor => (InLog(frozenLog, h) <=> h < a)
        BY <3>1 DEF Shape
      <4> QED
        BY Zenon, <3>1, <4>1, RecoveredWindow DEF TypeInv, TypeOK, LogInv
    <3>3. a = Floor
      BY <1>1, <1>2, <2>2, <3>1, <3>2 DEF Shape, Ends
    <3> QED
      BY <3>1, <3>3
  <2> QED
    BY <1>1, <2>1, <2>2
<1>6. \A h \in Heights : h >= Floor => (InLog(winLog, h) <=> h < b)
  BY <1>2, <1>5 DEF Shape, Heights, Ends
<1>7. Floor <= b
  BY <1>5 DEF Shape
<1>8. /\ WindowOK(mem', Floor) /\ (started(mem') <=> Floor < b)
      /\ (started(mem') => mem'.next = b)
  BY <1>1, <1>5, <1>6, <1>7, RecoveredWindow DEF TypeInv, TypeOK, LogInv
<1>9. B' = b /\ WindowOK(mem, A)'
  <2>1. B' = b
    BY <1>2, <1>4, <1>7, <1>8 DEF B, started, Ends
  <2>2. WindowOK(mem, A)'
    BY <1>4, <1>8 DEF WindowOK, started, Expected
  <2> QED
    BY <2>1, <2>2
<1>10. Shape(Floor, b)'
  BY <1>1, <1>2, <1>5 DEF Shape, InLog, Heights, Ends
<1>11. PhaseInv'
  BY <1>1, <1>3, <1>4, <1>9, <1>10, <1>2 DEF PhaseInv
<1>12. LogInv' /\ CutInv'
  BY <1>1, <1>3 DEF LogInv, CutInv
<1>13. \A r \in frozenLog : r.h < Floor
  BY <1>5, NothingUnsealed DEF TypeInv
<1>14. rename = "durable"
  <2>1. \A r \in frozenLog : ~(r.h >= Floor)
    BY <1>2, <1>13, ChainFacts DEF TypeInv, TypeOK, LogRecord, Heights, Ends
  <2> QED
    BY <2>1 DEF DurableInv, TypeInv, TypeOK
<1>15. \A r \in durFrozen : r.h < Floor
  BY <1>13, <1>14 DEF DurableInv
<1>16. \A h \in 1..acked : h < Floor \/ (InLog(winLog, h) /\ h <= synced)
  BY <1>13 DEF DurableInv, InLog
<1>17. DurableInv'
  BY <1>1, <1>2, <1>14, <1>15, <1>16 DEF DurableInv
<1> QED
  BY <1>2, <1>11, <1>12, <1>17

\* A stop that leaves the disk alone: Close, and kill -9 at any point.
LEMMA InvKill ==
  ASSUME IInv, TypeInv', Close \/ Kill
  PROVE  IInv'
<1> USE DEF IInv
<1>1. /\ phase' = "down" /\ mem' = NoWindow /\ frozen' = NoWindow
      /\ wpc' = "ready" /\ spc' = "idle" /\ cut' = "none"
      /\ UNCHANGED <<runs, winLog, synced, frozenLog, durFrozen, rename, acked>>
  BY DEF Close, Kill, Stopped, disk
<1>2. RunsInv' /\ Floor' = Floor
  BY <1>1, FloorStays
<1>3. ~started(frozen)'
  BY <1>1 DEF started, NoWindow, EmptyWindow
<1>4. PhaseInv'
  BY SMTT(60), <1>1, <1>2, <1>3, AnyShape DEF PhaseInv, Shape, InLog
<1>5. LogInv' /\ CutInv'
  BY <1>1 DEF LogInv, CutInv
<1>6. DurableInv'
  BY <1>1, <1>2 DEF DurableInv, InLog
<1> QED
  BY <1>2, <1>4, <1>5, <1>6

\* A power loss: the window log loses a tail that was not fsynced, the rename
\* of a cut may be undone, and an unlinked frozen log may be back.
LEMMA InvPowerLoss ==
  ASSUME IInv, TypeInv', PowerLoss
  PROVE  IInv'
<1> USE DEF IInv
<1>1. /\ phase' = "down" /\ mem' = NoWindow /\ frozen' = NoWindow
      /\ wpc' = "ready" /\ spc' = "idle" /\ cut' = "none"
      /\ durFrozen' = frozenLog' /\ rename' = "durable" /\ UNCHANGED runs
  BY DEF PowerLoss, Stopped
<1>2. RunsInv' /\ Floor' = Floor /\ Floor \in Ends
  BY <1>1, FloorStays, EndFacts
<1>3. ~started(frozen)'
  BY <1>1 DEF started, NoWindow, EmptyWindow
<1>4. PICK a \in Ends, b \in Ends : Shape(a, b)
  BY AnyShape
<1>5. Floor <= a /\ a <= b
  BY <1>4 DEF Shape
<1>6. ASSUME NEW c \in Ends, NEW d \in Ends, Shape(c, d)', LogInv', synced' <= acked',
             \A h \in 1..acked' :
               h < Floor' \/ InLog(frozenLog', h) \/ (InLog(winLog', h) /\ h <= synced')
      PROVE  IInv'
  <2>1. PhaseInv'
    BY <1>1, <1>3, <1>6 DEF PhaseInv
  <2>2. CutInv'
    BY <1>1 DEF CutInv
  <2>3. DurableInv'
    BY <1>1, <1>6 DEF DurableInv
  <2> QED
    BY <1>2, <1>6, <2>1, <2>2, <2>3
<1>7. CASE rename = "durable"
  <2>1. PICK k \in {synced} \cup {r.h : r \in winLog} :
          /\ k >= synced /\ winLog' = {r \in winLog : r.h <= k}
          /\ synced' = k /\ acked' = Bigger(acked, k)
    BY <1>7 DEF PowerLoss
  <2>2. k \in 0..MaxHeight /\ synced \in 0..MaxHeight /\ acked \in 0..MaxHeight
    BY <2>1, ChainFacts DEF TypeInv, TypeOK, LogRecord, Heights
  <2>3. frozenLog' \in {frozenLog, durFrozen}
    BY <1>7 DEF PowerLoss
  <2>4. LogInv'
    BY <1>1, <2>1, <2>3 DEF LogInv
  <2>5. ASSUME NEW h \in Heights, h >= Floor
        PROVE  InLog(frozenLog', h) <=> InLog(frozenLog, h)
    <3>1. CASE frozenLog' = frozenLog
      BY <3>1
    <3>2. CASE frozenLog = {} /\ frozenLog' = durFrozen /\ \A r \in durFrozen : r.h < Floor
      BY <1>2, <2>5, <3>2 DEF InLog, Heights, Ends
    <3> QED
      BY <1>7, <2>3, <3>1, <3>2 DEF DurableInv
  <2>6. ASSUME NEW h \in Heights
        PROVE  InLog(winLog', h) <=> InLog(winLog, h) /\ h <= k
    BY <2>1 DEF InLog
  <2> DEFINE e == IF k + 1 < a THEN a ELSE IF k + 1 < b THEN k + 1 ELSE b
  <2>7. e \in Ends /\ a <= e
    <3>1. a \in 1..(MaxHeight + 1) /\ b \in 1..(MaxHeight + 1) /\ MaxHeight \in Nat
      BY <1>4, ChainFacts DEF Ends
    <3> QED
      BY <1>5, <2>2, <3>1 DEF Ends
  <2>8. ASSUME NEW h \in Heights, h >= Floor
        PROVE  /\ InLog(frozenLog', h) <=> h < a
               /\ InLog(winLog', h) <=> a <= h /\ h < e
    <3>1. InLog(frozenLog, h) <=> h < a
      BY <1>4, <2>8 DEF Shape
    <3>2. InLog(winLog, h) <=> a <= h /\ h < b
      BY <1>4, <2>8 DEF Shape
    <3>3. (a <= h /\ h < b /\ h <= k) <=> (a <= h /\ h < e)
      BY <1>5, <2>2 DEF Heights, Ends
    <3> QED
      BY <2>5, <2>6, <2>8, <3>1, <3>2, <3>3
  <2>9. Shape(a, e)'
    <3> HIDE DEF e
    <3> QED
      BY <1>2, <1>5, <2>7, <2>8 DEF Shape
  <2>10. ASSUME NEW h \in 1..acked'
         PROVE  h < Floor' \/ InLog(frozenLog', h) \/ (InLog(winLog', h) /\ h <= synced')
    <3>1. h \in Heights /\ h \in Nat /\ (h <= acked \/ h <= k)
      BY <2>1, <2>2, ChainFacts DEF Bigger, Heights
    <3>2. CASE h <= acked
      <4>1. h < Floor \/ InLog(frozenLog, h) \/ (InLog(winLog, h) /\ h <= synced)
        BY <2>2, <3>1, <3>2 DEF DurableInv
      <4>2. h <= synced => h <= k
        BY <2>1, <2>2, <3>1
      <4> QED
        BY <1>2, <2>1, <2>5, <2>6, <3>1, <4>1, <4>2 DEF Ends
    <3>3. CASE h > acked
      <4>1. h <= k /\ k # synced
        BY <2>2, <3>1, <3>3 DEF DurableInv
      <4>2. PICK r \in winLog : r.h = k
        BY <2>1, <4>1
      <4>3. k \in Heights /\ InLog(winLog, k)
        BY <2>2, <3>1, <4>1, <4>2, ChainFacts DEF InLog, Heights
      <4>4. k < Floor \/ k < b
        BY <1>2, <1>4, <4>3 DEF Shape, Heights, Ends
      <4>5. h < Floor \/ h < a \/ (a <= h /\ h < b)
        BY <1>2, <2>2, <3>1, <4>1, <4>4 DEF Ends
      <4>6. h < Floor \/ InLog(frozenLog, h) \/ InLog(winLog, h)
        BY <1>2, <1>4, <3>1, <4>5 DEF Shape, Ends
      <4> QED
        BY <1>2, <2>1, <2>5, <2>6, <3>1, <4>1, <4>6 DEF Ends
    <3> QED
      BY <2>2, <3>1, <3>2, <3>3
  <2>11. synced' <= acked'
    BY <2>1, <2>2 DEF Bigger
  <2> HIDE DEF e
  <2> QED
    BY <1>4, <1>6, <2>4, <2>7, <2>9, <2>10, <2>11
<1>8. CASE rename = "pending"
  <2>1. /\ winLog = {} /\ UNCHANGED <<synced, acked>>
        /\ \A r \in durFrozen : r.h < Floor
        /\ \A r \in frozenLog : r.h <= synced
    BY <1>8 DEF DurableInv, PowerLoss
  <2>2. \A h \in 1..acked : h < Floor \/ InLog(frozenLog, h)
    BY <2>1 DEF DurableInv, InLog
  <2>3. CASE UNCHANGED <<winLog, frozenLog>>
    <3>1. Shape(a, b)' /\ LogInv'
      BY <1>1, <1>2, <1>4, <2>3 DEF Shape, InLog, LogInv
    <3>2. synced' <= acked'
      BY <2>1 DEF DurableInv
    <3> QED
      BY <1>2, <1>6, <2>1, <2>2, <2>3, <3>1, <3>2
  <2>4. CASE winLog' = frozenLog /\ frozenLog' = durFrozen
    <3>1. ASSUME NEW h \in Heights, h >= Floor
          PROVE  /\ InLog(frozenLog', h) <=> h < Floor
                 /\ InLog(winLog', h) <=> Floor <= h /\ h < a
      <4>1. InLog(frozenLog, h) <=> h < a
        BY <1>4, <3>1 DEF Shape
      <4>2. ~(h < Floor)
        BY <1>2, <3>1 DEF Heights, Ends
      <4> QED
        BY <2>1, <2>4, <3>1, <4>1, <4>2 DEF InLog
    <3>2. Shape(Floor, a)'
      BY <1>2, <1>5, <3>1 DEF Shape, Ends
    <3>3. LogInv'
      BY <1>1, <2>4 DEF LogInv
    <3>4. \A h \in 1..acked' : h < Floor' \/ (InLog(winLog', h) /\ h <= synced')
      BY <1>2, <2>1, <2>2, <2>4 DEF InLog
    <3>5. synced' <= acked'
      BY <2>1 DEF DurableInv
    <3> QED
      BY <1>2, <1>6, <3>2, <3>3, <3>4, <3>5
  <2> QED
    BY <1>8, <2>3, <2>4 DEF PowerLoss
<1> QED
  BY <1>7, <1>8 DEF TypeInv, TypeOK

\* Every step keeps the invariant, for a caller who stops at the first error
\* WriteBlock returns.
LEMMA InvNext == StopOnError /\ IInv /\ [Next]_vars => IInv'
<1> SUFFICES ASSUME StopOnError, IInv, [Next]_vars
             PROVE  IInv'
  OBVIOUS
<1>1. TypeInv'
  BY TypeNext DEF IInv
<1>2. ASSUME NEW h \in Heights, WriteBlock(h)
      PROVE  IInv'
  BY <1>1, <1>2, InvWriteBlock
<1>3. CASE CutSync \/ Sync
  BY <1>1, <1>3, InvCutSync
<1>4. CASE CutRename
  BY <1>1, <1>4, InvCutRename
<1>5. CASE CutSyncDir \/ CutInstall
  BY <1>1, <1>5, InvCutInstall
<1>6. CASE SealWrite \/ SealFail
  BY <1>1, <1>6, InvSealWrite
<1>7. CASE SealPublish
  BY <1>1, <1>7, InvSealPublish
<1>8. CASE SealUnlink \/ SealTailFail
  BY <1>1, <1>8, InvSealUnlink
<1>9. CASE OpenFrozen
  BY <1>1, <1>9, InvOpenFrozen
<1>10. CASE OpenWindow
  BY <1>1, <1>10, InvOpenWindow
<1>11. CASE Close \/ Kill
  BY <1>1, <1>11, InvKill
<1>12. CASE PowerLoss
  BY <1>1, <1>12, InvPowerLoss
<1>14. CASE CutRefused \/ CutFail \/ WriteFail
  BY <1>1, <1>14, InvFail
<1>15. CASE CutAgain
  BY <1>15 DEF CutAgain, IInv, CutInv
<1>13. CASE UNCHANGED vars
  <2>1. UNCHANGED <<runs, winLog, synced, frozenLog, durFrozen, rename,
                    phase, mem, frozen, wpc, spc, cut, acked>>
    BY <1>13 DEF vars
  <2>2. RunsInv' /\ Floor' = Floor /\ A' = A /\ B' = B
    BY <2>1, FloorStays DEF IInv, A, B, started
  <2>3. PhaseInv'
    <3>1. CASE phase = "up"
      BY SMTT(60), <2>1, <3>1, PhaseStays
    <3>2. CASE phase # "up"
      BY SMTT(60), <2>1, <2>2, <3>2 DEF IInv, PhaseInv, Shape, InLog, WindowOK, started
    <3> QED
      BY <3>1, <3>2
  <2>4. LogInv' /\ CutInv' /\ DurableInv'
    BY <2>1, <2>2 DEF IInv, LogInv, CutInv, DurableInv, InLog, started
  <2> QED
    BY <1>1, <2>2, <2>3, <2>4 DEF IInv
<1> QED
  BY <1>2, <1>3, <1>4, <1>5, <1>6, <1>7, <1>8, <1>9, <1>10, <1>11, <1>12, <1>13,
     <1>14, <1>15 DEF Next

-----------------------------------------------------------------------------
(***************************************************************************)
(* What the invariant says of the store.                                   *)
(***************************************************************************)

\* A fsynced block is below the floor, where the runs have it, or in a log.
LEMMA InvNoBlockLost == IInv => NoBlockLost
<1> SUFFICES ASSUME IInv, NEW h \in 1..acked
             PROVE  InRuns(h) \/ InLog(frozenLog, h) \/ InLog(winLog, h)
  BY DEF NoBlockLost
<1>1. Floor \in Ends /\ acked \in Nat
  BY EndFacts DEF IInv, TypeInv, TypeOK
<1>2. CASE h < Floor
  BY <1>1, <1>2 DEF IInv, RunsInv, Ends
<1>3. CASE ~(h < Floor)
  BY <1>3 DEF IInv, DurableInv
<1> QED
  BY <1>2, <1>3

\* The descent from the active window over the frozen one to the runs: each
\* part ends where the one above it starts.
LEMMA InvNoHole == IInv => NoHole
<1> SUFFICES ASSUME IInv, phase = "up", NEW h \in 1..(NextHeight - 1)
             PROVE  InWindow(mem, h) \/ InWindow(frozen, h) \/ InRuns(h)
  BY DEF NoHole
<1> USE DEF IInv
<1>1. Floor \in Ends /\ A \in Ends /\ B \in Ends /\ Floor <= A /\ A <= B
  BY EndFacts
<1>2. WindowOK(mem, A) /\ (started(frozen) => WindowOK(frozen, Floor))
  BY DEF PhaseInv
<1>3. h \in Nat /\ h >= 1 /\ h < B
  <2>1. NextHeight = B \/ NextHeight = 0
    BY FloorFacts DEF NextHeight, A, B, TypeInv
  <2> QED
    BY <1>1, <2>1 DEF Ends
<1>4. CASE h < Floor
  BY <1>1, <1>3, <1>4 DEF RunsInv, Ends
<1>5. CASE Floor <= h /\ h < A
  BY <1>1, <1>2, <1>5 DEF A, InWindow, WindowOK, Ends
<1>6. CASE A <= h
  BY <1>1, <1>2, <1>3, <1>6 DEF B, InWindow, WindowOK, Ends
<1> QED
  BY <1>1, <1>3, <1>4, <1>5, <1>6 DEF Ends

\* Windows start at or above the floor and the frozen one ends where the active
\* one starts.
LEMMA InvExactlyOnce == IInv => ExactlyOnce
<1> SUFFICES ASSUME IInv
             PROVE  ExactlyOnce
  OBVIOUS
<1> USE DEF IInv
<1>1. \A i, j \in 1..Len(runs) : i < j => runs[i].to < runs[j].from
  BY DEF RunsInv
<1>2. Floor \in Ends /\ A \in Ends /\ Floor <= A
  BY EndFacts
<1>3. started(frozen) => frozen.base = Floor /\ frozen.next = A
  BY DEF PhaseInv, WindowOK, A
<1>4. started(mem) => mem.base = A
  <2>1. ~started(NoWindow)
    BY DEF started, NoWindow, EmptyWindow
  <2> QED
    BY <2>1 DEF PhaseInv, WindowOK
<1>5. ASSUME NEW h \in Heights
      PROVE  /\ InRuns(h) => ~InWindow(mem, h) /\ ~InWindow(frozen, h)
             /\ ~(InWindow(mem, h) /\ InWindow(frozen, h))
  <2>1. InRuns(h) => h < Floor
    <3> SUFFICES ASSUME NEW i \in 1..Len(runs), runs[i].from <= h, h <= runs[i].to
                 PROVE  h < Floor
      BY DEF InRuns
    <3>1. runs[i] \in RunRef
      BY DEF TypeInv, TypeOK
    <3>2. runs[i].to \in Nat
      BY SMTT(60), <3>1 DEF RunRef
    <3> QED
      BY <1>2, <3>2, ChainFacts DEF RunsInv, Heights, Ends
  <2> QED
    BY <1>2, <1>3, <1>4, <2>1, ChainFacts DEF InWindow, Heights, Ends
<1> QED
  BY <1>1, <1>5 DEF ExactlyOnce

\* The TxNums follow from the runs' part of the invariant and from WindowOK.
LEMMA InvTxNums == IInv => TxNumsByContent
<1>1. ~started(NoWindow)
  BY DEF started, NoWindow, EmptyWindow
<1> QED
  BY <1>1 DEF IInv, RunsInv, PhaseInv, WindowOK, TxNumsByContent

\* Both logs have one block after the other from the floor up.
LEMMA InvOpens == IInv => OpenNeverRefuses
<1> SUFFICES ASSUME IInv
             PROVE  OpenNeverRefuses
  OBVIOUS
<1> USE DEF IInv
<1>1. Floor \in Ends
  BY EndFacts
<1>2. ASSUME NEW log \in SUBSET LogRecord, NEW a \in Ends, NEW b \in Ends, Floor <= a,
             \A h \in Heights : h >= Floor => (InLog(log, h) <=> (a <= h /\ h < b))
      PROVE  Contiguous(log, flushedHeight)
  <2>1. Kept(log, flushedHeight) = {r \in log : r.h >= Floor}
    BY KeptIsUnsealed DEF TypeInv
  <2>2. ASSUME NEW r \in log, r.h >= Floor, NEW q \in log, q.h >= Floor, q.h < r.h
        PROVE  \E p \in log : p.h = r.h - 1 /\ p.h >= Floor
    <3>1. /\ r.h \in Heights /\ q.h \in Heights /\ InLog(log, r.h) /\ InLog(log, q.h)
      BY DEF LogRecord, InLog
    <3>2. a <= q.h /\ r.h < b
      BY <1>2, <2>2, <3>1
    <3>3. r.h - 1 \in Heights /\ r.h - 1 >= Floor /\ a <= r.h - 1 /\ r.h - 1 < b
      BY <1>1, <1>2, <2>2, <3>1, <3>2, ChainFacts DEF Heights, Ends
    <3>4. InLog(log, r.h - 1)
      BY <1>2, <3>3
    <3> QED
      BY <3>3, <3>4 DEF InLog
  <2> QED
    BY <2>1, <2>2 DEF Contiguous
<1>3. ASSUME phase = "down"
      PROVE  Contiguous(frozenLog, flushedHeight) /\ Contiguous(winLog, flushedHeight)
  <2>1. PICK a \in Ends, b \in Ends : Shape(a, b)
    BY AnyShape
  <2>2. Floor <= a /\ Floor <= Floor
    BY <1>1, <2>1 DEF Shape, Ends
  <2>3. \A h \in Heights : h >= Floor => (InLog(winLog, h) <=> (a <= h /\ h < b))
    BY <2>1 DEF Shape
  <2>4. \A h \in Heights : h >= Floor => (InLog(frozenLog, h) <=> (Floor <= h /\ h < a))
    BY <1>1, <2>1, ChainFacts DEF Shape, Heights, Ends
  <2> QED
    BY SMTT(60), <1>1, <1>2, <2>1, <2>2, <2>3, <2>4 DEF TypeInv, TypeOK
<1> QED
  BY <1>3 DEF OpenNeverRefuses, RunsInv

-----------------------------------------------------------------------------
(***************************************************************************)
(* The theorems.                                                           *)
(***************************************************************************)

\* Window.tla's state is well typed in every behaviour, a caller that writes on
\* after an error included.
THEOREM TypeCorrect == Spec => []TypeOK
<1>1. TypeInv => TypeOK
  BY DEF TypeInv
<1> QED
  BY <1>1, TypeInit, TypeNext, PTL DEF Spec

\* IInv is an invariant of the store under a caller who stops at an error.
THEOREM Inductive ==
  ASSUME StopOnError
  PROVE  Spec => []IInv
<1>1. IInv /\ [Next]_vars => IInv'
  BY InvNext
<1> QED
  BY <1>1, InvInit, PTL DEF Spec

\* No block that was ever fsynced is lost, for every chain and trigger, whatever
\* the interleaving of writer, seal, kills and power losses: the order of
\* cutWindow's and seal's renames, fsyncs, manifest save and unlink is enough.
THEOREM NeverLost ==
  ASSUME StopOnError
  PROVE  Spec => []NoBlockLost
BY Inductive, InvNoBlockLost, PTL

\* While the store is up a read of any height up to Head finds a window or a run
\* that holds it, at every step of a cut, a seal and a recovery.
THEOREM NoHoleEver ==
  ASSUME StopOnError
  PROVE  Spec => []NoHole
BY Inductive, InvNoHole, PTL

\* No height is in two places: chain rows are written exactly once.
THEOREM WrittenOnce ==
  ASSUME StopOnError
  PROVE  Spec => []ExactlyOnce
BY Inductive, InvExactlyOnce, PTL

\* The TxNums of runs and of the active window are functions of the chain.
THEOREM TxNumsStable ==
  ASSUME StopOnError
  PROVE  Spec => []TxNumsByContent
BY Inductive, InvTxNums, PTL

\* Whatever a crash leaves, loadManifest and both replays accept it.
THEOREM AlwaysOpens ==
  ASSUME StopOnError
  PROVE  Spec => []OpenNeverRefuses
BY Inductive, InvOpens, PTL
=============================================================================
