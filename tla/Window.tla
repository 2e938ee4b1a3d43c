------------------------------- MODULE Window -------------------------------
(***************************************************************************)
(* The write path of store.DB (store/db.go, store/mem.go): the active      *)
(* window and its log, the cut that freezes it, the seal that turns the    *)
(* frozen window into an L0 run, and open, which recovers all of it after  *)
(* the process is killed or the machine loses power.                       *)
(*                                                                         *)
(* Data abstraction: a block is its height, a log record is a height with  *)
(* the TxNum its end record names, a run is the reference the manifest     *)
(* keeps of it. The chain itself is the constant FirstTx: block h owns the *)
(* TxNums FirstTx[h] .. FirstTx[h+1]-1, the last one its boundary slot.    *)
(***************************************************************************)
EXTENDS Integers, Sequences

CONSTANTS MaxHeight,     \* length of the chain that is executed
          FirstTx,       \* chain content: first TxNum of every block
          FlushTxs,      \* cut trigger: TxNums in the window
          FlushBlocks,   \* cut trigger: blocks in the window
          IOMayFail,     \* a write, an fsync, a rename or a seal may fail
          StopOnError    \* a caller that was told of an error writes no more

Heights == 1..MaxHeight

ASSUME ChainAssumption ==
  /\ MaxHeight \in Nat \ {0}
  /\ FirstTx \in [1..(MaxHeight + 1) -> Nat]
  /\ FirstTx[1] = 0
  /\ \A h \in Heights : FirstTx[h] < FirstTx[h + 1]

ASSUME TriggerAssumption ==
  /\ FlushTxs \in Nat \ {0}
  /\ FlushBlocks \in Nat \ {0}
  /\ IOMayFail \in BOOLEAN
  /\ StopOnError \in BOOLEAN

\* Mutant: the difference taken the wrong way round.
SlotsSwapped(h) == FirstTx[h] - FirstTx[h + 1]

(***************************************************************************)
(* A block's slots: its transactions and the boundary slot (mem.add).      *)
(***************************************************************************)
Slots(h) == FirstTx[h + 1] - FirstTx[h]

VARIABLES
  runs,       \* manifest.json: the run list, durable by every save
  winLog,     \* window.log: the records of the complete blocks in it
  synced,     \* window.log is fsynced up to and including this height
  frozenLog,  \* window.frozen.log, {} when there is no such file
  durFrozen,  \* what the directory on stable storage has under that name
  rename,     \* "pending" while it still has that file under window.log
  phase,      \* "down" | "opening" | "up"
  mem,        \* DB.mem: the active memtable's window
  frozen,     \* DB.frozen: the frozen memtable's window, NoWindow when nil
  wpc,        \* where the writer is: "ready", inside cutWindow, or stopped by
              \* an error: "failed", "torn" (its log), "renamed" (after the rename)
  spc,        \* where the seal is: "idle" | "write" | "publish" | "unlink"
  cut,        \* DB.cut: "none" | "running" | "ok" | "err"
  acked       \* history: the highest block that was ever on stable storage

disk == <<runs, winLog, synced, frozenLog, durFrozen, rename>>
vars == <<runs, winLog, synced, frozenLog, durFrozen, rename,
          phase, mem, frozen, wpc, spc, cut, acked>>

LogRecord  == [h : Heights, nt : Nat]
RunRef     == [fromTx : Nat, toTx : Nat, from : Nat, to : Nat]
WindowType == [baseTx : Nat, nextTx : Nat, base : Nat, next : Nat]

EmptyWindow(tx, h) == [baseTx |-> tx, nextTx |-> tx, base |-> h, next |-> h]
NoWindow == EmptyWindow(0, 0)

\* memtable.started: the window holds a block.
started(m) == m.base < m.next

flushedTx     == IF Len(runs) = 0 THEN 0 ELSE runs[Len(runs)].toTx
flushedHeight == IF Len(runs) = 0 THEN 0 ELSE runs[Len(runs)].to + 1

(***************************************************************************)
(* The first block a store ever takes sets its base; after that only the   *)
(* next height extends it. The executor's first block is 1.                *)
(***************************************************************************)
Expected(m) == IF m.next = 0 THEN 1 ELSE m.next

NextHeight == IF started(mem) THEN mem.next
              ELSE IF started(frozen) THEN frozen.next
              ELSE flushedHeight

\* Mutant: recovery without the floor.
KeptAll(log, base) == log

(***************************************************************************)
(* memtable.recover: a block below the floor is dropped, the first kept    *)
(* one sets the base, the end records carry the TxNums.                    *)
(***************************************************************************)
Kept(log, base) == {r \in log : r.h >= base}
Recovered(log, tx, base) ==
  IF Kept(log, base) = {} THEN EmptyWindow(tx, base)
  ELSE LET last == CHOOSE r \in Kept(log, base) : \A q \in Kept(log, base) : q.h <= r.h
           head == CHOOSE r \in Kept(log, base) : \A q \in Kept(log, base) : r.h <= q.h
       IN [baseTx |-> tx, nextTx |-> last.nt, base |-> head.h, next |-> last.h + 1]

\* Mutant: the trigger one unit late.
TriggeredLate(m) == \/ m.nextTx - m.baseTx > FlushTxs
                    \/ m.next - m.base > FlushBlocks

Triggered(m) == \/ m.nextTx - m.baseTx >= FlushTxs
                \/ m.next - m.base >= FlushBlocks

Init ==
  /\ runs = <<>> /\ winLog = {} /\ synced = 0 /\ frozenLog = {} /\ durFrozen = {}
  /\ rename = "durable"
  /\ phase = "down" /\ mem = NoWindow /\ frozen = NoWindow
  /\ wpc = "ready" /\ spc = "idle" /\ cut = "none"
  /\ acked = 0

-----------------------------------------------------------------------------
(***************************************************************************)
(* The writer: WriteBlock and the cut.                                     *)
(***************************************************************************)
Added(h) == [baseTx  |-> mem.baseTx, nextTx |-> mem.nextTx + Slots(h),
             base    |-> IF started(mem) THEN mem.base ELSE h,
             next    |-> h + 1]

\* memtable.add, then MaybeFlush. A block the store already holds is skipped,
\* and the trigger is still looked at. After a cut that failed past its rename
\* the active window's log has the frozen name.
WriteBlock(h) ==
  /\ phase = "up"
  /\ wpc = "ready" \/ (wpc \in {"failed", "renamed"} /\ ~StopOnError)
  /\ h <= Expected(mem)
  /\ LET m   == IF h < mem.next THEN mem ELSE Added(h)
         rec == IF h < mem.next THEN {} ELSE {[h |-> h, nt |-> m.nextTx]}
     IN /\ mem' = m
        /\ IF wpc = "renamed"
           THEN frozenLog' = frozenLog \cup rec /\ UNCHANGED winLog
           ELSE winLog' = winLog \cup rec /\ UNCHANGED frozenLog
        /\ wpc' = IF ~(started(m) /\ Triggered(m)) THEN "ready"
                  ELSE IF wpc = "renamed" THEN "recut" ELSE "collect"
  /\ UNCHANGED <<runs, synced, durFrozen, rename, phase, frozen, spc, cut, acked>>

\* A write into the log fails: the buffered writer keeps the error, so every
\* later write fails too, and the torn tail is cut off by the next open.
WriteFail ==
  /\ IOMayFail /\ phase = "up"
  /\ wpc = "ready" \/ (wpc \in {"failed", "renamed"} /\ ~StopOnError)
  /\ wpc' = "torn"
  /\ UNCHANGED <<disk, phase, mem, frozen, spc, cut, acked>>

\* cutWindow: waitCut took an earlier seal's error, which WriteBlock returns.
CutRefused ==
  /\ wpc = "collect" /\ cut = "err"
  /\ cut' = "none" /\ wpc' = "failed"
  /\ UNCHANGED <<disk, phase, mem, frozen, spc, acked>>

Bigger(a, b) == IF a >= b THEN a ELSE b

\* An fsync on the journaled file system the data dir is on also commits the
\* directory changes made before it.
JournalCommitted == durFrozen' = frozenLog /\ rename' = "durable"

\* Mutant: waitCut's error is dropped.
CutSyncDropsError ==
  /\ wpc = "collect" /\ cut \in {"none", "ok", "err"}
  /\ cut' = "none" /\ wpc' = "rename"
  /\ synced' = mem.next - 1 /\ acked' = Bigger(acked, mem.next - 1)
  /\ JournalCommitted
  /\ UNCHANGED <<runs, winLog, frozenLog, phase, mem, frozen, spc>>

\* cutWindow: the earlier cut is collected and the log is fsynced.
CutSync ==
  /\ wpc = "collect" /\ cut \in {"none", "ok"}
  /\ cut' = "none" /\ wpc' = "rename"
  /\ synced' = mem.next - 1 /\ acked' = Bigger(acked, mem.next - 1)
  /\ JournalCommitted
  /\ UNCHANGED <<runs, winLog, frozenLog, phase, mem, frozen, spc>>

\* cutWindow again, after one that failed past its rename: the rename finds
\* the log under its new name already.
CutAgain ==
  /\ wpc = "recut" /\ wpc' = "syncdir"
  /\ synced' = mem.next - 1 /\ acked' = Bigger(acked, mem.next - 1)
  /\ JournalCommitted
  /\ UNCHANGED <<runs, winLog, frozenLog, phase, mem, frozen, spc, cut>>

\* cutWindow: window.log takes the frozen name, over whatever had it.
CutRename ==
  /\ wpc = "rename" /\ wpc' = "syncdir"
  /\ frozenLog' = winLog /\ winLog' = {} /\ rename' = "pending"
  /\ UNCHANGED <<runs, synced, durFrozen, phase, mem, frozen, spc, cut, acked>>

CutSyncDir ==
  /\ wpc = "syncdir" /\ wpc' = "install"
  /\ durFrozen' = frozenLog /\ rename' = "durable"
  /\ UNCHANGED <<runs, winLog, synced, frozenLog, phase, mem, frozen, spc, cut, acked>>

\* Mutants: the fresh window starts at the old base; the seal is never started.
CutInstallOldBase ==
  /\ wpc = "install" /\ wpc' = "ready"
  /\ frozen' = mem /\ mem' = EmptyWindow(mem.baseTx, mem.next)
  /\ cut' = "running" /\ spc' = "write"
  /\ UNCHANGED <<disk, phase, acked>>

\* cutWindow: a fresh window is swapped in under mu and the seal is started.
CutInstall ==
  /\ wpc = "install" /\ wpc' = "ready"
  /\ frozen' = mem /\ mem' = EmptyWindow(mem.nextTx, mem.next)
  /\ cut' = "running" /\ spc' = "write"
  /\ UNCHANGED <<disk, phase, acked>>

\* cutWindow: the fsync, the rename, the directory fsync or the fresh window
\* fails, and WriteBlock returns the error.
CutFail ==
  /\ IOMayFail
  /\ \/ wpc = "collect" /\ cut \in {"none", "ok"} /\ cut' = "none" /\ wpc' = "failed"
     \/ wpc = "rename" /\ wpc' = "failed" /\ UNCHANGED cut
     \/ wpc \in {"recut", "syncdir", "install"} /\ wpc' = "renamed" /\ UNCHANGED cut
  /\ UNCHANGED <<disk, phase, mem, frozen, spc, acked>>

\* DB.Sync, the group fsync of the window: the flusher goroutine may call it at
\* any step of a cut.
Sync ==
  /\ phase = "up" /\ wpc # "torn" /\ started(mem)
  /\ synced' = mem.next - 1 /\ acked' = Bigger(acked, mem.next - 1)
  /\ JournalCommitted
  /\ UNCHANGED <<runs, winLog, frozenLog, phase, mem, frozen, wpc, spc, cut>>

-----------------------------------------------------------------------------
\* Mutant: the run's last height is exclusive.
FrozenRefExclusive == [fromTx |-> frozen.baseTx, toTx |-> frozen.nextTx,
                       from   |-> frozen.base,   to   |-> frozen.next]

(***************************************************************************)
(* The seal, on its own goroutine after a cut and inside open after a      *)
(* crash. Its error reaches the next cut through DB.cut, or fails open.    *)
(***************************************************************************)
FrozenRef == [fromTx |-> frozen.baseTx, toTx |-> frozen.nextTx,
              from   |-> frozen.base,   to   |-> frozen.next - 1]

\* Mutant: the frozen window goes before the manifest is saved.
SealWriteClears ==
  /\ spc = "write" /\ spc' = "publish" /\ frozen' = NoWindow
  /\ UNCHANGED <<disk, phase, mem, wpc, cut, acked>>

\* The run is written, fsynced, adopted and opened.
SealWrite ==
  /\ spc = "write" /\ spc' = "publish"
  /\ UNCHANGED <<disk, phase, mem, frozen, wpc, cut, acked>>

\* Mutant: frozen is not cleared in the swap.
SealPublishKeeps ==
  /\ spc = "publish" /\ spc' = "unlink"
  /\ runs' = Append(runs, FrozenRef)
  /\ JournalCommitted
  /\ UNCHANGED <<winLog, synced, frozenLog, phase, mem, frozen, wpc, cut, acked>>

\* The manifest is saved, then the version is swapped and frozen is cleared.
SealPublish ==
  /\ spc = "publish" /\ spc' = "unlink"
  /\ runs' = Append(runs, FrozenRef)
  /\ frozen' = NoWindow
  /\ JournalCommitted
  /\ UNCHANGED <<winLog, synced, frozenLog, phase, mem, wpc, cut, acked>>

\* An error before the manifest is saved: the frozen window stays.
SealFail ==
  /\ IOMayFail /\ spc \in {"write", "publish"}
  /\ spc' = "idle"
  /\ IF phase = "opening"
     THEN phase' = "down" /\ frozen' = NoWindow /\ UNCHANGED cut
     ELSE cut' = "err" /\ UNCHANGED <<phase, frozen>>
  /\ UNCHANGED <<disk, mem, wpc, acked>>

\* The frozen log goes, and the tail of seal (MaybeMerge, Publish) follows.
SealUnlink ==
  /\ spc = "unlink" /\ spc' = "idle" /\ frozenLog' = {}
  /\ cut' = IF phase = "up" THEN "ok" ELSE cut
  /\ UNCHANGED <<runs, winLog, synced, durFrozen, rename, phase, mem, frozen, wpc, acked>>

\* The unlink or that tail fails: the run stays published.
SealTailFail ==
  /\ IOMayFail /\ spc = "unlink" /\ spc' = "idle"
  /\ frozenLog' \in {frozenLog, {}}
  /\ IF phase = "opening" THEN phase' = "down" /\ UNCHANGED cut
     ELSE cut' = "err" /\ UNCHANGED phase
  /\ UNCHANGED <<runs, winLog, synced, durFrozen, rename, mem, frozen, wpc, acked>>

-----------------------------------------------------------------------------
(***************************************************************************)
(* open, Close, and the two ways to stop without Close.                    *)
(***************************************************************************)
Tiles(a, b) == b.fromTx = a.toTx /\ b.from = a.to + 1

\* What loadManifest refuses: a run list with a hole or an overlap.
checkTiling == \A i \in 1..(Len(runs) - 1) : Tiles(runs[i], runs[i + 1])

\* What chainIndex.add refuses on replay: rows that do not follow on.
Contiguous(log, base) ==
  \A r \in Kept(log, base) :
    (\E q \in Kept(log, base) : q.h < r.h) => \E q \in Kept(log, base) : q.h = r.h - 1

\* A frozen log that no run holds yet is replayed and sealed before anything.
OpenFrozen ==
  /\ phase = "down" /\ checkTiling
  /\ Kept(frozenLog, flushedHeight) # {} /\ Contiguous(frozenLog, flushedHeight)
  /\ frozen' = Recovered(frozenLog, flushedTx, flushedHeight)
  /\ phase' = "opening" /\ spc' = "write"
  /\ UNCHANGED <<disk, mem, wpc, cut, acked>>

\* A frozen log whose blocks are in a run is removed; the active log is replayed.
OpenWindow ==
  /\ \/ phase = "down" /\ checkTiling /\ Kept(frozenLog, flushedHeight) = {}
     \/ phase = "opening" /\ spc = "idle"
  /\ Contiguous(winLog, flushedHeight)
  /\ phase' = "up" /\ frozenLog' = {}
  /\ mem' = Recovered(winLog, flushedTx, flushedHeight)
  /\ UNCHANGED <<runs, winLog, synced, durFrozen, rename, frozen, wpc, spc, cut, acked>>

Stopped ==
  /\ phase' = "down" /\ mem' = NoWindow /\ frozen' = NoWindow
  /\ wpc' = "ready" /\ spc' = "idle" /\ cut' = "none"

\* DB.Close: the cut in flight is collected, its error dropped.
Close ==
  /\ phase = "up" /\ wpc \in {"ready", "failed", "torn", "renamed"} /\ cut # "running"
  /\ Stopped
  /\ UNCHANGED <<disk, acked>>

\* kill -9: what write(2) took is in the page cache and survives.
Kill ==
  /\ phase # "down"
  /\ Stopped
  /\ UNCHANGED <<disk, acked>>

\* Power loss: the log keeps what was fsynced and some prefix of the rest, and
\* directory changes that were not fsynced may be undone.
PowerLoss ==
  /\ Stopped
  /\ \/ /\ rename = "durable"
        /\ \E k \in {synced} \cup {r.h : r \in winLog} :
             /\ k >= synced
             /\ winLog' = {r \in winLog : r.h <= k}
             /\ synced' = k /\ acked' = Bigger(acked, k)
        /\ frozenLog' \in {frozenLog, durFrozen}
     \/ /\ rename = "pending"
        /\ \/ winLog' = frozenLog /\ frozenLog' = durFrozen
           \/ UNCHANGED <<winLog, frozenLog>>
        /\ UNCHANGED <<synced, acked>>
  /\ durFrozen' = frozenLog' /\ rename' = "durable"
  /\ UNCHANGED runs

Next ==
  \/ \E h \in Heights : WriteBlock(h)
  \/ WriteFail \/ CutRefused \/ CutFail
  \/ CutSync \/ CutRename \/ CutAgain \/ CutSyncDir \/ CutInstall \/ Sync
  \/ SealWrite \/ SealPublish \/ SealFail \/ SealUnlink \/ SealTailFail
  \/ OpenFrozen \/ OpenWindow \/ Close \/ Kill \/ PowerLoss

Spec == Init /\ [][Next]_vars

-----------------------------------------------------------------------------
(***************************************************************************)
(* Properties.                                                             *)
(***************************************************************************)
TypeOK ==
  /\ runs \in Seq(RunRef)
  /\ winLog \in SUBSET LogRecord /\ frozenLog \in SUBSET LogRecord
  /\ durFrozen \in SUBSET LogRecord /\ rename \in {"durable", "pending"}
  /\ synced \in 0..MaxHeight /\ acked \in 0..MaxHeight
  /\ phase \in {"down", "opening", "up"}
  /\ mem \in WindowType /\ frozen \in WindowType
  /\ wpc \in {"ready", "collect", "recut", "rename", "syncdir", "install",
              "failed", "torn", "renamed"}
  /\ spc \in {"idle", "write", "publish", "unlink"}
  /\ cut \in {"none", "running", "ok", "err"}

InRuns(h)   == \E i \in 1..Len(runs) : runs[i].from <= h /\ h <= runs[i].to
InLog(log, h) == \E r \in log : r.h = h
InWindow(m, h) == started(m) /\ m.base <= h /\ h < m.next

\* A block that was ever fsynced is on disk for the next open to find: in a run
\* the manifest names, in the frozen log or in the active log. This is the
\* publish-before-delete order of cutWindow and seal, across kills, power
\* losses and failed seals.
NoBlockLost == \A h \in 1..acked : InRuns(h) \/ InLog(frozenLog, h) \/ InLog(winLog, h)

\* While the store is up, every height up to Head is in the active window, in
\* the frozen window or in a run: the top-down descent has no hole to fall
\* through at any step of a cut or a seal.
NoHole ==
  phase = "up" => \A h \in 1..(NextHeight - 1) :
                     InWindow(mem, h) \/ InWindow(frozen, h) \/ InRuns(h)

\* Chain rows are written exactly once: a height is in one of the two windows
\* or in one run, and in no two of them.
ExactlyOnce ==
  /\ \A i, j \in 1..Len(runs) : i < j => runs[i].to < runs[j].from
  /\ \A h \in Heights : /\ InRuns(h) => ~InWindow(mem, h) /\ ~InWindow(frozen, h)
                        /\ ~(InWindow(mem, h) /\ InWindow(frozen, h))

\* The TxNums a window or a run carries are the chain's own, however often the
\* window was recovered and whatever was replayed into it.
TxNumsByContent ==
  /\ \A i \in 1..Len(runs) : /\ runs[i].fromTx = FirstTx[runs[i].from]
                             /\ runs[i].toTx = FirstTx[runs[i].to + 1]
  /\ started(mem) => mem.baseTx = FirstTx[mem.base] /\ mem.nextTx = FirstTx[mem.next]

\* No crash leaves a directory that open refuses: the manifest tiles and both
\* logs replay contiguously from where the runs end.
OpenNeverRefuses ==
  /\ checkTiling
  /\ phase = "down" => /\ Contiguous(frozenLog, flushedHeight)
                       /\ Contiguous(winLog, flushedHeight)
=============================================================================
