------------------------------ MODULE Executor ------------------------------
(***************************************************************************)
(* The executor (exec/executor.go) on top of the store's write path        *)
(* (module Window), and the merkle state layer Firewood it commits to      *)
(* last. Blocks are executed into a batch, flushBatch hands the batch's    *)
(* rows to the store block by block and then commits one Firewood          *)
(* proposal; Firewood persists its commits some time later. After a crash  *)
(* reconcile walks the stored headers back to the root Firewood kept and   *)
(* re-executes the gap through the same path.                              *)
(*                                                                         *)
(* Data abstraction: a state root is the height of the last block that     *)
(* changed state (0 is genesis), so a block of Empty has its parent's      *)
(* root. Firewood is a library: it is modelled by the commits it has not   *)
(* persisted yet and the root it would hand back after a restart.          *)
(***************************************************************************)
EXTENDS Window

CONSTANTS CommitEvery,        \* blocks in one Firewood proposal
          Empty,              \* blocks with no transactions and no state change
          Deferred,           \* commits Firewood may hold back (external)
          walkBackBudget,     \* reconcile's base budget
          PowerMayFail        \* the machine may lose power

ASSUME ExecutorAssumption ==
  /\ CommitEvery \in Nat \ {0} /\ Deferred \in Nat \ {0} /\ walkBackBudget \in Nat
  /\ Empty \subseteq Heights
  /\ PowerMayFail \in BOOLEAN

VARIABLES
  epc,      \* "off" | "run" | "flush" | "written" | "gapsync" | "exit" | "fwclose" | "closed"
  head,     \* headNum
  start,    \* batchStartNum: the open batch is start+1 .. head
  todo,     \* the next block of the batch flushBatch hands to the store
  gap,      \* where reconcile's re-execution ends, 0 when it is over
  closing,  \* Executor.Close is flushing the open batch
  live,     \* LiveHead, the height served as latest
  fwDisk,   \* the root Firewood persisted
  pend,     \* the roots it committed since, oldest first
  lost      \* history: the machine has lost power

batch    == <<head, start, todo, gap, closing>>
firewood == <<fwDisk, pend, lost>>
exec     == <<epc, head, start, todo, gap, closing, live, fwDisk, pend, lost>>
evars    == <<vars, exec>>

(***************************************************************************)
(* ownRootAt below the Helicon boundary: the root the block's header names *)
(***************************************************************************)
Root(n) == CHOOSE r \in 0..n : /\ r = 0 \/ r \notin Empty
                               /\ \A k \in (r + 1)..n : k \in Empty


walkBackBudgetFor == walkBackBudget + (IF CommitEvery > 1 THEN Deferred * CommitEvery ELSE 0)

Top == IF NextHeight = 0 THEN 0 ELSE NextHeight - 1
Lo  == Bigger(0, Top - walkBackBudgetFor)

\* Where reconcile may put the head: the highest block within the budget whose
\* root Firewood holds, or genesis when that is the root it holds. An empty
\* store starts at genesis whatever Firewood holds.
WalkBack == IF NextHeight = 0 THEN {0} ELSE
            {n \in Lo..Top : Root(n) = fwDisk /\ \A k \in (n + 1)..Top : Root(k) # fwDisk}
            \cup (IF fwDisk = 0 /\ \A n \in Lo..Top : Root(n) # 0 THEN {0} ELSE {})

ExecInit ==
  /\ Init
  /\ epc = "off" /\ head = 0 /\ start = 0 /\ todo = 0 /\ gap = 0
  /\ closing = FALSE /\ live = 0 /\ fwDisk = 0 /\ pend = <<>> /\ lost = FALSE

-----------------------------------------------------------------------------
(***************************************************************************)
(* New, reconcile and Run.                                                 *)
(***************************************************************************)

\* Mutants: the head one block too high; the gap is not re-executed.
ReconcileSkips ==
  /\ epc = "off" /\ phase = "up"
  /\ \E n \in WalkBack :
       /\ n < MaxHeight /\ head' = n + 1 /\ start' = n + 1
       /\ gap'  = IF n < Top THEN Top ELSE 0
       /\ live' = IF n < Top THEN 0 ELSE n
  /\ epc' = "run" /\ todo' = 0 /\ closing' = FALSE
  /\ UNCHANGED <<vars, firewood>>
ReconcileNoGap ==
  /\ epc = "off" /\ phase = "up"
  /\ \E n \in WalkBack : head' = n /\ start' = n /\ live' = n
  /\ epc' = "run" /\ todo' = 0 /\ closing' = FALSE /\ gap' = 0
  /\ UNCHANGED <<vars, firewood>>

\* reconcile aligns the head with the root Firewood kept. With no gap New is
\* done and publishes the live head.
Reconcile ==
  /\ epc = "off" /\ phase = "up"
  /\ \E n \in WalkBack :
       /\ head' = n /\ start' = n
       /\ gap'  = IF n < Top THEN Top ELSE 0
       /\ live' = IF n < Top THEN 0 ELSE n
  /\ epc' = "run" /\ todo' = 0 /\ closing' = FALSE
  /\ UNCHANGED <<vars, firewood>>

\* The state that the batch builds on is Firewood's latest revision.
HasState == Root(start) = IF pend = <<>> THEN fwDisk ELSE pend[Len(pend)]

Failed == IF closing \/ gap # 0 THEN "fwclose" ELSE "exit"

\* executeDecoded: the block is executed into the batch, and a full batch is
\* flushed. CommitEvery = 1 is the per-block path, a batch of one. An empty
\* block needs no state.
Execute ==
  /\ epc = "run" /\ head < MaxHeight
  /\ head + 1 \in Empty \/ HasState
  /\ gap # 0 => head < gap
  /\ head' = head + 1
  /\ epc'  = IF head + 1 - start >= CommitEvery THEN "flush" ELSE "run"
  /\ todo' = start + 1
  /\ UNCHANGED <<vars, start, gap, closing, live, firewood>>

\* executeDecoded fails: its state cannot be opened.
ExecuteFail ==
  /\ epc = "run" /\ head < MaxHeight
  /\ head + 1 \notin Empty /\ ~HasState
  /\ epc' = Failed
  /\ UNCHANGED <<vars, batch, live, firewood>>

\* The fetch runs dry, or reconcile reached its top: the open batch is closed.
Stall ==
  /\ epc = "run" /\ head > start /\ gap \in {0, head}
  /\ epc' = "flush" /\ todo' = start + 1
  /\ UNCHANGED <<vars, head, start, gap, closing, live, firewood>>

\* flushBatch: one block's rows go to the store, which may cut a run.
FlushWrite ==
  /\ epc = "flush" /\ todo <= head
  /\ WriteBlock(todo)
  /\ epc' = "written"
  /\ UNCHANGED <<batch, live, firewood>>

\* Mutant: the batch path publishes the whole batch with its first block.
FlushNextAhead ==
  /\ epc = "written" /\ wpc = "ready"
  /\ epc' = "flush" /\ todo' = todo + 1
  /\ live' = IF CommitEvery > 1 THEN head ELSE live
  /\ UNCHANGED <<vars, head, start, gap, closing, firewood>>

\* WriteBlock has returned: the batch path publishes that block.
FlushNext ==
  /\ epc = "written" /\ wpc = "ready"
  /\ epc' = "flush" /\ todo' = todo + 1
  /\ live' = IF CommitEvery > 1 THEN todo ELSE live
  /\ UNCHANGED <<vars, head, start, gap, closing, firewood>>

\* Mutant: the error is dropped and the block is written again.
FlushErrorRetries ==
  /\ epc = "written" /\ CutRefused
  /\ epc' = "flush"
  /\ UNCHANGED <<batch, live, firewood>>

\* WriteBlock or maybeFlush returned an error, or triedb.Commit did. Run returns
\* with the batch still open, New gives up on a gap, and a flush inside Close
\* ends in triedb.Close.
FlushError ==
  /\ \/ epc = "written" /\ (CutRefused \/ CutFail)
     \/ epc = "flush" /\ todo <= head /\ WriteFail
     \/ epc = "flush" /\ todo <= head /\ wpc = "torn" /\ UNCHANGED vars
     \/ epc = "written" /\ wpc = "ready" /\ IOMayFail /\ UNCHANGED vars
     \/ epc = "flush" /\ todo > head /\ IOMayFail /\ UNCHANGED vars
  /\ epc' = Failed
  /\ UNCHANGED <<batch, live, firewood>>

FlushCommitNoWait ==
  /\ epc = "flush" /\ todo > head
  /\ pend' = IF Root(head) = Root(start) THEN pend ELSE Append(pend, Root(head))
  /\ start' = head
  /\ live'  = head
  /\ epc'   = IF closing THEN "exit" ELSE IF gap = head THEN "gapsync" ELSE "run"
  /\ UNCHANGED <<vars, head, todo, gap, closing, fwDisk, lost>>

\* flushBatch: one proposal for the whole batch, none when no block of it
\* changed state. Firewood makes a commit wait when it holds back too many.
FlushCommit ==
  /\ epc = "flush" /\ todo > head
  /\ IF Root(head) = Root(start) THEN UNCHANGED pend
     ELSE Len(pend) < Deferred /\ pend' = Append(pend, Root(head))
  /\ start' = head
  /\ live'  = head
  /\ epc'   = IF closing THEN "exit" ELSE IF gap = head THEN "gapsync" ELSE "run"
  /\ UNCHANGED <<vars, head, todo, gap, closing, fwDisk, lost>>

\* The window's fsync, which has nothing to do when the log is empty, and its
\* failure.
StoreSync == Sync \/ (phase = "up" /\ wpc # "torn" /\ ~started(mem) /\ UNCHANGED vars)
SyncFails == (IOMayFail \/ wpc = "torn") /\ UNCHANGED vars

\* reconcile makes the re-executed tail durable and New publishes the head.
GapSync ==
  /\ epc = "gapsync"
  /\ \/ StoreSync /\ epc' = "run" /\ gap' = 0 /\ live' = head
     \/ SyncFails /\ epc' = "fwclose" /\ UNCHANGED <<gap, live>>
  /\ UNCHANGED <<head, start, todo, closing, firewood>>

-----------------------------------------------------------------------------
(***************************************************************************)
(* The ways out: Run returns and Node.Close follows, or nothing does.      *)
(***************************************************************************)
RunReturns ==
  /\ epc = "run" /\ gap = 0
  /\ epc' = "exit"
  /\ UNCHANGED <<vars, batch, live, firewood>>

\* Executor.Close flushes a batch that is still open, also one that a failed
\* flushBatch left open.
CloseFlush ==
  /\ epc = "exit" /\ head > start /\ CommitEvery > 1
  /\ epc' = "flush" /\ todo' = start + 1 /\ closing' = TRUE
  /\ UNCHANGED <<vars, head, start, gap, live, firewood>>

CloseSync ==
  /\ epc = "exit" /\ (head = start \/ CommitEvery = 1)
  /\ StoreSync \/ SyncFails
  /\ epc' = "fwclose"
  /\ UNCHANGED <<batch, live, firewood>>

\* triedb.Close persists every commit.
FirewoodClose ==
  /\ epc = "fwclose" /\ epc' = "closed"
  /\ fwDisk' = IF pend = <<>> THEN fwDisk ELSE pend[Len(pend)]
  /\ pend' = <<>>
  /\ UNCHANGED <<vars, batch, live, lost>>

Off == epc' = "off" /\ pend' = <<>> /\ UNCHANGED <<batch, live, fwDisk>>

StoreClose == epc = "closed" /\ Close /\ Off /\ UNCHANGED lost
Killed     == Kill /\ Off /\ UNCHANGED lost
PowerCut   == PowerMayFail /\ PowerLoss /\ Off /\ lost' = TRUE

\* Firewood's own thread persists one of the commits it holds back.
FwPersist ==
  /\ \E i \in 1..Len(pend) : fwDisk' = pend[i] /\ pend' = SubSeq(pend, i + 1, Len(pend))
  /\ UNCHANGED <<vars, epc, batch, live, lost>>

\* maybeFlush: the group fsync. In Run it is the flusher goroutine's, at any
\* step of the executor; in reconcile and in Close it is the caller's own.
Flusher ==
  /\ \/ epc \in {"run", "flush", "written"} /\ gap = 0 /\ ~closing
     \/ epc = "written" /\ wpc = "ready"
  /\ Sync
  /\ UNCHANGED exec

StoreStep ==
  /\ \/ CutSync \/ CutRename \/ CutAgain \/ CutSyncDir \/ CutInstall
     \/ SealWrite \/ SealPublish \/ SealFail \/ SealUnlink \/ SealTailFail
     \/ OpenFrozen \/ OpenWindow
  /\ UNCHANGED exec

ExecNext ==
  \/ Reconcile \/ Execute \/ ExecuteFail \/ Stall \/ FlushWrite \/ FlushNext
  \/ FlushError \/ FlushCommit \/ GapSync \/ RunReturns \/ CloseFlush \/ CloseSync
  \/ FirewoodClose \/ StoreClose \/ Killed \/ PowerCut \/ FwPersist
  \/ Flusher \/ StoreStep

ExecSpec == ExecInit /\ [][ExecNext]_evars
-----------------------------------------------------------------------------
(***************************************************************************)
(* Properties.                                                             *)
(***************************************************************************)
ExecTypeOK ==
  /\ TypeOK
  /\ epc \in {"off", "run", "flush", "written", "gapsync", "exit", "fwclose", "closed"}
  /\ head \in 0..MaxHeight /\ start \in 0..MaxHeight /\ todo \in 0..(MaxHeight + 1)
  /\ gap \in 0..MaxHeight /\ live \in 0..MaxHeight /\ closing \in BOOLEAN
  /\ fwDisk \in 0..MaxHeight /\ pend \in Seq(1..MaxHeight) /\ Len(pend) <= Deferred
  /\ lost \in BOOLEAN



\* Re-execution after a crash meets the store where it stands: no block that
\* flushBatch hands over would leave a hole that memtable.add has to refuse.
NeverAHole == epc = "flush" /\ todo <= head => todo <= Expected(mem)

\* The served head walks up with the rows: a reader that asks for the live head
\* finds it, and is at most one block behind what the store already answers.
LiveWithRows ==
  epc \in {"run", "flush", "written"} /\ gap = 0 /\ ~closing
    => live <= Top /\ Top <= live + 1

Crosses(from, to) == \/ FirstTx[to + 1] - FirstTx[from] >= FlushTxs
                     \/ to + 1 - from >= FlushBlocks

\* A run ends at the first block that crosses a trigger, whatever crashed or
\* was replayed on the way: run boundaries are a pure function of the chain.
BoundariesByContent ==
  \A i \in 1..Len(runs) :
    /\ Crosses(runs[i].from, runs[i].to)
    /\ \A k \in runs[i].from..(runs[i].to - 1) : ~Crosses(runs[i].from, k)

\* A restart never serves less than was durable before it: when the executor
\* runs again it stands at or above every block that was ever fsynced.
ResumesAtTop == epc = "run" /\ gap = 0 => head >= acked

(***************************************************************************)
(* Fairness: the executor goroutine, the seal goroutine, the opener and    *)
(* Firewood's thread are never descheduled for good. No crash, no failure  *)
(* and no shutdown is assumed to happen.                                   *)
(***************************************************************************)
ExecStep == \/ Reconcile \/ Execute \/ ExecuteFail \/ FlushWrite \/ FlushNext \/ FlushError
            \/ FlushCommit \/ GapSync \/ CloseFlush \/ CloseSync \/ FirewoodClose
            \/ StoreClose
Stopping == \/ RunReturns \/ Killed \/ PowerCut \/ ExecuteFail \/ FlushError
            \/ (StoreStep /\ (SealFail \/ SealTailFail))

FairExecSpec ==
  /\ ExecSpec
  /\ WF_evars(ExecStep) /\ WF_evars(Stall) /\ WF_evars(FwPersist)
  /\ WF_evars(StoreStep /\ ~SealFail /\ ~SealTailFail)


(***************************************************************************)
(* What the executor does to the store is what Window allows a caller who  *)
(* stops at the first error.                                               *)
(***************************************************************************)
Caller == INSTANCE Window WITH StopOnError <- TRUE
StopsOnError == Caller!Spec
=============================================================================
