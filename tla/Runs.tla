-------------------------------- MODULE Runs --------------------------------
(***************************************************************************)
(* The life of the run list and the readers inside it (store/db.go,        *)
(* store/merge.go, store/join.go).  The writer cuts windows, the seal      *)
(* goroutine turns each one into a level 0 run, the merge goroutine folds  *)
(* level 0 runs into a terminal run, the sync loop uploads terminal runs   *)
(* and reopens them on the chunk cache, and readers descend through        *)
(* window and runs all the while.                                          *)
(*                                                                         *)
(* Every block holds one slot, so a height is also its TxNum.  A memtable  *)
(* is named by its position in cuts; a version is the run list it holds,   *)
(* which no two versions share.  Crashes are the subject of Window.        *)
(***************************************************************************)
EXTENDS Integers, SequencesExt, BagsExt

CONSTANTS MaxHeight,   \* bound: the last block written
          FlushBlocks, \* blocks of a window
          TerminalTxs, \* slots of a terminal run
          Fanout,      \* scanFanout
          Writes,      \* heights whose block writes the key Latest reads
          Ops,         \* the reads that readers make
          Fails,       \* whether I/O errors happen
          Readers

ASSUME RunsAssumption ==
  /\ MaxHeight \in Nat \ {0} /\ FlushBlocks \in Nat \ {0}
  /\ TerminalTxs \in Nat \ {0} /\ Fanout \in Nat \ {0}
  /\ Writes \subseteq 1..MaxHeight
  /\ Ops \subseteq {"chain", "latest", "asc", "desc"} /\ Fails \in BOOLEAN

VARIABLES next,   \* the next height to write
          cuts,   \* base height of every memtable so far, the active one last
          frozen, \* d.frozen, 0 for nil
          closed, \* memtables up to this one have their log removed
          seal,   \* stage of the seal goroutine
          man,    \* d.man.Runs: the names of the runs
          ver,    \* d.ver.runs: the open handles
          life,   \* reference counts, and the runs that are closed
          spool,  \* terminal runs with a file in the spool
          merge,  \* the merge goroutine
          sync,   \* the sync loop
          rd      \* the readers

writer == <<next, cuts, frozen, closed, seal>>
vars   == <<writer, man, ver, life, spool, merge, sync, rd>>

Heights == 1..MaxHeight
Name(f, t, l) == [from |-> f, to |-> t, level |-> l]
Names == [from : Heights, to : Heights, level : {0, 1}]

\* An open run.  own says that it maps a file of this machine; a run opened
\* after its upload reads through the chunk cache.
Handles == [name : Names, own : BOOLEAN]

Rows(m) == cuts[m]..(IF m = Len(cuts) THEN next - 1 ELSE cuts[m + 1] - 1)
Span(h) == h.name.from..h.name.to

-----------------------------------------------------------------------------
(* References: a version counts its readers, a run counts its versions.    *)

One(x) == SetToBag({x})

newVersion(l, v) ==
  [l EXCEPT !.refs = @ (+) One(v), !.runs = @ (+) SetToBag(Range(v))]

snapshot(l, v) == [l EXCEPT !.refs = @ (+) One(v)]

releaseVersion(l, v) == [l EXCEPT !.refs = @ (-) One(v)]
release(l, v) ==
  LET refs == l.refs (-) One(v)
      left == l.runs (-) SetToBag(Range(v))
  IN  IF BagIn(v, refs)
      THEN [l EXCEPT !.refs = refs]
      ELSE [refs |-> refs, runs |-> left,
            shut |-> l.shut \cup (Range(v) \ BagToSet(left))]

swapEarly(l, v) == newVersion(release(l, ver), v)
swapLocked(l, v) == release(newVersion(l, v), ver)

-----------------------------------------------------------------------------
(* The writer and the seal goroutine.                                      *)

Base == cuts[Len(cuts)]
Full == next - Base >= FlushBlocks

\* WriteBlock up to the flush trigger; a full window waits for its cut.
WriteBlock ==
  /\ next <= MaxHeight /\ ~Full
  /\ next' = next + 1
  /\ UNCHANGED <<cuts, frozen, closed, seal, man, ver, life, spool, merge, sync, rd>>

\* cutWindow, once waitCut has collected the seal before it without an error.
Cut ==
  /\ Full /\ seal = "idle"
  /\ cuts' = Append(cuts, next) /\ frozen' = Len(cuts) /\ seal' = "write"
  /\ UNCHANGED <<next, closed, man, ver, life, spool, merge, sync, rd>>

sealedPast(m) == Name(cuts[m], cuts[m + 1], 0)
sealed(m) == Name(cuts[m], cuts[m + 1] - 1, 0)

\* The manifest is saved with the run, the version swaps and the window goes,
\* in one critical section.
SealPublish ==
  /\ seal = "write"
  /\ LET n == sealed(frozen)
         v == Append(ver, [name |-> n, own |-> TRUE])
     IN  /\ man' = Append(man, n)
         /\ ver' = v /\ life' = swapLocked(life, v)
  /\ frozen' = 0 /\ seal' = "remove"
  /\ UNCHANGED <<next, cuts, closed, spool, merge, sync, rd>>

\* An error before the manifest is saved: the window stays frozen, the run is
\* closed again and the writer hears of it at the next cut.
SealFail ==
  /\ Fails /\ seal = "write"
  /\ seal' = "failed"
  /\ UNCHANGED <<next, cuts, frozen, closed, man, ver, life, spool, merge, sync, rd>>

\* m.remove: the log goes, the maps of the memtable stay.
SealRemove ==
  /\ seal = "remove"
  /\ closed' = Len(cuts) - 1
  /\ seal' = "merge" \/ (Fails /\ seal' = "failed")
  /\ UNCHANGED <<next, cuts, frozen, man, ver, life, spool, merge, sync, rd>>

-----------------------------------------------------------------------------
(* The merge.                                                              *)

NoMerge == [pc |-> "idle", start |-> 0, end |-> 0, live |-> <<>>, own |-> FALSE]

\* Both ends of the span, the second one exclusive: the level 0 tail starts it,
\* the first run that carries it to the boundary ends it.
L0s == {i \in 1..Len(man) : \A j \in i..Len(man) : man[j].level = 0}
ReachShort(s) == {e \in s..Len(man) : man[e].to - man[s].from >= TerminalTxs}
Reach(s) == {e \in s..Len(man) : man[e].to + 1 - man[s].from >= TerminalTxs}
mergeSpanLocked ==
  IF L0s = {} \/ Reach(Min(L0s)) = {} THEN <<>>
  ELSE <<Min(L0s), Min(Reach(Min(L0s))) + 1>>

\* The end of a seal: MaybeMerge reports the error of the last merge, and
\* starts the next one when none is running and a span is ready.
MaybeMerge ==
  /\ seal = "merge"
  /\ IF merge.pc = "failed"
     THEN seal' = "failed" /\ UNCHANGED merge
     ELSE /\ seal' = "idle"
          /\ merge' = IF merge.pc # "idle" \/ mergeSpanLocked = <<>> THEN merge
                      ELSE [NoMerge EXCEPT !.pc = "begin", !.start = mergeSpanLocked[1],
                                           !.end = mergeSpanLocked[2]]
  /\ UNCHANGED <<next, cuts, frozen, closed, man, ver, life, spool, sync, rd>>

\* The merge takes its reference with the manifest it merges.
MergeBegin ==
  /\ merge.pc = "begin"
  /\ merge' = [merge EXCEPT !.pc = "write", !.live = ver]
  /\ life' = snapshot(life, ver)
  /\ UNCHANGED <<writer, man, ver, spool, sync, rd>>

Merged == Name(merge.live[merge.start].name.from, merge.live[merge.end - 1].name.to, 1)

\* Finish: the terminal run is written, fsynced and named in the spool.
MergeFinish ==
  /\ merge.pc = "write"
  /\ merge' = [merge EXCEPT !.pc = "written"]
  /\ spool' = spool \cup {Merged}
  /\ UNCHANGED <<writer, man, ver, life, sync, rd>>

\* OpenRun and verifyRun, over whatever the artifact store hands out now.
MergeOpen ==
  /\ merge.pc = "written"
  /\ merge' = [merge EXCEPT !.pc = "verified", !.own = Merged \in spool]
  /\ UNCHANGED <<writer, man, ver, life, spool, sync, rd>>

SpliceTail(s, x) == SubSeq(s, 1, merge.start - 1) \o <<x>>
Splice(s, x) == SpliceTail(s, x) \o SubSeq(s, merge.end, Len(s))

\* The span is still where it was.
Unmoved ==
  /\ merge.end - 1 <= Len(man)
  /\ man[merge.start] = merge.live[merge.start].name
  /\ man[merge.end - 1] = merge.live[merge.end - 1].name

\* The manifest is saved and the version swaps, in one critical section.
MergeSwap ==
  /\ merge.pc = "verified" /\ Unmoved
  /\ man' = Splice(man, Merged)
  /\ LET v == Splice(ver, [name |-> Merged, own |-> merge.own])
     IN  ver' = v /\ life' = swapLocked(life, v)
  /\ merge' = [merge EXCEPT !.pc = "swapped"]
  /\ UNCHANGED <<writer, spool, sync, rd>>

\* The inputs' files are unlinked and the terminal run published, or that fails.
MergeDone ==
  /\ merge.pc = "swapped"
  /\ life' = release(life, merge.live)
  /\ merge' = NoMerge \/ (Fails /\ merge' = [NoMerge EXCEPT !.pc = "failed"])
  /\ UNCHANGED <<writer, man, ver, spool, sync, rd>>

\* An error at any stage before the swap, the moved span included.
MergeFail ==
  /\ Fails /\ merge.pc \in {"write", "written", "verified"}
  /\ life' = release(life, merge.live)
  /\ merge' = [NoMerge EXCEPT !.pc = "failed"]
  /\ UNCHANGED <<writer, man, ver, spool, sync, rd>>

-----------------------------------------------------------------------------
(* SyncArtifacts: upload and unlink, then reopen what was unlinked.        *)

NoSync == [pc |-> "idle", gone |-> {}, live |-> <<>>]

\* dist.Sync and the snapshot that reopenReleased works from.
SyncUpload ==
  /\ sync.pc = "idle" /\ spool # {}
  /\ sync' = [pc |-> "released", gone |-> spool, live |-> <<>>]
  /\ spool' = {}
  /\ UNCHANGED <<writer, man, ver, life, merge, rd>>

SyncSnapshot ==
  /\ sync.pc = "released"
  /\ sync' = [sync EXCEPT !.pc = "reopen", !.live = ver]
  /\ life' = snapshot(life, ver)
  /\ UNCHANGED <<writer, man, ver, spool, merge, rd>>

\* The fresh handles replace the released ones that are still live.
Fresh == {h.name : h \in {x \in Range(sync.live) : x.name \in sync.gone}}
ReopenedStale == [i \in 1..Len(sync.live) |->
                   [sync.live[i] EXCEPT !.own = @ /\ sync.live[i].name \notin Fresh]]
Reopened == [i \in 1..Len(ver) |-> [ver[i] EXCEPT !.own = @ /\ ver[i].name \notin Fresh]]

SyncReopen ==
  /\ sync.pc = "reopen"
  /\ LET l == IF Reopened = ver THEN life ELSE swapLocked(life, Reopened)
     IN  life' = release(l, sync.live)
  /\ ver' = Reopened /\ sync' = NoSync
  /\ UNCHANGED <<writer, man, spool, merge, rd>>

\* A run that does not reopen: SyncArtifacts returns with the old handle live.
SyncFail ==
  /\ Fails /\ sync.pc = "reopen" /\ Fresh # {}
  /\ life' = release(life, sync.live) /\ sync' = NoSync
  /\ UNCHANGED <<writer, man, ver, spool, merge, rd>>

-----------------------------------------------------------------------------
(* Readers.  at is the height, the ceiling or the end of the range that is *)
(* asked for, a block that had landed when the read began.                 *)

Idle == [pc |-> "idle", op |-> "none", at |-> 0, a |-> 0, f |-> 0, live |-> <<>>,
         i |-> 0, started |-> 0, fly |-> {}, out |-> <<>>, all |-> FALSE]

Holds(r) == r.pc \in {"runs", "scan", "quit", "tail"}

Begin(r) ==
  /\ rd[r].pc = "idle"
  /\ \E op \in Ops, at \in 1..(next - 1) :
       LET q == [Idle EXCEPT !.op = op, !.at = at]
       IN  \/ /\ op \in {"chain", "latest"}
              /\ rd' = [rd EXCEPT ![r] = [q EXCEPT !.pc = "active", !.a = Len(cuts), !.f = frozen]]
              /\ UNCHANGED life
           \/ /\ op = "asc"
              /\ rd' = [rd EXCEPT ![r] = [q EXCEPT !.pc = "scan", !.live = ver]]
              /\ life' = snapshot(life, ver)
           \/ /\ op = "desc"
              /\ rd' = [rd EXCEPT ![r] = [q EXCEPT !.pc = "head"]]
              /\ UNCHANGED life
  /\ UNCHANGED <<writer, man, ver, spool, merge, sync>>

\* The rows of S that answer the read q: the height itself, or the newest
\* write at or below the ceiling.
Answers(q, S) ==
  IF q.op = "chain" THEN S \cap {q.at}
  ELSE LET below == {w \in Writes \cap S : w <= q.at}
       IN  {w \in below : \A x \in below : x <= w}

\* chainGet misses on a memtable whose log is removed; the maps of the state
\* rows stay.
InMem(q, m) == IF q.op = "chain" /\ m <= closed THEN {} ELSE Answers(q, Rows(m))

Found(q, S) == [q EXCEPT !.pc = "done", !.out = SetToSeq(S), !.live = <<>>]

ReadMem(r) ==
  LET q == rd[r]
      m == IF q.pc = "active" THEN q.a ELSE q.f
  IN  /\ q.pc \in {"active", "frozen"}
      /\ rd' = [rd EXCEPT ![r] =
                  IF InMem(q, m) # {} THEN Found(q, InMem(q, m))
                  ELSE [q EXCEPT !.pc = IF q.pc = "active" /\ q.f # 0 THEN "frozen" ELSE "snap"]]
      /\ UNCHANGED <<writer, man, ver, life, spool, merge, sync>>

ReadSnapshot(r) ==
  /\ rd[r].pc = "snap"
  /\ rd' = [rd EXCEPT ![r] = [@ EXCEPT !.pc = "runs", !.live = ver, !.i = Len(ver)]]
  /\ life' = snapshot(life, ver)
  /\ UNCHANGED <<writer, man, ver, spool, merge, sync>>

\* One run of the descent, newest first; the read returns on the first answer
\* and at the end of the list, and its reference goes.
ReadRun(r) ==
  LET q == rd[r]
      S == IF q.i = 0 THEN {} ELSE Answers(q, Span(q.live[q.i]))
  IN  /\ q.pc = "runs"
      /\ IF q.i > 0 /\ S = {}
         THEN rd' = [rd EXCEPT ![r].i = @ - 1] /\ UNCHANGED life
         ELSE rd' = [rd EXCEPT ![r] = Found(q, S)] /\ life' = release(life, q.live)
      /\ UNCHANGED <<writer, man, ver, spool, merge, sync>>

-----------------------------------------------------------------------------
(* Range scans: Postings and PostingsDesc over scanRuns.                   *)

DownOrder(q, S) == Reverse(SetToSortSeq({h \in S : h <= q.at}, <))
InOrder(q, S) ==
  LET up == SetToSortSeq({h \in S : h <= q.at}, <)
  IN  IF q.op = "asc" THEN up ELSE Reverse(up)

\* windowPostings of both memtables.
ActiveRows == Rows(Len(cuts))
WindowRows == Rows(Len(cuts)) \cup (IF frozen = 0 THEN {} ELSE Rows(frozen))

\* The window of a descending walk, taken before the runs.
ScanHead(r) ==
  LET q == rd[r]
      rows == InOrder(q, WindowRows)
  IN  /\ q.pc = "head"
      /\ \/ rd' = [rd EXCEPT ![r].pc = "open", ![r].out = rows]
         \/ rows # <<>> /\ rd' = [rd EXCEPT ![r].pc = "done", ![r].out = rows]
      /\ UNCHANGED <<writer, man, ver, life, spool, merge, sync>>

ScanOpen(r) ==
  /\ rd[r].pc = "open"
  /\ rd' = [rd EXCEPT ![r] = [@ EXCEPT !.pc = "scan", !.live = ver]]
  /\ life' = snapshot(life, ver)
  /\ UNCHANGED <<writer, man, ver, spool, merge, sync>>

\* The feeder starts the next run while its pipeline has room, and may still do
\* so once the walk has stopped: a select takes either ready case.
ScanStart(r) ==
  LET q == rd[r]
  IN  /\ q.pc \in {"scan", "quit"}
      /\ q.started < Len(q.live) /\ q.started - q.i <= Fanout
      /\ rd' = [rd EXCEPT ![r].started = @ + 1, ![r].fly = @ \cup {q.started + 1}]
      /\ UNCHANGED <<writer, man, ver, life, spool, merge, sync>>

\* A worker is through with its run.
ScanRead(r) ==
  /\ rd[r].pc \in {"scan", "quit"}
  /\ \E j \in rd[r].fly : rd' = [rd EXCEPT ![r].fly = @ \ {j}]
  /\ UNCHANGED <<writer, man, ver, life, spool, merge, sync>>

\* Results are handed out in run order; the callback may stop the walk.
ScanEmit(r) ==
  LET q == rd[r]
      j == IF q.op = "asc" THEN q.i + 1 ELSE Len(q.live) - q.i
      rows == InOrder(q, Span(q.live[j]))
  IN  /\ q.pc = "scan" /\ q.i < q.started /\ q.i + 1 \notin q.fly
      /\ \/ rd' = [rd EXCEPT ![r].i = @ + 1, ![r].out = @ \o rows]
         \/ rows # <<>> /\ rd' = [rd EXCEPT ![r].pc = "quit", ![r].i = @ + 1, ![r].out = @ \o rows]
      /\ UNCHANGED <<writer, man, ver, life, spool, merge, sync>>

\* scanRuns returns once every worker has.
AnyBack(q) == TRUE
AllBack(q) == q.fly = {}

ScanReturn(r) ==
  LET q == rd[r]
  IN  /\ AllBack(q)
      /\ \/ /\ q.pc = "scan" /\ q.i = Len(q.live) /\ q.op = "asc"
            /\ rd' = [rd EXCEPT ![r].pc = "tail"] /\ UNCHANGED life
         \/ /\ q.pc = "quit" \/ (q.pc = "scan" /\ q.i = Len(q.live) /\ q.op = "desc")
            /\ rd' = [rd EXCEPT ![r] = [@ EXCEPT !.pc = "done", !.live = <<>>, !.all = q.pc = "scan"]]
            /\ life' = release(life, q.live)
      /\ UNCHANGED <<writer, man, ver, spool, merge, sync>>

\* The window of an ascending walk, taken after the runs.
ScanTail(r) ==
  LET q == rd[r]
  IN  /\ q.pc = "tail"
      /\ rd' = [rd EXCEPT ![r] = [@ EXCEPT !.pc = "done", !.live = <<>>, !.all = TRUE,
                                           !.out = @ \o InOrder(q, WindowRows)]]
      /\ life' = release(life, q.live)
      /\ UNCHANGED <<writer, man, ver, spool, merge, sync>>

Return(r) ==
  /\ rd[r].pc = "done"
  /\ rd' = [rd EXCEPT ![r] = Idle]
  /\ UNCHANGED <<writer, man, ver, life, spool, merge, sync>>

-----------------------------------------------------------------------------
Init ==
  /\ next = 1 /\ cuts = <<1>> /\ frozen = 0 /\ closed = 0 /\ seal = "idle"
  /\ man = <<>> /\ ver = <<>> /\ spool = {}
  /\ life = [refs |-> One(<<>>), runs |-> EmptyBag, shut |-> {}]
  /\ merge = NoMerge /\ sync = NoSync /\ rd = [r \in Readers |-> Idle]

Writer == WriteBlock \/ Cut \/ SealPublish \/ SealFail \/ SealRemove \/ MaybeMerge
Merger == MergeBegin \/ MergeFinish \/ MergeOpen \/ MergeSwap \/ MergeDone \/ MergeFail
Syncer == SyncUpload \/ SyncSnapshot \/ SyncReopen \/ SyncFail
Reader(r) == \/ Begin(r) \/ ReadMem(r) \/ ReadSnapshot(r) \/ ReadRun(r)
             \/ ScanHead(r) \/ ScanOpen(r) \/ ScanStart(r) \/ ScanRead(r) \/ ScanEmit(r)
             \/ ScanReturn(r) \/ ScanTail(r) \/ Return(r)

Next == Writer \/ Merger \/ Syncer \/ \E r \in Readers : Reader(r)
Spec == Init /\ [][Next]_vars

-----------------------------------------------------------------------------
(* Properties.                                                             *)

Live == {ver} \cup {rd[r].live : r \in {x \in Readers : Holds(rd[x])}}
        \cup (IF merge.pc \in {"write", "written", "verified", "swapped"} THEN {merge.live} ELSE {})
        \cup (IF sync.pc = "reopen" THEN {sync.live} ELSE {})

\* Every variable has its type.
TypeOK ==
  /\ next \in 1..(MaxHeight + 1) /\ cuts \in Seq(1..(MaxHeight + 1))
  /\ frozen \in 0..Len(cuts) /\ closed \in 0..Len(cuts)
  /\ seal \in {"idle", "write", "remove", "merge", "failed"}
  /\ man \in Seq(Names) /\ ver \in Seq(Handles) /\ spool \subseteq Names
  /\ BagToSet(life.refs) \subseteq Seq(Handles) /\ BagToSet(life.runs) \subseteq Handles
  /\ life.shut \subseteq Handles
  /\ merge.pc \in {"idle", "begin", "write", "written", "verified", "swapped", "failed"}
  /\ sync.pc \in {"idle", "released", "reopen"}
  /\ \A r \in Readers : rd[r].op \in Ops \cup {"none"} /\ rd[r].at < next

\* A run is open as long as the current version, a reader, a worker of a scan,
\* the merge or the reopen can reach it (db.go's version: "those runs are open
\* for exactly as long as that reference lives").
OpenWhileHeld ==
  /\ \A v \in Live : Range(v) \cap life.shut = {}
  /\ \A r \in Readers : rd[r].fly # {} => Holds(rd[r])

\* The other half: a version that nobody can reach is gone, and every run that
\* only such versions held is closed, so its blocks go back.
DiskReturned ==
  /\ BagToSet(life.refs) = Live
  /\ BagToSet(life.runs) = UNION {Range(v) : v \in Live}
  /\ life.shut \cap BagToSet(life.runs) = {}

\* The manifest and the version list the same runs, which tile the chain from
\* its first block to the oldest window that is not yet a run: merges, seals
\* and reopens neither lose nor repeat a run.
RunsTile ==
  /\ [i \in 1..Len(ver) |-> ver[i].name] = man
  /\ \A i \in 1..Len(man) : man[i].from = (IF i = 1 THEN 1 ELSE man[i - 1].to + 1)
  /\ (IF man = <<>> THEN 0 ELSE Last(man).to) + 1
       = cuts[IF frozen = 0 THEN Len(cuts) ELSE frozen]

\* Where a terminal run ends follows from where windows were cut and from
\* nothing else: not from how many runs landed while a merge was running
\* (merge.go: "THE SPAN IS FIXED BY CONTENT, NOT BY POSITION").
TerminalsByContent ==
  \A i \in 1..Len(man) : man[i].level = 1 =>
    /\ \A j \in 1..i : man[j].level = 1
    /\ man[i].to + 1 = Min({c \in Range(cuts) : c - man[i].from >= TerminalTxs})

\* A point read answers with what had landed when it was asked, whatever was
\* cut, sealed, merged or reopened since: the block's row, the newest write at
\* or below the ceiling.
PointReads ==
  \A r \in Readers :
    LET q == rd[r]
    IN  q.pc = "done" /\ q.op \in {"chain", "latest"} => q.out = SetToSeq(Answers(q, 1..q.at))

\* An ascending walk hands out rows in strictly ascending order, so a page cut
\* anywhere is ordered and no row comes twice.
AscendingOrdered ==
  \A r \in Readers : LET q == rd[r] IN
    q.op = "asc" => \A i, j \in 1..Len(q.out) : i < j => q.out[i] < q.out[j]

\* A descending walk that was not stopped has handed out every row of its range.
DescendingComplete ==
  \A r \in Readers : LET q == rd[r] IN
    q.op = "desc" /\ q.pc = "done" /\ q.all => Range(q.out) = 1..q.at

\* Postings (db.go:1193) "walks the entries of every posting group ... with a
\* TxNum in [loTx, hiTx], ascending, runs oldest-to-newest then the window".
AscendingComplete ==
  \A r \in Readers : LET q == rd[r] IN
    q.op = "asc" /\ q.pc = "done" /\ q.all => Range(q.out) = 1..q.at
=============================================================================
