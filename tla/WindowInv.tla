----------------------------- MODULE WindowInv ------------------------------
(***************************************************************************)
(* The inductive invariant of Window. It says where every block is, on     *)
(* disk and in memory, by three heights: Floor, where the runs end, A,     *)
(* where the frozen window ends, and B, where the active window ends.      *)
(***************************************************************************)
EXTENDS Window

Floor == IF Len(runs) = 0 THEN 1 ELSE runs[Len(runs)].to + 1
A     == IF started(frozen) THEN frozen.next ELSE Floor
B     == IF started(mem) THEN mem.next ELSE A

Ends == 1..(MaxHeight + 1)

\* What a step of the code relies on to keep TypeOK.
TypeInv ==
  /\ TypeOK
  /\ started(mem)    => mem.next \in 2..(MaxHeight + 1)
  /\ started(frozen) => frozen.next \in 2..(MaxHeight + 1)
  /\ ~started(frozen) => frozen = NoWindow
  /\ wpc \notin {"ready", "failed", "torn"} => started(mem)
  /\ phase # "up" => wpc = "ready"
  /\ spc \in {"write", "publish"} => started(frozen)

\* The runs cover 1 .. Floor-1, in order, and their TxNums are the chain's.
RunsInv ==
  /\ \A i \in 1..Len(runs) : /\ 1 <= runs[i].from /\ runs[i].from <= runs[i].to
                             /\ runs[i].to < Floor /\ runs[i].to <= MaxHeight
                             /\ runs[i].fromTx = FirstTx[runs[i].from]
                             /\ runs[i].toTx = FirstTx[runs[i].to + 1]
  /\ \A i, j \in 1..Len(runs) : i < j => runs[i].to < runs[j].from
  /\ checkTiling
  /\ \A h \in 1..(Floor - 1) : InRuns(h)

LogInv == \A r \in winLog \cup frozenLog \cup durFrozen : r.nt = FirstTx[r.h + 1]

\* At or above Floor the frozen log is exactly Floor..a-1 and the active log
\* exactly a..b-1.
Shape(a, b) ==
  /\ Floor <= a /\ a <= b
  /\ \A h \in Heights : h >= Floor => /\ InLog(frozenLog, h) <=> h < a
                                      /\ InLog(winLog, h) <=> a <= h /\ h < b

\* The windows in memory describe the logs they were filled from.
WindowOK(m, a) ==
  /\ m.baseTx = FirstTx[a]
  /\ started(m)  => m.base = a /\ m.nextTx = FirstTx[m.next]
  /\ ~started(m) => m.base = m.next /\ m.nextTx = m.baseTx /\ Expected(m) = a

PhaseInv ==
  /\ phase = "down"    => /\ \E a, b \in Ends : Shape(a, b)
                          /\ frozen = NoWindow /\ spc = "idle"
  /\ phase = "opening" => \E b \in Ends : Shape(A, b)
  /\ phase = "up"      => /\ WindowOK(mem, A)
                          /\ IF wpc \in {"syncdir", "install", "renamed"} THEN Shape(B, B) ELSE Shape(A, B)
  /\ phase # "up"      => cut = "none" /\ mem = NoWindow
  /\ started(frozen)   => WindowOK(frozen, Floor)

\* An unsealed window is never overwritten: a cut that goes ahead has no frozen
\* window before it.
CutInv ==
  /\ phase = "up" => (cut = "running" <=> spc # "idle")
  /\ phase = "up" /\ started(frozen) /\ spc = "idle" => cut = "err" \/ wpc = "failed"
  /\ wpc \in {"rename", "syncdir", "install", "renamed"}
       => spc = "idle" /\ ~started(frozen) /\ cut = "none"
  /\ wpc # "recut"
  /\ wpc = "rename" => synced = mem.next - 1
  /\ spc = "unlink" => ~started(frozen)
  /\ phase = "opening" /\ spc = "idle" => ~started(frozen)

\* What stable storage holds: every acknowledged block, under the names it has
\* now and under the ones a power loss may bring back.
DurableInv ==
  /\ synced <= acked
  /\ \A h \in 1..acked :
       h < Floor \/ InLog(frozenLog, h) \/ (InLog(winLog, h) /\ h <= synced)
  /\ rename = "durable" =>
       \/ durFrozen = frozenLog
       \/ frozenLog = {} /\ \A r \in durFrozen : r.h < Floor
  /\ rename = "pending" =>
       /\ winLog = {}
       /\ \A r \in durFrozen : r.h < Floor
       /\ \A r \in frozenLog : r.h <= synced
       /\ \E r \in frozenLog : r.h >= Floor
       /\ phase = "up" => wpc \in {"syncdir", "renamed"}
       /\ phase = "opening" => started(frozen)

\* The whole of it: inductive for a caller who stops at the first error.
IInv == TypeInv /\ RunsInv /\ LogInv /\ PhaseInv /\ CutInv /\ DurableInv
=============================================================================
