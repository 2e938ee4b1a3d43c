------------------------------ MODULE FlatCache ------------------------------
(***************************************************************************)
(* State reads at a height: the flat latest-state cache (store/flat.go)    *)
(* in front of the descent, the one-slot memo of a height's TxNum ceiling  *)
(* and the genesis floor (store/statedb.go), while the writer lands and    *)
(* replays blocks and the process restarts.                                *)
(*                                                                         *)
(* The chain is a constant: its state rows in the order blocks write them, *)
(* rows 1 .. Last[h] by the end of block h, a block's tail rows after its  *)
(* transactions'. A row's place in that order stands for its TxNum. The    *)
(* descent is one step: it answers from the rows the store holds.          *)
(***************************************************************************)
EXTENDS Integers, FiniteSetsExt

CONSTANTS
  Keys,        \* accounts and slots
  Vals,        \* stored row values, the empty one (a delete) among them
  MaxHeight,   \* length of the chain
  Last,        \* chain content: rows written up to the end of each block
  RowKey,      \* chain content: the key of each row
  RowVal,      \* chain content: the value of each row
  Size,        \* flatEntryBytes: accounted size of an entry, per key and value
  Budget,      \* EPOCHDB_FLAT_CACHE, positive: 0 is a store without the cache
  Readers,
  NotFound,    \* "never written at or below here": read the genesis floor
  None         \* no such entry in a map

Heights == 1..MaxHeight
Rows    == 1..Last[MaxHeight]
Entries == Vals \cup {NotFound}

ASSUME RowsAssumption ==
  /\ MaxHeight \in Nat \ {0}
  /\ Last \in [0..MaxHeight -> Nat]
  /\ Last[0] = 0
  /\ \A g, h \in 0..MaxHeight : g <= h => Last[g] <= Last[h]
  /\ RowKey \in [Rows -> Keys]
  /\ RowVal \in [Rows -> Vals]

ASSUME CacheAssumption ==
  /\ Keys # {}
  /\ NotFound \notin Vals
  /\ None \notin Entries
  /\ Size \in [Keys -> [Entries -> Nat \ {0}]]
  /\ Budget \in Nat \ {0}

half == Budget \div 2

VARIABLES
  head,     \* the highest block the window or a run holds, 0 for none
  next,     \* the block the executor writes next
  wpc,      \* WriteBlock: "ready" | "added" | "apply" (holds the lock) | "stopped"
  row,      \* while applying: the rows folded in so far
  hot, cold, bytes, height, set,   \* flatCache
  memo,     \* DB.ceil: the memoized ceiling, None when nil
  rd        \* the readers

vars == <<head, next, wpc, row, hot, cold, bytes, height, set, memo, rd>>

NoEntries == [k \in Keys |-> None]

\* A reader inside DB.Account or DB.Storage: its arguments, the ceiling it
\* resolved and what stateRow gave it.
Reader == [pc : {"idle", "ceil", "memo", "get", "descend", "fill", "done"},
           key : Keys, h : 0..MaxHeight, at : Nat, val : Entries]

TypeOK ==
  /\ head \in 0..MaxHeight
  /\ next \in 1..(MaxHeight + 1)
  /\ wpc \in {"ready", "added", "apply", "stopped"}
  /\ row \in Nat
  /\ hot \in [Keys -> Entries \cup {None}]
  /\ cold \in [Keys -> Entries \cup {None}]
  /\ bytes \in Int
  /\ height \in 0..MaxHeight
  /\ set \in BOOLEAN
  /\ memo = None \/ memo \in [h : Heights, at : Nat]
  /\ rd \in [Readers -> Reader]

(***************************************************************************)
(* The latest row of k among the first n rows of the chain.                *)
(***************************************************************************)
Latest(k, n) ==
  LET written == {r \in Rows : r <= n /\ RowKey[r] = k}
  IN IF written = {} THEN NotFound
     ELSE RowVal[CHOOSE r \in written : \A q \in written : q <= r]

\* DB.latest: the descent over what the store holds, up to a ceiling.
Descent(k, at) == Latest(k, IF at <= Last[head] THEN at ELSE Last[head])

-----------------------------------------------------------------------------
\* flatCache.get, at a height the cache is the latest state of.
Hit(k) == IF hot[k] # None THEN hot[k] ELSE cold[k]

(***************************************************************************)
(* flatCache.put, with the lock held: the entry goes into the hot          *)
(* generation, which becomes the cold one when it is over half the budget. *)
(***************************************************************************)
\* Mutant: an entry of the cold generation is refunded too.
DroppedBoth(k) == IF Hit(k) = None THEN 0 ELSE Size[k][Hit(k)]

Dropped(k) == IF hot[k] = None THEN 0 ELSE Size[k][hot[k]]

\* Mutant: the new hot generation starts with what is left of the cold one.
putSwap(k, e) ==
  LET grown == [hot EXCEPT ![k] = e]
      b     == bytes - Dropped(k) + Size[k][e]
  IN IF b > half THEN hot' = cold /\ cold' = grown /\ bytes' = 0
     ELSE hot' = grown /\ bytes' = b /\ UNCHANGED cold

put(k, e) ==
  LET grown == [hot EXCEPT ![k] = e]
      b     == bytes - Dropped(k) + Size[k][e]
  IN IF b > half THEN hot' = NoEntries /\ cold' = grown /\ bytes' = 0
     ELSE hot' = grown /\ bytes' = b /\ UNCHANGED cold

-----------------------------------------------------------------------------
(***************************************************************************)
(* The writer: DB.WriteBlock. A block the store already holds is skipped   *)
(* by the window and still goes to the cache.                              *)
(***************************************************************************)
Add ==
  /\ wpc = "ready" /\ next <= MaxHeight
  /\ head' = IF next > head THEN next ELSE head
  /\ wpc' = "added"
  /\ UNCHANGED <<next, row, hot, cold, bytes, height, set, memo, rd>>

\* memtable.add fails: on a write of the block's rows, or on the flush after
\* the block is in. WriteBlock returns before the cache, and its caller stops.
AddFail ==
  /\ wpc = "ready" /\ next <= MaxHeight
  /\ head' \in {head, IF next > head THEN next ELSE head}
  /\ wpc' = "stopped"
  /\ UNCHANGED <<next, row, hot, cold, bytes, height, set, memo, rd>>

(***************************************************************************)
(* flatCache.apply: takes the lock, drops everything unless the block is   *)
(* the cache's height plus one, puts every row, moves the height.          *)
(***************************************************************************)
ApplyBegin ==
  /\ wpc = "added"
  /\ IF set /\ next # height + 1
     THEN hot' = NoEntries /\ cold' = NoEntries /\ bytes' = 0
     ELSE UNCHANGED <<hot, cold, bytes>>
  /\ row' = Last[next - 1]
  /\ wpc' = "apply"
  /\ UNCHANGED <<head, next, height, set, memo, rd>>

ApplyRow ==
  /\ wpc = "apply" /\ row < Last[next]
  /\ put(RowKey[row + 1], RowVal[row + 1])
  /\ row' = row + 1
  /\ UNCHANGED <<head, next, wpc, height, set, memo, rd>>

ApplyEnd ==
  /\ wpc = "apply" /\ row = Last[next]
  /\ height' = next /\ set' = TRUE
  /\ next' = next + 1
  /\ wpc' = "ready"
  /\ UNCHANGED <<head, row, hot, cold, bytes, memo, rd>>

-----------------------------------------------------------------------------
(***************************************************************************)
(* A reader: DB.Account and DB.Storage.                                    *)
(***************************************************************************)
Idle == [pc |-> "idle", key |-> CHOOSE k \in Keys : TRUE,
         h |-> 0, at |-> 0, val |-> NotFound]

Locked == wpc = "apply"

\* A caller asks for any height: Overlay.height is a fixed target or the head.
Start(r, k, h) ==
  /\ rd[r].pc = "idle"
  /\ rd' = [rd EXCEPT ![r] = [Idle EXCEPT !.pc = "ceil", !.key = k, !.h = h]]
  /\ UNCHANGED <<head, next, wpc, row, hot, cold, bytes, height, set, memo>>

\* Mutant: the ceiling is the first slot of the next block.
CeilingPast(r) ==
  /\ rd[r].pc = "ceil"
  /\ IF memo # None /\ memo.h = rd[r].h
     THEN rd' = [rd EXCEPT ![r].pc = "get", ![r].at = memo.at]
     ELSE IF rd[r].h \in 1..head
     THEN rd' = [rd EXCEPT ![r].pc = "memo", ![r].at = Last[rd[r].h] + 1]
     ELSE IF rd[r].h = 0 THEN rd' = [rd EXCEPT ![r].pc = "done"]
     ELSE rd' = [rd EXCEPT ![r] = Idle]
  /\ UNCHANGED <<head, next, wpc, row, hot, cold, bytes, height, set, memo>>

(***************************************************************************)
(* txCeiling: the memo if it is of this height, else the block's boundary  *)
(* slot. Height 0 is the genesis floor; a block that is not stored is an   *)
(* error.                                                                  *)
(***************************************************************************)
Ceiling(r) ==
  /\ rd[r].pc = "ceil"
  /\ IF memo # None /\ memo.h = rd[r].h
     THEN rd' = [rd EXCEPT ![r].pc = "get", ![r].at = memo.at]
     ELSE IF rd[r].h \in 1..head
     THEN rd' = [rd EXCEPT ![r].pc = "memo", ![r].at = Last[rd[r].h]]
     ELSE IF rd[r].h = 0 THEN rd' = [rd EXCEPT ![r].pc = "done"]
     ELSE rd' = [rd EXCEPT ![r] = Idle]
  /\ UNCHANGED <<head, next, wpc, row, hot, cold, bytes, height, set, memo>>

StoreMemo(r) ==
  /\ rd[r].pc = "memo"
  /\ memo' = [h |-> rd[r].h, at |-> rd[r].at]
  /\ rd' = [rd EXCEPT ![r].pc = "get"]
  /\ UNCHANGED <<head, next, wpc, row, hot, cold, bytes, height, set>>

\* Mutant: what the cold generation has is the answer, also when it has nothing.
GetUnchecked(r) ==
  /\ rd[r].pc = "get" /\ ~Locked
  /\ IF set /\ height = rd[r].h
     THEN rd' = [rd EXCEPT ![r].pc = "done", ![r].val = Hit(rd[r].key)]
     ELSE rd' = [rd EXCEPT ![r].pc = "descend"]
  /\ UNCHANGED <<head, next, wpc, row, hot, cold, bytes, height, set, memo>>

\* stateRow: flatCache.get, then on a miss the descent, then flatCache.fill.
Get(r) ==
  /\ rd[r].pc = "get" /\ ~Locked
  /\ IF set /\ height = rd[r].h /\ Hit(rd[r].key) # None
     THEN rd' = [rd EXCEPT ![r].pc = "done", ![r].val = Hit(rd[r].key)]
     ELSE rd' = [rd EXCEPT ![r].pc = "descend"]
  /\ UNCHANGED <<head, next, wpc, row, hot, cold, bytes, height, set, memo>>

Descend(r) ==
  /\ rd[r].pc = "descend"
  /\ rd' = [rd EXCEPT ![r].pc = "fill", ![r].val = Descent(rd[r].key, rd[r].at)]
  /\ UNCHANGED <<head, next, wpc, row, hot, cold, bytes, height, set, memo>>

\* Mutant: a fill is accepted whatever happened since the descent.
FillAnyHeight(r) ==
  /\ rd[r].pc = "fill" /\ ~Locked
  /\ IF set THEN put(rd[r].key, rd[r].val) ELSE UNCHANGED <<hot, cold, bytes>>
  /\ rd' = [rd EXCEPT ![r].pc = "done"]
  /\ UNCHANGED <<head, next, wpc, row, height, set, memo>>

Fill(r) ==
  /\ rd[r].pc = "fill" /\ ~Locked
  /\ IF set /\ height = rd[r].h THEN put(rd[r].key, rd[r].val)
     ELSE UNCHANGED <<hot, cold, bytes>>
  /\ rd' = [rd EXCEPT ![r].pc = "done"]
  /\ UNCHANGED <<head, next, wpc, row, height, set, memo>>

\* The answer is handed out.
Answer(r) ==
  /\ rd[r].pc = "done"
  /\ rd' = [rd EXCEPT ![r] = Idle]
  /\ UNCHANGED <<head, next, wpc, row, hot, cold, bytes, height, set, memo>>

-----------------------------------------------------------------------------
(***************************************************************************)
(* open: a new DB over whatever blocks survived. The empty cache adopts    *)
(* the head, and the executor starts over at any block up to the next one: *)
(* it re-executes what Firewood had not committed.                         *)
(***************************************************************************)
Opened(top, from) ==
  /\ head' = top /\ next' = from /\ wpc' = "ready" /\ row' = 0
  /\ hot' = NoEntries /\ cold' = NoEntries /\ bytes' = 0
  /\ height' = top /\ set' = (top > 0)
  /\ memo' = None
  /\ rd' = [r \in Readers |-> Idle]

Restart == \E top \in 0..head : \E from \in 1..(top + 1) : Opened(top, from)

Init ==
  /\ head = 0 /\ next = 1 /\ wpc = "ready" /\ row = 0
  /\ hot = NoEntries /\ cold = NoEntries /\ bytes = 0
  /\ height = 0 /\ set = FALSE
  /\ memo = None
  /\ rd = [r \in Readers |-> Idle]

Write == Add \/ AddFail \/ ApplyBegin \/ ApplyRow \/ ApplyEnd

Read(r) == \/ \E k \in Keys, h \in 0..MaxHeight : Start(r, k, h)
           \/ Ceiling(r) \/ StoreMemo(r) \/ Get(r) \/ Descend(r)
           \/ Fill(r) \/ Answer(r)

Next == Write \/ Restart \/ \E r \in Readers : Read(r)

Spec == Init /\ [][Next]_vars

-----------------------------------------------------------------------------
(***************************************************************************)
(* The whole argument of flat.go: outside the writer's critical section    *)
(* every entry a reader can hit is the latest row at the cache's height,   *)
(* whatever mix of fills, landed blocks, replays and rotations put it      *)
(* there.                                                                  *)
(***************************************************************************)
CacheExact ==
  ~Locked /\ set =>
    \A k \in Keys : Hit(k) # None => Hit(k) = Latest(k, Last[height])

(***************************************************************************)
(* What Account and Storage promise: an answer for height h is the state   *)
(* at the end of block h, from the cache or from the descent. NotFound is  *)
(* what sends them to the genesis floor: a deleted key is never NotFound.  *)
(***************************************************************************)
ReadsExact ==
  \A r \in Readers : rd[r].pc = "done" =>
    rd[r].val = Latest(rd[r].key, Last[rd[r].h])

Accounted(gen) ==
  MapThenSumSet(LAMBDA k : Size[k][gen[k]], {k \in Keys : gen[k] # None})
LargestEntry == Max({Size[k][e] : k \in Keys, e \in Entries})

(***************************************************************************)
(* The budget is enforced: bytes is what the hot generation accounts for,  *)
(* so the subtraction in put never wraps, and both generations together    *)
(* stay within the budget and one entry.                                   *)
(***************************************************************************)
BudgetKept ==
  /\ bytes = Accounted(hot)
  /\ bytes <= half
  /\ Accounted(hot) + Accounted(cold) <= Budget + LargestEntry

(***************************************************************************)
(* The inductive strengthening: also inside the critical section the       *)
(* entries are the latest rows among those folded in so far, the memo and  *)
(* the readers hold the ceilings of stored blocks, and a descended answer  *)
(* is exact for its height even after the head moved on.                   *)
(***************************************************************************)
WriterInv ==
  /\ next <= head + 1
  /\ height <= head
  /\ wpc \in {"added", "apply"} => next <= head
  /\ wpc = "apply" => row \in Last[next - 1]..Last[next]

EntriesInv ==
  \A k \in Keys : Hit(k) # None =>
    IF wpc = "apply" THEN Hit(k) = Latest(k, row)
    ELSE set /\ Hit(k) = Latest(k, Last[height])

MemoInv == memo # None => memo.h <= head /\ memo.at = Last[memo.h]

ReaderInv(r) ==
  /\ rd[r].pc = "ceil" => rd[r].val = NotFound
  /\ rd[r].pc \in {"memo", "get", "descend", "fill"} =>
       rd[r].h \in 1..head /\ rd[r].at = Last[rd[r].h]
  /\ rd[r].pc \in {"fill", "done"} => rd[r].val = Latest(rd[r].key, Last[rd[r].h])

CacheInv ==
  TypeOK /\ WriterInv /\ EntriesInv /\ MemoInv /\ \A r \in Readers : ReaderInv(r)
=============================================================================
