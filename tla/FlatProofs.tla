----------------------------- MODULE FlatProofs -----------------------------
(***************************************************************************)
(* CacheInv is inductive, for every chain, every set of keys and readers   *)
(* and every budget: entries are exact and so are the answers. (That the   *)
(* budget is kept is a sum over a generation and stays with TLC.)          *)
(***************************************************************************)
EXTENDS FlatCache, NatOrder, TLAPS

-----------------------------------------------------------------------------
(* The rows. *)

\* The chain's row counts are natural numbers that never fall.
LEMMA LastFacts ==
  /\ \A h \in 0..MaxHeight : Last[h] \in Nat /\ Last[h] <= Last[MaxHeight]
  /\ \A h \in Heights : h - 1 \in 0..MaxHeight /\ h \in 0..MaxHeight
                        /\ Last[h - 1] <= Last[h]
  BY RowsAssumption DEF Heights

\* memtable.latestState: one more row changes the latest row of its own key.
LEMMA LatestStep ==
  ASSUME NEW k \in Keys, NEW n \in Nat, n + 1 \in Rows
  PROVE  Latest(k, n + 1) = IF RowKey[n + 1] = k THEN RowVal[n + 1] ELSE Latest(k, n)
<1> DEFINE W(m) == {r \in Rows : r <= m /\ RowKey[r] = k}
<1>0. Rows \subseteq Nat
  BY LastFacts, RowsAssumption DEF Rows
<1>a. \A m \in Nat : Latest(k, m) = IF W(m) = {} THEN NotFound
                     ELSE RowVal[CHOOSE r \in W(m) : \A q \in W(m) : q <= r]
  BY DEF Latest
<1>1. CASE RowKey[n + 1] = k
  <2>1. n + 1 \in W(n + 1) /\ \A q \in W(n + 1) : q <= n + 1
    BY <1>0, <1>1
  <2>2. \A r \in W(n + 1) : (\A q \in W(n + 1) : q <= r) => r = n + 1
    BY <1>0, <2>1
  <2> HIDE DEF W
  <2>3. (CHOOSE r \in W(n + 1) : \A q \in W(n + 1) : q <= r) = n + 1
    BY Zenon, <2>1, <2>2
  <2>4. W(n + 1) # {} /\ n + 1 \in Nat
    BY <2>1
  <2> QED
    BY <1>1, <1>a, <2>3, <2>4
<1>2. CASE RowKey[n + 1] # k
  <2>1. \A r \in Rows : RowKey[r] = k => (r <= n + 1 <=> r <= n)
    BY <1>0, <1>2
  <2>2. W(n + 1) = W(n)
    BY Zenon, <2>1
  <2> QED
    BY <1>2, <1>a, <2>2 DEF W
<1> QED
  BY <1>1, <1>2

\* The latest row is a value or NotFound, never the map's missing entry.
LEMMA LatestType ==
  ASSUME NEW k \in Keys, NEW n \in Nat
  PROVE  Latest(k, n) \in Entries
<1> DEFINE W == {r \in Rows : r <= n /\ RowKey[r] = k}
<1>1. CASE W = {}
  BY <1>1 DEF Latest, Entries
<1>2. CASE W # {}
  <2>1. W \subseteq 0..n
    BY LastFacts, RowsAssumption DEF Rows
  <2> HIDE DEF W
  <2>2. \E r \in W : \A q \in W : q <= r
    BY Zenon, <1>2, <2>1, GreatestNat
  <2>3. (CHOOSE r \in W : \A q \in W : q <= r) \in W
    BY <2>2
  <2>4. (CHOOSE r \in W : \A q \in W : q <= r) \in Rows
    BY <2>3 DEF W
  <2>5. Latest(k, n) = RowVal[CHOOSE r \in W : \A q \in W : q <= r]
    BY <1>2 DEF Latest, W
  <2> QED
    BY <2>4, <2>5, RowsAssumption DEF Entries
<1> QED
  BY <1>1, <1>2

-----------------------------------------------------------------------------
(* The cache. *)

\* flatCache.put: the key's entry is the new one, and every other key keeps
\* its entry or loses it to the rotation.
LEMMA PutFacts ==
  ASSUME TypeOK, NEW k \in Keys, NEW e \in Entries, put(k, e)
  PROVE  /\ hot' \in [Keys -> Entries \cup {None}]
         /\ cold' \in [Keys -> Entries \cup {None}]
         /\ bytes' \in Int
         /\ Hit(k)' = e
         /\ \A q \in Keys : q # k => Hit(q)' \in {Hit(q), None}
<1> DEFINE grown == [hot EXCEPT ![k] = e]
           b == bytes - Dropped(k) + Size[k][e]
<1>1. e # None /\ Size[k][e] \in Nat /\ Dropped(k) \in Int
  BY CacheAssumption DEF Dropped, TypeOK
<1>2. b \in Int /\ bytes \in Int
  BY <1>1 DEF TypeOK
<1>3. /\ grown \in [Keys -> Entries \cup {None}]
      /\ grown[k] = e
      /\ \A q \in Keys : q # k => grown[q] = hot[q]
  BY DEF TypeOK
<1>4. \/ hot' = NoEntries /\ cold' = grown /\ bytes' = 0
      \/ hot' = grown /\ bytes' = b /\ cold' = cold
  BY DEF put
<1> HIDE DEF grown, b
<1>5. CASE hot' = NoEntries /\ cold' = grown /\ bytes' = 0
  BY <1>1, <1>3, <1>5 DEF NoEntries, Hit, TypeOK
<1>6. CASE hot' = grown /\ bytes' = b /\ cold' = cold
  BY <1>1, <1>2, <1>3, <1>6 DEF Hit, TypeOK
<1> QED
  BY <1>4, <1>5, <1>6

-----------------------------------------------------------------------------
(* The writer. *)

\* What the memo and the readers hold is about stored blocks, and a block that
\* lands leaves it true.
LEMMA HeldStays ==
  ASSUME CacheInv, head' \in 0..MaxHeight, head <= head', UNCHANGED <<memo, rd>>
  PROVE  MemoInv' /\ \A r \in Readers : ReaderInv(r)'
<1>1. head \in Nat /\ head' \in Nat
  BY DEF CacheInv, TypeOK
<1>2. MemoInv'
  <2>1. memo # None => memo \in [h : Heights, at : Nat]
    BY DEF CacheInv, TypeOK
  <2> QED
    BY <1>1, <2>1 DEF CacheInv, MemoInv, Heights
<1>3. ASSUME NEW r \in Readers PROVE ReaderInv(r)'
  <2>1. rd' = rd /\ rd[r].h \in 0..MaxHeight /\ ReaderInv(r)
    BY DEF CacheInv, TypeOK, Reader
  <2> QED
    BY <1>1, <2>1 DEF ReaderInv
<1> QED
  BY <1>2, <1>3

\* Arithmetic: a successor bound survives a larger bound.
LEMMA BoundGrows ==
  ASSUME NEW a \in Nat, NEW b \in Nat, NEW c \in Nat, a <= b + 1, b <= c
  PROVE  a <= c + 1
  OBVIOUS

\* DB.WriteBlock up to the cache: memtable.add, or its failure.
LEMMA InvAdd ==
  ASSUME CacheInv, Add \/ AddFail
  PROVE  CacheInv'
<1>1. /\ head' \in 0..MaxHeight /\ head <= head'
      /\ wpc' = "added" => next <= head'
      /\ wpc = "ready" /\ wpc' \in {"added", "stopped"}
      /\ UNCHANGED <<next, row, hot, cold, bytes, height, set, memo, rd>>
  BY DEF CacheInv, TypeOK, Add, AddFail
<1>2. TypeOK'
  BY <1>1 DEF CacheInv, TypeOK
<1>3. WriterInv'
  <2>1. /\ next \in Nat /\ head \in Nat /\ height \in Nat
        /\ next' \in Nat /\ head' \in Nat /\ height' \in Nat
    BY <1>1, RowsAssumption DEF CacheInv, TypeOK
  <2>2. next <= head + 1 /\ height <= head
    BY DEF CacheInv, WriterInv
  <2>0. next' = next /\ height' = height /\ head <= head'
    BY <1>1
  <2>3. next' <= head' + 1 /\ height' <= head'
    <3>1. next <= head' + 1
      BY Zenon, <2>0, <2>1, <2>2, BoundGrows
    <3>2. height <= head'
      BY <2>0, <2>1, <2>2
    <3> QED
      BY Zenon, <2>0, <3>1, <3>2
  <2>4. wpc' # "apply" /\ (wpc' \in {"added", "apply"} => next' <= head')
    BY <1>1
  <2> QED
    BY Zenon, <2>3, <2>4 DEF WriterInv
<1>4. EntriesInv'
  BY <1>1 DEF CacheInv, EntriesInv, Hit
<1> QED
  BY <1>1, <1>2, <1>3, <1>4, HeldStays DEF CacheInv

\* flatCache.apply takes the lock: what it keeps is exact for the block before.
LEMMA InvApplyBegin ==
  ASSUME CacheInv, ApplyBegin
  PROVE  CacheInv'
<1>1. /\ wpc = "added" /\ wpc' = "apply" /\ row' = Last[next - 1]
      /\ UNCHANGED <<head, next, height, set, memo, rd>>
  BY DEF ApplyBegin
<1>2. next \in Heights /\ next <= head /\ head \in 0..MaxHeight
  BY <1>1, RowsAssumption DEF CacheInv, TypeOK, WriterInv, Heights
<1>3. /\ row' \in Nat /\ row' \in Last[next - 1]..Last[next]
  BY <1>1, <1>2, LastFacts
<1>4. CASE set /\ next # height + 1
  <2>1. hot' = NoEntries /\ cold' = NoEntries /\ bytes' = 0
    BY <1>4 DEF ApplyBegin
  <2>2. TypeOK'
    BY <1>1, <1>3, <2>1 DEF CacheInv, TypeOK, NoEntries
  <2>3. EntriesInv'
    BY <2>1 DEF EntriesInv, Hit, NoEntries
  <2>4. WriterInv'
    BY <1>1, <1>2, <1>3 DEF CacheInv, WriterInv
  <2> QED
    BY <1>1, <1>2, <2>2, <2>3, <2>4, HeldStays DEF CacheInv
<1>5. CASE ~(set /\ next # height + 1)
  <2>1. UNCHANGED <<hot, cold, bytes>>
    BY <1>5 DEF ApplyBegin
  <2>2. TypeOK'
    BY <1>1, <1>3, <2>1 DEF CacheInv, TypeOK
  <2>3. ASSUME NEW k \in Keys, Hit(k)' # None PROVE Hit(k)' = Latest(k, row')
    <3>1. Hit(k)' = Hit(k)
      BY <2>1 DEF Hit
    <3>2. set /\ Hit(k) = Latest(k, Last[height])
      BY <1>1, <2>3, <3>1 DEF CacheInv, EntriesInv
    <3>3. height = next - 1
      BY <1>2, <1>5, <3>2 DEF CacheInv, TypeOK, Heights
    <3> QED
      BY <1>1, <3>1, <3>2, <3>3
  <2>4. EntriesInv'
    BY <1>1, <2>3 DEF EntriesInv, Latest
  <2>5. WriterInv'
    BY <1>1, <1>2, <1>3 DEF CacheInv, WriterInv
  <2> QED
    BY <1>1, <1>2, <2>2, <2>4, <2>5, HeldStays DEF CacheInv
<1> QED
  BY <1>4, <1>5

\* flatCache.apply puts one row: it is the key's latest from then on.
LEMMA InvApplyRow ==
  ASSUME CacheInv, ApplyRow
  PROVE  CacheInv'
<1>0. PICK k, e : k = RowKey[row + 1] /\ e = RowVal[row + 1]
  OBVIOUS
<1>1. /\ wpc = "apply" /\ row < Last[next] /\ row' = row + 1 /\ put(k, e)
      /\ UNCHANGED <<head, next, wpc, height, set, memo, rd>>
  BY <1>0 DEF ApplyRow
<1>2. next \in Heights /\ next <= head /\ head \in 0..MaxHeight /\ row \in Nat
  BY <1>1, RowsAssumption DEF CacheInv, TypeOK, WriterInv, Heights
<1>3. row + 1 \in Rows /\ row + 1 \in Last[next - 1]..Last[next]
  <2>1. row \in Last[next - 1]..Last[next]
    BY <1>1 DEF CacheInv, WriterInv
  <2>2. next \in 0..MaxHeight /\ next - 1 \in 0..MaxHeight
    BY <1>2, LastFacts
  <2>3. /\ Last[next] \in Nat /\ Last[next - 1] \in Nat
        /\ Last[next] <= Last[MaxHeight] /\ Last[MaxHeight] \in Nat
    BY <2>2, LastFacts, RowsAssumption
  <2> QED
    BY <1>1, <1>2, <2>1, <2>3 DEF Rows
<1>4. k \in Keys /\ e \in Entries
  BY <1>0, <1>3, RowsAssumption DEF Entries
<1>5. TypeOK
  BY DEF CacheInv
<1>6. /\ hot' \in [Keys -> Entries \cup {None}]
      /\ cold' \in [Keys -> Entries \cup {None}]
      /\ bytes' \in Int
      /\ Hit(k)' = e
      /\ \A q \in Keys : q # k => Hit(q)' \in {Hit(q), None}
  BY <1>1, <1>4, <1>5, PutFacts
<1>7. TypeOK'
  BY <1>1, <1>2, <1>5, <1>6 DEF TypeOK
<1>8. WriterInv'
  BY <1>1, <1>3 DEF CacheInv, WriterInv
<1>9. ASSUME NEW q \in Keys, Hit(q)' # None PROVE Hit(q)' = Latest(q, row')
  <2>1. Latest(q, row + 1) = IF k = q THEN e ELSE Latest(q, row)
    BY <1>0, <1>2, <1>3, LatestStep
  <2>2. CASE q = k
    BY <1>1, <1>6, <2>1, <2>2
  <2>3. CASE q # k
    <3>1. Hit(q)' = Hit(q) /\ Hit(q) # None
      BY <1>6, <1>9, <2>3
    <3>2. Hit(q) = Latest(q, row)
      BY <1>1, <3>1 DEF CacheInv, EntriesInv
    <3> QED
      BY <1>1, <2>1, <2>3, <3>1, <3>2
  <2> QED
    BY <2>2, <2>3
<1>10. EntriesInv'
  BY Zenon, <1>1, <1>9 DEF EntriesInv, Latest
<1> QED
  BY <1>1, <1>2, <1>7, <1>8, <1>10, HeldStays DEF CacheInv

\* flatCache.apply moves the height: the entries are exact for the new block.
LEMMA InvApplyEnd ==
  ASSUME CacheInv, ApplyEnd
  PROVE  CacheInv'
<1>1. /\ wpc = "apply" /\ row = Last[next] /\ wpc' = "ready"
      /\ height' = next /\ set' = TRUE /\ next' = next + 1
      /\ UNCHANGED <<head, row, hot, cold, bytes, memo, rd>>
  BY DEF ApplyEnd
<1>2. next \in Heights /\ next <= head /\ head \in 0..MaxHeight
  BY <1>1, RowsAssumption DEF CacheInv, TypeOK, WriterInv, Heights
<1>3. TypeOK'
  BY <1>1, <1>2, RowsAssumption DEF CacheInv, TypeOK, Heights
<1>4. WriterInv'
  <2>1. next' <= head' + 1 /\ height' <= head'
    BY <1>1, <1>2 DEF Heights
  <2>2. wpc' \notin {"added", "apply"}
    BY <1>1
  <2> QED
    BY Zenon, <2>1, <2>2 DEF WriterInv
<1>5. EntriesInv'
  <2>1. ASSUME NEW k \in Keys, Hit(k)' # None PROVE Hit(k)' = Latest(k, Last[height'])
    <3>1. Hit(k)' = Hit(k)
      BY <1>1 DEF Hit
    <3> QED
      BY <1>1, <2>1, <3>1 DEF CacheInv, EntriesInv
  <2> QED
    BY Zenon, <1>1, <2>1 DEF EntriesInv, Latest
<1> QED
  BY <1>1, <1>2, <1>3, <1>4, <1>5, HeldStays DEF CacheInv

\* open: the empty cache is exact for whatever head it adopts.
LEMMA InvRestart ==
  ASSUME CacheInv, Restart
  PROVE  CacheInv'
<1>1. PICK top \in 0..head : \E from \in 1..(top + 1) : Opened(top, from)
  BY DEF Restart
<1>2. PICK from \in 1..(top + 1) : Opened(top, from)
  BY <1>1
<1>3. top \in 0..MaxHeight /\ top \in Nat /\ from \in 1..(MaxHeight + 1) /\ from <= top + 1
  BY <1>1, RowsAssumption DEF CacheInv, TypeOK
<1>4. /\ head' = top /\ next' = from /\ wpc' = "ready" /\ row' = 0
      /\ hot' = NoEntries /\ cold' = NoEntries /\ bytes' = 0
      /\ height' = top /\ set' \in BOOLEAN
      /\ memo' = None
      /\ rd' = [r \in Readers |-> Idle]
  BY <1>2 DEF Opened
<1>5. Idle \in Reader /\ Idle.pc = "idle"
  BY RowsAssumption, CacheAssumption DEF Idle, Reader, Entries
<1>6. TypeOK'
  BY <1>3, <1>4, <1>5 DEF TypeOK, NoEntries
<1>7. WriterInv' /\ EntriesInv' /\ MemoInv'
  BY <1>3, <1>4 DEF WriterInv, EntriesInv, MemoInv, Hit, NoEntries
<1>8. ASSUME NEW r \in Readers PROVE ReaderInv(r)'
  <2>1. rd'[r].pc = "idle"
    BY <1>4, <1>5
  <2> QED
    BY <2>1 DEF ReaderInv
<1> QED
  BY <1>6, <1>7, <1>8 DEF CacheInv

-----------------------------------------------------------------------------
(* The readers. *)

\* A step of one reader that leaves the store and the cache alone keeps the
\* invariant when it keeps it for that reader.
LEMMA ReaderStep ==
  ASSUME CacheInv, NEW r \in Readers, NEW x \in Reader, rd' = [rd EXCEPT ![r] = x],
         UNCHANGED <<head, next, wpc, row, hot, cold, bytes, height, set, memo>>,
         x.pc = "ceil" => x.val = NotFound,
         x.pc \in {"memo", "get", "descend", "fill"} => x.h \in 1..head /\ x.at = Last[x.h],
         x.pc \in {"fill", "done"} => x.val = Latest(x.key, Last[x.h])
  PROVE  CacheInv'
<1>1. rd' \in [Readers -> Reader] /\ rd'[r] = x /\ \A q \in Readers : q # r => rd'[q] = rd[q]
  BY DEF CacheInv, TypeOK
<1>2. TypeOK'
  BY <1>1 DEF CacheInv, TypeOK
<1>3. WriterInv' /\ MemoInv'
  BY DEF CacheInv, WriterInv, MemoInv
<1>4. EntriesInv'
  BY DEF CacheInv, EntriesInv, Hit
<1>5. ASSUME NEW q \in Readers PROVE ReaderInv(q)'
  <2>1. CASE q = r
    <3>1. rd'[q] = x /\ head' = head
      BY <1>1, <2>1
    <3> QED
      BY <3>1 DEF ReaderInv
  <2>2. CASE q # r
    BY <1>1, <2>2 DEF CacheInv, ReaderInv
  <2> QED
    BY <2>1, <2>2
<1> QED
  BY <1>2, <1>3, <1>4, <1>5 DEF CacheInv

\* A request and the end of one: the reader holds nothing.
LEMMA InvStart ==
  ASSUME CacheInv, NEW r \in Readers,
         (\E k \in Keys, h \in 0..MaxHeight : Start(r, k, h)) \/ Answer(r)
  PROVE  CacheInv'
<1>1. Idle \in Reader /\ Idle.pc = "idle"
  BY RowsAssumption, CacheAssumption DEF Idle, Reader, Entries
<1>2. CASE Answer(r)
  BY Zenon, <1>1, <1>2, ReaderStep DEF Answer
<1>3. CASE \E k \in Keys, h \in 0..MaxHeight : Start(r, k, h)
  <2>1. PICK k \in Keys, h \in 0..MaxHeight : Start(r, k, h)
    BY <1>3
  <2> DEFINE x == [Idle EXCEPT !.pc = "ceil", !.key = k, !.h = h]
  <2>2. x \in Reader /\ x.pc = "ceil" /\ x.val = NotFound
    BY Zenon, <1>1 DEF Reader, Idle
  <2>3. rd' = [rd EXCEPT ![r] = x]
        /\ UNCHANGED <<head, next, wpc, row, hot, cold, bytes, height, set, memo>>
    BY Zenon, <2>1 DEF Start
  <2> HIDE DEF x
  <2> QED
    BY Zenon, <2>2, <2>3, ReaderStep
<1> QED
  BY <1>2, <1>3

\* txCeiling: the memo and the block index give the same ceiling.
LEMMA InvCeiling ==
  ASSUME CacheInv, NEW r \in Readers, Ceiling(r)
  PROVE  CacheInv'
<1> DEFINE same == UNCHANGED <<head, next, wpc, row, hot, cold, bytes, height, set, memo>>
<1>1. /\ rd[r].pc = "ceil" /\ same
      /\ rd \in [Readers -> Reader] /\ rd[r] \in Reader
      /\ rd[r].h \in 0..MaxHeight /\ head \in 0..MaxHeight
  BY DEF Ceiling, CacheInv, TypeOK, Reader
<1>2. CASE memo # None /\ memo.h = rd[r].h
  <2> DEFINE x == [rd[r] EXCEPT !.pc = "get", !.at = memo.at]
  <2>1. rd' = [rd EXCEPT ![r] = x]
    BY Zenon, <1>1, <1>2 DEF Ceiling
  <2>2. memo \in [h : Heights, at : Nat] /\ memo.h <= head /\ memo.at = Last[memo.h]
    BY <1>2 DEF CacheInv, TypeOK, MemoInv
  <2>4. memo.h \in 1..head /\ memo.at \in Nat
    BY <1>1, <2>2 DEF Heights
  <2>3. x \in Reader /\ x.pc = "get" /\ x.h = memo.h /\ x.at = memo.at
    BY Zenon, <1>1, <1>2, <2>4 DEF Reader
  <2> HIDE DEF x
  <2> QED
    BY Zenon, <1>1, <2>1, <2>2, <2>3, <2>4, ReaderStep
<1>3. CASE ~(memo # None /\ memo.h = rd[r].h) /\ rd[r].h \in 1..head
  <2> DEFINE x == [rd[r] EXCEPT !.pc = "memo", !.at = Last[rd[r].h]]
  <2>1. rd' = [rd EXCEPT ![r] = x]
    BY Zenon, <1>1, <1>3 DEF Ceiling
  <2>2. x \in Reader /\ x.pc = "memo" /\ x.h \in 1..head /\ x.at = Last[x.h]
    BY Zenon, <1>1, <1>3, LastFacts DEF Reader
  <2> HIDE DEF x
  <2> QED
    BY Zenon, <1>1, <2>1, <2>2, ReaderStep
<1>4. CASE ~(memo # None /\ memo.h = rd[r].h) /\ rd[r].h \notin 1..head
  <2>1. CASE rd[r].h = 0
    <3> DEFINE x == [rd[r] EXCEPT !.pc = "done"]
    <3>1. rd' = [rd EXCEPT ![r] = x]
      BY <1>1, <1>4, <2>1 DEF Ceiling
    <3>2. x \in Reader /\ x.pc = "done" /\ x.h = 0 /\ x.val = rd[r].val /\ x.key \in Keys
      BY <1>1, <2>1 DEF Reader
    <3>3. Latest(x.key, Last[0]) = NotFound
      BY RowsAssumption DEF Latest, Rows
    <3>4. rd[r].val = NotFound
      BY <1>1 DEF CacheInv, ReaderInv
    <3> HIDE DEF x
    <3> QED
      BY Zenon, <1>1, <3>1, <3>2, <3>3, <3>4, ReaderStep
  <2>2. CASE rd[r].h # 0
    <3>1. rd' = [rd EXCEPT ![r] = Idle]
      BY <1>1, <1>4, <2>2 DEF Ceiling
    <3>2. Idle \in Reader /\ Idle.pc = "idle"
      BY RowsAssumption, CacheAssumption DEF Idle, Reader, Entries
    <3> QED
      BY Zenon, <1>1, <3>1, <3>2, ReaderStep
  <2> QED
    BY <2>1, <2>2
<1> QED
  BY <1>2, <1>3, <1>4

\* txCeiling remembers the ceiling it resolved.
LEMMA InvStoreMemo ==
  ASSUME CacheInv, NEW r \in Readers, StoreMemo(r)
  PROVE  CacheInv'
<1> DEFINE x == [rd[r] EXCEPT !.pc = "get"]
<1>1. /\ rd[r].pc = "memo" /\ rd' = [rd EXCEPT ![r] = x]
      /\ memo' = [h |-> rd[r].h, at |-> rd[r].at]
      /\ UNCHANGED <<head, next, wpc, row, hot, cold, bytes, height, set>>
  BY DEF StoreMemo, CacheInv, TypeOK, Reader
<1>2. rd \in [Readers -> Reader] /\ rd[r] \in Reader /\ head \in 0..MaxHeight
  BY DEF CacheInv, TypeOK
<1>3. rd[r].h \in 1..head /\ rd[r].at = Last[rd[r].h]
  BY <1>1 DEF CacheInv, ReaderInv
<1>4. rd[r].h \in Heights /\ rd[r].at \in Nat
  BY <1>2, <1>3 DEF Reader, Heights
<1>5. x \in Reader /\ x.pc = "get" /\ x.h = rd[r].h /\ x.at = rd[r].at
  BY <1>2 DEF Reader
<1> HIDE DEF x
<1>6. rd' \in [Readers -> Reader] /\ rd'[r] = x /\ \A q \in Readers : q # r => rd'[q] = rd[q]
  BY <1>1, <1>2, <1>5
<1>7. TypeOK'
  BY <1>1, <1>4, <1>6 DEF CacheInv, TypeOK
<1>8. WriterInv'
  BY <1>1 DEF CacheInv, WriterInv
<1>9. MemoInv'
  BY <1>1, <1>2, <1>3 DEF MemoInv
<1>10. EntriesInv'
  BY <1>1 DEF CacheInv, EntriesInv, Hit
<1>11. ASSUME NEW q \in Readers PROVE ReaderInv(q)'
  <2>1. CASE q = r
    BY <1>1, <1>3, <1>5, <1>6, <2>1 DEF ReaderInv
  <2>2. CASE q # r
    BY <1>1, <1>6, <2>2 DEF CacheInv, ReaderInv
  <2> QED
    BY <2>1, <2>2
<1> QED
  BY <1>7, <1>8, <1>9, <1>10, <1>11 DEF CacheInv

\* flatCache.get: a hit at the cache's height is the state at that height.
LEMMA InvGet ==
  ASSUME CacheInv, NEW r \in Readers, Get(r)
  PROVE  CacheInv'
<1>1. /\ rd[r].pc = "get" /\ wpc # "apply"
      /\ UNCHANGED <<head, next, wpc, row, hot, cold, bytes, height, set, memo>>
  BY DEF Get, Locked
<1>2. rd \in [Readers -> Reader] /\ rd[r] \in Reader /\ rd[r].key \in Keys
  BY DEF CacheInv, TypeOK, Reader
<1>3. rd[r].h \in 1..head /\ rd[r].at = Last[rd[r].h]
  BY <1>1 DEF CacheInv, ReaderInv
<1>4. CASE set /\ height = rd[r].h /\ Hit(rd[r].key) # None
  <2> DEFINE x == [rd[r] EXCEPT !.pc = "done", !.val = Hit(rd[r].key)]
  <2>1. rd' = [rd EXCEPT ![r] = x]
    BY Zenon, <1>2, <1>4 DEF Get
  <2>2. Hit(rd[r].key) = Latest(rd[r].key, Last[rd[r].h])
    BY <1>1, <1>2, <1>4 DEF CacheInv, EntriesInv
  <2>3. Hit(rd[r].key) \in Entries
    BY <1>2, <1>4 DEF CacheInv, TypeOK, Hit
  <2>4. /\ x \in Reader /\ x.pc = "done" /\ x.h = rd[r].h /\ x.key = rd[r].key
        /\ x.val = Hit(rd[r].key)
    BY Zenon, <1>2, <2>3 DEF Reader
  <2> HIDE DEF x
  <2> QED
    BY Zenon, <1>1, <2>1, <2>2, <2>4, ReaderStep
<1>5. CASE ~(set /\ height = rd[r].h /\ Hit(rd[r].key) # None)
  <2> DEFINE x == [rd[r] EXCEPT !.pc = "descend"]
  <2>1. rd' = [rd EXCEPT ![r] = x]
    BY <1>2, <1>5 DEF Get
  <2>2. x \in Reader /\ x.pc = "descend" /\ x.h = rd[r].h /\ x.at = rd[r].at
    BY <1>2 DEF Reader
  <2> HIDE DEF x
  <2> QED
    BY ZenonT(60), <1>1, <1>3, <2>1, <2>2, ReaderStep
<1> QED
  BY <1>4, <1>5

\* The descent answers for the height whatever landed since.
LEMMA InvDescend ==
  ASSUME CacheInv, NEW r \in Readers, Descend(r)
  PROVE  CacheInv'
<1> DEFINE v == Descent(rd[r].key, rd[r].at)
           x == [rd[r] EXCEPT !.pc = "fill", !.val = v]
<1>1. /\ rd[r].pc = "descend" /\ rd' = [rd EXCEPT ![r] = x]
      /\ UNCHANGED <<head, next, wpc, row, hot, cold, bytes, height, set, memo>>
  BY Zenon DEF Descend, CacheInv, TypeOK
<1>2. /\ rd \in [Readers -> Reader] /\ rd[r] \in Reader /\ rd[r].key \in Keys
      /\ head \in 0..MaxHeight
  BY DEF CacheInv, TypeOK, Reader
<1>3. rd[r].h \in 1..head /\ rd[r].at = Last[rd[r].h]
  BY <1>1 DEF CacheInv, ReaderInv
<1>4. Last[rd[r].h] <= Last[head] /\ Last[rd[r].h] \in Nat
  BY <1>2, <1>3, RowsAssumption
<1>5. v = Latest(rd[r].key, Last[rd[r].h])
  BY <1>3, <1>4 DEF Descent
<1>6. v \in Entries
  BY <1>2, <1>4, <1>5, LatestType
<1> HIDE DEF v
<1>7. /\ x \in Reader /\ x.pc = "fill" /\ x.h = rd[r].h /\ x.at = rd[r].at
      /\ x.key = rd[r].key /\ x.val = v
  BY Zenon, <1>2, <1>6 DEF Reader
<1> HIDE DEF x
<1> QED
  BY Zenon, <1>1, <1>3, <1>5, <1>7, ReaderStep

\* flatCache.fill: an answer is put only into the cache of its own height.
LEMMA InvFill ==
  ASSUME CacheInv, NEW r \in Readers, Fill(r)
  PROVE  CacheInv'
<1> DEFINE x == [rd[r] EXCEPT !.pc = "done"]
<1>1. /\ rd[r].pc = "fill" /\ wpc # "apply" /\ rd' = [rd EXCEPT ![r] = x]
      /\ UNCHANGED <<head, next, wpc, row, height, set, memo>>
  BY DEF Fill, Locked, CacheInv, TypeOK
<1>2. /\ rd \in [Readers -> Reader] /\ rd[r] \in Reader
      /\ rd[r].key \in Keys /\ rd[r].val \in Entries
  BY DEF CacheInv, TypeOK, Reader
<1>3. rd[r].val = Latest(rd[r].key, Last[rd[r].h])
  BY <1>1 DEF CacheInv, ReaderInv
<1>4. x \in Reader /\ x.pc = "done" /\ x.h = rd[r].h /\ x.key = rd[r].key /\ x.val = rd[r].val
  BY <1>2 DEF Reader
<1>5. CASE ~(set /\ height = rd[r].h)
  <2>1. UNCHANGED <<hot, cold, bytes>>
    BY <1>5 DEF Fill
  <2> HIDE DEF x
  <2> QED
    BY Zenon, <1>1, <1>3, <1>4, <2>1, ReaderStep
<1>6. CASE set /\ height = rd[r].h
  <2>1. PICK k \in Keys, e \in Entries : k = rd[r].key /\ e = rd[r].val
    BY <1>2
  <2>2. put(k, e)
    BY <1>6, <2>1 DEF Fill
  <2>3. TypeOK
    BY DEF CacheInv
  <2>4. /\ hot' \in [Keys -> Entries \cup {None}]
        /\ cold' \in [Keys -> Entries \cup {None}]
        /\ bytes' \in Int
        /\ Hit(k)' = e
        /\ \A q \in Keys : q # k => Hit(q)' \in {Hit(q), None}
    BY <2>2, <2>3, PutFacts
  <2> HIDE DEF x
  <2>5. rd' \in [Readers -> Reader] /\ rd'[r] = x /\ \A q \in Readers : q # r => rd'[q] = rd[q]
    BY <1>1, <1>2, <1>4
  <2>6. TypeOK'
    BY <1>1, <2>3, <2>4, <2>5 DEF TypeOK
  <2>7. WriterInv' /\ MemoInv'
    BY <1>1 DEF CacheInv, WriterInv, MemoInv
  <2>8. ASSUME NEW q \in Keys, Hit(q)' # None PROVE Hit(q)' = Latest(q, Last[height])
    <3>1. CASE q = k
      BY <1>3, <1>6, <2>1, <2>4, <3>1
    <3>2. CASE q # k
      <4>1. Hit(q)' = Hit(q) /\ Hit(q) # None
        BY <2>4, <2>8, <3>2
      <4> QED
        BY <1>1, <4>1 DEF CacheInv, EntriesInv
    <3> QED
      BY <3>1, <3>2
  <2>9. EntriesInv'
    <3>1. height' = height /\ set' /\ wpc' # "apply"
      BY <1>1, <1>6
    <3>2. \A q \in Keys : Hit(q)' # None => Hit(q)' = Latest(q, Last[height'])
      BY <2>8, <3>1
    <3> QED
      BY Zenon, <3>1, <3>2 DEF EntriesInv, Latest
  <2>10. ASSUME NEW q \in Readers PROVE ReaderInv(q)'
    <3>1. CASE q = r
      BY <1>3, <1>4, <2>5, <3>1 DEF ReaderInv
    <3>2. CASE q # r
      BY <1>1, <2>5, <3>2 DEF CacheInv, ReaderInv
    <3> QED
      BY <3>1, <3>2
  <2> QED
    BY <2>6, <2>7, <2>9, <2>10 DEF CacheInv
<1> QED
  BY <1>5, <1>6

-----------------------------------------------------------------------------
(* The theorems. *)

\* A new store: nothing is cached, nobody reads.
LEMMA InitCache == ASSUME Init PROVE CacheInv
<1>1. Idle \in Reader /\ Idle.pc = "idle"
  BY RowsAssumption, CacheAssumption DEF Idle, Reader, Entries
<1>2. TypeOK
  <2>1. /\ head \in 0..MaxHeight /\ next \in 1..(MaxHeight + 1) /\ height \in 0..MaxHeight
        /\ row \in Nat /\ bytes \in Int
    BY RowsAssumption DEF Init
  <2>2. /\ hot \in [Keys -> Entries \cup {None}] /\ cold \in [Keys -> Entries \cup {None}]
        /\ rd \in [Readers -> Reader]
    BY <1>1 DEF Init, NoEntries
  <2>3. wpc \in {"ready", "added", "apply", "stopped"} /\ set \in BOOLEAN /\ memo = None
    BY ZenonT(60) DEF Init
  <2> QED
    BY Zenon, <2>1, <2>2, <2>3 DEF TypeOK
<1>3. WriterInv /\ EntriesInv /\ MemoInv
  BY DEF Init, WriterInv, EntriesInv, MemoInv, Hit, NoEntries
<1>4. ASSUME NEW r \in Readers PROVE ReaderInv(r)
  <2>1. rd[r].pc = "idle"
    BY <1>1 DEF Init
  <2> QED
    BY <2>1 DEF ReaderInv
<1> QED
  BY <1>2, <1>3, <1>4 DEF CacheInv

\* Every step of the writer, of a reader and of an open keeps the invariant.
LEMMA NextCache == ASSUME CacheInv, [Next]_vars PROVE CacheInv'
<1>1. CASE Write
  BY <1>1, InvAdd, InvApplyBegin, InvApplyRow, InvApplyEnd DEF Write
<1>2. CASE Restart
  BY <1>2, InvRestart
<1>3. CASE \E r \in Readers : Read(r)
  BY <1>3, InvStart, InvCeiling, InvStoreMemo, InvGet, InvDescend, InvFill DEF Read
<1>4. CASE UNCHANGED vars
  <2>1. TypeOK' /\ WriterInv' /\ MemoInv'
    BY <1>4 DEF vars, CacheInv, TypeOK, WriterInv, MemoInv
  <2>2. EntriesInv'
    BY <1>4 DEF vars, CacheInv, EntriesInv, Hit
  <2>3. \A r \in Readers : ReaderInv(r)'
    BY <1>4 DEF vars, CacheInv, ReaderInv
  <2> QED
    BY <2>1, <2>2, <2>3 DEF CacheInv
<1> QED
  BY <1>1, <1>2, <1>3, <1>4 DEF Next

\* The two rules of flat.go make every reachable cache exact: CacheInv is
\* inductive.
THEOREM CacheInductive == Spec => []CacheInv
<1>1. Init => CacheInv
  BY InitCache
<1>2. CacheInv /\ [Next]_vars => CacheInv'
  BY NextCache
<1> QED
  BY <1>1, <1>2, PTL DEF Spec

\* flatCache: outside the writer's critical section every entry a reader can
\* hit is the latest row at the cache's height.
THEOREM EntriesExact == Spec => []CacheExact
<1>1. CacheInv => CacheExact
  BY DEF CacheInv, EntriesInv, CacheExact, Locked
<1> QED
  BY <1>1, CacheInductive, PTL

\* DB.Account and DB.Storage: every answer is the state at the end of the
\* height that was asked for.
THEOREM AnswersExact == Spec => []ReadsExact
<1>1. CacheInv => ReadsExact
  BY DEF CacheInv, ReaderInv, ReadsExact
<1> QED
  BY <1>1, CacheInductive, PTL
=============================================================================
