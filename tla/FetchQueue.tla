----------------------------- MODULE FetchQueue -----------------------------
(***************************************************************************)
(* The ascending fetch (fetch/window.go, fetch/follow.go) and the executor *)
(* pipeline that drains it (exec/executor.go).  forward schedules spans of *)
(* heights under the window rule, workers fetch them, the answers join the *)
(* RAM queue in ascending order, the consensus follower offers the blocks  *)
(* it accepts to the same queue, and the prefetcher takes them out ahead   *)
(* of the block being executed.                                            *)
(*                                                                         *)
(* Only the next block of the chain links to the head, so the queue is the *)
(* interval low..head and an answer is its span with the first height that *)
(* does not link.  Every container weighs one byte.                        *)
(***************************************************************************)
EXTENDS Integers, Sequences, FiniteSetsExt

CONSTANTS Tip,          \* bound: where the chain ends
          Ceilings,     \* values of --tip-override, 0 for none
          WindowBlocks, RefillBelow, KeepBehind, spanBlocks, fetchSpans,
          queueMaxBytes,
          ReadAhead,    \* blocks the prefetch channels and their stages hold
          CommitEvery,
          Follows,      \* whether the consensus follower runs
          Wrongs        \* bound: how many answers do not link

\* New refuses a larger CommitEvery.
ASSUME FetchAssumption ==
  /\ {Tip, WindowBlocks, RefillBelow, KeepBehind, spanBlocks, fetchSpans,
      queueMaxBytes, ReadAhead, CommitEvery} \subseteq Nat \ {0}
  /\ Ceilings \subseteq 0..Tip /\ Wrongs \in Nat
  /\ CommitEvery <= KeepBehind
  /\ Follows \in BOOLEAN

VARIABLES head, low, consumed, \* the Queue
          batch, done,         \* the executor: batchStartNum and headNum
          ceiling,             \* f.ceiling, set before the fetch starts
          tip, acc,            \* f.tip; the follower's last accepted height
          pc, next, redo, pending, work, out, filling, seen, join,
          wrongs               \* answers that did not link so far

queue  == <<head, low, consumed>>
exec   == <<batch, done>>
net    == <<ceiling, tip, acc>>
rule   == <<next, out, filling, seen>>
spans  == <<redo, pending, work, join, wrongs>>
vars   == <<queue, exec, net, pc, rule, spans>>

Heights == 1..Tip
Goal == IF ceiling > 0 THEN ceiling ELSE Tip

\* A span, and an answer to it: heights from bad up do not link.
Spans   == [lo : Heights, hi : Heights]
Answers == [lo : Heights, hi : Heights, bad : 1..(Tip + 1)]
None    == [lo |-> 0, hi |-> 0]
Idle    == [lo |-> 0, hi |-> 0, bad |-> 0]

-----------------------------------------------------------------------------
(* The queue.                                                              *)

live == head - low + 1

Append_(h, links) == h = head + 1 /\ links

releaseOne(upTo) ==
  IF upTo < KeepBehind THEN low ELSE Max({low, upTo - KeepBehind + 2})
release(upTo) ==
  IF upTo < KeepBehind THEN low ELSE Max({low, upTo - KeepBehind + 1})

\* The prefetcher asks for one height after the other and waits for it.
GetUnlanded ==
  /\ consumed < Tip /\ consumed - done < ReadAhead
  /\ consumed' = consumed + 1
  /\ low' = release(consumed + 1)
  /\ UNCHANGED <<head, exec, net, pc, rule, spans>>

GetByHeight ==
  /\ consumed < head /\ consumed - done < ReadAhead
  /\ consumed' = consumed + 1
  /\ low' = release(consumed + 1)
  /\ UNCHANGED <<head, exec, net, pc, rule, spans>>

\* The executor takes the block from the pipeline into the open batch.
Execute ==
  /\ done < consumed /\ done - batch < CommitEvery
  /\ done' = done + 1
  /\ UNCHANGED <<queue, batch, net, pc, rule, spans>>

\* A full batch closes, and so does one of any size that waits too long for
\* its next block.
Flush ==
  /\ batch < done
  /\ batch' = done
  /\ UNCHANGED <<queue, done, net, pc, rule, spans>>

-----------------------------------------------------------------------------
(* The network: where the chain ends, and the follower's accepted blocks.  *)

noteTip(h) == Max({tip, h})

tipTargetOpen == tip
tipTarget == IF ceiling > 0 /\ (tip = 0 \/ ceiling < tip) THEN ceiling ELSE tip

\* A Chits answer or the discovered frontier.
Learn ==
  /\ tip < Tip
  /\ \E h \in (tip + 1)..Tip : tip' = noteTip(h)
  /\ UNCHANGED <<queue, exec, ceiling, acc, pc, rule, spans>>

\* The anchor may be any height, accepted blocks follow one by one. No follower
\* runs below a ceiling.
Offer ==
  /\ Follows /\ ceiling = 0 /\ acc < Tip
  /\ \E h \in Heights :
       /\ acc = 0 \/ h = acc + 1
       /\ acc' = h /\ tip' = noteTip(h)
       /\ head' = IF Append_(h, TRUE) THEN h ELSE head
  /\ UNCHANGED <<low, consumed, exec, ceiling, pc, rule, spans>>

-----------------------------------------------------------------------------
(* forward: one turn of its loop joins what has arrived, applies the       *)
(* window rule and selects one event.                                      *)

\* Spans the follower has carried past are forgotten.
spanned(p, want) == {r \in p : r.hi >= want}
covers(r, want) == r.lo <= want

\* The covering span starts to join, or there is none.
Join ==
  /\ pc = "join"
  /\ LET kept == spanned(pending, head + 1)
         hits == {r \in kept : covers(r, head + 1)}
     IN  IF hits = {}
         THEN pc' = "rule" /\ pending' = kept /\ UNCHANGED join
         ELSE \E r \in hits : /\ pending' = kept \ {r}
                              /\ join' = r /\ pc' = "check"
  /\ UNCHANGED <<queue, exec, net, rule, redo, work, wrongs>>

\* joinSpan passes over what the follower delivered first.
JoinCheck ==
  /\ pc = "check"
  /\ IF join.lo > join.hi THEN pc' = "join" /\ join' = Idle
     ELSE IF join.lo <= head
     THEN join' = [join EXCEPT !.lo = @ + 1] /\ UNCHANGED pc
     ELSE pc' = "append" /\ UNCHANGED join
  /\ UNCHANGED <<queue, exec, net, rule, redo, pending, work, wrongs>>

sendBack(r) == Append(redo, [lo |-> r.lo, hi |-> r.hi])

\* The follower may append the same block between the two.
JoinAppend ==
  /\ pc = "append"
  /\ IF Append_(join.lo, join.lo < join.bad)
     THEN /\ head' = join.lo /\ join' = [join EXCEPT !.lo = @ + 1]
          /\ pc' = "check" /\ UNCHANGED redo
     ELSE /\ redo' = sendBack(join) /\ join' = Idle
          /\ pc' = "join" /\ UNCHANGED head
  /\ UNCHANGED <<low, consumed, exec, net, rule, pending, work, wrongs>>

\* f.q.Head() is read before f.q.Consumed(), so the difference may wrap below
\* zero to a number that is not under RefillBelow.
RuleHead ==
  /\ pc = "rule" /\ seen' = head /\ pc' = "schedule"
  /\ UNCHANGED <<queue, exec, net, next, out, filling, spans>>

refill(was) == was \/ (seen >= consumed /\ seen - consumed < RefillBelow)

targetAhead == Min({tipTarget, head + WindowBlocks})
target == Min({tipTarget, consumed + WindowBlocks})

nextOver == IF next <= seen THEN seen + 1 ELSE next

Ready(fill) == out = None /\ fill /\ live < queueMaxBytes
               /\ Cardinality(work) < fetchSpans

Schedule ==
  /\ pc = "schedule"
  /\ LET n    == nextOver
         fill == refill(filling) /\ n <= consumed + WindowBlocks
         hi   == Min({n + spanBlocks - 1, target})
     IN  /\ filling' = fill
         /\ \/ /\ Ready(fill) /\ redo # <<>>
               /\ out' = Head(redo) /\ redo' = Tail(redo) /\ next' = n
            \/ /\ Ready(fill) /\ redo = <<>> /\ n <= target
               /\ out' = [lo |-> n, hi |-> hi] /\ next' = hi + 1 /\ UNCHANGED redo
            \/ /\ ~Ready(fill) \/ (redo = <<>> /\ n > target)
               /\ next' = n /\ UNCHANGED <<out, redo>>
  /\ pc' = "select"
  /\ UNCHANGED <<queue, exec, net, seen, pending, work, join, wrongs>>

\* A free worker takes the job.
HandOut ==
  /\ pc = "select" /\ out # None
  /\ work' = work \cup {out} /\ out' = None /\ pc' = "join"
  /\ UNCHANGED <<queue, exec, net, next, filling, seen, redo, pending, join, wrongs>>

\* fetchSpan always brings the whole span.  It links, or it does not from
\* some height up.
Answer(s) ==
  {[lo |-> s.lo, hi |-> s.hi, bad |-> b] :
     b \in IF wrongs < Wrongs THEN s.lo..(s.hi + 1) ELSE {s.hi + 1}}

Receive ==
  /\ pc = "select"
  /\ \E s \in work : \E r \in Answer(s) :
       /\ wrongs' = wrongs + (IF r.bad <= r.hi THEN 1 ELSE 0)
       /\ work' = work \ {s}
       /\ pending' = {q \in pending : q.lo # r.lo} \cup {r}
  /\ pc' = "join"
  /\ UNCHANGED <<queue, exec, net, rule, redo, join>>

Tick ==
  /\ pc = "select" /\ pc' = "join"
  /\ UNCHANGED <<queue, exec, net, rule, spans>>

-----------------------------------------------------------------------------
Init ==
  /\ head = 0 /\ low = 1 /\ consumed = 0
  /\ batch = 0 /\ done = 0
  /\ ceiling \in Ceilings /\ tip = 0 /\ acc = 0
  /\ pc = "join" /\ next = 1 /\ redo = <<>> /\ pending = {} /\ work = {}
  /\ out = None /\ filling = TRUE /\ seen = 0 /\ join = Idle
  /\ wrongs = 0

forward == Join \/ JoinCheck \/ JoinAppend \/ RuleHead \/ Schedule \/ Tick

Next ==
  \/ GetByHeight \/ Execute \/ Flush
  \/ Learn \/ Offer
  \/ Join \/ JoinCheck \/ JoinAppend \/ RuleHead \/ Schedule
  \/ HandOut \/ Receive \/ Tick

Spec == Init /\ [][Next]_vars

\* Goroutines run, peers answer and tell their tip; a select with several
\* ready cases picks among them at random, so none loses forever.
Fairness ==
  /\ WF_vars(GetByHeight) /\ WF_vars(Execute) /\ WF_vars(Flush)
  /\ WF_vars(Learn) /\ WF_vars(forward)
  /\ SF_vars(HandOut) /\ SF_vars(Receive)

FairSpec == Spec /\ Fairness

-----------------------------------------------------------------------------
(* Properties.                                                             *)

\* Every variable keeps its type; the cursors of queue and executor are in
\* order and the queue holds what is not yet consumed (type Queue, forward).
TypeOK ==
  /\ head \in 0..Tip /\ low \in 1..(Tip + 1)
  /\ batch \in 0..done /\ done \in 0..consumed /\ consumed \in 0..head
  /\ low <= consumed + 1
  /\ ceiling \in Ceilings /\ tip \in 0..Tip /\ acc \in 0..Tip
  /\ pc \in {"join", "check", "append", "rule", "schedule", "select"}
  /\ next \in 1..(Tip + 1) /\ seen \in 0..head /\ filling \in BOOLEAN
  /\ redo \in Seq(Spans) /\ pending \subseteq Answers /\ work \subseteq Spans
  /\ out \in Spans \cup {None}
  /\ join \in Answers \cup {Idle} \cup
       {[lo |-> Tip + 1, hi |-> h, bad |-> b] : h \in Heights, b \in 1..(Tip + 1)}
  /\ wrongs \in 0..Wrongs

Covering(h) ==
  LET In(r) == r.lo <= h /\ h <= r.hi
  IN  Cardinality({i \in DOMAIN redo : In(redo[i])})
        + Cardinality({r \in pending : In(r)})
        + Cardinality({s \in work : In(s)})
        + Cardinality({r \in {out, join} : In(r)})


\* No span reaches further than WindowBlocks ahead of the executor's cursor
\* (the window rule of forward).
SpansInWindow ==
  \A r \in {redo[i] : i \in DOMAIN redo} \cup pending \cup work \cup {out} :
    r.hi <= consumed + WindowBlocks

\* The batch the executor would have to bisect is still in the queue
\* (GetByHeight and release against bisect).
BisectReadable == \A i \in (batch + 1)..done : low <= i

\* --tip-override: nothing above the ceiling is queued (tipTarget).
StopsAtCeiling == ceiling > 0 => head <= ceiling

\* A span that a broken link sent back is asked again, unless the follower
\* makes it needless (forward, joinSpan).
SentBack(h) == \E i \in DOMAIN redo : redo[i].lo = h
ReAsked == \A h \in Heights : SentBack(h) /\ head < h ~> ~SentBack(h) \/ head >= h

\* The executor has drained the queue, and the span it waits for was sent back
\* after the window was scheduled to its end.
Stalled == /\ consumed = head /\ SentBack(head + 1)
           /\ next > consumed + WindowBlocks

=============================================================================
