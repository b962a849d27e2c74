------------------------- MODULE MemoryStoreProofs -------------------------
(***************************************************************************)
(* Proofs about MemoryStore for every number of sessions, authors,         *)
(* projects and commands.                                                  *)
(***************************************************************************)
EXTENDS MemoryStore, SequenceTheorems, TLAPS

-----------------------------------------------------------------------------
(* One row *)

\* Retiring a settled row at t (do_write, _retire_members, do_page_upsert): the
\* trigger has nothing to add, and the row's belief ends at t.
LEMMA SupersedeRow ==
  ASSUME NEW r \in Row, NEW n \in Nat, NEW t \in Nat, t <= n,
         BeliefTimeOf(r, n), Settled(r, t)
  PROVE  /\ Supersede(r, t) \in Row
         /\ BeliefTimeOf(Supersede(r, t), n)
         /\ Supersede(r, t).created = r.created
         /\ Supersede(r, t).replaced = r.replaced
         /\ EndedAt(Supersede(r, t), t)
         /\ \A u \in Nat : EndedAt(r, u) /\ u # Null => EndedAt(Supersede(r, t), u)
  <1>1. t # Null
    BY DEF Settled, Null, Row
  <1>2. Supersede(r, t) = [r EXCEPT !.status = "superseded", !.retired = t]
    BY <1>1 DEF Supersede, KeepBeliefTime, Settled, Row, Null
  <1>3. r.retired = Null
    BY DEF BeliefTimeOf, Settled
  <1> QED
    BY <1>1, <1>2, <1>3 DEF Row, Statuses, BeliefTimeOf, Settled, EndedAt, Null, Interval

\* Marking a row at the next tick, in either direction and any number of times,
\* keeps its belief time and forgets no belief that ended.
LEMMA MarkRow ==
  ASSUME NEW r \in Row, NEW n \in Nat, NEW st \in Statuses, BeliefTimeOf(r, n)
  PROVE  /\ Mark(r, st, n + 1) \in Row
         /\ BeliefTimeOf(Mark(r, st, n + 1), n + 1)
         /\ Mark(r, st, n + 1).created = r.created
         /\ Mark(r, st, n + 1).replaced = r.replaced
         /\ \A u \in Nat : EndedAt(r, u) /\ u # Null => EndedAt(Mark(r, st, n + 1), u)
  <1>1. CASE st # "active"
    <2> DEFINE v == IF r.retired = Null THEN n + 1 ELSE r.retired
               s == [r EXCEPT !.status = st, !.retired = v]
    <2>1. v \in Nat /\ v # Null /\ v <= n + 1
      BY DEF Row, Null, BeliefTimeOf
    <2>2. Mark(r, st, n + 1) = s
      BY <1>1, <2>1 DEF Mark, KeepBeliefTime, Row
    <2> HIDE DEF v
    <2>3. /\ s \in Row /\ s.status = st /\ s.intervals = r.intervals
          /\ s.created = r.created /\ s.replaced = r.replaced /\ s.retired = v
      BY <1>1, <2>1 DEF Row, Null
    <2> HIDE DEF s
    <2>4. BeliefTimeOf(s, n + 1)
      <3>1. s.created < v /\ \A iv \in s.intervals : iv.to < v
        BY <2>3 DEF v, Row, Statuses, BeliefTimeOf, Null, Interval
      <3> QED
        BY <1>1, <2>1, <2>3, <3>1 DEF Row, Statuses, BeliefTimeOf, Interval
    <2>5. \A u \in Nat : EndedAt(r, u) /\ u # Null => EndedAt(s, u)
      BY <2>3 DEF EndedAt, v, Null
    <2> QED
      BY <2>2, <2>3, <2>4, <2>5
  <1>2. CASE st = "active" /\ r.retired = Null
    <2>1. Mark(r, st, n + 1) = r
      BY <1>2 DEF Mark, KeepBeliefTime, Row, BeliefTimeOf, Null
    <2> QED
      BY <1>2, <2>1 DEF Row, Statuses, BeliefTimeOf, EndedAt, Null, Interval
  <1>3. CASE st = "active" /\ r.retired # Null
    <2> DEFINE iv == [from |-> r.retired, to |-> n + 1]
               s == [r EXCEPT !.status = "active", !.retired = Null, !.intervals = @ \union {iv}]
    <2>1. iv \in Interval /\ r.retired < n + 1
      BY DEF Interval, Row, BeliefTimeOf
    <2>2. /\ s \in Row /\ s.status = "active" /\ s.intervals = r.intervals \union {iv}
          /\ s.created = r.created /\ s.replaced = r.replaced /\ s.retired = Null
      BY <2>1 DEF Row, Null, Statuses
    <2>3. Mark(r, st, n + 1) = s
      BY <1>3, <2>1, <2>2 DEF Mark, KeepBeliefTime, Row, Null
    <2> HIDE DEF s
    <2>4. BeliefTimeOf(s, n + 1)
      BY <1>3, <2>1, <2>2 DEF Row, BeliefTimeOf, Null, Interval
    <2>5. ASSUME NEW u \in Nat, EndedAt(r, u), u # Null PROVE EndedAt(s, u)
      <3>1. iv.from = r.retired
        OBVIOUS
      <3> QED
        BY <2>2, <2>5, <3>1 DEF EndedAt
    <2> QED
      BY <2>2, <2>3, <2>4, <2>5
  <1> QED
    BY <1>1, <1>2, <1>3

\* The same of a hand update: the trigger does what mark would have done.
LEMMA HandUpdateRow ==
  ASSUME NEW r \in Row, NEW n \in Nat, NEW st \in Statuses, BeliefTimeOf(r, n)
  PROVE  HandUpdate(r, st, n + 1) = Mark(r, st, n + 1)
  <1> DEFINE s == [r EXCEPT !.status = st]
  <1>1. s.status = st /\ s.retired = r.retired /\ s.intervals = r.intervals
    BY DEF Row
  <1>2. CASE st # "active" /\ r.status = "active"
    BY <1>1, <1>2 DEF HandUpdate, Mark, KeepBeliefTime, Row, BeliefTimeOf, Null
  <1>3. CASE st # "active" /\ r.status # "active"
    BY <1>1, <1>3 DEF HandUpdate, Mark, KeepBeliefTime, Row, BeliefTimeOf, Null
  <1>4. CASE st = "active" /\ r.status = "active"
    BY <1>1, <1>4 DEF HandUpdate, Mark, KeepBeliefTime, Row, BeliefTimeOf, Null
  <1>5. CASE st = "active" /\ r.status # "active"
    BY <1>1, <1>5 DEF HandUpdate, Mark, KeepBeliefTime, Row, BeliefTimeOf, Null
  <1> QED
    BY <1>2, <1>3, <1>4, <1>5

-----------------------------------------------------------------------------
(* Steps that leave rows, ids and the clock alone *)

\* The transaction of a command that has just been issued: it names committed
\* rows, and has locked and inserted nothing.
Fresh(t) ==
  /\ t \in Tx /\ t.who \in Authors /\ t.group \subseteq DOMAIN rows /\ t.held = {}
  /\ t.pc \in {"lock", "ready"}
  /\ t.pc = "ready" /\ t.cmd \notin Lockless => t.group = {}

\* Issuing a command keeps the invariant.
LEMMA BeginStep ==
  ASSUME IInv, NEW p \in Procs, NEW c, NEW t, Begin(p, c, t), Fresh(t)
  PROVE  IInv'
  <1> USE DEF IInv, Fresh
  <1>1. /\ tx' = [tx EXCEPT ![p] = t] /\ begun' = begun + 1
        /\ rows' = rows /\ nextId' = nextId /\ now' = now /\ queue' = queue
    BY DEF Begin, Issue
  <1>2. TypeOK'
    BY <1>1 DEF TypeOK
  <1>3. /\ tx'[p] = t /\ t.pc # "learned"
        /\ \A q \in Procs \ {p} : tx'[q] = tx[q]
    BY <1>1 DEF TypeOK
  <1>4. IdsOK' /\ BeliefTime' /\ ReplacedOK'
    BY <1>1 DEF IdsOK, BeliefTime, BeliefTimeOf, ReplacedOK, EndedAt
  <1>5. LocksOK'
    BY <1>1, <1>3 DEF LocksOK, Lockless
  <1>6. InFlightOK'
    BY <1>1, <1>3 DEF InFlightOK, Retires, Active, Settled
  <1> QED
    BY <1>2, <1>4, <1>5, <1>6

\* A step on the review queue alone.
LEMMA QueueStep ==
  ASSUME IInv, queue' \in Seq(Review), begun' \in Nat,
         UNCHANGED <<rows, nextId, now, tx>>
  PROVE  IInv'
  <1> USE DEF IInv
  <1>1. TypeOK'
    BY DEF TypeOK
  <1>2. IdsOK' /\ BeliefTime' /\ ReplacedOK' /\ LocksOK'
    BY DEF IdsOK, BeliefTime, BeliefTimeOf, ReplacedOK, EndedAt, LocksOK
  <1>3. InFlightOK'
    BY DEF InFlightOK, Retires, Active, Settled
  <1> QED
    BY <1>1, <1>2, <1>3

\* Idle is a transaction that holds nothing.
LEMMA IdleFacts ==
  /\ Idle \in Tx /\ Idle.pc = "idle" /\ Idle.group = {} /\ Idle.held = {}
  BY DEF Idle, Tx, Statuses, Scopes

\* Resolving a review keeps the queue a queue of reviews.
LEMMA DecideType ==
  ASSUME queue \in Seq(Review), NEW r, NEW st \in {"pending", "approved", "rejected"},
         NEW ok \in BOOLEAN
  PROVE  Decide(r, st, ok) \in Seq(Review)
  <1>1. \A k \in 1..Len(queue) : queue[k] \in Review
    BY ElementOfSeq
  <1>2. \A k \in 1..Len(queue) :
          [queue[k] EXCEPT !.status = st, !.applied = ok] \in Review
    BY <1>1 DEF Review
  <1>3. Decide(r, st, ok) \in [1..Len(queue) -> Review]
    BY <1>1, <1>2 DEF Decide
  <1>4. Len(queue) \in Nat
    BY LenProperties
  <1> QED
    BY <1>3, <1>4

LEMMA ResolveType ==
  ASSUME TypeOK, NEW p \in Procs, NEW ok \in BOOLEAN
  PROVE  Resolve(p, ok) \in Seq(Review)
  BY DecideType DEF TypeOK, Resolve

\* A transaction that ends without writing (Refuse, Abort) lets go of its rows.
LEMMA GiveUpStep ==
  ASSUME IInv, NEW p \in Procs, End(p), queue' \in Seq(Review),
         UNCHANGED <<rows, nextId, now, begun>>
  PROVE  IInv'
  <1> USE DEF IInv
  <1>1. /\ tx'[p] = Idle /\ tx' \in [Procs -> Tx]
        /\ \A q \in Procs \ {p} : tx'[q] = tx[q]
    BY IdleFacts DEF End, TypeOK
  <1>2. TypeOK'
    BY <1>1 DEF TypeOK
  <1>3. IdsOK' /\ BeliefTime' /\ ReplacedOK'
    BY DEF IdsOK, BeliefTime, BeliefTimeOf, ReplacedOK, EndedAt
  <1>4. LocksOK'
    BY <1>1, IdleFacts DEF LocksOK
  <1>5. InFlightOK'
    BY <1>1, IdleFacts DEF InFlightOK, Retires, Active, Settled
  <1> QED
    BY <1>2, <1>3, <1>4, <1>5

\* Locking a row nobody else holds.
LEMMA LockRowStep ==
  ASSUME IInv, NEW p \in Procs, NEW i \in tx[p].group, LockRow(p, i)
  PROVE  IInv'
  <1> USE DEF IInv
  <1> DEFINE h == tx[p].held \union {i}
             c == IF tx[p].group = h THEN "ready" ELSE "lock"
  <1>1. /\ tx' = [tx EXCEPT ![p].held = h, ![p].pc = c]
        /\ rows' = rows /\ nextId' = nextId /\ now' = now /\ queue' = queue
        /\ begun' = begun /\ tx[p].pc = "lock"
    BY DEF LockRow
  <1>2. tx[p] \in Tx /\ h \in SUBSET Nat /\ c \in {"lock", "ready"}
    BY DEF TypeOK, Tx
  <1>3. /\ tx'[p] = [tx[p] EXCEPT !.held = h, !.pc = c]
        /\ \A q \in Procs \ {p} : tx'[q] = tx[q]
    BY <1>1, <1>2 DEF TypeOK
  <1>4. /\ tx'[p] \in Tx /\ tx'[p].pc = c /\ tx'[p].held = h
        /\ tx'[p].group = tx[p].group /\ tx'[p].who = tx[p].who
        /\ tx'[p].cmd = tx[p].cmd
    BY <1>2, <1>3 DEF Tx
  <1>5. TypeOK'
    BY <1>1, <1>3, <1>4 DEF TypeOK
  <1>6. IdsOK' /\ BeliefTime' /\ ReplacedOK'
    BY <1>1 DEF IdsOK, BeliefTime, BeliefTimeOf, ReplacedOK, EndedAt
  <1>7. \A q \in Procs \ {p} : i \notin tx[q].held
    BY DEF LockRow, Free
  <1>8. c = "ready" => tx[p].group = h
    OBVIOUS
  <1>9. p \in Procs /\ tx[p].group \subseteq DOMAIN rows /\ h \subseteq tx[p].group
    BY DEF LocksOK
  <1>10. \A q \in Procs \ {p} : \A j \in h : j \notin tx[q].held
    BY <1>7 DEF LocksOK
  <1> HIDE DEF h, c
  <1>11. LocksOK'
    <2> SUFFICES ASSUME NEW q \in Procs
                 PROVE  /\ tx'[q].pc # "idle" => tx'[q].who \in Authors
                        /\ tx'[q].group \subseteq DOMAIN rows
                        /\ tx'[q].held \subseteq tx'[q].group
                        /\ \A r \in Procs \ {q} : \A j \in tx'[q].held : j \notin tx'[r].held
                        /\ tx'[q].pc \in {"ready", "learned"} /\ tx'[q].cmd \notin Lockless
                             => tx'[q].held = tx'[q].group
      BY <1>1 DEF LocksOK
    <2>1. CASE q = p
      BY <1>1, <1>2, <1>3, <1>4, <1>8, <1>9, <1>10, <2>1 DEF LocksOK
    <2>2. CASE q # p
      BY <1>3, <1>4, <1>10, <2>2 DEF LocksOK
    <2> QED
      BY <2>1, <2>2
  <1>12. InFlightOK'
    <2>1. \A q \in Procs : tx'[q].pc = "learned" => q # p /\ tx'[q] = tx[q]
      BY <1>2, <1>3, <1>4
    <2>2. \A q \in Procs : tx'[q].pc = "learned" => Retires(q)' = Retires(q)
      BY <1>1, <2>1 DEF Retires, Active
    <2>3. rows' = rows /\ nextId' = nextId /\ now' = now /\ InFlightOK
      BY <1>1
    <2> QED
      BY <2>1, <2>2, <2>3 DEF InFlightOK, Settled
  <1> QED
    BY <1>5, <1>6, <1>11, <1>12

\* What the INSERT leaves in the transaction's record.
LEMMA LearnedTx ==
  ASSUME NEW t \in Tx, NEW i \in Nat, NEW n \in Nat
  PROVE  /\ Learned(t, i, n) \in Tx
         /\ Learned(t, i, n).pc = "learned" /\ Learned(t, i, n).id = i
         /\ Learned(t, i, n).at = n /\ Learned(t, i, n).held = t.held
         /\ Learned(t, i, n).group = t.group /\ Learned(t, i, n).who = t.who
         /\ Learned(t, i, n).cmd = t.cmd /\ Learned(t, i, n).winner = t.winner
  BY DEF Tx, Learned

\* The INSERT takes its id and its created_at: the rows it is about to retire are
\* locked and settled, whatever was reactivated while it waited.
LEMMA LearnStep ==
  ASSUME IInv, NEW p \in Procs, Learn(p)
  PROVE  IInv'
  <1> USE DEF IInv
  <1>0. tx' = [tx EXCEPT ![p] = Learned(tx[p], nextId, now + 1)]
    BY DEF Learn
  <1>1. /\ rows' = rows /\ nextId' = nextId + 1 /\ now' = now + 1 /\ queue' = queue
        /\ begun' = begun
        /\ tx[p].pc = "ready" /\ tx[p].cmd \in Inserting /\ Confirmed(p)
    BY DEF Learn, Inserting
  <1>2. tx[p] \in Tx /\ nextId \in Nat /\ now \in Nat
    BY DEF TypeOK
  <1>3. tx'[p] = Learned(tx[p], nextId, now + 1)
    BY <1>0 DEF TypeOK
  <1>4. /\ tx'[p] \in Tx /\ tx'[p].pc = "learned" /\ tx'[p].id = nextId
        /\ tx'[p].at = now + 1 /\ tx'[p].held = tx[p].held
        /\ tx'[p].group = tx[p].group /\ tx'[p].who = tx[p].who
        /\ tx'[p].cmd = tx[p].cmd /\ tx'[p].winner = tx[p].winner
    BY <1>2, <1>3, LearnedTx
  <1>5. /\ \A q \in Procs \ {p} : tx'[q] = tx[q]
        /\ DOMAIN tx' = Procs /\ tx' = [q \in Procs |-> tx'[q]]
    BY <1>0 DEF TypeOK
  <1>6. TypeOK'
    BY <1>1, <1>2, <1>4, <1>5 DEF TypeOK
  <1>7. IdsOK' /\ BeliefTime' /\ ReplacedOK'
    <2>1. IdsOK' /\ ReplacedOK'
      BY <1>1, <1>2 DEF IdsOK, ReplacedOK, EndedAt, TypeOK
    <2>2. ASSUME NEW i \in DOMAIN rows PROVE BeliefTimeOf(rows[i], now + 1)
      <3>1. rows[i] \in Row /\ BeliefTimeOf(rows[i], now)
        BY DEF TypeOK, BeliefTime
      <3> QED
        BY <1>2, <3>1 DEF BeliefTimeOf, Row, Interval
    <2> QED
      BY <1>1, <2>1, <2>2 DEF BeliefTime
  <1>8. LocksOK'
    BY <1>1, <1>4, <1>5 DEF LocksOK
  <1>9. \A i \in Retires(p) : Settled(rows[i], now + 1)
    <2> SUFFICES ASSUME NEW i \in Retires(p)
                 PROVE  Settled(rows[i], now + 1)
      OBVIOUS
    <2>1. i \in DOMAIN rows /\ rows[i].status = "active"
      BY <1>1 DEF Retires, Inserting, Confirmed, Active, LocksOK
    <2>2. rows[i] \in Row /\ BeliefTimeOf(rows[i], now)
      BY <2>1 DEF TypeOK, BeliefTime
    <2> QED
      BY <1>2, <2>1, <2>2 DEF Settled, BeliefTimeOf, Row, Interval
  <1>10. InFlightOK'
    <2>1. rows' = rows /\ nextId' = nextId + 1 /\ now' = now + 1 /\ tx[p].cmd \in Inserting
      BY <1>1
    <2>2. \A q \in Procs : Retires(q)' = Retires(q)
      BY <1>4, <1>5, <2>1 DEF Retires, Active
    <2>3. nextId \notin DOMAIN rows /\ 1 <= nextId
      BY <1>2 DEF IdsOK, TypeOK
    <2>4. \A q \in Procs \ {p} : tx[q].pc = "learned" =>
             tx[q].id \in Nat /\ tx[q].id < nextId /\ tx[q].at \in Nat
      BY DEF InFlightOK, TypeOK, Tx
    <2> QED
      BY <1>2, <1>4, <1>9, <1>5, <2>1, <2>2, <2>3, <2>4 DEF InFlightOK, Settled
  <1> QED
    BY <1>6, <1>7, <1>8, <1>10

-----------------------------------------------------------------------------
(* Steps that commit *)

\* A commit by p that changes only rows p holds, keeps their belief time, forgets
\* no belief that ended, and adds the rows in N: every invariant is kept.
LEMMA RowsStep ==
  ASSUME IInv, NEW p \in Procs, NEW N \in SUBSET Nat,
         End(p), queue' \in Seq(Review), begun' = begun, nextId' = nextId,
         now' \in Nat, now <= now',
         DOMAIN rows' = DOMAIN rows \union N, rows' \in [DOMAIN rows' -> Row],
         \A i \in N :
           /\ i \notin DOMAIN rows /\ 1 <= i /\ i < nextId
           /\ \A q \in Procs \ {p} : tx[q].pc = "learned" => tx[q].id # i
           /\ BeliefTimeOf(rows'[i], now')
           /\ \A x \in rows'[i].replaced :
                x \in DOMAIN rows /\ EndedAt(rows'[x], rows'[i].created),
         \A i \in DOMAIN rows :
           /\ i \notin tx[p].held => rows'[i] = rows[i]
           /\ BeliefTimeOf(rows'[i], now')
           /\ rows'[i].created = rows[i].created
           /\ rows'[i].replaced = rows[i].replaced
           /\ \A u \in Nat : EndedAt(rows[i], u) /\ u # Null => EndedAt(rows'[i], u)
  PROVE  IInv'
  <1> USE DEF IInv
  <1>1. /\ tx'[p] = Idle /\ tx' \in [Procs -> Tx]
        /\ \A q \in Procs \ {p} : tx'[q] = tx[q]
    BY IdleFacts DEF End, TypeOK
  <1>2. TypeOK'
    BY <1>1 DEF TypeOK
  <1>3. IdsOK'
    BY DEF IdsOK
  <1>4. BeliefTime'
    BY DEF BeliefTime
  <1>5. LocksOK'
    BY <1>1, IdleFacts DEF LocksOK
  <1>6. ReplacedOK'
    <2> SUFFICES ASSUME NEW i \in DOMAIN rows, NEW x \in rows[i].replaced
                 PROVE  x \in DOMAIN rows /\ EndedAt(rows'[x], rows[i].created)
      BY DEF ReplacedOK
    <2>1. x \in DOMAIN rows /\ EndedAt(rows[x], rows[i].created)
      BY DEF ReplacedOK
    <2>2. rows[i].created \in Nat /\ rows[i].created # Null
      BY DEF TypeOK, Row, BeliefTime, BeliefTimeOf, Null
    <2> QED
      BY <2>1, <2>2
  <1>7. InFlightOK'
    <2> SUFFICES ASSUME NEW q \in Procs, tx'[q].pc = "learned"
                 PROVE  /\ tx'[q].cmd \in Inserting
                        /\ 1 <= tx'[q].id /\ tx'[q].id < nextId'
                        /\ tx'[q].id \notin DOMAIN rows'
                        /\ \A r \in Procs \ {q} :
                             tx'[r].pc = "learned" => tx'[r].id # tx'[q].id
                        /\ 1 <= tx'[q].at /\ tx'[q].at <= now'
                        /\ \A i \in Retires(q)' : Settled(rows'[i], tx'[q].at)
      BY DEF InFlightOK, Settled
    <2>1. q # p /\ tx'[q] = tx[q]
      BY <1>1, IdleFacts
    <2>2. \A i \in tx[q].group : i \in DOMAIN rows /\ (i \in tx[q].held => rows'[i] = rows[i])
      BY <2>1 DEF LocksOK
    <2>3. tx[q].cmd \notin Lockless => tx[q].held = tx[q].group
      BY <2>1 DEF LocksOK
    <2>4. tx[q].cmd \in Lockless => Retires(q)' = {}
      BY <2>1 DEF Retires, Lockless
    <2>5. tx[q].cmd \notin Lockless =>
            Retires(q)' = Retires(q) /\ \A i \in Retires(q) : rows'[i] = rows[i]
      BY <2>1, <2>2, <2>3 DEF Retires, Active
    <2>6. \A i \in Retires(q)' : Settled(rows'[i], tx'[q].at)
      BY <2>1, <2>4, <2>5 DEF InFlightOK
    <2>7. tx[q].at \in Nat /\ now \in Nat
      BY DEF TypeOK, Tx
    <2> QED
      BY <1>1, <2>1, <2>6, <2>7, IdleFacts DEF InFlightOK
  <1> QED
    BY <1>2, <1>3, <1>4, <1>5, <1>6, <1>7

\* The rows a transaction retires are rows it holds.
LEMMA RetiresHeld ==
  ASSUME IInv, NEW p \in Procs, tx[p].pc \in {"ready", "learned"}
  PROVE  Retires(p) \subseteq tx[p].held /\ Retires(p) \subseteq DOMAIN rows
  <1>1. CASE tx[p].cmd \in Lockless
    BY <1>1 DEF Retires, Lockless
  <1>2. CASE tx[p].cmd \notin Lockless
    BY <1>2 DEF IInv, LocksOK, Retires
  <1> QED
    BY <1>1, <1>2

\* The inserted row is a believed row with no past.
LEMMA NewRowFacts ==
  ASSUME IInv, NEW p \in Procs, tx[p].pc = "learned"
  PROVE  /\ NewRow(p) \in Row
         /\ BeliefTimeOf(NewRow(p), now)
         /\ NewRow(p).created = tx[p].at
         /\ NewRow(p).replaced = Retires(p)
  <1>1. tx[p] \in Tx /\ tx[p].who \in Authors
    BY DEF IInv, TypeOK, LocksOK
  <1>2. 1 <= tx[p].at /\ tx[p].at <= now /\ now \in Nat
    BY DEF IInv, InFlightOK, TypeOK
  <1>3. Retires(p) \in SUBSET Nat
    BY <1>1 DEF Retires, Tx
  <1> DEFINE k == CASE tx[p].cmd = "page" -> "page"
                    [] tx[p].cmd = "derive" -> "derived"
                    [] OTHER -> "explicit"
             e == IF tx[p].cmd \in {"merge", "derive"} THEN tx[p].group ELSE {}
  <1>4. k \in Kinds
    BY DEF Kinds
  <1>5. e \in SUBSET Nat
    BY <1>1 DEF Tx
  <1> HIDE DEF k, e
  <1>6. NewRow(p) = [status |-> "active", author |-> tx[p].who, scope |-> tx[p].scope,
                     project |-> tx[p].project, kind |-> k, created |-> tx[p].at,
                     retired |-> Null, intervals |-> {}, replaced |-> Retires(p),
                     evidence |-> e, review |-> tx[p].review]
    BY DEF NewRow, k, e
  <1> QED
    BY <1>1, <1>2, <1>3, <1>4, <1>5, <1>6 DEF Tx, Row, Statuses, BeliefTimeOf, Null

\* Committing an insert hands over from every row it replaces at its created_at.
LEMMA CommitInsertStep ==
  ASSUME IInv, NEW p \in Procs, CommitInsert(p)
  PROVE  IInv'
  <1> DEFINE N == {tx[p].id}
  <1>1. /\ tx[p].pc = "learned" /\ End(p) /\ queue' = Resolve(p, TRUE)
        /\ nextId' = nextId /\ now' = now /\ begun' = begun
        /\ rows' = [i \in DOMAIN rows \union N |->
                      IF i = tx[p].id THEN NewRow(p)
                      ELSE IF i \in Retires(p) THEN Supersede(rows[i], tx[p].at)
                      ELSE rows[i]]
    BY DEF CommitInsert
  <1>2. queue' \in Seq(Review) /\ now \in Nat
    BY <1>1, ResolveType DEF IInv, TypeOK
  <1>3. /\ tx[p].id \in Nat /\ tx[p].id \notin DOMAIN rows
        /\ 1 <= tx[p].id /\ tx[p].id < nextId
        /\ \A q \in Procs \ {p} : tx[q].pc = "learned" => tx[q].id # tx[p].id
    BY <1>1 DEF IInv, TypeOK, Tx, InFlightOK
  <1>4. /\ tx[p].at \in Nat /\ tx[p].at <= now
        /\ \A i \in Retires(p) : Settled(rows[i], tx[p].at)
    BY <1>1 DEF IInv, TypeOK, Tx, InFlightOK
  <1>5. Retires(p) \subseteq tx[p].held /\ Retires(p) \subseteq DOMAIN rows
    BY <1>1, RetiresHeld
  <1>6. /\ DOMAIN rows' = DOMAIN rows \union N
        /\ rows'[tx[p].id] = NewRow(p)
        /\ \A i \in DOMAIN rows : i \notin Retires(p) => rows'[i] = rows[i]
        /\ \A i \in Retires(p) : rows'[i] = Supersede(rows[i], tx[p].at)
    BY <1>1, <1>3, <1>5
  <1>7. /\ NewRow(p) \in Row /\ BeliefTimeOf(NewRow(p), now)
        /\ NewRow(p).created = tx[p].at /\ NewRow(p).replaced = Retires(p)
    BY <1>1, NewRowFacts
  <1>8. \A i \in DOMAIN rows : rows[i] \in Row /\ BeliefTimeOf(rows[i], now)
    BY DEF IInv, TypeOK, BeliefTime
  <1>9. \A i \in Retires(p) :
          /\ rows'[i] \in Row /\ BeliefTimeOf(rows'[i], now)
          /\ rows'[i].created = rows[i].created /\ rows'[i].replaced = rows[i].replaced
          /\ EndedAt(rows'[i], tx[p].at)
          /\ \A u \in Nat : EndedAt(rows[i], u) /\ u # Null => EndedAt(rows'[i], u)
    BY <1>2, <1>4, <1>5, <1>6, <1>8, SupersedeRow
  <1>10. rows' \in [DOMAIN rows' -> Row]
    <2>1. \A i \in DOMAIN rows' : rows'[i] \in Row
      BY <1>6, <1>7, <1>8, <1>9
    <2>2. rows' = [i \in DOMAIN rows' |-> rows'[i]]
      BY <1>1
    <2> QED
      BY <2>1, <2>2
  <1>11. \A i \in N :
           /\ i \notin DOMAIN rows /\ 1 <= i /\ i < nextId
           /\ \A q \in Procs \ {p} : tx[q].pc = "learned" => tx[q].id # i
           /\ BeliefTimeOf(rows'[i], now')
           /\ \A x \in rows'[i].replaced :
                x \in DOMAIN rows /\ EndedAt(rows'[x], rows'[i].created)
    BY <1>1, <1>3, <1>5, <1>6, <1>7, <1>9
  <1>12. \A i \in DOMAIN rows :
           /\ i \notin tx[p].held => rows'[i] = rows[i]
           /\ BeliefTimeOf(rows'[i], now')
           /\ rows'[i].created = rows[i].created
           /\ rows'[i].replaced = rows[i].replaced
           /\ \A u \in Nat : EndedAt(rows[i], u) /\ u # Null => EndedAt(rows'[i], u)
    BY <1>1, <1>5, <1>6, <1>8, <1>9
  <1>13. N \in SUBSET Nat
    BY <1>3
  <1>14. /\ End(p) /\ begun' = begun /\ nextId' = nextId
         /\ now' \in Nat /\ now <= now' /\ DOMAIN rows' = DOMAIN rows \union N
    BY <1>1, <1>2, <1>6
  <1> HIDE DEF N
  <1> QED
    BY <1>2, <1>10, <1>11, <1>12, <1>13, <1>14, RowsStep

\* A row that stays as it is keeps its belief time as the clock advances.
LEMMA BeliefTimeLater ==
  ASSUME NEW r \in Row, NEW n \in Nat, BeliefTimeOf(r, n)
  PROVE  BeliefTimeOf(r, n + 1)
  BY DEF BeliefTimeOf, Row, Interval

\* A supersede verdict retires its losers at the next tick.
LEMMA CommitPickStep ==
  ASSUME IInv, NEW p \in Procs, CommitPick(p)
  PROVE  IInv'
  <1>1. /\ tx[p].pc = "ready" /\ tx[p].cmd = "pick" /\ Confirmed(p)
        /\ End(p) /\ queue' = Resolve(p, TRUE)
        /\ nextId' = nextId /\ now' = now + 1 /\ begun' = begun
        /\ rows' = [i \in DOMAIN rows |->
                      IF i \in Retires(p) THEN Supersede(rows[i], now + 1) ELSE rows[i]]
    BY DEF CommitPick
  <1>2. queue' \in Seq(Review) /\ now \in Nat
    BY <1>1, ResolveType DEF IInv, TypeOK
  <1>3. Retires(p) \subseteq tx[p].held /\ Retires(p) \subseteq DOMAIN rows
    BY <1>1, RetiresHeld
  <1>4. \A i \in DOMAIN rows : rows[i] \in Row /\ BeliefTimeOf(rows[i], now)
    BY DEF IInv, TypeOK, BeliefTime
  <1>5. \A i \in DOMAIN rows : BeliefTimeOf(rows[i], now + 1)
    BY <1>2, <1>4, BeliefTimeLater
  <1>6. \A i \in Retires(p) : Settled(rows[i], now + 1)
    <2> SUFFICES ASSUME NEW i \in Retires(p)
                 PROVE  Settled(rows[i], now + 1)
      OBVIOUS
    <2>1. i \in DOMAIN rows /\ rows[i].status = "active"
      BY <1>1, <1>3 DEF Retires, Confirmed, Active
    <2> QED
      BY <1>2, <1>4, <2>1 DEF Settled, BeliefTimeOf, Row, Interval
  <1>7. /\ DOMAIN rows' = DOMAIN rows
        /\ \A i \in DOMAIN rows : i \notin Retires(p) => rows'[i] = rows[i]
        /\ \A i \in Retires(p) : rows'[i] = Supersede(rows[i], now + 1)
    BY <1>1, <1>3
  <1>8. \A i \in Retires(p) :
          /\ rows'[i] \in Row /\ BeliefTimeOf(rows'[i], now + 1)
          /\ rows'[i].created = rows[i].created /\ rows'[i].replaced = rows[i].replaced
          /\ \A u \in Nat : EndedAt(rows[i], u) /\ u # Null => EndedAt(rows'[i], u)
    <2>1. now + 1 \in Nat /\ now + 1 <= now + 1
      BY <1>2
    <2> QED
      BY <1>3, <1>4, <1>5, <1>6, <1>7, <2>1, SupersedeRow
  <1>9. rows' \in [DOMAIN rows' -> Row]
    <2>1. \A i \in DOMAIN rows' : rows'[i] \in Row
      BY <1>4, <1>7, <1>8
    <2>2. rows' = [i \in DOMAIN rows' |-> rows'[i]]
      BY <1>1
    <2> QED
      BY <2>1, <2>2
  <1>10. \A i \in DOMAIN rows :
           /\ i \notin tx[p].held => rows'[i] = rows[i]
           /\ BeliefTimeOf(rows'[i], now')
           /\ rows'[i].created = rows[i].created
           /\ rows'[i].replaced = rows[i].replaced
           /\ \A u \in Nat : EndedAt(rows[i], u) /\ u # Null => EndedAt(rows'[i], u)
    BY <1>1, <1>3, <1>5, <1>7, <1>8
  <1>11. /\ End(p) /\ begun' = begun /\ nextId' = nextId
         /\ now' \in Nat /\ now <= now'
    BY <1>1, <1>2, <1>7
  <1> DEFINE N == {}
  <1>12. /\ N \in SUBSET Nat /\ DOMAIN rows' = DOMAIN rows \union N
         /\ \A i \in N :
              /\ i \notin DOMAIN rows /\ 1 <= i /\ i < nextId
              /\ \A q \in Procs \ {p} : tx[q].pc = "learned" => tx[q].id # i
              /\ BeliefTimeOf(rows'[i], now')
              /\ \A x \in rows'[i].replaced :
                   x \in DOMAIN rows /\ EndedAt(rows'[x], rows'[i].created)
    BY <1>7
  <1> HIDE DEF N
  <1> QED
    BY <1>2, <1>9, <1>10, <1>11, <1>12, RowsStep

\* mark, and an UPDATE of status by hand, at the next tick.
LEMMA CommitMarkStep ==
  ASSUME IInv, NEW p \in Procs, CommitMark(p)
  PROVE  IInv'
  <1>1. /\ tx[p].pc = "ready" /\ tx[p].cmd \in {"mark", "hand"}
        /\ End(p) /\ queue' = queue
        /\ nextId' = nextId /\ now' = now + 1 /\ begun' = begun
        /\ rows' = [i \in DOMAIN rows |->
                      IF i \notin tx[p].group THEN rows[i]
                      ELSE IF tx[p].cmd = "mark" THEN Mark(rows[i], tx[p].to, now + 1)
                      ELSE HandUpdate(rows[i], tx[p].to, now + 1)]
    BY DEF CommitMark
  <1>2. queue' \in Seq(Review) /\ now \in Nat /\ tx[p].to \in Statuses
    BY <1>1 DEF IInv, TypeOK, Tx
  <1>3. tx[p].group = tx[p].held
    BY <1>1 DEF IInv, LocksOK, Lockless
  <1>4. \A i \in DOMAIN rows : rows[i] \in Row /\ BeliefTimeOf(rows[i], now)
    BY DEF IInv, TypeOK, BeliefTime
  <1>5. \A i \in DOMAIN rows : BeliefTimeOf(rows[i], now + 1)
    BY <1>2, <1>4, BeliefTimeLater
  <1>6. /\ DOMAIN rows' = DOMAIN rows
        /\ \A i \in DOMAIN rows :
             rows'[i] = rows[i] \/ (i \in tx[p].held /\ rows'[i] = Mark(rows[i], tx[p].to, now + 1))
    BY <1>1, <1>2, <1>3, <1>4, HandUpdateRow
  <1>7. \A i \in DOMAIN rows : rows'[i] = Mark(rows[i], tx[p].to, now + 1) =>
          /\ rows'[i] \in Row /\ BeliefTimeOf(rows'[i], now + 1)
          /\ rows'[i].created = rows[i].created /\ rows'[i].replaced = rows[i].replaced
          /\ \A u \in Nat : EndedAt(rows[i], u) /\ u # Null => EndedAt(rows'[i], u)
    BY <1>2, <1>4, MarkRow
  <1>8. rows' \in [DOMAIN rows' -> Row]
    <2>1. \A i \in DOMAIN rows' : rows'[i] \in Row
      BY <1>4, <1>6, <1>7
    <2>2. rows' = [i \in DOMAIN rows' |-> rows'[i]]
      BY <1>1
    <2> QED
      BY <2>1, <2>2
  <1>9. \A i \in DOMAIN rows :
           /\ i \notin tx[p].held => rows'[i] = rows[i]
           /\ BeliefTimeOf(rows'[i], now')
           /\ rows'[i].created = rows[i].created
           /\ rows'[i].replaced = rows[i].replaced
           /\ \A u \in Nat : EndedAt(rows[i], u) /\ u # Null => EndedAt(rows'[i], u)
    BY <1>1, <1>5, <1>6, <1>7
  <1>10. /\ End(p) /\ begun' = begun /\ nextId' = nextId
         /\ now' \in Nat /\ now <= now'
    BY <1>1, <1>2, <1>6
  <1> DEFINE N == {}
  <1>11. /\ N \in SUBSET Nat /\ DOMAIN rows' = DOMAIN rows \union N
         /\ \A i \in N :
              /\ i \notin DOMAIN rows /\ 1 <= i /\ i < nextId
              /\ \A q \in Procs \ {p} : tx[q].pc = "learned" => tx[q].id # i
              /\ BeliefTimeOf(rows'[i], now')
              /\ \A x \in rows'[i].replaced :
                   x \in DOMAIN rows /\ EndedAt(rows'[x], rows'[i].created)
    BY <1>6
  <1> HIDE DEF N
  <1> QED
    BY <1>2, <1>8, <1>9, <1>10, <1>11, RowsStep

-----------------------------------------------------------------------------
(* The whole specification *)

LEMMA InitInv ==
  ASSUME Init
  PROVE  IInv
  <1>1. TypeOK
    BY IdleFacts, EmptySeq DEF Init, TypeOK
  <1>2. IdsOK /\ BeliefTime /\ ReplacedOK
    BY DEF Init, IdsOK, BeliefTime, ReplacedOK
  <1>3. LocksOK /\ InFlightOK
    BY IdleFacts DEF Init, LocksOK, InFlightOK
  <1> QED
    BY <1>1, <1>2, <1>3 DEF IInv

\* The transaction of a verdict is fresh.
LEMMA VerdictTx ==
  ASSUME TypeOK, NEW a \in Authors, NEW act \in {"merge", "pick", "derive"},
         NEW G \in SUBSET DOMAIN rows, NEW w \in Nat, NEW r \in Nat
  PROVE  Fresh(Verdict(a, act, G, w, r))
  <1> DEFINE c == IF act = "derive" THEN "ready" ELSE "lock"
  <1>1. G \in SUBSET Nat
    BY DEF TypeOK
  <1>2. GroupProject(G) \in Projects \union {NoProject}
    <2> DEFINE tags == {rows[i].project : i \in G} \ {NoProject}
    <2>1. tags \subseteq Projects
      BY DEF TypeOK, Row
    <2>2. CASE \E pr \in tags : tags = {pr}
      <3>1. GroupProject(G) = CHOOSE pr \in tags : TRUE
        BY <2>2 DEF GroupProject
      <3>2. (CHOOSE pr \in tags : TRUE) \in tags
        BY <2>2
      <3> QED
        BY <2>1, <3>1, <3>2
    <2>3. CASE ~ \E pr \in tags : tags = {pr}
      BY <2>3 DEF GroupProject
    <2> QED
      BY <2>2, <2>3
  <1>3. VerdictScope(act, G) \in Scopes
    BY DEF VerdictScope, GroupScope, Scopes
  <1>4. c \in {"lock", "ready"} /\ (c = "ready" => act = "derive")
    OBVIOUS
  <1> DEFINE sc == VerdictScope(act, G)
             pr == GroupProject(G)
  <1>5. Verdict(a, act, G, w, r) =
          [pc |-> c, cmd |-> act, who |-> a, group |-> G, held |-> {}, winner |-> w,
           to |-> "active", scope |-> sc, project |-> pr, review |-> r, id |-> 0, at |-> 0]
    BY DEF Verdict
  <1>6. sc \in Scopes /\ pr \in Projects \union {NoProject}
    BY <1>2, <1>3
  <1> HIDE DEF c, sc, pr
  <1> QED
    BY <1>1, <1>4, <1>5, <1>6 DEF Fresh, Tx, Statuses, Lockless

\* apply_verdict and the approval of a review, once _apply has read its snapshot.
LEMMA BeginVerdictStep ==
  ASSUME IInv, NEW p \in Procs, NEW a \in Authors, NEW act \in {"merge", "pick"},
         NEW G \in SUBSET DOMAIN rows, NEW w \in Nat, BeginVerdict(p, a, act, G, w)
  PROVE  IInv'
  <1>1. TypeOK /\ act \in {"merge", "pick", "derive"}
    BY DEF IInv
  <1>2. Fresh(Verdict(a, act, G, w, 0))
    BY <1>1, VerdictTx
  <1> QED
    BY <1>2, BeginStep DEF BeginVerdict

LEMMA BeginApproveStep ==
  ASSUME IInv, NEW p \in Procs, NEW a \in Authors, NEW r \in 1..Len(queue),
         BeginApprove(p, a, r)
  PROVE  IInv'
  <1> DEFINE act == queue[r].action
             G == queue[r].members
             w == queue[r].winner
  <1>1. TypeOK /\ queue[r] \in Review /\ r \in Nat
    BY ElementOfSeq DEF IInv, TypeOK
  <1>2. act \in {"merge", "pick", "derive"} /\ w \in Nat
    BY <1>1 DEF Review
  <1>3. G \in SUBSET DOMAIN rows
    BY DEF BeginApprove, Eligible, Active
  <1>4. Begin(p, act, Verdict(a, act, G, w, r))
    BY DEF BeginApprove
  <1> HIDE DEF act, G, w
  <1>5. Fresh(Verdict(a, act, G, w, r))
    BY <1>1, <1>2, <1>3, VerdictTx
  <1> QED
    BY <1>4, <1>5, BeginStep

\* Every command a session can issue is a transaction with nothing locked yet.
LEMMA IssuesStep ==
  ASSUME IInv, NEW p \in Procs, Issues(p)
  PROVE  IInv'
  <1> USE IdleFacts
  <1>1. DOMAIN rows \subseteq Nat
    BY DEF IInv, TypeOK
  <1> SUFFICES ASSUME NEW a \in Authors,
                      \/ \E au \in Audiences : BeginWrite(p, a, au)
                      \/ \E i \in DOMAIN rows, au \in Audiences : BeginSupersede(p, a, i, au)
                      \/ \E i \in DOMAIN rows, st \in Statuses : BeginMark(p, a, i, st)
                      \/ \E i \in DOMAIN rows, st \in Statuses : BeginHandUpdate(p, a, i, st)
                      \/ \E G \in SUBSET DOMAIN rows : BeginVerdict(p, a, "merge", G, 0)
                      \/ \E G \in SUBSET DOMAIN rows, w \in DOMAIN rows :
                           BeginVerdict(p, a, "pick", G, w)
                      \/ \E r \in 1..Len(queue) : BeginApprove(p, a, r)
                      \/ \E pr \in Projects : BeginPage(p, a, pr)
               PROVE  IInv'
    BY DEF Issues
  <1>2. CASE \E au \in Audiences : BeginWrite(p, a, au)
    <2> PICK au \in Audiences : BeginWrite(p, a, au)
      BY <1>2
    <2> DEFINE t == [Idle EXCEPT !.pc = "ready", !.cmd = "write", !.who = a,
                                 !.scope = au[1], !.project = au[2]]
    <2>1. /\ t \in Tx /\ t.who = a /\ t.group = {} /\ t.held = {}
          /\ t.pc = "ready" /\ t.cmd = "write"
      BY DEF Tx, Idle, Audiences
    <2>2. Begin(p, "write", t)
      BY DEF BeginWrite
    <2> HIDE DEF t
    <2> QED
      BY <2>1, <2>2, BeginStep DEF Fresh, Lockless
  <1>3. CASE \E i \in DOMAIN rows, au \in Audiences : BeginSupersede(p, a, i, au)
    <2> PICK i \in DOMAIN rows, au \in Audiences : BeginSupersede(p, a, i, au)
      BY <1>3
    <2> DEFINE t == [Idle EXCEPT !.pc = "lock", !.cmd = "supersede", !.who = a,
                                 !.group = {i}, !.scope = au[1], !.project = au[2]]
    <2>1. /\ t \in Tx /\ t.who = a /\ t.group = {i} /\ t.held = {} /\ t.pc = "lock"
      BY <1>1 DEF Tx, Idle, Audiences
    <2>2. Begin(p, "supersede", t)
      BY DEF BeginSupersede
    <2> HIDE DEF t
    <2> QED
      BY <2>1, <2>2, BeginStep DEF Fresh, Lockless
  <1>4. CASE \E i \in DOMAIN rows, st \in Statuses : BeginMark(p, a, i, st)
    <2> PICK i \in DOMAIN rows, st \in Statuses : BeginMark(p, a, i, st)
      BY <1>4
    <2> DEFINE t == [Idle EXCEPT !.pc = "lock", !.cmd = "mark", !.who = a,
                                 !.group = {i}, !.to = st]
    <2>1. /\ t \in Tx /\ t.who = a /\ t.group = {i} /\ t.held = {} /\ t.pc = "lock"
      BY <1>1 DEF Tx, Idle
    <2>2. Begin(p, "mark", t)
      BY DEF BeginMark
    <2> HIDE DEF t
    <2> QED
      BY <2>1, <2>2, BeginStep DEF Fresh, Lockless
  <1>5. CASE \E i \in DOMAIN rows, st \in Statuses : BeginHandUpdate(p, a, i, st)
    <2> PICK i \in DOMAIN rows, st \in Statuses : BeginHandUpdate(p, a, i, st)
      BY <1>5
    <2> DEFINE t == [Idle EXCEPT !.pc = "lock", !.cmd = "hand", !.who = a,
                                 !.group = {i}, !.to = st]
    <2>1. /\ t \in Tx /\ t.who = a /\ t.group = {i} /\ t.held = {} /\ t.pc = "lock"
      BY <1>1 DEF Tx, Idle
    <2>2. Begin(p, "hand", t)
      BY DEF BeginHandUpdate
    <2> HIDE DEF t
    <2> QED
      BY <2>1, <2>2, BeginStep DEF Fresh, Lockless
  <1>6. ASSUME NEW act \in {"merge", "pick"}, NEW G \in SUBSET DOMAIN rows,
               NEW w \in Nat, BeginVerdict(p, a, act, G, w)
        PROVE  IInv'
    BY <1>6, BeginVerdictStep
  <1>7. ASSUME NEW r \in 1..Len(queue), BeginApprove(p, a, r)
        PROVE  IInv'
    BY <1>7, BeginApproveStep
  <1>8. CASE \E pr \in Projects : BeginPage(p, a, pr)
    <2> PICK pr \in Projects : BeginPage(p, a, pr)
      BY <1>8
    <2> DEFINE c == IF PriorPages(a, pr) = {} THEN "ready" ELSE "lock"
               t == [Idle EXCEPT !.pc = c, !.cmd = "page", !.who = a,
                                 !.group = PriorPages(a, pr),
                                 !.scope = "project", !.project = pr]
    <2>1. PriorPages(a, pr) \subseteq DOMAIN rows
      BY DEF PriorPages
    <2>2. c \in {"ready", "lock"} /\ (c = "ready" => PriorPages(a, pr) = {})
      OBVIOUS
    <2>3. Begin(p, "page", t)
      BY DEF BeginPage
    <2> HIDE DEF c
    <2>4. /\ t \in Tx /\ t.who = a /\ t.group = PriorPages(a, pr) /\ t.held = {}
          /\ t.pc = c
      BY <1>1, <2>1, <2>2 DEF Tx, Idle, Scopes
    <2> HIDE DEF t
    <2> QED
      BY <2>1, <2>2, <2>3, <2>4, BeginStep DEF Fresh, Lockless
  <1> QED
    BY <1>1, <1>2, <1>3, <1>4, <1>5, <1>6, <1>7, <1>8

\* Steps on the review queue.
LEMMA ReviewsStep ==
  ASSUME IInv, Reviews
  PROVE  IInv'
  <1>1. begun \in Nat /\ DOMAIN rows \subseteq Nat /\ queue \in Seq(Review)
    BY DEF IInv, TypeOK
  <1>2. ASSUME NEW a \in Authors, NEW act \in {"merge", "pick", "derive"},
               NEW G \in SUBSET DOMAIN rows, NEW w \in Nat, ReviewAdd(a, act, G, w)
        PROVE  IInv'
    <2> DEFINE item == [action |-> act, members |-> G, winner |-> w, author |-> a,
                        status |-> "pending", applied |-> FALSE]
    <2>1. item \in Review
      BY <1>1 DEF Review
    <2>2. queue' = Append(queue, item) /\ begun' = begun + 1
          /\ UNCHANGED <<rows, nextId, now, tx>>
      BY <1>2 DEF ReviewAdd
    <2> HIDE DEF item
    <2>3. queue' \in Seq(Review)
      BY <1>1, <2>1, <2>2, AppendProperties
    <2> QED
      BY <1>1, <2>2, <2>3, QueueStep
  <1>3. ASSUME NEW a \in Authors, NEW r \in 1..Len(queue),
               ApproveRefused(a, r) \/ ReviewReject(a, r)
        PROVE  IInv'
    <2>1. \E st \in {"pending", "approved", "rejected"} :
             queue' = Decide(r, st, FALSE) /\ begun' = begun + 1
      BY <1>3 DEF ApproveRefused, ReviewReject
    <2>2. UNCHANGED <<rows, nextId, now, tx>>
      BY <1>3 DEF ApproveRefused, ReviewReject
    <2>3. queue' \in Seq(Review)
      BY <1>1, <2>1, DecideType
    <2> QED
      BY <1>1, <2>1, <2>2, <2>3, QueueStep
  <1> QED
    BY <1>1, <1>2, <1>3 DEF Reviews

\* IInv is inductive.
LEMMA NextInv ==
  ASSUME IInv, [Next]_vars
  PROVE  IInv'
  <1>1. ASSUME NEW p \in Procs, Step(p)
        PROVE  IInv'
    <2>1. ASSUME NEW i \in tx[p].group, LockRow(p, i) PROVE IInv'
      BY <2>1, LockRowStep
    <2>2. CASE Refuse(p)
      <3>1. queue' \in Seq(Review)
        BY <2>2, ResolveType DEF Refuse, IInv
      <3> QED
        BY <2>2, <3>1, GiveUpStep DEF Refuse
    <2>3. CASE Learn(p)
      BY <2>3, LearnStep
    <2>4. CASE CommitInsert(p)
      BY <2>4, CommitInsertStep
    <2>5. CASE CommitPick(p)
      BY <2>5, CommitPickStep
    <2>6. CASE CommitMark(p)
      BY <2>6, CommitMarkStep
    <2> QED
      BY <1>1, <2>1, <2>2, <2>3, <2>4, <2>5, <2>6 DEF Step
  <1>2. ASSUME NEW p \in Procs, Abort(p)
        PROVE  IInv'
    BY <1>2, GiveUpStep DEF Abort, IInv, TypeOK
  <1>3. CASE UNCHANGED vars
    BY <1>3 DEF vars, IInv, TypeOK, IdsOK, BeliefTime, BeliefTimeOf, LocksOK, InFlightOK,
                ReplacedOK, Retires, Active, Settled, EndedAt
  <1> QED
    BY <1>1, <1>2, <1>3, IssuesStep, ReviewsStep DEF Next, Quiet

LEMMA SpecInv == Spec => []IInv
  BY InitInv, NextInv, PTL DEF Spec

\* The store's variables keep their types, for any number of sessions, authors,
\* projects and commands.
THEOREM TypeCorrect == Spec => []TypeOK
  <1>1. IInv => TypeOK
    BY DEF IInv
  <1> QED
    BY <1>1, SpecInv, PTL

\* Every row's belief time is consistent, whichever commands run (keep_belief_time,
\* mark's COALESCE and retired_intervals, the retirements of supersede and merge).
THEOREM BeliefTimeCorrect == Spec => []BeliefTime
  <1>1. IInv => BeliefTime
    BY DEF IInv
  <1> QED
    BY <1>1, SpecInv, PTL

\* The as_of filter and the active set agree about the present.
THEOREM BelievedNowCorrect == Spec => []BelievedNow
  <1>1. ASSUME IInv PROVE BelievedNow
    <2> SUFFICES ASSUME NEW i \in DOMAIN rows
                 PROVE  BelievedAt(rows[i], now) <=> rows[i].status = "active"
      BY DEF BelievedNow, AsOf
    <2>1. rows[i] \in Row /\ BeliefTimeOf(rows[i], now) /\ now \in Nat
      BY <1>1 DEF IInv, TypeOK, BeliefTime
    <2> QED
      BY <2>1 DEF BelievedAt, BeliefTimeOf, Row, Interval, Null
  <1> QED
    BY <1>1, SpecInv, PTL

\* A belief that ended at t was held right up to t and not at t.
LEMMA EndedAtBelief ==
  ASSUME NEW r \in Row, NEW n \in Nat, NEW t \in Nat, t # Null,
         BeliefTimeOf(r, n), EndedAt(r, t)
  PROVE  BelievedAt(r, t - 1) /\ ~ BelievedAt(r, t)
  <1>1. r.created \in Nat /\ r.retired \in Nat /\ r.intervals \subseteq Interval
    BY DEF Row
  <1>2. CASE r.retired = t
    BY <1>1, <1>2 DEF BelievedAt, BeliefTimeOf, EndedAt, Interval, Null
  <1>3. CASE \E iv \in r.intervals : iv.from = t
    <2> PICK iv \in r.intervals : iv.from = t
      BY <1>3
    <2>1. ~ BelievedAt(r, t)
      BY <1>1 DEF BelievedAt, BeliefTimeOf, Interval
    <2>2. r.created <= t - 1 /\ (r.retired = Null \/ r.retired > t - 1)
      BY <1>1 DEF BeliefTimeOf, Interval, EndedAt
    <2>3. ASSUME NEW jv \in r.intervals, jv.from <= t - 1, jv.to > t - 1
          PROVE  FALSE
      BY <1>1, <2>3 DEF BeliefTimeOf, Interval
    <2> QED
      BY <2>1, <2>2, <2>3 DEF BelievedAt
  <1> QED
    BY <1>2, <1>3 DEF EndedAt

\* One belief hands over to the next with neither an overlap nor a gap: what
\* do_write, a merge and a page rebuild replace stops being believed exactly when
\* the replacement is learned, for good, through any later marks.
THEOREM HandoverCorrect == Spec => []Handover
  <1>1. ASSUME IInv PROVE Handover
    <2> SUFFICES ASSUME NEW i \in DOMAIN rows, NEW x \in rows[i].replaced
                 PROVE  /\ x \in AsOf(rows[i].created - 1)
                        /\ x \notin AsOf(rows[i].created)
                        /\ i \in AsOf(rows[i].created)
      BY DEF Handover
    <2>1. /\ rows[i] \in Row /\ BeliefTimeOf(rows[i], now) /\ now \in Nat
          /\ x \in DOMAIN rows /\ EndedAt(rows[x], rows[i].created)
      BY <1>1 DEF IInv, TypeOK, BeliefTime, ReplacedOK
    <2>2. rows[x] \in Row /\ BeliefTimeOf(rows[x], now)
      BY <1>1, <2>1 DEF IInv, TypeOK, BeliefTime
    <2>3. rows[i].created \in Nat /\ rows[i].created # Null
      BY <2>1 DEF Row, BeliefTimeOf, Null
    <2>4. BelievedAt(rows[i], rows[i].created)
      BY <2>1, <2>3 DEF BelievedAt, BeliefTimeOf, Row, Interval, Null
    <2> QED
      BY <2>1, <2>2, <2>3, <2>4, EndedAtBelief DEF AsOf
  <1> QED
    BY <1>1, SpecInv, PTL

-----------------------------------------------------------------------------
(* History *)

\* Retiring a settled row at u changes nothing that was believed before u.
LEMMA SupersedeBelief ==
  ASSUME NEW r \in Row, NEW n \in Nat, NEW u \in Nat, NEW t \in Nat, t < u,
         BeliefTimeOf(r, n), Settled(r, u)
  PROVE  BelievedAt(Supersede(r, u), t) <=> BelievedAt(r, t)
  <1>1. Supersede(r, u) = [r EXCEPT !.status = "superseded", !.retired = u]
    BY DEF Supersede, KeepBeliefTime, Settled, Row, Null
  <1>2. /\ Supersede(r, u).created = r.created /\ Supersede(r, u).retired = u
        /\ Supersede(r, u).intervals = r.intervals
    BY <1>1 DEF Row
  <1>3. r.retired = Null
    BY DEF BeliefTimeOf, Settled
  <1> QED
    BY <1>2, <1>3 DEF BelievedAt

\* Marking a row at the next tick changes nothing that was believed by now.
LEMMA MarkBelief ==
  ASSUME NEW r \in Row, NEW n \in Nat, NEW st \in Statuses, NEW t \in Nat, t <= n,
         BeliefTimeOf(r, n)
  PROVE  BelievedAt(Mark(r, st, n + 1), t) <=> BelievedAt(r, t)
  <1> DEFINE m == Mark(r, st, n + 1)
  <1>1. CASE st # "active"
    <2> DEFINE v == IF r.retired = Null THEN n + 1 ELSE r.retired
    <2>1. v \in Nat /\ v # Null
      BY DEF Row, Null
    <2>2. m = [r EXCEPT !.status = st, !.retired = v]
      BY <1>1, <2>1 DEF Mark, KeepBeliefTime, Row
    <2>3. m.created = r.created /\ m.retired = v /\ m.intervals = r.intervals
      BY <2>2 DEF Row
    <2> HIDE DEF m
    <2>4. v > t <=> r.retired = Null \/ r.retired > t
      BY DEF Row, Null
    <2> QED
      BY <2>1, <2>3, <2>4 DEF BelievedAt, m
  <1>2. CASE st = "active" /\ r.retired = Null
    <2>1. m = r
      BY <1>2 DEF Mark, KeepBeliefTime, Row, BeliefTimeOf, Null
    <2> QED
      BY <2>1
  <1>3. CASE st = "active" /\ r.retired # Null
    <2> DEFINE iv == [from |-> r.retired, to |-> n + 1]
               s == [r EXCEPT !.status = "active", !.retired = Null, !.intervals = @ \union {iv}]
    <2>1. /\ r.retired < n + 1 /\ r.retired \in Nat
          /\ iv.from = r.retired /\ iv.to = n + 1
      BY DEF Row, BeliefTimeOf
    <2>2. /\ s.status = "active" /\ s.intervals = r.intervals \union {iv}
          /\ s.created = r.created /\ s.retired = Null
      BY DEF Row
    <2>3. m = s
      BY <1>3, <2>1, <2>2 DEF Mark, KeepBeliefTime, Row, Null
    <2> HIDE DEF m, s, iv
    <2>4. (r.retired > t) <=> ~ (iv.from <= t /\ iv.to > t)
      BY <2>1
    <2> QED
      BY <1>3, <2>2, <2>3, <2>4 DEF BelievedAt, m
  <1> QED
    BY <1>1, <1>2, <1>3

\* Only the three kinds of commit change a row.
LEMMA OnlyCommitsWrite ==
  ASSUME [Next]_vars
  PROVE  \/ rows' = rows
         \/ \E p \in Procs : CommitInsert(p) \/ CommitPick(p) \/ CommitMark(p)
  <1>1. ASSUME NEW p \in Procs, Issues(p) PROVE rows' = rows
    BY <1>1 DEF Issues, BeginWrite, BeginSupersede, BeginMark, BeginHandUpdate,
                BeginVerdict, BeginApprove, BeginPage, Begin
  <1>2. ASSUME NEW p \in Procs, Step(p)
        PROVE  rows' = rows \/ CommitInsert(p) \/ CommitPick(p) \/ CommitMark(p)
    BY <1>2 DEF Step, LockRow, Refuse, Learn
  <1>3. ASSUME NEW p \in Procs, Abort(p) PROVE rows' = rows
    BY <1>3 DEF Abort
  <1>4. Reviews => rows' = rows
    BY DEF Reviews, ReviewAdd, ApproveRefused, ReviewReject
  <1> QED
    BY <1>1, <1>2, <1>3, <1>4 DEF Next, Quiet, vars

\* A step that keeps what was believed at t: row by row, and new rows are later.
KeepsPast(t) ==
  /\ DOMAIN rows \subseteq DOMAIN rows'
  /\ \A i \in DOMAIN rows : BelievedAt(rows'[i], t) <=> BelievedAt(rows[i], t)
  /\ \A i \in DOMAIN rows' \ DOMAIN rows : ~ BelievedAt(rows'[i], t)

LEMMA InsertKeepsPast ==
  ASSUME IInv, NEW p \in Procs, CommitInsert(p), NEW t \in Nat, t < tx[p].at
  PROVE  KeepsPast(t)
  <1>1. /\ tx[p].pc = "learned"
        /\ rows' = [i \in DOMAIN rows \union {tx[p].id} |->
                      IF i = tx[p].id THEN NewRow(p)
                      ELSE IF i \in Retires(p) THEN Supersede(rows[i], tx[p].at)
                      ELSE rows[i]]
    BY DEF CommitInsert
  <1>2. /\ tx[p].id \notin DOMAIN rows /\ tx[p].at \in Nat /\ now \in Nat
        /\ \A i \in Retires(p) : Settled(rows[i], tx[p].at)
    BY <1>1 DEF IInv, TypeOK, Tx, InFlightOK
  <1>3. Retires(p) \subseteq DOMAIN rows
    BY <1>1, RetiresHeld
  <1>4. /\ DOMAIN rows' = DOMAIN rows \union {tx[p].id}
        /\ rows'[tx[p].id] = NewRow(p)
        /\ \A i \in DOMAIN rows : i \notin Retires(p) => rows'[i] = rows[i]
        /\ \A i \in Retires(p) : rows'[i] = Supersede(rows[i], tx[p].at)
    BY <1>1, <1>2, <1>3
  <1>5. \A i \in DOMAIN rows : rows[i] \in Row /\ BeliefTimeOf(rows[i], now)
    BY DEF IInv, TypeOK, BeliefTime
  <1>6. \A i \in Retires(p) : BelievedAt(rows'[i], t) <=> BelievedAt(rows[i], t)
    BY <1>2, <1>3, <1>4, <1>5, SupersedeBelief
  <1>7. NewRow(p).created = tx[p].at
    BY <1>1, NewRowFacts
  <1>8. ~ BelievedAt(rows'[tx[p].id], t)
    BY <1>2, <1>4, <1>7 DEF BelievedAt
  <1> QED
    BY <1>3, <1>4, <1>6, <1>8 DEF KeepsPast

LEMMA PickKeepsPast ==
  ASSUME IInv, NEW p \in Procs, CommitPick(p), NEW t \in Nat, t <= now
  PROVE  KeepsPast(t)
  <1>1. /\ tx[p].pc = "ready" /\ tx[p].cmd = "pick" /\ Confirmed(p)
        /\ rows' = [i \in DOMAIN rows |->
                      IF i \in Retires(p) THEN Supersede(rows[i], now + 1) ELSE rows[i]]
    BY DEF CommitPick
  <1>2. now \in Nat /\ \A i \in DOMAIN rows : rows[i] \in Row /\ BeliefTimeOf(rows[i], now)
    BY DEF IInv, TypeOK, BeliefTime
  <1>3. Retires(p) \subseteq DOMAIN rows
    BY <1>1, RetiresHeld
  <1>4. ASSUME NEW i \in Retires(p)
        PROVE  Settled(rows[i], now + 1)
    <2>1. i \in DOMAIN rows /\ rows[i].status = "active"
      BY <1>1, <1>3 DEF Retires, Confirmed, Active
    <2> QED
      BY <1>2, <2>1 DEF Settled, BeliefTimeOf, Row, Interval
  <1>5. \A i \in Retires(p) : BelievedAt(Supersede(rows[i], now + 1), t) <=> BelievedAt(rows[i], t)
    <2>1. now + 1 \in Nat /\ t < now + 1
      BY <1>2
    <2> QED
      BY <1>2, <1>3, <1>4, <2>1, SupersedeBelief
  <1> QED
    BY <1>1, <1>3, <1>5 DEF KeepsPast

LEMMA MarkKeepsPast ==
  ASSUME IInv, NEW p \in Procs, CommitMark(p), NEW t \in Nat, t <= now
  PROVE  KeepsPast(t)
  <1>1. /\ rows' = [i \in DOMAIN rows |->
                      IF i \notin tx[p].group THEN rows[i]
                      ELSE IF tx[p].cmd = "mark" THEN Mark(rows[i], tx[p].to, now + 1)
                      ELSE HandUpdate(rows[i], tx[p].to, now + 1)]
    BY DEF CommitMark
  <1>2. /\ now \in Nat /\ tx[p].to \in Statuses
        /\ \A i \in DOMAIN rows : rows[i] \in Row /\ BeliefTimeOf(rows[i], now)
    BY DEF IInv, TypeOK, BeliefTime, Tx
  <1>3. /\ DOMAIN rows' = DOMAIN rows
        /\ \A i \in DOMAIN rows :
             rows'[i] = rows[i] \/ rows'[i] = Mark(rows[i], tx[p].to, now + 1)
    BY <1>1, <1>2, HandUpdateRow
  <1>4. \A i \in DOMAIN rows :
          BelievedAt(Mark(rows[i], tx[p].to, now + 1), t) <=> BelievedAt(rows[i], t)
    BY <1>2, MarkBelief
  <1> QED
    BY <1>3, <1>4 DEF KeepsPast

\* What as_of answers for an instant before every insert in flight is final.
THEOREM AsOfStableCorrect == Spec => AsOfStable
  <1>1. ASSUME IInv, [Next]_vars, NEW t \in 0..now,
               \A p \in Procs : tx[p].pc = "learned" => t < tx[p].at
        PROVE  AsOf(t)' = AsOf(t)
    <2>1. t \in Nat /\ t <= now
      BY <1>1 DEF IInv, TypeOK
    <2>2. CASE rows' = rows
      BY <2>2 DEF AsOf, BelievedAt
    <2>3. ASSUME NEW p \in Procs, CommitInsert(p)
          PROVE  KeepsPast(t)
      <3>1. t < tx[p].at
        BY <1>1, <2>3 DEF CommitInsert
      <3> QED
        BY <1>1, <2>1, <2>3, <3>1, InsertKeepsPast
    <2>4. ASSUME NEW p \in Procs, CommitPick(p) \/ CommitMark(p)
          PROVE  KeepsPast(t)
      BY <1>1, <2>1, <2>4, PickKeepsPast, MarkKeepsPast
    <2>5. KeepsPast(t) => AsOf(t)' = AsOf(t)
      BY DEF KeepsPast, AsOf, BelievedAt
    <2> QED
      BY <1>1, <2>2, <2>3, <2>4, <2>5, OnlyCommitsWrite
  <1>2. IInv /\ [Next]_vars =>
          \A t \in 0..now :
             (\A p \in Procs : tx[p].pc = "learned" => t < tx[p].at) => AsOf(t)' = AsOf(t)
    BY <1>1
  <1> QED
    BY <1>2, SpecInv, PTL DEF Spec, AsOfStable

-----------------------------------------------------------------------------
(* Ownership *)

\* No step loses a row or changes its author.
KeepsAuthors ==
  /\ DOMAIN rows \subseteq DOMAIN rows'
  /\ \A i \in DOMAIN rows : rows'[i].author = rows[i].author

LEMMA RowAuthors ==
  ASSUME NEW r \in Row, NEW st \in Statuses, NEW t \in Nat
  PROVE  /\ Supersede(r, t).author = r.author
         /\ Mark(r, st, t).author = r.author
         /\ HandUpdate(r, st, t).author = r.author
  BY DEF Supersede, Mark, HandUpdate, KeepBeliefTime, Row

LEMMA StepKeepsAuthors ==
  ASSUME IInv, [Next]_vars
  PROVE  KeepsAuthors
  <1>1. \A i \in DOMAIN rows : rows[i] \in Row
    BY DEF IInv, TypeOK
  <1>2. now \in Nat
    BY DEF IInv, TypeOK
  <1>3. ASSUME NEW p \in Procs, CommitInsert(p) PROVE KeepsAuthors
    <2>1. tx[p].at \in Nat /\ tx[p].id \notin DOMAIN rows
      BY <1>3 DEF CommitInsert, IInv, TypeOK, Tx, InFlightOK
    <2>2. \A i \in DOMAIN rows : Supersede(rows[i], tx[p].at).author = rows[i].author
      BY <1>1, <2>1, RowAuthors DEF Statuses
    <2>3. /\ DOMAIN rows' = DOMAIN rows \union {tx[p].id}
          /\ \A i \in DOMAIN rows :
               rows'[i] = rows[i] \/ rows'[i] = Supersede(rows[i], tx[p].at)
      BY <1>3, <2>1 DEF CommitInsert
    <2> QED
      BY <2>2, <2>3 DEF KeepsAuthors
  <1>4. ASSUME NEW p \in Procs, CommitPick(p) PROVE KeepsAuthors
    <2>1. \A i \in DOMAIN rows : Supersede(rows[i], now + 1).author = rows[i].author
      BY <1>1, <1>2, RowAuthors DEF Statuses
    <2>2. /\ DOMAIN rows' = DOMAIN rows
          /\ \A i \in DOMAIN rows :
               rows'[i] = rows[i] \/ rows'[i] = Supersede(rows[i], now + 1)
      BY <1>4 DEF CommitPick
    <2> QED
      BY <2>1, <2>2 DEF KeepsAuthors
  <1>5. ASSUME NEW p \in Procs, CommitMark(p) PROVE KeepsAuthors
    <2>1. tx[p].to \in Statuses
      BY DEF IInv, TypeOK, Tx
    <2>2. \A i \in DOMAIN rows : /\ Mark(rows[i], tx[p].to, now + 1).author = rows[i].author
                                 /\ HandUpdate(rows[i], tx[p].to, now + 1).author = rows[i].author
      BY <1>1, <1>2, <2>1, RowAuthors
    <2>3. /\ DOMAIN rows' = DOMAIN rows
          /\ \A i \in DOMAIN rows :
               \/ rows'[i] = rows[i]
               \/ rows'[i] = Mark(rows[i], tx[p].to, now + 1)
               \/ rows'[i] = HandUpdate(rows[i], tx[p].to, now + 1)
      BY <1>5 DEF CommitMark
    <2> QED
      BY <2>2, <2>3 DEF KeepsAuthors
  <1>6. rows' = rows => KeepsAuthors
    BY DEF KeepsAuthors
  <1> QED
    BY <1>3, <1>4, <1>5, <1>6, OnlyCommitsWrite

\* A command just issued: only a page rebuild has looked at rows' authors.
Unread(t) ==
  /\ t.pc # "learned"
  /\ t.cmd = "page" => \A i \in t.group : i \in DOMAIN rows /\ rows[i].author = t.who

LEMMA IssueReads ==
  ASSUME IInv, NEW p \in Procs, Issues(p)
  PROVE  \E t : Unread(t) /\ tx' = [tx EXCEPT ![p] = t]
  <1> SUFFICES ASSUME NEW a \in Authors,
                      \/ \E au \in Audiences : BeginWrite(p, a, au)
                      \/ \E i \in DOMAIN rows, au \in Audiences : BeginSupersede(p, a, i, au)
                      \/ \E i \in DOMAIN rows, st \in Statuses : BeginMark(p, a, i, st)
                      \/ \E i \in DOMAIN rows, st \in Statuses : BeginHandUpdate(p, a, i, st)
                      \/ \E G \in SUBSET DOMAIN rows : BeginVerdict(p, a, "merge", G, 0)
                      \/ \E G \in SUBSET DOMAIN rows, w \in DOMAIN rows :
                           BeginVerdict(p, a, "pick", G, w)
                      \/ \E r \in 1..Len(queue) : BeginApprove(p, a, r)
                      \/ \E pr \in Projects : BeginPage(p, a, pr)
               PROVE  \E t : Unread(t) /\ tx' = [tx EXCEPT ![p] = t]
    BY DEF Issues
  <1>1. ASSUME NEW act \in {"merge", "pick", "derive"}, NEW G, NEW w, NEW r,
               Begin(p, act, Verdict(a, act, G, w, r))
        PROVE  \E t : Unread(t) /\ tx' = [tx EXCEPT ![p] = t]
    <2> DEFINE t == Verdict(a, act, G, w, r)
    <2>1. t.pc # "learned" /\ t.cmd = act
      BY DEF Verdict
    <2>2. tx' = [tx EXCEPT ![p] = t]
      BY <1>1 DEF Begin, Issue
    <2> HIDE DEF t
    <2> QED
      BY <2>1, <2>2 DEF Unread
  <1>2. CASE \E au \in Audiences : BeginWrite(p, a, au)
    <2> PICK au \in Audiences : BeginWrite(p, a, au)
      BY <1>2
    <2> DEFINE t == [Idle EXCEPT !.pc = "ready", !.cmd = "write", !.who = a,
                                 !.scope = au[1], !.project = au[2]]
    <2>1. t.pc = "ready" /\ t.cmd = "write"
      BY DEF Idle
    <2>2. tx' = [tx EXCEPT ![p] = t]
      BY DEF BeginWrite, Begin, Issue
    <2> HIDE DEF t
    <2> QED
      BY <2>1, <2>2 DEF Unread
  <1>3. CASE \E i \in DOMAIN rows, au \in Audiences : BeginSupersede(p, a, i, au)
    <2> PICK i \in DOMAIN rows, au \in Audiences : BeginSupersede(p, a, i, au)
      BY <1>3
    <2> DEFINE t == [Idle EXCEPT !.pc = "lock", !.cmd = "supersede", !.who = a,
                                 !.group = {i}, !.scope = au[1], !.project = au[2]]
    <2>1. t.pc = "lock" /\ t.cmd = "supersede"
      BY DEF Idle
    <2>2. tx' = [tx EXCEPT ![p] = t]
      BY DEF BeginSupersede, Begin, Issue
    <2> HIDE DEF t
    <2> QED
      BY <2>1, <2>2 DEF Unread
  <1>4. ASSUME NEW i \in DOMAIN rows, NEW st \in Statuses,
               BeginMark(p, a, i, st) \/ BeginHandUpdate(p, a, i, st)
        PROVE  \E t : Unread(t) /\ tx' = [tx EXCEPT ![p] = t]
    <2> DEFINE m == [Idle EXCEPT !.pc = "lock", !.cmd = "mark", !.who = a,
                                 !.group = {i}, !.to = st]
               h == [Idle EXCEPT !.pc = "lock", !.cmd = "hand", !.who = a,
                                 !.group = {i}, !.to = st]
    <2>1. m.pc = "lock" /\ m.cmd = "mark" /\ h.pc = "lock" /\ h.cmd = "hand"
      BY DEF Idle
    <2>2. tx' = [tx EXCEPT ![p] = m] \/ tx' = [tx EXCEPT ![p] = h]
      BY <1>4 DEF BeginMark, BeginHandUpdate, Begin, Issue
    <2> HIDE DEF m, h
    <2> QED
      BY <2>1, <2>2 DEF Unread
  <1>5. CASE \E G \in SUBSET DOMAIN rows : BeginVerdict(p, a, "merge", G, 0)
    BY <1>1, <1>5 DEF BeginVerdict
  <1>6. CASE \E G \in SUBSET DOMAIN rows, w \in DOMAIN rows : BeginVerdict(p, a, "pick", G, w)
    BY <1>1, <1>6 DEF BeginVerdict
  <1>7. CASE \E r \in 1..Len(queue) : BeginApprove(p, a, r)
    <2> PICK r \in 1..Len(queue) : BeginApprove(p, a, r)
      BY <1>7
    <2>1. TypeOK /\ queue[r] \in Review
      BY ElementOfSeq DEF IInv, TypeOK
    <2>2. queue[r].action \in {"merge", "pick", "derive"}
      BY <2>1 DEF Review
    <2> QED
      BY <1>1, <2>2 DEF BeginApprove
  <1>8. CASE \E pr \in Projects : BeginPage(p, a, pr)
    <2> PICK pr \in Projects : BeginPage(p, a, pr)
      BY <1>8
    <2> DEFINE c == IF PriorPages(a, pr) = {} THEN "ready" ELSE "lock"
               t == [Idle EXCEPT !.pc = c, !.cmd = "page", !.who = a,
                                 !.group = PriorPages(a, pr),
                                 !.scope = "project", !.project = pr]
    <2>1. tx' = [tx EXCEPT ![p] = t]
      BY DEF BeginPage, Begin, Issue
    <2>2. c # "learned"
      OBVIOUS
    <2> HIDE DEF c
    <2>3. t.pc = c /\ t.who = a /\ t.group = PriorPages(a, pr)
      BY DEF Idle
    <2> HIDE DEF t
    <2> QED
      BY <2>1, <2>2, <2>3 DEF Unread, PriorPages
  <1> QED
    BY <1>2, <1>3, <1>4, <1>5, <1>6, <1>7, <1>8

LEMMA OwnersStep ==
  ASSUME IInv, OwnersOK, [Next]_vars
  PROVE  OwnersOK'
  <1>1. /\ tx \in [Procs -> Tx]
        /\ \A q \in Procs : tx[q].group \subseteq DOMAIN rows
    BY DEF IInv, TypeOK, LocksOK
  <1>2. \A i \in DOMAIN rows : rows'[i].author = rows[i].author
    BY StepKeepsAuthors DEF KeepsAuthors
  \* It is enough that the transaction that moved is still right about authors.
  <1>3. ASSUME NEW p \in Procs, NEW t, tx' = [tx EXCEPT ![p] = t],
               t.cmd = "page" \/ (t.pc = "learned" /\ t.cmd \in {"supersede", "merge"})
                 => \A i \in t.group : i \in DOMAIN rows /\ rows[i].author = t.who
        PROVE  OwnersOK'
    <2>1. tx'[p] = t /\ \A q \in Procs \ {p} : tx'[q] = tx[q]
      BY <1>1, <1>3
    <2> QED
      BY <1>1, <1>2, <1>3, <2>1 DEF OwnersOK
  <1>4. ASSUME NEW p \in Procs, Issues(p) PROVE OwnersOK'
    BY <1>3, <1>4, IssueReads DEF Unread
  <1>5. ASSUME NEW p \in Procs, End(p) PROVE OwnersOK'
    <2>1. Idle.group = {}
      BY IdleFacts
    <2> QED
      BY <1>3, <1>5, <2>1 DEF End
  <1>6. ASSUME NEW p \in Procs, NEW i \in tx[p].group, LockRow(p, i) PROVE OwnersOK'
    <2> DEFINE c == IF tx[p].group = tx[p].held \union {i} THEN "ready" ELSE "lock"
               t == [tx[p] EXCEPT !.held = @ \union {i}, !.pc = c]
    <2>1. tx' = [tx EXCEPT ![p] = t]
      BY <1>1, <1>6 DEF LockRow
    <2>2. c # "learned"
      OBVIOUS
    <2> HIDE DEF c
    <2>3. t.cmd = tx[p].cmd /\ t.group = tx[p].group /\ t.who = tx[p].who /\ t.pc = c
      BY <1>1 DEF Tx
    <2> HIDE DEF t
    <2>4. tx[p].cmd = "page" => \A j \in tx[p].group : j \in DOMAIN rows /\ rows[j].author = tx[p].who
      BY <1>1 DEF OwnersOK
    <2> QED
      BY <1>3, <2>1, <2>2, <2>3, <2>4
  <1>7. ASSUME NEW p \in Procs, Learn(p) PROVE OwnersOK'
    <2> DEFINE t == Learned(tx[p], nextId, now + 1)
    <2>1. tx' = [tx EXCEPT ![p] = t]
      BY <1>7 DEF Learn
    <2>2. t.cmd = tx[p].cmd /\ t.group = tx[p].group /\ t.who = tx[p].who
      BY <1>1 DEF Learned, Tx
    <2> HIDE DEF t
    <2>3. tx[p].cmd = "page" => \A j \in tx[p].group : j \in DOMAIN rows /\ rows[j].author = tx[p].who
      BY <1>1 DEF OwnersOK
    <2>4. tx[p].cmd \in {"supersede", "merge"} =>
            \A j \in tx[p].group : j \in DOMAIN rows /\ rows[j].author = tx[p].who
      BY <1>1, <1>7 DEF Learn, Confirmed
    <2> QED
      BY <1>3, <2>1, <2>2, <2>3, <2>4
  <1>8. CASE tx' = tx
    BY <1>1, <1>2, <1>8 DEF OwnersOK
  <1>9. ASSUME NEW p \in Procs, Step(p) PROVE OwnersOK'
    BY <1>5, <1>6, <1>7, <1>9 DEF Step, Refuse, CommitInsert, CommitPick, CommitMark
  <1>10. Reviews => tx' = tx
    BY DEF Reviews, ReviewAdd, ApproveRefused, ReviewReject
  <1> QED
    BY <1>4, <1>5, <1>8, <1>9, <1>10 DEF Next, Abort, Quiet, vars

\* A row changes only by a command of its own author, at the commit that ends it.
THEOREM OwnRowsOnlyCorrect == Spec => OwnRowsOnly
  <1>1. Init => OwnersOK
    BY IdleFacts DEF Init, OwnersOK
  <1>2. ASSUME IInv, OwnersOK, [Next]_vars, NEW i \in DOMAIN rows, rows'[i] # rows[i]
        PROVE  \E p \in Procs : tx'[p] # tx[p] /\ tx[p].who = rows[i].author
    <2>1. PICK p \in Procs : CommitInsert(p) \/ CommitPick(p) \/ CommitMark(p)
      BY <1>2, OnlyCommitsWrite
    <2>2. tx'[p] # tx[p]
      <3>1. tx[p].pc # "idle" /\ tx'[p] = Idle
        BY <1>2, <2>1 DEF CommitInsert, CommitPick, CommitMark, End, IInv, TypeOK
      <3> QED
        BY <3>1, IdleFacts
    <2>3. CASE CommitInsert(p)
      <3>1. i \in Retires(p) /\ tx[p].pc = "learned"
        BY <1>2, <2>3 DEF CommitInsert, IInv, InFlightOK
      <3>2. /\ i \in tx[p].group
            /\ tx[p].cmd = "page" \/ tx[p].cmd \in {"supersede", "merge"}
        BY <1>2, <3>1 DEF Retires, IInv, InFlightOK, Inserting
      <3> QED
        BY <1>2, <2>2, <3>1, <3>2 DEF OwnersOK
    <2>4. CASE CommitPick(p)
      BY <1>2, <2>2, <2>4 DEF CommitPick, Retires, Confirmed
    <2>5. CASE CommitMark(p)
      BY <1>2, <2>2, <2>5 DEF CommitMark, Confirmed
    <2> QED
      BY <2>1, <2>3, <2>4, <2>5
  <1>3. IInv /\ OwnersOK /\ [Next]_vars =>
          \A i \in DOMAIN rows : rows'[i] # rows[i] =>
             \E p \in Procs : tx'[p] # tx[p] /\ tx[p].who = rows[i].author
    BY <1>2
  <1> QED
    BY <1>1, <1>3, SpecInv, OwnersStep, PTL DEF Spec, OwnRowsOnly

\* A supersede verdict that retires a loser leaves the winner it kept active: the
\* winner is among the rows whose status is read again under their locks.
THEOREM WinnerStaysCorrect == Spec => WinnerStays
  <1>1. ASSUME IInv, [Next]_vars, NEW p \in Procs, tx[p].cmd = "pick",
               NEW i \in tx[p].group, tx'[p] # tx[p], rows'[i] # rows[i]
        PROVE  rows'[tx[p].winner].status = "active"
    <2>1. PICK q \in Procs : CommitInsert(q) \/ CommitPick(q) \/ CommitMark(q)
      BY <1>1, OnlyCommitsWrite
    <2>2. q = p
      BY <1>1, <2>1 DEF CommitInsert, CommitPick, CommitMark, End, IInv, TypeOK
    <2>3. CommitPick(p)
      <3>1. ~ CommitInsert(p)
        BY <1>1 DEF CommitInsert, IInv, InFlightOK, Inserting
      <3>2. ~ CommitMark(p)
        BY <1>1 DEF CommitMark
      <3> QED
        BY <2>1, <2>2, <3>1, <3>2
    <2>4. /\ tx[p].winner \in tx[p].group
          /\ tx[p].winner \in DOMAIN rows
          /\ rows[tx[p].winner].status = "active"
      BY <1>1, <2>3 DEF CommitPick, Confirmed, Active, IInv, LocksOK
    <2>5. rows'[tx[p].winner] = rows[tx[p].winner]
      BY <1>1, <2>3, <2>4 DEF CommitPick, Retires
    <2> QED
      BY <2>4, <2>5
  <1>2. IInv /\ [Next]_vars =>
          \A p \in Procs :
            tx[p].cmd = "pick" /\ (\E i \in tx[p].group : tx'[p] # tx[p] /\ rows'[i] # rows[i])
              => rows'[tx[p].winner].status = "active"
    BY <1>1
  <1> QED
    BY <1>2, SpecInv, PTL DEF Spec, WinnerStays
=============================================================================
