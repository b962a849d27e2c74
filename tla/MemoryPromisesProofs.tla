------------------------ MODULE MemoryPromisesProofs ------------------------
(***************************************************************************)
(* Proofs of what the memory store promises beside belief time, for every  *)
(* number of sessions, authors, projects and commands: its row locks never *)
(* close a cycle, what must happen once happens once, merging and deriving *)
(* never publish, and the locks beside the rows deadlock in the ways known *)
(* and in no other.                                                        *)
(***************************************************************************)
EXTENDS Store, MemoryStoreProofs, FiniteSetTheorems, WellFoundedInduction

\* A transaction locks its rows from the least up, and stops when it holds them all.
InOrder(t) ==
  /\ t.pc = "lock" => t.group # t.held
  /\ \A i \in t.held, j \in t.group \ t.held : i < j

LockOrder == \A p \in Procs : InOrder(tx[p])

Pending(r) == r \in 1..Len(queue) /\ queue[r].status = "pending"

Decided(r) == r \in 1..Len(queue) /\ queue[r].status # "pending"

\* A review is decided once a row says it was applied, and pending while one transaction claims it.
AppliedOK == \A i \in DOMAIN rows : rows[i].review # 0 => Decided(rows[i].review)

ClaimsOK ==
  \A p \in Procs : tx[p].review # 0 =>
    /\ Pending(tx[p].review)
    /\ \A q \in Procs \ {p} : tx[q].review # tx[p].review

\* An active page that no reactivation brought back.
Unrevived(i, a, pr) ==
  /\ Active(i) /\ rows[i].kind = "page" /\ rows[i].author = a /\ rows[i].project = pr
  /\ rows[i].intervals = {}

\* An author's rebuilds run one at a time, and each has found every such page.
RebuildsOK ==
  \A p \in Procs : tx[p].cmd = "page" =>
    /\ \A q \in Procs \ {p} : ~ (tx[q].cmd = "page" /\ tx[q].who = tx[p].who)
    /\ \A i : Unrevived(i, tx[p].who, tx[p].project) => i \in tx[p].group

\* The same of the reviews and rows a step leaves.
DecidedNext(r) == r \in 1..Len(queue') /\ queue'[r].status # "pending"

PendingNext(r) == r \in 1..Len(queue') /\ queue'[r].status = "pending"

UnrevivedNext(i, a, pr) ==
  /\ i \in DOMAIN rows' /\ rows'[i].status = "active" /\ rows'[i].kind = "page"
  /\ rows'[i].author = a /\ rows'[i].project = pr /\ rows'[i].intervals = {}

OnceInv == AppliedOK /\ ClaimsOK /\ RebuildsOK /\ OnceOnly

-----------------------------------------------------------------------------
(* What a command finds when it is issued *)

AsIssued(t) ==
  /\ t.pc \in {"lock", "ready"} /\ t.held = {} /\ (t.pc = "lock" => t.group # {})
  /\ t.cmd \in {"mark", "hand"} => \E i : t.group = {i}
  /\ t.review # 0 => Pending(t.review) /\ \A q \in Procs : tx[q].review # t.review
  /\ t.cmd = "page" =>
       /\ \A q \in Procs : ~ (tx[q].cmd = "page" /\ tx[q].who = t.who)
       /\ PriorPages(t.who, t.project) \subseteq t.group

IssueLeaves(p) ==
  /\ rows' = rows /\ queue' = queue /\ nextId' = nextId /\ now' = now
  /\ tx[p].pc = "idle" /\ begun < MaxTx /\ begun' = begun + 1
  /\ \E t : AsIssued(t) /\ tx' = [tx EXCEPT ![p] = t]

LEMMA IssueStarts ==
  ASSUME IInv, NEW p \in Procs, Issues(p)
  PROVE  IssueLeaves(p)
  <1> PICK a \in Authors :
         \/ \E au \in Audiences : BeginWrite(p, a, au)
         \/ \E i \in DOMAIN rows, au \in Audiences : BeginSupersede(p, a, i, au)
         \/ \E i \in DOMAIN rows, st \in Statuses : BeginMark(p, a, i, st)
         \/ \E i \in DOMAIN rows, st \in Statuses : BeginHandUpdate(p, a, i, st)
         \/ \E G \in SUBSET DOMAIN rows : BeginVerdict(p, a, "merge", G, 0)
         \/ \E G \in SUBSET DOMAIN rows, w \in DOMAIN rows : BeginVerdict(p, a, "pick", G, w)
         \/ \E r \in 1..Len(queue) : BeginApprove(p, a, r)
         \/ \E pr \in Projects : BeginPage(p, a, pr)
    BY DEF Issues
  <1>1. ASSUME NEW c, NEW t, Begin(p, c, t), AsIssued(t)
        PROVE  IssueLeaves(p)
    BY <1>1 DEF Begin, Issue, IssueLeaves
  \* A merge, a pick or a derivation, of a review or not.
  <1>2. ASSUME NEW act \in {"merge", "pick", "derive"}, NEW G, NEW w, NEW r,
               Eligible(a, act, G), Begin(p, act, Verdict(a, act, G, w, r)),
               r # 0 => Pending(r) /\ \A q \in Procs : tx[q].review # r
        PROVE  IssueLeaves(p)
    <2> DEFINE t == Verdict(a, act, G, w, r)
    <2>1. t.pc \in {"lock", "ready"} /\ t.held = {} /\ t.group = G /\ t.review = r /\ t.cmd = act
      BY DEF Verdict
    <2>2. act # "page" /\ G # {}
      BY <1>2, FS_EmptySet DEF Eligible
    <2> HIDE DEF t
    <2>3. AsIssued(t)
      BY <1>2, <2>1, <2>2 DEF AsIssued
    <2> QED
      BY <1>1, <1>2, <2>3 DEF t
  <1>3. CASE \/ \E G \in SUBSET DOMAIN rows : BeginVerdict(p, a, "merge", G, 0)
             \/ \E G \in SUBSET DOMAIN rows, w \in DOMAIN rows : BeginVerdict(p, a, "pick", G, w)
    BY <1>2, <1>3 DEF BeginVerdict
  <1>4. CASE \E r \in 1..Len(queue) : BeginApprove(p, a, r)
    <2> PICK r \in 1..Len(queue) : BeginApprove(p, a, r)
      BY <1>4
    <2>1. queue[r] \in Review
      BY ElementOfSeq DEF IInv, TypeOK
    <2>2. queue[r].action \in {"merge", "pick", "derive"}
      BY <2>1 DEF Review
    <2>3. Pending(r) /\ \A q \in Procs : tx[q].review # r
      BY DEF BeginApprove, Claimable, Pending, PendingNext
    <2> QED
      BY <1>2, <2>2, <2>3 DEF BeginApprove
  \* The commands that name one row, or none.
  <1>5. CASE \E au \in Audiences : BeginWrite(p, a, au)
    <2> PICK au \in Audiences : BeginWrite(p, a, au)
      BY <1>5
    <2> DEFINE t == [Idle EXCEPT !.pc = "ready", !.cmd = "write", !.who = a,
                                 !.scope = au[1], !.project = au[2]]
    <2>1. t.held = {} /\ t.pc = "ready" /\ t.review = 0 /\ t.cmd = "write"
      BY DEF Idle
    <2>2. Begin(p, "write", t)
      BY DEF BeginWrite
    <2> HIDE DEF t
    <2> QED
      BY <1>1, <2>1, <2>2 DEF AsIssued
  <1>6. CASE \E i \in DOMAIN rows, au \in Audiences : BeginSupersede(p, a, i, au)
    <2> PICK i \in DOMAIN rows, au \in Audiences : BeginSupersede(p, a, i, au)
      BY <1>6
    <2> DEFINE t == [Idle EXCEPT !.pc = "lock", !.cmd = "supersede", !.who = a,
                                 !.group = {i}, !.scope = au[1], !.project = au[2]]
    <2>1. t.pc = "lock" /\ t.held = {} /\ t.group = {i} /\ t.review = 0 /\ t.cmd = "supersede"
      BY DEF Idle
    <2>2. Begin(p, "supersede", t)
      BY DEF BeginSupersede
    <2> HIDE DEF t
    <2> QED
      BY <1>1, <2>1, <2>2 DEF AsIssued
  <1>7. ASSUME NEW i \in DOMAIN rows, NEW st \in Statuses,
               BeginMark(p, a, i, st) \/ BeginHandUpdate(p, a, i, st)
        PROVE  IssueLeaves(p)
    <2> DEFINE m == [Idle EXCEPT !.pc = "lock", !.cmd = "mark", !.who = a, !.group = {i}, !.to = st]
               h == [Idle EXCEPT !.pc = "lock", !.cmd = "hand", !.who = a, !.group = {i}, !.to = st]
    <2>1. /\ m.pc = "lock" /\ m.held = {} /\ m.group = {i} /\ m.review = 0 /\ m.cmd = "mark"
          /\ h.pc = "lock" /\ h.held = {} /\ h.group = {i} /\ h.review = 0 /\ h.cmd = "hand"
      BY DEF Idle
    <2>2. Begin(p, "mark", m) \/ Begin(p, "hand", h)
      BY <1>7 DEF BeginMark, BeginHandUpdate
    <2> HIDE DEF m, h
    <2>3. AsIssued(m) /\ AsIssued(h)
      BY <2>1 DEF AsIssued
    <2> QED
      BY <1>1, <2>2, <2>3
  <1>8. CASE \E pr \in Projects : BeginPage(p, a, pr)
    <2> PICK pr \in Projects : BeginPage(p, a, pr)
      BY <1>8
    <2> DEFINE G == PriorPages(a, pr)
               c == IF G = {} THEN "ready" ELSE "lock"
               t == [Idle EXCEPT !.pc = c, !.cmd = "page", !.who = a, !.group = G,
                                 !.scope = "project", !.project = pr]
    <2>1. /\ Begin(p, "page", t)
          /\ \A q \in Procs : ~ (tx[q].cmd = "page" /\ tx[q].who = a)
      BY DEF BeginPage
    <2>2. c \in {"lock", "ready"} /\ (c = "lock" => G # {})
      OBVIOUS
    <2> HIDE DEF c
    <2>3. /\ t.held = {} /\ t.pc = c /\ t.group = G /\ t.review = 0 /\ t.cmd = "page"
          /\ t.who = a /\ t.project = pr
      BY DEF Idle
    <2> HIDE DEF t
    <2>4. AsIssued(t)
      BY <2>1, <2>2, <2>3 DEF AsIssued
    <2> QED
      BY <1>1, <2>1, <2>4
  <1> QED
    BY <1>3, <1>4, <1>5, <1>6, <1>7, <1>8

-----------------------------------------------------------------------------
(* Locks in order *)

LEMMA LockOrderStep ==
  ASSUME IInv, LockOrder, [Next]_vars
  PROVE  LockOrder'
  <1>1. tx \in [Procs -> Tx]
    BY DEF IInv, TypeOK
  <1>2. ASSUME NEW p \in Procs, NEW t, tx' = [tx EXCEPT ![p] = t], InOrder(t)
        PROVE  LockOrder'
    <2>1. \A q \in Procs : InOrder(tx'[q])
      BY <1>1, <1>2 DEF LockOrder
    <2> QED
      BY <2>1 DEF LockOrder, InOrder
  <1>3. ASSUME NEW p \in Procs, Issues(p) PROVE LockOrder'
    <2>1. PICK t : AsIssued(t) /\ tx' = [tx EXCEPT ![p] = t]
      BY <1>3, IssueStarts DEF IssueLeaves
    <2>2. InOrder(t)
      BY <2>1 DEF AsIssued, InOrder
    <2> QED
      BY <1>2, <2>1, <2>2
  <1>4. ASSUME NEW p \in Procs, End(p) PROVE LockOrder'
    <2>1. InOrder(Idle)
      BY DEF InOrder, Idle
    <2> QED
      BY <1>2, <1>4, <2>1 DEF End
  <1>5. ASSUME NEW p \in Procs, NEW i \in tx[p].group, LockRow(p, i) PROVE LockOrder'
    <2> DEFINE h == tx[p].held \union {i}
               c == IF tx[p].group = h THEN "ready" ELSE "lock"
               t == [tx[p] EXCEPT !.held = h, !.pc = c]
    <2>1. tx' = [tx EXCEPT ![p] = t]
      BY <1>1, <1>5 DEF LockRow
    <2>2. c = "lock" => tx[p].group # h
      OBVIOUS
    <2> HIDE DEF c
    <2>3. t.group = tx[p].group /\ t.held = h /\ t.pc = c
      BY <1>1 DEF Tx
    <2> HIDE DEF t
    <2>4. tx[p].group \subseteq Nat
      BY <1>1 DEF Tx
    <2>5. \A k \in h, j \in tx[p].group \ h : k < j
      BY <1>5, <2>4 DEF LockRow, IsNextLock, LockOrder, InOrder
    <2> HIDE DEF h
    <2> QED
      BY <1>2, <2>1, <2>2, <2>3, <2>5 DEF InOrder
  <1>6. ASSUME NEW p \in Procs, Learn(p) PROVE LockOrder'
    <2> DEFINE t == Learned(tx[p], nextId, now + 1)
    <2>1. tx' = [tx EXCEPT ![p] = t]
      BY <1>6 DEF Learn
    <2>2. t.group = tx[p].group /\ t.held = tx[p].held /\ t.pc = "learned"
      BY <1>1 DEF Learned, Tx
    <2> HIDE DEF t
    <2>3. InOrder(t)
      BY <2>2 DEF LockOrder, InOrder
    <2> QED
      BY <1>2, <2>1, <2>3
  <1>7. CASE tx' = tx
    BY <1>7 DEF LockOrder, InOrder
  <1>8. ASSUME NEW p \in Procs, Step(p) PROVE LockOrder'
    BY <1>4, <1>5, <1>6, <1>8 DEF Step, Refuse, CommitInsert, CommitPick, CommitMark
  <1>9. Reviews => tx' = tx
    BY DEF Reviews, ReviewAdd, ApproveRefused, ReviewReject
  <1> QED
    BY <1>3, <1>4, <1>7, <1>8, <1>9 DEF Next, Abort, Quiet, vars

\* A nonempty set of naturals has a least element.
LEMMA LeastNat ==
  ASSUME NEW T, T \subseteq Nat, T # {}
  PROVE  \E n \in T : \A m \in T : n <= m
  <1> DEFINE R == OpToRel(<, Nat)
  <1>1. IsWellFoundedOn(R, Nat)
    BY NatLessThanWellFounded
  <1> HIDE DEF R
  <1>2. PICK n \in T : \A m \in T : <<m, n>> \notin R
    BY <1>1, WFMin
  <1>3. \A m \in T : ~ (m < n)
    BY <1>2 DEF R, OpToRel
  <1> QED
    BY <1>3

\* A transaction that waits for a row waits for one, above all it holds.
LEMMA NextLockExists ==
  ASSUME IInv, LockOrder, NEW p \in Procs, tx[p].pc = "lock"
  PROVE  \E i \in tx[p].group : IsNextLock(i, p) /\ \A k \in tx[p].held : k < i
  <1> DEFINE left == tx[p].group \ tx[p].held
  <1>1. left \subseteq Nat /\ left # {}
    BY DEF IInv, TypeOK, Tx, LocksOK, LockOrder, InOrder
  <1> HIDE DEF left
  <1>2. PICK i \in left : \A j \in left : i <= j
    BY <1>1, LeastNat
  <1> QED
    BY <1>2 DEF left, IsNextLock, LockOrder, InOrder

\* Of a set of transactions that wait, the one whose next row is greatest waits for no other of them.
LEMMA OrderBreaksCycles ==
  ASSUME IInv, LockOrder
  PROVE  NoLockCycle
  <1> SUFFICES ASSUME NEW S \in (SUBSET Procs) \ {{}}, \A p \in S : tx[p].pc = "lock"
               PROVE  \E p \in S : \E i \in tx[p].group :
                        IsNextLock(i, p) /\ \A q \in S \ {p} : i \notin tx[q].held
    BY DEF NoLockCycle
  <1>1. /\ nextId \in Nat
        /\ \A p \in S : p \in Procs /\ \A i \in tx[p].group : i \in Nat /\ i < nextId
    BY DEF IInv, TypeOK, IdsOK, LocksOK
  <1> DEFINE T == {n \in Nat : \E p \in S : \E i \in tx[p].group : IsNextLock(i, p) /\ i + n = nextId}
  <1>2. ASSUME NEW p \in S, NEW i \in tx[p].group, IsNextLock(i, p)
        PROVE  nextId - i \in T
    <2>1. nextId - i \in Nat /\ i + (nextId - i) = nextId
      BY <1>1
    <2> QED
      BY <1>2, <2>1
  <1>3. T # {}
    <2>1. PICK p \in S : TRUE
      OBVIOUS
    <2>2. PICK i \in tx[p].group : IsNextLock(i, p)
      BY <1>1, NextLockExists
    <2> HIDE DEF T
    <2> QED
      BY <1>2, <2>2
  <1>4. PICK n \in T : \A m \in T : n <= m
    BY <1>3, LeastNat
  <1>5. PICK p \in S : \E i \in tx[p].group : IsNextLock(i, p) /\ i + n = nextId
    OBVIOUS
  <1>6. PICK i \in tx[p].group : IsNextLock(i, p) /\ i + n = nextId
    BY <1>5
  <1> HIDE DEF T
  <1>7. ASSUME NEW q \in S, i \in tx[q].held PROVE FALSE
    <2>1. PICK j \in tx[q].group : IsNextLock(j, q) /\ i < j
      BY <1>1, <1>7, NextLockExists
    <2>2. n <= nextId - j
      BY <1>2, <1>4, <2>1
    <2>3. i \in Nat /\ j \in Nat /\ n \in Nat
      BY <1>1, <1>4, <1>6 DEF T
    <2> QED
      BY <1>1, <1>6, <2>1, <2>2, <2>3
  <1> QED
    BY <1>6, <1>7

\* Row locks are taken in one order, so two appliers cannot deadlock (_apply of mem_ops.py).
THEOREM NoLockCycleCorrect == Spec => []NoLockCycle
  <1>1. Init => LockOrder
    BY DEF Init, LockOrder, InOrder, Idle
  <1> QED
    BY <1>1, SpecInv, LockOrderStep, OrderBreaksCycles, PTL DEF Spec

-----------------------------------------------------------------------------
(* Once and once only *)

\* What a step leaves of a row: its kind, owner and review, and that it was brought back.
Kept(r, s) ==
  /\ s.kind = r.kind /\ s.author = r.author /\ s.project = r.project /\ s.review = r.review
  /\ s.status = "active" /\ s.intervals = {} => r.status = "active" /\ r.intervals = {}

LEMMA SupersedeKept ==
  ASSUME NEW r \in Row, NEW t \in Nat
  PROVE  Kept(r, Supersede(r, t)) /\ Supersede(r, t).status # "active"
  BY DEF Kept, Supersede, KeepBeliefTime, Row

LEMMA MarkKept ==
  ASSUME NEW r \in Row, NEW n \in Nat, NEW st \in Statuses, BeliefTimeOf(r, n)
  PROVE  Kept(r, Mark(r, st, n + 1))
  <1>1. CASE st # "active"
    BY <1>1 DEF Kept, Mark, KeepBeliefTime, Row
  <1>2. CASE st = "active" /\ r.retired = Null
    BY <1>2 DEF Kept, Mark, KeepBeliefTime, Row, BeliefTimeOf, Null
  <1>3. CASE st = "active" /\ r.retired # Null
    <2>1. r.retired < n + 1
      BY DEF BeliefTimeOf, Row
    <2> DEFINE iv == [from |-> r.retired, to |-> n + 1]
               s == [r EXCEPT !.status = "active", !.retired = Null, !.intervals = @ \union {iv}]
    <2>2. Mark(r, st, n + 1) = s
      BY <1>3, <2>1 DEF Mark, KeepBeliefTime, Row, Null
    <2>3. /\ s.kind = r.kind /\ s.author = r.author /\ s.project = r.project /\ s.review = r.review
          /\ s.intervals # {}
      BY DEF Row
    <2> QED
      BY <2>2, <2>3 DEF Kept
  <1> QED
    BY <1>1, <1>2, <1>3

\* Apart from the row an insert commits, a step keeps what was once only.
LEMMA StepKeepsKinds ==
  ASSUME IInv, [Next]_vars
  PROVE  /\ DOMAIN rows \subseteq DOMAIN rows' /\ \A i \in DOMAIN rows : Kept(rows[i], rows'[i])
         /\ \A j \in DOMAIN rows' \ DOMAIN rows :
              \E p \in Procs : CommitInsert(p) /\ j = tx[p].id /\ rows'[j] = NewRow(p)
  <1>1. (\A i \in DOMAIN rows : rows[i] \in Row /\ BeliefTimeOf(rows[i], now)) /\ now \in Nat
    BY DEF IInv, TypeOK, BeliefTime
  <1>2. CASE rows' = rows
    BY <1>2 DEF Kept
  <1>3. ASSUME NEW p \in Procs, CommitInsert(p)
        PROVE  /\ DOMAIN rows \subseteq DOMAIN rows' /\ \A i \in DOMAIN rows : Kept(rows[i], rows'[i])
               /\ \A j \in DOMAIN rows' \ DOMAIN rows : j = tx[p].id /\ rows'[j] = NewRow(p)
    <2>1. tx[p].at \in Nat /\ tx[p].id \notin DOMAIN rows
      BY <1>3 DEF CommitInsert, IInv, TypeOK, Tx, InFlightOK
    <2>2. \A i \in DOMAIN rows : Kept(rows[i], Supersede(rows[i], tx[p].at))
      BY <1>1, <2>1, SupersedeKept
    <2>3. /\ DOMAIN rows' = DOMAIN rows \union {tx[p].id} /\ rows'[tx[p].id] = NewRow(p)
          /\ \A i \in DOMAIN rows : rows'[i] \in {rows[i], Supersede(rows[i], tx[p].at)}
      BY <1>3, <2>1 DEF CommitInsert
    <2> QED
      BY <2>2, <2>3 DEF Kept
  <1>4. ASSUME NEW p \in Procs, CommitPick(p)
        PROVE  DOMAIN rows' = DOMAIN rows /\ \A i \in DOMAIN rows : Kept(rows[i], rows'[i])
    <2>1. \A i \in DOMAIN rows : Kept(rows[i], Supersede(rows[i], now + 1))
      BY <1>1, SupersedeKept
    <2>2. /\ DOMAIN rows' = DOMAIN rows
          /\ \A i \in DOMAIN rows : rows'[i] \in {rows[i], Supersede(rows[i], now + 1)}
      BY <1>4 DEF CommitPick
    <2> QED
      BY <2>1, <2>2 DEF Kept
  <1>5. ASSUME NEW p \in Procs, CommitMark(p)
        PROVE  DOMAIN rows' = DOMAIN rows /\ \A i \in DOMAIN rows : Kept(rows[i], rows'[i])
    <2>1. tx[p].to \in Statuses
      BY DEF IInv, TypeOK, Tx
    <2>2. \A i \in DOMAIN rows : /\ Kept(rows[i], Mark(rows[i], tx[p].to, now + 1))
                                 /\ Kept(rows[i], HandUpdate(rows[i], tx[p].to, now + 1))
      BY <1>1, <2>1, MarkKept, HandUpdateRow
    <2>3. /\ DOMAIN rows' = DOMAIN rows
          /\ \A i \in DOMAIN rows :
               rows'[i] \in {rows[i], Mark(rows[i], tx[p].to, now + 1), HandUpdate(rows[i], tx[p].to, now + 1)}
      BY <1>5 DEF CommitMark
    <2> QED
      BY <2>2, <2>3 DEF Kept
  <1> QED
    BY <1>2, <1>3, <1>4, <1>5, OnlyCommitsWrite

\* What a step does to the review queue and to the claims on it.
QueueKeeps(S) ==
  /\ \A r : Decided(r) => DecidedNext(r)
  /\ \A r : Pending(r) /\ r \notin S => PendingNext(r)

LEMMA DecideKeeps ==
  ASSUME queue \in Seq(Review), NEW r, NEW st \in {"approved", "rejected"}, NEW ok \in BOOLEAN,
         queue' = Decide(r, st, ok)
  PROVE  QueueKeeps({r}) /\ (r \in 1..Len(queue) => DecidedNext(r))
  <1>1. queue' \in Seq(Review) /\ DOMAIN queue' = 1..Len(queue)
    BY DecideType DEF Decide
  <1>2. Len(queue') = Len(queue)
    BY <1>1, LenProperties
  <1>3. \A k \in 1..Len(queue) : queue'[k].status = IF k = r THEN st ELSE queue[k].status
    <2> TAKE k \in 1..Len(queue)
    <2>1. queue[k] \in Review
      BY ElementOfSeq
    <2> QED
      BY <2>1 DEF Decide, Review
  <1> QED
    BY <1>2, <1>3 DEF QueueKeeps, Decided, DecidedNext, Pending, PendingNext

LEMMA AppendKeeps ==
  ASSUME queue \in Seq(Review), NEW e, queue' = Append(queue, e)
  PROVE  QueueKeeps({})
  <1>1. Len(queue') = Len(queue) + 1 /\ \A k \in 1..Len(queue) : queue'[k] = queue[k]
    BY AppendProperties
  <1>2. Len(queue) \in Nat
    BY LenProperties
  <1> QED
    BY <1>1, <1>2 DEF QueueKeeps, Decided, DecidedNext, Pending, PendingNext

\* What is known of the reviews after a step that decides those in S.
QueueMoves == \E S : QueueKeeps(S) /\ \A q \in Procs : tx'[q].review # 0 => tx'[q].review \notin S

LEMMA EndKeeps ==
  ASSUME IInv, ClaimsOK, NEW p \in Procs, End(p), NEW ok \in BOOLEAN,
         queue' = queue \/ queue' = Resolve(p, ok)
  PROVE  /\ QueueMoves
         /\ queue' = Resolve(p, ok) /\ tx[p].review # 0 => DecidedNext(tx[p].review)
  <1>1. queue \in Seq(Review) /\ tx \in [Procs -> Tx]
    BY DEF IInv, TypeOK
  <1>2. tx'[p] = Idle /\ Idle.review = 0 /\ \A q \in Procs \ {p} : tx'[q] = tx[q]
    BY <1>1 DEF End, Idle
  <1>3. CASE queue' = queue /\ ~ (queue' = Resolve(p, ok) /\ tx[p].review # 0)
    <2>1. QueueKeeps({})
      BY <1>3 DEF QueueKeeps, Decided, DecidedNext, Pending, PendingNext
    <2> QED
      BY <1>3, <2>1 DEF QueueMoves
  <1>4. CASE queue' = Resolve(p, ok) /\ tx[p].review # 0
    <2>1. queue' = Decide(tx[p].review, "approved", ok)
      BY <1>4 DEF Resolve
    <2>2. QueueKeeps({tx[p].review}) /\ DecidedNext(tx[p].review)
      BY <1>1, <1>4, <2>1, DecideKeeps DEF ClaimsOK, Pending
    <2>3. \A q \in Procs : tx'[q].review # 0 => tx'[q].review \notin {tx[p].review}
      BY <1>2, <1>4 DEF ClaimsOK
    <2> QED
      BY <2>2, <2>3 DEF QueueMoves
  <1>5. queue' = Resolve(p, ok) /\ tx[p].review = 0 => queue' = queue
    BY DEF Resolve
  <1> QED
    BY <1>3, <1>4, <1>5

\* Every transaction but one that is issued keeps its claim or drops it.
LEMMA ClaimsStep ==
  ASSUME IInv, ClaimsOK, [Next]_vars
  PROVE  QueueMoves /\ ClaimsOK'
  <1>1. queue \in Seq(Review) /\ tx \in [Procs -> Tx]
    BY DEF IInv, TypeOK
  <1>2. ASSUME QueueMoves, \A q \in Procs : tx'[q].review \in {0, tx[q].review}
        PROVE  ClaimsOK'
    BY <1>2 DEF QueueMoves, QueueKeeps, ClaimsOK, Pending, PendingNext
  <1>3. ASSUME queue' = queue PROVE QueueMoves
    <2>1. QueueKeeps({})
      BY <1>3 DEF QueueKeeps, Decided, DecidedNext, Pending, PendingNext
    <2> QED
      BY <2>1 DEF QueueMoves
  <1>4. ASSUME NEW p \in Procs, Issues(p) PROVE QueueMoves /\ ClaimsOK'
    <2>1. PICK t : AsIssued(t) /\ tx' = [tx EXCEPT ![p] = t] /\ queue' = queue
      BY <1>4, IssueStarts DEF IssueLeaves
    <2>2. tx'[p] = t /\ \A q \in Procs \ {p} : tx'[q] = tx[q]
      BY <1>1, <2>1
    <2> QED
      BY <1>3, <2>1, <2>2 DEF AsIssued, ClaimsOK, Pending, PendingNext
  <1>5. ASSUME NEW p \in Procs, NEW ok \in BOOLEAN, End(p), queue' = queue \/ queue' = Resolve(p, ok)
        PROVE  QueueMoves /\ ClaimsOK'
    <2>1. \A q \in Procs : tx'[q].review \in {0, tx[q].review}
      BY <1>1, <1>5 DEF End, Idle
    <2> QED
      BY <1>2, <1>5, <2>1, EndKeeps
  <1>6. ASSUME NEW p \in Procs, NEW i \in tx[p].group, LockRow(p, i) PROVE QueueMoves /\ ClaimsOK'
    <2>1. \A q \in Procs : tx'[q].review = tx[q].review
      BY <1>1, <1>6 DEF LockRow, Tx
    <2> QED
      BY <1>2, <1>3, <1>6, <2>1 DEF LockRow
  <1>7. ASSUME NEW p \in Procs, Learn(p) PROVE QueueMoves /\ ClaimsOK'
    <2>1. \A q \in Procs : tx'[q].review = tx[q].review
      BY <1>1, <1>7 DEF Learn, Learned, Tx
    <2> QED
      BY <1>2, <1>3, <1>7, <2>1 DEF Learn
  <1>8. ASSUME NEW p \in Procs, Step(p) PROVE QueueMoves /\ ClaimsOK'
    BY <1>5, <1>6, <1>7, <1>8 DEF Step, Refuse, CommitInsert, CommitPick, CommitMark
  <1>9. ASSUME Reviews PROVE QueueMoves /\ ClaimsOK'
    <2>1. tx' = tx
      BY <1>9 DEF Reviews, ReviewAdd, ApproveRefused, ReviewReject
    <2>2. CASE \E a \in Authors : \E act, G, w : ReviewAdd(a, act, G, w)
      <3>1. QueueKeeps({})
        BY <1>1, <2>2, AppendKeeps DEF ReviewAdd
      <3> QED
        BY <1>2, <2>1, <3>1 DEF QueueMoves
    <2>3. ASSUME NEW a \in Authors, NEW r, ApproveRefused(a, r) \/ ReviewReject(a, r)
          PROVE  QueueMoves
      <3>1. Claimable(r, a) /\ (queue' = Decide(r, "approved", FALSE) \/ queue' = Decide(r, "rejected", FALSE))
        BY <2>3 DEF ApproveRefused, ReviewReject
      <3>2. QueueKeeps({r})
        BY <1>1, <3>1, DecideKeeps
      <3>3. \A q \in Procs : tx'[q].review \notin {r}
        BY <2>1, <3>1 DEF Claimable
      <3> QED
        BY <3>2, <3>3 DEF QueueMoves
    <2> QED
      BY <1>2, <1>9, <2>1, <2>2, <2>3 DEF Reviews
  <1>10. ASSUME queue' = queue, tx' = tx PROVE QueueMoves /\ ClaimsOK'
    BY <1>2, <1>3, <1>10
  <1> QED
    BY <1>4, <1>5, <1>8, <1>9, <1>10 DEF Next, Abort, Quiet, vars

\* Only the insert that applies a review writes it in a row.
LEMMA AppliedStep ==
  ASSUME IInv, AppliedOK, ClaimsOK, AppliedOnce, [Next]_vars
  PROVE  AppliedOK' /\ AppliedOnce'
  <1>1. /\ DOMAIN rows \subseteq DOMAIN rows' /\ \A i \in DOMAIN rows : rows'[i].review = rows[i].review
        /\ \A j \in DOMAIN rows' \ DOMAIN rows :
              \E p \in Procs : CommitInsert(p) /\ j = tx[p].id /\ rows'[j] = NewRow(p)
    BY StepKeepsKinds DEF Kept
  <1>2. \A r : Decided(r) => DecidedNext(r)
    BY ClaimsStep DEF QueueMoves, QueueKeeps
  <1>3. ASSUME NEW j \in DOMAIN rows' \ DOMAIN rows, rows'[j].review # 0
        PROVE  /\ DecidedNext(rows'[j].review) /\ ~ Decided(rows'[j].review)
               /\ \A k \in DOMAIN rows' \ DOMAIN rows : k = j
    <2>1. PICK p \in Procs : CommitInsert(p) /\ j = tx[p].id /\ rows'[j] = NewRow(p)
      BY <1>1, <1>3
    <2>2. rows'[j].review = tx[p].review
      BY <2>1 DEF NewRow
    <2>3. queue' = Resolve(p, TRUE) /\ End(p)
      BY <2>1 DEF CommitInsert
    <2>4. DecidedNext(tx[p].review)
      BY <1>3, <2>2, <2>3, EndKeeps
    <2>5. ~ Decided(tx[p].review)
      BY <1>3, <2>2 DEF ClaimsOK, Decided, DecidedNext, Pending, PendingNext
    <2>6. DOMAIN rows' = DOMAIN rows \union {j}
      BY <2>1 DEF CommitInsert
    <2> QED
      BY <2>2, <2>4, <2>5, <2>6
  <1>4. AppliedOK'
    BY <1>1, <1>2, <1>3 DEF AppliedOK, Decided, DecidedNext
  <1>5. AppliedOnce'
    BY <1>1, <1>3 DEF AppliedOK, AppliedOnce
  <1> QED
    BY <1>4, <1>5

\* A page that no reactivation brought back was there before the step, or is a rebuild's new one.
LEMMA UnrevivedBefore ==
  ASSUME IInv, [Next]_vars, NEW i, NEW a, NEW pr, UnrevivedNext(i, a, pr)
  PROVE  \/ Unrevived(i, a, pr)
         \/ \E p \in Procs : /\ CommitInsert(p) /\ i = tx[p].id /\ i \notin DOMAIN rows
                             /\ tx[p].cmd = "page" /\ tx[p].who = a /\ tx[p].project = pr
  <1>1. /\ i \in DOMAIN rows' /\ rows'[i].status = "active" /\ rows'[i].kind = "page"
        /\ rows'[i].author = a /\ rows'[i].project = pr /\ rows'[i].intervals = {}
    BY DEF Unrevived, UnrevivedNext, Active
  <1>2. CASE i \in DOMAIN rows
    BY <1>1, <1>2, StepKeepsKinds DEF Kept, Unrevived, UnrevivedNext, Active
  <1>3. CASE i \notin DOMAIN rows
    <2>1. PICK p \in Procs : CommitInsert(p) /\ i = tx[p].id /\ rows'[i] = NewRow(p)
      BY <1>1, <1>3, StepKeepsKinds
    <2>2. /\ rows'[i].author = tx[p].who /\ rows'[i].project = tx[p].project
          /\ rows'[i].kind = CASE tx[p].cmd = "page" -> "page"
                               [] tx[p].cmd = "derive" -> "derived"
                               [] OTHER -> "explicit"
      BY <2>1 DEF NewRow
    <2>3. tx[p].cmd = "page"
      BY <1>1, <2>2
    <2> QED
      BY <1>1, <1>3, <2>1, <2>2, <2>3
  <1> QED
    BY <1>2, <1>3

\* An insert in flight that rebuilds a page is the only one, and commits over what it found.
LEMMA PageStep ==
  ASSUME IInv, RebuildsOK, OnePage, [Next]_vars
  PROVE  OnePage'
  <1>1. ASSUME NEW i, NEW j, NEW a, NEW pr, Unrevived(i, a, pr), Unrevived(j, a, pr)
        PROVE  i = j
    BY <1>1 DEF Unrevived, UnrevivedNext, OnePage, Active
  <1>2. ASSUME NEW i, NEW j, NEW a, NEW pr, UnrevivedNext(i, a, pr), Unrevived(j, a, pr),
               NEW p \in Procs, CommitInsert(p), tx[p].cmd = "page", tx[p].who = a, tx[p].project = pr
        PROVE  ~ UnrevivedNext(j, a, pr)
    <2>1. j \in tx[p].group /\ Active(j) /\ j \in DOMAIN rows
      BY <1>2 DEF RebuildsOK, Unrevived, UnrevivedNext, Active
    <2>2. j \in Retires(p)
      BY <1>2, <2>1 DEF Retires
    <2>3. tx[p].id \notin DOMAIN rows /\ tx[p].at \in Nat /\ rows[j] \in Row
      BY <1>2, <2>1 DEF CommitInsert, IInv, TypeOK, Tx, InFlightOK
    <2>4. rows'[j] = Supersede(rows[j], tx[p].at)
      BY <1>2, <2>1, <2>2, <2>3 DEF CommitInsert
    <2> QED
      BY <2>3, <2>4, SupersedeKept DEF Unrevived, UnrevivedNext, Active
  <1>3. ASSUME NEW i, NEW j, NEW a, NEW pr, UnrevivedNext(i, a, pr), UnrevivedNext(j, a, pr)
        PROVE  i = j
    <2>1. CASE Unrevived(i, a, pr) /\ Unrevived(j, a, pr)
      BY <1>1, <2>1
    <2>2. CASE ~ Unrevived(i, a, pr)
      <3>1. PICK p \in Procs : /\ CommitInsert(p) /\ i = tx[p].id /\ tx[p].cmd = "page"
                               /\ tx[p].who = a /\ tx[p].project = pr
        BY <1>3, <2>2, UnrevivedBefore
      <3>2. ~ Unrevived(j, a, pr)
        BY <1>2, <1>3, <3>1
      <3>3. j \in DOMAIN rows' \ DOMAIN rows
        BY <1>3, <3>2, UnrevivedBefore DEF Unrevived, UnrevivedNext, Active
      <3> QED
        BY <3>1, <3>3 DEF CommitInsert
    <2>3. CASE ~ Unrevived(j, a, pr)
      <3>1. PICK p \in Procs : /\ CommitInsert(p) /\ j = tx[p].id /\ tx[p].cmd = "page"
                               /\ tx[p].who = a /\ tx[p].project = pr
        BY <1>3, <2>3, UnrevivedBefore
      <3>2. ~ Unrevived(i, a, pr)
        BY <1>2, <1>3, <3>1
      <3>3. i \in DOMAIN rows' \ DOMAIN rows
        BY <1>3, <3>2, UnrevivedBefore DEF Unrevived, UnrevivedNext, Active
      <3> QED
        BY <3>1, <3>3 DEF CommitInsert
    <2> QED
      BY <2>1, <2>2, <2>3
  <1> QED
    BY <1>3 DEF OnePage, Unrevived, UnrevivedNext, Active

\* A transaction that goes on is still the rebuild it was, or has ended.
LEMMA RebuildsStep ==
  ASSUME IInv, RebuildsOK, [Next]_vars
  PROVE  RebuildsOK'
  <1>1. tx \in [Procs -> Tx]
    BY DEF IInv, TypeOK
  <1> DEFINE Same(q) == /\ tx'[q].cmd = tx[q].cmd /\ tx'[q].who = tx[q].who
                        /\ tx'[q].project = tx[q].project /\ tx'[q].group = tx[q].group
  <1>2. ASSUME \A q \in Procs : Same(q) \/ tx'[q] = Idle,
               \A p \in Procs : CommitInsert(p) => tx'[p] = Idle
        PROVE  RebuildsOK'
    <2>1. Idle.cmd = "none"
      BY DEF Idle
    <2>2. ASSUME NEW q \in Procs, tx'[q].cmd = "page"
          PROVE  /\ \A r \in Procs \ {q} : ~ (tx'[r].cmd = "page" /\ tx'[r].who = tx'[q].who)
                 /\ \A i : UnrevivedNext(i, tx'[q].who, tx'[q].project) => i \in tx'[q].group
      <3>1. Same(q) /\ tx[q].cmd = "page"
        BY <1>2, <2>1, <2>2
      <3>2. \A r \in Procs \ {q} : ~ (tx'[r].cmd = "page" /\ tx'[r].who = tx'[q].who)
        BY <1>2, <2>1, <3>1 DEF RebuildsOK
      <3> DEFINE a == tx[q].who
                 pr == tx[q].project
      <3>3. ASSUME NEW i, UnrevivedNext(i, tx'[q].who, tx'[q].project) PROVE i \in tx[q].group
        <4>1. UnrevivedNext(i, a, pr)
          BY <3>1, <3>3
        <4>2. CASE Unrevived(i, a, pr)
          BY <3>1, <4>2 DEF RebuildsOK
        <4>3. CASE \E p \in Procs : CommitInsert(p) /\ tx[p].cmd = "page" /\ tx[p].who = a
          <5>1. PICK p \in Procs : CommitInsert(p) /\ tx[p].cmd = "page" /\ tx[p].who = a
            BY <4>3
          <5>2. p # q
            BY <1>2, <2>1, <2>2, <5>1
          <5> QED
            BY <3>1, <5>1, <5>2 DEF RebuildsOK
        <4> QED
          BY <4>1, <4>2, <4>3, UnrevivedBefore
      <3> QED
        BY <3>1, <3>2, <3>3
    <2> QED
      BY <2>2 DEF RebuildsOK, Unrevived, UnrevivedNext, Active
  <1>3. \A p \in Procs : CommitInsert(p) => tx'[p] = Idle
    BY <1>1 DEF CommitInsert, End
  <1>4. ASSUME NEW p \in Procs, Issues(p) PROVE RebuildsOK'
    <2>1. PICK t : AsIssued(t) /\ tx' = [tx EXCEPT ![p] = t] /\ rows' = rows
      BY <1>4, IssueStarts DEF IssueLeaves
    <2>2. tx'[p] = t /\ \A q \in Procs \ {p} : tx'[q] = tx[q]
      BY <1>1, <2>1
    <2>3. \A i, a, pr : Unrevived(i, a, pr) => i \in PriorPages(a, pr)
      BY DEF Unrevived, UnrevivedNext, Active, PriorPages
    <2> QED
      BY <2>1, <2>2, <2>3 DEF AsIssued, RebuildsOK, Unrevived, UnrevivedNext, Active
  <1>5. ASSUME NEW p \in Procs, End(p) PROVE RebuildsOK'
    BY <1>1, <1>2, <1>3, <1>5 DEF End
  <1>6. ASSUME NEW p \in Procs, NEW i \in tx[p].group, LockRow(p, i) PROVE RebuildsOK'
    <2>1. \A q \in Procs : Same(q)
      BY <1>1, <1>6 DEF LockRow, Tx
    <2> QED
      BY <1>2, <1>3, <2>1
  <1>7. ASSUME NEW p \in Procs, Learn(p) PROVE RebuildsOK'
    <2>1. \A q \in Procs : Same(q)
      BY <1>1, <1>7 DEF Learn, Learned, Tx
    <2> QED
      BY <1>2, <1>3, <2>1
  <1>8. ASSUME tx' = tx PROVE RebuildsOK'
    BY <1>2, <1>3, <1>8
  <1>9. ASSUME NEW p \in Procs, Step(p) PROVE RebuildsOK'
    BY <1>5, <1>6, <1>7, <1>9 DEF Step, Refuse, CommitInsert, CommitPick, CommitMark
  <1>10. Reviews => tx' = tx
    BY DEF Reviews, ReviewAdd, ApproveRefused, ReviewReject
  <1> QED
    BY <1>4, <1>5, <1>8, <1>9, <1>10 DEF Next, Abort, Quiet, vars

\* A review is applied at most once (review_resolve's claim), and an author's rebuilds leave one
\* page in force, unless a mark brings an old one back (do_page_upsert).
THEOREM OnceOnlyCorrect == Spec => []OnceOnly
  <1>1. Init => OnceInv
    BY DEF Init, OnceInv, AppliedOK, ClaimsOK, RebuildsOK, OnceOnly, AppliedOnce, OnePage, Idle
  <1>2. IInv /\ OnceInv /\ [Next]_vars => OnceInv'
    BY ClaimsStep, AppliedStep, PageStep, RebuildsStep DEF OnceInv, OnceOnly
  <1>3. OnceInv => OnceOnly
    BY DEF OnceInv
  <1> QED
    BY <1>1, <1>2, <1>3, SpecInv, PTL DEF Spec

-----------------------------------------------------------------------------
(* Audiences *)

\* Row m was written by author a, and an audience of scope s and project pr may read it.
Within(m, a, s, pr) ==
  /\ m \in DOMAIN rows /\ rows[m].author = a
  /\ s = "project" /\ pr # NoProject => rows[m].scope = "project" /\ rows[m].project = pr

\* A row that is published is published to a project, and so is what it was made from.
RowsWithin ==
  \A i \in DOMAIN rows :
    /\ rows[i].scope = "project" => rows[i].project # NoProject
    /\ \A m \in rows[i].evidence : Within(m, rows[i].author, rows[i].scope, rows[i].project)

\* A transaction's audience is the narrowest of its group's, as long as nobody changes a row's.
Says(t) ==
  /\ t.cmd \in {"merge", "derive"} => \A m \in t.group : Within(m, t.who, t.scope, t.project)
  /\ t.pc = "learned" /\ t.scope = "project" => t.project # NoProject

AudienceOK == RowsWithin /\ \A p \in Procs : Says(tx[p])

-----------------------------------------------------------------------------
(* No step changes a row's author, audience or evidence. *)

Fixed(r, s) ==
  /\ s.author = r.author /\ s.scope = r.scope /\ s.project = r.project /\ s.evidence = r.evidence

LEMMA RowFixed ==
  ASSUME NEW r \in Row, NEW st \in Statuses, NEW t \in Nat
  PROVE  Fixed(r, Supersede(r, t)) /\ Fixed(r, Mark(r, st, t)) /\ Fixed(r, HandUpdate(r, st, t))
  BY DEF Fixed, Supersede, Mark, HandUpdate, KeepBeliefTime, Row

\* Apart from the row an insert commits, a step leaves what RowsWithin is about.
LEMMA StepKeepsRows ==
  ASSUME IInv, [Next]_vars
  PROVE  /\ DOMAIN rows \subseteq DOMAIN rows' /\ \A i \in DOMAIN rows : Fixed(rows[i], rows'[i])
         /\ \A j \in DOMAIN rows' \ DOMAIN rows :
              \E p \in Procs : CommitInsert(p) /\ j = tx[p].id /\ rows'[j] = NewRow(p)
  <1>1. (\A i \in DOMAIN rows : rows[i] \in Row) /\ now \in Nat /\ now + 1 \in Nat
    BY DEF IInv, TypeOK
  <1>2. CASE rows' = rows
    BY <1>2 DEF Fixed
  <1>3. ASSUME NEW p \in Procs, CommitInsert(p)
        PROVE  /\ DOMAIN rows \subseteq DOMAIN rows' /\ \A i \in DOMAIN rows : Fixed(rows[i], rows'[i])
               /\ \A j \in DOMAIN rows' \ DOMAIN rows : j = tx[p].id /\ rows'[j] = NewRow(p)
    <2>1. tx[p].at \in Nat /\ tx[p].id \notin DOMAIN rows
      BY <1>3 DEF CommitInsert, IInv, TypeOK, Tx, InFlightOK
    <2>2. \A i \in DOMAIN rows : Fixed(rows[i], Supersede(rows[i], tx[p].at))
      BY <1>1, <2>1, RowFixed DEF Statuses
    <2>3. /\ DOMAIN rows' = DOMAIN rows \union {tx[p].id} /\ rows'[tx[p].id] = NewRow(p)
          /\ \A i \in DOMAIN rows : rows'[i] \in {rows[i], Supersede(rows[i], tx[p].at)}
      BY <1>3, <2>1 DEF CommitInsert
    <2> QED
      BY <2>2, <2>3 DEF Fixed
  <1>4. ASSUME NEW p \in Procs, CommitPick(p)
        PROVE  DOMAIN rows' = DOMAIN rows /\ \A i \in DOMAIN rows : Fixed(rows[i], rows'[i])
    <2>1. \A i \in DOMAIN rows : Fixed(rows[i], Supersede(rows[i], now + 1))
      BY <1>1, RowFixed DEF Statuses
    <2>2. /\ DOMAIN rows' = DOMAIN rows
          /\ \A i \in DOMAIN rows : rows'[i] \in {rows[i], Supersede(rows[i], now + 1)}
      BY <1>4 DEF CommitPick
    <2> QED
      BY <2>1, <2>2 DEF Fixed
  <1>5. ASSUME NEW p \in Procs, CommitMark(p)
        PROVE  DOMAIN rows' = DOMAIN rows /\ \A i \in DOMAIN rows : Fixed(rows[i], rows'[i])
    <2>1. tx[p].to \in Statuses
      BY DEF IInv, TypeOK, Tx
    <2>2. \A i \in DOMAIN rows : /\ Fixed(rows[i], Mark(rows[i], tx[p].to, now + 1))
                                 /\ Fixed(rows[i], HandUpdate(rows[i], tx[p].to, now + 1))
      BY <1>1, <2>1, RowFixed
    <2>3. /\ DOMAIN rows' = DOMAIN rows
          /\ \A i \in DOMAIN rows :
               rows'[i] \in {rows[i], Mark(rows[i], tx[p].to, now + 1), HandUpdate(rows[i], tx[p].to, now + 1)}
      BY <1>5 DEF CommitMark
    <2> QED
      BY <2>2, <2>3 DEF Fixed
  <1> QED
    BY <1>2, <1>3, <1>4, <1>5, OnlyCommitsWrite

-----------------------------------------------------------------------------
(* What a transaction says *)

\* _group_scope and _group_project: the audience is within every member's.
LEMMA VerdictWithin ==
  ASSUME IInv, RowsWithin, NEW a \in Authors, NEW act \in {"merge", "pick", "derive"},
         NEW G, G \subseteq DOMAIN rows, Eligible(a, act, G), NEW w, NEW r
  PROVE  Says(Verdict(a, act, G, w, r)) /\ Verdict(a, act, G, w, r).pc # "learned"
  <1> DEFINE t == Verdict(a, act, G, w, r)
             s == VerdictScope(act, G)
             pr == GroupProject(G)
             c == IF act = "derive" THEN "ready" ELSE "lock"
  <1>1. t.pc = c /\ t.cmd = act /\ t.who = a /\ t.group = G /\ t.scope = s /\ t.project = pr
    BY DEF Verdict
  <1>2. c # "learned"
    OBVIOUS
  <1>3. ASSUME NEW m \in G PROVE Within(m, a, s, pr)
    <2>1. m \in DOMAIN rows /\ rows[m].author = a
      BY DEF Eligible
    <2>2. ASSUME s = "project", pr # NoProject
          PROVE  rows[m].scope = "project" /\ rows[m].project = pr
      <3>1. rows[m].scope \in Scopes
        BY <2>1 DEF IInv, TypeOK, Row
      <3>2. rows[m].scope = "project"
        BY <2>2, <3>1 DEF VerdictScope, GroupScope, Scopes
      <3>3. rows[m].project # NoProject
        BY <2>1, <3>2 DEF RowsWithin
      <3> DEFINE tags == {rows[i].project : i \in G} \ {NoProject}
      <3>4. PICK q \in tags : tags = {q}
        BY <2>2 DEF GroupProject
      <3>5. pr = q
        BY <3>4 DEF GroupProject
      <3>6. rows[m].project \in tags
        BY <3>3
      <3> QED
        BY <3>2, <3>4, <3>5, <3>6
    <2> QED
      BY <2>1, <2>2 DEF Within
  <1> HIDE DEF t, s, pr, c
  <1> QED
    BY <1>1, <1>2, <1>3 DEF Says, t

LEMMA IssueSays ==
  ASSUME IInv, RowsWithin, NEW p \in Procs, Issues(p)
  PROVE  \E t : Says(t) /\ tx' = [tx EXCEPT ![p] = t]
  <1> PICK a \in Authors :
         \/ \E au \in Audiences : BeginWrite(p, a, au)
         \/ \E i \in DOMAIN rows, au \in Audiences : BeginSupersede(p, a, i, au)
         \/ \E i \in DOMAIN rows, st \in Statuses : BeginMark(p, a, i, st)
         \/ \E i \in DOMAIN rows, st \in Statuses : BeginHandUpdate(p, a, i, st)
         \/ \E G \in SUBSET DOMAIN rows : BeginVerdict(p, a, "merge", G, 0)
         \/ \E G \in SUBSET DOMAIN rows, w \in DOMAIN rows : BeginVerdict(p, a, "pick", G, w)
         \/ \E r \in 1..Len(queue) : BeginApprove(p, a, r)
         \/ \E pr \in Projects : BeginPage(p, a, pr)
    BY DEF Issues
  \* A merge, a pick or a derivation.
  <1>1. ASSUME NEW act \in {"merge", "pick", "derive"}, NEW G, G \subseteq DOMAIN rows, NEW w, NEW r,
               Eligible(a, act, G), Begin(p, act, Verdict(a, act, G, w, r))
        PROVE  \E t : Says(t) /\ tx' = [tx EXCEPT ![p] = t]
    <2>1. tx' = [tx EXCEPT ![p] = Verdict(a, act, G, w, r)]
      BY <1>1 DEF Begin, Issue
    <2> QED
      BY <1>1, <2>1, VerdictWithin
  <1>2. CASE \/ \E G \in SUBSET DOMAIN rows : BeginVerdict(p, a, "merge", G, 0)
             \/ \E G \in SUBSET DOMAIN rows, w \in DOMAIN rows : BeginVerdict(p, a, "pick", G, w)
    BY <1>1, <1>2 DEF BeginVerdict
  <1>3. CASE \E r \in 1..Len(queue) : BeginApprove(p, a, r)
    <2> PICK r \in 1..Len(queue) : BeginApprove(p, a, r)
      BY <1>3
    <2>1. queue[r] \in Review
      BY ElementOfSeq DEF IInv, TypeOK
    <2>2. queue[r].action \in {"merge", "pick", "derive"}
      BY <2>1 DEF Review
    <2>3. queue[r].members \subseteq DOMAIN rows
      BY DEF BeginApprove, Eligible, Active
    <2> QED
      BY <1>1, <2>2, <2>3 DEF BeginApprove
  \* Every other command has no members to be narrower than, and has not learned its id yet.
  <1>4. ASSUME NEW t, t.cmd \notin {"merge", "derive"}, t.pc # "learned", tx' = [tx EXCEPT ![p] = t]
        PROVE  \E u : Says(u) /\ tx' = [tx EXCEPT ![p] = u]
    BY <1>4 DEF Says
  <1>5. CASE \E au \in Audiences : BeginWrite(p, a, au)
    <2> PICK au \in Audiences : BeginWrite(p, a, au)
      BY <1>5
    <2> DEFINE t == [Idle EXCEPT !.pc = "ready", !.cmd = "write", !.who = a,
                                 !.scope = au[1], !.project = au[2]]
    <2>1. t.pc = "ready" /\ t.cmd = "write"
      BY DEF Idle
    <2>2. tx' = [tx EXCEPT ![p] = t]
      BY DEF BeginWrite, Begin, Issue
    <2> HIDE DEF t
    <2> QED
      BY <1>4, <2>1, <2>2
  <1>6. CASE \E i \in DOMAIN rows, au \in Audiences : BeginSupersede(p, a, i, au)
    <2> PICK i \in DOMAIN rows, au \in Audiences : BeginSupersede(p, a, i, au)
      BY <1>6
    <2> DEFINE t == [Idle EXCEPT !.pc = "lock", !.cmd = "supersede", !.who = a,
                                 !.group = {i}, !.scope = au[1], !.project = au[2]]
    <2>1. t.pc = "lock" /\ t.cmd = "supersede"
      BY DEF Idle
    <2>2. tx' = [tx EXCEPT ![p] = t]
      BY DEF BeginSupersede, Begin, Issue
    <2> HIDE DEF t
    <2> QED
      BY <1>4, <2>1, <2>2
  <1>7. ASSUME NEW i \in DOMAIN rows, NEW st \in Statuses,
               BeginMark(p, a, i, st) \/ BeginHandUpdate(p, a, i, st)
        PROVE  \E t : Says(t) /\ tx' = [tx EXCEPT ![p] = t]
    <2> DEFINE m == [Idle EXCEPT !.pc = "lock", !.cmd = "mark", !.who = a, !.group = {i}, !.to = st]
               h == [Idle EXCEPT !.pc = "lock", !.cmd = "hand", !.who = a, !.group = {i}, !.to = st]
    <2>1. m.pc = "lock" /\ m.cmd = "mark" /\ h.pc = "lock" /\ h.cmd = "hand"
      BY DEF Idle
    <2>2. tx' = [tx EXCEPT ![p] = m] \/ tx' = [tx EXCEPT ![p] = h]
      BY <1>7 DEF BeginMark, BeginHandUpdate, Begin, Issue
    <2> HIDE DEF m, h
    <2> QED
      BY <1>4, <2>1, <2>2
  <1>8. CASE \E pr \in Projects : BeginPage(p, a, pr)
    <2> PICK pr \in Projects : BeginPage(p, a, pr)
      BY <1>8
    <2> DEFINE c == IF PriorPages(a, pr) = {} THEN "ready" ELSE "lock"
               t == [Idle EXCEPT !.pc = c, !.cmd = "page", !.who = a, !.group = PriorPages(a, pr),
                                 !.scope = "project", !.project = pr]
    <2>1. tx' = [tx EXCEPT ![p] = t]
      BY DEF BeginPage, Begin, Issue
    <2>2. c # "learned"
      OBVIOUS
    <2> HIDE DEF c
    <2>3. t.pc = c /\ t.cmd = "page"
      BY DEF Idle
    <2> HIDE DEF t
    <2> QED
      BY <1>4, <2>1, <2>2, <2>3
  <1> QED
    BY <1>2, <1>3, <1>5, <1>6, <1>7, <1>8

-----------------------------------------------------------------------------
(* Every step *)

LEMMA RowsStepWithin ==
  ASSUME IInv, AudienceOK, [Next]_vars
  PROVE  RowsWithin'
  <1>1. ASSUME NEW i \in DOMAIN rows'
        PROVE  /\ rows'[i].scope = "project" => rows'[i].project # NoProject
               /\ \A m \in rows'[i].evidence :
                    Within(m, rows'[i].author, rows'[i].scope, rows'[i].project)
    <2>1. CASE i \in DOMAIN rows
      BY <2>1, StepKeepsRows DEF Fixed, AudienceOK, RowsWithin
    <2>2. CASE i \notin DOMAIN rows
      <3>1. PICK p \in Procs : CommitInsert(p) /\ rows'[i] = NewRow(p)
        BY <2>2, StepKeepsRows
      <3>2. Says(tx[p]) /\ tx[p].pc = "learned"
        BY <3>1 DEF AudienceOK, CommitInsert
      <3>3. /\ rows'[i].author = tx[p].who /\ rows'[i].scope = tx[p].scope /\ rows'[i].project = tx[p].project
            /\ rows'[i].evidence = IF tx[p].cmd \in {"merge", "derive"} THEN tx[p].group ELSE {}
        BY <3>1 DEF NewRow
      <3> QED
        BY <3>2, <3>3 DEF Says
    <2> QED
      BY <2>1, <2>2
  <1>2. ASSUME NEW i \in DOMAIN rows', NEW m \in rows'[i].evidence
        PROVE  Within(m, rows[i].author, rows[i].scope, rows[i].project)'
    <2> DEFINE a == rows'[i].author
               s == rows'[i].scope
               pr == rows'[i].project
    <2>1. Within(m, a, s, pr)
      BY <1>1, <1>2
    <2> QED
      BY <2>1, StepKeepsRows DEF Within, Fixed
  <1> QED
    BY <1>1, <1>2 DEF RowsWithin

LEMMA AudienceStep ==
  ASSUME IInv, AudienceOK, [Next]_vars
  PROVE  AudienceOK'
  <1>1. tx \in [Procs -> Tx] /\ RowsWithin /\ \A q \in Procs : Says(tx[q])
    BY DEF IInv, TypeOK, AudienceOK
  \* It is enough that the transaction that moved is still right about its audience.
  <1>3. ASSUME NEW p \in Procs, NEW t, tx' = [tx EXCEPT ![p] = t], Says(t)
        PROVE  \A q \in Procs : Says(tx'[q])
    BY <1>1, <1>3
  <1>4. ASSUME NEW p \in Procs, Issues(p) PROVE \A q \in Procs : Says(tx'[q])
    BY <1>1, <1>3, <1>4, IssueSays
  <1>5. ASSUME NEW p \in Procs, End(p) PROVE \A q \in Procs : Says(tx'[q])
    <2>1. Says(Idle)
      BY DEF Says, Idle
    <2> QED
      BY <1>3, <1>5, <2>1 DEF End
  <1>6. ASSUME NEW p \in Procs, NEW i \in tx[p].group, LockRow(p, i)
        PROVE  \A q \in Procs : Says(tx'[q])
    <2> DEFINE c == IF tx[p].group = tx[p].held \union {i} THEN "ready" ELSE "lock"
               t == [tx[p] EXCEPT !.held = @ \union {i}, !.pc = c]
    <2>1. tx' = [tx EXCEPT ![p] = t]
      BY <1>1, <1>6 DEF LockRow
    <2>2. c # "learned"
      OBVIOUS
    <2> HIDE DEF c
    <2>3. /\ t.cmd = tx[p].cmd /\ t.group = tx[p].group /\ t.who = tx[p].who /\ t.pc = c
          /\ t.scope = tx[p].scope /\ t.project = tx[p].project
      BY <1>1 DEF Tx
    <2> HIDE DEF t
    <2>4. Says(t)
      BY <1>1, <2>2, <2>3 DEF Says
    <2> QED
      BY <1>3, <2>1, <2>4
  <1>7. ASSUME NEW p \in Procs, Learn(p) PROVE \A q \in Procs : Says(tx'[q])
    <2> DEFINE t == Learned(tx[p], nextId, now + 1)
    <2>1. tx' = [tx EXCEPT ![p] = t]
      BY <1>7 DEF Learn
    <2>2. /\ t.cmd = tx[p].cmd /\ t.group = tx[p].group /\ t.who = tx[p].who
          /\ t.scope = tx[p].scope /\ t.project = tx[p].project
      BY <1>1 DEF Learned, Tx
    <2>3. tx[p].scope = "project" => tx[p].project # NoProject
      BY <1>7 DEF Learn, Confirmed, MayPublish
    <2> HIDE DEF t
    <2>4. Says(t)
      BY <1>1, <2>2, <2>3 DEF Says
    <2> QED
      BY <1>3, <2>1, <2>4
  <1>8. tx' = tx => \A q \in Procs : Says(tx'[q])
    BY <1>1
  <1>9. ASSUME NEW p \in Procs, Step(p) PROVE \A q \in Procs : Says(tx'[q])
    BY <1>5, <1>6, <1>7, <1>9 DEF Step, Refuse, CommitInsert, CommitPick, CommitMark
  <1>10. Reviews => tx' = tx
    BY DEF Reviews, ReviewAdd, ApproveRefused, ReviewReject
  <1>11. \A q \in Procs : Says(tx'[q])
    <2>1. CASE \E p \in Procs : Issues(p) \/ Step(p) \/ Abort(p)
      BY <1>4, <1>5, <1>9, <2>1 DEF Abort
    <2>2. CASE Reviews \/ Quiet \/ UNCHANGED vars
      <3>1. tx' = tx
        BY <1>10, <2>2 DEF Quiet, vars
      <3> QED
        BY <1>8, <3>1
    <2> QED
      BY <2>1, <2>2 DEF Next
  <1>12. ASSUME NEW q \in Procs PROVE Says(tx[q])'
    <2> DEFINE t == tx'[q]
    <2>1. Says(t)
      BY <1>11
    <2> HIDE DEF t
    <2>2. t.cmd \in {"merge", "derive"} => \A m \in t.group : Within(m, t.who, t.scope, t.project)
      BY <2>1 DEF Says
    <2>3. \A m : Within(m, t.who, t.scope, t.project) =>
             /\ m \in DOMAIN rows' /\ rows'[m].author = t.who
             /\ t.scope = "project" /\ t.project # NoProject =>
                  rows'[m].scope = "project" /\ rows'[m].project = t.project
      BY StepKeepsRows DEF Within, Fixed
    <2> QED
      BY <2>1, <2>2, <2>3 DEF Says, Within, t
  <1>13. (\A q \in Procs : Says(tx[q]))'
    BY <1>12
  <1> QED
    BY <1>13, RowsStepWithin DEF AudienceOK

\* Whoever may read the result of a merge or a derivation may read every row it was made from
\* (_group_scope, _group_project and _apply of mem_ops.py).
THEOREM AudienceNeverWidensCorrect == Spec => []AudienceNeverWidens
  <1>1. Init => AudienceOK
    BY DEF Init, AudienceOK, RowsWithin, Says, Idle
  <1>2. AudienceOK => AudienceNeverWidens
    BY DEF AudienceOK, RowsWithin, Within, AudienceNeverWidens, MayRead
  <1> QED
    BY <1>1, <1>2, SpecInv, AudienceStep, PTL DEF Spec

-----------------------------------------------------------------------------
(* What the locks of a command are (StoreLocks) *)

Place == Nat \X Nat \X Nat

\* What a lock of each kind is, and which statements take it.
Shape(k) ==
  /\ k.place \in Place
  /\ \/ k.kind = "page" /\ k.place[1] = 1
     \/ k.kind = "row" /\ k.mode = "NO_KEY_UPDATE" /\ k.id \in Nat /\ k.place[1] \in {2, 3}
     \/ k.kind = "row" /\ k.mode = "KEY_SHARE" /\ k.place[1] = 9
     \/ k.kind = "entity" /\ k.mode = "NO_KEY_UPDATE" /\ k.place[1] \in {4, 5, 6}
     \/ k.kind = "card" /\ k.id \in Nat /\ k.place[1] \in {7, 8, 10}
     \/ k.kind = "derivations" /\ k.place[1] = 9

RowLock(k) == k.kind = "row" /\ k.mode = "NO_KEY_UPDATE"

OwnLock(c) == L!Lock(<<6, 0, 0>>, "entity", Self[c.by], "NO_KEY_UPDATE")

LEMMA BeforeIs ==
  ASSUME NEW k, NEW l, k.place \in Place, l.place \in Place
  PROVE  L!Before(k, l) <=>
           \/ k.place[1] < l.place[1]
           \/ k.place[1] = l.place[1] /\ k.place[2] < l.place[2]
           \/ k.place[1] = l.place[1] /\ k.place[2] = l.place[2] /\ k.place[3] < l.place[3]
  <1>1. /\ 1..3 = {1, 2, 3} /\ 1..(1 - 1) = {} /\ 1..(2 - 1) = {1} /\ 1..(3 - 1) = {1, 2}
    OBVIOUS
  <1> QED
    BY <1>1 DEF L!Before, Place

LEMMA RowLocks ==
  ASSUME NEW at \in {2, 3}, NEW named \in Seq(DOMAIN Endpoints), NEW k \in L!LockRows(at, named)
  PROVE  Shape(k) /\ RowLock(k) /\ k.place = <<at, k.id, 0>> /\ k.id \in Nat
           /\ \E i \in DOMAIN named : k.id = named[i]
  BY CommandAssumption DEF L!LockRows, L!ForUpdate, L!Lock, L!ToSet, Shape, RowLock, Place

LEMMA EntityLocks ==
  ASSUME NEW at \in {4, 5, 6}, NEW e, NEW k \in L!Entity(at, e)
  PROVE  Shape(k) /\ k.kind = "entity"
  BY DEF L!Entity, L!Lock, Shape, Place

LEMMA CardLocks ==
  ASSUME NEW at \in {7, 8, 10}, NEW turn \in Nat, NEW a \in Nat, NEW b \in Nat, NEW k \in L!Cards(at, turn, a, b)
  PROVE  Shape(k) /\ k.kind = "card" /\ k.place = <<at, turn, k.id>>
  BY DEF L!Cards, L!Lock, Shape, Place

LEMMA RestatusLocks ==
  ASSUME NEW at \in {8, 10}, NEW named \in Seq(DOMAIN Endpoints), NEW k \in L!Restatus(at, named)
  PROVE  Shape(k) /\ k.kind = "card" /\ \E i \in DOMAIN named : k.place = <<at, i, k.id>>
  <1>1. PICK i \in DOMAIN named : k \in L!Cards(at, i, Endpoints[named[i]][1], Endpoints[named[i]][2])
    BY DEF L!Restatus
  <1>2. i \in Nat /\ Endpoints[named[i]] \in (Nat \ {0}) \X (Nat \ {0})
    BY CommandAssumption
  <1>3. Endpoints[named[i]][1] \in Nat /\ Endpoints[named[i]][2] \in Nat
    BY <1>2
  <1> QED
    BY <1>1, <1>2, <1>3, CardLocks

LEMMA EdgeLocks ==
  ASSUME NEW named \in Seq(DOMAIN Endpoints), NEW k \in L!Edges(named)
  PROVE  Shape(k) /\ k.kind \in {"derivations", "row"} /\ ~RowLock(k)
  <1>1. PICK i \in DOMAIN named : k \in L!Edge(i, named[i])
    BY DEF L!Edges
  <1>2. i \in Nat
    OBVIOUS
  <1> QED
    BY <1>1, <1>2 DEF L!Edge, L!Lock, Shape, Place, RowLock

RowList == Seq(DOMAIN Endpoints)

\* The locks of an insert: entities, the author's own among them, then cards, then edges.
LEMMA InsertLocks ==
  ASSUME NEW c \in Issued, NEW old \in RowList, Len(old) <= 1, NEW evidence \in RowList,
         NEW k \in L!Insert(c, old, evidence)
  PROVE  /\ Shape(k) /\ ~RowLock(k) /\ k.kind # "page"
         /\ old = <<>> /\ k.kind = "card" => k.place = <<7, 0, k.id>>
         /\ k.kind = "card" => k.place[1] # 10
  <1> DEFINE given == IF old = <<>> THEN <<L!Or(c.observer, Self[c.by]), L!Or(c.observed, Self[c.by])>>
                      ELSE <<c.observer, c.observed>>
             ends == IF old = <<>> THEN given
                     ELSE <<L!Or(c.observer, Endpoints[old[1]][1]), L!Or(c.observed, Endpoints[old[1]][2])>>
  <1>1. /\ Self[c.by] \in Nat /\ c.observer \in Nat /\ c.observed \in Nat
    BY CommandAssumption
  <1>2. ends[1] \in Nat /\ ends[2] \in Nat
    <2>1. CASE old = <<>>
      BY <1>1, <2>1 DEF L!Or
    <2>2. CASE old # <<>>
      <3>1. Endpoints[old[1]] \in (Nat \ {0}) \X (Nat \ {0})
        BY <2>2, CommandAssumption DEF RowList
      <3>2. Endpoints[old[1]][1] \in Nat /\ Endpoints[old[1]][2] \in Nat
        BY <3>1
      <3> QED
        BY <1>1, <2>2, <3>2 DEF L!Or
    <2> QED
      BY <2>1, <2>2
  <1>3. /\ evidence \o old \in Seq(DOMAIN Endpoints) /\ old \in Seq(DOMAIN Endpoints)
        /\ old = <<>> => L!Restatus(8, old) = {}
    BY DEF RowList, L!Restatus
  <1>4. k \in L!Entity(4, given[1]) \union L!Entity(5, given[2]) \union L!Entity(6, Self[c.by])
               \union L!Cards(7, 0, ends[1], ends[2]) \union L!Restatus(8, old) \union L!Edges(evidence \o old)
    BY DEF L!Insert, L!OwnEntity
  <1> HIDE DEF given, ends
  <1>5. CASE \E at \in {4, 5, 6} : \E e : k \in L!Entity(at, e)
    BY <1>5, EntityLocks DEF RowLock
  <1>6. CASE k \in L!Cards(7, 0, ends[1], ends[2])
    BY <1>2, <1>6, CardLocks DEF RowLock
  <1>7. CASE k \in L!Restatus(8, old)
    BY <1>3, <1>7, RestatusLocks DEF RowLock
  <1>8. CASE k \in L!Edges(evidence \o old)
    BY <1>3, <1>8, EdgeLocks
  <1> QED
    BY <1>4, <1>5, <1>6, <1>7, <1>8

LEMMA OwnIsLocked ==
  ASSUME NEW c \in Issued, NEW old, NEW evidence
  PROVE  OwnLock(c) \in L!Insert(c, old, evidence)
  BY CommandAssumption DEF OwnLock, L!Insert, L!OwnEntity, L!Entity

\* What CommandAssumption says of one command.
LEMMA CommandIs ==
  ASSUME NEW c \in Issued
  PROVE  /\ c.rows \in RowList /\ c.evidence \in RowList
         /\ c.cmd = "supersede" => Len(c.rows) = 1
         /\ c.cmd = "verdict" => Len(c.rows) >= 2
         /\ c.cmd = "page" => \A i, j \in DOMAIN c.rows : i < j => c.rows[i] > c.rows[j]
  BY CommandAssumption DEF RowList

\* What the locks of a command have in common, whatever it is.
Orderly(c, s) ==
  /\ \A k \in s : Shape(k) /\ (k.kind = "derivations" => OwnLock(c) \in s)
  /\ c.cmd # "recall" => \A k, l \in s : RowLock(k) /\ RowLock(l) /\ L!Before(k, l) => k.id < l.id
  /\ c.cmd \in {"write", "mark"} =>
       \A k, l \in s : k.kind = "card" /\ l.kind = "card" /\ L!Before(k, l) => k.id < l.id

\* The rows of one statement are locked in the order of their ids.
LEMMA RowsInOrder ==
  ASSUME NEW at \in {2, 3}, NEW named \in RowList,
         NEW k \in L!LockRows(at, named), NEW l \in L!LockRows(at, named), L!Before(k, l)
  PROVE  k.id < l.id
  <1>1. /\ k.place = <<at, k.id, 0>> /\ l.place = <<at, l.id, 0>> /\ k.id \in Nat /\ l.id \in Nat
        /\ Shape(k) /\ Shape(l)
    BY RowLocks DEF RowList
  <1> QED
    BY <1>1, BeforeIs DEF Shape

LEMMA WriteOrderly ==
  ASSUME NEW c \in Issued, c.cmd = "write", NEW s \in L!Write(c)
  PROVE  Orderly(c, s)
  <1>1. s = L!Insert(c, <<>>, c.evidence) /\ c.evidence \in RowList /\ <<>> \in RowList /\ Len(<<>>) <= 1
    BY CommandAssumption DEF L!Write, RowList
  <1>2. \A k \in s : Shape(k) /\ ~RowLock(k) /\ (k.kind = "card" => k.place = <<7, 0, k.id>>)
    BY <1>1, InsertLocks
  <1>3. OwnLock(c) \in s
    BY <1>1, OwnIsLocked
  <1>4. ASSUME NEW k \in s, NEW l \in s, k.kind = "card", l.kind = "card", L!Before(k, l) PROVE k.id < l.id
    <2>1. k.place = <<7, 0, k.id>> /\ l.place = <<7, 0, l.id>> /\ Shape(k) /\ Shape(l)
      BY <1>2, <1>4
    <2> QED
      BY <1>4, <2>1, BeforeIs DEF Shape, Place
  <1> QED
    BY <1>2, <1>3, <1>4 DEF Orderly

LEMMA SupersedeOrderly ==
  ASSUME NEW c \in Issued, c.cmd = "supersede", NEW s \in L!Supersede(c)
  PROVE  Orderly(c, s)
  <1>1. /\ s = L!LockRows(3, c.rows) \union L!Insert(c, c.rows, c.evidence)
        /\ c.evidence \in RowList /\ c.rows \in RowList /\ Len(c.rows) <= 1
    <2>1. c.evidence \in RowList /\ c.rows \in RowList /\ Len(c.rows) = 1
      BY CommandIs
    <2> QED
      BY <2>1 DEF L!Supersede
  <1>2. \A k \in L!Insert(c, c.rows, c.evidence) : Shape(k) /\ ~RowLock(k)
    BY <1>1, InsertLocks
  <1>3. \A k \in L!LockRows(3, c.rows) : Shape(k)
    BY <1>1, RowLocks DEF RowList
  <1>4. OwnLock(c) \in s
    BY <1>1, OwnIsLocked
  <1> QED
    BY <1>1, <1>2, <1>3, <1>4, RowsInOrder DEF Orderly

LEMMA MarkOrderly ==
  ASSUME NEW c \in Issued, c.cmd = "mark", NEW s \in L!Mark(c)
  PROVE  Orderly(c, s)
  <1>1. /\ s = L!LockRows(2, c.rows) \union L!Restatus(10, c.rows)
        /\ c.rows \in RowList /\ DOMAIN c.rows = {1}
    BY CommandAssumption DEF L!Mark, RowList
  <1>2. \A k \in L!Restatus(10, c.rows) : Shape(k) /\ k.kind = "card" /\ k.place = <<10, 1, k.id>>
    BY <1>1, RestatusLocks DEF RowList
  <1>3. \A k \in L!LockRows(2, c.rows) : Shape(k) /\ RowLock(k)
    BY <1>1, RowLocks DEF RowList
  <1>4. ASSUME NEW k \in s, NEW l \in s, k.kind = "card", l.kind = "card", L!Before(k, l) PROVE k.id < l.id
    <2>1. k.place = <<10, 1, k.id>> /\ l.place = <<10, 1, l.id>> /\ Shape(k) /\ Shape(l)
      BY <1>1, <1>2, <1>3, <1>4 DEF RowLock
    <2> QED
      BY <1>4, <2>1, BeforeIs DEF Shape, Place
  <1> QED
    BY <1>1, <1>2, <1>3, <1>4, RowsInOrder DEF Orderly, RowLock

LEMMA VerdictOrderly ==
  ASSUME NEW c \in Issued, c.cmd = "verdict", NEW s \in L!Verdict(c)
  PROVE  Orderly(c, s)
  <1>1. /\ s = L!LockRows(2, c.rows) \union L!Restatus(10, Tail(c.rows))
        /\ c.rows \in RowList /\ Tail(c.rows) \in RowList
    <2>1. c.rows \in RowList /\ Len(c.rows) >= 2
      BY CommandIs
    <2>2. c.rows \in Seq(DOMAIN Endpoints) /\ c.rows # <<>>
      BY <2>1 DEF RowList
    <2>3. Tail(c.rows) \in RowList
      BY <2>2, HeadTailProperties, Zenon DEF RowList
    <2> QED
      BY <2>1, <2>3 DEF L!Verdict
  <1>2. \A k \in L!Restatus(10, Tail(c.rows)) : Shape(k) /\ k.kind = "card"
    BY <1>1, RestatusLocks DEF RowList
  <1>3. \A k \in L!LockRows(2, c.rows) : Shape(k) /\ RowLock(k)
    BY <1>1, RowLocks DEF RowList
  <1> QED
    BY <1>1, <1>2, <1>3, RowsInOrder DEF Orderly, RowLock

LEMMA MergeOrderly ==
  ASSUME NEW c \in Issued, c.cmd = "merge", NEW s \in L!Merge(c)
  PROVE  Orderly(c, s)
  <1>1. /\ s = L!LockRows(2, c.rows) \union L!Insert(c, <<>>, c.rows) \union L!Restatus(10, c.rows)
        /\ c.rows \in RowList /\ <<>> \in RowList /\ Len(<<>>) <= 1
    BY CommandAssumption DEF L!Merge, RowList
  <1>2. \A k \in L!Insert(c, <<>>, c.rows) : Shape(k) /\ ~RowLock(k)
    BY <1>1, InsertLocks
  <1>3. \A k \in L!LockRows(2, c.rows) : Shape(k)
    BY <1>1, RowLocks DEF RowList
  <1>4. \A k \in L!Restatus(10, c.rows) : Shape(k) /\ ~RowLock(k)
    BY <1>1, RestatusLocks DEF RowList, RowLock
  <1>5. OwnLock(c) \in s
    BY <1>1, OwnIsLocked
  <1> QED
    BY <1>1, <1>2, <1>3, <1>4, <1>5, RowsInOrder DEF Orderly

LEMMA PageOrderly ==
  ASSUME NEW c \in Issued, c.cmd = "page", NEW s \in L!Page(c)
  PROVE  Orderly(c, s)
  <1> DEFINE newest == SubSeq(c.rows, 1, IF c.rows = <<>> THEN 0 ELSE 1)
             others == SubSeq(c.rows, 2, Len(c.rows))
             page == L!Lock(<<1, 0, 0>>, "page", Self[c.by], "X")
  <1>1. /\ s = {page} \union L!LockRows(2, others) \union L!LockRows(3, newest)
                 \union L!Insert(c, newest, c.evidence) \union L!Restatus(10, others)
        /\ c.evidence \in RowList /\ c.rows \in RowList
    BY CommandAssumption DEF L!Page, RowList
  <1>2. others \in RowList /\ newest \in RowList /\ Len(newest) <= 1
    BY <1>1 DEF RowList
  <1>3. Shape(page) /\ ~RowLock(page) /\ page.kind # "derivations"
    BY DEF Shape, RowLock, Place, L!Lock
  <1>4. \A k \in L!Insert(c, newest, c.evidence) : Shape(k) /\ ~RowLock(k)
    BY <1>1, <1>2, InsertLocks
  <1>5. \A k \in L!Restatus(10, others) : Shape(k) /\ ~RowLock(k)
    BY <1>2, RestatusLocks DEF RowList, RowLock
  <1>6. /\ \A k \in L!LockRows(2, others) :
             Shape(k) /\ k.place[1] = 2 /\ k.id \in Nat /\ \E i \in DOMAIN others : k.id = others[i]
        /\ \A k \in L!LockRows(3, newest) : Shape(k) /\ k.place[1] = 3 /\ k.id \in Nat /\ k.id = c.rows[1]
    <2>1. \A i \in DOMAIN newest : newest[i] = c.rows[1]
      BY <1>1
    <2> HIDE DEF others, newest
    <2> QED
      BY <1>2, <2>1, RowLocks DEF RowList
  <1>7. OwnLock(c) \in s
    BY <1>1, OwnIsLocked
  <1>8. \A i \in DOMAIN others : others[i] < c.rows[1]
    <2> SUFFICES ASSUME NEW i \in DOMAIN others
                 PROVE  others[i] < c.rows[1]
      OBVIOUS
    <2>1. i + 1 \in DOMAIN c.rows /\ 1 \in DOMAIN c.rows /\ 1 < i + 1 /\ others[i] = c.rows[i + 1]
      BY <1>1 DEF RowList
    <2>2. c.rows[1] > c.rows[i + 1] /\ c.rows[1] \in Nat /\ c.rows[i + 1] \in Nat
      BY <2>1, CommandIs, CommandAssumption DEF RowList
    <2> QED
      BY <2>1, <2>2
  <1> HIDE DEF others, newest, page
  <1>9. ASSUME NEW k \in s, NEW l \in s, RowLock(k), RowLock(l), L!Before(k, l) PROVE k.id < l.id
    <2>1. /\ k \in L!LockRows(2, others) \union L!LockRows(3, newest)
          /\ l \in L!LockRows(2, others) \union L!LockRows(3, newest)
      BY <1>1, <1>3, <1>4, <1>5, <1>9
    <2>2. CASE k \in L!LockRows(3, newest) /\ l \in L!LockRows(2, others)
      BY <1>6, <1>9, <2>2, BeforeIs DEF Shape
    <2>3. CASE k \in L!LockRows(2, others) /\ l \in L!LockRows(3, newest)
      BY <1>6, <1>8, <2>3
    <2> QED
      BY <1>2, <1>9, <2>1, <2>2, <2>3, RowsInOrder
  <1> QED
    BY <1>1, <1>3, <1>4, <1>5, <1>6, <1>7, <1>9 DEF Orderly

LEMMA RecallOrderly ==
  ASSUME NEW c \in Issued, c.cmd = "recall", NEW s \in L!Recall(c)
  PROVE  Orderly(c, s)
  <1>1. PICK turn \in L!Bijection(L!ToSet(c.rows), DOMAIN c.rows) :
          s = {L!ForUpdate(<<2, turn[r], 0>>, r) : r \in L!ToSet(c.rows)}
    BY DEF L!Recall
  <1>2. turn \in [L!ToSet(c.rows) -> DOMAIN c.rows] /\ DOMAIN c.rows \subseteq Nat
    BY CommandAssumption DEF L!Bijection, L!Injection, L!Surjection
  <1>3. L!ToSet(c.rows) \subseteq Nat
    BY CommandAssumption DEF L!ToSet
  <1>4. \A k \in s : Shape(k) /\ k.kind = "row"
    BY <1>1, <1>2, <1>3 DEF L!ForUpdate, L!Lock, Shape, Place
  <1> QED
    BY <1>4 DEF Orderly

\* RowLock locks are taken in the order of ids, "one lock order for every caller"; a card lock in a
\* command of one row in that of entities; and a lock on derivations under the author's entity.
LEMMA CommandsAreOrderly ==
  ASSUME NEW c \in Issued, NEW s \in L!Locks(c)
  PROVE  Orderly(c, s)
  BY CommandAssumption, WriteOrderly, SupersedeOrderly, MarkOrderly, VerdictOrderly, MergeOrderly, PageOrderly,
     RecallOrderly DEF L!Locks

-----------------------------------------------------------------------------
(* One transaction waits for another *)

LocksInv == L!TypeOK

\* The locks of a command under way.
LEMMA AtWork ==
  ASSUME LocksInv, NEW p \in Parties, NEW k \in todo[p] \union held[p]
  PROVE  /\ doing[p] \in Issued
         /\ todo[p] \union held[p] \in L!Locks(doing[p])
         /\ Orderly(doing[p], todo[p] \union held[p])
  <1>1. doing[p] \in Issued /\ todo[p] \union held[p] \in L!Locks(doing[p])
    BY DEF LocksInv, L!TypeOK
  <1> QED
    BY <1>1, CommandsAreOrderly

LEMMA BeforeIsStrict ==
  ASSUME NEW k, NEW l, Shape(k), Shape(l), L!Before(k, l)
  PROVE  k # l /\ ~L!Before(l, k) /\ k.place[1] <= l.place[1]
  BY BeforeIs DEF Shape, Place

\* What comes before the lock that is due is held.
LEMMA EarlierIsHeld ==
  ASSUME LocksInv, NEW p \in Parties, NEW l \in L!Due(p), NEW k \in todo[p] \union held[p], L!Before(k, l)
  PROVE  k \in held[p]
  <1>1. l \in todo[p]
    BY DEF L!Due
  <1>2. Shape(k) /\ Shape(l)
    BY <1>1, AtWork DEF Orderly
  <1> QED
    BY <1>2, BeforeIsStrict DEF L!Due

\* So is what comes before a lock that is held.
LEMMA EarlierThanHeld ==
  ASSUME LocksInv, NEW p \in Parties, NEW l \in held[p], NEW k \in todo[p] \union held[p], L!Before(k, l)
  PROVE  k \in held[p]
  <1>1. Shape(k) /\ Shape(l)
    BY AtWork DEF Orderly
  <1> QED
    BY <1>1, BeforeIsStrict DEF LocksInv, L!TypeOK

LEMMA OneIsDue ==
  ASSUME LocksInv, NEW p \in Parties, NEW l \in L!Due(p)
  PROVE  L!Due(p) = {l}
  <1>1. ASSUME NEW k \in L!Due(p) PROVE k = l
    <2>1. k \in todo[p] /\ l \in todo[p] /\ Shape(k) /\ Shape(l)
      BY AtWork DEF L!Due, Orderly
    <2> QED
      BY <2>1, BeforeIsStrict DEF L!Due
  <1> QED
    BY <1>1

\* Two locks in conflict are of one kind; row locks in conflict are FOR NO KEY UPDATE.
LEMMA ConflictIs ==
  ASSUME NEW k, NEW l, Shape(k), Shape(l), L!Conflict(k, l)
  PROVE  k.kind = l.kind /\ k.id = l.id /\ (k.kind = "row" => RowLock(k) /\ RowLock(l))
  BY DEF L!Conflict, L!Compatible, Shape, RowLock

\* A transaction that waits, and the lock it waits for.
LEMMA WaitIs ==
  ASSUME LocksInv, NEW p \in Parties, NEW q \in Parties, L!WaitsFor(p, q)
  PROVE  \E l \in L!Due(p), k \in held[q] :
           /\ L!Due(p) = {l} /\ l \in todo[p] /\ Shape(l) /\ Shape(k)
           /\ k.kind = l.kind /\ k.id = l.id /\ (l.kind = "row" => RowLock(k) /\ RowLock(l))
  <1>1. PICK k \in held[q], l \in todo[p] : L!Conflict(k, l) /\ l \in L!Due(p)
    BY DEF L!WaitsFor
  <1>2. Shape(k) /\ Shape(l)
    BY <1>1, AtWork DEF Orderly
  <1> QED
    BY <1>1, <1>2, OneIsDue, ConflictIs

\* The kinds in the order in which a command takes them.
Level(k) == CASE k.kind = "page" -> 1 [] k.kind = "row" -> 2 [] k.kind = "entity" -> 3
              [] k.kind = "card" -> 4 [] k.kind = "derivations" -> 5

LEMMA LevelsRise ==
  ASSUME NEW k, NEW l, Shape(k), Shape(l), L!Before(k, l),
         k.kind = "row" => RowLock(k), l.kind = "row" => RowLock(l)
  PROVE  Level(k) <= Level(l) \/ (k.kind = "derivations" /\ l.kind = "card")
  <1>1. k.place[1] <= l.place[1] /\ k.place[1] \in Nat /\ l.place[1] \in Nat
    BY BeforeIsStrict DEF Shape, Place
  <1> QED
    BY <1>1 DEF Shape, RowLock, Level

\* Two transactions of one author are never both past the author's entity, of which derivations are the end.
LEMMA OneInsertPerAuthor ==
  ASSUME LocksInv, NEW p \in Parties, NEW q \in Parties, doing[p].by = doing[q].by,
         NEW k \in L!Due(p) \union held[p], k.kind = "derivations",
         NEW l \in L!Due(q) \union held[q], l.kind = "derivations"
  PROVE  p = q
  <1>1. k \in todo[p] \union held[p] /\ l \in todo[q] \union held[q]
    BY DEF L!Due
  <1>2. /\ Orderly(doing[p], todo[p] \union held[p]) /\ Orderly(doing[q], todo[q] \union held[q])
        /\ doing[p] \in Issued /\ doing[q] \in Issued
    BY <1>1, AtWork
  <1>3. /\ OwnLock(doing[p]) \in todo[p] \union held[p] /\ OwnLock(doing[q]) \in todo[q] \union held[q]
        /\ Shape(k) /\ Shape(l) /\ Shape(OwnLock(doing[p])) /\ Shape(OwnLock(doing[q]))
    BY <1>1, <1>2 DEF Orderly
  <1>4. L!Before(OwnLock(doing[p]), k) /\ L!Before(OwnLock(doing[q]), l)
    BY <1>3, BeforeIs DEF Shape, OwnLock, L!Lock
  <1>5. OwnLock(doing[p]) \in held[p] /\ OwnLock(doing[q]) \in held[q]
    BY <1>3, <1>4, EarlierIsHeld, EarlierThanHeld
  <1>6. L!Conflict(OwnLock(doing[p]), OwnLock(doing[q]))
    BY DEF L!Conflict, L!Compatible, OwnLock, L!Lock
  <1> QED
    BY <1>5, <1>6 DEF LocksInv, L!TypeOK

-----------------------------------------------------------------------------
(* Deadlocks *)

\* No part of a deadlock waits for itself alone.
LEMMA NoSmaller ==
  ASSUME NEW S \in L!Deadlocks, NEW T \in SUBSET S, T # {}, \A p \in T : \E q \in T : L!WaitsFor(p, q)
  PROVE  T = S
  BY DEF L!Deadlocks, L!Stuck

\* p waits for l, which q holds as k; and q for m, which comes after that.
Meets(p, q, l, k, m) ==
  /\ L!WaitsFor(p, q) /\ l \in L!Due(p) /\ k \in held[q] /\ m \in L!Due(q)
  /\ k.kind = l.kind /\ k.id = l.id /\ Shape(k) /\ Shape(l) /\ (l.kind = "row" => RowLock(k) /\ RowLock(l))
  /\ k \in todo[q] \union held[q] /\ m \in todo[q] \union held[q] /\ L!Before(k, m)
  /\ Shape(m) /\ (m.kind = "row" => RowLock(m))
  /\ Level(k) <= Level(m) \/ (k.kind = "derivations" /\ m.kind = "card")

\* What p waits for is held by another of the deadlock, which waits for something no earlier.
LEMMA NextInCircle ==
  ASSUME LocksInv, NEW S \in L!Deadlocks, NEW p \in S
  PROVE  \E q \in S : \E l, k, m : Meets(p, q, l, k, m)
  <1>1. S \subseteq Parties /\ \A r \in S : \E q \in S : L!WaitsFor(r, q)
    BY DEF L!Deadlocks, L!Stuck
  <1>2. PICK q \in S : L!WaitsFor(p, q)
    BY <1>1
  <1>3. PICK r \in S : L!WaitsFor(q, r)
    BY <1>1
  <1>4. PICK l \in L!Due(p), k \in held[q] :
          Shape(l) /\ Shape(k) /\ k.kind = l.kind /\ k.id = l.id /\ (l.kind = "row" => RowLock(k) /\ RowLock(l))
    BY <1>1, <1>2, WaitIs
  <1>5. PICK m \in L!Due(q) : m \in todo[q] /\ Shape(m) /\ (m.kind = "row" => RowLock(m))
    BY <1>1, <1>3, WaitIs
  <1>6. L!Before(k, m)
    BY <1>1, <1>5 DEF LocksInv, L!TypeOK
  <1> QED
    BY <1>2, <1>4, <1>5, <1>6, LevelsRise DEF Meets

\* What each of a deadlock waits for is of one kind.
OfKind(S, kind) == \A p \in S : \A l \in L!Due(p) : l.kind = kind

\* A command that retires rows after it has locked derivations waits for a card: so do all.
LEMMA CardsOnly ==
  ASSUME LocksInv, NEW S \in L!Deadlocks, NEW p \in S, NEW c \in L!Due(p), c.kind = "card",
         NEW d \in held[p], d.kind = "derivations"
  PROVE  OfKind(S, "card")
  <1> DEFINE T == {q \in S : doing[q].by = doing[p].by /\ \E l \in L!Due(q) : l.kind = "card"}
  <1>1. S \subseteq Parties
    BY DEF L!Deadlocks
  <1>2. ASSUME NEW q \in T PROVE \E r \in T : L!WaitsFor(q, r)
    <2>0. PICK r \in S : \E l, k, m : Meets(q, r, l, k, m)
      BY NextInCircle
    <2>1. PICK l, k, m : Meets(q, r, l, k, m)
      BY <2>0
    <2>2. PICK n \in L!Due(q) : n.kind = "card"
      OBVIOUS
    <2>3. l = n /\ l \in todo[q]
      BY <1>1, <2>1, <2>2, OneIsDue DEF L!Due, Meets
    <2>4. m.kind \in {"card", "derivations"}
      BY <2>1, <2>2, <2>3 DEF Shape, Level, Meets
    <2>5. /\ doing[q] \in Issued /\ todo[q] \union held[q] \in L!Locks(doing[q]) /\ l \in todo[q] \union held[q]
          /\ doing[r] \in Issued /\ todo[r] \union held[r] \in L!Locks(doing[r]) /\ k \in todo[r] \union held[r]
      BY <1>1, <2>1, <2>3, AtWork DEF Meets
    <2>6. doing[r].by = doing[q].by
      BY <2>1, <2>2, <2>3, <2>5, EntityAssumption DEF Meets
    <2>7. m.kind = "card"
      <3> SUFFICES ASSUME m.kind = "derivations"
                   PROVE  FALSE
        BY <2>4
      <3>1. r = p
        BY <1>1, <2>1, <2>6, OneInsertPerAuthor DEF Meets
      <3> QED
        BY <1>1, <2>1, <3>1, OneIsDue DEF Meets
    <2> QED
      BY <2>1, <2>6, <2>7 DEF Meets
  <1>3. p \in T
    OBVIOUS
  <1>4. T = S
    <2>1. T \in SUBSET S /\ T # {}
      BY <1>3
    <2> HIDE DEF T
    <2> QED
      BY <1>2, <2>1, NoSmaller
  <1>5. ASSUME NEW q \in S, NEW l \in L!Due(q) PROVE l.kind = "card"
    <2>1. PICK n \in L!Due(q) : n.kind = "card"
      BY <1>4
    <2> QED
      BY <1>1, <2>1, OneIsDue
  <1> QED
    BY <1>5 DEF OfKind

\* Otherwise no kind is waited for by a part of the deadlock, since kinds are taken in order.
LEMMA SameLevel ==
  ASSUME LocksInv, NEW S \in L!Deadlocks,
         \A p \in S : \A c \in L!Due(p), d \in held[p] : ~ (c.kind = "card" /\ d.kind = "derivations"),
         NEW p \in S, NEW q \in S, NEW l \in L!Due(p), NEW m \in L!Due(q)
  PROVE  Level(m) <= Level(l)
  <1> DEFINE T == {r \in S : \E k \in L!Due(r) : Level(m) <= Level(k)}
  <1>1. S \subseteq Parties
    BY DEF L!Deadlocks
  <1>2. ASSUME NEW r \in T PROVE \E s \in T : L!WaitsFor(r, s)
    <2>0. PICK s \in S : \E a, k, b : Meets(r, s, a, k, b)
      BY NextInCircle
    <2>1. PICK a, k, b : Meets(r, s, a, k, b)
      BY <2>0
    <2>2. Level(m) <= Level(a)
      BY <1>1, <2>1, OneIsDue DEF Meets
    <2>3. Shape(m)
      BY <1>1, AtWork DEF L!Due, Orderly
    <2>4. Level(a) = Level(k) /\ Level(k) <= Level(b)
      BY <2>1 DEF Level, Meets
    <2>5. Level(m) \in Nat /\ Level(a) \in Nat /\ Level(b) \in Nat
      BY <2>1, <2>3 DEF Shape, Level, Meets
    <2> QED
      BY <2>1, <2>2, <2>4, <2>5 DEF Meets
  <1>3. q \in T
    <2>1. Shape(m)
      BY <1>1, AtWork DEF L!Due, Orderly
    <2>2. Level(m) \in Nat
      BY <2>1 DEF Shape, Level
    <2> QED
      BY <2>2
  <1>4. T = S
    <2>1. T \in SUBSET S /\ T # {}
      BY <1>3
    <2> HIDE DEF T
    <2> QED
      BY <1>2, <2>1, NoSmaller
  <1> QED
    BY <1>1, <1>4, OneIsDue

LEMMA OneKindOnly ==
  ASSUME LocksInv, NEW S \in L!Deadlocks
  PROVE  \E kind : OfKind(S, kind) /\ L!WaitKinds(S) = {kind}
  <1>1. S \subseteq Parties /\ S # {}
    BY DEF L!Deadlocks, L!Stuck
  <1>2. PICK p \in S : TRUE
    BY <1>1
  <1>3. PICK l \in L!Due(p) : TRUE
    BY <1>2, NextInCircle DEF Meets
  <1>4. OfKind(S, l.kind)
    <2>1. CASE \E q \in S : \E c \in L!Due(q), d \in held[q] : c.kind = "card" /\ d.kind = "derivations"
      BY <1>2, <1>3, <2>1, CardsOnly DEF OfKind
    <2>2. CASE \A q \in S : \A c \in L!Due(q), d \in held[q] : ~ (c.kind = "card" /\ d.kind = "derivations")
      <3> SUFFICES ASSUME NEW q \in S, NEW m \in L!Due(q)
                   PROVE  m.kind = l.kind
        BY DEF OfKind
      <3>1. Level(m) <= Level(l) /\ Level(l) <= Level(m)
        BY <1>2, <1>3, <2>2, SameLevel
      <3>2. Shape(m) /\ Shape(l)
        BY <1>1, <1>2, <1>3, AtWork DEF L!Due, Orderly
      <3> QED
        BY <3>1, <3>2 DEF Shape, Level
    <2> QED
      BY <2>1, <2>2
  <1>5. L!WaitKinds(S) = {l.kind}
    BY <1>2, <1>3, <1>4 DEF L!WaitKinds, OfKind
  <1> QED
    BY <1>4, <1>5

\* Where the locks waited for are taken in the order of their ids, nobody waits in a circle.
LEMMA NoCircle ==
  ASSUME LocksInv, NEW S \in L!Deadlocks,
         \A q \in S : \A k \in held[q], m \in L!Due(q) :
           k.kind = m.kind /\ Shape(k) /\ Shape(m) /\ L!Before(k, m)
             /\ (k.kind = "row" => RowLock(k) /\ RowLock(m))
             => k.id \in Nat /\ m.id \in Nat /\ k.id < m.id,
         NEW kind, OfKind(S, kind)
  PROVE  FALSE
  <1>1. S \subseteq Parties /\ S # {}
    BY DEF L!Deadlocks, L!Stuck
  <1>2. ASSUME NEW p \in S, NEW n \in L!Due(p)
        PROVE  \E q \in S : L!WaitsFor(p, q) /\ \E m \in L!Due(q) : m.id \in Nat /\ n.id \in Nat /\ n.id < m.id
    <2>1. PICK q \in S : \E l, k, m : Meets(p, q, l, k, m)
      BY NextInCircle
    <2>2. PICK l, k, m : Meets(p, q, l, k, m)
      BY <2>1
    <2>3. l = n /\ k.id = n.id
      BY <1>1, <1>2, <2>2, OneIsDue DEF Meets
    <2>4. k.kind = m.kind
      BY <2>2 DEF Meets, OfKind
    <2>5. k.id \in Nat /\ m.id \in Nat /\ k.id < m.id
      BY <2>2, <2>4 DEF Meets
    <2> QED
      BY <2>2, <2>3, <2>5 DEF Meets
  <1>3. PICK p \in S : TRUE
    BY <1>1
  <1>4. PICK n \in L!Due(p) : TRUE
    BY <1>3, NextInCircle DEF Meets
  <1>5. PICK q \in S : \E m \in L!Due(q) : m.id \in Nat /\ n.id \in Nat /\ n.id < m.id
    BY <1>2, <1>3, <1>4
  <1>6. PICK m \in L!Due(q) : m.id \in Nat /\ n.id \in Nat /\ n.id < m.id
    BY <1>5
  <1> DEFINE T == {r \in S : \E x \in L!Due(r) : x.id \in Nat /\ m.id <= x.id}
  <1>7. T = S
    <2>1. q \in T /\ T \subseteq S
      BY <1>6
    <2>2. ASSUME NEW r \in T PROVE \E s \in T : L!WaitsFor(r, s)
      <3>1. PICK x \in L!Due(r) : x.id \in Nat /\ m.id <= x.id
        OBVIOUS
      <3>2. PICK s \in S : L!WaitsFor(r, s) /\ \E y \in L!Due(s) : y.id \in Nat /\ x.id < y.id
        BY <1>2, <3>1
      <3> QED
        BY <1>6, <3>1, <3>2
    <2> HIDE DEF T
    <2> QED
      BY <2>1, <2>2, NoSmaller
  <1>8. PICK x \in L!Due(p) : x.id \in Nat /\ m.id <= x.id
    BY <1>7
  <1>9. x = n
    BY <1>1, <1>4, OneIsDue
  <1> QED
    BY <1>6, <1>8, <1>9

LEMMA KnownDeadlocks ==
  ASSUME LocksInv
  PROVE  L!DeadlocksAreKnown
  <1> SUFFICES ASSUME NEW S \in L!Deadlocks
               PROVE  L!OneKind(S) /\ L!RowOrder(S) /\ L!CardOrder(S) /\ L!EdgesAcrossAuthors(S)
    BY DEF L!DeadlocksAreKnown
  <1>1. S \subseteq Parties
    BY DEF L!Deadlocks
  <1>2. PICK kind : OfKind(S, kind) /\ L!WaitKinds(S) = {kind}
    BY OneKindOnly
  <1>3. L!OneKind(S)
    BY <1>2 DEF L!OneKind
  <1>4. \A q \in S : \A k \in held[q], m \in L!Due(q) :
          /\ doing[q] \in Issued /\ Orderly(doing[q], todo[q] \union held[q])
          /\ k \in todo[q] \union held[q] /\ m \in todo[q] \union held[q]
    BY <1>1, AtWork DEF L!Due
  <1>5. L!RowOrder(S)
    <2> SUFFICES ASSUME kind = "row", \A p \in S : doing[p].cmd # "recall"
                 PROVE  FALSE
      BY <1>2 DEF L!RowOrder
    <2>1. ASSUME NEW q \in S, NEW k \in held[q], NEW m \in L!Due(q), k.kind = m.kind, L!Before(k, m),
                 Shape(k), Shape(m), k.kind = "row" => RowLock(k) /\ RowLock(m)
          PROVE  k.id \in Nat /\ m.id \in Nat /\ k.id < m.id
      BY <1>2, <1>4, <2>1 DEF Orderly, OfKind, Shape, RowLock
    <2> QED
      BY <1>2, <2>1, NoCircle
  <1>6. L!CardOrder(S)
    <2> SUFFICES ASSUME kind = "card", \A p \in S : doing[p].cmd \in {"write", "mark"}
                 PROVE  FALSE
      BY <1>2 DEF L!CardOrder
    <2>1. ASSUME NEW q \in S, NEW k \in held[q], NEW m \in L!Due(q), k.kind = m.kind, L!Before(k, m),
                 Shape(k), Shape(m)
          PROVE  k.id \in Nat /\ m.id \in Nat /\ k.id < m.id
      BY <1>2, <1>4, <2>1 DEF Orderly, OfKind, Shape
    <2> QED
      BY <1>2, <2>1, NoCircle
  <1>7. L!EdgesAcrossAuthors(S)
    <2> SUFFICES ASSUME kind = "derivations", NEW p \in S, NEW q \in S, p # q, doing[p].by = doing[q].by
                 PROVE  FALSE
      BY <1>2 DEF L!EdgesAcrossAuthors
    <2>1. PICK k \in L!Due(p), l \in L!Due(q) : k.kind = "derivations" /\ l.kind = "derivations"
      BY <1>2, NextInCircle DEF Meets, OfKind
    <2> QED
      BY <1>1, <2>1, OneInsertPerAuthor
  <1> QED
    BY <1>3, <1>5, <1>6, <1>7

-----------------------------------------------------------------------------
(* Locks taken and released *)

\* A transaction gets the lock it takes next, when no other holds one against it.
LEMMA AcquireTypes ==
  ASSUME LocksInv, NEW p \in Parties, L!Acquire(p)
  PROVE  LocksInv'
  <1> USE DEF LocksInv, L!TypeOK
  <1>1. PICK l \in L!Due(p) : /\ held' = [held EXCEPT ![p] = @ \union {l}]
                              /\ todo' = [todo EXCEPT ![p] = @ \ {l}]
    BY DEF L!Acquire
  <1>2. l \in todo[p] /\ \A k \in todo[p] \ {l} : L!Before(l, k)
    BY DEF L!Due
  <1>3. ASSUME NEW q \in Parties, q # p, NEW k \in held[q] PROVE ~ L!Conflict(k, l) /\ ~ L!Conflict(l, k)
    BY <1>2, <1>3 DEF L!Acquire, L!WaitsFor, L!Conflict
  <1>4. /\ doing' = doing
        /\ \A q \in Parties : /\ todo'[q] = IF q = p THEN todo[q] \ {l} ELSE todo[q]
                              /\ held'[q] = IF q = p THEN held[q] \union {l} ELSE held[q]
    BY <1>1 DEF L!Acquire
  <1>5. DOMAIN todo' = Parties /\ DOMAIN held' = Parties
    BY <1>1
  <1>6. ASSUME NEW q \in Parties
        PROVE  /\ todo'[q] \union held'[q] = todo[q] \union held[q]
               /\ \A k \in held'[q], m \in todo'[q] : L!Before(k, m)
    BY <1>2, <1>4
  <1>7. ASSUME NEW q \in Parties, NEW r \in Parties, q # r, NEW k \in held'[q], NEW m \in held'[r]
        PROVE  ~ L!Conflict(k, m)
    BY <1>3, <1>4, <1>7
  <1> QED
    BY <1>4, <1>5, <1>6, <1>7

LEMMA ReleaseTypes ==
  ASSUME LocksInv, NEW p \in Parties, L!Release(p)
  PROVE  LocksInv'
  <1> USE DEF LocksInv, L!TypeOK
  <1>1. /\ doing' = doing /\ DOMAIN todo' = Parties /\ DOMAIN held' = Parties
        /\ \A q \in Parties : /\ todo'[q] = IF q = p THEN {} ELSE todo[q]
                              /\ held'[q] = IF q = p THEN {} ELSE held[q]
    BY DEF L!Release
  <1>2. ASSUME NEW q \in Parties
        PROVE  /\ todo'[q] \union held'[q] \in L!Locks(doing'[q]) \union {{}}
               /\ \A k \in held'[q], m \in todo'[q] : L!Before(k, m)
    BY <1>1
  <1>3. ASSUME NEW q \in Parties, NEW r \in Parties, q # r, NEW k \in held'[q], NEW m \in held'[r]
        PROVE  ~ L!Conflict(k, m)
    BY <1>1, <1>3
  <1> QED
    BY <1>1, <1>2, <1>3

LEMMA LocksStep ==
  ASSUME LocksInv, [L!Next]_(L!vars)
  PROVE  LocksInv'
  <1>1. ASSUME NEW p \in Parties, L!Acquire(p) PROVE LocksInv'
    BY <1>1, AcquireTypes
  <1>2. ASSUME NEW p \in Parties, L!Release(p) PROVE LocksInv'
    BY <1>2, ReleaseTypes
  <1>3. CASE UNCHANGED L!vars
    BY <1>3 DEF L!vars, LocksInv, L!TypeOK
  <1>4. CASE L!Next
    BY <1>1, <1>2, <1>4 DEF L!Next, L!Commit, L!Victim, L!Deadlocks
  <1> QED
    BY <1>3, <1>4

LEMMA LocksBegin ==
  ASSUME L!Init
  PROVE  LocksInv
  <1>1. PICK T \in [Parties -> L!Transactions] : /\ doing = [p \in Parties |-> T[p].cmd]
                                                 /\ todo = [p \in Parties |-> T[p].locks]
                                                 /\ held = [p \in Parties |-> {}]
    BY DEF L!Init
  <1>2. \A p \in Parties : T[p].cmd \in Issued /\ T[p].locks \in L!Locks(T[p].cmd)
    BY DEF L!Transactions
  <1> QED
    BY <1>1, <1>2 DEF LocksInv, L!TypeOK

\* For any sessions, commands and rows: those that lock rows alone never deadlock, and the store
\* deadlocks in the ways it is known to and in no other: on entities, on the cards of several rows,
\* on derivations between authors, on rows with a recall (do_write, _apply and do_page_upsert of
\* mem_ops.py, and the triggers in sql/).
THEOREM DeadlocksAreKnownCorrect == Spec /\ L!Spec => []DeadlocksAreKnown
  <1>1. L!Init => LocksInv
    BY LocksBegin
  <1>2. LocksInv /\ [L!Next]_(L!vars) => LocksInv'
    BY LocksStep
  <1>3. LocksInv => L!DeadlocksAreKnown
    BY KnownDeadlocks
  <1>4. L!Spec => []L!DeadlocksAreKnown
    BY <1>1, <1>2, <1>3, PTL DEF L!Spec
  <1>5. Spec => []NoLockCycle
    BY NoLockCycleCorrect
  <1>6. NoLockCycle /\ L!DeadlocksAreKnown => DeadlocksAreKnown
    BY DEF DeadlocksAreKnown
  <1> QED
    BY <1>4, <1>5, <1>6, PTL
=============================================================================
