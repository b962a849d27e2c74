------------------------------ MODULE StoreLocks ------------------------------
(***************************************************************************)
(* The locks of the memory store, below and beside the rows' own.  Each    *)
(* command of ingest/mem_ops.py is one transaction: the locks that its     *)
(* statements, their triggers and their foreign keys take one by one and   *)
(* that are all released when it ends.  MemoryStore says what the commands *)
(* do to the rows; this module says in which order they wait.  A lock has  *)
(* its place in the command: the statement, its turn there, and a number   *)
(* within that.                                                            *)
(*                                                                         *)
(* PostgreSQL ends a deadlock by aborting one of the transactions in it,   *)
(* and its command fails.  The locks are fixed when the command begins; a  *)
(* command that is refused half-way releases what it holds as Commit does. *)
(* A derivation locks what a write with evidence does.                     *)
(***************************************************************************)
EXTENDS Naturals, Sequences, FiniteSets, SequencesExt

CONSTANTS Procs,
          Commands,    \* the commands issued in an instance
          Endpoints,   \* each memory row's observer and observed entities
          Self         \* each author's own entity (identity, peer)

VARIABLES doing,       \* each session's command
          todo,        \* the locks it has still to take
          held         \* those it holds

vars == <<doing, todo, held>>

Lock(place, kind, id, mode) == [place |-> place, kind |-> kind, id |-> id, mode |-> mode]

\* k is taken before l.
Before(k, l) == \E n \in 1..3 : k.place[n] < l.place[n] /\ \A m \in 1..(n - 1) : k.place[m] = l.place[m]

\* Modes that two transactions may hold at once; any other pair conflicts.
Compatible == {{"KEY_SHARE"}, {"KEY_SHARE", "NO_KEY_UPDATE"}, {"ROW_EXCLUSIVE"}}

Conflict(k, l) == k.kind = l.kind /\ k.id = l.id /\ {k.mode, l.mode} \notin Compatible

-----------------------------------------------------------------------------
(* What each statement locks.  The statements of a command, in order: 1 the page, 2 rows, 3 the row  *)
(* superseded, 4 to 6 entities, 7 the new row's cards, 8 the superseded row's, 9 evidence, 10 the    *)
(* cards of rows retired.                                                                            *)

ForUpdate(place, r) == Lock(place, "row", r, "NO_KEY_UPDATE")

\* ORDER BY id.
LockRows(at, rows) == {ForUpdate(<<at, r, 0>>, r) : r \in ToSet(rows)}

\* ensure_entity: an upsert that writes.
Entity(at, e) == IF e = 0 THEN {} ELSE {Lock(<<at, 0, 0>>, "entity", e, "NO_KEY_UPDATE")}

\* sync_memory_perspective, before every insert.
OwnEntity(a) == Entity(6, Self[a])

\* Mutant of Cards: the observer's card first.
CardsAsGiven(at, turn, a, b) == {Lock(<<at, turn, 1>>, "card", a, "X"), Lock(<<at, turn, 2>>, "card", b, "X")}

\* refresh_memory_peer_cards: the cards of one row, "in stable order".
Cards(at, turn, a, b) == {Lock(<<at, turn, e>>, "card", e, "X") : e \in {a, b}}

\* An UPDATE of status: the row is locked, its cards are refreshed.
Restatus(at, rows) == UNION {Cards(at, i, Endpoints[rows[i]][1], Endpoints[rows[i]][2]) : i \in DOMAIN rows}

\* One INSERT INTO mem.derivations: the statement's own lock, guard_derivation's,
\* and the foreign key's on the evidence.
Edge(i, r) == {Lock(<<9, i, 1>>, "derivations", 0, "ROW_EXCLUSIVE"),
               Lock(<<9, i, 2>>, "derivations", 0, "SHARE_ROW_EXCLUSIVE"),
               Lock(<<9, i, 3>>, "row", r, "KEY_SHARE")}

Edges(rows) == UNION {Edge(i, rows[i]) : i \in DOMAIN rows}

Or(given, default) == IF given = 0 THEN default ELSE given

\* do_write from ensure_entity on: the insert, the old row, the evidence.  An endpoint
\* not given (0) is the old row's, or else the author.
Insert(c, old, evidence) ==
  LET given == IF old = <<>> THEN <<Or(c.observer, Self[c.by]), Or(c.observed, Self[c.by])>>
               ELSE <<c.observer, c.observed>>
      ends == IF old = <<>> THEN given
              ELSE <<Or(c.observer, Endpoints[old[1]][1]), Or(c.observed, Endpoints[old[1]][2])>>
  IN Entity(4, given[1]) \union Entity(5, given[2]) \union OwnEntity(c.by)
       \union Cards(7, 0, ends[1], ends[2]) \union Restatus(8, old) \union Edges(evidence \o old)

-----------------------------------------------------------------------------
(* What each command locks: one set of locks, or several where the order is not its own *)

Write(c) == {Insert(c, <<>>, c.evidence)}

Supersede(c) == {LockRows(3, c.rows) \union Insert(c, c.rows, c.evidence)}

Mark(c) == {LockRows(2, c.rows) \union Restatus(10, c.rows)}

\* A supersede verdict: every member locked, the losers retired in the order given.
Verdict(c) == {LockRows(2, c.rows) \union Restatus(10, Tail(c.rows))}

Merge(c) == {LockRows(2, c.rows) \union Insert(c, <<>>, c.rows) \union Restatus(10, c.rows)}

\* do_page_upsert: the prior pages, newest first; the newest, if any, is superseded, the others
\* retired after the write.
Page(c) ==
  LET newest == SubSeq(c.rows, 1, IF c.rows = <<>> THEN 0 ELSE 1)
      others == SubSeq(c.rows, 2, Len(c.rows))
  IN {{Lock(<<1, 0, 0>>, "page", Self[c.by], "X")} \union LockRows(2, others) \union LockRows(3, newest)
        \union Insert(c, newest, c.evidence) \union Restatus(10, others)}

\* touch_memory_access: one UPDATE of the rows found, in the order its plan meets them.
Recall(c) ==
  {{ForUpdate(<<2, turn[r], 0>>, r) : r \in ToSet(c.rows)} : turn \in Bijection(ToSet(c.rows), DOMAIN c.rows)}

Locks(c) ==
  CASE c.cmd = "write" -> Write(c)
    [] c.cmd = "supersede" -> Supersede(c)
    [] c.cmd = "mark" -> Mark(c)
    [] c.cmd = "verdict" -> Verdict(c)
    [] c.cmd = "merge" -> Merge(c)
    [] c.cmd = "page" -> Page(c)
    [] c.cmd = "recall" -> Recall(c)

Transactions == UNION {{[cmd |-> c, locks |-> s] : s \in Locks(c)} : c \in Commands}

Init ==
  \E T \in [Procs -> Transactions] :
    /\ doing = [p \in Procs |-> T[p].cmd]
    /\ todo = [p \in Procs |-> T[p].locks]
    /\ held = [p \in Procs |-> {}]

-----------------------------------------------------------------------------
(* Waiting *)

\* The lock p takes next.
Due(p) == {l \in todo[p] : \A k \in todo[p] \ {l} : Before(l, k)}

\* p waits for a lock that q holds.
WaitsFor(p, q) == p # q /\ \E k \in held[q], l \in todo[p] : Conflict(k, l) /\ l \in Due(p)

Acquire(p) ==
  /\ \A q \in Procs : ~ WaitsFor(p, q)
  /\ \E l \in Due(p) : /\ held' = [held EXCEPT ![p] = @ \union {l}]
                       /\ todo' = [todo EXCEPT ![p] = @ \ {l}]
  /\ UNCHANGED doing

Release(p) ==
  /\ held' = [held EXCEPT ![p] = {}]
  /\ todo' = [todo EXCEPT ![p] = {}]
  /\ UNCHANGED doing

Commit(p) == todo[p] = {} /\ held[p] # {} /\ Release(p)

\* A set of transactions none of which can go on before another of them, and the
\* smallest such sets.
Stuck(S) == S # {} /\ \A p \in S : \E q \in S : WaitsFor(p, q)
Deadlocks == {S \in SUBSET Procs : Stuck(S) /\ \A T \in SUBSET S : Stuck(T) => T = S}

Victim == \E S \in Deadlocks : \E p \in S : Release(p)

Next == (\E p \in Procs : Acquire(p) \/ Commit(p)) \/ Victim

Spec == Init /\ [][Next]_vars

-----------------------------------------------------------------------------
(* Which deadlocks there are *)

\* A transaction holds the first of its locks, and no two hold locks that conflict.
TypeOK ==
  /\ doing \in [Procs -> Commands] /\ DOMAIN todo = Procs /\ DOMAIN held = Procs
  /\ \A p \in Procs : /\ todo[p] \union held[p] \in Locks(doing[p]) \union {{}}
                      /\ \A k \in held[p], l \in todo[p] : Before(k, l)
  /\ \A p, q \in Procs : p # q => \A k \in held[p], l \in held[q] : ~ Conflict(k, l)

WaitKinds(S) == {l.kind : l \in UNION {Due(p) : p \in S}}

\* A deadlock is always about locks of one kind: what is taken in two kinds is taken in one
\* order (the page, rows, entities), or under the author's entity, which inserts of one
\* author hold to the end; and evidence is shared with a row lock, not against it ("a
\* stronger lock would block foreign-key checks").
OneKind(S) == \A kind, other \in WaitKinds(S) : kind = other

\* "Ascending ids, one lock order for every caller": commands that change memories never
\* deadlock on their rows.  A recall, which counts what it found, may.
RowOrder(S) == WaitKinds(S) = {"row"} => \E p \in S : doing[p].cmd = "recall"

\* The trigger takes one row's cards in one order: a deadlock on cards needs a
\* command that changes several rows.
CardOrder(S) == WaitKinds(S) = {"card"} => \E p \in S : doing[p].cmd \notin {"write", "mark"}

\* guard_derivation upgrades a table lock, which two inserts deadlock on; the author's
\* entity, taken before, keeps it to inserts of different authors.
EdgesAcrossAuthors(S) ==
  WaitKinds(S) = {"derivations"} => \A p, q \in S : p # q => doing[p].by # doing[q].by

\* Every deadlock of the store is one of these.
DeadlocksAreKnown ==
  \A S \in Deadlocks : OneKind(S) /\ RowOrder(S) /\ CardOrder(S) /\ EdgesAcrossAuthors(S)

\* "concurrent writes cannot ... deadlock on swapped endpoints".
EndpointsNeverDeadlock == \A S \in Deadlocks : WaitKinds(S) # {"entity"}
=============================================================================
