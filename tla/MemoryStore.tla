---------------------------- MODULE MemoryStore ----------------------------
(***************************************************************************)
(* The memory store behind ingest/mem_ops.py: rows of mem.memories, their  *)
(* belief time (created_at, retired_at, metadata.retired_intervals), and   *)
(* the READ COMMITTED transactions that write, supersede, mark, merge,     *)
(* derive and rebuild pages, with the FOR NO KEY UPDATE row locks they     *)
(* take.  A transaction is a process that is idle, waiting for its row     *)
(* locks ("lock"), holding them all ("ready"), or holding the created_at   *)
(* of a row it has inserted and not committed ("learned").  Nothing it     *)
(* writes is visible to another transaction before it commits, so its      *)
(* writes are applied to rows by the commit.                               *)
(***************************************************************************)
EXTENDS Naturals, FiniteSets, Sequences

CONSTANTS Procs,        \* database sessions, each running one command at a time
          Authors,      \* identities (mem.reader())
          Nobody,       \* the identity of a session that runs no command
          Projects,     \* canonical project tags
          NoProject,    \* SQL NULL in the project column
          Membership,   \* mem.project_members: pairs <<author, project>>
          Commands,     \* the mem_ops commands issued in an instance
          MaxTx         \* bound: how many commands are ever issued

ASSUME NoProjectAssumption == NoProject \notin Projects
ASSUME NobodyAssumption == Nobody \notin Authors
ASSUME MaxTxAssumption == MaxTx \in Nat

VARIABLES rows,     \* committed rows of mem.memories, by id
          nextId,   \* the id sequence; an id taken by an aborted insert is lost
          now,      \* clock_timestamp()
          tx,       \* the transaction each session is running
          queue,    \* mem.review_queue, in id order
          begun     \* commands issued so far (bounded by MaxTx)

vars == <<rows, nextId, now, tx, queue, begun>>

-----------------------------------------------------------------------------
(* Rows *)

Null == 0           \* no instant: the clock reads 1 and later

Statuses == {"active", "superseded", "retracted", "expired"}
Scopes   == {"private", "project"}
Kinds    == {"explicit", "page", "derived"}
Interval == [from : Nat, to : Nat]

Row == [status    : Statuses,
        author    : Authors,
        scope     : Scopes,
        project   : Projects \union {NoProject},
        kind      : Kinds,
        created   : Nat,                \* created_at
        retired   : Nat,                \* retired_at, Null while believed
        intervals : SUBSET Interval,    \* metadata.retired_intervals
        replaced  : SUBSET Nat,         \* supersedes_id, merged_from, prior pages
        evidence  : SUBSET Nat,         \* summarizes / inferred_from edges
        review    : Nat]                \* the review that asked for it, or 0

Active(i) == i \in DOMAIN rows /\ rows[i].status = "active"

\* The as_of filter: learned by t, not retired by t, and not inside an earlier
\* retirement that a later reactivation closed, whatever the row's status is today.
BelievedAt(r, t) ==
  /\ r.created <= t
  /\ r.retired = Null \/ r.retired > t
  /\ ~ \E iv \in r.intervals : iv.from <= t /\ iv.to > t

\* What search with as_of = t returns, before any reader's filter.
AsOf(t) == {i \in DOMAIN rows : BelievedAt(rows[i], t)}

\* Mutant of KeepBeliefTime: the trigger is not installed.
NoTrigger(old, new, t) == new

\* Mutant of KeepBeliefTime: a reactivation by hand keeps the old retired_at.
TriggerStampsOnly(old, new, t) ==
  IF old.status = "active" /\ new.status # "active" /\ new.retired = Null
    THEN [new EXCEPT !.retired = t]
    ELSE new

\* The trigger before every UPDATE of status: belief time for writers that
\* leave it alone; a writer that set it already is untouched.
KeepBeliefTime(old, new, t) ==
  IF old.status = "active" /\ new.status # "active" /\ new.retired = Null
    THEN [new EXCEPT !.retired = t]
  ELSE IF old.status # "active" /\ new.status = "active" /\ new.retired # Null
    THEN [new EXCEPT !.retired = Null,
                     !.intervals = IF new.retired < t
                                     THEN @ \union {[from |-> new.retired, to |-> t]}
                                     ELSE @]
  ELSE new

\* do_write's supersede, _retire_members and do_page_upsert: retire at t.
Supersede(row, t) ==
  KeepBeliefTime(row, [row EXCEPT !.status = "superseded", !.retired = t], t)

\* Mutant of Mark: every mark restamps retired_at (no COALESCE).
MarkRestamps(row, st, t) ==
  KeepBeliefTime(row,
    [row EXCEPT !.status = st, !.retired = IF st = "active" THEN Null ELSE t], t)

\* Mutant of Mark: a reactivation clears retired_at and records no interval.
MarkForgets(row, st, t) ==
  [row EXCEPT !.status = st,
              !.retired = IF st = "active" THEN Null ELSE IF @ = Null THEN t ELSE @]

\* The UPDATE of the mark command.
Mark(row, st, t) ==
  KeepBeliefTime(row,
    [row EXCEPT
       !.status = st,
       !.retired = IF st = "active" THEN Null
                   ELSE IF @ = Null THEN t ELSE @,
       !.intervals = IF st = "active" /\ row.retired # Null /\ row.retired < t
                       THEN @ \union {[from |-> row.retired, to |-> t]}
                       ELSE @],
    t)

\* An UPDATE of status alone, by hand or by a writer older than retired_at.
HandUpdate(row, st, t) == KeepBeliefTime(row, [row EXCEPT !.status = st], t)

MayPublish(a, pr) == pr # NoProject /\ <<a, pr>> \in Membership

MayRead(a, i) ==
  \/ rows[i].author = a
  \/ rows[i].scope = "project" /\ <<a, rows[i].project>> \in Membership

\* The audiences a caller may ask for: a project-scoped row needs a project.
Audiences == {au \in Scopes \X (Projects \union {NoProject}) :
                au[1] = "project" => au[2] # NoProject}

-----------------------------------------------------------------------------
(* Transactions *)

Review == [action : {"merge", "pick", "derive"}, members : SUBSET Nat,
           winner : Nat, author : Authors,
           status : {"pending", "approved", "rejected"}, applied : BOOLEAN]

Idle == [pc |-> "idle", cmd |-> "none", who |-> Nobody, group |-> {},
         held |-> {}, winner |-> 0, to |-> "active", scope |-> "private",
         project |-> NoProject, review |-> 0, id |-> 0, at |-> 0]

Tx == [pc : {"idle", "lock", "ready", "learned"},
       cmd : {"none", "write", "supersede", "mark", "hand", "merge", "pick",
              "derive", "page"},
       who : Authors \union {Nobody},
       group : SUBSET Nat,        \* rows the command names, to lock or to cite
       held : SUBSET Nat,         \* rows locked FOR NO KEY UPDATE
       winner : Nat,              \* supersede verdict: the row that stays
       to : Statuses,             \* mark: the status asked for
       scope : Scopes,            \* audience of the row to insert
       project : Projects \union {NoProject},
       review : Nat,              \* the review claimed by this transaction, or 0
       id : Nat, at : Nat]        \* id and created_at of the inserted row

Init ==
  /\ rows = [i \in {} |-> 0]
  /\ nextId = 1
  /\ now = 0
  /\ tx = [p \in Procs |-> Idle]
  /\ queue = <<>>
  /\ begun = 0

\* Session p issues command c as author a.
Issue(p, c, t) ==
  /\ c \in Commands
  /\ tx[p].pc = "idle"
  /\ begun < MaxTx
  /\ tx' = [tx EXCEPT ![p] = t]
  /\ begun' = begun + 1

Begin(p, c, t) ==
  /\ Issue(p, c, t)
  /\ UNCHANGED <<rows, nextId, now, queue>>

\* write: nothing to lock.
BeginWrite(p, a, au) ==
  Begin(p, "write",
        [Idle EXCEPT !.pc = "ready", !.cmd = "write", !.who = a,
                     !.scope = au[1], !.project = au[2]])

\* supersede (and write with supersedes_id): one target, whose audience the new
\* row inherits unless the caller states one.
BeginSupersede(p, a, i, au) ==
  /\ i \in DOMAIN rows
  /\ Begin(p, "supersede",
           [Idle EXCEPT !.pc = "lock", !.cmd = "supersede", !.who = a,
                        !.group = {i}, !.scope = au[1], !.project = au[2]])

BeginMark(p, a, i, st) ==
  /\ i \in DOMAIN rows
  /\ Begin(p, "mark",
           [Idle EXCEPT !.pc = "lock", !.cmd = "mark", !.who = a,
                        !.group = {i}, !.to = st])

BeginHandUpdate(p, a, i, st) ==
  /\ i \in DOMAIN rows
  /\ Begin(p, "hand",
           [Idle EXCEPT !.pc = "lock", !.cmd = "hand", !.who = a,
                        !.group = {i}, !.to = st])

\* apply_verdict and an approved review: what _apply requires of the snapshot it
\* reads before it locks anything.  Author and kind never change afterwards.
Eligible(a, act, G) ==
  /\ \A i \in G : /\ Active(i) /\ MayRead(a, i)
                  /\ rows[i].author = a
                  /\ rows[i].kind = "explicit"
  /\ Cardinality(G) >= IF act = "derive" THEN 1 ELSE 2

\* Mutant of GroupScope: private only if EVERY member was (bool_and).
GroupScopeOfAll(G) ==
  IF \A i \in G : rows[i].scope = "private" THEN "private" ELSE "project"

\* private if ANY member was; NULL project when the members disagree.
GroupScope(G) ==
  IF \E i \in G : rows[i].scope = "private" THEN "private" ELSE "project"

GroupProject(G) ==
  LET tags == {rows[i].project : i \in G} \ {NoProject}
  IN  IF \E pr \in tags : tags = {pr} THEN CHOOSE pr \in tags : TRUE ELSE NoProject

\* Mutant of VerdictScope: scope and project swapped in the payload.
VerdictScopeSwapped(act, G) == GroupProject(G)

\* A derived row is narrowed to private where a merge is refused (Confirmed).
VerdictScope(act, G) ==
  IF act = "derive" /\ GroupProject(G) = NoProject THEN "private" ELSE GroupScope(G)

\* derive cites its premises without locking them; merge and pick lock them all.
Verdict(a, act, G, w, r) ==
  [pc |-> IF act = "derive" THEN "ready" ELSE "lock",
   cmd |-> act, who |-> a, group |-> G, held |-> {}, winner |-> w, to |-> "active",
   scope |-> VerdictScope(act, G), project |-> GroupProject(G), review |-> r,
   id |-> 0, at |-> 0]

BeginVerdict(p, a, act, G, w) ==
  /\ act \in {"merge", "pick"}
  /\ Eligible(a, act, G)
  /\ Begin(p, act, Verdict(a, act, G, w, 0))

\* review_add: the proposal is stored as it is; its members are not looked at.
ReviewAdd(a, act, G, w) ==
  /\ "review" \in Commands
  /\ act \in Commands
  /\ begun < MaxTx
  /\ queue' = Append(queue, [action |-> act, members |-> G, winner |-> w, author |-> a,
                             status |-> "pending", applied |-> FALSE])
  /\ begun' = begun + 1
  /\ UNCHANGED <<rows, nextId, now, tx>>

Decide(r, st, ok) ==
  [k \in 1..Len(queue) |->
     IF k = r THEN [queue[k] EXCEPT !.status = st, !.applied = ok] ELSE queue[k]]

\* Mutant of Claimable: the claim reads the review without updating it in place.
ClaimableUnlocked(r, a) == r \in 1..Len(queue) /\ queue[r].author = a

\* The claim of review_resolve: only your own pending review, and only when no
\* other transaction holds the row it updates.
Claimable(r, a) ==
  /\ r \in 1..Len(queue)
  /\ queue[r].status = "pending"
  /\ queue[r].author = a
  /\ \A q \in Procs : tx[q].review # r

BeginApprove(p, a, r) ==
  /\ Claimable(r, a)
  /\ Eligible(a, queue[r].action, queue[r].members)
  /\ Begin(p, queue[r].action,
           Verdict(a, queue[r].action, queue[r].members, queue[r].winner, r))

\* An approval whose proposal is refused before any lock: the claim survives.
ApproveRefused(a, r) ==
  /\ begun < MaxTx
  /\ Claimable(r, a)
  /\ ~ Eligible(a, queue[r].action, queue[r].members)
  /\ queue' = Decide(r, "approved", FALSE)
  /\ begun' = begun + 1
  /\ UNCHANGED <<rows, nextId, now, tx>>

ReviewReject(a, r) ==
  /\ begun < MaxTx
  /\ Claimable(r, a)
  /\ queue' = Decide(r, "rejected", FALSE)
  /\ begun' = begun + 1
  /\ UNCHANGED <<rows, nextId, now, tx>>

\* The prior pages a rebuild reads once it has the author's advisory lock.
PriorPages(a, pr) ==
  {i \in DOMAIN rows : /\ Active(i) /\ rows[i].kind = "page"
                       /\ rows[i].author = a /\ rows[i].project = pr}

BeginPage(p, a, pr) ==
  /\ \A q \in Procs : ~ (tx[q].cmd = "page" /\ tx[q].who = a)
  /\ Begin(p, "page",
           [Idle EXCEPT !.pc = IF PriorPages(a, pr) = {} THEN "ready" ELSE "lock",
                        !.cmd = "page", !.who = a, !.group = PriorPages(a, pr),
                        !.scope = "project", !.project = pr])

-----------------------------------------------------------------------------
(* Row locks, in ascending id order *)

\* Mutant of IsNextLock: a supersede verdict locks its winner first.
WinnerFirst(i, p) ==
  LET left == tx[p].group \ tx[p].held
  IN  /\ i \in left
      /\ tx[p].winner \in left => i = tx[p].winner

\* SELECT ... ORDER BY id FOR NO KEY UPDATE: p waits for its least row not yet held.
IsNextLock(i, p) ==
  LET left == tx[p].group \ tx[p].held
  IN  i \in left /\ \A j \in left : i <= j

Free(i, p) == \A q \in Procs \ {p} : i \notin tx[q].held

LockRow(p, i) ==
  /\ tx[p].pc = "lock"
  /\ IsNextLock(i, p)
  /\ Free(i, p)
  /\ tx' = [tx EXCEPT
       ![p].held = @ \union {i},
       ![p].pc = IF tx[p].group = tx[p].held \union {i} THEN "ready" ELSE "lock"]
  /\ UNCHANGED <<rows, nextId, now, queue, begun>>

\* The supersede target of a page rebuild (ORDER BY id DESC).
Newest(i, S) == \A j \in S : j <= i

\* Mutant of Confirmed: _apply trusts the snapshot it read before locking.
ConfirmedBySnapshot(p) ==
  LET t == tx[p]
  IN  /\ t.cmd = "supersede" => \A i \in t.group : Active(i) /\ rows[i].author = t.who
      /\ t.cmd \in {"mark", "hand"} => \A i \in t.group : rows[i].author = t.who
      /\ t.cmd = "pick" => t.winner \in t.group

\* Mutant of Confirmed: the target's status is not read again under the lock.
ConfirmedByOwner(p) == \A i \in tx[p].group : rows[i].author = tx[p].who

\* Mutant of Confirmed: mark takes an id and nothing else.
ConfirmedForAnyone(p) ==
  LET t == tx[p]
  IN  t.cmd \in {"supersede", "merge", "pick"} =>
        \A i \in t.group : Active(i) /\ rows[i].author = t.who

\* What each command requires of the rows it has locked, and of its audience.
Confirmed(p) ==
  LET t == tx[p]
  IN  /\ t.cmd \in {"supersede", "merge", "pick"} =>
           \A i \in t.group : Active(i) /\ rows[i].author = t.who
      /\ t.cmd \in {"mark", "hand"} => \A i \in t.group : rows[i].author = t.who
      /\ t.cmd = "page" => \A i \in t.group : Newest(i, t.group) => Active(i)
      /\ t.cmd = "pick" => t.winner \in t.group
      /\ t.cmd \in {"write", "supersede", "merge", "derive", "page"}
           /\ t.scope = "project" => MayPublish(t.who, t.project)

\* The review row a finished transaction claimed, with what became of it.
Resolve(p, ok) ==
  IF tx[p].review = 0 THEN queue ELSE Decide(tx[p].review, "approved", ok)

End(p) == tx' = [tx EXCEPT ![p] = Idle]

\* SystemExit or a rolled-back verdict changes nothing; an approved review whose
\* savepoint is rolled back still commits its claim.
Refuse(p) ==
  /\ tx[p].pc = "ready"
  /\ ~ Confirmed(p)
  /\ queue' = Resolve(p, FALSE)
  /\ End(p)
  /\ UNCHANGED <<rows, nextId, now, begun>>

Learned(t, i, u) == [t EXCEPT !.pc = "learned", !.id = i, !.at = u]

\* The INSERT: id from the sequence, created_at = clock_timestamp().
Learn(p) ==
  /\ tx[p].pc = "ready"
  /\ tx[p].cmd \in {"write", "supersede", "merge", "derive", "page"}
  /\ Confirmed(p)
  /\ tx' = [tx EXCEPT ![p] = Learned(tx[p], nextId, now + 1)]
  /\ nextId' = nextId + 1
  /\ now' = now + 1
  /\ UNCHANGED <<rows, queue, begun>>

\* The rows a transaction retires in favour of another.
Retires(p) ==
  {i \in tx[p].group :
     \/ tx[p].cmd \in {"supersede", "merge"}
     \/ tx[p].cmd = "page" /\ Active(i)
     \/ tx[p].cmd = "pick" /\ i # tx[p].winner}

NewRow(p) ==
  LET t == tx[p]
  IN  [status |-> "active", author |-> t.who, scope |-> t.scope, project |-> t.project,
       kind |-> CASE t.cmd = "page" -> "page"
                  [] t.cmd = "derive" -> "derived"
                  [] OTHER -> "explicit",
       created |-> t.at, retired |-> Null, intervals |-> {},
       replaced |-> Retires(p),
       evidence |-> IF t.cmd \in {"merge", "derive"} THEN t.group ELSE {},
       review |-> t.review]

\* Commit of an inserting command: the rows it replaces retire at its created_at.
CommitInsert(p) ==
  /\ tx[p].pc = "learned"
  /\ rows' = [i \in DOMAIN rows \union {tx[p].id} |->
                IF i = tx[p].id THEN NewRow(p)
                ELSE IF i \in Retires(p) THEN Supersede(rows[i], tx[p].at)
                ELSE rows[i]]
  /\ queue' = Resolve(p, TRUE)
  /\ End(p)
  /\ UNCHANGED <<nextId, now, begun>>

\* A supersede verdict retires the losers now: its winner may be days old.
CommitPick(p) ==
  /\ tx[p].pc = "ready" /\ tx[p].cmd = "pick"
  /\ Confirmed(p)
  /\ now' = now + 1
  /\ rows' = [i \in DOMAIN rows |->
                IF i \in Retires(p) THEN Supersede(rows[i], now + 1) ELSE rows[i]]
  /\ queue' = Resolve(p, TRUE)
  /\ End(p)
  /\ UNCHANGED <<nextId, begun>>

CommitMark(p) ==
  /\ tx[p].pc = "ready" /\ tx[p].cmd \in {"mark", "hand"}
  /\ Confirmed(p)
  /\ now' = now + 1
  /\ rows' = [i \in DOMAIN rows |->
                IF i \notin tx[p].group THEN rows[i]
                ELSE IF tx[p].cmd = "mark" THEN Mark(rows[i], tx[p].to, now + 1)
                ELSE HandUpdate(rows[i], tx[p].to, now + 1)]
  /\ End(p)
  /\ UNCHANGED <<nextId, queue, begun>>

\* The session dies, is killed or times out: everything it did is rolled back.
Abort(p) ==
  /\ tx[p].pc # "idle"
  /\ End(p)
  /\ UNCHANGED <<rows, nextId, now, queue, begun>>

-----------------------------------------------------------------------------

Issues(p) ==
  \E a \in Authors :
    \/ \E au \in Audiences : BeginWrite(p, a, au)
    \/ \E i \in DOMAIN rows, au \in Audiences : BeginSupersede(p, a, i, au)
    \/ \E i \in DOMAIN rows, st \in Statuses : BeginMark(p, a, i, st)
    \/ \E i \in DOMAIN rows, st \in Statuses : BeginHandUpdate(p, a, i, st)
    \/ \E G \in SUBSET DOMAIN rows : BeginVerdict(p, a, "merge", G, 0)
    \/ \E G \in SUBSET DOMAIN rows, w \in DOMAIN rows : BeginVerdict(p, a, "pick", G, w)
    \/ \E r \in 1..Len(queue) : BeginApprove(p, a, r)
    \/ \E pr \in Projects : BeginPage(p, a, pr)

Reviews ==
  \E a \in Authors :
    \/ \E act \in {"merge", "derive"}, G \in SUBSET DOMAIN rows : ReviewAdd(a, act, G, 0)
    \/ \E G \in SUBSET DOMAIN rows, w \in DOMAIN rows : ReviewAdd(a, "pick", G, w)
    \/ \E r \in 1..Len(queue) : ApproveRefused(a, r) \/ ReviewReject(a, r)

Step(p) ==
  \/ \E i \in tx[p].group : LockRow(p, i)
  \/ Refuse(p) \/ Learn(p)
  \/ CommitInsert(p) \/ CommitPick(p) \/ CommitMark(p)

\* Every command of the instance has been issued and has ended.
Quiet == begun = MaxTx /\ (\A p \in Procs : tx[p] = Idle) /\ UNCHANGED vars

Next ==
  \/ \E p \in Procs : Issues(p) \/ Step(p) \/ Abort(p)
  \/ Reviews
  \/ Quiet

Spec == Init /\ [][Next]_vars

-----------------------------------------------------------------------------
(* What the store promises *)

\* Every variable keeps its type.
TypeOK ==
  /\ DOMAIN rows \subseteq Nat /\ rows \in [DOMAIN rows -> Row]
  /\ nextId \in Nat \ {0} /\ now \in Nat /\ begun \in Nat
  /\ tx \in [Procs -> Tx]
  /\ queue \in Seq(Review)

\* Belief time of one row (schema_mem.sql, keep_belief_time): believed since
\* created_at; retired_at is set exactly while the row is not active; the
\* retirements a reactivation closed are disjoint and end before the open one.
BeliefTimeOf(r, n) ==
  /\ 1 <= r.created /\ r.created <= n /\ r.retired <= n
  /\ r.status = "active" <=> r.retired = Null
  /\ r.retired # Null => r.created < r.retired
  /\ \A iv \in r.intervals :
       /\ r.created < iv.from /\ iv.from < iv.to /\ iv.to <= n
       /\ r.retired # Null => iv.to < r.retired
       /\ \A jv \in r.intervals : jv = iv \/ jv.to < iv.from \/ iv.to < jv.from

\* Every committed row has a consistent belief time, whichever commands ran.
BeliefTime == \A i \in DOMAIN rows : BeliefTimeOf(rows[i], now)

\* as_of the present is the active set: the two retrieval paths (SEARCH_SQL's
\* as_of filter and the active_memories view) never disagree.
BelievedNow == AsOf(now) = {i \in DOMAIN rows : rows[i].status = "active"}

\* History is immutable: what as_of answers for an instant before every insert
\* in flight never changes afterwards, whatever is superseded, marked or merged.
AsOfStable ==
  [][\A t \in 0..now :
       (\A p \in Procs : tx[p].pc = "learned" => t < tx[p].at) => AsOf(t)' = AsOf(t)]_vars

\* One belief hands over to the next "with neither an overlap nor a gap"
\* (do_write): what a row replaced was believed right up to its created_at and
\* not at it, and no later command rewrites that.
Handover ==
  \A i \in DOMAIN rows : \A x \in rows[i].replaced :
    /\ x \in AsOf(rows[i].created - 1)
    /\ x \notin AsOf(rows[i].created)
    /\ i \in AsOf(rows[i].created)

\* A supersede verdict never leaves its group without a believed row: when it
\* retires a loser, the winner it kept is active (_apply's recheck under lock).
WinnerStays ==
  [][\A p \in Procs :
       tx[p].cmd = "pick" /\ (\E i \in tx[p].group : tx'[p] # tx[p] /\ rows'[i] # rows[i])
         => rows'[tx[p].winner].status = "active"]_vars

\* A row changes only by a command of its own author (do_write's refusal,
\* _apply's author checks, mark's owner check).
OwnRowsOnly ==
  [][\A i \in DOMAIN rows :
       rows'[i] # rows[i] =>
         \E p \in Procs : tx'[p] # tx[p] /\ tx[p].who = rows[i].author]_vars

\* Merging or deriving never publishes: whoever may read the result may read
\* every row it was made from (_group_scope, _group_project).
AudienceNeverWidens ==
  \A i \in DOMAIN rows : \A a \in Authors :
    MayRead(a, i) => \A m \in rows[i].evidence : MayRead(a, m)

\* The atomic claim: a review is applied at most once, so it makes one row.
AppliedOnce ==
  \A i, j \in DOMAIN rows :
    rows[i].review # 0 /\ rows[i].review = rows[j].review => i = j

\* Rebuilds leave one page per author and project: a second active page was
\* reactivated by mark, never left behind by do_page_upsert.
OnePage ==
  \A i, j \in DOMAIN rows :
    /\ Active(i) /\ rows[i].kind = "page" /\ Active(j) /\ rows[j].kind = "page"
    /\ rows[i].author = rows[j].author /\ rows[i].project = rows[j].project
    => i = j \/ rows[i].intervals # {} \/ rows[j].intervals # {}

\* What must happen once happens once: a review is applied, a page is in force.
OnceOnly == AppliedOnce /\ OnePage

\* Row locks are taken in one order, "so two appliers cannot deadlock": there is
\* no set of transactions each waiting for a row another of them holds.
NoLockCycle ==
  \A S \in (SUBSET Procs) \ {{}} :
    \E p \in S :
      tx[p].pc = "lock" =>
        \E i \in tx[p].group : IsNextLock(i, p) /\ \A q \in S \ {p} : i \notin tx[q].held

-----------------------------------------------------------------------------
(* Why it keeps its promises: the inductive invariant of the proofs *)

Inserting == {"write", "supersede", "merge", "derive", "page"}
Lockless  == {"write", "derive"}

\* An active row none of whose reactivations is as late as t.
Settled(r, t) ==
  r.status = "active" /\ r.created < t /\ \A iv \in r.intervals : iv.to < t

\* A belief in r ended at t, whether or not it was taken up again.
EndedAt(r, t) ==
  r.created < t /\ (r.retired = t \/ \E iv \in r.intervals : iv.from = t)

\* Ids come from the sequence.
IdsOK == \A i \in DOMAIN rows : 1 <= i /\ i < nextId

\* A transaction has an author and names committed rows, no two hold the same row, and one that has
\* finished locking holds every row it names.
LocksOK ==
  \A p \in Procs :
    /\ tx[p].pc # "idle" => tx[p].who \in Authors
    /\ tx[p].group \subseteq DOMAIN rows
    /\ tx[p].held \subseteq tx[p].group
    /\ \A q \in Procs \ {p} : \A i \in tx[p].held : i \notin tx[q].held
    /\ tx[p].pc \in {"ready", "learned"} /\ tx[p].cmd \notin Lockless
         => tx[p].held = tx[p].group

\* An insert in flight has an id of its own, and every row it is about to retire
\* was settled when its created_at was taken.
InFlightOK ==
  \A p \in Procs : tx[p].pc = "learned" =>
    /\ tx[p].cmd \in Inserting
    /\ 1 <= tx[p].id /\ tx[p].id < nextId /\ tx[p].id \notin DOMAIN rows
    /\ \A q \in Procs \ {p} : tx[q].pc = "learned" => tx[q].id # tx[p].id
    /\ 1 <= tx[p].at /\ tx[p].at <= now
    /\ \A i \in Retires(p) : Settled(rows[i], tx[p].at)

\* What a row replaced ended at its created_at.
ReplacedOK ==
  \A i \in DOMAIN rows : \A x \in rows[i].replaced :
    x \in DOMAIN rows /\ EndedAt(rows[x], rows[i].created)

\* TypeOK and these five together are preserved by every step.
IInv == TypeOK /\ IdsOK /\ BeliefTime /\ LocksOK /\ InFlightOK /\ ReplacedOK

\* What a page rebuild has read, and what an insert in flight is about to retire,
\* belongs to the author of the transaction: authors never change.
OwnersOK ==
  \A p \in Procs :
    tx[p].cmd = "page" \/ (tx[p].pc = "learned" /\ tx[p].cmd \in {"supersede", "merge"})
      => \A i \in tx[p].group : rows[i].author = tx[p].who
=============================================================================
