-------------------------- MODULE McpServerProofs ---------------------------
(***************************************************************************)
(* Proofs about the request loop, for any number of calls, ids, children   *)
(* and pids: signals reach the group of the call they are for, a           *)
(* cancellation finds its child, the registry knows every thread, and the  *)
(* end leaves nothing unanswered or alive.                                 *)
(*                                                                         *)
(* Each part of the invariant IInv has a lemma: what it says holds after   *)
(* any step.  The steps are first sorted by what they do to the process    *)
(* groups (Sorted), because most of them do nothing to any.                *)
(***************************************************************************)
EXTENDS McpServer, FiniteSetTheorems, TLAPS

\* Children a worker has on its hands: every stage but the first and the last.
Watched == InChild \ {"reaped"}

\* A worker's child is the leader of a group of its own until it is reaped, and is a zombie while
\* it is; the slot names it from Register to ClearSlot.
ChildOf(r) ==
  LET w == worker[r]
  IN  /\ w.pc \in InChild <=> w.pid # NoPid
      /\ w.pc \in InChild => w.pid \in Pids
      /\ slot[r] = (IF w.pc = "spawned" THEN NoPid ELSE w.pid)
      /\ w.pc \in Watched => group[w.pid].of = r /\ group[w.pid].leader # "none"
      /\ w.pc = "dying" => group[w.pid].leader # "running"
      /\ w.pc \in {"exited", "reaping", "struck"} => group[w.pid].leader = "zombie"
      /\ w.pc = "struck" => ~ group[w.pid].rest

ChildInv == \A r \in Requests : ChildOf(r)

\* A group is ours while a worker has it, and nothing is left of it when its leader is gone.
GroupInv ==
  \A p \in Pids :
    /\ group[p].leader = "none" => group[p] = NoGroup
    /\ group[p].of \in Requests => worker[group[p].of].pid = p /\ worker[group[p].of].pc \in Watched

RegistryInv ==
  /\ \A r \in Requests : Live(r) => inflight[IdOf[r]] = r
  /\ \A i \in Ids : inflight[i] # NoReq => IdOf[inflight[i]] = i /\ Live(inflight[i])
  /\ IsFiniteSet(InFlight) /\ Cardinality(InFlight) <= MaxInflight

\* Who is owed an answer.
Owed(r) == worker[r].pc \in {"unsent", "between", "finished", "towrite", "writing"} \union InChild
Queued(r) == \E k \in 1..Len(queue) : queue[k] = r

AnswerInv ==
  /\ \A r \in Requests : Owed(r) => answered[r] = 0
  /\ \A r \in Requests : worker[r].pc = "posted" => answered[r] = (IF Queued(r) THEN 0 ELSE 1)
  /\ \A r \in Requests : worker[r].pc \in {"leaving", "gone"} => answered[r] = 1 \/ cancelled[r]
  /\ \A k \in 1..Len(queue) : worker[queue[k]].pc = "posted"
  /\ \A k, l \in 1..Len(queue) : queue[k] = queue[l] => k = l
  /\ out = Writer => queue # <<>>

Ending == {"stopping", "killing", "exited"}

\* The job stdin has in hand.
JobInv ==
  /\ stdin.pc \in {"mark", "soft"} => stdin.job \in Requests
  /\ stdin.pc \in {"reading", "draining", "killing", "exited"} => stdin.job = NoReq
  /\ stdin.pc = "soft" => cancelled[stdin.job]
  /\ stdin.pc = "stopping" /\ stdin.job # NoReq => stdin.job \in stdin.todo /\ cancelled[stdin.job]

\* Whatever runs once stdin has ended is in the list, and there is nothing where all was quiet.
ListInv ==
  stdin.pc \in Ending =>
    /\ \A r \in Requests : Live(r) => r \in stdin.jobs
    /\ stdin.todo \subseteq stdin.jobs
    /\ ~ stdin.gaveUp => queue = <<>> /\ stdin.jobs = {}

\* Each of the list was marked, and then the child it waited for killed; one it starts later is
\* killed by its worker.
Settled(r) == worker[r].pc \in Watched \ {"spawned", "registered"} => group[worker[r].pid].leader # "running"

KilledInv ==
  /\ stdin.pc = "stopping" => \A r \in stdin.jobs \ stdin.todo : cancelled[r]
  /\ stdin.pc \in {"killing", "exited"} =>
       /\ \A r \in stdin.jobs : cancelled[r]
       /\ \A r \in stdin.jobs \ stdin.todo : Settled(r)
  /\ stdin.pc = "exited" => stdin.todo = {}

StopInv == JobInv /\ ListInv /\ KilledInv

IInv == TypeOK /\ NoStraySignal /\ ChildInv /\ GroupInv /\ RegistryInv /\ AnswerInv /\ StopInv /\ CancelReaches

-----------------------------------------------------------------------------
(* Groups *)

GroupRecord == [of : Requests \union {NoReq, Foreign},
                leader : {"none", "running", "killed", "zombie"},
                rest : BOOLEAN, asked : BOOLEAN]

\* Group q is nearer to its end than before, or as near, and still the same group.
Onward(q) ==
  /\ group'[q].of = group[q].of
  /\ group[q].leader = "none" <=> group'[q].leader = "none"
  /\ group[q].leader = "none" => group'[q] = group[q]
  /\ group[q].leader # "running" => group'[q].leader # "running" /\ (group'[q].rest => group[q].rest)
  /\ group[q].leader = "zombie" => group'[q].leader = "zombie"
  /\ group[q].asked => group'[q].asked

AllOnward == group' \in [Pids -> GroupRecord] /\ \A q \in Pids : Onward(q)

LEMMA KilledEffect ==
  ASSUME TypeOK, NEW p \in Pids, group[p].leader # "none", group' = Killed(p)
  PROVE  /\ AllOnward
         /\ group'[p].leader # "running" /\ ~ group'[p].rest /\ group'[p].asked
  <1>1. group \in [Pids -> GroupRecord]
    BY DEF TypeOK, GroupRecord
  <1> DEFINE g == group[p]
             h == [[[g EXCEPT !.leader = IF @ = "running" THEN "killed" ELSE @] EXCEPT !.rest = FALSE]
                    EXCEPT !.asked = TRUE]
  <1>2. g \in GroupRecord
    BY <1>1
  <1>3. group' = [group EXCEPT ![p] = h]
    BY <1>1, Zenon DEF Killed
  <1>4. /\ h \in GroupRecord
        /\ h.of = g.of /\ ~ h.rest /\ h.asked
        /\ h.leader = IF g.leader = "running" THEN "killed" ELSE g.leader
    BY <1>2 DEF GroupRecord
  <1> HIDE DEF h
  <1> QED
    BY <1>1, <1>2, <1>3, <1>4 DEF AllOnward, Onward, GroupRecord

LEMMA AskedEffect ==
  ASSUME TypeOK, NEW p \in Pids, group[p].leader # "none", group' = Asked(p)
  PROVE  AllOnward /\ group'[p].asked
  BY DEF TypeOK, Asked, AllOnward, Onward, GroupRecord

LEMMA SameGroups ==
  ASSUME TypeOK, UNCHANGED group
  PROVE  AllOnward
  BY DEF TypeOK, AllOnward, Onward, GroupRecord

\* A signal goes to the group of the child the call waits for.
LEMMA SignalEffect ==
  ASSUME TypeOK, NoStraySignal, ChildInv, NEW r \in Requests, NEW hard \in BOOLEAN, Signal(r, hard)
  PROVE  /\ AllOnward /\ ~ stray'
         /\ worker[r].pc \in Watched \ {"spawned"} => group'[worker[r].pid].asked
         /\ hard /\ worker[r].pc \in Watched \ {"spawned"} => group'[worker[r].pid].leader # "running"
  <1> DEFINE p == slot[r]
  <1>1. slot[r] \in Pids \union {NoPid} /\ group \in [Pids -> GroupRecord] /\ worker[r].pc \in Pc
    BY DEF TypeOK, GroupRecord
  <1>2. CASE p # NoPid /\ group[p].leader # "none"
    <2>1. group[p].of = r /\ p \in Pids /\ p = worker[r].pid
      BY <1>1, <1>2, NullsDiffer DEF Signal, SlotFree, HoldsSlot, ChildInv, ChildOf, Watched, InChild
    <2>2. ~ stray'
      BY <1>2, <2>1, NullsDiffer DEF Signal, Strays, NoStraySignal
    <2>3. group' = IF hard THEN Killed(p) ELSE Asked(p)
      BY <1>2 DEF Signal
    <2> QED
      BY <1>2, <2>1, <2>2, <2>3, KilledEffect, AskedEffect
  <1>3. CASE ~ (p # NoPid /\ group[p].leader # "none")
    <2>1. UNCHANGED <<group, stray>>
      BY <1>3 DEF Signal
    <2>2. worker[r].pc \notin Watched \ {"spawned"}
      BY <1>1, <1>3, NullsDiffer DEF Signal, SlotFree, HoldsSlot, ChildInv, ChildOf, Watched, InChild
    <2> QED
      BY <2>1, <2>2, SameGroups DEF NoStraySignal
  <1> QED
    BY <1>2, <1>3

\* The actions of stdin thread, workers and processes that leave every group the same or nearer to
\* its end.
LEMMA WorkerEffect ==
  ASSUME TypeOK, NoStraySignal, ChildInv, NEW r \in Requests,
         CheckCancelled(r) \/ GiveUp(r) \/ KillGroup(r)
  PROVE  /\ AllOnward /\ ~ stray'
         /\ ~ CheckCancelled(r) \/ cancelled[r] => group'[worker[r].pid].leader # "running"
                                                   /\ group'[worker[r].pid].asked
         /\ KillGroup(r) => ~ group'[worker[r].pid].rest
  <1> DEFINE p == worker[r].pid
  <1>1. p \in Pids /\ group[p].of = r /\ group[p].leader # "none"
    BY DEF CheckCancelled, GiveUp, KillGroup, At, ChildInv, ChildOf, Watched, InChild
  <1>2. ~ Strays(p)
    BY <1>1, NullsDiffer DEF Strays
  <1>3. CASE CheckCancelled(r)
    <2>1. UNCHANGED stray /\ group' = IF cancelled[r] THEN Killed(p) ELSE group
      BY <1>3 DEF CheckCancelled, AfterRegister
    <2>2. ~ KillGroup(r)
      BY <1>3 DEF CheckCancelled, KillGroup, At
    <2> QED
      BY <1>1, <1>3, <2>1, <2>2, KilledEffect, SameGroups DEF NoStraySignal
  <1>4. CASE GiveUp(r) \/ KillGroup(r)
    <2>1. ~ stray' /\ group' = Killed(p)
      BY <1>2, <1>4 DEF GiveUp, KillGroup, KillRest, NoStraySignal
    <2> QED
      BY <1>1, <2>1, KilledEffect
  <1> QED
    BY <1>3, <1>4

LEMMA ProcessEffect ==
  ASSUME TypeOK, GroupInv, NEW p \in Pids, Forks(p) \/ Dies(p) \/ Exits(p) \/ RestExits(p)
  PROVE  AllOnward
  <1>1. group \in [Pids -> GroupRecord]
    BY DEF TypeOK, GroupRecord
  <1>2. CASE Forks(p)
    BY <1>1, <1>2 DEF Forks, AllOnward, Onward, GroupRecord
  <1>3. CASE Dies(p) \/ Exits(p)
    BY <1>1, <1>3 DEF Dies, Exits, AllOnward, Onward, GroupRecord
  <1>4. CASE RestExits(p)
    <2>1. group[p].leader # "none"
      BY <1>4 DEF RestExits, GroupInv, NoGroup
    <2>2. group' = [group EXCEPT ![p] = [group[p] EXCEPT !.rest = FALSE]]
      BY <1>1, <1>4, <2>1 DEF RestExits
    <2> QED
      BY <1>1, <2>1, <2>2 DEF AllOnward, Onward, GroupRecord
  <1> QED
    BY <1>2, <1>3, <1>4

-----------------------------------------------------------------------------
(* Types *)

Workers == [Requests -> [pc : Pc, pid : Pids \union {NoPid}, kids : 0..MaxKids]]
Stdin == [pc : {"reading", "mark", "soft", "draining", "stopping", "killing", "exited"},
          job : Requests \union {NoReq}, todo : SUBSET Requests, jobs : SUBSET Requests,
          gaveUp : BOOLEAN]

\* Where a worker goes, nothing else of it changes.
LEMMA GoWorkers ==
  ASSUME worker \in Workers, NEW r \in Requests, NEW l \in Pc, Go(r, l)
  PROVE  worker' \in Workers
  BY DEF Workers, Go

LEMMA GoMoves ==
  ASSUME TypeOK, NEW r \in Requests, NEW l, Go(r, l)
  PROVE  /\ worker'[r].pc = l
         /\ \A s \in Requests : worker'[s].pid = worker[s].pid /\ (s # r => worker'[s] = worker[s])
  BY DEF TypeOK, Go

\* A step moves no worker, or one from a place to the next.
LEMMA WorkerMoves ==
  ASSUME Next
  PROVE  \/ UNCHANGED worker
         \/ \E r \in Requests : (\E l \in Pc : Go(r, l)) \/ Spawn(r) \/ ClearSlot(r)
  <1>1. CASE Input
    BY <1>1 DEF Input, Reply, Post, Dispatch, Lookup, Eof, Pc
  <1>2. CASE Mark \/ Soft \/ Stop
    BY <1>2 DEF Mark, Soft, Stop, Snapshot, StopMark, StopHard, StopSoft, StopWait, Exit
  <1>3. ASSUME NEW r \in Requests, Child(r)
        PROVE  (\E l \in Pc : Go(r, l)) \/ Spawn(r) \/ ClearSlot(r)
    BY <1>3 DEF Child, Register, CheckCancelled, Probe, ProbeExited, DeadlinePasses, CancelGraceEnds, GiveUp,
           TakeSlot, KillGroup, Reap, Pc, InChild
  <1>4. ASSUME NEW r \in Requests, Answer(r) \/ Written(r)
        PROVE  \E l \in Pc : Go(r, l)
    BY <1>4 DEF Answer, Finish, Judge, TakeOut, Leave, Written, Pc, Answering
  <1>5. CASE WriterWritten \/ WriterTakes \/ \E p \in Pids : Process(p)
    BY <1>5 DEF WriterWritten, WriterTakes, Process
  <1> QED
    BY <1>1, <1>2, <1>3, <1>4, <1>5 DEF Next, ClientReads

LEMMA WorkerType ==
  ASSUME worker \in Workers, Next
  PROVE  worker' \in Workers
  <1>1. ASSUME NEW r \in Requests, NEW l \in Pc, Go(r, l)
        PROVE  worker' \in Workers
    BY <1>1, GoWorkers
  <1>2. ASSUME NEW r \in Requests, Spawn(r)
        PROVE  worker' \in Workers
    <2>1. PICK p \in Pids : worker' = [worker EXCEPT ![r].pc = "spawned", ![r].pid = p, ![r].kids = @ + 1]
      BY <1>2 DEF Spawn
    <2>2. worker[r].kids + 1 \in 0..MaxKids
      BY <1>2, BoundAssumption DEF Spawn, Workers
    <2> QED
      BY <2>1, <2>2 DEF Workers, Pc, InChild
  <1>3. ASSUME NEW r \in Requests, ClearSlot(r)
        PROVE  worker' \in Workers
    BY <1>3 DEF ClearSlot, Workers, Pc
  <1> QED
    BY <1>1, <1>2, <1>3, WorkerMoves

-----------------------------------------------------------------------------
(* Every step, sorted by what it does to the groups *)

Signals == Soft \/ StopSoft \/ \E r \in Requests : StopHard(r)
Kills(r) == CheckCancelled(r) \/ GiveUp(r) \/ KillGroup(r)
Walks(r) == Register(r) \/ Probe(r) \/ TakeSlot(r) \/ ClearSlot(r)
Wanes(p) == Forks(p) \/ Dies(p) \/ Exits(p) \/ RestExits(p)
Foreigns(p) == ForeignStarts(p) \/ ForeignEnds(p)
ReadsOn == Input \/ Mark \/ (\E over \in BOOLEAN : Snapshot(over)) \/ (\E r \in Requests : StopMark(r))
           \/ StopWait \/ Exit
Writes == (\E r \in Requests : Answer(r) \/ Written(r)) \/ WriterTakes \/ WriterWritten
Rests == UNCHANGED <<jobs, worker, stdin, output, stray>>

LEMMA Sorted ==
  ASSUME Next
  PROVE  \/ ReadsOn \/ Signals \/ Writes
         \/ \E r \in Requests : Spawn(r) \/ Walks(r) \/ Kills(r) \/ Reap(r)
         \/ \E p \in Pids : Rests /\ Up /\ (Wanes(p) \/ Foreigns(p))
  <1>1. CASE Input \/ Mark \/ Soft \/ Stop
    BY <1>1 DEF Stop, ReadsOn, Signals
  <1>2. ASSUME NEW r \in Requests, Child(r)
        PROVE  Spawn(r) \/ Walks(r) \/ Kills(r) \/ Reap(r)
    BY <1>2 DEF Child, Walks, Kills, DeadlinePasses, CancelGraceEnds
  <1>3. ASSUME NEW p \in Pids, Process(p)
        PROVE  Rests /\ Up /\ (Wanes(p) \/ Foreigns(p))
    BY <1>3 DEF Process, Rests, Wanes, Foreigns
  <1> QED
    BY <1>1, <1>2, <1>3 DEF Next, ClientReads, Writes

\* Only four kinds of step give a group away or take it back.
LEMMA SignalsEffect ==
  ASSUME IInv, Signals
  PROVE  AllOnward /\ ~ stray' /\ UNCHANGED <<worker, slot, inflight, cancelled, queue, answered, out>>
  <1>1. ASSUME Soft \/ StopSoft
        PROVE  stdin.job \in Requests
    BY <1>1 DEF IInv, StopInv, JobInv, TypeOK, Stdin, Soft, StopSoft, StdinAt
  <1>2. PICK r \in Requests, hard \in BOOLEAN : Signal(r, hard)
    BY <1>1 DEF Signals, Soft, StopSoft, StopHard, LastSignal
  <1> QED
    BY <1>2, SignalEffect DEF IInv, Signals, Soft, StopSoft, StopHard, jobs, output

LEMMA ReapEffect ==
  ASSUME IInv, NEW r \in Requests, Reap(r)
  PROVE  group' = [group EXCEPT ![worker[r].pid] = NoGroup]
  BY DEF IInv, ChildInv, ChildOf, Reap, At, Watched, InChild

-----------------------------------------------------------------------------
(* Children and groups *)

\* Where no worker takes or leaves a child, and no group is given away or taken back, all is kept.
Stays(r) ==
  /\ worker'[r].pid = worker[r].pid
  /\ worker'[r].pc = worker[r].pc \/ {worker[r].pc, worker'[r].pc} \intersect InChild = {}

LEMMA ChildStays ==
  ASSUME IInv, AllOnward, UNCHANGED slot, NEW r \in Requests, Stays(r)
  PROVE  ChildOf(r)'
  <1>1. ChildOf(r) /\ slot'[r] = slot[r]
    BY DEF IInv, ChildInv
  <1>2. CASE worker[r].pc \in InChild /\ worker'[r].pc = worker[r].pc
    BY <1>1, <1>2 DEF ChildOf, Stays, Watched, InChild, AllOnward, Onward
  <1>3. CASE worker[r].pc \notin InChild /\ worker'[r].pc \notin InChild
    BY <1>1, <1>3 DEF ChildOf, Stays, Watched, InChild
  <1> QED
    BY <1>2, <1>3 DEF Stays

\* Groups stay with their workers where those stay watched.
LEMMA GroupsStay ==
  ASSUME IInv, AllOnward,
         \A r \in Requests : worker[r].pc \in Watched => /\ worker'[r].pc \in Watched
                                                         /\ worker'[r].pid = worker[r].pid
  PROVE  GroupInv'
  <1>1. ASSUME NEW p \in Pids
        PROVE  group'[p].leader = "none" => group'[p] = NoGroup
    BY DEF IInv, GroupInv, NoGroup, AllOnward, Onward
  <1>2. ASSUME NEW p \in Pids, group'[p].of \in Requests
        PROVE  worker'[group'[p].of].pid = p /\ worker'[group'[p].of].pc \in Watched
    BY <1>2 DEF IInv, GroupInv, AllOnward, Onward
  <1> QED
    BY <1>1, <1>2 DEF GroupInv

LEMMA StaysKeeps ==
  ASSUME IInv, AllOnward, UNCHANGED slot, \A r \in Requests : Stays(r)
  PROVE  (ChildInv /\ GroupInv)'
  BY ChildStays, GroupsStay DEF ChildInv, Stays, Watched

\* One worker goes on with the same child.
LEMMA StageKeeps ==
  ASSUME IInv, AllOnward, UNCHANGED slot, NEW r \in Requests, NEW l \in Watched, Go(r, l),
         worker[r].pc \in Watched, worker[r].pc = "spawned" <=> l = "spawned",
         l = "dying" => group'[worker[r].pid].leader # "running",
         l \in {"exited", "reaping", "struck"} => group'[worker[r].pid].leader = "zombie",
         l = "struck" => ~ group'[worker[r].pid].rest
  PROVE  (ChildInv /\ GroupInv)'
  <1>1. /\ worker'[r].pc = l /\ worker'[r].pid = worker[r].pid
        /\ \A s \in Requests \ {r} : worker'[s] = worker[s]
    BY DEF IInv, TypeOK, Go
  <1>2. ChildOf(r)'
    BY <1>1 DEF IInv, ChildInv, ChildOf, Watched, InChild, AllOnward, Onward
  <1>3. ASSUME NEW s \in Requests \ {r}
        PROVE  ChildOf(s)'
    BY <1>1, <1>3, ChildStays DEF Stays
  <1>4. GroupInv'
    BY <1>1, GroupsStay
  <1> QED
    BY <1>2, <1>3, <1>4 DEF ChildInv

LEMMA GoStays ==
  ASSUME TypeOK, NEW r \in Requests, NEW l \in Pc \ InChild, worker[r].pc \notin InChild, Go(r, l)
  PROVE  \A s \in Requests : Stays(s)
  BY DEF TypeOK, Go, Stays, Pc, InChild, Answering

LEMMA ReadsStay ==
  ASSUME IInv, ReadsOn
  PROVE  UNCHANGED <<slot, group, stray>> /\ \A r \in Requests : Stays(r)
  <1>1. UNCHANGED <<slot, group, stray>>
    BY DEF ReadsOn, Input, Reply, Post, Dispatch, Lookup, Eof, Mark, Snapshot, StopMark, StopWait, Exit, jobs
  <1>2. ASSUME NEW r \in Requests, Reply(r) \/ Dispatch(r)
        PROVE  \A s \in Requests : Stays(s)
    <2>1. worker[r].pc \notin InChild /\ (Go(r, "posted") \/ Go(r, "between"))
      BY <1>2 DEF Reply, Post, Dispatch, InChild
    <2> QED
      BY <2>1, GoStays DEF IInv, Pc, InChild
  <1>3. CASE UNCHANGED worker
    BY <1>1, <1>3 DEF Stays
  <1> QED
    BY <1>1, <1>2, <1>3 DEF ReadsOn, Input, Lookup, Eof, Mark, Snapshot, StopMark, StopWait, Exit

LEMMA WritesStay ==
  ASSUME IInv, Writes
  PROVE  UNCHANGED <<slot, group, stray>> /\ \A r \in Requests : Stays(r)
  <1>1. UNCHANGED <<slot, group, stray>>
    BY DEF Writes, Answer, Finish, Judge, TakeOut, Leave, Written, WriterTakes, WriterWritten, jobs
  <1>2. ASSUME NEW r \in Requests, Answer(r) \/ Written(r)
        PROVE  \A s \in Requests : Stays(s)
    <2>1. worker[r].pc \notin InChild /\ \E l \in Pc \ InChild : Go(r, l)
      BY <1>2 DEF Answer, Finish, Judge, TakeOut, Leave, Written, At, Pc, InChild, Answering
    <2> QED
      BY <2>1, GoStays DEF IInv
  <1>3. CASE UNCHANGED worker
    BY <1>1, <1>3 DEF Stays
  <1> QED
    BY <1>1, <1>2, <1>3 DEF Writes, WriterTakes, WriterWritten

\* The steps of a worker with a child, and of processes that are not ours.
LEMMA SpawnChild ==
  ASSUME IInv, NEW r \in Requests, Spawn(r)
  PROVE  (ChildInv /\ GroupInv)'
  <1> DEFINE g == [NoGroup EXCEPT !.of = r, !.leader = "running"]
  <1>1. PICK p \in Pids : /\ group[p] = NoGroup
                          /\ group' = [group EXCEPT ![p] = g]
                          /\ worker' = [worker EXCEPT ![r].pc = "spawned", ![r].pid = p, ![r].kids = @ + 1]
    BY DEF Spawn
  <1>2. /\ group'[p].of = r /\ group'[p].leader = "running"
        /\ \A q \in Pids \ {p} : group'[q] = group[q]
    BY <1>1 DEF IInv, TypeOK, NoGroup
  <1>3. /\ worker[r].pc = "between" /\ worker'[r].pc = "spawned" /\ worker'[r].pid = p
        /\ \A s \in Requests \ {r} : worker'[s] = worker[s]
        /\ UNCHANGED slot
    BY <1>1 DEF Spawn, At, jobs, IInv, TypeOK
  <1>4. p \in Pids /\ group[p] = NoGroup
    BY <1>1
  <1> USE <1>2, <1>3, <1>4, NullsDiffer DEF IInv, ChildInv, ChildOf, GroupInv, NoGroup, Watched, InChild
  <1>5. ChildInv'
    <2>1. ChildOf(r)'
      OBVIOUS
    <2>2. ASSUME NEW s \in Requests \ {r}
          PROVE  ChildOf(s)'
      OBVIOUS
    <2> QED
      BY <2>1, <2>2
  <1>6. GroupInv'
    OBVIOUS
  <1> QED
    BY <1>5, <1>6

LEMMA WalkChild ==
  ASSUME IInv, NEW r \in Requests, Walks(r)
  PROVE  (ChildInv /\ GroupInv)'
  <1>1. CASE Register(r)
    BY <1>1, NullsDiffer
    DEF Register, At, Go, IInv, TypeOK, ChildInv, ChildOf, GroupInv, NoGroup, Pc, Answering, Watched, InChild
  <1>2. CASE Probe(r)
    <2>1. /\ worker[r].pc \in {"waiting", "dying"} /\ group[worker[r].pid].leader = "zombie"
          /\ Go(r, "exited") /\ UNCHANGED <<group, slot>>
      BY <1>2 DEF Probe, ProbeExited, At, jobs
    <2> QED
      BY <2>1, SameGroups, StageKeeps DEF IInv, Watched, InChild
  <1>3. CASE TakeSlot(r)
    <2>1. worker[r].pc = "exited" /\ Go(r, "reaping") /\ UNCHANGED <<group, slot>>
      BY <1>3 DEF TakeSlot, At, jobs
    <2>2. group[worker[r].pid].leader = "zombie"
      BY <2>1 DEF IInv, ChildInv, ChildOf
    <2> QED
      BY <2>1, <2>2, SameGroups, StageKeeps DEF IInv, Watched, InChild
  <1>4. CASE ClearSlot(r)
    BY <1>4, NullsDiffer
    DEF ClearSlot, At, IInv, TypeOK, ChildInv, ChildOf, GroupInv, NoGroup, Pc, Answering, Watched, InChild
  <1> QED
    BY <1>1, <1>2, <1>3, <1>4 DEF Walks

LEMMA KillChild ==
  ASSUME IInv, NEW r \in Requests, Kills(r)
  PROVE  (ChildInv /\ GroupInv)'
  <1>1. /\ AllOnward /\ UNCHANGED slot
        /\ GiveUp(r) => group'[worker[r].pid].leader # "running"
        /\ KillGroup(r) => ~ group'[worker[r].pid].rest
    BY WorkerEffect DEF IInv, Kills, CheckCancelled, GiveUp, KillGroup, At, jobs
  <1>2. CASE CheckCancelled(r)
    BY <1>1, <1>2, StageKeeps DEF CheckCancelled, At, Watched, InChild
  <1>3. CASE GiveUp(r)
    BY <1>1, <1>3, StageKeeps DEF GiveUp, At, Watched, InChild
  <1>4. CASE KillGroup(r)
    <2>1. worker[r].pc = "reaping" /\ Go(r, "struck")
      BY <1>4 DEF KillGroup, At
    <2>2. group'[worker[r].pid].leader = "zombie"
      BY <1>1, <2>1 DEF IInv, ChildInv, ChildOf, InChild, AllOnward, Onward
    <2> QED
      BY <1>1, <1>4, <2>1, <2>2, StageKeeps DEF Watched, InChild
  <1> QED
    BY <1>2, <1>3, <1>4 DEF Kills

LEMMA ReapChild ==
  ASSUME IInv, NEW r \in Requests, Reap(r)
  PROVE  (ChildInv /\ GroupInv)'
  <1> DEFINE p == worker[r].pid
  <1>1. /\ p \in Pids /\ group[p].of = r /\ group'[p] = NoGroup
        /\ \A q \in Pids \ {p} : group'[q] = group[q]
    BY ReapEffect DEF IInv, TypeOK, ChildInv, ChildOf, Reap, At, Watched, InChild
  <1>2. /\ worker[r].pc = "struck" /\ worker'[r].pc = "reaped" /\ worker'[r].pid = p
        /\ UNCHANGED slot /\ \A s \in Requests \ {r} : worker'[s] = worker[s]
    BY DEF Reap, At, Go, jobs, IInv, TypeOK
  <1>3. ASSUME NEW s \in Requests
        PROVE  ChildOf(s)'
    <2>1. CASE s = r
      BY <1>1, <1>2, <2>1 DEF IInv, ChildInv, ChildOf, Watched, InChild
    <2>2. CASE s # r
      BY <1>1, <1>2, <2>2 DEF IInv, ChildInv, ChildOf, Watched, InChild
    <2> QED
      BY <2>1, <2>2
  <1>4. GroupInv'
    <2>1. ASSUME NEW q \in Pids
          PROVE  group'[q].leader = "none" => group'[q] = NoGroup
      BY <1>1 DEF IInv, GroupInv
    <2>2. ASSUME NEW q \in Pids, group'[q].of \in Requests
          PROVE  worker'[group'[q].of].pid = q /\ worker'[group'[q].of].pc \in Watched
      <3>1. q # p /\ group'[q] = group[q]
        BY <1>1, <2>2, NullsDiffer DEF NoGroup
      <3>2. group[q].of # r
        BY <1>2, <2>2, <3>1 DEF IInv, GroupInv
      <3> QED
        BY <1>2, <2>2, <3>1, <3>2 DEF IInv, GroupInv
    <2> QED
      BY <2>1, <2>2 DEF GroupInv
  <1> QED
    BY <1>3, <1>4 DEF ChildInv

LEMMA ForeignChild ==
  ASSUME IInv, NEW p \in Pids, Rests, Foreigns(p)
  PROVE  (ChildInv /\ GroupInv)'
  <1> USE NullsDiffer DEF Rests, jobs, IInv, TypeOK, ChildInv, ChildOf, GroupInv, NoGroup, Watched, InChild
  <1>1. CASE ForeignStarts(p)
    BY <1>1 DEF ForeignStarts
  <1>2. CASE ForeignEnds(p)
    BY <1>2 DEF ForeignEnds
  <1> QED
    BY <1>1, <1>2 DEF Foreigns

LEMMA ChildStep ==
  ASSUME IInv, Next
  PROVE  (ChildInv /\ GroupInv)'
  <1>1. CASE ReadsOn \/ Writes
    BY <1>1, ReadsStay, WritesStay, SameGroups, StaysKeeps DEF IInv
  <1>2. CASE Signals
    BY <1>2, SignalsEffect, StaysKeeps DEF Stays
  <1>3. ASSUME NEW p \in Pids, Rests, Wanes(p)
        PROVE  (ChildInv /\ GroupInv)'
    BY <1>3, ProcessEffect, StaysKeeps DEF IInv, Wanes, Rests, Stays, jobs
  <1> QED
    BY <1>1, <1>2, <1>3, SpawnChild, WalkChild, KillChild, ReapChild, ForeignChild, Sorted

-----------------------------------------------------------------------------
(* Signals *)

\* A child that is watched before a step and after it is in the same group, nearer to its end.
LEMMA WatchedOnward ==
  ASSUME IInv, Next, NEW r \in Requests, worker[r].pc \in Watched, worker'[r].pc \in Watched
  PROVE  worker'[r].pid = worker[r].pid /\ Onward(worker[r].pid)
  <1>1. worker[r].pid \in Pids /\ group[worker[r].pid].of = r /\ worker[r].pc \in InChild
    BY DEF IInv, ChildInv, ChildOf, Watched
  <1>2. ASSUME AllOnward, \A s \in Requests : Stays(s)
        PROVE  worker'[r].pid = worker[r].pid /\ Onward(worker[r].pid)
    BY <1>1, <1>2 DEF AllOnward, Stays
  <1>3. CASE ReadsOn \/ Writes
    BY <1>2, <1>3, ReadsStay, WritesStay, SameGroups DEF IInv
  <1>4. CASE Signals
    BY <1>2, <1>4, SignalsEffect DEF Stays
  <1>5. ASSUME NEW s \in Requests, Spawn(s)
        PROVE  worker'[r].pid = worker[r].pid /\ Onward(worker[r].pid)
    <2>1. s # r /\ worker'[r] = worker[r] /\ group'[worker[r].pid] = group[worker[r].pid]
      BY <1>1, <1>5, NullsDiffer DEF Spawn, At, NoGroup, InChild, Watched, IInv, TypeOK
    <2> QED
      BY <2>1 DEF Onward
  <1>6. ASSUME NEW s \in Requests, Walks(s)
        PROVE  worker'[r].pid = worker[r].pid /\ Onward(worker[r].pid)
    <2>1. ASSUME Register(s) \/ Probe(s) \/ TakeSlot(s)
          PROVE  worker'[r].pid = worker[r].pid /\ UNCHANGED group
      BY <2>1, GoMoves DEF Register, Probe, ProbeExited, TakeSlot, IInv
    <2>2. ASSUME ClearSlot(s)
          PROVE  worker'[r].pid = worker[r].pid /\ UNCHANGED group
      BY <2>2 DEF ClearSlot, At, Watched, IInv, TypeOK
    <2>3. worker'[r].pid = worker[r].pid /\ UNCHANGED group
      BY <1>6, <2>1, <2>2 DEF Walks
    <2> QED
      BY <1>1, <2>3, SameGroups DEF IInv, AllOnward
  <1>7. ASSUME NEW s \in Requests, Kills(s)
        PROVE  worker'[r].pid = worker[r].pid /\ Onward(worker[r].pid)
    <2>1. worker'[r].pid = worker[r].pid
      BY <1>7, GoMoves DEF Kills, CheckCancelled, GiveUp, KillGroup, IInv
    <2> QED
      BY <1>1, <1>7, <2>1, WorkerEffect DEF IInv, Kills, AllOnward
  <1>8. ASSUME NEW s \in Requests, Reap(s)
        PROVE  worker'[r].pid = worker[r].pid /\ Onward(worker[r].pid)
    <2>1. group' = [group EXCEPT ![worker[s].pid] = NoGroup]
      BY <1>8, ReapEffect
    <2>2. s # r /\ worker'[r] = worker[r] /\ worker[s].pid # worker[r].pid
      BY <1>1, <1>8 DEF Reap, At, Go, Watched, InChild, IInv, TypeOK, ChildInv, ChildOf
    <2> QED
      BY <1>1, <2>1, <2>2 DEF Onward, IInv, TypeOK
  <1>9. ASSUME NEW p \in Pids, Rests, Wanes(p)
        PROVE  worker'[r].pid = worker[r].pid /\ Onward(worker[r].pid)
    BY <1>1, <1>9, ProcessEffect DEF IInv, Wanes, Rests, AllOnward
  <1>10. ASSUME NEW p \in Pids, Rests, Foreigns(p)
         PROVE  worker'[r].pid = worker[r].pid /\ Onward(worker[r].pid)
    <2>1. p # worker[r].pid /\ UNCHANGED worker
      BY <1>1, <1>10, NullsDiffer DEF Foreigns, ForeignStarts, ForeignEnds, NoGroup, Rests
    <2>2. group'[worker[r].pid] = group[worker[r].pid]
      BY <1>1, <1>10, <2>1 DEF Foreigns, ForeignStarts, ForeignEnds, IInv, TypeOK
    <2> QED
      BY <2>1, <2>2 DEF Onward
  <1> QED
    BY <1>3, <1>4, <1>5, <1>6, <1>7, <1>8, <1>9, <1>10, Sorted

LEMMA StrayStep ==
  ASSUME IInv, Next
  PROVE  NoStraySignal'
  <1>1. CASE ReadsOn \/ Writes
    BY <1>1, ReadsStay, WritesStay DEF IInv, NoStraySignal
  <1>2. CASE Signals
    BY <1>2, SignalsEffect DEF NoStraySignal
  <1>3. ASSUME NEW r \in Requests, Kills(r)
        PROVE  NoStraySignal'
    BY <1>3, WorkerEffect DEF IInv, Kills, NoStraySignal
  <1>4. ASSUME NEW r \in Requests, Spawn(r) \/ Walks(r) \/ Reap(r)
        PROVE  UNCHANGED stray
    BY <1>4 DEF Spawn, Walks, Register, Probe, TakeSlot, ClearSlot, Reap
  <1> QED
    BY <1>1, <1>2, <1>3, <1>4, Sorted DEF IInv, NoStraySignal, Rests

-----------------------------------------------------------------------------
(* The registry *)

LEMMA RegistryStays ==
  ASSUME TypeOK, RegistryInv, UNCHANGED inflight, \A r \in Requests : Live(r) <=> Live(r)'
  PROVE  RegistryInv'
  <1>1. UNCHANGED InFlight /\ UNCHANGED Cardinality(InFlight) /\ UNCHANGED IsFiniteSet(InFlight)
    BY DEF InFlight
  <1>2. \A i \in Ids : inflight[i] # NoReq => inflight[i] \in Requests
    BY DEF TypeOK
  <1>3. \A i \in Ids : inflight'[i] # NoReq => IdOf[inflight[i]] = i /\ Live(inflight[i])'
    BY <1>2 DEF RegistryInv
  <1>4. \A r \in Requests : Live(r)' => inflight'[IdOf[r]] = r
    BY DEF RegistryInv
  <1> QED
    BY <1>1, <1>3, <1>4 DEF RegistryInv

LEMMA RegistryStep ==
  ASSUME IInv, Next
  PROVE  RegistryInv'
  <1>1. ASSUME NEW r \in Requests, NEW l \in Pc, Go(r, l), UNCHANGED inflight,
               LET L == {"between"} \union InChild \union Answering IN worker[r].pc \in L <=> l \in L
        PROVE  RegistryInv'
    <2>1. \A s \in Requests : Live(s) <=> Live(s)'
      BY <1>1, GoMoves DEF IInv, Live
    <2> QED
      BY <1>1, <2>1, RegistryStays DEF IInv
  <1>2. ASSUME UNCHANGED <<worker, inflight>>
        PROVE  RegistryInv'
    BY <1>2, RegistryStays DEF IInv, Live
  <1>3. ASSUME NEW r \in Requests, Dispatch(r)
        PROVE  RegistryInv'
    <2>1. /\ Go(r, "between") /\ worker[r].pc = "unsent"
          /\ inflight[IdOf[r]] = NoReq /\ inflight' = [inflight EXCEPT ![IdOf[r]] = r]
          /\ ~ (Cardinality(InFlight) >= MaxInflight)
      BY <1>3 DEF Dispatch, Refusal
    <2>2. IdOf[r] \in Ids /\ r # NoReq
      BY IdAssumption, NullsDiffer
    <2>3. \A i \in Ids : inflight[i] \in Requests \union {NoReq}
          /\ inflight'[i] = IF i = IdOf[r] THEN r ELSE inflight[i]
      BY <2>1 DEF IInv, TypeOK
    <2>4. Live(r)' /\ ~ Live(r) /\ \A s \in Requests \ {r} : Live(s)' <=> Live(s)
      BY <2>1, GoMoves DEF IInv, Live, InChild, Answering
    <2>5. InFlight' = InFlight \union {r} /\ r \notin InFlight
      BY <2>1, <2>2, <2>3, <2>4 DEF InFlight, IInv, RegistryInv
    <2>6. IsFiniteSet(InFlight') /\ Cardinality(InFlight') <= MaxInflight
      <3>1. IsFiniteSet(InFlight) /\ Cardinality(InFlight) \in Nat
        BY FS_CardinalityType DEF IInv, RegistryInv
      <3>2. IsFiniteSet(InFlight \union {r}) /\ Cardinality(InFlight \union {r}) = Cardinality(InFlight) + 1
        BY <2>5, <3>1, FS_AddElement
      <3> QED
        BY <2>1, <2>5, <3>1, <3>2, BoundAssumption
    <2>7. ASSUME NEW s \in Requests, Live(s)'
          PROVE  inflight'[IdOf[s]] = s
      <3>1. CASE s = r
        BY <2>2, <2>3, <3>1
      <3>2. CASE s # r
        <4>1. inflight[IdOf[s]] = s /\ IdOf[s] \in Ids /\ s # NoReq
          BY <2>4, <2>7, <3>2, IdAssumption, NullsDiffer DEF IInv, RegistryInv
        <4> QED
          BY <2>1, <2>3, <4>1
      <3> QED
        BY <3>1, <3>2
    <2>8. \A i \in Ids : inflight'[i] # NoReq => IdOf[inflight[i]'] = i /\ Live(inflight[i])'
      BY <2>1, <2>2, <2>3, <2>4, NullsDiffer DEF IInv, RegistryInv
    <2> QED
      BY <2>6, <2>7, <2>8 DEF RegistryInv
  <1>4. ASSUME NEW r \in Requests, Leave(r)
        PROVE  RegistryInv'
    <2>1. /\ Go(r, "gone") /\ worker[r].pc = "leaving"
          /\ inflight' = [inflight EXCEPT ![IdOf[r]] = NoReq]
      BY <1>4 DEF Leave, At
    <2>2. Live(r) /\ ~ Live(r)' /\ \A s \in Requests \ {r} : Live(s)' <=> Live(s)
      BY <2>1, GoMoves DEF IInv, Live, InChild, Answering
    <2>3. \A i \in Ids : inflight[i] \in Requests \union {NoReq}
          /\ inflight'[i] = IF i = IdOf[r] THEN NoReq ELSE inflight[i]
      BY <2>1 DEF IInv, TypeOK
    <2>4. inflight[IdOf[r]] = r /\ IdOf[r] \in Ids /\ r # NoReq
      BY <2>2, IdAssumption, NullsDiffer DEF IInv, RegistryInv
    <2>5. InFlight' = InFlight \ {r} /\ r \in InFlight
      BY <2>3, <2>4 DEF InFlight, IInv, RegistryInv
    <2>6. IsFiniteSet(InFlight') /\ Cardinality(InFlight') <= MaxInflight
      <3>1. IsFiniteSet(InFlight) /\ Cardinality(InFlight) \in Nat
        BY FS_CardinalityType DEF IInv, RegistryInv
      <3>2. IsFiniteSet(InFlight \ {r}) /\ Cardinality(InFlight \ {r}) = Cardinality(InFlight) - 1
        BY <2>5, <3>1, FS_RemoveElement
      <3> QED
        BY <2>5, <3>1, <3>2, BoundAssumption DEF IInv, RegistryInv
    <2>7. \A s \in Requests : Live(s)' => inflight'[IdOf[s]] = s
      BY <2>2, <2>3, <2>4, IdAssumption DEF IInv, RegistryInv
    <2>8. \A i \in Ids : inflight'[i] # NoReq => IdOf[inflight[i]'] = i /\ Live(inflight[i])'
      BY <2>2, <2>3, <2>4, NullsDiffer DEF IInv, RegistryInv
    <2> QED
      BY <2>6, <2>7, <2>8 DEF RegistryInv
  <1>5. CASE ReadsOn
    <2>1. ASSUME NEW r \in Requests, Reply(r)
          PROVE  RegistryInv'
      BY <1>1, <2>1 DEF Reply, Post, Pc, InChild, Answering
    <2>2. ASSUME ~ \E r \in Requests : Reply(r) \/ Dispatch(r)
          PROVE  UNCHANGED <<worker, inflight>>
      BY <1>5, <2>2 DEF ReadsOn, Input, Lookup, Eof, Mark, Snapshot, StopMark, StopWait, Exit, jobs
    <2> QED
      BY <1>2, <1>3, <2>1, <2>2
  <1>6. CASE Signals
    BY <1>2, <1>6, SignalsEffect
  <1>7. CASE Writes
    <2>1. ASSUME NEW r \in Requests, Finish(r) \/ Judge(r) \/ TakeOut(r) \/ Written(r)
          PROVE  RegistryInv'
      BY <1>1, <2>1 DEF Finish, Judge, TakeOut, Written, At, jobs, Pc, InChild, Answering
    <2>2. CASE WriterTakes \/ WriterWritten
      BY <1>2, <2>2 DEF WriterTakes, WriterWritten, jobs
    <2> QED
      BY <1>4, <1>7, <2>1, <2>2 DEF Writes, Answer
  <1>8. ASSUME NEW r \in Requests, Spawn(r) \/ Walks(r) \/ Kills(r) \/ Reap(r)
        PROVE  RegistryInv'
    <2>1. ASSUME ~ Spawn(r), ~ ClearSlot(r)
          PROVE  worker[r].pc \in InChild /\ (\E l \in InChild : Go(r, l)) /\ UNCHANGED inflight
      BY <1>8, <2>1
      DEF Walks, Kills, Register, Probe, ProbeExited, TakeSlot, CheckCancelled, GiveUp, KillGroup, Reap, At,
          InChild, jobs
    <2>2. ASSUME Spawn(r) \/ ClearSlot(r)
          PROVE  UNCHANGED inflight /\ \A s \in Requests : Live(s) <=> Live(s)'
      <3>1. CASE Spawn(r)
        BY <3>1 DEF Spawn, At, InChild, Answering, Live, IInv, TypeOK, jobs
      <3>2. CASE ClearSlot(r)
        BY <3>2 DEF ClearSlot, At, InChild, Answering, Live, IInv, TypeOK, jobs
      <3> QED
        BY <2>2, <3>1, <3>2
    <2> QED
      BY <1>1, <2>1, <2>2, RegistryStays DEF IInv, Pc
  <1> QED
    BY <1>2, <1>5, <1>6, <1>7, <1>8, Sorted DEF Rests, jobs

-----------------------------------------------------------------------------
(* Answers *)

\* Where a step answers nobody and queues nothing.
LEMMA AnswersStay ==
  ASSUME AnswerInv, UNCHANGED <<queue, answered>>, out' = Writer => out = Writer \/ queue # <<>>,
         \A r \in Requests : /\ cancelled[r] => cancelled'[r]
                             /\ Owed(r)' => Owed(r)
                             /\ worker[r].pc = "posted" <=> worker'[r].pc = "posted"
                             /\ worker'[r].pc \in {"leaving", "gone"} =>
                                  worker[r].pc \in {"leaving", "gone"} \/ cancelled[r],
         \A k \in 1..Len(queue) : queue[k] \in Requests
  PROVE  AnswerInv'
  BY DEF AnswerInv, Queued

LEMMA AnswerStep ==
  ASSUME IInv, Next
  PROVE  AnswerInv'
  <1>1. \A k \in 1..Len(queue) : queue[k] \in Requests
    BY DEF IInv, TypeOK
  <1>2. ASSUME UNCHANGED <<worker, queue, answered>>, out' = Writer => out = Writer \/ queue # <<>>,
               \A r \in Requests : cancelled[r] => cancelled'[r]
        PROVE  AnswerInv'
    BY <1>1, <1>2, AnswersStay DEF IInv, Owed
  <1>3. ASSUME NEW r \in Requests, NEW l \in Pc, Go(r, l), UNCHANGED <<queue, answered, out, cancelled>>,
               Owed(r), l \notin {"posted", "leaving", "gone"}
        PROVE  AnswerInv'
    <2>1. \A s \in Requests : s # r => worker'[s] = worker[s]
      BY <1>3, GoMoves DEF IInv
    <2>2. worker'[r].pc = l
      BY <1>3, GoMoves DEF IInv
    <2> QED
      BY <1>1, <1>3, <2>1, <2>2, AnswersStay DEF IInv, Owed, InChild, Pc
  <1>4. ASSUME NEW r \in Requests, Reply(r)
        PROVE  AnswerInv'
    BY <1>4, <1>1 DEF Reply, Post, Go, AnswerInv, Owed, Queued, IInv, TypeOK, InChild
  <1>5. ASSUME NEW r \in Requests, Judge(r) \/ TakeOut(r) \/ Written(r) \/ Leave(r)
        PROVE  AnswerInv'
    <2> USE <1>1 DEF AnswerInv, Owed, Queued, IInv, TypeOK, InChild, At, Go, jobs, output
    <2>1. CASE Judge(r)
      BY <2>1 DEF Judge
    <2>2. CASE TakeOut(r)
      BY <2>2, NullsDiffer DEF TakeOut
    <2>3. CASE Written(r)
      BY <2>3, NullsDiffer DEF Written
    <2>4. CASE Leave(r)
      BY <2>4 DEF Leave
    <2> QED
      BY <1>5, <2>1, <2>2, <2>3, <2>4
  <1>6. CASE WriterWritten
    <2>1. /\ queue # <<>> /\ queue' = Tail(queue) /\ answered' = [answered EXCEPT ![Head(queue)] = @ + 1]
          /\ out' = NoReq /\ UNCHANGED <<worker, cancelled>>
      BY <1>6 DEF WriterWritten, IInv, AnswerInv, jobs
    <2>2. /\ Len(queue) \in Nat \ {0} /\ Len(queue') = Len(queue) - 1 /\ Head(queue) = queue[1]
          /\ \A k \in 1..Len(queue') : queue'[k] = queue[k + 1]
      BY <2>1 DEF IInv, TypeOK
    <2>3. PICK h \in Requests : h = queue[1] /\ worker[h].pc = "posted" /\ Queued(h) /\ answered[h] = 0
      BY <1>1, <2>2 DEF IInv, AnswerInv, Queued
    <2>4. /\ answered'[h] = 1
          /\ \A r \in Requests \ {h} : answered'[r] = answered[r]
      BY <2>1, <2>2, <2>3 DEF IInv, TypeOK
    <2>5. /\ ~ Queued(h)'
          /\ \A r \in Requests \ {h} : Queued(r)' <=> Queued(r)
      <3>1. ~ Queued(h)'
        BY <2>2, <2>3 DEF IInv, AnswerInv, Queued
      <3>2. ASSUME NEW r \in Requests \ {h}, Queued(r)
            PROVE  Queued(r)'
        <4>1. PICK k \in 1..Len(queue) : queue[k] = r
          BY <3>2 DEF Queued
        <4>2. k # 1 /\ k - 1 \in 1..Len(queue') /\ queue'[k - 1] = r
          BY <2>2, <2>3, <4>1
        <4> QED
          BY <4>2 DEF Queued
      <3>3. ASSUME NEW r \in Requests \ {h}, Queued(r)'
            PROVE  Queued(r)
        BY <2>2, <3>3 DEF Queued
      <3> QED
        BY <3>1, <3>2, <3>3
    <2>6. \A r \in Requests : Owed(r)' => answered'[r] = 0
      BY <2>1, <2>3, <2>4 DEF Owed, InChild, IInv, AnswerInv
    <2>7. \A r \in Requests : worker'[r].pc = "posted" => answered'[r] = (IF Queued(r)' THEN 0 ELSE 1)
      BY <2>1, <2>4, <2>5 DEF IInv, AnswerInv
    <2>8. \A r \in Requests : worker'[r].pc \in {"leaving", "gone"} => answered'[r] = 1 \/ cancelled'[r]
      BY <2>1, <2>4 DEF IInv, AnswerInv
    <2>9. \A k \in 1..Len(queue') : worker'[queue'[k]].pc = "posted"
      BY <2>1, <2>2 DEF IInv, AnswerInv
    <2>10. \A k, l \in 1..Len(queue') : queue'[k] = queue'[l] => k = l
      <3>1. ASSUME NEW k \in 1..Len(queue'), NEW l \in 1..Len(queue'), queue'[k] = queue'[l]
            PROVE  k = l
        <4>1. /\ k + 1 \in 1..Len(queue) /\ l + 1 \in 1..Len(queue)
              /\ queue[k + 1] = queue[l + 1]
          BY <2>2, <3>1
        <4>2. k + 1 = l + 1
          BY <4>1 DEF IInv, AnswerInv
        <4> QED
          BY <2>2, <4>2
      <3> QED
        BY <3>1
    <2> QED
      BY <2>1, <2>6, <2>7, <2>8, <2>9, <2>10, NullsDiffer DEF AnswerInv
  <1>7. CASE ReadsOn
    <2>1. ASSUME NEW r \in Requests, Dispatch(r)
          PROVE  AnswerInv'
      BY <1>3, <2>1 DEF Dispatch, output, Pc, Owed
    <2>2. ASSUME ~ \E r \in Requests : Reply(r) \/ Dispatch(r)
          PROVE  UNCHANGED <<worker, queue, answered, out>> /\ \A r \in Requests : cancelled[r] => cancelled'[r]
      BY <1>7, <2>2
      DEF ReadsOn, Input, Lookup, Eof, Mark, Snapshot, StopMark, StopWait, Exit, jobs, output, IInv, TypeOK
    <2> QED
      BY <1>2, <1>4, <2>1, <2>2
  <1>8. CASE Signals
    BY <1>2, <1>8, SignalsEffect
  <1>9. CASE Writes
    <2>1. ASSUME NEW r \in Requests, Finish(r)
          PROVE  AnswerInv'
      BY <1>3, <2>1 DEF Finish, At, jobs, output, Pc, Answering, Owed
    <2>2. CASE WriterTakes
      BY <1>2, <2>2 DEF WriterTakes, jobs
    <2> QED
      BY <1>5, <1>6, <1>9, <2>1, <2>2 DEF Writes, Answer
  <1>10. ASSUME NEW r \in Requests, Spawn(r) \/ Walks(r) \/ Kills(r) \/ Reap(r)
         PROVE  AnswerInv'
    <2>1. ASSUME ~ Spawn(r), ~ ClearSlot(r)
          PROVE  Owed(r) /\ (\E l \in InChild : Go(r, l)) /\ UNCHANGED <<queue, answered, out, cancelled>>
      BY <1>10, <2>1
      DEF Walks, Kills, Register, Probe, ProbeExited, TakeSlot, CheckCancelled, GiveUp, KillGroup, Reap, At,
          InChild, Owed, jobs, output
    <2>2. CASE Spawn(r)
      BY <2>2, <1>1 DEF Spawn, At, InChild, Owed, Queued, AnswerInv, IInv, TypeOK, jobs, output
    <2>3. CASE ClearSlot(r)
      BY <2>3, <1>1 DEF ClearSlot, At, InChild, Owed, Queued, AnswerInv, IInv, TypeOK, jobs, output
    <2> QED
      BY <1>3, <2>1, <2>2, <2>3 DEF Pc, InChild
  <1>11. ASSUME Rests
         PROVE  AnswerInv'
    BY <1>2, <1>11 DEF Rests, jobs, output
  <1> QED
    BY <1>7, <1>8, <1>9, <1>10, <1>11, Sorted

-----------------------------------------------------------------------------
(* Stopping *)

\* Steps of the workers and of processes leave stdin alone.
LEMMA OthersLeaveStdin ==
  ASSUME IInv, Next, ~ ReadsOn, ~ Signals
  PROVE  /\ UNCHANGED <<stdin, cancelled>> /\ (queue = <<>> => queue' = <<>>)
         /\ \A r \in Requests : Live(r)' => Live(r)
  <1>1. UNCHANGED <<stdin, cancelled>> /\ (queue = <<>> => queue' = <<>>)
    BY Sorted
    DEF IInv, AnswerInv, jobs, output, Writes, Answer, Finish, Judge, TakeOut, Leave, Written, WriterTakes,
        WriterWritten,
        Spawn, Walks, Register, Probe, TakeSlot, ClearSlot, Kills, CheckCancelled, GiveUp, KillGroup, Reap, Rests
  <1>2. ASSUME NEW r \in Requests, NEW l \in Pc, Go(r, l), Live(r)
        PROVE  \A s \in Requests : Live(s)' => Live(s)
    BY <1>2, GoMoves DEF IInv, Live
  <1>3. CASE Writes
    <2>1. ASSUME NEW r \in Requests, Answer(r) \/ Written(r)
          PROVE  \A s \in Requests : Live(s)' => Live(s)
      <3>1. Live(r) /\ \E l \in Pc : Go(r, l)
        BY <2>1 DEF Answer, Finish, Judge, TakeOut, Leave, Written, At, Live, Pc, Answering
      <3> QED
        BY <1>2, <3>1
    <2>2. CASE WriterTakes \/ WriterWritten
      BY <1>1, <2>2 DEF WriterTakes, WriterWritten, Live
    <2> QED
      BY <1>1, <1>3, <2>1, <2>2 DEF Writes
  <1>4. ASSUME NEW r \in Requests, Spawn(r) \/ Walks(r) \/ Kills(r) \/ Reap(r)
        PROVE  \A s \in Requests : Live(s)' => Live(s)
    <2>1. ASSUME ~ Spawn(r), ~ ClearSlot(r)
          PROVE  worker[r].pc \in InChild /\ (\E l \in InChild : Go(r, l))
      BY <1>4, <2>1
      DEF Walks, Kills, Register, Probe, ProbeExited, TakeSlot, CheckCancelled, GiveUp, KillGroup, Reap, At,
          InChild
    <2>2. ASSUME Spawn(r) \/ ClearSlot(r)
          PROVE  \A s \in Requests : Live(s)' => Live(s)
      <3>1. CASE Spawn(r)
        BY <3>1 DEF Spawn, At, InChild, Answering, Live, IInv, TypeOK
      <3>2. CASE ClearSlot(r)
        BY <3>2 DEF ClearSlot, At, InChild, Answering, Live, IInv, TypeOK
      <3> QED
        BY <2>2, <3>1, <3>2
    <2> QED
      BY <1>2, <2>1, <2>2 DEF Pc, Live
  <1> QED
    BY <1>1, <1>3, <1>4, Sorted DEF Rests, Live

\* A worker gets past a new child only by looking whether its call was cancelled.
LEMMA LooksFirst ==
  ASSUME IInv, Next, NEW r \in Requests, worker'[r].pc \in Watched \ {"spawned", "registered"}
  PROVE  worker[r].pc \in Watched \ {"spawned", "registered"} \/ CheckCancelled(r)
  <1>1. CASE ReadsOn \/ Writes
    BY <1>1, ReadsStay, WritesStay DEF Stays, Watched
  <1>2. CASE Signals
    BY <1>2, SignalsEffect
  <1>3. ASSUME NEW s \in Requests, Walks(s) \/ Kills(s) \/ Reap(s), ~ ClearSlot(s), ~ CheckCancelled(s)
        PROVE  worker[r].pc \in Watched \ {"spawned", "registered"}
    <2>1. /\ \E l \in InChild : Go(s, l)
          /\ Register(s) => Go(s, "registered")
          /\ ~ Register(s) => worker[s].pc \in Watched \ {"spawned", "registered"}
      BY <1>3
      DEF Walks, Register, Probe, ProbeExited, TakeSlot, Kills, GiveUp, KillGroup, Reap, At, Watched, InChild
    <2> QED
      BY <2>1, GoMoves DEF IInv
  <1>4. ASSUME NEW s \in Requests, CheckCancelled(s), s # r
        PROVE  worker[r].pc \in Watched \ {"spawned", "registered"}
    BY <1>4, GoMoves DEF CheckCancelled, IInv
  <1>5. ASSUME NEW s \in Requests, Spawn(s)
        PROVE  worker[r].pc \in Watched \ {"spawned", "registered"}
    BY <1>5 DEF Spawn, IInv, TypeOK
  <1>6. ASSUME NEW s \in Requests, ClearSlot(s)
        PROVE  worker[r].pc \in Watched \ {"spawned", "registered"}
    BY <1>6 DEF ClearSlot, IInv, TypeOK, Watched, InChild
  <1> QED
    BY <1>1, <1>2, <1>3, <1>4, <1>5, <1>6, Sorted DEF Walks, Kills, Rests

LEMMA SettledStays ==
  ASSUME IInv, Next, NEW r \in Requests, cancelled[r], Settled(r)
  PROVE  Settled(r)'
  <1> SUFFICES ASSUME worker'[r].pc \in Watched \ {"spawned", "registered"}
               PROVE  group'[worker'[r].pid].leader # "running"
    BY DEF Settled
  <1>1. CASE worker[r].pc \in Watched \ {"spawned", "registered"}
    BY <1>1, WatchedOnward DEF Settled, Onward
  <1>2. CASE CheckCancelled(r)
    BY <1>2, WorkerEffect, GoMoves DEF IInv, CheckCancelled
  <1> QED
    BY <1>1, <1>2, LooksFirst

LEMMA StopStep ==
  ASSUME IInv, Next
  PROVE  StopInv'
  <1>1. ASSUME ~ ReadsOn, ~ Signals
        PROVE  StopInv'
    <2>1. /\ UNCHANGED <<stdin, cancelled>> /\ (queue = <<>> => queue' = <<>>)
          /\ \A r \in Requests : Live(r)' => Live(r)
      BY <1>1, OthersLeaveStdin
    <2>2. JobInv' /\ ListInv'
      BY <2>1 DEF IInv, StopInv, JobInv, ListInv
    <2>3. KilledInv'
      <3>1. ASSUME stdin.pc \in {"killing", "exited"}, NEW r \in stdin.jobs \ stdin.todo
            PROVE  Settled(r)'
        <4>1. r \in Requests /\ cancelled[r] /\ Settled(r)
          BY <3>1 DEF IInv, StopInv, KilledInv, TypeOK
        <4> QED
          BY <4>1, SettledStays
      <3> QED
        BY <2>1, <3>1 DEF IInv, StopInv, KilledInv
    <2> QED
      BY <2>2, <2>3 DEF StopInv
  <1>2. ASSUME stdin.pc = "reading", UNCHANGED stdin
        PROVE  StopInv'
    BY <1>2 DEF IInv, StopInv, JobInv, ListInv, KilledInv, Ending
  <1>3. ASSUME NEW i \in Ids, Lookup(i)
        PROVE  StopInv'
    <2>1. /\ stdin'.pc = "mark" /\ stdin'.job \in Requests
      BY <1>3 DEF Lookup, IInv, TypeOK
    <2> QED
      BY <2>1 DEF StopInv, JobInv, ListInv, KilledInv, Ending
  <1>4. CASE Eof
    <2>1. stdin'.pc = "draining" /\ stdin'.job = NoReq
      BY <1>4 DEF Eof, StdinAt, StdinGo, IInv, StopInv, JobInv, TypeOK
    <2> QED
      BY <2>1 DEF StopInv, JobInv, ListInv, KilledInv, Ending
  <1>5. CASE Mark
    <2>1. stdin'.pc = "soft" /\ stdin'.job \in Requests /\ cancelled'[stdin'.job]
      BY <1>5 DEF Mark, StdinAt, StdinGo, IInv, StopInv, JobInv, TypeOK
    <2> QED
      BY <2>1 DEF StopInv, JobInv, ListInv, KilledInv, Ending
  <1>6. CASE Soft
    <2>1. stdin'.pc = "reading" /\ stdin'.job = NoReq
      BY <1>6 DEF Soft, IInv, TypeOK
    <2> QED
      BY <2>1 DEF StopInv, JobInv, ListInv, KilledInv, Ending
  <1>7. ASSUME NEW over \in BOOLEAN, Snapshot(over)
        PROVE  StopInv'
    <2>1. /\ stdin'.pc = "stopping" /\ stdin'.todo = InFlight /\ stdin'.jobs = InFlight
          /\ stdin'.gaveUp = over /\ stdin'.job = NoReq
      BY <1>7 DEF Snapshot, StdinAt, IInv, StopInv, JobInv, TypeOK
    <2>2. /\ UNCHANGED <<worker, queue>>
          /\ ~ over => queue = <<>> /\ InFlight = {}
      BY <1>7 DEF Snapshot, Idle, output
    <2>3. \A r \in Requests : Live(r) => r \in InFlight
      BY IdAssumption, NullsDiffer DEF InFlight, IInv, RegistryInv
    <2> QED
      BY <2>1, <2>2, <2>3 DEF StopInv, JobInv, ListInv, KilledInv, Ending, Live
  <1>8. ASSUME NEW r \in Requests, StopMark(r)
        PROVE  StopInv'
    <2>1. /\ stdin'.pc = "stopping" /\ stdin'.job = r /\ r \in stdin.todo /\ stdin.pc = "stopping"
          /\ stdin'.todo = stdin.todo /\ stdin'.jobs = stdin.jobs /\ stdin'.gaveUp = stdin.gaveUp
      BY <1>8 DEF StopMark, StdinAt, IInv, TypeOK
    <2>2. /\ UNCHANGED <<worker, queue>> /\ cancelled'[r]
          /\ \A s \in Requests : cancelled[s] => cancelled'[s]
      BY <1>8 DEF StopMark, output, IInv, TypeOK
    <2>3. stdin.jobs \subseteq Requests
      BY DEF IInv, TypeOK
    <2> QED
      BY <2>1, <2>2, <2>3 DEF IInv, StopInv, JobInv, ListInv, KilledInv, Ending, Live
  <1>9. CASE StopSoft
    <2>1. /\ stdin'.pc = "stopping" /\ stdin'.job = NoReq /\ stdin.pc = "stopping" /\ stdin.job # NoReq
          /\ stdin'.todo = stdin.todo \ {stdin.job} /\ stdin'.jobs = stdin.jobs
          /\ stdin'.gaveUp = stdin.gaveUp
      BY <1>9 DEF StopSoft, StdinAt, IInv, TypeOK
    <2>2. UNCHANGED <<worker, queue, cancelled>>
      BY <1>9 DEF StopSoft, output, jobs
    <2> QED
      BY <2>1, <2>2 DEF IInv, StopInv, JobInv, ListInv, KilledInv, Ending, Live
  <1>10. CASE StopWait
    <2>1. /\ stdin'.pc = "killing" /\ stdin'.job = stdin.job /\ stdin.pc = "stopping" /\ stdin.todo = {}
          /\ stdin'.todo = stdin.jobs /\ stdin'.jobs = stdin.jobs /\ stdin'.gaveUp = stdin.gaveUp
      BY <1>10 DEF StopWait, StdinAt, IInv, TypeOK
    <2>2. UNCHANGED <<worker, queue, cancelled>>
      BY <1>10 DEF StopWait, output, jobs
    <2> QED
      BY <2>1, <2>2 DEF IInv, StopInv, JobInv, ListInv, KilledInv, Ending, Live
  <1>11. ASSUME NEW r \in Requests, StopHard(r)
         PROVE  StopInv'
    <2>1. /\ stdin'.pc = "killing" /\ stdin'.job = stdin.job /\ stdin.pc = "killing" /\ r \in stdin.todo
          /\ stdin'.todo = stdin.todo \ {r} /\ stdin'.jobs = stdin.jobs /\ stdin'.gaveUp = stdin.gaveUp
      BY <1>11 DEF StopHard, StdinAt, IInv, TypeOK
    <2>2. UNCHANGED <<worker, queue, cancelled>>
      BY <1>11 DEF StopHard, output, jobs
    <2>3. Settled(r)'
      <3>1. worker[r].pc \in Watched \ {"spawned"} => group'[worker[r].pid].leader # "running"
        BY <1>11, SignalEffect DEF StopHard, LastSignal, IInv
      <3> QED
        BY <2>2, <3>1 DEF Settled
    <2>4. \A s \in stdin.jobs \ stdin.todo : Settled(s)'
      BY <2>1, SettledStays DEF IInv, TypeOK, StopInv, KilledInv
    <2> QED
      BY <2>1, <2>2, <2>3, <2>4 DEF IInv, StopInv, JobInv, ListInv, KilledInv, Ending, Live
  <1>12. CASE Exit
    <2>1. /\ stdin'.pc = "exited" /\ stdin'.job = stdin.job /\ stdin.pc = "killing" /\ stdin.todo = {}
          /\ stdin'.todo = stdin.todo /\ stdin'.jobs = stdin.jobs /\ stdin'.gaveUp = stdin.gaveUp
      BY <1>12 DEF Exit, StdinAt, StdinGo, IInv, TypeOK
    <2>2. UNCHANGED <<worker, group, queue, cancelled>>
      BY <1>12 DEF Exit, output, jobs
    <2> QED
      BY <2>1, <2>2 DEF IInv, StopInv, JobInv, ListInv, KilledInv, Ending, Live, Settled
  <1>13. ASSUME NEW r \in Requests, Reply(r) \/ Dispatch(r)
         PROVE  StopInv'
    BY <1>2, <1>13 DEF Reply, Dispatch, StdinAt
  <1> QED
    BY <1>1, <1>3, <1>4, <1>5, <1>6, <1>7, <1>8, <1>9, <1>10, <1>11, <1>12, <1>13
    DEF ReadsOn, Signals, Input

-----------------------------------------------------------------------------
(* Cancelling *)

\* The signal that follows the mark finds the child, unless its worker is at it already.
LEMMA SoftReaches ==
  ASSUME IInv, Soft \/ StopSoft, worker[stdin.job].pc = "waiting"
  PROVE  group'[worker[stdin.job].pid].asked
  <1>1. stdin.job \in Requests
    BY DEF IInv, StopInv, JobInv, TypeOK, Soft, StopSoft, StdinAt
  <1>2. Signal(stdin.job, FALSE)
    BY DEF Soft, StopSoft
  <1> QED
    BY <1>1, <1>2, SignalEffect DEF IInv, Watched, InChild

LEMMA NextUp ==
  ASSUME Next
  PROVE  Up
  BY Sorted
  DEF Up, StdinAt, ReadsOn, Input, Reply, Dispatch, Lookup, Eof, Mark, Snapshot, StopMark, StopWait, Exit, Signals,
      Soft, StopSoft, StopHard, Writes, Answer, Finish, Judge, TakeOut, Leave, Written, WriterTakes, WriterWritten,
      Spawn, Walks, Register, Probe, ProbeExited, TakeSlot, ClearSlot, Kills, CheckCancelled, GiveUp, KillGroup,
      Reap, At

LEMMA CancelStep ==
  ASSUME IInv, Next
  PROVE  CancelReaches'
  <1> SUFFICES ASSUME NEW r \in Requests,
                      cancelled'[r], worker'[r].pc = "waiting", group'[worker'[r].pid].leader = "running",
                      ~ (stdin'.pc \in {"soft", "stopping"} /\ stdin'.job = r)
               PROVE  group'[worker'[r].pid].asked
    BY DEF CancelReaches, At
  <1>1. CASE CheckCancelled(r)
    <2>1. worker'[r].pid = worker[r].pid /\ cancelled[r]
      BY <1>1, GoMoves DEF IInv, CheckCancelled, jobs
    <2> QED
      BY <1>1, <2>1, WorkerEffect DEF IInv
  <1>2. CASE ~ CheckCancelled(r)
    <2>1. worker[r].pc = "waiting"
      <3>1. worker[r].pc \in Watched \ {"spawned", "registered"}
        BY <1>2, LooksFirst DEF Watched, InChild
      <3>2. ASSUME NEW s \in Requests, NEW l, Go(s, l), l # "waiting"
            PROVE  worker[r].pc = "waiting"
        BY <3>2, GoMoves DEF IInv
      <3>3. CASE ReadsOn \/ Writes
        BY <3>3, ReadsStay, WritesStay DEF Stays, InChild
      <3>4. CASE Signals
        BY <3>4, SignalsEffect
      <3>5. ASSUME NEW s \in Requests, Spawn(s) \/ Walks(s) \/ Kills(s) \/ Reap(s)
            PROVE  worker[r].pc = "waiting"
        <4>1. CASE Spawn(s)
          BY <4>1 DEF Spawn, IInv, TypeOK
        <4>2. CASE ClearSlot(s)
          BY <4>2 DEF ClearSlot, IInv, TypeOK
        <4>3. CASE CheckCancelled(s)
          BY <1>2, <4>3, GoMoves DEF CheckCancelled, IInv
        <4> QED
          BY <3>2, <3>5, <4>1, <4>3, <4>2
          DEF Walks, Register, Probe, ProbeExited, TakeSlot, Kills, GiveUp, KillGroup, Reap
      <3> QED
        BY <3>3, <3>4, <3>5, Sorted DEF Rests
    <2>2. worker'[r].pid = worker[r].pid /\ Onward(worker[r].pid)
      BY <2>1, WatchedOnward DEF Watched, InChild
    <2>3. group[worker[r].pid].leader = "running" /\ (group[worker[r].pid].asked => group'[worker[r].pid].asked)
      BY <2>2 DEF Onward
    <2>4. CASE ~ cancelled[r]
      <3>1. (\E s \in Requests : StopMark(s)) \/ Mark
        <4>1. ReadsOn
          BY <2>4, OthersLeaveStdin, SignalsEffect
        <4>2. ASSUME Input \/ (\E over \in BOOLEAN : Snapshot(over)) \/ StopWait \/ Exit
              PROVE  UNCHANGED cancelled
          BY <4>2 DEF Input, Reply, Dispatch, Lookup, Eof, Snapshot, StopWait, Exit, jobs
        <4>3. cancelled' # cancelled
          BY <2>4
        <4>4. Input \/ Mark \/ (\E over \in BOOLEAN : Snapshot(over)) \/ (\E s \in Requests : StopMark(s))
              \/ StopWait \/ Exit
          BY <4>1 DEF ReadsOn
        <4> QED
          BY <4>2, <4>3, <4>4
      <3>2. stdin'.pc \in {"soft", "stopping"} /\ stdin'.job = r
        <4>1. ASSUME NEW s \in Requests, cancelled' = [cancelled EXCEPT ![s] = TRUE]
              PROVE  s = r
          BY <2>4, <4>1 DEF IInv, TypeOK
        <4>2. CASE Mark
          <5>1. stdin.job \in Requests
            BY <4>2 DEF Mark, StdinAt, IInv, StopInv, JobInv
          <5> QED
            BY <4>1, <4>2, <5>1 DEF Mark, StdinGo, IInv, TypeOK
        <4>3. ASSUME NEW s \in Requests, StopMark(s)
              PROVE  stdin'.pc \in {"soft", "stopping"} /\ stdin'.job = r
          BY <4>1, <4>3 DEF StopMark, StdinAt, IInv, TypeOK
        <4> QED
          BY <3>1, <4>2, <4>3
      <3> QED
        BY <3>2
    <2>5. CASE cancelled[r] /\ group[worker[r].pid].asked
      BY <2>2, <2>3, <2>5
    <2>6. CASE cancelled[r] /\ stdin.pc \in {"soft", "stopping"} /\ stdin.job = r
      <3>1. Soft \/ StopSoft
        <4>1. ReadsOn \/ Signals
          BY <2>6, OthersLeaveStdin
        <4>2. r # NoReq /\ (stdin.pc = "stopping" => stdin.todo # {})
          BY <2>6, NullsDiffer DEF IInv, StopInv, JobInv
        <4>3. ~ Input /\ ~ Mark /\ ~ (\E over \in BOOLEAN : Snapshot(over)) /\ ~ StopWait /\ ~ Exit
          BY <2>6, <4>2 DEF Input, Reply, Dispatch, Lookup, Eof, Mark, Snapshot, StopWait, Exit, StdinAt
        <4> QED
          BY <2>6, <4>1, <4>2, <4>3 DEF ReadsOn, StopMark, Signals, StopHard, StdinAt
      <3> QED
        BY <2>1, <2>2, <2>6, <3>1, SoftReaches
    <2> QED
      BY <2>1, <2>3, <2>4, <2>5, <2>6, NextUp DEF IInv, CancelReaches, At
  <1> QED
    BY <1>1, <1>2

-----------------------------------------------------------------------------
(* Types *)

LEMMA TypeStep ==
  ASSUME IInv, Next
  PROVE  TypeOK'
  <1>1. worker' \in Workers
    BY WorkerType DEF IInv, TypeOK, Workers
  <1>2. group' \in [Pids -> GroupRecord]
    <2> DEFINE New(r) == [NoGroup EXCEPT !.of = r, !.leader = "running"]
    <2>1. NoGroup \in GroupRecord
      BY DEF NoGroup, GroupRecord
    <2>2. group \in [Pids -> GroupRecord] /\ \A r \in Requests \union {Foreign} : New(r) \in GroupRecord
      BY <2>1 DEF IInv, TypeOK, GroupRecord
    <2> HIDE DEF New
    <2>3. CASE ReadsOn \/ Writes
      BY <2>3, ReadsStay, WritesStay DEF IInv, TypeOK, GroupRecord
    <2>4. CASE Signals
      BY <2>4, SignalsEffect DEF AllOnward
    <2>5. ASSUME NEW r \in Requests, Spawn(r)
          PROVE  group' \in [Pids -> GroupRecord]
      <3>1. PICK p \in Pids : group' = [group EXCEPT ![p] = New(r)]
        BY <2>5 DEF Spawn, New
      <3> QED
        BY <2>2, <3>1
    <2>6. ASSUME NEW r \in Requests, Walks(r)
          PROVE  UNCHANGED group
      BY <2>6 DEF Walks, Register, Probe, TakeSlot, ClearSlot
    <2>7. ASSUME NEW r \in Requests, Kills(r)
          PROVE  group' \in [Pids -> GroupRecord]
      BY <2>7, WorkerEffect DEF IInv, Kills, AllOnward
    <2>8. ASSUME NEW r \in Requests, Reap(r)
          PROVE  group' \in [Pids -> GroupRecord]
      BY <2>8, <2>1, <2>2, ReapEffect
    <2>9. ASSUME NEW p \in Pids, Wanes(p)
          PROVE  group' \in [Pids -> GroupRecord]
      BY <2>9, ProcessEffect DEF IInv, Wanes, AllOnward
    <2>10. ASSUME NEW p \in Pids, Foreigns(p)
          PROVE  group' \in [Pids -> GroupRecord]
      BY <2>10, <2>1, <2>2 DEF Foreigns, ForeignStarts, ForeignEnds, New
    <2> QED
      BY <2>3, <2>4, <2>5, <2>6, <2>7, <2>8, <2>9, <2>10, <2>2, Sorted
  <1>3. stdin' \in Stdin
    <2>1. InFlight \subseteq Requests /\ stdin \in Stdin
      BY DEF InFlight, IInv, TypeOK, Stdin
    <2> USE <2>1 DEF Stdin
    <2>2. CASE UNCHANGED stdin
      BY <2>2
    <2>3. ASSUME NEW i \in Ids, Lookup(i)
          PROVE  stdin' \in Stdin
      BY <2>3 DEF Lookup, IInv, TypeOK
    <2>4. CASE Eof \/ Mark \/ Soft
      BY <2>4 DEF Eof, Mark, StdinGo, Soft
    <2>5. ASSUME NEW over \in BOOLEAN, Snapshot(over)
          PROVE  stdin' \in Stdin
      BY <2>5 DEF Snapshot
    <2>6. ASSUME NEW r \in Requests, StopMark(r) \/ StopHard(r)
          PROVE  stdin' \in Stdin
      BY <2>6 DEF StopMark, StopHard
    <2>7. CASE StopSoft \/ StopWait \/ Exit
      BY <2>7 DEF StopSoft, StopWait, Exit, StdinGo
    <2> QED
      BY <2>2, <2>3, <2>4, <2>5, <2>6, <2>7, OthersLeaveStdin DEF ReadsOn, Signals, Input, Reply, Dispatch
  <1>4. inflight' \in [Ids -> Requests \union {NoReq}] /\ cancelled' \in [Requests -> BOOLEAN]
    <2> USE DEF IInv, TypeOK, jobs
    <2>1. CASE ReadsOn
      BY <2>1 DEF ReadsOn, Input, Reply, Post, Dispatch, Lookup, Eof, Mark, Snapshot, StopMark, StopWait, Exit
    <2>2. CASE Signals
      BY <2>2, SignalsEffect
    <2>3. CASE Writes
      BY <2>3 DEF Writes, Answer, Finish, Judge, TakeOut, Leave, Written, WriterTakes, WriterWritten
    <2>4. ASSUME NEW r \in Requests, Spawn(r) \/ Walks(r) \/ Kills(r) \/ Reap(r)
          PROVE  UNCHANGED <<inflight, cancelled>>
      BY <2>4 DEF Spawn, Walks, Register, Probe, TakeSlot, ClearSlot, Kills, CheckCancelled, GiveUp, KillGroup,
                  Reap
    <2> QED
      BY <2>1, <2>2, <2>3, <2>4, Sorted DEF Rests
  <1>5. slot' \in [Requests -> Pids \union {NoPid}]
    <2> USE DEF IInv, TypeOK, jobs
    <2>1. CASE ReadsOn \/ Writes
      BY <2>1, ReadsStay, WritesStay
    <2>2. CASE Signals
      BY <2>2, SignalsEffect
    <2>3. ASSUME NEW r \in Requests, Spawn(r) \/ Walks(r) \/ Kills(r) \/ Reap(r)
          PROVE  slot' \in [Requests -> Pids \union {NoPid}]
      BY <2>3 DEF Spawn, Walks, Register, Probe, TakeSlot, ClearSlot, Kills, CheckCancelled, GiveUp, KillGroup,
                  Reap
    <2> QED
      BY <2>1, <2>2, <2>3, Sorted DEF Rests
  <1>6. out' \in Requests \union {NoReq, Writer} /\ queue' \in Seq(Requests)
    <2> USE DEF IInv, TypeOK, output
    <2>1. CASE UNCHANGED <<out, queue>>
      BY <2>1
    <2>2. ASSUME NEW r \in Requests, Reply(r)
          PROVE  out' = out /\ queue' = Append(queue, r)
      BY <2>2 DEF Reply, Post
    <2>3. queue \in Seq(Requests) /\ out \in Requests \union {NoReq, Writer}
      OBVIOUS
    <2>4. \A r \in Requests : Append(queue, r) \in Seq(Requests)
      BY <2>3
    <2>5. ASSUME ReadsOn, ~ \E r \in Requests : Reply(r)
          PROVE  UNCHANGED <<out, queue>>
      BY <2>5 DEF ReadsOn, Input, Dispatch, Lookup, Eof, Mark, Snapshot, StopMark, StopWait, Exit
    <2>6. ASSUME NEW r \in Requests, Answer(r) \/ Written(r)
          PROVE  out' \in Requests \union {NoReq, Writer} /\ queue' \in Seq(Requests)
      BY <2>6 DEF Answer, Finish, Judge, TakeOut, Leave, Written
    <2>7. CASE WriterTakes
      BY <2>7 DEF WriterTakes
    <2>8. CASE WriterWritten
      BY <2>8 DEF WriterWritten, AnswerInv
    <2>9. ASSUME NEW r \in Requests, Spawn(r) \/ Walks(r) \/ Kills(r) \/ Reap(r)
          PROVE  UNCHANGED <<out, queue>>
      BY <2>9 DEF Spawn, Walks, Register, Probe, TakeSlot, ClearSlot, Kills, CheckCancelled, GiveUp, KillGroup,
                  Reap
    <2>10. ASSUME Signals \/ Rests
          PROVE  UNCHANGED <<out, queue>>
      BY <2>10, SignalsEffect DEF Rests
    <2>11. ASSUME NEW r \in Requests, Reply(r)
          PROVE  out' \in Requests \union {NoReq, Writer} /\ queue' \in Seq(Requests)
      <3>1. out' = out /\ queue' = Append(queue, r)
        BY <2>2, <2>11
      <3> HIDE DEF IInv, TypeOK
      <3> QED
        BY <3>1, <2>3, <2>4
    <2> HIDE DEF IInv, TypeOK
    <2> QED
      BY <2>1, <2>5, <2>6, <2>7, <2>8, <2>9, <2>10, <2>11, Sorted DEF Writes
  <1>7. answered' \in [Requests -> 0..1]
    <2> USE DEF IInv, TypeOK, output
    <2>1. ASSUME NEW r \in Requests, answered[r] = 0, answered' = [answered EXCEPT ![r] = @ + 1]
          PROVE  answered' \in [Requests -> 0..1]
      BY <2>1
    <2>2. ASSUME NEW r \in Requests, Written(r)
          PROVE  answered' \in [Requests -> 0..1]
      BY <2>1, <2>2 DEF Written, At, AnswerInv, Owed
    <2>3. CASE WriterWritten
      <3>1. queue # <<>> /\ Head(queue) = queue[1] /\ 1 \in 1..Len(queue) /\ queue[1] \in Requests
        BY <2>3 DEF WriterWritten, AnswerInv
      <3>2. answered[queue[1]] = 0
        BY <3>1 DEF AnswerInv, Queued
      <3> QED
        BY <2>1, <2>3, <3>1, <3>2 DEF WriterWritten
    <2>4. CASE ReadsOn
      BY <2>4 DEF ReadsOn, Input, Reply, Post, Dispatch, Lookup, Eof, Mark, Snapshot, StopMark, StopWait, Exit
    <2>5. CASE Signals
      BY <2>5, SignalsEffect
    <2>6. ASSUME NEW r \in Requests, Answer(r)
          PROVE  answered' \in [Requests -> 0..1]
      BY <2>6 DEF Answer, Finish, Judge, TakeOut, Leave
    <2>7. ASSUME NEW r \in Requests, Spawn(r) \/ Walks(r) \/ Kills(r) \/ Reap(r)
          PROVE  answered' \in [Requests -> 0..1]
      BY <2>7 DEF Spawn, Walks, Register, Probe, TakeSlot, ClearSlot, Kills, CheckCancelled, GiveUp, KillGroup,
                  Reap
    <2>8. ASSUME WriterTakes \/ Rests
          PROVE  answered' \in [Requests -> 0..1]
      BY <2>8 DEF WriterTakes, Rests
    <2> HIDE DEF IInv, TypeOK
    <2> QED
      BY <2>2, <2>3, <2>4, <2>5, <2>6, <2>7, <2>8, Sorted DEF Writes
  <1>8. stray' \in BOOLEAN
    <2>1. CASE ReadsOn \/ Writes
      BY <2>1, ReadsStay, WritesStay DEF IInv, TypeOK
    <2>2. CASE Signals
      BY <2>2 DEF Signals, Soft, StopSoft, StopHard, LastSignal, Signal, Strays, IInv, TypeOK
    <2>3. stray \in BOOLEAN
      BY DEF IInv, TypeOK
    <2>4. ASSUME NEW r \in Requests, Spawn(r) \/ Walks(r) \/ Kills(r) \/ Reap(r)
          PROVE  stray' \in BOOLEAN
      <3>1. CASE Spawn(r) \/ Walks(r) \/ Reap(r) \/ CheckCancelled(r)
        <4>1. UNCHANGED stray
          BY <3>1 DEF Spawn, Walks, Register, Probe, TakeSlot, ClearSlot, CheckCancelled, Reap
        <4> QED
          BY <2>3, <4>1
      <3>2. CASE GiveUp(r) \/ KillGroup(r)
        <4>1. stray' = (stray \/ Strays(worker[r].pid))
          BY <3>2 DEF GiveUp, KillGroup, KillRest
        <4> QED
          BY <4>1
      <3> QED
        BY <2>4, <3>1, <3>2 DEF Kills
    <2>5. CASE Rests
      BY <2>5 DEF Rests, IInv, TypeOK
    <2> QED
      BY <2>1, <2>2, <2>4, <2>5, Sorted
  <1> QED
    BY <1>1, <1>2, <1>3, <1>4, <1>5, <1>6, <1>7, <1>8 DEF TypeOK, Workers, GroupRecord, Stdin

-----------------------------------------------------------------------------
(* The invariant, and what follows from it *)

LEMMA InitIInv ==
  ASSUME Init
  PROVE  IInv
  <1>1. TypeOK
    <2>1. NoGroup \in GroupRecord
      BY DEF NoGroup, GroupRecord
    <2>2. worker \in Workers /\ stdin \in Stdin
      BY BoundAssumption DEF Init, Workers, Pc, Stdin
    <2>3. group \in [Pids -> GroupRecord]
      BY <2>1 DEF Init
    <2>4. /\ inflight \in [Ids -> Requests \union {NoReq}]
          /\ cancelled \in [Requests -> BOOLEAN]
          /\ slot \in [Requests -> Pids \union {NoPid}]
          /\ out \in Requests \union {NoReq, Writer}
          /\ answered \in [Requests -> 0..1]
          /\ stray \in BOOLEAN
      <3>1. inflight \in [Ids -> Requests \union {NoReq}] /\ cancelled \in [Requests -> BOOLEAN]
        BY DEF Init
      <3>2. slot \in [Requests -> Pids \union {NoPid}] /\ out \in Requests \union {NoReq, Writer}
        BY DEF Init
      <3>3. answered \in [Requests -> 0..1]
        BY DEF Init
      <3>4. stray \in BOOLEAN
        BY DEF Init
      <3> QED
        BY <3>1, <3>2, <3>3, <3>4
    <2>5. queue \in Seq(Requests)
      <3>1. <<>> \in Seq(Requests)
        OBVIOUS
      <3>2. queue = <<>>
        BY DEF Init
      <3> QED
        BY <3>1, <3>2
    <2> QED
      BY <2>2, <2>3, <2>4, <2>5 DEF TypeOK, Workers, Stdin, GroupRecord
  <1>2. ChildInv /\ GroupInv /\ NoStraySignal
    BY NullsDiffer DEF Init, ChildInv, ChildOf, GroupInv, NoStraySignal, NoGroup, InChild, Watched
  <1>3. RegistryInv
    <2>1. InFlight = {} /\ \A r \in Requests : ~ Live(r)
      BY DEF Init, InFlight, Live, InChild, Answering
    <2> QED
      BY <2>1, FS_EmptySet, BoundAssumption DEF RegistryInv, Init
  <1>4. AnswerInv
    BY NullsDiffer DEF Init, AnswerInv, Queued
  <1>5. StopInv /\ CancelReaches
    BY DEF Init, StopInv, JobInv, ListInv, KilledInv, Ending, CancelReaches
  <1> QED
    BY <1>1, <1>2, <1>3, <1>4, <1>5 DEF IInv

LEMMA NextIInv ==
  ASSUME IInv, [Next]_vars
  PROVE  IInv'
  <1>1. CASE Next
    BY <1>1, TypeStep, StrayStep, ChildStep, RegistryStep, AnswerStep, StopStep, CancelStep DEF IInv
  <1>2. CASE UNCHANGED vars
    <2> USE <1>2 DEF vars, IInv
    <2>1. TypeOK' /\ NoStraySignal' /\ CancelReaches'
      BY DEF TypeOK, NoStraySignal, CancelReaches, At, Up
    <2>2. ChildInv' /\ GroupInv'
      BY DEF ChildInv, ChildOf, GroupInv
    <2>3. RegistryInv'
      BY RegistryStays DEF Live
    <2>4. AnswerInv'
      BY DEF AnswerInv, Owed, Queued
    <2>5. StopInv'
      BY DEF StopInv, JobInv, ListInv, KilledInv, Live, Settled
    <2> QED
      BY <2>1, <2>2, <2>3, <2>4, <2>5
  <1> QED
    BY <1>1, <1>2

LEMMA SpecInv == Spec => []IInv
  <1>1. Init => IInv
    BY InitIInv
  <1>2. IInv /\ [Next]_vars => IInv'
    BY NextIInv
  <1> QED
    BY <1>1, <1>2, PTL DEF Spec

\* The state of the server keeps its shape, and no request is answered twice.
THEOREM TypeCorrect == Spec => []TypeOK
  <1>1. IInv => TypeOK
    BY DEF IInv
  <1> QED
    BY <1>1, SpecInv, PTL

\* No signal the server sends, to cancel a call, to give it up or to clean up after it, reaches a
\* process group that is not of that call, and no child leaves others of its group behind: for any
\* number of calls, children and pids, however soon a pid is given out again.
THEOREM SignalsHitTheirGroupCorrect == Spec => []SignalsHitTheirGroup
  <1>1. IInv => SignalsHitTheirGroup
    BY DEF IInv, GroupInv, NoGroup, SignalsHitTheirGroup, GroupGoesWithLeader
  <1> QED
    BY <1>1, SpecInv, PTL

\* A cancellation reaches the child of the call, also one that is started at that moment.
THEOREM CancelReachesCorrect == Spec => []CancelReaches
  <1>1. IInv => CancelReaches
    BY DEF IInv
  <1> QED
    BY <1>1, SpecInv, PTL

\* The threads that serve calls are no more than HM_MAX_INFLIGHT, and each is in the registry.
THEOREM CallsAreKnownCorrect == Spec => []CallsAreKnown
  <1>1. ASSUME IInv
        PROVE  CallsAreKnown
    <2>1. {r \in Requests : Live(r)} = InFlight
      BY <1>1, IdAssumption, NullsDiffer DEF IInv, TypeOK, RegistryInv, InFlight
    <2> QED
      BY <1>1, <2>1 DEF IInv, RegistryInv, CallsAreKnown, WorkersBounded, RegistryExact
  <1> QED
    BY <1>1, SpecInv, PTL

\* A server that stops because all is quiet owes no answer, and one that stops has killed every
\* child but those its workers were just starting.
THEOREM ShutdownSettlesCorrect == Spec => []ShutdownSettles
  <1>1. ASSUME IInv
        PROVE  AnsweredBeforeExit
    <2> SUFFICES ASSUME ~ Up, ~ stdin.gaveUp, NEW r \in Requests
                 PROVE  worker[r].pc = "unsent" \/ answered[r] = 1 \/ cancelled[r]
      BY DEF AnsweredBeforeExit
    <2>1. queue = <<>> /\ ~ Live(r)
      BY <1>1 DEF Up, IInv, StopInv, ListInv, Ending
    <2>2. worker[r].pc \in {"unsent", "posted", "gone"}
      BY <1>1, <2>1 DEF IInv, TypeOK, Pc, Live
    <2> QED
      BY <1>1, <2>1, <2>2 DEF IInv, AnswerInv, Queued
  <1>2. ASSUME IInv
        PROVE  ShutdownReaches
    <2> SUFFICES ASSUME ~ Up, NEW p \in Pids, group[p].of \in Requests, group[p].leader = "running"
                 PROVE  worker[group[p].of].pc \in {"spawned", "registered"}
      BY DEF ShutdownReaches
    <2>1. worker[group[p].of].pid = p /\ worker[group[p].of].pc \in Watched
      BY <1>2 DEF IInv, GroupInv
    <2>2. Settled(group[p].of)
      BY <1>2, <2>1 DEF Up, IInv, StopInv, ListInv, KilledInv, Ending, Live, Watched
    <2> QED
      BY <2>1, <2>2 DEF Settled
  <1> QED
    BY <1>1, <1>2, SpecInv, PTL DEF ShutdownSettles
=============================================================================
