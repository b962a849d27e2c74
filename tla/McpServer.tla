------------------------------ MODULE McpServer ------------------------------
(***************************************************************************)
(* The request loop of mcp-server/src/main.rs.  The stdin thread reads     *)
(* lines; a tools/call runs on a worker thread of its own, which starts    *)
(* child processes one after another, each the leader of a process group;  *)
(* a cancellation signals the group of the child now running; end of input *)
(* waits for what is in flight, then stops it and exits.                   *)
(*                                                                         *)
(* Pids are given out again once a group is gone, to our next child or to  *)
(* an unrelated process.  A deadline or a grace period may end whenever it *)
(* is awaited: only the order of what follows is modelled, not durations.  *)
(***************************************************************************)
EXTENDS Naturals, FiniteSets, Sequences

CONSTANTS Requests,     \* the lines with an id that the client may send
          Ids, IdOf,    \* request ids, and the id of each request
          Pids,         \* pids, which are also the ids of process groups
          MaxInflight,  \* HM_MAX_INFLIGHT
          MaxKids,      \* bound: children one call may start
          NoReq, NoPid, Foreign, Writer

ASSUME IdAssumption == IdOf \in [Requests -> Ids]
ASSUME NullsDiffer == NoReq \notin Requests /\ NoPid \notin Pids
                      /\ {Foreign, Writer} \intersect (Requests \union {NoReq}) = {}
ASSUME BoundAssumption == MaxInflight \in Nat \ {0} /\ MaxKids \in Nat

VARIABLES inflight,    \* the registry: for each id the request it finds
          cancelled,   \* job.cancelled
          slot,        \* job.pgid
          worker,      \* for each request: where its thread is, the child it waits for
          group,       \* process groups: whose, their leader, the rest of them
          stdin,       \* where the stdin thread is, and the jobs it has yet to treat
          out,         \* who holds the stdout lock
          queue,       \* lines posted and not finished being written (QUEUED)
          answered,    \* how often each request was answered
          stray        \* whether a signal ever reached a group that is not ours

vars == <<inflight, cancelled, slot, worker, group, stdin, out, queue, answered, stray>>
jobs == <<inflight, cancelled, slot>>
output == <<out, queue, answered>>

InChild == {"spawned", "registered", "waiting", "dying", "exited", "reaping", "struck", "reaped"}
Answering == {"finished", "towrite", "writing", "leaving"}

NoGroup == [of |-> NoReq, leader |-> "none", rest |-> FALSE, asked |-> FALSE]

Init ==
  /\ inflight = [i \in Ids |-> NoReq]
  /\ cancelled = [r \in Requests |-> FALSE]
  /\ slot = [r \in Requests |-> NoPid]
  /\ worker = [r \in Requests |-> [pc |-> "unsent", pid |-> NoPid, kids |-> 0]]
  /\ group = [p \in Pids |-> NoGroup]
  /\ stdin = [pc |-> "reading", job |-> NoReq, todo |-> {}, jobs |-> {}, gaveUp |-> FALSE]
  /\ out = NoReq
  /\ queue = <<>>
  /\ answered = [r \in Requests |-> 0]
  /\ stray = FALSE

Up == stdin.pc # "exited"
At(r, l) == Up /\ worker[r].pc = l
Go(r, l) == worker' = [worker EXCEPT ![r].pc = l]
StdinAt(l) == stdin.pc = l
StdinGo(l) == stdin' = [stdin EXCEPT !.pc = l]

Live(r) == worker[r].pc \in {"between"} \union InChild \union Answering
InFlight == {inflight[i] : i \in Ids} \ {NoReq}

\* reap_leader keeps job.pgid locked from before the group is killed until the slot is clear.
HoldsSlot(r) == worker[r].pc \in {"reaping", "struck", "reaped"}

-----------------------------------------------------------------------------
(* Processes and signals *)

\* SIGKILL to a group: its leader will die, and is then a zombie until it is reaped.
Killed(p) == [group EXCEPT ![p].leader = IF @ = "running" THEN "killed" ELSE @,
                           ![p].rest = FALSE,
                           ![p].asked = TRUE]

Asked(p) == [group EXCEPT ![p].asked = TRUE]

\* kill(-p, ..) where somebody else's group has the id by now.
Strays(p) == group[p].of = Foreign

Forks(p) ==
  /\ group[p].leader = "running" /\ group[p].of \in Requests /\ ~ group[p].rest
  /\ group' = [group EXCEPT ![p].rest = TRUE]

Dies(p) ==
  /\ group[p].leader = "killed" /\ group[p].of \in Requests
  /\ group' = [group EXCEPT ![p].leader = "zombie"]

Exits(p) ==
  /\ group[p].leader = "running" /\ group[p].of \in Requests
  /\ group' = [group EXCEPT ![p].leader = "zombie"]

RestExits(p) ==
  /\ group[p].rest
  /\ group' = [group EXCEPT ![p] = IF @.leader = "none" THEN NoGroup ELSE [@ EXCEPT !.rest = FALSE]]

ForeignStarts(p) ==
  /\ group[p] = NoGroup
  /\ group' = [group EXCEPT ![p] = [NoGroup EXCEPT !.of = Foreign, !.leader = "running"]]

ForeignEnds(p) ==
  /\ group[p].of = Foreign
  /\ group' = [group EXCEPT ![p] = NoGroup]

Process(p) ==
  /\ Up
  /\ Forks(p) \/ Dies(p) \/ Exits(p) \/ RestExits(p) \/ ForeignStarts(p) \/ ForeignEnds(p)
  /\ UNCHANGED <<jobs, worker, stdin, output, stray>>

-----------------------------------------------------------------------------
(* A worker thread: spawn_child, wait_with_input, reap_leader *)

\* The child runs; the slot does not know it yet.
Spawn(r) ==
  /\ At(r, "between") /\ worker[r].kids < MaxKids
  /\ \E p \in Pids :
       /\ group[p] = NoGroup
       /\ group' = [group EXCEPT ![p] = [NoGroup EXCEPT !.of = r, !.leader = "running"]]
       /\ worker' = [worker EXCEPT ![r].pc = "spawned", ![r].pid = p, ![r].kids = @ + 1]
  /\ UNCHANGED <<jobs, stdin, output, stray>>

Register(r) ==
  /\ At(r, "spawned")
  /\ slot' = [slot EXCEPT ![r] = worker[r].pid]
  /\ Go(r, "registered")
  /\ UNCHANGED <<inflight, cancelled, group, stdin, output, stray>>

\* Mutant of AfterRegister: nobody looks whether the call was cancelled meanwhile.
AfterRegisterBlind(r) == group' = group

\* "Cancelled before the child existed".
AfterRegister(r) == group' = IF cancelled[r] THEN Killed(worker[r].pid) ELSE group

CheckCancelled(r) ==
  /\ At(r, "registered")
  /\ AfterRegister(r)
  /\ Go(r, "waiting")
  /\ UNCHANGED <<jobs, stdin, output, stray>>

\* Mutant of ProbeExited: the slot is held while the exit is awaited.
ProbeExitedHolding(r) ==
  \/ /\ At(r, "waiting") /\ group[worker[r].pid].leader = "zombie" /\ Go(r, "exited")
  \/ At(r, "dying") /\ Go(r, "reaping")

\* exited_unreaped: the leader is a zombie.  One whose call is given up is waited for.
ProbeExited(r) ==
  /\ At(r, "waiting") \/ At(r, "dying")
  /\ group[worker[r].pid].leader = "zombie"
  /\ Go(r, "exited")

Probe(r) ==
  /\ ProbeExited(r)
  /\ UNCHANGED <<jobs, group, stdin, output, stray>>

\* Mutant of GraceMayEnd: a cancelled call is left to its deadline.
GraceMayEndNever(r) == FALSE

\* CANCEL_GRACE, counted from when the worker sees the flag.
GraceMayEnd(r) == cancelled[r]

\* Mutant of GiveUp: the call waits for a child nobody has killed.
GiveUpAsking(r) ==
  /\ At(r, "waiting")
  /\ Go(r, "dying")
  /\ UNCHANGED <<jobs, group, stdin, output, stray>>

\* The deadline, or the grace, passes: the group is killed before it is reaped.
GiveUp(r) ==
  /\ At(r, "waiting")
  /\ group' = Killed(worker[r].pid)
  /\ stray' = (stray \/ Strays(worker[r].pid))
  /\ Go(r, "dying")
  /\ UNCHANGED <<jobs, stdin, output>>

CancelGraceEnds(r) == GraceMayEnd(r) /\ GiveUp(r)
DeadlinePasses(r) == GiveUp(r)

TakeSlot(r) ==
  /\ At(r, "exited")
  /\ Go(r, "reaping")
  /\ UNCHANGED <<jobs, group, stdin, output, stray>>

\* kill_group while the zombie still reserves the id.
KillRest(r) ==
  /\ group' = Killed(worker[r].pid)
  /\ stray' = (stray \/ Strays(worker[r].pid))

KillGroup(r) ==
  /\ At(r, "reaping")
  /\ KillRest(r)
  /\ Go(r, "struck")
  /\ UNCHANGED <<jobs, stdin, output>>

\* Reaping gives the id back, unless others of the group still have it.
Reap(r) ==
  /\ At(r, "struck") /\ group[worker[r].pid].leader = "zombie"
  /\ group' = [group EXCEPT ![worker[r].pid] =
                 IF @.rest THEN [@ EXCEPT !.leader = "none"] ELSE NoGroup]
  /\ Go(r, "reaped")
  /\ UNCHANGED <<jobs, stdin, output, stray>>

ClearSlot(r) ==
  /\ At(r, "reaped")
  /\ slot' = [slot EXCEPT ![r] = NoPid]
  /\ worker' = [worker EXCEPT ![r].pc = "between", ![r].pid = NoPid]
  /\ UNCHANGED <<inflight, cancelled, group, stdin, output, stray>>

Child(r) ==
  Spawn(r) \/ Register(r) \/ CheckCancelled(r) \/ Probe(r) \/ DeadlinePasses(r)
  \/ CancelGraceEnds(r) \/ TakeSlot(r) \/ KillGroup(r) \/ Reap(r) \/ ClearSlot(r)

-----------------------------------------------------------------------------
(* Answering: the end of the closure in dispatch, and the writer thread *)

\* handle_call returned, or panicked and was caught.
Finish(r) ==
  /\ At(r, "between")
  /\ Go(r, "finished")
  /\ UNCHANGED <<jobs, group, stdin, output, stray>>

\* A cancelled request gets no response.
Judge(r) ==
  /\ At(r, "finished")
  /\ Go(r, IF cancelled[r] THEN "leaving" ELSE "towrite")
  /\ UNCHANGED <<jobs, group, stdin, output, stray>>

TakeOut(r) ==
  /\ At(r, "towrite") /\ out = NoReq
  /\ out' = r
  /\ Go(r, "writing")
  /\ UNCHANGED <<jobs, group, stdin, queue, answered, stray>>

\* write_all and flush return once the client has read enough.
Written(r) ==
  /\ At(r, "writing")
  /\ out' = NoReq
  /\ answered' = [answered EXCEPT ![r] = @ + 1]
  /\ Go(r, "leaving")
  /\ UNCHANGED <<jobs, group, stdin, queue, stray>>

Leave(r) ==
  /\ At(r, "leaving")
  /\ inflight' = [inflight EXCEPT ![IdOf[r]] = NoReq]
  /\ Go(r, "gone")
  /\ UNCHANGED <<cancelled, slot, group, stdin, output, stray>>

WriterTakes ==
  /\ Up /\ queue # <<>> /\ out = NoReq
  /\ out' = Writer
  /\ UNCHANGED <<jobs, worker, group, stdin, queue, answered, stray>>

WriterWritten ==
  /\ Up /\ out = Writer
  /\ out' = NoReq
  /\ answered' = [answered EXCEPT ![Head(queue)] = @ + 1]
  /\ queue' = Tail(queue)
  /\ UNCHANGED <<jobs, worker, group, stdin, stray>>

Answer(r) == Finish(r) \/ Judge(r) \/ TakeOut(r) \/ Leave(r)
ClientReads == (\E r \in Requests : Written(r)) \/ WriterWritten

-----------------------------------------------------------------------------
(* The stdin thread: main, dispatch, cancel_request, drain_and_stop *)

\* Mutant of Post: the refusal does not return.
PostAndGoOn(r) ==
  /\ queue' = Append(queue, r)
  /\ Go(r, "between")
  /\ UNCHANGED <<inflight, out, answered>>

\* post_msg: the line is queued, the stdout lock not awaited.
Post(r) ==
  /\ queue' = Append(queue, r)
  /\ Go(r, "posted")
  /\ UNCHANGED <<inflight, out, answered>>

\* Mutant of Refusal: two requests may have one id.
RefusalDuplicates(r) == Cardinality(InFlight) >= MaxInflight

Refusal(r) == inflight[IdOf[r]] # NoReq \/ Cardinality(InFlight) >= MaxInflight

\* initialize, tools/list, ping or an unknown method; a call refused; a call
\* whose thread cannot be started, taken out of the registry again.
Reply(r) ==
  /\ StdinAt("reading") /\ worker[r].pc = "unsent"
  /\ Post(r)
  /\ UNCHANGED <<cancelled, slot, group, stdin, stray>>

Dispatch(r) ==
  /\ StdinAt("reading") /\ worker[r].pc = "unsent"
  /\ ~ Refusal(r)
  /\ inflight' = [inflight EXCEPT ![IdOf[r]] = r]
  /\ Go(r, "between")
  /\ UNCHANGED <<cancelled, slot, group, stdin, output, stray>>

\* notifications/cancelled: the registry's lock is let go before the job is touched.
Lookup(i) ==
  /\ StdinAt("reading") /\ inflight[i] # NoReq
  /\ stdin' = [stdin EXCEPT !.pc = "mark", !.job = inflight[i]]
  /\ UNCHANGED <<jobs, worker, group, output, stray>>

Mark ==
  /\ StdinAt("mark")
  /\ cancelled' = [cancelled EXCEPT ![stdin.job] = TRUE]
  /\ StdinGo("soft")
  /\ UNCHANGED <<inflight, slot, worker, group, output, stray>>

\* Mutant of SlotFree: the slot is read without its lock.
SlotFreeAlways(r) == TRUE

SlotFree(r) == ~ HoldsSlot(r)

\* sig::group, under the slot's lock: a signal to the group the slot names, if its
\* leader is there.
Signal(r, hard) ==
  /\ SlotFree(r)
  /\ LET p == slot[r]
     IN  IF p # NoPid /\ group[p].leader # "none"
           THEN /\ group' = IF hard THEN Killed(p) ELSE Asked(p)
                /\ stray' = (stray \/ Strays(p))
           ELSE UNCHANGED <<group, stray>>

Soft ==
  /\ StdinAt("soft")
  /\ Signal(stdin.job, FALSE)
  /\ stdin' = [stdin EXCEPT !.pc = "reading", !.job = NoReq]
  /\ UNCHANGED <<jobs, worker, output>>

Eof ==
  /\ StdinAt("reading")
  /\ StdinGo("draining")
  /\ UNCHANGED <<jobs, worker, group, output, stray>>

\* Mutant of Idle: queued lines are not waited for.
IdleUnqueued == InFlight = {}

Idle == InFlight = {} /\ queue = <<>>

\* Idle, or HM_SHUTDOWN_GRACE_SECS over: the jobs still in flight are listed.
Snapshot(over) ==
  /\ StdinAt("draining")
  /\ Idle \/ over
  /\ stdin' = [stdin EXCEPT !.pc = "stopping", !.todo = InFlight, !.jobs = InFlight,
                          !.gaveUp = over]
  /\ UNCHANGED <<jobs, worker, group, output, stray>>

\* Each is marked and its child asked; the loop visits them in any order.
StopMark(r) ==
  /\ StdinAt("stopping") /\ r \in stdin.todo /\ stdin.job = NoReq
  /\ cancelled' = [cancelled EXCEPT ![r] = TRUE]
  /\ stdin' = [stdin EXCEPT !.job = r]
  /\ UNCHANGED <<inflight, slot, worker, group, output, stray>>

StopSoft ==
  /\ StdinAt("stopping") /\ stdin.job # NoReq
  /\ Signal(stdin.job, FALSE)
  /\ stdin' = [stdin EXCEPT !.job = NoReq, !.todo = @ \ {stdin.job}]
  /\ UNCHANGED <<jobs, worker, output>>

\* Idle, or CANCEL_GRACE and a second over; then the same jobs once more.
StopWait ==
  /\ StdinAt("stopping") /\ stdin.todo = {}
  /\ stdin' = [stdin EXCEPT !.pc = "killing", !.todo = stdin.jobs]
  /\ UNCHANGED <<jobs, worker, group, output, stray>>

LastSignal(r) == Signal(r, TRUE)

StopHard(r) ==
  /\ StdinAt("killing") /\ r \in stdin.todo
  /\ LastSignal(r)
  /\ stdin' = [stdin EXCEPT !.todo = @ \ {r}]
  /\ UNCHANGED <<jobs, worker, output>>

\* main returns: every thread of the process is gone.
Exit ==
  /\ StdinAt("killing") /\ stdin.todo = {}
  /\ StdinGo("exited")
  /\ UNCHANGED <<jobs, worker, group, output, stray>>
-----------------------------------------------------------------------------
(* The specification *)

Stop ==
  \/ \E over \in BOOLEAN : Snapshot(over)
  \/ \E r \in Requests : StopMark(r) \/ StopHard(r)
  \/ StopSoft \/ StopWait \/ Exit

Input == (\E r \in Requests : Reply(r) \/ Dispatch(r)) \/ (\E i \in Ids : Lookup(i)) \/ Eof

Next ==
  \/ Input \/ Mark \/ Soft \/ Stop
  \/ \E r \in Requests : Child(r) \/ Answer(r)
  \/ ClientReads \/ WriterTakes
  \/ \E p \in Pids : Process(p)

Spec == Init /\ [][Next]_vars

\* Threads run.  Nothing is assumed of the client, which may never send or read a
\* byte, nor of a child, which may neither end nor die of a signal.
ThreadSteps(r) ==
  \/ Register(r) \/ CheckCancelled(r) \/ Probe(r) \/ TakeSlot(r) \/ KillGroup(r) \/ Reap(r)
  \/ ClearSlot(r) \/ Answer(r)

FairSpec ==
  /\ Spec
  /\ WF_vars(Mark \/ Soft \/ Stop)
  /\ WF_vars(WriterTakes)
  /\ \A r \in Requests : WF_vars(ThreadSteps(r))

\* What is sent SIGKILL dies, and the grace of a cancelled call runs out.
KillsWork ==
  /\ \A p \in Pids : WF_vars(Process(p) /\ Dies(p))
  /\ \A r \in Requests : WF_vars(CancelGraceEnds(r))

\* Deadlines pass, and the client reads what it is sent.
DeadlinesPass == \A r \in Requests : WF_vars(DeadlinePasses(r))
ClientKeepsReading == WF_vars(ClientReads)

-----------------------------------------------------------------------------
(* What the server promises *)

Pc == {"unsent", "posted", "between", "gone"} \union InChild \union Answering

TypeOK ==
  /\ inflight \in [Ids -> Requests \union {NoReq}]
  /\ cancelled \in [Requests -> BOOLEAN]
  /\ slot \in [Requests -> Pids \union {NoPid}]
  /\ worker \in [Requests -> [pc : Pc, pid : Pids \union {NoPid}, kids : 0..MaxKids]]
  /\ group \in [Pids -> [of : Requests \union {NoReq, Foreign},
                         leader : {"none", "running", "killed", "zombie"},
                         rest : BOOLEAN, asked : BOOLEAN]]
  /\ stdin \in [pc : {"reading", "mark", "soft", "draining", "stopping", "killing", "exited"},
                job : Requests \union {NoReq}, todo : SUBSET Requests, jobs : SUBSET Requests,
                gaveUp : BOOLEAN]
  /\ out \in Requests \union {NoReq, Writer}
  /\ queue \in Seq(Requests)
  /\ answered \in [Requests -> 0..1]
  /\ stray \in BOOLEAN

\* "a signal can never land on a pid that has already been recycled": no group that
\* is not ours is ever signalled, whatever the order of reaping and cancelling.
NoStraySignal == ~ stray

\* "a background job left holding our pipes, must not outlive the call": once the
\* leader of a group is reaped, nothing of the group is left.
GroupGoesWithLeader == \A p \in Pids : group[p].leader = "none" => ~ group[p].rest

\* Signals go to the groups of the calls they are meant for, and to all of them.
SignalsHitTheirGroup == NoStraySignal /\ GroupGoesWithLeader

\* A cancellation reaches the child of the call even when the child is started at
\* that moment: a child waited for was signalled, or is about to be.
CancelReaches ==
  \A r \in Requests :
    cancelled[r] /\ At(r, "waiting") /\ group[worker[r].pid].leader = "running"
      => group[worker[r].pid].asked \/ (stdin.pc \in {"soft", "stopping"} /\ stdin.job = r)

\* HM_MAX_INFLIGHT bounds the threads that serve calls, those that cannot write
\* their answer to a client that does not read included.
WorkersBounded == Cardinality({r \in Requests : Live(r)}) <= MaxInflight

\* The registry finds every call that runs, so that each can be cancelled by its id.
RegistryExact == \A r \in Requests : Live(r) => inflight[IdOf[r]] = r

\* What runs is bounded, and can be named.
CallsAreKnown == WorkersBounded /\ RegistryExact

\* A server that ends because all is quiet has answered everything it read, the
\* lines queued by the stdin thread included, but for what the client cancelled.
AnsweredBeforeExit ==
  ~ Up /\ ~ stdin.gaveUp =>
    \A r \in Requests : worker[r].pc = "unsent" \/ answered[r] = 1 \/ cancelled[r]

\* When the server exits, it has sent SIGKILL to every child still running, except one
\* that its worker has just started and has not yet looked after.
ShutdownReaches ==
  ~ Up => \A p \in Pids : group[p].of \in Requests /\ group[p].leader = "running"
            => worker[group[p].of].pc \in {"spawned", "registered"}

\* A shutdown leaves no answer owed and nothing it could have stopped.
ShutdownSettles == AnsweredBeforeExit /\ ShutdownReaches

\* "then stop every child still running ..., so simply exiting would leave a memory_ask
\* thinking ... for nobody": no child is left running.
NoChildOutlivesServer ==
  ~ Up => \A p \in Pids : group[p].of \in Requests => group[p].leader # "running"

\* The stdin thread "must never end up waiting on a child", nor on a client that does
\* not read: it comes back to its input, or ends.
StdinMovesOn == stdin.pc # "reading" ~> stdin.pc \in {"reading", "exited"}

\* A cancelled call whose answer is not on its way ends, however long its deadline and
\* whatever its child does, and gives up its place.
CancelEnds ==
  KillsWork =>
    \A r \in Requests :
      cancelled[r] /\ worker[r].pc \in {"between"} \union InChild
        ~> worker[r].pc = "gone" \/ ~ Up

\* Every line with an id that was read is answered, unless the client cancelled it or
\* the server was shut down before.
EveryCallAnswered ==
  KillsWork /\ DeadlinesPass /\ ClientKeepsReading =>
    \A r \in Requests :
      worker[r].pc # "unsent" ~> answered[r] = 1 \/ cancelled[r] \/ ~ Up
=============================================================================
