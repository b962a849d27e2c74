---------------------------- MODULE MemoryStoreMC ----------------------------
(***************************************************************************)
(* The memory store under six workloads.  A behaviour draws one and keeps  *)
(* to it: the commands issued, by whom, to which projects, how many in all *)
(* and how many at once.  Each is just large enough for what it is about,  *)
(* and together they stay small where all commands at once would not.  In  *)
(* the last one three sessions meet at the locks below and beside the rows *)
(* (StoreLocks), and the rows themselves rest.                             *)
(***************************************************************************)
EXTENDS Store, StoreCommands, FiniteSets, TLC

CONSTANTS p1, p2, p3, web, ops

VARIABLE workload

lockVars == <<doing, todo, held>>

Sessions == {p1, p2}
ThreeSessions == {p1, p2, p3}

People == {ann, bob}
Tags == {web, ops}
Members == {<<ann, web>>, <<ann, ops>>, <<bob, web>>}
AllCommands == {"write", "supersede", "mark", "hand", "merge", "pick", "derive", "page", "review"}

Workload(cmds, authors, projects, budget, atOnce) ==
  [cmds |-> cmds, authors |-> authors, projects |-> projects,
   budget |-> budget, atOnce |-> atOnce]

Editing == {"write", "supersede", "mark", "hand", "merge", "pick"}

Workloads ==
  { \* one author's beliefs: every way a row can be learned, retired and taken up again
    Workload(Editing, {ann}, {}, 5, 2),
    \* reviews approved and rejected by two sessions
    Workload({"write", "review", "merge", "pick", "derive"}, {ann}, {}, 5, 2),
    \* rebuilds of one page, and marks that bring old ones back
    Workload({"page", "mark"}, {ann}, {web}, 6, 2),
    \* two authors, each naming the other's rows
    Workload(Editing, People, {}, 4, 2),
    \* every audience a merge or a derivation can mix
    Workload({"write", "review", "merge", "derive"}, People, Tags, 4, 1) }

\* The transactions of StoreLocks.
AtTheLocks == Workload({"locks"}, {}, {}, 0, 0)

Keeps ==
  /\ begun <= workload.budget
  /\ Cardinality({p \in Procs : tx[p] # Idle}) <= workload.atOnce
  /\ \A p \in Procs : /\ tx[p].cmd \in workload.cmds \union {"none"}
                      /\ tx[p].who \in workload.authors \union {Nobody}
                      /\ tx[p].project \in workload.projects \union {NoProject}
  /\ \A k \in 1..Len(queue) : /\ {"review", queue[k].action} \subseteq workload.cmds
                              /\ queue[k].author \in workload.authors

Rest ==
  /\ begun = workload.budget
  /\ \A p \in Procs : tx[p] = Idle
  /\ UNCHANGED vars

AllDone == (\A p \in ThreeSessions : todo[p] = {} /\ held[p] = {}) /\ UNCHANGED lockVars

NoCommands == [p \in ThreeSessions |-> "none"]
NoLocks == [p \in ThreeSessions |-> {}]

WorkloadInit ==
  /\ workload \in Workloads \union {AtTheLocks}
  /\ Init
  /\ IF workload = AtTheLocks THEN L!Init ELSE doing = NoCommands /\ todo = NoLocks /\ held = NoLocks

WorkloadNext ==
  /\ UNCHANGED workload
  /\ IF workload = AtTheLocks
       THEN (L!Next \/ AllDone) /\ UNCHANGED vars
       ELSE (Next \/ Rest) /\ Keeps' /\ UNCHANGED lockVars

WorkloadSpec == WorkloadInit /\ [][WorkloadNext]_<<vars, workload, lockVars>>

SessionsAreAlike == Permutations(Sessions)
=============================================================================
