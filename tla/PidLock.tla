------------------------------- MODULE PidLock -------------------------------
(***************************************************************************)
(* acquire_lock and release_lock of hooks/_mem_common.py: a pid file that  *)
(* several runs of a maintenance job contend for, system call by system    *)
(* call.  The lock path names an inode or nothing; a stale file is renamed *)
(* to a name of the renamer's own, compared with the inode it judged, and  *)
(* put back when it is another.  A process makes one attempt, works while  *)
(* it holds the lock, releases it and exits, and may be killed anywhere.   *)
(***************************************************************************)
EXTENDS Naturals, FiniteSets

CONSTANTS Procs,          \* runs of the job; a run is known by its pid
          Ghost,          \* the pid an earlier run left in the file
          NoPid,          \* the contents of a file with no pid yet
          Inodes, NoFile,
          ReusesInodes,   \* whether the file system gives a freed inode out again
          JobTicks,       \* the longest a job may hold the lock
          StaleTicks      \* stale_after

ASSUME PidsDiffer == Ghost \notin Procs /\ NoPid \notin Procs \union {Ghost}
ASSUME NoFileAssumption == NoFile \notin Inodes
ASSUME EnoughInodes == Cardinality(Inodes) > Cardinality(Procs)
ASSUME TickAssumption == JobTicks \in Nat /\ StaleTicks \in Nat \ {0}
ASSUME ReuseAssumption == ReusesInodes \in BOOLEAN

VARIABLES path,    \* the inode the lock path names, or NoFile
          file,    \* for each inode: the pid in it and its age in ticks
          used,    \* inodes given out so far
          alive,   \* pids that kill(pid, 0) finds
          proc     \* for each run: where it is and what it has read

vars == <<path, file, used, alive, proc>>

Attempting == {"stat", "read", "kill", "rename", "compare", "putback", "drop", "created"}
Ended == {"refused", "done", "crashed"}

Run == [pc     : {"start", "held", "release"} \union Attempting \union Ended,
        seen   : Inodes \union {NoFile},           \* st: what it stat'ed
        young  : BOOLEAN,                          \* age < stale_after, at that stat
        holder : Procs \union {Ghost, NoPid},      \* the pid it read
        moved  : Inodes \union {NoFile},           \* what its .stale name links
        own    : Inodes \union {NoFile},           \* the lock file it created
        worked : 0..JobTicks]

Beginning == [pc |-> "start", seen |-> NoFile, young |-> FALSE, holder |-> NoPid,
              moved |-> NoFile, own |-> NoFile, worked |-> 0]

\* The path is free, or names what an earlier run left: an empty file or its pid,
\* young or old, with its pid gone or given to an unrelated process.
Init ==
  \E i \in Inodes, h \in {Ghost, NoPid}, a \in {0, StaleTicks}, g \in SUBSET {Ghost} :
    /\ path \in {NoFile, i}
    /\ file = [j \in Inodes |-> [pid |-> h, age |-> a]]
    /\ used = {i}
    /\ alive = Procs \union g
    /\ proc = [p \in Procs |-> Beginning]

At(p, l) == proc[p].pc = l

Go(p, l) == proc' = [proc EXCEPT ![p].pc = l]

\* Inodes some name links or some process has open.
InUse == {path} \union {proc[p].moved : p \in Procs}
                \union {proc[p].own : p \in {q \in Procs : At(q, "created")}}

Available == Inodes \ (IF ReusesInodes THEN InUse ELSE used)

\* open(path, O_CREAT | O_EXCL)
Create(p) ==
  /\ At(p, "start") /\ path = NoFile
  /\ \E i \in Available :
       /\ path' = i
       /\ used' = used \union {i}
       /\ file' = [file EXCEPT ![i] = [pid |-> NoPid, age |-> 0]]
       /\ proc' = [proc EXCEPT ![p].pc = "created", ![p].own = i]
  /\ UNCHANGED alive

CreateExists(p) ==
  /\ At(p, "start") /\ path # NoFile
  /\ Go(p, "stat")
  /\ UNCHANGED <<path, file, used, alive>>

\* str(os.getpid())
Written(p) == p

WritePid(p) ==
  /\ At(p, "created")
  /\ file' = [file EXCEPT ![proc[p].own].pid = Written(p)]
  /\ Go(p, "held")
  /\ UNCHANGED <<path, used, alive>>

Stat(p) ==
  /\ At(p, "stat")
  /\ proc' = [proc EXCEPT ![p].pc = IF path = NoFile THEN "start" ELSE "read",
                          ![p].seen = path,
                          ![p].young = path # NoFile /\ file[path].age < StaleTicks]
  /\ UNCHANGED <<path, file, used, alive>>

\* The path may name another file by now, or none.
ReadHolder(p) ==
  /\ At(p, "read")
  /\ LET h == IF path = NoFile THEN NoPid ELSE file[path].pid
     IN  proc' = [proc EXCEPT ![p].holder = h,
                              ![p].pc = IF ~ proc[p].young THEN "rename"
                                        ELSE IF h = NoPid THEN "refused"
                                        ELSE "kill"]
  /\ UNCHANGED <<path, file, used, alive>>

\* Mutant of AfterKill: a live holder is waited for.
AfterKillWaits(h) == IF h \in alive THEN "start" ELSE "rename"

AfterKill(h) == IF h \in alive THEN "refused" ELSE "rename"

Kill(p) ==
  /\ At(p, "kill")
  /\ Go(p, AfterKill(proc[p].holder))
  /\ UNCHANGED <<path, file, used, alive>>

Rename(p) ==
  /\ At(p, "rename")
  /\ path' = NoFile
  /\ proc' = [proc EXCEPT ![p].pc = IF path = NoFile THEN "start" ELSE "compare",
                          ![p].moved = path]
  /\ UNCHANGED <<file, used, alive>>

\* Mutant of SameFile: the inode is not compared.
SameFileAssumed(p) == TRUE

\* stat(moved).st_ino = st.st_ino
SameFile(p) == proc[p].moved = proc[p].seen

Compare(p) ==
  /\ At(p, "compare")
  /\ Go(p, IF SameFile(p) THEN "drop" ELSE "putback")
  /\ UNCHANGED <<path, file, used, alive>>

\* link(moved, path); it fails when the name is taken.
PutBack(p) ==
  /\ At(p, "putback")
  /\ path' = IF path = NoFile THEN proc[p].moved ELSE path
  /\ Go(p, "drop")
  /\ UNCHANGED <<file, used, alive>>

\* unlink(moved): round again after a stale file, False after another's.
Drop(p) ==
  /\ At(p, "drop")
  /\ proc' = [proc EXCEPT ![p].moved = NoFile,
                          ![p].pc = IF SameFile(p) THEN "start" ELSE "refused"]
  /\ UNCHANGED <<path, file, used, alive>>

\* release_lock: read the pid, then unlink the name.
ReadOwn(p) ==
  /\ At(p, "held")
  /\ IF path # NoFile /\ file[path].pid = p
       THEN Go(p, "release") /\ UNCHANGED alive
       ELSE Go(p, "done") /\ alive' = alive \ {p}
  /\ UNCHANGED <<path, file, used>>

UnlinkOwn(p) ==
  /\ At(p, "release")
  /\ path' = NoFile
  /\ Go(p, "done")
  /\ alive' = alive \ {p}
  /\ UNCHANGED <<file, used>>

\* A refused run exits; a killed one leaves whatever it had.
Exit(p) ==
  /\ At(p, "refused") /\ p \in alive
  /\ alive' = alive \ {p}
  /\ UNCHANGED <<path, file, used, proc>>

Crash(p) ==
  /\ ~ At(p, "start") /\ proc[p].pc \notin Ended
  /\ Go(p, "crashed")
  /\ alive' = alive \ {p}
  /\ UNCHANGED <<path, file, used>>

\* A tick of the clock: every file ages.  An attempt takes no time on this scale,
\* and a job ends within JobTicks.
Tick ==
  /\ \A p \in Procs : /\ proc[p].pc \notin Attempting
                      /\ proc[p].pc \in {"held", "release"} => proc[p].worked < JobTicks
  /\ \E i \in Inodes : file[i].age < StaleTicks
  /\ file' = [i \in Inodes |->
                [file[i] EXCEPT !.age = IF @ < StaleTicks THEN @ + 1 ELSE @]]
  /\ proc' = [p \in Procs |->
                IF proc[p].pc \in {"held", "release"}
                  THEN [proc[p] EXCEPT !.worked = @ + 1] ELSE proc[p]]
  /\ UNCHANGED <<path, used, alive>>

Attempt(p) ==
  \/ Create(p) \/ CreateExists(p) \/ WritePid(p) \/ Stat(p) \/ ReadHolder(p) \/ Kill(p)
  \/ Rename(p) \/ Compare(p) \/ PutBack(p) \/ Drop(p)

Next ==
  \/ \E p \in Procs : Attempt(p) \/ ReadOwn(p) \/ UnlinkOwn(p) \/ Exit(p) \/ Crash(p)
  \/ Tick

Spec == Init /\ [][Next]_vars

\* An attempt is a run of system calls, which the scheduler lets finish.  Nothing
\* is assumed of a job that holds the lock: it may work for ever, or be killed.
FairSpec == Spec /\ \A p \in Procs : WF_vars(Attempt(p))

-----------------------------------------------------------------------------
(* What the lock promises *)

TypeOK ==
  /\ path \in Inodes \union {NoFile}
  /\ file \in [Inodes -> [pid : Procs \union {Ghost, NoPid}, age : 0..StaleTicks]]
  /\ used \in SUBSET Inodes
  /\ alive \in SUBSET (Procs \union {Ghost})
  /\ proc \in [Procs -> Run]

Holds(p) == proc[p].pc \in {"created", "held", "release"}

\* "Atomically acquire a PID lock. True if this process now holds it.": no two
\* live runs are past acquire_lock at once.
OneHolder == \A p, q \in Procs : Holds(p) /\ Holds(q) => p = q

\* While a run holds the lock, its file is at the path or in the hands of a run that
\* has yet to put it back (or was killed before it could): no run that recovers a
\* stale lock deletes the one another has taken since.
LockNotLost ==
  \A p \in Procs : Holds(p) =>
    \/ path = proc[p].own
    \/ \E q \in Procs : proc[q].moved = proc[p].own /\ ~ At(q, "drop")

\* One run holds the lock and is not robbed of it.
LockIsHeld == OneHolder /\ LockNotLost

\* Every attempt is answered: going round again never goes on for ever.
AttemptEnds ==
  \A p \in Procs : At(p, "start") ~> Holds(p) \/ proc[p].pc \in Ended

\* A lock is stale when it is old, whatever its pid says, or its run is dead.
StaleLock ==
  path # NoFile /\ (file[path].age >= StaleTicks \/ file[path].pid \notin alive \union {NoPid})

\* A stale lock does not block the job: runs that find it end with one of them
\* holding the lock, unless one is killed on the way.
StaleIsRecovered ==
  (StaleLock /\ \A p \in Procs : At(p, "start"))
    ~> \E p \in Procs : Holds(p) \/ At(p, "crashed")

\* The lock is given in the end, to somebody, and a dead run does not keep it.
LockIsGiven == AttemptEnds /\ StaleIsRecovered
=============================================================================
