--------------------------- MODULE PidLockProofs ---------------------------
(***************************************************************************)
(* Proof that a maintenance job's pid lock is held by one run at a time    *)
(* and is not lost while a run holds it, for any number of inodes and any  *)
(* times, where two runs at most contend, no job outlives stale_after and  *)
(* a freed inode is not given out again.  Without any one of the three     *)
(* acquire_lock breaks its promise.                                        *)
(***************************************************************************)
EXTENDS PidLock, TLAPS

\* What acquire_lock relies on.
Relied ==
  /\ ~ ReusesInodes
  /\ JobTicks < StaleTicks
  /\ \A p, q, r \in Procs : p = q \/ q = r \/ p = r

Holding  == {"created", "held", "release"}
Removing == {"rename", "compare", "putback", "drop"}

\* Every inode that is named or remembered was given out.
UsedOK ==
  /\ path \in used \union {NoFile}
  /\ \A p \in Procs : /\ proc[p].seen \in used \union {NoFile}
                      /\ proc[p].moved \in used \union {NoFile}

\* The file of a run that holds the lock has its pid, once written, and is as young as its work; that
\* of a run that is alone stays where it is.
HoldersOK ==
  \A p \in Procs : proc[p].pc \in Holding =>
    /\ proc[p].own \in used
    /\ file[proc[p].own].age <= proc[p].worked
    /\ file[proc[p].own].pid = IF proc[p].pc = "created" THEN NoPid ELSE p
    /\ Procs = {p} => path = proc[p].own

\* A run at r, while the path names n, leaves run p the lock it holds by inode i: it has not judged
\* i stale, and puts it back when it took it for another.
Respects(r, n, p, i) ==
  /\ r.pc \notin Holding
  /\ r.pc \in Removing => r.seen # i
  /\ r.pc = "read" /\ r.seen = i => r.young /\ n = i
  /\ r.pc = "kill" /\ r.seen = i => r.holder = p
  /\ n = i \/ (n = NoFile /\ r.moved = i /\ r.pc \in {"compare", "putback", "crashed"})

LockInv ==
  /\ TypeOK /\ UsedOK /\ HoldersOK
  /\ \A p \in Procs : proc[p].pc \notin Ended => p \in alive
  /\ \A p \in Procs : proc[p].pc \in Holding =>
       \A q \in Procs \ {p} : Respects(proc[q], path, p, proc[p].own)

LEMMA LockInit == Init => LockInv
  <1> SUFFICES ASSUME Init PROVE LockInv
    OBVIOUS
  <1>1. Beginning \in Run /\ Beginning.pc = "start" /\ Beginning.seen = NoFile /\ Beginning.moved = NoFile
    BY TickAssumption DEF Beginning, Run
  <1> QED
    BY <1>1, TickAssumption DEF Init, LockInv, TypeOK, UsedOK, HoldersOK, Holding, Ended

\* A step of run p that writes no file.
LEMMA RunStep ==
  ASSUME Relied, LockInv, NEW p \in Procs, NEW r \in Run,
         proc' = [proc EXCEPT ![p] = r], file' = file, used' = used,
         path' \in used \union {NoFile}, alive' \in {alive, alive \ {p}},
         r.pc \notin Ended => alive' = alive /\ proc[p].pc \notin Ended,
         r.own = proc[p].own, r.worked = proc[p].worked,
         r.seen \in used \union {NoFile}, r.moved \in used \union {NoFile},
         r.pc \in Holding => /\ path' = path /\ proc[p].pc \in Holding
                             /\ r.pc = "created" <=> proc[p].pc = "created",
         \A q \in Procs \ {p} : proc[q].pc \in Holding => Respects(r, path', q, proc[q].own)
  PROVE  LockInv'
  <1>1. proc \in [Procs -> Run] /\ proc'[p] = r /\ \A q \in Procs \ {p} : proc'[q] = proc[q]
    BY DEF LockInv, TypeOK
  <1>2. TypeOK'
    BY DEF LockInv, TypeOK
  <1>3. UsedOK'
    BY <1>1 DEF LockInv, UsedOK
  <1>4. HoldersOK'
    BY <1>1 DEF LockInv, HoldersOK
  <1>5. \A q \in Procs : proc'[q].pc \notin Ended => q \in alive'
    BY <1>1 DEF LockInv
  <1>6. ASSUME NEW q \in Procs, proc'[q].pc \in Holding, NEW s \in Procs \ {q}
        PROVE  Respects(proc'[s], path', q, proc'[q].own)
    <2>1. CASE q = p
      BY <1>1, <1>6, <2>1 DEF LockInv
    <2>2. CASE q # p
      BY <1>1, <1>6, <2>2 DEF Relied
    <2> QED
      BY <2>1, <2>2
  <1> QED
    BY <1>2, <1>3, <1>4, <1>5, <1>6 DEF LockInv

\* What every step of a run starts from.
LEMMA RunFacts ==
  ASSUME LockInv, NEW p \in Procs
  PROVE  /\ proc \in [Procs -> Run] /\ proc[p] \in Run /\ used \subseteq Inodes
         /\ proc[p].seen \in used \union {NoFile} /\ proc[p].moved \in used \union {NoFile}
         /\ path \in used \union {NoFile}
         /\ proc[p].pc \notin Ended => p \in alive
         /\ \A q \in Procs \ {p} : proc[q].pc \in Holding =>
              /\ Respects(proc[p], path, q, proc[q].own)
              /\ proc[q].own \in used /\ proc[q].own # NoFile /\ proc[q].worked <= JobTicks
              /\ file[proc[q].own].age <= proc[q].worked
              /\ file[proc[q].own].pid \in {q, NoPid} /\ q \in alive
  BY NoFileAssumption, TickAssumption DEF LockInv, TypeOK, UsedOK, HoldersOK, Holding, Ended, Run

LEMMA CreateExistsStep ==
  ASSUME Relied, LockInv, NEW p \in Procs, CreateExists(p) PROVE LockInv'
  <1> PICK r : r = [proc[p] EXCEPT !.pc = "stat"]
    OBVIOUS
  <1>1. proc' = [proc EXCEPT ![p] = r]
    BY RunFacts DEF CreateExists, Go
  <1>2. /\ r \in Run /\ r.pc = "stat" /\ r.own = proc[p].own /\ r.worked = proc[p].worked
        /\ r.seen = proc[p].seen /\ r.moved = proc[p].moved
    BY RunFacts DEF Run, Attempting
  <1>3. \A q \in Procs \ {p} : proc[q].pc \in Holding => Respects(r, path', q, proc[q].own)
    BY <1>2, RunFacts DEF Respects, Holding, Removing, CreateExists, At
  <1>4. /\ file' = file /\ used' = used /\ alive' = alive /\ path' \in used \union {NoFile}
        /\ r.seen \in used \union {NoFile} /\ r.moved \in used \union {NoFile}
        /\ r.pc \notin Holding /\ proc[p].pc \notin Ended
    BY <1>1, <1>2, RunFacts DEF CreateExists, At, Ended, Holding
  <1> QED
    BY <1>1, <1>2, <1>3, <1>4, RunStep

LEMMA StatStep ==
  ASSUME Relied, LockInv, NEW p \in Procs, Stat(p) PROVE LockInv'
  <1> DEFINE c == IF path = NoFile THEN "start" ELSE "read"
             y == path # NoFile /\ file[path].age < StaleTicks
  <1> PICK r : r = [proc[p] EXCEPT !.pc = c, !.seen = path, !.young = y]
    OBVIOUS
  <1>1. proc' = [proc EXCEPT ![p] = r]
    BY RunFacts DEF Stat
  <1>2. c \in {"start", "read"} /\ y \in BOOLEAN
    OBVIOUS
  <1>3. \A q \in Procs \ {p} : proc[q].pc \in Holding /\ path = proc[q].own => y
    BY RunFacts, TickAssumption DEF Relied, LockInv, TypeOK, Run
  <1>4. /\ r \in Run /\ r.pc = c /\ r.own = proc[p].own /\ r.worked = proc[p].worked
        /\ r.seen = path /\ r.moved = proc[p].moved /\ r.young = y
    BY <1>2, RunFacts DEF Run, Attempting
  <1> HIDE DEF c, y
  <1>5. \A q \in Procs \ {p} : proc[q].pc \in Holding => Respects(r, path', q, proc[q].own)
    BY <1>2, <1>3, <1>4, RunFacts DEF Respects, Holding, Removing, Stat, At
  <1>6. /\ file' = file /\ used' = used /\ alive' = alive /\ path' \in used \union {NoFile}
        /\ r.seen \in used \union {NoFile} /\ r.moved \in used \union {NoFile}
        /\ r.pc \notin Holding /\ proc[p].pc \notin Ended
    BY <1>2, <1>4, RunFacts DEF Stat, At, Ended, Holding
  <1> QED
    BY <1>1, <1>4, <1>5, <1>6, RunStep

LEMMA ReadHolderStep ==
  ASSUME Relied, LockInv, NEW p \in Procs, ReadHolder(p) PROVE LockInv'
  <1> DEFINE h == IF path = NoFile THEN NoPid ELSE file[path].pid
             c == IF ~ proc[p].young THEN "rename" ELSE IF h = NoPid THEN "refused" ELSE "kill"
  <1> PICK r : r = [proc[p] EXCEPT !.holder = h, !.pc = c]
    OBVIOUS
  <1>1. proc' = [proc EXCEPT ![p] = r]
    BY RunFacts DEF ReadHolder
  <1>2. /\ c \in {"rename", "refused", "kill"} /\ h \in Procs \union {Ghost, NoPid}
        /\ c = "rename" => ~ proc[p].young
        /\ c = "kill" => h # NoPid
    BY DEF LockInv, TypeOK
  <1>3. \A q \in Procs \ {p} : proc[q].pc \in Holding /\ path = proc[q].own => h \in {q, NoPid}
    BY RunFacts
  <1>4. /\ r \in Run /\ r.pc = c /\ r.own = proc[p].own /\ r.worked = proc[p].worked
        /\ r.seen = proc[p].seen /\ r.moved = proc[p].moved /\ r.holder = h
    BY <1>2, RunFacts DEF Run, Attempting, Ended
  <1> HIDE DEF c, h
  <1>5. \A q \in Procs \ {p} : proc[q].pc \in Holding => Respects(r, path', q, proc[q].own)
    BY <1>2, <1>3, <1>4, RunFacts DEF Respects, Holding, Removing, ReadHolder, At
  <1>6. /\ file' = file /\ used' = used /\ alive' = alive /\ path' \in used \union {NoFile}
        /\ r.seen \in used \union {NoFile} /\ r.moved \in used \union {NoFile}
        /\ r.pc \notin Holding /\ proc[p].pc \notin Ended
    BY <1>1, <1>2, <1>4, RunFacts DEF ReadHolder, At, Ended, Holding
  <1> QED
    BY <1>1, <1>2, <1>4, <1>5, <1>6, RunStep

LEMMA KillStep ==
  ASSUME Relied, LockInv, NEW p \in Procs, Kill(p) PROVE LockInv'
  <1> PICK c : c = AfterKill(proc[p].holder)
    OBVIOUS
  <1> PICK r : r = [proc[p] EXCEPT !.pc = c]
    OBVIOUS
  <1>1. proc' = [proc EXCEPT ![p] = r]
    BY RunFacts DEF Kill, Go
  <1>2. c \in {"refused", "rename"} /\ (c = "rename" => proc[p].holder \notin alive)
    BY DEF AfterKill
  <1>3. /\ r \in Run /\ r.pc = c /\ r.own = proc[p].own /\ r.worked = proc[p].worked
        /\ r.seen = proc[p].seen /\ r.moved = proc[p].moved
    BY <1>2, RunFacts DEF Run, Attempting, Ended
  <1>4. \A q \in Procs \ {p} : proc[q].pc \in Holding => Respects(r, path', q, proc[q].own)
    BY <1>2, <1>3, RunFacts DEF Respects, Holding, Removing, Kill, At
  <1>5. /\ file' = file /\ used' = used /\ alive' = alive /\ path' \in used \union {NoFile}
        /\ r.seen \in used \union {NoFile} /\ r.moved \in used \union {NoFile}
        /\ r.pc \notin Holding /\ proc[p].pc \notin Ended
    BY <1>1, <1>2, <1>3, RunFacts DEF Kill, At, Ended, Holding
  <1> QED
    BY <1>1, <1>2, <1>3, <1>4, <1>5, RunStep

LEMMA RenameStep ==
  ASSUME Relied, LockInv, NEW p \in Procs, Rename(p) PROVE LockInv'
  <1> DEFINE c == IF path = NoFile THEN "start" ELSE "compare"
  <1> PICK r : r = [proc[p] EXCEPT !.pc = c, !.moved = path]
    OBVIOUS
  <1>1. proc' = [proc EXCEPT ![p] = r] /\ path' = NoFile
    BY RunFacts DEF Rename
  <1>2. c \in {"start", "compare"} /\ (path # NoFile => c = "compare")
    OBVIOUS
  <1>3. /\ r \in Run /\ r.pc = c /\ r.own = proc[p].own /\ r.worked = proc[p].worked
        /\ r.seen = proc[p].seen /\ r.moved = path
    BY <1>2, RunFacts DEF Run, Attempting
  <1> HIDE DEF c
  <1>4. \A q \in Procs \ {p} : proc[q].pc \in Holding => Respects(r, path', q, proc[q].own)
    BY <1>1, <1>2, <1>3, RunFacts DEF Respects, Holding, Removing, Rename, At
  <1>5. /\ file' = file /\ used' = used /\ alive' = alive /\ path' \in used \union {NoFile}
        /\ r.seen \in used \union {NoFile} /\ r.moved \in used \union {NoFile}
        /\ r.pc \notin Holding /\ proc[p].pc \notin Ended
    BY <1>2, <1>3, RunFacts DEF Rename, At, Ended, Holding
  <1> QED
    BY <1>1, <1>3, <1>4, <1>5, RunStep

LEMMA CompareStep ==
  ASSUME Relied, LockInv, NEW p \in Procs, Compare(p) PROVE LockInv'
  <1> PICK c : c = IF SameFile(p) THEN "drop" ELSE "putback"
    OBVIOUS
  <1> PICK r : r = [proc[p] EXCEPT !.pc = c]
    OBVIOUS
  <1>1. proc' = [proc EXCEPT ![p] = r]
    BY RunFacts DEF Compare, Go
  <1>2. c \in {"drop", "putback"} /\ (c = "drop" => proc[p].moved = proc[p].seen)
    BY DEF SameFile
  <1>3. /\ r \in Run /\ r.pc = c /\ r.own = proc[p].own /\ r.worked = proc[p].worked
        /\ r.seen = proc[p].seen /\ r.moved = proc[p].moved
    BY <1>2, RunFacts DEF Run, Attempting
  <1>4. \A q \in Procs \ {p} : proc[q].pc \in Holding => Respects(r, path', q, proc[q].own)
    BY <1>2, <1>3, RunFacts DEF Respects, Holding, Removing, Compare, At
  <1>5. /\ file' = file /\ used' = used /\ alive' = alive /\ path' \in used \union {NoFile}
        /\ r.seen \in used \union {NoFile} /\ r.moved \in used \union {NoFile}
        /\ r.pc \notin Holding /\ proc[p].pc \notin Ended
    BY <1>1, <1>2, <1>3, RunFacts DEF Compare, At, Ended, Holding
  <1> QED
    BY <1>1, <1>2, <1>3, <1>4, <1>5, RunStep

LEMMA PutBackStep ==
  ASSUME Relied, LockInv, NEW p \in Procs, PutBack(p) PROVE LockInv'
  <1> PICK r : r = [proc[p] EXCEPT !.pc = "drop"]
    OBVIOUS
  <1>1. proc' = [proc EXCEPT ![p] = r] /\ path' = IF path = NoFile THEN proc[p].moved ELSE path
    BY RunFacts DEF PutBack, Go
  <1>2. /\ r \in Run /\ r.pc = "drop" /\ r.own = proc[p].own /\ r.worked = proc[p].worked
        /\ r.seen = proc[p].seen /\ r.moved = proc[p].moved
    BY RunFacts DEF Run, Attempting
  <1>3. \A q \in Procs \ {p} : proc[q].pc \in Holding => Respects(r, path', q, proc[q].own)
    BY <1>1, <1>2, RunFacts DEF Respects, Holding, Removing, PutBack, At
  <1>4. /\ file' = file /\ used' = used /\ alive' = alive /\ path' \in used \union {NoFile}
        /\ r.seen \in used \union {NoFile} /\ r.moved \in used \union {NoFile}
        /\ r.pc \notin Holding /\ proc[p].pc \notin Ended
    BY <1>1, <1>2, RunFacts DEF PutBack, At, Ended, Holding
  <1> QED
    BY <1>1, <1>2, <1>3, <1>4, RunStep

LEMMA DropStep ==
  ASSUME Relied, LockInv, NEW p \in Procs, Drop(p) PROVE LockInv'
  <1> PICK c : c = IF SameFile(p) THEN "start" ELSE "refused"
    OBVIOUS
  <1> PICK r : r = [proc[p] EXCEPT !.moved = NoFile, !.pc = c]
    OBVIOUS
  <1>1. proc' = [proc EXCEPT ![p] = r]
    BY RunFacts DEF Drop
  <1>2. c \in {"start", "refused"}
    OBVIOUS
  <1>3. /\ r \in Run /\ r.pc = c /\ r.own = proc[p].own /\ r.worked = proc[p].worked
        /\ r.seen = proc[p].seen /\ r.moved = NoFile
    BY <1>2, RunFacts DEF Run, Ended
  <1>4. \A q \in Procs \ {p} : proc[q].pc \in Holding => Respects(r, path', q, proc[q].own)
    BY <1>2, <1>3, RunFacts DEF Respects, Holding, Removing, Drop, At
  <1>5. /\ file' = file /\ used' = used /\ alive' = alive /\ path' \in used \union {NoFile}
        /\ r.seen \in used \union {NoFile} /\ r.moved \in used \union {NoFile}
        /\ r.pc \notin Holding /\ proc[p].pc \notin Ended
    BY <1>1, <1>2, <1>3, RunFacts DEF Drop, At, Ended, Holding
  <1> QED
    BY <1>1, <1>2, <1>3, <1>4, <1>5, RunStep

\* The holder's own steps, and those by which a run ends.
LEMMA ReleaseStep ==
  ASSUME Relied, LockInv, NEW p \in Procs, ReadOwn(p) \/ UnlinkOwn(p) PROVE LockInv'
  <1>1. PICK c \in {"release", "done"} :
          /\ proc' = [proc EXCEPT ![p].pc = c] /\ alive' \in {alive, alive \ {p}}
          /\ c = "release" => alive' = alive /\ path' = path
    BY DEF ReadOwn, UnlinkOwn, Go
  <1>2. /\ proc[p].pc \in {"held", "release"} /\ file' = file /\ used' = used
        /\ path' \in used \union {NoFile}
    BY RunFacts DEF ReadOwn, UnlinkOwn, At
  <1> PICK r : r = [proc[p] EXCEPT !.pc = c]
    OBVIOUS
  <1>3. proc' = [proc EXCEPT ![p] = r]
    BY <1>1, RunFacts
  <1>4. /\ r \in Run /\ r.pc = c /\ r.own = proc[p].own /\ r.worked = proc[p].worked
        /\ r.seen = proc[p].seen /\ r.moved = proc[p].moved
    BY <1>1, RunFacts DEF Run, Ended
  <1>5. \A q \in Procs \ {p} : proc[q].pc \notin Holding
    BY <1>2, RunFacts DEF Respects, Holding
  <1>6. /\ r.seen \in used \union {NoFile} /\ r.moved \in used \union {NoFile}
        /\ r.pc \in Holding => path' = path /\ proc[p].pc \in Holding
        /\ r.pc # "created" /\ proc[p].pc # "created" /\ proc[p].pc \notin Ended
        /\ r.pc \notin Ended => alive' = alive
    BY <1>1, <1>2, <1>4, RunFacts DEF Holding, Ended
  <1> QED
    BY <1>1, <1>2, <1>3, <1>4, <1>5, <1>6, RunStep

LEMMA EndStep ==
  ASSUME Relied, LockInv, NEW p \in Procs, Exit(p) \/ Crash(p) PROVE LockInv'
  <1>1. PICK r : r = IF Exit(p) THEN proc[p] ELSE [proc[p] EXCEPT !.pc = "crashed"]
    OBVIOUS
  <1>2. CASE Exit(p)
    <2>1. proc' = [proc EXCEPT ![p] = r] /\ r = proc[p] /\ r.pc = "refused"
      BY <1>1, <1>2, RunFacts DEF Exit, At
    <2>2. \A q \in Procs \ {p} : proc[q].pc \in Holding => Respects(r, path', q, proc[q].own)
      BY <1>2, <2>1, RunFacts DEF Exit
    <2> QED
      BY <1>2, <2>1, <2>2, RunFacts, RunStep DEF Exit, Ended, Holding
  <1>3. CASE ~ Exit(p) /\ Crash(p)
    <2>1. proc' = [proc EXCEPT ![p] = r]
      BY <1>1, <1>3, RunFacts DEF Crash, Go
    <2>2. /\ r \in Run /\ r.pc = "crashed" /\ r.own = proc[p].own /\ r.worked = proc[p].worked
          /\ r.seen = proc[p].seen /\ r.moved = proc[p].moved
      BY <1>1, <1>3, RunFacts DEF Run, Ended
    <2>3. \A q \in Procs \ {p} : proc[q].pc \in Holding => Respects(r, path', q, proc[q].own)
      BY <1>3, <2>2, RunFacts DEF Respects, Holding, Removing, Crash
    <2> QED
      BY <1>3, <2>1, <2>2, <2>3, RunFacts, RunStep DEF Crash, Ended, Holding
  <1> QED
    BY <1>2, <1>3

\* A new file has an inode that nobody has seen, and no run but its own was given.
LEMMA CreateStep ==
  ASSUME Relied, LockInv, NEW p \in Procs, Create(p) PROVE LockInv'
  <1>1. PICK i \in Inodes \ used :
          /\ path' = i /\ used' = used \union {i} /\ alive' = alive
          /\ file' = [file EXCEPT ![i] = [pid |-> NoPid, age |-> 0]]
          /\ proc' = [proc EXCEPT ![p].pc = "created", ![p].own = i]
    BY DEF Create, Available, Relied
  <1> PICK r : r = [proc[p] EXCEPT !.pc = "created", !.own = i]
    OBVIOUS
  <1>2. proc' = [proc EXCEPT ![p] = r]
    BY <1>1, RunFacts
  <1>3. /\ r \in Run /\ r.pc = "created" /\ r.own = i /\ r.worked = proc[p].worked /\ r.worked \in Nat
        /\ r.seen = proc[p].seen /\ r.moved = proc[p].moved
    <2>1. proc[p] \in Run /\ i \in Inodes
      BY RunFacts
    <2>2. proc[p].worked \in Nat
      BY <2>1, TickAssumption DEF Run
    <2>3. /\ r \in Run /\ r.pc = "created" /\ r.own = i /\ r.worked = proc[p].worked
          /\ r.seen = proc[p].seen /\ r.moved = proc[p].moved
      BY <2>1 DEF Run, Attempting
    <2> QED
      BY <2>2, <2>3
  <1>4. /\ proc'[p] = r /\ proc' \in [Procs -> Run]
        /\ \A q \in Procs \ {p} : proc'[q] = proc[q]
    BY <1>2, <1>3, RunFacts
  <1>5. /\ proc[p].pc = "start" /\ i \in Inodes /\ i \notin used /\ i # NoFile
        /\ \A q \in Procs \ {p} : proc[q].pc \notin Holding
    BY <1>1, NoFileAssumption, RunFacts DEF Create, At, Respects
  <1>6. TypeOK'
    <2>1. file' \in [Inodes -> [pid : Procs \union {Ghost, NoPid}, age : 0..StaleTicks]]
      BY <1>1, TickAssumption DEF LockInv, TypeOK
    <2> QED
      BY <1>1, <1>4, <2>1 DEF LockInv, TypeOK
  <1>7. UsedOK'
    BY <1>1, <1>3, <1>4 DEF LockInv, UsedOK
  <1>8. HoldersOK'
    <2>1. file'[i].pid = NoPid /\ file'[i].age = 0
      BY <1>1, <1>5 DEF LockInv, TypeOK
    <2> QED
      BY <1>1, <1>3, <1>4, <1>5, <2>1 DEF HoldersOK
  <1>9. \A q \in Procs : proc'[q].pc \notin Ended => q \in alive'
    BY <1>1, <1>4, <1>5, RunFacts DEF LockInv, Ended
  <1>10. ASSUME NEW q \in Procs, proc'[q].pc \in Holding, NEW s \in Procs \ {q}
         PROVE  Respects(proc'[s], path', q, proc'[q].own)
    <2>1. q = p /\ proc'[s] = proc[s] /\ proc[s].pc \notin Holding
      BY <1>4, <1>5, <1>10
    <2>2. proc[s].seen # i
      BY <1>5, RunFacts
    <2> QED
      BY <1>1, <1>3, <1>4, <2>1, <2>2 DEF Respects
  <1> QED
    BY <1>6, <1>7, <1>8, <1>9, <1>10 DEF LockInv

LEMMA WritePidStep ==
  ASSUME Relied, LockInv, NEW p \in Procs, WritePid(p) PROVE LockInv'
  <1> PICK i : i = proc[p].own
    OBVIOUS
  <1> PICK r : r = [proc[p] EXCEPT !.pc = "held"]
    OBVIOUS
  <1>1. /\ proc[p].pc = "created" /\ path' = path /\ used' = used /\ alive' = alive
        /\ file' = [file EXCEPT ![i].pid = p] /\ proc' = [proc EXCEPT ![p] = r]
    BY RunFacts DEF WritePid, Written, At, Go
  <1>2. /\ r \in Run /\ r.pc = "held" /\ r.own = i /\ r.worked = proc[p].worked
        /\ r.seen = proc[p].seen /\ r.moved = proc[p].moved
    BY RunFacts DEF Run
  <1>3. /\ proc'[p] = r /\ proc' \in [Procs -> Run]
        /\ \A q \in Procs \ {p} : proc'[q] = proc[q] /\ proc[q].pc \notin Holding
    BY <1>1, <1>2, RunFacts DEF Respects, Holding
  <1>4. /\ i \in Inodes /\ file[i].age <= proc[p].worked
        /\ file[i] \in [pid : Procs \union {Ghost, NoPid}, age : 0..StaleTicks]
    BY <1>1 DEF LockInv, TypeOK, HoldersOK, Holding
  <1>5. /\ file' \in [Inodes -> [pid : Procs \union {Ghost, NoPid}, age : 0..StaleTicks]]
        /\ file'[i].pid = p /\ file'[i].age = file[i].age
    BY <1>1, <1>4 DEF LockInv, TypeOK
  <1>6. TypeOK'
    BY <1>1, <1>3, <1>5 DEF LockInv, TypeOK
  <1>7. UsedOK'
    BY <1>1, <1>2, <1>3 DEF LockInv, UsedOK
  <1>8. HoldersOK'
    BY <1>1, <1>2, <1>3, <1>4, <1>5 DEF LockInv, HoldersOK, Holding
  <1>9. \A q \in Procs : proc'[q].pc \notin Ended => q \in alive'
    BY <1>1, <1>3 DEF LockInv, Ended
  <1>10. ASSUME NEW q \in Procs, proc'[q].pc \in Holding, NEW s \in Procs \ {q}
         PROVE  Respects(proc'[s], path', q, proc'[q].own)
    BY <1>1, <1>2, <1>3, <1>10 DEF LockInv, Holding
  <1> QED
    BY <1>6, <1>7, <1>8, <1>9, <1>10 DEF LockInv

\* A holder's file ages no faster than its work goes on.
LEMMA TickStep ==
  ASSUME Relied, LockInv, Tick PROVE LockInv'
  <1>1. /\ path' = path /\ used' = used /\ alive' = alive
        /\ \A p \in Procs : /\ proc[p].pc \notin Attempting
                            /\ proc[p].pc \in {"held", "release"} => proc[p].worked < JobTicks
    BY DEF Tick
  <1>2. /\ file \in [Inodes -> [pid : Procs \union {Ghost, NoPid}, age : 0..StaleTicks]]
        /\ proc \in [Procs -> Run] /\ used \subseteq Inodes /\ StaleTicks \in Nat /\ JobTicks \in Nat
    BY TickAssumption DEF LockInv, TypeOK
  <1>3. /\ file' \in [Inodes -> [pid : Procs \union {Ghost, NoPid}, age : 0..StaleTicks]]
        /\ \A i \in Inodes : /\ file'[i].pid = file[i].pid
                             /\ file'[i].age \in {file[i].age, file[i].age + 1}
    BY <1>2 DEF Tick
  <1>4. ASSUME NEW p \in Procs
        PROVE  /\ proc'[p] \in Run /\ proc'[p].pc = proc[p].pc /\ proc'[p].own = proc[p].own
               /\ proc'[p].seen = proc[p].seen /\ proc'[p].moved = proc[p].moved
               /\ proc'[p].young = proc[p].young /\ proc'[p].holder = proc[p].holder
               /\ proc[p].pc \in {"held", "release"} => proc'[p].worked = proc[p].worked + 1
    <2>1. proc[p] \in Run
      BY <1>2
    <2>2. CASE proc[p].pc \in {"held", "release"}
      <3>1. proc'[p] = [proc[p] EXCEPT !.worked = proc[p].worked + 1]
        BY <2>2 DEF Tick
      <3>2. proc[p].worked + 1 \in 0..JobTicks
        BY <1>1, <1>2, <2>1, <2>2 DEF Run
      <3> QED
        BY <2>1, <3>1, <3>2 DEF Run
    <2>3. CASE proc[p].pc \notin {"held", "release"}
      BY <2>1, <2>3 DEF Tick
    <2> QED
      BY <2>2, <2>3
  <1>5. TypeOK'
    <2>1. proc' = [p \in Procs |-> proc'[p]]
      BY DEF Tick
    <2>2. proc' \in [Procs -> Run]
      BY <1>4, <2>1
    <2> QED
      BY <1>1, <1>3, <2>2 DEF LockInv, TypeOK
  <1>6. UsedOK'
    BY <1>1, <1>4 DEF LockInv, UsedOK
  <1>7. HoldersOK'
    <2> SUFFICES ASSUME NEW p \in Procs, proc'[p].pc \in Holding
                 PROVE  /\ proc'[p].own \in used'
                        /\ file'[proc'[p].own].age <= proc'[p].worked
                        /\ file'[proc'[p].own].pid = IF proc'[p].pc = "created" THEN NoPid ELSE p
                        /\ Procs = {p} => path' = proc'[p].own
      BY DEF HoldersOK
    <2>1. proc[p].pc \in {"held", "release"}
      BY <1>1, <1>4 DEF Holding, Attempting
    <2>2. /\ proc[p].own \in used /\ file[proc[p].own].age <= proc[p].worked
          /\ file[proc[p].own].pid = p /\ (Procs = {p} => path = proc[p].own)
      BY <2>1 DEF LockInv, HoldersOK, Holding
    <2>3. proc[p].own \in Inodes /\ proc[p].worked \in Nat /\ file[proc[p].own].age \in Nat
      BY <1>2, <2>2 DEF Run
    <2> QED
      BY <1>1, <1>3, <1>4, <2>1, <2>2, <2>3
  <1>8. \A p \in Procs : proc'[p].pc \notin Ended => p \in alive'
    BY <1>1, <1>4 DEF LockInv
  <1>9. ASSUME NEW q \in Procs, proc'[q].pc \in Holding, NEW s \in Procs \ {q}
        PROVE  Respects(proc'[s], path', q, proc'[q].own)
    <2>1. Respects(proc[s], path, q, proc[q].own)
      BY <1>4, <1>9 DEF LockInv
    <2> QED
      BY <1>1, <1>4, <2>1 DEF Respects
  <1> QED
    BY <1>5, <1>6, <1>7, <1>8, <1>9 DEF LockInv

LEMMA LockStep == Relied /\ LockInv /\ [Next]_vars => LockInv'
  <1> SUFFICES ASSUME Relied, LockInv, [Next]_vars PROVE LockInv'
    OBVIOUS
  <1>1. ASSUME NEW p \in Procs, Attempt(p) PROVE LockInv'
    BY <1>1, CreateStep, CreateExistsStep, WritePidStep, StatStep, ReadHolderStep, KillStep, RenameStep,
       CompareStep, PutBackStep, DropStep DEF Attempt
  <1>2. CASE UNCHANGED vars
    BY <1>2 DEF vars, LockInv, TypeOK, UsedOK, HoldersOK
  <1> QED
    BY <1>1, <1>2, ReleaseStep, EndStep, TickStep DEF Next

\* "Atomically acquire a PID lock. True if this process now holds it" (acquire_lock): one run holds it
\* at a time, and a run that recovers a stale lock does not delete the one another has taken since.
THEOREM LockIsHeldCorrect ==
  ASSUME Relied
  PROVE  Spec => []LockIsHeld
  <1>1. LockInv => LockIsHeld
    <2> SUFFICES ASSUME LockInv PROVE LockIsHeld
      OBVIOUS
    <2>1. \A p \in Procs : Holds(p) <=> proc[p].pc \in Holding
      BY DEF Holds, Holding
    <2>2. OneHolder
      BY <2>1 DEF OneHolder, LockInv, Respects
    <2>3. LockNotLost
      <3> SUFFICES ASSUME NEW p \in Procs, Holds(p), path # proc[p].own
                   PROVE  \E q \in Procs : proc[q].moved = proc[p].own /\ ~ At(q, "drop")
        BY DEF LockNotLost
      <3> QED
        BY <2>1 DEF LockInv, HoldersOK, Respects, At
    <2> QED
      BY <2>2, <2>3 DEF LockIsHeld
  <1> QED
    BY <1>1, LockInit, LockStep, PTL DEF Spec
=============================================================================
