----------------------------- MODULE GraphCache -----------------------------
(***************************************************************************)
(* graph() of mcp-server/src/main.rs: the component map, read from the     *)
(* store by psql and kept for a while.  Worker threads share one copy      *)
(* under a mutex that is held while the map is read again; a read that     *)
(* fails leaves the old copy, which is then served with a note until it is *)
(* too old.  A map is known by the tick at which the store was read.       *)
(***************************************************************************)
EXTENDS Integers

CONSTANTS Callers,      \* worker threads
          Ttl,          \* HM_GRAPH_TTL_SECS, in ticks
          CeilingMult,  \* STALE_CEILING_MULT
          DbTimeout,    \* HM_DB_TIMEOUT_SECS, in ticks
          MaxNow,       \* bound: ticks
          Nobody, NoMap

ASSUME NobodyAssumption == Nobody \notin Callers
ASSUME TickAssumption == {Ttl, CeilingMult} \subseteq Nat \ {0} /\ {DbTimeout, MaxNow} \subseteq Nat
ASSUME NoMapAssumption == NoMap \notin Nat

VARIABLES now,        \* the clock
          cache,      \* GRAPH: when the store was read, and the Instant kept with it
          holder,     \* who holds the mutex
          poisoned,   \* whether a holder panicked
          caller      \* for each thread: where it is in graph(), and what it got

vars == <<now, cache, holder, poisoned, caller>>

Empty == [read |-> NoMap, at |-> 0]
Resting == [pc |-> "idle", since |-> 0, read |-> NoMap, got |-> "nothing", age |-> 0]

Init ==
  /\ now = 0
  /\ cache = Empty
  /\ holder = Nobody
  /\ poisoned = FALSE
  /\ caller = [c \in Callers |-> Resting]

Call(c) ==
  /\ caller[c].pc = "idle"
  /\ caller' = [caller EXCEPT ![c] = [Resting EXCEPT !.pc = "locking"]]
  /\ UNCHANGED <<now, cache, holder, poisoned>>

\* graph() returns: a map as old as it is, with a note or without, or an error.
Return(c, got, read) ==
  caller' = [caller EXCEPT ![c] = [Resting EXCEPT !.got = got,
                                                  !.age = IF read = NoMap THEN 0 ELSE now - read]]

\* Mutant of Fresh: an entry is never too old.
FreshForever == cache.read # NoMap

\* at.elapsed() < ttl
Fresh == cache.read # NoMap /\ now - cache.at < Ttl

\* GRAPH.lock().unwrap()
Lock(c) ==
  /\ caller[c].pc = "locking" /\ holder = Nobody
  /\ \/ /\ poisoned
        /\ Return(c, "poison", NoMap)
        /\ UNCHANGED holder
     \/ /\ ~ poisoned /\ Fresh
        /\ Return(c, "map", cache.read)
        /\ UNCHANGED holder
     \/ /\ ~ poisoned /\ ~ Fresh
        /\ caller' = [caller EXCEPT ![c].pc = "asking", ![c].since = now]
        /\ holder' = c
  /\ UNCHANGED <<now, cache, poisoned>>

\* The query reads the store at one moment, and its answer takes a while to arrive.
StoreRead(c) ==
  /\ caller[c].pc = "asking" /\ caller[c].read = NoMap
  /\ caller' = [caller EXCEPT ![c].read = now]
  /\ UNCHANGED <<now, cache, holder, poisoned>>

Refreshed(c) ==
  /\ caller[c].pc = "asking" /\ caller[c].read # NoMap
  /\ cache' = [read |-> caller[c].read, at |-> now]
  /\ holder' = Nobody
  /\ Return(c, "map", caller[c].read)
  /\ UNCHANGED <<now, poisoned>>

\* Mutant of AfterFailure: the old copy counts as new.
AfterFailureRenewed(c) ==
  /\ cache' = [cache EXCEPT !.at = now]
  /\ Return(c, "stale", cache.read)

\* A first load has nothing to fall back to; past the ceiling there is no answer.
AfterFailure(c) ==
  /\ UNCHANGED cache
  /\ IF cache.read = NoMap \/ now - cache.at > Ttl * CeilingMult
       THEN Return(c, "error", NoMap)
       ELSE Return(c, "stale", cache.read)

\* psql fails, answers nonsense, or reaches its deadline.
RefreshFails(c) ==
  /\ caller[c].pc = "asking"
  /\ AfterFailure(c)
  /\ holder' = Nobody
  /\ UNCHANGED <<now, poisoned>>

\* A panic under the mutex, caught in dispatch.
Panics(c) ==
  /\ caller[c].pc = "asking"
  /\ poisoned' = TRUE
  /\ holder' = Nobody
  /\ Return(c, "panic", NoMap)
  /\ UNCHANGED <<now, cache>>

\* db_query ends within its deadline.
Tick ==
  /\ now < MaxNow
  /\ \A c \in Callers : caller[c].pc = "asking" => now - caller[c].since < DbTimeout
  /\ now' = now + 1
  /\ UNCHANGED <<cache, holder, poisoned, caller>>

Next ==
  \/ \E c \in Callers :
       Call(c) \/ Lock(c) \/ StoreRead(c) \/ Refreshed(c) \/ RefreshFails(c) \/ Panics(c)
  \/ Tick

Spec == Init /\ [][Next]_vars

-----------------------------------------------------------------------------
(* What the cache promises *)

TypeOK ==
  /\ now \in 0..MaxNow
  /\ cache \in [read : (0..MaxNow) \union {NoMap}, at : 0..MaxNow]
  /\ holder \in Callers \union {Nobody}
  /\ poisoned \in BOOLEAN
  /\ caller \in [Callers -> [pc : {"idle", "locking", "asking"}, since : 0..MaxNow,
                            read : (0..MaxNow) \union {NoMap},
                            got : {"nothing", "map", "stale", "error", "panic", "poison"},
                            age : 0..MaxNow]]

\* A map answered without a note misses nothing the store had for longer than the
\* ttl and the time one query may take: the refresh of a server that runs for days.
FreshUnlessSaid == \A c \in Callers : caller[c].got = "map" => caller[c].age < Ttl + DbTimeout

\* "Past a hard ceiling the stale copy stops being an answer at all", however many
\* refreshes fail on the way.
StaleOnlyToCeiling ==
  \A c \in Callers : caller[c].got \in {"map", "stale"}
    => caller[c].age <= Ttl * CeilingMult + DbTimeout

\* A map is as young as it is said to be.
MapIsYoung == FreshUnlessSaid /\ StaleOnlyToCeiling

\* "one tool panicking while it held the graph cache must not turn every later call
\* into a panic too".
PanicStaysContained == \A c \in Callers : caller[c].got # "poison"
=============================================================================
