------------------------------ MODULE Extractor ------------------------------
(***************************************************************************)
(* The session extractor.  hooks/mem_capture.py appends a session to a     *)
(* queue that is never shortened; hooks/mem_extract.py, under its lock,    *)
(* takes the first sessions of the queue that are not done, reads each     *)
(* transcript, asks a model for items, writes those that are new to the    *)
(* store, and marks the session done.  Done is keyed by transcript and     *)
(* size: a transcript that has grown by REEXTRACT_BYTES is pending again.  *)
(*                                                                         *)
(* A size is a number of whole REEXTRACT_BYTES (a bucket).  What the model *)
(* answers about one transcript at one size does not change (temperature   *)
(* 0), so that an item is known by transcript, bucket and number; its      *)
(* duplicate is found by its words, or by its distance to them.            *)
(***************************************************************************)
EXTENDS Naturals, Sequences, FiniteSets

CONSTANTS Transcripts,
          Bad,         \* those no run can read, or the model never answers about
          Quiet,       \* those in which there is nothing durable
          Limit,       \* --limit: sessions a run takes
          Items,       \* the numbers of a transcript's items
          MaxBucket,   \* bound: how far a transcript grows
          MaxQueue,    \* bound: records in the queue
          MaxFaults,   \* bound: failures that pass
          Gone, NoOne

ASSUME BadAssumption == Bad \subseteq Transcripts /\ Quiet \subseteq Transcripts \ Bad
ASSUME CountAssumption == Limit \in Nat \ {0} /\ {MaxBucket, MaxQueue, MaxFaults} \subseteq Nat
ASSUME GoneAssumption == Gone \notin Nat /\ NoOne \notin Transcripts

VARIABLES size,     \* each transcript's bucket, or Gone
          queue,    \* mem-queue.jsonl
          done,     \* mem-queue.done, each mark with the bucket it was extracted at
          run,      \* the run that holds the lock
          store,    \* copies of each item in the memory store
          faults

vars == <<size, queue, done, run, store, faults>>

Buckets == 0..MaxBucket
Sizes == Buckets \union {Gone}
Facts == Transcripts \X Buckets \X Items

Resting == [pc |-> "idle", window |-> {}, cur |-> NoOne, read |-> Gone, items |-> {},
            item |-> {}, failed |-> FALSE]

Init ==
  /\ size = [t \in Transcripts |-> 0]
  /\ queue = <<>>
  /\ done = {}
  /\ run = Resting
  /\ store = [f \in Facts |-> 0]
  /\ faults = 0

At(l) == run.pc = l

Fault == faults < MaxFaults /\ faults' = faults + 1

-----------------------------------------------------------------------------
(* Sessions *)

Capture(t) ==
  /\ size[t] # Gone /\ Len(queue) < MaxQueue
  /\ queue' = Append(queue, t)
  /\ UNCHANGED <<size, done, run, store, faults>>

Grow(t) ==
  /\ size[t] \in Buckets /\ size[t] < MaxBucket
  /\ size' = [size EXCEPT ![t] = @ + 1]
  /\ UNCHANGED <<queue, done, run, store, faults>>

Delete(t) ==
  /\ size[t] # Gone
  /\ size' = [size EXCEPT ![t] = Gone]
  /\ UNCHANGED <<queue, done, run, store, faults>>

-----------------------------------------------------------------------------
(* A run *)

\* done_key: a transcript that is gone has no size.
IsDone(t) == \E m \in done : m.of = t /\ m.key = size[t]

\* The records to read: not done, and the first of those with one key.
Pending ==
  {k \in 1..Len(queue) : ~ IsDone(queue[k]) /\ \A j \in 1..(k - 1) : queue[j] # queue[k]}

\* queue[:limit]
Window == {k \in Pending : Cardinality({j \in Pending : j <= k}) <= Limit}

Start ==
  /\ At("idle") /\ Window # {}
  /\ run' = [Resting EXCEPT !.pc = "next", !.window = Window]
  /\ UNCHANGED <<size, queue, done, store, faults>>

IsNext(k) == At("next") /\ k \in run.window /\ \A j \in run.window : k <= j

NextRecord(k, r) == run' = [r EXCEPT !.pc = "next", !.window = run.window \ {k}]

\* Mutant of MarkGone: a transcript that is gone may come back.
MarkGoneLater(t) == done' = done

\* "GONE is not BUSY".
MarkGone(t) == done' = done \union {[of |-> t, key |-> size[t], read |-> Gone]}

TakeGone(k) ==
  /\ IsNext(k) /\ size[queue[k]] = Gone
  /\ MarkGone(queue[k])
  /\ NextRecord(k, Resting)
  /\ UNCHANGED <<size, queue, store, faults>>

\* "present but unreadable right now": transcript_text meets an OSError.
TakeUnreadable(k) ==
  /\ IsNext(k) /\ size[queue[k]] # Gone
  /\ NextRecord(k, Resting)
  /\ UNCHANGED <<size, queue, done, store>>
  /\ Fault \/ (queue[k] \in Bad /\ UNCHANGED faults)

\* Under 500 characters: nothing durable, marked done unasked.
TakeTiny(k) ==
  /\ IsNext(k) /\ size[queue[k]] # Gone /\ queue[k] \in Quiet
  /\ done' = done \union {[of |-> queue[k], key |-> size[queue[k]], read |-> size[queue[k]]]}
  /\ NextRecord(k, Resting)
  /\ UNCHANGED <<size, queue, store, faults>>

Read(k) ==
  /\ IsNext(k) /\ size[queue[k]] # Gone
  /\ run' = [run EXCEPT !.pc = "asking", !.window = @ \ {k}, !.cur = queue[k],
                        !.read = size[queue[k]], !.failed = FALSE]
  /\ UNCHANGED <<size, queue, done, store, faults>>

\* No answer, or none that can be parsed: not marked done.
ExtractFails ==
  /\ At("asking")
  /\ run' = [Resting EXCEPT !.pc = "next", !.window = run.window]
  /\ UNCHANGED <<size, queue, done, store>>
  /\ Fault \/ (run.cur \in Bad /\ UNCHANGED faults)

Answer(t) == IF t \in Quiet THEN {} ELSE Items

Extracted ==
  /\ At("asking") /\ run.cur \notin Bad
  /\ run' = [run EXCEPT !.pc = "items", !.items = Answer(run.cur)]
  /\ UNCHANGED <<size, queue, done, store, faults>>

Fact(i) == <<run.cur, run.read, i>>

Dropped(i, failed) ==
  run' = [run EXCEPT !.pc = "items", !.items = @ \ {i}, !.item = {}, !.failed = @ \/ failed]

IsDuplicate(i) == store[Fact(i)] > 0

Duplicate(i) ==
  /\ At("items") /\ i \in run.items /\ IsDuplicate(i)
  /\ Dropped(i, FALSE)
  /\ UNCHANGED <<size, queue, done, store, faults>>

\* Mutant of CheckFailed: an item that could not be checked is skipped.
CheckFailedOpen(i) == Dropped(i, FALSE)

CheckFailed(i) == Dropped(i, TRUE)

\* DuplicateCheckFailed: not written, and the transcript not done.
CheckFails(i) ==
  /\ At("items") /\ i \in run.items
  /\ CheckFailed(i)
  /\ Fault
  /\ UNCHANGED <<size, queue, done, store>>

New(i) ==
  /\ At("items") /\ i \in run.items /\ ~ IsDuplicate(i)
  /\ run' = [run EXCEPT !.pc = "writing", !.item = {i}]
  /\ UNCHANGED <<size, queue, done, store, faults>>

Stored(i) == store' = [store EXCEPT ![Fact(i)] = @ + 1]

Write(i) ==
  /\ At("writing") /\ i \in run.item
  /\ Stored(i)
  /\ Dropped(i, FALSE)
  /\ UNCHANGED <<size, queue, done, faults>>

\* mem_ops fails, or reaches its timeout: the row may be there all the same.
WriteFails(i) ==
  /\ At("writing") /\ i \in run.item
  /\ Stored(i) \/ UNCHANGED store
  /\ Dropped(i, TRUE)
  /\ Fault
  /\ UNCHANGED <<size, queue, done>>

\* "Only mark done when nothing failed"; the key is taken again.
Finish ==
  /\ At("items") /\ run.items = {}
  /\ done' = IF run.failed THEN done
             ELSE done \union {[of |-> run.cur, key |-> size[run.cur], read |-> run.read]}
  /\ run' = [Resting EXCEPT !.pc = "next", !.window = run.window]
  /\ UNCHANGED <<size, queue, store, faults>>

End ==
  /\ At("next") /\ run.window = {}
  /\ run' = Resting
  /\ UNCHANGED <<size, queue, done, store, faults>>

\* A run that is killed; the next one recovers its lock.
Crash ==
  /\ ~ At("idle")
  /\ run' = Resting
  /\ Fault
  /\ UNCHANGED <<size, queue, done, store>>

Works ==
  \/ Start \/ Extracted \/ ExtractFails \/ Finish \/ End
  \/ \E k \in run.window : TakeGone(k) \/ TakeUnreadable(k) \/ TakeTiny(k) \/ Read(k)
  \/ \E i \in Items : Duplicate(i) \/ CheckFails(i) \/ New(i) \/ Write(i) \/ WriteFails(i)

Next ==
  \/ \E t \in Transcripts : Capture(t) \/ Grow(t) \/ Delete(t)
  \/ Works
  \/ Crash

\* A timer starts a run when the last has ended, and a run goes on.  Faults are
\* few (MaxFaults); a bad transcript fails for ever.
Spec == Init /\ [][Next]_vars /\ WF_vars(Works)

-----------------------------------------------------------------------------
(* What the extractor promises *)

TypeOK ==
  /\ size \in [Transcripts -> Sizes]
  /\ queue \in Seq(Transcripts)
  /\ done \subseteq [of : Transcripts, key : Sizes, read : Sizes]
  /\ run \in [pc : {"idle", "next", "asking", "items", "writing"}, window : SUBSET (1..MaxQueue),
              cur : Transcripts \union {NoOne}, read : Sizes, items : SUBSET Items,
              item : SUBSET Items, failed : BOOLEAN]
  /\ run.pc = "writing" <=> run.item # {}
  /\ store \in [Facts -> Nat]
  /\ faults \in 0..MaxFaults

\* "a transient DB/embedder error must not permanently lose extracted items": what a
\* done mark was extracted from has all its items in the store.
NothingLost ==
  \A m \in done : m.read # Gone => \A i \in Answer(m.of) : store[<<m.of, m.read, i>>] > 0

\* A transcript that is read again, after a crash or a write whose answer was lost,
\* does not repeat its items.
NoItemTwice == \A f \in Facts : store[f] <= 1

\* What a session that is done had to say is in the store, once.
EveryItemOnce == NothingLost /\ NoItemTwice

\* A session in the queue is extracted in the end, at the size it then has, although
\* others fail for ever or are gone: "One bad transcript costs only itself".
EverySessionReached ==
  \A t \in Transcripts \ Bad : (\E k \in 1..Len(queue) : queue[k] = t) ~> IsDone(t)

\* "a grown session re-enters the queue": a size that is marked done has been read.
DoneWasRead == \A m \in done : m.key = m.read \/ m.key = Gone
=============================================================================
