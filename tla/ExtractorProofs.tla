-------------------------- MODULE ExtractorProofs ---------------------------
(***************************************************************************)
(* Proof that what a session marked done had to say is in the store, once, *)
(* for any transcripts, items and limit, any number of faults and crashes. *)
(***************************************************************************)
EXTENDS Extractor, SequenceTheorems, TLAPS

RunType == [pc : {"idle", "next", "asking", "items", "writing"}, window : SUBSET Nat,
            cur : Transcripts \union {NoOne}, read : Sizes, items : SUBSET Items,
            item : SUBSET Items, failed : BOOLEAN]

Shape ==
  /\ size \in [Transcripts -> Sizes]
  /\ queue \in Seq(Transcripts)
  /\ done \subseteq [of : Transcripts, key : Sizes, read : Sizes]
  /\ store \in [Facts -> Nat]
  /\ run \in RunType /\ run.window \subseteq 1..Len(queue)

\* An item that was dealt with is in the store, unless something failed; one that is about to be
\* written is not, for there is no other run that could write it.
Reading(r) ==
  /\ r.pc \in {"asking", "items", "writing"} => r.cur \in Transcripts /\ r.read \in Buckets
  /\ r.pc \in {"items", "writing"} /\ ~r.failed =>
       \A i \in Answer(r.cur) \ r.items : store[<<r.cur, r.read, i>>] > 0
  /\ r.pc = "writing" => \A i \in r.item : store[<<r.cur, r.read, i>>] = 0

IInv == Shape /\ Reading(run) /\ NothingLost /\ NoItemTwice

LEMMA AnswerIsItems == \A t : Answer(t) \subseteq Items
  BY DEF Answer

LEMMA InitIInv ==
  ASSUME Init
  PROVE  IInv
  <1>1. Shape
    BY CountAssumption DEF Init, Shape, Resting, RunType, Sizes, Buckets
  <1>2. Reading(run)
    BY DEF Init, Resting, Reading
  <1>3. NothingLost /\ NoItemTwice
    BY DEF Init, NothingLost, NoItemTwice
  <1> QED
    BY <1>1, <1>2, <1>3 DEF IInv

\* A step that writes neither a row nor a mark.
LEMMA NothingWritten ==
  ASSUME IInv, UNCHANGED <<store, done, queue, size>>, run' \in RunType,
         run'.window \subseteq 1..Len(queue), Reading(run')
  PROVE  IInv'
  BY DEF IInv, Shape, Reading, NothingLost, NoItemTwice

\* A mark about a transcript that is gone, about which there is nothing to say, or whose items are
\* all in the store.
LEMMA Marked ==
  ASSUME IInv, UNCHANGED <<store, queue, size>>, NEW m \in [of : Transcripts, key : Sizes, read : Sizes],
         done' \in {done, done \union {m}},
         m.read # Gone => \A i \in Answer(m.of) : store[<<m.of, m.read, i>>] > 0,
         run' \in RunType, run'.window \subseteq 1..Len(queue), run'.pc = "next"
  PROVE  IInv'
  <1>1. Shape'
    BY DEF IInv, Shape
  <1>2. Reading(run)'
    BY DEF Reading
  <1>3. NothingLost'
    BY DEF IInv, NothingLost
  <1> QED
    BY <1>1, <1>2, <1>3 DEF IInv, NoItemTwice

LEMMA SessionStep ==
  ASSUME IInv, NEW t \in Transcripts, Capture(t) \/ Grow(t) \/ Delete(t)
  PROVE  IInv'
  <1>1. UNCHANGED <<store, done, run>> /\ size' \in [Transcripts -> Sizes]
    BY CountAssumption DEF Capture, Grow, Delete, IInv, Shape, Sizes, Buckets
  <1>2. queue' \in Seq(Transcripts) /\ Len(queue') >= Len(queue)
    BY AppendProperties DEF Capture, Grow, Delete, IInv, Shape
  <1>3. run.window \subseteq 1..Len(queue')
    BY <1>2 DEF IInv, Shape
  <1> QED
    BY <1>1, <1>2, <1>3 DEF IInv, Shape, Reading, NothingLost, NoItemTwice

LEMMA StartStep ==
  ASSUME IInv, Start
  PROVE  IInv'
  <1>1. Window \subseteq 1..Len(queue) /\ Len(queue) \in Nat
    BY DEF Window, Pending, IInv, Shape
  <1>2. run' = [Resting EXCEPT !.pc = "next", !.window = Window] /\ UNCHANGED <<store, done, queue, size>>
    BY DEF Start
  <1> DEFINE W == Window
  <1> HIDE DEF W
  <1>3. W \subseteq 1..Len(queue) /\ W \in SUBSET Nat /\ run' = [Resting EXCEPT !.pc = "next", !.window = W]
    BY <1>1, <1>2 DEF W
  <1>4. run' \in RunType /\ run'.window = W /\ run'.pc = "next"
    BY <1>3 DEF Resting, RunType, Sizes
  <1> QED
    BY <1>2, <1>3, <1>4, NothingWritten DEF Reading

\* A record of the window, and what is left of the window after it.
LEMMA RecordTaken ==
  ASSUME IInv, NEW k \in run.window, IsNext(k)
  PROVE  /\ queue[k] \in Transcripts /\ size[queue[k]] \in Sizes
         /\ run.window \ {k} \subseteq 1..Len(queue) /\ run.window \ {k} \in SUBSET Nat
  BY DEF IInv, Shape, RunType

\* What NextRecord leaves of a run that rests otherwise.
LEMMA NextIsNext ==
  ASSUME NEW W \in SUBSET Nat, NEW r, r = [Resting EXCEPT !.pc = "next", !.window = W]
  PROVE  r \in RunType /\ r.pc = "next" /\ r.window = W
  BY DEF Resting, RunType, Sizes

LEMMA TakeStep ==
  ASSUME IInv, NEW k \in run.window, TakeGone(k) \/ TakeUnreadable(k) \/ TakeTiny(k)
  PROVE  IInv'
  <1> DEFINE t == queue[k]
             r == run'
             W == run.window \ {k}
  <1>1. IsNext(k) /\ run' = [Resting EXCEPT !.pc = "next", !.window = W] /\ UNCHANGED <<store, queue, size>>
    BY DEF TakeGone, TakeUnreadable, TakeTiny, NextRecord
  <1>2. t \in Transcripts /\ size[t] \in Sizes /\ W \subseteq 1..Len(queue) /\ W \in SUBSET Nat
    BY <1>1, RecordTaken
  <1>3. run' \in RunType /\ run'.pc = "next" /\ run'.window = W
    BY <1>1, <1>2, NextIsNext
  <1>4. CASE TakeGone(k)
    <2> DEFINE m == [of |-> t, key |-> size[t], read |-> Gone]
    <2>1. done' = done \union {m} /\ m \in [of : Transcripts, key : Sizes, read : Sizes] /\ m.read = Gone
      BY <1>2, <1>4 DEF TakeGone, MarkGone, Sizes
    <2> HIDE DEF m
    <2> QED
      BY <1>1, <1>2, <1>3, <2>1, Marked
  <1>5. CASE TakeUnreadable(k)
    <2>1. UNCHANGED done
      BY <1>5 DEF TakeUnreadable
    <2> QED
      BY <1>1, <1>2, <1>3, <2>1, NothingWritten DEF Reading
  <1>6. CASE TakeTiny(k)
    <2> DEFINE m == [of |-> t, key |-> size[t], read |-> size[t]]
    <2>1. done' = done \union {m} /\ m \in [of : Transcripts, key : Sizes, read : Sizes] /\ Answer(m.of) = {}
      BY <1>2, <1>6 DEF TakeTiny, Answer
    <2> HIDE DEF m
    <2> QED
      BY <1>1, <1>2, <1>3, <2>1, Marked
  <1> QED
    BY <1>4, <1>5, <1>6

LEMMA ReadStep ==
  ASSUME IInv, NEW k \in run.window, Read(k)
  PROVE  IInv'
  <1>1. IsNext(k) /\ UNCHANGED <<store, done, queue, size>>
    BY DEF Read
  <1>2. /\ queue[k] \in Transcripts /\ size[queue[k]] \in Buckets
        /\ run.window \ {k} \subseteq 1..Len(queue) /\ run.window \ {k} \in SUBSET Nat
    BY <1>1, RecordTaken DEF Read, Sizes
  <1>3. /\ run'.pc = "asking" /\ run'.cur = queue[k] /\ run'.read = size[queue[k]]
        /\ run'.window = run.window \ {k} /\ run' \in RunType
    BY <1>2 DEF Read, IInv, Shape, RunType, Sizes
  <1> QED
    BY <1>1, <1>2, <1>3, NothingWritten DEF Reading

\* The run gives the transcript up, is done with the window, or is killed.
LEMMA GivenUpStep ==
  ASSUME IInv, ExtractFails \/ End \/ Crash
  PROVE  IInv'
  <1>1. UNCHANGED <<store, done, queue, size>>
    BY DEF ExtractFails, End, Crash
  <1>2. run.window \subseteq 1..Len(queue) /\ run.window \in SUBSET Nat
    BY DEF IInv, Shape, RunType
  <1>3. CASE ExtractFails
    <2>1. run' \in RunType /\ run'.pc = "next" /\ run'.window = run.window
      BY <1>2, <1>3, NextIsNext DEF ExtractFails
    <2> QED
      BY <1>1, <1>2, <2>1, NothingWritten DEF Reading
  <1>4. CASE End \/ Crash
    <2>1. Resting \in RunType /\ Resting.pc = "idle" /\ Resting.window = {}
      BY DEF Resting, RunType, Sizes
    <2>2. run' = Resting
      BY <1>4 DEF End, Crash
    <2> QED
      BY <1>1, <2>1, <2>2, NothingWritten DEF Reading
  <1> QED
    BY <1>3, <1>4

LEMMA ExtractedStep ==
  ASSUME IInv, Extracted
  PROVE  IInv'
  <1>1. At("asking") /\ UNCHANGED <<store, done, queue, size>> /\ Answer(run.cur) \subseteq Items
    BY AnswerIsItems DEF Extracted
  <1>2. /\ run'.pc = "items" /\ run'.cur = run.cur /\ run'.read = run.read
        /\ run'.items = Answer(run.cur) /\ run'.window = run.window /\ run' \in RunType
    BY <1>1 DEF Extracted, IInv, Shape, RunType
  <1>3. Reading(run')
    BY <1>1, <1>2 DEF Reading, IInv, At
  <1> QED
    BY <1>1, <1>2, <1>3, NothingWritten DEF IInv, Shape

\* What Dropped does to a run.
LEMMA DroppedRun ==
  ASSUME run \in RunType, NEW i \in Items, NEW failed \in BOOLEAN, Dropped(i, failed)
  PROVE  /\ run' \in RunType /\ run'.pc = "items" /\ run'.window = run.window
         /\ run'.cur = run.cur /\ run'.read = run.read
         /\ run'.items = run.items \ {i} /\ (~run'.failed => ~run.failed /\ ~failed)
  BY DEF Dropped, RunType

LEMMA DuplicateStep ==
  ASSUME IInv, NEW i \in Items, Duplicate(i) \/ CheckFails(i)
  PROVE  IInv'
  <1>1. At("items") /\ UNCHANGED <<store, done, queue, size>> /\ run \in RunType
    BY DEF Duplicate, CheckFails, IInv, Shape
  <1>2. CASE Duplicate(i)
    <2>1. Dropped(i, FALSE) /\ store[<<run.cur, run.read, i>>] > 0
      BY <1>2 DEF Duplicate, IsDuplicate, Fact
    <2>2. run' \in RunType /\ run'.window = run.window /\ Reading(run')
      BY <1>1, <2>1, DroppedRun DEF Reading, IInv, At
    <2> QED
      BY <1>1, <2>2, NothingWritten DEF IInv, Shape
  <1>3. CASE CheckFails(i)
    <2>1. Dropped(i, TRUE)
      BY <1>3 DEF CheckFails, CheckFailed
    <2>2. run' \in RunType /\ run'.window = run.window /\ Reading(run')
      BY <1>1, <2>1, DroppedRun DEF Reading, IInv, At
    <2> QED
      BY <1>1, <2>2, NothingWritten DEF IInv, Shape
  <1> QED
    BY <1>2, <1>3

LEMMA NewStep ==
  ASSUME IInv, NEW i \in Items, New(i)
  PROVE  IInv'
  <1>1. At("items") /\ UNCHANGED <<store, done, queue, size>> /\ run \in RunType
    BY DEF New, IInv, Shape
  <1>2. run.cur \in Transcripts /\ run.read \in Buckets
    BY <1>1 DEF IInv, Reading, At
  <1>3. store[<<run.cur, run.read, i>>] = 0
    <2>1. store[<<run.cur, run.read, i>>] \in Nat
      BY <1>2 DEF IInv, Shape, Facts
    <2> QED
      BY <2>1 DEF New, IsDuplicate, Fact
  <1>4. /\ run'.pc = "writing" /\ run'.item = {i} /\ run'.items = run.items /\ run'.cur = run.cur
        /\ run'.read = run.read /\ run'.failed = run.failed /\ run'.window = run.window /\ run' \in RunType
    BY <1>1 DEF New, RunType
  <1>5. Reading(run')
    BY <1>1, <1>2, <1>3, <1>4 DEF Reading, IInv, At
  <1> QED
    BY <1>1, <1>4, <1>5, NothingWritten DEF IInv, Shape

\* The write, whether its answer comes back or not: there was no copy of the item before.
LEMMA WriteStep ==
  ASSUME IInv, NEW i \in Items, Write(i) \/ WriteFails(i)
  PROVE  IInv'
  <1> DEFINE f == <<run.cur, run.read, i>>
  <1>1. At("writing") /\ i \in run.item /\ UNCHANGED <<done, queue, size>> /\ run \in RunType
    BY DEF Write, WriteFails, IInv, Shape
  <1>2. f \in Facts /\ store[f] = 0 /\ store \in [Facts -> Nat]
    BY <1>1 DEF IInv, Shape, Reading, At, Facts
  <1>3. /\ store' \in [Facts -> Nat]
        /\ \A g \in Facts : store'[g] = store[g] \/ (g = f /\ store'[g] = 1)
    <2>1. CASE UNCHANGED store
      BY <1>2, <2>1
    <2>2. CASE Stored(i)
      BY <1>2, <2>2 DEF Stored, Fact
    <2> QED
      BY <2>1, <2>2 DEF Write, WriteFails
  <1>4. \A g \in Facts : store[g] > 0 => store'[g] > 0
    BY <1>2, <1>3
  <1>5. \E failed \in BOOLEAN : Dropped(i, failed) /\ (~failed => store'[f] > 0)
    <2>1. CASE Write(i)
      <3>1. Dropped(i, FALSE)
        BY <2>1 DEF Write
      <3>2. store'[f] > 0
        BY <1>2, <2>1 DEF Write, Stored, Fact
      <3> QED
        BY <3>1, <3>2
    <2>2. CASE WriteFails(i)
      <3>1. Dropped(i, TRUE)
        BY <2>2 DEF WriteFails
      <3> QED
        BY <3>1
    <2> QED
      BY <2>1, <2>2
  <1>6. /\ run' \in RunType /\ run'.pc = "items" /\ run'.window = run.window
        /\ run'.cur = run.cur /\ run'.read = run.read
        /\ run'.items = run.items \ {i} /\ (~run'.failed => ~run.failed /\ store'[f] > 0)
    BY <1>1, <1>5, DroppedRun
  <1>7. Shape'
    BY <1>1, <1>3, <1>6 DEF IInv, Shape
  <1>8. Reading(run)'
    <2>1. run.cur \in Transcripts /\ run.read \in Buckets
      BY <1>1 DEF IInv, Reading, At
    <2>2. ASSUME ~run'.failed, NEW j \in Answer(run.cur) \ (run.items \ {i})
          PROVE  store'[<<run.cur, run.read, j>>] > 0
      <3>1. CASE j = i
        BY <1>6, <2>2, <3>1
      <3>2. CASE j # i
        <4>1. store[<<run.cur, run.read, j>>] > 0
          BY <1>1, <1>6, <2>2, <3>2 DEF IInv, Reading, At
        <4>2. <<run.cur, run.read, j>> \in Facts
          BY <2>1, AnswerIsItems DEF Facts
        <4> QED
          BY <1>4, <4>1, <4>2
      <3> QED
        BY <3>1, <3>2
    <2> QED
      BY <1>6, <2>1, <2>2 DEF Reading
  <1>9. NothingLost'
    <2>1. ASSUME NEW m \in done, m.read # Gone, NEW j \in Answer(m.of)
          PROVE  store'[<<m.of, m.read, j>>] > 0
      <3>1. <<m.of, m.read, j>> \in Facts
        BY <2>1, AnswerIsItems DEF IInv, Shape, Sizes, Facts
      <3> QED
        BY <1>4, <2>1, <3>1 DEF IInv, NothingLost
    <2> QED
      BY <1>1, <2>1 DEF NothingLost
  <1>10. NoItemTwice'
    BY <1>3 DEF NoItemTwice, IInv
  <1> QED
    BY <1>7, <1>8, <1>9, <1>10 DEF IInv

LEMMA FinishStep ==
  ASSUME IInv, Finish
  PROVE  IInv'
  <1> DEFINE m == [of |-> run.cur, key |-> size[run.cur], read |-> run.read]
  <1>1. At("items") /\ run.items = {} /\ UNCHANGED <<store, queue, size>> /\ run \in RunType
    BY DEF Finish, IInv, Shape
  <1>2. run.cur \in Transcripts /\ run.read \in Buckets /\ size[run.cur] \in Sizes
    BY <1>1 DEF IInv, Shape, Reading, At
  <1>3. run' \in RunType /\ run'.pc = "next" /\ run'.window = run.window
    BY <1>1, NextIsNext DEF Finish, RunType
  <1>4. CASE run.failed
    <2>1. UNCHANGED done
      BY <1>4 DEF Finish
    <2> QED
      BY <1>1, <1>3, <2>1, NothingWritten DEF IInv, Shape, Reading
  <1>5. CASE ~run.failed
    <2>1. done' = done \union {m} /\ m \in [of : Transcripts, key : Sizes, read : Sizes]
      BY <1>2, <1>5 DEF Finish, Sizes
    <2>2. \A i \in Answer(m.of) : store[<<m.of, m.read, i>>] > 0
      BY <1>1, <1>5 DEF IInv, Reading, At
    <2> HIDE DEF m
    <2> QED
      BY <1>1, <1>3, <2>1, <2>2, Marked DEF IInv, Shape
  <1> QED
    BY <1>4, <1>5

LEMMA NextIInv ==
  ASSUME IInv, [Next]_vars
  PROVE  IInv'
  <1>1. CASE UNCHANGED vars
    BY <1>1, NothingWritten DEF vars, IInv, Shape
  <1> QED
    BY <1>1, SessionStep, StartStep, TakeStep, ReadStep, GivenUpStep, ExtractedStep, DuplicateStep,
       NewStep, WriteStep, FinishStep
    DEF Next, Works

\* What a session that mem_extract.py marked done had to say is in the store, and no item is there
\* twice, whatever fails, times out after it has written, or is killed.
THEOREM EveryItemOnceCorrect == Spec => []EveryItemOnce
  <1>1. Init => IInv
    BY InitIInv
  <1>2. IInv /\ [Next]_vars => IInv'
    BY NextIInv
  <1>3. IInv => EveryItemOnce
    BY DEF IInv, EveryItemOnce
  <1> QED
    BY <1>1, <1>2, <1>3, PTL DEF Spec
=============================================================================
