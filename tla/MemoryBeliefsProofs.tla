------------------------ MODULE MemoryBeliefsProofs ------------------------
(***************************************************************************)
(* Proof that the memory store implements BeliefLog, for every number of   *)
(* sessions, authors, projects and commands: the stored columns of a row   *)
(* encode its periods of belief, and every transaction changes them in one *)
(* of BeliefLog's three ways or not at all.                                *)
(***************************************************************************)
EXTENDS MemoryStoreBeliefs, MemoryPromisesProofs

-----------------------------------------------------------------------------
(* The periods of one row *)

\* A closed period runs from a start to the first end after it.
Span(r, s, e) ==
  /\ s \in Starts(r) /\ e \in Ends(r) /\ s < e
  /\ \A f \in Ends(r) : f <= s \/ f >= e

LEMMA SpansAreSpans ==
  ASSUME NEW r
  PROVE  /\ \A se \in Spans(r) : Span(r, se[1], se[2])
         /\ \A s, e : Span(r, s, e) => \E se \in Spans(r) : se[1] = s /\ se[2] = e
  <1>1. \A se \in Spans(r) : Span(r, se[1], se[2])
    BY DEF Spans, Span
  <1>2. ASSUME NEW s, NEW e, Span(r, s, e) PROVE \E se \in Spans(r) : se[1] = s /\ se[2] = e
    <2>1. <<s, e>> \in Spans(r)
      BY <1>2 DEF Spans, Span
    <2> QED
      BY <2>1
  <1> QED
    BY <1>1, <1>2

LEMMA ClosedSpans ==
  ASSUME NEW r, NEW i, NEW b
  PROVE  b \in {[id |-> i, from |-> se[1], to |-> se[2]] : se \in Spans(r)}
           <=> \E s, e : Span(r, s, e) /\ b = [id |-> i, from |-> s, to |-> e]
  BY SpansAreSpans

\* A bounded nonempty set of instants has a latest.
LEMMA LatestNat ==
  ASSUME NEW S, S \subseteq Nat, S # {}, NEW n \in Nat, \A s \in S : s <= n
  PROVE  Latest(S) \in S /\ \A s \in S : s <= Latest(S)
  <1> DEFINE T == {m \in Nat : \E s \in S : s + m = n}
  <1>1. \A s \in S : n - s \in T
    <2> TAKE s \in S
    <2>1. n - s \in Nat /\ s + (n - s) = n
      OBVIOUS
    <2> QED
      BY <2>1
  <1>2. T \subseteq Nat /\ T # {}
    BY <1>1
  <1>3. PICK m \in T : \A k \in T : m <= k
    BY <1>2, LeastNat
  <1>4. PICK s \in S : s + m = n
    OBVIOUS
  <1> HIDE DEF T
  <1>5. \A u \in S : u <= s
    <2> TAKE u \in S
    <2>1. m <= n - u
      BY <1>1, <1>3
    <2>2. m \in Nat /\ u \in Nat /\ s \in Nat
      BY <1>2, <1>3
    <2> QED
      BY <1>4, <2>1, <2>2
  <1> QED
    BY <1>5 DEF Latest

\* Every start comes before the clock, and before the end of the row's last period if it is over.
LEMMA RowTimes ==
  ASSUME NEW r \in Row, NEW n \in Nat, BeliefTimeOf(r, n)
  PROVE  /\ Starts(r) \subseteq Nat /\ r.created \in Starts(r)
         /\ Ends(r) \subseteq Nat /\ \A e \in Ends(r) : r.created < e /\ e <= n
         /\ \A s \in Starts(r) : s <= n /\ r.created <= s
         /\ Latest(Starts(r)) \in Starts(r) /\ \A s \in Starts(r) : s <= Latest(Starts(r))
  <1>1. /\ Starts(r) \subseteq Nat /\ r.created \in Starts(r)
        /\ \A s \in Starts(r) : s <= n /\ r.created <= s
    BY DEF Starts, Row, Interval, BeliefTimeOf
  <1>2. Ends(r) \subseteq Nat /\ \A e \in Ends(r) : r.created < e /\ e <= n
    BY DEF Ends, Row, Interval, BeliefTimeOf
  <1> QED
    BY <1>1, <1>2, LatestNat

\* Retiring a settled row at t closes the period that is open, and no other.
LEMMA RetireSpans ==
  ASSUME NEW r \in Row, NEW n \in Nat, BeliefTimeOf(r, n), NEW t \in Nat, Settled(r, t),
         NEW s \in Row, s.created = r.created, s.intervals = r.intervals, s.retired = t
  PROVE  /\ Latest(Starts(r)) < t
         /\ \A x, e : Span(s, x, e) <=> Span(r, x, e) \/ (x = Latest(Starts(r)) /\ e = t)
  <1> DEFINE y == Latest(Starts(r))
  <1>1. r.retired = Null /\ t # Null /\ t \in Nat
    BY DEF Settled, BeliefTimeOf, Null, Row
  <1>2. Starts(s) = Starts(r) /\ Ends(s) = Ends(r) \union {t}
    BY <1>1 DEF Starts, Ends
  <1>3. /\ Starts(r) \subseteq Nat /\ Ends(r) \subseteq Nat /\ y \in Starts(r)
        /\ \A x \in Starts(r) : x <= y
    BY RowTimes
  <1>4. \A x \in Starts(r) : x < t
    BY DEF Starts, Settled
  <1>5. \A e \in Ends(r) : e < t
    BY <1>1 DEF Ends, Settled, BeliefTimeOf, Row, Interval
  <1>6. \A e \in Ends(r) : e < y
    <2> TAKE e \in Ends(r)
    <2>1. PICK iv \in r.intervals : e = iv.from
      BY <1>1 DEF Ends
    <2>2. iv.to \in Starts(r) /\ iv.from < iv.to /\ iv.from \in Nat /\ iv.to \in Nat
      BY DEF Starts, BeliefTimeOf, Row, Interval
    <2> QED
      BY <1>3, <2>1, <2>2
  \* The latest start is the only one after every end.
  <1>7. ASSUME NEW x \in Starts(r), x < y PROVE \E f \in Ends(r) : x < f
    <2>1. r.created <= x
      BY RowTimes
    <2> HIDE DEF y
    <2>2. y # r.created
      BY <1>3, <1>7, <2>1, RowTimes
    <2>3. PICK iv \in r.intervals : y = iv.to
      BY <1>3, <2>2 DEF Starts
    <2>4. iv.from \in Ends(r) /\ iv.from \in Nat /\ r.created < iv.from /\ x \in Nat
      BY <1>3 DEF Ends, BeliefTimeOf, Row, Interval
    <2>5. CASE x = r.created
      BY <2>4, <2>5
    <2>6. ASSUME NEW jv \in r.intervals, x = jv.to PROVE x < iv.from
      <3>1. jv.to < iv.from \/ iv.to < jv.from
        BY <1>7, <2>3, <2>6 DEF BeliefTimeOf, Row, Interval
      <3>2. jv.from < jv.to /\ jv.from \in Nat /\ jv.to \in Nat /\ iv.to \in Nat
        BY DEF BeliefTimeOf, Row, Interval
      <3> QED
        BY <1>7, <2>3, <2>6, <3>1, <3>2
    <2> QED
      BY <2>4, <2>5, <2>6 DEF Starts
  <1> HIDE DEF y
  <1>8. ASSUME NEW x, NEW e, Span(s, x, e) PROVE Span(r, x, e) \/ (x = y /\ e = t)
    <2>1. x \in Starts(r) /\ e \in Ends(r) \union {t} /\ x < e /\ \A f \in Ends(r) \union {t} : f <= x \/ f >= e
      BY <1>2, <1>8 DEF Span
    <2>2. CASE e \in Ends(r)
      BY <2>1, <2>2 DEF Span
    <2>3. CASE e = t
      <3>1. \A f \in Ends(r) : ~ (x < f)
        BY <1>3, <1>5, <2>1, <2>3
      <3> QED
        BY <1>3, <1>7, <2>1, <2>3, <3>1
    <2> QED
      BY <2>1, <2>2, <2>3
  <1>9. ASSUME NEW x, NEW e, Span(r, x, e) PROVE Span(s, x, e)
    <2>1. x \in Starts(r) /\ e \in Ends(r) /\ x < e /\ \A f \in Ends(r) : f <= x \/ f >= e
      BY <1>9 DEF Span
    <2>2. t >= e
      BY <1>3, <1>5, <2>1
    <2> QED
      BY <1>2, <2>1, <2>2 DEF Span
  <1>10. Span(s, y, t)
    BY <1>1, <1>2, <1>3, <1>4, <1>6 DEF Span
  <1> QED
    BY <1>3, <1>4, <1>8, <1>9, <1>10 DEF y

\* Taking a belief up again opens a period after all of them, and closes none.
LEMMA ResumeSpans ==
  ASSUME NEW r \in Row, NEW n \in Nat, BeliefTimeOf(r, n), r.retired # Null, NEW t \in Nat, n < t,
         NEW s \in Row, BeliefTimeOf(s, t), s.created = r.created, s.retired = Null,
         s.intervals = r.intervals \union {[from |-> r.retired, to |-> t]}
  PROVE  /\ Latest(Starts(s)) = t
         /\ \A x, e : Span(s, x, e) <=> Span(r, x, e)
  <1>1. /\ Starts(r) \subseteq Nat /\ Ends(r) \subseteq Nat /\ \A e \in Ends(r) : e <= n
        /\ \A x \in Starts(r) : x <= n
    BY RowTimes
  <1> DEFINE iv == [from |-> r.retired, to |-> t]
  <1>2. iv.from = r.retired /\ iv.to = t /\ s.intervals = r.intervals \union {iv}
    OBVIOUS
  <1> HIDE DEF iv
  <1>3. Starts(s) = Starts(r) \union {t}
    BY <1>2 DEF Starts
  <1>4. Ends(s) = Ends(r)
    BY <1>2 DEF Ends
  <1>5. Latest(Starts(s)) = t
    <2>1. Latest(Starts(s)) \in Starts(s) /\ t <= Latest(Starts(s))
      BY <1>3, RowTimes
    <2> QED
      BY <1>1, <1>3, <2>1
  <1>6. \A x, e : Span(s, x, e) <=> Span(r, x, e)
    BY <1>1, <1>3, <1>4 DEF Span
  <1> QED
    BY <1>5, <1>6

\* A row that is not believed now was believed before.
LEMMA RetiredSpan ==
  ASSUME NEW r \in Row, NEW n \in Nat, BeliefTimeOf(r, n), r.retired # Null
  PROVE  \E s, e : Span(r, s, e)
  <1>1. /\ r.created \in Starts(r) /\ Ends(r) \subseteq Nat /\ \A e \in Ends(r) : r.created < e
    BY RowTimes
  <1>2. r.retired \in Ends(r)
    BY DEF Ends
  <1>3. PICK e \in Ends(r) : \A f \in Ends(r) : e <= f
    BY <1>1, <1>2, LeastNat
  <1>4. Span(r, r.created, e)
    BY <1>1, <1>3 DEF Span
  <1> QED
    BY <1>4

\* A superseded row keeps its history and retires at t.
LEMMA SupersededTimes ==
  ASSUME NEW r \in Row, NEW t \in Nat, Settled(r, t)
  PROVE  LET s == Supersede(r, t)
         IN  s \in Row /\ s.created = r.created /\ s.intervals = r.intervals /\ s.retired = t
  BY DEF Supersede, KeepBeliefTime, Settled, Row, Statuses

\* The four things a mark can do to a row.
LEMMA MarkCases ==
  ASSUME NEW r \in Row, NEW n \in Nat, NEW st \in Statuses, BeliefTimeOf(r, n)
  PROVE  LET s == Mark(r, st, n + 1)
         IN  /\ s.created = r.created
             /\ \/ s.intervals = r.intervals /\ s.retired = r.retired
                \/ r.retired = Null /\ s.intervals = r.intervals /\ s.retired = n + 1
                \/ /\ r.retired # Null /\ s.retired = Null
                   /\ s.intervals = r.intervals \union {[from |-> r.retired, to |-> n + 1]}
  <1>1. CASE st # "active" /\ r.retired = Null
    BY <1>1 DEF Mark, KeepBeliefTime, Row, Null
  <1>2. CASE st # "active" /\ r.retired # Null
    BY <1>2 DEF Mark, KeepBeliefTime, Row, Null
  <1>3. CASE st = "active" /\ r.retired = Null
    BY <1>3 DEF Mark, KeepBeliefTime, Row, Null, BeliefTimeOf
  <1>4. CASE st = "active" /\ r.retired # Null
    <2>1. r.retired < n + 1
      BY DEF Row, BeliefTimeOf
    <2> QED
      BY <1>4, <2>1 DEF Mark, KeepBeliefTime, Row, Null
  <1> QED
    BY <1>1, <1>2, <1>3, <1>4

-----------------------------------------------------------------------------
(* The beliefs of all rows *)

BelievedRows == {i \in DOMAIN rows : rows[i].retired = Null}

Log == UNION {Closed(i) : i \in DOMAIN rows}

\* The columns that belief time is about are as they were.
SameTimes(r, s) == s.created = r.created /\ s.intervals = r.intervals /\ s.retired = r.retired

LEMMA SinceFacts ==
  /\ DOMAIN BelievedSince = BelievedRows
  /\ \A i \in BelievedRows : BelievedSince[i] = Latest(Starts(rows[i]))
  BY DEF BelievedSince, BelievedRows

\* The log when rows in S closed a period at t, and those that are new have closed none.
LEMMA LogStep ==
  ASSUME NEW S, S \subseteq DOMAIN rows, NEW t, DOMAIN rows \subseteq DOMAIN rows',
         \A i \in DOMAIN rows : \A x, e :
           Span(rows'[i], x, e) <=>
             Span(rows[i], x, e) \/ (i \in S /\ x = Latest(Starts(rows[i])) /\ e = t),
         \A i \in DOMAIN rows' \ DOMAIN rows : \A x, e : ~ Span(rows'[i], x, e)
  PROVE  Log' = Log \union {[id |-> i, from |-> Latest(Starts(rows[i])), to |-> t] : i \in S}
  <1>1. \A b : b \in Log <=>
          \E i \in DOMAIN rows : \E x, e : Span(rows[i], x, e) /\ b = [id |-> i, from |-> x, to |-> e]
    BY ClosedSpans DEF Log, Closed
  <1>2. \A b : b \in Log' <=>
          \E i \in DOMAIN rows' : \E x, e : Span(rows'[i], x, e) /\ b = [id |-> i, from |-> x, to |-> e]
    <2>1. Log' = UNION {{[id |-> i, from |-> se[1], to |-> se[2]] : se \in Spans(rows'[i])} : i \in DOMAIN rows'}
      BY DEF Log, Closed
    <2> DEFINE r == rows'
    <2>2. Log' = UNION {{[id |-> i, from |-> se[1], to |-> se[2]] : se \in Spans(r[i])} : i \in DOMAIN r}
      BY <2>1
    <2> HIDE DEF r
    <2>3. \A b : b \in Log' <=>
            \E i \in DOMAIN r : \E x, e : Span(r[i], x, e) /\ b = [id |-> i, from |-> x, to |-> e]
      BY <2>2, ClosedSpans
    <2> QED
      BY <2>3 DEF r
  <1> DEFINE C == {[id |-> i, from |-> Latest(Starts(rows[i])), to |-> t] : i \in S}
  <1>3. ASSUME NEW b, b \in Log' PROVE b \in Log \union C
    <2>1. PICK i \in DOMAIN rows' : \E x, e : Span(rows'[i], x, e) /\ b = [id |-> i, from |-> x, to |-> e]
      BY <1>2, <1>3
    <2>2. PICK x, e : Span(rows'[i], x, e) /\ b = [id |-> i, from |-> x, to |-> e]
      BY <2>1
    <2>3. i \in DOMAIN rows
      BY <2>2
    <2>4. Span(rows[i], x, e) \/ (i \in S /\ x = Latest(Starts(rows[i])) /\ e = t)
      BY <2>2, <2>3
    <2> QED
      BY <1>1, <2>2, <2>3, <2>4
  <1>4. ASSUME NEW b, b \in Log PROVE b \in Log'
    BY <1>1, <1>2, <1>4
  <1>5. ASSUME NEW b \in C PROVE b \in Log'
    <2>1. PICK i \in S : b = [id |-> i, from |-> Latest(Starts(rows[i])), to |-> t]
      OBVIOUS
    <2>2. Span(rows'[i], Latest(Starts(rows[i])), t)
      OBVIOUS
    <2> QED
      BY <1>2, <2>1, <2>2
  <1> HIDE DEF C
  <1>6. Log' = Log \union C
    BY <1>3, <1>4, <1>5
  <1> QED
    BY <1>6 DEF C

\* The rows in S retire at t, and those in N are new and believed since then.
HandOver(S, N, t) ==
  /\ S \subseteq DOMAIN rows
  /\ DOMAIN rows' = DOMAIN rows \union N /\ \A i \in N : i \notin DOMAIN rows
  /\ \A i \in S : /\ Settled(rows[i], t) /\ rows'[i] \in Row
                  /\ rows'[i].created = rows[i].created
                  /\ rows'[i].intervals = rows[i].intervals /\ rows'[i].retired = t
  /\ \A i \in DOMAIN rows \ S : SameTimes(rows[i], rows'[i])
  /\ \A i \in N : rows'[i].created = t /\ rows'[i].intervals = {} /\ rows'[i].retired = Null

\* What the beliefs are then.
HandedOver(S, N, t) ==
  /\ S \subseteq BelievedRows /\ \A i \in S : BelievedSince[i] < t
  /\ BelievedSince' = [j \in (BelievedRows \ S) \union N |-> IF j \in N THEN t ELSE BelievedSince[j]]
  /\ Log' = Log \union {[id |-> i, from |-> BelievedSince[i], to |-> t] : i \in S}

LEMMA ClosingStep ==
  ASSUME IInv, NEW S, NEW N, NEW t \in Nat, HandOver(S, N, t)
  PROVE  HandedOver(S, N, t)
  <1> USE DEF HandOver, HandedOver
  <1>1. \A i \in DOMAIN rows : rows[i] \in Row /\ BeliefTimeOf(rows[i], now)
    BY DEF IInv, TypeOK, BeliefTime
  <1>2. now \in Nat
    BY DEF IInv, TypeOK
  <1>3. S \subseteq BelievedRows /\ \A i \in S : t # Null
    <2> SUFFICES ASSUME NEW i \in S PROVE i \in BelievedRows /\ t # Null
      OBVIOUS
    <2>1. rows[i].status = "active" /\ rows[i].created < t /\ rows[i].created \in Nat
      BY <1>1 DEF Settled, Row
    <2> QED
      BY <1>1, <2>1 DEF BeliefTimeOf, BelievedRows, Null
  <1>4. \A i \in S : Latest(Starts(rows[i])) < t
    BY <1>1, <1>2, RetireSpans
  <1>5. \A i \in S : BelievedSince[i] = Latest(Starts(rows[i]))
    BY <1>3, SinceFacts
  <1>6. \A i \in DOMAIN rows \ S :
          Starts(rows'[i]) = Starts(rows[i]) /\ \A x, e : Span(rows'[i], x, e) <=> Span(rows[i], x, e)
    BY DEF SameTimes, Starts, Ends, Span
  <1>7. \A i \in N : Starts(rows'[i]) = {t} /\ Ends(rows'[i]) = {}
    BY DEF Starts, Ends
  <1>8. Latest({t}) = t
    BY DEF Latest
  <1>9. Log' = Log \union {[id |-> i, from |-> Latest(Starts(rows[i])), to |-> t] : i \in S}
    <2>1. \A i \in DOMAIN rows : \A x, e :
            Span(rows'[i], x, e) <=>
              Span(rows[i], x, e) \/ (i \in S /\ x = Latest(Starts(rows[i])) /\ e = t)
      <3>1. \A i \in S : \A x, e :
              Span(rows'[i], x, e) <=> Span(rows[i], x, e) \/ (x = Latest(Starts(rows[i])) /\ e = t)
        BY <1>1, <1>2, RetireSpans
      <3> QED
        BY <1>6, <3>1
    <2>2. \A i \in DOMAIN rows' \ DOMAIN rows : \A x, e : ~ Span(rows'[i], x, e)
      BY <1>7 DEF Span
    <2> QED
      BY <2>1, <2>2, LogStep
  <1>10. BelievedRows' = (BelievedRows \ S) \union N
    BY <1>3 DEF BelievedRows, SameTimes
  <1>11. BelievedSince' = [j \in BelievedRows' |-> Latest(Starts(rows'[j]))]
    BY DEF BelievedSince, BelievedRows
  <1>12. \A j \in BelievedRows \ S : Latest(Starts(rows'[j])) = BelievedSince[j] /\ j \notin N
    BY <1>6, SinceFacts DEF BelievedRows
  <1>13. BelievedSince' = [j \in (BelievedRows \ S) \union N |-> IF j \in N THEN t ELSE BelievedSince[j]]
    BY <1>7, <1>8, <1>10, <1>11, <1>12
  <1> QED
    BY <1>3, <1>4, <1>5, <1>9, <1>13

\* What the beliefs are when row i is taken up again at the next tick.
Resumed(i) ==
  /\ i \notin BelievedRows /\ \E b \in Log : b.id = i
  /\ \A b \in Log : b.id = i => b.to < now + 1
  /\ BelievedSince' = [j \in BelievedRows \union {i} |-> IF j = i THEN now + 1 ELSE BelievedSince[j]]
  /\ Log' = Log

LEMMA ResumingStep ==
  ASSUME IInv, NEW i \in DOMAIN rows, rows[i].retired # Null,
         DOMAIN rows' = DOMAIN rows, \A j \in DOMAIN rows \ {i} : SameTimes(rows[j], rows'[j]),
         rows'[i] \in Row, BeliefTimeOf(rows'[i], now + 1),
         rows'[i].created = rows[i].created, rows'[i].retired = Null,
         rows'[i].intervals = rows[i].intervals \union {[from |-> rows[i].retired, to |-> now + 1]}
  PROVE  Resumed(i)
  <1> USE DEF Resumed
  <1>1. rows[i] \in Row /\ BeliefTimeOf(rows[i], now) /\ now \in Nat /\ now + 1 \in Nat /\ now < now + 1
    BY DEF IInv, TypeOK, BeliefTime
  <1>2. i \notin BelievedRows
    BY DEF BelievedRows
  <1>3. /\ Latest(Starts(rows'[i])) = now + 1
        /\ \A x, e : Span(rows'[i], x, e) <=> Span(rows[i], x, e)
    BY <1>1, ResumeSpans
  <1>4. \A j \in DOMAIN rows \ {i} :
          Starts(rows'[j]) = Starts(rows[j]) /\ \A x, e : Span(rows'[j], x, e) <=> Span(rows[j], x, e)
    BY DEF SameTimes, Starts, Ends, Span
  <1>5. Log' = Log
    <2>1. \A j \in DOMAIN rows : \A x, e : Span(rows'[j], x, e) <=> Span(rows[j], x, e)
      BY <1>3, <1>4
    <2>2. PICK S : S = {}
      OBVIOUS
    <2>3. \A j \in DOMAIN rows : \A x, e :
            Span(rows'[j], x, e) <=> Span(rows[j], x, e) \/ (j \in S /\ x = Latest(Starts(rows[j])) /\ e = 0)
      BY <2>1, <2>2
    <2> DEFINE C == {[id |-> j, from |-> Latest(Starts(rows[j])), to |-> 0] : j \in S}
    <2>4. S \subseteq DOMAIN rows /\ DOMAIN rows \subseteq DOMAIN rows'
      BY <2>2
    <2>5. \A j \in DOMAIN rows' \ DOMAIN rows : \A x, e : ~ Span(rows'[j], x, e)
      OBVIOUS
    <2>6. Log' = Log \union C
      BY <2>3, <2>4, <2>5, LogStep
    <2>7. \A c : c \notin C
      BY <2>2
    <2> HIDE DEF C
    <2> QED
      BY <2>6, <2>7
  <1>6. \A b : b \in Log <=>
          \E j \in DOMAIN rows : \E x, e : Span(rows[j], x, e) /\ b = [id |-> j, from |-> x, to |-> e]
    BY ClosedSpans DEF Log, Closed
  <1>7. \E b \in Log : b.id = i
    <2>1. PICK x, e : Span(rows[i], x, e)
      BY <1>1, RetiredSpan
    <2>2. [id |-> i, from |-> x, to |-> e] \in Log
      BY <1>6, <2>1
    <2> QED
      BY <2>2
  <1>8. \A b \in Log : b.id = i => b.to < now + 1
    <2> SUFFICES ASSUME NEW b \in Log, b.id = i PROVE b.to < now + 1
      OBVIOUS
    <2>1. PICK j \in DOMAIN rows : \E x, e : Span(rows[j], x, e) /\ b = [id |-> j, from |-> x, to |-> e]
      BY <1>6
    <2>2. PICK x, e : Span(rows[j], x, e) /\ b = [id |-> j, from |-> x, to |-> e]
      BY <2>1
    <2>3. b.to = e /\ Span(rows[i], x, e)
      BY <2>2
    <2>4. e \in Nat /\ e <= now
      BY <1>1, <2>3, RowTimes DEF Span
    <2> QED
      BY <1>1, <2>3, <2>4
  <1>9. BelievedRows' = BelievedRows \union {i}
    BY DEF BelievedRows, SameTimes
  <1>10. BelievedSince' = [j \in BelievedRows' |-> Latest(Starts(rows'[j]))]
    BY DEF BelievedSince, BelievedRows
  <1>11. \A j \in BelievedRows : Latest(Starts(rows'[j])) = BelievedSince[j] /\ j # i
    BY <1>2, <1>4, SinceFacts DEF BelievedRows
  <1> QED
    BY <1>2, <1>3, <1>5, <1>7, <1>8, <1>9, <1>10, <1>11
-----------------------------------------------------------------------------
(* Instants and ids stay within the number of commands issued *)

\* The transactions that have yet to take an instant and an id.
Working == {p \in Procs : tx[p].pc \in {"lock", "ready"}}

\* Every tick of the clock was made by a command issued, and every id was taken at one.
Budget ==
  /\ IsFiniteSet(Working)
  /\ now + Cardinality(Working) <= begun /\ begun <= MaxTx
  /\ nextId <= now + 1

\* A mark names one row.
MarkOne == \A p \in Procs : tx[p].cmd \in {"mark", "hand"} => \E i : tx[p].group = {i}

LEMMA BudgetFacts ==
  ASSUME IInv, Budget
  PROVE  /\ now \in Nat /\ MaxTx \in Nat /\ now <= MaxTx /\ nextId <= MaxTx + 1
         /\ \A p \in Procs : tx[p].pc \in {"lock", "ready"} => now + 1 <= MaxTx
  <1>1. now \in Nat /\ begun \in Nat /\ nextId \in Nat /\ MaxTx \in Nat
    BY MaxTxAssumption DEF IInv, TypeOK
  <1>2. Cardinality(Working) \in Nat
    BY FS_CardinalityType DEF Budget
  <1>3. ASSUME NEW p \in Procs, tx[p].pc \in {"lock", "ready"} PROVE Cardinality(Working) # 0
    BY <1>3, FS_EmptySet DEF Working, Budget
  <1> QED
    BY <1>1, <1>2, <1>3 DEF Budget

\* A command that is issued adds a transaction to those at work.
LEMMA BudgetIssued ==
  ASSUME IInv, Budget, NEW p \in Procs, IssueLeaves(p)
  PROVE  Budget'
  <1>1. PICK t : AsIssued(t) /\ tx' = [tx EXCEPT ![p] = t]
    BY DEF IssueLeaves
  <1>2. tx \in [Procs -> Tx] /\ now \in Nat /\ begun \in Nat /\ nextId \in Nat /\ MaxTx \in Nat
    BY MaxTxAssumption DEF IInv, TypeOK
  <1>3. Working' = Working \union {p} /\ p \notin Working
    BY <1>1, <1>2 DEF Working, AsIssued, IssueLeaves
  <1>4. IsFiniteSet(Working') /\ Cardinality(Working') = Cardinality(Working) + 1
    BY <1>3, FS_AddElement DEF Budget
  <1>5. Cardinality(Working) \in Nat
    BY FS_CardinalityType DEF Budget
  <1> QED
    BY <1>2, <1>4, <1>5 DEF Budget, IssueLeaves

\* A transaction at work leaves with one tick, or nothing leaves with none.
LEMMA BudgetSpent ==
  ASSUME IInv, Budget, begun' = begun,
         \/ \E p \in Working : Working' = Working \ {p} /\ now' = now + 1 /\ nextId' \in {nextId, nextId + 1}
         \/ Working' \subseteq Working /\ now' = now /\ nextId' = nextId
  PROVE  Budget'
  <1>1. now \in Nat /\ begun \in Nat /\ nextId \in Nat /\ MaxTx \in Nat
    BY MaxTxAssumption DEF IInv, TypeOK
  <1>2. Cardinality(Working) \in Nat
    BY FS_CardinalityType DEF Budget
  <1>3. CASE \E p \in Working : Working' = Working \ {p} /\ now' = now + 1 /\ nextId' \in {nextId, nextId + 1}
    <2>1. PICK p \in Working : Working' = Working \ {p} /\ now' = now + 1 /\ nextId' \in {nextId, nextId + 1}
      BY <1>3
    <2>2. IsFiniteSet(Working') /\ Cardinality(Working') = Cardinality(Working) - 1
      BY <2>1, FS_RemoveElement DEF Budget
    <2> QED
      BY <1>1, <1>2, <2>1, <2>2 DEF Budget
  <1>4. CASE Working' \subseteq Working /\ now' = now /\ nextId' = nextId
    <2>1. IsFiniteSet(Working') /\ Cardinality(Working') <= Cardinality(Working)
      BY <1>4, FS_Subset DEF Budget
    <2>2. Cardinality(Working') \in Nat
      BY <2>1, FS_CardinalityType
    <2> QED
      BY <1>1, <1>2, <1>4, <2>1, <2>2 DEF Budget
  <1> QED
    BY <1>3, <1>4

LEMMA BudgetStep ==
  ASSUME IInv, Budget, MarkOne, [Next]_vars
  PROVE  Budget' /\ MarkOne'
  <1>1. tx \in [Procs -> Tx] /\ begun \in Nat /\ MaxTx \in Nat
    BY MaxTxAssumption DEF IInv, TypeOK
  <1>2. ASSUME NEW p \in Procs, NEW t, tx' = [tx EXCEPT ![p] = t],
               t.cmd \in {"mark", "hand"} => \E i : t.group = {i}
        PROVE  MarkOne'
    BY <1>1, <1>2 DEF MarkOne
  <1>3. ASSUME NEW p \in Procs, Issues(p) PROVE Budget' /\ MarkOne'
    <2>1. IssueLeaves(p)
      BY <1>3, IssueStarts
    <2>2. PICK t : AsIssued(t) /\ tx' = [tx EXCEPT ![p] = t]
      BY <2>1 DEF IssueLeaves
    <2> QED
      BY <1>2, <2>1, <2>2, BudgetIssued DEF AsIssued
  <1>4. ASSUME NEW p \in Procs, End(p)
        PROVE  MarkOne' /\ Working' = Working \ {p}
    <2>1. Idle.cmd = "none" /\ Idle.pc = "idle" /\ tx' = [tx EXCEPT ![p] = Idle]
      BY <1>4 DEF Idle, End
    <2>2. Working' = Working \ {p}
      BY <1>1, <2>1 DEF Working
    <2> QED
      BY <1>2, <2>1, <2>2
  <1>5. ASSUME NEW p \in Procs, NEW i \in tx[p].group, LockRow(p, i) PROVE Budget' /\ MarkOne'
    <2> DEFINE c == IF tx[p].group = tx[p].held \union {i} THEN "ready" ELSE "lock"
               t == [tx[p] EXCEPT !.held = @ \union {i}, !.pc = c]
    <2>1. tx' = [tx EXCEPT ![p] = t] /\ now' = now /\ nextId' = nextId /\ begun' = begun
      BY <1>1, <1>5 DEF LockRow
    <2>2. c \in {"lock", "ready"}
      OBVIOUS
    <2> HIDE DEF c
    <2>3. t.pc = c /\ t.cmd = tx[p].cmd /\ t.group = tx[p].group
      BY <1>1 DEF Tx
    <2> HIDE DEF t
    <2>4. Working' = Working
      BY <1>1, <1>5, <2>1, <2>2, <2>3 DEF Working, LockRow
    <2>5. Budget'
      BY <2>1, <2>4, BudgetSpent
    <2> QED
      BY <1>2, <2>1, <2>3, <2>5 DEF MarkOne
  <1>6. ASSUME NEW p \in Procs, Learn(p) PROVE Budget' /\ MarkOne'
    <2>1. /\ tx' = [tx EXCEPT ![p] = Learned(tx[p], nextId, now + 1)] /\ tx[p].pc = "ready"
          /\ now' = now + 1 /\ nextId' = nextId + 1 /\ begun' = begun
      BY <1>6 DEF Learn
    <2>2. PICK t : t = Learned(tx[p], nextId, now + 1)
      OBVIOUS
    <2>3. t.pc = "learned" /\ t.cmd = tx[p].cmd /\ t.group = tx[p].group
      BY <1>1, <2>2 DEF Learned, Tx
    <2>4. Working' = Working \ {p} /\ p \in Working
      BY <1>1, <2>1, <2>2, <2>3 DEF Working
    <2>5. Budget'
      BY <2>1, <2>4, BudgetSpent
    <2> QED
      BY <1>2, <2>1, <2>2, <2>3, <2>5 DEF MarkOne
  <1>7. ASSUME NEW p \in Procs, CommitPick(p) \/ CommitMark(p) PROVE Budget' /\ MarkOne'
    <2>1. /\ End(p) /\ tx[p].pc = "ready" /\ now' = now + 1 /\ nextId' = nextId /\ begun' = begun
      BY <1>7 DEF CommitPick, CommitMark
    <2>2. p \in Working
      BY <2>1 DEF Working
    <2> QED
      BY <1>4, <2>1, <2>2, BudgetSpent
  <1>8. ASSUME NEW p \in Procs, Refuse(p) \/ CommitInsert(p) \/ Abort(p) PROVE Budget' /\ MarkOne'
    <2>1. End(p) /\ now' = now /\ nextId' = nextId /\ begun' = begun
      BY <1>8 DEF Refuse, CommitInsert, Abort
    <2> QED
      BY <1>4, <2>1, BudgetSpent
  <1>9. CASE UNCHANGED <<tx, now, nextId>> /\ begun' \in Nat /\ begun <= begun' /\ begun' <= MaxTx
    <2>1. Working' = Working
      BY <1>9 DEF Working
    <2>2. Cardinality(Working) \in Nat /\ now \in Nat
      BY FS_CardinalityType DEF Budget, IInv, TypeOK
    <2>3. nextId' = nextId /\ now' = now /\ begun' \in Nat /\ begun <= begun' /\ begun' <= MaxTx
      BY <1>9
    <2>4. Budget'
      BY <1>1, <2>1, <2>2, <2>3 DEF Budget
    <2>5. MarkOne'
      BY <1>9 DEF MarkOne
    <2> QED
      BY <2>4, <2>5
  <1>10. ASSUME Reviews
         PROVE  UNCHANGED <<tx, now, nextId>> /\ begun' \in Nat /\ begun <= begun' /\ begun' <= MaxTx
    <2>1. PICK a \in Authors :
            \/ \E act, G, w : ReviewAdd(a, act, G, w)
            \/ \E r : ApproveRefused(a, r) \/ ReviewReject(a, r)
      BY <1>10 DEF Reviews
    <2>2. UNCHANGED <<tx, now, nextId>> /\ begun' = begun + 1 /\ begun < MaxTx
      BY <2>1 DEF ReviewAdd, ApproveRefused, ReviewReject
    <2> QED
      BY <1>1, <2>2
  <1>11. CASE UNCHANGED vars
    <2>1. begun <= MaxTx
      BY DEF Budget
    <2> QED
      BY <1>1, <1>9, <1>11, <2>1 DEF vars
  <1>12. ASSUME NEW p \in Procs, Step(p) PROVE Budget' /\ MarkOne'
    BY <1>5, <1>6, <1>7, <1>8, <1>12 DEF Step
  <1> QED
    BY <1>3, <1>8, <1>9, <1>10, <1>11, <1>12 DEF Next, Quiet
-----------------------------------------------------------------------------
(* The refinement *)

\* What the belief log knows of has a row.
LEMMA KnownRows == Beliefs!Known \subseteq DOMAIN rows
  <1>1. \A b : b \in Log <=>
          \E i \in DOMAIN rows : \E x, e : Span(rows[i], x, e) /\ b = [id |-> i, from |-> x, to |-> e]
    BY ClosedSpans DEF Log, Closed
  <1>2. \A b \in Log : b.id \in DOMAIN rows
    BY <1>1
  <1> QED
    BY <1>2, SinceFacts DEF Beliefs!Known, Beliefs!Believed, Log, BelievedRows

\* A commit that inserts a row: it takes over from those it retires, at its created_at.
LEMMA TakeOverStep ==
  ASSUME IInv, Budget, NEW p \in Procs, CommitInsert(p)
  PROVE  Beliefs!BeliefLogNext
  <1> DEFINE t == tx[p].at
             n == tx[p].id
             S == Retires(p)
             N == {n}
  <1>1. /\ tx[p].pc = "learned" /\ t \in 1..MaxTx /\ n \in 1..MaxTx /\ n \notin DOMAIN rows
        /\ \A i \in S : Settled(rows[i], t)
    BY BudgetFacts DEF CommitInsert, IInv, TypeOK, Tx, InFlightOK
  <1>2. S \subseteq DOMAIN rows
    BY <1>1, RetiresHeld
  <1>3. rows' = [i \in DOMAIN rows \union N |->
                   IF i = n THEN NewRow(p) ELSE IF i \in S THEN Supersede(rows[i], t) ELSE rows[i]]
    BY DEF CommitInsert
  <1>4. NewRow(p).created = t /\ NewRow(p).intervals = {} /\ NewRow(p).retired = Null
    BY DEF NewRow
  <1> HIDE DEF S, t, n
  <1>5. /\ DOMAIN rows' = DOMAIN rows \union N
        /\ \A i \in N : i \notin DOMAIN rows /\ rows'[i] = NewRow(p)
        /\ \A i \in DOMAIN rows : rows'[i] = IF i \in S THEN Supersede(rows[i], t) ELSE rows[i]
    BY <1>1, <1>3
  <1> HIDE DEF N
  <1>6. \A i \in DOMAIN rows \ S : SameTimes(rows[i], rows'[i])
    BY <1>5 DEF SameTimes
  <1>7. \A i \in S : /\ Settled(rows[i], t) /\ rows'[i] \in Row
                     /\ rows'[i].created = rows[i].created
                     /\ rows'[i].intervals = rows[i].intervals /\ rows'[i].retired = t
    BY <1>1, <1>2, <1>5, SupersededTimes DEF IInv, TypeOK
  <1>8. \A i \in N : rows'[i].created = t /\ rows'[i].intervals = {} /\ rows'[i].retired = Null
    BY <1>4, <1>5
  <1>9. HandedOver(S, N, t)
    <2>1. t \in Nat
      BY <1>1, BudgetFacts
    <2>2. DOMAIN rows' = DOMAIN rows \union N /\ \A i \in N : i \notin DOMAIN rows
      BY <1>5
    <2>3. HandOver(S, N, t)
      BY <1>2, <1>6, <1>7, <1>8, <2>2 DEF HandOver
    <2> QED
      BY <2>1, <2>3, ClosingStep
  <1>10. Beliefs!TakeOver(n, t, S)
    <2>1. n \notin Beliefs!Known
      BY <1>1, KnownRows
    <2>2. BelievedSince' = [j \in (BelievedRows \ S) \union {n} |-> IF j = n THEN t ELSE BelievedSince[j]]
      BY <1>9 DEF N, HandedOver
    <2> QED
      BY <1>9, <2>1, <2>2, SinceFacts DEF HandedOver, Beliefs!TakeOver, Beliefs!Believed, Beliefs!Closing, Log
  <1>11. S \in SUBSET Beliefs!Believed
    BY <1>9, SinceFacts DEF HandedOver, Beliefs!Believed
  <1> QED
    BY <1>1, <1>10, <1>11 DEF Beliefs!BeliefLogNext

\* Rows in S that retire at t without a successor.
LEMMA RetireOnly ==
  ASSUME IInv, NEW S, NEW t \in 1..MaxTx, NEW N, N = {}, HandOver(S, N, t)
  PROVE  Beliefs!BeliefLogNext
  <1>1. HandedOver(S, N, t)
    BY ClosingStep, MaxTxAssumption
  <1>2. Beliefs!Retire(S, t)
    <2>1. BelievedSince' = [j \in BelievedRows \ S |-> BelievedSince[j]]
      BY <1>1 DEF HandedOver
    <2> QED
      BY <1>1, <2>1, SinceFacts DEF HandedOver, Beliefs!Retire, Beliefs!Believed, Beliefs!Closing, Log
  <1>3. S \in SUBSET Beliefs!Believed
    BY <1>1, SinceFacts DEF HandedOver, Beliefs!Believed
  <1> QED
    BY <1>2, <1>3 DEF Beliefs!BeliefLogNext

\* A supersede verdict retires the losers now.
LEMMA RetireStep ==
  ASSUME IInv, Budget, NEW p \in Procs, CommitPick(p)
  PROVE  Beliefs!BeliefLogNext
  <1> DEFINE t == now + 1
             S == Retires(p)
  <1>1. /\ tx[p].pc = "ready" /\ t \in 1..MaxTx /\ now \in Nat
    BY BudgetFacts DEF CommitPick
  <1>2. S \subseteq DOMAIN rows
    BY <1>1, RetiresHeld
  <1>3. \A i \in S : Settled(rows[i], t)
    <2> SUFFICES ASSUME NEW i \in S PROVE Settled(rows[i], t)
      OBVIOUS
    <2>1. i \in DOMAIN rows /\ rows[i].status = "active"
      BY <1>2 DEF Retires, CommitPick, Confirmed, Active
    <2>2. rows[i] \in Row /\ BeliefTimeOf(rows[i], now)
      BY <2>1 DEF IInv, TypeOK, BeliefTime
    <2> QED
      BY <1>1, <2>1, <2>2 DEF Settled, BeliefTimeOf, Row, Interval
  <1>4. rows' = [i \in DOMAIN rows |-> IF i \in S THEN Supersede(rows[i], t) ELSE rows[i]]
    BY DEF CommitPick
  <1> HIDE DEF S, t
  <1>5. /\ DOMAIN rows' = DOMAIN rows
        /\ \A i \in DOMAIN rows : rows'[i] = IF i \in S THEN Supersede(rows[i], t) ELSE rows[i]
    BY <1>4
  <1>6. \A i \in DOMAIN rows \ S : SameTimes(rows[i], rows'[i])
    BY <1>5 DEF SameTimes
  <1>7. \A i \in S : /\ Settled(rows[i], t) /\ rows'[i] \in Row
                     /\ rows'[i].created = rows[i].created
                     /\ rows'[i].intervals = rows[i].intervals /\ rows'[i].retired = t
    BY <1>1, <1>2, <1>3, <1>5, SupersededTimes DEF IInv, TypeOK
  <1>8. PICK N : N = {}
    OBVIOUS
  <1>9. HandOver(S, N, t)
    BY <1>2, <1>5, <1>6, <1>7, <1>8 DEF HandOver
  <1> QED
    BY <1>1, <1>8, <1>9, RetireOnly

\* Rows whose belief time is as it was leave the beliefs as they were.
LEMMA TimesKept ==
  ASSUME DOMAIN rows' = DOMAIN rows, \A i \in DOMAIN rows : SameTimes(rows[i], rows'[i])
  PROVE  UNCHANGED Beliefs!beliefVars
  <1>1. \A i \in DOMAIN rows : /\ Starts(rows'[i]) = Starts(rows[i]) /\ Ends(rows'[i]) = Ends(rows[i])
                               /\ rows'[i].retired = rows[i].retired
    BY DEF SameTimes, Starts, Ends
  <1>2. BelievedSince' = BelievedSince
    BY <1>1 DEF BelievedSince
  <1>3. \A i \in DOMAIN rows : Spans(rows'[i]) = Spans(rows[i])
    BY <1>1 DEF Spans
  <1>4. Log' = Log
    BY <1>3 DEF Log, Closed
  <1> QED
    BY <1>2, <1>4 DEF Beliefs!beliefVars, Log

\* A mark, or an UPDATE by hand, ends a belief, takes one up again, or leaves belief time alone.
LEMMA MarkStep ==
  ASSUME IInv, Budget, MarkOne, NEW p \in Procs, CommitMark(p)
  PROVE  Beliefs!BeliefLogNext \/ UNCHANGED Beliefs!beliefVars
  <1> DEFINE t == now + 1
             st == tx[p].to
  <1>1. /\ tx[p].pc = "ready" /\ t \in 1..MaxTx /\ now \in Nat /\ st \in Statuses
    BY BudgetFacts DEF CommitMark, IInv, TypeOK, Tx
  <1>2. PICK i : tx[p].group = {i}
    BY DEF CommitMark, MarkOne
  <1>3. i \in DOMAIN rows /\ i \in 1..MaxTx
    BY <1>2, BudgetFacts DEF IInv, LocksOK, IdsOK, TypeOK
  <1>4. rows[i] \in Row /\ BeliefTimeOf(rows[i], now)
    BY <1>3 DEF IInv, TypeOK, BeliefTime
  <1>5. /\ DOMAIN rows' = DOMAIN rows
        /\ \A j \in DOMAIN rows \ {i} : rows'[j] = rows[j]
        /\ rows'[i] = Mark(rows[i], st, t)
    BY <1>1, <1>2, <1>3, <1>4, HandUpdateRow DEF CommitMark
  <1>6. rows'[i] \in Row /\ BeliefTimeOf(rows'[i], t) /\ rows'[i].created = rows[i].created
    BY <1>1, <1>4, <1>5, MarkRow
  <1>7. \/ rows'[i].intervals = rows[i].intervals /\ rows'[i].retired = rows[i].retired
        \/ rows[i].retired = Null /\ rows'[i].intervals = rows[i].intervals /\ rows'[i].retired = t
        \/ /\ rows[i].retired # Null /\ rows'[i].retired = Null
           /\ rows'[i].intervals = rows[i].intervals \union {[from |-> rows[i].retired, to |-> t]}
    BY <1>1, <1>4, <1>5, MarkCases
  <1>8. \A j \in DOMAIN rows \ {i} : SameTimes(rows[j], rows'[j])
    BY <1>5 DEF SameTimes
  <1>9. CASE rows'[i].intervals = rows[i].intervals /\ rows'[i].retired = rows[i].retired
    <2>1. \A j \in DOMAIN rows : SameTimes(rows[j], rows'[j])
      BY <1>6, <1>8, <1>9 DEF SameTimes
    <2> QED
      BY <1>5, <2>1, TimesKept
  <1>10. CASE rows[i].retired = Null /\ rows'[i].intervals = rows[i].intervals /\ rows'[i].retired = t
    <2>1. Settled(rows[i], t)
      BY <1>1, <1>4, <1>10 DEF Settled, BeliefTimeOf, Row, Interval
    <2>2. PICK N : N = {}
      OBVIOUS
    <2>3. HandOver({i}, N, t)
      BY <1>3, <1>5, <1>6, <1>8, <1>10, <2>1, <2>2 DEF HandOver
    <2> QED
      BY <1>1, <2>2, <2>3, RetireOnly
  <1>11. CASE /\ rows[i].retired # Null /\ rows'[i].retired = Null
              /\ rows'[i].intervals = rows[i].intervals \union {[from |-> rows[i].retired, to |-> t]}
    <2>1. Resumed(i)
      BY <1>3, <1>5, <1>6, <1>8, <1>11, ResumingStep
    <2>2. Beliefs!Resume(i, t)
      BY <2>1, SinceFacts DEF Resumed, Beliefs!Resume, Beliefs!Known, Beliefs!Believed, Log
    <2> QED
      BY <1>1, <1>3, <2>2 DEF Beliefs!BeliefLogNext
  <1> QED
    BY <1>7, <1>9, <1>10, <1>11

\* The store is a belief log: beliefs hand over at one instant, and closed ones are never edited.
THEOREM ImplementsBeliefLogCorrect == Spec => ImplementsBeliefLog
  <1>1. Init => Beliefs!BeliefLogInit /\ Budget /\ MarkOne
    <2> SUFFICES ASSUME Init PROVE Beliefs!BeliefLogInit /\ Budget /\ MarkOne
      OBVIOUS
    <2>1. DOMAIN rows = {}
      BY DEF Init
    <2>2. BelievedSince = [i \in {} |-> 0] /\ Log = {}
      BY <2>1 DEF BelievedSince, Log
    <2>3. \A p \in Procs : tx[p].pc = "idle" /\ tx[p].cmd = "none"
      BY DEF Init, Idle
    <2>4. Working = {} /\ MarkOne
      BY <2>3 DEF Working, MarkOne
    <2>5. Budget
      BY <2>4, FS_EmptySet, MaxTxAssumption DEF Budget, Init
    <2> QED
      BY <2>2, <2>4, <2>5 DEF Beliefs!BeliefLogInit, Log
  <1>2. IInv /\ Budget /\ MarkOne /\ [Next]_vars => [Beliefs!BeliefLogNext]_(Beliefs!beliefVars)
    <2> SUFFICES ASSUME IInv, Budget, MarkOne, [Next]_vars
                 PROVE  Beliefs!BeliefLogNext \/ UNCHANGED Beliefs!beliefVars
      OBVIOUS
    <2>1. CASE rows' = rows
      <3>1. DOMAIN rows' = DOMAIN rows /\ \A i \in DOMAIN rows : SameTimes(rows[i], rows'[i])
        BY <2>1 DEF SameTimes
      <3> QED
        BY <3>1, TimesKept
    <2> QED
      BY <2>1, OnlyCommitsWrite, TakeOverStep, RetireStep, MarkStep
  <1>3. IInv /\ Budget /\ MarkOne /\ [Next]_vars => (Budget /\ MarkOne)'
    BY BudgetStep
  <1> QED
    BY <1>1, <1>2, <1>3, SpecInv, PTL DEF Spec, ImplementsBeliefLog, Beliefs!BeliefLogSpec
=============================================================================
