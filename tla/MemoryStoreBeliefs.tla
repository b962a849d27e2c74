------------------------- MODULE MemoryStoreBeliefs -------------------------
(***************************************************************************)
(* The memory store implements BeliefLog: the stored columns of a row      *)
(* (created_at, retired_at, retired_intervals) encode exactly the periods  *)
(* in which it was believed, and every transaction changes them in one of  *)
(* BeliefLog's three ways or not at all.                                   *)
(***************************************************************************)
EXTENDS MemoryStore

Starts(r) == {r.created} \union {iv.to : iv \in r.intervals}

Ends(r) == {iv.from : iv \in r.intervals} \union ({r.retired} \ {Null})

Latest(S) == CHOOSE t \in S : \A u \in S : u <= t

\* The closed periods of a row: from each start to the first end after it.
Spans(r) ==
  {se \in Starts(r) \X Ends(r) :
     /\ se[1] < se[2]
     /\ \A f \in Ends(r) : f <= se[1] \/ f >= se[2]}

Closed(i) == {[id |-> i, from |-> se[1], to |-> se[2]] : se \in Spans(rows[i])}

BelievedSince ==
  [i \in {j \in DOMAIN rows : rows[j].retired = Null} |-> Latest(Starts(rows[i]))]

Beliefs == INSTANCE BeliefLog WITH
  since <- BelievedSince,
  log <- UNION {Closed(i) : i \in DOMAIN rows},
  Instants <- 1..MaxTx,
  Facts <- 1..MaxTx

\* Every behaviour of the store is a behaviour of the abstract belief log: beliefs
\* hand over at one instant, closed beliefs are never edited or forgotten.
ImplementsBeliefLog == Beliefs!BeliefLogSpec
=============================================================================
