------------------------------ MODULE BeliefLog ------------------------------
(***************************************************************************)
(* What the memory store promises about belief, with no rows, locks or     *)
(* transactions: a set of facts believed now, each since an instant, and a *)
(* log of closed beliefs that only grows.  A fact takes over from others   *)
(* at one instant; a belief that ends has lasted; a fact that is believed  *)
(* again starts a new period after all its earlier ones.                   *)
(***************************************************************************)
EXTENDS Naturals

CONSTANTS Instants,   \* instants of belief time
          Facts       \* ids of facts

VARIABLES since,   \* the facts believed now, each with the start of its belief
          log      \* closed beliefs: [id, from, to]

beliefVars == <<since, log>>

BeliefLogInit ==
  /\ since = [i \in {} |-> 0]
  /\ log = {}

Believed == DOMAIN since

Known == Believed \union {b.id : b \in log}

\* The beliefs in S end at t.
Closing(S, t) == {[id |-> i, from |-> since[i], to |-> t] : i \in S}

\* A new fact is learned at t and the facts in S stop being believed then.
TakeOver(i, t, S) ==
  /\ i \notin Known
  /\ S \subseteq Believed
  /\ \A s \in S : since[s] < t
  /\ since' = [j \in (Believed \ S) \union {i} |-> IF j = i THEN t ELSE since[j]]
  /\ log' = log \union Closing(S, t)

\* The facts in S stop being believed at t.
Retire(S, t) ==
  /\ S \subseteq Believed
  /\ \A s \in S : since[s] < t
  /\ since' = [j \in Believed \ S |-> since[j]]
  /\ log' = log \union Closing(S, t)

\* A fact retired earlier is believed again from t on.
Resume(i, t) ==
  /\ i \in Known \ Believed
  /\ \A b \in log : b.id = i => b.to < t
  /\ since' = [j \in Believed \union {i} |-> IF j = i THEN t ELSE since[j]]
  /\ UNCHANGED log

BeliefLogNext ==
  \E t \in Instants :
    \/ \E i \in Facts, S \in SUBSET Believed : TakeOver(i, t, S)
    \/ \E S \in SUBSET Believed : Retire(S, t)
    \/ \E i \in Facts : Resume(i, t)

BeliefLogSpec == BeliefLogInit /\ [][BeliefLogNext]_beliefVars
=============================================================================
