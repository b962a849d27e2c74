-------------------------------- MODULE Store --------------------------------
(***************************************************************************)
(* The memory store with the locks below and beside its rows: MemoryStore  *)
(* (whose names this module has) says what its commands do to the rows,    *)
(* StoreLocks in which order they wait for one another.                    *)
(***************************************************************************)
EXTENDS MemoryStoreBeliefs

\* The constants and variables of StoreLocks.
CONSTANTS Parties, Issued, Endpoints, Self
VARIABLES doing, todo, held

L == INSTANCE StoreLocks WITH Procs <- Parties, Commands <- Issued

\* Rows and entities have numbers (BIGINT keys), an author an entity of its own; a mark names
\* one row, and a supersede too; a group is two rows or more (_apply), and pages come newest first.
ASSUME CommandAssumption ==
  /\ DOMAIN Endpoints \subseteq Nat
  /\ \A a \in DOMAIN Self : Self[a] \in Nat \ {0}
  /\ \A e \in {Endpoints[r] : r \in DOMAIN Endpoints} : e \in (Nat \ {0}) \X (Nat \ {0})
  /\ \A c \in Issued :
       /\ c.by \in DOMAIN Self /\ c.observer \in Nat /\ c.observed \in Nat
       /\ c.rows \in Seq(DOMAIN Endpoints) /\ c.evidence \in Seq(DOMAIN Endpoints)
       /\ c.cmd \in {"write", "supersede", "mark", "verdict", "merge", "page", "recall"}
       /\ c.cmd = "write" => c.rows = <<>>
       /\ c.cmd \in {"supersede", "mark"} => Len(c.rows) = 1
       /\ c.cmd \in {"verdict", "merge"} => Len(c.rows) >= 2
       /\ c.cmd = "page" => \A i, j \in DOMAIN c.rows : i < j => c.rows[i] > c.rows[j]

\* An entity has one author (mem_entities_author_id_idx): the commands of two authors refresh no
\* card in common.
ASSUME EntityAssumption ==
  \A c, d \in Issued : \A s \in L!Locks(c), t \in L!Locks(d) :
    \A k \in s, l \in t : k.kind = "card" /\ l.kind = "card" /\ k.id = l.id => c.by = d.by
-----------------------------------------------------------------------------
\* Transactions that edit rows never wait for one another's rows in a circle; beside and below the
\* rows, and for the rows a recall notes, they do only where StoreLocks says so.
DeadlocksAreKnown == NoLockCycle /\ L!DeadlocksAreKnown
=============================================================================
