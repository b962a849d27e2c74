---------------------------- MODULE StoreCommands ----------------------------
(***************************************************************************)
(* Commands that meet at the locks of the store: two authors, rows whose   *)
(* perspectives overlap, and one command of each kind that can meet        *)
(* another of them.                                                        *)
(***************************************************************************)
EXTENDS Naturals, Sequences

CONSTANTS ann, bob

\* Entities 1 (ann), 2 and 3 are ann's, 4 is bob himself; rows 5 and 6 are pages.
OwnEntities == [a \in {ann, bob} |-> IF a = ann THEN 1 ELSE 4]
\* Row 4 is bob's.
RowEnds == <<<<1, 2>>, <<3, 1>>, <<3, 2>>, <<4, 4>>, <<1, 1>>, <<1, 1>>>>

Command(cmd, by, rows, observer, observed, evidence) ==
  [cmd |-> cmd, by |-> by, rows |-> rows, observer |-> observer, observed |-> observed,
   evidence |-> evidence]

Swapped ==
  {Command("write", ann, <<>>, 2, 3, <<>>), Command("write", ann, <<>>, 3, 2, <<>>)}

Everything ==
  Swapped \union
  {Command("write", ann, <<>>, 0, 0, <<4>>),
   Command("write", ann, <<>>, 2, 2, <<4>>),
   Command("write", ann, <<>>, 3, 3, <<4>>),
   Command("write", bob, <<>>, 0, 0, <<1>>),
   Command("supersede", ann, <<1>>, 0, 3, <<>>),
   Command("mark", ann, <<1>>, 0, 0, <<>>),
   Command("mark", ann, <<3>>, 0, 0, <<>>),
   Command("mark", ann, <<2>>, 0, 0, <<>>),
   Command("verdict", ann, <<3, 1, 2>>, 0, 0, <<>>),
   Command("verdict", ann, <<1, 2, 3>>, 0, 0, <<>>),
   Command("merge", ann, <<2, 1>>, 0, 0, <<>>),
   Command("page", ann, <<6, 5>>, 0, 0, <<1>>),
   Command("recall", bob, <<1, 2>>, 0, 0, <<>>)}
=============================================================================
