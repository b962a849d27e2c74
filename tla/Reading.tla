------------------------------- MODULE Reading -------------------------------
(***************************************************************************)
(* From the text the store's command printed to the figures on the screen: *)
(* the JSON scanner and parse in console/src/lib.rs.                       *)
(*                                                                         *)
(* First a text is scanned, token by token (strings and numbers are        *)
(* tokens, white space is none); the scanner is its stack of open values   *)
(* and what it expects next.  Then the value is read, field by field: what *)
(* a field may hold is one of a few kinds, of which only a count is a      *)
(* figure.  Numbers have the width MaxCount (i64::MAX).                    *)
(***************************************************************************)
EXTENDS Integers, Sequences, FiniteSets, SequencesExt

CONSTANTS Keys,      \* strings, which may stand as a key or as a value
          MaxDepth,  \* MAX_DEPTH
          MaxCount,  \* i64::MAX
          Models,    \* names of embedding models
          MaxLength, \* bound: tokens of a text
          MaxRows    \* bound: rows of embedding_models

VARIABLES text, stack, at, answer, shown

vars == <<text, stack, at, answer, shown>>

Number == "0"
NoCount == -1    \* missing, not a number, not a whole one, out of range, or negative
Tokens == {"{", "}", "[", "]", ",", ":", Number} \union Keys
Object(keys) == [in |-> "object", keys |-> keys]
Array == [in |-> "array", keys |-> {}]
NoAnswer == [count |-> NoCount, rows |-> <<>>]
Nothing == [ok |-> FALSE, count |-> 0, unset |-> 0, models |-> [m \in {} |-> 0]]

Init == text = <<>> /\ stack = <<>> /\ at = "value" /\ answer = NoAnswer /\ shown = Nothing
-----------------------------------------------------------------------------
(* Scanner: value, object and array, one token at a time. *)

\* A value has ended.
Closed(rest) == stack' = rest /\ at' = IF rest = <<>> THEN "end" ELSE "after"
Wrong == stack' = <<>> /\ at' = "error"

Value(t) ==
  CASE Len(stack) > MaxDepth -> Wrong
    [] Len(stack) <= MaxDepth /\ t = "{" -> stack' = <<Object({})>> \o stack /\ at' = "firstKey"
    [] Len(stack) <= MaxDepth /\ t = "[" -> stack' = <<Array>> \o stack /\ at' = "firstValue"
    [] Len(stack) <= MaxDepth /\ t \in Keys \union {Number} -> Closed(stack)
    [] OTHER -> Wrong

\* Mutant of Key: the later of two values of one key counts.
KeyAgain(t) ==
  IF t \in Keys
  THEN stack' = <<Object(Head(stack).keys \union {t})>> \o Tail(stack) /\ at' = "colon"
  ELSE Wrong

Key(t) ==
  IF t \in Keys \ Head(stack).keys
  THEN stack' = <<Object(Head(stack).keys \union {t})>> \o Tail(stack) /\ at' = "colon"
  ELSE Wrong

After(t) ==
  LET object == Head(stack).in = "object" IN
  CASE t = "," -> UNCHANGED stack /\ at' = IF object THEN "key" ELSE "value"
    [] t = (IF object THEN "}" ELSE "]") -> Closed(Tail(stack))
    [] OTHER -> Wrong

Scan(t) ==
  /\ at \notin {"error", "parse", "done"} /\ Len(text) < MaxLength
  /\ text' = Append(text, t)
  /\ CASE at = "value" -> Value(t)
       [] at = "firstValue" -> IF t = "]" THEN Closed(Tail(stack)) ELSE Value(t)
       [] at = "firstKey" -> IF t = "}" THEN Closed(Tail(stack)) ELSE Key(t)
       [] at = "key" -> Key(t)
       [] at = "colon" -> IF t = ":" THEN UNCHANGED stack /\ at' = "value" ELSE Wrong
       [] at = "after" -> After(t)
       [] at = "end" -> Wrong
  /\ UNCHANGED <<answer, shown>>
-----------------------------------------------------------------------------
(* parse, over an answer of one count and the list embedding_models. *)

Fields == NoCount..MaxCount
Null == "null"

\* A whole value, of whatever shape.
Arrives ==
  /\ at = "end"
  /\ \E c \in Fields, n \in 0..MaxRows :
     \E rows \in [1..n -> [model : Models \union {Null, "missing"}, n : Fields]] :
       answer' = [count |-> c, rows |-> rows]
  /\ text' = <<>> /\ at' = "parse"
  /\ UNCHANGED <<stack, shown>>

\* Mutant of Row: of two rows of one model the last one counts.
RowLast(s, r) ==
  CASE ~s.ok \/ r.n = NoCount \/ r.model = "missing" -> Nothing
    [] OTHER -> IF r.model = Null
                THEN IF s.unset + r.n > MaxCount THEN Nothing ELSE [s EXCEPT !.unset = @ + r.n]
                ELSE [s EXCEPT !.models = [m \in DOMAIN @ \union {r.model} |-> IF m = r.model THEN r.n ELSE @[m]]]

\* One row at a time: a bucket without a model adds up, checked; a model is named once.
Row(s, r) ==
  CASE ~s.ok \/ r.n = NoCount \/ r.model = "missing" -> Nothing
    [] OTHER -> IF r.model = Null
                THEN IF s.unset + r.n > MaxCount THEN Nothing ELSE [s EXCEPT !.unset = @ + r.n]
                ELSE IF r.model \in DOMAIN s.models THEN Nothing
                ELSE [s EXCEPT !.models = [m \in DOMAIN @ \union {r.model} |-> IF m = r.model THEN r.n ELSE @[m]]]

Parse ==
  /\ at = "parse"
  /\ shown' = IF answer.count = NoCount THEN Nothing
              ELSE LET read[i \in 0..Len(answer.rows)] ==
                         IF i = 0 THEN [Nothing EXCEPT !.ok = TRUE, !.count = answer.count]
                         ELSE Row(read[i - 1], answer.rows[i])
                   IN read[Len(answer.rows)]
  /\ at' = "done"
  /\ UNCHANGED <<text, stack, answer>>

Next == (\E t \in Tokens : Scan(t)) \/ Arrives \/ Parse
Spec == Init /\ [][Next]_vars
-----------------------------------------------------------------------------
(* For reference: the values JSON has, nested at most d deep below the top. *)

Fits(texts) == {t \in texts : Len(t) <= MaxLength}

\* One value of vs, or several with commas between them.
Elements(vs) ==
  LET atMost[n \in Nat] ==
        IF n = 0 THEN vs
        ELSE LET es == atMost[n - 1] IN es \union Fits({e \o <<",">> \o v : e \in es, v \in vs})
  IN  atMost[MaxLength \div 2]

\* One member, or several, none with the key of another.
Members(vs) ==
  LET one == {[keys |-> {k}, text |-> <<k, ":">> \o v] : k \in Keys, v \in vs}
      Both(m, o) == [keys |-> m.keys \union o.keys, text |-> m.text \o <<",">> \o o.text]
      atMost[n \in Nat] ==
        IF n = 1 THEN one
        ELSE LET ms == atMost[n - 1]
             IN  ms \union UNION {{Both(m, o) : o \in {x \in one : x.keys \cap m.keys = {}}} : m \in ms}
  IN  Fits({m.text : m \in atMost[Cardinality(Keys)]})

Values[d \in Nat] ==
  {<<k>> : k \in Keys \union {Number}} \union {<<"[", "]">>, <<"{", "}">>} \union
  IF d = 0 THEN {}
  ELSE LET vs == Values[d - 1]
       IN  {<<"[">> \o e \o <<"]">> : e \in Elements(vs)} \union {<<"{">> \o m \o <<"}">> : m \in Members(vs)}

Json == Fits(Values[MaxDepth])
-----------------------------------------------------------------------------
TypeOK ==
  /\ at \in {"value", "firstValue", "firstKey", "key", "colon", "after", "end", "error", "parse", "done"}
  /\ Len(stack) <= MaxDepth + 1

\* A text is taken exactly if it is one JSON value, without a repeated key and not too deep; it is
\* refused at the first token after which it cannot become one.
TakesJson ==
  /\ at = "end" => text \in Json
  /\ at = "error" => \A v \in Json : ~IsPrefix(text, v)

\* The chunks without a model that the first rows of the answer count, one by one.
Unset(rows) ==
  {c \in (1..rows) \X (1..MaxCount) : answer.rows[c[1]].model = Null /\ c[2] <= answer.rows[c[1]].n}

\* Nothing is missing from the first rows of the answer, none names a model twice, and their
\* chunks without a model can be counted.
Readable(rows) ==
  /\ answer.count # NoCount
  /\ \A i \in 1..rows : answer.rows[i].n # NoCount /\ answer.rows[i].model # "missing"
  /\ \A i, j \in 1..rows : i # j => answer.rows[i].model = Null \/ answer.rows[i].model # answer.rows[j].model
  /\ Cardinality(Unset(rows)) <= MaxCount

\* The figures of the first rows of the answer.
Figures(s, rows) ==
  /\ s.count = answer.count /\ s.unset = Cardinality(Unset(rows))
  /\ DOMAIN s.models = {answer.rows[i].model : i \in 1..rows} \ {Null}
  /\ \A i \in 1..rows : answer.rows[i].model # Null => s.models[answer.rows[i].model] = answer.rows[i].n

\* What is shown is what the answer holds, all of it or nothing: no figure stands for one that is
\* absent, no two rows are merged, and a sum is the sum.
ShownIsTheAnswer ==
  at = "done" => /\ shown.ok <=> Readable(Len(answer.rows))
                 /\ shown.ok => Figures(shown, Len(answer.rows))
=============================================================================
