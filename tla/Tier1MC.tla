------------------------------ MODULE Tier1MC ------------------------------
(***************************************************************************)
(* What lies behind a question for the rules of some paths: the map of     *)
(* components, read from the store and kept for a while; the path, found   *)
(* in the repository; the rules its components bring.  A behaviour draws   *)
(* one of the three and keeps to it.                                       *)
(*                                                                         *)
(* Two threads share the map; its ttl is two ticks, a query lasts one.     *)
(* Trees hold two names, one of them in two spellings, links in the root   *)
(* and below it, to directories, each other and themselves.  Graphs hold   *)
(* two components of the repository and two of another with like slugs,    *)
(* every choice of edges and one rule of every kind.                       *)
(***************************************************************************)
EXTENDS Tier1, TLC

CONSTANTS w1, w2

VARIABLE part

Workers == {w1, w2}
-----------------------------------------------------------------------------
Spellings == {"a", "A", "b"}
LowerCase == [n \in Spellings |-> IF n = "A" THEN "a" ELSE n]
Directory == [kind |-> "dir"]
Plain == [kind |-> "file"]
LinkTo(target, absolute) == [kind |-> "link", target |-> target, absolute |-> absolute]
Links == {LinkTo(<<"b">>, TRUE), LinkTo(<<"..", "a">>, FALSE), LinkTo(<<"A">>, TRUE)}

Trees ==
  {[fold |-> k, at |-> <<"a">> :> x @@ <<"b">> :> Directory @@ <<"b", "a">> :> y] :
     k \in BOOLEAN, x \in Links \union {Directory}, y \in Links \union {Directory, Plain}} \union
  {[fold |-> FALSE, at |-> <<"a">> :> Directory @@ <<"A">> :> x @@ <<"a", "b">> :> y] :
     x \in {Directory, LinkTo(<<"a">>, FALSE)}, y \in Links \union {Directory}} \union
  {[fold |-> k, at |-> <<"a">> :> Directory @@ <<"a", "b">> :> x] :
     k \in BOOLEAN, x \in Links \union {Directory}}

PathsAsked == UNION {[1..n -> Spellings \union {".."}] : n \in 2..3}
RootsAsked == {<<"a">>, <<"b", "a">>}
-----------------------------------------------------------------------------
Component(repo, slug, globs) == [repo |-> repo, slug |-> slug, globs |-> globs, priority |-> 0]
Glob(exact, chars, matches) == [exact |-> exact, chars |-> chars, matches |-> matches]
Edge(repo, src, to, dst) == [repo |-> repo, src |-> src, dst_repo |-> to, dst |-> dst]
Rule(repo, scope, component, of) ==
  [id |-> 1, repo |-> repo, severity |-> 0, scope |-> scope, component |-> component, component_repo |-> of]

Globs == {{}, {Glob(0, 1, {"p", "q"})}, {Glob(0, 1, {"q"})},
          {Glob(1, 3, {"p"}), Glob(0, 2, {"p"})}}
RulesOfEveryKind ==
  {Rule("r", scope, c, of) : scope \in {"global", "component", "repo"}, c \in {1, 2}, of \in {"r", "o", "?"}}
  \union {Rule("r", "component", 0, "r"), Rule("o", "global", 2, "o")}

MapsOfComponents ==
  {[components |-> {Component("r", 1, g1), Component("r", 2, g2),
                    Component("o", 2, {Glob(0, 1, {"p", "q"})}), Component("o", 3, {})},
    edges |-> es, rules |-> {q}] :
      g1 \in Globs, g2 \in Globs, q \in RulesOfEveryKind,
      es \in SUBSET {Edge("r", 1, "r", 2), Edge("r", 1, "o", 2), Edge("o", 2, "r", 1)}}
-----------------------------------------------------------------------------
pVars == <<fs, path, root, pc, walk, resolved>>
rVars == <<graph, asked, answer>>

Tier1Init == part \in {"map", "path", "rules"} /\ Init /\ P!Init /\ R!Init

Tier1Next ==
  /\ UNCHANGED part
  /\ IF part = "map" THEN Next ELSE UNCHANGED vars
  /\ IF part = "path" THEN P!Next ELSE UNCHANGED pVars
  /\ IF part = "rules" THEN R!Next ELSE UNCHANGED rVars

Tier1Spec == Tier1Init /\ [][Tier1Next]_<<part, vars, pVars, rVars>>
=============================================================================
