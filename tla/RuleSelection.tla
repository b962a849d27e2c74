---------------------------- MODULE RuleSelection ----------------------------
(***************************************************************************)
(* Which rules a question about some paths brings (Tier 1): resolve,       *)
(* expand_1hop, repo_filter, repo_edges and select_constraints in          *)
(* mcp-server/src/main.rs, over the graph the store exports.               *)
(*                                                                         *)
(* The graph holds every repository.  A component is its repository and    *)
(* its slug, so one slug may occur in two; its globs are given by the      *)
(* paths they match and how well: literally or with a wildcard, and by how *)
(* much text.  A path is a member of Paths, or lies Outside the root.  The *)
(* answer is a selection of rules, each with the number of those that come *)
(* before it, and the rules it names as undeliverable.                     *)
(***************************************************************************)
EXTENDS Integers, Sequences, FiniteSets

CONSTANTS
  Repo,        \* the scope of the session
  Graphs,      \* graphs: [components, edges, rules]
  Paths,       \* paths inside the root, relative to it
  Outside      \* a path outside the root

VARIABLES graph, asked, answer

vars == <<graph, asked, answer>>

Missing == "?"     \* no such key
NoSlug == 0
NoGraph == [components |-> {}, edges |-> {}, rules |-> {}]
NoAnswer == [touched |-> {}, rules |-> <<>>, undeliverable |-> {}]
Init == graph = NoGraph /\ asked = {} /\ answer = NoAnswer

Comps == {c \in graph.components : c.repo = Repo}
Edges == {e \in graph.edges : e.repo = Repo /\ e.dst_repo = Repo}
Rules == {r \in graph.rules : r.repo = Repo}

\* The best of a component's globs that match: an exact path before any wildcard, then more text.
Better(g, h) == g.exact > h.exact \/ (g.exact = h.exact /\ g.chars > h.chars)
Matching(c, p) == {g \in c.globs : p \in g.matches}
Best(c, p) == CHOOSE g \in Matching(c, p) : \A h \in Matching(c, p) : ~Better(h, g)

Before(c, d, p) ==
  \/ Better(Best(c, p), Best(d, p))
  \/ ~Better(Best(d, p), Best(c, p)) /\ (c.priority > d.priority \/ (c.priority = d.priority /\ c.slug < d.slug))
Resolve(p) ==
  LET found == {c \in Comps : Matching(c, p) # {}}
  IN [c \in found |-> Cardinality({d \in found : Before(d, c, p)})]

\* One hop in either direction; an edge names its ends by slug.
Expand(slugs) == slugs \union {e.dst : e \in {x \in Edges : x.src \in slugs}}
                       \union {e.src : e \in {x \in Edges : x.dst \in slugs}}

\* Mutant of AnyInside: one path outside the root, and the question is about another tree.
AllInside(P) == Outside \notin P

\* This repository's globals govern this repository's files.
AnyInside(P) == P \ {Outside} # {}

\* Mutant of Own: a component is known by its slug alone.
OwnBySlug(r) == TRUE

Own(r) == r.component_repo \in {Repo, Missing}
Via(r, direct, inside) ==
  IF r.scope = "global" THEN (IF inside THEN "global" ELSE "none")
  ELSE IF Own(r) /\ r.component \in direct THEN "direct"
  ELSE IF Own(r) /\ r.component \in Expand(direct) THEN "graph"
  ELSE IF r.scope # "component" \/ r.component = NoSlug \/ ~Own(r) THEN "undeliverable"
  ELSE "none"

\* The order of delivery: the most severe first, then globals, then rules of the path's own components.
Rank(r, via) == <<r.severity, IF r.scope = "global" THEN 0 ELSE 1, IF via = "direct" THEN 0 ELSE 1, r.id>>
Less(a, b) == \E i \in DOMAIN a : a[i] < b[i] /\ \A j \in 1..(i - 1) : a[j] = b[j]

Select(P) ==
  LET inside == P \ {Outside}
      touched == UNION {DOMAIN Resolve(p) : p \in inside}
      direct == {c.slug : c \in touched}
      via(r) == Via(r, direct, AnyInside(P))
      chosen == {r \in Rules : via(r) \in {"global", "direct", "graph"}}
  IN [touched |-> direct,
      rules |-> [r \in chosen |-> Cardinality({s \in chosen : Less(Rank(s, via(s)), Rank(r, via(r)))})],
      undeliverable |-> {r \in Rules : via(r) = "undeliverable"}]

Load == graph = NoGraph /\ graph' \in Graphs /\ UNCHANGED <<asked, answer>>
Ask ==
  /\ graph # NoGraph /\ asked = {}
  /\ \E P \in SUBSET (Paths \union {Outside}) : P # {} /\ asked' = P /\ answer' = Select(P)
  /\ UNCHANGED graph
\* The same question about one path more.
AskMore ==
  /\ asked # {}
  /\ \E p \in (Paths \union {Outside}) \ asked : asked' = asked \union {p} /\ answer' = Select(asked')
  /\ UNCHANGED graph

Next == Load \/ Ask \/ AskMore
Spec == Init /\ [][Next]_vars
-----------------------------------------------------------------------------
(* For reference: over components as they are, never over slugs. *)

Claims(c, p) == c.repo = Repo /\ \E g \in c.globs : p \in g.matches
Linked(c, d) == \E e \in graph.edges :
  \/ <<e.repo, e.src, e.dst_repo, e.dst>> = <<c.repo, c.slug, d.repo, d.slug>>
  \/ <<e.repo, e.src, e.dst_repo, e.dst>> = <<d.repo, d.slug, c.repo, c.slug>>
\* The components a question is about, and their neighbours in the same repository.
Concerned == LET at == {c \in graph.components : \E p \in asked \ {Outside} : Claims(c, p)}
             IN at \union {d \in graph.components : d.repo = Repo /\ \E c \in at : Linked(c, d)}
Delivered == DOMAIN answer.rules

TypeOK == asked \subseteq Paths \union {Outside} /\ answer.undeliverable \subseteq graph.rules

\* A rule that is kept under a component reaches exactly the files of that component and of its
\* neighbours: never those of a component of the same slug in another repository, and never through
\* one.  The rules for the whole repository reach every file of it and none outside.
RulesReachTheirFiles ==
  /\ \A r \in graph.rules : r.repo = Repo /\ r.scope # "global" =>
       (r \in Delivered <=> \E c \in Concerned : c.slug = r.component /\ r.component_repo \in {c.repo, Missing})
  /\ \A r \in graph.rules : r.scope = "global" =>
       (r \in Delivered <=> r.repo = Repo /\ asked \ {Outside} # {})

\* No rule is "delivered nowhere ... without a word": one that this answer neither brings nor names
\* is brought by some path.  (Not so of the rules of a component no path leads to, nor to a neighbour.)
NoRuleIsLost == asked # {} =>
  \A r \in Rules :
    \/ r \in Delivered \union answer.undeliverable
    \/ \E p \in Paths : r \in DOMAIN Select({p}).rules
    \/ \A c \in Comps : c.slug = r.component =>
         \A d \in Comps : d = c \/ Linked(c, d) => \A q \in Paths : ~Claims(d, q)

\* Every rule reaches whom it is for, and no other.
RulesDelivered == RulesReachTheirFiles /\ NoRuleIsLost

\* "a broad rule is never switched off": one more path in the question takes no rule away and
\* names none more as undeliverable.
MorePathsKeepRules == [][asked # {} =>
  /\ Delivered \subseteq Delivered'
  /\ answer'.undeliverable \subseteq answer.undeliverable]_vars
=============================================================================
