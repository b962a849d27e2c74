---------------------------- MODULE Tier1Proofs ----------------------------
(***************************************************************************)
(* Proofs about what lies behind a question for the rules of some paths:   *)
(* that a map graph() answers is as young as it is said to be, for any     *)
(* number of worker threads, any ttl, ceiling and deadline; that the rules *)
(* a question brings are those it should, for any graph; and that a path   *)
(* is found inside the repository exactly if it is, on any file system.    *)
(***************************************************************************)
EXTENDS Tier1, TLAPS, WellFoundedInduction, SequenceTheorems

Got == {"nothing", "map", "stale", "error", "panic", "poison"}

CallerType == [pc : {"idle", "locking", "asking"}, since : Nat, read : Nat \union {NoMap}, got : Got, age : Nat]

\* A copy is put away no later than DbTimeout after the store was read for it.
CopyIsDated ==
  /\ cache \in [read : Nat \union {NoMap}, at : Nat]
  /\ cache.read # NoMap => /\ cache.read <= cache.at /\ cache.at <= now
                           /\ cache.at - cache.read <= DbTimeout

\* A query has a deadline, and reads the store after it was begun.
Dated(k) ==
  /\ k.pc = "locking" => k.read = NoMap
  /\ k.pc = "asking" => k.since <= now /\ now - k.since <= DbTimeout
  /\ k.pc = "asking" /\ k.read # NoMap => k.since <= k.read /\ k.read <= now

\* MapIsYoung of one answer.
Young(k) ==
  /\ k.got = "map" => k.age < Ttl + DbTimeout
  /\ k.got \in {"map", "stale"} => k.age <= Ttl * CeilingMult + DbTimeout

IInv ==
  /\ now \in Nat
  /\ CopyIsDated
  /\ caller \in [Callers -> CallerType]
  /\ \A c \in Callers : Dated(caller[c]) /\ Young(caller[c])

LEMMA Numbers ==
  /\ Ttl \in Nat /\ Ttl >= 1 /\ DbTimeout \in Nat
  /\ Ttl * CeilingMult \in Nat /\ Ttl <= Ttl * CeilingMult
  BY TickAssumption

LEMMA RestingIsYoung ==
  ASSUME now \in Nat
  PROVE  Resting \in CallerType /\ Dated(Resting) /\ Young(Resting)
  BY Numbers DEF Resting, CallerType, Got, Dated, Young

LEMMA InitIInv ==
  ASSUME Init
  PROVE  IInv
  BY RestingIsYoung, NoMapAssumption DEF Init, IInv, CopyIsDated, Empty

\* A step of one thread leaves the others' answers as they are.
LEMMA OneCaller ==
  ASSUME IInv, NEW c \in Callers, NEW k \in CallerType, Dated(k), Young(k),
         caller' = [caller EXCEPT ![c] = k], UNCHANGED now, CopyIsDated'
  PROVE  IInv'
  <1>1. caller' \in [Callers -> CallerType]
    BY DEF IInv
  <1>2. ASSUME NEW d \in Callers
        PROVE  Dated(caller'[d]) /\ Young(caller'[d])
    <2>1. caller'[d] = IF d = c THEN k ELSE caller[d]
      BY DEF IInv
    <2> QED
      BY <2>1 DEF IInv
  <1> QED
    BY <1>1, <1>2 DEF IInv, Dated, Young

LEMMA Answered ==
  ASSUME NEW got, NEW age
  PROVE  [Resting EXCEPT !.got = got, !.age = age]
           = [pc |-> "idle", since |-> 0, read |-> NoMap, got |-> got, age |-> age]
  <1> DEFINE new(a) == [pc |-> "idle", since |-> 0, read |-> NoMap, got |-> got, age |-> a]
  <1>1. [Resting EXCEPT !.got = got] = new(0)
    BY DEF Resting
  <1>2. [new(0) EXCEPT !.age = age] = new(age)
    OBVIOUS
  <1>3. [Resting EXCEPT !.got = got, !.age = age] = [[Resting EXCEPT !.got = got] EXCEPT !.age = age]
    BY Zenon
  <1> QED
    BY <1>1, <1>2, <1>3, Zenon

\* An answer graph() returns.
LEMMA ReturnIsYoung ==
  ASSUME IInv, NEW c \in Callers, NEW got \in Got, NEW read \in Nat \union {NoMap}, Return(c, got, read),
         read # NoMap => read <= now,
         got = "map" => read # NoMap /\ now - read < Ttl + DbTimeout,
         got = "stale" => read # NoMap /\ now - read <= Ttl * CeilingMult + DbTimeout,
         UNCHANGED now, CopyIsDated'
  PROVE  IInv'
  <1> DEFINE age == IF read = NoMap THEN 0 ELSE now - read
             k == [pc |-> "idle", since |-> 0, read |-> NoMap, got |-> got, age |-> age]
  <1>1. age \in Nat
    BY NoMapAssumption DEF IInv
  <1>2. caller' = [caller EXCEPT ![c] = k]
    BY Answered DEF Return
  <1>3. Young(k)
    <2>1. CASE read = NoMap
      BY <2>1, Numbers DEF Young
    <2>2. CASE read # NoMap
      BY <2>2, Numbers DEF Young, IInv
    <2> QED
      BY <2>1, <2>2
  <1> HIDE DEF age
  <1>4. k \in CallerType /\ Dated(k)
    BY <1>1 DEF CallerType, Dated
  <1> QED
    BY <1>2, <1>3, <1>4, OneCaller

LEMMA CallStep ==
  ASSUME IInv, NEW c \in Callers, Call(c)
  PROVE  IInv'
  <1> DEFINE k == [Resting EXCEPT !.pc = "locking"]
  <1>1. k \in CallerType /\ Dated(k) /\ Young(k)
    BY Numbers DEF Resting, CallerType, Got, Dated, Young
  <1>2. caller' = [caller EXCEPT ![c] = k] /\ UNCHANGED <<now, cache>>
    BY DEF Call
  <1>3. CopyIsDated'
    BY <1>2 DEF IInv, CopyIsDated
  <1> QED
    BY <1>1, <1>2, <1>3, OneCaller

LEMMA LockStep ==
  ASSUME IInv, NEW c \in Callers, Lock(c)
  PROVE  IInv'
  <1>1. UNCHANGED now /\ CopyIsDated'
    BY DEF Lock, IInv, CopyIsDated
  <1>2. CASE Return(c, "poison", NoMap)
    BY <1>1, <1>2, ReturnIsYoung DEF Got
  <1>3. CASE Fresh /\ Return(c, "map", cache.read)
    <2>1. cache.read \in Nat /\ cache.read <= now /\ now - cache.read < Ttl + DbTimeout
      BY <1>3, Numbers DEF Fresh, IInv, CopyIsDated
    <2> QED
      BY <1>1, <1>3, <2>1, ReturnIsYoung, NoMapAssumption DEF Got
  <1>4. CASE /\ caller[c].pc = "locking"
             /\ caller' = [caller EXCEPT ![c].pc = "asking", ![c].since = now]
    <2> DEFINE k == [caller[c] EXCEPT !.pc = "asking", !.since = now]
    <2>1. /\ k.pc = "asking" /\ k.since = now /\ k.read = NoMap
          /\ k.got = caller[c].got /\ k.age = caller[c].age /\ k \in CallerType
      BY <1>4 DEF IInv, CallerType, Got, Dated
    <2>2. Dated(k) /\ Young(k)
      BY <2>1, Numbers DEF Dated, Young, IInv
    <2>3. caller' = [caller EXCEPT ![c] = k]
      BY <1>4
    <2> QED
      BY <1>1, <2>1, <2>2, <2>3, OneCaller
  <1> QED
    BY <1>2, <1>3, <1>4 DEF Lock

LEMMA StoreReadStep ==
  ASSUME IInv, NEW c \in Callers, StoreRead(c)
  PROVE  IInv'
  <1> DEFINE k == [caller[c] EXCEPT !.read = now]
  <1>1. /\ k.pc = "asking" /\ k.since = caller[c].since /\ k.read = now
        /\ k.got = caller[c].got /\ k.age = caller[c].age /\ k \in CallerType
    BY DEF StoreRead, IInv, CallerType, Got
  <1>2. Dated(k) /\ Young(k)
    BY <1>1 DEF StoreRead, Dated, Young, IInv
  <1>3. caller' = [caller EXCEPT ![c] = k] /\ UNCHANGED now /\ CopyIsDated'
    BY DEF StoreRead, IInv, CopyIsDated
  <1> QED
    BY <1>1, <1>2, <1>3, OneCaller

LEMMA RefreshedStep ==
  ASSUME IInv, NEW c \in Callers, Refreshed(c)
  PROVE  IInv'
  <1>1. caller[c] \in CallerType /\ Dated(caller[c]) /\ caller[c].pc = "asking"
    BY DEF Refreshed, IInv
  <1>2. caller[c].read \in Nat /\ caller[c].read <= now /\ now - caller[c].read <= DbTimeout
    BY <1>1, Numbers DEF Refreshed, Dated, CallerType, IInv
  <1>3. UNCHANGED now /\ Return(c, "map", caller[c].read) /\ cache' = [read |-> caller[c].read, at |-> now]
    BY DEF Refreshed
  <1>4. CopyIsDated'
    BY <1>2, <1>3 DEF CopyIsDated, IInv
  <1>5. caller[c].read # NoMap /\ now - caller[c].read < Ttl + DbTimeout /\ now \in Nat
    BY <1>2, Numbers, NoMapAssumption DEF IInv
  <1>6. "map" \in Got /\ "map" # "stale"
    BY DEF Got
  <1> DEFINE read == caller[c].read
  <1> HIDE DEF read
  <1>7. read \in Nat /\ read <= now /\ read # NoMap /\ now - read < Ttl + DbTimeout /\ Return(c, "map", read)
    BY <1>2, <1>3, <1>5 DEF read
  <1> QED
    BY <1>3, <1>4, <1>6, <1>7, ReturnIsYoung

\* The copy a failure falls back to: no older than the ceiling when it was put away.
LEMMA RefreshFailsStep ==
  ASSUME IInv, NEW c \in Callers, RefreshFails(c)
  PROVE  IInv'
  <1>1. UNCHANGED <<now, cache>> /\ CopyIsDated'
    BY DEF RefreshFails, AfterFailure, IInv, CopyIsDated
  <1>2. CASE Return(c, "error", NoMap)
    BY <1>1, <1>2, ReturnIsYoung DEF Got
  <1>3. CASE /\ cache.read # NoMap /\ ~(now - cache.at > Ttl * CeilingMult)
             /\ Return(c, "stale", cache.read)
    <2>1. cache.read \in Nat /\ cache.read <= now /\ now - cache.read <= Ttl * CeilingMult + DbTimeout
      BY <1>3, Numbers DEF IInv, CopyIsDated
    <2> QED
      BY <1>1, <1>3, <2>1, ReturnIsYoung DEF Got
  <1> QED
    BY <1>2, <1>3 DEF RefreshFails, AfterFailure

LEMMA PanicsStep ==
  ASSUME IInv, NEW c \in Callers, Panics(c)
  PROVE  IInv'
  <1>1. UNCHANGED now /\ CopyIsDated' /\ Return(c, "panic", NoMap)
    BY DEF Panics, IInv, CopyIsDated
  <1> QED
    BY <1>1, ReturnIsYoung DEF Got

LEMMA TickStep ==
  ASSUME IInv, Tick
  PROVE  IInv'
  <1>1. now' \in Nat /\ CopyIsDated' /\ UNCHANGED caller /\ now' = now + 1
    BY DEF Tick, IInv, CopyIsDated
  <1>2. ASSUME NEW c \in Callers
        PROVE  Dated(caller[c])' /\ Young(caller[c])'
    <2>1. caller[c] \in CallerType /\ Dated(caller[c]) /\ Young(caller[c])
      BY DEF IInv
    <2> QED
      BY <1>1, <2>1, Numbers DEF Tick, Dated, Young, CallerType, IInv
  <1> QED
    BY <1>1, <1>2 DEF IInv

LEMMA NextIInv ==
  ASSUME IInv, [Next]_vars
  PROVE  IInv'
  <1>1. CASE UNCHANGED vars
    BY <1>1 DEF vars, IInv, CopyIsDated, Dated, Young
  <1> QED
    BY <1>1, CallStep, LockStep, StoreReadStep, RefreshedStep, RefreshFailsStep, PanicsStep, TickStep DEF Next

\* What graph() of main.rs answers is as young as it is said to be: without a note, the ttl and one
\* query's deadline; with one, the ceiling and one deadline, however many refreshes fail.
THEOREM MapIsYoungCorrect == Spec => []MapIsYoung
  <1>1. Init => IInv
    BY InitIInv
  <1>2. IInv /\ [Next]_vars => IInv'
    BY NextIInv
  <1>3. IInv => MapIsYoung
    BY DEF IInv, Young, MapIsYoung, FreshUnlessSaid, StaleOnlyToCeiling
  <1> QED
    BY <1>1, <1>2, <1>3, PTL DEF Spec
-----------------------------------------------------------------------------
(* The rules a question brings *)

\* What a question about the paths ps comes to in the graph g, rule by rule.
IsDirect(g, ps, slug) ==
  \E c \in g.components :
    c.repo = Repo /\ c.slug = slug /\ \E p \in ps \ {Outside}, x \in c.globs : p \in x.matches
IsReached(g, ps, slug) ==
  \/ IsDirect(g, ps, slug)
  \/ \E e \in g.edges : /\ e.repo = Repo /\ e.dst_repo = Repo
                        /\ \/ e.dst = slug /\ IsDirect(g, ps, e.src)
                           \/ e.src = slug /\ IsDirect(g, ps, e.dst)
Brings(g, ps, r) ==
  r.repo = Repo /\ IF r.scope = "global" THEN ps \ {Outside} # {} ELSE R!Own(r) /\ IsReached(g, ps, r.component)
IsNamed(g, ps, r) ==
  /\ r.repo = Repo /\ r.scope # "global" /\ ~ (R!Own(r) /\ IsReached(g, ps, r.component))
  /\ r.scope # "component" \/ r.component = R!NoSlug \/ ~R!Own(r)

LEMMA DirectOnes ==
  ASSUME NEW ps, NEW slug
  PROVE  slug \in {c.slug : c \in UNION {DOMAIN R!Resolve(p) : p \in ps \ {Outside}}} <=> IsDirect(graph, ps, slug)
  <1>1. \A p : DOMAIN R!Resolve(p) = {c \in graph.components : c.repo = Repo /\ \E x \in c.globs : p \in x.matches}
    BY DEF R!Resolve, R!Matching, R!Comps
  <1> QED
    BY <1>1 DEF IsDirect

LEMMA SelectedOnes ==
  ASSUME NEW ps
  PROVE  /\ DOMAIN R!Select(ps).rules = {r \in graph.rules : Brings(graph, ps, r)}
         /\ R!Select(ps).undeliverable = {r \in graph.rules : IsNamed(graph, ps, r)}
  <1> DEFINE direct == {c.slug : c \in UNION {DOMAIN R!Resolve(p) : p \in ps \ {Outside}}}
             via(r) == R!Via(r, direct, R!AnyInside(ps))
             chosen == {r \in R!Rules : via(r) \in {"global", "direct", "graph"}}
  <1>1. /\ DOMAIN R!Select(ps).rules = chosen
        /\ R!Select(ps).undeliverable = {r \in R!Rules : via(r) = "undeliverable"}
    BY DEF R!Select
  <1> HIDE DEF direct
  <1>2. \A s : s \in direct <=> IsDirect(graph, ps, s)
    BY DirectOnes DEF direct
  <1>3. \A s : s \in R!Expand(direct) <=> IsReached(graph, ps, s)
    BY <1>2 DEF R!Expand, R!Edges, IsReached
  <1>4. R!AnyInside(ps) <=> ps \ {Outside} # {}
    BY DEF R!AnyInside
  <1>5. \A r \in R!Rules : /\ via(r) \in {"global", "direct", "graph"} <=> Brings(graph, ps, r)
                           /\ via(r) = "undeliverable" <=> IsNamed(graph, ps, r)
    BY <1>2, <1>3, <1>4 DEF R!Via, R!Rules, Brings, IsNamed, IsReached
  <1>6. R!Rules = {r \in graph.rules : r.repo = Repo}
    BY DEF R!Rules
  <1> HIDE DEF via
  <1> QED
    BY <1>1, <1>5, <1>6 DEF Brings, IsNamed

\* An answer is the selection for the paths asked about.
RulesInv ==
  /\ graph \in Graphs \union {R!NoGraph}
  /\ asked \subseteq Paths \union {Outside}
  /\ asked = {} => answer = R!NoAnswer
  /\ asked # {} => /\ graph # R!NoGraph
                   /\ DOMAIN answer.rules = {r \in graph.rules : Brings(graph, asked, r)}
                   /\ answer.undeliverable = {r \in graph.rules : IsNamed(graph, asked, r)}

LEMMA RulesBegin == R!Init => RulesInv
  BY DEF R!Init, RulesInv

LEMMA RulesNext ==
  ASSUME RulesInv, [R!Next]_(R!vars)
  PROVE  RulesInv'
  <1>1. CASE R!Load
    <2>1. graph = R!NoGraph /\ graph' \in Graphs /\ asked' = asked /\ answer' = answer
      BY <1>1 DEF R!Load
    <2>2. asked = {}
      BY <2>1 DEF RulesInv
    <2> QED
      BY <2>1, <2>2 DEF RulesInv
  <1>2. ASSUME NEW ps \in SUBSET (Paths \union {Outside}), ps # {}, asked' = ps, answer' = R!Select(ps),
               graph' = graph, graph # R!NoGraph
        PROVE  RulesInv'
    <2>1. /\ DOMAIN answer'.rules = {r \in graph'.rules : Brings(graph', asked', r)}
          /\ answer'.undeliverable = {r \in graph'.rules : IsNamed(graph', asked', r)}
      BY <1>2, SelectedOnes
    <2> QED
      BY <1>2, <2>1 DEF RulesInv
  <1>3. CASE R!Ask
    <2>1. PICK ps \in SUBSET (Paths \union {Outside}) : ps # {} /\ asked' = ps /\ answer' = R!Select(ps)
      BY <1>3 DEF R!Ask
    <2> QED
      BY <1>2, <1>3, <2>1 DEF R!Ask
  <1>4. CASE R!AskMore
    <2>1. PICK p \in (Paths \union {Outside}) \ asked :
            asked' = asked \union {p} /\ answer' = R!Select(asked')
      BY <1>4 DEF R!AskMore
    <2>2. asked \union {p} \in SUBSET (Paths \union {Outside}) /\ graph' = graph /\ graph # R!NoGraph
      BY <1>4, <2>1 DEF R!AskMore, RulesInv
    <2>3. answer' = R!Select(asked \union {p})
      BY <2>1
    <2> QED
      BY <1>2, <2>1, <2>2, <2>3
  <1>5. CASE UNCHANGED R!vars
    BY <1>5 DEF R!vars, RulesInv
  <1> QED
    BY <1>1, <1>3, <1>4, <1>5 DEF R!Next

\* The components a question is about and their neighbours, by slug and as they are.
LEMMA ReachedOnes ==
  ASSUME graph \in Graphs \union {R!NoGraph}, NEW slug
  PROVE  IsReached(graph, asked, slug) <=> \E c \in R!Concerned : c.slug = slug
  <1> DEFINE at == {c \in graph.components : \E p \in asked \ {Outside} : R!Claims(c, p)}
  <1>1. R!Concerned = at \union {d \in graph.components : d.repo = Repo /\ \E c \in at : R!Linked(c, d)}
    BY DEF R!Concerned
  <1>2. \A s : IsDirect(graph, asked, s) <=> \E c \in at : c.slug = s
    BY DEF IsDirect, R!Claims
  <1>3. \A c \in at : c \in graph.components /\ c.repo = Repo
    BY DEF R!Claims
  <1> HIDE DEF at
  <1>4. \A e \in graph.edges : /\ \E c \in graph.components : c.repo = e.repo /\ c.slug = e.src
                               /\ \E c \in graph.components : c.repo = e.dst_repo /\ c.slug = e.dst
    BY EdgeAssumption DEF R!NoGraph
  <1>5. ASSUME IsReached(graph, asked, slug)
        PROVE  \E c \in R!Concerned : c.slug = slug
    <2>1. CASE IsDirect(graph, asked, slug)
      BY <1>1, <1>2, <2>1
    <2>2. ASSUME NEW e \in graph.edges, e.repo = Repo, e.dst_repo = Repo,
                 \/ e.dst = slug /\ IsDirect(graph, asked, e.src)
                 \/ e.src = slug /\ IsDirect(graph, asked, e.dst)
          PROVE  \E c \in R!Concerned : c.slug = slug
      <3>1. PICK c \in at, d \in graph.components :
              /\ d.repo = Repo /\ d.slug = slug
              /\ (c.slug = e.src /\ e.dst = slug) \/ (c.slug = e.dst /\ e.src = slug)
        BY <1>2, <1>4, <2>2
      <3>2. R!Linked(c, d)
        BY <1>3, <2>2, <3>1 DEF R!Linked
      <3> QED
        BY <1>1, <3>1, <3>2
    <2> QED
      BY <1>5, <2>1, <2>2 DEF IsReached
  <1>6. ASSUME NEW d \in R!Concerned, d.slug = slug
        PROVE  IsReached(graph, asked, slug)
    <2>1. CASE d \in at
      BY <1>2, <1>6, <2>1 DEF IsReached
    <2>2. CASE d \notin at
      <3>1. d.repo = Repo /\ \E c \in at : R!Linked(c, d)
        BY <1>1, <2>2
      <3> QED
        BY <1>2, <1>3, <1>6, <3>1 DEF IsReached, R!Linked
    <2> QED
      BY <2>1, <2>2
  <1> QED
    BY <1>5, <1>6

LEMMA ReachTheirFiles ==
  ASSUME RulesInv
  PROVE  R!RulesReachTheirFiles
  <1>1. R!Delivered = {r \in graph.rules : Brings(graph, asked, r)}
    <2>1. CASE asked = {}
      BY <2>1 DEF RulesInv, R!Delivered, R!NoAnswer, Brings, IsReached, IsDirect
    <2>2. CASE asked # {}
      BY <2>2 DEF RulesInv, R!Delivered
    <2> QED
      BY <2>1, <2>2
  <1>2. \A c \in R!Concerned : c.repo = Repo
    BY DEF R!Concerned, R!Claims
  <1>3. ASSUME NEW r \in graph.rules, r.repo = Repo, r.scope # "global"
        PROVE  r \in R!Delivered <=> \E c \in R!Concerned : c.slug = r.component
                                       /\ r.component_repo \in {c.repo, R!Missing}
    <2>1. r \in R!Delivered <=> R!Own(r) /\ \E c \in R!Concerned : c.slug = r.component
      BY <1>1, <1>3, ReachedOnes DEF Brings, RulesInv
    <2> QED
      BY <1>2, <2>1 DEF R!Own
  <1>4. \A r \in graph.rules : r.scope = "global" =>
          (r \in R!Delivered <=> r.repo = Repo /\ asked \ {Outside} # {})
    BY <1>1 DEF Brings
  <1> QED
    BY <1>3, <1>4 DEF R!RulesReachTheirFiles

LEMMA NoneIsLost ==
  ASSUME RulesInv
  PROVE  R!NoRuleIsLost
  <1> SUFFICES ASSUME asked # {}, NEW r \in R!Rules, r \notin R!Delivered \union answer.undeliverable,
                      NEW c \in R!Comps, c.slug = r.component, NEW d \in R!Comps, d = c \/ R!Linked(c, d),
                      NEW q \in Paths, R!Claims(d, q)
               PROVE  \E p \in Paths : r \in DOMAIN R!Select({p}).rules
    BY DEF R!NoRuleIsLost
  <1>1. {q} \ {Outside} = {q}
    BY PathAssumption
  <1>2. r \in graph.rules /\ r.repo = Repo
    BY DEF R!Rules
  <1>3. ~Brings(graph, asked, r) /\ ~IsNamed(graph, asked, r)
    BY <1>2 DEF RulesInv, R!Delivered
  <1>4. Brings(graph, {q}, r)
    <2>1. CASE r.scope = "global"
      BY <1>1, <1>2, <2>1 DEF Brings
    <2>2. CASE r.scope # "global"
      <3>1. R!Own(r)
        BY <1>2, <1>3, <2>2 DEF Brings, IsNamed
      <3>2. IsDirect(graph, {q}, d.slug)
        BY <1>1 DEF IsDirect, R!Claims, R!Comps
      <3>3. IsReached(graph, {q}, c.slug)
        BY <3>2 DEF IsReached, R!Linked, R!Comps
      <3> QED
        BY <1>2, <2>2, <3>1, <3>3 DEF Brings
    <2> QED
      BY <2>1, <2>2
  <1> QED
    BY <1>2, <1>4, SelectedOnes

\* A question about more paths reaches more components.
LEMMA ReachedMore ==
  ASSUME NEW g, NEW ps, NEW qs, ps \subseteq qs, NEW slug, IsReached(g, ps, slug)
  PROVE  IsReached(g, qs, slug)
  <1>1. \A s : IsDirect(g, ps, s) => IsDirect(g, qs, s)
    BY DEF IsDirect
  <1> HIDE DEF IsDirect
  <1> QED
    BY <1>1 DEF IsReached

LEMMA MoreIsMore ==
  ASSUME RulesInv, [R!Next]_(R!vars), asked # {}
  PROVE  R!Delivered \subseteq R!Delivered' /\ answer'.undeliverable \subseteq answer.undeliverable
  <1>1. /\ R!Delivered = {r \in graph.rules : Brings(graph, asked, r)}
        /\ answer.undeliverable = {r \in graph.rules : IsNamed(graph, asked, r)}
    BY DEF RulesInv, R!Delivered
  <1>2. CASE UNCHANGED R!vars
    BY <1>2 DEF R!vars, R!Delivered
  <1>3. CASE R!AskMore
    <2>1. /\ asked \subseteq asked' /\ asked' # {} /\ graph' = graph /\ RulesInv'
      BY <1>3, RulesNext DEF R!AskMore
    <2>2. /\ R!Delivered' = {r \in graph.rules : Brings(graph, asked', r)}
          /\ answer'.undeliverable = {r \in graph.rules : IsNamed(graph, asked', r)}
      BY <2>1 DEF RulesInv, R!Delivered
    <2>3. \A s : IsReached(graph, asked, s) => IsReached(graph, asked', s)
      BY <2>1, ReachedMore
    <2>4. asked \ {Outside} # {} => asked' \ {Outside} # {}
      BY <2>1
    <2> QED
      BY <1>1, <2>2, <2>3, <2>4 DEF Brings, IsNamed
  <1>4. ~R!Load /\ ~R!Ask
    BY DEF R!Load, R!Ask, RulesInv
  <1> QED
    BY <1>2, <1>3, <1>4 DEF R!Next

\* In every graph the store may hand out, a rule reaches the files of its component and of that
\* component's neighbours and no other, and none is dropped without being named (select_constraints).
THEOREM RulesDeliveredCorrect == R!Spec => []RulesDelivered
  <1>1. RulesInv => RulesDelivered
    BY ReachTheirFiles, NoneIsLost DEF RulesDelivered, R!RulesDelivered
  <1>2. RulesInv /\ [R!Next]_(R!vars) => RulesInv'
    BY RulesNext
  <1> QED
    BY <1>1, <1>2, RulesBegin, PTL DEF R!Spec

\* A question about one path more brings no rule less and names none more as undeliverable, in any
\* graph at all (select_constraints).
THEOREM MorePathsKeepRulesCorrect == R!Spec => MorePathsKeepRules
  <1>1. RulesInv /\ [R!Next]_(R!vars) =>
          [asked # {} => /\ R!Delivered \subseteq R!Delivered'
                         /\ answer'.undeliverable \subseteq answer.undeliverable]_(R!vars)
    BY MoreIsMore
  <1>2. RulesInv /\ [R!Next]_(R!vars) => RulesInv'
    BY RulesNext
  <1> QED
    BY <1>1, <1>2, RulesBegin, PTL DEF R!Spec, MorePathsKeepRules, R!MorePathsKeepRules
-----------------------------------------------------------------------------
(* Where a path lies.  Texts are sequences of names; the location of one is as long, and changes with *)
(* no more than its case.  Resolving keeps up with the kernel as long as the kernel gets anywhere.    *)

LEMMA LeastNumber ==
  ASSUME NEW W, W \subseteq Nat, W # {}
  PROVE  \E n \in W : \A m \in W : n <= m
  <1> DEFINE Less == OpToRel(<, Nat)
  <1>1. IsWellFoundedOn(Less, Nat)
    BY NatLessThanWellFounded
  <1>2. \A x, y \in Nat : <<x, y>> \notin Less => y <= x
    BY DEF OpToRel
  <1> HIDE DEF Less
  <1>3. \E n \in W : \A m \in W : ~ (<<m, n>> \in Less)
    BY <1>1, WFMin
  <1> QED
    BY <1>2, <1>3

Texts == Seq(Names)

\* What holds of the empty text, and of a text with one more name, holds of every text.
LEMMA EveryText ==
  ASSUME NEW G, <<>> \in G, \A s \in Texts : \A n \in Names : s \in G => Append(s, n) \in G
  PROVE  Texts \subseteq G
  <1> DEFINE W == {Len(t) : t \in Texts \ G}
  <1> SUFFICES ASSUME Texts \ G # {} PROVE FALSE
    OBVIOUS
  <1>1. W \subseteq Nat /\ W # {}
    BY DEF Texts
  <1>2. PICK k \in W : \A m \in W : k <= m
    <2> HIDE DEF W
    <2> QED
      BY <1>1, LeastNumber
  <1>3. PICK t \in Texts : t \notin G /\ Len(t) = k
    BY <1>2
  <1>4. t # <<>>
    BY <1>3
  <1> DEFINE s == SubSeq(t, 1, Len(t) - 1)
  <1>5. s \in Texts /\ Len(s) = Len(t) - 1 /\ t[Len(t)] \in Names /\ t = Append(s, t[Len(t)])
    BY <1>3, <1>4 DEF Texts
  <1> HIDE DEF s
  <1>6. s \notin G
    BY <1>3, <1>5
  <1>7. Len(s) \in W
    BY <1>5, <1>6
  <1>8. k \in Nat /\ Len(s) = k - 1 /\ k <= Len(s)
    BY <1>1, <1>2, <1>3, <1>5, <1>7
  <1> QED
    BY <1>8
-----------------------------------------------------------------------------
(* Locations *)

Entry == {P!Dir, P!File} \union [kind : {"link"}, target : Seq(Names \union {Up}), absolute : BOOLEAN]

\* What there is at a location.
LEMMA SystemIs ==
  ASSUME NEW f \in Systems, NEW l
  PROVE  /\ l \in DOMAIN f.at => l \in Texts
         /\ P!What(f, l) \in Entry \union {P!Nothing}
         /\ P!What(f, l) = P!Nothing \/ P!What(f, l) = P!Dir \/ P!What(f, l) = P!File
              \/ (P!What(f, l).kind = "link" /\ P!What(f, l).target \in Seq(Names \union {Up}))
  BY FileAssumption DEF P!What, Entry, Texts

LEMMA KindsDiffer ==
  /\ P!Dir # P!Nothing /\ P!Dir # P!File /\ P!File # P!Nothing
  /\ P!Dir.kind # "link" /\ P!File.kind # "link" /\ P!Nothing.kind # "link"
  BY DEF P!Dir, P!File, P!Nothing

\* A name leads from a directory one name further, to the name itself or another spelling of it.
LEMMA ChildIs ==
  ASSUME NEW f \in Systems, NEW loc \in Texts, NEW n \in Names
  PROVE  /\ P!Child(f, loc, n) \in Texts /\ Len(P!Child(f, loc, n)) = Len(loc) + 1
         /\ SubSeq(P!Child(f, loc, n), 1, Len(loc)) = loc
         /\ f.fold => Fold[P!Child(f, loc, n)[Len(loc) + 1]] = Fold[n]
         /\ ~f.fold => P!Child(f, loc, n) = Append(loc, n)
  <1> DEFINE here == {l \in DOMAIN f.at : Len(l) = Len(loc) + 1 /\ P!IsPrefix(loc, l)
                                           /\ IF f.fold THEN Fold[P!Last(l)] = Fold[n] ELSE P!Last(l) = n}
  <1>1. P!Child(f, loc, n) = IF here = {} THEN Append(loc, n) ELSE CHOOSE l \in here : TRUE
    BY DEF P!Child
  <1>2. CASE here = {}
    <2>1. P!Child(f, loc, n) = Append(loc, n)
      BY <1>1, <1>2
    <2> QED
      BY <2>1 DEF Texts
  <1>3. CASE here # {}
    <2>1. PICK l \in here : l = P!Child(f, loc, n)
      BY <1>1, <1>3
    <2>2. l \in Texts /\ Len(l) = Len(loc) + 1 /\ SubSeq(loc, 1, Len(loc)) = SubSeq(l, 1, Len(loc))
      BY SystemIs DEF P!IsPrefix
    <2>3. SubSeq(l, 1, Len(loc)) = loc
      BY <2>2 DEF Texts
    <2>4. f.fold => Fold[l[Len(loc) + 1]] = Fold[n]
      BY <2>2 DEF P!Last
    <2>5. ~f.fold => l[Len(loc) + 1] = n
      BY <2>2 DEF P!Last
    <2>6. l = Append(SubSeq(l, 1, Len(loc)), l[Len(loc) + 1])
      BY <2>2 DEF Texts
    <2> QED
      BY <2>1, <2>2, <2>3, <2>4, <2>5, <2>6
  <1> QED
    BY <1>2, <1>3

\* The function in Locate, of the first n segments.
LocatedTo(g, f, t, n) == g = [i \in 0..n |-> IF i = 0 THEN <<>> ELSE P!Child(f, g[i - 1], t[i])]
Located(g, f, t) == LocatedTo(g, f, t, Len(t))

\* As far as two texts agree, their locations do; so one of n names exists if the one of all but the last does.
LEMMA LocatedExists ==
  ASSUME NEW f, NEW t, Len(t) \in Nat
  PROVE  \E g : Located(g, f, t)
  <1> DEFINE W == {k \in Nat : ~ \E g : LocatedTo(g, f, t, k)}
  <1> SUFFICES ASSUME Len(t) \in W PROVE FALSE
    BY DEF Located
  <1>1. PICK k \in W : \A m \in W : k <= m
    BY LeastNumber
  <1>2. LocatedTo([i \in 0..0 |-> <<>>], f, t, 0)
    <2> DEFINE g == [i \in 0..0 |-> <<>>]
    <2>1. \A i \in 0..0 : <<>> = IF i = 0 THEN <<>> ELSE P!Child(f, g[i - 1], t[i])
      OBVIOUS
    <2> HIDE DEF g
    <2>2. g = [i \in 0..0 |-> IF i = 0 THEN <<>> ELSE P!Child(f, g[i - 1], t[i])]
      BY <2>1 DEF g
    <2> QED
      BY <2>2 DEF LocatedTo, g
  <1>3. k # 0 /\ k \in Nat /\ k - 1 \in Nat /\ k - 1 \notin W
    BY <1>1, <1>2
  <1>4. PICK g : LocatedTo(g, f, t, k - 1)
    BY <1>3
  <1> DEFINE h == [i \in 0..k |-> IF i = k THEN P!Child(f, g[k - 1], t[k]) ELSE g[i]]
  <1>5. \A i \in 0..(k - 1) : h[i] = g[i]
    BY <1>3
  <1>6. \A i \in 0..k : h[i] = IF i = 0 THEN <<>> ELSE P!Child(f, h[i - 1], t[i])
    <2> TAKE i \in 0..k
    <2>1. CASE i = k
      BY <2>1, <1>3, <1>5
    <2>2. CASE i # k
      <3>1. i \in 0..(k - 1) /\ (i # 0 => i - 1 \in 0..(k - 1))
        BY <2>2, <1>3
      <3>2. g[i] = IF i = 0 THEN <<>> ELSE P!Child(f, g[i - 1], t[i])
        BY <1>4, <3>1 DEF LocatedTo
      <3> QED
        BY <3>1, <3>2, <1>5
    <2> QED
      BY <2>1, <2>2
  <1>7. h = [i \in 0..k |-> h[i]]
    OBVIOUS
  <1> HIDE DEF h
  <1>8. LocatedTo(h, f, t, k)
    BY <1>6, <1>7 DEF LocatedTo
  <1> QED
    BY <1>1, <1>8

LEMMA LocateIs ==
  ASSUME NEW f, NEW t, Len(t) \in Nat
  PROVE  \E g : Located(g, f, t) /\ P!Locate(f, t) = g[Len(t)]
  <1> DEFINE at == CHOOSE g : Located(g, f, t)
  <1>1. Located(at, f, t)
    BY LocatedExists
  <1>2. P!Locate(f, t) = at[Len(t)]
    BY DEF P!Locate, Located, LocatedTo
  <1> QED
    BY <1>1, <1>2

LEMMA LocateNone ==
  ASSUME NEW f
  PROVE  P!Locate(f, <<>>) = <<>>
  <1>1. PICK g : Located(g, f, <<>>) /\ P!Locate(f, <<>>) = g[Len(<<>>)]
    BY LocateIs
  <1> QED
    BY <1>1 DEF Located, LocatedTo

\* One more segment, one step further.
LEMMA LocateMore ==
  ASSUME NEW f, NEW S, NEW t \in Seq(S), NEW n
  PROVE  P!Locate(f, Append(t, n)) = P!Child(f, P!Locate(f, t), n)
  <1> DEFINE u == Append(t, n)
  <1>1. /\ Len(u) = Len(t) + 1 /\ Len(t) \in Nat /\ u[Len(t) + 1] = n
        /\ \A i \in 1..Len(t) : u[i] = t[i]
    OBVIOUS
  <1> HIDE DEF u
  <1>2. PICK g : Located(g, f, t) /\ P!Locate(f, t) = g[Len(t)]
    BY <1>1, LocateIs
  <1>3. PICK h : Located(h, f, u) /\ P!Locate(f, u) = h[Len(u)]
    BY <1>1, LocateIs
  <1>4. /\ \A i \in 0..Len(t) : g[i] = IF i = 0 THEN <<>> ELSE P!Child(f, g[i - 1], t[i])
        /\ \A i \in 0..Len(u) : h[i] = IF i = 0 THEN <<>> ELSE P!Child(f, h[i - 1], u[i])
    BY <1>2, <1>3 DEF Located, LocatedTo
  <1>5. g[Len(t)] = h[Len(t)]
    <2> DEFINE W == {i \in 0..Len(t) : g[i] # h[i]}
    <2> SUFFICES ASSUME W # {} PROVE FALSE
      BY <1>1
    <2>1. PICK i \in W : \A j \in W : i <= j
      <3>1. W \subseteq Nat
        BY <1>1
      <3> HIDE DEF W
      <3> QED
        BY <3>1, LeastNumber
    <2>2. i \in 0..Len(t) /\ i \in 0..Len(u) /\ g[i] # h[i]
      BY <1>1
    <2>3. i # 0
      BY <1>4, <2>2
    <2>4. i - 1 \in 0..Len(t) /\ i - 1 \notin W /\ i \in 1..Len(t)
      BY <1>1, <2>1, <2>2, <2>3
    <2>5. g[i - 1] = h[i - 1] /\ u[i] = t[i]
      BY <1>1, <2>4
    <2> QED
      BY <1>4, <2>2, <2>3, <2>5
  <1>6. h[Len(u)] = P!Child(f, h[Len(t)], n)
    <2>1. Len(u) \in 0..Len(u) /\ Len(u) # 0 /\ Len(u) - 1 = Len(t) /\ u[Len(u)] = n
      BY <1>1
    <2> QED
      BY <1>4, <2>1
  <1> QED
    BY <1>2, <1>3, <1>5, <1>6 DEF u

Spelt(f, t, l) ==
  /\ l \in Texts /\ Len(l) = Len(t)
  /\ f.fold => \A i \in 1..Len(t) : Fold[l[i]] = Fold[t[i]]
  /\ ~f.fold => l = t

\* A location spells the text it was found with, up to the case where case is nothing.
LEMMA LocateSpelt ==
  ASSUME NEW f \in Systems, NEW t \in Texts
  PROVE  Spelt(f, t, P!Locate(f, t))
  <1> DEFINE G == {s \in Texts : Spelt(f, s, P!Locate(f, s))}
  <1>1. <<>> \in G
    <2>1. Spelt(f, <<>>, <<>>)
      BY DEF Spelt, Texts
    <2>2. <<>> \in Texts
      BY DEF Texts
    <2> QED
      BY <2>1, <2>2, LocateNone
  <1>2. ASSUME NEW s \in Texts, NEW n \in Names, s \in G
        PROVE  Append(s, n) \in G
    <2> DEFINE l == P!Locate(f, s)
               m == P!Locate(f, Append(s, n))
    <2>1. Spelt(f, s, l)
      BY <1>2
    <2>2. m = P!Child(f, l, n)
      BY LocateMore DEF Texts
    <2>3. /\ m \in Texts /\ Len(m) = Len(l) + 1 /\ SubSeq(m, 1, Len(l)) = l
          /\ f.fold => Fold[m[Len(l) + 1]] = Fold[n]
          /\ ~f.fold => m = Append(l, n)
      BY <2>1, <2>2, ChildIs DEF Spelt
    <2> HIDE DEF l, m
    <2>4. /\ Append(s, n) \in Texts /\ Len(Append(s, n)) = Len(s) + 1 /\ Append(s, n)[Len(s) + 1] = n
          /\ \A i \in 1..Len(s) : Append(s, n)[i] = s[i]
      BY DEF Texts
    <2>5. /\ Len(s) \in Nat /\ Len(l) = Len(s) /\ l \in Texts
          /\ f.fold => \A i \in 1..Len(s) : Fold[l[i]] = Fold[s[i]]
          /\ ~f.fold => l = s
      BY <2>1 DEF Spelt, Texts
    <2>6. \A i \in 1..Len(s) : m[i] = l[i]
      BY <2>3, <2>5 DEF Texts
    <2>7. ASSUME f.fold, NEW i \in 1..(Len(s) + 1)
          PROVE  Fold[m[i]] = Fold[Append(s, n)[i]]
      <3>1. CASE i = Len(s) + 1
        BY <2>3, <2>4, <2>5, <2>7, <3>1
      <3>2. CASE i \in 1..Len(s)
        BY <2>4, <2>5, <2>6, <2>7, <3>2
      <3> QED
        BY <2>5, <3>1, <3>2
    <2>8. Spelt(f, Append(s, n), m)
      BY <2>3, <2>4, <2>5, <2>7 DEF Spelt
    <2> QED
      BY <2>4, <2>8 DEF m
  <1> QED
    <2> HIDE DEF G
    <2>1. Texts \subseteq G
      BY <1>1, <1>2, EveryText
    <2> QED
      BY <2>1 DEF G

\* As far as two texts agree, so do their locations.
LEMMA LocatePart ==
  ASSUME NEW f \in Systems, NEW t \in Texts, NEW j \in 0..Len(t)
  PROVE  P!Locate(f, SubSeq(t, 1, j)) = SubSeq(P!Locate(f, t), 1, j)
  <1> DEFINE Part(s) == \A i \in 0..Len(s) : P!Locate(f, SubSeq(s, 1, i)) = SubSeq(P!Locate(f, s), 1, i)
             G == {s \in Texts : Part(s)}
  <1>1. <<>> \in G
    <2>1. SubSeq(<<>>, 1, 0) = <<>> /\ <<>> \in Texts /\ \A i \in 0..Len(<<>>) : i = 0
      BY DEF Texts
    <2>2. P!Locate(f, <<>>) = <<>>
      BY LocateNone
    <2>3. ASSUME NEW i \in 0..Len(<<>>)
          PROVE  P!Locate(f, SubSeq(<<>>, 1, i)) = SubSeq(P!Locate(f, <<>>), 1, i)
      <3>1. i = 0
        BY <2>1
      <3> QED
        BY <2>1, <2>2, <3>1
    <2> QED
      BY <2>1, <2>3
  <1>2. ASSUME NEW s \in Texts, NEW n \in Names, s \in G
        PROVE  Append(s, n) \in G
    <2> DEFINE l == P!Locate(f, s)
               u == Append(s, n)
               m == P!Locate(f, u)
    <2>1. l \in Texts /\ Len(l) = Len(s) /\ m = P!Child(f, l, n)
      BY LocateMore, LocateSpelt DEF Texts, Spelt
    <2>2. m \in Texts /\ Len(m) = Len(s) + 1 /\ SubSeq(m, 1, Len(s)) = l
      BY <2>1, ChildIs
    <2>3. u \in Texts /\ Len(u) = Len(s) + 1 /\ SubSeq(u, 1, Len(s) + 1) = u /\ Len(s) \in Nat
      BY DEF Texts
    <2>4. ASSUME NEW i \in 0..Len(u)
          PROVE  P!Locate(f, SubSeq(u, 1, i)) = SubSeq(m, 1, i)
      <3>1. CASE i = Len(s) + 1
        <4>1. SubSeq(m, 1, i) = m
          BY <2>2, <3>1 DEF Texts
        <4> QED
          BY <2>3, <3>1, <4>1
      <3>2. CASE i \in 0..Len(s)
        <4>1. SubSeq(u, 1, i) = SubSeq(s, 1, i)
          BY <3>2 DEF Texts
        <4>2. SubSeq(m, 1, i) = SubSeq(SubSeq(m, 1, Len(s)), 1, i)
          <5> HIDE DEF m
          <5> QED
            BY <2>2, <2>3, <3>2 DEF Texts
        <4>3. P!Locate(f, SubSeq(s, 1, i)) = SubSeq(l, 1, i)
          BY <1>2, <3>2
        <4> QED
          BY <2>2, <4>1, <4>2, <4>3
      <3> QED
        BY <2>3, <3>1, <3>2
    <2> QED
      BY <2>3, <2>4
  <1> QED
    <2> HIDE DEF G
    <2>1. Texts \subseteq G
      BY <1>1, <1>2, EveryText
    <2> QED
      BY <2>1 DEF G

\* Texts that lead to one place lead to one place with the same names after them.
LEMMA LocateAfter ==
  ASSUME NEW f \in Systems, NEW s \in Texts, NEW t \in Texts, NEW u \in Texts,
         P!Locate(f, s) = P!Locate(f, t)
  PROVE  P!Locate(f, s \o u) = P!Locate(f, t \o u)
  <1> DEFINE G == {v \in Texts : P!Locate(f, s \o v) = P!Locate(f, t \o v)}
  <1>1. <<>> \in G
    <2>1. s \o <<>> = s /\ t \o <<>> = t /\ <<>> \in Texts
      BY DEF Texts
    <2> QED
      BY <2>1
  <1>2. ASSUME NEW v \in Texts, NEW n \in Names, v \in G
        PROVE  Append(v, n) \in G
    <2>1. /\ Append(v, n) \in Texts /\ s \o v \in Texts /\ t \o v \in Texts
          /\ s \o Append(v, n) = Append(s \o v, n) /\ t \o Append(v, n) = Append(t \o v, n)
      BY DEF Texts
    <2>2. \A x \in Texts : P!Locate(f, Append(x, n)) = P!Child(f, P!Locate(f, x), n)
      BY LocateMore DEF Texts
    <2> QED
      BY <1>2, <2>1, <2>2
  <1> QED
    <2> HIDE DEF G
    <2>1. Texts \subseteq G
      BY <1>1, <1>2, EveryText
    <2> QED
      BY <2>1 DEF G

-----------------------------------------------------------------------------
(* The kernel's walk *)

All == Names \union {Up}

\* The function in Reaches, n steps of it.
RunTo(k, f, p, n) ==
  k = [i \in 0..n |-> IF i = 0 THEN [loc |-> <<>>, segs |-> p, hops |-> 0] ELSE P!KernelStep(f, k[i - 1])]
Run(f, p) == CHOOSE k : RunTo(k, f, p, MaxSteps)
Leads(f, p) == IF Run(f, p)[MaxSteps].segs = <<>> THEN Run(f, p)[MaxSteps].loc ELSE P!Lost

LEMMA ReachesLeads ==
  \A p : P!Reaches(p) = Leads(fs, p)
  BY DEF P!Reaches, Leads, Run, RunTo

LEMMA RunExists ==
  ASSUME NEW f, NEW p
  PROVE  \E k : RunTo(k, f, p, MaxSteps)
  <1> DEFINE begin == [loc |-> <<>>, segs |-> p, hops |-> 0]
             W == {n \in Nat : ~ \E k : RunTo(k, f, p, n)}
  <1> SUFFICES ASSUME MaxSteps \in W PROVE FALSE
    BY FileAssumption
  <1>1. PICK n \in W : \A m \in W : n <= m
    BY LeastNumber
  <1>2. RunTo([i \in 0..0 |-> begin], f, p, 0)
    <2> DEFINE g == [i \in 0..0 |-> begin]
    <2>1. \A i \in 0..0 : begin = IF i = 0 THEN begin ELSE P!KernelStep(f, g[i - 1])
      OBVIOUS
    <2> HIDE DEF g
    <2>2. g = [i \in 0..0 |-> IF i = 0 THEN begin ELSE P!KernelStep(f, g[i - 1])]
      BY <2>1 DEF g
    <2> QED
      BY <2>2 DEF RunTo, g
  <1>3. n # 0 /\ n \in Nat /\ n - 1 \in Nat /\ n - 1 \notin W
    BY <1>1, <1>2
  <1>4. PICK g : RunTo(g, f, p, n - 1)
    BY <1>3
  <1> DEFINE h == [i \in 0..n |-> IF i = n THEN P!KernelStep(f, g[n - 1]) ELSE g[i]]
  <1>5. \A i \in 0..(n - 1) : h[i] = g[i]
    BY <1>3
  <1>6. \A i \in 0..n : h[i] = IF i = 0 THEN begin ELSE P!KernelStep(f, h[i - 1])
    <2> TAKE i \in 0..n
    <2>1. CASE i = n
      BY <2>1, <1>3, <1>5
    <2>2. CASE i # n
      <3>1. i \in 0..(n - 1) /\ (i # 0 => i - 1 \in 0..(n - 1))
        BY <2>2, <1>3
      <3>2. g[i] = IF i = 0 THEN begin ELSE P!KernelStep(f, g[i - 1])
        BY <1>4, <3>1 DEF RunTo
      <3> QED
        BY <3>1, <3>2, <1>5
    <2> QED
      BY <2>1, <2>2
  <1>7. h = [i \in 0..n |-> h[i]]
    OBVIOUS
  <1> HIDE DEF h
  <1>8. RunTo(h, f, p, n)
    BY <1>6, <1>7 DEF RunTo
  <1> QED
    BY <1>1, <1>8

Place(loc, segs, hops) == [loc |-> loc, segs |-> segs, hops |-> hops]

LEMMA PlaceIs ==
  ASSUME NEW loc, NEW segs, NEW hops
  PROVE  /\ Place(loc, segs, hops).loc = loc /\ Place(loc, segs, hops).segs = segs
         /\ Place(loc, segs, hops).hops = hops
  BY DEF Place

LEMMA RunIs ==
  ASSUME NEW f, NEW p
  PROVE  /\ Run(f, p)[0] = Place(<<>>, p, 0)
         /\ \A i \in 0..MaxSteps : i # 0 => Run(f, p)[i] = P!KernelStep(f, Run(f, p)[i - 1])
  <1>1. RunTo(Run(f, p), f, p, MaxSteps)
    BY RunExists DEF Run
  <1>2. 0 \in 0..MaxSteps
    BY FileAssumption
  <1> QED
    BY <1>1, <1>2 DEF RunTo, Place

\* A walk that has arrived stays there.
LEMMA RunEnds ==
  ASSUME NEW f, NEW p, NEW i \in 0..MaxSteps, Run(f, p)[i].segs = <<>>
  PROVE  Leads(f, p) = Run(f, p)[i].loc
  <1> DEFINE k == Run(f, p)
             W == {j \in i..MaxSteps : k[j] # k[i]}
  <1>1. W = {}
    <2> SUFFICES ASSUME W # {} PROVE FALSE
      OBVIOUS
    <2>1. W \subseteq Nat
      BY FileAssumption
    <2>2. PICK j \in W : \A m \in W : j <= m
      <3> HIDE DEF W
      <3> QED
        BY <2>1, LeastNumber
    <2>3. j \in 0..MaxSteps /\ j # 0 /\ j - 1 \in i..MaxSteps /\ j - 1 \notin W
      BY <2>1, <2>2, FileAssumption
    <2>4. k[j - 1] = k[i]
      BY <2>3
    <2>5. k[j] = P!KernelStep(f, k[j - 1])
      BY <2>3, RunIs
    <2>6. P!KernelStep(f, k[i]) = k[i]
      BY DEF P!KernelStep
    <2> QED
      BY <2>2, <2>4, <2>5, <2>6
  <1>2. MaxSteps \in i..MaxSteps
    BY FileAssumption
  <1>3. k[MaxSteps] = k[i]
    BY <1>1, <1>2
  <1> QED
    BY <1>3 DEF Leads

\* One step of the kernel, case by case.
LEMMA KernelStops ==
  ASSUME NEW f, NEW loc, NEW segs, NEW hops, segs # <<>>, P!What(f, loc) # P!Dir
  PROVE  P!KernelStep(f, Place(loc, segs, hops)) = P!Nowhere
  BY DEF P!KernelStep, Place

LEMMA KernelUp ==
  ASSUME NEW f, NEW loc, NEW segs, NEW hops, segs # <<>>, P!What(f, loc) = P!Dir, Head(segs) = Up
  PROVE  P!KernelStep(f, Place(loc, segs, hops))
           = Place(IF loc = <<>> THEN loc ELSE P!Front(loc), Tail(segs), hops)
  BY DEF P!KernelStep, Place

LEMMA KernelGoes ==
  ASSUME NEW f, NEW loc, NEW segs, NEW hops, segs # <<>>, P!What(f, loc) = P!Dir, Head(segs) # Up,
         P!What(f, P!Child(f, loc, Head(segs))).kind # "link"
  PROVE  P!KernelStep(f, Place(loc, segs, hops)) = Place(P!Child(f, loc, Head(segs)), Tail(segs), hops)
  BY DEF P!KernelStep, Place

LEMMA KernelGivesUp ==
  ASSUME NEW f, NEW loc, NEW segs, NEW hops, segs # <<>>, P!What(f, loc) = P!Dir, Head(segs) # Up,
         P!What(f, P!Child(f, loc, Head(segs))).kind = "link", hops = MaxHops
  PROVE  P!KernelStep(f, Place(loc, segs, hops)) = P!Nowhere
  BY DEF P!KernelStep, Place

LEMMA KernelFollows ==
  ASSUME NEW f, NEW loc, NEW segs, NEW hops, segs # <<>>, P!What(f, loc) = P!Dir, Head(segs) # Up,
         NEW there, there = P!What(f, P!Child(f, loc, Head(segs))), there.kind = "link", hops # MaxHops
  PROVE  P!KernelStep(f, Place(loc, segs, hops))
           = Place(IF there.absolute THEN <<>> ELSE loc, there.target \o Tail(segs), hops + 1)
  BY DEF P!KernelStep, Place

\* A walk that arrives goes on while a segment is left, and out of directories only.
LEMMA RunGoesOn ==
  ASSUME NEW f, NEW p, Leads(f, p) # P!Lost, NEW i \in 0..MaxSteps, NEW loc, NEW segs, NEW hops,
         Run(f, p)[i] = Place(loc, segs, hops), segs # <<>>
  PROVE  /\ P!What(f, loc) = P!Dir
         /\ \E n \in 0..MaxSteps : /\ n = i + 1
                                   /\ Run(f, p)[n] = P!KernelStep(f, Place(loc, segs, hops))
                                   /\ Run(f, p)[n] # P!Nowhere
  <1>1. i # MaxSteps
    BY PlaceIs DEF Leads
  <1>2. i + 1 \in 0..MaxSteps /\ i + 1 # 0 /\ (i + 1) - 1 = i
    BY <1>1, FileAssumption
  <1>3. Run(f, p)[i + 1] = P!KernelStep(f, Run(f, p)[(i + 1) - 1])
    BY <1>2, RunIs
  <1>4. Run(f, p)[i + 1] = P!KernelStep(f, Place(loc, segs, hops))
    BY <1>2, <1>3
  <1>5. Run(f, p)[i + 1] # P!Nowhere
    <2> SUFFICES ASSUME Run(f, p)[i + 1] = P!Nowhere PROVE FALSE
      OBVIOUS
    <2>1. P!Nowhere.segs = <<>> /\ P!Nowhere.loc = P!Lost
      BY DEF P!Nowhere
    <2>2. Leads(f, p) = P!Nowhere.loc
      BY <1>2, <2>1, RunEnds
    <2> QED
      BY <2>1, <2>2
  <1>6. P!What(f, loc) = P!Dir
    BY <1>4, <1>5, KernelStops
  <1> QED
    BY <1>2, <1>4, <1>5, <1>6
-----------------------------------------------------------------------------
(* Directories all the way *)

LEMMA Lengths ==
  \A t \in Texts : Len(t) \in Nat
  BY DEF Texts

LEMMA OneLess ==
  ASSUME NEW n \in Nat, NEW k, k = n + 1, NEW j \in 0..(k - 1)
  PROVE  j = n \/ j \in 0..(n - 1)
  OBVIOUS

LEMMA PartIs ==
  ASSUME NEW t \in Texts, NEW n \in 0..Len(t)
  PROVE  SubSeq(t, 1, n) \in Texts /\ Len(SubSeq(t, 1, n)) = n
  BY DEF Texts

LEMMA PartOfPart ==
  ASSUME NEW t \in Texts, NEW n \in 0..Len(t), NEW j \in 0..n
  PROVE  SubSeq(SubSeq(t, 1, n), 1, j) = SubSeq(t, 1, j)
  BY DEF Texts

\* A location with directories all the way to it, and no link there.
Solid(f, l) ==
  /\ \A j \in 0..(Len(l) - 1) : P!What(f, SubSeq(l, 1, j)) = P!Dir
  /\ P!What(f, l).kind # "link"

LEMMA SolidMore ==
  ASSUME NEW f, NEW l \in Texts, NEW m \in Texts, Len(m) = Len(l) + 1, SubSeq(m, 1, Len(l)) = l,
         Solid(f, l), P!What(f, l) = P!Dir, P!What(f, m).kind # "link"
  PROVE  Solid(f, m)
  <1>1. Len(l) \in Nat
    BY Lengths
  <1>2. ASSUME NEW j \in 0..(Len(m) - 1)
        PROVE  P!What(f, SubSeq(m, 1, j)) = P!Dir
    <2>1. CASE j = Len(l)
      BY <2>1
    <2>2. CASE j \in 0..(Len(l) - 1)
      <3>1. Len(l) \in 0..Len(m) /\ j \in 0..Len(l)
        BY <1>1, <2>2
      <3>2. SubSeq(m, 1, j) = SubSeq(SubSeq(m, 1, Len(l)), 1, j)
        BY <3>1, PartOfPart
      <3> QED
        <4>1. P!What(f, SubSeq(l, 1, j)) = P!Dir
          BY <2>2, Zenon DEF Solid
        <4>2. SubSeq(m, 1, j) = SubSeq(l, 1, j)
          BY <3>2, Zenon
        <4> QED
          BY <4>1, <4>2, Zenon
    <2>3. j = Len(l) \/ j \in 0..(Len(l) - 1)
      BY <1>1, OneLess
    <2> QED
      BY <2>1, <2>2, <2>3
  <1> QED
    BY <1>2 DEF Solid

LEMMA SolidLess ==
  ASSUME NEW f, NEW l \in Texts, Solid(f, l), NEW n \in 0..Len(l), n # Len(l)
  PROVE  Solid(f, SubSeq(l, 1, n)) /\ P!What(f, SubSeq(l, 1, n)) = P!Dir
  <1> DEFINE m == SubSeq(l, 1, n)
  <1>1. Len(l) \in Nat /\ n \in 0..(Len(l) - 1) /\ Len(m) = n
    BY DEF Texts
  <1>2. \A j \in 0..(n - 1) : j \in 0..(Len(l) - 1) /\ SubSeq(m, 1, j) = SubSeq(l, 1, j)
    BY <1>1 DEF Texts
  <1> HIDE DEF m
  <1>3. P!What(f, m) = P!Dir
    BY <1>1 DEF Solid, m
  <1>4. P!What(f, m).kind # "link"
    BY <1>3, KindsDiffer
  <1>5. \A j \in 0..(Len(m) - 1) : P!What(f, SubSeq(m, 1, j)) = P!Dir
    BY <1>1, <1>2 DEF Solid
  <1> QED
    BY <1>3, <1>4, <1>5 DEF Solid, m

LEMMA SolidRoot ==
  ASSUME NEW f
  PROVE  P!What(f, <<>>) = P!Dir /\ Solid(f, <<>>)
  <1>1. P!What(f, <<>>) = P!Dir
    BY DEF P!What
  <1> QED
    BY <1>1, KindsDiffer DEF Solid

\* The text of a place without links leads there.
LEMMA SolidLeads ==
  ASSUME NEW f \in Systems, NEW t \in Texts, Solid(f, P!Locate(f, t)), Len(t) <= MaxSteps
  PROVE  Leads(f, t) = P!Locate(f, t)
  <1> DEFINE l == P!Locate(f, t)
             k == Run(f, t)
             At(i) == Place(SubSeq(l, 1, i), SubSeq(t, i + 1, Len(t)), 0)
             W == {i \in 0..Len(t) : k[i] # At(i)}
  <1>1. /\ l \in Texts /\ Len(l) = Len(t) /\ Len(t) \in Nat /\ Len(t) \in 0..MaxSteps
        /\ \A i \in 0..Len(t) : i \in 0..MaxSteps
    BY LocateSpelt, FileAssumption DEF Spelt, Texts
  <1>2. W = {}
    <2> SUFFICES ASSUME W # {} PROVE FALSE
      OBVIOUS
    <2>1. W \subseteq Nat
      BY <1>1
    <2>2. PICK j \in W : \A m \in W : j <= m
      <3> HIDE DEF W
      <3> QED
        BY <2>1, LeastNumber
    <2>3. j # 0
      <3>1. k[0] = Place(<<>>, t, 0)
        BY RunIs
      <3>2. SubSeq(l, 1, 0) = <<>> /\ SubSeq(t, 0 + 1, Len(t)) = t
        BY <1>1 DEF Texts
      <3> HIDE DEF l, k
      <3> QED
        BY <2>2, <3>1, <3>2
    <2>4. j \in 1..Len(t) /\ j - 1 \in 0..Len(t) /\ j - 1 \notin W /\ j \in 0..MaxSteps
      <3>1. j \in 0..Len(t)
        BY <2>2
      <3> HIDE DEF W
      <3>2. j \in Nat /\ Len(t) \in Nat /\ j \in 0..MaxSteps
        BY <1>1, <3>1
      <3> QED
        BY <2>2, <2>3, <3>1, <3>2
    <2> DEFINE here == SubSeq(l, 1, j - 1)
               rest == SubSeq(t, (j - 1) + 1, Len(t))
    <2>5. k[j - 1] = Place(here, rest, 0)
      BY <2>4
    <2>6. k[j] = P!KernelStep(f, k[j - 1])
      BY <2>3, <2>4, RunIs
    <2>7. /\ rest # <<>> /\ Head(rest) = t[j] /\ Tail(rest) = SubSeq(t, j + 1, Len(t))
          /\ t[j] \in Names /\ t[j] # Up
      <3> HIDE DEF W, l, k
      <3>1. j \in 1..Len(t) /\ Len(t) \in Nat /\ (j - 1) + 1 = j /\ Len(t) \in j..Len(t)
        BY <1>1, <2>4
      <3>2. t \in Seq(Names)
        BY DEF Texts
      <3>3. t[j] \in Names /\ t[j] # Up
        BY <3>1, <3>2, FileAssumption
      <3>4. rest = SubSeq(t, j, Len(t))
        BY <3>1
      <3>5. Head(rest) = t[j] /\ Tail(rest) = SubSeq(t, j + 1, Len(t))
        BY <3>1, <3>2, <3>4, HeadTailOfSubSeq
      <3>6. Len(rest) = Len(t) - j + 1
        BY <3>1, <3>2, <3>4
      <3>7. rest # <<>>
        <4>1. Len(rest) # 0 /\ Len(<<>>) = 0
          BY <3>1, <3>6
        <4> QED
          BY <4>1
      <3> QED
        BY <3>3, <3>5, <3>7
    <2>8. P!Child(f, here, t[j]) = SubSeq(l, 1, j)
      <3> DEFINE s == SubSeq(t, 1, j - 1)
      <3>1. s \in Texts /\ SubSeq(t, 1, j) = Append(s, t[j])
        BY <1>1, <2>4 DEF Texts
      <3>2. P!Locate(f, s) = here
        BY <2>4, LocatePart
      <3>3. P!Locate(f, SubSeq(t, 1, j)) = SubSeq(l, 1, j)
        BY <1>1, <2>4, LocatePart
      <3> HIDE DEF s, here, l
      <3>4. P!Locate(f, Append(s, t[j])) = P!Child(f, P!Locate(f, s), t[j])
        BY <3>1, LocateMore DEF Texts
      <3> QED
        BY <3>1, <3>2, <3>3, <3>4
    <2>9. P!What(f, here) = P!Dir
      <3>1. j - 1 \in 0..(Len(l) - 1)
        BY <1>1, <2>4
      <3> QED
        BY <3>1 DEF Solid
    <2>10. P!What(f, SubSeq(l, 1, j)).kind # "link"
      <3>1. CASE j = Len(t)
        <4>1. SubSeq(l, 1, j) = l
          BY <1>1, <3>1 DEF Texts
        <4> QED
          BY <4>1 DEF Solid
      <3>2. CASE j # Len(t)
        <4>1. j \in 0..(Len(l) - 1)
          BY <1>1, <2>4, <3>2
        <4>2. P!What(f, SubSeq(l, 1, j)) = P!Dir
          BY <4>1 DEF Solid
        <4> QED
          BY <4>2, KindsDiffer
      <3> QED
        BY <3>1, <3>2
    <2> HIDE DEF here, rest, l, k
    <2>11. k[j] = Place(SubSeq(l, 1, j), SubSeq(t, j + 1, Len(t)), 0)
      <3>1. k[j] = P!KernelStep(f, Place(here, rest, 0))
        BY <2>5, <2>6, Zenon
      <3>2. P!What(f, P!Child(f, here, Head(rest))).kind # "link"
        BY <2>7, <2>8, <2>10, Zenon
      <3>3. P!KernelStep(f, Place(here, rest, 0)) = Place(P!Child(f, here, Head(rest)), Tail(rest), 0)
        <4>1. Head(rest) # Up /\ rest # <<>>
          BY <2>7, Zenon
        <4> HIDE DEF W
        <4> QED
          BY <2>9, <3>2, <4>1, KernelGoes
      <3> QED
        BY <2>7, <2>8, <3>1, <3>3, Zenon
    <2> QED
      BY <2>2, <2>11
  <1>3. k[Len(t)] = At(Len(t))
    <2>1. Len(t) \in 0..Len(t)
      BY <1>1
    <2> QED
      BY <1>2, <2>1
  <1>4. SubSeq(t, Len(t) + 1, Len(t)) = <<>> /\ SubSeq(l, 1, Len(t)) = l
    BY <1>1 DEF Texts
  <1> HIDE DEF l, k
  <1>5. k[Len(t)].segs = <<>> /\ k[Len(t)].loc = l
    <2>1. k[Len(t)] = Place(l, <<>>, 0)
      BY <1>3, <1>4, Zenon
    <2> QED
      BY <2>1, PlaceIs
  <1> QED
    BY <1>1, <1>5, RunEnds DEF l, k
-----------------------------------------------------------------------------
(* The code's walk keeps up with the kernel's *)

WalkType == [out : Texts, pending : Seq(All), exists : BOOLEAN, hops : Nat]

LEMMA Segments ==
  ASSUME NEW p \in Seq(All), p # <<>>
  PROVE  /\ Head(p) \in All /\ Tail(p) \in Seq(All)
         /\ Head(p) # Up => Head(p) \in Names
  <1>1. Head(p) \in All /\ Tail(p) \in Seq(All)
    BY HeadTailProperties, Zenon
  <1> QED
    BY <1>1 DEF All

LEMMA FrontIs ==
  ASSUME NEW t \in Texts, t # <<>>
  PROVE  /\ P!Front(t) = SubSeq(t, 1, Len(t) - 1) /\ P!Front(t) \in Texts
         /\ Len(P!Front(t)) = Len(t) - 1 /\ Len(t) - 1 \in 0..Len(t) /\ Len(t) - 1 # Len(t)
  <1>1. P!Front(t) = SubSeq(t, 1, Len(t) - 1)
    BY DEF P!Front
  <1>2. Len(t) \in Nat /\ Len(t) # 0
    BY EmptySeq DEF Texts
  <1>3. Len(t) - 1 \in 0..Len(t) /\ Len(t) - 1 # Len(t)
    BY <1>2
  <1>4. SubSeq(t, 1, Len(t) - 1) \in Texts /\ Len(SubSeq(t, 1, Len(t) - 1)) = Len(t) - 1
    BY <1>3, PartIs
  <1> QED
    BY <1>1, <1>3, <1>4

\* What one iteration does, field by field.
LEMMA FollowIs ==
  ASSUME NEW w \in WalkType
  PROVE  LET seg == Head(w.pending)
             rest == Tail(w.pending)
             out == Append(w.out, seg)
             there == P!What(fs, P!Locate(fs, out))
             Goes(o, p, e, h) == LET v == P!Follow(w)
                                 IN /\ DOMAIN v = {"out", "pending", "exists", "hops"}
                                    /\ v.out = o /\ v.pending = p /\ (v.exists <=> e) /\ v.hops = h
         IN /\ seg = Up => Goes(IF w.out = <<>> THEN <<>> ELSE P!Front(w.out), rest, w.exists, w.hops)
            /\ seg # Up /\ ~w.exists => Goes(out, rest, FALSE, w.hops)
            /\ seg # Up /\ w.exists /\ there = P!Nothing => Goes(out, rest, FALSE, w.hops)
            /\ seg # Up /\ w.exists /\ there # P!Nothing /\ there.kind # "link" => Goes(out, rest, TRUE, w.hops)
            /\ seg # Up /\ w.exists /\ there # P!Nothing /\ there.kind = "link" /\ w.hops = MaxHops
                 => Goes(out, rest, FALSE, w.hops + 1)
            /\ seg # Up /\ w.exists /\ there # P!Nothing /\ there.kind = "link" /\ w.hops # MaxHops
                 => Goes(IF there.absolute THEN <<>> ELSE w.out, there.target \o rest, TRUE, w.hops + 1)
  BY DEF P!Follow, WalkType

\* If the path leads anywhere, the kernel is where the text leads, with as much before it.
KeepsUp(f, p, w) ==
  /\ \E i \in 0..MaxSteps :
       /\ Len(w.out) <= i
       /\ Run(f, p)[i] = Place(P!Locate(f, w.out), w.pending, w.hops)
  /\ Solid(f, P!Locate(f, w.out))
  /\ w.exists \/ w.pending = <<>>

LEMMA KeepsUpAt ==
  ASSUME NEW f, NEW p, NEW w, NEW n \in 0..MaxSteps, Len(w.out) <= n,
         Run(f, p)[n] = Place(P!Locate(f, w.out), w.pending, w.hops),
         Solid(f, P!Locate(f, w.out)), w.exists \/ w.pending = <<>>
  PROVE  KeepsUp(f, p, w)
  BY Zenon DEF KeepsUp

Walking(f, p, w) == w \in WalkType /\ (Leads(f, p) # P!Lost => KeepsUp(f, p, w))

\* A resolved path has no links and leads where the path does.
Walked(f, p, out) ==
  /\ out \in Texts
  /\ Leads(f, p) # P!Lost => /\ Leads(f, p) = P!Locate(f, out)
                             /\ Solid(f, P!Locate(f, out)) /\ Len(out) <= MaxSteps

LEMMA StartWalks ==
  ASSUME NEW f, NEW p \in Seq(All)
  PROVE  Walking(f, p, P!Start(p))
  <1> DEFINE w == P!Start(p)
  <1>1. w \in WalkType /\ w.out = <<>> /\ w.pending = p /\ w.exists /\ w.hops = 0
    BY DEF WalkType, P!Start, Texts
  <1> HIDE DEF w
  <1>2. P!Locate(f, w.out) = <<>> /\ Run(f, p)[0] = Place(<<>>, p, 0)
    BY <1>1, LocateNone, RunIs
  <1>3. 0 \in 0..MaxSteps /\ Len(w.out) <= 0
    BY <1>1, FileAssumption
  <1>4. Solid(f, P!Locate(f, w.out))
    BY <1>2, SolidRoot
  <1>5. KeepsUp(f, p, w)
    BY <1>1, <1>2, <1>3, <1>4 DEF KeepsUp
  <1> QED
    BY <1>1, <1>5 DEF Walking, w

LEMMA WalkEnds ==
  ASSUME NEW f, NEW p, NEW w, Walking(f, p, w), w.pending = <<>>
  PROVE  Walked(f, p, w.out)
  <1>1. w.out \in Texts
    BY DEF Walking, WalkType
  <1>2. ASSUME Leads(f, p) # P!Lost
        PROVE  Leads(f, p) = P!Locate(f, w.out) /\ Solid(f, P!Locate(f, w.out)) /\ Len(w.out) <= MaxSteps
    <2>1. Solid(f, P!Locate(f, w.out))
      BY <1>2 DEF Walking, KeepsUp
    <2>2. PICK i \in 0..MaxSteps :
            /\ Len(w.out) <= i
            /\ Run(f, p)[i] = Place(P!Locate(f, w.out), w.pending, w.hops)
      BY <1>2 DEF Walking, KeepsUp
    <2>3. Leads(f, p) = P!Locate(f, w.out)
      BY <2>2, RunEnds, PlaceIs
    <2>4. Len(w.out) <= MaxSteps
      BY <1>1, <2>2, FileAssumption DEF Texts
    <2> QED
      BY <2>1, <2>3, <2>4
  <1> QED
    BY <1>1, <1>2 DEF Walked

LEMMA FollowTypes ==
  ASSUME fs \in Systems, NEW w \in WalkType, w.pending # <<>>
  PROVE  P!Follow(w) \in WalkType
  <1> DEFINE seg == Head(w.pending)
             rest == Tail(w.pending)
             out == Append(w.out, seg)
             l == P!Locate(fs, out)
             there == P!What(fs, l)
             v == P!Follow(w)
  <1>1. /\ w.out \in Texts /\ w.pending \in Seq(All) /\ w.exists \in BOOLEAN /\ w.hops \in Nat
    BY DEF WalkType
  <1>2. rest \in Seq(All) /\ (seg # Up => seg \in Names)
    BY <1>1, Segments
  <1>3. seg # Up => out \in Texts
    BY <1>1, <1>2 DEF Texts
  <1>4. w.out # <<>> => P!Front(w.out) \in Texts
    BY <1>1, FrontIs
  <1>5. <<>> \in Texts
    BY DEF Texts
  <1>6. there.kind = "link" => there.target \in Seq(All)
    BY SystemIs, KindsDiffer DEF All
  <1>7. there.kind = "link" => there.target \o rest \in Seq(All)
    BY <1>2, <1>6
  <1> HIDE DEF seg, rest, out, there
  <1>8. v.exists \in BOOLEAN
    BY <1>1 DEF P!Follow, WalkType
  <1>9. v.out \in Texts
    BY <1>1, <1>3, <1>4, <1>5, FollowIs DEF seg, rest, out, there
  <1>10. v.pending \in Seq(All)
    <2>1. v.pending = rest \/ (there.kind = "link" /\ v.pending = there.target \o rest)
      BY <1>1, FollowIs DEF seg, rest, out, there
    <2> HIDE DEF v
    <2> QED
      BY <1>2, <1>7, <2>1
  <1>11. v.hops \in Nat
    <2>1. v.hops = w.hops \/ v.hops = w.hops + 1
      BY <1>1, FollowIs DEF seg, rest, out, there
    <2> HIDE DEF v
    <2> QED
      BY <1>1, <2>1
  <1>12. v = [out |-> v.out, pending |-> v.pending, exists |-> v.exists, hops |-> v.hops]
    BY DEF P!Follow, WalkType
  <1> QED
    BY <1>8, <1>9, <1>10, <1>11, <1>12 DEF WalkType

LEMMA FollowKeepsUp ==
  ASSUME fs \in Systems, NEW p, NEW w \in WalkType, w.pending # <<>>, Leads(fs, p) # P!Lost, KeepsUp(fs, p, w)
  PROVE  KeepsUp(fs, p, P!Follow(w))
  <1> DEFINE seg == Head(w.pending)
             rest == Tail(w.pending)
             out == Append(w.out, seg)
             l == P!Locate(fs, w.out)
             next == P!Child(fs, l, seg)
             there == P!What(fs, next)
             v == P!Follow(w)
             k == Run(fs, p)
  <1>1. w.out \in Texts /\ w.pending \in Seq(All) /\ w.exists /\ w.hops \in Nat /\ Len(w.out) \in Nat
    BY DEF WalkType, KeepsUp, Texts
  <1>2. rest \in Seq(All) /\ (seg # Up => seg \in Names)
    BY <1>1, Segments
  <1>3. Solid(fs, l) /\ l \in Texts /\ Len(l) = Len(w.out)
    BY <1>1, LocateSpelt DEF Spelt, KeepsUp
  <1>4. PICK i \in 0..MaxSteps : Len(w.out) <= i /\ k[i] = Place(l, w.pending, w.hops)
    BY DEF KeepsUp
  <1>5. /\ P!What(fs, l) = P!Dir
        /\ \E n \in 0..MaxSteps : /\ n = i + 1
                                  /\ k[n] = P!KernelStep(fs, Place(l, w.pending, w.hops))
                                  /\ k[n] # P!Nowhere
    <2> HIDE DEF l
    <2> QED
      BY <1>4, RunGoesOn
  <1> PICK n \in 0..MaxSteps : /\ n = i + 1
                              /\ k[n] = P!KernelStep(fs, Place(l, w.pending, w.hops))
                              /\ k[n] # P!Nowhere
    BY <1>5
  <1>0. n \in Nat /\ Len(w.out) + 1 <= n /\ Len(w.out) <= n /\ Len(w.out) - 1 <= n /\ 0 <= n
    BY <1>1, <1>4, FileAssumption
  <1>6. ASSUME seg # Up
        PROVE  /\ out \in Texts /\ Len(out) = Len(w.out) + 1 /\ P!Locate(fs, out) = next
               /\ next \in Texts /\ Len(next) = Len(l) + 1 /\ SubSeq(next, 1, Len(l)) = l
               /\ there.kind # "link" => Solid(fs, next)
    <2>1. out \in Texts /\ Len(out) = Len(w.out) + 1
      BY <1>1, <1>2, <1>6 DEF Texts
    <2>2. P!Locate(fs, out) = next
      BY <1>1, LocateMore DEF Texts
    <2> HIDE DEF l, out
    <2>3. next \in Texts /\ Len(next) = Len(l) + 1 /\ SubSeq(next, 1, Len(l)) = l
      BY <1>2, <1>3, <1>6, ChildIs
    <2> HIDE DEF next
    <2>4. there.kind # "link" => Solid(fs, next)
      BY <1>3, <1>5, <2>3, SolidMore
    <2> QED
      BY <2>1, <2>2, <2>3, <2>4
  <1>8. CASE seg = Up
    <2> DEFINE o == IF w.out = <<>> THEN <<>> ELSE P!Front(w.out)
    <2>1. v.out = o /\ v.pending = rest /\ v.hops = w.hops /\ v.exists
      BY <1>1, <1>8, FollowIs
    <2> DEFINE up == IF l = <<>> THEN l ELSE P!Front(l)
    <2>2. k[n] = Place(up, rest, w.hops)
      <3> HIDE DEF l
      <3> QED
        BY <1>5, <1>8, KernelUp
    <2>3. /\ o \in Texts /\ Len(o) <= n
          /\ P!Locate(fs, o) = up
          /\ Solid(fs, P!Locate(fs, o))
      <3>1. CASE w.out = <<>>
        <4>1. l = <<>> /\ o = <<>> /\ up = <<>>
          BY <3>1, LocateNone
        <4>2. Len(o) = 0
          BY <4>1
        <4> QED
          BY <3>1, <4>1, <4>2, <1>0, <1>1, <1>3
      <3>2. CASE w.out # <<>>
        <4>1. /\ o = SubSeq(w.out, 1, Len(w.out) - 1) /\ o \in Texts /\ Len(o) = Len(w.out) - 1
              /\ Len(w.out) - 1 \in 0..Len(w.out)
          BY <1>1, <3>2, FrontIs
        <4>2. P!Locate(fs, o) = SubSeq(l, 1, Len(w.out) - 1)
          BY <1>1, <4>1, LocatePart
        <4>3. l # <<>>
          BY <1>3, <1>1, <3>2 DEF Texts
        <4>6. up = P!Front(l)
          BY <4>3
        <4> HIDE DEF l, o, up
        <4>4. /\ P!Front(l) = SubSeq(l, 1, Len(w.out) - 1)
              /\ Len(w.out) - 1 \in 0..Len(l) /\ Len(w.out) - 1 # Len(l)
          BY <1>3, <4>3, FrontIs
        <4>5. Solid(fs, SubSeq(l, 1, Len(w.out) - 1))
          BY <1>3, <4>4, SolidLess
        <4> QED
          BY <1>0, <4>1, <4>2, <4>4, <4>5, <4>6
      <3> QED
        BY <3>1, <3>2
    <2>4. v.out = o /\ v.pending = rest /\ v.hops = w.hops /\ (v.exists \/ rest = <<>>)
      BY <2>1
    <2> HIDE DEF o, v, up
    <2>5. k[n] = Place(P!Locate(fs, v.out), v.pending, v.hops)
      BY <2>2, <2>3, <2>4, Zenon
    <2>6. Len(v.out) <= n /\ Solid(fs, P!Locate(fs, v.out)) /\ (v.exists \/ v.pending = <<>>)
      BY <2>3, <2>4, Zenon
    <2>8. KeepsUp(fs, p, v)
      BY <2>5, <2>6, KeepsUpAt, Zenon
    <2> QED
      BY <2>8 DEF v
  <1>9. CASE seg # Up /\ there.kind # "link"
    <2>1. v.out = out /\ v.pending = rest /\ v.hops = w.hops /\ (there # P!Nothing => v.exists)
      <3>1. P!Locate(fs, out) = next
        BY <1>6, <1>9
      <3> QED
        BY <1>1, <1>9, <3>1, FollowIs
    <2> HIDE DEF out, v, next, l
    <2>2. k[n] = Place(next, rest, w.hops)
      BY <1>5, <1>9, KernelGoes DEF next
    <2>3. v.exists \/ rest = <<>>
      <3> SUFFICES ASSUME there = P!Nothing, rest # <<>> PROVE FALSE
        BY <2>1
      <3>1. P!What(fs, next) = P!Dir
        <4>1. Run(fs, p)[n] = Place(next, rest, w.hops) /\ rest # <<>>
          BY <2>2
        <4> HIDE DEF rest
        <4> QED
          BY <4>1, RunGoesOn
      <3> QED
        BY <3>1, KindsDiffer
    <2>4. Len(out) <= n
      BY <1>0, <1>6, <1>9
    <2>5. P!Locate(fs, v.out) = next /\ Solid(fs, P!Locate(fs, v.out))
      BY <1>6, <1>9, <2>1, Zenon
    <2>6. k[n] = Place(P!Locate(fs, v.out), v.pending, v.hops)
      BY <2>1, <2>2, <2>5, Zenon
    <2>7. Len(v.out) <= n /\ (v.exists \/ v.pending = <<>>)
      BY <2>1, <2>3, <2>4, Zenon
    <2>8. KeepsUp(fs, p, v)
      BY <2>5, <2>6, <2>7, KeepsUpAt, Zenon
    <2> QED
      BY <2>8 DEF v
  <1>10. CASE seg # Up /\ there.kind = "link"
    <2>1. w.hops # MaxHops
      <3> SUFFICES ASSUME w.hops = MaxHops PROVE FALSE
        OBVIOUS
      <3> HIDE DEF l
      <3> QED
        BY <1>5, <1>10, KernelGivesUp
    <2> DEFINE o == IF there.absolute THEN <<>> ELSE w.out
    <2>2. v.out = o /\ v.pending = there.target \o rest /\ v.hops = w.hops + 1 /\ v.exists
      <3>1. P!Locate(fs, out) = next
        BY <1>6, <1>10
      <3>2. there # P!Nothing
        BY <1>10, KindsDiffer
      <3> QED
        BY <1>1, <1>10, <2>1, <3>1, <3>2, FollowIs
    <2> DEFINE from == IF there.absolute THEN <<>> ELSE l
    <2>3. k[n] = Place(from, there.target \o rest, w.hops + 1)
      <3> HIDE DEF l
      <3> QED
        BY <1>5, <1>10, <2>1, KernelFollows
    <2>4. /\ o \in Texts /\ Len(o) <= n /\ Solid(fs, P!Locate(fs, o))
          /\ P!Locate(fs, o) = from
      <3>1. CASE there.absolute
        <4>1. o = <<>> /\ P!Locate(fs, <<>>) = <<>> /\ Solid(fs, <<>>) /\ <<>> \in Texts /\ Len(<<>>) = 0
          BY <3>1, LocateNone, SolidRoot DEF Texts
        <4> QED
          BY <1>0, <3>1, <4>1
      <3>2. CASE ~there.absolute
        <4>1. o = w.out /\ from = l
          BY <3>2
        <4> QED
          BY <1>0, <1>1, <1>3, <4>1
      <3> QED
        BY <3>1, <3>2
    <2> HIDE DEF o, v, from
    <2>5. k[n] = Place(P!Locate(fs, v.out), v.pending, v.hops)
      BY <2>2, <2>3, <2>4, Zenon
    <2>6. Len(v.out) <= n /\ Solid(fs, P!Locate(fs, v.out)) /\ v.exists
      BY <2>2, <2>4, Zenon
    <2>8. KeepsUp(fs, p, v)
      BY <2>5, <2>6, KeepsUpAt, Zenon
    <2> QED
      BY <2>8 DEF v
  <1> QED
    BY <1>8, <1>9, <1>10
-----------------------------------------------------------------------------
(* Inside, in text and on disk *)

LEMMA PrefixIs ==
  ASSUME NEW s \in Texts, NEW t \in Texts
  PROVE  /\ P!IsPrefix(s, t) <=> Len(s) <= Len(t) /\ s = SubSeq(t, 1, Len(s))
         /\ P!IsPrefix(s, t) <=> Len(s) <= Len(t) /\ \A i \in 1..Len(s) : s[i] = t[i]
  <1>1. SubSeq(s, 1, Len(s)) = s /\ Len(s) \in Nat /\ Len(t) \in Nat
    BY DEF Texts
  <1>2. P!IsPrefix(s, t) <=> Len(s) <= Len(t) /\ s = SubSeq(t, 1, Len(s))
    BY <1>1 DEF P!IsPrefix
  <1>3. ASSUME Len(s) <= Len(t)
        PROVE  s = SubSeq(t, 1, Len(s)) <=> \A i \in 1..Len(s) : s[i] = t[i]
    <2> DEFINE u == SubSeq(t, 1, Len(s))
    <2>1. u \in Texts /\ Len(u) = Len(s) /\ \A i \in 1..Len(s) : u[i] = t[i]
      BY <1>1, <1>3 DEF Texts
    <2> HIDE DEF u
    <2>2. (\A i \in 1..Len(s) : s[i] = u[i]) => s = u
      BY <2>1, SeqEqual DEF Texts
    <2>3. s = u <=> \A i \in 1..Len(s) : s[i] = t[i]
      BY <2>1, <2>2
    <2> QED
      BY <2>3 DEF u
  <1> QED
    BY <1>2, <1>3

LEMMA LowerIs ==
  ASSUME NEW t \in Texts
  PROVE  /\ P!Lower(t) \in Texts /\ Len(P!Lower(t)) = Len(t)
         /\ \A i \in 1..Len(t) : P!Lower(t)[i] = Fold[t[i]]
  <1>1. DOMAIN t = 1..Len(t) /\ Len(t) \in Nat /\ \A i \in 1..Len(t) : t[i] \in Names /\ Fold[t[i]] \in Names
    BY FileAssumption DEF Texts
  <1>2. P!Lower(t) = [i \in 1..Len(t) |-> Fold[t[i]]]
    BY <1>1 DEF P!Lower
  <1>3. P!Lower(t) \in Seq(Names) /\ Len(P!Lower(t)) = Len(t)
    BY <1>1, <1>2
  <1> QED
    BY <1>1, <1>2, <1>3 DEF Texts

\* Of a text that leads below a place, the part that leads to the place is as solid.
LEMMA PartLeads ==
  ASSUME NEW f \in Systems, NEW t \in Texts, NEW n \in 0..Len(t), n # Len(t),
         Solid(f, P!Locate(f, t)), Len(t) <= MaxSteps
  PROVE  /\ Leads(f, SubSeq(t, 1, n)) = P!Locate(f, SubSeq(t, 1, n))
         /\ P!What(f, P!Locate(f, SubSeq(t, 1, n))) = P!Dir
  <1> DEFINE l == P!Locate(f, t)
             s == SubSeq(t, 1, n)
  <1>1. l \in Texts /\ Len(l) = Len(t)
    BY LocateSpelt DEF Spelt
  <1>2. s \in Texts /\ Len(s) = n /\ n <= MaxSteps
    BY FileAssumption DEF Texts
  <1>3. P!Locate(f, s) = SubSeq(l, 1, n)
    BY LocatePart
  <1> HIDE DEF l, s
  <1>4. Solid(f, SubSeq(l, 1, n)) /\ P!What(f, SubSeq(l, 1, n)) = P!Dir
    BY <1>1, SolidLess DEF l
  <1>5. Leads(f, s) = P!Locate(f, s) /\ P!What(f, P!Locate(f, s)) = P!Dir
    BY <1>2, <1>3, <1>4, SolidLeads
  <1> QED
    BY <1>5 DEF s

\* A place that leads nowhere is not one a text leads to.
LEMMA LocateIsSomewhere ==
  ASSUME NEW f \in Systems, NEW t \in Texts
  PROVE  P!Locate(f, t) # P!Lost
  <1>1. P!Locate(f, t) \in Seq(Names)
    BY LocateSpelt DEF Spelt, Texts
  <1>2. P!Lost \notin Seq(Names)
    BY FileAssumption DEF P!Lost
  <1> QED
    BY <1>1, <1>2

\* Inside, of two resolved texts.
InText(f, r, q) ==
  \/ P!IsPrefix(r, q)
  \/ /\ Len(q) > Len(r)
     /\ P!IsPrefix(P!Lower(r), P!Lower(q))
     /\ LET a == SubSeq(q, 1, Len(r))
        IN Leads(f, a) # P!Lost /\ Leads(f, a) = Leads(f, r) /\ P!What(f, Leads(f, a)) # P!Nothing

LEMMA InsideIs == P!Inside <=> InText(fs, resolved.root, resolved.path)
  BY ReachesLeads DEF P!Inside, InText, P!SameDir, P!Above

\* A text inside the root begins with one that leads to the root.
LEMMA InTextOnDisk ==
  ASSUME NEW f \in Systems, NEW r \in Texts, NEW q \in Texts, Len(q) <= MaxSteps, Len(r) <= MaxSteps,
         Solid(f, P!Locate(f, r)), Solid(f, P!Locate(f, q)), InText(f, r, q)
  PROVE  Len(r) <= Len(q) /\ P!Locate(f, SubSeq(q, 1, Len(r))) = P!Locate(f, r)
  <1>1. Len(r) \in Nat /\ Len(q) \in Nat
    BY DEF Texts
  <1>2. CASE P!IsPrefix(r, q)
    <2>1. Len(r) <= Len(q) /\ r = SubSeq(q, 1, Len(r))
      BY <1>2, PrefixIs
    <2> QED
      BY <2>1
  <1>3. CASE Len(q) > Len(r) /\ Leads(f, SubSeq(q, 1, Len(r))) = Leads(f, r)
    <2>1. Leads(f, SubSeq(q, 1, Len(r))) = P!Locate(f, SubSeq(q, 1, Len(r)))
      BY <1>1, <1>3, PartLeads
    <2>2. Leads(f, r) = P!Locate(f, r)
      BY SolidLeads
    <2> QED
      BY <1>1, <1>3, <2>1, <2>2
  <1> QED
    BY <1>2, <1>3 DEF InText

\* A text that leads below the root begins with the root's, up to the case where case is nothing.
LEMMA OnDiskInText ==
  ASSUME NEW f \in Systems, NEW r \in Texts, NEW q \in Texts, Len(q) <= MaxSteps, Len(r) <= MaxSteps,
         Solid(f, P!Locate(f, r)), Solid(f, P!Locate(f, q)),
         P!IsPrefix(P!Locate(f, r), P!Locate(f, q)), P!Locate(f, r) # P!Locate(f, q)
  PROVE  InText(f, r, q)
  <1> DEFINE l == P!Locate(f, r)
             m == P!Locate(f, q)
             a == SubSeq(q, 1, Len(r))
  <1>1. Spelt(f, r, l) /\ Spelt(f, q, m)
    BY LocateSpelt
  <1>2. /\ l \in Texts /\ m \in Texts /\ Len(l) = Len(r) /\ Len(m) = Len(q)
        /\ Len(r) \in Nat /\ Len(q) \in Nat
    BY <1>1 DEF Spelt, Texts
  <1>3. Len(r) <= Len(q) /\ l = SubSeq(m, 1, Len(r)) /\ \A i \in 1..Len(r) : l[i] = m[i]
    <2> HIDE DEF l, m
    <2> QED
      BY <1>2, PrefixIs DEF l, m
  <1>4. Len(r) # Len(q)
    <2> SUFFICES ASSUME Len(r) = Len(q) PROVE FALSE
      OBVIOUS
    <2>1. SubSeq(m, 1, Len(m)) = m
      BY <1>2 DEF Texts
    <2> QED
      BY <1>2, <1>3, <2>1
  <1>5. Len(r) < Len(q) /\ Len(r) \in 0..Len(q)
    BY <1>2, <1>3, <1>4
  <1>6. CASE ~f.fold
    <2>1. l = r /\ m = q
      BY <1>1, <1>6 DEF Spelt
    <2> QED
      BY <2>1 DEF InText
  <1>7. CASE f.fold
    <2>1. P!IsPrefix(P!Lower(r), P!Lower(q))
      <3>1. \A i \in 1..Len(r) : i \in 1..Len(q) /\ Fold[r[i]] = Fold[q[i]]
        <4> HIDE DEF l, m
        <4> QED
          BY <1>1, <1>2, <1>3, <1>5, <1>7 DEF Spelt
      <3>2. /\ P!Lower(r) \in Texts /\ Len(P!Lower(r)) = Len(r)
            /\ \A i \in 1..Len(r) : P!Lower(r)[i] = Fold[r[i]]
        BY LowerIs
      <3>3. /\ P!Lower(q) \in Texts /\ Len(P!Lower(q)) = Len(q)
            /\ \A i \in 1..Len(q) : P!Lower(q)[i] = Fold[q[i]]
        BY LowerIs
      <3>4. \A i \in 1..Len(P!Lower(r)) : P!Lower(r)[i] = P!Lower(q)[i]
        BY <3>1, <3>2, <3>3
      <3> QED
        BY <1>3, <3>2, <3>3, <3>4, PrefixIs
    <2>2. P!Locate(f, a) = l
      BY <1>3, <1>5, LocatePart
    <2>3. Leads(f, a) = l /\ P!What(f, l) = P!Dir
      BY <1>4, <1>5, <2>2, PartLeads
    <2>4. Leads(f, r) = l
      BY SolidLeads
    <2>5. l # P!Lost
      BY LocateIsSomewhere
    <2> HIDE DEF l, a
    <2>6. Leads(f, a) # P!Lost /\ Leads(f, a) = Leads(f, r) /\ P!What(f, Leads(f, a)) # P!Nothing
      BY <2>3, <2>4, <2>5, KindsDiffer
    <2> QED
      BY <1>5, <2>1, <2>6 DEF InText, a
  <1> QED
    BY <1>6, <1>7

LEMMA OnDisk ==
  ASSUME NEW f \in Systems, NEW r \in Texts, NEW q \in Texts, Len(q) <= MaxSteps, Len(r) <= MaxSteps,
         Solid(f, P!Locate(f, r)), Solid(f, P!Locate(f, q)), P!Locate(f, r) # P!Locate(f, q)
  PROVE  /\ InText(f, r, q) <=> P!IsPrefix(P!Locate(f, r), P!Locate(f, q))
         /\ InText(f, r, q) => Leads(f, r \o SubSeq(q, Len(r) + 1, Len(q))) = P!Locate(f, q)
  <1>1. ASSUME InText(f, r, q)
        PROVE  P!IsPrefix(P!Locate(f, r), P!Locate(f, q))
    <2>1. Len(r) <= Len(q) /\ P!Locate(f, SubSeq(q, 1, Len(r))) = P!Locate(f, r)
      BY <1>1, InTextOnDisk
    <2>2. Len(r) \in 0..Len(q)
      BY <2>1 DEF Texts
    <2>3. P!Locate(f, r) = SubSeq(P!Locate(f, q), 1, Len(r))
      BY <2>1, <2>2, LocatePart
    <2>4. /\ P!Locate(f, r) \in Texts /\ Len(P!Locate(f, r)) = Len(r)
          /\ P!Locate(f, q) \in Texts /\ Len(P!Locate(f, q)) = Len(q)
      BY LocateSpelt DEF Spelt
    <2> QED
      BY <2>1, <2>3, <2>4, PrefixIs
  <1>2. ASSUME InText(f, r, q)
        PROVE  Leads(f, r \o SubSeq(q, Len(r) + 1, Len(q))) = P!Locate(f, q)
    <2> DEFINE a == SubSeq(q, 1, Len(r))
               b == SubSeq(q, Len(r) + 1, Len(q))
    <2>1. Len(r) <= Len(q) /\ P!Locate(f, a) = P!Locate(f, r)
      BY <1>2, InTextOnDisk
    <2>2. a \in Texts /\ b \in Texts /\ r \o b \in Texts /\ Len(r \o b) = Len(q) /\ a \o b = q
      <3>1. r \in Seq(Names) /\ q \in Seq(Names) /\ Len(r) \in Nat /\ Len(q) \in Nat
        BY DEF Texts
      <3>2. /\ 1 \in 1..(Len(q) + 1) /\ Len(r) \in (1 - 1)..Len(q) /\ Len(q) \in Len(r)..Len(q)
        BY <2>1, <3>1
      <3>3. a \in Seq(Names) /\ b \in Seq(Names) /\ Len(b) = Len(q) - Len(r)
        BY <2>1, <3>1
      <3>4. a \o b = SubSeq(q, 1, Len(q))
        BY <3>1, <3>2, ConcatAdjacentSubSeq
      <3>5. SubSeq(q, 1, Len(q)) = q
        BY <3>1, SubSeqFull
      <3> HIDE DEF a, b
      <3>6. r \o b \in Seq(Names) /\ Len(r \o b) = Len(r) + Len(b)
        BY <3>1, <3>3
      <3>7. Len(r \o b) = Len(q)
        BY <3>1, <3>3, <3>6
      <3> QED
        BY <3>3, <3>4, <3>5, <3>6, <3>7 DEF Texts
    <2> HIDE DEF a, b
    <2>3. P!Locate(f, r \o b) = P!Locate(f, q)
      BY <2>1, <2>2, LocateAfter
    <2> DEFINE t == r \o b
    <2>4. t \in Texts /\ Len(t) <= MaxSteps /\ P!Locate(f, t) = P!Locate(f, q)
      BY <2>2, <2>3
    <2> HIDE DEF t
    <2>5. Leads(f, t) = P!Locate(f, q)
      BY <2>4, SolidLeads
    <2> QED
      BY <2>5 DEF t, b
  <1> QED
    BY <1>1, <1>2, OnDiskInText
-----------------------------------------------------------------------------
\* While a path is resolved its text keeps up with the kernel; once it is, it leads where the path did.
PathInv ==
  /\ pc \in {"ask", "path", "root", "done"}
  /\ resolved = [path |-> resolved.path, root |-> resolved.root]
  /\ pc # "ask" => fs \in Systems /\ path \in Seq(All) /\ root \in Seq(All)
  /\ pc = "path" => Walking(fs, path, walk)
  /\ pc = "root" => Walking(fs, root, walk)
  /\ pc \in {"root", "done"} => Walked(fs, path, resolved.path)
  /\ pc = "done" => Walked(fs, root, resolved.root)

LEMMA PathInside ==
  ASSUME PathInv
  PROVE  InsideAsOnDisk
  <1> SUFFICES ASSUME pc = "done", P!Lost \notin {P!Reaches(path), P!Reaches(root)},
                      P!Reaches(path) # P!Reaches(root)
               PROVE  /\ P!Inside <=> P!IsPrefix(P!Reaches(root), P!Reaches(path))
                      /\ P!Inside => P!Reaches(resolved.root \o P!RelToRoot) = P!Reaches(path)
    BY DEF InsideAsOnDisk, P!InsideAsOnDisk
  <1> DEFINE q == resolved.path
             r == resolved.root
  <1>1. /\ P!Reaches(path) = Leads(fs, path) /\ P!Reaches(root) = Leads(fs, root)
        /\ P!Reaches(r \o P!RelToRoot) = Leads(fs, r \o P!RelToRoot)
    BY ReachesLeads
  <1>2. fs \in Systems /\ Walked(fs, path, q) /\ Walked(fs, root, r)
    BY DEF PathInv
  <1>3. /\ q \in Texts /\ Leads(fs, path) = P!Locate(fs, q) /\ Solid(fs, P!Locate(fs, q)) /\ Len(q) <= MaxSteps
        /\ r \in Texts /\ Leads(fs, root) = P!Locate(fs, r) /\ Solid(fs, P!Locate(fs, r)) /\ Len(r) <= MaxSteps
    BY <1>1, <1>2 DEF Walked
  <1>4. P!Inside => P!RelToRoot = SubSeq(q, Len(r) + 1, Len(q))
    BY DEF P!RelToRoot, P!Below
  <1>5. /\ InText(fs, r, q) <=> P!IsPrefix(P!Locate(fs, r), P!Locate(fs, q))
        /\ InText(fs, r, q) => Leads(fs, r \o SubSeq(q, Len(r) + 1, Len(q))) = P!Locate(fs, q)
    BY <1>1, <1>2, <1>3, OnDisk
  <1> QED
    BY <1>1, <1>3, <1>4, <1>5, InsideIs

LEMMA PathStep ==
  ASSUME PathInv, [P!Next]_(P!vars)
  PROVE  PathInv'
  <1>1. CASE P!Ask
    <2>1. /\ fs' \in Systems /\ path' \in FilePaths /\ root' \in Roots /\ pc' = "path"
          /\ walk' = P!Start(path') /\ resolved' = resolved
      BY <1>1 DEF P!Ask
    <2>2. path' \in Seq(All) /\ root' \in Seq(All)
      BY <2>1, FileAssumption DEF All
    <2>3. Walking(fs', path', walk')
      BY <2>1, <2>2, StartWalks
    <2> QED
      BY <2>1, <2>2, <2>3 DEF PathInv
  <1>2. CASE P!Resolve /\ walk.pending # <<>>
    <2>1. pc \in {"path", "root"} /\ walk' = P!Follow(walk) /\ UNCHANGED <<fs, path, root, pc, resolved>>
      BY <1>2 DEF P!Resolve
    <2>2. ASSUME NEW p, Walking(fs, p, walk)
          PROVE  Walking(fs, p, walk')
      <3>1. fs \in Systems /\ walk \in WalkType
        BY <2>1, <2>2 DEF PathInv, Walking
      <3>2. walk' \in WalkType
        BY <1>2, <2>1, <3>1, FollowTypes
      <3>3. Leads(fs, p) # P!Lost => KeepsUp(fs, p, P!Follow(walk))
        BY <1>2, <2>2, <3>1, FollowKeepsUp DEF Walking
      <3> QED
        BY <2>1, <3>2, <3>3 DEF Walking
    <2> QED
      BY <2>1, <2>2 DEF PathInv
  <1>3. CASE P!Resolve /\ walk.pending = <<>>
    <2>1. /\ pc \in {"path", "root"} /\ resolved' = [resolved EXCEPT ![pc] = walk.out]
          /\ pc' = (IF pc = "path" THEN "root" ELSE "done") /\ walk' = P!Start(root)
          /\ UNCHANGED <<fs, path, root>>
      BY <1>3 DEF P!Resolve
    <2>2. CASE pc = "path"
      <3>1. Walked(fs, path, walk.out)
        BY <1>3, <2>2, WalkEnds DEF PathInv
      <3>2. resolved' = [path |-> walk.out, root |-> resolved.root]
        BY <2>1, <2>2 DEF PathInv
      <3>3. Walking(fs, root, walk')
        BY <2>1, <2>2, StartWalks DEF PathInv
      <3> QED
        BY <2>1, <2>2, <3>1, <3>2, <3>3 DEF PathInv
    <2>3. CASE pc = "root"
      <3>1. Walked(fs, root, walk.out)
        BY <1>3, <2>3, WalkEnds DEF PathInv
      <3>2. resolved' = [path |-> resolved.path, root |-> walk.out]
        BY <2>1, <2>3 DEF PathInv
      <3> QED
        BY <2>1, <2>3, <3>1, <3>2 DEF PathInv
    <2> QED
      BY <2>1, <2>2, <2>3
  <1>4. CASE UNCHANGED P!vars
    BY <1>4 DEF P!vars, PathInv
  <1> QED
    BY <1>1, <1>2, <1>3, <1>4 DEF P!Next

\* The answer to "is this path in the repository", and the path in it that the rules are matched
\* against, are right on any file system, whatever links and spellings the path or HM_ROOT goes
\* through (resolve_fs, same_dir and rel_to_root of main.rs).
THEOREM InsideAsOnDiskCorrect == P!Spec => []InsideAsOnDisk
  <1>1. P!Init => PathInv
    BY DEF P!Init, PathInv
  <1>2. PathInv /\ [P!Next]_(P!vars) => PathInv'
    BY PathStep
  <1>3. PathInv => InsideAsOnDisk
    BY PathInside
  <1> QED
    BY <1>1, <1>2, <1>3, PTL DEF P!Spec
=============================================================================
