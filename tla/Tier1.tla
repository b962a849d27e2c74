------------------------------- MODULE Tier1 -------------------------------
(***************************************************************************)
(* What the server keeps of the store for Tier 1, the map of components    *)
(* (GraphCache, whose names this module has), what it selects from it for  *)
(* a question about some paths (RuleSelection), and where a path lies in   *)
(* the repository (PathResolution).                                        *)
(***************************************************************************)
EXTENDS GraphCache, Sequences

\* The constants and variables of RuleSelection.
CONSTANTS Repo, Graphs, Paths, Outside
VARIABLES graph, asked, answer

R == INSTANCE RuleSelection

\* Those of PathResolution.
CONSTANTS Names, Fold, Up, Systems, FilePaths, Roots, MaxHops, MaxSteps
VARIABLES fs, path, root, pc, walk, resolved

P == INSTANCE PathResolution WITH Paths <- FilePaths

ASSUME PathAssumption == Paths # {} /\ Outside \notin Paths

\* GRAPH_SQL joins an edge with the components it names.
ASSUME EdgeAssumption ==
  \A g \in Graphs : \A e \in g.edges :
    /\ \E c \in g.components : c.repo = e.repo /\ c.slug = e.src
    /\ \E c \in g.components : c.repo = e.dst_repo /\ c.slug = e.dst

\* A directory entry is a directory, a file or a link; a name is not "..".
ASSUME FileAssumption ==
  /\ Fold \in [Names -> Names] /\ Up \notin Names /\ {MaxHops, MaxSteps} \subseteq Nat
  /\ \A p \in FilePaths \union Roots : p \in Seq(Names \union {Up})
  /\ \A f \in Systems : \A l \in DOMAIN f.at :
       /\ l \in Seq(Names)
       /\ f.at[l] \in {P!Dir, P!File}
            \union [kind : {"link"}, target : Seq(Names \union {Up}), absolute : BOOLEAN]
-----------------------------------------------------------------------------
\* A path is inside the repository exactly if the place it leads to is.
InsideAsOnDisk == P!InsideAsOnDisk

\* Every rule reaches the files of its component and of its neighbours, and no other.
RulesDelivered == R!RulesDelivered

\* One more path in the question takes no rule away.
MorePathsKeepRules == R!MorePathsKeepRules
=============================================================================
