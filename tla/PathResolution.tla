--------------------------- MODULE PathResolution ---------------------------
(***************************************************************************)
(* Does a path lie inside the repository, and where in it?  resolve_fs,    *)
(* same_dir and rel_to_root in mcp-server/src/main.rs, for absolute POSIX  *)
(* paths: the rules of a repository reach a file only if the answer is     *)
(* right.                                                                  *)
(*                                                                         *)
(* The code works on text, segment by segment, asking the file system      *)
(* about every prefix; resolving is a loop, one action an iteration, first *)
(* for the path and then for the root.  A file system maps locations to    *)
(* what is there; a location is the sequence of names that leads to it     *)
(* through directories only, in the spelling it was created with.  On a    *)
(* case-insensitive one a name finds every spelling of it.                 *)
(***************************************************************************)
EXTENDS Integers, Sequences, SequencesExt

CONSTANTS Names,      \* the names that occur
          Fold,       \* [Names -> Names], the lower-case form
          Up,         \* ".."
          Systems,    \* the file systems: [fold |-> BOOLEAN, at |-> location -> Dir, File or a link]
          Paths,      \* the paths asked about, sequences over Names \union {Up}
          Roots,      \* the roots, as HM_ROOT may spell them
          MaxHops,    \* the links followed at most (40)
          MaxSteps    \* bound: the segments of a path, and of the links it leads through

VARIABLES fs, path, root, pc, walk, resolved

vars == <<fs, path, root, pc, walk, resolved>>

Dir == [kind |-> "dir"]
File == [kind |-> "file"]
Link(target, absolute) == [kind |-> "link", target |-> target, absolute |-> absolute]
Nothing == [kind |-> "nothing"]

Lower(p) == [i \in DOMAIN p |-> IF p[i] \in Names THEN Fold[p[i]] ELSE p[i]]
\* The location a name finds in a directory.
Child(f, loc, n) ==
  LET here == {l \in DOMAIN f.at : Len(l) = Len(loc) + 1 /\ IsPrefix(loc, l)
                                  /\ IF f.fold THEN Fold[Last(l)] = Fold[n] ELSE Last(l) = n}
  IN IF here = {} THEN Append(loc, n) ELSE CHOOSE l \in here : TRUE
What(f, loc) == IF loc = <<>> THEN Dir ELSE IF loc \in DOMAIN f.at THEN f.at[loc] ELSE Nothing

\* The location of a text without links and "..": what lstat asks about.
Locate(f, text) ==
  LET at[i \in 0..Len(text)] == IF i = 0 THEN <<>> ELSE Child(f, at[i - 1], text[i])
  IN at[Len(text)]
-----------------------------------------------------------------------------
(* The kernel's own walk, for reference: over locations, never over text.  A location that does not  *)
(* exist is an answer only as the last step: a file about to be created.  A path it has not walked   *)
(* in MaxSteps steps leads nowhere.                                                                  *)

Lost == <<Up>>
Nowhere == [loc |-> Lost, segs |-> <<>>, hops |-> 0]

KernelStep(f, k) ==
  LET rest == Tail(k.segs)
      next == Child(f, k.loc, Head(k.segs))
      there == What(f, next)
  IN IF k.segs = <<>> THEN k
     ELSE IF What(f, k.loc) # Dir THEN Nowhere
     ELSE IF Head(k.segs) = Up
          THEN [loc |-> IF k.loc = <<>> THEN k.loc ELSE Front(k.loc), segs |-> rest, hops |-> k.hops]
     ELSE IF there.kind # "link" THEN [loc |-> next, segs |-> rest, hops |-> k.hops]
     ELSE IF k.hops = MaxHops THEN Nowhere
     ELSE [loc |-> IF there.absolute THEN <<>> ELSE k.loc, segs |-> there.target \o rest, hops |-> k.hops + 1]

Reaches(p) ==
  LET kernel[i \in 0..MaxSteps] ==
        IF i = 0 THEN [loc |-> <<>>, segs |-> p, hops |-> 0] ELSE KernelStep(fs, kernel[i - 1])
  IN IF kernel[MaxSteps].segs = <<>> THEN kernel[MaxSteps].loc ELSE Lost
-----------------------------------------------------------------------------
Start(p) == [out |-> <<>>, pending |-> p, exists |-> TRUE, hops |-> 0]

Init ==
  /\ fs = [fold |-> FALSE, at |-> [l \in {} |-> Dir]]
  /\ path = <<>> /\ root = <<>>
  /\ pc = "ask" /\ walk = Start(<<>>)
  /\ resolved = [path |-> <<>>, root |-> <<>>]

Ask ==
  /\ pc = "ask"
  /\ fs' \in Systems /\ path' \in Paths /\ root' \in Roots
  /\ pc' = "path" /\ walk' = Start(path')
  /\ UNCHANGED resolved

\* One iteration of resolve_fs: a link's target goes in front of what is pending; from the first
\* segment that does not exist, or the first link too many, the text is kept.
Follow(w) ==
  LET seg == Head(w.pending)  rest == Tail(w.pending)
      out == Append(w.out, seg)
      there == What(fs, Locate(fs, out))
  IN IF seg = Up THEN [w EXCEPT !.out = IF @ = <<>> THEN @ ELSE Front(@), !.pending = rest]
     ELSE IF ~w.exists THEN [w EXCEPT !.out = out, !.pending = rest]
     ELSE IF there = Nothing THEN [w EXCEPT !.out = out, !.pending = rest, !.exists = FALSE]
     ELSE IF there.kind # "link" THEN [w EXCEPT !.out = out, !.pending = rest]
     ELSE IF w.hops = MaxHops THEN [w EXCEPT !.out = out, !.pending = rest, !.exists = FALSE, !.hops = @ + 1]
     ELSE [w EXCEPT !.out = IF there.absolute THEN <<>> ELSE @, !.pending = there.target \o rest, !.hops = @ + 1]

Resolve ==
  /\ pc \in {"path", "root"}
  /\ IF walk.pending # <<>>
     THEN walk' = Follow(walk) /\ UNCHANGED <<pc, resolved>>
     ELSE /\ resolved' = [resolved EXCEPT ![pc] = walk.out]
          /\ pc' = IF pc = "path" THEN "root" ELSE "done"
          /\ walk' = Start(root)
  /\ UNCHANGED <<fs, path, root>>

Next == Ask \/ Resolve
Spec == Init /\ [][Next]_vars
-----------------------------------------------------------------------------
\* Mutant of SameDir: two spellings of one path are one directory.
SameDirAssumed(a, b) == TRUE

\* One directory on disk: the metadata of both, links followed.
SameDir(a, b) == Reaches(a) # Lost /\ Reaches(a) = Reaches(b) /\ What(fs, Reaches(a)) # Nothing

Above(p) == SubSeq(p, 1, Len(resolved.root))
Below(p) == SubSeq(p, Len(resolved.root) + 1, Len(p))
Inside ==
  \/ IsPrefix(resolved.root, resolved.path)
  \/ /\ Len(resolved.path) > Len(resolved.root)
     /\ IsPrefix(Lower(resolved.root), Lower(resolved.path))
     /\ SameDir(Above(resolved.path), resolved.root)
RelToRoot == IF Inside THEN Below(resolved.path) ELSE resolved.path
-----------------------------------------------------------------------------
TypeOK ==
  /\ pc \in {"ask", "path", "root", "done"}
  /\ walk.hops \in 0..(MaxHops + 1)
  /\ Up \notin ToSet(walk.out)

\* A path the kernel can follow is inside the repository exactly if the place it leads to is below
\* the place the root leads to, however the two are spelled; and what is left of it leads from the
\* root to that place.  (Not so of the root itself in another case, which is taken to be outside.)
InsideAsOnDisk ==
  pc = "done" /\ Lost \notin {Reaches(path), Reaches(root)} /\ Reaches(path) # Reaches(root) =>
    /\ Inside <=> IsPrefix(Reaches(root), Reaches(path))
    /\ Inside => Reaches(resolved.root \o RelToRoot) = Reaches(path)
=============================================================================
