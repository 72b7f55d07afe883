------------------------------- MODULE PathRules -------------------------------
(***************************************************************************)
(* What a path means to the harness: how a workspace path is resolved to    *)
(* the one file it names, how that is checked again before a tool touches   *)
(* it, and which paths a permission rule covers.                            *)
(*                                                                         *)
(* The file system is a tree of directories, files and symbolic links that  *)
(* other processes change at will.  A path is the sequence of its names     *)
(* from "/"; ".." may occur in paths that are not canonical.                *)
(***************************************************************************)
EXTENDS Globs

CONSTANTS
    Root,       \* the canonical workspace root
    Places,     \* canonical paths the tree may use, the root among them
    Links,      \* what a symbolic link may say: [absolute, parts]
    Inputs,     \* paths a call may give, already joined to the root
    MaxLinks,   \* links the system, and the resolver, follow before giving up
    Selectors,  \* path selectors of rules: names, "*" and "**"
    MaxChanges  \* bound on the changes to the tree

VARIABLES
    tree,       \* place -> what is there
    changes     \* changes made so far

pathVars == <<tree, changes>>

Nothing == [kind |-> "absent"]
Directory == [kind |-> "dir"]
File == [kind |-> "file"]
Link(l) == [kind |-> "link", to |-> l]

NodeAt(t, p) == IF p = <<>> THEN Directory ELSE IF p \in Places THEN t[p] ELSE Nothing
IsUnder(p, base) == IsPrefix(base, p)

-----------------------------------------------------------------------------
(* The kernel's walk: links in the middle are followed, the last one only   *)
(* on request.  "missing" is a path whose last name alone is absent.        *)

RECURSIVE Walk(_, _, _, _, _)
Walk(t, at, parts, follow, links) ==
    IF parts = <<>> THEN [st |-> "found", at |-> at]
    ELSE LET rest == Tail(parts)
             next == Append(at, Head(parts))
             node == NodeAt(t, next)
         IN IF Head(parts) = ".." THEN Walk(t, IF at = <<>> THEN at ELSE Front(at), rest, follow, links)
            ELSE CASE node = Nothing ->
                        [st |-> IF rest = <<>> THEN "missing" ELSE "nowhere", at |-> next]
                   [] node.kind = "link" /\ (follow \/ rest # <<>>) ->
                        IF links = 0 THEN [st |-> "loop", at |-> next]
                        ELSE Walk(t, IF node.to.absolute THEN <<>> ELSE at,
                                  node.to.parts \o rest, follow, links - 1)
                   [] node = File /\ rest # <<>> -> [st |-> "notdir", at |-> next]
                   [] OTHER -> Walk(t, next, rest, follow, links)

Canonicalize(t, p) == Walk(t, <<>>, p, TRUE, MaxLinks)
Lstat(t, p) == Walk(t, <<>>, p, FALSE, MaxLinks)
NotFound(w) == w.st \in {"missing", "nowhere"}

-----------------------------------------------------------------------------
(* Workspace::resolve_target.                                              *)

Refused == [ok |-> FALSE, path |-> <<>>]
EnsureInside(p) == IF IsUnder(p, Root) THEN [ok |-> TRUE, path |-> p] ELSE Refused

\* A missing path is cut back to its longest prefix that exists, if only as a
\* dangling link; a dangling link is read and the path is resolved anew.
RECURSIVE ResolveFrom(_, _, _)
ResolveFrom(t, candidate, expansions) ==
    LET whole == Canonicalize(t, candidate)
        prefix(k) == SubSeq(candidate, 1, k)
        stops(k) == ~NotFound(Canonicalize(t, prefix(k))) \/ ~NotFound(Lstat(t, prefix(k)))
        cut == CHOOSE k \in 0..Len(candidate) : stops(k) /\ \A j \in k + 1..Len(candidate) : ~stops(j)
        suffix == SubSeq(candidate, cut + 1, Len(candidate))
        existing == Canonicalize(t, prefix(cut))
    IN IF whole.st = "found" THEN EnsureInside(whole.at)
       ELSE IF ~NotFound(whole) \/ ".." \in Range(candidate) THEN Refused
       ELSE IF existing.st = "found"
       THEN IF EnsureInside(existing.at).ok THEN [ok |-> TRUE, path |-> existing.at \o suffix] ELSE Refused
       ELSE IF ~NotFound(existing) \/ expansions = MaxLinks THEN Refused
       ELSE   LET to == NodeAt(t, Lstat(t, prefix(cut)).at).to
                  base == IF to.absolute THEN <<>> ELSE prefix(cut - 1)
              IN ResolveFrom(t, base \o to.parts \o suffix, expansions + 1)

\* A dangling link taken for a name that is free.
ResolveIgnoringDangling(t, p) ==
    LET found(k) == Canonicalize(t, SubSeq(p, 1, k)).st = "found"
        cut == CHOOSE k \in 0..Len(p) : found(k) /\ \A j \in k + 1..Len(p) : ~found(j)
        base == Canonicalize(t, SubSeq(p, 1, cut)).at
    IN IF ".." \in Range(p) \/ ~EnsureInside(base).ok THEN Refused
       ELSE [ok |-> TRUE, path |-> base \o SubSeq(p, cut + 1, Len(p))]
ResolveTarget(t, p) == ResolveFrom(t, p, 0)

\* revalidate_target: the prepared path must still name itself.
RevalidateAnywhere(t, prepared) == ResolveTarget(t, prepared).ok
Revalidate(t, prepared) == ResolveTarget(t, prepared) = [ok |-> TRUE, path |-> prepared]

-----------------------------------------------------------------------------
(* Path rules: compile_path_matcher, PathMatcher.                          *)

\* The paths a relative selector covers.  The root itself is the empty text,
\* one empty segment.
Relative(path) ==
    IF path = Root THEN <<"">> ELSE SubSeq(path, Len(Root) + 1, Len(path))
RuleCovers(selector, effect, path) ==
    /\ IsUnder(path, Root)
    /\ \E pattern \in {selector} \cup NestedForm(selector, effect) : GlobMatch(pattern, Relative(path))

-----------------------------------------------------------------------------
(* glob: a search is authorized for the directory its pattern cannot leave. *)

LiteralNames(pattern) == SelectSeq(pattern, LAMBDA s : s \notin {"*", "**"})
Anchor(pattern) ==
    LET literal == {k \in 0..(Len(pattern) - 1) : \A i \in 1..k : pattern[i] \notin {"*", "**"}}
    IN SubSeq(pattern, 1, CHOOSE k \in literal : \A j \in literal : j <= k)

\* The walk enters no link; a link is reported when it leads into the workspace.
GlobMatches(t, pattern) ==
    {p \in Places :
        /\ IsUnder(p, Root) /\ p # Root /\ Lstat(t, p) = [st |-> "found", at |-> p]
        /\ t[p].kind = "link" => Canonicalize(t, p).st = "found" /\ IsUnder(Canonicalize(t, p).at, Root)
        /\ GlobMatch(pattern, Relative(p))}

-----------------------------------------------------------------------------
(* The tree changes under the harness.                                     *)

Children(p) == {q \in Places : Len(q) = Len(p) + 1 /\ IsUnder(q, p) /\ tree[q] # Nothing}

PathInit == tree = [p \in Places |-> IF Len(p) = 1 THEN Directory ELSE Nothing] /\ changes = 0

Create(p) ==
    /\ tree[p] = Nothing /\ NodeAt(tree, Front(p)) = Directory
    /\ \E node \in {Directory, File} \cup {Link(l) : l \in Links} : tree' = [tree EXCEPT ![p] = node]

Unlink(p) ==
    /\ Len(p) > 1 /\ tree[p] # Nothing /\ Children(p) = {}
    /\ tree' = [tree EXCEPT ![p] = Nothing]

PathNext ==
    /\ changes < MaxChanges /\ changes' = changes + 1
    /\ \E p \in Places : Create(p) \/ Unlink(p)

PathSpec == PathInit /\ [][PathNext]_pathVars

-----------------------------------------------------------------------------
\* The path a call is authorized for is the file the system would reach by the
\* path it gave, through every link and through links whose target does not
\* exist yet; it lies in the workspace; and resolving it again changes nothing,
\* so an unchanged tree never makes a prepared call stale (resolve_target).
ResolvesToWhatItNames ==
    \A p \in Inputs :
        LET r == ResolveTarget(tree, p)
            named == Canonicalize(tree, p)
        IN r.ok =>
            /\ IsUnder(r.path, Root) /\ ".." \notin Range(r.path)
            /\ named.st \in {"found", "missing"} => r.path = named.at
            /\ Revalidate(tree, r.path)

\* Whenever the tree changes, a prepared path that passes revalidation leads to
\* itself: opened without following its last name it reaches that place or
\* nothing, never another (revalidate_target, open_no_follow).
RevalidatedLeadsToItself ==
    \A p \in Places : Revalidate(tree, p) =>
        LET opened == Lstat(tree, p) IN opened.st \in {"found", "missing"} => opened.at = p

\* A search reports only paths below the directory it was authorized for, each
\* one leading to something in the workspace (glob.rs, anchor).
SearchKeepsToItsAnchor ==
    \A s \in Selectors : \A p \in GlobMatches(tree, s) :
        IsUnder(p, Root \o Anchor(s)) /\ IsUnder(Canonicalize(tree, p).at, Root)

\* What the pattern says declaratively: "**" stands for any run of names, every
\* other segment for one.
Stands(pattern, path) ==
    \E cut \in [0..Len(pattern) -> 0..Len(path)] :
        /\ cut[0] = 0 /\ cut[Len(pattern)] = Len(path)
        /\ \A i \in 1..Len(pattern) :
              IF pattern[i] = "**" THEN cut[i - 1] <= cut[i]
              ELSE cut[i] = cut[i - 1] + 1 /\ SegmentMatch(pattern[i], path[cut[i]])

\* A rule covers what its text says; turning an allow into a deny of the same
\* text never covers less; a restriction on one name follows that name to any
\* depth of the workspace, and a permission never does (nested_form).
RulesCoverWhatTheySay ==
    \A s \in Selectors : \A p \in Places :
        /\ RuleCovers(s, "Allow", p) <=> IsUnder(p, Root) /\ Stands(s, Relative(p))
        /\ RuleCovers(s, "Allow", p) => RuleCovers(s, "Deny", p)
        /\ RuleCovers(s, "Deny", p) /\ Len(s) = 1 /\ SingleName(s) =>
              \A q \in Places : IsUnder(q, Root) /\ Len(q) > 1 /\ Last(q) = Last(p) => RuleCovers(s, "Deny", q)

=============================================================================
