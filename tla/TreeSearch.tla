------------------------------- MODULE TreeSearch -------------------------------
(***************************************************************************)
(* The tools that walk the workspace: ls, which lists a directory as a      *)
(* tree, and grep, which searches contents page by page.  A path is the     *)
(* sequence of its names below the workspace root, the root the empty one.  *)
(***************************************************************************)
EXTENDS Naturals, Sequences, SequencesExt, FiniteSets

CONSTANTS
    Entries,        \* paths the workspace may hold, closed under parents
    Spelling,       \* name -> its bytes
    VcsStores,      \* names of version-control stores
    OddNames,       \* names without a text form
    Worlds,         \* workspaces tried: kind, rules, denied, contents
    Depths,         \* values of ls's depth argument
    LsEntryCap,     \* entries a listing keeps
    SearchCalls     \* grep calls tried: root, mode, limit, offset, context

VARIABLES
    world,      \* the workspace; it does not change
    listing,    \* result of the last ls
    search,     \* the grep page being built
    cancelled,  \* the turn's token
    seen        \* what the pages showed so far

searchVars == <<world, listing, search, cancelled, seen>>

Top == <<>>
KindOf(p) == IF p = Top THEN "dir" ELSE world.kind[p]
There == {p \in Entries : KindOf(p) # "absent"}
Under(d, p) == d # p /\ IsPrefix(d, p)
Odd(p) == Range(p) \cap OddNames # {}
Nearest(rules) == CHOOSE r \in rules : \A s \in rules : Len(s.in) <= Len(r.in)

-----------------------------------------------------------------------------
(* The walk.  An ignore rule is [in, name, keep]: the file in directory "in" *)
(* says of every entry of that name below it that it is kept, or ignored.   *)

\* The nearest of the directories that says something of p decides.
IgnoredBy(dirs, p) ==
    LET rules == {r \in world.rules : r.in \in dirs /\ r.name = Last(p)}
    IN rules # {} /\ ~Nearest(rules).keep
\* The walker reads the rules from its root down ...
OwnIgnored(root, p) == IgnoredBy({d \in {Top} \cup Entries : IsPrefix(root, d) /\ Under(d, p)}, p)
\* ... AncestorIgnore those of every directory above it.
ParentIgnored(root, p) == root # Top /\ IgnoredBy({Front(root)}, p)
AncestorIgnored(root, p) == IgnoredBy({d \in {Top} \cup Entries : Under(d, root)}, p)

Noise(root, honor, p) ==
    Last(p) \in VcsStores \/ (honor /\ (OwnIgnored(root, p) \/ AncestorIgnored(root, p)))
\* WithheldPaths: what has no name cannot be matched against a rule.
Withheld(p) == ~Odd(p) /\ p \in world.denied

Between(root, p) == {SubSeq(p, 1, k) : k \in (Len(root) + 1)..Len(p)}
Reached(root, depth, honor) ==
    {p \in There : /\ Under(root, p) /\ Len(p) <= Len(root) + depth
                   /\ \A q \in Between(root, p) : ~Noise(root, honor, q) /\ ~Withheld(q)}
\* Counted, and neither shown nor descended into.
HiddenEntries(root, depth, honor) ==
    {p \in There : /\ Under(root, p) /\ Len(p) <= Len(root) + depth
                   /\ ~Noise(root, honor, p) /\ Withheld(p)
                   /\ \A q \in Between(root, p) \ {p} : ~Noise(root, honor, q) /\ ~Withheld(q)}

InsideVcsStore(p) == Range(p) \cap VcsStores # {}

-----------------------------------------------------------------------------
(* Orders on the text of a path.                                           *)

Slash == 47
PathText(p) == FoldLeft(LAMBDA t, n : IF t = <<>> THEN Spelling[n] ELSE t \o <<Slash>> \o Spelling[n], <<>>, p)
LessText(a, b) ==
    \/ Len(a) < Len(b) /\ IsPrefix(a, b)
    \/ \E i \in 1..Len(a) : i <= Len(b) /\ SubSeq(a, 1, i - 1) = SubSeq(b, 1, i - 1) /\ a[i] < b[i]
ByteOrder(p, q) == LessText(PathText(p), PathText(q))
SeparatorFirst(t) == [i \in 1..Len(t) |-> IF t[i] = Slash THEN 0 ELSE t[i]]
TreeOrder(p, q) == LessText(SeparatorFirst(PathText(p)), SeparatorFirst(PathText(q)))

-----------------------------------------------------------------------------
(* ls.                                                                     *)

\* nest: one pass that closes every directory the next entry is not below.
\* An entry is placed under the directory left open.
\* A run ends at the first entry not below its directory: everything under the
\* innermost directory that is closed is closed with it.
Closing(open, p) ==
    LET stays == {k \in 0..Len(open) : \A i \in 1..k : Under(open[i], p)}
    IN SubSeq(open, 1, CHOOSE k \in stays : \A j \in stays : j <= k)
Nest(flat, root) ==
    LET step(s, p) ==
            LET open == Closing(s.open, p)
            IN [open |-> IF KindOf(p) = "dir" THEN Append(open, p) ELSE open,
                placed |-> s.placed \cup {<<p, IF open = <<>> THEN root ELSE Last(open)>>}]
    IN FoldLeft(step, [open |-> <<>>, placed |-> {}], flat).placed

NoListing == [st |-> "none"]
\* run_prepared and walk_directory.
Listing(root, depth, honor) ==
    LET reached == Reached(root, depth, honor)
        kept == {p \in reached : ~Odd(p) /\ KindOf(p) # "outside"}
        unnameable == Cardinality({p \in reached : Odd(p)})
        sorted == SetToSortSeq(kept, TreeOrder)
        flat == SubSeq(sorted, 1, IF Len(sorted) > LsEntryCap THEN LsEntryCap ELSE Len(sorted))
        placed == Nest(flat, root)
        hidden == Cardinality(HiddenEntries(root, depth, honor))
        total == Len(sorted) + unnameable
    IN [st |-> IF placed = {} /\ hidden > 0 THEN "permission_denied" ELSE "ok",
        root |-> root, depth |-> depth, honor |-> honor, placed |-> placed, total |-> total,
        unnameable |-> unnameable, hidden |-> hidden,
        truncated |-> total > Cardinality({e \in placed : e[2] = root})]

List ==
    /\ search.st = "none"
    /\ \E root \in {Top} \cup There, depth \in Depths, honor \in BOOLEAN :
          /\ ~InsideVcsStore(root) /\ ~Odd(root)
          /\ listing' = IF KindOf(root) = "dir" THEN Listing(root, depth, honor)
                        ELSE [st |-> "not_a_directory"]
    /\ UNCHANGED <<world, search, cancelled, seen>>

-----------------------------------------------------------------------------
(* grep.  The contents of a file: the lines that match, where its first NUL *)
(* is, and whether it can be opened.                                        *)

Candidates(root, honor) ==
    SetToSortSeq({p \in Reached(root, 9, honor) : KindOf(p) = "file" /\ ~Odd(p)}, ByteOrder)

Nth(S, n) == CHOOSE l \in S : Cardinality({m \in S : m <= l}) = n
\* MatchCollector::wants, and the match a context line belongs to: the one
\* before it when near enough, or the next one.
Wants(skip, collect, ordinal) == ordinal > skip /\ ordinal <= skip + collect
OwnerLate(S, near, l) == Cardinality({m \in S : m <= l}) + 1
Owner(S, near, l) ==
    LET earlier == Cardinality({m \in S : m <= l})
    IN IF earlier > 0 /\ l <= Nth(S, earlier) + near THEN earlier ELSE earlier + 1
ContextOf(S, near, l) == l \notin S /\ \E m \in S : l <= m + near /\ m <= l + near
PageOfFile(c, near, skip, collect) ==
    {l \in 1..c.length : \/ l \in c.lines /\ Wants(skip, collect, Cardinality({m \in c.lines : m <= l}))
                         \/ ContextOf(c.lines, near, l) /\ Wants(skip, collect, Owner(c.lines, near, l))}

\* search_one.  Stopping at the first match never meets a NUL further on.
Outcome(c, mode) ==
    CASE ~c.opens -> "unreadable"
      [] c.opens /\ (c.nul = "first" \/ (c.nul = "late" /\ (mode # "files" \/ c.lines = {}))) -> "binary"
      [] OTHER -> IF c.lines = {} THEN "nomatch" ELSE "matched"
MatchesIn(c, mode) == IF mode = "files" THEN 1 ELSE Cardinality(c.lines)

NoSearch == [st |-> "none"]
Page(call, offset) ==
    [st |-> "files", call |-> call, offset |-> offset, todo |-> Candidates(call.root, TRUE),
     skip |-> IF call.mode = "content" THEN offset ELSE 0, collected |-> 0, passed |-> 0,
     files |-> <<>>, totalFiles |-> 0, totalMatches |-> 0]

StartSearch ==
    /\ search.st = "none" /\ listing = NoListing
    /\ \E call \in SearchCalls :
          /\ ~InsideVcsStore(call.root) /\ KindOf(call.root) = "dir"
          /\ search' = Page(call, call.offset)
    /\ UNCHANGED <<world, listing, cancelled, seen>>

CancelSearch ==
    /\ search.st = "files" /\ ~cancelled /\ cancelled' = TRUE
    /\ UNCHANGED <<world, listing, search, seen>>

LessSkip(skip, matches) == IF skip > matches THEN skip - matches ELSE 0
\* One file in content mode: its lines that lie on the page.
ByLine(s, p, c) ==
    LET matches == Cardinality(c.lines)
        collect == s.call.limit - s.collected
        collected == Cardinality({o \in 1..matches : Wants(s.skip, collect, o)})
        counted == [s EXCEPT !.totalFiles = @ + 1, !.totalMatches = @ + matches,
                             !.skip = LessSkip(@, matches)]
    IN IF collected = 0 THEN counted
       ELSE [counted EXCEPT !.collected = @ + collected,
                            !.files = Append(@, [path |-> p, lines |-> PageOfFile(c, s.call.context, s.skip, collect)])]
\* One file in the other modes: itself, unless it is before or after the page.
ByFileUncapped(s, p, c) ==
    LET counted == [s EXCEPT !.totalFiles = @ + 1, !.totalMatches = @ + MatchesIn(c, s.call.mode)]
    IN IF s.passed < s.offset THEN [counted EXCEPT !.passed = @ + 1]
       ELSE [counted EXCEPT !.files = Append(@, [path |-> p, lines |-> {}])]
ByFile(s, p, c) ==
    LET counted == [s EXCEPT !.totalFiles = @ + 1, !.totalMatches = @ + MatchesIn(c, s.call.mode)]
    IN IF s.passed < s.offset THEN [counted EXCEPT !.passed = @ + 1]
       ELSE IF Len(s.files) >= s.call.limit THEN counted
       ELSE [counted EXCEPT !.files = Append(@, [path |-> p, lines |-> {}])]

\* The token is looked at before every file.
SearchFile ==
    /\ search.st = "files" /\ search.todo # <<>>
    /\ LET p == Head(search.todo)
           c == world.contents[p]
           s == [search EXCEPT !.todo = Tail(@)]
       IN search' = IF cancelled THEN [search EXCEPT !.st = "cancelled"]
                    ELSE IF Outcome(c, s.call.mode) # "matched" THEN s
                    ELSE IF s.call.mode = "content" THEN ByLine(s, p, c) ELSE ByFile(s, p, c)
    /\ UNCHANGED <<world, listing, cancelled, seen>>

Consumed(s) == s.offset + (IF s.call.mode = "content" THEN s.collected ELSE Len(s.files))
TotalOf(s) == IF s.call.mode = "content" THEN s.totalMatches ELSE s.totalFiles
\* What a page shows, in the order it shows it.
InOrder(f) ==
    IF f.lines = {} THEN <<<<f.path, 0>>>>
    ELSE LET ls == SetToSortSeq(f.lines, LAMBDA a, b : a < b) IN [i \in 1..Len(ls) |-> <<f.path, ls[i]>>]
Shows(s) == FlattenSeq([i \in 1..Len(s.files) |-> InOrder(s.files[i])])

\* The end of a page; the caller asks for the next one from next_offset.
Report ==
    /\ search.st = "files" /\ search.todo = <<>>
    /\ IF search.files = <<>> /\ search.offset > 0 /\ TotalOf(search) > 0
       THEN search' = [search EXCEPT !.st = "offset_past_end"] /\ UNCHANGED seen
       ELSE /\ seen' = seen \o Shows(search)
            /\ search' = IF Consumed(search) < TotalOf(search) THEN Page(search.call, Consumed(search))
                         ELSE [search EXCEPT !.st = "complete"]
    /\ UNCHANGED <<world, listing, cancelled>>

SearchInit ==
    /\ world \in Worlds /\ listing = NoListing /\ search = NoSearch
    /\ cancelled = FALSE /\ seen = <<>>
SearchNext == List \/ StartSearch \/ CancelSearch \/ SearchFile \/ Report
SearchSpec == SearchInit /\ [][SearchNext]_searchVars

-----------------------------------------------------------------------------
\* A listing is the directory as a tree: every entry shown stands under its own
\* directory, which is shown as well, whatever the names and wherever the cap
\* cut; nothing shown is withheld by policy or below something that is; and one
\* that claims nothing was left out, withheld or unnameable has every entry the
\* project does not ignore (nest, tree_order, LsOutput).
ListingIsATree ==
    listing.st = "ok" =>
        LET shown == {e[1] : e \in listing.placed}
        IN /\ \A e \in listing.placed : e[2] = Front(e[1]) /\ (e[2] # listing.root => e[2] \in shown)
           /\ \A p \in shown : Between(listing.root, p) \cap world.denied = {}
           /\ ~listing.truncated /\ listing.hidden = 0 =>
                 shown = {p \in There : /\ Under(listing.root, p) /\ Len(p) <= Len(listing.root) + listing.depth
                                        /\ KindOf(p) # "outside"
                                        /\ \A q \in Between(listing.root, p) : ~Noise(listing.root, listing.honor, q)}

\* What a tool sees of a directory does not depend on where its walk began:
\* from the workspace root or from the directory itself, the same entries,
\* unless a rule in the directory keeps what a rule above it ignores
\* (AncestorIgnore, walk_entries).
Overruled(d) == \E r \in world.rules : r.keep /\ IsPrefix(d, r.in)
SeenAsFromTheTop ==
    \A d \in There : KindOf(d) = "dir" /\ d \in Reached(Top, 9, TRUE) /\ ~Overruled(d) =>
        Reached(d, 9, TRUE) = {p \in Reached(Top, 9, TRUE) : Under(d, p)}

\* The pages a caller gets by following next_offset are the whole result from
\* where it began, every match and every line around one once and in order,
\* however files and pages fall; an offset is refused only when nothing lies
\* behind it (grep.rs, next_offset, MatchCollector).
MatchingFiles(call) ==
    SelectSeq(Candidates(call.root, TRUE), LAMBDA p : Outcome(world.contents[p], call.mode) = "matched")
Shown(call, lines(_)) ==
    LET files == MatchingFiles(call)
    IN IF call.mode = "content"
       THEN FlattenSeq([i \in 1..Len(files) |->
                           InOrder([path |-> files[i], lines |-> lines(world.contents[files[i]])])])
       ELSE [i \in 1..Len(files) |-> <<files[i], 0>>]
AllMatches(call) == Shown(call, LAMBDA c : c.lines)
AllLines(call) ==
    Shown(call, LAMBDA c : c.lines \cup {l \in 1..c.length : ContextOf(c.lines, call.context, l)})
IsMatch(e) == e[2] = 0 \/ e[2] \in world.contents[e[1]].lines
PagesTileTheResult ==
    LET call == search.call
        wanted == SubSeq(AllMatches(call), call.offset + 1, Len(AllMatches(call)))
    IN /\ search.st = "complete" =>
             SelectSeq(seen, IsMatch) = wanted /\ (call.offset = 0 => seen = AllLines(call))
       /\ search.st = "offset_past_end" => seen = <<>> /\ wanted = <<>>

=============================================================================
