----------------------------- MODULE SerialWalk -----------------------------
(***************************************************************************)
(* The serial walk of ignore/walk.v, Walk.next, with the ignore rules of   *)
(* ignore/dir.v that decide what it skips.  Walk keeps results that are    *)
(* ready, a stack of frames, one for each directory it is in, and an index *)
(* into the paths it was given.  A frame has the chain of matchers of its  *)
(* directory: one node for it, one for each directory above it up to the   *)
(* path of the walk, and one for each directory above that.                *)
(*                                                                         *)
(* The file system is a tree of objects that does not change; an object's  *)
(* number is its name, and a path is the sequence of objects it names.  A  *)
(* file of rules is the set of names it decides, each "ignore" or          *)
(* "whitelist": what a glob matches is left to the globs.  What skip_entry *)
(* asks besides the rules (the file of stdout, sizes, filters) is a set.   *)
(*                                                                         *)
(* Any call of the system may fail, on the objects the file system has it  *)
(* fail on.  Each has its fate: an error in the place of the entry, or     *)
(* beside it.                                                              *)
(***************************************************************************)
EXTENDS Integers, Sequences, FiniteSets, SequencesExt

CONSTANTS
    Obj,       \* subset of Nat
    Nowhere,   \* the parent of the root of the file system
    Stdin,     \* the path "-"
    Cases      \* each: sets of file systems, repositories, rules and options

\* Files of rules in a directory, in the order of their precedence, and rules
\* that belong to no directory.
DirKind == <<"custom", "ignore", "git", "exclude">>
GlobalKind == {"global", "explicit", "override", "types"}
GitKind == {"git", "exclude"}
Kind == Range(DirKind) \cup GlobalKind

\* A file system:
\*   kind, parent, target   what each object is, where, and what a link names;
\*   git                    directories that hold a repository;
\*   rules                  for a kind and a directory (or Nowhere), and a name;
\*   hidden, filtered, unreadable, other   names with a dot, what skip_entry
\*                          drops, directories not readable, or mounted;
\*   fails                  calls that fail, each with the object it is about:
\*                          a kind of DirKind (a file of rules that is not well
\*                          formed), or one of
\*     "type", "lstat"      the type of a child, as readdir gave it, or asked for;
\*     "stdout"             whether it is the file stdout writes;
\*     "device", "same"     the device of a path of the walk, of a directory;
\*     "link", "handle"     a handle of the directory a link leads to, of one
\*                          the walk is in.
\* Options: roots, follow, sort, min, max, oneDevice, skipStdout, sizes (a limit
\* of them); kinds of rules looked at, parents, requireGit, skipHidden.

\* Neither exclude files nor global rules without .gitignore (hiargs.v, lines
\* 955-957: --no-ignore-vcs turns all three off).
ASSUME KindsAssumption ==
    \A case \in Cases : \A o \in case.opt : o.kinds \cap {"exclude", "global"} # {} => "git" \in o.kinds

\* Links are followed to their end; a path the walk is given names an object.
ASSUME ObjAssumption == Obj \subseteq Nat /\ IsFiniteSet(Obj) /\ Nowhere \notin Obj /\ Stdin \notin Obj
ASSUME FileSystemAssumption ==
    \A case \in Cases : \A f \in case.fs :
        /\ {"kind", "parent", "target"} \subseteq DOMAIN f
        /\ f.kind \in [Obj -> {"dir", "file", "link", "missing"}]
        /\ f.parent \in [Obj -> Obj \cup {Nowhere}]
        /\ \A set \in SUBSET Obj : set # {} => \E o \in set : f.parent[o] \notin set
        /\ \A o \in Obj : f.kind[o] = "link" => f.target[o] \in Obj /\ f.kind[f.target[o]] # "link"
\* Files of rules are in directories.
ASSUME RulesAssumption ==
    \A case \in Cases :
        /\ \A f \in case.fs : {"git", "rules"} \subseteq DOMAIN f
        /\ \A rules \in case.rules : \A r \in DOMAIN rules :
            /\ rules[r] \in {"none", "ignore", "whitelist"}
            /\ r[2] = Nowhere => r[1] \in GlobalKind
ASSUME OptionsAssumption ==
    \A case \in Cases : \A o \in case.opt :
        /\ o.roots \in Seq(Obj \cup {Stdin})
        /\ o.sort \in {"none", "up", "down"}
        /\ {o.follow, o.oneDevice, o.skipStdout, o.sizes, o.parents, o.requireGit, o.skipHidden} \subseteq BOOLEAN
        /\ o.min \in Nat /\ o.max \in Nat

VARIABLES
    fs, opt,
    rootIndex,  \* Walk.root_index, paths taken
    stack,      \* frames, the innermost last
    pending,    \* results that are ready
    delivered   \* what next has returned

vars == <<fs, opt, rootIndex, stack, pending, delivered>>

Init ==
    /\ \E case \in Cases :
        /\ \E base \in case.fs, git \in case.git, rules \in case.rules :
                fs = [base EXCEPT !.git = git, !.rules = rules]
        /\ opt \in case.opt
    /\ rootIndex = 0
    /\ stack = <<>> /\ pending = <<>> /\ delivered = <<>>

-----------------------------------------------------------------------------
\* The file system.

Real(o) == IF fs.kind[o] = "link" THEN fs.target[o] ELSE o
Children(d) == {o \in Obj : fs.parent[o] = d}

\* Directories above d, the nearest first.
Above(d) ==
    LET up[n \in 0 .. Cardinality(Obj)] == IF n = 0 THEN <<d>> ELSE
            LET s == up[n - 1] IN IF fs.parent[Last(s)] = Nowhere THEN s ELSE Append(s, fs.parent[Last(s)])
    IN Tail(up[Cardinality(Obj)])

Fails(call, o) == <<call, o>> \in fs.fails

Depth(path) == Len(path) - 1

\* The type of an entry: a path of the walk is followed, a child if asked for.
Resolved(path) == IF Len(path) = 1 \/ opt.follow THEN Real(Last(path)) ELSE Last(path)
IsDir(path) == fs.kind[Resolved(path)] = "dir"

-----------------------------------------------------------------------------
\* ignore/dir.v: the chain of matchers, the nearest node first.

Node(dir, hasGit, above) == [dir |-> dir, hasGit |-> hasGit, above |-> above]

\* The node of the builder, which has no rules.
IgRoot == <<Node(Nowhere, FALSE, TRUE)>>

NoParents == ~opt.parents /\ opt.kinds \cap (GitKind \cup {"global"}) = {}

AddParents(dir) ==
    LET parents == Above(dir)
        hasGit(d) == opt.requireGit /\ "git" \in opt.kinds /\ d \in fs.git
    IN IF NoParents THEN IgRoot
       ELSE [k \in DOMAIN parents |-> Node(parents[k], hasGit(parents[k]), TRUE)] \o IgRoot

\* The error add_parents returns with the chain: some file of rules above a
\* directory is not well formed.
Malformed(d) == \E kind \in Range(DirKind) \cap opt.kinds : Fails(kind, d) /\ (kind = "exclude" => d \in fs.git)
ParentsFail(dir) == ~NoParents /\ \E d \in Range(Above(dir)) : Malformed(d)

\* Mutant: the chain of a directory begins with its outermost node.
AddChildOutermost(ig, dir) ==
    Append(ig, Node(dir, opt.requireGit /\ opt.kinds \cap GitKind # {} /\ dir \in fs.git, FALSE))

AddChild(ig, dir) ==
    <<Node(dir, opt.requireGit /\ opt.kinds \cap GitKind # {} /\ dir \in fs.git, FALSE)>> \o ig

\* What the rules of a kind in one place say of a name; an exclude file is part
\* of a repository.
Says(kind, place, o) ==
    IF kind \in opt.kinds /\ (kind = "exclude" => place \in fs.git) /\ <<kind, place, o>> \in DOMAIN fs.rules THEN fs.rules[<<kind, place, o>>] ELSE "none"

AnyGitParent(ig) == \E k \in DOMAIN ig : ig[k].hasGit

\* One turn of either loop of matched_ignore: what each kind of rules has said
\* so far, and whether a repository was seen.
MatchNode(o, anyGit, acc, node) ==
    LET Turn(kind) ==
            IF acc.said[kind] = "none" /\ (kind \notin GitKind \/ (anyGit /\ ~acc.sawGit))
            THEN Says(kind, node.dir, o) ELSE acc.said[kind]
    IN [ said |-> [custom |-> Turn("custom"), ignore |-> Turn("ignore"), git |-> Turn("git"), exclude |-> Turn("exclude")],
         sawGit |-> acc.sawGit \/ node.hasGit ]

NothingSaid == [said |-> [custom |-> "none", ignore |-> "none", git |-> "none", exclude |-> "none"], sawGit |-> FALSE]

\* The first of a sequence of matches that says something.
FirstMatch(matches) ==
    LET some == SelectSeq(matches, LAMBDA m : m # "none") IN IF some = <<>> THEN "none" ELSE Head(some)

\* Either loop of matched_ignore: over the directories of the walk, or over
\* those above it.
Look(ig, o, above, anyGit, start) ==
    LET said[k \in 0 .. Len(ig)] ==
            IF k = 0 THEN start
            ELSE IF ig[k].above = above THEN MatchNode(o, anyGit, said[k - 1], ig[k])
            ELSE said[k - 1]
    IN said[Len(ig)]

\* What the loops leave: the kinds in their order, then the global and the
\* explicit rules.
Verdict(o, anyGit, all) ==
    FirstMatch([k \in DOMAIN DirKind |-> all.said[DirKind[k]]]
               \o <<IF anyGit THEN Says("global", Nowhere, o) ELSE "none", Says("explicit", Nowhere, o)>>)

\* Mutant: a repository seen among the relative directories is forgotten.
MatchedIgnoreForgets(ig, o) ==
    LET anyGit == ~opt.requireGit \/ AnyGitParent(ig)
        relative == Look(ig, o, FALSE, anyGit, NothingSaid)
    IN Verdict(o, anyGit, IF opt.parents THEN Look(ig, o, TRUE, anyGit, [relative EXCEPT !.sawGit = FALSE]) ELSE relative)

\* matched_ignore: the relative directories first, then those above them.
MatchedIgnore(ig, o) ==
    LET anyGit == ~opt.requireGit \/ AnyGitParent(ig)
        relative == Look(ig, o, FALSE, anyGit, NothingSaid)
    IN Verdict(o, anyGit, IF opt.parents THEN Look(ig, o, TRUE, anyGit, relative) ELSE relative)

\* matched: an override decides; of the rest the file types come last, and may
\* ignore what a rule kept, or keep what no rule decided.
Matched(ig, o) ==
    LET override == Says("override", Nowhere, o)
        ignore == MatchedIgnore(ig, o)
        types == Says("types", Nowhere, o)
    IN IF override # "none" THEN override
       ELSE IF ignore = "ignore" THEN "ignore"
       ELSE IF types # "none" THEN types
       ELSE ignore

\* matched_dir_entry: a hidden name is ignored when nothing was said of it.
ShouldSkip(ig, o) ==
    LET match == Matched(ig, o)
    IN match = "ignore" \/ (match = "none" /\ opt.skipHidden /\ o \in fs.hidden)

\* skip_entry: rules, then the file of stdout, then sizes and filters.
SkipEntry(ig, path) ==
    IF Len(path) = 1 THEN "keep"
    ELSE IF ShouldSkip(ig, Last(path)) THEN "skip"
    ELSE IF opt.skipStdout /\ Fails("stdout", Resolved(path)) THEN "error"
    ELSE IF Resolved(path) \in fs.filtered THEN "skip"
    ELSE "keep"

\* Mutant: only the directory the link is in is looked at.
SymlinkLoopNearest(ig, dir) == ~ig[1].above /\ ig[1].dir = dir

\* check_symlink_loop: a directory of the walk the entry is in, met again.
SymlinkLoop(ig, dir) == \E k \in DOMAIN ig : ~ig[k].above /\ ig[k].dir = dir

\* It opens what it compares, the nearest directory first.
HandleFails(ig, dir) ==
    \/ Fails("link", dir)
    \/ \E k \in DOMAIN ig :
        /\ Fails("handle", ig[k].dir)
        /\ \A j \in 1 .. k : ~ig[j].above /\ (j < k => ig[j].dir # dir)

\* A child is looked at again unless the type readdir gave is enough
\* (can_trust_dirent_type), and that may fail.
Examined(o) == opt.follow \/ opt.oneDevice \/ opt.skipStdout \/ opt.sizes \/ Fails("type", o)
Lost(o) == Examined(o) /\ Fails("lstat", o)

\* What enqueue_child finds in the way of an entry, or "none".
ChildError(ig, child) ==
    IF Lost(child) THEN "lost"
    ELSE IF ~opt.follow \/ fs.kind[child] # "link" THEN "none"
    ELSE IF fs.kind[Real(child)] = "missing" THEN "broken"
    ELSE IF fs.kind[Real(child)] # "dir" THEN "none"
    ELSE IF HandleFails(ig, Real(child)) THEN "unopened"
    ELSE IF SymlinkLoop(ig, Real(child)) THEN "loop"
    ELSE "none"

-----------------------------------------------------------------------------
\* read_dir_children.

Before(a, b) == IF opt.sort = "up" THEN a < b ELSE a > b

Swap(s, i, j) == [s EXCEPT ![i] = s[j], ![j] = s[i]]
Exchange(s, i, j) == IF Before(s[j], s[i]) THEN Swap(s, i, j) ELSE s

\* Mutant: the inner loop ends one child early.
FillPlaceShort(s, i) ==
    LET tried[j \in i .. Len(s)] == IF j = i THEN s ELSE Exchange(tried[j - 1], i, j)
    IN IF i < Len(s) THEN tried[Len(s) - 1] ELSE s

\* The inner loop: place i is exchanged with every later one that belongs
\* before it.
FillPlace(s, i) ==
    LET tried[j \in i .. Len(s)] == IF j = i THEN s ELSE Exchange(tried[j - 1], i, j)
    IN tried[Len(s)]

\* sort_children: each place in turn.
SortChildren(s) ==
    LET filled[i \in 0 .. Len(s)] == IF i = 0 THEN s ELSE FillPlace(filled[i - 1], i)
    IN IF opt.sort = "none" THEN s ELSE filled[Len(s)]

-----------------------------------------------------------------------------
\* Walk.next, a turn of its loop at a time.

Result(what, path) == [what |-> what, root |-> rootIndex', path |-> path]
Frame(path, ig, children) == [path |-> path, ig |-> ig, children |-> children, next |-> 1]

OneIf(condition, result) == IF condition THEN <<result>> ELSE <<>>

\* Whether enqueue_entry reads a directory.
Descends(path) ==
    /\ IsDir(path) /\ Depth(path) < opt.max
    /\ opt.oneDevice => ~Fails("same", Resolved(path)) /\ Resolved(path) \notin fs.other

\* What enqueue_entry pushes for an entry that is kept.
Pushed(path) ==
    OneIf(IsDir(path) /\ opt.oneDevice /\ Fails("same", Resolved(path)), Result("device", path))
    \o OneIf(Depth(path) >= opt.min, Result("entry", path))
    \o OneIf(Descends(path) /\ Resolved(path) \in fs.unreadable, Result("unreadable", path))

\* enqueue_entry: the entry is skipped, or delivered if it is deep enough, and
\* a directory that may be entered gets a frame above `frames`; what was pushed
\* `before` comes first.
EnqueueEntry(path, ig, before, frames) ==
    LET verdict == SkipEntry(ig, path)
        children == Children(Resolved(path))
    IN /\ pending' = before \o CASE verdict = "skip" -> <<>>
                                 [] verdict = "error" -> <<Result("undecided", path)>>
                                 [] verdict = "keep" -> Pushed(path)
       /\ IF verdict = "keep" /\ Descends(path) /\ Resolved(path) \notin fs.unreadable
          THEN \E order \in [1 .. Cardinality(children) -> children] :
                    /\ IsInjective(order)
                    /\ stack' = Append(frames, Frame(path, AddChild(ig, Resolved(path)), SortChildren(order)))
          ELSE stack' = frames

PopPending ==
    /\ pending # <<>>
    /\ delivered' = Append(delivered, Head(pending))
    /\ pending' = Tail(pending)
    /\ UNCHANGED <<fs, opt, rootIndex, stack>>

\* Mutant: a directory whose children are done stays on the stack.
LeaveDirStays ==
    /\ pending = <<>> /\ stack # <<>>
    /\ Last(stack).next > Len(Last(stack).children)
    /\ UNCHANGED vars

\* advance_stack: a directory whose children are done.
LeaveDir ==
    /\ pending = <<>> /\ stack # <<>>
    /\ Last(stack).next > Len(Last(stack).children)
    /\ stack' = Front(stack)
    /\ UNCHANGED <<fs, opt, rootIndex, pending, delivered>>

\* enqueue_child: the next child, a link followed if asked for.
NextChild ==
    /\ pending = <<>> /\ stack # <<>>
    /\ Last(stack).next <= Len(Last(stack).children)
    /\ rootIndex' = rootIndex
    /\ LET frame == Last(stack)
           child == frame.children[frame.next]
           path == Append(frame.path, child)
           frames == [stack EXCEPT ![Len(stack)].next = @ + 1]
           error == ChildError(frame.ig, child)
       IN IF error = "none" THEN EnqueueEntry(path, frame.ig, <<>>, frames)
          ELSE pending' = <<Result(error, path)>> /\ stack' = frames
    /\ UNCHANGED <<fs, opt, delivered>>

\* enqueue_root_path: the next path the walk was given.  The error of
\* add_parents comes before the entry, that of its device in its place.
NextRoot ==
    /\ pending = <<>> /\ stack = <<>> /\ rootIndex < Len(opt.roots)
    /\ rootIndex' = rootIndex + 1
    /\ LET root == opt.roots[rootIndex + 1]
           path == <<root>>
           parents == OneIf(IsDir(path) /\ ParentsFail(Real(root)), Result("parents", path))
       IN IF root = Stdin THEN pending' = <<Result("entry", path)>> /\ stack' = <<>>
          ELSE IF fs.kind[Real(root)] = "missing" THEN pending' = <<Result("broken", path)>> /\ stack' = <<>>
          ELSE IF opt.oneDevice /\ Fails("device", Real(root))
          THEN pending' = Append(parents, Result("device", path)) /\ stack' = <<>>
          ELSE EnqueueEntry(path, IF IsDir(path) THEN AddParents(Real(root)) ELSE IgRoot, parents, <<>>)
    /\ UNCHANGED <<fs, opt, delivered>>

Finished == pending = <<>> /\ stack = <<>> /\ rootIndex = Len(opt.roots)

\* Not a step: next returns none from here on.
Ended == Finished /\ UNCHANGED vars

Next == PopPending \/ LeaveDir \/ NextChild \/ NextRoot \/ Ended

Spec == Init /\ [][Next]_vars

\* There is a child or a path to look at: NextChild or NextRoot is enabled.
MoreToDo ==
    /\ pending = <<>>
    /\ IF stack = <<>> THEN rootIndex < Len(opt.roots) ELSE Last(stack).next <= Len(Last(stack).children)

\* The caller asks for the next result until there is none.  The second conjunct
\* is weak fairness of NextChild \/ NextRoot, with what enables them written out.
Fairness == WF_vars(PopPending \/ LeaveDir) /\ ([]<>~MoreToDo \/ []<><<NextChild \/ NextRoot>>_vars)
FairSpec == Spec /\ Fairness

-----------------------------------------------------------------------------
TypeOK ==
    /\ rootIndex \in 0 .. Len(opt.roots)
    /\ \A k \in DOMAIN stack :
        /\ stack[k].path \in Seq(Obj) /\ stack[k].next \in 1 .. Len(stack[k].children) + 1
        /\ Range(stack[k].children) = Children(stack[k].ig[1].dir)
        /\ \A j \in 1 .. k - 1 : IsStrictPrefix(stack[j].path, stack[k].path)
    /\ Len(pending) <= 3
    /\ \A k \in DOMAIN delivered :
        delivered[k].what \in {"entry", "parents", "device", "lost", "broken", "unopened", "loop", "undecided", "unreadable"}

-----------------------------------------------------------------------------
\* The rules of ignore/dir.v as its documentation has them, over whole paths.

\* Directories above the entry at `path`: of the walk, then above the walk.
Within(path) == [k \in 1 .. Len(path) - 1 |-> Real(path[Len(path) - k])]
Chain(path) == Within(path) \o (IF opt.parents THEN Above(Real(Head(path))) ELSE <<>>)
EveryDir(path) == Range(Within(path)) \cup Range(Above(Real(Head(path))))

\* Git's rules count in a repository, and no further out than its directory.
InRepository(path) == ~opt.requireGit \/ EveryDir(path) \cap fs.git # {}
Counts(kind, path, k) ==
    kind \in GitKind =>
        /\ InRepository(path)
        /\ opt.requireGit => \A j \in 1 .. k - 1 : Chain(path)[j] \notin fs.git

\* Of one kind the nearest rule decides.
Nearest(kind, path) ==
    LET deciding == {k \in DOMAIN Chain(path) :
                        Counts(kind, path, k) /\ Says(kind, Chain(path)[k], Last(path)) # "none"}
    IN IF deciding = {} THEN "none"
       ELSE Says(kind, Chain(path)[CHOOSE k \in deciding : \A j \in deciding : k <= j], Last(path))

Elsewhere(kind, path) == IF kind = "global" /\ ~InRepository(path) THEN "none" ELSE Says(kind, Nowhere, Last(path))

\* Custom files, .ignore, .gitignore, exclude files, global and explicit rules,
\* in that order.
ByRules(path) ==
    FirstMatch([k \in DOMAIN DirKind |-> Nearest(DirKind[k], path)]
               \o <<Elsewhere("global", path), Elsewhere("explicit", path)>>)

\* An override decides; what the rules do not ignore is up to the file types;
\* what nothing decides is ignored if it is hidden.
Ignored(path) ==
    LET override == Elsewhere("override", path)
        types == Elsewhere("types", path)
    IN IF override # "none" THEN override = "ignore"
       ELSE \/ ByRules(path) = "ignore" \/ types = "ignore"
            \/ ByRules(path) = "none" /\ types = "none" /\ opt.skipHidden /\ Last(path) \in fs.hidden

\* What the walk delivers in the place of the entry at `path`, or "none".
Followed(path) == Len(path) > 1 /\ opt.follow /\ fs.kind[Last(path)] = "link"
Loop(path) == Followed(path) /\ IsDir(path) /\ Real(Last(path)) \in Range(Within(path))

\* A handle the search for a loop needs cannot be had: of what the link leads
\* to, or of a directory looked at before the loop is found.
Unopened(path) ==
    /\ Followed(path) /\ IsDir(path)
    /\ \/ Fails("link", Real(Last(path)))
       \/ \E k \in DOMAIN Within(path) :
            Fails("handle", Within(path)[k]) /\ \A j \in 1 .. k - 1 : Within(path)[j] # Real(Last(path))

Error(path) ==
    IF Len(path) > 1 /\ Lost(Last(path)) THEN "lost"
    ELSE IF (Len(path) = 1 \/ Followed(path)) /\ fs.kind[Real(Last(path))] = "missing" THEN "broken"
    ELSE IF Len(path) = 1 /\ opt.oneDevice /\ Fails("device", Real(Last(path))) THEN "device"
    ELSE IF Unopened(path) THEN "unopened"
    ELSE IF Loop(path) THEN "loop"
    ELSE "none"

\* An entry not ignored of which it cannot be told whether stdout writes it.
Undecided(path) == Len(path) > 1 /\ opt.skipStdout /\ Fails("stdout", Resolved(path))

\* A directory the walk is to read.
Entered(path) ==
    /\ IsDir(path) /\ Error(path) = "none" /\ ~Undecided(path)
    /\ Depth(path) < opt.max
    /\ opt.oneDevice => Resolved(path) \notin fs.other /\ ~Fails("same", Resolved(path))

\* What the walk comes to in a directory: nothing, unless it reads it.
Below(path) ==
    {q \in {Append(path, o) : o \in Children(Resolved(path))} :
        /\ Entered(path) /\ Resolved(path) \notin fs.unreadable
        /\ Error(q) = "none" => ~Ignored(q) /\ (Undecided(q) \/ Resolved(q) \notin fs.filtered)}

\* The paths a walk from root comes to, by their length.  A directory is met
\* again only below a link to a directory not met before.
Directories == {o \in Obj : fs.kind[o] = "dir"}
Bound == Cardinality(Directories) * Cardinality(Directories) + 1
Come(root) ==
    LET level[n \in 1 .. Bound] == IF n = 1 THEN {<<root>>} ELSE UNION {Below(path) : path \in level[n - 1]}
    IN UNION {level[n] : n \in 1 .. Bound}

Due(k) ==
    LET root == opt.roots[k]
        Say(what, paths) == {[what |-> what, root |-> k, path |-> p] : p \in paths}
    IN IF root = Stdin THEN Say("entry", {<<Stdin>>})
       ELSE LET all == Come(root)
                sound == {p \in all : Error(p) = "none"}
                entries == {p \in sound : ~Undecided(p)}
            IN {[what |-> Error(p), root |-> k, path |-> p] : p \in all \ sound}
               \cup Say("undecided", sound \ entries)
               \cup Say("parents", {p \in {<<root>>} : IsDir(p) /\ ParentsFail(Real(root))})
               \cup Say("device", {p \in entries : IsDir(p) /\ opt.oneDevice /\ Fails("same", Resolved(p))})
               \cup Say("entry", {p \in entries : Depth(p) >= opt.min})
               \cup Say("unreadable", {p \in entries : Entered(p) /\ Resolved(p) \in fs.unreadable})

\* The walk delivers what the rules leave, once each: in every directory it
\* enters the nearest rule of the strongest kind decides, git's rules end at
\* the innermost repository also when it lies above the walk, and links that
\* are followed lead to no directory the walk is already in.  Every call that
\* fails is told of, and costs no entry but its own and those below it
\* (Walk.next, matched_ignore, check_symlink_loop).
DeliveredExact ==
    Finished =>
        /\ Range(delivered) = UNION {Due(k) : k \in 1 .. Len(opt.roots)}
        /\ IsInjective(delivered)

\* Results come path by path in the order given; a directory comes before what
\* is in it, and what is in it before what comes after it; siblings are in
\* order if they are sorted (sort_children).
Earlier(a, b) ==
    \/ a.root < b.root
    \/ /\ a.root = b.root
       /\ \/ IsPrefix(a.path, b.path)
          \/ \E n \in DOMAIN a.path \cap DOMAIN b.path :
                /\ SubSeq(a.path, 1, n - 1) = SubSeq(b.path, 1, n - 1)
                /\ a.path[n] # b.path[n]
                /\ opt.sort # "none" => Before(a.path[n], b.path[n])
InOrder ==
    Finished =>
        /\ \A j, k \in DOMAIN delivered : j < k => Earlier(delivered[j], delivered[k])
        /\ \A i, j, k \in DOMAIN delivered :
            (i < j /\ j < k /\ delivered[i].root = delivered[k].root) =>
                IsPrefix(LongestCommonPrefix({delivered[i].path, delivered[k].path}), delivered[j].path)

\* A link never takes the walk into a directory it is in, at whatever depth and
\* through whatever other links: so no path grows for ever (check_symlink_loop).
NoCircle ==
    \A j, k \in DOMAIN stack :
        (j < k /\ fs.kind[Last(stack[k].path)] = "link") => Real(Last(stack[k].path)) # Real(Last(stack[j].path))

\* The walk ends, links in circles or not.
Terminates == <>Finished
=============================================================================
