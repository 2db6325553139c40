---------------------------- MODULE MCSerialWalk ----------------------------
\* Small file systems and walks of them, for TLC.
EXTENDS SerialWalk, TLC

\* /top/root/{sub/{file, link}, hidden, note}; gone is nowhere.
Top == 1
Root == 2
Sub == 3
File == 4
Link == 5
Hidden == 6
Note == 7
Gone == 8
Objects == 1 .. 8

Dirs == {Top, Root, Sub}
Verdicts == {"none", "ignore", "whitelist"}

Plain ==
    [ kind |-> <<"dir", "dir", "dir", "file", "link", "file", "file", "missing">>,
      parent |-> <<Nowhere, Top, Root, Sub, Sub, Root, Root, Nowhere>>,
      target |-> Link :> Note,
      git |-> {}, rules |-> <<>>, hidden |-> {Hidden}, filtered |-> {}, unreadable |-> {}, other |-> {},
      fails |-> {} ]

Usual ==
    [ roots |-> <<Root>>, follow |-> FALSE, sort |-> "up", min |-> 0, max |-> 9, oneDevice |-> FALSE,
      skipStdout |-> FALSE, sizes |-> FALSE,
      kinds |-> Kind, parents |-> TRUE, requireGit |-> TRUE, skipHidden |-> TRUE ]

\* Which .gitignore and exclude file decides of a file: repositories at any of
\* the three directories, the walk from either of two.
GitCase ==
    [ fs |-> {Plain}, git |-> SUBSET Dirs,
      rules |-> [{<<"git", d, File>> : d \in Dirs} \cup {<<"exclude", Root, File>>} -> Verdicts],
      opt |-> {[Usual EXCEPT !.roots = <<root>>, !.parents = parents, !.requireGit = require] :
                    root \in {Root, Sub}, parents \in BOOLEAN, require \in BOOLEAN} ]

\* Which kind of rule decides of a name that is hidden as well.
KindCase ==
    [ fs |-> {Plain}, git |-> {{Root}},
      rules |-> [{<<k, Root, Hidden>> : k \in {"custom", "ignore", "git"}}
                 \cup {<<k, Nowhere, Hidden>> : k \in GlobalKind} -> Verdicts],
      opt |-> {[Usual EXCEPT !.kinds = Kind \ off, !.max = 1] : off \in {{}, {"ignore"}}} ]

\* What is walked: links, depths, devices, what cannot be read, what is
\* ignored or filtered, several paths.
WalkCase ==
    [ fs |-> {[Plain EXCEPT !.target = Link :> target, !.unreadable = unreadable, !.other = {Sub}, !.filtered = {Note}] :
                    target \in {Top, Root, Sub, Note, Gone}, unreadable \in {{}, {Sub}}},
      git |-> {{}},
      rules |-> {<<"ignore", Top, Sub>> :> verdict : verdict \in {"none", "ignore"}},
      opt |-> {[Usual EXCEPT !.roots = roots, !.follow = follow, !.sort = sort, !.min = depths[1],
                             !.max = depths[2], !.oneDevice = oneDevice] :
                    roots \in {<<Root>>, <<Stdin, Gone, Link, Note>>}, follow \in BOOLEAN, sort \in {"none", "up", "down"},
                    depths \in {<<0, 9>>, <<1, 2>>, <<2, 1>>}, oneDevice \in BOOLEAN} ]

\* Which calls fail: any two of these, with the options that have them made.
Failing ==
    {<<"type", File>>, <<"lstat", File>>, <<"lstat", Link>>, <<"stdout", File>>, <<"stdout", Sub>>,
     <<"device", Root>>, <<"same", Root>>, <<"same", Sub>>,
     <<"link", Root>>, <<"handle", Sub>>, <<"handle", Root>>, <<"ignore", Top>>, <<"exclude", Top>>}
FailCase ==
    [ fs |-> {[Plain EXCEPT !.target = Link :> target, !.unreadable = unreadable, !.fails = {p, q}] :
                    target \in {Root, Sub}, unreadable \in {{}, {Root}}, p \in Failing, q \in Failing},
      git |-> {{Top}}, rules |-> {<<"git", Root, File>> :> verdict : verdict \in {"none", "ignore"}},
      opt |-> {[Usual EXCEPT !.follow = follow, !.oneDevice = oneDevice, !.skipStdout = skipStdout] :
                    follow \in BOOLEAN, oneDevice \in BOOLEAN, skipStdout \in BOOLEAN}
              \cup {[Usual EXCEPT !.sizes = TRUE, !.min = 2]} ]

AllCases == {GitCase, KindCase, WalkCase, FailCase}
=============================================================================
