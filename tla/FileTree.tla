------------------------------ MODULE FileTree ------------------------------
(***************************************************************************)
(* The file tree a traversal of ignore/walk.v runs over, and what the      *)
(* traversal owes to each of its entries.                                  *)
(*                                                                         *)
(* An entry is one path under one root: the same file named by two roots,  *)
(* or reached again through a followed symbolic link, is two entries.      *)
(* What the file system and the ignore rules answer when the walk asks     *)
(* about an entry is its fate:                                             *)
(*   file        a non-directory (standard input included)                 *)
(*   dir         a directory that can be listed                            *)
(*   unreadable  a directory whose listing fails                           *)
(*   foreign     a directory on another device than its root               *)
(*   nodev       an entry whose device cannot be read                      *)
(*   skipped     dropped by skip_entry: ignore rules, standard output,     *)
(*               size limit or the caller's filter                         *)
(*   broken      an entry that cannot be examined: lstat/stat failed, a    *)
(*               symbolic-link loop, or skip_entry itself failed           *)
(*   partial     a root directory whose parents' ignore files failed       *)
(***************************************************************************)
EXTENDS Naturals, Sequences

CONSTANTS
    Entry,     \* every path the walk may meet
    NoEntry,   \* not an entry
    Roots,     \* WalkParallel.paths, in order
    Parent,    \* the directory an entry is listed in, NoEntry for a root
    Depth,     \* DirEntry.depth: 0 for a root
    MinDepth,  \* WalkBuilder.min_depth (0 when not set)
    MaxDepth,  \* WalkBuilder.max_depth (the tree's height when not set)
    Fates      \* the fates each entry may have

Fate == {"file", "dir", "unreadable", "foreign", "nodev", "skipped", "broken", "partial"}
RootFate == {"file", "dir", "unreadable", "nodev", "broken", "partial"}

RootSet == {Roots[i] : i \in DOMAIN Roots}

ASSUME TreeAssumption ==
    /\ NoEntry \notin Entry
    /\ Roots \in Seq(Entry)
    /\ \A i, j \in DOMAIN Roots : Roots[i] = Roots[j] => i = j
    /\ Parent \in [Entry -> Entry \cup {NoEntry}]
    /\ \A e \in Entry : Parent[e] = NoEntry <=> e \in RootSet
    /\ Depth \in [Entry -> Nat]
    /\ \A e \in Entry : Depth[e] = IF e \in RootSet THEN 0 ELSE Depth[Parent[e]] + 1

ASSUME FateAssumption ==
    /\ MinDepth \in Nat /\ MaxDepth \in Nat
    /\ Fates \in [Entry -> SUBSET Fate]
    /\ \A e \in Entry : IF e \in RootSet THEN Fates[e] \subseteq RootFate
                                         ELSE "partial" \notin Fates[e]

Children(e) == {c \in Entry : Parent[c] = e}

\* Every assignment of fates the file system may hold for the walk.
FateFunctions == {f \in [Entry -> Fate] : \A e \in Entry : f[e] \in Fates[e]}

(***************************************************************************)
(* The decisions of walk_stealing_run_one about the entry it was given.    *)
(***************************************************************************)
ShouldVisit(e) == Depth[e] >= MinDepth
\* A directory the walk tries to list unless the visitor answers skip or quit.
Descends(f, e) == f[e] \in {"dir", "unreadable", "partial"} /\ Depth[e] < MaxDepth

(***************************************************************************)
(* What a completed walk owes to an entry it has discovered.               *)
(***************************************************************************)
NeverQueued(f, e) ==
    f[e] \in {"skipped", "broken"} \/ (f[e] = "nodev" /\ e \in RootSet)

DeliveriesDue(f, e) == IF ShouldVisit(e) /\ ~NeverQueued(f, e) THEN 1 ELSE 0

ErrorsDue(f, pruned, e) ==
    IF \/ f[e] \in {"broken", "nodev", "partial"}
       \/ f[e] = "unreadable" /\ Descends(f, e) /\ e \notin pruned
    THEN 1 ELSE 0

ListingDue(f, pruned, e) ==
    f[e] \in {"dir", "partial"} /\ Descends(f, e) /\ e \notin pruned
=============================================================================
