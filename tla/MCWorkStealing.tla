--------------------------- MODULE MCWorkStealing ---------------------------
(***************************************************************************)
(* Small trees for TLC.  Two roots so that the deal matters; a directory   *)
(* with several children so that a queue of more than one item is stolen   *)
(* from; every fate somewhere.                                             *)
(***************************************************************************)
EXTENDS WorkStealingInv, TLC

CONSTANTS r1, r2, a, b, c

\* r1 and r2 are roots; a, b and c are the children of r1.
TwoRoots == <<r1, r2>>
WideTree == (r1 :> NoEntry) @@ (r2 :> NoEntry) @@ (a :> r1) @@ (b :> r1) @@ (c :> r1)
WideDepth == (r1 :> 0) @@ (r2 :> 0) @@ (a :> 1) @@ (b :> 1) @@ (c :> 1)
WideFates == (r1 :> {"dir", "partial"}) @@ (r2 :> {"file", "broken", "nodev"})
             @@ (a :> {"file"}) @@ (b :> {"file", "broken"}) @@ (c :> {"file", "skipped"})

\* a is below r1, b and c below a.
DeepTree == (r1 :> NoEntry) @@ (r2 :> NoEntry) @@ (a :> r1) @@ (b :> a) @@ (c :> a)
DeepDepth == (r1 :> 0) @@ (r2 :> 0) @@ (a :> 1) @@ (b :> 2) @@ (c :> 2)
DeepFates == (r1 :> {"partial"}) @@ (r2 :> {"file"})
             @@ (a :> {"dir", "skipped", "unreadable", "foreign", "nodev", "broken"})
             @@ (b :> {"file"}) @@ (c :> {"dir"})
=============================================================================
