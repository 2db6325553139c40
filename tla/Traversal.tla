----------------------------- MODULE Traversal ------------------------------
(***************************************************************************)
(* What a traversal of ignore/walk.v promises its visitor, whichever       *)
(* engine runs it: an entry waits from the moment it is discovered, is     *)
(* open while it is being handled, and is closed when everything owed to   *)
(* it was done.  No order among entries is promised except that a          *)
(* directory is delivered before it is listed, and nothing is promised     *)
(* once the visitor has asked to quit.                                     *)
(***************************************************************************)
EXTENDS FileTree

VARIABLES
    fate,       \* what the file system holds
    waiting,    \* discovered entries not yet taken up
    open,       \* entries being handled
    delivered,  \* how often each entry was given to the visitor
    errors,     \* how often an error about each entry was given to the visitor
    pruned,     \* directories the visitor asked not to descend into
    listed,     \* directories whose children were discovered
    quit,       \* the visitor has answered quit
    finished    \* the walk has returned

vars == <<fate, waiting, open, delivered, errors, pruned, listed, quit, finished>>

Init ==
    /\ fate \in FateFunctions
    /\ waiting = RootSet
    /\ open = {}
    /\ delivered = [e \in Entry |-> 0]
    /\ errors = [e \in Entry |-> 0]
    /\ pruned = {}
    /\ listed = {}
    /\ quit = FALSE
    /\ finished = FALSE

\* An entry is taken up once.
Begin(e) ==
    /\ e \in waiting
    /\ ~NeverQueued(fate, e)
    /\ waiting' = waiting \ {e}
    /\ open' = open \cup {e}
    /\ UNCHANGED <<fate, delivered, errors, pruned, listed, quit, finished>>

\* skip_entry drops the entry without a word.
Discard(e) ==
    /\ e \in waiting
    /\ fate[e] = "skipped"
    /\ waiting' = waiting \ {e}
    /\ UNCHANGED <<fate, open, delivered, errors, pruned, listed, quit, finished>>

\* The visitor is given the entry, once, and may answer skip or quit.
Deliver(e) ==
    /\ e \in open
    /\ ShouldVisit(e)
    /\ delivered[e] = 0
    /\ e \notin listed
    /\ delivered' = [delivered EXCEPT ![e] = 1]
    /\ pruned' \in {pruned, pruned \cup {e}}
    /\ quit' \in {quit, TRUE}
    /\ UNCHANGED <<fate, waiting, open, errors, listed, finished>>

\* The visitor is given the entry's error, once; an entry that is never
\* queued is done with.
Report(e) ==
    /\ e \in waiting \cup open
    /\ ErrorsDue(fate, pruned, e) = 1
    /\ errors[e] = 0
    /\ errors' = [errors EXCEPT ![e] = 1]
    /\ waiting' \in {waiting, waiting \ {e}}
    /\ e \in waiting \ waiting' => NeverQueued(fate, e) \/ quit'
    /\ quit' \in {quit, TRUE}
    /\ UNCHANGED <<fate, open, delivered, pruned, listed, finished>>

\* The children of a directory are discovered, once, after the directory
\* itself was delivered.
List(e) ==
    /\ e \in open
    /\ e \notin listed
    /\ ListingDue(fate, pruned, e)
    /\ delivered[e] = DeliveriesDue(fate, e)
    /\ listed' = listed \cup {e}
    /\ waiting' = waiting \cup Children(e)
    /\ UNCHANGED <<fate, open, delivered, errors, pruned, quit, finished>>

Settled(e) ==
    /\ delivered[e] = DeliveriesDue(fate, e)
    /\ errors[e] = ErrorsDue(fate, pruned, e)
    /\ e \in listed <=> ListingDue(fate, pruned, e)

\* The entry is let go of: all that was due to it was done, or the visitor
\* wants no more.
Close(e) ==
    /\ e \in open
    /\ Settled(e) \/ quit
    /\ open' = open \ {e}
    /\ UNCHANGED <<fate, waiting, delivered, errors, pruned, listed, quit, finished>>

Finish ==
    /\ ~finished
    /\ quit \/ (waiting = {} /\ open = {})
    /\ finished' = TRUE
    /\ UNCHANGED <<fate, waiting, open, delivered, errors, pruned, listed, quit>>

Next ==
    \/ \E e \in Entry : Begin(e) \/ Discard(e) \/ Deliver(e) \/ Report(e) \/ List(e) \/ Close(e)
    \/ Finish

Spec == Init /\ [][Next]_vars
=============================================================================
