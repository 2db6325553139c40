-------------------------- MODULE MCFilesPipeline --------------------------
(***************************************************************************)
(* Four results for TLC, as many as two channels of one and two workers    *)
(* hold, so that every thread meets a full channel.                        *)
(***************************************************************************)
EXTENDS FilesPipeline

CONSTANTS r1, r2, r3, r4

\* The results are alike: the first ones are files, the last may be anything.
SomeKinds ==
    {[r \in Result |-> IF r \in files THEN "file" ELSE IF r = r4 THEN last ELSE "other"] :
        files \in {{}, {r1, r2}, {r1, r2, r3}}, last \in {"file", "error"}}
=============================================================================
