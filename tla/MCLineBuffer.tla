---------------------------- MODULE MCLineBuffer ----------------------------
(***************************************************************************)
(* Inputs for TLC: every short sequence of bytes.                          *)
(***************************************************************************)
EXTENDS LineBuffer, TLC

CONSTANT MaxLength

AllInputs == UNION {[1 .. n -> Byte] : n \in 0 .. MaxLength}
=============================================================================
