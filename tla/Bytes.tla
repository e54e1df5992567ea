------------------------------- MODULE Bytes -------------------------------
(***************************************************************************)
(* The bytes a parser works on, and what it returns when it refuses them.  *)
(***************************************************************************)
EXTENDS ByteStrings

CONSTANTS
  Base,     \* number of byte values
  Nothing   \* what a parser returns with ok = false

Byte == 0 .. Base - 1

Word == Base * Base * Base * Base   \* 2^32

ASSUME BytesAssumption ==
  /\ Base \in Nat /\ Base > 1 /\ Base % 2 = 0
  /\ Nothing \notin Seq(Byte)
=============================================================================
