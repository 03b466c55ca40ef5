----------------------------- MODULE MCOutputPath -----------------------------
(* Instance of OutputPath for TLC: bytes are bits, and a payload may be one *)
(* byte longer than the length field can say.                               *)
EXTENDS OutputPath

ShortPayloads == BoundedSeq(0 .. ByteSpace - 1, LengthSpace - 1)
==============================================================================
