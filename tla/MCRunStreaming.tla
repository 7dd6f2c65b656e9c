--------------------------- MODULE MCRunStreaming ---------------------------
(* Instances of RunStreaming for TLC. *)
EXTENDS RunStreaming

CONSTANTS MaxLines,   \* longest input considered
          Kinds       \* the line kinds it is made of

MCFiles == UNION {[1..n -> Kinds] : n \in 0..MaxLines}
=============================================================================
