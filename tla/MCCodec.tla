------------------------------ MODULE MCCodec ------------------------------
(* A small instance of Codec for TLC: strings of equal bytes, short ones    *)
(* and those about the limit of LengthHeaderCodec.                          *)
EXTENDS Codec

MCPayloads == UNION {[1..n -> {byte}] : n \in 0..3 \cup {LengthMax, LengthMax + 1}, byte \in {1, 2}}

\* Bytes are only moved; the vector is cut; a vector of that size is impossible.
MCNegatives == {-1, -(kCheapPrepend + 1), -(kCheapPrepend + kHeaderLen + 1)}
=============================================================================
