------------------------------ MODULE Encoding ------------------------------
(***************************************************************************)
(* p4runtime_lib/convert.py: values of a runtime configuration as the byte  *)
(* strings P4Runtime carries.  A value is a number, an address (the bytes   *)
(* its text stands for), any other text, or a list.                         *)
(***************************************************************************)
EXTENDS Integers, Sequences

Num(n) == [kind |-> "number", number |-> n]
Address(bytes) == [kind |-> "address", bytes |-> bytes]
Text == [kind |-> "text"]
ListOf(values) == [kind |-> "list", values |-> values]

\* 2^n: shifting by a bit doubles.
Pow2[n \in Nat] == IF n = 0 THEN 1 ELSE 2 * Pow2[n - 1]

bitwidthToBytes(bitwidth) == (bitwidth + 7) \div 8

\* Numbers with an encoding: two's complement ones down to -2^(bitwidth-1).
Encodable(number, bitwidth) ==
    /\ number >= -Pow2[bitwidth - 1]
    /\ number < Pow2[bitwidth]

\* Mutant: two's complement of the whole bytes.
UnsignedBytes(number, bitwidth) ==
    IF number < 0 THEN Pow2[8 * bitwidthToBytes(bitwidth)] + number ELSE number

\* Negative numbers in two's complement.
Unsigned(number, bitwidth) == IF number < 0 THEN Pow2[bitwidth] + number ELSE number

\* Big endian, with leading zeros up to whole bytes.
encodeNum(number, bitwidth) ==
    LET len == bitwidthToBytes(bitwidth)
    IN  [i \in 1 .. len |-> (Unsigned(number, bitwidth) \div Pow2[8 * (len - i)]) % 256]

\* The number the first bytes stand for, one byte after the other.
decodeNum(encoded) ==
    LET number[i \in 0 .. Len(encoded)] ==
            IF i = 0 THEN 0 ELSE 256 * number[i - 1] + encoded[i]
    IN  number[Len(encoded)]

\* A list of one element stands for the element.
Unwrapped(x) ==
    IF x.kind = "list" /\ Len(x.values) = 1 THEN x.values[1] ELSE x

\* encode raises on longer lists, on numbers that do not fit, and on addresses
\* of another length.  Other text it passes on "already encoded", which the
\* length check or the bytes field it is assigned to refuses.
CanEncode(x, bitwidth) ==
    LET v == Unwrapped(x) IN
    \/ v.kind = "number" /\ Encodable(v.number, bitwidth)
    \/ v.kind = "address" /\ Len(v.bytes) = bitwidthToBytes(bitwidth)

encode(x, bitwidth) ==
    LET v == Unwrapped(x) IN
    IF v.kind = "number" THEN encodeNum(v.number, bitwidth) ELSE v.bytes

=============================================================================
