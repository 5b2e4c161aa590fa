------------------------------- MODULE Binary -------------------------------
(***************************************************************************)
(* The fixed-width integer encodings BigEndian and LittleEndian            *)
(* (src/include/boltdb/util/binary.hpp).                                   *)
(*                                                                         *)
(* An integer is the set of the positions of its one bits, so a shift adds *)
(* to every position, a cast keeps the low positions, `|` is union, and no *)
(* width is too large.  A byte of a slice is such a set as well: Byte is   *)
(* signed in the code, and uint casts it to unsigned before it widens it.  *)
(***************************************************************************)
EXTENDS Integers, Sequences, SequencesExt

CONSTANT ByteBits      \* the bits of a Byte

ASSUME BinaryAssumption == ByteBits \in Nat \ {0}

ByteValue == SUBSET (0 .. ByteBits - 1)

\* The integers of n bytes.
UnsignedT(n) == SUBSET (0 .. ByteBits * n - 1)

ShiftLeft(v, k) == {b + k : b \in v}
ShiftRight(v, k) == {b - k : b \in {c \in v : c >= k}}

\* static_cast<Byte>(v >> k)
ByteAt(v, k) == ShiftRight(v, k) \cap (0 .. ByteBits - 1)

\* How far the code shifts the i-th byte of a slice that holds n of them.
BigEndian(i, n) == ByteBits * (n - i)
LittleEndian(i, n) == ByteBits * (i - 1)

Order == {"big", "little"}
Shift(order, i, n) == IF order = "big" THEN BigEndian(i, n) ELSE LittleEndian(i, n)

\* Faulty variant of Uint: a byte with its sign bit set is widened as a negative
\* number.
UintSigned(order, slice, n) ==
  LET widened(byte) == IF ByteBits - 1 \in byte THEN byte \cup (ByteBits .. ByteBits * n) ELSE byte
  IN  UNION {ShiftLeft(widened(slice[i]), Shift(order, i, n)) : i \in 1 .. n}
        \cap (0 .. ByteBits * n - 1)

\* uint<T>(slice), with n = sizeof(T)
Uint(order, slice, n) == UNION {ShiftLeft(slice[i], Shift(order, i, n)) : i \in 1 .. n}

\* put_uint(slice, v)
PutUint(order, slice, v, n) ==
  [i \in DOMAIN slice |-> IF i <= n THEN ByteAt(v, Shift(order, i, n)) ELSE slice[i]]

\* append_uint(slice, v)
AppendUint(order, slice, v, n) ==
  slice \o [i \in 1 .. n |-> ByteAt(v, Shift(order, i, n))]

\* append_variadic_uint(slice, integers...), each with its size
AppendVariadicUint(order, slice, integers) ==
  LET appended[i \in 0 .. Len(integers)] ==
        IF i = 0 THEN slice
        ELSE AppendUint(order, appended[i - 1], integers[i].value, integers[i].size)
  IN  appended[Len(integers)]
=============================================================================
