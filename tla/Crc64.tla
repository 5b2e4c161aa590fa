-------------------------------- MODULE Crc64 -------------------------------
(***************************************************************************)
(* crc64_be (src/util/crc64.cpp): the table-driven checksum of a slice,    *)
(* and the polynomial division that it is to compute.                      *)
(*                                                                         *)
(* An integer is the set of the positions of its one bits, as in Binary;   *)
(* as a polynomial over two elements it has these exponents.               *)
(***************************************************************************)
EXTENDS Binary

CONSTANT Polynomial      \* crc64.hpp 19-23, without its leading term

CrcBits == 8 * ByteBits

ASSUME Crc64Assumption ==
  /\ Polynomial \subseteq 0 .. CrcBits - 1
  /\ 0 \in Polynomial

Xor(a, b) == (a \ b) \cup (b \ a)
U64(v) == v \cap (0 .. CrcBits - 1)

\* Times x, modulo the polynomial.
TimesX(r) ==
  IF CrcBits - 1 \in r THEN Xor(U64(ShiftLeft(r, 1)), Polynomial) ELSE ShiftLeft(r, 1)

\* Times x^k, modulo the polynomial.
TimesPower(r, k) ==
  LET product[i \in 0 .. k] == IF i = 0 THEN r ELSE TimesX(product[i - 1])
  IN  product[k]

\* kCrc64Table, whose entry t is t times x^64 modulo the polynomial.
kCrc64Table ==
  [t \in ByteValue |-> TimesPower(ShiftLeft(t, CrcBits - ByteBits), ByteBits)]

\* Faulty variant of CrcByte: the table is indexed by the low byte.
CrcByteLow(crc, byte) ==
  LET t == Xor(ByteAt(crc, 0), byte)
  IN  Xor(kCrc64Table[t], U64(ShiftLeft(crc, ByteBits)))

\* One iteration of the loop of crc64_be.
CrcByte(crc, byte) ==
  LET t == Xor(ByteAt(crc, CrcBits - ByteBits), byte)
  IN  Xor(kCrc64Table[t], U64(ShiftLeft(crc, ByteBits)))

\* crc64_be(crc, p, len), of the bytes at p
crc64_be(seed, bytes) ==
  LET step == [crc \in UnsignedT(8) |-> [byte \in ByteValue |-> CrcByte(crc, byte)]]
      loop[i \in 0 .. Len(bytes)] ==
        IF i = 0 THEN seed ELSE step[loop[i - 1]][bytes[i]]
  IN  loop[Len(bytes)]

-----------------------------------------------------------------------------
\* What it is to compute: the message, its first bit leading, with as many zeros
\* behind it as the checksum has bits, is divided bit by bit.
DivideByte(r, byte) ==
  LET q[k \in 0 .. ByteBits] ==
        IF k = 0 THEN r
        ELSE Xor(TimesX(q[k - 1]), IF ByteBits - k \in byte THEN {0} ELSE {})
  IN  q[ByteBits]

Divide(message) ==
  LET step == [r \in UnsignedT(8) |-> [byte \in ByteValue |-> DivideByte(r, byte)]]
      loop[i \in 0 .. Len(message)] ==
        IF i = 0 THEN {} ELSE step[loop[i - 1]][message[i]]
  IN  loop[Len(message)]

Remainder(bytes) == Divide(bytes \o [i \in 1 .. 8 |-> {}])
=============================================================================
