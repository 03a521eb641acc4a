---------------------------- MODULE CompactInts ----------------------------
(***************************************************************************)
(* The integers of TCompactProtocol: what its shifts, masks and casts do,  *)
(* as arithmetic on integers of w bits.                                    *)
(***************************************************************************)
EXTENDS Integers, Sequences

CONSTANTS I16Bits, I32Bits, I64Bits

ASSUME WidthAssumption ==
    I64Bits \in Nat /\ I32Bits \in 8..I64Bits /\ I16Bits \in 8..I32Bits

(* 1 << k                                                                  *)
bit[k \in Nat] == IF k = 0 THEN 1 ELSE 2 * bit[k - 1]

(* static_cast to an unsigned and to a signed integer of w bits.           *)
Unsigned(n, w) == n % bit[w]

Signed(n, w) == LET u == n % bit[w] IN IF u < bit[w - 1] THEN u ELSE u - bit[w]

(* (n << 1) ^ (n >> 31): 0, -1, 1, -2, ... become 0, 1, 2, 3, ...          *)
toZigzag(n) == IF n < 0 THEN -2 * n - 1 ELSE 2 * n

(* (n >> 1) ^ -(n & 1)                                                     *)
fromZigzag(n) == IF n % 2 = 0 THEN n \div 2 ELSE -(n \div 2) - 1

(* A byte of two halves, and each of them.                                 *)
Packed(high, low) == 16 * high + low

HighHalf(byte) == byte \div 16

LowHalf(byte) == byte % 16

(* Whether a field id is sent as its distance from the last one.           *)
UsesDelta(last, id) == id > last /\ id - last <= 15

(* The field ids a reader and a writer get from the half of the header     *)
(* that holds the distance, and from an id that follows it.                *)
DeltaOf(last, id) == IF UsesDelta(last, id) THEN id - last ELSE 0

IdFrom(last, delta, following) == IF delta = 0 THEN following ELSE last + delta

-----------------------------------------------------------------------------
(* The bytes of a varint: seven bits each, the lowest first.               *)
varint[n \in Nat] ==
    IF n < 128 THEN <<n>> ELSE <<(n % 128) + 128>> \o varint[n \div 128]

writeVarint32(n) == varint[Unsigned(n, I32Bits)]

writeI16(n) == writeVarint32(toZigzag(n))

writeI64(n) == varint[toZigzag(n)]

(* 64 bits in pieces of seven, rounded up.                                 *)
MaxVarint == (I64Bits + 6) \div 7

(* How many bytes a varint has: the first without a high bit ends it.      *)
VarintLength(bytes) ==
    LET ends == {i \in 1..Len(bytes) : i <= MaxVarint /\ bytes[i] < 128}
    IN  IF ends = {} THEN 0 ELSE CHOOSE i \in ends : \A j \in ends : i <= j

(* The value of its bytes; of the last k of them, shifted out at the top.  *)
VarintValue(bytes) ==
    LET high[k \in 0..Len(bytes)] ==
            IF k = 0 THEN 0
            ELSE (bytes[Len(bytes) + 1 - k] % 128) + 128 * (high[k - 1] % bit[I64Bits - 7])
    IN  high[Len(bytes)]
=============================================================================
