--------------------------------- MODULE NetRW ---------------------------------
(***************************************************************************)
(* How numbers are laid out in a packet (net_rw.h): little-endian on every *)
(* host.  Bytes are a sequence of numbers below 256; "offset" counts from  *)
(* 0, as in the code.  An argument is first converted to the type of the   *)
(* parameter, which drops its upper bits.  A 64-bit number is its two      *)
(* halves of 32 bits, and a float is the pattern of its bits, which is     *)
(* what memcpy takes of it.                                                *)
(***************************************************************************)
EXTENDS Integers, Sequences

Octets == 0..255
U16 == {v \in Nat : v \div 256 \in Octets}
U32 == {v \in Nat : v \div (256 * 256) \in U16}
U64 == [lo : U32, hi : U32]

I8 == -128..127
I16 == {v \in Int : v \div 256 \in I8}
I32 == {v \in Int : v \div (256 * 256) \in I16}
I64 == [lo : U32, hi : I32]

write_u8(v)  == <<v % 256>>
write_u16(v) == <<v % 256, (v \div 256) % 256>>
write_u32(v) == write_u16(v) \o write_u16(v \div (256 * 256))
write_u64(v) == write_u32(v.lo) \o write_u32(v.hi)

write_i8(v)  == write_u8(v)
write_i16(v) == write_u16(v)
write_i32(v) == write_u32(v)
write_i64(v) == write_u64(v)

write_f32(pattern) == write_u32(pattern)
write_f64(pattern) == write_u64(pattern)

\* write_bytes too; from a buffer that has at least len bytes.
write_raw(src, len) == SubSeq(src, 1, len)
write_zero(len) == [n \in 1..len |-> 0]

At(data, offset) == data[offset + 1]

read_u8(data, offset)  == At(data, offset)
read_u16(data, offset) == At(data, offset) + 256 * At(data, offset + 1)
read_u32(data, offset) == read_u16(data, offset) + (256 * 256) * read_u16(data, offset + 2)
read_u64(data, offset) == [lo |-> read_u32(data, offset), hi |-> read_u32(data, offset + 4)]

Signed(b) == IF b < 128 THEN b ELSE b - 256

read_i8(data, offset)  == Signed(At(data, offset))
read_i16(data, offset) == At(data, offset) + 256 * read_i8(data, offset + 1)
read_i32(data, offset) == read_u16(data, offset) + (256 * 256) * read_i16(data, offset + 2)
read_i64(data, offset) == [lo |-> read_u32(data, offset), hi |-> read_i32(data, offset + 4)]

read_f32(data, offset) == read_u32(data, offset)
read_f64(data, offset) == read_u64(data, offset)

\* read_bytes too.
read_raw(data, offset, len) == SubSeq(data, offset + 1, offset + len)

-----------------------------------------------------------------------------
\* The bits of a byte, bit j of weight 2^j, and the byte of eight bits.

Weight == <<1, 2, 4, 8, 16, 32, 64, 128>>
Bits == [0..7 -> {0, 1}]

Bit(b, j) == (b \div Weight[j + 1]) % 2

Octet(bits) == bits[0] + 2 * bits[1] + 4 * bits[2] + 8 * bits[3]
             + 16 * bits[4] + 32 * bits[5] + 64 * bits[6] + 128 * bits[7]
===============================================================================
