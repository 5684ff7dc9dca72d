---------------------------------- MODULE Des ----------------------------------
(***************************************************************************)
(* The encryption of packets (des.c).  A block is 64 bits, bit 0 the first *)
(* of the first byte (BITNUM), a half 32 bits, bit 0 the most significant  *)
(* (BITNUMINTR, BITNUMINTL).  A half is a function from its bits, so a     *)
(* shift or a mask of the code is a choice of bits here.                   *)
(***************************************************************************)
EXTENDS NetRW

Half == [0..31 -> {0, 1}]
Block == [0..63 -> {0, 1}]
RoundKeys == [0..47 -> {0, 1}]

\* ENCRYPTION_KEY
ENCRYPTION_KEY == <<76, 42, 35, 41, 64, 33, 38, 56>>

sbox1 ==
  <<14, 4, 13, 1, 2, 15, 11, 8, 3, 10, 6, 12, 5, 9, 0, 7,
    0, 15, 7, 4, 14, 2, 13, 1, 10, 6, 12, 11, 9, 5, 3, 8,
    4, 1, 14, 8, 13, 6, 2, 11, 15, 12, 9, 7, 3, 10, 5, 0,
    15, 12, 8, 2, 4, 9, 1, 7, 5, 11, 3, 14, 10, 0, 6, 13>>
sbox2 ==
  <<15, 1, 8, 14, 6, 11, 3, 4, 9, 7, 2, 13, 12, 0, 5, 10,
    3, 13, 4, 7, 15, 2, 8, 14, 12, 0, 1, 10, 6, 9, 11, 5,
    0, 14, 7, 11, 10, 4, 13, 1, 5, 8, 12, 6, 9, 3, 2, 15,
    13, 8, 10, 1, 3, 15, 4, 2, 11, 6, 7, 12, 0, 5, 14, 9>>
sbox3 ==
  <<10, 0, 9, 14, 6, 3, 15, 5, 1, 13, 12, 7, 11, 4, 2, 8,
    13, 7, 0, 9, 3, 4, 6, 10, 2, 8, 5, 14, 12, 11, 15, 1,
    13, 6, 4, 9, 8, 15, 3, 0, 11, 1, 2, 12, 5, 10, 14, 7,
    1, 10, 13, 0, 6, 9, 8, 7, 4, 15, 14, 3, 11, 5, 2, 12>>
sbox4 ==
  <<7, 13, 14, 3, 0, 6, 9, 10, 1, 2, 8, 5, 11, 12, 4, 15,
    13, 8, 11, 5, 6, 15, 0, 3, 4, 7, 2, 12, 1, 10, 14, 9,
    10, 6, 9, 0, 12, 11, 7, 13, 15, 1, 3, 14, 5, 2, 8, 4,
    3, 15, 0, 6, 10, 1, 13, 8, 9, 4, 5, 11, 12, 7, 2, 14>>
sbox5 ==
  <<2, 12, 4, 1, 7, 10, 11, 6, 8, 5, 3, 15, 13, 0, 14, 9,
    14, 11, 2, 12, 4, 7, 13, 1, 5, 0, 15, 10, 3, 9, 8, 6,
    4, 2, 1, 11, 10, 13, 7, 8, 15, 9, 12, 5, 6, 3, 0, 14,
    11, 8, 12, 7, 1, 14, 2, 13, 6, 15, 0, 9, 10, 4, 5, 3>>
sbox6 ==
  <<12, 1, 10, 15, 9, 2, 6, 8, 0, 13, 3, 4, 14, 7, 5, 11,
    10, 15, 4, 2, 7, 12, 9, 5, 6, 1, 13, 14, 0, 11, 3, 8,
    9, 14, 15, 5, 2, 8, 12, 3, 7, 0, 4, 10, 1, 13, 11, 6,
    4, 3, 2, 12, 9, 5, 15, 10, 11, 14, 1, 7, 6, 0, 8, 13>>
sbox7 ==
  <<4, 11, 2, 14, 15, 0, 8, 13, 3, 12, 9, 7, 5, 10, 6, 1,
    13, 0, 11, 7, 4, 9, 1, 10, 14, 3, 5, 12, 2, 15, 8, 6,
    1, 4, 11, 13, 12, 3, 7, 14, 10, 15, 6, 8, 0, 5, 9, 2,
    6, 11, 13, 8, 1, 4, 10, 7, 9, 5, 0, 15, 14, 2, 3, 12>>
sbox8 ==
  <<13, 2, 8, 4, 6, 15, 11, 1, 10, 9, 3, 14, 5, 0, 12, 7,
    1, 15, 13, 8, 10, 3, 7, 4, 12, 5, 6, 11, 0, 14, 9, 2,
    7, 11, 4, 1, 9, 12, 14, 2, 0, 6, 10, 13, 15, 3, 5, 8,
    2, 1, 14, 7, 4, 10, 8, 13, 15, 12, 9, 0, 3, 5, 6, 11>>

sbox == <<sbox1, sbox2, sbox3, sbox4, sbox5, sbox6, sbox7, sbox8>>

Xor(a, b) == [n \in DOMAIN a |-> (a[n] + b[n]) % 2]

-----------------------------------------------------------------------------
\* The keys of the rounds

key_perm_c == <<56, 48, 40, 32, 24, 16, 8, 0, 57, 49, 41, 33, 25, 17,
                9, 1, 58, 50, 42, 34, 26, 18, 10, 2, 59, 51, 43, 35>>
key_perm_d == <<62, 54, 46, 38, 30, 22, 14, 6, 61, 53, 45, 37, 29, 21,
                13, 5, 60, 52, 44, 36, 28, 20, 12, 4, 27, 19, 11, 3>>

key_compression == <<13, 16, 10, 23, 0, 4, 2, 27, 14, 5, 20, 9,
                     22, 18, 11, 3, 25, 7, 15, 6, 26, 19, 12, 1,
                     40, 51, 30, 36, 46, 54, 29, 39, 50, 44, 32, 47,
                     43, 48, 38, 55, 33, 52, 45, 41, 49, 35, 28, 31>>

\* How far C and D have been turned in rounds 0 to i: key_rnd_shift, added up.
turned == <<1, 2, 4, 6, 8, 10, 12, 14, 15, 17, 19, 21, 23, 25, 27, 28>>

\* Bits 0 to 23 are taken from C, the others from D.
RoundKeyOf(key, i) ==
  [n \in 0..47 |->
     LET from == key_compression[n + 1]
         bit == IF n < 24 THEN key_perm_c[((from + turned[i + 1]) % 28) + 1]
                          ELSE key_perm_d[((from - 28 + turned[i + 1]) % 28) + 1]
     IN Bit(At(key, bit \div 8), 7 - (bit % 8))]

\* KeySchedule: the keys of the 16 rounds, backwards to decrypt.
ENCRYPT == "ENCRYPT"
DECRYPT == "DECRYPT"

KeySchedule(key, mode) ==
  [i \in 0..15 |-> RoundKeyOf(key, IF mode = DECRYPT THEN 15 - i ELSE i)]

-----------------------------------------------------------------------------
\* A round

\* Eight groups of six bits, each a group of four with its neighbours.
Expand(half) == [n \in 0..47 |-> half[((n \div 6) * 4 + (n % 6) + 31) % 32]]

\* The number that a group of six is, its outer bits first (SBOXBIT).
SboxIndex(bits, group) ==
  LET b == [j \in 0..5 |-> bits[6 * group + j]] IN
    32 * b[0] + 16 * b[5] + 8 * b[1] + 4 * b[2] + 2 * b[3] + b[4]

Substitute(bits) ==
  [n \in 0..31 |-> Bit(sbox[(n \div 4) + 1][SboxIndex(bits, n \div 4) + 1], 3 - (n % 4))]

permutation == <<15, 6, 19, 20, 28, 11, 27, 16, 0, 14, 22, 25, 4, 17, 30, 9,
                 1, 7, 23, 13, 31, 26, 2, 8, 18, 12, 29, 5, 21, 10, 3, 24>>

Permute(half) == [n \in 0..31 |-> half[permutation[n + 1]]]

F(half, roundKey) == Permute(Substitute(Xor(Expand(half), roundKey)))

-----------------------------------------------------------------------------
\* A block

\* The odd bits of the bytes are state[0], the even ones state[1].
IP(block) ==
  [l |-> [j \in 0..31 |-> block[57 - 8 * (j % 8) + 2 * (j \div 8)]],
   r |-> [j \in 0..31 |-> block[56 - 8 * (j % 8) + 2 * (j \div 8)]]]

InvIP(state) ==
  [n \in 0..63 |->
     LET from == 7 - (n \div 8) + 8 * ((n % 8) \div 2) IN
       IF n % 2 = 0 THEN state.r[from] ELSE state.l[from]]

Swap(state) == [l |-> state.r, r |-> state.l]

Round(state, roundKey) == [l |-> state.r, r |-> Xor(F(state.r, roundKey), state.l)]

FourRounds(state, schedule, i) ==
  Round(Round(Round(Round(state, schedule[i]), schedule[i + 1]), schedule[i + 2]),
        schedule[i + 3])

Rounds(state, schedule) ==
  FourRounds(FourRounds(FourRounds(FourRounds(state, schedule, 0), schedule, 4),
                        schedule, 8), schedule, 12)

\* The last round of the code does not swap.
Crypt(block, schedule) == InvIP(Swap(Rounds(IP(block), schedule)))

-----------------------------------------------------------------------------
\* A packet: whole blocks, and what is left as it is.

BlockAt(data, i) == [n \in 0..63 |-> Bit(At(data, 8 * i + (n \div 8)), 7 - (n % 8))]

ByteOf(block, k) == Octet([j \in 0..7 |-> block[8 * k + 7 - j]])

CryptData(data, schedule) ==
  [n \in 1..Len(data) |->
     LET i == (n - 1) \div 8 IN
       IF i < Len(data) \div 8 THEN ByteOf(Crypt(BlockAt(data, i), schedule), (n - 1) % 8)
                               ELSE data[n]]

EncryptData(data, key) == CryptData(data, KeySchedule(key, ENCRYPT))
DecryptData(data, key) == CryptData(data, KeySchedule(key, DECRYPT))

\* send_packet: the size and the type stay as they are.
Encrypted(packet) ==
  SubSeq(packet, 1, 4) \o EncryptData(SubSeq(packet, 5, Len(packet)), ENCRYPTION_KEY)
===============================================================================
