------------------------------ MODULE Wire_proofs ------------------------------
(***************************************************************************)
(* Theorems about what the program puts on the wire and reads from it:     *)
(*                                                                         *)
(*   - net_rw.h and the request builders: what is written into a packet is *)
(*     what is read from it, and no packet outgrows the buffer;            *)
(*   - des.c: whatever the key and the data, decrypting what was encrypted *)
(*     gives back the data.  A round is its own inverse up to a swap of    *)
(*     the halves, so the rounds with their keys backwards undo the        *)
(*     rounds; the permutations at both ends are inverse to each other;    *)
(*   - map_point.c: which conversions of places undo each other.           *)
(***************************************************************************)
EXTENDS Requests, Des, MapPoint, SequenceTheorems, FiniteSetTheorems, TLAPS

-----------------------------------------------------------------------------
\* Places in a packet

LEMMA Glue ==
  ASSUME NEW a \in Seq(Octets), NEW b \in Seq(Octets)
  PROVE  /\ a \o b \in Seq(Octets) /\ Len(a \o b) = Len(a) + Len(b)
         /\ \A k \in 1..Len(a) : (a \o b)[k] = a[k]
         /\ \A k \in 1..Len(b) : (a \o b)[Len(a) + k] = b[k]
<1> DEFINE ab == a \o b
<1>1. /\ ab \in Seq(Octets) /\ Len(ab) = Len(a) + Len(b)
      /\ \A i \in 1 .. Len(a) + Len(b) : ab[i] = IF i <= Len(a) THEN a[i] ELSE b[i - Len(a)]
  BY ConcatProperties
<1>2. Len(a) \in Nat /\ Len(b) \in Nat
  OBVIOUS
<1> HIDE DEF ab
<1>3. \A k \in 1..Len(a) : ab[k] = a[k]
  BY <1>1, <1>2
<1>4. ASSUME NEW k \in 1..Len(b) PROVE ab[Len(a) + k] = b[k]
  <2>1. Len(a) + k \in 1 .. Len(a) + Len(b) /\ ~ (Len(a) + k <= Len(a)) /\ (Len(a) + k) - Len(a) = k
    BY <1>2
  <2> QED BY <1>1, <2>1
<1> QED BY <1>1, <1>3, <1>4 DEF ab

LEMMA GlueThree ==
  ASSUME NEW a \in Seq(Octets), NEW b \in Seq(Octets), NEW c \in Seq(Octets)
  PROVE  /\ a \o b \o c \in Seq(Octets)
         /\ Len(a \o b \o c) = Len(a) + Len(b) + Len(c)
         /\ \A k \in 1..Len(b) : (a \o b \o c)[Len(a) + k] = b[k]
<1> DEFINE ab == a \o b
<1>1. /\ ab \in Seq(Octets) /\ Len(ab) = Len(a) + Len(b)
      /\ \A k \in 1..Len(b) : ab[Len(a) + k] = b[k]
  BY Glue
<1>2. Len(a) \in Nat /\ Len(b) \in Nat /\ Len(c) \in Nat
  OBVIOUS
<1> HIDE DEF ab
<1>3. /\ ab \o c \in Seq(Octets) /\ Len(ab \o c) = Len(ab) + Len(c)
      /\ \A k \in 1..Len(ab) : (ab \o c)[k] = ab[k]
  BY <1>1, Glue
<1>4. \A k \in 1..Len(b) : Len(a) + k \in 1..Len(ab)
  BY <1>1, <1>2
<1> QED BY <1>1, <1>2, <1>3, <1>4 DEF ab

LEMMA Words16 ==
  ASSUME NEW v \in Int
  PROVE  /\ write_u16(v) \in Seq(Octets) /\ Len(write_u16(v)) = 2
         /\ write_u16(v)[1] = v % 256 /\ write_u16(v)[2] = (v \div 256) % 256
<1>1. v % 256 \in Octets /\ (v \div 256) % 256 \in Octets
  BY DEF Octets
<1> HIDE DEF Octets
<1> QED BY <1>1 DEF write_u16

LEMMA Words32 ==
  ASSUME NEW v \in Int
  PROVE  /\ write_u32(v) \in Seq(Octets) /\ Len(write_u32(v)) = 4
         /\ write_u32(v)[1] = write_u16(v)[1] /\ write_u32(v)[2] = write_u16(v)[2]
         /\ write_u32(v)[3] = write_u16(v \div (256 * 256))[1]
         /\ write_u32(v)[4] = write_u16(v \div (256 * 256))[2]
<1>1. v \div (256 * 256) \in Int
  OBVIOUS
<1> DEFINE lo == write_u16(v)
           hi == write_u16(v \div (256 * 256))
<1>2. lo \in Seq(Octets) /\ Len(lo) = 2 /\ hi \in Seq(Octets) /\ Len(hi) = 2
  BY <1>1, Words16
<1>3. write_u32(v) = lo \o hi
  BY DEF write_u32
<1> HIDE DEF lo, hi
<1>4. 1 \in 1..2 /\ 2 \in 1..2 /\ 2 + 1 = 3 /\ 2 + 2 = 4
  OBVIOUS
<1>5. lo \o hi \in Seq(Octets) /\ Len(lo \o hi) = 4
  BY <1>2, <1>4, Glue
<1>6. /\ \A k \in 1..Len(lo) : (lo \o hi)[k] = lo[k]
      /\ \A k \in 1..Len(hi) : (lo \o hi)[Len(lo) + k] = hi[k]
  BY <1>2, Glue
<1>7. /\ (lo \o hi)[1] = lo[1] /\ (lo \o hi)[2] = lo[2]
      /\ (lo \o hi)[3] = hi[1] /\ (lo \o hi)[4] = hi[2]
  BY <1>2, <1>4, <1>6
<1> QED BY <1>3, <1>5, <1>7 DEF lo, hi

LEMMA Bytes ==
  /\ \A v \in Int : /\ write_u8(v) \in Seq(Octets) /\ Len(write_u8(v)) = 1
                    /\ write_u8(v)[1] = v % 256
  /\ \A n \in Nat : write_zero(n) \in Seq(Octets) /\ Len(write_zero(n)) = n
  /\ \A src \in Seq(Octets) : \A n \in 0..Len(src) :
       /\ write_raw(src, n) \in Seq(Octets) /\ Len(write_raw(src, n)) = n
       /\ \A k \in 1..n : write_raw(src, n)[k] = src[k]
<1>1. ASSUME NEW v \in Int
      PROVE  write_u8(v) \in Seq(Octets) /\ Len(write_u8(v)) = 1 /\ write_u8(v)[1] = v % 256
  <2>1. v % 256 \in Octets
    BY DEF Octets
  <2> QED BY <2>1 DEF write_u8
<1>2. ASSUME NEW n \in Nat
      PROVE  write_zero(n) \in Seq(Octets) /\ Len(write_zero(n)) = n
  BY DEF write_zero, Octets
<1>3. ASSUME NEW src \in Seq(Octets), NEW n \in 0..Len(src)
      PROVE  /\ write_raw(src, n) \in Seq(Octets) /\ Len(write_raw(src, n)) = n
             /\ \A k \in 1..n : write_raw(src, n)[k] = src[k]
  BY DEF write_raw
<1> QED BY <1>1, <1>2, <1>3

-----------------------------------------------------------------------------
\* Numbers

\* Arithmetic: a number is its digit and the rest.
LEMMA Digits ==
  ASSUME NEW v \in Int
  PROVE  /\ v = (v % 256) + 256 * (v \div 256)
         /\ v = (v % (256 * 256)) + (256 * 256) * (v \div (256 * 256))
         /\ v % (256 * 256) = (v % 256) + 256 * ((v \div 256) % 256)
         /\ v % (256 * 256) \in U16
<1>1. v = (v % 256) + 256 * (v \div 256)
  OBVIOUS
<1>2. v = (v % (256 * 256)) + (256 * 256) * (v \div (256 * 256))
  OBVIOUS
<1>3. v % (256 * 256) = (v % 256) + 256 * ((v \div 256) % 256)
  OBVIOUS
<1>4. v % (256 * 256) \in U16
  BY DEF U16, Octets
<1> QED BY <1>1, <1>2, <1>3, <1>4

\* What is read is the number modulo 2^16, and the number if it has a type
\* of that width.
LEMMA Read16 ==
  ASSUME NEW p, NEW o, NEW v \in Int,
         At(p, o) = write_u16(v)[1], At(p, o + 1) = write_u16(v)[2]
  PROVE  /\ read_u16(p, o) = v % (256 * 256)
         /\ v \in U16 => read_u16(p, o) = v
         /\ v \in I16 => read_i16(p, o) = v
<1>1. At(p, o) = v % 256 /\ At(p, o + 1) = (v \div 256) % 256
  BY Words16
<1>2. v \in U16 => v % (256 * 256) = v
  BY DEF U16, Octets
<1>3. v \in I16 => Signed((v \div 256) % 256) = v \div 256
  BY DEF I16, I8, Signed
<1> QED BY <1>1, <1>2, <1>3, Digits DEF read_u16, read_i16, read_i8

LEMMA Read32 ==
  ASSUME NEW p, NEW o \in Int, NEW v \in Int,
         \A k \in 0..3 : At(p, o + k) = write_u32(v)[k + 1]
  PROVE  /\ v \in U32 => read_u32(p, o) = v
         /\ v \in I32 => read_i32(p, o) = v
<1> DEFINE high == v \div (256 * 256)
<1>1. high \in Int /\ o + 2 \in Int
  OBVIOUS
<1>2. At(p, o) = write_u16(v)[1] /\ At(p, o + 1) = write_u16(v)[2]
  <2>1. At(p, o + 0) = write_u32(v)[0 + 1] /\ At(p, o + 1) = write_u32(v)[1 + 1]
    OBVIOUS
  <2>2. o + 0 = o
    OBVIOUS
  <2>3. write_u32(v)[1] = write_u16(v)[1] /\ write_u32(v)[2] = write_u16(v)[2]
    BY Words32
  <2> QED BY <2>1, <2>2, <2>3
<1>3. At(p, o + 2) = write_u16(high)[1] /\ At(p, (o + 2) + 1) = write_u16(high)[2]
  <2>1. At(p, o + 2) = write_u32(v)[3] /\ At(p, o + 3) = write_u32(v)[4]
    OBVIOUS
  <2>2. o + 3 = (o + 2) + 1
    OBVIOUS
  <2> QED BY <2>1, <2>2, Words32
<1>4. read_u16(p, o) = v % (256 * 256)
  BY <1>2, Read16
<1>5. /\ high \in U16 => read_u16(p, o + 2) = high
      /\ high \in I16 => read_i16(p, o + 2) = high
  BY <1>1, <1>3, Read16
<1>6. (v \in U32 => high \in U16) /\ (v \in I32 => high \in I16)
  BY DEF U32, I32
<1>7. v = (v % (256 * 256)) + (256 * 256) * high
  BY Digits
<1> QED BY <1>4, <1>5, <1>6, <1>7 DEF read_u32, read_i32

\* Reading a number of 16 or 32 bits, signed or not, where it was written, at
\* any place of a packet, gives it back.
THEOREM ReadWrite ==
  ASSUME NEW pre \in Seq(Octets), NEW post \in Seq(Octets)
  PROVE  /\ \A v \in U16 : read_u16(pre \o write_u16(v) \o post, Len(pre)) = v
         /\ \A v \in I16 : read_i16(pre \o write_i16(v) \o post, Len(pre)) = v
         /\ \A v \in U32 : read_u32(pre \o write_u32(v) \o post, Len(pre)) = v
         /\ \A v \in I32 : read_i32(pre \o write_i32(v) \o post, Len(pre)) = v
<1>1. ASSUME NEW v \in Int
      PROVE  LET p == pre \o write_u16(v) \o post IN
             /\ v \in U16 => read_u16(p, Len(pre)) = v
             /\ v \in I16 => read_i16(p, Len(pre)) = v
  <2> DEFINE w == write_u16(v)
             p == pre \o w \o post
  <2>1. w \in Seq(Octets) /\ Len(w) = 2
    BY Words16
  <2> HIDE DEF w
  <2>2. \A k \in 1..Len(w) : p[Len(pre) + k] = w[k]
    BY <2>1, GlueThree
  <2>3. Len(pre) \in Nat
    OBVIOUS
  <2> HIDE DEF p
  <2>4. p[Len(pre) + 1] = w[1] /\ p[(Len(pre) + 1) + 1] = w[2]
    BY <2>1, <2>2, <2>3
  <2>5. At(p, Len(pre)) = write_u16(v)[1] /\ At(p, Len(pre) + 1) = write_u16(v)[2]
    BY <2>4 DEF At, w
  <2>6. /\ v \in U16 => read_u16(p, Len(pre)) = v
        /\ v \in I16 => read_i16(p, Len(pre)) = v
    <3> DEFINE o == Len(pre)
    <3>1. At(p, o) = write_u16(v)[1] /\ At(p, o + 1) = write_u16(v)[2]
      BY <2>5
    <3> HIDE DEF o
    <3>2. /\ v \in U16 => read_u16(p, o) = v
          /\ v \in I16 => read_i16(p, o) = v
      BY <3>1, Read16
    <3> QED BY <3>2 DEF o
  <2> QED BY <2>6 DEF p, w
<1>2. ASSUME NEW v \in Int
      PROVE  LET p == pre \o write_u32(v) \o post IN
             /\ v \in U32 => read_u32(p, Len(pre)) = v
             /\ v \in I32 => read_i32(p, Len(pre)) = v
  <2> DEFINE w == write_u32(v)
             p == pre \o w \o post
  <2>0. Len(pre) \in Int
    OBVIOUS
  <2>1. w \in Seq(Octets) /\ Len(w) = 4
    BY Words32
  <2> HIDE DEF w
  <2>2. \A k \in 1..Len(w) : p[Len(pre) + k] = w[k]
    BY <2>1, GlueThree
  <2>3. \A k \in 0..3 : At(p, Len(pre) + k) = w[k + 1]
    <3> HIDE DEF p
    <3> QED BY <2>0, <2>1, <2>2 DEF At
  <2> HIDE DEF p
  <2> QED BY <2>0, <2>3, Read32 DEF p, w
<1>3. U16 \subseteq Int /\ I16 \subseteq Int /\ U32 \subseteq Int /\ I32 \subseteq Int
  BY DEF U16, I16, U32, I32
<1> QED BY <1>1, <1>2, <1>3 DEF write_i16, write_i32

-----------------------------------------------------------------------------
\* The header

\* A request that fits the buffer says its own length, its type and its number,
\* and carries its payload: what Request... builds is what the rules of
\* PacketStream cut out of a stream.
THEOREM Framed ==
  ASSUME NEW type \in U16, NEW seq \in U32, NEW payload \in Seq(Octets), Fits(payload)
  PROVE  LET p == Packet(type, seq, payload) IN
         /\ p \in Seq(Octets) /\ Len(p) = 8 + Len(payload) /\ Len(p) <= BUFFER
         /\ read_u16(p, 0) = Len(p) /\ read_u16(p, 2) = type /\ read_u32(p, 4) = seq
         /\ \A k \in 1..Len(payload) : p[8 + k] = payload[k]
<1> DEFINE size == 8 + Len(payload)
           a == write_u16(size)
           b == write_u16(type)
           s == write_u32(seq)
           ab == a \o b
           header == ab \o s
           p == header \o payload
<1>1. /\ size \in U16 /\ size <= BUFFER /\ size \in Int
      /\ type \in Int /\ seq \in Int /\ Len(payload) \in Nat
  <2>1. Len(payload) \in Nat /\ size \in Nat /\ size <= 4096
    BY DEF Fits, BUFFER
  <2>2. \A n \in Nat : n <= 4096 => n \div 256 \in Octets
    BY DEF Octets
  <2>3. type \in Int /\ seq \in Int
    BY DEF U16, U32
  <2> HIDE DEF size
  <2> QED BY <2>1, <2>2, <2>3 DEF U16, BUFFER
<1>2. a \in Seq(Octets) /\ Len(a) = 2 /\ b \in Seq(Octets) /\ Len(b) = 2
  BY <1>1, Words16
<1>3. s \in Seq(Octets) /\ Len(s) = 4
  BY <1>1, Words32
<1>4. p = Packet(type, seq, payload)
  BY DEF Packet
<1> HIDE DEF a, b, s
<1>5. /\ ab \in Seq(Octets) /\ Len(ab) = Len(a) + Len(b)
      /\ \A k \in 1..Len(a) : ab[k] = a[k]
      /\ \A k \in 1..Len(b) : ab[Len(a) + k] = b[k]
  BY <1>2, Glue
<1> HIDE DEF ab
<1>6. /\ header \in Seq(Octets) /\ Len(header) = Len(ab) + Len(s)
      /\ \A k \in 1..Len(ab) : header[k] = ab[k]
      /\ \A k \in 1..Len(s) : header[Len(ab) + k] = s[k]
  BY <1>3, <1>5, Glue
<1> HIDE DEF header
<1>7. /\ p \in Seq(Octets) /\ Len(p) = Len(header) + Len(payload)
      /\ \A k \in 1..Len(header) : p[k] = header[k]
      /\ \A k \in 1..Len(payload) : p[Len(header) + k] = payload[k]
  BY <1>6, Glue
<1> HIDE DEF p
<1>8. Len(ab) = 4 /\ Len(header) = 8
  BY <1>2, <1>3, <1>5, <1>6
<1>9. /\ p[1] = a[1] /\ p[2] = a[2] /\ p[3] = b[1] /\ p[4] = b[2]
      /\ \A k \in 1..4 : p[4 + k] = s[k]
  <2>1. /\ header[1] = a[1] /\ header[2] = a[2] /\ header[3] = b[1] /\ header[4] = b[2]
    <3>1. ab[1] = a[1] /\ ab[2] = a[2] /\ ab[2 + 1] = b[1] /\ ab[2 + 2] = b[2]
      BY <1>2, <1>5
    <3>2. \A k \in 1..4 : header[k] = ab[k]
      BY <1>6, <1>8
    <3> QED BY <3>1, <3>2
  <2>2. \A k \in 1..4 : header[4 + k] = s[k]
    BY <1>3, <1>6, <1>8
  <2>3. \A k \in 1..8 : p[k] = header[k]
    BY <1>7, <1>8
  <2> QED BY <2>1, <2>2, <2>3
<1>10. At(p, 0) = a[1] /\ At(p, 0 + 1) = a[2] /\ At(p, 2) = b[1] /\ At(p, 2 + 1) = b[2]
  BY <1>9 DEF At
<1>11. \A k \in 0..3 : At(p, 4 + k) = s[k + 1]
  BY <1>9 DEF At
<1>12. read_u16(p, 0) = size
  <2> HIDE DEF size
  <2> QED BY <1>1, <1>10, Read16 DEF a
<1>13. read_u16(p, 2) = type
  BY <1>1, <1>10, Read16 DEF b
<1>14. read_u32(p, 4) = seq
  BY <1>1, <1>11, Read32 DEF s
<1>15. Len(p) = size /\ \A k \in 1..Len(payload) : p[8 + k] = payload[k]
  BY <1>7, <1>8
<1> QED BY <1>1, <1>4, <1>7, <1>12, <1>13, <1>14, <1>15

-----------------------------------------------------------------------------
\* Numbers one after the other

LEMMA WordsSay ==
  ASSUME NEW numbers \in Seq(U32)
  PROVE  /\ Words(numbers) \in Seq(Octets) /\ Len(Words(numbers)) = 4 * Len(numbers)
         /\ \A r \in 0..(Len(numbers) - 1) : \A k \in 0..3 :
              Words(numbers)[4 * r + k + 1] = write_u32(numbers[r + 1])[k + 1]
<1>1. Len(numbers) \in Nat
  OBVIOUS
<1>2. ASSUME NEW n \in 1..(4 * Len(numbers))
      PROVE  /\ ((n - 1) \div 4) + 1 \in 1..Len(numbers)
             /\ ((n - 1) % 4) + 1 \in 1..4
  BY <1>1
<1>3. ASSUME NEW r \in 1..Len(numbers), NEW k \in 1..4
      PROVE  write_u32(numbers[r])[k] \in Octets
  <2>1. numbers[r] \in Int
    BY DEF U32
  <2>2. write_u32(numbers[r]) \in Seq(Octets) /\ Len(write_u32(numbers[r])) = 4
    BY <2>1, Words32
  <2> QED BY <2>2
<1>4. \A n \in 1..(4 * Len(numbers)) :
        write_u32(numbers[((n - 1) \div 4) + 1])[((n - 1) % 4) + 1] \in Octets
  BY <1>2, <1>3
<1>5. Words(numbers) \in Seq(Octets) /\ Len(Words(numbers)) = 4 * Len(numbers)
  BY <1>1, <1>4 DEF Words
<1>6. ASSUME NEW r \in 0..(Len(numbers) - 1), NEW k \in 0..3
      PROVE  Words(numbers)[4 * r + k + 1] = write_u32(numbers[r + 1])[k + 1]
  <2>1. 4 * r + k + 1 \in 1..(4 * Len(numbers))
    BY <1>1
  <2>2. ((4 * r + k + 1) - 1) \div 4 = r /\ ((4 * r + k + 1) - 1) % 4 = k
    OBVIOUS
  <2> QED BY <2>1, <2>2 DEF Words
<1> QED BY <1>5, <1>6

-----------------------------------------------------------------------------
\* What fits the buffer

Piece(s, n) == s \in Seq(Octets) /\ Len(s) = n

LEMMA Pieces ==
  /\ \A v \in Int : Piece(write_u8(v), 1) /\ Piece(write_u16(v), 2) /\ Piece(write_u32(v), 4)
  /\ \A n \in Nat : Piece(write_zero(n), n)
  /\ \A s \in Seq(Octets) : \A n \in 0..Len(s) : Piece(write_raw(s, n), n)
<1>1. ASSUME NEW v \in Int
      PROVE  Piece(write_u8(v), 1) /\ Piece(write_u16(v), 2) /\ Piece(write_u32(v), 4)
  <2>1. Piece(write_u8(v), 1)
    BY Bytes DEF Piece
  <2>2. Piece(write_u16(v), 2)
    BY Words16 DEF Piece
  <2>3. Piece(write_u32(v), 4)
    BY Words32 DEF Piece
  <2> QED BY <2>1, <2>2, <2>3
<1>2. ASSUME NEW n \in Nat PROVE Piece(write_zero(n), n)
  BY Bytes DEF Piece
<1>3. ASSUME NEW s \in Seq(Octets), NEW n \in 0..Len(s) PROVE Piece(write_raw(s, n), n)
  BY Bytes DEF Piece
<1> QED BY <1>1, <1>2, <1>3

LEMMA Small == \A n \in Nat : /\ n < 256 * 256 => n % (256 * 256) = n
                             /\ n < 256 => n % 256 = n
OBVIOUS

LEMMA Join ==
  ASSUME NEW s, NEW t, NEW n \in Nat, NEW m \in Nat, Piece(s, n), Piece(t, m)
  PROVE  Piece(s \o t, n + m)
  BY Glue DEF Piece

\* A chat message may have BUFFER - 13 bytes.
THEOREM ChatFits ==
  ASSUME NEW channel \in Octets, NEW message \in Seq(Octets), Len(message) <= BUFFER - 13
  PROVE  RequestSendChat(channel, message) \in Seq(Octets) /\ Fits(RequestSendChat(channel, message))
<1> DEFINE n == Len(message)
           a == write_u8(channel)
           b == write_u8(0)
           c == write_u8(5)
           d == write_u16(n)
           e == write_raw(message, n % (256 * 256))
<1>1. n \in Nat /\ n <= 4083 /\ n % (256 * 256) = n /\ channel \in Int
  <2>1. n \in Nat /\ n <= 4083 /\ channel \in Int
    BY DEF BUFFER, Octets
  <2> HIDE DEF n
  <2> QED BY <2>1, Small
<1>2. Piece(a, 1) /\ Piece(b, 1) /\ Piece(c, 1) /\ Piece(d, 2) /\ Piece(e, n)
  BY <1>1, Pieces
<1>3. RequestSendChat(channel, message) = a \o b \o c \o d \o e
  BY DEF RequestSendChat
<1> HIDE DEF a, b, c, d, e, n
<1>4. Piece(a \o b, 1 + 1)
  BY <1>2, Join
<1>5. Piece(a \o b \o c, 1 + 1 + 1)
  BY <1>2, <1>4, Join
<1>6. Piece(a \o b \o c \o d, 1 + 1 + 1 + 2)
  BY <1>2, <1>5, Join
<1>7. Piece(a \o b \o c \o d \o e, 1 + 1 + 1 + 2 + n)
  BY <1>1, <1>2, <1>6, Join
<1> QED BY <1>1, <1>3, <1>7 DEF Piece, Fits, BUFFER

\* A mail fits if its subject has at most 255 bytes and its message leaves room
\* for the subject and 40 bytes more; vsnprintf alone, which stops at 4095,
\* does not see to that.
THEOREM MailFits ==
  ASSUME NEW name \in Seq(Octets), Len(name) >= 13,
         NEW subject \in Seq(Octets), Len(subject) <= 255,
         NEW message \in Seq(Octets), Len(subject) + Len(message) <= BUFFER - 40
  PROVE  LET mail == RequestSendMail(name, subject, message) IN
         mail \in Seq(Octets) /\ Fits(mail)
<1> DEFINE n == Len(subject)
           m == Len(message)
           a == write_u32(0)
           b == write_raw(name, 13)
           c == write_u8(1)
           d == write_u8(n)
           e == write_u16(m)
           f == write_u8(0)
           g == write_raw(subject, n % 256)
           h == write_raw(message, m % (256 * 256))
           z == write_zero(10)
<1>1. /\ n \in Nat /\ m \in Nat /\ n + m <= 4056 /\ n % 256 = n /\ m % (256 * 256) = m
      /\ 13 \in 0..Len(name)
  <2>1. n \in Nat /\ m \in Nat /\ n + m <= 4056 /\ n <= 255 /\ 13 \in 0..Len(name)
    BY DEF BUFFER
  <2> HIDE DEF n, m
  <2> QED BY <2>1, Small
<1>2. Piece(a, 4) /\ Piece(c, 1) /\ Piece(d, 1) /\ Piece(e, 2) /\ Piece(f, 1) /\ Piece(z, 10)
  BY <1>1, Pieces
<1>3. Piece(b, 13) /\ Piece(g, n) /\ Piece(h, m)
  <2>1. n \in 0..Len(subject) /\ m \in 0..Len(message)
    BY <1>1
  <2>2. g = write_raw(subject, n) /\ h = write_raw(message, m)
    BY <1>1
  <2> HIDE DEF n, m, g, h
  <2>3. Piece(b, 13)
    BY <1>1, Pieces
  <2>4. Piece(write_raw(subject, n), n)
    BY <2>1, Pieces
  <2>5. Piece(write_raw(message, m), m)
    BY <2>1, Pieces
  <2> QED BY <2>2, <2>3, <2>4, <2>5
<1>4. RequestSendMail(name, subject, message)
        = a \o b \o c \o d \o e \o f \o g \o h \o z
  BY DEF RequestSendMail
<1> HIDE DEF a, b, c, d, e, f, g, h, z, n, m
<1>5. Piece(a \o b, 17)
  BY <1>2, <1>3, Join, 4 + 13 = 17
<1>6. Piece(a \o b \o c, 18)
  BY <1>2, <1>5, Join, 17 + 1 = 18
<1>7. Piece(a \o b \o c \o d, 19)
  BY <1>2, <1>6, Join, 18 + 1 = 19
<1>8. Piece(a \o b \o c \o d \o e, 21)
  BY <1>2, <1>7, Join, 19 + 2 = 21
<1>9. Piece(a \o b \o c \o d \o e \o f, 22)
  BY <1>2, <1>8, Join, 21 + 1 = 22
<1>10. Piece(a \o b \o c \o d \o e \o f \o g, 22 + n)
  BY <1>1, <1>3, <1>9, Join
<1>11. Piece(a \o b \o c \o d \o e \o f \o g \o h, 22 + n + m)
  <2>1. 22 + n \in Nat
    BY <1>1
  <2>2. Piece(h, m) /\ m \in Nat
    BY <1>1, <1>3
  <2> QED BY <1>10, <2>1, <2>2, Join
<1>12. Piece(a \o b \o c \o d \o e \o f \o g \o h \o z, 22 + n + m + 10)
  BY <1>1, <1>2, <1>11, Join
<1> QED BY <1>1, <1>4, <1>12 DEF Piece, Fits, BUFFER

\* The help for 255 requests at once, all that record_sn_arr holds and a packet
\* can list, fits; so would help for 1021.
THEOREM HelpFits ==
  ASSUME NEW record_sn \in Seq(U32), Len(record_sn) <= 1021
  PROVE  LET help == RequestHelpAllianceMember(record_sn) IN
         help \in Seq(Octets) /\ Fits(help)
<1> DEFINE n == Len(record_sn)
           a == write_u16(n)
           w == Words(record_sn)
<1>1. n \in Nat /\ 4 * n \in Nat /\ n <= 1021
  OBVIOUS
<1>2. Piece(a, 2) /\ Piece(w, 4 * n)
  BY <1>1, Pieces, WordsSay DEF Piece
<1>3. RequestHelpAllianceMember(record_sn) = a \o w
  BY DEF RequestHelpAllianceMember
<1> HIDE DEF a, w, n
<1>4. Piece(a \o w, 2 + 4 * n)
  BY <1>1, <1>2, Join
<1> QED BY <1>1, <1>3, <1>4 DEF Piece, Fits, BUFFER

-----------------------------------------------------------------------------
\* Bits

LEMMA BinaryDigit ==
  ASSUME NEW low \in Nat, NEW bit \in {0, 1}, NEW high \in Nat
  PROVE  /\ low < 1 => ((low + 1 * bit + 2 * high) \div 1) % 2 = bit
         /\ low < 2 => ((low + 2 * bit + 4 * high) \div 2) % 2 = bit
         /\ low < 4 => ((low + 4 * bit + 8 * high) \div 4) % 2 = bit
         /\ low < 8 => ((low + 8 * bit + 16 * high) \div 8) % 2 = bit
         /\ low < 16 => ((low + 16 * bit + 32 * high) \div 16) % 2 = bit
         /\ low < 32 => ((low + 32 * bit + 64 * high) \div 32) % 2 = bit
         /\ low < 64 => ((low + 64 * bit + 128 * high) \div 64) % 2 = bit
         /\ low < 128 => ((low + 128 * bit + 256 * high) \div 128) % 2 = bit
<1>1. bit + 2 * high \in Nat /\ (bit + 2 * high) % 2 = bit
  OBVIOUS
<1>2. low < 1 => (low + 1 * bit + 2 * high) \div 1 = bit + 2 * high
  OBVIOUS
<1>3. low < 2 => (low + 2 * bit + 4 * high) \div 2 = bit + 2 * high
  OBVIOUS
<1>4. low < 4 => (low + 4 * bit + 8 * high) \div 4 = bit + 2 * high
  OBVIOUS
<1>5. low < 8 => (low + 8 * bit + 16 * high) \div 8 = bit + 2 * high
  OBVIOUS
<1>6. low < 16 => (low + 16 * bit + 32 * high) \div 16 = bit + 2 * high
  OBVIOUS
<1>7. low < 32 => (low + 32 * bit + 64 * high) \div 32 = bit + 2 * high
  OBVIOUS
<1>8. low < 64 => (low + 64 * bit + 128 * high) \div 64 = bit + 2 * high
  OBVIOUS
<1>9. low < 128 => (low + 128 * bit + 256 * high) \div 128 = bit + 2 * high
  OBVIOUS
<1> QED BY <1>1, <1>2, <1>3, <1>4, <1>5, <1>6, <1>7, <1>8, <1>9

LEMMA BinaryDigits ==
  ASSUME NEW b0 \in {0, 1}, NEW b1 \in {0, 1}, NEW b2 \in {0, 1}, NEW b3 \in {0, 1},
         NEW b4 \in {0, 1}, NEW b5 \in {0, 1}, NEW b6 \in {0, 1}, NEW b7 \in {0, 1}
  PROVE  LET v == b0 + 2 * b1 + 4 * b2 + 8 * b3 + 16 * b4 + 32 * b5 + 64 * b6 + 128 * b7 IN
         /\ v \in Octets
         /\ (v \div 1) % 2 = b0
         /\ (v \div 2) % 2 = b1
         /\ (v \div 4) % 2 = b2
         /\ (v \div 8) % 2 = b3
         /\ (v \div 16) % 2 = b4
         /\ (v \div 32) % 2 = b5
         /\ (v \div 64) % 2 = b6
         /\ (v \div 128) % 2 = b7
<1> DEFINE v == b0 + 2 * b1 + 4 * b2 + 8 * b3 + 16 * b4 + 32 * b5 + 64 * b6 + 128 * b7
<1>0. v \in Octets
  BY DEF Octets
<1>1. (v \div 1) % 2 = b0
  <2> DEFINE low == 0
             high == 1 * b1 + 2 * b2 + 4 * b3 + 8 * b4 + 16 * b5 + 32 * b6 + 64 * b7
  <2>1. low \in Nat /\ low < 1
    OBVIOUS
  <2>2. high \in Nat
    OBVIOUS
  <2>3. v = low + 1 * b0 + 2 * high
    OBVIOUS
  <2> HIDE DEF low, high, v
  <2>4. ((low + 1 * b0 + 2 * high) \div 1) % 2 = b0
    BY <2>1, <2>2, BinaryDigit
  <2> QED BY <2>3, <2>4
<1>2. (v \div 2) % 2 = b1
  <2> DEFINE low == 1 * b0
             high == 1 * b2 + 2 * b3 + 4 * b4 + 8 * b5 + 16 * b6 + 32 * b7
  <2>1. low \in Nat /\ low < 2
    OBVIOUS
  <2>2. high \in Nat
    OBVIOUS
  <2>3. v = low + 2 * b1 + 4 * high
    OBVIOUS
  <2> HIDE DEF low, high, v
  <2>4. ((low + 2 * b1 + 4 * high) \div 2) % 2 = b1
    BY <2>1, <2>2, BinaryDigit
  <2> QED BY <2>3, <2>4
<1>3. (v \div 4) % 2 = b2
  <2> DEFINE low == 1 * b0 + 2 * b1
             high == 1 * b3 + 2 * b4 + 4 * b5 + 8 * b6 + 16 * b7
  <2>1. low \in Nat /\ low < 4
    OBVIOUS
  <2>2. high \in Nat
    OBVIOUS
  <2>3. v = low + 4 * b2 + 8 * high
    OBVIOUS
  <2> HIDE DEF low, high, v
  <2>4. ((low + 4 * b2 + 8 * high) \div 4) % 2 = b2
    BY <2>1, <2>2, BinaryDigit
  <2> QED BY <2>3, <2>4
<1>4. (v \div 8) % 2 = b3
  <2> DEFINE low == 1 * b0 + 2 * b1 + 4 * b2
             high == 1 * b4 + 2 * b5 + 4 * b6 + 8 * b7
  <2>1. low \in Nat /\ low < 8
    OBVIOUS
  <2>2. high \in Nat
    OBVIOUS
  <2>3. v = low + 8 * b3 + 16 * high
    OBVIOUS
  <2> HIDE DEF low, high, v
  <2>4. ((low + 8 * b3 + 16 * high) \div 8) % 2 = b3
    BY <2>1, <2>2, BinaryDigit
  <2> QED BY <2>3, <2>4
<1>5. (v \div 16) % 2 = b4
  <2> DEFINE low == 1 * b0 + 2 * b1 + 4 * b2 + 8 * b3
             high == 1 * b5 + 2 * b6 + 4 * b7
  <2>1. low \in Nat /\ low < 16
    OBVIOUS
  <2>2. high \in Nat
    OBVIOUS
  <2>3. v = low + 16 * b4 + 32 * high
    OBVIOUS
  <2> HIDE DEF low, high, v
  <2>4. ((low + 16 * b4 + 32 * high) \div 16) % 2 = b4
    BY <2>1, <2>2, BinaryDigit
  <2> QED BY <2>3, <2>4
<1>6. (v \div 32) % 2 = b5
  <2> DEFINE low == 1 * b0 + 2 * b1 + 4 * b2 + 8 * b3 + 16 * b4
             high == 1 * b6 + 2 * b7
  <2>1. low \in Nat /\ low < 32
    OBVIOUS
  <2>2. high \in Nat
    OBVIOUS
  <2>3. v = low + 32 * b5 + 64 * high
    OBVIOUS
  <2> HIDE DEF low, high, v
  <2>4. ((low + 32 * b5 + 64 * high) \div 32) % 2 = b5
    BY <2>1, <2>2, BinaryDigit
  <2> QED BY <2>3, <2>4
<1>7. (v \div 64) % 2 = b6
  <2> DEFINE low == 1 * b0 + 2 * b1 + 4 * b2 + 8 * b3 + 16 * b4 + 32 * b5
             high == 1 * b7
  <2>1. low \in Nat /\ low < 64
    OBVIOUS
  <2>2. high \in Nat
    OBVIOUS
  <2>3. v = low + 64 * b6 + 128 * high
    OBVIOUS
  <2> HIDE DEF low, high, v
  <2>4. ((low + 64 * b6 + 128 * high) \div 64) % 2 = b6
    BY <2>1, <2>2, BinaryDigit
  <2> QED BY <2>3, <2>4
<1>8. (v \div 128) % 2 = b7
  <2> DEFINE low == 1 * b0 + 2 * b1 + 4 * b2 + 8 * b3 + 16 * b4 + 32 * b5 + 64 * b6
             high == 0
  <2>1. low \in Nat /\ low < 128
    OBVIOUS
  <2>2. high \in Nat
    OBVIOUS
  <2>3. v = low + 128 * b7 + 256 * high
    OBVIOUS
  <2> HIDE DEF low, high, v
  <2>4. ((low + 128 * b7 + 256 * high) \div 128) % 2 = b7
    BY <2>1, <2>2, BinaryDigit
  <2> QED BY <2>3, <2>4
<1> QED BY <1>0, <1>1, <1>2, <1>3, <1>4, <1>5, <1>6, <1>7, <1>8

\* A byte is its eight bits.
LEMMA OctetBits ==
  ASSUME NEW bits \in Bits
  PROVE  /\ Octet(bits) \in Octets
         /\ \A j \in 0..7 : Bit(Octet(bits), j) = bits[j]
<1> DEFINE v == Octet(bits)
<1>1. /\ bits[0] \in {0, 1} /\ bits[1] \in {0, 1} /\ bits[2] \in {0, 1} /\ bits[3] \in {0, 1}
      /\ bits[4] \in {0, 1} /\ bits[5] \in {0, 1} /\ bits[6] \in {0, 1} /\ bits[7] \in {0, 1}
  BY DEF Bits
<1>2. /\ v \in Octets
      /\ (v \div 1) % 2 = bits[0] /\ (v \div 2) % 2 = bits[1]
      /\ (v \div 4) % 2 = bits[2] /\ (v \div 8) % 2 = bits[3]
      /\ (v \div 16) % 2 = bits[4] /\ (v \div 32) % 2 = bits[5]
      /\ (v \div 64) % 2 = bits[6] /\ (v \div 128) % 2 = bits[7]
  BY <1>1, BinaryDigits DEF Octet
<1> HIDE DEF v
<1>3. ASSUME NEW j \in 0..7 PROVE Bit(v, j) = bits[j]
  <2>1. j = 0 \/ j = 1 \/ j = 2 \/ j = 3 \/ j = 4 \/ j = 5 \/ j = 6 \/ j = 7
    OBVIOUS
  <2> QED BY <2>1, <1>2 DEF Bit, Weight
<1> QED BY <1>2, <1>3 DEF v

LEMMA MaskSays ==
  ASSUME NEW S
  PROVE  /\ Piece(Mask(S), 4)
         /\ \A i \in 0..31 : Bit(Mask(S)[(i \div 8) + 1], i % 8) = 1 <=> i \in S
<1> DEFINE bits(k) == [j \in 0..7 |-> IF 8 * (k - 1) + j \in S THEN 1 ELSE 0]
<1>1. \A k \in 1..4 : bits(k) \in Bits
  BY DEF Bits
<1>2. Mask(S) = [k \in 1..4 |-> Octet(bits(k))]
  BY DEF Mask
<1>3. \A k \in 1..4 : \A j \in 0..7 : bits(k)[j] = IF 8 * (k - 1) + j \in S THEN 1 ELSE 0
  OBVIOUS
<1> HIDE DEF bits
<1>4. Piece(Mask(S), 4)
  BY <1>1, <1>2, OctetBits DEF Piece
<1>5. ASSUME NEW i \in 0..31
      PROVE  Bit(Mask(S)[(i \div 8) + 1], i % 8) = 1 <=> i \in S
  <2>1. /\ (i \div 8) + 1 \in 1..4 /\ i % 8 \in 0..7
        /\ 8 * (((i \div 8) + 1) - 1) + (i % 8) = i
    OBVIOUS
  <2>2. Bit(Mask(S)[(i \div 8) + 1], i % 8) = bits((i \div 8) + 1)[i % 8]
    BY <1>1, <1>2, <2>1, OctetBits
  <2> QED BY <1>3, <2>1, <2>2
<1> QED BY <1>4, <1>5

-----------------------------------------------------------------------------
\* The numbers behind a mask

LEMMA Ranks ==
  ASSUME NEW S \in SUBSET (0..31)
  PROVE  /\ IsFiniteSet(S) /\ Cardinality(S) \in Nat
         /\ \A i \in S : Rank(S, i) \in 0..(Cardinality(S) - 1)
         /\ \A i, j \in S : Rank(S, i) = Rank(S, j) => i = j
<1>1. IsFiniteSet(S) /\ Cardinality(S) \in Nat
  <2>1. IsFiniteSet(0..31)
    <3>1. 0 \in Int /\ 31 \in Int
      OBVIOUS
    <3> QED BY <3>1, FS_Interval, Zenon
  <2>2. IsFiniteSet(S)
    BY <2>1, FS_Subset
  <2> QED BY <2>2, FS_CardinalityType
<1> DEFINE Before(i) == {j \in S : j < i}
<1>2. ASSUME NEW T \in SUBSET S, NEW i \in S, i \notin T
      PROVE  Cardinality(T) \in Nat /\ Cardinality(T) < Cardinality(S)
  <2>1. IsFiniteSet(T) /\ Cardinality(T) <= Cardinality(S) /\ Cardinality(T) # Cardinality(S)
    BY <1>1, <1>2, FS_Subset
  <2> QED BY <1>1, <2>1, FS_CardinalityType
<1>3. ASSUME NEW i \in S PROVE Rank(S, i) \in 0..(Cardinality(S) - 1)
  <2>1. Before(i) \in SUBSET S /\ i \notin Before(i)
    OBVIOUS
  <2> HIDE DEF Before
  <2>2. Cardinality(Before(i)) \in Nat /\ Cardinality(Before(i)) < Cardinality(S)
    BY <1>2, <2>1
  <2>3. Rank(S, i) = Cardinality(Before(i))
    BY DEF Rank, Before
  <2> QED BY <1>1, <2>2, <2>3
<1>4. ASSUME NEW i \in S, NEW j \in S, i < j PROVE Rank(S, i) # Rank(S, j)
  <2>1. Before(i) \in SUBSET Before(j) /\ i \in Before(j) /\ i \notin Before(i)
    <3>1. S \subseteq Int
      OBVIOUS
    <3>2. \A k \in S : k < i => k < j
      BY <1>4, <3>1
    <3>3. ~(i < i)
      BY <3>1
    <3> QED BY <1>4, <3>2, <3>3, Zenon
  <2>2. Before(j) \in SUBSET S
    OBVIOUS
  <2> HIDE DEF Before
  <2>3. IsFiniteSet(Before(j))
    BY <1>1, <2>2, FS_Subset
  <2>4. Cardinality(Before(i)) # Cardinality(Before(j))
    BY <2>1, <2>3, FS_Subset
  <2> QED BY <2>4 DEF Rank, Before
<1>5. ASSUME NEW i \in S, NEW j \in S, Rank(S, i) = Rank(S, j) PROVE i = j
  <2>1. i \in Int /\ j \in Int
    OBVIOUS
  <2>2. i < j \/ j < i \/ i = j
    BY <2>1
  <2> QED BY <1>4, <1>5, <2>2
<1> QED BY <1>1, <1>3, <1>5

LEMMA NthOfRank ==
  ASSUME NEW S \in SUBSET (0..31), NEW i \in S
  PROVE  Nth(S, Rank(S, i)) = i
<1>1. \E j \in S : Rank(S, j) = Rank(S, i)
  OBVIOUS
<1>2. Nth(S, Rank(S, i)) \in S /\ Rank(S, Nth(S, Rank(S, i))) = Rank(S, i)
  BY <1>1 DEF Nth
<1> QED BY <1>2, Ranks

LEMMA Below ==
  ASSUME NEW n \in Nat
  PROVE  IsFiniteSet(0..(n - 1)) /\ Cardinality(0..(n - 1)) = n
<1> DEFINE b == n - 1
<1>1. 0 \in Int /\ b \in Int
  OBVIOUS
<1>2. (IF 0 > b THEN 0 ELSE b - 0 + 1) = n
  OBVIOUS
<1> HIDE DEF b
<1>3. IsFiniteSet(0..b) /\ Cardinality(0..b) = IF 0 > b THEN 0 ELSE b - 0 + 1
  BY <1>1, FS_Interval, Zenon
<1> QED BY <1>2, <1>3 DEF b

\* Every number below the size of the set is the rank of a member.
LEMMA RanksReached ==
  ASSUME NEW S \in SUBSET (0..31), NEW r \in 0..(Cardinality(S) - 1)
  PROVE  \E i \in S : Rank(S, i) = r
<1> DEFINE f == [i \in S |-> Rank(S, i)]
           T == 0..(Cardinality(S) - 1)
<1>1. /\ IsFiniteSet(S) /\ Cardinality(S) \in Nat
      /\ \A i \in S : Rank(S, i) \in T
      /\ \A i, j \in S : Rank(S, i) = Rank(S, j) => i = j
  BY Ranks
<1>2. f \in Injection(S, T)
  BY <1>1 DEF Injection, IsInjective
<1>3. IsFiniteSet(T) /\ Cardinality(T) = Cardinality(S)
  BY <1>1, Below
<1>4. r \in T
  OBVIOUS
<1> HIDE DEF f, T
<1>5. f \in Surjection(S, T)
  BY <1>2, <1>3, FS_Injection
<1>6. PICK i \in S : f[i] = r
  BY <1>4, <1>5 DEF Surjection
<1> QED BY <1>6 DEF f

\* A request to join a rally, whatever troops are chosen, fits the buffer and
\* says which troops go and how many of each: read as the bot reads the troops
\* of a member (RecvWallHallTroop), it gives back the array, and no other troop.
THEOREM JoinRallySays ==
  ASSUME NEW ally_name \in Seq(Octets), Len(ally_name) >= 13,
         NEW troop_array \in [TROOPS -> U32]
  PROVE  LET p == RequestJoinRally(ally_name, troop_array) IN
         /\ p \in Seq(Octets) /\ Fits(p)
         /\ ReadTroops(p, 13, 0..19)
              = [i \in 0..19 |-> IF i \in TROOPS THEN troop_array[i] ELSE 0]
<1> DEFINE S == Selected(troop_array)
           numbers == [r \in 1..Cardinality(S) |-> troop_array[Nth(S, r - 1)]]
           name == write_raw(ally_name, 13)
           words == Words(numbers)
           last == write_u8(0)
           nm == name \o Mask(S)
           nmw == nm \o words
           p == nmw \o last
<1>1. /\ S \in SUBSET (0..31) /\ S \subseteq TROOPS /\ S \subseteq 0..19
      /\ \A i \in TROOPS : troop_array[i] \in U32 /\ (i \notin S => troop_array[i] = 0)
  BY DEF Selected, TROOPS
<1>2. p = RequestJoinRally(ally_name, troop_array)
  BY DEF RequestJoinRally
<1> HIDE DEF S
<1>3. /\ Cardinality(S) \in Nat /\ Cardinality(S) <= 16
      /\ \A i \in S : Rank(S, i) \in 0..(Cardinality(S) - 1)
  <2>1. 16 \in Nat /\ 16 - 1 = 15
    OBVIOUS
  <2>2. IsFiniteSet(0..15) /\ Cardinality(0..15) = 16
    BY <2>1, Below
  <2>3. Cardinality(S) <= 16
    BY <1>1, <2>2, FS_Subset DEF TROOPS
  <2> QED BY <1>1, <2>3, Ranks
<1>4. \A i \in S : numbers[Rank(S, i) + 1] = troop_array[i]
  <2> SUFFICES ASSUME NEW i \in S PROVE numbers[Rank(S, i) + 1] = troop_array[i]
    OBVIOUS
  <2>1. Rank(S, i) + 1 \in 1..Cardinality(S) /\ (Rank(S, i) + 1) - 1 = Rank(S, i)
    BY <1>3
  <2>2. Nth(S, Rank(S, i)) = i
    BY <1>1, NthOfRank
  <2> QED BY <2>1, <2>2
<1>5. numbers \in Seq(U32) /\ Len(numbers) = Cardinality(S)
  <2>1. ASSUME NEW r \in 1..Cardinality(S) PROVE troop_array[Nth(S, r - 1)] \in U32
    <3>1. \E i \in S : Rank(S, i) = r - 1
      BY <1>1, <1>3, <2>1, RanksReached
    <3>2. Nth(S, r - 1) \in S
      BY <3>1 DEF Nth
    <3> QED BY <1>1, <3>2
  <2> QED BY <1>3, <2>1
<1> HIDE DEF numbers
<1>6. /\ Piece(name, 13) /\ Piece(Mask(S), 4) /\ Piece(last, 1)
      /\ Piece(words, 4 * Cardinality(S))
  <2>1. 13 \in 0..Len(ally_name)
    OBVIOUS
  <2>2. Piece(words, 4 * Cardinality(S))
    BY <1>5, WordsSay DEF Piece
  <2> HIDE DEF words
  <2>3. Piece(last, 1) /\ Piece(name, 13)
    BY <2>1, Pieces
  <2> QED BY <2>2, <2>3, MaskSays
<1> HIDE DEF name, words, last
<1>7. /\ Piece(nm, 17) /\ \A k \in 1..4 : nm[13 + k] = Mask(S)[k]
  <2>1. 13 + 4 = 17 /\ 13 \in Nat /\ 4 \in Nat
    OBVIOUS
  <2>2. Piece(nm, 13 + 4)
    BY <1>6, <2>1, Join
  <2>10. name \in Seq(Octets) /\ Mask(S) \in Seq(Octets) /\ Len(name) = 13 /\ Len(Mask(S)) = 4
    BY <1>6 DEF Piece
  <2>11. \A k \in 1..Len(Mask(S)) : nm[Len(name) + k] = Mask(S)[k]
    BY <2>10, Glue
  <2>3. \A k \in 1..4 : nm[13 + k] = Mask(S)[k]
    BY <2>10, <2>11
  <2> QED BY <2>1, <2>2, <2>3
<1> HIDE DEF nm
<1>8. /\ Piece(nmw, 17 + 4 * Cardinality(S)) /\ \A k \in 1..17 : nmw[k] = nm[k]
      /\ \A k \in 1..(4 * Cardinality(S)) : nmw[17 + k] = words[k]
  <2>1. 17 \in Nat /\ 4 * Cardinality(S) \in Nat
    BY <1>3
  <2>2. Piece(nmw, 17 + 4 * Cardinality(S))
    BY <1>6, <1>7, <2>1, Join
  <2>10. /\ nm \in Seq(Octets) /\ words \in Seq(Octets)
        /\ Len(nm) = 17 /\ Len(words) = 4 * Cardinality(S)
    BY <1>6, <1>7 DEF Piece
  <2>11. /\ \A k \in 1..Len(nm) : nmw[k] = nm[k]
        /\ \A k \in 1..Len(words) : nmw[Len(nm) + k] = words[k]
    BY <2>10, Glue
  <2>3. \A k \in 1..17 : nmw[k] = nm[k]
    BY <2>10, <2>11
  <2>4. \A k \in 1..(4 * Cardinality(S)) : nmw[17 + k] = words[k]
    BY <2>10, <2>11
  <2> QED BY <2>1, <2>2, <2>3, <2>4
<1> HIDE DEF nmw
<1>9. /\ Piece(p, 17 + 4 * Cardinality(S) + 1)
      /\ \A k \in 1..(17 + 4 * Cardinality(S)) : p[k] = nmw[k]
  <2>1. 17 + 4 * Cardinality(S) \in Nat /\ 1 \in Nat
    BY <1>3
  <2>2. Piece(p, 17 + 4 * Cardinality(S) + 1)
    BY <1>6, <1>8, <2>1, Join
  <2>10. /\ nmw \in Seq(Octets) /\ last \in Seq(Octets)
        /\ Len(nmw) = 17 + 4 * Cardinality(S)
    BY <1>6, <1>8 DEF Piece
  <2>11. \A k \in 1..Len(nmw) : p[k] = nmw[k]
    BY <2>10, Glue
  <2>3. \A k \in 1..(17 + 4 * Cardinality(S)) : p[k] = nmw[k]
    BY <2>10, <2>11
  <2> QED BY <2>1, <2>2, <2>3
<1> HIDE DEF p
<1>10. p \in Seq(Octets) /\ Fits(p)
  BY <1>3, <1>9 DEF Piece, Fits, BUFFER
<1>11. ReadSelected(p, 13) = S
  <2>1. ASSUME NEW i \in 0..31 PROVE Bit(At(p, 13 + (i \div 8)), i % 8) = 1 <=> i \in S
    <3>1. (i \div 8) + 1 \in 1..4
      OBVIOUS
    <3>2. At(p, 13 + (i \div 8)) = p[13 + ((i \div 8) + 1)]
      BY DEF At
    <3>3. p[13 + ((i \div 8) + 1)] = Mask(S)[(i \div 8) + 1]
      <4> DEFINE k == (i \div 8) + 1
      <4>1. 13 + k \in 1..17 /\ 13 + k \in 1..(17 + 4 * Cardinality(S))
        BY <1>3, <3>1
      <4> HIDE DEF k
      <4>2. p[13 + k] = nmw[13 + k] /\ nmw[13 + k] = nm[13 + k]
        BY <1>8, <1>9, <4>1
      <4>3. nm[13 + k] = Mask(S)[k]
        BY <1>7, <3>1 DEF k
      <4> QED BY <4>2, <4>3 DEF k
    <3> QED BY <3>2, <3>3, MaskSays
  <2> QED BY <1>1, <2>1 DEF ReadSelected
<1>12. ASSUME NEW i \in S PROVE read_u32(p, 13 + 4 + 4 * Rank(S, i)) = troop_array[i]
  <2> DEFINE r == Rank(S, i)
             o == 13 + 4 + 4 * r
             v == troop_array[i]
  <2>1. r \in 0..(Cardinality(S) - 1) /\ v \in U32
    BY <1>1, <1>3
  <2>2. numbers[r + 1] = v
    BY <1>4
  <2>3. \A k \in 0..3 : words[4 * r + k + 1] = write_u32(v)[k + 1]
    <3>1. r \in 0..(Len(numbers) - 1)
      BY <1>5, <2>1
    <3> HIDE DEF r, v
    <3> QED BY <1>5, <2>2, <3>1, WordsSay DEF words
  <2> HIDE DEF r, v
  <2>4. ASSUME NEW k \in 0..3 PROVE At(p, o + k) = write_u32(v)[k + 1]
    <3>1. /\ 4 * r + k + 1 \in 1..(4 * Cardinality(S))
          /\ 17 + (4 * r + k + 1) \in 1..(17 + 4 * Cardinality(S))
          /\ o + k + 1 = 17 + (4 * r + k + 1)
      BY <1>3, <2>1
    <3>2. p[17 + (4 * r + k + 1)] = words[4 * r + k + 1]
      BY <1>8, <1>9, <3>1
    <3> QED BY <2>3, <3>1, <3>2 DEF At
  <2>5. o \in Int /\ v \in Int
    BY <1>3, <2>1 DEF U32
  <2> HIDE DEF o
  <2>6. read_u32(p, o) = v
    BY <2>1, <2>4, <2>5, Read32
  <2> QED BY <2>6 DEF o, r, v
<1>13. ReadTroops(p, 13, 0..19)
         = [i \in 0..19 |-> IF i \in TROOPS THEN troop_array[i] ELSE 0]
  <2>1. S \cap 0..19 = S
    BY <1>1
  <2>2. \A i \in 0..19 : (IF i \in S THEN read_u32(p, 13 + 4 + 4 * Rank(S, i)) ELSE 0)
                           = IF i \in TROOPS THEN troop_array[i] ELSE 0
    BY <1>1, <1>12
  <2> QED BY <1>11, <2>1, <2>2 DEF ReadTroops
<1> QED BY <1>2, <1>10, <1>13

-----------------------------------------------------------------------------
State == [l : Half, r : Half]
Key == [1..8 -> Octets]

-----------------------------------------------------------------------------
\* The tables

LEMMA Box1 == sbox1 \in [1..64 -> 0..15] BY DEF sbox1
LEMMA Box2 == sbox2 \in [1..64 -> 0..15] BY DEF sbox2
LEMMA Box3 == sbox3 \in [1..64 -> 0..15] BY DEF sbox3
LEMMA Box4 == sbox4 \in [1..64 -> 0..15] BY DEF sbox4
LEMMA Box5 == sbox5 \in [1..64 -> 0..15] BY DEF sbox5
LEMMA Box6 == sbox6 \in [1..64 -> 0..15] BY DEF sbox6
LEMMA Box7 == sbox7 \in [1..64 -> 0..15] BY DEF sbox7
LEMMA Box8 == sbox8 \in [1..64 -> 0..15] BY DEF sbox8

LEMMA Boxes == \A g \in 1..8 : sbox[g] \in [1..64 -> 0..15]
<1>1. /\ sbox[1] = sbox1 /\ sbox[2] = sbox2 /\ sbox[3] = sbox3 /\ sbox[4] = sbox4
      /\ sbox[5] = sbox5 /\ sbox[6] = sbox6 /\ sbox[7] = sbox7 /\ sbox[8] = sbox8
  BY DEF sbox
<1>2. \A g \in 1..8 : g = 1 \/ g = 2 \/ g = 3 \/ g = 4 \/ g = 5 \/ g = 6 \/ g = 7 \/ g = 8
  OBVIOUS
<1> QED BY <1>1, <1>2, Box1, Box2, Box3, Box4, Box5, Box6, Box7, Box8

LEMMA Permuted == permutation \in [1..32 -> 0..31]
  BY DEF permutation

LEMMA KeyTables ==
  /\ key_perm_c \in [1..28 -> 0..63]
  /\ key_perm_d \in [1..28 -> 0..63]
  /\ turned \in [1..16 -> 0..28]
<1>1. key_perm_c \in [1..28 -> 0..63]
  BY DEF key_perm_c
<1>2. key_perm_d \in [1..28 -> 0..63]
  BY DEF key_perm_d
<1>3. turned \in [1..16 -> 0..28]
  BY DEF turned
<1> QED BY <1>1, <1>2, <1>3

LEMMA Compression ==
  /\ \A n \in 1..24 : key_compression[n] \in 0..27
  /\ \A n \in 25..48 : key_compression[n] \in 28..55
<1>1. \A n \in 1..24 : key_compression[n] \in 0..27
  BY DEF key_compression
<1>2. \A n \in 25..48 : key_compression[n] \in 28..55
  BY DEF key_compression
<1> QED BY <1>1, <1>2

-----------------------------------------------------------------------------
\* A round

LEMMA BitIsBit == ASSUME NEW b \in Int, NEW j \in 0..7 PROVE Bit(b, j) \in {0, 1}
<1>1. Weight[j + 1] \in {1, 2, 4, 8, 16, 32, 64, 128}
  <2>1. j = 0 \/ j = 1 \/ j = 2 \/ j = 3 \/ j = 4 \/ j = 5 \/ j = 6 \/ j = 7
    OBVIOUS
  <2> QED BY <2>1 DEF Weight
<1>2. b \div Weight[j + 1] \in Int
  BY <1>1
<1> QED BY <1>2 DEF Bit

LEMMA XorTwice ==
  ASSUME NEW f \in Half, NEW g \in Half
  PROVE  Xor(f, g) \in Half /\ Xor(f, Xor(f, g)) = g
<1>1. \A a, b \in {0, 1} : (a + b) % 2 \in {0, 1} /\ (a + ((a + b) % 2)) % 2 = b
  OBVIOUS
<1>2. \A n \in 0..31 : f[n] \in {0, 1} /\ g[n] \in {0, 1}
  BY DEF Half
<1>3. DOMAIN f = 0..31 /\ DOMAIN g = 0..31 /\ g = [n \in 0..31 |-> g[n]]
  BY DEF Half
<1>4. Xor(f, g) = [n \in 0..31 |-> (f[n] + g[n]) % 2]
  BY <1>3 DEF Xor
<1>5. Xor(f, Xor(f, g)) = [n \in 0..31 |-> (f[n] + ((f[n] + g[n]) % 2)) % 2]
  <2> DEFINE x == Xor(f, g)
  <2>1. \A n \in 0..31 : x[n] = (f[n] + g[n]) % 2
    BY <1>4
  <2> HIDE DEF x
  <2>2. Xor(f, x) = [n \in 0..31 |-> (f[n] + x[n]) % 2]
    BY <1>3 DEF Xor
  <2>3. \A n \in 0..31 : (f[n] + x[n]) % 2 = (f[n] + ((f[n] + g[n]) % 2)) % 2
    <3> SUFFICES ASSUME NEW n \in 0..31
                 PROVE  (f[n] + x[n]) % 2 = (f[n] + ((f[n] + g[n]) % 2)) % 2
      OBVIOUS
    <3>1. x[n] = (f[n] + g[n]) % 2
      BY <2>1
    <3>2. f[n] \in Int /\ g[n] \in Int
      BY <1>2
    <3> QED BY <3>1, <3>2
  <2>4. [n \in 0..31 |-> (f[n] + x[n]) % 2]
          = [n \in 0..31 |-> (f[n] + ((f[n] + g[n]) % 2)) % 2]
    BY <2>3, Zenon
  <2> QED BY <2>2, <2>4 DEF x
<1> QED BY <1>1, <1>2, <1>3, <1>4, <1>5 DEF Half

LEMMA FType ==
  ASSUME NEW half \in Half, NEW k \in RoundKeys
  PROVE  F(half, k) \in Half
<1> DEFINE e == Expand(half)
           x == Xor(e, k)
           s == Substitute(x)
<1>1. e \in RoundKeys
  <2>1. \A n \in 0..47 : ((n \div 6) * 4 + (n % 6) + 31) % 32 \in 0..31
    OBVIOUS
  <2> QED BY <2>1 DEF Expand, RoundKeys, Half
<1> HIDE DEF e
<1>2. x \in RoundKeys
  <2>1. \A a, b \in {0, 1} : (a + b) % 2 \in {0, 1}
    OBVIOUS
  <2> QED BY <1>1, <2>1 DEF Xor, RoundKeys
<1> HIDE DEF x
<1>3. ASSUME NEW g \in 0..7 PROVE SboxIndex(x, g) \in 0..63
  <2> DEFINE b == [j \in 0..5 |-> x[6 * g + j]]
  <2>1. \A j \in 0..5 : 6 * g + j \in 0..47
    OBVIOUS
  <2>2. \A j \in 0..5 : b[j] \in {0, 1}
    BY <1>2, <2>1 DEF RoundKeys
  <2>3. SboxIndex(x, g) = 32 * b[0] + 16 * b[5] + 8 * b[1] + 4 * b[2] + 2 * b[3] + b[4]
    BY DEF SboxIndex
  <2> HIDE DEF b
  <2>4. /\ b[0] \in {0, 1} /\ b[1] \in {0, 1} /\ b[2] \in {0, 1}
        /\ b[3] \in {0, 1} /\ b[4] \in {0, 1} /\ b[5] \in {0, 1}
    BY <2>2
  <2> QED BY <2>3, <2>4
<1>4. s \in Half
  <2>1. ASSUME NEW n \in 0..31
        PROVE  Bit(sbox[(n \div 4) + 1][SboxIndex(x, n \div 4) + 1], 3 - (n % 4)) \in {0, 1}
    <3>1. n \div 4 \in 0..7 /\ (n \div 4) + 1 \in 1..8 /\ 3 - (n % 4) \in 0..7
      OBVIOUS
    <3>2. SboxIndex(x, n \div 4) + 1 \in 1..64
      BY <1>3, <3>1
    <3>3. sbox[(n \div 4) + 1][SboxIndex(x, n \div 4) + 1] \in Int
      BY <3>1, <3>2, Boxes
    <3> QED BY <3>1, <3>3, BitIsBit
  <2> QED BY <2>1 DEF Substitute, Half
<1> HIDE DEF s
<1>5. Permute(s) \in Half
  <2>1. \A n \in 0..31 : permutation[n + 1] \in 0..31
    BY Permuted
  <2> QED BY <1>4, <2>1 DEF Permute, Half
<1> QED BY <1>5 DEF F, s, x, e

\* A round after a round with the same key and the halves swapped undoes it.
LEMMA RoundBack ==
  ASSUME NEW s \in State, NEW k \in RoundKeys
  PROVE  Round(s, k) \in State /\ Round(Swap(Round(s, k)), k) = Swap(s)
<1>1. s.l \in Half /\ s.r \in Half
  BY DEF State
<1> DEFINE f == F(s.r, k)
<1>2. f \in Half
  BY <1>1, FType
<1>3. Xor(f, s.l) \in Half /\ Xor(f, Xor(f, s.l)) = s.l
  BY <1>1, <1>2, XorTwice
<1>4. Round(s, k) = [l |-> s.r, r |-> Xor(f, s.l)]
  BY DEF Round
<1>5. Round(Swap(Round(s, k)), k) = [l |-> s.r, r |-> Xor(f, Xor(f, s.l))]
  BY <1>4 DEF Round, Swap
<1> QED BY <1>1, <1>3, <1>4, <1>5 DEF State, Swap

-----------------------------------------------------------------------------
\* All rounds

Schedules == [0..15 -> RoundKeys]

\* "back" has the keys of "there" in the opposite order.
Backwards(there, back) == \A i \in 0..15 : back[15 - i] = there[i]

LEMMA FourBack ==
  ASSUME NEW s \in State, NEW there \in Schedules, NEW back \in Schedules,
         Backwards(there, back), NEW i \in {0, 4, 8, 12}
  PROVE  /\ FourRounds(s, there, i) \in State
         /\ FourRounds(Swap(FourRounds(s, there, i)), back, 12 - i) = Swap(s)
<1> DEFINE k0 == there[i]
           k1 == there[i + 1]
           k2 == there[i + 2]
           k3 == there[i + 3]
           s1 == Round(s, k0)
           s2 == Round(s1, k1)
           s3 == Round(s2, k2)
           s4 == Round(s3, k3)
<1>1. /\ k0 \in RoundKeys /\ k1 \in RoundKeys /\ k2 \in RoundKeys /\ k3 \in RoundKeys
      /\ back[12 - i] = k3 /\ back[(12 - i) + 1] = k2
      /\ back[(12 - i) + 2] = k1 /\ back[(12 - i) + 3] = k0
  <2>1. /\ i \in 0..15 /\ i + 1 \in 0..15 /\ i + 2 \in 0..15 /\ i + 3 \in 0..15
        /\ 15 - i = (12 - i) + 3 /\ 15 - (i + 1) = (12 - i) + 2
        /\ 15 - (i + 2) = (12 - i) + 1 /\ 15 - (i + 3) = 12 - i
    OBVIOUS
  <2> QED BY <2>1 DEF Backwards, Schedules
<1> HIDE DEF k0, k1, k2, k3
<1>2. s1 \in State /\ Round(Swap(s1), k0) = Swap(s)
  BY <1>1, RoundBack
<1> HIDE DEF s1
<1>3. s2 \in State /\ Round(Swap(s2), k1) = Swap(s1)
  BY <1>1, <1>2, RoundBack
<1> HIDE DEF s2
<1>4. s3 \in State /\ Round(Swap(s3), k2) = Swap(s2)
  BY <1>1, <1>3, RoundBack
<1> HIDE DEF s3
<1>5. s4 \in State /\ Round(Swap(s4), k3) = Swap(s3)
  BY <1>1, <1>4, RoundBack
<1> HIDE DEF s4
<1>6. FourRounds(s, there, i) = s4
  BY DEF FourRounds, s4, s3, s2, s1, k0, k1, k2, k3
<1>7. FourRounds(Swap(s4), back, 12 - i)
        = Round(Round(Round(Round(Swap(s4), k3), k2), k1), k0)
  BY <1>1 DEF FourRounds
<1> QED BY <1>2, <1>3, <1>4, <1>5, <1>6, <1>7

LEMMA RoundsBack ==
  ASSUME NEW s \in State, NEW there \in Schedules, NEW back \in Schedules,
         Backwards(there, back)
  PROVE  /\ Rounds(s, there) \in State
         /\ Rounds(Swap(Rounds(s, there)), back) = Swap(s)
<1> DEFINE a == FourRounds(s, there, 0)
           b == FourRounds(a, there, 4)
           c == FourRounds(b, there, 8)
           d == FourRounds(c, there, 12)
<1>1. a \in State /\ FourRounds(Swap(a), back, 12) = Swap(s)
  BY FourBack, 12 - 0 = 12
<1> HIDE DEF a
<1>2. b \in State /\ FourRounds(Swap(b), back, 8) = Swap(a)
  BY <1>1, FourBack, 12 - 4 = 8
<1> HIDE DEF b
<1>3. c \in State /\ FourRounds(Swap(c), back, 4) = Swap(b)
  BY <1>2, FourBack, 12 - 8 = 4
<1> HIDE DEF c
<1>4. d \in State /\ FourRounds(Swap(d), back, 0) = Swap(c)
  BY <1>3, FourBack, 12 - 12 = 0
<1> HIDE DEF d
<1>5. Rounds(s, there) = d
  BY DEF Rounds, a, b, c, d
<1>6. Rounds(Swap(d), back) = Swap(s)
  BY <1>1, <1>2, <1>3, <1>4 DEF Rounds
<1> QED BY <1>4, <1>5, <1>6

-----------------------------------------------------------------------------
\* A block

LEMMA Initial ==
  ASSUME NEW block \in Block
  PROVE  IP(block) \in State /\ InvIP(IP(block)) = block
<1>1. \A j \in 0..31 : /\ 57 - 8 * (j % 8) + 2 * (j \div 8) \in 0..63
                       /\ 56 - 8 * (j % 8) + 2 * (j \div 8) \in 0..63
  OBVIOUS
<1>2. IP(block) \in State
  BY <1>1 DEF IP, State, Half, Block
<1>3. ASSUME NEW n \in 0..63
      PROVE  InvIP(IP(block))[n] = block[n]
  <2> DEFINE j == 7 - (n \div 8) + 8 * ((n % 8) \div 2)
  <2>1. j \in 0..31 /\ j % 8 = 7 - (n \div 8) /\ j \div 8 = (n % 8) \div 2
    OBVIOUS
  <2>2. /\ n % 2 = 0 => 56 - 8 * (7 - (n \div 8)) + 2 * ((n % 8) \div 2) = n
        /\ n % 2 # 0 => 57 - 8 * (7 - (n \div 8)) + 2 * ((n % 8) \div 2) = n
    OBVIOUS
  <2>3. InvIP(IP(block))[n] = IF n % 2 = 0 THEN IP(block).r[j] ELSE IP(block).l[j]
    BY DEF InvIP
  <2> HIDE DEF j
  <2>4. /\ IP(block).r[j] = block[56 - 8 * (j % 8) + 2 * (j \div 8)]
        /\ IP(block).l[j] = block[57 - 8 * (j % 8) + 2 * (j \div 8)]
    BY <2>1 DEF IP
  <2> QED BY <2>1, <2>2, <2>3, <2>4
<1>4. InvIP(IP(block)) = [n \in 0..63 |-> InvIP(IP(block))[n]]
  BY DEF InvIP
<1>5. block = [n \in 0..63 |-> block[n]]
  BY DEF Block
<1> QED BY <1>2, <1>3, <1>4, <1>5

LEMMA Final ==
  ASSUME NEW s \in State
  PROVE  InvIP(s) \in Block /\ IP(InvIP(s)) = s
<1>1. s.l \in Half /\ s.r \in Half /\ s = [l |-> s.l, r |-> s.r]
  BY DEF State
<1>2. \A n \in 0..63 : 7 - (n \div 8) + 8 * ((n % 8) \div 2) \in 0..31
  OBVIOUS
<1>3. InvIP(s) \in Block
  BY <1>1, <1>2 DEF InvIP, Block, Half
<1>4. ASSUME NEW j \in 0..31
      PROVE  /\ InvIP(s)[57 - 8 * (j % 8) + 2 * (j \div 8)] = s.l[j]
             /\ InvIP(s)[56 - 8 * (j % 8) + 2 * (j \div 8)] = s.r[j]
  <2> DEFINE n == 56 - 8 * (j % 8) + 2 * (j \div 8)
  <2>1. n \in 0..63 /\ n + 1 \in 0..63 /\ n + 1 = 57 - 8 * (j % 8) + 2 * (j \div 8)
    OBVIOUS
  <2>2. n % 2 = 0 /\ (n + 1) % 2 = 1 /\ n \div 8 = 7 - (j % 8) /\ (n + 1) \div 8 = 7 - (j % 8)
    OBVIOUS
  <2>3. (n % 8) \div 2 = j \div 8 /\ ((n + 1) % 8) \div 2 = j \div 8
    OBVIOUS
  <2>4. 7 - (7 - (j % 8)) + 8 * (j \div 8) = j
    OBVIOUS
  <2> HIDE DEF n
  <2>5. InvIP(s)[n] = s.r[j] /\ InvIP(s)[n + 1] = s.l[j]
    BY <2>1, <2>2, <2>3, <2>4 DEF InvIP
  <2> QED BY <2>1, <2>5 DEF n
<1>5. /\ s.l = [j \in 0..31 |-> s.l[j]] /\ s.r = [j \in 0..31 |-> s.r[j]]
  BY <1>1 DEF Half
<1>6. IP(InvIP(s)) = [l |-> s.l, r |-> s.r]
  BY <1>4, <1>5 DEF IP
<1> QED BY <1>1, <1>3, <1>6

\* Encrypting a block and running the same with the keys backwards gives it back.
LEMMA CryptBack ==
  ASSUME NEW block \in Block, NEW there \in Schedules, NEW back \in Schedules,
         Backwards(there, back)
  PROVE  Crypt(block, there) \in Block /\ Crypt(Crypt(block, there), back) = block
<1> DEFINE s == IP(block)
           d == Rounds(s, there)
<1>1. s \in State /\ InvIP(s) = block
  BY Initial
<1> HIDE DEF s
<1>2. d \in State /\ Rounds(Swap(d), back) = Swap(s)
  BY <1>1, RoundsBack
<1> HIDE DEF d
<1>3. \A t \in State : Swap(t) \in State /\ Swap(Swap(t)) = t
  BY DEF State, Swap
<1>4. Crypt(block, there) = InvIP(Swap(d))
  BY DEF Crypt, d, s
<1>5. InvIP(Swap(d)) \in Block /\ IP(InvIP(Swap(d))) = Swap(d)
  BY <1>2, <1>3, Final
<1>6. Crypt(InvIP(Swap(d)), back) = InvIP(Swap(Rounds(Swap(d), back)))
  BY <1>5 DEF Crypt
<1> QED BY <1>1, <1>2, <1>3, <1>4, <1>5, <1>6

-----------------------------------------------------------------------------
\* Keys

LEMMA KeysBack ==
  ASSUME NEW key \in Key
  PROVE  /\ KeySchedule(key, ENCRYPT) \in Schedules
         /\ KeySchedule(key, DECRYPT) \in Schedules
         /\ Backwards(KeySchedule(key, ENCRYPT), KeySchedule(key, DECRYPT))
         /\ Backwards(KeySchedule(key, DECRYPT), KeySchedule(key, ENCRYPT))
<1>1. ASSUME NEW i \in 0..15 PROVE RoundKeyOf(key, i) \in RoundKeys
  <2> DEFINE c(n) == key_perm_c[((key_compression[n + 1] + turned[i + 1]) % 28) + 1]
             d(n) == key_perm_d[((key_compression[n + 1] - 28 + turned[i + 1]) % 28) + 1]
             bit(n) == IF n < 24 THEN c(n) ELSE d(n)
  <2>1. ASSUME NEW n \in 0..47 PROVE bit(n) \in 0..63
    <3>1. turned[i + 1] \in 0..28
      <4>1. i + 1 \in 1..16
        OBVIOUS
      <4> QED BY <4>1, KeyTables
    <3>2. CASE n < 24
      <4>1. key_compression[n + 1] \in 0..27
        <5>1. n + 1 \in 1..24
          BY <3>2
        <5> QED BY <5>1, Compression
      <4>2. ((key_compression[n + 1] + turned[i + 1]) % 28) + 1 \in 1..28
        BY <3>1, <4>1
      <4>3. c(n) \in 0..63
        BY <4>2, KeyTables
      <4> QED BY <3>2, <4>3
    <3>3. CASE n >= 24
      <4>1. key_compression[n + 1] \in 28..55
        <5>1. n + 1 \in 25..48
          BY <3>3
        <5> QED BY <5>1, Compression
      <4>2. ((key_compression[n + 1] - 28 + turned[i + 1]) % 28) + 1 \in 1..28
        BY <3>1, <4>1
      <4>3. d(n) \in 0..63
        BY <4>2, KeyTables
      <4> QED BY <3>3, <4>3
    <3> QED BY <3>2, <3>3
  <2>2. RoundKeyOf(key, i) = [n \in 0..47 |-> Bit(At(key, bit(n) \div 8), 7 - (bit(n) % 8))]
    BY DEF RoundKeyOf
  <2> HIDE DEF bit
  <2>3. ASSUME NEW n \in 0..47
        PROVE  Bit(At(key, bit(n) \div 8), 7 - (bit(n) % 8)) \in {0, 1}
    <3>1. (bit(n) \div 8) + 1 \in 1..8 /\ 7 - (bit(n) % 8) \in 0..7
      BY <2>1
    <3>2. At(key, bit(n) \div 8) \in Int
      BY <3>1 DEF At, Key, Octets
    <3> QED BY <3>1, <3>2, BitIsBit
  <2> QED BY <2>2, <2>3 DEF RoundKeys
<1>2. ENCRYPT # DECRYPT
  BY DEF ENCRYPT, DECRYPT
<1>3. /\ KeySchedule(key, ENCRYPT) = [i \in 0..15 |-> RoundKeyOf(key, i)]
      /\ KeySchedule(key, DECRYPT) = [i \in 0..15 |-> RoundKeyOf(key, 15 - i)]
  BY <1>2 DEF KeySchedule
<1>4. \A i \in 0..15 : 15 - i \in 0..15 /\ 15 - (15 - i) = i
  OBVIOUS
<1> QED BY <1>1, <1>3, <1>4 DEF Schedules, Backwards

-----------------------------------------------------------------------------
\* Bytes and blocks

LEMMA BitsOctet ==
  ASSUME NEW b \in Octets
  PROVE  Octet([j \in 0..7 |-> Bit(b, j)]) = b
<1> DEFINE bits == [j \in 0..7 |-> Bit(b, j)]
<1>1. /\ bits[0] = (b \div 1) % 2 /\ bits[1] = (b \div 2) % 2
      /\ bits[2] = (b \div 4) % 2 /\ bits[3] = (b \div 8) % 2
      /\ bits[4] = (b \div 16) % 2 /\ bits[5] = (b \div 32) % 2
      /\ bits[6] = (b \div 64) % 2 /\ bits[7] = (b \div 128) % 2
  BY DEF Bit, Weight
<1> HIDE DEF bits
<1>2. b = ((b \div 1) % 2) + 2 * ((b \div 2) % 2) + 4 * ((b \div 4) % 2) + 8 * ((b \div 8) % 2)
          + 16 * ((b \div 16) % 2) + 32 * ((b \div 32) % 2) + 64 * ((b \div 64) % 2)
          + 128 * ((b \div 128) % 2)
  BY DEF Octets
<1>3. Octet(bits) = b
  BY <1>1, <1>2 DEF Octet
<1> QED BY <1>3 DEF bits

LEMMA BlockType ==
  ASSUME NEW data \in Seq(Octets), NEW i \in Nat, i < Len(data) \div 8
  PROVE  BlockAt(data, i) \in Block
<1>1. ASSUME NEW n \in 0..63
      PROVE  Bit(At(data, 8 * i + (n \div 8)), 7 - (n % 8)) \in {0, 1}
  <2>1. 8 * i + (n \div 8) + 1 \in 1..Len(data) /\ 7 - (n % 8) \in 0..7
    OBVIOUS
  <2> DEFINE m == 8 * i + (n \div 8)
  <2>2. m + 1 \in 1..Len(data)
    BY <2>1
  <2> HIDE DEF m
  <2>3. data[m + 1] \in Octets
    BY <2>2
  <2>4. At(data, m) \in Int
    <3>1. At(data, m) = data[m + 1]
      BY DEF At
    <3>2. \A b \in Octets : b \in Int
      BY DEF Octets
    <3> QED BY <2>3, <3>1, <3>2, Zenon
  <2> QED BY <2>1, <2>4, BitIsBit DEF m
<1> QED BY <1>1 DEF BlockAt, Block

\* The bytes of the block that is at a place are the bytes at that place.
LEMMA BlockBytes ==
  ASSUME NEW data \in Seq(Octets), NEW i \in Nat, i < Len(data) \div 8, NEW k \in 0..7
  PROVE  ByteOf(BlockAt(data, i), k) = data[8 * i + k + 1]
<1> DEFINE b == data[8 * i + k + 1]
<1>1. 8 * i + k + 1 \in 1..Len(data)
  OBVIOUS
<1>2. b \in Octets
  BY <1>1
<1>3. ASSUME NEW j \in 0..7 PROVE BlockAt(data, i)[8 * k + 7 - j] = Bit(b, j)
  <2>1. /\ 8 * k + 7 - j \in 0..63 /\ (8 * k + 7 - j) \div 8 = k
        /\ 7 - ((8 * k + 7 - j) % 8) = j
    OBVIOUS
  <2> QED BY <2>1 DEF BlockAt, At
<1>4. [j \in 0..7 |-> BlockAt(data, i)[8 * k + 7 - j]] = [j \in 0..7 |-> Bit(b, j)]
  BY <1>3
<1> HIDE DEF b
<1>5. ByteOf(BlockAt(data, i), k) = b
  BY <1>2, <1>4, BitsOctet DEF ByteOf
<1> QED BY <1>5 DEF b

\* Bytes made of a block hold its bits.
LEMMA BytesOfBlock ==
  ASSUME NEW block \in Block, NEW n \in 0..63
  PROVE  /\ ByteOf(block, n \div 8) \in Octets
         /\ Bit(ByteOf(block, n \div 8), 7 - (n % 8)) = block[n]
<1> DEFINE k == n \div 8
           bits == [j \in 0..7 |-> block[8 * k + 7 - j]]
<1>1. k \in 0..7 /\ 7 - (n % 8) \in 0..7 /\ 8 * k + 7 - (7 - (n % 8)) = n
  OBVIOUS
<1>2. \A j \in 0..7 : 8 * k + 7 - j \in 0..63
  BY <1>1
<1> HIDE DEF k
<1>3. bits \in Bits
  BY <1>2 DEF Block, Bits
<1>4. bits[7 - (n % 8)] = block[n]
  BY <1>1
<1> HIDE DEF bits
<1>5. Octet(bits) \in Octets /\ Bit(Octet(bits), 7 - (n % 8)) = block[n]
  BY <1>1, <1>3, <1>4, OctetBits
<1> QED BY <1>5 DEF ByteOf, bits, k

-----------------------------------------------------------------------------
\* A packet

LEMMA CryptDataType ==
  ASSUME NEW data \in Seq(Octets), NEW schedule \in Schedules, NEW back \in Schedules,
         Backwards(schedule, back)
  PROVE  LET out == CryptData(data, schedule) IN
         /\ out \in Seq(Octets) /\ Len(out) = Len(data)
         /\ \A i \in Nat : i < Len(data) \div 8 =>
              BlockAt(out, i) = Crypt(BlockAt(data, i), schedule)
         /\ \A n \in 1..Len(data) : n > 8 * (Len(data) \div 8) => out[n] = data[n]
<1> DEFINE out == CryptData(data, schedule)
           C(i) == Crypt(BlockAt(data, i), schedule)
<1>1. Len(data) \in Nat
  OBVIOUS
<1>2. \A i \in Nat : i < Len(data) \div 8 => C(i) \in Block
  BY BlockType, CryptBack
<1>3. out = [n \in 1..Len(data) |->
               IF (n - 1) \div 8 < Len(data) \div 8
               THEN ByteOf(C((n - 1) \div 8), (n - 1) % 8) ELSE data[n]]
  BY DEF CryptData
<1> HIDE DEF C, out
<1>4. ASSUME NEW n \in 1..Len(data), (n - 1) \div 8 < Len(data) \div 8
      PROVE  ByteOf(C((n - 1) \div 8), (n - 1) % 8) \in Octets
  <2>1. (n - 1) \div 8 \in Nat /\ (n - 1) % 8 \in 0..7
    BY <1>1
  <2>2. C((n - 1) \div 8) \in Block
    BY <1>2, <1>4, <2>1
  <2>3. 8 * ((n - 1) % 8) \in 0..63 /\ (8 * ((n - 1) % 8)) \div 8 = (n - 1) % 8
    BY <2>1
  <2>4. ByteOf(C((n - 1) \div 8), (8 * ((n - 1) % 8)) \div 8) \in Octets
    BY <2>2, <2>3, BytesOfBlock
  <2> QED BY <2>3, <2>4
<1>5. \A n \in 1..Len(data) : data[n] \in Octets
  OBVIOUS
<1>6. out \in Seq(Octets) /\ Len(out) = Len(data)
  BY <1>1, <1>3, <1>4, <1>5
<1>7. ASSUME NEW i \in Nat, i < Len(data) \div 8
      PROVE  BlockAt(out, i) = C(i)
  <2>1. C(i) \in Block
    BY <1>2, <1>7
  <2>2. ASSUME NEW n \in 0..63
        PROVE  Bit(At(out, 8 * i + (n \div 8)), 7 - (n % 8)) = C(i)[n]
    <3> DEFINE m == 8 * i + (n \div 8) + 1
    <3>1. m \in 1..Len(data) /\ (m - 1) \div 8 = i /\ (m - 1) % 8 = n \div 8
      BY <1>1, <1>7
    <3>2. At(out, 8 * i + (n \div 8)) = out[m]
      BY DEF At
    <3> HIDE DEF m
    <3>3. out[m] = ByteOf(C(i), n \div 8)
      BY <1>3, <1>7, <3>1
    <3> QED BY <2>1, <3>2, <3>3, BytesOfBlock
  <2>3. BlockAt(out, i) = [n \in 0..63 |-> C(i)[n]]
    BY <2>2 DEF BlockAt
  <2>4. C(i) = [n \in 0..63 |-> C(i)[n]]
    BY <2>1 DEF Block
  <2> QED BY <2>3, <2>4
<1>8. ASSUME NEW n \in 1..Len(data), n > 8 * (Len(data) \div 8)
      PROVE  out[n] = data[n]
  <2>1. ~ ((n - 1) \div 8 < Len(data) \div 8)
    BY <1>1, <1>8
  <2> QED BY <1>3, <2>1
<1> QED BY <1>6, <1>7, <1>8 DEF out, C

LEMMA CryptDataBack ==
  ASSUME NEW data \in Seq(Octets), NEW there \in Schedules, NEW back \in Schedules,
         Backwards(there, back), Backwards(back, there)
  PROVE  CryptData(CryptData(data, there), back) = data
<1> DEFINE out == CryptData(data, there)
           again == CryptData(out, back)
<1>1. /\ out \in Seq(Octets) /\ Len(out) = Len(data)
      /\ \A i \in Nat : i < Len(data) \div 8 => BlockAt(out, i) = Crypt(BlockAt(data, i), there)
      /\ \A n \in 1..Len(data) : n > 8 * (Len(data) \div 8) => out[n] = data[n]
  BY CryptDataType
<1> HIDE DEF out
<1>2. /\ again \in Seq(Octets) /\ Len(again) = Len(data)
      /\ \A n \in 1..Len(data) : n > 8 * (Len(data) \div 8) => again[n] = out[n]
  BY <1>1, CryptDataType
<1>3. ASSUME NEW i \in Nat, i < Len(data) \div 8
      PROVE  Crypt(BlockAt(out, i), back) = BlockAt(data, i)
  <2>1. BlockAt(data, i) \in Block
    BY <1>3, BlockType
  <2>2. BlockAt(out, i) = Crypt(BlockAt(data, i), there)
    BY <1>1, <1>3
  <2> QED BY <2>1, <2>2, CryptBack
<1>4. ASSUME NEW n \in 1..Len(data) PROVE again[n] = data[n]
  <2> DEFINE i == (n - 1) \div 8
             k == (n - 1) % 8
  <2>1. /\ i \in Nat /\ k \in 0..7 /\ 8 * i + k + 1 = n /\ Len(data) \in Nat
        /\ (~ (i < Len(data) \div 8) => n > 8 * (Len(data) \div 8))
    OBVIOUS
  <2>2. CASE i < Len(data) \div 8
    <3>1. again[n] = ByteOf(Crypt(BlockAt(out, i), back), k)
      BY <1>1, <2>2 DEF CryptData
    <3> HIDE DEF i, k
    <3>2. Crypt(BlockAt(out, i), back) = BlockAt(data, i)
      BY <1>3, <2>1, <2>2
    <3>3. ByteOf(BlockAt(data, i), k) = data[8 * i + k + 1]
      BY <2>1, <2>2, BlockBytes
    <3> QED BY <2>1, <3>1, <3>2, <3>3
  <2>3. CASE ~ (i < Len(data) \div 8)
    <3> HIDE DEF i, k
    <3> QED BY <1>1, <1>2, <2>1, <2>3
  <2> QED BY <2>2, <2>3
<1>5. again = data
  <2> HIDE DEF again
  <2> QED BY <1>2, <1>4
<1> QED BY <1>5 DEF out

\* Decrypting with a key what was encrypted with it gives back the data, of any
\* length; so does encrypting what was decrypted.
THEOREM DecryptEncrypt ==
  ASSUME NEW data \in Seq(Octets), NEW key \in Key
  PROVE  /\ EncryptData(data, key) \in Seq(Octets)
         /\ Len(EncryptData(data, key)) = Len(data)
         /\ DecryptData(EncryptData(data, key), key) = data
         /\ EncryptData(DecryptData(data, key), key) = data
<1> DEFINE there == KeySchedule(key, ENCRYPT)
           back == KeySchedule(key, DECRYPT)
<1>1. /\ there \in Schedules /\ back \in Schedules
      /\ Backwards(there, back) /\ Backwards(back, there)
  BY KeysBack
<1> HIDE DEF there, back
<1>2. CryptData(data, there) \in Seq(Octets) /\ Len(CryptData(data, there)) = Len(data)
  BY <1>1, CryptDataType
<1>3. /\ CryptData(CryptData(data, there), back) = data
      /\ CryptData(CryptData(data, back), there) = data
  BY <1>1, CryptDataBack
<1> QED BY <1>2, <1>3 DEF EncryptData, DecryptData, there, back

\* What send_packet sends of a request: the header of four bytes can be read
\* without the key, and the rest, decrypted, is what was built.
THEOREM SentFramed ==
  ASSUME NEW packet \in Seq(Octets), Len(packet) >= 8
  PROVE  LET sent == Encrypted(packet) IN
         /\ sent \in Seq(Octets) /\ Len(sent) = Len(packet)
         /\ read_u16(sent, 0) = read_u16(packet, 0)
         /\ read_u16(sent, 2) = read_u16(packet, 2)
         /\ DecryptData(SubSeq(sent, 5, Len(sent)), ENCRYPTION_KEY)
              = SubSeq(packet, 5, Len(packet))
<1> DEFINE head == SubSeq(packet, 1, 4)
           rest == SubSeq(packet, 5, Len(packet))
           crypted == EncryptData(rest, ENCRYPTION_KEY)
           sent == head \o crypted
<1>1. Len(packet) \in Nat /\ Len(packet) >= 8
  OBVIOUS
<1>2. /\ head \in Seq(Octets) /\ Len(head) = 4 /\ \A k \in 1..4 : head[k] = packet[k]
  BY <1>1
<1>3. rest \in Seq(Octets) /\ Len(rest) = Len(packet) - 4
  BY <1>1
<1>4. ENCRYPTION_KEY \in Key
  BY DEF ENCRYPTION_KEY, Key, Octets
<1>5. /\ crypted \in Seq(Octets) /\ Len(crypted) = Len(rest)
      /\ DecryptData(crypted, ENCRYPTION_KEY) = rest
  <2> HIDE DEF rest
  <2> QED BY <1>3, <1>4, DecryptEncrypt
<1>6. sent = Encrypted(packet)
  BY DEF Encrypted
<1> HIDE DEF head, rest, crypted
<1>7. /\ sent \in Seq(Octets) /\ Len(sent) = Len(head) + Len(crypted)
      /\ \A k \in 1..Len(head) : sent[k] = head[k]
      /\ \A k \in 1..Len(crypted) : sent[Len(head) + k] = crypted[k]
  BY <1>2, <1>5, Glue
<1> HIDE DEF sent
<1>8. /\ Len(sent) = Len(packet) /\ \A k \in 1..4 : sent[k] = packet[k]
      /\ \A k \in 1..Len(crypted) : sent[4 + k] = crypted[k]
  BY <1>1, <1>2, <1>3, <1>5, <1>7
<1>9. /\ At(sent, 0) = At(packet, 0) /\ At(sent, 0 + 1) = At(packet, 0 + 1)
      /\ At(sent, 2) = At(packet, 2) /\ At(sent, 2 + 1) = At(packet, 2 + 1)
  BY <1>8 DEF At
<1>10. read_u16(sent, 0) = read_u16(packet, 0) /\ read_u16(sent, 2) = read_u16(packet, 2)
  BY <1>9 DEF read_u16
<1>11. SubSeq(sent, 5, Len(sent)) = crypted
  <2> DEFINE t == SubSeq(sent, 5, Len(sent))
  <2>1. /\ t \in Seq(Octets) /\ Len(t) = Len(sent) - 4
        /\ \A k \in 1..(Len(sent) - 4) : t[k] = sent[4 + k]
    BY <1>1, <1>7, <1>8
  <2> HIDE DEF t
  <2>2. Len(t) = Len(crypted) /\ \A k \in 1..Len(t) : t[k] = crypted[k]
    BY <1>1, <1>3, <1>5, <1>8, <2>1
  <2>3. t = crypted
    BY <1>5, <2>1, <2>2
  <2> QED BY <2>3 DEF t
<1> QED BY <1>5, <1>6, <1>7, <1>8, <1>10, <1>11 DEF rest

-----------------------------------------------------------------------------
\* Numbers of two digits, to the bases the conversions shift by.
LEMMA Join16 ==
  ASSUME NEW q \in Nat, NEW r \in 0..15
  PROVE  (q * 16 + r) \div 16 = q /\ (q * 16 + r) % 16 = r
OBVIOUS

LEMMA Split16 ==
  ASSUME NEW n \in Nat
  PROVE  n \div 16 \in Nat /\ n % 16 \in 0..15 /\ n = (n \div 16) * 16 + (n % 16)
OBVIOUS

\* Within the map nothing is cut off by the widths of zone and point.
LEMMA Narrow ==
  /\ \A z \in 0..1023 : z % (256 * 256) = z /\ z % 1024 = z
  /\ \A p \in 0..255 : p % 256 = p
OBVIOUS

\* A map id survives the way to the point code and back, and its code is one
\* of the map (MapIDToPointCode, PointCodeToMapID).
THEOREM IdByCode ==
  ASSUME NEW m \in MapIDs
  PROVE  /\ MapIDToPointCode(m).zoneID \in Zones /\ MapIDToPointCode(m).pointID \in Points
         /\ PointCodeToMapID(MapIDToPointCode(m).zoneID, MapIDToPointCode(m).pointID) = m
<1> DEFINE row == m \div 256
           column == m % 256
           zr == row \div 16
           pr == row % 16
           zc == column \div 16
           pc == column % 16
           z == zr * 16 + zc
           p == pr * 16 + pc
<1>1. row \in 0..1023 /\ column \in 0..255 /\ m = row * 256 + column
  BY DEF MapIDs
<1>. HIDE DEF row, column
<1>2. zr \in 0..63 /\ pr \in 0..15 /\ row = zr * 16 + pr
  BY <1>1, Split16
<1>3. zc \in 0..15 /\ pc \in 0..15 /\ column = zc * 16 + pc
  BY <1>1, Split16
<1>4. MapIDToPointCode(m) = [zoneID |-> z % (256 * 256), pointID |-> p % 256]
  BY DEF MapIDToPointCode, row, column
<1>. HIDE DEF zr, pr, zc, pc
<1>5. z \in 0..1023 /\ p \in 0..255
  BY <1>2, <1>3
<1>6. z \div 16 = zr /\ z % 16 = zc /\ p \div 16 = pr /\ p % 16 = pc
  BY <1>2, <1>3, Join16
<1>. HIDE DEF z, p
<1>7. MapIDToPointCode(m) = [zoneID |-> z, pointID |-> p]
  BY <1>4, <1>5, Narrow
<1>8. z % 1024 = z
  BY <1>5, Narrow
<1>9. PointCodeToMapID(z, p) = zc * 16 + pc + (zr * 16 + pr) * 256
  BY <1>6, <1>8 DEF PointCodeToMapID
<1>10. PointCodeToMapID(z, p) = m
  BY <1>1, <1>2, <1>3, <1>9
<1>. QED  BY <1>5, <1>7, <1>10 DEF Zones, Points

\* A point code survives the way to the map id and back.
THEOREM CodeById ==
  ASSUME NEW z \in Zones, NEW p \in Points
  PROVE  /\ PointCodeToMapID(z, p) \in MapIDs
         /\ MapIDToPointCode(PointCodeToMapID(z, p)) = [zoneID |-> z, pointID |-> p]
<1> DEFINE zr == z \div 16
           zc == z % 16
           pr == p \div 16
           pc == p % 16
           row == zr * 16 + pr
           column == zc * 16 + pc
           m == PointCodeToMapID(z, p)
<1>1. zr \in 0..63 /\ zc \in 0..15 /\ z = zr * 16 + zc
  BY Split16 DEF Zones
<1>2. pr \in 0..15 /\ pc \in 0..15 /\ p = pr * 16 + pc
  BY Split16 DEF Points
<1>3. z % 1024 = z
  BY Narrow DEF Zones
<1>4. m = column + row * 256
  BY <1>3 DEF PointCodeToMapID
<1>. HIDE DEF m, zr, zc, pr, pc
<1>5. row \in 0..1023 /\ column \in 0..255
  BY <1>1, <1>2
<1>6. /\ row \div 16 = zr /\ row % 16 = pr
      /\ column \div 16 = zc /\ column % 16 = pc
  BY <1>1, <1>2, Join16
<1>. HIDE DEF row, column
<1>7. m \div 256 = row /\ m % 256 = column /\ m \in MapIDs
  BY <1>4, <1>5 DEF MapIDs
<1>8. MapIDToPointCode(m) = [zoneID |-> z % (256 * 256), pointID |-> p % 256]
  BY <1>1, <1>2, <1>6, <1>7 DEF MapIDToPointCode
<1>9. MapIDToPointCode(m) = [zoneID |-> z, pointID |-> p]
  BY <1>8, Narrow DEF Zones, Points
<1>. QED  BY <1>7, <1>9 DEF m

\* A map id survives the way to the position and back, and its position is on
\* the map.
THEOREM IdByPosition ==
  ASSUME NEW m \in MapIDs
  PROVE  /\ CheckTileMapPos(getTileMapPosbyMapID(m).x, getTileMapPosbyMapID(m).y)
         /\ PositionToMapId(getTileMapPosbyMapID(m).x, getTileMapPosbyMapID(m).y) = m
<1> DEFINE row == m \div 256
           column == m % 256
           odd == row % 2
<1>1. row \in 0..1023 /\ column \in 0..255 /\ m = row * 256 + column
  BY DEF MapIDs
<1>2. odd \in 0..1
  BY <1>1
<1>3. getTileMapPosbyMapID(m) = [x |-> column * 2 + odd, y |-> row]
  BY DEF getTileMapPosbyMapID
<1>. HIDE DEF column, odd
<1>4. (column * 2 + odd + 1 - odd) \div 2 = column
  BY <1>1, <1>2
<1>5. PositionToMapId(column * 2 + odd, row) = row * 256 + column
  BY <1>4 DEF PositionToMapId, odd
<1>6. CheckTileMapPos(column * 2 + odd, row)
  BY <1>1, <1>2 DEF CheckTileMapPos
<1>. QED  BY <1>1, <1>3, <1>5, <1>6

\* The two ways from a position to a point code, MapPosToPointCode and
\* getPointCodeByMapPos, agree on every position, with a tile or without, but
\* for odd positions of even rows: from there the one goes to the tile on the
\* left and the other to the tile on the right.
THEOREM CodeByPosition ==
  ASSUME NEW x \in 0..511, NEW y \in 0..1023, ~(x % 2 = 1 /\ y % 2 = 0)
  PROVE  getPointCodeByMapPos(x, y) = MapPosToPointCode([x |-> x, y |-> y])
<1> DEFINE column == x \div 2
           m == PositionToMapId(x, y)
<1>1. column \in 0..255 /\ (x + 1 - (y % 2)) \div 2 = column
  OBVIOUS
<1>2. m = y * 256 + column
  BY <1>1 DEF PositionToMapId
<1>3. column \div 16 = x \div 32
  OBVIOUS
<1>. HIDE DEF column, m
<1>4. m \div 256 = y /\ m % 256 = column
  BY <1>1, <1>2
<1>5. (y \div 16) * 16 + (x \div 32) = (x \div 32) + (y \div 16) * 16
  OBVIOUS
<1>6. (y % 16) * 16 + (column % 16) = (column % 16) + (y % 16) * 16
  BY <1>1
<1>7. MapIDToPointCode(m) =
        [zoneID |-> ((x \div 32) + (y \div 16) * 16) % (256 * 256),
         pointID |-> ((column % 16) + (y % 16) * 16) % 256]
  BY <1>3, <1>4, <1>5, <1>6 DEF MapIDToPointCode
<1>. QED  BY <1>7 DEF getPointCodeByMapPos, MapPosToPointCode, column, m
================================================================================
