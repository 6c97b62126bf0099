---------------------------- MODULE SevenOfEight ----------------------------
(***************************************************************************)
(* The data part of ioproxy.c endReceivePacket() for a response frame, in *)
(* 7-of-8 mode (usingBinaryTransfer false): the in-place decode of        *)
(* recvBuffer from offset 11 on, the header fields read from the decoded  *)
(* bytes (slot, userWord1, userWord2, xmitDataLen) and the clamp of       *)
(* xmitDataLen to recvDataLen.  A buffer is a sequence of byte values;    *)
(* recvBuffer[k] of the C code is buf[k+1].                               *)
(*                                                                         *)
(* The sender side (the outside proxy) is not in this repository; its     *)
(* encoder is modelled from spec.md 4.1 and only serves as the reference  *)
(* the decoder is checked against.                                         *)
(***************************************************************************)
EXTENDS Integers, Sequences, Bitwise

\* aid, cursor position and VM name are not encoded
HeaderLen == 11

\* One 8-byte block: the 7 data bytes get their high bit back where the
\* modifier byte block[7] has the bit of mask 0x40 >> i set.
DecodeBlock_mut(blk) ==
  [i \in 1..7 |-> IF (blk[8] & shiftR(128, i - 1)) # 0
                  THEN blk[i] | 128 ELSE blk[i]]

DecodeBlock(blk) ==
  [i \in 1..7 |-> IF (blk[8] & shiftR(64, i - 1)) # 0
                  THEN blk[i] | 128 ELSE blk[i]]

\* The while (dlen > 0) loop: 7 bytes per block, then dlen -= 8 and the
\* next block's modifier.  A block is decoded whole even where dlen has
\* fewer than 8 bytes left.
RECURSIVE DecodeBlocks(_, _)
DecodeBlocks(blk, dlen) ==
  IF dlen <= 0 THEN <<>>
  ELSE DecodeBlock(SubSeq(blk, 1, 8)) \o DecodeBlocks(SubSeq(blk, 9, Len(blk)), dlen - 8)

\* recvBuffer after the decode: dest overwrites the encoded bytes from
\* offset 11 on, the bytes after the last dest are left as they were.
DecodeInPlace(buf, recvLen) ==
  LET dec == DecodeBlocks(SubSeq(buf, HeaderLen + 1, Len(buf)), recvLen - HeaderLen)
  IN SubSeq(buf, 1, HeaderLen) \o dec \o SubSeq(buf, HeaderLen + Len(dec) + 1, Len(buf))

\* recvLen = 11 + (((dlen + 7) / 8) * 7); dlen >= 10 after the length test
DecodedLen(recvLen) == HeaderLen + ((recvLen - HeaderLen + 7) \div 8) * 7

\* The big-endian value of n bytes at offset off (*((short*)src) on S/370).
Field(buf, off, n) ==
  LET RECURSIVE Val(_)
      Val(k) == IF k = 0 THEN 0 ELSE Val(k - 1) * 256 + buf[off + k]
  IN Val(n)

\* short slot: a two's complement 16-bit value
Signed16(v) == IF v >= 32768 THEN v - 65536 ELSE v

RecvDataLen_mut(recvLen) == (recvLen - 19) % 65536

\* unsigned short recvDataLen = recvLen - 21;
RecvDataLen(recvLen) == (recvLen - 21) % 65536

\* What endReceivePacket hands to sendVmcfReplyForSlot for a frame of
\* recvLen bytes in buf: slot, user words and xmitDataLen bytes from
\* src = &recvBuffer[23] on, xmitDataLen clamped to recvDataLen.  The user
\* words are only passed on, so they stay the 4 bytes they are read from.
Receive(buf, recvLen) ==
  LET d    == DecodeInPlace(buf, recvLen)
      rdl  == RecvDataLen(DecodedLen(recvLen))
      xmit0 == Field(d, 21, 2)
      xmit == IF rdl < xmit0 THEN rdl ELSE xmit0
  IN [slot |-> Signed16(Field(d, 11, 2)), uw1 |-> SubSeq(d, 14, 17),
      uw2 |-> SubSeq(d, 18, 21), data |-> SubSeq(d, 24, 23 + xmit)]

-----------------------------------------------------------------------------
(***************************************************************************)
(* Reference encoder (spec.md 4.1): the payload is padded with zero bytes *)
(* to whole 7-byte groups; each group is sent as its 7 bytes without the  *)
(* high bit, followed by a byte holding the 7 high bits, the first byte's *)
(* in bit 6.                                                               *)
(***************************************************************************)
Bytes(v, n) == [k \in 1..n |-> (v \div 2^(8 * (n - k))) % 256]

EncodeGroup(g) ==
  [i \in 1..7 |-> g[i] % 128]
    \o << LET RECURSIVE Bits(_)
              Bits(i) == IF i = 0 THEN 0
                         ELSE Bits(i - 1) + (IF g[i] >= 128 THEN 2^(7 - i) ELSE 0)
          IN Bits(7) >>

RECURSIVE Encode(_)
Encode(p) ==
  IF p = <<>> THEN <<>>
  ELSE LET g == [i \in 1..7 |-> IF i <= Len(p) THEN p[i] ELSE 0]
       IN EncodeGroup(g) \o Encode(IF Len(p) <= 7 THEN <<>> ELSE SubSeq(p, 8, Len(p)))

\* A response frame: AID Enter (0x7D), 10 unencoded bytes, then the encoded
\* header and payload, with xmitLen declared in the header.
Frame(slot, uw1, uw2, xmitLen, payload) ==
  <<125>> \o [k \in 1..10 |-> 0]
    \o Encode(Bytes(slot % 65536, 2) \o uw1 \o uw2
              \o Bytes(xmitLen, 2) \o payload)
-----------------------------------------------------------------------------
\* Frames an outside proxy sends for a response: user words with and
\* without high bits; payloads of bytes with and without the high bit, of
\* lengths that fill the last 7-byte group exactly or leave padding.
\* StaleTails are two contents of recvBuffer beyond the frame, left from
\* earlier frames.
UserWords == {<<0, 0, 0, 17>>, <<128, 192, 64, 255>>}
Payloads == UNION {[1..n -> {65, 193}] : n \in 0..3}
StaleTails == {[k \in 1..16 |-> 0], [k \in 1..16 |-> 255]}

\* The round-trip law of spec.md for slot s: a frame whose header declares
\* the length of its payload is handed to sendVmcfReplyForSlot with exactly
\* the slot, user words and payload the outside proxy put into it.
RoundTrip(s) ==
  \A u1, u2 \in UserWords, p \in Payloads, t \in StaleTails :
    LET f == Frame(s, u1, u2, Len(p), p)
    IN Receive(f \o t, Len(f)) = [slot |-> s, uw1 |-> u1, uw2 |-> u2, data |-> p]

\* A frame for slot s declaring a transmit length beyond its data is
\* clamped so that the reply carries no byte of recvBuffer beyond the
\* frame: the reply is the same whatever stale bytes follow the frame.
ClampedToFrame(s) ==
  \A p \in Payloads, t1, t2 \in StaleTails : \A x \in {Len(p) + 1, 65535} :
    LET f == Frame(s, <<0, 0, 0, 17>>, <<0, 0, 0, 17>>, x, p)
    IN Receive(f \o t1, Len(f)) = Receive(f \o t2, Len(f))
=============================================================================
