------------------------------- MODULE Encoder -------------------------------
(***************************************************************************)
(* The sending half: src/Encoder.c.  A buffer is the sequence of the bytes *)
(* written to it; size is the room that is left.                           *)
(***************************************************************************)
EXTENDS Integers, Sequences

CONSTANTS Bytes, FLAG, ESC, Complement(_), CrcInitial, DoCrc(_, _),
          CrcBytes(_)     \* the two bytes of a checksum, as they lie in memory

Escape(d) == IF d \in {ESC, FLAG} THEN <<ESC, Complement(d)>> ELSE <<d>>

EncodeInit(size) == IF size < 1 THEN <<>> ELSE <<FLAG>>

(***************************************************************************)
(* The loop over the data: what is written after each byte.                *)
(***************************************************************************)
Escaped(data) ==
  LET written[k \in 0 .. Len(data)] ==
        IF k = 0 THEN <<>> ELSE written[k - 1] \o Escape(data[k])
  IN  written[Len(data)]

(***************************************************************************)
(* Nothing is written unless the worst case fits.                          *)
(***************************************************************************)
EncodeAppendPayload(size, data) ==
  IF size < 2 * Len(data) THEN <<>> ELSE Escaped(data)

EncodeFinalize(size) == EncodeInit(size)

Checksum(data) ==
  LET crc[k \in 0 .. Len(data)] ==
        IF k = 0 THEN CrcInitial ELSE DoCrc(crc[k - 1], data[k])
  IN  crc[Len(data)]

(***************************************************************************)
(* ndlcomEncode: every part is appended to what the earlier ones left.  A  *)
(* part that did not fit is skipped, in the bytes and in the checksum.     *)
(***************************************************************************)
Encode(bufferSize, header, payload) ==
  LET Append1(written, data) ==
        written \o EncodeAppendPayload(bufferSize - Len(written), data)
      Fits(written, data) == bufferSize - Len(written) >= 2 * Len(data)
      start == EncodeInit(bufferSize)
      withHeader == Append1(start, header)
      withPayload == Append1(withHeader, payload)
      covered == (IF Fits(start, header) THEN header ELSE <<>>)
                 \o (IF Fits(withHeader, payload) THEN payload ELSE <<>>)
      withCrc == Append1(withPayload, CrcBytes(Checksum(covered)))
  IN  IF Len(payload) # header[4] THEN <<>>
      ELSE withCrc \o EncodeFinalize(bufferSize - Len(withCrc))

(***************************************************************************)
(* NDLCOM_MAX_ENCODED_MESSAGE_SIZE_FOR_PACKET: the buffer of the bridge.   *)
(***************************************************************************)
MaxEncodedSize(header) == 2 + 2 * (Len(header) + header[4] + 2)
=============================================================================
