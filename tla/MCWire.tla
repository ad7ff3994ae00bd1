-------------------------------- MODULE MCWire --------------------------------
(***************************************************************************)
(* Wire with bytes of three bits: a checksum of two such bytes, computed   *)
(* the way src/Crc.c does (a reflected polynomial, one table lookup per    *)
(* byte), a flag and an escape character that differ from each other like  *)
(* 0x7e and 0x7d, and a header of four bytes.                              *)
(***************************************************************************)
EXTENDS Wire, Functions

Bit(x, i) == (x \div 2 ^ i) % 2
Xor(x, y, bits) == FoldFunctionOnSet(+, 0, [i \in 0 .. bits |-> 2 ^ i * ((Bit(x, i) + Bit(y, i)) % 2)], 0 .. bits - 1)

MCBytes == 0 .. 7
MCFlag == 6
MCEsc == 5
Complements == [c \in MCBytes |-> Xor(c, 4, 3)]
MCComplement(c) == Complements[c]

MCCrcValues == 0 .. 63
Polynomial == 44
Shift(crc) == IF crc % 2 = 1 THEN Xor(crc \div 2, Polynomial, 6) ELSE crc \div 2
Table == [byte \in MCBytes |-> Shift(Shift(Shift(byte)))]
CrcTable == [crc \in MCCrcValues, c \in MCBytes |-> Xor(crc \div 8, Table[Xor(crc % 8, c, 3)], 6)]
MCDoCrc(crc, c) == CrcTable[crc, c]
MCCrcBytes(crc) == <<crc % 8, crc \div 8>>

(* Control characters in the header and in the payload, and no payload. *)
MCMessages == {
  [header |-> <<1, 2, 6, 2>>, payload |-> <<5, 6>>],
  [header |-> <<5, 2, 0, 0>>, payload |-> <<>>],
  [header |-> <<7, 3, 1, 1>>, payload |-> <<2>>]}

(* The two that differ most, for a line that is disturbed twice. *)
NoisyMessages == {m \in MCMessages : m.header[1] # 7}
===============================================================================
