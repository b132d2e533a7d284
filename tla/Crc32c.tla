-------------------------------- MODULE Crc32c --------------------------------
(***************************************************************************)
(* The checksum of util/crc32c.h at a reduced width.  crc32c::Value is a  *)
(* polynomial hash over the bytes modulo a prime, which like CRC32C       *)
(* changes when any one byte changes.  crc32c::Mask and Unmask,           *)
(* ((crc >> 15) | (crc << 17)) + kMaskDelta, are taken at 16 bits instead *)
(* of 32 (TLC's integers are 32-bit signed): a rotation right by 15 of a  *)
(* 16-bit word, which is a rotation left by one, plus the low half of     *)
(* kMaskDelta, all modulo 2^16.                                           *)
(***************************************************************************)
EXTENDS Naturals, Sequences

CrcPrime == 65521
RECURSIVE CrcExtend(_, _)
CrcExtend(h, bytes) ==
    IF bytes = <<>> THEN h ELSE CrcExtend((h * 31 + Head(bytes) + 1) % CrcPrime, Tail(bytes))
Crc32cValue(bytes) == CrcExtend(7, bytes)

CrcWord    == 65536
kMaskDelta == 60120     \* 0xa282ead8 % 2^16
Mask(crc) == (((crc * 2) % CrcWord) + (crc \div (CrcWord \div 2)) + kMaskDelta)
                % CrcWord
Unmask(masked) ==
    LET rot == (masked - kMaskDelta) % CrcWord
    IN (rot \div 2) + ((rot % 2) * (CrcWord \div 2))
===============================================================================
