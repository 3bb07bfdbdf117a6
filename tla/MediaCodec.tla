------------------------------ MODULE MediaCodec ------------------------------
(***************************************************************************)
(* The padding and the sizes of encrypted media (src/crypto.go:47-120).    *)
(* Data is a sequence of bytes.  AES in ECB mode maps each block to one of *)
(* the same size, reversibly, so ciphertext is represented by what it      *)
(* decrypts to: AESECBEncrypt is PKCS7Pad, and AESECBDecrypt is the check  *)
(* of the length followed by PKCS7Unpad.                                   *)
(***************************************************************************)
EXTENDS Integers, Sequences

CONSTANT BlockSize

ASSUME BlockAssumption == BlockSize \in 1..255

Byte == 0..255
Data == Seq(Byte)

PadLength(size) == BlockSize - (size % BlockSize)

(* PKCS7Pad: 1 to BlockSize bytes, each of them their number.              *)
PKCS7Pad(data) ==
    [i \in 1..Len(data) + PadLength(Len(data)) |->
        IF i <= Len(data) THEN data[i] ELSE PadLength(Len(data))]

(* AESECBPaddedSize: the size of the ciphertext that is announced to the   *)
(* server before there is any.                                             *)
AESECBPaddedSize(size) == (size \div BlockSize + 1) * BlockSize

WholeBlocks(data) == data # <<>> /\ Len(data) % BlockSize = 0

\* Variant of PaddingIsValid: only the last byte is looked at.
LastByteIsValid(data) ==
    LET padLen == data[Len(data)]
    IN  padLen # 0 /\ padLen <= BlockSize /\ padLen <= Len(data)

(* The checks of PKCS7Unpad on data of whole blocks.                       *)
PaddingIsValid(data) ==
    LET padLen == data[Len(data)]
    IN  /\ padLen # 0 /\ padLen <= BlockSize /\ padLen <= Len(data)
        /\ \A i \in (Len(data) - padLen + 1)..Len(data) : data[i] = padLen

(* PKCS7Unpad, when they hold.                                             *)
PKCS7Unpad(data) == SubSeq(data, 1, Len(data) - data[Len(data)])
=============================================================================
