------------------------------ MODULE Compress ------------------------------
(***************************************************************************)
(* The compressed forms in which the chain database keeps amounts, scripts *)
(* and numbers (pkg/blockchain/compress.go).                               *)
(*                                                                         *)
(* A serialization is a sequence of cells <<width, value>>, one for each   *)
(* number and one for the data of a script.  A script is a record:         *)
(*   [t |-> "pkh", d |-> h]      pay to public key hash                    *)
(*   [t |-> "sh", d |-> h]       pay to script hash                        *)
(*   [t |-> "pk", d |-> <<f, x, odd, on>>]  pay to public key: its format  *)
(*       byte, its x, whether its y is odd and whether x is on the curve   *)
(*   [t |-> "raw", d |-> <<n, what>>]  any other script of n bytes         *)
(***************************************************************************)
EXTENDS Integers, Sequences, SequencesExt

numSpecialScripts == 6

Size(cells) == FoldLeft(LAMBDA n, c : n + c[1], 0, cells)

-----------------------------------------------------------------------------
(* Variable length quantities: seven bits a byte, most significant first,  *)
(* the high bit on all but the last, and one subtracted for every further  *)
(* byte so that no number has two encodings.                               *)

serializeSizeVLQ(n) ==
  LET size[k \in Nat] == IF k > 127 THEN 1 + size[(k \div 128) - 1] ELSE 1
  IN size[n]

VLQBytes(n) ==
  LET high[k \in Nat] ==
        IF k > 127 THEN Append(high[(k \div 128) - 1], 128 + (k % 128)) ELSE <<128 + k>>
  IN IF n > 127 THEN Append(high[(n \div 128) - 1], n % 128) ELSE <<n>>

putVLQ(n) == <<<<serializeSizeVLQ(n), n>>>>

(* [n, size]: data that ends inside the number gives what was read.        *)
deserializeVLQ(bytes) ==
  LET read[p \in Nat \X Nat] ==
        LET b == bytes[p[2] + 1]
        IN IF p[2] = Len(bytes) THEN [n |-> p[1], size |-> p[2]]
           ELSE IF b < 128 THEN [n |-> p[1] * 128 + b, size |-> p[2] + 1]
           ELSE read[<<p[1] * 128 + (b % 128) + 1, p[2] + 1>>]
  IN read[<<0, 0>>]

-----------------------------------------------------------------------------
(* Amounts: trailing zeros as an exponent, the last digit apart.           *)

Stripped(amount) ==
  LET strip[p \in Nat \X (0..9)] ==
        IF p[1] % 10 = 0 /\ p[2] < 9 THEN strip[<<p[1] \div 10, p[2] + 1>>] ELSE p
  IN strip[<<amount, 0>>]

compressTxOutAmount(amount) ==
  LET a == Stripped(amount)[1]
      e == Stripped(amount)[2]
  IN IF amount = 0 THEN 0
     ELSE IF e < 9 THEN 1 + 10 * (9 * (a \div 10) + (a % 10) - 1) + e
     ELSE 10 + 10 * (a - 1)

decompressTxOutAmount(c) ==
  LET e == (c - 1) % 10
      a == (c - 1) \div 10
  IN IF c = 0 THEN 0
     ELSE IF e < 9 THEN ((a \div 9) * 10 + (a % 9) + 1) * 10 ^ e
     ELSE (a + 1) * 10 ^ 9

-----------------------------------------------------------------------------
(* Scripts.                                                                *)

ScriptLen(s) ==
  CASE s.t = "pkh" -> 25
    [] s.t = "sh" -> 23
    [] s.t = "pk" -> IF s.d[1] \in {2, 3} THEN 35 ELSE 67
    [] OTHER -> s.d[1]

isPubKeyHash(s) == s.t = "pkh"
isScriptHash(s) == s.t = "sh"
(* The key must parse: x on the curve.  Hybrid formats are not recognised. *)
isPubKey(s) == s.t = "pk" /\ s.d[1] \in {2, 3, 4} /\ s.d[4]

compressedScriptSize(s) ==
  IF isPubKeyHash(s) \/ isScriptHash(s) THEN 21
  ELSE IF isPubKey(s) THEN 33
  ELSE serializeSizeVLQ(ScriptLen(s) + numSpecialScripts) + ScriptLen(s)

compressedTxOutSize(amount, s) ==
  serializeSizeVLQ(compressTxOutAmount(amount)) + compressedScriptSize(s)

Odd(s) == IF s.d[3] THEN 1 ELSE 0

putCompressedScript(s) ==
  IF isPubKeyHash(s) THEN <<<<1, 0>>, <<20, s.d>>>>
  ELSE IF isScriptHash(s) THEN <<<<1, 1>>, <<20, s.d>>>>
  ELSE IF isPubKey(s) /\ s.d[1] # 4 THEN <<<<1, s.d[1]>>, <<32, s.d[2]>>>>
  ELSE IF isPubKey(s) THEN <<<<1, 4 + Odd(s)>>, <<32, s.d[2]>>>>
  ELSE putVLQ(ScriptLen(s) + numSpecialScripts)
       \o (IF ScriptLen(s) = 0 THEN <<>> ELSE <<<<ScriptLen(s), s>>>>)

putCompressedTxOut(amount, s) == putVLQ(compressTxOutAmount(amount)) \o putCompressedScript(s)

(* The size that the number in front of a script stands for.               *)
decodeCompressedScriptSize(n) ==
  IF n \in {0, 1} THEN 21
  ELSE IF n \in 2..5 THEN 33
  ELSE n - numSpecialScripts + serializeSizeVLQ(n)

EmptyScript == [t |-> "raw", d |-> <<0, "">>]

(* A compressed key has the parity of y as its format, an uncompressed one *)
(* is parsed to find y again.                                              *)
decompressScript(n, d) ==
  IF n = 0 THEN [t |-> "pkh", d |-> d]
  ELSE IF n = 1 THEN [t |-> "sh", d |-> d]
  ELSE IF n \in {2, 3} THEN [t |-> "pk", d |-> <<n, d, n = 3, TRUE>>]
  ELSE IF n \in {4, 5} THEN [t |-> "pk", d |-> <<4, d, n - 2 = 3, TRUE>>]
  ELSE d

(* The cells of a compressed output, and the output.                       *)
TxOutCells(cells) == IF cells[2][2] = numSpecialScripts THEN 2 ELSE 3

decodeCompressedTxOut(cells) ==
  [amount |-> decompressTxOutAmount(cells[1][2]),
   script |-> IF TxOutCells(cells) = 2 THEN EmptyScript ELSE decompressScript(cells[2][2], cells[3][2])]
=============================================================================
