----------------------------- MODULE Signatures -----------------------------
(***************************************************************************)
(* The encoding of signatures: Serialize and the parsers of pkg/ecc        *)
(* (signature.go) and the strict check of the script engine                *)
(* (Engine.checkSignatureEncoding).  An encoding is a sequence of bytes;   *)
(* the order of the curve is a parameter, the curve itself is not modelled. *)
(***************************************************************************)
EXTENDS Integers, Sequences, SequencesExt

CONSTANT CurveOrder   \* S256().N

ASSUME SignaturesAssumption == CurveOrder \in Nat /\ CurveOrder > 2

halfOrder == CurveOrder \div 2

(* big.Int.Bytes and SetBytes: big endian.                                 *)
BigEndian[n \in Nat] == IF n = 0 THEN <<>> ELSE Append(BigEndian[n \div 256], n % 256)
SetBytes(b) == FoldLeft(LAMBDA n, x : n * 256 + x, 0, b)

canonicalizeInt(val) ==
  LET b == IF val = 0 THEN <<0>> ELSE BigEndian[val]
  IN IF Head(b) >= 128 THEN <<0>> \o b ELSE b

(* canonicalPadding, without its errors.                                   *)
canonicalPadding(b) == b[1] < 128 /\ (Len(b) > 1 /\ b[1] = 0 => b[2] >= 128)

Serialize(r, s) ==
  LET rb == canonicalizeInt(r)
      sb == canonicalizeInt(IF s > halfOrder THEN CurveOrder - s ELSE s)
  IN <<48, 4 + Len(rb) + Len(sb), 2, Len(rb)>> \o rb \o <<2, Len(sb)>> \o sb

(* signRFC6979: what the nonce gives is reduced, S is brought under half   *)
(* of the order, and zeros are refused.                                    *)
signRFC6979(x, e) ==
  LET r == IF x > CurveOrder THEN x - CurveOrder ELSE x
      s == e % CurveOrder
      low == IF s > halfOrder THEN CurveOrder - s ELSE s
  IN IF r = 0 \/ low = 0 THEN {} ELSE {<<r, low>>}

minSigLen == 8
maxSigLen == 72

(* parseSig: trailing bytes are cut off, and integers may be padded or     *)
(* negative unless der.  siglen + 2 is a byte and wraps.                   *)
parseSig(str, der) ==
  LET end == (str[2] + 2) % 256
      sig == SubSeq(str, 1, end)
      rLen == sig[4]
      r == SubSeq(sig, 5, 4 + rLen)
      sLen == sig[6 + rLen]
      s == SubSeq(sig, 7 + rLen, 6 + rLen + sLen)
  IN /\ Len(str) >= minSigLen
     /\ str[1] = 48
     /\ end <= Len(str) /\ end >= minSigLen
     /\ sig[3] = 2
     /\ rLen > 0 /\ rLen <= Len(sig) - 4 - 3
     /\ der => canonicalPadding(r)
     /\ sig[5 + rLen] = 2
     /\ sLen > 0 /\ sLen <= Len(sig) - (6 + rLen)
     /\ der => canonicalPadding(s)
     /\ 6 + rLen + sLen = Len(sig)
     /\ SetBytes(r) \in 1..(CurveOrder - 1)
     /\ SetBytes(s) \in 1..(CurveOrder - 1)

(* Mutant: one byte integers may be negative.                              *)
integerErrorMutant(sig, type, len, off) ==
  IF sig[type + 1] # 2 THEN "ErrSigInvalidIntID"
  ELSE IF len = 0 THEN "ErrSigZeroLen"
  ELSE IF len > 1 /\ sig[off + 1] >= 128 THEN "ErrSigNegative"
  ELSE IF len > 1 /\ sig[off + 1] = 0 /\ sig[off + 2] < 128 THEN "ErrSigTooMuchPadding"
  ELSE "none"

(* The checks of R and S: the offsets are those of the code.               *)
integerError(sig, type, len, off) ==
  IF sig[type + 1] # 2 THEN "ErrSigInvalidIntID"
  ELSE IF len = 0 THEN "ErrSigZeroLen"
  ELSE IF sig[off + 1] >= 128 THEN "ErrSigNegative"
  ELSE IF len > 1 /\ sig[off + 1] = 0 /\ sig[off + 2] < 128 THEN "ErrSigTooMuchPadding"
  ELSE "none"

(* checkSignatureEncoding once one of its flags is set.                    *)
checkSignatureEncoding(sig, lowS) ==
  LET rOffset == 4
      rLen == sig[4]
      sTypeOffset == rOffset + rLen
      sLenOffset == sTypeOffset + 1
      sOffset == sLenOffset + 1
      sLen == sig[sLenOffset + 1]
      rError == integerError(sig, 2, rLen, rOffset)
      sError == integerError(sig, sTypeOffset, sLen, sOffset)
  IN IF Len(sig) < minSigLen THEN "ErrSigTooShort"
     ELSE IF Len(sig) > maxSigLen THEN "ErrSigTooLong"
     ELSE IF sig[1] # 48 THEN "ErrSigInvalidSeqID"
     ELSE IF sig[2] # Len(sig) - 2 THEN "ErrSigInvalidDataLen"
     ELSE IF sTypeOffset >= Len(sig) THEN "ErrSigMissingSTypeID"
     ELSE IF sLenOffset >= Len(sig) THEN "ErrSigMissingSLen"
     ELSE IF sOffset + sLen # Len(sig) THEN "ErrSigInvalidSLen"
     ELSE IF rError # "none" THEN rError
     ELSE IF sError # "none" THEN sError
     ELSE IF lowS /\ SetBytes(SubSeq(sig, sOffset + 1, Len(sig))) > halfOrder THEN "ErrSigHighS"
     ELSE "none"

-----------------------------------------------------------------------------
(* The strict form of two integers, written without the code's offsets.    *)
Strict(r, s) ==
  LET int(b) == <<2, Len(b)>> \o b
      body == int(r) \o int(s)
  IN <<48, Len(body)>> \o body

(* A byte string has one strict form at most: it is the shortest form of   *)
(* two integers that are not negative.  What the code signs is strict.     *)
IsStrict(sig) ==
  \E n \in 1..(Len(sig) - 5) :
    LET r == SubSeq(sig, 5, 4 + n)
        s == SubSeq(sig, 7 + n, Len(sig))
    IN /\ Len(sig) \in minSigLen..maxSigLen /\ s # <<>>
       /\ sig = Strict(r, s)
       /\ r = canonicalizeInt(SetBytes(r)) /\ s = canonicalizeInt(SetBytes(s))

(* The engine's strict check, which walks the bytes by offsets, accepts    *)
(* exactly the shortest encodings; with low S only those that Serialize    *)
(* gives; and every strict encoding of two numbers below the order is      *)
(* parsed by both parsers.                                                 *)
EncodingIsCanonical(sig) ==
  LET r == SubSeq(sig, 5, 4 + sig[4])
      s == SubSeq(sig, 7 + sig[4], Len(sig))
      inRange == {SetBytes(r), SetBytes(s)} \subseteq 1..(CurveOrder - 1)
      accepted == checkSignatureEncoding(sig, FALSE) = "none"
  IN /\ accepted = IsStrict(sig)
     /\ accepted => /\ inRange = parseSig(sig, TRUE)
                    /\ inRange = parseSig(sig, FALSE)
     /\ (accepted /\ inRange) =>
          (checkSignatureEncoding(sig, TRUE) = "none") = (sig = Serialize(SetBytes(r), SetBytes(s)))
     /\ (Len(sig) >= 2 /\ sig[2] = Len(sig) - 2 /\ parseSig(sig, TRUE)) => accepted
=============================================================================
