-------------------------------- MODULE Wire --------------------------------
(***************************************************************************)
(* The wire protocol (pkg/wire): the payload of every message, its framing *)
(* and the reader's side of a connection.                                  *)
(*                                                                         *)
(* A stream of bytes is a sequence of cells <<width, value>>: width bytes  *)
(* that were written, or are read, in one piece.  A message is its command *)
(* and the tuple of its fields in the order of the struct.  Writers return *)
(* cells, readers take and return a parse [err, in, out].                  *)
(*                                                                         *)
(* Witness encoding is commented out in the code.                          *)
(***************************************************************************)
EXTENDS Integers, Sequences, SequencesExt, TLC

CONSTANTS
  VarInt1, VarInt2, VarInt3,   \* 0xfd, 0x10000, 0x100000000
  MaxMessagePayload, MaxBlockPayload,
  MaxAddrPerMsg, MaxInvPerMsg, MaxBlockLocatorsPerMsg, MaxBlockHeadersPerMsg,
  MaxUserAgentLen, MaxFilterLoadFilterSize, MaxFilterLoadHashFuncs, MaxFilterAddDataSize,
  MaxCFHeadersPerMsg, maxCFHeadersLen, MaxCFilterDataSize,
  maxCountSetCancel, maxCountSetSubVer,
  TimeMod,                     \* 2^32: header timestamps are written as uint32
  Messages,                    \* a sequence of sets of messages to send
  Versions,                    \* protocol versions of the connection
  Corruptions                  \* what may happen to a payload before it is framed

ASSUME WireAssumption ==
  /\ {VarInt1, VarInt2, VarInt3, TimeMod} \subseteq Nat \ {0}
  /\ VarInt1 < VarInt2 /\ VarInt2 < VarInt3
  /\ {MaxBlockPayload, MaxMessagePayload} \subseteq Nat /\ MaxBlockPayload <= MaxMessagePayload
  /\ Corruptions \subseteq {"otherNet", "unknown", "checksum", "tooLarge", "lost", "short", "long",
                            "wideCount", "unlimited"}

MultipleAddressVersion == 209
NetAddressTimeVersion == 31402
BIP0031Version == 60000
BIP0035Version == 60002
BIP0037Version == 70001
RejectVersion == 70002
SendHeadersVersion == 70012
FeeFilterVersion == 70013

MaxVarIntPayload == 9
HashSize == 32
MessageHeaderSize == 24
MaxBlockHeaderPayload == 16 + 2 * HashSize
maxInvVectPayload == 4 + HashSize
maxTxInPerMessage == MaxMessagePayload \div (9 + HashSize) + 1
maxTxOutPerMessage == MaxMessagePayload \div 9 + 1
maxTxPerBlock == MaxBlockPayload \div 10 + 1
maxFlagsPerMerkleBlock == maxTxPerBlock \div 8

VARIABLES
  msg,      \* the message the other side writes
  pver,     \* the negotiated protocol version
  stream,   \* the bytes in flight
  later,    \* history: the bytes that were written behind the first message
  result    \* how far the message got, and what reading it returned: [at, err, msg]

vars == <<msg, pver, stream, later, result>>

-----------------------------------------------------------------------------
(* Elements.                                                               *)

Size(cells) ==
  LET upTo[i \in 0..Len(cells)] == IF i = 0 THEN 0 ELSE upTo[i - 1] + cells[i][1]
  IN upTo[Len(cells)]

VarIntSerializeSize(n) ==
  IF n < VarInt1 THEN 1 ELSE IF n < VarInt2 THEN 3 ELSE IF n < VarInt3 THEN 5 ELSE 9

writeElement(w, v) == <<<<w, v>>>>
writeElements(ws, vs) == [i \in 1..Len(ws) |-> <<ws[i], vs[i]>>]
WriteVarInt(n) == <<<<VarIntSerializeSize(n), n>>>>
WriteVarBytes(b) == WriteVarInt(Len(b)) \o (IF b = <<>> THEN <<>> ELSE <<<<Len(b), b>>>>)
WriteList(xs, Write(_)) == WriteVarInt(Len(xs)) \o FlattenSeq([i \in 1..Len(xs) |-> Write(xs[i])])

Parse(cells) == [err |-> "none", in |-> cells, out |-> <<>>]
Failed(p, e) == [p EXCEPT !.err = e]
Out(p, v) == [p EXCEPT !.out = Append(@, v)]
Got(p, i) == p.out[i]

(* readElement: a short read is an error of the reader; "misread" marks a  *)
(* read that does not end where a write ended.                             *)
readElement(p, w) ==
  IF p.err # "none" THEN p
  ELSE IF Size(p.in) < w THEN Failed(p, "EOF")
  ELSE IF Head(p.in)[1] # w THEN Failed(p, "misread")
  ELSE [p EXCEPT !.in = Tail(@), !.out = Append(@, Head(p.in)[2])]

readElements(p, ws) == FoldLeft(readElement, p, ws)

(* ReadVarInt: the discriminant tells the width; the encoding must be the  *)
(* shortest one.                                                           *)
ReadVarInt(p) ==
  IF p.err # "none" THEN p
  ELSE IF p.in = <<>> THEN Failed(p, "EOF")
  ELSE IF Head(p.in)[1] \notin {1, 3, 5, 9} THEN Failed(p, "misread")
  ELSE IF VarIntSerializeSize(Head(p.in)[2]) # Head(p.in)[1] THEN Failed(p, "MessageError")
  ELSE readElement(p, Head(p.in)[1])

(* A count that is checked against its limit before anything is allocated; *)
(* it is the last value of out.                                            *)
AtMost(q, max) == IF q.err = "none" /\ Last(q.out) > max THEN Failed(q, "MessageError") ELSE q
ReadCount(p, max) == AtMost(ReadVarInt(p), max)

(* ReadVarBytes and ReadVarString.                                         *)
CountedBytes(q) ==
  IF q.err # "none" THEN q
  ELSE IF Last(q.out) = 0 THEN [q EXCEPT !.out = [@ EXCEPT ![Len(@)] = <<>>]]
  ELSE readElement([q EXCEPT !.out = Front(@)], Last(q.out))
ReadVarBytes(p, max) == CountedBytes(ReadCount(p, max))

(* A reader whose values become one value of the caller.                   *)
AsOne(out, r) == [r EXCEPT !.out = Append(out, r.out)]
Nested(p, Read(_)) ==
  IF p.err # "none" THEN p ELSE AsOne(p.out, Read([p EXCEPT !.out = <<>>]))

(* count elements read one after the other.                                *)
Elements(q, Read(_)) ==
  IF q.err # "none" THEN q
  ELSE AsOne(Front(q.out), FoldLeft(LAMBDA s, i : Nested(s, Read), [q EXCEPT !.out = <<>>],
                                    [i \in 1..Last(q.out) |-> i]))
ReadList(p, max, Read(_)) == Elements(ReadCount(p, max), Read)

-----------------------------------------------------------------------------
(* Structures shared by messages.                                          *)

HeaderWidths == <<4, HashSize, HashSize, 4, 4, 4>>
writeBlockHeader(h) == writeElements(HeaderWidths, [h EXCEPT ![4] = @ % TimeMod])
readBlockHeader(p) == readElements(p, HeaderWidths)

writeInvVect(iv) == writeElements(<<4, HashSize>>, iv)
readInvVect(p) == readElements(p, <<4, HashSize>>)

(* A net address <<timestamp, services, ip, port>>; "nil" is written as    *)
(* the zero address.                                                       *)
maxNetAddressPayload(v) == IF v >= NetAddressTimeVersion THEN 30 ELSE 26
writeNetAddress(na, v, ts) ==
  (IF ts /\ v >= NetAddressTimeVersion THEN writeElement(4, na[1] % TimeMod) ELSE <<>>)
  \o writeElements(<<8, 16, 2>>, <<na[2], IF na[3] = "nil" THEN "zero" ELSE na[3], na[4]>>)
readNetAddress(p, v, ts) ==
  LET q == IF ts /\ v >= NetAddressTimeVersion THEN readElement(p, 4) ELSE Out(p, 0)
  IN readElements(q, <<8, 16, 2>>)

(* Transactions <<version, inputs, outputs, lock time>>, an input <<hash,  *)
(* index, script, sequence>>, an output <<value, script>>.                 *)
writeOutPoint(ti) == writeElements(<<HashSize, 4>>, ti)
readOutPoint(p) == readElements(p, <<HashSize, 4>>)
writeTxIn(ti) == writeOutPoint(ti) \o WriteVarBytes(ti[3]) \o writeElement(4, ti[4])
readScript(p) == ReadVarBytes(p, MaxMessagePayload)
readTxIn(p) == readElement(readScript(readOutPoint(p)), 4)
WriteTxOut(to) == writeElement(8, to[1]) \o WriteVarBytes(to[2])
readTxOut(p) == readScript(readElement(p, 8))

EncodeTx(tx) ==
  writeElement(4, tx[1]) \o WriteList(tx[2], writeTxIn) \o WriteList(tx[3], WriteTxOut)
  \o writeElement(4, tx[4])
DecodeTx(p) ==
  LET ins == ReadList(readElement(p, 4), maxTxInPerMessage, readTxIn)
      outs == ReadList(ins, maxTxOutPerMessage, readTxOut)
  IN readElement(outs, 4)

(* SerializeSize of inputs, outputs, transactions and blocks.              *)
TxInSize(ti) == 40 + VarIntSerializeSize(Len(ti[3])) + Len(ti[3])
TxOutSize(to) == 8 + VarIntSerializeSize(Len(to[2])) + Len(to[2])
SumOf(xs, Of(_)) == FoldLeft(LAMBDA n, x : n + Of(x), 0, xs)
baseSize(tx) ==
  8 + VarIntSerializeSize(Len(tx[2])) + VarIntSerializeSize(Len(tx[3]))
  + SumOf(tx[2], TxInSize) + SumOf(tx[3], TxOutSize)
BlockSize(b) == 80 + VarIntSerializeSize(Len(b[2])) + SumOf(b[2], baseSize)

(* Mutant: the count of outputs is taken to need one byte.                 *)
PkScriptLocsMutant(tx) ==
  LET start == 5 + VarIntSerializeSize(Len(tx[2])) + SumOf(tx[2], TxInSize)
  IN [i \in 1..Len(tx[3]) |->
        start + SumOf(SubSeq(tx[3], 1, i - 1), TxOutSize) + 8 + VarIntSerializeSize(Len(tx[3][i][2]))]

(* PkScriptLocs: where the public key scripts of a transaction begin.      *)
PkScriptLocs(tx) ==
  LET start == 4 + VarIntSerializeSize(Len(tx[2])) + VarIntSerializeSize(Len(tx[3]))
               + SumOf(tx[2], TxInSize)
  IN [i \in 1..Len(tx[3]) |->
        start + SumOf(SubSeq(tx[3], 1, i - 1), TxOutSize) + 8 + VarIntSerializeSize(Len(tx[3][i][2]))]

EncodeBlock(b) == writeBlockHeader(b[1]) \o WriteList(b[2], EncodeTx)
DecodeBlock(p) == ReadList(Nested(p, readBlockHeader), maxTxPerBlock, DecodeTx)

(* DeserializeTxLoc: start and length of every transaction of a block.     *)
DeserializeTxLoc(cells) ==
  LET fullLen == Size(cells)
      q == ReadCount(readBlockHeader(Parse(cells)), maxTxPerBlock)
      one(s, i) ==
        LET r == DecodeTx([s.p EXCEPT !.out = <<>>])
            start == fullLen - Size(s.p.in)
        IN [p |-> r, locs |-> Append(s.locs, <<start, (fullLen - Size(r.in)) - start>>)]
  IN FoldLeft(one, [p |-> q, locs |-> <<>>], [i \in 1..Last(q.out) |-> i])

-----------------------------------------------------------------------------
(* Messages.  Encode is what BtcEncode writes, Allowed its conditions.     *)

EncodeVersion(v, f) ==
  writeElements(<<4, 8, 8>>, f) \o writeNetAddress(f[4], v, FALSE) \o writeNetAddress(f[5], v, FALSE)
  \o writeElement(8, f[6]) \o WriteVarBytes(f[7]) \o writeElement(4, f[8])
  \o (IF v >= BIP0037Version THEN writeElement(1, 1 - f[9]) ELSE <<>>)

(* The fields of a version message after AddrYou are optional.             *)
Optional(p, default, Read(_)) == IF p.err = "none" /\ p.in = <<>> THEN Out(p, default) ELSE Read(p)

DecodeVersion(v, p0) ==
  LET addr(p) == readNetAddress(p, v, FALSE)
      you == Nested(readElements(p0, <<4, 8, 8>>), addr)
      me == Optional(you, <<0, 0, "zero", 0>>, LAMBDA p : Nested(p, addr))
      nonce == Optional(me, 0, LAMBDA p : readElement(p, 8))
      agent == Optional(nonce, <<>>, LAMBDA p : ReadVarBytes(p, MaxMessagePayload))
      checked(p) == IF p.err = "none" /\ Len(Got(p, 7)) > MaxUserAgentLen
                      THEN Failed(p, "MessageError") ELSE p
      last == Optional(checked(agent), 0, LAMBDA p : readElement(p, 4))
      relay(p) == IF p.err = "none" /\ p.in # <<>> THEN readElement(p, 1) ELSE Out(p, 1)
      disable(p) == IF p.err = "none" THEN [p EXCEPT !.out[9] = IF @ = 0 THEN 1 ELSE 0] ELSE p
  IN disable(relay(last))

EncodeAddr(v, f) == WriteList(f[1], LAMBDA na : writeNetAddress(na, v, TRUE))
AllowedAddr(v, f) == Len(f[1]) <= MaxAddrPerMsg /\ (v < MultipleAddressVersion => Len(f[1]) <= 1)
DecodeAddr(v, p) == ReadList(p, MaxAddrPerMsg, LAMBDA q : readNetAddress(q, v, TRUE))

(* inv, getdata and notfound.                                              *)
EncodeInv(f) == WriteList(f[1], writeInvVect)
DecodeInv(p) == ReadList(p, MaxInvPerMsg, readInvVect)
EncodeGetData(f) == WriteList(f[1], writeInvVect)
DecodeGetData(p) == ReadList(p, MaxInvPerMsg, readInvVect)
EncodeNotFound(f) == WriteList(f[1], writeInvVect)
DecodeNotFound(p) == ReadList(p, MaxInvPerMsg, readInvVect)

(* getblocks and getheaders: <<version, locator, stop>>.                   *)
EncodeGetBlocks(f) ==
  writeElement(4, f[1]) \o WriteList(f[2], LAMBDA h : writeElement(HashSize, h[1])) \o writeElement(HashSize, f[3])
DecodeGetBlocks(p) ==
  readElement(ReadList(readElement(p, 4), MaxBlockLocatorsPerMsg, LAMBDA q : readElement(q, HashSize)), HashSize)
EncodeGetHeaders(f) == EncodeGetBlocks(f)
DecodeGetHeaders(p) == DecodeGetBlocks(p)

(* A header is followed by a transaction count that must be zero.          *)
EncodeHeaders(f) == WriteList(f[1], LAMBDA h : writeBlockHeader(h) \o WriteVarInt(0))
DecodeHeaders(p) ==
  LET one(q) == LET r == ReadCount(readBlockHeader(q), 0)
                IN IF r.err = "none" THEN [r EXCEPT !.out = Front(@)] ELSE r
  IN ReadList(p, MaxBlockHeadersPerMsg, one)

(* ping carries a nonce after BIP0031 only; pong exists after it only.     *)
EncodePing(v, f) == IF v > BIP0031Version THEN writeElement(8, f[1]) ELSE <<>>
DecodePing(v, p) == IF v > BIP0031Version THEN readElement(p, 8) ELSE p
EncodePong(f) == writeElement(8, f[1])
DecodePong(p) == readElement(p, 8)

(* reject <<command, code, reason, hash>>: blocks and transactions have a  *)
(* hash.  The command is a sequence, of which the first element is its     *)
(* name.                                                                   *)
Rejectable == {"block", "tx"}
EncodeReject(f) ==
  WriteVarBytes(f[1]) \o writeElement(1, f[2]) \o WriteVarBytes(f[3])
  \o (IF Head(f[1]) \in Rejectable THEN writeElement(HashSize, f[4]) ELSE <<>>)
DecodeReject(p) ==
  LET hash(q) == IF q.err = "none" /\ Got(q, 1) # <<>> /\ Head(Got(q, 1)) \in Rejectable
                   THEN readElement(q, HashSize) ELSE Out(q, "none")
  IN hash(ReadVarBytes(readElement(ReadVarBytes(p, MaxMessagePayload), 1), MaxMessagePayload))

(* merkleblock <<header, count, hashes, flags>>.                           *)
EncodeMerkleBlock(f) ==
  writeBlockHeader(f[1]) \o writeElement(4, f[2])
  \o WriteList(f[3], LAMBDA h : writeElement(HashSize, h[1])) \o WriteVarBytes(f[4])
DecodeMerkleBlock(p) ==
  ReadVarBytes(ReadList(readElement(Nested(p, readBlockHeader), 4), maxTxPerBlock,
                        LAMBDA q : readElement(q, HashSize)), maxFlagsPerMerkleBlock)

(* Mutant: the number of hash functions is not checked.                    *)
DecodeFilterLoadMutant(p) == readElements(ReadVarBytes(p, MaxFilterLoadFilterSize), <<4, 4, 1>>)

(* filterload <<filter, hash functions, tweak, flags>>, filteradd <<data>>. *)
EncodeFilterLoad(f) == WriteVarBytes(f[1]) \o writeElements(<<4, 4, 1>>, Tail(f))
DecodeFilterLoad(p) ==
  LET q == readElements(ReadVarBytes(p, MaxFilterLoadFilterSize), <<4, 4, 1>>)
  IN IF q.err = "none" /\ Got(q, 2) > MaxFilterLoadHashFuncs THEN Failed(q, "MessageError") ELSE q
EncodeFilterAdd(f) == WriteVarBytes(f[1])
DecodeFilterAdd(p) == ReadVarBytes(p, MaxFilterAddDataSize)

EncodeFeeFilter(f) == writeElement(8, f[1])
DecodeFeeFilter(p) == readElement(p, 8)

(* Committed filters.                                                      *)
EncodeGetCFilters(f) == writeElements(<<1, 4, HashSize>>, f)
DecodeGetCFilters(p) == readElements(p, <<1, 4, HashSize>>)
EncodeGetCFHeaders(f) == writeElements(<<1, 4, HashSize>>, f)
DecodeGetCFHeaders(p) == readElements(p, <<1, 4, HashSize>>)
EncodeGetCFCheckpt(f) == writeElements(<<1, HashSize>>, f)
DecodeGetCFCheckpt(p) == readElements(p, <<1, HashSize>>)
EncodeCFilter(f) == writeElements(<<1, HashSize>>, f) \o WriteVarBytes(f[3])
DecodeCFilter(p) == ReadVarBytes(readElements(p, <<1, HashSize>>), MaxCFilterDataSize)
EncodeCFHeaders(f) ==
  writeElements(<<1, HashSize, HashSize>>, f) \o WriteList(f[4], LAMBDA h : writeElement(HashSize, h[1]))
DecodeCFHeaders(p) ==
  ReadList(readElements(p, <<1, HashSize, HashSize>>), MaxCFHeadersPerMsg, LAMBDA q : readElement(q, HashSize))
EncodeCFCheckpt(f) ==
  writeElements(<<1, HashSize>>, f) \o WriteList(f[3], LAMBDA h : writeElement(HashSize, h[1]))
DecodeCFCheckpt(p) ==
  ReadList(readElements(p, <<1, HashSize>>), maxCFHeadersLen, LAMBDA q : readElement(q, HashSize))

(* Alerts.  The payload of an alert is serialized into bytes of its own:   *)
(* the value of that cell is the sequence of cells.                        *)
AlertFixed == <<4, 8, 8, 4, 4>>
SerializeAlert(a) ==
  writeElements(AlertFixed, a) \o WriteList(a[6], LAMBDA id : writeElement(4, id[1]))
  \o writeElements(<<4, 4>>, <<a[7], a[8]>>) \o WriteList(a[9], LAMBDA s : WriteVarBytes(s[1]))
  \o writeElement(4, a[10]) \o WriteVarBytes(a[11]) \o WriteVarBytes(a[12]) \o WriteVarBytes(a[13])
AlertSerializes(a) == Len(a[6]) <= maxCountSetCancel /\ Len(a[9]) <= maxCountSetSubVer
DeserializeAlert(cells) ==
  LET string(p) == ReadVarBytes(p, MaxMessagePayload)
      ids == ReadList(readElements(Parse(cells), AlertFixed), maxCountSetCancel, LAMBDA p : readElement(p, 4))
      subs == ReadList(readElements(ids, <<4, 4>>), maxCountSetSubVer, string)
  IN string(string(string(readElement(subs, 4))))

(* alert <<serialized payload, signature, payload>>: a payload that cannot *)
(* be serialized is replaced by the serialized one, and one that cannot be *)
(* parsed is nil (<<>>).                                                   *)
AlertBytes(f) == IF f[3] # <<>> /\ AlertSerializes(f[3]) THEN SerializeAlert(f[3]) ELSE f[1]
EncodeAlert(f) ==
  LET bytes == AlertBytes(f)
      written == IF bytes = <<>> THEN <<>> ELSE <<<<Size(bytes), bytes>>>>
  IN WriteVarInt(Size(bytes)) \o written \o WriteVarBytes(f[2])
DecodeAlert(p) ==
  LET q == ReadVarBytes(ReadVarBytes(p, MaxMessagePayload), MaxMessagePayload)
      payload == DeserializeAlert(Got(q, 1))
  IN IF q.err # "none" THEN q ELSE Out(q, IF payload.err = "none" THEN payload.out ELSE <<>>)

-----------------------------------------------------------------------------
Empty == {"verack", "getaddr", "mempool", "filterclear", "sendheaders"}

(* makeEmptyMessage: the commands that are known.                          *)
Commands == Empty \cup
  {"version", "addr", "getblocks", "block", "inv", "getdata", "notfound", "tx", "ping", "pong", "getheaders",
   "headers", "alert", "filteradd", "filterload", "merkleblock", "reject", "feefilter", "getcfilters",
   "getcfheaders", "getcfcheckpt", "cfilter", "cfheaders", "cfcheckpt"}

(* The version from which a message is valid, for encoding and decoding.   *)
Since ==
  [c \in Commands |->
     CASE c = "pong" -> BIP0031Version + 1
       [] c = "mempool" -> BIP0035Version
       [] c \in {"filteradd", "filterclear", "filterload", "merkleblock"} -> BIP0037Version
       [] c = "reject" -> RejectVersion
       [] c = "sendheaders" -> SendHeadersVersion
       [] c = "feefilter" -> FeeFilterVersion
       [] OTHER -> 0]

(* The other conditions of BtcEncode.                                      *)
EncodeAllowed(c, v, f) ==
  /\ v >= Since[c]
  /\ CASE c = "version" -> Len(f[7]) <= MaxUserAgentLen
       [] c = "addr" -> AllowedAddr(v, f)
       [] c \in {"inv", "getdata", "notfound"} -> Len(f[1]) <= MaxInvPerMsg
       [] c \in {"getblocks", "getheaders"} -> Len(f[2]) <= MaxBlockLocatorsPerMsg
       [] c = "headers" -> Len(f[1]) <= MaxBlockHeadersPerMsg
       [] c = "merkleblock" -> Len(f[3]) <= maxTxPerBlock /\ Len(f[4]) <= maxFlagsPerMerkleBlock
       [] c = "filterload" -> Len(f[1]) <= MaxFilterLoadFilterSize /\ f[2] <= MaxFilterLoadHashFuncs
       [] c = "filteradd" -> Len(f[1]) <= MaxFilterAddDataSize
       [] c = "cfilter" -> Len(f[3]) <= MaxCFilterDataSize
       [] c = "cfheaders" -> Len(f[4]) <= MaxCFHeadersPerMsg
       [] c = "alert" -> Size(AlertBytes(f)) > 0
       [] OTHER -> TRUE

BtcEncode(c, v, f) ==
  CASE c = "version" -> EncodeVersion(v, f)      [] c = "addr" -> EncodeAddr(v, f)
    [] c = "getblocks" -> EncodeGetBlocks(f)     [] c = "getheaders" -> EncodeGetHeaders(f)
    [] c = "block" -> EncodeBlock(f)             [] c = "tx" -> EncodeTx(f)
    [] c = "inv" -> EncodeInv(f)                 [] c = "getdata" -> EncodeGetData(f)
    [] c = "notfound" -> EncodeNotFound(f)       [] c = "headers" -> EncodeHeaders(f)
    [] c = "ping" -> EncodePing(v, f)            [] c = "pong" -> EncodePong(f)
    [] c = "alert" -> EncodeAlert(f)             [] c = "reject" -> EncodeReject(f)
    [] c = "filteradd" -> EncodeFilterAdd(f)     [] c = "filterload" -> EncodeFilterLoad(f)
    [] c = "merkleblock" -> EncodeMerkleBlock(f) [] c = "feefilter" -> EncodeFeeFilter(f)
    [] c = "getcfilters" -> EncodeGetCFilters(f) [] c = "getcfheaders" -> EncodeGetCFHeaders(f)
    [] c = "getcfcheckpt" -> EncodeGetCFCheckpt(f) [] c = "cfilter" -> EncodeCFilter(f)
    [] c = "cfheaders" -> EncodeCFHeaders(f)     [] c = "cfcheckpt" -> EncodeCFCheckpt(f)
    [] c \in Empty -> <<>>

Decode(c, v, p) ==
  CASE c = "version" -> DecodeVersion(v, p)      [] c = "addr" -> DecodeAddr(v, p)
    [] c = "getblocks" -> DecodeGetBlocks(p)     [] c = "getheaders" -> DecodeGetHeaders(p)
    [] c = "block" -> DecodeBlock(p)             [] c = "tx" -> DecodeTx(p)
    [] c = "inv" -> DecodeInv(p)                 [] c = "getdata" -> DecodeGetData(p)
    [] c = "notfound" -> DecodeNotFound(p)       [] c = "headers" -> DecodeHeaders(p)
    [] c = "ping" -> DecodePing(v, p)            [] c = "pong" -> DecodePong(p)
    [] c = "alert" -> DecodeAlert(p)             [] c = "reject" -> DecodeReject(p)
    [] c = "filteradd" -> DecodeFilterAdd(p)     [] c = "filterload" -> DecodeFilterLoad(p)
    [] c = "merkleblock" -> DecodeMerkleBlock(p) [] c = "feefilter" -> DecodeFeeFilter(p)
    [] c = "getcfilters" -> DecodeGetCFilters(p) [] c = "getcfheaders" -> DecodeGetCFHeaders(p)
    [] c = "getcfcheckpt" -> DecodeGetCFCheckpt(p) [] c = "cfilter" -> DecodeCFilter(p)
    [] c = "cfheaders" -> DecodeCFHeaders(p)     [] c = "cfcheckpt" -> DecodeCFCheckpt(p)
    [] c \in Empty -> p

BtcDecode(c, v, cells) ==
  IF v < Since[c] THEN Failed(Parse(cells), "MessageError") ELSE Decode(c, v, Parse(cells))

(* MaxPayloadLength of each message.                                       *)
MaxPayloadLength(c, v) ==
  CASE c = "version" -> 33 + 2 * maxNetAddressPayload(v) + MaxVarIntPayload + MaxUserAgentLen
    [] c = "addr" -> MaxVarIntPayload
         + (IF v < MultipleAddressVersion THEN 1 ELSE MaxAddrPerMsg) * maxNetAddressPayload(v)
    [] c \in {"getblocks", "getheaders"} -> 4 + MaxVarIntPayload + MaxBlockLocatorsPerMsg * HashSize + HashSize
    [] c \in {"block", "tx", "merkleblock"} -> MaxBlockPayload
    [] c \in {"inv", "getdata", "notfound"} -> MaxVarIntPayload + MaxInvPerMsg * maxInvVectPayload
    [] c = "headers" -> MaxVarIntPayload + (MaxBlockHeaderPayload + 1) * MaxBlockHeadersPerMsg
    [] c \in {"ping", "pong"} -> IF v > BIP0031Version THEN 8 ELSE 0
    [] c = "alert" -> MaxMessagePayload
    [] c = "cfcheckpt" -> MaxMessagePayload
    [] c = "reject" -> IF v >= RejectVersion THEN MaxMessagePayload ELSE 0
    [] c = "filteradd" -> VarIntSerializeSize(MaxFilterAddDataSize) + MaxFilterAddDataSize
    [] c = "filterload" -> VarIntSerializeSize(MaxFilterLoadFilterSize) + MaxFilterLoadFilterSize + 9
    [] c = "feefilter" -> 8
    [] c \in {"getcfilters", "getcfheaders"} -> 1 + 4 + HashSize
    [] c = "getcfcheckpt" -> 1 + HashSize
    [] c = "cfilter" -> VarIntSerializeSize(MaxCFilterDataSize) + MaxCFilterDataSize + HashSize + 1
    [] c = "cfheaders" -> 1 + HashSize + HashSize + MaxVarIntPayload + HashSize * MaxCFHeadersPerMsg
    [] c \in Empty -> 0

-----------------------------------------------------------------------------
(* Framing.  The header is one cell of 24 bytes; the checksum of a payload *)
(* is the payload itself.                                                  *)
Header(magic, c, n, sum) == <<<<MessageHeaderSize, [magic |-> magic, command |-> c, length |-> n, sum |-> sum]>>>>

(* What WriteMessageWithEncodingN accepts.                                 *)
Writable(c, v, f) ==
  /\ EncodeAllowed(c, v, f)
  /\ Size(BtcEncode(c, v, f)) <= MaxMessagePayload
  /\ Size(BtcEncode(c, v, f)) <= MaxPayloadLength(c, v)

WriteMessage(c, v, f) ==
  LET payload == BtcEncode(c, v, f) IN Header("net", c, Size(payload), payload) \o payload

(* The first n bytes of a stream, and what is left: a cell may be cut.     *)
TakeCell(s, c) ==
  IF s.n = 0 THEN [s EXCEPT !.rest = Append(@, c)]
  ELSE IF c[1] <= s.n THEN [s EXCEPT !.n = @ - c[1], !.taken = Append(@, c)]
  ELSE [n |-> 0, taken |-> Append(s.taken, <<s.n, "cut">>), rest |-> Append(s.rest, <<c[1] - s.n, "cut">>)]
TakeBytes(cells, n) ==
  LET after[i \in 0..Len(cells)] ==
        IF i = 0 THEN [n |-> n, taken |-> <<>>, rest |-> <<>>] ELSE TakeCell(after[i - 1], cells[i])
  IN after[Len(cells)]

(* Mutant: the payload of an unknown command is not skipped.               *)
discardInputMutant(cells, n) == cells

discardInput(cells, n) == TakeBytes(cells, n).rest

Refuse(e, rest) == [err |-> e, msg |-> <<>>, rest |-> rest]
Delivered(parse, rest) ==
  IF parse.err # "none" THEN Refuse(parse.err, rest) ELSE [err |-> "none", msg |-> parse.out, rest |-> rest]

(* The part of ReadMessageWithEncodingN behind the checks of the header.   *)
ReadPayload(hdr, v, taken) ==
  IF taken.n > 0 THEN Refuse("EOF", <<>>)
  ELSE IF hdr.sum # taken.taken THEN Refuse("MessageError", taken.rest)
  ELSE Delivered(BtcDecode(hdr.command, v, taken.taken), taken.rest)

(* ReadMessageWithEncodingN: the error, the message and the stream behind  *)
(* what was read.                                                          *)
ReadMessage(cells, v) ==
  LET hdr == Head(cells)[2]
      behind == Tail(cells)
      c == hdr.command
  IN IF Size(cells) < MessageHeaderSize THEN Refuse("EOF", <<>>)
     ELSE IF hdr.length > MaxMessagePayload THEN Refuse("too large", behind)
     ELSE IF hdr.magic # "net" THEN Refuse("MessageError", discardInput(behind, hdr.length))
     ELSE IF c \notin Commands THEN Refuse("MessageError", discardInput(behind, hdr.length))
     ELSE IF hdr.length > MaxPayloadLength(c, v) THEN Refuse("MessageError", discardInput(behind, hdr.length))
     ELSE ReadPayload(hdr, v, TakeBytes(behind, hdr.length))

-----------------------------------------------------------------------------
(* The messages that begin with a count.                                   *)
CountFirst == {"addr", "inv", "getdata", "notfound", "headers", "filteradd", "filterload", "reject", "alert"}

(* What reaches the reader when a peer frames something else than a        *)
(* message that WriteMessage accepts.                                      *)
Corrupt(c, v, f, how) ==
  LET payload == BtcEncode(c, v, f)
      n == Size(payload)
      framed(p) == Header("net", c, Size(p), p) \o p
  IN CASE how = "otherNet" -> Header("other", c, n, payload) \o payload
       [] how = "unknown" -> Header("net", "unknown", n, payload) \o payload
       [] how = "checksum" -> Header("net", c, n, Append(payload, <<1, 0>>)) \o payload
       [] how = "tooLarge" -> Header("net", c, MaxMessagePayload + 1, payload) \o payload
       [] how = "lost" -> Header("net", c, n + 1, payload) \o payload
       [] how = "short" -> framed(IF payload = <<>> THEN payload ELSE Front(payload))
       [] how = "long" -> framed(Append(payload, <<1, 0>>))
       [] how = "wideCount" -> framed(IF c \in CountFirst THEN [payload EXCEPT ![1] = <<3, @[2]>>] ELSE payload)
       [] how = "unlimited" -> framed(payload)

VerAck == Header("net", "verack", 0, <<>>)

(* What an encoder writes: elements of one byte or more.                   *)
IsCells(p) ==
  Len(p) \in Nat /\ p = [i \in 1..Len(p) |-> p[i]] /\ \A i \in 1..Len(p) : p[i][1] \in Nat \ {0}

ASSUME EncodeAssumption ==
  \A i \in DOMAIN Messages : \A m \in Messages[i] : \A v \in Versions : IsCells(BtcEncode(m.cmd, v, m.f))

Init ==
  /\ \E i \in DOMAIN Messages : msg \in Messages[i]
  /\ pver \in Versions
  /\ stream = <<>> /\ later = <<>>
  /\ result = [at |-> "idle", err |-> "none", msg |-> <<>>]

(* WriteMessage, followed by another message on the same connection.       *)
Send ==
  /\ result.at = "idle" /\ stream = <<>>
  /\ Writable(msg.cmd, pver, msg.f)
  /\ later' = VerAck
  /\ stream' = WriteMessage(msg.cmd, pver, msg.f) \o later'
  /\ result' = [result EXCEPT !.at = "sent"]
  /\ UNCHANGED <<msg, pver>>

SendCorrupt ==
  /\ result.at = "idle" /\ stream = <<>>
  /\ \E how \in Corruptions :
       /\ later' = IF how = "lost" THEN <<>> ELSE VerAck
       /\ stream' = Corrupt(msg.cmd, pver, msg.f, how) \o later'
  /\ result' = [result EXCEPT !.at = "corrupt"]
  /\ UNCHANGED <<msg, pver>>

Read ==
  /\ stream # <<>> /\ result.at \in {"sent", "corrupt"}
  /\ \E r \in {ReadMessage(stream, pver)} :
        /\ stream' = r.rest
        /\ result' = [at |-> IF result.at = "sent" THEN "sentRead" ELSE "corruptRead", err |-> r.err, msg |-> r.msg]
  /\ UNCHANGED <<msg, pver, later>>

Next == Send \/ SendCorrupt \/ Read

Spec == Init /\ [][Next]_vars

-----------------------------------------------------------------------------
(* What WriteMessage accepts, ReadMessage accepts under the same protocol  *)
(* version, and the message it returns is encoded to the same bytes: the   *)
(* limits and version gates of the two sides agree.  (cfcheckpt alone has  *)
(* a limit for decoding only.)                                             *)
WrittenIsRead ==
  (result.at = "sent" /\ ~(msg.cmd = "cfcheckpt" /\ Len(msg.f[3]) > maxCFHeadersLen)) =>
    \A accepted \in {ReadMessage(stream, pver)} :
       /\ accepted.err = "none"
       /\ BtcEncode(msg.cmd, pver, accepted.msg) = BtcEncode(msg.cmd, pver, msg.f)

(* A refused message leaves the stream at the next header, whatever was    *)
(* wrong with it, unless the connection is over or the header announced    *)
(* more than MaxMessagePayload, which is not skipped.                      *)
RefusedIsSkipped ==
  result.at \in {"sentRead", "corruptRead"} /\ result.err \notin {"EOF", "too large"} => stream = later

(* What ReadMessage accepts, whoever framed it, could have been written:   *)
(* it fits the limits of the writer, and its encoding is stable.  (Only an *)
(* alert without a payload is read and never written.)                     *)
AcceptedIsWritable ==
  LET again == BtcEncode(msg.cmd, pver, result.msg)
  IN result.at = "corruptRead" /\ result.err = "none" /\ ~(msg.cmd = "alert" /\ result.msg[1] = <<>>) =>
       /\ Writable(msg.cmd, pver, result.msg)
       /\ BtcEncode(msg.cmd, pver, BtcDecode(msg.cmd, pver, again).out) = again

(* The two directions agree: nothing is written that cannot be read, and   *)
(* nothing is read that cannot be passed on.                               *)
SidesAgree == WrittenIsRead /\ AcceptedIsWritable

(* SerializeSize, PkScriptLocs and DeserializeTxLoc, which are computed    *)
(* from the fields, agree with the bytes that BtcEncode writes: the files  *)
(* of the block database are read at these offsets.                        *)
OffsetsMatchBytes ==
  LET tx == msg.f
      before(k) == writeElement(4, tx[1]) \o WriteList(tx[2], writeTxIn) \o WriteVarInt(Len(tx[3]))
                   \o FlattenSeq([i \in 1..(k - 1) |-> WriteTxOut(tx[3][i])])
                   \o writeElement(8, tx[3][k][1]) \o WriteVarInt(Len(tx[3][k][2]))
      block == EncodeBlock(msg.f)
      locs == DeserializeTxLoc(block).locs
  IN /\ (msg.cmd = "tx" /\ result.at = "sent") =>
          /\ Size(EncodeTx(tx)) = baseSize(tx)
          /\ \A k \in 1..Len(tx[3]) : PkScriptLocs(tx)[k] = Size(before(k))
     /\ (msg.cmd = "block" /\ result.at = "sent") =>
          /\ Size(block) = BlockSize(msg.f)
          /\ Len(locs) = Len(msg.f[2])
          /\ \A k \in 1..Len(locs) :
               TakeBytes(TakeBytes(block, locs[k][1]).rest, locs[k][2]).taken = EncodeTx(msg.f[2][k])
=============================================================================
