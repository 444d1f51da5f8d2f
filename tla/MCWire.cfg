CONSTANTS
  VarInt1 = 3
  VarInt2 = 300
  VarInt3 = 400
  MaxMessagePayload = 700
  MaxBlockPayload = 600
  MaxAddrPerMsg = 3
  MaxInvPerMsg = 3
  MaxBlockLocatorsPerMsg = 3
  MaxBlockHeadersPerMsg = 3
  MaxUserAgentLen = 3
  MaxFilterLoadFilterSize = 3
  MaxFilterLoadHashFuncs = 2
  MaxFilterAddDataSize = 3
  MaxCFHeadersPerMsg = 3
  maxCFHeadersLen = 3
  MaxCFilterDataSize = 3
  maxCountSetCancel = 2
  maxCountSetSubVer = 2
  TimeMod = 8
  Messages <- MCMessages
  Versions <- MCVersions
  Corruptions = {"otherNet", "unknown", "checksum", "tooLarge", "lost", "short", "long", "wideCount", "unlimited"}
SPECIFICATION Spec
INVARIANTS SidesAgree RefusedIsSkipped OffsetsMatchBytes
CHECK_DEADLOCK FALSE
