------------------------------ MODULE KeyStore ------------------------------
(***************************************************************************)
(* The legacy key store (pkg/util/legacy/keystore): a chain of key pairs   *)
(* derived from a root, imported keys and scripts, an encryption secret    *)
(* that is in memory only while the store is unlocked, the recently seen   *)
(* blocks, and a file that WriteIfDirty replaces atomically and OpenDir    *)
(* reads back.  PrivKey runs without the store's mutex, so every access of *)
(* it and of unlock to what Lock clears is a step of its own; WriteIfDirty *)
(* releases the read lock before it takes the write lock to clear the      *)
(* dirty mark, so it is two.  Every other method holds the mutex from      *)
(* start to end and is one action.                                         *)
(*                                                                         *)
(* The curve is a parameter: what the store needs of it is that multiplying *)
(* a private key by a factor multiplies its public key by the same factor. *)
(* A cipher text is the pair of the key and the secret it was made with.   *)
(***************************************************************************)
EXTENDS Integers, FiniteSets, SequencesExt

CONSTANTS PrivKeys,     \* the private keys of the curve
          rootKey,      \* the private key New makes at random
          ScalarBaseMult(_),   \* the curve: public key of a private key
          ScalarMult(_, _),    \* the curve: a factor times a public key
          MulMod(_, _),        \* a factor times a private key, mod N
          ChainXor(_),         \* double hash of a public key xor chain code
          Passphrases,  \* passphrases, positive numbers; the first is New's
          MaxChain,     \* bound: longest address chain
          MaxHeight,    \* bound: highest block
          RecentMax,    \* number of recent hashes kept (20 in the code)
          ImportKeys,   \* private keys that may be imported
          Scripts,      \* scripts that may be imported
          FileVersion,  \* of the file the store comes from; <<>>: from New
          MaxOps,       \* bound: key operations in one behaviour
          MaxSyncOps    \* bound: synchronisation operations in one behaviour

ASSUME KeyStoreConstants ==
  /\ Passphrases \subseteq Nat \ {0} /\ 1 \in Passphrases
  /\ {MaxChain, MaxHeight, RecentMax, MaxOps, MaxSyncOps} \subseteq Nat
  /\ RecentMax > 0
  /\ FileVersion # <<>> => FileVersion \in [1 .. 4 -> Nat]

VARIABLES store,    \* the Store in memory
          dirty,    \* Store.dirty
          writer,   \* where WriteIfDirty is: "idle" or "renamed"
          file,     \* contents of the key store file, or NoFile
          inForce,  \* the passphrase the user believes is the store's
          fileInForce, \* the same, when the file was written
          call,     \* a PrivKey call in progress
          got,      \* the key PrivKey has returned in the last step
          ops, syncOps

vars == <<store, dirty, writer, file, inForce, fileInForce, call, got,
          ops, syncOps>>

rootKeyChainIdx == -1
importedKeyChainIdx == -2
NoFile == <<>>
NoKey == 0
NoCipher == <<0, 0>>
Idle == [at |-> "idle"]
PartlyZeroed == -1    \* a secret or clear text read while or after it is zeroed

-----------------------------------------------------------------------------
(* Key derivation.                                                        *)
Pub(k) == ScalarBaseMult(k)

chainedPrivKey(k, pub) == MulMod(ChainXor(pub), k)

chainedPubKey(pub) == ScalarMult(ChainXor(pub), pub)

rootAddr == Pub(rootKey)

(* The chain of public keys from the root on, one place past every index   *)
(* that the bounds let an extension by two addresses reach.                *)
ChainKeys == 0 .. (MaxChain + 3)
chainKey[n \in ChainKeys] ==
  IF n = 0 THEN rootAddr ELSE chainedPubKey(chainKey[n - 1])

(* A private key has one public key and the chain of a factor is the same  *)
(* on both sides; a decryption with a wrong secret is nobody's key; scripts *)
(* hash to no address of a key; and the chain does not come back to a key  *)
(* it has passed.                                                          *)
ASSUME KeyDerivation ==
  /\ rootKey \in PrivKeys /\ ImportKeys \subseteq PrivKeys
  /\ NoKey \notin PrivKeys
  /\ \A k, l \in PrivKeys \cup {NoKey} : Pub(k) = Pub(l) => k = l
  /\ \A k \in PrivKeys :
       /\ chainedPrivKey(k, Pub(k)) \in PrivKeys
       /\ Pub(chainedPrivKey(k, Pub(k))) = chainedPubKey(Pub(k))
       /\ Pub(k) \notin Scripts
  /\ \A m, n \in ChainKeys : chainKey[m] = chainKey[n] => m = n

(* The key derivation function is injective on the passphrases.           *)
kdf(pass) == pass

Encrypt(k, key) == <<k, key>>
Decrypt(c, key) == IF c[2] = key THEN c[1] ELSE NoKey

(* Versions.  LT holds as soon as one component is smaller.               *)
Vers20LastBlocks == <<1, 36, 0, 0>>
VersUnsetNeedsPrivkeyFlag == <<1, 36, 1, 0>>
VersCurrent == VersUnsetNeedsPrivkeyFlag
LT(v, w) == \E i \in 1 .. 4 : v[i] < w[i]

Ok(s) == [e |-> "nil", s |-> s]
Err(e, s) == [e |-> e, s |-> s]

-----------------------------------------------------------------------------
(* Addresses.                                                             *)
newBtcAddressWithoutPrivkey(h) ==
  [kind |-> "key", idx |-> 0, hasPriv |-> FALSE, enc |-> FALSE,
   createNext |-> TRUE, hasPub |-> TRUE, change |-> FALSE, unsynced |-> FALSE,
   partial |-> FALSE, psh |-> 0, first |-> h, priv |-> NoCipher, ct |-> NoKey]

newBtcAddress(k, h) ==
  [newBtcAddressWithoutPrivkey(h) EXCEPT
     !.createNext = FALSE, !.hasPriv = TRUE, !.ct = k]

(* A script address: hasPub is the bit scriptFlags.hasScript shares.      *)
newScriptAddress(h) ==
  [newBtcAddressWithoutPrivkey(h) EXCEPT
     !.kind = "script", !.idx = importedKeyChainIdx, !.createNext = FALSE]

encrypt(a, key) ==
  CASE a.enc -> Err("ErrAlreadyEncrypted", a)
    [] ~a.enc /\ a.ct = NoKey -> Err("invalid clear text private key", a)
    [] OTHER -> Ok([a EXCEPT !.priv = Encrypt(a.ct, key),
                             !.hasPriv = TRUE, !.enc = TRUE])

lock(a) == IF a.enc THEN [a EXCEPT !.ct = NoKey] ELSE a

(* unlock: the clear key is compared with a saved one, or with the public  *)
(* key, and saved.                                                         *)
unlock(a, pub, key) ==
  LET k == Decrypt(a.priv, key) IN
  CASE ~a.enc -> Err("unencrypted address", a)
    [] a.enc /\ key = NoKey -> Err("invalid key size", a)
    [] a.enc /\ key # NoKey /\ a.ct # NoKey /\ a.ct # k
         -> Err("ErrWrongPassphrase", a)
    [] a.enc /\ key # NoKey /\ a.ct = NoKey /\ Pub(k) # pub
         -> Err("ErrWrongPassphrase", a)
    [] OTHER -> Ok([a EXCEPT !.ct = k])

changeEncryptionKey(a, pub, oldkey, newkey) ==
  LET u == unlock(a, pub, oldkey) IN
  CASE ~a.hasPriv -> Err("no private key", a)
    [] a.hasPriv /\ u.e # "nil" -> Err(u.e, a)
    [] OTHER -> Ok([u.s EXCEPT !.priv = Encrypt(u.s.ct, newkey)])

setSyncStatus(a, status, h) ==
  [a EXCEPT !.unsynced = status # "full", !.partial = status = "partial",
            !.psh = IF status = "partial" THEN h ELSE 0]

(* SyncStatus as the height up to which the address is synced, or -1 when *)
(* it is in sync with the recently seen blocks.                            *)
SyncHeight(a) ==
  CASE a.unsynced /\ ~a.partial -> a.first
    [] a.unsynced /\ a.partial -> a.psh
    [] OTHER -> -1

watchingKey(a) ==
  [a EXCEPT !.hasPriv = FALSE, !.enc = FALSE, !.createNext = FALSE,
            !.partial = FALSE, !.priv = NoCipher, !.ct = NoKey]

(* The copy of a script address sets neither hasScript nor partialSync.   *)
watchingScript(a) == [a EXCEPT !.hasPub = FALSE, !.partial = FALSE]

Imported(a) == a.idx = importedKeyChainIdx

-----------------------------------------------------------------------------
(* The store.  addrs is addrMap, chain is chainIdxMap; key addresses are   *)
(* named by their public key and script addresses by their script.         *)
isLocked(s) == s.secret = NoKey

(* A map with one more entry.                                            *)
Put(map, key, value) ==
  [x \in DOMAIN map \cup {key} |-> IF x = key THEN value ELSE map[x]]

(* New returns the store locked: the root is encrypted and its clear text  *)
(* and the secret are zeroed again.                                        *)
New(pass, h, hash) ==
  LET root == [newBtcAddress(rootKey, h) EXCEPT !.idx = rootKeyChainIdx]
  IN  [vers |-> VersCurrent, watching |-> FALSE, highestUsed |-> rootKeyChainIdx,
       recent |-> [hashes |-> <<hash>>, lastHeight |-> h],
       addrs |-> [a \in {rootAddr} |-> lock(encrypt(root, kdf(pass)).s)],
       chain |-> [i \in {rootKeyChainIdx} |-> rootAddr],
       lastChainIdx |-> rootKeyChainIdx, missingKeysStart |-> rootKeyChainIdx,
       secret |-> NoKey]

(* createMissingPrivateKeys walks the chain from missingKeysStart, deriving *)
(* each key from the one before; an address that is encrypted already is   *)
(* an error for files older than VersUnsetNeedsPrivkeyFlag.                *)
fillKey(acc, i) ==
  LET pub == acc.s.chain[i]
      k   == chainedPrivKey(acc.prevKey, acc.prevPub)
      enc == encrypt([acc.s.addrs[pub] EXCEPT !.ct = k], acc.s.secret)
      set(a) == [acc.s EXCEPT !.addrs[pub] = a]
  IN  CASE acc.e # "nil" -> acc
        [] /\ acc.e = "nil" /\ enc.e # "nil"
           /\ enc.e # "ErrAlreadyEncrypted" \/ LT(acc.s.vers, VersUnsetNeedsPrivkeyFlag)
             -> [acc EXCEPT !.e = enc.e, !.s = set(enc.s)]
        [] OTHER -> [e |-> "nil", prevKey |-> k, prevPub |-> pub,
                     s |-> set([enc.s EXCEPT !.createNext = FALSE])]

createMissingPrivateKeys(s) ==
  LET idx == s.missingKeysStart
      prev == s.chain[idx - 1]
      u == unlock(s.addrs[prev], prev, s.secret)
      last == CHOOSE i \in {idx - 1} \cup DOMAIN s.chain :
                /\ \A j \in idx .. i : j \in DOMAIN s.chain
                /\ i >= idx - 1 /\ i + 1 \notin DOMAIN s.chain
      fill[n \in 0 .. (last - idx + 1)] ==
        IF n = 0
        THEN [e |-> "nil", prevKey |-> u.s.ct, prevPub |-> prev,
              s |-> [s EXCEPT !.addrs[prev] = u.s]]
        ELSE fillKey(fill[n - 1], idx + n - 1)
      done == fill[last - idx + 1]
  IN  CASE idx = rootKeyChainIdx -> Ok(s)
        [] idx # rootKeyChainIdx /\ idx - 1 \notin DOMAIN s.chain
             -> Err("missing previous chained address", s)
        [] OTHER ->
             IF u.e # "nil" THEN Err(u.e, s)
             ELSE IF done.e # "nil" THEN Err(done.e, done.s)
             ELSE Ok([done.s EXCEPT !.missingKeysStart = rootKeyChainIdx])

Unlock(s, pass) ==
  LET u == unlock(s.addrs[rootAddr], rootAddr, kdf(pass)) IN
  CASE s.watching -> Err("ErrWatchingOnly", s)
    [] ~s.watching /\ u.e # "nil" -> Err(u.e, s)
    [] OTHER -> createMissingPrivateKeys(
                  [s EXCEPT !.addrs[rootAddr] = u.s, !.secret = kdf(pass)])

Lock(s) ==
  IF s.watching THEN Err("ErrWatchingOnly", s)
  ELSE [e |-> IF isLocked(s) THEN "ErrLocked" ELSE "nil",
        s |-> [s EXCEPT !.secret = NoKey,
                        !.addrs = [a \in DOMAIN s.addrs |->
                          IF s.addrs[a].kind = "key" THEN lock(s.addrs[a])
                                                     ELSE s.addrs[a]]]]

(* ChangePassphrase goes through the address map in no particular order    *)
(* and stops at the first address it cannot re-encrypt: every set of the   *)
(* others may have been re-encrypted by then.                              *)
ChangePassphrase(s, new) ==
  LET keys == {a \in DOMAIN s.addrs : s.addrs[a].kind = "key"}
      re(a) == changeEncryptionKey(s.addrs[a], a, s.secret, kdf(new))
      bad == {a \in keys : re(a).e # "nil"}
      with(D) == [s EXCEPT !.addrs = [a \in DOMAIN s.addrs |->
                    IF a \in D THEN re(a).s ELSE s.addrs[a]]]
  IN  CASE s.watching -> {Err("ErrWatchingOnly", s)}
        [] ~s.watching /\ isLocked(s) -> {Err("ErrLocked", s)}
        [] OTHER -> IF bad = {}
                    THEN {Ok([with(keys) EXCEPT !.secret = kdf(new)])}
                    ELSE {Err("no private key", with(D)) :
                            D \in SUBSET (keys \ bad)}

-----------------------------------------------------------------------------
(* Growing the chain.                                                     *)
addChained(s, pub, a) ==
  LET idx == s.addrs[s.chain[s.lastChainIdx]].idx + 1 IN
  [s EXCEPT !.addrs = Put(@, pub, [a EXCEPT !.idx = idx]),
            !.chain = Put(@, idx, pub),
            !.lastChainIdx = @ + 1]

(* Mutant: the factor is the one of the root's public key.                *)
MutExtendUnlocked(s, h) ==
  LET lastPub == s.chain[s.lastChainIdx]
      u == unlock(s.addrs[lastPub], lastPub, s.secret)
      k == chainedPrivKey(u.s.ct, rootAddr)
      a == encrypt(newBtcAddress(k, h), s.secret)
  IN  IF u.e # "nil" THEN Err(u.e, s)
      ELSE Ok(addChained([s EXCEPT !.addrs[lastPub] = u.s], Pub(k), a.s))

extendUnlocked(s, h) ==
  LET lastPub == s.chain[s.lastChainIdx]
      u == unlock(s.addrs[lastPub], lastPub, s.secret)
      k == chainedPrivKey(u.s.ct, lastPub)
      a == encrypt(newBtcAddress(k, h), s.secret)
  IN  IF u.e # "nil" THEN Err(u.e, s)
      ELSE Ok(addChained([s EXCEPT !.addrs[lastPub] = u.s], Pub(k), a.s))

(* Mutant: every locked extension moves missingKeysStart.                 *)
MutExtendLocked(s, h) ==
  LET pub == chainedPubKey(s.chain[s.lastChainIdx])
      t == addChained(s, pub, newBtcAddressWithoutPrivkey(h))
  IN  Ok([t EXCEPT !.missingKeysStart = t.addrs[pub].idx])

extendLocked(s, h) ==
  LET pub == chainedPubKey(s.chain[s.lastChainIdx])
      t == addChained(s, pub, newBtcAddressWithoutPrivkey(h))
  IN  Ok([t EXCEPT !.missingKeysStart =
            IF @ = rootKeyChainIdx THEN t.addrs[pub].idx ELSE @])

(* The address that NextChainedAddress hands out is chain[highestUsed] of  *)
(* the resulting store.                                                    *)
nextChainedBtcAddress(s, h) ==
  LET r == IF s.highestUsed + 1 \in DOMAIN s.chain THEN Ok(s)
           ELSE IF isLocked(s) THEN extendLocked(s, h)
           ELSE extendUnlocked(s, h)
  IN  CASE r.e # "nil" -> r
        [] r.e = "nil" /\ s.highestUsed + 1 \notin DOMAIN r.s.chain
             -> Err("chain index map inproperly updated", r.s)
        [] OTHER -> Ok([r.s EXCEPT !.highestUsed = @ + 1])

ChangeAddress(s, h) ==
  LET r == nextChainedBtcAddress(s, h) IN
  IF r.e # "nil" THEN r
  ELSE Ok([r.s EXCEPT !.addrs[r.s.chain[r.s.highestUsed]].change = TRUE])

(* ExtendActiveAddresses(n) with the height of the last active address;    *)
(* the addresses made before a failure stay.                               *)
ExtendActiveAddresses(s, n) ==
  LET h == s.addrs[s.chain[s.highestUsed]].first
      made[i \in 0 .. n] ==
        IF i = 0 THEN Ok(s)
        ELSE IF made[i - 1].e # "nil" THEN made[i - 1]
        ELSE nextChainedBtcAddress(made[i - 1].s, h)
  IN  made[n]

ImportPrivateKey(s, k, h) ==
  LET a == [newBtcAddress(k, h) EXCEPT
              !.idx = importedKeyChainIdx,
              !.unsynced = s.recent.hashes # <<>> /\ h < s.recent.lastHeight]
  IN  CASE s.watching -> Err("ErrWatchingOnly", s)
        [] ~s.watching /\ Pub(k) \in DOMAIN s.addrs -> Err("ErrDuplicate", s)
        [] ~s.watching /\ Pub(k) \notin DOMAIN s.addrs /\ isLocked(s)
             -> Err("ErrLocked", s)
        [] OTHER -> Ok([s EXCEPT !.addrs =
                          Put(@, Pub(k), encrypt(a, s.secret).s)])

ImportScript(s, script, h) ==
  LET a == [newScriptAddress(h) EXCEPT
              !.unsynced = s.recent.hashes # <<>> /\ h < s.recent.lastHeight]
  IN  CASE s.watching -> Err("ErrWatchingOnly", s)
        [] ~s.watching /\ script \in DOMAIN s.addrs -> Err("ErrDuplicate", s)
        [] OTHER -> Ok([s EXCEPT !.addrs = Put(@, script, a)])

ExportWatchingWallet(s) ==
  IF s.watching THEN Err("ErrWatchingOnly", s)
  ELSE Ok([s EXCEPT
         !.watching = TRUE, !.secret = NoKey, !.missingKeysStart = 0,
         !.addrs = [a \in DOMAIN s.addrs |->
                      IF s.addrs[a].kind = "key" THEN watchingKey(s.addrs[a])
                                                 ELSE watchingScript(s.addrs[a])]])

ActiveAddresses(s) ==
  {s.chain[i] : i \in rootKeyChainIdx .. s.highestUsed}
    \cup {a \in DOMAIN s.addrs : Imported(s.addrs[a])}

-----------------------------------------------------------------------------
(* Recently seen blocks.  A block is the pair of its height and its fork.  *)
blockUnset == [hashes |-> <<>>, lastHeight |-> 0]

SetSyncedWith(s, b) ==
  LET hs == s.recent.hashes
      h == b[1]
      idx == Len(hs) - (s.recent.lastHeight - h)   \* 1-based maybeIdx
      rollback == h < s.recent.lastHeight
      kept == IF rollback \/ h # s.recent.lastHeight + 1 THEN <<>> ELSE hs
  IN  IF rollback /\ idx \in 1 .. Len(hs) /\ hs[idx] = b
      THEN [s EXCEPT !.recent = [hashes |-> SubSeq(hs, 1, idx - 1),
                                 lastHeight |-> h]]
      ELSE [s EXCEPT !.recent =
              [hashes |-> Append(IF Len(kept) = RecentMax THEN Tail(kept)
                                 ELSE kept, b),
               lastHeight |-> h]]

SetUnsynced(s) ==
  [s EXCEPT !.recent = [blockUnset EXCEPT !.lastHeight = s.addrs[rootAddr].first],
            !.addrs[rootAddr] = setSyncStatus(@, "unsynced", 0)]

(* SyncedTo: the height from which a rescan starts, with the hash of the   *)
(* block there when it is one of the recent ones.                          *)
SyncedTo(s) ==
  LET root == s.addrs[rootAddr]
      ahead == root.unsynced /\ root.partial /\ root.psh > s.recent.lastHeight
      base == IF ahead THEN root.psh ELSE s.recent.lastHeight
      lowest == Min({base} \cup {SyncHeight(s.addrs[a]) :
                  a \in {b \in DOMAIN s.addrs : SyncHeight(s.addrs[b]) >= 0}})
  IN  [height |-> lowest,
       hash |-> IF ahead \/ lowest < base \/ s.recent.hashes = <<>> THEN <<>>
                ELSE s.recent.hashes[Len(s.recent.hashes)]]

-----------------------------------------------------------------------------
(* The file.  Flags are written as the set of bits that are 1.            *)
Bit(b, on) == IF on THEN {b} ELSE {}

walletFlagBits(s) == Bit(0, ~s.watching) \cup Bit(1, s.watching)

addrFlagBits(a) ==
  Bit(0, a.hasPriv) \cup Bit(1, a.hasPub) \cup Bit(2, a.enc)
    \cup Bit(3, a.createNext) \cup {4} \cup Bit(5, a.change)
    \cup Bit(6, a.unsynced) \cup Bit(7, a.partial)

scriptFlagBits(a) ==
  Bit(1, a.hasPub) \cup Bit(5, a.change) \cup Bit(6, a.unsynced)
    \cup Bit(7, a.partial)

walletHash(x) == x

addrEntryOf(pub, a) ==
  [header |-> "addr", hash |-> pub, bits |-> addrFlagBits(a), idx |-> a.idx,
   priv |-> a.priv, chk |-> walletHash(<<pub, a.priv>>),
   first |-> a.first, psh |-> a.psh]

scriptEntryOf(script, a) ==
  [header |-> "script", hash |-> script, bits |-> scriptFlagBits(a),
   chk |-> walletHash(script), first |-> a.first, psh |-> a.psh]

(* writeTo sorts the chained addresses into a slice of len(chainIdxMap)-1  *)
(* entries; addrFlags refuses an unencrypted private key and recentBlocks  *)
(* more hashes than a reader takes.                                        *)
writable(s) ==
  /\ \A a \in DOMAIN s.addrs : s.addrs[a].hasPriv => s.addrs[a].enc
  /\ \A a \in DOMAIN s.addrs : s.addrs[a].idx < Cardinality(DOMAIN s.chain) - 1
  /\ Len(s.recent.hashes) <= RecentMax
  /\ s.recent.hashes # <<>> => s.recent.lastHeight >= 0

writeRecent(r) ==
  [nBlocks |-> Len(r.hashes), height |-> r.lastHeight, hashes |-> r.hashes]

writeEntries(s) ==
  {IF s.addrs[a].kind = "key" THEN addrEntryOf(a, s.addrs[a])
                              ELSE scriptEntryOf(a, s.addrs[a]) :
     a \in DOMAIN s.addrs}

writeTo(s) ==
  [vers |-> VersCurrent, flags |-> walletFlagBits(s),
   highestUsed |-> s.highestUsed, recent |-> writeRecent(s.recent),
   entries |-> writeEntries(s)]

(* Mutant: the partial sync bit is not read back.                         *)
MutReadAddrEntry(x) ==
  [kind |-> "key", idx |-> x.idx,
   hasPriv |-> 0 \in x.bits, hasPub |-> 1 \in x.bits, enc |-> 2 \in x.bits,
   createNext |-> 3 \in x.bits, change |-> 5 \in x.bits,
   unsynced |-> 6 \in x.bits, partial |-> FALSE,
   psh |-> x.psh, first |-> x.first, priv |-> x.priv, ct |-> NoKey]

readAddrEntry(x) ==
  [kind |-> "key", idx |-> x.idx,
   hasPriv |-> 0 \in x.bits, hasPub |-> 1 \in x.bits, enc |-> 2 \in x.bits,
   createNext |-> 3 \in x.bits, change |-> 5 \in x.bits,
   unsynced |-> 6 \in x.bits, partial |-> 7 \in x.bits,
   psh |-> x.psh, first |-> x.first, priv |-> x.priv, ct |-> NoKey]

readScriptEntry(x) ==
  [newScriptAddress(x.first) EXCEPT
     !.hasPub = 1 \in x.bits, !.change = 5 \in x.bits,
     !.unsynced = 6 \in x.bits, !.partial = 7 \in x.bits, !.psh = x.psh]

(* What the readers of the entries refuse: an entry that fails its         *)
(* checksum, one without its public key or script, and a private key that  *)
(* is not encrypted.                                                       *)
addrReadable(x) ==
  /\ x.chk = walletHash(<<x.hash, x.priv>>)
  /\ 1 \in x.bits
  /\ 0 \in x.bits => 2 \in x.bits

scriptReadable(x) == x.chk = walletHash(x.hash) /\ 1 \in x.bits

readable(f) ==
  /\ ~LT(f.vers, Vers20LastBlocks)
       => f.recent.nBlocks <= RecentMax /\ f.recent.height >= 0
  /\ \A x \in f.entries :
       IF x.header = "addr" THEN addrReadable(x) ELSE scriptReadable(x)

(* Files before Vers20LastBlocks hold the last block only.                *)
readRecent(v, r) ==
  IF ~LT(v, Vers20LastBlocks)
  THEN [hashes |-> r.hashes, lastHeight |-> r.height]
  ELSE [hashes |-> IF r.height = -1 THEN <<>> ELSE <<r.hashes[Len(r.hashes)]>>,
        lastHeight |-> r.height]

(* The fields that are not in the file are rebuilt; missingKeysStart keeps *)
(* the zero value of a new Store, which no chained index is below.         *)
ReadFrom(f) ==
  LET keys == {x \in f.entries : x.header = "addr"}
      chained == {x \in keys : x.idx # importedKeyChainIdx}
      entry(a) == CHOOSE x \in f.entries : x.hash = a
  IN  [vers |-> f.vers, watching |-> 1 \in f.flags,
       highestUsed |-> f.highestUsed, recent |-> readRecent(f.vers, f.recent),
       addrs |-> [a \in {x.hash : x \in f.entries} |->
                    IF entry(a) \in keys THEN readAddrEntry(entry(a))
                                         ELSE readScriptEntry(entry(a))],
       chain |-> [i \in {x.idx : x \in chained} |->
                    (CHOOSE x \in chained : x.idx = i).hash],
       lastChainIdx |-> Max({x.idx : x \in chained}),
       missingKeysStart |-> 0, secret |-> NoKey]

-----------------------------------------------------------------------------
(* The state machine.                                                     *)
Blocks == (0 .. MaxHeight) \X {0, 1}

(* A store that New made, or one that an older version of the program grew *)
(* by an address, saved, and OpenDir has read.                              *)
FirstStore(h) ==
  LET new == New(1, h, <<h, 0>>)
      grown == Lock(nextChainedBtcAddress(Unlock(new, 1).s, h).s).s
  IN  IF FileVersion = <<>> THEN new
      ELSE ReadFrom([writeTo(grown) EXCEPT !.vers = FileVersion])

Init ==
  /\ store = FirstStore(MaxHeight)
  /\ dirty = FALSE /\ writer = "idle" /\ file = NoFile
  /\ inForce = 1 /\ fileInForce = 1
  /\ call = Idle /\ got = Idle /\ ops = 0 /\ syncOps = 0

KeyOp(s2) ==
  /\ ops < MaxOps
  /\ ops' = IF s2 = store THEN ops ELSE ops + 1
  /\ store' = s2 /\ got' = Idle
  /\ UNCHANGED <<dirty, writer, file, fileInForce, syncOps>>

SyncOp(s2) ==
  /\ syncOps < MaxSyncOps /\ syncOps' = syncOps + 1
  /\ store' = s2 /\ got' = Idle
  /\ UNCHANGED <<dirty, writer, file, inForce, fileInForce, call, ops>>

DoUnlock == \E p \in Passphrases :
  KeyOp(Unlock(store, p).s) /\ UNCHANGED <<inForce, call>>

(* A PrivKey call learns nothing of it: the mark is for the properties.   *)
DoLock ==
  /\ KeyOp(Lock(store).s) /\ UNCHANGED inForce
  /\ call' = IF call.at = "idle" THEN call ELSE [call EXCEPT !.locked = TRUE]

DoChangePassphrase == \E p \in Passphrases : \E r \in ChangePassphrase(store, p) :
  /\ KeyOp(r.s) /\ UNCHANGED call
  /\ inForce' = IF r.e = "nil" THEN p ELSE inForce

DoNextChainedAddress ==
  /\ store.lastChainIdx < MaxChain
  /\ KeyOp(nextChainedBtcAddress(store, store.recent.lastHeight).s)
  /\ UNCHANGED <<inForce, call>>

DoChangeAddress ==
  /\ store.lastChainIdx < MaxChain
  /\ KeyOp(ChangeAddress(store, store.recent.lastHeight).s)
  /\ UNCHANGED <<inForce, call>>

DoExtendActive ==
  /\ store.lastChainIdx + 1 < MaxChain
  /\ KeyOp(ExtendActiveAddresses(store, 2).s)
  /\ UNCHANGED <<inForce, call>>

DoImportPrivateKey == \E k \in ImportKeys :
  KeyOp(ImportPrivateKey(store, k, 0).s) /\ UNCHANGED <<inForce, call>>

DoImportScript == \E x \in Scripts :
  KeyOp(ImportScript(store, x, 0).s) /\ UNCHANGED <<inForce, call>>

(* The program goes on with the exported watching-only store, and a call   *)
(* on an address of the old one is not followed any further.               *)
DoExport ==
  KeyOp(ExportWatchingWallet(store).s) /\ call' = Idle /\ UNCHANGED inForce

DoSetSyncedWith == \E b \in Blocks : SyncOp(SetSyncedWith(store, b))

DoSetUnsynced == SyncOp(SetUnsynced(store))

DoSetSyncStatus ==
  \E a \in DOMAIN store.addrs, st \in {"unsynced", "partial", "full"} :
    /\ Imported(store.addrs[a]) \/ a = rootAddr
    /\ SyncOp([store EXCEPT !.addrs[a] = setSyncStatus(@, st, 1)])

(* PrivKey: the checks.                                                    *)
PrivKeyCheck == \E a \in DOMAIN store.addrs :
  /\ call.at = "idle" /\ ops < MaxOps
  /\ ~store.watching /\ store.addrs[a].hasPriv /\ ~isLocked(store)
  /\ call' = [at |-> "checked", addr |-> a, secret |-> store.secret,
              locked |-> FALSE]
  /\ ops' = ops + 1 /\ got' = Idle
  /\ UNCHANGED <<store, dirty, writer, file, inForce, fileInForce, syncOps>>

(* unlock, which takes no lock either, for PrivKey: the key is decrypted   *)
(* with the secret the slice holds by then, which Lock or ChangePassphrase *)
(* may be zeroing.                                                         *)
PrivKeyDecrypt ==
  /\ call.at = "checked"
  /\ \E key \in {store.secret}
       \cup (IF call.locked \/ store.secret # call.secret
             THEN {PartlyZeroed} ELSE {}) :
     LET a == store.addrs[call.addr] IN
     call' = IF a.enc /\ key # NoKey
             THEN [at |-> "decrypted", addr |-> call.addr,
                   key |-> Decrypt(a.priv, key), locked |-> FALSE]
             ELSE Idle
  /\ got' = Idle
  /\ UNCHANGED <<store, dirty, writer, file, inForce, fileInForce, ops,
                 syncOps>>

(* No clear text is saved: the key is compared with the public key, and a  *)
(* copy of it returned.  It is saved whatever the lock state is now, unless *)
(* the chain has put a new address in the place of the one of the call.    *)
PrivKeySave ==
  LET a == store.addrs[call.addr] IN
  /\ call.at = "decrypted" /\ a.ct = NoKey
  /\ \/ /\ Pub(call.key) = call.addr
        /\ store' = IF a.enc THEN [store EXCEPT !.addrs[call.addr].ct = call.key]
                    ELSE store
        /\ got' = [at |-> "got", addr |-> call.addr, key |-> call.key,
                   locked |-> FALSE]
     \/ Pub(call.key) # call.addr /\ got' = Idle /\ UNCHANGED store
  /\ call' = Idle
  /\ UNCHANGED <<dirty, writer, file, inForce, fileInForce, ops, syncOps>>

(* A clear text is saved, to compare the key with.                         *)
PrivKeySaved ==
  /\ call.at = "decrypted" /\ store.addrs[call.addr].ct # NoKey
  /\ call' = [call EXCEPT !.at = "saved", !.locked = FALSE]
  /\ got' = Idle
  /\ UNCHANGED <<store, dirty, writer, file, inForce, fileInForce, ops,
                 syncOps>>

PrivKeyCompare ==
  LET ct == store.addrs[call.addr].ct IN
  /\ call.at = "saved"
  /\ call' = IF ct # NoKey /\ ct = call.key
             THEN [call EXCEPT !.at = "compared", !.locked = FALSE] ELSE Idle
  /\ got' = Idle
  /\ UNCHANGED <<store, dirty, writer, file, inForce, fileInForce, ops,
                 syncOps>>

(* The saved clear text is read once more for the copy that is returned:   *)
(* nothing of it is left, or some bytes, when Lock has come in between.    *)
PrivKeyCopy ==
  LET ct == store.addrs[call.addr].ct IN
  /\ call.at = "compared"
  /\ \E k \in {IF ct = NoKey THEN PartlyZeroed ELSE ct}
       \cup (IF call.locked THEN {PartlyZeroed} ELSE {}) :
     got' = [at |-> "got", addr |-> call.addr, key |-> k,
             locked |-> call.locked]
  /\ call' = Idle
  /\ UNCHANGED <<store, dirty, writer, file, inForce, fileInForce, ops,
                 syncOps>>

MarkDirty ==
  /\ dirty' = TRUE /\ got' = Idle
  /\ UNCHANGED <<store, writer, file, inForce, fileInForce, call, ops, syncOps>>

(* WriteIfDirty: the temporary file is written, synced and renamed under   *)
(* the read lock; any failure leaves the old file and the dirty mark.      *)
WriteIfDirty ==
  /\ writer = "idle" /\ dirty /\ writable(store)
  /\ file' = writeTo(store) /\ fileInForce' = inForce
  /\ writer' = "renamed" /\ got' = Idle
  /\ UNCHANGED <<store, dirty, inForce, call, ops, syncOps>>

ClearDirty ==
  /\ writer = "renamed" /\ writer' = "idle" /\ dirty' = FALSE /\ got' = Idle
  /\ UNCHANGED <<store, file, inForce, fileInForce, call, ops, syncOps>>

(* The process ends, before or after a write, and OpenDir reads the file.  *)
OpenDir ==
  /\ file # NoFile /\ readable(file) /\ ops < MaxOps
  /\ store' = ReadFrom(file) /\ inForce' = fileInForce
  /\ dirty' = FALSE /\ writer' = "idle" /\ call' = Idle /\ got' = Idle
  /\ ops' = ops + 1
  /\ UNCHANGED <<file, fileInForce, syncOps>>

Next ==
  \/ DoUnlock \/ DoLock \/ DoChangePassphrase
  \/ DoNextChainedAddress \/ DoChangeAddress \/ DoExtendActive
  \/ DoImportPrivateKey \/ DoImportScript \/ DoExport
  \/ DoSetSyncedWith \/ DoSetUnsynced \/ DoSetSyncStatus
  \/ PrivKeyCheck \/ PrivKeyDecrypt \/ PrivKeySave
  \/ PrivKeySaved \/ PrivKeyCompare \/ PrivKeyCopy
  \/ MarkDirty \/ WriteIfDirty \/ ClearDirty \/ OpenDir

Spec == Init /\ [][Next]_vars

-----------------------------------------------------------------------------
(* Properties.                                                            *)

(* What holds of a store that can be unlocked with pass: Unlock succeeds,  *)
(* no chained address is left without its private key, and every private   *)
(* key it then decrypts belongs to its public key.                         *)
Recovers(s, pass) ==
  LET u == Unlock(Lock(s).s, pass) IN
  /\ u.e = "nil"
  /\ \A a \in DOMAIN u.s.addrs : u.s.addrs[a].kind = "key" =>
       LET x == unlock(u.s.addrs[a], a, u.s.secret) IN
       x.e = "nil" /\ Pub(x.s.ct) = a

(* The passphrase the user set last recovers every key of the store in     *)
(* memory, and the one that was in force at the last save recovers every   *)
(* key of the file, whatever sequence of lock, unlock, locked and unlocked *)
(* chain extension, import, passphrase change, save and crash came before. *)
PassphraseRecoversKeys ==
  /\ ~store.watching => Recovers(store, inForce)
  /\ file # NoFile /\ 1 \notin file.flags /\ readable(file)
       => Recovers(ReadFrom(file), fileInForce)

(* The chain of a watching-only export goes on with the same addresses as  *)
(* the chain of the store it came from, locked or unlocked.                *)
WatchingChainAgrees ==
  ~store.watching =>
    LET chainOf(s) == ExtendActiveAddresses(s, 2).s.chain
        w == chainOf(ExportWatchingWallet(store).s)
    IN  /\ w = chainOf(store)
        /\ w = chainOf(Unlock(store, inForce).s)

(* What the comments of unlock and PrivKey promise: the key returned is a  *)
(* copy of the private key of the address that "may be used safely even    *)
(* during an address lock".  A Lock between the comparison of the saved    *)
(* clear text and its copy breaks it.                                      *)
PrivKeyIsRight == got.at = "got" => Pub(got.key) = got.addr

(* What holds of PrivKey, which takes no lock: whatever runs between its   *)
(* steps it returns the private key of the address or an error, except     *)
(* that a Lock between the comparison and the copy, and nothing else, may  *)
(* zero the bytes it returns.                                              *)
PrivKeyIsRightOrZeroed ==
  got.at = "got" =>
    \/ Pub(got.key) = got.addr
    \/ got.locked /\ got.key = PartlyZeroed

(* No key is lost, whatever happened to the store, its file and its        *)
(* passphrase before, and no wrong key is handed out but the zeroed one of *)
(* a PrivKey call that a Lock overtakes.                                   *)
KeysAreKept == PassphraseRecoversKeys /\ PrivKeyIsRightOrZeroed

(* Opening the file and writing it again gives the same file, and every    *)
(* file but the copy of a watching-only store that holds a script can be   *)
(* opened.                                                                 *)
FileRoundTrips ==
  file # NoFile =>
    \/ readable(file) /\ writable(ReadFrom(file)) /\ writeTo(ReadFrom(file)) = file
    \/ 1 \in file.flags /\ \E x \in file.entries : x.header = "script"

(* The block that SyncedTo names is the block at the height it returns, so *)
(* after a rollback to a saved block, which removes anything after it, a   *)
(* rescan continues from that block.                                       *)
SyncedToNamesItsBlock ==
  LET r == SyncedTo(store) IN r.hash # <<>> => r.hash[1] = r.height

=============================================================================
