--------------------------- MODULE KeyStoreProofs ---------------------------
(***************************************************************************)
(* Proofs about KeyStore, for every curve that satisfies KeyDerivation,    *)
(* every set of passphrases, imported keys and scripts, and every bound.   *)
(***************************************************************************)
EXTENDS KeyStore, FiniteSetTheorems, WellFoundedInduction, TLAPS

(* The files that Unlock can read: not older than the version from which   *)
(* an address that has its key already is no error.                        *)
RecentFile ==
  FileVersion # <<>> => ~LT(FileVersion, VersUnsetNeedsPrivkeyFlag)

PubKeys == {Pub(k) : k \in PrivKeys}
Secrets == PrivKeys \cup {NoKey}

AddrRec ==
  [kind : {"key", "script"}, idx : Int, hasPriv : BOOLEAN, enc : BOOLEAN,
   createNext : BOOLEAN, hasPub : BOOLEAN, change : BOOLEAN,
   unsynced : BOOLEAN, partial : BOOLEAN, psh : Int, first : Nat,
   priv : Secrets \X Int, ct : Secrets]

(* An address is one of three: a script; a key address that holds its      *)
(* private key, encrypted under key, with at most that key in clear text;  *)
(* or one that has a public key only.                                      *)
IsScript(a, x) ==
  /\ x \in AddrRec /\ x.kind = "script" /\ a \in Scripts
  /\ x.idx = importedKeyChainIdx /\ ~x.hasPriv /\ ~x.enc

Holds(a, x, key) ==
  /\ x \in AddrRec /\ x.kind = "key" /\ x.hasPub /\ x.hasPriv /\ x.enc
  /\ x.priv[1] \in PrivKeys /\ Pub(x.priv[1]) = a /\ x.priv[2] = key
  /\ x.ct \in {NoKey, x.priv[1]}

Lacks(a, x) ==
  /\ x \in AddrRec /\ x.kind = "key" /\ x.hasPub /\ ~x.hasPriv /\ ~x.enc
  /\ x.ct = NoKey /\ a \in PubKeys

-----------------------------------------------------------------------------
(* Numbers and the chain of public keys.                                   *)

LEMMA LeastNumber ==
  ASSUME NEW S \in SUBSET Nat, S # {}
  PROVE  \E n \in S : \A k \in S : n <= k
<1>1. PICK n \in S : \A k \in S : ~(<<k, n>> \in OpToRel(<, Nat))
  BY NatLessThanWellFounded, WFMin
<1>2. \A k \in S : ~(k < n)
  BY <1>1 DEF OpToRel
<1> QED BY <1>2

IsChain(g, n) ==
  g = [i \in 0 .. n |-> IF i = 0 THEN rootAddr ELSE chainedPubKey(g[i - 1])]

LEMMA ChainExists ==
  ASSUME NEW n \in Nat
  PROVE  \E g : IsChain(g, n)
<1> DEFINE Bad == {m \in Nat : ~\E g : IsChain(g, m)}
<1>1. SUFFICES ASSUME Bad # {} PROVE FALSE
  OBVIOUS
<1>2. PICK m \in Bad : \A k \in Bad : m <= k
  BY <1>1, LeastNumber
<1>3. CASE m = 0
  <2> DEFINE g == [i \in 0 .. 0 |-> rootAddr]
  <2>1. \A i \in 0 .. 0 : i = 0
    OBVIOUS
  <2>2. g = [i \in 0 .. 0 |-> IF i = 0 THEN rootAddr ELSE chainedPubKey(g[i - 1])]
    BY <2>1
  <2>3. IsChain(g, 0)
    BY <2>2 DEF IsChain
  <2> QED BY <1>3, <2>3
<1>4. CASE m # 0
  <2>1. m - 1 \in Nat /\ ~(m - 1 \in Bad)
    BY <1>2, <1>4
  <2>2. PICK g : IsChain(g, m - 1)
    BY <2>1
  <2> DEFINE h == [i \in 0 .. m |-> IF i = m THEN chainedPubKey(g[m - 1]) ELSE g[i]]
  <2>3. \A i \in 0 .. m - 1 : g[i] = IF i = 0 THEN rootAddr ELSE chainedPubKey(g[i - 1])
    BY <2>2 DEF IsChain
  <2>4. \A i \in 0 .. m - 1 : h[i] = g[i]
    BY <2>1
  <2>5. h[m] = chainedPubKey(g[m - 1])
    BY <2>1
  <2> HIDE DEF h
  <2>6. \A i \in 0 .. m : h[i] = IF i = 0 THEN rootAddr ELSE chainedPubKey(h[i - 1])
    <3> SUFFICES ASSUME NEW i \in 0 .. m
                 PROVE h[i] = IF i = 0 THEN rootAddr ELSE chainedPubKey(h[i - 1])
      OBVIOUS
    <3>1. CASE i = m
      <4>1. h[i - 1] = g[m - 1]
        BY <2>1, <2>4, <3>1
      <4> QED BY <1>4, <2>5, <3>1, <4>1
    <3>2. CASE i = 0
      BY <1>4, <2>1, <2>3, <2>4, <3>2
    <3>3. CASE i # m /\ i # 0
      <4>1. i \in 0 .. m - 1 /\ i - 1 \in 0 .. m - 1
        BY <2>1, <3>3
      <4> QED BY <2>3, <2>4, <3>3, <4>1
    <3> QED BY <3>1, <3>2, <3>3
  <2>7. IsChain(h, m)
    <3>1. h = [i \in 0 .. m |-> h[i]]
      BY DEF h
    <3> QED BY <2>6, <3>1 DEF IsChain
  <2> QED BY <2>7
<1> QED BY <1>3, <1>4

LEMMA ChainKeyIs ==
  /\ MaxChain + 3 \in Nat
  /\ chainKey[0] = rootAddr
  /\ \A n \in 1 .. MaxChain + 3 : chainKey[n] = chainedPubKey(chainKey[n - 1])
<1>1. MaxChain + 3 \in Nat
  BY KeyStoreConstants
<1>2. chainKey = CHOOSE g : IsChain(g, MaxChain + 3)
  BY DEF chainKey, IsChain, ChainKeys
<1>3. IsChain(chainKey, MaxChain + 3)
  BY <1>1, <1>2, ChainExists
<1>4. \A n \in 0 .. MaxChain + 3 :
        chainKey[n] = IF n = 0 THEN rootAddr ELSE chainedPubKey(chainKey[n - 1])
  BY <1>3 DEF IsChain
<1> QED BY <1>1, <1>4

(* What KeyDerivation says, one fact at a time.                            *)
LEMMA RootIsKey == rootKey \in PrivKeys /\ rootAddr \in PubKeys /\ ImportKeys \subseteq PrivKeys
  BY KeyDerivation DEF PubKeys, rootAddr

LEMMA PubIsInjective ==
  /\ NoKey \notin PrivKeys
  /\ \A k \in PrivKeys : Pub(NoKey) # Pub(k)
  /\ \A k, l \in PrivKeys : Pub(k) = Pub(l) => k = l
<1>1. NoKey \notin PrivKeys /\ \A k, l \in PrivKeys \cup {NoKey} : Pub(k) = Pub(l) => k = l
  BY KeyDerivation
<1> HIDE DEF Pub
<1> QED BY <1>1

LEMMA ChainedKeys ==
  ASSUME NEW k \in PrivKeys, NEW a, Pub(k) = a
  PROVE  /\ chainedPrivKey(k, a) \in PrivKeys
         /\ Pub(chainedPrivKey(k, a)) = chainedPubKey(a)
  BY KeyDerivation

LEMMA ScriptsApart == \A a \in PubKeys : a \notin Scripts
  BY KeyDerivation DEF PubKeys

LEMMA ChainIsInjective ==
  \A m, n \in 0 .. MaxChain + 3 : chainKey[m] = chainKey[n] => m = n
  BY KeyDerivation DEF ChainKeys

(* Every key of the chain is the public key of a private key.              *)
LEMMA ChainKeysArePublic ==
  \A n \in 0 .. MaxChain + 3 : chainKey[n] \in PubKeys
<1> DEFINE Bad == {n \in 0 .. MaxChain + 3 : chainKey[n] \notin PubKeys}
<1>0. Bad \in SUBSET Nat
  BY ChainKeyIs
<1>1. SUFFICES ASSUME Bad # {} PROVE FALSE
  OBVIOUS
<1>2. PICK m \in Bad : \A k \in Bad : m <= k
  BY <1>0, <1>1, LeastNumber
<1>3. chainKey[0] \in PubKeys
  BY ChainKeyIs, KeyDerivation DEF PubKeys, rootAddr
<1>4. m # 0 /\ m - 1 \in 0 .. MaxChain + 3 /\ m \in 1 .. MaxChain + 3 /\ ~(m - 1 \in Bad)
  BY <1>2, <1>3, ChainKeyIs
<1>5. PICK k \in PrivKeys : chainKey[m - 1] = Pub(k)
  BY <1>4 DEF PubKeys
<1>6. chainKey[m] = Pub(chainedPrivKey(k, Pub(k))) /\ chainedPrivKey(k, Pub(k)) \in PrivKeys
  <2>1. chainKey[m] = chainedPubKey(chainKey[m - 1])
    BY <1>4, ChainKeyIs
  <2> HIDE DEF Pub
  <2>2. /\ chainedPrivKey(k, Pub(k)) \in PrivKeys
        /\ Pub(chainedPrivKey(k, Pub(k))) = chainedPubKey(Pub(k))
    BY ChainedKeys
  <2> QED BY <1>5, <2>1, <2>2
<1> QED BY <1>2, <1>6 DEF PubKeys

-----------------------------------------------------------------------------
(* Addresses.  The fields of an address that decide which private key and  *)
(* which place it has are its class and its index.                         *)

LEMMA SecretsAre ==
  ASSUME NEW p \in Passphrases
  PROVE  kdf(p) = p /\ p \in Int /\ p # NoKey
  BY KeyStoreConstants DEF kdf, NoKey

(* unlock: with the key an address was encrypted under it gives the clear  *)
(* text, with any other it gives an error and leaves the address alone.    *)
LEMMA UnlockHolds ==
  ASSUME NEW a, NEW x, NEW p, Holds(a, x, p), p # NoKey
  PROVE  /\ unlock(x, a, p) = [e |-> "nil", s |-> [x EXCEPT !.ct = x.priv[1]]]
         /\ Holds(a, [x EXCEPT !.ct = x.priv[1]], p)
         /\ [x EXCEPT !.ct = x.priv[1]].ct = x.priv[1]
         /\ [x EXCEPT !.ct = x.priv[1]].idx = x.idx
<1> HIDE DEF Pub
<1>1. x.enc /\ x.priv[1] \in PrivKeys /\ Pub(x.priv[1]) = a /\ x.priv[2] = p
      /\ x.ct \in {NoKey, x.priv[1]}
  BY DEF Holds
<1>2. Decrypt(x.priv, p) = x.priv[1]
  BY <1>1 DEF Decrypt
<1>3. unlock(x, a, p) = [e |-> "nil", s |-> [x EXCEPT !.ct = x.priv[1]]]
  BY <1>1, <1>2 DEF unlock, Ok
<1>4. /\ Holds(a, [x EXCEPT !.ct = x.priv[1]], p)
      /\ [x EXCEPT !.ct = x.priv[1]].ct = x.priv[1]
      /\ [x EXCEPT !.ct = x.priv[1]].idx = x.idx
  BY DEF Holds, AddrRec, Secrets
<1> QED BY <1>3, <1>4

LEMMA UnlockRight ==
  ASSUME NEW a, NEW x, NEW p, Holds(a, x, p), p # NoKey
  PROVE  unlock(x, a, p).e = "nil" /\ Pub(unlock(x, a, p).s.ct) = a
<1> DEFINE y == [x EXCEPT !.ct = x.priv[1]]
<1>1. unlock(x, a, p) = [e |-> "nil", s |-> y] /\ Holds(a, y, p) /\ y.ct = x.priv[1]
      /\ y.idx = x.idx
  BY UnlockHolds
<1>2. Pub(x.priv[1]) = a
  BY DEF Holds
<1> HIDE DEF y, Pub
<1> QED BY <1>1, <1>2

LEMMA UnlockWrong ==
  ASSUME NEW a, NEW x, NEW p, NEW key, Holds(a, x, p), p # NoKey, key # p
  PROVE  unlock(x, a, key).e # "nil" /\ unlock(x, a, key).s = x
<1> HIDE DEF Pub
<1>1. x.enc /\ x.priv[2] = p /\ x.ct \in {NoKey, x.priv[1]} /\ x.priv[1] # NoKey
      /\ Pub(NoKey) # a
  BY PubIsInjective DEF Holds
<1>2. Decrypt(x.priv, key) = NoKey
  BY <1>1 DEF Decrypt
<1>3. CASE key = NoKey
  BY <1>1, <1>3 DEF unlock, Err
<1>4. CASE key # NoKey /\ x.ct = NoKey
  BY <1>1, <1>2, <1>4 DEF unlock, Err
<1>5. CASE key # NoKey /\ x.ct # NoKey
  BY <1>1, <1>2, <1>5 DEF unlock, Err
<1> QED BY <1>3, <1>4, <1>5

LEMMA UnlockOthers ==
  ASSUME NEW a, NEW x, NEW key, ~x.enc
  PROVE  unlock(x, a, key).e # "nil" /\ unlock(x, a, key).s = x
  BY DEF unlock, Err

LEMMA LockHolds ==
  ASSUME NEW a, NEW x, NEW p, Holds(a, x, p)
  PROVE  Holds(a, lock(x), p) /\ lock(x).idx = x.idx
  BY DEF Holds, AddrRec, Secrets, lock

LEMMA LockLacks ==
  ASSUME NEW a, NEW x, Lacks(a, x)
  PROVE  lock(x) = x
  BY DEF Lacks, lock

(* encrypt, for a key address that is not encrypted and has a clear text.  *)
LEMMA EncryptGives ==
  ASSUME NEW a, NEW x \in AddrRec, NEW p \in Int, x.kind = "key", x.hasPub, ~x.enc,
         x.ct \in PrivKeys, Pub(x.ct) = a
  PROVE  /\ encrypt(x, p).e = "nil"
         /\ Holds(a, encrypt(x, p).s, p)
         /\ encrypt(x, p).s.idx = x.idx /\ encrypt(x, p).s.ct = x.ct
<1> DEFINE y == [x EXCEPT !.priv = <<x.ct, p>>, !.hasPriv = TRUE, !.enc = TRUE]
<1>1. encrypt(x, p) = [e |-> "nil", s |-> y]
  BY PubIsInjective DEF encrypt, Ok, Encrypt
<1>2. y \in AddrRec /\ y.kind = "key" /\ y.hasPub /\ y.hasPriv /\ y.enc
      /\ y.priv = <<x.ct, p>> /\ y.ct = x.ct /\ y.idx = x.idx
  BY DEF AddrRec, Secrets
<1> HIDE DEF y, Pub
<1>3. Holds(a, y, p)
  BY <1>2 DEF Holds
<1> QED BY <1>1, <1>2, <1>3

LEMMA ChangeKeyGives ==
  ASSUME NEW a, NEW x, NEW p, NEW q \in Int, Holds(a, x, p), p # NoKey
  PROVE  /\ changeEncryptionKey(x, a, p, q).e = "nil"
         /\ Holds(a, changeEncryptionKey(x, a, p, q).s, q)
         /\ changeEncryptionKey(x, a, p, q).s.idx = x.idx
         /\ changeEncryptionKey(x, a, p, q).s.ct = x.priv[1]
<1> DEFINE y == [x EXCEPT !.ct = x.priv[1]]
           z == [y EXCEPT !.priv = <<y.ct, q>>]
<1>1. unlock(x, a, p) = [e |-> "nil", s |-> y] /\ Holds(a, y, p)
      /\ y.ct = x.priv[1] /\ y.idx = x.idx /\ x.hasPriv /\ x.priv[1] \in PrivKeys
      /\ Pub(x.priv[1]) = a
  BY UnlockHolds DEF Holds
<1>2. changeEncryptionKey(x, a, p, q) = [e |-> "nil", s |-> z]
  <2> HIDE DEF y
  <2> QED BY <1>1 DEF changeEncryptionKey, Ok, Encrypt
<1>3. z \in AddrRec /\ z.kind = "key" /\ z.hasPub /\ z.hasPriv /\ z.enc
      /\ z.priv = <<y.ct, q>> /\ z.ct = y.ct /\ z.idx = y.idx
  <2>1. y \in AddrRec /\ y.kind = "key" /\ y.hasPub /\ y.hasPriv /\ y.enc
        /\ <<y.ct, q>> \in Secrets \X Int
    BY <1>1 DEF Holds, Secrets
  <2> HIDE DEF y
  <2>2. z \in AddrRec
    BY <2>1 DEF AddrRec
  <2>3. z.kind = y.kind /\ z.hasPub = y.hasPub /\ z.hasPriv = y.hasPriv /\ z.enc = y.enc
        /\ z.ct = y.ct /\ z.idx = y.idx
    BY <2>1 DEF AddrRec
  <2>4. z.priv = <<y.ct, q>>
    BY <2>1 DEF AddrRec
  <2> QED BY <2>1, <2>2, <2>3, <2>4
<1> HIDE DEF y, z, Pub
<1>4. Holds(a, z, q)
  BY <1>1, <1>3 DEF Holds
<1> QED BY <1>1, <1>2, <1>3, <1>4

LEMMA SyncFields ==
  ASSUME NEW x \in AddrRec, NEW st, NEW h \in Int
  PROVE  LET y == setSyncStatus(x, st, h) IN
         /\ y \in AddrRec /\ y.idx = x.idx /\ y.kind = x.kind /\ y.enc = x.enc
         /\ y.hasPub = x.hasPub /\ y.hasPriv = x.hasPriv /\ y.priv = x.priv
         /\ y.ct = x.ct /\ y.first = x.first
<1> DEFINE y == setSyncStatus(x, st, h)
<1>1. PICK u \in BOOLEAN : u = (st # "full")
  OBVIOUS
<1>2. PICK q \in BOOLEAN : q = (st = "partial")
  OBVIOUS
<1>3. PICK n \in Int : n = IF st = "partial" THEN h ELSE 0
  OBVIOUS
<1>4. y = [x EXCEPT !.unsynced = u, !.partial = q, !.psh = n]
  BY <1>1, <1>2, <1>3 DEF setSyncStatus
<1> HIDE DEF y
<1>5. y \in AddrRec
  BY <1>4 DEF AddrRec
<1>6. y.idx = x.idx /\ y.kind = x.kind /\ y.enc = x.enc
  BY <1>4 DEF AddrRec
<1>7. y.hasPub = x.hasPub /\ y.hasPriv = x.hasPriv /\ y.priv = x.priv
  BY <1>4 DEF AddrRec
<1>8. y.ct = x.ct /\ y.first = x.first
  BY <1>4 DEF AddrRec
<1> QED BY <1>5, <1>6, <1>7, <1>8 DEF y

LEMMA SyncKeeps ==
  ASSUME NEW a, NEW x, NEW st, NEW h \in Int
  PROVE  /\ IsScript(a, x) => /\ IsScript(a, setSyncStatus(x, st, h))
                            /\ setSyncStatus(x, st, h).hasPub = x.hasPub
         /\ \A p : Holds(a, x, p) => Holds(a, setSyncStatus(x, st, h), p)
         /\ Lacks(a, x) => Lacks(a, setSyncStatus(x, st, h))
<1> DEFINE y == setSyncStatus(x, st, h)
<1>1. ASSUME x \in AddrRec
      PROVE  /\ y \in AddrRec /\ y.idx = x.idx /\ y.kind = x.kind /\ y.enc = x.enc
             /\ y.hasPub = x.hasPub /\ y.hasPriv = x.hasPriv /\ y.priv = x.priv
             /\ y.ct = x.ct /\ y.first = x.first
  BY <1>1, SyncFields
<1> HIDE DEF y
<1> QED BY <1>1 DEF IsScript, Holds, Lacks, y

LEMMA WatchingLacks ==
  ASSUME NEW a, NEW x, NEW p, Holds(a, x, p) \/ Lacks(a, x)
  PROVE  Lacks(a, watchingKey(x)) /\ watchingKey(x).idx = x.idx
<1>1. x \in AddrRec /\ x.kind = "key" /\ x.hasPub /\ a \in PubKeys
  BY DEF Holds, Lacks, PubKeys
<1> DEFINE y == watchingKey(x)
<1>2. y \in AddrRec /\ y.idx = x.idx /\ y.kind = x.kind /\ y.hasPub = x.hasPub
      /\ ~y.hasPriv /\ ~y.enc /\ y.ct = NoKey
  <2>0. NoCipher \in Secrets \X Int /\ NoKey \in Secrets
    BY DEF NoCipher, NoKey, Secrets
  <2>1. y \in AddrRec
    BY <1>1, <2>0 DEF AddrRec, watchingKey
  <2>2. y.idx = x.idx /\ y.kind = x.kind /\ y.hasPub = x.hasPub
    BY <1>1 DEF AddrRec, watchingKey
  <2>3. ~y.hasPriv /\ ~y.enc
    BY <1>1 DEF AddrRec, watchingKey
  <2>4. y.ct = NoKey
    BY <1>1 DEF AddrRec, watchingKey
  <2> QED BY <2>1, <2>2, <2>3, <2>4
<1> HIDE DEF y
<1> QED BY <1>1, <1>2 DEF Lacks, y

LEMMA WatchingScriptKeeps ==
  ASSUME NEW a, NEW x, IsScript(a, x)
  PROVE  IsScript(a, watchingScript(x))
<1> DEFINE y == watchingScript(x)
<1>1. x \in AddrRec
  BY DEF IsScript
<1>2. y \in AddrRec
  BY <1>1 DEF AddrRec, watchingScript
<1>3. y.kind = x.kind /\ y.idx = x.idx /\ y.hasPriv = x.hasPriv /\ y.enc = x.enc
  BY <1>1 DEF AddrRec, watchingScript
<1> HIDE DEF y
<1>4. IsScript(a, y)
  BY <1>2, <1>3 DEF IsScript
<1> QED BY <1>4 DEF y

LEMMA NewAddresses ==
  ASSUME NEW h \in Nat
  PROVE  /\ \A a \in PubKeys : Lacks(a, newBtcAddressWithoutPrivkey(h))
         /\ \A k \in PrivKeys : LET x == newBtcAddress(k, h) IN
              x \in AddrRec /\ x.kind = "key" /\ x.hasPub /\ ~x.enc /\ x.ct = k
         /\ \A a \in Scripts : IsScript(a, newScriptAddress(h)) /\ newScriptAddress(h).hasPub
         /\ newBtcAddressWithoutPrivkey(h).first = h
<1>1. newBtcAddressWithoutPrivkey(h) \in AddrRec
  BY DEF newBtcAddressWithoutPrivkey, AddrRec, Secrets, NoCipher, NoKey
<1>2. \A a \in PubKeys : Lacks(a, newBtcAddressWithoutPrivkey(h))
  BY <1>1 DEF newBtcAddressWithoutPrivkey, Lacks
<1>3. ASSUME NEW k \in PrivKeys
      PROVE  LET x == newBtcAddress(k, h) IN
             x \in AddrRec /\ x.kind = "key" /\ x.hasPub /\ ~x.enc /\ x.ct = k
  BY <1>1 DEF newBtcAddress, newBtcAddressWithoutPrivkey, AddrRec, Secrets, NoCipher, NoKey
<1>4. ASSUME NEW a \in Scripts
      PROVE  IsScript(a, newScriptAddress(h)) /\ newScriptAddress(h).hasPub
  <2> DEFINE x == newBtcAddressWithoutPrivkey(h)
             y == newScriptAddress(h)
  <2>1. ~x.hasPriv /\ ~x.enc /\ x.hasPub
    BY DEF newBtcAddressWithoutPrivkey
  <2>2. y = [x EXCEPT !.kind = "script", !.idx = importedKeyChainIdx, !.createNext = FALSE]
    BY DEF newScriptAddress
  <2> HIDE DEF x, y
  <2>3. y \in AddrRec
    <3>1. x \in AddrRec /\ importedKeyChainIdx \in Int
      BY <1>1 DEF x, importedKeyChainIdx
    <3> QED BY <2>2, <3>1 DEF AddrRec
  <2>4. y.kind = "script" /\ y.idx = importedKeyChainIdx
    BY <1>1, <2>2 DEF AddrRec, x
  <2>5. y.hasPriv = x.hasPriv /\ y.enc = x.enc /\ y.hasPub = x.hasPub
    BY <1>1, <2>2 DEF AddrRec, x
  <2> QED BY <2>1, <2>3, <2>4, <2>5 DEF IsScript, y
<1> QED BY <1>2, <1>3, <1>4 DEF newBtcAddressWithoutPrivkey

-----------------------------------------------------------------------------
(* Stores.  The chain map is the chain of public keys; every address is in *)
(* its place; a key is missing only behind missingKeysStart, and none is   *)
(* while the store is unlocked; the keys are encrypted under p.            *)
Formed(s) ==
  s \in [vers : {s.vers}, watching : {s.watching}, highestUsed : {s.highestUsed},
         recent : {s.recent}, addrs : {s.addrs}, chain : {s.chain},
         lastChainIdx : {s.lastChainIdx},
         missingKeysStart : {s.missingKeysStart}, secret : {s.secret}]

Placed(last, a, x) ==
  \/ x.idx = importedKeyChainIdx
  \/ x.idx \in -1 .. last /\ chainKey[x.idx + 1] = a

GoodScript(s, a, x) == IsScript(a, x) /\ (s.watching \/ x.hasPub)

GoodKey(s, p, a, x) ==
  /\ Placed(s.lastChainIdx, a, x)
  /\ \/ ~s.watching /\ Holds(a, x, p)
     \/ Lacks(a, x) /\ (s.watching \/ (s.missingKeysStart # -1 /\ s.missingKeysStart <= x.idx))

GoodChain(s) ==
  /\ s.lastChainIdx \in -1 .. MaxChain + 2
  /\ s.highestUsed \in -1 .. s.lastChainIdx
  /\ s.missingKeysStart \in -1 .. s.lastChainIdx + 1
  /\ s.chain = [i \in -1 .. s.lastChainIdx |-> chainKey[i + 1]]
  /\ s.recent.lastHeight \in Nat

GoodAddrs(s, p) ==
  /\ s.addrs = [a \in DOMAIN s.addrs |-> s.addrs[a]]
  /\ \A i \in -1 .. s.lastChainIdx :
       chainKey[i + 1] \in DOMAIN s.addrs /\ s.addrs[chainKey[i + 1]].idx = i
  /\ \A a \in DOMAIN s.addrs : GoodScript(s, a, s.addrs[a]) \/ GoodKey(s, p, a, s.addrs[a])

Good(s, p) ==
  /\ Formed(s) /\ GoodChain(s) /\ GoodAddrs(s, p)
  /\ s.watching \in BOOLEAN /\ ~LT(s.vers, VersUnsetNeedsPrivkeyFlag)
  /\ s.secret \in {NoKey, p}
  /\ s.secret # NoKey => s.missingKeysStart = -1 /\ ~s.watching

(* The file is what writeTo made of such a store.                          *)
FileGood ==
  file # NoFile => \E s : Good(s, fileInForce) /\ writable(s) /\ s.lastChainIdx <= MaxChain
                          /\ file = writeTo(s)

(* What a PrivKey call in progress can rely on: it is about a key address  *)
(* of the store; a locked store holds no clear text of that address; and   *)
(* what the call compared is still there unless Lock has run since.        *)
Calls ==
  {Idle}
  \cup [at : {"checked"}, addr : PubKeys, secret : {call.secret}, locked : BOOLEAN]
  \cup [at : {"decrypted", "saved", "compared"}, addr : PubKeys, key : Secrets,
        locked : BOOLEAN]

CallGood ==
  /\ call \in Calls
  /\ call.at # "idle" =>
       /\ call.addr \in DOMAIN store.addrs
       /\ store.secret = NoKey => store.addrs[call.addr].ct = NoKey
       /\ call.at = "compared" /\ ~call.locked => store.addrs[call.addr].ct # NoKey

IInv ==
  /\ inForce \in Passphrases /\ fileInForce \in Passphrases
  /\ Good(store, inForce) /\ store.lastChainIdx <= MaxChain
  /\ FileGood /\ CallGood /\ PrivKeyIsRightOrZeroed

(* A store t follows a store s when no address is lost, an unlocked store  *)
(* stays unlocked with every clear text it has, and no clear text appears  *)
(* in one that is locked.  Every operation but Lock leaves such a store.   *)
Follows(s, t) ==
  /\ s.secret # NoKey => t.secret # NoKey
  /\ \A a \in DOMAIN s.addrs :
       /\ a \in DOMAIN t.addrs
       /\ s.secret # NoKey /\ s.addrs[a].ct # NoKey => t.addrs[a].ct # NoKey
       /\ t.secret = NoKey /\ s.addrs[a].ct = NoKey => t.addrs[a].ct = NoKey

LEMMA FollowsTrans ==
  ASSUME NEW s, NEW t, NEW u, Follows(s, t), Follows(t, u)
  PROVE  Follows(s, u)
  BY DEF Follows

LEMMA FollowsSame ==
  ASSUME NEW s, NEW t, t.addrs = s.addrs, t.secret = s.secret
  PROVE  Follows(s, t)
  BY DEF Follows

(* The class of an address decides whether it is good; nothing else does.  *)
GoodAddr(s, p, a, x) == GoodScript(s, a, x) \/ GoodKey(s, p, a, x)

LEMMA Constants ==
  MaxChain \in Nat /\ rootKeyChainIdx = -1 /\ importedKeyChainIdx = -2 /\ MaxHeight \in Nat
  BY KeyStoreConstants DEF rootKeyChainIdx, importedKeyChainIdx

(* The root, and the places of the chain.                                  *)
LEMMA ChainPlaces ==
  ASSUME NEW s, NEW p, Good(s, p), NEW i \in -1 .. s.lastChainIdx
  PROVE  /\ i \in DOMAIN s.chain /\ s.chain[i] = chainKey[i + 1]
         /\ chainKey[i + 1] \in DOMAIN s.addrs /\ chainKey[i + 1] \in PubKeys
         /\ s.addrs[chainKey[i + 1]].idx = i
         /\ GoodKey(s, p, chainKey[i + 1], s.addrs[chainKey[i + 1]])
<1>1. i + 1 \in 0 .. MaxChain + 3
  BY Constants DEF Good, GoodChain
<1>2. chainKey[i + 1] \in PubKeys /\ chainKey[i + 1] \notin Scripts
  BY <1>1, ChainKeysArePublic, ScriptsApart
<1>3. /\ s.chain = [j \in -1 .. s.lastChainIdx |-> chainKey[j + 1]]
      /\ chainKey[i + 1] \in DOMAIN s.addrs /\ s.addrs[chainKey[i + 1]].idx = i
      /\ \A a \in DOMAIN s.addrs : GoodScript(s, a, s.addrs[a]) \/ GoodKey(s, p, a, s.addrs[a])
  BY DEF Good, GoodChain, GoodAddrs
<1>4. ~GoodScript(s, chainKey[i + 1], s.addrs[chainKey[i + 1]])
  BY <1>2 DEF GoodScript, IsScript
<1>5. i \in DOMAIN s.chain /\ s.chain[i] = chainKey[i + 1]
  BY <1>3
<1> QED BY <1>2, <1>3, <1>4, <1>5

LEMMA RootPlace ==
  ASSUME NEW s, NEW p, Good(s, p)
  PROVE  /\ rootAddr \in DOMAIN s.addrs /\ s.addrs[rootAddr].idx = -1
         /\ GoodKey(s, p, rootAddr, s.addrs[rootAddr])
         /\ s.chain[-1] = rootAddr
<1>1. -1 \in -1 .. s.lastChainIdx /\ -1 + 1 = 0
  BY DEF Good, GoodChain
<1>2. chainKey[-1 + 1] = rootAddr
  BY <1>1, ChainKeyIs
<1> QED BY <1>1, <1>2, ChainPlaces

(* An address is replaced by another in the same place and as good.        *)
LEMMA ReplaceAddr ==
  ASSUME NEW s, NEW p, Good(s, p), NEW a \in DOMAIN s.addrs,
         NEW y, y.idx = s.addrs[a].idx, GoodAddr(s, p, a, y)
  PROVE  LET t == [s EXCEPT !.addrs[a] = y] IN
         /\ Good(t, p)
         /\ DOMAIN t.addrs = DOMAIN s.addrs
         /\ t.addrs[a] = y /\ \A b \in DOMAIN s.addrs : b # a => t.addrs[b] = s.addrs[b]
         /\ t.chain = s.chain /\ t.lastChainIdx = s.lastChainIdx
         /\ t.highestUsed = s.highestUsed /\ t.secret = s.secret
         /\ t.watching = s.watching /\ t.missingKeysStart = s.missingKeysStart
         /\ t.recent = s.recent
         /\ /\ s.addrs[a].ct # NoKey => y.ct # NoKey
            /\ s.secret = NoKey /\ s.addrs[a].ct = NoKey => y.ct = NoKey
            => Follows(s, t)
<1> DEFINE t == [s EXCEPT !.addrs[a] = y]
<1>0. Formed(s)
  BY DEF Good
<1>1. /\ t.vers = s.vers /\ t.watching = s.watching /\ t.highestUsed = s.highestUsed
      /\ t.recent = s.recent /\ t.chain = s.chain /\ t.lastChainIdx = s.lastChainIdx
      /\ t.missingKeysStart = s.missingKeysStart /\ t.secret = s.secret
      /\ t.addrs = [s.addrs EXCEPT ![a] = y]
  BY <1>0 DEF Formed
<1>2. Formed(t)
  BY <1>0 DEF Formed
<1>3. s.addrs = [b \in DOMAIN s.addrs |-> s.addrs[b]]
  BY DEF Good, GoodAddrs
<1>4. /\ t.addrs = [b \in DOMAIN t.addrs |-> t.addrs[b]]
      /\ DOMAIN t.addrs = DOMAIN s.addrs
      /\ t.addrs[a] = y /\ \A b \in DOMAIN s.addrs : b # a => t.addrs[b] = s.addrs[b]
  BY <1>1, <1>3
<1> HIDE DEF t
<1>5. GoodChain(t)
  BY <1>1 DEF Good, GoodChain
<1>6. GoodAddrs(t, p)
  <2>1. ASSUME NEW i \in -1 .. t.lastChainIdx
        PROVE  chainKey[i + 1] \in DOMAIN t.addrs /\ t.addrs[chainKey[i + 1]].idx = i
    BY <1>1, <1>4 DEF Good, GoodAddrs
  <2>2. ASSUME NEW b \in DOMAIN t.addrs
        PROVE  GoodScript(t, b, t.addrs[b]) \/ GoodKey(t, p, b, t.addrs[b])
    <3>1. GoodAddr(s, p, b, t.addrs[b])
      BY <1>4 DEF Good, GoodAddrs, GoodAddr
    <3> QED BY <1>1, <3>1 DEF GoodAddr, GoodScript, GoodKey
  <2> QED BY <1>4, <2>1, <2>2 DEF GoodAddrs
<1>7. Good(t, p)
  BY <1>1, <1>2, <1>5, <1>6 DEF Good
<1>8. ASSUME s.addrs[a].ct # NoKey => y.ct # NoKey,
             s.secret = NoKey /\ s.addrs[a].ct = NoKey => y.ct = NoKey
      PROVE  Follows(s, t)
  BY <1>1, <1>4, <1>8 DEF Follows
<1> QED BY <1>1, <1>4, <1>7, <1>8 DEF t

LEMMA SyncKeepsGood ==
  ASSUME NEW s, NEW p, NEW a, NEW x, NEW st, NEW h \in Int, GoodAddr(s, p, a, x)
  PROVE  /\ GoodAddr(s, p, a, setSyncStatus(x, st, h))
         /\ setSyncStatus(x, st, h).idx = x.idx /\ setSyncStatus(x, st, h).ct = x.ct
<1>1. x \in AddrRec
  BY DEF GoodAddr, GoodScript, GoodKey, IsScript, Holds, Lacks
<1>2. setSyncStatus(x, st, h).idx = x.idx /\ setSyncStatus(x, st, h).ct = x.ct
  BY <1>1, SyncFields
<1> QED BY <1>2, SyncKeeps DEF GoodAddr, GoodScript, GoodKey, Placed

(* A store with the same chain and the same addresses in the same places.  *)
LEMMA SameShape ==
  ASSUME NEW s, NEW p, Good(s, p), NEW t, NEW q, Formed(t),
         t.vers = s.vers, t.highestUsed = s.highestUsed, t.chain = s.chain,
         t.lastChainIdx = s.lastChainIdx, t.recent.lastHeight \in Nat,
         t.addrs = [a \in DOMAIN t.addrs |-> t.addrs[a]],
         DOMAIN t.addrs = DOMAIN s.addrs,
         \A a \in DOMAIN s.addrs : t.addrs[a].idx = s.addrs[a].idx /\ GoodAddr(t, q, a, t.addrs[a]),
         t.watching \in BOOLEAN, t.secret \in {NoKey, q},
         t.missingKeysStart \in -1 .. s.lastChainIdx + 1,
         t.secret # NoKey => t.missingKeysStart = -1 /\ ~t.watching
  PROVE  Good(t, q)
<1>1. GoodChain(t)
  BY DEF Good, GoodChain
<1>2. GoodAddrs(t, q)
  <2>1. ASSUME NEW i \in -1 .. t.lastChainIdx
        PROVE  chainKey[i + 1] \in DOMAIN t.addrs /\ t.addrs[chainKey[i + 1]].idx = i
    BY ChainPlaces
  <2> QED BY <2>1 DEF GoodAddrs, GoodAddr
<1> QED BY <1>1, <1>2 DEF Good

(* Lock.                                                                   *)
LEMMA LockGood ==
  ASSUME NEW s, NEW p, Good(s, p)
  PROVE  LET t == Lock(s).s IN
         /\ Good(t, p) /\ t.secret = NoKey
         /\ t.chain = s.chain /\ t.lastChainIdx = s.lastChainIdx
         /\ t.highestUsed = s.highestUsed /\ t.watching = s.watching
         /\ t.missingKeysStart = s.missingKeysStart
         /\ DOMAIN t.addrs = DOMAIN s.addrs
<1> DEFINE t == Lock(s).s
<1>0. Formed(s) /\ s.watching \in BOOLEAN
  BY DEF Good
<1>1. CASE s.watching
  <2>1. t = s /\ s.secret = NoKey
    BY <1>1 DEF Lock, Err, Good
  <2> QED BY <2>1
<1>2. CASE ~s.watching
  <2> DEFINE A == [a \in DOMAIN s.addrs |->
                     IF s.addrs[a].kind = "key" THEN lock(s.addrs[a]) ELSE s.addrs[a]]
  <2>1. t = [s EXCEPT !.secret = NoKey, !.addrs = A]
    BY <1>2 DEF Lock
  <2> HIDE DEF A, t
  <2>2. /\ t.vers = s.vers /\ t.watching = s.watching /\ t.highestUsed = s.highestUsed
        /\ t.recent = s.recent /\ t.chain = s.chain /\ t.lastChainIdx = s.lastChainIdx
        /\ t.missingKeysStart = s.missingKeysStart /\ t.secret = NoKey /\ t.addrs = A
    BY <1>0, <2>1 DEF Formed
  <2>3. Formed(t)
    BY <1>0, <2>1 DEF Formed
  <2>4. ASSUME NEW a \in DOMAIN s.addrs
        PROVE  t.addrs[a].idx = s.addrs[a].idx /\ GoodAddr(t, p, a, t.addrs[a])
    <3>1. t.addrs[a] = IF s.addrs[a].kind = "key" THEN lock(s.addrs[a]) ELSE s.addrs[a]
      BY <2>2 DEF A
    <3>2. GoodAddr(s, p, a, s.addrs[a])
      BY DEF Good, GoodAddrs, GoodAddr
    <3>3. CASE GoodScript(s, a, s.addrs[a])
      BY <2>2, <3>1, <3>3 DEF IsScript, GoodAddr, GoodScript
    <3>4. CASE Holds(a, s.addrs[a], p) /\ GoodKey(s, p, a, s.addrs[a])
      <4>1. Holds(a, t.addrs[a], p) /\ t.addrs[a].idx = s.addrs[a].idx
        BY <3>1, <3>4, LockHolds DEF Holds
      <4> QED BY <1>2, <2>2, <3>4, <4>1 DEF GoodAddr, GoodScript, GoodKey, Placed
    <3>5. CASE Lacks(a, s.addrs[a]) /\ GoodKey(s, p, a, s.addrs[a])
      <4>1. t.addrs[a] = s.addrs[a]
        BY <3>1, <3>5, LockLacks DEF Lacks
      <4> QED BY <2>2, <3>5, <4>1 DEF GoodAddr, GoodScript, GoodKey, Placed
    <3> QED BY <3>2, <3>3, <3>4, <3>5 DEF GoodAddr, GoodScript, GoodKey
  <2>5. DOMAIN t.addrs = DOMAIN s.addrs /\ t.addrs = [a \in DOMAIN t.addrs |-> t.addrs[a]]
    BY <2>2 DEF A
  <2>6. s.missingKeysStart \in -1 .. s.lastChainIdx + 1 /\ s.recent.lastHeight \in Nat
    BY DEF Good, GoodChain
  <2>7. Good(t, p)
    BY <1>0, <2>2, <2>3, <2>4, <2>5, <2>6, SameShape
  <2> QED BY <2>2, <2>5, <2>7 DEF t
<1> QED BY <1>0, <1>1, <1>2

(* ExportWatchingWallet.                                                   *)
LEMMA ExportGood ==
  ASSUME NEW s, NEW p, Good(s, p), ~s.watching
  PROVE  LET t == ExportWatchingWallet(s).s IN
         /\ Good(t, p) /\ t.secret = NoKey /\ t.watching
         /\ t.chain = s.chain /\ t.lastChainIdx = s.lastChainIdx
         /\ t.highestUsed = s.highestUsed
         /\ DOMAIN t.addrs = DOMAIN s.addrs
<1> DEFINE t == ExportWatchingWallet(s).s
           A == [a \in DOMAIN s.addrs |->
                   IF s.addrs[a].kind = "key" THEN watchingKey(s.addrs[a])
                                              ELSE watchingScript(s.addrs[a])]
<1>0. Formed(s)
  BY DEF Good
<1>1. t = [s EXCEPT !.watching = TRUE, !.secret = NoKey, !.missingKeysStart = 0, !.addrs = A]
  BY DEF ExportWatchingWallet, Ok
<1> HIDE DEF A, t
<1>2. /\ t.vers = s.vers /\ t.watching = TRUE /\ t.highestUsed = s.highestUsed
      /\ t.recent = s.recent /\ t.chain = s.chain /\ t.lastChainIdx = s.lastChainIdx
      /\ t.missingKeysStart = 0 /\ t.secret = NoKey /\ t.addrs = A
  BY <1>0, <1>1 DEF Formed
<1>3. Formed(t)
  BY <1>0, <1>1 DEF Formed
<1>4. ASSUME NEW a \in DOMAIN s.addrs
      PROVE  t.addrs[a].idx = s.addrs[a].idx /\ GoodAddr(t, p, a, t.addrs[a])
  <2>1. t.addrs[a] = IF s.addrs[a].kind = "key" THEN watchingKey(s.addrs[a])
                                                ELSE watchingScript(s.addrs[a])
    BY <1>2 DEF A
  <2>2. GoodAddr(s, p, a, s.addrs[a])
    BY DEF Good, GoodAddrs, GoodAddr
  <2>3. CASE GoodScript(s, a, s.addrs[a])
    <3>1. IsScript(a, t.addrs[a])
      BY <2>1, <2>3, WatchingScriptKeeps DEF IsScript, GoodScript
    <3> QED BY <1>2, <2>3, <3>1 DEF IsScript, GoodAddr, GoodScript
  <2>4. CASE GoodKey(s, p, a, s.addrs[a])
    <3>1. Lacks(a, t.addrs[a]) /\ t.addrs[a].idx = s.addrs[a].idx
      BY <2>1, <2>4, WatchingLacks DEF GoodKey, Holds, Lacks
    <3> QED BY <1>2, <2>4, <3>1 DEF GoodAddr, GoodScript, GoodKey, Placed
  <2> QED BY <2>2, <2>3, <2>4 DEF GoodAddr, GoodScript
<1>5. DOMAIN t.addrs = DOMAIN s.addrs /\ t.addrs = [a \in DOMAIN t.addrs |-> t.addrs[a]]
  BY <1>2 DEF A
<1>6. 0 \in -1 .. s.lastChainIdx + 1 /\ s.recent.lastHeight \in Nat
  BY DEF Good, GoodChain
<1>7. Good(t, p)
  BY <1>2, <1>3, <1>4, <1>5, <1>6, SameShape
<1> QED BY <1>2, <1>5, <1>7 DEF t

(* ChangePassphrase of a store without missing keys.                       *)
LEMMA ChangePassphraseGood ==
  ASSUME NEW s, NEW p \in Passphrases, NEW q \in Passphrases, Good(s, p),
         NEW r \in ChangePassphrase(s, q)
  PROVE  /\ r.e = "nil" => Good(r.s, q)
         /\ r.e # "nil" => r.s = s
         /\ r.s.lastChainIdx = s.lastChainIdx
         /\ DOMAIN r.s.addrs = DOMAIN s.addrs /\ Follows(s, r.s)
<1>0. Formed(s) /\ s.watching \in BOOLEAN
  BY DEF Good
<1>1. CASE s.watching \/ isLocked(s)
  <2>1. r.s = s /\ r.e # "nil"
    <3>1. CASE s.watching
      <4>1. ChangePassphrase(s, q) = {[e |-> "ErrWatchingOnly", s |-> s]}
        BY <3>1 DEF ChangePassphrase, Err
      <4> QED BY <4>1
    <3>2. CASE ~s.watching
      <4>1. ChangePassphrase(s, q) = {[e |-> "ErrLocked", s |-> s]}
        BY <1>1, <3>2 DEF ChangePassphrase, Err
      <4> QED BY <4>1
    <3> QED BY <1>0, <3>1, <3>2
  <2> QED BY <2>1, FollowsSame
<1>2. CASE ~s.watching /\ ~isLocked(s)
  <2> DEFINE keys == {a \in DOMAIN s.addrs : s.addrs[a].kind = "key"}
             re(a) == changeEncryptionKey(s.addrs[a], a, s.secret, kdf(q))
             A == [a \in DOMAIN s.addrs |-> IF a \in keys THEN re(a).s ELSE s.addrs[a]]
             t == [[s EXCEPT !.addrs = A] EXCEPT !.secret = kdf(q)]
  <2>1. s.secret = p /\ s.missingKeysStart = -1
    BY <1>2 DEF isLocked, Good
  <2>2. kdf(q) = q /\ q \in Int /\ q # NoKey /\ p # NoKey
    BY SecretsAre
  <2>3. ASSUME NEW a \in keys
        PROVE  Holds(a, s.addrs[a], p) /\ GoodKey(s, p, a, s.addrs[a])
    <3>1. a \in DOMAIN s.addrs /\ s.addrs[a].kind = "key"
      OBVIOUS
    <3>2. GoodAddr(s, p, a, s.addrs[a])
      BY <3>1 DEF Good, GoodAddrs, GoodAddr
    <3> QED BY <1>2, <2>1, <3>1, <3>2 DEF GoodAddr, GoodScript, GoodKey, IsScript
  <2>4. ASSUME NEW a \in keys
        PROVE  /\ re(a).e = "nil" /\ Holds(a, re(a).s, q) /\ re(a).s.idx = s.addrs[a].idx
               /\ re(a).s.ct # NoKey
    <3>1. s.addrs[a].priv[1] # NoKey
      BY <2>3, PubIsInjective DEF Holds
    <3> QED BY <2>1, <2>2, <2>3, <3>1, ChangeKeyGives
  <2>5. r = [e |-> "nil", s |-> t]
    <3>1. {a \in keys : re(a).e # "nil"} = {}
      BY <2>4
    <3> QED BY <1>2, <3>1 DEF ChangePassphrase, Ok
  <2> HIDE DEF re, keys
  <2>6. A = [a \in DOMAIN A |-> A[a]] /\ DOMAIN A = DOMAIN s.addrs
    OBVIOUS
  <2>7. ASSUME NEW a \in DOMAIN s.addrs
        PROVE  A[a].idx = s.addrs[a].idx /\ (GoodScript(s, a, A[a]) \/ (Holds(a, A[a], q) /\ Placed(s.lastChainIdx, a, A[a])))
    <3>1. CASE a \in keys
      <4>1. A[a] = re(a).s
        BY <3>1
      <4>2. Placed(s.lastChainIdx, a, s.addrs[a])
        BY <2>3, <3>1 DEF GoodKey
      <4> QED BY <2>4, <3>1, <4>1, <4>2 DEF Placed
    <3>2. CASE a \notin keys
      <4>1. A[a] = s.addrs[a]
        BY <3>2
      <4>2. GoodAddr(s, p, a, s.addrs[a])
        BY DEF Good, GoodAddrs, GoodAddr
      <4>3. s.addrs[a].kind # "key"
        BY <3>2 DEF keys
      <4> QED BY <4>1, <4>2, <4>3 DEF GoodAddr, GoodScript, GoodKey, Holds, Lacks
    <3> QED BY <3>1, <3>2
  <2>70. \A a \in DOMAIN s.addrs : s.addrs[a].ct # NoKey => A[a].ct # NoKey
    BY <2>4
  <2> HIDE DEF A
  <2>8. /\ t.vers = s.vers /\ t.watching = s.watching /\ t.highestUsed = s.highestUsed
        /\ t.recent = s.recent /\ t.chain = s.chain /\ t.lastChainIdx = s.lastChainIdx
        /\ t.missingKeysStart = s.missingKeysStart /\ t.secret = kdf(q) /\ t.addrs = A
    BY <1>0 DEF Formed
  <2>9. Formed(t)
    BY <1>0 DEF Formed
  <2> HIDE DEF t
  <2>10. \A a \in DOMAIN s.addrs : t.addrs[a].idx = s.addrs[a].idx /\ GoodAddr(t, q, a, t.addrs[a])
    BY <1>2, <2>7, <2>8 DEF GoodAddr, GoodScript, GoodKey
  <2>11. s.missingKeysStart \in -1 .. s.lastChainIdx + 1 /\ s.recent.lastHeight \in Nat
    BY DEF Good, GoodChain
  <2>12. Good(t, q)
    BY <1>0, <1>2, <2>1, <2>2, <2>6, <2>8, <2>9, <2>10, <2>11, SameShape
  <2>13. Follows(s, t)
    BY <2>2, <2>6, <2>8, <2>70 DEF Follows
  <2> QED BY <2>5, <2>6, <2>8, <2>12, <2>13
<1> QED BY <1>0, <1>1, <1>2

-----------------------------------------------------------------------------
(* Growing the chain.                                                      *)

LEMMA NewPlace ==
  ASSUME NEW a, NEW x, NEW i \in Int
  PROVE  /\ \A p : Holds(a, x, p) => Holds(a, [x EXCEPT !.idx = i], p)
         /\ Lacks(a, x) => Lacks(a, [x EXCEPT !.idx = i])
         /\ x \in AddrRec => [x EXCEPT !.idx = i].idx = i /\ [x EXCEPT !.idx = i].ct = x.ct
<1> DEFINE y == [x EXCEPT !.idx = i]
<1>1. ASSUME x \in AddrRec
      PROVE  /\ y \in AddrRec /\ y.idx = i /\ y.kind = x.kind /\ y.enc = x.enc
             /\ y.hasPub = x.hasPub /\ y.hasPriv = x.hasPriv /\ y.priv = x.priv
             /\ y.ct = x.ct
  <2>1. y \in AddrRec
    BY <1>1 DEF AddrRec
  <2>2. y.idx = i /\ y.kind = x.kind /\ y.enc = x.enc
    BY <1>1 DEF AddrRec
  <2>3. y.hasPub = x.hasPub /\ y.hasPriv = x.hasPriv /\ y.priv = x.priv
    BY <1>1 DEF AddrRec
  <2>4. y.ct = x.ct
    BY <1>1 DEF AddrRec
  <2> QED BY <2>1, <2>2, <2>3, <2>4
<1> HIDE DEF y
<1>2. (\A p : Holds(a, x, p) => Holds(a, y, p)) /\ (Lacks(a, x) => Lacks(a, y))
  BY <1>1 DEF Holds, Lacks
<1> QED BY <1>1, <1>2 DEF y

LEMMA MarkChange ==
  ASSUME NEW a, NEW x, NEW s, NEW p, GoodAddr(s, p, a, x)
  PROVE  /\ GoodAddr(s, p, a, [x EXCEPT !.change = TRUE])
         /\ [x EXCEPT !.change = TRUE].idx = x.idx /\ [x EXCEPT !.change = TRUE].ct = x.ct
<1> DEFINE y == [x EXCEPT !.change = TRUE]
<1>0. x \in AddrRec
  BY DEF GoodAddr, GoodScript, GoodKey, IsScript, Holds, Lacks
<1>1. y \in AddrRec
  BY <1>0 DEF AddrRec
<1>2. y.idx = x.idx /\ y.kind = x.kind /\ y.enc = x.enc
  BY <1>0 DEF AddrRec
<1>3. y.hasPub = x.hasPub /\ y.hasPriv = x.hasPriv /\ y.priv = x.priv
  BY <1>0 DEF AddrRec
<1>4. y.ct = x.ct
  BY <1>0 DEF AddrRec
<1> HIDE DEF y
<1>5. GoodAddr(s, p, a, y)
  BY <1>1, <1>2, <1>3, <1>4 DEF GoodAddr, GoodScript, GoodKey, IsScript, Holds, Lacks, Placed
<1> QED BY <1>2, <1>4, <1>5 DEF y

(* One more address at the end of the chain.                               *)
LEMMA GrownGood ==
  ASSUME NEW s, NEW p, Good(s, p), s.lastChainIdx <= MaxChain + 1,
         NEW t, Formed(t), NEW y, y.idx = s.lastChainIdx + 1,
         t.vers = s.vers, t.watching = s.watching, t.highestUsed = s.highestUsed,
         t.recent = s.recent, t.secret = s.secret,
         t.lastChainIdx = s.lastChainIdx + 1,
         t.addrs = Put(s.addrs, chainKey[s.lastChainIdx + 2], y),
         t.chain = Put(s.chain, s.lastChainIdx + 1, chainKey[s.lastChainIdx + 2]),
         \/ t.missingKeysStart = s.missingKeysStart
         \/ s.missingKeysStart = -1 /\ t.missingKeysStart = s.lastChainIdx + 1,
         \/ /\ ~s.watching /\ Holds(chainKey[s.lastChainIdx + 2], y, p)
            /\ t.missingKeysStart = s.missingKeysStart
         \/ /\ Lacks(chainKey[s.lastChainIdx + 2], y) /\ s.secret = NoKey
            /\ t.missingKeysStart # -1
  PROVE  Good(t, p)
<1> DEFINE last == s.lastChainIdx
           pub == chainKey[last + 2]
<1>0. last \in -1 .. MaxChain + 1 /\ last + 1 \in -1 .. MaxChain + 2 /\ MaxChain \in Nat
  BY Constants DEF Good, GoodChain
<1>1. /\ DOMAIN t.addrs = DOMAIN s.addrs \cup {pub} /\ t.addrs[pub] = y
      /\ \A a \in DOMAIN s.addrs : a # pub => t.addrs[a] = s.addrs[a]
      /\ t.addrs = [a \in DOMAIN t.addrs |-> t.addrs[a]]
  BY DEF Put
<1>2. GoodChain(t)
  <2>1. s.chain = [i \in -1 .. last |-> chainKey[i + 1]] /\ DOMAIN s.chain = -1 .. last
    BY DEF Good, GoodChain
  <2>2. DOMAIN t.chain = -1 .. last + 1
    BY <1>0, <2>1 DEF Put
  <2>3. ASSUME NEW i \in -1 .. last + 1
        PROVE  t.chain[i] = chainKey[i + 1]
    <3>1. CASE i = last + 1
      <4>1. t.chain[last + 1] = pub
        BY DEF Put
      <4>2. last + 1 + 1 = last + 2
        BY <1>0
      <4> QED BY <3>1, <4>1, <4>2
    <3>2. CASE i # last + 1
      <4>1. i \in -1 .. last
        BY <1>0, <3>2
      <4>2. t.chain[i] = s.chain[i]
        BY <2>1, <3>2, <4>1 DEF Put
      <4> QED BY <2>1, <4>1, <4>2
    <3> QED BY <3>1, <3>2
  <2>4. t.chain = [i \in DOMAIN t.chain |-> t.chain[i]]
    BY DEF Put
  <2>5. t.chain = [i \in -1 .. t.lastChainIdx |-> chainKey[i + 1]]
    BY <2>2, <2>3, <2>4
  <2>6. /\ s.highestUsed \in -1 .. last /\ s.missingKeysStart \in -1 .. last + 1
        /\ s.recent.lastHeight \in Nat
    BY DEF Good, GoodChain
  <2>7. t.highestUsed \in -1 .. t.lastChainIdx /\ t.missingKeysStart \in -1 .. t.lastChainIdx + 1
    BY <1>0, <2>6
  <2> QED BY <1>0, <2>5, <2>6, <2>7 DEF GoodChain
<1>3. ASSUME NEW i \in -1 .. t.lastChainIdx
      PROVE  chainKey[i + 1] \in DOMAIN t.addrs /\ t.addrs[chainKey[i + 1]].idx = i
  <2>1. CASE i = last + 1
    <3>1. chainKey[i + 1] = pub
      BY <1>0, <2>1
    <3> QED BY <1>1, <2>1, <3>1
  <2>2. CASE i # last + 1
    <3>1. i \in -1 .. last /\ i + 1 \in 0 .. MaxChain + 3 /\ last + 2 \in 0 .. MaxChain + 3
          /\ i + 1 # last + 2
      BY <1>0, <2>2
    <3>2. chainKey[i + 1] # pub
      BY <3>1, ChainIsInjective
    <3> QED BY <1>1, <3>1, <3>2, ChainPlaces
  <2> QED BY <2>1, <2>2
<1>4. ASSUME NEW a \in DOMAIN t.addrs
      PROVE  GoodScript(t, a, t.addrs[a]) \/ GoodKey(t, p, a, t.addrs[a])
  <2>0. s.missingKeysStart \in -1 .. last + 1
    BY DEF Good, GoodChain
  <2>1. CASE a = pub
    <3>1. y.idx \in -1 .. t.lastChainIdx /\ chainKey[y.idx + 1] = pub
      BY <1>0
    <3>2. t.missingKeysStart <= y.idx
      BY <1>0, <2>0
    <3> QED BY <1>1, <2>1, <3>1, <3>2 DEF GoodKey, Placed
  <2>2. CASE a # pub
    <3>1. a \in DOMAIN s.addrs /\ t.addrs[a] = s.addrs[a]
      BY <1>1, <2>2
    <3>2. GoodScript(s, a, s.addrs[a]) \/ GoodKey(s, p, a, s.addrs[a])
      BY <3>1 DEF Good, GoodAddrs
    <3>3. Placed(last, a, s.addrs[a]) => Placed(t.lastChainIdx, a, s.addrs[a])
      BY <1>0 DEF Placed
    <3> QED BY <3>1, <3>2, <3>3 DEF GoodKey, GoodScript
  <2> QED BY <2>1, <2>2
<1>5. GoodAddrs(t, p)
  BY <1>1, <1>3, <1>4 DEF GoodAddrs
<1>6. t.secret # NoKey => t.missingKeysStart = -1 /\ ~t.watching
  BY DEF Good
<1> QED BY <1>2, <1>5, <1>6 DEF Good

(* addChained, with the index it takes from the last address.              *)
LEMMA AddChainedIs ==
  ASSUME NEW s, NEW p, Good(s, p), NEW pub, NEW a
  PROVE  LET t == addChained(s, pub, a) IN
         /\ Formed(t)
         /\ t.vers = s.vers /\ t.watching = s.watching /\ t.highestUsed = s.highestUsed
         /\ t.recent = s.recent /\ t.secret = s.secret
         /\ t.missingKeysStart = s.missingKeysStart
         /\ t.lastChainIdx = s.lastChainIdx + 1
         /\ t.addrs = Put(s.addrs, pub, [a EXCEPT !.idx = s.lastChainIdx + 1])
         /\ t.chain = Put(s.chain, s.lastChainIdx + 1, pub)
<1>0. Formed(s)
  BY DEF Good
<1>1. s.lastChainIdx \in -1 .. s.lastChainIdx
  BY DEF Good, GoodChain
<1>2. s.addrs[s.chain[s.lastChainIdx]].idx = s.lastChainIdx
  BY <1>1, ChainPlaces
<1> DEFINE A == Put(s.addrs, pub, [a EXCEPT !.idx = s.lastChainIdx + 1])
           C == Put(s.chain, s.lastChainIdx + 1, pub)
           t == [s EXCEPT !.addrs = A, !.chain = C, !.lastChainIdx = s.lastChainIdx + 1]
<1>3. addChained(s, pub, a) = t
  <2>1. addChained(s, pub, a) = [s EXCEPT !.addrs = A, !.chain = C, !.lastChainIdx = @ + 1]
    BY <1>2 DEF addChained
  <2> HIDE DEF A, C
  <2> QED BY <1>0, <2>1 DEF Formed
<1> HIDE DEF A, C
<1>4. /\ t.vers = s.vers /\ t.watching = s.watching /\ t.highestUsed = s.highestUsed
      /\ t.recent = s.recent /\ t.secret = s.secret
      /\ t.missingKeysStart = s.missingKeysStart
      /\ t.lastChainIdx = s.lastChainIdx + 1 /\ t.addrs = A /\ t.chain = C
  BY <1>0 DEF Formed
<1>5. Formed(t)
  BY <1>0 DEF Formed
<1> QED BY <1>3, <1>4, <1>5 DEF A, C

LEMMA ExtendLockedGood ==
  ASSUME NEW s, NEW p, Good(s, p), s.lastChainIdx <= MaxChain + 1, isLocked(s), NEW h \in Nat
  PROVE  LET r == extendLocked(s, h) IN
         /\ r.e = "nil" /\ Good(r.s, p)
         /\ r.s.lastChainIdx = s.lastChainIdx + 1 /\ r.s.highestUsed = s.highestUsed
         /\ r.s.watching = s.watching /\ Follows(s, r.s)
<1> DEFINE last == s.lastChainIdx
           pub == chainKey[last + 2]
           t == addChained(s, pub, newBtcAddressWithoutPrivkey(h))
           y == [newBtcAddressWithoutPrivkey(h) EXCEPT !.idx = last + 1]
           m == IF t.missingKeysStart = -1 THEN last + 1 ELSE t.missingKeysStart
           z == [t EXCEPT !.missingKeysStart = m]
<1>0. last \in -1 .. MaxChain + 1 /\ last + 2 \in 1 .. MaxChain + 3 /\ last \in -1 .. last
      /\ last + 2 - 1 = last + 1 /\ last + 1 \in Int /\ last + 2 \in 0 .. MaxChain + 3
  <2>1. last \in -1 .. MaxChain + 2 /\ last <= MaxChain + 1 /\ MaxChain \in Nat
    BY Constants DEF Good, GoodChain
  <2> HIDE DEF last
  <2> QED BY <2>1
<1>1. chainedPubKey(s.chain[last]) = pub
  <2>1. s.chain[last] = chainKey[last + 1]
    BY <1>0, ChainPlaces
  <2> QED BY <1>0, <2>1, ChainKeyIs
<1>2. pub \in PubKeys
  BY <1>0, ChainKeysArePublic
<1>3. Lacks(pub, y) /\ y.idx = last + 1
  <2>1. Lacks(pub, newBtcAddressWithoutPrivkey(h))
    BY <1>2, NewAddresses
  <2>2. newBtcAddressWithoutPrivkey(h) \in AddrRec
    BY <2>1 DEF Lacks
  <2> QED BY <1>0, <2>1, <2>2, NewPlace
<1>4. /\ Formed(t)
      /\ t.vers = s.vers /\ t.watching = s.watching /\ t.highestUsed = s.highestUsed
      /\ t.recent = s.recent /\ t.secret = s.secret
      /\ t.missingKeysStart = s.missingKeysStart
      /\ t.lastChainIdx = last + 1
      /\ t.addrs = Put(s.addrs, pub, y)
      /\ t.chain = Put(s.chain, last + 1, pub)
  BY AddChainedIs
<1>5. extendLocked(s, h) = [e |-> "nil", s |-> z]
  <2>1. t.addrs[pub].idx = last + 1
    BY <1>3, <1>4 DEF Put
  <2>2. extendLocked(s, h) = [e |-> "nil", s |-> [t EXCEPT !.missingKeysStart =
            IF @ = rootKeyChainIdx THEN t.addrs[pub].idx ELSE @]]
    BY <1>1 DEF extendLocked, Ok
  <2> HIDE DEF t
  <2> QED BY <1>4, <2>1, <2>2, Constants DEF Formed
<1> HIDE DEF t, y
<1>6. /\ z.vers = s.vers /\ z.watching = s.watching /\ z.highestUsed = s.highestUsed
      /\ z.recent = s.recent /\ z.secret = s.secret
      /\ z.missingKeysStart = IF s.missingKeysStart = -1 THEN last + 1 ELSE s.missingKeysStart
      /\ z.lastChainIdx = last + 1
      /\ z.addrs = Put(s.addrs, pub, y)
      /\ z.chain = Put(s.chain, last + 1, pub)
  BY <1>4 DEF Formed
<1>7. Formed(z)
  BY <1>4 DEF Formed
<1> HIDE DEF z
<1>8. s.secret = NoKey /\ z.missingKeysStart # -1
  BY <1>0, <1>6 DEF isLocked
<1>9. Good(z, p)
  BY <1>3, <1>6, <1>7, <1>8, GrownGood
<1>10. Follows(s, z)
  BY <1>3, <1>6, <1>8 DEF Put, Follows, Lacks
<1> QED BY <1>5, <1>6, <1>9, <1>10

(* The last address of an unlocked store gives the next private key, and   *)
(* its public key is the one that a locked store derives.                  *)
LEMMA ExtendUnlockedGood ==
  ASSUME NEW s, NEW p \in Passphrases, Good(s, p), s.lastChainIdx <= MaxChain + 1,
         ~isLocked(s), NEW h \in Nat
  PROVE  LET r == extendUnlocked(s, h) IN
         /\ r.e = "nil" /\ Good(r.s, p)
         /\ r.s.lastChainIdx = s.lastChainIdx + 1 /\ r.s.highestUsed = s.highestUsed
         /\ r.s.watching = s.watching /\ Follows(s, r.s)
<1> DEFINE last == s.lastChainIdx
           lastPub == chainKey[last + 1]
           x == s.addrs[lastPub]
           x2 == [x EXCEPT !.ct = x.priv[1]]
           k == chainedPrivKey(x.priv[1], lastPub)
           pub == chainKey[last + 2]
           s1 == [s EXCEPT !.addrs[lastPub] = x2]
           a == encrypt(newBtcAddress(k, h), p)
           t == addChained(s1, pub, a.s)
           y == [a.s EXCEPT !.idx = last + 1]
<1>0. last \in -1 .. MaxChain + 1 /\ last + 2 \in 1 .. MaxChain + 3 /\ last \in -1 .. last
      /\ last + 2 - 1 = last + 1 /\ last + 1 \in Int /\ last + 2 \in 0 .. MaxChain + 3
  <2>1. last \in -1 .. MaxChain + 2 /\ last <= MaxChain + 1 /\ MaxChain \in Nat
    BY Constants DEF Good, GoodChain
  <2> HIDE DEF last
  <2> QED BY <2>1
<1>1. s.secret = p /\ ~s.watching /\ s.missingKeysStart = -1 /\ p \in Int /\ p # NoKey
  BY SecretsAre DEF Good, isLocked
<1>2. lastPub \in DOMAIN s.addrs /\ s.chain[last] = lastPub /\ Holds(lastPub, x, p)
      /\ GoodKey(s, p, lastPub, x)
  BY <1>0, <1>1, ChainPlaces DEF GoodKey
<1>3. unlock(x, lastPub, p) = [e |-> "nil", s |-> x2] /\ Holds(lastPub, x2, p)
      /\ x2.ct = x.priv[1] /\ x2.idx = x.idx
  BY <1>1, <1>2, UnlockHolds
<1>4. k \in PrivKeys /\ Pub(k) = pub
  <2>1. x.priv[1] \in PrivKeys /\ Pub(x.priv[1]) = lastPub
    BY <1>2 DEF Holds
  <2>2. k \in PrivKeys /\ Pub(k) = chainedPubKey(lastPub)
    BY <2>1, ChainedKeys
  <2> QED BY <1>0, <2>2, ChainKeyIs
<1>5. extendUnlocked(s, h) = [e |-> "nil", s |-> t]
  <2> HIDE DEF x, x2, k, lastPub, pub
  <2> QED BY <1>1, <1>2, <1>3, <1>4 DEF extendUnlocked, Ok, x, k
<1>6. /\ Good(s1, p) /\ s1.lastChainIdx = last /\ s1.chain = s.chain
      /\ s1.highestUsed = s.highestUsed /\ s1.watching = s.watching
      /\ s1.missingKeysStart = s.missingKeysStart
      /\ DOMAIN s1.addrs = DOMAIN s.addrs /\ Follows(s, s1) /\ s1.secret = s.secret
  <2>1. GoodAddr(s, p, lastPub, x2)
    BY <1>1, <1>2, <1>3 DEF GoodAddr, GoodScript, GoodKey, Placed
  <2>2. x2.ct # NoKey
    BY <1>2, <1>3, PubIsInjective DEF Holds
  <2> HIDE DEF x2, lastPub
  <2> QED BY <1>1, <1>2, <1>3, <2>1, <2>2, ReplaceAddr
<1>7. Holds(pub, y, p) /\ y.idx = last + 1 /\ y.ct # NoKey
  <2> DEFINE n == newBtcAddress(k, h)
  <2>1. n \in AddrRec /\ n.kind = "key" /\ n.hasPub /\ ~n.enc /\ n.ct = k
    BY <1>4, NewAddresses
  <2>2. Holds(pub, a.s, p) /\ a.s.ct = k
    <3>1. a = encrypt(n, p)
      BY <1>1
    <3> HIDE DEF a, n, k, pub
    <3> QED BY <1>1, <1>4, <2>1, <3>1, EncryptGives
  <2>3. a.s \in AddrRec
    BY <2>2 DEF Holds
  <2>4. k # NoKey
    BY <1>4, PubIsInjective
  <2> HIDE DEF a, k
  <2> QED BY <1>0, <2>2, <2>3, <2>4, NewPlace
<1> HIDE DEF s1, a, y
<1>8. /\ Formed(t)
      /\ t.vers = s1.vers /\ t.watching = s1.watching /\ t.highestUsed = s1.highestUsed
      /\ t.recent = s1.recent /\ t.secret = s1.secret
      /\ t.missingKeysStart = s1.missingKeysStart
      /\ t.lastChainIdx = s1.lastChainIdx + 1
      /\ t.addrs = Put(s1.addrs, pub, y)
      /\ t.chain = Put(s1.chain, s1.lastChainIdx + 1, pub)
  BY <1>6, AddChainedIs DEF y
<1> HIDE DEF t
<1>9. Good(t, p)
  BY <1>1, <1>6, <1>7, <1>8, GrownGood
<1>10. Follows(s, t)
  <2>1. Follows(s1, t)
    BY <1>1, <1>6, <1>7, <1>8 DEF Put, Follows
  <2> QED BY <1>6, <2>1, FollowsTrans
<1> QED BY <1>5, <1>6, <1>8, <1>9, <1>10

(* The next address of the chain, made when it is not there yet.           *)
LEMMA NextChainedGood ==
  ASSUME NEW s, NEW p \in Passphrases, Good(s, p), s.lastChainIdx <= MaxChain + 1, NEW h \in Nat
  PROVE  LET r == nextChainedBtcAddress(s, h) IN
         /\ r.e = "nil" /\ Good(r.s, p)
         /\ r.s.highestUsed = s.highestUsed + 1
         /\ r.s.lastChainIdx = IF s.highestUsed = s.lastChainIdx THEN s.lastChainIdx + 1
                                                                 ELSE s.lastChainIdx
         /\ r.s.watching = s.watching /\ Follows(s, r.s)
<1> DEFINE r == IF s.highestUsed + 1 \in DOMAIN s.chain THEN Ok(s)
                ELSE IF isLocked(s) THEN extendLocked(s, h)
                ELSE extendUnlocked(s, h)
           t == [r.s EXCEPT !.highestUsed = s.highestUsed + 1]
<1>1. s.lastChainIdx \in -1 .. MaxChain + 1 /\ s.highestUsed \in -1 .. s.lastChainIdx
      /\ DOMAIN s.chain = -1 .. s.lastChainIdx /\ MaxChain \in Nat
  BY Constants DEF Good, GoodChain
<1>2. /\ r.e = "nil" /\ Good(r.s, p) /\ r.s.highestUsed = s.highestUsed
      /\ r.s.watching = s.watching /\ Follows(s, r.s)
      /\ r.s.lastChainIdx = IF s.highestUsed = s.lastChainIdx THEN s.lastChainIdx + 1
                                                              ELSE s.lastChainIdx
  <2>1. CASE s.highestUsed # s.lastChainIdx
    <3>1. s.highestUsed + 1 \in DOMAIN s.chain
      BY <1>1, <2>1
    <3>2. r = [e |-> "nil", s |-> s]
      BY <3>1 DEF Ok
    <3> QED BY <2>1, <3>2, FollowsSame
  <2>2. CASE s.highestUsed = s.lastChainIdx
    <3>1. s.highestUsed + 1 \notin DOMAIN s.chain
      BY <1>1, <2>2
    <3>2. CASE isLocked(s)
      BY <2>2, <3>1, <3>2, ExtendLockedGood
    <3>3. CASE ~isLocked(s)
      BY <2>2, <3>1, <3>3, ExtendUnlockedGood
    <3> QED BY <3>2, <3>3
  <2> QED BY <2>1, <2>2
<1>3. s.highestUsed + 1 \in DOMAIN r.s.chain
  <2>1. DOMAIN r.s.chain = -1 .. r.s.lastChainIdx
    BY <1>2 DEF Good, GoodChain
  <2> HIDE DEF r
  <2> QED BY <1>1, <1>2, <2>1
<1>4. nextChainedBtcAddress(s, h) = [e |-> "nil", s |-> [r.s EXCEPT !.highestUsed = @ + 1]]
  BY <1>2, <1>3 DEF nextChainedBtcAddress, Ok
<1> HIDE DEF r
<1>5. Formed(r.s)
  BY <1>2 DEF Good
<1>6. [r.s EXCEPT !.highestUsed = @ + 1] = t
  BY <1>2, <1>5 DEF Formed
<1>7. /\ t.vers = r.s.vers /\ t.watching = r.s.watching /\ t.highestUsed = s.highestUsed + 1
      /\ t.recent = r.s.recent /\ t.secret = r.s.secret /\ t.addrs = r.s.addrs
      /\ t.missingKeysStart = r.s.missingKeysStart /\ t.chain = r.s.chain
      /\ t.lastChainIdx = r.s.lastChainIdx
  BY <1>5 DEF Formed
<1>8. Formed(t)
  BY <1>5 DEF Formed
<1> HIDE DEF t
<1>9. s.highestUsed + 1 \in -1 .. t.lastChainIdx
  BY <1>1, <1>2, <1>7
<1>10. Good(t, p)
  BY <1>2, <1>7, <1>8, <1>9 DEF Good, GoodChain, GoodAddrs, GoodKey, GoodScript
<1>11. Follows(s, t)
  <2>1. Follows(r.s, t)
    BY <1>7, FollowsSame
  <2> QED BY <1>2, <2>1, FollowsTrans
<1> QED BY <1>2, <1>4, <1>6, <1>7, <1>10, <1>11

LEMMA ChangeAddressGood ==
  ASSUME NEW s, NEW p \in Passphrases, Good(s, p), s.lastChainIdx <= MaxChain, NEW h \in Nat
  PROVE  LET t == ChangeAddress(s, h).s IN
         /\ Good(t, p) /\ Follows(s, t)
         /\ s.lastChainIdx < MaxChain => t.lastChainIdx <= MaxChain
<1> DEFINE r == nextChainedBtcAddress(s, h)
           c == r.s.chain[r.s.highestUsed]
           y == [r.s.addrs[c] EXCEPT !.change = TRUE]
           t == [r.s EXCEPT !.addrs[c] = y]
<1>1. s.lastChainIdx \in -1 .. MaxChain + 1 /\ MaxChain \in Nat
  BY Constants DEF Good, GoodChain
<1>2. /\ r.e = "nil" /\ Good(r.s, p) /\ Follows(s, r.s)
      /\ r.s.lastChainIdx \in {s.lastChainIdx, s.lastChainIdx + 1}
  BY <1>1, NextChainedGood
<1>3. ChangeAddress(s, h).s = t
  <2>1. ChangeAddress(s, h) = [e |-> "nil", s |-> [r.s EXCEPT !.addrs[c].change = TRUE]]
    BY <1>2 DEF ChangeAddress, Ok
  <2>2. [r.s EXCEPT !.addrs[c].change = TRUE] = t
    <3> HIDE DEF r, c
    <3> QED OBVIOUS
  <2> HIDE DEF r, c, t
  <2> QED BY <2>1, <2>2
<1> HIDE DEF r
<1>4. r.s.highestUsed \in -1 .. r.s.lastChainIdx
  BY <1>2 DEF Good, GoodChain
<1>5. c \in DOMAIN r.s.addrs /\ GoodKey(r.s, p, c, r.s.addrs[c])
  BY <1>2, <1>4, ChainPlaces
<1>6. GoodAddr(r.s, p, c, y) /\ y.idx = r.s.addrs[c].idx /\ y.ct = r.s.addrs[c].ct
  BY <1>5, MarkChange DEF GoodAddr, GoodScript
<1> HIDE DEF c, y
<1>7. Good(t, p) /\ t.lastChainIdx = r.s.lastChainIdx /\ Follows(r.s, t)
  BY <1>2, <1>5, <1>6, ReplaceAddr
<1> HIDE DEF t
<1> QED BY <1>1, <1>2, <1>3, <1>7, FollowsTrans

(* ExtendActiveAddresses by two addresses, the number the model uses.      *)
Made(g, s, n, h) ==
  g = [i \in 0 .. n |-> IF i = 0 THEN Ok(s)
                        ELSE IF g[i - 1].e # "nil" THEN g[i - 1]
                        ELSE nextChainedBtcAddress(g[i - 1].s, h)]

LEMMA ExtendTwoIs ==
  ASSUME NEW s
  PROVE  LET h == s.addrs[s.chain[s.highestUsed]].first
             r == nextChainedBtcAddress(s, h)
         IN  ExtendActiveAddresses(s, 2) =
               IF r.e # "nil" THEN r ELSE nextChainedBtcAddress(r.s, h)
<1> DEFINE h == s.addrs[s.chain[s.highestUsed]].first
           r == nextChainedBtcAddress(s, h)
           q == IF r.e # "nil" THEN r ELSE nextChainedBtcAddress(r.s, h)
           g == [i \in 0 .. 2 |-> IF i = 0 THEN Ok(s) ELSE IF i = 1 THEN r ELSE q]
<1>1. \E f : Made(f, s, 2, h)
  <2>1. g[0] = Ok(s) /\ g[1] = r /\ g[2] = q /\ Ok(s).e = "nil" /\ Ok(s).s = s
    BY DEF Ok
  <2> HIDE DEF h
  <2>2. ASSUME NEW i \in 0 .. 2
        PROVE  g[i] = IF i = 0 THEN Ok(s)
                      ELSE IF g[i - 1].e # "nil" THEN g[i - 1]
                      ELSE nextChainedBtcAddress(g[i - 1].s, h)
    <3>1. i = 0 \/ i = 1 \/ i = 2
      OBVIOUS
    <3> HIDE DEF g, r, q
    <3>2. CASE i = 0
      BY <2>1, <3>2
    <3>3. CASE i = 1
      BY <2>1, <3>3 DEF r
    <3>4. CASE i = 2
      BY <2>1, <3>4 DEF q
    <3> QED BY <3>1, <3>2, <3>3, <3>4
  <2>3. g = [i \in 0 .. 2 |-> g[i]]
    OBVIOUS
  <2> HIDE DEF g
  <2>4. Made(g, s, 2, h)
    BY <2>2, <2>3 DEF Made
  <2> QED BY <2>4
<1> DEFINE f == CHOOSE f : Made(f, s, 2, h)
<1>2. Made(f, s, 2, h)
  BY <1>1
<1>3. ExtendActiveAddresses(s, 2) = f[2]
  BY DEF ExtendActiveAddresses, Made
<1> HIDE DEF f, h
<1>4. \A i \in 0 .. 2 : f[i] = IF i = 0 THEN Ok(s)
                        ELSE IF f[i - 1].e # "nil" THEN f[i - 1]
                        ELSE nextChainedBtcAddress(f[i - 1].s, h)
  BY <1>2 DEF Made
<1>5. f[0] = Ok(s) /\ Ok(s).e = "nil" /\ Ok(s).s = s
  BY <1>4 DEF Ok
<1>6. f[1] = r
  BY <1>4, <1>5
<1>7. f[2] = q
  <2> HIDE DEF r
  <2> QED BY <1>4, <1>6
<1> QED BY <1>3, <1>7 DEF h

LEMMA ExtendTwoGood ==
  ASSUME NEW s, NEW p \in Passphrases, Good(s, p), s.lastChainIdx <= MaxChain
  PROVE  LET t == ExtendActiveAddresses(s, 2).s IN
         /\ Good(t, p) /\ Follows(s, t)
         /\ t.highestUsed = s.highestUsed + 2
         /\ t.lastChainIdx = IF s.highestUsed + 2 > s.lastChainIdx THEN s.highestUsed + 2
                                                                    ELSE s.lastChainIdx
<1> DEFINE h == s.addrs[s.chain[s.highestUsed]].first
           r == nextChainedBtcAddress(s, h)
           q == nextChainedBtcAddress(r.s, h)
<1>1. s.lastChainIdx \in -1 .. MaxChain /\ s.highestUsed \in -1 .. s.lastChainIdx
      /\ MaxChain \in Nat
  BY Constants DEF Good, GoodChain
<1>2. h \in Nat
  <2> DEFINE c == s.chain[s.highestUsed]
  <2>1. c \in DOMAIN s.addrs /\ GoodKey(s, p, c, s.addrs[c])
    BY <1>1, ChainPlaces
  <2>2. s.addrs[c] \in AddrRec
    BY <2>1 DEF GoodKey, Holds, Lacks
  <2> HIDE DEF c
  <2>3. s.addrs[c].first \in Nat
    BY <2>2 DEF AddrRec
  <2> QED BY <2>3 DEF c
<1> HIDE DEF h
<1>3. /\ r.e = "nil" /\ Good(r.s, p) /\ Follows(s, r.s)
      /\ r.s.highestUsed = s.highestUsed + 1
      /\ r.s.lastChainIdx = IF s.highestUsed = s.lastChainIdx THEN s.lastChainIdx + 1
                                                              ELSE s.lastChainIdx
  BY <1>1, <1>2, NextChainedGood
<1> HIDE DEF r
<1>4. r.s.lastChainIdx <= MaxChain + 1
  BY <1>1, <1>3
<1>5. /\ q.e = "nil" /\ Good(q.s, p) /\ Follows(r.s, q.s)
      /\ q.s.highestUsed = r.s.highestUsed + 1
      /\ q.s.lastChainIdx = IF r.s.highestUsed = r.s.lastChainIdx THEN r.s.lastChainIdx + 1
                                                                  ELSE r.s.lastChainIdx
  BY <1>2, <1>3, <1>4, NextChainedGood
<1>6. ExtendActiveAddresses(s, 2) = q
  BY <1>3, ExtendTwoIs DEF h, r
<1> HIDE DEF q
<1>7. /\ q.s.highestUsed = s.highestUsed + 2
      /\ q.s.lastChainIdx = IF s.highestUsed + 2 > s.lastChainIdx THEN s.highestUsed + 2
                                                                   ELSE s.lastChainIdx
  BY <1>1, <1>3, <1>5
<1>8. Follows(s, q.s)
  BY <1>3, <1>5, FollowsTrans
<1> QED BY <1>3, <1>5, <1>6, <1>7, <1>8

-----------------------------------------------------------------------------
(* Imports.                                                                *)

(* A new address outside the chain.                                        *)
LEMMA PutGood ==
  ASSUME NEW s, NEW p, Good(s, p), NEW a, a \notin DOMAIN s.addrs,
         NEW y, GoodAddr(s, p, a, y), y.idx = importedKeyChainIdx
  PROVE  LET t == [s EXCEPT !.addrs = Put(s.addrs, a, y)] IN
         /\ Good(t, p) /\ t.lastChainIdx = s.lastChainIdx
         /\ Follows(s, t)
<1> DEFINE A == Put(s.addrs, a, y)
           t == [s EXCEPT !.addrs = A]
<1>0. Formed(s)
  BY DEF Good
<1>1. /\ DOMAIN A = DOMAIN s.addrs \cup {a} /\ A[a] = y
      /\ \A b \in DOMAIN s.addrs : A[b] = s.addrs[b]
      /\ A = [b \in DOMAIN A |-> A[b]]
  BY DEF Put
<1> HIDE DEF A
<1>2. /\ t.vers = s.vers /\ t.watching = s.watching /\ t.highestUsed = s.highestUsed
      /\ t.recent = s.recent /\ t.secret = s.secret /\ t.addrs = A
      /\ t.missingKeysStart = s.missingKeysStart /\ t.chain = s.chain
      /\ t.lastChainIdx = s.lastChainIdx
  BY <1>0 DEF Formed
<1>3. Formed(t)
  BY <1>0 DEF Formed
<1> HIDE DEF t
<1>4. GoodChain(t)
  BY <1>2 DEF Good, GoodChain
<1>5. ASSUME NEW i \in -1 .. t.lastChainIdx
      PROVE  chainKey[i + 1] \in DOMAIN t.addrs /\ t.addrs[chainKey[i + 1]].idx = i
  BY <1>1, <1>2, ChainPlaces
<1>6. ASSUME NEW b \in DOMAIN t.addrs
      PROVE  GoodScript(t, b, t.addrs[b]) \/ GoodKey(t, p, b, t.addrs[b])
  <2>1. GoodAddr(s, p, b, t.addrs[b])
    BY <1>1, <1>2 DEF Good, GoodAddrs, GoodAddr
  <2> QED BY <1>2, <2>1 DEF GoodAddr, GoodScript, GoodKey
<1>7. Good(t, p)
  BY <1>1, <1>2, <1>3, <1>4, <1>5, <1>6 DEF Good, GoodAddrs
<1>8. Follows(s, t)
  BY <1>1, <1>2 DEF Follows
<1> QED BY <1>2, <1>7, <1>8 DEF t, A

LEMMA ImportPrivateKeyGood ==
  ASSUME NEW s, NEW p \in Passphrases, Good(s, p), NEW k \in PrivKeys, NEW h \in Nat
  PROVE  LET t == ImportPrivateKey(s, k, h).s IN
         /\ Good(t, p) /\ t.lastChainIdx = s.lastChainIdx
         /\ Follows(s, t)
<1>0. s.watching \in BOOLEAN
  BY DEF Good
<1>1. CASE s.watching \/ Pub(k) \in DOMAIN s.addrs \/ isLocked(s)
  <2>1. ImportPrivateKey(s, k, h).s = s
    BY <1>0, <1>1 DEF ImportPrivateKey, Err
  <2> QED BY <2>1, FollowsSame
<1>2. CASE ~(s.watching \/ Pub(k) \in DOMAIN s.addrs \/ isLocked(s))
  <2> DEFINE x == newBtcAddress(k, h)
  <2>1. PICK u \in BOOLEAN : u = (s.recent.hashes # <<>> /\ h < s.recent.lastHeight)
    OBVIOUS
  <2> DEFINE y == [x EXCEPT !.idx = importedKeyChainIdx, !.unsynced = u]
             z == encrypt(y, p).s
  <2>2. s.secret = p /\ p \in Int /\ p # NoKey
    BY <1>2, SecretsAre DEF isLocked, Good
  <2>3. x \in AddrRec /\ x.kind = "key" /\ x.hasPub /\ ~x.enc /\ x.ct = k
    BY NewAddresses
  <2> HIDE DEF x
  <2>4. y \in AddrRec
    <3>1. importedKeyChainIdx \in Int
      BY Constants
    <3> QED BY <2>3, <3>1 DEF AddrRec
  <2>5. y.kind = "key" /\ y.hasPub /\ ~y.enc /\ y.ct = k /\ y.idx = importedKeyChainIdx
    BY <2>3 DEF AddrRec
  <2>6. ImportPrivateKey(s, k, h).s = [s EXCEPT !.addrs = Put(@, Pub(k), z)]
    BY <1>2, <2>1, <2>2 DEF ImportPrivateKey, Ok, x
  <2> HIDE DEF y
  <2>7. Holds(Pub(k), z, p) /\ z.idx = importedKeyChainIdx
    BY <2>2, <2>4, <2>5, EncryptGives
  <2> HIDE DEF z
  <2>8. GoodAddr(s, p, Pub(k), z)
    BY <1>2, <2>7 DEF GoodAddr, GoodScript, GoodKey, Placed
  <2>9. [s EXCEPT !.addrs = Put(@, Pub(k), z)] = [s EXCEPT !.addrs = Put(s.addrs, Pub(k), z)]
    BY DEF Good, Formed
  <2>10. Pub(k) \notin DOMAIN s.addrs
    BY <1>2
  <2> HIDE DEF Pub
  <2> DEFINE t == [s EXCEPT !.addrs = Put(s.addrs, Pub(k), z)]
  <2>11. /\ Good(t, p) /\ t.lastChainIdx = s.lastChainIdx
         /\ Follows(s, t)
    BY <2>7, <2>8, <2>10, PutGood
  <2>12. ImportPrivateKey(s, k, h).s = t
    BY <2>6, <2>9
  <2> HIDE DEF t
  <2> QED BY <2>11, <2>12
<1> QED BY <1>1, <1>2

LEMMA ImportScriptGood ==
  ASSUME NEW s, NEW p \in Passphrases, Good(s, p), NEW a \in Scripts, NEW h \in Nat
  PROVE  LET t == ImportScript(s, a, h).s IN
         /\ Good(t, p) /\ t.lastChainIdx = s.lastChainIdx
         /\ Follows(s, t)
<1>0. s.watching \in BOOLEAN
  BY DEF Good
<1>1. CASE s.watching \/ a \in DOMAIN s.addrs
  <2>1. ImportScript(s, a, h).s = s
    BY <1>0, <1>1 DEF ImportScript, Err
  <2> QED BY <2>1, FollowsSame
<1>2. CASE ~(s.watching \/ a \in DOMAIN s.addrs)
  <2> DEFINE x == newScriptAddress(h)
  <2>1. PICK u \in BOOLEAN : u = (s.recent.hashes # <<>> /\ h < s.recent.lastHeight)
    OBVIOUS
  <2> DEFINE y == [x EXCEPT !.unsynced = u]
  <2>2. IsScript(a, x) /\ x.hasPub
    BY NewAddresses
  <2>3. ImportScript(s, a, h).s = [s EXCEPT !.addrs = Put(@, a, y)]
    BY <1>2, <2>1 DEF ImportScript, Ok
  <2> HIDE DEF x
  <2>4. y \in AddrRec
    BY <2>2 DEF IsScript, AddrRec
  <2>5. y.kind = x.kind /\ y.idx = x.idx /\ y.hasPriv = x.hasPriv /\ y.enc = x.enc
        /\ y.hasPub = x.hasPub
    BY <2>2 DEF IsScript, AddrRec
  <2> HIDE DEF y
  <2>6. GoodScript(s, a, y)
    BY <2>2, <2>4, <2>5 DEF GoodScript, IsScript
  <2>7. [s EXCEPT !.addrs = Put(@, a, y)] = [s EXCEPT !.addrs = Put(s.addrs, a, y)]
    BY DEF Good, Formed
  <2>8. GoodAddr(s, p, a, y) /\ y.idx = importedKeyChainIdx
    BY <2>6 DEF GoodAddr, GoodScript, IsScript
  <2>9. a \notin DOMAIN s.addrs
    BY <1>2
  <2> DEFINE t == [s EXCEPT !.addrs = Put(s.addrs, a, y)]
  <2>10. /\ Good(t, p) /\ t.lastChainIdx = s.lastChainIdx
         /\ Follows(s, t)
    BY <2>8, <2>9, PutGood
  <2>11. ImportScript(s, a, h).s = t
    BY <2>3, <2>7
  <2> HIDE DEF t
  <2> QED BY <2>10, <2>11
<1> QED BY <1>1, <1>2

-----------------------------------------------------------------------------
(* Unlock, and the keys that it derives for the addresses that lack one.   *)

(* The addresses A of a store s when the keys below index j are there.     *)
Filled(A, s, p, j) ==
  /\ A = [a \in DOMAIN A |-> A[a]] /\ DOMAIN A = DOMAIN s.addrs
  /\ \A a \in DOMAIN s.addrs :
       /\ A[a].idx = s.addrs[a].idx
       /\ s.addrs[a].ct # NoKey => A[a].ct # NoKey
       /\ \/ GoodScript(s, a, A[a])
          \/ /\ Placed(s.lastChainIdx, a, A[a])
             /\ Holds(a, A[a], p) \/ (Lacks(a, A[a]) /\ j <= A[a].idx)

(* What fillKey has made of s before it comes to index j.                  *)
FillOK(acc, s, p, j) ==
  /\ acc \in [e : {"nil"}, prevKey : PrivKeys, prevPub : {chainKey[j]}, s : {acc.s}]
  /\ Pub(acc.prevKey) = chainKey[j]
  /\ Formed(acc.s) /\ Filled(acc.s.addrs, s, p, j)
  /\ acc.s.vers = s.vers /\ acc.s.watching = s.watching
  /\ acc.s.highestUsed = s.highestUsed /\ acc.s.recent = s.recent
  /\ acc.s.chain = s.chain /\ acc.s.lastChainIdx = s.lastChainIdx
  /\ acc.s.missingKeysStart = s.missingKeysStart /\ acc.s.secret = p

(* A new clear text, and the flag that fillKey clears.                     *)
LEMMA ClearText ==
  ASSUME NEW x \in AddrRec, NEW k \in PrivKeys
  PROVE  LET y == [x EXCEPT !.ct = k] IN
         /\ y \in AddrRec /\ y.idx = x.idx /\ y.kind = x.kind /\ y.enc = x.enc
         /\ y.hasPub = x.hasPub /\ y.hasPriv = x.hasPriv /\ y.priv = x.priv
         /\ y.ct = k
<1> DEFINE y == [x EXCEPT !.ct = k]
<1>1. k \in Secrets
  BY DEF Secrets
<1>2. y \in AddrRec
  BY <1>1 DEF AddrRec
<1>3. y.idx = x.idx /\ y.kind = x.kind /\ y.enc = x.enc
  BY DEF AddrRec
<1>4. y.hasPub = x.hasPub /\ y.hasPriv = x.hasPriv /\ y.priv = x.priv
  BY DEF AddrRec
<1>5. y.ct = k
  BY DEF AddrRec
<1> QED BY <1>2, <1>3, <1>4, <1>5

LEMMA NotCreateNext ==
  ASSUME NEW a, NEW x, NEW p, Holds(a, x, p)
  PROVE  /\ Holds(a, [x EXCEPT !.createNext = FALSE], p)
         /\ [x EXCEPT !.createNext = FALSE].idx = x.idx /\ [x EXCEPT !.createNext = FALSE].ct = x.ct
<1> DEFINE y == [x EXCEPT !.createNext = FALSE]
<1>0. x \in AddrRec
  BY DEF Holds
<1>1. y \in AddrRec
  BY <1>0 DEF AddrRec
<1>2. y.idx = x.idx /\ y.kind = x.kind /\ y.enc = x.enc
  BY <1>0 DEF AddrRec
<1>3. y.hasPub = x.hasPub /\ y.hasPriv = x.hasPriv /\ y.priv = x.priv
  BY <1>0 DEF AddrRec
<1>4. y.ct = x.ct
  BY <1>0 DEF AddrRec
<1> HIDE DEF y
<1>5. Holds(a, y, p)
  BY <1>1, <1>2, <1>3, <1>4 DEF Holds
<1> QED BY <1>2, <1>4, <1>5 DEF y

(* One address of the walk: its key follows from the one before, and an    *)
(* address that has its key already has the same one.                      *)
LEMMA FillStep ==
  ASSUME NEW s, NEW p \in Int, NEW acc, NEW j \in 0 .. s.lastChainIdx,
         s.lastChainIdx \in -1 .. MaxChain + 2,
         s.chain = [i \in -1 .. s.lastChainIdx |-> chainKey[i + 1]],
         \A i \in -1 .. s.lastChainIdx :
           chainKey[i + 1] \in DOMAIN s.addrs /\ s.addrs[chainKey[i + 1]].idx = i,
         ~LT(s.vers, VersUnsetNeedsPrivkeyFlag), FillOK(acc, s, p, j)
  PROVE  FillOK(fillKey(acc, j), s, p, j + 1)
<1> DEFINE pub == chainKey[j + 1]
           k == chainedPrivKey(acc.prevKey, acc.prevPub)
           x == acc.s.addrs[pub]
           y == [x EXCEPT !.ct = k]
           enc == encrypt(y, p)
           z == [enc.s EXCEPT !.createNext = FALSE]
           t == [acc.s EXCEPT !.addrs[pub] = z]
           A == acc.s.addrs
<1>0. j + 1 \in 1 .. MaxChain + 3 /\ j + 1 - 1 = j /\ j + 1 \in 0 .. MaxChain + 3 /\ j \in 0 .. MaxChain + 3
      /\ j \in -1 .. s.lastChainIdx /\ j \in Int /\ s.lastChainIdx \in Int
  BY Constants
<1>1. /\ acc.e = "nil" /\ acc.prevPub = chainKey[j] /\ Pub(acc.prevKey) = chainKey[j]
      /\ acc.prevKey \in PrivKeys /\ acc.s.chain[j] = pub /\ acc.s.secret = p /\ acc.s.vers = s.vers
      /\ Formed(acc.s) /\ Filled(A, s, p, j)
      /\ acc \in [e : {"nil"}, prevKey : PrivKeys, prevPub : {chainKey[j]}, s : {acc.s}]
  BY <1>0 DEF FillOK
<1>2. k \in PrivKeys /\ Pub(k) = pub
  <2>1. k \in PrivKeys /\ Pub(k) = chainedPubKey(chainKey[j])
    BY <1>1, ChainedKeys
  <2> QED BY <1>0, <2>1, ChainKeyIs
<1>3. pub \in DOMAIN s.addrs /\ x.idx = j /\ pub \in PubKeys
      /\ (Holds(pub, x, p) \/ Lacks(pub, x)) /\ x \in AddrRec
  <2>1. pub \in PubKeys /\ pub \notin Scripts
    BY <1>0, ChainKeysArePublic, ScriptsApart
  <2>2. pub \in DOMAIN s.addrs /\ s.addrs[pub].idx = j
    BY <1>0
  <2>3. x.idx = j /\ (GoodScript(s, pub, x) \/ Holds(pub, x, p) \/ Lacks(pub, x))
    BY <1>1, <2>2 DEF Filled
  <2>4. ~GoodScript(s, pub, x)
    BY <2>1 DEF GoodScript, IsScript
  <2> QED BY <2>1, <2>2, <2>3, <2>4 DEF Holds, Lacks
<1>4. /\ y \in AddrRec /\ y.idx = x.idx /\ y.kind = x.kind /\ y.enc = x.enc
      /\ y.hasPub = x.hasPub /\ y.hasPriv = x.hasPriv /\ y.priv = x.priv
      /\ y.ct = k
  BY <1>2, <1>3, ClearText
<1>5. /\ enc.e \in {"nil", "ErrAlreadyEncrypted"}
      /\ Holds(pub, enc.s, p) /\ enc.s.idx = j /\ enc.s.ct = k
  <2> HIDE DEF x, y, k
  <2>1. CASE Holds(pub, x, p)
    <3>1. x.priv[1] = k
      <4>1. x.priv[1] \in PrivKeys /\ Pub(x.priv[1]) = Pub(k)
        BY <1>2, <2>1 DEF Holds
      <4> QED BY <1>2, <4>1, PubIsInjective
    <3>2. enc = [e |-> "ErrAlreadyEncrypted", s |-> y]
      BY <1>4, <2>1 DEF encrypt, Err, Holds
    <3>3. Holds(pub, y, p)
      BY <1>4, <2>1, <3>1 DEF Holds
    <3> QED BY <1>3, <1>4, <3>2, <3>3
  <2>2. CASE Lacks(pub, x)
    <3>1. y.kind = "key" /\ y.hasPub /\ ~y.enc /\ y.ct \in PrivKeys /\ Pub(y.ct) = pub
      BY <1>2, <1>4, <2>2 DEF Lacks
    <3> HIDE DEF Pub, pub
    <3>2. enc.e = "nil" /\ Holds(pub, enc.s, p) /\ enc.s.idx = y.idx /\ enc.s.ct = y.ct
      BY <1>4, <3>1, EncryptGives
    <3> QED BY <1>3, <1>4, <3>2
  <2> QED BY <1>3, <2>1, <2>2
<1>6. fillKey(acc, j) = [e |-> "nil", prevKey |-> k, prevPub |-> pub, s |-> t]
  <2> HIDE DEF pub
  <2> DEFINE enc2 == encrypt([acc.s.addrs[pub] EXCEPT !.ct = k], acc.s.secret)
  <2>1. enc2 = enc
    BY <1>1
  <2>2. acc.s.chain[j] = pub
    BY <1>1
  <2>3. ~(enc.e # "nil" /\ (enc.e # "ErrAlreadyEncrypted" \/ LT(acc.s.vers, VersUnsetNeedsPrivkeyFlag)))
    BY <1>1, <1>5
  <2> HIDE DEF enc, k, x, y
  <2> QED BY <1>1, <2>1, <2>2, <2>3 DEF fillKey, k
<1>7. Holds(pub, z, p) /\ z.idx = j /\ z.ct # NoKey
  <2>1. k # NoKey
    BY <1>2, PubIsInjective
  <2> HIDE DEF enc, k
  <2> QED BY <1>5, <2>1, NotCreateNext
<1> HIDE DEF z, k, x
<1>8. /\ t.vers = acc.s.vers /\ t.watching = acc.s.watching /\ t.highestUsed = acc.s.highestUsed
      /\ t.recent = acc.s.recent /\ t.chain = acc.s.chain /\ t.lastChainIdx = acc.s.lastChainIdx
      /\ t.missingKeysStart = acc.s.missingKeysStart /\ t.secret = acc.s.secret
      /\ t.addrs = [A EXCEPT ![pub] = z]
  BY <1>1 DEF Formed
<1>9. Formed(t)
  BY <1>1 DEF Formed
<1> HIDE DEF t, pub, A
<1>10. Filled(t.addrs, s, p, j + 1)
  <2>1. /\ t.addrs = [a \in DOMAIN t.addrs |-> t.addrs[a]] /\ DOMAIN t.addrs = DOMAIN s.addrs
        /\ t.addrs[pub] = z /\ \A a \in DOMAIN s.addrs : a # pub => t.addrs[a] = A[a]
    <3>1. A = [a \in DOMAIN A |-> A[a]] /\ DOMAIN A = DOMAIN s.addrs
      BY <1>1 DEF Filled
    <3>2. pub \in DOMAIN A /\ t.addrs = [A EXCEPT ![pub] = z]
      BY <1>3, <1>8, <3>1
    <3>3. t.addrs = [a \in DOMAIN A |-> IF a = pub THEN z ELSE A[a]]
      BY <3>1, <3>2
    <3> QED BY <3>1, <3>2, <3>3
  <2>2. ASSUME NEW a \in DOMAIN s.addrs
        PROVE  /\ t.addrs[a].idx = s.addrs[a].idx
               /\ s.addrs[a].ct # NoKey => t.addrs[a].ct # NoKey
               /\ \/ GoodScript(s, a, t.addrs[a])
                  \/ /\ Placed(s.lastChainIdx, a, t.addrs[a])
                     /\ Holds(a, t.addrs[a], p) \/ (Lacks(a, t.addrs[a]) /\ j + 1 <= t.addrs[a].idx)
    <3>1. CASE a = pub
      <4>1. s.addrs[pub].idx = j
        BY <1>0 DEF pub
      <4>2. Placed(s.lastChainIdx, pub, z)
        BY <1>0, <1>7 DEF Placed, pub
      <4> QED BY <1>7, <2>1, <3>1, <4>1, <4>2
    <3>2. CASE a # pub
      <4>1. t.addrs[a] = A[a]
        BY <2>1, <3>2
      <4>2. /\ A[a].idx = s.addrs[a].idx
            /\ s.addrs[a].ct # NoKey => A[a].ct # NoKey
            /\ \/ GoodScript(s, a, A[a])
               \/ /\ Placed(s.lastChainIdx, a, A[a])
                  /\ Holds(a, A[a], p) \/ (Lacks(a, A[a]) /\ j <= A[a].idx)
        BY <1>1 DEF Filled
      <4>3. Placed(s.lastChainIdx, a, A[a]) /\ j <= A[a].idx => j + 1 <= A[a].idx
        BY <1>0, <3>2, Constants DEF Placed, pub
      <4> QED BY <4>1, <4>2, <4>3
    <3> QED BY <3>1, <3>2
  <2> QED BY <2>1, <2>2 DEF Filled
<1> DEFINE r == [e |-> "nil", prevKey |-> k, prevPub |-> pub, s |-> t]
<1>11. r \in [e : {"nil"}, prevKey : PrivKeys, prevPub : {chainKey[j + 1]}, s : {r.s}]
       /\ r.s = t /\ r.prevKey = k
  BY <1>2 DEF pub
<1>12. /\ t.vers = s.vers /\ t.watching = s.watching /\ t.highestUsed = s.highestUsed
       /\ t.recent = s.recent /\ t.chain = s.chain /\ t.lastChainIdx = s.lastChainIdx
       /\ t.missingKeysStart = s.missingKeysStart /\ t.secret = p
  BY <1>1, <1>8 DEF FillOK
<1> HIDE DEF r
<1>13. Pub(r.prevKey) = chainKey[j + 1]
  BY <1>2, <1>11 DEF pub
<1>14. FillOK(r, s, p, j + 1)
  BY <1>9, <1>10, <1>11, <1>12, <1>13 DEF FillOK
<1> QED BY <1>6, <1>14 DEF r

(* The run of the loop of createMissingPrivateKeys.                        *)
IsFill(g, start, idx, n) ==
  g = [j \in 0 .. n |-> IF j = 0 THEN start ELSE fillKey(g[j - 1], idx + j - 1)]

LEMMA FillExists ==
  ASSUME NEW start, NEW idx \in Int, NEW n \in Nat
  PROVE  \E g : IsFill(g, start, idx, n)
<1> DEFINE Bad == {m \in Nat : ~\E g : IsFill(g, start, idx, m)}
<1>1. SUFFICES ASSUME Bad # {} PROVE FALSE
  OBVIOUS
<1>2. PICK m \in Bad : \A k \in Bad : m <= k
  BY <1>1, LeastNumber
<1>3. CASE m = 0
  <2> DEFINE g == [i \in 0 .. 0 |-> start]
  <2>1. \A i \in 0 .. 0 : i = 0
    OBVIOUS
  <2>2. g = [i \in 0 .. 0 |-> IF i = 0 THEN start ELSE fillKey(g[i - 1], idx + i - 1)]
    BY <2>1
  <2>3. IsFill(g, start, idx, 0)
    BY <2>2 DEF IsFill
  <2> QED BY <1>3, <2>3
<1>4. CASE m # 0
  <2>1. m - 1 \in Nat /\ ~(m - 1 \in Bad)
    BY <1>2, <1>4
  <2>2. PICK g : IsFill(g, start, idx, m - 1)
    BY <2>1
  <2> DEFINE h == [i \in 0 .. m |-> IF i = m THEN fillKey(g[m - 1], idx + m - 1) ELSE g[i]]
  <2>3. \A i \in 0 .. m - 1 : g[i] = IF i = 0 THEN start ELSE fillKey(g[i - 1], idx + i - 1)
    BY <2>2 DEF IsFill
  <2>4. \A i \in 0 .. m - 1 : h[i] = g[i]
    BY <2>1
  <2>5. h[m] = fillKey(g[m - 1], idx + m - 1)
    BY <2>1
  <2> HIDE DEF h
  <2>6. \A i \in 0 .. m : h[i] = IF i = 0 THEN start ELSE fillKey(h[i - 1], idx + i - 1)
    <3> SUFFICES ASSUME NEW i \in 0 .. m
                 PROVE h[i] = IF i = 0 THEN start ELSE fillKey(h[i - 1], idx + i - 1)
      OBVIOUS
    <3>1. CASE i = m
      <4>1. h[i - 1] = g[m - 1]
        BY <2>1, <2>4, <3>1
      <4> QED BY <1>4, <2>5, <3>1, <4>1
    <3>2. CASE i = 0
      BY <1>4, <2>1, <2>3, <2>4, <3>2
    <3>3. CASE i # m /\ i # 0
      <4>1. i \in 0 .. m - 1 /\ i - 1 \in 0 .. m - 1
        BY <2>1, <3>3
      <4> QED BY <2>3, <2>4, <3>3, <4>1
    <3> QED BY <3>1, <3>2, <3>3
  <2>7. IsFill(h, start, idx, m)
    <3>1. h = [i \in 0 .. m |-> h[i]]
      BY DEF h
    <3> QED BY <2>6, <3>1 DEF IsFill
  <2> QED BY <2>7
<1> QED BY <1>3, <1>4

TheFill(start, idx, n) == CHOOSE g : IsFill(g, start, idx, n)

LEMMA CreateMissingIs ==
  ASSUME NEW s
  PROVE  createMissingPrivateKeys(s) =
  LET idx == s.missingKeysStart
      prev == s.chain[idx - 1]
      u == unlock(s.addrs[prev], prev, s.secret)
      last == CHOOSE i \in {idx - 1} \cup DOMAIN s.chain :
                /\ \A j \in idx .. i : j \in DOMAIN s.chain
                /\ i >= idx - 1 /\ i + 1 \notin DOMAIN s.chain
      done == TheFill([e |-> "nil", prevKey |-> u.s.ct, prevPub |-> prev,
                       s |-> [s EXCEPT !.addrs[prev] = u.s]],
                      idx, last - idx + 1)[last - idx + 1]
  IN  CASE idx = rootKeyChainIdx -> Ok(s)
        [] idx # rootKeyChainIdx /\ idx - 1 \notin DOMAIN s.chain
             -> Err("missing previous chained address", s)
        [] OTHER ->
             IF u.e # "nil" THEN Err(u.e, s)
             ELSE IF done.e # "nil" THEN Err(done.e, done.s)
             ELSE Ok([done.s EXCEPT !.missingKeysStart = rootKeyChainIdx])
  BY DEF createMissingPrivateKeys, TheFill, IsFill

(* The walk ends with every key of the chain in its address.               *)
LEMMA FillAll ==
  ASSUME NEW s, NEW p \in Int, NEW start, NEW idx \in 0 .. s.lastChainIdx + 1,
         NEW g, IsFill(g, start, idx, s.lastChainIdx - idx + 1),
         s.lastChainIdx \in -1 .. MaxChain + 2,
         s.chain = [i \in -1 .. s.lastChainIdx |-> chainKey[i + 1]],
         \A i \in -1 .. s.lastChainIdx :
           chainKey[i + 1] \in DOMAIN s.addrs /\ s.addrs[chainKey[i + 1]].idx = i,
         ~LT(s.vers, VersUnsetNeedsPrivkeyFlag), FillOK(start, s, p, idx)
  PROVE  FillOK(g[s.lastChainIdx - idx + 1], s, p, s.lastChainIdx + 1)
<1> DEFINE n == s.lastChainIdx - idx + 1
           Bad == {j \in 0 .. n : ~FillOK(g[j], s, p, idx + j)}
<1>0. n \in Nat /\ idx + n = s.lastChainIdx + 1 /\ Bad \in SUBSET Nat /\ idx + 0 = idx
      /\ idx \in Nat /\ s.lastChainIdx \in Int
  BY Constants
<1>1. \A j \in 0 .. n : g[j] = IF j = 0 THEN start ELSE fillKey(g[j - 1], idx + j - 1)
  BY DEF IsFill
<1>2. ASSUME Bad # {} PROVE FALSE
  <2>1. PICK j \in Bad : \A k \in Bad : j <= k
    BY <1>0, <1>2, LeastNumber
  <2>2. g[0] = start
    BY <1>0, <1>1
  <2>3. j # 0
    BY <1>0, <2>1, <2>2
  <2>4. j - 1 \in 0 .. n /\ ~(j - 1 \in Bad) /\ j \in 0 .. n
    BY <1>0, <2>1, <2>3
  <2>5. FillOK(g[j - 1], s, p, idx + (j - 1))
    BY <2>4
  <2>6. idx + (j - 1) \in 0 .. s.lastChainIdx /\ idx + j - 1 = idx + (j - 1)
        /\ idx + (j - 1) + 1 = idx + j
    BY <1>0, <2>3, <2>4
  <2> HIDE DEF n
  <2>7. FillOK(fillKey(g[j - 1], idx + (j - 1)), s, p, idx + (j - 1) + 1)
    BY <2>5, <2>6, FillStep
  <2>8. g[j] = fillKey(g[j - 1], idx + (j - 1))
    BY <1>1, <2>3, <2>4, <2>6
  <2> QED BY <2>1, <2>6, <2>7, <2>8
<1>3. FillOK(g[n], s, p, idx + n)
  BY <1>0, <1>2
<1> QED BY <1>0, <1>3

(* createMissingPrivateKeys on a store that has just got its secret.       *)
LEMMA CreateMissingGood ==
  ASSUME NEW s, NEW p \in Passphrases, Formed(s), GoodChain(s), GoodAddrs(s, p),
         s.watching = FALSE, ~LT(s.vers, VersUnsetNeedsPrivkeyFlag), s.secret = p
  PROVE  LET r == createMissingPrivateKeys(s) IN
         /\ r.e = "nil" /\ Good(r.s, p) /\ r.s.secret = p
         /\ r.s.chain = s.chain /\ r.s.lastChainIdx = s.lastChainIdx
         /\ r.s.highestUsed = s.highestUsed /\ r.s.watching = FALSE
         /\ DOMAIN r.s.addrs = DOMAIN s.addrs /\ Follows(s, r.s)
<1> DEFINE idx == s.missingKeysStart
           last == s.lastChainIdx
           prev == chainKey[idx]
           x == s.addrs[prev]
           x2 == [x EXCEPT !.ct = x.priv[1]]
           s1 == [s EXCEPT !.addrs[prev] = x2]
           start == [e |-> "nil", prevKey |-> x.priv[1], prevPub |-> prev, s |-> s1]
<1>0. /\ last \in -1 .. MaxChain + 2 /\ idx \in -1 .. last + 1 /\ MaxChain \in Nat
      /\ s.chain = [i \in -1 .. last |-> chainKey[i + 1]] /\ DOMAIN s.chain = -1 .. last
      /\ \A i \in -1 .. last : chainKey[i + 1] \in DOMAIN s.addrs /\ s.addrs[chainKey[i + 1]].idx = i
  BY Constants DEF GoodChain, GoodAddrs
<1>00. p \in Int /\ p # NoKey
  BY SecretsAre
<1>1. CASE idx = -1
  <2>1. createMissingPrivateKeys(s) = [e |-> "nil", s |-> s]
    BY <1>1, Constants DEF createMissingPrivateKeys, Ok
  <2>2. Good(s, p)
    BY <1>1 DEF Good
  <2> QED BY <2>1, <2>2, FollowsSame
<1>2. CASE idx # -1
  <2>1. idx \in 0 .. last + 1 /\ idx - 1 \in -1 .. last /\ idx - 1 + 1 = idx
    BY <1>0, <1>2
  <2>2. /\ s.chain[idx - 1] = prev /\ prev \in DOMAIN s.addrs /\ x.idx = idx - 1
        /\ prev \in PubKeys /\ prev \notin Scripts
    <3>1. s.chain[idx - 1] = chainKey[idx - 1 + 1]
      BY <1>0, <2>1
    <3>2. idx \in 0 .. MaxChain + 3
      BY <1>0, <2>1
    <3> QED BY <1>0, <2>1, <3>1, <3>2, ChainKeysArePublic, ScriptsApart
  <2>3. Holds(prev, x, p) /\ Placed(last, prev, x)
    <3>1. ~GoodScript(s, prev, x)
      BY <2>2 DEF GoodScript, IsScript
    <3>2. GoodKey(s, p, prev, x)
      BY <2>2, <3>1 DEF GoodAddrs
    <3> HIDE DEF x
    <3> QED BY <2>1, <2>2, <3>2 DEF GoodKey
  <2>4. unlock(x, prev, p) = [e |-> "nil", s |-> x2] /\ Holds(prev, x2, p)
        /\ x2.ct = x.priv[1] /\ x2.idx = x.idx
    <3> HIDE DEF x, prev
    <3> QED BY <1>00, <2>3, UnlockHolds
  <2>5. x.priv[1] \in PrivKeys /\ Pub(x.priv[1]) = prev /\ x.priv[1] # NoKey
    BY <2>3, PubIsInjective DEF Holds
  <2> HIDE DEF x, x2
  <2>6. /\ s1.vers = s.vers /\ s1.watching = s.watching /\ s1.highestUsed = s.highestUsed
        /\ s1.recent = s.recent /\ s1.chain = s.chain /\ s1.lastChainIdx = last
        /\ s1.missingKeysStart = idx /\ s1.secret = p
        /\ s1.addrs = [s.addrs EXCEPT ![prev] = x2]
    BY DEF Formed
  <2>7. Formed(s1)
    BY DEF Formed
  <2> HIDE DEF s1, prev
  <2>8. Filled(s1.addrs, s, p, idx)
    <3>1. s.addrs = [a \in DOMAIN s.addrs |-> s.addrs[a]]
      BY DEF GoodAddrs
    <3>2. s1.addrs = [a \in DOMAIN s.addrs |-> IF a = prev THEN x2 ELSE s.addrs[a]]
      BY <2>6, <3>1
    <3>3. ASSUME NEW a \in DOMAIN s.addrs
          PROVE  /\ s1.addrs[a].idx = s.addrs[a].idx
                 /\ s.addrs[a].ct # NoKey => s1.addrs[a].ct # NoKey
                 /\ \/ GoodScript(s, a, s1.addrs[a])
                    \/ /\ Placed(last, a, s1.addrs[a])
                       /\ Holds(a, s1.addrs[a], p) \/ (Lacks(a, s1.addrs[a]) /\ idx <= s1.addrs[a].idx)
      <4>1. CASE a = prev
        <5>1. s1.addrs[a] = x2 /\ s.addrs[a] = x
          BY <3>2, <4>1 DEF x
        <5>2. Placed(last, prev, x2)
          BY <2>3, <2>4 DEF Placed
        <5> QED BY <2>4, <2>5, <4>1, <5>1, <5>2
      <4>2. CASE a # prev
        <5>1. s1.addrs[a] = s.addrs[a]
          BY <3>2, <4>2
        <5>2. GoodScript(s, a, s.addrs[a]) \/ GoodKey(s, p, a, s.addrs[a])
          BY DEF GoodAddrs
        <5> QED BY <5>1, <5>2 DEF GoodKey
      <4> QED BY <4>1, <4>2
    <3>4. s1.addrs = [a \in DOMAIN s1.addrs |-> s1.addrs[a]] /\ DOMAIN s1.addrs = DOMAIN s.addrs
      BY <3>2
    <3> QED BY <3>3, <3>4 DEF Filled
  <2>9. FillOK(start, s, p, idx)
    <3>1. start \in [e : {"nil"}, prevKey : PrivKeys, prevPub : {chainKey[idx]}, s : {start.s}]
          /\ start.s = s1 /\ start.prevKey = x.priv[1]
      BY <2>5 DEF prev
    <3>2. Pub(start.prevKey) = chainKey[idx]
      BY <2>5, <3>1 DEF prev
    <3> HIDE DEF start
    <3> QED BY <2>6, <2>7, <2>8, <3>1, <3>2 DEF FillOK
  <2> DEFINE lastC == CHOOSE i \in {idx - 1} \cup DOMAIN s.chain :
                /\ \A j \in idx .. i : j \in DOMAIN s.chain
                /\ i >= idx - 1 /\ i + 1 \notin DOMAIN s.chain
  <2>10. lastC = last
    <3>1. last \in {idx - 1} \cup DOMAIN s.chain
      BY <1>0
    <3>2. \A j \in idx .. last : j \in DOMAIN s.chain
      BY <1>0, <2>1
    <3>3. last >= idx - 1 /\ last + 1 \notin DOMAIN s.chain
      BY <1>0, <2>1
    <3>4. ASSUME NEW i \in {idx - 1} \cup DOMAIN s.chain, i + 1 \notin DOMAIN s.chain
          PROVE  i = last
      BY <1>0, <2>1, <3>4
    <3> HIDE DEF last, idx
    <3> QED BY <3>1, <3>2, <3>3, <3>4
  <2> DEFINE n == last - idx + 1
             g == TheFill(start, idx, n)
  <2>11. IsFill(g, start, idx, n)
    <3>1. n \in Nat /\ idx \in Int
      BY <1>0, <2>1
    <3> HIDE DEF n, start
    <3>2. \E f : IsFill(f, start, idx, n)
      BY <3>1, FillExists
    <3> QED BY <3>2 DEF TheFill
  <2> HIDE DEF g
  <2>12. FillOK(g[n], s, p, last + 1)
    BY <1>0, <1>00, <2>1, <2>9, <2>11, FillAll
  <2> DEFINE t == [g[n].s EXCEPT !.missingKeysStart = rootKeyChainIdx]
  <2>13. createMissingPrivateKeys(s) = [e |-> "nil", s |-> t]
    <3>1. g[n].e = "nil"
      BY <2>12 DEF FillOK
    <3>2. unlock(s.addrs[s.chain[idx - 1]], s.chain[idx - 1], s.secret) = [e |-> "nil", s |-> x2]
      BY <2>2, <2>4 DEF x
    <3>3. start = [e |-> "nil", prevKey |-> x2.ct, prevPub |-> s.chain[idx - 1],
                   s |-> [s EXCEPT !.addrs[s.chain[idx - 1]] = x2]]
      BY <2>2, <2>4 DEF s1
    <3>4. idx - 1 \in DOMAIN s.chain /\ idx # rootKeyChainIdx
      BY <1>0, <1>2, <2>1, Constants
    <3> DEFINE u == unlock(s.addrs[s.chain[idx - 1]], s.chain[idx - 1], s.secret)
    <3>5. u.e = "nil" /\ u.s = x2
      BY <3>2
    <3> DEFINE raw == [e |-> "nil", prevKey |-> u.s.ct, prevPub |-> s.chain[idx - 1],
                       s |-> [s EXCEPT !.addrs[s.chain[idx - 1]] = u.s]]
    <3>6. start = raw
      BY <3>3, <3>5
    <3>7. createMissingPrivateKeys(s) =
            CASE idx = rootKeyChainIdx -> Ok(s)
              [] idx # rootKeyChainIdx /\ idx - 1 \notin DOMAIN s.chain
                   -> Err("missing previous chained address", s)
              [] OTHER ->
                   IF u.e # "nil" THEN Err(u.e, s)
                   ELSE IF TheFill(raw, idx, lastC - idx + 1)[lastC - idx + 1].e # "nil"
                   THEN Err(TheFill(raw, idx, lastC - idx + 1)[lastC - idx + 1].e,
                            TheFill(raw, idx, lastC - idx + 1)[lastC - idx + 1].s)
                   ELSE Ok([TheFill(raw, idx, lastC - idx + 1)[lastC - idx + 1].s
                              EXCEPT !.missingKeysStart = rootKeyChainIdx])
      BY CreateMissingIs
    <3> HIDE DEF start, u, raw, lastC
    <3>8. TheFill(raw, idx, lastC - idx + 1)[lastC - idx + 1] = g[n]
      BY <2>10, <3>6 DEF g
    <3> QED BY <3>1, <3>4, <3>5, <3>7, <3>8 DEF Ok
  <2> DEFINE w == g[n].s
  <2>14. /\ Formed(w) /\ Filled(w.addrs, s, p, last + 1)
         /\ w.vers = s.vers /\ w.watching = s.watching
         /\ w.highestUsed = s.highestUsed /\ w.recent = s.recent
         /\ w.chain = s.chain /\ w.lastChainIdx = s.lastChainIdx /\ w.secret = p
    BY <2>12 DEF FillOK
  <2> HIDE DEF w
  <2>15. t = [w EXCEPT !.missingKeysStart = -1]
    BY Constants DEF w
  <2> HIDE DEF t
  <2>16. /\ t.vers = s.vers /\ t.watching = s.watching /\ t.highestUsed = s.highestUsed
         /\ t.recent = s.recent /\ t.chain = s.chain /\ t.lastChainIdx = last
         /\ t.missingKeysStart = -1 /\ t.secret = p /\ t.addrs = w.addrs
    BY <2>14, <2>15 DEF Formed
  <2>17. Formed(t)
    BY <2>14, <2>15 DEF Formed
  <2>18. GoodChain(t)
    BY <1>0, <2>16 DEF GoodChain
  <2>19. GoodAddrs(t, p)
    <3>1. ASSUME NEW a \in DOMAIN t.addrs
          PROVE  GoodScript(t, a, t.addrs[a]) \/ GoodKey(t, p, a, t.addrs[a])
      <4>1. \/ GoodScript(s, a, t.addrs[a])
            \/ /\ Placed(last, a, t.addrs[a])
               /\ Holds(a, t.addrs[a], p) \/ (Lacks(a, t.addrs[a]) /\ last + 1 <= t.addrs[a].idx)
        BY <2>14, <2>16 DEF Filled
      <4>2. Placed(last, a, t.addrs[a]) => ~(last + 1 <= t.addrs[a].idx)
        BY <1>0, Constants DEF Placed
      <4> QED BY <2>16, <4>1, <4>2 DEF GoodKey, GoodScript
    <3>2. ASSUME NEW i \in -1 .. t.lastChainIdx
          PROVE  chainKey[i + 1] \in DOMAIN t.addrs /\ t.addrs[chainKey[i + 1]].idx = i
      BY <1>0, <2>14, <2>16 DEF Filled
    <3> QED BY <2>14, <2>16, <3>1, <3>2 DEF GoodAddrs, Filled
  <2>20. Good(t, p)
    BY <2>16, <2>17, <2>18, <2>19 DEF Good
  <2>21. DOMAIN t.addrs = DOMAIN s.addrs
    BY <2>14, <2>16 DEF Filled
  <2>22. Follows(s, t)
    BY <1>00, <2>14, <2>16 DEF Follows, Filled
  <2> QED BY <2>13, <2>16, <2>20, <2>21, <2>22
<1> QED BY <1>1, <1>2

(* Unlock: with the passphrase of the store it succeeds and leaves every   *)
(* key in its address, with another it is an error and nothing changes.    *)
LEMMA RootHolds ==
  ASSUME NEW s, NEW p, Good(s, p), ~s.watching
  PROVE  Holds(rootAddr, s.addrs[rootAddr], p)
<1>1. s.addrs[rootAddr].idx = -1 /\ GoodKey(s, p, rootAddr, s.addrs[rootAddr])
  BY RootPlace
<1>2. s.missingKeysStart \in Int /\ s.missingKeysStart >= -1
  BY Constants DEF Good, GoodChain
<1> QED BY <1>1, <1>2 DEF GoodKey

LEMMA UnlockGood ==
  ASSUME NEW s, NEW p \in Passphrases, NEW q \in Passphrases, Good(s, p)
  PROVE  LET r == Unlock(s, q) IN
         /\ Good(r.s, p) /\ r.s.chain = s.chain /\ r.s.lastChainIdx = s.lastChainIdx
         /\ r.s.highestUsed = s.highestUsed /\ r.s.watching = s.watching
         /\ DOMAIN r.s.addrs = DOMAIN s.addrs /\ Follows(s, r.s)
         /\ ~s.watching /\ q = p => r.e = "nil" /\ r.s.secret = p
<1> DEFINE x == s.addrs[rootAddr]
           u == unlock(x, rootAddr, q)
<1>0. s.watching \in BOOLEAN /\ Formed(s) /\ p # NoKey /\ p \in Int /\ kdf(q) = q
  BY SecretsAre DEF Good
<1>1. CASE s.watching
  <2>1. Unlock(s, q) = [e |-> "ErrWatchingOnly", s |-> s]
    BY <1>1 DEF Unlock, Err
  <2>2. Unlock(s, q).s = s
    BY <2>1
  <2> QED BY <1>1, <2>2, FollowsSame
<1>2. CASE ~s.watching /\ q # p
  <2>1. Holds(rootAddr, x, p)
    BY <1>2, RootHolds
  <2>2. u.e # "nil"
    BY <1>0, <1>2, <2>1, UnlockWrong
  <2>3. Unlock(s, q) = [e |-> u.e, s |-> s]
    BY <1>0, <1>2, <2>2 DEF Unlock, Err
  <2> QED BY <1>2, <2>3, FollowsSame
<1>3. CASE ~s.watching /\ q = p
  <2> DEFINE y == [x EXCEPT !.ct = x.priv[1]]
             s1 == [s EXCEPT !.addrs[rootAddr] = y]
             s2 == [s1 EXCEPT !.secret = p]
  <2>1. Holds(rootAddr, x, p)
    BY <1>3, RootHolds
  <2>2. u = [e |-> "nil", s |-> y] /\ Holds(rootAddr, y, p) /\ y.idx = x.idx /\ y.ct # NoKey
    <3>1. x.priv[1] # NoKey
      BY <2>1, PubIsInjective DEF Holds
    <3> QED BY <1>0, <1>3, <2>1, <3>1, UnlockHolds
  <2>3. Unlock(s, q) = createMissingPrivateKeys(s2)
    <3>1. Unlock(s, q) = createMissingPrivateKeys([s EXCEPT !.addrs[rootAddr] = y, !.secret = p])
      BY <1>0, <1>3, <2>2 DEF Unlock
    <3> HIDE DEF y
    <3>2. [s EXCEPT !.addrs[rootAddr] = y, !.secret = p] = s2
      BY <1>0 DEF Formed
    <3> QED BY <3>1, <3>2
  <2>4. rootAddr \in DOMAIN s.addrs /\ GoodKey(s, p, rootAddr, x)
    BY RootPlace
  <2> HIDE DEF y, x
  <2>5. GoodAddr(s, p, rootAddr, y)
    BY <1>3, <2>2, <2>4 DEF GoodAddr, GoodKey, Placed
  <2>6. /\ Good(s1, p) /\ DOMAIN s1.addrs = DOMAIN s.addrs /\ s1.chain = s.chain
        /\ s1.lastChainIdx = s.lastChainIdx /\ s1.highestUsed = s.highestUsed
        /\ s1.watching = s.watching /\ s1.secret = s.secret
        /\ \A a \in DOMAIN s.addrs : s.addrs[a].ct # NoKey => s1.addrs[a].ct # NoKey
    BY <2>2, <2>4, <2>5, ReplaceAddr DEF x
  <2> HIDE DEF s1
  <2>7. Formed(s1)
    BY <2>6 DEF Good
  <2>8. /\ s2.vers = s1.vers /\ s2.watching = s1.watching /\ s2.highestUsed = s1.highestUsed
        /\ s2.recent = s1.recent /\ s2.chain = s1.chain /\ s2.lastChainIdx = s1.lastChainIdx
        /\ s2.missingKeysStart = s1.missingKeysStart /\ s2.secret = p /\ s2.addrs = s1.addrs
    BY <2>7 DEF Formed
  <2>9. Formed(s2)
    BY <2>7 DEF Formed
  <2> HIDE DEF s2
  <2>10. GoodChain(s2) /\ ~LT(s2.vers, VersUnsetNeedsPrivkeyFlag)
    BY <2>6, <2>8 DEF Good, GoodChain
  <2>11. GoodAddrs(s2, p)
    BY <2>6, <2>8 DEF Good, GoodAddrs, GoodKey, GoodScript
  <2>12. s2.watching = FALSE
    BY <1>0, <1>3, <2>6, <2>8
  <2> DEFINE r == createMissingPrivateKeys(s2)
  <2>13. /\ r.e = "nil" /\ Good(r.s, p) /\ r.s.secret = p
         /\ r.s.chain = s2.chain /\ r.s.lastChainIdx = s2.lastChainIdx
         /\ r.s.highestUsed = s2.highestUsed /\ r.s.watching = FALSE
         /\ DOMAIN r.s.addrs = DOMAIN s2.addrs /\ Follows(s2, r.s)
    BY <2>8, <2>9, <2>10, <2>11, <2>12, CreateMissingGood
  <2> HIDE DEF r
  <2>14. Unlock(s, q) = r
    BY <2>3 DEF r
  <2>15. Follows(s, s2)
    BY <1>0, <2>6, <2>8 DEF Follows
  <2>16. Follows(s, r.s)
    BY <2>13, <2>15, FollowsTrans
  <2> QED BY <1>0, <1>3, <2>6, <2>8, <2>13, <2>14, <2>16
<1> QED BY <1>0, <1>1, <1>2, <1>3

(* Every key of an unlocked store decrypts to the private key of its       *)
(* address.                                                                *)
LEMMA RecoversGood ==
  ASSUME NEW s, NEW p \in Passphrases, Good(s, p), ~s.watching
  PROVE  Recovers(s, p)
<1> DEFINE l == Lock(s).s
           u == Unlock(l, p)
<1>1. Good(l, p) /\ ~l.watching
  BY LockGood
<1> HIDE DEF l
<1>2. u.e = "nil" /\ Good(u.s, p) /\ u.s.secret = p /\ ~u.s.watching
  BY <1>1, UnlockGood
<1> HIDE DEF u
<1>3. ASSUME NEW a \in DOMAIN u.s.addrs, u.s.addrs[a].kind = "key"
      PROVE  LET x == unlock(u.s.addrs[a], a, u.s.secret) IN
             x.e = "nil" /\ Pub(x.s.ct) = a
  <2>1. Holds(a, u.s.addrs[a], p)
    <3>1. GoodAddr(u.s, p, a, u.s.addrs[a])
      BY <1>2 DEF Good, GoodAddrs, GoodAddr
    <3>2. u.s.missingKeysStart = -1
      BY <1>2, SecretsAre DEF Good
    <3> QED BY <1>2, <1>3, <3>1, <3>2 DEF GoodAddr, GoodScript, GoodKey, IsScript
  <2>2. p # NoKey
    BY SecretsAre
  <2> QED BY <1>2, <2>1, <2>2, UnlockRight
<1> QED BY <1>2, <1>3 DEF Recovers, u, l

(* What PrivKey reads of and writes to an address: a saved clear text is   *)
(* the private key of the address, and so is what it saves.                *)
LEMMA SavedIsRight ==
  ASSUME NEW s, NEW p, NEW a \in PubKeys, NEW x, GoodAddr(s, p, a, x), x.ct # NoKey
  PROVE  Pub(x.ct) = a
<1>1. Holds(a, x, p)
  BY ScriptsApart DEF GoodAddr, GoodScript, GoodKey, IsScript, Lacks
<1> QED BY <1>1 DEF Holds

LEMMA DecryptedIs ==
  ASSUME NEW s, NEW p, NEW a, NEW x, GoodAddr(s, p, a, x), NEW key
  PROVE  Decrypt(x.priv, key) \in Secrets
<1>1. x \in AddrRec
  BY DEF GoodAddr, GoodScript, GoodKey, IsScript, Holds, Lacks
<1>2. x.priv \in Secrets \X Int
  BY <1>1 DEF AddrRec
<1> QED BY <1>2 DEF Decrypt, Secrets

LEMMA SaveGood ==
  ASSUME NEW s, NEW p, NEW a, NEW x, GoodAddr(s, p, a, x), x.enc,
         NEW k \in Secrets, Pub(k) = a
  PROVE  LET y == [x EXCEPT !.ct = k] IN GoodAddr(s, p, a, y) /\ y.idx = x.idx
<1> HIDE DEF Pub
<1>1. GoodKey(s, p, a, x) /\ Holds(a, x, p) /\ ~s.watching
  BY DEF GoodAddr, GoodScript, GoodKey, IsScript, Lacks
<1>2. x \in AddrRec /\ x.priv[1] \in PrivKeys /\ Pub(x.priv[1]) = a
  BY <1>1 DEF Holds
<1>3. k = x.priv[1] /\ k \in PrivKeys
  BY <1>2, PubIsInjective DEF Secrets
<1> DEFINE y == [x EXCEPT !.ct = k]
<1>4. /\ y \in AddrRec /\ y.idx = x.idx /\ y.kind = x.kind /\ y.enc = x.enc
      /\ y.hasPub = x.hasPub /\ y.hasPriv = x.hasPriv /\ y.priv = x.priv
      /\ y.ct = k
  BY <1>2, <1>3, ClearText
<1> HIDE DEF y
<1>5. Holds(a, y, p)
  BY <1>1, <1>3, <1>4 DEF Holds
<1>6. GoodAddr(s, p, a, y)
  BY <1>1, <1>4, <1>5 DEF GoodAddr, GoodKey, Placed
<1> QED BY <1>4, <1>6 DEF y

(* Lock leaves no clear text of a key address.                             *)
LEMMA LockClears ==
  ASSUME NEW s, NEW p, Good(s, p), ~s.watching, NEW a \in DOMAIN s.addrs, a \in PubKeys
  PROVE  Lock(s).s.addrs[a].ct = NoKey
<1> DEFINE x == s.addrs[a]
<1>1. GoodAddr(s, p, a, x)
  BY DEF Good, GoodAddrs, GoodAddr
<1>2. Holds(a, x, p) \/ Lacks(a, x)
  BY <1>1, ScriptsApart DEF GoodAddr, GoodScript, GoodKey, IsScript
<1>3. x.kind = "key" /\ x \in AddrRec /\ (~x.enc => x.ct = NoKey)
  BY <1>2 DEF Holds, Lacks
<1>4. lock(x).ct = NoKey
  <2> HIDE DEF x
  <2> QED BY <1>3 DEF lock, AddrRec
<1>5. Lock(s).s.addrs = [b \in DOMAIN s.addrs |->
                          IF s.addrs[b].kind = "key" THEN lock(s.addrs[b]) ELSE s.addrs[b]]
  BY DEF Good, Formed, Lock
<1> QED BY <1>3, <1>4, <1>5

-----------------------------------------------------------------------------
(* Synchronisation.                                                        *)

LEMMA RecentGood ==
  ASSUME NEW s, NEW p, Good(s, p), NEW r, r.lastHeight \in Nat
  PROVE  LET t == [s EXCEPT !.recent = r] IN
         /\ Good(t, p) /\ t.lastChainIdx = s.lastChainIdx /\ t.addrs = s.addrs
         /\ t.secret = s.secret
<1> DEFINE t == [s EXCEPT !.recent = r]
<1>0. Formed(s)
  BY DEF Good
<1>1. /\ t.vers = s.vers /\ t.watching = s.watching /\ t.highestUsed = s.highestUsed
      /\ t.recent = r /\ t.secret = s.secret /\ t.addrs = s.addrs
      /\ t.missingKeysStart = s.missingKeysStart /\ t.chain = s.chain
      /\ t.lastChainIdx = s.lastChainIdx
  BY <1>0 DEF Formed
<1>2. Formed(t)
  BY <1>0 DEF Formed
<1> HIDE DEF t
<1>3. GoodChain(t)
  BY <1>1 DEF Good, GoodChain
<1>4. GoodAddrs(t, p)
  BY <1>1 DEF Good, GoodAddrs, GoodKey, GoodScript
<1>5. Good(t, p)
  BY <1>1, <1>2, <1>3, <1>4 DEF Good
<1> QED BY <1>1, <1>5 DEF t

LEMMA SetSyncedWithGood ==
  ASSUME NEW s, NEW p, Good(s, p), NEW b \in Blocks
  PROVE  LET t == SetSyncedWith(s, b) IN
         Good(t, p) /\ t.lastChainIdx = s.lastChainIdx /\ t.addrs = s.addrs /\ t.secret = s.secret
<1>1. b[1] \in Nat
  BY Constants DEF Blocks
<1>2. \E r : r.lastHeight = b[1] /\ SetSyncedWith(s, b) = [s EXCEPT !.recent = r]
  <2> DEFINE hs == s.recent.hashes
             h == b[1]
             idx == Len(hs) - (s.recent.lastHeight - h)
             rollback == h < s.recent.lastHeight
             kept == IF rollback \/ h # s.recent.lastHeight + 1 THEN <<>> ELSE hs
             r1 == [hashes |-> SubSeq(hs, 1, idx - 1), lastHeight |-> h]
             r2 == [hashes |-> Append(IF Len(kept) = RecentMax THEN Tail(kept) ELSE kept, b),
                    lastHeight |-> h]
             r == IF rollback /\ idx \in 1 .. Len(hs) /\ hs[idx] = b THEN r1 ELSE r2
  <2>1. r.lastHeight = b[1]
    OBVIOUS
  <2>2. SetSyncedWith(s, b) = [s EXCEPT !.recent = r]
    BY DEF SetSyncedWith
  <2> HIDE DEF r
  <2> QED BY <2>1, <2>2
<1>3. PICK r : r.lastHeight = b[1] /\ SetSyncedWith(s, b) = [s EXCEPT !.recent = r]
  BY <1>2
<1> QED BY <1>1, <1>3, RecentGood

LEMMA SetSyncStatusGood ==
  ASSUME NEW s, NEW p, Good(s, p), NEW a \in DOMAIN s.addrs, NEW st, NEW h \in Int
  PROVE  LET t == [s EXCEPT !.addrs[a] = setSyncStatus(s.addrs[a], st, h)] IN
         /\ Good(t, p) /\ t.lastChainIdx = s.lastChainIdx /\ DOMAIN t.addrs = DOMAIN s.addrs
         /\ Follows(s, t)
<1> DEFINE y == setSyncStatus(s.addrs[a], st, h)
<1>1. GoodAddr(s, p, a, s.addrs[a])
  BY DEF Good, GoodAddrs, GoodAddr
<1>2. GoodAddr(s, p, a, y) /\ y.idx = s.addrs[a].idx /\ y.ct = s.addrs[a].ct
  BY <1>1, SyncKeepsGood
<1> HIDE DEF y
<1>3. LET t == [s EXCEPT !.addrs[a] = y] IN
      /\ Good(t, p) /\ t.lastChainIdx = s.lastChainIdx /\ DOMAIN t.addrs = DOMAIN s.addrs
      /\ Follows(s, t)
  BY <1>2, ReplaceAddr
<1> QED BY <1>3 DEF y

LEMMA SetUnsyncedGood ==
  ASSUME NEW s, NEW p, Good(s, p)
  PROVE  LET t == SetUnsynced(s) IN
         /\ Good(t, p) /\ t.lastChainIdx = s.lastChainIdx /\ DOMAIN t.addrs = DOMAIN s.addrs
         /\ Follows(s, t)
<1> DEFINE r == [blockUnset EXCEPT !.lastHeight = s.addrs[rootAddr].first]
           t1 == [s EXCEPT !.recent = r]
           t == [t1 EXCEPT !.addrs[rootAddr] = setSyncStatus(t1.addrs[rootAddr], "unsynced", 0)]
<1>1. rootAddr \in DOMAIN s.addrs /\ s.addrs[rootAddr].first \in Nat
  <2>1. rootAddr \in DOMAIN s.addrs /\ GoodKey(s, p, rootAddr, s.addrs[rootAddr])
    BY RootPlace
  <2>2. s.addrs[rootAddr] \in AddrRec
    BY <2>1 DEF GoodKey, Holds, Lacks
  <2> DEFINE x == s.addrs[rootAddr]
  <2> HIDE DEF x
  <2>3. x \in AddrRec => x.first \in Nat
    BY DEF AddrRec
  <2> QED BY <2>1, <2>2, <2>3 DEF x
<1>2. r.lastHeight = s.addrs[rootAddr].first
  BY DEF blockUnset
<1> HIDE DEF r
<1>3. Good(t1, p) /\ t1.lastChainIdx = s.lastChainIdx /\ t1.addrs = s.addrs /\ t1.secret = s.secret
  BY <1>1, <1>2, RecentGood
<1>4. SetUnsynced(s) = t
  <2>1. Formed(s)
    BY DEF Good
  <2>2. SetUnsynced(s) = [s EXCEPT !.recent = r,
                            !.addrs[rootAddr] = setSyncStatus(s.addrs[rootAddr], "unsynced", 0)]
    BY DEF SetUnsynced, r
  <2> QED BY <1>3, <2>1, <2>2 DEF Formed
<1> HIDE DEF t1
<1>5. Good(t, p) /\ t.lastChainIdx = t1.lastChainIdx /\ DOMAIN t.addrs = DOMAIN t1.addrs
      /\ Follows(t1, t)
  BY <1>1, <1>3, SetSyncStatusGood
<1> HIDE DEF t
<1>6. Follows(s, t)
  BY <1>3, <1>5, FollowsSame, FollowsTrans
<1> QED BY <1>3, <1>4, <1>5, <1>6

-----------------------------------------------------------------------------
(* New.                                                                    *)
LEMMA NewGood ==
  ASSUME NEW p \in Passphrases, NEW h \in Nat, NEW hash
  PROVE  Good(New(p, h, hash), p) /\ New(p, h, hash).lastChainIdx = -1
         /\ ~New(p, h, hash).watching
<1> DEFINE x == newBtcAddress(rootKey, h)
           y == [x EXCEPT !.idx = rootKeyChainIdx]
           z == encrypt(y, p).s
           w == lock(z)
           t == New(p, h, hash)
<1>0. p \in Int /\ p # NoKey /\ kdf(p) = p /\ rootKey \in PrivKeys
  BY SecretsAre, RootIsKey
<1>1. x \in AddrRec /\ x.kind = "key" /\ x.hasPub /\ ~x.enc /\ x.ct = rootKey
  BY <1>0, NewAddresses
<1> HIDE DEF x
<1>2. y \in AddrRec
  BY <1>1, Constants DEF AddrRec
<1>3. y.kind = "key" /\ y.hasPub /\ ~y.enc /\ y.ct = rootKey
  BY <1>1 DEF AddrRec
<1>4. y.idx = -1
  BY <1>1, Constants DEF AddrRec
<1> HIDE DEF y
<1>5. Holds(rootAddr, z, p) /\ z.idx = -1
  BY <1>0, <1>2, <1>3, <1>4, EncryptGives DEF rootAddr
<1> HIDE DEF z
<1>6. Holds(rootAddr, w, p) /\ w.idx = -1
  BY <1>5, LockHolds
<1>7. t = [vers |-> VersCurrent, watching |-> FALSE, highestUsed |-> -1,
           recent |-> [hashes |-> <<hash>>, lastHeight |-> h],
           addrs |-> [a \in {rootAddr} |-> w],
           chain |-> [i \in {-1} |-> rootAddr],
           lastChainIdx |-> -1, missingKeysStart |-> -1, secret |-> NoKey]
  BY <1>0, Constants DEF New, w, z, y, x
<1> HIDE DEF t, w
<1>8. Formed(t)
  BY <1>7 DEF Formed
<1>9. /\ t.vers = VersCurrent /\ t.watching = FALSE /\ t.highestUsed = -1
      /\ t.recent.lastHeight = h /\ t.addrs = [a \in {rootAddr} |-> w]
      /\ t.chain = [i \in {-1} |-> rootAddr] /\ t.lastChainIdx = -1
      /\ t.missingKeysStart = -1 /\ t.secret = NoKey
  BY <1>7
<1>10. ~LT(t.vers, VersUnsetNeedsPrivkeyFlag)
  BY <1>9 DEF LT, VersCurrent, VersUnsetNeedsPrivkeyFlag
<1>11. chainKey[0] = rootAddr /\ -1 + 1 = 0
  BY ChainKeyIs
<1>12. GoodChain(t)
  <2>1. \A i \in {-1} : i + 1 = 0
    OBVIOUS
  <2>2. {-1} = -1 .. -1
    OBVIOUS
  <2>3. [i \in {-1} |-> rootAddr] = [i \in -1 .. -1 |-> chainKey[i + 1]]
    BY <1>11, <2>1, <2>2
  <2> QED BY <1>9, <2>3, Constants DEF GoodChain
<1>13. GoodAddrs(t, p)
  <2>1. DOMAIN t.addrs = {rootAddr} /\ t.addrs[rootAddr] = w /\ t.addrs = [a \in DOMAIN t.addrs |-> t.addrs[a]]
    BY <1>9
  <2>2. GoodKey(t, p, rootAddr, w)
    BY <1>6, <1>9, <1>11 DEF GoodKey, Placed
  <2>3. \A i \in -1 .. t.lastChainIdx : i = -1
    BY <1>9
  <2> QED BY <1>6, <1>11, <2>1, <2>2, <2>3 DEF GoodAddrs
<1>14. Good(t, p)
  BY <1>8, <1>9, <1>10, <1>12, <1>13 DEF Good
<1> QED BY <1>9, <1>14 DEF t

-----------------------------------------------------------------------------
(* The file: what writeTo writes of an address, readFrom reads back, all   *)
(* but the clear text.                                                     *)
SameOnFile(x, y) ==
  /\ y \in AddrRec /\ y.kind = x.kind /\ y.idx = x.idx /\ y.hasPriv = x.hasPriv
  /\ y.enc = x.enc /\ y.hasPub = x.hasPub
  /\ y.change = x.change /\ y.unsynced = x.unsynced /\ y.partial = x.partial
  /\ y.psh = x.psh /\ y.first = x.first /\ y.ct = NoKey

LEMMA BitIs ==
  /\ \A b : Bit(b, TRUE) = {b} /\ Bit(b, FALSE) = {}
  /\ \A b, c : \A on \in BOOLEAN : c \in Bit(b, on) => c = b
<1>1. \A b : Bit(b, TRUE) = {b} /\ Bit(b, FALSE) = {}
  BY DEF Bit
<1>2. ASSUME NEW b, NEW c, NEW on \in BOOLEAN, c \in Bit(b, on)
      PROVE  c = b
  <2>1. CASE on = TRUE
    BY <1>1, <1>2, <2>1
  <2>2. CASE on = FALSE
    BY <1>1, <1>2, <2>2
  <2> QED BY <2>1, <2>2
<1> QED BY <1>1, <1>2

(* A flag is on exactly when its bit is in the set.                        *)
LEMMA BitOf ==
  ASSUME NEW b, NEW on \in BOOLEAN
  PROVE  (b \in Bit(b, on)) <=> on
<1>1. CASE on = TRUE
  BY <1>1, BitIs
<1>2. CASE on = FALSE
  <2>1. b \notin Bit(b, FALSE)
    BY BitIs
  <2> QED BY <1>2, <2>1
<1> QED BY <1>1, <1>2

LEMMA AddrBits ==
  ASSUME NEW x \in AddrRec
  PROVE  LET B == addrFlagBits(x) IN
         /\ (0 \in B) <=> x.hasPriv
         /\ (1 \in B) <=> x.hasPub
         /\ (2 \in B) <=> x.enc
         /\ (3 \in B) <=> x.createNext
         /\ (5 \in B) <=> x.change
         /\ (6 \in B) <=> x.unsynced
         /\ (7 \in B) <=> x.partial
<1> DEFINE B == addrFlagBits(x)
           Of(b, c, on) == b \in Bit(c, on)
<1>1. /\ x.hasPriv \in BOOLEAN
      /\ x.hasPub \in BOOLEAN
      /\ x.enc \in BOOLEAN
      /\ x.createNext \in BOOLEAN
      /\ x.change \in BOOLEAN
      /\ x.unsynced \in BOOLEAN
      /\ x.partial \in BOOLEAN
  BY DEF AddrRec
<1>2. \A b, c : \A on \in BOOLEAN : Of(b, c, on) => b = c
  BY BitIs
<1>3. \A b : \A on \in BOOLEAN : Of(b, b, on) <=> on
  BY BitOf
<1>4. \A b : b \in B <=> \/ Of(b, 0, x.hasPriv)
                         \/ Of(b, 1, x.hasPub)
                         \/ Of(b, 2, x.enc)
                         \/ Of(b, 3, x.createNext)
                         \/ Of(b, 5, x.change)
                         \/ Of(b, 6, x.unsynced)
                         \/ Of(b, 7, x.partial)
                         \/ b = 4
  BY DEF addrFlagBits
<1> HIDE DEF Of, B
<1>5. /\ 0 \in B <=> Of(0, 0, x.hasPriv)
      /\ 1 \in B <=> Of(1, 1, x.hasPub)
      /\ 2 \in B <=> Of(2, 2, x.enc)
      /\ 3 \in B <=> Of(3, 3, x.createNext)
      /\ 5 \in B <=> Of(5, 5, x.change)
      /\ 6 \in B <=> Of(6, 6, x.unsynced)
      /\ 7 \in B <=> Of(7, 7, x.partial)
  BY <1>1, <1>2, <1>4
<1>6. /\ Of(0, 0, x.hasPriv) <=> x.hasPriv
      /\ Of(1, 1, x.hasPub) <=> x.hasPub
      /\ Of(2, 2, x.enc) <=> x.enc
      /\ Of(3, 3, x.createNext) <=> x.createNext
      /\ Of(5, 5, x.change) <=> x.change
      /\ Of(6, 6, x.unsynced) <=> x.unsynced
      /\ Of(7, 7, x.partial) <=> x.partial
  BY <1>1, <1>3
<1> QED BY <1>5, <1>6 DEF B

LEMMA ScriptBits ==
  ASSUME NEW x \in AddrRec
  PROVE  LET B == scriptFlagBits(x) IN
         /\ (1 \in B) <=> x.hasPub
         /\ (5 \in B) <=> x.change
         /\ (6 \in B) <=> x.unsynced
         /\ (7 \in B) <=> x.partial
<1> DEFINE B == scriptFlagBits(x)
           Of(b, c, on) == b \in Bit(c, on)
<1>1. /\ x.hasPub \in BOOLEAN
      /\ x.change \in BOOLEAN
      /\ x.unsynced \in BOOLEAN
      /\ x.partial \in BOOLEAN
  BY DEF AddrRec
<1>2. \A b, c : \A on \in BOOLEAN : Of(b, c, on) => b = c
  BY BitIs
<1>3. \A b : \A on \in BOOLEAN : Of(b, b, on) <=> on
  BY BitOf
<1>4. \A b : b \in B <=> \/ Of(b, 1, x.hasPub)
                         \/ Of(b, 5, x.change)
                         \/ Of(b, 6, x.unsynced)
                         \/ Of(b, 7, x.partial)
  BY DEF scriptFlagBits
<1> HIDE DEF Of, B
<1>5. /\ 1 \in B <=> Of(1, 1, x.hasPub)
      /\ 5 \in B <=> Of(5, 5, x.change)
      /\ 6 \in B <=> Of(6, 6, x.unsynced)
      /\ 7 \in B <=> Of(7, 7, x.partial)
  BY <1>1, <1>2, <1>4
<1>6. /\ Of(1, 1, x.hasPub) <=> x.hasPub
      /\ Of(5, 5, x.change) <=> x.change
      /\ Of(6, 6, x.unsynced) <=> x.unsynced
      /\ Of(7, 7, x.partial) <=> x.partial
  BY <1>1, <1>3
<1> QED BY <1>5, <1>6 DEF B

LEMMA BoolEq ==
  ASSUME NEW S, NEW b, NEW v \in BOOLEAN, (b \in S) <=> v
  PROVE  (b \in S) = v
<1>1. PICK u \in BOOLEAN : u = (b \in S)
  OBVIOUS
<1>2. u <=> v
  BY <1>1
<1>3. u = v
  BY <1>2
<1> QED BY <1>1, <1>3

LEMMA KeyOnFile ==
  ASSUME NEW a, NEW x \in AddrRec, x.kind = "key"
  PROVE  LET y == readAddrEntry(addrEntryOf(a, x)) IN
         SameOnFile(x, y) /\ y.priv = x.priv /\ y.createNext = x.createNext
<1> DEFINE e == addrEntryOf(a, x)
           y == readAddrEntry(e)
           z == [kind |-> "key", idx |-> x.idx, hasPriv |-> x.hasPriv, hasPub |-> x.hasPub,
                 enc |-> x.enc, createNext |-> x.createNext, change |-> x.change,
                 unsynced |-> x.unsynced, partial |-> x.partial, psh |-> x.psh,
                 first |-> x.first, priv |-> x.priv, ct |-> NoKey]
<1>1. e.bits = addrFlagBits(x) /\ e.idx = x.idx /\ e.priv = x.priv
      /\ e.first = x.first /\ e.psh = x.psh
  BY DEF addrEntryOf
<1> HIDE DEF e
<1>2. /\ (0 \in e.bits) <=> x.hasPriv
      /\ (1 \in e.bits) <=> x.hasPub
      /\ (2 \in e.bits) <=> x.enc
      /\ (3 \in e.bits) <=> x.createNext
      /\ (5 \in e.bits) <=> x.change
      /\ (6 \in e.bits) <=> x.unsynced
      /\ (7 \in e.bits) <=> x.partial
  BY <1>1, AddrBits
<1>3. y = z
  <2>1. /\ x.hasPriv \in BOOLEAN /\ x.hasPub \in BOOLEAN /\ x.enc \in BOOLEAN
        /\ x.createNext \in BOOLEAN /\ x.change \in BOOLEAN
        /\ x.unsynced \in BOOLEAN /\ x.partial \in BOOLEAN
    BY DEF AddrRec
  <2>2. /\ (0 \in e.bits) = x.hasPriv /\ (1 \in e.bits) = x.hasPub /\ (2 \in e.bits) = x.enc
        /\ (3 \in e.bits) = x.createNext
    BY <1>2, <2>1, BoolEq
  <2>3. /\ (5 \in e.bits) = x.change /\ (6 \in e.bits) = x.unsynced
        /\ (7 \in e.bits) = x.partial
    BY <1>2, <2>1, BoolEq
  <2> QED BY <1>1, <2>2, <2>3 DEF readAddrEntry
<1>4. z \in AddrRec
  BY DEF AddrRec, Secrets
<1>5. SameOnFile(x, z) /\ z.priv = x.priv /\ z.createNext = x.createNext
  BY <1>4 DEF SameOnFile
<1> HIDE DEF z
<1> QED BY <1>3, <1>5 DEF e

LEMMA ScriptOnFile ==
  ASSUME NEW a, NEW x, IsScript(a, x)
  PROVE  SameOnFile(x, readScriptEntry(scriptEntryOf(a, x)))
<1> DEFINE e == scriptEntryOf(a, x)
           v == newBtcAddressWithoutPrivkey(x.first)
           w == newScriptAddress(x.first)
           y == readScriptEntry(e)
<1>0. x \in AddrRec /\ x.kind = "script" /\ x.idx = importedKeyChainIdx /\ ~x.hasPriv /\ ~x.enc
      /\ a \in Scripts
  BY DEF IsScript
<1>1. e.bits = scriptFlagBits(x) /\ e.first = x.first /\ e.psh = x.psh
  BY DEF scriptEntryOf
<1> HIDE DEF e
<1>2. /\ (1 \in e.bits) <=> x.hasPub
      /\ (5 \in e.bits) <=> x.change
      /\ (6 \in e.bits) <=> x.unsynced
      /\ (7 \in e.bits) <=> x.partial
  BY <1>0, <1>1, ScriptBits
<1>3. /\ x.hasPub \in BOOLEAN /\ x.change \in BOOLEAN /\ x.unsynced \in BOOLEAN
      /\ x.partial \in BOOLEAN /\ x.hasPriv \in BOOLEAN /\ x.enc \in BOOLEAN
      /\ x.first \in Nat /\ x.psh \in Int
  BY <1>0 DEF AddrRec
<1>4. /\ (1 \in e.bits) = x.hasPub /\ (5 \in e.bits) = x.change
      /\ (6 \in e.bits) = x.unsynced /\ (7 \in e.bits) = x.partial
  BY <1>2, <1>3, BoolEq
<1>5. IsScript(a, w)
  BY <1>0, <1>3, NewAddresses
<1>6. w.ct = NoKey /\ w.first = x.first
  <2>1. v \in AddrRec /\ v.ct = NoKey /\ v.first = x.first
    BY <1>3 DEF newBtcAddressWithoutPrivkey, AddrRec, Secrets, NoCipher, NoKey
  <2>2. w = [v EXCEPT !.kind = "script", !.idx = importedKeyChainIdx, !.createNext = FALSE]
    BY DEF newScriptAddress
  <2> HIDE DEF v, w
  <2> QED BY <2>1, <2>2 DEF AddrRec
<1>7. y = [w EXCEPT !.hasPub = x.hasPub, !.change = x.change,
                    !.unsynced = x.unsynced, !.partial = x.partial, !.psh = x.psh]
  BY <1>1, <1>4 DEF readScriptEntry
<1>8. w \in AddrRec /\ w.kind = "script" /\ w.idx = importedKeyChainIdx /\ ~w.hasPriv /\ ~w.enc
  BY <1>5 DEF IsScript
<1> HIDE DEF w, y
<1>9. y \in AddrRec
  BY <1>3, <1>7, <1>8 DEF AddrRec
<1>10. y.kind = x.kind /\ y.idx = x.idx /\ y.ct = NoKey /\ y.first = x.first
  BY <1>0, <1>6, <1>7, <1>8 DEF AddrRec
<1>11. y.hasPriv = w.hasPriv /\ y.enc = w.enc
  BY <1>7, <1>8 DEF AddrRec
<1>12. y.hasPub = x.hasPub /\ y.change = x.change /\ y.unsynced = x.unsynced
  BY <1>7, <1>8 DEF AddrRec
<1>13. y.partial = x.partial /\ y.psh = x.psh
  BY <1>7, <1>8 DEF AddrRec
<1>14. y.hasPriv = x.hasPriv /\ y.enc = x.enc
  <2>1. w.hasPriv \in BOOLEAN /\ w.enc \in BOOLEAN
    BY <1>8 DEF AddrRec
  <2> QED BY <1>0, <1>3, <1>8, <1>11, <2>1
<1>15. SameOnFile(x, y)
  BY <1>9, <1>10, <1>12, <1>13, <1>14 DEF SameOnFile
<1> QED BY <1>15 DEF e, y

(* The entry of an address, and the address that it is read back as.       *)
EntryFor(a, x) == IF x.kind = "key" THEN addrEntryOf(a, x) ELSE scriptEntryOf(a, x)
ReadEntry(e) == IF e.header = "addr" THEN readAddrEntry(e) ELSE readScriptEntry(e)

LEMMA EntryFields ==
  ASSUME NEW a, NEW x
  PROVE  /\ EntryFor(a, x).hash = a
         /\ EntryFor(a, x).header = IF x.kind = "key" THEN "addr" ELSE "script"
         /\ x.kind = "key" => EntryFor(a, x).idx = x.idx
  BY DEF EntryFor, addrEntryOf, scriptEntryOf

LEMMA AddrOnFile ==
  ASSUME NEW s, NEW p, NEW a, NEW x, GoodAddr(s, p, a, x)
  PROVE  LET y == ReadEntry(EntryFor(a, x)) IN
         /\ SameOnFile(x, y) /\ EntryFor(a, y) = EntryFor(a, x)
         /\ Holds(a, x, p) => Holds(a, y, p)
         /\ Lacks(a, x) => Lacks(a, y)
         /\ IsScript(a, x) => IsScript(a, y)
<1> DEFINE y == ReadEntry(EntryFor(a, x))
<1>1. CASE x.kind = "key"
  <2>1. x \in AddrRec
    BY <1>1 DEF GoodAddr, GoodScript, GoodKey, IsScript, Holds, Lacks
  <2>2. y = readAddrEntry(addrEntryOf(a, x))
    BY <1>1 DEF ReadEntry, EntryFor, addrEntryOf
  <2>3. SameOnFile(x, y) /\ y.priv = x.priv /\ y.createNext = x.createNext
    BY <1>1, <2>1, <2>2, KeyOnFile
  <2> HIDE DEF y
  <2>4. addrFlagBits(y) = addrFlagBits(x)
    BY <2>3 DEF SameOnFile, addrFlagBits
  <2>5. addrEntryOf(a, y) = addrEntryOf(a, x)
    BY <2>3, <2>4 DEF SameOnFile, addrEntryOf
  <2>6. EntryFor(a, y) = EntryFor(a, x)
    BY <1>1, <2>3, <2>5 DEF EntryFor, SameOnFile
  <2>7. Holds(a, x, p) => Holds(a, y, p)
    BY <2>3 DEF Holds, SameOnFile
  <2>8. Lacks(a, x) => Lacks(a, y)
    BY <2>3 DEF Lacks, SameOnFile
  <2>9. ~IsScript(a, x)
    BY <1>1 DEF IsScript
  <2> QED BY <2>3, <2>6, <2>7, <2>8, <2>9 DEF y
<1>2. CASE x.kind # "key"
  <2>1. IsScript(a, x)
    BY <1>2 DEF GoodAddr, GoodScript, GoodKey, Holds, Lacks
  <2>2. y = readScriptEntry(scriptEntryOf(a, x))
    BY <1>2 DEF ReadEntry, EntryFor, scriptEntryOf
  <2>3. SameOnFile(x, y)
    BY <2>1, <2>2, ScriptOnFile
  <2> HIDE DEF y
  <2>4. scriptFlagBits(y) = scriptFlagBits(x)
    BY <2>3 DEF SameOnFile, scriptFlagBits
  <2>5. scriptEntryOf(a, y) = scriptEntryOf(a, x)
    BY <2>3, <2>4 DEF SameOnFile, scriptEntryOf
  <2>6. EntryFor(a, y) = EntryFor(a, x)
    BY <1>2, <2>3, <2>5 DEF EntryFor, SameOnFile
  <2>7. ~Holds(a, x, p) /\ ~Lacks(a, x)
    BY <1>2 DEF Holds, Lacks
  <2>8. IsScript(a, y)
    BY <2>1, <2>3 DEF IsScript, SameOnFile
  <2> QED BY <2>3, <2>6, <2>7, <2>8 DEF y
<1> QED BY <1>1, <1>2

(* What a store becomes when it is written and read again.                 *)
FileOf(s, v) ==
  [vers |-> v, flags |-> walletFlagBits(s), highestUsed |-> s.highestUsed,
   recent |-> writeRecent(s.recent), entries |-> writeEntries(s)]

LEMMA EntriesAre ==
  ASSUME NEW s
  PROVE  writeEntries(s) = {EntryFor(a, s.addrs[a]) : a \in DOMAIN s.addrs}
  BY DEF writeEntries, EntryFor

LEMMA FlagsAre ==
  ASSUME NEW s, s.watching \in BOOLEAN
  PROVE  (1 \in walletFlagBits(s)) = s.watching
<1>1. CASE s.watching = TRUE
  <2>1. 1 \in walletFlagBits(s)
    BY <1>1, BitIs DEF walletFlagBits
  <2>2. (1 \in walletFlagBits(s)) <=> s.watching
    BY <1>1, <2>1
  <2> QED BY <2>2, BoolEq
<1>2. CASE s.watching = FALSE
  <2>1. walletFlagBits(s) = {0}
    BY <1>2, BitIs DEF walletFlagBits
  <2>2. (1 \in walletFlagBits(s)) <=> s.watching
    BY <1>2, <2>1
  <2> QED BY <2>2, BoolEq
<1> QED BY <1>1, <1>2

(* The chain is rebuilt from the entries: their indices are the places of  *)
(* the chain and each place has one entry.                                 *)
LEMMA ChainOnFile ==
  ASSUME NEW s, NEW p, Good(s, p)
  PROVE  LET entries == writeEntries(s)
             keys == {x \in entries : x.header = "addr"}
             chained == {x \in keys : x.idx # importedKeyChainIdx}
         IN  /\ {x.idx : x \in chained} = -1 .. s.lastChainIdx
             /\ Max({x.idx : x \in chained}) = s.lastChainIdx
             /\ [i \in {x.idx : x \in chained} |-> (CHOOSE x \in chained : x.idx = i).hash]
                  = s.chain
<1> DEFINE last == s.lastChainIdx
           entries == writeEntries(s)
           keys == {x \in entries : x.header = "addr"}
           chained == {x \in keys : x.idx # importedKeyChainIdx}
           at(i) == EntryFor(chainKey[i + 1], s.addrs[chainKey[i + 1]])
<1>0. last \in Int /\ last >= -1 /\ s.chain = [i \in -1 .. last |-> chainKey[i + 1]]
  BY Constants DEF Good, GoodChain
<1>1. entries = {EntryFor(a, s.addrs[a]) : a \in DOMAIN s.addrs}
  BY EntriesAre
<1> HIDE DEF entries
<1>2. ASSUME NEW i \in -1 .. last
      PROVE  at(i) \in chained /\ at(i).idx = i /\ at(i).hash = chainKey[i + 1]
  <2> DEFINE a == chainKey[i + 1]
             x == s.addrs[a]
  <2>1. a \in DOMAIN s.addrs /\ x.idx = i /\ GoodKey(s, p, a, x)
    BY ChainPlaces
  <2>2. x.kind = "key"
    BY <2>1 DEF GoodKey, Holds, Lacks
  <2> HIDE DEF a, x
  <2>3. EntryFor(a, x).hash = a /\ EntryFor(a, x).header = "addr" /\ EntryFor(a, x).idx = i
    BY <2>1, <2>2, EntryFields
  <2>4. EntryFor(a, x) \in entries
    BY <1>1, <2>1 DEF x
  <2>5. i # importedKeyChainIdx
    BY <1>0, Constants
  <2> QED BY <2>3, <2>4, <2>5 DEF a, x
<1>3. ASSUME NEW x \in chained
      PROVE  x.idx \in -1 .. last /\ x = at(x.idx)
  <2>1. PICK a \in DOMAIN s.addrs : x = EntryFor(a, s.addrs[a])
    BY <1>1
  <2> DEFINE y == s.addrs[a]
  <2>2. x.header = "addr" /\ x.idx # importedKeyChainIdx
    OBVIOUS
  <2>3. y.kind = "key" /\ x.idx = y.idx
    BY <2>1, <2>2, EntryFields
  <2>4. GoodAddr(s, p, a, y)
    BY DEF Good, GoodAddrs, GoodAddr
  <2>5. GoodKey(s, p, a, y)
    BY <2>3, <2>4 DEF GoodAddr, GoodScript, IsScript
  <2>6. y.idx \in -1 .. last /\ chainKey[y.idx + 1] = a
    BY <2>2, <2>3, <2>5 DEF GoodKey, Placed
  <2> QED BY <2>1, <2>3, <2>6
<1> HIDE DEF chained, at
<1>4. {x.idx : x \in chained} = -1 .. last
  BY <1>2, <1>3
<1>5. Max(-1 .. last) = last
  <2>1. last \in -1 .. last /\ \A y \in -1 .. last : last >= y
    BY <1>0
  <2>2. \A x \in -1 .. last : (\A y \in -1 .. last : x >= y) => x = last
    BY <1>0
  <2> DEFINE m == CHOOSE x \in -1 .. last : \A y \in -1 .. last : x >= y
  <2>3. m \in -1 .. last /\ \A y \in -1 .. last : m >= y
    BY <2>1
  <2> HIDE DEF m
  <2>4. m = last
    BY <2>2, <2>3
  <2> QED BY <2>4 DEF Max, m
<1>6. ASSUME NEW i \in -1 .. last
      PROVE  (CHOOSE x \in chained : x.idx = i).hash = chainKey[i + 1]
  <2>1. \E x \in chained : x.idx = i
    BY <1>2
  <2> DEFINE c == CHOOSE x \in chained : x.idx = i
  <2>2. c \in chained /\ c.idx = i
    BY <2>1
  <2> HIDE DEF c
  <2>3. c = at(i)
    BY <1>3, <2>2
  <2>4. c.hash = chainKey[i + 1]
    BY <1>2, <2>3
  <2> QED BY <2>4 DEF c
<1> DEFINE hashAt(i) == (CHOOSE x \in chained : x.idx = i).hash
<1>7. \A i \in -1 .. last : hashAt(i) = chainKey[i + 1]
  BY <1>6
<1> HIDE DEF hashAt
<1>8. [i \in {x.idx : x \in chained} |-> hashAt(i)] = s.chain
  BY <1>0, <1>4, <1>7
<1> QED BY <1>4, <1>5, <1>8 DEF chained, hashAt, entries

(* ReadFrom of what a good store wrote, with any version it can have, is   *)
(* that store locked, with every chained address to be checked again.      *)
LEMMA ReadIs ==
  ASSUME NEW s, NEW p, Good(s, p), NEW v, ~LT(v, Vers20LastBlocks)
  PROVE  LET t == ReadFrom(FileOf(s, v)) IN
         /\ Formed(t) /\ t.vers = v /\ t.watching = s.watching
         /\ t.highestUsed = s.highestUsed
         /\ t.recent = [hashes |-> s.recent.hashes, lastHeight |-> s.recent.lastHeight]
         /\ t.addrs = [a \in DOMAIN s.addrs |-> ReadEntry(EntryFor(a, s.addrs[a]))]
         /\ t.chain = s.chain /\ t.lastChainIdx = s.lastChainIdx
         /\ t.missingKeysStart = 0 /\ t.secret = NoKey
<1> DEFINE f == FileOf(s, v)
           t == ReadFrom(f)
           entries == writeEntries(s)
           keys == {x \in entries : x.header = "addr"}
           chained == {x \in keys : x.idx # importedKeyChainIdx}
           entry(a) == CHOOSE x \in entries : x.hash = a
           A == [a \in {x.hash : x \in entries} |->
                   IF entry(a) \in keys THEN readAddrEntry(entry(a))
                                        ELSE readScriptEntry(entry(a))]
<1>1. /\ f.vers = v /\ f.flags = walletFlagBits(s) /\ f.highestUsed = s.highestUsed
      /\ f.recent = writeRecent(s.recent) /\ f.entries = entries
  BY DEF FileOf
<1> HIDE DEF f
<1>2. t = [vers |-> v, watching |-> 1 \in walletFlagBits(s), highestUsed |-> s.highestUsed,
           recent |-> readRecent(v, writeRecent(s.recent)), addrs |-> A,
           chain |-> [i \in {x.idx : x \in chained} |-> (CHOOSE x \in chained : x.idx = i).hash],
           lastChainIdx |-> Max({x.idx : x \in chained}),
           missingKeysStart |-> 0, secret |-> NoKey]
  BY <1>1 DEF ReadFrom
<1>3. /\ [i \in {x.idx : x \in chained} |-> (CHOOSE x \in chained : x.idx = i).hash] = s.chain
      /\ Max({x.idx : x \in chained}) = s.lastChainIdx
  BY ChainOnFile
<1>4. (1 \in walletFlagBits(s)) = s.watching
  BY FlagsAre DEF Good
<1>5. readRecent(v, writeRecent(s.recent))
        = [hashes |-> s.recent.hashes, lastHeight |-> s.recent.lastHeight]
  BY DEF readRecent, writeRecent
<1>6. A = [a \in DOMAIN s.addrs |-> ReadEntry(EntryFor(a, s.addrs[a]))]
  <2>1. entries = {EntryFor(a, s.addrs[a]) : a \in DOMAIN s.addrs}
    BY EntriesAre
  <2> HIDE DEF entries
  <2>2. \A a \in DOMAIN s.addrs : EntryFor(a, s.addrs[a]) \in entries
                                  /\ EntryFor(a, s.addrs[a]).hash = a
    BY <2>1, EntryFields
  <2>3. \A x \in entries : x.hash \in DOMAIN s.addrs /\ x = EntryFor(x.hash, s.addrs[x.hash])
    BY <2>1, <2>2
  <2>4. {x.hash : x \in entries} = DOMAIN s.addrs
    BY <2>2, <2>3
  <2>5. ASSUME NEW a \in DOMAIN s.addrs
        PROVE  entry(a) = EntryFor(a, s.addrs[a]) /\ entry(a) \in entries
    <3>1. entry(a) \in entries /\ entry(a).hash = a
      BY <2>2
    <3> HIDE DEF entry
    <3> QED BY <2>3, <3>1
  <2> HIDE DEF entry
  <2>6. \A a \in DOMAIN s.addrs :
          (IF entry(a) \in keys THEN readAddrEntry(entry(a)) ELSE readScriptEntry(entry(a)))
            = ReadEntry(EntryFor(a, s.addrs[a]))
    BY <2>5 DEF ReadEntry
  <2> QED BY <2>4, <2>6
<1> HIDE DEF A, t, chained
<1>7. t = [vers |-> v, watching |-> s.watching, highestUsed |-> s.highestUsed,
           recent |-> [hashes |-> s.recent.hashes, lastHeight |-> s.recent.lastHeight],
           addrs |-> A, chain |-> s.chain, lastChainIdx |-> s.lastChainIdx,
           missingKeysStart |-> 0, secret |-> NoKey]
  BY <1>2, <1>3, <1>4, <1>5
<1>8. Formed(t)
  BY <1>7 DEF Formed
<1> QED BY <1>6, <1>7, <1>8 DEF t, f

LEMMA ReadGood ==
  ASSUME NEW s, NEW p, Good(s, p), NEW v, ~LT(v, Vers20LastBlocks),
         ~LT(v, VersUnsetNeedsPrivkeyFlag)
  PROVE  LET t == ReadFrom(FileOf(s, v)) IN
         /\ Good(t, p) /\ t.lastChainIdx = s.lastChainIdx /\ t.watching = s.watching
<1> DEFINE t == ReadFrom(FileOf(s, v))
<1>1. /\ Formed(t) /\ t.vers = v /\ t.watching = s.watching
      /\ t.highestUsed = s.highestUsed
      /\ t.recent = [hashes |-> s.recent.hashes, lastHeight |-> s.recent.lastHeight]
      /\ t.addrs = [a \in DOMAIN s.addrs |-> ReadEntry(EntryFor(a, s.addrs[a]))]
      /\ t.chain = s.chain /\ t.lastChainIdx = s.lastChainIdx
      /\ t.missingKeysStart = 0 /\ t.secret = NoKey
  BY ReadIs
<1> HIDE DEF t
<1>2. GoodChain(t)
  <2>1. 0 \in -1 .. s.lastChainIdx + 1 /\ t.recent.lastHeight \in Nat
    BY <1>1 DEF Good, GoodChain
  <2> QED BY <1>1, <2>1 DEF Good, GoodChain
<1>3. ASSUME NEW a \in DOMAIN s.addrs
      PROVE  t.addrs[a].idx = s.addrs[a].idx /\ (GoodScript(t, a, t.addrs[a]) \/ GoodKey(t, p, a, t.addrs[a]))
  <2> DEFINE x == s.addrs[a]
             y == t.addrs[a]
  <2>1. GoodAddr(s, p, a, x)
    BY DEF Good, GoodAddrs, GoodAddr
  <2>2. y = ReadEntry(EntryFor(a, x))
    BY <1>1
  <2> HIDE DEF x, y
  <2>3. /\ SameOnFile(x, y)
        /\ Holds(a, x, p) => Holds(a, y, p)
        /\ Lacks(a, x) => Lacks(a, y)
        /\ IsScript(a, x) => IsScript(a, y)
    BY <2>1, <2>2, AddrOnFile
  <2>4. y.idx = x.idx /\ y.hasPub = x.hasPub
    BY <2>3 DEF SameOnFile
  <2>5. Placed(s.lastChainIdx, a, x) => Placed(t.lastChainIdx, a, y)
    BY <1>1, <2>4 DEF Placed
  <2>6. s.missingKeysStart # -1 /\ s.missingKeysStart <= x.idx => 0 <= y.idx
    <3>1. x.idx \in Int
      BY <2>1 DEF GoodAddr, GoodScript, GoodKey, IsScript, Holds, Lacks, AddrRec
    <3>2. s.missingKeysStart \in Int /\ s.missingKeysStart >= -1
      BY Constants DEF Good, GoodChain
    <3> QED BY <2>4, <3>1, <3>2
  <2>7. GoodScript(t, a, y) \/ GoodKey(t, p, a, y)
    BY <1>1, <2>1, <2>3, <2>4, <2>5, <2>6 DEF GoodAddr, GoodScript, GoodKey
  <2> QED BY <2>4, <2>7 DEF x, y
<1>4. DOMAIN t.addrs = DOMAIN s.addrs /\ t.addrs = [a \in DOMAIN t.addrs |-> t.addrs[a]]
  BY <1>1
<1>5. GoodAddrs(t, p)
  <2>1. ASSUME NEW i \in -1 .. t.lastChainIdx
        PROVE  chainKey[i + 1] \in DOMAIN t.addrs /\ t.addrs[chainKey[i + 1]].idx = i
    BY <1>1, <1>3, <1>4, ChainPlaces
  <2> QED BY <1>3, <1>4, <2>1 DEF GoodAddrs
<1>6. Good(t, p)
  BY <1>1, <1>2, <1>5 DEF Good
<1> QED BY <1>1, <1>6 DEF t

LEMMA CurrentVersion ==
  /\ ~LT(VersCurrent, Vers20LastBlocks) /\ ~LT(VersCurrent, VersUnsetNeedsPrivkeyFlag)
  /\ \A s : writeTo(s) = FileOf(s, VersCurrent)
<1>1. ~LT(VersCurrent, Vers20LastBlocks)
  BY DEF LT, VersCurrent, VersUnsetNeedsPrivkeyFlag, Vers20LastBlocks
<1>2. ~LT(VersCurrent, VersUnsetNeedsPrivkeyFlag)
  BY DEF LT, VersCurrent, VersUnsetNeedsPrivkeyFlag
<1>3. \A s : writeTo(s) = FileOf(s, VersCurrent)
  BY DEF writeTo, FileOf
<1> QED BY <1>1, <1>2, <1>3

(* Writing what was read gives the same file.                              *)
LEMMA WriteAgain ==
  ASSUME NEW s, NEW p, Good(s, p)
  PROVE  writeTo(ReadFrom(writeTo(s))) = writeTo(s)
<1> DEFINE t == ReadFrom(FileOf(s, VersCurrent))
<1>1. /\ t.watching = s.watching /\ t.highestUsed = s.highestUsed
      /\ t.recent = [hashes |-> s.recent.hashes, lastHeight |-> s.recent.lastHeight]
      /\ t.addrs = [a \in DOMAIN s.addrs |-> ReadEntry(EntryFor(a, s.addrs[a]))]
  BY CurrentVersion, ReadIs
<1> HIDE DEF t
<1>2. walletFlagBits(t) = walletFlagBits(s)
  BY <1>1 DEF walletFlagBits
<1>3. writeRecent(t.recent) = writeRecent(s.recent)
  BY <1>1 DEF writeRecent
<1>4. writeEntries(t) = writeEntries(s)
  <2>1. DOMAIN t.addrs = DOMAIN s.addrs
    BY <1>1
  <2>2. ASSUME NEW a \in DOMAIN s.addrs
        PROVE  EntryFor(a, t.addrs[a]) = EntryFor(a, s.addrs[a])
    <3>1. GoodAddr(s, p, a, s.addrs[a])
      BY DEF Good, GoodAddrs, GoodAddr
    <3>2. t.addrs[a] = ReadEntry(EntryFor(a, s.addrs[a]))
      BY <1>1
    <3> QED BY <3>1, <3>2, AddrOnFile
  <2>3. {EntryFor(a, t.addrs[a]) : a \in DOMAIN t.addrs} = {EntryFor(a, s.addrs[a]) : a \in DOMAIN s.addrs}
    BY <2>1, <2>2
  <2> QED BY <2>3, EntriesAre
<1>5. writeTo(t) = writeTo(s)
  BY <1>1, <1>2, <1>3, <1>4 DEF writeTo
<1> QED BY <1>5, CurrentVersion DEF t

(* A good store with few enough recent blocks can be written.              *)
LEMMA GoodIsWritable ==
  ASSUME NEW s, NEW p, Good(s, p), Len(s.recent.hashes) <= RecentMax
  PROVE  writable(s)
<1>0. s.lastChainIdx \in Int /\ s.lastChainIdx >= -1 /\ s.recent.lastHeight \in Nat
      /\ DOMAIN s.chain = -1 .. s.lastChainIdx
  BY Constants DEF Good, GoodChain
<1>1. Cardinality(DOMAIN s.chain) - 1 = s.lastChainIdx + 1
  <2>1. -1 \in Int
    OBVIOUS
  <2>2. Cardinality(-1 .. s.lastChainIdx)
          = IF -1 > s.lastChainIdx THEN 0 ELSE s.lastChainIdx - (-1) + 1
    BY <1>0, <2>1, FS_Interval, Zenon
  <2> QED BY <1>0, <2>2
<1>2. ASSUME NEW a \in DOMAIN s.addrs
      PROVE  (s.addrs[a].hasPriv => s.addrs[a].enc) /\ s.addrs[a].idx < s.lastChainIdx + 1
  <2>1. GoodAddr(s, p, a, s.addrs[a])
    BY DEF Good, GoodAddrs, GoodAddr
  <2>2. s.addrs[a].hasPriv => s.addrs[a].enc
    BY <2>1 DEF GoodAddr, GoodScript, GoodKey, IsScript, Holds, Lacks
  <2>3. s.addrs[a].idx < s.lastChainIdx + 1
    <3>1. s.addrs[a].idx = -2 \/ s.addrs[a].idx \in -1 .. s.lastChainIdx
      BY <2>1, Constants DEF GoodAddr, GoodScript, GoodKey, IsScript, Placed
    <3> QED BY <1>0, <3>1
  <2> QED BY <2>2, <2>3
<1> QED BY <1>0, <1>1, <1>2 DEF writable

(* And its file can be read, unless it is watching-only and has a script.  *)
LEMMA GoodIsReadable ==
  ASSUME NEW s, NEW p, Good(s, p), writable(s)
  PROVE  \/ readable(writeTo(s))
         \/ s.watching /\ \E x \in writeEntries(s) : x.header = "script"
<1> SUFFICES ASSUME ~(s.watching /\ \E x \in writeEntries(s) : x.header = "script")
             PROVE  readable(writeTo(s))
  OBVIOUS
<1>1. /\ writeTo(s).recent.nBlocks = Len(s.recent.hashes)
      /\ writeTo(s).recent.height = s.recent.lastHeight
      /\ writeTo(s).entries = writeEntries(s)
  BY DEF writeTo, writeRecent
<1>2. Len(s.recent.hashes) <= RecentMax /\ s.recent.lastHeight \in Nat /\ s.watching \in BOOLEAN
  BY DEF writable, Good, GoodChain
<1>3. ASSUME NEW e \in writeEntries(s)
      PROVE  IF e.header = "addr" THEN addrReadable(e) ELSE scriptReadable(e)
  <2>1. PICK a \in DOMAIN s.addrs : e = EntryFor(a, s.addrs[a])
    BY EntriesAre
  <2> DEFINE x == s.addrs[a]
  <2>2. GoodAddr(s, p, a, x)
    BY DEF Good, GoodAddrs, GoodAddr
  <2> HIDE DEF x
  <2>3. CASE x.kind = "key"
    <3>1. e = addrEntryOf(a, x)
      BY <2>1, <2>3 DEF EntryFor, x
    <3>2. e.header = "addr" /\ e.chk = <<e.hash, e.priv>> /\ e.bits = addrFlagBits(x)
      BY <3>1 DEF addrEntryOf, walletHash
    <3>3. x \in AddrRec /\ x.hasPub /\ (x.hasPriv => x.enc)
      BY <2>2, <2>3 DEF GoodAddr, GoodScript, GoodKey, IsScript, Holds, Lacks
    <3>4. 1 \in e.bits /\ (0 \in e.bits => 2 \in e.bits)
      BY <3>2, <3>3, AddrBits
    <3> QED BY <3>2, <3>4 DEF addrReadable, walletHash
  <2>4. CASE x.kind # "key"
    <3>1. e = scriptEntryOf(a, x)
      BY <2>1, <2>4 DEF EntryFor, x
    <3>2. e.header = "script" /\ e.chk = e.hash /\ e.bits = scriptFlagBits(x)
      BY <3>1 DEF scriptEntryOf, walletHash
    <3>3. ~s.watching
      BY <3>2
    <3>4. x \in AddrRec /\ x.hasPub
      BY <2>2, <2>4, <3>3 DEF GoodAddr, GoodScript, GoodKey, IsScript, Holds, Lacks
    <3>5. 1 \in e.bits
      BY <3>2, <3>4, ScriptBits
    <3> QED BY <3>2, <3>5 DEF scriptReadable, walletHash
  <2> QED BY <2>3, <2>4
<1> QED BY <1>1, <1>2, <1>3 DEF readable

-----------------------------------------------------------------------------
(* The invariant.                                                          *)

LEMMA FirstStoreGood ==
  ASSUME RecentFile, NEW h \in Nat
  PROVE  Good(FirstStore(h), 1) /\ FirstStore(h).lastChainIdx <= MaxChain
<1> DEFINE new == New(1, h, <<h, 0>>)
           open == Unlock(new, 1).s
           next == nextChainedBtcAddress(open, h).s
           grown == Lock(next).s
<1>0. 1 \in Passphrases /\ MaxChain \in Nat
  BY KeyStoreConstants
<1>1. Good(new, 1) /\ new.lastChainIdx = -1
  BY <1>0, NewGood
<1>2. CASE FileVersion = <<>>
  <2>1. FirstStore(h) = new
    BY <1>2 DEF FirstStore
  <2> HIDE DEF new
  <2> QED BY <1>0, <1>1, <2>1
<1>3. CASE FileVersion # <<>>
  <2>1. FirstStore(h) = ReadFrom([writeTo(grown) EXCEPT !.vers = FileVersion])
    BY <1>3 DEF FirstStore
  <2> HIDE DEF new
  <2>2. Good(open, 1) /\ open.lastChainIdx = -1
    BY <1>0, <1>1, UnlockGood
  <2> HIDE DEF open
  <2>3. Good(next, 1) /\ next.lastChainIdx \in {-1, 0}
    <3>1. open.lastChainIdx <= MaxChain + 1 /\ -1 + 1 = 0
      BY <1>0, <2>2
    <3> QED BY <1>0, <2>2, <3>1, NextChainedGood
  <2> HIDE DEF next
  <2>4. Good(grown, 1) /\ grown.lastChainIdx = next.lastChainIdx
    BY <2>3, LockGood
  <2> HIDE DEF grown
  <2>5. [writeTo(grown) EXCEPT !.vers = FileVersion] = FileOf(grown, FileVersion)
    BY DEF writeTo, FileOf
  <2>6. ~LT(FileVersion, VersUnsetNeedsPrivkeyFlag) /\ FileVersion \in [1 .. 4 -> Nat]
    BY <1>3, KeyStoreConstants DEF RecentFile
  <2>7. ~LT(FileVersion, Vers20LastBlocks)
    BY <2>6 DEF LT, VersUnsetNeedsPrivkeyFlag, Vers20LastBlocks
  <2> DEFINE t == ReadFrom(FileOf(grown, FileVersion))
  <2>8. Good(t, 1) /\ t.lastChainIdx = grown.lastChainIdx
    BY <2>4, <2>6, <2>7, ReadGood
  <2>9. FirstStore(h) = t
    BY <2>1, <2>5
  <2> HIDE DEF t
  <2> QED BY <1>0, <2>3, <2>4, <2>8, <2>9
<1> QED BY <1>2, <1>3

LEMMA InitIInv ==
  ASSUME RecentFile, Init
  PROVE  IInv
<1>1. MaxHeight \in Nat /\ 1 \in Passphrases
  BY KeyStoreConstants
<1>2. Good(store, 1) /\ store.lastChainIdx <= MaxChain
  BY <1>1, FirstStoreGood DEF Init
<1>3. call.at = "idle" /\ got.at = "idle"
  BY DEF Init, Idle
<1>4. FileGood
  BY DEF FileGood, Init
<1>5. CallGood
  BY <1>3 DEF CallGood, Calls, Init
<1> QED BY <1>1, <1>2, <1>3, <1>4, <1>5 DEF IInv, Init, PrivKeyIsRightOrZeroed

(* A call in progress keeps what it relies on when a store follows.        *)
LEMMA CallFollows ==
  ASSUME CallGood, Follows(store, store'), call' = call
  PROVE  CallGood'
<1>1. (call \in Calls)'
  BY DEF CallGood, Calls
<1>2. ASSUME call.at # "idle"
      PROVE  /\ call.addr \in DOMAIN store'.addrs
             /\ store'.secret = NoKey => store'.addrs[call.addr].ct = NoKey
             /\ call.at = "compared" /\ ~call.locked => store'.addrs[call.addr].ct # NoKey
  <2>1. /\ call.addr \in DOMAIN store.addrs
        /\ store.secret = NoKey => store.addrs[call.addr].ct = NoKey
        /\ call.at = "compared" /\ ~call.locked => store.addrs[call.addr].ct # NoKey
    BY <1>2 DEF CallGood
  <2> QED BY <2>1 DEF Follows
<1> QED BY <1>1, <1>2 DEF CallGood

(* A key operation keeps the invariant when the store it leaves is good    *)
(* under the passphrase then in force and follows the one before.          *)
LEMMA KeyOpKeeps ==
  ASSUME IInv, NEW s2, KeyOp(s2), inForce' \in Passphrases, call' = call,
         Good(s2, inForce'), s2.lastChainIdx <= MaxChain, Follows(store, s2)
  PROVE  IInv'
<1>1. store' = s2 /\ UNCHANGED <<file, fileInForce>> /\ got' = Idle
  BY DEF KeyOp
<1>2. FileGood'
  BY <1>1 DEF IInv, FileGood
<1>3. PrivKeyIsRightOrZeroed'
  BY <1>1 DEF PrivKeyIsRightOrZeroed, Idle
<1>4. CallGood'
  BY <1>1, CallFollows DEF IInv
<1> QED BY <1>1, <1>2, <1>3, <1>4 DEF IInv

LEMMA SyncOpKeeps ==
  ASSUME IInv, NEW s2, SyncOp(s2), Good(s2, inForce),
         s2.lastChainIdx = store.lastChainIdx, Follows(store, s2)
  PROVE  IInv'
<1>1. store' = s2 /\ UNCHANGED <<inForce, file, fileInForce, call>> /\ got' = Idle
  BY DEF SyncOp
<1>2. FileGood'
  BY <1>1 DEF IInv, FileGood
<1>3. PrivKeyIsRightOrZeroed'
  BY <1>1 DEF PrivKeyIsRightOrZeroed, Idle
<1>4. CallGood'
  BY <1>1, CallFollows DEF IInv
<1> QED BY <1>1, <1>2, <1>3, <1>4 DEF IInv

(* A step of PrivKey that leaves the store alone.                          *)
LEMMA CallStep ==
  ASSUME IInv, UNCHANGED <<store, file, inForce, fileInForce>>, CallGood',
         PrivKeyIsRightOrZeroed'
  PROVE  IInv'
<1>1. FileGood'
  BY DEF IInv, FileGood
<1> QED BY <1>1 DEF IInv

LEMMA StepIInv ==
  ASSUME IInv, [Next]_vars
  PROVE  IInv'
<1>0. /\ inForce \in Passphrases /\ fileInForce \in Passphrases
      /\ Good(store, inForce) /\ store.lastChainIdx <= MaxChain
      /\ MaxChain \in Nat /\ store.lastChainIdx \in Int /\ store.recent.lastHeight \in Nat
  BY Constants DEF IInv, Good, GoodChain
<1>1. CASE DoUnlock
  <2>1. PICK q \in Passphrases : KeyOp(Unlock(store, q).s) /\ inForce' = inForce /\ call' = call
    BY <1>1 DEF DoUnlock
  <2> DEFINE s2 == Unlock(store, q).s
  <2>2. Good(s2, inForce) /\ s2.lastChainIdx = store.lastChainIdx
        /\ Follows(store, s2)
    BY <1>0, UnlockGood
  <2> HIDE DEF s2
  <2>3. KeyOp(s2)
    BY <2>1 DEF s2
  <2> QED BY <1>0, <2>1, <2>2, <2>3, KeyOpKeeps
<1>2. CASE DoLock
  <2> DEFINE s2 == Lock(store).s
  <2>1. /\ store' = s2 /\ UNCHANGED <<inForce, file, fileInForce>> /\ got' = Idle
        /\ call' = IF call.at = "idle" THEN call ELSE [call EXCEPT !.locked = TRUE]
    BY <1>2 DEF DoLock, KeyOp
  <2>2. Good(s2, inForce) /\ s2.lastChainIdx = store.lastChainIdx
        /\ DOMAIN s2.addrs = DOMAIN store.addrs
    BY <1>0, LockGood
  <2>3. ASSUME call.at # "idle"
        PROVE  /\ call.addr \in DOMAIN s2.addrs
               /\ s2.secret = NoKey => s2.addrs[call.addr].ct = NoKey
    <3>1. /\ call.addr \in DOMAIN store.addrs /\ call \in Calls
          /\ store.secret = NoKey => store.addrs[call.addr].ct = NoKey
      BY <2>3 DEF IInv, CallGood
    <3>2. call.addr \in PubKeys
      BY <2>3, <3>1 DEF Calls, Idle
    <3>3. CASE store.watching
      <4>1. s2 = store
        BY <3>3 DEF Lock, Err
      <4> QED BY <3>1, <4>1
    <3>4. CASE ~store.watching
      BY <1>0, <2>2, <3>1, <3>2, <3>4, LockClears
    <3> QED BY <3>3, <3>4
  <2> HIDE DEF s2
  <2>4. CallGood'
    <3>1. CASE call.at = "idle"
      BY <2>1, <3>1 DEF IInv, CallGood, Calls
    <3>2. CASE call.at # "idle"
      <4>1. call' = [call EXCEPT !.locked = TRUE] /\ call \in Calls /\ call # Idle
        BY <2>1, <3>2 DEF IInv, CallGood, Idle
      <4>2. call' \in Calls' /\ call'.addr = call.addr /\ call'.locked = TRUE
        BY <4>1 DEF Calls
      <4> QED BY <2>1, <2>3, <3>2, <4>2 DEF CallGood
    <3> QED BY <3>1, <3>2
  <2>5. FileGood' /\ PrivKeyIsRightOrZeroed'
    BY <2>1 DEF IInv, FileGood, PrivKeyIsRightOrZeroed, Idle
  <2> QED BY <1>0, <2>1, <2>2, <2>4, <2>5 DEF IInv
<1>3. CASE DoChangePassphrase
  <2>0. PICK q \in Passphrases : \E r \in ChangePassphrase(store, q) :
          KeyOp(r.s) /\ call' = call /\ inForce' = IF r.e = "nil" THEN q ELSE inForce
    BY <1>3 DEF DoChangePassphrase
  <2>1. PICK r \in ChangePassphrase(store, q) :
          KeyOp(r.s) /\ call' = call /\ inForce' = IF r.e = "nil" THEN q ELSE inForce
    BY <2>0
  <2>2. /\ r.e = "nil" => Good(r.s, q)
        /\ r.e # "nil" => r.s = store
        /\ r.s.lastChainIdx = store.lastChainIdx
        /\ Follows(store, r.s)
    BY <1>0, ChangePassphraseGood
  <2>3. inForce' \in Passphrases /\ Good(r.s, inForce')
    BY <1>0, <2>1, <2>2
  <2> QED BY <1>0, <2>1, <2>2, <2>3, KeyOpKeeps
<1>4. CASE DoNextChainedAddress
  <2> DEFINE s2 == nextChainedBtcAddress(store, store.recent.lastHeight).s
  <2>1. KeyOp(s2) /\ inForce' = inForce /\ call' = call /\ store.lastChainIdx < MaxChain
    BY <1>4 DEF DoNextChainedAddress
  <2>2. Good(s2, inForce) /\ s2.lastChainIdx \in {store.lastChainIdx, store.lastChainIdx + 1}
        /\ Follows(store, s2)
    <3>1. store.lastChainIdx <= MaxChain + 1
      BY <1>0
    <3> QED BY <1>0, <3>1, NextChainedGood
  <2> HIDE DEF s2
  <2>3. s2.lastChainIdx <= MaxChain
    BY <1>0, <2>1, <2>2
  <2> QED BY <1>0, <2>1, <2>2, <2>3, KeyOpKeeps
<1>5. CASE DoChangeAddress
  <2> DEFINE s2 == ChangeAddress(store, store.recent.lastHeight).s
  <2>1. KeyOp(s2) /\ inForce' = inForce /\ call' = call /\ store.lastChainIdx < MaxChain
    BY <1>5 DEF DoChangeAddress
  <2>2. Good(s2, inForce) /\ s2.lastChainIdx <= MaxChain
        /\ Follows(store, s2)
    BY <1>0, <2>1, ChangeAddressGood
  <2> HIDE DEF s2
  <2> QED BY <1>0, <2>1, <2>2, KeyOpKeeps
<1>6. CASE DoExtendActive
  <2> DEFINE s2 == ExtendActiveAddresses(store, 2).s
  <2>1. KeyOp(s2) /\ inForce' = inForce /\ call' = call /\ store.lastChainIdx + 1 < MaxChain
    BY <1>6 DEF DoExtendActive
  <2>2. /\ Good(s2, inForce) /\ Follows(store, s2)
        /\ s2.lastChainIdx = IF store.highestUsed + 2 > store.lastChainIdx
                             THEN store.highestUsed + 2 ELSE store.lastChainIdx
    BY <1>0, ExtendTwoGood
  <2> HIDE DEF s2
  <2>3. store.highestUsed \in -1 .. store.lastChainIdx
    BY <1>0 DEF Good, GoodChain
  <2>4. s2.lastChainIdx <= MaxChain
    BY <1>0, <2>1, <2>2, <2>3
  <2> QED BY <1>0, <2>1, <2>2, <2>4, KeyOpKeeps
<1>7. CASE DoImportPrivateKey
  <2>1. PICK k \in ImportKeys : KeyOp(ImportPrivateKey(store, k, 0).s) /\ inForce' = inForce /\ call' = call
    BY <1>7 DEF DoImportPrivateKey
  <2> DEFINE s2 == ImportPrivateKey(store, k, 0).s
  <2>2. k \in PrivKeys /\ 0 \in Nat
    BY RootIsKey
  <2>3. Good(s2, inForce) /\ s2.lastChainIdx = store.lastChainIdx
        /\ Follows(store, s2)
    BY <1>0, <2>2, ImportPrivateKeyGood
  <2> HIDE DEF s2
  <2>4. KeyOp(s2)
    BY <2>1 DEF s2
  <2> QED BY <1>0, <2>1, <2>3, <2>4, KeyOpKeeps
<1>8. CASE DoImportScript
  <2>1. PICK x \in Scripts : KeyOp(ImportScript(store, x, 0).s) /\ inForce' = inForce /\ call' = call
    BY <1>8 DEF DoImportScript
  <2> DEFINE s2 == ImportScript(store, x, 0).s
  <2>2. 0 \in Nat
    OBVIOUS
  <2>3. Good(s2, inForce) /\ s2.lastChainIdx = store.lastChainIdx
        /\ Follows(store, s2)
    BY <1>0, <2>2, ImportScriptGood
  <2> HIDE DEF s2
  <2>4. KeyOp(s2)
    BY <2>1 DEF s2
  <2> QED BY <1>0, <2>1, <2>3, <2>4, KeyOpKeeps
<1>9. CASE DoExport
  <2> DEFINE s2 == ExportWatchingWallet(store).s
  <2>1. /\ store' = s2 /\ UNCHANGED <<inForce, file, fileInForce>>
        /\ got' = Idle /\ call' = Idle
    BY <1>9 DEF DoExport, KeyOp
  <2>2. Good(s2, inForce) /\ s2.lastChainIdx = store.lastChainIdx
        /\ DOMAIN s2.addrs = DOMAIN store.addrs
    <3>1. CASE store.watching
      <4>1. s2 = store
        BY <3>1 DEF ExportWatchingWallet, Err
      <4> HIDE DEF s2
      <4> QED BY <1>0, <4>1
    <3>2. CASE ~store.watching
      BY <1>0, <3>2, ExportGood
    <3> QED BY <3>1, <3>2
  <2> HIDE DEF s2
  <2>3. CallGood' /\ FileGood' /\ PrivKeyIsRightOrZeroed'
    BY <2>1 DEF IInv, CallGood, Calls, FileGood, PrivKeyIsRightOrZeroed, Idle
  <2> QED BY <1>0, <2>1, <2>2, <2>3 DEF IInv
<1>10. CASE DoSetSyncedWith
  <2>1. PICK b \in Blocks : SyncOp(SetSyncedWith(store, b))
    BY <1>10 DEF DoSetSyncedWith
  <2> DEFINE s2 == SetSyncedWith(store, b)
  <2>2. Good(s2, inForce) /\ s2.lastChainIdx = store.lastChainIdx /\ Follows(store, s2)
    BY <1>0, SetSyncedWithGood, FollowsSame
  <2> HIDE DEF s2
  <2>3. SyncOp(s2)
    BY <2>1 DEF s2
  <2> QED BY <2>2, <2>3, SyncOpKeeps
<1>11. CASE DoSetUnsynced
  <2> DEFINE s2 == SetUnsynced(store)
  <2>1. SyncOp(s2)
    BY <1>11 DEF DoSetUnsynced
  <2>2. Good(s2, inForce) /\ s2.lastChainIdx = store.lastChainIdx
        /\ Follows(store, s2)
    BY <1>0, SetUnsyncedGood
  <2> HIDE DEF s2
  <2> QED BY <2>1, <2>2, SyncOpKeeps
<1>12. CASE DoSetSyncStatus
  <2>1. PICK a \in DOMAIN store.addrs, st \in {"unsynced", "partial", "full"} :
          SyncOp([store EXCEPT !.addrs[a] = setSyncStatus(@, st, 1)])
    BY <1>12 DEF DoSetSyncStatus
  <2> DEFINE s2 == [store EXCEPT !.addrs[a] = setSyncStatus(store.addrs[a], st, 1)]
  <2>2. [store EXCEPT !.addrs[a] = setSyncStatus(@, st, 1)] = s2
    OBVIOUS
  <2>3. Good(s2, inForce) /\ s2.lastChainIdx = store.lastChainIdx
        /\ Follows(store, s2)
    BY <1>0, SetSyncStatusGood
  <2>4. SyncOp(s2)
    BY <2>1, <2>2
  <2> HIDE DEF s2
  <2> QED BY <2>3, <2>4, SyncOpKeeps
<1>13. CASE PrivKeyCheck
  <2>1. PICK a \in DOMAIN store.addrs :
          /\ store.addrs[a].hasPriv /\ ~isLocked(store)
          /\ call' = [at |-> "checked", addr |-> a, secret |-> store.secret,
                      locked |-> FALSE]
    BY <1>13 DEF PrivKeyCheck
  <2>2. UNCHANGED <<store, file, inForce, fileInForce>> /\ got' = Idle
    BY <1>13 DEF PrivKeyCheck
  <2>3. a \in PubKeys
    <3>1. GoodAddr(store, inForce, a, store.addrs[a])
      BY <1>0 DEF Good, GoodAddrs, GoodAddr
    <3>2. Holds(a, store.addrs[a], inForce)
      BY <2>1, <3>1 DEF GoodAddr, GoodScript, GoodKey, IsScript, Lacks
    <3> QED BY <3>2 DEF Holds, PubKeys
  <2>4. call'.at = "checked" /\ call'.addr = a /\ call'.secret = store.secret
    BY <2>1
  <2>5. call' \in Calls'
    BY <2>1, <2>3, <2>4 DEF Calls
  <2>6. CallGood'
    BY <2>1, <2>2, <2>4, <2>5 DEF CallGood, isLocked
  <2>7. PrivKeyIsRightOrZeroed'
    BY <2>2 DEF PrivKeyIsRightOrZeroed, Idle
  <2> QED BY <2>2, <2>6, <2>7, CallStep
<1>14. CASE PrivKeyDecrypt
  <2>1. call.at = "checked" /\ UNCHANGED <<store, file, inForce, fileInForce>> /\ got' = Idle
    BY <1>14 DEF PrivKeyDecrypt
  <2>2. PICK key : call' = IF store.addrs[call.addr].enc /\ key # NoKey
                           THEN [at |-> "decrypted", addr |-> call.addr,
                                 key |-> Decrypt(store.addrs[call.addr].priv, key), locked |-> FALSE]
                           ELSE Idle
    BY <1>14 DEF PrivKeyDecrypt
  <2>3. /\ call.addr \in DOMAIN store.addrs /\ call.addr \in PubKeys
        /\ store.secret = NoKey => store.addrs[call.addr].ct = NoKey
    BY <2>1 DEF IInv, CallGood, Calls, Idle
  <2> DEFINE k == Decrypt(store.addrs[call.addr].priv, key)
  <2>4. k \in Secrets
    <3>1. GoodAddr(store, inForce, call.addr, store.addrs[call.addr])
      BY <1>0, <2>3 DEF Good, GoodAddrs, GoodAddr
    <3> QED BY <3>1, DecryptedIs
  <2> HIDE DEF k
  <2>5. call' = Idle \/ call' = [at |-> "decrypted", addr |-> call.addr, key |-> k, locked |-> FALSE]
    BY <2>2 DEF k
  <2>6. CallGood'
    <3>1. CASE call' = Idle
      BY <3>1 DEF CallGood, Calls, Idle
    <3>2. CASE call' = [at |-> "decrypted", addr |-> call.addr, key |-> k, locked |-> FALSE]
      <4>1. call' \in Calls' /\ call'.at = "decrypted" /\ call'.addr = call.addr
        BY <2>3, <2>4, <3>2 DEF Calls
      <4> QED BY <2>1, <2>3, <4>1 DEF CallGood
    <3> QED BY <2>5, <3>1, <3>2
  <2>7. PrivKeyIsRightOrZeroed'
    BY <2>1 DEF PrivKeyIsRightOrZeroed, Idle
  <2> QED BY <2>1, <2>6, <2>7, CallStep
<1>15. CASE PrivKeySave
  <2> DEFINE a == call.addr
             x == store.addrs[a]
             k == call.key
             y == [x EXCEPT !.ct = k]
             s2 == [store EXCEPT !.addrs[a] = y]
  <2>1. /\ call.at = "decrypted" /\ call' = Idle /\ UNCHANGED <<file, inForce, fileInForce>>
        /\ \/ /\ Pub(k) = a
              /\ store' = IF x.enc THEN [store EXCEPT !.addrs[a].ct = k] ELSE store
              /\ got' = [at |-> "got", addr |-> a, key |-> k, locked |-> FALSE]
           \/ got' = Idle /\ store' = store
    BY <1>15 DEF PrivKeySave
  <2>2. a \in DOMAIN store.addrs /\ k \in Secrets
    BY <2>1 DEF IInv, CallGood, Calls, Idle
  <2>3. GoodAddr(store, inForce, a, x)
    BY <1>0, <2>2 DEF Good, GoodAddrs, GoodAddr
  <2>4. [store EXCEPT !.addrs[a].ct = k] = s2
    OBVIOUS
  <2> HIDE DEF Pub
  <2>5. ASSUME x.enc, Pub(k) = a
        PROVE  Good(s2, inForce) /\ s2.lastChainIdx = store.lastChainIdx
    <3>1. GoodAddr(store, inForce, a, y) /\ y.idx = x.idx
      BY <2>2, <2>3, <2>5, SaveGood
    <3> HIDE DEF y
    <3> QED BY <1>0, <2>2, <3>1, ReplaceAddr
  <2> HIDE DEF s2
  <2>6. Good(store', inForce) /\ store'.lastChainIdx = store.lastChainIdx
    BY <1>0, <2>1, <2>4, <2>5
  <2>7. PrivKeyIsRightOrZeroed'
    BY <2>1 DEF PrivKeyIsRightOrZeroed, Idle
  <2>8. CallGood' /\ FileGood'
    BY <2>1 DEF IInv, CallGood, Calls, FileGood, Idle
  <2> QED BY <1>0, <2>1, <2>6, <2>7, <2>8 DEF IInv
<1>16. CASE PrivKeySaved
  <2>1. /\ call.at = "decrypted" /\ call' = [call EXCEPT !.at = "saved", !.locked = FALSE]
        /\ UNCHANGED <<store, file, inForce, fileInForce>> /\ got' = Idle
    BY <1>16 DEF PrivKeySaved
  <2>2. call \in [at : {"decrypted", "saved", "compared"}, addr : PubKeys, key : Secrets,
                  locked : BOOLEAN]
    BY <2>1 DEF IInv, CallGood, Calls, Idle
  <2>3. call' \in Calls' /\ call'.at = "saved" /\ call'.addr = call.addr
    BY <2>1, <2>2 DEF Calls
  <2>4. CallGood'
    BY <2>1, <2>3 DEF IInv, CallGood
  <2>5. PrivKeyIsRightOrZeroed'
    BY <2>1 DEF PrivKeyIsRightOrZeroed, Idle
  <2> QED BY <2>1, <2>4, <2>5, CallStep
<1>17. CASE PrivKeyCompare
  <2>1. /\ call.at = "saved" /\ UNCHANGED <<store, file, inForce, fileInForce>> /\ got' = Idle
        /\ \/ call' = Idle
           \/ /\ call' = [call EXCEPT !.at = "compared", !.locked = FALSE]
              /\ store.addrs[call.addr].ct # NoKey
    BY <1>17 DEF PrivKeyCompare
  <2>2. call \in [at : {"decrypted", "saved", "compared"}, addr : PubKeys, key : Secrets,
                  locked : BOOLEAN]
    BY <2>1 DEF IInv, CallGood, Calls, Idle
  <2>3. CASE call' = Idle
    BY <2>1, <2>3, CallStep DEF CallGood, Calls, PrivKeyIsRightOrZeroed, Idle
  <2>4. CASE call' = [call EXCEPT !.at = "compared", !.locked = FALSE]
    <3>1. call' \in Calls' /\ call'.at = "compared" /\ call'.addr = call.addr
      BY <2>2, <2>4 DEF Calls
    <3>2. store.addrs[call.addr].ct # NoKey
      BY <2>1, <2>4, <3>1 DEF Idle
    <3>3. CallGood'
      BY <2>1, <3>1, <3>2 DEF IInv, CallGood
    <3>4. PrivKeyIsRightOrZeroed'
      BY <2>1 DEF PrivKeyIsRightOrZeroed, Idle
    <3> QED BY <2>1, <3>3, <3>4, CallStep
  <2> QED BY <2>1, <2>3, <2>4
<1>18. CASE PrivKeyCopy
  <2> DEFINE ct == store.addrs[call.addr].ct
  <2>1. /\ call.at = "compared" /\ call' = Idle
        /\ UNCHANGED <<store, file, inForce, fileInForce>>
    BY <1>18 DEF PrivKeyCopy
  <2>2. PICK k \in {IF ct = NoKey THEN PartlyZeroed ELSE ct}
               \cup (IF call.locked THEN {PartlyZeroed} ELSE {}) :
          got' = [at |-> "got", addr |-> call.addr, key |-> k, locked |-> call.locked]
    BY <1>18 DEF PrivKeyCopy
  <2>3. /\ call.addr \in DOMAIN store.addrs /\ call.addr \in PubKeys
        /\ call.locked \in BOOLEAN /\ (~call.locked => ct # NoKey)
    BY <2>1 DEF IInv, CallGood, Calls, Idle
  <2>4. ct # NoKey => Pub(ct) = call.addr
    <3>1. GoodAddr(store, inForce, call.addr, store.addrs[call.addr])
      BY <1>0, <2>3 DEF Good, GoodAddrs, GoodAddr
    <3> QED BY <2>3, <3>1, SavedIsRight
  <2> HIDE DEF ct, Pub
  <2>5. (k = ct /\ ct # NoKey) \/ (k = PartlyZeroed /\ call.locked)
    BY <2>2, <2>3
  <2>6. PrivKeyIsRightOrZeroed'
    BY <2>2, <2>4, <2>5 DEF PrivKeyIsRightOrZeroed
  <2>7. CallGood'
    BY <2>1 DEF CallGood, Calls, Idle
  <2> QED BY <2>1, <2>6, <2>7, CallStep
<1>19. CASE MarkDirty \/ ClearDirty
  <2>1. UNCHANGED <<store, file, inForce, fileInForce, call>> /\ got' = Idle
    BY <1>19 DEF MarkDirty, ClearDirty
  <2>2. CallGood' /\ PrivKeyIsRightOrZeroed'
    BY <2>1 DEF IInv, CallGood, Calls, PrivKeyIsRightOrZeroed, Idle
  <2> QED BY <2>1, <2>2, CallStep
<1>20. CASE WriteIfDirty
  <2>1. /\ file' = writeTo(store) /\ fileInForce' = inForce /\ writable(store)
        /\ UNCHANGED <<store, inForce, call>> /\ got' = Idle
    BY <1>20 DEF WriteIfDirty
  <2>2. FileGood'
    BY <1>0, <2>1 DEF FileGood
  <2>3. CallGood' /\ PrivKeyIsRightOrZeroed'
    BY <2>1 DEF IInv, CallGood, Calls, PrivKeyIsRightOrZeroed, Idle
  <2> QED BY <1>0, <2>1, <2>2, <2>3 DEF IInv
<1>21. CASE OpenDir
  <2>1. /\ file # NoFile /\ store' = ReadFrom(file) /\ inForce' = fileInForce
        /\ call' = Idle /\ got' = Idle /\ UNCHANGED <<file, fileInForce>>
    BY <1>21 DEF OpenDir
  <2>2. PICK s : Good(s, fileInForce) /\ s.lastChainIdx <= MaxChain /\ file = writeTo(s)
    BY <2>1 DEF IInv, FileGood
  <2> DEFINE t == ReadFrom(FileOf(s, VersCurrent))
  <2>3. Good(t, fileInForce) /\ t.lastChainIdx = s.lastChainIdx
    BY <2>2, CurrentVersion, ReadGood
  <2>4. store' = t
    BY <2>1, <2>2, CurrentVersion
  <2> HIDE DEF t
  <2>5. FileGood'
    BY <2>1 DEF IInv, FileGood
  <2>6. CallGood' /\ PrivKeyIsRightOrZeroed'
    BY <2>1 DEF CallGood, Calls, PrivKeyIsRightOrZeroed, Idle
  <2> QED BY <1>0, <2>1, <2>2, <2>3, <2>4, <2>5, <2>6 DEF IInv
<1>22. CASE UNCHANGED vars
  <2>1. UNCHANGED <<store, file, inForce, fileInForce, call, got>>
    BY <1>22 DEF vars
  <2>2. CallGood' /\ PrivKeyIsRightOrZeroed'
    BY <2>1 DEF IInv, CallGood, Calls, PrivKeyIsRightOrZeroed
  <2> QED BY <2>1, <2>2, CallStep
<1> QED BY <1>1, <1>2, <1>3, <1>4, <1>5, <1>6, <1>7, <1>8, <1>9, <1>10, <1>11, <1>12, <1>13, <1>14,
           <1>15, <1>16, <1>17, <1>18, <1>19, <1>20, <1>21, <1>22 DEF Next

-----------------------------------------------------------------------------
(* The theorems.                                                           *)

(* Along every behaviour the store in memory and the store on file are     *)
(* whole: the chain map is the derived chain, every address is in its      *)
(* place, every private key is encrypted under the passphrase in force and *)
(* none is missing from an address that Unlock would not fill.  A PrivKey  *)
(* call in progress finds the clear text it compared unless Lock has run   *)
(* since, which makes PrivKeyIsRightOrZeroed inductive.                    *)
THEOREM StoreIsWhole ==
  ASSUME RecentFile
  PROVE  Spec => []IInv
<1>1. Init => IInv
  BY InitIInv
<1>2. IInv /\ [Next]_vars => IInv'
  BY StepIInv
<1> QED BY <1>1, <1>2, PTL DEF Spec

(* The passphrase in force recovers every key of the store in memory and   *)
(* of the file; and PrivKey, which takes no lock, returns the right key or *)
(* an error, unless Lock runs between its comparison and its copy: then,   *)
(* and only then, the bytes it returns may be zeroed.                      *)
THEOREM KeysAreAlwaysKept ==
  ASSUME RecentFile
  PROVE  Spec => []KeysAreKept
<1>1. ASSUME IInv PROVE KeysAreKept
  <2>1. ~store.watching => Recovers(store, inForce)
    BY <1>1, RecoversGood DEF IInv
  <2>2. ASSUME file # NoFile, 1 \notin file.flags
        PROVE  Recovers(ReadFrom(file), fileInForce)
    <3>1. fileInForce \in Passphrases
      BY <1>1 DEF IInv
    <3>2. PICK s : Good(s, fileInForce) /\ file = writeTo(s)
      BY <1>1, <2>2 DEF IInv, FileGood
    <3>3. file.flags = walletFlagBits(s)
      BY <3>2 DEF writeTo
    <3>4. ~s.watching
      <4>1. s.watching \in BOOLEAN
        BY <3>2 DEF Good
      <4>2. (1 \in walletFlagBits(s)) = s.watching
        BY <4>1, FlagsAre
      <4> QED BY <2>2, <3>3, <4>1, <4>2
    <3> DEFINE t == ReadFrom(FileOf(s, VersCurrent))
    <3>5. Good(t, fileInForce) /\ t.watching = s.watching
      BY <3>2, CurrentVersion, ReadGood
    <3>6. ReadFrom(file) = t
      BY <3>2, CurrentVersion
    <3> HIDE DEF t
    <3> QED BY <3>1, <3>4, <3>5, <3>6, RecoversGood
  <2>3. PassphraseRecoversKeys
    BY <2>1, <2>2 DEF PassphraseRecoversKeys
  <2> QED BY <1>1, <2>3 DEF KeysAreKept, IInv
<1> QED BY <1>1, StoreIsWhole, PTL

(* A watching-only export, the store itself and the store unlocked go on   *)
(* with the same addresses.                                                *)
THEOREM WatchingChainAlwaysAgrees ==
  ASSUME RecentFile
  PROVE  Spec => []WatchingChainAgrees
<1>1. ASSUME NEW s, NEW p \in Passphrases, Good(s, p), s.lastChainIdx <= MaxChain,
             NEW t, Good(t, p), t.lastChainIdx = s.lastChainIdx, t.highestUsed = s.highestUsed
      PROVE  ExtendActiveAddresses(t, 2).s.chain = ExtendActiveAddresses(s, 2).s.chain
  <2> DEFINE u == ExtendActiveAddresses(s, 2).s
             v == ExtendActiveAddresses(t, 2).s
             n == IF s.highestUsed + 2 > s.lastChainIdx THEN s.highestUsed + 2 ELSE s.lastChainIdx
  <2>1. Good(u, p) /\ u.lastChainIdx = n
    BY <1>1, ExtendTwoGood
  <2>2. Good(v, p) /\ v.lastChainIdx = n
    BY <1>1, ExtendTwoGood
  <2> HIDE DEF u, v, n
  <2>3. u.chain = [i \in -1 .. n |-> chainKey[i + 1]] /\ v.chain = [i \in -1 .. n |-> chainKey[i + 1]]
    BY <2>1, <2>2 DEF Good, GoodChain
  <2> QED BY <2>3 DEF u, v
<1>2. ASSUME IInv PROVE WatchingChainAgrees
  <2> SUFFICES ASSUME ~store.watching
               PROVE  LET chainOf(s) == ExtendActiveAddresses(s, 2).s.chain
                          w == chainOf(ExportWatchingWallet(store).s)
                      IN  w = chainOf(store) /\ w = chainOf(Unlock(store, inForce).s)
    BY DEF WatchingChainAgrees
  <2>1. inForce \in Passphrases /\ Good(store, inForce) /\ store.lastChainIdx <= MaxChain
    BY <1>2 DEF IInv
  <2> DEFINE e == ExportWatchingWallet(store).s
             o == Unlock(store, inForce).s
  <2>2. Good(e, inForce) /\ e.lastChainIdx = store.lastChainIdx /\ e.highestUsed = store.highestUsed
    BY <2>1, ExportGood
  <2>3. Good(o, inForce) /\ o.lastChainIdx = store.lastChainIdx /\ o.highestUsed = store.highestUsed
    BY <2>1, UnlockGood
  <2> HIDE DEF e, o
  <2>4. ExtendActiveAddresses(e, 2).s.chain = ExtendActiveAddresses(store, 2).s.chain
    BY <1>1, <2>1, <2>2
  <2>5. ExtendActiveAddresses(o, 2).s.chain = ExtendActiveAddresses(store, 2).s.chain
    BY <1>1, <2>1, <2>3
  <2> QED BY <2>4, <2>5 DEF e, o
<1> QED BY <1>2, StoreIsWhole, PTL

(* The file can be read and written again without a change, but for the    *)
(* copy of a watching-only store that holds a script.                      *)
THEOREM FileAlwaysRoundTrips ==
  ASSUME RecentFile
  PROVE  Spec => []FileRoundTrips
<1>1. ASSUME IInv PROVE FileRoundTrips
  <2> SUFFICES ASSUME file # NoFile
               PROVE  \/ readable(file) /\ writable(ReadFrom(file))
                         /\ writeTo(ReadFrom(file)) = file
                      \/ 1 \in file.flags /\ \E x \in file.entries : x.header = "script"
    BY DEF FileRoundTrips
  <2>1. PICK s : Good(s, fileInForce) /\ writable(s) /\ file = writeTo(s)
    BY <1>1 DEF IInv, FileGood
  <2>2. file.flags = walletFlagBits(s) /\ file.entries = writeEntries(s)
    BY <2>1 DEF writeTo
  <2>3. \/ readable(file)
        \/ s.watching /\ \E x \in writeEntries(s) : x.header = "script"
    BY <2>1, GoodIsReadable
  <2>4. writeTo(ReadFrom(file)) = file
    BY <2>1, WriteAgain
  <2>5. writable(ReadFrom(file))
    <3> DEFINE t == ReadFrom(FileOf(s, VersCurrent))
    <3>1. Good(t, fileInForce)
      BY <2>1, CurrentVersion, ReadGood
    <3>2. t.recent = [hashes |-> s.recent.hashes, lastHeight |-> s.recent.lastHeight]
      BY <2>1, CurrentVersion, ReadIs
    <3>3. ReadFrom(file) = t
      BY <2>1, CurrentVersion
    <3> HIDE DEF t
    <3>4. Len(t.recent.hashes) <= RecentMax
      BY <2>1, <3>2 DEF writable
    <3> QED BY <3>1, <3>3, <3>4, GoodIsWritable
  <2>6. s.watching => 1 \in file.flags
    <3>1. s.watching \in BOOLEAN
      BY <2>1 DEF Good
    <3>2. (1 \in walletFlagBits(s)) = s.watching
      BY <3>1, FlagsAre
    <3> QED BY <2>2, <3>1, <3>2
  <2> QED BY <2>2, <2>3, <2>4, <2>5, <2>6
<1> QED BY <1>1, StoreIsWhole, PTL
=============================================================================
