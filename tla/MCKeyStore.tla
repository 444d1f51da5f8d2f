----------------------------- MODULE MCKeyStore -----------------------------
(* Small instance of KeyStore for TLC: two passphrases, a chain of three   *)
(* addresses, an imported key that the chain may reach later, and one      *)
(* script.  The curve is the multiplicative group modulo 23: the public    *)
(* key of k is 100 + k, and a factor multiplies both.                      *)
EXTENDS KeyStore

P == 23
MCPrivKeys == 1 .. (P - 1)
MCScalarBaseMult(k) == 100 + k
MCMulMod(x, k) == (x * k) % P
MCScalarMult(x, pub) == 100 + ((x * (pub - 100)) % P)
MCChainXor(pub) == 2 + (pub % 5)

MCPassphrases == {1, 2}
MCImportKeys == {7}
MCNew == <<>>
MCScripts == {200}
=============================================================================
