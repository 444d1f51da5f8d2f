------------------------------- MODULE MCWire -------------------------------
(* Every message, with its lists at zero, one, the limit and one more, over *)
(* versions on both sides of every gate.  Limits are scaled down: a count   *)
(* of three already needs a wide varint.                                    *)
EXTENDS Wire

Msg(c, f) == [cmd |-> c, f |-> f]
Bytes(n) == [i \in 1..n |-> 7]
Script(k, n) == [i \in 1..n |-> 100 * k + i]
Hash == "h"
Hashes(n) == [i \in 1..n |-> <<Hash>>]
Hdr(t) == <<1, Hash, Hash, t, 2, 3>>
Addr(t, ip) == <<t, 1, ip, 80>>
TxIn(n) == <<Hash, 0, Bytes(n), 9>>
TxOut(k, n) == <<5, Script(k, n)>>
Tx(i, o) == <<1, i, o, 0>>

Txs == {Tx(i, o) : i \in {<<>>, <<TxIn(0)>>, <<TxIn(2), TxIn(4), TxIn(1)>>},
                   o \in {<<>>, <<TxOut(1, 1)>>, <<TxOut(1, 4), TxOut(2, 0), TxOut(3, 3)>>}}
Alert(ids, subs) == <<1, 2, 3, 4, 5, Hashes(ids), 6, 7, [i \in 1..subs |-> <<Bytes(1)>>], 8, Bytes(1), <<>>, Bytes(4)>>
Counts == {0, 1, 2, 3, 4}

MCMessages ==
  <<{Msg(c, <<>>) : c \in Empty},
    {Msg(c, <<5>>) : c \in {"ping", "pong", "feefilter"}},
    {Msg("version", <<1, 2, 12, Addr(1, "nil"), Addr(2, "a"), 3, Bytes(n), 4, b>>) : n \in Counts, b \in {0, 1}},
    {Msg("addr", <<[i \in 1..n |-> Addr(t, "a")]>>) : n \in Counts, t \in {1, 9}},
    {Msg(c, <<[i \in 1..n |-> <<1, Hash>>]>>) : c \in {"inv", "getdata", "notfound"}, n \in Counts},
    {Msg(c, <<1, Hashes(n), Hash>>) : c \in {"getblocks", "getheaders"}, n \in Counts},
    {Msg("headers", <<[i \in 1..n |-> Hdr(t)]>>) : n \in Counts, t \in {1, 9}},
    {Msg("reject", <<<<c>>, 1, Bytes(n), Hash>>) : c \in {"block", "ping"}, n \in Counts},
    {Msg("merkleblock", <<Hdr(1), 2, Hashes(n), Bytes(k)>>) : n \in {0, 3, 61, 62}, k \in {0, 7, 8}},
    {Msg("filterload", <<Bytes(n), k, 1, 2>>) : n \in Counts, k \in {2, 3}},
    {Msg("filteradd", <<Bytes(n)>>) : n \in Counts},
    {Msg(c, <<0, 1, Hash>>) : c \in {"getcfilters", "getcfheaders"}},
    {Msg("getcfcheckpt", <<0, Hash>>)},
    {Msg("cfilter", <<0, Hash, Bytes(n)>>) : n \in Counts},
    {Msg("cfheaders", <<0, Hash, Hash, Hashes(n)>>) : n \in Counts},
    {Msg("cfcheckpt", <<0, Hash, Hashes(n)>>) : n \in Counts},
    {Msg("alert", <<raw, Bytes(1), a>>) : raw \in {<<>>, SerializeAlert(Alert(1, 1)), <<<<2, "raw">>>>},
                                             a \in {<<>>, Alert(0, 2), Alert(2, 1), Alert(3, 0)}},
    {Msg("tx", t) : t \in Txs},
    {Msg("block", <<Hdr(1), b>>) : b \in {<<>>} \cup {<<t>> : t \in Txs} \cup {<<t, Tx(<<TxIn(1)>>, <<TxOut(4, 2)>>)>> : t \in Txs}}>>

MCVersions == {1, 209, 31402, 60000, 60002, 70001, 70002, 70012, 70013}
=============================================================================
