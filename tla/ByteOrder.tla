----------------------------- MODULE ByteOrder ------------------------------
(***************************************************************************)
(* The ordered store under everything that is durable (storage/engine.py): *)
(* a table from keys to values.  A key is a sequence of numbers, compared  *)
(* the way the engines compare bytes.                                      *)
(***************************************************************************)
EXTENDS Integers, Sequences

\* memcmp: the first difference decides, and a proper prefix comes first.
Less(a, b) ==
    \E i \in 1 .. Len(b) :
        /\ \A j \in 1 .. i - 1 : j \in DOMAIN a /\ a[j] = b[j]
        /\ i \in DOMAIN a => a[i] < b[i]

\* [from, to)
Within(k, from, to) == ~ Less(k, from) /\ Less(k, to)

Put(kv, k, v) == [x \in DOMAIN kv \cup {k} |-> IF x = k THEN v ELSE kv[x]]
Delete(kv, k) == [x \in DOMAIN kv \ {k} |-> kv[x]]
KeysIn(kv, from, to) == {k \in DOMAIN kv : Within(k, from, to)}
DeleteRange(kv, from, to) == [k \in DOMAIN kv \ KeysIn(kv, from, to) |-> kv[k]]

\* The last row of a scan of keys K, of which there is at least one.
LastKey(K) == CHOOSE k \in K : \A x \in K : ~ Less(k, x)
=============================================================================
