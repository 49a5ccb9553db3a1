------------------------------- MODULE MCSync -------------------------------
(***************************************************************************)
(* Instances of Sync for TLC: two peers with distinct actors putting one   *)
(* string value on one key through AutoCommit.                            *)
(***************************************************************************)
EXTENDS Sync

\* obj is OpSet!RootObj, the root map
PutA == [kind |-> "put", obj |-> "root", key |-> "k", index |-> 0, del |-> 0,
         arg |-> [t |-> "str", v |-> "a"]]

MutPutOne == {PutA}

TwoPeers == [r \in {"p1", "p2"} |-> IF r = "p1" THEN 1 ELSE 2]
=============================================================================
