----------------------------- MODULE MCDocument -----------------------------
(***************************************************************************)
(* Instances of Document for TLC: two documents, a single key, two string *)
(* values and a counter, or a list or text object at the key.  A list     *)
(* mutation's obj is filled in when it is staged (Document!Targets).      *)
(***************************************************************************)
EXTENDS Document

Str(s) == [t |-> "str", v |-> s]

\* a mutation record
Mut(kind, key, index, del, arg) ==
  [kind |-> kind, obj |-> RootObj, key |-> key, index |-> index, del |-> del, arg |-> arg]

PutM(k, s) == Mut("put", k, 0, 0, Str(s))
DelM(k)    == Mut("del", k, 0, 0, NoValue)
IncM(k)    == Mut("inc", k, 0, 0, 1)
CounterM(k) == Mut("put", k, 0, 0, [t |-> "counter", v |-> 0])
PutObjM(k, typ) == Mut("putobj", k, 0, 0, typ)
InsM(k, i, s) == Mut("ins", k, i, 0, Str(s))
DelLM(k, i) == Mut("dell", k, i, 0, NoValue)
SpliceM(k, i, d, chars) == Mut("splice", k, i, d, chars)
MarkM(k, s, e, name) == Mut("mark", k, s, e, [name |-> name, value |-> Str("true")])

\* Put and DeleteMap of strings on one key
MutPutDel == {PutM("k", "a"), PutM("k", "b"), DelM("k")}

\* one Put and the DeleteMap
MutPutDelSmall == {PutM("k", "a"), DelM("k")}

\* Put of strings only
MutPut == {PutM("k", "a"), PutM("k", "b")}

\* a counter, its increment and a string put
MutCounter == {CounterM("k"), IncM("k"), PutM("k", "a")}

\* a list at the key and two inserts at its head
MutList == {PutObjM("k", "list"), InsM("k", 0, "a"), InsM("k", 0, "b")}

\* a text at the key, a two-character splice, a mark over its first character
MutText == {PutObjM("k", "text"), SpliceM("k", 0, 0, <<"a", "b">>), MarkM("k", 0, 1, "bold")}

\* distinct actors, one per document
TwoActors == [r \in {"r1", "r2"} |-> IF r = "r1" THEN 1 ELSE 2]

=============================================================================
