--------------------------- MODULE ChangeExchange ---------------------------
(***************************************************************************)
(* What the sync protocol promises, without messages, bloom filters or     *)
(* sync state: each peer holds a causally closed set of changes; a local   *)
(* edit adds a new change that depends on every head the author holds (and *)
(* on nothing it lacks); an exchange step adds to a peer a set of changes  *)
(* the other peer holds, never leaving a dependency behind; and once the  *)
(* peers stop editing they end up holding the same changes.                *)
(*                                                                         *)
(* deps records every change ever made, by hash, with its dependencies.   *)
(***************************************************************************)
CONSTANTS Peer, Hash

VARIABLES deps, have

avars == <<deps, have>>

Other(p) == CHOOSE q \in Peer : q # p

\* a set of changes with all its dependencies inside it
Closed(S) == \A h \in S : deps[h] \subseteq S

\* the heads of a closed set: the changes nothing in it depends on
HeadsOf(S) == {h \in S : \A x \in S : h \notin deps[x]}

Init ==
  /\ deps = [h \in {} |-> {}]
  /\ have = [p \in Peer |-> {}]

\* p makes a new change on top of what it holds
Edit(p) ==
  \E h \in Hash \ DOMAIN deps :
    \E ds \in SUBSET have[p] :
      /\ HeadsOf(have[p]) \subseteq ds
      /\ deps' = [x \in DOMAIN deps \cup {h} |-> IF x = h THEN ds ELSE deps[x]]
      /\ have' = [have EXCEPT ![p] = @ \cup {h}]

\* p takes changes the other peer holds, keeping its set closed
Transfer(p) ==
  \E S \in SUBSET have[Other(p)] :
    /\ ~(S \subseteq have[p])
    /\ Closed(have[p] \cup S)
    /\ have' = [have EXCEPT ![p] = @ \cup S]
    /\ UNCHANGED deps

Next == \E p \in Peer : Edit(p) \/ Transfer(p)

\* the peers eventually hold the same changes for good
Converges == <>[](\A p, q \in Peer : have[p] = have[q])

Safety == Init /\ [][Next]_avars

Spec == Safety /\ Converges
=============================================================================
