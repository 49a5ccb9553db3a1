---------------------------- MODULE ChangeGraph ----------------------------
(***************************************************************************)
(* The append-only change DAG of internal/changegraph/graph.go and the     *)
(* causal clock of internal/changegraph/clock.go.                          *)
(*                                                                         *)
(* A graph is a record value                                               *)
(*   nodes   : the node slice in append order; a node is                   *)
(*             [hash, deps, actor, seq, maxOp]; deps is the sorted depHash *)
(*             slice as a set (depIdx is IndexOf of each element)          *)
(*   headSet : the head set, maintained incrementally by AddChange         *)
(*   maxOp   : the largest maxOp of any appended node                      *)
(* byHash and byActor only ever index nodes, so they are derived from it.  *)
(* A change hash is a positive integer; the order of the integers stands   *)
(* for the byte order SortChangeHashes uses.                               *)
(*                                                                         *)
(* Document uses the operators on one graph per replica.  The state        *)
(* machine at the end drives AddChange on its own with arbitrary metadata, *)
(* well-formed or not, to check Validate and GetHashesFromHeads.           *)
(***************************************************************************)
EXTENDS Naturals, Sequences, FiniteSets, SequencesExt

CONSTANTS
  Hash,        \* change hashes the machine may add (positive integers)
  Actor,       \* actor indexes (uint32)
  MaxSeq,      \* largest seq the machine offers
  MaxOpBound   \* largest maxOp the machine offers

VARIABLE graph

NoHash == 0

\* New()
EmptyGraph == [nodes |-> <<>>, headSet |-> {}, maxOp |-> 0]

HashSet(g) == {g.nodes[i].hash : i \in DOMAIN g.nodes}

\* HasChange
HasChange(g, h) == h \in HashSet(g)

\* byHash[h]
IndexOf(g, h) == CHOOSE i \in DOMAIN g.nodes : g.nodes[i].hash = h

\* byActor[a]: the indexes of the actor's nodes, in append order
ActorIndexes(g, a) == {i \in DOMAIN g.nodes : g.nodes[i].actor = a}

\* SeqForActor
SeqForActor(g, a) == Cardinality(ActorIndexes(g, a))

\* HashForActorSeq: the hash of the seq-th node appended for the actor
HashForActorSeq(g, a, s) ==
  LET I == {i \in ActorIndexes(g, a) :
              Cardinality({j \in ActorIndexes(g, a) : j <= i}) = s}
  IN  IF I = {} THEN NoHash ELSE g.nodes[CHOOSE i \in I : TRUE].hash

\* DepsForHash
DepsForHash(g, h) == g.nodes[IndexOf(g, h)].deps

SortedHashes(S) == SetToSortSeq(S, <)

\* Mutant: the head set is updated before the dependency check returns
AddChangeEarlyHead(g, m) ==
  CASE HasChange(g, m.hash) -> [err |-> "ChangeExists", graph |-> g]
    [] m.seq # SeqForActor(g, m.actor) + 1 -> [err |-> "InvalidActorSeq", graph |-> g]
    [] ~(m.deps \subseteq HashSet(g)) ->
         [err |-> "UnknownDependency", graph |-> [g EXCEPT !.headSet = @ \cup {m.hash}]]
    [] OTHER ->
         [err |-> "ok",
          graph |-> [nodes |-> Append(g.nodes, [hash |-> m.hash, deps |-> m.deps,
                                      actor |-> m.actor, seq |-> m.seq, maxOp |-> m.maxOp]),
                     headSet |-> (g.headSet \cup {m.hash}) \ m.deps,
                     maxOp |-> IF m.maxOp > g.maxOp THEN m.maxOp ELSE g.maxOp]]

\* Mutant: the new change's deps stay heads
AddChangeKeepDeps(g, m) ==
  CASE HasChange(g, m.hash) -> [err |-> "ChangeExists", graph |-> g]
    [] m.seq # SeqForActor(g, m.actor) + 1 -> [err |-> "InvalidActorSeq", graph |-> g]
    [] ~(m.deps \subseteq HashSet(g)) -> [err |-> "UnknownDependency", graph |-> g]
    [] OTHER ->
         [err |-> "ok",
          graph |-> [nodes |-> Append(g.nodes, [hash |-> m.hash, deps |-> m.deps,
                                      actor |-> m.actor, seq |-> m.seq, maxOp |-> m.maxOp]),
                     headSet |-> g.headSet \cup {m.hash},
                     maxOp |-> IF m.maxOp > g.maxOp THEN m.maxOp ELSE g.maxOp]]

\* AddChange: the three checks in the code's order, then the append, the
\* byHash/byActor update, the maxOp update and the head-set update.
AddChange(g, m) ==
  CASE HasChange(g, m.hash) ->
         [err |-> "ChangeExists", graph |-> g]
    [] m.seq # SeqForActor(g, m.actor) + 1 ->
         [err |-> "InvalidActorSeq", graph |-> g]
    [] ~(m.deps \subseteq HashSet(g)) ->
         [err |-> "UnknownDependency", graph |-> g]
    [] OTHER ->
         [err |-> "ok",
          graph |-> [nodes   |-> Append(g.nodes,
                                   [hash |-> m.hash, deps |-> m.deps,
                                    actor |-> m.actor, seq |-> m.seq,
                                    maxOp |-> m.maxOp]),
                     headSet |-> (g.headSet \cup {m.hash}) \ m.deps,
                     maxOp   |-> IF m.maxOp > g.maxOp THEN m.maxOp ELSE g.maxOp]]

(***************************************************************************)
(* GetHashesFromHeads: the closure of the heads in DFS post-order, the     *)
(* heads visited in sorted order and each node's deps in depIdx order.     *)
(* Dfs(g, i, acc) is the closure dfs(idx); acc is [visited, out].          *)
(***************************************************************************)
\* Mutant: a node is emitted before its deps (pre-order)
RECURSIVE DfsPre(_, _, _), DfsPreAll(_, _, _)
DfsPre(g, i, acc) ==
  IF i \in acc.visited THEN acc
  ELSE LET deps == SortedHashes(g.nodes[i].deps)
       IN  DfsPreAll(g, [j \in DOMAIN deps |-> IndexOf(g, deps[j])],
                     [visited |-> acc.visited \cup {i}, out |-> Append(acc.out, g.nodes[i].hash)])
DfsPreAll(g, idxs, acc) ==
  IF idxs = <<>> THEN acc ELSE DfsPreAll(g, Tail(idxs), DfsPre(g, Head(idxs), acc))

RECURSIVE Dfs(_, _, _), DfsAll(_, _, _)
Dfs(g, i, acc) ==
  IF i \in acc.visited THEN acc
  ELSE LET deps  == SortedHashes(g.nodes[i].deps)
           after == DfsAll(g, [j \in DOMAIN deps |-> IndexOf(g, deps[j])],
                           [acc EXCEPT !.visited = @ \cup {i}])
       IN  [after EXCEPT !.out = Append(@, g.nodes[i].hash)]
DfsAll(g, idxs, acc) ==
  IF idxs = <<>> THEN acc ELSE DfsAll(g, Tail(idxs), Dfs(g, Head(idxs), acc))

GetHashesFromHeads(g, heads) ==
  IF heads = {} THEN [err |-> "ok", out |-> [i \in DOMAIN g.nodes |-> g.nodes[i].hash]]
  ELSE IF ~(heads \subseteq HashSet(g)) THEN [err |-> "UnknownHead", out |-> <<>>]
  ELSE LET sorted == SortedHashes(heads)
       IN  [err |-> "ok",
            out |-> DfsAll(g, [j \in DOMAIN sorted |-> IndexOf(g, sorted[j])],
                           [visited |-> {}, out |-> <<>>]).out]

\* Mutant: the clock observes each change's seq instead of its maxOp
ClockOfSeq(g, hashes) ==
  [a \in Actor |->
     LET ms == {g.nodes[IndexOf(g, h)].seq :
                  h \in {x \in hashes : g.nodes[IndexOf(g, x)].actor = a}}
     IN  IF ms = {} THEN 0 ELSE CHOOSE m \in ms : \A n \in ms : n <= m]

\* Clock.Observe over the closure: actor -> largest maxOp; absent actors are 0
ClockOf(g, hashes) ==
  [a \in Actor |->
     LET ms == {g.nodes[IndexOf(g, h)].maxOp :
                  h \in {x \in hashes : g.nodes[IndexOf(g, x)].actor = a}}
     IN  IF ms = {} THEN 0 ELSE CHOOSE m \in ms : \A n \in ms : n <= m]

\* ClockForHeads
ClockForHeads(g, heads) ==
  LET r == GetHashesFromHeads(g, heads)
  IN  [err |-> r.err, clock |-> ClockOf(g, Range(r.out))]

\* Clock.Covers
Covers(clk, actor, seq) == clk[actor] >= seq

(***************************************************************************)
(* Validate, check by check.                                               *)
(***************************************************************************)
Validate(g) ==
  /\ \A i \in DOMAIN g.nodes : g.nodes[i].deps \subseteq HashSet(g)
  /\ g.maxOp = IF g.nodes = <<>> THEN 0
               ELSE CHOOSE m \in {g.nodes[i].maxOp : i \in DOMAIN g.nodes} :
                      \A i \in DOMAIN g.nodes : g.nodes[i].maxOp <= m
  /\ g.headSet = HashSet(g) \ UNION {g.nodes[i].deps : i \in DOMAIN g.nodes}
  /\ \A a \in Actor : \A i \in ActorIndexes(g, a) :
       g.nodes[i].seq = Cardinality({j \in ActorIndexes(g, a) : j <= i})

-----------------------------------------------------------------------------
(***************************************************************************)
(* The AddChange machine.                                                  *)
(***************************************************************************)
Meta == [hash : Hash, deps : SUBSET Hash, actor : Actor,
         seq : 1..MaxSeq, maxOp : 1..MaxOpBound]

Init == graph = EmptyGraph

\* AddChange with any metadata; an error leaves the graph as it was.  The
\* graph holds at most one node per hash, so Hash bounds it.
Add(m) == graph' = AddChange(graph, m).graph

Next == \E m \in Meta : Add(m)

Spec == Init /\ [][Next]_graph

TypeOK ==
  /\ graph.headSet \subseteq HashSet(graph)
  /\ graph.maxOp \in 0..MaxOpBound
  /\ \A i \in DOMAIN graph.nodes : graph.nodes[i] \in Meta

\* Reference: the changes reachable from a set of hashes by following deps.
RECURSIVE Reach(_, _)
Reach(g, S) ==
  LET next == S \cup UNION {DepsForHash(g, h) : h \in S}
  IN  IF next = S THEN S ELSE Reach(g, next)

(***************************************************************************)
(* Validate never fails: the head set AddChange keeps incrementally is the *)
(* set of nodes no node depends on, maxOp is the largest node maxOp and    *)
(* every actor's seqs are 1..N, whatever metadata AddChange was offered    *)
(* and rejected on the way (graph.go AddChange and Validate).              *)
(***************************************************************************)
GraphValid == Validate(graph)

(***************************************************************************)
(* GetHashesFromHeads returns, for every set of known heads, each change   *)
(* of the heads' causal closure exactly once and every change after all   *)
(* of its deps (graph.go GetHashesFromHeads, the DFS post-order).          *)
(***************************************************************************)
ClosureDependencyFirst ==
  \A H \in (SUBSET HashSet(graph)) \ {{}} :
    LET out == GetHashesFromHeads(graph, H).out
    IN  /\ Range(out) = Reach(graph, H)
        /\ Len(out) = Cardinality(Range(out))
        /\ \A i \in DOMAIN out : \A d \in DepsForHash(graph, out[i]) :
             \E j \in 1..(i - 1) : out[j] = d
=============================================================================
