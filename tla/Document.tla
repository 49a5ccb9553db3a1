------------------------------ MODULE Document ------------------------------
(***************************************************************************)
(* Documents of automerge/document.go, each owning a change graph and an   *)
(* op set, with the transaction of automerge/transaction.go and the ingest *)
(* path of automerge/apply.go (ApplyChanges, the causal queue, the         *)
(* topological order and applyOneChange).                                  *)
(*                                                                         *)
(* Several documents (replicas) live side by side.  They share nothing but *)
(* `universe`, the changes any of them has committed, indexed by hash: it  *)
(* is what Merge, a sync payload or a loaded file can hand to              *)
(* ApplyChanges, in any order, any subset, with repeats.  It also plays    *)
(* the hash function: a change whose content is already in the universe    *)
(* gets the same hash, a new content any unused hash, so every relative    *)
(* order of hashes is explored.                                            *)
(*                                                                         *)
(* A mutation is Put, DeleteMap or Increment on a key of the root map,    *)
(* PutObject of a list or text at a key, or Insert, DeleteList or          *)
(* SpliceText on a list or text object (module OpSet).  Marks are left    *)
(* out (no property reads them).  Message, time, the actor map             *)
(* of ApplyChangesWithActorMap (a renaming) and the byte formats of Save  *)
(* are left out: a saved document is the sequence of its change hashes    *)
(* plus the queued changes, which Load applies chunk by chunk.             *)
(***************************************************************************)
EXTENDS Integers, Sequences, FiniteSets, SequencesExt, TLC, OpSet

CONSTANTS
  Replica,    \* the documents
  Actor,      \* actor indexes
  ActorOf,    \* ActorOf[r]: the actor SetActor gave document r
  Hash,       \* hashes a commit may be given (positive integers)
  Mutation,   \* the mutations a transaction may stage
  MaxMuts,    \* bound on the mutations staged in one transaction
  MaxBatch,   \* bound on the length of one ApplyChanges batch
  MaxQueue,   \* bound on the queue length (queue plus batch) before a call
  MaxLog      \* bound on the op log length of a document

ASSUME ActorOf \in [Replica -> Actor]

VARIABLES
  graph,      \* graph[r]: d.graph
  oplog,      \* oplog[r]: d.ops (the op log)
  queue,      \* queue[r]: d.queue, as a sequence of hashes
  tx,         \* tx[r]: the open transaction d.open, or NoTx
  last,       \* last[r]: d.last, a hash or NoHash
  universe,   \* every change committed anywhere: hash -> content
  delivered,  \* history: the hashes handed to calls of r's ApplyChanges that returned nil
  result,     \* history: [op, err] of r's last Commit or ApplyChanges
  cache       \* cache[r]: d.saveCache for the default options, {} or {bytes}

vars == <<graph, oplog, queue, tx, last, universe, delivered, result, cache>>

CG == INSTANCE ChangeGraph WITH MaxSeq <- 0, MaxOpBound <- 0

NoHash == CG!NoHash
NoTx == [open |-> FALSE, seq |-> 0, startOp |-> 0, deps |-> {}, muts |-> <<>>]

Known == DOMAIN universe

-----------------------------------------------------------------------------
ApplyChangeOperation(log, op) ==
  CASE op.kind = "put" -> [err |-> "ok", log |-> PutMap(log, op.key, op.arg, op.id)]
    [] op.kind = "putobj" ->
         [err |-> "ok", log |-> PutMap(log, op.key, [t |-> op.arg, v |-> op.id], op.id)]
    [] op.kind = "ins" -> InsertList(log, op.obj, op.index, op.arg, op.id)
    [] op.kind = "del" -> [err |-> "ok", log |-> DeleteMap(log, op.key, op.id)]
    [] op.kind = "dell" -> DeleteList(log, op.obj, op.index, op.id)
    [] op.kind = "inc" -> IncrementMapCounter(log, op.key, op.arg, op.id)
    [] op.kind = "mark" ->
         AddMark(log, op.obj, op.index, op.del, op.arg.name, op.arg.value, op.id)
    [] op.kind = "splice" ->
         SpliceText(log, op.obj, op.index, op.del, op.arg, op.id[2], op.id[1] - 1)

RECURSIVE ApplyOps(_, _)
ApplyOps(log, ops) ==
  IF ops = <<>> THEN [err |-> "ok", log |-> log]
  ELSE LET r == ApplyChangeOperation(log, Head(ops))
       IN  IF r.err # "ok" THEN r ELSE ApplyOps(r.log, Tail(ops))

\* the ChangeMeta AddChange is given for change c with hash h
MetaOf(h, c) ==
  [hash |-> h, deps |-> c.deps, actor |-> c.actor, seq |-> c.seq, maxOp |-> c.maxOp]

\* the hash the content gets: its own if already known, else any unused one
HashFor(content) ==
  IF \E h \in Known : universe[h] = content
  THEN {CHOOSE h \in Known : universe[h] = content}
  ELSE Hash \ Known

-----------------------------------------------------------------------------
Init ==
  /\ graph = [r \in Replica |-> CG!EmptyGraph]
  /\ oplog = [r \in Replica |-> <<>>]
  /\ queue = [r \in Replica |-> <<>>]
  /\ tx = [r \in Replica |-> NoTx]
  /\ last = [r \in Replica |-> NoHash]
  /\ universe = <<>>
  /\ delivered = [r \in Replica |-> {}]
  /\ result = [r \in Replica |-> [op |-> "none", err |-> "ok"]]
  /\ cache = [r \in Replica |-> {}]

\* Mutant: only the actor's previous change, not the heads
DependenciesForActorSeqPrevOnly(g, a, s) ==
  LET prev == CG!HashForActorSeq(g, a, s - 1)
  IN  IF s > 1 /\ prev # NoHash THEN {prev} ELSE {}

\* dependenciesForActorSeq: the heads, plus the actor's previous change
DependenciesForActorSeq(g, a, s) ==
  LET prev == CG!HashForActorSeq(g, a, s - 1)
  IN  g.headSet \cup (IF s > 1 /\ prev # NoHash THEN {prev} ELSE {})

\* newTransaction: the checkpoint is taken at Begin and used at Commit
NewTransaction(g, a) ==
  LET s == CG!SeqForActor(g, a) + 1
  IN  [open |-> TRUE, seq |-> s, startOp |-> g.maxOp + 1,
       deps |-> DependenciesForActorSeq(g, a, s), muts |-> <<>>]

\* Begin: fails with ErrTransactionOpen while a transaction is open
Begin(r) ==
  /\ ~tx[r].open
  /\ tx' = [tx EXCEPT ![r] = NewTransaction(graph[r], ActorOf[r])]
  /\ UNCHANGED <<graph, oplog, queue, last, universe, delivered, result, cache>>

\* Mutant: a splice counted as one op, like every other mutation
OpCountOne(m) == 1

\* txMutation.opCount: a splice makes one op per deleted and inserted rune
OpCount(m) == IF m.kind = "splice" THEN m.del + Len(m.arg) ELSE 1

\* totalMutationOpCount
TotalOpCount(muts) == FoldLeft(LAMBDA total, m : total + OpCount(m), 0, muts)

\* nextOpIDForNextMutation when the i-th mutation of t was staged: the
\* ChildObjID PutObject returns, and the OpID CommitWith gives mutation i
MutationOpId(t, a, i) == <<t.startOp + TotalOpCount(SubSeq(t.muts, 1, i - 1)), a>>

(***************************************************************************)
(* The objects a caller can name for mutation m staged on t: the root for  *)
(* a map mutation; for a list mutation on key k, every list or text the   *)
(* op set has seen put at k (GetMap returns the winner; an older ObjID     *)
(* stays usable) and every object PutObject returned for k in t.           *)
(***************************************************************************)
Targets(r, t, m) ==
  IF m.kind \notin {"ins", "dell", "splice", "mark"} THEN {RootObj}
  ELSE {oplog[r][i].value.v : i \in {j \in DOMAIN oplog[r] :
           oplog[r][j].kind = "put" /\ oplog[r][j].key = m.key
           /\ oplog[r][j].value.t \in SeqTypes}}
       \cup {MutationOpId(t, ActorOf[r], i) :
               i \in {j \in DOMAIN t.muts : t.muts[j].kind = "putobj" /\ t.muts[j].key = m.key}}

\* tx.ops after staging m on object o: SpliceText of nothing stages nothing
StagedMuts(muts, m, o) ==
  IF m.kind = "splice" /\ m.del = 0 /\ m.arg = <<>> THEN muts
  ELSE Append(muts, [m EXCEPT !.obj = o])

\* Mutant: the mutation methods without ensureOpen
StageNoGuard(r, m) ==
  /\ Len(tx[r].muts) < MaxMuts
  /\ \E o \in Targets(r, tx[r], m) : tx' = [tx EXCEPT ![r].muts = StagedMuts(@, m, o)]
  /\ UNCHANGED <<graph, oplog, queue, last, universe, delivered, result, cache>>

\* tx.Mark refuses start < 0 or end < start (ErrInvalidMarkRange); a mark
\* mutation keeps start in index and end in del
ValidMarkRange(m) == m.kind = "mark" => m.index >= 0 /\ m.del >= m.index

\* Put, PutObject, Insert, DeleteMap, DeleteList, Increment, SpliceText,
\* Mark on an open transaction: staged, nothing applied
Stage(r, m) ==
  /\ tx[r].open
  /\ ValidMarkRange(m)
  /\ Len(tx[r].muts) < MaxMuts
  /\ \E o \in Targets(r, tx[r], m) : tx' = [tx EXCEPT ![r].muts = StagedMuts(@, m, o)]
  /\ UNCHANGED <<graph, oplog, queue, last, universe, delivered, result, cache>>

\* txMutation.toChangeOp: the change operation a staged mutation becomes
ToChangeOp(m, id) ==
  [kind |-> m.kind, obj |-> m.obj, key |-> m.key, index |-> m.index, del |-> m.del,
   arg |-> m.arg, id |-> id]

(***************************************************************************)
(* CommitWith of transaction t of document r.  Mutation i gets OpID        *)
(* startOp + the op counts of the mutations before it, and is applied to   *)
(* the op set at once; an error returns at that point, leaving the ops     *)
(* applied so far in the op set and t open.  maxOp is startOp + the total *)
(* op count - 1.  Then the hash and AddChange; an AddChange error also     *)
(* returns with t open.  A transaction with no mutation closes without a   *)
(* change (the later offset = 0 check cannot fire: every staged mutation   *)
(* counts at least one op, or fails in apply).                             *)
(***************************************************************************)
CommitTx(r, t) ==
  \E ops \in {[i \in DOMAIN t.muts |-> ToChangeOp(t.muts[i], MutationOpId(t, ActorOf[r], i))]} :
  \E run \in {ApplyOps(oplog[r], ops)} :
  LET content == [actor |-> ActorOf[r], seq |-> t.seq, startOp |-> t.startOp,
                  maxOp |-> t.startOp + TotalOpCount(t.muts) - 1, deps |-> t.deps, ops |-> ops]
  IN
  /\ Len(oplog[r]) < MaxLog
  /\ IF t.muts = <<>>
     THEN /\ tx' = [tx EXCEPT ![r] = NoTx]
          /\ result' = [result EXCEPT ![r] = [op |-> "commit", err |-> "ok"]]
          /\ UNCHANGED <<graph, oplog, queue, last, universe, delivered, cache>>
     ELSE IF run.err # "ok"
     THEN /\ oplog' = [oplog EXCEPT ![r] = run.log]
          /\ tx' = [tx EXCEPT ![r] = t]
          /\ result' = [result EXCEPT ![r] = [op |-> "commit", err |-> run.err]]
          /\ UNCHANGED <<graph, queue, last, universe, delivered, cache>>
     ELSE \E h \in HashFor(content) :
          \E add \in {CG!AddChange(graph[r], MetaOf(h, content))} :
                /\ oplog' = [oplog EXCEPT ![r] = run.log]
                /\ result' = [result EXCEPT ![r] = [op |-> "commit", err |-> add.err]]
                /\ IF add.err # "ok"
                   THEN /\ tx' = [tx EXCEPT ![r] = t]
                        /\ UNCHANGED <<graph, queue, last, universe, delivered, cache>>
                   ELSE /\ graph' = [graph EXCEPT ![r] = add.graph]
                        /\ last' = [last EXCEPT ![r] = h]
                        /\ tx' = [tx EXCEPT ![r] = NoTx]
                        /\ universe' = universe @@ (h :> content)
                        /\ cache' = [cache EXCEPT ![r] = {}]
                        /\ UNCHANGED <<queue, delivered>>

\* Commit of the open transaction
Commit(r) == tx[r].open /\ CommitTx(r, tx[r])

(***************************************************************************)
(* AutoCommit.Put / PutObject / Insert / DeleteMap / DeleteList /          *)
(* Increment / SpliceText / Mark: Begin (ErrTransactionOpen while a       *)
(* transaction is open), stage the one mutation (a refused Mark range is  *)
(* rolled back), Commit.  A failing Commit is not      *)
(* rolled back: its transaction stays open in the document.                *)
(***************************************************************************)
AutoCommit(r, m) ==
  IF tx[r].open
  THEN /\ result' = [result EXCEPT ![r] = [op |-> "commit", err |-> "TransactionOpen"]]
       /\ UNCHANGED <<graph, oplog, queue, tx, last, universe, delivered, cache>>
  ELSE IF ~ValidMarkRange(m)
  THEN /\ result' = [result EXCEPT ![r] = [op |-> "commit", err |-> "InvalidMarkRange"]]
       /\ UNCHANGED <<graph, oplog, queue, tx, last, universe, delivered, cache>>
  ELSE \E t \in {NewTransaction(graph[r], ActorOf[r])} :
       \E o \in Targets(r, t, m) : CommitTx(r, [t EXCEPT !.muts = StagedMuts(<<>>, m, o)])

\* Rollback: drop the staged mutations and close
Rollback(r) ==
  /\ tx[r].open
  /\ tx' = [tx EXCEPT ![r] = NoTx]
  /\ UNCHANGED <<graph, oplog, queue, last, universe, delivered, result, cache>>
-----------------------------------------------------------------------------
(***************************************************************************)
(* ApplyChangesWithActorMap (with a nil actor map), phase by phase.  A     *)
(* batch is a sequence of known hashes; universe[h] is the change.        *)
(***************************************************************************)

\* isCausallyReady: every dep is in the graph or already taken this call
IsCausallyReady(g, c, ready) ==
  \A d \in c.deps : CG!HasChange(g, d) \/ d \in ready

\* Mutant: a change that is not ready is dropped instead of queued
RECURSIVE AdmitNoQueue(_, _, _)
AdmitNoQueue(g, b, acc) ==
  IF b = <<>> THEN acc
  ELSE LET h == Head(b)
           c == universe[h]
       IN  IF CG!HasChange(g, h) THEN AdmitNoQueue(g, Tail(b), acc)
           ELSE IF CG!HashForActorSeq(g, c.actor, c.seq) # NoHash
           THEN [acc EXCEPT !.err = "DuplicateSeqNumber"]
           ELSE IF IsCausallyReady(g, c, acc.ready)
           THEN AdmitNoQueue(g, Tail(b), [acc EXCEPT !.batch = Append(@, h),
                                                     !.ready = @ \cup {h}])
           ELSE AdmitNoQueue(g, Tail(b), acc)

(***************************************************************************)
(* The admit loop.  acc is [err, queue, ready, batch].  A change already in *)
(* the graph is skipped, one whose (actor, seq) the graph gives to another *)
(* hash fails the whole call (what was queued before stays queued), a      *)
(* ready one joins the batch and everything else is appended to the queue. *)
(***************************************************************************)
RECURSIVE Admit(_, _, _)
Admit(g, b, acc) ==
  IF b = <<>> THEN acc
  ELSE LET h == Head(b)
           c == universe[h]
       IN  IF CG!HasChange(g, h) THEN Admit(g, Tail(b), acc)
           ELSE IF CG!HashForActorSeq(g, c.actor, c.seq) # NoHash
           THEN [acc EXCEPT !.err = "DuplicateSeqNumber"]
           ELSE IF IsCausallyReady(g, c, acc.ready)
           THEN Admit(g, Tail(b), [acc EXCEPT !.batch = Append(@, h),
                                              !.ready = @ \cup {h}])
           ELSE Admit(g, Tail(b), [acc EXCEPT !.queue = Append(@, h)])

\* Mutant: the drain checks readiness against the graph only
RECURSIVE DrainGraphOnly(_, _)
DrainGraphOnly(g, acc) ==
  LET q     == acc.queue
      ready == {i \in DOMAIN q : IsCausallyReady(g, universe[q[i]], {})}
  IN  IF ready = {} THEN acc
      ELSE LET i == Min(ready)
           IN  DrainGraphOnly(g, [acc EXCEPT
                           !.queue = SubSeq([q EXCEPT ![i] = q[Len(q)]], 1, Len(q) - 1),
                           !.batch = Append(@, q[i]),
                           !.ready = @ \cup {q[i]}])

(***************************************************************************)
(* The drain loop with popNextCausallyReady: take the first ready queue    *)
(* entry, move the last entry into its place, until none is ready.         *)
(***************************************************************************)
RECURSIVE Drain(_, _)
Drain(g, acc) ==
  LET q     == acc.queue
      ready == {i \in DOMAIN q : IsCausallyReady(g, universe[q[i]], acc.ready)}
  IN  IF ready = {} THEN acc
      ELSE LET i == Min(ready)
           IN  Drain(g, [acc EXCEPT
                           !.queue = SubSeq([q EXCEPT ![i] = q[Len(q)]], 1, Len(q) - 1),
                           !.batch = Append(@, q[i]),
                           !.ready = @ \cup {q[i]}])

\* Mutant: the batch is always put in hash order (the fallback)
TopoOrderSorted(b) == SortSeq(b, <)

(***************************************************************************)
(* orderChangeIndicesTopologically, returning the hashes in order: Kahn's  *)
(* algorithm over the deps inside the batch (a hash stands for its last    *)
(* index, as in indexByHash), the smallest ready hash first; if a cycle    *)
(* leaves some out, the batch sorted by hash.                              *)
(***************************************************************************)
TopoOrder(b) ==
  LET LastIdx(h) == CHOOSE i \in DOMAIN b : b[i] = h /\ \A j \in DOMAIN b : b[j] = h => j <= i
      DepIdx(i)  == {LastIdx(d) : d \in universe[b[i]].deps \cap Range(b)}
      RECURSIVE Kahn(_)
      Kahn(out) ==
        LET free == {i \in DOMAIN b \ Range(out) : DepIdx(i) \subseteq Range(out)}
        IN  IF free = {} THEN out
            ELSE Kahn(Append(out, CHOOSE i \in free : \A j \in free : b[i] <= b[j]))
      order == Kahn(<<>>)
  IN  IF Len(order) = Len(b) THEN [k \in DOMAIN order |-> b[order[k]]]
      ELSE SortSeq(b, <)

(***************************************************************************)
(* applyOneChange: the operations first, then AddChange, then d.changes,   *)
(* clearLegacyRaw (which empties the save cache) and d.last.               *)
(* st is [err, graph, log, last, cleared]; run is the result of the ops.   *)
(***************************************************************************)
AfterAdd(st, h, run, add) ==
  IF add.err # "ok" THEN [st EXCEPT !.err = add.err, !.log = run.log]
  ELSE [err |-> "ok", graph |-> add.graph, log |-> run.log, last |-> h, cleared |-> TRUE]

AfterOps(st, h, run) ==
  IF run.err # "ok" THEN [st EXCEPT !.err = run.err, !.log = run.log]
  ELSE AfterAdd(st, h, run, CG!AddChange(st.graph, MetaOf(h, universe[h])))

\* Mutant: applyOneChange without clearLegacyRaw
KeepCleared(st, n) == IF n.err = "ok" THEN [n EXCEPT !.cleared = st.cleared] ELSE n
ApplyOneChangeKeepCache(st, h) == KeepCleared(st, AfterOps(st, h, ApplyOps(st.log, universe[h].ops)))

ApplyOneChange(st, h) == AfterOps(st, h, ApplyOps(st.log, universe[h].ops))

\* Mutant: the apply loop without the hasChange skip
RECURSIVE ApplyAllNoSkip(_, _)
ApplyAllNoSkip(st, order) ==
  IF order = <<>> \/ st.err # "ok" THEN st
  ELSE ApplyAllNoSkip(ApplyOneChange(st, Head(order)), Tail(order))

\* the apply loop: skip what the graph has, stop at the first error
RECURSIVE ApplyAll(_, _)
ApplyAll(st, order) ==
  IF order = <<>> \/ st.err # "ok" THEN st
  ELSE ApplyAll(IF CG!HasChange(st.graph, Head(order)) THEN st
                ELSE ApplyOneChange(st, Head(order)),
                Tail(order))

(***************************************************************************)
(* ApplyChangesWithActorMap on a document d = [graph, log, queue, last] and *)
(* a batch b: the document afterwards, with err and cleared.  An admission  *)
(* error returns before anything is applied, keeping what it queued.       *)
(***************************************************************************)
IngestApplied(drn, st) ==
  [graph |-> st.graph, log |-> st.log, queue |-> drn.queue, last |-> st.last,
   err |-> st.err, cleared |-> st.cleared]

IngestDrained(d, drn) ==
  IngestApplied(drn, ApplyAll([err |-> "ok", graph |-> d.graph, log |-> d.log, last |-> d.last,
                               cleared |-> FALSE], TopoOrder(drn.batch)))

IngestAdmitted(d, adm) ==
  IF adm.err # "ok"
  THEN [graph |-> d.graph, log |-> d.log, queue |-> adm.queue, last |-> d.last,
        err |-> adm.err, cleared |-> FALSE]
  ELSE IngestDrained(d, Drain(d.graph, adm))

Ingest(d, b) ==
  IngestAdmitted(d, Admit(d.graph, b, [err |-> "ok", queue |-> d.queue, ready |-> {}, batch |-> <<>>]))

DocOf(r) == [graph |-> graph[r], log |-> oplog[r], queue |-> queue[r], last |-> last[r]]

Batches == UNION {[1..n -> Known] : n \in 1..MaxBatch}

\* an ApplyChanges call on r with batch b, recorded in result as res
ApplyChangesCall(r, b, res) ==
  \E n \in {Ingest(DocOf(r), b)} :
  /\ Len(oplog[r]) < MaxLog
  /\ Len(queue[r]) + Len(b) <= MaxQueue
  /\ delivered' = [delivered EXCEPT ![r] = IF n.err = "ok" THEN @ \cup Range(b) ELSE @]
  /\ queue' = [queue EXCEPT ![r] = n.queue]
  /\ graph' = [graph EXCEPT ![r] = n.graph]
  /\ oplog' = [oplog EXCEPT ![r] = n.log]
  /\ last' = [last EXCEPT ![r] = n.last]
  /\ cache' = [cache EXCEPT ![r] = IF n.cleared THEN {} ELSE @]
  /\ result' = [result EXCEPT ![r] = res @@ [err |-> n.err]]
  /\ UNCHANGED <<tx, universe>>

ApplyChanges(r, b) == ApplyChangesCall(r, b, [op |-> "apply"])

(***************************************************************************)
(* getChangesAdded: walk the other graph from its heads with a stack,      *)
(* stopping at changes we have, and reverse what was collected.            *)
(***************************************************************************)
RECURSIVE AddedWalk(_, _, _, _, _)
AddedWalk(g, og, stack, seen, out) ==
  IF stack = <<>> THEN out
  ELSE LET h    == stack[Len(stack)]
           rest == SubSeq(stack, 1, Len(stack) - 1)
       IN  IF h \in seen THEN AddedWalk(g, og, rest, seen, out)
           ELSE IF CG!HasChange(g, h) THEN AddedWalk(g, og, rest, seen \cup {h}, out)
           ELSE AddedWalk(g, og, rest \o CG!SortedHashes(CG!DepsForHash(og, h)),
                          seen \cup {h}, Append(out, h))

GetChangesAdded(g, og) == Reverse(AddedWalk(g, og, CG!SortedHashes(og.headSet), {}, <<>>))

\* Merge: ApplyChanges of the changes the other document has and we lack
Merge(r, o) == r # o /\ ApplyChanges(r, GetChangesAdded(graph[r], graph[o]))

(***************************************************************************)
(* SaveWithOptions with the default options (RetainOrphans): the document  *)
(* chunk holds AllChanges, then one change chunk per queued change.  The   *)
(* bytes are cached only while the queue is empty, and a cached encoding   *)
(* is returned while the queue is empty.                                   *)
(***************************************************************************)
\* Mutant: the queued changes are not written (RetainOrphans ignored)
SaveOfNoOrphans(r) ==
  [doc |-> CG!GetHashesFromHeads(graph[r], graph[r].headSet).out, orphans |-> <<>>]

SaveOf(r) ==
  [doc |-> CG!GetHashesFromHeads(graph[r], graph[r].headSet).out, orphans |-> queue[r]]

SaveBytes(r) ==
  IF queue[r] = <<>> /\ cache[r] # {} THEN CHOOSE c \in cache[r] : TRUE ELSE SaveOf(r)

SaveCache(r) ==
  IF queue[r] = <<>> /\ cache[r] = {} THEN [cache EXCEPT ![r] = {SaveOf(r)}] ELSE cache

Save(r) ==
  /\ cache' = SaveCache(r)
  /\ UNCHANGED <<graph, oplog, queue, tx, last, universe, delivered, result>>

(***************************************************************************)
(* LoadWithOptions of saved bytes into a new document: ApplyChanges of the *)
(* document chunk, then of each change chunk; an apply error fails the     *)
(* load (OnPartialError) or is skipped, keeping what it applied            *)
(* (OnPartialIgnore); then Validate (VerificationCheck).                   *)
(***************************************************************************)
EmptyDoc == [graph |-> CG!EmptyGraph, log |-> <<>>, queue |-> <<>>, last |-> NoHash, err |-> "ok"]

RECURSIVE LoadRun(_, _, _, _), LoadStep(_, _, _, _)
LoadRun(chunks, ignore, d, i) ==
  IF i > Len(chunks) THEN d ELSE LoadStep(chunks, ignore, Ingest(d, chunks[i]), i)
LoadStep(chunks, ignore, n, i) ==
  IF n.err = "ok" \/ ignore THEN LoadRun(chunks, ignore, [n EXCEPT !.err = "ok"], i + 1)
  ELSE [n EXCEPT !.err = "PartialLoad"]

LoadVerified(out) ==
  IF out.err = "ok" /\ ~CG!Validate(out.graph) THEN [out EXCEPT !.err = "Validate"] ELSE out

LoadChunks(chunks, ignore) == LoadVerified(LoadRun(chunks, ignore, EmptyDoc, 1))

\* the chunks of Save's bytes: the document chunk, then one per queued change
LoadWith(bytes, ignore) ==
  LoadChunks(<<bytes.doc>> \o [i \in DOMAIN bytes.orphans |-> <<bytes.orphans[i]>>], ignore)

\* SaveAfter(heads): one change chunk per change outside the closure of heads
SaveAfterOf(g, heads) ==
  LET base == IF heads = {} THEN {} ELSE Range(CG!GetHashesFromHeads(g, heads).out)
      after == SelectSeq(CG!GetHashesFromHeads(g, g.headSet).out, LAMBDA h : h \notin base)
  IN  [i \in DOMAIN after |-> <<after[i]>>]

(***************************************************************************)
(* LoadIncremental of SaveAfter(H) of document o into r, for heads H of o  *)
(* that r holds: the bytes are loaded into a new document (OnPartialIgnore, *)
(* VerificationCheck) and that document's AllChanges are applied to r.     *)
(***************************************************************************)
LoadIncremental(r, o, H) ==
  \E l \in {LoadChunks(SaveAfterOf(graph[o], H), TRUE)} :
      /\ r # o
      /\ H \subseteq CG!HashSet(graph[o]) \cap CG!HashSet(graph[r])
      /\ IF l.err # "ok"
         THEN /\ result' = [result EXCEPT ![r] = [op |-> "incremental", err |-> l.err]]
              /\ UNCHANGED <<graph, oplog, queue, tx, last, universe, delivered, cache>>
         ELSE ApplyChangesCall(r, CG!GetHashesFromHeads(l.graph, l.graph.headSet).out,
                               [op |-> "incremental", from |-> CG!HashSet(graph[o])])

-----------------------------------------------------------------------------
Next ==
  \E r \in Replica :
    \/ Begin(r)
    \/ \E m \in Mutation : Stage(r, m)
    \/ Commit(r)
    \/ Rollback(r)
    \/ \E m \in Mutation : AutoCommit(r, m)
    \/ \E b \in Batches : ApplyChanges(r, b)
    \/ \E o \in Replica : Merge(r, o)

Spec == Init /\ [][Next]_vars

\* documents used only through AutoCommit, exchanging changes and saved
NextAuto ==
  \E r \in Replica :
    \/ \E m \in Mutation : AutoCommit(r, m)
    \/ \E b \in Batches : ApplyChanges(r, b)
    \/ \E o \in Replica : Merge(r, o)
    \/ Save(r)
    \/ \E o \in Replica : \E H \in SUBSET CG!HashSet(graph[o]) : LoadIncremental(r, o, H)

SpecAuto == Init /\ [][NextAuto]_vars
-----------------------------------------------------------------------------
TypeOK ==
  /\ DOMAIN universe \subseteq Hash
  /\ \A r \in Replica :
       /\ CG!HashSet(graph[r]) \subseteq Known
       /\ Range(queue[r]) \subseteq Known
       /\ last[r] \in Known \cup {NoHash}
       /\ delivered[r] \subseteq Known
       /\ tx[r].open \in BOOLEAN
       /\ ~tx[r].open => tx[r] = NoTx
       /\ \A i \in DOMAIN tx[r].muts : [tx[r].muts[i] EXCEPT !.obj = RootObj] \in Mutation
       /\ Len(tx[r].muts) <= MaxMuts
       /\ Cardinality(cache[r]) <= 1

\* GetMapAt / GetAllMapAt: the state read with the clock of the heads
MaterializeAt(r, heads) ==
  Materialize(oplog[r], CG!ClockForHeads(graph[r], heads).clock)

\* the OpIDs of a change's operations: a splice's ops take the counters
\* from its OpID on (SpliceText from seq - 1, one per op)
OpIds(h) ==
  UNION {{<<op.id[1] + j, op.id[2]>> : j \in 0..OpCount(op) - 1} : op \in Range(universe[h].ops)}

(***************************************************************************)
(* The op log holds exactly the operations of the changes in the graph,    *)
(* each once: applyOneChange applies a change's ops only when AddChange    *)
(* then records it, and CommitWith records every op it applied; ApplyChanges*)
(* skips a change the graph already has.                                   *)
(***************************************************************************)
LogMatchesGraph ==
  \A r \in Replica :
    /\ {oplog[r][i].id : i \in DOMAIN oplog[r]} = UNION {OpIds(h) : h \in CG!HashSet(graph[r])}
    /\ \A i, j \in DOMAIN oplog[r] : oplog[r][i].id = oplog[r][j].id => i = j

(***************************************************************************)
(* Reading at the current heads gives what the current state gives:        *)
(* ClockForHeads of the heads covers every op of the log (GetMap with a    *)
(* clock, materialize filtering by Clock.Covers on the op counter).        *)
(***************************************************************************)
ReadAtHeadsMatchesCurrent ==
  \A r \in Replica :
    graph[r].headSet # {} =>
      MaterializeAt(r, graph[r].headSet) = Materialize(oplog[r], NoClock)

(***************************************************************************)
(* After ApplyChanges returns nil, nothing in the queue is ready to apply: *)
(* the drain loop took every change whose deps were known or taken.       *)
(***************************************************************************)
QueueSettled ==
  \A r \in Replica :
    result[r].op = "apply" /\ result[r].err = "ok" =>
      \A i \in DOMAIN queue[r] :
        ~IsCausallyReady(graph[r], universe[queue[r][i]], {})

(***************************************************************************)
(* A change handed to an ApplyChanges call that returned nil is never      *)
(* dropped: it is in the graph or still queued, whatever later calls do    *)
(* (the drain pops queue entries before they are applied).                 *)
(***************************************************************************)
NoLostChange ==
  \A r \in Replica :
    delivered[r] \subseteq CG!HashSet(graph[r]) \cup Range(queue[r])

(***************************************************************************)
(* Save never returns stale bytes: a cached encoding, which Save returns   *)
(* while the queue is empty, is the encoding of the document as it is now. *)
(* Every path that adds a change (applyOneChange, CommitWith) must empty   *)
(* the cache through clearLegacyRaw (storage.go:119-122).                  *)
(***************************************************************************)
SaveCacheFresh ==
  \A r \in Replica : queue[r] = <<>> /\ cache[r] # {} => cache[r] = {SaveOf(r)}

(***************************************************************************)
(* Load(Save()) gives back the document: LoadWithOptions with the default  *)
(* options succeeds on the bytes Save returns, and the loaded document has *)
(* the same changes, heads and queued changes (storage.go Save and Load).  *)
(***************************************************************************)
LoadRestoresSave ==
  \A r \in Replica :
    \A l \in {LoadWith(SaveBytes(r), FALSE)} :
        /\ l.err = "ok"
        /\ CG!HashSet(l.graph) = CG!HashSet(graph[r])
        /\ l.graph.headSet = graph[r].headSet
        /\ Range(l.queue) = Range(queue[r])

(***************************************************************************)
(* ApplyChanges of changes committed by other documents never fails.       *)
(***************************************************************************)
IngestNeverFails ==
  \A r \in Replica : result[r].op = "apply" => result[r].err = "ok"

(***************************************************************************)
(* Strong eventual consistency (spec section 1): two documents holding     *)
(* the same changes have the same value set and value at every key.       *)
(***************************************************************************)
Convergence ==
  \A r1, r2 \in Replica :
    CG!HashSet(graph[r1]) = CG!HashSet(graph[r2]) =>
      Materialize(oplog[r1], NoClock) = Materialize(oplog[r2], NoClock)
(***************************************************************************)
(* Strong eventual consistency for lists and text (spec section 1): two    *)
(* documents holding the same changes give the same ListRange (and so the *)
(* same Text) for every list or text object, whatever the root map shows.  *)
(***************************************************************************)
ListConvergence ==
  \A r1, r2 \in Replica :
    CG!HashSet(graph[r1]) = CG!HashSet(graph[r2]) =>
      \A o \in ObjectsOf(oplog[r1]) :
        ListRange(oplog[r1], NoClock, o) = ListRange(oplog[r2], NoClock, o)

(***************************************************************************)
(* LoadIncremental of the bytes SaveAfter(H) returns, H being heads the    *)
(* loading document already holds, gives it every change of the saving     *)
(* document (storage.go SaveAfter and LoadIncremental, the incremental     *)
(* save/load pair).                                                        *)
(***************************************************************************)
IncrementalLoadComplete ==
  \A r \in Replica :
    result[r].op = "incremental" /\ result[r].err = "ok" =>
      result[r].from \subseteq CG!HashSet(graph[r])

(***************************************************************************)
(* A document used only through AutoCommit never keeps a transaction open  *)
(* between calls: every AutoCommit call ends its transaction, as the       *)
(* Rollback on a failed mutation in autocommit.go intends.                 *)
(***************************************************************************)
AutoCommitLeavesNoTx == \A r \in Replica : ~tx[r].open
=============================================================================
