------------------------------- MODULE Patch --------------------------------
(***************************************************************************)
(* Diff and the AutoCommit diff cursor (automerge/patch.go,                *)
(* automerge/autocommit.go) on top of the documents of module Document.    *)
(*                                                                         *)
(* Diff(before, after) reads the op set at the clocks of two sets of heads *)
(* and walks the root map: a MapPut or MapDelete patch per key whose       *)
(* visible value differs, and, when a key holds the same list or text      *)
(* object at both heads, a TextSplice or ListReplace patch if its content  *)
(* differs.  DiffIncremental diffs from the cursor to the current heads    *)
(* and moves the cursor there.                                             *)
(*                                                                         *)
(* `view` is not program state: it is a consumer of DiffIncremental that   *)
(* applies every patch it is given to its copy of the document, the use    *)
(* the cursor exists for.  It knows the content of a list or text object   *)
(* only once a TextSplice or ListReplace patch has told it.  It constrains *)
(* nothing: every step of the documents and of the cursor stays enabled.   *)
(*                                                                         *)
(* Patches are [kind, obj, key, old, new]: for "put" and "delete" old and  *)
(* new are values (NoValue when absent), for "splice" (TextSplice) and     *)
(* "replace" (ListReplace) they are the sequences of element values (a     *)
(* text's string is its one-character values concatenated).               *)
(***************************************************************************)
EXTENDS Document

VARIABLES
  cursor,     \* cursor[r]: a.diffCursor of the AutoCommit around document r
  view        \* view[r]: the consumer's copy, [root, seqs]

pvars == <<vars, cursor, view>>

EmptyView == [root |-> <<>>, seqs |-> <<>>]

\* f with key k set to v (the domain grows if needed)
SetKey(f, k, v) == [x \in DOMAIN f \cup {k} |-> IF x = k THEN v ELSE f[x]]
DropKey(f, k) == [x \in DOMAIN f \ {k} |-> f[x]]

-----------------------------------------------------------------------------
\* Mutant: empty heads read through Document.ClockForHeads (current heads)
ClockFromHeadsCurrent(r, heads) ==
  IF heads = {} THEN [err |-> "ok", clock |-> NoClock]
  ELSE CG!ClockForHeads(graph[r], heads)

\* clockFromHeads: no heads is the empty clock, which covers nothing
ClockFromHeads(r, heads) ==
  IF heads = {} THEN [err |-> "ok", clock |-> [a \in Actor |-> 0]]
  ELSE CG!ClockForHeads(graph[r], heads)

\* mapSnapshot (IterMap: KeysMap then GetMap per key): key -> visible value
MapSnapshot(st) ==
  [k \in {x \in Key : st.root[x] # {}} |-> Winner(st.root[k]).value]

\* Text or ListRange of a materialized object
SeqValues(st, o) == [i \in DOMAIN st.seqs[o] |-> Winner(st.seqs[o][i]).value]

\* diffObjAt of a list or text object: one patch if the content differs
DiffSeq(bst, ast, o, typ) ==
  IF SeqValues(bst, o) = SeqValues(ast, o) THEN <<>>
  ELSE <<[kind |-> IF typ = "text" THEN "splice" ELSE "replace", obj |-> o,
          key |-> "", old |-> SeqValues(bst, o), new |-> SeqValues(ast, o)]>>

(***************************************************************************)
(* Mutant: a key present at both heads with a different value gives no    *)
(* patch (the third case of the switch in diffMap dropped).                *)
(***************************************************************************)
KeyPatchesNoChange(bm, am, k) ==
  CASE k \in DOMAIN bm /\ k \notin DOMAIN am ->
         <<[kind |-> "delete", obj |-> RootObj, key |-> k, old |-> bm[k], new |-> NoValue]>>
    [] k \notin DOMAIN bm /\ k \in DOMAIN am ->
         <<[kind |-> "put", obj |-> RootObj, key |-> k, old |-> NoValue, new |-> am[k]]>>
    [] OTHER -> <<>>

\* the switch of diffMap for one key
KeyPatches(bm, am, k) ==
  CASE k \in DOMAIN bm /\ k \notin DOMAIN am ->
         <<[kind |-> "delete", obj |-> RootObj, key |-> k, old |-> bm[k], new |-> NoValue]>>
    [] k \notin DOMAIN bm /\ k \in DOMAIN am ->
         <<[kind |-> "put", obj |-> RootObj, key |-> k, old |-> NoValue, new |-> am[k]]>>
    [] k \in DOMAIN bm /\ k \in DOMAIN am /\ bm[k] # am[k] ->
         <<[kind |-> "put", obj |-> RootObj, key |-> k, old |-> bm[k], new |-> am[k]]>>
    [] OTHER -> <<>>

\* the recursion of diffMap: only into the same child object at both heads
ChildPatches(bst, ast, bm, am, k) ==
  IF /\ k \in DOMAIN bm /\ k \in DOMAIN am
     /\ bm[k].t \in SeqTypes /\ am[k].t \in SeqTypes
     /\ bm[k].v = am[k].v
  THEN DiffSeq(bst, ast, am[k].v, am[k].t)
  ELSE <<>>

(***************************************************************************)
(* diffMap of the root, recursive: the keys of either snapshot in order    *)
(* (sort.Strings; patches of different keys commute, so SetToSeq's order   *)
(* stands for it), each key's patch, then its child's patches.  The        *)
(* visited set only matters for an object reachable twice, which a root    *)
(* with list and text children never has.                                  *)
(***************************************************************************)
DiffMap(bst, ast) ==
  LET bm == MapSnapshot(bst)
      am == MapSnapshot(ast)
      keys == SetToSeq(DOMAIN bm \cup DOMAIN am)
  IN  FoldLeft(LAMBDA acc, k : acc \o KeyPatches(bm, am, k) \o ChildPatches(bst, ast, bm, am, k),
               <<>>, keys)

\* Diff(before, after): DiffObj of the root; an error gives no patches
DiffAt(r, bc, ac) ==
  IF bc.err # "ok" \/ ac.err # "ok" THEN <<>>
  ELSE DiffMap(Materialize(oplog[r], bc.clock), Materialize(oplog[r], ac.clock))

Diff(r, before, after) == DiffAt(r, ClockFromHeads(r, before), ClockFromHeads(r, after))

-----------------------------------------------------------------------------
(***************************************************************************)
(* The consumer applies a patch: a put sets the key (the content of a new  *)
(* child object is unknown to it until a patch for that object comes), a   *)
(* delete removes the key, a splice or replace sets the object's content.  *)
(***************************************************************************)
ApplyPatch(v, p) ==
  CASE p.kind = "put"    -> [v EXCEPT !.root = SetKey(@, p.key, p.new)]
    [] p.kind = "delete" -> [v EXCEPT !.root = DropKey(@, p.key)]
    [] OTHER             -> [v EXCEPT !.seqs = SetKey(@, p.obj, p.new)]

\* the whole document as a reader sees it at the current heads
ReadOf(st, m) ==
  [root |-> m,
   seqs |-> [o \in {m[k].v : k \in {x \in DOMAIN m : m[x].t \in SeqTypes}} |-> SeqValues(st, o)]]
ReadAll(r) ==
  ReadOf(Materialize(oplog[r], NoClock), MapSnapshot(Materialize(oplog[r], NoClock)))

InitPatch ==
  /\ Init
  /\ cursor = [r \in Replica |-> {}]
  /\ view = [r \in Replica |-> EmptyView]

\* DiffIncremental: diff from the cursor to the heads, cursor := heads; the
\* consumer applies the patches in order
DiffIncremental(r) ==
  /\ cursor' = [cursor EXCEPT ![r] = graph[r].headSet]
  /\ view' = [view EXCEPT ![r] = FoldLeft(ApplyPatch, @, Diff(r, cursor[r], graph[r].headSet))]
  /\ UNCHANGED vars

\* UpdateDiffCursor: cursor := heads, no patches; the consumer reads the document
UpdateDiffCursor(r) ==
  /\ cursor' = [cursor EXCEPT ![r] = graph[r].headSet]
  /\ view' = [view EXCEPT ![r] = ReadAll(r)]
  /\ UNCHANGED vars

\* ResetDiffCursor: cursor := nil; the consumer starts from an empty copy
ResetDiffCursor(r) ==
  /\ cursor' = [cursor EXCEPT ![r] = {}]
  /\ view' = [view EXCEPT ![r] = EmptyView]
  /\ UNCHANGED vars

\* AutoCommit documents (Document!NextAuto) and their diff cursors
NextPatch ==
  \/ NextAuto /\ UNCHANGED <<cursor, view>>
  \/ \E r \in Replica :
       \/ DiffIncremental(r)
       \/ UpdateDiffCursor(r)
       \/ ResetDiffCursor(r)

SpecPatch == InitPatch /\ [][NextPatch]_pvars

-----------------------------------------------------------------------------
(***************************************************************************)
(* A consumer that applies every DiffIncremental patch holds the document  *)
(* as it was at the cursor: the root map at the cursor's heads, and the    *)
(* content at those heads of every child object it has been told about   *)
(* and still reaches from its root.  This needs the read at old heads to  *)
(* stay what it was while merges, loads and commits append to the op log  *)
(* (materialize filters by clock, clockFromHeads maps no heads to the     *)
(* empty clock), and diffMap to report every change of a key and to       *)
(* recurse into a child only when both heads hold the same object.        *)
(***************************************************************************)
ViewMatchesCursor ==
  \A r \in Replica :
    \A bc \in {ClockFromHeads(r, cursor[r])} :
      \A st \in {Materialize(oplog[r], bc.clock)} :
        /\ view[r].root = MapSnapshot(st)
        /\ \A o \in DOMAIN view[r].seqs :
             (\E k \in DOMAIN view[r].root : view[r].root[k].t \in SeqTypes /\ view[r].root[k].v = o)
               => view[r].seqs[o] = SeqValues(st, o)
=============================================================================
