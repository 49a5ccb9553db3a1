------------------------------- MODULE OpSet -------------------------------
(***************************************************************************)
(* The operation set of internal/opset/opset.go: the root map (PutMap,     *)
(* DeleteMap, IncrementMapCounter), the list and text objects PutObject    *)
(* creates under it (InsertList, DeleteList, SpliceText), the op log       *)
(* `ops`, the replay in materialize/applyRecord and the reads GetMap,      *)
(* GetAllMap, ListRange and Text.                                          *)
(*                                                                         *)
(* The op set is a value: the op log, a sequence of opRecords              *)
(*   [kind |-> "put" | "del" | "ins" | "dell", obj, key, index, value,     *)
(*    id, pred]                                                            *)
(* where id is the OpID <<counter, actor>> and obj is RootObj or the OpID  *)
(* of the op that created the object.  The code also stores actor and seq *)
(* in each record; every caller passes actor = id[2] and seq = id[1], so   *)
(* they are read from id.  The `current` map the code keeps beside the     *)
(* log is applyRecordToCurrent run on every record; it has only the map    *)
(* branches of applyRecord, and only map reads use it, so it is            *)
(* Materialize(log, NoClock).root.  The `objects` map is the root plus     *)
(* one object per PutObject record: CreateObject and the PutMap of the     *)
(* object value always go together, and the root never refuses a put.     *)
(*                                                                         *)
(* A value is [t |-> "str", v |-> s], [t |-> "counter", v |-> n] or an     *)
(* object value [t |-> "list" | "text", v |-> objID].  Nested maps and     *)
(* objects inside lists are not modelled.                                  *)
(***************************************************************************)
EXTENDS Integers, Sequences, SequencesExt

CONSTANT Key

NoClock == <<>>              \* the nil *Clock: every op is replayed
NoValue == [t |-> "none"]    \* GetMap's (Value{}, false)
RootObj == "root"            \* model.RootObjID()
SeqTypes == {"list", "text"}

IsCounter(v) == v.t = "counter"

\* an opRecord
Rec(kind, obj, key, index, value, id, pred) ==
  [kind |-> kind, obj |-> obj, key |-> key, index |-> index, value |-> value,
   id |-> id, pred |-> pred]

\* an opMark record: the mark's name is in key, its start in index, and
\* its end beside them
MarkRec(obj, start, end, name, value, id) ==
  [kind |-> "mark", obj |-> obj, key |-> name, index |-> start, end |-> end,
   value |-> value, id |-> id, pred |-> {}]

\* o.objects: the list and text objects, by id, with their type
ObjectsOf(log) ==
  {log[i].value.v : i \in {j \in DOMAIN log : log[j].value.t \in SeqTypes}}
ObjTypeOf(log, o) ==
  LET i == CHOOSE j \in DOMAIN log : log[j].value.t \in SeqTypes /\ log[j].value.v = o
  IN  log[i].value.t

\* ensureType for a list or text operation
EnsureType(log, obj, types) ==
  IF obj \notin ObjectsOf(log) THEN "UnknownObject"
  ELSE IF ObjTypeOf(log, obj) \notin types THEN "WrongObjectType"
  ELSE "ok"

\* model.OpID.Compare: counter first, then actor
OpIdLess(x, y) == x[1] < y[1] \/ (x[1] = y[1] /\ x[2] < y[2])

\* removePreds: the versions not named in pred
RemovePreds(vs, pred) == {v \in vs : v.id \notin pred}

(***************************************************************************)
(* applyRecord.  A map put or delete drops the versions named in pred and *)
(* a put adds its own; a list insert puts a new entry at the index unless  *)
(* the index is past the end; a list delete removes the entry at the index *)
(* unless there is none; a mark joins the object's marks.  An            *)
(* out-of-range list op does nothing.                                      *)
(***************************************************************************)
ApplyRecord(state, op) ==
  CASE op.kind \in {"put", "del"} ->
         [state EXCEPT !.root[op.key] =
            RemovePreds(@, op.pred)
              \cup (IF op.kind = "put" THEN {[id |-> op.id, value |-> op.value]} ELSE {})]
    [] op.kind = "ins" ->
         IF op.index > Len(state.seqs[op.obj]) THEN state
         ELSE [state EXCEPT !.seqs[op.obj] =
                 InsertAt(@, op.index + 1, {[id |-> op.id, value |-> op.value]})]
    [] op.kind = "dell" ->
         IF op.index >= Len(state.seqs[op.obj]) THEN state
         ELSE [state EXCEPT !.seqs[op.obj] = RemoveAt(@, op.index + 1)]
    [] op.kind = "mark" ->
         [state EXCEPT !.marks[op.obj] =
            @ \cup {[start |-> op.index, end |-> op.end, name |-> op.key,
                     value |-> op.value, id |-> op.id]}]

\* materialize: a fresh state for every object, then every record the
\* clock covers, in log order
Materialize(log, clk) ==
  LET RECURSIVE Replay(_, _)
      Replay(i, state) ==
        IF i > Len(log) THEN state
        ELSE Replay(i + 1,
               IF clk = NoClock \/ clk[log[i].id[2]] >= log[i].id[1]
               THEN ApplyRecord(state, log[i]) ELSE state)
  IN  Replay(1, [root |-> [k \in Key |-> {}], seqs |-> [o \in ObjectsOf(log) |-> <<>>],
                 marks |-> [o \in ObjectsOf(log) |-> {}]])

\* sortedVersions(...)[len-1]: the surviving version with the largest OpID
Winner(vs) == CHOOSE v \in vs : \A w \in vs \ {v} : OpIdLess(w.id, v.id)

\* GetMap
GetMap(log, clk, k) ==
  LET vs == Materialize(log, clk).root[k]
  IN  IF vs = {} THEN NoValue ELSE Winner(vs).value

\* GetAllMap (as a set; the code sorts it by OpID)
GetAllMap(log, clk, k) == {v.value : v \in Materialize(log, clk).root[k]}

\* ListRange(obj, 0, -1, clk): the winning value of every entry; Text is
\* the same sequence of one-character strings, concatenated
ListRange(log, clk, o) ==
  LET s == Materialize(log, clk).seqs[o]
  IN  [i \in DOMAIN s |-> Winner(s[i]).value]

\* visibleMapVersionIDs(obj, key, nil), read from the current state
VisibleIds(log, k) == {v.id : v \in Materialize(log, NoClock).root[k]}

\* PutMap: pred is whatever is visible at the key in this op set now
PutMap(log, k, value, id) ==
  Append(log, Rec("put", RootObj, k, 0, value, id, VisibleIds(log, k)))

\* DeleteMap
DeleteMap(log, k, id) ==
  Append(log, Rec("del", RootObj, k, 0, NoValue, id, VisibleIds(log, k)))

\* IncrementMapCounter: read the current winner, fail unless it is a
\* counter, else PutMap counter(current + by)
IncrementMapCounter(log, k, by, id) ==
  LET cur == GetMap(log, NoClock, k)
  IN  IF cur = NoValue \/ ~IsCounter(cur)
      THEN [err |-> "CounterNotFound", log |-> log]
      ELSE [err |-> "ok",
            log |-> PutMap(log, k, [t |-> "counter", v |-> cur.v + by], id)]

\* InsertList: no pred; the index is only checked for being negative
InsertList(log, obj, index, value, id) ==
  IF EnsureType(log, obj, SeqTypes) # "ok"
  THEN [err |-> EnsureType(log, obj, SeqTypes), log |-> log]
  ELSE IF index < 0 THEN [err |-> "InvalidIndex", log |-> log]
  ELSE [err |-> "ok", log |-> Append(log, Rec("ins", obj, "", index, value, id, {}))]

\* DeleteList: no pred either; a negative index is refused, and the entry
\* at the index when replayed goes
DeleteList(log, obj, index, id) ==
  IF EnsureType(log, obj, SeqTypes) # "ok"
  THEN [err |-> EnsureType(log, obj, SeqTypes), log |-> log]
  ELSE IF index < 0 THEN [err |-> "InvalidIndex", log |-> log]
  ELSE [err |-> "ok", log |-> Append(log, Rec("dell", obj, "", index, NoValue, id, {}))]

(***************************************************************************)
(* SpliceText: a negative index or deleteCount is refused                 *)
(* (ErrInvalidIndex); else deleteCount deletes at index, then one insert  *)
(* per rune at index, index + 1, ...; the i-th op gets counter            *)
(* startSeq + i.  The inner DeleteList and InsertList calls repeat the    *)
(* type and index checks, which have already passed, so they cannot fail. *)
(***************************************************************************)
SpliceText(log, obj, index, deleteCount, insert, actor, startSeq) ==
  IF EnsureType(log, obj, {"text"}) # "ok"
  THEN [err |-> EnsureType(log, obj, {"text"}), log |-> log]
  ELSE IF index < 0 \/ deleteCount < 0 THEN [err |-> "InvalidIndex", log |-> log]
  ELSE [err |-> "ok",
        log |-> log
                \o [i \in 1..deleteCount |->
                      Rec("dell", obj, "", index, NoValue, <<startSeq + i, actor>>, {})]
                \o [i \in DOMAIN insert |->
                      Rec("ins", obj, "", index + i - 1, [t |-> "str", v |-> insert[i]],
                          <<startSeq + deleteCount + i, actor>>, {})]]

(***************************************************************************)
(* AddMark: on a text object only; start must be at least 0 and end at     *)
(* least start, and nothing compares them with the text's length.         *)
(***************************************************************************)
AddMark(log, obj, start, end, name, value, id) ==
  IF EnsureType(log, obj, {"text"}) # "ok"
  THEN [err |-> EnsureType(log, obj, {"text"}), log |-> log]
  ELSE IF start < 0 \/ end < start THEN [err |-> "InvalidIndex", log |-> log]
  ELSE [err |-> "ok", log |-> Append(log, MarkRec(obj, start, end, name, value, id))]

\* Marks(obj, clk): every mark the clock covers (as a set; the code sorts
\* it by start, end, OpID)
Marks(log, clk, o) == Materialize(log, clk).marks[o]

\* MarksAtIndex: the marks with start <= index < end, per name the one with
\* the largest OpID (as a set; the code sorts it by name, OpID)
LatestPerName(f) == {m \in f : \A n \in f : n.name = m.name => ~OpIdLess(m.id, n.id)}
MarksAtIndex(log, clk, o, index) ==
  IF index < 0 THEN {}
  ELSE LatestPerName({m \in Marks(log, clk, o) : m.start <= index /\ index < m.end})
=============================================================================
