# TLA+ models of automerge-native-go

These modules model the Go implementation under `src/`, an Automerge-style
CRDT document library. A document is a content-addressed DAG of changes plus
an operation set that those changes were applied to. Documents exchange changes
with `ApplyChanges`, `Merge` or the sync protocol. `PROJECT.json` lists every
component, each run, the mutants, the line map from definitions to source, the
findings and the hazards.

## The system

| Part | Source | State | Operations |
|---|---|---|---|
| change graph | `internal/changegraph/graph.go`, `clock.go` | `nodes`, `byHash`, `byActor`, `headSet`, `maxOp` | `AddChange` (checks: exists, actor seq, unknown dep), `GetHashesFromHeads` (DFS post-order), `ClockForHeads`, `Validate` |
| op set | `internal/opset/opset.go` | `ops` (log of op records with `pred`), `current` (materialised view), `objects` | `PutMap`, `DeleteMap`, `IncrementMapCounter`, list/text/mark ops; reads `GetMap`, `GetAllMap` by replaying the log under a clock |
| document | `automerge/document.go` | `graph`, `ops`, `changes`, `queue`, `open`, `last`, `actor`, save cache | `Begin`, reads at heads, `SetActor` |
| transaction | `automerge/transaction.go` | checkpoint (`seq`, `startOp`, `deps`), staged mutations, `closed` | stage `Put`/`DeleteMap`/`Increment`/…, `CommitWith`, `Rollback` |
| ingest | `automerge/apply.go` | the document's `queue` | `ApplyChanges`: admit, drain the queue, topological order, `applyOneChange` |
| AutoCommit | `automerge/autocommit.go` | a document | Begin, one mutation (a refused `Mark` range is rolled back), Commit |
| sync | `automerge/sync.go`, `internal/sync/*` | per-peer `State` (shared heads, their heads/need/have, `InFlight`, `SentHashes`) | `GenerateSyncMessage`, `ReceiveSyncMessage`, bloom filter, state encode/decode |
| storage | `automerge/storage.go`, `internal/storage/*` | save cache, `legacyRaw` | `Save`, `Load`, byte codecs |
| diff | `automerge/patch.go`, `autocommit.go` | the AutoCommit's `diffCursor` | `Diff`, `DiffObj` (recursive `diffMap`), `DiffIncremental`, `UpdateDiffCursor`, `ResetDiffCursor` |
| cursors | `automerge/cursor.go`, `internal/text/indexing.go` | a `Cursor` the client holds (anchor OpID, side, fallback rune) | `CursorForText`, `ResolveTextCursor`, rune/UTF-16 `ConvertIndex` |

How they interact. A transaction reads its checkpoint from the graph at
`Begin`. At commit it applies each mutation to the op set with OpID
`startOp + offset`, then hashes the change and adds it to the graph. Ingest
applies a remote change's operations to the op set with the same op set calls
and then adds the change to the graph. A change whose deps are missing waits in
the queue. The op set keeps no per-change record: a read at some heads turns
the heads into a clock (actor ↦ largest `maxOp` in their closure) and replays
the op records whose counter the clock covers. Sync and Load both end in
`ApplyChanges`.

What is hard:
- The order in which concurrent changes reach each document.
- Failures in the middle of a multi-step handler: commit, and the ingest loop.
- A checkpoint that goes stale while a transaction is open.
- The queue, which is only drained by later calls.
- Lost or repeated sync messages and bloom false positives.

## Modules

- **ChangeGraph.tla**: a graph as a record value `[nodes, headSet, maxOp]`.
  `byHash` and `byActor` are derived from `nodes`. `AddChange` keeps the
  code's three checks in order. `Dfs`/`DfsAll` are the recursive closure.
  `ClockOf`/`ClockForHeads` and `Validate` translate their functions check by
  check. A small state machine adds arbitrary metadata, both well-formed and
  not, so that `Validate` and the closure can be checked on their own.
- **OpSet.tla**: the op log as a sequence of records
  `[kind, obj, key, index, value, id, pred]`, for the root map and for the
  list and text objects under it.
  - `Materialize(log, clock)` is `materialize`/`applyRecord`. The `current`
    map is `Materialize(log, NoClock)`, because `applyRecordToCurrent` runs the
    same map branches on every record.
  - `PutMap` and `DeleteMap` take `pred` from the visible versions.
    `IncrementMapCounter` fails unless the winner is a counter.
  - Values are `[t |-> "str" | "counter", v]`, or `[t |-> "list" | "text",
    v |-> objID]` for an object. An object's ID is the OpID of the put that
    created it, and `ObjectsOf(log)` is the code's `objects` map, because
    `CreateObject` always goes with that put.
  - `AddMark` appends a mark record (`key` holds the name, `index` and `end`
    the range) to a text object. It refuses `start < 0` or `end < start` and
    never compares the range with the text's length. `Materialize` keeps each
    text's marks as a set. `Marks` and `MarksAtIndex` read them; per name the
    mark with the larger OpID wins (`LatestPerName`). The code's sorting only
    orders the output.
  - `InsertList` and `DeleteList` record only an index and no `pred`.
    They, and `SpliceText`, refuse a negative index or delete count
    (`ErrInvalidIndex`); the runs never stage one.
    `applyRecord` inserts at the index unless it is past the end, and deletes
    there unless there is no entry. `SpliceText` is `deleteCount` deletes at
    the index, then one insert per rune at `index`, `index+1`, …, with
    counters `startSeq+1`, …. `ListRange` is the winner of each entry, and
    `Text` is their concatenation. `EnsureType` gives `ErrUnknownObject` or
    `ErrWrongObjectType`.
- **Document.tla**: several documents side by side.
  - Each replica `r` has `graph[r]`, `oplog[r]`, `queue[r]`, `tx[r]` (the open
    transaction, with its checkpoint and staged mutations) and `last[r]`.
  - `universe` maps every committed change's hash to its content. It is what
    any document can be handed, and it also stands for the hash function: an
    identical content gets its old hash, and a new content gets any unused
    hash from `Hash`, so every relative order of hashes is explored.
  - Actions: `Begin`, `Stage` (`Put`, `PutObject`, `Insert`, `DeleteMap`,
    `DeleteList`, `Increment`, `SpliceText`; an empty splice stages nothing),
    `Commit` (the
    whole of `CommitWith`, error paths included), `Rollback`,
    `AutoCommit(r, m)` (Begin, one mutation, Commit, with no rollback after a
    failed Commit), `ApplyChanges(r, batch)` and `Merge(r, o)`
    (`getChangesAdded`, the stack walk from the other document's heads,
    then `ApplyChanges`).
  - A list mutation names the key of its object. When it is staged, its
    object is any list or text ever put at that key in the op set, or one that
    `PutObject` returned earlier in the same transaction
    (`nextOpIDForNextMutation`). These are the ObjIDs a caller can hold.
  - `CommitWith` gives mutation i the OpID `startOp` + the op counts of the
    mutations before it, where a splice counts one op per deleted and
    inserted rune. `maxOp` is `startOp` + the total - 1. A change operation
    is applied as `applyChangeOperation` does it: a splice restarts
    `SpliceText` from its counter - 1.
  - A batch is any sequence, up to `MaxBatch` long, of known hashes, so it
    covers `Merge`, sync payloads, repeats and out-of-order delivery.
  - `ApplyChanges` is the whole handler: `Admit` (with the
    `ErrDuplicateSeqNumber` early return), `Drain` (`popNextCausallyReady`:
    first ready entry, swap-remove), `TopoOrder` (Kahn with the smallest hash
    first, falling back to hash order) and `ApplyAll`/`ApplyOneChange` (ops
    first, then `AddChange`; stop at the first error).
  - `cache[r]` is the save cache. `Save` fills it only while the queue is
    empty. `applyOneChange` and a successful commit clear it
    (`clearLegacyRaw`).
  - `SaveOf`/`SaveBytes` are the saved bytes: the document chunk
    (`AllChanges` order) followed by one chunk per queued change.
    `LoadChunks` is `LoadWithOptions`: an `Ingest` of each chunk into an
    empty document, the `OnPartialLoad` choice, then `Validate`.
    `SaveAfterOf` and `LoadIncremental` follow `SaveAfter` and
    `LoadIncremental`.
  - `delivered` and `result` are history variables for the properties.
  - `Spec` drives the transaction API. `SpecAuto` drives documents used
    through AutoCommit that exchange changes, merge, save and load
    incrementally.
  - A heavy intermediate value is passed as an operator parameter or bound
    with `\E x \in {...}`, never named in a LET that is used several times.
    This is the same value, and it keeps TLC's coverage pass linear.
- **Sync.tla**: two peers, each a `Document` (by `INSTANCE`) used through
  AutoCommit, a per-peer sync `State` and a FIFO channel towards each peer.
  - `Generate(r)` is `GenerateSyncMessage`:
    - `Payload`: a document payload if `SendDoc`, else the hashes to send
      (`getHashesToSend` against their have/need, or the whole document
      when that is over a third and V2 is supported), else the
      handshake's every change;
    - the silencing rule (`SilencedBy`: nil when the heads are unchanged,
      it has responded, and either the heads are equal with nothing to
      send or a message is in flight);
    - the `State` updates, and `Save`'s cache for a document payload.
  - `Receive(r)` is `ReceiveSyncMessage`. It clears `InFlight`, absorbs the
    fields and applies the payload with `ApplyChanges`. It records the
    shared heads (ours ∩ theirs) only if the apply succeeds.
  - `Lose` (when `Lossy`) drops a message. `Restart` (when `Restarts`)
    replaces the state by `DecodeState(EncodeState(...))`, which keeps only
    the shared heads.
  - Bloom filters are sets, and `FalsePositive` lists the hashes every
    non-empty filter also reports.
- **Patch.tla**: extends Document with each AutoCommit's `cursor` and a
  consumer `view`.
  - `Diff(r, before, after)` is `Diff`/`DiffObj`. `ClockFromHeads` maps no
    heads to the empty clock, `MapSnapshot` is `mapSnapshot` (IterMap),
    `KeyPatches` is diffMap's switch per key, `ChildPatches` its recursion
    into the same child object, and `DiffSeq` the text/list branches of
    `diffObjAt` (text is its sequence of one-character values).
  - `DiffIncremental`, `UpdateDiffCursor` and `ResetDiffCursor` are the
    AutoCommit methods.
  - `view` is a ghost: a consumer that applies every DiffIncremental patch
    (`ApplyPatch`), reads the document when the cursor is moved without
    patches, and starts empty after a reset. It knows a child object's
    content only once a TextSplice or ListReplace has told it, because
    diffMap reports a new object by its ID alone.
  - `SpecPatch` is `SpecAuto` plus the cursor actions.
- **ChangeExchange.tla**: the abstract specification of sync, with no
  messages or sync state. `deps` records every change made and `have[p]` the
  changes peer `p` holds. `Edit(p)` adds a new change whose deps include
  every head `p` holds. `Transfer(p)` adds a set of the other peer's
  changes, keeping `have[p]` causally closed. `Converges` says the peers
  eventually hold the same changes for good. Sync.tla instantiates it as `CE`
  with the refinement mapping `deps <- universe's deps`,
  `have <- the hashes of each graph`. A queued change is not held yet.
  `ExchangeSafety` (`CE!Safety`) and `ExchangeSpec` (`CE!Spec`) are the
  refinement properties.
- **TextIndex.tla**: `internal/text/indexing.go`. A string is a sequence
  of runes, and a rune counts only by its UTF-16 width (`Units`: 2 for a
  rune in `Astral`, above U+FFFF, else 1). `UTF16IndexToRune`'s loop is the
  recursive `UTF16IndexToRuneLoop`. `RuneAtOrAfterUnit` is the reference
  definition it is checked against: the first rune boundary at or after a
  code-unit index.
- **Cursor.tla**: `automerge/cursor.go` over one text object, which
  `AutoCommit.SpliceText` edits through the OpSet (`SpliceTextCommit`, one
  committed change per splice, its ops numbered after `maxOp`).
  `MakeCursor` is `CursorForText` at the current heads, and
  `ResolveTextCursor` is read in the properties. A remote splice merged in
  replays the same OpSet calls, so a single document shows every way the
  cursor's text can change.
  - `anchor` is a ghost variable: the spec's cursor (section 4.8, property
    9). It follows each splice by index arithmetic (`AfterSplice`): the
    0-based position of the anchored element, or its death. It is never
    computed by searching OpIDs, which is what the code does.
  - Property 9 speaks of the net change "at positions ≤ r". The code
    anchors after element r-1, so an insert at index r goes after the
    anchor and does not move the cursor. Only at r = 0, where the cursor
    anchors before the first element, does an insert at r move it. The
    ghost follows the anchored element, which is the reading the code and
    section 4.8 give, and what `TestTextCursorTracksSequencePositions`
    expects.
- **MCChangeGraph.tla**, **MCDocument.tla**, **MCSync.tla**, **MCPatch.tla**:
  the constants for TLC (mutation sets, actor assignment).

## Runs

| Run | Cfg | Expect | What it shows |
|---|---|---|---|
| changegraph | MCChangeGraph.cfg | pass | `GraphValid`: after any sequence of `AddChange` calls, accepted or rejected, `Validate` holds. `ClosureDependencyFirst`: `GetHashesFromHeads` of every set of known heads lists the reachable set exactly once, each change after its deps. |
| doc_honest | MCDocument_honest.cfg | pass | Two documents with distinct actors put and delete one key, and exchange changes in every order and by `Merge`. `LogMatchesGraph`: the op log holds exactly the ops of the graph's changes, each once. `ReadAtHeadsMatchesCurrent`: a read at the current heads (`GetMapAt`) equals the current read. `QueueSettled`: after a successful `ApplyChanges` no queued change is ready. `NoLostChange`: a change handed to a successful call is in the graph or the queue, whatever later calls do. `IngestNeverFails`. |
| convergence | MCDocument_convergence.cfg | violation | `Convergence` fails: two documents with the same two concurrent puts show different values, because a remote put's `pred` is recomputed at the receiver (`opset.go:101`). The same cause makes a remote increment fail on a string the receiver let win. |
| list_convergence | MCDocument_list_convergence.cfg | violation | `ListConvergence` fails. One document creates a list, and both documents then insert at index 0 concurrently. After the exchange, both hold the same three changes, but one document shows `[b, a]` and the other `[a, b]`. List ops are positional: a remote insert is replayed at its index against the receiver's list (`opset.go:520`). |
| doc_storage | MCPatch_storage.cfg | pass | Two AutoCommit documents create a text object at the key, splice two characters into it, or mark its first character bold, and exchange, merge, save and load incrementally. `SaveCacheFresh`: a cached save always equals what `Save` would compute now. `LoadRestoresSave`: loading what `Save` returns gives back the same changes, heads and queued changes. `LogMatchesGraph`: the ops a splice adds carry exactly the OpIDs `startOp..maxOp` its change declares. `ReadAtHeadsMatchesCurrent`: `TextAt` the current heads sees every character, which holds only if the clock's `maxOp` covers the splice's last op. `ViewMatchesCursor`: a consumer applying every `DiffIncremental` patch holds the root map at the cursor's heads and the content there of every child object it was told about and still reaches. This holds because the op log is append-only and the clock of old heads still covers exactly the ops applied then, whatever merges, loads and splices came since. It also needs `clockFromHeads` to read nil heads as the empty document (`Document.ClockForHeads` reads them as the current heads). |
| text_cursor | MCCursor.cfg | pass | `CursorTracksEdits`: a cursor made at any rune or UTF-16 index of a text keeps resolving, in runes and in code units, to where the ghost says it is. After any splices, that is just after the element it anchored (at it, for index 0). Once that element is deleted, it is the fallback rune index clamped to the text. `IndexConversionRoundTrip`: on every reachable text, a rune index goes to UTF-16 and back unchanged. A UTF-16 index, including one inside a surrogate pair, goes to the first rune boundary at or after it. |
| load_fails | MCDocument_load_fails.cfg | violation | `LoadRestoresSave` fails with counters: `Load` re-applies the saved changes in topological order (smallest hash first), the recomputed `pred` gives the increment a string winner, and `Load` returns `ErrPartialLoad` on bytes `Save` produced (`storage.go:234`). |
| incremental_load | MCDocument_incremental.cfg | violation | `IncrementalLoadComplete` fails: `LoadIncremental` of `SaveAfter(heads)`, into a document that holds those heads, adds none of the changes that depend on the base. It loads them into a fresh document first, where they stay queued (`storage.go:289`). |
| sync_safety | MCSync_safety.cfg | pass | With reliable FIFO channels, false-positive blooms and state restarts, `QuietMeansSynced`: when both peers are silent and no message is in transit, they hold the same changes. |
| sync_live | MCSync_live.cfg | pass | `ExchangeSpec`: Sync implements `ChangeExchange!Spec`. Under weak fairness of generate and receive, and with blooms reporting a false positive, every step is an edit on top of the author's heads or a transfer of a closed set of the other peer's changes, and the peers end up holding the same changes for good. |
| sync_lossy | MCSync_lossy.cfg | pass | `SharedHeadsCommon`: even with lost messages and restarts, the shared heads a peer records are always changes the other peer holds. `ExchangeSafety`: every step refines `ChangeExchange`'s next-state relation. An edit depends on every head of its document, and a received message adds to the graph only closed sets of the other peer's changes. A `dependenciesForActorSeq` that drops the heads breaks it. |
| sync_lost | MCSync_lost.cfg | violation | `QuietMeansSynced` fails once a message can be lost: `InFlight` stays set, both peers return nil forever and they never converge (`sync.go:100`). |

Every property of a passing run has a mutant in `PROJECT.json`: a plausible bug
in the mapped code that TLC shows the property catches. Examples:
- a pre-order DFS;
- a splice counted as one op, or started from its own counter instead of
  counter - 1;
- the clock observing `seq` instead of `maxOp`;
- the drain testing readiness against the graph alone;
- the apply loop without its `hasChange` skip;
- `applyOneChange` without `clearLegacyRaw`;
- `Save` without the orphan chunks;
- `Receive` that leaves `InFlight` set, or records its own heads as shared;
- `getHashesToSend` that ignores the peer's need;
- `clockFromHeads` that reads nil heads as the current heads (the mutant breaks `ViewMatchesCursor` at the first `DiffIncremental`);
- `cursorForText` anchoring `ids[runeIndex]` instead of `ids[runeIndex-1]`;
- `UTF16IndexToRune` testing `units > index` instead of `>=`.

### Bounds

- changegraph: 3 hashes, 2 actors, seq ≤ 2, maxOp ≤ 2. This covers every
  accepted and rejected `AddChange` on graphs of up to three nodes,
  including diamonds and both head orders.
- doc_honest: 2 documents, 2 hashes (so at most two changes in total), one
  key, and the mutations `Put "a"` and `DeleteMap`. One mutation per
  transaction, batches of ≤ 2, queue ≤ 2, op log ≤ 3.
  - Two changes are enough for each interesting case: concurrent changes from
    both documents, a chain delivered backwards (queued, then drained), and a
    change delivered twice in one batch.
  - Three hashes exceed a million states without finishing.
- doc_storage has the same bounds under `SpecPatch` (`SpecAuto` plus the
  diff cursor), with the text mutations: create the text, splice in two characters, and mark
  `[0, 1)` bold (`AutoCommit.Mark`). A splice adds two ops, so an op log of 3
  holds the text and one splice, or the text and the mark. Every subset of a document's changes is tried as the heads of a
  `SaveAfter`. With 3 hashes and a log of 3, the run takes over three
  minutes. With the cursor, the consumer and the mark it takes about three and
  a half minutes for 141k states.
- text_cursor: the runes `a` (one code unit) and `U` (two), splices at
  0..3 deleting up to 2 and inserting up to 2 runes, at most 5 ops, texts of
  at most 3 runes, and cursors made at -1..5 in either encoding. Five ops allow
  a text of two or three runes to be made and then edited around a cursor,
  including deleting its anchor. Index 5 is past the end of every text in
  runes, and inside or past it in code units. 84k states in about 40 s. With
  6 ops the run reaches 1.1M states in about 7 minutes and also passes.
- list_convergence: 3 hashes (create, two concurrent inserts) and an op log
  of 3.
- The violation runs use the same bounds, with the mutation sets that reach
  the behaviour. load_fails uses 3
  hashes: counter, concurrent string, increment.
- Sync: 2 peers, 2 hashes, one put mutation, op log ≤ 3, queue ≤ 4.
  - At most one message is in transit per direction for the safety runs.
    With two, lossy and restart runs take minutes.
  - sync_live uses two messages per direction, because liveness needs
    messages that overtake a new edit.
- `MaxLog` and `MaxQueue` guard `Commit` and `ApplyChanges`. They are needed
  because a failing commit may be retried forever, and the queue grows with
  every redelivery.
- Deadlock is checked in every safety run. In the transaction model,
  `Begin` or `Rollback` is always enabled. In the sync model, a restart or a
  lost message is always possible there. The liveness run (no restarts, no
  loss) turns deadlock checking off, because two synchronised, silent peers
  really do stop.

### Fairness

`sync_live` assumes weak fairness of each peer's `Generate`, and of taking
the next message off its channel.
This is an application that calls `GenerateSyncMessage` until it returns nil
and hands every received message to `ReceiveSyncMessage`, as the sync tests
and the spec's loop do.
- Delivery is `WF_chan(Take(r))`. Every step that takes a message off
  `chan[r]` is a `Receive(r)`, or a `Lose(r)` when the transport is lossy. In
  sync_live nothing is lost, so this is weak fairness of `Receive`.
- Generate's fairness is written as `[]<>~CanGenerate(r) \/
  []<><<Generate(r)>>_vars`, where `CanGenerate` is its exact enabling
  condition. This is WF. TLC needs minutes per few dozen states to evaluate
  `ENABLED Generate(r)`, which builds the whole payload, so the weak-fairness
  form itself is not used.
- `ChangeExchange` states its liveness directly as `Converges`
  (`<>[]` equal sets), not as fairness of `Transfer`. Under the refinement
  mapping, TLC would have to evaluate `ENABLED` of an abstract action over
  the graphs, which is the same slow computation. Since edits are bounded by
  `Hash`, `Converges` is what weak fairness of `Transfer` would give.
- There is no fairness on local edits, `Lose` or `Restart`, and that run
  disables loss and restarts: a transport that keeps losing messages gives
  no guarantee. sync_lost shows that even one loss stalls the protocol.

## Not modelled, and why

- `MarkBegin`/`MarkEnd` and the open-mark stack of a transaction
  (`ErrMarkNotOpen`, `ErrMarkNotClosed`): exercising them needs a
  transaction run over a text object, and no run has room for one. `Mark`
  itself is modelled. Marks hold absolute positions, so a concurrent
  splice before a mark shifts the text under it. The spec defines marks
  that way, and every replica computes the same shifted marks. The hazard
  list records this, with no property. Nested maps, `InsertObject`
  (objects inside lists), `SetList` and the `*Raw` variants (no caller in the
  document layer) are also left out. `PatchLog` (`Add`, `MakePatches`,
  `DiffToPatchLog`) only copies patches into a list.
- Cursors at old heads (`CursorForTextAt`, `ResolveTextCursorAt`): the ghost
  cursor would have to replay every edit since those heads. Also
  `ClampToGraphemeStart` and `GraphemeStarts`, which nothing in the library
  calls. `Transaction.Insert` of a non-string or multi-rune value into a
  text is left out of the cursor run, because it breaks `CursorTracksEdits`.
  `Text` skips or merges such values while `SequenceElementIDs` counts them.
  While modelling, TLC found this in 3 steps (see the hazard at
  `opset.go:374`), and no run slot is left for that violation.
- Three earlier violations that are not kept as runs. Each needs its own
  configuration of the transaction model:
  - AutoCommit wedge (`autocommit.go:138`, a code bug). `AutoCommit.Increment`
    returns the Commit error without rolling back; it rolls back only when
    staging fails (line 135). The document keeps its transaction open, and
    every later AutoCommit call fails with `ErrTransactionOpen`. The
    constants of `MCDocument_honest.cfg`, with `Mutation <- MutCounter`,
    `SPECIFICATION SpecAuto` and `INVARIANT AutoCommitLeavesNoTx`, violate it
    in one step: an `Increment` on a key that holds no counter. It gave way
    to the cursor run because a unit test reaches it with one call.
  - Partial commit (`transaction.go:212`). `MutCounter` with two mutations
    per transaction under `Spec` violates `LogMatchesGraph` in 4 steps:
    stage a string Put and an Increment, then Commit. The Put is applied,
    the Increment fails, and the Put stays in the op set with no change.
  - Shared actor (`apply.go:31`). Two documents on `NewDocument`'s default
    actor 1 (`ActorOf` mapping both to 1 in the honest configuration,
    checking `LogMatchesGraph` alone) violate `LogMatchesGraph` in 5 steps: a
    transaction begun before the other document's change with the same
    (actor, seq) arrives commits, and `AddChange` rejects it after its op
    was applied.
- Save and load options other than the defaults (no orphans, `OnPartialError`
  on load, deflate), the legacy Rust bytes (`legacyRaw`), and JSON or chunk
  decoding errors. These are byte-level paths that unit tests reach.
- Byte codecs, chunk formats, SHA-256, LEB128 and the sync message and state
  encodings are pure I/O that unit tests round-trip. Hashes are modelled as an
  injective function of the content. The state encoding is modelled by what it
  keeps (`Decoded`).
- The actor map of `ApplyChangesWithActorMap` (a renaming), commit messages and
  times: data that no property tells apart.
- Termination of the sync exchange between two empty documents
  (`EventuallyQuiet` in Sync.tla). TLC shows that they answer each other's
  empty messages forever (`sync.go:48`). No run checks it, since
  `ExchangeSpec` covers the exchanges that carry changes.

## Plan (order of work)

1. Done: ChangeGraph, the OpSet root map with list and text objects,
   Document transactions with op counts, ingest, AutoCommit, Merge,
   save/load and incremental load, and the Sync protocol with loss, restarts
   and false positives.
2. Done: the abstract `ChangeExchange` that `Sync` refines, and the diff
   cursor (`Patch`).
3. Done: `Mark` and the mark reads in OpSet.
4. Done: text cursors and rune/UTF-16 index conversion (`Cursor`,
   `TextIndex`).
5. Next: more of the sync edge cases (the V1 peer, `theirNeed` requests),
   and cursors at old heads.
