-------------------------------- MODULE Sync --------------------------------
(***************************************************************************)
(* The sync protocol of automerge/sync.go and internal/sync between two    *)
(* peers, each a Document of module Document used through AutoCommit.      *)
(* sync[r] is r's intsync.State for the other peer; chan[r] holds the      *)
(* messages on their way to r, in order.  A message carries its heads,     *)
(* need, have, capabilities and a payload: the hashes of the changes it    *)
(* serialises (kind "changes"), of the whole document Save encodes (kind   *)
(* "doc": the changes the receiver's LoadWithOptions of the Save bytes    *)
(* yields, computed at the sender since both are functions of the bytes), *)
(* or nothing ("none").                                                    *)
(*                                                                         *)
(* A nil pointer field of the State is the empty set, a set pointer S is   *)
(* {S} (Nil and Some below), since the code tells nil and empty apart.     *)
(* SentHashes is written but never read and is left out.  A bloom filter   *)
(* is the set of hashes added to it; ContainsHash also answers yes for the *)
(* hashes in FalsePositive whenever the filter is not empty.               *)
(***************************************************************************)
EXTENDS Integers, Sequences, FiniteSets, SequencesExt

CONSTANTS
  Peer, Actor, ActorOf, Hash, Key, Mutation,
  MaxQueue,       \* as in Document: bound on a queue plus the batch applied
  MaxLog,         \* as in Document: bound on an op log
  MaxChan,        \* bound on the messages in flight towards one peer
  FalsePositive,  \* hashes every non-empty bloom filter reports as present
  Lossy,          \* whether the transport may lose a message
  Restarts        \* whether a peer may persist and reload its sync state

ASSUME Cardinality(Peer) = 2

VARIABLES graph, oplog, queue, tx, last, universe, delivered, result, cache, sync, chan

docVars == <<graph, oplog, queue, tx, last, universe, delivered, result, cache>>
vars == <<docVars, sync, chan>>

D  == INSTANCE Document WITH Replica <- Peer, MaxMuts <- 1, MaxBatch <- 0
CG == INSTANCE ChangeGraph WITH MaxSeq <- 0, MaxOpBound <- 0

Other(r) == CHOOSE o \in Peer : o # r

Nil == {}
Some(x) == {x}
Val(o) == CHOOSE x \in o : TRUE

\* the capabilities GenerateSyncMessage advertises
Caps == {"V1", "V2"}

\* NewState, and DecodeState(Encode(s)): only SharedHeads survive and
\* TheirHave becomes a non-nil empty list
NewState == [shared |-> {}, lastSent |-> {}, theirHeads |-> Nil, theirNeed |-> Nil,
             theirHave |-> Nil, inFlight |-> FALSE, responded |-> FALSE, theirCaps |-> Nil]
Decoded(st) == [NewState EXCEPT !.shared = st.shared, !.theirHave = Some({})]

SupportsV2(st) == st.theirCaps # Nil /\ "V2" \in Val(st.theirCaps)

SendDoc(st) ==
  /\ st.theirHeads # Nil /\ st.theirCaps # Nil
  /\ Val(st.theirHeads) = {}
  /\ SupportsV2(st)

\* BloomFromHashes / ContainsHash
Bloom(hashes) == Range(hashes)
BloomContains(bloom, h) == h \in bloom \/ (bloom # {} /\ h \in FalsePositive)

\* GetHashesFromHeads(Heads()): every change of the document, dependencies first
AllHashes(r) == CG!GetHashesFromHeads(graph[r], graph[r].headSet).out

\* makeHave: a bloom of the closure of lastSync, or of everything
MakeHave(r, lastSync) ==
  LET res == CG!GetHashesFromHeads(graph[r], lastSync)
  IN  [lastSync |-> lastSync,
       bloom |-> Bloom(IF res.err # "ok" \/ lastSync = {} THEN AllHashes(r) ELSE res.out)]

\* Mutant: queued hashes are not filtered out of the need
MissingDepsKeepQueued(r, heads) ==
  LET q == queue[r]
      wanted == UNION {universe[q[i]].deps : i \in DOMAIN q} \cup heads
  IN  {h \in wanted : ~CG!HasChange(graph[r], h)}

\* getMissingDeps: deps of queued changes and heads we lack, minus the queued
MissingDeps(r, heads) ==
  LET q == queue[r]
      wanted == UNION {universe[q[i]].deps : i \in DOMAIN q} \cup heads
  IN  {h \in wanted : ~CG!HasChange(graph[r], h)} \ Range(q)

\* Mutant: what they need is only sent if their bloom misses it
HashesToSendBloomOnly(r, have, need) ==
  SetToSortSeq({h \in Range(AllHashes(r)) :
                  ~\E hv \in have : BloomContains(hv.bloom, h)}, <)

\* getHashesToSend: what they need, and what no bloom of theirs contains
HashesToSend(r, have, need) ==
  SetToSortSeq({h \in Range(AllHashes(r)) :
                  h \in need \/ ~\E hv \in have : BloomContains(hv.bloom, h)}, <)

\* the changes of LoadWithOptions(Save(), OnPartialIgnore), in AllChanges order
LoadedChanges(l) == CG!GetHashesFromHeads(l.graph, l.graph.headSet).out

DocPayload(r) == LoadedChanges(D!LoadWith(D!SaveBytes(r), TRUE))

\* the choice between the changes to send, a whole document and nothing
ChangesPayload(r, st, send) ==
  IF send = <<>> THEN [kind |-> "none", hashes |-> <<>>]
  ELSE IF Len(AllHashes(r)) > 0 /\ Len(send) > Len(AllHashes(r)) \div 3 /\ SupportsV2(st)
  THEN [kind |-> "doc", hashes |-> DocPayload(r)]
  ELSE [kind |-> "changes", hashes |-> send]

\* the payload decision of GenerateSyncMessage
Payload(r) ==
  LET st == sync[r]
  IN  IF SendDoc(st) THEN [kind |-> "doc", hashes |-> DocPayload(r)]
      ELSE IF st.theirHave # Nil /\ st.theirNeed # Nil
      THEN ChangesPayload(r, st, HashesToSend(r, Val(st.theirHave), Val(st.theirNeed)))
      ELSE [kind |-> "changes", hashes |-> AllHashes(r)]

\* the message GenerateSyncMessage builds around payload p
Message(r, p) ==
  LET st == sync[r]
  IN  [heads |-> graph[r].headSet,
       need  |-> MissingDeps(r, IF st.theirHeads = Nil THEN {} ELSE Val(st.theirHeads)),
       have  |-> {MakeHave(r, st.shared)},
       caps  |-> Caps] @@ p

\* the silencing rule: GenerateSyncMessage returns nil when its payload is p
SilencedBy(r, p) ==
  LET st == sync[r]
      ours == graph[r].headSet
  IN  /\ st.lastSent = ours
      /\ st.responded
      /\ \/ st.theirHeads # Nil /\ Val(st.theirHeads) = ours /\ p.kind = "none"
         \/ st.inFlight

Silenced(r) == SilencedBy(r, Payload(r))

-----------------------------------------------------------------------------
Init ==
  /\ D!Init
  /\ sync = [r \in Peer |-> NewState]
  /\ chan = [r \in Peer |-> <<>>]

\* a local edit through AutoCommit
LocalEdit(r, m) == D!AutoCommit(r, m) /\ UNCHANGED <<sync, chan>>

\* GenerateSyncMessage returning a message, which is sent; Save may fill its cache
CanGenerate(r) == ~Silenced(r) /\ Len(chan[Other(r)]) < MaxChan

Generate(r) ==
  \E p \in {Payload(r)} :
  /\ ~SilencedBy(r, p)
  /\ Len(chan[Other(r)]) < MaxChan
  /\ chan' = [chan EXCEPT ![Other(r)] = Append(@, Message(r, p))]
  /\ sync' = [sync EXCEPT ![r].responded = TRUE,
                          ![r].lastSent = graph[r].headSet,
                          ![r].inFlight = TRUE]
  /\ cache' = IF p.kind = "doc" THEN D!SaveCache(r) ELSE cache
  /\ UNCHANGED <<graph, oplog, queue, tx, last, universe, delivered, result>>

\* Mutant: the shared heads are taken from the message without intersecting
ReceiveNoIntersect(r) ==
  LET m  == Head(chan[r])
      st == [sync[r] EXCEPT !.inFlight = FALSE, !.theirHeads = Some(m.heads),
                            !.theirNeed = Some(m.need), !.theirHave = Some(m.have),
                            !.theirCaps = Some(m.caps)]
  IN
  /\ chan[r] # <<>>
  /\ chan' = [chan EXCEPT ![r] = Tail(@)]
  /\ IF m.kind = "none"
     THEN /\ sync' = [sync EXCEPT ![r] = [st EXCEPT !.shared = m.heads]]
          /\ UNCHANGED docVars
     ELSE /\ D!ApplyChanges(r, m.hashes)
          /\ sync' = [sync EXCEPT ![r] =
                        IF result'[r].err = "ok" THEN [st EXCEPT !.shared = m.heads] ELSE st]

\* Mutant: the shared heads are our heads after applying the message
ReceiveOwnHeads(r) ==
  LET m  == Head(chan[r])
      st == [sync[r] EXCEPT !.inFlight = FALSE, !.theirHeads = Some(m.heads),
                            !.theirNeed = Some(m.need), !.theirHave = Some(m.have),
                            !.theirCaps = Some(m.caps)]
  IN
  /\ chan[r] # <<>>
  /\ chan' = [chan EXCEPT ![r] = Tail(@)]
  /\ IF m.kind = "none"
     THEN /\ sync' = [sync EXCEPT ![r] = [st EXCEPT !.shared = graph[r].headSet]]
          /\ UNCHANGED docVars
     ELSE /\ D!ApplyChanges(r, m.hashes)
          /\ sync' = [sync EXCEPT ![r] =
                        IF result'[r].err = "ok" THEN [st EXCEPT !.shared = graph'[r].headSet] ELSE st]

\* Mutant: ReceiveSyncMessage leaves InFlight set
ReceiveKeepInFlight(r) ==
  LET m  == Head(chan[r])
      st == [sync[r] EXCEPT !.theirHeads = Some(m.heads),
                            !.theirNeed = Some(m.need), !.theirHave = Some(m.have),
                            !.theirCaps = Some(m.caps)]
  IN
  /\ chan[r] # <<>>
  /\ chan' = [chan EXCEPT ![r] = Tail(@)]
  /\ IF m.kind = "none"
     THEN /\ sync' = [sync EXCEPT ![r] = [st EXCEPT !.shared = graph[r].headSet \cap m.heads]]
          /\ UNCHANGED docVars
     ELSE /\ D!ApplyChanges(r, m.hashes)
          /\ sync' = [sync EXCEPT ![r] =
                        IF result'[r].err = "ok"
                        THEN [st EXCEPT !.shared = graph'[r].headSet \cap m.heads]
                        ELSE st]

(***************************************************************************)
(* ReceiveSyncMessage: clear InFlight and absorb the message's fields,     *)
(* apply the payload's changes (Load of a document payload yields its      *)
(* changes in the same order), and only if that succeeds record the       *)
(* shared heads.                                                            *)
(***************************************************************************)
Receive(r) ==
  LET m  == Head(chan[r])
      st == [sync[r] EXCEPT !.inFlight = FALSE, !.theirHeads = Some(m.heads),
                            !.theirNeed = Some(m.need), !.theirHave = Some(m.have),
                            !.theirCaps = Some(m.caps)]
  IN
  /\ chan[r] # <<>>
  /\ chan' = [chan EXCEPT ![r] = Tail(@)]
  /\ IF m.kind = "none"
     THEN /\ sync' = [sync EXCEPT ![r] = [st EXCEPT !.shared = graph[r].headSet \cap m.heads]]
          /\ UNCHANGED docVars
     ELSE /\ D!ApplyChanges(r, m.hashes)
          /\ sync' = [sync EXCEPT ![r] =
                        IF result'[r].err = "ok"
                        THEN [st EXCEPT !.shared = graph'[r].headSet \cap m.heads]
                        ELSE st]

\* the transport drops the next message towards r
Lose(r) ==
  /\ Lossy
  /\ chan[r] # <<>>
  /\ chan' = [chan EXCEPT ![r] = Tail(@)]
  /\ UNCHANGED <<docVars, sync>>

\* r saves its sync state with Encode and continues from DecodeState
Restart(r) ==
  /\ Restarts
  /\ sync' = [sync EXCEPT ![r] = Decoded(@)]
  /\ UNCHANGED <<docVars, chan>>

Next ==
  \E r \in Peer :
    \/ \E m \in Mutation : LocalEdit(r, m)
    \/ Generate(r)
    \/ Receive(r)
    \/ Lose(r)
    \/ Restart(r)

\* the next message towards r leaves the channel: handed to
\* ReceiveSyncMessage, or dropped by a lossy transport
Take(r) == chan[r] # <<>> /\ chan' = [chan EXCEPT ![r] = Tail(@)]

(***************************************************************************)
(* The application keeps calling GenerateSyncMessage until it returns nil, *)
(* and the transport hands every message on (or, lossy, drops it): weak   *)
(* fairness of both.  Every step that takes a message off chan[r] is a    *)
(* Receive(r) or a Lose(r), so WF_chan(Take(r)) is weak fairness of their *)
(* union.  Generate's is written with its enabling condition, since TLC   *)
(* cannot evaluate ENABLED Generate(r) (which builds the payload) at a    *)
(* useful speed: Generate(r) is enabled exactly when CanGenerate(r).       *)
(***************************************************************************)
Fairness ==
  \A r \in Peer :
    /\ ([]<>~CanGenerate(r) \/ []<><<Generate(r)>>_vars)
    /\ WF_chan(Take(r))

Spec == Init /\ [][Next]_vars /\ Fairness
-----------------------------------------------------------------------------
HashSets == SUBSET Hash
OptHashes == {Nil} \cup {Some(S) : S \in HashSets}

TypeOK ==
  /\ D!TypeOK
  /\ \A r \in Peer :
       /\ sync[r].shared \subseteq CG!HashSet(graph[r])
       /\ sync[r].lastSent \in HashSets
       /\ sync[r].theirHeads \in OptHashes /\ sync[r].theirNeed \in OptHashes
       /\ sync[r].inFlight \in BOOLEAN /\ sync[r].responded \in BOOLEAN
       /\ Len(chan[r]) <= MaxChan
       /\ Len(oplog[r]) < MaxLog
       /\ Len(queue[r]) + Cardinality(Hash) <= MaxQueue
       /\ \A i \in DOMAIN chan[r] : chan[r][i].kind \in {"none", "changes", "doc"}

\* both GenerateSyncMessage calls return nil and nothing is on the wire
Quiet == \A r \in Peer : chan[r] = <<>> /\ Silenced(r)

Synced == \A r, o \in Peer : graph[r].headSet = graph[o].headSet

(***************************************************************************)
(* Once both peers' GenerateSyncMessage return nil and no message is in    *)
(* flight, the documents have the same heads: the silencing rule of        *)
(* sync.go:93-103 never stops a peer that still lacks a change (the S5     *)
(* scenario "sync until msg == null twice, then heads are identical").     *)
(***************************************************************************)
QuietMeansSynced == Quiet => Synced

(***************************************************************************)
(* Every shared head a peer records is a change both documents hold, over  *)
(* a transport that loses messages and across restarts: ReceiveSyncMessage *)
(* intersects our heads with the message's heads only after applying it    *)
(* (sync.go:160), and makeHave builds the bloom from the closure of these  *)
(* heads.                                                                   *)
(***************************************************************************)
SharedHeadsCommon ==
  \A r \in Peer : sync[r].shared \subseteq CG!HashSet(graph[Other(r)])

(***************************************************************************)
(* Sync terminates: the peers eventually both get nil from                 *)
(* GenerateSyncMessage with nothing in flight, as S5 "run sync round-trips *)
(* until msg == null twice" presumes.                                      *)
(***************************************************************************)
EventuallyQuiet == <>Quiet

-----------------------------------------------------------------------------
(***************************************************************************)
(* The refinement mapping to ChangeExchange: the changes made are the      *)
(* universe with their deps, and a peer holds the changes in its graph    *)
(* (a queued change is not held yet).                                      *)
(***************************************************************************)
CE == INSTANCE ChangeExchange
        WITH deps <- [h \in DOMAIN universe |-> universe[h].deps],
             have <- [p \in Peer |-> CG!HashSet(graph[p])]

(***************************************************************************)
(* Sync implements the safety of ChangeExchange, over a lossy transport   *)
(* and across restarts: an AutoCommit edit depends on every head of its   *)
(* document (dependenciesForActorSeq), and a ReceiveSyncMessage (through   *)
(* ApplyChanges, or LoadWithOptions for a document payload) only ever adds *)
(* to the graph changes the other peer holds, with their dependencies.    *)
(***************************************************************************)
ExchangeSafety == CE!Safety

(***************************************************************************)
(* Sync implements ChangeExchange with its liveness: under the fairness of *)
(* Spec the peers end up holding the same changes (the S5 scenario).       *)
(***************************************************************************)
ExchangeSpec == CE!Spec
=============================================================================
