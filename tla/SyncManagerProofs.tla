------------------------- MODULE SyncManagerProofs -------------------------
(***************************************************************************)
(* Theorems about SyncManager, for any tree of tipsets, any weights and    *)
(* any limits.  The order of the argument: lemmas on bucket sets, the type *)
(* invariant, the anchoring of pending buckets, the bounds on the number   *)
(* of workers, and the two action properties.                              *)
(***************************************************************************)
EXTENDS SyncManager, FiniteSetTheorems, TLAPS

USE ConstantsAssumption DEF ConstantsAssumption

-----------------------------------------------------------------------------
(* Bucket sets and the buffer.                                             *)

(* Inserting a tipset into a set of buckets gives a set of buckets. *)
LEMMA InsertType ==
    ASSUME NEW B \in SUBSET SUBSET TipSets, NEW ts \in TipSets,
           NEW C \in Insert(B, ts)
    PROVE  C \in SUBSET SUBSET TipSets
BY DEF Insert

(* After an insertion every bucket is an old one, an old one of the chain  *)
(* of ts extended with ts, or, if no bucket was related to ts, {ts}.       *)
LEMMA InsertBuckets ==
    ASSUME NEW B, NEW ts, NEW C \in Insert(B, ts), NEW c \in C
    PROVE  \/ \E b \in B : b \subseteq c
           \/ ~RelatedToAny(B, ts) /\ c = {ts}
BY DEF Insert

(* Pushing a tipset keeps the buffer well formed: its index wraps around. *)
LEMMA PushType ==
    ASSUME NEW r \in [buf : [Slots -> TipSets \cup {NoTs}], next : Slots],
           NEW ts \in TipSets
    PROVE  Push(r, ts) \in [buf : [Slots -> TipSets \cup {NoTs}], next : Slots]
BY DEF Push, Slots

-----------------------------------------------------------------------------
(* The type invariant.                                                     *)

(* Init satisfies the type invariant. *)
LEMMA TypeInit == Init => TypeOK
<1> SUFFICES ASSUME Init PROVE TypeOK
    BY Zenon
<1>1. 0 \in Slots
    BY DEF Slots
<1>2. recent \in [buf : [Slots -> TipSets \cup {NoTs}], next : Slots]
    BY Zenon, <1>1 DEF Init
<1> QED
    BY Zenon, <1>2 DEF Init, TypeOK

(* Every step preserves it. *)
LEMMA TypeStep == TypeOK /\ [Next]_vars => TypeOK'
<1> SUFFICES ASSUME TypeOK, [Next]_vars PROVE TypeOK'
    BY Zenon
<1> USE DEF TypeOK
<1>1. ASSUME NEW p \in Peers, NEW ts \in TipSets, handlePeerHead(p, ts)
      PROVE  TypeOK'
    <2>1. CASE TrackPeerHead(p, ts)
        BY Zenon, <2>1 DEF TrackPeerHead
    <2>2. CASE StartInitialSync(p, ts)
        BY <2>2 DEF StartInitialSync, spawnWorker, selectInitialSyncTarget,
                    heaviestTipSet, trackedHeads
    <2>3. CASE IgnoreTarget(ts)
        BY Zenon, <2>3 DEF IgnoreTarget, vars
    <2>4. CASE QueuePending(ts)
        BY Zenon, <2>4, InsertType DEF QueuePending
    <2>5. CASE QueueDeferred(ts)
        BY Zenon, <2>5, InsertType DEF QueueDeferred
    <2>6. CASE SyncTarget(ts)
        BY <2>6 DEF SyncTarget, spawnWorker
    <2> QED
        BY Zenon, <1>1, <2>1, <2>2, <2>3, <2>4, <2>5, <2>6
           DEF handlePeerHead, addSyncTarget
<1>2. ASSUME NEW w \in Workers, NEW ok \in BOOLEAN, NEW fast \in BOOLEAN,
             handleWorkerStatus(w, ok, fast)
      PROVE  TypeOK'
    <2>1. recent' \in [buf : [Slots -> TipSets \cup {NoTs}], next : Slots]
        BY Zenon, <1>2, PushType DEF handleWorkerStatus
    <2>2. state' \in [Workers -> TipSets \cup {NoTs}]
        BY <1>2 DEF handleWorkerStatus, spawnWorker, heaviestTipSet, PopRelated
    <2>3. initialSyncDone' \in BOOLEAN
        BY Zenon, <1>2 DEF handleWorkerStatus
    <2>4. pend' \subseteq SUBSET TipSets /\ pc' \in {"select", "freed", "rampup"}
        BY Zenon, <1>2 DEF handleWorkerStatus
    <2> QED
        BY Zenon, <1>2, <2>1, <2>2, <2>3, <2>4 DEF handleWorkerStatus
<1>3. CASE handleInitialSyncDone
    BY Zenon, <1>3 DEF handleInitialSyncDone
<1>4. CASE selectDeferredSyncTarget
    <2>1. PICK h \in UNION deferred :
              /\ deferred' \subseteq deferred
              /\ skipDeferred \/ pendDeferred(h) \/ syncDeferred(h)
        BY Zenon, <1>4 DEF selectDeferredSyncTarget, visitWorkers, Pop, heaviestTipSet
    <2>2. CASE skipDeferred
        BY Zenon, <2>1, <2>2 DEF skipDeferred
    <2>3. CASE pendDeferred(h)
        BY Zenon, <2>1, <2>3, InsertType DEF pendDeferred
    <2>4. CASE syncDeferred(h)
        BY <2>1, <2>4 DEF syncDeferred, spawnWorker
    <2> QED
        BY Zenon, <2>1, <2>2, <2>3, <2>4
<1>5. CASE deferredEmpty
    BY Zenon, <1>5 DEF deferredEmpty
<1>6. CASE Stop
    BY Zenon, <1>6 DEF Stop
<1>7. CASE schedulerReturn
    BY Zenon, <1>7 DEF schedulerReturn
<1>8. CASE UNCHANGED vars
    BY Zenon, <1>8 DEF vars
<1> QED
    BY <1>1, <1>2, <1>3, <1>4, <1>5, <1>6, <1>7, <1>8 DEF Next

(* The type invariant holds in every reachable state. *)
THEOREM TypeCorrect == Spec => []TypeOK
BY TypeInit, TypeStep, PTL DEF Spec

-----------------------------------------------------------------------------
(* Pending buckets are anchored.                                           *)

(* One iteration of the deferred loop: some deferred tipset h is dropped,  *)
(* queued behind a running or pending relative, or given to a worker.      *)
LEMMA DeferredCases ==
    ASSUME selectDeferredSyncTarget
    PROVE  \E h \in UNION deferred :
               \/ skipDeferred
               \/ (extendsActive(h) \/ RelatedToAny(pend, h)) /\ pendDeferred(h)
               \/ ~Synced(recent, h) /\ syncDeferred(h)
BY Zenon DEF selectDeferredSyncTarget, visitWorkers, Pop, heaviestTipSet, extendsActive

(* Starting a worker keeps every running one. *)
LEMMA SpawnKeeps ==
    ASSUME TypeOK, NEW ts \in TipSets, spawnWorker(state, ts),
           NEW w \in Workers, state[w] # NoTs
    PROVE  state'[w] = state[w]
BY Zenon DEF TypeOK, spawnWorker

(* A step that keeps the running workers and inserts at most a relative of *)
(* a running or a pending target keeps the buckets anchored.               *)
LEMMA AnchorKept ==
    ASSUME TypeOK, PendAnchored,
           \A w \in Workers : state[w] # NoTs => state'[w] = state[w],
           \/ pend' = pend
           \/ \E ts \in TipSets : /\ extendsActive(ts) \/ RelatedToAny(pend, ts)
                                  /\ pend' \in Insert(pend, ts)
    PROVE  PendAnchored'
<1>1. ASSUME NEW b, \E t \in b : \E w \in Active : Parents[t] = state[w]
      PROVE  \E t \in b : \E w \in Active' : Parents[t] = state'[w]
    BY Zenon, <1>1 DEF Active
<1>2. CASE pend' = pend
    BY Zenon, <1>1, <1>2 DEF PendAnchored
<1>3. ASSUME NEW ts \in TipSets, extendsActive(ts) \/ RelatedToAny(pend, ts),
             pend' \in Insert(pend, ts)
      PROVE  PendAnchored'
    <2> SUFFICES ASSUME NEW c \in pend'
                 PROVE  \E t \in c : \E w \in Active : Parents[t] = state[w]
        BY Zenon, <1>1 DEF PendAnchored
    <2>1. CASE \E b \in pend : b \subseteq c
        BY Zenon, <2>1 DEF PendAnchored
    <2>2. CASE ~RelatedToAny(pend, ts) /\ c = {ts}
        BY Zenon, <1>3, <2>2 DEF extendsActive
    <2> QED
        BY <1>3, <2>1, <2>2, InsertBuckets
<1> QED
    BY Zenon, <1>2, <1>3

(* Every step keeps the pending buckets anchored.  The hard case is a      *)
(* finished worker: the buckets it anchored are exactly among those that   *)
(* PopRelated takes out.                                                   *)
LEMMA AnchoredStep == TypeOK /\ PendAnchored /\ [Next]_vars => PendAnchored'
<1> SUFFICES ASSUME TypeOK, PendAnchored, [Next]_vars PROVE PendAnchored'
    BY Zenon
<1>1. ASSUME NEW p \in Peers, NEW ts \in TipSets, handlePeerHead(p, ts)
      PROVE  PendAnchored'
    <2>1. CASE TrackPeerHead(p, ts)
        BY Zenon, <2>1, AnchorKept DEF TrackPeerHead
    <2>2. CASE StartInitialSync(p, ts)
        <3>1. PICK target \in TipSets : spawnWorker(state, target)
            BY <2>2 DEF StartInitialSync, selectInitialSyncTarget,
                        heaviestTipSet, trackedHeads, TypeOK
        <3> QED
            BY Zenon, <2>2, <3>1, SpawnKeeps, AnchorKept DEF StartInitialSync
    <2>3. CASE IgnoreTarget(ts)
        BY Zenon, <2>3, AnchorKept DEF IgnoreTarget, vars
    <2>4. CASE QueuePending(ts)
        BY Zenon, <2>4, AnchorKept DEF QueuePending
    <2>5. CASE QueueDeferred(ts)
        BY Zenon, <2>5, AnchorKept DEF QueueDeferred
    <2>6. CASE SyncTarget(ts)
        BY Zenon, <2>6, SpawnKeeps, AnchorKept DEF SyncTarget
    <2> QED
        BY Zenon, <1>1, <2>1, <2>2, <2>3, <2>4, <2>5, <2>6
           DEF handlePeerHead, addSyncTarget
<1>2. ASSUME NEW w \in Workers, NEW ok \in BOOLEAN, NEW fast \in BOOLEAN,
             handleWorkerStatus(w, ok, fast)
      PROVE  PendAnchored'
    <2>1. ASSUME NEW v \in Workers, state[v] # NoTs, v # w
          PROVE  state'[v] = state[v]
        BY <1>2, <2>1 DEF handleWorkerStatus, spawnWorker, TypeOK
    <2> SUFFICES ASSUME NEW b \in pend, b \notin PopRelated(pend, state[w])
                 PROVE  \E t \in b : \E v \in Active' : Parents[t] = state'[v]
        BY Zenon, <1>2 DEF handleWorkerStatus, PendAnchored
    <2>2. PICK t \in b, v \in Active : Parents[t] = state[v]
        BY Zenon DEF PendAnchored
    <2>3. state[v] # state[w]
        BY Zenon, <2>2 DEF PopRelated, sameChainAs
    <2> QED
        BY Zenon, <2>1, <2>2, <2>3 DEF Active
<1>3. CASE handleInitialSyncDone
    BY Zenon, <1>3, AnchorKept DEF handleInitialSyncDone
<1>4. CASE selectDeferredSyncTarget
    <2>1. PICK h \in UNION deferred :
               \/ skipDeferred
               \/ (extendsActive(h) \/ RelatedToAny(pend, h)) /\ pendDeferred(h)
               \/ ~Synced(recent, h) /\ syncDeferred(h)
        BY Zenon, <1>4, DeferredCases
    <2>2. h \in TipSets
        BY Zenon DEF TypeOK
    <2>3. CASE skipDeferred
        BY Zenon, <2>3, AnchorKept DEF skipDeferred
    <2>4. CASE (extendsActive(h) \/ RelatedToAny(pend, h)) /\ pendDeferred(h)
        BY Zenon, <2>2, <2>4, AnchorKept DEF pendDeferred
    <2>5. CASE syncDeferred(h)
        BY Zenon, <2>2, <2>5, SpawnKeeps, AnchorKept DEF syncDeferred
    <2> QED
        BY Zenon, <2>1, <2>3, <2>4, <2>5
<1>5. CASE deferredEmpty
    BY Zenon, <1>5, AnchorKept DEF deferredEmpty
<1>6. CASE Stop
    BY Zenon, <1>6, AnchorKept DEF Stop
<1>7. CASE schedulerReturn
    BY Zenon, <1>7, AnchorKept DEF schedulerReturn
<1>8. CASE UNCHANGED vars
    BY Zenon, <1>8, AnchorKept DEF vars
<1> QED
    BY Zenon, <1>1, <1>2, <1>3, <1>4, <1>5, <1>6, <1>7, <1>8 DEF Next

(* Every pending bucket always holds a child of a running sync, so the     *)
(* report of that worker will take the bucket out of the queue.            *)
THEOREM PendingAnchored == Spec => []PendAnchored
<1>1. Init => PendAnchored
    BY DEF Init, PendAnchored
<1> QED
    BY <1>1, TypeCorrect, AnchoredStep, PTL DEF Spec

(* When no worker is running nothing is pending: an idle manager has not   *)
(* left a target behind in the pending queue.                              *)
THEOREM IdleNothingPending == Spec => [](Active = {} => pend = {})
<1>1. PendAnchored => (Active = {} => pend = {})
    BY DEF PendAnchored
<1> QED
    BY <1>1, PendingAnchored, PTL

-----------------------------------------------------------------------------
(* The number of workers.                                                  *)

(* Running workers are finitely many. *)
LEMMA ActiveFinite ==
    IsFiniteSet(Active) /\ Cardinality(Active) \in Nat
BY Zenon, FS_Subset, FS_CardinalityType DEF Active

(* Starting a worker in a free slot adds exactly one. *)
LEMMA SpawnCount ==
    ASSUME TypeOK, NEW ts \in TipSets, spawnWorker(state, ts)
    PROVE  Cardinality(Active') = Cardinality(Active) + 1
<1>1. PICK w \in Workers : state[w] = NoTs /\ state' = [state EXCEPT ![w] = ts]
    BY Zenon DEF spawnWorker
<1>2. Active' = Active \cup {w} /\ w \notin Active
    BY <1>1 DEF Active, TypeOK
<1> QED
    BY Zenon, <1>2, ActiveFinite, FS_AddElement

(* A report takes its worker out and starts at most one new one. *)
LEMMA StatusCount ==
    ASSUME TypeOK, NEW w \in Workers, NEW ok \in BOOLEAN, NEW fast \in BOOLEAN,
           handleWorkerStatus(w, ok, fast)
    PROVE  \/ pc' = "select" /\ Cardinality(Active') = Cardinality(Active)
           \/ pc' = "freed" /\ Cardinality(Active') = Cardinality(Active) - 1
<1> DEFINE rest == Active \ {w}
           running == [state EXCEPT ![w] = NoTs]
<1>1. w \in Active
    BY Zenon DEF handleWorkerStatus, Active
<1>2. IsFiniteSet(rest) /\ Cardinality(rest) = Cardinality(Active) - 1
    BY Zenon, <1>1, ActiveFinite, FS_RemoveElement
<1>3. CASE state' = running /\ pc' = "freed"
    <2>1. Active' = rest
        BY Zenon, <1>3 DEF Active, TypeOK
    <2> QED
        BY Zenon, <1>2, <1>3, <2>1
<1>4. CASE pc' = "select" /\ \E h \in TipSets : spawnWorker(running, h)
    <2>1. PICK h \in TipSets, v \in Workers :
              running[v] = NoTs /\ state' = [running EXCEPT ![v] = h]
        BY Zenon, <1>4 DEF spawnWorker
    <2>2. Active' = rest \cup {v} /\ v \notin rest
        BY <2>1 DEF Active, TypeOK
    <2>3. Cardinality(rest \cup {v}) = Cardinality(rest) + 1
        BY Zenon, <1>2, <2>2, FS_AddElement
    <2> HIDE DEF rest
    <2> QED
        BY <1>2, <1>4, <2>2, <2>3, ActiveFinite
<1>5. heaviestTipSet(UNION PopRelated(pend, state[w])) \subseteq TipSets
    BY Zenon DEF heaviestTipSet, PopRelated, TypeOK
<1>6. \/ state' = running /\ pc' = "freed"
      \/ pc' = "select" /\ \E h \in TipSets : spawnWorker(running, h)
    BY Zenon, <1>5 DEF handleWorkerStatus
<1> QED
    BY Zenon, <1>3, <1>4, <1>6

(* A step that keeps the workers, started and initialSyncDone, and does    *)
(* not leave the select, keeps the bounds.                                 *)
LEMMA WorkersKept ==
    ASSUME WorkersInductive,
           UNCHANGED <<started, state, initialSyncDone>>, pc' \in {pc, "select"}
    PROVE  WorkersInductive'
<1>1. Active' = Active
    BY Zenon DEF Active
<1> QED
    BY Zenon, <1>1 DEF WorkersInductive, WorkersBounded, InitialSyncSingle

(* Every step keeps the bounds on the number of workers. *)
LEMMA WorkersStep ==
    TypeOK /\ WorkersInductive /\ [Next]_vars => WorkersInductive'
<1> SUFFICES ASSUME TypeOK, WorkersInductive, [Next]_vars
             PROVE  WorkersInductive'
    OBVIOUS
<1>0. Cardinality(Active) \in Nat /\ (Active = {} <=> Cardinality(Active) = 0)
    BY Zenon, ActiveFinite, FS_EmptySet
<1>e. Cardinality(Active') \in Nat /\ (Active' = {} <=> Cardinality(Active') = 0)
    BY Zenon, FS_Subset, FS_CardinalityType, FS_EmptySet DEF Active
<1> USE DEF WorkersInductive, WorkersBounded, InitialSyncSingle
<1>1. ASSUME NEW p \in Peers, NEW ts \in TipSets, handlePeerHead(p, ts)
      PROVE  WorkersInductive'
    <2>0. pc = "select"
        BY Zenon, <1>1 DEF handlePeerHead
    <2>1. CASE TrackPeerHead(p, ts)
        BY Zenon, <2>1, WorkersKept DEF TrackPeerHead
    <2>2. CASE StartInitialSync(p, ts)
        <3>1. PICK target \in TipSets : spawnWorker(state, target)
            BY <2>2 DEF StartInitialSync, selectInitialSyncTarget,
                        heaviestTipSet, trackedHeads, TypeOK
        <3>2. Cardinality(Active') = 1
            BY <1>0, <2>2, <3>1, SpawnCount DEF StartInitialSync
        <3> QED
            BY <2>0, <2>2, <3>2 DEF StartInitialSync
    <2>3. CASE IgnoreTarget(ts)
        BY Zenon, <2>3, WorkersKept DEF IgnoreTarget, vars
    <2>4. CASE QueuePending(ts)
        BY Zenon, <2>4, WorkersKept DEF QueuePending
    <2>5. CASE QueueDeferred(ts)
        BY Zenon, <2>5, WorkersKept DEF QueueDeferred
    <2>6. CASE started /\ SyncTarget(ts)
        <3>1. Cardinality(Active') = Cardinality(Active) + 1
            BY Zenon, <2>6, SpawnCount DEF SyncTarget
        <3> QED
            BY <1>0, <2>0, <2>6, <3>1 DEF SyncTarget, mustDefer
    <2> QED
        BY Zenon, <1>1, <2>1, <2>2, <2>3, <2>4, <2>5, <2>6
           DEF handlePeerHead, addSyncTarget
<1>2. ASSUME NEW w \in Workers, NEW ok \in BOOLEAN, NEW fast \in BOOLEAN,
             handleWorkerStatus(w, ok, fast)
      PROVE  WorkersInductive'
    <2>1. started' = started /\ started
        BY Zenon, <1>2 DEF handleWorkerStatus, Active
    <2>2. ~initialSyncDone' => ~initialSyncDone
        BY Zenon, <1>2 DEF handleWorkerStatus
    <2> QED
        BY <1>0, <1>e, <1>2, <2>1, <2>2, StatusCount
<1>3. CASE handleInitialSyncDone
    <2>1. Active' = Active
        BY Zenon, <1>3 DEF handleInitialSyncDone, Active
    <2> QED
        BY Zenon, <1>3, <2>1 DEF handleInitialSyncDone
<1>4. CASE selectDeferredSyncTarget
    <2>1. PICK h \in TipSets : skipDeferred \/ pendDeferred(h) \/ syncDeferred(h)
        BY Zenon, <1>4, DeferredCases DEF TypeOK
    <2>2. CASE skipDeferred
        BY Zenon, <2>2, WorkersKept DEF skipDeferred
    <2>3. CASE pendDeferred(h)
        BY Zenon, <2>3, WorkersKept DEF pendDeferred
    <2>4. CASE syncDeferred(h)
        <3>1. pc \in {"freed", "rampup"}
            BY Zenon, <1>4 DEF selectDeferredSyncTarget
        <3>2. Cardinality(Active') = Cardinality(Active) + 1
            BY Zenon, <2>4, SpawnCount DEF syncDeferred
        <3>3. started
            BY Zenon, <3>1
        <3> QED
            BY <1>0, <2>4, <3>1, <3>2, <3>3 DEF syncDeferred
    <2> QED
        BY Zenon, <2>1, <2>2, <2>3, <2>4
<1>5. CASE deferredEmpty
    BY Zenon, <1>5, WorkersKept DEF deferredEmpty
<1>6. CASE Stop
    BY Zenon, <1>6, WorkersKept DEF Stop
<1>7. CASE schedulerReturn
    BY Zenon, <1>7, WorkersKept DEF schedulerReturn
<1>8. CASE UNCHANGED vars
    BY Zenon, <1>8, WorkersKept DEF vars
<1> QED
    BY Zenon, <1>1, <1>2, <1>3, <1>4, <1>5, <1>6, <1>7, <1>8 DEF Next

(* Initially no worker runs. *)
LEMMA WorkersInit == Init => WorkersInductive
<1> SUFFICES ASSUME Init PROVE WorkersInductive
    BY Zenon
<1>1. Active = {} /\ Cardinality(Active) = 0
    BY Zenon, FS_EmptySet DEF Init, Active
<1> QED
    BY <1>1 DEF Init, WorkersInductive, WorkersBounded, InitialSyncSingle

(* The two bounds with the facts they rest on hold in every state. *)
THEOREM WorkersInvariant == Spec => []WorkersInductive
BY WorkersInit, WorkersStep, TypeCorrect, PTL DEF Spec

(* At most MaxSyncWorkers workers run at once, whichever path of the       *)
(* scheduler started them.                                                 *)
THEOREM WorkersAreBounded == Spec => []WorkersBounded
<1>1. WorkersInductive => WorkersBounded
    BY DEF WorkersInductive
<1> QED
    BY <1>1, WorkersInvariant, PTL

(* Until a sync succeeded fast enough there is at most one worker. *)
THEOREM InitialSyncIsSingle == Spec => []InitialSyncSingle
<1>1. WorkersInductive => InitialSyncSingle
    BY DEF WorkersInductive
<1> QED
    BY <1>1, WorkersInvariant, PTL

-----------------------------------------------------------------------------
(* What a step may never do.                                               *)

(* The buffer of recent syncs is empty until the first worker is started. *)
LEMMA RecentStep ==
    WorkersInductive /\ RecentInductive /\ [Next]_vars => RecentInductive'
<1> SUFFICES ASSUME WorkersInductive, RecentInductive, [Next]_vars
             PROVE  RecentInductive'
    BY Zenon
<1> USE DEF RecentInductive
<1>1. ASSUME NEW p \in Peers, NEW ts \in TipSets, handlePeerHead(p, ts)
      PROVE  RecentInductive'
    BY Zenon, <1>1 DEF handlePeerHead, TrackPeerHead, StartInitialSync, addSyncTarget,
                IgnoreTarget, QueuePending, QueueDeferred, SyncTarget, vars
<1>2. ASSUME NEW w \in Workers, NEW ok \in BOOLEAN, NEW fast \in BOOLEAN,
             handleWorkerStatus(w, ok, fast)
      PROVE  RecentInductive'
    BY Zenon, <1>2 DEF handleWorkerStatus, WorkersInductive, Active
<1>3. CASE selectDeferredSyncTarget
    BY Zenon, <1>3, DeferredCases DEF skipDeferred, pendDeferred, syncDeferred
<1> QED
    BY Zenon, <1>1, <1>2, <1>3 DEF Next, handleInitialSyncDone, deferredEmpty, Stop,
                            schedulerReturn, vars

(* Starting a worker on a tipset the buffer does not cover is allowed. *)
LEMMA SpawnNoResync ==
    ASSUME TypeOK, NEW ts \in TipSets, spawnWorker(state, ts),
           ~Synced(recent, ts), recent' = recent
    PROVE  NoResyncStep
BY Zenon DEF TypeOK, spawnWorker, NoResyncStep

(* No step starts a worker on a tipset already covered by the recent syncs. *)
LEMMA NoResyncNext ==
    TypeOK /\ RecentInductive /\ [Next]_vars => [NoResyncStep]_vars
<1> SUFFICES ASSUME TypeOK, RecentInductive, [Next]_vars PROVE [NoResyncStep]_vars
    BY Zenon
<1>0. ASSUME state' = state PROVE NoResyncStep
    BY Zenon, <1>0 DEF NoResyncStep
<1>1. ASSUME NEW p \in Peers, NEW ts \in TipSets, handlePeerHead(p, ts)
      PROVE  [NoResyncStep]_vars
    <2>1. CASE StartInitialSync(p, ts)
        <3>1. PICK target \in TipSets : spawnWorker(state, target)
            BY <2>1 DEF StartInitialSync, selectInitialSyncTarget,
                        heaviestTipSet, trackedHeads, TypeOK
        <3>2. ~Synced(recent, target) /\ recent' = recent
            BY Zenon, <2>1 DEF StartInitialSync, RecentInductive, Synced
        <3> QED
            BY Zenon, <3>1, <3>2, SpawnNoResync
    <2>2. CASE SyncTarget(ts)
        BY Zenon, <2>2, SpawnNoResync DEF SyncTarget
    <2> QED
        BY Zenon, <1>0, <1>1, <2>1, <2>2 DEF handlePeerHead, addSyncTarget,
           TrackPeerHead, IgnoreTarget, QueuePending, QueueDeferred, vars
<1>2. ASSUME NEW w \in Workers, NEW ok \in BOOLEAN, NEW fast \in BOOLEAN,
             handleWorkerStatus(w, ok, fast)
      PROVE  NoResyncStep
    <2> DEFINE running == [state EXCEPT ![w] = NoTs]
    <2>1. CASE state' = running
        BY Zenon, <2>1 DEF NoResyncStep, TypeOK
    <2>2. CASE \E h \in TipSets : ~Synced(recent', h) /\ spawnWorker(running, h)
        <3>1. PICK h \in TipSets, v \in Workers :
                  ~Synced(recent', h) /\ state' = [running EXCEPT ![v] = h]
            BY Zenon, <2>2 DEF spawnWorker
        <3> QED
            BY Zenon, <3>1 DEF NoResyncStep, TypeOK
    <2>3. heaviestTipSet(UNION PopRelated(pend, state[w])) \subseteq TipSets
        BY Zenon DEF heaviestTipSet, PopRelated, TypeOK
    <2> QED
        BY Zenon, <1>2, <2>1, <2>2, <2>3 DEF handleWorkerStatus, selectSyncTarget
<1>3. CASE selectDeferredSyncTarget
    BY Zenon, <1>0, <1>3, DeferredCases, SpawnNoResync
       DEF skipDeferred, pendDeferred, syncDeferred, TypeOK
<1> QED
    BY Zenon, <1>0, <1>1, <1>2, <1>3 DEF Next, handleInitialSyncDone, deferredEmpty,
                                  Stop, schedulerReturn, vars

(* A worker is never started on a tipset when that tipset or a heavier one *)
(* is in the buffer of recent syncs.                                       *)
THEOREM NeverResync == Spec => NoResync
<1>1. Init => RecentInductive
    BY DEF Init, RecentInductive
<1>2. Spec => []RecentInductive
    BY <1>1, RecentStep, WorkersInvariant, PTL DEF Spec
<1> QED
    BY <1>2, NoResyncNext, TypeCorrect, PTL DEF Spec, NoResync

(* Every other step leaves the buffer alone; a successful report pops the  *)
(* related buckets, whose heaviest tipset is taken up or is outweighed by  *)
(* a running or a recent sync.                                             *)
LEMMA PendingServedNext == TypeOK /\ [Next]_vars => [PendingServedStep]_vars
<1> SUFFICES ASSUME TypeOK, [Next]_vars PROVE [PendingServedStep]_vars
    BY Zenon
<1>0. ASSUME recent' = recent PROVE PendingServedStep
    BY Zenon, <1>0 DEF PendingServedStep
<1>1. ASSUME NEW p \in Peers, NEW ts \in TipSets, handlePeerHead(p, ts)
      PROVE  recent' = recent
    BY Zenon, <1>1 DEF handlePeerHead, TrackPeerHead, StartInitialSync, addSyncTarget,
                IgnoreTarget, QueuePending, QueueDeferred, SyncTarget, vars
<1>2. ASSUME NEW w \in Workers, NEW ok \in BOOLEAN, NEW fast \in BOOLEAN,
             handleWorkerStatus(w, ok, fast)
      PROVE  PendingServedStep
    <2> SUFFICES ASSUME ok, NEW t \in (UNION pend) \ (UNION pend')
                 PROVE  \/ \E v \in Workers :
                               state'[v] # NoTs /\ ~isHeavier(t, state'[v])
                        \/ \E i \in Slots : /\ recent'.buf[i] # NoTs
                                            /\ ~isHeavier(t, recent'.buf[i])
        BY Zenon, <1>2 DEF handleWorkerStatus, PendingServedStep
    <2> DEFINE done    == state[w]
               running == [state EXCEPT ![w] = NoTs]
               related == PopRelated(pend, done)
               next    == heaviestTipSet(UNION related)
    <2>0. pend' = pend \ related
        BY Zenon, <1>2 DEF handleWorkerStatus
    <2>1. t \in UNION related /\ related # {}
        <3>1. PICK b \in pend : t \in b
            BY Zenon
        <3>2. b \notin pend'
            BY Zenon, <3>1
        <3> HIDE DEF related
        <3> QED
            BY Zenon, <2>0, <3>1, <3>2
    <2>2. done \in TipSets /\ t \in TipSets /\ next \subseteq TipSets
        BY Zenon, <1>2 DEF handleWorkerStatus, TypeOK, heaviestTipSet, PopRelated
    <2>3. recent.next \in Slots /\ recent'.buf[recent.next] = done
        BY Zenon, <1>2, <2>2 DEF handleWorkerStatus, Push, TypeOK
    <2>4. PICK h \in next :
              \/ spawnWorker(running, h)
              \/ ~selectSyncTarget(done, running, recent', h) /\ state' = running
        BY Zenon, <1>2, <2>1 DEF handleWorkerStatus
    <2>5. ~isHeavier(t, h)
        BY Zenon, <2>1 DEF heaviestTipSet
    <2>6. ASSUME NEW u \in TipSets, u = h \/ isHeavier(u, h)
          PROVE  ~isHeavier(t, u)
        <3>1. /\ ParentWeight[t] \in Nat
              /\ ParentWeight[h] \in Nat
              /\ ParentWeight[u] \in Nat
            BY Zenon, <2>2
        <3> QED
            BY <2>5, <2>6, <3>1 DEF isHeavier
    <2>7. CASE spawnWorker(running, h)
        <3>1. PICK v \in Workers : state' = [running EXCEPT ![v] = h]
            BY Zenon, <2>7 DEF spawnWorker
        <3>2. state'[v] = h /\ h # NoTs
            BY <2>2, <3>1 DEF TypeOK
        <3> QED
            BY Zenon, <2>5, <3>2
    <2>8. CASE ~selectSyncTarget(done, running, recent', h) /\ state' = running
        <3>1. CASE isHeavier(done, h)
            BY Zenon, <2>2, <2>3, <2>6, <3>1
        <3>2. CASE \E v \in Workers : running[v] # NoTs /\ isHeavier(running[v], h)
            <4>1. PICK v \in Workers : running[v] # NoTs /\ isHeavier(running[v], h)
                BY Zenon, <3>2
            <4>2. running[v] \in TipSets
                BY Zenon, <4>1 DEF TypeOK
            <4> QED
                BY Zenon, <2>6, <2>8, <4>1, <4>2
        <3>3. CASE Synced(recent', h)
            <4>1. recent' \in [buf : [Slots -> TipSets \cup {NoTs}], next : Slots]
                BY Zenon, <1>2, <2>2, PushType DEF handleWorkerStatus, TypeOK
            <4> QED
                BY Zenon, <2>6, <3>3, <4>1 DEF Synced
        <3> QED
            BY Zenon, <2>8, <3>1, <3>2, <3>3 DEF selectSyncTarget
    <2> QED
        BY Zenon, <2>4, <2>7, <2>8
<1>3. CASE selectDeferredSyncTarget
    BY Zenon, <1>0, <1>3, DeferredCases DEF skipDeferred, pendDeferred, syncDeferred
<1> QED
    BY Zenon, <1>0, <1>1, <1>2, <1>3 DEF Next, handleInitialSyncDone, deferredEmpty,
                                  Stop, schedulerReturn, vars

(* A target leaves the pending queue on a successful sync only when a      *)
(* tipset at least as heavy is being synced or was recently synced.        *)
THEOREM PendingIsServed == Spec => PendingServed
BY PendingServedNext, TypeCorrect, PTL DEF Spec, PendingServed
=============================================================================
