---------------------------- MODULE SyncManager ----------------------------
(***************************************************************************)
(* The scheduler of chain synchronisation (chain/sync_manager.go).         *)
(*                                                                         *)
(* Peers report tipsets (SetPeerHead).  One scheduler goroutine decides    *)
(* which of them to sync, hands each to a worker goroutine, and queues the *)
(* rest: `pend` holds the targets that extend a running sync, `deferred`   *)
(* the forks that found no free worker.  A queue is a set of buckets, and  *)
(* a bucket a set of tipsets of one chain.                                 *)
(*                                                                         *)
(* Abstractions.  The order of the slices inside a bucket set is left out: *)
(* where the code takes the first of several equally good buckets or       *)
(* tipsets, the model takes any of them.  A worker id is a slot that is    *)
(* reused once its worker is gone; `nextWorker == 0` is ~started.  The     *)
(* debug history of finished workers and the experimental merging of       *)
(* sibling tipsets (coalesceTipsets, off unless the environment variable   *)
(* LOTUS_SYNC_FORMTS_PEND is set) are left out.                            *)
(***************************************************************************)
EXTENDS Integers, FiniteSets

CONSTANTS
    TipSets,                 \* the tipsets that peers can report
    NoTs,                    \* the nil tipset
    Parents,                 \* the tipset a tipset builds on (NoTs: unknown)
    ParentWeight,            \* the weight in its header
    Peers,
    Workers,                 \* worker slots, more than can ever run at once
    BootstrapPeerThreshold,
    MaxSyncWorkers,
    RecentSyncBufferSize

ASSUME ConstantsAssumption ==
    /\ NoTs \notin TipSets
    /\ Parents \in [TipSets -> TipSets \cup {NoTs}]
    /\ ParentWeight \in [TipSets -> Nat]
    /\ IsFiniteSet(Workers)
    /\ BootstrapPeerThreshold \in Nat
    /\ MaxSyncWorkers \in Nat \ {0}
    /\ RecentSyncBufferSize \in Nat \ {0}

VARIABLES
    started,          \* a first worker was spawned (nextWorker # 0)
    heads,            \* peer heads tracked until the initial sync starts
    state,            \* the target of each running worker
    pend,             \* buckets of targets that extend a running sync
    deferred,         \* buckets of targets waiting for a free worker
    recent,           \* circular buffer of recently synced tipsets
    initialSyncDone,
    ticker,           \* the one-minute ticker is still running
    pc,               \* what the scheduler goroutine is doing
    ctx               \* life cycle of the manager's context

vars == <<started, heads, state, pend, deferred, recent,
          initialSyncDone, ticker, pc, ctx>>

Slots == 0 .. RecentSyncBufferSize - 1

TypeOK ==
    /\ started \in BOOLEAN
    /\ heads \in [Peers -> TipSets \cup {NoTs}]
    /\ state \in [Workers -> TipSets \cup {NoTs}]
    /\ pend \subseteq SUBSET TipSets
    /\ deferred \subseteq SUBSET TipSets
    /\ recent \in [buf : [Slots -> TipSets \cup {NoTs}], next : Slots]
    /\ initialSyncDone \in BOOLEAN
    /\ ticker \in BOOLEAN
    /\ pc \in {"select", "freed", "rampup"}
    /\ ctx \in {"live", "cancelled", "returned"}

Init ==
    /\ started = FALSE
    /\ heads = [p \in Peers |-> NoTs]
    /\ state = [w \in Workers |-> NoTs]
    /\ pend = {}
    /\ deferred = {}
    /\ recent = [buf |-> [i \in Slots |-> NoTs], next |-> 0]
    /\ initialSyncDone = FALSE
    /\ ticker = TRUE
    /\ pc = "select"
    /\ ctx = "live"

-----------------------------------------------------------------------------
(* Weights, buckets and the buffer of recent syncs.                        *)

isHeavier(a, b) == ParentWeight[a] > ParentWeight[b]

(* Mutant of heaviestTipSet: the comparison is turned round. *)
lightestTipSet(S) == {t \in S : \A u \in S : ~isHeavier(t, u)}

(* Tipsets of the set S that no other tipset of S outweighs. *)
heaviestTipSet(S) == {t \in S : \A u \in S : ~isHeavier(u, t)}

sameChainAs(b, ts) ==
    \E t \in b : ts = t \/ ts = Parents[t] \/ Parents[ts] = t

RelatedToAny(B, ts) == \E b \in B : sameChainAs(b, ts)

(* The bucket sets that inserting ts into B may give: ts joins a bucket    *)
(* of its chain, or opens a new one if there is none.                      *)
Insert(B, ts) ==
    IF RelatedToAny(B, ts)
    THEN {(B \ {b}) \cup {b \cup {ts}} : b \in {c \in B : sameChainAs(c, ts)}}
    ELSE {B \cup {{ts}}}

(* Mutant of PopRelated: only the bucket that holds ts itself. *)
PopSame(B, ts) == {b \in B : ts \in b}

PopRelated(B, ts) == {b \in B : sameChainAs(b, ts)}

(* The buckets of B whose heaviest tipset nothing in B outweighs. *)
Pop(B) == {b \in B : heaviestTipSet(b) \cap heaviestTipSet(UNION B) # {}}

(* Mutant of Push: the index does not wrap around. *)
PushNoWrap(r, ts) ==
    [buf |-> [r.buf EXCEPT ![r.next] = ts], next |-> r.next + 1]

Push(r, ts) ==
    [buf |-> [r.buf EXCEPT ![r.next] = ts],
     next |-> (r.next + 1) % RecentSyncBufferSize]

Synced(r, ts) ==
    \E i \in Slots : r.buf[i] # NoTs /\ (r.buf[i] = ts \/ isHeavier(r.buf[i], ts))

-----------------------------------------------------------------------------
(* The workers.                                                            *)

Active == {w \in Workers : state[w] # NoTs}

(* state after a worker for target has been started in a free slot *)
spawnWorker(st, target) ==
    \E w \in Workers :
        /\ st[w] = NoTs
        /\ state' = [st EXCEPT ![w] = target]

-----------------------------------------------------------------------------
(* handlePeerHead, before the first worker was spawned.                    *)

trackedHeads(h) == {p \in Peers : h[p] # NoTs}

selectInitialSyncTarget(h) == heaviestTipSet({h[p] : p \in trackedHeads(h)})

TrackPeerHead(p, ts) ==
    /\ ~started
    /\ LET h == [heads EXCEPT ![p] = ts]
       IN  /\ Cardinality(trackedHeads(h)) < BootstrapPeerThreshold
           /\ heads' = h
    /\ UNCHANGED <<started, state, pend, deferred, recent, initialSyncDone,
                   ticker, pc, ctx>>

StartInitialSync(p, ts) ==
    /\ ~started
    /\ LET h == [heads EXCEPT ![p] = ts]
       IN  /\ Cardinality(trackedHeads(h)) >= BootstrapPeerThreshold
           /\ \E target \in selectInitialSyncTarget(h) :
                  spawnWorker(state, target)
    /\ heads' = [q \in Peers |-> NoTs]
    /\ started' = TRUE
    /\ UNCHANGED <<pend, deferred, recent, initialSyncDone, ticker, pc, ctx>>

-----------------------------------------------------------------------------
(* handlePeerHead once syncing has started: addSyncTarget.  The loop over  *)
(* the map of active workers visits them in any order, so a target that    *)
(* both is and extends an active one may be ignored or queued.             *)

isSyncing(ts) == \E w \in Active : state[w] = ts

extendsActive(ts) == \E w \in Active : Parents[ts] = state[w]

isFork(ts) ==
    /\ ~isSyncing(ts)
    /\ ~extendsActive(ts)
    /\ ~RelatedToAny(pend, ts)

isLighter(ts) ==
    \/ \E w \in Active : isHeavier(state[w], ts)
    \/ \E t \in UNION pend : isHeavier(t, ts)

(* Mutants of mustDefer: the limit is off by one; the initial sync is not  *)
(* considered.                                                             *)
mustDeferOffByOne == ~initialSyncDone \/ Cardinality(Active) > MaxSyncWorkers
mustDeferAlways == Cardinality(Active) >= MaxSyncWorkers

mustDefer == ~initialSyncDone \/ Cardinality(Active) >= MaxSyncWorkers

IgnoreTarget(ts) ==
    /\ \/ Synced(recent, ts)
       \/ isSyncing(ts)
       \/ Active # {} /\ isFork(ts) /\ isLighter(ts)
    /\ UNCHANGED vars

QueuePending(ts) ==
    /\ ~Synced(recent, ts)
    /\ Active # {}
    /\ \/ extendsActive(ts)
       \/ ~isSyncing(ts) /\ RelatedToAny(pend, ts)
    /\ pend' \in Insert(pend, ts)
    /\ UNCHANGED <<started, heads, state, deferred, recent, initialSyncDone,
                   ticker, pc, ctx>>

QueueDeferred(ts) ==
    /\ ~Synced(recent, ts)
    /\ Active # {}
    /\ isFork(ts) /\ ~isLighter(ts) /\ mustDefer
    /\ deferred' \in Insert(deferred, ts)
    /\ UNCHANGED <<started, heads, state, pend, recent, initialSyncDone,
                   ticker, pc, ctx>>

SyncTarget(ts) ==
    /\ ~Synced(recent, ts)
    /\ \/ Active = {}
       \/ isFork(ts) /\ ~isLighter(ts) /\ ~mustDefer
    /\ spawnWorker(state, ts)
    /\ UNCHANGED <<started, heads, pend, deferred, recent, initialSyncDone,
                   ticker, pc, ctx>>

addSyncTarget(ts) ==
    /\ started
    /\ \/ IgnoreTarget(ts)
       \/ QueuePending(ts)
       \/ QueueDeferred(ts)
       \/ SyncTarget(ts)

(* The scheduler receives the head ts of peer p from SetPeerHead. *)
handlePeerHead(p, ts) ==
    /\ pc = "select" /\ ctx # "returned"
    /\ \/ TrackPeerHead(p, ts)
       \/ StartInitialSync(p, ts)
       \/ addSyncTarget(ts)

-----------------------------------------------------------------------------
(* handleWorkerStatus: doSync of worker w returned, without error if ok,   *)
(* and within InitialSyncTimeThreshold if fast.  selectSyncTarget carries  *)
(* on with the heaviest pending tipset of the chain, or else turns to the  *)
(* deferred targets (pc = "freed").                                        *)

(* Mutant of selectSyncTarget: the recent syncs are not consulted. *)
selectSyncTargetNoRecent(done, running, r, h) ==
    /\ ~isHeavier(done, h)
    /\ \A v \in Workers : running[v] # NoTs => ~isHeavier(running[v], h)

selectSyncTarget(done, running, r, h) ==
    /\ ~isHeavier(done, h)
    /\ \A v \in Workers : running[v] # NoTs => ~isHeavier(running[v], h)
    /\ ~Synced(r, h)

handleWorkerStatus(w, ok, fast) ==
    LET done    == state[w]
        running == [state EXCEPT ![w] = NoTs]
        related == PopRelated(pend, done)
        r       == IF ok THEN Push(recent, done) ELSE recent
        next    == heaviestTipSet(UNION related)
    IN  /\ pc = "select" /\ ctx # "returned"
        /\ done # NoTs
        /\ recent' = r
        /\ initialSyncDone' = (initialSyncDone \/ (ok /\ fast))
        /\ pend' = pend \ related
        /\ \/ /\ \E h \in next :
                    /\ selectSyncTarget(done, running, r, h)
                    /\ spawnWorker(running, h)
              /\ pc' = "select"
           \/ /\ related = {} \/ \E h \in next : ~selectSyncTarget(done, running, r, h)
              /\ state' = running
              /\ pc' = "freed"
        /\ UNCHANGED <<started, heads, deferred, ticker, ctx>>

-----------------------------------------------------------------------------
(* handleInitialSyncDone, on a tick after the initial sync: start workers  *)
(* on deferred targets up to MaxSyncWorkers.                               *)

handleInitialSyncDone ==
    /\ pc = "select" /\ ctx # "returned"
    /\ ticker /\ initialSyncDone
    /\ ticker' = FALSE
    /\ pc' = IF Cardinality(Active) < MaxSyncWorkers THEN "rampup" ELSE "select"
    /\ UNCHANGED <<started, heads, state, pend, deferred, recent,
                   initialSyncDone, ctx>>

-----------------------------------------------------------------------------
(* selectDeferredSyncTarget, one iteration of deferredLoop per step.  The  *)
(* scheduler does nothing else until the loop is over.                     *)

skipDeferred ==
    UNCHANGED <<started, heads, state, pend, recent, initialSyncDone,
                ticker, pc, ctx>>

pendDeferred(h) ==
    /\ pend' \in Insert(pend, h)
    /\ UNCHANGED <<started, heads, state, recent, initialSyncDone,
                   ticker, pc, ctx>>

syncDeferred(h) ==
    /\ spawnWorker(state, h)
    /\ pc' = IF pc = "rampup" /\ Cardinality(Active) + 1 < MaxSyncWorkers
             THEN "rampup" ELSE "select"
    /\ UNCHANGED <<started, heads, pend, recent, initialSyncDone, ticker, ctx>>

(* The loop over the active workers decides by the first one it visits; it *)
(* visits none when no worker is running.                                  *)
visitWorkers(h) ==
    \/ Active = {} /\ skipDeferred
    \/ \E w \in Active :
          \/ /\ state[w] = h \/ isHeavier(state[w], h)
             /\ skipDeferred
          \/ /\ state[w] # h /\ ~isHeavier(state[w], h)
             /\ Parents[h] = state[w]
             /\ pendDeferred(h)
          \/ /\ state[w] # h /\ ~isHeavier(state[w], h)
             /\ Parents[h] # state[w]
             /\ syncDeferred(h)

selectDeferredSyncTarget ==
    /\ pc \in {"freed", "rampup"}
    /\ \E b \in Pop(deferred) :
          /\ deferred' = deferred \ {b}
          /\ \E h \in heaviestTipSet(b) :
                \/ Synced(recent, h) /\ skipDeferred
                \/ ~Synced(recent, h) /\ RelatedToAny(pend, h) /\ pendDeferred(h)
                \/ ~Synced(recent, h) /\ ~RelatedToAny(pend, h) /\ visitWorkers(h)

deferredEmpty ==
    /\ pc \in {"freed", "rampup"}
    /\ deferred = {}
    /\ pc' = "select"
    /\ UNCHANGED <<started, heads, state, pend, deferred, recent,
                   initialSyncDone, ticker, ctx>>

-----------------------------------------------------------------------------
(* Stop cancels the context; the scheduler notices at its next select.     *)

Stop ==
    /\ ctx = "live"
    /\ ctx' = "cancelled"
    /\ UNCHANGED <<started, heads, state, pend, deferred, recent,
                   initialSyncDone, ticker, pc>>

schedulerReturn ==
    /\ ctx = "cancelled" /\ pc = "select"
    /\ ctx' = "returned"
    /\ UNCHANGED <<started, heads, state, pend, deferred, recent,
                   initialSyncDone, ticker, pc>>

Next ==
    \/ \E p \in Peers, ts \in TipSets : handlePeerHead(p, ts)
    \/ \E w \in Workers, ok, fast \in BOOLEAN : handleWorkerStatus(w, ok, fast)
    \/ handleInitialSyncDone
    \/ selectDeferredSyncTarget
    \/ deferredEmpty
    \/ Stop
    \/ schedulerReturn

Spec == Init /\ [][Next]_vars

(* Fairness.  doSync returns (its network requests have deadlines), and a  *)
(* worker offering its status at the scheduler's select infinitely often   *)
(* is received, since Go's select picks a ready case at random.  The       *)
(* scheduler goroutine runs its deferred loop to the end.                  *)
Fairness ==
    /\ \A w \in Workers :
           SF_vars(\E ok, fast \in BOOLEAN : handleWorkerStatus(w, ok, fast))
    /\ WF_vars(selectDeferredSyncTarget \/ deferredEmpty)

FairSpec == Spec /\ Fairness
-----------------------------------------------------------------------------
(* Properties.                                                             *)

(* Every pending bucket holds a tipset whose parent some worker is syncing *)
(* right now.  A pending target is looked at again only when the worker    *)
(* of a related tipset reports (PopRelated in selectSyncTarget), so a      *)
(* bucket without such an anchor could stay queued for ever.               *)
PendAnchored ==
    \A b \in pend : \E t \in b : \E w \in Active : Parents[t] = state[w]

(* At most MaxSyncWorkers workers run at once, whichever of addSyncTarget, *)
(* selectSyncTarget and selectDeferredSyncTarget started them.             *)
WorkersBounded == Cardinality(Active) <= MaxSyncWorkers

(* Until a sync has succeeded fast enough (initialSyncDone) there is at    *)
(* most one worker: forks reported meanwhile are deferred.                 *)
InitialSyncSingle == ~initialSyncDone => Cardinality(Active) <= 1

(* The inductive form of the two bounds.  A finished worker leaves a free  *)
(* slot that the deferred loop may fill (pc = "freed"), and the ramp-up    *)
(* loop runs only below the limit (pc = "rampup").                         *)
WorkersInductive ==
    /\ WorkersBounded
    /\ InitialSyncSingle
    /\ ~started => Active = {} /\ pc = "select" /\ ~initialSyncDone
    /\ pc # "select" => Cardinality(Active) < MaxSyncWorkers
    /\ pc = "freed" /\ ~initialSyncDone => Active = {}
    /\ pc = "rampup" => initialSyncDone

(* Nothing has been synced before the first worker was started. *)
RecentInductive == ~started => \A i \in Slots : recent.buf[i] = NoTs

(* A worker is never started on a tipset when that tipset, or a heavier    *)
(* one, is in the buffer of recent syncs, the one just pushed included.    *)
NoResyncStep ==
    \A w \in Workers :
        state'[w] # state[w] /\ state'[w] # NoTs => ~Synced(recent', state'[w])

NoResync == [][NoResyncStep]_vars

(* When a target leaves the pending queue because a sync succeeded, a      *)
(* tipset at least as heavy is being synced or was recently synced: the    *)
(* queue is emptied a bucket at a time, but never loses the best chain.    *)
PendingServedStep ==
    recent' # recent =>
        \A t \in (UNION pend) \ (UNION pend') :
            \/ \E w \in Workers : state'[w] # NoTs /\ ~isHeavier(t, state'[w])
            \/ \E i \in Slots : recent'.buf[i] # NoTs /\ ~isHeavier(t, recent'.buf[i])

PendingServed == [][PendingServedStep]_vars

(* A deferred fork is taken up, or given up only for a tipset that is      *)
(* being synced, pending or recently synced and at least as heavy          *)
(* ("it will be processed once a worker is freed from syncing a chain").   *)
DeferredServedStep ==
    \A t \in (UNION deferred) \ (UNION deferred') :
        \/ \E w \in Workers : state'[w] # NoTs /\ ~isHeavier(t, state'[w])
        \/ \E u \in UNION pend' : ~isHeavier(t, u)
        \/ \E i \in Slots : recent'.buf[i] # NoTs /\ ~isHeavier(t, recent'.buf[i])

DeferredServed == [][DeferredServedStep]_vars

(* No two workers sync the same tipset: the manager schedules tipsets      *)
(* "deduplicating processing for already-active syncs".                    *)
NoDuplicateSync ==
    \A v, w \in Active : state[v] = state[w] => v = w

(* A pending target never waits for ever: unless the manager is stopped,   *)
(* it is taken up or superseded, even if peers keep reporting heads.       *)
PendingResolved ==
    \A t \in TipSets :
        (t \in UNION pend) ~> (t \notin UNION pend \/ ctx # "live")
=============================================================================
