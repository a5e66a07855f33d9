------------------------- MODULE CallTrackerProofs -------------------------
(***************************************************************************)
(* Proofs for CallTracker: types, the record of calls, results that are    *)
(* kept, waiters that are woken, and results that reach their own caller.  *)
(***************************************************************************)
EXTENDS CallTracker, TLAPS

(***************************************************************************)
(* The inductive invariant.                                                *)
(***************************************************************************)

\* A call that was not made has no owner.
Fresh == \A c \in Calls : c > made => owner[c] = None

\* A caller between its call and its wait holds a call of its own, and its work
\* is started; work without a call is not running.
Steps ==
  /\ \A x \in Callers : pc[x] = "called" => arg[x] \in Calls /\ owner[arg[x]] = x
  /\ \A w \in Works :
       /\ pc[w] \in {"started", "called", "failed"} => status[w] = "started"
       /\ pc[w] = "waiting" => arg[w] = workerCall[w] /\ arg[w] \in Calls
       /\ status[w] \in {"none", "started"} => workerCall[w] = NoCall
       /\ status[w] = "running" => workerCall[w] \in Calls
  /\ \A s \in Simples : pc[s] = "waiting" => arg[s] \in Calls /\ owner[arg[s]] = s

\* Only simple callers wait on the channel of a call, and a result that is held
\* for running work is of the call that runs.
Channels ==
  /\ \A c \in Calls : callRes[c] = "open" => owner[c] \in Simples
  /\ \A w \in Works : status[w] = "running" /\ results[w] # NoCall =>
       results[w] = workerCall[w]

IInv == TypeOK /\ Fresh /\ Steps /\ Channels /\ Tracked /\ ResultKept /\ WaiterWoken

(***************************************************************************)
(* One lemma for every action: it keeps the invariant.                     *)
(***************************************************************************)

\* New work is started, known work is waited for.
LEMMA getWorkKeeps ==
  ASSUME IInv, NEW w \in Works, getWork(w)
  PROVE  IInv'
<1> USE DEF IInv, getWork, Goto, manager, worker, work, callers
<1>1. TypeOK'  BY Zenon DEF TypeOK, Callers
<1>2. Fresh'  BY Zenon DEF TypeOK, Fresh
<1>3. Steps'  BY DEF TypeOK, Steps, Callers
<1>4. Channels'  BY Zenon DEF TypeOK, Channels
<1>5. Tracked'  BY DEF TypeOK, Tracked
<1>6. ResultKept'  BY Zenon DEF TypeOK, ResultKept
<1>7. WaiterWoken'  BY DEF TypeOK, WaiterWoken, Callers
<1> QED  BY Zenon, <1>1, <1>2, <1>3, <1>4, <1>5, <1>6, <1>7

\* Only the record of started work is removed.
LEMMA cancelStartedKeeps ==
  ASSUME IInv, NEW w \in Works, cancelStarted(w)
  PROVE  IInv'
<1> USE DEF IInv, cancelStarted, Trouble, End, Return, manager, worker, work, callers,
  Goto
<1>1. TypeOK'
  BY CallersAssumption, BoundsAssumption DEF TypeOK, Steps, Callers, Calls, NoCall
<1>2. Fresh'  BY Zenon DEF TypeOK, Fresh
<1>3. Steps'  BY DEF TypeOK, Steps, Callers
<1>4. Channels'  BY Zenon DEF TypeOK, Channels
<1>5. Tracked'  BY DEF TypeOK, Tracked, Steps, Callers
<1>6. ResultKept'  BY Zenon DEF TypeOK, ResultKept
<1>7. WaiterWoken'  BY Zenon DEF TypeOK, WaiterWoken, Callers
<1> QED  BY Zenon, <1>1, <1>2, <1>3, <1>4, <1>5, <1>6, <1>7

\* The new call belongs to nobody else, since it had no owner.
LEMMA callWorkKeeps ==
  ASSUME IInv, NEW w \in Works, callWork(w)
  PROVE  IInv'
<1> USE DEF IInv, callWork, asyncCall, work, manager, callers, worker
<1>1. TypeOK'
  BY CallersAssumption, BoundsAssumption DEF TypeOK, Steps, Callers, Calls, NoCall
<1>2. Fresh'  BY DEF TypeOK, Fresh, Calls
<1>3. Steps'
  BY CallersAssumption, BoundsAssumption DEF TypeOK, Steps, Fresh, Callers, Calls, NoCall
<1>4. Channels'  BY CallersAssumption, BoundsAssumption DEF TypeOK, Channels, Fresh, Calls
<1>5. Tracked'
  BY CallersAssumption, BoundsAssumption DEF TypeOK, Tracked, Fresh, Callers, Calls
<1>6. ResultKept'  BY Zenon DEF TypeOK, ResultKept
<1>7. WaiterWoken'  BY Zenon DEF TypeOK, WaiterWoken, Callers
<1> QED  BY Zenon, <1>1, <1>2, <1>3, <1>4, <1>5, <1>6, <1>7

\* The request fails, perhaps after the worker has begun.
LEMMA callWorkFailsKeeps ==
  ASSUME IInv, NEW w \in Works, callWorkFails(w)
  PROVE  IInv'
<1> USE DEF IInv, callWorkFails, Trouble, Goto, asyncCall, work, manager, worker,
  callers
<1>1. TypeOK'
  <2> USE BoundsAssumption DEF TypeOK, Callers
  <2>1. CASE asyncCall(w)
    <3>1. made + 1 \in Calls /\ made' \in 0 .. MaxCalls
      BY <2>1 DEF Calls
    <3>2. calls' \in [Calls -> {"none", "working", "returning", "ended"}]
      BY Zenon, <2>1, <3>1
    <3>3. owner' \in [Calls -> Callers \cup {None}]
      BY Zenon, <2>1, <3>1
    <3>4. pc' \in [Callers -> {"idle", "started", "called", "failed", "wait", "waiting", "done"}]
      BY Zenon
    <3> QED  BY <3>1, <3>2, <3>3, <3>4
  <2>2. CASE UNCHANGED worker
    BY <2>2
  <2> QED  BY Zenon, <2>1, <2>2
<1>2. Fresh'  BY CallersAssumption, BoundsAssumption DEF TypeOK, Fresh, Calls
<1>3. Steps'
  BY CallersAssumption, BoundsAssumption DEF TypeOK, Steps, Fresh, Callers, Calls, NoCall
<1>4. Channels'
  <2>1. CASE asyncCall(w)
    BY <2>1, CallersAssumption, BoundsAssumption DEF TypeOK, Channels, Fresh, Calls, Callers
  <2>2. CASE UNCHANGED worker
    BY Zenon, <2>2 DEF TypeOK, Channels
  <2> QED  BY Zenon, <2>1, <2>2
<1>5. Tracked'
  BY CallersAssumption, BoundsAssumption DEF TypeOK, Tracked, Fresh, Callers, Calls
<1>6. ResultKept'  BY DEF TypeOK, ResultKept
<1>7. WaiterWoken'  BY Zenon DEF TypeOK, WaiterWoken, Callers
<1> QED  BY Zenon, <1>1, <1>2, <1>3, <1>4, <1>5, <1>6, <1>7

\* The call that is mapped is the caller's own, so no other entry changes.
LEMMA startWorkKeeps ==
  ASSUME IInv, NEW w \in Works, startWork(w)
  PROVE  IInv'
<1> USE DEF IInv, startWork, Goto, worker, work, manager, callers
<1>1. TypeOK'  BY Zenon DEF TypeOK, Steps, Callers
<1>2. Fresh'  BY Zenon DEF TypeOK, Fresh
<1>3. Steps'  BY DEF TypeOK, Steps, Callers
<1>4. Channels'  BY Zenon DEF TypeOK, Channels
<1>5. Tracked'  BY DEF TypeOK, Tracked, Steps, Channels, Callers, Calls, NoCall
<1>6. ResultKept'  BY Zenon DEF TypeOK, ResultKept
<1>7. WaiterWoken'  BY DEF TypeOK, WaiterWoken, Steps, Tracked, Callers, Calls, NoCall
<1> QED  BY Zenon, <1>1, <1>2, <1>3, <1>4, <1>5, <1>6, <1>7

\* The record is removed; the call stays without work.
LEMMA startWorkUnsavedKeeps ==
  ASSUME IInv, NEW w \in Works, startWorkUnsaved(w)
  PROVE  IInv'
<1> USE DEF IInv, startWorkUnsaved, Trouble, End, Return, manager, worker, work,
  callers, Goto
<1>1. TypeOK'
  BY CallersAssumption, BoundsAssumption DEF TypeOK, Steps, Callers, Calls, NoCall
<1>2. Fresh'  BY Zenon DEF TypeOK, Fresh
<1>3. Steps'  BY CallersAssumption DEF TypeOK, Steps, Callers
<1>4. Channels'  BY Zenon DEF TypeOK, Channels
<1>5. Tracked'  BY DEF TypeOK, Tracked, Steps, Callers
<1>6. ResultKept'  BY Zenon DEF TypeOK, ResultKept
<1>7. WaiterWoken'  BY Zenon DEF TypeOK, WaiterWoken, Callers
<1> QED  BY Zenon, <1>1, <1>2, <1>3, <1>4, <1>5, <1>6, <1>7

\* Work that is done without a call is not in the map.
LEMMA startWorkFailedKeeps ==
  ASSUME IInv, NEW w \in Works, startWorkFailed(w)
  PROVE  IInv'
<1> USE DEF IInv, startWorkFailed, Return, manager, worker, work, callers, Goto
<1>1. TypeOK'  BY Zenon DEF TypeOK, Callers
<1>2. Fresh'  BY Zenon DEF TypeOK, Fresh
<1>3. Steps'  BY CallersAssumption DEF TypeOK, Steps, Callers
<1>4. Channels'  BY Zenon DEF TypeOK, Channels
<1>5. Tracked'  BY DEF TypeOK, Tracked
<1>6. ResultKept'  BY Zenon DEF TypeOK, ResultKept
<1>7. WaiterWoken'  BY Zenon DEF TypeOK, WaiterWoken, Callers
<1> QED  BY Zenon, <1>1, <1>2, <1>3, <1>4, <1>5, <1>6, <1>7

\* Only the caller's step changes.
LEMMA waitWorkFailsKeeps ==
  ASSUME IInv, NEW w \in Works, waitWorkFails(w)
  PROVE  IInv'
<1> USE DEF IInv, waitWorkFails, Return, Sane, work, manager, worker, callers, Goto
<1>1. TypeOK'  BY Zenon DEF TypeOK, Callers
<1>2. Fresh'  BY Zenon DEF TypeOK, Fresh
<1>3. Steps'  BY Zenon, CallersAssumption DEF TypeOK, Steps, Callers
<1>4. Channels'  BY Zenon DEF TypeOK, Channels
<1>5. Tracked'  BY Zenon DEF TypeOK, Tracked
<1>6. ResultKept'  BY Zenon DEF TypeOK, ResultKept
<1>7. WaiterWoken'  BY Zenon DEF TypeOK, WaiterWoken, Callers
<1> QED  BY Zenon, <1>1, <1>2, <1>3, <1>4, <1>5, <1>6, <1>7

\* The channel holds the result, since only simple callers leave it empty.
LEMMA waitWorkEarlyKeeps ==
  ASSUME IInv, NEW w \in Works, waitWorkEarly(w)
  PROVE  IInv'
<1> USE DEF IInv, waitWorkEarly, End, Return, Give, Sane, work, worker, manager,
  callers, Goto
<1>1. TypeOK'  BY CallersAssumption DEF TypeOK, Steps, Callers
<1>2. Fresh'  BY Zenon DEF TypeOK, Fresh
<1>3. Steps'  BY DEF TypeOK, Steps, Fresh, Tracked, WaiterWoken, Callers, Calls, NoCall
<1>4. Channels'  BY CallersAssumption DEF TypeOK, Channels
<1>5. Tracked'
  <2>1. workerCall[w] \in Calls /\ owner[workerCall[w]] = w
    BY DEF TypeOK, Tracked
  <2>2. callRes[workerCall[w]] = "full"
    BY <2>1, CallersAssumption DEF TypeOK, Channels
  <2> QED  BY <2>1, <2>2 DEF TypeOK, Tracked
<1>6. ResultKept'  BY CallersAssumption DEF TypeOK, ResultKept
<1>7. WaiterWoken'  BY CallersAssumption DEF TypeOK, WaiterWoken, Callers
<1> QED  BY Zenon, <1>1, <1>2, <1>3, <1>4, <1>5, <1>6, <1>7

\* The result that is collected is the caller's own.
LEMMA waitWorkReadyKeeps ==
  ASSUME IInv, NEW w \in Works, waitWorkReady(w)
  PROVE  IInv'
<1> USE DEF IInv, waitWorkReady, Sane, collect, Trouble, End, Give, work, worker,
  manager, callers
<1>1. TypeOK'
  <2>1. given' \subseteq Calls \cup {NoCall} /\ trouble' \in 0 .. MaxTrouble
    BY BoundsAssumption DEF TypeOK
  <2>2. /\ status' \in [Works -> {"none", "started", "running", "done"}]
        /\ workerCall' \in [Works -> Calls \cup {NoCall}]
    BY Zenon DEF TypeOK
  <2> QED  BY Zenon, <2>1, <2>2 DEF TypeOK, Callers
<1>2. Fresh'  BY Zenon, CallersAssumption DEF TypeOK, Fresh
<1>3. Steps'
  BY CallersAssumption, BoundsAssumption DEF TypeOK, Steps, Fresh, Callers, Calls, NoCall
<1>4. Channels'  BY CallersAssumption DEF TypeOK, Channels
<1>5. Tracked'
  BY CallersAssumption, BoundsAssumption DEF TypeOK, Tracked, Steps, Channels, Callers, Calls, NoCall
<1>6. ResultKept'  BY DEF TypeOK, ResultKept, Calls
<1>7. WaiterWoken'  BY DEF TypeOK, WaiterWoken, Steps, Callers, NoCall
<1> QED  BY Zenon, <1>1, <1>2, <1>3, <1>4, <1>5, <1>6, <1>7

\* The caller sleeps on an open channel.
LEMMA waitWorkSleepKeeps ==
  ASSUME IInv, NEW w \in Works, waitWorkSleep(w)
  PROVE  IInv'
<1> USE DEF IInv, waitWorkSleep, Sane, work, worker, manager, callers
<1>1. TypeOK'  BY Zenon, CallersAssumption DEF TypeOK, Callers
<1>2. Fresh'  BY Zenon, CallersAssumption DEF TypeOK, Fresh
<1>3. Steps'
  BY CallersAssumption, BoundsAssumption DEF TypeOK, Steps, Callers, NoCall, Calls
<1>4. Channels'  BY Zenon DEF TypeOK, Channels
<1>5. Tracked'  BY DEF TypeOK, Tracked
<1>6. ResultKept'  BY DEF TypeOK, ResultKept
<1>7. WaiterWoken'  BY Zenon DEF TypeOK, WaiterWoken, Callers
<1> QED  BY Zenon, <1>1, <1>2, <1>3, <1>4, <1>5, <1>6, <1>7

\* The channel is closed, so there is a result to collect.
LEMMA waitWorkWakeKeeps ==
  ASSUME IInv, NEW w \in Works, waitWorkWake(w)
  PROVE  IInv'
<1> USE DEF IInv, waitWorkWake, collect, Trouble, End, Give, work, worker, manager,
  callers
<1>1. TypeOK'
  <2>1. given' \subseteq Calls \cup {NoCall} /\ trouble' \in 0 .. MaxTrouble
    BY BoundsAssumption DEF TypeOK
  <2>2. /\ status' \in [Works -> {"none", "started", "running", "done"}]
        /\ workerCall' \in [Works -> Calls \cup {NoCall}]
    BY Zenon DEF TypeOK
  <2> QED  BY Zenon, <2>1, <2>2 DEF TypeOK, Callers
<1>2. Fresh'  BY Zenon DEF TypeOK, Fresh
<1>3. Steps'  BY DEF TypeOK, Steps, Callers
<1>4. Channels'  BY DEF TypeOK, Channels
<1>5. Tracked'
  BY DEF TypeOK, Tracked, Steps, Channels, WaiterWoken, Fresh, Callers, Calls, NoCall
<1>6. ResultKept'  BY Zenon DEF TypeOK, ResultKept
<1>7. WaiterWoken'  BY DEF TypeOK, WaiterWoken, Callers
<1> QED  BY Zenon, <1>1, <1>2, <1>3, <1>4, <1>5, <1>6, <1>7

\* Only the caller's step changes.
LEMMA waitWorkCancelledKeeps ==
  ASSUME IInv, NEW w \in Works, waitWorkCancelled(w)
  PROVE  IInv'
<1> USE DEF IInv, waitWorkCancelled, Trouble, Return, work, manager, worker, callers,
  Goto
<1>1. TypeOK'
  BY CallersAssumption, BoundsAssumption DEF TypeOK, Steps, Callers, Calls, NoCall
<1>2. Fresh'  BY Zenon DEF TypeOK, Fresh
<1>3. Steps'  BY Zenon DEF TypeOK, Steps, Callers
<1>4. Channels'  BY Zenon DEF TypeOK, Channels
<1>5. Tracked'  BY Zenon DEF TypeOK, Tracked
<1>6. ResultKept'  BY Zenon DEF TypeOK, ResultKept
<1>7. WaiterWoken'  BY Zenon DEF TypeOK, WaiterWoken, Callers
<1> QED  BY Zenon, <1>1, <1>2, <1>3, <1>4, <1>5, <1>6, <1>7

\* A simple call, which may fail after the worker has begun.
LEMMA callSimpleKeeps ==
  ASSUME IInv, NEW s \in Simples, callSimple(s)
  PROVE  IInv'
<1> USE DEF IInv, callSimple, Trouble, Return, asyncCall, work, manager, callers,
  worker, Goto
<1>1. TypeOK'
  <2>1. made + 1 \in Calls /\ made' \in 0 .. MaxCalls /\ trouble' \in 0 .. MaxTrouble
    BY BoundsAssumption DEF TypeOK, Calls
  <2>2. /\ calls' \in [Calls -> {"none", "working", "returning", "ended"}]
        /\ owner' \in [Calls -> Callers \cup {None}]
    BY <2>1 DEF TypeOK, Callers
  <2>3. /\ pc' \in [Callers -> {"idle", "started", "called", "failed", "wait", "waiting", "done"}]
        /\ arg' \in [Callers -> Calls \cup {NoCall}]
    BY <2>1 DEF TypeOK, Callers
  <2> QED  BY Zenon, <2>1, <2>2, <2>3 DEF TypeOK
<1>2. Fresh'  BY CallersAssumption, BoundsAssumption DEF TypeOK, Fresh, Calls
<1>3. Steps'
  <2>1. made + 1 \in Calls /\ owner[made + 1] = None
    BY BoundsAssumption DEF TypeOK, Fresh, Calls
  <2>2. \A d \in Calls : owner[d] # None => owner'[d] = owner[d]
    BY <2>1 DEF TypeOK
  <2>3. owner'[made + 1] = s
    BY <2>1 DEF TypeOK
  <2> QED  BY <2>1, <2>2, <2>3, CallersAssumption DEF TypeOK, Steps, Callers
<1>4. Channels'  BY Zenon DEF TypeOK, Channels
<1>5. Tracked'
  BY CallersAssumption, BoundsAssumption DEF TypeOK, Tracked, Fresh, Callers, Calls
<1>6. ResultKept'  BY DEF TypeOK, ResultKept
<1>7. WaiterWoken'  BY DEF TypeOK, WaiterWoken, Callers
<1> QED  BY Zenon, <1>1, <1>2, <1>3, <1>4, <1>5, <1>6, <1>7

\* An early result is left in its channel.
LEMMA waitCallKeeps ==
  ASSUME IInv, NEW s \in Simples, waitCall(s)
  PROVE  IInv'
<1> USE DEF IInv, waitCall, Return, Goto, work, worker, manager, callers
<1>1. TypeOK'  BY DEF TypeOK, Callers
<1>2. Fresh'  BY Zenon DEF TypeOK, Fresh
<1>3. Steps'  BY CallersAssumption DEF TypeOK, Steps, Callers
<1>4. Channels'  BY DEF TypeOK, Channels, Steps, Callers
<1>5. Tracked'  BY DEF TypeOK, Tracked
<1>6. ResultKept'  BY DEF TypeOK, ResultKept
<1>7. WaiterWoken'  BY CallersAssumption DEF TypeOK, WaiterWoken, Callers
<1> QED  BY Zenon, <1>1, <1>2, <1>3, <1>4, <1>5, <1>6, <1>7

\* The result leaves its channel and is given.
LEMMA waitCallDoneKeeps ==
  ASSUME IInv, NEW s \in Simples, waitCallDone(s)
  PROVE  IInv'
<1> USE DEF IInv, waitCallDone, Give, work, worker, manager, callers
<1>1. TypeOK'  BY Zenon DEF TypeOK, Callers
<1>2. Fresh'  BY Zenon DEF TypeOK, Fresh
<1>3. Steps'  BY Zenon DEF TypeOK, Steps, Callers
<1>4. Channels'  BY Zenon DEF TypeOK, Channels
<1>5. Tracked'  BY DEF TypeOK, Tracked
<1>6. ResultKept'  BY DEF TypeOK, ResultKept
<1>7. WaiterWoken'  BY Zenon DEF TypeOK, WaiterWoken, Callers
<1> QED  BY Zenon, <1>1, <1>2, <1>3, <1>4, <1>5, <1>6, <1>7

\* A result left in the channel is counted as lost.
LEMMA waitCallCancelledKeeps ==
  ASSUME IInv, NEW s \in Simples, waitCallCancelled(s)
  PROVE  IInv'
<1> USE DEF IInv, waitCallCancelled, Trouble, Return, work, worker, manager, callers,
  Goto
<1>1. TypeOK'
  <2>1. trouble' \in 0 .. MaxTrouble
    BY BoundsAssumption DEF TypeOK
  <2>2. lost' \subseteq Calls /\ callRes' \in [Calls -> {"none", "open", "full"}]
    BY DEF TypeOK, Steps
  <2> QED  BY Zenon, <2>1, <2>2 DEF TypeOK, Callers
<1>2. Fresh'  BY Zenon DEF TypeOK, Fresh
<1>3. Steps'  BY Zenon DEF TypeOK, Steps, Callers
<1>4. Channels'  BY Zenon DEF TypeOK, Channels
<1>5. Tracked'  BY Zenon DEF TypeOK, Tracked
<1>6. ResultKept'  BY Zenon DEF TypeOK, ResultKept
<1>7. WaiterWoken'  BY Zenon DEF TypeOK, WaiterWoken, Callers
<1> QED  BY Zenon, <1>1, <1>2, <1>3, <1>4, <1>5, <1>6, <1>7

\* A result that the manager makes itself is accepted like the worker's.
LEMMA AbortKeeps ==
  ASSUME IInv, NEW c \in Calls, Abort(c)
  PROVE  IInv'
<1> USE DEF IInv, Abort, Trouble, Accepts, returnResult, callers, worker, work, manager
<1>1. TypeOK'
  <2>1. trouble' \in 0 .. MaxTrouble
    BY BoundsAssumption DEF TypeOK
  <2>2. CASE callToWork[c] = None
    BY Zenon, <2>1, <2>2 DEF TypeOK
  <2>3. CASE callToWork[c] # None
    BY <2>1, <2>3 DEF TypeOK
  <2> QED  BY Zenon, <2>2, <2>3
<1>2. Fresh'  BY Zenon DEF TypeOK, Fresh
<1>3. Steps'  BY DEF TypeOK, Steps, Fresh, Tracked, WaiterWoken, Callers, Calls, NoCall
<1>4. Channels'  BY DEF TypeOK, Channels
<1>5. Tracked'  BY DEF TypeOK, Tracked
<1>6. ResultKept'
  BY CallersAssumption, BoundsAssumption DEF TypeOK, ResultKept, Steps, Callers, Calls, NoCall
<1>7. WaiterWoken'  BY DEF TypeOK, WaiterWoken, Steps, Tracked, Callers, Calls, NoCall
<1> QED  BY Zenon, <1>1, <1>2, <1>3, <1>4, <1>5, <1>6, <1>7

\* Only the worker's view changes.
LEMMA finishKeeps ==
  ASSUME IInv, NEW c \in Calls, finish(c)
  PROVE  IInv'
<1> USE DEF IInv, finish, work, manager, callers, worker
<1>1. TypeOK'  BY Zenon DEF TypeOK, Callers
<1>2. Fresh'  BY Zenon DEF TypeOK, Fresh
<1>3. Steps'  BY Zenon DEF TypeOK, Steps, Callers
<1>4. Channels'  BY Zenon DEF TypeOK, Channels
<1>5. Tracked'  BY Zenon DEF TypeOK, Tracked
<1>6. ResultKept'  BY DEF TypeOK, ResultKept
<1>7. WaiterWoken'  BY Zenon DEF TypeOK, WaiterWoken, Callers
<1> QED  BY Zenon, <1>1, <1>2, <1>3, <1>4, <1>5, <1>6, <1>7

\* The worker forgets the call when its result is held.
LEMMA doReturnKeeps ==
  ASSUME IInv, NEW c \in Calls, doReturn(c)
  PROVE  IInv'
<1> USE DEF IInv, doReturn, Accepts, returnResult, callers, work, manager, worker
<1>1. TypeOK'  BY DEF TypeOK, Callers
<1>2. Fresh'  BY Zenon DEF TypeOK, Fresh
<1>3. Steps'  BY DEF TypeOK, Steps, Fresh, Tracked, WaiterWoken, Callers, Calls, NoCall
<1>4. Channels'  BY DEF TypeOK, Channels
<1>5. Tracked'  BY DEF TypeOK, Tracked
<1>6. ResultKept'
  BY CallersAssumption, BoundsAssumption DEF TypeOK, ResultKept, Steps, Callers, Calls, NoCall
<1>7. WaiterWoken'  BY DEF TypeOK, WaiterWoken, Steps, Tracked, Callers, Calls, NoCall
<1> QED  BY Zenon, <1>1, <1>2, <1>3, <1>4, <1>5, <1>6, <1>7

\* The record is not saved, or the worker will repeat the result.
LEMMA doReturnFaultyKeeps ==
  ASSUME IInv, NEW c \in Calls, doReturnFaulty(c)
  PROVE  IInv'
<1> USE DEF IInv, doReturnFaulty, Trouble, Accepts, returnResult, callers, work,
  manager, worker
<1>1. TypeOK'
  <2>1. trouble' \in 0 .. MaxTrouble
    BY BoundsAssumption DEF TypeOK
  <2>2. CASE callToWork[c] = None
    BY Zenon, <2>1, <2>2 DEF TypeOK
  <2>3. CASE callToWork[c] # None
    BY <2>1, <2>3 DEF TypeOK
  <2> QED  BY Zenon, <2>2, <2>3
<1>2. Fresh'  BY Zenon DEF TypeOK, Fresh
<1>3. Steps'  BY DEF TypeOK, Steps, Fresh, Tracked, WaiterWoken, Callers, Calls, NoCall
<1>4. Channels'  BY DEF TypeOK, Channels, Steps, Tracked, Callers
<1>5. Tracked'  BY DEF TypeOK, Tracked
<1>6. ResultKept'
  BY CallersAssumption, BoundsAssumption DEF TypeOK, ResultKept, Steps, Callers, Calls, NoCall
<1>7. WaiterWoken'  BY DEF TypeOK, WaiterWoken, Steps, Tracked, Callers, Calls, NoCall
<1> QED  BY Zenon, <1>1, <1>2, <1>3, <1>4, <1>5, <1>6, <1>7

\* The worker restarts: no call is forgotten.
LEMMA newLocalWorkerKeeps ==
  ASSUME IInv, newLocalWorker
  PROVE  IInv'
<1> USE DEF IInv, newLocalWorker, Trouble, work, manager, callers
<1>1. TypeOK'  BY BoundsAssumption DEF TypeOK
<1>2. Fresh'  BY Zenon DEF Fresh
<1>3. Steps'  BY Zenon DEF Steps
<1>4. Channels'  BY Zenon DEF Channels
<1>5. Tracked'  BY Zenon DEF Tracked
<1>6. ResultKept'  BY Zenon DEF TypeOK, ResultKept
<1>7. WaiterWoken'  BY Zenon DEF WaiterWoken
<1> QED  BY Zenon, <1>1, <1>2, <1>3, <1>4, <1>5, <1>6, <1>7

\* The manager restarts.  No two records name one call, since the call has one
\* owner, so every call of running work is mapped to its work again.
LEMMA restartKeeps ==
  ASSUME IInv, restart
  PROVE  IInv'
<1> USE DEF IInv, restart
<1>0. PICK abort \in BOOLEAN : setupWorkTracker(abort)
  BY Zenon
<1>a. ASSUME NEW c \in Calls, callToWork'[c] # None
      PROVE  callToWork'[c] \in Works /\ Kept(callToWork'[c], abort) /\ workerCall[callToWork'[c]] = c
  BY Zenon, <1>0, <1>a DEF setupWorkTracker
<1>b. ASSUME NEW w \in Works, Kept(w, abort)
      PROVE  workerCall[w] \in Calls /\ callToWork'[workerCall[w]] = w
  <2>1. workerCall[w] \in Calls /\ owner[workerCall[w]] = w
    BY <1>b DEF Kept, Steps, Tracked, Calls, NoCall
  <2>2. callToWork'[workerCall[w]] =
          CHOOSE v \in Works : Kept(v, abort) /\ workerCall[v] = workerCall[w]
    BY Zenon, <1>0, <1>b, <2>1 DEF setupWorkTracker
  <2>3. ASSUME NEW v \in Works, Kept(v, abort), workerCall[v] = workerCall[w]
        PROVE  v = w
    BY <2>1, <2>3 DEF Tracked, Calls, NoCall
  <2> QED  BY Zenon, <1>b, <2>1, <2>2, <2>3
<1>1. TypeOK'
  <2>1. callToWork' \in [Calls -> Works \cup {None}]
    BY Zenon, <1>0, <1>a DEF setupWorkTracker
  <2>2. /\ status' \in [Works -> {"none", "started", "running", "done"}]
        /\ workerCall' \in [Works -> Calls \cup {NoCall}]
    BY Zenon, <1>0 DEF setupWorkTracker, TypeOK
  <2> QED  BY <2>1, <2>2, BoundsAssumption DEF TypeOK, Trouble, worker
<1>2. Fresh'  BY Zenon DEF Fresh, worker
<1>3. Steps'
  BY Zenon, <1>0, <1>b, CallersAssumption DEF Steps, setupWorkTracker, Callers, Calls, NoCall
<1>4. Channels'  BY Zenon DEF Channels
<1>5. Tracked'
  <2>1. \A c \in Calls : callToWork'[c] # None =>
          /\ workerCall'[callToWork'[c]] = c
          /\ status'[callToWork'[c]] \in {"running", "done"}
    BY Zenon, <1>0, <1>a DEF setupWorkTracker
  <2>2. ASSUME NEW w \in Works, status'[w] = "running"
        PROVE  callToWork'[workerCall'[w]] = w
    BY Zenon, <1>0, <1>b, <2>2 DEF setupWorkTracker
  <2>3. ASSUME NEW w \in Works, NEW c \in {workerCall'[w], results'[w]} \ {NoCall}
        PROVE  owner'[c] = w
    BY Zenon, <1>0, <2>3 DEF setupWorkTracker, Tracked, worker
  <2> QED  BY Zenon, <2>1, <2>2, <2>3 DEF Tracked
<1>6. ResultKept'  BY Zenon DEF ResultKept, worker
<1>7. WaiterWoken'  BY Zenon DEF WaiterWoken, Callers
<1> QED  BY Zenon, <1>1, <1>2, <1>3, <1>4, <1>5, <1>6, <1>7

(***************************************************************************)
(* The theorems.                                                           *)
(***************************************************************************)

\* The invariant holds initially.
LEMMA InitInductive == Init => IInv
  BY CallersAssumption, BoundsAssumption
  DEF Init, IInv, TypeOK, Fresh, Steps, Channels, Tracked, ResultKept, WaiterWoken, Callers,
      Calls, NoCall

\* Every step keeps the invariant.
LEMMA NextInductive == IInv /\ [Next]_vars => IInv'
<1> SUFFICES ASSUME IInv, [Next]_vars PROVE IInv'
  BY Zenon
<1>1. CASE \E w \in Works : WorkStep(w)
  BY Zenon, <1>1, getWorkKeeps, cancelStartedKeeps, callWorkKeeps, callWorkFailsKeeps, startWorkKeeps,
     startWorkUnsavedKeeps, startWorkFailedKeeps, waitWorkFailsKeeps, waitWorkEarlyKeeps,
     waitWorkReadyKeeps, waitWorkSleepKeeps, waitWorkWakeKeeps, waitWorkCancelledKeeps
     DEF WorkStep
<1>2. CASE \E s \in Simples : SimpleStep(s)
  BY Zenon, <1>2, callSimpleKeeps, waitCallKeeps, waitCallDoneKeeps, waitCallCancelledKeeps
     DEF SimpleStep
<1>3. CASE \E c \in Calls : CallStep(c)
  BY Zenon, <1>3, AbortKeeps, finishKeeps, doReturnKeeps, doReturnFaultyKeeps DEF CallStep
<1>4. CASE newLocalWorker
  BY Zenon, <1>4, newLocalWorkerKeeps
<1>5. CASE restart
  BY <1>5, restartKeeps
<1>6. CASE UNCHANGED vars
  BY <1>6 DEF vars, work, manager, callers, worker, IInv, TypeOK, Fresh, Steps, Channels,
              Tracked, ResultKept, WaiterWoken
<1> QED  BY Zenon, <1>1, <1>2, <1>3, <1>4, <1>5, <1>6 DEF Next

\* The invariant holds in every state of the call tracker.
THEOREM Inductive == Spec => []IInv
<1> QED  BY InitInductive, NextInductive, PTL DEF Spec

\* All variables of the call tracker keep their types.
THEOREM TypesHold == Spec => []TypeOK
<1>1. IInv => TypeOK  BY DEF IInv
<1> QED  BY <1>1, Inductive, PTL

\* Records, the map of calls and the results held for work agree, also over
\* restarts of the manager (setupWorkTracker, startWork, returnResult).
THEOREM CallsAreTracked == Spec => []Tracked
<1>1. IInv => Tracked  BY DEF IInv
<1> QED  BY <1>1, Inductive, PTL

\* No accepted result disappears but by a restart of the manager or a caller
\* that stopped waiting.
THEOREM ResultsAreKept == Spec => []ResultKept
<1>1. IInv => ResultKept  BY DEF IInv
<1> QED  BY <1>1, Inductive, PTL

\* No waiter of waitWork misses its wakeup or is woken to an empty result.
THEOREM WaitersAreWoken == Spec => []WaiterWoken
<1>1. IInv => WaiterWoken  BY DEF IInv
<1> QED  BY <1>1, Inductive, PTL

\* Only five steps give a result; what they give is the caller's own.
LEMMA GivesOwn ==
  ASSUME IInv, [Next]_vars, NEW x \in Callers, pc[x] # "done", pc'[x] = "done"
  PROVE  arg'[x] \in Calls /\ owner[arg'[x]] = x
<1> USE DEF IInv
<1>1. ASSUME NEW w \in Works, waitWorkEarly(w)
      PROVE  arg'[x] \in Calls /\ owner[arg'[x]] = x
  BY <1>1, CallersAssumption
  DEF waitWorkEarly, Sane, Give, Return, Goto, TypeOK, Tracked, Channels, Callers, Calls, NoCall
<1>2. ASSUME NEW w \in Works, waitWorkReady(w)
      PROVE  arg'[x] \in Calls /\ owner[arg'[x]] = x
  BY <1>2 DEF waitWorkReady, collect, Give, TypeOK, Tracked, Callers, Calls, NoCall
<1>3. ASSUME NEW w \in Works, waitWorkWake(w)
      PROVE  arg'[x] \in Calls /\ owner[arg'[x]] = x
  BY <1>3 DEF waitWorkWake, collect, Give, TypeOK, Tracked, WaiterWoken, Callers, Calls, NoCall
<1>4. ASSUME NEW s \in Simples, waitCallDone(s)
      PROVE  arg'[x] \in Calls /\ owner[arg'[x]] = x
  BY Zenon, <1>4 DEF waitCallDone, Give, TypeOK, Steps, Callers
<1>5. ASSUME NEW w \in Works, WorkStep(w), ~waitWorkEarly(w), ~waitWorkReady(w), ~waitWorkWake(w)
      PROVE  FALSE
  BY <1>5 DEF WorkStep, getWork, cancelStarted, callWork, callWorkFails, startWork,
    startWorkUnsaved, startWorkFailed, waitWorkFails, waitWorkSleep, waitWorkCancelled,
    Return, Goto, TypeOK, Callers
<1>6. ASSUME NEW s \in Simples, SimpleStep(s), ~waitCallDone(s)
      PROVE  FALSE
  BY Zenon, <1>6 DEF SimpleStep, callSimple, waitCall, waitCallCancelled, Return, Goto, TypeOK, Callers
<1>7. ASSUME NEW c \in Calls, CallStep(c)
      PROVE  FALSE
  BY Zenon, <1>7 DEF CallStep, Abort, finish, doReturn, doReturnFaulty, callers
<1>8. ~newLocalWorker /\ ~restart /\ ~UNCHANGED vars
  BY Zenon DEF newLocalWorker, restart, vars, callers
<1> QED  BY Zenon, <1>1, <1>2, <1>3, <1>4, <1>5, <1>6, <1>7, <1>8 DEF Next

\* Every caller that returns with a result has the result of a call made for it.
THEOREM ResultsAreOwn == Spec => OwnResult
<1>1. IInv /\ [Next]_vars =>
        [\A x \in Callers : pc[x] # "done" /\ pc'[x] = "done" =>
           arg'[x] \in Calls /\ owner[arg'[x]] = x]_vars
  BY GivesOwn
<1> QED  BY <1>1, Inductive, PTL DEF Spec, OwnResult
=============================================================================
