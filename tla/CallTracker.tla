---------------------------- MODULE CallTracker ----------------------------
(***************************************************************************)
(* The calls that the storage manager makes to sealing workers.            *)
(*                                                                         *)
(* A worker answers a call at once with its identifier and reports the     *)
(* result later, in a call of its own that it repeats until the manager    *)
(* accepts it (worker_local.go).  Sealing tasks are work: the manager      *)
(* keeps a record of each in its datastore, so that after a restart the    *)
(* sector asks for the same work and waits for the call that is already    *)
(* running (manager_calltracker.go).  Other calls are simple: nothing of   *)
(* them survives a restart of the manager.                                 *)
(*                                                                         *)
(* There is one caller for every piece of work, since the parameters name  *)
(* the sector and a sector runs one handler at a time.  A result stands    *)
(* for the call it is the result of.                                       *)
(***************************************************************************)
EXTENDS Integers

CONSTANTS
  Works,        \* work identifiers, each with its caller
  Simples,      \* callers of simple calls
  None,         \* no work
  MaxCalls,     \* bound: calls made to workers
  MaxTrouble    \* bound: restarts, cancelled contexts, aborts and failures

ASSUME CallersAssumption == Works \cap Simples = {} /\ None \notin Works \cup Simples
ASSUME BoundsAssumption == MaxCalls \in Nat /\ MaxTrouble \in Nat

VARIABLES
  status,       \* the manager's datastore: status of every work, "none" without a record
  workerCall,   \* and the call that its record names
  callToWork,   \* work that a call belongs to
  callRes,      \* channels for results of calls without work: none, open, full
  results,      \* results of work that nobody has collected yet
  waitRes,      \* work with a channel that its waiter sleeps on
  pc,           \* step of each caller
  arg,          \* call that a caller made, and the one it was given the result of
  calls,        \* the worker's view of a call: none, working, returning, ended
  owner,        \* caller that made a call
  made,         \* calls made
  given,        \* calls whose result reached a caller
  lost,         \* calls whose result was dropped by a restart or a cancelled wait
  trouble

work == <<status, workerCall>>
manager == <<callToWork, callRes, results, waitRes>>
callers == <<pc, arg, given>>
worker == <<calls, owner, made>>
vars == <<work, manager, callers, worker, lost, trouble>>

Callers == Works \cup Simples
NoCall == 0
Calls == 1 .. MaxCalls

TypeOK ==
  /\ status \in [Works -> {"none", "started", "running", "done"}]
  /\ workerCall \in [Works -> Calls \cup {NoCall}]
  /\ callToWork \in [Calls -> Works \cup {None}]
  /\ callRes \in [Calls -> {"none", "open", "full"}]
  /\ results \in [Works -> Calls \cup {NoCall}]
  /\ waitRes \subseteq Works
  /\ pc \in [Callers -> {"idle", "started", "called", "failed", "wait", "waiting", "done"}]
  /\ arg \in [Callers -> Calls \cup {NoCall}]
  /\ calls \in [Calls -> {"none", "working", "returning", "ended"}]
  /\ owner \in [Calls -> Callers \cup {None}]
  /\ made \in 0 .. MaxCalls
  /\ given \subseteq Calls \cup {NoCall}
  /\ lost \subseteq Calls
  /\ trouble \in 0 .. MaxTrouble

Init ==
  /\ status = [w \in Works |-> "none"]
  /\ workerCall = [w \in Works |-> NoCall]
  /\ callToWork = [c \in Calls |-> None]
  /\ callRes = [c \in Calls |-> "none"]
  /\ results = [w \in Works |-> NoCall]
  /\ waitRes = {}
  /\ pc = [x \in Callers |-> "idle"]
  /\ arg = [x \in Callers |-> NoCall]
  /\ calls = [c \in Calls |-> "none"]
  /\ owner = [c \in Calls |-> None]
  /\ made = 0
  /\ given = {}
  /\ lost = {}
  /\ trouble = 0

Trouble == trouble < MaxTrouble /\ trouble' = trouble + 1

(***************************************************************************)
(* Steps of the callers: getWork, the call, startWork, waitWork.           *)
(***************************************************************************)

\* The record of w is removed.
End(w) ==
  /\ status' = [status EXCEPT ![w] = "none"]
  /\ workerCall' = [workerCall EXCEPT ![w] = NoCall]

Goto(x, l) == pc' = [pc EXCEPT ![x] = l] /\ UNCHANGED <<arg, given>>

\* A caller returns with an error.
Return(x) == Goto(x, "idle")

\* A caller returns with the result of call c.
Give(x, c) ==
  /\ pc' = [pc EXCEPT ![x] = "done"]
  /\ arg' = [arg EXCEPT ![x] = c]
  /\ given' = given \cup {c}

\* New work is recorded as started; known work is waited for.
getWork(w) ==
  /\ pc[w] \in {"idle", "done"}
  /\ IF status[w] = "none"
       THEN /\ status' = [status EXCEPT ![w] = "started"]
            /\ Goto(w, "started")
       ELSE /\ Goto(w, "wait")
            /\ UNCHANGED status
  /\ UNCHANGED <<workerCall, manager, worker, lost, trouble>>

\* Mutant of cancelStarted: the record is marked instead of ended.
cancelStartedMarks(w) ==
  /\ pc[w] = "started"
  /\ Trouble
  /\ status' = [status EXCEPT ![w] = "cancelled"]
  /\ Return(w)
  /\ UNCHANGED <<workerCall, manager, worker, lost>>

\* The sector lock or the scheduler fails: the deferred cancel ends started work.
cancelStarted(w) ==
  /\ pc[w] = "started"
  /\ Trouble
  /\ End(w)
  /\ Return(w)
  /\ UNCHANGED <<manager, worker, lost>>

\* The worker records the call of x and starts it in a goroutine.
asyncCall(x) ==
  /\ made < MaxCalls
  /\ made' = made + 1
  /\ calls' = [calls EXCEPT ![made + 1] = "working"]
  /\ owner' = [owner EXCEPT ![made + 1] = x]

\* The scheduler hands the work to a worker, which answers with a call.
callWork(w) ==
  /\ pc[w] = "started"
  /\ asyncCall(w)
  /\ pc' = [pc EXCEPT ![w] = "called"]
  /\ arg' = [arg EXCEPT ![w] = made + 1]
  /\ UNCHANGED <<work, manager, given, lost, trouble>>

\* The request fails before or after the worker has seen it.
callWorkFails(w) ==
  /\ pc[w] = "started"
  /\ Trouble
  /\ asyncCall(w) \/ UNCHANGED worker
  /\ Goto(w, "failed")
  /\ UNCHANGED <<work, manager, lost>>

\* The call is recorded and, from now on, its result is the work's.
startWork(w) ==
  /\ pc[w] = "called"
  /\ status' = [status EXCEPT ![w] = IF results[w] # NoCall THEN "done" ELSE "running"]
  /\ workerCall' = [workerCall EXCEPT ![w] = arg[w]]
  /\ callToWork' = [callToWork EXCEPT ![arg[w]] = w]
  /\ Goto(w, "wait")
  /\ UNCHANGED <<callRes, results, waitRes, worker, lost, trouble>>

\* The record cannot be written: startWork returns the error and the deferred
\* cancel ends the work, which is still started.
startWorkUnsaved(w) ==
  /\ pc[w] = "called"
  /\ Trouble
  /\ End(w)
  /\ Return(w)
  /\ UNCHANGED <<manager, worker, lost>>

\* The call failed: the work is done, with an error and without a call.  The
\* deferred cancel leaves work that is done alone.
startWorkFailed(w) ==
  /\ pc[w] = "failed"
  /\ status' = [status EXCEPT ![w] = "done"]
  /\ Return(w)
  /\ UNCHANGED <<workerCall, manager, worker, lost, trouble>>

\* waitWork checks that the record and the map of calls agree.
Sane(w) ==
  /\ status[w] \notin {"none", "started"}
  /\ workerCall[w] # NoCall
  /\ callToWork[workerCall[w]] = w

waitWorkFails(w) ==
  /\ pc[w] = "wait"
  /\ ~Sane(w)
  /\ Return(w)
  /\ UNCHANGED <<work, manager, worker, lost, trouble>>

\* The result came before startWork and is in the channel of the call.  If the
\* record cannot be ended, the lock is released twice and the manager stops:
\* that is restart, from this state.
waitWorkEarly(w) ==
  LET c == workerCall[w] IN
  /\ pc[w] = "wait"
  /\ Sane(w)
  /\ callRes[c] # "none"
  /\ callToWork' = [callToWork EXCEPT ![c] = None]
  /\ IF callRes[c] = "full"
       THEN /\ End(w)
            /\ callRes' = [callRes EXCEPT ![c] = "none"]
            /\ Give(w, c)
       ELSE Return(w) /\ UNCHANGED <<work, callRes>>
  /\ UNCHANGED <<results, waitRes, worker, lost, trouble>>

\* Mutant of collect: done() runs before the result is read.
collectLate(w, c) ==
  /\ results' = [results EXCEPT ![w] = NoCall]
  /\ Give(w, results'[w])
  /\ callToWork' = [callToWork EXCEPT ![c] = None]
  /\ \/ End(w) /\ UNCHANGED trouble
     \/ Trouble /\ UNCHANGED work
  /\ UNCHANGED <<callRes, waitRes, worker, lost>>

\* done() of waitWork for call c: it collects the result, which may be missing,
\* and ends the record.  An error in ending it is only logged.
collect(w, c) ==
  /\ Give(w, results[w])
  /\ results' = [results EXCEPT ![w] = NoCall]
  /\ callToWork' = [callToWork EXCEPT ![c] = None]
  /\ \/ End(w) /\ UNCHANGED trouble
     \/ Trouble /\ UNCHANGED work
  /\ UNCHANGED <<callRes, waitRes, worker, lost>>

\* The result is there already: it came after a restart, or a cancelled wait.
waitWorkReady(w) ==
  /\ pc[w] = "wait"
  /\ Sane(w)
  /\ callRes[workerCall[w]] = "none"
  /\ results[w] # NoCall
  /\ collect(w, workerCall[w])

\* The caller sleeps on the channel of the work, made if there is none.
waitWorkSleep(w) ==
  /\ pc[w] = "wait"
  /\ Sane(w)
  /\ callRes[workerCall[w]] = "none"
  /\ results[w] = NoCall
  /\ waitRes' = waitRes \cup {w}
  /\ pc' = [pc EXCEPT ![w] = "waiting"]
  /\ arg' = [arg EXCEPT ![w] = workerCall[w]]
  /\ UNCHANGED <<work, callToWork, callRes, results, given, worker, lost, trouble>>

\* The channel was closed.
waitWorkWake(w) ==
  /\ pc[w] = "waiting"
  /\ w \notin waitRes
  /\ collect(w, arg[w])

\* The context of the caller ends while it sleeps.
waitWorkCancelled(w) ==
  /\ pc[w] = "waiting"
  /\ Trouble
  /\ Return(w)
  /\ UNCHANGED <<work, manager, worker, lost>>

(***************************************************************************)
(* Simple calls.                                                           *)
(***************************************************************************)

\* A simple call: an error of the call itself is returned at once.
callSimple(s) ==
  /\ pc[s] \in {"idle", "done"}
  /\ \/ /\ asyncCall(s)
        /\ pc' = [pc EXCEPT ![s] = "called"]
        /\ arg' = [arg EXCEPT ![s] = made + 1]
        /\ UNCHANGED <<given, trouble>>
     \/ /\ Trouble
        /\ asyncCall(s)
        /\ Return(s)
  /\ UNCHANGED <<work, manager, lost>>

\* Mutant of waitCall: the channel is always made anew.
waitCallFresh(s) ==
  /\ pc[s] = "called"
  /\ callRes' = [callRes EXCEPT ![arg[s]] = "open"]
  /\ Goto(s, "waiting")
  /\ UNCHANGED <<work, callToWork, results, waitRes, worker, lost, trouble>>

\* The caller waits on the channel of its call, made if there is none.
waitCall(s) ==
  /\ pc[s] = "called"
  /\ IF callToWork[arg[s]] # None
       THEN Return(s) /\ UNCHANGED callRes
       ELSE /\ callRes' = IF callRes[arg[s]] = "none"
                            THEN [callRes EXCEPT ![arg[s]] = "open"] ELSE callRes
            /\ Goto(s, "waiting")
  /\ UNCHANGED <<work, callToWork, results, waitRes, worker, lost, trouble>>

\* The result is in the channel, which is then dropped.
waitCallDone(s) ==
  /\ pc[s] = "waiting"
  /\ callRes[arg[s]] = "full"
  /\ callRes' = [callRes EXCEPT ![arg[s]] = "none"]
  /\ Give(s, arg[s])
  /\ UNCHANGED <<work, callToWork, results, waitRes, worker, lost, trouble>>

\* The context of the caller ends; the channel is dropped with what is in it.
waitCallCancelled(s) ==
  /\ pc[s] = "waiting"
  /\ Trouble
  /\ callRes' = [callRes EXCEPT ![arg[s]] = "none"]
  /\ lost' = IF callRes[arg[s]] = "full" THEN lost \cup {arg[s]} ELSE lost
  /\ Return(s)
  /\ UNCHANGED <<work, callToWork, results, waitRes, worker>>

(***************************************************************************)
(* Results: returnResult of the manager, and the worker's side.            *)
(***************************************************************************)

\* returnResult refuses a second result for a call or for work.
Accepts(c) ==
  IF callToWork[c] = None THEN callRes[c] # "full" ELSE results[callToWork[c]] = NoCall

\* Mutant of returnResult: the waiter of the work is not woken.
returnResultSilent(c, saved) ==
  LET w == callToWork[c] IN
  IF w = None
    THEN /\ callRes' = [callRes EXCEPT ![c] = "full"]
         /\ UNCHANGED <<work, results, waitRes>>
    ELSE /\ results' = [results EXCEPT ![w] = c]
         /\ status' = IF saved THEN [status EXCEPT ![w] = "done"] ELSE status
         /\ UNCHANGED <<workerCall, callRes, waitRes>>

\* An accepted result goes to the channel of the call, or to its work, whose
\* waiter is woken.  An error in recording that the work is done is only logged.
returnResult(c, saved) ==
  LET w == callToWork[c] IN
  IF w = None
    THEN /\ callRes' = [callRes EXCEPT ![c] = "full"]
         /\ UNCHANGED <<work, results, waitRes>>
    ELSE /\ results' = [results EXCEPT ![w] = c]
         /\ status' = IF saved THEN [status EXCEPT ![w] = "done"] ELSE status
         /\ waitRes' = waitRes \ {w}
         /\ UNCHANGED <<workerCall, callRes>>

\* The user aborts a call: the manager returns an error in the worker's place.
Abort(c) ==
  /\ calls[c] \in {"working", "returning"}
  /\ Trouble
  /\ Accepts(c)
  /\ returnResult(c, TRUE)
  /\ UNCHANGED <<callToWork, callers, worker, lost>>

\* The worker's goroutine has finished the task, with or without success.
finish(c) ==
  /\ calls[c] = "working"
  /\ calls' = [calls EXCEPT ![c] = "returning"]
  /\ UNCHANGED <<work, manager, callers, owner, made, lost, trouble>>

\* An attempt of doReturn that the manager accepts, after which the worker
\* forgets the call.  A refused attempt changes nothing and is repeated.
doReturn(c) ==
  /\ calls[c] = "returning"
  /\ Accepts(c)
  /\ returnResult(c, TRUE)
  /\ calls' = [calls EXCEPT ![c] = "ended"]
  /\ UNCHANGED <<callToWork, callers, owner, made, lost, trouble>>

\* The same when the manager cannot save the record, or when its answer does not
\* arrive, so that the worker will repeat the attempt.
doReturnFaulty(c) ==
  /\ calls[c] = "returning"
  /\ Trouble
  /\ Accepts(c)
  /\ \/ returnResult(c, FALSE) /\ calls' = [calls EXCEPT ![c] = "ended"]
     \/ returnResult(c, TRUE) /\ UNCHANGED calls
  /\ UNCHANGED <<callToWork, callers, owner, made, lost>>

\* Mutant of newLocalWorker: the calls in the datastore are not reported.
newLocalWorkerSilent ==
  /\ Trouble
  /\ calls' = [c \in Calls |-> IF calls[c] = "ended" THEN "ended" ELSE "none"]
  /\ UNCHANGED <<work, manager, callers, owner, made, lost>>

\* The worker restarts: it returns an error for every call in its datastore.
newLocalWorker ==
  /\ Trouble
  /\ calls' = [c \in Calls |-> IF calls[c] = "working" THEN "returning" ELSE calls[c]]
  /\ UNCHANGED <<work, manager, callers, owner, made, lost>>

(***************************************************************************)
(* Restart of the manager.                                                 *)
(***************************************************************************)

\* Records of work that is running are kept, unless the environment asks to
\* abort unfinished work.
Kept(w, abort) == status[w] = "running" /\ ~abort

\* Mutant of setupWorkTracker: the calls of running work are not mapped again.
setupWorkTrackerUnmapped(abort) ==
  /\ status' = [w \in Works |-> IF Kept(w, abort) THEN "running" ELSE "none"]
  /\ workerCall' = [w \in Works |-> IF Kept(w, abort) THEN workerCall[w] ELSE NoCall]
  /\ callToWork' = [c \in Calls |-> None]

setupWorkTracker(abort) ==
  /\ status' = [w \in Works |-> IF Kept(w, abort) THEN "running" ELSE "none"]
  /\ workerCall' = [w \in Works |-> IF Kept(w, abort) THEN workerCall[w] ELSE NoCall]
  /\ callToWork' = [c \in Calls |->
       IF \E w \in Works : Kept(w, abort) /\ workerCall[w] = c
         THEN CHOOSE w \in Works : Kept(w, abort) /\ workerCall[w] = c
         ELSE None]

\* The maps start empty, callers begin anew, and results in memory are gone.
restart ==
  /\ Trouble
  /\ \E abort \in BOOLEAN : setupWorkTracker(abort)
  /\ callRes' = [c \in Calls |-> "none"]
  /\ results' = [w \in Works |-> NoCall]
  /\ waitRes' = {}
  /\ pc' = [x \in Callers |-> "idle"]
  /\ arg' = [x \in Callers |-> NoCall]
  /\ lost' = lost \cup {c \in Calls : callRes[c] = "full" \/ \E w \in Works : results[w] = c}
  /\ UNCHANGED <<given, worker>>

(***************************************************************************)
(* The specification.                                                      *)
(***************************************************************************)

WorkStep(w) ==
  \/ getWork(w) \/ cancelStarted(w)
  \/ callWork(w) \/ callWorkFails(w)
  \/ startWork(w) \/ startWorkUnsaved(w) \/ startWorkFailed(w)
  \/ waitWorkFails(w) \/ waitWorkEarly(w) \/ waitWorkReady(w)
  \/ waitWorkSleep(w) \/ waitWorkWake(w) \/ waitWorkCancelled(w)

SimpleStep(s) == callSimple(s) \/ waitCall(s) \/ waitCallDone(s) \/ waitCallCancelled(s)

CallStep(c) == Abort(c) \/ finish(c) \/ doReturn(c) \/ doReturnFaulty(c)

Next ==
  \/ \E w \in Works : WorkStep(w)
  \/ \E s \in Simples : SimpleStep(s)
  \/ \E c \in Calls : CallStep(c)
  \/ newLocalWorker
  \/ restart

Spec == Init /\ [][Next]_vars

\* Tasks end and workers repeat their reports; goroutines of the manager run.
FairSpec ==
  /\ Spec
  /\ \A c \in Calls : WF_vars(finish(c)) /\ WF_vars(doReturn(c))
  /\ \A w \in Works : WF_vars(waitWorkWake(w))
  /\ \A s \in Simples : WF_vars(waitCallDone(s))

(***************************************************************************)
(* Properties.                                                             *)
(***************************************************************************)

\* The map of calls names only work whose record names the call, and it names all
\* work that is running, also after a restart, unless its result was given and
\* the record could not be ended.  A record and the result held for it are of
\* calls made for that work: no result is taken for the result of other work.
Tracked ==
  /\ \A c \in Calls : callToWork[c] # None =>
       /\ workerCall[callToWork[c]] = c
       /\ status[callToWork[c]] \in {"running", "done"}
  /\ \A w \in Works :
       /\ status[w] = "running" =>
            callToWork[workerCall[w]] = w \/ workerCall[w] \in given
       /\ \A c \in {workerCall[w], results[w]} \ {NoCall} : owner[c] = w

\* A result that the manager has accepted, so that the worker has forgotten the
\* call, is given to its caller or is still held, unless a restart of the manager
\* or a caller that stopped waiting has dropped it (returnResult, waitCall, waitWork).
ResultKept ==
  \A c \in Calls : calls[c] = "ended" =>
    \/ c \in given \cup lost
    \/ callRes[c] = "full"
    \/ \E w \in Works : results[w] = c

\* A caller that sleeps in waitWork has an open channel while its call is out,
\* and finds the result once the channel is closed: no lost wakeup, and no waiter
\* that is woken to an empty result.
WaiterWoken ==
  \A w \in Works : pc[w] = "waiting" =>
    /\ callToWork[arg[w]] = w
    /\ w \in waitRes <=> results[w] = NoCall

\* A caller that returns with a result has the result of a call that was made for
\* it, never an empty one, whatever is repeated, aborted or restarted.
OwnResult ==
  [][\A x \in Callers : pc[x] # "done" /\ pc'[x] = "done" =>
       arg'[x] \in Calls /\ owner[arg'[x]] = x]_vars

\* The record says that a call is running whose result was taken by a manager
\* that stopped: nobody will return it again.
Orphan(w) ==
  /\ status[w] = "running"
  /\ calls[workerCall[w]] = "ended"
  /\ callRes[workerCall[w]] # "full"
  /\ results[w] = NoCall

\* Every caller that waits for a result returns, although results are repeated
\* and workers restart, unless its record is of a call that nobody will return
\* any more (waitWork, waitCall, doReturn, newLocalWorker).
Answered ==
  \A x \in Callers : pc[x] = "waiting" ~> (pc[x] # "waiting" \/ (x \in Works /\ Orphan(x)))

\* A caller that getWork tells to wait waits for work that has a call, as the
\* comment on getWork says: "returns wait=true when the task is already
\* tracked/running" (manager_calltracker.go:103).
WaitedIsTracked == \A w \in Works : pc[w] = "wait" => Sane(w)
=============================================================================
