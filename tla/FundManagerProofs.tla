------------------------- MODULE FundManagerProofs -------------------------
(***************************************************************************)
(* Proofs about the fund manager.                                          *)
(*                                                                         *)
(* First its control: a message is waited for by exactly one goroutine, no *)
(* request is left where nobody looks, and messages are lost track of only *)
(* by failed waits and restarts. None of this depends on how the queues    *)
(* are split into batches.                                                 *)
(*                                                                         *)
(* Then the amounts it keeps and the messages it sends: the types, that    *)
(* callers are told messages of their own wallet, that what callers were   *)
(* promised is reserved, and that the message on its way leaves the        *)
(* reserved amount in the escrow. How a queue is split into a batch is a   *)
(* fold over it: its steps are laid out first, and what each batch         *)
(* guarantees follows by induction.                                        *)
(***************************************************************************)
EXTENDS FundManager, FiniteSetTheorems, WellFoundedInduction, TLAPS

(* The message the manager knows of, saved to its state or about to be. *)
Tracked == {state.MsgCid, res.msgCid} \ {None}

(* The types the argument needs. *)
Types ==
    /\ up \in {"up", "down", "panicked"}
    /\ pc \in {"idle", "reserved", "withdraw", "withdrawn"}
    /\ procs \in Nat /\ waitErrors \in Nat /\ starts \in Nat
    /\ IsFiniteSet(pending)
    /\ \E S : sent \in Seq(S)

(* process runs in one goroutine, with no message to wait for, and holds a *)
(* result only between its steps.  The queues end with the process.        *)
Running ==
    /\ pc # "idle" => up = "up" /\ state.MsgCid = None /\ procs > 0
    /\ pc \in {"idle", "withdraw"} => res = NoResult
    /\ res.save \/ res.msgCid = None
    /\ up # "up" => queues = <<<<>>, <<>>, <<>>>>

Waiting ==
    up = "up" => waiters = IF state.MsgCid = None THEN {} ELSE {state.MsgCid}

Counted ==
    IF up = "up" THEN Cardinality(pending \ Tracked) <= waitErrors + starts
    ELSE Cardinality(pending) <= 1 + waitErrors + starts

IInv == Types /\ Running /\ Waiting /\ NoStrandedRequest /\ Counted

USE DEF None

(* What a batch adds up to.  Were callers promised no more than reserved    *)
(* was, plus what was released, they are promised no more after it.        *)
LEMMA ReservesEnough ==
    ASSUME NEW before \in Nat, NEW after \in Nat, NEW freed \in Nat, NEW released \in Nat,
           NEW reserved \in Nat, NEW new \in Nat, NEW delta \in Nat, NEW release \in Nat,
           before <= reserved + freed, after + release <= before + released + delta,
           reserved + delta <= new + release
    PROVE  after <= new + (freed + released)
BY SMT

(* The manager tracks one message at most, so it has lost all the others. *)
LEMMA TrackedOne ==
    ASSUME IInv
    PROVE  \E m : Tracked \subseteq {m}
<1>1. CASE pc = "idle"
    <2>1. res.msgCid = None
        BY <1>1 DEF IInv, Running, NoResult
    <2> QED
        BY Zenon, <2>1 DEF Tracked
<1>2. CASE pc # "idle"
    BY Zenon, <1>2 DEF IInv, Running, Tracked
<1> QED
    BY Zenon, <1>1, <1>2

(* Taking at most one element away lowers the size by at most one. *)
LEMMA SizeWithout ==
    ASSUME NEW S, IsFiniteSet(S), NEW T, NEW m, T \subseteq {m}
    PROVE  /\ Cardinality(S) \in Nat /\ Cardinality(S \ T) \in Nat
           /\ Cardinality(S) <= 1 + Cardinality(S \ T)
           /\ Cardinality(S \ T) <= Cardinality(S)
<1>0. Cardinality(S) \in Nat
    BY Zenon, FS_CardinalityType
<1>1. CASE T = {} \/ m \notin S
    <2>1. S \ T = S
        BY Zenon, <1>1
    <2> QED
        BY <1>0, <2>1
<1>2. CASE T = {m} /\ m \in S
    <2>1. /\ IsFiniteSet(S \ {m})
          /\ Cardinality(S \ {m}) = Cardinality(S) - 1
        BY Zenon, <1>2, FS_RemoveElement
    <2>2. Cardinality(S \ {m}) \in Nat
        BY Zenon, <2>1, FS_CardinalityType
    <2>3. S \ T = S \ {m}
        BY Zenon, <1>2
    <2>4. Cardinality(S \ T) \in Nat /\ Cardinality(S \ T) = Cardinality(S) - 1
        BY ONLY <2>1, <2>2, <2>3
    <2> QED
        BY ONLY <1>0, <2>4
<1> QED
    BY Zenon, <1>1, <1>2

(* The invariant holds when the manager is created. *)
LEMMA InitIInv == Init => IInv
<1> SUFFICES ASSUME Init PROVE IInv
    BY Zenon
<1>1. Types
    <2>1. sent \in Seq({})
        BY DEF Init
    <2> QED
        BY Zenon, <2>1, FS_EmptySet DEF Init, Types
<1>2. Running /\ Waiting /\ NoStrandedRequest
    BY Zenon DEF Init, Running, Waiting, NoStrandedRequest, queues, NoResult
<1>3. pending \ Tracked = {}
    BY Zenon DEF Init
<1>4. Counted
    BY <1>3, FS_EmptySet DEF Init, Counted
<1> QED
    BY Zenon, <1>1, <1>2, <1>4 DEF IInv

(* A step that changes none of what is counted. *)
LEMMA SameCount ==
    ASSUME IInv, up' = up, Tracked' = Tracked, UNCHANGED <<pending, counters>>
    PROVE  Counted'
BY Zenon DEF IInv, Counted, counters

(* process sends a message: the one it then tracks, there being no other. *)
LEMMA SendCounted ==
    ASSUME IInv, NEW wallet, NEW amt, send(wallet, amt),
           up = "up", up' = up, state.MsgCid = None, res = NoResult,
           Tracked' = {Len(sent) + 1}, UNCHANGED counters
    PROVE  Counted' /\ IsFiniteSet(pending') /\ \E S : sent' \in Seq(S)
<1>1. Tracked = {}
    BY Zenon DEF Tracked, NoResult
<1>2. pending' = pending \cup {Len(sent) + 1}
    BY Zenon DEF send
<1>3. pending' \ Tracked' = pending \/ pending' \ Tracked' = pending \ {Len(sent) + 1}
    BY Zenon, <1>2
<1>4. IsFiniteSet(pending) /\ pending \ Tracked = pending
    BY Zenon, <1>1 DEF IInv, Types
<1>5. /\ Cardinality(pending' \ Tracked') \in Nat
      /\ Cardinality(pending' \ Tracked') <= Cardinality(pending)
      /\ Cardinality(pending) \in Nat
    BY Zenon, <1>3, <1>4, SizeWithout, FS_CardinalityType
<1>6. Counted'
    <2>1. Cardinality(pending) <= waitErrors + starts
        BY Zenon, <1>4 DEF IInv, Counted
    <2>2. /\ waitErrors \in Nat /\ starts \in Nat
          /\ waitErrors' = waitErrors /\ starts' = starts
        BY Zenon DEF IInv, Types, counters
    <2>3. Cardinality(pending' \ Tracked') <= waitErrors' + starts'
        BY <1>5, <2>1, <2>2
    <2> QED
        BY Zenon, <2>3 DEF Counted
<1>7. IsFiniteSet(pending')
    BY Zenon, <1>2, <1>4, FS_AddElement
<1>8. \E S : sent' \in Seq(S)
    <2>1. PICK S : sent \in Seq(S)
        BY Zenon DEF IInv, Types
    <2> DEFINE x == [wallet |-> wallet, amt |-> amt]
    <2>2. sent \in Seq(S \cup {x})
        BY <2>1
    <2>3. Append(sent, x) \in Seq(S \cup {x})
        BY <2>2
    <2> QED
        BY Zenon, <2>3 DEF send
<1> QED
    BY Zenon, <1>6, <1>7, <1>8

(* A batch of reservations or withdrawals is answered: process holds its   *)
(* result, and nothing it waits for or has queued changes.                 *)
LEMMA Answering ==
    ASSUME IInv, NEW next, NEW result, next \in {"reserved", "withdrawn"},
           pc' = next, res' = result, pc \in {"idle", "withdraw"}, procs > 0,
           up = "up", state.MsgCid = None, result.save \/ result.msgCid = None,
           UNCHANGED <<up, state, queues, procs, waiters, disk, counters>>,
           \/ UNCHANGED chain /\ result.msgCid = None
           \/ /\ result.msgCid = Len(sent) + 1
              /\ \E wallet, amt : send(wallet, amt)
    PROVE  IInv'
<1>1. /\ UNCHANGED <<up, state, procs, waiters, waitErrors, starts>>
      /\ UNCHANGED <<reservations, releases, withdrawals>>
    BY Zenon DEF queues, counters
<1>2. Running' /\ Waiting' /\ NoStrandedRequest'
    BY Zenon, <1>1 DEF IInv, Running, Waiting, NoStrandedRequest, queues
<1>3. res = NoResult
    BY Zenon DEF IInv, Running
<1>4. CASE UNCHANGED chain /\ result.msgCid = None
    <2>1. UNCHANGED <<sent, pending>>
        BY Zenon, <1>4 DEF chain
    <2>2. Tracked' = Tracked
        BY Zenon, <1>1, <1>3, <1>4 DEF Tracked, NoResult
    <2>3. Counted'
        BY Zenon, <1>1, <2>1, <2>2, SameCount
    <2>4. Types'
        BY Zenon, <1>1, <2>1 DEF IInv, Types
    <2> QED
        BY Zenon, <1>2, <2>3, <2>4 DEF IInv
<1>5. CASE result.msgCid = Len(sent) + 1 /\ \E wallet, amt : send(wallet, amt)
    <2>1. Len(sent) \in Nat
        <3>1. PICK S : sent \in Seq(S)
            BY Zenon DEF IInv, Types
        <3> QED
            BY <3>1
    <2>2. Tracked' = {Len(sent) + 1}
        BY <1>1, <1>5, <2>1 DEF Tracked
    <2>3. Counted' /\ IsFiniteSet(pending') /\ \E S : sent' \in Seq(S)
        BY Zenon, <1>1, <1>3, <1>5, <2>2, SendCounted
    <2>4. Types'
        BY Zenon, <1>1, <2>3 DEF IInv, Types
    <2> QED
        BY Zenon, <1>2, <2>3, <2>4 DEF IInv
<1> QED
    BY Zenon, <1>4, <1>5

(* What a batch of withdrawals may start from. *)
LEMMA MayWithdraw ==
    ASSUME IInv, mayWithdraw
    PROVE  pc \in {"idle", "withdraw"} /\ procs > 0 /\ up = "up" /\ state.MsgCid = None
BY Zenon DEF IInv, Running, Types, mayWithdraw, mayProcess

(* Every batch keeps the invariant. *)
LEMMA BatchIInv ==
    ASSUME IInv, NEW late,
           \/ processCovered(late) \/ processAdded(late) \/ processReservationsFails(late)
           \/ processWithdrawn(late) \/ processRefused(late) \/ processWithdrawalsFails(late)
    PROVE  IInv'
<1>1. CASE processCovered(late)
    BY <1>1, Answering DEF processCovered, reservationsAnswered, mayProcess
<1>2. CASE processAdded(late)
    <2>1. PICK result :
              /\ result.msgCid = Len(sent) + 1 /\ result.save
              /\ \E wallet, amt : send(wallet, amt)
              /\ reservationsAnswered(result)
        BY Zenon, <1>2 DEF processAdded
    <2> QED
        BY <1>2, <2>1, Answering DEF processAdded, reservationsAnswered, mayProcess
<1>3. CASE processReservationsFails(late)
    BY <1>3, Answering DEF processReservationsFails, reservationsAnswered, mayProcess, NoResult
<1>4. CASE processWithdrawn(late)
    <2>1. PICK result :
              /\ result.msgCid = Len(sent) + 1 /\ result.save
              /\ \E wallet, amt : send(wallet, amt)
              /\ withdrawalsAnswered(result)
        BY Zenon, <1>4 DEF processWithdrawn, NoResult
    <2> QED
        BY <1>4, <2>1, Answering, MayWithdraw DEF processWithdrawn, withdrawalsAnswered
<1>5. CASE processRefused(late)
    BY <1>5, Answering, MayWithdraw DEF processRefused, withdrawalsAnswered, NoResult
<1>6. CASE processWithdrawalsFails(late)
    BY <1>6, Answering, MayWithdraw DEF processWithdrawalsFails, withdrawalsAnswered, NoResult
<1> QED
    BY Zenon, <1>1, <1>2, <1>3, <1>4, <1>5, <1>6

(* The results of a batch are applied: a message that was sent becomes the *)
(* one that is waited for.                                                 *)
LEMMA Applying ==
    ASSUME IInv, up = "up", pc \in {"reserved", "withdrawn"},
           state'.MsgCid = res.msgCid,
           UNCHANGED <<up, procs, chain, counters>>,
           \/ finishProcess
           \/ /\ state'.MsgCid = None
              /\ pc' = "withdraw" /\ res' = NoResult /\ UNCHANGED waiters
    PROVE  IInv'
<1>0. procs > 0 /\ state.MsgCid = None /\ waiters = {}
    BY Zenon DEF IInv, Running, Waiting
<1>1. UNCHANGED <<up, procs, sent, pending, waitErrors, starts>>
    BY Zenon DEF chain, counters
<1>2. state'.MsgCid = res.msgCid /\ res' = NoResult
    BY Zenon, <1>0 DEF finishProcess
<1>3. Tracked' = Tracked
    BY Zenon, <1>0, <1>2 DEF Tracked, NoResult
<1>4. Counted'
    BY Zenon, <1>1, <1>3, SameCount DEF counters
<1>5. Types' /\ Running' /\ Waiting'
    BY Zenon, <1>0, <1>1, <1>2 DEF IInv, Types, Running, Waiting, finishProcess, NoResult
<1>6. NoStrandedRequest'
    BY Zenon, <1>0, <1>1 DEF NoStrandedRequest
<1> QED
    BY Zenon, <1>4, <1>5, <1>6 DEF IInv

(* clearWaitState: the wait that ends is the one for MsgCid.  If it failed *)
(* the message may still be on its way, and one more is lost.              *)
LEMMA ClearIInv ==
    ASSUME IInv, NEW m, clearWaitState(m), starts' = starts,
           \/ m \notin pending /\ waitErrors' = waitErrors
           \/ waitErrors' = waitErrors + 1
    PROVE  IInv'
<1>1. /\ up = "up" /\ pc = "idle" /\ m \in waiters
      /\ state'.MsgCid = None
      /\ waiters' = waiters \ {m} /\ procs' = procs + 1
      /\ UNCHANGED <<up, pc, res, sent, pending>>
    BY Zenon DEF clearWaitState, chain
<1>2. waiters = {state.MsgCid} /\ m = state.MsgCid /\ waiters' = {}
    BY Zenon, <1>1 DEF IInv, Waiting
<1>3. Types' /\ Running' /\ Waiting' /\ NoStrandedRequest'
    BY <1>1, <1>2 DEF IInv, Types, Running, Waiting, NoStrandedRequest
<1>4. Tracked \subseteq {m} /\ Tracked' = {}
    BY <1>1, <1>2 DEF IInv, Running, Tracked, NoResult
<1>5. IsFiniteSet(pending) /\ waitErrors \in Nat /\ starts \in Nat
    BY Zenon DEF IInv, Types
<1>6. /\ Cardinality(pending) \in Nat /\ Cardinality(pending \ Tracked) \in Nat
      /\ Cardinality(pending) <= 1 + Cardinality(pending \ Tracked)
    BY Zenon, <1>4, <1>5, SizeWithout
<1>7. Cardinality(pending \ Tracked) <= waitErrors + starts
    BY Zenon, <1>1 DEF IInv, Counted
<1>8. m \notin pending => pending \ Tracked = pending
    BY Zenon, <1>4
<1>9. Cardinality(pending) <= waitErrors' + starts'
    BY <1>5, <1>6, <1>7, <1>8
<1>10. pending' \ Tracked' = pending
    BY Zenon, <1>1, <1>4
<1>11. Counted'
    BY Zenon, <1>1, <1>9, <1>10 DEF Counted
<1> QED
    BY Zenon, <1>3, <1>11 DEF IInv

(* The process ends: all that was known is lost. *)
LEMMA HaltIInv ==
    ASSUME IInv, up = "up", NEW how \in {"down", "panicked"}, halt(how)
    PROVE  IInv'
<1>1. /\ up' = how /\ state'.MsgCid = None /\ pc' = "idle" /\ res' = NoResult
      /\ procs' = 0 /\ queues' = <<<<>>, <<>>, <<>>>>
      /\ UNCHANGED <<sent, pending, waitErrors, starts>>
    BY Zenon DEF halt, chain, counters, queues
<1>2. Types' /\ Running' /\ Waiting' /\ NoStrandedRequest'
    BY Zenon, <1>1 DEF IInv, Types, Running, Waiting, NoStrandedRequest, NoResult
<1>3. PICK m : Tracked \subseteq {m}
    BY Zenon, TrackedOne
<1>4. IsFiniteSet(pending) /\ waitErrors \in Nat /\ starts \in Nat
    BY Zenon DEF IInv, Types
<1>5. /\ Cardinality(pending) \in Nat /\ Cardinality(pending \ Tracked) \in Nat
      /\ Cardinality(pending) <= 1 + Cardinality(pending \ Tracked)
    BY Zenon, <1>3, <1>4, SizeWithout
<1>6. Cardinality(pending \ Tracked) <= waitErrors + starts
    BY Zenon DEF IInv, Counted
<1>7. Counted'
    BY <1>1, <1>4, <1>5, <1>6 DEF Counted
<1> QED
    BY Zenon, <1>2, <1>7 DEF IInv

(* start: the message in the datastore is waited for; another that was on  *)
(* its way is one more that is lost.                                       *)
LEMMA StartIInv ==
    ASSUME IInv, start
    PROVE  IInv'
<1>1. /\ up # "up" /\ up' = "up" /\ starts' = starts + 1
      /\ waiters' = IF state'.MsgCid # None THEN {state'.MsgCid} ELSE {}
      /\ UNCHANGED <<reservations, releases, withdrawals, pc, res, procs, sent, pending,
                     waitErrors>>
    BY Zenon DEF start, chain, queues
<1>2. pc = "idle" /\ res = NoResult
    BY Zenon, <1>1 DEF IInv, Running, Types
<1>3. Types' /\ Running' /\ Waiting'
    BY <1>1, <1>2 DEF IInv, Types, Running, Waiting
<1>4. NoStrandedRequest'
    BY Zenon, <1>1 DEF IInv, Running, NoStrandedRequest, queues
<1>5. IsFiniteSet(pending) /\ waitErrors \in Nat /\ starts \in Nat
    BY Zenon DEF IInv, Types
<1>6. Tracked' \subseteq {state'.MsgCid}
    BY Zenon, <1>1, <1>2 DEF Tracked, NoResult
<1>7. /\ Cardinality(pending) \in Nat /\ Cardinality(pending \ Tracked') \in Nat
      /\ Cardinality(pending \ Tracked') <= Cardinality(pending)
    BY Zenon, <1>5, <1>6, SizeWithout
<1>8. Cardinality(pending) <= 1 + waitErrors + starts
    BY Zenon, <1>1 DEF IInv, Counted
<1>9. Cardinality(pending \ Tracked') <= waitErrors' + starts'
    BY <1>1, <1>5, <1>7, <1>8
<1>10. Counted'
    BY Zenon, <1>1, <1>9 DEF Counted
<1> QED
    BY Zenon, <1>3, <1>4, <1>10 DEF IInv

(* A step of the callers or of the chain. *)
LEMMA OutsideIInv ==
    ASSUME IInv, UNCHANGED <<up, state, pc, res, waiters, sent, counters>>,
           procs' \in Nat, procs' >= procs,
           UNCHANGED queues \/ (up = "up" /\ procs' > 0),
           NEW T, T = pending', T \subseteq pending
    PROVE  IInv'
<1>1. UNCHANGED <<waitErrors, starts>> /\ Tracked' = Tracked
    BY Zenon DEF counters, Tracked
<1>2. /\ IsFiniteSet(pending) /\ IsFiniteSet(pending \ Tracked)
      /\ pending' \ Tracked \subseteq pending \ Tracked
    BY Zenon, FS_Difference DEF IInv, Types
<1>3. /\ IsFiniteSet(pending')
      /\ Cardinality(pending') <= Cardinality(pending)
      /\ Cardinality(pending' \ Tracked) <= Cardinality(pending \ Tracked)
    BY Zenon, <1>2, FS_Subset
<1>4. /\ Cardinality(pending') \in Nat /\ Cardinality(pending) \in Nat
      /\ Cardinality(pending \ Tracked) \in Nat
      /\ Cardinality(pending' \ Tracked) \in Nat
    BY Zenon, <1>2, <1>3, FS_CardinalityType, FS_Subset
<1>5. Types' /\ Running' /\ Waiting' /\ NoStrandedRequest'
    BY <1>1, <1>3 DEF IInv, Types, Running, Waiting, NoStrandedRequest, queues
<1>6. Counted'
    <2>1. waitErrors \in Nat /\ starts \in Nat
        BY Zenon DEF IInv, Types
    <2>2. CASE up = "up"
        BY <1>1, <1>3, <1>4, <2>1, <2>2 DEF IInv, Counted
    <2>3. CASE up # "up"
        BY <1>1, <1>3, <1>4, <2>1, <2>3 DEF IInv, Counted
    <2> QED
        BY Zenon, <2>2, <2>3
<1> QED
    BY Zenon, <1>5, <1>6 DEF IInv

(* Every step keeps the invariant. *)
LEMMA StepIInv == IInv /\ [Next]_vars => IInv'
<1> SUFFICES ASSUME IInv, [Next]_vars PROVE IInv'
    BY Zenon
<1>0. procs \in Nat
    BY Zenon DEF IInv, Types
<1>1. ASSUME NEW q \in Requests, requestAndWait(q) PROVE IInv'
    BY <1>0, <1>1, OutsideIInv DEF requestAndWait, chain, counters
<1>2. ASSUME NEW q \in Requests, contextDone(q) PROVE IInv'
    BY <1>0, <1>2, OutsideIInv DEF contextDone, chain, memory, counters
<1>3. CASE processNothing
    <2>1. /\ UNCHANGED <<up, state, pc, res, waiters, sent, pending, waitErrors, starts>>
          /\ UNCHANGED <<reservations, releases, withdrawals>>
          /\ procs > 0 /\ procs' = procs - 1 /\ up = "up" /\ pc = "idle"
          /\ state.MsgCid # None \/ queues = <<<<>>, <<>>, <<>>>>
        BY Zenon, <1>3 DEF processNothing, chain, counters, queues
    <2>2. Types' /\ Running' /\ Waiting' /\ NoStrandedRequest'
        BY <1>0, <2>1 DEF IInv, Types, Running, Waiting, NoStrandedRequest, queues
    <2>3. Counted'
        BY Zenon, <2>1, SameCount DEF Tracked, counters
    <2> QED
        BY Zenon, <2>2, <2>3 DEF IInv
<1>4. CASE applyReservations
    <2>1. state'.MsgCid = res.msgCid
        <3>1. pc # "idle" => state.MsgCid = None
            BY Zenon DEF IInv, Running
        <3>2. CASE res.save
            BY <1>4, <3>2 DEF applyReservations
        <3>3. CASE ~res.save
            BY Zenon, <1>4, <3>1, <3>3 DEF applyReservations, IInv, Running
        <3> QED
            BY Zenon, <3>2, <3>3
    <2> QED
        BY Zenon, <1>4, <2>1, Applying DEF applyReservations
<1>5. CASE applyWithdrawals
    <2>1. state'.MsgCid = res.msgCid
        <3>1. pc # "idle" => state.MsgCid = None
            BY DEF IInv, Running
        <3>2. CASE res.save
            BY <1>5, <3>2 DEF applyWithdrawals
        <3>3. CASE ~res.save
            BY Zenon, <1>5, <3>1, <3>3 DEF applyWithdrawals, IInv, Running
        <3> QED
            BY <3>2, <3>3
    <2> QED
        BY Zenon, <1>5, <2>1, Applying DEF applyWithdrawals
<1>6. CASE completeTwice
    BY Zenon, <1>6, HaltIInv, MayWithdraw DEF completeTwice
<1>7. CASE process
    BY Zenon, <1>3, <1>4, <1>5, <1>6, <1>7, BatchIInv DEF process
<1>8. ASSUME NEW m, waitDone(m) \/ waitFails(m) PROVE IInv'
    BY Zenon, <1>8, ClearIInv DEF waitDone, waitFails, clearWaitState
<1>9. ASSUME NEW m, execute(m) PROVE IInv'
    BY <1>0, <1>9, OutsideIInv DEF execute, memory
<1>10. ASSUME NEW q, lockFunds(q) PROVE IInv'
    BY <1>0, <1>10, OutsideIInv DEF lockFunds, memory
<1>11. CASE exit
    BY Zenon, <1>11, HaltIInv DEF exit
<1>12. CASE UNCHANGED vars
    BY <1>0, <1>12, OutsideIInv DEF vars, memory, chain
<1> QED
    BY Zenon, <1>1, <1>2, <1>7, <1>8, <1>9, <1>10, <1>11, <1>12, StartIInv DEF Next

(* The invariant holds in every reachable state of the manager. *)
THEOREM Invariance == Spec => []IInv
BY InitIInv, StepIInv, PTL DEF Spec

(* A queued request always has a goroutine that will look at it, or a      *)
(* message whose wait will start one.                                      *)
THEOREM RequestsAreSeen == Spec => []NoStrandedRequest
BY Invariance, PTL DEF IInv

(* Exactly the message in MsgCid is waited for, also after a restart. *)
THEOREM MessageIsAwaited == Spec => []MsgHasWaiter
<1>1. IInv => MsgHasWaiter
    BY DEF IInv, Waiting, MsgHasWaiter
<1> QED
    BY <1>1, Invariance, PTL

(* A message goes missing only by a failed wait or a restart. *)
THEOREM LossIsBounded == Spec => []LostMessages
<1>1. IInv => LostMessages
    <2> SUFFICES ASSUME IInv PROVE LostMessages
        BY Zenon
    <2>1. PICK m : Tracked \subseteq {m}
        BY Zenon, TrackedOne
    <2>2. IsFiniteSet(pending) /\ waitErrors \in Nat /\ starts \in Nat
        BY Zenon DEF IInv, Types
    <2>3. /\ Cardinality(pending) \in Nat /\ Cardinality(pending \ Tracked) \in Nat
          /\ Cardinality(pending) <= 1 + Cardinality(pending \ Tracked)
        BY Zenon, <2>1, <2>2, SizeWithout
    <2> QED
        BY <2>2, <2>3 DEF IInv, Counted, LostMessages
<1> QED
    BY <1>1, Invariance, PTL

(* Without failed waits and restarts the address has one message at most   *)
(* on its way.                                                             *)
THEOREM OneMessageAtATime ==
    ASSUME MaxWaitErrors = 0, MaxStarts = 0
    PROVE  Spec => []OneMessage
<1> DEFINE NoLoss == waitErrors = 0 /\ starts = 0
<1>1. Init => NoLoss
    BY Zenon DEF Init
<1>2. NoLoss /\ [Next]_vars => NoLoss'
    <2> SUFFICES ASSUME NoLoss, [Next]_vars PROVE NoLoss'
        BY Zenon
    <2>1. ASSUME NEW late,
                 \/ processCovered(late) \/ processAdded(late) \/ processReservationsFails(late)
                 \/ processWithdrawn(late) \/ processRefused(late)
                 \/ processWithdrawalsFails(late)
          PROVE  NoLoss'
        BY Zenon, <2>1 DEF processCovered, processAdded, processReservationsFails, processWithdrawn,
            processRefused, processWithdrawalsFails, reservationsAnswered, withdrawalsAnswered,
            counters
    <2>2. CASE process
        BY Zenon, <2>1, <2>2 DEF process, processNothing, applyReservations, applyWithdrawals,
            completeTwice, halt, counters
    <2>3. ASSUME NEW m, waitDone(m) \/ waitFails(m) \/ execute(m) PROVE NoLoss'
        BY <2>3 DEF waitDone, waitFails, execute, clearWaitState, counters
    <2>4. ASSUME NEW q, requestAndWait(q) \/ contextDone(q) \/ lockFunds(q) PROVE NoLoss'
        BY Zenon, <2>4 DEF requestAndWait, contextDone, lockFunds, counters
    <2>5. CASE exit \/ start \/ UNCHANGED vars
        BY <2>5 DEF exit, start, halt, vars, counters
    <2> QED
        BY Zenon, <2>2, <2>3, <2>4, <2>5 DEF Next
<1>3. NoLoss /\ LostMessages => OneMessage
    BY DEF LostMessages, OneMessage
<1> QED
    BY <1>1, <1>2, <1>3, LossIsBounded, PTL DEF Spec

-----------------------------------------------------------------------------
(* Folds over a sequence: what they compute step by step. Induction is     *)
(* stated for a set of numbers, not for a predicate, so that a proof can   *)
(* use it by naming the set of the numbers it is to hold for.              *)

(* A set that holds zero and is closed under successor holds every number. *)
LEMMA SetInduction ==
    ASSUME NEW P, 0 \in P, \A n \in Nat : n \in P => n + 1 \in P
    PROVE  \A n \in Nat : n \in P
<1> DEFINE Bad == Nat \ P
<1>1. SUFFICES ASSUME Bad # {} PROVE FALSE
    BY Zenon
<1>2. PICK x \in Bad : \A y \in Bad : ~(<<y, x>> \in OpToRel(<, Nat))
    BY Zenon, <1>1, NatLessThanWellFounded, WFMin
<1>3. x # 0 /\ x - 1 \in Nat
    OBVIOUS
<1>4. <<x - 1, x>> \in OpToRel(<, Nat)
    BY <1>3 DEF OpToRel
<1>5. x - 1 \in P
    BY Zenon, <1>2, <1>3, <1>4
<1>6. x - 1 + 1 \in P
    BY Zenon, <1>3, <1>5
<1> QED
    BY <1>6

(* The maximum by which the folds over a sequence take their next element. *)
LEMMA MaxIn ==
    ASSUME NEW n \in Nat, NEW s \in SUBSET (1 .. n), s # {}
    PROVE  Max(s) \in s /\ \A y \in s : y <= Max(s)
<1> DEFINE HasMax(t) == \E x \in t : \A y \in t : x >= y
           P == {k \in Nat : \A t \in SUBSET (1 .. k) : t # {} => HasMax(t)}
<1>1. 0 \in P
    <2>1. \A t \in SUBSET (1 .. 0) : t = {}
        OBVIOUS
    <2> QED
        BY Zenon, <2>1
<1>2. ASSUME NEW k \in Nat, k \in P PROVE k + 1 \in P
    <2>1. ASSUME NEW t \in SUBSET (1 .. k + 1), t # {} PROVE HasMax(t)
        <3>1. CASE k + 1 \in t
            BY <3>1
        <3>2. CASE k + 1 \notin t
            <4>1. t \in SUBSET (1 .. k)
                BY <3>2
            <4> QED
                BY Zenon, <1>2, <2>1, <4>1
        <3> QED
            BY Zenon, <3>1, <3>2
    <2> HIDE DEF HasMax
    <2> QED
        BY <2>1
<1>3. n \in P
    <2> HIDE DEF P
    <2> QED
        BY Zenon, <1>1, <1>2, SetInduction
<1>4. HasMax(s)
    BY Zenon, <1>3
<1> QED
    BY Zenon, <1>4 DEF Max

(* The first elements of a sequence are the last one and those before it. *)
LEMMA MaxPrefix ==
    ASSUME NEW k \in Nat, k # 0
    PROVE  /\ Max(1 .. k) = k
           /\ (1 .. k) \ {k} = 1 .. k - 1
<1>1. Max(1 .. k) \in 1 .. k /\ \A y \in 1 .. k : y <= Max(1 .. k)
    <2>1. 1 .. k \in SUBSET (1 .. k) /\ 1 .. k # {}
        OBVIOUS
    <2> QED
        BY Zenon, <2>1, MaxIn
<1>2. k \in 1 .. k
    OBVIOUS
<1>3. k <= Max(1 .. k)
    BY Zenon, <1>1, <1>2
<1>4. Max(1 .. k) = k
    BY <1>1, <1>3
<1>5. (1 .. k) \ {k} = 1 .. k - 1
    OBVIOUS
<1> QED
    BY Zenon, <1>4, <1>5

(* f folds G over the sequence from its first element to its last. *)
IsSeqFold(f, seq, A, V, base, G) ==
    /\ f \in [SUBSET DOMAIN seq -> V]
    /\ f[{}] = base
    /\ \A s \in SUBSET DOMAIN seq : s # {} =>
           /\ f[s \ {Max(s)}] \in V /\ seq[Max(s)] \in A
           /\ f[s] = G[<<f[s \ {Max(s)}], seq[Max(s)]>>]

(* The recursion of a fold over a sequence has a solution: it is extended  *)
(* from the subsets of the first k positions to those of the first k + 1.  *)
LEMMA SeqFold ==
    ASSUME NEW A, NEW seq \in Seq(A), NEW V, NEW base \in V, NEW G \in [V \X A -> V]
    PROVE  \E f : IsSeqFold(f, seq, A, V, base, G)
<1> DEFINE n == Len(seq)
           Solves(f, s) == f[s] = G[<<f[s \ {Max(s)}], seq[Max(s)]>>]
           Folds(k, f) == /\ f \in [SUBSET (1 .. k) -> V] /\ f[{}] = base
                          /\ \A s \in SUBSET (1 .. k) : s # {} => Solves(f, s)
           P == {k \in Nat : k <= n => \E f : Folds(k, f)}
<1>1. n \in Nat /\ DOMAIN seq = 1 .. n
    OBVIOUS
<1>2. 0 \in P
    <2> DEFINE f == [s \in SUBSET (1 .. 0) |-> base]
    <2>1. \A s \in SUBSET (1 .. 0) : s = {}
        OBVIOUS
    <2>2. f \in [SUBSET (1 .. 0) -> V] /\ f[{}] = base
        BY Zenon, <2>1
    <2>3. Folds(0, f)
        BY Zenon, <2>1, <2>2
    <2> HIDE DEF f, Folds
    <2> QED
        BY Zenon, <2>3
<1>3. ASSUME NEW k \in Nat, k \in P PROVE k + 1 \in P
    <2>1. SUFFICES ASSUME k + 1 <= n PROVE \E f : Folds(k + 1, f)
        <3> HIDE DEF Folds
        <3> QED
            OBVIOUS
    <2>2. PICK f : Folds(k, f)
        <3>1. k <= n
            BY <1>1, <2>1
        <3> HIDE DEF Folds
        <3> QED
            BY Zenon, <1>3, <3>1
    <2>3. k + 1 \in 1 .. n /\ seq[k + 1] \in A
        BY <1>1, <2>1
    <2> DEFINE g == [s \in SUBSET (1 .. k + 1) |->
                        IF k + 1 \in s THEN G[<<f[s \ {k + 1}], seq[k + 1]>>] ELSE f[s]]
    <2>4. ASSUME NEW s \in SUBSET (1 .. k + 1)
          PROVE  /\ s \ {k + 1} \in SUBSET (1 .. k)
                 /\ k + 1 \notin s => s \in SUBSET (1 .. k) /\ g[s] = f[s]
                 /\ k + 1 \in s => g[s] = G[<<f[s \ {k + 1}], seq[k + 1]>>]
        OBVIOUS
    <2>5. g \in [SUBSET (1 .. k + 1) -> V]
        BY Zenon, <2>2, <2>3, <2>4
    <2>6. g[{}] = base
        BY Zenon, <2>2, <2>4
    <2>7. ASSUME NEW s \in SUBSET (1 .. k + 1), s # {} PROVE Solves(g, s)
        <3>0. k + 1 \in Nat
            OBVIOUS
        <3>1. Max(s) \in s /\ \A y \in s : y <= Max(s)
            BY Zenon, <2>7, <3>0, MaxIn
        <3>2. CASE k + 1 \in s
            <4>1. Max(s) = k + 1
                <5>1. Max(s) \in 1 .. k + 1 /\ k + 1 <= Max(s)
                    BY Zenon, <3>1, <3>2
                <5> HIDE DEF n
                <5> QED
                    BY <5>1
            <4>2. g[s \ {k + 1}] = f[s \ {k + 1}]
                BY Zenon, <2>4
            <4> HIDE DEF g
            <4> QED
                BY Zenon, <2>4, <3>2, <4>1, <4>2
        <3>3. CASE k + 1 \notin s
            <4>1. s \in SUBSET (1 .. k) /\ g[s] = f[s]
                BY Zenon, <2>4, <3>3
            <4>2. g[s \ {Max(s)}] = f[s \ {Max(s)}]
                BY Zenon, <3>3, <4>1
            <4> HIDE DEF g
            <4> QED
                BY Zenon, <2>2, <2>7, <4>1, <4>2
        <3> QED
            BY Zenon, <3>2, <3>3
    <2>8. Folds(k + 1, g)
        <3> HIDE DEF g, Solves
        <3> QED
            BY Zenon, <2>5, <2>6, <2>7
    <2> HIDE DEF g, Folds
    <2> QED
        BY Zenon, <2>8
<1>4. PICK f : Folds(n, f)
    <2>1. n \in P
        <3> HIDE DEF P
        <3> QED
            BY Zenon, <1>1, <1>2, <1>3, SetInduction
    <2> HIDE DEF Folds
    <2> QED
        BY <1>1, <2>1
<1>5. ASSUME NEW s \in SUBSET DOMAIN seq, s # {}
      PROVE  f[s \ {Max(s)}] \in V /\ seq[Max(s)] \in A
    <2>1. Max(s) \in s
        BY Zenon, <1>1, <1>5, MaxIn
    <2> QED
        BY <1>1, <1>4, <2>1
<1> QED
    BY Zenon, <1>1, <1>4, <1>5 DEF IsSeqFold

(* The recursion of a fold, taken at the first k elements of a sequence. *)
LEMMA FoldPrefix ==
    ASSUME NEW A, NEW seq \in Seq(A), NEW k \in 1 .. Len(seq)
    PROVE  /\ Max(1 .. k) = k /\ (1 .. k) \ {k} = 1 .. k - 1
           /\ 1 .. k \in SUBSET DOMAIN seq /\ 1 .. k # {}
<1>1. k \in Nat /\ k # 0 /\ 1 <= k /\ k <= Len(seq) /\ Len(seq) \in Nat
    OBVIOUS
<1>2. 1 .. k \subseteq 1 .. Len(seq) /\ 1 \in 1 .. k /\ DOMAIN seq = 1 .. Len(seq)
    BY <1>1
<1>3. Max(1 .. k) = k /\ (1 .. k) \ {k} = 1 .. k - 1
    BY Zenon, <1>1, MaxPrefix
<1> QED
    BY Zenon, <1>2, <1>3

-----------------------------------------------------------------------------
(* A filter, written as the loop that appends what it keeps. *)
Without(seq, C) == FoldLeft(LAMBDA kept, q : IF q \in C THEN kept ELSE Append(kept, q), <<>>, seq)

(* The filter keeps elements of the sequence that are not in C, and        *)
(* nothing when there are none.                                            *)
LEMMA WithoutKeeps ==
    ASSUME NEW A, NEW seq \in Seq(A), NEW C
    PROVE  /\ Without(seq, C) \in Seq(A)
           /\ \A i \in DOMAIN Without(seq, C) :
                  /\ Without(seq, C)[i] \notin C
                  /\ \E j \in DOMAIN seq : Without(seq, C)[i] = seq[j]
           /\ (\A j \in DOMAIN seq : seq[j] \in C) => Without(seq, C) = <<>>
<1> DEFINE step(kept, q) == IF q \in C THEN kept ELSE Append(kept, q)
           G == [p \in Seq(A) \X A |-> step(p[1], p[2])]
           n == Len(seq)
<1>1. G \in [Seq(A) \X A -> Seq(A)]
    OBVIOUS
<1>2. PICK f : IsSeqFold(f, seq, A, Seq(A), <<>>, G)
    <2>1. <<>> \in Seq(A)
        OBVIOUS
    <2> HIDE DEF G
    <2> QED
        BY Zenon, <1>1, <2>1, SeqFold
<1>3. f = [s \in SUBSET DOMAIN seq |->
              IF s = {} THEN <<>> ELSE step(f[s \ {Max(s)}], seq[Max(s)])]
    <2>1. \A s \in SUBSET DOMAIN seq : s # {} =>
              /\ f[s \ {Max(s)}] \in Seq(A) /\ seq[Max(s)] \in A
              /\ f[s] = G[<<f[s \ {Max(s)}], seq[Max(s)]>>]
        BY Zenon, <1>2 DEF IsSeqFold
    <2>2. f \in [SUBSET DOMAIN seq -> Seq(A)] /\ f[{}] = <<>>
        BY Zenon, <1>2 DEF IsSeqFold
    <2> QED
        BY Zenon, <2>1, <2>2
<1> DEFINE iter[s \in SUBSET DOMAIN seq] ==
               IF s = {} THEN <<>> ELSE step(iter[s \ {Max(s)}], seq[Max(s)])
<1>4. iter = [s \in SUBSET DOMAIN seq |->
                 IF s = {} THEN <<>> ELSE step(iter[s \ {Max(s)}], seq[Max(s)])]
    BY Zenon, <1>3
<1>5. Without(seq, C) = iter[DOMAIN seq]
    BY Zenon DEF Without, FoldLeft, MapThenFoldSet
<1> HIDE DEF iter
<1> DEFINE h == [k \in 0 .. n |-> iter[1 .. k]]
<1>6. n \in Nat /\ DOMAIN seq = 1 .. n /\ Without(seq, C) = h[n] /\ h[0] = <<>>
    <2>1. n \in Nat /\ DOMAIN seq = 1 .. n /\ 1 .. 0 = {}
        OBVIOUS
    <2>2. iter[{}] = <<>>
        BY Zenon, <1>4
    <2> QED
        BY <1>5, <2>1, <2>2
<1>7. ASSUME NEW k \in 1 .. n PROVE h[k] = step(h[k - 1], seq[k])
    <2>1. /\ Max(1 .. k) = k /\ (1 .. k) \ {k} = 1 .. k - 1
          /\ 1 .. k \in SUBSET DOMAIN seq /\ 1 .. k # {}
        BY Zenon, FoldPrefix
    <2>2. iter[1 .. k] = step(iter[1 .. k - 1], seq[k])
        BY Zenon, <1>4, <2>1
    <2> QED
        BY <2>2
<1> HIDE DEF h
<1> DEFINE Kept(k) == /\ h[k] \in Seq(A)
                      /\ \A i \in DOMAIN h[k] :
                             /\ h[k][i] \notin C
                             /\ \E j \in DOMAIN seq : h[k][i] = seq[j]
                      /\ (\A j \in DOMAIN seq : seq[j] \in C) => h[k] = <<>>
           P == {k \in Nat : k <= n => Kept(k)}
<1>8. 0 \in P
    <2>1. <<>> \in Seq(A) /\ DOMAIN <<>> = {}
        OBVIOUS
    <2>2. Kept(0)
        BY Zenon, <1>6, <2>1
    <2> QED
        BY Zenon, <2>2
<1>9. ASSUME NEW k \in Nat, k \in P PROVE k + 1 \in P
    <2>1. SUFFICES ASSUME k + 1 <= n PROVE Kept(k + 1)
        OBVIOUS
    <2>2. Kept(k) /\ k + 1 \in 1 .. n
        BY <1>6, <1>9, <2>1
    <2>3. h[k + 1] = step(h[k], seq[k + 1]) /\ k + 1 \in DOMAIN seq /\ seq[k + 1] \in A
        BY <1>6, <1>7, <2>2
    <2> QED
        BY <2>2, <2>3
<1>10. n \in P
    <2> HIDE DEF P
    <2> QED
        BY Zenon, <1>6, <1>8, <1>9, SetInduction
<1> QED
    BY <1>6, <1>10

-----------------------------------------------------------------------------
(* Sums over finite sets.                                                  *)

(* c takes an element of every non-empty subset of U, and f folds G over   *)
(* the subsets in that order.                                              *)
Picks(c, U) == \A s \in SUBSET U : s # {} => c[s] \in s

IsFold(f, U, V, base, G, c) ==
    /\ f \in [SUBSET U -> V]
    /\ \A s \in SUBSET U : f[s] = IF s = {} THEN base ELSE G[<<f[s \ {c[s]}], c[s]>>]

(* The recursion of the folds has a solution: a function on the subsets of *)
(* a finite set may be defined from its value without a chosen element.    *)
LEMMA FoldExists ==
    ASSUME NEW U, IsFiniteSet(U), NEW V, NEW base \in V, NEW G \in [V \X U -> V],
           NEW c, Picks(c, U)
    PROVE  \E f : IsFold(f, U, V, base, G, c)
<1> USE DEF Picks
<1> DEFINE Upto(k) == {s \in SUBSET U : Cardinality(s) <= k}
           Solves(f, s) == f[s] = IF s = {} THEN base ELSE G[<<f[s \ {c[s]}], c[s]>>]
           P == {k \in Nat : \E f \in [Upto(k) -> V] : \A s \in Upto(k) : Solves(f, s)}
<1>1. \A s \in SUBSET U :
          /\ IsFiniteSet(s) /\ Cardinality(s) \in Nat
          /\ Cardinality(s) = 0 <=> s = {}
          /\ s # {} => /\ s \ {c[s]} \in SUBSET U
                       /\ Cardinality(s \ {c[s]}) = Cardinality(s) - 1
    <2> SUFFICES ASSUME NEW s \in SUBSET U
                 PROVE  /\ IsFiniteSet(s) /\ Cardinality(s) \in Nat
                        /\ Cardinality(s) = 0 <=> s = {}
                        /\ s # {} => /\ s \ {c[s]} \in SUBSET U
                                     /\ Cardinality(s \ {c[s]}) = Cardinality(s) - 1
        BY Zenon
    <2>1. IsFiniteSet(s) /\ Cardinality(s) \in Nat /\ (Cardinality(s) = 0 <=> s = {})
        BY Zenon, FS_Subset, FS_CardinalityType, FS_EmptySet
    <2>2. ASSUME s # {} PROVE Cardinality(s \ {c[s]}) = Cardinality(s) - 1
        BY Zenon, <2>1, <2>2, FS_RemoveElement
    <2> QED
        BY Zenon, <2>1, <2>2
<1>2. 0 \in P
    <2> DEFINE f == [s \in Upto(0) |-> base]
    <2>1. ASSUME NEW s \in Upto(0) PROVE s = {}
        <3>1. s \in SUBSET U /\ Cardinality(s) <= 0
            BY Zenon
        <3>2. Cardinality(s) \in Nat /\ (Cardinality(s) = 0 <=> s = {})
            BY Zenon, <1>1, <3>1
        <3> QED
            BY <3>1, <3>2
    <2>2. f \in [Upto(0) -> V] /\ \A s \in Upto(0) : Solves(f, s)
        BY Zenon, <2>1
    <2> QED
        BY Zenon, <2>2
<1>3. ASSUME NEW k \in Nat, k \in P PROVE k + 1 \in P
    <2>1. PICK f \in [Upto(k) -> V] : \A s \in Upto(k) : Solves(f, s)
        BY Zenon, <1>3
    <2> DEFINE g == [s \in Upto(k + 1) |->
                        IF s = {} THEN base ELSE G[<<f[s \ {c[s]}], c[s]>>]]
    <2>2. ASSUME NEW s \in Upto(k + 1), s # {}
          PROVE  s \ {c[s]} \in Upto(k) /\ c[s] \in U
        <3>1. s \in SUBSET U /\ Cardinality(s) <= k + 1
            BY Zenon
        <3>2. /\ Cardinality(s) \in Nat /\ s \ {c[s]} \in SUBSET U
              /\ Cardinality(s \ {c[s]}) = Cardinality(s) - 1
            BY Zenon, <1>1, <2>2, <3>1
        <3>3. Cardinality(s \ {c[s]}) <= k
            BY <3>1, <3>2
        <3> QED
            BY Zenon, <2>2, <3>1, <3>2, <3>3
    <2>3. ASSUME NEW s \in Upto(k) PROVE s \in Upto(k + 1)
        <3>1. s \in SUBSET U /\ Cardinality(s) <= k
            BY Zenon
        <3>2. Cardinality(s) \in Nat
            BY Zenon, <1>1, <3>1
        <3> QED
            BY <3>1, <3>2
    <2>4. \A s \in Upto(k) : g[s] = f[s]
        BY Zenon, <2>1, <2>3
    <2>5. g \in [Upto(k + 1) -> V]
        BY Zenon, <2>2
    <2>6. \A s \in Upto(k + 1) : Solves(g, s)
        BY Zenon, <2>2, <2>4
    <2>7. \E h \in [Upto(k + 1) -> V] : \A s \in Upto(k + 1) : Solves(h, s)
        <3> HIDE DEF g, Upto, Solves
        <3> QED
            BY Zenon, <2>5, <2>6
    <2> HIDE DEF Upto, Solves
    <2> QED
        BY <2>7
<1>4. Cardinality(U) \in P
    <2> HIDE DEF P
    <2> QED
        BY Zenon, <1>2, <1>3, SetInduction, FS_CardinalityType
<1>5. Upto(Cardinality(U)) = SUBSET U
    BY Zenon, FS_Subset
<1> QED
    BY Zenon, <1>4, <1>5 DEF IsFold

SumOver(f, S) == MapThenSumSet(LAMBDA x : f[x], S)

(* F has, for each subset of U, the sum of f over it: the sum without one  *)
(* element, whichever that is, and the element's own value.                *)
IsSum(F, f, U) ==
    /\ F \in [SUBSET U -> Nat]
    /\ F[{}] = 0
    /\ \A s \in SUBSET U : \A x \in s : F[s] = F[s \ {x}] + f[x]

(* The order in which a fold adds the elements does not matter. *)
LEMMA AnyOrder ==
    ASSUME NEW U, IsFiniteSet(U), NEW f \in [U -> Nat], NEW c, Picks(c, U),
           NEW F \in [SUBSET U -> Nat], F[{}] = 0,
           \A s \in SUBSET U : s # {} => F[s] = F[s \ {c[s]}] + f[c[s]]
    PROVE  IsSum(F, f, U)
<1> DEFINE Adds(s) == \A x \in s : F[s] = F[s \ {x}] + f[x]
           P == {k \in Nat : \A s \in SUBSET U : Cardinality(s) = k => Adds(s)}
<1>1. ASSUME NEW s \in SUBSET U, NEW x \in s
      PROVE  /\ IsFiniteSet(s) /\ Cardinality(s) \in Nat
             /\ Cardinality(s \ {x}) = Cardinality(s) - 1
             /\ s \ {x} \in SUBSET U /\ x \in U /\ f[x] \in Nat
             /\ F[s] \in Nat /\ F[s \ {x}] \in Nat
    <2>1. IsFiniteSet(s) /\ Cardinality(s) \in Nat
        BY Zenon, FS_Subset, FS_CardinalityType
    <2>2. Cardinality(s \ {x}) = Cardinality(s) - 1
        BY Zenon, <2>1, FS_RemoveElement
    <2> QED
        BY Zenon, <2>1, <2>2
<1>2. 0 \in P
    <2>1. ASSUME NEW s \in SUBSET U, Cardinality(s) = 0 PROVE s = {}
        BY Zenon, <2>1, FS_Subset, FS_EmptySet
    <2> QED
        BY Zenon, <2>1
<1>3. ASSUME NEW k \in Nat, k \in P PROVE k + 1 \in P
    <2>1. SUFFICES ASSUME NEW s \in SUBSET U, Cardinality(s) = k + 1, NEW x \in s
                   PROVE  F[s] = F[s \ {x}] + f[x]
        BY DEF P
    <2> DEFINE y == c[s]
    <2>2. y \in s /\ F[s] = F[s \ {y}] + f[y]
        BY Zenon DEF Picks
    <2>3. CASE x = y
        BY Zenon, <2>2, <2>3
    <2>4. CASE x # y
        <3>1. /\ Cardinality(s \ {x}) = k /\ Cardinality(s \ {y}) = k
              /\ s \ {x} \in SUBSET U /\ s \ {y} \in SUBSET U
              /\ x \in s \ {y} /\ y \in s \ {x} /\ f[x] \in Nat /\ f[y] \in Nat
            <4>1. /\ Cardinality(s \ {x}) = k + 1 - 1 /\ s \ {x} \in SUBSET U /\ f[x] \in Nat
                BY <1>1, <2>1
            <4>2. /\ Cardinality(s \ {y}) = k + 1 - 1 /\ s \ {y} \in SUBSET U /\ f[y] \in Nat
                <5> HIDE DEF y
                <5> QED
                    BY <1>1, <2>1, <2>2
            <4> QED
                BY <2>2, <2>4, <4>1, <4>2
        <3>2. F[s \ {y}] = F[(s \ {y}) \ {x}] + f[x]
            BY Zenon, <1>3, <3>1
        <3>3. F[s \ {x}] = F[(s \ {x}) \ {y}] + f[y]
            BY Zenon, <1>3, <3>1
        <3>4. PICK d \in Nat : d = F[(s \ {x}) \ {y}] /\ d = F[(s \ {y}) \ {x}]
            <4>1. (s \ {x}) \ {y} = (s \ {y}) \ {x} /\ (s \ {x}) \ {y} \in SUBSET U
                BY Zenon
            <4> QED
                BY Zenon, <4>1
        <3>5. F[s \ {y}] = d + f[x] /\ F[s \ {x}] = d + f[y]
            BY Zenon, <3>2, <3>3, <3>4
        <3> QED
            BY <2>2, <3>1, <3>5
    <2> QED
        BY Zenon, <2>3, <2>4
<1>4. \A k \in Nat : k \in P
    <2> HIDE DEF P
    <2> QED
        BY Zenon, <1>2, <1>3, SetInduction
<1>5. ASSUME NEW s \in SUBSET U PROVE Adds(s)
    <2>1. Cardinality(s) \in Nat
        BY Zenon, FS_Subset, FS_CardinalityType
    <2> QED
        BY Zenon, <1>4, <2>1
<1> QED
    BY Zenon, <1>5 DEF IsSum

(* The sums of a family of numbers over the subsets of a finite set. *)
LEMMA SumExists ==
    ASSUME NEW U, IsFiniteSet(U), NEW f \in [U -> Nat]
    PROVE  \E F : IsSum(F, f, U) /\ \A S \in SUBSET U : SumOver(f, S) = F[S]
<1> DEFINE c == [s \in SUBSET U |-> CHOOSE x \in s : TRUE]
           G == [p \in Nat \X U |-> p[1] + f[p[2]]]
<1>1. G \in [Nat \X U -> Nat] /\ Picks(c, U)
    BY DEF Picks
<1>2. PICK F : IsFold(F, U, Nat, 0, G, c)
    <2> HIDE DEF c, G
    <2> QED
        BY Zenon, <1>1, FoldExists
<1>3. F \in [SUBSET U -> Nat] /\ F[{}] = 0
    BY Zenon, <1>2 DEF IsFold
<1>4. ASSUME NEW s \in SUBSET U, s # {}
      PROVE  /\ F[s] = F[s \ {c[s]}] + f[c[s]]
             /\ c[s] \in s /\ c[s] = CHOOSE x \in s : TRUE
             /\ F[s \ {c[s]}] \in Nat /\ f[c[s]] \in Nat
    <2>1. c[s] \in U /\ s \ {c[s]} \in SUBSET U /\ c[s] \in s
        BY Zenon, <1>1, <1>4 DEF Picks
    <2>2. F[s \ {c[s]}] \in Nat /\ F[s] = G[<<F[s \ {c[s]}], c[s]>>]
        BY Zenon, <1>2, <1>3, <1>4, <2>1 DEF IsFold
    <2> QED
        BY Zenon, <2>1, <2>2
<1>5. IsSum(F, f, U)
    <2> HIDE DEF c
    <2> QED
        BY Zenon, <1>1, <1>3, <1>4, AnyOrder
<1>6. ASSUME NEW S \in SUBSET U PROVE SumOver(f, S) = F[S]
    <2> DEFINE pick(s) == CHOOSE x \in s : TRUE
               iter[s \in SUBSET S] ==
                   IF s = {} THEN 0 ELSE f[pick(s)] + iter[s \ {pick(s)}]
               E == [s \in SUBSET S |-> F[s]]
    <2>1. E = [s \in SUBSET S |-> IF s = {} THEN 0 ELSE f[pick(s)] + E[s \ {pick(s)}]]
        <3>1. ASSUME NEW s \in SUBSET S, s # {} PROVE E[s] = f[pick(s)] + E[s \ {pick(s)}]
            <4>1. s \in SUBSET U /\ c[s] = pick(s)
                BY Zenon
            <4>2. F[s] = f[pick(s)] + F[s \ {pick(s)}]
                <5> HIDE DEF c, pick
                <5> QED
                    BY <1>4, <3>1, <4>1
            <4> QED
                BY Zenon, <4>2
        <3> QED
            BY Zenon, <1>3, <3>1
    <2>2. iter = [s \in SUBSET S |-> IF s = {} THEN 0 ELSE f[pick(s)] + iter[s \ {pick(s)}]]
        <3> HIDE DEF E
        <3> QED
            BY Zenon, <2>1
    <2>3. SumOver(f, S) = iter[S]
        BY Zenon DEF SumOver, MapThenSumSet, MapThenFoldSet
    <2> HIDE DEF iter
    <2> DEFINE P == {k \in Nat : \A s \in SUBSET S : Cardinality(s) = k => iter[s] = F[s]}
    <2>4. 0 \in P
        <3>1. ASSUME NEW s \in SUBSET S, Cardinality(s) = 0 PROVE s = {}
            BY Zenon, <3>1, FS_Subset, FS_EmptySet
        <3>2. iter[{}] = F[{}]
            BY Zenon, <1>3, <2>2
        <3> QED
            BY Zenon, <3>1, <3>2
    <2>5. ASSUME NEW k \in Nat, k \in P PROVE k + 1 \in P
        <3>1. SUFFICES ASSUME NEW s \in SUBSET S, Cardinality(s) = k + 1
                       PROVE  iter[s] = F[s]
            BY DEF P
        <3>2. IsFiniteSet(s) /\ s # {} /\ s \in SUBSET U
            BY <3>1, FS_Subset, FS_EmptySet
        <3>3. PICK y \in s : y = pick(s)
            BY Zenon, <3>2
        <3>4. Cardinality(s \ {y}) = k + 1 - 1
            <4>1. Cardinality(s \ {y}) = Cardinality(s) - 1
                BY Zenon, <3>2, FS_RemoveElement
            <4> QED
                BY <3>1, <4>1
        <3>5. iter[s \ {y}] = F[s \ {y}]
            BY <2>5, <3>4
        <3>6. iter[s] = f[y] + iter[s \ {y}]
            BY Zenon, <2>2, <3>2, <3>3
        <3>7. c[s] = y
            BY Zenon, <3>2, <3>3
        <3>8. F[s] = F[s \ {y}] + f[y] /\ F[s \ {y}] \in Nat /\ f[y] \in Nat
            <4> HIDE DEF c
            <4> QED
                BY Zenon, <1>4, <3>2, <3>7
        <3> QED
            BY <3>5, <3>6, <3>8
    <2>6. Cardinality(S) \in P
        <3>1. Cardinality(S) \in Nat
            BY Zenon, FS_Subset, FS_CardinalityType
        <3> HIDE DEF P
        <3> QED
            BY Zenon, <2>4, <2>5, <3>1, SetInduction
    <2> QED
        BY Zenon, <2>3, <2>6
<1> QED
    BY Zenon, <1>5, <1>6

(* A sum is a number, zero over the empty set, and grows by what is added. *)
LEMMA SumAdd ==
    ASSUME NEW U, IsFiniteSet(U), NEW f \in [U -> Nat], NEW S \in SUBSET U
    PROVE  /\ SumOver(f, S) \in Nat
           /\ SumOver(f, {}) = 0
           /\ \A x \in U \ S : SumOver(f, S \cup {x}) = SumOver(f, S) + f[x]
<1>1. PICK F : IsSum(F, f, U) /\ \A T \in SUBSET U : SumOver(f, T) = F[T]
    BY Zenon, SumExists
<1>2. SumOver(f, S) = F[S] /\ SumOver(f, {}) = F[{}] /\ F[S] \in Nat /\ F[{}] = 0
    BY Zenon, <1>1 DEF IsSum
<1>3. ASSUME NEW x \in U \ S PROVE SumOver(f, S \cup {x}) = SumOver(f, S) + f[x]
    <2>1. S \cup {x} \in SUBSET U /\ x \in S \cup {x} /\ (S \cup {x}) \ {x} = S
        BY Zenon
    <2>2. F[S \cup {x}] = F[(S \cup {x}) \ {x}] + f[x]
        BY Zenon, <1>1, <2>1 DEF IsSum
    <2> QED
        BY Zenon, <1>1, <1>2, <2>1, <2>2
<1> QED
    BY Zenon, <1>2, <1>3

(* The sum over two sets that have nothing in common. *)
LEMMA SumUnion ==
    ASSUME NEW U, IsFiniteSet(U), NEW f \in [U -> Nat],
           NEW S \in SUBSET U, NEW T \in SUBSET U, S \cap T = {}
    PROVE  SumOver(f, S \cup T) = SumOver(f, S) + SumOver(f, T)
<1> DEFINE Adds(R) == SumOver(f, S \cup R) = SumOver(f, S) + SumOver(f, R)
           P == {k \in Nat : \A R \in SUBSET T : Cardinality(R) = k => Adds(R)}
<1>1. 0 \in P
    <2>1. ASSUME NEW R \in SUBSET T, Cardinality(R) = 0 PROVE R = {}
        BY Zenon, <2>1, FS_Subset, FS_EmptySet
    <2>2. SumOver(f, {}) = 0 /\ SumOver(f, S) \in Nat /\ S \cup {} = S
        BY Zenon, SumAdd
    <2>3. Adds({})
        BY <2>2
    <2> QED
        BY Zenon, <2>1, <2>3
<1>2. ASSUME NEW k \in Nat, k \in P PROVE k + 1 \in P
    <2>1. SUFFICES ASSUME NEW R \in SUBSET T, Cardinality(R) = k + 1 PROVE Adds(R)
        BY DEF P
    <2>2. IsFiniteSet(R)
        BY Zenon, FS_Subset
    <2>3. PICK x : x \in R
        BY <2>1, <2>2, FS_EmptySet
    <2> DEFINE Q == R \ {x}
    <2>4. Cardinality(Q) = Cardinality(R) - 1
        BY Zenon, <2>2, <2>3, FS_RemoveElement
    <2>5. /\ Q \in SUBSET T /\ Q \in SUBSET U /\ R = Q \cup {x} /\ x \in U \ Q
          /\ S \cup Q \in SUBSET U /\ S \cup R = (S \cup Q) \cup {x} /\ x \in U \ (S \cup Q)
          /\ f[x] \in Nat
        BY Zenon, <2>3
    <2>6. Adds(Q)
        <3>1. Cardinality(Q) = k
            BY <2>1, <2>4
        <3> HIDE DEF Q, Adds
        <3> QED
            BY Zenon, <1>2, <2>5, <3>1
    <2> HIDE DEF Q
    <2>7. SumOver(f, R) = SumOver(f, Q) + f[x] /\ SumOver(f, Q) \in Nat
        BY <2>5, SumAdd
    <2>8. SumOver(f, S \cup R) = SumOver(f, S \cup Q) + f[x] /\ SumOver(f, S) \in Nat
        BY <2>5, SumAdd
    <2> QED
        BY <2>5, <2>6, <2>7, <2>8
<1>3. Cardinality(T) \in P
    <2>1. Cardinality(T) \in Nat
        BY Zenon, FS_Subset, FS_CardinalityType
    <2> HIDE DEF P
    <2> QED
        BY Zenon, <1>1, <1>2, <2>1, SetInduction
<1>4. T \in SUBSET T
    BY Zenon
<1> HIDE DEF Adds
<1>5. Adds(T)
    BY Zenon, <1>3, <1>4
<1> QED
    BY Zenon, <1>5 DEF Adds

(* A sum is no greater than one over more. *)
LEMMA SumMonotone ==
    ASSUME NEW U, IsFiniteSet(U), NEW f \in [U -> Nat], NEW T \in SUBSET U, NEW S \in SUBSET T
    PROVE  SumOver(f, S) <= SumOver(f, T)
<1>1. /\ S \in SUBSET U /\ T \ S \in SUBSET U /\ S \cap (T \ S) = {}
      /\ T = S \cup (T \ S)
    BY Zenon
<1>2. SumOver(f, T) = SumOver(f, S) + SumOver(f, T \ S)
    BY <1>1, SumUnion
<1>3. SumOver(f, S) \in Nat /\ SumOver(f, T \ S) \in Nat
    BY Zenon, <1>1, SumAdd
<1> QED
    BY <1>2, <1>3

-----------------------------------------------------------------------------
(* The folds, step by step.                                                *)

releaseStep(x, l) == x + Amount(l)

releasedTotal == FoldLeft(LAMBDA x, l : x + Amount(l), 0, releases)

reserveStep(acc, q) ==
    IF Amount(q) <= acc.release
    THEN [acc EXCEPT !.release = @ - Amount(q), !.cancel = @ \cup {q}]
    ELSE IF \A i \in DOMAIN acc.add : Wallet[acc.add[i]] = Wallet[q]
         THEN [acc EXCEPT !.delta = @ + Amount(q) - acc.release, !.release = 0,
                          !.add = Append(@, q)]
         ELSE acc

withdrawStep(acc, q) ==
    IF Amount(q) = 0 \/ acc.amt + Amount(q) > avail - state.AmtReserved
    THEN [acc EXCEPT !.refused = @ \cup {q}]
    ELSE IF \A i \in DOMAIN acc.allowed : Wallet[acc.allowed[i]] = Wallet[q]
         THEN [acc EXCEPT !.amt = @ + Amount(q), !.allowed = Append(@, q)]
         ELSE acc

Split == [cancel : SUBSET Reservations, add : Seq(Reservations), delta : Nat, release : Nat]

WithdrawSplit == [amt : Nat, allowed : Seq(Withdrawals), refused : SUBSET Withdrawals]

(* What a request counts for is a number. *)
LEMMA AmountIsNat ==
    ASSUME TypeOK, NEW q \in Requests
    PROVE  Amount(q) \in Nat /\ Amount(q) <= Amt[q] /\ Amt[q] \in Nat
BY ConstantsAssumption DEF Amount

(* A step of the batch of reservations gives a batch again. *)
LEMMA ReserveStepType ==
    ASSUME TypeOK, NEW acc \in Split, NEW q \in Reservations
    PROVE  reserveStep(acc, q) \in Split
<1>1. Amount(q) \in Nat /\ acc.release \in Nat /\ acc.delta \in Nat
    BY Zenon, AmountIsNat DEF Requests, Split
<1>2. CASE Amount(q) <= acc.release
    <2>1. acc.release - Amount(q) \in Nat /\ acc.cancel \cup {q} \in SUBSET Reservations
        BY <1>1, <1>2 DEF Split
    <2> QED
        BY Zenon, <1>2, <2>1 DEF reserveStep, Split
<1>3. CASE ~(Amount(q) <= acc.release)
    <2>1. /\ acc.delta + Amount(q) - acc.release \in Nat
          /\ Append(acc.add, q) \in Seq(Reservations)
        BY <1>1, <1>3 DEF Split
    <2> QED
        BY Zenon, <1>3, <2>1 DEF reserveStep, Split
<1> QED
    BY Zenon, <1>2, <1>3

(* A step of the batch of withdrawals gives a batch again. *)
LEMMA WithdrawStepType ==
    ASSUME TypeOK, NEW acc \in WithdrawSplit, NEW q \in Withdrawals
    PROVE  withdrawStep(acc, q) \in WithdrawSplit
<1>1. Amount(q) \in Nat
    BY Zenon, AmountIsNat DEF Requests
<1>2. /\ acc.amt + Amount(q) \in Nat /\ Append(acc.allowed, q) \in Seq(Withdrawals)
      /\ acc.refused \cup {q} \in SUBSET Withdrawals
    BY <1>1 DEF WithdrawSplit
<1> QED
    BY Zenon, <1>2 DEF withdrawStep, WithdrawSplit

(* The total of the releases is added up in the order of the queue. *)
LEMMA ReleaseSteps ==
    ASSUME TypeOK
    PROVE  \E h : /\ h[0] = 0
                  /\ \A k \in 1 .. Len(releases) : h[k] = releaseStep(h[k - 1], releases[k])
                  /\ releasedTotal = h[Len(releases)]
<1> DEFINE seq == releases
           n == Len(seq)
           base == 0
           G == [p \in Nat \X Releases |-> releaseStep(p[1], p[2])]
<1>0. seq \in Seq(Releases) /\ base \in Nat
    BY Zenon DEF TypeOK
<1>1. G \in [Nat \X Releases -> Nat]
    BY AmountIsNat DEF Requests, releaseStep
<1>2. PICK f : IsSeqFold(f, seq, Releases, Nat, base, G)
    <2> HIDE DEF G, base
    <2> QED
        BY Zenon, <1>0, <1>1, SeqFold
<1> DEFINE Solves(g) == g = [s \in SUBSET DOMAIN seq |->
                                IF s = {} THEN base ELSE releaseStep(g[s \ {Max(s)}], seq[Max(s)])]
<1>3. Solves(f)
    <2> HIDE DEF base
    <2>1. \A s \in SUBSET DOMAIN seq : s # {} =>
              /\ f[s \ {Max(s)}] \in Nat /\ seq[Max(s)] \in Releases
              /\ f[s] = G[<<f[s \ {Max(s)}], seq[Max(s)]>>]
        BY Zenon, <1>2 DEF IsSeqFold
    <2>2. f \in [SUBSET DOMAIN seq -> Nat] /\ f[{}] = base
        BY Zenon, <1>2 DEF IsSeqFold
    <2> QED
        BY Zenon, <2>1, <2>2
<1> DEFINE iter[s \in SUBSET DOMAIN seq] ==
               IF s = {} THEN base ELSE releaseStep(iter[s \ {Max(s)}], seq[Max(s)])
<1>4. Solves(iter)
    BY Zenon, <1>3
<1>5. releasedTotal = iter[DOMAIN seq]
    BY Zenon DEF releasedTotal, releaseStep, FoldLeft, MapThenFoldSet
<1> HIDE DEF iter, base
<1> DEFINE h == [k \in 0 .. n |-> iter[1 .. k]]
<1>6. n \in Nat /\ DOMAIN seq = 1 .. n /\ releasedTotal = h[n] /\ h[0] = base
    <2>1. n \in Nat /\ DOMAIN seq = 1 .. n /\ 1 .. 0 = {}
        BY <1>0
    <2>2. iter[{}] = base
        BY Zenon, <1>4
    <2> QED
        BY <1>5, <2>1, <2>2
<1>7. ASSUME NEW k \in 1 .. n PROVE h[k] = releaseStep(h[k - 1], seq[k])
    <2>1. /\ Max(1 .. k) = k /\ (1 .. k) \ {k} = 1 .. k - 1
          /\ 1 .. k \in SUBSET DOMAIN seq /\ 1 .. k # {}
        BY Zenon, <1>0, FoldPrefix
    <2>2. iter[1 .. k] = releaseStep(iter[1 .. k - 1], seq[k])
        BY Zenon, <1>4, <2>1
    <2> QED
        BY <2>2
<1> HIDE DEF h
<1> QED
    BY Zenon, <1>6, <1>7 DEF base

(* That total is a number. *)
LEMMA ReleasedTotalType ==
    ASSUME TypeOK
    PROVE  releasedTotal \in Nat
<1>1. PICK h : /\ h[0] = 0
               /\ \A k \in 1 .. Len(releases) : h[k] = releaseStep(h[k - 1], releases[k])
               /\ releasedTotal = h[Len(releases)]
    BY Zenon, ReleaseSteps
<1> DEFINE P == {k \in Nat : k <= Len(releases) => h[k] \in Nat}
<1>2. Len(releases) \in Nat /\ \A k \in 1 .. Len(releases) : releases[k] \in Releases
    BY DEF TypeOK
<1>3. 0 \in P
    BY <1>1
<1>4. ASSUME NEW k \in Nat, k \in P PROVE k + 1 \in P
    <2>1. SUFFICES ASSUME k + 1 <= Len(releases) PROVE h[k + 1] \in Nat
        OBVIOUS
    <2>2. k + 1 \in 1 .. Len(releases) /\ h[k] \in Nat
        BY <1>2, <1>4, <2>1
    <2>3. Amount(releases[k + 1]) \in Nat
        BY Zenon, <1>2, <2>2, AmountIsNat DEF Requests
    <2> QED
        BY <1>1, <2>2, <2>3 DEF releaseStep
<1>5. Len(releases) \in P
    <2> HIDE DEF P
    <2> QED
        BY Zenon, <1>2, <1>3, <1>4, SetInduction
<1> QED
    BY <1>1, <1>2, <1>5

(* The batch of reservations is made from the queue one by one. *)
LEMMA ReserveSteps ==
    ASSUME TypeOK
    PROVE  \E h : /\ h[0] = [cancel |-> {}, add |-> <<>>, delta |-> 0, release |-> releasedTotal]
                  /\ \A k \in 1 .. Len(reservations) : h[k] = reserveStep(h[k - 1], reservations[k])
                  /\ splitReservations = h[Len(reservations)]
<1> DEFINE seq == reservations
           n == Len(seq)
           base == [cancel |-> {}, add |-> <<>>, delta |-> 0, release |-> releasedTotal]
           G == [p \in Split \X Reservations |-> reserveStep(p[1], p[2])]
<1>0. seq \in Seq(Reservations) /\ base \in Split
    BY ReleasedTotalType DEF TypeOK, Split
<1>1. G \in [Split \X Reservations -> Split]
    BY Zenon, ReserveStepType
<1>2. PICK f : IsSeqFold(f, seq, Reservations, Split, base, G)
    <2> HIDE DEF G, base
    <2> QED
        BY Zenon, <1>0, <1>1, SeqFold
<1> DEFINE Solves(g) == g = [s \in SUBSET DOMAIN seq |->
                                IF s = {} THEN base ELSE reserveStep(g[s \ {Max(s)}], seq[Max(s)])]
<1>3. Solves(f)
    <2> HIDE DEF base
    <2>1. \A s \in SUBSET DOMAIN seq : s # {} =>
              /\ f[s \ {Max(s)}] \in Split /\ seq[Max(s)] \in Reservations
              /\ f[s] = G[<<f[s \ {Max(s)}], seq[Max(s)]>>]
        BY Zenon, <1>2 DEF IsSeqFold
    <2>2. f \in [SUBSET DOMAIN seq -> Split] /\ f[{}] = base
        BY Zenon, <1>2 DEF IsSeqFold
    <2> QED
        BY Zenon, <2>1, <2>2
<1> DEFINE iter[s \in SUBSET DOMAIN seq] ==
               IF s = {} THEN base ELSE reserveStep(iter[s \ {Max(s)}], seq[Max(s)])
<1>4. Solves(iter)
    BY Zenon, <1>3
<1>5. splitReservations = iter[DOMAIN seq]
    BY Zenon DEF splitReservations, reserveStep, FoldLeft, MapThenFoldSet, releasedTotal
<1> HIDE DEF iter, base
<1> DEFINE h == [k \in 0 .. n |-> iter[1 .. k]]
<1>6. n \in Nat /\ DOMAIN seq = 1 .. n /\ splitReservations = h[n] /\ h[0] = base
    <2>1. n \in Nat /\ DOMAIN seq = 1 .. n /\ 1 .. 0 = {}
        BY <1>0
    <2>2. iter[{}] = base
        BY Zenon, <1>4
    <2> QED
        BY <1>5, <2>1, <2>2
<1>7. ASSUME NEW k \in 1 .. n PROVE h[k] = reserveStep(h[k - 1], seq[k])
    <2>1. /\ Max(1 .. k) = k /\ (1 .. k) \ {k} = 1 .. k - 1
          /\ 1 .. k \in SUBSET DOMAIN seq /\ 1 .. k # {}
        BY Zenon, <1>0, FoldPrefix
    <2>2. iter[1 .. k] = reserveStep(iter[1 .. k - 1], seq[k])
        BY Zenon, <1>4, <2>1
    <2> QED
        BY <2>2
<1> HIDE DEF h
<1> QED
    BY Zenon, <1>6, <1>7 DEF base

(* The batch of withdrawals is made from the queue one by one. *)
LEMMA WithdrawSteps ==
    ASSUME TypeOK
    PROVE  \E h : /\ h[0] = [amt |-> 0, allowed |-> <<>>, refused |-> {}]
                  /\ \A k \in 1 .. Len(withdrawals) : h[k] = withdrawStep(h[k - 1], withdrawals[k])
                  /\ splitWithdrawals = h[Len(withdrawals)]
<1> DEFINE seq == withdrawals
           n == Len(seq)
           base == [amt |-> 0, allowed |-> <<>>, refused |-> {}]
           G == [p \in WithdrawSplit \X Withdrawals |-> withdrawStep(p[1], p[2])]
<1>0. seq \in Seq(Withdrawals) /\ base \in WithdrawSplit
    BY DEF TypeOK, WithdrawSplit
<1>1. G \in [WithdrawSplit \X Withdrawals -> WithdrawSplit]
    BY WithdrawStepType
<1>2. PICK f : IsSeqFold(f, seq, Withdrawals, WithdrawSplit, base, G)
    <2> HIDE DEF G, base
    <2> QED
        BY Zenon, <1>0, <1>1, SeqFold
<1> DEFINE Solves(g) == g = [s \in SUBSET DOMAIN seq |->
                                IF s = {} THEN base ELSE withdrawStep(g[s \ {Max(s)}], seq[Max(s)])]
<1>3. Solves(f)
    <2> HIDE DEF base
    <2>1. \A s \in SUBSET DOMAIN seq : s # {} =>
              /\ f[s \ {Max(s)}] \in WithdrawSplit /\ seq[Max(s)] \in Withdrawals
              /\ f[s] = G[<<f[s \ {Max(s)}], seq[Max(s)]>>]
        BY Zenon, <1>2 DEF IsSeqFold
    <2>2. f \in [SUBSET DOMAIN seq -> WithdrawSplit] /\ f[{}] = base
        BY Zenon, <1>2 DEF IsSeqFold
    <2> QED
        BY Zenon, <2>1, <2>2
<1> DEFINE iter[s \in SUBSET DOMAIN seq] ==
               IF s = {} THEN base ELSE withdrawStep(iter[s \ {Max(s)}], seq[Max(s)])
<1>4. Solves(iter)
    BY Zenon, <1>3
<1>5. splitWithdrawals = iter[DOMAIN seq]
    BY Zenon DEF splitWithdrawals, withdrawStep, FoldLeft, MapThenFoldSet
<1> HIDE DEF iter, base
<1> DEFINE h == [k \in 0 .. n |-> iter[1 .. k]]
<1>6. n \in Nat /\ DOMAIN seq = 1 .. n /\ splitWithdrawals = h[n] /\ h[0] = base
    <2>1. n \in Nat /\ DOMAIN seq = 1 .. n /\ 1 .. 0 = {}
        BY <1>0
    <2>2. iter[{}] = base
        BY <1>4
    <2> QED
        BY <1>5, <2>1, <2>2
<1>7. ASSUME NEW k \in 1 .. n PROVE h[k] = withdrawStep(h[k - 1], seq[k])
    <2>1. /\ Max(1 .. k) = k /\ (1 .. k) \ {k} = 1 .. k - 1
          /\ 1 .. k \in SUBSET DOMAIN seq /\ 1 .. k # {}
        BY Zenon, <1>0, FoldPrefix
    <2>2. iter[1 .. k] = withdrawStep(iter[1 .. k - 1], seq[k])
        BY Zenon, <1>4, <2>1
    <2> QED
        BY <2>2
<1> HIDE DEF h
<1> QED
    BY Zenon, <1>6, <1>7 DEF base

-----------------------------------------------------------------------------
(* What a batch guarantees.                                                *)

(* The amounts of a set of requests add up. *)
LEMMA SumAmtFacts ==
    ASSUME NEW S \in SUBSET Requests
    PROVE  /\ SumAmt(S) \in Nat
           /\ SumAmt({}) = 0
           /\ \A x \in Requests \ S : SumAmt(S \cup {x}) = SumAmt(S) + Amt[x]
           /\ \A T \in SUBSET Requests : S \cap T = {} => SumAmt(S \cup T) = SumAmt(S) + SumAmt(T)
           /\ \A T \in SUBSET S : SumAmt(T) <= SumAmt(S)
<1>1. \A T : SumAmt(T) = SumOver(Amt, T)
    BY Zenon DEF SumAmt, SumOver
<1>2. Amt \in [Requests -> Nat] /\ IsFiniteSet(Requests)
    BY Zenon, ConstantsAssumption
<1>3. /\ SumOver(Amt, S) \in Nat /\ SumOver(Amt, {}) = 0
      /\ \A x \in Requests \ S : SumOver(Amt, S \cup {x}) = SumOver(Amt, S) + Amt[x]
    BY <1>2, SumAdd
<1>4. ASSUME NEW T \in SUBSET Requests, S \cap T = {}
      PROVE  SumAmt(S \cup T) = SumAmt(S) + SumAmt(T)
    BY <1>1, <1>2, <1>4, SumUnion
<1>5. ASSUME NEW T \in SUBSET S PROVE SumAmt(T) <= SumAmt(S)
    BY Zenon, <1>1, <1>2, SumMonotone
<1> QED
    BY Zenon, <1>1, <1>3, <1>4, <1>5

(* A request that joins a set of queued ones adds no more than it counts   *)
(* for.                                                                    *)
LEMMA JoinQueued ==
    ASSUME TypeOK, NEW S \in SUBSET Requests, NEW q \in Requests, NEW T \in SUBSET (S \cup {q}),
           q \in T => answer[q] = "queued"
    PROVE  SumAmt(T) <= SumAmt(S) + Amount(q)
<1>1. SumAmt(S) \in Nat /\ Amount(q) \in Nat
    BY Zenon, SumAmtFacts, AmountIsNat
<1>2. CASE T \in SUBSET S
    <2>1. SumAmt(T) <= SumAmt(S) /\ SumAmt(T) \in Nat
        BY Zenon, <1>2, SumAmtFacts
    <2> QED
        BY <1>1, <2>1
<1>3. CASE q \in T /\ q \notin S
    <2>1. S \cup {q} \in SUBSET Requests /\ SumAmt(S \cup {q}) = SumAmt(S) + Amt[q]
        BY Zenon, <1>3, SumAmtFacts
    <2>2. SumAmt(T) <= SumAmt(S \cup {q}) /\ Amount(q) = Amt[q]
        BY Zenon, <1>3, <2>1, SumAmtFacts DEF Amount
    <2> QED
        BY Zenon, <2>1, <2>2
<1> QED
    BY Zenon, <1>2, <1>3

OneWallet(queue) == \A i, j \in DOMAIN queue : Wallet[queue[i]] = Wallet[queue[j]]

Taken(split) == {q \in split.cancel \cup ToSet(split.add) : answer[q] = "queued"}

(* The batch so far has one wallet to pay, and reserves all it takes. *)
Reserves(split) ==
    /\ split \in Split
    /\ OneWallet(split.add)
    /\ SumAmt(Taken(split)) + split.release <= releasedTotal + split.delta

(* A request that joins a queue of one wallet has that wallet. *)
LEMMA JoinWallet ==
    ASSUME NEW A, NEW queue \in Seq(A), NEW q, OneWallet(queue),
           \A i \in DOMAIN queue : Wallet[queue[i]] = Wallet[q]
    PROVE  OneWallet(Append(queue, q))
BY DEF OneWallet

(* A step of the batch of reservations keeps these. *)
LEMMA ReserveStepReserves ==
    ASSUME TypeOK, NEW acc, Reserves(acc), NEW q \in Reservations
    PROVE  Reserves(reserveStep(acc, q))
<1> DEFINE new == reserveStep(acc, q)
<1>1. new \in Split
    BY Zenon, ReserveStepType DEF Reserves
<1>2. /\ Amount(q) \in Nat /\ releasedTotal \in Nat /\ acc.release \in Nat
      /\ acc.delta \in Nat /\ acc.add \in Seq(Reservations)
      /\ acc.cancel \in SUBSET Reservations /\ q \in Requests
    BY Zenon, AmountIsNat, ReleasedTotalType DEF Requests, Reserves, Split
<1>3. Taken(acc) \in SUBSET Requests
    BY <1>2 DEF Taken, ToSet, Requests
<1>4. CASE Amount(q) <= acc.release
    <2>1. /\ new.cancel = acc.cancel \cup {q} /\ new.release = acc.release - Amount(q)
          /\ new.add = acc.add /\ new.delta = acc.delta
        BY Zenon, <1>4 DEF reserveStep, Reserves, Split
    <2>2. Taken(new) \in SUBSET (Taken(acc) \cup {q}) /\ (q \in Taken(new) => answer[q] = "queued")
        BY Zenon, <2>1 DEF Taken
    <2>3. SumAmt(Taken(new)) <= SumAmt(Taken(acc)) + Amount(q)
        BY Zenon, <1>2, <1>3, <2>2, JoinQueued
    <2>4. SumAmt(Taken(new)) \in Nat /\ SumAmt(Taken(acc)) \in Nat
        <3>1. Taken(new) \in SUBSET Requests
            BY Zenon, <1>2, <1>3, <2>2
        <3> QED
            BY Zenon, <1>3, <3>1, SumAmtFacts
    <2>5. SumAmt(Taken(new)) + new.release <= releasedTotal + new.delta
        <3>1. SumAmt(Taken(acc)) + acc.release <= releasedTotal + acc.delta
            BY Zenon DEF Reserves
        <3>2. /\ Amount(q) \in Nat /\ releasedTotal \in Nat
              /\ acc.release \in Nat /\ acc.delta \in Nat
              /\ new.release = acc.release - Amount(q) /\ new.delta = acc.delta
            BY Zenon, <1>2, <2>1
        <3> QED
            BY <2>3, <2>4, <3>1, <3>2
    <2> QED
        BY Zenon, <1>1, <2>1, <2>5 DEF Reserves
<1>5. CASE /\ ~(Amount(q) <= acc.release)
           /\ \A i \in DOMAIN acc.add : Wallet[acc.add[i]] = Wallet[q]
    <2>1. /\ new.cancel = acc.cancel /\ new.release = 0
          /\ new.add = Append(acc.add, q)
          /\ new.delta = acc.delta + Amount(q) - acc.release
        BY Zenon, <1>5 DEF reserveStep, Reserves, Split
    <2>2. Taken(new) \in SUBSET (Taken(acc) \cup {q}) /\ (q \in Taken(new) => answer[q] = "queued")
        BY <1>2, <2>1 DEF Taken, ToSet
    <2>3. SumAmt(Taken(new)) <= SumAmt(Taken(acc)) + Amount(q)
        BY <1>2, <1>3, <2>2, JoinQueued
    <2>4. SumAmt(Taken(new)) \in Nat /\ SumAmt(Taken(acc)) \in Nat
        <3>1. Taken(new) \in SUBSET Requests
            BY <1>2, <1>3, <2>2
        <3> QED
            BY <1>3, <3>1, SumAmtFacts
    <2>5. SumAmt(Taken(new)) + new.release <= releasedTotal + new.delta
        <3>1. SumAmt(Taken(acc)) + acc.release <= releasedTotal + acc.delta
            BY Zenon DEF Reserves
        <3>2. /\ Amount(q) \in Nat /\ releasedTotal \in Nat
              /\ acc.release \in Nat /\ acc.delta \in Nat
              /\ new.release = 0 /\ new.delta = acc.delta + Amount(q) - acc.release
            BY Zenon, <1>2, <2>1
        <3> QED
            BY <2>3, <2>4, <3>1, <3>2
    <2>6. OneWallet(new.add)
        BY Zenon, <1>2, <1>5, <2>1, JoinWallet DEF Reserves
    <2> QED
        BY Zenon, <1>1, <2>5, <2>6 DEF Reserves
<1>6. CASE /\ ~(Amount(q) <= acc.release)
           /\ ~\A i \in DOMAIN acc.add : Wallet[acc.add[i]] = Wallet[q]
    BY Zenon, <1>6 DEF reserveStep
<1> QED
    BY Zenon, <1>4, <1>5, <1>6

(* The batch of reservations pays one wallet and reserves all it takes,    *)
(* but for what is released.                                               *)
LEMMA ReserveBatch ==
    ASSUME TypeOK
    PROVE  Reserves(splitReservations)
<1> DEFINE base == [cancel |-> {}, add |-> <<>>, delta |-> 0, release |-> releasedTotal]
           n == Len(reservations)
<1>1. PICK h : /\ h[0] = base
               /\ \A k \in 1 .. n : h[k] = reserveStep(h[k - 1], reservations[k])
               /\ splitReservations = h[n]
    BY Zenon, ReserveSteps
<1> DEFINE P == {k \in Nat : k <= n => Reserves(h[k])}
<1>2. n \in Nat /\ \A k \in 1 .. n : reservations[k] \in Reservations
    BY DEF TypeOK
<1>3. 0 \in P
    <2>1. releasedTotal \in Nat /\ base \in Split
        BY ReleasedTotalType DEF Split
    <2>2. Taken(base) = {} /\ SumAmt({}) = 0
        BY SumAmtFacts DEF Taken, ToSet
    <2>3. OneWallet(base.add)
        BY DEF OneWallet
    <2>4. SumAmt(Taken(base)) + base.release <= releasedTotal + base.delta
        <3>1. base.release = releasedTotal /\ base.delta = 0
            BY Zenon
        <3> HIDE DEF base
        <3> QED
            BY <2>1, <2>2, <3>1
    <2>5. Reserves(base)
        BY Zenon, <2>1, <2>3, <2>4 DEF Reserves
    <2> QED
        BY Zenon, <1>1, <2>5
<1>4. ASSUME NEW k \in Nat, k \in P PROVE k + 1 \in P
    <2>1. SUFFICES ASSUME k + 1 <= n PROVE Reserves(h[k + 1])
        OBVIOUS
    <2>2. k + 1 \in 1 .. n /\ Reserves(h[k]) /\ k + 1 - 1 = k
        BY <1>2, <1>4, <2>1
    <2>3. h[k + 1] = reserveStep(h[k], reservations[k + 1]) /\ reservations[k + 1] \in Reservations
        BY <1>1, <1>2, <2>2
    <2> QED
        BY Zenon, <2>2, <2>3, ReserveStepReserves
<1>5. n \in P
    <2> HIDE DEF P
    <2> QED
        BY Zenon, <1>2, <1>3, <1>4, SetInduction
<1> QED
    BY <1>1, <1>2, <1>5

(* The batch of withdrawals so far pays one wallet no more than is not     *)
(* reserved.                                                               *)
Keeps(split) ==
    /\ split \in WithdrawSplit
    /\ OneWallet(split.allowed)
    /\ split.allowed # <<>> => split.amt <= avail - state.AmtReserved

(* A step of the batch of withdrawals keeps this. *)
LEMMA WithdrawStepKeeps ==
    ASSUME TypeOK, NEW acc, Keeps(acc), NEW q \in Withdrawals
    PROVE  Keeps(withdrawStep(acc, q))
<1> DEFINE new == withdrawStep(acc, q)
<1>1. new \in WithdrawSplit
    BY Zenon, WithdrawStepType DEF Keeps
<1>2. /\ Amount(q) \in Nat /\ acc.amt \in Nat /\ acc.allowed \in Seq(Withdrawals)
      /\ avail \in Nat /\ state.AmtReserved \in Nat
    BY Zenon, AmountIsNat DEF Requests, Keeps, WithdrawSplit, TypeOK, States
<1>3. CASE Amount(q) = 0 \/ acc.amt + Amount(q) > avail - state.AmtReserved
    <2>1. new.amt = acc.amt /\ new.allowed = acc.allowed
        BY Zenon, <1>3 DEF withdrawStep, Keeps, WithdrawSplit
    <2> QED
        BY Zenon, <1>1, <2>1 DEF Keeps
<1>4. CASE /\ ~(Amount(q) = 0 \/ acc.amt + Amount(q) > avail - state.AmtReserved)
           /\ \A i \in DOMAIN acc.allowed : Wallet[acc.allowed[i]] = Wallet[q]
    <2>1. new.amt = acc.amt + Amount(q) /\ new.allowed = Append(acc.allowed, q)
        BY Zenon, <1>4 DEF withdrawStep, Keeps, WithdrawSplit
    <2>2. OneWallet(new.allowed)
        BY Zenon, <1>2, <1>4, <2>1, JoinWallet DEF Keeps
    <2>3. new.amt <= avail - state.AmtReserved
        BY <1>2, <1>4, <2>1
    <2> QED
        BY Zenon, <1>1, <2>2, <2>3 DEF Keeps
<1>5. CASE /\ ~(Amount(q) = 0 \/ acc.amt + Amount(q) > avail - state.AmtReserved)
           /\ ~\A i \in DOMAIN acc.allowed : Wallet[acc.allowed[i]] = Wallet[q]
    BY Zenon, <1>5 DEF withdrawStep
<1> QED
    BY Zenon, <1>3, <1>4, <1>5

(* The batch of withdrawals leaves the reserved amount where it is. *)
LEMMA WithdrawBatch ==
    ASSUME TypeOK
    PROVE  Keeps(splitWithdrawals)
<1> DEFINE base == [amt |-> 0, allowed |-> <<>>, refused |-> {}]
           n == Len(withdrawals)
<1>1. PICK h : /\ h[0] = base
               /\ \A k \in 1 .. n : h[k] = withdrawStep(h[k - 1], withdrawals[k])
               /\ splitWithdrawals = h[n]
    BY Zenon, WithdrawSteps
<1> DEFINE P == {k \in Nat : k <= n => Keeps(h[k])}
<1>2. n \in Nat /\ \A k \in 1 .. n : withdrawals[k] \in Withdrawals
    BY DEF TypeOK
<1>3. 0 \in P
    <2>1. base \in WithdrawSplit
        BY DEF WithdrawSplit
    <2>2. Keeps(base)
        BY <2>1 DEF Keeps, OneWallet
    <2> QED
        BY Zenon, <1>1, <2>2
<1>4. ASSUME NEW k \in Nat, k \in P PROVE k + 1 \in P
    <2>1. SUFFICES ASSUME k + 1 <= n PROVE Keeps(h[k + 1])
        OBVIOUS
    <2>2. k + 1 \in 1 .. n /\ Keeps(h[k]) /\ k + 1 - 1 = k
        BY <1>2, <1>4, <2>1
    <2>3. h[k + 1] = withdrawStep(h[k], withdrawals[k + 1]) /\ withdrawals[k + 1] \in Withdrawals
        BY <1>1, <1>2, <2>2
    <2> QED
        BY Zenon, <2>2, <2>3, WithdrawStepKeeps
<1>5. n \in P
    <2> HIDE DEF P
    <2> QED
        BY Zenon, <1>2, <1>3, <1>4, SetInduction
<1> QED
    BY <1>1, <1>2, <1>5

(* What is released is at most the amounts of the releases, when none is   *)
(* queued twice.                                                           *)
LEMMA ReleasedBound ==
    ASSUME TypeOK, \A i, j \in DOMAIN releases : releases[i] = releases[j] => i = j
    PROVE  releasedTotal <= SumAmt(ToSet(releases))
<1> DEFINE n == Len(releases)
           First(k) == {releases[i] : i \in 1 .. k}
<1>1. PICK h : /\ h[0] = 0
               /\ \A k \in 1 .. n : h[k] = releaseStep(h[k - 1], releases[k])
               /\ releasedTotal = h[n]
    BY Zenon, ReleaseSteps
<1> DEFINE P == {k \in Nat : k <= n => h[k] \in Nat /\ h[k] <= SumAmt(First(k))}
<1>2. /\ n \in Nat /\ DOMAIN releases = 1 .. n
      /\ \A k \in 1 .. n : releases[k] \in Releases /\ releases[k] \in Requests
    BY DEF TypeOK, Requests
<1>3. 0 \in P
    <2>1. First(0) = {} /\ SumAmt({}) = 0
        BY SumAmtFacts
    <2>2. 0 \in Nat /\ 0 <= 0
        OBVIOUS
    <2> QED
        BY Zenon, <1>1, <2>1, <2>2
<1>4. ASSUME NEW k \in Nat, k \in P PROVE k + 1 \in P
    <2>1. SUFFICES ASSUME k + 1 <= n
                   PROVE  h[k + 1] \in Nat /\ h[k + 1] <= SumAmt(First(k + 1))
        OBVIOUS
    <2> DEFINE q == releases[k + 1]
    <2>2. k + 1 \in 1 .. n /\ h[k] \in Nat /\ h[k] <= SumAmt(First(k)) /\ k + 1 - 1 = k
        BY <1>2, <1>4, <2>1
    <2>3. h[k + 1] = h[k] + Amount(q) /\ q \in Requests
        BY <1>1, <1>2, <2>2 DEF releaseStep
    <2>4. Amount(q) \in Nat /\ Amount(q) <= Amt[q] /\ Amt[q] \in Nat
        BY Zenon, <2>3, AmountIsNat
    <2>5. First(k) \in SUBSET Requests /\ q \notin First(k) /\ First(k + 1) = First(k) \cup {q}
        BY <1>2, <2>2
    <2>6. SumAmt(First(k + 1)) = SumAmt(First(k)) + Amt[q] /\ SumAmt(First(k)) \in Nat
        <3> HIDE DEF First, q
        <3> QED
            BY Zenon, <2>3, <2>5, SumAmtFacts
    <2> QED
        BY <2>2, <2>3, <2>4, <2>6
<1>5. n \in P
    <2> HIDE DEF P
    <2> QED
        BY Zenon, <1>2, <1>3, <1>4, SetInduction
<1>6. First(n) = ToSet(releases)
    BY Zenon, <1>2 DEF ToSet
<1>7. h[n] <= SumAmt(First(n))
    BY <1>2, <1>5
<1> QED
    BY Zenon, <1>1, <1>6, <1>7

-----------------------------------------------------------------------------
(* The invariants.                                                         *)

(* Every message number the manager holds is that of a message sent. *)
Typed ==
    /\ TypeOK
    /\ {state.MsgCid, store.MsgCid, res.msgCid} \subseteq {None} \cup DOMAIN sent

(* A release is queued once, unanswered until its batch is answered, and   *)
(* every batch answers all of them.                                        *)
ReleasesQueued ==
    /\ \A i, j \in DOMAIN releases : releases[i] = releases[j] => i = j
    /\ pc # "reserved" => \A i \in DOMAIN releases : answer[releases[i]] = "queued"
    /\ pc = "reserved" => ToSet(releases) \subseteq res.completed

(* The reserved amount: between the answers of a batch and their           *)
(* application, the one that is about to be applied.                       *)
Reserved == IF pc = "reserved" /\ res.save THEN res.amtReserved ELSE state.AmtReserved

OkReservations == {q \in Reservations : answer[q] = "ok"}

OkReleases == {q \in Releases : answer[q] = "ok"}

(* Until the first restart, what callers were promised is reserved ... *)
Promised ==
    starts = 0 /\ up = "up" =>
        SumAmt(OkReservations) <= Reserved + SumAmt(OkReleases)

(* ... and until the first failed wait, the message on its way leaves it   *)
(* in the escrow.                                                          *)
Kept ==
    starts = 0 /\ waitErrors = 0 /\ up = "up" =>
        \A m \in pending : Reserved <= avail + sent[m].amt + Locked

Amounts == ReleasesQueued /\ Promised /\ Kept

AmountInv == IInv /\ Typed /\ OwnWallet /\ Amounts

(* filterOutProcessedReqs leaves a queue of the same kind of requests, and *)
(* none when all were completed.                                           *)
LEMMA FilterFacts ==
    ASSUME NEW A, NEW queue \in Seq(A)
    PROVE  /\ filterOutProcessedReqs(queue) \in Seq(A)
           /\ ToSet(queue) \subseteq res.completed => filterOutProcessedReqs(queue) = <<>>
<1>1. filterOutProcessedReqs(queue) = Without(queue, res.completed)
    BY Zenon DEF filterOutProcessedReqs, Without
<1>2. /\ Without(queue, res.completed) \in Seq(A)
      /\ (\A j \in DOMAIN queue : queue[j] \in res.completed) => Without(queue, res.completed) = <<>>
    BY Zenon, WithoutKeeps
<1> QED
    BY Zenon, <1>1, <1>2 DEF ToSet

Answers == {"new", "queued", "ok", "error", "cancelled", "lost"}

(* The answers of a batch: each caller is told a message that was sent. *)
LEMMA CompleteType ==
    ASSUME TypeOK, NEW ok, NEW errors, NEW m, NEW late, Complete(ok, errors, m, late),
           NEW D, DOMAIN sent \subseteq D, m \in [Requests -> {None} \cup D]
    PROVE  answer' \in [Requests -> Answers] /\ cid' \in [Requests -> {None} \cup D]
<1>1. answer \in [Requests -> Answers] /\ cid \in [Requests -> {None} \cup D]
    BY Zenon DEF TypeOK, Answers
<1>2. answer' \in [Requests -> Answers]
    BY Zenon, <1>1 DEF Complete, Answers
<1>3. cid' \in [Requests -> {None} \cup D]
    BY Zenon, <1>1 DEF Complete
<1> QED
    BY Zenon, <1>2, <1>3

Messages == [wallet : {Wallet[q] : q \in Requests \ Releases}, amt : Int]

(* A message that is sent is the last one, and leaves the others. *)
LEMMA SendType ==
    ASSUME TypeOK, NEW q \in Requests \ Releases, NEW amt \in Int, send(Wallet[q], amt)
    PROVE  /\ sent' \in Seq(Messages) /\ DOMAIN sent' = DOMAIN sent \cup {Len(sent) + 1}
           /\ Len(sent) + 1 \in Nat \ {0} /\ Len(sent) + 1 \notin DOMAIN sent
           /\ pending' \subseteq DOMAIN sent'
           /\ sent'[Len(sent) + 1] = [wallet |-> Wallet[q], amt |-> amt]
           /\ \A k \in DOMAIN sent : sent'[k] = sent[k]
<1>1. sent \in Seq(Messages) /\ [wallet |-> Wallet[q], amt |-> amt] \in Messages
      /\ pending \subseteq DOMAIN sent
    BY Zenon DEF TypeOK, Messages
<1>2. sent' = Append(sent, [wallet |-> Wallet[q], amt |-> amt])
      /\ pending' = pending \cup {Len(sent) + 1}
    BY Zenon DEF send
<1> HIDE DEF Messages
<1>3. sent' \in Seq(Messages) /\ Len(sent') = Len(sent) + 1 /\ Len(sent) \in Nat
    BY <1>1, <1>2
<1>4. DOMAIN sent' = DOMAIN sent \cup {Len(sent) + 1}
    BY <1>1, <1>3
<1> QED
    BY <1>1, <1>2, <1>3, <1>4

(* The callers of a batch are told a message of their own wallet. *)
LEMMA CompleteOwn ==
    ASSUME TypeOK, OwnWallet, NEW ok, NEW errors, NEW m, NEW late, Complete(ok, errors, m, late),
           \A k \in DOMAIN sent : sent'[k] = sent[k],
           \A q \in ok \cap Requests : m[q] # None => sent'[m[q]].wallet = Wallet[q]
    PROVE  OwnWallet'
<1> SUFFICES ASSUME NEW q \in Requests, cid'[q] # None PROVE sent'[cid'[q]].wallet = Wallet[q]
    BY Zenon DEF OwnWallet
<1>1. cid'[q] = cid[q] \/ (q \in ok /\ cid'[q] = m[q])
    BY Zenon DEF Complete
<1>2. CASE cid'[q] = cid[q]
    <2>1. cid[q] \in DOMAIN sent
        BY Zenon, <1>2 DEF TypeOK
    <2> QED
        BY Zenon, <1>2, <2>1 DEF OwnWallet
<1>3. CASE q \in ok /\ cid'[q] = m[q]
    BY Zenon, <1>3
<1> QED
    BY Zenon, <1>1, <1>2, <1>3

Results == [amtReserved : Nat, msgCid : Nat, completed : SUBSET Requests, save : BOOLEAN]

(* A batch is answered. *)
LEMMA BatchTyped ==
    ASSUME Typed, OwnWallet, NEW ok, NEW errors, NEW m, NEW late, Complete(ok, errors, m, late),
           pc' \in {"reserved", "withdrawn"}, res' \in Results,
           res'.msgCid \in {None} \cup DOMAIN sent',
           UNCHANGED <<up, state, queues, procs, waiters, disk, counters, avail, spent>>,
           sent' \in Seq(Messages), DOMAIN sent \subseteq DOMAIN sent',
           \A k \in DOMAIN sent : sent'[k] = sent[k],
           pending' \subseteq DOMAIN sent', m \in [Requests -> {None} \cup DOMAIN sent'],
           \A q \in ok \cap Requests : m[q] # None => sent'[m[q]].wallet = Wallet[q]
    PROVE  Typed' /\ OwnWallet'
<1>1. /\ UNCHANGED <<up, state, store, reservations, releases, withdrawals, procs, waiters>>
      /\ UNCHANGED <<saveErrors, waitErrors, starts, avail, spent>>
    BY Zenon DEF queues, disk, counters
<1>2. TypeOK
    BY Zenon DEF Typed
<1>3. answer' \in [Requests -> Answers] /\ cid' \in [Requests -> {None} \cup DOMAIN sent']
    BY ZenonT(40), <1>2, CompleteType
<1>4. TypeOK'
    BY Zenon, <1>1, <1>2, <1>3 DEF TypeOK, Answers, Messages, Results
<1>5. Typed'
    BY Zenon, <1>1, <1>4 DEF Typed
<1>6. OwnWallet'
    BY <1>2, CompleteOwn
<1> QED
    BY Zenon, <1>5, <1>6

(* A batch is answered and no message is sent. *)
LEMMA QuietBatchTyped ==
    ASSUME Typed, OwnWallet, NEW ok, NEW errors, NEW late, Complete(ok, errors, NoCid, late),
           pc' \in {"reserved", "withdrawn"}, res' \in Results, res'.msgCid = None,
           UNCHANGED <<up, state, queues, procs, waiters, disk, counters, chain>>
    PROVE  Typed' /\ OwnWallet'
<1>1. UNCHANGED <<sent, pending, avail, spent>>
    BY Zenon DEF chain
<1>2. /\ sent \in Seq(Messages) /\ pending \subseteq DOMAIN sent
      /\ NoCid \in [Requests -> {None} \cup DOMAIN sent] /\ \A q \in Requests : NoCid[q] = None
    BY Zenon DEF Typed, TypeOK, NoCid, Messages
<1> QED
    BY Zenon, <1>1, <1>2, BatchTyped

(* The new reserved amount is a number, and no less than the sum. *)
LEMMA NewReservedFacts ==
    ASSUME TypeOK, NEW split \in Split
    PROVE  /\ newReserved(split) \in Nat
           /\ state.AmtReserved + split.delta <= newReserved(split) + split.release
           /\ state.AmtReserved \in Nat /\ split.delta \in Nat /\ split.release \in Nat
<1>1. state.AmtReserved \in Nat /\ split.delta \in Nat /\ split.release \in Nat
    BY Zenon DEF TypeOK, States, Split
<1> QED
    BY <1>1 DEF newReserved

(* The batches of reservations. *)
LEMMA CoveredTyped ==
    ASSUME Typed, OwnWallet, NEW late, processCovered(late)
    PROVE  Typed' /\ OwnWallet'
<1> DEFINE split == splitReservations
           done == split.cancel \cup ToSet(split.add) \cup ToSet(releases)
<1>0. TypeOK
    BY Zenon DEF Typed
<1>1. split \in Split
    BY Zenon, <1>0, ReserveBatch DEF Reserves
<1>2. newReserved(split) \in Nat
    BY Zenon, <1>0, <1>1, NewReservedFacts
<1>3. done \in SUBSET Requests
    BY <1>0, <1>1 DEF Split, TypeOK, ToSet, Requests
<1>4. /\ Complete(done, {}, NoCid, late) /\ UNCHANGED chain
      /\ reservationsAnswered([amtReserved |-> newReserved(split), msgCid |-> None,
                               completed |-> done, save |-> TRUE])
    BY Zenon DEF processCovered
<1> HIDE DEF split, done
<1>5. res' \in Results /\ res'.msgCid = None
    BY Zenon, <1>2, <1>3, <1>4 DEF reservationsAnswered, Results
<1> QED
    BY Zenon, <1>4, <1>5, QuietBatchTyped DEF reservationsAnswered

(* The batch sends a top-up of the escrow for the reservations that the     *)
(* available funds do not cover.                                           *)
LEMMA AddedTyped ==
    ASSUME Typed, OwnWallet, NEW late, processAdded(late)
    PROVE  Typed' /\ OwnWallet'
<1> DEFINE split == splitReservations
           done == split.cancel \cup ToSet(split.add) \cup ToSet(releases)
           m == Len(sent) + 1
           cids == [q \in Requests |-> IF q \in ToSet(split.add) THEN m ELSE None]
<1>0. TypeOK
    BY DEF Typed
<1>1. split \in Split /\ OneWallet(split.add)
    BY Zenon, <1>0, ReserveBatch DEF Reserves
<1>2. newReserved(split) \in Nat
    BY Zenon, <1>0, <1>1, NewReservedFacts
<1>3. done \in SUBSET Requests
    BY SMTT(30), <1>0, <1>1 DEF Split, TypeOK, ToSet, Requests
<1>4. /\ send(Wallet[split.add[1]], amtToAdd(split)) /\ amtToAdd(split) > 0
      /\ Complete(done, {}, cids, late)
      /\ reservationsAnswered([amtReserved |-> newReserved(split), msgCid |-> m,
                               completed |-> done, save |-> TRUE])
    BY Zenon DEF processAdded
<1> HIDE DEF split, done
<1>5. split.add # <<>> /\ amtToAdd(split) \in Int /\ split.add \in Seq(Reservations)
    <2>1. split.add \in Seq(Reservations)
        BY Zenon, <1>1 DEF Split
    <2>2. amtToAdd(split) \in {0, newReserved(split) - avail} /\ avail \in Nat
        BY Zenon, <1>0 DEF amtToAdd, TypeOK
    <2>3. split.add = <<>> => amtToAdd(split) = 0
        BY Zenon DEF amtToAdd
    <2> QED
        BY <1>2, <1>4, <2>1, <2>2, <2>3
<1>6. 1 \in DOMAIN split.add /\ split.add[1] \in Requests \ Releases
    BY SMTT(30), <1>5, ConstantsAssumption DEF Requests
<1>7. /\ sent' \in Seq(Messages) /\ DOMAIN sent' = DOMAIN sent \cup {m}
      /\ m \in Nat \ {0} /\ pending' \subseteq DOMAIN sent'
      /\ sent'[m] = [wallet |-> Wallet[split.add[1]], amt |-> amtToAdd(split)]
      /\ \A k \in DOMAIN sent : sent'[k] = sent[k]
    BY Zenon, <1>0, <1>4, <1>5, <1>6, SendType
<1> HIDE DEF m
<1>8. res' \in Results /\ res'.msgCid = m
    BY Zenon, <1>2, <1>3, <1>4, <1>7 DEF reservationsAnswered, Results
<1>9. cids \in [Requests -> {None} \cup DOMAIN sent']
    BY Zenon, <1>7
<1>10. ASSUME NEW q \in Requests, cids[q] # None PROVE sent'[cids[q]].wallet = Wallet[q]
    <2>1. q \in ToSet(split.add) /\ cids[q] = m
        BY Zenon, <1>10
    <2>2. Wallet[q] = Wallet[split.add[1]]
        BY SMTT(30), <1>1, <1>6, <2>1 DEF OneWallet, ToSet
    <2> QED
        BY <1>7, <2>1, <2>2
<1>11. /\ UNCHANGED <<up, state, queues, procs, waiters, disk, counters, avail, spent>>
       /\ pc' \in {"reserved", "withdrawn"}
       /\ res'.msgCid \in {None} \cup DOMAIN sent' /\ DOMAIN sent \subseteq DOMAIN sent'
    BY Zenon, <1>4, <1>7, <1>8 DEF send, reservationsAnswered
<1>12. \A q \in done \cap Requests : cids[q] # None => sent'[cids[q]].wallet = Wallet[q]
    BY Zenon, <1>10
<1> HIDE DEF cids
<1>13. /\ Complete(done, {}, cids, late)
       /\ pc' \in {"reserved", "withdrawn"} /\ res' \in Results
       /\ res'.msgCid \in {None} \cup DOMAIN sent'
       /\ UNCHANGED <<up, state, queues, procs, waiters, disk, counters, avail, spent>>
       /\ sent' \in Seq(Messages) /\ DOMAIN sent \subseteq DOMAIN sent'
       /\ \A k \in DOMAIN sent : sent'[k] = sent[k]
       /\ pending' \subseteq DOMAIN sent'
    BY Zenon, <1>4, <1>7, <1>8, <1>11
<1> QED
    BY <1>9, <1>12, <1>13, BatchTyped

(* The balance cannot be read or the top-up cannot be sent: the batch       *)
(* answers all its requests and leaves the reserved amount as it was.      *)
LEMMA ReservationsFailTyped ==
    ASSUME Typed, OwnWallet, NEW late, processReservationsFails(late)
    PROVE  Typed' /\ OwnWallet'
<1> DEFINE done == ToSet(reservations \o releases)
<1>1. done \in SUBSET Requests
    <2>1. reservations \in Seq(Requests) /\ releases \in Seq(Requests)
        BY DEF Typed, TypeOK, Requests
    <2> QED
        BY <2>1 DEF ToSet
<1>2. /\ Complete({}, done, NoCid, late) /\ UNCHANGED chain
      /\ reservationsAnswered([NoResult EXCEPT !.completed = done])
    BY Zenon DEF processReservationsFails
<1> HIDE DEF done
<1>3. res' \in Results /\ res'.msgCid = None
    BY Zenon, <1>1, <1>2 DEF reservationsAnswered, Results, NoResult
<1> QED
    BY Zenon, <1>2, <1>3, QuietBatchTyped DEF reservationsAnswered

(* The batches of withdrawals. *)
LEMMA WithdrawnTyped ==
    ASSUME Typed, OwnWallet, NEW late, processWithdrawn(late)
    PROVE  Typed' /\ OwnWallet'
<1> DEFINE split == splitWithdrawals
           ok == ToSet(split.allowed)
           m == Len(sent) + 1
           cids == [q \in Requests |-> m]
<1>0. TypeOK
    BY DEF Typed
<1>1. split \in WithdrawSplit /\ OneWallet(split.allowed)
    BY Zenon, <1>0, WithdrawBatch DEF Keeps
<1>2. ok \cup split.refused \in SUBSET Requests
    BY <1>1 DEF WithdrawSplit, ToSet, Requests
<1>3. /\ send(Wallet[split.allowed[1]], -split.amt) /\ split.allowed # <<>>
      /\ Complete(ok, split.refused, cids, late)
      /\ withdrawalsAnswered([NoResult EXCEPT !.msgCid = m, !.save = TRUE,
                              !.completed = ok \cup split.refused])
    BY Zenon DEF processWithdrawn
<1> HIDE DEF split
<1>4. 1 \in DOMAIN split.allowed /\ split.allowed[1] \in Requests \ Releases /\ -split.amt \in Int
    BY <1>1, <1>3, ConstantsAssumption DEF Requests, WithdrawSplit
<1>5. /\ sent' \in Seq(Messages) /\ DOMAIN sent' = DOMAIN sent \cup {m}
      /\ m \in Nat \ {0} /\ pending' \subseteq DOMAIN sent'
      /\ sent'[m] = [wallet |-> Wallet[split.allowed[1]], amt |-> -split.amt]
      /\ \A k \in DOMAIN sent : sent'[k] = sent[k]
    BY Zenon, <1>0, <1>3, <1>4, SendType
<1> HIDE DEF m
<1>6. res' \in Results /\ res'.msgCid = m
    <2> HIDE DEF ok
    <2> QED
        BY Zenon, <1>2, <1>3, <1>5 DEF withdrawalsAnswered, Results, NoResult
<1>7. cids \in [Requests -> {None} \cup DOMAIN sent']
    BY Zenon, <1>5
<1>8. ASSUME NEW q \in ok \cap Requests PROVE sent'[cids[q]].wallet = Wallet[q]
    <2>1. Wallet[q] = Wallet[split.allowed[1]]
        BY <1>1, <1>4 DEF OneWallet, ToSet
    <2>2. cids[q] = m
        BY Zenon
    <2>3. sent'[m].wallet = Wallet[split.allowed[1]]
        BY <1>5
    <2> QED
        BY Zenon, <2>1, <2>2, <2>3
<1>9. /\ UNCHANGED <<up, state, queues, procs, waiters, disk, counters, avail, spent>>
      /\ pc' \in {"reserved", "withdrawn"}
      /\ res'.msgCid \in {None} \cup DOMAIN sent' /\ DOMAIN sent \subseteq DOMAIN sent'
    BY Zenon, <1>3, <1>5, <1>6 DEF send, withdrawalsAnswered
<1> HIDE DEF cids, ok
<1> QED
    <2>1. /\ Complete(ok, split.refused, cids, late)
          /\ pc' \in {"reserved", "withdrawn"} /\ res' \in Results
          /\ res'.msgCid \in {None} \cup DOMAIN sent'
          /\ UNCHANGED <<up, state, queues, procs, waiters, disk, counters, avail, spent>>
          /\ sent' \in Seq(Messages) /\ DOMAIN sent \subseteq DOMAIN sent'
          /\ \A k \in DOMAIN sent : sent'[k] = sent[k]
          /\ pending' \subseteq DOMAIN sent'
        BY Zenon, <1>3, <1>5, <1>6, <1>9
    <2> QED
        BY <1>7, <1>8, <2>1, BatchTyped

(* No withdrawal of the batch is granted, or its message fails. *)
LEMMA NotWithdrawnTyped ==
    ASSUME Typed, OwnWallet, NEW late, processRefused(late) \/ processWithdrawalsFails(late)
    PROVE  Typed' /\ OwnWallet'
<1>1. PICK done \in {splitWithdrawals.refused, ToSet(withdrawals)} :
          /\ Complete({}, done, NoCid, late) /\ UNCHANGED chain
          /\ withdrawalsAnswered([NoResult EXCEPT !.completed = done])
    BY Zenon DEF processRefused, processWithdrawalsFails
<1>2. done \in SUBSET Requests
    <2>1. Keeps(splitWithdrawals)
        BY Zenon, WithdrawBatch DEF Typed
    <2>2. splitWithdrawals.refused \in SUBSET Withdrawals
        BY Zenon, <2>1 DEF Keeps, WithdrawSplit
    <2>3. withdrawals \in Seq(Withdrawals)
        BY Zenon DEF Typed, TypeOK
    <2>4. ToSet(withdrawals) \in SUBSET Withdrawals
        BY <2>3 DEF ToSet
    <2> QED
        BY Zenon, <2>2, <2>4 DEF Requests
<1>3. res' \in Results /\ res'.msgCid = None
    BY Zenon, <1>1, <1>2 DEF withdrawalsAnswered, Results, NoResult
<1> QED
    BY Zenon, <1>1, <1>3, QuietBatchTyped DEF withdrawalsAnswered

(* saveState writes the state or leaves the datastore as it is. *)
LEMMA SaveType ==
    ASSUME Typed, saveState
    PROVE  store' \in {state', store} /\ saveErrors' \in 0 .. MaxSaveErrors
BY ConstantsAssumption DEF saveState, Typed, TypeOK

(* A step after which the state, the datastore, the queues and the waiters *)
(* are again what they should be, and no message or answer is new.         *)
LEMMA SameMessages ==
    ASSUME Typed, OwnWallet, UNCHANGED <<sent, pending, avail, spent, answer, cid>>,
           up' \in {"up", "down", "panicked"},
           state' \in States, store' \in States,
           {state'.MsgCid, store'.MsgCid} \subseteq {None} \cup DOMAIN sent,
           reservations' \in Seq(Reservations), releases' \in Seq(Releases),
           withdrawals' \in Seq(Withdrawals),
           pc' \in {"idle", "withdraw"}, res' = NoResult, procs' \in Nat,
           waiters' \subseteq DOMAIN sent, saveErrors' \in 0 .. MaxSaveErrors,
           waitErrors' \in 0 .. MaxWaitErrors, starts' \in 0 .. MaxStarts
    PROVE  Typed' /\ OwnWallet'
<1>1. TypeOK'
    BY Zenon DEF Typed, TypeOK, NoResult
<1>2. Typed'
    BY Zenon, <1>1 DEF Typed, NoResult
<1> QED
    BY Zenon, <1>2 DEF OwnWallet

(* The results of a batch are applied. *)
LEMMA ApplyTyped ==
    ASSUME Typed, OwnWallet, applyReservations \/ applyWithdrawals
    PROVE  Typed' /\ OwnWallet'
<1>0. /\ state \in States /\ store \in States /\ res \in Results
      /\ {state.MsgCid, store.MsgCid, res.msgCid} \subseteq {None} \cup DOMAIN sent
      /\ saveErrors \in 0 .. MaxSaveErrors
    BY Zenon DEF Typed, TypeOK, Results
<1>1. /\ IF res.save
         THEN /\ \/ state' = [AmtReserved |-> res.amtReserved, MsgCid |-> res.msgCid]
                 \/ state' = [AmtReserved |-> state.AmtReserved, MsgCid |-> res.msgCid]
              /\ saveState
         ELSE UNCHANGED <<state, disk>>
      /\ UNCHANGED <<up, procs, callers, chain, counters>>
      /\ finishProcess \/ (pc' = "withdraw" /\ res' = NoResult /\ UNCHANGED waiters)
    BY Zenon DEF applyReservations, applyWithdrawals
<1>2. state' \in States /\ state'.MsgCid \in {None} \cup DOMAIN sent
    BY <1>0, <1>1 DEF States, Results
<1>3. store' \in {state', store} /\ saveErrors' \in 0 .. MaxSaveErrors
    BY Zenon, <1>0, <1>1, SaveType DEF disk
<1>4. /\ reservations' \in Seq(Reservations) /\ releases' \in Seq(Releases)
      /\ withdrawals' \in Seq(Withdrawals)
    BY FilterFacts DEF applyReservations, applyWithdrawals, Typed, TypeOK
<1>5. pc' \in {"idle", "withdraw"} /\ res' = NoResult /\ waiters' \subseteq DOMAIN sent
    BY Zenon, <1>1, <1>2 DEF finishProcess, Typed, TypeOK
<1>6. /\ UNCHANGED <<sent, pending, avail, spent, answer, cid, up, procs, waitErrors, starts>>
    BY Zenon, <1>1 DEF chain, callers, counters
<1>7. /\ up \in {"up", "down", "panicked"} /\ procs \in Nat
      /\ waitErrors \in 0 .. MaxWaitErrors /\ starts \in 0 .. MaxStarts
    BY Zenon DEF Typed, TypeOK
<1> QED
    BY Zenon, <1>0, <1>2, <1>3, <1>4, <1>5, <1>6, <1>7, SameMessages

(* The wait for a message is over. *)
LEMMA ClearTyped ==
    ASSUME Typed, OwnWallet, NEW m, waitDone(m) \/ waitFails(m)
    PROVE  Typed' /\ OwnWallet'
<1>0. /\ state \in States /\ store \in States /\ procs \in Nat /\ up = "up"
      /\ {state.MsgCid, store.MsgCid} \subseteq {None} \cup DOMAIN sent
      /\ waiters \subseteq DOMAIN sent /\ waitErrors \in 0 .. MaxWaitErrors
      /\ starts \in 0 .. MaxStarts
    BY Zenon DEF Typed, TypeOK, waitDone, waitFails, clearWaitState
<1>1. /\ state' = [AmtReserved |-> state.AmtReserved, MsgCid |-> None]
      /\ saveState /\ waiters' = waiters \ {m} /\ procs' = procs + 1
      /\ UNCHANGED <<up, queues, pc, res, callers, chain, starts>>
      /\ waitErrors' = waitErrors \/ (waitErrors < MaxWaitErrors /\ waitErrors' = waitErrors + 1)
    BY Zenon DEF waitDone, waitFails, clearWaitState
<1>2. state' \in States /\ state'.MsgCid = None
    BY Zenon, <1>0, <1>1 DEF States
<1>3. store' \in {state', store} /\ saveErrors' \in 0 .. MaxSaveErrors
    BY Zenon, <1>1, SaveType
<1>4. waitErrors' \in 0 .. MaxWaitErrors
    <2>1. MaxWaitErrors \in Nat
        BY Zenon, ConstantsAssumption
    <2> QED
        BY <1>0, <1>1, <2>1
<1>5. TypeOK'
    <2>1. UNCHANGED <<up, reservations, releases, withdrawals, pc, res, answer, cid, sent, pending,
                      avail, spent, starts>>
        BY Zenon, <1>1 DEF queues, callers, chain
    <2>2. store' \in States /\ waiters' \subseteq DOMAIN sent /\ procs' \in Nat
        BY <1>0, <1>1, <1>2, <1>3
    <2> QED
        BY Zenon, <1>2, <1>3, <1>4, <2>1, <2>2 DEF Typed, TypeOK
<1>6. Typed' /\ OwnWallet'
    BY Zenon, <1>0, <1>1, <1>2, <1>3, <1>5 DEF Typed, OwnWallet, callers, chain
<1> QED
    BY Zenon, <1>6

(* The process ends, or starts again. *)
LEMMA EndTyped ==
    ASSUME Typed, OwnWallet, completeTwice \/ exit \/ start
    PROVE  Typed' /\ OwnWallet'
<1>0. /\ store \in States /\ store.MsgCid \in {None} \cup DOMAIN sent
      /\ saveErrors \in 0 .. MaxSaveErrors /\ waitErrors \in 0 .. MaxWaitErrors
      /\ starts \in 0 .. MaxStarts /\ MaxStarts \in Nat
    BY Zenon, ConstantsAssumption DEF Typed, TypeOK
<1>1. CASE completeTwice \/ exit
    <2>1. PICK how \in {"down", "panicked"} : halt(how)
        BY Zenon, <1>1 DEF completeTwice, exit
    <2>2. answer' \in [Requests -> Answers]
        BY Zenon, <1>1 DEF completeTwice, exit, Answers, Typed, TypeOK
    <2>3. /\ up' = how /\ state' = [AmtReserved |-> 0, MsgCid |-> None]
          /\ reservations' = <<>> /\ releases' = <<>> /\ withdrawals' = <<>>
          /\ pc' = "idle" /\ res' = NoResult /\ procs' = 0 /\ waiters' = {}
          /\ UNCHANGED <<store, saveErrors, cid, sent, pending, avail, spent, waitErrors, starts>>
        BY Zenon, <2>1 DEF halt, disk, chain, counters
    <2>4. TypeOK'
        <3>1. /\ state' \in States /\ res' \in Results
              /\ procs' \in Nat /\ waiters' \subseteq DOMAIN sent'
            BY <2>3 DEF States, Results, NoResult, None
        <3>2. /\ reservations' \in Seq(Reservations) /\ releases' \in Seq(Releases)
              /\ withdrawals' \in Seq(Withdrawals)
            BY <2>3
        <3> QED
            BY Zenon, <2>2, <2>3, <3>1, <3>2 DEF Typed, TypeOK, Answers, Results
    <2> QED
        BY Zenon, <1>0, <2>3, <2>4 DEF Typed, OwnWallet, NoResult
<1>2. CASE start
    <2>1. /\ starts < MaxStarts /\ starts' = starts + 1 /\ up' = "up" /\ state' = store
          /\ waiters' = IF store.MsgCid # None THEN {store.MsgCid} ELSE {}
          /\ UNCHANGED <<reservations, releases, withdrawals, pc, res, procs, store, saveErrors>>
          /\ UNCHANGED <<answer, cid, sent, pending, avail, spent, waitErrors>>
        BY Zenon, <1>2 DEF start, queues, disk, callers, chain
    <2>2. starts' \in 0 .. MaxStarts
        BY <1>0, <2>1
    <2>3. waiters' \subseteq DOMAIN sent
        BY Zenon, <1>0, <2>1
    <2>4. TypeOK'
        BY Zenon, <1>0, <2>1, <2>2, <2>3 DEF Typed, TypeOK
    <2> QED
        BY Zenon, <1>0, <2>1, <2>4 DEF Typed, OwnWallet
<1> QED
    BY Zenon, <1>1, <1>2

(* A step of the callers, of the chain, or of a process with nothing to do *)
(* leaves the manager's state and what callers were told.                  *)
LEMMA OutsideTyped ==
    ASSUME Typed, OwnWallet,
           UNCHANGED <<up, state, pc, res, waiters, disk, cid, sent, counters>>,
           reservations' \in Seq(Reservations), releases' \in Seq(Releases),
           withdrawals' \in Seq(Withdrawals), procs' \in Nat,
           answer' \in [Requests -> Answers],
           pending' \subseteq DOMAIN sent, avail' \in Nat, spent' \subseteq Reservations
    PROVE  Typed' /\ OwnWallet'
<1>1. UNCHANGED <<up, state, pc, res, waiters, store, saveErrors, cid, sent, waitErrors, starts>>
    BY Zenon DEF disk, counters
<1>2. TypeOK'
    BY Zenon, <1>1 DEF Typed, TypeOK, Answers
<1> QED
    BY Zenon, <1>1, <1>2 DEF Typed, OwnWallet

(* Every step keeps the types, and tells callers messages of their wallet. *)
LEMMA StepTyped == Typed /\ OwnWallet /\ [Next]_vars => Typed' /\ OwnWallet'
<1> SUFFICES ASSUME Typed, OwnWallet, [Next]_vars PROVE Typed' /\ OwnWallet'
    BY Zenon
<1>0. /\ reservations \in Seq(Reservations) /\ releases \in Seq(Releases)
      /\ withdrawals \in Seq(Withdrawals) /\ procs \in Nat
      /\ answer \in [Requests -> Answers] /\ pending \subseteq DOMAIN sent
      /\ avail \in Nat /\ spent \subseteq Reservations
    BY Zenon DEF Typed, TypeOK, Answers
<1>1. ASSUME NEW q \in Requests, requestAndWait(q) PROVE Typed' /\ OwnWallet'
    <2>1. /\ reservations' \in Seq(Reservations) /\ releases' \in Seq(Releases)
          /\ withdrawals' \in Seq(Withdrawals) /\ procs' \in Nat
          /\ answer' \in [Requests -> Answers]
        BY <1>0, <1>1 DEF requestAndWait, Answers
    <2> QED
        BY Zenon, <1>0, <1>1, <2>1, OutsideTyped DEF requestAndWait, chain
<1>2. ASSUME NEW q \in Requests, contextDone(q) PROVE Typed' /\ OwnWallet'
    <2>1. answer' \in [Requests -> Answers]
        BY Zenon, <1>0, <1>2 DEF contextDone, Answers
    <2>2. UNCHANGED <<up, state, reservations, releases, withdrawals, pc, res, procs, waiters,
                      disk, cid, sent, pending, avail, spent, counters>>
        BY Zenon, <1>2 DEF contextDone, memory, queues, chain
    <2> QED
        BY Zenon, <1>0, <2>1, <2>2, OutsideTyped
<1>3. CASE processNothing
    <2>1. /\ UNCHANGED <<up, state, reservations, releases, withdrawals, pc, res, waiters,
                         disk, answer, cid, sent, pending, avail, spent, counters>>
          /\ procs' \in Nat
        BY <1>0, <1>3 DEF processNothing, queues, callers, chain
    <2> QED
        BY Zenon, <1>0, <2>1, OutsideTyped
<1>4. CASE process
    BY Zenon, <1>3, <1>4, ApplyTyped, CoveredTyped, AddedTyped, ReservationsFailTyped, WithdrawnTyped,
       NotWithdrawnTyped, EndTyped DEF process
<1>5. ASSUME NEW m \in DOMAIN sent, execute(m) PROVE Typed' /\ OwnWallet'
    <2>1. /\ UNCHANGED <<up, state, reservations, releases, withdrawals, pc, res, procs, waiters,
                         disk, answer, cid, sent, spent, counters>>
          /\ pending' \subseteq DOMAIN sent /\ avail' \in Nat
        BY <1>0, <1>5 DEF execute, memory, queues, callers
    <2> QED
        BY Zenon, <1>0, <2>1, OutsideTyped
<1>6. ASSUME NEW q \in Reservations, lockFunds(q) PROVE Typed' /\ OwnWallet'
    <2>1. Amt[q] \in Nat
        BY Zenon, ConstantsAssumption DEF Requests
    <2>2. /\ UNCHANGED <<up, state, reservations, releases, withdrawals, pc, res, procs, waiters,
                         disk, answer, cid, sent, pending, counters>>
          /\ spent' \subseteq Reservations /\ avail' \in Nat
        BY <1>0, <1>6, <2>1 DEF lockFunds, memory, queues, callers
    <2> QED
        BY Zenon, <1>0, <2>2, OutsideTyped
<1>7. CASE UNCHANGED vars
    <2>1. UNCHANGED <<up, state, reservations, releases, withdrawals, pc, res, procs, waiters,
                      disk, answer, cid, sent, pending, avail, spent, counters>>
        BY Zenon, <1>7 DEF vars, memory, queues, callers, chain
    <2> QED
        BY Zenon, <1>0, <2>1, OutsideTyped
<1> QED
    BY Zenon, <1>1, <1>2, <1>4, <1>5, <1>6, <1>7, ClearTyped, EndTyped DEF Next

(* A fund manager starts without requests, messages or reserved amounts. *)
LEMMA InitTyped == Init => Typed /\ OwnWallet
BY ConstantsAssumption DEF Init, Typed, TypeOK, OwnWallet, States, NoResult

(* The manager's state, and every message number it holds or hands out, is *)
(* what TypeOK says.                                                       *)
THEOREM TypesHold == Spec => []TypeOK
<1>1. Spec => [](Typed /\ OwnWallet)
    BY InitTyped, StepTyped, PTL DEF Spec
<1>2. Typed => TypeOK
    BY DEF Typed
<1> QED
    BY <1>1, <1>2, PTL

(* Whatever is batched, fails, is cancelled or restarts, a caller is told  *)
(* a message that its own wallet sent.                                     *)
THEOREM CallersOwnWallet == Spec => []OwnWallet
<1>1. Spec => [](Typed /\ OwnWallet)
    BY InitTyped, StepTyped, PTL DEF Spec
<1> QED
    BY <1>1, PTL

-----------------------------------------------------------------------------
(* The amounts.                                                            *)

(* The reservations a deal has locked the funds of, not yet released. *)
Unreleased == {q \in spent : \A l \in Releases : ReservationOf[l] = q => answer[l] # "ok"}

(* The sets whose amounts are added up are sets of requests. *)
LEMMA AmountSets ==
    ASSUME TypeOK
    PROVE  /\ OkReservations \in SUBSET Requests /\ OkReleases \in SUBSET Requests
           /\ Unreleased \in SUBSET Requests
           /\ SumAmt(OkReservations) \in Nat /\ SumAmt(OkReleases) \in Nat
           /\ Locked = SumAmt(Unreleased) /\ Locked \in Nat
<1>1. /\ OkReservations \in SUBSET Requests /\ OkReleases \in SUBSET Requests
      /\ Unreleased \in SUBSET Requests
    BY Zenon DEF OkReservations, OkReleases, Unreleased, Requests, TypeOK
<1>2. Locked = SumAmt(Unreleased)
    BY Zenon DEF Locked, Unreleased
<1> QED
    BY Zenon, <1>1, <1>2, SumAmtFacts

(* The funds that deals have locked, after a step. *)
LEMMA LockedNext ==
    ASSUME TypeOK'
    PROVE  Locked' \in Nat
<1>1. Locked' = SumAmt(Unreleased')
    BY Zenon DEF Locked, Unreleased
<1>2. Unreleased' \in SUBSET Requests
    BY Zenon DEF Unreleased, TypeOK, Requests
<1> QED
    BY Zenon, <1>1, <1>2, SumAmtFacts

(* Until a wait fails or the process restarts, the only message on its way *)
(* is the one the manager tracks.                                          *)
LEMMA OnlyTracked ==
    ASSUME IInv, starts = 0, waitErrors = 0, up = "up"
    PROVE  pending \subseteq Tracked
<1>1. IsFiniteSet(pending \ Tracked)
    BY Zenon, FS_Difference DEF IInv, Types
<1>2. Cardinality(pending \ Tracked) \in Nat /\ Cardinality(pending \ Tracked) <= 0 + 0
    BY Zenon, <1>1, FS_CardinalityType DEF IInv, Counted
<1>3. Cardinality(pending \ Tracked) = 0
    BY <1>2
<1>4. pending \ Tracked = {}
    BY Zenon, <1>1, <1>3, FS_EmptySet
<1> QED
    BY Zenon, <1>4

(* A step that changes neither the reserved amount nor who was answered    *)
(* "ok" keeps the promises; if it leaves the chain, what is kept too.      *)
LEMMA SameAmounts ==
    ASSUME AmountInv, Reserved' = Reserved,
           \A q \in Reservations \cup Releases : answer'[q] = "ok" <=> answer[q] = "ok",
           UNCHANGED <<up, starts>>
    PROVE  /\ Promised'
           /\ UNCHANGED <<chain, waitErrors>> => Kept'
<1>1. OkReservations' = OkReservations /\ OkReleases' = OkReleases
    BY Zenon DEF OkReservations, OkReleases
<1>2. Promised'
    <2>1. SumAmt(OkReservations)' = SumAmt(OkReservations) /\ SumAmt(OkReleases)' = SumAmt(OkReleases)
        BY Zenon, <1>1
    <2> QED
        BY Zenon, <2>1 DEF AmountInv, Amounts, Promised
<1>3. ASSUME UNCHANGED <<chain, waitErrors>> PROVE Kept'
    <2>1. UNCHANGED <<sent, pending, avail, spent, waitErrors>>
        BY Zenon, <1>3 DEF chain
    <2>2. Unreleased' = Unreleased
        BY Zenon, <2>1 DEF Unreleased
    <2>3. Locked' = Locked
        <3>1. Locked = SumAmt(Unreleased) /\ Locked' = SumAmt(Unreleased')
            BY Zenon DEF Locked, Unreleased
        <3> QED
            BY Zenon, <2>2, <3>1
    <2> QED
        BY Zenon, <2>1, <2>3 DEF AmountInv, Amounts, Kept
<1> QED
    BY Zenon, <1>2, <1>3

(* A request is queued, or its context ends. *)
LEMMA RequestAmounts ==
    ASSUME AmountInv, NEW q \in Requests, requestAndWait(q) \/ contextDone(q)
    PROVE  Amounts'
<1>0. /\ answer \in [Requests -> Answers] /\ releases \in Seq(Releases)
      /\ Releases \subseteq Requests /\ Reservations \subseteq Requests
    BY Zenon DEF AmountInv, Typed, TypeOK, Answers, Requests
<1>1. /\ UNCHANGED <<up, state, pc, res, chain, waitErrors, starts>>
      /\ answer[q] \in {"new", "queued"}
      /\ answer' = [answer EXCEPT ![q] = "queued"] \/ answer' = [answer EXCEPT ![q] = "cancelled"]
    BY Zenon DEF requestAndWait, contextDone, memory, counters
<1>2. Promised' /\ Kept'
    <2>1. Reserved' = Reserved
        BY Zenon, <1>1 DEF Reserved
    <2>2. \A r \in Reservations \cup Releases : answer'[r] = "ok" <=> answer[r] = "ok"
        BY Zenon, <1>0, <1>1
    <2> QED
        BY Zenon, <1>1, <2>1, <2>2, SameAmounts
<1>3. CASE requestAndWait(q) /\ q \in Releases
    <2>1. /\ pc = "idle" /\ answer[q] = "new" /\ releases' = Append(releases, q)
          /\ answer' = [answer EXCEPT ![q] = "queued"]
        BY Zenon, <1>3 DEF requestAndWait
    <2>2. \A i \in DOMAIN releases : answer[releases[i]] = "queued" /\ releases[i] \in Requests
        <3>1. \A i \in DOMAIN releases : releases[i] \in Releases
            BY <1>0
        <3> QED
            BY Zenon, <1>0, <2>1, <3>1 DEF AmountInv, Amounts, ReleasesQueued
    <2>0. /\ DOMAIN releases' = DOMAIN releases \cup {Len(releases) + 1}
          /\ releases'[Len(releases) + 1] = q
          /\ \A i \in DOMAIN releases : releases'[i] = releases[i]
        BY <1>0, <2>1
    <2>3. \A i \in DOMAIN releases' : answer'[releases'[i]] = "queued"
        BY Zenon, <1>0, <2>0, <2>1, <2>2
    <2>4. \A i, j \in DOMAIN releases' : releases'[i] = releases'[j] => i = j
        <3>1. \A i \in DOMAIN releases : releases[i] # q
            BY Zenon, <2>1, <2>2
        <3> QED
            BY Zenon, <2>0, <3>1 DEF AmountInv, Amounts, ReleasesQueued
    <2>5. ReleasesQueued'
        BY Zenon, <1>1, <2>1, <2>3, <2>4 DEF ReleasesQueued
    <2> QED
        BY Zenon, <1>2, <2>5 DEF Amounts
<1>4. CASE ~(requestAndWait(q) /\ q \in Releases)
    <2>1. releases' = releases /\ q \notin Releases
        BY Zenon, <1>4 DEF requestAndWait, contextDone, memory, queues
    <2>2. \A i \in DOMAIN releases : answer'[releases[i]] = answer[releases[i]]
        BY SMTT(30), <1>0, <1>1, <2>1
    <2>3. ReleasesQueued'
        BY Zenon, <1>1, <2>1, <2>2 DEF AmountInv, Amounts, ReleasesQueued
    <2> QED
        BY <1>2, <2>3 DEF Amounts
<1> QED
    BY Zenon, <1>3, <1>4

(* A batch of reservations that is answered finds no message on its way    *)
(* and answers every release.                                              *)
LEMMA BatchStart ==
    ASSUME AmountInv, mayProcess \/ mayWithdraw
    PROVE  /\ pc \in {"idle", "withdraw"} /\ Reserved = state.AmtReserved /\ up = "up"
           /\ starts = 0 /\ waitErrors = 0 => pending = {}
<1>1. pc \in {"idle", "withdraw"} /\ up = "up" /\ state.MsgCid = None
    BY Zenon, MayWithdraw DEF AmountInv, mayProcess
<1>2. res = NoResult
    BY Zenon, <1>1 DEF AmountInv, IInv, Running
<1>3. Tracked = {}
    BY Zenon, <1>1, <1>2 DEF Tracked, NoResult
<1> QED
    BY Zenon, <1>1, <1>3, OnlyTracked DEF AmountInv, Reserved

(* What callers are promised by a batch of reservations is reserved: more  *)
(* is added than the requests it answers ask for, less what is released.   *)
LEMMA BatchPromised ==
    ASSUME AmountInv, mayProcess, NEW m, NEW late,
           Complete(splitReservations.cancel \cup ToSet(splitReservations.add) \cup ToSet(releases),
                    {}, m, late),
           Reserved' = newReserved(splitReservations), starts' = starts
    PROVE  Promised'
<1> DEFINE split == splitReservations
           done == split.cancel \cup ToSet(split.add) \cup ToSet(releases)
<1>0. TypeOK /\ pc = "idle" /\ Reserved = state.AmtReserved /\ up = "up"
    BY Zenon, BatchStart DEF AmountInv, Typed, mayProcess
<1>1. Reserves(split) /\ split \in Split
    BY Zenon, <1>0, ReserveBatch DEF Reserves
<1>2. SUFFICES ASSUME starts = 0
               PROVE  SumAmt(OkReservations') <= Reserved' + SumAmt(OkReleases')
    BY Zenon DEF Promised
<1>3. /\ OkReservations \in SUBSET Requests /\ OkReleases \in SUBSET Requests
      /\ SumAmt(OkReservations) \in Nat /\ SumAmt(OkReleases) \in Nat
    BY Zenon, <1>0, AmountSets
<1>4. /\ releases \in Seq(Releases) /\ answer \in [Requests -> Answers]
      /\ \A q \in ToSet(releases) : answer[q] = "queued" /\ q \in Releases /\ q \in Requests
    <2>1. /\ releases \in Seq(Releases) /\ answer \in [Requests -> Answers]
          /\ \A i \in DOMAIN releases : answer[releases[i]] = "queued"
        BY Zenon, <1>0 DEF AmountInv, Amounts, ReleasesQueued, TypeOK, Answers
    <2>2. \A i \in DOMAIN releases : releases[i] \in Releases
        BY <2>1
    <2> QED
        BY Zenon, <2>1, <2>2 DEF ToSet, Requests
<1>5. ToSet(releases) \in SUBSET Requests /\ OkReleases \cap ToSet(releases) = {}
    BY Zenon, <1>4 DEF OkReleases
<1>6. OkReleases' = OkReleases \cup ToSet(releases)
    <2>1. ASSUME NEW q \in Releases
          PROVE  answer'[q] = IF answer[q] = "queued" /\ q \in done THEN "ok" ELSE answer[q]
        BY ConstantsAssumption, ZenonT(40) DEF Complete, Requests
    <2>2. ASSUME NEW q \in Releases PROVE q \in done <=> q \in ToSet(releases)
        BY SMTT(30), <1>1, ConstantsAssumption DEF Split, ToSet
    <2> HIDE DEF done
    <2> QED
        BY Zenon, <1>4, <2>1, <2>2 DEF OkReleases
<1>7. SumAmt(OkReleases') = SumAmt(OkReleases) + SumAmt(ToSet(releases))
    BY Zenon, <1>3, <1>5, <1>6, SumAmtFacts
<1>8. Taken(split) \in SUBSET Requests
    BY <1>1 DEF Taken, Split, ToSet, Requests
<1>9. OkReservations' \in SUBSET (OkReservations \cup Taken(split))
    <2>1. ASSUME NEW q \in Reservations, answer'[q] = "ok"
          PROVE  answer[q] = "ok" \/ (answer[q] = "queued" /\ q \in split.cancel \cup ToSet(split.add))
        <3>1. q \notin ToSet(releases) /\ q \in Requests
            BY Zenon, <1>4, ConstantsAssumption DEF Requests
        <3> QED
            BY Zenon, <2>1, <3>1 DEF Complete
    <2> QED
        BY Zenon, <2>1 DEF OkReservations, Taken
<1>10. OkReservations \cap Taken(split) = {}
    BY Zenon DEF OkReservations, Taken
<1> HIDE DEF split, done
<1>11. SumAmt(OkReservations') <= SumAmt(OkReservations) + SumAmt(Taken(split))
    <2>1. SumAmt(OkReservations \cup Taken(split)) = SumAmt(OkReservations) + SumAmt(Taken(split))
        BY ZenonT(40), <1>3, <1>8, <1>10, SumAmtFacts
    <2>2. OkReservations \cup Taken(split) \in SUBSET Requests
        BY Zenon, <1>3, <1>8
    <2>3. SumAmt(OkReservations') <= SumAmt(OkReservations \cup Taken(split))
        BY Zenon, <1>9, <2>2, SumAmtFacts
    <2> QED
        BY Zenon, <2>1, <2>3
<1>12. SumAmt(Taken(split)) \in Nat /\ SumAmt(ToSet(releases)) \in Nat /\ SumAmt(OkReservations') \in Nat
    <2>1. OkReservations' \in SUBSET Requests
        BY Zenon, <1>3, <1>8, <1>9
    <2> QED
        BY Zenon, <1>5, <1>8, <2>1, SumAmtFacts
<1>13. releasedTotal \in Nat /\ releasedTotal <= SumAmt(ToSet(releases))
    BY Zenon, <1>0, ReleasedTotalType, ReleasedBound DEF AmountInv, Amounts, ReleasesQueued
<1>14. /\ SumAmt(Taken(split)) + split.release <= releasedTotal + split.delta
       /\ newReserved(split) \in Nat
       /\ state.AmtReserved + split.delta <= newReserved(split) + split.release
       /\ state.AmtReserved \in Nat /\ split.delta \in Nat /\ split.release \in Nat
    BY Zenon, <1>0, <1>1, NewReservedFacts DEF Reserves
<1>15. SumAmt(OkReservations) <= state.AmtReserved + SumAmt(OkReleases)
    BY Zenon, <1>0, <1>2 DEF AmountInv, Amounts, Promised
<1>16. Reserved' = newReserved(split)
    BY Zenon DEF split
<1>17. SumAmt(OkReservations') + split.release
           <= SumAmt(OkReservations) + SumAmt(ToSet(releases)) + split.delta
    BY <1>3, <1>11, <1>12, <1>13, <1>14
<1> QED
    BY Zenon, <1>3, <1>7, <1>12, <1>14, <1>15, <1>16, <1>17, ReservesEnough

(* The batches of reservations. *)
LEMMA CoveredAmounts ==
    ASSUME AmountInv, NEW late, processCovered(late)
    PROVE  Amounts'
<1> DEFINE split == splitReservations
           done == split.cancel \cup ToSet(split.add) \cup ToSet(releases)
<1>1. /\ mayProcess /\ Complete(done, {}, NoCid, late) /\ UNCHANGED chain
      /\ reservationsAnswered([amtReserved |-> newReserved(split), msgCid |-> None,
                               completed |-> done, save |-> TRUE])
    BY Zenon DEF processCovered
<1>2. /\ pc' = "reserved" /\ res'.completed = done /\ Reserved' = newReserved(split)
      /\ UNCHANGED <<up, releases, pending, waitErrors, starts>>
    BY Zenon, <1>1 DEF reservationsAnswered, Reserved, queues, counters, chain
<1>3. Promised'
    BY Zenon, <1>1, <1>2, BatchPromised
<1>4. Kept'
    BY Zenon, <1>1, <1>2, BatchStart DEF Kept
<1>5. ReleasesQueued'
    BY Zenon, <1>2 DEF AmountInv, Amounts, ReleasesQueued
<1> QED
    BY Zenon, <1>3, <1>4, <1>5 DEF Amounts

(* A batch that sends a top-up reserves what it tops up for. *)
LEMMA AddedAmounts ==
    ASSUME AmountInv, NEW late, processAdded(late)
    PROVE  Amounts'
<1> DEFINE split == splitReservations
           done == split.cancel \cup ToSet(split.add) \cup ToSet(releases)
           m == Len(sent) + 1
           cids == [q \in Requests |-> IF q \in ToSet(split.add) THEN m ELSE None]
<1>0. TypeOK /\ TypeOK'
    BY Zenon, AddedTyped DEF AmountInv, Typed
<1>1. /\ mayProcess /\ Complete(done, {}, cids, late) /\ amtToAdd(split) > 0
      /\ send(Wallet[split.add[1]], amtToAdd(split))
      /\ reservationsAnswered([amtReserved |-> newReserved(split), msgCid |-> m,
                               completed |-> done, save |-> TRUE])
    BY ZenonT(40) DEF processAdded
<1>2. /\ pc' = "reserved" /\ res'.completed = done /\ Reserved' = newReserved(split)
      /\ UNCHANGED <<up, releases, waitErrors, starts, avail>>
      /\ pending' = pending \cup {m}
    BY ZenonT(40), <1>1 DEF reservationsAnswered, Reserved, queues, counters, send
<1>3. Promised'
    BY Zenon, <1>1, <1>2, BatchPromised
<1>4. Kept'
    <2>1. SUFFICES ASSUME starts = 0, waitErrors = 0
                   PROVE  Reserved' <= avail' + sent'[m].amt + Locked'
        BY Zenon, <1>1, <1>2, BatchStart DEF Kept
    <2>2. split \in Split
        BY Zenon, <1>0, ReserveBatch DEF Reserves
    <2>3. newReserved(split) \in Nat /\ avail \in Nat /\ Locked' \in Nat
        <3>1. newReserved(split) \in Nat
            BY Zenon, <1>0, <2>2, NewReservedFacts
        <3>2. Locked' \in Nat
            BY Zenon, <1>0, LockedNext
        <3>3. avail \in Nat
            BY Zenon, <1>0 DEF TypeOK
        <3> QED
            BY Zenon, <3>1, <3>2, <3>3
    <2>4. amtToAdd(split) = newReserved(split) - avail
        <3> HIDE DEF split
        <3>1. amtToAdd(split) > 0
            BY <1>1, Zenon
        <3>2. amtToAdd(split) # 0
            BY <3>1
        <3> QED
            BY Zenon, <3>2 DEF amtToAdd
    <2>5. sent'[m].amt = amtToAdd(split)
        <3>1. sent \in Seq(Messages) /\ m = Len(sent) + 1
            BY Zenon, <1>0 DEF TypeOK, Messages
        <3> HIDE DEF split, m
        <3>2. sent' = Append(sent, [wallet |-> Wallet[split.add[1]], amt |-> amtToAdd(split)])
            BY Zenon, <1>1 DEF send
        <3>3. sent'[m] = [wallet |-> Wallet[split.add[1]], amt |-> amtToAdd(split)]
            BY SMTT(30), <3>1, <3>2
        <3> QED
            BY <3>3
    <2> QED
        BY SMTT(30), <1>2, <2>3, <2>4, <2>5
<1>5. ReleasesQueued'
    BY Zenon, <1>2 DEF AmountInv, Amounts, ReleasesQueued
<1> QED
    BY Zenon, <1>3, <1>4, <1>5 DEF Amounts

(* A batch that fails keeps the reserved amount, the released one included. *)
LEMMA ReservationsFailAmounts ==
    ASSUME AmountInv, NEW late, processReservationsFails(late)
    PROVE  Amounts'
<1>1. /\ mayProcess /\ Complete({}, ToSet(reservations \o releases), NoCid, late) /\ UNCHANGED chain
      /\ reservationsAnswered([NoResult EXCEPT !.completed = ToSet(reservations \o releases)])
    BY Zenon DEF processReservationsFails
<1>2. /\ pc' = "reserved" /\ res'.completed = ToSet(reservations \o releases) /\ ~res'.save
      /\ UNCHANGED <<up, state, releases, waitErrors, starts>>
    BY Zenon, <1>1 DEF reservationsAnswered, NoResult, queues, counters
<1>3. Reserved' = Reserved
    BY Zenon, <1>1, <1>2, BatchStart DEF Reserved
<1>4. \A q \in Reservations \cup Releases : answer'[q] = "ok" <=> answer[q] = "ok"
    BY Zenon, <1>1 DEF Complete, Requests
<1>5. Promised' /\ Kept'
    BY Zenon, <1>1, <1>2, <1>3, <1>4, SameAmounts
<1>6. ToSet(releases) \subseteq ToSet(reservations \o releases)
    <2>1. reservations \in Seq(Requests) /\ releases \in Seq(Requests)
        BY DEF AmountInv, Typed, TypeOK, Requests
    <2>2. ASSUME NEW i \in DOMAIN releases
          PROVE  /\ Len(reservations) + i \in DOMAIN (reservations \o releases)
                 /\ (reservations \o releases)[Len(reservations) + i] = releases[i]
        BY <2>1
    <2> QED
        BY Zenon, <2>2 DEF ToSet
<1>7. ReleasesQueued'
    BY Zenon, <1>2, <1>6 DEF AmountInv, Amounts, ReleasesQueued
<1> QED
    BY Zenon, <1>5, <1>7 DEF Amounts

(* A batch of withdrawals answers no reservation and no release. *)
LEMMA WithdrawalsApart ==
    ASSUME AmountInv, mayWithdraw, NEW ok \in SUBSET Withdrawals, NEW errors \in SUBSET Withdrawals,
           NEW m, NEW late, Complete(ok, errors, m, late), NEW result, withdrawalsAnswered(result)
    PROVE  ReleasesQueued' /\ Promised' /\ (UNCHANGED <<chain, waitErrors>> => Kept')
<1>1. /\ pc' = "withdrawn" /\ pc \in {"idle", "withdraw"} /\ Reserved = state.AmtReserved
      /\ UNCHANGED <<up, state, releases, starts>>
    BY Zenon, BatchStart DEF withdrawalsAnswered, queues, counters
<1>2. ASSUME NEW q \in Reservations \cup Releases PROVE answer'[q] = answer[q]
    BY Zenon, ConstantsAssumption DEF Complete, Requests
<1>3. Reserved' = Reserved
    BY Zenon, <1>1 DEF Reserved
<1>4. Promised' /\ (UNCHANGED <<chain, waitErrors>> => Kept')
    BY Zenon, <1>1, <1>2, <1>3, SameAmounts
<1>5. \A i \in DOMAIN releases : releases[i] \in Releases
    BY SMTT(30) DEF AmountInv, Typed, TypeOK
<1>6. ReleasesQueued'
    BY Zenon, <1>1, <1>2, <1>5 DEF AmountInv, Amounts, ReleasesQueued
<1> QED
    BY Zenon, <1>4, <1>6

(* A withdrawal is sent: it takes no more than what is not reserved. *)
LEMMA WithdrawnAmounts ==
    ASSUME AmountInv, NEW late, processWithdrawn(late)
    PROVE  Amounts'
<1> DEFINE split == splitWithdrawals
           m == Len(sent) + 1
<1>0. TypeOK /\ TypeOK'
    BY Zenon, WithdrawnTyped DEF AmountInv, Typed
<1>1. /\ mayWithdraw /\ Complete(ToSet(split.allowed), split.refused, [q \in Requests |-> m], late)
      /\ send(Wallet[split.allowed[1]], -split.amt) /\ split.allowed # <<>>
      /\ withdrawalsAnswered([NoResult EXCEPT !.msgCid = m, !.save = TRUE,
                              !.completed = ToSet(split.allowed) \cup split.refused])
    BY Zenon DEF processWithdrawn
<1>2. Keeps(split) /\ split \in WithdrawSplit
    BY Zenon, <1>0, WithdrawBatch DEF Keeps
<1> HIDE DEF split
<1>3. ToSet(split.allowed) \in SUBSET Withdrawals /\ split.refused \in SUBSET Withdrawals
    BY <1>2 DEF WithdrawSplit, ToSet
<1>4. ReleasesQueued' /\ Promised'
    BY Zenon, <1>1, <1>3, WithdrawalsApart
<1>5. /\ pc' = "withdrawn" /\ UNCHANGED <<up, state, waitErrors, starts, avail>>
      /\ pending' = pending \cup {m}
    BY Zenon, <1>1 DEF withdrawalsAnswered, counters, send
<1>6. Kept'
    <2>1. SUFFICES ASSUME starts = 0, waitErrors = 0
                   PROVE  Reserved' <= avail' + sent'[m].amt + Locked'
        BY Zenon, <1>1, <1>5, BatchStart DEF Kept
    <2>2. /\ split.amt <= avail - state.AmtReserved /\ split.amt \in Nat /\ avail \in Nat
          /\ state.AmtReserved \in Nat /\ Locked' \in Nat
        BY Zenon, <1>0, <1>1, <1>2, LockedNext DEF Keeps, WithdrawSplit, TypeOK, States
    <2>3. Reserved' = state.AmtReserved
        BY Zenon, <1>5 DEF Reserved
    <2>4. sent'[m].amt = -split.amt
        <3>1. sent \in Seq(Messages)
            BY Zenon, <1>0 DEF TypeOK, Messages
        <3> QED
            BY <1>1, <3>1 DEF send
    <2> QED
        BY <1>5, <2>2, <2>3, <2>4
<1> QED
    BY Zenon, <1>4, <1>6 DEF Amounts

(* A batch of withdrawals that sends nothing changes no amount. *)
LEMMA NotWithdrawnAmounts ==
    ASSUME AmountInv, NEW late, processRefused(late) \/ processWithdrawalsFails(late)
    PROVE  Amounts'
<1>1. PICK done \in {splitWithdrawals.refused, ToSet(withdrawals)} :
          /\ mayWithdraw /\ Complete({}, done, NoCid, late) /\ UNCHANGED chain
          /\ withdrawalsAnswered([NoResult EXCEPT !.completed = done])
    BY Zenon DEF processRefused, processWithdrawalsFails
<1>2. done \in SUBSET Withdrawals
    <2>1. splitWithdrawals.refused \in SUBSET Withdrawals
        BY Zenon, WithdrawBatch DEF Keeps, WithdrawSplit, AmountInv, Typed
    <2>2. ToSet(withdrawals) \in SUBSET Withdrawals
        BY DEF AmountInv, Typed, TypeOK, ToSet
    <2> QED
        BY Zenon, <2>1, <2>2
<1>3. UNCHANGED waitErrors
    BY Zenon, <1>1 DEF withdrawalsAnswered, counters
<1> QED
    BY Zenon, <1>1, <1>2, <1>3, WithdrawalsApart DEF Amounts

(* The results of a batch are applied: the reserved amount is now in the   *)
(* state, and the releases of the batch have left the queue.               *)
LEMMA ApplyAmounts ==
    ASSUME AmountInv, applyReservations \/ applyWithdrawals
    PROVE  Amounts'
<1>1. UNCHANGED <<up, answer, chain, waitErrors, starts>>
    BY Zenon DEF applyReservations, applyWithdrawals, callers, counters
<1>2. pc' \in {"idle", "withdraw"}
    BY Zenon DEF applyReservations, applyWithdrawals, finishProcess
<1>3. Reserved' = Reserved
    BY <1>2 DEF applyReservations, applyWithdrawals, Reserved
<1>4. Promised' /\ Kept'
    BY Zenon, <1>1, <1>3, SameAmounts
<1>5. CASE applyReservations
    <2>1. releases' = <<>>
        BY Zenon, <1>5, FilterFacts DEF applyReservations, AmountInv, Amounts, ReleasesQueued, Typed, TypeOK
    <2>2. ReleasesQueued'
        <3>1. DOMAIN releases' = {}
            BY <2>1
        <3> QED
            BY Zenon, <1>2, <3>1 DEF ReleasesQueued
    <2> QED
        BY Zenon, <1>4, <2>2 DEF Amounts
<1>6. CASE applyWithdrawals
    <2>1. pc = "withdrawn" /\ releases' = releases
        BY Zenon, <1>6 DEF applyWithdrawals
    <2>2. ReleasesQueued'
        BY Zenon, <1>1, <1>2, <2>1 DEF AmountInv, Amounts, ReleasesQueued
    <2> QED
        BY Zenon, <1>4, <2>2 DEF Amounts
<1> QED
    BY Zenon, <1>5, <1>6

(* A step that leaves the process, the queue of releases and the answers   *)
(* alone.                                                                  *)
LEMMA SameQueue ==
    ASSUME AmountInv, UNCHANGED <<pc, res, releases, answer>>
    PROVE  ReleasesQueued'
BY Zenon DEF AmountInv, Amounts, ReleasesQueued

(* The wait for a message is over: the message is on the chain, or the     *)
(* wait has failed.                                                        *)
LEMMA ClearAmounts ==
    ASSUME AmountInv, NEW m, waitDone(m) \/ waitFails(m)
    PROVE  Amounts'
<1>1. /\ pc = "idle" /\ up = "up" /\ m \in waiters
      /\ state'.AmtReserved = state.AmtReserved
      /\ UNCHANGED <<up, pc, res, releases, answer, sent, pending, avail, spent, starts>>
    BY DEF waitDone, waitFails, clearWaitState, queues, callers, chain
<1>2. ReleasesQueued'
    BY Zenon, <1>1, SameQueue
<1>3. Promised'
    BY Zenon, <1>1, SameAmounts DEF Reserved
<1>4. Kept'
    <2>1. CASE waitDone(m)
        <3>1. m \notin pending /\ waitErrors' = waitErrors
            BY Zenon, <2>1 DEF waitDone
        <3>2. Tracked \subseteq {m}
            <4>1. res.msgCid = None
                BY <1>1 DEF AmountInv, IInv, Running, NoResult
            <4>2. state.MsgCid = m
                BY Zenon, <1>1 DEF AmountInv, IInv, Waiting
            <4> QED
                BY Zenon, <4>1, <4>2 DEF Tracked
        <3>3. starts = 0 /\ waitErrors = 0 => pending = {}
            BY Zenon, <1>1, <3>1, <3>2, OnlyTracked DEF AmountInv
        <3> QED
            BY Zenon, <1>1, <3>1, <3>3 DEF Kept
    <2>2. CASE waitFails(m)
        BY SMTT(30), <2>2 DEF waitFails, Kept, AmountInv, Typed, TypeOK
    <2> QED
        BY Zenon, <2>1, <2>2
<1> QED
    BY Zenon, <1>2, <1>3, <1>4 DEF Amounts

(* The chain executes a message: the only one there was. *)
LEMMA ExecuteAmounts ==
    ASSUME AmountInv, NEW m, execute(m)
    PROVE  Amounts'
<1>1. /\ m \in pending /\ pending' = pending \ {m}
      /\ UNCHANGED <<up, state, pc, res, releases, answer, waitErrors, starts>>
    BY Zenon DEF execute, memory, queues, callers, counters
<1>2. ReleasesQueued' /\ Promised'
    BY Zenon, <1>1, SameQueue, SameAmounts DEF Reserved
<1>3. starts = 0 /\ waitErrors = 0 /\ up = "up" => pending' = {}
    BY Zenon, <1>1, OnlyTracked, TrackedOne DEF AmountInv
<1>4. Kept'
    BY Zenon, <1>1, <1>3 DEF Kept
<1> QED
    BY <1>2, <1>4 DEF Amounts

(* What a message in flight adds to the escrow is a number. *)
LEMMA SentAmount ==
    ASSUME TypeOK, NEW m \in pending
    PROVE  sent[m].amt \in Int
<1> DEFINE M == [wallet : {Wallet[q] : q \in Requests \ Releases}, amt : Int]
<1>1. sent \in Seq(M) /\ m \in DOMAIN sent
    BY Zenon DEF TypeOK
<1>2. sent[m] \in M
    <2> HIDE DEF M
    <2> QED
        BY <1>1
<1> QED
    BY Zenon, <1>2

(* A deal locks the funds of a reservation: they leave what is available   *)
(* and are locked until their release.                                     *)
LEMMA LockAmounts ==
    ASSUME AmountInv, NEW q \in Reservations, lockFunds(q)
    PROVE  Amounts'
<1>0. TypeOK /\ q \in Requests /\ Amt[q] \in Nat
    BY Zenon, ConstantsAssumption DEF AmountInv, Typed, Requests
<1>1. /\ avail' = avail - Amt[q] /\ spent' = spent \cup {q} /\ q \notin spent
      /\ \A l \in Releases : ReservationOf[l] = q => answer[l] = "new"
      /\ UNCHANGED <<up, state, pc, res, releases, answer, sent, pending, waitErrors, starts>>
    BY ZenonT(40) DEF lockFunds, memory, queues, callers, counters
<1>2. ReleasesQueued' /\ Promised' /\ Reserved' = Reserved
    BY ZenonT(40), <1>1, SameQueue, SameAmounts DEF Reserved
<1>3. Unreleased' = Unreleased \cup {q} /\ q \notin Unreleased
    BY Zenon, <1>1 DEF Unreleased
<1>4. Locked' = Locked + Amt[q] /\ Locked \in Nat
    <2>1. /\ Unreleased \in SUBSET Requests /\ Locked = SumAmt(Unreleased)
          /\ Locked \in Nat
        BY Zenon, <1>0, AmountSets
    <2>2. Locked' = SumAmt(Unreleased')
        BY Zenon DEF Locked, Unreleased
    <2> QED
        BY Zenon, <1>0, <1>3, <2>1, <2>2, SumAmtFacts
<1>5. Kept'
    <2>1. SUFFICES ASSUME starts = 0, waitErrors = 0, up = "up", NEW m \in pending
                   PROVE  Reserved <= avail - Amt[q] + sent[m].amt + (Locked + Amt[q])
        BY Zenon, <1>1, <1>2, <1>4 DEF Kept
    <2>2. Reserved <= avail + sent[m].amt + Locked
        BY Zenon, <2>1 DEF AmountInv, Amounts, Kept
    <2>3. avail \in Nat /\ sent[m].amt \in Int
        BY Zenon, <1>0, SentAmount DEF TypeOK
    <2>4. Reserved \in Nat
        BY Zenon, <1>0 DEF TypeOK, States, Reserved
    <2>5. Amt[q] \in Nat /\ Locked \in Nat
        BY Zenon, <1>0, <1>4
    <2> QED
        BY <2>2, <2>3, <2>4, <2>5
<1> QED
    BY Zenon, <1>2, <1>5 DEF Amounts

(* The process ends, or starts again: nothing is promised any more. *)
LEMMA EndAmounts ==
    ASSUME AmountInv, completeTwice \/ exit \/ start
    PROVE  Amounts'
<1>1. CASE completeTwice \/ exit
    <2>1. up' # "up" /\ releases' = <<>> /\ pc' = "idle"
        BY Zenon, <1>1 DEF completeTwice, exit, halt
    <2> QED
        BY SMTT(30), <2>1 DEF Amounts, ReleasesQueued, Promised, Kept
<1>2. CASE start
    <2>1. starts' = starts + 1 /\ starts \in Nat /\ UNCHANGED <<pc, res, releases, answer>>
        BY Zenon, <1>2 DEF start, queues, callers, AmountInv, IInv, Types
    <2>2. ReleasesQueued' /\ starts' # 0
        BY <2>1, SameQueue
    <2> QED
        BY Zenon, <2>2 DEF Amounts, Promised, Kept
<1> QED
    BY Zenon, <1>1, <1>2

(* Every step keeps the amounts. *)
LEMMA StepAmounts == AmountInv /\ [Next]_vars => AmountInv'
<1> SUFFICES ASSUME AmountInv, [Next]_vars PROVE Amounts'
    BY Zenon, StepIInv, StepTyped DEF AmountInv
<1>1. CASE processNothing \/ UNCHANGED vars
    <2>1. UNCHANGED <<up, state, pc, res, releases, answer, chain, waitErrors, starts>>
        BY Zenon, <1>1 DEF processNothing, vars, memory, queues, callers, counters
    <2>2. ReleasesQueued' /\ Promised' /\ Kept'
        BY Zenon, <2>1, SameQueue, SameAmounts DEF Reserved
    <2> QED
        BY Zenon, <2>2 DEF Amounts
<1>2. CASE process
    BY Zenon, <1>1, <1>2, ApplyAmounts, CoveredAmounts, AddedAmounts, ReservationsFailAmounts,
       WithdrawnAmounts, NotWithdrawnAmounts, EndAmounts DEF process
<1> QED
    BY Zenon, <1>1, <1>2, RequestAmounts, ClearAmounts, ExecuteAmounts, LockAmounts, EndAmounts DEF Next

(* Nothing is promised, reserved or on its way at first. *)
LEMMA InitAmounts == Init => AmountInv
<1> SUFFICES ASSUME Init PROVE Amounts
    BY Zenon, InitIInv, InitTyped DEF AmountInv
<1>1. OkReservations = {} /\ OkReleases = {} /\ SumAmt({}) = 0 /\ Reserved = 0
    BY Zenon, SumAmtFacts DEF Init, OkReservations, OkReleases, Requests, Reserved
<1>2. Promised
    BY <1>1 DEF Promised
<1>3. ReleasesQueued
    BY DEF ReleasesQueued, Init, ToSet
<1>4. Kept
    BY Zenon DEF Kept, Init
<1> QED
    BY Zenon, <1>2, <1>3, <1>4 DEF Amounts

(* Until the process first restarts, what the callers of Reserve were      *)
(* promised and have not released is reserved, however the requests were   *)
(* batched, set off against each other, failed or were cancelled.          *)
THEOREM PromisesAreReserved == Spec => [](starts = 0 => ReservedCovers)
<1>1. AmountInv => (starts = 0 => ReservedCovers)
    <2> SUFFICES ASSUME AmountInv, starts = 0, up = "up", pc = "idle" PROVE ReservedCovers
        BY Zenon DEF ReservedCovers
    <2>1. SumAmt(OkReservations) <= state.AmtReserved + SumAmt(OkReleases)
        BY Zenon DEF AmountInv, Amounts, Promised, Reserved
    <2>2. /\ SumAmt(OkReservations) \in Nat /\ SumAmt(OkReleases) \in Nat
          /\ state.AmtReserved \in Nat
        BY Zenon, AmountSets DEF AmountInv, Typed, TypeOK, States
    <2>3. state.AmtReserved >= SumAmt(OkReservations) - SumAmt(OkReleases)
        BY <2>1, <2>2
    <2> QED
        BY <2>3 DEF ReservedCovers, OkReservations, OkReleases
<1> QED
    BY <1>1, InitAmounts, StepAmounts, PTL DEF Spec

(* Until a wait fails or the process restarts, the message on its way, a   *)
(* withdrawal or a top-up, leaves the reserved amount in the escrow.       *)
THEOREM MessageKeepsReserved ==
    Spec => [](starts = 0 /\ waitErrors = 0 => InFlightKeepsReserved)
<1>1. AmountInv => (starts = 0 /\ waitErrors = 0 => InFlightKeepsReserved)
    <2> SUFFICES ASSUME AmountInv, starts = 0, waitErrors = 0, up = "up", pc = "idle",
                        NEW m \in pending
                 PROVE  avail + sent[m].amt + Locked >= state.AmtReserved
        BY Zenon DEF InFlightKeepsReserved
    <2>1. state.AmtReserved <= avail + sent[m].amt + Locked
        BY Zenon DEF AmountInv, Amounts, Kept, Reserved
    <2>2. state.AmtReserved \in Nat /\ avail \in Nat /\ sent[m].amt \in Int /\ Locked \in Nat
        BY Zenon, AmountSets, SentAmount DEF AmountInv, Typed, TypeOK, States
    <2> QED
        BY <2>1, <2>2
<1> QED
    BY <1>1, InitAmounts, StepAmounts, PTL DEF Spec

=============================================================================
