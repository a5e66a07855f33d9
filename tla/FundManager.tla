---------------------------- MODULE FundManager ----------------------------
(***************************************************************************)
(* The fund manager of the storage market (chain/market/fundmanager.go):   *)
(* the requests to reserve, release and withdraw the escrow of one         *)
(* address.                                                                *)
(*                                                                         *)
(* A request is queued and a goroutine calls process, which handles the    *)
(* queues in batches under the address's lock and sends at most one        *)
(* message to the chain; another goroutine waits for that message, clears  *)
(* MsgCid and calls process again.  The reserved amount and MsgCid are     *)
(* saved and are read again when the node restarts; the queues are not.    *)
(*                                                                         *)
(* Abstractions.  Addresses are independent, so there is one.  A message   *)
(* is its place in the list of those sent, and what it adds to the escrow. *)
(* process holds the lock throughout: its steps are split where a crash    *)
(* leaves the chain, the callers and the datastore with different views.   *)
(***************************************************************************)
EXTENDS Integers, Queues

CONSTANTS
    Reservations, Releases, Withdrawals,   \* the requests that may be made
    Amt,             \* the amount of each request
    Wallet,          \* the wallet of each reservation and withdrawal
    ReservationOf,   \* the reservation each release gives back
    Escrow,          \* the funds available at the start
    MaxWaitErrors,   \* bound: waits for a message that fail
    MaxSaveErrors,   \* bound: saves that fail
    MaxStarts        \* bound: starts after an end of the process

Requests == Reservations \cup Releases \cup Withdrawals

None == 0            \* no message; messages are numbered from 1

ASSUME ConstantsAssumption ==
    /\ IsFiniteSet(Requests)
    /\ Reservations \cap Releases = {} /\ Reservations \cap Withdrawals = {}
    /\ Releases \cap Withdrawals = {}
    /\ Amt \in [Requests -> Nat \ {0}]
    /\ ReservationOf \in [Releases -> Reservations]
    /\ \A l \in Releases : Amt[l] = Amt[ReservationOf[l]]
    /\ Escrow \in Nat /\ MaxWaitErrors \in Nat
    /\ MaxSaveErrors \in Nat /\ MaxStarts \in Nat

VARIABLES
    up,              \* whether the process runs
    state,           \* fundedAddress.state: AmtReserved and MsgCid
    store,           \* the same, in the datastore
    reservations, releases, withdrawals,   \* the queues
    pc,              \* where process is
    res,             \* what it has done and not yet applied
    procs,           \* goroutines that run or are to run process
    waiters,         \* messages a goroutine waits for
    answer,          \* what the caller of each request knows
    cid,             \* the message each caller was told
    sent,            \* the messages sent to the chain
    pending,         \* those the chain has not executed
    avail,           \* StateMarketBalance: Escrow - Locked
    spent,           \* reservations whose deal has locked its funds
    saveErrors, waitErrors, starts

queues == <<reservations, releases, withdrawals>>
memory == <<state, queues, pc, res, procs, waiters>>
disk == <<store, saveErrors>>
chain == <<sent, pending, avail, spent>>
callers == <<answer, cid>>
counters == <<waitErrors, starts>>
vars == <<up, memory, disk, callers, chain, counters>>

NoResult == [amtReserved |-> 0, msgCid |-> None, completed |-> {}, save |-> FALSE]

States == [AmtReserved : Nat, MsgCid : Nat]

TypeOK ==
    /\ up \in {"up", "down", "panicked"}
    /\ state \in States /\ store \in States
    /\ reservations \in Seq(Reservations)
    /\ releases \in Seq(Releases)
    /\ withdrawals \in Seq(Withdrawals)
    /\ pc \in {"idle", "reserved", "withdraw", "withdrawn"}
    /\ res \in [amtReserved : Nat, msgCid : Nat, completed : SUBSET Requests,
                save : BOOLEAN]
    /\ procs \in Nat
    /\ waiters \subseteq DOMAIN sent
    /\ answer \in [Requests -> {"new", "queued", "ok", "error", "cancelled", "lost"}]
    /\ cid \in [Requests -> {None} \cup DOMAIN sent]
    /\ sent \in Seq([wallet : {Wallet[q] : q \in Requests \ Releases}, amt : Int])
    /\ pending \subseteq DOMAIN sent
    /\ avail \in Nat
    /\ spent \subseteq Reservations
    /\ saveErrors \in 0 .. MaxSaveErrors
    /\ waitErrors \in 0 .. MaxWaitErrors /\ starts \in 0 .. MaxStarts

Init ==
    /\ up = "up"
    /\ state = [AmtReserved |-> 0, MsgCid |-> None] /\ store = state
    /\ reservations = <<>> /\ releases = <<>> /\ withdrawals = <<>>
    /\ pc = "idle" /\ res = NoResult /\ procs = 0 /\ waiters = {}
    /\ answer = [q \in Requests |-> "new"]
    /\ cid = [q \in Requests |-> None]
    /\ sent = <<>> /\ pending = {} /\ avail = Escrow /\ spent = {}
    /\ saveErrors = 0 /\ waitErrors = 0 /\ starts = 0

-----------------------------------------------------------------------------
(* Requests.                                                               *)

(* Mutant of requestAndWait: a release is put among the reservations. *)
requestAndWaitWrongQueue(q) ==
    /\ up = "up" /\ pc = "idle"
    /\ answer[q] = "new"
    /\ q \in Releases => answer[ReservationOf[q]] = "ok"
    /\ reservations' = IF q \notin Withdrawals THEN Append(reservations, q) ELSE reservations
    /\ withdrawals' = IF q \in Withdrawals THEN Append(withdrawals, q) ELSE withdrawals
    /\ procs' = procs + 1
    /\ answer' = [answer EXCEPT ![q] = "queued"]
    /\ UNCHANGED <<up, state, releases, pc, res, waiters, disk, cid, chain, counters>>

(* Queue the request and start process. *)
requestAndWait(q) ==
    /\ up = "up" /\ pc = "idle"
    /\ answer[q] = "new"
    /\ q \in Releases => answer[ReservationOf[q]] = "ok"
    /\ reservations' = IF q \in Reservations THEN Append(reservations, q) ELSE reservations
    /\ releases' = IF q \in Releases THEN Append(releases, q) ELSE releases
    /\ withdrawals' = IF q \in Withdrawals THEN Append(withdrawals, q) ELSE withdrawals
    /\ procs' = procs + 1
    /\ answer' = [answer EXCEPT ![q] = "queued"]
    /\ UNCHANGED <<up, state, pc, res, waiters, disk, cid, chain, counters>>

(* The caller's context ends first; a release has none. *)
contextDone(q) ==
    /\ up = "up" /\ q \notin Releases
    /\ answer[q] = "queued"
    /\ answer' = [answer EXCEPT ![q] = "cancelled"]
    /\ UNCHANGED <<up, memory, disk, cid, chain, counters>>

Amount(q) == IF answer[q] = "cancelled" THEN 0 ELSE Amt[q]

(* Complete the requests of each set with its answer.  The contexts of the *)
(* requests in late ended after their amounts were read.                   *)
Complete(ok, errors, m, late) ==
    /\ late \subseteq {q \in (ok \cup errors) \ Releases : answer[q] = "queued"}
    /\ answer' = [q \in Requests |->
                     IF q \in late THEN "cancelled"
                     ELSE IF answer[q] = "queued" /\ q \in ok THEN "ok"
                     ELSE IF answer[q] = "queued" /\ q \in errors THEN "error"
                     ELSE answer[q]]
    /\ cid' = [q \in Requests |->
                  IF q \in ok \ late /\ answer[q] = "queued" THEN m[q] ELSE cid[q]]

NoCid == [q \in Requests |-> None]

filterOutProcessedReqs(queue) ==
    FoldLeft(LAMBDA kept, q : IF q \in res.completed THEN kept ELSE Append(kept, q), <<>>, queue)

-----------------------------------------------------------------------------
(* processReservations.                                                    *)

(* Mutant of splitReservations: requests of other wallets join the batch. *)
splitReservationsAnyWallet ==
    LET step(acc, q) ==
            IF Amount(q) <= acc.release
            THEN [acc EXCEPT !.release = @ - Amount(q), !.cancel = @ \cup {q}]
            ELSE [acc EXCEPT !.delta = @ + Amount(q) - acc.release, !.release = 0,
                             !.add = Append(@, q)]
    IN FoldLeft(step, [cancel |-> {}, add |-> <<>>, delta |-> 0,
                       release |-> FoldLeft(LAMBDA x, l : x + Amount(l), 0, releases)],
                reservations)

(* Mutant of splitReservations: a release is set off against every request. *)
splitReservationsKeepRelease ==
    LET step(acc, q) ==
            IF Amount(q) <= acc.release
            THEN [acc EXCEPT !.cancel = @ \cup {q}]
            ELSE IF \A i \in DOMAIN acc.add : Wallet[acc.add[i]] = Wallet[q]
                 THEN [acc EXCEPT !.delta = @ + Amount(q) - acc.release, !.release = 0,
                                  !.add = Append(@, q)]
                 ELSE acc
    IN FoldLeft(step, [cancel |-> {}, add |-> <<>>, delta |-> 0,
                       release |-> FoldLeft(LAMBDA x, l : x + Amount(l), 0, releases)],
                reservations)

(* The requests the released amounts cover, those of one wallet that need  *)
(* funds, the amount these need and what is left of the released amount.   *)
splitReservations ==
    LET step(acc, q) ==
            IF Amount(q) <= acc.release
            THEN [acc EXCEPT !.release = @ - Amount(q), !.cancel = @ \cup {q}]
            ELSE IF \A i \in DOMAIN acc.add : Wallet[acc.add[i]] = Wallet[q]
                 THEN [acc EXCEPT !.delta = @ + Amount(q) - acc.release, !.release = 0,
                                  !.add = Append(@, q)]
                 ELSE acc
    IN FoldLeft(step, [cancel |-> {}, add |-> <<>>, delta |-> 0,
                       release |-> FoldLeft(LAMBDA x, l : x + Amount(l), 0, releases)],
                reservations)

(* The new reserved amount; an amount below zero becomes zero. *)
newReserved(split) ==
    LET reserved == state.AmtReserved + split.delta - split.release
    IN IF reserved \in Nat THEN reserved ELSE 0

amtToAdd(split) ==
    IF split.add = <<>> \/ newReserved(split) = 0 THEN 0 ELSE newReserved(split) - avail

(* Mutant of mayProcess: the message on its way is not looked at. *)
mayProcessAnyway == up = "up" /\ pc = "idle" /\ procs > 0

(* process finds something to do: no message to wait for, requests queued. *)
mayProcess ==
    /\ up = "up" /\ pc = "idle" /\ procs > 0
    /\ state.MsgCid = None

send(wallet, amt) ==
    /\ sent' = Append(sent, [wallet |-> wallet, amt |-> amt])
    /\ pending' = pending \cup {Len(sent) + 1}
    /\ UNCHANGED <<avail, spent>>

(* process with nothing to do. *)
processNothing ==
    /\ up = "up" /\ pc = "idle" /\ procs > 0
    /\ state.MsgCid # None \/ queues = <<<<>>, <<>>, <<>>>>
    /\ procs' = procs - 1
    /\ UNCHANGED <<up, state, queues, pc, res, waiters, disk, callers, chain, counters>>

reservationsAnswered(result) ==
    /\ pc' = "reserved"
    /\ res' = result
    /\ UNCHANGED <<up, state, queues, procs, waiters, disk, counters>>

(* Reservations that need no more funds than there are. *)
processCovered(late) ==
    /\ mayProcess /\ reservations \o releases # <<>>
    /\ amtToAdd(splitReservations) <= 0
    /\ LET split == splitReservations
           done == split.cancel \cup ToSet(split.add) \cup ToSet(releases)
       IN /\ Complete(done, {}, NoCid, late)
          /\ reservationsAnswered([amtReserved |-> newReserved(split), msgCid |-> None,
                                   completed |-> done, save |-> TRUE])
    /\ UNCHANGED chain

(* Reservations that need funds: AddFunds sends a message. *)
processAdded(late) ==
    /\ mayProcess /\ reservations \o releases # <<>>
    /\ amtToAdd(splitReservations) > 0
    /\ LET split == splitReservations
           done == split.cancel \cup ToSet(split.add) \cup ToSet(releases)
           m == Len(sent) + 1
       IN /\ send(Wallet[split.add[1]], amtToAdd(split))
          /\ Complete(done, {}, [q \in Requests |-> IF q \in ToSet(split.add) THEN m ELSE None],
                      late)
          /\ reservationsAnswered([amtReserved |-> newReserved(split), msgCid |-> m,
                                   completed |-> done, save |-> TRUE])

(* AvailableFunds or AddFunds fails: every request is answered with the    *)
(* error.                                                                  *)
processReservationsFails(late) ==
    /\ mayProcess /\ reservations \o releases # <<>>
    /\ splitReservations.add # <<>> /\ newReserved(splitReservations) > 0
    /\ LET done == ToSet(reservations \o releases)
       IN /\ Complete({}, done, NoCid, late)
          /\ reservationsAnswered([NoResult EXCEPT !.completed = done])
    /\ UNCHANGED chain

(* The end of process: start to wait for a message that was sent, and let  *)
(* another goroutine look at what is left.                                 *)
finishProcess ==
    /\ pc' = "idle" /\ res' = NoResult
    /\ waiters' = IF state'.MsgCid # None THEN waiters \cup {state'.MsgCid} ELSE waiters

(* saveState: an error is only logged. *)
saveState ==
    \/ store' = state' /\ UNCHANGED saveErrors
    \/ /\ saveErrors < MaxSaveErrors                                 \* bound
       /\ saveErrors' = saveErrors + 1
       /\ UNCHANGED store

(* applyStateChange after processReservations. *)
applyReservations ==
    /\ up = "up" /\ pc = "reserved"
    /\ IF res.save
       THEN /\ state' = [AmtReserved |-> res.amtReserved, MsgCid |-> res.msgCid]
            /\ saveState
       ELSE UNCHANGED <<state, disk>>
    /\ reservations' = filterOutProcessedReqs(reservations)
    /\ releases' = filterOutProcessedReqs(releases)
    /\ IF withdrawals # <<>> /\ state'.MsgCid = None /\ reservations' = <<>>
       THEN pc' = "withdraw" /\ res' = NoResult /\ UNCHANGED waiters
       ELSE finishProcess
    /\ UNCHANGED <<up, withdrawals, procs, callers, chain, counters>>

-----------------------------------------------------------------------------
(* processWithdrawals.                                                     *)

mayWithdraw ==
    \/ up = "up" /\ pc = "withdraw"
    \/ mayProcess /\ reservations \o releases = <<>> /\ withdrawals # <<>>

(* Mutant of splitWithdrawals: the reserved amount is not kept back. *)
splitWithdrawalsAll ==
    LET step(acc, q) ==
            IF Amount(q) = 0 \/ acc.amt + Amount(q) > avail
            THEN [acc EXCEPT !.refused = @ \cup {q}]
            ELSE IF \A i \in DOMAIN acc.allowed : Wallet[acc.allowed[i]] = Wallet[q]
                 THEN [acc EXCEPT !.amt = @ + Amount(q), !.allowed = Append(@, q)]
                 ELSE acc
    IN FoldLeft(step, [amt |-> 0, allowed |-> <<>>, refused |-> {}], withdrawals)

(* The requests of one wallet that fit in what is not reserved, and those  *)
(* that were cancelled or do not fit.                                      *)
splitWithdrawals ==
    LET step(acc, q) ==
            IF Amount(q) = 0 \/ acc.amt + Amount(q) > avail - state.AmtReserved
            THEN [acc EXCEPT !.refused = @ \cup {q}]
            ELSE IF \A i \in DOMAIN acc.allowed : Wallet[acc.allowed[i]] = Wallet[q]
                 THEN [acc EXCEPT !.amt = @ + Amount(q), !.allowed = Append(@, q)]
                 ELSE acc
    IN FoldLeft(step, [amt |-> 0, allowed |-> <<>>, refused |-> {}], withdrawals)

withdrawalsAnswered(result) ==
    /\ pc' = "withdrawn"
    /\ res' = result
    /\ UNCHANGED <<up, state, queues, procs, waiters, disk, counters>>

(* WithdrawFunds sends a message. *)
processWithdrawn(late) ==
    /\ mayWithdraw /\ splitWithdrawals.allowed # <<>>
    /\ LET split == splitWithdrawals
           m == Len(sent) + 1
       IN /\ send(Wallet[split.allowed[1]], -split.amt)
          /\ Complete(ToSet(split.allowed), split.refused, [q \in Requests |-> m], late)
          /\ withdrawalsAnswered([NoResult EXCEPT !.msgCid = m, !.save = TRUE,
                                  !.completed = ToSet(split.allowed) \cup split.refused])

(* No request fits. *)
processRefused(late) ==
    /\ mayWithdraw /\ splitWithdrawals.allowed = <<>>
    /\ Complete({}, splitWithdrawals.refused, NoCid, late)
    /\ withdrawalsAnswered([NoResult EXCEPT !.completed = splitWithdrawals.refused])
    /\ UNCHANGED chain

(* AvailableFunds fails, or WithdrawFunds does and no request was refused  *)
(* before: every request is answered with the error.                       *)
processWithdrawalsFails(late) ==
    /\ mayWithdraw
    /\ Complete({}, ToSet(withdrawals), NoCid, late)
    /\ withdrawalsAnswered([NoResult EXCEPT !.completed = ToSet(withdrawals)])
    /\ UNCHANGED chain

(* applyStateChange after processWithdrawals. *)
applyWithdrawals ==
    /\ up = "up" /\ pc = "withdrawn"
    /\ IF res.save
       THEN /\ state' = [AmtReserved |-> state.AmtReserved, MsgCid |-> res.msgCid]
            /\ saveState
       ELSE UNCHANGED <<state, disk>>
    /\ withdrawals' = filterOutProcessedReqs(withdrawals)
    /\ finishProcess
    /\ UNCHANGED <<up, reservations, releases, procs, callers, chain, counters>>

-----------------------------------------------------------------------------
(* The end of the process, and the next start.                             *)

halt(how) ==
    /\ up' = how
    /\ state' = [AmtReserved |-> 0, MsgCid |-> None]
    /\ reservations' = <<>> /\ releases' = <<>> /\ withdrawals' = <<>>
    /\ pc' = "idle" /\ res' = NoResult /\ procs' = 0 /\ waiters' = {}
    /\ UNCHANGED <<disk, cid, chain, counters>>

(* WithdrawFunds fails after some requests were refused: Complete closes   *)
(* their channels a second time.                                           *)
completeTwice ==
    /\ mayWithdraw
    /\ splitWithdrawals.allowed # <<>> /\ splitWithdrawals.refused # {}
    /\ halt("panicked")
    /\ answer' = [q \in Requests |->
                     IF answer[q] # "queued" THEN answer[q]
                     ELSE IF q \in splitWithdrawals.refused THEN "error" ELSE "lost"]

exit ==
    /\ up = "up"
    /\ halt("down")
    /\ answer' = [q \in Requests |-> IF answer[q] = "queued" THEN "lost" ELSE answer[q]]

(* Mutant of start: the message that was sent before is not waited for. *)
startNoWait ==
    /\ up # "up"
    /\ starts < MaxStarts                                            \* bound
    /\ starts' = starts + 1
    /\ up' = "up"
    /\ state' = store
    /\ UNCHANGED <<queues, pc, res, procs, waiters, disk, callers, chain, waitErrors>>

start ==
    /\ up # "up"
    /\ starts < MaxStarts                                            \* bound
    /\ starts' = starts + 1
    /\ up' = "up"
    /\ state' = store
    /\ waiters' = IF store.MsgCid # None THEN {store.MsgCid} ELSE {}
    /\ UNCHANGED <<queues, pc, res, procs, disk, callers, chain, waitErrors>>

-----------------------------------------------------------------------------
(* The goroutine that waits for a message.                                 *)

(* Mutant of clearWaitState: nobody looks at the queues afterwards. *)
clearWaitStateQuietly(m) ==
    /\ up = "up" /\ pc = "idle" /\ m \in waiters
    /\ state' = [AmtReserved |-> state.AmtReserved, MsgCid |-> None]
    /\ saveState
    /\ waiters' = waiters \ {m}
    /\ UNCHANGED <<up, queues, pc, res, procs, callers, chain, starts>>

(* The wait is over: clear MsgCid and call process. *)
clearWaitState(m) ==
    /\ up = "up" /\ pc = "idle" /\ m \in waiters
    /\ state' = [AmtReserved |-> state.AmtReserved, MsgCid |-> None]
    /\ saveState
    /\ waiters' = waiters \ {m}
    /\ procs' = procs + 1
    /\ UNCHANGED <<up, queues, pc, res, callers, chain, starts>>

(* StateWaitMsg returns when the message is on the chain ... *)
waitDone(m) ==
    /\ m \notin pending
    /\ clearWaitState(m)
    /\ UNCHANGED waitErrors

(* ... or with an error, as when Stop has cancelled the context. *)
waitFails(m) ==
    /\ waitErrors < MaxWaitErrors                                    \* bound
    /\ waitErrors' = waitErrors + 1
    /\ clearWaitState(m)

-----------------------------------------------------------------------------
(* The chain: the messages are executed, fail, and deals lock funds.       *)

execute(m) ==
    /\ m \in pending
    /\ pending' = pending \ {m}
    /\ avail' \in {avail, IF avail + sent[m].amt \in Nat THEN avail + sent[m].amt ELSE 0}
    /\ UNCHANGED <<up, memory, disk, callers, sent, spent, counters>>

lockFunds(q) ==
    /\ answer[q] = "ok" /\ q \notin spent
    /\ \A l \in Releases : ReservationOf[l] = q => answer[l] = "new"
    /\ avail >= Amt[q]
    /\ avail' = avail - Amt[q]
    /\ spent' = spent \cup {q}
    /\ UNCHANGED <<up, memory, disk, callers, sent, pending, counters>>

-----------------------------------------------------------------------------
process ==
    \/ processNothing
    \/ applyReservations
    \/ applyWithdrawals
    \/ \E late \in SUBSET (Reservations \cup Withdrawals) :
          \/ processCovered(late)
          \/ processAdded(late)
          \/ processReservationsFails(late)
          \/ processWithdrawn(late)
          \/ processRefused(late)
          \/ processWithdrawalsFails(late)
    \/ completeTwice

Next ==
    \/ \E q \in Requests : requestAndWait(q) \/ contextDone(q)
    \/ process
    \/ \E m \in DOMAIN sent : waitDone(m) \/ waitFails(m) \/ execute(m)
    \/ \E q \in Reservations : lockFunds(q)
    \/ exit
    \/ start

Spec == Init /\ [][Next]_vars

(* The scheduler runs every goroutine, messages reach the chain, and a     *)
(* process that ended is started again.                                    *)
FairSpec ==
    /\ Spec
    /\ WF_vars(process) /\ WF_vars(start)
    /\ WF_vars(\E m \in DOMAIN sent : waitDone(m))
    /\ WF_vars(\E m \in DOMAIN sent : execute(m))

-----------------------------------------------------------------------------
SumAmt(S) == MapThenSumSet(LAMBDA q : Amt[q], S)

(* process: "Check if we're still waiting for the response to a message":  *)
(* at most one message of the address is on its way.                       *)
OneMessage == Cardinality(pending) <= 1

(* What deals have locked and their callers have not yet released. *)
Locked ==
    SumAmt({q \in spent : \A l \in Releases : ReservationOf[l] = q => answer[l] # "ok"})

(* AmtReserved "must be kept in the address (cannot be withdrawn)": the    *)
(* message on its way, a withdrawal or a top-up, leaves the reserved       *)
(* amount in the escrow, but for what deals have locked and callers have   *)
(* not yet released.                                                       *)
InFlightKeepsReserved ==
    up = "up" /\ pc = "idle" =>
        \A m \in pending : avail + sent[m].amt + Locked >= state.AmtReserved

(* "Reserve adds amt to reserved" and release subtracts it: what callers   *)
(* were promised is reserved, whichever requests were batched, set off     *)
(* against each other, failed or were cancelled.                           *)
ReservedCovers ==
    up = "up" /\ pc = "idle" =>
        state.AmtReserved >=   SumAmt({q \in Reservations : answer[q] = "ok"})
                             - SumAmt({q \in Releases : answer[q] = "ok"})

(* A caller is told a message of its own wallet: "We only want to combine  *)
(* requests that come from the same wallet".                               *)
OwnWallet == \A q \in Requests : cid[q] # None => sent[cid[q]].wallet = Wallet[q]

(* process and startWaitForResults: a request is never left in a queue     *)
(* that no goroutine will look at.                                         *)
NoStrandedRequest ==
    up = "up" /\ queues # <<<<>>, <<>>, <<>>>> => procs > 0 \/ state.MsgCid # None

(* startWaitForResults and start: exactly the message in MsgCid is waited  *)
(* for, so it is cleared by its own wait and by no other.                  *)
MsgHasWaiter ==
    up = "up" /\ pc = "idle" =>
        waiters = IF state.MsgCid = None THEN {} ELSE {state.MsgCid}

(* Each failed wait and each restart loses track of one message at most.   *)
LostMessages == Cardinality(pending) <= 1 + waitErrors + starts

(* requestAndWait: every request is answered, unless the process ends. *)
Answered == \A q \in Requests : answer[q] = "queued" ~> answer[q] # "queued"

(* processWithdrawals: "If there's an error, mark all withdrawal requests  *)
(* as errored" - and go on.                                                *)
NoPanic == up # "panicked"
=============================================================================
