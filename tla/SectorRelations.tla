-------------------------- MODULE SectorRelations --------------------------
(***************************************************************************)
(* What the proofs say of the planners and of the handlers: the types of a *)
(* sector, of an event and of the chain, the relation between a sector, a  *)
(* queue and its plan (PlanOf), and the one between a sector, the chain    *)
(* and what its handler sends (Fits). SectorStepProofs shows that the      *)
(* handlers are in these relations, SectorInvProofs that the planners are  *)
(* and that every step in them keeps the invariants.                       *)
(***************************************************************************)
EXTENDS SectorChain

-----------------------------------------------------------------------------
(* The types of the sector, of events and of the chain.                    *)

Returns ==
    {"none", "Packing", "GetTicket", "PreCommitting", "PreCommit1", "PreCommitFailed",
     "CommitFailed"}

SectorInfo ==
    [State : States, Return : Returns, Pieces : 0 .. 2, CCPieces : 0 .. 2,
     Ticket : 0 .. 2, CommR : 0 .. 2, Seed : Nat, Proof : (0 .. 2) \X Nat,
     PreCommitMessage : Nat, CommitMessage : Nat,
     PreCommit1Fails : Nat, PreCommit2Fails : Nat, InvalidProofs : Nat,
     CCUpdate : BOOLEAN, UpdateSealed : BOOLEAN, ReplicaUpdateProof : BOOLEAN,
     ReplicaUpdateMessage : Nat, TerminateMessage : Nat]

(* The events that say nothing the proofs are about, and the others.       *)
Plain ==
    {"SectorReceived", "SectorPacked", "SectorSealPreCommit1Failed", "SectorSealPreCommit2Failed",
     "SectorDealsExpired", "SectorPreCommit2", "SectorPreCommitBatch", "SectorChainPreCommitFailed",
     "SectorPreCommitLanded", "SectorRetryPreCommit", "SectorComputeProofFailed",
     "SectorRemoteCommitFailed", "SectorSubmitCommitAggregate", "SectorRetrySubmitCommit",
     "SectorFinalized", "SectorFinalizedAvailable", "SectorFinalizeFailed", "SectorRetryFinalize",
     "SectorRetryWaitDeals", "SectorRetryWaitSeed", "SectorRetryComputeProof",
     "SectorRetryInvalidProof", "SectorAbortUpgrade", "SectorReplicaUpdate",
     "SectorUpdateReplicaFailed", "SectorProveReplicaUpdate", "SectorProveReplicaUpdateFailed",
     "SectorSubmitReplicaUpdateFailed", "SectorDeadlineImmutable", "SectorDeadlineMutable",
     "SectorKeyReleased", "SectorReleaseKeyFailed", "SectorUpdateActive",
     "SectorRetryReplicaUpdate", "SectorRetryProveReplicaUpdate",
     "SectorRetrySubmitReplicaUpdate", "SectorTerminateFailed", "SectorTerminated",
     "SectorTerminating", "SectorRemoved", "SectorRemoveFailed", "SectorPieceAdded",
     "SectorAddPieceFailed", "SectorAddPiece", "SectorStartPacking"}

EventNames ==
    Plain \cup
    {"SectorRestart", "SectorTerminate", "SectorRemove", "SectorStart", "SectorStartCC",
     "SectorReceive", "SectorTicket", "SectorOldTicket", "SectorPreCommit1",
     "SectorRetrySealPreCommit1", "SectorRetrySealPreCommit2", "SectorInvalidDealIDs",
     "SectorUpdateDealIDs", "SectorPreCommitBatchSent", "SectorRetryPreCommitWait",
     "SectorSeedReady", "SectorCommitted", "SectorProofReady", "SectorCommitSubmitted",
     "SectorCommitAggregateSent", "SectorCommitFailed", "SectorRetryCommitWait",
     "SectorProving", "SectorMarkForUpdate", "SectorStartCCUpdate",
     "SectorReplicaUpdateSubmitted", "SectorReplicaUpdateLanded",
     "SectorRetrySubmitReplicaUpdateWait", "SectorRevertUpgradeToProving"}

EventInfo == [e : EventNames, v : Nat, r : Returns]

(* What the events carry: a ticket or deal IDs, or a message there is      *)
(* among n.                                                                *)
Carries(ev, n) ==
    /\ ev.e \in {"SectorReceive", "SectorPieceAdded", "SectorTicket", "SectorUpdateDealIDs"} =>
          ev.v \in 0 .. 2
    /\ ev.e \in {"SectorPreCommitBatchSent", "SectorCommitSubmitted", "SectorCommitAggregateSent",
                  "SectorReplicaUpdateSubmitted", "SectorTerminating"} => ev.v <= n

(* What an event writes to the fields the proofs are about.                *)
Writes(s, ev, t) ==
    /\ t.Return = IF ev.e \in {"SectorReceive", "SectorInvalidDealIDs"} THEN ev.r ELSE s.Return
    /\ ev.e \notin {"SectorTicket", "SectorReceive"} => t.Ticket = s.Ticket
    /\ ev.e = "SectorTicket" => t.Ticket = ev.v
    /\ ev.e \notin {"SectorPreCommit2", "SectorReceive"} => t.CommR = s.CommR
    /\ ev.e = "SectorPreCommit2" => t.CommR = s.Ticket
    /\ ev.e = "SectorReceive" /\ ev.r = "PreCommitting" => t.CommR # 0
    /\ t.PreCommitMessage = IF ev.e = "SectorPreCommitBatchSent" THEN ev.v
                            ELSE s.PreCommitMessage
    /\ t.CommitMessage = IF ev.e \in {"SectorCommitSubmitted", "SectorCommitAggregateSent"}
                         THEN ev.v ELSE s.CommitMessage
    /\ t.TerminateMessage = IF ev.e = "SectorTerminating" THEN ev.v ELSE s.TerminateMessage
    /\ t.ReplicaUpdateMessage = CASE ev.e = "SectorReplicaUpdateSubmitted" -> ev.v
                                  [] ev.e = "SectorRevertUpgradeToProving" -> 0
                                  [] OTHER -> s.ReplicaUpdateMessage
    /\ t.CCUpdate = CASE ev.e = "SectorStartCCUpdate" -> TRUE
                      [] ev.e = "SectorRevertUpgradeToProving" -> FALSE
                      [] OTHER -> s.CCUpdate
    /\ t.UpdateSealed = CASE ev.e = "SectorReplicaUpdate" -> TRUE
                          [] ev.e = "SectorRevertUpgradeToProving" -> FALSE
                          [] OTHER -> s.UpdateSealed

-----------------------------------------------------------------------------
(* What the planners make of a queue of events.                            *)

(* planOne passes over the event.                                          *)
Passed(s, ev) ==
    \/ ev.e \in AppliedIn(s.State)
    \/ ev.e = "SectorStartPacking" /\ <<s.State, ev.e>> \notin DOMAIN fsmPlanners

(* The fields the proofs are about are as they were.                       *)
Unwritten(s, t) ==
    /\ t.Return = s.Return /\ t.Ticket = s.Ticket /\ t.CommR = s.CommR
    /\ t.PreCommitMessage = s.PreCommitMessage /\ t.CommitMessage = s.CommitMessage
    /\ t.TerminateMessage = s.TerminateMessage
    /\ t.ReplicaUpdateMessage = s.ReplicaUpdateMessage
    /\ t.CCUpdate = s.CCUpdate /\ t.UpdateSealed = s.UpdateSealed

(* The states that planCommitting and the events taken in every state lead *)
(* to.                                                                     *)
CommittingMoves ==
    {<<"SectorCommitted", "SubmitCommit">>, <<"SectorProofReady", "CommitFinalize">>,
     <<"SectorComputeProofFailed", "ComputeProofFailed">>,
     <<"SectorRemoteCommitFailed", "RemoteCommitFailed">>,
     <<"SectorSealPreCommit1Failed", "SealPreCommit1Failed">>,
     <<"SectorCommitFailed", "CommitFailed">>, <<"SectorRetryCommitWait", "CommitWait">>,
     <<"SectorTerminate", "Terminating">>, <<"SectorRemove", "Removing">>}

(* What planCommitting makes of the first events of a queue: p is what the *)
(* loop keeps, or the plan.                                                *)
FromCommitting(s, events, p) ==
    /\ p.sec \in SectorInfo /\ Unwritten(s, p.sec)
    /\ p.n \in 0 .. Len(events)
    /\ \/ p.sec.State = "Committing"
       \/ \E j \in 1 .. p.n : <<events[j].e, p.sec.State>> \in CommittingMoves

(* A restart at the head of the queue is consumed.                         *)
TakesRestart(events, p) ==
    p.n = 0 /\ Len(events) # 0 => events[1].e # "SectorRestart"

(* The sector is back in the state it came from (onReturning).             *)
Returned(s, t) ==
    /\ s.Return # "none" /\ t.State = s.Return /\ t.Return = "none"
    /\ t.Ticket = s.Ticket /\ t.CommR = s.CommR
    /\ t.PreCommitMessage = s.PreCommitMessage /\ t.CommitMessage = s.CommitMessage
    /\ t.TerminateMessage = s.TerminateMessage
    /\ t.ReplicaUpdateMessage = s.ReplicaUpdateMessage
    /\ t.CCUpdate = s.CCUpdate /\ t.UpdateSealed = s.UpdateSealed

(* An event takes a sector from s to t, or leaves it where it is: the      *)
(* event is a restart, unknown, or a return to no state.                   *)
Moved(s, ev, t) ==
    \/ ev.e = "SectorTerminate" /\ t.State = "Terminating" /\ Unwritten(s, t)
    \/ ev.e = "SectorRemove" /\ t.State = "Removing" /\ Unwritten(s, t)
    \/ <<s.State, ev.e, t.State>> \in Planners /\ t.State # "Return" /\ Writes(s, ev, t)
    \/ <<s.State, ev.e, "Return">> \in Planners /\ Returned(s, t)

Stayed(s, ev, t) ==
    /\ t.State = s.State /\ Unwritten(s, t)
    /\ \/ ev.e = "SectorRestart"
       \/ ev.e \notin GlobalEvents /\ <<s.State, ev.e>> \notin DOMAIN fsmPlanners
       \/ <<s.State, ev.e, "Return">> \in Planners /\ s.Return = "none"

Took(s, ev, p) ==
    /\ p.sec \in SectorInfo /\ p.err \in BOOLEAN
    /\ \/ ~p.err /\ Moved(s, ev, p.sec)
       \/ (~p.err <=> ev.e = "SectorRestart") /\ Stayed(s, ev, p.sec)

(* What plan makes of a queue: the events of planCommitting, no event that *)
(* decides, or the first one that does. A planner's error is ignored while *)
(* a sector is removed or an upgrade aborted, and the queue is kept when   *)
(* the key of a sector could not be released.                              *)
Idled(s, events, p) ==
    /\ p.sec = s /\ p.err = FALSE /\ p.n \in {0, Len(events)}
    /\ p.n = 0 => s.State = "ReleaseSectorKeyFailed" \/ Len(events) = 0
    /\ s.State = "Removed" \/ \A j \in 1 .. Len(events) : Passed(s, events[j])

Took1(s, events, i, p) ==
    /\ \A j \in 1 .. i - 1 : Passed(s, events[j])
    /\ ~Passed(s, events[i])
    /\ p.n = i \/ (p.n = 0 /\ p.sec.State = "ReleaseSectorKeyFailed")
    /\ Moved(s, events[i], p.sec) \/ Stayed(s, events[i], p.sec)
    /\ s.State \notin {"Removing", "AbortUpgrade"} => Took(s, events[i], p)

PlanOf(s, events, p) ==
    /\ p.sec \in SectorInfo /\ p.n \in 0 .. Len(events)
    /\ \/ s.State = "Committing" /\ FromCommitting(s, events, p) /\ TakesRestart(events, p)
       \/ s.State # "Committing" /\ Idled(s, events, p)
       \/ s.State # "Committing" /\ \E i \in 1 .. Len(events) : Took1(s, events, i, p)

-----------------------------------------------------------------------------
(* What the handlers send.                                                 *)

ChainInfo ==
    [alloc : BOOLEAN, pci : [ticket : 0 .. 2, seed : Nat, deals : BOOLEAN, late : BOOLEAN],
     si : {"none", "sealed", "updated", "terminated"}, ids : 1 .. 2, expired : BOOLEAN,
     active : BOOLEAN, era : 1 .. 2,
     msgs : Seq([kind : {"precommit", "commit", "update", "terminate"}, arg : (0 .. 2) \X Nat,
                 st : {"pending", "ok", "void", "gas", "funds", "fail"}])]

(* The states before the ticket, those of a sector that is sealed, those   *)
(* after the chain has it or it is given up, and those in which a handler  *)
(* looks for the ticket.                                                   *)
Early == {"Undefined", "ReceiveSector", "WaitDeals", "AddPiece", "AddPieceFailed", "Packing"}

Sealed ==
    {"SubmitPreCommitBatch", "PreCommitting", "PreCommitBatchWait", "PreCommitWait",
     "PreCommitFailed", "WaitSeed", "Committing", "CommitFinalize", "CommitFinalizeFailed",
     "SubmitCommit", "SubmitCommitAggregate", "CommitWait", "CommitAggregateWait",
     "CommitFailed", "ComputeProofFailed", "RemoteCommitFailed"}

Live == {"FinalizeSector", "FinalizeFailed", "Proving", "Available"} \cup SnapStates

Late == Live \cup EndStates

Sealing ==
    {"GetTicket", "PreCommit1", "SealPreCommit1Failed", "SealPreCommit2Failed",
     "RecoverDealIDs", "DealsExpired"}

UpdateWaits == {"ReplicaUpdateWait", "UpdateActivating", "ReleaseSectorKey", "ReleaseSectorKeyFailed"}

(* The events that do not come from the handler of the sector's state.     *)
Outside(ev, s, a) ==
    \/ ev.e \in {"SectorStartPacking", "SectorAddPiece", "SectorAbortUpgrade",
                 "SectorStartCCUpdate", "SectorSeedReady", "SectorChainPreCommitFailed",
                 "SectorUpdateActive"}
    \/ ev.e = "SectorMarkForUpdate" /\ s.State = "Proving"
    \/ ev.e \in {"SectorTerminate", "SectorRemove"} /\ a

(* What a handler's event tells of the sector s and the chain c it was     *)
(* sent for, and of the message pushed before it.                          *)
Place(ev, s) ==
    /\ ev.e \notin {"SectorRestart", "SectorMarkForUpdate", "SectorStartCCUpdate",
                    "SectorSeedReady", "SectorStart", "SectorStartCC", "SectorReceive"}
    /\ ev.e = "SectorTicket" => s.State = "GetTicket"
    /\ ev.e \in {"SectorPreCommit1", "SectorOldTicket"} => s.State = "PreCommit1"
    /\ ev.e \in {"SectorRetrySealPreCommit1", "SectorRetrySealPreCommit2"} =>
          s.State \in {"SealPreCommit1Failed", "SealPreCommit2Failed"}
    /\ ev.e = "SectorUpdateDealIDs" => s.State \in {"RecoverDealIDs", "SnapDealsRecoverDealIDs"}
    /\ ev.e = "SectorRevertUpgradeToProving" => s.State = "AbortUpgrade"
    /\ ev.e = "SectorReplicaUpdateSubmitted" => s.State = "SubmitReplicaUpdate"
    /\ ev.e = "SectorRetrySubmitReplicaUpdateWait" => s.State = "ReplicaUpdateFailed"
    /\ ev.e = "SectorCommitFailed" =>
          s.State \in Sealed \/ (s.State = "GetTicket" /\ s.CommitMessage # 0)
    /\ ev.e = "SectorInvalidDealIDs" =>
          \/ s.State \in SnapStates /\ ev.r = "none"
          \/ s.State = "PreCommit1" /\ ev.r = "PreCommit1"
          \/ s.State \in Sealed /\ ev.r \in {"PreCommitting", "PreCommitFailed", "CommitFailed"}
    /\ ev.e = "SectorRemove" =>
          s.State \in {"GetTicket", "SealPreCommit1Failed", "RecoverDealIDs", "DealsExpired"}
                          \cup EndStates
    /\ ev.e = "SectorTerminate" => s.State = "TerminateFailed"

Tells(ev, s, c) ==
    /\ ev.e = "SectorPreCommit1" => s.Ticket >= c.era \/ (c.pci # NoPci /\ ~c.pci.late)
    /\ ev.e = "SectorOldTicket" => s.Ticket < c.era /\ (c.pci = NoPci \/ c.pci.late)
    /\ ev.e = "SectorProving" => s.CommitMessage # 0 /\ Status(c, s.CommitMessage) = "ok"
    /\ ev.e = "SectorReplicaUpdateLanded" =>
          s.ReplicaUpdateMessage # 0 /\ Status(c, s.ReplicaUpdateMessage) = "ok"
    /\ ev.e = "SectorRetryPreCommitWait" => s.PreCommitMessage # 0
    /\ ev.e = "SectorRetryCommitWait" => s.CommitMessage # 0
    /\ ev.e = "SectorRetrySubmitReplicaUpdateWait" => s.ReplicaUpdateMessage # 0
    /\ ev.e = "SectorReplicaUpdateSubmitted" => s.UpdateSealed

Records(ev, s, c, kind) ==
    /\ kind = "none" => Carries(ev, 0)
    /\ kind # "none" => ev.v = Len(c.msgs) + 1
    /\ ev.e = "SectorPreCommitBatchSent" <=> kind = "precommit"
    /\ ev.e \in {"SectorCommitSubmitted", "SectorCommitAggregateSent"} <=> kind = "commit"
    /\ ev.e = "SectorReplicaUpdateSubmitted" <=> kind = "update"
    /\ kind = "terminate" => ev.e = "SectorTerminating"
    /\ kind = "precommit" => s.State = "SubmitPreCommitBatch"
    /\ kind \in {"none", "precommit", "commit", "update", "terminate"}

Fits(ev, s, c, kind) ==
    /\ ev \in EventInfo /\ Place(ev, s) /\ Tells(ev, s, c) /\ Records(ev, s, c, kind)

-----------------------------------------------------------------------------
(* What becomes of the chain.                                              *)

MessageInfo ==
    [kind : {"precommit", "commit", "update", "terminate"}, arg : (0 .. 2) \X Nat,
     st : {"pending", "ok", "void", "gas", "funds", "fail"}]

(* Everything but the messages is as it was.                               *)
SameLedger(c, d) ==
    /\ d.alloc = c.alloc /\ d.pci = c.pci /\ d.si = c.si /\ d.ids = c.ids
    /\ d.expired = c.expired /\ d.active = c.active /\ d.era = c.era

(* d has the messages of c, with what became of them but for the i-th.     *)
SameMessages(c, d, i) ==
    /\ d.msgs \in Seq(MessageInfo) /\ Len(d.msgs) = Len(c.msgs)
    /\ \A j \in 1 .. Len(c.msgs) :
          /\ d.msgs[j].kind = c.msgs[j].kind /\ d.msgs[j].arg = c.msgs[j].arg
          /\ j # i => d.msgs[j].st = c.msgs[j].st

(* d is c with a handler's message more, on its way, if it pushed one.      *)
Appends(c, d, kind) ==
    /\ d \in ChainInfo /\ SameLedger(c, d)
    /\ kind = "none" => d = c
    /\ kind # "none" =>
          LET m == [kind |-> kind, arg |-> MsgArg(kind), st |-> "pending"]
          IN /\ d.msgs = Append(c.msgs, m) /\ Len(d.msgs) = Len(c.msgs) + 1
             /\ \A j \in 1 .. Len(c.msgs) : d.msgs[j] = c.msgs[j]
             /\ d.msgs[Len(d.msgs)] = m

(* What a message that succeeds changes (Executed).                        *)
Effect(c, d, m) ==
    /\ d.ids = c.ids /\ d.expired = c.expired /\ d.active = c.active /\ d.era = c.era
    /\ \/ /\ m.kind = "precommit" /\ ~c.alloc /\ m.arg[1] >= c.era
          /\ d.alloc /\ d.si = c.si /\ d.pci.ticket = m.arg[1] /\ ~d.pci.late
       \/ /\ m.kind = "commit" /\ c.pci # NoPci
          /\ d.alloc = c.alloc /\ d.si = "sealed" /\ d.pci = NoPci
       \/ /\ m.kind = "update" /\ c.si = "sealed"
          /\ d.alloc = c.alloc /\ d.si = "updated" /\ d.pci = c.pci
       \/ /\ m.kind = "terminate" /\ Committed(c)
          /\ d.alloc = c.alloc /\ d.si = "terminated" /\ d.pci = c.pci

(* The chain executes its i-th message, which then has status st.          *)
Executes(c, d, i, st) ==
    /\ c.msgs[i].st = "pending" /\ \A j \in 1 .. i - 1 : c.msgs[j].st # "pending"
    /\ d \in ChainInfo /\ SameMessages(c, d, i) /\ d.msgs[i].st = st
    /\ st \in {"ok", "void", "gas", "funds", "fail"}
    /\ st # "ok" => SameLedger(c, d)
    /\ st = "ok" => Effect(c, d, c.msgs[i])

(* Time passes or the chain reverts.                                       *)
Elapses(c, d) ==
    /\ d \in ChainInfo /\ d.msgs = c.msgs /\ d.alloc = c.alloc /\ d.si = c.si /\ c.era <= d.era
    /\ \/ d.pci = c.pci \/ d.pci = NoPci
       \/ c.pci # NoPci /\ d.pci.ticket = c.pci.ticket /\ (c.pci.late => d.pci.late)

-----------------------------------------------------------------------------
(* The forms of a step. What holds of every step of these forms holds of   *)
(* every step of the machine (StepForms of SectorFsmProofs).               *)

(* The messages a sector recorded are among the first n.                   *)
Recorded(s, n) ==
    /\ s.PreCommitMessage <= n /\ s.CommitMessage <= n
    /\ s.ReplicaUpdateMessage <= n /\ s.TerminateMessage <= n

(* What the steps are described for.                                       *)
Typed ==
    /\ sec \in SectorInfo /\ Recorded(sec, Len(chain.msgs))
    /\ pending \in Seq(EventInfo)
    /\ \A j \in 1 .. Len(pending) : Carries(pending[j], Len(chain.msgs))
    /\ chain \in ChainInfo
    /\ timers \in SUBSET ({"pack", "seed", "active"} \X Nat)
    /\ stage = "idle" => pending = <<>>
    /\ stage \in {"idle", "run", "done", "closed"}

(* The events that create a sector.                                        *)
Creates(ev, s) ==
    /\ s.State = "Undefined"
    /\ ev.e \in {"SectorStart", "SectorStartCC", "SectorReceive"}
    /\ ev.e = "SectorReceive" => ev.r \in {"Packing", "GetTicket", "PreCommitting"}

(* r is what is left of the queue q after n events.                        *)
Left(q, n, r) ==
    /\ r \in Seq(EventInfo) /\ Len(r) = Len(q) - n
    /\ \A j \in 1 .. Len(r) : n + j \in 1 .. Len(q) /\ r[j] = q[n + j]

(* The queue q is planned: the sector is what plan makes of it, and the    *)
(* events that were not consumed are left.                                 *)
Planning(q, p) ==
    /\ PlanOf(sec, q, p)
    /\ sec' = p.sec /\ Left(q, p.n, pending')
    /\ stage' \in {"run", "done", "closed"}
    /\ stage' = "run" => sec'.State # "Undefined" /\ ~p.err
    /\ stage' # "run" => p.err \/ sec'.State \in {"Undefined", "Removed"}

(* The chain is as it was, or has a handler's message more.                *)
Sent ==
    \/ UNCHANGED chain
    \/ \E ev, kind : Fits(ev, sec, chain, kind) /\ Appends(chain, chain', kind)

(* An event from elsewhere joins the queue of a machine that is busy.      *)
Adds(ev) ==
    /\ ev \in EventInfo /\ Carries(ev, 0) /\ Outside(ev, sec, asked')
    /\ stage \in {"run", "done"}
    /\ pending' = Append(pending, ev)
    /\ UNCHANGED <<sec, stage, chain>>

(* The queue q is planned: the machine's queue, or an event that finds the *)
(* machine idle or tells it that the process started again.                *)
Queued(q) ==
    /\ q \in Seq(EventInfo) /\ \A j \in 1 .. Len(q) : Carries(q[j], Len(chain.msgs))
    /\ \/ q = pending /\ UNCHANGED <<chain, asked>>
       \/ /\ Len(q) = 1
          /\ \/ Outside(q[1], sec, asked') \/ Creates(q[1], sec) \/ q[1].e = "SectorRestart"

Replans(q, p) == Queued(q) /\ Planning(q, p) /\ Sent

(* Nothing that the machine plans with changes.                            *)
Calm ==
    /\ UNCHANGED <<sec, pending, chain>>
    /\ \/ stage' = stage
       \/ stage = "run" /\ stage' = "done"
       \/ stage = "done" /\ stage' = "idle" /\ pending = <<>>

(* The handler of the sector's state sends the event.                      *)
Answers(ev, kind) ==
    /\ stage = "run" /\ Fits(ev, sec, chain, kind)
    /\ Appends(chain, chain', kind)
    /\ pending' = Append(pending, ev)
    /\ stage' = "done"
    /\ UNCHANGED <<sec, asked>>

(* The chain executes a message, or time passes.                           *)
ChainSteps ==
    /\ \/ Elapses(chain, chain')
       \/ \E i, st : i \in 1 .. Len(chain.msgs) /\ Executes(chain, chain', i, st)
    /\ UNCHANGED <<sec, pending, stage, mem, timers, asked>>

StepForm ==
    \/ Calm \/ ChainSteps \/ \E ev : Adds(ev)
    \/ \E ev, kind : Answers(ev, kind)
    \/ \E q, p : Replans(q, p)

=============================================================================
