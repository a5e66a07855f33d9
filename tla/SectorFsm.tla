----------------------------- MODULE SectorFsm -----------------------------
(* The sealing state machine of one sector (storage/pipeline): the events   *)
(* it is sent are planned when no handler runs, the sector is saved, and    *)
(* the handler of its new state runs; meanwhile users, timers and the deal  *)
(* input send more events. The machine itself (package go-statemachine) and *)
(* the miner actor are external. The process may stop at any step; what the *)
(* sector recorded survives, events, timers and the deal input's maps do    *)
(* not.                                                                     *)
EXTENDS SectorHandlers

CONSTANTS MaxPending,   \* events in the queue when another one arrives
          MaxMsgs,      \* messages sent to the chain
          Starts,       \* how the sector is created
          UserOps       \* what users ask for

ASSUME BoundsAssumption ==
    /\ {MaxPending, MaxMsgs} \subseteq Nat
    /\ Starts \subseteq {"deals", "cc", "receive"}
    /\ UserOps \subseteq {"MarkForUpgrade", "AbortUpgrade", "Terminate", "Remove",
                          "StartPacking"}

NoMem == [open |-> FALSE, assigned |-> FALSE, available |-> FALSE, nextDeal |-> FALSE]

Init ==
    /\ sec = NewSector
    /\ pending = <<>>
    /\ stage = "idle"
    /\ mem = NoMem
    /\ timers = {}
    /\ chain = GenesisChain
    /\ used = [trouble |-> 0, lapses |-> 0]
    /\ asked = FALSE

-----------------------------------------------------------------------------
\* The queue is planned, and the sector is saved; a removed sector's machine
\* ends, and a planner's error leaves no handler to run (Plan).
Plan(s, events) ==
    \E p \in {plan(s, events)} :
       /\ sec' = p.sec
       /\ pending' = SubSeq(events, p.n + 1, Len(events))
       /\ stage' = CASE p.sec.State = "Removed" /\ ~p.err -> "closed"
                     [] p.err \/ p.sec.State = "Undefined" -> "done"
                     [] OTHER -> "run"

\* Send: an event that finds the machine idle is planned at once.
Send(ev) ==
    /\ stage # "closed"
    /\ IF stage = "idle" THEN Plan(sec, <<ev>>)
       ELSE /\ Len(pending) < MaxPending
            /\ pending' = Append(pending, ev)
            /\ UNCHANGED <<sec, stage>>

\* Mutant of stageDone: the events that arrived meanwhile are left in the queue.
stageDoneWaits ==
    /\ stage = "done"
    /\ stage' = "idle"
    /\ UNCHANGED <<sec, pending, mem, timers, chain, used, asked>>

\* The end of a stage: the events that arrived meanwhile are planned.
stageDone ==
    /\ stage = "done"
    /\ IF pending = <<>> THEN stage' = "idle" /\ UNCHANGED <<sec, pending>>
       ELSE Plan(sec, pending)
    /\ UNCHANGED <<mem, timers, chain, used, asked>>

\* The handler that runs returns: its message is on its way to the chain and
\* its event in the queue.
Return(o) ==
    /\ o.msg # "none" => Len(chain.msgs) < MaxMsgs
    /\ chain' = Pushed(chain, o.msg)
    /\ Len(pending) <= MaxPending
    /\ pending' = pending \o o.ev
    /\ stage' = "done"
    /\ Spend(o.cost)
    /\ UNCHANGED <<sec, asked>>

handle ==
    /\ stage = "run" /\ sec.State \notin InputStates
    /\ \E o \in Handler(sec, chain) : Return(o)
    /\ UNCHANGED <<mem, timers>>

-----------------------------------------------------------------------------
\* The handlers that use the deal input's maps. Whether a sector starts sealing
\* depends on its space and on time, and is left open.
handleWaitDeals ==
    /\ stage = "run" /\ sec.State \in {"WaitDeals", "SnapDealsWaitDeals"}
    /\ IF mem.assigned
       THEN /\ mem' = [mem EXCEPT !.nextDeal = FALSE]
            /\ Return(Outcome(<<Ev("SectorAddPiece")>>, "none", 0))
            /\ UNCHANGED timers
       ELSE \E started \in {Outcome(<<Ev("SectorStartPacking")>>, "none", 0)} \cup ApiError \cup Stops :
                /\ Return(started)
                /\ mem' = [mem EXCEPT !.nextDeal = FALSE, !.open = (started \in Stops)]
                /\ timers' = (timers \ {<<"pack", 0>>})
                                 \cup (IF started \in Stops THEN {<<"pack", 0>>} ELSE {})

handleAddPiece ==
    /\ stage = "run" /\ sec.State \in {"AddPiece", "SnapDealsAddPiece"}
    /\ mem' = [mem EXCEPT !.assigned = FALSE]
    /\ \E o \in IF mem.assigned
                THEN SendsTo("SectorPieceAdded", chain.ids, "none") \cup Fails("SectorAddPieceFailed")
                ELSE Sends("SectorPieceAdded") : Return(o)
    /\ UNCHANGED timers

\* Mutant of Cleaned: assigned pieces are not answered.
CleanedOpenOnly == [mem EXCEPT !.open = FALSE]

\* cleanupAssignedDeals: assigned pieces are answered and no more accepted.
Cleaned == [mem EXCEPT !.open = FALSE, !.assigned = FALSE]

packing ==
    /\ stage = "run" /\ sec.State \in {"Packing", "SnapDealsPacking"}
    /\ mem' = Cleaned
    /\ \E o \in handlePacking(sec) : Return(o)
    /\ UNCHANGED timers

abortUpgrade ==
    /\ stage = "run" /\ sec.State = "AbortUpgrade"
    /\ mem' = IF sec.CCUpdate THEN Cleaned ELSE mem
    /\ \E o \in handleAbortUpgrade(sec) : Return(o)
    /\ UNCHANGED timers

handleProvingSector ==
    /\ stage = "run" /\ sec.State = "Proving"
    /\ mem' = [Cleaned EXCEPT !.available = FALSE]
    /\ \E o \in Stops : Return(o)
    /\ UNCHANGED timers

handleAvailableSector ==
    /\ stage = "run" /\ sec.State = "Available"
    /\ mem' = [mem EXCEPT !.available = TRUE]
    /\ \E o \in Stops : Return(o)
    /\ UNCHANGED timers

handleWaitSeed ==
    /\ stage = "run" /\ sec.State = "WaitSeed"
    /\ \/ \E o \in ApiError : Return(o) /\ UNCHANGED timers
       \/ /\ chain.pci = NoPci
          /\ \E o \in Sends("SectorChainPreCommitFailed") : Return(o)
          /\ UNCHANGED timers
       \/ /\ chain.pci # NoPci
          /\ \E o \in Stops : Return(o)
          /\ timers' = timers \cup {<<"seed", chain.pci.seed>>}
    /\ UNCHANGED mem

handleUpdateActivating ==
    /\ stage = "run" /\ sec.State = "UpdateActivating"
    /\ sec.ReplicaUpdateMessage # 0 =>
          chain.msgs[sec.ReplicaUpdateMessage].st # "pending"
    /\ \E o \in Stops : Return(o)
    /\ timers' = IF sec.ReplicaUpdateMessage # 0 THEN timers \cup {<<"active", 0>>} ELSE timers
    /\ UNCHANGED mem

-----------------------------------------------------------------------------
\* Timers and ChainAt callbacks. A callback stays registered: it is called
\* again when the chain reverts over its height and comes back.
fired(t) ==
    \/ timers' = timers \ {t} /\ used' = used
    \/ /\ t[1] # "pack" /\ "revert" \in Events
       /\ Spend(1)
       /\ UNCHANGED timers

packTimer(t) ==
    /\ t[1] = "pack"
    /\ Send(Ev("SectorStartPacking"))
    /\ fired(t)
    /\ UNCHANGED <<mem, chain, asked>>

seedReady(t) ==
    /\ t[1] = "seed"
    /\ Send(Event("SectorSeedReady", t[2], "none"))
    /\ fired(t)
    /\ UNCHANGED <<mem, chain, asked>>

\* The callback cannot read the randomness, or not even the head.
seedFails(t) ==
    /\ t[1] = "seed"
    /\ \/ Send(Ev("SectorChainPreCommitFailed"))
       \/ UNCHANGED <<sec, pending, stage>>
    /\ Lapse
    /\ timers' = timers \ {t}
    /\ UNCHANGED <<mem, chain, asked>>

updateActive(t) ==
    /\ t[1] = "active"
    /\ Send(Ev("SectorUpdateActive"))
    /\ fired(t)
    /\ UNCHANGED <<mem, chain, asked>>

-----------------------------------------------------------------------------
\* How a sector comes to be: for deals, pledged, or received from elsewhere
\* with its tickets and replica, or before it got them.
start ==
    /\ sec.State = "Undefined" /\ stage = "idle"
    /\ \/ "deals" \in Starts /\ Send(Ev("SectorStart")) /\ mem' = [mem EXCEPT !.nextDeal = TRUE]
       \/ "cc" \in Starts /\ Send(Ev("SectorStartCC")) /\ UNCHANGED mem
       \/ /\ "receive" \in Starts
          /\ \E r \in {"Packing", "GetTicket", "PreCommitting"}, v \in {0, 1} :
                Send(Event("SectorReceive", v, r))
          /\ UNCHANGED mem
    /\ UNCHANGED <<timers, chain, used, asked>>

\* updateInput assigns a piece to an open sector, which has room for one.
assignPiece ==
    /\ mem.open /\ ~mem.assigned /\ sec.Pieces = 0
    /\ mem' = [mem EXCEPT !.assigned = TRUE]
    /\ Send(Ev("SectorAddPiece"))
    /\ UNCHANGED <<timers, chain, used, asked>>

\* tryGetDealSector takes an available sector for new deals.
maybeUpgradeSector ==
    /\ mem.available /\ ~mem.nextDeal
    /\ Committed(chain) /\ chain.active
    /\ mem' = [mem EXCEPT !.available = FALSE, !.nextDeal = TRUE]
    /\ Send(Ev("SectorStartCCUpdate"))
    /\ UNCHANGED <<timers, chain, used, asked>>

MarkForUpgrade ==
    /\ "MarkForUpgrade" \in UserOps
    /\ sec.State = "Proving" /\ sec.Pieces = 0 /\ Committed(chain) /\ chain.active
    /\ Send(Ev("SectorMarkForUpdate"))
    /\ UNCHANGED <<mem, timers, chain, used, asked>>

SectorAbortUpgrade ==
    /\ "AbortUpgrade" \in UserOps
    /\ sec.State # "Undefined"
    /\ mem' = [mem EXCEPT !.available = FALSE]
    /\ Send(Ev("SectorAbortUpgrade"))
    /\ Spend(1)
    /\ UNCHANGED <<timers, chain, asked>>

StartPackingSector ==
    /\ "StartPacking" \in UserOps
    /\ sec.State # "Undefined"
    /\ Send(Ev("SectorStartPacking"))
    /\ Spend(1)
    /\ UNCHANGED <<mem, timers, chain, asked>>

RemoveOrTerminateSector ==
    /\ sec.State # "Undefined"
    /\ \/ "Terminate" \in UserOps /\ Send(Ev("SectorTerminate"))
       \/ "Remove" \in UserOps /\ Send(Ev("SectorRemove"))
    /\ asked' = TRUE
    /\ Spend(1)
    /\ UNCHANGED <<mem, timers, chain>>

\* The process stops, perhaps after the running handler pushed its message,
\* and starts again: every sector is sent a Restart (restartSectors).
restart ==
    /\ sec.State # "Undefined" /\ stage # "closed"
    /\ "restart" \in Events
    /\ Lapse
    /\ \/ UNCHANGED chain
       \/ /\ stage = "run" /\ sec.State \notin InputStates
          /\ Len(chain.msgs) < MaxMsgs
          /\ \E o \in Handler(sec, chain) :
                o.msg # "none" /\ o.cost = 0 /\ chain' = Pushed(chain, o.msg)
    /\ Plan(sec, <<Ev("SectorRestart")>>)
    /\ mem' = NoMem
    /\ timers' = {}
    /\ UNCHANGED asked

-----------------------------------------------------------------------------
Handlers ==
    \/ handle \/ handleWaitDeals \/ handleAddPiece \/ packing \/ abortUpgrade
    \/ handleProvingSector \/ handleAvailableSector \/ handleWaitSeed
    \/ handleUpdateActivating

Machine == stageDone \/ Handlers \/ start

Timer == \E t \in timers : packTimer(t) \/ seedReady(t) \/ seedFails(t) \/ updateActive(t)

Next ==
    \/ Machine \/ Timer
    \/ assignPiece \/ maybeUpgradeSector
    \/ MarkForUpgrade \/ SectorAbortUpgrade \/ StartPackingSector
    \/ RemoveOrTerminateSector \/ restart \/ execute \/ environment

Spec == Init /\ [][Next]_vars

\* Go runs the machine and the handlers, which return (calls have timeouts
\* or are retried); the chain executes messages and reaches every height.
FairSpec ==
    Spec /\ WF_vars(Machine) /\ WF_vars(execute) /\ WF_vars(Timer)

-----------------------------------------------------------------------------
\* Every variable has a value of its kind, a message the sector recorded is one
\* that was sent (SectorInfo, the maps of Sealing), and an idle machine has no
\* events left.
TypeOK ==
    /\ sec.State \in States
    /\ {sec.Pieces, sec.CCPieces, sec.Ticket, sec.CommR} \subseteq 0..2
    /\ {sec.PreCommitMessage, sec.CommitMessage, sec.ReplicaUpdateMessage,
        sec.TerminateMessage} \subseteq 0..Len(chain.msgs)
    /\ stage \in {"idle", "run", "done", "closed"}
    /\ mem \in [DOMAIN NoMem -> BOOLEAN]
    /\ timers \subseteq {"pack", "seed", "active"} \X Nat
    /\ chain.si \in {"none", "sealed", "updated", "terminated"}
    /\ \A i \in DOMAIN chain.msgs :
          chain.msgs[i].st \in {"pending", "ok", "void", "gas", "funds", "fail"}
    /\ used.trouble <= MaxTrouble /\ used.lapses <= used.trouble
    /\ stage = "idle" => pending = <<>>

\* Whatever failed and was retried, a sector has at most one precommit and one
\* commit message on its way (handlePreCommitFailed, handleCommitFailed look for
\* the recorded message before they retry). A restart may add one whose sending was
\* not recorded, and a late seed callback that fails sends the sector back.
NoDoubleSubmit ==
    \A k \in {"precommit", "commit"} :
        Cardinality({i \in DOMAIN chain.msgs :
                        chain.msgs[i].kind = k /\ chain.msgs[i].st = "pending"})
            <= 1 + used.lapses

\* What the handlers use without asking, or treat as impossible, is there when
\* their state is reached: the message they wait for, the replica they submit,
\* the mark of an upgrade, the state to return to (handlePreCommitWait,
\* handleCommitWait, checkCommit, handleUpdateActivating, handleAbortUpgrade,
\* onReturning).
HandlersReady ==
    /\ sec.State \in {"PreCommitBatchWait", "PreCommitWait"} => sec.PreCommitMessage # 0
    /\ sec.State \in {"CommitWait", "CommitAggregateWait"} => sec.CommitMessage # 0
    /\ sec.State \in {"WaitSeed", "Committing", "SubmitCommit", "CommitFailed"} => sec.CommR # 0
    /\ sec.State \in SnapStates => sec.CCUpdate
    /\ sec.State \in {"UpdateActivating", "ReleaseSectorKey"} =>
          sec.ReplicaUpdateMessage # 0 /\ sec.UpdateSealed
    /\ sec.State \in {"RecoverDealIDs", "ReceiveSector"} => sec.Return # "none"

\* A sector counts as proving, and may be upgraded, only when the chain has it,
\* and the key to its original replica is released only when the chain has the
\* updated one (handleCommitWait, handleReplicaUpdateWait).
ChainBacked ==
    /\ sec.State \in {"FinalizeSector", "FinalizeFailed", "Proving", "Available"} \cup SnapStates =>
          chain.si # "none"
    /\ sec.State \in {"UpdateActivating", "ReleaseSectorKey", "ReleaseSectorKeyFailed"} =>
          chain.si \in {"updated", "terminated"}

\* The machine does not give up on its own (SectorRemove from the failure
\* handlers) a sector that is live on the chain, or whose recorded commit may
\* still make it so. A late seed callback that fails may send a sector back to
\* proving while its commit is on its way, and enough failures then remove it.
NotAbandoned ==
    sec.State \in {"Removing", "Removed"} /\ ~asked /\ used.lapses = 0 =>
        /\ ~Committed(chain)
        /\ sec.CommitMessage # 0 => chain.msgs[sec.CommitMessage].st \notin {"pending", "ok"}

\* A piece that was assigned to a sector is not forgotten: while it is assigned,
\* the machine is not idle, so that some handler will add or refuse it
\* (handleWaitDeals, handleAddPiece, cleanupAssignedDeals).
NoStrandedPiece ==
    stage = "idle" /\ ~asked => ~mem.assigned

\* A sector in state Proving that is not being upgraded is proved with the
\* replica the chain has.
AbortReverts ==
    sec.State = "Proving" /\ ~sec.CCUpdate => chain.si # "updated"

\* The planner reports an error and consumes nothing: it is asked again, with
\* the same events, for ever.
Wedged ==
    stage = "done" /\ pending # <<>> /\ plan(sec, pending).err /\ plan(sec, pending).n = 0

\* No restart and no late callback, no commit that failed on the chain, and no
\* precommit that ran out.
Undisturbed ==
    /\ used.lapses = 0
    /\ \A i \in DOMAIN chain.msgs : chain.msgs[i].kind = "commit" => chain.msgs[i].st \notin {"fail", "gas"}
    /\ chain.alloc /\ chain.si = "none" => chain.pci # NoPci

\* The sector counts as sealed, or nothing more will happen by itself.
AtRest ==
    \/ sec.State \in {"Proving", "Available"} \/ stage = "closed"
    \/ stage = "idle" /\ timers = {}
    \/ Wedged

\* A sector that starts sealing is not retried for ever: with the chain and the
\* process as they should be, whatever calls fail, it comes to rest. It is then
\* proving or removed, or stopped where a user must look.
Settles ==
    []Undisturbed => (sec.State = "Packing" ~> AtRest)
=============================================================================
