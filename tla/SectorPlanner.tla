--------------------------- MODULE SectorPlanner ---------------------------
(* The planners of the sealing state machine (storage/pipeline/fsm.go): the *)
(* state a sector goes to for the events it was sent, and what each event   *)
(* writes to the sector (fsm_events.go).                                    *)
(*                                                                          *)
(* Data: a ticket is the number of the era it was drawn in, 0 if it is too  *)
(* old for any; a sealed replica (CommR) is the ticket it was sealed with;  *)
(* a seed is the number of the block the precommit landed in; a proof is    *)
(* the pair of replica and seed it was computed for; Pieces is 0 without    *)
(* deals and otherwise the version of the deal IDs; a message is its        *)
(* position in the chain's list of messages, 0 if there is none.            *)
EXTENDS Integers, Sequences, FiniteSetsExt

NoProof == <<0, 0>>

\* SectorInfo, as the state machine creates it.
NewSector ==
    [State |-> "Undefined", Return |-> "none",
     Pieces |-> 0, CCPieces |-> 0,
     Ticket |-> 0, CommR |-> 0, Seed |-> 0, Proof |-> NoProof,
     PreCommitMessage |-> 0, CommitMessage |-> 0,
     PreCommit1Fails |-> 0, PreCommit2Fails |-> 0, InvalidProofs |-> 0,
     CCUpdate |-> FALSE, UpdateSealed |-> FALSE, ReplicaUpdateProof |-> FALSE,
     ReplicaUpdateMessage |-> 0, TerminateMessage |-> 0]

\* An event with a number (ticket, seed, message, deal IDs) and a string (the
\* state to return to, or "none").
Event(e, v, r) == [e |-> e, v |-> v, r |-> r]

Ev(e) == Event(e, 0, "none")

-----------------------------------------------------------------------------
\* The planners' tables, on(event, next): the moves from a state, "Return" where
\* the planner returns to the state the sector came from.
Planner(states, moves) == {<<s, m[1], m[2]>> : s \in states, m \in moves}

PreCommitFailures ==
    {<<"SectorSealPreCommit1Failed", "SealPreCommit1Failed">>,
     <<"SectorChainPreCommitFailed", "PreCommitFailed">>,
     <<"SectorPreCommitLanded", "WaitSeed">>,
     <<"SectorDealsExpired", "DealsExpired">>,
     <<"SectorInvalidDealIDs", "RecoverDealIDs">>}

PreCommitWaits ==
    {<<"SectorChainPreCommitFailed", "PreCommitFailed">>,
     <<"SectorPreCommitLanded", "WaitSeed">>,
     <<"SectorRetryPreCommit", "PreCommitting">>}

CommitWaits ==
    {<<"SectorProving", "FinalizeSector">>,
     <<"SectorCommitFailed", "CommitFailed">>,
     <<"SectorRetrySubmitCommit", "SubmitCommit">>}

UpdateFailures ==
    {<<"SectorDealsExpired", "SnapDealsDealsExpired">>,
     <<"SectorInvalidDealIDs", "SnapDealsRecoverDealIDs">>,
     <<"SectorAbortUpgrade", "AbortUpgrade">>}

Abortable ==
    {<<"SectorAbortUpgrade", "AbortUpgrade">>}

SealingPlanners ==
         Planner({"ReceiveSector"}, {<<"SectorReceived", "Return">>})
    \cup Planner({"Undefined"},
             {<<"SectorStart", "WaitDeals">>, <<"SectorStartCC", "Packing">>,
              <<"SectorReceive", "ReceiveSector">>})
    \cup Planner({"WaitDeals"},
             {<<"SectorAddPiece", "AddPiece">>,
              <<"SectorStartPacking", "Packing">>})
    \cup Planner({"AddPiece"},
             {<<"SectorPieceAdded", "WaitDeals">>,
              <<"SectorAddPieceFailed", "AddPieceFailed">>})
    \cup Planner({"Packing"}, {<<"SectorPacked", "GetTicket">>})
    \cup Planner({"GetTicket"},
             {<<"SectorTicket", "PreCommit1">>,
              <<"SectorCommitFailed", "CommitFailed">>})
    \cup Planner({"PreCommit1"},
             {<<"SectorPreCommit1", "PreCommit2">>,
              <<"SectorSealPreCommit1Failed", "SealPreCommit1Failed">>,
              <<"SectorDealsExpired", "DealsExpired">>,
              <<"SectorInvalidDealIDs", "RecoverDealIDs">>,
              <<"SectorOldTicket", "GetTicket">>})
    \cup Planner({"PreCommit2"},
             {<<"SectorPreCommit2", "SubmitPreCommitBatch">>,
              <<"SectorSealPreCommit2Failed", "SealPreCommit2Failed">>,
              <<"SectorSealPreCommit1Failed", "SealPreCommit1Failed">>})
    \cup Planner({"PreCommitting"},
             {<<"SectorPreCommitBatch", "SubmitPreCommitBatch">>} \cup PreCommitFailures)
    \cup Planner({"SubmitPreCommitBatch"},
             {<<"SectorPreCommitBatchSent", "PreCommitBatchWait">>} \cup PreCommitFailures)
    \cup Planner({"PreCommitBatchWait", "PreCommitWait"}, PreCommitWaits)
    \cup Planner({"WaitSeed"},
             {<<"SectorSeedReady", "Committing">>,
              <<"SectorChainPreCommitFailed", "PreCommitFailed">>})
    \cup Planner({"CommitFinalize"},
             {<<"SectorFinalized", "SubmitCommit">>,
              <<"SectorFinalizedAvailable", "SubmitCommit">>,
              <<"SectorFinalizeFailed", "CommitFinalizeFailed">>})
    \cup Planner({"SubmitCommit"},
             {<<"SectorCommitSubmitted", "CommitWait">>,
              <<"SectorSubmitCommitAggregate", "SubmitCommitAggregate">>,
              <<"SectorCommitFailed", "CommitFailed">>})
    \cup Planner({"SubmitCommitAggregate"},
             {<<"SectorCommitAggregateSent", "CommitAggregateWait">>,
              <<"SectorCommitFailed", "CommitFailed">>,
              <<"SectorRetrySubmitCommit", "SubmitCommit">>})
    \cup Planner({"CommitWait", "CommitAggregateWait"}, CommitWaits)
    \cup Planner({"FinalizeSector"},
             {<<"SectorFinalized", "Proving">>,
              <<"SectorFinalizedAvailable", "Available">>,
              <<"SectorFinalizeFailed", "FinalizeFailed">>})

SnapPlanners ==
         Planner({"SnapDealsWaitDeals"},
             {<<"SectorAddPiece", "SnapDealsAddPiece">>,
              <<"SectorStartPacking", "SnapDealsPacking">>} \cup Abortable)
    \cup Planner({"SnapDealsAddPiece"},
             {<<"SectorPieceAdded", "SnapDealsWaitDeals">>,
              <<"SectorAddPieceFailed", "SnapDealsAddPieceFailed">>} \cup Abortable)
    \cup Planner({"SnapDealsPacking"},
             {<<"SectorPacked", "UpdateReplica">>} \cup Abortable)
    \cup Planner({"UpdateReplica"},
             {<<"SectorReplicaUpdate", "ProveReplicaUpdate">>,
              <<"SectorUpdateReplicaFailed", "ReplicaUpdateFailed">>} \cup UpdateFailures)
    \cup Planner({"ProveReplicaUpdate"},
             {<<"SectorProveReplicaUpdate", "FinalizeReplicaUpdate">>,
              <<"SectorProveReplicaUpdateFailed", "ReplicaUpdateFailed">>} \cup UpdateFailures)
    \cup Planner({"FinalizeReplicaUpdate"},
             {<<"SectorFinalized", "SubmitReplicaUpdate">>,
              <<"SectorFinalizeFailed", "FinalizeReplicaUpdateFailed">>})
    \cup Planner({"SubmitReplicaUpdate"},
             {<<"SectorReplicaUpdateSubmitted", "ReplicaUpdateWait">>,
              <<"SectorSubmitReplicaUpdateFailed", "ReplicaUpdateFailed">>,
              <<"SectorDeadlineImmutable", "WaitMutable">>})
    \cup Planner({"WaitMutable"},
             {<<"SectorDeadlineMutable", "SubmitReplicaUpdate">>} \cup Abortable)
    \cup Planner({"ReplicaUpdateWait"},
             {<<"SectorReplicaUpdateLanded", "UpdateActivating">>,
              <<"SectorSubmitReplicaUpdateFailed", "ReplicaUpdateFailed">>} \cup Abortable)
    \cup Planner({"UpdateActivating"},
             {<<"SectorUpdateActive", "ReleaseSectorKey">>})
    \cup Planner({"ReleaseSectorKey"},
             {<<"SectorKeyReleased", "Proving">>,
              <<"SectorReleaseKeyFailed", "ReleaseSectorKeyFailed">>})

SnapFailurePlanners ==
         Planner({"SnapDealsAddPieceFailed"},
             {<<"SectorRetryWaitDeals", "SnapDealsWaitDeals">>} \cup Abortable)
    \cup Planner({"SnapDealsDealsExpired"}, Abortable)
    \cup Planner({"SnapDealsRecoverDealIDs"},
             {<<"SectorUpdateDealIDs", "SubmitReplicaUpdate">>} \cup Abortable)
    \cup Planner({"AbortUpgrade"},
             {<<"SectorRevertUpgradeToProving", "Proving">>})
    \cup Planner({"ReplicaUpdateFailed"},
             {<<"SectorRetrySubmitReplicaUpdateWait", "ReplicaUpdateWait">>,
              <<"SectorRetrySubmitReplicaUpdate", "SubmitReplicaUpdate">>,
              <<"SectorRetryReplicaUpdate", "UpdateReplica">>,
              <<"SectorRetryProveReplicaUpdate", "ProveReplicaUpdate">>} \cup UpdateFailures)
    \cup Planner({"ReleaseSectorKeyFailed"},
             {<<"SectorUpdateActive", "ReleaseSectorKey">>})
    \cup Planner({"FinalizeReplicaUpdateFailed"},
             {<<"SectorRetryFinalize", "FinalizeReplicaUpdate">>})

FailurePlanners ==
         Planner({"AddPieceFailed"}, {<<"SectorRetryWaitDeals", "WaitDeals">>})
    \cup Planner({"SealPreCommit1Failed"},
             {<<"SectorRetrySealPreCommit1", "PreCommit1">>})
    \cup Planner({"SealPreCommit2Failed"},
             {<<"SectorRetrySealPreCommit1", "PreCommit1">>,
              <<"SectorRetrySealPreCommit2", "PreCommit2">>})
    \cup Planner({"PreCommitFailed"},
             {<<"SectorRetryPreCommit", "PreCommitting">>,
              <<"SectorRetryPreCommitWait", "PreCommitWait">>,
              <<"SectorRetryWaitSeed", "WaitSeed">>,
              <<"SectorSealPreCommit1Failed", "SealPreCommit1Failed">>,
              <<"SectorPreCommitLanded", "WaitSeed">>,
              <<"SectorDealsExpired", "DealsExpired">>,
              <<"SectorInvalidDealIDs", "RecoverDealIDs">>})
    \cup Planner({"ComputeProofFailed"},
             {<<"SectorRetryComputeProof", "Committing">>,
              <<"SectorSealPreCommit1Failed", "SealPreCommit1Failed">>})
    \cup Planner({"RemoteCommitFailed"},
             {<<"SectorRetryComputeProof", "Committing">>})
    \cup Planner({"CommitFinalizeFailed"},
             {<<"SectorRetryFinalize", "CommitFinalize">>})
    \cup Planner({"CommitFailed"},
             {<<"SectorSealPreCommit1Failed", "SealPreCommit1Failed">>,
              <<"SectorRetryWaitSeed", "WaitSeed">>,
              <<"SectorRetryComputeProof", "Committing">>,
              <<"SectorRetryInvalidProof", "Committing">>,
              <<"SectorRetryPreCommitWait", "PreCommitWait">>,
              <<"SectorChainPreCommitFailed", "PreCommitFailed">>,
              <<"SectorRetryPreCommit", "PreCommitting">>,
              <<"SectorRetryCommitWait", "CommitWait">>,
              <<"SectorRetrySubmitCommit", "SubmitCommit">>,
              <<"SectorDealsExpired", "DealsExpired">>,
              <<"SectorInvalidDealIDs", "RecoverDealIDs">>,
              <<"SectorTicketExpired", "Removing">>})
    \cup Planner({"FinalizeFailed"},
             {<<"SectorRetryFinalize", "FinalizeSector">>})
    \cup Planner({"RecoverDealIDs"}, {<<"SectorUpdateDealIDs", "Return">>})
    \cup Planner({"Proving"}, {<<"SectorMarkForUpdate", "Available">>})
    \cup Planner({"Available"},
             {<<"SectorStartCCUpdate", "SnapDealsWaitDeals">>,
              <<"SectorAbortUpgrade", "Proving">>})
    \cup Planner({"Terminating"},
             {<<"SectorTerminating", "TerminateWait">>,
              <<"SectorTerminateFailed", "TerminateFailed">>})
    \cup Planner({"TerminateWait"},
             {<<"SectorTerminated", "TerminateFinality">>,
              <<"SectorTerminateFailed", "TerminateFailed">>})
    \cup Planner({"TerminateFinality"},
             {<<"SectorTerminateFailed", "TerminateFailed">>})
    \cup Planner({"Removing"},
             {<<"SectorRemoved", "Removed">>,
              <<"SectorRemoveFailed", "RemoveFailed">>})

Planners == SealingPlanners \cup SnapPlanners \cup FailurePlanners \cup SnapFailurePlanners

\* The next state, for a state and an event its planner knows.
fsmPlanners ==
    [m \in {<<p[1], p[2]>> : p \in Planners} |->
        (CHOOSE p \in Planners : p[1] = m[1] /\ p[2] = m[2])[3]]

\* The states: of sealing, of an upgrade, of failures, of the end.
SealingStates ==
    {"Undefined", "ReceiveSector", "WaitDeals", "AddPiece", "Packing", "GetTicket",
     "PreCommit1", "PreCommit2", "PreCommitting", "PreCommitWait", "SubmitPreCommitBatch",
     "PreCommitBatchWait", "WaitSeed", "Committing", "CommitFinalize", "SubmitCommit",
     "CommitWait", "SubmitCommitAggregate", "CommitAggregateWait", "FinalizeSector",
     "Proving", "Available"}

SnapStates ==
    {"SnapDealsWaitDeals", "SnapDealsAddPiece", "SnapDealsPacking", "UpdateReplica",
     "ProveReplicaUpdate", "FinalizeReplicaUpdate", "SubmitReplicaUpdate", "WaitMutable",
     "ReplicaUpdateWait", "UpdateActivating", "ReleaseSectorKey",
     "SnapDealsAddPieceFailed", "SnapDealsDealsExpired", "SnapDealsRecoverDealIDs",
     "AbortUpgrade", "ReplicaUpdateFailed", "ReleaseSectorKeyFailed",
     "FinalizeReplicaUpdateFailed"}

FailureStates ==
    {"AddPieceFailed", "SealPreCommit1Failed", "SealPreCommit2Failed", "PreCommitFailed",
     "ComputeProofFailed", "RemoteCommitFailed", "CommitFinalizeFailed", "CommitFailed",
     "FinalizeFailed", "DealsExpired", "RecoverDealIDs"}

EndStates ==
    {"Terminating", "TerminateWait", "TerminateFinality", "TerminateFailed",
     "Removing", "RemoveFailed", "Removed"}

States == SealingStates \cup SnapStates \cup FailureStates \cup EndStates

\* Events a planner applies without leaving its state, apply(...).
AppliedIn(state) ==
    IF state \in {"AddPiece", "SnapDealsAddPiece",
                  "AddPieceFailed", "SnapDealsAddPieceFailed"}
    THEN {"SectorStartPacking", "SectorAddPiece"}
    ELSE {}

-----------------------------------------------------------------------------
GlobalEvents == {"SectorRestart", "SectorTerminate", "SectorRemove"}

\* The apply methods of the events that change more than the state. The code
\* only asks whether InvalidProofs is above 0 or 1, so it counts to 2 here.
Apply(s, ev) ==
    CASE ev.e = "SectorReceive" ->
            [s EXCEPT !.Return = ev.r, !.Pieces = ev.v,
                      !.Ticket = IF ev.r = "PreCommitting" THEN 1 ELSE 0,
                      !.CommR = IF ev.r = "PreCommitting" THEN 1 ELSE 0]
      [] ev.e = "SectorPieceAdded" /\ ev.v # 0 -> [s EXCEPT !.Pieces = ev.v]
      [] ev.e = "SectorTicket" -> [s EXCEPT !.Ticket = ev.v]
      [] ev.e = "SectorPreCommit1" -> [s EXCEPT !.PreCommit2Fails = 0]
      [] ev.e = "SectorPreCommit2" -> [s EXCEPT !.CommR = s.Ticket]
      [] ev.e = "SectorSealPreCommit1Failed" ->
            [s EXCEPT !.InvalidProofs = 0, !.PreCommit2Fails = 0,
                      !.PreCommit1Fails = @ + 1]
      [] ev.e = "SectorSealPreCommit2Failed" ->
            [s EXCEPT !.InvalidProofs = 0, !.PreCommit2Fails = @ + 1]
      [] ev.e = "SectorPreCommitBatchSent" -> [s EXCEPT !.PreCommitMessage = ev.v]
      [] ev.e = "SectorSeedReady" -> [s EXCEPT !.Seed = ev.v]
      [] ev.e \in {"SectorCommitted", "SectorProofReady"} ->
            [s EXCEPT !.Proof = <<s.CommR, ev.v>>]
      [] ev.e \in {"SectorCommitSubmitted", "SectorCommitAggregateSent"} ->
            [s EXCEPT !.CommitMessage = ev.v]
      [] ev.e \in {"SectorRetryComputeProof", "SectorRetryInvalidProof"} ->
            [s EXCEPT !.InvalidProofs = Min({@ + 1, 2})]
      [] ev.e = "SectorInvalidDealIDs" -> [s EXCEPT !.Return = ev.r]
      [] ev.e = "SectorUpdateDealIDs" /\ ev.v # 0 -> [s EXCEPT !.Pieces = ev.v]
      [] ev.e = "SectorStartCCUpdate" ->
            [s EXCEPT !.CCUpdate = TRUE, !.CCPieces = s.Pieces, !.Pieces = 0]
      [] ev.e = "SectorReplicaUpdate" -> [s EXCEPT !.UpdateSealed = TRUE]
      [] ev.e = "SectorProveReplicaUpdate" -> [s EXCEPT !.ReplicaUpdateProof = TRUE]
      [] ev.e = "SectorReplicaUpdateSubmitted" ->
            [s EXCEPT !.ReplicaUpdateMessage = ev.v]
      [] ev.e = "SectorRevertUpgradeToProving" ->
            [s EXCEPT !.CCUpdate = FALSE, !.UpdateSealed = FALSE,
                      !.ReplicaUpdateProof = FALSE, !.ReplicaUpdateMessage = 0,
                      !.Pieces = s.CCPieces]
      [] ev.e = "SectorTerminating" -> [s EXCEPT !.TerminateMessage = ev.v]
      [] OTHER -> s

\* applyGlobal: these events are taken in every state.
applyGlobal(s, ev) ==
    [s EXCEPT !.State = CASE ev.e = "SectorTerminate" -> "Terminating"
                          [] ev.e = "SectorRemove" -> "Removing"
                          [] OTHER -> @]

\* The state after planning, the number of events consumed, and whether the
\* planner reported an error.
Planned(s, n, err) == [sec |-> s, n |-> n, err |-> err]

\* Mutant of follow: the state changes, what the event carries is not written.
followUnapplied(s, ev, next, n) ==
    Planned([s EXCEPT !.State = IF next = "Return" THEN s.Return ELSE next], n, FALSE)

\* on and onReturning: apply the event, then change the state. Returning
\* fails when the sector recorded no state to return to.
follow(s, ev, next, n) ==
    LET t == Apply(s, ev)
    IN IF next # "Return" THEN Planned([t EXCEPT !.State = next], n, FALSE)
       ELSE IF t.Return = "none" THEN Planned(t, n, TRUE)
       ELSE Planned([t EXCEPT !.State = t.Return, !.Return = "none"], n, FALSE)

\* planOne: events that are only applied, and a StartPacking that the state
\* does not expect, are passed over; the first other event decides.
planOneOf(s, events, planners) ==
    LET knows(ev) == <<s.State, ev.e>> \in DOMAIN planners
        passed(ev) == \/ ev.e \in AppliedIn(s.State)
                      \/ ev.e = "SectorStartPacking" /\ ~knows(ev)
        decides == {i \in DOMAIN events : ~passed(events[i])}
        i == Min(decides)
        ev == events[i]
    IN CASE decides = {} -> Planned(s, Len(events), FALSE)
         [] decides # {} /\ ev.e \in GlobalEvents ->
               Planned(applyGlobal(s, ev), i, FALSE)
         [] decides # {} /\ ev.e \notin GlobalEvents /\ knows(ev) ->
               follow(s, ev, planners[<<s.State, ev.e>>], i)
         [] OTHER -> Planned(s, i, TRUE)

planOne(s, events) == planOneOf(s, events, fsmPlanners)

\* planCommitting's cases: a next state, or "none" for an event it does not know.
CommittingNext(s, ev) ==
    CASE ev.e = "SectorCommitted" -> "SubmitCommit"
      [] ev.e = "SectorProofReady" -> "CommitFinalize"
      [] ev.e = "SectorComputeProofFailed" -> "ComputeProofFailed"
      [] ev.e = "SectorRemoteCommitFailed" -> "RemoteCommitFailed"
      [] ev.e = "SectorSealPreCommit1Failed" -> "SealPreCommit1Failed"
      [] ev.e = "SectorCommitFailed" -> "CommitFailed"
      [] ev.e = "SectorRetryCommitWait" -> "CommitWait"
      [] ev.e = "SectorRestart" -> s.State
      [] ev.e = "SectorSeedReady" /\ ev.v = s.Seed -> s.State
      [] OTHER -> "none"

\* One round of planCommitting's loop. An unknown event is not consumed.
committingStep(p, ev) ==
    CASE p.stop -> p
      [] ~p.stop /\ CommittingNext(p.sec, ev) # "none" ->
            [p EXCEPT !.n = @ + 1,
                      !.sec = [IF ev.e \in {"SectorCommitted", "SectorProofReady"}
                               THEN Apply(@, ev) ELSE @
                               EXCEPT !.State = CommittingNext(p.sec, ev)]]
      [] ~p.stop /\ ev.e \in {"SectorTerminate", "SectorRemove"} ->
            [p EXCEPT !.n = @ + 1, !.stop = TRUE, !.sec = applyGlobal(@, ev)]
      [] ~p.stop /\ ev.e = "SectorSeedReady" /\ ev.v # p.sec.Seed ->
            [p EXCEPT !.n = @ + 1, !.stop = TRUE,
                      !.sec = [Apply(@, ev) EXCEPT !.State = "Committing"]]
      [] OTHER -> [p EXCEPT !.stop = TRUE, !.err = TRUE]

planCommitting(s, events) ==
    LET after[i \in 0 .. Len(events)] ==
            IF i = 0 THEN [sec |-> s, n |-> 0, err |-> FALSE, stop |-> FALSE]
            ELSE committingStep(after[i - 1], events[i])
        p == after[Len(events)]
    IN Planned(p.sec, p.n, p.err)

\* plan: the planner of the state, and then the choice of the handler; a
\* sector in ReleaseSectorKeyFailed consumes no event. Removing and
\* AbortUpgrade ignore the errors of their planner (planOneOrIgnore), a
\* removed sector consumes every event (finalRemoved).
plan(s, events) ==
    LET p == CASE s.State = "Committing" -> planCommitting(s, events)
               [] s.State = "Removed" -> Planned(s, Len(events), FALSE)
               [] s.State \in {"Removing", "AbortUpgrade"} ->
                     [planOne(s, events) EXCEPT !.err = FALSE]
               [] OTHER -> planOne(s, events)
    IN IF ~p.err /\ p.sec.State = "ReleaseSectorKeyFailed"
       THEN [p EXCEPT !.n = 0]
       ELSE p
=============================================================================
