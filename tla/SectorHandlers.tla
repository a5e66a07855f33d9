--------------------------- MODULE SectorHandlers ---------------------------
(* The handlers of the sealing state machine (states_sealing.go,            *)
(* states_failed.go, states_replica_update.go, states_proving.go) and the   *)
(* checks they make (checks.go): what a handler sends for a sector s when   *)
(* the chain is c. A handler has several outcomes: the calls it makes to    *)
(* the node and to the sealer may fail, and settings may be either way.     *)
EXTENDS SectorChain

CONSTANTS MaxPreCommit1Retries, MaxPreCommit2Retries

ASSUME RetriesAssumption ==
    MaxPreCommit1Retries \in Nat /\ MaxPreCommit2Retries \in Nat

-----------------------------------------------------------------------------
\* Outcomes: the event sent (at most one), the kind of message pushed to the
\* chain before, and how many calls failed.
Outcome(ev, msg, cost) == [ev |-> ev, msg |-> msg, cost |-> cost]

Sends(e) == {Outcome(<<Ev(e)>>, "none", 0)}

SendsTo(e, v, r) == {Outcome(<<Event(e, v, r)>>, "none", 0)}

\* A call fails, and the handler sends e.
Fails(e) == {Outcome(<<Ev(e)>>, "none", 1)}

\* The handler returns without an event; after a failed call or by itself.
ApiError == {Outcome(<<>>, "none", 1)}

Stops == {Outcome(<<>>, "none", 0)}

\* The handler pushes a message and sends e with it.
Pushes(c, kind, e) == {Outcome(<<Event(e, Len(c.msgs) + 1, "none")>>, kind, 0)}

\* A check is the set of its results; what follows it depends on the result.
Result(err, cost) == [err |-> err, cost |-> cost]

After(results, outcomes(_)) ==
    UNION {{[o EXCEPT !.cost = @ + r.cost] : o \in outcomes(r.err)} : r \in results}

Then(results, more) ==
    {r \in results : r.err # "ok"}
        \cup (IF Result("ok", 0) \in results THEN more ELSE {})

-----------------------------------------------------------------------------
\* A failed look-up of a deal counts as an invalid deal.
checkPieces(s, c, mustHaveDeals) ==
    {Result("Api", 1)}
    \cup (IF s.Pieces # 0 THEN {Result("InvalidDeals", 1)} ELSE {})
    \cup {Result(CASE s.Pieces = 0 -> IF mustHaveDeals THEN "NoDeals" ELSE "ok"
                   [] s.Pieces \notin {0, c.ids} -> "InvalidDeals"
                   [] s.Pieces = c.ids /\ c.expired -> "ExpiredDeals"
                   [] OTHER -> "ok", 0)}

checkPrecommit(s, c) ==
    Then(checkPieces(s, c, FALSE),
         {Result("Api", 1), Result("Allocated?", 1)}
         \cup (IF s.Pieces # 0 THEN {Result("BadCommD", 1)} ELSE {})
         \cup {Result(CASE c.pci # NoPci /\ c.pci.ticket # s.Ticket -> "BadTicket"
                        [] c.pci # NoPci /\ c.pci.ticket = s.Ticket -> "PrecommitOnChain"
                        [] c.pci = NoPci /\ c.alloc -> "SectorNumberAllocated"
                        [] c.pci = NoPci /\ ~c.alloc /\ s.Ticket < c.era -> "ExpiredTicket"
                        [] OTHER -> "ok", 0)})

checkCommit(s, c, proof) ==
    LET answer ==
            CASE c.pci = NoPci /\ c.alloc ->
                    IF s.CommitMessage # 0 THEN "CommitWaitFailed" ELSE "other"
              [] c.pci = NoPci /\ ~c.alloc -> "NoPrecommit"
              [] c.pci # NoPci /\ c.pci.seed # s.Seed -> "BadSeed"
              [] c.pci # NoPci /\ c.pci.seed = s.Seed
                   /\ ~(proof = <<c.pci.ticket, s.Seed>> /\ s.Ticket = c.pci.ticket) ->
                    "InvalidProof"
              [] OTHER -> "ok"
    IN IF s.Seed = 0 THEN {Result("BadSeed", 0)}
       ELSE {Result("other", 1), Result("Api", 1)}
            \cup (IF answer = "ok" THEN {Result("InvalidProof", 1)} ELSE {})
            \cup Then({Result(answer, 0)}, checkPieces(s, c, FALSE))

checkReplicaUpdate(s, c) ==
    Then(checkPieces(s, c, TRUE),
         {Result("Api", 1), Result("BadRU", 1)}
         \cup {Result(CASE ~s.CCUpdate -> "other"
                        [] s.CCUpdate /\ ~s.UpdateSealed -> "BadRU"
                        [] s.CCUpdate /\ s.UpdateSealed /\ ~s.ReplicaUpdateProof -> "BadPR"
                        [] OTHER -> "ok", 0)})

-----------------------------------------------------------------------------
handlePacking(s) ==
    IF s.State = "SnapDealsPacking" /\ s.Pieces = 0
    THEN Sends("SectorAbortUpgrade")
    ELSE Sends("SectorPacked") \cup ApiError

\* getTicket returns no error when it cannot read the head or the allocation,
\* and handleGetTicket then goes on with an empty ticket.
getTicketError(c) ==
    c.pci.late \/ (c.pci = NoPci /\ c.alloc)

handleGetTicket(s, c) ==
    LET failed == IF c.alloc
                  THEN IF s.CommitMessage # 0 THEN "SectorCommitFailed" ELSE "SectorRemove"
                  ELSE "SectorSealPreCommit1Failed"
    IN Fails("SectorTicket") \cup Fails(failed)
       \cup (IF getTicketError(c) THEN Sends(failed)
             ELSE SendsTo("SectorTicket",
                          IF c.pci # NoPci THEN c.pci.ticket ELSE c.era, "none"))

handlePreCommit1(s, c) ==
    LET next(err) ==
            CASE err = "InvalidDeals" -> SendsTo("SectorInvalidDealIDs", 0, "PreCommit1")
              [] err = "ExpiredDeals" -> Sends("SectorDealsExpired")
              [] err # "ok" -> Stops
              [] err = "ok" /\ s.Ticket < c.era /\ (c.pci = NoPci \/ c.pci.late) ->
                    Sends("SectorOldTicket") \cup ApiError
              [] OTHER -> Sends("SectorPreCommit1")
                          \cup Fails("SectorSealPreCommit1Failed") \cup ApiError
    IN After(checkPieces(s, c, FALSE), next)

handlePreCommit2 ==
    Sends("SectorPreCommit2") \cup Fails("SectorSealPreCommit2Failed")
        \cup Fails("SectorSealPreCommit1Failed")

handleSubmitPreCommitBatch(s, c) ==
    LET next(err) ==
            CASE err \in {"BadCommD", "ExpiredTicket", "BadTicket"} ->
                    Sends("SectorSealPreCommit1Failed")
              [] err = "InvalidDeals" ->
                    SendsTo("SectorInvalidDealIDs", 0, "PreCommitting")
              [] err = "ExpiredDeals" -> Sends("SectorDealsExpired")
              [] err = "PrecommitOnChain" -> Sends("SectorPreCommitLanded")
              [] err = "Allocated?" -> Sends("SectorChainPreCommitFailed")
              [] err \in {"Api", "SectorNumberAllocated"} -> Stops
              [] OTHER -> Pushes(c, "precommit", "SectorPreCommitBatchSent")
                          \cup Fails("SectorChainPreCommitFailed")
                          \cup Fails("SectorSealPreCommit1Failed")
    IN IF s.CommR = 0 THEN Sends("SectorSealPreCommit1Failed")
       ELSE ApiError \cup After(checkPrecommit(s, c), next)

\* StateWaitMsg returns when the message was executed.
handlePreCommitWait(s, c) ==
    IF s.PreCommitMessage = 0 THEN Sends("SectorChainPreCommitFailed")
    ELSE Fails("SectorChainPreCommitFailed")
         \cup CASE Status(c, s.PreCommitMessage) = "ok" -> Sends("SectorPreCommitLanded")
                [] Status(c, s.PreCommitMessage) \in {"gas", "funds"} ->
                      Sends("SectorRetryPreCommit")
                [] Status(c, s.PreCommitMessage) = "fail" ->
                      Sends("SectorChainPreCommitFailed")
                [] OTHER -> {}

handleCommitting(s, c) ==
    LET prove(err) ==
            IF err = "ok"
            THEN SendsTo("SectorCommitted", s.Seed, "none")
                 \cup SendsTo("SectorProofReady", s.Seed, "none")
            ELSE Sends("SectorCommitFailed")
        compute ==
            IF s.CommR = 0 THEN Sends("SectorCommitFailed")
            ELSE ApiError \cup Fails("SectorComputeProofFailed")
                 \cup Fails("SectorRemoteCommitFailed")
                 \cup After(checkCommit(s, c, <<s.CommR, s.Seed>>), prove)
    IN IF s.CommitMessage # 0 /\ Status(c, s.CommitMessage) # "pending"
       THEN Sends("SectorRetryCommitWait") \cup {[o EXCEPT !.cost = @ + 1] : o \in compute}
       ELSE compute

handleSubmitCommit(s, c) ==
    LET next(err) ==
            IF err = "ok"
            THEN Pushes(c, "commit", "SectorCommitSubmitted") \cup Fails("SectorCommitFailed")
            ELSE Sends("SectorCommitFailed")
    IN Sends("SectorSubmitCommitAggregate") \cup ApiError
       \cup After(checkCommit(s, c, s.Proof), next)

\* The batcher looks up the precommit for the collateral, and reports the
\* sector as failed without it.
handleSubmitCommitAggregate(s, c) ==
    LET next(err) == IF err = "ok" THEN Fails("SectorRetrySubmitCommit")
                     ELSE Fails("SectorCommitFailed")
    IN IF s.CommR = 0 THEN Sends("SectorCommitFailed")
       ELSE ApiError \cup Fails("SectorCommitFailed")
            \cup After(checkCommit(s, c, s.Proof), next)
            \cup (IF c.pci = NoPci THEN Sends("SectorCommitFailed")
                  ELSE Pushes(c, "commit", "SectorCommitAggregateSent"))

\* Mutant of handleCommitWait: the sector is not looked up after the message.
handleCommitWaitTrusts(s, c) ==
    IF s.CommitMessage = 0 THEN Sends("SectorCommitFailed")
    ELSE Fails("SectorCommitFailed")
         \cup CASE Status(c, s.CommitMessage) \in {"ok", "void"} -> Sends("SectorProving")
                [] Status(c, s.CommitMessage) = "pending" -> {}
                [] OTHER -> Sends("SectorCommitFailed")

handleCommitWait(s, c) ==
    IF s.CommitMessage = 0 THEN Sends("SectorCommitFailed")
    ELSE Fails("SectorCommitFailed")
         \cup CASE Status(c, s.CommitMessage) = "ok" -> Sends("SectorProving")
                [] Status(c, s.CommitMessage) \in {"gas", "funds"} ->
                      Sends("SectorRetrySubmitCommit")
                [] Status(c, s.CommitMessage) \in {"fail", "void"} ->
                      Sends("SectorCommitFailed")
                [] OTHER -> {}

\* CommitFinalize and FinalizeSector; a sector without deals may be made
\* available for an upgrade.
handleFinalizeSector(s) ==
    Fails("SectorFinalizeFailed") \cup ApiError \cup Sends("SectorFinalized")
        \cup (IF s.Pieces = 0 THEN Sends("SectorFinalizedAvailable") ELSE {})

-----------------------------------------------------------------------------
handleSealPrecommit1Failed(s) ==
    IF s.PreCommit1Fails > MaxPreCommit1Retries THEN Sends("SectorRemove")
    ELSE Sends("SectorRetrySealPreCommit1")

handleSealPrecommit2Failed(s) ==
    IF s.PreCommit2Fails > MaxPreCommit2Retries THEN Sends("SectorRetrySealPreCommit1")
    ELSE Sends("SectorRetrySealPreCommit2")

\* Mutant of handlePreCommitFailed: the exit code of the message that was found
\* is not looked at.
handlePreCommitFailedWaits(s, c) ==
    IF s.PreCommitMessage = 0 THEN Sends("SectorRetryPreCommit")
    ELSE Sends("SectorRetryPreCommitWait")

handlePreCommitFailed(s, c) ==
    LET onChain == CASE s.PreCommitMessage = 0 -> Sends("SectorPreCommitLanded")
                     [] s.PreCommitMessage # 0 /\ c.pci.ticket # s.CommR -> Stops
                     [] OTHER -> Sends("SectorRetryWaitSeed")
        next(err) ==
            CASE err \in {"BadCommD", "ExpiredTicket", "BadTicket"} ->
                    Sends("SectorSealPreCommit1Failed")
              [] err = "InvalidDeals" ->
                    SendsTo("SectorInvalidDealIDs", 0, "PreCommitFailed")
              [] err = "ExpiredDeals" -> Sends("SectorDealsExpired")
              [] err = "PrecommitOnChain" -> onChain \cup Fails("SectorRetryPreCommit")
              [] err = "ok" -> Sends("SectorRetryPreCommit")
              [] OTHER -> Stops
        recheck == After(checkPrecommit(s, c), next)
    IN ApiError
       \cup IF s.PreCommitMessage = 0 THEN recheck
            ELSE Fails("SectorRetryPreCommitWait")
                 \cup CASE Status(c, s.PreCommitMessage) \in {"pending", "ok"} ->
                              Sends("SectorRetryPreCommitWait")
                        [] Status(c, s.PreCommitMessage) = "gas" ->
                              Sends("SectorRetryPreCommit")
                        [] OTHER -> recheck

handleComputeProofFailed(s) ==
    IF s.InvalidProofs > 1 THEN Sends("SectorSealPreCommit1Failed")
    ELSE Sends("SectorRetryComputeProof")

\* Mutant of handleCommitFailed: a message that was not found counts as lost.
handleCommitFailedLost(s, c) ==
    IF s.CommitMessage # 0 /\ Status(c, s.CommitMessage) = "pending"
    THEN Sends("SectorRetryComputeProof")
    ELSE Stops

\* Mutant of handleCommitFailed: the deals are checked before the message is
\* looked for.
handleCommitFailedHasty(s, c) ==
    IF s.Pieces # 0 /\ c.expired THEN Sends("SectorDealsExpired")
    ELSE IF s.CommitMessage # 0 THEN Sends("SectorRetryCommitWait") ELSE Stops

handleCommitFailed(s, c) ==
    LET next(err) ==
            CASE err = "BadSeed" -> Sends("SectorRetryWaitSeed")
              [] err = "InvalidProof" ->
                    IF s.InvalidProofs > 0 THEN Sends("SectorSealPreCommit1Failed")
                    ELSE Sends("SectorRetryInvalidProof")
              [] err = "NoPrecommit" -> Sends("SectorRetryPreCommit")
              [] err = "InvalidDeals" ->
                    SendsTo("SectorInvalidDealIDs", 0, "CommitFailed")
              [] err = "ExpiredDeals" -> Sends("SectorDealsExpired")
              [] err = "CommitWaitFailed" -> Sends("SectorRetryCommitWait")
              [] err = "ok" -> Sends("SectorRetryComputeProof")
              [] OTHER -> Stops
        recheck == After(checkCommit(s, c, s.Proof), next)
    IN ApiError
       \cup IF s.CommitMessage = 0 THEN recheck
            ELSE Fails("SectorRetryCommitWait")
                 \cup CASE Status(c, s.CommitMessage) \in {"pending", "ok"} ->
                              Sends("SectorRetryCommitWait")
                        [] Status(c, s.CommitMessage) = "gas" ->
                              Sends("SectorRetrySubmitCommit")
                        [] OTHER -> recheck

handleDealsExpired(c) ==
    ApiError \cup IF Committed(c) THEN Stops ELSE Sends("SectorRemove")

\* recoveryPiecesToFix refuses a sector whose IDs are right and whose deals
\* have expired.
handleRecoverDealIDsOrFailWith(s, c, failWith) ==
    ApiError
    \cup IF s.Pieces = c.ids /\ c.expired THEN Stops
         ELSE SendsTo("SectorUpdateDealIDs", IF s.Pieces = 0 THEN 0 ELSE c.ids, "none")
              \cup (IF s.Pieces # 0 THEN Fails(failWith) ELSE {})

-----------------------------------------------------------------------------
\* handleErrors: the replica update's reaction to a failed check of pieces.
handleErrors(err) ==
    CASE err = "InvalidDeals" -> Sends("SectorInvalidDealIDs")
      [] err = "ExpiredDeals" -> Sends("SectorDealsExpired")
      [] OTHER -> Stops

handleReplicaUpdate(s, c) ==
    LET next(err) == IF err # "ok" THEN handleErrors(err)
                     ELSE Sends("SectorReplicaUpdate") \cup Fails("SectorUpdateReplicaFailed")
    IN IF s.Pieces = 0 THEN Sends("SectorAbortUpgrade")
       ELSE After(checkPieces(s, c, TRUE), next)

handleProveReplicaUpdate(s, c) ==
    LET next(err) == IF err # "ok" THEN handleErrors(err) ELSE Sends("SectorProveReplicaUpdate")
    IN CASE ~s.UpdateSealed \/ s.CommR = 0 -> Stops
         [] s.UpdateSealed /\ s.CommR # 0 /\ ~c.active -> Sends("SectorAbortUpgrade") \cup ApiError
         [] OTHER -> ApiError \cup Fails("SectorProveReplicaUpdateFailed")
                     \cup After(checkPieces(s, c, TRUE), next)

\* The sector's deadline is immutable while it is open or next.
handleSubmitReplicaUpdate(s, c) ==
    LET next(err) ==
            CASE err # "ok" -> Sends("SectorSubmitReplicaUpdateFailed")
              [] err = "ok" /\ ~Committed(c) -> Stops
              [] OTHER -> Pushes(c, "update", "SectorReplicaUpdateSubmitted")
                          \cup Fails("SectorSubmitReplicaUpdateFailed")
                          \cup Fails("SectorDeadlineImmutable")
    IN ApiError \cup After(checkReplicaUpdate(s, c), next)

handleWaitMutable == Sends("SectorDeadlineMutable") \cup ApiError

\* The replica the chain has is the one of the update that landed.
handleReplicaUpdateWait(s, c) ==
    IF s.ReplicaUpdateMessage = 0 THEN Sends("SectorSubmitReplicaUpdateFailed")
    ELSE Fails("SectorSubmitReplicaUpdateFailed")
         \cup CASE Status(c, s.ReplicaUpdateMessage) = "ok" ->
                      Sends("SectorReplicaUpdateLanded")
                [] Status(c, s.ReplicaUpdateMessage) \in {"gas", "funds", "fail"} ->
                      Sends("SectorSubmitReplicaUpdateFailed")
                [] OTHER -> {}

handleFinalizeReplicaUpdate ==
    Sends("SectorFinalized") \cup Fails("SectorFinalizeFailed") \cup ApiError

handleReleaseSectorKey ==
    Sends("SectorKeyReleased") \cup Fails("SectorReleaseKeyFailed")

handleSubmitReplicaUpdateFailed(s, c) ==
    LET next(err) ==
            CASE err = "BadRU" -> Sends("SectorRetryReplicaUpdate")
              [] err = "BadPR" -> Sends("SectorRetryProveReplicaUpdate")
              [] err \in {"InvalidDeals", "ExpiredDeals"} -> handleErrors(err)
              [] err = "ok" /\ c.active -> Sends("SectorRetrySubmitReplicaUpdate") \cup ApiError
              [] err = "ok" /\ ~c.active -> Sends("SectorAbortUpgrade") \cup ApiError
              [] OTHER -> Stops
        recheck == ApiError \cup After(checkReplicaUpdate(s, c), next)
    IN IF s.ReplicaUpdateMessage = 0 THEN recheck
       ELSE Fails("SectorRetrySubmitReplicaUpdateWait")
            \cup CASE Status(c, s.ReplicaUpdateMessage) \in {"pending", "ok"} ->
                         Sends("SectorRetrySubmitReplicaUpdateWait")
                   [] Status(c, s.ReplicaUpdateMessage) = "gas" ->
                         Sends("SectorRetrySubmitReplicaUpdate")
                   [] OTHER -> recheck

\* Releases the files of the update.
handleAbortUpgrade(s) ==
    IF s.CCUpdate THEN Sends("SectorRevertUpgradeToProving") \cup ApiError ELSE Stops

handleDealsExpiredSnapDeals(s) ==
    IF s.CCUpdate THEN Sends("SectorAbortUpgrade") ELSE Stops

-----------------------------------------------------------------------------
\* The chain knows a terminated sector until its partition is compacted.
handleTerminating(c) ==
    Fails("SectorTerminateFailed")
    \cup CASE Committed(c) -> Pushes(c, "terminate", "SectorTerminating")
           [] c.si = "terminated" -> Sends("SectorTerminating") \cup Sends("SectorRemove")
           [] c.si = "none" /\ c.pci # NoPci -> Sends("SectorTerminateFailed")
           [] OTHER -> Sends("SectorRemove")

handleTerminateWait(s, c) ==
    Fails("SectorTerminateFailed")
    \cup IF s.TerminateMessage = 0 THEN Sends("SectorTerminated")
         ELSE CASE Status(c, s.TerminateMessage) = "ok" -> Sends("SectorTerminated")
                [] Status(c, s.TerminateMessage) \in {"gas", "funds", "fail"} ->
                      Sends("SectorTerminateFailed")
                [] OTHER -> {}

handleTerminateFinality == Sends("SectorRemove") \cup Fails("SectorTerminateFailed")

handleTerminateFailed(c) ==
    IF c.pci # NoPci THEN Stops \cup Fails("SectorTerminate") ELSE Sends("SectorTerminate")

handleRemoving == Sends("SectorRemoved") \cup Fails("SectorRemoveFailed")

-----------------------------------------------------------------------------
\* The states whose handlers also use the memory of the process or wait for
\* a height of the chain; they are actions of the state machine.
InputStates ==
    {"WaitDeals", "SnapDealsWaitDeals", "AddPiece", "SnapDealsAddPiece", "Packing",
     "SnapDealsPacking", "AbortUpgrade", "Proving", "Available", "WaitSeed",
     "UpdateActivating"}

\* plan's choice of the handler: after failures, and of a sector that ends.
FailureHandler(s, c) ==
    CASE s.State \in {"AddPieceFailed", "SnapDealsAddPieceFailed"} ->
            Sends("SectorRetryWaitDeals")
      [] s.State = "SealPreCommit1Failed" -> handleSealPrecommit1Failed(s)
      [] s.State = "SealPreCommit2Failed" -> handleSealPrecommit2Failed(s)
      [] s.State = "PreCommitFailed" -> handlePreCommitFailed(s, c)
      [] s.State = "ComputeProofFailed" -> handleComputeProofFailed(s)
      [] s.State = "RemoteCommitFailed" -> Sends("SectorRetryComputeProof")
      [] s.State = "CommitFailed" -> handleCommitFailed(s, c)
      [] s.State \in {"FinalizeFailed", "CommitFinalizeFailed",
                      "FinalizeReplicaUpdateFailed"} -> Sends("SectorRetryFinalize")
      [] s.State = "DealsExpired" -> handleDealsExpired(c)
      [] s.State = "RecoverDealIDs" ->
            handleRecoverDealIDsOrFailWith(s, c, "SectorRemove")
      [] s.State = "SnapDealsDealsExpired" -> handleDealsExpiredSnapDeals(s)
      [] s.State = "SnapDealsRecoverDealIDs" ->
            handleRecoverDealIDsOrFailWith(s, c, "SectorAbortUpgrade")
      [] s.State = "ReplicaUpdateFailed" -> handleSubmitReplicaUpdateFailed(s, c)
      [] s.State = "ReleaseSectorKeyFailed" -> Sends("SectorUpdateActive")
      [] s.State = "Terminating" -> handleTerminating(c)
      [] s.State = "TerminateWait" -> handleTerminateWait(s, c)
      [] s.State = "TerminateFinality" -> handleTerminateFinality
      [] s.State = "TerminateFailed" -> handleTerminateFailed(c)
      [] s.State = "Removing" -> handleRemoving
      [] s.State = "RemoveFailed" -> Sends("SectorRemove")
      [] OTHER -> Stops

\* Otherwise.
Handler(s, c) ==
    CASE s.State = "ReceiveSector" -> Sends("SectorReceived") \cup ApiError
      [] s.State = "GetTicket" -> handleGetTicket(s, c)
      [] s.State = "PreCommit1" -> handlePreCommit1(s, c)
      [] s.State = "PreCommit2" -> handlePreCommit2
      [] s.State = "PreCommitting" -> Sends("SectorPreCommitBatch")
      [] s.State = "SubmitPreCommitBatch" -> handleSubmitPreCommitBatch(s, c)
      [] s.State \in {"PreCommitBatchWait", "PreCommitWait"} -> handlePreCommitWait(s, c)
      [] s.State = "Committing" -> handleCommitting(s, c)
      [] s.State \in {"CommitFinalize", "FinalizeSector"} -> handleFinalizeSector(s)
      [] s.State = "SubmitCommit" -> handleSubmitCommit(s, c)
      [] s.State = "SubmitCommitAggregate" -> handleSubmitCommitAggregate(s, c)
      [] s.State \in {"CommitWait", "CommitAggregateWait"} -> handleCommitWait(s, c)
      [] s.State = "UpdateReplica" -> handleReplicaUpdate(s, c)
      [] s.State = "ProveReplicaUpdate" -> handleProveReplicaUpdate(s, c)
      [] s.State = "FinalizeReplicaUpdate" -> handleFinalizeReplicaUpdate
      [] s.State = "SubmitReplicaUpdate" -> handleSubmitReplicaUpdate(s, c)
      [] s.State = "WaitMutable" -> handleWaitMutable
      [] s.State = "ReplicaUpdateWait" -> handleReplicaUpdateWait(s, c)
      [] s.State = "ReleaseSectorKey" -> handleReleaseSectorKey
      [] OTHER -> FailureHandler(s, c)

=============================================================================
