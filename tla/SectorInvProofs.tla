-------------------------- MODULE SectorInvProofs ---------------------------
(***************************************************************************)
(* The inductive invariants of the sealing state machine. A step has one   *)
(* of a few forms (StepForm): nothing that matters here changes, the chain *)
(* moves, an event is added to the queue, a handler answers, or a queue is *)
(* planned. Each lemma ...InvStep shows that every step of such a form     *)
(* keeps an invariant; SectorFsmProofs shows that the machine's steps have *)
(* these forms and draws the conclusions.                                  *)
(***************************************************************************)
EXTENDS SectorRelations, TLAPS

-----------------------------------------------------------------------------
(* The planners' tables, and the sets of states and events the invariants  *)
(* tell apart.                                                             *)

(* The events from elsewhere.                                              *)
OutsideNames ==
    {"SectorStartPacking", "SectorAddPiece", "SectorAbortUpgrade", "SectorStartCCUpdate",
     "SectorSeedReady", "SectorChainPreCommitFailed", "SectorUpdateActive", "SectorTerminate",
     "SectorRemove"}

Own(x) ==
    CASE x = "GetTicket" -> {"SectorTicket", "SectorCommitFailed"}
      [] x = "PreCommit1" ->
            {"SectorPreCommit1", "SectorSealPreCommit1Failed", "SectorDealsExpired",
             "SectorInvalidDealIDs", "SectorOldTicket"}
      [] x \in {"SealPreCommit1Failed", "SealPreCommit2Failed"} ->
            {"SectorRetrySealPreCommit1", "SectorRetrySealPreCommit2"}
      [] x = "RecoverDealIDs" -> {"SectorUpdateDealIDs"}
      [] OTHER -> {}

Owners == {"GetTicket", "PreCommit1", "SealPreCommit1Failed", "SealPreCommit2Failed", "RecoverDealIDs"}

HasReplica == {"PreCommitting", "PreCommitFailed", "CommitFailed"}

Quitters == {"GetTicket", "SealPreCommit1Failed", "RecoverDealIDs", "DealsExpired"}

WaitsDeals == {"WaitDeals", "SnapDealsWaitDeals"}

Filling ==
    WaitsDeals \cup {"AddPiece", "AddPieceFailed", "SnapDealsAddPiece", "SnapDealsAddPieceFailed"}

(* The states whose handlers answer assigned pieces.                       *)
Drops == {"Packing", "SnapDealsPacking", "AbortUpgrade"}

(* What moves a sector on that has, or may have, a piece to add.           *)
Awaits(x) ==
    CASE x \in WaitsDeals -> {"SectorAddPiece"}
      [] x \in {"AddPiece", "SnapDealsAddPiece"} -> {"SectorPieceAdded", "SectorAddPieceFailed"}
      [] x \in {"AddPieceFailed", "SnapDealsAddPieceFailed"} -> {"SectorRetryWaitDeals"}
      [] OTHER -> {}

(* The two planners that return write nothing else that the proofs are     *)
(* about (ReceiveSector, RecoverDealIDs).                                  *)
LEMMA ReturningRows ==
    ASSUME NEW x, NEW e, <<x, e, "Return">> \in Planners
    PROVE  \/ x = "ReceiveSector" /\ e = "SectorReceived"
           \/ x = "RecoverDealIDs" /\ e = "SectorUpdateDealIDs"
BY DEF Planners, SealingPlanners, SnapPlanners, FailurePlanners, SnapFailurePlanners,
       Planner, PreCommitFailures, PreCommitWaits, CommitWaits, UpdateFailures, Abortable

(* A planner leads to a state (fsmPlanners).                               *)
LEMMA MovesToState ==
    ASSUME NEW x, NEW e, NEW y, <<x, e, y>> \in Planners, y # "Return"
    PROVE  x \in States /\ y \in States
BY DEF Planners, SealingPlanners, SnapPlanners, FailurePlanners, SnapFailurePlanners,
       Planner, PreCommitFailures, PreCommitWaits, CommitWaits, UpdateFailures, Abortable,
       States, SealingStates, SnapStates, FailureStates, EndStates

(* The states of a live sector are reached by an event that says the chain *)
(* has it (planners of fsm.go).                                            *)
LEMMA LiveRows ==
    ASSUME NEW x, NEW e, NEW y, <<x, e, y>> \in Planners
    PROVE  /\ y \in Live => x \in Live \/ e = "SectorProving"
           /\ y \in {"UpdateActivating", "ReleaseSectorKey", "ReleaseSectorKeyFailed"} =>
                 \/ x \in {"UpdateActivating", "ReleaseSectorKey", "ReleaseSectorKeyFailed"}
                 \/ e = "SectorReplicaUpdateLanded"
BY SMTT(30) DEF Planners, SealingPlanners, SnapPlanners, FailurePlanners, SnapFailurePlanners,
       Planner, PreCommitFailures, PreCommitWaits, CommitWaits, UpdateFailures, Abortable,
       Live, SnapStates

(* The events that lead to the states that wait, upgrade or return         *)
(* (planners of fsm.go).                                                   *)
LEMMA ReadyRows ==
    ASSUME NEW x, NEW e, NEW y, <<x, e, y>> \in Planners
    PROVE  /\ y \in {"PreCommitBatchWait", "PreCommitWait"} =>
                 e \in {"SectorPreCommitBatchSent", "SectorRetryPreCommitWait"}
           /\ y \in {"CommitWait", "CommitAggregateWait"} =>
                 e \in {"SectorCommitSubmitted", "SectorCommitAggregateSent", "SectorRetryCommitWait"}
           /\ y = "ReceiveSector" => e = "SectorReceive"
           /\ y = "RecoverDealIDs" => e = "SectorInvalidDealIDs" /\ x \notin Late
BY DEF Planners, SealingPlanners, SnapPlanners, FailurePlanners, SnapFailurePlanners,
       Planner, PreCommitFailures, PreCommitWaits, CommitWaits, UpdateFailures, Abortable,
       Late, Live, SnapStates, EndStates

(* An upgrade begins with an event of its own and ends with another.       *)
LEMMA UpgradeRows ==
    ASSUME NEW x, NEW e, NEW y, <<x, e, y>> \in Planners
    PROVE  /\ y \in SnapStates =>
                 (x \in SnapStates /\ e # "SectorRevertUpgradeToProving") \/ e = "SectorStartCCUpdate"
           /\ e = "SectorRevertUpgradeToProving" => x = "AbortUpgrade" /\ y = "Proving"
BY DEF Planners, SealingPlanners, SnapPlanners, FailurePlanners, SnapFailurePlanners,
       Planner, PreCommitFailures, PreCommitWaits, CommitWaits, UpdateFailures, Abortable,
       SnapStates

(* A sector that is live or given up stays so.                             *)
LEMMA LateRows ==
    ASSUME NEW x, NEW e, NEW y, <<x, e, y>> \in Planners
    PROVE  /\ x \in Late => y \in Late
           /\ x \in EndStates => y \in EndStates
BY DEF Planners, SealingPlanners, SnapPlanners, FailurePlanners, SnapFailurePlanners,
       Planner, PreCommitFailures, PreCommitWaits, CommitWaits, UpdateFailures, Abortable,
       Late, Live, SnapStates, EndStates

(* Where planCommitting and a return lead to.                              *)
LEMMA OtherMoves ==
    /\ \A m \in CommittingMoves :
          /\ m[2] \notin {"PreCommitBatchWait", "PreCommitWait", "CommitAggregateWait",
                          "ReceiveSector", "RecoverDealIDs"} \cup SnapStates
          /\ m[2] = "CommitWait" => m[1] = "SectorRetryCommitWait"
    /\ Returns \cap ({"PreCommitBatchWait", "PreCommitWait", "CommitWait", "CommitAggregateWait",
                      "ReceiveSector", "RecoverDealIDs"} \cup SnapStates) = {}
    /\ {"Terminating", "Removing"} \subseteq EndStates \cap Late
    /\ EndStates \cap ({"PreCommitBatchWait", "PreCommitWait", "CommitWait", "CommitAggregateWait",
                        "ReceiveSector", "RecoverDealIDs"} \cup SnapStates) = {}
    /\ {"Committing", "ReceiveSector", "RecoverDealIDs"} \cap Late = {}
BY DEF CommittingMoves, SnapStates, Returns, EndStates, Late, Live

(* How an upgrade's states are reached and left (planners of fsm.go).      *)
LEMMA UpdateRows ==
    ASSUME NEW x, NEW e, NEW y, <<x, e, y>> \in Planners
    PROVE  /\ y \in UpdateWaits =>
                 \/ x \in UpdateWaits
                 \/ e \in {"SectorReplicaUpdateSubmitted", "SectorRetrySubmitReplicaUpdateWait"}
           /\ y = "AbortUpgrade" => x \notin {"AbortUpgrade", "Proving"} \cup EndStates
           /\ y = "Proving" => \/ x = "AbortUpgrade" /\ e = "SectorRevertUpgradeToProving"
                               \/ x \notin {"AbortUpgrade", "Proving"} \cup EndStates
           /\ x = "Proving" => e = "SectorMarkForUpdate"
           /\ x = "AbortUpgrade" => e = "SectorRevertUpgradeToProving"
BY DEF Planners, SealingPlanners, SnapPlanners, FailurePlanners, SnapFailurePlanners,
       Planner, PreCommitFailures, PreCommitWaits, CommitWaits, UpdateFailures, Abortable,
       UpdateWaits, EndStates

(* Neither planCommitting nor a return leads into an upgrade.              *)
LEMMA NoUpdateMoves ==
    /\ \A m \in CommittingMoves : m[2] \notin UpdateWaits \cup {"AbortUpgrade", "Proving"}
    /\ Returns \cap (UpdateWaits \cup {"AbortUpgrade", "Proving"}) = {}
    /\ {"Terminating", "Removing"} \subseteq EndStates
    /\ EndStates \cap (UpdateWaits \cup {"AbortUpgrade", "Proving"}) = {}
    /\ "Committing" \notin EndStates \cup UpdateWaits
    /\ {"ReceiveSector", "RecoverDealIDs"} \cap (EndStates \cup UpdateWaits) = {}
BY DEF CommittingMoves, UpdateWaits, Returns, EndStates

(* The events of the five handlers are not those from elsewhere.           *)
LEMMA OwnEvents ==
    /\ \A x : Own(x) \cap OutsideNames = {}
    /\ \A x : x \notin Owners => Own(x) = {}
    /\ Owners \cap Late = {} /\ Owners \cap Early = {} /\ EndStates \subseteq Late
BY Zenon DEF Own, OutsideNames, Owners, Late, Live, SnapStates, EndStates, Early

(* The planners of the five states know only their handlers' events        *)
(* (planners of fsm.go).                                                   *)
LEMMA OwnRows ==
    ASSUME NEW x, NEW e, NEW y, <<x, e, y>> \in Planners
    PROVE  x \in Owners => e \in Own(x)
BY DEF Planners, SealingPlanners, SnapPlanners, FailurePlanners, SnapFailurePlanners,
       Planner, PreCommitFailures, PreCommitWaits, CommitWaits, UpdateFailures, Abortable,
       Own, Owners

(* How the five states are reached from others, and the first states left  *)
(* (planners of fsm.go).                                                   *)
LEMMA OwnersReached ==
    ASSUME NEW x, NEW e, NEW y, <<x, e, y>> \in Planners
    PROVE  /\ y \in Owners => \/ x \in Owners
                              \/ y = "GetTicket" /\ x \in Early
                              \/ y \in {"SealPreCommit1Failed", "SealPreCommit2Failed"} /\ x \notin Late
                              \/ y = "RecoverDealIDs" /\ x \notin Late
           /\ y \in Early => x \in Early
BY DEF Planners, SealingPlanners, SnapPlanners, FailurePlanners, SnapFailurePlanners,
       Planner, PreCommitFailures, PreCommitWaits, CommitWaits, UpdateFailures, Abortable,
       Owners, Early, Late, Live, SnapStates, EndStates

(* Where planCommitting and a return lead to.                              *)
LEMMA OwnMoves ==
    /\ \A m \in CommittingMoves : m[2] \notin Early /\ (m[2] \in Owners => m[2] = "SealPreCommit1Failed")
    /\ Returns \cap Owners = {"GetTicket", "PreCommit1"}
    /\ {"Packing", "GetTicket", "PreCommitting"} \cap Owners = {"GetTicket"}
    /\ {"PreCommit1", "PreCommitting", "PreCommitFailed", "CommitFailed"} \cap Early = {}
    /\ {"Terminating", "Removing"} \subseteq EndStates
    /\ EndStates \cap Early = {}
    /\ "ReceiveSector" \in Early /\ "RecoverDealIDs" \in Owners
    /\ "Committing" \notin Owners \cup Late \cup Early
BY DEF CommittingMoves, Owners, Returns, EndStates, Early, Late, Live, SnapStates

(* How the states of sealing are reached, and who writes what the proofs   *)
(* are about (planners of fsm.go).                                         *)
LEMMA ReplicaRows ==
    ASSUME NEW x, NEW e, NEW y, <<x, e, y>> \in Planners
    PROVE  /\ e = "SectorReceive" => x = "Undefined"
           /\ e = "SectorTicket" => x = "GetTicket"
           /\ e = "SectorPreCommit2" => x = "PreCommit2"
           /\ e \in {"SectorCommitSubmitted", "SectorCommitAggregateSent"} => x \in Sealed
           /\ y # "Undefined"
           /\ y = "GetTicket" => x \in Early \/ (x = "PreCommit1" /\ e = "SectorOldTicket")
           /\ y \in {"PreCommit2", "SealPreCommit2Failed"} =>
                 \/ x \in {"PreCommit2", "SealPreCommit2Failed"}
                 \/ x = "PreCommit1" /\ e = "SectorPreCommit1"
           /\ y \in Sealed => \/ x \in Sealed \/ e = "SectorPreCommit2"
                              \/ x = "GetTicket" /\ e = "SectorCommitFailed"
BY DEF Planners, SealingPlanners, SnapPlanners, FailurePlanners, SnapFailurePlanners,
       Planner, PreCommitFailures, PreCommitWaits, CommitWaits, UpdateFailures, Abortable,
       Early, Sealed

(* What the states that give up have in common.                            *)
LEMMA QuitStates ==
    /\ Quitters \subseteq Owners \cup {"DealsExpired"}
    /\ Quitters \cap Late = {} /\ Quitters \cap EndStates = {}
    /\ Quitters \cap {"Committing", "Removing", "AbortUpgrade", "ReleaseSectorKeyFailed", "Proving"} = {}
    /\ {"Terminating", "Removing", "TerminateFailed"} \subseteq EndStates
    /\ \A x : "SectorRemove" \notin Own(x)
    /\ {"SectorRemove", "SectorTerminate"} \cap {"SectorRestart", "SectorStart", "SectorStartCC",
                                                 "SectorReceive", "SectorMarkForUpdate"} = {}
BY Zenon DEF Quitters, Owners, Late, Live, SnapStates, EndStates, Own

(* No planner has a row for a sector whose deals expired.                  *)
LEMMA ExpiredRows ==
    ASSUME NEW x, NEW e, NEW y, <<x, e, y>> \in Planners
    PROVE  x # "DealsExpired"
BY SMTT(30) DEF Planners, SealingPlanners, SnapPlanners, FailurePlanners, SnapFailurePlanners, Planner,
   PreCommitFailures, PreCommitWaits, CommitWaits, UpdateFailures, Abortable

(* The states that add pieces are none of those with other planners.       *)
LEMMA FillingStates ==
    /\ Filling \cap {"Committing", "Removing", "Removed", "AbortUpgrade", "Undefined",
                     "ReleaseSectorKeyFailed", "ReceiveSector", "RecoverDealIDs"} = {}
    /\ Drops \cap {"Undefined", "Removed"} = {} /\ Filling \cap Drops = {}
    /\ Filling \cap (EndStates \cup Quitters) = {} /\ Returns \cap Filling = {}
    /\ {"Terminating", "Removing"} \cap Filling = {}
    /\ \A m \in CommittingMoves : m[2] \notin Filling
    /\ {"Proving", "Available", "WaitSeed", "UpdateActivating"} \cap (Filling \cup Drops) = {}
BY DEF Filling, WaitsDeals, Drops, EndStates, Quitters, Returns, CommittingMoves

(* The rows of the states that add pieces, and the rows that lead there.   *)
LEMMA FillingRows ==
    ASSUME NEW x, NEW e, NEW y, <<x, e, y>> \in Planners
    PROVE  /\ x \in Filling => y \in Filling \cup Drops
           /\ x \in {"Removing", "AbortUpgrade"} => y \notin Filling
BY SMTT(30) DEF Planners, SealingPlanners, SnapPlanners, FailurePlanners, SnapFailurePlanners, Planner,
   PreCommitFailures, PreCommitWaits, CommitWaits, UpdateFailures, Abortable, Filling, WaitsDeals, Drops

(* The planners know the events that go on with a piece, and do not pass   *)
(* over them.                                                              *)
LEMMA AwaitedRows ==
    ASSUME NEW x, NEW e \in Awaits(x)
    PROVE  /\ \E y : y # "Return" /\ <<x, e, y>> \in Planners
           /\ e \notin AppliedIn(x) /\ e # "SectorStartPacking"
<1>1. \/ x = "WaitDeals" /\ e = "SectorAddPiece"
      \/ x = "SnapDealsWaitDeals" /\ e = "SectorAddPiece"
      \/ x = "AddPiece" /\ e \in {"SectorPieceAdded", "SectorAddPieceFailed"}
      \/ x = "SnapDealsAddPiece" /\ e \in {"SectorPieceAdded", "SectorAddPieceFailed"}
      \/ x = "AddPieceFailed" /\ e = "SectorRetryWaitDeals"
      \/ x = "SnapDealsAddPieceFailed" /\ e = "SectorRetryWaitDeals"
    BY Zenon DEF Awaits, WaitsDeals
<1>2. /\ <<"WaitDeals", "SectorAddPiece", "AddPiece">> \in SealingPlanners
      /\ <<"AddPiece", "SectorPieceAdded", "WaitDeals">> \in SealingPlanners
      /\ <<"AddPiece", "SectorAddPieceFailed", "AddPieceFailed">> \in SealingPlanners
    BY DEF SealingPlanners, Planner
<1>3. /\ <<"SnapDealsWaitDeals", "SectorAddPiece", "SnapDealsAddPiece">> \in SnapPlanners
      /\ <<"SnapDealsAddPiece", "SectorPieceAdded", "SnapDealsWaitDeals">> \in SnapPlanners
      /\ <<"SnapDealsAddPiece", "SectorAddPieceFailed", "SnapDealsAddPieceFailed">> \in SnapPlanners
    BY SMTT(30) DEF SnapPlanners, Planner, Abortable
<1>4. /\ <<"AddPieceFailed", "SectorRetryWaitDeals", "WaitDeals">> \in FailurePlanners
      /\ <<"SnapDealsAddPieceFailed", "SectorRetryWaitDeals", "SnapDealsWaitDeals">> \in SnapFailurePlanners
    BY SMTT(30) DEF FailurePlanners, SnapFailurePlanners, Planner, Abortable
<1>5. \E y : y # "Return" /\ <<x, e, y>> \in Planners
    BY Zenon, <1>1, <1>2, <1>3, <1>4 DEF Planners
<1> QED
    BY Zenon, <1>1, <1>5 DEF AppliedIn

-----------------------------------------------------------------------------
(* The chain.                                                              *)

(* Tickets are compared as numbers.                                        *)
LEMMA ChainNumbers ==
    ASSUME NEW c \in ChainInfo
    PROVE  /\ c.era \in 1 .. 2 /\ Len(c.msgs) \in Nat
           /\ \A i \in 1 .. Len(c.msgs) : c.msgs[i].arg[1] \in 0 .. 2
<1>1. c.era \in 1 .. 2 /\ c.msgs \in Seq(MessageInfo) /\ Len(c.msgs) \in Nat
    BY DEF ChainInfo, MessageInfo
<1>2. ASSUME NEW i \in 1 .. Len(c.msgs) PROVE c.msgs[i].arg[1] \in 0 .. 2
    <2>1. c.msgs[i] \in MessageInfo
        BY <1>1
    <2> QED
        BY Zenon, <2>1 DEF MessageInfo
<1> QED
    BY Zenon, <1>1, <1>2

(* The chain only grows.                                                   *)
LEMMA ChainGrows ==
    ASSUME Typed, Sent \/ ChainSteps
    PROVE  chain' \in ChainInfo /\ Len(chain.msgs) \in Nat /\ Len(chain'.msgs) \in Nat
               /\ Len(chain.msgs) <= Len(chain'.msgs)
<1>0. chain \in ChainInfo /\ Len(chain.msgs) \in Nat
    BY Zenon, ChainNumbers DEF Typed
<1>1. CASE UNCHANGED chain
    BY <1>0, <1>1
<1>2. ASSUME NEW kind, Appends(chain, chain', kind)
      PROVE  chain' \in ChainInfo /\ Len(chain.msgs) <= Len(chain'.msgs)
    BY <1>0, <1>2 DEF Appends
<1>3. CASE Elapses(chain, chain')
    BY <1>0, <1>3 DEF Elapses
<1>4. ASSUME NEW i, NEW st, Executes(chain, chain', i, st)
      PROVE  chain' \in ChainInfo /\ Len(chain.msgs) <= Len(chain'.msgs)
    BY <1>0, <1>4 DEF Executes, SameMessages
<1>5. chain' \in ChainInfo /\ Len(chain.msgs) <= Len(chain'.msgs)
    BY Zenon, <1>1, <1>2, <1>3, <1>4 DEF Sent, ChainSteps
<1>6. Len(chain'.msgs) \in Nat
    BY Zenon, <1>5, ChainNumbers
<1> QED
    BY Zenon, <1>0, <1>5, <1>6

-----------------------------------------------------------------------------
(* The chain has what the machine counts on (ChainBacked).                 *)

(* One of the events that were planned moved the sector, or none did.      *)
Goes(s, ev, t) ==
    \/ Moved(s, ev, t) \/ Stayed(s, ev, t)
    \/ s.State = "Committing" /\ Unwritten(s, t) /\ <<ev.e, t.State>> \in CommittingMoves

Rests(s, t) == t.State = s.State /\ Unwritten(s, t)

(* The v-th message has the kind.                                          *)
IsMessage(c, v, kind) == v \in 1 .. Len(c.msgs) /\ c.msgs[v].kind = kind

(* A precommit is of a sector the chain does not have; the chain has what  *)
(* its messages did.                                                       *)
Ledger(c) ==
    /\ ~c.alloc => c.si = "none" /\ c.pci = NoPci
    /\ c.pci # NoPci => c.si = "none"
    /\ \A i \in 1 .. Len(c.msgs) : c.msgs[i].st = "ok" =>
          /\ c.msgs[i].kind = "commit" => c.si # "none"
          /\ c.msgs[i].kind = "update" => c.si \in {"updated", "terminated"}

(* The chain has the sector that counts as proving or is upgraded, and the *)
(* messages the sector recorded.                                           *)
Backed(s, c) ==
    /\ s.State \in Live => c.si # "none"
    /\ s.State \in {"UpdateActivating", "ReleaseSectorKey", "ReleaseSectorKeyFailed"} =>
          c.si \in {"updated", "terminated"}
    /\ s.PreCommitMessage # 0 => IsMessage(c, s.PreCommitMessage, "precommit")
    /\ s.CommitMessage # 0 => IsMessage(c, s.CommitMessage, "commit")
    /\ s.ReplicaUpdateMessage # 0 => IsMessage(c, s.ReplicaUpdateMessage, "update")

(* What an event in the queue says of the chain is so.                     *)
Told(ev, c) ==
    /\ ev.e = "SectorProving" => c.si # "none"
    /\ ev.e = "SectorReplicaUpdateLanded" => c.si \in {"updated", "terminated"}
    /\ ev.e = "SectorPreCommitBatchSent" => IsMessage(c, ev.v, "precommit")
    /\ ev.e \in {"SectorCommitSubmitted", "SectorCommitAggregateSent"} =>
          IsMessage(c, ev.v, "commit")
    /\ ev.e = "SectorReplicaUpdateSubmitted" => IsMessage(c, ev.v, "update")

(* What the chain has it keeps.                                            *)
Later(c, d) ==
    /\ c.si # "none" => d.si # "none"
    /\ c.si \in {"updated", "terminated"} => d.si \in {"updated", "terminated"}
    /\ \A v, kind : IsMessage(c, v, kind) => IsMessage(d, v, kind)

ChainInv ==
    /\ Ledger(chain) /\ Backed(sec, chain)
    /\ \A j \in 1 .. Len(pending) : Told(pending[j], chain)

Arrives(ev) ==
    \/ ev.e \in OutsideNames \/ ev.e = "SectorRestart"
    \/ ev.e = "SectorMarkForUpdate" /\ sec.State = "Proving"
    \/ Creates(ev, sec)

(* An event that joins the queue or is planned at once comes from          *)
(* elsewhere.                                                              *)
LEMMA OutsideArrives ==
    ASSUME NEW ev, NEW a,
           Outside(ev, sec, a) \/ Creates(ev, sec) \/ ev.e = "SectorRestart"
    PROVE  Arrives(ev)
BY Zenon DEF Outside, Arrives, OutsideNames

(* What is planned was in the queue or arrives now.                        *)
LEMMA QueuedEvents ==
    ASSUME NEW q, Queued(q), Len(q) \in Nat, NEW i \in 1 .. Len(q)
    PROVE  (q = pending /\ i \in 1 .. Len(pending)) \/ Arrives(q[i])
BY OutsideArrives DEF Queued

(* The sector after planning is what one of the events made of it, and     *)
(* what is left in the queue is what follows.                              *)
LEMMA ReplanEvents ==
    ASSUME Typed, NEW q, NEW p, Replans(q, p)
    PROVE  /\ sec' = p.sec /\ sec' \in SectorInfo /\ Len(q) \in Nat
           /\ PlanOf(sec, q, p) /\ Queued(q) /\ Sent /\ p.n \in 0 .. Len(q)
           /\ Rests(sec, sec') \/ \E i \in 1 .. Len(q) : Goes(sec, q[i], sec')
           /\ \A j \in 1 .. Len(pending') : p.n + j \in 1 .. Len(q) /\ pending'[j] = q[p.n + j]
           /\ stage' \in {"run", "done", "closed"}
           /\ stage' = "run" => ~p.err
\* What plan makes of a queue is what one of its events does.
<1>PlanGoes.
      ASSUME NEW s \in SectorInfo, PlanOf(s, q, p), Len(q) \in Nat
      PROVE  Rests(s, p.sec) \/ \E i \in 1 .. Len(q) : Goes(s, q[i], p.sec)
    <2> USE <1>PlanGoes
    <2>1. CASE s.State = "Committing" /\ FromCommitting(s, q, p)
        <3>1. p.n \in 0 .. Len(q)
            BY Zenon, <2>1 DEF FromCommitting
        <3>2. CASE p.sec.State = "Committing"
            BY SMTT(30), <2>1, <3>2 DEF FromCommitting, Rests
        <3>3. CASE \E j \in 1 .. p.n : <<q[j].e, p.sec.State>> \in CommittingMoves
            BY SMTT(30), <2>1, <3>1, <3>3 DEF FromCommitting, Goes
        <3> QED
            BY Zenon, <2>1, <3>2, <3>3 DEF FromCommitting
    <2>2. CASE Idled(s, q, p)
        BY Zenon, <2>2 DEF Idled, Rests, Unwritten
    <2>3. ASSUME NEW i \in 1 .. Len(q), Took1(s, q, i, p) PROVE Goes(s, q[i], p.sec)
        BY Zenon, <2>3 DEF Took1, Goes
    <2> QED
        BY Zenon, <2>1, <2>2, <2>3 DEF PlanOf
<1>1. /\ sec' = p.sec /\ PlanOf(sec, q, p) /\ Queued(q) /\ Sent /\ Left(q, p.n, pending')
      /\ stage' \in {"run", "done", "closed"}
      /\ stage' = "run" => ~p.err
    BY Zenon DEF Replans, Planning
<1>2. /\ sec' \in SectorInfo /\ q \in Seq(EventInfo) /\ sec \in SectorInfo
      /\ p.n \in 0 .. Len(q)
    BY Zenon, <1>1 DEF PlanOf, Queued, Typed
<1>3. Len(q) \in Nat
    BY <1>2
<1>4. Rests(sec, sec') \/ \E i \in 1 .. Len(q) : Goes(sec, q[i], sec')
    BY Zenon, <1>1, <1>2, <1>3, <1>PlanGoes
<1> QED
    BY Zenon, <1>1, <1>2, <1>3, <1>4 DEF Left

(* What arrives from elsewhere says nothing of the chain.                  *)
LEMMA ArrivesTold ==
    ASSUME NEW ev, Arrives(ev), NEW c
    PROVE  Told(ev, c)
BY Zenon DEF Arrives, OutsideNames, Creates, Told

(* Every step keeps what the machine counts on.                            *)
LEMMA ChainInvStep ==
    ASSUME Typed, ChainInv, StepForm
    PROVE  ChainInv'
\* A message that is executed keeps the ledger (Executed).
<1>ExecutedLedger.
      ASSUME NEW c \in ChainInfo, NEW d, NEW i \in 1 .. Len(c.msgs), NEW st,
             Executes(c, d, i, st), Ledger(c)
      PROVE  Ledger(d) /\ Later(c, d)
    <2> USE <1>ExecutedLedger
    <2> DEFINE m == c.msgs[i]
    <2>0. /\ d \in ChainInfo /\ Len(d.msgs) = Len(c.msgs) /\ d.msgs[i].st = st
          /\ \A j \in 1 .. Len(c.msgs) :
                d.msgs[j].kind = c.msgs[j].kind /\ (j # i => d.msgs[j].st = c.msgs[j].st)
        BY Zenon DEF Executes, SameMessages
    <2>1. \A v, kind : IsMessage(c, v, kind) => IsMessage(d, v, kind)
        BY Zenon, <2>0 DEF IsMessage
    <2>2. CASE st # "ok"
        <3>1. d.alloc = c.alloc /\ d.pci = c.pci /\ d.si = c.si
            BY Zenon, <2>2 DEF Executes, SameLedger
        <3> QED
            BY SMTT(30), <2>0, <2>1, <2>2, <3>1 DEF Ledger, Later
    <2>3. CASE st = "ok"
        <3>1. Effect(c, d, m)
            BY Zenon, <2>3 DEF Executes
        <3>2. CASE m.kind = "precommit"
            <4>1. ~c.alloc /\ d.alloc /\ d.si = c.si
                BY Zenon, <3>1, <3>2 DEF Effect
            <4> QED
                BY Zenon, <2>0, <2>1, <3>2, <4>1 DEF Ledger, Later
        <3>3. CASE m.kind = "commit"
            <4>1. c.pci # NoPci /\ d.alloc = c.alloc /\ d.si = "sealed" /\ d.pci = NoPci
                BY Zenon, <3>1, <3>3 DEF Effect
            <4> QED
                BY Zenon, <2>0, <2>1, <3>3, <4>1 DEF Ledger, Later
        <3>4. CASE m.kind = "update"
            <4>1. c.si = "sealed" /\ d.alloc = c.alloc /\ d.si = "updated" /\ d.pci = c.pci
                BY Zenon, <3>1, <3>4 DEF Effect
            <4> QED
                BY Zenon, <2>0, <2>1, <3>4, <4>1 DEF Ledger, Later
        <3>5. CASE m.kind = "terminate"
            <4>1. c.si \in {"sealed", "updated"} /\ d.alloc = c.alloc /\ d.si = "terminated" /\ d.pci = c.pci
                BY Zenon, <3>1, <3>5 DEF Effect, Committed
            <4> QED
                BY Zenon, <2>0, <2>1, <3>5, <4>1 DEF Ledger, Later
        <3> QED
            BY Zenon, <3>1, <3>2, <3>3, <3>4, <3>5 DEF Effect
    <2> QED
        BY Zenon, <2>2, <2>3
\* Every step of the chain, and every message pushed, keeps the ledger.
<1>LedgerSteps.
      ASSUME Typed, Ledger(chain), Sent \/ ChainSteps
      PROVE  Ledger(chain') /\ Later(chain, chain')
    <2> USE <1>LedgerSteps
    <2>0. chain \in ChainInfo /\ Len(chain.msgs) \in Nat
        BY Zenon, ChainNumbers DEF Typed
    <2>1. CASE UNCHANGED chain
        BY Zenon, <2>1 DEF Later
    <2>2. ASSUME NEW kind, Appends(chain, chain', kind), kind # "none"
          PROVE  Ledger(chain') /\ Later(chain, chain')
        <3> DEFINE m == [kind |-> kind, arg |-> MsgArg(kind), st |-> "pending"]
        <3>2. /\ SameLedger(chain, chain') /\ Len(chain'.msgs) = Len(chain.msgs) + 1
              /\ \A j \in 1 .. Len(chain.msgs) : chain'.msgs[j] = chain.msgs[j]
              /\ chain'.msgs[Len(chain'.msgs)] = m
            BY Zenon, <2>2 DEF Appends
        <3>3. m.st = "pending"
            BY Zenon
        <3> HIDE DEF m
        <3>4. \A v, k : IsMessage(chain, v, k) => IsMessage(chain', v, k)
            BY <2>0, <3>2 DEF IsMessage
        <3>5. ASSUME NEW i \in 1 .. Len(chain'.msgs), chain'.msgs[i].st = "ok"
              PROVE  i \in 1 .. Len(chain.msgs) /\ chain'.msgs[i] = chain.msgs[i]
            BY <2>0, <3>2, <3>3, <3>5
        <3> QED
            BY Zenon, <3>2, <3>4, <3>5 DEF Ledger, Later, SameLedger
    <2>3. ASSUME NEW i, NEW st, i \in 1 .. Len(chain.msgs), Executes(chain, chain', i, st)
          PROVE  Ledger(chain') /\ Later(chain, chain')
        BY Zenon, <2>0, <2>3, <1>ExecutedLedger
    <2>4. CASE Elapses(chain, chain')
        <3>1. chain'.msgs = chain.msgs /\ chain'.alloc = chain.alloc /\ chain'.si = chain.si
            BY Zenon, <2>4 DEF Elapses
        <3>2. chain'.pci # NoPci => chain.pci # NoPci
            BY Zenon, <2>4 DEF Elapses
        <3> QED
            BY Zenon, <3>1, <3>2 DEF Ledger, Later, IsMessage
    <2>5. ASSUME NEW kind, Appends(chain, chain', kind)
          PROVE  Ledger(chain') /\ Later(chain, chain')
        <3>1. kind = "none" => UNCHANGED chain
            BY Zenon, <2>5 DEF Appends
        <3> QED
            BY Zenon, <2>1, <2>2, <2>5, <3>1
    <2> QED
        BY Zenon, <2>1, <2>3, <2>4, <2>5 DEF Sent, ChainSteps
\* A sector that returns is not live.
<1>ReturnsNotLive.
      /\ Returns \cap Live = {} /\ Returns \cap EndStates = {}
      /\ \A m \in CommittingMoves : m[2] \notin Live
      /\ "Terminating" \notin Live /\ "Removing" \notin Live
    BY DEF Returns, Live, SnapStates, EndStates, CommittingMoves
\* An event that tells the truth moves a sector to where the chain has it.
<1>GoesBacked.
      ASSUME NEW s \in SectorInfo, NEW ev, NEW t \in SectorInfo, NEW c,
             Goes(s, ev, t) \/ Rests(s, t), Backed(s, c), Told(ev, c)
      PROVE  Backed(t, c)
    <2> USE <1>GoesBacked
    <2> DEFINE Active == {"UpdateActivating", "ReleaseSectorKey", "ReleaseSectorKeyFailed"}
    <2>0. s.Return \in Returns /\ Active \subseteq Live
        BY Zenon DEF SectorInfo, Live, SnapStates
    <2> HIDE DEF Active
    <2>1. ASSUME Unwritten(s, t), t.State = s.State \/ t.State \notin Live
          PROVE  Backed(t, c)
        BY Zenon, <2>0, <2>1 DEF Unwritten, Backed, Active
    <2>2. CASE <<s.State, ev.e, t.State>> \in Planners /\ Writes(s, ev, t)
        <3>1. /\ t.State \in Live => c.si # "none"
              /\ t.State \in Active => c.si \in {"updated", "terminated"}
            BY <2>2, LiveRows DEF Backed, Told, Active
        <3>2. /\ t.PreCommitMessage # 0 => IsMessage(c, t.PreCommitMessage, "precommit")
              /\ t.CommitMessage # 0 => IsMessage(c, t.CommitMessage, "commit")
              /\ t.ReplicaUpdateMessage # 0 => IsMessage(c, t.ReplicaUpdateMessage, "update")
            BY Zenon, <2>2 DEF Writes, Backed, Told
        <3> QED
            BY Zenon, <3>1, <3>2 DEF Backed, Active
    <2>3. CASE Returned(s, t)
        <3>1. t.State \notin Live
            BY Zenon, <2>0, <2>3, <1>ReturnsNotLive DEF Returned
        <3> QED
            BY Zenon, <2>0, <2>3, <3>1 DEF Returned, Backed, Active
    <2>4. CASE /\ ev.e \in {"SectorTerminate", "SectorRemove"}
               /\ t.State \in {"Terminating", "Removing"} /\ Unwritten(s, t)
        BY Zenon, <2>1, <2>4, <1>ReturnsNotLive
    <2>5. CASE <<ev.e, t.State>> \in CommittingMoves /\ Unwritten(s, t)
        <3>1. t.State \notin Live
            BY Zenon, <2>5, <1>ReturnsNotLive
        <3> QED
            BY Zenon, <2>1, <2>5, <3>1
    <2> QED
        BY Zenon, <2>1, <2>2, <2>3, <2>4, <2>5 DEF Goes, Moved, Stayed, Rests
\* What a handler answers of the chain is so: it looked up the message
\* (handleCommitWait, handleReplicaUpdateWait), or pushed it.
<1>AnswerTold.
      ASSUME Typed, ChainInv, NEW ev, NEW kind,
             Fits(ev, sec, chain, kind), Appends(chain, chain', kind)
      PROVE  Told(ev, chain')
    <2> USE <1>AnswerTold
    <2>0. chain \in ChainInfo /\ Len(chain.msgs) \in Nat /\ Ledger(chain) /\ Backed(sec, chain)
        BY Zenon, ChainNumbers DEF Typed, ChainInv
    <2>1. Later(chain, chain')
        BY Zenon, <2>0, <1>LedgerSteps DEF Sent
    <2>2. Tells(ev, sec, chain) /\ Records(ev, sec, chain, kind)
        BY Zenon DEF Fits
    <2>3. ev.e = "SectorProving" => chain'.si # "none"
        <3> SUFFICES ASSUME ev.e = "SectorProving" PROVE chain'.si # "none"
            BY Zenon
        <3>1. sec.CommitMessage # 0 /\ chain.msgs[sec.CommitMessage].st = "ok"
            BY Zenon, <2>2 DEF Tells, Status
        <3>2. IsMessage(chain, sec.CommitMessage, "commit")
            BY Zenon, <2>0, <3>1 DEF Backed
        <3> QED
            BY Zenon, <2>0, <2>1, <3>1, <3>2 DEF IsMessage, Ledger, Later
    <2>4. ev.e = "SectorReplicaUpdateLanded" => chain'.si \in {"updated", "terminated"}
        <3> SUFFICES ASSUME ev.e = "SectorReplicaUpdateLanded"
                     PROVE  chain'.si \in {"updated", "terminated"}
            BY Zenon
        <3>1. sec.ReplicaUpdateMessage # 0 /\ chain.msgs[sec.ReplicaUpdateMessage].st = "ok"
            BY Zenon, <2>2 DEF Tells, Status
        <3>2. IsMessage(chain, sec.ReplicaUpdateMessage, "update")
            BY Zenon, <2>0, <3>1 DEF Backed
        <3> QED
            BY Zenon, <2>0, <2>1, <3>1, <3>2 DEF IsMessage, Ledger, Later
    <2>5. kind # "none" => IsMessage(chain', ev.v, kind)
        <3> SUFFICES ASSUME kind # "none" PROVE IsMessage(chain', ev.v, kind)
            BY Zenon
        <3>1. kind \in {"none", "precommit", "commit", "update", "terminate"} /\ ev.v = Len(chain.msgs) + 1
            BY Zenon, <2>2 DEF Records
        <3> DEFINE m == [kind |-> kind, arg |-> MsgArg(kind), st |-> "pending"]
        <3>2. Len(chain'.msgs) = Len(chain.msgs) + 1 /\ chain'.msgs[Len(chain'.msgs)] = m
            BY Zenon, <3>1 DEF Appends
        <3>3. m.kind = kind
            BY Zenon
        <3> HIDE DEF m
        <3> QED
            BY <2>0, <3>1, <3>2, <3>3 DEF IsMessage
    <2> QED
        BY Zenon, <2>2, <2>3, <2>4, <2>5 DEF Told, Records
\* The chain keeps what the sector and the events say of it.
<1>LaterBacked.
      ASSUME NEW c, NEW d, Later(c, d)
      PROVE  /\ \A s : Backed(s, c) => Backed(s, d)
             /\ \A ev : Told(ev, c) => Told(ev, d)
    BY Zenon, <1>LaterBacked DEF Later, Backed, Told
<1>0. /\ Ledger(chain) /\ Backed(sec, chain) /\ sec \in SectorInfo
      /\ pending \in Seq(EventInfo) /\ Len(pending) \in Nat
      /\ \A j \in 1 .. Len(pending) : Told(pending[j], chain)
    BY DEF ChainInv, Typed
<1>1. ASSUME Sent \/ ChainSteps
      PROVE  Ledger(chain') /\ Later(chain, chain')
    BY Zenon, <1>0, <1>1, <1>LedgerSteps
<1>2. ASSUME Ledger(chain'), Later(chain, chain'), UNCHANGED <<sec, pending>>
      PROVE  ChainInv'
    BY Zenon, <1>0, <1>2, <1>LaterBacked DEF ChainInv
<1>3. ASSUME Ledger(chain'), Later(chain, chain'), NEW ev \in EventInfo, Told(ev, chain'),
             sec' = sec, pending' = Append(pending, ev)
      PROVE  ChainInv'
    <2>1. \A j \in 1 .. Len(pending) : Told(pending[j], chain')
        BY Zenon, <1>0, <1>3, <1>LaterBacked
    <2>2. Len(pending') = Len(pending) + 1
        BY <1>0, <1>3
    <2>3. ASSUME NEW j \in 1 .. Len(pending') PROVE Told(pending'[j], chain')
        BY <1>0, <1>3, <2>1, <2>2
    <2> QED
        BY Zenon, <1>0, <1>3, <2>3, <1>LaterBacked DEF ChainInv
<1>4. CASE Calm
    BY Zenon, <1>1, <1>2, <1>4 DEF Calm, Sent
<1>5. CASE ChainSteps
    BY Zenon, <1>1, <1>2, <1>5 DEF ChainSteps
<1>6. ASSUME NEW ev, Adds(ev) PROVE ChainInv'
    <2>1. Ledger(chain') /\ Later(chain, chain')
        BY Zenon, <1>1, <1>6 DEF Adds, Sent
    <2>2. Told(ev, chain')
        BY Zenon, <1>6, OutsideArrives, ArrivesTold DEF Adds
    <2> QED
        BY Zenon, <1>3, <1>6, <2>1, <2>2 DEF Adds
<1>7. ASSUME NEW ev, NEW kind, Answers(ev, kind) PROVE ChainInv'
    <2>1. Fits(ev, sec, chain, kind) /\ Appends(chain, chain', kind) /\ ev \in EventInfo
        BY Zenon, <1>7 DEF Answers, Fits
    <2>2. Ledger(chain') /\ Later(chain, chain')
        BY Zenon, <1>1, <2>1 DEF Sent
    <2>3. Told(ev, chain')
        BY Zenon, <2>1, <1>AnswerTold
    <2> QED
        BY Zenon, <1>3, <1>7, <2>1, <2>2, <2>3 DEF Answers
<1>8. ASSUME NEW q, NEW p, Replans(q, p) PROVE ChainInv'
    <2>1. /\ sec' \in SectorInfo /\ Len(q) \in Nat /\ Queued(q) /\ Sent
          /\ Rests(sec, sec') \/ \E i \in 1 .. Len(q) : Goes(sec, q[i], sec')
          /\ \A j \in 1 .. Len(pending') : p.n + j \in 1 .. Len(q) /\ pending'[j] = q[p.n + j]
        BY Zenon, <1>8, ReplanEvents
    <2>2. Ledger(chain') /\ Later(chain, chain')
        BY Zenon, <1>1, <2>1
    <2>3. ASSUME NEW i \in 1 .. Len(q) PROVE Told(q[i], chain)
        BY Zenon, <1>0, <2>1, QueuedEvents, ArrivesTold
    <2>4. Backed(sec', chain)
        <3>1. CASE Rests(sec, sec')
            BY Zenon, <1>0, <3>1 DEF Rests, Unwritten, Backed
        <3>2. ASSUME NEW i \in 1 .. Len(q), Goes(sec, q[i], sec') PROVE Backed(sec', chain)
            BY Zenon, <1>0, <2>1, <2>3, <3>2, <1>GoesBacked
        <3> QED
            BY Zenon, <2>1, <3>1, <3>2
    <2>5. ASSUME NEW j \in 1 .. Len(pending') PROVE Told(pending'[j], chain')
        <3>1. Told(pending'[j], chain)
            BY Zenon, <2>1, <2>3
        <3> QED
            BY Zenon, <2>2, <3>1, <1>LaterBacked
    <2>6. Backed(sec', chain')
        BY Zenon, <2>2, <2>4, <1>LaterBacked
    <2> QED
        BY Zenon, <2>2, <2>5, <2>6 DEF ChainInv
<1> QED
    BY Zenon, <1>4, <1>5, <1>6, <1>7, <1>8 DEF StepForm

-----------------------------------------------------------------------------
(* What the handlers use without asking (HandlersReady): the messages, the *)
(* mark of an upgrade and the state to return to.                          *)

Ready(s) ==
    /\ s.State \in {"PreCommitBatchWait", "PreCommitWait"} => s.PreCommitMessage # 0
    /\ s.State \in {"CommitWait", "CommitAggregateWait"} => s.CommitMessage # 0
    /\ s.State \in SnapStates => s.CCUpdate
    /\ s.State = "ReceiveSector" => s.Return \in {"Packing", "GetTicket", "PreCommitting"}
    /\ s.State = "RecoverDealIDs" =>
          s.Return \in {"PreCommit1", "PreCommitting", "PreCommitFailed", "CommitFailed"}

(* What an event in the queue asks for is there.                           *)
Asks(ev, s) ==
    /\ ev.e = "SectorRetryPreCommitWait" => s.PreCommitMessage # 0
    /\ ev.e = "SectorRetryCommitWait" => s.CommitMessage # 0
    /\ ev.e = "SectorReceive" => ev.r \in {"Packing", "GetTicket", "PreCommitting"}
    /\ ev.e = "SectorInvalidDealIDs" =>
          \/ ev.r \in {"PreCommit1", "PreCommitting", "PreCommitFailed", "CommitFailed"}
          \/ s.State \in Late

ReadyInv == Ready(sec) /\ \A j \in 1 .. Len(pending) : Asks(pending[j], sec)

(* A sector that is live or given up stays so.                             *)
LEMMA GoesLate ==
    ASSUME NEW s, NEW ev, NEW t, Goes(s, ev, t) \/ Rests(s, t)
    PROVE  /\ s.State \in Late => t.State \in Late
           /\ s.State \in EndStates => t.State \in EndStates
<1>1. CASE <<s.State, ev.e, t.State>> \in Planners
    BY Zenon, <1>1, LateRows
<1>2. CASE t.State = s.State
    BY Zenon, <1>2
<1>3. CASE t.State \in {"Terminating", "Removing"}
    BY Zenon, <1>3, OtherMoves
<1>4. CASE <<s.State, ev.e, "Return">> \in Planners
    BY Zenon, <1>4, ReturningRows, OtherMoves DEF Late
<1>5. CASE s.State = "Committing"
    BY Zenon, <1>5, OtherMoves DEF Late
<1> QED
    BY Zenon, <1>1, <1>2, <1>3, <1>4, <1>5 DEF Goes, Rests, Moved, Stayed

(* Every step leaves the handlers ready.                                   *)
LEMMA ReadyInvStep ==
    ASSUME Typed, ChainInv, ReadyInv, StepForm
    PROVE  ReadyInv'
\* What an event in the queue asks for stays there.
<1>GoesAsked.
      ASSUME NEW s, NEW ev, NEW t, NEW c, Goes(s, ev, t) \/ Rests(s, t), Told(ev, c),
             NEW f, Asks(f, s)
      PROVE  Asks(f, t)
    <2> USE <1>GoesAsked
    <2>1. s.State \in Late => t.State \in Late
        BY Zenon, GoesLate
    <2>2. CASE Unwritten(s, t) \/ Returned(s, t)
        BY Zenon, <2>1, <2>2 DEF Unwritten, Returned, Asks
    <2>3. CASE Writes(s, ev, t)
        <3>1. /\ ev.e = "SectorPreCommitBatchSent" => ev.v # 0
              /\ ev.e \in {"SectorCommitSubmitted", "SectorCommitAggregateSent"} => ev.v # 0
            BY DEF Told, IsMessage
        <3> QED
            BY Zenon, <2>1, <2>3, <3>1 DEF Writes, Asks
    <2> QED
        BY Zenon, <2>2, <2>3 DEF Goes, Rests, Moved, Stayed
\* An event that asks for what is there leaves its handler ready.
<1>GoesReady.
      ASSUME NEW s \in SectorInfo, NEW ev, NEW t, NEW c, Goes(s, ev, t) \/ Rests(s, t),
             Told(ev, c), Ready(s), Asks(ev, s)
      PROVE  Ready(t)
    <2> USE <1>GoesReady
    <2>0. s.Return \in Returns /\ s.CCUpdate \in BOOLEAN
        BY Zenon DEF SectorInfo
    <2>1. ASSUME Unwritten(s, t) PROVE t.State = s.State => Ready(t)
        BY Zenon, <2>1 DEF Unwritten, Ready
    <2>2. ASSUME t.State \in EndStates PROVE Ready(t)
        BY Zenon, <2>2, OtherMoves DEF Ready
    <2>3. CASE <<s.State, ev.e, t.State>> \in Planners /\ Writes(s, ev, t)
        <3>1. /\ ev.e = "SectorPreCommitBatchSent" => ev.v # 0
              /\ ev.e \in {"SectorCommitSubmitted", "SectorCommitAggregateSent"} => ev.v # 0
            BY DEF Told, IsMessage
        <3>2. t.State \in {"PreCommitBatchWait", "PreCommitWait"} => t.PreCommitMessage # 0
            BY <2>3, <3>1, ReadyRows DEF Writes, Asks
        <3>3. t.State \in {"CommitWait", "CommitAggregateWait"} => t.CommitMessage # 0
            BY Zenon, <2>3, <3>1, ReadyRows DEF Writes, Asks
        <3>4. t.State \in SnapStates => t.CCUpdate
            BY <2>3, UpgradeRows DEF Writes, Ready
        <3>5. t.State = "ReceiveSector" => t.Return \in {"Packing", "GetTicket", "PreCommitting"}
            BY Zenon, <2>3, ReadyRows DEF Writes, Asks
        <3>6. t.State = "RecoverDealIDs" =>
                  t.Return \in {"PreCommit1", "PreCommitting", "PreCommitFailed", "CommitFailed"}
            BY <2>3, ReadyRows DEF Writes, Asks
        <3> QED
            BY Zenon, <3>2, <3>3, <3>4, <3>5, <3>6 DEF Ready
    <2>4. CASE Returned(s, t)
        <3>1. t.State \in Returns
            BY Zenon, <2>0, <2>4 DEF Returned
        <3> QED
            BY Zenon, <3>1, OtherMoves DEF Ready
    <2>5. CASE <<ev.e, t.State>> \in CommittingMoves /\ Unwritten(s, t)
        <3>1. /\ t.State \notin {"PreCommitBatchWait", "PreCommitWait", "CommitAggregateWait",
                                 "ReceiveSector", "RecoverDealIDs"} \cup SnapStates
              /\ t.State = "CommitWait" => ev.e = "SectorRetryCommitWait"
            BY Zenon, <2>5, OtherMoves
        <3> QED
            BY Zenon, <2>5, <3>1 DEF Unwritten, Asks, Ready
    <2>6. CASE t.State \in {"Terminating", "Removing"}
        BY Zenon, <2>2, <2>6, OtherMoves
    <2> QED
        BY Zenon, <2>1, <2>3, <2>4, <2>5, <2>6 DEF Goes, Rests, Moved, Stayed
<1>0. /\ Ready(sec) /\ sec \in SectorInfo /\ pending \in Seq(EventInfo) /\ Len(pending) \in Nat
      /\ \A j \in 1 .. Len(pending) : Asks(pending[j], sec)
      /\ \A j \in 1 .. Len(pending) : Told(pending[j], chain)
    BY DEF ReadyInv, ChainInv, Typed
<1>1. ASSUME UNCHANGED <<sec, pending>> PROVE ReadyInv'
    BY Zenon, <1>0, <1>1 DEF ReadyInv
<1>2. ASSUME NEW ev \in EventInfo, Asks(ev, sec), sec' = sec, pending' = Append(pending, ev)
      PROVE  ReadyInv'
    <2>1. Len(pending') = Len(pending) + 1
        BY <1>0, <1>2
    <2>2. ASSUME NEW j \in 1 .. Len(pending') PROVE Asks(pending'[j], sec)
        BY <1>0, <1>2, <2>1
    <2> QED
        BY Zenon, <1>0, <1>2, <2>2 DEF ReadyInv
<1>3. ASSUME NEW ev, Arrives(ev) PROVE Asks(ev, sec)
    BY Zenon, <1>3 DEF Arrives, OutsideNames, Creates, Asks
<1>4. CASE Calm \/ ChainSteps
    BY Zenon, <1>1, <1>4 DEF Calm, ChainSteps
<1>5. ASSUME NEW ev, Adds(ev) PROVE ReadyInv'
    <2>1. Asks(ev, sec)
        BY Zenon, <1>3, <1>5, OutsideArrives DEF Adds
    <2> QED
        BY Zenon, <1>2, <1>5, <2>1 DEF Adds
<1>6. ASSUME NEW ev, NEW kind, Answers(ev, kind) PROVE ReadyInv'
    <2>1. Place(ev, sec) /\ Tells(ev, sec, chain) /\ ev \in EventInfo
        BY Zenon, <1>6 DEF Answers, Fits
    <2>2. Asks(ev, sec)
        BY Zenon, <2>1 DEF Place, Tells, Asks, Late, Live
    <2> QED
        BY Zenon, <1>2, <1>6, <2>1, <2>2 DEF Answers
<1>7. ASSUME NEW q, NEW p, Replans(q, p) PROVE ReadyInv'
    <2>1. /\ sec' \in SectorInfo /\ Len(q) \in Nat /\ Queued(q) /\ Sent
          /\ Rests(sec, sec') \/ \E i \in 1 .. Len(q) : Goes(sec, q[i], sec')
          /\ \A j \in 1 .. Len(pending') : p.n + j \in 1 .. Len(q) /\ pending'[j] = q[p.n + j]
        BY Zenon, <1>7, ReplanEvents
    <2>2. ASSUME NEW i \in 1 .. Len(q) PROVE Told(q[i], chain) /\ Asks(q[i], sec)
        BY Zenon, <1>0, <1>3, <2>1, QueuedEvents, ArrivesTold
    <2>3. CASE Rests(sec, sec')
        <3>1. Ready(sec') /\ \A f : Asks(f, sec) => Asks(f, sec')
            BY Zenon, <1>0, <2>3 DEF Rests, Unwritten, Ready, Asks
        <3> QED
            BY Zenon, <2>1, <2>2, <3>1 DEF ReadyInv
    <2>4. ASSUME NEW i \in 1 .. Len(q), Goes(sec, q[i], sec') PROVE ReadyInv'
        <3>1. Told(q[i], chain) /\ Asks(q[i], sec)
            BY Zenon, <2>2
        <3>2. Ready(sec')
            BY Zenon, <1>0, <2>4, <3>1, <1>GoesReady
        <3>3. ASSUME NEW j \in 1 .. Len(pending') PROVE Asks(pending'[j], sec')
            <4>1. Asks(pending'[j], sec)
                BY Zenon, <2>1, <2>2
            <4> QED
                BY Zenon, <2>4, <3>1, <4>1, <1>GoesAsked
        <3> QED
            BY Zenon, <3>2, <3>3 DEF ReadyInv
    <2> QED
        BY Zenon, <2>1, <2>3, <2>4
<1> QED
    BY Zenon, <1>4, <1>5, <1>6, <1>7 DEF StepForm

-----------------------------------------------------------------------------
(* The message and the sealed update of an upgrade (HandlersReady). Here   *)
(* the order of the events in the queue matters.                           *)

Upgraded(s) ==
    /\ s.ReplicaUpdateMessage # 0 => s.UpdateSealed
    /\ s.State \in UpdateWaits => s.ReplicaUpdateMessage # 0

(* What an event in the queue asks of the upgrade is there, and an upgrade *)
(* is reverted only where it was aborted.                                  *)
Updates(ev, s) ==
    /\ ev.e = "SectorReplicaUpdateSubmitted" => s.UpdateSealed
    /\ ev.e = "SectorRetrySubmitReplicaUpdateWait" => s.ReplicaUpdateMessage # 0
    /\ ev.e = "SectorRevertUpgradeToProving" => s.State \in {"AbortUpgrade", "Proving"} \cup EndStates

(* Nothing of the upgrade follows its end, and its end does not follow the *)
(* start of the next one.                                                  *)
Reverts(s, q) ==
    \A j, k \in 1 .. Len(q) : j < k =>
       /\ s.State = "AbortUpgrade" /\ q[j].e = "SectorRevertUpgradeToProving" =>
             q[k].e \notin {"SectorReplicaUpdateSubmitted", "SectorRetrySubmitReplicaUpdateWait",
                            "SectorMarkForUpdate"}
       /\ s.State = "Proving" /\ q[j].e = "SectorMarkForUpdate" =>
             q[k].e # "SectorRevertUpgradeToProving"

UpgradeInv ==
    /\ Upgraded(sec) /\ Reverts(sec, pending)
    /\ \A j \in 1 .. Len(pending) : Updates(pending[j], sec)

(* The forms of a move: a row of the tables, or one that writes nothing of *)
(* an upgrade and leads elsewhere.                                         *)
LEMMA UpdateMoves ==
    ASSUME NEW s \in SectorInfo, NEW ev, NEW t, Goes(s, ev, t) \/ Rests(s, t)
    PROVE  \/ <<s.State, ev.e, t.State>> \in Planners /\ Writes(s, ev, t)
           \/ /\ t.ReplicaUpdateMessage = s.ReplicaUpdateMessage /\ t.UpdateSealed = s.UpdateSealed
              /\ \/ t.State = s.State
                 \/ t.State \in EndStates
                 \/ /\ t.State \notin UpdateWaits \cup {"AbortUpgrade", "Proving"}
                    /\ s.State \in {"Committing", "ReceiveSector", "RecoverDealIDs"}
<1>0. s.Return \in Returns
    BY Zenon DEF SectorInfo
<1>1. CASE t.State = s.State /\ Unwritten(s, t)
    BY Zenon, <1>1 DEF Unwritten
<1>2. CASE t.State \in {"Terminating", "Removing"} /\ Unwritten(s, t)
    BY Zenon, <1>2, NoUpdateMoves DEF Unwritten
<1>3. CASE <<s.State, ev.e, "Return">> \in Planners /\ Returned(s, t)
    <2>1. t.State \in Returns /\ s.State \in {"ReceiveSector", "RecoverDealIDs"}
        BY Zenon, <1>0, <1>3, ReturningRows DEF Returned
    <2> QED
        BY Zenon, <1>3, <2>1, NoUpdateMoves DEF Returned
<1>4. CASE s.State = "Committing" /\ Unwritten(s, t) /\ <<ev.e, t.State>> \in CommittingMoves
    <2>1. t.State \notin UpdateWaits \cup {"AbortUpgrade", "Proving"}
        BY Zenon, <1>4, NoUpdateMoves
    <2> QED
        BY Zenon, <1>4, <2>1 DEF Unwritten
<1> QED
    BY Zenon, <1>1, <1>2, <1>3, <1>4 DEF Goes, Rests, Moved, Stayed

(* Every step keeps the upgrade's records.                                 *)
LEMMA UpgradeInvStep ==
    ASSUME Typed, ChainInv, UpgradeInv, StepForm
    PROVE  UpgradeInv'
\* What is left in the queue follows the event that moved the sector, except
\* where the queue is kept.
<1>PlanOrder.
      ASSUME NEW s \in SectorInfo, NEW q, NEW p, PlanOf(s, q, p), Len(q) \in Nat
      PROVE  \/ Rests(s, p.sec)
             \/ \E i \in 1 .. Len(q) : /\ Goes(s, q[i], p.sec)
                                       /\ i <= p.n \/ p.sec.State = "ReleaseSectorKeyFailed"
    <2> USE <1>PlanOrder
    <2>1. CASE s.State = "Committing" /\ FromCommitting(s, q, p)
        <3>1. p.n \in 0 .. Len(q)
            BY Zenon, <2>1 DEF FromCommitting
        <3>2. CASE p.sec.State = "Committing"
            BY SMTT(30), <2>1, <3>2 DEF FromCommitting, Rests
        <3>3. CASE \E j \in 1 .. p.n : <<q[j].e, p.sec.State>> \in CommittingMoves
            <4>1. PICK j \in 1 .. p.n : <<q[j].e, p.sec.State>> \in CommittingMoves
                BY Zenon, <3>3
            <4>2. j \in 1 .. Len(q) /\ j <= p.n
                BY <3>1
            <4>3. Goes(s, q[j], p.sec)
                BY Zenon, <2>1, <4>1 DEF FromCommitting, Goes
            <4> QED
                BY Zenon, <4>2, <4>3
        <3> QED
            BY Zenon, <2>1, <3>2, <3>3 DEF FromCommitting
    <2>2. CASE Idled(s, q, p)
        BY Zenon, <2>2 DEF Idled, Rests, Unwritten
    <2>3. ASSUME NEW i \in 1 .. Len(q), Took1(s, q, i, p)
          PROVE  Goes(s, q[i], p.sec) /\ (i <= p.n \/ p.sec.State = "ReleaseSectorKeyFailed")
        BY <2>3 DEF Took1, Goes
    <2> QED
        BY Zenon, <2>1, <2>2, <2>3 DEF PlanOf
\* An event that asks for what is there keeps the upgrade's records.
<1>GoesUpgraded.
      ASSUME NEW s \in SectorInfo, NEW ev, NEW t, NEW c, Goes(s, ev, t) \/ Rests(s, t), Told(ev, c),
             Upgraded(s), Updates(ev, s)
      PROVE  Upgraded(t)
    <2> USE <1>GoesUpgraded
    <2>1. CASE <<s.State, ev.e, t.State>> \in Planners /\ Writes(s, ev, t)
        <3>1. ev.e = "SectorReplicaUpdateSubmitted" => ev.v # 0
            BY DEF Told, IsMessage
        <3>2. t.ReplicaUpdateMessage # 0 => t.UpdateSealed
            BY Zenon, <2>1 DEF Writes, Upgraded, Updates
        <3>3. ASSUME t.State \in UpdateWaits PROVE t.ReplicaUpdateMessage # 0
            <4>1. ev.e # "SectorRevertUpgradeToProving"
                BY Zenon, <2>1, <3>3, UpgradeRows DEF UpdateWaits
            <4> QED
                BY Zenon, <2>1, <3>1, <3>3, <4>1, UpdateRows DEF Writes, Upgraded, Updates
        <3> QED
            BY Zenon, <3>2, <3>3 DEF Upgraded
    <2>2. CASE /\ t.ReplicaUpdateMessage = s.ReplicaUpdateMessage /\ t.UpdateSealed = s.UpdateSealed
               /\ t.State = s.State \/ t.State \notin UpdateWaits
        BY Zenon, <2>2 DEF Upgraded
    <2> QED
        BY Zenon, <2>1, <2>2, UpdateMoves, NoUpdateMoves
\* What an event in the queue asks of the upgrade stays there, unless it
\* follows the end of the upgrade.
<1>GoesUpdates.
      ASSUME NEW s \in SectorInfo, NEW ev, NEW t, NEW c, Goes(s, ev, t) \/ Rests(s, t), Told(ev, c),
             NEW f, Updates(f, s),
             s.State = "AbortUpgrade" /\ ev.e = "SectorRevertUpgradeToProving" =>
                f.e \notin {"SectorReplicaUpdateSubmitted", "SectorRetrySubmitReplicaUpdateWait"},
             s.State = "Proving" /\ ev.e = "SectorMarkForUpdate" =>
                f.e # "SectorRevertUpgradeToProving"
      PROVE  Updates(f, t)
    <2> USE <1>GoesUpdates
    <2>1. CASE <<s.State, ev.e, t.State>> \in Planners /\ Writes(s, ev, t)
        <3>1. ev.e = "SectorReplicaUpdateSubmitted" => ev.v # 0
            BY DEF Told, IsMessage
        <3>2. ev.e = "SectorRevertUpgradeToProving" => s.State = "AbortUpgrade" /\ t.State = "Proving"
            BY Zenon, <2>1, UpgradeRows
        <3>3. /\ f.e = "SectorReplicaUpdateSubmitted" => t.UpdateSealed
              /\ f.e = "SectorRetrySubmitReplicaUpdateWait" => t.ReplicaUpdateMessage # 0
            BY Zenon, <2>1, <3>1, <3>2 DEF Writes, Updates
        <3>4. ASSUME f.e = "SectorRevertUpgradeToProving"
              PROVE  t.State \in {"AbortUpgrade", "Proving"} \cup EndStates
            <4>1. CASE s.State \in EndStates
                BY Zenon, <2>1, <4>1, LateRows
            <4>2. CASE s.State = "AbortUpgrade"
                BY Zenon, <2>1, <3>2, <4>2, UpdateRows
            <4>3. CASE s.State = "Proving"
                BY Zenon, <2>1, <3>4, <4>3, UpdateRows
            <4> QED
                BY Zenon, <3>4, <4>1, <4>2, <4>3 DEF Updates
        <3> QED
            BY Zenon, <3>3, <3>4 DEF Updates
    <2>2. CASE /\ t.ReplicaUpdateMessage = s.ReplicaUpdateMessage /\ t.UpdateSealed = s.UpdateSealed
               /\ \/ t.State = s.State \/ t.State \in EndStates
                  \/ s.State \in {"Committing", "ReceiveSector", "RecoverDealIDs"}
        BY Zenon, <2>2, NoUpdateMoves DEF Updates
    <2> QED
        BY Zenon, <2>1, <2>2, UpdateMoves
\* What a planned queue knows: that of the machine's queue, or nothing of an
\* upgrade.
<1>QueuedUpdates.
      ASSUME UpgradeInv, NEW q, Queued(q), Len(q) \in Nat
      PROVE  Reverts(sec, q) /\ \A i \in 1 .. Len(q) : Updates(q[i], sec)
    <2> USE <1>QueuedUpdates
    <2>1. ASSUME NEW ev, Arrives(ev) PROVE Updates(ev, sec)
        BY Zenon, <2>1 DEF Arrives, OutsideNames, Creates, Updates
    <2>2. \A i \in 1 .. Len(q) : Updates(q[i], sec)
        BY Zenon, <2>1, QueuedEvents DEF UpgradeInv
    <2>3. CASE q = pending
        BY Zenon, <2>2, <2>3 DEF UpgradeInv
    <2>4. CASE Len(q) = 1
        BY <2>2, <2>4 DEF Reverts
    <2> QED
        BY Zenon, <2>3, <2>4 DEF Queued
<1>0. /\ Upgraded(sec) /\ Reverts(sec, pending) /\ sec \in SectorInfo
      /\ pending \in Seq(EventInfo) /\ Len(pending) \in Nat
      /\ \A j \in 1 .. Len(pending) : Updates(pending[j], sec)
      /\ \A j \in 1 .. Len(pending) : Told(pending[j], chain)
    BY DEF UpgradeInv, ChainInv, Typed
<1>1. ASSUME UNCHANGED <<sec, pending>> PROVE UpgradeInv'
    BY Zenon, <1>0, <1>1 DEF UpgradeInv
<1>2. ASSUME NEW ev \in EventInfo, Updates(ev, sec), sec' = sec, pending' = Append(pending, ev),
             sec.State = "AbortUpgrade" =>
                ev.e \notin {"SectorReplicaUpdateSubmitted", "SectorRetrySubmitReplicaUpdateWait",
                             "SectorMarkForUpdate"},
             sec.State = "Proving" => ev.e # "SectorRevertUpgradeToProving"
      PROVE  UpgradeInv'
    <2>1. /\ Len(pending') = Len(pending) + 1
          /\ \A j \in 1 .. Len(pending) : pending'[j] = pending[j]
          /\ pending'[Len(pending) + 1] = ev
        BY <1>0, <1>2
    <2>2. ASSUME NEW j \in 1 .. Len(pending') PROVE Updates(pending'[j], sec)
        BY <1>0, <1>2, <2>1
    <2>3. ASSUME NEW j \in 1 .. Len(pending'), NEW k \in 1 .. Len(pending'), j < k
          PROVE  /\ sec.State = "AbortUpgrade" /\ pending'[j].e = "SectorRevertUpgradeToProving" =>
                       pending'[k].e \notin {"SectorReplicaUpdateSubmitted",
                                             "SectorRetrySubmitReplicaUpdateWait",
                                             "SectorMarkForUpdate"}
                 /\ sec.State = "Proving" /\ pending'[j].e = "SectorMarkForUpdate" =>
                       pending'[k].e # "SectorRevertUpgradeToProving"
        <3>1. CASE k = Len(pending) + 1
            BY Zenon, <1>2, <2>1, <3>1
        <3>2. CASE k # Len(pending) + 1
            <4>1. j \in 1 .. Len(pending) /\ k \in 1 .. Len(pending)
                BY <1>0, <2>1, <2>3, <3>2
            <4>2. pending'[j] = pending[j] /\ pending'[k] = pending[k]
                BY Zenon, <2>1, <4>1
            <4> QED
                BY Zenon, <1>0, <2>3, <4>1, <4>2 DEF Reverts
        <3> QED
            BY Zenon, <3>1, <3>2
    <2>4. Reverts(sec, pending')
        BY Zenon, <2>3 DEF Reverts
    <2> QED
        BY Zenon, <1>0, <1>2, <2>2, <2>4 DEF UpgradeInv
<1>4. CASE Calm \/ ChainSteps
    BY <1>1, <1>4 DEF Calm, ChainSteps
<1>5. ASSUME NEW ev, Adds(ev) PROVE UpgradeInv'
    <2>1. ev \in EventInfo /\ Outside(ev, sec, asked') /\ sec' = sec /\ pending' = Append(pending, ev)
        BY Zenon, <1>5 DEF Adds
    <2>2. /\ Updates(ev, sec)
          /\ sec.State = "AbortUpgrade" =>
                ev.e \notin {"SectorReplicaUpdateSubmitted", "SectorRetrySubmitReplicaUpdateWait",
                             "SectorMarkForUpdate"}
          /\ ev.e # "SectorRevertUpgradeToProving"
        BY Zenon, <2>1 DEF Outside, Updates
    <2> QED
        BY Zenon, <1>2, <2>1, <2>2
<1>6. ASSUME NEW ev, NEW kind, Answers(ev, kind) PROVE UpgradeInv'
    <2>1. /\ Place(ev, sec) /\ Tells(ev, sec, chain) /\ ev \in EventInfo
          /\ sec' = sec /\ pending' = Append(pending, ev)
        BY Zenon, <1>6 DEF Answers, Fits
    <2>2. /\ Updates(ev, sec)
          /\ sec.State = "AbortUpgrade" =>
                ev.e \notin {"SectorReplicaUpdateSubmitted", "SectorRetrySubmitReplicaUpdateWait",
                             "SectorMarkForUpdate"}
          /\ sec.State = "Proving" => ev.e # "SectorRevertUpgradeToProving"
        BY Zenon, <2>1 DEF Place, Tells, Updates
    <2> QED
        BY Zenon, <1>2, <2>1, <2>2
<1>7. ASSUME NEW q, NEW p, Replans(q, p) PROVE UpgradeInv'
    <2>1. /\ sec' = p.sec /\ sec' \in SectorInfo /\ Len(q) \in Nat /\ Queued(q) /\ PlanOf(sec, q, p)
          /\ \A j \in 1 .. Len(pending') : p.n + j \in 1 .. Len(q) /\ pending'[j] = q[p.n + j]
        BY Zenon, <1>7, ReplanEvents
    <2>2. p.n \in Nat
        BY <2>1 DEF PlanOf
    <2>3. /\ Reverts(sec, q)
          /\ \A i \in 1 .. Len(q) : Updates(q[i], sec) /\ Told(q[i], chain)
        BY Zenon, <1>0, <2>1, <1>QueuedUpdates, QueuedEvents, ArrivesTold DEF UpgradeInv
    <2>4. ASSUME sec'.State = sec.State PROVE Reverts(sec', pending')
        <3>1. ASSUME NEW j \in 1 .. Len(pending'), NEW k \in 1 .. Len(pending'), j < k
              PROVE  p.n + j < p.n + k
            BY <2>2, <3>1
        <3> QED
            BY Zenon, <2>1, <2>3, <2>4, <3>1 DEF Reverts
    <2>5. CASE Rests(sec, sec')
        <3>1. Upgraded(sec') /\ \A f : Updates(f, sec) => Updates(f, sec')
            BY Zenon, <1>0, <2>5 DEF Rests, Unwritten, Upgraded, Updates
        <3>2. Reverts(sec', pending')
            BY Zenon, <2>4, <2>5 DEF Rests
        <3> QED
            BY Zenon, <2>1, <2>3, <3>1, <3>2 DEF UpgradeInv
    <2>6. ASSUME NEW i \in 1 .. Len(q), Goes(sec, q[i], sec'),
                 i <= p.n \/ sec'.State = "ReleaseSectorKeyFailed"
          PROVE  UpgradeInv'
        <3>1. Upgraded(sec')
            BY Zenon, <1>0, <2>3, <2>6, <1>GoesUpgraded
        <3>2. sec'.State = "ReleaseSectorKeyFailed" => sec.State \notin {"AbortUpgrade", "Proving"}
            <4> SUFFICES ASSUME sec'.State = "ReleaseSectorKeyFailed",
                                sec.State \in {"AbortUpgrade", "Proving"}
                         PROVE  FALSE
                BY Zenon
            <4>1. <<sec.State, q[i].e, sec'.State>> \in Planners
                BY Zenon, <1>0, <2>6, UpdateMoves DEF EndStates
            <4>2. q[i].e \notin {"SectorReplicaUpdateSubmitted", "SectorRetrySubmitReplicaUpdateWait"}
                BY Zenon, <4>1, UpdateRows
            <4> QED
                BY <4>1, <4>2, UpdateRows DEF UpdateWaits
        <3>3. ASSUME NEW j \in 1 .. Len(pending') PROVE Updates(pending'[j], sec')
            <4>1. p.n + j \in 1 .. Len(q) /\ pending'[j] = q[p.n + j]
                BY Zenon, <2>1
            <4>2. sec.State \in {"AbortUpgrade", "Proving"} => i < p.n + j
                BY <2>2, <2>6, <3>2
            <4> QED
                BY <1>0, <2>3, <2>6, <4>1, <4>2, <1>GoesUpdates DEF Reverts
        <3>4. Reverts(sec', pending')
            <4>1. CASE sec'.State = sec.State
                BY Zenon, <2>4, <4>1
            <4>2. CASE sec'.State \notin {"AbortUpgrade", "Proving"}
                BY Zenon, <4>2 DEF Reverts
            <4>3. CASE sec'.State # sec.State /\ sec'.State \in {"AbortUpgrade", "Proving"}
                <5>1. <<sec.State, q[i].e, sec'.State>> \in Planners
                    BY Zenon, <1>0, <2>6, <4>3, UpdateMoves, NoUpdateMoves
                <5>2. CASE sec.State \notin {"AbortUpgrade", "Proving"} \cup EndStates
                    <6>1. \A j \in 1 .. Len(pending') : pending'[j].e # "SectorRevertUpgradeToProving"
                        BY Zenon, <2>1, <2>3, <5>2 DEF Updates
                    <6> QED
                        BY Zenon, <6>1 DEF Reverts
                <5>3. CASE /\ sec.State = "AbortUpgrade" /\ q[i].e = "SectorRevertUpgradeToProving"
                           /\ sec'.State = "Proving"
                    <6>1. ASSUME NEW j \in 1 .. Len(pending')
                          PROVE  pending'[j].e # "SectorMarkForUpdate"
                        <7>1. p.n + j \in 1 .. Len(q) /\ pending'[j] = q[p.n + j] /\ i < p.n + j
                            BY <2>1, <2>2, <2>6, <5>3
                        <7> QED
                            BY Zenon, <2>3, <5>3, <7>1 DEF Reverts
                    <6> QED
                        BY Zenon, <5>3, <6>1 DEF Reverts
                <5> QED
                    BY Zenon, <4>3, <5>1, <5>2, <5>3, UpdateRows
            <4> QED
                BY Zenon, <4>1, <4>2, <4>3
        <3> QED
            BY Zenon, <3>1, <3>3, <3>4 DEF UpgradeInv
    <2> QED
        BY Zenon, <1>0, <2>1, <2>5, <2>6, <1>PlanOrder
<1> QED
    BY <1>4, <1>5, <1>6, <1>7 DEF StepForm

-----------------------------------------------------------------------------
(* Where the events of sealing wait. A handler of these states sends one   *)
(* event, and nothing but events from elsewhere comes after it, so that    *)
(* what it says of the sector is still so when it is planned.              *)

(* The handler's event is in the queue only when it returned, and only     *)
(* events from elsewhere follow.                                           *)
Ordered(s, q, g) ==
    \A j \in 1 .. Len(q) : q[j].e \in Own(s.State) =>
        g # "run" /\ \A k \in 1 .. Len(q) : k > j => q[k].e \in OutsideNames

(* An event waits in the state whose handler sent it, or the sector is     *)
(* given up.                                                               *)
Located(ev, s) ==
    /\ ev.e = "SectorTicket" => s.State \in {"GetTicket"} \cup EndStates
    /\ ev.e \in {"SectorPreCommit1", "SectorOldTicket"} => s.State \in {"PreCommit1"} \cup EndStates
    /\ ev.e \in {"SectorRetrySealPreCommit1", "SectorRetrySealPreCommit2"} =>
          s.State \in {"SealPreCommit1Failed", "SealPreCommit2Failed"} \cup EndStates
    /\ ev.e = "SectorUpdateDealIDs" => s.State \in {"RecoverDealIDs"} \cup Late
    /\ ev.e \in {"SectorCommitFailed", "SectorInvalidDealIDs"} => s.State \notin Early
    /\ ev.e = "SectorRestart" => s.State \in Late

OrderInv ==
    /\ Ordered(sec, pending, stage)
    /\ \A j \in 1 .. Len(pending) : Located(pending[j], sec)

(* How a move may reach the five states from others.                       *)
LEMMA GoesOwners ==
    ASSUME NEW s \in SectorInfo, NEW ev, NEW t, Goes(s, ev, t), Ready(s)
    PROVE  /\ t.State \in Owners =>
                 \/ s.State \in Owners
                 \/ t.State = "GetTicket" /\ s.State \in Early
                 \/ t.State \in {"SealPreCommit1Failed", "SealPreCommit2Failed"} /\ s.State \notin Late
                 \/ t.State = "RecoverDealIDs" /\ s.State \notin Late
           /\ t.State \in Early => s.State \in Early
<1>1. CASE <<s.State, ev.e, t.State>> \in Planners
    BY Zenon, <1>1, OwnersReached
<1>2. CASE t.State = s.State
    BY Zenon, <1>2
<1>3. CASE t.State \in {"Terminating", "Removing"}
    BY Zenon, <1>3, OwnMoves, OwnEvents
<1>4. CASE <<s.State, ev.e, "Return">> \in Planners /\ Returned(s, t)
    <2>1. s.State \in {"ReceiveSector", "RecoverDealIDs"} /\ t.State = s.Return
        BY Zenon, <1>4, ReturningRows DEF Returned
    <2>2. CASE s.State = "ReceiveSector"
        <3>1. t.State \in {"Packing", "GetTicket", "PreCommitting"}
            BY Zenon, <2>1, <2>2 DEF Ready
        <3> QED
            BY Zenon, <2>2, <3>1, OwnMoves
    <2>3. CASE s.State = "RecoverDealIDs"
        <3>1. t.State \in {"PreCommit1", "PreCommitting", "PreCommitFailed", "CommitFailed"}
            BY Zenon, <2>1, <2>3 DEF Ready
        <3> QED
            BY Zenon, <2>3, <3>1, OwnMoves
    <2> QED
        BY Zenon, <2>1, <2>2, <2>3
<1>5. CASE s.State = "Committing" /\ <<ev.e, t.State>> \in CommittingMoves
    <2>1. t.State \notin Early /\ (t.State \in Owners => t.State = "SealPreCommit1Failed")
        BY Zenon, <1>5, OwnMoves
    <2> QED
        BY Zenon, <1>5, <2>1, OwnMoves
<1> QED
    BY Zenon, <1>1, <1>2, <1>3, <1>4, <1>5 DEF Goes, Moved, Stayed

(* What a planned queue knows: its events wait where they may, or it is a  *)
(* restart alone, and only events from elsewhere follow a handler's.       *)
LEMMA QueuedOrder ==
    ASSUME OrderInv, NEW q, Queued(q), Len(q) \in Nat
    PROVE  /\ \A i \in 1 .. Len(q) : Located(q[i], sec) \/ (Len(q) = 1 /\ q[i].e = "SectorRestart")
           /\ \A j, k \in 1 .. Len(q) :
                 k > j /\ q[j].e \in Own(sec.State) => q[k].e \in OutsideNames
<1>1. ASSUME NEW ev, Arrives(ev) PROVE Located(ev, sec) \/ ev.e = "SectorRestart"
    BY Zenon, <1>1 DEF Arrives, OutsideNames, Creates, Located
<1>2. CASE q = pending
    BY Zenon, <1>2 DEF OrderInv, Ordered
<1>3. CASE Len(q) = 1
    BY <1>1, <1>3, QueuedEvents DEF OrderInv
<1> QED
    BY Zenon, <1>2, <1>3 DEF Queued

(* Every step keeps the order of the events.                               *)
LEMMA OrderInvStep ==
    ASSUME Typed, ReadyInv, OrderInv, StepForm
    PROVE  OrderInv'
\* A sector leaves one of the five states by its handler's event, or is given
\* up.
<1>GoesFromOwner.
      ASSUME NEW s \in SectorInfo, NEW ev, NEW t, Goes(s, ev, t), s.State \in Owners
      PROVE  ev.e \in Own(s.State) \/ t.State = s.State \/ t.State \in EndStates
    <2> USE <1>GoesFromOwner
    <2>1. CASE \E y : <<s.State, ev.e, y>> \in Planners
        BY Zenon, <2>1, OwnRows
    <2>2. CASE t.State = s.State \/ t.State \in {"Terminating", "Removing"}
        BY Zenon, <2>2, OwnMoves
    <2> QED
        BY Zenon, <2>1, <2>2, OwnMoves DEF Goes, Moved, Stayed
\* What follows in the queue still waits where it may.
<1>GoesLocated.
      ASSUME NEW s \in SectorInfo, NEW ev, NEW t, Goes(s, ev, t), Ready(s),
             NEW f, Located(f, s), ev.e \in Own(s.State) => f.e \in OutsideNames
      PROVE  Located(f, t)
    <2> USE <1>GoesLocated
    <2>1. /\ s.State \in Late => t.State \in Late
          /\ s.State \in EndStates => t.State \in EndStates
          /\ t.State \in Early => s.State \in Early
        BY Zenon, GoesLate, GoesOwners
    <2>2. CASE f.e \in OutsideNames
        BY Zenon, <2>2 DEF OutsideNames, Located
    <2>3. CASE f.e \notin OutsideNames
        <3>1. s.State \in Owners => t.State = s.State \/ t.State \in EndStates
            BY Zenon, <2>3, <1>GoesFromOwner
        <3>2. EndStates \cap Early = {} /\ EndStates \subseteq Late
            BY Zenon, OwnMoves, OwnEvents
        <3> QED
            BY Zenon, <2>1, <3>1, <3>2 DEF Located, Owners
    <2> QED
        BY Zenon, <2>2, <2>3
\* An event that moved the sector is followed by those that may follow it.
<1>MovedOrder.
      ASSUME Typed, ReadyInv, OrderInv, NEW q, NEW p, Replans(q, p), NEW i \in 1 .. Len(q),
             Goes(sec, q[i], sec'), i <= p.n,
             sec.State \in Owners /\ stage' = "run" =>
                q[i].e \in Own(sec.State) \/ q[i].e = "SectorRestart" \/ sec'.State \in EndStates
      PROVE  OrderInv'
    <2> USE <1>MovedOrder
    <2>0. sec \in SectorInfo /\ Ready(sec)
        BY Zenon DEF Typed, ReadyInv
    <2>1. /\ sec' \in SectorInfo /\ Len(q) \in Nat /\ p.n \in 0 .. Len(q) /\ Queued(q)
          /\ \A j \in 1 .. Len(pending') : p.n + j \in 1 .. Len(q) /\ pending'[j] = q[p.n + j]
        BY Zenon, ReplanEvents
    <2>2. /\ \A k \in 1 .. Len(q) : Located(q[k], sec) \/ (Len(q) = 1 /\ q[k].e = "SectorRestart")
          /\ \A j, k \in 1 .. Len(q) :
                k > j /\ q[j].e \in Own(sec.State) => q[k].e \in OutsideNames
        BY Zenon, <2>0, <2>1, QueuedOrder
    <2>3. ASSUME NEW j \in 1 .. Len(pending')
          PROVE  /\ p.n + j \in 1 .. Len(q) /\ pending'[j] = q[p.n + j] /\ p.n + j > i
                 /\ Len(q) # 1 /\ Located(pending'[j], sec)
                 /\ q[i].e \in Own(sec.State) => pending'[j].e \in OutsideNames
        <3>1. p.n + j \in 1 .. Len(q) /\ pending'[j] = q[p.n + j]
            BY Zenon, <2>1
        <3>2. p.n + j > i /\ Len(q) # 1
            BY <2>1, <3>1
        <3> QED
            BY Zenon, <2>2, <3>1, <3>2
    <2>4. ASSUME NEW j \in 1 .. Len(pending') PROVE Located(pending'[j], sec')
        BY Zenon, <2>0, <2>1, <2>3, <1>GoesLocated
    <2>5. ASSUME NEW j \in 1 .. Len(pending'), pending'[j].e \in Own(sec'.State)
          PROVE  /\ stage' # "run"
                 /\ \A k \in 1 .. Len(pending') : k > j => pending'[k].e \in OutsideNames
        <3>1. sec'.State \in Owners /\ pending'[j].e \notin OutsideNames
            BY Zenon, <2>5, OwnEvents
        <3>2. q[i].e \notin Own(sec.State)
            BY Zenon, <2>3, <3>1
        <3>3. sec.State \in Owners
            <4> SUFFICES ASSUME sec.State \notin Owners PROVE FALSE
                BY Zenon
            <4>1. Located(pending'[j], sec)
                BY Zenon, <2>3
            <4>2. CASE sec'.State = "GetTicket" /\ sec.State \in Early
                <5>1. pending'[j].e \in {"SectorTicket", "SectorCommitFailed"}
                    BY Zenon, <2>5, <4>2 DEF Own
                <5> QED
                    BY Zenon, <4>1, <4>2, <5>1, OwnMoves DEF Located, Owners
            <4>3. CASE /\ sec'.State \in {"SealPreCommit1Failed", "SealPreCommit2Failed"}
                       /\ sec.State \notin Late
                <5>1. pending'[j].e \in {"SectorRetrySealPreCommit1", "SectorRetrySealPreCommit2"}
                    BY Zenon, <2>5, <4>3 DEF Own
                <5> QED
                    BY Zenon, <4>1, <4>3, <5>1, OwnEvents DEF Located, Owners
            <4>4. CASE sec'.State = "RecoverDealIDs" /\ sec.State \notin Late
                <5>1. pending'[j].e = "SectorUpdateDealIDs"
                    BY Zenon, <2>5, <4>4 DEF Own
                <5> QED
                    BY Zenon, <4>1, <4>4, <5>1 DEF Located, Owners
            <4> QED
                BY Zenon, <2>0, <2>1, <3>1, <4>2, <4>3, <4>4, GoesOwners
        <3>4. sec'.State = sec.State
            BY Zenon, <2>0, <2>1, <3>1, <3>2, <3>3, <1>GoesFromOwner, OwnEvents
        <3>5. stage' # "run"
            <4> SUFFICES ASSUME stage' = "run" PROVE FALSE
                BY Zenon
            <4>1. q[i].e = "SectorRestart"
                BY Zenon, <3>1, <3>2, <3>3, OwnEvents
            <4>2. Located(q[i], sec)
                BY Zenon, <2>2, <2>3
            <4> QED
                BY Zenon, <3>3, <4>1, <4>2, OwnEvents DEF Located
        <3>6. ASSUME NEW k \in 1 .. Len(pending'), k > j PROVE pending'[k].e \in OutsideNames
            <4>1. /\ p.n + j \in 1 .. Len(q) /\ p.n + k \in 1 .. Len(q) /\ p.n + k > p.n + j
                  /\ pending'[j] = q[p.n + j] /\ pending'[k] = q[p.n + k]
                <5>1. /\ p.n + j \in 1 .. Len(q) /\ pending'[j] = q[p.n + j]
                      /\ p.n + k \in 1 .. Len(q) /\ pending'[k] = q[p.n + k]
                      /\ Len(q) \in Nat /\ p.n \in 0 .. Len(q)
                    BY Zenon, <2>1, <3>6
                <5> QED
                    BY <3>6, <5>1
            <4> QED
                BY Zenon, <2>2, <2>5, <3>4, <4>1
        <3> QED
            BY Zenon, <3>5, <3>6
    <2> QED
        BY Zenon, <2>4, <2>5 DEF OrderInv, Ordered
\* A queue that is kept waits where its key could not be released.
<1>KeptOrder.
      ASSUME Typed, ReadyInv, OrderInv, NEW q, NEW p, Replans(q, p),
             sec'.State = "ReleaseSectorKeyFailed"
      PROVE  OrderInv'
    <2> USE <1>KeptOrder
    <2>1. /\ sec \in SectorInfo /\ Ready(sec) /\ Len(q) \in Nat /\ Queued(q)
          /\ Rests(sec, sec') \/ \E i \in 1 .. Len(q) : Goes(sec, q[i], sec')
          /\ \A j \in 1 .. Len(pending') : p.n + j \in 1 .. Len(q) /\ pending'[j] = q[p.n + j]
        BY Zenon, ReplanEvents DEF Typed, ReadyInv
    <2>2. \A k \in 1 .. Len(q) : Located(q[k], sec) \/ q[k].e = "SectorRestart"
        BY Zenon, <2>1, QueuedOrder
    <2>3. sec'.State \in Late \ (Owners \cup EndStates)
        BY Zenon DEF Late, Live, SnapStates, Owners, EndStates
    <2>4. ASSUME NEW f, Located(f, sec) PROVE Located(f, sec')
        <3>1. CASE Rests(sec, sec')
            BY Zenon, <2>4, <3>1 DEF Rests, Located
        <3>2. ASSUME NEW i \in 1 .. Len(q), Goes(sec, q[i], sec') PROVE Located(f, sec')
            <4>1. sec.State \notin Owners
                <5> SUFFICES ASSUME sec.State \in Owners PROVE FALSE
                    BY Zenon
                <5>1. <<sec.State, q[i].e, sec'.State>> \in Planners
                    BY Zenon, <2>1, <2>3, <3>2, UpdateMoves DEF UpdateWaits
                <5>2. q[i].e \in {"SectorReplicaUpdateSubmitted", "SectorRetrySubmitReplicaUpdateWait"}
                    BY <5>1, UpdateRows DEF UpdateWaits, Owners
                <5> QED
                    BY <5>1, <5>2, OwnRows DEF Own
            <4> QED
                BY Zenon, <2>1, <2>4, <3>2, <4>1, OwnEvents, <1>GoesLocated
        <3> QED
            BY Zenon, <2>1, <3>1, <3>2
    <2>5. ASSUME NEW j \in 1 .. Len(pending') PROVE Located(pending'[j], sec')
        <3>1. CASE pending'[j].e = "SectorRestart"
            BY Zenon, <2>3, <3>1 DEF Located
        <3>2. CASE pending'[j].e # "SectorRestart"
            BY Zenon, <2>1, <2>2, <2>4, <3>2
        <3> QED
            BY Zenon, <3>1, <3>2
    <2>6. Own(sec'.State) = {}
        BY Zenon, <2>3, OwnEvents
    <2> QED
        BY Zenon, <2>5, <2>6 DEF OrderInv, Ordered
<1>0. /\ Ordered(sec, pending, stage) /\ sec \in SectorInfo
      /\ pending \in Seq(EventInfo) /\ Len(pending) \in Nat
      /\ \A j \in 1 .. Len(pending) : Located(pending[j], sec)
    BY DEF OrderInv, Typed
<1>1. ASSUME UNCHANGED <<sec, pending>>, stage' = "run" => stage = "run" PROVE OrderInv'
    BY Zenon, <1>0, <1>1 DEF OrderInv, Ordered
<1>2. ASSUME NEW ev \in EventInfo, Located(ev, sec), sec' = sec, pending' = Append(pending, ev),
             stage' = "run" => stage = "run",
             ev.e \in OutsideNames \/ Own(sec.State) = {} \/ (stage = "run" /\ stage' = "done")
      PROVE  OrderInv'
    <2>1. /\ Len(pending') = Len(pending) + 1
          /\ \A j \in 1 .. Len(pending) : pending'[j] = pending[j]
          /\ pending'[Len(pending) + 1] = ev
        BY <1>0, <1>2
    <2>2. ASSUME NEW j \in 1 .. Len(pending') PROVE Located(pending'[j], sec)
        BY <1>0, <1>2, <2>1
    <2>3. ASSUME NEW j \in 1 .. Len(pending'), pending'[j].e \in Own(sec.State)
          PROVE  /\ stage' # "run"
                 /\ \A k \in 1 .. Len(pending') : k > j => pending'[k].e \in OutsideNames
        <3>1. CASE j = Len(pending) + 1
            <4>1. stage' = "done"
                BY Zenon, <1>2, <2>1, <2>3, <3>1, OwnEvents
            <4>2. ASSUME NEW k \in 1 .. Len(pending') PROVE ~(k > j)
                BY <1>0, <2>1, <3>1
            <4> QED
                BY Zenon, <4>1, <4>2
        <3>2. CASE j # Len(pending) + 1
            <4>1. j \in 1 .. Len(pending) /\ pending'[j] = pending[j]
                BY <1>0, <2>1, <3>2
            <4>2. /\ stage # "run"
                  /\ \A k \in 1 .. Len(pending) : k > j => pending[k].e \in OutsideNames
                BY Zenon, <1>0, <2>3, <4>1 DEF Ordered
            <4>3. ev.e \in OutsideNames
                BY Zenon, <1>2, <2>3, <4>2
            <4>4. ASSUME NEW k \in 1 .. Len(pending'), k > j PROVE pending'[k].e \in OutsideNames
                <5>1. CASE k = Len(pending) + 1
                    BY Zenon, <2>1, <4>3, <5>1
                <5>2. CASE k # Len(pending) + 1
                    <6>1. k \in 1 .. Len(pending) /\ pending'[k] = pending[k]
                        BY <1>0, <2>1, <5>2
                    <6> QED
                        BY Zenon, <4>2, <4>4, <6>1
                <5> QED
                    BY Zenon, <5>1, <5>2
            <4> QED
                BY Zenon, <1>2, <4>2, <4>4
        <3> QED
            BY Zenon, <3>1, <3>2
    <2> QED
        BY Zenon, <1>2, <2>2, <2>3 DEF OrderInv, Ordered
<1>3. CASE Calm \/ ChainSteps
    BY Zenon, <1>1, <1>3 DEF Calm, ChainSteps
<1>4. ASSUME NEW ev, Adds(ev) PROVE OrderInv'
    <2>1. /\ ev \in EventInfo /\ Outside(ev, sec, asked') /\ sec' = sec /\ stage' = stage
          /\ pending' = Append(pending, ev)
        BY Zenon, <1>4 DEF Adds
    <2>2. Located(ev, sec) /\ (ev.e \in OutsideNames \/ Own(sec.State) = {})
        BY Zenon, <2>1 DEF Outside, OutsideNames, Located, Own
    <2> QED
        BY Zenon, <1>2, <2>1, <2>2
<1>5. ASSUME NEW ev, NEW kind, Answers(ev, kind) PROVE OrderInv'
    <2>1. /\ Place(ev, sec) /\ ev \in EventInfo /\ stage = "run" /\ stage' = "done"
          /\ sec' = sec /\ pending' = Append(pending, ev)
        BY Zenon, <1>5 DEF Answers, Fits
    <2>2. /\ Sealed \cap Early = {} /\ SnapStates \cap Early = {}
          /\ "SnapDealsRecoverDealIDs" \in Late /\ {"GetTicket", "PreCommit1"} \cap Early = {}
        BY Zenon DEF Sealed, Early, SnapStates, Late, Live
    <2>3. Located(ev, sec)
        BY Zenon, <2>1, <2>2 DEF Place, Located
    <2> QED
        BY Zenon, <1>2, <2>1, <2>3
<1>6. ASSUME NEW q, NEW p, Replans(q, p) PROVE OrderInv'
    <2>1. /\ sec' = p.sec /\ Len(q) \in Nat /\ PlanOf(sec, q, p) /\ Queued(q)
          /\ p.n \in 0 .. Len(q)
          /\ \A j \in 1 .. Len(pending') : p.n + j \in 1 .. Len(q) /\ pending'[j] = q[p.n + j]
          /\ stage' = "run" => ~p.err
        BY Zenon, <1>6, ReplanEvents
    <2>2. CASE sec'.State = "ReleaseSectorKeyFailed"
        BY Zenon, <1>6, <2>2, <1>KeptOrder
    <2>3. CASE sec.State = "Committing" /\ FromCommitting(sec, q, p) /\ TakesRestart(q, p)
        <3>0. p.n \in 0 .. Len(q) /\ sec.State \notin Owners
            BY Zenon, <2>3, OwnMoves DEF FromCommitting
        <3>1. CASE sec'.State = "Committing"
            <4>1. ASSUME NEW j \in 1 .. Len(pending') PROVE Located(pending'[j], sec)
                <5>1. p.n + j \in 1 .. Len(q) /\ pending'[j] = q[p.n + j]
                    BY Zenon, <2>1
                <5>2. Len(q) = 1 => p.n = 0 /\ p.n + j = 1
                    BY <2>1, <5>1
                <5>3. ~(Len(q) = 1 /\ pending'[j].e = "SectorRestart")
                    BY <2>3, <5>1, <5>2 DEF TakesRestart
                <5> QED
                    BY Zenon, <2>1, <5>1, <5>3, QueuedOrder
            <4>2. \A f : Located(f, sec) => Located(f, sec')
                BY Zenon, <2>3, <3>1 DEF Located
            <4>3. Own(sec'.State) = {}
                BY Zenon, <3>1 DEF Own
            <4> QED
                BY Zenon, <4>1, <4>2, <4>3 DEF OrderInv, Ordered
        <3>2. ASSUME NEW j \in 1 .. p.n, <<q[j].e, p.sec.State>> \in CommittingMoves
              PROVE  OrderInv'
            <4>1. j \in 1 .. Len(q) /\ j <= p.n
                BY <3>0
            <4>2. Goes(sec, q[j], sec')
                BY Zenon, <2>1, <2>3, <3>2 DEF FromCommitting, Goes
            <4> QED
                BY Zenon, <1>6, <3>0, <4>1, <4>2, <1>MovedOrder
        <3> QED
            BY Zenon, <2>1, <2>3, <3>1, <3>2 DEF FromCommitting
    <2>4. CASE Idled(sec, q, p) /\ sec'.State # "ReleaseSectorKeyFailed"
        <3>1. p.n = Len(q)
            BY Zenon, <2>1, <2>4 DEF Idled
        <3>2. ASSUME NEW j \in 1 .. Len(pending') PROVE FALSE
            BY <2>1, <3>1
        <3> QED
            BY Zenon, <3>2 DEF OrderInv, Ordered
    <2>5. ASSUME NEW i \in 1 .. Len(q), Took1(sec, q, i, p), sec'.State # "ReleaseSectorKeyFailed"
          PROVE  OrderInv'
        <3>1. p.n = i /\ Goes(sec, q[i], sec')
            BY Zenon, <2>1, <2>5 DEF Took1, Goes
        <3>2. ASSUME sec.State \in Owners, stage' = "run"
              PROVE  \/ q[i].e \in Own(sec.State) \/ q[i].e = "SectorRestart"
                     \/ sec'.State \in EndStates
            <4>1. Took(sec, q[i], p)
                BY Zenon, <2>5, <3>2 DEF Took1, Owners
            <4>2. Moved(sec, q[i], sec') \/ q[i].e = "SectorRestart"
                BY Zenon, <2>1, <3>2, <4>1 DEF Took
            <4>3. (\E y : <<sec.State, q[i].e, y>> \in Planners) => q[i].e \in Own(sec.State)
                BY Zenon, <3>2, OwnRows
            <4> QED
                BY Zenon, <4>2, <4>3, OwnMoves DEF Moved
        <3> QED
            BY <1>6, <2>1, <3>1, <3>2, <1>MovedOrder
    <2> QED
        BY Zenon, <2>1, <2>2, <2>3, <2>4, <2>5 DEF PlanOf
<1> QED
    BY <1>3, <1>4, <1>5, <1>6 DEF StepForm

-----------------------------------------------------------------------------
(* A sector is sealed when it is submitted (HandlersReady, CommR).         *)

(* No precommit can land on the chain c any more.                          *)
Stale(c) ==
    /\ c.pci = NoPci \/ c.pci.late
    /\ \A i \in 1 .. Len(c.msgs) :
          c.msgs[i].kind = "precommit" /\ c.msgs[i].st = "pending" => c.msgs[i].arg[1] < c.era

(* No precommit was sent.                                                  *)
Fresh(c) ==
    c.pci = NoPci /\ \A i \in 1 .. Len(c.msgs) : c.msgs[i].kind # "precommit"

(* A new ticket is drawn only when no precommit with the old one can land, *)
(* and what is submitted was sealed.                                       *)
Replica(s, c) ==
    /\ s.State \in Early => Fresh(c)
    /\ s.State = "GetTicket" \/ s.Ticket = 0 => Stale(c)
    /\ \A i \in 1 .. Len(c.msgs) : c.msgs[i].kind = "precommit" /\ c.msgs[i].st = "pending" =>
          c.msgs[i].arg[1] < c.era \/ c.msgs[i].arg[1] <= s.Ticket
    /\ s.State \in {"PreCommit2", "SealPreCommit2Failed"} => s.Ticket # 0
    /\ s.State \in Sealed \/ s.CommitMessage # 0 \/ s.Return \in HasReplica => s.CommR # 0
    /\ s.State = "Undefined" => s.CommitMessage = 0 /\ s.Return = "none"

(* What an event in the queue says of the ticket and the replica is so.    *)
Shows(ev, s, c) ==
    /\ ev.e = "SectorOldTicket" /\ s.State = "PreCommit1" => Stale(c)
    /\ ev.e = "SectorPreCommit1" /\ s.State = "PreCommit1" => s.Ticket # 0
    /\ ev.e = "SectorCommitFailed" \/ (ev.e = "SectorInvalidDealIDs" /\ ev.r \in HasReplica) =>
          s.CommR # 0

ReplicaInv ==
    /\ Replica(sec, chain)
    /\ \A j \in 1 .. Len(pending) : Shows(pending[j], sec, chain)

(* What the chain d may have that c had not: a precommit that was pending  *)
(* and not too old, or one that the sector s sends.                        *)
Ages(c, d, s) ==
    /\ c.era <= d.era
    /\ \/ d.pci = NoPci
       \/ c.pci # NoPci /\ (c.pci.late => d.pci.late)
       \/ \E i \in 1 .. Len(c.msgs) :
             c.msgs[i].kind = "precommit" /\ c.msgs[i].st = "pending" /\ c.msgs[i].arg[1] >= c.era
    /\ \A i \in 1 .. Len(d.msgs) : d.msgs[i].kind = "precommit" =>
          \/ /\ i \in 1 .. Len(c.msgs) /\ c.msgs[i].kind = "precommit"
             /\ d.msgs[i].arg = c.msgs[i].arg
             /\ d.msgs[i].st = "pending" => c.msgs[i].st = "pending"
          \/ s.State = "SubmitPreCommitBatch" /\ d.msgs[i].arg[1] = s.Ticket

(* Every step keeps what is known of the replica.                          *)
LEMMA ReplicaInvStep ==
    ASSUME Typed, ReadyInv, OrderInv, ReplicaInv, StepForm
    PROVE  ReplicaInv'
\* Where planCommitting, a return and the end lead to.
<1>ReplicaMoves.
      /\ \A m \in CommittingMoves : m[2] \notin {"Undefined", "GetTicket", "PreCommit2", "SealPreCommit2Failed"}
      /\ Returns \cap {"Undefined", "PreCommit2", "SealPreCommit2Failed"} = {}
      /\ Returns \cap Sealed \subseteq HasReplica
      /\ EndStates \cap (Sealed \cup Early \cup
                         {"Undefined", "GetTicket", "PreCommit1", "PreCommit2", "SealPreCommit2Failed"}) = {}
      /\ {"Terminating", "Removing"} \subseteq EndStates
      /\ "Committing" \in Sealed /\ "Undefined" \in Early /\ "none" \notin HasReplica
      /\ "GetTicket" \notin Early /\ "Undefined" \notin Sealed
    BY DEF CommittingMoves, Returns, Sealed, HasReplica, EndStates, Early
\* The ticket and the replica change only where they may.
<1>ReplicaWrites.
      ASSUME NEW s \in SectorInfo, NEW ev, NEW t, Goes(s, ev, t) \/ Rests(s, t), NEW c, Replica(s, c)
      PROVE  /\ t.Ticket = s.Ticket \/ s.State = "GetTicket" \/ s.State = "Undefined"
             /\ s.CommR # 0 /\ s.State # "Undefined" => t.CommR # 0
    <2> USE <1>ReplicaWrites
    <2>1. CASE <<s.State, ev.e, t.State>> \in Planners /\ Writes(s, ev, t)
        BY Zenon, <2>1, ReplicaRows DEF Writes, Replica
    <2>2. CASE Unwritten(s, t) \/ Returned(s, t)
        BY Zenon, <2>2 DEF Unwritten, Returned
    <2> QED
        BY Zenon, <2>1, <2>2 DEF Goes, Rests, Moved, Stayed
\* A chain without precommits is one on which none can land.
<1>FreshStale.
      ASSUME NEW c, Fresh(c)
      PROVE  Stale(c)
    BY Zenon, <1>FreshStale DEF Fresh, Stale
\* Every step of the chain, and every message pushed, is of this kind.
<1>ChainAges.
      ASSUME Typed, Sent \/ ChainSteps
      PROVE  chain' \in ChainInfo /\ Ages(chain, chain', sec)
    <2> USE <1>ChainAges
    <2>0. /\ chain \in ChainInfo /\ Len(chain.msgs) \in Nat /\ sec \in SectorInfo
          /\ chain.era \in 1 .. 2 /\ chain.era <= chain.era
        BY ChainNumbers DEF Typed
    <2>1. chain' \in ChainInfo
        BY <2>0, Zenon DEF Sent, ChainSteps, Appends, Elapses, Executes
    <2>2. CASE UNCHANGED chain
        BY Zenon, <2>0, <2>1, <2>2 DEF Ages
    <2>3. ASSUME NEW ev, NEW kind, Fits(ev, sec, chain, kind), Appends(chain, chain', kind), kind # "none"
          PROVE  Ages(chain, chain', sec)
        <3>1. /\ kind \in {"none", "precommit", "commit", "update", "terminate"}
              /\ kind = "precommit" => sec.State = "SubmitPreCommitBatch"
            BY Zenon, <2>3 DEF Fits, Records
        <3> DEFINE m == [kind |-> kind, arg |-> MsgArg(kind), st |-> "pending"]
        <3>2. /\ SameLedger(chain, chain') /\ Len(chain'.msgs) = Len(chain.msgs) + 1
              /\ chain'.msgs[Len(chain'.msgs)] = m
              /\ \A j \in 1 .. Len(chain.msgs) : chain'.msgs[j] = chain.msgs[j]
            BY Zenon, <2>3 DEF Appends
        <3>3. m.kind = kind /\ (kind = "precommit" => m.arg[1] = sec.Ticket)
            BY Zenon DEF MsgArg
        <3> HIDE DEF m
        <3>4. ASSUME NEW i \in 1 .. Len(chain'.msgs), chain'.msgs[i].kind = "precommit"
              PROVE  \/ i \in 1 .. Len(chain.msgs) /\ chain'.msgs[i] = chain.msgs[i]
                     \/ sec.State = "SubmitPreCommitBatch" /\ chain'.msgs[i].arg[1] = sec.Ticket
            <4>1. CASE i \in 1 .. Len(chain.msgs)
                BY Zenon, <3>2, <4>1
            <4>2. CASE i = Len(chain'.msgs)
                BY Zenon, <3>1, <3>2, <3>3, <3>4, <4>2
            <4> QED
                BY <2>0, <3>2, <4>1, <4>2
        <3> QED
            BY Zenon, <2>0, <3>2, <3>4 DEF Ages, SameLedger
    <2>4. ASSUME NEW i, NEW st, i \in 1 .. Len(chain.msgs), Executes(chain, chain', i, st)
          PROVE  Ages(chain, chain', sec)
        <3>1. i \in 1 .. Len(chain.msgs)
            BY Zenon, <2>4
        <3>2. /\ SameMessages(chain, chain', i) /\ chain'.msgs[i].st = st /\ st # "pending"
              /\ chain.msgs[i].st = "pending"
              /\ SameLedger(chain, chain') \/ Effect(chain, chain', chain.msgs[i])
            BY Zenon, <2>4 DEF Executes
        <3>3. chain'.era = chain.era
            BY Zenon, <3>2 DEF SameLedger, Effect
        <3>4. \/ chain'.pci = NoPci
              \/ chain.pci # NoPci /\ (chain.pci.late => chain'.pci.late)
              \/ chain.msgs[i].kind = "precommit" /\ chain.msgs[i].arg[1] >= chain.era
            BY Zenon, <3>2 DEF SameLedger, Effect
        <3>5. ASSUME NEW j \in 1 .. Len(chain'.msgs), chain'.msgs[j].kind = "precommit"
              PROVE  /\ j \in 1 .. Len(chain.msgs) /\ chain.msgs[j].kind = "precommit"
                     /\ chain'.msgs[j].arg = chain.msgs[j].arg
                     /\ chain'.msgs[j].st = "pending" => chain.msgs[j].st = "pending"
            BY Zenon, <3>2, <3>5 DEF SameMessages
        <3>6. \/ chain'.pci = NoPci
              \/ chain.pci # NoPci /\ (chain.pci.late => chain'.pci.late)
              \/ \E j \in 1 .. Len(chain.msgs) :
                    /\ chain.msgs[j].kind = "precommit" /\ chain.msgs[j].st = "pending"
                    /\ chain.msgs[j].arg[1] >= chain.era
            BY <3>1, <3>2, <3>4, Zenon
        <3>7. chain.era <= chain'.era
            BY Zenon, <2>0, <3>3
        <3> QED
            BY Zenon, <2>1, <3>5, <3>6, <3>7 DEF Ages
    <2>5. CASE Elapses(chain, chain')
        BY Zenon, <2>0, <2>5 DEF Elapses, Ages
    <2>6. ASSUME NEW ev, NEW kind, Fits(ev, sec, chain, kind), Appends(chain, chain', kind)
          PROVE  Ages(chain, chain', sec)
        <3>1. kind = "none" => UNCHANGED chain
            BY Zenon, <2>6 DEF Appends
        <3> QED
            BY Zenon, <2>2, <2>3, <2>6, <3>1
    <2> QED
        BY Zenon, <2>1, <2>2, <2>4, <2>5, <2>6 DEF Sent, ChainSteps
\* A chain on which no precommit can land stays so.
<1>StaleAges.
      ASSUME NEW c \in ChainInfo, NEW d \in ChainInfo, NEW s \in SectorInfo, Ages(c, d, s), Stale(c),
             s.State # "SubmitPreCommitBatch" \/ s.Ticket = 0
      PROVE  Stale(d)
    <2> USE <1>StaleAges
    <2>0. /\ c.era \in 1 .. 2 /\ d.era \in 1 .. 2 /\ c.era <= d.era
          /\ \A i \in 1 .. Len(c.msgs) : c.msgs[i].arg[1] \in 0 .. 2
        BY Zenon, ChainNumbers DEF Ages
    <2>1. d.pci = NoPci \/ d.pci.late
        BY <2>0 DEF Ages, Stale
    <2>2. ASSUME NEW i \in 1 .. Len(d.msgs), d.msgs[i].kind = "precommit", d.msgs[i].st = "pending"
          PROVE  d.msgs[i].arg[1] < d.era
        <3>1. CASE /\ i \in 1 .. Len(c.msgs) /\ c.msgs[i].kind = "precommit"
                   /\ d.msgs[i].arg = c.msgs[i].arg /\ c.msgs[i].st = "pending"
            BY <2>0, <3>1 DEF Stale
        <3>2. CASE s.State = "SubmitPreCommitBatch" /\ d.msgs[i].arg[1] = s.Ticket
            BY <2>0, <3>2
        <3> QED
            BY Zenon, <2>2, <3>1, <3>2 DEF Ages
    <2> QED
        BY Zenon, <2>1, <2>2 DEF Stale
\* The sector's knowledge of its replica survives a step of the chain.
<1>ReplicaAges.
      ASSUME NEW c \in ChainInfo, NEW d \in ChainInfo, NEW s \in SectorInfo, Ages(c, d, s),
             Replica(s, c)
      PROVE  Replica(s, d) /\ \A ev : Shows(ev, s, c) => Shows(ev, s, d)
    <2> USE <1>ReplicaAges
    <2>0. /\ c.era \in 1 .. 2 /\ d.era \in 1 .. 2 /\ c.era <= d.era /\ s.Ticket \in 0 .. 2
          /\ \A i \in 1 .. Len(c.msgs) : c.msgs[i].arg[1] \in 0 .. 2
        BY Zenon, ChainNumbers DEF Ages, SectorInfo
    <2>1. s.State \in Early => Fresh(d)
        <3>1. "SubmitPreCommitBatch" \notin Early
            BY Zenon DEF Early
        <3> QED
            BY Zenon, <3>1 DEF Replica, Fresh, Ages
    <2>2. s.State = "GetTicket" \/ s.Ticket = 0 => Stale(d)
        BY Zenon, <1>StaleAges DEF Replica
    <2>3. ASSUME NEW i \in 1 .. Len(d.msgs), d.msgs[i].kind = "precommit", d.msgs[i].st = "pending"
          PROVE  d.msgs[i].arg[1] < d.era \/ d.msgs[i].arg[1] <= s.Ticket
        <3>1. CASE /\ i \in 1 .. Len(c.msgs) /\ c.msgs[i].kind = "precommit"
                   /\ d.msgs[i].arg = c.msgs[i].arg /\ c.msgs[i].st = "pending"
            BY <2>0, <3>1 DEF Replica
        <3>2. CASE d.msgs[i].arg[1] = s.Ticket
            BY <2>0, <3>2
        <3> QED
            BY Zenon, <2>3, <3>1, <3>2 DEF Ages
    <2>4. Replica(s, d)
        BY Zenon, <2>1, <2>2, <2>3 DEF Replica
    <2>5. ASSUME NEW ev, Shows(ev, s, c) PROVE Shows(ev, s, d)
        BY Zenon, <2>5, <1>StaleAges DEF Shows
    <2> QED
        BY Zenon, <2>4, <2>5
\* An event that says what is so leaves a sector whose replica is known.
<1>GoesReplica.
      ASSUME NEW s \in SectorInfo, NEW ev, NEW t \in SectorInfo, NEW c \in ChainInfo,
             Goes(s, ev, t) \/ Rests(s, t), Ready(s), Asks(ev, s), Replica(s, c), Shows(ev, s, c)
      PROVE  Replica(t, c)
    <2> USE <1>GoesReplica
    <2>0. /\ s.Return \in Returns /\ s.Ticket \in 0 .. 2 /\ t.Ticket \in 0 .. 2
          /\ s.State \in Early => Fresh(c) /\ Stale(c)
        BY Zenon, <1>FreshStale DEF SectorInfo, Replica
    <2>1. t.State \in Early => Fresh(c)
        BY Zenon, <2>0, GoesOwners DEF Rests
    <2>2. ASSUME NEW i \in 1 .. Len(c.msgs), c.msgs[i].kind = "precommit", c.msgs[i].st = "pending"
          PROVE  c.msgs[i].arg[1] < c.era \/ c.msgs[i].arg[1] <= t.Ticket
        <3>1. CASE t.Ticket = s.Ticket
            BY Zenon, <2>2, <3>1 DEF Replica
        <3>2. CASE s.State = "GetTicket" \/ s.State = "Undefined"
            BY Zenon, <2>0, <2>2, <3>2, <1>ReplicaMoves DEF Replica, Stale
        <3> QED
            BY Zenon, <3>1, <3>2, <1>ReplicaWrites
    <2>3. t.Ticket = 0 => Stale(c)
        BY Zenon, <2>0, <1>ReplicaWrites, <1>ReplicaMoves DEF Replica
    <2>4. CASE <<s.State, ev.e, t.State>> \in Planners /\ Writes(s, ev, t)
        <3>1. t.State = "GetTicket" => Stale(c)
            BY <2>0, <2>4, ReplicaRows DEF Shows
        <3>2. t.State \in {"PreCommit2", "SealPreCommit2Failed"} => t.Ticket # 0
            BY <2>4, ReplicaRows DEF Replica, Shows, Writes
        <3>3. t.State \in Sealed => t.CommR # 0
            <4>1. ev.e = "SectorPreCommit2" => t.CommR # 0
                BY <2>4, ReplicaRows DEF Replica, Writes
            <4>2. s.State \in Sealed \/ ev.e = "SectorCommitFailed" => s.CommR # 0
                BY Zenon DEF Replica, Shows
            <4> QED
                BY <2>4, <4>1, <4>2, ReplicaRows, <1>ReplicaWrites, <1>ReplicaMoves
        <3>4. t.CommitMessage # 0 => t.CommR # 0
            <4>1. CASE s.State = "Undefined"
                BY <2>4, <4>1, ReplicaRows, <1>ReplicaMoves DEF Replica, Writes
            <4>2. CASE s.State # "Undefined"
                BY <2>4, <4>2, ReplicaRows, <1>ReplicaWrites DEF Replica, Writes
            <4> QED
                BY Zenon, <4>1, <4>2
        <3>5. t.Return \in HasReplica => t.CommR # 0
            <4>1. CASE ev.e = "SectorReceive"
                <5>1. ev.r \in HasReplica => ev.r = "PreCommitting"
                    BY Zenon, <4>1 DEF Asks, HasReplica
                <5> QED
                    BY Zenon, <2>4, <4>1, <5>1 DEF Writes
            <4>2. CASE ev.e = "SectorInvalidDealIDs"
                BY Zenon, <2>4, <4>2 DEF Shows, Writes
            <4>3. CASE ev.e \notin {"SectorReceive", "SectorInvalidDealIDs"}
                <5>1. t.Return = s.Return
                    BY Zenon, <2>4, <4>3 DEF Writes
                <5> QED
                    BY Zenon, <5>1, <1>ReplicaWrites, <1>ReplicaMoves DEF Replica
            <4> QED
                BY Zenon, <4>1, <4>2, <4>3
        <3> QED
            BY Zenon, <2>1, <2>2, <2>3, <2>4, <3>1, <3>2, <3>3, <3>4, <3>5, ReplicaRows DEF Replica
    <2>5. CASE Unwritten(s, t) /\ t.State = s.State
        BY Zenon, <2>5 DEF Unwritten, Replica
    <2>6. CASE Unwritten(s, t) /\ t.State \in {"Terminating", "Removing"}
        <3>1. t.State \notin Sealed \cup Early \cup
                  {"Undefined", "GetTicket", "PreCommit1", "PreCommit2", "SealPreCommit2Failed"}
            BY Zenon, <2>6, <1>ReplicaMoves
        <3> QED
            BY Zenon, <2>6, <3>1 DEF Unwritten, Replica
    <2>7. CASE <<s.State, ev.e, "Return">> \in Planners /\ Returned(s, t)
        <3>1. s.State \in {"ReceiveSector", "RecoverDealIDs"} /\ t.State = s.Return /\ t.Return = "none"
            BY Zenon, <2>7, ReturningRows DEF Returned
        <3>2. t.State = "GetTicket" => Stale(c)
            BY Zenon, <2>0, <3>1 DEF Ready, Early
        <3>3. t.State \notin {"Undefined", "PreCommit2", "SealPreCommit2Failed"}
            BY Zenon, <2>0, <3>1, <1>ReplicaMoves
        <3>4. t.State \in Sealed => t.CommR # 0
            BY Zenon, <2>0, <2>7, <3>1, <1>ReplicaMoves DEF Returned, Replica
        <3>5. t.CommitMessage # 0 => t.CommR # 0
            BY Zenon, <2>7 DEF Returned, Replica
        <3> QED
            BY Zenon, <2>1, <2>2, <2>3, <3>1, <3>2, <3>3, <3>4, <3>5, <1>ReplicaMoves DEF Replica
    <2>8. CASE s.State = "Committing" /\ Unwritten(s, t) /\ <<ev.e, t.State>> \in CommittingMoves
        <3>1. t.State \notin {"Undefined", "GetTicket", "PreCommit2", "SealPreCommit2Failed"}
            BY Zenon, <2>8, <1>ReplicaMoves
        <3>2. t.CommR # 0
            BY Zenon, <2>8, <1>ReplicaMoves DEF Unwritten, Replica
        <3> QED
            BY Zenon, <2>1, <2>2, <2>3, <3>1, <3>2 DEF Replica
    <2> QED
        BY Zenon, <2>4, <2>5, <2>6, <2>7, <2>8 DEF Goes, Rests, Moved, Stayed
\* What follows in the queue is still so.
<1>GoesShows.
      ASSUME NEW s \in SectorInfo, NEW ev, NEW t, NEW c, Goes(s, ev, t) \/ Rests(s, t),
             Replica(s, c), NEW f, Shows(f, s, c), Located(f, s)
      PROVE  Shows(f, t, c)
    <2> USE <1>GoesShows
    <2>1. f.e \in {"SectorOldTicket", "SectorPreCommit1"} /\ t.State = "PreCommit1" => s.State = "PreCommit1"
        BY Zenon, GoesLate, <1>ReplicaMoves DEF Located
    <2>2. f.e \in {"SectorCommitFailed", "SectorInvalidDealIDs"} => s.State # "Undefined"
        BY Zenon, <1>ReplicaMoves DEF Located
    <2> QED
        BY Zenon, <2>1, <2>2, <1>ReplicaWrites DEF Shows
\* What a handler answers of the ticket and the replica is so: a ticket is
\* too old, or still good, as it looked (handlePreCommit1), and what it
\* submitted was sealed.
<1>AnswerShows.
      ASSUME NEW s \in SectorInfo, NEW c \in ChainInfo, NEW ev, Place(ev, s), Tells(ev, s, c),
             Replica(s, c)
      PROVE  Shows(ev, s, c)
    <2> USE <1>AnswerShows
    <2>0. /\ c.era \in 1 .. 2 /\ s.Ticket \in 0 .. 2
          /\ \A i \in 1 .. Len(c.msgs) : c.msgs[i].arg[1] \in 0 .. 2
        BY Zenon, ChainNumbers DEF SectorInfo
    <2>1. ev.e = "SectorOldTicket" => Stale(c)
        <3> SUFFICES ASSUME ev.e = "SectorOldTicket" PROVE Stale(c)
            BY Zenon
        <3>1. s.Ticket < c.era /\ (c.pci = NoPci \/ c.pci.late)
            BY Zenon DEF Tells
        <3>2. ASSUME NEW i \in 1 .. Len(c.msgs), c.msgs[i].kind = "precommit", c.msgs[i].st = "pending"
              PROVE  c.msgs[i].arg[1] < c.era
            BY <2>0, <3>1, <3>2 DEF Replica
        <3> QED
            BY Zenon, <3>1, <3>2 DEF Stale
    <2>2. ASSUME ev.e = "SectorPreCommit1", s.Ticket = 0 PROVE FALSE
        <3>1. s.Ticket >= c.era \/ (c.pci # NoPci /\ ~c.pci.late)
            BY Zenon, <2>2 DEF Tells
        <3>2. c.pci = NoPci \/ c.pci.late
            BY Zenon, <2>2 DEF Replica, Stale
        <3> QED
            BY <2>0, <2>2, <3>1, <3>2
    <2>3. ev.e = "SectorCommitFailed" \/ (ev.e = "SectorInvalidDealIDs" /\ ev.r \in HasReplica) =>
              s.CommR # 0
        BY Zenon DEF Place, Replica, HasReplica
    <2> QED
        BY Zenon, <2>1, <2>2, <2>3 DEF Shows
<1>0. /\ Replica(sec, chain) /\ Ready(sec) /\ sec \in SectorInfo /\ chain \in ChainInfo
      /\ pending \in Seq(EventInfo) /\ Len(pending) \in Nat
      /\ \A j \in 1 .. Len(pending) :
            /\ Shows(pending[j], sec, chain) /\ Located(pending[j], sec) /\ Asks(pending[j], sec)
    BY DEF ReplicaInv, ReadyInv, OrderInv, Typed
<1>1. ASSUME Sent \/ ChainSteps
      PROVE  /\ chain' \in ChainInfo /\ Replica(sec, chain')
             /\ \A ev : Shows(ev, sec, chain) => Shows(ev, sec, chain')
    <2>1. chain' \in ChainInfo /\ Ages(chain, chain', sec)
        BY Zenon, <1>1, <1>ChainAges
    <2> QED
        BY Zenon, <1>0, <2>1, <1>ReplicaAges
<1>2. ASSUME Sent \/ ChainSteps, UNCHANGED <<sec, pending>>
      PROVE  ReplicaInv'
    BY Zenon, <1>0, <1>1, <1>2 DEF ReplicaInv
<1>3. ASSUME Sent, NEW ev \in EventInfo, Shows(ev, sec, chain),
             sec' = sec, pending' = Append(pending, ev)
      PROVE  ReplicaInv'
    <2>1. Replica(sec, chain') /\ \A f : Shows(f, sec, chain) => Shows(f, sec, chain')
        BY Zenon, <1>1, <1>3
    <2>2. Len(pending') = Len(pending) + 1
        BY <1>0, <1>3
    <2>3. ASSUME NEW j \in 1 .. Len(pending') PROVE Shows(pending'[j], sec, chain)
        BY <1>0, <1>3, <2>2
    <2> QED
        BY Zenon, <1>3, <2>1, <2>3 DEF ReplicaInv
<1>4. ASSUME NEW ev, Arrives(ev) PROVE Shows(ev, sec, chain) /\ Asks(ev, sec)
    BY Zenon, <1>4 DEF Arrives, OutsideNames, Creates, Shows, Asks
<1>5. CASE Calm
    BY Zenon, <1>2, <1>5 DEF Calm, Sent
<1>6. CASE ChainSteps
    BY Zenon, <1>2, <1>6 DEF ChainSteps
<1>7. ASSUME NEW ev, Adds(ev) PROVE ReplicaInv'
    <2>1. ev \in EventInfo /\ Arrives(ev) /\ Sent /\ sec' = sec /\ pending' = Append(pending, ev)
        BY Zenon, <1>7, OutsideArrives DEF Adds, Sent
    <2> QED
        BY Zenon, <1>3, <1>4, <2>1
<1>8. ASSUME NEW ev, NEW kind, Answers(ev, kind) PROVE ReplicaInv'
    <2>1. /\ ev \in EventInfo /\ Place(ev, sec) /\ Tells(ev, sec, chain) /\ Sent
          /\ sec' = sec /\ pending' = Append(pending, ev)
        BY Zenon, <1>8 DEF Answers, Fits, Sent
    <2>2. Shows(ev, sec, chain)
        BY Zenon, <1>0, <2>1, <1>AnswerShows
    <2> QED
        BY Zenon, <1>3, <2>1, <2>2
<1>9. ASSUME NEW q, NEW p, Replans(q, p) PROVE ReplicaInv'
    <2>1. /\ sec' \in SectorInfo /\ Len(q) \in Nat /\ Queued(q) /\ Sent
          /\ Rests(sec, sec') \/ \E i \in 1 .. Len(q) : Goes(sec, q[i], sec')
          /\ \A j \in 1 .. Len(pending') : p.n + j \in 1 .. Len(q) /\ pending'[j] = q[p.n + j]
        BY Zenon, <1>9, ReplanEvents
    <2>2. /\ chain' \in ChainInfo /\ Replica(sec, chain')
          /\ \A ev : Shows(ev, sec, chain) => Shows(ev, sec, chain')
        BY Zenon, <1>1, <2>1
    <2>3. ASSUME NEW i \in 1 .. Len(q)
          PROVE  /\ Shows(q[i], sec, chain') /\ Asks(q[i], sec)
                 /\ Located(q[i], sec) \/ q[i].e = "SectorRestart"
        <3>1. Shows(q[i], sec, chain) /\ Asks(q[i], sec)
            BY Zenon, <1>0, <1>4, <2>1, QueuedEvents
        <3>2. Located(q[i], sec) \/ q[i].e = "SectorRestart"
            BY Zenon, <2>1, QueuedOrder
        <3> QED
            BY Zenon, <2>2, <3>1, <3>2
    <2>4. ASSUME NEW i \in 1 .. Len(q), Goes(sec, q[i], sec') \/ Rests(sec, sec')
          PROVE  ReplicaInv'
        <3>1. Replica(sec', chain')
            BY Zenon, <1>0, <2>1, <2>2, <2>3, <2>4, <1>GoesReplica
        <3>2. ASSUME NEW j \in 1 .. Len(pending') PROVE Shows(pending'[j], sec', chain')
            <4>1. /\ Shows(pending'[j], sec, chain')
                  /\ Located(pending'[j], sec) \/ pending'[j].e = "SectorRestart"
                BY Zenon, <2>1, <2>3
            <4>2. CASE pending'[j].e = "SectorRestart"
                BY Zenon, <4>2 DEF Shows
            <4> QED
                BY Zenon, <1>0, <2>2, <2>4, <4>1, <4>2, <1>GoesShows
        <3> QED
            BY Zenon, <3>1, <3>2 DEF ReplicaInv
    <2>5. CASE Len(q) = 0 /\ Rests(sec, sec')
        <3>1. Replica(sec', chain')
            BY Zenon, <2>2, <2>5 DEF Rests, Unwritten, Replica
        <3>2. ASSUME NEW j \in 1 .. Len(pending') PROVE FALSE
            <4>1. p.n + j \in 1 .. Len(q)
                BY Zenon, <2>1
            <4> QED
                BY <2>5, <4>1
        <3> QED
            BY Zenon, <3>1, <3>2 DEF ReplicaInv
    <2> QED
        <3>1. CASE Len(q) = 0
            BY <2>1, <2>5, <3>1
        <3>2. CASE Len(q) # 0
            <4>1. 1 \in 1 .. Len(q)
                BY <2>1, <3>2
            <4> QED
                BY Zenon, <2>1, <2>4, <4>1
        <3> QED
            BY Zenon, <3>1, <3>2
<1> QED
    BY Zenon, <1>5, <1>6, <1>7, <1>8, <1>9 DEF StepForm

(* What the sector records, its queue and the chain have to do with each   *)
(* other, between any two steps.                                           *)
SectorInv == ChainInv /\ ReadyInv /\ UpgradeInv /\ OrderInv /\ ReplicaInv

-----------------------------------------------------------------------------
(* Removal without a request: which states' handlers give a sector up, and *)
(* what becomes of the event.                                              *)

(* A SectorRemove that nobody asked for is in the queue only of a sector   *)
(* that ends, or whose handler just sent it instead of an answer; the      *)
(* machine itself sends SectorTerminate only to terminate again.           *)
Quits(s, q, g) ==
    \A j \in 1 .. Len(q) :
       /\ q[j].e = "SectorRemove" =>
             \/ s.State \in EndStates
             \/ s.State \in Quitters /\ g # "run" /\ \A k \in 1 .. Len(q) : q[k].e \notin Own(s.State)
       /\ q[j].e = "SectorTerminate" => s.State \in EndStates

QuitInv == ~asked => Quits(sec, pending, stage)

(* QuitInv is kept: an answer of a handler is the last word of its state,  *)
(* and what users send does not come between (StateMachine.run, plan).     *)
LEMMA QuitInvStep ==
    ASSUME Typed, OrderInv, QuitInv, StepForm, asked => asked'
    PROVE  QuitInv'
\* A sector whose handler gave up stays until it is removed: planning either
\* ends it, or runs no handler without a restart.
<1>QuitPlans.
      ASSUME NEW s \in SectorInfo, NEW q, NEW p, PlanOf(s, q, p), Len(q) \in Nat,
             s.State \in Quitters, \A k \in 1 .. Len(q) : q[k].e \notin Own(s.State)
      PROVE  \/ p.sec.State \in EndStates
             \/ /\ p.sec.State = s.State
                /\ \/ p.err \/ p.n = Len(q)
                   \/ \E i \in 1 .. Len(q) : q[i].e = "SectorRestart"
    <2> USE <1>QuitPlans
    <2>1. CASE Idled(s, q, p)
        BY Zenon, <2>1, QuitStates DEF Idled
    <2>2. ASSUME NEW i \in 1 .. Len(q), Took1(s, q, i, p)
          PROVE  \/ p.sec.State \in EndStates
                 \/ p.sec.State = s.State /\ (p.err \/ q[i].e = "SectorRestart")
        <3>1. Took(s, q[i], p)
            BY Zenon, <2>2, QuitStates DEF Took1
        <3>2. \A y : <<s.State, q[i].e, y>> \notin Planners
            BY Zenon, QuitStates, OwnRows, ExpiredRows
        <3>3. Moved(s, q[i], p.sec) => p.sec.State \in EndStates
            BY Zenon, <3>2, QuitStates DEF Moved
        <3> QED
            BY Zenon, <3>1, <3>3 DEF Took, Stayed
    <2> QED
        BY Zenon, <2>1, <2>2, QuitStates DEF PlanOf
<1> SUFFICES ASSUME ~asked' PROVE Quits(sec, pending, stage)'
    BY Zenon DEF QuitInv
<1>0. /\ sec \in SectorInfo /\ pending \in Seq(EventInfo) /\ Len(pending) \in Nat
      /\ Quits(sec, pending, stage) /\ Ordered(sec, pending, stage)
      /\ \A j \in 1 .. Len(pending) : Located(pending[j], sec)
    <2>1. sec \in SectorInfo /\ pending \in Seq(EventInfo)
        BY Zenon DEF Typed
    <2>2. Len(pending) \in Nat
        BY <2>1
    <2>3. Quits(sec, pending, stage)
        BY Zenon DEF QuitInv
    <2>4. /\ Ordered(sec, pending, stage)
          /\ \A j \in 1 .. Len(pending) : Located(pending[j], sec)
        BY Zenon DEF OrderInv
    <2> QED
        BY Zenon, <2>1, <2>2, <2>3, <2>4
<1>1. CASE Calm \/ ChainSteps
    BY Zenon, <1>0, <1>1 DEF Calm, ChainSteps, Quits
<1>2. ASSUME NEW ev, sec' = sec, pending' = Append(pending, ev), stage' = "run" => stage = "run",
             sec.State \in Quitters => ev.e \notin Own(sec.State) \/ stage = "run",
             ev.e = "SectorRemove" =>
                \/ sec.State \in EndStates
                \/ /\ sec.State \in Quitters /\ stage' # "run"
                   /\ \A k \in 1 .. Len(pending) : pending[k].e \notin Own(sec.State),
             ev.e = "SectorTerminate" => sec.State \in EndStates
      PROVE  Quits(sec, pending, stage)'
    <2>1. /\ Len(pending') = Len(pending) + 1
          /\ \A j \in 1 .. Len(pending) : pending'[j] = pending[j]
          /\ pending'[Len(pending) + 1] = ev
        BY <1>0, <1>2
    <2>2. ASSUME NEW k \in 1 .. Len(pending') PROVE k \in 1 .. Len(pending) \/ k = Len(pending) + 1
        BY <1>0, <2>1
    <2>3. ASSUME NEW j \in 1 .. Len(pending'), pending'[j].e = "SectorTerminate"
          PROVE  sec.State \in EndStates
        BY Zenon, <1>0, <1>2, <2>1, <2>2, <2>3 DEF Quits
    <2>4. ASSUME NEW j \in 1 .. Len(pending'), pending'[j].e = "SectorRemove",
                 sec.State \notin EndStates
          PROVE  /\ sec.State \in Quitters /\ stage' # "run"
                 /\ \A k \in 1 .. Len(pending') : pending'[k].e \notin Own(sec.State)
        <3>1. /\ sec.State \in Quitters /\ stage' # "run" /\ ev.e \notin Own(sec.State)
              /\ \A k \in 1 .. Len(pending) : pending[k].e \notin Own(sec.State)
            <4>1. CASE j = Len(pending) + 1
                BY <1>2, <2>1, <2>4, <4>1, QuitStates
            <4>2. CASE j \in 1 .. Len(pending)
                BY Zenon, <1>0, <1>2, <2>1, <2>4, <4>2 DEF Quits
            <4> QED
                BY Zenon, <2>2, <4>1, <4>2
        <3> QED
            BY Zenon, <2>1, <2>2, <3>1
    <2> QED
        BY Zenon, <1>2, <2>3, <2>4 DEF Quits
<1>3. ASSUME NEW ev, Adds(ev) PROVE Quits(sec, pending, stage)'
    <2>1. /\ Outside(ev, sec, asked') /\ sec' = sec /\ stage' = stage
          /\ pending' = Append(pending, ev)
        BY Zenon, <1>3 DEF Adds
    <2>2. /\ ev.e \notin {"SectorRemove", "SectorTerminate"}
          /\ ev.e \in OutsideNames \/ sec.State = "Proving"
        BY Zenon, <2>1, QuitStates DEF Outside, OutsideNames
    <2> QED
        BY Zenon, <1>2, <2>1, <2>2, QuitStates, OwnEvents
<1>4. ASSUME NEW ev, NEW kind, Answers(ev, kind) PROVE Quits(sec, pending, stage)'
    <2>1. /\ Place(ev, sec) /\ stage = "run" /\ stage' = "done"
          /\ sec' = sec /\ pending' = Append(pending, ev)
        BY Zenon, <1>4 DEF Answers, Fits
    <2>2. \A k \in 1 .. Len(pending) : pending[k].e \notin Own(sec.State)
        BY Zenon, <1>0, <2>1 DEF Ordered
    <2>3. /\ ev.e = "SectorRemove" => sec.State \in Quitters \cup EndStates
          /\ ev.e = "SectorTerminate" => sec.State \in EndStates
        BY Zenon, <2>1, QuitStates DEF Place, Quitters
    <2> QED
        BY Zenon, <1>2, <2>1, <2>2, <2>3
<1>5. ASSUME NEW q, NEW p, Replans(q, p) PROVE Quits(sec, pending, stage)'
    <2>1. /\ sec' = p.sec /\ Len(q) \in Nat /\ PlanOf(sec, q, p) /\ Queued(q)
          /\ Rests(sec, sec') \/ \E i \in 1 .. Len(q) : Goes(sec, q[i], sec')
          /\ \A j \in 1 .. Len(pending') : p.n + j \in 1 .. Len(q) /\ pending'[j] = q[p.n + j]
          /\ stage' = "run" => ~p.err
        BY <1>5, ReplanEvents
    <2>2. ASSUME NEW j \in 1 .. Len(pending'), pending'[j].e \in {"SectorRemove", "SectorTerminate"}
          PROVE  q = pending
        <3>1. p.n + j \in 1 .. Len(q) /\ pending'[j] = q[p.n + j]
            BY Zenon, <2>1
        <3>2. CASE Len(q) = 1
            <4>1. q[1].e \in {"SectorRemove", "SectorTerminate"}
                BY <2>2, <3>1, <3>2
            <4> QED
                BY Zenon, <2>1, <4>1, QuitStates DEF Queued, Outside, Creates
        <3> QED
            BY Zenon, <2>1, <3>2 DEF Queued
    <2>3. sec.State \in EndStates => sec'.State \in EndStates
        BY Zenon, <2>1, GoesLate
    <2>4. ASSUME NEW j \in 1 .. Len(pending'), pending'[j].e = "SectorTerminate"
          PROVE  sec'.State \in EndStates
        BY Zenon, <1>0, <2>1, <2>2, <2>3, <2>4 DEF Quits
    <2>5. ASSUME NEW j \in 1 .. Len(pending'), pending'[j].e = "SectorRemove",
                 sec'.State \notin EndStates
          PROVE  /\ sec'.State \in Quitters /\ stage' # "run"
                 /\ \A k \in 1 .. Len(pending') : pending'[k].e \notin Own(sec'.State)
        <3>1. /\ p.n + j \in 1 .. Len(q) /\ pending'[j] = q[p.n + j] /\ q = pending
              /\ sec.State \notin EndStates
            BY Zenon, <2>1, <2>2, <2>3, <2>5
        <3>2. sec.State \in Quitters /\ \A k \in 1 .. Len(q) : q[k].e \notin Own(sec.State)
            BY Zenon, <1>0, <2>5, <3>1 DEF Quits
        <3>3. \A i \in 1 .. Len(q) : q[i].e # "SectorRestart"
            BY Zenon, <1>0, <3>1, <3>2, QuitStates DEF Located
        <3>4. p.n # Len(q)
            <4>1. Len(q) \in Nat /\ p.n + j \in 1 .. Len(q) /\ j \in 1 .. Len(pending')
                BY Zenon, <2>1, <3>1, <2>5
            <4> QED
                BY <4>1
        <3>5. sec'.State = sec.State /\ p.err
            <4>1. \/ sec'.State \in EndStates
                  \/ /\ sec'.State = sec.State
                     /\ \/ p.err \/ p.n = Len(q)
                        \/ \E i \in 1 .. Len(q) : q[i].e = "SectorRestart"
                BY Zenon, <1>0, <2>1, <3>2, <1>QuitPlans
            <4> QED
                BY Zenon, <2>5, <3>3, <3>4, <4>1
        <3> QED
            BY Zenon, <2>1, <3>2, <3>5
    <2> QED
        BY Zenon, <2>4, <2>5 DEF Quits
<1> QED
    BY Zenon, <1>1, <1>3, <1>4, <1>5 DEF StepForm

-----------------------------------------------------------------------------
(* Pieces: where a sector is while the deal input may assign pieces to it, *)
(* and what the queue then holds.                                          *)

(* Pieces are assigned, or may be, only while they can be added or a       *)
(* handler is about to answer them; and when no handler runs, the event    *)
(* that goes on with them is in the queue.                                 *)
Pieces(s, q, g, m) ==
    /\ m.open \/ m.assigned => s.State \in Filling \/ (s.State \in Drops /\ g = "run")
    /\ s.State \in Filling /\ g # "run" /\ (s.State \in WaitsDeals => m.assigned) =>
          \E j \in 1 .. Len(q) : q[j].e \in Awaits(s.State)

PieceInv == ~asked => Pieces(sec, pending, stage, mem)

(* Planning keeps Pieces: an error of the planner takes no event that goes *)
(* on with a piece, and a move that leaves the states that add pieces runs *)
(* a handler that answers them.                                            *)
LEMMA PlanPieces ==
    ASSUME Typed, NEW q, NEW p, Planning(q, p), Len(q) \in Nat, NEW m,
           \A i \in 1 .. Len(q) : q[i].e \in {"SectorTerminate", "SectorRemove"} =>
              sec.State \notin Filling,
           \/ Pieces(sec, q, "done", m)
           \/ Len(q) = 1 /\ q[1].e = "SectorRestart" /\ ~m.open /\ ~m.assigned
    PROVE  Pieces(sec', pending', stage', m)
\* A state and an event of the tables are known to fsmPlanners.
<1>MoveKnown.
      ASSUME NEW x, NEW e, NEW y, <<x, e, y>> \in Planners
      PROVE  <<x, e>> \in DOMAIN fsmPlanners
    BY <1>MoveKnown DEF fsmPlanners
\* Planning in a state that adds pieces leads to one that adds or answers
\* them; an error leaves the sector there, and the events that go on with a
\* piece in the queue (planOne).
<1>PlanFilling.
      ASSUME NEW s \in SectorInfo, PlanOf(s, q, p), Len(q) \in Nat,
             s.State \in Filling,
             \A i \in 1 .. Len(q) : q[i].e \notin {"SectorTerminate", "SectorRemove"}
      PROVE  /\ p.sec.State \in Filling \cup Drops
             /\ p.err => /\ p.sec.State = s.State
                         /\ \A j \in 1 .. Len(q) : q[j].e \in Awaits(s.State) => j > p.n
                         /\ Len(q) = 1 => q[1].e # "SectorRestart"
    <2> USE <1>PlanFilling
    <2>1. CASE Idled(s, q, p)
        BY Zenon, <2>1 DEF Idled
    <2>2. ASSUME NEW i \in 1 .. Len(q), Took1(s, q, i, p)
          PROVE  /\ p.sec.State \in Filling \cup Drops
                 /\ p.err => /\ p.sec.State = s.State
                             /\ \A j \in 1 .. Len(q) : q[j].e \in Awaits(s.State) => j > p.n
                             /\ Len(q) = 1 => q[1].e # "SectorRestart"
        <3>1. Took(s, q[i], p) /\ \A j \in 1 .. i - 1 : Passed(s, q[j])
            BY Zenon, <2>2, FillingStates DEF Took1
        <3>2. <<s.State, q[i].e, "Return">> \notin Planners
            BY Zenon, ReturningRows, FillingStates
        <3>3. p.sec.State \in Filling \cup Drops
            <4>1. CASE Moved(s, q[i], p.sec)
                BY Zenon, <3>2, <4>1, FillingRows DEF Moved
            <4>2. CASE Stayed(s, q[i], p.sec)
                BY Zenon, <4>2 DEF Stayed
            <4> QED
                BY Zenon, <3>1, <4>1, <4>2 DEF Took
        <3>4. ASSUME p.err
              PROVE  /\ p.sec.State = s.State /\ q[i].e # "SectorRestart"
                     /\ <<s.State, q[i].e>> \notin DOMAIN fsmPlanners
            BY Zenon, <3>1, <3>2, <3>4 DEF Took, Stayed
        <3>5. ASSUME p.err, NEW j \in 1 .. Len(q), q[j].e \in Awaits(s.State)
              PROVE  j > p.n
            <4>1. <<s.State, q[j].e>> \in DOMAIN fsmPlanners /\ ~Passed(s, q[j])
                BY Zenon, <3>5, AwaitedRows, <1>MoveKnown DEF Passed
            <4>2. j # i /\ j \notin 1 .. i - 1
                BY Zenon, <3>1, <3>4, <3>5, <4>1
            <4>3. p.n = i
                BY Zenon, <2>2, <3>4, <3>5, FillingStates DEF Took1
            <4> QED
                BY <4>2, <4>3
        <3>6. Len(q) = 1 => i = 1
            OBVIOUS
        <3> QED
            BY Zenon, <3>3, <3>4, <3>5, <3>6
    <2> QED
        BY Zenon, <2>1, <2>2, FillingStates DEF PlanOf
\* A planner that leads to a state that adds pieces reports no error.
<1>PlanFills.
      ASSUME NEW s \in SectorInfo, PlanOf(s, q, p), Len(q) \in Nat,
             s.State \notin Filling, p.sec.State \in Filling
      PROVE  ~p.err
    <2> USE <1>PlanFills
    <2>1. CASE s.State = "Committing"
        BY Zenon, <2>1, FillingStates DEF PlanOf, FromCommitting
    <2>2. CASE Idled(s, q, p)
        BY Zenon, <2>2 DEF Idled
    <2>3. ASSUME NEW i \in 1 .. Len(q), Took1(s, q, i, p) PROVE ~p.err
        <3>1. Moved(s, q[i], p.sec)
            BY Zenon, <2>3 DEF Took1, Stayed
        <3>2. <<s.State, q[i].e, p.sec.State>> \in Planners
            BY Zenon, <3>1, FillingStates DEF Moved, Returned, SectorInfo
        <3>3. s.State \notin {"Removing", "AbortUpgrade"}
            BY Zenon, <3>2, FillingRows
        <3> QED
            BY Zenon, <2>3, <3>3 DEF Took1, Took, Stayed
    <2> QED
        BY Zenon, <2>1, <2>2, <2>3 DEF PlanOf
<1>1. /\ PlanOf(sec, q, p) /\ sec' = p.sec /\ sec \in SectorInfo /\ p.n \in 0 .. Len(q)
      /\ Len(pending') = Len(q) - p.n
      /\ \A j \in 1 .. Len(pending') : p.n + j \in 1 .. Len(q) /\ pending'[j] = q[p.n + j]
      /\ stage' # "run" => p.err \/ sec'.State \in {"Undefined", "Removed"}
    BY Zenon DEF Planning, Typed, Left, PlanOf
<1>2. CASE sec.State \in Filling
    <2>1. /\ sec'.State \in Filling \cup Drops
          /\ p.err => /\ sec'.State = sec.State
                      /\ \A j \in 1 .. Len(q) : q[j].e \in Awaits(sec.State) => j > p.n
                      /\ Len(q) = 1 => q[1].e # "SectorRestart"
        BY Zenon, <1>1, <1>2, <1>PlanFilling
    <2>2. stage' # "run" => p.err /\ sec'.State \in Filling
        BY Zenon, <1>1, <1>2, <2>1, FillingStates
    <2>3. ASSUME stage' # "run", sec.State \in WaitsDeals => m.assigned
          PROVE  \E j \in 1 .. Len(pending') : pending'[j].e \in Awaits(sec'.State)
        <3>1. PICK j \in 1 .. Len(q) : q[j].e \in Awaits(sec.State)
            BY Zenon, <1>2, <2>1, <2>2, <2>3 DEF Pieces
        <3>2. j - p.n \in 1 .. Len(pending') /\ p.n + (j - p.n) = j
            BY <1>1, <2>1, <2>2, <2>3, <3>1
        <3>3. pending'[j - p.n] = q[j]
            BY Zenon, <1>1, <3>2
        <3> QED
            BY Zenon, <2>1, <2>2, <2>3, <3>1, <3>2, <3>3
    <2> QED
        BY Zenon, <2>1, <2>2, <2>3 DEF Pieces
<1>3. CASE sec.State \notin Filling
    <2>1. ~m.open /\ ~m.assigned
        BY Zenon, <1>3 DEF Pieces
    <2>2. sec'.State \in Filling => stage' = "run"
        BY Zenon, <1>1, <1>3, <1>PlanFills, FillingStates
    <2> QED
        BY Zenon, <2>1, <2>2 DEF Pieces
<1> QED
    BY Zenon, <1>2, <1>3

-----------------------------------------------------------------------------
(* The planners. What plan makes of a queue is what PlanOf says of it.     *)

LOCAL INSTANCE WellFoundedInduction

(* Induction. It is stated for a set of numbers, not for a predicate: a    *)
(* proof uses it by naming the set of the numbers it is to hold for.       *)

(* The minimum by which a planner finds the first event that decides.      *)
LEMMA MinIn ==
    ASSUME NEW s \in SUBSET Nat, s # {}
    PROVE  Min(s) \in s /\ \A y \in s : Min(s) <= y
<1>1. s \subseteq Nat
    BY Zenon
<1>2. PICK x \in s : \A y \in s : ~(<<y, x>> \in OpToRel(<, Nat))
    BY Zenon, <1>1, NatLessThanWellFounded, WFMin
<1>3. ASSUME NEW y \in s PROVE x <= y
    <2>1. y < x => <<y, x>> \in OpToRel(<, Nat)
        BY Zenon, <1>1 DEF OpToRel
    <2>2. ~(y < x)
        BY Zenon, <1>2, <2>1
    <2> QED
        BY <1>1, <2>2
<1> QED
    BY Zenon, <1>3 DEF Min

(* A set that holds zero and is closed under successor holds every number. *)
LEMMA RoundByRound ==
    ASSUME NEW P, 0 \in P, \A n \in Nat : n \in P => n + 1 \in P
    PROVE  \A n \in Nat : n \in P
<1> DEFINE Bad == Nat \ P
<1>1. SUFFICES ASSUME Bad # {} PROVE FALSE
    BY Zenon
<1>2. PICK x \in Bad : \A y \in Bad : x <= y
    <2>1. Bad \in SUBSET Nat
        BY Zenon
    <2> HIDE DEF Bad
    <2> QED
        BY Zenon, <1>1, <2>1, MinIn
<1>3. x # 0 /\ x - 1 \in Nat /\ ~(x <= x - 1) /\ x - 1 + 1 = x
    OBVIOUS
<1>4. x - 1 \in P
    BY Zenon, <1>2, <1>3
<1> QED
    BY Zenon, <1>3, <1>4

(* f is what a loop over the sequence keeps after each of its rounds.      *)
IsRun(f, seq, V, base, G) ==
    /\ f \in [0 .. Len(seq) -> V] /\ f[0] = base
    /\ \A i \in 1 .. Len(seq) : f[i] = G[<<f[i - 1], seq[i]>>]

(* A loop over a sequence has an outcome after each of its rounds: the     *)
(* function that planCommitting is defined by exists.                      *)
LEMMA LoopRuns ==
    ASSUME NEW A, NEW seq \in Seq(A), NEW V, NEW base \in V, NEW G \in [V \X A -> V]
    PROVE  \E f : IsRun(f, seq, V, base, G)
<1> DEFINE n == Len(seq)
           Runs(f, k) == /\ f \in [0 .. k -> V] /\ f[0] = base
                         /\ \A i \in 1 .. k : f[i] = G[<<f[i - 1], seq[i]>>]
           P == {k \in Nat : k <= n => \E f : Runs(f, k)}
<1>0. n \in Nat
    OBVIOUS
<1>1. 0 \in P
    <2>1. Runs([i \in 0 .. 0 |-> base], 0)
        OBVIOUS
    <2> QED
        BY Zenon, <2>1
<1>2. ASSUME NEW k \in Nat, k \in P PROVE k + 1 \in P
    <2>1. SUFFICES ASSUME k + 1 <= n PROVE \E f : Runs(f, k + 1)
        OBVIOUS
    <2>2. PICK f : Runs(f, k)
        BY <1>0, <1>2, <2>1
    <2> DEFINE x == G[<<f[k], seq[k + 1]>>]
               g == [i \in 0 .. k + 1 |-> IF i <= k THEN f[i] ELSE x]
    <2>3. x \in V
        BY <1>0, <2>1, <2>2
    <2> HIDE DEF x
    <2>4. g \in [0 .. k + 1 -> V] /\ g[0] = base
        BY <2>2, <2>3
    <2>5. ASSUME NEW i \in 1 .. k + 1 PROVE g[i] = G[<<g[i - 1], seq[i]>>]
        <3>1. CASE i = k + 1
            BY <3>1 DEF x
        <3>2. CASE i # k + 1
            <4>1. i \in 1 .. k /\ i - 1 \in 0 .. k /\ i <= k /\ i - 1 <= k
                BY <3>2
            <4> QED
                BY <2>2, <4>1
        <3> QED
            BY Zenon, <3>1, <3>2
    <2> QED
        BY Zenon, <2>4, <2>5
<1>3. n \in P
    <2> HIDE DEF P
    <2> QED
        BY Zenon, <1>0, <1>1, <1>2, RoundByRound
<1> QED
    BY <1>0, <1>3 DEF IsRun

-----------------------------------------------------------------------------
(* The planners' tables.                                                   *)

(* A row of a planner's table is a state, an event and the next state      *)
(* (on, onReturning).                                                      *)
LEMMA RowOfPlanner ==
    ASSUME NEW states, NEW moves, NEW p \in Planner(states, moves)
    PROVE  p = <<p[1], p[2], p[3]>>
BY DEF Planner

(* The same for the rows of fsmPlanners.                                   *)
LEMMA RowOfPlanners ==
    ASSUME NEW p \in Planners
    PROVE  p = <<p[1], p[2], p[3]>>
<1>1. p \in SealingPlanners => \E states, moves : p \in Planner(states, moves)
    BY Zenon DEF SealingPlanners
<1>2. p \in SnapPlanners => \E states, moves : p \in Planner(states, moves)
    BY Zenon DEF SnapPlanners
<1>3. p \in FailurePlanners => \E states, moves : p \in Planner(states, moves)
    BY Zenon DEF FailurePlanners
<1>4. p \in SnapFailurePlanners => \E states, moves : p \in Planner(states, moves)
    BY Zenon DEF SnapFailurePlanners
<1> QED
    BY Zenon, <1>1, <1>2, <1>3, <1>4, RowOfPlanner DEF Planners

(* fsmPlanners takes a state it knows the event in to a next state of the  *)
(* tables.                                                                 *)
LEMMA KnownMove ==
    ASSUME NEW x, NEW e, <<x, e>> \in DOMAIN fsmPlanners
    PROVE  <<x, e, fsmPlanners[<<x, e>>]>> \in Planners
<1>1. PICK p \in Planners : <<x, e>> = <<p[1], p[2]>>
    BY Zenon DEF fsmPlanners
<1> DEFINE q == CHOOSE q \in Planners : q[1] = x /\ q[2] = e
<1>2. q \in Planners /\ q[1] = x /\ q[2] = e
    BY Zenon, <1>1
<1>3. fsmPlanners[<<x, e>>] = q[3]
    BY Zenon, <1>1 DEF fsmPlanners
<1>4. q = <<q[1], q[2], q[3]>>
    BY Zenon, <1>2, RowOfPlanners
<1> QED
    BY Zenon, <1>2, <1>3, <1>4

(* The count of invalid proofs stays a number (SectorRetryInvalidProof).   *)
LEMMA MinOfTwo ==
    ASSUME NEW a \in Nat
    PROVE  Min({a, 2}) \in Nat
<1>1. {a, 2} \in SUBSET Nat /\ {a, 2} # {}
    OBVIOUS
<1> QED
    BY Zenon, <1>1, MinIn

(* The apply methods of the events keep the types and write what they name *)
(* (fsm_events.go).                                                        *)
LEMMA ApplyWrites ==
    ASSUME NEW s \in SectorInfo, NEW ev \in EventInfo, NEW n \in Nat, Carries(ev, n)
    PROVE  /\ Apply(s, ev) \in SectorInfo
           /\ Apply(s, ev).State = s.State
           /\ Writes(s, ev, Apply(s, ev))
<1>1. CASE ev.e = "SectorReceive"
    <2> DEFINE t == [s EXCEPT !.Return = ev.r, !.Pieces = ev.v,
                      !.Ticket = IF ev.r = "PreCommitting" THEN 1 ELSE 0,
                      !.CommR = IF ev.r = "PreCommitting" THEN 1 ELSE 0]
    <2>1. Apply(s, ev) = t
        BY Zenon, <1>1 DEF Apply
    <2>2. ev.r \in Returns /\ ev.v \in 0 .. 2 /\ 0 \in 0 .. 2 /\ 1 \in 0 .. 2
        BY <1>1 DEF SectorInfo, EventInfo, Carries
    <2>3. t \in SectorInfo
        BY <2>2, Zenon DEF SectorInfo
    <2>4. t.State = s.State /\ Writes(s, ev, t)
        BY <1>1 DEF SectorInfo, Writes
    <2> QED
        BY <2>1, <2>3, <2>4, Zenon
<1>2. CASE ev.e = "SectorPieceAdded" /\ ev.v # 0
    <2> DEFINE t == [s EXCEPT !.Pieces = ev.v]
    <2>1. Apply(s, ev) = t
        BY Zenon, <1>2 DEF Apply
    <2>2. ev.v \in 0 .. 2
        BY Zenon, <1>2 DEF SectorInfo, EventInfo, Carries
    <2>3. t \in SectorInfo
        BY <2>2, Zenon DEF SectorInfo
    <2>4. t.State = s.State /\ Writes(s, ev, t)
        BY Zenon, <1>2 DEF SectorInfo, Writes
    <2> QED
        BY <2>1, <2>3, <2>4, Zenon
<1>3. CASE ev.e = "SectorTicket"
    <2> DEFINE t == [s EXCEPT !.Ticket = ev.v]
    <2>1. Apply(s, ev) = t
        BY Zenon, <1>3 DEF Apply
    <2>2. ev.v \in 0 .. 2
        BY Zenon, <1>3 DEF SectorInfo, EventInfo, Carries
    <2>3. t \in SectorInfo
        BY <2>2, Zenon DEF SectorInfo
    <2>4. t.State = s.State /\ Writes(s, ev, t)
        BY Zenon, <1>3 DEF SectorInfo, Writes
    <2> QED
        BY <2>1, <2>3, <2>4, Zenon
<1>4. CASE ev.e = "SectorPreCommit1"
    <2> DEFINE t == [s EXCEPT !.PreCommit2Fails = 0]
    <2>1. Apply(s, ev) = t
        BY Zenon, <1>4 DEF Apply
    <2>2. 0 \in Nat
        BY Zenon, <1>4 DEF SectorInfo, EventInfo, Carries
    <2>3. t \in SectorInfo
        BY <2>2, Zenon DEF SectorInfo
    <2>4. t.State = s.State /\ Writes(s, ev, t)
        BY Zenon, <1>4 DEF SectorInfo, Writes
    <2> QED
        BY <2>1, <2>3, <2>4, Zenon
<1>5. CASE ev.e = "SectorPreCommit2"
    <2> DEFINE t == [s EXCEPT !.CommR = s.Ticket]
    <2>1. Apply(s, ev) = t
        BY Zenon, <1>5 DEF Apply
    <2>2. s.Ticket \in 0 .. 2
        BY Zenon, <1>5 DEF SectorInfo, EventInfo, Carries
    <2>3. t \in SectorInfo
        BY <2>2, Zenon DEF SectorInfo
    <2>4. t.State = s.State /\ Writes(s, ev, t)
        BY Zenon, <1>5 DEF SectorInfo, Writes
    <2> QED
        BY <2>1, <2>3, <2>4, Zenon
<1>6. CASE ev.e = "SectorSealPreCommit1Failed"
    <2> DEFINE t == [s EXCEPT !.InvalidProofs = 0, !.PreCommit2Fails = 0,
                      !.PreCommit1Fails = s.PreCommit1Fails + 1]
    <2>1. Apply(s, ev) = t
        BY Zenon, <1>6 DEF Apply
    <2>2. 0 \in Nat /\ s.PreCommit1Fails + 1 \in Nat
        BY <1>6 DEF SectorInfo, EventInfo, Carries
    <2>3. t \in SectorInfo
        BY <2>2, Zenon DEF SectorInfo
    <2>4. t.State = s.State /\ Writes(s, ev, t)
        BY Zenon, <1>6 DEF SectorInfo, Writes
    <2> QED
        BY <2>1, <2>3, <2>4, Zenon
<1>7. CASE ev.e = "SectorSealPreCommit2Failed"
    <2> DEFINE t == [s EXCEPT !.InvalidProofs = 0, !.PreCommit2Fails = s.PreCommit2Fails + 1]
    <2>1. Apply(s, ev) = t
        BY Zenon, <1>7 DEF Apply
    <2>2. 0 \in Nat /\ s.PreCommit2Fails + 1 \in Nat
        BY <1>7 DEF SectorInfo, EventInfo, Carries
    <2>3. t \in SectorInfo
        BY <2>2, Zenon DEF SectorInfo
    <2>4. t.State = s.State /\ Writes(s, ev, t)
        BY Zenon, <1>7 DEF SectorInfo, Writes
    <2> QED
        BY <2>1, <2>3, <2>4, Zenon
<1>8. CASE ev.e = "SectorPreCommitBatchSent"
    <2> DEFINE t == [s EXCEPT !.PreCommitMessage = ev.v]
    <2>1. Apply(s, ev) = t
        BY Zenon, <1>8 DEF Apply
    <2>2. ev.v \in Nat
        BY Zenon, <1>8 DEF SectorInfo, EventInfo, Carries
    <2>3. t \in SectorInfo
        BY <2>2, Zenon DEF SectorInfo
    <2>4. t.State = s.State /\ Writes(s, ev, t)
        BY Zenon, <1>8 DEF SectorInfo, Writes
    <2> QED
        BY <2>1, <2>3, <2>4, Zenon
<1>9. CASE ev.e = "SectorSeedReady"
    <2> DEFINE t == [s EXCEPT !.Seed = ev.v]
    <2>1. Apply(s, ev) = t
        BY Zenon, <1>9 DEF Apply
    <2>2. ev.v \in Nat
        BY Zenon, <1>9 DEF SectorInfo, EventInfo, Carries
    <2>3. t \in SectorInfo
        BY <2>2, Zenon DEF SectorInfo
    <2>4. t.State = s.State /\ Writes(s, ev, t)
        BY Zenon, <1>9 DEF SectorInfo, Writes
    <2> QED
        BY <2>1, <2>3, <2>4, Zenon
<1>10. CASE ev.e \in {"SectorCommitted", "SectorProofReady"}
    <2> DEFINE t == [s EXCEPT !.Proof = <<s.CommR, ev.v>>]
    <2>1. Apply(s, ev) = t
        BY Zenon, <1>10 DEF Apply
    <2>2. <<s.CommR, ev.v>> \in (0 .. 2) \X Nat
        BY Zenon, <1>10 DEF SectorInfo, EventInfo, Carries
    <2>3. t \in SectorInfo
        BY <2>2, Zenon DEF SectorInfo
    <2>4. t.State = s.State /\ Writes(s, ev, t)
        BY Zenon, <1>10 DEF SectorInfo, Writes
    <2> QED
        BY <2>1, <2>3, <2>4, Zenon
<1>11. CASE ev.e \in {"SectorCommitSubmitted", "SectorCommitAggregateSent"}
    <2> DEFINE t == [s EXCEPT !.CommitMessage = ev.v]
    <2>1. Apply(s, ev) = t
        BY Zenon, <1>11 DEF Apply
    <2>2. ev.v \in Nat
        BY Zenon, <1>11 DEF SectorInfo, EventInfo, Carries
    <2>3. t \in SectorInfo
        BY <2>2, Zenon DEF SectorInfo
    <2>4. t.State = s.State /\ Writes(s, ev, t)
        BY Zenon, <1>11 DEF SectorInfo, Writes
    <2> QED
        BY <2>1, <2>3, <2>4, Zenon
<1>12. CASE ev.e \in {"SectorRetryComputeProof", "SectorRetryInvalidProof"}
    <2> DEFINE t == [s EXCEPT !.InvalidProofs = Min({s.InvalidProofs + 1, 2})]
    <2>1. Apply(s, ev) = t
        BY Zenon, <1>12 DEF Apply
    <2>2. Min({s.InvalidProofs + 1, 2}) \in Nat
        <3>1. s.InvalidProofs + 1 \in Nat
            BY DEF SectorInfo
        <3> QED
            BY Zenon, <3>1, MinOfTwo
    <2>3. t \in SectorInfo
        BY <2>2, Zenon DEF SectorInfo
    <2>4. t.State = s.State /\ Writes(s, ev, t)
        BY Zenon, <1>12 DEF SectorInfo, Writes
    <2> QED
        BY <2>1, <2>3, <2>4, Zenon
<1>13. CASE ev.e = "SectorInvalidDealIDs"
    <2> DEFINE t == [s EXCEPT !.Return = ev.r]
    <2>1. Apply(s, ev) = t
        BY Zenon, <1>13 DEF Apply
    <2>2. ev.r \in Returns
        BY Zenon, <1>13 DEF SectorInfo, EventInfo, Carries
    <2>3. t \in SectorInfo
        BY <2>2, Zenon DEF SectorInfo
    <2>4. t.State = s.State /\ Writes(s, ev, t)
        BY Zenon, <1>13 DEF SectorInfo, Writes
    <2> QED
        BY <2>1, <2>3, <2>4, Zenon
<1>14. CASE ev.e = "SectorUpdateDealIDs" /\ ev.v # 0
    <2> DEFINE t == [s EXCEPT !.Pieces = ev.v]
    <2>1. Apply(s, ev) = t
        BY Zenon, <1>14 DEF Apply
    <2>2. ev.v \in 0 .. 2
        BY Zenon, <1>14 DEF SectorInfo, EventInfo, Carries
    <2>3. t \in SectorInfo
        BY <2>2, Zenon DEF SectorInfo
    <2>4. t.State = s.State /\ Writes(s, ev, t)
        BY Zenon, <1>14 DEF SectorInfo, Writes
    <2> QED
        BY <2>1, <2>3, <2>4, Zenon
<1>15. CASE ev.e = "SectorStartCCUpdate"
    <2> DEFINE t == [s EXCEPT !.CCUpdate = TRUE, !.CCPieces = s.Pieces, !.Pieces = 0]
    <2>1. Apply(s, ev) = t
        BY Zenon, <1>15 DEF Apply
    <2>2. TRUE \in BOOLEAN /\ s.Pieces \in 0 .. 2 /\ 0 \in 0 .. 2
        BY <1>15 DEF SectorInfo, EventInfo, Carries
    <2>3. t \in SectorInfo
        BY <2>2, Zenon DEF SectorInfo
    <2>4. t.State = s.State /\ Writes(s, ev, t)
        BY Zenon, <1>15 DEF SectorInfo, Writes
    <2> QED
        BY <2>1, <2>3, <2>4, Zenon
<1>16. CASE ev.e = "SectorReplicaUpdate"
    <2> DEFINE t == [s EXCEPT !.UpdateSealed = TRUE]
    <2>1. Apply(s, ev) = t
        BY Zenon, <1>16 DEF Apply
    <2>2. TRUE \in BOOLEAN
        BY Zenon, <1>16 DEF SectorInfo, EventInfo, Carries
    <2>3. t \in SectorInfo
        BY <2>2, Zenon DEF SectorInfo
    <2>4. t.State = s.State /\ Writes(s, ev, t)
        BY Zenon, <1>16 DEF SectorInfo, Writes
    <2> QED
        BY <2>1, <2>3, <2>4, Zenon
<1>17. CASE ev.e = "SectorProveReplicaUpdate"
    <2> DEFINE t == [s EXCEPT !.ReplicaUpdateProof = TRUE]
    <2>1. Apply(s, ev) = t
        BY Zenon, <1>17 DEF Apply
    <2>2. TRUE \in BOOLEAN
        BY Zenon, <1>17 DEF SectorInfo, EventInfo, Carries
    <2>3. t \in SectorInfo
        BY <2>2, Zenon DEF SectorInfo
    <2>4. t.State = s.State /\ Writes(s, ev, t)
        BY Zenon, <1>17 DEF SectorInfo, Writes
    <2> QED
        BY <2>1, <2>3, <2>4, Zenon
<1>18. CASE ev.e = "SectorReplicaUpdateSubmitted"
    <2> DEFINE t == [s EXCEPT !.ReplicaUpdateMessage = ev.v]
    <2>1. Apply(s, ev) = t
        BY Zenon, <1>18 DEF Apply
    <2>2. ev.v \in Nat
        BY Zenon, <1>18 DEF SectorInfo, EventInfo, Carries
    <2>3. t \in SectorInfo
        BY <2>2, Zenon DEF SectorInfo
    <2>4. t.State = s.State /\ Writes(s, ev, t)
        BY Zenon, <1>18 DEF SectorInfo, Writes
    <2> QED
        BY <2>1, <2>3, <2>4, Zenon
<1>19. CASE ev.e = "SectorRevertUpgradeToProving"
    <2> DEFINE t == [s EXCEPT !.CCUpdate = FALSE, !.UpdateSealed = FALSE,
                      !.ReplicaUpdateProof = FALSE, !.ReplicaUpdateMessage = 0,
                      !.Pieces = s.CCPieces]
    <2>1. Apply(s, ev) = t
        BY Zenon, <1>19 DEF Apply
    <2>2. FALSE \in BOOLEAN /\ 0 \in Nat /\ s.CCPieces \in 0 .. 2
        BY Zenon, <1>19 DEF SectorInfo, EventInfo, Carries
    <2>3. t \in SectorInfo
        BY <2>2, Zenon DEF SectorInfo
    <2>4. t.State = s.State /\ Writes(s, ev, t)
        BY Zenon, <1>19 DEF SectorInfo, Writes
    <2> QED
        BY <2>1, <2>3, <2>4, Zenon
<1>20. CASE ev.e = "SectorTerminating"
    <2> DEFINE t == [s EXCEPT !.TerminateMessage = ev.v]
    <2>1. Apply(s, ev) = t
        BY Zenon, <1>20 DEF Apply
    <2>2. ev.v \in Nat
        BY Zenon, <1>20 DEF SectorInfo, EventInfo, Carries
    <2>3. t \in SectorInfo
        BY <2>2, Zenon DEF SectorInfo
    <2>4. t.State = s.State /\ Writes(s, ev, t)
        BY Zenon, <1>20 DEF SectorInfo, Writes
    <2> QED
        BY <2>1, <2>3, <2>4, Zenon
<1>21. CASE Apply(s, ev) = s /\ Writes(s, ev, s)
    BY <1>21, Zenon
<1>22. \/ Apply(s, ev) = s /\ Writes(s, ev, s)
       \/ ev.e = "SectorReceive"
       \/ ev.e = "SectorPieceAdded" /\ ev.v # 0
       \/ ev.e = "SectorTicket"
       \/ ev.e = "SectorPreCommit1"
       \/ ev.e = "SectorPreCommit2"
       \/ ev.e = "SectorSealPreCommit1Failed"
       \/ ev.e = "SectorSealPreCommit2Failed"
       \/ ev.e = "SectorPreCommitBatchSent"
       \/ ev.e = "SectorSeedReady"
       \/ ev.e \in {"SectorCommitted", "SectorProofReady"}
       \/ ev.e \in {"SectorCommitSubmitted", "SectorCommitAggregateSent"}
       \/ ev.e \in {"SectorRetryComputeProof", "SectorRetryInvalidProof"}
       \/ ev.e = "SectorInvalidDealIDs"
       \/ ev.e = "SectorUpdateDealIDs" /\ ev.v # 0
       \/ ev.e = "SectorStartCCUpdate"
       \/ ev.e = "SectorReplicaUpdate"
       \/ ev.e = "SectorProveReplicaUpdate"
       \/ ev.e = "SectorReplicaUpdateSubmitted"
       \/ ev.e = "SectorRevertUpgradeToProving"
       \/ ev.e = "SectorTerminating"
    BY Zenon DEF Apply, Writes
<1> QED
    BY Zenon, <1>1, <1>2, <1>3, <1>4, <1>5, <1>6, <1>7, <1>8, <1>9, <1>10, <1>11, <1>12,
       <1>13, <1>14, <1>15, <1>16, <1>17, <1>18, <1>19, <1>20, <1>21, <1>22

(* What planOne makes of the event that decides, the i-th.                 *)
Decided(s, ev, i) ==
    CASE ev.e \in GlobalEvents -> Planned(applyGlobal(s, ev), i, FALSE)
      [] ev.e \notin GlobalEvents /\ <<s.State, ev.e>> \in DOMAIN fsmPlanners ->
            follow(s, ev, fsmPlanners[<<s.State, ev.e>>], i)
      [] OTHER -> Planned(s, i, TRUE)

(* The first event that is not passed over decides (planOne).              *)
LEMMA FirstDecides ==
    ASSUME NEW s, NEW events \in Seq(EventInfo)
    PROVE  \/ /\ \A j \in 1 .. Len(events) : Passed(s, events[j])
              /\ planOne(s, events) = Planned(s, Len(events), FALSE)
           \/ \E i \in 1 .. Len(events) :
                 /\ \A j \in 1 .. i - 1 : Passed(s, events[j])
                 /\ ~Passed(s, events[i])
                 /\ planOne(s, events) = Decided(s, events[i], i)
<1> DEFINE decides == {i \in DOMAIN events : ~Passed(s, events[i])}
           i == Min(decides)
<1>1. DOMAIN events = 1 .. Len(events) /\ Len(events) \in Nat
    OBVIOUS
<1>2. planOne(s, events) =
          CASE decides = {} -> Planned(s, Len(events), FALSE)
            [] decides # {} /\ events[i].e \in GlobalEvents ->
                  Planned(applyGlobal(s, events[i]), i, FALSE)
            [] decides # {} /\ events[i].e \notin GlobalEvents
                 /\ <<s.State, events[i].e>> \in DOMAIN fsmPlanners ->
                  follow(s, events[i], fsmPlanners[<<s.State, events[i].e>>], i)
            [] OTHER -> Planned(s, i, TRUE)
    BY Zenon DEF planOne, planOneOf, Passed
<1>3. CASE decides = {}
    <2>1. planOne(s, events) = Planned(s, Len(events), FALSE)
        BY <1>2, <1>3, Zenon
    <2> QED
        BY Zenon, <1>1, <1>3, <2>1
<1>4. CASE decides # {}
    <2>1. decides \in SUBSET Nat
        BY <1>1
    <2>2. i \in decides /\ \A j \in decides : i <= j
        <3> HIDE DEF decides
        <3> QED
            BY Zenon, <1>4, <2>1, MinIn
    <2>3. planOne(s, events) = Decided(s, events[i], i)
        <3> HIDE DEF decides, i
        <3> QED
            BY Zenon, <1>2, <1>4 DEF Decided
    <2>4. i \in 1 .. Len(events) /\ ~Passed(s, events[i])
        BY Zenon, <1>1, <2>2
    <2>5. ASSUME NEW j \in 1 .. i - 1 PROVE Passed(s, events[j])
        <3>1. j \in DOMAIN events /\ ~(i <= j)
            BY <1>1, <2>4
        <3> QED
            BY Zenon, <2>2, <3>1
    <2> HIDE DEF i
    <2> QED
        BY Zenon, <2>3, <2>4, <2>5
<1> QED
    BY Zenon, <1>3, <1>4

(* A sector that only changes its state keeps its type and what it         *)
(* recorded.                                                               *)
LEMMA StateChanged ==
    ASSUME NEW s \in SectorInfo, NEW y \in States
    PROVE  /\ [s EXCEPT !.State = y] \in SectorInfo
           /\ [s EXCEPT !.State = y].State = y
           /\ Unwritten(s, [s EXCEPT !.State = y])
<1>1. [s EXCEPT !.State = y] \in SectorInfo
    BY Zenon DEF SectorInfo
<1>2. [s EXCEPT !.State = y].State = y /\ Unwritten(s, [s EXCEPT !.State = y])
    BY Zenon DEF SectorInfo, Unwritten
<1> QED
    BY Zenon, <1>1, <1>2

(* Removal and termination are taken in every state, and a restart changes *)
(* nothing (applyGlobal).                                                  *)
LEMMA GlobalMove ==
    ASSUME NEW s \in SectorInfo, NEW ev \in EventInfo
    PROVE  /\ applyGlobal(s, ev) \in SectorInfo
           /\ Unwritten(s, applyGlobal(s, ev))
           /\ ev.e = "SectorTerminate" => applyGlobal(s, ev).State = "Terminating"
           /\ ev.e = "SectorRemove" => applyGlobal(s, ev).State = "Removing"
           /\ ev.e \notin {"SectorTerminate", "SectorRemove"} => applyGlobal(s, ev) = s
<1> DEFINE y == CASE ev.e = "SectorTerminate" -> "Terminating"
                  [] ev.e = "SectorRemove" -> "Removing"
                  [] OTHER -> s.State
<1>1. applyGlobal(s, ev) = [s EXCEPT !.State = y]
    BY Zenon DEF applyGlobal
<1>2. /\ ev.e = "SectorTerminate" => y = "Terminating"
      /\ ev.e = "SectorRemove" => y = "Removing"
      /\ ev.e \notin {"SectorTerminate", "SectorRemove"} => y = s.State
    BY Zenon
<1>3. y \in States
    BY Zenon DEF SectorInfo, States, EndStates
<1>4. [s EXCEPT !.State = s.State] = s
    BY Zenon DEF SectorInfo
<1> HIDE DEF y
<1> QED
    BY <1>1, <1>2, <1>3, <1>4, StateChanged

(* What planCommitting's loop keeps.                                       *)
Loop == [sec : SectorInfo, n : Nat, err : BOOLEAN, stop : BOOLEAN]

(* Where a round of the loop takes a sector that was in state x.           *)
CommittingMove(x, ev, y) == y \in {x, "Committing"} \/ <<ev.e, y>> \in CommittingMoves

Round(p, ev, q) ==
    /\ q \in Loop
    /\ p.stop => q = p
    /\ Unwritten(p.sec, q.sec)
    /\ ~p.stop => \/ q.n = p.n /\ q.stop /\ q.sec = p.sec /\ ev.e # "SectorRestart"
                  \/ q.n = p.n + 1 /\ CommittingMove(p.sec.State, ev, q.sec.State)

(* One round of planCommitting's loop takes the event, or stops.           *)
LEMMA CommittingRound ==
    ASSUME NEW p \in Loop, NEW ev \in EventInfo
    PROVE  Round(p, ev, committingStep(p, ev))
<1> DEFINE q == committingStep(p, ev)
           y == CommittingNext(p.sec, ev)
           b == IF ev.e \in {"SectorCommitted", "SectorProofReady"} THEN Apply(p.sec, ev) ELSE p.sec
<1> SUFFICES Round(p, ev, q)
    BY Zenon
<1>0. p.sec \in SectorInfo /\ p.n \in Nat /\ p.n + 1 \in Nat /\ Unwritten(p.sec, p.sec)
    BY DEF Loop, Unwritten
<1>1. CASE p.stop
    <2>1. q = p
        BY <1>1, Zenon DEF committingStep
    <2> QED
        BY Zenon, <1>0, <1>1, <2>1 DEF Round
<1>2. CASE ~p.stop /\ y # "none"
    <2>0. /\ ev.e \notin {"SectorTerminate", "SectorRemove"}
          /\ ~(ev.e = "SectorSeedReady" /\ ev.v # p.sec.Seed)
        BY Zenon, <1>2 DEF CommittingNext
    <2>1. q = [p EXCEPT !.n = p.n + 1, !.sec = [b EXCEPT !.State = y]]
        BY <1>2, <2>0, Zenon DEF committingStep
    <2>2. b \in SectorInfo /\ Unwritten(p.sec, b) /\ b.State = p.sec.State
        <3>1. CASE ev.e \in {"SectorCommitted", "SectorProofReady"}
            <4>1. Carries(ev, 0)
                BY Zenon, <3>1 DEF Carries
            <4>2. /\ Apply(p.sec, ev) \in SectorInfo /\ Apply(p.sec, ev).State = p.sec.State
                  /\ Writes(p.sec, ev, Apply(p.sec, ev))
                BY Zenon, <1>0, <4>1, ApplyWrites
            <4> QED
                BY Zenon, <3>1, <4>2 DEF Writes, Unwritten
        <3>2. CASE ev.e \notin {"SectorCommitted", "SectorProofReady"}
            <4>1. b = p.sec
                BY Zenon, <3>2
            <4> QED
                BY Zenon, <1>0, <4>1
        <3> QED
            BY Zenon, <3>1, <3>2
    <2>3. CommittingMove(p.sec.State, ev, y)
        BY <1>2 DEF CommittingNext, CommittingMove, CommittingMoves
    <2>4. y \in States
        BY <1>0, <2>3 DEF CommittingMove, CommittingMoves, SectorInfo, States, SealingStates,
                          FailureStates, EndStates
    <2> HIDE DEF b, y
    <2>5. /\ [b EXCEPT !.State = y] \in SectorInfo /\ [b EXCEPT !.State = y].State = y
          /\ Unwritten(b, [b EXCEPT !.State = y])
        BY Zenon, <2>2, <2>4, StateChanged
    <2>6. Unwritten(p.sec, [b EXCEPT !.State = y])
        BY Zenon, <2>2, <2>5 DEF Unwritten
    <2>7. q \in Loop
        BY <1>0, <2>1, <2>5, Zenon DEF Loop
    <2>8. q.n = p.n + 1 /\ q.sec = [b EXCEPT !.State = y]
        BY Zenon, <2>1 DEF Loop
    <2> HIDE DEF q
    <2> QED
        BY Zenon, <1>2, <2>3, <2>5, <2>6, <2>7, <2>8 DEF Round
<1>3. CASE ~p.stop /\ y = "none" /\ ev.e \in {"SectorTerminate", "SectorRemove"}
    <2> DEFINE g == applyGlobal(p.sec, ev)
    <2>1. q = [p EXCEPT !.n = p.n + 1, !.stop = TRUE, !.sec = g]
        BY <1>3, Zenon DEF committingStep
    <2>2. /\ g \in SectorInfo /\ Unwritten(p.sec, g)
          /\ ev.e = "SectorTerminate" => g.State = "Terminating"
          /\ ev.e = "SectorRemove" => g.State = "Removing"
        BY Zenon, <1>0, GlobalMove
    <2> HIDE DEF g
    <2>3. CommittingMove(p.sec.State, ev, g.State)
        BY Zenon, <1>3, <2>2 DEF CommittingMove, CommittingMoves
    <2>4. q \in Loop
        BY <1>0, <2>1, <2>2, Zenon DEF Loop
    <2>5. q.n = p.n + 1 /\ q.sec = g
        BY Zenon, <2>1 DEF Loop
    <2> HIDE DEF q
    <2> QED
        BY Zenon, <1>3, <2>2, <2>3, <2>4, <2>5 DEF Round
<1>4. CASE ~p.stop /\ y = "none" /\ ev.e = "SectorSeedReady"
    <2> DEFINE a == Apply(p.sec, ev)
               g == [a EXCEPT !.State = "Committing"]
    <2>1. ev.v # p.sec.Seed
        BY <1>0, <1>4 DEF CommittingNext, SectorInfo, States, SealingStates, SnapStates,
                          FailureStates, EndStates
    <2>2. q = [p EXCEPT !.n = p.n + 1, !.stop = TRUE, !.sec = g]
        BY <1>4, <2>1, Zenon DEF committingStep
    <2>3. Carries(ev, 0)
        BY Zenon, <1>4 DEF Carries
    <2>4. a \in SectorInfo /\ Writes(p.sec, ev, a)
        BY Zenon, <1>0, <2>3, ApplyWrites
    <2>5. Unwritten(p.sec, a)
        BY Zenon, <1>4, <2>4 DEF Writes, Unwritten
    <2> HIDE DEF a
    <2>6. g \in SectorInfo /\ g.State = "Committing" /\ Unwritten(a, g)
        <3>1. "Committing" \in States
            BY Zenon DEF States, SealingStates
        <3> QED
            BY Zenon, <2>4, <3>1, StateChanged
    <2> HIDE DEF g
    <2>7. q \in Loop
        BY <1>0, <2>2, <2>6, Zenon DEF Loop
    <2>8. q.n = p.n + 1 /\ q.sec = g
        BY <2>2 DEF Loop
    <2>9. Unwritten(p.sec, g) /\ CommittingMove(p.sec.State, ev, g.State)
        BY Zenon, <2>5, <2>6 DEF Unwritten, CommittingMove
    <2> HIDE DEF q
    <2> QED
        BY Zenon, <1>4, <2>7, <2>8, <2>9 DEF Round
<1>5. CASE ~p.stop /\ y = "none" /\ ev.e \notin {"SectorTerminate", "SectorRemove", "SectorSeedReady"}
    <2>1. q = [p EXCEPT !.stop = TRUE, !.err = TRUE]
        BY <1>5, Zenon DEF committingStep
    <2>2. q \in Loop
        BY <2>1, Zenon DEF Loop
    <2>3. q.n = p.n /\ q.stop /\ q.sec = p.sec
        BY Zenon, <2>1 DEF Loop
    <2>4. ev.e # "SectorRestart"
        <3>1. "none" \notin States
            BY Zenon DEF States, SealingStates, SnapStates, FailureStates, EndStates
        <3>2. p.sec.State \in States
            BY Zenon, <1>0 DEF SectorInfo
        <3>3. ev.e = "SectorRestart" => y = p.sec.State
            BY DEF CommittingNext
        <3> QED
            BY Zenon, <1>5, <3>1, <3>2, <3>3
    <2> HIDE DEF q
    <2> QED
        BY Zenon, <1>0, <1>5, <2>2, <2>3, <2>4 DEF Round
<1> HIDE DEF q, y
<1> QED
    BY Zenon, <1>1, <1>2, <1>3, <1>4, <1>5

(* planCommitting's loop: whatever the order of the events, the sector ends *)
(* in a state that one of them leads to.                                   *)
LEMMA CommittingLoop ==
    ASSUME NEW s \in SectorInfo, s.State = "Committing", NEW events \in Seq(EventInfo)
    PROVE  /\ FromCommitting(s, events, planCommitting(s, events))
           /\ TakesRestart(events, planCommitting(s, events))
<1> DEFINE base == [sec |-> s, n |-> 0, err |-> FALSE, stop |-> FALSE]
           G == [p \in Loop \X EventInfo |-> committingStep(p[1], p[2])]
           n == Len(events)
<1>1. base \in Loop
    BY Zenon DEF Loop
<1>2. G \in [Loop \X EventInfo -> Loop]
    BY Zenon, CommittingRound DEF Round
<1> HIDE DEF G
<1> HIDE DEF base
<1>3. PICK f : IsRun(f, events, Loop, base, G)
    BY Zenon, <1>1, <1>2, LoopRuns
<1>4. n \in Nat /\ \A i \in 0 .. n : i # 0 => i \in 1 .. n
    OBVIOUS
<1>5. ASSUME NEW i \in 1 .. n PROVE f[i] = committingStep(f[i - 1], events[i])
    <2>1. f[i - 1] \in Loop /\ events[i] \in EventInfo /\ f[i] = G[<<f[i - 1], events[i]>>]
        <3>1. i - 1 \in 0 .. n /\ events[i] \in EventInfo
            BY <1>4
        <3>2. f \in [0 .. n -> Loop] /\ f[i] = G[<<f[i - 1], events[i]>>]
            BY Zenon, <1>3 DEF IsRun
        <3> QED
            BY Zenon, <3>1, <3>2
    <2> QED
        BY Zenon, <2>1 DEF G
<1> HIDE DEF n
<1>6. f = [i \in 0 .. n |-> IF i = 0 THEN base ELSE committingStep(f[i - 1], events[i])]
    BY Zenon, <1>3, <1>4, <1>5 DEF IsRun, n
<1> DEFINE h[i \in 0 .. n] == IF i = 0 THEN base ELSE committingStep(h[i - 1], events[i])
<1>7. h = [i \in 0 .. n |-> IF i = 0 THEN base ELSE committingStep(h[i - 1], events[i])]
    BY Zenon, <1>6
<1>12. planCommitting(s, events) = Planned(h[n].sec, h[n].n, h[n].err)
    BY Zenon DEF planCommitting, base, n
<1> HIDE DEF h
<1>8. /\ h[0] = base
      /\ \A k \in 1 .. n : h[k] = committingStep(h[k - 1], events[k])
    BY <1>4, <1>7
<1> DEFINE Seen(k) == /\ h[k] \in Loop /\ FromCommitting(s, events, h[k])
                      /\ h[k].n <= k /\ (~h[k].stop => h[k].n = k)
                      /\ (h[k].n = 0 /\ k # 0) => events[1].e # "SectorRestart"
           P == {k \in Nat : k <= n => Seen(k)}
<1>9. 0 \in P
    <2>1. /\ h[0] \in Loop /\ h[0].sec = s /\ h[0].n = 0 /\ ~h[0].stop
        BY <1>1, <1>8 DEF base
    <2>2. Seen(0)
        BY <1>4, <2>1 DEF FromCommitting, Unwritten, n
    <2> QED
        BY Zenon, <2>2
<1>10. ASSUME NEW k \in Nat, k \in P PROVE k + 1 \in P
    <2>1. SUFFICES ASSUME k + 1 <= n PROVE Seen(k + 1)
        OBVIOUS
    <2>2. Seen(k) /\ k + 1 \in 1 .. n
        BY <1>4, <1>10, <2>1
    <2> DEFINE p == h[k]
               ev == events[k + 1]
               q == h[k + 1]
    <2>3. q = committingStep(p, ev) /\ ev \in EventInfo
        BY <1>4, <1>8, <2>2 DEF n
    <2>4. Round(p, ev, q)
        BY Zenon, <2>2, <2>3, CommittingRound
    <2> HIDE DEF p, q
    <2>5. CASE p.stop
        <3>1. q = p
            BY Zenon, <2>4, <2>5 DEF Round
        <3>2. /\ p \in Loop /\ FromCommitting(s, events, p)
              /\ p.n \in Nat /\ p.n <= k /\ p.stop \in BOOLEAN
            BY Zenon, <2>2 DEF p, Loop
        <3>3. p.n <= k + 1 /\ (p.n = 0 => events[1].e # "SectorRestart")
            <4>1. k # 0
                BY <1>8, <2>5 DEF p, base
            <4> QED
                BY <2>2, <3>2, <4>1 DEF p
        <3> QED
            BY Zenon, <2>5, <3>1, <3>2, <3>3 DEF p, q
    <2>6. CASE ~p.stop
        <3>1. /\ p.n = k /\ p.sec \in SectorInfo /\ Unwritten(s, p.sec)
              /\ \/ p.sec.State = "Committing"
                 \/ \E j \in 1 .. p.n : <<events[j].e, p.sec.State>> \in CommittingMoves
            BY Zenon, <2>2, <2>6 DEF FromCommitting, p
        <3>2. q \in Loop /\ q.sec \in SectorInfo /\ Unwritten(s, q.sec)
            BY Zenon, <2>4, <3>1 DEF Round, Unwritten, Loop
        <3>3. CASE q.n = p.n /\ q.stop /\ q.sec = p.sec /\ ev.e # "SectorRestart"
            <4>1. q.n \in 0 .. n /\ q.n <= k + 1
                BY <1>4, <2>1, <3>1, <3>3
            <4>2. FromCommitting(s, events, q)
                BY Zenon, <3>1, <3>2, <3>3, <4>1 DEF FromCommitting, n
            <4>3. q.n = 0 => events[1].e # "SectorRestart"
                BY <3>1, <3>3 DEF ev
            <4> QED
                BY Zenon, <3>2, <3>3, <4>1, <4>2, <4>3 DEF q
        <3>4. CASE q.n = p.n + 1 /\ CommittingMove(p.sec.State, ev, q.sec.State)
            <4>1. q.n = k + 1 /\ q.n \in 0 .. n /\ k + 1 \in 1 .. q.n /\ 1 .. p.n \subseteq 1 .. q.n
                BY <1>4, <2>1, <3>1, <3>4
            <4>2. \/ q.sec.State = "Committing"
                  \/ \E j \in 1 .. q.n : <<events[j].e, q.sec.State>> \in CommittingMoves
                BY Zenon, <3>1, <3>4, <4>1 DEF CommittingMove
            <4>3. FromCommitting(s, events, q)
                BY Zenon, <3>2, <4>1, <4>2 DEF FromCommitting, n
            <4>4. q.n # 0
                BY <4>1
            <4> QED
                BY <3>2, <4>1, <4>3, <4>4 DEF q
        <3> QED
            BY Zenon, <2>4, <2>6, <3>3, <3>4 DEF Round
    <2> QED
        BY Zenon, <2>5, <2>6
<1>11. Seen(n)
    <2>1. n \in P
        <3> HIDE DEF P
        <3> QED
            BY Zenon, <1>4, <1>9, <1>10, RoundByRound
    <2> QED
        BY <1>4, <2>1
<1> QED
    BY <1>4, <1>11, <1>12 DEF n, Planned, FromCommitting, TakesRestart

(* A sector that follows a row of the tables has what the event carries    *)
(* and is in the row's state (on, onReturning).                            *)
LEMMA FollowTakes ==
    ASSUME NEW s \in SectorInfo, NEW ev \in EventInfo, NEW n \in Nat, Carries(ev, n),
           NEW i \in Nat, NEW y, <<s.State, ev.e, y>> \in Planners
    PROVE  follow(s, ev, y, i).n = i /\ Took(s, ev, follow(s, ev, y, i))
<1> DEFINE t == Apply(s, ev)
           p == follow(s, ev, y, i)
<1> SUFFICES p.n = i /\ Took(s, ev, p)
    BY Zenon
<1>1. t \in SectorInfo /\ t.State = s.State /\ Writes(s, ev, t)
    BY Zenon, ApplyWrites
<1>2. CASE y # "Return"
    <2> DEFINE u == [t EXCEPT !.State = y]
    <2>1. p = Planned(u, i, FALSE)
        BY Zenon, <1>2 DEF follow
    <2>2. y \in States
        BY Zenon, <1>2, MovesToState
    <2> HIDE DEF t
    <2>3. u \in SectorInfo /\ u.State = y /\ Unwritten(t, u)
        BY Zenon, <1>1, <2>2, StateChanged
    <2> HIDE DEF u
    <2>4. Writes(s, ev, u)
        BY Zenon, <1>1, <2>3 DEF Writes, Unwritten
    <2>5. p.sec = u /\ p.n = i /\ p.err = FALSE
        BY <2>1 DEF Planned
    <2> HIDE DEF p
    <2> QED
        BY Zenon, <1>2, <2>3, <2>4, <2>5 DEF Took, Moved
<1>3. CASE y = "Return" /\ t.Return = "none"
    <2>1. p = Planned(t, i, TRUE)
        BY Zenon, <1>3 DEF follow
    <2>2. p.sec = t /\ p.n = i /\ p.err = TRUE
        BY SMTT(30), <2>1 DEF Planned
    <2>3. ev.e \in {"SectorReceived", "SectorUpdateDealIDs"}
        BY Zenon, <1>3, ReturningRows
    <2> HIDE DEF p, t
    <2>4. Unwritten(s, t) /\ s.Return = "none"
        BY Zenon, <1>1, <1>3, <2>3 DEF Writes, Unwritten
    <2> QED
        BY Zenon, <1>1, <1>3, <2>2, <2>3, <2>4 DEF Took, Stayed
<1>4. CASE y = "Return" /\ t.Return # "none"
    <2> DEFINE u == [t EXCEPT !.State = t.Return, !.Return = "none"]
    <2>1. p = Planned(u, i, FALSE)
        BY Zenon, <1>4 DEF follow
    <2>2. p.sec = u /\ p.n = i /\ p.err = FALSE
        BY SMTT(30), <2>1 DEF Planned
    <2>3. ev.e \in {"SectorReceived", "SectorUpdateDealIDs"}
        BY Zenon, <1>4, ReturningRows
    <2> HIDE DEF t
    <2>4. t.Return \in States /\ "none" \in Returns
        BY Zenon, <1>1, <1>4 DEF SectorInfo, Returns, States, SealingStates, FailureStates
    <2>5. u \in SectorInfo
        BY <1>1, <2>4, Zenon DEF SectorInfo
    <2>6. Returned(t, u)
        BY Zenon, <1>1, <1>4 DEF SectorInfo, Returned
    <2> HIDE DEF u
    <2>7. Returned(s, u)
        BY Zenon, <1>1, <2>3, <2>6 DEF Writes, Returned
    <2> HIDE DEF p
    <2> QED
        BY Zenon, <1>4, <2>2, <2>5, <2>7 DEF Took, Moved
<1> QED
    BY Zenon, <1>2, <1>3, <1>4

(* The event that decides moves the sector, or is refused (planOne).       *)
LEMMA DecidedTakes ==
    ASSUME NEW s \in SectorInfo, NEW ev \in EventInfo, NEW n \in Nat, Carries(ev, n),
           NEW i \in Nat
    PROVE  Decided(s, ev, i).n = i /\ Took(s, ev, Decided(s, ev, i))
<1> DEFINE p == Decided(s, ev, i)
<1> SUFFICES p.n = i /\ Took(s, ev, p)
    BY Zenon
<1>1. CASE ev.e \in GlobalEvents
    <2> DEFINE g == applyGlobal(s, ev)
    <2>1. p = Planned(g, i, FALSE)
        BY <1>1, Zenon DEF Decided
    <2>2. /\ g \in SectorInfo /\ Unwritten(s, g)
          /\ ev.e = "SectorTerminate" => g.State = "Terminating"
          /\ ev.e = "SectorRemove" => g.State = "Removing"
          /\ ev.e \notin {"SectorTerminate", "SectorRemove"} => g = s
        BY Zenon, GlobalMove
    <2>3. p.sec = g /\ p.n = i /\ p.err = FALSE
        BY <2>1 DEF Planned
    <2> HIDE DEF p, g
    <2> QED
        BY Zenon, <1>1, <2>2, <2>3 DEF Took, Moved, Stayed, GlobalEvents
<1>2. CASE ev.e \notin GlobalEvents /\ <<s.State, ev.e>> \in DOMAIN fsmPlanners
    <2>1. p = follow(s, ev, fsmPlanners[<<s.State, ev.e>>], i)
        BY <1>2, Zenon DEF Decided
    <2>2. <<s.State, ev.e, fsmPlanners[<<s.State, ev.e>>]>> \in Planners
        BY Zenon, <1>2, KnownMove
    <2> QED
        BY <2>1, <2>2, FollowTakes
<1>3. CASE ev.e \notin GlobalEvents /\ <<s.State, ev.e>> \notin DOMAIN fsmPlanners
    <2>1. p = Planned(s, i, TRUE)
        BY <1>3, Zenon DEF Decided
    <2>2. p.sec = s /\ p.n = i /\ p.err = TRUE
        BY <2>1 DEF Planned
    <2> HIDE DEF p
    <2> QED
        BY Zenon, <1>3, <2>2 DEF Took, Stayed, Unwritten, GlobalEvents
<1> QED
    BY Zenon, <1>1, <1>2, <1>3

(* planOne takes the first event that decides.                             *)
LEMMA PlanOneTakes ==
    ASSUME NEW s \in SectorInfo, NEW events \in Seq(EventInfo), NEW n \in Nat,
           \A j \in 1 .. Len(events) : Carries(events[j], n)
    PROVE  \/ /\ \A j \in 1 .. Len(events) : Passed(s, events[j])
              /\ planOne(s, events) = Planned(s, Len(events), FALSE)
           \/ \E i \in 1 .. Len(events) :
                 /\ \A j \in 1 .. i - 1 : Passed(s, events[j])
                 /\ ~Passed(s, events[i])
                 /\ planOne(s, events) \in [sec : SectorInfo, n : Nat, err : BOOLEAN]
                 /\ planOne(s, events).n = i /\ Took(s, events[i], planOne(s, events))
<1>1. CASE \E i \in 1 .. Len(events) :
              /\ \A j \in 1 .. i - 1 : Passed(s, events[j])
              /\ ~Passed(s, events[i])
              /\ planOne(s, events) = Decided(s, events[i], i)
    <2>1. PICK i \in 1 .. Len(events) :
              /\ \A j \in 1 .. i - 1 : Passed(s, events[j])
              /\ ~Passed(s, events[i])
              /\ planOne(s, events) = Decided(s, events[i], i)
        BY Zenon, <1>1
    <2>2. events[i] \in EventInfo /\ i \in Nat /\ Carries(events[i], n)
        OBVIOUS
    <2>3. planOne(s, events).n = i /\ Took(s, events[i], planOne(s, events))
        BY <2>1, <2>2, DecidedTakes
    <2>4. \E t, b : planOne(s, events) = Planned(t, i, b)
        BY <2>1, Zenon DEF Decided, follow
    <2>5. planOne(s, events) \in [sec : SectorInfo, n : Nat, err : BOOLEAN]
        BY Zenon, <2>2, <2>3, <2>4 DEF Planned, Took
    <2> QED
        BY Zenon, <2>1, <2>3, <2>5
<1> QED
    BY Zenon, <1>1, FirstDecides

(* Every planner makes of a queue what PlanOf says (plan).                 *)
LEMMA PlanTakes ==
    ASSUME NEW s \in SectorInfo, NEW events \in Seq(EventInfo), NEW n \in Nat,
           \A j \in 1 .. Len(events) : Carries(events[j], n)
    PROVE  PlanOf(s, events, plan(s, events))
<1> DEFINE p == CASE s.State = "Committing" -> planCommitting(s, events)
                  [] s.State = "Removed" -> Planned(s, Len(events), FALSE)
                  [] s.State \in {"Removing", "AbortUpgrade"} ->
                        [planOne(s, events) EXCEPT !.err = FALSE]
                  [] OTHER -> planOne(s, events)
           q == plan(s, events)
<1> SUFFICES PlanOf(s, events, q)
    BY Zenon
<1>1. q = IF ~p.err /\ p.sec.State = "ReleaseSectorKeyFailed" THEN [p EXCEPT !.n = 0] ELSE p
    BY Zenon DEF plan
<1>2. Len(events) \in Nat
    OBVIOUS
<1>3. CASE s.State = "Committing"
    <2>1. p = planCommitting(s, events)
        BY Zenon, <1>3
    <2>2. FromCommitting(s, events, p) /\ TakesRestart(events, p)
        BY SMTT(30), <1>3, <2>1, CommittingLoop
    <2>3. p.sec.State # "ReleaseSectorKeyFailed"
        BY Zenon, <2>2 DEF FromCommitting, CommittingMoves
    <2> HIDE DEF p, q
    <2>4. q = p
        BY Zenon, <1>1, <2>3
    <2> QED
        BY Zenon, <1>3, <2>2, <2>4 DEF PlanOf, FromCommitting
<1>4. CASE s.State = "Removed"
    <2>1. p = Planned(s, Len(events), FALSE)
        BY Zenon, <1>4
    <2>2. p.sec = s /\ p.n = Len(events) /\ p.err = FALSE
        BY <2>1 DEF Planned
    <2> HIDE DEF p, q
    <2>3. q = p
        BY Zenon, <1>1, <1>4, <2>2
    <2> QED
        BY <1>2, <1>4, <2>2, <2>3 DEF PlanOf, Idled
<1>5. CASE s.State \notin {"Committing", "Removed"}
    <2> DEFINE o == planOne(s, events)
    <2>1. p = IF s.State \in {"Removing", "AbortUpgrade"} THEN [o EXCEPT !.err = FALSE] ELSE o
        BY Zenon, <1>5
    <2>2. \/ /\ \A j \in 1 .. Len(events) : Passed(s, events[j])
             /\ o = Planned(s, Len(events), FALSE)
          \/ \E i \in 1 .. Len(events) :
                /\ \A j \in 1 .. i - 1 : Passed(s, events[j])
                /\ ~Passed(s, events[i])
                /\ o \in [sec : SectorInfo, n : Nat, err : BOOLEAN]
                /\ o.n = i /\ Took(s, events[i], o)
        BY Zenon, PlanOneTakes
    <2> HIDE DEF p, q, o
    <2>3. CASE /\ \A j \in 1 .. Len(events) : Passed(s, events[j])
               /\ o = Planned(s, Len(events), FALSE)
        <3>1. /\ o \in [sec : SectorInfo, n : Nat, err : BOOLEAN]
              /\ o.sec = s /\ o.n = Len(events) /\ o.err = FALSE
            BY Zenon, <1>2, <2>3 DEF Planned
        <3>2. /\ p \in [sec : SectorInfo, n : Nat, err : BOOLEAN]
              /\ p.sec = s /\ p.n = Len(events) /\ p.err = FALSE
            BY Zenon, <2>1, <3>1
        <3>3. /\ q.sec = s /\ q.err = FALSE
              /\ q.n = IF s.State = "ReleaseSectorKeyFailed" THEN 0 ELSE Len(events)
            BY Zenon, <1>1, <3>2
        <3> QED
            BY <1>2, <1>5, <2>3, <3>3 DEF PlanOf, Idled
    <2>4. ASSUME NEW i \in 1 .. Len(events),
                 \A j \in 1 .. i - 1 : Passed(s, events[j]), ~Passed(s, events[i]),
                 o \in [sec : SectorInfo, n : Nat, err : BOOLEAN], o.n = i,
                 Took(s, events[i], o)
          PROVE  PlanOf(s, events, q)
        <3>1. /\ p \in [sec : SectorInfo, n : Nat, err : BOOLEAN] /\ p.sec = o.sec /\ p.n = i
              /\ s.State \notin {"Removing", "AbortUpgrade"} => p.err = o.err
            BY Zenon, <2>1, <2>4
        <3>2. /\ q.sec = o.sec /\ q.err = p.err
              /\ q.n = i \/ (q.n = 0 /\ q.sec.State = "ReleaseSectorKeyFailed")
            BY Zenon, <1>1, <3>1
        <3>3. Moved(s, events[i], q.sec) \/ Stayed(s, events[i], q.sec)
            BY Zenon, <2>4, <3>2 DEF Took
        <3>4. s.State \notin {"Removing", "AbortUpgrade"} => Took(s, events[i], q)
            BY Zenon, <2>4, <3>1, <3>2 DEF Took
        <3>5. q.sec \in SectorInfo /\ q.n \in 0 .. Len(events)
            BY <1>2, <2>4, <3>1, <3>2
        <3> QED
            BY Zenon, <1>5, <2>4, <3>2, <3>3, <3>4, <3>5 DEF PlanOf, Took1
    <2> QED
        BY Zenon, <2>2, <2>3, <2>4
<1> QED
    BY Zenon, <1>3, <1>4, <1>5

=============================================================================
