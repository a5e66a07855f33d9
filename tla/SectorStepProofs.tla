-------------------------- MODULE SectorStepProofs --------------------------
(***************************************************************************)
(* What the handlers send, for every sector and chain, and the forms of    *)
(* the machine's steps (NextSteps), in the terms of SectorRelations.       *)
(***************************************************************************)
EXTENDS SectorFsm, SectorRelations, TLAPS

(* A handler says nothing, or sends an event that fits.                    *)
Silent(o) == \E n \in Nat : o = Outcome(<<>>, "none", n)

Says(o, ev, kind) == \E n \in Nat : o = Outcome(<<ev>>, kind, n)

Reply(s, c, o) ==
    Silent(o) \/ \E ev, kind : Says(o, ev, kind) /\ Fits(ev, s, c, kind)

(* The forms of a handler's outcome (ctx.Send, the returns without it).    *)
LEMMA Outcomes ==
    /\ \A o \in ApiError \cup Stops : Silent(o)
    /\ \A e : \A o \in Sends(e) \cup Fails(e) : Says(o, Ev(e), "none")
    /\ \A e, v, r : \A o \in SendsTo(e, v, r) : Says(o, Event(e, v, r), "none")
    /\ \A c, k, e : \A o \in Pushes(c, k, e) : Says(o, Event(e, Len(c.msgs) + 1, "none"), k)
BY Zenon DEF ApiError, Stops, Sends, Fails, SendsTo, Pushes, Silent, Says

(* What an outcome says does not depend on how many calls failed before.   *)
LEMMA CostIrrelevant ==
    ASSUME NEW o, NEW n \in Nat
    PROVE  /\ Silent(o) => Silent([o EXCEPT !.cost = @ + n])
           /\ \A ev, k : Says(o, ev, k) => Says([o EXCEPT !.cost = @ + n], ev, k)
<1>1. ASSUME NEW ev, NEW k, NEW m \in Nat, o = Outcome(ev, k, m)
      PROVE  [o EXCEPT !.cost = @ + n] = Outcome(ev, k, m + n) /\ m + n \in Nat
    BY <1>1 DEF Outcome
<1> QED
    BY Zenon, <1>1 DEF Silent, Says

(* Most events say nothing the proofs are about.                           *)
LEMMA PlainFits ==
    ASSUME NEW s, NEW c, NEW e \in Plain
    PROVE  Fits(Ev(e), s, c, "none")
<1>1. Ev(e) \in EventInfo /\ Ev(e).e = e /\ Ev(e).v = 0
    <2>1. e \in EventNames
        BY Zenon DEF EventNames
    <2> QED
        BY Zenon, <2>1 DEF Ev, Event, EventInfo, Returns
<1> HIDE DEF Ev
<1>2. Place(Ev(e), s)
    BY Zenon, <1>1 DEF Place, Plain
<1>3. Tells(Ev(e), s, c)
    BY Zenon, <1>1 DEF Tells, Plain
<1>4. Records(Ev(e), s, c, "none")
    BY <1>1 DEF Records, Carries, Plain
<1> QED
    BY Zenon, <1>1, <1>2, <1>3, <1>4 DEF Fits

(* So do the handlers that send such an event.                             *)
LEMMA PlainReply ==
    ASSUME NEW s, NEW c, NEW e \in Plain, NEW o \in Sends(e) \cup Fails(e)
    PROVE  Reply(s, c, o)
BY Zenon, PlainFits, Outcomes DEF Reply

(* And those that say nothing.                                             *)
LEMMA SilentReply ==
    ASSUME NEW s, NEW c, NEW o \in ApiError \cup Stops
    PROVE  Reply(s, c, o)
BY Zenon, Outcomes DEF Reply

(* A failed call before the outcome changes nothing of it.                 *)
LEMMA CostReply ==
    ASSUME NEW s, NEW c, NEW o, NEW n \in Nat, Reply(s, c, o)
    PROVE  Reply(s, c, [o EXCEPT !.cost = @ + n])
BY Zenon, CostIrrelevant DEF Reply

-----------------------------------------------------------------------------
(* The events that say something of the sector or of the chain.            *)

(* A new ticket is a ticket or none at all (handleGetTicket).              *)
LEMMA TicketFits ==
    ASSUME NEW s, NEW c, NEW v \in 0 .. 2, s.State = "GetTicket"
    PROVE  Fits(Event("SectorTicket", v, "none"), s, c, "none")
<1> DEFINE ev == Event("SectorTicket", v, "none")
<1> SUFFICES Fits(ev, s, c, "none")
    BY Zenon
<1>1. ev \in EventInfo /\ ev.e = "SectorTicket" /\ ev.v = v /\ ev.r = "none"
    BY DEF Event, EventInfo, EventNames, Plain, Returns
<1> HIDE DEF ev
<1>2. Place(ev, s)
    BY Zenon, <1>1 DEF Place
<1>3. Tells(ev, s, c)
    BY Zenon, <1>1 DEF Tells
<1>4. Records(ev, s, c, "none")
    BY Zenon, <1>1 DEF Records, Carries
<1> QED
    BY Zenon, <1>1, <1>2, <1>3, <1>4 DEF Fits

(* The deal IDs that were looked up (handleRecoverDealIDsOrFailWith).      *)
LEMMA DealIDsFit ==
    ASSUME NEW s, NEW c, NEW v \in 0 .. 2, s.State \in {"RecoverDealIDs", "SnapDealsRecoverDealIDs"}
    PROVE  Fits(Event("SectorUpdateDealIDs", v, "none"), s, c, "none")
<1> DEFINE ev == Event("SectorUpdateDealIDs", v, "none")
<1> SUFFICES Fits(ev, s, c, "none")
    BY Zenon
<1>1. ev \in EventInfo /\ ev.e = "SectorUpdateDealIDs" /\ ev.v = v /\ ev.r = "none"
    BY DEF Event, EventInfo, EventNames, Plain, Returns
<1> HIDE DEF ev
<1>2. Place(ev, s)
    BY Zenon, <1>1 DEF Place
<1>3. Tells(ev, s, c)
    BY Zenon, <1>1 DEF Tells
<1>4. Records(ev, s, c, "none")
    BY Zenon, <1>1 DEF Records, Carries
<1> QED
    BY Zenon, <1>1, <1>2, <1>3, <1>4 DEF Fits

(* The deal IDs of the piece that was added (handleAddPiece).              *)
LEMMA PieceFits ==
    ASSUME NEW s, NEW c, NEW v \in 0 .. 2
    PROVE  Fits(Event("SectorPieceAdded", v, "none"), s, c, "none")
<1> DEFINE ev == Event("SectorPieceAdded", v, "none")
<1> SUFFICES Fits(ev, s, c, "none")
    BY Zenon
<1>1. ev \in EventInfo /\ ev.e = "SectorPieceAdded" /\ ev.v = v /\ ev.r = "none"
    BY DEF Event, EventInfo, EventNames, Plain, Returns
<1> HIDE DEF ev
<1>2. Place(ev, s)
    BY Zenon, <1>1 DEF Place
<1>3. Tells(ev, s, c)
    BY Zenon, <1>1 DEF Tells
<1>4. Records(ev, s, c, "none")
    BY Zenon, <1>1 DEF Records, Carries
<1> QED
    BY Zenon, <1>1, <1>2, <1>3, <1>4 DEF Fits

(* Deals that the chain does not know, with the state to return to.        *)
LEMMA InvalidDealsFit ==
    ASSUME NEW s, NEW c, NEW r \in Returns,
           \/ s.State \in SnapStates /\ r = "none"
           \/ s.State = "PreCommit1" /\ r = "PreCommit1"
           \/ s.State \in Sealed /\ r \in {"PreCommitting", "PreCommitFailed", "CommitFailed"}
    PROVE  Fits(Event("SectorInvalidDealIDs", 0, r), s, c, "none")
<1> DEFINE ev == Event("SectorInvalidDealIDs", 0, r)
<1> SUFFICES Fits(ev, s, c, "none")
    BY Zenon
<1>1. ev \in EventInfo /\ ev.e = "SectorInvalidDealIDs" /\ ev.v = 0 /\ ev.r = r
    BY Zenon DEF Event, EventInfo, EventNames, Plain, Returns
<1> HIDE DEF ev
<1>2. Place(ev, s)
    BY Zenon, <1>1 DEF Place
<1>3. Tells(ev, s, c)
    BY Zenon, <1>1 DEF Tells
<1>4. Records(ev, s, c, "none")
    BY Zenon, <1>1 DEF Records, Carries
<1> QED
    BY Zenon, <1>1, <1>2, <1>3, <1>4 DEF Fits

(* The proof that was computed (handleCommitting).                         *)
LEMMA ProofFits ==
    ASSUME NEW s, NEW c, NEW v \in Nat, NEW e \in {"SectorCommitted", "SectorProofReady"}
    PROVE  Fits(Event(e, v, "none"), s, c, "none")
<1> DEFINE ev == Event(e, v, "none")
<1> SUFFICES Fits(ev, s, c, "none")
    BY Zenon
<1>1. ev \in EventInfo /\ ev.e = e /\ ev.v = v /\ ev.r = "none"
    BY Zenon DEF Event, EventInfo, EventNames, Plain, Returns
<1> HIDE DEF ev
<1>2. Place(ev, s)
    BY Zenon, <1>1 DEF Place
<1>3. Tells(ev, s, c)
    BY Zenon, <1>1 DEF Tells
<1>4. Records(ev, s, c, "none")
    BY Zenon, <1>1 DEF Records, Carries
<1> QED
    BY Zenon, <1>1, <1>2, <1>3, <1>4 DEF Fits

(* The precommit message (handleSubmitPreCommitBatch).                     *)
LEMMA PreCommitSentFits ==
    ASSUME NEW s, NEW c, Len(c.msgs) \in Nat, s.State = "SubmitPreCommitBatch"
    PROVE  Fits(Event("SectorPreCommitBatchSent", Len(c.msgs) + 1, "none"), s, c, "precommit")
<1> DEFINE ev == Event("SectorPreCommitBatchSent", Len(c.msgs) + 1, "none")
<1> SUFFICES Fits(ev, s, c, "precommit")
    BY Zenon
<1>1. ev \in EventInfo /\ ev.e = "SectorPreCommitBatchSent" /\ ev.v = Len(c.msgs) + 1 /\ ev.r = "none"
    BY DEF Event, EventInfo, EventNames, Plain, Returns
<1> HIDE DEF ev
<1>2. Place(ev, s)
    BY Zenon, <1>1 DEF Place
<1>3. Tells(ev, s, c)
    BY Zenon, <1>1 DEF Tells
<1>4. Records(ev, s, c, "precommit")
    BY Zenon, <1>1 DEF Records, Carries
<1> QED
    BY Zenon, <1>1, <1>2, <1>3, <1>4 DEF Fits

(* The commit message (handleSubmitCommit, handleSubmitCommitAggregate).   *)
LEMMA CommitSentFits ==
    ASSUME NEW s, NEW c, Len(c.msgs) \in Nat, NEW e \in {"SectorCommitSubmitted", "SectorCommitAggregateSent"}
    PROVE  Fits(Event(e, Len(c.msgs) + 1, "none"), s, c, "commit")
<1> DEFINE ev == Event(e, Len(c.msgs) + 1, "none")
<1> SUFFICES Fits(ev, s, c, "commit")
    BY Zenon
<1>1. ev \in EventInfo /\ ev.e = e /\ ev.v = Len(c.msgs) + 1 /\ ev.r = "none"
    BY DEF Event, EventInfo, EventNames, Plain, Returns
<1> HIDE DEF ev
<1>2. Place(ev, s)
    BY Zenon, <1>1 DEF Place
<1>3. Tells(ev, s, c)
    BY Zenon, <1>1 DEF Tells
<1>4. Records(ev, s, c, "commit")
    BY Zenon, <1>1 DEF Records, Carries
<1> QED
    BY Zenon, <1>1, <1>2, <1>3, <1>4 DEF Fits

(* The message of an upgrade (handleSubmitReplicaUpdate).                  *)
LEMMA UpdateSentFits ==
    ASSUME NEW s, NEW c, Len(c.msgs) \in Nat, s.UpdateSealed, s.State = "SubmitReplicaUpdate"
    PROVE  Fits(Event("SectorReplicaUpdateSubmitted", Len(c.msgs) + 1, "none"), s, c, "update")
<1> DEFINE ev == Event("SectorReplicaUpdateSubmitted", Len(c.msgs) + 1, "none")
<1> SUFFICES Fits(ev, s, c, "update")
    BY Zenon
<1>1. ev \in EventInfo /\ ev.e = "SectorReplicaUpdateSubmitted" /\ ev.v = Len(c.msgs) + 1 /\ ev.r = "none"
    BY DEF Event, EventInfo, EventNames, Plain, Returns
<1> HIDE DEF ev
<1>2. Place(ev, s)
    BY Zenon, <1>1 DEF Place
<1>3. Tells(ev, s, c)
    BY Zenon, <1>1 DEF Tells
<1>4. Records(ev, s, c, "update")
    BY Zenon, <1>1 DEF Records, Carries
<1> QED
    BY Zenon, <1>1, <1>2, <1>3, <1>4 DEF Fits

(* The termination message (handleTerminating).                            *)
LEMMA TerminateSentFits ==
    ASSUME NEW s, NEW c, Len(c.msgs) \in Nat
    PROVE  Fits(Event("SectorTerminating", Len(c.msgs) + 1, "none"), s, c, "terminate")
<1> DEFINE ev == Event("SectorTerminating", Len(c.msgs) + 1, "none")
<1> SUFFICES Fits(ev, s, c, "terminate")
    BY Zenon
<1>1. ev \in EventInfo /\ ev.e = "SectorTerminating" /\ ev.v = Len(c.msgs) + 1 /\ ev.r = "none"
    BY DEF Event, EventInfo, EventNames, Plain, Returns
<1> HIDE DEF ev
<1>2. Place(ev, s)
    BY Zenon, <1>1 DEF Place
<1>3. Tells(ev, s, c)
    BY Zenon, <1>1 DEF Tells
<1>4. Records(ev, s, c, "terminate")
    BY Zenon, <1>1 DEF Records, Carries
<1> QED
    BY Zenon, <1>1, <1>2, <1>3, <1>4 DEF Fits

(* The events that carry nothing, where their handlers send them.          *)
Says1(s, c) ==
    {e \in EventNames :
        \/ e = "SectorCommitFailed" /\ s.State \in Sealed
        \/ e = "SectorCommitFailed" /\ s.State = "GetTicket" /\ s.CommitMessage # 0
        \/ e = "SectorTicket" /\ s.State = "GetTicket"
        \/ /\ e = "SectorRemove"
           /\ s.State \in {"GetTicket", "SealPreCommit1Failed", "RecoverDealIDs", "DealsExpired"}
                              \cup EndStates
        \/ e = "SectorTerminate" /\ s.State = "TerminateFailed"
        \/ /\ e = "SectorPreCommit1" /\ s.State = "PreCommit1"
           /\ s.Ticket >= c.era \/ (c.pci # NoPci /\ ~c.pci.late)
        \/ /\ e = "SectorOldTicket" /\ s.State = "PreCommit1"
           /\ s.Ticket < c.era /\ (c.pci = NoPci \/ c.pci.late)
        \/ /\ e \in {"SectorRetrySealPreCommit1", "SectorRetrySealPreCommit2"}
           /\ s.State \in {"SealPreCommit1Failed", "SealPreCommit2Failed"}
        \/ e = "SectorRevertUpgradeToProving" /\ s.State = "AbortUpgrade"
        \/ e = "SectorInvalidDealIDs" /\ s.State \in SnapStates
        \/ e = "SectorProving" /\ s.CommitMessage # 0 /\ Status(c, s.CommitMessage) = "ok"
        \/ /\ e = "SectorReplicaUpdateLanded"
           /\ s.ReplicaUpdateMessage # 0 /\ Status(c, s.ReplicaUpdateMessage) = "ok"
        \/ e = "SectorRetryPreCommitWait" /\ s.PreCommitMessage # 0
        \/ e = "SectorRetryCommitWait" /\ s.CommitMessage # 0
        \/ /\ e = "SectorRetrySubmitReplicaUpdateWait"
           /\ s.State = "ReplicaUpdateFailed" /\ s.ReplicaUpdateMessage # 0}

(* They fit.                                                               *)
LEMMA SaysFits ==
    ASSUME NEW s, NEW c, NEW e \in Says1(s, c), NEW o \in Sends(e) \cup Fails(e)
    PROVE  Reply(s, c, o)
<1>1. Ev(e) \in EventInfo /\ Ev(e).e = e /\ Ev(e).v = 0 /\ Ev(e).r = "none"
    BY Zenon DEF Ev, Event, EventInfo, Returns, Says1
<1> HIDE DEF Ev
<1>2. Place(Ev(e), s)
    BY Zenon, <1>1 DEF Place, Says1
<1>3. Tells(Ev(e), s, c)
    BY Zenon, <1>1 DEF Tells, Says1
<1>4. Records(Ev(e), s, c, "none")
    BY <1>1 DEF Records, Carries, Says1
<1>5. Fits(Ev(e), s, c, "none")
    BY Zenon, <1>1, <1>2, <1>3, <1>4 DEF Fits
<1> QED
    BY Zenon, <1>5, Outcomes DEF Reply

(* The results of one check followed by another are those of either.       *)
LEMMA ThenEither ==
    ASSUME NEW results, NEW more, NEW r \in Then(results, more)
    PROVE  r \in results \/ r \in more
BY Zenon DEF Then

(* A check counts the calls that failed.                                   *)
LEMMA ChecksCost ==
    ASSUME NEW s, NEW c, NEW b, NEW proof
    PROVE  /\ \A r \in checkPieces(s, c, b) : r.cost \in Nat
           /\ \A r \in checkPrecommit(s, c) : r.cost \in Nat
           /\ \A r \in checkCommit(s, c, proof) : r.cost \in Nat
           /\ \A r \in checkReplicaUpdate(s, c) : r.cost \in Nat
<1>1. \A x : \A r \in checkPieces(s, c, x) : r.cost \in Nat
    BY DEF checkPieces, Result
<1>2. \A err : Result(err, 0).cost \in Nat /\ Result(err, 1).cost \in Nat
    BY Zenon DEF Result
<1>3. ASSUME NEW r \in checkPrecommit(s, c) PROVE r.cost \in Nat
    <2>1. r \in checkPieces(s, c, FALSE) \/ \E err : r \in {Result(err, 0), Result(err, 1)}
        BY Zenon, <1>3, ThenEither DEF checkPrecommit
    <2> QED
        BY Zenon, <1>1, <1>2, <2>1
<1>4. ASSUME NEW r \in checkCommit(s, c, proof) PROVE r.cost \in Nat
    <2>1. r \in checkPieces(s, c, FALSE) \/ \E err : r \in {Result(err, 0), Result(err, 1)}
        BY Zenon, <1>4, ThenEither DEF checkCommit
    <2> QED
        BY Zenon, <1>1, <1>2, <2>1
<1>5. ASSUME NEW r \in checkReplicaUpdate(s, c) PROVE r.cost \in Nat
    <2>1. r \in checkPieces(s, c, TRUE) \/ \E err : r \in {Result(err, 0), Result(err, 1)}
        BY Zenon, <1>5, ThenEither DEF checkReplicaUpdate
    <2> QED
        BY Zenon, <1>1, <1>2, <2>1
<1> QED
    BY Zenon, <1>1, <1>3, <1>4, <1>5

-----------------------------------------------------------------------------
(* The handlers of sealing (states_sealing.go).                            *)

(* handleGetTicket sends a ticket, which is none when the chain could not  *)
(* be read, or gives up.                                                   *)
LEMMA GetTicketReplies ==
    ASSUME NEW s, NEW c \in ChainInfo, s.State = "GetTicket", NEW o \in handleGetTicket(s, c)
    PROVE  Reply(s, c, o)
<1>1. \/ o \in Fails("SectorTicket")
      \/ \E e \in {"SectorRemove", "SectorSealPreCommit1Failed"} : o \in Sends(e) \cup Fails(e)
      \/ s.CommitMessage # 0 /\ o \in Sends("SectorCommitFailed") \cup Fails("SectorCommitFailed")
      \/ o \in SendsTo("SectorTicket", c.pci.ticket, "none")
      \/ o \in SendsTo("SectorTicket", c.era, "none")
    BY Zenon DEF handleGetTicket
<1>2. c.pci.ticket \in 0 .. 2 /\ c.era \in 0 .. 2
    BY DEF ChainInfo
<1>3. /\ "SectorTicket" \in Says1(s, c) /\ "SectorRemove" \in Says1(s, c)
      /\ s.CommitMessage # 0 => "SectorCommitFailed" \in Says1(s, c)
      /\ "SectorSealPreCommit1Failed" \in Plain
    BY Zenon DEF Says1, EventNames, Plain
<1>4. ASSUME NEW v \in 0 .. 2, o \in SendsTo("SectorTicket", v, "none") PROVE Reply(s, c, o)
    BY Zenon, <1>4, TicketFits, Outcomes DEF Reply
<1> QED
    BY Zenon, <1>1, <1>2, <1>3, <1>4, PlainReply, SaysFits

(* handlePreCommit1 seals only with a ticket that the chain will take.     *)
LEMMA PreCommit1Replies ==
    ASSUME NEW s \in SectorInfo, NEW c \in ChainInfo, s.State = "PreCommit1",
           NEW o \in handlePreCommit1(s, c)
    PROVE  Reply(s, c, o)
<1> DEFINE next(err) ==
               CASE err = "InvalidDeals" -> SendsTo("SectorInvalidDealIDs", 0, "PreCommit1")
                 [] err = "ExpiredDeals" -> Sends("SectorDealsExpired")
                 [] err # "ok" -> Stops
                 [] err = "ok" /\ s.Ticket < c.era /\ (c.pci = NoPci \/ c.pci.late) ->
                       Sends("SectorOldTicket") \cup ApiError
                 [] OTHER -> Sends("SectorPreCommit1")
                             \cup Fails("SectorSealPreCommit1Failed") \cup ApiError
<1>0. o \in UNION {{[x EXCEPT !.cost = @ + r.cost] : x \in next(r.err)} :
                      r \in checkPieces(s, c, FALSE)}
    BY Zenon DEF handlePreCommit1, After
<1> HIDE DEF next
<1>1. PICK r, x :
          r \in checkPieces(s, c, FALSE) /\ x \in next(r.err) /\ o = [x EXCEPT !.cost = @ + r.cost]
    BY <1>0, Zenon
<1>2. r.cost \in Nat
    BY Zenon, <1>1, ChecksCost
<1>3. \/ x \in SendsTo("SectorInvalidDealIDs", 0, "PreCommit1")
      \/ x \in Stops \cup ApiError
      \/ x \in Sends("SectorDealsExpired") \cup Fails("SectorSealPreCommit1Failed")
      \/ s.Ticket < c.era /\ (c.pci = NoPci \/ c.pci.late) /\ x \in Sends("SectorOldTicket")
      \/ ~(s.Ticket < c.era /\ (c.pci = NoPci \/ c.pci.late)) /\ x \in Sends("SectorPreCommit1")
    BY Zenon, <1>1 DEF next
<1>4. Fits(Event("SectorInvalidDealIDs", 0, "PreCommit1"), s, c, "none")
    <2>1. "PreCommit1" \in Returns
        BY Zenon DEF Returns
    <2> QED
        BY Zenon, <2>1, InvalidDealsFit
<1>5. /\ s.Ticket < c.era /\ (c.pci = NoPci \/ c.pci.late) => "SectorOldTicket" \in Says1(s, c)
      /\ ~(s.Ticket < c.era /\ (c.pci = NoPci \/ c.pci.late)) => "SectorPreCommit1" \in Says1(s, c)
    <2>1. s.Ticket \in Int /\ c.era \in Int
        BY DEF SectorInfo, ChainInfo
    <2> QED
        BY <2>1 DEF Says1, EventNames
<1>6. "SectorDealsExpired" \in Plain /\ "SectorSealPreCommit1Failed" \in Plain
    BY Zenon DEF Plain
<1>7. Reply(s, c, x)
    <2>1. CASE x \in SendsTo("SectorInvalidDealIDs", 0, "PreCommit1")
        BY Zenon, <1>4, <2>1, Outcomes DEF Reply
    <2> QED
        BY Zenon, <1>3, <1>5, <1>6, <2>1, PlainReply, SilentReply, SaysFits
<1> QED
    BY Zenon, <1>1, <1>2, <1>7, CostReply

(* The chain's messages are a sequence.                                    *)
LEMMA ChainMessages ==
    ASSUME NEW c \in ChainInfo
    PROVE  Len(c.msgs) \in Nat
BY DEF ChainInfo

(* handlePreCommitWait looks at the message it recorded.                   *)
LEMMA PreCommitWaitReplies ==
    ASSUME NEW s \in SectorInfo, NEW c \in ChainInfo, s.State \in {"PreCommitBatchWait", "PreCommitWait"},
           NEW o \in handlePreCommitWait(s, c)
    PROVE  Reply(s, c, o)
<1>1. \/ \E e \in {"SectorChainPreCommitFailed", "SectorPreCommitLanded",
                   "SectorRetryPreCommit"} :
            o \in Sends(e) \cup Fails(e)
    BY Zenon DEF handlePreCommitWait
<1>2. {"SectorChainPreCommitFailed", "SectorPreCommitLanded", "SectorRetryPreCommit"} \subseteq Plain
    BY DEF Says1, EventNames, Plain, Sealed, EndStates, SnapStates
<1> QED
    BY Zenon, <1>1, <1>2, PlainReply

(* handleCommitWait reports a proving sector when its commit succeeded.    *)
LEMMA CommitWaitReplies ==
    ASSUME NEW s \in SectorInfo, NEW c \in ChainInfo, s.State \in {"CommitWait", "CommitAggregateWait"},
           NEW o \in handleCommitWait(s, c)
    PROVE  Reply(s, c, o)
<1>1. \/ \E e \in {"SectorRetrySubmitCommit"} :
            o \in Sends(e) \cup Fails(e)
      \/ /\ s.CommitMessage # 0 /\ Status(c, s.CommitMessage) = "ok"
         /\ o \in Sends("SectorProving") \cup Fails("SectorProving")
      \/ o \in Sends("SectorCommitFailed") \cup Fails("SectorCommitFailed")
    BY Zenon DEF handleCommitWait
<1>2. /\ {"SectorRetrySubmitCommit"} \subseteq Plain
      /\ s.CommitMessage # 0 /\ Status(c, s.CommitMessage) = "ok" => "SectorProving" \in Says1(s, c)
      /\ "SectorCommitFailed" \in Says1(s, c)
    BY DEF Says1, EventNames, Plain, Sealed, EndStates, SnapStates
<1> QED
    BY Zenon, <1>1, <1>2, PlainReply, SaysFits

(* handleReplicaUpdateWait reports an update that succeeded.               *)
LEMMA ReplicaUpdateWaitReplies ==
    ASSUME NEW s \in SectorInfo, NEW c \in ChainInfo, s.State = "ReplicaUpdateWait",
           NEW o \in handleReplicaUpdateWait(s, c)
    PROVE  Reply(s, c, o)
<1>1. \/ \E e \in {"SectorSubmitReplicaUpdateFailed"} :
            o \in Sends(e) \cup Fails(e)
      \/ /\ s.ReplicaUpdateMessage # 0 /\ Status(c, s.ReplicaUpdateMessage) = "ok"
         /\ o \in Sends("SectorReplicaUpdateLanded") \cup Fails("SectorReplicaUpdateLanded")
    BY Zenon DEF handleReplicaUpdateWait
<1>2. /\ {"SectorSubmitReplicaUpdateFailed"} \subseteq Plain
      /\ s.ReplicaUpdateMessage # 0 /\ Status(c, s.ReplicaUpdateMessage) = "ok" =>
            "SectorReplicaUpdateLanded" \in Says1(s, c)
    BY DEF Says1, EventNames, Plain, Sealed, EndStates, SnapStates
<1> QED
    BY Zenon, <1>1, <1>2, PlainReply, SaysFits

(* handleTerminating pushes a termination, or finds nothing to terminate.  *)
LEMMA TerminatingReplies ==
    ASSUME NEW s \in SectorInfo, NEW c \in ChainInfo, s.State = "Terminating",
           NEW o \in handleTerminating(c)
    PROVE  Reply(s, c, o)
<1>1. \/ \E e \in {"SectorTerminateFailed", "SectorTerminating"} :
            o \in Sends(e) \cup Fails(e)
      \/ o \in Sends("SectorRemove") \cup Fails("SectorRemove")
      \/ o \in Pushes(c, "terminate", "SectorTerminating")
    BY Zenon DEF handleTerminating
<1>2. /\ {"SectorTerminateFailed", "SectorTerminating"} \subseteq Plain
      /\ "SectorRemove" \in Says1(s, c)
    BY DEF Says1, EventNames, Plain, Sealed, EndStates, SnapStates
<1>3. ASSUME o \in Pushes(c, "terminate", "SectorTerminating") PROVE Reply(s, c, o)
    BY Zenon, <1>3, TerminateSentFits, ChainMessages, Outcomes DEF Reply
<1> QED
    BY Zenon, <1>1, <1>2, <1>3, PlainReply, SaysFits

(* handleRecoverDealIDsOrFailWith sends the deal IDs the chain has.        *)
LEMMA RecoverReplies ==
    ASSUME NEW s \in SectorInfo, NEW c \in ChainInfo, s.State \in {"RecoverDealIDs", "SnapDealsRecoverDealIDs"},
           NEW f, s.State = "RecoverDealIDs" => f = "SectorRemove",
           s.State = "SnapDealsRecoverDealIDs" => f = "SectorAbortUpgrade",
           NEW o \in handleRecoverDealIDsOrFailWith(s, c, f)
    PROVE  Reply(s, c, o)
<1>1. \/ \E e \in {"SectorAbortUpgrade"} :
            o \in Sends(e) \cup Fails(e)
      \/ s.State = "RecoverDealIDs" /\ o \in Sends("SectorRemove") \cup Fails("SectorRemove")
      \/ o \in SendsTo("SectorUpdateDealIDs", 0, "none")
      \/ o \in SendsTo("SectorUpdateDealIDs", c.ids, "none")
      \/ o \in ApiError \cup Stops
    BY Zenon DEF handleRecoverDealIDsOrFailWith
<1>2. /\ {"SectorAbortUpgrade"} \subseteq Plain
      /\ s.State = "RecoverDealIDs" => "SectorRemove" \in Says1(s, c)
    BY DEF Says1, EventNames, Plain, Sealed, EndStates, SnapStates
<1>3. ASSUME o \in SendsTo("SectorUpdateDealIDs", 0, "none") PROVE Reply(s, c, o)
    BY <1>3, DealIDsFit, Outcomes DEF Reply
<1>4. ASSUME o \in SendsTo("SectorUpdateDealIDs", c.ids, "none") PROVE Reply(s, c, o)
    <2>1. c.ids \in 0 .. 2
        BY DEF ChainInfo
    <2> QED
        BY Zenon, <1>4, <2>1, DealIDsFit, Outcomes DEF Reply
<1> QED
    BY Zenon, <1>1, <1>2, <1>3, <1>4, PlainReply, SilentReply, SaysFits

(* checkCommit finds a sector that is allocated but not precommitted only  *)
(* when its commit was sent, and otherwise reports an error it has no name *)
(* for.                                                                    *)
LEMMA CommitWaitFound ==
    ASSUME NEW s, NEW c, NEW proof, NEW r \in checkCommit(s, c, proof), r.err = "CommitWaitFailed"
    PROVE  s.CommitMessage # 0
<1>1. \A q \in checkPieces(s, c, FALSE) : q.err # "CommitWaitFailed"
    BY DEF checkPieces, Result
<1>2. \/ r \in checkPieces(s, c, FALSE)
      \/ \E err \in {"other", "Api", "InvalidProof", "NoPrecommit", "BadSeed", "ok"} :
            r \in {Result(err, 0), Result(err, 1)}
      \/ s.CommitMessage # 0
    BY Zenon, ThenEither DEF checkCommit
<1>3. \A err, n : Result(err, n).err = err
    BY Zenon DEF Result
<1> QED
    BY Zenon, <1>1, <1>2, <1>3

(* handleSubmitPreCommitBatch pushes a precommit only for a sealed sector. *)
LEMMA SubmitPreCommitBatchReplies ==
    ASSUME NEW s \in SectorInfo, NEW c \in ChainInfo, s.State = "SubmitPreCommitBatch",
           NEW o \in handleSubmitPreCommitBatch(s, c)
    PROVE  Reply(s, c, o)
<1> DEFINE next(err) ==
               CASE err \in {"BadCommD", "ExpiredTicket", "BadTicket"} ->
                       Sends("SectorSealPreCommit1Failed")
                 [] err = "InvalidDeals" ->
                       SendsTo("SectorInvalidDealIDs", 0, "PreCommitting")
                 [] err = "ExpiredDeals" -> Sends("SectorDealsExpired")
                 [] err = "PrecommitOnChain" -> Sends("SectorPreCommitLanded")
                 [] err = "Allocated?" -> Sends("SectorChainPreCommitFailed")
                 [] err \in {"Api", "SectorNumberAllocated"} -> Stops
                 [] OTHER -> Pushes(c, "precommit", "SectorPreCommitBatchSent")
                             \cup Fails("SectorChainPreCommitFailed")
                             \cup Fails("SectorSealPreCommit1Failed")
<1>0. \/ \E e \in {"SectorSealPreCommit1Failed"} :
            o \in Sends(e) \cup Fails(e)
      \/ o \in ApiError \cup Stops
      \/ o \in UNION {{[x EXCEPT !.cost = @ + r.cost] : x \in next(r.err)} :
                       r \in checkPrecommit(s, c)}
    BY Zenon DEF handleSubmitPreCommitBatch, After
<1> HIDE DEF next
<1>1. {"SectorSealPreCommit1Failed", "SectorDealsExpired", "SectorPreCommitLanded",
         "SectorChainPreCommitFailed"} \subseteq Plain
    BY DEF Says1, EventNames, Plain, Sealed, EndStates, SnapStates
<1>2. ASSUME NEW r \in checkPrecommit(s, c), NEW x \in next(r.err),
             o = [x EXCEPT !.cost = @ + r.cost]
      PROVE  Reply(s, c, o)
    <2>1. r.cost \in Nat
        BY Zenon, ChecksCost
    <2>3. \/ \E e \in {"SectorSealPreCommit1Failed", "SectorDealsExpired",
                   "SectorPreCommitLanded", "SectorChainPreCommitFailed"} :
                x \in Sends(e) \cup Fails(e)
          \/ x \in SendsTo("SectorInvalidDealIDs", 0, "PreCommitting")
          \/ x \in Pushes(c, "precommit", "SectorPreCommitBatchSent")
          \/ x \in ApiError \cup Stops
        BY Zenon, <1>2 DEF next
    <2>4. ASSUME x \in SendsTo("SectorInvalidDealIDs", 0, "PreCommitting") PROVE Reply(s, c, x)
        <3>1. "PreCommitting" \in Returns
            BY Zenon DEF Returns
        <3>2. Fits(Event("SectorInvalidDealIDs", 0, "PreCommitting"), s, c, "none")
            BY Zenon, <3>1, InvalidDealsFit DEF Sealed
        <3> QED
            BY Zenon, <2>4, <3>2, Outcomes DEF Reply
    <2>5. ASSUME x \in Pushes(c, "precommit", "SectorPreCommitBatchSent") PROVE Reply(s, c, x)
        BY Zenon, <2>5, PreCommitSentFits, ChainMessages, Outcomes DEF Reply
    <2>9. Reply(s, c, x)
        BY Zenon, <1>1, <2>3, <2>4, <2>5, PlainReply, SilentReply
    <2> QED
        BY Zenon, <1>2, <2>1, <2>9, CostReply
<1>3. ASSUME \/ \E e \in {"SectorSealPreCommit1Failed"} :
                   o \in Sends(e) \cup Fails(e)
             \/ o \in ApiError \cup Stops
      PROVE  Reply(s, c, o)
    BY Zenon, <1>1, <1>3, PlainReply, SilentReply
<1> QED
    BY <1>0, <1>2, <1>3, Zenon

(* handleSubmitCommit pushes a commit whose proof it has checked.          *)
LEMMA SubmitCommitReplies ==
    ASSUME NEW s \in SectorInfo, NEW c \in ChainInfo, s.State = "SubmitCommit",
           NEW o \in handleSubmitCommit(s, c)
    PROVE  Reply(s, c, o)
<1> DEFINE next(err) ==
               IF err = "ok"
               THEN Pushes(c, "commit", "SectorCommitSubmitted") \cup Fails("SectorCommitFailed")
               ELSE Sends("SectorCommitFailed")
<1>0. \/ \E e \in {"SectorSubmitCommitAggregate"} :
            o \in Sends(e) \cup Fails(e)
      \/ o \in ApiError \cup Stops
      \/ o \in UNION {{[x EXCEPT !.cost = @ + r.cost] : x \in next(r.err)} :
                       r \in checkCommit(s, c, s.Proof)}
    BY Zenon DEF handleSubmitCommit, After
<1> HIDE DEF next
<1>1. /\ {"SectorSubmitCommitAggregate"} \subseteq Plain
      /\ "SectorCommitFailed" \in Says1(s, c)
    BY DEF Says1, EventNames, Plain, Sealed, EndStates, SnapStates
<1>2. ASSUME NEW r \in checkCommit(s, c, s.Proof), NEW x \in next(r.err),
             o = [x EXCEPT !.cost = @ + r.cost]
      PROVE  Reply(s, c, o)
    <2>1. r.cost \in Nat
        BY Zenon, ChecksCost
    <2>3. \/ x \in Sends("SectorCommitFailed") \cup Fails("SectorCommitFailed")
          \/ x \in Pushes(c, "commit", "SectorCommitSubmitted")
        BY Zenon, <1>2 DEF next
    <2>4. ASSUME x \in Pushes(c, "commit", "SectorCommitSubmitted") PROVE Reply(s, c, x)
        BY Zenon, <2>4, CommitSentFits, ChainMessages, Outcomes DEF Reply
    <2>9. Reply(s, c, x)
        BY Zenon, <1>1, <2>3, <2>4, SaysFits
    <2> QED
        BY Zenon, <1>2, <2>1, <2>9, CostReply
<1>3. ASSUME \/ \E e \in {"SectorSubmitCommitAggregate"} :
                   o \in Sends(e) \cup Fails(e)
             \/ o \in ApiError \cup Stops
      PROVE  Reply(s, c, o)
    BY Zenon, <1>1, <1>3, PlainReply, SilentReply
<1> QED
    BY <1>0, <1>2, <1>3, Zenon

(* handlePreCommitFailed looks for the message before it retries.          *)
LEMMA PreCommitFailedReplies ==
    ASSUME NEW s \in SectorInfo, NEW c \in ChainInfo, s.State = "PreCommitFailed",
           NEW o \in handlePreCommitFailed(s, c)
    PROVE  Reply(s, c, o)
<1> DEFINE next(err) ==
               CASE err \in {"BadCommD", "ExpiredTicket", "BadTicket"} ->
                       Sends("SectorSealPreCommit1Failed")
                 [] err = "InvalidDeals" ->
                       SendsTo("SectorInvalidDealIDs", 0, "PreCommitFailed")
                 [] err = "ExpiredDeals" -> Sends("SectorDealsExpired")
                 [] err = "PrecommitOnChain" ->
                       (CASE s.PreCommitMessage = 0 -> Sends("SectorPreCommitLanded")
                          [] s.PreCommitMessage # 0 /\ c.pci.ticket # s.CommR -> Stops
                          [] OTHER -> Sends("SectorRetryWaitSeed"))
                       \cup Fails("SectorRetryPreCommit")
                 [] err = "ok" -> Sends("SectorRetryPreCommit")
                 [] OTHER -> Stops
<1>0. \/ \E e \in {"SectorRetryPreCommit"} :
            o \in Sends(e) \cup Fails(e)
      \/ s.PreCommitMessage # 0 /\ o \in Sends("SectorRetryPreCommitWait") \cup Fails("SectorRetryPreCommitWait")
      \/ o \in ApiError \cup Stops
      \/ o \in UNION {{[x EXCEPT !.cost = @ + r.cost] : x \in next(r.err)} :
                       r \in checkPrecommit(s, c)}
    BY Zenon DEF handlePreCommitFailed, After
<1> HIDE DEF next
<1>1. /\ {"SectorSealPreCommit1Failed", "SectorDealsExpired", "SectorPreCommitLanded",
         "SectorRetryWaitSeed", "SectorRetryPreCommit"} \subseteq Plain
      /\ s.PreCommitMessage # 0 => "SectorRetryPreCommitWait" \in Says1(s, c)
    BY DEF Says1, EventNames, Plain, Sealed, EndStates, SnapStates
<1>2. ASSUME NEW r \in checkPrecommit(s, c), NEW x \in next(r.err),
             o = [x EXCEPT !.cost = @ + r.cost]
      PROVE  Reply(s, c, o)
    <2>1. r.cost \in Nat
        BY Zenon, ChecksCost
    <2>3. \/ \E e \in {"SectorSealPreCommit1Failed", "SectorDealsExpired",
                   "SectorPreCommitLanded", "SectorRetryWaitSeed", "SectorRetryPreCommit"} :
                x \in Sends(e) \cup Fails(e)
          \/ x \in SendsTo("SectorInvalidDealIDs", 0, "PreCommitFailed")
          \/ x \in ApiError \cup Stops
        BY Zenon, <1>2 DEF next
    <2>4. ASSUME x \in SendsTo("SectorInvalidDealIDs", 0, "PreCommitFailed") PROVE Reply(s, c, x)
        <3>1. "PreCommitFailed" \in Returns
            BY Zenon DEF Returns
        <3>2. Fits(Event("SectorInvalidDealIDs", 0, "PreCommitFailed"), s, c, "none")
            BY Zenon, <3>1, InvalidDealsFit DEF Sealed
        <3> QED
            BY Zenon, <2>4, <3>2, Outcomes DEF Reply
    <2>9. Reply(s, c, x)
        BY Zenon, <1>1, <2>3, <2>4, PlainReply, SilentReply
    <2> QED
        BY Zenon, <1>2, <2>1, <2>9, CostReply
<1>3. ASSUME \/ \E e \in {"SectorRetryPreCommit"} :
                   o \in Sends(e) \cup Fails(e)
             \/ s.PreCommitMessage # 0 /\ o \in Sends("SectorRetryPreCommitWait") \cup Fails("SectorRetryPreCommitWait")
             \/ o \in ApiError \cup Stops
      PROVE  Reply(s, c, o)
    BY Zenon, <1>1, <1>3, PlainReply, SilentReply, SaysFits
<1> QED
    BY <1>0, <1>2, <1>3, Zenon

(* handleCommitFailed looks for the message before it retries.             *)
LEMMA CommitFailedReplies ==
    ASSUME NEW s \in SectorInfo, NEW c \in ChainInfo, s.State = "CommitFailed",
           NEW o \in handleCommitFailed(s, c)
    PROVE  Reply(s, c, o)
<1> DEFINE next(err) ==
               CASE err = "BadSeed" -> Sends("SectorRetryWaitSeed")
                 [] err = "InvalidProof" ->
                       IF s.InvalidProofs > 0 THEN Sends("SectorSealPreCommit1Failed")
                       ELSE Sends("SectorRetryInvalidProof")
                 [] err = "NoPrecommit" -> Sends("SectorRetryPreCommit")
                 [] err = "InvalidDeals" ->
                       SendsTo("SectorInvalidDealIDs", 0, "CommitFailed")
                 [] err = "ExpiredDeals" -> Sends("SectorDealsExpired")
                 [] err = "CommitWaitFailed" -> Sends("SectorRetryCommitWait")
                 [] err = "ok" -> Sends("SectorRetryComputeProof")
                 [] OTHER -> Stops
<1>0. \/ \E e \in {"SectorRetrySubmitCommit"} :
            o \in Sends(e) \cup Fails(e)
      \/ s.CommitMessage # 0 /\ o \in Sends("SectorRetryCommitWait") \cup Fails("SectorRetryCommitWait")
      \/ o \in ApiError \cup Stops
      \/ o \in UNION {{[x EXCEPT !.cost = @ + r.cost] : x \in next(r.err)} :
                       r \in checkCommit(s, c, s.Proof)}
    BY Zenon DEF handleCommitFailed, After
<1> HIDE DEF next
<1>1. /\ {"SectorRetryWaitSeed", "SectorSealPreCommit1Failed", "SectorRetryInvalidProof",
         "SectorRetryPreCommit", "SectorDealsExpired", "SectorRetryComputeProof",
         "SectorRetrySubmitCommit"} \subseteq Plain
      /\ s.CommitMessage # 0 => "SectorRetryCommitWait" \in Says1(s, c)
    BY DEF Says1, EventNames, Plain, Sealed, EndStates, SnapStates
<1>2. ASSUME NEW r \in checkCommit(s, c, s.Proof), NEW x \in next(r.err),
             o = [x EXCEPT !.cost = @ + r.cost]
      PROVE  Reply(s, c, o)
    <2>1. r.cost \in Nat
        BY Zenon, ChecksCost
    <2>2. r.err = "CommitWaitFailed" => s.CommitMessage # 0
        BY Zenon, CommitWaitFound
    <2>3. \/ \E e \in {"SectorRetryWaitSeed", "SectorSealPreCommit1Failed",
                   "SectorRetryInvalidProof", "SectorRetryPreCommit", "SectorDealsExpired",
                   "SectorRetryComputeProof"} :
                x \in Sends(e) \cup Fails(e)
          \/ s.CommitMessage # 0 /\ x \in Sends("SectorRetryCommitWait") \cup Fails("SectorRetryCommitWait")
          \/ x \in SendsTo("SectorInvalidDealIDs", 0, "CommitFailed")
          \/ x \in ApiError \cup Stops
        BY Zenon, <1>2, <2>2 DEF next
    <2>4. ASSUME x \in SendsTo("SectorInvalidDealIDs", 0, "CommitFailed") PROVE Reply(s, c, x)
        <3>1. "CommitFailed" \in Returns
            BY Zenon DEF Returns
        <3>2. Fits(Event("SectorInvalidDealIDs", 0, "CommitFailed"), s, c, "none")
            BY Zenon, <3>1, InvalidDealsFit DEF Sealed
        <3> QED
            BY Zenon, <2>4, <3>2, Outcomes DEF Reply
    <2>9. Reply(s, c, x)
        BY Zenon, <1>1, <2>3, <2>4, PlainReply, SilentReply, SaysFits
    <2> QED
        BY Zenon, <1>2, <2>1, <2>9, CostReply
<1>3. ASSUME \/ \E e \in {"SectorRetrySubmitCommit"} :
                   o \in Sends(e) \cup Fails(e)
             \/ s.CommitMessage # 0 /\ o \in Sends("SectorRetryCommitWait") \cup Fails("SectorRetryCommitWait")
             \/ o \in ApiError \cup Stops
      PROVE  Reply(s, c, o)
    BY Zenon, <1>1, <1>3, PlainReply, SilentReply, SaysFits
<1> QED
    BY <1>0, <1>2, <1>3, Zenon

(* checkReplicaUpdate succeeds only for an update that is sealed.          *)
LEMMA UpdateFound ==
    ASSUME NEW s, NEW c, NEW r \in checkReplicaUpdate(s, c), r.err = "ok"
    PROVE  s.UpdateSealed
<1>1. \/ \E err \in {"Api", "BadRU", "other", "BadPR"} : r \in {Result(err, 0), Result(err, 1)}
      \/ s.UpdateSealed
    BY Zenon DEF checkReplicaUpdate, Then
<1>2. \A err, n : Result(err, n).err = err
    BY Zenon DEF Result
<1> QED
    BY Zenon, <1>1, <1>2

(* handleSubmitCommitAggregate gives its commit to the batcher.            *)
LEMMA SubmitCommitAggregateReplies ==
    ASSUME NEW s \in SectorInfo, NEW c \in ChainInfo, s.State = "SubmitCommitAggregate",
           NEW o \in handleSubmitCommitAggregate(s, c)
    PROVE  Reply(s, c, o)
<1> DEFINE next(err) ==
               IF err = "ok" THEN Fails("SectorRetrySubmitCommit")
               ELSE Fails("SectorCommitFailed")
<1>0. \/ o \in Sends("SectorCommitFailed") \cup Fails("SectorCommitFailed")
      \/ o \in Pushes(c, "commit", "SectorCommitAggregateSent")
      \/ o \in ApiError \cup Stops
      \/ o \in UNION {{[x EXCEPT !.cost = @ + r.cost] : x \in next(r.err)} :
                       r \in checkCommit(s, c, s.Proof)}
    BY Zenon DEF handleSubmitCommitAggregate, After
<1> HIDE DEF next
<1>1. /\ {"SectorRetrySubmitCommit"} \subseteq Plain
      /\ "SectorCommitFailed" \in Says1(s, c)
    BY DEF Says1, EventNames, Plain, Sealed, EndStates, SnapStates
<1>2. ASSUME NEW r \in checkCommit(s, c, s.Proof), NEW x \in next(r.err),
             o = [x EXCEPT !.cost = @ + r.cost]
      PROVE  Reply(s, c, o)
    <2>1. r.cost \in Nat
        BY Zenon, ChecksCost
    <2>3. \/ \E e \in {"SectorRetrySubmitCommit"} :
                x \in Sends(e) \cup Fails(e)
          \/ x \in Sends("SectorCommitFailed") \cup Fails("SectorCommitFailed")
        BY Zenon, <1>2 DEF next
    <2>9. Reply(s, c, x)
        BY Zenon, <1>1, <2>3, PlainReply, SaysFits
    <2> QED
        BY Zenon, <1>2, <2>1, <2>9, CostReply
<1>4. ASSUME o \in Pushes(c, "commit", "SectorCommitAggregateSent") PROVE Reply(s, c, o)
    BY Zenon, <1>4, CommitSentFits, ChainMessages, Outcomes DEF Reply
<1>3. ASSUME \/ o \in Sends("SectorCommitFailed") \cup Fails("SectorCommitFailed")
             \/ o \in Pushes(c, "commit", "SectorCommitAggregateSent")
             \/ o \in ApiError \cup Stops
      PROVE  Reply(s, c, o)
    BY Zenon, <1>1, <1>3, <1>4, SilentReply, SaysFits
<1> QED
    BY <1>0, <1>2, <1>3, Zenon

(* handleReplicaUpdate seals the update when its deals are good.           *)
LEMMA ReplicaUpdateReplies ==
    ASSUME NEW s \in SectorInfo, NEW c \in ChainInfo, s.State = "UpdateReplica",
           NEW o \in handleReplicaUpdate(s, c)
    PROVE  Reply(s, c, o)
<1> DEFINE next(err) ==
               IF err # "ok" THEN handleErrors(err)
               ELSE Sends("SectorReplicaUpdate") \cup Fails("SectorUpdateReplicaFailed")
<1>0. \/ \E e \in {"SectorAbortUpgrade"} :
            o \in Sends(e) \cup Fails(e)
      \/ o \in UNION {{[x EXCEPT !.cost = @ + r.cost] : x \in next(r.err)} :
                       r \in checkPieces(s, c, TRUE)}
    BY Zenon DEF handleReplicaUpdate, After
<1> HIDE DEF next
<1>1. /\ {"SectorReplicaUpdate", "SectorUpdateReplicaFailed", "SectorDealsExpired",
         "SectorAbortUpgrade"} \subseteq Plain
      /\ "SectorInvalidDealIDs" \in Says1(s, c)
    BY DEF Says1, EventNames, Plain, Sealed, EndStates, SnapStates
<1>2. ASSUME NEW r \in checkPieces(s, c, TRUE), NEW x \in next(r.err),
             o = [x EXCEPT !.cost = @ + r.cost]
      PROVE  Reply(s, c, o)
    <2>1. r.cost \in Nat
        BY Zenon, ChecksCost
    <2>3. \/ \E e \in {"SectorReplicaUpdate", "SectorUpdateReplicaFailed", "SectorDealsExpired"} :
                x \in Sends(e) \cup Fails(e)
          \/ x \in Sends("SectorInvalidDealIDs") \cup Fails("SectorInvalidDealIDs")
          \/ x \in ApiError \cup Stops
        BY Zenon, <1>2 DEF next, handleErrors
    <2>9. Reply(s, c, x)
        BY Zenon, <1>1, <2>3, PlainReply, SilentReply, SaysFits
    <2> QED
        BY Zenon, <1>2, <2>1, <2>9, CostReply
<1>3. ASSUME \/ \E e \in {"SectorAbortUpgrade"} :
                   o \in Sends(e) \cup Fails(e)
      PROVE  Reply(s, c, o)
    BY Zenon, <1>1, <1>3, PlainReply
<1> QED
    BY <1>0, <1>2, <1>3, Zenon

(* handleProveReplicaUpdate gives the upgrade of an inactive sector up.    *)
LEMMA ProveReplicaUpdateReplies ==
    ASSUME NEW s \in SectorInfo, NEW c \in ChainInfo, s.State = "ProveReplicaUpdate",
           NEW o \in handleProveReplicaUpdate(s, c)
    PROVE  Reply(s, c, o)
<1> DEFINE next(err) ==
               IF err # "ok" THEN handleErrors(err) ELSE Sends("SectorProveReplicaUpdate")
<1>0. \/ \E e \in {"SectorAbortUpgrade", "SectorProveReplicaUpdateFailed"} :
            o \in Sends(e) \cup Fails(e)
      \/ o \in ApiError \cup Stops
      \/ o \in UNION {{[x EXCEPT !.cost = @ + r.cost] : x \in next(r.err)} :
                       r \in checkPieces(s, c, TRUE)}
    BY Zenon DEF handleProveReplicaUpdate, After
<1> HIDE DEF next
<1>1. /\ {"SectorProveReplicaUpdate", "SectorDealsExpired", "SectorAbortUpgrade",
         "SectorProveReplicaUpdateFailed"} \subseteq Plain
      /\ "SectorInvalidDealIDs" \in Says1(s, c)
    BY DEF Says1, EventNames, Plain, Sealed, EndStates, SnapStates
<1>2. ASSUME NEW r \in checkPieces(s, c, TRUE), NEW x \in next(r.err),
             o = [x EXCEPT !.cost = @ + r.cost]
      PROVE  Reply(s, c, o)
    <2>1. r.cost \in Nat
        BY Zenon, ChecksCost
    <2>3. \/ \E e \in {"SectorProveReplicaUpdate", "SectorDealsExpired"} :
                x \in Sends(e) \cup Fails(e)
          \/ x \in Sends("SectorInvalidDealIDs") \cup Fails("SectorInvalidDealIDs")
          \/ x \in ApiError \cup Stops
        BY Zenon, <1>2 DEF next, handleErrors
    <2>9. Reply(s, c, x)
        BY Zenon, <1>1, <2>3, PlainReply, SilentReply, SaysFits
    <2> QED
        BY Zenon, <1>2, <2>1, <2>9, CostReply
<1>3. ASSUME \/ \E e \in {"SectorAbortUpgrade", "SectorProveReplicaUpdateFailed"} :
                   o \in Sends(e) \cup Fails(e)
             \/ o \in ApiError \cup Stops
      PROVE  Reply(s, c, o)
    BY Zenon, <1>1, <1>3, PlainReply, SilentReply
<1> QED
    BY <1>0, <1>2, <1>3, Zenon

(* handleSubmitReplicaUpdate pushes an update that is sealed.              *)
LEMMA SubmitReplicaUpdateReplies ==
    ASSUME NEW s \in SectorInfo, NEW c \in ChainInfo, s.State = "SubmitReplicaUpdate",
           NEW o \in handleSubmitReplicaUpdate(s, c)
    PROVE  Reply(s, c, o)
<1> DEFINE next(err) ==
               CASE err # "ok" -> Sends("SectorSubmitReplicaUpdateFailed")
                 [] err = "ok" /\ ~Committed(c) -> Stops
                 [] OTHER -> Pushes(c, "update", "SectorReplicaUpdateSubmitted")
                             \cup Fails("SectorSubmitReplicaUpdateFailed")
                             \cup Fails("SectorDeadlineImmutable")
<1>0. \/ o \in ApiError \cup Stops
      \/ o \in UNION {{[x EXCEPT !.cost = @ + r.cost] : x \in next(r.err)} :
                       r \in checkReplicaUpdate(s, c)}
    BY Zenon DEF handleSubmitReplicaUpdate, After
<1> HIDE DEF next
<1>1. {"SectorSubmitReplicaUpdateFailed", "SectorDeadlineImmutable"} \subseteq Plain
    BY DEF Says1, EventNames, Plain, Sealed, EndStates, SnapStates
<1>2. ASSUME NEW r \in checkReplicaUpdate(s, c), NEW x \in next(r.err),
             o = [x EXCEPT !.cost = @ + r.cost]
      PROVE  Reply(s, c, o)
    <2>1. r.cost \in Nat
        BY Zenon, ChecksCost
    <2>2. r.err = "ok" => s.UpdateSealed
        BY Zenon, UpdateFound
    <2>3. \/ \E e \in {"SectorSubmitReplicaUpdateFailed", "SectorDeadlineImmutable"} :
                x \in Sends(e) \cup Fails(e)
          \/ s.UpdateSealed /\ x \in Pushes(c, "update", "SectorReplicaUpdateSubmitted")
          \/ x \in ApiError \cup Stops
        BY Zenon, <1>2, <2>2 DEF next
    <2>4. ASSUME s.UpdateSealed, x \in Pushes(c, "update", "SectorReplicaUpdateSubmitted") PROVE Reply(s, c, x)
        BY Zenon, <2>4, UpdateSentFits, ChainMessages, Outcomes DEF Reply
    <2>9. Reply(s, c, x)
        BY Zenon, <1>1, <2>3, <2>4, PlainReply, SilentReply
    <2> QED
        BY Zenon, <1>2, <2>1, <2>9, CostReply
<1>3. ASSUME \/ o \in ApiError \cup Stops
      PROVE  Reply(s, c, o)
    BY Zenon, <1>1, <1>3, SilentReply
<1> QED
    BY <1>0, <1>2, <1>3, Zenon

(* handleSubmitReplicaUpdateFailed looks for the message before it retries.*)
LEMMA SubmitReplicaUpdateFailedReplies ==
    ASSUME NEW s \in SectorInfo, NEW c \in ChainInfo, s.State = "ReplicaUpdateFailed",
           NEW o \in handleSubmitReplicaUpdateFailed(s, c)
    PROVE  Reply(s, c, o)
<1> DEFINE next(err) ==
               CASE err = "BadRU" -> Sends("SectorRetryReplicaUpdate")
                 [] err = "BadPR" -> Sends("SectorRetryProveReplicaUpdate")
                 [] err \in {"InvalidDeals", "ExpiredDeals"} -> handleErrors(err)
                 [] err = "ok" /\ c.active -> Sends("SectorRetrySubmitReplicaUpdate") \cup ApiError
                 [] err = "ok" /\ ~c.active -> Sends("SectorAbortUpgrade") \cup ApiError
                 [] OTHER -> Stops
<1>0. \/ \E e \in {"SectorRetrySubmitReplicaUpdate"} :
            o \in Sends(e) \cup Fails(e)
      \/ /\ s.ReplicaUpdateMessage # 0
         /\ o \in Sends("SectorRetrySubmitReplicaUpdateWait") \cup Fails("SectorRetrySubmitReplicaUpdateWait")
      \/ o \in ApiError \cup Stops
      \/ o \in UNION {{[x EXCEPT !.cost = @ + r.cost] : x \in next(r.err)} :
                       r \in checkReplicaUpdate(s, c)}
    BY Zenon DEF handleSubmitReplicaUpdateFailed, After
<1> HIDE DEF next
<1>1. /\ {"SectorRetryReplicaUpdate", "SectorRetryProveReplicaUpdate",
         "SectorRetrySubmitReplicaUpdate", "SectorAbortUpgrade", "SectorDealsExpired"} \subseteq Plain
      /\ "SectorInvalidDealIDs" \in Says1(s, c)
      /\ s.ReplicaUpdateMessage # 0 => "SectorRetrySubmitReplicaUpdateWait" \in Says1(s, c)
    BY DEF Says1, EventNames, Plain, Sealed, EndStates, SnapStates
<1>2. ASSUME NEW r \in checkReplicaUpdate(s, c), NEW x \in next(r.err),
             o = [x EXCEPT !.cost = @ + r.cost]
      PROVE  Reply(s, c, o)
    <2>1. r.cost \in Nat
        BY Zenon, ChecksCost
    <2>3. \/ \E e \in {"SectorRetryReplicaUpdate", "SectorRetryProveReplicaUpdate",
                   "SectorRetrySubmitReplicaUpdate", "SectorAbortUpgrade",
                   "SectorDealsExpired"} :
                x \in Sends(e) \cup Fails(e)
          \/ x \in Sends("SectorInvalidDealIDs") \cup Fails("SectorInvalidDealIDs")
          \/ x \in ApiError \cup Stops
        BY Zenon, <1>2 DEF next, handleErrors
    <2>9. Reply(s, c, x)
        BY Zenon, <1>1, <2>3, PlainReply, SilentReply, SaysFits
    <2> QED
        BY Zenon, <1>2, <2>1, <2>9, CostReply
<1>3. ASSUME \/ \E e \in {"SectorRetrySubmitReplicaUpdate"} :
                   o \in Sends(e) \cup Fails(e)
             \/ /\ s.ReplicaUpdateMessage # 0
                /\ o \in Sends("SectorRetrySubmitReplicaUpdateWait") \cup Fails("SectorRetrySubmitReplicaUpdateWait")
             \/ o \in ApiError \cup Stops
      PROVE  Reply(s, c, o)
    BY Zenon, <1>1, <1>3, PlainReply, SilentReply, SaysFits
<1> QED
    BY <1>0, <1>2, <1>3, Zenon

(* handleCommitting computes a proof, unless its commit was sent and       *)
(* executed already.                                                       *)
LEMMA CommittingReplies ==
    ASSUME NEW s \in SectorInfo, NEW c \in ChainInfo, s.State = "Committing",
           NEW o \in handleCommitting(s, c)
    PROVE  Reply(s, c, o)
<1> DEFINE prove(err) ==
               IF err = "ok"
               THEN SendsTo("SectorCommitted", s.Seed, "none")
                    \cup SendsTo("SectorProofReady", s.Seed, "none")
               ELSE Sends("SectorCommitFailed")
           checked == UNION {{[x EXCEPT !.cost = @ + r.cost] : x \in prove(r.err)} :
                                r \in checkCommit(s, c, <<s.CommR, s.Seed>>)}
           compute ==
               IF s.CommR = 0 THEN Sends("SectorCommitFailed")
               ELSE ApiError \cup Fails("SectorComputeProofFailed")
                    \cup Fails("SectorRemoteCommitFailed") \cup checked
<1>0. \/ o \in compute
      \/ s.CommitMessage # 0 /\ o \in Sends("SectorRetryCommitWait") \cup Fails("SectorRetryCommitWait")
      \/ \E x \in compute : o = [x EXCEPT !.cost = @ + 1]
    BY Zenon DEF handleCommitting, After
<1>1. /\ {"SectorComputeProofFailed", "SectorRemoteCommitFailed"} \subseteq Plain
      /\ "SectorCommitFailed" \in Says1(s, c)
      /\ s.CommitMessage # 0 => "SectorRetryCommitWait" \in Says1(s, c)
    BY DEF Says1, EventNames, Plain, Sealed
<1> HIDE DEF prove
<1>2. ASSUME NEW r \in checkCommit(s, c, <<s.CommR, s.Seed>>), NEW x \in prove(r.err), NEW y,
             y = [x EXCEPT !.cost = @ + r.cost]
      PROVE  Reply(s, c, y)
    <2>1. r.cost \in Nat
        BY Zenon, ChecksCost
    <2>2. \/ \E e \in {"SectorCommitted", "SectorProofReady"} : x \in SendsTo(e, s.Seed, "none")
          \/ x \in Sends("SectorCommitFailed")
        BY Zenon, <1>2 DEF prove
    <2>3. s.Seed \in Nat
        BY Zenon DEF SectorInfo
    <2>4. ASSUME NEW e \in {"SectorCommitted", "SectorProofReady"}, x \in SendsTo(e, s.Seed, "none")
          PROVE  Reply(s, c, x)
        BY Zenon, <2>3, <2>4, ProofFits, Outcomes DEF Reply
    <2>5. Reply(s, c, x)
        BY Zenon, <1>1, <2>2, <2>4, SaysFits
    <2> QED
        BY Zenon, <1>2, <2>1, <2>5, CostReply
<1>3. ASSUME NEW y \in checked
      PROVE  Reply(s, c, y)
    BY <1>2, <1>3, Zenon
<1> HIDE DEF checked
<1>4. ASSUME NEW y \in compute
      PROVE  Reply(s, c, y)
    BY Zenon, <1>1, <1>3, PlainReply, SilentReply, SaysFits
<1> HIDE DEF compute
<1>5. ASSUME NEW x \in compute, o = [x EXCEPT !.cost = @ + 1]
      PROVE  Reply(s, c, o)
    <2>1. Reply(s, c, x) /\ 1 \in Nat
        BY Zenon, <1>4
    <2> QED
        BY Zenon, <1>5, <2>1, CostReply
<1>6. ASSUME s.CommitMessage # 0,
             o \in Sends("SectorRetryCommitWait") \cup Fails("SectorRetryCommitWait")
      PROVE  Reply(s, c, o)
    BY Zenon, <1>1, <1>6, SaysFits
<1> QED
    BY Zenon, <1>0, <1>4, <1>5, <1>6

(* handleSealPrecommit1Failed gives up after too many retries.             *)
LEMMA SealPrecommit1FailedReplies ==
    ASSUME NEW s \in SectorInfo, NEW c \in ChainInfo, s.State = "SealPreCommit1Failed",
           NEW o \in handleSealPrecommit1Failed(s)
    PROVE  Reply(s, c, o)
<1>1. \/ o \in Sends("SectorRemove") \cup Fails("SectorRemove")
      \/ o \in Sends("SectorRetrySealPreCommit1") \cup Fails("SectorRetrySealPreCommit1")
    BY Zenon DEF handleSealPrecommit1Failed
<1>2. /\ "SectorRemove" \in Says1(s, c)
      /\ "SectorRetrySealPreCommit1" \in Says1(s, c)
    BY Zenon DEF Says1, EventNames, Plain, Sealed, EndStates, SnapStates
<1> QED
    BY Zenon, <1>1, <1>2, SaysFits

(* handleSealPrecommit2Failed retries.                                     *)
LEMMA SealPrecommit2FailedReplies ==
    ASSUME NEW s \in SectorInfo, NEW c \in ChainInfo, s.State = "SealPreCommit2Failed",
           NEW o \in handleSealPrecommit2Failed(s)
    PROVE  Reply(s, c, o)
<1>1. \/ o \in Sends("SectorRetrySealPreCommit1") \cup Fails("SectorRetrySealPreCommit1")
      \/ o \in Sends("SectorRetrySealPreCommit2") \cup Fails("SectorRetrySealPreCommit2")
    BY Zenon DEF handleSealPrecommit2Failed
<1>2. /\ "SectorRetrySealPreCommit1" \in Says1(s, c)
      /\ "SectorRetrySealPreCommit2" \in Says1(s, c)
    BY DEF Says1, EventNames, Plain, Sealed, EndStates, SnapStates
<1> QED
    BY Zenon, <1>1, <1>2, SaysFits

(* handleDealsExpired removes a sector that is not on the chain.           *)
LEMMA DealsExpiredReplies ==
    ASSUME NEW s \in SectorInfo, NEW c \in ChainInfo, s.State = "DealsExpired",
           NEW o \in handleDealsExpired(c)
    PROVE  Reply(s, c, o)
<1>1. \/ o \in Sends("SectorRemove") \cup Fails("SectorRemove")
      \/ o \in ApiError \cup Stops
    BY Zenon DEF handleDealsExpired
<1>2. "SectorRemove" \in Says1(s, c)
    BY Zenon DEF Says1, EventNames, Plain, Sealed, EndStates, SnapStates
<1> QED
    BY Zenon, <1>1, <1>2, SilentReply, SaysFits

(* handleTerminateWait looks at the termination, if one was sent.          *)
LEMMA TerminateWaitReplies ==
    ASSUME NEW s \in SectorInfo, NEW c \in ChainInfo, s.State = "TerminateWait",
           NEW o \in handleTerminateWait(s, c)
    PROVE  Reply(s, c, o)
<1>1. \/ \E e \in {"SectorTerminateFailed", "SectorTerminated"} :
            o \in Sends(e) \cup Fails(e)
    BY Zenon DEF handleTerminateWait
<1>2. {"SectorTerminateFailed", "SectorTerminated"} \subseteq Plain
    BY DEF Says1, EventNames, Plain, Sealed, EndStates, SnapStates
<1> QED
    BY Zenon, <1>1, <1>2, PlainReply

(* handleTerminateFailed terminates again when the precommit is gone.      *)
LEMMA TerminateFailedReplies ==
    ASSUME NEW s \in SectorInfo, NEW c \in ChainInfo, s.State = "TerminateFailed",
           NEW o \in handleTerminateFailed(c)
    PROVE  Reply(s, c, o)
<1>1. \/ o \in Sends("SectorTerminate") \cup Fails("SectorTerminate")
      \/ o \in ApiError \cup Stops
    BY Zenon DEF handleTerminateFailed
<1>2. "SectorTerminate" \in Says1(s, c)
    BY Zenon DEF Says1, EventNames, Plain, Sealed, EndStates, SnapStates
<1> QED
    BY Zenon, <1>1, <1>2, SilentReply, SaysFits

(* handleTerminateFinality removes the sector.                             *)
LEMMA TerminateFinalityReplies ==
    ASSUME NEW s \in SectorInfo, NEW c \in ChainInfo, s.State = "TerminateFinality",
           NEW o \in handleTerminateFinality
    PROVE  Reply(s, c, o)
<1>1. \/ \E e \in {"SectorTerminateFailed"} :
            o \in Sends(e) \cup Fails(e)
      \/ o \in Sends("SectorRemove") \cup Fails("SectorRemove")
    BY Zenon DEF handleTerminateFinality
<1>2. /\ {"SectorTerminateFailed"} \subseteq Plain
      /\ "SectorRemove" \in Says1(s, c)
    BY DEF Says1, EventNames, Plain, Sealed, EndStates, SnapStates
<1> QED
    BY Zenon, <1>1, <1>2, PlainReply, SaysFits

(* The handlers that only report how their calls went.                     *)
Reports(s) ==
    handlePreCommit2 \cup handleFinalizeSector(s) \cup handleComputeProofFailed(s)
    \cup handleFinalizeReplicaUpdate \cup handleWaitMutable \cup handleReleaseSectorKey
    \cup handleDealsExpiredSnapDeals(s) \cup handleRemoving
    \cup Sends("SectorReceived") \cup Sends("SectorPreCommitBatch")
    \cup Sends("SectorRetryWaitDeals") \cup Sends("SectorRetryComputeProof")
    \cup Sends("SectorRetryFinalize") \cup Sends("SectorUpdateActive")
    \cup ApiError \cup Stops

(* Their events are plain.                                                 *)
LEMMA ReportsReply ==
    ASSUME NEW s, NEW c, NEW o \in Reports(s)
    PROVE  Reply(s, c, o)
<1>1. \/ \E e \in {"SectorPreCommit2", "SectorSealPreCommit2Failed", "SectorSealPreCommit1Failed",
                   "SectorFinalizeFailed", "SectorFinalized", "SectorFinalizedAvailable",
                   "SectorRetryComputeProof", "SectorDeadlineMutable", "SectorKeyReleased",
                   "SectorReleaseKeyFailed", "SectorAbortUpgrade", "SectorRemoved",
                   "SectorRemoveFailed", "SectorReceived", "SectorPreCommitBatch",
                   "SectorRetryWaitDeals", "SectorRetryFinalize", "SectorUpdateActive"} :
            o \in Sends(e) \cup Fails(e)
      \/ o \in ApiError \cup Stops
    BY DEF Reports, handlePreCommit2, handleFinalizeSector, handleComputeProofFailed,
           handleFinalizeReplicaUpdate, handleWaitMutable, handleReleaseSectorKey,
           handleDealsExpiredSnapDeals, handleRemoving
<1>2. {"SectorPreCommit2", "SectorSealPreCommit2Failed", "SectorSealPreCommit1Failed",
       "SectorFinalizeFailed", "SectorFinalized", "SectorFinalizedAvailable",
       "SectorRetryComputeProof", "SectorDeadlineMutable", "SectorKeyReleased",
       "SectorReleaseKeyFailed", "SectorAbortUpgrade", "SectorRemoved",
       "SectorRemoveFailed", "SectorReceived", "SectorPreCommitBatch",
       "SectorRetryWaitDeals", "SectorRetryFinalize", "SectorUpdateActive"} \subseteq Plain
    BY SMTT(30) DEF Plain
<1> QED
    BY Zenon, <1>1, <1>2, PlainReply, SilentReply

(* Whatever the state, its handler says nothing or sends one event, which  *)
(* tells the truth of the sector and of the chain.                         *)
LEMMA HandlerReplies ==
    ASSUME NEW s \in SectorInfo, NEW c \in ChainInfo, s.State \notin InputStates,
           NEW o \in Handler(s, c)
    PROVE  Reply(s, c, o)
<1>1. ASSUME s.State = "RemoveFailed", o \in Sends("SectorRemove")
      PROVE  Reply(s, c, o)
    <2>1. "SectorRemove" \in Says1(s, c)
        BY Zenon, <1>1 DEF Says1, EventNames, EndStates
    <2> QED
        BY Zenon, <1>1, <2>1, SaysFits
<1>2. ASSUME s.State = "RecoverDealIDs",
             o \in handleRecoverDealIDsOrFailWith(s, c, "SectorRemove")
      PROVE  Reply(s, c, o)
    BY Zenon, <1>2, RecoverReplies
<1>3. ASSUME s.State = "SnapDealsRecoverDealIDs",
             o \in handleRecoverDealIDsOrFailWith(s, c, "SectorAbortUpgrade")
      PROVE  Reply(s, c, o)
    BY Zenon, <1>3, RecoverReplies
<1>4. ASSUME o \in Reports(s)
      PROVE  Reply(s, c, o)
    BY Zenon, <1>4, ReportsReply
<1>5. ASSUME o \in FailureHandler(s, c)
      PROVE  Reply(s, c, o)
    <2>1. \/ o \in handleComputeProofFailed(s) \cup handleDealsExpiredSnapDeals(s) \cup handleRemoving
          \/ o \in Sends("SectorRetryWaitDeals") \cup Sends("SectorRetryComputeProof")
          \/ o \in Sends("SectorRetryFinalize") \cup Sends("SectorUpdateActive") \cup Stops
          \/ s.State = "SealPreCommit1Failed" /\ o \in handleSealPrecommit1Failed(s)
          \/ s.State = "SealPreCommit2Failed" /\ o \in handleSealPrecommit2Failed(s)
          \/ s.State = "PreCommitFailed" /\ o \in handlePreCommitFailed(s, c)
          \/ s.State = "CommitFailed" /\ o \in handleCommitFailed(s, c)
          \/ s.State = "DealsExpired" /\ o \in handleDealsExpired(c)
          \/ /\ s.State = "RecoverDealIDs"
             /\ o \in handleRecoverDealIDsOrFailWith(s, c, "SectorRemove")
          \/ /\ s.State = "SnapDealsRecoverDealIDs"
             /\ o \in handleRecoverDealIDsOrFailWith(s, c, "SectorAbortUpgrade")
          \/ s.State = "ReplicaUpdateFailed" /\ o \in handleSubmitReplicaUpdateFailed(s, c)
          \/ s.State = "Terminating" /\ o \in handleTerminating(c)
          \/ s.State = "TerminateWait" /\ o \in handleTerminateWait(s, c)
          \/ s.State = "TerminateFinality" /\ o \in handleTerminateFinality
          \/ s.State = "TerminateFailed" /\ o \in handleTerminateFailed(c)
          \/ s.State = "RemoveFailed" /\ o \in Sends("SectorRemove")
        BY SMTT(30), <1>5 DEF FailureHandler
    <2>2. CASE \/ o \in handleComputeProofFailed(s) \cup handleDealsExpiredSnapDeals(s) \cup handleRemoving
               \/ o \in Sends("SectorRetryWaitDeals") \cup Sends("SectorRetryComputeProof")
               \/ o \in Sends("SectorRetryFinalize") \cup Sends("SectorUpdateActive") \cup Stops
        BY Zenon, <1>4, <2>2 DEF Reports
    <2>3. CASE \/ s.State = "SealPreCommit1Failed" /\ o \in handleSealPrecommit1Failed(s)
               \/ s.State = "SealPreCommit2Failed" /\ o \in handleSealPrecommit2Failed(s)
               \/ s.State = "PreCommitFailed" /\ o \in handlePreCommitFailed(s, c)
               \/ s.State = "CommitFailed" /\ o \in handleCommitFailed(s, c)
               \/ s.State = "DealsExpired" /\ o \in handleDealsExpired(c)
        BY Zenon, <2>3, SealPrecommit1FailedReplies, SealPrecommit2FailedReplies,
           PreCommitFailedReplies, CommitFailedReplies, DealsExpiredReplies
    <2>4. CASE \/ s.State = "ReplicaUpdateFailed" /\ o \in handleSubmitReplicaUpdateFailed(s, c)
               \/ s.State = "Terminating" /\ o \in handleTerminating(c)
               \/ s.State = "TerminateWait" /\ o \in handleTerminateWait(s, c)
               \/ s.State = "TerminateFinality" /\ o \in handleTerminateFinality
               \/ s.State = "TerminateFailed" /\ o \in handleTerminateFailed(c)
        BY Zenon, <2>4, SubmitReplicaUpdateFailedReplies, TerminatingReplies,
           TerminateWaitReplies, TerminateFinalityReplies, TerminateFailedReplies
    <2> QED
        BY Zenon, <1>1, <1>2, <1>3, <2>1, <2>2, <2>3, <2>4
<1>6. \/ o \in handlePreCommit2 \cup handleFinalizeSector(s) \cup handleFinalizeReplicaUpdate
      \/ o \in handleWaitMutable \cup handleReleaseSectorKey
      \/ o \in Sends("SectorReceived") \cup Sends("SectorPreCommitBatch") \cup ApiError
      \/ o \in FailureHandler(s, c)
      \/ s.State = "GetTicket" /\ o \in handleGetTicket(s, c)
      \/ s.State = "PreCommit1" /\ o \in handlePreCommit1(s, c)
      \/ s.State = "SubmitPreCommitBatch" /\ o \in handleSubmitPreCommitBatch(s, c)
      \/ s.State \in {"PreCommitBatchWait", "PreCommitWait"} /\ o \in handlePreCommitWait(s, c)
      \/ s.State = "Committing" /\ o \in handleCommitting(s, c)
      \/ s.State = "SubmitCommit" /\ o \in handleSubmitCommit(s, c)
      \/ s.State = "SubmitCommitAggregate" /\ o \in handleSubmitCommitAggregate(s, c)
      \/ s.State \in {"CommitWait", "CommitAggregateWait"} /\ o \in handleCommitWait(s, c)
      \/ s.State = "UpdateReplica" /\ o \in handleReplicaUpdate(s, c)
      \/ s.State = "ProveReplicaUpdate" /\ o \in handleProveReplicaUpdate(s, c)
      \/ s.State = "SubmitReplicaUpdate" /\ o \in handleSubmitReplicaUpdate(s, c)
      \/ s.State = "ReplicaUpdateWait" /\ o \in handleReplicaUpdateWait(s, c)
    BY SMTT(30) DEF Handler
<1>7. CASE \/ o \in handlePreCommit2 \cup handleFinalizeSector(s) \cup handleFinalizeReplicaUpdate
           \/ o \in handleWaitMutable \cup handleReleaseSectorKey
           \/ o \in Sends("SectorReceived") \cup Sends("SectorPreCommitBatch") \cup ApiError
    BY Zenon, <1>4, <1>7 DEF Reports
<1>8. CASE \/ s.State = "GetTicket" /\ o \in handleGetTicket(s, c)
           \/ s.State = "PreCommit1" /\ o \in handlePreCommit1(s, c)
           \/ s.State = "SubmitPreCommitBatch" /\ o \in handleSubmitPreCommitBatch(s, c)
           \/ s.State \in {"PreCommitBatchWait", "PreCommitWait"} /\ o \in handlePreCommitWait(s, c)
           \/ s.State = "Committing" /\ o \in handleCommitting(s, c)
           \/ s.State = "SubmitCommit" /\ o \in handleSubmitCommit(s, c)
    BY Zenon, <1>8, GetTicketReplies, PreCommit1Replies, SubmitPreCommitBatchReplies,
       PreCommitWaitReplies, CommittingReplies, SubmitCommitReplies
<1>9. CASE \/ s.State = "SubmitCommitAggregate" /\ o \in handleSubmitCommitAggregate(s, c)
           \/ s.State \in {"CommitWait", "CommitAggregateWait"} /\ o \in handleCommitWait(s, c)
           \/ s.State = "UpdateReplica" /\ o \in handleReplicaUpdate(s, c)
           \/ s.State = "ProveReplicaUpdate" /\ o \in handleProveReplicaUpdate(s, c)
           \/ s.State = "SubmitReplicaUpdate" /\ o \in handleSubmitReplicaUpdate(s, c)
           \/ s.State = "ReplicaUpdateWait" /\ o \in handleReplicaUpdateWait(s, c)
    BY Zenon, <1>9, SubmitCommitAggregateReplies, CommitWaitReplies, ReplicaUpdateReplies,
       ProveReplicaUpdateReplies, SubmitReplicaUpdateReplies, ReplicaUpdateWaitReplies
<1> QED
    BY Zenon, <1>5, <1>6, <1>7, <1>8, <1>9

-----------------------------------------------------------------------------
(* The chain.                                                              *)

(* A handler's message is added at the end, on its way.                    *)
LEMMA PushedTyped ==
    ASSUME Typed, NEW kind \in {"none", "precommit", "commit", "update", "terminate"}
    PROVE  Appends(chain, Pushed(chain, kind), kind)
<1>0. chain \in ChainInfo /\ sec \in SectorInfo
    BY Zenon DEF Typed
<1>1. MsgArg(kind) \in (0 .. 2) \X Nat
    <2>1. sec.Ticket \in 0 .. 2 /\ sec.Pieces \in 0 .. 2 /\ sec.Proof \in (0 .. 2) \X Nat
        BY Zenon, <1>0 DEF SectorInfo
    <2> QED
        BY <2>1 DEF MsgArg
<1>2. CASE kind = "none"
    BY Zenon, <1>0, <1>2 DEF Pushed, SameLedger, Appends
<1>3. CASE kind # "none"
    <2> DEFINE m == [kind |-> kind, arg |-> MsgArg(kind), st |-> "pending"]
               d == [chain EXCEPT !.msgs = Append(@, m)]
    <2>1. m \in MessageInfo
        BY Zenon, <1>1, <1>3 DEF MessageInfo
    <2>2. chain.msgs \in Seq(MessageInfo)
        BY Zenon, <1>0 DEF ChainInfo, MessageInfo
    <2>3. Pushed(chain, kind) = d
        BY Zenon, <1>3 DEF Pushed
    <2> HIDE DEF m
    <2>4. Append(chain.msgs, m) \in Seq(MessageInfo)
        BY <2>1, <2>2
    <2>5. d \in ChainInfo
        BY <1>0, <2>4, Zenon DEF ChainInfo, MessageInfo
    <2>6. d.msgs = Append(chain.msgs, m) /\ SameLedger(chain, d)
        BY Zenon, <1>0 DEF ChainInfo, SameLedger
    <2>7. /\ Len(d.msgs) = Len(chain.msgs) + 1
          /\ \A j \in 1 .. Len(chain.msgs) : d.msgs[j] = chain.msgs[j]
          /\ d.msgs[Len(d.msgs)] = m
        BY <2>1, <2>2, <2>6
    <2> HIDE DEF d
    <2> QED
        BY Zenon, <1>3, <2>3, <2>5, <2>6, <2>7 DEF m, Appends
<1> QED
    BY Zenon, <1>2, <1>3

(* The chain executes a message (execute).                                 *)
LEMMA ExecuteSteps ==
    ASSUME Typed, execute
    PROVE  \E i, st : i \in 1 .. Len(chain.msgs) /\ Executes(chain, chain', i, st)
\* What became of a message is noted.
<1>NotedTyped.
      ASSUME NEW c \in ChainInfo, NEW i \in DOMAIN c.msgs,
             NEW st \in {"pending", "ok", "void", "gas", "funds", "fail"},
             NEW d, d = [c EXCEPT !.msgs[i].st = st]
      PROVE  d \in ChainInfo /\ SameLedger(c, d) /\ SameMessages(c, d, i) /\ d.msgs[i].st = st
    <2> USE <1>NotedTyped
    <2> DEFINE m == [c.msgs[i] EXCEPT !.st = st]
               ms == [c.msgs EXCEPT ![i] = m]
    <2>0. d = [c EXCEPT !.msgs = ms]
        BY Zenon
    <2>1. c.msgs \in Seq(MessageInfo) /\ i \in 1 .. Len(c.msgs)
        BY DEF ChainInfo, MessageInfo
    <2>2. c.msgs[i] \in MessageInfo
        BY <2>1
    <2>3. m \in MessageInfo /\ m.st = st /\ m.kind = c.msgs[i].kind /\ m.arg = c.msgs[i].arg
        BY Zenon, <2>2 DEF MessageInfo
    <2> HIDE DEF m
    <2>4. /\ ms \in Seq(MessageInfo) /\ Len(ms) = Len(c.msgs) /\ ms[i] = m
          /\ \A j \in 1 .. Len(c.msgs) : j # i => ms[j] = c.msgs[j]
        BY <2>1, <2>3
    <2> HIDE DEF ms
    <2>5. d \in ChainInfo
        BY <2>0, <2>4, Zenon DEF ChainInfo, MessageInfo
    <2>6. d.msgs = ms /\ SameLedger(c, d)
        BY Zenon, <2>0 DEF ChainInfo, SameLedger
    <2>7. SameMessages(c, d, i)
        BY Zenon, <2>3, <2>4, <2>6 DEF SameMessages
    <2> QED
        BY Zenon, <2>3, <2>4, <2>5, <2>6, <2>7
\* The miner actor's judgment of a message that succeeds (Verdict).
<1>ExecutedTyped.
      ASSUME NEW c \in ChainInfo, NEW m \in MessageInfo, Verdict(c, m) = "ok"
      PROVE  /\ Executed(c, m) \in ChainInfo /\ Executed(c, m).msgs = c.msgs
             /\ Effect(c, Executed(c, m), m)
    <2> USE <1>ExecutedTyped
    <2>0. /\ m.arg \in (0 .. 2) \X Nat /\ m.arg[1] \in 0 .. 2 /\ c.era \in 1 .. 2
          /\ m.kind \in {"precommit", "commit", "update", "terminate"}
        BY Zenon DEF MessageInfo, ChainInfo
    <2>1. CASE m.kind = "precommit"
        <3> DEFINE pci == [ticket |-> m.arg[1], seed |-> 1, deals |-> m.arg[2] # 0, late |-> FALSE]
        <3>1. Executed(c, m) = [c EXCEPT !.alloc = TRUE, !.pci = pci]
            BY Zenon, <2>1 DEF Executed
        <3>2. ~c.alloc /\ m.arg[1] >= c.era
            BY Zenon, <2>1 DEF Verdict
        <3>3. /\ pci \in [ticket : 0 .. 2, seed : Nat, deals : BOOLEAN, late : BOOLEAN]
              /\ pci.ticket = m.arg[1] /\ ~pci.late
            BY Zenon, <2>0
        <3> HIDE DEF pci
        <3>4. [c EXCEPT !.alloc = TRUE, !.pci = pci] \in ChainInfo
            BY <3>3, Zenon DEF ChainInfo
        <3>5. LET d == [c EXCEPT !.alloc = TRUE, !.pci = pci]
              IN /\ d.msgs = c.msgs /\ d.alloc /\ d.si = c.si /\ d.pci = pci
                 /\ d.ids = c.ids /\ d.expired = c.expired /\ d.active = c.active /\ d.era = c.era
            BY Zenon DEF ChainInfo
        <3> QED
            BY <2>1, <3>1, <3>2, <3>3, <3>4, <3>5 DEF Effect
    <2>2. CASE m.kind = "commit"
        <3>1. Executed(c, m) = [c EXCEPT !.si = "sealed", !.pci = NoPci]
            BY Zenon, <2>2 DEF Executed
        <3>2. c.pci # NoPci
            BY Zenon, <2>2 DEF Verdict
        <3>3. NoPci \in [ticket : 0 .. 2, seed : Nat, deals : BOOLEAN, late : BOOLEAN]
            BY DEF NoPci
        <3>4. [c EXCEPT !.si = "sealed", !.pci = NoPci] \in ChainInfo
            <4>1. "sealed" \in {"none", "sealed", "updated", "terminated"}
                BY Zenon
            <4> QED
                BY <3>3, <4>1, Zenon DEF ChainInfo
        <3>5. LET d == [c EXCEPT !.si = "sealed", !.pci = NoPci]
              IN /\ d.msgs = c.msgs /\ d.alloc = c.alloc /\ d.si = "sealed" /\ d.pci = NoPci
                 /\ d.ids = c.ids /\ d.expired = c.expired /\ d.active = c.active /\ d.era = c.era
            BY Zenon DEF ChainInfo
        <3> QED
            BY Zenon, <2>2, <3>1, <3>2, <3>4, <3>5 DEF Effect
    <2>3. CASE m.kind = "update"
        <3>1. Executed(c, m) = [c EXCEPT !.si = "updated"]
            BY Zenon, <2>3 DEF Executed
        <3>2. c.si = "sealed"
            BY Zenon, <2>3 DEF Verdict
        <3>3. LET d == [c EXCEPT !.si = "updated"]
              IN /\ d \in ChainInfo
                 /\ d.msgs = c.msgs /\ d.alloc = c.alloc /\ d.si = "updated" /\ d.pci = c.pci
                 /\ d.ids = c.ids /\ d.expired = c.expired /\ d.active = c.active /\ d.era = c.era
            BY Zenon DEF ChainInfo
        <3> QED
            BY Zenon, <2>3, <3>1, <3>2, <3>3 DEF Effect
    <2>4. CASE m.kind = "terminate"
        <3>1. Executed(c, m) = [c EXCEPT !.si = "terminated"]
            BY Zenon, <2>4 DEF Executed
        <3>2. Committed(c)
            BY Zenon, <2>4 DEF Verdict
        <3>3. LET d == [c EXCEPT !.si = "terminated"]
              IN /\ d \in ChainInfo
                 /\ d.msgs = c.msgs /\ d.alloc = c.alloc /\ d.si = "terminated" /\ d.pci = c.pci
                 /\ d.ids = c.ids /\ d.expired = c.expired /\ d.active = c.active /\ d.era = c.era
            BY Zenon DEF ChainInfo
        <3> QED
            BY Zenon, <2>4, <3>1, <3>2, <3>3 DEF Effect
    <2> QED
        BY Zenon, <2>0, <2>1, <2>2, <2>3, <2>4
<1>0. chain \in ChainInfo /\ chain.msgs \in Seq(MessageInfo)
    BY Zenon DEF Typed, ChainInfo, MessageInfo
<1>1. PICK i \in DOMAIN chain.msgs :
          /\ chain.msgs[i].st = "pending" /\ \A j \in 1 .. (i - 1) : chain.msgs[j].st # "pending"
          /\ \/ chain' = [IF Verdict(chain, chain.msgs[i]) = "ok"
                          THEN Executed(chain, chain.msgs[i]) ELSE chain
                             EXCEPT !.msgs[i].st = Verdict(chain, chain.msgs[i])]
             \/ \E st \in {"gas", "funds"} : chain' = [chain EXCEPT !.msgs[i].st = st]
    BY Zenon DEF execute
<1> DEFINE m == chain.msgs[i]
           v == Verdict(chain, m)
<1>2. i \in 1 .. Len(chain.msgs) /\ m \in MessageInfo
    BY <1>0
<1>3. v \in {"ok", "void", "fail"}
    BY Zenon DEF Verdict
<1>4. ASSUME NEW st \in {"void", "gas", "funds", "fail"}, chain' = [chain EXCEPT !.msgs[i].st = st]
      PROVE  Executes(chain, chain', i, st)
    <2>1. st \in {"pending", "ok", "void", "gas", "funds", "fail"}
        BY Zenon
    <2> DEFINE d == [chain EXCEPT !.msgs[i].st = st]
    <2>2. d \in ChainInfo /\ SameLedger(chain, d) /\ SameMessages(chain, d, i) /\ d.msgs[i].st = st
        BY <1>0, <2>1, <1>NotedTyped
    <2>3. chain' = d
        BY Zenon, <1>4
    <2> HIDE DEF d
    <2> QED
        BY Zenon, <1>1, <2>2, <2>3 DEF Executes
<1>5. ASSUME v = "ok", chain' = [Executed(chain, m) EXCEPT !.msgs[i].st = "ok"]
      PROVE  Executes(chain, chain', i, "ok")
    <2> DEFINE c == Executed(chain, m)
               d == [c EXCEPT !.msgs[i].st = "ok"]
    <2>1. c \in ChainInfo /\ c.msgs = chain.msgs /\ Effect(chain, c, m)
        BY Zenon, <1>0, <1>2, <1>5, <1>ExecutedTyped
    <2> HIDE DEF c
    <2>2. d \in ChainInfo /\ SameLedger(c, d) /\ SameMessages(c, d, i) /\ d.msgs[i].st = "ok"
        BY <2>1, <1>NotedTyped
    <2> HIDE DEF d
    <2>3. SameMessages(chain, d, i)
        BY Zenon, <2>1, <2>2 DEF SameMessages
    <2>4. Effect(chain, d, m)
        BY Zenon, <2>1, <2>2 DEF Effect, SameLedger
    <2>5. chain' = d
        BY Zenon, <1>5 DEF d, c
    <2> QED
        BY Zenon, <1>1, <2>2, <2>3, <2>4, <2>5 DEF Executes
<1> HIDE DEF v, m
<1>6. \/ v = "ok" /\ chain' = [Executed(chain, m) EXCEPT !.msgs[i].st = "ok"]
      \/ \E st \in {"void", "gas", "funds", "fail"} : chain' = [chain EXCEPT !.msgs[i].st = st]
    BY <1>1, <1>3, Zenon DEF v, m
<1> QED
    BY Zenon, <1>2, <1>4, <1>5, <1>6

(* Time passes or the chain reverts (environment).                         *)
LEMMA EnvironmentSteps ==
    ASSUME Typed, environment
    PROVE  Elapses(chain, chain')
<1> DEFINE Pcis == [ticket : 0 .. 2, seed : Nat, deals : BOOLEAN, late : BOOLEAN]
<1>0. chain \in ChainInfo /\ chain.pci \in Pcis /\ chain.era \in 1 .. 2
    BY Zenon DEF Typed, ChainInfo
<1>1. ASSUME chain' = [chain EXCEPT !.era = 2] PROVE Elapses(chain, chain')
    <2>1. chain' \in ChainInfo
        <3>1. 2 \in 1 .. 2
            OBVIOUS
        <3> QED
            BY <1>0, <1>1, <3>1, Zenon DEF ChainInfo
    <2>2. /\ chain'.pci = chain.pci /\ chain'.msgs = chain.msgs /\ chain'.alloc = chain.alloc
          /\ chain'.si = chain.si /\ chain'.era = 2
        BY Zenon, <1>0, <1>1 DEF ChainInfo
    <2> QED
        BY <1>0, <2>1, <2>2 DEF Elapses
<1>2. ASSUME chain' = [chain EXCEPT !.expired = TRUE] PROVE Elapses(chain, chain')
    <2>1. chain' \in ChainInfo
        BY Zenon, <1>0, <1>2 DEF ChainInfo
    <2>2. /\ chain'.pci = chain.pci /\ chain'.msgs = chain.msgs /\ chain'.alloc = chain.alloc
          /\ chain'.si = chain.si /\ chain'.era = chain.era
        BY Zenon, <1>0, <1>2 DEF ChainInfo
    <2> QED
        BY <1>0, <2>1, <2>2 DEF Elapses
<1>3. ASSUME chain' = [chain EXCEPT !.ids = 2] PROVE Elapses(chain, chain')
    <2>1. chain' \in ChainInfo
        <3>1. 2 \in 1 .. 2
            OBVIOUS
        <3> QED
            BY <1>0, <1>3, <3>1, Zenon DEF ChainInfo
    <2>2. /\ chain'.pci = chain.pci /\ chain'.msgs = chain.msgs /\ chain'.alloc = chain.alloc
          /\ chain'.si = chain.si /\ chain'.era = chain.era
        BY Zenon, <1>0, <1>3 DEF ChainInfo
    <2> QED
        BY <1>0, <2>1, <2>2 DEF Elapses
<1>4. ASSUME chain' = [chain EXCEPT !.active = FALSE] PROVE Elapses(chain, chain')
    <2>1. chain' \in ChainInfo
        BY Zenon, <1>0, <1>4 DEF ChainInfo
    <2>2. /\ chain'.pci = chain.pci /\ chain'.msgs = chain.msgs /\ chain'.alloc = chain.alloc
          /\ chain'.si = chain.si /\ chain'.era = chain.era
        BY Zenon, <1>0, <1>4 DEF ChainInfo
    <2> QED
        BY <1>0, <2>1, <2>2 DEF Elapses
<1>5. ASSUME NEW p \in Pcis, chain' = [chain EXCEPT !.pci = p],
             p = NoPci \/ (chain.pci # NoPci /\ p.ticket = chain.pci.ticket /\ (chain.pci.late => p.late))
      PROVE  Elapses(chain, chain')
    <2>1. chain' \in ChainInfo
        BY <1>0, <1>5, Zenon DEF ChainInfo
    <2>2. /\ chain'.pci = p /\ chain'.msgs = chain.msgs /\ chain'.alloc = chain.alloc
          /\ chain'.si = chain.si /\ chain'.era = chain.era
        BY Zenon, <1>0, <1>5 DEF ChainInfo
    <2> QED
        BY <1>0, <1>5, <2>1, <2>2 DEF Elapses
<1>6. /\ NoPci \in Pcis
      /\ LET p == [chain.pci EXCEPT !.late = TRUE]
         IN p \in Pcis /\ p.ticket = chain.pci.ticket /\ p.late
      /\ LET p == [chain.pci EXCEPT !.seed = @ + 1]
         IN p \in Pcis /\ p.ticket = chain.pci.ticket /\ p.late = chain.pci.late
    <2>1. NoPci \in Pcis
        BY DEF NoPci
    <2>2. chain.pci.seed + 1 \in Nat
        BY <1>0
    <2>3. [chain.pci EXCEPT !.late = TRUE] \in Pcis
        BY Zenon, <1>0
    <2>4. [chain.pci EXCEPT !.seed = @ + 1] \in Pcis
        BY Zenon, <1>0, <2>2
    <2> QED
        BY Zenon, <1>0, <2>1, <2>3, <2>4
<1>7. ASSUME chain.pci # NoPci,
             chain' = [chain EXCEPT !.pci = IF @.late THEN NoPci ELSE [@ EXCEPT !.late = TRUE]]
      PROVE  Elapses(chain, chain')
    BY Zenon, <1>5, <1>6, <1>7
<1>8. ASSUME chain.pci # NoPci, chain' = [chain EXCEPT !.pci.seed = @ + 1]
      PROVE  Elapses(chain, chain')
    <2>1. chain' = [chain EXCEPT !.pci = [chain.pci EXCEPT !.seed = @ + 1]]
        BY Zenon, <1>8
    <2> QED
        BY Zenon, <1>5, <1>6, <1>8, <2>1
<1> QED
    BY Zenon, <1>1, <1>2, <1>3, <1>4, <1>7, <1>8 DEF environment

-----------------------------------------------------------------------------
(* The forms of the steps.                                                 *)

(* Somebody else than a handler sends the event.                           *)
Heard(ev) ==
    /\ ev \in EventInfo /\ Carries(ev, 0)
    /\ Outside(ev, sec, asked') \/ (Creates(ev, sec) /\ stage = "idle")
    /\ Send(ev) /\ UNCHANGED chain

(* The queue is planned at the end of a stage.                             *)
Plans == stage = "done" /\ pending # <<>> /\ Plan(sec, pending) /\ UNCHANGED <<chain, asked>>

(* The process starts again; the handler may have pushed a message.        *)
Restarts ==
    /\ Plan(sec, <<Ev("SectorRestart")>>) /\ UNCHANGED asked
    /\ sec.State # "Undefined"
    /\ Sent

(* A step of the machine, of its surroundings or of the chain.             *)
Step ==
    \/ Calm \/ Plans \/ Restarts \/ ChainSteps
    \/ \E ev : Heard(ev)
    \/ \E ev, kind : Answers(ev, kind)

(* A handler that returns says nothing, or answers (Return).               *)
LEMMA ReturnSteps ==
    ASSUME Typed, stage = "run", NEW o, Reply(sec, chain, o), Return(o)
    PROVE  Calm \/ \E ev, kind : Answers(ev, kind)
<1>1. CASE Silent(o)
    <2>1. PICK n \in Nat : o = Outcome(<<>>, "none", n)
        BY Zenon, <1>1 DEF Silent
    <2>2. o.ev = <<>> /\ o.msg = "none"
        BY Zenon, <2>1 DEF Outcome
    <2> QED
        BY <2>2 DEF Return, Calm, Pushed, Typed
<1>2. ASSUME NEW ev, NEW kind, Says(o, ev, kind), Fits(ev, sec, chain, kind)
      PROVE  Answers(ev, kind)
    <2>1. PICK n \in Nat : o = Outcome(<<ev>>, kind, n)
        BY Zenon, <1>2 DEF Says
    <2>2. o.ev = <<ev>> /\ o.msg = kind
        BY Zenon, <2>1 DEF Outcome
    <2>3. pending \o <<ev>> = Append(pending, ev)
        <3>1. ev \in EventInfo /\ pending \in Seq(EventInfo)
            BY Zenon, <1>2 DEF Fits, Typed
        <3> QED
            BY <3>1
    <2>4. Appends(chain, Pushed(chain, kind), kind)
        <3>1. kind \in {"none", "precommit", "commit", "update", "terminate"}
            BY <1>2 DEF Fits, Records
        <3> QED
            BY Zenon, <3>1, PushedTyped
    <2> QED
        BY Zenon, <1>2, <2>2, <2>3, <2>4 DEF Return, Answers
<1> QED
    BY Zenon, <1>1, <1>2 DEF Reply

(* The handlers that use the deal input's maps or wait for a height of the *)
(* chain answer or say nothing (InputStates).                              *)
LEMMA InputSteps ==
    ASSUME Typed,
           \/ handleWaitDeals \/ handleAddPiece \/ packing \/ abortUpgrade
           \/ handleProvingSector \/ handleAvailableSector \/ handleWaitSeed
           \/ handleUpdateActivating
    PROVE  Step
<1>0. chain \in ChainInfo /\ sec \in SectorInfo
    BY Zenon DEF Typed
<1>1. {"SectorAddPiece", "SectorStartPacking", "SectorPieceAdded", "SectorAddPieceFailed",
       "SectorPacked", "SectorAbortUpgrade", "SectorChainPreCommitFailed"} \subseteq Plain
    BY DEF Plain
<1>2. ASSUME handleWaitDeals PROVE \E o : stage = "run" /\ Reply(sec, chain, o) /\ Return(o)
    <2>1. \E o \in Sends("SectorAddPiece") \cup Sends("SectorStartPacking") \cup ApiError \cup Stops :
              stage = "run" /\ Return(o)
        BY Zenon, <1>2 DEF handleWaitDeals, Sends
    <2> QED
        BY Zenon, <1>1, <2>1, PlainReply, SilentReply
<1>3. ASSUME handleAddPiece PROVE \E o : stage = "run" /\ Reply(sec, chain, o) /\ Return(o)
    <2>1. \E o \in SendsTo("SectorPieceAdded", chain.ids, "none")
                       \cup Fails("SectorAddPieceFailed") \cup Sends("SectorPieceAdded") :
              stage = "run" /\ Return(o)
        BY Zenon, <1>3 DEF handleAddPiece
    <2>2. ASSUME NEW o \in SendsTo("SectorPieceAdded", chain.ids, "none")
          PROVE  Reply(sec, chain, o)
        <3>1. chain.ids \in 0 .. 2
            BY <1>0 DEF ChainInfo
        <3> QED
            BY Zenon, <3>1, PieceFits, Outcomes DEF Reply
    <2> QED
        BY Zenon, <1>1, <2>1, <2>2, PlainReply
<1>4. ASSUME packing PROVE \E o : stage = "run" /\ Reply(sec, chain, o) /\ Return(o)
    <2>1. \E o \in Sends("SectorAbortUpgrade") \cup Sends("SectorPacked") \cup ApiError :
              stage = "run" /\ Return(o)
        BY Zenon, <1>4 DEF packing, handlePacking
    <2> QED
        BY Zenon, <1>1, <2>1, PlainReply, SilentReply
<1>5. ASSUME abortUpgrade PROVE \E o : stage = "run" /\ Reply(sec, chain, o) /\ Return(o)
    <2>1. \E o \in Sends("SectorRevertUpgradeToProving") \cup ApiError \cup Stops :
              stage = "run" /\ Return(o)
        BY Zenon, <1>5 DEF abortUpgrade, handleAbortUpgrade
    <2>2. "SectorRevertUpgradeToProving" \in Says1(sec, chain)
        BY Zenon, <1>5 DEF abortUpgrade, Says1, EventNames
    <2> QED
        BY Zenon, <2>1, <2>2, SaysFits, SilentReply
<1>6. ASSUME handleWaitSeed PROVE \E o : stage = "run" /\ Reply(sec, chain, o) /\ Return(o)
    <2>1. \E o \in Sends("SectorChainPreCommitFailed") \cup ApiError \cup Stops :
              stage = "run" /\ Return(o)
        BY Zenon, <1>6 DEF handleWaitSeed
    <2> QED
        BY Zenon, <1>1, <2>1, PlainReply, SilentReply
<1>7. ASSUME handleProvingSector \/ handleAvailableSector \/ handleUpdateActivating
      PROVE  \E o : stage = "run" /\ Reply(sec, chain, o) /\ Return(o)
    <2>1. \E o \in Stops : stage = "run" /\ Return(o)
        BY Zenon, <1>7 DEF handleProvingSector, handleAvailableSector, handleUpdateActivating
    <2> QED
        BY Zenon, <2>1, SilentReply
<1> QED
    BY Zenon, <1>2, <1>3, <1>4, <1>5, <1>6, <1>7, ReturnSteps DEF Step

(* The events that users, timers and the deal input send.                  *)
LEMMA EventsHeard ==
    /\ \A e \in Plain \cup {"SectorMarkForUpdate", "SectorStartCCUpdate", "SectorStart",
                            "SectorStartCC", "SectorTerminate", "SectorRemove"} :
          Ev(e) \in EventInfo /\ Carries(Ev(e), 0) /\ Ev(e).e = e
    /\ \A v \in Nat : LET ev == Event("SectorSeedReady", v, "none")
                      IN ev \in EventInfo /\ Carries(ev, 0) /\ ev.e = "SectorSeedReady"
    /\ \A v \in {0, 1}, r \in {"Packing", "GetTicket", "PreCommitting"} :
          LET ev == Event("SectorReceive", v, r)
          IN ev \in EventInfo /\ Carries(ev, 0) /\ ev.e = "SectorReceive" /\ ev.r = r
<1>1. ASSUME NEW e \in Plain \cup {"SectorMarkForUpdate", "SectorStartCCUpdate", "SectorStart",
                                   "SectorStartCC", "SectorTerminate", "SectorRemove"}
      PROVE  Ev(e) \in EventInfo /\ Carries(Ev(e), 0) /\ Ev(e).e = e
    <2>1. e \in EventNames
        BY Zenon DEF EventNames
    <2>2. Ev(e) \in EventInfo /\ Ev(e).e = e /\ Ev(e).v = 0
        BY Zenon, <2>1 DEF Ev, Event, EventInfo, Returns
    <2> QED
        BY <2>2 DEF Carries
<1>2. ASSUME NEW v \in Nat
      PROVE  LET ev == Event("SectorSeedReady", v, "none")
             IN ev \in EventInfo /\ Carries(ev, 0) /\ ev.e = "SectorSeedReady"
    BY Zenon DEF Event, EventInfo, EventNames, Returns, Carries
<1>3. ASSUME NEW v \in {0, 1}, NEW r \in {"Packing", "GetTicket", "PreCommitting"}
      PROVE  LET ev == Event("SectorReceive", v, r)
             IN ev \in EventInfo /\ Carries(ev, 0) /\ ev.e = "SectorReceive" /\ ev.r = r
    BY DEF Event, EventInfo, EventNames, Returns, Carries
<1> QED
    BY Zenon, <1>1, <1>2, <1>3

(* Every step of the specification is one of the kinds above.              *)
LEMMA NextSteps ==
    ASSUME Typed, [Next]_vars
    PROVE  Step
<1>0. chain \in ChainInfo /\ sec \in SectorInfo /\ timers \in SUBSET ({"pack", "seed", "active"} \X Nat)
    BY Zenon DEF Typed
<1>1. CASE UNCHANGED vars
    BY Zenon, <1>1 DEF vars, Step, Calm
<1>2. CASE stageDone
    BY Zenon, <1>2 DEF stageDone, Step, Calm, Plans
<1>3. CASE handle
    <2>1. PICK o \in Handler(sec, chain) : Return(o)
        BY Zenon, <1>3 DEF handle
    <2>2. Reply(sec, chain, o) /\ stage = "run"
        BY Zenon, <1>0, <1>3, <2>1, HandlerReplies DEF handle
    <2> QED
        BY Zenon, <2>1, <2>2, ReturnSteps DEF Step
<1>4. CASE \/ handleWaitDeals \/ handleAddPiece \/ packing \/ abortUpgrade
           \/ handleProvingSector \/ handleAvailableSector \/ handleWaitSeed
           \/ handleUpdateActivating
    BY Zenon, <1>4, InputSteps
<1>5. CASE start
    <2>1. \/ Send(Ev("SectorStart")) \/ Send(Ev("SectorStartCC"))
          \/ \E r \in {"Packing", "GetTicket", "PreCommitting"}, v \in {0, 1} :
                Send(Event("SectorReceive", v, r))
        BY Zenon, <1>5 DEF start
    <2>2. sec.State = "Undefined" /\ stage = "idle" /\ UNCHANGED chain
        BY Zenon, <1>5 DEF start
    <2>3. Send(Ev("SectorStart")) => Heard(Ev("SectorStart"))
        BY <2>2, EventsHeard DEF Heard, Creates
    <2>4. Send(Ev("SectorStartCC")) => Heard(Ev("SectorStartCC"))
        BY <2>2, EventsHeard DEF Heard, Creates
    <2>5. ASSUME NEW r \in {"Packing", "GetTicket", "PreCommitting"}, NEW v \in {0, 1},
                 Send(Event("SectorReceive", v, r))
          PROVE  Heard(Event("SectorReceive", v, r))
        BY <2>2, <2>5, EventsHeard DEF Heard, Creates
    <2> QED
        BY Zenon, <2>1, <2>3, <2>4, <2>5 DEF Step
<1>6. CASE Timer
    <2>1. PICK t \in timers : packTimer(t) \/ seedReady(t) \/ seedFails(t) \/ updateActive(t)
        BY Zenon, <1>6 DEF Timer
    <2>2. t[2] \in Nat
        BY Zenon, <1>0
    <2>3. CASE packTimer(t)
        <3>1. "SectorStartPacking" \in Plain
            BY Zenon DEF Plain
        <3>2. Heard(Ev("SectorStartPacking"))
            BY Zenon, <2>3, <3>1, EventsHeard DEF packTimer, Heard, Outside
        <3> QED
            BY Zenon, <3>2 DEF Step
    <2>4. CASE seedReady(t)
        <3>1. Heard(Event("SectorSeedReady", t[2], "none"))
            BY Zenon, <2>2, <2>4, EventsHeard DEF seedReady, Heard, Outside
        <3> QED
            BY Zenon, <3>1 DEF Step
    <2>5. CASE seedFails(t)
        <3>1. "SectorChainPreCommitFailed" \in Plain
            BY Zenon DEF Plain
        <3>2. Heard(Ev("SectorChainPreCommitFailed")) \/ Calm
            BY Zenon, <2>5, <3>1, EventsHeard DEF seedFails, Heard, Outside, Calm
        <3> QED
            BY Zenon, <3>2 DEF Step
    <2>6. CASE updateActive(t)
        <3>1. "SectorUpdateActive" \in Plain
            BY Zenon DEF Plain
        <3>2. Heard(Ev("SectorUpdateActive"))
            BY Zenon, <2>6, <3>1, EventsHeard DEF updateActive, Heard, Outside
        <3> QED
            BY Zenon, <3>2 DEF Step
    <2> QED
        BY Zenon, <2>1, <2>3, <2>4, <2>5, <2>6
<1>7. CASE assignPiece
    <2>1. "SectorAddPiece" \in Plain
        BY Zenon DEF Plain
    <2>2. Heard(Ev("SectorAddPiece"))
        BY <1>7, <2>1, EventsHeard DEF assignPiece, Heard, Outside
    <2> QED
        BY Zenon, <2>2 DEF Step
<1>8. CASE maybeUpgradeSector
    <2>1. Heard(Ev("SectorStartCCUpdate"))
        BY <1>8, EventsHeard DEF maybeUpgradeSector, Heard, Outside
    <2> QED
        BY Zenon, <2>1 DEF Step
<1>9. CASE MarkForUpgrade
    <2>1. Heard(Ev("SectorMarkForUpdate"))
        BY <1>9, EventsHeard DEF MarkForUpgrade, Heard, Outside
    <2> QED
        BY Zenon, <2>1 DEF Step
<1>10. CASE SectorAbortUpgrade
    <2>1. "SectorAbortUpgrade" \in Plain
        BY Zenon DEF Plain
    <2>2. Heard(Ev("SectorAbortUpgrade"))
        BY Zenon, <1>10, <2>1, EventsHeard DEF SectorAbortUpgrade, Heard, Outside
    <2> QED
        BY Zenon, <2>2 DEF Step
<1>11. CASE StartPackingSector
    <2>1. "SectorStartPacking" \in Plain
        BY Zenon DEF Plain
    <2>2. Heard(Ev("SectorStartPacking"))
        BY Zenon, <1>11, <2>1, EventsHeard DEF StartPackingSector, Heard, Outside
    <2> QED
        BY Zenon, <2>2 DEF Step
<1>12. CASE RemoveOrTerminateSector
    <2>1. Heard(Ev("SectorTerminate")) \/ Heard(Ev("SectorRemove"))
        BY Zenon, <1>12, EventsHeard DEF RemoveOrTerminateSector, Heard, Outside
    <2> QED
        BY Zenon, <2>1 DEF Step
<1>13. CASE restart
    <2>1. Plan(sec, <<Ev("SectorRestart")>>) /\ UNCHANGED asked /\ sec.State # "Undefined"
        BY Zenon, <1>13 DEF restart
    <2>2. ASSUME sec.State \notin InputStates, NEW o \in Handler(sec, chain), o.msg # "none",
                 chain' = Pushed(chain, o.msg)
          PROVE  \E ev, kind : Fits(ev, sec, chain, kind) /\ Appends(chain, chain', kind)
        <3>1. Reply(sec, chain, o)
            BY Zenon, <1>0, <2>2, HandlerReplies
        <3>2. ~Silent(o)
            BY <2>2 DEF Silent, Outcome
        <3>3. PICK ev, kind : Says(o, ev, kind) /\ Fits(ev, sec, chain, kind)
            BY Zenon, <3>1, <3>2 DEF Reply
        <3>4. o.msg = kind
            BY <3>3 DEF Says, Outcome
        <3>5. kind \in {"none", "precommit", "commit", "update", "terminate"}
            BY Zenon, <3>3 DEF Fits, Records
        <3>6. Appends(chain, Pushed(chain, kind), kind)
            BY Zenon, <3>5, PushedTyped
        <3> QED
            BY Zenon, <2>2, <3>3, <3>4, <3>6
    <2>3. Sent
        BY Zenon, <1>13, <2>2 DEF restart, Sent
    <2> QED
        BY Zenon, <2>1, <2>3 DEF Restarts, Step
<1>14. CASE execute
    <2>1. UNCHANGED <<sec, pending, stage, mem, timers, asked>>
        BY Zenon, <1>14 DEF execute
    <2> QED
        BY Zenon, <1>14, <2>1, ExecuteSteps DEF ChainSteps, Step
<1>15. CASE environment
    <2>1. UNCHANGED <<sec, pending, stage, mem, timers, asked>>
        BY Zenon, <1>15 DEF environment
    <2> QED
        BY Zenon, <1>15, <2>1, EnvironmentSteps DEF ChainSteps, Step
<1> QED
    BY Zenon, <1>1, <1>2, <1>3, <1>4, <1>5, <1>6, <1>7, <1>8, <1>9, <1>10, <1>11, <1>12, <1>13, <1>14, <1>15
       DEF Next, Machine, Handlers

(* The deal input's maps, the timers and the trouble there was.            *)
MemInfo == [{"open", "assigned", "available", "nextDeal"} -> BOOLEAN]

UsedInfo == [trouble : Nat, lapses : Nat]

Bounded(u) == u \in UsedInfo /\ u.trouble <= MaxTrouble /\ u.lapses <= u.trouble

Kept ==
    /\ mem \in MemInfo /\ timers \in SUBSET ({"pack", "seed", "active"} \X Nat)
    /\ Bounded(used) /\ asked \in BOOLEAN

(* Trouble is counted up to its bound (Spend, Lapse).                      *)
LEMMA TroubleCounted ==
    ASSUME Bounded(used), UNCHANGED used \/ Lapse \/ \E n \in Nat : Spend(n)
    PROVE  Bounded(used')
<1>0. used \in UsedInfo /\ used.trouble \in Nat /\ used.lapses \in Nat /\ MaxTrouble \in Nat
    BY Zenon, TroubleAssumption DEF Bounded, UsedInfo
<1>1. CASE UNCHANGED used
    BY Zenon, <1>1
<1>2. CASE Lapse
    <2>1. used'.trouble = used.trouble + 1 /\ used'.lapses = used.lapses + 1 /\ used' \in UsedInfo
        BY <1>0, <1>2 DEF Lapse, UsedInfo
    <2> QED
        BY <1>0, <1>2, <2>1 DEF Lapse, Bounded
<1>3. ASSUME NEW n \in Nat, Spend(n) PROVE Bounded(used')
    <2>1. used'.trouble = used.trouble + n /\ used'.lapses = used.lapses /\ used' \in UsedInfo
        BY <1>0, <1>3 DEF Spend, UsedInfo
    <2> QED
        BY <1>0, <1>3, <2>1 DEF Spend, Bounded
<1> QED
    BY Zenon, <1>1, <1>2, <1>3

(* A handler's failed calls are a number.                                  *)
LEMMA CostsCounted ==
    /\ \A s, c, o : Reply(s, c, o) => o.cost \in Nat
    /\ \A e : \A o \in Sends(e) \cup Fails(e) \cup ApiError \cup Stops : o.cost \in Nat
    /\ \A e, v, r : \A o \in SendsTo(e, v, r) : o.cost \in Nat
    /\ \A e : Outcome(<<Ev(e)>>, "none", 0).cost \in Nat
<1>1. ASSUME NEW s, NEW c, NEW o, Reply(s, c, o) PROVE o.cost \in Nat
    <2>1. CASE Silent(o)
        BY <2>1 DEF Silent, Outcome
    <2>2. ASSUME NEW ev, NEW kind, Says(o, ev, kind) PROVE o.cost \in Nat
        BY <2>2 DEF Says, Outcome
    <2> QED
        BY Zenon, <1>1, <2>1, <2>2 DEF Reply
<1>2. ASSUME NEW e, NEW o \in Sends(e) \cup Fails(e) \cup ApiError \cup Stops PROVE o.cost \in Nat
    BY DEF Sends, Fails, ApiError, Stops, Outcome
<1>3. ASSUME NEW e, NEW v, NEW r, NEW o \in SendsTo(e, v, r) PROVE o.cost \in Nat
    BY DEF SendsTo, Outcome
<1>4. ASSUME NEW e PROVE Outcome(<<Ev(e)>>, "none", 0).cost \in Nat
    BY Zenon DEF Outcome
<1> QED
    BY Zenon, <1>1, <1>2, <1>3, <1>4

(* A process starts without deals (inputUpdate's maps).                    *)
LEMMA NoMemTyped == NoMem \in MemInfo
<1>1. NoMem \in [open : BOOLEAN, assigned : BOOLEAN, available : BOOLEAN, nextDeal : BOOLEAN]
    BY Zenon DEF NoMem
<1> QED
    BY Zenon, <1>1 DEF MemInfo

(* The maps that a step may leave.                                         *)
LEMMA MemTyped ==
    ASSUME mem \in MemInfo
    PROVE  /\ Cleaned \in MemInfo /\ NoMem \in MemInfo
           /\ [mem EXCEPT !.nextDeal = FALSE] \in MemInfo /\ [mem EXCEPT !.nextDeal = TRUE] \in MemInfo
           /\ [mem EXCEPT !.assigned = FALSE] \in MemInfo /\ [mem EXCEPT !.assigned = TRUE] \in MemInfo
           /\ [mem EXCEPT !.available = FALSE] \in MemInfo /\ [mem EXCEPT !.available = TRUE] \in MemInfo
           /\ [Cleaned EXCEPT !.available = FALSE] \in MemInfo
           /\ [mem EXCEPT !.available = FALSE, !.nextDeal = TRUE] \in MemInfo
           /\ \A b \in BOOLEAN : [mem EXCEPT !.nextDeal = FALSE, !.open = b] \in MemInfo
<1>1. NoMem \in MemInfo
    BY Zenon, NoMemTyped
<1>2. ASSUME NEW m \in MemInfo, NEW x \in {"open", "assigned", "available", "nextDeal"}, NEW b \in BOOLEAN
      PROVE  [m EXCEPT ![x] = b] \in MemInfo
    BY Zenon DEF MemInfo
<1>3. Cleaned \in MemInfo
    <2>1. [mem EXCEPT !.open = FALSE] \in MemInfo
        BY Zenon, <1>2
    <2> QED
        BY Zenon, <1>2, <2>1 DEF Cleaned
<1>4. [mem EXCEPT !.available = FALSE, !.nextDeal = TRUE] \in MemInfo
    <2>1. [mem EXCEPT !.available = FALSE] \in MemInfo
        BY Zenon, <1>2
    <2> QED
        BY Zenon, <1>2, <2>1
<1>5. ASSUME NEW b \in BOOLEAN PROVE [mem EXCEPT !.nextDeal = FALSE, !.open = b] \in MemInfo
    <2>1. [mem EXCEPT !.nextDeal = FALSE] \in MemInfo
        BY Zenon, <1>2
    <2> QED
        BY Zenon, <1>2, <2>1
<1> QED
    BY Zenon, <1>1, <1>2, <1>3, <1>4, <1>5

(* What a handler that returns costs is counted (Return).                  *)
LEMMA ReturnKept ==
    ASSUME Kept, NEW o, Return(o), o.cost \in Nat, mem' \in MemInfo,
           timers' \in SUBSET ({"pack", "seed", "active"} \X Nat)
    PROVE  Kept'
<1>1. Bounded(used')
    BY Zenon, TroubleCounted DEF Kept, Return
<1> QED
    BY Zenon, <1>1 DEF Kept, Return

(* The handlers that use the deal input's maps keep their types.           *)
LEMMA InputKept ==
    ASSUME Typed, Kept,
           \/ handleWaitDeals \/ handleAddPiece \/ packing \/ abortUpgrade
           \/ handleProvingSector \/ handleAvailableSector \/ handleWaitSeed
           \/ handleUpdateActivating
    PROVE  Kept'
<1> DEFINE Timers == SUBSET ({"pack", "seed", "active"} \X Nat)
<1>0. mem \in MemInfo /\ timers \in Timers /\ chain \in ChainInfo
    BY Zenon DEF Kept, Typed
<1>1. CASE handleWaitDeals
    <2>1. CASE mem.assigned
        BY Zenon, <1>0, <1>1, <2>1, MemTyped, CostsCounted, ReturnKept DEF handleWaitDeals
    <2>2. CASE ~mem.assigned
        <3>1. PICK o \in {Outcome(<<Ev("SectorStartPacking")>>, "none", 0)} \cup ApiError \cup Stops :
                  /\ Return(o)
                  /\ mem' = [mem EXCEPT !.nextDeal = FALSE, !.open = (o \in Stops)]
                  /\ timers' = (timers \ {<<"pack", 0>>})
                                 \cup (IF o \in Stops THEN {<<"pack", 0>>} ELSE {})
            BY Zenon, <1>1, <2>2 DEF handleWaitDeals
        <3>2. o.cost \in Nat
            BY Zenon, <3>1, CostsCounted
        <3>3. (o \in Stops) \in BOOLEAN
            OBVIOUS
        <3>4. mem' \in MemInfo
            BY Zenon, <1>0, <3>1, <3>3, MemTyped
        <3>5. timers' \in Timers
            BY <1>0, <3>1
        <3> QED
            BY Zenon, <3>1, <3>2, <3>4, <3>5, ReturnKept
    <2> QED
        BY Zenon, <2>1, <2>2
<1>2. CASE handleAddPiece
    <2>1. PICK o \in SendsTo("SectorPieceAdded", chain.ids, "none")
                         \cup Fails("SectorAddPieceFailed") \cup Sends("SectorPieceAdded") : Return(o)
        BY Zenon, <1>2 DEF handleAddPiece
    <2>2. o.cost \in Nat
        BY Zenon, CostsCounted
    <2> QED
        BY Zenon, <1>0, <1>2, <2>1, <2>2, MemTyped, ReturnKept DEF handleAddPiece
<1>3. CASE packing
    <2>1. PICK o \in Sends("SectorAbortUpgrade") \cup Sends("SectorPacked") \cup ApiError : Return(o)
        BY Zenon, <1>3 DEF packing, handlePacking
    <2>2. o.cost \in Nat
        BY Zenon, CostsCounted
    <2> QED
        BY Zenon, <1>0, <1>3, <2>1, <2>2, MemTyped, ReturnKept DEF packing
<1>4. CASE abortUpgrade
    <2>1. PICK o \in Sends("SectorRevertUpgradeToProving") \cup ApiError \cup Stops : Return(o)
        BY Zenon, <1>4 DEF abortUpgrade, handleAbortUpgrade
    <2>2. o.cost \in Nat
        BY Zenon, CostsCounted
    <2>3. mem' \in MemInfo
        BY Zenon, <1>0, <1>4, MemTyped DEF abortUpgrade
    <2> QED
        BY Zenon, <1>0, <1>4, <2>1, <2>2, <2>3, ReturnKept DEF abortUpgrade
<1>5. CASE handleProvingSector
    BY Zenon, <1>0, <1>5, MemTyped, CostsCounted, ReturnKept DEF handleProvingSector
<1>6. CASE handleAvailableSector
    BY Zenon, <1>0, <1>6, MemTyped, CostsCounted, ReturnKept DEF handleAvailableSector
<1>7. CASE handleWaitSeed
    <2>1. PICK o \in Sends("SectorChainPreCommitFailed") \cup ApiError \cup Stops : Return(o)
        BY Zenon, <1>7 DEF handleWaitSeed
    <2>2. o.cost \in Nat
        BY Zenon, CostsCounted
    <2>3. chain.pci.seed \in Nat
        BY Zenon, <1>0 DEF ChainInfo
    <2>4. timers' \in Timers /\ mem' = mem
        BY <1>0, <1>7, <2>3 DEF handleWaitSeed
    <2> QED
        BY Zenon, <1>0, <2>1, <2>2, <2>4, ReturnKept
<1>8. CASE handleUpdateActivating
    <2>1. PICK o \in Stops : Return(o)
        BY Zenon, <1>8 DEF handleUpdateActivating
    <2>2. o.cost \in Nat
        BY Zenon, CostsCounted
    <2>3. timers' \in Timers /\ mem' = mem
        BY <1>0, <1>8 DEF handleUpdateActivating
    <2> QED
        BY Zenon, <1>0, <2>1, <2>2, <2>3, ReturnKept
<1> QED
    BY Zenon, <1>1, <1>2, <1>3, <1>4, <1>5, <1>6, <1>7, <1>8

(* Every step keeps the types of the maps, the timers and the counts.      *)
LEMMA KeptSteps ==
    ASSUME Typed, Kept, [Next]_vars
    PROVE  Kept'
<1> DEFINE Timers == SUBSET ({"pack", "seed", "active"} \X Nat)
<1>0. /\ mem \in MemInfo /\ timers \in Timers /\ Bounded(used) /\ asked \in BOOLEAN
      /\ chain \in ChainInfo /\ sec \in SectorInfo /\ 1 \in Nat
    BY Zenon DEF Kept, Typed
<1>1. CASE UNCHANGED vars
    BY Zenon, <1>0, <1>1 DEF vars, Kept
<1>2. CASE stageDone
    BY Zenon, <1>0, <1>2 DEF stageDone, Kept
<1>3. CASE handle
    <2>1. PICK o \in Handler(sec, chain) : Return(o)
        BY Zenon, <1>3 DEF handle
    <2>2. Reply(sec, chain, o)
        BY Zenon, <1>0, <1>3, <2>1, HandlerReplies DEF handle
    <2> QED
        BY Zenon, <1>0, <1>3, <2>1, <2>2, CostsCounted, ReturnKept DEF handle
<1>4. CASE \/ handleWaitDeals \/ handleAddPiece \/ packing \/ abortUpgrade
           \/ handleProvingSector \/ handleAvailableSector \/ handleWaitSeed
           \/ handleUpdateActivating
    BY Zenon, <1>4, InputKept
<1>5. CASE start
    BY Zenon, <1>0, <1>5, MemTyped DEF start, Kept
<1>6. CASE Timer
    <2>1. PICK t \in timers : packTimer(t) \/ seedReady(t) \/ seedFails(t) \/ updateActive(t)
        BY Zenon, <1>6 DEF Timer
    <2>2. timers' \in Timers /\ mem' = mem /\ asked' = asked
        BY Zenon, <1>0, <2>1 DEF packTimer, seedReady, seedFails, updateActive, fired
    <2>3. UNCHANGED used \/ Lapse \/ Spend(1)
        BY Zenon, <2>1 DEF packTimer, seedReady, seedFails, updateActive, fired
    <2>4. Bounded(used')
        BY Zenon, <1>0, <2>3, TroubleCounted
    <2> QED
        BY Zenon, <1>0, <2>2, <2>4 DEF Kept
<1>7. CASE assignPiece
    BY Zenon, <1>0, <1>7, MemTyped DEF assignPiece, Kept
<1>8. CASE maybeUpgradeSector
    BY Zenon, <1>0, <1>8, MemTyped DEF maybeUpgradeSector, Kept
<1>9. CASE MarkForUpgrade
    BY Zenon, <1>0, <1>9 DEF MarkForUpgrade, Kept
<1>10. CASE SectorAbortUpgrade \/ StartPackingSector \/ RemoveOrTerminateSector
    <2>1. mem' \in MemInfo /\ timers' = timers /\ asked' \in BOOLEAN /\ Spend(1)
        BY Zenon, <1>0, <1>10, MemTyped DEF SectorAbortUpgrade, StartPackingSector, RemoveOrTerminateSector
    <2>2. Bounded(used')
        BY Zenon, <1>0, <2>1, TroubleCounted
    <2> QED
        BY Zenon, <1>0, <2>1, <2>2 DEF Kept
<1>11. CASE restart
    <2>1. Bounded(used')
        BY Zenon, <1>0, <1>11, TroubleCounted DEF restart
    <2> QED
        BY Zenon, <1>0, <1>11, <2>1, MemTyped DEF restart, Kept
<1>12. CASE execute \/ environment
    <2>1. UNCHANGED <<mem, timers, asked>> /\ (UNCHANGED used \/ Spend(1))
        BY Zenon, <1>12 DEF execute, environment
    <2>2. Bounded(used')
        BY Zenon, <1>0, <2>1, TroubleCounted
    <2> QED
        BY Zenon, <1>0, <2>1, <2>2 DEF Kept
<1> QED
    BY Zenon, <1>1, <1>2, <1>3, <1>4, <1>5, <1>6, <1>7, <1>8, <1>9, <1>10, <1>11, <1>12
       DEF Next, Machine, Handlers

=============================================================================
