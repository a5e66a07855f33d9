-------------------------- MODULE SectorFsmProofs ---------------------------
(***************************************************************************)
(* What is proved of the sealing state machine, for every bound on         *)
(* failures, queues, messages and retries.                                 *)
(***************************************************************************)
EXTENDS SectorStepProofs, SectorInvProofs

(* What plan leaves of a queue is a queue (Plan).                          *)
LEMMA PlanSteps ==
    ASSUME sec \in SectorInfo, NEW q \in Seq(EventInfo), NEW n \in Nat,
           \A j \in 1 .. Len(q) : Carries(q[j], n), Plan(sec, q)
    PROVE  \E p : Planning(q, p)
<1> DEFINE p == plan(sec, q)
<1>1. PlanOf(sec, q, p)
    BY Zenon, PlanTakes
<1>2. /\ sec' = p.sec /\ pending' = SubSeq(q, p.n + 1, Len(q))
      /\ stage' \in {"run", "done", "closed"}
      /\ stage' = "run" => sec'.State # "Undefined" /\ ~p.err
      /\ stage' # "run" => p.err \/ sec'.State \in {"Undefined", "Removed"}
    BY Zenon DEF Plan
<1> HIDE DEF p
<1>3. p.n \in 0 .. Len(q) /\ Len(q) \in Nat
    BY <1>1 DEF PlanOf
<1>4. Left(q, p.n, pending')
    <2> DEFINE r == SubSeq(q, p.n + 1, Len(q))
    <2>1. p.n + 1 \in Int /\ Len(q) \in Int /\ \A i \in p.n + 1 .. Len(q) : q[i] \in EventInfo
        BY <1>3
    <2>2. /\ r \in Seq(EventInfo)
          /\ Len(r) = IF p.n + 1 <= Len(q) THEN Len(q) - (p.n + 1) + 1 ELSE 0
          /\ \A i \in 1 .. Len(q) - (p.n + 1) + 1 : r[i] = q[p.n + 1 + i - 1]
        BY <2>1
    <2> HIDE DEF r
    <2>3. Len(r) = Len(q) - p.n
        BY <1>3, <2>2
    <2>4. ASSUME NEW j \in 1 .. Len(r)
          PROVE  p.n + j \in 1 .. Len(q) /\ r[j] = q[p.n + j]
        <3>1. j \in 1 .. Len(q) - (p.n + 1) + 1 /\ p.n + 1 + j - 1 = p.n + j
            BY <1>3, <2>3
        <3>2. p.n + j \in 1 .. Len(q)
            BY <1>3, <2>3
        <3>3. r[j] = q[p.n + 1 + j - 1]
            BY <2>2, <3>1, Zenon
        <3> QED
            BY Zenon, <3>1, <3>2, <3>3
    <2>5. pending' = r
        BY Zenon, <1>2 DEF r
    <2> QED
        BY Zenon, <2>2, <2>3, <2>4, <2>5 DEF Left
<1> QED
    BY Zenon, <1>1, <1>2, <1>4 DEF Planning

(* Planning records only messages that were sent.                          *)
LEMMA PlanRecords ==
    ASSUME NEW s \in SectorInfo, NEW q \in Seq(EventInfo), NEW n \in Nat,
           \A j \in 1 .. Len(q) : Carries(q[j], n), Recorded(s, n), NEW p, PlanOf(s, q, p)
    PROVE  p.sec \in SectorInfo /\ Recorded(p.sec, n)
<1>1. p.sec \in SectorInfo
    BY Zenon DEF PlanOf
<1>2. ASSUME NEW ev, Carries(ev, n), NEW t, Moved(s, ev, t) \/ Stayed(s, ev, t)
      PROVE  Recorded(t, n)
    <2>1. CASE Unwritten(s, t)
        BY Zenon, <2>1 DEF Unwritten, Recorded
    <2>2. CASE Writes(s, ev, t)
        BY <1>2, <2>2 DEF Writes, Carries, Recorded
    <2>3. CASE Returned(s, t)
        BY Zenon, <2>3 DEF Returned, Recorded
    <2> QED
        BY Zenon, <1>2, <2>1, <2>2, <2>3 DEF Moved, Stayed
<1>3. CASE FromCommitting(s, q, p)
    BY Zenon, <1>3 DEF FromCommitting, Unwritten, Recorded
<1>4. CASE Idled(s, q, p)
    BY Zenon, <1>4 DEF Idled
<1>5. ASSUME NEW i \in 1 .. Len(q), Took1(s, q, i, p)
      PROVE  Recorded(p.sec, n)
    <2>1. Moved(s, q[i], p.sec) \/ Stayed(s, q[i], p.sec)
        BY Zenon, <1>5 DEF Took1
    <2> QED
        BY Zenon, <1>2, <2>1
<1> QED
    BY Zenon, <1>1, <1>3, <1>4, <1>5 DEF PlanOf

(* What the sector and the queue have is kept as messages are added.       *)
LEMMA MoreMessages ==
    ASSUME NEW n \in Nat, NEW m \in Nat, n <= m
    PROVE  /\ \A s \in SectorInfo : Recorded(s, n) => Recorded(s, m)
           /\ \A ev \in EventInfo : Carries(ev, n) => Carries(ev, m)
<1>1. ASSUME NEW s \in SectorInfo, Recorded(s, n) PROVE Recorded(s, m)
    BY <1>1 DEF SectorInfo, Recorded
<1>2. ASSUME NEW ev \in EventInfo, Carries(ev, n) PROVE Carries(ev, m)
    <2>1. ev.v \in Nat
        BY Zenon DEF EventInfo
    <2> QED
        BY <1>2, <2>1 DEF Carries
<1> QED
    BY Zenon, <1>1, <1>2

(* The part of the types that the machine's steps are about.               *)
Core ==
    /\ sec \in SectorInfo /\ Recorded(sec, Len(chain.msgs))
    /\ pending \in Seq(EventInfo)
    /\ \A j \in 1 .. Len(pending) : Carries(pending[j], Len(chain.msgs))
    /\ chain \in ChainInfo
    /\ stage = "idle" => pending = <<>>
    /\ stage \in {"idle", "run", "done", "closed"}

(* An event is a queue of one.                                             *)
LEMMA QueueOfOne ==
    ASSUME Typed, NEW ev \in EventInfo, Carries(ev, 0),
           Outside(ev, sec, asked') \/ Creates(ev, sec) \/ ev.e = "SectorRestart"
    PROVE  Queued(<<ev>>)
<1>1. Len(chain.msgs) \in Nat /\ 0 <= Len(chain.msgs)
    BY ChainMessages DEF Typed
<1>2. Carries(ev, Len(chain.msgs))
    BY Zenon, <1>1, MoreMessages
<1>3. <<ev>> \in Seq(EventInfo) /\ Len(<<ev>>) = 1 /\ <<ev>>[1] = ev
    OBVIOUS
<1>4. ASSUME NEW j \in 1 .. Len(<<ev>>) PROVE Carries(<<ev>>[j], Len(chain.msgs))
    BY <1>2, <1>3
<1> QED
    BY Zenon, <1>3, <1>4 DEF Queued

(* A step leaves the queue, adds an event to it or plans it.               *)
LEMMA StepForms ==
    ASSUME Typed, Step
    PROVE  StepForm
<1> SUFFICES \/ Calm \/ ChainSteps \/ \E ev : Adds(ev)
             \/ \E ev, kind : Answers(ev, kind)
             \/ \E q, p : Replans(q, p)
    BY Zenon DEF StepForm
<1>0. sec \in SectorInfo /\ Len(chain.msgs) \in Nat
    BY Zenon, ChainMessages DEF Typed
<1>1. ASSUME NEW q, Queued(q), Plan(sec, q), Sent
      PROVE  \E p : Replans(q, p)
    <2>1. q \in Seq(EventInfo) /\ \A j \in 1 .. Len(q) : Carries(q[j], Len(chain.msgs))
        BY Zenon, <1>1 DEF Queued
    <2>2. \E p : Planning(q, p)
        BY Zenon, <1>0, <1>1, <2>1, PlanSteps
    <2> QED
        BY Zenon, <1>1, <2>2 DEF Replans
<1>2. CASE Plans
    <2>1. Queued(pending)
        BY Zenon, <1>2 DEF Plans, Queued, Typed
    <2> QED
        BY Zenon, <1>1, <1>2, <2>1 DEF Plans, Sent
<1>3. CASE Restarts
    <2> DEFINE ev == Ev("SectorRestart")
    <2>1. ev \in EventInfo /\ Carries(ev, 0) /\ ev.e = "SectorRestart"
        BY Zenon DEF Ev, Event, EventInfo, EventNames, Returns, Carries
    <2>2. Plan(sec, <<ev>>) /\ Sent
        BY Zenon, <1>3 DEF Restarts, Sent
    <2> HIDE DEF ev
    <2>3. Queued(<<ev>>)
        BY Zenon, <2>1, QueueOfOne
    <2> QED
        BY Zenon, <1>1, <2>2, <2>3
<1>4. ASSUME NEW ev, Heard(ev)
      PROVE  Adds(ev) \/ \E q, p : Replans(q, p)
    <2>1. ev \in EventInfo /\ Carries(ev, 0) /\ UNCHANGED chain
        BY Zenon, <1>4 DEF Heard
    <2>2. CASE stage = "idle"
        <3>1. Plan(sec, <<ev>>)
            BY Zenon, <1>4, <2>2 DEF Heard, Send
        <3>2. Outside(ev, sec, asked') \/ Creates(ev, sec)
            BY Zenon, <1>4 DEF Heard
        <3>3. Queued(<<ev>>)
            BY Zenon, <2>1, <3>2, QueueOfOne
        <3> QED
            BY Zenon, <1>1, <2>1, <3>1, <3>3 DEF Sent
    <2>3. CASE stage # "idle"
        BY Zenon, <1>4, <2>3 DEF Heard, Send, Adds, Typed
    <2> QED
        BY Zenon, <2>2, <2>3
<1> QED
    BY Zenon, <1>2, <1>3, <1>4 DEF Step

(* Every step keeps the types of what the machine plans with.              *)
LEMMA CoreSteps ==
    ASSUME Typed, Step
    PROVE  Core'
<1> DEFINE n == Len(chain.msgs)
           m == Len(chain'.msgs)
<1>0. /\ sec \in SectorInfo /\ Recorded(sec, n) /\ pending \in Seq(EventInfo)
      /\ \A j \in 1 .. Len(pending) : Carries(pending[j], n)
      /\ chain \in ChainInfo /\ stage \in {"idle", "run", "done", "closed"}
      /\ stage = "idle" => pending = <<>>
    BY Zenon DEF Typed
<1>1. ASSUME Sent \/ ChainSteps
      PROVE  chain' \in ChainInfo /\ n \in Nat /\ m \in Nat /\ n <= m
    BY Zenon, <1>1, ChainGrows
<1> HIDE DEF n, m
<1>2. ASSUME chain' \in ChainInfo, n \in Nat, m \in Nat, n <= m, sec' = sec,
             NEW ev \in EventInfo, Carries(ev, m), pending' = Append(pending, ev),
             stage' \in {"run", "done"}
      PROVE  Core'
    <2>1. /\ Recorded(sec, m) /\ \A j \in 1 .. Len(pending) : Carries(pending[j], m)
        BY <1>0, <1>2, MoreMessages
    <2>2. pending' \in Seq(EventInfo) /\ Len(pending') = Len(pending) + 1
        BY <1>0, <1>2
    <2>3. ASSUME NEW j \in 1 .. Len(pending') PROVE Carries(pending'[j], m)
        BY <1>0, <1>2, <2>1, <2>2
    <2> QED
        BY Zenon, <1>0, <1>2, <2>1, <2>2, <2>3 DEF Core, m
<1>3. ASSUME chain' \in ChainInfo, n \in Nat, m \in Nat, n <= m, UNCHANGED <<sec, pending>>,
             stage' \in {"idle", "run", "done", "closed"}, stage' = "idle" => pending = <<>>
      PROVE  Core'
    <2>1. /\ Recorded(sec, m) /\ \A j \in 1 .. Len(pending) : Carries(pending[j], m)
        BY <1>0, <1>3, MoreMessages
    <2> QED
        BY Zenon, <1>0, <1>3, <2>1 DEF Core, m
<1>4. CASE Calm
    <2>1. chain' \in ChainInfo /\ n \in Nat /\ m \in Nat /\ n <= m
        BY Zenon, <1>1, <1>4 DEF Calm, Sent
    <2> QED
        BY Zenon, <1>0, <1>3, <1>4, <2>1 DEF Calm
<1>5. CASE ChainSteps
    <2>1. chain' \in ChainInfo /\ n \in Nat /\ m \in Nat /\ n <= m
        BY Zenon, <1>1, <1>5
    <2> QED
        BY Zenon, <1>0, <1>3, <1>5, <2>1 DEF ChainSteps
<1>6. ASSUME NEW ev, Adds(ev) PROVE Core'
    <2>1. chain' \in ChainInfo /\ n \in Nat /\ m \in Nat /\ n <= m
        BY Zenon, <1>1, <1>6 DEF Adds, Sent
    <2>2. ev \in EventInfo /\ Carries(ev, m)
        BY <1>6, <2>1, MoreMessages DEF Adds
    <2> QED
        BY Zenon, <1>2, <1>6, <2>1, <2>2 DEF Adds
<1>7. ASSUME NEW ev, NEW kind, Answers(ev, kind) PROVE Core'
    <2>1. Fits(ev, sec, chain, kind) /\ Appends(chain, chain', kind) /\ Sent
        BY Zenon, <1>7 DEF Answers, Sent
    <2>2. chain' \in ChainInfo /\ n \in Nat /\ m \in Nat /\ n <= m
        BY Zenon, <1>1, <2>1
    <2>3. ev \in EventInfo /\ Records(ev, sec, chain, kind)
        BY Zenon, <2>1 DEF Fits
    <2>4. CASE kind = "none"
        <3>1. Carries(ev, 0)
            BY Zenon, <2>3, <2>4 DEF Records
        <3>2. Carries(ev, m)
            BY <2>2, <2>3, <3>1, MoreMessages
        <3> QED
            BY Zenon, <1>2, <1>7, <2>2, <2>3, <3>2 DEF Answers
    <2>5. CASE kind # "none"
        <3>1. kind \in {"precommit", "commit", "update", "terminate"} /\ ev.v = n + 1
            BY Zenon, <2>3, <2>5 DEF Records, n
        <3>2. m = n + 1
            BY Zenon, <2>1, <3>1 DEF Appends, m, n
        <3>3. ev.e \notin {"SectorReceive", "SectorPieceAdded", "SectorTicket", "SectorUpdateDealIDs"}
            BY Zenon, <2>3, <3>1 DEF Records
        <3>4. ev.v <= m
            BY <2>2, <3>1, <3>2
        <3>5. Carries(ev, m)
            BY Zenon, <3>3, <3>4 DEF Carries
        <3> QED
            BY Zenon, <1>2, <1>7, <2>2, <2>3, <3>5 DEF Answers
    <2> QED
        BY Zenon, <2>4, <2>5
<1>8. ASSUME NEW q, NEW p, Replans(q, p) PROVE Core'
    <2>1. chain' \in ChainInfo /\ n \in Nat /\ m \in Nat /\ n <= m
        BY Zenon, <1>1, <1>8 DEF Replans
    <2>2. q \in Seq(EventInfo) /\ \A j \in 1 .. Len(q) : Carries(q[j], n)
        BY Zenon, <1>8 DEF Replans, Queued, n
    <2>3. PlanOf(sec, q, p) /\ sec' = p.sec /\ Left(q, p.n, pending') /\ stage' \in {"run", "done", "closed"}
        BY Zenon, <1>8 DEF Replans, Planning
    <2>4. sec' \in SectorInfo /\ Recorded(sec', n)
        BY Zenon, <1>0, <2>1, <2>2, <2>3, PlanRecords
    <2>5. Recorded(sec', m)
        BY Zenon, <2>1, <2>4, MoreMessages
    <2>6. pending' \in Seq(EventInfo)
        BY Zenon, <2>3 DEF Left
    <2>7. ASSUME NEW j \in 1 .. Len(pending') PROVE Carries(pending'[j], m)
        <3>1. PICK i \in 1 .. Len(q) : pending'[j] = q[i]
            BY Zenon, <2>3 DEF Left
        <3>2. q[i] \in EventInfo /\ Carries(q[i], n)
            BY <2>2
        <3> QED
            BY Zenon, <2>1, <3>1, <3>2, MoreMessages
    <2> QED
        BY Zenon, <2>1, <2>3, <2>4, <2>5, <2>6, <2>7 DEF Core, m
<1> QED
    BY Zenon, <1>4, <1>5, <1>6, <1>7, <1>8, StepForms DEF StepForm

(* Every variable has a value of its type, as is shown for every step.     *)
TypeInv == Typed /\ Kept

(* Initially.                                                              *)
LEMMA TypesInit ==
    ASSUME Init
    PROVE  TypeInv
<1>1. sec \in SectorInfo /\ sec.PreCommitMessage = 0 /\ sec.CommitMessage = 0
      /\ sec.ReplicaUpdateMessage = 0 /\ sec.TerminateMessage = 0
    <2>1. "Undefined" \in States
        BY Zenon DEF States, SealingStates
    <2> QED
        BY SMTT(30), <2>1 DEF Init, NewSector, NoProof, SectorInfo, Returns
<1>2. chain \in ChainInfo /\ chain.msgs = <<>>
    BY DEF Init, GenesisChain, ChainInfo, NoPci
<1>3. Typed
    BY <1>1, <1>2 DEF Init, Typed, Recorded
<1>4. Bounded(used)
    BY TroubleAssumption DEF Init, Bounded, UsedInfo
<1>5. mem \in MemInfo
    BY Zenon, NoMemTyped DEF Init
<1> QED
    BY Zenon, <1>3, <1>4, <1>5 DEF Init, TypeInv, Kept

(* Every step keeps the types.                                             *)
LEMMA TypesStep ==
    ASSUME TypeInv, [Next]_vars
    PROVE  TypeInv'
<1>1. Typed /\ Kept
    BY Zenon DEF TypeInv
<1>2. Core'
    BY Zenon, <1>1, NextSteps, CoreSteps
<1>3. Kept'
    BY Zenon, <1>1, KeptSteps
<1> QED
    BY Zenon, <1>2, <1>3 DEF TypeInv, Typed, Core, Kept

(* Always.                                                                 *)
LEMMA TypesAlways == Spec => []TypeInv
<1>1. Init => TypeInv
    BY Zenon, TypesInit
<1>2. TypeInv /\ [Next]_vars => TypeInv'
    BY TypesStep
<1> QED
    BY <1>1, <1>2, PTL DEF Spec

-----------------------------------------------------------------------------
(* The theorems.                                                           *)

(* TypeOK: whatever the order of events, handlers, restarts and messages,  *)
(* every variable has a value of its kind, a message the sector recorded   *)
(* is one that was sent, and an idle machine has no events left            *)
(* (SectorInfo, go-statemachine's queue).                                  *)
THEOREM SectorTyped == Spec => []TypeOK
<1>1. TypeInv => TypeOK
    <2> SUFFICES ASSUME TypeInv PROVE TypeOK
        BY Zenon
    <2>1. Typed /\ Kept
        BY Zenon DEF TypeInv
    <2>2. /\ sec.State \in States
          /\ sec.Pieces \in 0 .. 2 /\ sec.CCPieces \in 0 .. 2 /\ sec.Ticket \in 0 .. 2
          /\ sec.CommR \in 0 .. 2
          /\ sec.PreCommitMessage \in Nat /\ sec.CommitMessage \in Nat
          /\ sec.ReplicaUpdateMessage \in Nat /\ sec.TerminateMessage \in Nat
        BY Zenon, <2>1 DEF Typed, SectorInfo
    <2>3. Len(chain.msgs) \in Nat /\ Recorded(sec, Len(chain.msgs))
        BY Zenon, <2>1, ChainMessages DEF Typed
    <2>4. {sec.PreCommitMessage, sec.CommitMessage, sec.ReplicaUpdateMessage,
           sec.TerminateMessage} \subseteq 0 .. Len(chain.msgs)
        BY <2>2, <2>3 DEF Recorded
    <2>5. mem \in [DOMAIN NoMem -> BOOLEAN]
        <3>1. DOMAIN NoMem = {"open", "assigned", "available", "nextDeal"}
            BY Zenon DEF NoMem
        <3> QED
            BY Zenon, <2>1, <3>1 DEF Kept, MemInfo
    <2>6. chain.si \in {"none", "sealed", "updated", "terminated"}
        BY Zenon, <2>1 DEF Typed, ChainInfo
    <2>7. ASSUME NEW i \in DOMAIN chain.msgs
          PROVE  chain.msgs[i].st \in {"pending", "ok", "void", "gas", "funds", "fail"}
        <3>1. chain.msgs \in Seq(MessageInfo)
            BY Zenon, <2>1 DEF Typed, ChainInfo, MessageInfo
        <3>2. chain.msgs[i] \in MessageInfo
            BY <3>1
        <3> QED
            BY Zenon, <3>2 DEF MessageInfo
    <2>8. /\ stage \in {"idle", "run", "done", "closed"} /\ (stage = "idle" => pending = <<>>)
          /\ timers \subseteq {"pack", "seed", "active"} \X Nat
          /\ used.trouble <= MaxTrouble /\ used.lapses <= used.trouble
        BY Zenon, <2>1 DEF Typed, Kept, Bounded
    <2> QED
        BY Zenon, <2>2, <2>4, <2>5, <2>6, <2>7, <2>8 DEF TypeOK
<1> QED
    BY <1>1, TypesAlways, PTL

(* ChainBacked: whatever was retried, reordered or restarted, a sector     *)
(* counts as proving, and may be upgraded, only when the chain has it, and *)
(* its key is released only when the chain has the updated replica         *)
(* (handleCommitWait, handleReplicaUpdateWait).                            *)
THEOREM ProvingIsBacked == Spec => []ChainBacked
<1>1. Init => ChainInv
    <2> SUFFICES ASSUME Init PROVE ChainInv
        OBVIOUS
    <2>1. /\ chain.alloc = FALSE /\ chain.pci = NoPci /\ chain.si = "none" /\ chain.msgs = <<>>
          /\ sec.State = "Undefined" /\ sec.PreCommitMessage = 0 /\ sec.CommitMessage = 0
          /\ sec.ReplicaUpdateMessage = 0 /\ pending = <<>>
        BY Zenon DEF Init, GenesisChain, NewSector
    <2>2. "Undefined" \notin Live
        BY Zenon DEF Live, SnapStates
    <2> QED
        BY <2>1, <2>2 DEF ChainInv, Ledger, Backed
<1>2. TypeInv /\ ChainInv /\ [Next]_vars => ChainInv'
    BY Zenon, NextSteps, StepForms, ChainInvStep DEF TypeInv
<1>3. ChainInv => ChainBacked
    BY DEF ChainInv, Backed, ChainBacked, Live
<1> QED
    BY <1>1, <1>2, <1>3, TypesAlways, PTL DEF Spec

(* It holds at all times: when the machine is created, and after every step *)
(* of a handler, planner, timer, user, restart or message.                 *)
LEMMA SectorAlways == Spec => []SectorInv
<1>1. Init => SectorInv
    <2> SUFFICES ASSUME Init PROVE SectorInv
        OBVIOUS
    <2>1. /\ chain.alloc = FALSE /\ chain.pci = NoPci /\ chain.si = "none" /\ chain.msgs = <<>>
          /\ sec.State = "Undefined" /\ sec.PreCommitMessage = 0 /\ sec.CommitMessage = 0
          /\ sec.ReplicaUpdateMessage = 0 /\ sec.Return = "none" /\ pending = <<>>
        BY Zenon DEF Init, GenesisChain, NewSector
    <2>2. /\ "Undefined" \notin Live \cup SnapStates \cup UpdateWaits \cup Sealed
          /\ "none" \notin HasReplica
        BY Zenon DEF Live, SnapStates, UpdateWaits, Sealed, HasReplica
    <2>3. ChainInv
        BY <2>1, <2>2 DEF ChainInv, Ledger, Backed
    <2>4. ReadyInv /\ UpgradeInv /\ OrderInv
        BY <2>1, <2>2 DEF ReadyInv, Ready, UpgradeInv, Upgraded, Reverts, OrderInv, Ordered
    <2>5. ReplicaInv
        BY <2>1, <2>2 DEF ReplicaInv, Replica, Fresh, Stale
    <2> QED
        BY Zenon, <2>3, <2>4, <2>5 DEF SectorInv
<1>2. TypeInv /\ SectorInv /\ [Next]_vars => SectorInv'
    BY Zenon, NextSteps, StepForms, ChainInvStep, ReadyInvStep, UpgradeInvStep, OrderInvStep, ReplicaInvStep
       DEF TypeInv, SectorInv
<1> QED
    BY <1>1, <1>2, TypesAlways, PTL DEF Spec

(* HandlersReady: whatever was retried, reordered, lost or restarted, a    *)
(* handler finds what it uses without asking or treats as impossible to    *)
(* miss: the message it waits for, the replica it submits, the sealed      *)
(* update, the mark of an upgrade, the state to return to                  *)
(* (handlePreCommitWait, handleCommitWait, checkCommit,                    *)
(* handleUpdateActivating, handleAbortUpgrade, onReturning).               *)
THEOREM HandlersAreReady == Spec => []HandlersReady
<1>1. SectorInv => HandlersReady
    BY Zenon DEF SectorInv, ReadyInv, Ready, UpgradeInv, Upgraded, ReplicaInv, Replica, HandlersReady,
           UpdateWaits, Sealed
<1> QED
    BY <1>1, SectorAlways, PTL

(* Nothing takes a request back (RemoveSector, TerminateSector).           *)
LEMMA AskedStays ==
    ASSUME [Next]_vars, asked
    PROVE  asked'
<1>1. ASSUME Handlers PROVE asked' = asked
    BY Zenon, <1>1 DEF Handlers, handle, handleWaitDeals, handleAddPiece, packing, abortUpgrade,
       handleProvingSector, handleAvailableSector, handleWaitSeed, handleUpdateActivating, Return
<1>2. ASSUME Timer PROVE asked' = asked
    BY Zenon, <1>2 DEF Timer, packTimer, seedReady, seedFails, updateActive
<1>3. ASSUME \/ stageDone \/ start \/ assignPiece \/ maybeUpgradeSector \/ MarkForUpgrade
             \/ SectorAbortUpgrade \/ StartPackingSector \/ restart
      PROVE  asked' = asked
    BY Zenon, <1>3 DEF stageDone, start, assignPiece, maybeUpgradeSector, MarkForUpgrade,
       SectorAbortUpgrade, StartPackingSector, restart
<1>4. ASSUME execute \/ environment PROVE asked' = asked
    BY Zenon, <1>4 DEF execute, environment
<1>5. ASSUME RemoveOrTerminateSector PROVE asked'
    BY Zenon, <1>5 DEF RemoveOrTerminateSector
<1>6. ASSUME UNCHANGED vars PROVE asked' = asked
    BY Zenon, <1>6 DEF vars
<1> QED
    BY Zenon, <1>1, <1>2, <1>3, <1>4, <1>5, <1>6 DEF Next, Machine

(* Send keeps Pieces, also when it comes with a piece (updateInput).       *)
LEMMA SendPieces ==
    ASSUME Typed, Pieces(sec, pending, stage, mem), NEW ev \in EventInfo, Carries(ev, 0), Send(ev),
           ev.e \notin {"SectorTerminate", "SectorRemove"},
           mem'.open = mem.open,
           \/ mem'.assigned = mem.assigned
           \/ mem.open /\ ev.e = "SectorAddPiece"
    PROVE  Pieces(sec, pending, stage, mem)'
<1>0. sec \in SectorInfo /\ pending \in Seq(EventInfo) /\ Len(pending) \in Nat
    BY DEF Typed
<1>1. CASE stage = "idle"
    <2>1. Plan(sec, <<ev>>) /\ pending = <<>>
        BY Zenon, <1>1 DEF Send, Typed
    <2>2. /\ <<ev>> \in Seq(EventInfo) /\ Len(<<ev>>) \in Nat
          /\ 1 \in 1 .. Len(<<ev>>) /\ \A j \in 1 .. Len(<<ev>>) : <<ev>>[j] = ev
        OBVIOUS
    <2>3. PICK p : Planning(<<ev>>, p)
        <3>1. \A j \in 1 .. Len(<<ev>>) : Carries(<<ev>>[j], 0)
            BY Zenon, <2>2
        <3> QED
            BY Zenon, <1>0, <2>1, <2>2, <3>1, PlanSteps
    <2>4. Pieces(sec, <<ev>>, "done", mem')
        <3>1. sec.State \in Filling => sec.State \in WaitsDeals /\ ~mem.assigned
            <4>1. ~ \E j \in 1 .. Len(pending) : pending[j].e \in Awaits(sec.State)
                BY <2>1
            <4> QED
                BY Zenon, <1>1, <4>1 DEF Pieces
        <3>2. mem.open \/ mem.assigned => sec.State \in Filling
            BY Zenon, <1>1 DEF Pieces
        <3>3. sec.State \in WaitsDeals => Awaits(sec.State) = {"SectorAddPiece"}
            BY Zenon DEF Awaits, WaitsDeals
        <3> QED
            BY Zenon, <2>2, <3>1, <3>2, <3>3 DEF Pieces
    <2>5. \A i \in 1 .. Len(<<ev>>) : <<ev>>[i].e \notin {"SectorTerminate", "SectorRemove"}
        BY Zenon, <2>2
    <2> QED
        BY Zenon, <2>2, <2>3, <2>4, <2>5, PlanPieces
<1>2. CASE stage # "idle"
    <2>1. sec' = sec /\ stage' = stage /\ pending' = Append(pending, ev)
        BY Zenon, <1>2 DEF Send
    <2>2. /\ Len(pending') = Len(pending) + 1
          /\ \A j \in 1 .. Len(pending) : j \in 1 .. Len(pending') /\ pending'[j] = pending[j]
          /\ Len(pending') \in 1 .. Len(pending') /\ pending'[Len(pending')] = ev
        BY <1>0, <2>1
    <2>3. sec.State \in WaitsDeals => Awaits(sec.State) = {"SectorAddPiece"}
        BY DEF Awaits, WaitsDeals
    <2> QED
        BY Zenon, <2>1, <2>2, <2>3 DEF Pieces
<1> QED
    BY Zenon, <1>1, <1>2

(* A handler that returns keeps Pieces when it sends what goes on with the *)
(* piece, or has answered it.                                              *)
LEMMA ReturnPieces ==
    ASSUME Typed, NEW o, Return(o),
           mem'.open \/ mem'.assigned => sec.State \in Filling,
           sec.State \in Filling /\ (sec.State \in WaitsDeals => mem'.assigned) =>
              \E ev \in EventInfo : o.ev = <<ev>> /\ ev.e \in Awaits(sec.State)
    PROVE  Pieces(sec, pending, stage, mem)'
<1>1. /\ pending \in Seq(EventInfo) /\ sec' = sec /\ stage' = "done" /\ pending' = pending \o o.ev
    BY Zenon DEF Typed, Return
<1>2. ASSUME NEW ev \in EventInfo, o.ev = <<ev>>, ev.e \in Awaits(sec.State)
      PROVE  \E j \in 1 .. Len(pending') : pending'[j].e \in Awaits(sec.State)
    <2>1. Len(pending') \in 1 .. Len(pending') /\ pending'[Len(pending')] = ev
        BY <1>1, <1>2
    <2> QED
        BY Zenon, <1>2, <2>1
<1> QED
    BY Zenon, <1>1, <1>2 DEF Pieces

(* The handlers of the states that add pieces are those with the maps, but *)
(* for two that wait (InputStates).                                        *)
LEMMA FillingInputs ==
    /\ Drops \subseteq InputStates
    /\ Filling \ InputStates = {"AddPieceFailed", "SnapDealsAddPieceFailed"}
BY Zenon DEF Filling, WaitsDeals, Drops, InputStates

(* A handler answers the pieces it does not add: what is still assigned    *)
(* when it returns is added next (handleWaitDeals, handleAddPiece,         *)
(* cleanupAssignedDeals).                                                  *)
LEMMA HandledPieces ==
    ASSUME TypeInv, ReadyInv, Pieces(sec, pending, stage, mem), Handlers
    PROVE  Pieces(sec, pending, stage, mem)'
<1>0. /\ Typed /\ mem \in MemInfo /\ sec \in SectorInfo /\ chain \in ChainInfo
      /\ sec.State = "AbortUpgrade" => sec.CCUpdate
    BY Zenon DEF TypeInv, Typed, Kept, ReadyInv, Ready, SnapStates
<1>1. /\ mem.open \/ mem.assigned => sec.State \in Filling \cup Drops
      /\ ~Cleaned.open /\ ~Cleaned.assigned
    BY Zenon, <1>0 DEF Pieces, Cleaned, MemInfo
<1>2. ASSUME NEW o, Return(o), sec.State \notin Filling, ~mem'.open, ~mem'.assigned
      PROVE  Pieces(sec, pending, stage, mem)'
    BY Zenon, <1>0, <1>2, ReturnPieces
<1>3. ASSUME NEW o, NEW ev \in EventInfo, Return(o), o.ev = <<ev>>, sec.State \in Filling,
             ev.e \in Awaits(sec.State)
      PROVE  Pieces(sec, pending, stage, mem)'
    BY Zenon, <1>0, <1>3, ReturnPieces
<1>4. ASSUME NEW e \in {"SectorAddPiece", "SectorPieceAdded", "SectorAddPieceFailed", "SectorRetryWaitDeals"}
      PROVE  Ev(e) \in EventInfo /\ Ev(e).e = e
    <2>1. e \in Plain
        BY Zenon DEF Plain
    <2> QED
        BY Zenon, <2>1, EventsHeard
<1>5. CASE handle
    <2>1. PICK o \in Handler(sec, chain) : Return(o)
        BY Zenon, <1>5 DEF handle
    <2>2. mem' = mem /\ sec.State \notin InputStates
        BY Zenon, <1>5 DEF handle
    <2>3. CASE sec.State \in Filling
        <3>1. sec.State \in {"AddPieceFailed", "SnapDealsAddPieceFailed"}
            BY Zenon, <2>2, <2>3, FillingStates, FillingInputs
        <3>2. o \in Sends("SectorRetryWaitDeals")
            <4>1. Handler(sec, chain) = FailureHandler(sec, chain)
                BY SMTT(30), <3>1 DEF Handler
            <4>2. FailureHandler(sec, chain) = Sends("SectorRetryWaitDeals")
                BY SMTT(30), <3>1 DEF FailureHandler
            <4> QED
                BY Zenon, <2>1, <4>1, <4>2
        <3>3. o.ev = <<Ev("SectorRetryWaitDeals")>>
            BY <3>2 DEF Sends, Outcome
        <3>4. "SectorRetryWaitDeals" \in Awaits(sec.State)
            BY Zenon, <3>1 DEF Awaits, WaitsDeals
        <3> QED
            BY Zenon, <1>3, <1>4, <2>1, <2>3, <3>3, <3>4
    <2>4. CASE sec.State \notin Filling
        BY Zenon, <1>1, <1>2, <2>1, <2>2, <2>4, FillingStates, FillingInputs
    <2> QED
        BY Zenon, <2>3, <2>4
<1>6. CASE handleWaitDeals
    <2>1. sec.State \in WaitsDeals /\ sec.State \in Filling /\ Awaits(sec.State) = {"SectorAddPiece"}
        BY Zenon, <1>6 DEF handleWaitDeals, WaitsDeals, Filling, Awaits
    <2>2. CASE mem.assigned
        <3>1. Return(Outcome(<<Ev("SectorAddPiece")>>, "none", 0))
            BY Zenon, <1>6, <2>2 DEF handleWaitDeals
        <3>2. Outcome(<<Ev("SectorAddPiece")>>, "none", 0).ev = <<Ev("SectorAddPiece")>>
            BY Zenon DEF Outcome
        <3> QED
            BY Zenon, <1>3, <1>4, <2>1, <3>1, <3>2
    <2>3. CASE ~mem.assigned
        <3>1. PICK o, b : Return(o) /\ mem' = [mem EXCEPT !.nextDeal = FALSE, !.open = b]
            BY Zenon, <1>6, <2>3 DEF handleWaitDeals
        <3>2. ~mem'.assigned
            BY Zenon, <1>0, <2>3, <3>1 DEF MemInfo
        <3> QED
            BY Zenon, <1>0, <2>1, <3>1, <3>2, ReturnPieces
    <2> QED
        BY Zenon, <2>2, <2>3
<1>7. CASE handleAddPiece
    <2>1. /\ sec.State \in Filling
          /\ Awaits(sec.State) = {"SectorPieceAdded", "SectorAddPieceFailed"}
        BY Zenon, <1>7 DEF handleAddPiece, WaitsDeals, Filling, Awaits
    <2>2. PICK o \in SendsTo("SectorPieceAdded", chain.ids, "none")
                         \cup Fails("SectorAddPieceFailed") \cup Sends("SectorPieceAdded") : Return(o)
        BY Zenon, <1>7 DEF handleAddPiece
    <2>3. /\ Event("SectorPieceAdded", chain.ids, "none") \in EventInfo
          /\ Event("SectorPieceAdded", chain.ids, "none").e = "SectorPieceAdded"
        <3>1. chain.ids \in 0 .. 2
            BY <1>0 DEF ChainInfo
        <3> QED
            BY Zenon, <3>1, PieceFits DEF Fits, Event
    <2>4. \E ev \in EventInfo : o.ev = <<ev>> /\ ev.e \in {"SectorPieceAdded", "SectorAddPieceFailed"}
        <3>1. CASE o \in SendsTo("SectorPieceAdded", chain.ids, "none")
            BY <2>3, <3>1 DEF SendsTo, Outcome
        <3>2. CASE o \in Sends("SectorPieceAdded")
            BY <1>4, <3>2 DEF Sends, Outcome
        <3>3. CASE o \in Fails("SectorAddPieceFailed")
            BY <1>4, <3>3 DEF Fails, Sends, Outcome
        <3> QED
            BY Zenon, <2>2, <3>1, <3>2, <3>3
    <2> QED
        BY Zenon, <1>3, <2>1, <2>2, <2>4
<1>8. CASE packing
    <2>1. PICK o : Return(o)
        BY Zenon, <1>8 DEF packing
    <2>2. sec.State \in Drops /\ mem' = Cleaned
        BY Zenon, <1>8 DEF packing, Drops
    <2> QED
        BY Zenon, <1>1, <1>2, <2>1, <2>2, FillingStates, FillingInputs
<1>9. CASE abortUpgrade
    <2>1. PICK o : Return(o)
        BY Zenon, <1>9 DEF abortUpgrade
    <2>2. sec.State \in Drops /\ mem' = Cleaned
        BY Zenon, <1>0, <1>9 DEF abortUpgrade, Drops
    <2> QED
        BY Zenon, <1>1, <1>2, <2>1, <2>2, FillingStates, FillingInputs
<1>10. CASE handleProvingSector \/ handleAvailableSector \/ handleWaitSeed \/ handleUpdateActivating
    <2>1. PICK o : Return(o)
        BY Zenon, <1>10 DEF handleProvingSector, handleAvailableSector, handleWaitSeed, handleUpdateActivating
    <2>2. sec.State \notin Filling \cup Drops
        BY Zenon, <1>10, FillingStates, FillingInputs
           DEF handleProvingSector, handleAvailableSector, handleWaitSeed, handleUpdateActivating
    <2>3. Cleaned \in MemInfo
        BY Zenon, <1>0, MemTyped
    <2>4. ~mem'.open /\ ~mem'.assigned
        BY Zenon, <1>0, <1>1, <1>10, <2>2, <2>3 DEF MemInfo,
           handleProvingSector, handleAvailableSector, handleWaitSeed, handleUpdateActivating
    <2> QED
        BY Zenon, <1>2, <2>1, <2>2, <2>4
<1> QED
    BY Zenon, <1>5, <1>6, <1>7, <1>8, <1>9, <1>10 DEF Handlers

(* PieceInv is kept: an event from outside comes after the one that goes   *)
(* on with a piece, and a stopped process has forgotten its pieces (Send,  *)
(* updateInput, restartSectors).                                           *)
LEMMA PieceInvStep ==
    ASSUME TypeInv, ReadyInv, QuitInv, PieceInv, [Next]_vars
    PROVE  PieceInv'
<1> SUFFICES ASSUME ~asked' PROVE Pieces(sec, pending, stage, mem)'
    BY Zenon DEF PieceInv
<1>0. /\ Typed /\ mem \in MemInfo /\ sec \in SectorInfo /\ pending \in Seq(EventInfo)
      /\ Len(pending) \in Nat /\ timers \in SUBSET ({"pack", "seed", "active"} \X Nat)
      /\ Quits(sec, pending, stage) /\ Pieces(sec, pending, stage, mem)
    BY AskedStays DEF TypeInv, Typed, Kept, QuitInv, PieceInv
<1>1. ASSUME UNCHANGED <<sec, pending, mem>>, stage' = "run" <=> stage = "run"
      PROVE  Pieces(sec, pending, stage, mem)'
    BY Zenon, <1>0, <1>1 DEF Pieces
<1>2. ASSUME NEW ev \in EventInfo, Carries(ev, 0), Send(ev), mem'.open = mem.open,
             ev.e \notin {"SectorTerminate", "SectorRemove"},
             mem'.assigned = mem.assigned \/ (mem.open /\ ev.e = "SectorAddPiece")
      PROVE  Pieces(sec, pending, stage, mem)'
    BY Zenon, <1>0, <1>2, SendPieces
<1>3. ASSUME NEW e \in {"SectorStartPacking", "SectorChainPreCommitFailed", "SectorUpdateActive",
                        "SectorAddPiece", "SectorStartCCUpdate", "SectorMarkForUpdate",
                        "SectorAbortUpgrade", "SectorStart", "SectorStartCC"}
      PROVE  /\ Ev(e) \in EventInfo /\ Carries(Ev(e), 0) /\ Ev(e).e = e
             /\ e \notin {"SectorTerminate", "SectorRemove"}
    <2>1. e \in Plain \cup {"SectorMarkForUpdate", "SectorStartCCUpdate", "SectorStart", "SectorStartCC"}
        BY Zenon DEF Plain
    <2> QED
        BY Zenon, <2>1, EventsHeard
<1>4. CASE UNCHANGED vars \/ execute \/ environment
    BY Zenon, <1>1, <1>4 DEF vars, execute, environment
<1>5. CASE stageDone
    <2>1. CASE pending = <<>>
        BY Zenon, <1>1, <1>5, <2>1 DEF stageDone
    <2>2. CASE pending # <<>>
        <3>1. Plan(sec, pending) /\ stage = "done" /\ mem' = mem
            BY Zenon, <1>5, <2>2 DEF stageDone
        <3>2. PICK p : Planning(pending, p)
            <4>1. Len(chain.msgs) \in Nat
                BY Zenon, <1>0, ChainMessages DEF Typed
            <4> QED
                BY Zenon, <1>0, <3>1, <4>1, PlanSteps DEF Typed
        <3>3. \A i \in 1 .. Len(pending) : pending[i].e \in {"SectorTerminate", "SectorRemove"} =>
                 sec.State \notin Filling
            BY Zenon, <1>0, FillingStates, FillingInputs DEF Quits
        <3> QED
            BY Zenon, <1>0, <3>1, <3>2, <3>3, PlanPieces
    <2> QED
        BY Zenon, <2>1, <2>2
<1>6. CASE Handlers
    BY Zenon, <1>0, <1>6, HandledPieces
<1>7. CASE start
    <2>1. mem'.open = mem.open /\ mem'.assigned = mem.assigned
        BY Zenon, <1>0, <1>7 DEF start, MemInfo
    <2>2. ASSUME NEW r \in {"Packing", "GetTicket", "PreCommitting"}, NEW v \in {0, 1},
                 Send(Event("SectorReceive", v, r))
          PROVE  Pieces(sec, pending, stage, mem)'
        BY Zenon, <1>2, <2>1, <2>2, EventsHeard
    <2>3. ASSUME Send(Ev("SectorStart")) \/ Send(Ev("SectorStartCC"))
          PROVE  Pieces(sec, pending, stage, mem)'
        BY Zenon, <1>2, <1>3, <2>1, <2>3
    <2> QED
        BY Zenon, <1>7, <2>2, <2>3 DEF start
<1>8. CASE Timer
    <2>1. PICK t \in timers : packTimer(t) \/ seedReady(t) \/ seedFails(t) \/ updateActive(t)
        BY Zenon, <1>8 DEF Timer
    <2>2. t[2] \in Nat /\ mem' = mem
        BY Zenon, <1>0, <2>1 DEF packTimer, seedReady, seedFails, updateActive
    <2>3. \/ UNCHANGED <<sec, pending, stage>>
          \/ Send(Event("SectorSeedReady", t[2], "none"))
          \/ \E e \in {"SectorStartPacking", "SectorChainPreCommitFailed", "SectorUpdateActive"} :
                Send(Ev(e))
        BY Zenon, <2>1 DEF packTimer, seedReady, seedFails, updateActive
    <2>4. CASE UNCHANGED <<sec, pending, stage>>
        BY Zenon, <1>1, <2>2, <2>4
    <2>5. CASE Send(Event("SectorSeedReady", t[2], "none"))
        BY Zenon, <1>2, <2>2, <2>5, EventsHeard
    <2>6. ASSUME NEW e \in {"SectorStartPacking", "SectorChainPreCommitFailed", "SectorUpdateActive"},
                 Send(Ev(e))
          PROVE  Pieces(sec, pending, stage, mem)'
        BY Zenon, <1>2, <1>3, <2>2, <2>6
    <2> QED
        BY Zenon, <2>3, <2>4, <2>5, <2>6
<1>9. CASE assignPiece
    <2>1. Send(Ev("SectorAddPiece")) /\ mem.open /\ mem'.open = mem.open
        BY Zenon, <1>0, <1>9 DEF assignPiece, MemInfo
    <2> QED
        BY Zenon, <1>2, <1>3, <2>1
<1>10. CASE maybeUpgradeSector \/ MarkForUpgrade \/ SectorAbortUpgrade \/ StartPackingSector
    <2>1. mem'.open = mem.open /\ mem'.assigned = mem.assigned
        BY Zenon, <1>0, <1>10 DEF maybeUpgradeSector, MarkForUpgrade, SectorAbortUpgrade, StartPackingSector,
           MemInfo
    <2>2. PICK e \in {"SectorStartCCUpdate", "SectorMarkForUpdate", "SectorAbortUpgrade",
                      "SectorStartPacking"} : Send(Ev(e))
        BY Zenon, <1>10 DEF maybeUpgradeSector, MarkForUpgrade, SectorAbortUpgrade, StartPackingSector
    <2> QED
        BY Zenon, <1>2, <1>3, <2>1, <2>2
<1>11. CASE restart
    <2>1. Plan(sec, <<Ev("SectorRestart")>>) /\ ~mem'.open /\ ~mem'.assigned
        BY Zenon, <1>11 DEF restart, NoMem
    <2>2. Ev("SectorRestart") \in EventInfo /\ Carries(Ev("SectorRestart"), 0)
          /\ Ev("SectorRestart").e = "SectorRestart"
        BY Zenon DEF Ev, Event, EventInfo, EventNames, Returns, Carries
    <2>3. PICK ev \in EventInfo : Carries(ev, 0) /\ ev.e = "SectorRestart" /\ Plan(sec, <<ev>>)
        BY Zenon, <2>1, <2>2
    <2>4. /\ <<ev>> \in Seq(EventInfo) /\ Len(<<ev>>) = 1 /\ Len(<<ev>>) \in Nat
          /\ <<ev>>[1] = ev /\ \A j \in 1 .. Len(<<ev>>) : <<ev>>[j] = ev
        OBVIOUS
    <2>5. PICK p : Planning(<<ev>>, p)
        <3>1. \A j \in 1 .. Len(<<ev>>) : Carries(<<ev>>[j], 0)
            BY Zenon, <2>3, <2>4
        <3> QED
            BY Zenon, <1>0, <2>3, <2>4, <3>1, PlanSteps
    <2>6. /\ \A i \in 1 .. Len(<<ev>>) : <<ev>>[i].e \notin {"SectorTerminate", "SectorRemove"}
          /\ <<ev>>[1].e = "SectorRestart"
        BY Zenon, <2>3, <2>4
    <2> QED
        BY Zenon, <1>0, <2>1, <2>4, <2>5, <2>6, PlanPieces
<1>12. ~RemoveOrTerminateSector
    BY Zenon DEF RemoveOrTerminateSector
<1> QED
    BY Zenon, <1>4, <1>5, <1>6, <1>7, <1>8, <1>9, <1>10, <1>11, <1>12 DEF Next, Machine

(* NoStrandedPiece: a piece that was assigned to a sector is not forgotten: *)
(* however events, failures and restarts fall, a machine with an assigned  *)
(* piece is not idle, unless somebody asked to remove or terminate the     *)
(* sector (handleWaitDeals, handleAddPiece, cleanupAssignedDeals).         *)
THEOREM PiecesAreAnswered == Spec => []NoStrandedPiece
<1> DEFINE Inv == QuitInv /\ PieceInv
<1>1. Init => Inv
    BY DEF Init, NoMem, QuitInv, Quits, PieceInv, Pieces, NewSector, Filling, WaitsDeals
<1>2. TypeInv /\ SectorInv /\ Inv /\ [Next]_vars => Inv'
    <2> SUFFICES ASSUME TypeInv, SectorInv, Inv, [Next]_vars PROVE Inv'
        BY Zenon
    <2>1. Typed /\ StepForm /\ (asked => asked')
        BY Zenon, NextSteps, StepForms, AskedStays DEF TypeInv
    <2> QED
        BY Zenon, <2>1, QuitInvStep, PieceInvStep DEF SectorInv
<1>3. TypeInv /\ Inv => NoStrandedPiece
    <2> SUFFICES ASSUME TypeInv, Inv, stage = "idle", ~asked, mem.assigned PROVE FALSE
        BY Zenon DEF NoStrandedPiece
    <2>1. pending = <<>> /\ Pieces(sec, pending, stage, mem)
        BY Zenon DEF TypeInv, Typed, PieceInv
    <2> QED
        BY <2>1 DEF Pieces
<1> QED
    BY <1>1, <1>2, <1>3, TypesAlways, SectorAlways, PTL DEF Spec
=============================================================================
