---------------------------- MODULE SectorChain ----------------------------
(* The chain as the sealing state machine of a sector meets it: the state   *)
(* of the sector's machine and of the miner actor, the messages the machine *)
(* pushes, and what becomes of them. The miner actor is external: it is     *)
(* modelled from what the handlers ask of it.                               *)
EXTENDS SectorPlanner

CONSTANTS MaxTrouble,   \* failed calls, restarts, requests of users, events
                        \* of the chain
          Events        \* restarts, and what happens on the chain beside messages

ASSUME TroubleAssumption ==
    /\ MaxTrouble \in Nat
    /\ Events \subseteq {"era", "expire", "move", "late", "faulty", "revert", "restart"}

VARIABLES
    sec,      \* the recorded SectorInfo
    pending,  \* events not yet consumed
    stage,    \* "idle", "run" (a handler runs), "done" (it returned), "closed"
    mem,      \* the deal input's maps: open, assigned, available, nextDeal
    timers,   \* timers and heights of the chain that will send an event
    chain,
    used,     \* the trouble there was, and how many restarts and failed seed callbacks
    asked     \* somebody asked to remove or terminate the sector

vars == <<sec, pending, stage, mem, timers, chain, used, asked>>

Spend(n) ==
    /\ used.trouble + n <= MaxTrouble
    /\ used' = [used EXCEPT !.trouble = @ + n]

Lapse ==
    /\ used.trouble < MaxTrouble
    /\ used' = [trouble |-> used.trouble + 1, lapses |-> used.lapses + 1]

-----------------------------------------------------------------------------
NoPci == [ticket |-> 0, seed |-> 0, deals |-> FALSE, late |-> FALSE]

\* The chain: the sector number is allocated, the precommit (its ticket, the
\* block it landed in, its deals, whether the time to prove it has run out), the
\* sector (none, with its original or with its updated replica, terminated),
\* the version of the deal IDs, whether the deals may no longer start, whether
\* the sector is active, the current era of tickets, and the messages sent.
GenesisChain ==
    [alloc |-> FALSE, pci |-> NoPci, si |-> "none", ids |-> 1, expired |-> FALSE,
     active |-> TRUE, era |-> 1, msgs |-> <<>>]

Committed(c) == c.si \in {"sealed", "updated"}

\* What became of a message: "pending", or executed: "ok", "void" (without making
\* the sector live), out of "gas", without "funds" for it, "fail".
Status(c, msg) == c.msgs[msg].st

\* A message carries what the actor will judge it by.
MsgArg(kind) ==
    CASE kind = "precommit" -> <<sec.Ticket, sec.Pieces>>
      [] kind = "commit" -> sec.Proof
      [] kind = "update" -> <<sec.Pieces, 0>>
      [] OTHER -> <<0, 0>>

Pushed(c, kind) ==
    IF kind = "none" THEN c
    ELSE [c EXCEPT !.msgs = Append(@, [kind |-> kind, arg |-> MsgArg(kind), st |-> "pending"])]

-----------------------------------------------------------------------------
\* The miner actor executes messages in order. A message may run out
\* of gas, or find no funds.
Verdict(c, m) ==
    CASE m.kind = "precommit" ->
            IF ~c.alloc /\ m.arg[1] >= c.era /\ (m.arg[2] # 0 => m.arg[2] = c.ids /\ ~c.expired)
            THEN "ok" ELSE "fail"
      [] m.kind = "commit" ->
            IF c.pci = NoPci \/ m.arg # <<c.pci.ticket, c.pci.seed>> THEN "fail"
            ELSE IF c.pci.deals /\ c.expired THEN "void" ELSE "ok"
      [] m.kind = "update" ->
            IF c.si = "sealed" /\ c.active /\ m.arg[1] = c.ids /\ ~c.expired THEN "ok" ELSE "fail"
      [] OTHER -> IF Committed(c) THEN "ok" ELSE "fail"

Executed(c, m) ==
    CASE m.kind = "precommit" ->
            [c EXCEPT !.alloc = TRUE,
                      !.pci = [ticket |-> m.arg[1], seed |-> 1, deals |-> m.arg[2] # 0,
                               late |-> FALSE]]
      [] m.kind = "commit" -> [c EXCEPT !.si = "sealed", !.pci = NoPci]
      [] m.kind = "update" -> [c EXCEPT !.si = "updated"]
      [] OTHER -> [c EXCEPT !.si = "terminated"]

execute ==
    \E i \in DOMAIN chain.msgs :
        LET m == chain.msgs[i]
            verdict == Verdict(chain, m)
            noted(c, st) == [c EXCEPT !.msgs[i].st = st]
        IN /\ m.st = "pending" /\ \A j \in 1..(i - 1) : chain.msgs[j].st # "pending"
           /\ \/ /\ chain' = noted(IF verdict = "ok" THEN Executed(chain, m) ELSE chain, verdict)
                 /\ UNCHANGED used
              \/ /\ \E st \in {"gas", "funds"} : chain' = noted(chain, st)
                 /\ Spend(1)
           /\ UNCHANGED <<sec, pending, stage, mem, timers, asked>>

\* Time passes: tickets and deals get too old, a precommit is not proved in
\* time and cron drops it. Reverts move the precommit or the deal IDs.
environment ==
    /\ \/ "era" \in Events /\ chain.era = 1 /\ chain' = [chain EXCEPT !.era = 2]
       \/ "expire" \in Events /\ ~chain.expired /\ chain' = [chain EXCEPT !.expired = TRUE]
       \/ /\ "move" \in Events /\ chain.ids = 1 /\ ~chain.pci.deals /\ chain.si # "updated"
          /\ chain' = [chain EXCEPT !.ids = 2]
       \/ /\ "late" \in Events /\ chain.pci # NoPci
          /\ chain' = [chain EXCEPT !.pci = IF @.late THEN NoPci ELSE [@ EXCEPT !.late = TRUE]]
       \/ /\ "faulty" \in Events /\ Committed(chain) /\ chain.active
          /\ chain' = [chain EXCEPT !.active = FALSE]
       \/ /\ "revert" \in Events /\ chain.pci # NoPci
          /\ chain' = [chain EXCEPT !.pci.seed = @ + 1]
    /\ Spend(1)
    /\ UNCHANGED <<sec, pending, stage, mem, timers, asked>>

=============================================================================
