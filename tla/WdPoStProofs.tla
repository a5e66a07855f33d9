---------------------------- MODULE WdPoStProofs ----------------------------
(* Theorems about the window PoSt scheduler, proved with TLAPS for every   *)
(* length of a deadline, every confidence and every number of goroutines.  *)
EXTENDS WdPoSt, TLAPS

USE ConstantsAssumption DEF ConstantsAssumption

-----------------------------------------------------------------------------
(* The record of one window.                                               *)

(* A window in state Submitting points to its one live submission. *)
Tracked(pw) ==
    /\ pw.state = "Submitting" <=> pw.sub # None
    /\ \A i \in Ids : pw.subs[i] = "live" <=> pw.sub = i

(* A closed window has no live submission. *)
Timely(pw, h, d) == pw.state = "Submitting" => h < Close(d)

(* Height h does not allow the proof of d to be submitted, or it is being  *)
(* submitted, or was.                                                      *)
Served(pw, h, d) ==
    ~(/\ pw.state = "Start" /\ cache[d] # "none"
      /\ h >= d + SubmitConfidence /\ h < Close(d))

(* None is none of the values it stands beside. *)
LEMMA NoneIsNone ==
    /\ None \notin Ids /\ None \notin Nat /\ None # "live" /\ None # "aborted"
    /\ None \notin Proofs /\ None \notin HeadChanges
BY Zenon, NoneAssumption DEF NoneAssumption

(* The free slot is one. *)
LEMMA FreeIdIsFree ==
    ASSUME NEW f, FreeIds(f) # {}
    PROVE  FreeId(f) \in Ids /\ f[FreeId(f)] = None
BY Zenon DEF FreeIds, FreeId

(* submitIfReady starts at most one submission, only in an open window,    *)
(* and leaves no window in Start that could be submitted.                  *)
LEMMA SubmitIfReadyKeeps ==
    ASSUME NEW pw \in Windows, Tracked(pw), FreeIds(pw.subs) # {}, NEW h \in Int, NEW d \in Int
    PROVE  /\ submitIfReady(pw, h, d) \in Windows
           /\ Tracked(submitIfReady(pw, h, d))
           /\ Served(submitIfReady(pw, h, d), h, d)
           /\ Timely(pw, h, d) => Timely(submitIfReady(pw, h, d), h, d)
<1>1. CASE \/ h >= Close(d) \/ pw.state # "Start"
           \/ h < d + SubmitConfidence \/ cache[d] = "none"
    <2>1. submitIfReady(pw, h, d) = pw
        BY Zenon, <1>1 DEF submitIfReady
    <2> QED
        BY <1>1, <2>1 DEF Served, Close
<1>2. CASE ~(\/ h >= Close(d) \/ pw.state # "Start"
             \/ h < d + SubmitConfidence \/ cache[d] = "none")
    <2>1. CASE cache[d] = "empty"
        <3>1. submitIfReady(pw, h, d) = [pw EXCEPT !.state = "Complete", !.stale = FALSE]
            BY Zenon, <1>2, <2>1 DEF submitIfReady
        <3> QED
            BY Zenon, <1>2, <3>1 DEF Windows, Tracked, Served, Timely
    <2>2. CASE cache[d] # "empty"
        <3>1. PICK id \in Ids : id = FreeId(pw.subs) /\ pw.subs[id] = None
            BY Zenon, FreeIdIsFree
        <3>2. submitIfReady(pw, h, d) =
                  [pw EXCEPT !.state = "Submitting", !.sub = id,
                             !.subs[id] = "live", !.stale = FALSE]
            BY Zenon, <1>2, <2>2, <3>1 DEF submitIfReady
        <3>3. pw.sub = None
            BY Zenon, <1>2 DEF Tracked
        <3>4. PICK sw : sw = submitIfReady(pw, h, d)
            BY Zenon
        <3>5. sw \in Windows
            <4>1. [pw.subs EXCEPT ![id] = "live"] \in [Ids -> {None, "live", "aborted"}]
                BY Zenon DEF Windows
            <4>2. sw = [state |-> "Submitting", sub |-> id,
                        subs |-> [pw.subs EXCEPT ![id] = "live"],
                        failed |-> pw.failed, stale |-> FALSE]
                BY Zenon, <3>2, <3>4 DEF Windows
            <4> QED
                BY Zenon, <4>1, <4>2 DEF Windows
        <3>6. /\ sw.state = "Submitting" /\ sw.sub = id
              /\ \A i \in Ids : sw.subs[i] = IF i = id THEN "live" ELSE pw.subs[i]
            BY <3>2, <3>4 DEF Windows
        <3>7. Tracked(sw)
            BY Zenon, <3>1, <3>3, <3>6, NoneIsNone DEF Tracked
        <3>8. Served(sw, h, d) /\ Timely(sw, h, d)
            BY <1>2, <3>6 DEF Served, Timely, Close
        <3> QED
            BY Zenon, <3>4, <3>5, <3>7, <3>8
    <2> QED
        BY Zenon, <2>1, <2>2
<1> QED
    BY Zenon, <1>1, <1>2

(* resetWindow aborts the submission of a window that was reverted or has  *)
(* closed, and frees no slot before the goroutine has reported.            *)
LEMMA ResetWindowKeeps ==
    ASSUME NEW pw \in Windows, Tracked(pw), NEW revert, NEW h \in Int, NEW d \in Int
    PROVE  LET rw == resetWindow(pw, revert, h, d)
           IN  /\ rw \in Windows
               /\ Tracked(rw)
               /\ FreeIds(rw.subs) = FreeIds(pw.subs)
               /\ rw.state = "Submitting" => ~(h >= Close(d))
<1> DEFINE reverted == revert # None /\ revert < d
<1>1. CASE pw.state = "Submitting" /\ (reverted \/ h >= Close(d))
    <2>1. resetWindow(pw, revert, h, d) =
              [pw EXCEPT !.state = "Start", !.sub = None, !.subs[pw.sub] = "aborted"]
        BY Zenon, <1>1 DEF resetWindow
    <2>2. pw.sub \in Ids /\ pw.subs[pw.sub] = "live"
        BY Zenon, <1>1 DEF Tracked, Windows
    <2>3. PICK rw : rw = resetWindow(pw, revert, h, d)
        BY Zenon
    <2>4. rw \in Windows
        <3>1. [pw.subs EXCEPT ![pw.sub] = "aborted"]
                  \in [Ids -> {None, "live", "aborted"}]
            BY Zenon DEF Windows
        <3>2. rw = [state |-> "Start", sub |-> None,
                    subs |-> [pw.subs EXCEPT ![pw.sub] = "aborted"],
                    failed |-> pw.failed, stale |-> pw.stale]
            BY Zenon, <2>1, <2>3 DEF Windows
        <3> QED
            BY Zenon, <3>1, <3>2 DEF Windows
    <2>5. /\ rw.state = "Start" /\ rw.sub = None
          /\ \A i \in Ids : rw.subs[i] = IF i = pw.sub THEN "aborted" ELSE pw.subs[i]
        BY <2>1, <2>2, <2>3 DEF Windows
    <2>6. Tracked(rw) /\ FreeIds(rw.subs) = FreeIds(pw.subs)
        BY <2>2, <2>5, NoneIsNone DEF Tracked, FreeIds
    <2> QED
        BY Zenon, <2>3, <2>4, <2>5, <2>6
<1>2. CASE ~(pw.state = "Submitting" /\ (reverted \/ h >= Close(d)))
           /\ pw.state = "Complete" /\ reverted
    <2>1. resetWindow(pw, revert, h, d) = [pw EXCEPT !.state = "Start"]
        BY Zenon, <1>2 DEF resetWindow
    <2> QED
        BY <1>2, <2>1 DEF Windows, Tracked, FreeIds
<1>3. CASE ~(pw.state = "Submitting" /\ (reverted \/ h >= Close(d)))
           /\ ~(pw.state = "Complete" /\ reverted)
    <2>1. resetWindow(pw, revert, h, d) = pw
        BY Zenon, <1>3 DEF resetWindow
    <2> QED
        BY Zenon, <1>3, <2>1
<1> QED
    BY Zenon, <1>1, <1>2, <1>3

(* A head change leaves a window tracked, with no live submission once it  *)
(* has closed, and with nothing left to submit.                            *)
LEMMA HeadChangeKeeps ==
    ASSUME NEW pw \in Windows, Tracked(pw), FreeIds(pw.subs) # {},
           NEW revert, NEW h \in Int, NEW d \in Int
    PROVE  LET hw == processHeadChangeForPW(pw, revert, h, d)
           IN  hw \in Windows /\ Tracked(hw) /\ Timely(hw, h, d) /\ Served(hw, h, d)
<1>1. PICK fw : fw = [pw EXCEPT !.failed = FALSE]
    BY Zenon
<1>2. fw \in Windows /\ Tracked(fw) /\ FreeIds(fw.subs) # {}
    BY Zenon, <1>1 DEF Windows, Tracked
<1>3. PICK rw : rw = resetWindow(fw, revert, h, d)
    BY Zenon
<1>4. rw \in Windows /\ Tracked(rw) /\ FreeIds(rw.subs) # {}
    BY <1>2, <1>3, ResetWindowKeeps
<1>5. Timely(rw, h, d)
    BY <1>2, <1>3, ResetWindowKeeps DEF Timely, Close
<1>6. processHeadChangeForPW(pw, revert, h, d) = submitIfReady(rw, h, d)
    BY Zenon, <1>1, <1>3 DEF processHeadChangeForPW
<1> QED
    BY Zenon, <1>4, <1>5, <1>6, SubmitIfReadyKeeps

(* The result of a submission changes the state of its window only if the  *)
(* window still points to it, and a failure is marked.                     *)
LEMMA ResultKeeps ==
    ASSUME NEW pw \in Windows, Tracked(pw), NEW id \in Ids, NEW ok \in BOOLEAN
    PROVE  LET sw == [setSubmitState(pw, id, ok) EXCEPT !.subs[id] = None]
           IN  /\ sw \in Windows
               /\ Tracked(sw)
               /\ sw.state = "Submitting" => pw.state = "Submitting"
               /\ sw.state # "Untracked" => pw.state # "Untracked"
               /\ sw.state = "Start" =>
                      sw.failed \/ (pw.state = "Start" /\ sw.failed = pw.failed)
<1>1. PICK mw : mw = setSubmitState(pw, id, ok)
    BY Zenon
<1>2. PICK sw : sw = [mw EXCEPT !.subs[id] = None]
    BY Zenon
<1>3. CASE pw.sub # id
    <2>1. mw = pw
        BY Zenon, <1>1, <1>3 DEF setSubmitState
    <2>2. sw = [state |-> pw.state, sub |-> pw.sub,
                subs |-> [pw.subs EXCEPT ![id] = None],
                failed |-> pw.failed, stale |-> pw.stale]
        BY Zenon, <1>2, <2>1 DEF Windows
    <2>3. [pw.subs EXCEPT ![id] = None] \in [Ids -> {None, "live", "aborted"}]
        BY Zenon DEF Windows
    <2>4. sw \in Windows
        BY Zenon, <2>2, <2>3 DEF Windows
    <2>5. \A i \in Ids : sw.subs[i] = IF i = id THEN None ELSE pw.subs[i]
        BY Zenon, <2>2 DEF Windows
    <2>6. Tracked(sw)
        BY <1>3, <2>2, <2>5, NoneIsNone DEF Tracked
    <2> QED
        BY <1>1, <1>2, <2>2, <2>4, <2>6
<1>4. CASE pw.sub = id
    <2>1. PICK st \in {"Start", "Complete"} : st = IF ok THEN "Complete" ELSE "Start"
        BY Zenon
    <2>2. mw = [state |-> st, sub |-> None, subs |-> pw.subs,
                failed |-> ~ok, stale |-> pw.stale]
        BY Zenon, <1>1, <1>4, <2>1 DEF setSubmitState, Windows
    <2>3. sw = [state |-> st, sub |-> None,
                subs |-> [pw.subs EXCEPT ![id] = None],
                failed |-> ~ok, stale |-> pw.stale]
        BY Zenon, <1>2, <2>2
    <2>4. [pw.subs EXCEPT ![id] = None] \in [Ids -> {None, "live", "aborted"}]
        BY Zenon DEF Windows
    <2>5. sw \in Windows
        BY Zenon, <2>3, <2>4 DEF Windows
    <2>6. \A i \in Ids : sw.subs[i] = IF i = id THEN None ELSE pw.subs[i]
        BY Zenon, <2>3 DEF Windows
    <2>7. Tracked(sw)
        BY <1>4, <2>1, <2>3, <2>6, NoneIsNone DEF Tracked
    <2>8. pw.state = "Submitting"
        BY Zenon, <1>4, NoneIsNone DEF Tracked
    <2>9. sw.state \in {"Start", "Complete"}
        BY Zenon, <2>1, <2>3
    <2>10. ASSUME sw.state = "Start" PROVE sw.failed
        <3>1. ~ok
            BY Zenon, <2>1, <2>3, <2>10
        <3>2. sw.failed = ~ok
            BY Zenon, <2>3
        <3> QED
            BY Zenon, <3>1, <3>2
    <2> QED
        BY Zenon, <1>1, <1>2, <2>5, <2>7, <2>8, <2>9, <2>10
<1> QED
    BY Zenon, <1>3, <1>4

(* Marking a window as reverted touches nothing else. *)
LEMMA MarkKeeps ==
    ASSUME NEW pw \in Windows, NEW b \in BOOLEAN
    PROVE  LET sw == [pw EXCEPT !.stale = b]
           IN  /\ sw \in Windows
               /\ sw.state = pw.state /\ sw.sub = pw.sub /\ sw.subs = pw.subs
               /\ sw.failed = pw.failed
BY Zenon DEF Windows

-----------------------------------------------------------------------------
(* The inductive invariant.                                                *)

(* Live submissions are tracked and belong to windows that the submitter   *)
(* has not seen close.                                                     *)
WindowsInv ==
    \A d \in Deadlines :
        /\ Tracked(win[d])
        /\ win[d].state # "Untracked" => currentTS # None
        /\ Timely(win[d], currentTS, d)

(* The proof the prover waits for runs and is in time for the head change  *)
(* it saw last, which the submitter may still have to see.                 *)
ProverInv ==
    current # None =>
        /\ proofs[current] # None /\ ~proofs[current].aborted
        /\ IF hc # None /\ hc.to = "submit"
           THEN hc.advance < Close(proofs[current].d)
           ELSE currentTS # None /\ currentTS < Close(proofs[current].d)

IInv ==
    /\ TypeOK
    /\ ~stopped => WindowsInv /\ ProverInv
    /\ NoLostProof

(* Deadlines and heights are numbers. *)
LEMMA Numbers ==
    /\ Deadlines \subseteq Nat /\ Heights \subseteq Nat
    /\ \A d \in Deadlines : Close(d) \in Nat
BY DEF Deadlines, Heights, Close

(* The deadline open at height h, and so every later one, closes after h. *)
LEMMA OpenDeadline ==
    ASSUME NEW h \in Heights, NEW d \in Deadlines, nextUnproved(d, h)
    PROVE  h < Close(d)
<1>1. h \in Nat /\ d \in Nat
    BY Zenon, Numbers
<1>2. PICK m : m = (h - ProvingStart) % ChallengeWindow
    BY Zenon
<1>3. m \in Int /\ m < ChallengeWindow
    BY <1>1, <1>2
<1>4. d >= h - m
    BY Zenon, <1>2 DEF nextUnproved, StateMinerProvingDeadline
<1> QED
    BY ONLY <1>1, <1>3, <1>4, ConstantsAssumption DEF Close, ConstantsAssumption

(* A step of the chain that leaves the loops alone, with the windows at    *)
(* most marked as reverted, keeps the invariant.                           *)
LEMMA ChainKeeps ==
    ASSUME IInv, ~stopped,
           UNCHANGED <<current, proofs, cache, added, currentTS, stopped>>,
           head' \in Heights, reorgs' \in 0 .. MaxReorgs, missed' \in 0 .. MaxMissed,
           hc = None \/ hc.to = "prove",
           hc' \in HeadChanges \cup {None}, hc' = None \/ hc'.to = "prove",
           win' = win \/ \E r \in Heights : markReverted(r)
    PROVE  IInv'
<1>1. ASSUME NEW d \in Deadlines
      PROVE  /\ win'[d] \in Windows
             /\ win'[d].state = win[d].state /\ win'[d].sub = win[d].sub
             /\ win'[d].subs = win[d].subs /\ win'[d].failed = win[d].failed
    <2>1. win[d] \in Windows
        BY Zenon DEF IInv, TypeOK
    <2>2. CASE win' = win
        BY Zenon, <2>1, <2>2
    <2>3. ASSUME NEW r \in Heights, markReverted(r)
          PROVE  /\ win'[d] \in Windows
                 /\ win'[d].state = win[d].state /\ win'[d].sub = win[d].sub
                 /\ win'[d].subs = win[d].subs /\ win'[d].failed = win[d].failed
        <3>1. PICK b \in BOOLEAN : b = (win[d].stale \/ (r < d /\ win[d].state # "Untracked"))
            BY Zenon
        <3>2. win'[d] = [win[d] EXCEPT !.stale = b]
            BY Zenon, <2>3, <3>1 DEF markReverted
        <3> QED
            BY <2>1, <3>2, MarkKeeps
    <2> QED
        BY Zenon, <2>2, <2>3
<1>2. win' \in [Deadlines -> Windows]
    <2>1. win' = [d \in Deadlines |-> win'[d]]
        BY Zenon DEF IInv, TypeOK, markReverted
    <2> QED
        BY Zenon, <1>1, <2>1
<1>3. TypeOK'
    BY Zenon, <1>2 DEF IInv, TypeOK
<1>4. WindowsInv'
    BY <1>1 DEF IInv, WindowsInv, Tracked, Timely
<1>5. ProverInv'
    BY Zenon DEF IInv, ProverInv
<1>6. NoLostProof'
    BY Zenon, <1>1 DEF IInv, NoLostProof
<1> QED
    BY Zenon, <1>3, <1>4, <1>5, <1>6 DEF IInv

(* The chain's own steps: it grows, is reorganised or set back, seen or    *)
(* unseen.                                                                 *)
LEMMA ChainStep ==
    ASSUME IInv, applyTipSet \/ reorganise \/ reconnect \/ setBack \/ updateFails
    PROVE  IInv'
<1>1. ASSUME NEW revert \in Heights \cup {None}, NEW h \in Heights, hc = None,
             update(revert, h)
      PROVE  /\ hc' \in HeadChanges \cup {None}
             /\ hc' = None \/ hc'.to = "prove"
             /\ missed' \in 0 .. MaxMissed
    BY <1>1 DEF update, miss, HeadChanges, IInv, TypeOK
<1>2. CASE applyTipSet
    <2>1. PICK h \in Heights : head' = h /\ update(None, h)
        <3>1. PICK h \in head + 1 .. head + 2 : h <= MaxHeight /\ head' = h /\ update(None, h)
            BY Zenon, <1>2 DEF applyTipSet
        <3>2. h \in Heights
            BY <3>1 DEF Heights, IInv, TypeOK
        <3> QED
            BY Zenon, <3>1, <3>2
    <2> QED
        BY Zenon, <1>1, <1>2, <2>1, ChainKeeps DEF applyTipSet, IInv, TypeOK
<1>3. CASE reorganise
    <2>1. PICK r, h \in Heights : newChain(r, h) /\ update(r, h)
        BY Zenon, <1>3 DEF reorganise
    <2>2. reorgs' \in 0 .. MaxReorgs
        BY <1>3 DEF reorganise, IInv, TypeOK
    <2> QED
        BY Zenon, <1>1, <1>3, <2>1, <2>2, ChainKeeps DEF reorganise, newChain
<1>4. CASE reconnect
    <2>1. PICK r, h \in Heights :
              /\ newChain(r, h)
              /\ hc' = IF h < ProvingStart THEN None
                       ELSE [to |-> "prove", revert |-> None, advance |-> h]
        BY Zenon, <1>4 DEF reconnect
    <2>2. hc' \in HeadChanges \cup {None} /\ (hc' = None \/ hc'.to = "prove")
        BY Zenon, <2>1 DEF HeadChanges
    <2>3. missed' \in 0 .. MaxMissed
        BY <1>4 DEF reconnect, miss, IInv, TypeOK
    <2> QED
        BY Zenon, <1>4, <2>1, <2>2, <2>3, ChainKeeps DEF reconnect, newChain, IInv, TypeOK
<1>5. CASE setBack
    <2>1. missed' \in 0 .. MaxMissed
        BY <1>5 DEF setBack, miss, IInv, TypeOK
    <2>2. PICK r \in Heights : head' \in Heights /\ markReverted(r)
        BY <1>5 DEF setBack, Heights, IInv, TypeOK
    <2> QED
        BY Zenon, <1>5, <2>1, <2>2, ChainKeeps DEF setBack, IInv, TypeOK
<1>6. CASE updateFails
    <2>1. missed' \in 0 .. MaxMissed
        BY <1>6 DEF updateFails, miss, IInv, TypeOK
    <2> QED
        BY Zenon, <1>6, <2>1, ChainKeeps DEF updateFails, IInv, TypeOK
<1> QED
    BY Zenon, <1>2, <1>3, <1>4, <1>5, <1>6

(* The prover's steps keep its proof running and in time, and announce     *)
(* every proof they put in the cache.                                      *)
LEMMA ProverStep ==
    ASSUME IInv,
           \/ proverHeadChange
           \/ \E i \in Ids : proverFailed(i)
           \/ \E i \in Ids, result \in {"empty", "posts"} : proverDone(i, result)
    PROVE  IInv'
<1>1. CASE proverHeadChange
    <2>1. PICK h \in Heights : h = hc.advance
        BY Zenon, <1>1 DEF proverHeadChange, IInv, TypeOK, HeadChanges
    <2>2. /\ hc' \in HeadChanges /\ hc' # None
          /\ hc'.to = "submit" /\ hc'.advance = h
        BY Zenon, <1>1, <2>1, NoneIsNone DEF proverHeadChange, IInv, TypeOK, HeadChanges
    <2>3. PICK kept : kept = IF expiredProof(h)
                             THEN [proofs EXCEPT ![current].aborted = TRUE] ELSE proofs
        BY Zenon
    <2>4. kept \in [Ids -> Proofs \cup {None}]
        <3>1. CASE expiredProof(h)
            <4>1. current \in Ids /\ proofs[current] \in Proofs
                BY Zenon, <1>1, <3>1 DEF IInv, TypeOK, ProverInv, expiredProof, proverHeadChange
            <4>2. [proofs[current] EXCEPT !.aborted = TRUE] \in Proofs
                BY Zenon, <4>1 DEF Proofs
            <4>3. kept = [proofs EXCEPT ![current] = [proofs[current] EXCEPT !.aborted = TRUE]]
                BY Zenon, <2>3, <3>1
            <4> QED
                BY Zenon, <4>1, <4>2, <4>3 DEF IInv, TypeOK
        <3>2. CASE ~expiredProof(h)
            BY Zenon, <2>3, <3>2 DEF IInv, TypeOK
        <3> QED
            BY Zenon, <3>1, <3>2
    <2>5. \/ current # None /\ ~expiredProof(h) /\ UNCHANGED <<current, proofs>>
          \/ current' = None /\ proofs' = kept
          \/ \E d \in Deadlines :
                /\ nextUnproved(d, h)
                /\ FreeIds(proofs) # {}
                /\ current' = FreeId(proofs)
                /\ proofs' = [kept EXCEPT ![FreeId(proofs)] = [d |-> d, aborted |-> FALSE]]
        BY Zenon, <1>1, <2>1, <2>3 DEF proverHeadChange
    <2>6. /\ current' \in Ids \cup {None}
          /\ proofs' \in [Ids -> Proofs \cup {None}]
          /\ ProverInv'
        <3>1. CASE current # None /\ ~expiredProof(h) /\ UNCHANGED <<current, proofs>>
            <4>1. proofs[current] \in Proofs /\ ~proofs[current].aborted
                BY Zenon, <1>1, <3>1 DEF IInv, TypeOK, ProverInv, proverHeadChange
            <4>2. h < Close(proofs[current].d)
                <5>1. proofs[current].d \in Deadlines
                    BY Zenon, <4>1 DEF Proofs
                <5>2. Close(proofs[current].d) \in Nat /\ h \in Nat
                    BY Zenon, <5>1, Numbers
                <5>3. ~(h >= Close(proofs[current].d))
                    BY Zenon, <3>1 DEF expiredProof
                <5> QED
                    BY ONLY <5>2, <5>3
            <4> QED
                BY Zenon, <2>2, <3>1, <4>1, <4>2, NoneIsNone DEF IInv, TypeOK, ProverInv
        <3>2. CASE current' = None /\ proofs' = kept
            BY Zenon, <2>4, <3>2 DEF ProverInv
        <3>3. ASSUME NEW d \in Deadlines, nextUnproved(d, h), FreeIds(proofs) # {},
                     current' = FreeId(proofs),
                     proofs' = [kept EXCEPT ![FreeId(proofs)] = [d |-> d, aborted |-> FALSE]]
              PROVE  /\ current' \in Ids \cup {None}
                     /\ proofs' \in [Ids -> Proofs \cup {None}]
                     /\ ProverInv'
            <4>1. current' \in Ids
                BY Zenon, <3>3, FreeIdIsFree
            <4>2. [d |-> d, aborted |-> FALSE] \in Proofs
                BY Zenon DEF Proofs
            <4>3. /\ proofs' \in [Ids -> Proofs \cup {None}]
                  /\ proofs'[current'] = [d |-> d, aborted |-> FALSE]
                BY Zenon, <2>4, <3>3, <4>1, <4>2
            <4>4. h < Close(d)
                BY Zenon, <3>3, OpenDeadline
            <4>5. proofs'[current'].d = d /\ ~proofs'[current'].aborted
                BY <4>3
            <4>6. proofs'[current'] # None
                BY Zenon, <4>2, <4>3, NoneIsNone
            <4> QED
                BY Zenon, <2>2, <4>1, <4>3, <4>4, <4>5, <4>6 DEF ProverInv, Close
        <3> QED
            BY Zenon, <2>5, <3>1, <3>2, <3>3
    <2>7. TypeOK'
        BY Zenon, <1>1, <2>2, <2>6 DEF IInv, TypeOK, proverHeadChange
    <2>8. WindowsInv' /\ NoLostProof'
        BY <1>1 DEF IInv, WindowsInv, NoLostProof, Tracked, Timely, proverHeadChange
    <2> QED
        BY Zenon, <2>6, <2>7, <2>8 DEF IInv
<1>2. ASSUME NEW i \in Ids, proverFailed(i) PROVE IInv'
    <2>1. TypeOK'
        BY Zenon, <1>2 DEF IInv, TypeOK, proverFailed
    <2>2. ProverInv'
        BY Zenon, <1>2 DEF IInv, TypeOK, ProverInv, proverFailed
    <2>3. WindowsInv' /\ NoLostProof'
        BY <1>2 DEF IInv, WindowsInv, NoLostProof, Tracked, Timely, proverFailed
    <2> QED
        BY Zenon, <2>1, <2>2, <2>3 DEF IInv
<1>3. ASSUME NEW i \in Ids, NEW result \in {"empty", "posts"}, proverDone(i, result)
      PROVE  IInv'
    <2>1. PICK d \in Deadlines : d = proofs[i].d
        BY Zenon, <1>3 DEF proverDone, IInv, TypeOK, Proofs
    <2>2. added' = Append(added, d) /\ added \in Seq(Deadlines)
        BY Zenon, <1>3, <2>1 DEF proverDone, IInv, TypeOK
    <2>3. TypeOK'
        BY <1>3, <2>1, <2>2 DEF IInv, TypeOK, proverDone
    <2>4. ProverInv' /\ WindowsInv'
        BY <1>3 DEF IInv, ProverInv, WindowsInv, Tracked, Timely, proverDone
    <2>5. NoLostProof'
        <3>1. \A j \in DOMAIN added : j \in DOMAIN added' /\ added'[j] = added[j]
            BY <2>2
        <3>2. \E j \in DOMAIN added' : added'[j] = d
            BY <2>2
        <3>3. \A e \in Deadlines : e # d => cache'[e] = cache[e]
            BY Zenon, <1>3, <2>1 DEF proverDone, IInv, TypeOK
        <3> QED
            BY <1>3, <3>1, <3>2, <3>3 DEF IInv, NoLostProof, proverDone
    <2> QED
        BY Zenon, <2>3, <2>4, <2>5 DEF IInv
<1> QED
    BY Zenon, <1>1, <1>2, <1>3

(* The submitter's steps start and end submissions as the windows say, and *)
(* leave no proof behind that the height allows to submit.                 *)
LEMMA SubmitterHeadChange == ASSUME IInv, submitterHeadChange PROVE IInv'
<1>1. PICK h \in Heights : h = hc.advance /\ currentTS' = h
    BY Zenon DEF submitterHeadChange, IInv, TypeOK, HeadChanges
<1>2. h \in Int /\ h # None
    BY Numbers, NoneIsNone
<1>3. PICK tracked :
          tracked = [win EXCEPT ![StateMinerProvingDeadline(h)].state =
                         IF @ = "Untracked" THEN "Start" ELSE @]
    BY Zenon
<1>4. ASSUME NEW d \in Deadlines
      PROVE  /\ tracked[d] \in Windows
             /\ Tracked(tracked[d])
             /\ tracked[d].subs = win[d].subs
    <2>1. win[d] \in Windows /\ Tracked(win[d])
        BY Zenon DEF IInv, TypeOK, WindowsInv, submitterHeadChange
    <2>2. CASE tracked[d] = win[d]
        BY Zenon, <2>1, <2>2
    <2>3. CASE tracked[d] # win[d]
        <3>1. PICK st : st = IF win[d].state = "Untracked" THEN "Start" ELSE win[d].state
            BY Zenon
        <3>2. tracked[d] = [win[d] EXCEPT !.state = st]
            BY Zenon, <1>3, <2>3, <3>1 DEF IInv, TypeOK
        <3> QED
            BY <2>1, <3>1, <3>2 DEF Windows, Tracked
    <2> QED
        BY Zenon, <2>2, <2>3
<1>5. win' = [d \in Deadlines |->
                 IF tracked[d].state = "Untracked" THEN tracked[d]
                 ELSE processHeadChangeForPW(tracked[d], hc.revert, h, d)]
    BY <1>1, <1>3 DEF submitterHeadChange
<1>6. ASSUME NEW d \in Deadlines
      PROVE  /\ win'[d] \in Windows
             /\ Tracked(win'[d])
             /\ Timely(win'[d], h, d)
             /\ Served(win'[d], h, d)
    <2>1. CASE tracked[d].state = "Untracked"
        BY Zenon, <1>4, <1>5, <2>1 DEF Timely, Served
    <2>2. CASE tracked[d].state # "Untracked"
        <3>1. FreeIds(tracked[d].subs) # {}
            BY Zenon, <1>4 DEF submitterHeadChange
        <3>2. win'[d] = processHeadChangeForPW(tracked[d], hc.revert, h, d)
            BY Zenon, <1>5, <2>2
        <3>3. d \in Int
            BY Numbers
        <3> QED
            BY Zenon, <1>2, <1>4, <3>1, <3>2, <3>3, HeadChangeKeeps
    <2> QED
        BY Zenon, <2>1, <2>2
<1>7. win' \in [Deadlines -> Windows]
    BY Zenon, <1>5, <1>6
<1>8. TypeOK'
    BY Zenon, <1>1, <1>7 DEF IInv, TypeOK, submitterHeadChange
<1>9. WindowsInv'
    BY Zenon, <1>1, <1>2, <1>6 DEF WindowsInv
<1>10. ProverInv'
    BY Zenon, <1>1, <1>2 DEF IInv, ProverInv, submitterHeadChange
<1>11. NoLostProof'
    <2>1. cache' = cache
        BY Zenon DEF submitterHeadChange
    <2> QED
        BY Zenon, <1>1, <1>6, <2>1 DEF NoLostProof, Served
<1> QED
    BY Zenon, <1>8, <1>9, <1>10, <1>11 DEF IInv

(* A proof that is announced is submitted at once if the height allows it. *)
LEMMA PostReady == ASSUME IInv, processPostReady PROVE IInv'
<1>1. PICK d \in Deadlines : d = Head(added)
    BY DEF processPostReady, IInv, TypeOK
<1>2. added \in Seq(Deadlines) /\ added # <<>> /\ added' = Tail(added)
    BY Zenon DEF processPostReady, IInv, TypeOK
<1>3. win[d] \in Windows /\ Tracked(win[d]) /\ FreeIds(win[d].subs) # {}
    BY Zenon, <1>1 DEF processPostReady, IInv, TypeOK, WindowsInv
<1>4. ASSUME NEW e \in Deadlines, e # d PROVE win'[e] = win[e]
    BY Zenon, <1>1, <1>4 DEF processPostReady, IInv, TypeOK
<1>5. /\ win'[d] \in Windows
      /\ Tracked(win'[d])
      /\ Timely(win'[d], currentTS, d)
      /\ Served(win'[d], currentTS, d)
      /\ win'[d].state # "Untracked" => currentTS # None
    <2>1. CASE win[d].state = "Untracked"
        BY Zenon, <1>1, <1>3, <2>1 DEF processPostReady, Timely, Served
    <2>2. CASE win[d].state # "Untracked"
        <3>1. currentTS \in Int /\ currentTS # None /\ d \in Int
            BY <1>1, <2>2, Numbers DEF processPostReady, IInv, TypeOK, WindowsInv
        <3>2. win'[d] = submitIfReady(win[d], currentTS, d)
            BY Zenon, <1>1, <2>2 DEF processPostReady, IInv, TypeOK
        <3>3. Timely(win[d], currentTS, d)
            BY Zenon DEF processPostReady, IInv, WindowsInv
        <3> QED
            BY Zenon, <1>3, <3>1, <3>2, <3>3, SubmitIfReadyKeeps
    <2> QED
        BY Zenon, <2>1, <2>2
<1>6. win' \in [Deadlines -> Windows]
    BY Zenon, <1>1, <1>3, <1>5 DEF processPostReady, IInv, TypeOK
<1>7. TypeOK'
    BY <1>2, <1>6 DEF processPostReady, IInv, TypeOK
<1>8. WindowsInv'
    <2> SUFFICES ASSUME NEW e \in Deadlines
                 PROVE  /\ Tracked(win'[e])
                        /\ win'[e].state # "Untracked" => currentTS # None
                        /\ Timely(win'[e], currentTS, e)
        BY Zenon DEF WindowsInv, processPostReady
    <2> QED
        BY Zenon, <1>4, <1>5 DEF IInv, WindowsInv, processPostReady
<1>9. ProverInv'
    BY Zenon DEF IInv, ProverInv, processPostReady
<1>10. NoLostProof'
    <2>1. ASSUME NEW e \in Deadlines, e # d, \E i \in DOMAIN added : added[i] = e
          PROVE  \E i \in DOMAIN added' : added'[i] = e
        <3>1. PICK i \in DOMAIN added : added[i] = e
            BY Zenon, <2>1
        <3>2. i \in 2 .. Len(added)
            BY <1>1, <1>2, <2>1, <3>1
        <3>3. i - 1 \in DOMAIN added' /\ added'[i - 1] = e
            BY <1>2, <3>1, <3>2
        <3> QED
            BY Zenon, <3>3
    <2>2. cache' = cache /\ currentTS' = currentTS
        BY Zenon DEF processPostReady
    <2> QED
        BY Zenon, <1>4, <1>5, <2>1, <2>2 DEF IInv, NoLostProof, Served
<1> QED
    BY <1>7, <1>8, <1>9, <1>10 DEF IInv

(* The result of a submission, also of one that was aborted long before,   *)
(* changes nothing but its own window.                                     *)
LEMMA SubmitResult ==
    ASSUME IInv, NEW d \in Deadlines, NEW id \in Ids, NEW ok \in BOOLEAN,
           processSubmitResult(d, id, ok)
    PROVE  IInv'
<1>1. win[d] \in Windows /\ Tracked(win[d])
    BY Zenon DEF processSubmitResult, IInv, TypeOK, WindowsInv
<1>2. PICK sw : sw = [setSubmitState(win[d], id, ok) EXCEPT !.subs[id] = None]
    BY Zenon
<1>3. win' = [win EXCEPT ![d] = sw]
    BY Zenon, <1>2 DEF processSubmitResult
<1>4. /\ sw \in Windows
      /\ Tracked(sw)
      /\ sw.state = "Submitting" => win[d].state = "Submitting"
      /\ sw.state # "Untracked" => win[d].state # "Untracked"
      /\ sw.state = "Start" =>
             sw.failed \/ (win[d].state = "Start" /\ sw.failed = win[d].failed)
    BY <1>1, <1>2, ResultKeeps
<1>5. win'[d] = sw /\ \A e \in Deadlines : e # d => win'[e] = win[e]
    BY Zenon, <1>3 DEF IInv, TypeOK
<1>6. TypeOK'
    BY Zenon, <1>3, <1>4 DEF IInv, TypeOK, processSubmitResult
<1>7. WindowsInv'
    <2> SUFFICES ASSUME NEW e \in Deadlines
                 PROVE  /\ Tracked(win'[e])
                        /\ win'[e].state # "Untracked" => currentTS # None
                        /\ Timely(win'[e], currentTS, e)
        BY Zenon DEF WindowsInv, processSubmitResult
    <2> QED
        BY Zenon, <1>4, <1>5 DEF IInv, WindowsInv, Timely, processSubmitResult
<1>8. ProverInv'
    BY Zenon DEF IInv, ProverInv, processSubmitResult
<1>9. NoLostProof'
    <2>1. UNCHANGED <<cache, currentTS, added>>
        BY Zenon DEF processSubmitResult
    <2> QED
        BY Zenon, <1>4, <1>5, <2>1 DEF IInv, NoLostProof
<1> QED
    BY Zenon, <1>6, <1>7, <1>8, <1>9 DEF IInv

(* Shutting down aborts everything and changes the state of no window. *)
LEMMA Shutdown == ASSUME IInv, shutdown PROVE IInv'
<1>1. ASSUME NEW d \in Deadlines
      PROVE  /\ win'[d] \in Windows
             /\ win'[d].state = win[d].state /\ win'[d].failed = win[d].failed
    <2>1. win[d] \in Windows
        BY Zenon DEF IInv, TypeOK
    <2>2. PICK f : f = [i \in Ids |-> IF win[d].subs[i] = None THEN None ELSE "aborted"]
        BY Zenon
    <2>3. f \in [Ids -> {None, "live", "aborted"}]
        BY Zenon, <2>2
    <2>4. win'[d] = [win[d] EXCEPT !.subs = f]
        BY Zenon, <2>1, <2>2 DEF shutdown, Windows
    <2> QED
        BY Zenon, <2>1, <2>3, <2>4 DEF Windows
<1>2. win' \in [Deadlines -> Windows]
    <2>1. win' = [d \in Deadlines |-> win'[d]]
        BY Zenon DEF shutdown
    <2> QED
        BY Zenon, <1>1, <2>1
<1>3. proofs' \in [Ids -> Proofs \cup {None}]
    BY Zenon DEF shutdown, IInv, TypeOK, Proofs
<1>4. TypeOK'
    BY Zenon, <1>2, <1>3 DEF IInv, TypeOK, shutdown
<1>5. NoLostProof'
    <2>1. UNCHANGED <<cache, currentTS, added>>
        BY Zenon DEF shutdown
    <2> QED
        BY Zenon, <1>1, <2>1 DEF IInv, NoLostProof
<1> QED
    BY Zenon, <1>4, <1>5 DEF IInv, shutdown

(* The invariant holds in every reachable state. *)
THEOREM Invariance == Spec => []IInv
<1>1. Init => IInv
    <2> SUFFICES ASSUME Init PROVE IInv
        BY Zenon
    <2>1. Untracked \in Windows
        BY Zenon DEF Untracked, Windows
    <2>2. TypeOK
        <3>1. head \in Heights /\ reorgs \in 0 .. MaxReorgs /\ missed \in 0 .. MaxMissed
            BY DEF Init, Heights
        <3>2. win \in [Deadlines -> Windows] /\ added \in Seq(Deadlines)
            BY <2>1 DEF Init
        <3> QED
            BY Zenon, <3>1, <3>2 DEF Init, TypeOK
    <2>3. Tracked(Untracked) /\ Untracked.state = "Untracked"
        BY Zenon, NoneIsNone DEF Untracked, Tracked
    <2>4. WindowsInv /\ ProverInv /\ NoLostProof
        BY Zenon, <2>3 DEF Init, WindowsInv, ProverInv, NoLostProof, Timely
    <2> QED
        BY Zenon, <2>2, <2>4 DEF IInv
<1>2. IInv /\ [Next]_vars => IInv'
    <2> SUFFICES ASSUME IInv, [Next]_vars PROVE IInv'
        BY Zenon
    <2>1. CASE UNCHANGED vars
        <3>1. TypeOK' /\ NoLostProof'
            BY Zenon, <2>1 DEF vars, IInv, TypeOK, NoLostProof
        <3>2. ~stopped' => WindowsInv'
            BY Zenon, <2>1 DEF vars, IInv, WindowsInv, Tracked, Timely
        <3>3. ~stopped' => ProverInv'
            BY Zenon, <2>1 DEF vars, IInv, ProverInv
        <3> QED
            BY Zenon, <3>1, <3>2, <3>3 DEF IInv
    <2> QED
        BY Zenon, <2>1, ChainStep, ProverStep, SubmitterHeadChange, PostReady,
           SubmitResult, Shutdown DEF Next
<1> QED
    BY <1>1, <1>2, PTL DEF Spec

(* The type invariant holds in every reachable state. *)
THEOREM TypeCorrect == Spec => []TypeOK
<1>1. IInv => TypeOK
    BY DEF IInv
<1> QED
    BY <1>1, Invariance, PTL

(* processSubmitResult and processHeadChangeForPW: a window in state       *)
(* Submitting has exactly the live submission it points to.                *)
THEOREM SubmissionsAreTracked == Spec => []SubmittingTracked
<1>1. ASSUME IInv PROVE SubmittingTracked
    <2> SUFFICES ASSUME ~stopped, NEW d \in Deadlines
                 PROVE  {i \in Ids : win[d].subs[i] = "live"} =
                            IF win[d].state = "Submitting" THEN {win[d].sub} ELSE {}
        BY Zenon DEF SubmittingTracked
    <2>1. Tracked(win[d])
        BY Zenon, <1>1 DEF IInv, WindowsInv
    <2>2. win[d].sub \in Ids \cup {None}
        BY Zenon, <1>1 DEF IInv, TypeOK, Windows
    <2>3. {i \in Ids : win[d].subs[i] = "live"} = {i \in Ids : win[d].sub = i}
        BY Zenon, <2>1 DEF Tracked
    <2>4. CASE win[d].state = "Submitting"
        BY Zenon, <2>1, <2>2, <2>3, <2>4 DEF Tracked
    <2>5. CASE win[d].state # "Submitting"
        BY Zenon, <2>1, <2>3, <2>5, NoneIsNone DEF Tracked
    <2> QED
        BY <2>4, <2>5
<1> QED
    BY <1>1, Invariance, PTL

(* processPostReady: a proof that the height allows to submit is not       *)
(* forgotten.                                                              *)
THEOREM ProofsAreSubmitted == Spec => []NoLostProof
<1>1. IInv => NoLostProof
    BY DEF IInv
<1> QED
    BY <1>1, Invariance, PTL

(* processHeadChange of both loops: what belongs to a closed window was    *)
(* aborted.                                                                *)
THEOREM ExpiredIsAborted == Spec => []ExpiredAborted
<1>1. IInv => ExpiredAborted
    BY NoneIsNone DEF IInv, TypeOK, Windows, WindowsInv, Tracked, Timely,
                      ProverInv, ExpiredAborted
<1> QED
    BY <1>1, Invariance, PTL

(* processPostResult: the prover waits only for a proof that is running. *)
THEOREM ProverWaitsForRunning == Spec => []CurrentIsRunning
<1>1. IInv => CurrentIsRunning
    BY DEF IInv, ProverInv, CurrentIsRunning
<1> QED
    BY <1>1, Invariance, PTL

-----------------------------------------------------------------------------
(* Reverts.                                                                *)

(* The window counts as submitted, or is about to. *)
Counts(pw) == pw.state \in {"Submitting", "Complete"}

Fresh(pw) == Counts(pw) => ~pw.stale

(* A window that counts as submitted on a reverted chain is about to learn *)
(* of the revert, if no head change was missed.                            *)
RevertInv ==
    ~stopped /\ missed = 0 =>
        \A d \in Deadlines :
            Fresh(win[d]) \/ (hc # None /\ hc.revert # None /\ hc.revert < d)

(* submitIfReady makes a window count only when it submits it now. *)
LEMMA SubmitIfReadyFresh ==
    ASSUME NEW pw \in Windows, Fresh(pw), NEW h, NEW d
    PROVE  Fresh(submitIfReady(pw, h, d))
<1>1. CASE submitIfReady(pw, h, d) = pw
    BY Zenon, <1>1
<1>2. CASE submitIfReady(pw, h, d) # pw
    <2>1. submitIfReady(pw, h, d).stale = FALSE
        BY Zenon, <1>2 DEF submitIfReady, Windows
    <2> QED
        BY Zenon, <2>1 DEF Fresh
<1> QED
    BY Zenon, <1>1, <1>2

(* The head change with the revert starts the window afresh. *)
LEMMA HeadChangeFresh ==
    ASSUME NEW pw \in Windows, Tracked(pw), NEW revert, NEW h \in Int, NEW d \in Int,
           Fresh(pw) \/ (revert # None /\ revert < d)
    PROVE  Fresh(processHeadChangeForPW(pw, revert, h, d))
<1>1. PICK fw : fw = [pw EXCEPT !.failed = FALSE]
    BY Zenon
<1>2. /\ fw \in Windows /\ Tracked(fw)
      /\ Fresh(fw) \/ (revert # None /\ revert < d)
    BY Zenon, <1>1 DEF Windows, Tracked, Fresh, Counts
<1>3. PICK rw : rw = resetWindow(fw, revert, h, d)
    BY Zenon
<1>4. rw \in Windows
    BY Zenon, <1>2, <1>3, ResetWindowKeeps
<1>5. Fresh(rw)
    <2>1. CASE rw = fw
        BY <1>2, <1>3, <2>1 DEF resetWindow, Fresh, Counts, Windows
    <2>2. CASE rw # fw
        <3>1. rw.state = "Start"
            BY Zenon, <1>2, <1>3, <2>2 DEF resetWindow, Windows
        <3> QED
            BY Zenon, <3>1 DEF Fresh, Counts
    <2> QED
        BY Zenon, <2>1, <2>2
<1>6. processHeadChangeForPW(pw, revert, h, d) = submitIfReady(rw, h, d)
    BY Zenon, <1>1, <1>3 DEF processHeadChangeForPW
<1> QED
    BY Zenon, <1>4, <1>5, <1>6, SubmitIfReadyFresh

(* Every step keeps it.  A revert and its head change are one step, and    *)
(* the next one waits until the submitter has seen it.                     *)
LEMMA RevertStep == ASSUME IInv, RevertInv, [Next]_vars PROVE RevertInv'
<1> SUFFICES ASSUME ~stopped', missed' = 0, NEW d \in Deadlines
             PROVE  Fresh(win'[d]) \/ (hc' # None /\ hc'.revert # None /\ hc'.revert < d)
    BY Zenon DEF RevertInv
<1> DEFINE Told == hc # None /\ hc.revert # None /\ hc.revert < d
<1>1. win[d] \in Windows /\ missed \in Nat
    BY DEF IInv, TypeOK
<1>2. ASSUME ~stopped, missed = 0 PROVE Fresh(win[d]) \/ Told
    BY Zenon, <1>2 DEF RevertInv
<1>3. CASE applyTipSet
    BY Zenon, <1>2, <1>3 DEF applyTipSet, update, miss, RevertInv
<1>4. CASE reorganise
    <2>1. PICK r, h \in Heights : markReverted(r) /\ update(r, h)
        BY Zenon, <1>4 DEF reorganise, newChain
    <2>2. r # None
        BY Zenon, Numbers, NoneIsNone
    <2>3. missed' = missed /\ hc' = [to |-> "prove", revert |-> r, advance |-> h]
        BY <1>1, <2>1, <2>2 DEF update, miss
    <2>4. hc' # None /\ hc'.revert = r
        <3>1. hc' \in HeadChanges
            BY Zenon, <2>3 DEF HeadChanges
        <3> QED
            BY Zenon, <2>3, <3>1, NoneIsNone
    <2>5. CASE r < d
        BY Zenon, <2>2, <2>4, <2>5
    <2>6. CASE ~(r < d)
        <3>1. Fresh(win[d])
            BY Zenon, <1>2, <1>4, <2>3 DEF reorganise
        <3>2. win'[d] = [win[d] EXCEPT !.stale = @ \/ (r < d /\ win[d].state # "Untracked")]
            BY Zenon, <2>1 DEF markReverted
        <3>3. win'[d].state = win[d].state /\ (win'[d].stale => win[d].stale)
            BY Zenon, <1>1, <2>6, <3>2 DEF Windows
        <3> QED
            BY Zenon, <3>1, <3>3 DEF Fresh, Counts
    <2> QED
        BY Zenon, <2>5, <2>6
<1>5. CASE reconnect \/ setBack \/ updateFails
    BY <1>1, <1>5 DEF reconnect, setBack, updateFails, miss
<1>6. CASE proverHeadChange
    <2>1. /\ hc # None /\ win' = win /\ ~stopped /\ missed = 0
          /\ hc' = [hc EXCEPT !.to = "submit"] /\ hc \in HeadChanges
        BY Zenon, <1>6 DEF proverHeadChange, IInv, TypeOK
    <2>2. hc' \in HeadChanges /\ hc'.revert = hc.revert
        BY Zenon, <2>1 DEF HeadChanges
    <2> QED
        BY Zenon, <1>2, <2>1, <2>2, NoneIsNone
<1>7. ASSUME NEW i \in Ids, NEW result,
             proverFailed(i) \/ proverDone(i, result)
      PROVE  Fresh(win'[d]) \/ (hc' # None /\ hc'.revert # None /\ hc'.revert < d)
    BY Zenon, <1>2, <1>7 DEF proverFailed, proverDone
<1>8. CASE submitterHeadChange
    <2>1. PICK h \in Heights : h = hc.advance
        BY Zenon, <1>8 DEF submitterHeadChange, IInv, TypeOK, HeadChanges
    <2>2. h \in Int /\ d \in Int
        BY Numbers
    <2>3. PICK tracked :
              tracked = [win EXCEPT ![StateMinerProvingDeadline(h)].state =
                             IF @ = "Untracked" THEN "Start" ELSE @]
        BY Zenon
    <2>4. PICK tw : tw = tracked[d]
        BY Zenon
    <2>5. Tracked(win[d])
        BY Zenon, <1>8 DEF submitterHeadChange, IInv, WindowsInv
    <2>6. tw \in Windows /\ Tracked(tw) /\ (Fresh(tw) \/ Told)
        <3>1. CASE tw = win[d]
            BY Zenon, <1>1, <1>2, <1>8, <2>5, <3>1 DEF submitterHeadChange
        <3>2. CASE tw # win[d]
            <4>1. PICK st : st = IF win[d].state = "Untracked" THEN "Start" ELSE win[d].state
                BY Zenon
            <4>2. tw = [win[d] EXCEPT !.state = st]
                BY Zenon, <2>3, <2>4, <3>2, <4>1 DEF IInv, TypeOK
            <4>3. win[d].state = "Untracked"
                BY Zenon, <1>1, <3>2, <4>1, <4>2 DEF Windows
            <4> QED
                BY Zenon, <1>1, <2>5, <4>1, <4>2, <4>3 DEF Windows, Tracked, Fresh, Counts
        <3> QED
            BY Zenon, <3>1, <3>2
    <2>7. win'[d] = IF tw.state = "Untracked" THEN tw
                    ELSE processHeadChangeForPW(tw, hc.revert, h, d)
        BY <1>8, <2>1, <2>3, <2>4 DEF submitterHeadChange
    <2>8. CASE tw.state = "Untracked"
        BY Zenon, <2>7, <2>8 DEF Fresh, Counts
    <2>9. CASE tw.state # "Untracked"
        BY Zenon, <2>2, <2>6, <2>7, <2>9, HeadChangeFresh
    <2> QED
        BY Zenon, <2>8, <2>9
<1>9. CASE processPostReady
    <2>1. win'[d] = win[d] \/ win'[d] = submitIfReady(win[d], currentTS, d)
        BY Zenon, <1>9 DEF processPostReady, IInv, TypeOK
    <2>2. hc' = hc /\ ~stopped /\ missed = 0
        BY Zenon, <1>9 DEF processPostReady
    <2> QED
        BY Zenon, <1>1, <1>2, <2>1, <2>2, SubmitIfReadyFresh
<1>10. ASSUME NEW e \in Deadlines, NEW id \in Ids, NEW ok \in BOOLEAN,
              processSubmitResult(e, id, ok)
       PROVE  Fresh(win'[d]) \/ (hc' # None /\ hc'.revert # None /\ hc'.revert < d)
    <2>1. hc' = hc /\ ~stopped /\ missed = 0
        BY Zenon, <1>10 DEF processSubmitResult
    <2>2. CASE d # e
        BY Zenon, <1>2, <1>10, <2>1, <2>2 DEF processSubmitResult, IInv, TypeOK
    <2>3. CASE d = e
        <3>1. PICK mw : mw = setSubmitState(win[d], id, ok)
            BY Zenon
        <3>2. win'[d] = [mw EXCEPT !.subs[id] = None]
            BY Zenon, <1>10, <2>3, <3>1 DEF processSubmitResult, IInv, TypeOK
        <3>3. Tracked(win[d])
            BY Zenon, <1>10 DEF processSubmitResult, IInv, WindowsInv
        <3>4. /\ mw.stale = win[d].stale /\ (Counts(mw) => Counts(win[d]))
              /\ DOMAIN mw = {"state", "sub", "subs", "failed", "stale"}
            BY <1>1, <3>1, <3>3, NoneIsNone
               DEF setSubmitState, Windows, Tracked, Counts
        <3>5. win'[d].stale = mw.stale /\ win'[d].state = mw.state
            BY Zenon, <3>2, <3>4
        <3> QED
            BY Zenon, <1>2, <2>1, <3>4, <3>5 DEF Fresh, Counts
    <2> QED
        BY Zenon, <2>2, <2>3
<1>11. CASE shutdown
    BY Zenon, <1>11 DEF shutdown
<1>12. CASE UNCHANGED vars
    BY Zenon, <1>2, <1>12 DEF vars
<1> QED
    BY Zenon, <1>3, <1>4, <1>5, <1>6, <1>7, <1>8, <1>9, <1>10, <1>11, <1>12 DEF Next

(* processHeadChangeForPW: as long as no head change was missed, no window *)
(* counts as submitted on a chain that was reverted to before it opened.   *)
THEOREM RevertsAreResubmitted == Spec => []SeenRevertResubmits
<1>1. Init => RevertInv
    BY DEF Init, RevertInv, Fresh, Counts, Untracked
<1>2. RevertInv => SeenRevertResubmits
    BY DEF RevertInv, SeenRevertResubmits, RevertResubmits, Fresh, Counts
<1> QED
    BY <1>1, <1>2, Invariance, RevertStep, PTL DEF Spec
=============================================================================
