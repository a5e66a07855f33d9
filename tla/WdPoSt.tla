------------------------------- MODULE WdPoSt -------------------------------
(***************************************************************************)
(* The window PoSt change handler (storage/wdpost/wdpost_changehandler.go) *)
(* and the loop that feeds it (wdpost_sched.go).                           *)
(*                                                                         *)
(* The scheduler's Run goroutine passes every head change first to the     *)
(* prove goroutine, then to the submit goroutine.  The prover starts proof *)
(* goroutines and puts their results in the posts cache; the submitter     *)
(* starts submit goroutines for cached proofs.  A proof or a submission    *)
(* that was aborted may still return, with or without an error, long       *)
(* after another one was started.                                          *)
(*                                                                         *)
(* Abstractions.  A tipset is its height and a deadline the epoch it opens *)
(* at, which is the key of both maps of the code.  A proof that proves     *)
(* nothing (no partitions) is "empty", any other is "posts".  The capacity *)
(* of the channel of added proofs (16) is never reached and left out, and  *)
(* so are the journal and the requests that only read (getPostWindow,      *)
(* currentTSDI).  The chain is external: it grows, reorganises, is set     *)
(* back, and its notification channel can break.  `missed` counts the head *)
(* changes with reverts that never reach the two loops.                    *)
(***************************************************************************)
EXTENDS Integers, Sequences, FiniteSets

CONSTANTS
    ChallengeWindow,      \* epochs in a deadline
    ChallengeLookback,    \* the challenge is this long before the opening
    SubmitConfidence,     \* 4 in the code
    ChallengeConfidence,  \* 1 in the code
    ProvingStart,         \* the miner's first proving period
    MaxHeight,            \* bound: heights of the chain
    MaxReorgs,            \* bound: reorganisations
    MaxMissed,            \* bound: head changes that get lost
    Ids,                  \* proof goroutines, and submissions of a window
    None

ASSUME ConstantsAssumption ==
    /\ ChallengeWindow \in Nat \ {0}
    /\ ChallengeLookback \in 0 .. ChallengeWindow - 1
    /\ SubmitConfidence \in Nat
    /\ ChallengeConfidence \in Nat
    /\ ProvingStart \in Nat /\ MaxHeight \in Nat
    /\ MaxReorgs \in Nat /\ MaxMissed \in Nat
    /\ Ids \subseteq Nat

VARIABLES
    head,        \* height of the node's chain (external)
    reorgs, missed,
    hc,          \* the head change Run is handing over, or None
    current,     \* the proof the prover is waiting for, or None
    proofs,      \* proof goroutines that have not reported yet
    cache,       \* postsCache.cache
    added,       \* postsCache.added
    win,         \* postWindows, with the submissions of each window
    currentTS,   \* height of the tipset the submitter saw last, or None
    stopped      \* Run has returned

vars == <<head, reorgs, missed, hc, current, proofs, cache, added, win,
          currentTS, stopped>>

Heights == 0 .. MaxHeight

-----------------------------------------------------------------------------
(* Deadlines, named by their opening epoch.                                *)

Close(d) == d + ChallengeWindow

Challenge(d) == d - ChallengeLookback

(* StateMinerProvingDeadline: the deadline that is open at height h. *)
StateMinerProvingDeadline(h) ==
    h - ((h - ProvingStart) % ChallengeWindow)

(* The deadlines that nextDeadline steps through. *)
Deadlines ==
    {d \in ProvingStart .. MaxHeight + 2 * ChallengeWindow :
        (d - ProvingStart) % ChallengeWindow = 0}

-----------------------------------------------------------------------------

Untracked ==
    [state |-> "Untracked", sub |-> None, subs |-> [i \in Ids |-> None],
     failed |-> FALSE, stale |-> FALSE]

Windows ==
    [state  : {"Untracked", "Start", "Submitting", "Complete"},
     sub    : Ids \cup {None},                        \* pointed to by abort
     subs   : [Ids -> {None, "live", "aborted"}],     \* submit goroutines
     failed : BOOLEAN,   \* auxiliary: failed since the last head change
     stale  : BOOLEAN]   \* auxiliary: last submitted before a revert

Proofs == [d : Deadlines, aborted : BOOLEAN]

HeadChanges ==
    [to : {"prove", "submit"}, revert : Heights \cup {None}, advance : Heights]

ASSUME NoneAssumption ==
    None \notin Nat \cup Proofs \cup HeadChanges \cup {"live", "aborted"}

TypeOK ==
    /\ head \in Heights
    /\ reorgs \in 0 .. MaxReorgs /\ missed \in 0 .. MaxMissed
    /\ hc \in HeadChanges \cup {None}
    /\ current \in Ids \cup {None}
    /\ proofs \in [Ids -> Proofs \cup {None}]
    /\ cache \in [Deadlines -> {"none", "empty", "posts"}]
    /\ added \in Seq(Deadlines)
    /\ win \in [Deadlines -> Windows]
    /\ currentTS \in Heights \cup {None}
    /\ stopped \in BOOLEAN

Init ==
    /\ head = 0
    /\ reorgs = 0 /\ missed = 0
    /\ hc = None
    /\ current = None
    /\ proofs = [i \in Ids |-> None]
    /\ cache = [d \in Deadlines |-> "none"]
    /\ added = <<>>
    /\ win = [d \in Deadlines |-> Untracked]
    /\ currentTS = None
    /\ stopped = FALSE

-----------------------------------------------------------------------------
(* The chain and the scheduler's Run loop: update(revert, advance).        *)

(* Mark the windows that a revert down to height r takes off the chain. *)
markReverted(r) ==
    win' = [d \in Deadlines |->
               [win[d] EXCEPT !.stale = @ \/ (r < d /\ win[d].state # "Untracked")]]

(* A head change is lost to both loops. *)
miss == missed < MaxMissed /\ missed' = missed + 1                   \* bound

update(revert, advance) ==
    \/ /\ advance >= ProvingStart
       /\ hc' = [to |-> "prove", revert |-> revert, advance |-> advance]
       /\ UNCHANGED missed
    \/ /\ advance < ProvingStart                 \* not proving anything yet
       /\ IF revert = None THEN UNCHANGED missed ELSE miss
       /\ UNCHANGED hc

applyTipSet ==
    /\ ~stopped /\ hc = None
    /\ \E h \in head + 1 .. head + 2 :           \* there may be a null round
          /\ h <= MaxHeight
          /\ head' = h
          /\ update(None, h)
    /\ UNCHANGED <<reorgs, current, proofs, cache, added, win, currentTS,
                   stopped>>

(* A chain with the lowest reverted tipset at height r gives way to one    *)
(* that ends at height h; its first tipset may be at a null round below r. *)
newChain(r, h) ==
    /\ r <= head
    /\ h >= 1 /\ h >= r - 1 /\ h <= head + 1
    /\ head' = h
    /\ markReverted(r)

reorganise ==
    /\ ~stopped /\ hc = None
    /\ reorgs < MaxReorgs /\ reorgs' = reorgs + 1
    /\ \E r, h \in Heights \ {0} : newChain(r, h) /\ update(r, h)
    /\ UNCHANGED <<current, proofs, cache, added, currentTS, stopped>>

(* The notification channel breaks; by the time Run is connected again the *)
(* chain has been reorganised, and the first notification only tells the   *)
(* current head.                                                           *)
reconnect ==
    /\ ~stopped /\ hc = None
    /\ miss
    /\ \E r, h \in Heights \ {0} :
          /\ newChain(r, h)
          /\ hc' = IF h < ProvingStart THEN None
                   ELSE [to |-> "prove", revert |-> None, advance |-> h]
    /\ UNCHANGED <<reorgs, current, proofs, cache, added, currentTS, stopped>>

(* The head is set back to an ancestor: a notification without an applied  *)
(* tipset, "no new tipset in window post WindowPoStScheduler.update".      *)
setBack ==
    /\ ~stopped /\ hc = None
    /\ miss
    /\ \E r \in 1 .. head :
          /\ head' \in {r - 1, r - 2} \cap Heights
          /\ markReverted(r)
    /\ UNCHANGED <<reorgs, hc, current, proofs, cache, added, currentTS,
                   stopped>>

(* StateMinerProvingDeadline returns an error, which is only logged. *)
updateFails ==
    /\ ~stopped
    /\ hc # None /\ hc.to = "prove"
    /\ miss
    /\ hc' = None
    /\ UNCHANGED <<head, reorgs, current, proofs, cache, added, win, currentTS,
                   stopped>>

-----------------------------------------------------------------------------
(* The prove goroutine.                                                    *)

FreeIds(f) == {i \in Ids : f[i] = None}

FreeId(f) == CHOOSE i \in Ids : f[i] = None

(* d is the deadline open at height h, or the first after it, that has no  *)
(* cached proof.                                                           *)
nextUnproved(d, h) ==
    /\ d >= StateMinerProvingDeadline(h)
    /\ cache[d] = "none"
    /\ \A e \in Deadlines :
           e >= StateMinerProvingDeadline(h) /\ e < d => cache[e] # "none"

(* Mutant of expiredProof: one epoch late. *)
expiredProofLate(h) == current # None /\ h > Close(proofs[current].d)

expiredProof(h) == current # None /\ h >= Close(proofs[current].d)

proverHeadChange ==
    /\ ~stopped
    /\ hc # None /\ hc.to = "prove"
    /\ hc' = [hc EXCEPT !.to = "submit"]
    /\ LET h    == hc.advance
           kept == IF expiredProof(h)
                   THEN [proofs EXCEPT ![current].aborted = TRUE] ELSE proofs
           busy == current # None /\ ~expiredProof(h)
       IN  \/ /\ busy
              /\ UNCHANGED <<current, proofs>>
           \/ \E d \in Deadlines :
                 /\ ~busy /\ nextUnproved(d, h)
                 /\ h < Challenge(d) + ChallengeConfidence
                 /\ current' = None
                 /\ proofs' = kept
           \/ \E d \in Deadlines :
                 /\ ~busy /\ nextUnproved(d, h)
                 /\ h >= Challenge(d) + ChallengeConfidence
                 /\ FreeIds(proofs) # {}         \* bound: proof goroutines
                 /\ current' = FreeId(proofs)
                 /\ proofs' = [kept EXCEPT ![FreeId(proofs)] =
                                   [d |-> d, aborted |-> FALSE]]
    /\ UNCHANGED <<head, reorgs, missed, cache, added, win, currentTS, stopped>>

(* Mutant of proverFailed: a failed proof stays current. *)
proverFailedStuck(i) ==
    /\ ~stopped
    /\ proofs[i] # None
    /\ proofs' = [proofs EXCEPT ![i] = None]
    /\ UNCHANGED <<head, reorgs, missed, hc, current, cache, added, win,
                   currentTS, stopped>>

(* processPostResult with an error *)
proverFailed(i) ==
    /\ ~stopped
    /\ proofs[i] # None
    /\ proofs' = [proofs EXCEPT ![i] = None]
    /\ current' = IF current = i THEN None ELSE current
    /\ UNCHANGED <<head, reorgs, missed, hc, cache, added, win, currentTS,
                   stopped>>

(* processPostResult of a proof, which may have been aborted before *)
proverDone(i, result) ==
    /\ ~stopped
    /\ proofs[i] # None
    /\ proofs' = [proofs EXCEPT ![i] = None]
    /\ current' = None
    /\ cache' = [cache EXCEPT ![proofs[i].d] = result]
    /\ added' = Append(added, proofs[i].d)
    /\ UNCHANGED <<head, reorgs, missed, hc, win, currentTS, stopped>>

-----------------------------------------------------------------------------
(* The submit goroutine.  The operators give the new record of a window.   *)

submitIfReady(pw, h, d) ==
    IF \/ h >= Close(d)
       \/ pw.state # "Start"
       \/ h < d + SubmitConfidence
       \/ cache[d] = "none"
    THEN pw
    ELSE IF cache[d] = "empty"
    THEN [pw EXCEPT !.state = "Complete", !.stale = FALSE]
    ELSE LET id == FreeId(pw.subs)
         IN  [pw EXCEPT !.state = "Submitting", !.sub = id,
                        !.subs[id] = "live", !.stale = FALSE]

(* Mutant of resetWindow: a completed submission is not reset. *)
resetWindowOnlySubmitting(pw, revert, h, d) ==
    LET reverted == revert # None /\ revert < d
    IN  IF pw.state = "Submitting" /\ (reverted \/ h >= Close(d))
        THEN [pw EXCEPT !.state = "Start", !.sub = None,
                        !.subs[pw.sub] = "aborted"]
        ELSE pw

(* A window that was reverted or has expired starts afresh: a new record   *)
(* takes its place, and the old submission is aborted.                     *)
resetWindow(pw, revert, h, d) ==
    LET reverted == revert # None /\ revert < d
    IN  IF pw.state = "Submitting" /\ (reverted \/ h >= Close(d))
        THEN [pw EXCEPT !.state = "Start", !.sub = None,
                        !.subs[pw.sub] = "aborted"]
        ELSE IF pw.state = "Complete" /\ reverted
        THEN [pw EXCEPT !.state = "Start"] ELSE pw

processHeadChangeForPW(pw, revert, h, d) ==
    submitIfReady(resetWindow([pw EXCEPT !.failed = FALSE], revert, h, d), h, d)

submitterHeadChange ==
    /\ ~stopped
    /\ hc # None /\ hc.to = "submit"
    /\ \A d \in Deadlines : FreeIds(win[d].subs) # {}   \* bound: submissions
    /\ hc' = None
    /\ currentTS' = hc.advance
    /\ LET open    == StateMinerProvingDeadline(hc.advance)
           tracked == [win EXCEPT ![open].state =
                           IF @ = "Untracked" THEN "Start" ELSE @]
       IN  win' = [d \in Deadlines |->
                      IF tracked[d].state = "Untracked" THEN tracked[d]
                      ELSE processHeadChangeForPW(tracked[d], hc.revert,
                                                  hc.advance, d)]
    /\ UNCHANGED <<head, reorgs, missed, current, proofs, cache, added, stopped>>

(* Mutant of processPostReady: the notification is ignored. *)
processPostReadyIgnored ==
    /\ ~stopped
    /\ added # <<>>
    /\ added' = Tail(added)
    /\ UNCHANGED <<head, reorgs, missed, hc, current, proofs, cache, win,
                   currentTS, stopped>>

processPostReady ==
    /\ ~stopped
    /\ added # <<>>
    /\ added' = Tail(added)
    /\ LET d == Head(added)
       IN  /\ FreeIds(win[d].subs) # {}          \* bound: submissions
           /\ win' = IF win[d].state = "Untracked" THEN win
                     ELSE [win EXCEPT ![d] = submitIfReady(@, currentTS, d)]
    /\ UNCHANGED <<head, reorgs, missed, hc, current, proofs, cache, currentTS,
                   stopped>>

(* Mutants of setSubmitState: the state of the window that has taken the   *)
(* place of the aborted one is overwritten; a failure has a state of its   *)
(* own.                                                                    *)
setSubmitStateClobber(pw, id, ok) ==
    [pw EXCEPT !.state = IF ok THEN "Complete" ELSE "Start", !.failed = ~ok]
setSubmitStateFailed(pw, id, ok) ==
    IF pw.sub # id THEN pw
    ELSE [pw EXCEPT !.state = IF ok THEN "Complete" ELSE "Failed",
                    !.sub = None, !.failed = ~ok]

(* The result of submission id goes to the window record it was started    *)
(* for, which is no longer in the map if it was aborted.                   *)
setSubmitState(pw, id, ok) ==
    IF pw.sub # id THEN pw
    ELSE [pw EXCEPT !.state = IF ok THEN "Complete" ELSE "Start",
                    !.sub = None, !.failed = ~ok]

processSubmitResult(d, id, ok) ==
    /\ ~stopped
    /\ win[d].subs[id] # None
    /\ win' = [win EXCEPT ![d] =
                  [setSubmitState(@, id, ok) EXCEPT !.subs[id] = None]]
    /\ UNCHANGED <<head, reorgs, missed, hc, current, proofs, cache, added,
                   currentTS, stopped>>

-----------------------------------------------------------------------------
(* Run returns, and both loops end.  Every goroutine's context derives     *)
(* from Run's, so all proofs and submissions are aborted, and a head       *)
(* change being handed over is dropped.                                    *)
shutdown ==
    /\ ~stopped
    /\ stopped' = TRUE
    /\ hc' = None
    /\ proofs' = [i \in Ids |-> IF proofs[i] = None THEN None
                                ELSE [proofs[i] EXCEPT !.aborted = TRUE]]
    /\ win' = [d \in Deadlines |-> [win[d] EXCEPT !.subs =
                  [i \in Ids |-> IF @[i] = None THEN None ELSE "aborted"]]]
    /\ UNCHANGED <<head, reorgs, missed, current, cache, added, currentTS>>

Next ==
    \/ applyTipSet
    \/ reorganise
    \/ reconnect
    \/ setBack
    \/ updateFails
    \/ proverHeadChange
    \/ \E i \in Ids : proverFailed(i)
    \/ \E i \in Ids, result \in {"empty", "posts"} : proverDone(i, result)
    \/ submitterHeadChange
    \/ processPostReady
    \/ \E d \in Deadlines, id \in Ids, ok \in BOOLEAN :
           processSubmitResult(d, id, ok)
    \/ shutdown

Spec == Init /\ [][Next]_vars

-----------------------------------------------------------------------------
(* Properties.                                                             *)

(* A window is in state Submitting exactly while the submission it points  *)
(* to has not reported and was not aborted, and it has no other live one.  *)
(* A window in Submitting without a submission would never be submitted    *)
(* again; two live submissions would race for the same deadline.           *)
SubmittingTracked ==
    ~stopped => \A d \in Deadlines :
        {i \in Ids : win[d].subs[i] = "live"} =
            IF win[d].state = "Submitting" THEN {win[d].sub} ELSE {}

(* A proof that is ready is never left lying: if the submitter has seen a  *)
(* height at which the window can be submitted, then the window is past    *)
(* its starting state, or the notification of the proof is still queued,   *)
(* or a submission failed since the last head change (which retries it).   *)
NoLostProof ==
    \A d \in Deadlines :
        (/\ win[d].state = "Start" /\ cache[d] # "none"
         /\ currentTS >= d + SubmitConfidence /\ currentTS < Close(d))
        => win[d].failed \/ \E i \in DOMAIN added : added[i] = d

(* Nothing is submitted or proved for a window that has closed: once both  *)
(* loops have seen a head at or above its end, the submission and the      *)
(* proof the prover waits for have been aborted.                           *)
ExpiredAborted ==
    ~stopped /\ hc = None /\ currentTS # None =>
        /\ \A d \in Deadlines, i \in Ids :
               win[d].subs[i] = "live" => currentTS < Close(d)
        /\ current # None => currentTS < Close(proofs[current].d)

(* The prover never waits for a proof that has already reported or was     *)
(* aborted: it would generate no proof until that window expires.          *)
CurrentIsRunning ==
    ~stopped /\ current # None =>
        proofs[current] # None /\ ~proofs[current].aborted

(* A window counts as submitted only on the present chain: if the chain    *)
(* was reverted to before it opened, it is not left in state Complete ("If *)
(* submit for this deadline has completed, but the chain was reverted back *)
(* to the previous deadline, reset the submit state to the starting state, *)
(* so that it can be resubmitted").                                        *)
RevertResubmits ==
    ~stopped /\ hc = None =>
        \A d \in Deadlines : win[d].state = "Complete" => ~win[d].stale

(* The same, as long as no head change was missed: whatever the order of   *)
(* proofs, submissions and reverts, a window on a reverted chain is        *)
(* submitted again.                                                        *)
SeenRevertResubmits == missed = 0 => RevertResubmits

(* At most one proof is being generated ("Only generate one proof at a     *)
(* time"), not counting those that were aborted.                           *)
OneProofAtATime ==
    Cardinality({i \in Ids : proofs[i] # None /\ ~proofs[i].aborted}) <= 1
=============================================================================
