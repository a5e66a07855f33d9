------------------------------- MODULE Queues -------------------------------
(* The operators on sequences that the models of queues of requests and of   *)
(* events need. They are those of the community module SequencesExt; that    *)
(* module also brings in Bags, which makes each step of a proof about a      *)
(* module that uses it many times slower to check.                           *)
EXTENDS Integers, Sequences, FiniteSetsExt

\* The elements of a queue.
ToSet(queue) == {queue[i] : i \in DOMAIN queue}

\* Takes the elements of a queue one after the other, the first one first.
FoldLeft(step(_, _), start, queue) ==
    MapThenFoldSet(LAMBDA x, value : step(value, x), start,
                   LAMBDA i : queue[i], LAMBDA S : Max(S), DOMAIN queue)
=============================================================================
