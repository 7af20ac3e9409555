----------------------------- MODULE TaskQueue -----------------------------
(***************************************************************************)
(* Where a task goes in the scheduler's priority queue, a sorted list      *)
(* (projects/watch_dog/include: ComparFunc of scheduler.c, pqueue.c and    *)
(* sorted_list.c).  A task is a record with left, the seconds to its time. *)
(***************************************************************************)
EXTENDS Integers, Sequences, SequencesExt

ADJUSTMENT_TO_INSERT_AFTER_EQUAL == 1

\* Mutant of ComparFunc: the difference is taken the other way round.
ComparSwapped(on, new) == on.left - new.left + ADJUSTMENT_TO_INSERT_AFTER_EQUAL

ComparFunc(on, new) == new.left - on.left + ADJUSTMENT_TO_INSERT_AFTER_EQUAL

\* SortedListInsert walks on while ComparFunc is not negative: task t is
\* inserted in q at position i.
Place(q, t, i) == /\ \A k \in 1 .. i - 1 : ComparFunc(q[k], t) >= 0
                  /\ i <= Len(q) => ComparFunc(q[i], t) < 0

=============================================================================
