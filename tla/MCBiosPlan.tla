---------------------------- MODULE MCBiosPlan ----------------------------
(* The plans that the runs of BiosPlan give to the machine. *)
EXTENDS BiosPlan

\* Two plans for this machine, one after the other, one that lacks a field
\* and one for another board.
MCPlans ==
  LET Plan(valid, target, from, to, max, actions) ==
        [valid |-> valid, target |-> target, from |-> from, to |-> to,
         max_attempts |-> max, actions |-> actions]
      Act(id, reset) == [id |-> id, reset |-> reset]
  IN  << Plan(TRUE, "fcp", "A", "B", 2, <<Act("a1", FALSE), Act("a2", TRUE), Act("a3", FALSE)>>),
         Plan(TRUE, "fcp", "B", "C", 2, <<Act("a1", FALSE)>>),
         Plan(FALSE, "fcp", "A", "B", 2, <<Act("a1", FALSE)>>),
         Plan(TRUE, "wfq", "A", "C", 1, <<Act("a1", FALSE)>>) >>

BiosSpec == BiosStart /\ [][BiosPlanNext]_biosVars

============================================================================
