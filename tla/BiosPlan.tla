------------------------------ MODULE BiosPlan ------------------------------
(***************************************************************************)
(* The plan-based flow of the BIOS update service                          *)
(* (test_dir/python_tries/bios_update): a run of the service picks the     *)
(* plan of an earlier run or the one for the installed version, executes   *)
(* its actions up to a reset, a failure or the end, saves how far it got   *)
(* and power cycles the machine.  Power may be lost at any time, by an     *)
(* action's own reset, too.  Board and platform are one target; the fields *)
(* of the state file that no decision reads are left out.                  *)
(***************************************************************************)
EXTENDS Naturals, Sequences, FiniteSets

CONSTANTS BiosPlans,       \* the files of plans_dir: records, see Valid
          BiosTarget,      \* this machine's board and platform
          BiosFirst,       \* the version it starts with
          BiosLosses  \* bound: of lostRuns

VARIABLES biosVersion, biosFlashed,  \* installed; what the next boot installs
          stateFile,    \* upgrade_plan_state.json: NoFile, Torn or a state
          biosRun,      \* where the service is, its plan and the state it merged into it
          biosTried,    \* history: how often each action's command has run
          biosDone,     \* history: the actions that have succeeded
          lostRuns      \* history: runs whose result is not in the state file, for
                        \* power was lost or the file was not opened

biosVars == <<biosVersion, biosFlashed, stateFile, biosRun, biosTried, biosDone, lostRuns>>

NoFile == [state |-> "no file"]
Torn == [state |-> "not JSON"]  \* opened for writing and not written
NoPlan == 0
Ambiguous == 1 + Len(BiosPlans)

Files == 1 .. Len(BiosPlans)
Actions == UNION {{<<f, i>> : i \in 1 .. Len(BiosPlans[f].actions)} : f \in Files}

BiosStart == /\ biosVersion = BiosFirst /\ biosFlashed = BiosFirst
             /\ stateFile = NoFile /\ lostRuns = 0
             /\ biosRun = [at |-> "off", plan |-> NoPlan, state |-> NoFile]
             /\ biosTried = [a \in Actions |-> 0] /\ biosDone = {}

-----------------------------------------------------------------------------

\* validate_base_upgrade_plan: a file that lacks something is ignored.
Valid(f) == BiosPlans[f].valid /\ BiosPlans[f].actions # <<>>

default_state(f) ==
  LET p == BiosPlans[f] IN
  [state |-> "pending", from |-> p.from, to |-> p.to, target |-> p.target,
   max |-> p.max_attempts,
   actions |-> [i \in 1 .. Len(p.actions) |->
                  [id |-> p.actions[i].id, status |-> "pending", attempts |-> 0]]]

validate_upgrade_state(s, f) == Len(s.actions) = Len(BiosPlans[f].actions)

runtime_state_matches(s, f) ==
  LET p == BiosPlans[f] IN
  /\ s.from = p.from /\ s.to = p.to /\ s.target = p.target
  /\ Len(s.actions) = Len(p.actions)
  /\ \A i \in 1 .. Len(p.actions) : s.actions[i].id = p.actions[i].id

TheOnly(matches) == CASE matches = {} -> NoPlan
                      [] Cardinality(matches) = 1 -> CHOOSE f \in matches : TRUE
                      [] OTHER -> Ambiguous

find_pending_plan_from_state ==
  IF stateFile.state \notin {"pending", "in_progress"} THEN NoPlan
  ELSE TheOnly({f \in Files : /\ Valid(f) /\ BiosPlans[f].from = stateFile.from
                              /\ BiosPlans[f].to = stateFile.to
                              /\ BiosPlans[f].target = stateFile.target})

select_transition_plan ==
  TheOnly({f \in Files : /\ Valid(f) /\ BiosPlans[f].from = biosVersion
                         /\ BiosPlans[f].target = BiosTarget})

\* Mutant of loadOrInitRuntimeState: every run starts the plan anew.
loadAlwaysAnew(f) == default_state(f)

loadOrInitRuntimeState(f) ==
  IF stateFile = NoFile THEN default_state(f)
  ELSE IF validate_upgrade_state(stateFile, f) /\ runtime_state_matches(stateFile, f)
       THEN stateFile ELSE default_state(f)

\* _find_next_pending_action: the first action that is not completed, or 0.
NextAction(s) == LET open == {i \in 1 .. Len(s.actions) : s.actions[i].status # "completed"}
                 IN  IF open = {} THEN 0 ELSE CHOOSE i \in open : \A j \in open : i <= j

-----------------------------------------------------------------------------

\* main up to auto_execute_bios_upgrade; the password may be unknown.
ServiceStart ==
  /\ biosRun.at = "off"
  /\ \E at \in {"select", "finally"} : biosRun' = [biosRun EXCEPT !.at = at]
  /\ UNCHANGED <<biosVersion, biosFlashed, stateFile, biosTried, biosDone, lostRuns>>

\* Steps 1 to 4.  No plan, two plans, a state file that is not JSON and a
\* missing payload end the run.
SelectAndLoad ==
  LET pending == find_pending_plan_from_state
      f == IF pending # NoPlan THEN pending ELSE select_transition_plan
  IN  /\ biosRun.at = "select"
      /\ IF f \notin Files \/ stateFile = Torn THEN biosRun' = [biosRun EXCEPT !.at = "finally"]
         ELSE \/ biosRun' = [at |-> "execute", plan |-> f, state |-> loadOrInitRuntimeState(f)]
              \/ biosRun' = [biosRun EXCEPT !.at = "finally"]
      /\ UNCHANGED <<biosVersion, biosFlashed, stateFile, biosTried, biosDone, lostRuns>>

\* One turn of the loop of executeNextAction.
NothingToExecute ==
  /\ biosRun.at = "execute"
  /\ biosRun.state.state \in {"completed", "failed"} \/ NextAction(biosRun.state) = 0
  /\ biosRun' = [biosRun EXCEPT !.at = "truncate",
                   !.state.state = IF @ = "failed" THEN @ ELSE "completed"]
  /\ UNCHANGED <<biosVersion, biosFlashed, stateFile, biosTried, biosDone, lostRuns>>

ActionSucceeds(s, i) ==
  LET done == [s EXCEPT !.actions[i].status = "completed", !.actions[i].attempts = @ + 1,
                        !.state = "in_progress"]
  IN  IF NextAction(done) = 0 THEN [done EXCEPT !.state = "completed"] ELSE done

ActionFails(s, i) ==
  LET over == s.actions[i].attempts + 1 >= s.max IN
  [s EXCEPT !.actions[i].attempts = @ + 1,
            !.actions[i].status = IF over THEN "failed" ELSE "pending",
            !.state = IF over THEN "failed" ELSE "in_progress"]

executeNextAction ==
  LET s == biosRun.state
      i == NextAction(s)
      f == biosRun.plan
  IN  /\ biosRun.at = "execute" /\ s.state \in {"pending", "in_progress"} /\ i # 0
      /\ biosTried' = [biosTried EXCEPT ![f, i] = @ + 1]
      /\ \/ /\ biosRun' = [biosRun EXCEPT !.state = ActionSucceeds(s, i),
                             !.at = IF BiosPlans[f].actions[i].reset THEN "truncate" ELSE @]
            /\ biosDone' = biosDone \cup {<<f, i>>}
            /\ biosFlashed' = IF i = Len(s.actions) THEN BiosPlans[f].to ELSE biosFlashed
         \/ /\ biosRun' = [biosRun EXCEPT !.state = ActionFails(s, i), !.at = "truncate"]
            /\ UNCHANGED <<biosDone, biosFlashed>>
      /\ UNCHANGED <<biosVersion, stateFile, lostRuns>>

\* saveRuntimeState: open empties the file or raises (a full disk, a directory
\* that cannot be made), json.dump fills it or raises; then the run ends.
saveRuntimeState ==
  /\ \/ /\ biosRun.at = "truncate" /\ stateFile' = Torn
        /\ biosRun' = [biosRun EXCEPT !.at = "write"] /\ UNCHANGED lostRuns
     \/ /\ biosRun.at = "truncate" /\ lostRuns < BiosLosses /\ lostRuns' = lostRuns + 1
        /\ biosRun' = [biosRun EXCEPT !.at = "finally"] /\ UNCHANGED stateFile
     \/ /\ biosRun.at = "write" /\ stateFile' \in {biosRun.state, Torn}
        /\ biosRun' = [biosRun EXCEPT !.at = "finally"] /\ UNCHANGED lostRuns
  /\ UNCHANGED <<biosVersion, biosFlashed, biosTried, biosDone>>

\* The machine boots with what was flashed, and the run is forgotten.
Reboots == /\ biosVersion' = biosFlashed
           /\ biosRun' = [at |-> "off", plan |-> NoPlan, state |-> NoFile]
           /\ UNCHANGED <<biosFlashed, stateFile, biosTried, biosDone>>

\* The service is disabled, the disks are synced, the power is cycled.
PowerCycle == biosRun.at = "finally" /\ Reboots /\ UNCHANGED lostRuns

PowerLoss == /\ biosRun.at # "off" /\ lostRuns < BiosLosses
             /\ lostRuns' = lostRuns + 1 /\ Reboots

BiosPlanNext == \/ ServiceStart \/ SelectAndLoad \/ NothingToExecute \/ executeNextAction
                \/ saveRuntimeState \/ PowerCycle \/ PowerLoss

-----------------------------------------------------------------------------

(***************************************************************************)
(* What a later run executes is what the earlier ones have left: an action *)
(* is never tried before all earlier ones of its plan have succeeded, a    *)
(* file that says "completed" is believed rightly, and an action is tried  *)
(* more often than max_attempts_per_action only as often as a run's result *)
(* was lost (bios_update_tools.py:114-161, 557).  It does not say that a   *)
(* later run gets anywhere: behind a state file torn by a loss of power,   *)
(* each ends before its first action (:55, 541-543), although SRD.md:13    *)
(* and 151 promise to start the plan's state anew.                         *)
(***************************************************************************)
PlanResumes ==
  /\ \A a \in Actions :
       biosTried[a] > 0 =>
         /\ \A j \in 1 .. a[2] - 1 : <<a[1], j>> \in biosDone
         /\ biosTried[a] <= BiosPlans[a[1]].max_attempts + lostRuns
  /\ \A f \in Files :
       stateFile.state = "completed" /\ runtime_state_matches(stateFile, f) /\ Valid(f) =>
         \A i \in 1 .. Len(BiosPlans[f].actions) : <<f, i>> \in biosDone

(***************************************************************************)
(* "Retry counters are persisted, so failure limits survive interruption"  *)
(* (SRD.md:153).  The code counts an attempt in memory and saves it after  *)
(* the command (bios_update_tools.py:134, 557): it does not hold.          *)
(***************************************************************************)
RetryLimitSurvives ==
  \A a \in Actions : biosTried[a] <= BiosPlans[a[1]].max_attempts
=============================================================================
