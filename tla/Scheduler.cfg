SPECIFICATION Spec
CONSTANTS
  Intervals = {0, 1, 2}
  MaxAdds = 3
  MaxLate = 2
INVARIANTS NearlySorted SleepsOverNothing TasksConserved
PROPERTIES TaskGetsItsTurn PauseStopsRun
