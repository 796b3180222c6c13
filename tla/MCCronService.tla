--------------------------- MODULE MCCronService ---------------------------
(* Instances of CronService for TLC: one or two jobs, a clock of a few ticks. *)
EXTENDS CronService

CONSTANTS j1, j2

OneJob == {j1}
TwoJobs == {j1, j2}
AllDelays == {0, 1, 2}
UnitDelay == {1}
NoPreset == {}
OldJob == {j1}

=============================================================================
