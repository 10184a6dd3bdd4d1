\* The uninstaller reports before the services have stopped.
SPECIFICATION Spec
CONSTANT MaxRuns = 2
INVARIANT EverythingGone
CHECK_DEADLOCK FALSE
