\* check_system_status reports success with a check failing.
SPECIFICATION Spec
INVARIANT StatusAccurate
