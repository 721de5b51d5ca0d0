\* `status` on a POSIX host: check 4 raises ValueError before crontab runs.
SPECIFICATION Spec
INVARIANT StatusCompletes
