SPECIFICATION Spec
INVARIANT RunnerIsKind
\* One URL is followed to its end.
CHECK_DEADLOCK FALSE
