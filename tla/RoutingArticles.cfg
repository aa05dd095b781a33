SPECIFICATION Spec
INVARIANT PagesBecomeArticles
CHECK_DEADLOCK FALSE
