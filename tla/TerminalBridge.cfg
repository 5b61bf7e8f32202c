SPECIFICATION FairSpec
INVARIANTS ReleasedCompletely
PROPERTIES EndReleases GoroutinesEnd IdleIsReleased ImplementsSession
CHECK_DEADLOCK FALSE
