CONSTANT Failures = {"clone", "sethostname", "pidfd_open", "setns", "fork"}
SPECIFICATION FairSpec
INVARIANTS TypeOK Child2SeesChild1 Child2Prints NobodyLeft
PROPERTY ParentEnds
\* The parent ends, or waits for ever when its fork has failed.
CHECK_DEADLOCK FALSE
