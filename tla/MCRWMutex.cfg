SPECIFICATION LiveSpec
CONSTANTS Threads = {t1, t2, t3, t4, t5}
INVARIANTS MutualExclusion NoLostWakeup
PROPERTIES BlockedReaderReads
