--------------------------- MODULE MCTaskScheduler ---------------------------
(* Four tasks compete for two slots, the value of MAX_CONCURRENT_TASKS.    *)
EXTENDS TaskScheduler

CONSTANTS t1, t2, t3, t4

MCTaskIds == {t1, t2, t3, t4}
=============================================================================
