--------------------------- MODULE MCWorkerHealth ---------------------------
EXTENDS WorkerHealth

\* Both switches off, one on, both on.
MCConf == {{}, {"lock"}, Feature}
=============================================================================
