----------------------------- MODULE MCWasiRun ------------------------------
EXTENDS WasiRun
=============================================================================
