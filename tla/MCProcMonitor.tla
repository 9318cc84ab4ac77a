---------------------------- MODULE MCProcMonitor ----------------------------
EXTENDS ProcMonitor
=============================================================================
