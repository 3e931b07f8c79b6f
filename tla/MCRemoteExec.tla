---------------------------- MODULE MCRemoteExec ----------------------------
\* Model values only.
EXTENDS RemoteExec
=============================================================================
