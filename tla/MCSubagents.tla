----------------------------- MODULE MCSubagents -----------------------------
\* A child in the gateway's own process, and one in another.
EXTENDS Subagents
CONSTANTS here, there
==============================================================================
