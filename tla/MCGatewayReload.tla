-------------------------- MODULE MCGatewayReload --------------------------
\* One channel whose section has two contents besides its absence.
EXTENDS GatewayReload
============================================================================
