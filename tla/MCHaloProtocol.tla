---------------------------- MODULE MCHaloProtocol ----------------------------
\* Model checking instance of the halo protocol.
EXTENDS HaloHost
=============================================================================
