---------------------------- MODULE MCServerLoop ----------------------------
\* ServerLoop for TLC. The cids are constants of their own: no symmetry,
\* which liveness does not allow.
EXTENDS ServerLoop

CONSTANTS c1, c2

=============================================================================
