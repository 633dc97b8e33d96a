----------------------------- MODULE MCKeepalive -----------------------------
\* One tick is five seconds of the real constants.
EXTENDS Keepalive

MCAcceptors == {"deadline", "none"}

=============================================================================
