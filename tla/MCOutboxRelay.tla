---------------------------- MODULE MCOutboxRelay ----------------------------
EXTENDS OutboxRelay
=============================================================================
