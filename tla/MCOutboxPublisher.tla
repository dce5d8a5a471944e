-------------------------- MODULE MCOutboxPublisher --------------------------
(* Two replicas over a short outbox, for TLC. *)
EXTENDS OutboxPublisher
=============================================================================
