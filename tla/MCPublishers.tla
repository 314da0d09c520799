---------------------------- MODULE MCPublishers ----------------------------
(* Publishers on small instances: each observer alone. *)
EXTENDS Publishers

OneObserver == {{"websocket"}, {"rabbitmq"}}
=============================================================================
