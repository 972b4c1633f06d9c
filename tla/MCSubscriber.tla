---------------------------- MODULE MCSubscriber ----------------------------
(* Values of the constants of Subscriber for TLC. *)
EXTENDS Subscriber

CONSTANTS a, b, c

MCOracles == {a, b, c}
\* One oracle expires while the model runs.
MCExpiryOf == [o \in MCOracles |-> IF o = a THEN 1 ELSE 2]
=============================================================================
