------------------------------ MODULE MCDelivery ------------------------------
(* Two sinks: one takes every alert, one only those of the higher level. *)
EXTENDS Delivery

TwoSinks == <<[name |-> "jsonfile", minLevel |-> 1, queue |-> 2],
              [name |-> "email", minLevel |-> 3, queue |-> 1]>>
=============================================================================
