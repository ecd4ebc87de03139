----------------------------- MODULE MCBindings -----------------------------
(***************************************************************************)
(* A task with a tuned worker and an untuned one, its rollback, and an     *)
(* unnamed subscriber in two instances, for model-checking Bindings.       *)
(***************************************************************************)
EXTENDS Bindings, TLC

charge == <<"shop", "ChargeCard">>
watch  == <<"shop", "*">>

Reg(inst, half, subject, consumer, override) ==
  [inst |-> inst, half |-> half, subject |-> subject, consumer |-> consumer, override |-> override]

Tuned == [name |-> Unnamed, filter |-> << >>]
Named == [name |-> <<"payments">>, filter |-> << >>]

CONSTANTS worker1, worker2, undo1, undo2, watch1, watch2

Shop ==
  worker1 :> Reg("i1", "worker", charge, <<"payments">>, Named) @@
  worker2 :> Reg("i2", "worker", charge, <<"payments">>, None) @@
  undo1   :> Reg("i1", "undo", charge, <<"payments">>, None) @@
  undo2   :> Reg("i2", "undo", charge, <<"payments">>, None) @@
  watch1  :> Reg("i1", "handler", watch, Unnamed, Tuned) @@
  watch2  :> Reg("i2", "handler", watch, Unnamed, None)

ShopWork == {[subject |-> charge, id |-> 1]}
=============================================================================
