---------------------------- MODULE MCEnvironment ----------------------------
(* A small instance of Environment: one application, or none.                *)
EXTENDS Environment

One == {"app"}
EmptyOrOne == {{}, One}
OneWave == [o \in One |-> 0]
=============================================================================
