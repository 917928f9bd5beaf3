------------------------------ MODULE MCSystem ------------------------------
(* Small instances of Lwm2mSystem: one or two resources, two values.         *)
EXTENDS Lwm2mSystem

CONSTANTS v1, v2

temperature == [obj |-> 3, inst |-> 0, res |-> 9]
memory      == [obj |-> 3, inst |-> 0, res |-> 10]

OneUri  == {temperature}
TwoUris == {temperature, memory}

=============================================================================
