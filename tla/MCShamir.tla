------------------------------ MODULE MCShamir ------------------------------
(* A small instance of Shamir for TLC: keys of two digits in the field of   *)
(* the code, of which two callers' texts are none.                          *)
EXTENDS Shamir

MCText == {<<49, 50>>, <<57, 57>>, <<49>>, <<49, 65>>}

=============================================================================
