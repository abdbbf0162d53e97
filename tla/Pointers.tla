------------------------------- MODULE Pointers -------------------------------
(* The null pointer, which the containers share.                              *)
CONSTANT NULL
===============================================================================
