------------------------------ MODULE MCLoader ------------------------------
(* The Loader on small instances: the bounds are in the configurations.    *)
EXTENDS Loader
=============================================================================
