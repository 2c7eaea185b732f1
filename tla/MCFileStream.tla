---------------------------- MODULE MCFileStream ----------------------------
(* FileStream on small instances: the bounds are in the configurations.    *)
EXTENDS FileStream
=============================================================================
