------------------------------ MODULE MCDoctor ------------------------------
(* A primary and a mirror, each of any kind and with any one fault.             *)
EXTENDS Doctor

MCKind == Backends
=============================================================================
