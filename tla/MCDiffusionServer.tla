-------------------------- MODULE MCDiffusionServer --------------------------
(* Instances of DiffusionServer for TLC. *)
EXTENDS DiffusionServer, TLC

\* Deployments, as encoders, denoisers and decoders.
One   == [enc |-> 1, den |-> 1, dec |-> 1]
Two11 == [enc |-> 2, den |-> 1, dec |-> 1]
One21 == [enc |-> 1, den |-> 2, dec |-> 1]
=============================================================================
