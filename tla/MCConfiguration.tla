--------------------------- MODULE MCConfiguration ---------------------------
(* Instances of GeneratorConfiguration for TLC. *)
EXTENDS GeneratorConfiguration

\* A layout that fills the long.
FillingDefaults ==
  [timeBits |-> 2, workerBits |-> 1, seqBits |-> 2,
   boostPower |-> 1, paddingFactor |-> 50]
==============================================================================
