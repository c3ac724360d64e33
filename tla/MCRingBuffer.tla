---------------------------- MODULE MCRingBuffer ----------------------------
(* Instances of RingBuffer for TLC. *)
EXTENDS RingBuffer, TLC

\* The ring never looks at a uid, it only stores and returns it.
UidSymmetry == Permutations(Uid)
=============================================================================
