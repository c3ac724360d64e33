----------------------------- MODULE MCCachedUid -----------------------------
(* Instances of CachedUidGenerator for TLC: a long of six bits, a ring of    *)
(* two seconds of two uids each.                                             *)
EXTENDS CachedUidGenerator

\* What is proved of every layout, of this one.
ASSUME LayoutLemmas == LayoutIsInjective /\ LayoutParses
==============================================================================
