---------------------------- MODULE MCDefaultUid ----------------------------
(* Instances of DefaultUidGenerator for TLC. *)
EXTENDS DefaultUidGenerator

\* Days of 2, ahead by one: clocks skip the midnight of day 2, and read that of
\* day 3 twice.
ZoneWithTransitions ==
  [i \in -4 .. MaxClock + 4 |-> IF i \in 2 .. 3 THEN 3 ELSE 2]

\* The hypotheses of the theorems hold of the instances in which the clock is not
\* stepped back at the end of the layout.
ASSUME TheoremsApply ==
  /\ WorkerIdsFit /\ ZoneKeepsDays
  /\ LastStepBack <= 7 => ClockIsSupported

\* What is proved of every layout, of this one.
ASSUME LayoutLemmas == LayoutIsOrdered
=============================================================================
