------------------------------ MODULE UidQueue ------------------------------
(***************************************************************************)
(* What a uid ring promises its clients: a bounded queue.                  *)
(*                                                                         *)
(* Uids enter in the order they are put.  A take claims the oldest one and *)
(* later delivers it; a claim is delivered at most once, and nothing else  *)
(* is ever delivered.  A claim is dropped only after the queue is closed.  *)
(* The promise is void once a client's rejected-take handler has returned. *)
(***************************************************************************)
EXTENDS Naturals, Sequences

CONSTANTS Uid, Capacity

VARIABLES
  queue,  \* uids nobody has claimed, oldest first
  claims, \* uids claimed by a take still in progress
  given,  \* uids delivered, in order of delivery
  closed,
  void

vars == <<queue, claims, given, closed, void>>

Init ==
  /\ queue = <<>>
  /\ claims = {}
  /\ given = <<>>
  /\ closed = FALSE
  /\ void = FALSE

Enqueue(uid) ==
  /\ Len(queue) < Capacity
  /\ queue' = Append(queue, uid)
  /\ UNCHANGED <<claims, given, closed, void>>

\* A take that will call out before it delivers.
Claim ==
  /\ queue # <<>>
  /\ claims' = claims \union {Head(queue)}
  /\ queue' = Tail(queue)
  /\ UNCHANGED <<given, closed, void>>

Deliver(uid) ==
  /\ uid \in claims
  /\ claims' = claims \ {uid}
  /\ given' = Append(given, uid)
  /\ UNCHANGED <<queue, closed, void>>

ClaimAndDeliver ==
  /\ queue # <<>>
  /\ given' = Append(given, Head(queue))
  /\ queue' = Tail(queue)
  /\ UNCHANGED <<claims, closed, void>>

Drop ==
  /\ closed
  /\ queue # <<>>
  /\ queue' = Tail(queue)
  /\ UNCHANGED <<claims, given, closed, void>>

Close ==
  /\ closed' = TRUE
  /\ UNCHANGED <<queue, claims, given, void>>

\* Nothing is said of the queue any more.
Breach == void' = TRUE

Next ==
  \/ \E uid \in Uid : Enqueue(uid) \/ Deliver(uid)
  \/ Claim
  \/ ClaimAndDeliver
  \/ Drop
  \/ Close
  \/ Breach

Spec == Init /\ [][Next]_vars
=============================================================================
