------------------------ MODULE BufferPaddingProofs ------------------------
(***************************************************************************)
(* Proofs about BufferPaddingExecutor, for every ring, batch size and      *)
(* handler: passes never nest, uids enter the ring in order, the seconds   *)
(* borrowed are accounted for, and the closed system is the ring of        *)
(* RingBuffer.  With the default handlers, the event loop never sees the   *)
(* rest below the threshold, and a ring that was once filled rejects no    *)
(* take.                                                                   *)
(***************************************************************************)
EXTENDS BufferPaddingExecutor, RingBufferProofs

USE DEF START_POINT, CAN_PUT_FLAG, CAN_TAKE_FLAG

-----------------------------------------------------------------------------
(* The uids of a second *)

\* The batch of a second is not empty.
LEMMA BatchType == UidsPerSecond \in Nat \ {0} /\ StartSecond \in Nat
  BY ExecutorAssumption

\* The uids of a second are naturals, in the order of their offsets; those of
\* the next second begin where they end.
LEMMA UidOrder ==
  ASSUME NEW s \in Nat, NEW i \in Nat
  PROVE  /\ uidOf(s, i) \in Nat
         /\ \A j \in Nat : i < j => uidOf(s, i) < uidOf(s, j)
         /\ uidOf(s + 1, 0) = uidOf(s, UidsPerSecond)
  <1>1. s * UidsPerSecond \in Nat
    BY BatchType
  <1>2. (s + 1) * UidsPerSecond = s * UidsPerSecond + UidsPerSecond
    BY BatchType
  <1> QED BY <1>1, <1>2, BatchType DEF uidOf

\* A second more is a batch more.
LEMMA BatchesOf ==
  ASSUME NEW d \in Int
  PROVE  /\ UidsPerSecond * d \in Int
         /\ UidsPerSecond * (d + 1) = UidsPerSecond * d + UidsPerSecond
         /\ UidsPerSecond * (d - 1) = UidsPerSecond * d - UidsPerSecond
  BY BatchType

-----------------------------------------------------------------------------
(* The pass *)

\* A pass on the stack is in one of three places.
LEMMA PassPlaces ==
  ASSUME PassTypeOK
  PROVE  /\ pass.at \in {"none", "provider", "putting", "handler"}
         /\ pass.at = "none" <=> pass = NoPass
         /\ pass.next \in Nat /\ Offset \in Nat /\ Offset <= UidsPerSecond
         /\ pass.at = "handler" => Offset < UidsPerSecond
  BY BatchType DEF PassTypeOK, Pass, NoPass, Offset

\* Steps of the ring other than put() enter no uid.
LEMMA OnlyPutProduces ==
  ASSUME TakeDirectly \/ TakeCallsPadding \/ TakeRefusedByPool \/ TakeCallsHandler
         \/ PaddingReturns \/ HandlerThrows \/ HandlerReturns \/ PutRejected
         \/ SetBufferPaddingExecutor \/ ShutdownExecutor \/ UNCHANGED vars
  PROVE  UNCHANGED produced
  BY DEF TakeDirectly, TakeCallsPadding, TakeRefusedByPool, TakeCallsHandler,
         PaddingReturns, HandlerThrows, HandlerReturns, PutRejected,
         SetBufferPaddingExecutor, ShutdownExecutor, vars, history

\* Steps outside the pass.
LEMMA OtherStepsKeepPass ==
  ASSUME PassInv, UNCHANGED <<running, lastSecond, pass, passes, produced>>,
         timer' \in {"off", "armed", "running"}
  PROVE  PassInv'
  BY DEF PassInv, PassTypeOK, RunningFlag, BatchInOrder, BatchAccounted, Offset

\* The compare-and-set lets a pass begin only when there is none.
LEMMA BeginPassKeepsPass ==
  ASSUME PassInv, NEW by \in {"take", "direct", "timer"}, BeginPass(by),
         Len(frames) \in Nat, timer' \in {"off", "armed", "running"}
  PROVE  PassInv'
  <1> DEFINE p == [at |-> "provider", by |-> by, depth |-> Len(frames), next |-> 0]
  <1>1. /\ ~running /\ running' = TRUE /\ pass' = p /\ passes' = passes + 1
        /\ UNCHANGED <<lastSecond, produced>>
    BY DEF BeginPass, vars, history
  <1>2. pass = NoPass
    BY <1>1 DEF PassInv, RunningFlag
  <1>3. p \in Pass /\ p.at = "provider" /\ p # NoPass
    BY DEF Pass, NoPass
  <1>4. Offset = UidsPerSecond /\ Offset' = UidsPerSecond
    BY <1>1, <1>2, <1>3 DEF Offset, NoPass
  <1>5. PassTypeOK' /\ RunningFlag'
    BY <1>1, <1>3 DEF PassInv, PassTypeOK, RunningFlag
  <1>6. BatchInOrder'
    BY <1>1, <1>2, <1>4 DEF PassInv, BatchInOrder, NoPass
  <1>7. BatchAccounted'
    <2> DEFINE d == lastSecond - StartSecond - passes
    <2>1. d \in Int /\ lastSecond' - StartSecond - passes' = d - 1
      BY <1>1, BatchType DEF PassInv, PassTypeOK
    <2>2. Len(produced) \in Nat /\ UidsPerSecond * d + 0 <= Len(produced)
      BY <1>2 DEF PassInv, PassTypeOK, BatchAccounted
    <2> HIDE DEF d
    <2>3. UidsPerSecond * (d - 1) + UidsPerSecond <= Len(produced)
      BY <2>1, <2>2, BatchesOf, BatchType
    <2> QED BY <1>1, <1>3, <1>4, <2>1, <2>3 DEF BatchAccounted
  <1> QED BY <1>5, <1>6, <1>7 DEF PassInv

\* The provider is asked for a second that was never asked for.
LEMMA AskProviderKeepsPass ==
  ASSUME PassInv, AskProvider
  PROVE  PassInv'
  <1>1. /\ pass # NoPass /\ pass.at = "provider"
        /\ lastSecond' = lastSecond + 1
        /\ pass' = [pass EXCEPT !.at = "putting", !.next = 0]
        /\ UNCHANGED <<produced, running, timer, passes>>
    BY DEF AskProvider, PassOnTop, vars, history
  <1>2. pass \in Pass
    BY <1>1 DEF PassInv, PassTypeOK
  <1>3. pass' \in Pass /\ pass'.at = "putting" /\ pass'.next = 0 /\ pass' # NoPass
    BY <1>1, <1>2 DEF Pass, NoPass
  <1>4. Offset = UidsPerSecond /\ Offset' = 0
    BY <1>1, <1>3 DEF Offset
  <1>5. PassTypeOK' /\ RunningFlag'
    BY <1>1, <1>3, BatchType DEF PassInv, PassTypeOK, RunningFlag
  <1>6. BatchInOrder'
    <2>1. uidOf(lastSecond, Offset) = uidOf(lastSecond', Offset')
      BY <1>1, <1>4, UidOrder DEF PassInv, PassTypeOK
    <2> QED BY <1>1, <2>1 DEF PassInv, BatchInOrder
  <1>7. BatchAccounted'
    <2> DEFINE d == lastSecond - StartSecond - passes
    <2>1. d \in Int /\ lastSecond' - StartSecond - passes' = d + 1
      <3>1. /\ lastSecond \in Nat /\ passes \in Nat
            /\ lastSecond' = lastSecond + 1 /\ passes' = passes
        BY <1>1 DEF PassInv, PassTypeOK
      <3> QED BY <3>1, BatchType
    <2>2. /\ Len(produced) \in Nat
          /\ UidsPerSecond * d + UidsPerSecond <= Len(produced)
      BY <1>1, <1>4 DEF PassInv, PassTypeOK, BatchAccounted
    <2> HIDE DEF d
    <2>3. UidsPerSecond * (d + 1) + 0 <= Len(produced)
      BY <2>1, <2>2, BatchesOf, BatchType
    <2> QED BY <1>1, <1>3, <1>4, <2>1, <2>3 DEF BatchAccounted
  <1> QED BY <1>5, <1>6, <1>7 DEF PassInv

\* The uid that is next is above all that were put before it.
LEMMA NextUidIsAbove ==
  ASSUME PassInv, pass.at \in {"putting", "handler"},
         pass.at = "handler" => uidOf(lastSecond, pass.next) \notin Range(produced)
  PROVE  /\ uidOf(lastSecond, pass.next) \in Nat
         /\ pass.next \in Nat /\ pass.next < UidsPerSecond /\ pass # NoPass
         /\ Offset = pass.next
         /\ \A i \in DOMAIN produced : produced[i] < uidOf(lastSecond, pass.next)
  <1>1. /\ pass.next \in Nat /\ pass.next < UidsPerSecond /\ pass # NoPass
        /\ Offset = pass.next /\ lastSecond \in Nat
    BY PassPlaces DEF PassInv, PassTypeOK, Offset
  <1>2. \A i \in DOMAIN produced : produced[i] < uidOf(lastSecond, pass.next)
    BY <1>1 DEF PassInv, BatchInOrder, Range
  <1> QED BY <1>1, <1>2, UidOrder

\* A uid above all others keeps them in order.
LEMMA AppendKeepsOrder ==
  ASSUME NEW s \in Seq(Nat), NEW e \in Nat,
         \A i, j \in DOMAIN s : i < j => s[i] < s[j],
         \A i \in DOMAIN s : s[i] < e
  PROVE  /\ Append(s, e) \in Seq(Nat)
         /\ \A i, j \in DOMAIN Append(s, e) : i < j => Append(s, e)[i] < Append(s, e)[j]
         /\ \A i \in DOMAIN Append(s, e) : Append(s, e)[i] <= e
         /\ Len(Append(s, e)) = Len(s) + 1 /\ Len(s) \in Nat
  <1> DEFINE t == Append(s, e)
             n == Len(s)
  <1>1. /\ t \in Seq(Nat) /\ Len(t) = n + 1 /\ n \in Nat
        /\ \A i \in 1 .. n : t[i] = s[i]
        /\ t[n + 1] = e
        /\ DOMAIN s = 1 .. n /\ DOMAIN t = 1 .. n + 1
    BY AppendKeeps
  <1>2. \A i \in 1 .. n : s[i] \in Nat
    OBVIOUS
  <1> HIDE DEF t, n
  <1>3. \A i, j \in DOMAIN t : i < j => t[i] < t[j]
    BY <1>1, <1>2
  <1>4. \A i \in DOMAIN t : t[i] <= e
    BY <1>1, <1>2
  <1> QED BY <1>1, <1>3, <1>4 DEF t, n

\* The pass puts the next uid of its batch.
LEMMA PutNextKeepsPass ==
  ASSUME PassInv, PutNext
  PROVE  PassInv'
  <1> DEFINE o == pass.next
             u == uidOf(lastSecond, o)
             place == IF o + 1 = UidsPerSecond THEN "provider" ELSE "putting"
  <1>1. /\ pass.at = "putting" /\ produced' = Append(produced, u)
        /\ pass' = [pass EXCEPT !.next = o + 1, !.at = place]
        /\ UNCHANGED <<running, lastSecond, timer, passes>>
    BY DEF PutNext, Put
  <1>2. /\ u \in Nat /\ o \in Nat /\ o < UidsPerSecond /\ pass \in Pass
        /\ Offset = o /\ pass # NoPass
        /\ \A i \in DOMAIN produced : produced[i] < u
    BY <1>1, NextUidIsAbove DEF PassInv, PassTypeOK
  <1>3. /\ produced' \in Seq(Nat)
        /\ \A i, j \in DOMAIN produced' : i < j => produced'[i] < produced'[j]
        /\ \A i \in DOMAIN produced' : produced'[i] <= u /\ produced'[i] \in Nat
        /\ Len(produced') = Len(produced) + 1 /\ Len(produced) \in Nat
    <2> HIDE DEF u
    <2>1. produced \in Seq(Nat)
          /\ \A i, j \in DOMAIN produced : i < j => produced[i] < produced[j]
      BY DEF PassInv, PassTypeOK, BatchInOrder
    <2> QED BY <1>1, <1>2, <2>1, AppendKeepsOrder
  <1>4. /\ pass' \in Pass /\ pass'.at = place /\ pass'.next = o + 1
        /\ pass' # NoPass
    <2>1. place \in {"provider", "putting"} /\ o + 1 \in Nat
      BY <1>2
    <2> HIDE DEF place
    <2> QED BY <1>1, <1>2, <2>1 DEF Pass, NoPass
  <1>5. Offset' = o + 1
    BY <1>2, <1>4, BatchType DEF Offset
  <1>6. PassTypeOK' /\ RunningFlag'
    <2>1. pass'.at \in {"putting", "handler"} => pass'.next < UidsPerSecond
      BY <1>2, <1>4, BatchType
    <2> QED BY <1>1, <1>2, <1>3, <1>4, <2>1 DEF PassInv, PassTypeOK, RunningFlag
  <1>7. BatchInOrder'
    <2>1. u < uidOf(lastSecond, o + 1) /\ uidOf(lastSecond, o + 1) \in Nat
      <3> HIDE DEF o
      <3>1. lastSecond \in Nat /\ o \in Nat /\ o + 1 \in Nat /\ o < o + 1
        BY <1>2 DEF PassInv, PassTypeOK
      <3> QED BY <3>1, UidOrder
    <2>2. \A i \in DOMAIN produced' : produced'[i] < uidOf(lastSecond, o + 1)
      <3> HIDE DEF u
      <3> QED BY <1>2, <1>3, <2>1
    <2> QED BY <1>1, <1>3, <1>5, <2>2 DEF BatchInOrder
  <1>8. BatchAccounted'
    <2> DEFINE d == UidsPerSecond * (lastSecond - StartSecond - passes)
    <2>1. d \in Int /\ d + o <= Len(produced)
      BY <1>2, BatchType, BatchesOf DEF PassInv, PassTypeOK, BatchAccounted
    <2>2. d' = d
      BY <1>1
    <2> HIDE DEF d
    <2>3. d' + (o + 1) <= Len(produced')
      BY <1>2, <1>3, <2>1, <2>2
    <2> QED BY <1>4, <1>5, <2>3 DEF BatchAccounted, d
  <1> QED BY <1>6, <1>7, <1>8 DEF PassInv

\* put() refuses a uid: the pass calls its handler.
LEMMA PutRefusedKeepsPass ==
  ASSUME PassInv, PutRefused
  PROVE  PassInv'
  <1>1. /\ pass.at = "putting"
        /\ pass' = [pass EXCEPT !.at = "handler"]
        /\ UNCHANGED <<produced, running, lastSecond, timer, passes>>
    BY OnlyPutProduces DEF PutRefused
  <1>2. pass \in Pass /\ pass # NoPass /\ pass.next < UidsPerSecond
    BY <1>1 DEF PassInv, PassTypeOK, NoPass
  <1>3. /\ pass' \in Pass /\ pass'.at = "handler" /\ pass'.next = pass.next
        /\ pass' # NoPass
    BY <1>1, <1>2 DEF Pass, NoPass
  <1>4. Offset' = Offset
    BY <1>1, <1>3 DEF Offset
  <1>5. PassTypeOK' /\ RunningFlag'
    BY <1>1, <1>2, <1>3 DEF PassInv, PassTypeOK, RunningFlag
  <1>6. BatchInOrder' /\ BatchAccounted'
    BY <1>1, <1>2, <1>3, <1>4 DEF PassInv, BatchInOrder, BatchAccounted
  <1> QED BY <1>5, <1>6 DEF PassInv

\* A handler that made room puts the refused uid itself, once.
LEMMA PutHandlerPutsKeepsPass ==
  ASSUME PassInv, PutHandlerPuts
  PROVE  PassInv'
  <1> DEFINE u == uidOf(lastSecond, pass.next)
  <1>1. /\ pass.at = "handler" /\ produced' = Append(produced, u)
        /\ u \notin Range(produced)
        /\ UNCHANGED <<running, lastSecond, pass, timer, passes>>
    BY DEF PutHandlerPuts, InPutHandler, Put, padVars
  <1>2. u \in Nat /\ Offset = pass.next /\ Offset' = Offset
        /\ \A i \in DOMAIN produced : produced[i] < u
    BY <1>1, NextUidIsAbove DEF Offset
  <1>3. /\ produced' \in Seq(Nat)
        /\ \A i, j \in DOMAIN produced' : i < j => produced'[i] < produced'[j]
        /\ \A i \in DOMAIN produced' : produced'[i] <= u /\ produced'[i] \in Nat
        /\ Len(produced') = Len(produced) + 1 /\ Len(produced) \in Nat
    <2> HIDE DEF u
    <2>1. produced \in Seq(Nat)
          /\ \A i, j \in DOMAIN produced : i < j => produced[i] < produced[j]
      BY DEF PassInv, PassTypeOK, BatchInOrder
    <2> QED BY <1>1, <1>2, <2>1, AppendKeepsOrder
  <1>4. PassTypeOK' /\ RunningFlag'
    BY <1>1, <1>3 DEF PassInv, PassTypeOK, RunningFlag
  <1>5. BatchInOrder'
    <2>1. \A i \in DOMAIN produced' : produced'[i] < u \/ produced'[i] = u
      <3> HIDE DEF u
      <3> QED BY <1>2, <1>3
    <2> QED BY <1>1, <1>2, <1>3, <2>1 DEF BatchInOrder
  <1>6. BatchAccounted'
    <2> DEFINE d == UidsPerSecond * (lastSecond - StartSecond - passes)
               x == IF pass = NoPass THEN 0 ELSE Offset
    <2>1. d \in Int /\ x \in Int /\ d + x <= Len(produced)
      BY PassPlaces, BatchType, BatchesOf DEF PassInv, PassTypeOK, BatchAccounted
    <2>2. d' = d /\ x' = x
      BY <1>1, <1>2
    <2> HIDE DEF d, x
    <2>3. d' + x' <= Len(produced')
      BY <1>3, <2>1, <2>2
    <2> QED BY <2>3 DEF BatchAccounted, d, x
  <1> QED BY <1>4, <1>5, <1>6 DEF PassInv

\* The pass leaves the stack: what is left of its batch is passed over for good.
LEMMA LeavePassKeepsPass ==
  ASSUME PassInv, PutHandlerReturns \/ PutHandlerThrows
  PROVE  PassInv'
  <1>1. /\ pass.at = "handler" /\ pass' = NoPass
        /\ UNCHANGED <<lastSecond, passes, produced>>
        /\ timer' \in {"off", "armed", "running"}
        /\ running' = FALSE \/ ("throw" \in PutHandlerDoes /\ UNCHANGED running)
    BY OnlyPutProduces
    DEF PutHandlerReturns, PutHandlerThrows, InPutHandler, LeavePass, PassInv,
        PassTypeOK
  <1>2. /\ Offset \in Nat /\ Offset < UidsPerSecond /\ pass # NoPass
        /\ Offset' = UidsPerSecond
    BY <1>1, PassPlaces DEF PassInv, Offset, NoPass
  <1>3. PassTypeOK' /\ RunningFlag'
    BY <1>1 DEF PassInv, PassTypeOK, RunningFlag, NoPass
  <1>4. BatchInOrder'
    <2>1. /\ uidOf(lastSecond, Offset) < uidOf(lastSecond, UidsPerSecond)
          /\ uidOf(lastSecond, Offset) \in Nat
          /\ uidOf(lastSecond, UidsPerSecond) \in Nat
      BY <1>2, BatchType, UidOrder DEF PassInv, PassTypeOK
    <2>2. \A i \in DOMAIN produced : produced[i] \in Nat
      BY DEF PassInv, PassTypeOK
    <2>3. \A i \in DOMAIN produced : produced[i] < uidOf(lastSecond, UidsPerSecond)
      BY <2>1, <2>2 DEF PassInv, BatchInOrder
    <2> QED BY <1>1, <1>2, <2>3 DEF PassInv, BatchInOrder
  <1>5. BatchAccounted'
    <2> DEFINE d == UidsPerSecond * (lastSecond - StartSecond - passes)
    <2>1. /\ d \in Int /\ d + Offset <= Len(produced) /\ Len(produced) \in Nat
      BY <1>2, BatchType, BatchesOf DEF PassInv, PassTypeOK, BatchAccounted
    <2>2. d' = d
      BY <1>1
    <2> HIDE DEF d
    <2>3. d' + 0 <= Len(produced')
      BY <1>1, <1>2, <2>1, <2>2
    <2> QED BY <1>1, <2>3 DEF BatchAccounted, d
  <1> QED BY <1>3, <1>4, <1>5 DEF PassInv

-----------------------------------------------------------------------------
(* The closed system *)

\* Every step keeps the pass in order.
LEMMA PassInvStep ==
  ASSUME TypeOK, PassInv, [PaddingNext]_allVars
  PROVE  PassInv'
  <1>0. Len(frames) \in Nat /\ timer \in {"off", "armed", "running"}
    BY DEF TypeOK, PassInv, PassTypeOK
  <1>1. CASE ClientTakes \/ TakeHandlerEnds \/ AsyncPaddingSkipped \/ Wire
    <2>1. UNCHANGED produced /\ UNCHANGED padVars
      BY <1>1, OnlyPutProduces
      DEF ClientTakes, TakeHandlerEnds, AsyncPaddingSkipped, Wire
    <2> QED BY <1>0, <2>1, OtherStepsKeepPass DEF padVars
  <1>2. CASE Start \/ Shutdown
    <2>1. /\ UNCHANGED <<produced, running, lastSecond, pass, passes>>
          /\ timer' \in {"off", "armed", "running"}
      BY <1>0, <1>2, OnlyPutProduces DEF Start, Shutdown
    <2> QED BY <2>1, OtherStepsKeepPass
  <1>3. CASE AsyncPaddingBegins
    BY <1>0, <1>3, BeginPassKeepsPass DEF AsyncPaddingBegins
  <1>4. CASE PaddingBufferCalled
    BY <1>0, <1>4, BeginPassKeepsPass DEF PaddingBufferCalled
  <1>5. CASE TimerFires
    <2>1. CASE TimerFiresAfterShutdown
      BY <2>1, OnlyPutProduces, OtherStepsKeepPass DEF TimerFiresAfterShutdown
    <2>2. CASE TimerBeginsPass
      BY <1>0, <2>2, BeginPassKeepsPass DEF TimerBeginsPass
    <2>3. CASE TimerSkipsPass
      BY <1>0, <2>3, OnlyPutProduces, OtherStepsKeepPass
      DEF TimerSkipsPass, allVars, padVars
    <2> QED BY <1>5, <2>1, <2>2, <2>3 DEF TimerFires
  <1>6. CASE AskProvider
    BY <1>6, AskProviderKeepsPass
  <1>7. CASE PutNext
    BY <1>7, PutNextKeepsPass
  <1>8. CASE PutRefused
    BY <1>8, PutRefusedKeepsPass
  <1>9. CASE PutHandlerReturns \/ PutHandlerThrows
    BY <1>9, LeavePassKeepsPass
  <1>10. CASE PutHandlerPuts
    BY <1>10, PutHandlerPutsKeepsPass
  <1>11. CASE UNCHANGED allVars
    BY <1>0, <1>11, OnlyPutProduces, OtherStepsKeepPass DEF allVars, padVars
  <1> QED BY <1>1, <1>2, <1>3, <1>4, <1>5, <1>6, <1>7, <1>8, <1>9, <1>10, <1>11
      DEF PaddingNext, PassStep

\* A uid is any natural: a finite Uid is a bound of the runs.
UidsAreNaturals == Nat \subseteq Uid

\* Every step is a step of the ring: the uid a pass puts is fresh.
LEMMA PaddingStepIsRingStep ==
  ASSUME UidsAreNaturals, PassInv, [PaddingNext]_allVars
  PROVE  [Next]_vars
  <1>1. ASSUME PutNext \/ PutHandlerPuts PROVE Next
    <2> DEFINE u == uidOf(lastSecond, pass.next)
    <2>1. /\ pass.at \in {"putting", "handler"} /\ Put(u)
          /\ pass.at = "handler" => u \notin Range(produced)
      BY <1>1 DEF PutNext, PutHandlerPuts, InPutHandler
    <2>2. u \in Nat /\ \A i \in DOMAIN produced : produced[i] < u
      BY <2>1, NextUidIsAbove
    <2>3. u \in Fresh
      <3>1. \A i \in DOMAIN produced : produced[i] # u
        BY <2>2 DEF PassInv, PassTypeOK
      <3> QED BY <2>2, <3>1 DEF Fresh, UidsAreNaturals, Range
    <2> QED BY <2>1, <2>3 DEF Next
  <1>2. CASE ClientTakes \/ TakeHandlerEnds \/ AsyncPaddingSkipped
    BY <1>2 DEF ClientTakes, TakeHandlerEnds, AsyncPaddingSkipped, Next, Take
  <1>3. CASE AsyncPaddingBegins \/ PaddingBufferCalled \/ AskProvider \/ Start
    BY <1>3 DEF AsyncPaddingBegins, PaddingBufferCalled, BeginPass, AskProvider, Start
  <1>4. CASE TimerFires
    BY <1>4 DEF TimerFires, TimerFiresAfterShutdown, TimerBeginsPass, BeginPass,
        TimerSkipsPass, allVars
  <1>5. CASE Wire \/ Shutdown \/ PutRefused
    BY <1>5 DEF Wire, Shutdown, PutRefused, Next
  <1>6. CASE PutHandlerReturns \/ PutHandlerThrows
    BY <1>6 DEF PutHandlerReturns, PutHandlerThrows, LeavePass, Next, Take
  <1>7. CASE UNCHANGED allVars
    BY <1>7 DEF allVars
  <1> QED BY <1>1, <1>2, <1>3, <1>4, <1>5, <1>6, <1>7 DEF PaddingNext, PassStep

\* At first no pass is on the stack and no second has been borrowed.
LEMMA InitialPass == PaddingInit => PassInv
  <1> SUFFICES ASSUME PaddingInit PROVE PassInv
    OBVIOUS
  <1>1. /\ produced = <<>> /\ running = FALSE /\ pass = NoPass /\ passes = 0
        /\ lastSecond = StartSecond /\ timer = "off"
    BY DEF PaddingInit, Init
  <1>2. UidsPerSecond * (lastSecond - StartSecond - passes) = 0
    BY <1>1, BatchType
  <1>3. PassTypeOK
    <2>1. pass.at = "none"
      BY <1>1 DEF NoPass
    <2>2. produced \in Seq(Nat) /\ pass \in Pass \union {NoPass}
      BY <1>1
    <2> QED BY <1>1, <2>1, <2>2, BatchType DEF PassTypeOK
  <1>4. RunningFlag /\ BatchInOrder
    BY <1>1 DEF RunningFlag, BatchInOrder
  <1>5. BatchAccounted
    BY <1>1, <1>2 DEF BatchAccounted
  <1> QED BY <1>3, <1>4, <1>5 DEF PassInv

\* The inductive invariant of the closed system.
THEOREM PaddingInvariant ==
  ASSUME UidsAreNaturals PROVE PaddingSpec => [](ClaimInv /\ PassInv)
  <1>1. PaddingInit => ClaimInv /\ PassInv
    BY InitialPass, InitialClaims DEF PaddingInit
  <1>2. ClaimInv /\ PassInv /\ [PaddingNext]_allVars => (ClaimInv /\ PassInv)'
    BY PassInvStep, PaddingStepIsRingStep, ClaimStep DEF ClaimInv, SlotInv
  <1> QED BY <1>1, <1>2, PTL DEF PaddingSpec

\* asyncPadding(), paddingBuffer() and the schedule use the ring as any client
\* may: what RingBufferProofs proves of Spec holds of the real executor.
THEOREM PaddingIsARing ==
  ASSUME UidsAreNaturals PROVE PaddingSpec => ImplementsRing
  <1>1. PaddingInit => Init
    BY DEF PaddingInit
  <1>2. PassInv /\ [PaddingNext]_allVars => [Next]_vars
    BY PaddingStepIsRingStep
  <1> QED BY <1>1, <1>2, PaddingInvariant, PTL DEF PaddingSpec, ImplementsRing, Spec

\* Type correctness of the ring and its executor (AtomicBoolean running, AtomicLong
\* lastSecond).
THEOREM PaddingTypeCorrect ==
  ASSUME UidsAreNaturals PROVE PaddingSpec => []PaddingTypeOK
  <1>1. ClaimInv /\ PassInv => PaddingTypeOK
    BY DEF ClaimInv, SlotInv, PassInv, PassTypeOK, PaddingTypeOK
  <1> QED BY <1>1, PaddingInvariant, PTL

\* The compare-and-set on `running` lets no pass begin inside another: each of the
\* three steps that begin one needs it reset, and it is set while a pass is on the
\* stack, whatever the handlers do.
THEOREM PassesNeverNest ==
  ASSUME UidsAreNaturals PROVE PaddingSpec => SingleFlight
  <1> DEFINE InnerPass == pass # NoPass => passes' = passes
  <1>1. ASSUME PassInv, [PaddingNext]_allVars PROVE [InnerPass]_allVars
    <2>1. ASSUME NEW by, BeginPass(by) PROVE InnerPass
      BY <1>1, <2>1 DEF BeginPass, PassInv, RunningFlag
    <2>2. CASE AsyncPaddingBegins \/ PaddingBufferCalled
      BY <2>1, <2>2 DEF AsyncPaddingBegins, PaddingBufferCalled
    <2>3. CASE TimerFires
      BY <2>1, <2>3 DEF TimerFires, TimerBeginsPass, TimerFiresAfterShutdown,
         TimerSkipsPass, allVars, padVars
    <2>4. CASE ClientTakes \/ TakeHandlerEnds \/ AsyncPaddingSkipped \/ Wire
      BY <2>4 DEF ClientTakes, TakeHandlerEnds, AsyncPaddingSkipped, Wire, padVars
    <2>5. CASE AskProvider \/ PutNext \/ PutRefused \/ PutHandlerPuts
      BY <2>5 DEF AskProvider, PutNext, PutRefused, PutHandlerPuts, padVars
    <2>6. CASE PutHandlerReturns \/ PutHandlerThrows
      BY <2>6 DEF PutHandlerReturns, PutHandlerThrows, LeavePass
    <2>7. CASE Start \/ Shutdown
      BY <2>7 DEF Start, Shutdown
    <2> QED BY <1>1, <2>2, <2>3, <2>4, <2>5, <2>6, <2>7 DEF PaddingNext, PassStep
  <1> QED BY <1>1, PaddingInvariant, PTL DEF PaddingSpec, SingleFlight

\* Uids enter the ring in increasing order, and no second is borrowed twice.
THEOREM UidsEnterInOrder ==
  ASSUME UidsAreNaturals PROVE PaddingSpec => []ProducedInOrder
  <1>1. ASSUME PassInv PROVE ProducedInOrder
    <2> DEFINE bound == uidOf(lastSecond, UidsPerSecond)
    <2>1. /\ lastSecond \in Nat /\ Offset \in Nat /\ Offset <= UidsPerSecond
          /\ pass.at = "handler" => Offset < UidsPerSecond
          /\ \A i \in DOMAIN produced : produced[i] \in Nat
      BY <1>1, PassPlaces DEF PassInv, PassTypeOK
    <2>2. /\ uidOf(lastSecond, Offset) \in Nat /\ bound \in Nat
          /\ Offset < UidsPerSecond => uidOf(lastSecond, Offset) < bound
          /\ Offset = UidsPerSecond => uidOf(lastSecond, Offset) = bound
          /\ uidOf(lastSecond + 1, 0) = bound
      BY <2>1, BatchType, UidOrder
    <2>3. \A i \in DOMAIN produced : produced[i] < bound
      <3> HIDE DEF bound
      <3>1. Offset < UidsPerSecond \/ Offset = UidsPerSecond
        BY <2>1, BatchType
      <3> QED BY <1>1, <2>1, <2>2, <3>1 DEF PassInv, BatchInOrder
    <2> QED BY <1>1, <2>2, <2>3 DEF PassInv, BatchInOrder, ProducedInOrder
  <1> QED BY <1>1, PaddingInvariant, PTL

\* A pass passes over part of one second at most.
THEOREM SecondsAreAccounted ==
  ASSUME UidsAreNaturals PROVE PaddingSpec => []SecondsAccounted
  <1>1. ASSUME PassInv PROVE SecondsAccounted
    <2> DEFINE d == UidsPerSecond * (lastSecond - StartSecond - passes)
    <2>1. d \in Int /\ Len(produced) \in Nat /\ Offset \in Nat
      BY <1>1, BatchType, BatchesOf, PassPlaces DEF PassInv, PassTypeOK
    <2>2. d + (IF pass = NoPass THEN 0 ELSE Offset) <= Len(produced)
      BY <1>1 DEF PassInv, BatchAccounted
    <2>3. d <= Len(produced)
      <3> HIDE DEF d
      <3> QED BY <2>1, <2>2
    <2> QED BY <2>3 DEF SecondsAccounted
  <1> QED BY <1>1, PaddingInvariant, PTL

-----------------------------------------------------------------------------
(* The threshold and the stack *)

\* A factor below 100 percent leaves the threshold within the ring.
LEMMA ThresholdType ==
  PaddingThreshold \in Nat /\ PaddingThreshold <= BufferSize - 1
  <1> DEFINE x == BufferSize * PaddingFactor
  <1>1. BufferSize \in Nat \ {0} /\ PaddingFactor \in 1 .. 99
    BY SizeType, FactorAssumption
  <1>2. x \in Nat /\ x <= BufferSize * 99
    BY <1>1
  <1>3. x < 100 * BufferSize
    BY <1>1, <1>2
  <1>4. PaddingThreshold = x \div 100
    BY DEF PaddingThreshold
  <1> HIDE DEF x
  <1> QED BY <1>1, <1>2, <1>3, <1>4

\* The last frame of a stack that has one.
LEMMA TopFrame ==
  ASSUME TypeOK, frames # <<>>
  PROVE  /\ Len(frames) \in Nat \ {0} /\ DOMAIN frames = 1 .. Len(frames)
         /\ Last(frames) = frames[Len(frames)] /\ Last(frames) \in Frame
  <1> DEFINE F == Frame
  <1>1. frames \in Seq(F)
    BY DEF TypeOK
  <1> HIDE DEF F
  <1>2. /\ Len(frames) \in Nat \ {0} /\ Last(frames) = frames[Len(frames)]
        /\ Last(frames) \in F
    BY <1>1, FrontProperties
  <1> QED BY <1>1, <1>2 DEF F

\* A call-out pushes a frame, ...
LEMMA PushedFrame ==
  ASSUME TypeOK, NEW at \in {"padding", "handler"}, PushFrame(at)
  PROVE  /\ Len(frames) \in Nat /\ Len(frames') = Len(frames) + 1 /\ frames' # <<>>
         /\ DOMAIN frames = 1 .. Len(frames) /\ DOMAIN frames' = 1 .. Len(frames')
         /\ \A k \in DOMAIN frames : frames'[k] = frames[k]
         /\ frames'[Len(frames')] = [cur |-> cursor, nxt |-> NextCursor, at |-> at]
         /\ Last(frames') = frames'[Len(frames')]
  <1> DEFINE f == [cur |-> cursor, nxt |-> NextCursor, at |-> at]
             F == Frame
  <1>1. f \in F /\ frames \in Seq(F)
    BY DEF TypeOK, Frame, Position, NextCursor
  <1>2. frames' = Append(frames, f)
    BY DEF PushFrame
  <1> HIDE DEF f, F
  <1>3. /\ Len(frames) \in Nat /\ Len(frames') = Len(frames) + 1
        /\ frames' \in Seq(F)
        /\ DOMAIN frames = 1 .. Len(frames) /\ DOMAIN frames' = 1 .. Len(frames) + 1
        /\ \A k \in 1 .. Len(frames) : frames'[k] = frames[k]
        /\ frames'[Len(frames) + 1] = f
    BY <1>1, <1>2, AppendKeeps
  <1>4. frames' # <<>>
    BY <1>3, EmptySeq
  <1>5. Last(frames') = frames'[Len(frames')]
    BY DEF Last
  <1> QED BY <1>3, <1>4, <1>5 DEF f

\* ... the end of a take pops it, ...
LEMMA PoppedFrame ==
  ASSUME TypeOK, frames # <<>>, PopFrame
  PROVE  /\ Len(frames) \in Nat \ {0} /\ Len(frames') = Len(frames) - 1
         /\ DOMAIN frames = 1 .. Len(frames) /\ DOMAIN frames' = 1 .. Len(frames')
         /\ \A k \in DOMAIN frames' : frames'[k] = frames[k]
         /\ frames' # <<>> => Last(frames') = frames'[Len(frames')]
                              /\ Len(frames') \in DOMAIN frames'
  <1> DEFINE F == Frame
  <1>1. frames \in Seq(F) /\ frames' = Front(frames)
    BY DEF TypeOK, PopFrame
  <1> HIDE DEF F
  <1>2. /\ Len(frames) \in Nat \ {0} /\ Len(frames') = Len(frames) - 1
        /\ frames' \in Seq(F)
        /\ \A k \in 1 .. Len(frames) - 1 : frames'[k] = frames[k]
    BY <1>1, FrontProperties
  <1>3. frames' # <<>> => Len(frames') # 0
    BY <1>2, EmptySeq
  <1>4. Last(frames') = frames'[Len(frames')]
    BY DEF Last
  <1> QED BY <1>1, <1>2, <1>3, <1>4

\* ... and a take on an empty ring replaces it.
LEMMA ReplacedFrame ==
  ASSUME TypeOK, frames # <<>>, NEW g \in Frame, ReplaceFrame(g)
  PROVE  /\ Len(frames) \in Nat \ {0} /\ Len(frames') = Len(frames)
         /\ DOMAIN frames = 1 .. Len(frames) /\ DOMAIN frames' = 1 .. Len(frames)
         /\ \A k \in 1 .. Len(frames) - 1 : frames'[k] = frames[k]
         /\ frames'[Len(frames)] = g /\ Last(frames') = g
  <1> DEFINE F == Frame
  <1>1. frames \in Seq(F) /\ g \in F
    BY DEF TypeOK
  <1> HIDE DEF F
  <1>2. /\ Len(frames) \in Nat \ {0} /\ Len(Front(frames)) = Len(frames) - 1
        /\ Front(frames) \in Seq(F)
        /\ \A k \in 1 .. Len(frames) - 1 : Front(frames)[k] = frames[k]
    BY <1>1, FrontProperties
  <1>3. /\ Len(frames') = Len(frames) /\ DOMAIN frames' = 1 .. Len(frames)
        /\ \A k \in 1 .. Len(frames) - 1 : frames'[k] = frames[k]
        /\ frames'[Len(frames)] = g
    BY <1>1, <1>2, AppendKeeps DEF ReplaceFrame
  <1>4. Last(frames') = frames'[Len(frames')]
    BY DEF Last
  <1> QED BY <1>1, <1>2, <1>3, <1>4

-----------------------------------------------------------------------------
(* Takes *)

\* With nothing inside the passes, client code runs when no pass is on the stack
\* and no take is inside asyncPadding().
LEMMA TakesRunAtRest ==
  ASSUME TypeOK, DefaultHandlers, StackInOrder, ClientMayTake
  PROVE  pass = NoPass /\ ~PaddingOnTop /\ executor # "none"
  BY DEF ClientMayTake, DefaultHandlers, StackInOrder, Idle, InPutHandler,
         TakeOnTop, PassOnTop, PaddingOnTop

\* Then no frame is inside asyncPadding().
LEMMA NoPaddingFrame ==
  ASSUME TypeOK, StackInOrder, ~PaddingOnTop, NEW k \in DOMAIN frames
  PROVE  frames[k].at # "padding"
  <1>1. frames # <<>>
    OBVIOUS
  <1> QED BY <1>1, TopFrame DEF StackInOrder, PaddingOnTop

\* An empty ring that was at rest has never been filled, if the threshold is
\* not 0.
LEMMA EmptyAtRest ==
  ASSUME SlotInv, RestKept, pass = NoPass, ~PaddingOnTop, ~TakeFindsUid,
         PaddingThreshold > 0
  PROVE  cursor = START_POINT
  <1>1. /\ tail \in Int /\ cursor = tail /\ produced \in Seq(Uid)
        /\ Len(produced) = tail + 1 /\ PaddingThreshold \in Nat
    BY ThresholdType DEF SlotInv, TypeOK, Position, HistoryOK, TakeFindsUid
  <1>2. produced = <<>>
    BY <1>1 DEF RestKept, AtRest
  <1> QED BY <1>1, <1>2

\* A take leaves the threshold behind it, or has the pool pad.
LEMMA ClientTakesKeepsRest ==
  ASSUME ClaimInv, PassInv, RestInv, DefaultHandlers, ClientTakes
  PROVE  RestInv'
  <1>1. /\ pass = NoPass /\ ~PaddingOnTop /\ executor # "none"
        /\ pass' = NoPass /\ TypeOK /\ SlotInv /\ StackInOrder
        /\ ~returned
        /\ executor # "shutdown" => RestKept /\ OnlyFirstTakeFails
    BY TakesRunAtRest DEF ClientTakes, padVars, RestInv, ClaimInv, SlotInv
  <1>2. \A k \in DOMAIN frames : frames[k].at # "padding"
    BY <1>1, NoPaddingFrame
  <1>3. /\ executor \in {"up", "shutdown"}
        /\ tail \in Int /\ cursor \in Int /\ PaddingThreshold \in Nat
        /\ NextCursor \in Int
    BY <1>1, ThresholdType DEF TypeOK, Position, NextCursor
  <1>4. CASE TakeDirectly
    <2>1. /\ UNCHANGED <<tail, frames, executor, produced, returned>>
          /\ cursor' = NextCursor /\ ~CallsExecutor
      BY <1>4 DEF TakeDirectly
    <2>2. ~PaddingOnTop' /\ StackInOrder'
      BY <1>1, <1>2, <2>1 DEF StackInOrder, PaddingOnTop
    <2>3. RestKept'
      <3>1. tail - NextCursor >= PaddingThreshold
        BY <1>1, <1>3, <2>1 DEF CallsExecutor, BelowThreshold
      <3> QED BY <1>3, <2>1, <3>1 DEF RestKept, PaddingThreshold
    <2>4. executor # "shutdown" => OnlyFirstTakeFails'
      BY <1>1, <2>1 DEF OnlyFirstTakeFails, PaddingThreshold
    <2> QED BY <1>1, <2>1, <2>2, <2>3, <2>4 DEF RestInv
  <1>5. CASE TakeCallsPadding \/ TakeCallsHandler
    <2>1. PICK at \in {"padding", "handler"} :
            /\ PushFrame(at) /\ cursor' = NextCursor
            /\ UNCHANGED <<tail, executor, produced, returned>>
            /\ at = "handler" => ~TakeFindsUid /\ ~CallsExecutor
      BY <1>5 DEF TakeCallsPadding, TakeCallsHandler, ringVars, history,
          TakeFindsUid, NextCursor
    <2> DEFINE f == [cur |-> cursor, nxt |-> NextCursor, at |-> at]
               n == Len(frames)
    <2>2. /\ n \in Nat /\ Len(frames') = n + 1 /\ frames' # <<>>
          /\ DOMAIN frames = 1 .. n /\ DOMAIN frames' = 1 .. n + 1
          /\ \A k \in 1 .. n : frames'[k] = frames[k]
          /\ frames'[n + 1] = f /\ Last(frames') = f
      BY <1>1, <2>1, PushedFrame
    <2>3. StackInOrder'
      BY <1>1, <1>2, <2>1, <2>2 DEF StackInOrder, PaddingOnTop
    <2>4. ASSUME executor # "shutdown" PROVE RestKept' /\ OnlyFirstTakeFails'
      <3>1. f.nxt = f.cur <=> ~TakeFindsUid
        BY <1>3 DEF NextCursor, TakeFindsUid
      <3>2. at = "handler" => tail - NextCursor >= PaddingThreshold
        BY <1>1, <1>3, <2>1 DEF CallsExecutor, BelowThreshold
      <3>3. RestKept'
        <4>1. at = "padding" => ~AtRest'
          BY <1>1, <2>2 DEF AtRest, PaddingOnTop, NoPass
        <4> QED BY <1>3, <2>1, <3>2, <4>1 DEF RestKept, PaddingThreshold
      <3>4. PaddingThreshold > 0 /\ ~TakeFindsUid => cursor = START_POINT
        BY <1>1, <2>4, EmptyAtRest
      <3>5. OnlyFirstTakeFails'
        <4> HIDE DEF f
        <4>1. f.cur = cursor
          BY DEF f
        <4> QED BY <1>1, <2>2, <2>4, <3>1, <3>4, <4>1
            DEF OnlyFirstTakeFails, PaddingThreshold
      <3> QED BY <3>3, <3>5
    <2> QED BY <1>1, <2>1, <2>3, <2>4 DEF RestInv
  <1>6. CASE TakeRefusedByPool
    <2>1. UNCHANGED <<frames, executor, returned>> /\ executor = "shutdown"
      BY <1>6 DEF TakeRefusedByPool
    <2>2. StackInOrder'
      BY <1>1, <1>2, <2>1 DEF StackInOrder, PaddingOnTop
    <2> QED BY <1>1, <2>1, <2>2 DEF RestInv
  <1> QED BY <1>4, <1>5, <1>6 DEF ClientTakes

\* The default rejected-take handler throws: the take goes, claiming nothing.
LEMMA TakeHandlerEndsKeepsRest ==
  ASSUME ClaimInv, PassInv, RestInv, DefaultHandlers, TakeHandlerEnds
  PROVE  RestInv'
  <1>1. /\ TakeOnTop /\ HandlerThrows /\ UNCHANGED pass
        /\ TypeOK /\ StackInOrder /\ ~returned
        /\ executor # "shutdown" => RestKept /\ OnlyFirstTakeFails
    BY DEF TakeHandlerEnds, HandlerReturns, DefaultHandlers, padVars, RestInv,
        ClaimInv, SlotInv
  <1>2. /\ frames # <<>> /\ Last(frames).at = "handler" /\ PopFrame
        /\ UNCHANGED <<tail, cursor, executor, produced, returned>>
    BY <1>1 DEF HandlerThrows, ringVars, history
  <1>3. pass = NoPass /\ ~PaddingOnTop
    BY <1>1, <1>2 DEF StackInOrder, TakeOnTop, PassOnTop, PaddingOnTop
  <1>4. \A k \in DOMAIN frames : frames[k].at # "padding"
    BY <1>1, <1>3, NoPaddingFrame
  <1>5. /\ DOMAIN frames' \subseteq DOMAIN frames
        /\ \A k \in DOMAIN frames' : frames'[k] = frames[k]
        /\ frames' # <<>> => Last(frames') = frames'[Len(frames')]
                             /\ Len(frames') \in DOMAIN frames'
    BY <1>1, <1>2, PoppedFrame
  <1>6. ~PaddingOnTop' /\ StackInOrder'
    BY <1>1, <1>3, <1>4, <1>5 DEF PaddingOnTop, StackInOrder
  <1>7. executor # "shutdown" => RestKept' /\ OnlyFirstTakeFails'
    BY <1>1, <1>2, <1>3, <1>5
    DEF RestKept, AtRest, OnlyFirstTakeFails, PaddingThreshold
  <1> QED BY <1>1, <1>2, <1>6, <1>7 DEF RestInv

-----------------------------------------------------------------------------
(* Passes *)

\* A step that leaves the stack, the cursor and the executor alone, outside a
\* handler.
LEMMA StepsInsidePassKeepRest ==
  ASSUME ClaimInv, RestInv, DefaultHandlers,
         UNCHANGED <<cursor, executor, frames, returned>>,
         pass # NoPass, pass' # NoPass, pass'.at # "handler",
         pass'.by = pass.by, pass'.depth = pass.depth
  PROVE  RestInv'
  <1>1. StackInOrder'
    BY DEF RestInv, StackInOrder, PaddingOnTop
  <1>2. executor # "shutdown" => RestKept' /\ OnlyFirstTakeFails'
    BY DEF RestInv, RestKept, AtRest, OnlyFirstTakeFails, PaddingThreshold
  <1> QED BY <1>1, <1>2 DEF RestInv

\* A pass begins on an empty stack, or in the take on top of it.
LEMMA BeginPassKeepsRest ==
  ASSUME ClaimInv, RestInv, DefaultHandlers,
         NEW by \in {"take", "direct", "timer"}, BeginPass(by),
         IF by = "take" THEN PaddingOnTop ELSE Idle
  PROVE  RestInv'
  <1>1. /\ UNCHANGED <<cursor, executor, frames, returned>>
        /\ pass' = [at |-> "provider", by |-> by, depth |-> Len(frames), next |-> 0]
    BY DEF BeginPass, vars, ringVars, history
  <1>2. /\ pass'.at = "provider" /\ pass'.by = by /\ pass'.depth = Len(frames)
        /\ pass' # NoPass
    BY <1>1 DEF NoPass
  <1>3. StackInOrder'
    BY <1>1, <1>2 DEF RestInv, StackInOrder, PaddingOnTop, Idle
  <1>4. executor # "shutdown" => RestKept' /\ OnlyFirstTakeFails'
    BY <1>1, <1>2 DEF RestInv, RestKept, AtRest, OnlyFirstTakeFails, PaddingThreshold
  <1> QED BY <1>1, <1>3, <1>4 DEF RestInv

\* With nothing inside the passes, a claimed position is that of the take on top.
LEMMA ClaimIsOnTop ==
  ASSUME ClaimInv, StackInOrder, NEW p \in ClaimedPositions
  PROVE  p = cursor
  <1>1. PICK k \in DOMAIN frames : frames[k].nxt # frames[k].cur /\ p = frames[k].nxt
    BY DEF ClaimedPositions, Claims
  <1>2. frames[k].at # "handler"
    BY <1>1 DEF ClaimInv, ClaimsTracked, HandlerClaimsNothing
  <1>3. TypeOK /\ frames[k] \in Frame /\ frames # <<>>
    BY <1>1 DEF ClaimInv, SlotInv, TypeOK
  <1>4. frames[k].at = "padding"
    BY <1>2, <1>3 DEF Frame
  <1>5. k = Len(frames) /\ Last(frames) = frames[Len(frames)]
    BY <1>3, <1>4, TopFrame DEF StackInOrder
  <1> QED BY <1>1, <1>3, <1>4, <1>5 DEF StackInOrder, PaddingOnTop

\* A pass ends because the ring is full, but for the slot of the take it pads for.
LEMMA RefusedWhenFull ==
  ASSUME ClaimInv, StackInOrder, ~returned, executor # "shutdown", ~PutAccepted
  PROVE  tail - cursor >= BufferSize - 1
  <1>1. /\ tail \in Int /\ cursor \in Int /\ cursor >= -1 /\ cursor <= tail
        /\ BufferSize \in Nat \ {0}
    BY SizeType DEF ClaimInv, SlotInv, TypeOK, Position
  <1>2. CASE Distance = BufferSize - 1
    BY <1>1, <1>2 DEF Distance
  <1>3. CASE Distance # BufferSize - 1
    <2>1. lost = {}
      BY DEF ClaimInv, ClaimsTracked, NoUidLeaks
    <2>2. tail + 1 - BufferSize \in ClaimedPositions
      BY <1>3, <2>1, RefusalIsForClaim DEF RefusalIsJustified
    <2>3. tail + 1 - BufferSize = cursor
      BY <2>2, ClaimIsOnTop
    <2> QED BY <1>1, <2>3
  <1> QED BY <1>2, <1>3

\* A refused put leaves the threshold in the ring.
LEMMA PutRefusedKeepsRest ==
  ASSUME ClaimInv, PassInv, RestInv, DefaultHandlers, PutRefused
  PROVE  RestInv'
  <1>1. /\ pass.at = "putting" /\ ~PutAccepted
        /\ pass' = [pass EXCEPT !.at = "handler"]
        /\ UNCHANGED <<tail, cursor, executor, frames, produced, returned>>
    BY DEF PutRefused, PutRejected, vars, ringVars, history
  <1>2. pass \in Pass /\ pass # NoPass
    BY <1>1 DEF PassInv, PassTypeOK, NoPass
  <1>3. /\ pass' # NoPass /\ pass'.at = "handler"
        /\ pass'.by = pass.by /\ pass'.depth = pass.depth
    BY <1>1, <1>2 DEF Pass, NoPass
  <1>4. StackInOrder'
    BY <1>1, <1>2, <1>3 DEF RestInv, StackInOrder, PaddingOnTop
  <1>5. ASSUME executor # "shutdown" PROVE RestKept' /\ OnlyFirstTakeFails'
    <2>1. tail - cursor >= BufferSize - 1
      BY <1>1, <1>5, RefusedWhenFull DEF RestInv
    <2>2. /\ tail \in Int /\ cursor \in Int /\ BufferSize \in Nat
          /\ PaddingThreshold \in Nat /\ PaddingThreshold <= BufferSize - 1
      BY SizeType, ThresholdType DEF ClaimInv, SlotInv, TypeOK, Position
    <2>3. RestKept'
      BY <1>1, <2>1, <2>2 DEF RestKept, PaddingThreshold
    <2>4. OnlyFirstTakeFails'
      BY <1>1, <1>5 DEF RestInv, OnlyFirstTakeFails, PaddingThreshold
    <2> QED BY <2>3, <2>4
  <1> QED BY <1>1, <1>4, <1>5 DEF RestInv

\* A uid more, put by the handler, keeps it there.
LEMMA PutHandlerPutsKeepsRest ==
  ASSUME ClaimInv, RestInv, DefaultHandlers, PutHandlerPuts
  PROVE  RestInv'
  <1>1. /\ pass.at = "handler" /\ tail' = tail + 1
        /\ UNCHANGED <<pass, cursor, executor, frames, returned>>
    BY DEF PutHandlerPuts, InPutHandler, Put, padVars
  <1>2. StackInOrder'
    BY <1>1 DEF RestInv, StackInOrder, PaddingOnTop
  <1>3. ASSUME executor # "shutdown" PROVE RestKept' /\ OnlyFirstTakeFails'
    <2>1. tail \in Int /\ cursor \in Int /\ PaddingThreshold \in Nat
      BY ThresholdType DEF ClaimInv, SlotInv, TypeOK, Position
    <2>2. tail - cursor >= PaddingThreshold
      BY <1>1, <1>3 DEF RestInv, RestKept, AtRest
    <2> QED BY <1>1, <1>3, <2>1, <2>2
        DEF RestInv, RestKept, OnlyFirstTakeFails, PaddingThreshold
  <1> QED BY <1>1, <1>2, <1>3 DEF RestInv

\* The pass leaves the stack, and the take it padded for, if any, goes on.
LEMMA LeavePassKeepsRest ==
  ASSUME ClaimInv, PassInv, RestInv, DefaultHandlers,
         PutHandlerReturns \/ PutHandlerThrows
  PROVE  RestInv'
  <1>1. /\ pass.at = "handler" /\ pass # NoPass /\ pass' = NoPass
        /\ pass.by = "take" => PaddingReturns
        /\ pass.by # "take" => UNCHANGED vars
        /\ TypeOK /\ StackInOrder /\ ~returned
    BY DEF PutHandlerReturns, PutHandlerThrows, InPutHandler, PassOnTop, LeavePass,
        RestInv, ClaimInv, SlotInv
  <1>2. UNCHANGED <<tail, cursor, executor, produced, returned>>
    BY <1>1 DEF PaddingReturns, vars, ringVars, history
  <1>3. executor # "shutdown" => RestKept'
    BY <1>1, <1>2 DEF RestInv, RestKept, AtRest, PaddingThreshold
  <1>4. CASE pass.by # "take"
    <2>1. UNCHANGED frames /\ frames = <<>>
      BY <1>1, <1>4 DEF vars, StackInOrder
    <2>2. StackInOrder' /\ (executor # "shutdown" => OnlyFirstTakeFails')
      BY <1>1, <2>1 DEF StackInOrder, PaddingOnTop, OnlyFirstTakeFails
    <2> QED BY <1>1, <1>2, <1>3, <2>2 DEF RestInv
  <1>5. CASE pass.by = "take"
    <2> DEFINE f == Last(frames)
               n == Len(frames)
    <2>1. /\ frames # <<>> /\ f \in Frame /\ n \in Nat \ {0} /\ n \in DOMAIN frames
          /\ f = frames[n] /\ PaddingReturns
          /\ \A k \in DOMAIN frames : frames[k].at = "padding" => k = n
          /\ executor # "shutdown" => OnlyFirstTakeFails
      BY <1>1, <1>5, TopFrame DEF PaddingReturns, StackInOrder, RestInv
    <2>2. CASE f.nxt = f.cur
      <3> DEFINE g == [f EXCEPT !.at = "handler"]
      <3>1. /\ g \in Frame /\ g.nxt = f.nxt /\ g.cur = f.cur /\ g.at = "handler"
            /\ ReplaceFrame(g)
        BY <2>1, <2>2 DEF PaddingReturns, ReplaceFrame, Frame
      <3> HIDE DEF g
      <3>2. /\ DOMAIN frames = 1 .. n /\ DOMAIN frames' = 1 .. n
            /\ \A k \in 1 .. n - 1 : frames'[k] = frames[k]
            /\ frames'[n] = g /\ Last(frames') = g
        BY <1>1, <2>1, <3>1, ReplacedFrame
      <3>3. StackInOrder'
        BY <1>1, <2>1, <3>1, <3>2 DEF StackInOrder, PaddingOnTop
      <3>4. executor # "shutdown" => OnlyFirstTakeFails'
        BY <2>1, <3>1, <3>2 DEF OnlyFirstTakeFails, PaddingThreshold
      <3> QED BY <1>1, <1>2, <1>3, <3>3, <3>4 DEF RestInv
    <2>3. CASE f.nxt # f.cur
      <3>1. PopFrame
        BY <2>1, <2>3 DEF PaddingReturns
      <3>2. /\ DOMAIN frames' = 1 .. n - 1 /\ DOMAIN frames = 1 .. n
            /\ \A k \in 1 .. n - 1 : frames'[k] = frames[k]
            /\ frames' # <<>> => Last(frames') = frames'[Len(frames')]
                                 /\ Len(frames') \in DOMAIN frames'
        BY <1>1, <2>1, <3>1, PoppedFrame
      <3>3. StackInOrder'
        BY <1>1, <2>1, <3>2 DEF StackInOrder, PaddingOnTop
      <3>4. executor # "shutdown" => OnlyFirstTakeFails'
        BY <2>1, <3>2 DEF OnlyFirstTakeFails, PaddingThreshold
      <3> QED BY <1>1, <1>2, <1>3, <3>3, <3>4 DEF RestInv
    <2> QED BY <2>2, <2>3
  <1> QED BY <1>4, <1>5

\* With nothing inside the passes, asyncPadding() always finds `running` reset.
LEMMA NoPaddingIsSkipped ==
  ASSUME PassInv, StackInOrder, DefaultHandlers
  PROVE  ~AsyncPaddingSkipped
  BY DEF AsyncPaddingSkipped, DefaultHandlers, PassInv, RunningFlag, StackInOrder,
         TakeOnTop, PassOnTop

-----------------------------------------------------------------------------
(* The closed system with the default handlers *)

\* Every step keeps the stack in order and the threshold in the ring.
LEMMA RestStep ==
  ASSUME ClaimInv, PassInv, RestInv, [PaddingNext]_allVars
  PROVE  RestInv'
  <1> SUFFICES ASSUME DefaultHandlers PROVE RestInv'
    BY DEF RestInv, DefaultHandlers
  <1>0. StackInOrder /\ ~returned
    BY DEF RestInv
  <1>1. CASE ClientTakes
    BY <1>1, ClientTakesKeepsRest
  <1>2. CASE TakeHandlerEnds
    BY <1>2, TakeHandlerEndsKeepsRest
  <1>3. CASE AsyncPaddingBegins
    BY <1>3, BeginPassKeepsRest DEF AsyncPaddingBegins, TakeOnTop, PaddingOnTop
  <1>4. CASE PaddingBufferCalled
    BY <1>4, BeginPassKeepsRest DEF PaddingBufferCalled
  <1>5. CASE AskProvider
    <2>1. /\ pass.at = "provider" /\ pass # NoPass
          /\ pass' = [pass EXCEPT !.at = "putting", !.next = 0]
          /\ UNCHANGED <<cursor, executor, frames, returned>>
      BY <1>5 DEF AskProvider, PassOnTop, vars, ringVars, history
    <2>2. pass \in Pass
      BY <2>1 DEF PassInv, PassTypeOK
    <2>3. /\ pass' # NoPass /\ pass'.at # "handler"
          /\ pass'.by = pass.by /\ pass'.depth = pass.depth
      BY <2>1, <2>2 DEF Pass, NoPass
    <2> QED BY <2>1, <2>3, StepsInsidePassKeepRest
  <1>6. CASE PutNext
    <2> DEFINE place == IF pass.next + 1 = UidsPerSecond THEN "provider" ELSE "putting"
               next == pass.next + 1
    <2>1. /\ pass.at = "putting" /\ pass # NoPass
          /\ pass' = [pass EXCEPT !.next = next, !.at = place]
          /\ UNCHANGED <<cursor, executor, frames, returned>>
      BY <1>6 DEF PutNext, PassOnTop, Put
    <2>2. /\ pass \in Pass /\ place \in {"provider", "putting"} /\ next \in Nat
      BY <2>1 DEF PassInv, PassTypeOK, Pass
    <2> HIDE DEF place, next
    <2>3. /\ pass' # NoPass /\ pass'.at # "handler"
          /\ pass'.by = pass.by /\ pass'.depth = pass.depth
      BY <2>1, <2>2 DEF Pass, NoPass
    <2> QED BY <2>1, <2>3, StepsInsidePassKeepRest
  <1>7. CASE PutRefused
    BY <1>7, PutRefusedKeepsRest
  <1>8. CASE PutHandlerReturns \/ PutHandlerThrows
    BY <1>8, LeavePassKeepsRest
  <1>9. CASE PutHandlerPuts
    BY <1>9, PutHandlerPutsKeepsRest
  <1>10. CASE TimerFires /\ TimerBeginsPass
    BY <1>10, BeginPassKeepsRest DEF TimerFires, TimerBeginsPass
  <1>11. ASSUME UNCHANGED <<tail, cursor, frames, produced, returned, pass>>,
                executor' # "shutdown" => executor # "shutdown"
         PROVE  RestInv'
    BY <1>11 DEF RestInv, StackInOrder, PaddingOnTop, RestKept, AtRest,
        OnlyFirstTakeFails, PaddingThreshold
  <1>12. CASE Wire \/ Start \/ Shutdown
    BY <1>11, <1>12 DEF Wire, Start, Shutdown, SetBufferPaddingExecutor,
        ShutdownExecutor, padVars, vars, ringVars, history
  <1>13. CASE TimerFiresAfterShutdown \/ TimerSkipsPass \/ UNCHANGED allVars
    BY <1>11, <1>13 DEF TimerFiresAfterShutdown, TimerSkipsPass, allVars, padVars,
        vars, ringVars, history
  <1> QED BY <1>0, <1>1, <1>2, <1>3, <1>4, <1>5, <1>6, <1>7, <1>8, <1>9, <1>10,
      <1>12, <1>13, NoPaddingIsSkipped DEF PaddingNext, PassStep, TimerFires

\* The inductive invariant of the closed system with the default handlers.
THEOREM RestInvariant ==
  ASSUME UidsAreNaturals PROVE PaddingSpec => []RestInv
  <1>1. PaddingInit => RestInv
    BY ThresholdType
    DEF PaddingInit, Init, RestInv, StackInOrder, PaddingOnTop, RestKept, AtRest,
        NoPass, OnlyFirstTakeFails
  <1>2. ClaimInv /\ PassInv /\ RestInv /\ [PaddingNext]_allVars => RestInv'
    BY RestStep
  <1> QED BY <1>1, <1>2, PaddingInvariant, PTL DEF PaddingSpec

\* With the default handlers, whenever the event loop has control a ring that was
\* filled holds the threshold, however takes, timers and passes were mixed.
THEOREM RestStaysAboveThreshold ==
  ASSUME UidsAreNaturals PROVE PaddingSpec => []RestAboveThreshold
  <1>1. RestInv => RestAboveThreshold
    BY DEF RestInv, RestAboveThreshold, RestKept, AtRest, Idle, PaddingOnTop
  <1> QED BY <1>1, RestInvariant, PTL

\* With the default handlers and a threshold, take() throws 'Rejected take buffer'
\* only on a ring that was never filled, while the pool is up.
THEOREM FilledRingNeverRejects ==
  ASSUME UidsAreNaturals PROVE PaddingSpec => []NeverRejectedOnceFilled
  <1>1. ASSUME ClaimInv, RestInv PROVE NeverRejectedOnceFilled
    <2> SUFFICES ASSUME executor = "up", PaddingThreshold > 0, DefaultHandlers,
                        NEW k \in DOMAIN frames, frames[k].at = "handler"
                 PROVE  frames[k].cur = START_POINT
      BY DEF NeverRejectedOnceFilled
    <2>1. frames[k].nxt = frames[k].cur
      BY <1>1 DEF ClaimInv, ClaimsTracked, HandlerClaimsNothing
    <2> QED BY <1>1, <2>1 DEF RestInv, OnlyFirstTakeFails
  <1> QED BY <1>1, RestInvariant, PaddingInvariant, PTL
=============================================================================
