-------------------------- MODULE TripLedgerProofs --------------------------
(***************************************************************************)
(* Proofs about the trip ledger for every value of the constants.          *)
(*                                                                         *)
(* TypeOK alone is not inductive: End computes the fare from the row's     *)
(* pickup and drop, and a Request goroutine publishes the pickup, so the   *)
(* proof must know that these rows exist.  The claims about drivers need  *)
(* more: a driver is set exactly when the status is past assignment, an    *)
(* End handler between its read and its write holds the trip's driver and *)
(* a trip that is STARTED or COMPLETED.  LedgerInv collects these facts.   *)
(***************************************************************************)
EXTENDS TripLedger, SequenceTheorems, TLAPS

(* Statuses at which the row has a driver.                                 *)
Active == {"DRIVER_ASSIGNED", "STARTED", "COMPLETED"}

(* An inserted row has its pickup and drop.                                *)
RowsInserted ==
    \A t \in Trips : status[t] # "NONE" => pickup[t] \in Points /\ drop[t] \in Points

(* A Request goroutine only exists for an inserted row.                    *)
OutboxInserted == \A t \in outbox : status[t] # "NONE"

(* driver_id is set exactly when the status is past assignment.            *)
DriverIffActive == \A t \in Trips : driver[t] # Nil <=> status[t] \in Active

(* An End handler that passed its check holds the trip's current driver,  *)
(* and the trip is STARTED or already COMPLETED by another End.           *)
EndingAgrees ==
    \A h \in Handlers : ending[h] # Nil =>
        /\ ending[h].driver = driver[ending[h].trip]
        /\ status[ending[h].trip] \in {"STARTED", "COMPLETED"}

LedgerInv ==
    /\ TypeOK
    /\ RowsInserted
    /\ OutboxInserted
    /\ DriverIffActive
    /\ EndingAgrees
    /\ CompletedEventsAgree

USE LedgerAssumption DEF LedgerAssumption

-----------------------------------------------------------------------------
LEMMA InitInv == LedgerInit => LedgerInv
<1> SUFFICES ASSUME LedgerInit PROVE LedgerInv
  OBVIOUS
<1>1. <<>> \in Seq(RideRequestedEvent) /\ <<>> \in Seq(TripCompletedEvent)
  BY EmptySeq
<1>2. TypeOK
  BY <1>1 DEF LedgerInit, TypeOK, Statuses
<1>3. Len(completed) = 0
  BY EmptySeq DEF LedgerInit
<1>4. QED
  BY <1>2, <1>3 DEF LedgerInit, LedgerInv, RowsInserted, OutboxInserted,
                    DriverIffActive, EndingAgrees, CompletedEventsAgree, Active

(* The fare End computes is a natural number once the row exists.          *)
LEMMA TripFareNat ==
    ASSUME NEW km \in Distances, NEW t \in Trips,
           pickup[t] \in Points, drop[t] \in Points
    PROVE  TripFare(km, t) \in Nat
<1>1. km \in Nat /\ pickup[t] \in Nat /\ drop[t] \in Nat
  BY LedgerAssumption
<1>2. haversineKm(pickup[t], drop[t]) \in Nat
  BY <1>1 DEF haversineKm
<1>3. QED
  BY <1>1, <1>2 DEF TripFare

LEMMA RequestInv ==
    ASSUME LedgerInv, NEW t \in Trips, NEW p \in Points, NEW q \in Points,
           Request(t, p, q)
    PROVE  LedgerInv'
<1> USE DEF LedgerInv, Request
<1>1. driver[t] = Nil /\ status[t] = "NONE"
  BY DEF DriverIffActive, Active
<1>2. TypeOK'
  BY DEF TypeOK, Statuses
<1>3. RowsInserted'
  BY DEF TypeOK, RowsInserted
<1>4. OutboxInserted'
  BY DEF TypeOK, OutboxInserted
<1>5. DriverIffActive'
  BY <1>1 DEF TypeOK, DriverIffActive, Active
<1>6. EndingAgrees'
  BY DEF TypeOK, EndingAgrees, EndState
<1>7. CompletedEventsAgree'
  BY DEF TypeOK, CompletedEventsAgree, TripCompletedEvent
<1>8. QED
  BY <1>2, <1>3, <1>4, <1>5, <1>6, <1>7

LEMMA PublishRideRequestedInv ==
    ASSUME LedgerInv, NEW t \in Trips, PublishRideRequested(t)
    PROVE  LedgerInv'
<1> USE DEF LedgerInv, PublishRideRequested
<1>1. [trip |-> t, pickup |-> pickup[t]] \in RideRequestedEvent
  BY DEF OutboxInserted, RowsInserted, RideRequestedEvent
<1>2. rideRequested' \in Seq(RideRequestedEvent)
  <2>1. rideRequested \in Seq(RideRequestedEvent)
    BY DEF TypeOK
  <2>2. Append(rideRequested, [trip |-> t, pickup |-> pickup[t]])
            \in Seq(RideRequestedEvent)
    BY <1>1, <2>1, AppendProperties
  <2>3. QED
    BY <2>2
<1>3. TypeOK'
  BY <1>2 DEF TypeOK
<1>4. QED
  BY <1>3 DEF RowsInserted, OutboxInserted, DriverIffActive, EndingAgrees,
              CompletedEventsAgree

(* The conditional UPDATE that assigns a driver, as AssignDriver and the   *)
(* driver.assigned consumer run it.                                        *)
LEMMA AssignRowInv ==
    ASSUME LedgerInv, NEW t \in Trips, NEW d \in Drivers,
           AssignRow(t, d),
           UNCHANGED <<fare, pickup, drop, ending, outbox, rideRequested,
                       completed>>
    PROVE  LedgerInv'
<1> USE DEF LedgerInv, AssignRow
<1>1. status[t] \in Assignable /\ driver[t] = Nil
  BY DEF DriverIffActive, Active, Assignable
<1>2. TypeOK'
  BY DEF TypeOK, Statuses
<1>3. RowsInserted'
  BY <1>1 DEF TypeOK, RowsInserted, Assignable
<1>4. OutboxInserted'
  BY DEF TypeOK, OutboxInserted
<1>5. DriverIffActive'
  BY <1>1 DEF TypeOK, DriverIffActive, Active
<1>6. EndingAgrees'
  BY <1>1 DEF TypeOK, EndingAgrees, EndState, Assignable
<1>7. CompletedEventsAgree'
  BY <1>1 DEF TypeOK, CompletedEventsAgree, TripCompletedEvent, Assignable
<1>8. QED
  BY <1>2, <1>3, <1>4, <1>5, <1>6, <1>7

LEMMA AssignDriverInv ==
    ASSUME LedgerInv, NEW t \in Trips, NEW d \in Drivers, AssignDriver(t, d)
    PROVE  LedgerInv'
BY AssignRowInv DEF AssignDriver

LEMMA StartInv ==
    ASSUME LedgerInv, NEW t \in Trips, Start(t)
    PROVE  LedgerInv'
<1> USE DEF LedgerInv, Start
<1>1. TypeOK'
  BY DEF TypeOK, Statuses
<1>2. RowsInserted'
  BY DEF TypeOK, RowsInserted
<1>3. OutboxInserted'
  BY DEF TypeOK, OutboxInserted
<1>4. DriverIffActive'
  BY DEF TypeOK, DriverIffActive, Active
<1>5. EndingAgrees'
  BY DEF TypeOK, EndingAgrees, EndState
<1>6. CompletedEventsAgree'
  BY DEF TypeOK, CompletedEventsAgree, TripCompletedEvent
<1>7. QED
  BY <1>1, <1>2, <1>3, <1>4, <1>5, <1>6

LEMMA EndCheckInv ==
    ASSUME LedgerInv, NEW h \in Handlers, NEW t \in Trips,
           NEW km \in Distances, EndCheck(h, t, km)
    PROVE  LedgerInv'
<1> USE DEF LedgerInv, EndCheck
<1>1. pickup[t] \in Points /\ drop[t] \in Points
  BY DEF RowsInserted
<1>2. TripFare(km, t) \in Nat
  BY <1>1, TripFareNat
<1>3. TypeOK'
  BY <1>2 DEF TypeOK, EndState
<1>4. EndingAgrees'
  BY DEF TypeOK, EndingAgrees
<1>5. QED
  BY <1>3, <1>4 DEF RowsInserted, OutboxInserted, DriverIffActive,
                    CompletedEventsAgree

LEMMA EndUpdateInv ==
    ASSUME LedgerInv, NEW h \in Handlers, EndUpdate(h)
    PROVE  LedgerInv'
<1> DEFINE e == ending[h]
<1> USE DEF LedgerInv, EndUpdate
<1>1. /\ e \in EndState
      /\ e.driver = driver[e.trip]
      /\ status[e.trip] \in {"STARTED", "COMPLETED"}
  BY DEF TypeOK, EndingAgrees
<1>2. e.driver # Nil
  BY <1>1 DEF TypeOK, DriverIffActive, Active, EndState
<1>3. e \in TripCompletedEvent
  BY <1>1 DEF EndState, TripCompletedEvent
<1>4. completed' \in Seq(TripCompletedEvent)
  <2>1. completed \in Seq(TripCompletedEvent)
    BY DEF TypeOK
  <2>2. Append(completed, e) \in Seq(TripCompletedEvent)
    BY <1>3, <2>1, AppendProperties
  <2>3. QED
    BY <2>2
<1>5. TypeOK'
  BY <1>1, <1>4 DEF TypeOK, Statuses, EndState
<1>6. RowsInserted'
  BY <1>1 DEF TypeOK, RowsInserted, EndState
<1>7. OutboxInserted'
  BY <1>1 DEF TypeOK, OutboxInserted, EndState
<1>8. DriverIffActive'
  BY <1>1 DEF TypeOK, DriverIffActive, Active, EndState
<1>9. EndingAgrees'
  BY <1>1 DEF TypeOK, EndingAgrees, EndState
<1>10. CompletedEventsAgree'
  <2>1. CASE completed' = completed
    BY <1>1, <2>1 DEF TypeOK, CompletedEventsAgree, TripCompletedEvent, EndState
  <2>2. CASE completed' = Append(completed, e)
    <3>1. /\ Len(completed') = Len(completed) + 1
          /\ \A i \in 1..Len(completed) : completed'[i] = completed[i]
          /\ completed'[Len(completed) + 1] = e
      BY <2>2, <1>3, AppendProperties DEF TypeOK
    <3>2. \A i \in 1..Len(completed) :
              LET c == completed[i] IN
              /\ c.driver # Nil
              /\ c.driver = driver'[c.trip]
              /\ status'[c.trip] = "COMPLETED"
      BY <1>1 DEF TypeOK, CompletedEventsAgree, TripCompletedEvent, EndState
    <3>3. /\ e.driver = driver'[e.trip]
          /\ status'[e.trip] = "COMPLETED"
      BY <1>1 DEF TypeOK, EndState
    <3>4. Len(completed) \in Nat
      BY LenProperties DEF TypeOK
    <3>5. SUFFICES ASSUME NEW i \in 1..Len(completed')
                   PROVE  /\ completed'[i].driver # Nil
                          /\ completed'[i].driver = driver'[completed'[i].trip]
                          /\ status'[completed'[i].trip] = "COMPLETED"
      BY DEF CompletedEventsAgree
    <3>6. CASE i \in 1..Len(completed)
      BY <3>1, <3>2, <3>6
    <3>7. CASE i = Len(completed) + 1
      BY <3>1, <3>3, <3>7, <1>2
    <3>8. QED
      BY <3>1, <3>4, <3>6, <3>7
  <2>3. QED
    BY <2>1, <2>2
<1>11. QED
  BY <1>5, <1>6, <1>7, <1>8, <1>9, <1>10

LEMMA EndFailInv ==
    ASSUME LedgerInv, NEW h \in Handlers, EndFail(h)
    PROVE  LedgerInv'
<1> USE DEF LedgerInv, EndFail
<1>1. TypeOK'
  BY DEF TypeOK
<1>2. EndingAgrees'
  BY DEF TypeOK, EndingAgrees
<1>3. QED
  BY <1>1, <1>2 DEF RowsInserted, OutboxInserted, DriverIffActive,
                    CompletedEventsAgree

LEMMA StutterInv ==
    ASSUME LedgerInv, UNCHANGED ledgerVars
    PROVE  LedgerInv'
BY DEF LedgerInv, ledgerVars, TypeOK, RowsInserted, OutboxInserted,
       DriverIffActive, EndingAgrees, CompletedEventsAgree

LEMMA NextInv == LedgerInv /\ [LedgerNext]_ledgerVars => LedgerInv'
<1> SUFFICES ASSUME LedgerInv, [LedgerNext]_ledgerVars PROVE LedgerInv'
  OBVIOUS
<1>1. CASE \E t \in Trips, p, q \in Points : Request(t, p, q)
  BY <1>1, RequestInv
<1>2. CASE \E t \in Trips : PublishRideRequested(t)
  BY <1>2, PublishRideRequestedInv
<1>3. CASE \E t \in Trips, d \in Drivers : AssignDriver(t, d)
  BY <1>3, AssignDriverInv
<1>4. CASE \E t \in Trips : Start(t)
  BY <1>4, StartInv
<1>5. CASE \E h \in Handlers, t \in Trips, km \in Distances : EndCheck(h, t, km)
  BY <1>5, EndCheckInv
<1>6. CASE \E h \in Handlers : EndUpdate(h)
  BY <1>6, EndUpdateInv
<1>7. CASE \E h \in Handlers : EndFail(h)
  BY <1>7, EndFailInv
<1>8. CASE UNCHANGED ledgerVars
  BY <1>8, StutterInv
<1>9. QED
  BY <1>1, <1>2, <1>3, <1>4, <1>5, <1>6, <1>7, <1>8 DEF LedgerNext

-----------------------------------------------------------------------------
(* LedgerInv holds in every reachable state of the ledger.                 *)
THEOREM LedgerInvariant == LedgerSpec => []LedgerInv
BY InitInv, NextInv, PTL DEF LedgerSpec

(* Every state of the ledger is well typed (TypeOK of TripLedger).         *)
THEOREM TypeCorrect == LedgerSpec => []TypeOK
BY LedgerInvariant, PTL DEF LedgerInv

(* Every trip.completed event names the driver the trip's row holds and a  *)
(* COMPLETED trip (CompletedEventsAgree of TripLedger), for any number of  *)
(* trips, drivers and concurrent End handlers.                             *)
THEOREM CompletedEventsAgreeHolds == LedgerSpec => []CompletedEventsAgree
BY LedgerInvariant, PTL DEF LedgerInv

-----------------------------------------------------------------------------
(* One step of the ledger never replaces a driver already on a row.        *)
LEMMA DriverFixedStep ==
    LedgerInv /\ [LedgerNext]_ledgerVars
      => [\A t \in Trips : driver[t] # Nil => driver'[t] = driver[t]]_ledgerVars
<1> SUFFICES ASSUME LedgerInv, [LedgerNext]_ledgerVars,
                    NEW t \in Trips, driver[t] # Nil
             PROVE  driver'[t] = driver[t]
  OBVIOUS
<1> USE DEF LedgerInv
<1>1. CASE \E u \in Trips, d \in Drivers : AssignDriver(u, d)
  <2>1. PICK u \in Trips, d \in Drivers : AssignDriver(u, d)
    BY <1>1
  <2>2. u # t
    BY <2>1 DEF AssignDriver, AssignRow, DriverIffActive, Active, Assignable
  <2>3. QED
    BY <2>1, <2>2 DEF AssignDriver, AssignRow, TypeOK
<1>2. CASE ~\E u \in Trips, d \in Drivers : AssignDriver(u, d)
  BY <1>2 DEF LedgerNext, ledgerVars, Request, PublishRideRequested, Start,
              EndCheck, EndUpdate, EndFail
<1>3. QED
  BY <1>1, <1>2

(* One step of the ledger moves each trip's status along the lifecycle.   *)
LEMMA LifecycleStep ==
    LedgerInv /\ [LedgerNext]_ledgerVars
      => [\A t \in Trips : status'[t] = status[t]
                            \/ <<status[t], status'[t]>> \in Lifecycle]_ledgerVars
<1> SUFFICES ASSUME LedgerInv, [LedgerNext]_ledgerVars, NEW t \in Trips
             PROVE  status'[t] = status[t] \/ <<status[t], status'[t]>> \in Lifecycle
  OBVIOUS
<1> USE DEF LedgerInv
<1>1. CASE \E u \in Trips, p, q \in Points : Request(u, p, q)
  BY <1>1 DEF Request, TypeOK, Lifecycle
<1>2. CASE \E u \in Trips, d \in Drivers : AssignDriver(u, d)
  BY <1>2 DEF AssignDriver, AssignRow, Assignable, TypeOK, Lifecycle
<1>3. CASE \E u \in Trips : Start(u)
  BY <1>3 DEF Start, TypeOK, Lifecycle
<1>4. CASE \E h \in Handlers : EndUpdate(h)
  <2>1. PICK h \in Handlers : EndUpdate(h)
    BY <1>4
  <2>2. status[ending[h].trip] \in {"STARTED", "COMPLETED"}
        /\ ending[h] \in EndState
    BY <2>1 DEF EndUpdate, EndingAgrees, TypeOK
  <2>3. QED
    BY <2>1, <2>2 DEF EndUpdate, TypeOK, EndState, Lifecycle
<1>5. CASE \/ \E u \in Trips : PublishRideRequested(u)
           \/ \E h \in Handlers, u \in Trips, km \in Distances : EndCheck(h, u, km)
           \/ \E h \in Handlers : EndFail(h)
           \/ UNCHANGED ledgerVars
  BY <1>5 DEF PublishRideRequested, EndCheck, EndFail, ledgerVars
<1>6. QED
  BY <1>1, <1>2, <1>3, <1>4, <1>5 DEF LedgerNext

(* Once a trip has a driver, no step of any operation replaces it          *)
(* (DriverFixedOnceAssigned): AssignDriver's conditional UPDATE only       *)
(* matches rows that have none.                                            *)
THEOREM DriverFixed == LedgerSpec => DriverFixedOnceAssigned
BY LedgerInvariant, DriverFixedStep, PTL DEF LedgerSpec, DriverFixedOnceAssigned

(* A trip's status only moves along the lifecycle of spec section 3        *)
(* (StatusFollowsLifecycle), for any number of trips and End handlers.     *)
THEOREM LifecycleFollowed == LedgerSpec => StatusFollowsLifecycle
BY LedgerInvariant, LifecycleStep, PTL DEF LedgerSpec, StatusFollowsLifecycle

=============================================================================
