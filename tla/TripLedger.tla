----------------------------- MODULE TripLedger -----------------------------
(***************************************************************************)
(* The trip ledger of ride-service (internal/trips/service.go): the trips  *)
(* table of PostgreSQL and the HTTP operations that change it.  Every      *)
(* state change of a row is one SQL statement, so it is one atomic step;   *)
(* handlers that make several calls are split at each call, because other *)
(* requests run between them.                                              *)
(*                                                                         *)
(*   Request     INSERT ... status REQUESTED, then `go publish`            *)
(*   AssignDriver  UPDATE ... WHERE id = t AND status IN (REQ, MATCHING)    *)
(*   Start       UPDATE ... WHERE id = t AND status = DRIVER_ASSIGNED       *)
(*   End         GetByID; check STARTED; compute fare; UPDATE ... WHERE id  *)
(*               (no status condition), then `go publish trip.completed`    *)
(*                                                                         *)
(* The row's identifier is a uuid: the model gives each trip a fixed id    *)
(* from Trips and marks a row not yet inserted with status NONE.           *)
(* Coordinates are points of a line, so the haversine distance of pickup   *)
(* and drop is their absolute difference; distances and fares are whole    *)
(* numbers.  The ride.requested and trip.completed topics are append-only  *)
(* logs; the Kafka producer either appends the message or fails.           *)
(***************************************************************************)
EXTENDS Naturals, Sequences

CONSTANTS
    Trips,      \* trip ids (uuid.New() in Request)
    Drivers,    \* driver ids a manual or automatic assignment may name
    Points,     \* coordinates a rider may give for pickup and drop
    Distances,  \* distanceKm an End request may carry; 0 = absent or <= 0
    Handlers,   \* HTTP handler goroutines that may be inside End at once
    Nil         \* NULL driver_id, an idle handler, a row's unset column

ASSUME LedgerAssumption ==
    /\ Points \subseteq Nat
    /\ Distances \subseteq Nat
    /\ Nil \notin Drivers
    /\ Nil \notin Trips

VARIABLES
    status,        \* trips.status per trip id, "NONE" while not inserted
    driver,        \* trips.driver_id
    fare,          \* trips.fare; 0 stands for NULL (a fare is always >= 50)
    pickup,        \* trips.pickup_lat/lng
    drop,          \* trips.drop_lat/lng
    ending,        \* End handlers between their GetByID and their UPDATE
    outbox,        \* Request goroutines that have not yet published
    rideRequested, \* the ride.requested topic
    completed      \* the trip.completed topic

ledgerVars == <<status, driver, fare, pickup, drop, ending, outbox,
                rideRequested, completed>>

-----------------------------------------------------------------------------
(* Statuses of trips/model.go, and NONE for a row not yet inserted.       *)
Statuses == {"NONE", "REQUESTED", "MATCHING", "DRIVER_ASSIGNED", "STARTED",
             "COMPLETED", "CANCELLED"}

(* The statuses AssignDriver's UPDATE accepts: status IN ($4, $5).         *)
Assignable == {"REQUESTED", "MATCHING"}

(* Mutant: the distance without its absolute value.                      *)
haversineKmNoAbs(a, b) == a - b

(* haversineKm on the model's one-dimensional coordinates.                 *)
haversineKm(a, b) == IF a >= b THEN a - b ELSE b - a

(* fare := 50.0 + km*12.0, with km the explicit distance if positive.      *)
TripFare(km, t) ==
    50 + 12 * (IF km > 0 THEN km ELSE haversineKm(pickup[t], drop[t]))

RideRequestedEvent == [trip : Trips, pickup : Points]
TripCompletedEvent == [trip : Trips, driver : Drivers \cup {Nil}, fare : Nat]
(* What an End handler keeps from its GetByID to its UPDATE and publish.   *)
EndState == [trip : Trips, driver : Drivers \cup {Nil}, fare : Nat]

TypeOK ==
    /\ status \in [Trips -> Statuses]
    /\ driver \in [Trips -> Drivers \cup {Nil}]
    /\ fare \in [Trips -> Nat]
    /\ pickup \in [Trips -> Points \cup {Nil}]
    /\ drop \in [Trips -> Points \cup {Nil}]
    /\ ending \in [Handlers -> EndState \cup {Nil}]
    /\ outbox \subseteq Trips
    /\ rideRequested \in Seq(RideRequestedEvent)
    /\ completed \in Seq(TripCompletedEvent)

LedgerInit ==
    /\ status = [t \in Trips |-> "NONE"]
    /\ driver = [t \in Trips |-> Nil]
    /\ fare = [t \in Trips |-> 0]
    /\ pickup = [t \in Trips |-> Nil]
    /\ drop = [t \in Trips |-> Nil]
    /\ ending = [h \in Handlers |-> Nil]
    /\ outbox = {}
    /\ rideRequested = <<>>
    /\ completed = <<>>

-----------------------------------------------------------------------------
(* Request: INSERT the row as REQUESTED, then start the goroutine that     *)
(* publishes ride.requested; the handler returns without waiting for it.   *)
(* A failed INSERT returns an error and changes nothing.                   *)
Request(t, p, q) ==
    /\ status[t] = "NONE"
    /\ status' = [status EXCEPT ![t] = "REQUESTED"]
    /\ pickup' = [pickup EXCEPT ![t] = p]
    /\ drop' = [drop EXCEPT ![t] = q]
    /\ outbox' = outbox \cup {t}
    /\ UNCHANGED <<driver, fare, ending, rideRequested, completed>>

(* The goroutine of Request: publish ride.requested, or log the error.     *)
PublishRideRequested(t) ==
    /\ t \in outbox
    /\ outbox' = outbox \ {t}
    /\ \/ rideRequested' =
              Append(rideRequested, [trip |-> t, pickup |-> pickup[t]])
       \/ UNCHANGED rideRequested
    /\ UNCHANGED <<status, driver, fare, pickup, drop, ending, completed>>

(* Mutant: the UPDATE without its status condition.                      *)
AssignRowUnconditional(t, d) ==
    /\ status[t] # "NONE"
    /\ status' = [status EXCEPT ![t] = "DRIVER_ASSIGNED"]
    /\ driver' = [driver EXCEPT ![t] = d]

(* The conditional UPDATE of AssignDriver and of the driver.assigned       *)
(* consumer when it matches the row: driver_id and status are set.         *)
AssignRow(t, d) ==
    /\ status[t] \in Assignable
    /\ status' = [status EXCEPT ![t] = "DRIVER_ASSIGNED"]
    /\ driver' = [driver EXCEPT ![t] = d]

(* AssignDriver (PATCH /trips/{id}/assign).  When no row matches, the      *)
(* handler answers "invalid state" and nothing changes.                    *)
AssignDriver(t, d) ==
    /\ AssignRow(t, d)
    /\ UNCHANGED <<fare, pickup, drop, ending, outbox, rideRequested,
                   completed>>

(* Mutant: Start's UPDATE also accepting a REQUESTED row.                 *)
StartFromRequested(t) ==
    /\ status[t] \in {"REQUESTED", "DRIVER_ASSIGNED"}
    /\ status' = [status EXCEPT ![t] = "STARTED"]
    /\ UNCHANGED <<driver, fare, pickup, drop, ending, outbox, rideRequested,
                   completed>>

(* Start (PATCH /trips/{id}/start): UPDATE ... WHERE status = $4.          *)
Start(t) ==
    /\ status[t] = "DRIVER_ASSIGNED"
    /\ status' = [status EXCEPT ![t] = "STARTED"]
    /\ UNCHANGED <<driver, fare, pickup, drop, ending, outbox, rideRequested,
                   completed>>

(* Mutant: End without its check that the trip is STARTED.               *)
EndCheckAnyStatus(h, t, km) ==
    /\ ending[h] = Nil
    /\ status[t] # "NONE"
    /\ ending' = [ending EXCEPT ![h] =
                    [trip |-> t, driver |-> driver[t], fare |-> TripFare(km, t)]]
    /\ UNCHANGED <<status, driver, fare, pickup, drop, outbox, rideRequested,
                   completed>>

(* End, first part: GetByID, the check trip.Status = STARTED, the distance *)
(* and the fare.  The row is read here and written by a later statement.  *)
EndCheck(h, t, km) ==
    /\ ending[h] = Nil
    /\ status[t] = "STARTED"
    /\ ending' = [ending EXCEPT ![h] =
                    [trip |-> t, driver |-> driver[t], fare |-> TripFare(km, t)]]
    /\ UNCHANGED <<status, driver, fare, pickup, drop, outbox, rideRequested,
                   completed>>

(* End, second part: UPDATE trips SET status, fare, completed_at WHERE     *)
(* id = $4, then the goroutine that publishes trip.completed with the      *)
(* driver and fare the handler read (its error is only logged).  Nothing  *)
(* reads trip.completed, so the goroutine is folded into this step.       *)
EndUpdate(h) ==
    LET e == ending[h] IN
    /\ e # Nil
    /\ status' = [status EXCEPT ![e.trip] = "COMPLETED"]
    /\ fare' = [fare EXCEPT ![e.trip] = e.fare]
    /\ \/ completed' = Append(completed, e)
       \/ UNCHANGED completed
    /\ ending' = [ending EXCEPT ![h] = Nil]
    /\ UNCHANGED <<driver, pickup, drop, outbox, rideRequested>>

(* End's UPDATE returns an error: the handler answers 400.                 *)
EndFail(h) ==
    /\ ending[h] # Nil
    /\ ending' = [ending EXCEPT ![h] = Nil]
    /\ UNCHANGED <<status, driver, fare, pickup, drop, outbox, rideRequested,
                   completed>>

LedgerNext ==
    \/ \E t \in Trips, p, q \in Points : Request(t, p, q)
    \/ \E t \in Trips : PublishRideRequested(t)
    \/ \E t \in Trips, d \in Drivers : AssignDriver(t, d)
    \/ \E t \in Trips : Start(t)
    \/ \E h \in Handlers, t \in Trips, km \in Distances : EndCheck(h, t, km)
    \/ \E h \in Handlers : EndUpdate(h)
    \/ \E h \in Handlers : EndFail(h)

LedgerSpec == LedgerInit /\ [][LedgerNext]_ledgerVars

-----------------------------------------------------------------------------
(* The lifecycle of spec section 3: REQUESTED -> {MATCHING,               *)
(* DRIVER_ASSIGNED} -> STARTED -> COMPLETED, CANCELLED from any state      *)
(* that is not terminal; NONE -> REQUESTED is the INSERT.                 *)
Lifecycle ==
    {<<"NONE", "REQUESTED">>,
     <<"REQUESTED", "MATCHING">>, <<"REQUESTED", "DRIVER_ASSIGNED">>,
     <<"MATCHING", "DRIVER_ASSIGNED">>, <<"DRIVER_ASSIGNED", "STARTED">>,
     <<"STARTED", "COMPLETED">>}
    \cup {<<s, "CANCELLED">> : s \in {"REQUESTED", "MATCHING",
                                       "DRIVER_ASSIGNED", "STARTED"}}

(* A trip's status only moves along an edge of the lifecycle: no status is *)
(* skipped or revisited, whatever the order in which concurrent Assign,    *)
(* Start and End requests and the driver.assigned consumer hit the row.   *)
StatusFollowsLifecycle ==
    [][\A t \in Trips : status'[t] = status[t]
                         \/ <<status[t], status'[t]>> \in Lifecycle]_ledgerVars

(* Once a trip has a driver, no later step replaces it: of two competing   *)
(* assignments (manual PATCH /assign, a duplicated or a second             *)
(* driver.assigned event) only the first wins the conditional UPDATE.     *)
DriverFixedOnceAssigned ==
    [][\A t \in Trips : driver[t] # Nil => driver'[t] = driver[t]]_ledgerVars

(* Every trip.completed event names a driver, the driver the row holds,   *)
(* and a trip whose row is COMPLETED: the driver End read before its      *)
(* UPDATE is still the trip's driver when the event is published.         *)
CompletedEventsAgree ==
    \A i \in 1..Len(completed) :
        LET e == completed[i] IN
        /\ e.driver # Nil
        /\ e.driver = driver[e.trip]
        /\ status[e.trip] = "COMPLETED"

(* Spec 4.1 and section 2: End requires status STARTED, and a transition  *)
(* only succeeds if the row's current status matches the expected one.    *)
(* So the fare is only written by a step that starts from a STARTED row.  *)
CompletionIsConditional ==
    [][\A t \in Trips : fare'[t] # fare[t] => status[t] = "STARTED"]_ledgerVars

=============================================================================
