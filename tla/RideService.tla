----------------------------- MODULE RideService -----------------------------
(***************************************************************************)
(* The matching pipeline of ride-service, composed of the trip ledger      *)
(* (TripLedger), the driver pool (GeoIndex), the two Kafka topics between  *)
(* them and the goroutines that move events along:                        *)
(*                                                                         *)
(*   trips.Request --ride.requested--> Matcher (internal/matching)        *)
(*       Matcher: GEOSEARCH nearest driver, publish driver.assigned, ZREM  *)
(*   driver.assigned --> trips.StartDriverAssignedConsumer: conditional    *)
(*       UPDATE of the row (the same statement as AssignDriver)            *)
(*   drivers.UpdateLocation: GEOADD, at any time, for any driver           *)
(*                                                                         *)
(* Each consumer group is one goroutine (kafka.Client.Subscribe) handling  *)
(* one message at a time.  kafka-go's ReadMessage commits the group's      *)
(* offset when it returns the message, before the handler runs, and the   *)
(* handler's error is only logged: a message is handled at most once.     *)
(* The producer may fail, and a failed write may still have reached the   *)
(* log; a retried write may reach it twice.  InfraFaults switches all      *)
(* failures of Redis, Kafka and PostgreSQL on or off.                      *)
(***************************************************************************)
EXTENDS TripLedger

CONSTANTS
    MatchRadius,  \* the 5 km radius of Matcher's GetNearbyDrivers
    InfraFaults   \* whether Redis, Kafka and PostgreSQL calls may fail

ASSUME RideAssumption ==
    /\ MatchRadius \in Nat
    /\ InfraFaults \in BOOLEAN

VARIABLES
    pool,            \* the Redis GEO set driver:locations
    matcher,         \* the matching-group goroutine inside its handler
    rrOffset,        \* committed offset of matching-group on ride.requested
    rrFailed,        \* offsets of ride.requested whose handler failed
    driverAssigned,  \* the driver.assigned topic
    daOffset         \* committed offset of trip-driver-assigned

Geo == INSTANCE GeoIndex

matchVars == <<pool, matcher, rrOffset, rrFailed, driverAssigned, daOffset>>
vars == <<ledgerVars, matchVars>>

DriverAssignedEvent == [trip : Trips, driver : Drivers]

(* The matcher between two messages.                                       *)
MatcherIdle == [pc |-> "idle", msg |-> 0, trip |-> Nil, driver |-> Nil]

MatcherState ==
    {MatcherIdle} \cup
    [pc : {"publish", "remove"}, msg : Nat \ {0}, trip : Trips, driver : Drivers]

RideTypeOK ==
    /\ TypeOK
    /\ Geo!GeoTypeOK
    /\ matcher \in MatcherState
    /\ rrOffset \in 0..Len(rideRequested)
    /\ rrFailed \subseteq 1..rrOffset
    /\ driverAssigned \in Seq(DriverAssignedEvent)
    /\ daOffset \in 0..Len(driverAssigned)

Init ==
    /\ LedgerInit
    /\ Geo!GeoInit
    /\ matcher = MatcherIdle
    /\ rrOffset = 0
    /\ rrFailed = {}
    /\ driverAssigned = <<>>
    /\ daOffset = 0

-----------------------------------------------------------------------------
(* Every ledger operation leaves the pipeline alone.                      *)
LedgerStep == LedgerNext /\ UNCHANGED matchVars

(* UpdateLocation (PATCH /drivers/{id}/location): GEOADD, for a driver     *)
(* whatever its trips; a Redis error answers 500 and changes nothing.     *)
UpdateLocation(d, p) ==
    /\ Geo!SetDriverLocation(d, p)
    /\ UNCHANGED <<ledgerVars, matcher, rrOffset, rrFailed, driverAssigned,
                   daOffset>>

(* Mutant: the len(drivers) == 0 check dropped, an empty GEOSEARCH answer *)
(* taken as a hit whose drivers[0] is no driver.                          *)
MatchQueryEmptyHit ==
    /\ matcher = MatcherIdle
    /\ rrOffset < Len(rideRequested)
    /\ LET i == rrOffset + 1
           ev == rideRequested[i]
           found == Geo!GetNearbyDrivers(ev.pickup, MatchRadius, 1)
       IN  /\ rrOffset' = i
           /\ \/ /\ InfraFaults
                 /\ rrFailed' = rrFailed \cup {i}
                 /\ UNCHANGED matcher
              \/ \E s \in found :
                   /\ matcher' = [pc |-> "publish", msg |-> i, trip |-> ev.trip,
                                  driver |-> IF s = <<>> THEN Nil ELSE s[1]]
                   /\ UNCHANGED rrFailed
    /\ UNCHANGED <<ledgerVars, pool, driverAssigned, daOffset>>

(* Matcher handler, first part: ReadMessage (commits the offset), then     *)
(* GetNearbyDrivers(pickup, 5 km, 1).  A Redis error or an empty answer    *)
(* ends the handler; the offset stays committed either way.               *)
MatchQuery ==
    /\ matcher = MatcherIdle
    /\ rrOffset < Len(rideRequested)
    /\ LET i == rrOffset + 1
           ev == rideRequested[i]
           found == Geo!GetNearbyDrivers(ev.pickup, MatchRadius, 1)
       IN  /\ rrOffset' = i
           /\ \/ /\ InfraFaults
                 /\ rrFailed' = rrFailed \cup {i}
                 /\ UNCHANGED matcher
              \/ /\ found = {<<>>}
                 /\ UNCHANGED <<matcher, rrFailed>>
              \/ \E s \in found :
                   /\ s # <<>>
                   /\ matcher' = [pc |-> "publish", msg |-> i,
                                  trip |-> ev.trip, driver |-> s[1]]
                   /\ UNCHANGED rrFailed
    /\ UNCHANGED <<ledgerVars, pool, driverAssigned, daOffset>>

(* Matcher handler, second part: Publish driver.assigned.  On success the  *)
(* handler goes on to remove the driver; a write the producer retried may  *)
(* be in the log twice.  On error it returns at once; the write may still *)
(* have reached the log.                                                   *)
MatchPublish ==
    LET ev == [trip |-> matcher.trip, driver |-> matcher.driver] IN
    /\ matcher.pc = "publish"
    /\ \/ /\ driverAssigned' = Append(driverAssigned, ev)
          /\ matcher' = [matcher EXCEPT !.pc = "remove"]
          /\ UNCHANGED rrFailed
       \/ /\ InfraFaults
          /\ driverAssigned' = Append(Append(driverAssigned, ev), ev)
          /\ matcher' = [matcher EXCEPT !.pc = "remove"]
          /\ UNCHANGED rrFailed
       \/ /\ InfraFaults
          /\ \/ UNCHANGED driverAssigned
             \/ driverAssigned' = Append(driverAssigned, ev)
          /\ matcher' = MatcherIdle
          /\ rrFailed' = rrFailed \cup {matcher.msg}
    /\ UNCHANGED <<ledgerVars, pool, rrOffset, daOffset>>

(* Matcher handler, last part: RemoveDriverLocation, its error ignored.   *)
MatchRemove ==
    /\ matcher.pc = "remove"
    /\ \/ Geo!RemoveDriverLocation(matcher.driver)
       \/ InfraFaults /\ UNCHANGED pool
    /\ matcher' = MatcherIdle
    /\ UNCHANGED <<ledgerVars, rrOffset, rrFailed, driverAssigned, daOffset>>

(* Mutant: the consumer's UPDATE without its status condition.           *)
ConsumeDriverAssignedBlind ==
    /\ daOffset < Len(driverAssigned)
    /\ LET ev == driverAssigned[daOffset + 1] IN
       /\ daOffset' = daOffset + 1
       /\ AssignRowUnconditional(ev.trip, ev.driver)
    /\ UNCHANGED <<fare, pickup, drop, ending, outbox, rideRequested, completed,
                   pool, matcher, rrOffset, rrFailed, driverAssigned>>

(* Mutant: the consumer's UPDATE matching MATCHING rows only.             *)
ConsumeDriverAssignedMatchingOnly ==
    /\ daOffset < Len(driverAssigned)
    /\ LET ev == driverAssigned[daOffset + 1] IN
       /\ daOffset' = daOffset + 1
       /\ \/ /\ status[ev.trip] = "MATCHING"
             /\ AssignRow(ev.trip, ev.driver)
          \/ /\ status[ev.trip] # "MATCHING"
             /\ UNCHANGED <<status, driver>>
    /\ UNCHANGED <<fare, pickup, drop, ending, outbox, rideRequested, completed,
                   pool, matcher, rrOffset, rrFailed, driverAssigned>>

(* StartDriverAssignedConsumer's handler: ReadMessage (commits), then the  *)
(* conditional UPDATE.  No matching row and a database error both leave    *)
(* the trip as it is; the error is only logged.                           *)
ConsumeDriverAssigned ==
    /\ daOffset < Len(driverAssigned)
    /\ LET ev == driverAssigned[daOffset + 1] IN
       /\ daOffset' = daOffset + 1
       /\ \/ AssignRow(ev.trip, ev.driver)
          \/ /\ status[ev.trip] \notin Assignable
             /\ UNCHANGED <<status, driver>>
          \/ /\ InfraFaults
             /\ UNCHANGED <<status, driver>>
    /\ UNCHANGED <<fare, pickup, drop, ending, outbox, rideRequested, completed,
                   pool, matcher, rrOffset, rrFailed, driverAssigned>>

Next ==
    \/ LedgerStep
    \/ \E d \in Drivers, p \in Points : UpdateLocation(d, p)
    \/ MatchQuery
    \/ MatchPublish
    \/ MatchRemove
    \/ ConsumeDriverAssigned

(* The two consumer goroutines and the goroutines of Request run until     *)
(* shutdown, and the Go scheduler runs every runnable goroutine.          *)
Fairness ==
    /\ WF_vars(MatchQuery)
    /\ WF_vars(MatchPublish)
    /\ WF_vars(MatchRemove)
    /\ WF_vars(ConsumeDriverAssigned)
    /\ \A t \in Trips : WF_vars(PublishRideRequested(t) /\ UNCHANGED matchVars)

Spec == Init /\ [][Next]_vars
FairSpec == Spec /\ Fairness

-----------------------------------------------------------------------------
(* The comment in matching/matcher.go: the matched driver is removed from  *)
(* the pool "so they aren't double-assigned"; spec 3: absence from the     *)
(* pool means unavailable.  So the matcher never offers a trip a driver    *)
(* who is the driver of another trip that is assigned or under way.       *)
MatcherOffersFreeDriver ==
    matcher.pc = "publish" =>
        \A t \in Trips \ {matcher.trip} :
            status[t] \in {"DRIVER_ASSIGNED", "STARTED"} => driver[t] # matcher.driver

(* Spec 4.3: a Redis or Kafka failure in the matcher leaves the            *)
(* ride.requested message unacknowledged, so the broker redelivers it: the *)
(* group's committed offset never covers a message whose handling failed. *)
FailedMatchRedelivered ==
    \A i \in rrFailed : i > rrOffset

(* Every driver.assigned event takes effect: its trip ends up with a       *)
(* driver (that one, or one assigned before it), whatever the order of the *)
(* consumer, the manual PATCH /assign and duplicated events.              *)
DriverAssignedTakesEffect ==
    \A t \in Trips, d \in Drivers :
        (\E i \in 1..Len(driverAssigned) : driverAssigned[i] = [trip |-> t, driver |-> d])
            ~> driver[t] # Nil

=============================================================================
