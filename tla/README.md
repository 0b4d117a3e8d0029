# TLA+ models of ride-service

This directory holds TLA+ models of the Go ride-hailing backend in `src/`. The models check how the trip
ledger, the Redis driver pool, the Kafka topics and the two background
consumers interact. Each module is written from the code, and
PROJECT.json's `map` names the lines each definition translates.

## The system

```
 rider ──POST /trips/request──► trips.Service.Request ── INSERT row (REQUESTED)
                                    └─ go Publish(ride.requested)
 matching-group goroutine (matching.Matcher):
      ReadMessage (commits) → GEOSEARCH nearest driver ≤ 5 km
      → Publish(driver.assigned) → ZREM driver
 trip-driver-assigned goroutine (trips.StartDriverAssignedConsumer):
      ReadMessage (commits) → UPDATE ... WHERE status IN (REQUESTED, MATCHING)
 PATCH /trips/{id}/assign  same conditional UPDATE (manual)
 PATCH /trips/{id}/start   UPDATE ... WHERE status = DRIVER_ASSIGNED
 PATCH /trips/{id}/end     GetByID; check STARTED; fare; UPDATE ... WHERE id
                           (no status condition); go Publish(trip.completed)
 PATCH /drivers/{id}/location   GEOADD driver:locations (any driver, any time)
 /ws/trips/{id}            tracking hub (WebSocket subscribers per trip)
```

The components interact as follows:

- The ledger is PostgreSQL. Each statement is atomic, and nothing groups two statements.
- Redis holds the pool of available drivers. A driver is in the pool exactly while it has a position in the GEO set.
- Kafka carries three topics.
  - `kafka.Client.Subscribe` runs one goroutine per consumer group.
  - kafka-go's `ReadMessage` with a GroupID commits the offset when it returns the message. Handler errors are only logged.
  - `Publish` may fail. Because the Writer retries internally, a message may still reach the log after a failure, or reach it twice.

## Modules

| module | models | state | actions |
|---|---|---|---|
| `TripLedger` | `internal/trips/service.go`, `model.go`, `V3_create_trips.sql` | `status`, `driver`, `fare`, `pickup`, `drop` per trip; `ending` (End handlers between read and write); `outbox` (publish goroutines); topics `rideRequested`, `completed` | `Request`, `PublishRideRequested`, `AssignDriver` (= `AssignRow`), `Start`, `EndCheck`, `EndUpdate`, `EndFail` |
| `GeoIndex` | `pkg/redis` (`src/unnamed/part_001`) | `pool`: each driver's position or Nil | `SetDriverLocation`, `RemoveDriverLocation`; the answer set of `GetNearbyDrivers` (GEOSEARCH COUNT n ASC; ties are left open) |
| `RideService` | composes the two with `matching/matcher.go`, the consumer in `trips/service.go`, `kafka.Client` and `drivers.UpdateLocation` | `matcher` (the handler's pc, message, trip and driver), `rrOffset`, `rrFailed`, `driverAssigned`, `daOffset` | `LedgerStep`, `UpdateLocation`, `MatchQuery`, `MatchPublish`, `MatchRemove`, `ConsumeDriverAssigned` |
| `TrackingHub` | `internal/tracking` (`src/unnamed/part_004:17-118`), one trip id | `mem` (Go backing arrays, length = capacity), `nextArr`, `hub` (the slice header in `h.conns[tripID]` or no entry), `phase` per connection, `bc` per BroadcastLocation call | `HandleWS` (append: `AppendInPlace` or `AppendGrow`), `RemoveConn`, `BroadcastSnapshot`, `BroadcastSend`, `BroadcastDone` |
| `Accounts` | `users.Service`, `drivers.Service` Register/Login, the handlers, the `users`/`drivers` tables | `rows` per role, `pc`/`req` per Register handler, `answers` | `RegisterCheck` (SELECT EXISTS, errors discarded), `RegisterInsert` (UNIQUE email and phone); `LoginSucceeds` is Login's outcome |
| `TripLedgerProofs` | proofs | | |
| `MCTripLedger`, `MCRideService`, `MCTrackingHub`, `MCAccounts` | TLC instances: symmetry sets | | |

The model abstracts the data as follows:

- **Trip ids.** Each trip has a fixed id from `Trips`. A row that has not been inserted yet has status `"NONE"`.
- **Coordinates.** Coordinates are points of a line. The haversine distance is their absolute difference, and fares are whole numbers: `50 + 12·km`.
- **Multi-call handlers.** Handlers that make several calls are split at each call, because other requests interleave there. End is split into `EndCheck` and `EndUpdate`. The matcher is split into query, publish and remove.
- **trip.completed publish.** Nothing consumes trip.completed, so End's publish goroutine is folded into `EndUpdate`. Either the event is appended or it is lost.
- **Tracking hub.** It is modelled for one trip: entries of different trips never share a backing array. Each connection subscribes once, because a reconnect is a new `*safeConn`. So at most `Cardinality(Conns)` arrays are allocated, and no extra bound is needed. A broadcast reads each cell while `removeConn` may be moving cells: this is a data race in Go. A word-sized pointer read gives the cell's old or new value, and the model's interleavings give both.
- **Faults.** `InfraFaults` turns on every Redis, Kafka and PostgreSQL error path. These are:
  - GEOSEARCH error
  - Publish failed: not written, written anyway, or duplicated
  - ZREM error
  - the consumer's UPDATE error

## Runs

| run | cfg | shows |
|---|---|---|
| ledger | `MCTripLedger.cfg` | `TypeOK`, `CompletedEventsAgree`, `StatusFollowsLifecycle` and `DriverFixedOnceAssigned` hold with two trips, two drivers and two concurrent End handlers. About 151k states. |
| end_race | `MCTripLedgerEndRace.cfg` | **violation** of `CompletionIsConditional`. Two End requests both pass the STARTED check. The second rewrites a COMPLETED row's fare and publishes a second trip.completed. |
| ride | `MCRideService.cfg` | `RideTypeOK`, `CompletedEventsAgree` and `DriverFixedOnceAssigned` hold for the full pipeline with all faults, including duplicated driver.assigned events racing manual assignment. About 2.9M states. |
| matcher_busy_driver | `MCRide_MatcherOffersFreeDriver.cfg` | **violation**: the matcher offers a driver who is already assigned to another trip, because manual assignment never leaves the pool and UpdateLocation re-adds busy drivers. |
| matcher_no_redelivery | `MCRide_FailedMatchRedelivered.cfg` | **violation**: a ride.requested message whose handler failed is committed and never retried. Spec 4.3 says the opposite. |
| hub | `MCTrackingHub.cfg` | `SubscribersExact` holds: with three connections, the writers under the lock keep the slice equal to the live subscribers, and an emptied entry is deleted so that it reads as the nil slice again. This covers in-place appends, growth to capacity 1, 2 and 4, and in-place shifts. |
| hub_broadcast_race | `MCTrackingHubBroadcast.cfg` | **violation** of `BroadcastReachesSnapshot`. The broadcast snapshots `[c2, c1]`, then `removeConn(c2)` shifts the shared array to `[c1, c1]`, and c1 is written twice. With three connections a live subscriber can also be skipped. |
| accounts | `MCAccounts.cfg` | `AccountsTypeOK` and `RegisteredCanLogin` hold with three concurrent Registers and database faults: whoever got 201 can log in. |
| accounts_conflict | `MCAccountsConflict.cfg` | **violation** of `ConflictMeansTaken`: a failed INSERT is answered 409 although nothing is taken. |
| assigned_live | `MCRideServiceLive.cfg` | With faults off, every driver.assigned event leads to its trip having a driver, under weak fairness of the goroutines. |

**Bounds.**

- Two trips and two drivers are the least that lets two trips compete for one driver and one trip receive two drivers.
- Two End handlers give the End race.
- Points {0, 5} (ledger) give a nonzero distance. Points {0, 2} with radius 1 (ride) give a pickup with a driver in range and one out of range.
- Offsets and topics are bounded by the number of trips, because each trip publishes ride.requested at most once. The matcher publishes at most twice per message, so every run is finite without extra caps.
- The liveness run uses one trip, which keeps the state graph small enough for the fairness check.

**Symmetry** over trips and drivers is used only in the runs that check safety properties. The hub run uses symmetry over connections, and the accounts run over emails, phones, passwords and handlers. The broadcast race run uses no symmetry, because its property is about an order.

**Hub and accounts bounds.**

- Three connections let a removal shift a cell under a broadcast, and make arrays grow to capacity 4.
- Two emails and two phones let requests collide on one column but not the other.
- Three handlers let two requests race on the same email while a third takes the phone.

**Deadlock.** Every cfg sets `CHECK_DEADLOCK FALSE`, because in each model the server ends up idle, waiting for requests, which is not an error:

- once every trip is finished;
- once every connection has closed;
- once every Register handler has answered.

**Fairness.** `FairSpec` assumes weak fairness of:

- the matcher's three steps;
- the driver.assigned consumer;
- each ride.requested publish goroutine.

Each of these is a goroutine that runs until shutdown, with no blocking other than I/O (`main` in `src/unnamed/part_004`, `Client.Subscribe`). HTTP requests, location updates and manual assignments get no fairness: clients may never send them.

## Findings

1. **End is check-then-act** (`trips/service.go:119-144`). Its UPDATE has no `AND status = STARTED`, so concurrent Ends complete a trip twice with different fares. The fix is to add the status condition and check RowsAffected.
2. **The pool does not mean "available"** (`matching/matcher.go:52-53`, `trips/service.go:87-99`, `drivers` UpdateLocation). A driver assigned by hand is never removed from the pool, and a busy driver's location update re-adds it. The matcher then offers that driver to another trip.
3. **At-most-once consumption** (`V2_create_drivers.sql:119-130`, the kafka package). `ReadMessage` commits before the handler runs. A failed matching or a failed consumer UPDATE is lost for good, although the comment in `events.go` says "return error so Kafka does NOT commit the offset and retries".
4. **Broadcast over a shared backing array** (`src/unnamed/part_004:85-118`). `BroadcastLocation` copies only the slice header under RLock. `removeConn`'s `append(conns[:i], conns[i+1:]...)` then moves cells of that same array, so a live subscriber is written twice or skipped. The bug is latent: no code calls `BroadcastLocation`, although spec section 2 says location updates reach the hub. Copying the slice under the lock fixes it.
5. **409 for store failures** (`src/unnamed/part_002:43`, `drivers/handler.go:63`). Every Register error is answered Conflict, and the existence checks discard their errors.

## Proofs (`TripLedgerProofs`, checked by tlapm)

Each theorem holds for all values of the constants, given `LedgerAssumption`: points and distances are naturals, and Nil is not a trip or a driver.

- `LedgerInvariant`: `LedgerSpec => []LedgerInv`.
- `TypeCorrect`: `[]TypeOK`.
- `CompletedEventsAgreeHolds`: `[]CompletedEventsAgree`.
- `DriverFixed`: `DriverFixedOnceAssigned`.
- `LifecycleFollowed`: `StatusFollowsLifecycle`.

`TypeOK` is not inductive by itself. `LedgerInv` strengthens it as follows:

- `RowsInserted` and `OutboxInserted`: End and the publish goroutine read a row that exists, so the fare is a natural number and the pickup a point.
- `DriverIffActive`: `driver_id` is set exactly when the status is DRIVER_ASSIGNED, STARTED or COMPLETED. So the conditional UPDATE, which only matches REQUESTED and MATCHING rows, never replaces a driver.
- `EndingAgrees`: an End handler between its read and its write holds the trip's current driver, and the trip is STARTED or COMPLETED. This is what makes each appended trip.completed event agree with its row.

The proof has one lemma per action, with one step per conjunct the action can disturb. It also uses `AppendProperties` from SequenceTheorems. TLC checked `LedgerInv` as an invariant of the ledger run before it was proved.

**What only TLC checks:**

- all the RideService properties;
- the liveness property `DriverAssignedTakesEffect`: liveness and ENABLED are beyond TLAPS here;
- the answer set of `GetNearbyDrivers`.

## Not modelled

- JWT issuing and checking, GetByID/GetProfile (reads only), migrations (`pkg/db` RunMigrations) and the database pool's connection retries.
- Input validation, JSON encoding and HTTP answers.
- Kafka partitions and consumer rebalancing. Publish uses kafka-go's LeastBytes balancer, which ignores the message key, so two events of one trip may go to different partitions and be read out of order. The model keeps each topic as one ordered log. No checked property depends on the order of two events of one trip: a trip publishes one ride.requested, and duplicates of a driver.assigned event are equal.

## Plan for later work

- RunMigrations with crashes between a file's Exec and its schema_migrations record.
- An abstract one-step trip specification (`AbstractTrip.tla`), with `TripLedger` shown to refine it through a refinement mapping. Only the End race should block the refinement.
- Duplicate ride.requested publishes, and a liveness property for REQUESTED trips, which is expected to fail because of the lost publish.
- A check of `GetNearbyDrivers` against a sorted reference.
- Proofs of RideService's invariants that reuse `AssignRowInv`.
