------------------------------ MODULE GeoIndex ------------------------------
(***************************************************************************)
(* The driver pool of ride-service: the Redis GEO set "driver:locations"   *)
(* (pkg/redis, src/unnamed/part_001).  A driver is available for matching  *)
(* exactly while it has a position in the set.  GEOADD overwrites a        *)
(* position, ZREM removes a member (removing an absent one is a no-op),    *)
(* and GEOSEARCH ... COUNT n ASC answers the nearest members within a      *)
(* radius.  Each Redis command is atomic; nothing groups two of them.      *)
(***************************************************************************)
EXTENDS Naturals, Sequences, FiniteSets

CONSTANTS
    Drivers,   \* member names of driver:locations (driver ids)
    Points,    \* coordinates, points of a line
    Nil        \* no position: the driver is not in the set

VARIABLE pool  \* the GEO set: each driver's position, Nil when absent

GeoTypeOK == pool \in [Drivers -> Points \cup {Nil}]

GeoInit == pool = [d \in Drivers |-> Nil]

(* Distance of two coordinates, the model's haversine.                     *)
GeoDist(a, b) == IF a >= b THEN a - b ELSE b - a

(* SetDriverLocation: GEOADD driver:locations lng lat driverID.            *)
SetDriverLocation(d, p) == pool' = [pool EXCEPT ![d] = p]

(* RemoveDriverLocation: ZREM driver:locations driverID.                   *)
RemoveDriverLocation(d) == pool' = [pool EXCEPT ![d] = Nil]

(* The members within radius r of c.                                       *)
WithinRadius(c, r) == {d \in Drivers : pool[d] # Nil /\ GeoDist(pool[d], c) <= r}

(* GetNearbyDrivers(c, r, n): GEOSEARCH FROMLONLAT c BYRADIUS r km COUNT n *)
(* ASC.  The answers Redis may give: the min(n, |W|) members of W nearest  *)
(* to c, in ascending distance; members at equal distance come in an order *)
(* the model leaves open.                                                  *)
GetNearbyDrivers(c, r, n) ==
    LET W == WithinRadius(c, r)
        k == IF n < Cardinality(W) THEN n ELSE Cardinality(W)
        dist(d) == GeoDist(pool[d], c)
    IN  {s \in [1..k -> W] :
            /\ \A i, j \in 1..k : i < j => s[i] # s[j] /\ dist(s[i]) <= dist(s[j])
            /\ \A w \in W \ {s[i] : i \in 1..k} : \A i \in 1..k : dist(s[i]) <= dist(w)}

=============================================================================
