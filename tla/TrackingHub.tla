----------------------------- MODULE TrackingHub -----------------------------
(***************************************************************************)
(* The WebSocket tracking hub of ride-service (internal/tracking,          *)
(* src/unnamed/part_004) for one trip id: h.conns[tripID], a Go slice of   *)
(* connections, protected by an RWMutex.                                   *)
(*                                                                         *)
(* A Go slice is a header (backing array, length) over an array whose      *)
(* cells the header does not own.  HandleWS appends under the write lock;  *)
(* removeConn removes with append(conns[:i], conns[i+1:]...), which moves  *)
(* the later cells one place down in the SAME backing array.               *)
(* BroadcastLocation copies only the header under the read lock and then   *)
(* reads the cells one by one while it writes to each connection, with no  *)
(* lock held.  The model therefore keeps the backing arrays explicit:      *)
(* mem[a] is array a, its length is its capacity.  Array 0 is the array of *)
(* the nil slice (capacity 0).  Every subscription appends at most once,   *)
(* so at most Cardinality(Conns) arrays are ever allocated.                *)
(*                                                                         *)
(* Each connection's writes are serialised by safeConn's mutex and a       *)
(* failed write is only logged, so a write is one step that cannot change  *)
(* the hub.                                                                *)
(***************************************************************************)
EXTENDS Naturals, Sequences, FiniteSets

CONSTANTS
    Conns,         \* WebSocket connections (*safeConn pointers) for the trip
    Broadcasters,  \* concurrent BroadcastLocation calls for the trip
    Nil            \* an empty cell; no map entry for the trip

VARIABLES
    mem,      \* backing arrays: mem[a] is the sequence of array a's cells
    nextArr,  \* the last array allocated
    hub,      \* h.conns[tripID]: a slice header, or Nil when no entry
    phase,    \* each connection: "new", "subscribed" or "closed"
    bc        \* each BroadcastLocation call: snapshot, index, writes done

hubVars == <<mem, nextArr, hub, phase, bc>>

MaxArrays == Cardinality(Conns)
ArrayIds == 0..MaxArrays
Header == [arr : ArrayIds, len : Nat]
NilSlice == [arr |-> 0, len |-> 0]

(* The cells a slice header covers.                                        *)
Cells(h) == [i \in 1..h.len |-> mem[h.arr][i]]

(* h.conns[tripID]: a missing key reads as the nil slice.                  *)
Current == IF hub = Nil THEN NilSlice ELSE hub

Cap(a) == Len(mem[a])

BroadcastState ==
    [pc : {"idle", "loop", "done"}, snap : Header, i : Nat,
     sent : Seq(Conns \cup {Nil}), expected : SUBSET Conns]

HubTypeOK ==
    /\ mem \in [ArrayIds -> Seq(Conns \cup {Nil})]
    /\ nextArr \in ArrayIds
    /\ hub \in Header \cup {Nil}
    /\ phase \in [Conns -> {"new", "subscribed", "closed"}]
    /\ bc \in [Broadcasters -> BroadcastState]

HubInit ==
    /\ mem = [a \in ArrayIds |-> <<>>]
    /\ nextArr = 0
    /\ hub = Nil
    /\ phase = [c \in Conns |-> "new"]
    /\ bc = [b \in Broadcasters |->
               [pc |-> "idle", snap |-> NilSlice, i |-> 0, sent |-> <<>>,
                expected |-> {}]]

-----------------------------------------------------------------------------
(* append(s, c) when len < cap: c is written into the shared array.        *)
AppendInPlace(s, c) ==
    /\ s.len < Cap(s.arr)
    /\ mem' = [mem EXCEPT ![s.arr][s.len + 1] = c]
    /\ hub' = [s EXCEPT !.len = s.len + 1]
    /\ UNCHANGED nextArr

(* append(s, c) when len = cap: growslice allocates an array of twice the  *)
(* capacity (1 for the nil slice), copies the cells and writes c.          *)
AppendGrow(s, c) ==
    LET a == nextArr + 1
        newCap == IF Cap(s.arr) = 0 THEN 1 ELSE 2 * Cap(s.arr)
    IN  /\ s.len = Cap(s.arr)
        /\ a \in ArrayIds
        /\ mem' = [mem EXCEPT ![a] =
                     [i \in 1..newCap |-> IF i <= s.len THEN mem[s.arr][i]
                                          ELSE IF i = s.len + 1 THEN c ELSE Nil]]
        /\ hub' = [arr |-> a, len |-> s.len + 1]
        /\ nextArr' = a

(* HandleWS after a successful upgrade: under the write lock,              *)
(* h.conns[tripID] = append(h.conns[tripID], conn).  An upgrade error      *)
(* returns before touching the hub.                                        *)
HandleWS(c) ==
    /\ phase[c] = "new"
    /\ AppendInPlace(Current, c) \/ AppendGrow(Current, c)
    /\ phase' = [phase EXCEPT ![c] = "subscribed"]
    /\ UNCHANGED bc

(* Mutant: removeConn shortening the slice without moving the cells.    *)
RemoveConnTruncate(c) ==
    /\ phase[c] = "subscribed"
    /\ hub # Nil
    /\ \/ hub.len > 1 /\ hub' = [hub EXCEPT !.len = hub.len - 1]
       \/ hub.len = 1 /\ hub' = Nil
    /\ phase' = [phase EXCEPT ![c] = "closed"]
    /\ UNCHANGED <<mem, nextArr, bc>>

(* removeConn, when the read loop of HandleWS ends, then conn.close().     *)
(* Under the write lock: find the first cell holding conn, shift the later *)
(* cells down in place, shorten the header; delete the key when empty.     *)
(* The connection is always found (SubscribersExact), so the path where  *)
(* the loop finds nothing is not a separate step.                       *)
RemoveConn(c) ==
    /\ phase[c] = "subscribed"
    /\ hub # Nil
    /\ \E i \in 1..hub.len :
         /\ mem[hub.arr][i] = c
         /\ \A j \in 1..(i - 1) : mem[hub.arr][j] # c
         /\ mem' = [mem EXCEPT ![hub.arr] =
                      [j \in 1..Cap(hub.arr) |->
                         IF i <= j /\ j < hub.len THEN mem[hub.arr][j + 1]
                                                  ELSE mem[hub.arr][j]]]
    /\ \/ hub.len > 1 /\ hub' = [hub EXCEPT !.len = hub.len - 1]
       \/ hub.len = 1 /\ hub' = Nil
    /\ phase' = [phase EXCEPT ![c] = "closed"]
    /\ UNCHANGED <<nextArr, bc>>

(* BroadcastLocation: under the read lock, conns := h.conns[tripID].  The *)
(* ghost field expected records who is subscribed at that moment.          *)
BroadcastSnapshot(b) ==
    /\ bc[b].pc = "idle"
    /\ bc' = [bc EXCEPT ![b] =
                [pc |-> "loop", snap |-> Current, i |-> 0, sent |-> <<>>,
                 expected |-> {c \in Conns : phase[c] = "subscribed"}]]
    /\ UNCHANGED <<mem, nextArr, hub, phase>>

(* One iteration of `for _, c := range conns`: read cell i of the array    *)
(* the snapshot points to, as it is now, and write the message to it.      *)
BroadcastSend(b) ==
    LET st == bc[b] IN
    /\ st.pc = "loop"
    /\ st.i < st.snap.len
    /\ bc' = [bc EXCEPT ![b].i = st.i + 1,
                        ![b].sent = Append(st.sent, mem[st.snap.arr][st.i + 1])]
    /\ UNCHANGED <<mem, nextArr, hub, phase>>

(* The range loop ends.                                                    *)
BroadcastDone(b) ==
    /\ bc[b].pc = "loop"
    /\ bc[b].i = bc[b].snap.len
    /\ bc' = [bc EXCEPT ![b].pc = "done"]
    /\ UNCHANGED <<mem, nextArr, hub, phase>>

HubNext ==
    \/ \E c \in Conns : HandleWS(c) \/ RemoveConn(c)
    \/ \E b \in Broadcasters :
         BroadcastSnapshot(b) \/ BroadcastSend(b) \/ BroadcastDone(b)

HubSpec == HubInit /\ [][HubNext]_hubVars

-----------------------------------------------------------------------------
(* Spec 4.4 and 5: concurrent subscribe and unsubscribe never corrupt the  *)
(* trip's subscriber set.  The cells of h.conns[tripID] list exactly the   *)
(* connections between their append in HandleWS and their removeConn,     *)
(* each once, across in-place appends, array growth and in-place shifts. *)
SubscribersExact ==
    /\ Current.len <= Cap(Current.arr)
    /\ {Cells(Current)[i] : i \in 1..Current.len} = {c \in Conns : phase[c] = "subscribed"}
    /\ Current.len = Cardinality({c \in Conns : phase[c] = "subscribed"})

(* Spec 4.4: Broadcast delivers to every subscriber of its snapshot, once. *)
(* A connection subscribed when BroadcastLocation took its snapshot, and   *)
(* still subscribed when the loop ends, received exactly one write.        *)
BroadcastReachesSnapshot ==
    \A b \in Broadcasters : bc[b].pc = "done" =>
        \A c \in bc[b].expected : phase[c] = "subscribed" =>
            Cardinality({k \in 1..Len(bc[b].sent) : bc[b].sent[k] = c}) = 1

=============================================================================
