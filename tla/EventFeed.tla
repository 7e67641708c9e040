------------------------------ MODULE EventFeed ------------------------------
(* The events of one tenant from the gateways to the console's live feed: the  *)
(* batches of the gateways' audit writers (gateway/internal/audit/writer.go),  *)
(* the table gateway_events, the stream of the control plane that polls it     *)
(* (StreamEvents in gateway_handler.go) and the list that a page of the        *)
(* console keeps (lib/hooks/use-gateway-stream.ts).                            *)
(*                                                                            *)
(* An event is the number of its timestamp: the clock ticks with each event.   *)
(* The cursor of the stream is a timestamp as well, but the driver hands it to *)
(* the query in whole seconds, each of which is Second ticks long here.        *)
EXTENDS Integers, FiniteSets, Sequences, Functions

CONSTANTS
  Gateways,   \* gateway processes, with a writer each
  Second,     \* ticks of the clock in a second
  PageSize,   \* events one poll of the stream can return (50)
  SeedSize,   \* events of the history that the page loads first (30)
  MaxBuffer,  \* events the page keeps (MAX_BUFFER, 120)
  MaxSeen,    \* events it remembers (MAX_BUFFER * 2)
  MaxEvents,  \* bound: events
  MaxWire,    \* bound: events on the wire when the stream polls again
  MaxFaults   \* bound: failed inserts, lost processes, handlers that outlive a shutdown

ASSUME SizeAssumption ==
  /\ {Second, PageSize, SeedSize, MaxBuffer, MaxSeen} \subseteq Nat \ {0}
  /\ MaxBuffer <= MaxSeen
ASSUME BoundAssumption == {MaxEvents, MaxWire, MaxFaults} \subseteq Nat

VARIABLES
  clock,    \* the last event
  proc,     \* gateway -> "up", "closing", "final" (the last flush has begun), "down"
  batch,    \* gateway -> w.batch
  taking,   \* gateway -> toWrite of the flush under way
  table,    \* gateway_events
  lost,     \* history: events that will never be in the table
  phase,    \* the page's stream: "off", "waiting" for connect(), "open"
  since,    \* the cursor of StreamEvents
  wire,     \* events sent and not yet read
  seed,     \* the request for the history
  shown, seen,
  faults

vars == <<clock, proc, batch, taking, table, lost, phase, since, wire, seed, shown, seen,
          faults>>
writerVars == <<clock, proc, batch, taking, table, lost, faults>>
pageVars == <<phase, since, wire, seed, shown, seen>>

Events == 1..MaxEvents

(* ORDER BY timestamp DESC LIMIT n, and its two orders. *)
Newest(n, S) == {e \in S : Cardinality({f \in S : f > e}) < n}
Lists(S) == [1..Cardinality(S) -> S]
Ascending(S) == {s \in Lists(S) : \A i, j \in DOMAIN s : i < j => s[i] < s[j]}
Descending(S) == {s \in Lists(S) : \A i, j \in DOMAIN s : i < j => s[i] > s[j]}

(* WHERE timestamp > ? *)
After(t) == {e \in table : e > (t \div Second) * Second}

NoSeed == [pc |-> "done", events |-> {}]
SeedSent == [pc |-> "sent", events |-> {}]

Init ==
  /\ clock = 0 /\ table = {} /\ lost = {} /\ faults = 0
  /\ proc = [g \in Gateways |-> "up"]
  /\ batch = [g \in Gateways |-> {}] /\ taking = [g \in Gateways |-> {}]
  /\ phase = "off" /\ since = 0 /\ wire = <<>>
  /\ seed = SeedSent /\ shown = <<>> /\ seen = {}

Fault == faults < MaxFaults /\ faults' = faults + 1

-----------------------------------------------------------------------------
(* The audit writer of a gateway. *)

(* A handler stamps its event and appends it. When the server shuts down, it   *)
(* waits 30 s for the handlers; one that takes longer goes on meanwhile.       *)
Write(g) ==
  /\ clock < MaxEvents /\ proc[g] # "down"
  /\ IF proc[g] = "up" THEN UNCHANGED faults ELSE Fault
  /\ clock' = clock + 1
  /\ batch' = [batch EXCEPT ![g] = @ \cup {clock'}]
  /\ UNCHANGED <<proc, taking, table, lost, pageVars>>

TakeShared(g) ==
  /\ proc[g] \in {"up", "closing"} /\ taking[g] = {} /\ batch[g] # {}
  /\ taking' = [taking EXCEPT ![g] = batch[g]]
  /\ UNCHANGED <<clock, proc, batch, table, lost, faults, pageVars>>

TakeWhenFull(g) ==
  /\ proc[g] \in {"up", "closing"} /\ taking[g] = {} /\ Cardinality(batch[g]) > 1
  /\ taking' = [taking EXCEPT ![g] = batch[g]]
  /\ batch' = [batch EXCEPT ![g] = {}]
  /\ UNCHANGED <<clock, proc, table, lost, faults, pageVars>>

(* flush: the batch is taken under the lock, and a new one begins. *)
Take(g) ==
  /\ proc[g] \in {"up", "closing"} /\ taking[g] = {} /\ batch[g] # {}
  /\ taking' = [taking EXCEPT ![g] = batch[g]]
  /\ batch' = [batch EXCEPT ![g] = {}]
  /\ UNCHANGED <<clock, proc, table, lost, faults, pageVars>>

Insert(g) ==
  /\ taking[g] # {}
  /\ table' = table \cup taking[g]
  /\ taking' = [taking EXCEPT ![g] = {}]
  /\ UNCHANGED <<clock, proc, batch, lost, faults, pageVars>>

InsertFailsRequeued(g) ==
  /\ taking[g] # {} /\ Fault
  /\ table' = table \cup taking[g]
  /\ batch' = [batch EXCEPT ![g] = @ \cup taking[g]]
  /\ taking' = [taking EXCEPT ![g] = {}]
  /\ UNCHANGED <<clock, proc, lost, pageVars>>

(* The batch is logged and dropped. *)
InsertFails(g) ==
  /\ taking[g] # {} /\ Fault
  /\ lost' = lost \cup taking[g]
  /\ taking' = [taking EXCEPT ![g] = {}]
  /\ UNCHANGED <<clock, proc, batch, table, pageVars>>

Stop(g) ==
  /\ proc[g] = "up"
  /\ proc' = [proc EXCEPT ![g] = "closing"]
  /\ UNCHANGED <<clock, batch, taking, table, lost, faults, pageVars>>

FinalTakeNone(g) ==
  /\ proc[g] = "closing" /\ taking[g] = {}
  /\ proc' = [proc EXCEPT ![g] = "final"]
  /\ UNCHANGED <<clock, batch, taking, table, lost, faults, pageVars>>

(* flushLoop sees stopCh: the last flush. *)
FinalTake(g) ==
  /\ proc[g] = "closing" /\ taking[g] = {}
  /\ proc' = [proc EXCEPT ![g] = "final"]
  /\ taking' = [taking EXCEPT ![g] = batch[g]]
  /\ batch' = [batch EXCEPT ![g] = {}]
  /\ UNCHANGED <<clock, table, lost, faults, pageVars>>

(* The process ends, with what its memory still holds. *)
End(g) ==
  /\ proc' = [proc EXCEPT ![g] = "down"]
  /\ lost' = lost \cup batch[g] \cup taking[g]
  /\ batch' = [batch EXCEPT ![g] = {}]
  /\ taking' = [taking EXCEPT ![g] = {}]
  /\ UNCHANGED <<clock, table, pageVars>>

Exit(g) == proc[g] = "final" /\ taking[g] = {} /\ End(g) /\ UNCHANGED faults

Crash(g) == proc[g] # "down" /\ Fault /\ End(g)

Start(g) ==
  /\ proc[g] = "down"
  /\ proc' = [proc EXCEPT ![g] = "up"]
  /\ UNCHANGED <<clock, batch, taking, table, lost, faults, pageVars>>

-----------------------------------------------------------------------------
(* The stream. *)

(* Go Live and Pause. *)
GoLive ==
  /\ phase = "off"
  /\ phase' = "waiting"
  /\ UNCHANGED <<writerVars, since, wire, seed, shown, seen>>

Pause ==
  /\ phase # "off"
  /\ phase' = "off" /\ since' = 0 /\ wire' = <<>>
  /\ UNCHANGED <<writerVars, seed, shown, seen>>

ConnectBackdated ==
  /\ phase = "waiting"
  /\ phase' = "open" /\ since' = clock - 1
  /\ UNCHANGED <<writerVars, wire, seed, shown, seen>>

(* The stream starts from now; what came before is left to the history. *)
Connect ==
  /\ phase = "waiting"
  /\ phase' = "open" /\ since' = clock
  /\ UNCHANGED <<writerVars, wire, seed, shown, seen>>

(* A tick: what it finds is sent oldest first, and the cursor moves to the     *)
(* newest it has seen.                                                        *)
Poll ==
  LET new == Newest(PageSize, After(since)) IN
  /\ phase = "open" /\ Len(wire) <= MaxWire /\ new # {}
  /\ \E s \in Ascending(new) :
       /\ wire' = wire \o s
       /\ since' = IF s[Len(s)] > since THEN s[Len(s)] ELSE since
  /\ UNCHANGED <<writerVars, phase, seed, shown, seen>>

(* The connection ends (the server's WriteTimeout is 30 s), and with it what   *)
(* was on its way; the page tries again 3 s later.                            *)
Break ==
  /\ phase = "open"
  /\ phase' = "waiting" /\ since' = 0 /\ wire' = <<>>
  /\ UNCHANGED <<writerVars, seed, shown, seen>>

-----------------------------------------------------------------------------
(* The page's list. *)

Cut(s) == IF Len(s) > MaxBuffer THEN SubSeq(s, 1, MaxBuffer) ELSE s

(* What pushEvents remembers when the events new join those seen and the list  *)
(* becomes list.                                                              *)
Remembered(new, list) ==
  IF Cardinality(seen \cup new) > MaxSeen THEN Range(list) ELSE seen \cup new

ReceiveUnfiltered ==
  LET e == Head(wire) IN
  /\ wire # <<>>
  /\ wire' = Tail(wire)
  /\ shown' = Cut(<<e>> \o shown)
  /\ seen' = Remembered({e}, shown')
  /\ UNCHANGED <<writerVars, phase, since, seed>>

ReceiveMarkedFirst ==
  LET e == Head(wire)  marked == seen \cup {e} IN
  /\ wire # <<>>
  /\ wire' = Tail(wire)
  /\ shown' = IF e \in marked THEN shown ELSE Cut(<<e>> \o shown)
  /\ seen' = Remembered({e}, shown')
  /\ UNCHANGED <<writerVars, phase, since, seed>>

Receive ==
  LET e == Head(wire) IN
  /\ wire # <<>>
  /\ wire' = Tail(wire)
  /\ shown' = IF e \in seen THEN shown ELSE Cut(<<e>> \o shown)
  /\ seen' = Remembered({e}, shown')
  /\ UNCHANGED <<writerVars, phase, since, seed>>

SeedServe ==
  /\ seed.pc = "sent"
  /\ seed' = [pc |-> "answered", events |-> Newest(SeedSize, table)]
  /\ UNCHANGED <<writerVars, phase, since, wire, shown, seen>>

(* The history is appended, newest first. *)
SeedArrive ==
  LET fresh == seed.events \ seen IN
  /\ seed.pc = "answered"
  /\ seed' = NoSeed
  /\ \E s \in Descending(fresh) : shown' = Cut(shown \o s)
  /\ seen' = Remembered(fresh, shown')
  /\ UNCHANGED <<writerVars, phase, since, wire>>

SeedFails ==
  /\ seed.pc # "done"
  /\ seed' = NoSeed
  /\ UNCHANGED <<writerVars, phase, since, wire, shown, seen>>

(* The page is left and opened again. *)
Remount ==
  /\ phase' = "off" /\ since' = 0 /\ wire' = <<>>
  /\ seed' = SeedSent /\ shown' = <<>> /\ seen' = {}
  /\ UNCHANGED writerVars

-----------------------------------------------------------------------------
WriterStep(g) ==
  \/ Write(g) \/ Take(g) \/ Insert(g) \/ InsertFails(g)
  \/ Stop(g) \/ FinalTake(g) \/ Exit(g) \/ Crash(g) \/ Start(g)

PageStep ==
  \/ GoLive \/ Pause \/ Connect \/ Poll \/ Break \/ Receive
  \/ SeedServe \/ SeedArrive \/ SeedFails \/ Remount

Next == (\E g \in Gateways : WriterStep(g)) \/ PageStep

(* The writer flushes every 2 s and at the end, an insert gives up after 10 s,  *)
(* and the control plane polls every 2 s while the stream is open.            *)
Fairness ==
  /\ \A g \in Gateways : /\ WF_vars(Take(g)) /\ WF_vars(Insert(g))
                         /\ WF_vars(FinalTake(g)) /\ WF_vars(Exit(g))
  /\ WF_vars(Poll) /\ WF_vars(Receive)

Spec == Init /\ [][Next]_vars /\ Fairness

-----------------------------------------------------------------------------
TypeOK ==
  /\ clock \in 0..MaxEvents /\ faults \in 0..MaxFaults
  /\ proc \in [Gateways -> {"up", "closing", "final", "down"}]
  /\ batch \in [Gateways -> SUBSET Events] /\ taking \in [Gateways -> SUBSET Events]
  /\ table \subseteq Events /\ lost \subseteq Events
  /\ phase \in {"off", "waiting", "open"} /\ since \in 0..MaxEvents
  /\ wire \in Seq(Events)
  /\ seed \in [pc : {"sent", "answered", "done"}, events : SUBSET Events]
  /\ shown \in Seq(Events) /\ seen \subseteq Events

InMemory(e) == \E g \in Gateways : e \in batch[g] \cup taking[g]

(* "Stop gracefully shuts down the writer, flushing any pending events"         *)
(* (writer.go:194): every event a handler has written is in memory or in the   *)
(* table, through any number of flushes, shutdowns and starts that overlap     *)
(* with the writing, unless an insert fails, a process is lost, or a handler   *)
(* outlives the shutdown.                                                      *)
NothingLost ==
  /\ \A e \in 1..clock : InMemory(e) \/ e \in table \cup lost
  /\ faults = 0 => lost = {}

(* No event is inserted a second time, by a later flush or another gateway.    *)
InsertedOnce == \A g \in Gateways : taking[g] \cap (table \cup batch[g]) = {}

(* The writers together implement EventLog: whatever flushes, shutdowns, losses *)
(* and starts overlap, an event goes from writing to the table or to the lost   *)
(* in one step that also takes it out of memory, and stays where it came to.    *)
Held == UNION {batch[g] \cup taking[g] : g \in Gateways}
Log == INSTANCE EventLog WITH held <- Held, stored <- table, dropped <- lost
ImplementsLog == Log!LogSpec

(* The list names no event twice, although each poll sends again what is of    *)
(* the last second, the history overlaps with the stream, and the page forgets *)
(* what it has seen; and neither list nor memory grows for ever.               *)
ListedOnce ==
  /\ \A i, j \in DOMAIN shown : shown[i] = shown[j] => i = j
  /\ Range(shown) \subseteq seen
  /\ Len(shown) <= MaxBuffer /\ Cardinality(seen) <= MaxSeen

(* Every event written is inserted at last, or lost by a fault. *)
Recorded == \A e \in Events : e <= clock ~> e \in table \cup lost

(* An event is in the list, or has been and a full list has dropped it.        *)
Reached(e) == e \in Range(shown) \/ (e \in seen /\ Len(shown) = MaxBuffer)

(* While the stream is open, an event in the table that the cursor has not     *)
(* passed reaches the list, itself and not only a newer one, unless the        *)
(* connection ends first or as many newer ones as a poll returns are in the    *)
(* table by then. This is less than "The Gateway live feed streams every       *)
(* decision" (frontend, components/docs/content/gateway.tsx:207): an event     *)
(* that is stored behind the cursor, or is not among the newest of a poll, is  *)
(* never sent.                                                                *)
Delivered ==
  \A e \in Events :
    (phase = "open" /\ e \in table /\ e > since)
      ~> \/ phase # "open"
         \/ Reached(e)
         \/ Cardinality({f \in table : f > e}) >= PageSize
=============================================================================
