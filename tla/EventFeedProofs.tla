--------------------------- MODULE EventFeedProofs ---------------------------
(* Proofs about EventFeed for any number of gateways and any sizes.            *)
EXTENDS EventFeed, FiniteSetTheorems, TLAPS

writerTypes ==
  /\ clock \in 0..MaxEvents /\ faults \in 0..MaxFaults
  /\ proc \in [Gateways -> {"up", "closing", "final", "down"}]
  /\ batch \in [Gateways -> SUBSET Events] /\ taking \in [Gateways -> SUBSET Events]
  /\ table \subseteq Events /\ lost \subseteq Events

pageTypes ==
  /\ phase \in {"off", "waiting", "open"} /\ since \in 0..MaxEvents
  /\ wire \in Seq(Events)
  /\ seed \in [pc : {"sent", "answered", "done"}, events : SUBSET Events]
  /\ shown \in Seq(Events) /\ seen \subseteq Events

-----------------------------------------------------------------------------
(* Lists. *)

LEMMA EventsFinite == \A S \in SUBSET Events : IsFiniteSet(S) /\ Cardinality(S) \in Nat
<1>1. IsFiniteSet(Events)
  BY FS_Interval, BoundAssumption DEF Events
<1> QED BY <1>1, FS_Subset, FS_CardinalityType

LEMMA ListsAreSeqs ==
  ASSUME NEW S \in SUBSET Events, NEW s \in Lists(S)
  PROVE  s \in Seq(Events) /\ Len(s) = Cardinality(S) /\ Range(s) \subseteq S
BY EventsFinite DEF Lists, Range

LEMMA NewestType == \A n : \A S \in SUBSET Events : Newest(n, S) \in SUBSET Events
BY DEF Newest

LEMMA CutType ==
  ASSUME NEW s \in Seq(Events)
  PROVE  /\ Cut(s) \in Seq(Events) /\ Len(Cut(s)) <= MaxBuffer /\ Len(Cut(s)) <= Len(s)
         /\ \A i \in DOMAIN Cut(s) : i \in DOMAIN s /\ Cut(s)[i] = s[i]
<1>1. CASE Len(s) > MaxBuffer
  <2>1. MaxBuffer \in Nat /\ MaxBuffer <= Len(s) /\ Cut(s) = SubSeq(s, 1, MaxBuffer)
    BY <1>1, SizeAssumption DEF Cut
  <2> QED BY <2>1
<1>2. CASE ~(Len(s) > MaxBuffer)
  BY <1>2, SizeAssumption DEF Cut
<1> QED BY <1>1, <1>2

LEMMA RememberedType ==
  ASSUME NEW S \in SUBSET Events, NEW s \in Seq(Events), seen \subseteq Events
  PROVE  Remembered(S, s) \subseteq Events
BY DEF Remembered, Range

(* What is remembered is little, and covers the list. *)
LEMMA RangeSize ==
  ASSUME NEW s \in Seq(Events)
  PROVE  Cardinality(Range(s)) <= Len(s)
<1>1. s \in Surjection(1..Len(s), Range(s))
  BY DEF Surjection, Range
<1> QED BY <1>1, FS_SurjCardinalityBound DEF ExistsSurjection

LEMMA RememberedSize ==
  ASSUME NEW S \in SUBSET Events, NEW s \in Seq(Events), Len(s) <= MaxBuffer,
         seen \subseteq Events, Range(s) \subseteq seen \cup S
  PROVE  Cardinality(Remembered(S, s)) <= MaxSeen /\ Range(s) \subseteq Remembered(S, s)
<1>1. Cardinality(seen \cup S) \in Nat /\ Range(s) \in SUBSET Events
  BY EventsFinite DEF Range
<1>2. Cardinality(Range(s)) \in Nat /\ Cardinality(Range(s)) <= Len(s)
  BY <1>1, RangeSize, EventsFinite
<1>3. MaxSeen \in Nat /\ MaxBuffer \in Nat /\ MaxBuffer <= MaxSeen
  BY SizeAssumption
<1>4. CASE Cardinality(seen \cup S) > MaxSeen
  BY <1>2, <1>3, <1>4 DEF Remembered
<1>5. CASE ~(Cardinality(seen \cup S) > MaxSeen)
  BY <1>1, <1>3, <1>5 DEF Remembered
<1> QED BY <1>4, <1>5

-----------------------------------------------------------------------------
(* Type correctness. *)

LEMMA TypeInit == Init => writerTypes /\ pageTypes
BY BoundAssumption DEF Init, writerTypes, pageTypes, SeedSent, Events

LEMMA WriterTypeStep ==
  ASSUME writerTypes, NEW g \in Gateways, WriterStep(g)
  PROVE  writerTypes'
<1> USE DEF writerTypes
<1>0. ASSUME Fault PROVE faults' \in 0..MaxFaults
  BY <1>0, BoundAssumption DEF Fault
<1>1. CASE Write(g)
  <2>1. clock' \in 0..MaxEvents /\ clock' \in Events
    BY <1>1, BoundAssumption DEF Write, Events
  <2> QED BY <1>0, <1>1, <2>1 DEF Write
<1>2. CASE Take(g)
  BY <1>2 DEF Take
<1>3. CASE Insert(g)
  BY <1>3 DEF Insert
<1>4. CASE InsertFails(g)
  BY <1>0, <1>4 DEF InsertFails
<1>5. CASE Stop(g)
  BY <1>5 DEF Stop
<1>6. CASE FinalTake(g)
  BY <1>6 DEF FinalTake
<1>7. CASE Exit(g)
  BY <1>7 DEF Exit, End
<1>8. CASE Crash(g)
  BY <1>0, <1>8 DEF Crash, End
<1>9. CASE Start(g)
  BY <1>9 DEF Start
<1> QED BY <1>1, <1>2, <1>3, <1>4, <1>5, <1>6, <1>7, <1>8, <1>9 DEF WriterStep

(* What a poll puts on the wire. *)
LEMMA PollType ==
  ASSUME writerTypes, pageTypes, Poll
  PROVE  wire' \in Seq(Events) /\ since' \in 0..MaxEvents
<1> DEFINE new == Newest(PageSize, After(since))
<1>1. new \in SUBSET Events /\ new # {}
  BY NewestType DEF Poll, After, writerTypes
<1>2. Cardinality(new) \in Nat /\ Cardinality(new) # 0
  BY <1>1, EventsFinite, FS_EmptySet
<1>3. PICK s \in Lists(new) :
        wire' = wire \o s /\ since' = IF s[Len(s)] > since THEN s[Len(s)] ELSE since
  BY DEF Poll, Ascending
<1>4. s \in Seq(Events) /\ Len(s) = Cardinality(new)
  BY <1>1, ListsAreSeqs
<1>5. s[Len(s)] \in Events
  <2>1. Len(s) \in 1..Len(s)
    BY <1>2, <1>4
  <2> QED BY <1>4, <2>1
<1>6. s[Len(s)] \in 0..MaxEvents
  BY <1>5, BoundAssumption DEF Events
<1> QED BY <1>3, <1>4, <1>6 DEF pageTypes

LEMMA PageTypeStep ==
  ASSUME writerTypes, pageTypes, PageStep
  PROVE  pageTypes'
<1> USE DEF pageTypes
<1>1. CASE GoLive
  BY <1>1 DEF GoLive
<1>2. CASE Pause
  BY <1>2, BoundAssumption DEF Pause
<1>3. CASE Connect
  BY <1>3 DEF Connect, writerTypes
<1>4. CASE Poll
  BY <1>4, PollType DEF Poll
<1>5. CASE Break
  BY <1>5, BoundAssumption DEF Break
<1>6. CASE Receive
  <2> DEFINE e == Head(wire)
  <2>1. e \in Events /\ wire' \in Seq(Events)
    BY <1>6 DEF Receive
  <2>2. <<e>> \o shown \in Seq(Events)
    BY <2>1
  <2>3. shown' \in Seq(Events)
    BY <1>6, <2>2, CutType DEF Receive
  <2>4. seen' \subseteq Events
    BY <1>6, <2>1, <2>3, RememberedType DEF Receive
  <2> QED BY <1>6, <2>1, <2>3, <2>4 DEF Receive
<1>7. CASE SeedServe
  BY <1>7, NewestType DEF SeedServe, writerTypes
<1>8. CASE SeedArrive
  <2> DEFINE fresh == seed.events \ seen
  <2>1. fresh \in SUBSET Events
    OBVIOUS
  <2>2. PICK s \in Lists(fresh) : shown' = Cut(shown \o s)
    BY <1>8 DEF SeedArrive, Descending
  <2>3. shown \o s \in Seq(Events)
    BY <2>1, <2>2, ListsAreSeqs
  <2>4. shown' \in Seq(Events)
    BY <2>2, <2>3, CutType
  <2>5. seen' \subseteq Events
    BY <1>8, <2>1, <2>4, RememberedType DEF SeedArrive
  <2> QED BY <1>8, <2>4, <2>5 DEF SeedArrive, NoSeed
<1>9. CASE SeedFails
  BY <1>9 DEF SeedFails, NoSeed
<1>10. CASE Remount
  BY <1>10, BoundAssumption DEF Remount, SeedSent
<1> QED BY <1>1, <1>2, <1>3, <1>4, <1>5, <1>6, <1>7, <1>8, <1>9, <1>10 DEF PageStep

LEMMA WriterKeepsPage ==
  ASSUME NEW g \in Gateways, WriterStep(g)
  PROVE  UNCHANGED pageVars
BY DEF WriterStep, Write, Take, Insert, InsertFails, Stop, FinalTake, Exit, Crash, End, Start

LEMMA PageKeepsWriter == PageStep => UNCHANGED writerVars
BY DEF PageStep, GoLive, Pause, Connect, Poll, Break, Receive, SeedServe, SeedArrive,
       SeedFails, Remount

LEMMA TypeStep == writerTypes /\ pageTypes /\ [Next]_vars => writerTypes' /\ pageTypes'
<1> SUFFICES ASSUME writerTypes, pageTypes, [Next]_vars PROVE writerTypes' /\ pageTypes'
  OBVIOUS
<1>1. ASSUME UNCHANGED writerVars PROVE writerTypes'
  BY <1>1 DEF writerVars, writerTypes
<1>2. ASSUME UNCHANGED pageVars PROVE pageTypes'
  BY <1>2 DEF pageVars, pageTypes
<1>3. ASSUME NEW g \in Gateways, WriterStep(g) PROVE writerTypes' /\ pageTypes'
  BY <1>2, <1>3, WriterTypeStep, WriterKeepsPage
<1>4. CASE PageStep
  BY <1>1, <1>4, PageTypeStep, PageKeepsWriter
<1>5. CASE UNCHANGED vars
  BY <1>1, <1>2, <1>5 DEF vars, writerVars, pageVars
<1> QED BY <1>3, <1>4, <1>5 DEF Next

(* Every variable keeps its type: Init and every step of Next. *)
THEOREM TypeCorrect == Spec => []TypeOK
<1>1. Init => writerTypes /\ pageTypes
  BY TypeInit
<1>2. writerTypes /\ pageTypes /\ [Next]_vars => writerTypes' /\ pageTypes'
  BY TypeStep
<1>3. writerTypes /\ pageTypes => TypeOK
  BY DEF writerTypes, pageTypes, TypeOK
<1> QED BY <1>1, <1>2, <1>3, PTL DEF Spec

-----------------------------------------------------------------------------
(* The writers: an event is in one place, and only a fault takes it away. *)

(* No event is in the memory of two writers, twice in that of one, or in       *)
(* memory and in the table; all have been written.                            *)
Apart ==
  /\ \A g, h \in Gateways :
       g # h => (batch[g] \cup taking[g]) \cap (batch[h] \cup taking[h]) = {}
  /\ \A g \in Gateways : batch[g] \cap taking[g] = {}
  /\ \A g \in Gateways : (batch[g] \cup taking[g]) \cap table = {}
  /\ \A g \in Gateways : batch[g] \cup taking[g] \subseteq 1..clock
  /\ table \subseteq 1..clock

(* A writer that has begun its last flush gets no further events, unless a     *)
(* handler has outlived the shutdown.                                         *)
Drained ==
  faults = 0 => \A g \in Gateways : proc[g] \in {"final", "down"} => batch[g] = {}

WInv == writerTypes /\ Apart /\ NothingLost /\ Drained

LEMMA WInvInit == Init => WInv
<1> SUFFICES ASSUME Init PROVE WInv
  OBVIOUS
<1>1. writerTypes
  BY TypeInit
<1>2. Apart /\ Drained
  BY DEF Init, Apart, Drained
<1>3. NothingLost
  BY DEF Init, NothingLost
<1> QED BY <1>1, <1>2, <1>3 DEF WInv

LEMMA FaultCounts == ASSUME writerTypes, Fault PROVE faults' # 0
BY BoundAssumption DEF writerTypes, Fault

(* Moving events out of one writer. *)
LEMMA WInvStep ==
  ASSUME WInv, NEW g \in Gateways, WriterStep(g)
  PROVE  WInv'
<1> USE DEF WInv
<1>0. writerTypes'
  BY WriterTypeStep
<1>t. /\ clock \in Nat /\ batch \in [Gateways -> SUBSET Events]
      /\ taking \in [Gateways -> SUBSET Events]
      /\ proc \in [Gateways -> {"up", "closing", "final", "down"}]
  BY BoundAssumption DEF writerTypes
<1>a. CASE Write(g)
  <2>1. /\ clock' = clock + 1
        /\ batch' = [batch EXCEPT ![g] = @ \cup {clock + 1}]
        /\ taking' = taking /\ table' = table /\ lost' = lost /\ proc' = proc
    BY <1>a DEF Write, pageVars
  <2>2. Apart'
    BY <1>t, <2>1 DEF Apart
  <2>3. NothingLost'
    <3>1. \A e \in 1..clock' : e \in 1..clock \/ e = clock + 1
      BY <1>t, <2>1
    <3>2. \A e \in 1..clock : (InMemory(e) \/ e \in table \cup lost)'
      BY <1>t, <2>1 DEF NothingLost, InMemory
    <3>3. clock + 1 \in batch'[g]
      BY <1>t, <2>1
    <3>4. faults' = 0 => faults = 0
      BY <1>a, FaultCounts DEF Write
    <3> QED BY <2>1, <3>1, <3>2, <3>3, <3>4 DEF NothingLost, InMemory
  <2>4. Drained'
    <3>1. CASE proc[g] = "up"
      BY <1>a, <1>t, <2>1, <3>1 DEF Write, Drained
    <3>2. CASE proc[g] # "up"
      BY <1>a, <3>2, FaultCounts DEF Write, Drained
    <3> QED BY <3>1, <3>2
  <2> QED BY <1>0, <2>2, <2>3, <2>4
<1>b. CASE Take(g) \/ FinalTake(g)
  <2>1. /\ taking[g] = {}
        /\ taking' = [taking EXCEPT ![g] = batch[g]]
        /\ batch' = [batch EXCEPT ![g] = {}]
        /\ clock' = clock /\ table' = table /\ lost' = lost /\ faults' = faults
        /\ \A h \in Gateways : proc'[h] = proc[h] \/ h = g
    BY <1>b, <1>t DEF Take, FinalTake
  <2>2. Apart'
    BY <1>t, <2>1 DEF Apart
  <2>3. NothingLost'
    BY <1>t, <2>1 DEF NothingLost, InMemory
  <2>4. Drained'
    BY <1>t, <2>1 DEF Drained
  <2> QED BY <1>0, <2>2, <2>3, <2>4
<1>c. CASE Insert(g)
  <2>1. /\ table' = table \cup taking[g]
        /\ taking' = [taking EXCEPT ![g] = {}]
        /\ clock' = clock /\ batch' = batch /\ lost' = lost /\ faults' = faults /\ proc' = proc
    BY <1>c DEF Insert
  <2>2. Apart'
    BY <1>t, <2>1 DEF Apart
  <2>3. NothingLost'
    BY <1>t, <2>1 DEF NothingLost, InMemory
  <2>4. Drained'
    BY <2>1 DEF Drained
  <2> QED BY <1>0, <2>2, <2>3, <2>4
<1>d. CASE InsertFails(g)
  <2>1. /\ lost' = lost \cup taking[g]
        /\ taking' = [taking EXCEPT ![g] = {}]
        /\ clock' = clock /\ batch' = batch /\ table' = table /\ proc' = proc
    BY <1>d DEF InsertFails
  <2>2. faults' # 0
    BY <1>d, FaultCounts DEF InsertFails
  <2>3. Apart'
    BY <1>t, <2>1 DEF Apart
  <2>4. NothingLost'
    BY <1>t, <2>1, <2>2 DEF NothingLost, InMemory
  <2>5. Drained'
    BY <2>2 DEF Drained
  <2> QED BY <1>0, <2>3, <2>4, <2>5
<1>e. CASE Stop(g) \/ Start(g)
  <2>1. /\ UNCHANGED <<clock, batch, taking, table, lost, faults>>
        /\ \A h \in Gateways : proc'[h] = proc[h] \/ proc'[h] \in {"up", "closing"}
    BY <1>e, <1>t DEF Stop, Start
  <2>2. Apart' /\ NothingLost' /\ Drained'
    BY <2>1 DEF Apart, NothingLost, InMemory, Drained
  <2> QED BY <1>0, <2>2
<1>f. CASE Exit(g) \/ Crash(g)
  <2>1. /\ lost' = lost \cup batch[g] \cup taking[g]
        /\ batch' = [batch EXCEPT ![g] = {}] /\ taking' = [taking EXCEPT ![g] = {}]
        /\ proc' = [proc EXCEPT ![g] = "down"]
        /\ clock' = clock /\ table' = table
    BY <1>f DEF Exit, Crash, End
  <2>2. faults' = 0 => faults = 0 /\ batch[g] = {} /\ taking[g] = {}
    BY <1>f, FaultCounts DEF Exit, Crash, Drained
  <2>3. Apart'
    BY <1>t, <2>1 DEF Apart
  <2>4. NothingLost'
    <3>1. \A e \in 1..clock : (InMemory(e) \/ e \in table \cup lost)'
      BY <1>t, <2>1 DEF NothingLost, InMemory
    <3>2. faults' = 0 => lost' = {}
      BY <2>1, <2>2 DEF NothingLost
    <3> QED BY <2>1, <3>1, <3>2 DEF NothingLost
  <2>5. Drained'
    BY <1>t, <2>1, <2>2 DEF Drained
  <2> QED BY <1>0, <2>3, <2>4, <2>5
<1> QED BY <1>a, <1>b, <1>c, <1>d, <1>e, <1>f DEF WriterStep

LEMMA WInvUnchanged == WInv /\ UNCHANGED writerVars => WInv'
BY DEF WInv, writerTypes, Apart, NothingLost, InMemory, Drained, writerVars

LEMMA WInvNext == WInv /\ [Next]_vars => WInv'
<1> SUFFICES ASSUME WInv, [Next]_vars PROVE WInv'
  OBVIOUS
<1>1. ASSUME NEW g \in Gateways, WriterStep(g) PROVE WInv'
  BY <1>1, WInvStep
<1>2. CASE PageStep
  BY <1>2, PageKeepsWriter, WInvUnchanged
<1>3. CASE UNCHANGED vars
  BY <1>3, WInvUnchanged DEF vars, writerVars
<1> QED BY <1>1, <1>2, <1>3 DEF Next

(* The writers' graceful shutdown: without a fault no event is lost, however   *)
(* flushes, shutdowns and starts overlap with the writing.                    *)
THEOREM NothingIsLost == Spec => []NothingLost
<1>1. WInv => NothingLost
  BY DEF WInv
<1> QED BY <1>1, WInvInit, WInvNext, PTL DEF Spec

(* No flush inserts what is in the table or will be inserted again.            *)
THEOREM InsertedAtMostOnce == Spec => []InsertedOnce
<1>1. WInv => InsertedOnce
  BY DEF WInv, Apart, InsertedOnce
<1> QED BY <1>1, WInvInit, WInvNext, PTL DEF Spec

-----------------------------------------------------------------------------
(* The writers implement EventLog. *)

LogStep == [Log!LogNext]_(Log!logVars)

LogInv == WInv /\ lost \subseteq 1..clock /\ lost \cap Held = {}

LEMMA LogStutter == UNCHANGED <<batch, taking, table, lost>> => LogStep
BY DEF LogStep, Log!logVars, Held

(* What one writer's memory gives up leaves the memory of all. *)
LEMMA HeldLess ==
  ASSUME WInv, NEW g \in Gateways, NEW S, S \subseteq batch[g] \cup taking[g],
         batch'[g] \cup taking'[g] = (batch[g] \cup taking[g]) \ S,
         \A h \in Gateways \ {g} : batch'[h] = batch[h] /\ taking'[h] = taking[h]
  PROVE  Held' = Held \ S /\ S \in SUBSET Held
<1>1. \A h \in Gateways \ {g} : (batch[h] \cup taking[h]) \cap S = {}
  BY DEF WInv, Apart
<1>2. \A h \in Gateways \ {g} : batch'[h] \cup taking'[h] = batch[h] \cup taking[h]
  OBVIOUS
<1>3. Held' = UNION {batch'[h] \cup taking'[h] : h \in Gateways}
  BY DEF Held
<1>4. ASSUME NEW e PROVE e \in Held' <=> e \in Held \ S
  <2>1. ASSUME NEW h \in Gateways
        PROVE  e \in batch'[h] \cup taking'[h] <=> e \in (batch[h] \cup taking[h]) \ S
    BY <1>1, <1>2
  <2>2. e \in Held' <=> \E h \in Gateways : e \in batch'[h] \cup taking'[h]
    BY <1>3
  <2>3. e \in Held <=> \E h \in Gateways : e \in batch[h] \cup taking[h]
    BY DEF Held
  <2> QED BY <2>1, <2>2, <2>3
<1> QED BY <1>4 DEF Held

LEMMA LogWrite ==
  ASSUME LogInv, NEW g \in Gateways, Write(g)
  PROVE  LogStep /\ LogInv'
<1> DEFINE e == clock + 1
<1>1. /\ clock \in Nat /\ e \in Events
      /\ batch \in [Gateways -> SUBSET Events] /\ taking \in [Gateways -> SUBSET Events]
  BY BoundAssumption DEF LogInv, WInv, writerTypes, Write, Events
<1>2. /\ clock' = e /\ batch' = [batch EXCEPT ![g] = @ \cup {e}]
      /\ taking' = taking /\ table' = table /\ lost' = lost
  BY DEF Write
<1>3. e \notin 1..clock
  BY <1>1
<1>4. e \notin Held \cup table \cup lost
  BY <1>3 DEF LogInv, WInv, Apart, Held
<1>5. Held' = Held \cup {e}
  BY <1>1, <1>2 DEF Held
<1>6. LogStep
  <2>1. Log!Accept(e)
    BY <1>2, <1>4, <1>5 DEF Log!Accept
  <2> QED BY <1>1, <2>1 DEF LogStep, Log!LogNext
<1>7. LogInv'
  <2>1. WInv'
    BY WInvStep DEF LogInv, WriterStep
  <2>2. 1..clock \subseteq 1..clock'
    BY <1>1, <1>2
  <2> QED BY <1>2, <1>4, <1>5, <2>1, <2>2 DEF LogInv
<1> QED BY <1>6, <1>7

LEMMA LogMove ==
  ASSUME LogInv, NEW g \in Gateways, WriterStep(g), ~Write(g)
  PROVE  LogStep /\ LogInv'
<1>1. WInv /\ WInv'
  BY WInvStep DEF LogInv
<1>2. /\ batch \in [Gateways -> SUBSET Events] /\ taking \in [Gateways -> SUBSET Events]
      /\ batch[g] \cap taking[g] = {} /\ batch[g] \cup taking[g] \subseteq 1..clock
  BY <1>1 DEF WInv, writerTypes, Apart
<1>3. Held \subseteq 1..clock
  BY <1>1 DEF WInv, Apart, Held
<1>4. CASE Take(g) \/ FinalTake(g)
  <2>1. /\ taking' = [taking EXCEPT ![g] = batch[g]] /\ batch' = [batch EXCEPT ![g] = {}]
        /\ taking[g] = {} /\ UNCHANGED <<clock, table, lost>>
    BY <1>4 DEF Take, FinalTake
  <2>2. \A h \in Gateways : batch'[h] \cup taking'[h] = batch[h] \cup taking[h]
    BY <1>2, <2>1
  <2>3. Held' = Held
    BY <2>2 DEF Held
  <2> QED BY <1>1, <2>1, <2>3 DEF LogInv, LogStep, Log!logVars
<1>5. CASE Insert(g)
  <2>1. /\ taking' = [taking EXCEPT ![g] = {}] /\ table' = table \cup taking[g]
        /\ UNCHANGED <<clock, batch, lost>>
    BY <1>5 DEF Insert
  <2>2. Held' = Held \ taking[g] /\ taking[g] \in SUBSET Held
    <3>1. batch'[g] \cup taking'[g] = (batch[g] \cup taking[g]) \ taking[g]
      BY <1>2, <2>1
    <3>2. \A h \in Gateways \ {g} : batch'[h] = batch[h] /\ taking'[h] = taking[h]
      BY <1>2, <2>1
    <3> QED BY <1>1, <3>1, <3>2, HeldLess
  <2>3. Log!Store(taking[g])
    BY <2>1, <2>2 DEF Log!Store
  <2>4. LogStep
    BY <2>2, <2>3 DEF LogStep, Log!LogNext
  <2>5. LogInv'
    BY <1>1, <2>1, <2>2 DEF LogInv
  <2> QED BY <2>4, <2>5
<1>6. CASE InsertFails(g)
  <2>1. /\ taking' = [taking EXCEPT ![g] = {}] /\ lost' = lost \cup taking[g]
        /\ UNCHANGED <<clock, batch, table>>
    BY <1>6 DEF InsertFails
  <2>2. Held' = Held \ taking[g] /\ taking[g] \in SUBSET Held
    <3>1. batch'[g] \cup taking'[g] = (batch[g] \cup taking[g]) \ taking[g]
      BY <1>2, <2>1
    <3>2. \A h \in Gateways \ {g} : batch'[h] = batch[h] /\ taking'[h] = taking[h]
      BY <1>2, <2>1
    <3> QED BY <1>1, <3>1, <3>2, HeldLess
  <2>3. Log!Drop(taking[g])
    BY <2>1, <2>2 DEF Log!Drop
  <2>4. LogStep
    BY <2>2, <2>3 DEF LogStep, Log!LogNext
  <2>5. LogInv'
    BY <1>1, <1>3, <2>1, <2>2 DEF LogInv
  <2> QED BY <2>4, <2>5
<1>7. CASE Exit(g) \/ Crash(g)
  <2> DEFINE S == batch[g] \cup taking[g]
  <2>1. /\ batch' = [batch EXCEPT ![g] = {}] /\ taking' = [taking EXCEPT ![g] = {}]
        /\ lost' = lost \cup S /\ UNCHANGED <<clock, table>>
    BY <1>7 DEF Exit, Crash, End
  <2>2. Held' = Held \ S /\ S \in SUBSET Held
    <3>1. batch'[g] \cup taking'[g] = (batch[g] \cup taking[g]) \ S
      BY <1>2, <2>1
    <3>2. \A h \in Gateways \ {g} : batch'[h] = batch[h] /\ taking'[h] = taking[h]
      BY <1>2, <2>1
    <3>3. S \subseteq batch[g] \cup taking[g]
      OBVIOUS
    <3> HIDE DEF S
    <3> QED BY <1>1, <3>1, <3>2, <3>3, HeldLess
  <2> HIDE DEF S
  <2>3. Log!Drop(S)
    BY <2>1, <2>2 DEF Log!Drop
  <2>4. LogStep
    BY <2>2, <2>3 DEF LogStep, Log!LogNext
  <2>5. LogInv'
    BY <1>1, <1>3, <2>1, <2>2 DEF LogInv
  <2> QED BY <2>4, <2>5
<1>8. CASE Stop(g) \/ Start(g)
  <2>1. UNCHANGED <<clock, batch, taking, table, lost>>
    BY <1>8 DEF Stop, Start
  <2> QED BY <1>1, <2>1, LogStutter DEF LogInv, Held
<1> QED BY <1>4, <1>5, <1>6, <1>7, <1>8 DEF WriterStep

LEMMA LogInitially == Init => LogInv /\ Log!LogInit
BY WInvInit DEF Init, LogInv, Held, Log!LogInit

LEMMA LogNextStep == LogInv /\ [Next]_vars => LogInv' /\ LogStep
<1> SUFFICES ASSUME LogInv, [Next]_vars PROVE LogInv' /\ LogStep
  OBVIOUS
<1>1. ASSUME UNCHANGED writerVars PROVE LogInv' /\ LogStep
  <2>1. UNCHANGED <<clock, batch, taking, table, lost>> /\ WInv'
    BY <1>1, WInvUnchanged DEF LogInv, writerVars
  <2> QED BY <2>1, LogStutter DEF LogInv, Held
<1>2. ASSUME NEW g \in Gateways, WriterStep(g) PROVE LogInv' /\ LogStep
  BY <1>2, LogWrite, LogMove
<1>3. CASE PageStep
  BY <1>1, <1>3, PageKeepsWriter
<1>4. CASE UNCHANGED vars
  BY <1>1, <1>4 DEF vars, writerVars
<1> QED BY <1>2, <1>3, <1>4 DEF Next

(* The writers together are one EventLog: for any number of gateways, every    *)
(* behaviour with its flushes, failed inserts, shutdowns and lost processes     *)
(* accepts an event once, and stores or drops it once and for good.            *)
THEOREM LogRefined == Spec => ImplementsLog
<1>1. LogInv /\ [Next]_vars => [Log!LogNext]_(Log!logVars)
  BY LogNextStep DEF LogStep
<1> QED BY <1>1, LogInitially, LogNextStep, PTL DEF Spec, ImplementsLog, Log!LogSpec

-----------------------------------------------------------------------------
(* The page's list. *)

PInv == writerTypes /\ pageTypes /\ ListedOnce

LEMMA ReceiveKeepsList ==
  ASSUME PInv, Receive
  PROVE  ListedOnce'
<1> USE DEF PInv, pageTypes
<1> DEFINE e == Head(wire)
<1>1. e \in Events
  BY DEF Receive
<1>2. CASE e \in seen
  <2>1. shown' = shown /\ seen' = Remembered({e}, shown)
    BY <1>2 DEF Receive
  <2>2. Cardinality(seen') <= MaxSeen /\ Range(shown) \subseteq seen'
    BY <1>1, <2>1, RememberedSize DEF ListedOnce
  <2> QED BY <2>1, <2>2 DEF ListedOnce
<1>3. CASE e \notin seen
  <2> DEFINE s == <<e>> \o shown
  <2>1. s \in Seq(Events) /\ Len(s) = Len(shown) + 1
        /\ s[1] = e /\ \A i \in 2..Len(s) : s[i] = shown[i - 1] /\ i - 1 \in DOMAIN shown
    BY <1>1
  <2>2. shown' = Cut(s) /\ seen' = Remembered({e}, shown')
    BY <1>3 DEF Receive
  <2>3. e \notin Range(shown)
    BY <1>3 DEF ListedOnce
  <2>4. \A i, j \in DOMAIN s : s[i] = s[j] => i = j
    BY <2>1, <2>3 DEF ListedOnce, Range
  <2>5. Range(s) \subseteq seen \cup {e}
    BY <2>1 DEF ListedOnce, Range
  <2> HIDE DEF s, e
  <2>6. /\ shown' \in Seq(Events) /\ Len(shown') <= MaxBuffer
        /\ \A i \in DOMAIN shown' : i \in DOMAIN s /\ shown'[i] = s[i]
    BY <2>1, <2>2, CutType
  <2>7. \A i, j \in DOMAIN shown' : shown'[i] = shown'[j] => i = j
    BY <2>4, <2>6
  <2>8. Range(shown') \subseteq seen \cup {e}
    BY <2>5, <2>6 DEF Range
  <2>9. Cardinality(seen') <= MaxSeen /\ Range(shown') \subseteq seen'
    BY <1>1, <2>2, <2>6, <2>8, RememberedSize
  <2> QED BY <2>6, <2>7, <2>9 DEF ListedOnce
<1> QED BY <1>2, <1>3

LEMMA HistoryKeepsList ==
  ASSUME PInv, SeedArrive
  PROVE  ListedOnce'
<1> USE DEF PInv, pageTypes
<1> DEFINE fresh == seed.events \ seen
<1>1. fresh \in SUBSET Events /\ fresh \cap seen = {}
  OBVIOUS
<1>2. PICK h \in Descending(fresh) : shown' = Cut(shown \o h)
  BY DEF SeedArrive
<1>3. seen' = Remembered(fresh, shown')
  BY DEF SeedArrive
<1> HIDE DEF fresh
<1>4. /\ h \in Seq(Events) /\ Range(h) \subseteq fresh
      /\ \A i, j \in DOMAIN h : i < j => h[i] > h[j]
  BY <1>1, <1>2, ListsAreSeqs DEF Descending
<1>5. \A i, j \in DOMAIN h : h[i] = h[j] => i = j
  <2> SUFFICES ASSUME NEW i \in 1..Len(h), NEW j \in 1..Len(h), h[i] = h[j] PROVE i = j
    BY <1>4
  <2>1. DOMAIN h = 1..Len(h) /\ h[i] \in Events
    BY <1>4
  <2>2. h[i] \in Int /\ ~(h[i] > h[j]) /\ ~(h[j] > h[i])
    BY <2>1 DEF Events
  <2>3. ~(i < j) /\ ~(j < i)
    BY <1>4, <2>1, <2>2
  <2> QED BY <2>3
<1> DEFINE s == shown \o h
<1>6. /\ s \in Seq(Events) /\ Len(s) = Len(shown) + Len(h)
      /\ \A i \in DOMAIN s : IF i <= Len(shown) THEN i \in DOMAIN shown /\ s[i] = shown[i]
                              ELSE i - Len(shown) \in DOMAIN h /\ s[i] = h[i - Len(shown)]
  BY <1>4
<1>7. \A i \in DOMAIN s : IF i <= Len(shown) THEN s[i] \in seen ELSE s[i] \in fresh
  BY <1>4, <1>6 DEF ListedOnce, Range
<1>8. \A i, j \in DOMAIN s : s[i] = s[j] => i = j
  <2> SUFFICES ASSUME NEW i \in DOMAIN s, NEW j \in DOMAIN s, s[i] = s[j] PROVE i = j
    OBVIOUS
  <2> HIDE DEF s
  <2>0. i \in Int /\ j \in Int
    BY <1>6
  <2>1. i <= Len(shown) <=> j <= Len(shown)
    BY <1>1, <1>7
  <2>2. CASE i <= Len(shown)
    BY <1>6, <2>1, <2>2 DEF ListedOnce
  <2>3. CASE ~(i <= Len(shown))
    <3>1. i - Len(shown) = j - Len(shown)
      BY <1>5, <1>6, <2>1, <2>3
    <3> QED BY <2>0, <3>1
  <2> QED BY <2>2, <2>3
<1> HIDE DEF s
<1>9. /\ shown' \in Seq(Events) /\ Len(shown') <= MaxBuffer
      /\ \A i \in DOMAIN shown' : i \in DOMAIN s /\ shown'[i] = s[i]
  BY <1>2, <1>6, CutType DEF s
<1>10. \A i, j \in DOMAIN shown' : shown'[i] = shown'[j] => i = j
  BY <1>8, <1>9
<1>11. Range(shown') \subseteq seen \cup fresh
  BY <1>7, <1>9 DEF Range
<1>12. Cardinality(seen') <= MaxSeen /\ Range(shown') \subseteq seen'
  BY <1>1, <1>3, <1>9, <1>11, RememberedSize
<1> QED BY <1>9, <1>10, <1>12 DEF ListedOnce

LEMMA ListInit == Init => PInv
<1> SUFFICES ASSUME Init PROVE PInv
  OBVIOUS
<1>1. shown = <<>> /\ seen = {}
  BY DEF Init
<1>2. ListedOnce
  BY <1>1, FS_EmptySet, SizeAssumption DEF ListedOnce, Range
<1> QED BY <1>2, TypeInit DEF PInv

LEMMA ListNext == PInv /\ [Next]_vars => PInv'
<1> SUFFICES ASSUME PInv, [Next]_vars PROVE PInv'
  OBVIOUS
<1>1. writerTypes' /\ pageTypes'
  BY TypeStep DEF PInv
<1>2. ASSUME UNCHANGED <<shown, seen>> PROVE ListedOnce'
  BY <1>2 DEF PInv, ListedOnce
<1>3. ASSUME NEW g \in Gateways, WriterStep(g) PROVE ListedOnce'
  BY <1>2, <1>3, WriterKeepsPage DEF pageVars
<1>4. CASE Receive
  BY <1>1, <1>4, ReceiveKeepsList DEF PInv
<1>5. CASE SeedArrive
  BY <1>1, <1>5, HistoryKeepsList DEF PInv
<1>6. CASE Remount
  <2>1. shown' = <<>> /\ seen' = {}
    BY <1>6 DEF Remount
  <2>2. ListedOnce'
    BY <2>1, FS_EmptySet, SizeAssumption DEF ListedOnce, Range
  <2> QED BY <1>1, <2>2 DEF PInv
<1>7. CASE GoLive \/ Pause \/ Connect \/ Poll \/ Break \/ SeedServe \/ SeedFails
  <2>1. ListedOnce'
    BY <1>2, <1>7 DEF GoLive, Pause, Connect, Poll, Break, SeedServe, SeedFails
  <2> QED BY <1>1, <2>1 DEF PInv
<1>8. CASE UNCHANGED vars
  <2>1. ListedOnce'
    BY <1>2, <1>8 DEF vars
  <2> QED BY <1>1, <2>1 DEF PInv
<1>9. ASSUME NEW g \in Gateways, WriterStep(g) PROVE PInv'
  BY <1>1, <1>3, <1>9 DEF PInv
<1> QED BY <1>4, <1>5, <1>6, <1>7, <1>8, <1>9 DEF Next, PageStep

(* The live list names no event twice and neither it nor the page's memory     *)
(* outgrows its bound, for any sizes with MaxBuffer <= MaxSeen.               *)
THEOREM EachListedOnce == Spec => []ListedOnce
<1>1. PInv => ListedOnce
  BY DEF PInv
<1> QED BY <1>1, ListInit, ListNext, PTL DEF Spec
=============================================================================
