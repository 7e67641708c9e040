--------------------------- MODULE PolicyCacheProofs ---------------------------
(* The bound on the age of the rules a gateway uses, for any number of        *)
(* gateways, requests, changes and ticks.                                     *)
EXTENDS PolicyCache, TLAPS

(* A version in the caches exists; the bound on its age is its own time       *)
(* against the time at which it was replaced.                                 *)
MemoryGood(entry) ==
    entry # NoEntry =>
        /\ entry.ver <= rules /\ entry.at <= now
        /\ entry.ver < rules => entry.at <= replaced[entry.ver] + MaxDelay

RedisGood(entry) ==
    entry # NoEntry =>
        /\ entry.ver <= rules /\ entry.at <= now /\ entry.expires <= now + 2 * Interval
        /\ entry.ver < rules =>
               /\ entry.at <= replaced[entry.ver] + MaxDelay
               /\ entry.expires <= replaced[entry.ver] + 2 * Interval + MaxDelay

ProcGood(row) ==
    /\ row.pc \in {"found", "fetch", "answered", "stored"} =>
           row.since <= now /\ now <= row.since + MaxDelay
    /\ row.pc \in {"redis", "found", "fetch", "answered", "stored", "dropping"} =>
           row.gw \in Gateways
    /\ row.pc \in {"found", "answered", "stored"} => row.ver <= rules
    /\ row.pc \in {"found", "stored"} =>
           /\ row.at <= now
           /\ row.ver < rules => row.at <= replaced[row.ver] + MaxDelay
    /\ row.pc = "found" /\ row.ver < rules =>
           row.since < replaced[row.ver] + 2 * Interval + MaxDelay
    /\ row.pc \in {"answered", "stored"} /\ row.ver < rules =>
           row.since <= replaced[row.ver]

MemoryOK == \A g \in Gateways : MemoryGood(mem[g])
ProcOK == \A p \in Procs : ProcGood(proc[p])

IInv == TypeOK /\ MemoryOK /\ RedisGood(redis) /\ ProcOK

----------------------------------------------------------------------------
(* A step that replaces the record of one process.                            *)
LEMMA ProcStep ==
    ASSUME IInv, NEW p \in Procs, NEW row \in ProcStates, ProcGood(row),
           proc' = [proc EXCEPT ![p] = row], UNCHANGED <<rules, replaced, now>>
    PROVE  proc' \in [Procs -> ProcStates] /\ ProcOK'
  <1>1. proc \in [Procs -> ProcStates]
    BY DEF IInv, TypeOK
  <1>2. \A q \in Procs : proc'[q] = IF q = p THEN row ELSE proc[q]
    BY <1>1
  <1>3. \A q \in Procs : ProcGood(proc'[q])
    BY <1>2 DEF IInv, ProcOK
  <1>4. ProcOK'
    BY <1>3 DEF ProcOK, ProcGood
  <1>5. QED
    BY <1>1, <1>4

LEMMA IdleGood == IdleProc \in ProcStates /\ ProcGood(IdleProc)
  BY BoundAssumption DEF IdleProc, ProcStates, ProcGood, Versions, Times

LEMMA FinishStep ==
    ASSUME IInv, NEW p \in Procs, Finish(p), UNCHANGED <<rules, replaced, now>>
    PROVE  proc' \in [Procs -> ProcStates] /\ ProcOK'
  BY IdleGood, ProcStep DEF Finish

(* A step that puts an entry into one gateway's memory.                       *)
LEMMA MemoryStep ==
    ASSUME IInv, NEW g \in Gateways, NEW entry \in Entries \cup {NoEntry},
           MemoryGood(entry), mem' = [mem EXCEPT ![g] = entry],
           UNCHANGED <<rules, replaced, now>>
    PROVE  mem' \in [Gateways -> Entries \cup {NoEntry}] /\ MemoryOK'
  <1>1. mem \in [Gateways -> Entries \cup {NoEntry}]
    BY DEF IInv, TypeOK
  <1>2. \A h \in Gateways : mem'[h] = IF h = g THEN entry ELSE mem[h]
    BY <1>1
  <1>3. \A h \in Gateways : MemoryGood(mem'[h])
    BY <1>2 DEF IInv, MemoryOK
  <1>4. MemoryOK'
    BY <1>3 DEF MemoryOK, MemoryGood
  <1>5. QED
    BY <1>1, <1>4

LEMMA InitInv == Init => IInv
  <1> SUFFICES ASSUME Init PROVE IInv
    OBVIOUS
  <1>1. TypeOK
    BY IdleGood, BoundAssumption DEF Init, TypeOK, Versions, Times
  <1>2. MemoryOK /\ RedisGood(redis)
    BY DEF Init, MemoryOK, MemoryGood, RedisGood
  <1>3. ProcOK
    BY IdleGood DEF Init, ProcOK
  <1>4. QED
    BY <1>1, <1>2, <1>3 DEF IInv

(* Only a change of the rules moves "replaced": the version it replaces was   *)
(* in force until now, and no time stored anywhere is later.                  *)
LEMMA ChangeStep == ASSUME IInv, Change PROVE IInv'
  <1>1. /\ rules' = rules + 1 /\ rules \in Versions /\ rules' \in Versions
        /\ \A v \in Versions : replaced'[v] = IF v = rules THEN now ELSE replaced[v]
        /\ now \in Nat /\ \A v \in Versions : replaced[v] \in Nat
        /\ replaced' \in [Versions -> Times]
        /\ UNCHANGED <<now, mem, redis, proc>>
    BY BoundAssumption DEF IInv, TypeOK, Change, Versions, Times
  <1>2. TypeOK'
    BY <1>1 DEF IInv, TypeOK
  <1>3. /\ MaxDelay \in Nat /\ 2 * Interval \in Nat
        /\ \A v \in Versions :
              /\ v \in Nat
              /\ v <= rules => v <= rules'
              /\ v <= rules /\ v < rules' =>
                     \/ v < rules /\ replaced'[v] = replaced[v]
                     \/ replaced'[v] = now
    BY <1>1, TimeAssumption DEF Versions
  <1>4. MemoryOK'
    <2> SUFFICES ASSUME NEW g \in Gateways, mem[g] # NoEntry PROVE MemoryGood(mem[g])'
      BY <1>1 DEF MemoryOK, MemoryGood
    <2>1. /\ mem[g].ver \in Versions /\ mem[g].at \in Nat /\ mem'[g] = mem[g]
          /\ MemoryGood(mem[g])
      BY <1>1, BoundAssumption DEF IInv, TypeOK, MemoryOK, Entries, Times
    <2>2. QED
      BY <1>1, <1>3, <2>1 DEF MemoryGood
  <1>5. RedisGood(redis)'
    <2> SUFFICES ASSUME redis # NoEntry PROVE RedisGood(redis)'
      BY <1>1 DEF RedisGood
    <2>1. /\ redis.ver \in Versions /\ redis.at \in Nat /\ redis.expires \in Nat
          /\ RedisGood(redis)
      BY BoundAssumption DEF IInv, TypeOK, RedisEntries, Times
    <2>2. /\ redis.ver \in Nat /\ replaced[redis.ver] \in Nat /\ redis' = redis
          /\ redis.ver <= rules => redis.ver <= rules'
          /\ redis.ver <= rules /\ redis.ver < rules' =>
                 \/ redis.ver < rules /\ replaced'[redis.ver] = replaced[redis.ver]
                 \/ replaced'[redis.ver] = now
      BY <1>1, <1>3, <2>1
    <2>3. QED
      BY <1>1, <2>1, <2>2, TimeAssumption DEF RedisGood
  <1>6. ProcOK'
    <2> SUFFICES ASSUME NEW p \in Procs PROVE ProcGood(proc[p])'
      BY <1>1 DEF ProcOK
    <2> DEFINE row == proc[p]
    <2>1. row \in ProcStates /\ ProcGood(row) /\ row' = row
      BY <1>1 DEF IInv, TypeOK, ProcOK
    <2>2. /\ row.ver \in Versions /\ row.at \in Nat /\ row.since \in Nat
          /\ replaced[row.ver] \in Nat /\ rules \in Nat
      BY <1>1, <2>1, BoundAssumption DEF ProcStates, Versions, Times
    <2> HIDE DEF row
    <2>3. /\ row.ver \in Nat
          /\ row.ver <= rules => row.ver <= rules'
          /\ row.ver <= rules /\ row.ver < rules' =>
                 \/ row.ver < rules /\ replaced'[row.ver] = replaced[row.ver]
                 \/ replaced'[row.ver] = now
      BY <1>3, <2>2
    <2>4. ProcGood(row)'
      BY <1>1, <2>1, <2>2, <2>3, TimeAssumption DEF ProcGood
    <2>5. QED
      BY <2>4 DEF row
  <1>7. QED
    BY <1>2, <1>4, <1>5, <1>6 DEF IInv

(* The guard of Tick keeps every call within MaxDelay; all other bounds speak *)
(* of times that do not move with the clock.                                  *)
LEMMA TickStep == ASSUME IInv, Tick PROVE IInv'
  <1>1. /\ now' = now + 1 /\ now \in Nat /\ now' \in Times
        /\ \A p \in Procs : Asking(p) => now < proc[p].since + MaxDelay
        /\ UNCHANGED <<rules, replaced, mem, redis, proc>>
    BY BoundAssumption DEF IInv, TypeOK, Tick, Times
  <1>2. TypeOK'
    BY <1>1 DEF IInv, TypeOK
  <1>3. MemoryOK'
    <2> SUFFICES ASSUME NEW g \in Gateways, mem[g] # NoEntry PROVE MemoryGood(mem[g])'
      BY <1>1 DEF MemoryOK, MemoryGood
    <2>1. mem[g] \in Entries /\ MemoryGood(mem[g])
      BY DEF IInv, TypeOK, MemoryOK
    <2>2. QED
      BY <1>1, <2>1 DEF MemoryGood, Entries, Times
  <1>4. RedisGood(redis)'
    <2> SUFFICES ASSUME redis # NoEntry PROVE RedisGood(redis)'
      BY <1>1 DEF RedisGood
    <2>1. redis \in RedisEntries /\ RedisGood(redis)
      BY DEF IInv, TypeOK
    <2>2. QED
      BY <1>1, <2>1, TimeAssumption DEF RedisGood, RedisEntries, Times
  <1>5. ProcOK'
    <2> SUFFICES ASSUME NEW p \in Procs PROVE ProcGood(proc[p])'
      BY <1>1 DEF ProcOK
    <2> DEFINE row == proc[p]
    <2>1. row \in ProcStates /\ ProcGood(row) /\ row' = row
      BY <1>1 DEF IInv, TypeOK, ProcOK
    <2>2. /\ row.at \in Nat /\ row.since \in Nat
          /\ row.pc \in {"found", "fetch", "answered", "stored"} => now < row.since + MaxDelay
      BY <1>1, <2>1, BoundAssumption DEF ProcStates, Times, Asking
    <2> HIDE DEF row
    <2>3. ProcGood(row)'
      BY <1>1, <2>1, <2>2, TimeAssumption DEF ProcGood
    <2>4. QED
      BY <2>3 DEF row
  <1>6. QED
    BY <1>2, <1>3, <1>4, <1>5 DEF IInv

(* The parts of the invariant that a step leaves alone.                       *)
LEMMA Frame ==
    ASSUME IInv, UNCHANGED <<rules, replaced, now>>
    PROVE  /\ mem' = mem => MemoryOK'
           /\ redis' = redis => RedisGood(redis)'
           /\ proc' = proc => ProcOK'
  BY DEF IInv, MemoryOK, MemoryGood, RedisGood, ProcOK, ProcGood

(* A record of a process, field by field.                                     *)
LEMMA ProcFields ==
    ASSUME IInv, NEW p \in Procs
    PROVE  /\ proc[p] \in ProcStates /\ ProcGood(proc[p])
           /\ proc[p].ver \in Versions /\ proc[p].ver \in Nat
           /\ proc[p].at \in Times /\ proc[p].since \in Times
           /\ proc[p].at \in Nat /\ proc[p].since \in Nat
           /\ now \in Times /\ now \in Nat /\ rules \in Versions /\ rules \in Nat
           /\ \A v \in Versions : replaced[v] \in Nat
           /\ MaxDelay \in Nat /\ Interval \in Nat \ {0}
  BY BoundAssumption, TimeAssumption DEF IInv, TypeOK, ProcOK, ProcStates, Versions, Times

LEMMA MissMemoryStep ==
    ASSUME IInv, NEW p \in Requests, NEW g \in Gateways, MissMemory(p, g)
    PROVE  IInv'
  <1> DEFINE row == [IdleProc EXCEPT !.pc = "redis", !.gw = g]
  <1>1. row \in ProcStates /\ ProcGood(row)
    BY IdleGood DEF IdleProc, ProcStates, ProcGood
  <1>2. /\ proc' = [proc EXCEPT ![p] = row]
        /\ UNCHANGED <<rules, replaced, now, mem, redis>>
    BY DEF MissMemory
  <1> HIDE DEF row
  <1>3. proc' \in [Procs -> ProcStates] /\ ProcOK'
    BY <1>1, <1>2, ProcStep DEF Procs
  <1>4. QED
    BY <1>2, <1>3, Frame DEF IInv, TypeOK

LEMMA ReadRedisStep ==
    ASSUME IInv, NEW p \in Requests, ReadRedis(p)
    PROVE  IInv'
  <1> DEFINE row == [proc[p] EXCEPT !.pc = "found", !.since = now,
                                    !.ver = redis.ver, !.at = redis.at]
  <1>1. p \in Procs /\ proc[p].pc = "redis" /\ redis # NoEntry /\ now < redis.expires
    BY DEF ReadRedis, Live, Procs
  <1>2. proc' = [proc EXCEPT ![p] = row] /\ UNCHANGED <<rules, replaced, now, mem, redis>>
    BY DEF ReadRedis
  <1>3. redis \in RedisEntries /\ RedisGood(redis)
    BY <1>1 DEF IInv, TypeOK
  <1>4. /\ row \in ProcStates /\ row.pc = "found" /\ row.since = now
        /\ row.ver = redis.ver /\ row.at = redis.at /\ row.gw \in Gateways
    BY <1>1, <1>3, ProcFields DEF ProcStates, RedisEntries, ProcGood
  <1> HIDE DEF row
  <1>5. redis.ver \in Versions /\ redis.at \in Nat /\ redis.expires \in Nat
    BY <1>3, BoundAssumption DEF RedisEntries, Times
  <1>6. ProcGood(row)
    BY <1>1, <1>3, <1>4, <1>5, ProcFields DEF ProcGood, RedisGood
  <1>7. proc' \in [Procs -> ProcStates] /\ ProcOK'
    BY <1>1, <1>2, <1>4, <1>6, ProcStep
  <1>8. QED
    BY <1>2, <1>7, Frame DEF IInv, TypeOK

LEMMA ServeRedisStep ==
    ASSUME IInv, NEW p \in Requests, ServeRedis(p)
    PROVE  IInv'
  <1> DEFINE entry == [ver |-> proc[p].ver, at |-> proc[p].at]
  <1>1. /\ p \in Procs /\ proc[p].pc = "found" /\ Finish(p)
        /\ mem' = [mem EXCEPT ![proc[p].gw] = entry]
        /\ UNCHANGED <<rules, replaced, now, redis>>
    BY DEF ServeRedis, Procs
  <1>2. entry \in Entries /\ MemoryGood(entry) /\ proc[p].gw \in Gateways
    BY <1>1, ProcFields DEF Entries, MemoryGood, ProcGood
  <1> HIDE DEF entry
  <1>3. mem' \in [Gateways -> Entries \cup {NoEntry}] /\ MemoryOK'
    BY <1>1, <1>2, MemoryStep
  <1>4. proc' \in [Procs -> ProcStates] /\ ProcOK'
    BY <1>1, FinishStep
  <1>5. QED
    BY <1>1, <1>3, <1>4, Frame DEF IInv, TypeOK

LEMMA AskStep ==
    ASSUME IInv, NEW p \in Procs, Ask(p)
    PROVE  IInv'
  <1>1. UNCHANGED <<rules, replaced, now, mem, redis>>
    BY DEF Ask
  <1>2. proc' \in [Procs -> ProcStates] /\ ProcOK'
    <2>1. CASE proc[p].pc = "redis" /\ proc' = [proc EXCEPT ![p].pc = "fetch", ![p].since = now]
      <3> DEFINE row == [proc[p] EXCEPT !.pc = "fetch", !.since = now]
      <3>1. /\ row \in ProcStates /\ row.pc = "fetch" /\ row.since = now
            /\ row.gw \in Gateways
        BY <2>1, ProcFields DEF ProcStates, ProcGood
      <3>2. proc' = [proc EXCEPT ![p] = row]
        BY <2>1
      <3> HIDE DEF row
      <3>3. ProcGood(row)
        BY <3>1, ProcFields DEF ProcGood
      <3>4. QED
        BY <1>1, <3>1, <3>2, <3>3, ProcStep
    <2>2. CASE p \in Gateways /\ proc' = [proc EXCEPT ![p] =
                  [IdleProc EXCEPT !.pc = "fetch", !.gw = p, !.since = now]]
      <3> DEFINE row == [IdleProc EXCEPT !.pc = "fetch", !.gw = p, !.since = now]
      <3>1. /\ row \in ProcStates /\ row.pc = "fetch" /\ row.since = now
            /\ row.gw \in Gateways
        BY <2>2, IdleGood, ProcFields DEF IdleProc, ProcStates
      <3>2. proc' = [proc EXCEPT ![p] = row]
        BY <2>2
      <3> HIDE DEF row
      <3>3. ProcGood(row)
        BY <3>1, ProcFields DEF ProcGood
      <3>4. QED
        BY <1>1, <3>1, <3>2, <3>3, ProcStep
    <2>3. QED
      BY <2>1, <2>2 DEF Ask
  <1>3. QED
    BY <1>1, <1>2, Frame DEF IInv, TypeOK

LEMMA AnswerStep ==
    ASSUME IInv, NEW p \in Procs, Answer(p)
    PROVE  IInv'
  <1> DEFINE row == [proc[p] EXCEPT !.pc = "answered", !.ver = rules]
  <1>1. /\ proc[p].pc = "fetch" /\ proc' = [proc EXCEPT ![p] = row]
        /\ UNCHANGED <<rules, replaced, now, mem, redis>>
    BY DEF Answer
  <1>2. /\ row \in ProcStates /\ row.pc = "answered" /\ row.ver = rules
        /\ row.since = proc[p].since /\ row.gw = proc[p].gw
    BY ProcFields DEF ProcStates
  <1> HIDE DEF row
  <1>3. ProcGood(row)
    BY <1>1, <1>2, ProcFields DEF ProcGood
  <1>4. proc' \in [Procs -> ProcStates] /\ ProcOK'
    BY <1>1, <1>2, <1>3, ProcStep
  <1>5. QED
    BY <1>1, <1>4, Frame DEF IInv, TypeOK

LEMMA StoreMemoryStep ==
    ASSUME IInv, NEW p \in Procs, StoreMemory(p)
    PROVE  IInv'
  <1> DEFINE row == [proc[p] EXCEPT !.pc = "stored", !.at = now]
             entry == [ver |-> proc[p].ver, at |-> now]
  <1>1. /\ proc[p].pc = "answered" /\ proc' = [proc EXCEPT ![p] = row]
        /\ mem' = [mem EXCEPT ![proc[p].gw] = entry]
        /\ UNCHANGED <<rules, replaced, now, redis>>
    BY DEF StoreMemory
  <1>2. /\ row \in ProcStates /\ row.pc = "stored" /\ row.at = now
        /\ row.ver = proc[p].ver /\ row.since = proc[p].since /\ row.gw = proc[p].gw
    BY ProcFields DEF ProcStates
  <1>3. /\ proc[p].gw \in Gateways /\ proc[p].ver <= rules
        /\ now <= proc[p].since + MaxDelay /\ proc[p].since <= now
        /\ proc[p].ver < rules => proc[p].since <= replaced[proc[p].ver]
    BY <1>1, ProcFields DEF ProcGood
  <1>4. proc[p].ver < rules => now <= replaced[proc[p].ver] + MaxDelay
    BY <1>3, ProcFields
  <1>5. entry \in Entries /\ MemoryGood(entry)
    BY <1>3, <1>4, ProcFields DEF Entries, MemoryGood
  <1> HIDE DEF row, entry
  <1>6. ProcGood(row)
    BY <1>2, <1>3, <1>4, ProcFields DEF ProcGood
  <1>7. proc' \in [Procs -> ProcStates] /\ ProcOK'
    BY <1>1, <1>2, <1>6, ProcStep
  <1>8. mem' \in [Gateways -> Entries \cup {NoEntry}] /\ MemoryOK'
    BY <1>1, <1>3, <1>5, MemoryStep
  <1>9. QED
    BY <1>1, <1>7, <1>8, Frame DEF IInv, TypeOK

LEMMA StoreRedisStep ==
    ASSUME IInv, NEW p \in Procs, StoreRedis(p)
    PROVE  IInv'
  <1> DEFINE entry == [ver |-> proc[p].ver, at |-> proc[p].at,
                       expires |-> now + 2 * Interval]
  <1>1. /\ proc[p].pc = "stored" /\ redis' \in {redis, entry} /\ Finish(p)
        /\ UNCHANGED <<rules, replaced, now, mem>>
    BY DEF StoreRedis
  <1>2. /\ proc[p].ver <= rules /\ proc[p].at <= now /\ now <= proc[p].since + MaxDelay
        /\ proc[p].ver < rules => /\ proc[p].at <= replaced[proc[p].ver] + MaxDelay
                                  /\ proc[p].since <= replaced[proc[p].ver]
    BY <1>1, ProcFields DEF ProcGood
  <1>3. entry \in RedisEntries /\ RedisGood(entry)
    BY <1>2, ProcFields DEF RedisEntries, RedisGood
  <1> HIDE DEF entry
  <1>4. redis' \in RedisEntries \cup {NoEntry} /\ RedisGood(redis)'
    BY <1>1, <1>3 DEF IInv, TypeOK, RedisGood
  <1>5. proc' \in [Procs -> ProcStates] /\ ProcOK'
    BY <1>1, FinishStep
  <1>6. QED
    BY <1>1, <1>4, <1>5, Frame DEF IInv, TypeOK

LEMMA DropMemoryStep ==
    ASSUME IInv, NEW p \in Requests, NEW g \in Gateways, DropMemory(p, g)
    PROVE  IInv'
  <1> DEFINE row == [IdleProc EXCEPT !.pc = "dropping", !.gw = g]
  <1>1. /\ p \in Procs /\ mem' = [mem EXCEPT ![g] = NoEntry]
        /\ proc' = [proc EXCEPT ![p] = row]
        /\ UNCHANGED <<rules, replaced, now, redis>>
    BY DEF DropMemory, Procs
  <1>2. row \in ProcStates /\ ProcGood(row)
    BY <1>1, IdleGood, ProcFields DEF IdleProc, ProcStates, ProcGood
  <1> HIDE DEF row
  <1>3. proc' \in [Procs -> ProcStates] /\ ProcOK'
    BY <1>1, <1>2, ProcStep
  <1>4. mem' \in [Gateways -> Entries \cup {NoEntry}] /\ MemoryOK'
    BY <1>1, MemoryStep DEF MemoryGood
  <1>5. QED
    BY <1>1, <1>3, <1>4, Frame DEF IInv, TypeOK

LEMMA DropRedisStep ==
    ASSUME IInv, NEW p \in Requests, DropRedis(p)
    PROVE  IInv'
  <1>1. /\ p \in Procs /\ proc[p].pc = "dropping" /\ Finish(p)
        /\ redis' \in {redis, NoEntry}
        /\ UNCHANGED <<rules, replaced, now, mem>>
    BY DEF DropRedis, Procs
  <1>2. proc' \in [Procs -> ProcStates] /\ ProcOK'
    BY <1>1, FinishStep
  <1>3. redis' \in RedisEntries \cup {NoEntry} /\ RedisGood(redis)'
    BY <1>1 DEF IInv, TypeOK, RedisGood
  <1>4. QED
    BY <1>1, <1>2, <1>3, Frame DEF IInv, TypeOK

LEMMA RestartStep ==
    ASSUME IInv, NEW g \in Gateways, Restart(g)
    PROVE  IInv'
  <1>1. /\ mem' = [mem EXCEPT ![g] = NoEntry]
        /\ proc' = [p \in Procs |-> IF proc[p].gw = g THEN IdleProc ELSE proc[p]]
        /\ UNCHANGED <<rules, replaced, now, redis>>
    BY DEF Restart
  <1>2. proc' \in [Procs -> ProcStates]
    BY <1>1, IdleGood DEF IInv, TypeOK
  <1>3. \A p \in Procs : ProcGood(proc'[p])
    BY <1>1, IdleGood DEF IInv, ProcOK
  <1>4. ProcOK'
    BY <1>1, <1>3 DEF ProcOK, ProcGood
  <1>5. mem' \in [Gateways -> Entries \cup {NoEntry}] /\ MemoryOK'
    BY <1>1, MemoryStep DEF MemoryGood
  <1>6. QED
    BY <1>1, <1>2, <1>4, <1>5, Frame DEF IInv, TypeOK

LEMMA NextInv == IInv /\ [Next]_vars => IInv'
  <1> SUFFICES ASSUME IInv, [Next]_vars PROVE IInv'
    OBVIOUS
  <1>1. CASE RedisLost
    <2>1. RedisGood(redis)'
      BY <1>1 DEF RedisLost, RedisGood
    <2>2. QED
      BY <1>1, <2>1, Frame DEF RedisLost, IInv, TypeOK
  <1>2. ASSUME NEW p \in Procs, AskFails(p) PROVE IInv'
    BY <1>2, FinishStep, Frame DEF AskFails, IInv, TypeOK
  <1>3. CASE UNCHANGED vars
    BY <1>3, Frame DEF vars, IInv, TypeOK
  <1>4. ASSUME NEW p \in Requests, RequestStep(p) PROVE IInv'
    BY <1>4, MissMemoryStep, DropMemoryStep, ReadRedisStep, ServeRedisStep, DropRedisStep
    DEF RequestStep
  <1>5. ASSUME NEW p \in Procs, FetchStep(p) PROVE IInv'
    BY <1>2, <1>5, AskStep, AnswerStep, StoreMemoryStep, StoreRedisStep DEF FetchStep
  <1>6. QED
    BY <1>1, <1>3, <1>4, <1>5, ChangeStep, TickStep, RestartStep DEF Next

LEMMA Invariance == Spec => []IInv
  BY InitInv, NextInv, PTL DEF Spec

(* The caches, the clock and the processes keep their types (TypeOK).         *)
THEOREM TypeCorrect == Spec => []TypeOK
  <1>1. IInv => TypeOK
    BY DEF IInv
  <1>2. QED
    BY <1>1, Invariance, PTL

(* What a memory entry can be used for is bounded by its age, what is on its  *)
(* way out of GetRules by the delay of a call (BoundedStaleness).             *)
THEOREM StalenessBounded == Spec => []BoundedStaleness
  <1>1. IInv => BoundedStaleness
    <2> SUFFICES ASSUME IInv, NEW v \in Returnable, v < rules
                 PROVE  now < replaced[v] + 2 * (Interval + MaxDelay)
      BY DEF BoundedStaleness
    <2>1. CASE \E g \in Gateways : mem[g] # NoEntry /\ Fresh(mem[g]) /\ v = mem[g].ver
      <3>1. PICK g \in Gateways : mem[g] # NoEntry /\ Fresh(mem[g]) /\ v = mem[g].ver
        BY <2>1
      <3>2. mem[g] \in Entries /\ MemoryGood(mem[g])
        BY <3>1 DEF IInv, TypeOK, MemoryOK
      <3>3. /\ mem[g].at \in Nat /\ now \in Nat /\ replaced[v] \in Nat
            /\ mem[g].at <= replaced[v] + MaxDelay /\ now - mem[g].at < 2 * Interval
        BY <2>1, <3>1, <3>2, BoundAssumption
        DEF IInv, TypeOK, Entries, Versions, Times, MemoryGood, Fresh
      <3>4. QED
        BY <3>3, TimeAssumption
    <2>2. CASE \E p \in Procs : proc[p].pc \in {"found", "stored"} /\ v = proc[p].ver
      <3>1. PICK p \in Procs : proc[p].pc \in {"found", "stored"} /\ v = proc[p].ver
        BY <2>2
      <3>2. /\ proc[p].since < replaced[v] + 2 * Interval + MaxDelay
            /\ now <= proc[p].since + MaxDelay
        BY <3>1, ProcFields DEF ProcGood
      <3>3. QED
        BY <3>1, <3>2, ProcFields
    <2>3. QED
      BY <2>1, <2>2 DEF Returnable
  <1>2. QED
    BY <1>1, Invariance, PTL

=============================================================================
