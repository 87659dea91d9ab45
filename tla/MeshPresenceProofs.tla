------------------------ MODULE MeshPresenceProofs -------------------------
(***************************************************************************)
(* Proofs about MeshPresence, for any mesh, packets, brokers, reporters and*)
(* settings: what the neighbour graph rests on, that a stored clock follows*)
(* the registry's, that a live row keeps its readings, who is on the map,  *)
(* and that the sweep expires only the silent.                             *)
(*                                                                         *)
(* Types holds of every state: no remembered time is ahead of the clock.   *)
(* On it rest an invariant for each property, of which all must know what  *)
(* the tick under way carries from one of its critical sections to the     *)
(* next: LinkInv (the packets behind a link), ClockInv (the clocks handed  *)
(* to the store), MapInv (the advert behind a row) and, for the sweep,     *)
(* DeliveryInv (the brokers' deliveries) and SilenceInv (what became of    *)
(* every remembered clock of a node that has not strayed over the fence).  *)
(***************************************************************************)
EXTENDS MeshPresence, FiniteSums

-----------------------------------------------------------------------------
(***************************************************************************)
(* The largest and the smallest of some times.                             *)
(***************************************************************************)
LEMMA MaxIn ==
    ASSUME NEW N \in Nat, NEW S, S \subseteq 0 .. N, S # {}
    PROVE  Max(S) \in S /\ \A y \in S : y <= Max(S)
<1> DEFINE T == {N - x : x \in S}
<1>1. T \subseteq Nat /\ T # {}
  <2>1. \A x \in S : x \in Int /\ 0 <= x /\ x <= N  OBVIOUS
  <2>2. \A x \in S : N - x \in Nat  BY <2>1
  <2>3. PICK x \in S : TRUE  OBVIOUS
  <2> QED  BY <2>2, <2>3
<1>2. PICK t \in T : \A u \in T : t <= u  BY <1>1, NatMinimum
<1>3. PICK x \in S : t = N - x  OBVIOUS
<1>4. ASSUME NEW y \in S PROVE x >= y
  <2>1. N - x <= N - y  BY <1>2, <1>3
  <2> QED  BY <2>1
<1> DEFINE m == Max(S)
<1>5. m \in S /\ \A y \in S : m >= y  BY <1>4 DEF Max
<1> HIDE DEF m
<1>6. m \in Int /\ \A y \in S : y \in Int  BY <1>5
<1>7. \A y \in S : y <= m  BY <1>5, <1>6
<1> QED  BY <1>5, <1>7 DEF m

LEMMA MaxTwo ==
    ASSUME NEW a \in Nat, NEW b \in Nat
    PROVE  Max({a, b}) = IF a < b THEN b ELSE a
<1>1. \E x \in {a, b} : \A y \in {a, b} : x >= y  OBVIOUS
<1>2. Max({a, b}) \in {a, b} /\ \A y \in {a, b} : Max({a, b}) >= y  BY <1>1 DEF Max
<1> QED  BY <1>2

LEMMA MinTwo ==
    ASSUME NEW a \in Nat, NEW b \in Nat
    PROVE  Min({a, b}) = IF a < b THEN a ELSE b
<1>1. \E x \in {a, b} : \A y \in {a, b} : x =< y  OBVIOUS
<1>2. Min({a, b}) \in {a, b} /\ \A y \in {a, b} : Min({a, b}) =< y  BY <1>1 DEF Min
<1> QED  BY <1>2

LEMMA LatestIs ==
    ASSUME NEW N \in Nat, NEW S, S \subseteq 0 .. N
    PROVE  /\ Latest(S) \in 0 .. N
           /\ \A t \in S : t <= Latest(S)
           /\ Latest(S) > 0 => Latest(S) \in S
<1>1. S \cup {0} \subseteq 0 .. N /\ S \cup {0} # {}  OBVIOUS
<1> DEFINE m == Max(S \cup {0})
<1>2. m \in S \cup {0} /\ \A y \in S \cup {0} : y <= m  BY <1>1, MaxIn
<1> HIDE DEF m
<1>3. m \in 0 .. N /\ (\A t \in S : t <= m) /\ (m > 0 => m \in S)  BY <1>1, <1>2
<1> QED  BY <1>3 DEF m, Latest

-----------------------------------------------------------------------------
(***************************************************************************)
(* The cadence: what RecordCadence and the replay of the stored receptions *)
(* compute, by the smallest counterexample.                                *)
(***************************************************************************)
CadenceTo(T) == [last : T, ewma : T]

LEMMA CadenceType ==
    ASSUME NEW N \in Nat, NEW t \in 0 .. N, NEW c \in CadenceTo(0 .. N), c.last <= t
    PROVE  RecordCadence(c, t) \in CadenceTo(0 .. N) /\ RecordCadence(c, t).last <= t
<1>1. c.last \in 0 .. N /\ c.ewma \in 0 .. N  BY DEF CadenceTo
<1> DEFINE gap == t - c.last
           avg == (3 * gap + 7 * c.ewma) \div 10
<1>2. gap \in 0 .. N  BY <1>1
<1>3. avg \in 0 .. N
  <2> DEFINE total == 3 * gap + 7 * c.ewma
  <2>1. total \in Int /\ 0 <= total /\ total <= 10 * N
    <3>1. PICK a \in 0 .. N, b \in 0 .. N : a = gap /\ b = c.ewma  BY <1>1, <1>2
    <3>2. a \in Int /\ b \in Int /\ 0 <= a /\ a <= N /\ 0 <= b /\ b <= N  BY <3>1
    <3>3. total = 3 * a + 7 * b  BY <3>1
    <3> QED  BY <3>2, <3>3
  <2> HIDE DEF total
  <2>2. total \in Nat  BY <2>1
  <2>3. PICK q \in Int : q = total \div 10  BY <2>2
  <2>4. q >= 0 /\ 10 * q <= total  BY <2>2, <2>3
  <2> QED  BY <2>1, <2>3, <2>4 DEF total
<1>4. RecordCadence(c, t) = IF c.last = 0 THEN [last |-> t, ewma |-> 0] ELSE IF gap = 0 THEN c
                            ELSE [last |-> t, ewma |-> IF c.ewma = 0 THEN gap ELSE avg]
  BY DEF RecordCadence
<1> HIDE DEF gap, avg
<1> QED  BY <1>1, <1>2, <1>3, <1>4 DEF CadenceTo

ReplayStep(times, c, t) ==
    IF t \in times THEN RecordCadence(c, t) ELSE c

Replay(times, k, g) ==
    g = [t \in 0 .. k |-> IF t = 0 THEN [last |-> 0, ewma |-> 0] ELSE ReplayStep(times, g[t - 1], t)]

LEMMA ReplayExists ==
    ASSUME NEW times, NEW n \in Nat PROVE \E g : Replay(times, n, g)
<1> DEFINE Bad == {k \in Nat : ~ \E g : Replay(times, k, g)}
<1>1. CASE Bad # {}
  <2>1. PICK k \in Bad : \A j \in Bad : k <= j  BY <1>1, NatMinimum
  <2>2. k # 0
    <3>1. CASE k = 0
      <4> DEFINE g == [t \in 0 .. k |-> [last |-> 0, ewma |-> 0]]
      <4>1. Replay(times, k, g)  BY <3>1 DEF Replay
      <4> QED  BY <4>1
    <3> QED  BY <3>1
  <2>3. k - 1 \in Nat /\ k - 1 \notin Bad  BY <2>1, <2>2
  <2>4. PICK h : Replay(times, k - 1, h)  BY <2>3
  <2> DEFINE g == [t \in 0 .. k |-> IF t < k THEN h[t] ELSE ReplayStep(times, h[k - 1], k)]
  <2>5. ASSUME NEW t \in 0 .. k
        PROVE  g[t] = IF t = 0 THEN [last |-> 0, ewma |-> 0] ELSE ReplayStep(times, g[t - 1], t)
    <3>1. t < k => h[t] = IF t = 0 THEN [last |-> 0, ewma |-> 0] ELSE ReplayStep(times, h[t - 1], t)
      <4>1. t < k => t \in 0 .. k - 1  BY <2>3
      <4> QED  BY <2>4, <4>1 DEF Replay
    <3>2. t # 0 => t - 1 \in 0 .. k /\ t - 1 < k  BY <2>3
    <3>3. t # 0 => g[t - 1] = h[t - 1]  BY <3>2
    <3> QED  BY <2>2, <3>1, <3>3
  <2>6. Replay(times, k, g)
    <3>1. g = [t \in 0 .. k |-> g[t]]  OBVIOUS
    <3> HIDE DEF g
    <3> QED  BY <2>5, <3>1 DEF Replay
  <2> QED  BY <2>6
<1> QED  BY <1>1

LEMMA ReplayType ==
    ASSUME NEW N \in Nat, NEW times, times \subseteq 0 .. N, MaxTime \in Nat
    PROVE  Replayed(times) \in CadenceTo(0 .. N)
<1> DEFINE g == CHOOSE g : Replay(times, MaxTime, g)
           Good(t) == g[t] \in CadenceTo(0 .. N) /\ g[t].last <= t
           Bad == {t \in 0 .. MaxTime : ~Good(t)}
<1>1. Replay(times, MaxTime, g)  BY ReplayExists
<1>2. Replayed(times) = g[MaxTime]  BY Zenon DEF Replayed, Replay, ReplayStep
<1> HIDE DEF g
<1>3. CASE Bad # {}
  <2>1. PICK t \in Bad : \A u \in Bad : t <= u
    <3>1. Bad \subseteq Nat  OBVIOUS
    <3> HIDE DEF Bad
    <3> QED  BY <1>3, <3>1, NatMinimum
  <2>2. t \in 0 .. MaxTime /\ ~Good(t)  OBVIOUS
  <2>3. t # 0  BY <1>1, <2>2 DEF Replay, CadenceTo
  <2>4. t - 1 \in 0 .. MaxTime /\ ~(t <= t - 1)  BY <2>2, <2>3
  <2>5. Good(t - 1)  BY <2>1, <2>4
  <2>6. g[t] = ReplayStep(times, g[t - 1], t)  BY <1>1, <2>2, <2>3 DEF Replay
  <2>7. g[t - 1].last \in 0 .. N /\ g[t - 1].last <= t  BY <2>4, <2>5 DEF CadenceTo
  <2>8. CASE t \in times
    <3>1. t \in 0 .. N  BY <2>8
    <3>2. g[t] = RecordCadence(g[t - 1], t)  BY <2>6, <2>8 DEF ReplayStep
    <3>3. RecordCadence(g[t - 1], t) \in CadenceTo(0 .. N) /\ RecordCadence(g[t - 1], t).last <= t
      BY <2>5, <2>7, <3>1, CadenceType
    <3> QED  BY <2>2, <3>2, <3>3
  <2>9. CASE t \notin times  BY <2>2, <2>5, <2>6, <2>7, <2>9 DEF ReplayStep
  <2> QED  BY <2>8, <2>9
<1> QED  BY <1>2, <1>3

-----------------------------------------------------------------------------
(***************************************************************************)
(* Types.  No time the registry, the normalizer or the store remembers is  *)
(* ahead of the clock: T is the times so far.                              *)
(***************************************************************************)
Past == 0 .. now

ClocksTo(T)  == [heard : T, relayed : T]
EntriesTo(T) == [heard : T, recv : T, relayed : T, cadence : CadenceTo(T),
                 loc : Nat \cup {Nil}, signal : BOOLEAN, via : SUBSET Door]
RowsTo(T)    == [status : {"ACTIVE", "EXPIRED"}, geo : Nat \cup {Nil}, via : SUBSET Door,
                 reach : {"UNSPECIFIED", "REACHABLE", "UNREACHABLE"}, signal : BOOLEAN,
                 admin : T, seen : T]
HeardTo(T)   == [packet : Packet, at : T]
ReportsTo(T) == [id : Key \cup Prefix, by : Reporter, success : T, at : T]
MergedTo(T)  == [mqtt : EntriesTo(T) \cup {Nil}, reports : SUBSET ReportsTo(T)]
Steps        == {"idle", "drained", "snapped", "polled", "recorded"}

PollTo(T) ==
    [step : Steps, began : T, at : T, deaf : BOOLEAN, registryLive : BOOLEAN,
     reports : SUBSET ReportsTo(T), silent : BOOLEAN, suppress : BOOLEAN, relays : [Key -> T],
     merged : [Key -> MergedTo(T) \cup {Nil}], refused : SUBSET Key, obs : SUBSET HeardTo(T), advanced : [Key -> ClocksTo(T)]]

RegistryTypes(T) ==
    /\ nodes \in [Key -> EntriesTo(T) \cup {Nil}]
    /\ obsBuf \subseteq HeardTo(T)
    /\ relayBuf \in [Packet -> T]
    /\ adj \in [Link -> T]

LinkTypes(T) == link \in [Broker -> [open : BOOLEAN, last : T, started : T]]

ReportTypes(T) == report \in [Reporter -> [ids : SUBSET (Key \cup Prefix), success : T, at : T]]

MemoryTypes(T) ==
    /\ activity \in [Key -> ClocksTo(T)]
    /\ relaySeen \in [Key -> T]
    /\ expired \in [rows : [Key -> RowsTo(T) \cup {Nil}] \cup {Nil}, at : T]

StoreTypes(T) ==
    /\ rows \in [Key -> RowsTo(T) \cup {Nil}]
    /\ clocks \in [Key -> ClocksTo(T)]
    /\ obs \subseteq HeardTo(T)

BoundTypes == received \subseteq Packet /\ inputs \in 0 .. MaxInputs /\ faults \in 0 .. MaxFaults

TypesTo(T) ==
    /\ RegistryTypes(T) /\ LinkTypes(T) /\ ReportTypes(T)
    /\ MemoryTypes(T) /\ poll \in PollTo(T) /\ StoreTypes(T) /\ BoundTypes

Types == now \in 1 .. MaxTime /\ TypesTo(Past)

LEMMA Numbers ==
    /\ AdjacencyRetention \in Nat /\ Epsilon \in Nat /\ GraceFloor \in Nat /\ GraceCeil \in Nat /\ CadenceK \in Nat
    /\ RelayPresence \in Nat /\ RetainFor \in Nat /\ SilenceAfter \in Nat /\ UnreachableAfter \in Nat /\ StaleAfter \in Nat
    /\ DeadMultiple \in Nat /\ PersistInterval \in Nat /\ ExpireAfter \in Nat /\ Coalesce \in Nat /\ ExpiredTTL \in Nat
    /\ MaxTime \in Nat /\ MaxTime > 0 /\ MaxInputs \in Nat /\ MaxFaults \in Nat
BY RelayAssumption, PresenceAssumption

\* More times hold more.
LEMMA TypesGrow ==
    ASSUME NEW T, NEW U, T \subseteq U, TypesTo(T)
    PROVE  TypesTo(U)
<1>1. CadenceTo(T) \subseteq CadenceTo(U) /\ ClocksTo(T) \subseteq ClocksTo(U)
  BY DEF CadenceTo, ClocksTo
<1>2. EntriesTo(T) \subseteq EntriesTo(U)  BY <1>1 DEF EntriesTo
<1>3. RowsTo(T) \subseteq RowsTo(U) /\ HeardTo(T) \subseteq HeardTo(U) /\ ReportsTo(T) \subseteq ReportsTo(U)
  BY DEF RowsTo, HeardTo, ReportsTo
<1>4. MergedTo(T) \subseteq MergedTo(U)  BY <1>2, <1>3 DEF MergedTo
<1>5. PollTo(T) \subseteq PollTo(U)
  <2>1. [Key -> T] \subseteq [Key -> U] /\ [Key -> ClocksTo(T)] \subseteq [Key -> ClocksTo(U)]  BY <1>1
  <2>2. [Key -> MergedTo(T) \cup {Nil}] \subseteq [Key -> MergedTo(U) \cup {Nil}]  BY <1>4
  <2>3. SUBSET ReportsTo(T) \subseteq SUBSET ReportsTo(U) /\ SUBSET HeardTo(T) \subseteq SUBSET HeardTo(U)  BY <1>3
  <2> QED  BY <2>1, <2>2, <2>3 DEF PollTo
<1>6. RegistryTypes(U)  BY <1>2, <1>3 DEF TypesTo, RegistryTypes
<1>7. LinkTypes(U) /\ ReportTypes(U)  BY DEF TypesTo, LinkTypes, ReportTypes
<1>8. MemoryTypes(U)
  <2>1. [Key -> RowsTo(T) \cup {Nil}] \subseteq [Key -> RowsTo(U) \cup {Nil}]  BY <1>3
  <2>2. expired \in [rows : [Key -> RowsTo(U) \cup {Nil}] \cup {Nil}, at : U]
    BY <2>1 DEF TypesTo, MemoryTypes
  <2> QED  BY <1>1, <2>2 DEF TypesTo, MemoryTypes
<1>9. StoreTypes(U)  BY <1>1, <1>3 DEF TypesTo, StoreTypes
<1> QED  BY <1>5, <1>6, <1>7, <1>8, <1>9 DEF TypesTo

LEMMA NowIs == ASSUME Types PROVE now \in Nat /\ now > 0 /\ now \in Past /\ 0 \in Past /\ Past \subseteq Time /\ Past \subseteq Nat
BY Numbers DEF Types, Past, Time

\* Nil is none of the records.
LEMMA NilIsNone == ASSUME Types PROVE Nil \notin EntriesTo(Past) /\ Nil \notin RowsTo(Past) /\ Nil \notin MergedTo(Past)
<1>1. Past \subseteq Time  BY NowIs
<1>2. EntriesTo(Past) \subseteq Entries  BY <1>1 DEF EntriesTo, CadenceTo, Entries
<1>3. RowsTo(Past) \subseteq EventRows  BY <1>1 DEF RowsTo, EventRows
<1>4. MergedTo(Past) \subseteq Merged  BY <1>1, <1>2 DEF MergedTo, ReportsTo, Merged
<1> QED  BY <1>2, <1>3, <1>4, NilAssumption

LEMMA PacketIs ==
    ASSUME NEW p \in Packet
    PROVE  /\ p.hops \in Seq(Hash) /\ p.observer \in Radio \cup {Nil} /\ p.sender \in Key \cup {Nil}
           /\ p.kind = "advert" <=> p.sender # Nil
           /\ p.kind = "advert" => p.sender \in Key
           /\ p.loc \in Nat \cup {Nil}
           /\ \A i \in 1 .. Len(p.hops) : p.hops[i] \in Wide <=> p.hops[1] \in Wide
BY RelayAssumption DEF IsPacket

\* A process starts with nothing remembered.
LEMMA NoPollType == ASSUME NEW T, 0 \in T PROVE NoPoll \in PollTo(T) /\ NoActivity \in [Key -> ClocksTo(T)]
<1>1. NoActivity \in [Key -> ClocksTo(T)]  BY DEF NoActivity, NoClock, ClocksTo
<1> QED  BY <1>1 DEF NoPoll, PollTo, Steps

LEMMA InitTypes == Init => Types
<1> SUFFICES ASSUME Init PROVE Types  OBVIOUS
<1>1. now \in 1 .. MaxTime /\ 0 \in Past /\ 1 \in Past  BY Numbers DEF Init, Past
<1>2. RegistryTypes(Past)  BY <1>1 DEF Init, RegistryTypes
<1>3. LinkTypes(Past) /\ ReportTypes(Past)  BY <1>1 DEF Init, LinkTypes, ReportTypes, Connected
<1>4. MemoryTypes(Past) /\ StoreTypes(Past)
  BY <1>1 DEF Init, MemoryTypes, StoreTypes, NoActivity, NoClock, ClocksTo
<1>5. poll \in PollTo(Past)  BY <1>1, NoPollType DEF Init
<1>6. BoundTypes  BY Numbers DEF Init, BoundTypes
<1> QED  BY <1>1, <1>2, <1>3, <1>4, <1>5, <1>6 DEF Types, TypesTo

-----------------------------------------------------------------------------
(***************************************************************************)
(* What arrives: packets and reports.                                      *)
(***************************************************************************)
LEMMA PrunedType ==
    ASSUME NEW E, NEW ns \in [Key -> E \cup {Nil}], NEW t
    PROVE  Pruned(ns, t) \in [Key -> E \cup {Nil}]
BY DEF Pruned

\* The times of an entry are not ahead of the clock.
LEMMA EntryType ==
    ASSUME Types, NEW p \in Packet, p.kind = "advert", NEW door \in Door
    PROVE  p.sender \in Key /\ Entry(p, door) \in EntriesTo(Past)
<1>1. p.sender \in Key /\ p.loc \in Nat \cup {Nil}  BY PacketIs
<1> DEFINE old == nodes[p.sender]
           c == IF old = Nil THEN [last |-> 0, ewma |-> 0] ELSE old.cadence
<1>2. old # Nil => old \in EntriesTo(Past)  BY <1>1 DEF Types, TypesTo, RegistryTypes
<1>3. c \in CadenceTo(0 .. now) /\ c.last <= now
  <2>1. CASE old = Nil  BY <2>1, NowIs DEF CadenceTo, Past
  <2>2. CASE old # Nil
    <3>1. c \in CadenceTo(0 .. now)  BY <1>2, <2>2 DEF EntriesTo, Past
    <3> HIDE DEF c
    <3>2. c.last \in 0 .. now  BY <3>1 DEF CadenceTo
    <3> QED  BY <3>1, <3>2
  <2> QED  BY <2>1, <2>2
<1> HIDE DEF c
<1>4. RecordCadence(c, now) \in CadenceTo(Past)  BY <1>3, NowIs, CadenceType DEF Past
<1>5. Entry(p, door) =
        [heard |-> now, recv |-> now, relayed |-> IF old = Nil THEN 0 ELSE old.relayed, cadence |-> RecordCadence(c, now),
         loc |-> IF p.loc = Nil /\ old # Nil THEN old.loc ELSE p.loc, signal |-> TRUE,
         via |-> {door} \cup IF old = Nil THEN {} ELSE old.via]
  BY DEF Entry, c
<1> HIDE DEF old
<1> QED  BY <1>1, <1>2, <1>4, <1>5, NowIs DEF EntriesTo

LEMMA IngestTypes ==
    ASSUME Types, NEW p \in Packet, NEW door \in Door, IngestPacket(p, door), now' = now
    PROVE  RegistryTypes(Past)' /\ (received \subseteq Packet)'
<1>1. Past' = Past  BY DEF Past
<1>2. relayBuf' \in [Packet -> Past]
  BY NowIs DEF IngestPacket, Buffered, Types, TypesTo, RegistryTypes
<1>3. received' \subseteq Packet /\ adj' \in [Link -> Past]
  BY DEF IngestPacket, Types, TypesTo, RegistryTypes, BoundTypes
<1>4. CASE p.kind = "advert"
  <2>1. p.sender \in Key /\ Entry(p, door) \in EntriesTo(Past)  BY <1>4, EntryType
  <2> DEFINE ns == [nodes EXCEPT ![p.sender] = Entry(p, door)]
  <2>2. ns \in [Key -> EntriesTo(Past) \cup {Nil}]  BY <2>1 DEF Types, TypesTo, RegistryTypes
  <2>3. nodes' = Pruned(ns, now) /\ obsBuf' = obsBuf \cup {[packet |-> p, at |-> now]}  BY <1>4 DEF IngestPacket
  <2> HIDE DEF ns
  <2>4. nodes' \in [Key -> EntriesTo(Past) \cup {Nil}]  BY <2>2, <2>3, PrunedType
  <2>5. obsBuf' \subseteq HeardTo(Past)  BY <2>3, NowIs DEF Types, TypesTo, RegistryTypes, HeardTo
  <2> QED  BY <1>1, <1>2, <1>3, <2>4, <2>5 DEF RegistryTypes
<1>5. CASE p.kind # "advert"
  <2>1. UNCHANGED <<nodes, obsBuf>>  BY <1>5 DEF IngestPacket
  <2> QED  BY <1>1, <1>2, <1>3, <2>1 DEF RegistryTypes, Types, TypesTo
<1> QED  BY <1>4, <1>5

\* A message, a post of packets and a report.
LEMMA ArrivalTypes ==
    ASSUME Types,
           \/ \E b \in Broker, p \in Packet : OnMessage(b, p)
           \/ \E r \in Reporter, p \in Packet : PostPackets(r, p)
           \/ \E r \in Reporter, ids \in Listing : \E success \in {report[r].success, now} : PostReport(r, ids, success)
           \/ \E b \in Broker : SessionOpens(b) \/ SessionLost(b)
    PROVE  Types'
<1>1. now \in Past /\ now \in Nat  BY NowIs
<1>2. inputs \in Nat /\ faults \in Nat /\ MaxInputs \in Nat /\ MaxFaults \in Nat
  BY Numbers DEF Types, TypesTo, BoundTypes
<1>3. ASSUME NEW b \in Broker, NEW p \in Packet, OnMessage(b, p) PROVE Types'
  <2>1. now' = now /\ Past' = Past  BY <1>3 DEF OnMessage, Past
  <2>2. RegistryTypes(Past)' /\ (received \subseteq Packet)'
    BY <1>3, <2>1, IngestTypes DEF OnMessage, Door
  <2>3. LinkTypes(Past)'  BY <1>1, <1>3, <2>1 DEF OnMessage, Types, TypesTo, LinkTypes
  <2>4. BoundTypes'  BY <1>2, <1>3, <2>2 DEF OnMessage, Input, Types, TypesTo, BoundTypes
  <2>5. (now \in 1 .. MaxTime /\ ReportTypes(Past) /\ MemoryTypes(Past) /\ poll \in PollTo(Past) /\ StoreTypes(Past))'
    BY <1>3, <2>1 DEF OnMessage, normalizer, store, Types, TypesTo, ReportTypes, MemoryTypes, StoreTypes
  <2> QED  BY <2>2, <2>3, <2>4, <2>5 DEF Types, TypesTo
<1>4. ASSUME NEW r \in Reporter, NEW p \in Packet, PostPackets(r, p) PROVE Types'
  <2>1. now' = now /\ Past' = Past  BY <1>4 DEF PostPackets, Past
  <2>2. RegistryTypes(Past)' /\ (received \subseteq Packet)'
    BY <1>4, <2>1, IngestTypes DEF PostPackets, Door
  <2>3. ReportTypes(Past)'  BY <1>1, <1>4, <2>1 DEF PostPackets, Types, TypesTo, ReportTypes
  <2>4. BoundTypes'  BY <1>2, <1>4, <2>2 DEF PostPackets, Input, Types, TypesTo, BoundTypes
  <2>5. (now \in 1 .. MaxTime /\ LinkTypes(Past) /\ MemoryTypes(Past) /\ poll \in PollTo(Past) /\ StoreTypes(Past))'
    BY <1>4, <2>1 DEF PostPackets, normalizer, store, Types, TypesTo, LinkTypes, MemoryTypes, StoreTypes
  <2> QED  BY <2>2, <2>3, <2>4, <2>5 DEF Types, TypesTo
<1>5. ASSUME NEW r \in Reporter, NEW ids \in Listing, NEW success \in {report[r].success, now}, PostReport(r, ids, success)
      PROVE  Types'
  <2>1. now' = now /\ Past' = Past  BY <1>5 DEF PostReport, Past
  <2>2. ids \in SUBSET (Key \cup Prefix)  BY PresenceAssumption
  <2>3. success \in Past  BY <1>1 DEF Types, TypesTo, ReportTypes
  <2>4. ReportTypes(Past)'  BY <1>1, <1>5, <2>1, <2>2, <2>3 DEF PostReport, Types, TypesTo, ReportTypes
  <2>5. BoundTypes'  BY <1>2, <1>5 DEF PostReport, Input, Types, TypesTo, BoundTypes
  <2>6. (now \in 1 .. MaxTime /\ RegistryTypes(Past) /\ LinkTypes(Past) /\ MemoryTypes(Past) /\ poll \in PollTo(Past)
         /\ StoreTypes(Past))'
    BY <1>5, <2>1 DEF PostReport, registry, normalizer, store, Types, TypesTo, RegistryTypes, LinkTypes, MemoryTypes, StoreTypes
  <2> QED  BY <2>4, <2>5, <2>6 DEF Types, TypesTo
<1>6. ASSUME NEW b \in Broker, SessionOpens(b) \/ SessionLost(b) PROVE Types'
  <2>1. now' = now /\ Past' = Past  BY <1>6 DEF SessionOpens, SessionLost, Past
  <2>2. LinkTypes(Past)'
    <3>1. PICK v \in BOOLEAN : link' = [link EXCEPT ![b].open = v]  BY <1>6 DEF SessionOpens, SessionLost
    <3>2. link \in [Broker -> [open : BOOLEAN, last : Past, started : Past]]  BY DEF Types, TypesTo, LinkTypes
    <3> QED  BY <2>1, <3>1, <3>2 DEF LinkTypes
  <2>3. BoundTypes'  BY <1>2, <1>6 DEF SessionOpens, SessionLost, Fault, bounds, Types, TypesTo, BoundTypes
  <2>4. (now \in 1 .. MaxTime /\ RegistryTypes(Past) /\ ReportTypes(Past) /\ MemoryTypes(Past) /\ poll \in PollTo(Past)
         /\ StoreTypes(Past))'
    BY <1>6, <2>1 DEF SessionOpens, SessionLost, normalizer, store, Types, TypesTo, RegistryTypes, ReportTypes,
       MemoryTypes, StoreTypes
  <2> QED  BY <2>2, <2>3, <2>4 DEF Types, TypesTo
<1> QED  BY <1>3, <1>4, <1>5, <1>6

-----------------------------------------------------------------------------
(***************************************************************************)
(* The poll.                                                               *)
(***************************************************************************)
LEMMA LearnType ==
    ASSUME NEW N \in Nat, NEW g \in [Link -> 0 .. N], NEW packets \in SUBSET Packet, NEW at \in [Packet -> 0 .. N], NEW catalog
    PROVE  Learn(g, packets, at, catalog) \in [Link -> 0 .. N]
<1>1. ASSUME NEW e \in Link PROVE Learn(g, packets, at, catalog)[e] \in 0 .. N
  <2> DEFINE S == {g[e]} \cup {at[p] : p \in {q \in packets : e \in ChainLinks(q, ResolveByPrefix(q.hops, catalog))}}
  <2>1. S \subseteq 0 .. N  OBVIOUS
  <2>2. Learn(g, packets, at, catalog)[e] = Latest(S)  BY DEF Learn
  <2> HIDE DEF S
  <2> QED  BY <2>1, <2>2, LatestIs
<1>2. Learn(g, packets, at, catalog) = [e \in Link |-> Learn(g, packets, at, catalog)[e]]  BY DEF Learn
<1> QED  BY <1>1, <1>2

LEMMA PruneAdjacencyType ==
    ASSUME NEW T, 0 \in T, NEW g \in [Link -> T], NEW t PROVE PruneAdjacency(g, t) \in [Link -> T]
BY DEF PruneAdjacency

LEMMA CreditType ==
    ASSUME Types, NEW learnt, NEW heard \in SUBSET Packet, NEW catalog
    PROVE  DrainRelays(learnt, heard, catalog) \in [Key -> Past]
<1>1. ASSUME NEW n \in Key PROVE DrainRelays(learnt, heard, catalog)[n] \in Past
  <2> DEFINE S == {relayBuf[p] : p \in {q \in heard : n \in Credited(learnt, q, catalog)}}
  <2>1. S \subseteq 0 .. now  BY DEF Types, TypesTo, RegistryTypes, Past
  <2>2. DrainRelays(learnt, heard, catalog)[n] = Latest(S)  BY DEF DrainRelays
  <2> HIDE DEF S
  <2> QED  BY <2>1, <2>2, LatestIs, NowIs DEF Past
<1>2. DrainRelays(learnt, heard, catalog) = [n \in Key |-> DrainRelays(learnt, heard, catalog)[n]]  BY DEF DrainRelays
<1> QED  BY <1>1, <1>2

LEMMA NoteType ==
    ASSUME Types, NEW credit \in [Key -> Past] PROVE NoteRelays(credit) \in [Key -> Past]
<1>1. ASSUME NEW n \in Key PROVE NoteRelays(credit)[n] \in Past
  <2>1. relaySeen[n] \in Past /\ credit[n] \in Past  BY DEF Types, TypesTo, MemoryTypes
  <2>2. Max({relaySeen[n], credit[n]}) \in Past
    <3>1. relaySeen[n] \in Nat /\ credit[n] \in Nat  BY <2>1, NowIs
    <3> QED  BY <2>1, <3>1, MaxTwo
  <2> QED  BY <2>2, NowIs DEF NoteRelays
<1>2. NoteRelays(credit) = [n \in Key |-> NoteRelays(credit)[n]]  BY DEF NoteRelays
<1> QED  BY <1>1, <1>2

LEMMA StampedType ==
    ASSUME Types, NEW credit \in [Key -> Past] PROVE Stamped(credit) \in [Key -> EntriesTo(Past) \cup {Nil}]
<1>1. ASSUME NEW n \in Key PROVE Stamped(credit)[n] \in EntriesTo(Past) \cup {Nil}
  <2>1. nodes[n] \in EntriesTo(Past) \cup {Nil} /\ credit[n] \in Past  BY DEF Types, TypesTo, RegistryTypes
  <2>2. nodes[n] # Nil => [nodes[n] EXCEPT !.relayed = credit[n]] \in EntriesTo(Past)  BY <2>1 DEF EntriesTo
  <2> QED  BY <2>1, <2>2 DEF Stamped
<1>2. Stamped(credit) = [n \in Key |-> Stamped(credit)[n]]  BY DEF Stamped
<1> QED  BY <1>1, <1>2

LEMMA ReportsType == ASSUME Types PROVE MeshReports \subseteq ReportsTo(Past)
<1>1. ASSUME NEW x \in MeshReports PROVE x \in ReportsTo(Past)
  <2>0. PICK r \in On("mesh.repeater", {"OK"}) :
           x \in {[id |-> i, by |-> r, success |-> report[r].success, at |-> report[r].at] : i \in report[r].ids}
    BY DEF MeshReports
  <2>1. PICK i \in report[r].ids : x = [id |-> i, by |-> r, success |-> report[r].success, at |-> report[r].at]
    BY <2>0
  <2>2. r \in Reporter  BY DEF On
  <2>3. report[r] \in [ids : SUBSET (Key \cup Prefix), success : Past, at : Past]  BY <2>2 DEF Types, TypesTo, ReportTypes
  <2>4. i \in Key \cup Prefix /\ report[r].success \in Past /\ report[r].at \in Past  BY <2>1, <2>3
  <2> QED  BY <2>1, <2>2, <2>4 DEF ReportsTo
<1> QED  BY <1>1

LEMMA ExpiredType == ASSUME Types, NEW readable \in BOOLEAN
    PROVE ExpiredNodes(readable) \in [rows : [Key -> RowsTo(Past) \cup {Nil}] \cup {Nil}, at : Past]
<1>1. ExpiredRows \in [Key -> RowsTo(Past) \cup {Nil}]  BY DEF ExpiredRows, Types, TypesTo, StoreTypes
<1>2. [rows |-> ExpiredRows, at |-> now] \in [rows : [Key -> RowsTo(Past) \cup {Nil}] \cup {Nil}, at : Past]
  BY <1>1, NowIs
<1> QED  BY <1>2 DEF ExpiredNodes, Types, TypesTo, MemoryTypes

(***************************************************************************)
(* What the first step of a poll leaves behind, its LET definitions by     *)
(* name.                                                                   *)
(***************************************************************************)
Catalog(readable) == Held \cup {n \in Key : ByID(ExpiredNodes(readable), n) # Nil}
Waiting == {p \in Packet : relayBuf[p] > 0}
Learnt(readable) ==
    Learn(PruneAdjacency(adj, now), {p \in Waiting : RelayPath(p)}, relayBuf, Catalog(readable))
Credit(readable) == DrainRelays(Learnt(readable), Waiting, Catalog(readable))

DrainedPoll(credit) ==
    [NoPoll EXCEPT !.step = "drained", !.began = now, !.at = now,
        !.deaf = BrokerDelivery # Broker,
        !.registryLive = BrokerDelivery # {} \/ On("mesh.packet", {"OK"}) # {},
        !.reports = MeshReports,
        !.silent = On("mesh.repeater", {"STALE", "UNKNOWN"}) # {},
        !.suppress = On("mesh.packet", {"STALE"}) # {},
        !.relays = credit]

LEMMA DrainIs ==
    ASSUME PollDrain
    PROVE  \E readable \in BOOLEAN :
              /\ readable \/ faults < MaxFaults
              /\ faults' = IF readable THEN faults ELSE faults + 1
              /\ expired' = ExpiredNodes(readable)
              /\ adj' = Learnt(readable)
              /\ relayBuf' = [p \in Packet |-> 0]
              /\ nodes' = Stamped(Credit(readable))
              /\ relaySeen' = NoteRelays(Credit(readable))
              /\ poll' = DrainedPoll(Credit(readable))
              /\ UNCHANGED <<now, obsBuf, link, seeding, report, activity, reconciled, store, written, received, inputs>>
BY Zenon DEF PollDrain, Catalog, Waiting, Learnt, Credit, DrainedPoll

LEMMA DrainTypes ==
    ASSUME Types, PollDrain
    PROVE  Types'
<1>1. PICK readable \in BOOLEAN :
              /\ readable \/ faults < MaxFaults
              /\ faults' = IF readable THEN faults ELSE faults + 1
              /\ expired' = ExpiredNodes(readable)
              /\ adj' = Learnt(readable)
              /\ relayBuf' = [p \in Packet |-> 0]
              /\ nodes' = Stamped(Credit(readable))
              /\ relaySeen' = NoteRelays(Credit(readable))
              /\ poll' = DrainedPoll(Credit(readable))
              /\ UNCHANGED <<now, obsBuf, link, seeding, report, activity, reconciled, store, written, received, inputs>>
  BY DrainIs
<1>2. Past' = Past /\ now' \in 1 .. MaxTime  BY <1>1 DEF Past, Types
<1>3. Waiting \in SUBSET Packet  BY DEF Waiting
<1>4. Learnt(readable) \in [Link -> Past]
  <2>1. PruneAdjacency(adj, now) \in [Link -> 0 .. now]
    BY NowIs, PruneAdjacencyType DEF Types, TypesTo, RegistryTypes, Past
  <2>2. relayBuf \in [Packet -> 0 .. now]  BY DEF Types, TypesTo, RegistryTypes, Past
  <2>3. {p \in Waiting : RelayPath(p)} \in SUBSET Packet  BY <1>3
  <2> QED  BY <2>1, <2>2, <2>3, NowIs, LearnType DEF Learnt, Past
<1>5. Credit(readable) \in [Key -> Past]  BY <1>3, CreditType DEF Credit
<1>6. RegistryTypes(Past)'
  BY <1>1, <1>2, <1>4, <1>5, NowIs, StampedType DEF Types, TypesTo, RegistryTypes
<1>7. MemoryTypes(Past)'
  BY <1>1, <1>2, <1>5, ExpiredType, NoteType DEF Types, TypesTo, MemoryTypes
<1>8. poll' \in PollTo(Past)
  <2> DEFINE c == Credit(readable)
  <2> HIDE DEF c
  <2>1. c \in [Key -> Past]  BY <1>5 DEF c
  <2>2. NoPoll \in PollTo(Past) /\ MeshReports \in SUBSET ReportsTo(Past) /\ now \in Past
    BY NoPollType, NowIs, ReportsType
  <2> DEFINE deaf == BrokerDelivery # Broker
             registryLive == BrokerDelivery # {} \/ On("mesh.packet", {"OK"}) # {}
             silent == On("mesh.repeater", {"STALE", "UNKNOWN"}) # {}
             suppress == On("mesh.packet", {"STALE"}) # {}
  <2> DEFINE reports == MeshReports
  <2>3. DrainedPoll(c) = [NoPoll EXCEPT !.step = "drained", !.began = now, !.at = now, !.deaf = deaf,
             !.registryLive = registryLive, !.reports = reports, !.silent = silent, !.suppress = suppress, !.relays = c]
    BY Zenon DEF DrainedPoll
  <2>4. deaf \in BOOLEAN /\ registryLive \in BOOLEAN /\ silent \in BOOLEAN /\ suppress \in BOOLEAN  OBVIOUS
  <2> HIDE DEF deaf, registryLive, silent, suppress, reports
  <2>5. DrainedPoll(c) \in PollTo(Past)
    <3>1. reports \in SUBSET ReportsTo(Past)  BY <2>2 DEF reports
    <3>2. DrainedPoll(c) =
            [step |-> "drained", began |-> now, at |-> now, deaf |-> deaf, registryLive |-> registryLive,
             reports |-> reports, silent |-> silent, suppress |-> suppress, relays |-> c,
             merged |-> [n \in Key |-> Nil], refused |-> {}, obs |-> {}, advanced |-> NoActivity]
      BY <2>3 DEF NoPoll
    <3>3. [n \in Key |-> Nil] \in [Key -> MergedTo(Past) \cup {Nil}] /\ NoActivity \in [Key -> ClocksTo(Past)]
      BY <1>5, NoPollType, NowIs
    <3> QED  BY <2>1, <2>2, <2>4, <3>1, <3>2, <3>3 DEF PollTo, Steps
  <2> QED  BY <1>1, <2>5 DEF c
<1>9. BoundTypes'  BY <1>1, Numbers DEF Types, TypesTo, BoundTypes
<1>10. (LinkTypes(Past) /\ ReportTypes(Past) /\ StoreTypes(Past))'
  BY <1>1, <1>2 DEF Types, TypesTo, LinkTypes, ReportTypes, StoreTypes, store
<1> QED  BY <1>2, <1>6, <1>7, <1>8, <1>9, <1>10 DEF Types, TypesTo

(***************************************************************************)
(* What the second step merges, by name.                                   *)
(***************************************************************************)
Kept == IF poll.registryLive THEN Pruned(nodes, now) ELSE nodes
Enumerated == {r.id : r \in {q \in poll.reports : q.by \in Enumerates}} \cap Key
HeardNow == {n \in Snapshot(Kept) : poll.registryLive /\ (n \in Enumerated \/ Kept[n].loc \in Fence)}
ReportsOf(n) ==
    {r \in poll.reports : ResolveReport(r.id, FullKeyCatalog(HeardNow), {k \in Key : Kept[k] # Nil}) = n}
Monitored == {n \in Key : MonitorHolds(n, ReportsOf(n))}
Revived == {n \in Key : RelayRevives(n, Enumerated)} \ (HeardNow \cup Monitored)
Merging ==
    [n \in Key |-> IF n \notin HeardNow \cup Monitored \cup Revived THEN Nil
                   ELSE [mqtt |-> IF n \in HeardNow THEN Kept[n] ELSE Nil,
                         reports |-> IF n \in Revived THEN {} ELSE ReportsOf(n)]]

LEMMA SnapshotIs ==
    ASSUME PollSnapshot
    PROVE  /\ poll.step = "drained"
           /\ nodes' = Kept
           /\ poll' = [poll EXCEPT !.step = "snapped", !.refused = Refused(Kept, Enumerated), !.merged = Merging]
           /\ UNCHANGED <<now, obsBuf, relayBuf, adj, link, seeding, report,
                          activity, relaySeen, expired, reconciled, store, bounds>>
BY Zenon DEF PollSnapshot, Kept, Enumerated, HeardNow, ReportsOf, Monitored, Revived, Merging

LEMMA KeptType == ASSUME Types PROVE Kept \in [Key -> EntriesTo(Past) \cup {Nil}]
BY PrunedType DEF Kept, Types, TypesTo, RegistryTypes

LEMMA MergingType == ASSUME Types PROVE Merging \in [Key -> MergedTo(Past) \cup {Nil}]
<1>1. ASSUME NEW n \in Key PROVE Merging[n] \in MergedTo(Past) \cup {Nil}
  <2>1. Kept[n] \in EntriesTo(Past) \cup {Nil}  BY KeptType
  <2>2. poll.reports \in SUBSET ReportsTo(Past)  BY DEF Types, TypesTo, PollTo
  <2>3. ReportsOf(n) \in SUBSET ReportsTo(Past)  BY <2>2 DEF ReportsOf
  <2> QED  BY <2>1, <2>3 DEF Merging, MergedTo
<1>2. Merging = [n \in Key |-> Merging[n]]  BY DEF Merging
<1> QED  BY <1>1, <1>2

LEMMA SnapshotTypes ==
    ASSUME Types, PollSnapshot
    PROVE  Types'
<1>1. /\ nodes' = Kept
      /\ poll' = [poll EXCEPT !.step = "snapped", !.refused = Refused(Kept, Enumerated), !.merged = Merging]
      /\ UNCHANGED <<now, obsBuf, relayBuf, adj, link, report, activity, relaySeen, expired, store, bounds>>
  BY SnapshotIs
<1>2. Past' = Past /\ now' \in 1 .. MaxTime  BY <1>1 DEF Past, Types
<1>3. RegistryTypes(Past)'  BY <1>1, <1>2, KeptType DEF Types, TypesTo, RegistryTypes
<1>4. poll' \in PollTo(Past)  BY <1>1, MergingType DEF Types, TypesTo, PollTo, Steps, Refused
<1>5. (LinkTypes(Past) /\ ReportTypes(Past) /\ MemoryTypes(Past) /\ StoreTypes(Past) /\ BoundTypes)'
  BY <1>1, <1>2 DEF Types, TypesTo, LinkTypes, ReportTypes, MemoryTypes, StoreTypes, BoundTypes, store, bounds
<1> QED  BY <1>2, <1>3, <1>4, <1>5 DEF Types, TypesTo

-----------------------------------------------------------------------------
\* The time a sample was reported at is one of the reports'.
LEMMA AdminType ==
    ASSUME Types, NEW m \in MergedTo(Past), NEW prior \in RowsTo(Past) \cup {Nil}
    PROVE  Admin(m, prior) \in Past
<1>1. m.reports \subseteq ReportsTo(Past)  BY DEF MergedTo
<1> DEFINE read == {r \in m.reports : r.success > 0}
           times == {r.success : r \in read}
           freshest == CHOOSE r \in read : \A q \in read : q.success <= r.success
<1>2. \A r \in read : r.success \in 0 .. now /\ r.at \in Past  BY <1>1 DEF ReportsTo, Past
<1>3. read # {} => freshest \in read
  <2> SUFFICES ASSUME read # {} PROVE freshest \in read  OBVIOUS
  <2>1. times \subseteq 0 .. now /\ times # {}  BY <1>2
  <2>2. PICK t \in times : \A u \in times : u <= t
    <3> HIDE DEF times
    <3> QED  BY <2>1, NowIs, MaxIn
  <2>3. PICK r \in read : t = r.success  OBVIOUS
  <2>4. \A q \in read : q.success <= r.success  BY <2>2, <2>3
  <2> QED  BY <2>4
<1>4. Admin(m, prior) = IF m.reports = {} THEN IF poll.silent /\ prior # Nil THEN prior.admin ELSE 0
                        ELSE IF read = {} THEN 0 ELSE freshest.at
  BY DEF Admin
<1>5. prior # Nil => prior.admin \in Past  BY DEF RowsTo
<1> HIDE DEF freshest, read
<1> QED  BY <1>2, <1>3, <1>4, <1>5, NowIs

LEMMA ByIDType ==
    ASSUME Types, NEW n \in Key
    PROVE  ByID(expired, n) \in RowsTo(Past) \cup {Nil}
BY DEF ByID, ExpiredEvent, Active, Types, TypesTo, MemoryTypes, StoreTypes

LEMMA BuildType ==
    ASSUME Types, NEW m \in MergedTo(Past), NEW prior \in RowsTo(Past) \cup {Nil}
    PROVE  BuildEvent(m, prior) \in [status : {"ACTIVE"}, geo : Nat \cup {Nil}, via : SUBSET Door,
                 reach : {"UNSPECIFIED", "REACHABLE", "UNREACHABLE"}, signal : BOOLEAN, admin : Past]
<1>1. m.mqtt # Nil => /\ m.mqtt.loc \in Nat \cup {Nil} /\ m.mqtt.via \in SUBSET Door
                      /\ m.mqtt.signal \in BOOLEAN
  BY DEF MergedTo, EntriesTo
<1>2. prior # Nil => /\ prior.geo \in Nat \cup {Nil} /\ prior.via \in SUBSET Door /\ prior.signal \in BOOLEAN
                     /\ prior.reach \in {"UNSPECIFIED", "REACHABLE", "UNREACHABLE"}
  BY DEF RowsTo
<1>3. Geometry(m, prior) \in Nat \cup {Nil}  BY <1>1, <1>2 DEF Geometry
<1>4. Attribution(m, prior) \in SUBSET Door  BY <1>1, <1>2 DEF Attribution, MeshProvenance
<1>5. Reachability(m, prior) \in {"UNSPECIFIED", "REACHABLE", "UNREACHABLE"}  BY <1>2 DEF Reachability
<1>6. Signal(m, prior) \in BOOLEAN  BY <1>1, <1>2 DEF Signal
<1> QED  BY <1>3, <1>4, <1>5, <1>6, AdminType DEF BuildEvent

\* The row after an upsert and a touch, whatever the event was.
LEMMA WrittenRow ==
    ASSUME Types, NEW n \in Key, NEW m \in MergedTo(Past), NEW prior \in RowsTo(Past) \cup {Nil}
    PROVE  LET ev == BuildEvent(m, prior)
               up == Upserted(n, ev, prior)
           IN  /\ up \in RowsTo(Past) /\ up.status = "ACTIVE"
               /\ up = rows[n] \/ (up.geo = ev.geo /\ up.signal = ev.signal)
               /\ Touched(up) \in RowsTo(Past)
               /\ Touched(up).geo = up.geo /\ Touched(up).signal = up.signal /\ Touched(up).status = up.status
<1> DEFINE ev == BuildEvent(m, prior)
           up == Upserted(n, ev, prior)
<1>1. ev \in [status : {"ACTIVE"}, geo : Nat \cup {Nil}, via : SUBSET Door,
              reach : {"UNSPECIFIED", "REACHABLE", "UNREACHABLE"}, signal : BOOLEAN, admin : Past]
  BY BuildType
<1> HIDE DEF ev
<1> DEFINE changed == rows[n] = Nil \/ ContentHash(rows[n]) # ContentHash(ev)
           seen == IF changed THEN now ELSE rows[n].seen
           row == [status |-> ev.status, geo |-> ev.geo, via |-> ev.via, reach |-> ev.reach,
                   signal |-> ev.signal, admin |-> ev.admin, seen |-> seen]
<1>2. rows[n] \in RowsTo(Past) \cup {Nil}  BY DEF Types, TypesTo, StoreTypes
<1>3. seen \in Past  BY <1>2, NowIs DEF RowsTo
<1>4. up = row \/ (~changed /\ up = rows[n])  BY Zenon DEF Upserted
<1>5. row \in RowsTo(Past) /\ row.geo = ev.geo /\ row.signal = ev.signal /\ row.status = "ACTIVE"
  <2> HIDE DEF seen
  <2> QED  BY <1>1, <1>3 DEF RowsTo
<1>6. up \in RowsTo(Past) /\ (up = rows[n] \/ (up.geo = ev.geo /\ up.signal = ev.signal)) /\ up.status = "ACTIVE"
  <2>1. ev.status = "ACTIVE"  BY <1>1
  <2>2. ~changed => rows[n] \in RowsTo(Past) /\ rows[n].status = ev.status  BY <1>2 DEF ContentHash
  <2> HIDE DEF row, up, changed
  <2> QED  BY <1>4, <1>5, <2>1, <2>2
<1>7. /\ Touched(up) \in RowsTo(Past)
      /\ Touched(up).geo = up.geo /\ Touched(up).signal = up.signal /\ Touched(up).status = up.status
  <2> HIDE DEF up
  <2>1. [up EXCEPT !.seen = now] \in RowsTo(Past)  BY <1>6, NowIs DEF RowsTo
  <2>2. /\ [up EXCEPT !.seen = now].geo = up.geo /\ [up EXCEPT !.seen = now].signal = up.signal
        /\ [up EXCEPT !.seen = now].status = up.status
    BY <1>6 DEF RowsTo
  <2> QED  BY <1>6, <2>1, <2>2 DEF Touched
<1> QED  BY <1>6, <1>7 DEF ev

LEMMA HandoverType ==
    ASSUME Types, NEW n \in Key
    PROVE  /\ Handover(n) \in ClocksTo(Past)
           /\ Handover(n).heard >= activity[n].heard /\ Handover(n).relayed >= activity[n].relayed
           /\ (poll.merged[n] # Nil /\ poll.merged[n].mqtt # Nil) => Handover(n).heard >= poll.merged[n].mqtt.recv
<1>1. activity[n] \in ClocksTo(Past)  BY DEF Types, TypesTo, MemoryTypes
<1>2. activity[n].heard \in Past /\ activity[n].relayed \in Past  BY <1>1 DEF ClocksTo
<1>3. poll.relays[n] \in Past /\ poll.merged[n] \in MergedTo(Past) \cup {Nil}  BY DEF Types, TypesTo, PollTo
<1> DEFINE m == poll.merged[n]
           covered == m # Nil \/ Active(n)
           heard == IF m # Nil /\ m.mqtt # Nil THEN m.mqtt.recv ELSE 0
<1>4. heard \in Past  BY <1>3, NowIs DEF MergedTo, EntriesTo
<1>5. Handover(n) = IF ~covered THEN activity[n]
                    ELSE [heard |-> Max({activity[n].heard, heard}), relayed |-> Max({activity[n].relayed, poll.relays[n]})]
  BY Zenon DEF Handover
<1>6. m # Nil => covered  OBVIOUS
<1>7. (m # Nil /\ m.mqtt # Nil) => heard = m.mqtt.recv  OBVIOUS
<1> HIDE DEF covered, heard, m
<1>8. activity[n].heard \in Nat /\ activity[n].relayed \in Nat /\ heard \in Nat /\ poll.relays[n] \in Nat
  BY <1>2, <1>3, <1>4, NowIs
<1>9. /\ Max({activity[n].heard, heard}) \in Past /\ Max({activity[n].heard, heard}) >= activity[n].heard
      /\ Max({activity[n].heard, heard}) >= heard
  BY <1>2, <1>4, <1>8, MaxTwo
<1>10. Max({activity[n].relayed, poll.relays[n]}) \in Past /\ Max({activity[n].relayed, poll.relays[n]}) >= activity[n].relayed
  BY <1>2, <1>3, <1>8, MaxTwo
<1>11. CASE ~covered  BY <1>1, <1>5, <1>6, <1>8, <1>11 DEF m
<1>12. CASE covered
  <2>1. Handover(n) = [heard |-> Max({activity[n].heard, heard}), relayed |-> Max({activity[n].relayed, poll.relays[n]})]
    BY <1>5, <1>12
  <2> QED  BY <1>7, <1>9, <1>10, <2>1 DEF ClocksTo, m
<1> QED  BY <1>11, <1>12

LEMMA FinishTypes ==
    ASSUME Types, PollFinish
    PROVE  Types'
<1>1. Past' = Past /\ now' \in 1 .. MaxTime  BY DEF PollFinish, Past, Types
<1>2. rows' \in [Key -> RowsTo(Past) \cup {Nil}]
  <2> DEFINE row(n) == Touched(Upserted(n, BuildEvent(poll.merged[n], ByID(expired, n)), ByID(expired, n)))
  <2>1. ASSUME NEW n \in Key, poll.merged[n] # Nil PROVE row(n) \in RowsTo(Past)
    <3>1. poll.merged[n] \in MergedTo(Past)  BY <2>1 DEF Types, TypesTo, PollTo
    <3>2. ByID(expired, n) \in RowsTo(Past) \cup {Nil}  BY ByIDType
    <3> QED  BY <3>1, <3>2, WrittenRow
  <2>2. rows' = [n \in Key |-> IF poll.merged[n] = Nil THEN rows[n] ELSE row(n)]  BY DEF PollFinish
  <2>3. rows \in [Key -> RowsTo(Past) \cup {Nil}]  BY DEF Types, TypesTo, StoreTypes
  <2> HIDE DEF row
  <2> QED  BY <2>1, <2>2, <2>3
<1>3. activity' \in [Key -> ClocksTo(Past)]
  <2>1. \A n \in Key : Handover(n) \in ClocksTo(Past)  BY HandoverType
  <2> QED  BY <2>1 DEF PollFinish
<1>4. poll' \in PollTo(Past)
  <2> DEFINE adv == [n \in Key |-> IF Handover(n) = activity[n] THEN NoClock ELSE Handover(n)]
  <2>1. adv \in [Key -> ClocksTo(Past)]
    <3>1. NoClock \in ClocksTo(Past)  BY NowIs DEF NoClock, ClocksTo
    <3> QED  BY <3>1, HandoverType
  <2>2. obsBuf \in SUBSET HeardTo(Past) /\ now \in Past  BY NowIs DEF Types, TypesTo, RegistryTypes
  <2>3. poll' = [poll EXCEPT !.step = "polled", !.at = now, !.obs = obsBuf, !.advanced = adv]
    BY DEF PollFinish, DrainObservations
  <2>4. poll \in PollTo(Past)  BY DEF Types, TypesTo
  <2> HIDE DEF adv
  <2> QED  BY <2>1, <2>2, <2>3, <2>4 DEF PollTo, Steps
<1>5. RegistryTypes(Past)'  BY <1>1 DEF PollFinish, Types, TypesTo, RegistryTypes
<1>6. (LinkTypes(Past) /\ ReportTypes(Past) /\ BoundTypes)'
  BY <1>1 DEF PollFinish, Types, TypesTo, LinkTypes, ReportTypes, BoundTypes, bounds
<1>7. MemoryTypes(Past)' /\ StoreTypes(Past)'
  BY <1>1, <1>2, <1>3 DEF PollFinish, Types, TypesTo, MemoryTypes, StoreTypes
<1> QED  BY <1>1, <1>4, <1>5, <1>6, <1>7 DEF Types, TypesTo

LEMMA MergeType ==
    ASSUME Types, NEW c \in ClocksTo(Past), NEW a \in ClocksTo(Past)
    PROVE  /\ Merge(c, a) \in ClocksTo(Past)
           /\ Merge(c, a).heard = (IF c.heard < a.heard THEN a.heard ELSE c.heard)
           /\ Merge(c, a).relayed = (IF c.relayed < a.relayed THEN a.relayed ELSE c.relayed)
<1>1. c.heard \in Past /\ c.relayed \in Past /\ a.heard \in Past /\ a.relayed \in Past  BY DEF ClocksTo
<1>2. c.heard \in Nat /\ c.relayed \in Nat /\ a.heard \in Nat /\ a.relayed \in Nat  BY <1>1, NowIs
<1>3. /\ Max({c.heard, a.heard}) = (IF c.heard < a.heard THEN a.heard ELSE c.heard)
      /\ Max({c.relayed, a.relayed}) = (IF c.relayed < a.relayed THEN a.relayed ELSE c.relayed)
  BY <1>2, MaxTwo
<1> QED  BY <1>1, <1>3 DEF Merge, ClocksTo

LEMMA TickTypes ==
    ASSUME Types, RecordMeshTick \/ MeshTickUnwritten \/ SweepDisappeared
    PROVE  Types'
<1>1. Past' = Past /\ now' \in 1 .. MaxTime
  BY DEF RecordMeshTick, MeshTickUnwritten, SweepDisappeared, Past, Types
<1>2. (RegistryTypes(Past) /\ LinkTypes(Past) /\ ReportTypes(Past))'
  BY <1>1 DEF RecordMeshTick, MeshTickUnwritten, SweepDisappeared, registry, Types, TypesTo, RegistryTypes, LinkTypes, ReportTypes
<1>3. poll' \in PollTo(Past)
  BY NowIs, NoPollType DEF RecordMeshTick, MeshTickUnwritten, SweepDisappeared, Types, TypesTo, PollTo, Steps
<1>4. MemoryTypes(Past)'
  BY <1>1, NowIs, NoPollType DEF RecordMeshTick, MeshTickUnwritten, ForgetMeshActivity, SweepDisappeared, Types, TypesTo, MemoryTypes
<1>5. StoreTypes(Past)'
  <2>1. CASE RecordMeshTick
    <3>1. \A n \in Key : clocks[n] \in ClocksTo(Past) /\ poll.advanced[n] \in ClocksTo(Past)
      BY DEF Types, TypesTo, StoreTypes, PollTo
    <3>2. clocks' \in [Key -> ClocksTo(Past)]  BY <2>1, <3>1, MergeType DEF RecordMeshTick
    <3>3. obs' \subseteq HeardTo(Past)  BY <2>1 DEF RecordMeshTick, Types, TypesTo, StoreTypes, PollTo
    <3> QED  BY <1>1, <2>1, <3>2, <3>3 DEF RecordMeshTick, Types, TypesTo, StoreTypes
  <2>2. CASE MeshTickUnwritten
    BY <1>1, <2>2 DEF MeshTickUnwritten, store, Types, TypesTo, StoreTypes
  <2>3. CASE SweepDisappeared
    <3> DEFINE goes(n) == Swept /\ Active(n) /\ poll.merged[n] = Nil /\ poll.at - rows[n].seen > ExpireAfter
    <3>1. ASSUME NEW n \in Key, goes(n) PROVE [rows[n] EXCEPT !.status = "EXPIRED"] \in RowsTo(Past)
      <4>1. rows[n] \in RowsTo(Past)  BY <3>1 DEF Active, Types, TypesTo, StoreTypes
      <4> QED  BY <4>1 DEF RowsTo
    <3>2. rows' = [n \in Key |-> IF goes(n) THEN [rows[n] EXCEPT !.status = "EXPIRED"] ELSE rows[n]]
      BY <2>3 DEF SweepDisappeared
    <3>3. rows \in [Key -> RowsTo(Past) \cup {Nil}]  BY DEF Types, TypesTo, StoreTypes
    <3> HIDE DEF goes
    <3>4. rows' \in [Key -> RowsTo(Past) \cup {Nil}]  BY <3>1, <3>2, <3>3
    <3> QED  BY <1>1, <2>3, <3>4 DEF SweepDisappeared, Types, TypesTo, StoreTypes
  <2> QED  BY <2>1, <2>2, <2>3
<1>6. BoundTypes'
  BY Numbers DEF RecordMeshTick, MeshTickUnwritten, SweepDisappeared, Fault, bounds, Types, TypesTo, BoundTypes
<1> QED  BY <1>1, <1>2, <1>3, <1>4, <1>5, <1>6 DEF Types, TypesTo

-----------------------------------------------------------------------------
(***************************************************************************)
(* Another process, and the time.                                          *)
(***************************************************************************)
LEMMA HeardTimesPast ==
    ASSUME Types, NEW n \in Key PROVE HeardTimes(n) \subseteq 0 .. now
BY DEF HeardTimes, Types, TypesTo, StoreTypes, HeardTo, Past

\* What a node is seeded with: no clock of it is behind the stored one.
LEMMA SeedType ==
    ASSUME Types, NEW n \in Key, Active(n)
    PROVE  /\ Seed(n) \in EntriesTo(Past)
           /\ Seed(n).heard >= clocks[n].heard /\ Seed(n).relayed = clocks[n].relayed
           /\ Seed(n).recv <= Seed(n).heard
           /\ Seed(n).loc = rows[n].geo
<1>1. rows[n] \in RowsTo(Past)  BY DEF Active, Types, TypesTo, StoreTypes
<1>2. clocks[n] \in ClocksTo(Past)  BY DEF Types, TypesTo, StoreTypes
<1>3. clocks[n].heard \in Past /\ clocks[n].relayed \in Past /\ rows[n].seen \in Past /\ rows[n].geo \in Nat \cup {Nil}
  BY <1>1, <1>2 DEF RowsTo, ClocksTo
<1> DEFINE S == HeardTimes(n) \cup {clocks[n].heard}
           recv == Max(S)
           cadence == Replayed(HeardTimes(n))
<1>4. S \subseteq 0 .. now /\ S # {}  BY <1>3, HeardTimesPast DEF Past
<1>5. recv \in S /\ \A y \in S : y <= recv
  <2> HIDE DEF S
  <2> QED  BY <1>4, NowIs, MaxIn
<1>6. recv \in Past /\ clocks[n].heard <= recv  BY <1>4, <1>5 DEF Past
<1>7. cadence \in CadenceTo(Past)  BY HeardTimesPast, NowIs, Numbers, ReplayType DEF Past
<1>8. Seed(n) = [heard |-> IF recv = 0 THEN rows[n].seen ELSE recv, recv |-> recv, relayed |-> clocks[n].relayed,
                 cadence |-> cadence, loc |-> rows[n].geo, signal |-> FALSE, via |-> {}]
  BY Zenon DEF Seed
<1> HIDE DEF recv, cadence
<1>9. Seed(n) \in EntriesTo(Past)  BY <1>3, <1>6, <1>7, <1>8 DEF EntriesTo
<1>10. Seed(n).heard >= clocks[n].heard /\ Seed(n).recv <= Seed(n).heard
  <2>1. Seed(n).recv = recv /\ Seed(n).heard = IF recv = 0 THEN rows[n].seen ELSE recv  BY <1>8
  <2>2. recv \in Nat /\ rows[n].seen \in Nat /\ clocks[n].heard \in Nat  BY <1>3, <1>6, NowIs
  <2> QED  BY <1>6, <2>1, <2>2
<1> QED  BY <1>8, <1>9, <1>10

LEMMA RestartTypes ==
    ASSUME Types, Restart
    PROVE  Types'
<1>1. Past' = Past /\ now' \in 1 .. MaxTime  BY DEF Restart, Past, Types
<1>2. 0 \in Past /\ now \in Past  BY NowIs
<1>3. RegistryTypes(Past)'
  <2>1. nodes' \in [Key -> EntriesTo(Past) \cup {Nil}]
    <3>1. \A n \in Key : Active(n) => Seed(n) \in EntriesTo(Past)  BY SeedType
    <3> QED  BY <3>1 DEF Restart
  <2> QED  BY <1>1, <1>2, <2>1 DEF Restart, RegistryTypes
<1>4. LinkTypes(Past)' /\ ReportTypes(Past)'  BY <1>1, <1>2 DEF Restart, Connected, LinkTypes, ReportTypes
<1>5. MemoryTypes(Past)' /\ poll' \in PollTo(Past)  BY <1>1, <1>2, NoPollType DEF Restart, MemoryTypes
<1>6. StoreTypes(Past)'  BY <1>1 DEF Restart, store, Types, TypesTo, StoreTypes
<1>7. BoundTypes'  BY Numbers DEF Restart, Fault, Types, TypesTo, BoundTypes
<1> QED  BY <1>1, <1>3, <1>4, <1>5, <1>6, <1>7 DEF Types, TypesTo

StoredPaths == {o.packet : o \in MeshObservationPaths}
StoredAt == [p \in Packet |-> Latest({o.at : o \in {q \in obs : q.packet = p}})]

LEMMA StoredIs ==
    ASSUME Types
    PROVE  StoredPaths \in SUBSET Packet /\ StoredAt \in [Packet -> 0 .. now]
<1>1. obs \subseteq HeardTo(Past)  BY DEF Types, TypesTo, StoreTypes
<1>2. StoredPaths \subseteq Packet  BY <1>1 DEF StoredPaths, MeshObservationPaths, HeardTo
<1>3. ASSUME NEW p \in Packet PROVE Latest({o.at : o \in {q \in obs : q.packet = p}}) \in 0 .. now
  <2> DEFINE S == {o.at : o \in {q \in obs : q.packet = p}}
  <2>1. S \subseteq 0 .. now  BY <1>1 DEF HeardTo, Past
  <2> HIDE DEF S
  <2>2. Latest(S) \in 0 .. now  BY <2>1, NowIs, LatestIs
  <2> QED  BY <2>2 DEF S
<1> QED  BY <1>2, <1>3 DEF StoredAt

LEMMA SeedNeighboursIs ==
    ASSUME SeedNeighbours
    PROVE  /\ adj' = Learn(adj, StoredPaths, StoredAt, Held)
           /\ UNCHANGED <<now, nodes, obsBuf, relayBuf, link, report, normalizer, store, bounds>>
BY Zenon DEF SeedNeighbours, StoredPaths, StoredAt

LEMMA SeedNeighboursTypes ==
    ASSUME Types, SeedNeighbours
    PROVE  Types'
<1>1. /\ adj' = Learn(adj, StoredPaths, StoredAt, Held)
      /\ UNCHANGED <<now, nodes, obsBuf, relayBuf, link, report, normalizer, store, bounds>>
  BY SeedNeighboursIs
<1>2. Past' = Past /\ now' \in 1 .. MaxTime  BY <1>1 DEF Past, Types
<1>3. adj' \in [Link -> Past]
  <2>1. adj \in [Link -> 0 .. now]  BY DEF Types, TypesTo, RegistryTypes, Past
  <2> QED  BY <1>1, <2>1, NowIs, StoredIs, LearnType DEF Past
<1>4. RegistryTypes(Past)'  BY <1>1, <1>2, <1>3 DEF Types, TypesTo, RegistryTypes
<1>5. (LinkTypes(Past) /\ ReportTypes(Past) /\ MemoryTypes(Past) /\ poll \in PollTo(Past) /\ StoreTypes(Past) /\ BoundTypes)'
  BY <1>1, <1>2 DEF Types, TypesTo, LinkTypes, ReportTypes, MemoryTypes, StoreTypes, BoundTypes, normalizer, store, bounds
<1> QED  BY <1>2, <1>4, <1>5 DEF Types, TypesTo

LEMMA ClockTypes ==
    ASSUME Types, now' \in 1 .. MaxTime, now' >= now, UNCHANGED <<registry, report, normalizer, store, bounds>>
    PROVE  Types'
<1>1. Past \subseteq Past'  BY DEF Past, Types
<1> DEFINE U == Past'
<1>2. TypesTo(U)
  <2> HIDE DEF U
  <2> QED  BY <1>1, TypesGrow DEF Types, U
<1>3. (RegistryTypes(Past) /\ LinkTypes(Past) /\ ReportTypes(Past))'
  BY <1>2 DEF registry, TypesTo, RegistryTypes, LinkTypes, ReportTypes
<1>4. (MemoryTypes(Past) /\ poll \in PollTo(Past) /\ StoreTypes(Past) /\ BoundTypes)'
  BY <1>2 DEF normalizer, store, bounds, TypesTo, MemoryTypes, StoreTypes, BoundTypes
<1> QED  BY <1>3, <1>4 DEF Types, TypesTo

\* Every step keeps the types.
LEMMA StepTypes == Types /\ [Next]_vars => Types'
<1> SUFFICES ASSUME Types, [Next]_vars PROVE Types'  OBVIOUS
<1>1. CASE UNCHANGED vars
  <2>1. now \in 1 .. MaxTime /\ now \in Int  BY DEF Types
  <2> QED  BY <1>1, <2>1, ClockTypes DEF vars
<1>2. CASE Clock
  <2>1. now' \in 1 .. MaxTime /\ now' >= now  BY <1>2, Numbers DEF Clock, Types
  <2> QED  BY <1>2, <2>1, ClockTypes DEF Clock
<1> QED  BY <1>1, <1>2, ArrivalTypes, DrainTypes, SnapshotTypes, FinishTypes, TickTypes, RestartTypes, SeedNeighboursTypes
         DEF Next, Poll

LEMMA AlwaysTypes == Spec => []Types
BY InitTypes, StepTypes, PTL DEF Spec

\* The registry, the normalizer's memory, the poll under way, the stored rows and their
\* clocks keep their types through every callback, poll, failed write and restart.
THEOREM PresenceTypes == Spec => []TypeOK
<1>1. Types => TypeOK
  <2> SUFFICES ASSUME Types PROVE TypeOK  OBVIOUS
  <2>1. TypesTo(Time)  BY NowIs, TypesGrow DEF Types
  <2>2. EntriesTo(Time) = Entries /\ ClocksTo(Time) = Clocks /\ RowsTo(Time) = EventRows
    BY DEF EntriesTo, Entries, CadenceTo, ClocksTo, Clocks, RowsTo, EventRows
  <2>3. poll.step \in {"idle", "drained", "snapped", "polled", "recorded"}  BY <2>1 DEF TypesTo, PollTo, Steps
  <2>4. expired.rows = Nil \/ expired.rows \in [Key -> EventRows \cup {Nil}]  BY <2>1, <2>2 DEF TypesTo, MemoryTypes
  <2>5. obsBuf \cup obs \subseteq [packet : Packet, at : Time]  BY <2>1 DEF TypesTo, RegistryTypes, StoreTypes, HeardTo
  <2> QED  BY <2>1, <2>2, <2>3, <2>4, <2>5
           DEF Types, TypesTo, TypeOK, RegistryTypes, LinkTypes, ReportTypes, MemoryTypes, StoreTypes, BoundTypes
<1> QED  BY <1>1, AlwaysTypes, PTL

-----------------------------------------------------------------------------
(***************************************************************************)
(* What the neighbour graph rests on.  A link that rule 1 yields joins two *)
(* neighbours of the packet's path, both named by more than a byte: the    *)
(* hops of a packet are of one size, so all are wide when the first is.    *)
(***************************************************************************)
\* Packet p joins the ends of e.
Joins(p, e) ==
    \E i \in 0 .. Len(p.hops), u \in e : Names(p, i, u) /\ \E v \in e \ {u} : Names(p, i + 1, v)

\* Rule 1 is asked about floods, and at boot about the adverts with hops.
Told(p) == RelayPath(p) \/ (p.kind = "advert" /\ p.hops # <<>>)

LinkInv ==
    /\ \A o \in obsBuf \cup obs \cup poll.obs : o.packet \in received /\ o.packet.kind = "advert"
    /\ \A p \in Packet : relayBuf[p] > 0 => p \in received
    /\ \A e \in Link : adj[e] > 0 => \E p \in received : Told(p) /\ Joins(p, e)

\* A link's ends are two radios.
LEMMA LinkIs ==
    ASSUME NEW e \in Link, NEW x, NEW y, e = {x, y}
    PROVE  x # y /\ x \in Radio /\ y \in Radio
<1>1. e \subseteq Radio /\ Cardinality(e) = 2  BY DEF Link
<1>2. CASE x = y
  <2>1. Cardinality({x}) = 1  BY FS_Singleton
  <2>2. {x, y} = {x}  BY <1>2
  <2> QED  BY <1>1, <2>1, <2>2
<1> QED  BY <1>1, <1>2

LEMMA OnlyIs == ASSUME NEW S, Only(S) # Nil PROVE Only(S) \in S
<1>1. Cardinality(S) = 1 /\ Only(S) = CHOOSE x \in S : TRUE  BY DEF Only
<1>2. S # {}  BY <1>1, FS_EmptySet
<1> QED  BY <1>1, <1>2

LEMMA ChainJoins ==
    ASSUME NEW p \in Packet, NEW catalog, NEW e \in ChainLinks(p, ResolveByPrefix(p.hops, catalog))
    PROVE  Joins(p, e)
<1> DEFINE n == Len(p.hops)
           res == ResolveByPrefix(p.hops, catalog)
           chain == <<p.sender>> \o res \o <<p.observer>>
<1>1. p.hops \in Seq(Hash) /\ n \in Nat  BY PacketIs
<1>2. /\ res = [i \in 1 .. n |-> res[i]]
      /\ \A i \in 1 .. n : res[i] = IF p.hops[1] \in Wide THEN Only(Candidates(p.hops[i], catalog)) ELSE Nil
  BY DEF ResolveByPrefix
<1>3. \A i \in 1 .. n : res[i] # Nil => p.hops[i] \in Wide /\ res[i] \in CarriedBy[p.hops[i]]
  <2> SUFFICES ASSUME NEW i \in 1 .. n, res[i] # Nil PROVE p.hops[i] \in Wide /\ res[i] \in CarriedBy[p.hops[i]]
    OBVIOUS
  <2>1. p.hops[1] \in Wide /\ res[i] = Only(Candidates(p.hops[i], catalog))  BY <1>2
  <2>2. res[i] \in Candidates(p.hops[i], catalog)  BY <2>1, OnlyIs
  <2> QED  BY <2>1, <2>2, PacketIs DEF Candidates
<1>4. e \in Link /\ e \in {{chain[i], chain[i + 1]} : i \in 1 .. Len(chain) - 1}  BY Zenon DEF ChainLinks
<1> HIDE DEF res
<1> DEFINE U == {p.sender, p.observer} \cup {res[i] : i \in 1 .. n}
<1>5. /\ res \in Seq(U) /\ Len(res) = n
      /\ <<p.sender>> \in Seq(U) /\ <<p.observer>> \in Seq(U)
  <2>1. (\A i \in 1 .. n : res[i] \in U) /\ p.sender \in U /\ p.observer \in U  OBVIOUS
  <2> HIDE DEF U
  <2>2. res \in [1 .. n -> U]  BY <1>2, <2>1
  <2> QED  BY <1>1, <2>1, <2>2
<1> HIDE DEF U
<1>6. /\ Len(chain) = n + 2
      /\ chain[1] = p.sender /\ chain[n + 2] = p.observer
      /\ \A i \in 1 .. n : chain[i + 1] = res[i]
  <2> DEFINE front == <<p.sender>> \o res
  <2>1. /\ front \in Seq(U) /\ Len(front) = n + 1 /\ front[1] = p.sender
        /\ \A i \in 1 .. n : front[i + 1] = res[i]
    BY <1>1, <1>5
  <2> HIDE DEF front
  <2>2. chain = front \o <<p.observer>>  BY DEF front
  <2> HIDE DEF chain
  <2>3. Len(chain) = n + 2 /\ chain[n + 2] = p.observer /\ \A i \in 1 .. n + 1 : chain[i] = front[i]
    BY <1>1, <1>5, <2>1, <2>2
  <2>4. \A i \in 1 .. n : i + 1 \in 1 .. n + 1  BY <1>1
  <2>5. 1 \in 1 .. n + 1  BY <1>1
  <2> QED  BY <2>1, <2>3, <2>4, <2>5
<1> HIDE DEF chain
<1>7. PICK j \in 1 .. n + 1 : e = {chain[j], chain[j + 1]}
  <2>1. Len(chain) - 1 = n + 1  BY <1>1, <1>6
  <2> QED  BY <1>4, <2>1
<1>8. chain[j] # chain[j + 1] /\ chain[j] \in Radio /\ chain[j + 1] \in Radio  BY <1>4, <1>7, LinkIs
<1>9. Nil \notin Radio  BY RelayAssumption
<1>10. \A i \in 0 .. n + 1 : chain[i + 1] # Nil => Names(p, i, chain[i + 1])
  <2> SUFFICES ASSUME NEW i \in 0 .. n + 1, chain[i + 1] # Nil PROVE Names(p, i, chain[i + 1])  OBVIOUS
  <2>1. CASE i = 0  BY <1>1, <1>6, <2>1 DEF Names
  <2>2. CASE i = n + 1
    <3>1. chain[i + 1] = p.observer /\ i # 0  BY <1>1, <1>6, <2>2
    <3> QED  BY <2>2, <3>1 DEF Names
  <2>3. CASE i \in 1 .. n
    <3>1. chain[i + 1] = res[i] /\ i # 0 /\ i # n + 1  BY <1>1, <1>6, <2>3
    <3>2. p.hops[i] \in Wide /\ chain[i + 1] \in CarriedBy[p.hops[i]]  BY <1>3, <2>3, <3>1
    <3> QED  BY <3>1, <3>2 DEF Names
  <2> QED  BY <1>1, <2>1, <2>2, <2>3
<1>11. j - 1 \in 0 .. n /\ j \in 0 .. n + 1 /\ j - 1 \in 0 .. n + 1 /\ (j - 1) + 1 = j  BY <1>1
<1>12. Names(p, j - 1, chain[j]) /\ Names(p, (j - 1) + 1, chain[j + 1])  BY <1>8, <1>9, <1>10, <1>11
<1>13. chain[j] \in e /\ chain[j + 1] \in e \ {chain[j]}  BY <1>7, <1>8
<1> QED  BY <1>11, <1>12, <1>13 DEF Joins

\* What a graph has learnt it had, or a packet told it.
LEMMA LearnTold ==
    ASSUME NEW N \in Nat, NEW g \in [Link -> 0 .. N], NEW packets \in SUBSET Packet, NEW at \in [Packet -> 0 .. N], NEW catalog,
           NEW e \in Link, Learn(g, packets, at, catalog)[e] > 0
    PROVE  g[e] > 0 \/ \E p \in packets : Joins(p, e)
<1> DEFINE S == {g[e]} \cup {at[p] : p \in {q \in packets : e \in ChainLinks(q, ResolveByPrefix(q.hops, catalog))}}
<1>1. S \subseteq 0 .. N  OBVIOUS
<1>2. Learn(g, packets, at, catalog)[e] = Latest(S)  BY DEF Learn
<1>3. Latest(S) \in S
  <2> HIDE DEF S
  <2> QED  BY <1>1, <1>2, LatestIs
<1>4. CASE Latest(S) = g[e]  BY <1>2, <1>4
<1>5. CASE Latest(S) # g[e]
  <2>1. PICK p \in packets : e \in ChainLinks(p, ResolveByPrefix(p.hops, catalog))  BY <1>3, <1>5
  <2> QED  BY <2>1, ChainJoins
<1> QED  BY <1>4, <1>5

LEMMA InitLinks == Init => LinkInv
BY DEF Init, LinkInv, NoPoll

\* The graph keeps its evidence while packets arrive.
LEMMA ArrivalLinks ==
    ASSUME Types, LinkInv, NEW p \in Packet, NEW door \in Door, IngestPacket(p, door), UNCHANGED <<poll, obs>>
    PROVE  LinkInv'
<1>1. received' = received \cup {p} /\ adj' = adj  BY DEF IngestPacket
<1>2. ASSUME NEW o \in (obsBuf \cup obs \cup poll.obs)' PROVE o.packet \in received' /\ o.packet.kind = "advert"
  <2>1. o \in obsBuf \cup obs \cup poll.obs \/ (p.kind = "advert" /\ o = [packet |-> p, at |-> now])
    BY <1>2 DEF IngestPacket
  <2> QED  BY <1>1, <2>1 DEF LinkInv
<1>3. ASSUME NEW q \in Packet, relayBuf'[q] > 0 PROVE q \in received'
  <2>1. q = p \/ relayBuf'[q] = relayBuf[q]  BY DEF IngestPacket, Buffered, Types, TypesTo, RegistryTypes
  <2> QED  BY <1>1, <1>3, <2>1 DEF LinkInv
<1>4. ASSUME NEW e \in Link, adj'[e] > 0 PROVE \E q \in received' : Told(q) /\ Joins(q, e)
  BY <1>1, <1>4 DEF LinkInv
<1> QED  BY <1>2, <1>3, <1>4 DEF LinkInv

LEMMA DrainLinks ==
    ASSUME Types, LinkInv, PollDrain
    PROVE  LinkInv'
<1>1. PICK readable \in BOOLEAN :
         /\ adj' = Learnt(readable)
         /\ relayBuf' = [p \in Packet |-> 0]
         /\ poll' = DrainedPoll(Credit(readable))
         /\ UNCHANGED <<obsBuf, obs, received>>
  BY DrainIs DEF store
<1>2. poll'.obs = {}  BY <1>1 DEF DrainedPoll, NoPoll
<1>3. ASSUME NEW e \in Link, adj'[e] > 0 PROVE \E p \in received : Told(p) /\ Joins(p, e)
  <2> DEFINE g == PruneAdjacency(adj, now)
             floods == {p \in Waiting : RelayPath(p)}
  <2>1. g \in [Link -> 0 .. now] /\ (g[e] > 0 => adj[e] > 0)
    <3>1. g \in [Link -> 0 .. now]  BY NowIs, PruneAdjacencyType DEF Types, TypesTo, RegistryTypes, Past
    <3>2. g[e] = IF now - adj[e] > AdjacencyRetention THEN 0 ELSE adj[e]  BY DEF PruneAdjacency
    <3> QED  BY <3>1, <3>2
  <2>2. floods \in SUBSET Packet /\ relayBuf \in [Packet -> 0 .. now]
    BY DEF Waiting, Types, TypesTo, RegistryTypes, Past
  <2>3. Learn(g, floods, relayBuf, Catalog(readable))[e] > 0  BY <1>1, <1>3 DEF Learnt
  <2> HIDE DEF g, floods
  <2>4. g[e] > 0 \/ \E p \in floods : Joins(p, e)  BY <2>1, <2>2, <2>3, NowIs, LearnTold
  <2>5. CASE g[e] > 0  BY <2>1, <2>5 DEF LinkInv
  <2>6. CASE \E p \in floods : Joins(p, e)
    <3>1. PICK p \in floods : Joins(p, e)  BY <2>6
    <3>2. p \in Packet /\ relayBuf[p] > 0 /\ RelayPath(p)  BY DEF floods, Waiting
    <3> QED  BY <3>1, <3>2 DEF LinkInv, Told
  <2> QED  BY <2>4, <2>5, <2>6
<1> QED  BY <1>1, <1>2, <1>3 DEF LinkInv

LEMMA SeedLinks ==
    ASSUME Types, LinkInv, SeedNeighbours
    PROVE  LinkInv'
<1>1. /\ adj' = Learn(adj, StoredPaths, StoredAt, Held)
      /\ UNCHANGED <<obsBuf, relayBuf, poll, obs, received>>
  BY SeedNeighboursIs DEF normalizer, store, bounds
<1>2. ASSUME NEW e \in Link, adj'[e] > 0 PROVE \E p \in received : Told(p) /\ Joins(p, e)
  <2>1. adj \in [Link -> 0 .. now]  BY DEF Types, TypesTo, RegistryTypes, Past
  <2>2. adj[e] > 0 \/ \E p \in StoredPaths : Joins(p, e)  BY <1>1, <1>2, <2>1, NowIs, StoredIs, LearnTold
  <2>3. ASSUME NEW p \in StoredPaths, Joins(p, e) PROVE \E q \in received : Told(q) /\ Joins(q, e)
    <3>1. PICK o \in obs : p = o.packet /\ o.packet.hops # <<>>  BY DEF StoredPaths, MeshObservationPaths
    <3>2. p \in received /\ p.kind = "advert" /\ p.hops # <<>>  BY <3>1 DEF LinkInv
    <3> QED  BY <2>3, <3>2 DEF Told
  <2> QED  BY <2>2, <2>3 DEF LinkInv
<1> QED  BY <1>1, <1>2 DEF LinkInv

LEMMA StepLinks == Types /\ LinkInv /\ [Next]_vars => LinkInv'
<1> SUFFICES ASSUME Types, LinkInv, [Next]_vars PROVE LinkInv'  OBVIOUS
<1>1. CASE \E b \in Broker, p \in Packet : OnMessage(b, p)
  BY <1>1, ArrivalLinks DEF OnMessage, Door, normalizer, store
<1>2. CASE \E r \in Reporter, p \in Packet : PostPackets(r, p)
  BY <1>2, ArrivalLinks DEF PostPackets, Door, normalizer, store
<1>3. CASE UNCHANGED <<obsBuf, obs, poll, relayBuf, adj, received>>  BY <1>3 DEF LinkInv
<1>4. CASE PollDrain  BY <1>4, DrainLinks
<1>5. CASE SeedNeighbours  BY <1>5, SeedLinks
<1>6. CASE UNCHANGED <<relayBuf, adj, received>> /\ (obsBuf \cup obs \cup poll.obs)' \subseteq obsBuf \cup obs \cup poll.obs
  BY <1>6 DEF LinkInv
<1>7. CASE PollSnapshot
  <2>1. poll'.obs = poll.obs  BY <1>7, SnapshotIs DEF Types, TypesTo, PollTo
  <2> QED  BY <1>6, <1>7, <2>1, SnapshotIs DEF store, bounds
<1>8. CASE PollFinish
  <2>1. poll'.obs = obsBuf  BY <1>8 DEF PollFinish, DrainObservations, Types, TypesTo, PollTo
  <2> QED  BY <1>6, <1>8, <2>1 DEF PollFinish, bounds
<1>9. CASE RecordMeshTick \/ MeshTickUnwritten \/ SweepDisappeared
  <2>1. poll'.obs \subseteq poll.obs
    BY <1>9 DEF RecordMeshTick, MeshTickUnwritten, SweepDisappeared, NoPoll, Types, TypesTo, PollTo
  <2> QED  BY <1>6, <1>9, <2>1 DEF RecordMeshTick, MeshTickUnwritten, SweepDisappeared, registry, store, bounds
<1>10. CASE Restart
  <2>1. obsBuf' = {} /\ poll'.obs = {} /\ obs' = obs /\ received' = received  BY <1>10 DEF Restart, NoPoll, store
  <2>2. (\A p \in Packet : relayBuf'[p] = 0) /\ (\A e \in Link : adj'[e] = 0)  BY <1>10 DEF Restart
  <2> QED  BY <2>1, <2>2 DEF LinkInv
<1>11. CASE \E b \in Broker : SessionOpens(b) \/ SessionLost(b)
  BY <1>3, <1>11 DEF SessionOpens, SessionLost, normalizer, store, bounds
<1>12. CASE \E r \in Reporter, ids \in Listing : \E success \in {report[r].success, now} : PostReport(r, ids, success)
  BY <1>3, <1>12 DEF PostReport, registry, normalizer, store
<1>13. CASE Clock \/ UNCHANGED vars
  BY <1>3, <1>13 DEF Clock, vars, registry, normalizer, store, bounds
<1> QED  BY <1>1, <1>2, <1>4, <1>5, <1>7, <1>8, <1>9, <1>10, <1>11, <1>12, <1>13 DEF Next, Poll

LEMMA AlwaysLinks == Spec => []LinkInv
BY InitLinks, InitTypes, StepLinks, AlwaysTypes, PTL DEF Spec

(***************************************************************************)
(* The links SeedPaths rebuilds from stored adverts are as good as live    *)
(* ones if an advert that is not flooded carries no hops: direct adverts   *)
(* go to the neighbours only.                                              *)
(***************************************************************************)
DirectAdvertsAreZeroHop == \A p \in Packet : p.kind = "advert" /\ p.route = "direct" => p.hops = <<>>

\* For any mesh and any packets, every link of the neighbour graph joins two
\* neighbours on the path of a received packet, each named by more than one byte:
\* of an advert with hops at the least, whatever its route.
THEOREM LinksTheorem ==
    Spec => [](\A e \in Link : adj[e] > 0 => \E p \in received : Told(p) /\ Joins(p, e))
<1>1. LinkInv => \A e \in Link : adj[e] > 0 => \E p \in received : Told(p) /\ Joins(p, e)  BY DEF LinkInv
<1> QED  BY <1>1, AlwaysLinks, PTL

\* ... and of a flood, if direct adverts go to the neighbours only.
THEOREM AdjacencyTheorem == ASSUME DirectAdvertsAreZeroHop PROVE Spec => []AdjacencyProven
<1>1. Types /\ LinkInv => AdjacencyProven
  <2> SUFFICES ASSUME Types, LinkInv, NEW e \in Link, adj[e] > 0
               PROVE  \E p \in received : RelayPath(p) /\ Joins(p, e)
    BY DEF AdjacencyProven, Joins
  <2>1. PICK p \in received : Told(p) /\ Joins(p, e)  BY DEF LinkInv
  <2>2. p \in Packet  BY DEF Types, TypesTo, BoundTypes
  <2>3. RelayPath(p)  BY <2>1, <2>2, RelayAssumption DEF Told, RelayPath, DirectAdvertsAreZeroHop, IsPacket
  <2> QED  BY <2>1, <2>3
<1> QED  BY <1>1, AlwaysTypes, AlwaysLinks, PTL

-----------------------------------------------------------------------------
(***************************************************************************)
(* The clocks the store is handed.  Between ticks the clocks remembered as *)
(* handed over are not ahead of the stored ones, for a write that fails is *)
(* forgotten; within a tick what is ahead of the store is on its way.      *)
(***************************************************************************)
Presented(n) == poll.merged[n] # Nil /\ poll.merged[n].mqtt # Nil

ClockInv ==
    /\ poll.step # "polled" => \A n \in Key : activity[n].heard <= clocks[n].heard
    /\ poll.step = "polled" => \A n \in Key :
         /\ activity[n].heard <= clocks[n].heard \/ activity[n] = poll.advanced[n]
         /\ Presented(n) => poll.merged[n].mqtt.recv <= activity[n].heard
    /\ HeardClockStored

LEMMA InitClocks == Init => ClockInv
BY Numbers DEF Init, ClockInv, HeardClockStored, NoPoll, NoActivity, NoClock

\* What a step that leaves the clocks, the memory of them and the tick alone keeps.
LEMMA SameClocks ==
    ASSUME ClockInv, UNCHANGED <<poll, activity, clocks, written>> PROVE ClockInv'
BY DEF ClockInv, HeardClockStored, Presented

LEMMA FinishClocks ==
    ASSUME Types, ClockInv, PollFinish PROVE ClockInv'
<1>1. /\ poll.step = "snapped" /\ UNCHANGED <<clocks, written>>
      /\ activity' = [n \in Key |-> Handover(n)]
      /\ poll'.step = "polled" /\ poll'.merged = poll.merged
      /\ poll'.advanced = [n \in Key |-> IF Handover(n) = activity[n] THEN NoClock ELSE Handover(n)]
  BY DEF PollFinish, bounds, Types, TypesTo, PollTo
<1>2. ASSUME NEW n \in Key
      PROVE  /\ (activity[n].heard <= clocks[n].heard \/ activity[n] = poll.advanced[n])'
             /\ Presented(n)' => poll'.merged[n].mqtt.recv <= activity'[n].heard
  <2>1. activity'[n] = Handover(n) /\ (Handover(n) # activity[n] => poll'.advanced[n] = activity'[n])  BY <1>1
  <2>2. activity[n].heard <= clocks[n].heard  BY <1>1 DEF ClockInv
  <2>3. Presented(n)' => Handover(n).heard >= poll.merged[n].mqtt.recv  BY <1>1, HandoverType DEF Presented
  <2>4. Presented(n)' => Handover(n).heard \in Nat /\ poll.merged[n].mqtt.recv \in Nat
    <3>1. Handover(n).heard \in Nat  BY HandoverType, NowIs DEF ClocksTo
    <3>2. Presented(n)' => poll.merged[n].mqtt \in EntriesTo(Past)
      BY <1>1 DEF Presented, Types, TypesTo, PollTo, MergedTo
    <3> QED  BY <3>1, <3>2, NowIs DEF EntriesTo
  <2>5. Presented(n)' => poll.merged[n].mqtt.recv <= Handover(n).heard  BY <2>3, <2>4
  <2> QED  BY <1>1, <2>1, <2>2, <2>5
<1>3. HeardClockStored'  BY <1>1 DEF HeardClockStored
<1> QED  BY <1>1, <1>2, <1>3 DEF ClockInv

LEMMA RecordClocks ==
    ASSUME Types, ClockInv, RecordMeshTick PROVE ClockInv'
<1>1. /\ poll.step = "polled" /\ poll'.step = "recorded" /\ poll'.merged = poll.merged /\ activity' = activity
      /\ clocks' = [n \in Key |-> Merge(clocks[n], poll.advanced[n])]
  BY DEF RecordMeshTick, Types, TypesTo, PollTo
<1>2. ASSUME NEW n \in Key
      PROVE  /\ activity'[n].heard <= clocks'[n].heard
             /\ Presented(n)' => poll'.merged[n].mqtt.recv <= clocks'[n].heard
  <2>1. clocks[n] \in ClocksTo(Past) /\ poll.advanced[n] \in ClocksTo(Past) /\ activity[n] \in ClocksTo(Past)
    BY DEF Types, TypesTo, StoreTypes, PollTo, MemoryTypes
  <2>2. clocks[n].heard \in Nat /\ poll.advanced[n].heard \in Nat /\ activity[n].heard \in Nat
    BY <2>1, NowIs DEF ClocksTo
  <2>3. clocks'[n].heard = IF clocks[n].heard < poll.advanced[n].heard THEN poll.advanced[n].heard ELSE clocks[n].heard
    BY <1>1, <2>1, MergeType
  <2>4. activity[n].heard <= clocks[n].heard \/ activity[n].heard = poll.advanced[n].heard  BY <1>1 DEF ClockInv
  <2>5. activity'[n].heard <= clocks'[n].heard  BY <1>1, <2>2, <2>3, <2>4
  <2>6. Presented(n)' => poll'.merged[n].mqtt.recv <= activity[n].heard /\ poll'.merged[n].mqtt.recv \in Nat
    <3>1. Presented(n)' => poll.merged[n].mqtt \in EntriesTo(Past)
      BY <1>1 DEF Presented, Types, TypesTo, PollTo, MergedTo
    <3> QED  BY <1>1, <3>1, NowIs DEF ClockInv, Presented, EntriesTo
  <2>7. clocks'[n].heard \in Nat  BY <2>2, <2>3
  <2> QED  BY <1>1, <2>2, <2>5, <2>6, <2>7
<1>3. HeardClockStored'
  <2> SUFFICES ASSUME NEW n \in Key, Presented(n)' PROVE clocks'[n].heard >= poll'.merged[n].mqtt.recv
    BY DEF HeardClockStored, Presented
  <2>1. poll'.merged[n].mqtt.recv <= clocks'[n].heard  BY <1>2
  <2> QED  BY <2>1
<1> QED  BY <1>1, <1>2, <1>3 DEF ClockInv

LEMMA StepClocks == Types /\ ClockInv /\ [Next]_vars => ClockInv'
<1> SUFFICES ASSUME Types, ClockInv, [Next]_vars PROVE ClockInv'  OBVIOUS
<1>1. CASE UNCHANGED <<poll, activity, clocks, written>>  BY <1>1, SameClocks
<1>2. \A n \in Key : clocks[n] \in ClocksTo(Past) /\ clocks[n].heard \in Nat
  BY NowIs DEF Types, TypesTo, StoreTypes, ClocksTo
<1>3. CASE UNCHANGED <<activity, clocks>> /\ poll.step # "polled" /\ poll'.step \notin {"polled", "recorded"}
  BY <1>3 DEF ClockInv, HeardClockStored
<1>4. CASE PollDrain
  <2>1. PICK readable \in BOOLEAN : poll' = DrainedPoll(Credit(readable)) /\ UNCHANGED <<activity, store>>
    BY <1>4, DrainIs
  <2>2. poll.step = "idle" /\ poll'.step = "drained"  BY <1>4, <2>1 DEF PollDrain, DrainedPoll, NoPoll
  <2> QED  BY <1>3, <2>1, <2>2 DEF store
<1>5. CASE PollSnapshot
  <2>1. poll.step = "drained" /\ poll'.step = "snapped"  BY <1>5, SnapshotIs DEF Types, TypesTo, PollTo
  <2> QED  BY <1>3, <1>5, <2>1, SnapshotIs DEF store
<1>6. CASE PollFinish  BY <1>6, FinishClocks
<1>7. CASE RecordMeshTick  BY <1>7, RecordClocks
<1>8. CASE MeshTickUnwritten \/ Restart
  <2>1. poll'.step # "polled" /\ activity' = NoActivity /\ clocks' = clocks
    <3>1. CASE MeshTickUnwritten
      BY <3>1 DEF MeshTickUnwritten, ForgetMeshActivity, store, Types, TypesTo, PollTo
    <3>2. CASE Restart  BY <3>2 DEF Restart, NoPoll, store
    <3> QED  BY <1>8, <3>1, <3>2
  <2>3. HeardClockStored'
    <3>1. CASE MeshTickUnwritten  BY <3>1 DEF MeshTickUnwritten, HeardClockStored
    <3>2. CASE Restart  BY <3>2 DEF Restart, NoPoll, HeardClockStored
    <3> QED  BY <1>8, <3>1, <3>2
  <2>2. \A n \in Key : activity'[n].heard <= clocks'[n].heard  BY <1>2, <2>1 DEF NoActivity, NoClock
  <2> QED  BY <2>1, <2>2, <2>3 DEF ClockInv
<1>9. CASE SweepDisappeared
  BY <1>3, <1>9 DEF SweepDisappeared, NoPoll
<1>10. CASE \E b \in Broker : SessionOpens(b) \/ SessionLost(b) \/ \E p \in Packet : OnMessage(b, p)
  BY <1>1, <1>10 DEF SessionOpens, SessionLost, OnMessage, normalizer, store, bounds
<1>11. CASE (\E r \in Reporter, p \in Packet : PostPackets(r, p))
            \/ (\E r \in Reporter, ids \in Listing : \E success \in {report[r].success, now} : PostReport(r, ids, success))
  BY <1>1, <1>11 DEF PostPackets, PostReport, normalizer, store
<1>12. CASE SeedNeighbours \/ Clock \/ UNCHANGED vars
  BY <1>1, <1>12 DEF SeedNeighbours, Clock, vars, normalizer, store, bounds
<1> QED  BY <1>4, <1>5, <1>6, <1>7, <1>8, <1>9, <1>10, <1>11, <1>12 DEF Next, Poll

\* After a tick whose mesh write succeeded, no node the tick presented has a stored
\* last-heard clock behind what the poll read of it, whatever writes failed before and
\* however often the process restarted.
THEOREM HeardClocksTheorem == Spec => []HeardClockStored
<1>1. ClockInv => HeardClockStored  BY DEF ClockInv
<1> QED  BY <1>1, InitClocks, StepClocks, AlwaysTypes, PTL DEF Spec

-----------------------------------------------------------------------------
(***************************************************************************)
(* Readings, and who is on the map.                                        *)
(***************************************************************************)
\* What the last step of a poll writes is built over the stored row.
LEMMA FinishRow ==
    ASSUME Types, PollFinish, NEW n \in Key
    PROVE  LET m     == poll.merged[n]
               prior == ByID(expired, n)
               ev    == BuildEvent(m, prior)
               up    == Upserted(n, ev, prior)
           IN  /\ m = Nil => rows'[n] = rows[n]
               /\ m # Nil => /\ m \in MergedTo(Past) /\ prior \in RowsTo(Past) \cup {Nil}
                             /\ rows'[n] = Touched(up) /\ rows'[n] \in RowsTo(Past)
                             /\ up = rows[n] \/ (up.geo = ev.geo /\ up.signal = ev.signal)
                             /\ rows'[n].geo = up.geo /\ rows'[n].signal = up.signal /\ rows'[n].status = "ACTIVE"
<1>1. ASSUME poll.merged[n] = Nil PROVE rows'[n] = rows[n]  BY <1>1 DEF PollFinish
<1>2. ASSUME poll.merged[n] # Nil
      PROVE  /\ poll.merged[n] \in MergedTo(Past) /\ ByID(expired, n) \in RowsTo(Past) \cup {Nil}
             /\ rows'[n] = Touched(Upserted(n, BuildEvent(poll.merged[n], ByID(expired, n)), ByID(expired, n)))
  <2>1. poll.merged[n] \in MergedTo(Past)  BY <1>2 DEF Types, TypesTo, PollTo
  <2> QED  BY <1>2, <2>1, ByIDType DEF PollFinish
<1> QED  BY <1>1, <1>2, WrittenRow

\* No write of a live node's row, by the tick's upsert or by the sweep, loses its signal
\* reading or its position (buildEvent, stablePosition).
THEOREM ReadingsTheorem == Spec => ReadingsKept
<1>1. Types /\ [Next]_vars =>
        [\A n \in Key : Active(n) =>
           /\ rows[n].signal => rows'[n].signal
           /\ rows[n].geo # Nil => rows'[n].geo # Nil]_vars
  <2> SUFFICES ASSUME Types, Next, NEW n \in Key, Active(n)
               PROVE  /\ rows[n].signal => rows'[n].signal
                      /\ rows[n].geo # Nil => rows'[n].geo # Nil
    OBVIOUS
  <2>1. CASE rows' = rows  BY <2>1
  <2>2. rows[n] \in RowsTo(Past) /\ rows[n] # Nil  BY DEF Active, Types, TypesTo, StoreTypes
  <2>3. CASE PollFinish
    <3> DEFINE m == poll.merged[n]
               prior == ByID(expired, n)
               ev == BuildEvent(m, prior)
               up == Upserted(n, ev, prior)
    <3>1. prior = rows[n]  BY DEF ByID
    <3>2. CASE m = Nil  BY <2>3, <3>2, FinishRow
    <3>3. CASE m # Nil
      <4>1. m \in MergedTo(Past) /\ (up = rows[n] \/ (up.geo = ev.geo /\ up.signal = ev.signal))
            /\ rows'[n].geo = up.geo /\ rows'[n].signal = up.signal
        BY <2>3, <3>3, FinishRow
      <4>2. ev.geo = Geometry(m, prior) /\ ev.signal = Signal(m, prior)  BY DEF BuildEvent
      <4>3. rows[n].signal => Signal(m, prior)  BY <2>2, <3>1 DEF Signal
      <4>4. rows[n].geo # Nil => Geometry(m, prior) # Nil  BY <2>2, <3>1 DEF Geometry
      <4> HIDE DEF up, ev, prior, m
      <4> QED  BY <4>1, <4>2, <4>3, <4>4
    <3> QED  BY <3>2, <3>3
  <2>4. CASE SweepDisappeared
    <3>1. rows'[n] = rows[n] \/ rows'[n] = [rows[n] EXCEPT !.status = "EXPIRED"]  BY <2>4 DEF SweepDisappeared
    <3> QED  BY <2>2, <3>1 DEF RowsTo
  <2>5. CASE \E b \in Broker : SessionOpens(b) \/ SessionLost(b) \/ \E p \in Packet : OnMessage(b, p)
    BY <2>1, <2>5 DEF SessionOpens, SessionLost, OnMessage, store
  <2>6. CASE (\E r \in Reporter, p \in Packet : PostPackets(r, p))
            \/ (\E r \in Reporter, ids \in Listing : \E success \in {report[r].success, now} : PostReport(r, ids, success))
    BY <2>1, <2>6 DEF PostPackets, PostReport, store
  <2>7. CASE SeedNeighbours \/ Clock \/ Restart  BY <2>1, <2>7 DEF SeedNeighbours, Clock, Restart, store
  <2>8. CASE PollDrain \/ PollSnapshot  BY <2>1, <2>8, DrainIs, SnapshotIs DEF store
  <2>9. CASE RecordMeshTick \/ MeshTickUnwritten  BY <2>1, <2>9 DEF RecordMeshTick, MeshTickUnwritten, store
  <2> QED  BY <2>3, <2>4, <2>5, <2>6, <2>7, <2>8, <2>9 DEF Next, Poll
<1> QED  BY <1>1, AlwaysTypes, PTL DEF Spec, ReadingsKept

-----------------------------------------------------------------------------
(***************************************************************************)
(* What becomes of a node's entry: an advert replaces it, a prune drops    *)
(* it, a drain stamps it.                                                  *)
(***************************************************************************)
\* A dropped entry was neither heard nor relayed for the time the registry keeps.
Dropped(n) == now - nodes[n].heard > RetainFor /\ now - nodes[n].relayed > RetainFor

LEMMA PrunedNode ==
    ASSUME Types, NEW ns, NEW n \in Key, ns[n] \in EntriesTo(Past) \cup {Nil}
    PROVE  \/ Pruned(ns, now)[n] = ns[n] /\ (ns[n] # Nil => now - ns[n].heard <= RetainFor \/ now - ns[n].relayed <= RetainFor)
           \/ /\ ns[n] # Nil /\ Pruned(ns, now)[n] = Nil
              /\ now - ns[n].heard > RetainFor /\ now - ns[n].relayed > RetainFor
<1>1. CASE ns[n] = Nil  BY <1>1 DEF Pruned
<1>2. CASE ns[n] # Nil
  <2>1. ns[n].heard \in Nat /\ ns[n].relayed \in Nat  BY <1>2, NowIs DEF EntriesTo
  <2>2. Max({ns[n].heard, ns[n].relayed}) = (IF ns[n].heard < ns[n].relayed THEN ns[n].relayed ELSE ns[n].heard)
    BY <2>1, MaxTwo
  <2>3. Pruned(ns, now)[n] = IF now - Max({ns[n].heard, ns[n].relayed}) > RetainFor THEN Nil ELSE ns[n]
    BY <1>2 DEF Pruned
  <2> QED  BY <1>2, <2>1, <2>2, <2>3, NowIs, Numbers
<1> QED  BY <1>1, <1>2

LEMMA ArrivalNode ==
    ASSUME Types, NEW p \in Packet, NEW door \in Door, IngestPacket(p, door), NEW n \in Key
    PROVE  \/ nodes'[n] = nodes[n]
           \/ p.sender = n /\ p.kind = "advert" /\ nodes'[n] = Entry(p, door)
           \/ nodes[n] # Nil /\ nodes'[n] = Nil /\ Dropped(n)
<1>1. CASE p.kind = "advert"
  <2> DEFINE ns == [nodes EXCEPT ![p.sender] = Entry(p, door)]
  <2>1. nodes' = Pruned(ns, now)  BY <1>1 DEF IngestPacket
  <2>2. nodes \in [Key -> EntriesTo(Past) \cup {Nil}]  BY DEF Types, TypesTo, RegistryTypes
  <2>3. ns[n] = IF n = p.sender THEN Entry(p, door) ELSE nodes[n]  BY <2>2
  <2> HIDE DEF ns
  <2>4. CASE n = p.sender
    <3>1. Entry(p, door) \in EntriesTo(Past)  BY <1>1, EntryType
    <3>2. ~(now - ns[n].heard > RetainFor)  BY <2>3, <2>4, NowIs, Numbers DEF Entry
    <3>3. nodes'[n] = ns[n]  BY <2>1, <2>3, <2>4, <3>1, <3>2, PrunedNode
    <3> QED  BY <1>1, <2>3, <2>4, <3>3
  <2>5. CASE n # p.sender  BY <2>1, <2>2, <2>3, <2>5, PrunedNode DEF Dropped
  <2> QED  BY <2>4, <2>5
<1>2. CASE p.kind # "advert"  BY <1>2 DEF IngestPacket
<1> QED  BY <1>1, <1>2

LEMMA KeptNode ==
    ASSUME Types, NEW n \in Key
    PROVE  Kept[n] = nodes[n] \/ (nodes[n] # Nil /\ Kept[n] = Nil /\ Dropped(n))
<1>1. nodes[n] \in EntriesTo(Past) \cup {Nil}  BY DEF Types, TypesTo, RegistryTypes
<1> QED  BY <1>1, PrunedNode DEF Kept, Dropped

LEMMA StampedNode ==
    ASSUME Types, NEW credit \in [Key -> Past], NEW n \in Key
    PROVE  /\ nodes[n] = Nil => Stamped(credit)[n] = Nil
           /\ nodes[n] # Nil => \E r \in Past : /\ Stamped(credit)[n] = [nodes[n] EXCEPT !.relayed = r]
                                                /\ r >= nodes[n].relayed
<1>1. nodes[n] \in EntriesTo(Past) \cup {Nil} /\ credit[n] \in Past  BY DEF Types, TypesTo, RegistryTypes
<1>2. CASE nodes[n] # Nil /\ credit[n] > nodes[n].relayed
  BY <1>1, <1>2, NowIs DEF Stamped, EntriesTo
<1>3. CASE nodes[n] # Nil /\ ~(credit[n] > nodes[n].relayed)
  <2>1. nodes[n].relayed \in Past /\ nodes[n].relayed \in Nat /\ nodes[n] = [nodes[n] EXCEPT !.relayed = nodes[n].relayed]
    BY <1>1, <1>3, NowIs DEF EntriesTo
  <2>2. Stamped(credit)[n] = nodes[n]  BY <1>3 DEF Stamped
  <2> QED  BY <1>3, <2>1, <2>2
<1>4. CASE nodes[n] = Nil  BY <1>4 DEF Stamped
<1> QED  BY <1>2, <1>3, <1>4

\* What a snapshot merges was heard, or is known.
LEMMA MergedNode ==
    ASSUME Types, PollSnapshot, NEW n \in Key
    PROVE  /\ poll'.merged[n] = Merging[n]
           /\ Merging[n] # Nil => IF Merging[n].mqtt = Nil THEN ByID(expired, n) # Nil
                                  ELSE Merging[n].mqtt = Kept[n] /\ Kept[n] # Nil
<1>1. poll'.merged = Merging  BY SnapshotIs DEF Types, TypesTo, PollTo
<1>2. CASE n \in HeardNow
  <2>1. Kept[n] # Nil  BY <1>2 DEF HeardNow, Snapshot
  <2> QED  BY <1>1, <1>2, <2>1 DEF Merging
<1>3. CASE n \notin HeardNow
  <2>1. n \in Monitored \cup Revived => ByID(expired, n) # Nil
    BY DEF Monitored, Revived, MonitorHolds, RelayRevives
  <2> QED  BY <1>1, <1>3, <2>1 DEF Merging
<1> QED  BY <1>2, <1>3

(***************************************************************************)
(* Who is on the map: entries begin with an advert, seeds with a row, and  *)
(* what a monitor or a relay brings back had a row.                        *)
(***************************************************************************)
Advertised(n) == \E p \in received : p.sender = n

MapInv ==
    \A n \in Key :
       /\ nodes[n] # Nil \/ rows[n] # Nil => Advertised(n)
       /\ expired.rows # Nil => (expired.rows[n] # Nil => rows[n] # Nil)
       /\ (poll.step = "snapped" /\ poll.merged[n] # Nil) =>
             IF poll.merged[n].mqtt = Nil THEN ByID(expired, n) # Nil ELSE Advertised(n)

LEMMA InitMap == Init => MapInv
BY DEF Init, MapInv, NoPoll

LEMMA KnownRow ==
    ASSUME MapInv, NEW n \in Key, ByID(expired, n) # Nil PROVE rows[n] # Nil
BY DEF MapInv, ByID, Active, ExpiredEvent

LEMMA ArrivalMap ==
    ASSUME Types, MapInv, NEW p \in Packet, NEW door \in Door, IngestPacket(p, door), UNCHANGED <<rows, expired, poll>>
    PROVE  MapInv'
<1>1. received' = received \cup {p}  BY DEF IngestPacket
<1> SUFFICES ASSUME NEW n \in Key
             PROVE  /\ nodes'[n] # Nil \/ rows[n] # Nil => Advertised(n)'
                    /\ expired.rows # Nil => (expired.rows[n] # Nil => rows[n] # Nil)
                    /\ (poll.step = "snapped" /\ poll.merged[n] # Nil) =>
                          IF poll.merged[n].mqtt = Nil THEN ByID(expired, n)' # Nil ELSE Advertised(n)'
  BY DEF MapInv
<1>2. Advertised(n) => Advertised(n)'  BY <1>1 DEF Advertised
<1>3. nodes'[n] # Nil => Advertised(n)'
  <2>1. CASE nodes'[n] = nodes[n]  BY <1>2, <2>1 DEF MapInv
  <2>2. CASE p.sender = n  BY <1>1, <2>2 DEF Advertised
  <2>3. CASE nodes'[n] = Nil  BY <2>3
  <2> QED  BY <2>1, <2>2, <2>3, ArrivalNode
<1>4. ByID(expired, n)' = ByID(expired, n)  BY DEF ByID, Active, ExpiredEvent
<1> QED  BY <1>2, <1>3, <1>4 DEF MapInv

LEMMA DrainMap ==
    ASSUME Types, MapInv, PollDrain PROVE MapInv'
<1>1. PICK readable \in BOOLEAN :
         /\ expired' = ExpiredNodes(readable)
         /\ nodes' = Stamped(Credit(readable))
         /\ poll' = DrainedPoll(Credit(readable))
         /\ UNCHANGED <<store, received>>
  BY DrainIs
<1>2. poll'.step = "drained"  BY <1>1 DEF DrainedPoll, NoPoll
<1> SUFFICES ASSUME NEW n \in Key
             PROVE  /\ nodes'[n] # Nil \/ rows[n] # Nil => Advertised(n)
                    /\ expired'.rows # Nil => (expired'.rows[n] # Nil => rows[n] # Nil)
  BY <1>1, <1>2 DEF MapInv, Advertised, store
<1>3. nodes'[n] # Nil => nodes[n] # Nil  BY <1>1 DEF Stamped
<1>4. expired' = expired \/ expired'.rows = ExpiredRows  BY <1>1 DEF ExpiredNodes
<1>5. ExpiredRows[n] # Nil => rows[n] # Nil  BY DEF ExpiredRows
<1> QED  BY <1>3, <1>4, <1>5 DEF MapInv

LEMMA SnapshotMap ==
    ASSUME Types, MapInv, PollSnapshot PROVE MapInv'
<1>1. nodes' = Kept /\ UNCHANGED <<expired, rows, received>>  BY SnapshotIs DEF store, bounds
<1> SUFFICES ASSUME NEW n \in Key
             PROVE  /\ nodes'[n] # Nil \/ rows[n] # Nil => Advertised(n)
                    /\ poll'.merged[n] # Nil =>
                          IF poll'.merged[n].mqtt = Nil THEN ByID(expired, n) # Nil ELSE Advertised(n)
  BY <1>1 DEF MapInv, Advertised, ByID, Active, ExpiredEvent
<1>2. Kept[n] # Nil => Advertised(n)  BY KeptNode DEF MapInv
<1>3. rows[n] # Nil => Advertised(n)  BY DEF MapInv
<1> QED  BY <1>1, <1>2, <1>3, MergedNode

LEMMA FinishMap ==
    ASSUME Types, MapInv, PollFinish PROVE MapInv'
<1>1. UNCHANGED <<nodes, expired, received>> /\ poll.step = "snapped" /\ poll'.step = "polled"
  BY DEF PollFinish, bounds, Types, TypesTo, PollTo
<1> SUFFICES ASSUME NEW n \in Key
             PROVE  /\ rows'[n] # Nil => Advertised(n)
                    /\ rows[n] # Nil => rows'[n] # Nil
  BY <1>1 DEF MapInv, Advertised
<1>2. CASE poll.merged[n] = Nil  BY <1>2, FinishRow DEF MapInv
<1>3. CASE poll.merged[n] # Nil
  <2>1. rows'[n] # Nil  BY <1>3, FinishRow, NilIsNone
  <2>2. Advertised(n)  BY <1>1, <1>3, KnownRow DEF MapInv
  <2> QED  BY <2>1, <2>2
<1> QED  BY <1>2, <1>3

LEMMA SweptRow ==
    ASSUME Types, SweepDisappeared, NEW n \in Key
    PROVE  \/ rows'[n] = rows[n]
           \/ /\ Swept /\ Active(n) /\ poll.merged[n] = Nil
              /\ rows'[n] = [rows[n] EXCEPT !.status = "EXPIRED"]
              /\ rows'[n] \in RowsTo(Past) /\ rows'[n].status = "EXPIRED" /\ rows'[n].geo = rows[n].geo
<1>1. Active(n) => rows[n] \in RowsTo(Past)  BY DEF Active, Types, TypesTo, StoreTypes
<1>2. Active(n) => /\ [rows[n] EXCEPT !.status = "EXPIRED"] \in RowsTo(Past)
                   /\ [rows[n] EXCEPT !.status = "EXPIRED"].status = "EXPIRED"
                   /\ [rows[n] EXCEPT !.status = "EXPIRED"].geo = rows[n].geo
  BY <1>1 DEF RowsTo
<1>3. rows'[n] = IF Swept /\ Active(n) /\ poll.merged[n] = Nil /\ poll.at - rows[n].seen > ExpireAfter
                 THEN [rows[n] EXCEPT !.status = "EXPIRED"] ELSE rows[n]
  BY DEF SweepDisappeared
<1> QED  BY <1>2, <1>3

LEMMA StepMap == Types /\ MapInv /\ [Next]_vars => MapInv'
<1> SUFFICES ASSUME Types, MapInv, [Next]_vars PROVE MapInv'  OBVIOUS
<1>1. CASE UNCHANGED <<nodes, rows, expired, poll, received>>
  BY <1>1 DEF MapInv, Advertised, ByID, Active, ExpiredEvent
<1>2. CASE UNCHANGED <<nodes, rows, expired, received>> /\ poll'.step # "snapped"
  BY <1>2 DEF MapInv, Advertised
<1>3. CASE \E b \in Broker, p \in Packet : OnMessage(b, p)
  BY <1>3, ArrivalMap DEF OnMessage, Door, normalizer, store
<1>4. CASE \E r \in Reporter, p \in Packet : PostPackets(r, p)
  BY <1>4, ArrivalMap DEF PostPackets, Door, normalizer, store
<1>5. CASE PollDrain  BY <1>5, DrainMap
<1>6. CASE PollSnapshot  BY <1>6, SnapshotMap
<1>7. CASE PollFinish  BY <1>7, FinishMap
<1>8. CASE RecordMeshTick \/ MeshTickUnwritten
  <2>1. poll'.step = "recorded"  BY <1>8 DEF RecordMeshTick, MeshTickUnwritten, Types, TypesTo, PollTo
  <2> QED  BY <1>2, <1>8, <2>1 DEF RecordMeshTick, MeshTickUnwritten, registry, store
<1>9. CASE SweepDisappeared
  <2>1. UNCHANGED <<nodes, expired, received>> /\ poll'.step = "idle"
    BY <1>9 DEF SweepDisappeared, NoPoll, registry, bounds
  <2>2. \A n \in Key : rows'[n] # Nil <=> rows[n] # Nil  BY <1>9, SweptRow, NilIsNone DEF Active
  <2> QED  BY <2>1, <2>2 DEF MapInv, Advertised
<1>10. CASE Restart
  <2>1. /\ rows' = rows /\ received' = received /\ expired'.rows = Nil /\ poll'.step = "idle"
        /\ \A n \in Key : nodes'[n] # Nil => rows[n] # Nil
    BY <1>10 DEF Restart, store, NoPoll, Active
  <2> QED  BY <2>1 DEF MapInv, Advertised
<1>11. CASE \E b \in Broker : SessionOpens(b) \/ SessionLost(b)
  BY <1>1, <1>11 DEF SessionOpens, SessionLost, normalizer, store, bounds
<1>12. CASE \E r \in Reporter, ids \in Listing : \E success \in {report[r].success, now} : PostReport(r, ids, success)
  BY <1>1, <1>12 DEF PostReport, registry, normalizer, store
<1>13. CASE SeedNeighbours \/ Clock \/ UNCHANGED vars
  BY <1>1, <1>13 DEF SeedNeighbours, Clock, vars, registry, normalizer, store, bounds
<1> QED  BY <1>3, <1>4, <1>5, <1>6, <1>7, <1>8, <1>9, <1>10, <1>11, <1>12, <1>13 DEF Next, Poll

LEMMA AlwaysMap == Spec => []MapInv
BY InitMap, StepMap, AlwaysTypes, PTL DEF Spec

\* Whatever monitors report and packets are relayed, a row belongs to a node whose
\* advert was received: reports and relays only bring back what the store knows.
THEOREM MapTheorem == Spec => []OnlyAdvertsEstablish
<1>1. MapInv => OnlyAdvertsEstablish  BY DEF MapInv, OnlyAdvertsEstablish, Advertised
<1> QED  BY <1>1, AlwaysMap, PTL

-----------------------------------------------------------------------------
(***************************************************************************)
(* When a poll ends with all brokers delivering, they were when it began.  *)
(***************************************************************************)
BrokerHeard(b) == Max({link[b].last, link[b].started})

DeliveryInv ==
    (poll.step # "idle" /\ ~poll.deaf) =>
       poll.registryLive /\ \A b \in Broker : poll.began - BrokerHeard(b) <= SilenceAfter

LEMMA BrokerTimes ==
    ASSUME Types, NEW b \in Broker
    PROVE  /\ link[b].last \in Nat /\ link[b].started \in Nat /\ link[b].last <= now
           /\ BrokerHeard(b) = (IF link[b].last < link[b].started THEN link[b].started ELSE link[b].last)
<1>1. link[b].last \in 0 .. now /\ link[b].started \in 0 .. now  BY DEF Types, TypesTo, LinkTypes, Past
<1> QED  BY <1>1, NowIs, MaxTwo DEF BrokerHeard

\* A message only brings the delivery clock forward.
LEMMA MessageDelivery ==
    ASSUME Types, Types', DeliveryInv, NEW c \in Broker, link' = [link EXCEPT ![c].last = now], UNCHANGED <<now, poll>>
    PROVE  DeliveryInv'
<1> SUFFICES ASSUME NEW b \in Broker, poll.step # "idle", ~poll.deaf
             PROVE  poll.began - BrokerHeard(b)' <= SilenceAfter
  BY DEF DeliveryInv
<1>1. link \in [Broker -> [open : BOOLEAN, last : Past, started : Past]]  BY DEF Types, TypesTo, LinkTypes
<1>2. link'[b].last >= link[b].last /\ link'[b].started = link[b].started  BY <1>1, BrokerTimes
<1>3. BrokerHeard(b)' = (IF link'[b].last < link'[b].started THEN link'[b].started ELSE link'[b].last)
  <2>1. link'[b].last \in Nat /\ link'[b].started \in Nat  BY <1>1, <1>2, NowIs
  <2> QED  BY <2>1, MaxTwo DEF BrokerHeard
<1>4. poll.began \in Nat /\ poll.began - BrokerHeard(b) <= SilenceAfter
  BY NowIs DEF DeliveryInv, Types, TypesTo, PollTo
<1>5. link'[b].last \in Nat  BY <1>1, <1>2, NowIs
<1> QED  BY <1>2, <1>3, <1>4, <1>5, BrokerTimes, Numbers

LEMMA DrainDelivery ==
    ASSUME Broker # {}, SilenceAfter > 0, Types, PollDrain PROVE DeliveryInv'
<1>1. PICK readable \in BOOLEAN : poll' = DrainedPoll(Credit(readable)) /\ link' = link
  BY DrainIs
<1> DEFINE deaf == BrokerDelivery # Broker
           live == BrokerDelivery # {} \/ On("mesh.packet", {"OK"}) # {}
<1>2. poll'.deaf = deaf /\ poll'.registryLive = live /\ poll'.began = now
  <2> DEFINE silent == On("mesh.repeater", {"STALE", "UNKNOWN"}) # {}
             suppress == On("mesh.packet", {"STALE"}) # {}
             c == Credit(readable)
  <2>1. poll' = [NoPoll EXCEPT !.step = "drained", !.began = now, !.at = now, !.deaf = deaf,
             !.registryLive = live, !.reports = MeshReports, !.silent = silent, !.suppress = suppress, !.relays = c]
    BY <1>1, Zenon DEF DrainedPoll
  <2> HIDE DEF deaf, live, silent, suppress, c
  <2> QED  BY <2>1 DEF NoPoll
<1> SUFFICES ASSUME ~deaf PROVE live /\ \A b \in Broker : now - BrokerHeard(b) <= SilenceAfter
  BY <1>1, <1>2 DEF DeliveryInv, BrokerHeard
<1>3. BrokerDelivery = Broker  OBVIOUS
<1>4. live  BY <1>3
<1>5. ASSUME NEW b \in Broker PROVE now - BrokerHeard(b) <= SilenceAfter
  <2>1. Delivering(b)  BY <1>3 DEF BrokerDelivery
  <2> QED  BY <2>1, Numbers DEF Delivering, BrokerHeard
<1> QED  BY <1>4, <1>5

LEMMA StepDelivery == Broker # {} /\ SilenceAfter > 0 /\ Types /\ DeliveryInv /\ [Next]_vars => DeliveryInv'
<1> SUFFICES ASSUME Broker # {}, SilenceAfter > 0, Types, DeliveryInv, [Next]_vars PROVE DeliveryInv'  OBVIOUS
<1>1. Types'  BY StepTypes
<1>2. CASE link' = link /\ poll' = poll  BY <1>2 DEF DeliveryInv, BrokerHeard
<1>3. CASE poll'.step = "idle"  BY <1>3 DEF DeliveryInv
<1>4. CASE link' = link /\ poll.step # "idle" /\ (poll'.deaf <=> poll.deaf) /\ (poll'.registryLive <=> poll.registryLive) /\ poll'.began = poll.began
  BY <1>4 DEF DeliveryInv, BrokerHeard
<1>5. CASE \E b \in Broker, p \in Packet : OnMessage(b, p)
  BY <1>1, <1>5, MessageDelivery DEF OnMessage, normalizer
<1>6. CASE \E r \in Reporter, p \in Packet : PostPackets(r, p)
  BY <1>2, <1>6 DEF PostPackets, normalizer
<1>7. CASE PollDrain  BY <1>7, DrainDelivery
<1>8. poll \in PollTo(Past)  BY DEF Types, TypesTo
<1>9. CASE PollSnapshot  BY <1>4, <1>8, <1>9, SnapshotIs DEF PollTo
<1>10. CASE PollFinish  BY <1>4, <1>8, <1>10 DEF PollFinish, PollTo
<1>11. CASE RecordMeshTick  BY <1>4, <1>8, <1>11 DEF RecordMeshTick, registry, PollTo
<1>12. CASE MeshTickUnwritten  BY <1>4, <1>8, <1>12 DEF MeshTickUnwritten, registry, PollTo
<1>13. CASE SweepDisappeared \/ Restart
  <2>1. poll' = NoPoll  BY <1>13 DEF SweepDisappeared, Restart
  <2>2. NoPoll.step = "idle"  BY DEF NoPoll
  <2> QED  BY <1>3, <2>1, <2>2
<1>14. CASE \E b \in Broker : SessionOpens(b) \/ SessionLost(b)
  <2>1. PICK b \in Broker : SessionOpens(b) \/ SessionLost(b)  BY <1>14
  <2>2. link \in [Broker -> [open : BOOLEAN, last : Past, started : Past]]  BY DEF Types, TypesTo, LinkTypes
  <2>3. \A c \in Broker : link'[c].last = link[c].last /\ link'[c].started = link[c].started
    BY <2>1, <2>2 DEF SessionOpens, SessionLost
  <2>4. poll' = poll  BY <2>1 DEF SessionOpens, SessionLost, normalizer
  <2> QED  BY <2>3, <2>4 DEF DeliveryInv, BrokerHeard
<1>15. CASE \E r \in Reporter, ids \in Listing : \E success \in {report[r].success, now} : PostReport(r, ids, success)
  BY <1>2, <1>15 DEF PostReport, registry, normalizer
<1>16. CASE SeedNeighbours \/ Clock \/ UNCHANGED vars
  BY <1>2, <1>16 DEF SeedNeighbours, Clock, vars, registry, normalizer
<1> QED  BY <1>5, <1>6, <1>7, <1>9, <1>10, <1>11, <1>12, <1>13, <1>14, <1>15, <1>16 DEF Next, Poll

-----------------------------------------------------------------------------
(***************************************************************************)
(* Who the sweep may take.  A clock is accounted for at time t when the    *)
(* node's entry e is not behind it, or the entry is gone and so is the     *)
(* clock; a relay also when the normalizer remembers one as late, seen.    *)
(***************************************************************************)
HeardBy(x, e, r, t) == IF e # Nil THEN x <= e.heard ELSE r # Nil => t - x > GraceFloor
RelayedBy(x, e, seen, t) == FadedBy(x, t) \/ x <= seen \/ (e # Nil /\ x <= e.relayed)

\* ... of a node with row r; and the clocks of an expired one have run out.
Settled(c, e, r, seen, t) ==
    /\ HeardBy(c.heard, e, r, t)
    /\ RelayedBy(c.relayed, e, seen, t)
    /\ r = Nil => c = NoClock
    /\ (r # Nil /\ r.status # "ACTIVE") => GoneBy(c, t)

\* What entry e may be followed by at time t.
Follows(e, f, t) ==
    \/ f = e
    \/ e # Nil /\ f = Nil /\ t - e.heard > RetainFor /\ t - e.relayed > RetainFor
    \/ /\ f # Nil
       /\ f.heard = t \/ (e # Nil /\ f.heard = e.heard)
       /\ e # Nil => f.relayed >= e.relayed

LEMMA ClockTimes ==
    ASSUME NEW t \in Nat, NEW c \in ClocksTo(0 .. t)
    PROVE  c.heard \in Nat /\ c.heard <= t /\ c.relayed \in Nat /\ c.relayed <= t
BY DEF ClocksTo

LEMMA EntryTimes ==
    ASSUME NEW t \in Nat, NEW e \in EntriesTo(0 .. t) \cup {Nil}, e # Nil
    PROVE  e.heard \in Nat /\ e.heard <= t /\ e.relayed \in Nat /\ e.relayed <= t /\ e.recv \in Nat /\ e.recv <= t
BY DEF EntriesTo

LEMMA RelayFollows ==
    ASSUME NEW t \in Nat, NEW x \in Nat, NEW e \in EntriesTo(0 .. t) \cup {Nil}, NEW f \in EntriesTo(0 .. t) \cup {Nil},
           NEW seen \in Nat, NEW seen2 \in Nat, seen2 >= seen \/ t - seen > RelayPresence,
           Follows(e, f, t), RelayedBy(x, e, seen, t)
    PROVE  RelayedBy(x, f, seen2, t)
<1>1. CASE FadedBy(x, t)  BY <1>1 DEF RelayedBy
<1>2. CASE x <= seen  BY <1>2, Numbers DEF RelayedBy, FadedBy
<1>3. CASE e # Nil /\ x <= e.relayed
  <2>1. e.relayed \in Nat  BY <1>3, EntryTimes
  <2>2. CASE f # Nil /\ f.relayed >= e.relayed
    <3>1. f.relayed \in Nat  BY <2>2, EntryTimes
    <3> QED  BY <1>3, <2>1, <2>2, <3>1 DEF RelayedBy
  <2>3. CASE t - e.relayed > RetainFor
    <3>1. t - x > RelayPresence  BY <1>3, <2>1, <2>3, Numbers, PresenceAssumption
    <3> QED  BY <3>1 DEF RelayedBy, FadedBy
  <2>4. CASE f = e  BY <1>3, <2>4 DEF RelayedBy
  <2> QED  BY <1>3, <2>2, <2>3, <2>4 DEF Follows
<1> QED  BY <1>1, <1>2, <1>3 DEF RelayedBy

LEMMA SettledFollows ==
    ASSUME NEW t \in Nat, NEW c \in ClocksTo(0 .. t), NEW e \in EntriesTo(0 .. t) \cup {Nil},
           NEW f \in EntriesTo(0 .. t) \cup {Nil}, NEW r,
           NEW seen \in Nat, NEW seen2 \in Nat, seen2 >= seen \/ t - seen > RelayPresence,
           Follows(e, f, t), Settled(c, e, r, seen, t)
    PROVE  Settled(c, f, r, seen2, t)
<1>1. c.heard \in Nat /\ c.heard <= t /\ c.relayed \in Nat  BY ClockTimes
<1>2. RelayedBy(c.relayed, f, seen2, t)  BY <1>1, RelayFollows DEF Settled
<1>3. HeardBy(c.heard, f, r, t)
  <2>1. CASE f = e  BY <2>1 DEF Settled
  <2>2. CASE e # Nil /\ f = Nil /\ t - e.heard > RetainFor
    <3>1. e.heard \in Nat /\ c.heard <= e.heard  BY <2>2, EntryTimes DEF Settled, HeardBy
    <3>2. t - c.heard > GraceFloor  BY <1>1, <2>2, <3>1, Numbers, PresenceAssumption
    <3> QED  BY <2>2, <3>2 DEF HeardBy
  <2>3. CASE f # Nil /\ f.heard = t  BY <1>1, <2>3 DEF HeardBy
  <2>4. CASE f # Nil /\ e # Nil /\ f.heard = e.heard  BY <2>4 DEF Settled, HeardBy
  <2> QED  BY <2>1, <2>2, <2>3, <2>4 DEF Follows
<1> QED  BY <1>2, <1>3 DEF Settled

LEMMA SettledLater ==
    ASSUME NEW t \in Nat, NEW u \in Nat, u >= t, NEW c \in ClocksTo(0 .. t), NEW e, NEW r, NEW seen \in Nat,
           Settled(c, e, r, seen, t)
    PROVE  Settled(c, e, r, seen, u)
<1>1. c.heard \in Nat /\ c.relayed \in Nat  BY ClockTimes
<1>2. GoneBy(c, t) => GoneBy(c, u)  BY <1>1, Numbers DEF GoneBy, FadedBy
<1>3. FadedBy(c.relayed, t) => FadedBy(c.relayed, u)  BY <1>1, Numbers DEF FadedBy
<1>4. t - c.heard > GraceFloor => u - c.heard > GraceFloor  BY <1>1, Numbers
<1> QED  BY <1>2, <1>3, <1>4 DEF Settled, HeardBy, RelayedBy

\* Where some clock is accounted for, the clock of a node never heard is.
LEMMA SettledNone ==
    ASSUME NEW t \in Nat, NEW c \in ClocksTo(0 .. t), NEW e \in EntriesTo(0 .. t) \cup {Nil}, NEW r, NEW seen,
           Settled(c, e, r, seen, t)
    PROVE  Settled(NoClock, e, r, seen, t)
<1>1. c.heard \in Nat /\ c.relayed \in Nat /\ NoClock.heard = 0 /\ NoClock.relayed = 0  BY ClockTimes DEF NoClock
<1>2. GoneBy(c, t) => GoneBy(NoClock, t)  BY <1>1, Numbers DEF GoneBy, FadedBy
<1>3. HeardBy(NoClock.heard, e, r, t)
  <2>1. CASE e # Nil
    <3>1. e.heard \in Nat  BY <2>1, EntryTimes
    <3> QED  BY <1>1, <2>1, <3>1 DEF HeardBy
  <2>2. CASE e = Nil  BY <1>1, <2>2, Numbers DEF Settled, HeardBy
  <2> QED  BY <2>1, <2>2
<1>4. RelayedBy(NoClock.relayed, e, seen, t)  BY <1>1 DEF RelayedBy, FadedBy
<1> QED  BY <1>2, <1>3, <1>4 DEF Settled

\* A clock put together of two that are accounted for is.
LEMMA SettledBoth ==
    ASSUME NEW t \in Nat, NEW c \in ClocksTo(0 .. t), NEW d \in ClocksTo(0 .. t), NEW b \in ClocksTo(0 .. t),
           NEW e, NEW r, NEW seen, Settled(c, e, r, seen, t), Settled(d, e, r, seen, t),
           b.heard \in {c.heard, d.heard}, b.relayed \in {c.relayed, d.relayed}
    PROVE  Settled(b, e, r, seen, t)
<1>1. r = Nil => b = NoClock
  <2>1. r = Nil => b.heard = 0 /\ b.relayed = 0  BY DEF Settled, NoClock
  <2>2. b = [heard |-> b.heard, relayed |-> b.relayed]  BY DEF ClocksTo
  <2> QED  BY <2>1, <2>2 DEF NoClock
<1> QED  BY <1>1 DEF Settled, HeardBy, RelayedBy, GoneBy

(***************************************************************************)
(* All the clocks the system remembers of a node that has not strayed are  *)
(* accounted for, and those of a node a poll with every broker did not     *)
(* present, for no reason of the fence, have run out by the time it        *)
(* sweeps.                                                                 *)
(***************************************************************************)
Accounted(n, c) == Settled(c, nodes[n], rows[n], relaySeen[n], now)

AwaitsSweep(n) ==
    /\ poll.step \in {"snapped", "polled", "recorded"} /\ ~poll.deaf
    /\ Active(n) /\ poll.merged[n] = Nil /\ n \notin poll.refused

SilentNode(n) ==
    /\ nodes[n] # Nil => nodes[n].recv <= nodes[n].heard
    /\ RelayedBy(poll.relays[n], nodes[n], relaySeen[n], now)
    /\ Accounted(n, clocks[n]) /\ Accounted(n, activity[n]) /\ Accounted(n, poll.advanced[n])
    /\ (poll.step = "snapped" /\ Presented(n)) =>
          IF nodes[n] # Nil THEN poll.merged[n].mqtt.recv <= nodes[n].heard
                            ELSE now - poll.merged[n].mqtt.recv > GraceFloor
    /\ AwaitsSweep(n) =>
          /\ GoneBy(clocks[n], now) /\ GoneBy(activity[n], now) /\ GoneBy(poll.advanced[n], now)
          /\ FadedBy(poll.relays[n], now)

Home == Key \ strayed

SilenceInv == \A n \in Home : SilentNode(n)

LEMMA NodeTimes ==
    ASSUME Types, NEW n \in Key
    PROVE  /\ now \in Nat
           /\ clocks[n] \in ClocksTo(0 .. now) /\ activity[n] \in ClocksTo(0 .. now) /\ poll.advanced[n] \in ClocksTo(0 .. now)
           /\ nodes[n] \in EntriesTo(0 .. now) \cup {Nil}
           /\ poll.relays[n] \in Nat /\ poll.relays[n] <= now /\ relaySeen[n] \in Nat /\ relaySeen[n] <= now
           /\ rows[n] \in RowsTo(0 .. now) \cup {Nil}
           /\ Presented(n) => poll.merged[n].mqtt.recv \in Nat /\ poll.merged[n].mqtt.recv <= now
<1>1. now \in Nat  BY NowIs
<1>2. clocks[n] \in ClocksTo(0 .. now) /\ rows[n] \in RowsTo(0 .. now) \cup {Nil}  BY DEF Types, TypesTo, StoreTypes, Past
<1>3. activity[n] \in ClocksTo(0 .. now) /\ relaySeen[n] \in 0 .. now  BY DEF Types, TypesTo, MemoryTypes, Past
<1>4. poll.advanced[n] \in ClocksTo(0 .. now) /\ poll.relays[n] \in 0 .. now  BY DEF Types, TypesTo, PollTo, Past
<1>5. nodes[n] \in EntriesTo(0 .. now) \cup {Nil}  BY DEF Types, TypesTo, RegistryTypes, Past
<1>6. ASSUME Presented(n) PROVE poll.merged[n].mqtt.recv \in 0 .. now
  <2>1. poll.merged[n] \in MergedTo(Past) \cup {Nil}  BY DEF Types, TypesTo, PollTo
  <2>2. poll.merged[n].mqtt \in EntriesTo(Past)  BY <1>6, <2>1 DEF Presented, MergedTo
  <2> QED  BY <2>2 DEF EntriesTo, Past
<1> QED  BY <1>1, <1>2, <1>3, <1>4, <1>5, <1>6

LEMMA InitSilence == Init => SilenceInv
<1> SUFFICES ASSUME Init, NEW n \in Home PROVE SilentNode(n)  BY DEF SilenceInv
<1>1. n \in Key  BY DEF Home
<1>2. /\ nodes[n] = Nil /\ rows[n] = Nil /\ clocks[n] = NoClock /\ activity[n] = NoClock
      /\ poll.advanced[n] = NoClock /\ poll.relays[n] = 0 /\ poll.step = "idle"
  BY <1>1 DEF Init, NoPoll, NoActivity
<1>3. Settled(NoClock, Nil, Nil, relaySeen[n], now)
  BY DEF Settled, HeardBy, RelayedBy, FadedBy, NoClock
<1> QED  BY <1>2, <1>3 DEF SilentNode, Accounted, AwaitsSweep, RelayedBy, FadedBy

\* Messages, and steps of others.
LEMMA MovedSilence ==
    ASSUME Types, Types', NEW n \in Home, SilentNode(n), Follows(nodes[n], nodes'[n], now),
           nodes'[n] # Nil => nodes'[n].recv <= nodes'[n].heard,
           UNCHANGED <<now, poll, activity, clocks, relaySeen, rows>>
    PROVE  SilentNode(n)'
<1>1. n \in Key  BY DEF Home
<1>2. nodes'[n] \in EntriesTo(0 .. now) \cup {Nil}  BY <1>1 DEF Types, TypesTo, RegistryTypes, Past
<1>3. /\ Settled(clocks[n], nodes'[n], rows[n], relaySeen[n], now)
      /\ Settled(activity[n], nodes'[n], rows[n], relaySeen[n], now)
      /\ Settled(poll.advanced[n], nodes'[n], rows[n], relaySeen[n], now)
      /\ RelayedBy(poll.relays[n], nodes'[n], relaySeen[n], now)
  <2>1. relaySeen[n] >= relaySeen[n]  BY <1>1, NodeTimes
  <2> QED  BY <1>1, <1>2, <2>1, NodeTimes, SettledFollows, RelayFollows DEF SilentNode, Accounted
<1>4. ASSUME poll.step = "snapped", Presented(n)
      PROVE  IF nodes'[n] # Nil THEN poll.merged[n].mqtt.recv <= nodes'[n].heard
                                ELSE now - poll.merged[n].mqtt.recv > GraceFloor
  <2> DEFINE x == poll.merged[n].mqtt.recv
  <2>1. x \in Nat /\ x <= now /\ now \in Nat  BY <1>1, <1>4, NodeTimes
  <2>2. IF nodes[n] # Nil THEN x <= nodes[n].heard ELSE now - x > GraceFloor  BY <1>4 DEF SilentNode
  <2>3. nodes[n] # Nil => nodes[n].heard \in Nat  BY <1>1, NodeTimes, EntryTimes
  <2> HIDE DEF x
  <2>4. IF nodes'[n] # Nil THEN x <= nodes'[n].heard ELSE now - x > GraceFloor
    BY <2>1, <2>2, <2>3, Numbers, PresenceAssumption DEF Follows
  <2> QED  BY <2>4 DEF x
<1>5. AwaitsSweep(n)' <=> AwaitsSweep(n)  BY DEF AwaitsSweep, Active
<1> QED  BY <1>3, <1>4, <1>5 DEF SilentNode, Accounted, Presented

LEMMA ArrivalSilence ==
    ASSUME Types, Types', NEW n \in Home, SilentNode(n), NEW p \in Packet, NEW door \in Door, IngestPacket(p, door),
           UNCHANGED <<now, poll, activity, clocks, relaySeen, rows>>
    PROVE  SilentNode(n)'
<1>1. n \in Key  BY DEF Home
<1>2. CASE nodes'[n] = nodes[n]  BY <1>2, MovedSilence DEF Follows, SilentNode
<1>3. CASE p.sender = n /\ p.kind = "advert" /\ nodes'[n] = Entry(p, door)
  <2>1. nodes'[n] # Nil  BY <1>3, EntryType, NilIsNone
  <2>2. nodes'[n].heard = now /\ nodes'[n].recv = now /\ (nodes[n] # Nil => nodes'[n].relayed = nodes[n].relayed)
    BY <1>3 DEF Entry
  <2>3. nodes[n] # Nil => nodes[n].relayed \in Nat  BY <1>1, NodeTimes, EntryTimes
  <2> QED  BY <2>1, <2>2, <2>3, NowIs, MovedSilence DEF Follows
<1>4. CASE nodes[n] # Nil /\ nodes'[n] = Nil /\ Dropped(n)  BY <1>4, MovedSilence DEF Follows, Dropped
<1> QED  BY <1>1, <1>2, <1>3, <1>4, ArrivalNode

LEMMA ClockSilence ==
    ASSUME Types, NEW n \in Home, SilentNode(n), now' \in Nat, now' >= now,
           UNCHANGED <<nodes, poll, activity, clocks, relaySeen, rows>>
    PROVE  SilentNode(n)'
<1>1. n \in Key  BY DEF Home
<1>2. \A c : c \in ClocksTo(0 .. now) /\ GoneBy(c, now) => GoneBy(c, now')
  BY NowIs, ClockTimes, Numbers DEF GoneBy, FadedBy
<1>3. FadedBy(poll.relays[n], now) => FadedBy(poll.relays[n], now')
  <2>1. PICK x \in Nat : x = poll.relays[n]  BY <1>1, NodeTimes
  <2>2. FadedBy(x, now) => FadedBy(x, now')  BY <2>1, NowIs, Numbers DEF FadedBy
  <2> QED  BY <2>1, <2>2
<1>4. Accounted(n, clocks[n])' /\ Accounted(n, activity[n])' /\ Accounted(n, poll.advanced[n])'
  BY <1>1, NodeTimes, SettledLater DEF SilentNode, Accounted
<1>5. RelayedBy(poll.relays[n], nodes[n], relaySeen[n], now')  BY <1>3 DEF SilentNode, RelayedBy
<1>6. ASSUME Presented(n), now - poll.merged[n].mqtt.recv > GraceFloor
      PROVE  now' - poll.merged[n].mqtt.recv > GraceFloor
  <2>1. PICK x \in Nat : x = poll.merged[n].mqtt.recv  BY <1>1, <1>6, NodeTimes
  <2> QED  BY <1>6, <2>1, NowIs, Numbers
<1>7. AwaitsSweep(n)' <=> AwaitsSweep(n)  BY DEF AwaitsSweep, Active
<1> QED  BY <1>1, <1>2, <1>3, <1>4, <1>5, <1>6, <1>7, NodeTimes DEF SilentNode, Presented

\* Relays that are not remembered are too old to count.
LEMMA NotedRelay ==
    ASSUME Types, RelayPresence > 0, NEW credit \in [Key -> Past], NEW n \in Key
    PROVE  LET seen == NoteRelays(credit)[n]
           IN  /\ seen \in Nat
               /\ seen >= relaySeen[n] \/ now - relaySeen[n] > RelayPresence
               /\ seen >= credit[n] \/ now - credit[n] > RelayPresence
<1>1. credit[n] \in Nat /\ relaySeen[n] \in Nat /\ now \in Nat  BY NowIs, NodeTimes
<1> DEFINE t == Max({relaySeen[n], credit[n]})
<1>2. t = (IF relaySeen[n] < credit[n] THEN credit[n] ELSE relaySeen[n])  BY <1>1, MaxTwo
<1>3. NoteRelays(credit)[n] = IF RelayPresence = 0 \/ now - t > RelayPresence THEN 0 ELSE t  BY DEF NoteRelays
<1> HIDE DEF t
<1> QED  BY <1>1, <1>2, <1>3, Numbers

LEMMA DrainSilence ==
    ASSUME Types, Types', RelayPresence > 0, NEW n \in Home, SilentNode(n), PollDrain
    PROVE  SilentNode(n)'
<1>1. PICK readable \in BOOLEAN :
         /\ nodes' = Stamped(Credit(readable))
         /\ relaySeen' = NoteRelays(Credit(readable))
         /\ poll' = DrainedPoll(Credit(readable))
         /\ UNCHANGED <<now, activity, store>>
  BY DrainIs
<1> DEFINE credit == Credit(readable)
<1>2. n \in Key /\ credit \in [Key -> Past]  BY CreditType DEF Credit, Waiting, Home
<1>3. poll'.step = "drained" /\ poll'.relays = credit /\ poll'.advanced = NoActivity
  BY <1>1 DEF DrainedPoll, NoPoll
<1> HIDE DEF credit
<1>4. /\ relaySeen'[n] \in Nat
      /\ relaySeen'[n] >= relaySeen[n] \/ now - relaySeen[n] > RelayPresence
      /\ relaySeen'[n] >= credit[n] \/ now - credit[n] > RelayPresence
  BY <1>1, <1>2, NotedRelay DEF credit
<1>5. /\ nodes[n] = Nil => nodes'[n] = Nil
      /\ nodes[n] # Nil => \E r \in Past : nodes'[n] = [nodes[n] EXCEPT !.relayed = r] /\ r >= nodes[n].relayed
  BY <1>1, <1>2, StampedNode DEF credit
<1>6. Follows(nodes[n], nodes'[n], now) /\ (nodes'[n] # Nil => nodes'[n].recv <= nodes'[n].heard)
  <2>1. CASE nodes[n] = Nil  BY <1>5, <2>1 DEF Follows
  <2>2. CASE nodes[n] # Nil
    <3>1. nodes[n] \in EntriesTo(Past)  BY <1>2, <2>2 DEF Types, TypesTo, RegistryTypes
    <3>2. PICK r \in Past : nodes'[n] = [nodes[n] EXCEPT !.relayed = r] /\ r >= nodes[n].relayed  BY <1>5, <2>2
    <3>3. nodes'[n] \in EntriesTo(Past) /\ nodes'[n].heard = nodes[n].heard /\ nodes'[n].recv = nodes[n].recv
          /\ nodes'[n].relayed = r
      BY <3>1, <3>2 DEF EntriesTo
    <3>4. nodes'[n] # Nil  BY <3>3, NilIsNone
    <3> QED  BY <2>2, <3>2, <3>3, <3>4 DEF Follows, SilentNode
  <2> QED  BY <2>1, <2>2
<1>7. nodes'[n] \in EntriesTo(0 .. now) \cup {Nil}  BY <1>1, <1>2 DEF Types, TypesTo, RegistryTypes, Past
<1>8. ASSUME NEW c \in ClocksTo(0 .. now), Settled(c, nodes[n], rows[n], relaySeen[n], now)
      PROVE  Settled(c, nodes'[n], rows[n], relaySeen'[n], now)
  BY <1>2, <1>4, <1>6, <1>7, <1>8, NodeTimes, SettledFollows
<1>9. Settled(NoClock, nodes[n], rows[n], relaySeen[n], now)
  BY <1>2, NodeTimes, SettledNone DEF SilentNode, Accounted
<1>10. NoClock \in ClocksTo(0 .. now)  BY NowIs DEF NoClock, ClocksTo, Past
<1>11. Accounted(n, clocks[n])' /\ Accounted(n, activity[n])' /\ Accounted(n, poll.advanced[n])'
  <2>1. clocks'[n] = clocks[n] /\ activity'[n] = activity[n] /\ poll'.advanced[n] = NoClock
        /\ rows'[n] = rows[n] /\ now' = now
    BY <1>1, <1>2, <1>3 DEF NoActivity, store
  <2> QED  BY <1>2, <1>8, <1>9, <1>10, <2>1, NodeTimes DEF SilentNode, Accounted
<1>12. RelayedBy(credit[n], nodes'[n], relaySeen'[n], now)
  <2>1. credit[n] \in Nat  BY <1>2, NowIs
  <2> QED  BY <1>4, <2>1 DEF RelayedBy, FadedBy
<1> QED  BY <1>1, <1>3, <1>6, <1>11, <1>12 DEF SilentNode, AwaitsSweep

\* A node that is not present has been silent for the floor at least.
LEMMA AbsentNode ==
    ASSUME Types, NEW e \in EntriesTo(0 .. now), ~Present(e, now), RelayPresence > 0
    PROVE  now - e.heard > GraceFloor /\ FadedBy(e.relayed, now)
<1>1. e.heard \in Nat /\ e.relayed \in Nat /\ e.cadence.ewma \in Nat  BY NowIs DEF EntriesTo, CadenceTo
<1>2. PresenceWindow(e.cadence) >= GraceFloor /\ PresenceWindow(e.cadence) \in Nat
  <2> DEFINE k == CadenceK * e.cadence.ewma
             m == Min({GraceCeil, k})
  <2>1. k \in Nat
    <3>1. PICK x \in Nat : x = e.cadence.ewma  BY <1>1
    <3>2. PICK y \in Nat : y = CadenceK  BY Numbers
    <3>3. x * y \in Nat  BY <3>1, <3>2
    <3>4. k = y * x  BY <3>1, <3>2
    <3> QED  BY <3>1, <3>2, <3>4
  <2> HIDE DEF k
  <2>2. m \in Nat  BY <2>1, Numbers, MinTwo
  <2> HIDE DEF m
  <2>3. Max({GraceFloor, m}) = (IF GraceFloor < m THEN m ELSE GraceFloor)  BY <2>2, Numbers, MaxTwo
  <2>4. PresenceWindow(e.cadence) = IF e.cadence.ewma = 0 THEN GraceFloor ELSE Max({GraceFloor, m})
    BY DEF PresenceWindow, m, k
  <2> QED  BY <2>2, <2>3, <2>4, Numbers
<1>3. ~(now - e.heard <= PresenceWindow(e.cadence))  BY DEF Present
<1>4. ~(e.relayed > 0 /\ RelayPresence > 0 /\ now - e.relayed <= RelayPresence)  BY DEF Present
<1>5. now - e.heard > GraceFloor  BY <1>1, <1>2, <1>3, NowIs, Numbers
<1>6. FadedBy(e.relayed, now)  BY <1>1, <1>4, NowIs, Numbers DEF FadedBy
<1> QED  BY <1>5, <1>6

\* A clock that is accounted for by an entry that is gone, or not present, has run out.
LEMMA SettledGone ==
    ASSUME Types, NEW c \in ClocksTo(0 .. now), NEW e \in EntriesTo(0 .. now) \cup {Nil}, NEW r, r # Nil,
           Settled(c, e, r, 0, now), e # Nil => now - e.heard > GraceFloor /\ FadedBy(e.relayed, now)
    PROVE  GoneBy(c, now)
<1>1. c.heard \in Nat /\ c.relayed \in Nat  BY NowIs, ClockTimes
<1>2. now - c.heard > GraceFloor
  <2>1. CASE e = Nil  BY <2>1 DEF Settled, HeardBy
  <2>2. CASE e # Nil
    <3>1. e.heard \in Nat /\ c.heard <= e.heard  BY <2>2, NowIs, EntryTimes DEF Settled, HeardBy
    <3> QED  BY <1>1, <2>2, <3>1, NowIs, Numbers
  <2> QED  BY <2>1, <2>2
<1>3. FadedBy(c.relayed, now)
  <2>1. RelayedBy(c.relayed, e, 0, now)  BY DEF Settled
  <2>2. CASE e # Nil /\ c.relayed <= e.relayed
    <3>1. e.relayed \in Nat  BY <2>2, NowIs, EntryTimes
    <3> QED  BY <1>1, <2>2, <3>1, NowIs, Numbers DEF FadedBy
  <2>3. CASE c.relayed <= 0  BY <1>1, <2>3 DEF FadedBy
  <2> QED  BY <2>1, <2>2, <2>3 DEF RelayedBy
<1> QED  BY <1>2, <1>3 DEF GoneBy

\* A node that a poll with every broker does not present, for no reason of the fence,
\* has run out of every clock.
LEMMA AbsentFromPoll ==
    ASSUME Types, RelayPresence > 0, NEW n \in Home, PollSnapshot, poll.registryLive,
           Active(n), Merging[n] = Nil, n \notin Refused(Kept, Enumerated)
    PROVE  /\ relaySeen[n] = 0
           /\ Kept[n] # Nil => now - Kept[n].heard > GraceFloor /\ FadedBy(Kept[n].relayed, now)
<1>1. n \in Key  BY DEF Home
<1>2. n \notin HeardNow \cup Monitored \cup Revived
  <2> DEFINE S == HeardNow \cup Monitored \cup Revived
             m == [mqtt |-> IF n \in HeardNow THEN Kept[n] ELSE Nil,
                   reports |-> IF n \in Revived THEN {} ELSE ReportsOf(n)]
  <2>1. Merging[n] = IF n \notin S THEN Nil ELSE m  BY <1>1 DEF Merging
  <2>2. Kept[n] \in EntriesTo(Past) \cup {Nil}  BY <1>1, KeptType
  <2>3. ReportsOf(n) \in SUBSET ReportsTo(Past)
    <3>1. poll.reports \in SUBSET ReportsTo(Past)  BY DEF Types, TypesTo, PollTo
    <3> QED  BY <3>1 DEF ReportsOf
  <2>4. m \in MergedTo(Past)  BY <2>2, <2>3 DEF MergedTo
  <2> HIDE DEF S, m
  <2>5. n \notin S  BY <2>1, <2>4, NilIsNone
  <2> QED  BY <2>5 DEF S
<1>3. ByID(expired, n) = rows[n] /\ rows[n] # Nil  BY DEF ByID, Active
<1>4. relaySeen[n] = 0
  <2>1. ~RelayRevives(n, Enumerated)  BY <1>1, <1>2 DEF Revived
  <2>2. ~(relaySeen[n] > 0)  BY <1>1, <1>3, <2>1 DEF RelayRevives, Refused
  <2> QED  BY <1>1, <2>2, NodeTimes
<1>5. ASSUME Kept[n] # Nil PROVE now - Kept[n].heard > GraceFloor /\ FadedBy(Kept[n].relayed, now)
  <2>1. Kept[n] = nodes[n] /\ nodes[n] # Nil  BY <1>1, <1>5, KeptNode
  <2>2. n \notin Snapshot(Kept)  BY <1>1, <1>2 DEF HeardNow, Refused
  <2>3. ~Present(Kept[n], now)  BY <1>1, <1>5, <2>2 DEF Snapshot
  <2>4. Kept[n] \in EntriesTo(0 .. now)  BY <1>1, <2>1, NodeTimes
  <2> QED  BY <2>3, <2>4, AbsentNode
<1> QED  BY <1>4, <1>5

LEMMA SnapshotSilence ==
    ASSUME Types, Types', RelayPresence > 0, DeliveryInv, NEW n \in Home, SilentNode(n), PollSnapshot
    PROVE  SilentNode(n)'
<1>1. /\ poll.step = "drained" /\ nodes' = Kept
      /\ poll' = [poll EXCEPT !.step = "snapped", !.refused = Refused(Kept, Enumerated), !.merged = Merging]
      /\ UNCHANGED <<now, activity, clocks, rows, relaySeen>>
  BY SnapshotIs DEF store
<1>2. n \in Key /\ poll \in PollTo(Past)  BY DEF Home, Types, TypesTo
<1>3. /\ poll'.relays = poll.relays /\ poll'.advanced = poll.advanced /\ poll'.deaf = poll.deaf
      /\ poll'.step = "snapped" /\ poll'.merged = Merging /\ poll'.refused = Refused(Kept, Enumerated)
  BY <1>1, <1>2 DEF PollTo
<1>4. Follows(nodes[n], nodes'[n], now) /\ (nodes'[n] # Nil => nodes'[n] = nodes[n])
  BY <1>1, <1>2, KeptNode DEF Follows, Dropped
<1>5. nodes'[n] # Nil => nodes'[n].recv <= nodes'[n].heard  BY <1>4 DEF SilentNode
<1>6. nodes'[n] \in EntriesTo(0 .. now) \cup {Nil}  BY <1>2, <1>4, NodeTimes
<1>7. /\ Settled(clocks[n], nodes'[n], rows[n], relaySeen[n], now)
      /\ Settled(activity[n], nodes'[n], rows[n], relaySeen[n], now)
      /\ Settled(poll.advanced[n], nodes'[n], rows[n], relaySeen[n], now)
      /\ RelayedBy(poll.relays[n], nodes'[n], relaySeen[n], now)
  <2>1. relaySeen[n] >= relaySeen[n]  BY <1>2, NodeTimes
  <2> QED  BY <1>2, <1>4, <1>6, <2>1, NodeTimes, SettledFollows, RelayFollows DEF SilentNode, Accounted
<1>8. Presented(n)' => nodes'[n] # Nil /\ poll'.merged[n].mqtt = nodes'[n]
  BY <1>1, <1>2, <1>3, MergedNode DEF Presented
<1>9. ASSUME AwaitsSweep(n)'
      PROVE  /\ GoneBy(clocks[n], now) /\ GoneBy(activity[n], now) /\ GoneBy(poll.advanced[n], now)
             /\ FadedBy(poll.relays[n], now)
  <2>1. Active(n) /\ Merging[n] = Nil /\ ~poll.deaf /\ n \notin Refused(Kept, Enumerated)
    BY <1>1, <1>3, <1>9 DEF AwaitsSweep, Active
  <2>2. poll.registryLive  BY <1>1, <2>1 DEF DeliveryInv
  <2>3. relaySeen[n] = 0 /\ (nodes'[n] # Nil => now - nodes'[n].heard > GraceFloor /\ FadedBy(nodes'[n].relayed, now))
    BY <1>1, <2>1, <2>2, AbsentFromPoll
  <2>4. rows[n] # Nil  BY <2>1 DEF Active
  <2>5. GoneBy(clocks[n], now) /\ GoneBy(activity[n], now) /\ GoneBy(poll.advanced[n], now)
    BY <1>2, <1>6, <1>7, <2>3, <2>4, NodeTimes, SettledGone
  <2>6. FadedBy(poll.relays[n], now)
    <3>1. PICK x \in Nat : x = poll.relays[n] /\ x <= now  BY <1>2, NodeTimes
    <3>2. RelayedBy(x, nodes'[n], 0, now)  BY <1>7, <2>3, <3>1
    <3>3. CASE nodes'[n] # Nil /\ x <= nodes'[n].relayed
      <4>1. nodes'[n].relayed \in Nat  BY <1>6, <3>3, NowIs, EntryTimes
      <4>2. FadedBy(x, now)  BY <2>3, <3>3, <4>1, NowIs, Numbers DEF FadedBy
      <4> QED  BY <3>1, <4>2
    <3>4. CASE x <= 0  BY <3>1, <3>4 DEF FadedBy
    <3> QED  BY <3>1, <3>2, <3>3, <3>4 DEF RelayedBy
  <2> QED  BY <2>5, <2>6
<1> QED  BY <1>1, <1>3, <1>5, <1>7, <1>8, <1>9 DEF SilentNode, Accounted

LEMMA HandoverIs ==
    ASSUME Types, NEW n \in Key
    PROVE  /\ Handover(n) \in ClocksTo(0 .. now)
           /\ Handover(n).heard = activity[n].heard \/ (Presented(n) /\ Handover(n).heard = poll.merged[n].mqtt.recv)
           /\ Handover(n).relayed = activity[n].relayed \/ Handover(n).relayed = poll.relays[n]
           /\ (poll.merged[n] = Nil /\ ~Active(n)) => Handover(n) = activity[n]
<1> DEFINE m == poll.merged[n]
           covered == m # Nil \/ Active(n)
           heard == IF m # Nil /\ m.mqtt # Nil THEN m.mqtt.recv ELSE 0
<1>1. Handover(n) = IF ~covered THEN activity[n]
                    ELSE [heard |-> Max({activity[n].heard, heard}), relayed |-> Max({activity[n].relayed, poll.relays[n]})]
  BY Zenon DEF Handover
<1>2. heard \in Nat /\ (Presented(n) => heard = poll.merged[n].mqtt.recv) /\ (~Presented(n) => heard = 0)
  BY NodeTimes DEF Presented
<1>3. activity[n].heard \in Nat /\ activity[n].relayed \in Nat /\ poll.relays[n] \in Nat  BY NodeTimes, ClockTimes
<1>4. Max({activity[n].heard, heard}) = (IF activity[n].heard < heard THEN heard ELSE activity[n].heard)
  BY <1>2, <1>3, MaxTwo
<1>5. Max({activity[n].relayed, poll.relays[n]}) =
        (IF activity[n].relayed < poll.relays[n] THEN poll.relays[n] ELSE activity[n].relayed)
  BY <1>3, MaxTwo
<1>6. Handover(n) \in ClocksTo(0 .. now)  BY HandoverType DEF Past
<1> HIDE DEF heard
<1>7. CASE covered
  <2>1. Handover(n).heard = Max({activity[n].heard, heard}) /\ Handover(n).relayed = Max({activity[n].relayed, poll.relays[n]})
    BY <1>1, <1>7
  <2> QED  BY <1>2, <1>3, <1>4, <1>5, <1>6, <1>7, <2>1
<1>8. CASE ~covered  BY <1>1, <1>6, <1>8
<1> QED  BY <1>7, <1>8

LEMMA FinishSilence ==
    ASSUME Types, MapInv, NEW n \in Home, SilentNode(n), PollFinish
    PROVE  SilentNode(n)'
<1>1. n \in Key /\ poll \in PollTo(Past)  BY DEF Home, Types, TypesTo
<1>2. /\ poll.step = "snapped"
      /\ UNCHANGED <<now, nodes, relaySeen, clocks, expired>>
      /\ activity'[n] = Handover(n)
      /\ poll'.step = "polled" /\ poll'.relays = poll.relays /\ poll'.deaf = poll.deaf /\ poll'.merged = poll.merged
      /\ poll'.refused = poll.refused
      /\ poll'.advanced[n] = IF Handover(n) = activity[n] THEN NoClock ELSE Handover(n)
  BY <1>1 DEF PollFinish, PollTo
<1> DEFINE e == nodes[n]
           r == rows'[n]
           seen == relaySeen[n]
<1>3. e \in EntriesTo(0 .. now) \cup {Nil} /\ now \in Nat  BY <1>1, NodeTimes
<1>4. /\ Settled(clocks[n], e, rows[n], seen, now) /\ Settled(activity[n], e, rows[n], seen, now)
      /\ RelayedBy(poll.relays[n], e, seen, now)
  BY DEF SilentNode, Accounted
<1>5. /\ poll.merged[n] = Nil => r = rows[n]
      /\ poll.merged[n] # Nil => r # Nil /\ r.status = "ACTIVE"
      /\ (poll.merged[n] # Nil /\ rows[n] = Nil) => Presented(n)
  BY <1>1, <1>2, FinishRow, NilIsNone, KnownRow DEF MapInv, Presented
<1>6. Presented(n) => /\ poll.merged[n].mqtt.recv \in Nat
                      /\ IF e # Nil THEN poll.merged[n].mqtt.recv <= e.heard ELSE now - poll.merged[n].mqtt.recv > GraceFloor
  BY <1>1, <1>2, NodeTimes DEF SilentNode
<1>7. /\ clocks[n] \in ClocksTo(0 .. now) /\ activity[n] \in ClocksTo(0 .. now) /\ Handover(n) \in ClocksTo(0 .. now)
      /\ NoClock \in ClocksTo(0 .. now)
  BY <1>1, NowIs, NodeTimes, HandoverIs DEF NoClock, ClocksTo, Past
<1>8. ASSUME NEW c \in ClocksTo(0 .. now), Settled(c, e, rows[n], seen, now)
      PROVE  Settled(c, e, r, seen, now)
  <2>1. CASE r = rows[n]  BY <1>8, <2>1
  <2>2. CASE poll.merged[n] # Nil /\ rows[n] # Nil
    BY <1>5, <1>8, <2>2 DEF Settled, HeardBy
  <2>3. CASE poll.merged[n] # Nil /\ rows[n] = Nil
    <3>1. Presented(n) /\ r # Nil /\ r.status = "ACTIVE"  BY <1>5, <2>3
    <3>2. c.heard = 0  BY <1>8, <2>3 DEF Settled, NoClock
    <3>3. e = Nil => now - c.heard > GraceFloor
      <4>1. PICK x \in Nat : x = poll.merged[n].mqtt.recv  BY <1>6, <3>1
      <4> QED  BY <1>3, <1>6, <3>1, <3>2, <4>1, Numbers
    <3> QED  BY <1>8, <3>1, <3>3 DEF Settled, HeardBy
  <2> QED  BY <1>5, <2>1, <2>2, <2>3
<1>9. Settled(clocks[n], e, r, seen, now) /\ Settled(activity[n], e, r, seen, now) /\ Settled(NoClock, e, r, seen, now)
  <2>1. Settled(NoClock, e, rows[n], seen, now)  BY <1>3, <1>4, <1>7, SettledNone
  <2> QED  BY <1>4, <1>7, <1>8, <2>1
<1>10. Settled(Handover(n), e, r, seen, now)
  <2>1. HeardBy(Handover(n).heard, e, r, now)
    <3>1. CASE Handover(n).heard = activity[n].heard  BY <1>9, <3>1 DEF Settled
    <3>2. CASE Presented(n) /\ Handover(n).heard = poll.merged[n].mqtt.recv  BY <1>6, <3>2 DEF HeardBy
    <3> QED  BY <1>1, <3>1, <3>2, HandoverIs
  <2>2. RelayedBy(Handover(n).relayed, e, seen, now)
    <3>1. RelayedBy(activity[n].relayed, e, seen, now)  BY <1>9 DEF Settled
    <3> QED  BY <1>1, <1>4, <3>1, HandoverIs
  <2>3. CASE r # Nil /\ r.status = "ACTIVE"  BY <2>1, <2>2, <2>3 DEF Settled
  <2>4. CASE r = Nil \/ r.status # "ACTIVE"
    <3>1. poll.merged[n] = Nil /\ r = rows[n]  BY <1>5, <2>4
    <3>2. ~Active(n)  BY <2>4, <3>1 DEF Active
    <3>3. Handover(n) = activity[n]  BY <1>1, <3>1, <3>2, HandoverIs
    <3> QED  BY <1>9, <3>3
  <2> QED  BY <2>3, <2>4
<1>11. ASSUME AwaitsSweep(n)'
       PROVE  /\ GoneBy(clocks[n], now) /\ GoneBy(Handover(n), now) /\ GoneBy(NoClock, now)
              /\ FadedBy(poll.relays[n], now)
  <2>1. poll.merged[n] = Nil /\ ~poll.deaf /\ r # Nil /\ r.status = "ACTIVE" /\ n \notin poll.refused
    BY <1>2, <1>11 DEF AwaitsSweep, Active
  <2>2. AwaitsSweep(n)  BY <1>2, <1>5, <2>1 DEF AwaitsSweep, Active
  <2>3. GoneBy(clocks[n], now) /\ GoneBy(activity[n], now) /\ FadedBy(poll.relays[n], now)  BY <2>2 DEF SilentNode
  <2>4. ~Presented(n)  BY <2>1 DEF Presented
  <2>5. GoneBy(Handover(n), now)  BY <1>1, <2>3, <2>4, HandoverIs DEF GoneBy
  <2>6. GoneBy(NoClock, now)
    <3>1. clocks[n].heard \in Nat  BY <1>3, <1>7, ClockTimes
    <3> QED  BY <1>3, <2>3, <3>1, Numbers DEF GoneBy, FadedBy, NoClock
  <2> QED  BY <2>3, <2>5, <2>6
<1> HIDE DEF e, r, seen
<1>12. SilentNode(n)'
  <2>1. Accounted(n, clocks[n])' /\ Accounted(n, activity[n])' /\ Accounted(n, poll.advanced[n])'
    BY <1>2, <1>9, <1>10 DEF Accounted, e, r, seen
  <2>2. RelayedBy(poll.relays[n], nodes[n], relaySeen[n], now)'  BY <1>2, <1>4 DEF e, seen
  <2>3. nodes'[n] # Nil => nodes'[n].recv <= nodes'[n].heard  BY <1>2 DEF SilentNode
  <2> QED  BY <1>2, <1>11, <2>1, <2>2, <2>3 DEF SilentNode
<1> QED  BY <1>12

LEMMA RecordSilence ==
    ASSUME Types, NEW n \in Home, SilentNode(n), RecordMeshTick
    PROVE  SilentNode(n)'
<1>1. n \in Key /\ poll \in PollTo(Past)  BY DEF Home, Types, TypesTo
<1>2. /\ poll.step = "polled"
      /\ UNCHANGED <<now, nodes, relaySeen, activity, rows>>
      /\ clocks'[n] = Merge(clocks[n], poll.advanced[n])
      /\ poll'.step = "recorded" /\ poll'.relays = poll.relays /\ poll'.deaf = poll.deaf /\ poll'.merged = poll.merged
      /\ poll'.refused = poll.refused
      /\ poll'.advanced = poll.advanced
  BY <1>1 DEF RecordMeshTick, registry, PollTo
<1> DEFINE c == Merge(clocks[n], poll.advanced[n])
<1>3. c \in ClocksTo(0 .. now) /\ c.heard \in {clocks[n].heard, poll.advanced[n].heard}
      /\ c.relayed \in {clocks[n].relayed, poll.advanced[n].relayed}
  <2>1. clocks[n] \in ClocksTo(Past) /\ poll.advanced[n] \in ClocksTo(Past)  BY <1>1, NodeTimes DEF Past
  <2> QED  BY <2>1, MergeType DEF Past
<1> HIDE DEF c
<1>4. Accounted(n, c)  BY <1>1, <1>3, NodeTimes, SettledBoth DEF SilentNode, Accounted
<1>5. AwaitsSweep(n)' => AwaitsSweep(n)  BY <1>2 DEF AwaitsSweep, Active
<1>6. AwaitsSweep(n) => GoneBy(c, now)  BY <1>3 DEF SilentNode, GoneBy
<1>7. c = clocks'[n]  BY <1>2 DEF c
<1> QED  BY <1>2, <1>4, <1>5, <1>6, <1>7 DEF SilentNode, Accounted

LEMMA UnwrittenSilence ==
    ASSUME Types, NEW n \in Home, SilentNode(n), MeshTickUnwritten
    PROVE  SilentNode(n)'
<1>1. n \in Key /\ poll \in PollTo(Past)  BY DEF Home, Types, TypesTo
<1>2. /\ poll.step = "polled"
      /\ UNCHANGED <<now, nodes, relaySeen, clocks, rows>>
      /\ activity'[n] = NoClock
      /\ poll'.step = "recorded" /\ poll'.relays = poll.relays /\ poll'.deaf = poll.deaf /\ poll'.merged = poll.merged
      /\ poll'.refused = poll.refused
      /\ poll'.advanced = poll.advanced
  BY <1>1 DEF MeshTickUnwritten, ForgetMeshActivity, NoActivity, registry, store, PollTo
<1>3. Accounted(n, NoClock)  BY <1>1, NodeTimes, SettledNone DEF SilentNode, Accounted
<1>4. AwaitsSweep(n)' => AwaitsSweep(n)  BY <1>2 DEF AwaitsSweep, Active
<1>5. GoneBy(clocks[n], now) => GoneBy(NoClock, now)
  <2>1. clocks[n].heard \in Nat  BY <1>1, NodeTimes, ClockTimes
  <2> QED  BY <2>1, NowIs, Numbers DEF GoneBy, FadedBy, NoClock
<1> QED  BY <1>2, <1>3, <1>4, <1>5 DEF SilentNode, Accounted

LEMMA SweepSilence ==
    ASSUME Types, SilenceInv, NEW n \in Home', SweepDisappeared
    PROVE  SilentNode(n)'
<1>1. n \in Key /\ n \notin strayed'  BY DEF Home
<1>2. /\ poll.step = "recorded" /\ UNCHANGED <<now, nodes, relaySeen, clocks, activity>> /\ poll' = NoPoll
      /\ strayed' = {k \in strayed : ~Forgotten(k)} \cup {k \in poll.refused : rows'[k].status = "EXPIRED"}
  BY DEF SweepDisappeared, registry
<1>3. poll'.step = "idle" /\ poll'.relays[n] = 0 /\ poll'.advanced[n] = NoClock  BY <1>1, <1>2 DEF NoPoll, NoActivity
<1>4. GoneBy(clocks[n], now) => GoneBy(NoClock, now)
  <2>1. clocks[n].heard \in Nat  BY <1>1, NodeTimes, ClockTimes
  <2> QED  BY <2>1, NowIs, Numbers DEF GoneBy, FadedBy, NoClock
<1>5. n \in poll.refused => rows'[n] = rows[n]  BY <1>1, <1>2, SweptRow
<1>6. /\ \A c \in {clocks[n], activity[n], NoClock} : Settled(c, nodes[n], rows'[n], relaySeen[n], now)
      /\ nodes[n] # Nil => nodes[n].recv <= nodes[n].heard
  <2>1. CASE n \notin strayed
    <3>1. SilentNode(n)  BY <1>1, <2>1 DEF SilenceInv, Home
    <3>2. Settled(NoClock, nodes[n], rows[n], relaySeen[n], now)
      BY <1>1, <3>1, NodeTimes, SettledNone DEF SilentNode, Accounted
    <3>3. ASSUME NEW c \in {clocks[n], activity[n], NoClock} PROVE Settled(c, nodes[n], rows'[n], relaySeen[n], now)
      <4>1. Settled(c, nodes[n], rows[n], relaySeen[n], now)  BY <3>1, <3>2 DEF SilentNode, Accounted
      <4>2. CASE rows'[n] = rows[n]  BY <4>1, <4>2
      <4>3. CASE Swept /\ Active(n) /\ poll.merged[n] = Nil /\ n \notin poll.refused
        <5>1. AwaitsSweep(n)  BY <1>2, <4>3 DEF AwaitsSweep, Swept
        <5>2. GoneBy(c, now)  BY <1>4, <3>1, <5>1 DEF SilentNode
        <5>3. CASE rows'[n] = rows[n]  BY <4>1, <5>3
        <5>4. CASE rows'[n] # rows[n]
          <6>1. rows'[n] # Nil /\ rows[n] # Nil  BY <1>1, <4>3, <5>4, SweptRow, NilIsNone DEF Active
          <6> QED  BY <4>1, <5>2, <6>1 DEF Settled, HeardBy
        <5> QED  BY <5>3, <5>4
      <4> QED  BY <1>1, <1>5, <4>2, <4>3, SweptRow
    <3> QED  BY <3>1, <3>3 DEF SilentNode
  <2>2. CASE n \in strayed
    <3>1. Forgotten(n)  BY <1>1, <1>2, <2>2
    <3>2. GoneBy(clocks[n], now) /\ GoneBy(activity[n], now) /\ GoneBy(NoClock, now) /\ nodes[n] = Nil
      BY <1>4, <3>1 DEF Forgotten
    <3>3. rows'[n] # Nil  BY <1>1, <3>1, SweptRow, NilIsNone DEF Forgotten
    <3> QED  BY <3>2, <3>3 DEF Settled, HeardBy, RelayedBy, GoneBy
  <2> QED  BY <2>1, <2>2
<1>7. RelayedBy(poll'.relays[n], nodes[n], relaySeen[n], now)  BY <1>3 DEF RelayedBy, FadedBy
<1> QED  BY <1>2, <1>3, <1>6, <1>7 DEF SilentNode, Accounted, AwaitsSweep

\* Another process knows of each node what the store does.
LEMMA RestartSilence ==
    ASSUME Types, Types', NEW n \in Home, SilentNode(n), Restart
    PROVE  SilentNode(n)'
<1>1. n \in Key  BY DEF Home
<1>2. /\ UNCHANGED <<now, clocks, rows>> /\ activity'[n] = NoClock /\ relaySeen'[n] = 0 /\ poll' = NoPoll
      /\ nodes'[n] = IF Active(n) THEN Seed(n) ELSE Nil
  BY <1>1 DEF Restart, store, NoActivity
<1>3. poll'.step = "idle" /\ poll'.relays[n] = 0 /\ poll'.advanced[n] = NoClock  BY <1>1, <1>2 DEF NoPoll, NoActivity
<1>4. Accounted(n, clocks[n])  BY DEF SilentNode
<1>5. clocks[n] \in ClocksTo(0 .. now) /\ now \in Nat  BY <1>1, NodeTimes
<1>6. clocks[n].heard \in Nat /\ clocks[n].relayed \in Nat  BY <1>5, ClockTimes
<1>7. Settled(clocks[n], nodes'[n], rows[n], 0, now) /\ (nodes'[n] # Nil => nodes'[n].recv <= nodes'[n].heard)
  <2>1. CASE Active(n)
    <3>1. nodes'[n] = Seed(n) /\ nodes'[n] \in EntriesTo(Past)  BY <1>1, <1>2, <2>1, SeedType
    <3>2. nodes'[n] # Nil /\ nodes'[n].heard \in Nat  BY <3>1, NilIsNone, NowIs DEF EntriesTo
    <3>3. nodes'[n].heard >= clocks[n].heard /\ nodes'[n].relayed = clocks[n].relayed /\ nodes'[n].recv <= nodes'[n].heard
      BY <1>1, <2>1, <3>1, SeedType
    <3>4. clocks[n].heard <= nodes'[n].heard /\ clocks[n].relayed <= nodes'[n].relayed  BY <1>6, <3>2, <3>3
    <3> QED  BY <2>1, <3>2, <3>3, <3>4 DEF Settled, HeardBy, RelayedBy, Active
  <2>2. CASE ~Active(n) /\ rows[n] # Nil
    <3>1. GoneBy(clocks[n], now)  BY <1>4, <2>2 DEF Accounted, Settled, Active
    <3> QED  BY <1>2, <2>2, <3>1 DEF Settled, HeardBy, RelayedBy, GoneBy
  <2>3. CASE rows[n] = Nil
    <3>1. clocks[n] = NoClock  BY <1>4, <2>3 DEF Accounted, Settled
    <3>2. nodes'[n] = Nil  BY <1>2, <2>3 DEF Active
    <3> QED  BY <2>3, <3>1, <3>2 DEF Settled, HeardBy, RelayedBy, FadedBy, NoClock
  <2> QED  BY <2>1, <2>2, <2>3
<1>8. nodes'[n] \in EntriesTo(0 .. now) \cup {Nil}  BY <1>1, <1>2 DEF Types, TypesTo, RegistryTypes, Past
<1>9. Settled(NoClock, nodes'[n], rows[n], 0, now)  BY <1>5, <1>7, <1>8, SettledNone
<1>10. RelayedBy(0, nodes'[n], 0, now)  BY DEF RelayedBy, FadedBy
<1> QED  BY <1>2, <1>3, <1>7, <1>9, <1>10 DEF SilentNode, Accounted, AwaitsSweep

\* What the theorem on the sweep asks of a deployment: relays and silence count, and
\* there is a broker.
Deployed == Broker # {} /\ SilenceAfter > 0 /\ RelayPresence > 0

\* Only a sweep lets a node stray, or takes it back.
LEMMA StrayedSame ==
    ASSUME [Next]_vars, ~SweepDisappeared
    PROVE  strayed' = strayed
<1>1. CASE PollDrain \/ PollFinish \/ RecordMeshTick \/ MeshTickUnwritten
  BY <1>1 DEF PollDrain, PollFinish, RecordMeshTick, MeshTickUnwritten, bounds
<1>2. CASE PollSnapshot  BY <1>2, SnapshotIs DEF bounds
<1>3. CASE \E b \in Broker : SessionOpens(b) \/ SessionLost(b)  BY <1>3 DEF SessionOpens, SessionLost, bounds
<1>4. CASE \E b \in Broker, p \in Packet : OnMessage(b, p)  BY <1>4 DEF OnMessage
<1>5. CASE \E r \in Reporter, p \in Packet : PostPackets(r, p)  BY <1>5 DEF PostPackets
<1>6. CASE \E r \in Reporter, ids \in Listing : \E success \in {report[r].success, now} : PostReport(r, ids, success)
  BY <1>6 DEF PostReport
<1>7. CASE Restart \/ SeedNeighbours \/ Clock \/ UNCHANGED vars
  BY <1>7 DEF Restart, SeedNeighbours, Clock, vars, bounds
<1> QED  BY <1>1, <1>2, <1>3, <1>4, <1>5, <1>6, <1>7 DEF Next, Poll

LEMMA StepSilence ==
    Deployed /\ Types /\ MapInv /\ DeliveryInv /\ SilenceInv /\ [Next]_vars => SilenceInv'
<1> SUFFICES ASSUME Deployed, Types, MapInv, DeliveryInv, SilenceInv, [Next]_vars, NEW n \in Home'
             PROVE  SilentNode(n)'
  BY DEF SilenceInv
<1>0. CASE SweepDisappeared  BY <1>0, SweepSilence
<1> SUFFICES ASSUME ~SweepDisappeared PROVE SilentNode(n)'  BY <1>0
<1>1. Types' /\ n \in Home /\ SilentNode(n) /\ n \in Key  BY StepTypes, StrayedSame DEF SilenceInv, Home
<1>2. CASE UNCHANGED <<now, nodes, poll, activity, clocks, relaySeen, rows>>
  BY <1>1, <1>2, MovedSilence DEF Follows, SilentNode
<1>3. CASE \E b \in Broker, p \in Packet : OnMessage(b, p)
  BY <1>1, <1>3, ArrivalSilence DEF OnMessage, Door, normalizer, store
<1>4. CASE \E r \in Reporter, p \in Packet : PostPackets(r, p)
  BY <1>1, <1>4, ArrivalSilence DEF PostPackets, Door, normalizer, store
<1>5. CASE PollDrain  BY <1>1, <1>5, DrainSilence DEF Deployed
<1>6. CASE PollSnapshot  BY <1>1, <1>6, SnapshotSilence DEF Deployed
<1>7. CASE PollFinish  BY <1>1, <1>7, FinishSilence
<1>8. CASE RecordMeshTick  BY <1>1, <1>8, RecordSilence
<1>9. CASE MeshTickUnwritten  BY <1>1, <1>9, UnwrittenSilence
<1>10. CASE Restart  BY <1>1, <1>10, RestartSilence
<1>11. CASE Clock
  <2>1. now' \in Nat /\ now' >= now  BY <1>11, NowIs DEF Clock
  <2> QED  BY <1>1, <1>11, <2>1, ClockSilence DEF Clock, registry, normalizer, store
<1>12. CASE \E b \in Broker : SessionOpens(b) \/ SessionLost(b)
  BY <1>2, <1>12 DEF SessionOpens, SessionLost, normalizer, store
<1>13. CASE \E r \in Reporter, ids \in Listing : \E success \in {report[r].success, now} : PostReport(r, ids, success)
  BY <1>2, <1>13 DEF PostReport, registry, normalizer, store
<1>14. CASE SeedNeighbours \/ UNCHANGED vars
  BY <1>2, <1>14 DEF SeedNeighbours, vars, registry, normalizer, store
<1> QED  BY <1>3, <1>4, <1>5, <1>6, <1>7, <1>8, <1>9, <1>10, <1>11, <1>12, <1>13, <1>14 DEF Next, Poll

\* Only the sweep expires.
LEMMA ExpiredBySweep ==
    ASSUME Types, [Next]_vars, NEW n \in Key, Active(n), rows'[n].status = "EXPIRED"
    PROVE  SweepDisappeared /\ Swept /\ poll.merged[n] = Nil
<1>1. rows'[n] # rows[n]  BY DEF Active
<1>2. ~PollFinish
  <2>1. ASSUME PollFinish PROVE FALSE
    <3>1. poll.merged[n] # Nil  BY <1>1, <2>1, FinishRow
    <3>2. rows'[n].status = "ACTIVE"  BY <2>1, <3>1, FinishRow
    <3> QED  BY <3>2
  <2> QED  BY <2>1
<1>3. rows' # rows  BY <1>1
<1>4. ~(PollDrain \/ PollSnapshot)  BY <1>3, DrainIs, SnapshotIs DEF store
<1>5. ~(RecordMeshTick \/ MeshTickUnwritten \/ Restart \/ SeedNeighbours \/ Clock \/ UNCHANGED vars)
  BY <1>3 DEF RecordMeshTick, MeshTickUnwritten, Restart, SeedNeighbours, Clock, vars, store
<1>6. ~ \E b \in Broker : SessionOpens(b) \/ SessionLost(b) \/ \E p \in Packet : OnMessage(b, p)
  BY <1>3 DEF SessionOpens, SessionLost, OnMessage, store
<1>7. ~ \E r \in Reporter, p \in Packet : PostPackets(r, p)  BY <1>3 DEF PostPackets, store
<1>8. ~ \E r \in Reporter, ids \in Listing : \E success \in {report[r].success, now} : PostReport(r, ids, success)
  BY <1>3 DEF PostReport, store
<1>9. SweepDisappeared  BY <1>2, <1>4, <1>5, <1>6, <1>7, <1>8 DEF Next, Poll
<1> QED  BY <1>1, <1>9, SweptRow

\* The sweep expires a node only when the silence is the node's own: all brokers were
\* delivering when the poll began, and neither an advert nor a relay of it that the
\* store has is recent.  Or the fence kept it out, of this poll or of an earlier one.
THEOREM ExpiryTheorem == ASSUME Deployed PROVE Spec => ExpiresOnlyTheSilent
<1>1. Types /\ DeliveryInv /\ SilenceInv /\ [Next]_vars =>
        [\A n \in Key :
           (Active(n) /\ rows'[n].status = "EXPIRED" /\ n \notin strayed \cup poll.refused)
           => /\ \A b \in Broker : poll.began - Max({link[b].last, link[b].started}) <= SilenceAfter
              /\ GoneBy(clocks[n], now)]_vars
  <2> SUFFICES ASSUME Types, DeliveryInv, SilenceInv, Next, NEW n \in Key,
                      Active(n), rows'[n].status = "EXPIRED", n \notin strayed, n \notin poll.refused
               PROVE  /\ \A b \in Broker : poll.began - Max({link[b].last, link[b].started}) <= SilenceAfter
                      /\ GoneBy(clocks[n], now)
    OBVIOUS
  <2>1. SweepDisappeared /\ Swept /\ poll.merged[n] = Nil  BY ExpiredBySweep
  <2>2. poll.step = "recorded" /\ ~poll.deaf  BY <2>1 DEF SweepDisappeared, Swept
  <2>3. \A b \in Broker : poll.began - Max({link[b].last, link[b].started}) <= SilenceAfter
    BY <2>2 DEF DeliveryInv, BrokerHeard
  <2>4. AwaitsSweep(n)  BY <2>1, <2>2 DEF AwaitsSweep
  <2>5. GoneBy(clocks[n], now)  BY <2>4 DEF SilenceInv, SilentNode, Home
  <2> QED  BY <2>3, <2>5
<1>2. Init => DeliveryInv /\ SilenceInv
  BY InitSilence DEF Init, NoPoll, DeliveryInv
<1>3. Types /\ MapInv /\ DeliveryInv /\ SilenceInv /\ [Next]_vars => DeliveryInv' /\ SilenceInv'
  BY StepDelivery, StepSilence DEF Deployed
<1> QED  BY <1>1, <1>2, <1>3, AlwaysTypes, AlwaysMap, PTL DEF Spec, ExpiresOnlyTheSilent
=============================================================================
