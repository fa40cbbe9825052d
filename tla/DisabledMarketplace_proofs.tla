--------------------- MODULE DisabledMarketplace_proofs ---------------------
(***************************************************************************)
(* Proofs about DisabledMarketplace: its type invariant, and that the      *)
(* consumer's copy of the table is the table once every change has been    *)
(* consumed, for any marketplaces, workers, callers and faults; that with  *)
(* one worker the oldest of the postponed events are replayed; and that no *)
(* event disappears between the lists.                                     *)
(***************************************************************************)
EXTENDS DisabledMarketplace, SequenceTheorems, FiniteSetTheorems, TLAPS

\* A worker at work has a block, and holds a copy of the table only while it
\* reads one of its lists.
SlotFine(s) == /\ s.pc # "idle" => s.hash \in Blocks
               /\ s.table # None => s.pc \in Reading

\* A call in hand has a number and rows; it has a part exactly while it
\* replays it.
CallFine(k) == /\ k.pc # "idle" => k.number \in 1..MaxCalls /\ k.rows # {}
               /\ k.part # None => k.pc = "replay"
               /\ k.pc = "replay" => k.part \in Part

Fine == (\A w \in Workers : SlotFine(slot[w])) /\ (\A c \in Callers : CallFine(call[c]))

\* A copy on its way to the cache is the table, unless a save came after it.
InFlightFresh == \A w \in Workers : slot[w].table # None => raced \/ slot[w].table = rows

\* The cached copy is the table, or somebody will still clear it.
CachedFresh == \/ cached \in {None, rows} \/ changes > 0 \/ raced \/ lost
               \/ \E c \in Callers : call[c].pc = "publish"

IndInv == TypeOK /\ Fine /\ InFlightFresh /\ CachedFresh

-----------------------------------------------------------------------------
\* The parts of the type invariant, by what the actions change.
BlocksTyped == chain \in Seq(SUBSET Addresses) /\ Len(chain) <= MaxBlocks /\ pending \subseteq DOMAIN chain
SlotsTyped  == slot \in [Workers -> Slot] /\ \A w \in Workers : SlotFine(slot[w])
CallsTyped  == call \in [Callers -> Call] /\ \A c \in Callers : CallFine(call[c])
TablesTyped == /\ rows \in Table /\ cached \in Table \cup {None}
               /\ changes \in Nat /\ postponed \in Seq(Part)
CountsTyped == calls \in 0..MaxCalls /\ faults \in 0..MaxFaults /\ dead \subseteq Blocks /\ crashed \in BOOLEAN
PastTyped   == /\ handled \in Seq(Entry) /\ discarded \subseteq [by : 1..MaxCalls, part : Part]
               /\ torn \subseteq Blocks /\ {raced, lost} \subseteq BOOLEAN

LEMMA Parts ==
  IndInv <=> /\ BlocksTyped /\ SlotsTyped /\ CallsTyped /\ TablesTyped /\ CountsTyped /\ PastTyped
             /\ InFlightFresh /\ CachedFresh
  BY DEF IndInv, TypeOK, Fine, BlocksTyped, SlotsTyped, CallsTyped, TablesTyped, CountsTyped, PastTyped

LEMMA PartsNext ==
  ASSUME BlocksTyped', SlotsTyped', CallsTyped', TablesTyped', CountsTyped', PastTyped',
         InFlightFresh', CachedFresh'
  PROVE  IndInv'
  BY DEF IndInv, TypeOK, Fine, BlocksTyped, SlotsTyped, CallsTyped, TablesTyped, CountsTyped, PastTyped

LEMMA Bounds == MaxBlocks \in Nat /\ MaxCalls \in Nat /\ MaxFaults \in Nat
  BY MarketplacesAssumption

LEMMA IdleTyped ==
  /\ IdleSlot \in Slot /\ SlotFine(IdleSlot) /\ IdleSlot.table = None
  /\ IdleCall \in Call /\ CallFine(IdleCall) /\ IdleCall.part = None
<1>1. IdleSlot \in Slot
  BY Bounds DEF IdleSlot, Slot, PC
<1>2. IdleCall \in Call
  BY Bounds DEF IdleCall, Call, Op, State
<1> QED BY <1>1, <1>2 DEF IdleSlot, IdleCall, SlotFine, CallFine

\* One worker, or one call, goes on.
LEMMA SlotGoesOn ==
  ASSUME SlotsTyped, NEW w \in Workers, NEW s \in Slot, SlotFine(s),
         slot' = [slot EXCEPT ![w] = s]
  PROVE  SlotsTyped' /\ slot'[w] = s /\ \A v \in Workers : v # w => slot'[v] = slot[v]
  BY DEF SlotsTyped

LEMMA CallGoesOn ==
  ASSUME CallsTyped, NEW c \in Callers, NEW k \in Call, CallFine(k),
         call' = [call EXCEPT ![c] = k]
  PROVE  CallsTyped' /\ call'[c] = k /\ \A d \in Callers : d # c => call'[d] = call[d]
  BY DEF CallsTyped

\* Nothing the cache depends on has changed.
LEMMA StillFresh ==
  ASSUME InFlightFresh, CachedFresh, UNCHANGED <<rows, cached, changes, raced, lost>>,
         \A w \in Workers : slot'[w].table = None \/ slot'[w].table = slot[w].table,
         \A c \in Callers : call[c].pc = "publish" => call'[c].pc = "publish"
  PROVE  InFlightFresh' /\ CachedFresh'
<1>1. InFlightFresh'
  BY DEF InFlightFresh
<1>2. CachedFresh'
  BY DEF CachedFresh
<1> QED BY <1>1, <1>2

LEMMA InitKept == Init => IndInv
<1> SUFFICES ASSUME Init PROVE IndInv
  OBVIOUS
<1>1. BlocksTyped /\ TablesTyped /\ CountsTyped /\ PastTyped
  <2>1. BlocksTyped
    BY Bounds DEF Init, BlocksTyped
  <2>2. TablesTyped
    BY DEF Init, TablesTyped, Table, State
  <2>3. CountsTyped
    <3>1. calls \in 0..MaxCalls /\ faults \in 0..MaxFaults /\ dead \subseteq Blocks
      BY Bounds DEF Init
    <3>2. crashed \in BOOLEAN
      BY Zenon DEF Init
    <3> QED BY <3>1, <3>2 DEF CountsTyped
  <2>4. PastTyped
    <3>1. handled \in Seq(Entry) /\ torn \subseteq Blocks
      BY DEF Init
    <3>2. {raced, lost} \subseteq BOOLEAN
      BY Zenon DEF Init
    <3>3. discarded = {}
      BY DEF Init
    <3> QED BY <3>1, <3>2, <3>3 DEF PastTyped
  <2> QED BY <2>1, <2>2, <2>3, <2>4
<1>2. SlotsTyped /\ CallsTyped
  BY IdleTyped DEF Init, SlotsTyped, CallsTyped
<1>3. InFlightFresh /\ CachedFresh
  BY IdleTyped DEF Init, InFlightFresh, CachedFresh
<1> QED BY <1>1, <1>2, <1>3, Parts

-----------------------------------------------------------------------------
(* Blocks                                                                    *)

LEMMA EmitKept ==
  ASSUME IndInv, NEW at \in SUBSET Addresses, Emit(at) PROVE IndInv'
<1>0. /\ BlocksTyped /\ SlotsTyped /\ CallsTyped /\ TablesTyped /\ CountsTyped /\ PastTyped
      /\ InFlightFresh /\ CachedFresh
  BY Parts
<1>1. /\ Len(chain) < MaxBlocks /\ chain' = Append(chain, at)
      /\ pending' = pending \cup {Len(chain) + 1}
      /\ UNCHANGED <<slot, rows, cached, changes, postponed, call, calls, faults, dead, crashed,
                     handled, discarded, torn, raced, lost>>
  BY DEF Emit, faultVars, historyVars
<1>2. BlocksTyped'
  BY <1>0, <1>1, Bounds DEF BlocksTyped
<1>3. SlotsTyped' /\ CallsTyped' /\ TablesTyped' /\ CountsTyped' /\ PastTyped'
  BY <1>0, <1>1 DEF SlotsTyped, CallsTyped, TablesTyped, CountsTyped, PastTyped
<1>4. InFlightFresh' /\ CachedFresh'
  BY <1>0, <1>1 DEF InFlightFresh, CachedFresh
<1> QED BY <1>2, <1>3, <1>4, PartsNext

\* A worker's step that leaves the tables, the calls and the cache alone.
LEMMA WorkerStep ==
  ASSUME IndInv, NEW w \in Workers, NEW s \in Slot, SlotFine(s), slot' = [slot EXCEPT ![w] = s],
         s.table = None \/ s.table = slot[w].table,
         UNCHANGED <<chain, rows, cached, changes, call, calls, faults, crashed, raced, lost>>,
         pending' \subseteq pending, postponed' \in Seq(Part), dead' \subseteq Blocks,
         handled' \in Seq(Entry), discarded' = discarded, torn' \subseteq Blocks
  PROVE  IndInv'
<1>0. /\ BlocksTyped /\ SlotsTyped /\ CallsTyped /\ TablesTyped /\ CountsTyped /\ PastTyped
      /\ InFlightFresh /\ CachedFresh
  BY Parts
<1>1. SlotsTyped' /\ slot'[w] = s /\ \A v \in Workers : v # w => slot'[v] = slot[v]
  BY <1>0, SlotGoesOn
<1>2. InFlightFresh' /\ CachedFresh'
  BY <1>0, <1>1, StillFresh
<1>3. BlocksTyped' /\ CallsTyped'
  BY <1>0 DEF BlocksTyped, CallsTyped
<1>4. TablesTyped' /\ CountsTyped' /\ PastTyped'
  BY <1>0 DEF TablesTyped, CountsTyped, PastTyped
<1> QED BY <1>1, <1>2, <1>3, <1>4, PartsNext

\* What the invariant says of a worker.
LEMMA SlotFacts ==
  ASSUME IndInv, NEW w \in Workers
  PROVE  slot[w] \in Slot /\ SlotFine(slot[w]) /\ slot \in [Workers -> Slot]
  BY Parts DEF SlotsTyped

LEMMA TakeKept ==
  ASSUME IndInv, NEW w \in Workers, Take(w) PROVE IndInv'
<1>1. PICK h \in pending : slot' = [slot EXCEPT ![w] = [IdleSlot EXCEPT !.hash = h, !.pc = "internal"]]
  BY DEF Take
<1> DEFINE s == [IdleSlot EXCEPT !.hash = h, !.pc = "internal"]
<1>2. h \in Blocks
  <2>1. h \in DOMAIN chain /\ chain \in Seq(SUBSET Addresses) /\ Len(chain) <= MaxBlocks
    BY Parts DEF BlocksTyped
  <2> QED BY <2>1, Bounds DEF Blocks
<1>3. s \in Slot /\ SlotFine(s) /\ s.table = None
  <2>1. s.hash = h /\ s.pc = "internal" /\ s.table = None
    BY DEF IdleSlot
  <2>2. h \in 0..MaxBlocks /\ "internal" \in PC
    BY <1>2, Bounds DEF Blocks, PC
  <2>3. s \in Slot
    BY <2>2, IdleTyped DEF Slot
  <2>4. SlotFine(s)
    BY <1>2, <2>1 DEF SlotFine
  <2> QED BY <2>1, <2>3, <2>4
<1> HIDE DEF s
<1>4. UNCHANGED <<chain, pending, rows, cached, changes, postponed, call, calls, faults, dead,
                  crashed, handled, discarded, torn, raced, lost>>
  BY DEF Take, faultVars, historyVars
<1>5. postponed \in Seq(Part) /\ dead \subseteq Blocks /\ handled \in Seq(Entry) /\ torn \subseteq Blocks
  BY Parts DEF TablesTyped, CountsTyped, PastTyped
<1>6. slot' = [slot EXCEPT ![w] = s]
  BY <1>1 DEF s
<1> QED BY <1>3, <1>4, <1>5, <1>6, WorkerStep

\* The lists are contracts.
LEMMA ListsTyped ==
  ASSUME NEW t \in Table
  PROVE  /\ At(t, "Enable", Internal) \subseteq Addresses /\ At(t, "Enable", External) \subseteq Addresses
         /\ DisabledAt(t) \subseteq Addresses
  BY MarketplacesAssumption DEF At, DisabledAt, Internal

LEMMA ListedTyped ==
  ASSUME NEW s \in Slot, SlotFine(s), s.pc \in Reading, NEW t \in Table
  PROVE  Listed(s, t) \in Slot /\ SlotFine(Listed(s, t)) /\ Listed(s, t).table = None
<1> DEFINE at == CASE s.pc = "internal" -> [s EXCEPT !.internal = At(t, "Enable", Internal)]
                   [] s.pc = "external" -> [s EXCEPT !.external = At(t, "Enable", External)]
                   [] s.pc = "disabled" -> [s EXCEPT !.disabled = DisabledAt(t)]
<1>1. at \in Slot /\ at.hash = s.hash
  <2>1. CASE s.pc = "internal"
    <3>1. at = [s EXCEPT !.internal = At(t, "Enable", Internal)]
      BY <2>1
    <3> HIDE DEF at
    <3> QED BY <3>1, ListsTyped DEF Slot
  <2>2. CASE s.pc = "external"
    <3>1. at = [s EXCEPT !.external = At(t, "Enable", External)]
      BY <2>2
    <3> HIDE DEF at
    <3> QED BY <3>1, ListsTyped DEF Slot
  <2>3. CASE s.pc = "disabled"
    <3>1. at = [s EXCEPT !.disabled = DisabledAt(t)]
      BY <2>3
    <3> HIDE DEF at
    <3> QED BY <3>1, ListsTyped DEF Slot
  <2> QED BY <2>1, <2>2, <2>3 DEF Reading
<1>2. Listed(s, t) = [at EXCEPT !.pc = NextPC[s.pc], !.table = None, !.seen = @ \cup {t}]
  BY Zenon DEF Listed
<1>3. NextPC[s.pc] \in PC \ {"idle"}
  BY DEF NextPC, PC, Reading
<1> HIDE DEF at
<1>4. Listed(s, t) \in Slot
  <2>1. at.seen \cup {t} \in SUBSET Table
    BY <1>1 DEF Slot
  <2> QED BY <1>1, <1>2, <1>3, <2>1 DEF Slot
<1>5. Listed(s, t).hash = s.hash /\ Listed(s, t).table = None
  BY <1>1, <1>2 DEF Slot
<1>6. s.hash \in Blocks
  BY DEF SlotFine, Reading
<1>7. SlotFine(Listed(s, t))
  BY <1>5, <1>6 DEF SlotFine
<1> QED BY <1>4, <1>5, <1>7

LEMMA TornTyped ==
  ASSUME IndInv, NEW w \in Workers, slot[w].pc # "idle", TornBy(w)
  PROVE  torn' \subseteq Blocks
<1>1. slot[w].hash \in Blocks /\ torn \subseteq Blocks
  BY SlotFacts, Parts DEF SlotFine, PastTyped
<1> QED BY <1>1 DEF TornBy

LEMMA PastFacts ==
  IndInv => /\ postponed \in Seq(Part) /\ dead \subseteq Blocks /\ handled \in Seq(Entry)
            /\ torn \subseteq Blocks /\ rows \in Table /\ cached \in Table \cup {None}
  BY Parts DEF TablesTyped, CountsTyped, PastTyped

LEMMA ListFromCacheKept ==
  ASSUME IndInv, NEW w \in Workers, ListFromCache(w) PROVE IndInv'
<1> DEFINE s == Listed(slot[w], cached)
<1>1. /\ slot[w].pc \in Reading /\ cached \in Table
      /\ slot' = [slot EXCEPT ![w] = s] /\ TornBy(w)
      /\ UNCHANGED <<chain, pending, rows, cached, changes, postponed, call, calls, faults, dead,
                     crashed, handled, discarded, raced, lost>>
  BY PastFacts, SlotFacts DEF ListFromCache, faultVars
<1>2. s \in Slot /\ SlotFine(s) /\ s.table = None
  BY <1>1, SlotFacts, ListedTyped
<1>3. torn' \subseteq Blocks
  BY <1>1, TornTyped DEF Reading
<1> HIDE DEF s
<1> QED BY <1>1, <1>2, <1>3, PastFacts, WorkerStep

LEMMA FetchTableKept ==
  ASSUME IndInv, NEW w \in Workers, FetchTable(w) PROVE IndInv'
<1>0. /\ BlocksTyped /\ SlotsTyped /\ CallsTyped /\ TablesTyped /\ CountsTyped /\ PastTyped
      /\ InFlightFresh /\ CachedFresh
  BY Parts
<1> DEFINE s == [slot[w] EXCEPT !.table = rows]
<1>1. /\ slot[w].pc \in Reading /\ slot' = [slot EXCEPT ![w] = s]
      /\ UNCHANGED <<chain, pending, rows, cached, changes, postponed, call, calls, faults, dead,
                     crashed, handled, discarded, torn, raced, lost>>
  BY SlotFacts DEF FetchTable, faultVars, historyVars
<1>2. s \in Slot /\ s.pc = slot[w].pc /\ s.hash = slot[w].hash /\ s.table = rows
  BY SlotFacts, PastFacts DEF Slot
<1>3. SlotFine(s)
  BY <1>1, <1>2, SlotFacts DEF SlotFine
<1> HIDE DEF s
<1>4. SlotsTyped' /\ slot'[w] = s /\ \A v \in Workers : v # w => slot'[v] = slot[v]
  BY <1>0, <1>1, <1>2, <1>3, SlotGoesOn
<1>5. InFlightFresh'
  BY <1>0, <1>1, <1>2, <1>4 DEF InFlightFresh
<1>6. CachedFresh'
  BY <1>0, <1>1 DEF CachedFresh
<1>7. BlocksTyped' /\ CallsTyped' /\ TablesTyped' /\ CountsTyped' /\ PastTyped'
  BY <1>0, <1>1 DEF BlocksTyped, CallsTyped, TablesTyped, CountsTyped, PastTyped
<1> QED BY <1>4, <1>5, <1>6, <1>7, PartsNext

\* The copy goes to the cache: it is the table, or a save came after it.
LEMMA FillCacheKept ==
  ASSUME IndInv, NEW w \in Workers, FillCache(w) PROVE IndInv'
<1>0. /\ BlocksTyped /\ SlotsTyped /\ CallsTyped /\ TablesTyped /\ CountsTyped /\ PastTyped
      /\ InFlightFresh /\ CachedFresh
  BY Parts
<1> DEFINE t == slot[w].table
           s == Listed(slot[w], t)
<1>1. /\ t # None /\ cached' = t /\ slot' = [slot EXCEPT ![w] = s] /\ TornBy(w)
      /\ UNCHANGED <<chain, pending, rows, changes, postponed, call, calls, faults, dead,
                     crashed, handled, discarded, raced, lost>>
  BY SlotFacts DEF FillCache, faultVars
<1>2. t \in Table /\ slot[w].pc \in Reading
  BY <1>1, SlotFacts DEF Slot, SlotFine
<1>3. s \in Slot /\ SlotFine(s) /\ s.table = None
  BY <1>2, SlotFacts, ListedTyped
<1>4. torn' \subseteq Blocks
  BY <1>1, <1>2, TornTyped DEF Reading
<1>5. raced \/ t = rows
  BY <1>0, <1>1 DEF InFlightFresh
<1> HIDE DEF s, t
<1>6. SlotsTyped' /\ slot'[w] = s /\ \A v \in Workers : v # w => slot'[v] = slot[v]
  BY <1>0, <1>1, <1>3, SlotGoesOn
<1>7. InFlightFresh'
  BY <1>0, <1>1, <1>3, <1>6 DEF InFlightFresh
<1>8. CachedFresh'
  BY <1>1, <1>5 DEF CachedFresh
<1>9. BlocksTyped' /\ CallsTyped' /\ TablesTyped' /\ CountsTyped' /\ PastTyped'
  BY <1>0, <1>1, <1>2, <1>4 DEF BlocksTyped, CallsTyped, TablesTyped, CountsTyped, PastTyped
<1> QED BY <1>6, <1>7, <1>8, <1>9, PartsNext

\* An entry of events handled at some contracts.
LEMMA HandledTyped ==
  ASSUME IndInv, NEW hash \in Blocks, NEW at \in SUBSET Addresses, NEW by \in 0..MaxCalls,
         Handled(hash, at, by)
  PROVE  handled' \in Seq(Entry)
<1>1. [hash |-> hash, at |-> at, by |-> by] \in Entry /\ handled \in Seq(Entry)
  BY PastFacts DEF Entry
<1> QED BY <1>1 DEF Handled

\* The worker goes on with the same block and lists.
LEMMA NextPCTyped ==
  ASSUME NEW s \in Slot, SlotFine(s), s.pc \in {"handle", "postpone"}, NEW pc \in {"postpone", "ack"}
  PROVE  /\ [s EXCEPT !.pc = pc] \in Slot /\ SlotFine([s EXCEPT !.pc = pc])
         /\ [s EXCEPT !.pc = pc].table = s.table
<1>1. s.table = None /\ s.hash \in Blocks
  BY DEF SlotFine, Reading
<1>2. pc \in PC
  BY DEF PC
<1>3. [s EXCEPT !.pc = pc] \in Slot
  BY <1>2 DEF Slot
<1>4. /\ [s EXCEPT !.pc = pc].table = s.table
      /\ [s EXCEPT !.pc = pc].hash = s.hash
  BY DEF Slot
<1> QED BY <1>1, <1>3, <1>4 DEF SlotFine

LEMMA HandleKept ==
  ASSUME IndInv, NEW w \in Workers, Handle(w) PROVE IndInv'
<1> DEFINE s == [slot[w] EXCEPT !.pc = "postpone"]
           at == chain[slot[w].hash] \cap (slot[w].internal \cup slot[w].external)
<1>1. /\ slot[w].pc = "handle" /\ Handled(slot[w].hash, at, 0) /\ slot' = [slot EXCEPT ![w] = s]
      /\ UNCHANGED <<chain, pending, rows, cached, changes, postponed, call, calls, faults, dead,
                     crashed, discarded, torn, raced, lost>>
  BY SlotFacts DEF Handle, faultVars
<1>2. s \in Slot /\ SlotFine(s) /\ s.table = slot[w].table
  BY <1>1, SlotFacts, NextPCTyped
<1>3. slot[w].hash \in Blocks /\ at \in SUBSET Addresses
  BY <1>1, SlotFacts DEF SlotFine, Slot
<1>4. 0 \in 0..MaxCalls
  BY Bounds
<1> HIDE DEF s, at
<1>5. handled' \in Seq(Entry)
  BY <1>1, <1>3, <1>4, HandledTyped
<1> QED BY <1>1, <1>2, <1>5, PastFacts, WorkerStep

LEMMA PostponeKept ==
  ASSUME IndInv, NEW w \in Workers, Postpone(w) PROVE IndInv'
<1> DEFINE s == [slot[w] EXCEPT !.pc = "ack"]
           at == chain[slot[w].hash] \cap slot[w].disabled
<1>1. /\ slot[w].pc = "postpone" /\ slot' = [slot EXCEPT ![w] = s]
      /\ postponed' = IF at = {} THEN postponed
                      ELSE Append(postponed, [hash |-> slot[w].hash, at |-> at])
      /\ UNCHANGED <<chain, pending, rows, cached, changes, call, calls, faults, dead,
                     crashed, handled, discarded, torn, raced, lost>>
  BY SlotFacts DEF Postpone, faultVars, historyVars
<1>2. s \in Slot /\ SlotFine(s) /\ s.table = slot[w].table
  BY <1>1, SlotFacts, NextPCTyped
<1>3. [hash |-> slot[w].hash, at |-> at] \in Part
  BY <1>1, SlotFacts DEF SlotFine, Slot, Part
<1> HIDE DEF s, at
<1>4. postponed' \in Seq(Part)
  BY <1>1, <1>3, PastFacts
<1> QED BY <1>1, <1>2, <1>4, PastFacts, WorkerStep

LEMMA AcknowledgeKept ==
  ASSUME IndInv, NEW w \in Workers, Acknowledge(w) PROVE IndInv'
<1>1. /\ slot' = [slot EXCEPT ![w] = IdleSlot] /\ pending' \subseteq pending
      /\ UNCHANGED <<chain, rows, cached, changes, postponed, call, calls, faults, dead,
                     crashed, handled, discarded, torn, raced, lost>>
  BY DEF Acknowledge, faultVars, historyVars
<1> QED BY <1>1, IdleTyped, PastFacts, WorkerStep

LEMMA BlockFailsKept ==
  ASSUME IndInv, NEW w \in Workers, BlockFails(w) PROVE IndInv'
<1>0. /\ BlocksTyped /\ SlotsTyped /\ CallsTyped /\ TablesTyped /\ CountsTyped /\ PastTyped
      /\ InFlightFresh /\ CachedFresh
  BY Parts
<1>1. /\ slot' = [slot EXCEPT ![w] = IdleSlot] /\ pending' \subseteq pending
      /\ slot[w].pc \in {"handle", "postpone"} /\ dead' = dead \cup {slot[w].hash}
      /\ faults < MaxFaults /\ faults' = faults + 1
      /\ UNCHANGED <<chain, rows, cached, changes, postponed, call, calls,
                     crashed, handled, discarded, torn, raced, lost>>
  BY DEF BlockFails, Fault, historyVars
<1>2. slot[w].hash \in Blocks
  BY <1>1, SlotFacts DEF SlotFine
<1>3. SlotsTyped' /\ slot'[w] = IdleSlot /\ \A v \in Workers : v # w => slot'[v] = slot[v]
  BY <1>0, <1>1, IdleTyped, SlotGoesOn
<1>4. InFlightFresh' /\ CachedFresh'
  BY <1>0, <1>1, <1>3, IdleTyped, StillFresh
<1>5. CountsTyped'
  <2>1. faults' \in 0..MaxFaults
    BY <1>0, <1>1, Bounds DEF CountsTyped
  <2> QED BY <1>0, <1>1, <1>2, <2>1 DEF CountsTyped
<1>6. BlocksTyped' /\ CallsTyped' /\ TablesTyped' /\ PastTyped'
  BY <1>0, <1>1 DEF BlocksTyped, CallsTyped, TablesTyped, PastTyped
<1> QED BY <1>3, <1>4, <1>5, <1>6, PartsNext

-----------------------------------------------------------------------------
(* The mutations                                                             *)

Discards == [by : 1..MaxCalls, part : Part]

\* A call's step that leaves the tables, the workers and the cache alone.
LEMMA CallStep ==
  ASSUME IndInv, NEW c \in Callers, NEW k \in Call, CallFine(k), call' = [call EXCEPT ![c] = k],
         call[c].pc # "publish",
         UNCHANGED <<chain, pending, slot, rows, cached, changes, dead, crashed, torn, raced, lost>>,
         calls' \in 0..MaxCalls, faults' \in 0..MaxFaults, postponed' \in Seq(Part),
         handled' \in Seq(Entry), discarded' \subseteq Discards
  PROVE  IndInv'
<1>0. /\ BlocksTyped /\ SlotsTyped /\ CallsTyped /\ TablesTyped /\ CountsTyped /\ PastTyped
      /\ InFlightFresh /\ CachedFresh
  BY Parts
<1>1. CallsTyped' /\ call'[c] = k /\ \A d \in Callers : d # c => call'[d] = call[d]
  BY <1>0, CallGoesOn
<1>2. InFlightFresh' /\ CachedFresh'
  BY <1>0, <1>1, StillFresh
<1>3. BlocksTyped' /\ SlotsTyped' /\ TablesTyped' /\ CountsTyped'
  BY <1>0 DEF BlocksTyped, SlotsTyped, TablesTyped, CountsTyped
<1>4. PastTyped'
  BY <1>0 DEF PastTyped, Discards
<1> QED BY <1>1, <1>2, <1>3, <1>4, PartsNext

\* What the invariant says of a call.
LEMMA CallFacts ==
  ASSUME IndInv, NEW c \in Callers
  PROVE  /\ call[c] \in Call /\ CallFine(call[c]) /\ call \in [Callers -> Call]
         /\ discarded \subseteq Discards /\ calls \in 0..MaxCalls /\ faults \in 0..MaxFaults
  BY Parts DEF CallsTyped, PastTyped, CountsTyped, Discards

LEMMA RequestKept ==
  ASSUME IndInv, NEW c \in Callers, NEW op \in Op, NEW keys \in SUBSET Keys, Request(c, op, keys)
  PROVE  IndInv'
<1> DEFINE k == [IdleCall EXCEPT !.op = op, !.pc = "read", !.rows = keys, !.number = calls + 1]
<1>1. /\ call[c].pc = "idle" /\ calls < MaxCalls /\ calls' = calls + 1
      /\ keys \in IF op = "update" THEN {{x} : x \in Keys}
                  ELSE {RowsOf(contract) : contract \in Addresses} \ {{}}
      /\ call' = [call EXCEPT ![c] = k]
      /\ UNCHANGED <<chain, pending, slot, rows, cached, changes, postponed, faults, dead, crashed,
                     handled, discarded, torn, raced, lost>>
  BY DEF Request, blockVars, faultVars, historyVars
<1>2. keys # {}
  BY <1>1
<1>3. calls + 1 \in 1..MaxCalls
  BY <1>1, CallFacts, Bounds
<1>4. k \in Call
  <2>1. calls + 1 \in 0..MaxCalls
    BY <1>3, Bounds
  <2> QED BY <2>1, IdleTyped DEF Call
<1>5. k.pc = "read" /\ k.part = None /\ k.rows = keys /\ k.number = calls + 1
  BY DEF IdleCall
<1> HIDE DEF k
<1>6. CallFine(k)
  BY <1>2, <1>3, <1>5 DEF CallFine
<1>7. calls' \in 0..MaxCalls
  BY <1>1, <1>3, Bounds
<1> QED BY <1>1, <1>4, <1>6, <1>7, PastFacts, CallFacts, CallStep

LEMMA ReadRowsKept ==
  ASSUME IndInv, NEW c \in Callers, ReadRows(c) PROVE IndInv'
<1> DEFINE pc == IF call[c].op = "enable" THEN "pop" ELSE "save"
           k == [call[c] EXCEPT !.state = StateOf(c), !.pc = pc]
<1>1. /\ call[c].pc = "read" /\ call' = [call EXCEPT ![c] = k]
      /\ UNCHANGED <<chain, pending, slot, rows, cached, changes, postponed, calls, faults, dead,
                     crashed, handled, discarded, torn, raced, lost>>
  BY CallFacts DEF ReadRows, blockVars, faultVars, historyVars, Then
<1>2. call[c].rows # {} /\ call[c].part = None /\ call[c].number \in 1..MaxCalls
  BY <1>1, CallFacts DEF CallFine
<1>3. StateOf(c) \in State
  <2>1. call[c].op \in Op /\ call[c].rows \subseteq Keys /\ rows \in Table
    BY CallFacts, PastFacts DEF Call
  <2>2. (CHOOSE x \in call[c].rows : TRUE) \in Keys
    BY <1>2, <2>1
  <2> QED BY <2>1, <2>2 DEF StateOf, Op, State, Table
<1>4. k \in Call
  BY <1>3, CallFacts DEF Call
<1>5. k.pc \in {"pop", "save"} /\ k.part = call[c].part /\ k.rows = call[c].rows /\ k.number = call[c].number
  BY CallFacts DEF Call
<1> HIDE DEF k
<1>6. CallFine(k)
  BY <1>2, <1>5 DEF CallFine
<1> QED BY <1>1, <1>4, <1>6, PastFacts, CallFacts, CallStep

\* What Advance does to the call.
LEMMA AdvanceIs ==
  ASSUME NEW c \in Callers, Advance(c)
  PROVE  call' = [call EXCEPT ![c] = IF Then(call[c].pc) = "idle" THEN IdleCall
                    ELSE [call[c] EXCEPT !.pc = Then(call[c].pc), !.part = None]]
  BY DEF Advance

LEMMA ThenIs == /\ Then("pop") = "save" /\ Then("replay") = "save"
                /\ Then("save") = "publish" /\ Then("publish") = "idle"
  BY DEF Then

\* A call that has prepared its change goes on to save it.
LEMMA AdvanceToSave ==
  ASSUME IndInv, NEW c \in Callers, call[c].pc \in {"pop", "replay"}, Advance(c),
         UNCHANGED <<chain, pending, slot, rows, cached, changes, calls, faults, dead, crashed,
                     discarded, torn, raced, lost>>,
         postponed' \in Seq(Part), handled' \in Seq(Entry)
  PROVE  IndInv'
<1> DEFINE k == [call[c] EXCEPT !.pc = "save", !.part = None]
<1>1. call' = [call EXCEPT ![c] = k]
  BY AdvanceIs, ThenIs
<1>2. k \in Call
  BY CallFacts DEF Call
<1>3. k.pc = "save" /\ k.part = None /\ k.rows = call[c].rows /\ k.number = call[c].number
  BY CallFacts DEF Call
<1> HIDE DEF k
<1>4. CallFine(k)
  BY <1>3, CallFacts DEF CallFine
<1> QED BY <1>1, <1>2, <1>4, CallFacts, CallStep

LEMMA PopPostponedKept ==
  ASSUME IndInv, NEW c \in Callers, PopPostponed(c) PROVE IndInv'
<1>1. /\ call[c].pc = "pop"
      /\ UNCHANGED <<chain, pending, slot, rows, cached, changes, calls, faults, dead, crashed,
                     handled, torn, raced, lost>>
  BY DEF PopPostponed, blockVars, faultVars
<1>2. CASE postponed = <<>>
  <2>1. Advance(c) /\ UNCHANGED <<postponed, discarded>>
    BY <1>2 DEF PopPostponed
  <2> QED BY <1>1, <2>1, PastFacts, AdvanceToSave
<1>3. CASE postponed # <<>>
  <2> DEFINE p == postponed[1]
             k == [call[c] EXCEPT !.part = p, !.pc = "replay"]
  <2>1. /\ call' = [call EXCEPT ![c] = k] /\ postponed' = <<>>
        /\ discarded' = discarded \cup {[by |-> call[c].number, part |-> postponed[i]] :
                                          i \in {j \in DOMAIN postponed : postponed[j] # p}}
    <3>1. Replayed(postponed) = p
      BY <1>3, PastFacts DEF Replayed
    <3> QED BY <1>3, <3>1, CallFacts DEF PopPostponed
  <2>2. p \in Part /\ \A i \in DOMAIN postponed : postponed[i] \in Part
    BY <1>3, PastFacts
  <2>3. call[c].number \in 1..MaxCalls /\ call[c].rows # {}
    BY <1>1, CallFacts DEF CallFine
  <2>4. k \in Call /\ k.pc = "replay" /\ k.part = p /\ k.rows = call[c].rows /\ k.number = call[c].number
    BY <2>2, CallFacts DEF Call
  <2> HIDE DEF k, p
  <2>5. CallFine(k)
    BY <2>2, <2>3, <2>4 DEF CallFine
  <2>6. discarded' \subseteq Discards
    BY <2>1, <2>2, <2>3, CallFacts DEF Discards
  <2>7. postponed' \in Seq(Part)
    BY <2>1
  <2> QED BY <1>1, <2>1, <2>4, <2>5, <2>6, <2>7, PastFacts, CallFacts, CallStep
<1> QED BY <1>2, <1>3

LEMMA ReplayKept ==
  ASSUME IndInv, NEW c \in Callers, Replay(c) PROVE IndInv'
<1>1. /\ call[c].pc = "replay" /\ Advance(c)
      /\ Handled(call[c].part.hash, call[c].part.at, call[c].number)
      /\ UNCHANGED <<chain, pending, slot, rows, cached, changes, postponed, calls, faults, dead, crashed,
                     discarded, torn, raced, lost>>
  BY DEF Replay, blockVars, faultVars
<1>2. call[c].part.hash \in Blocks /\ call[c].part.at \in SUBSET Addresses /\ call[c].number \in 0..MaxCalls
  BY <1>1, CallFacts DEF CallFine, Part, Call
<1>3. handled' \in Seq(Entry)
  BY <1>1, <1>2, HandledTyped
<1> QED BY <1>1, <1>3, PastFacts, AdvanceToSave

\* The rows are saved, and the change is still to be published.
LEMMA SaveRowsKept ==
  ASSUME IndInv, NEW c \in Callers, SaveRows(c) PROVE IndInv'
<1>0. /\ BlocksTyped /\ SlotsTyped /\ CallsTyped /\ TablesTyped /\ CountsTyped /\ PastTyped
      /\ InFlightFresh /\ CachedFresh
  BY Parts
<1> DEFINE k == [call[c] EXCEPT !.pc = "publish", !.part = None]
<1>1. /\ call[c].pc = "save" /\ Advance(c) /\ raced' = (raced \/ InFlight)
      /\ rows' = [x \in Keys |-> IF x \in call[c].rows THEN call[c].state ELSE rows[x]]
      /\ UNCHANGED <<chain, pending, slot, cached, changes, postponed, calls, faults, dead, crashed,
                     handled, discarded, torn, lost>>
  BY DEF SaveRows, blockVars, faultVars
<1>2. call' = [call EXCEPT ![c] = k]
  BY <1>1, AdvanceIs, ThenIs
<1>3. k \in Call /\ k.pc = "publish" /\ k.part = None /\ k.rows = call[c].rows /\ k.number = call[c].number
  BY CallFacts DEF Call
<1> HIDE DEF k
<1>4. CallFine(k)
  BY <1>1, <1>3, CallFacts DEF CallFine
<1>5. CallsTyped' /\ call'[c] = k
  BY <1>0, <1>2, <1>3, <1>4, CallGoesOn
<1>6. CachedFresh'
  BY <1>3, <1>5 DEF CachedFresh
<1>7. InFlightFresh'
  <2>1. \A w \in Workers : slot[w].table # None => InFlight
    BY DEF InFlight
  <2> QED BY <1>1, <2>1 DEF InFlightFresh
<1>8. TablesTyped'
  <2>1. rows' \in Table
    BY <1>1, CallFacts, PastFacts DEF Table, Call
  <2> QED BY <1>0, <1>1, <2>1 DEF TablesTyped
<1>9. PastTyped'
  <2>1. raced' \in BOOLEAN
    BY <1>1, Zenon
  <2>2. lost \in BOOLEAN
    BY <1>0 DEF PastTyped
  <2> QED BY <1>0, <1>1, <2>1, <2>2 DEF PastTyped
<1>10. BlocksTyped' /\ SlotsTyped' /\ CountsTyped'
  BY <1>0, <1>1 DEF BlocksTyped, SlotsTyped, CountsTyped
<1> QED BY <1>5, <1>6, <1>7, <1>8, <1>9, <1>10, PartsNext

\* A call in hand has rows, finitely many.
LEMMA RowsCounted ==
  ASSUME IndInv, NEW c \in Callers, call[c].pc # "idle"
  PROVE  Cardinality(call[c].rows) \in Nat \ {0}
<1>1. call[c].rows \subseteq Keys /\ call[c].rows # {}
  BY CallFacts DEF Call, CallFine
<1>2. IsFiniteSet(call[c].rows)
  BY <1>1, MarketplacesAssumption, FS_Subset
<1> QED BY <1>1, <1>2, FS_CardinalityType, FS_EmptySet

LEMMA PublishChangeKept ==
  ASSUME IndInv, NEW c \in Callers, PublishChange(c) PROVE IndInv'
<1>0. /\ BlocksTyped /\ SlotsTyped /\ CallsTyped /\ TablesTyped /\ CountsTyped /\ PastTyped
      /\ InFlightFresh /\ CachedFresh
  BY Parts
<1>1. /\ call[c].pc = "publish" /\ Advance(c) /\ changes' = changes + Cardinality(call[c].rows)
      /\ UNCHANGED <<chain, pending, slot, rows, cached, postponed, calls, faults, dead, crashed,
                     handled, discarded, torn, raced, lost>>
  BY DEF PublishChange, blockVars, faultVars, historyVars
<1>2. call' = [call EXCEPT ![c] = IdleCall]
  BY <1>1, AdvanceIs, ThenIs
<1>3. CallsTyped'
  BY <1>0, <1>2, IdleTyped, CallGoesOn
<1>4. changes' \in Nat /\ changes' > 0
  BY <1>0, <1>1, RowsCounted DEF TablesTyped
<1>5. CachedFresh'
  BY <1>4 DEF CachedFresh
<1>6. InFlightFresh'
  BY <1>0, <1>1 DEF InFlightFresh
<1>7. TablesTyped'
  BY <1>0, <1>1, <1>4 DEF TablesTyped
<1>8. BlocksTyped' /\ SlotsTyped' /\ CountsTyped' /\ PastTyped'
  BY <1>0, <1>1 DEF BlocksTyped, SlotsTyped, CountsTyped, PastTyped
<1> QED BY <1>3, <1>5, <1>6, <1>7, <1>8, PartsNext

-----------------------------------------------------------------------------
(* The cache, and the faults                                                 *)

LEMMA ClearKept ==
  ASSUME IndInv, DropCache, changes' \in Nat,
         UNCHANGED <<blockVars, rows, postponed, call, calls, faultVars, handled, discarded, torn>>
  PROVE  IndInv'
<1>0. /\ BlocksTyped /\ SlotsTyped /\ CallsTyped /\ TablesTyped /\ CountsTyped /\ PastTyped
      /\ InFlightFresh /\ CachedFresh
  BY Parts
<1>1. UNCHANGED <<chain, pending, slot, rows, postponed, call, calls, faults, dead, crashed,
                  handled, discarded, torn>>
  BY DEF blockVars, faultVars
<1>7. cached' = None /\ raced' = (raced /\ InFlight) /\ lost' = FALSE
  BY DEF DropCache
<1>2. InFlightFresh'
  <2>1. \A w \in Workers : slot[w].table # None => InFlight
    BY DEF InFlight
  <2> QED BY <1>0, <1>1, <1>7, <2>1 DEF InFlightFresh
<1>3. CachedFresh'
  BY <1>7 DEF CachedFresh
<1>4. TablesTyped'
  BY <1>0, <1>1, <1>7 DEF TablesTyped
<1>5. PastTyped'
  <2>1. {raced', lost'} \subseteq BOOLEAN
    BY <1>7, Zenon
  <2> QED BY <1>0, <1>1, <2>1 DEF PastTyped
<1>6. BlocksTyped' /\ SlotsTyped' /\ CallsTyped' /\ CountsTyped'
  BY <1>0, <1>1 DEF BlocksTyped, SlotsTyped, CallsTyped, CountsTyped
<1> QED BY <1>2, <1>3, <1>4, <1>5, <1>6, PartsNext

LEMMA ConsumeChangeKept == ASSUME IndInv, ConsumeChange PROVE IndInv'
<1>1. changes \in Nat
  BY Parts DEF TablesTyped
<1>2. changes' \in Nat
  BY <1>1 DEF ConsumeChange
<1> QED BY <1>2, ClearKept DEF ConsumeChange

LEMMA ExpireKept == ASSUME IndInv, Expire PROVE IndInv'
<1>1. changes' \in Nat
  BY Parts DEF Expire, TablesTyped
<1> QED BY <1>1, ClearKept DEF Expire

\* What the calls had popped was a part of a numbered call.
LEMMA DiscardedTyped ==
  ASSUME IndInv, NEW cs \in SUBSET Callers, DiscardedWith(cs)
  PROVE  discarded' \subseteq Discards
<1>1. \A c \in cs : call[c].part # None => call[c].part \in Part /\ call[c].number \in 1..MaxCalls
  <2> SUFFICES ASSUME NEW c \in cs, call[c].part # None
               PROVE  call[c].part \in Part /\ call[c].number \in 1..MaxCalls
    OBVIOUS
  <2> QED BY CallFacts DEF CallFine
<1>2. discarded \subseteq Discards
  BY Parts DEF PastTyped, Discards
<1> QED BY <1>1, <1>2 DEF DiscardedWith, Discards

LEMMA CrashKept == ASSUME IndInv, Crash PROVE IndInv'
<1>0. /\ BlocksTyped /\ SlotsTyped /\ CallsTyped /\ TablesTyped /\ CountsTyped /\ PastTyped
      /\ InFlightFresh /\ CachedFresh
  BY Parts
<1>1. /\ faults < MaxFaults /\ faults' = faults + 1 /\ crashed' = TRUE
      /\ slot' = [w \in Workers |-> IdleSlot] /\ call' = [c \in Callers |-> IdleCall]
      /\ DiscardedWith(Callers)
      /\ lost' = (lost \/ \E c \in Callers : call[c].pc = "publish")
      /\ UNCHANGED <<chain, pending, rows, cached, changes, postponed, calls, dead, handled, torn, raced>>
  BY DEF Crash, Fault
<1>2. SlotsTyped' /\ CallsTyped'
  BY <1>1, IdleTyped DEF SlotsTyped, CallsTyped
<1>3. InFlightFresh'
  BY <1>1, IdleTyped DEF InFlightFresh
<1>4. CachedFresh'
  BY <1>0, <1>1 DEF CachedFresh
<1>5. discarded' \subseteq Discards
  BY <1>1, DiscardedTyped
<1>6. CountsTyped'
  <2>1. faults' \in 0..MaxFaults
    BY <1>0, <1>1, Bounds DEF CountsTyped
  <2>2. crashed' \in BOOLEAN
    BY <1>1, Zenon
  <2> QED BY <1>0, <1>1, <2>1, <2>2 DEF CountsTyped
<1>7. BlocksTyped' /\ TablesTyped'
  BY <1>0, <1>1 DEF BlocksTyped, TablesTyped
<1>8. PastTyped'
  <2>1. lost' \in BOOLEAN
    BY <1>1, Zenon
  <2> QED BY <1>0, <1>1, <1>5, <2>1 DEF PastTyped, Discards
<1> QED BY <1>2, <1>3, <1>4, <1>6, <1>7, <1>8, PartsNext

LEMMA PublishFailsKept ==
  ASSUME IndInv, NEW c \in Callers, PublishFails(c) PROVE IndInv'
<1>0. /\ BlocksTyped /\ SlotsTyped /\ CallsTyped /\ TablesTyped /\ CountsTyped /\ PastTyped
      /\ InFlightFresh /\ CachedFresh
  BY Parts
<1>1. /\ faults < MaxFaults /\ faults' = faults + 1 /\ call[c].pc = "publish" /\ Advance(c)
      /\ UNCHANGED <<chain, pending, slot, rows, cached, postponed, calls, dead, crashed,
                     handled, discarded, torn, raced>>
  BY DEF PublishFails, Fault, blockVars
<1>2. PICK arrived \in 0..(Cardinality(call[c].rows) - 1) :
        changes' = changes + arrived /\ lost' = (lost \/ arrived = 0)
  BY DEF PublishFails
<1>3. call' = [call EXCEPT ![c] = IdleCall]
  BY <1>1, AdvanceIs, ThenIs
<1>4. CallsTyped'
  BY <1>0, <1>3, IdleTyped, CallGoesOn
<1>5. arrived \in Nat /\ changes' \in Nat
  BY <1>0, <1>1, <1>2, RowsCounted DEF TablesTyped
<1>6. CachedFresh'
  <2>1. CASE arrived = 0
    BY <1>2, <2>1 DEF CachedFresh
  <2>2. CASE arrived # 0
    BY <1>0, <1>2, <1>5, <2>2 DEF CachedFresh, TablesTyped
  <2> QED BY <2>1, <2>2
<1>7. InFlightFresh'
  BY <1>0, <1>1 DEF InFlightFresh
<1>8. TablesTyped' /\ BlocksTyped' /\ SlotsTyped'
  BY <1>0, <1>1, <1>5 DEF TablesTyped, BlocksTyped, SlotsTyped
<1>9. CountsTyped'
  BY <1>0, <1>1, Bounds DEF CountsTyped
<1>10. PastTyped'
  <2>1. lost' \in BOOLEAN
    BY <1>2, Zenon
  <2> QED BY <1>0, <1>1, <2>1 DEF PastTyped
<1> QED BY <1>4, <1>6, <1>7, <1>8, <1>9, <1>10, PartsNext

LEMMA CallFailsKept ==
  ASSUME IndInv, NEW c \in Callers, CallFails(c) PROVE IndInv'
<1>1. /\ faults < MaxFaults /\ faults' = faults + 1 /\ call[c].pc \in {"pop", "replay", "save"}
      /\ call' = [call EXCEPT ![c] = IdleCall] /\ DiscardedWith({c})
      /\ UNCHANGED <<chain, pending, slot, rows, cached, changes, postponed, calls, dead, crashed,
                     handled, torn, raced, lost>>
  BY DEF CallFails, Fault, blockVars
<1>2. discarded' \subseteq Discards
  BY <1>1, DiscardedTyped
<1>3. faults' \in 0..MaxFaults
  BY <1>1, CallFacts, Bounds
<1> QED BY <1>1, <1>2, <1>3, IdleTyped, PastFacts, CallFacts, CallStep

-----------------------------------------------------------------------------
LEMMA NextKept == IndInv /\ [Next]_vars => IndInv'
<1> SUFFICES ASSUME IndInv, [Next]_vars PROVE IndInv'
  OBVIOUS
<1>1. ASSUME NEW at \in SUBSET Addresses, Emit(at) PROVE IndInv'
  BY <1>1, EmitKept
<1>2. ASSUME NEW w \in Workers, Consume(w) PROVE IndInv'
  BY <1>2, TakeKept, ListFromCacheKept, FetchTableKept, FillCacheKept, HandleKept, PostponeKept,
     AcknowledgeKept DEF Consume
<1>3. ASSUME NEW c \in Callers, Serve(c) PROVE IndInv'
  BY <1>3, RequestKept, ReadRowsKept, PopPostponedKept, ReplayKept, SaveRowsKept,
     PublishChangeKept DEF Serve
<1>4. CASE ConsumeChange \/ Expire \/ Crash
  BY <1>4, ConsumeChangeKept, ExpireKept, CrashKept
<1>5. CASE (\E w \in Workers : BlockFails(w)) \/ (\E c \in Callers : CallFails(c) \/ PublishFails(c))
  BY <1>5, BlockFailsKept, CallFailsKept, PublishFailsKept
<1>6. CASE UNCHANGED vars
  <2>1. UNCHANGED <<chain, pending, slot, rows, cached, changes, postponed, call, calls, faults, dead,
                    crashed, handled, discarded, torn, raced, lost>>
    BY <1>6 DEF vars, blockVars, faultVars, historyVars
  <2>2. BlocksTyped' /\ SlotsTyped' /\ CallsTyped' /\ TablesTyped' /\ CountsTyped' /\ PastTyped'
    BY <2>1, Parts DEF BlocksTyped, SlotsTyped, CallsTyped, TablesTyped, CountsTyped, PastTyped
  <2>3. InFlightFresh' /\ CachedFresh'
    BY <2>1, Parts DEF InFlightFresh, CachedFresh
  <2> QED BY <2>2, <2>3, PartsNext
<1> QED BY <1>1, <1>2, <1>3, <1>4, <1>5, <1>6 DEF Next

\* The blocks, the lists, the calls in hand and what was handled or thrown
\* away keep their types, whatever fails.
THEOREM MarketplacesTyped == Spec => []TypeOK
<1>1. IndInv => TypeOK
  BY DEF IndInv
<1> QED BY <1>1, InitKept, NextKept, PTL DEF Spec

\* Once every change of the table has been consumed the cached table is the
\* table, unless a copy read before a save filled the cache after it, or no
\* message about a save was sent (rabbit.publisher.ts;
\* disableMarketplace, enableMarketplace, updateMarketplace).
THEOREM CacheFollowsTable == Spec => []CacheCatchesUp
<1>1. IndInv => CacheCatchesUp
  <2>1. IndInv => changes \in Nat
    BY DEF IndInv, TypeOK
  <2> QED BY <2>1 DEF IndInv, CachedFresh, CacheCatchesUp
<1> QED BY <1>1, InitKept, NextKept, PTL DEF Spec
-----------------------------------------------------------------------------
(* The oldest block is replayed: with one worker the list is in the order of *)
(* the blocks, so that what a call pops behind the head is younger, and the  *)
(* number of a call tells its replay and its discards from those of others.  *)

\* The worker handles the first of the blocks not acknowledged.
Front(w) ==
  /\ slot[w].pc = "idle" => slot[w].hash = 0
  /\ slot[w].pc # "idle" => slot[w].hash \in pending /\ \A h \in pending : slot[w].hash <= h

\* The list is in the order of the blocks, and behind none that will still be postponed.
Waiting(w) ==
  /\ \A i, j \in DOMAIN postponed : i < j => postponed[i].hash < postponed[j].hash
  /\ \A i \in DOMAIN postponed : postponed[i].hash \in DOMAIN chain /\ \A h \in pending :
       \/ postponed[i].hash < h
       \/ postponed[i].hash = h /\ h = slot[w].hash /\ slot[w].pc = "ack"

\* A number belongs to one call, and was given before it is used.
Numbered ==
  /\ \A c \in Callers : call[c].number <= calls
  /\ \A c, d \in Callers :
       c # d /\ call[c].pc # "idle" /\ call[d].pc # "idle" => call[c].number # call[d].number
  /\ \A d \in discarded : d.by <= calls
  /\ \A i \in DOMAIN handled : handled[i].by <= calls

\* A call discards nothing before it pops, handles nothing before it has
\* replayed, and what it has to replay is older than what it discarded.
Prepared ==
  \A c \in Callers :
    /\ call[c].pc \in {"read", "pop"} => \A d \in discarded : d.by # call[c].number
    /\ call[c].pc \in {"read", "pop", "replay"} => \A i \in DOMAIN handled : handled[i].by # call[c].number
    /\ call[c].pc = "replay" =>
         \A d \in discarded : d.by = call[c].number => call[c].part.hash < d.part.hash

Older == \A d \in discarded : \A i \in DOMAIN handled : handled[i].by = d.by => handled[i].hash < d.part.hash

\* A restart ends it: it delivers a block again behind those that wait.
OldInv(w) == IndInv /\ (~crashed => Front(w) /\ Waiting(w) /\ Numbered /\ Prepared /\ Older)

LEMMA OldInit == ASSUME NEW w \in Workers PROVE Init => OldInv(w)
<1> SUFFICES ASSUME Init PROVE OldInv(w)
  OBVIOUS
<1>1. /\ slot[w] = IdleSlot /\ pending = {} /\ postponed = <<>> /\ calls = 0
      /\ \A c \in Callers : call[c] = IdleCall
      /\ handled = <<>> /\ discarded = {}
  BY DEF Init
<1>2. Front(w) /\ Waiting(w)
  BY <1>1 DEF Front, Waiting, IdleSlot
<1>3. Numbered /\ Prepared /\ Older
  BY <1>1 DEF Numbered, Prepared, Older, IdleCall
<1> QED BY <1>2, <1>3, InitKept DEF OldInv

\* Blocks: the front and the list.
LEMMA FrontSame ==
  ASSUME NEW w \in Workers, Front(w), Waiting(w), UNCHANGED <<chain, pending>>,
         slot'[w].hash = slot[w].hash, slot'[w].pc = slot[w].pc \/ {slot'[w].pc, slot[w].pc} \cap {"idle", "ack"} = {},
         postponed' \in {postponed, <<>>}
  PROVE  Front(w)' /\ Waiting(w)'
<1>1. Front(w)'
  BY DEF Front
<1>2. CASE postponed' = postponed
  BY <1>1, <1>2 DEF Waiting
<1>3. CASE postponed' = <<>>
  BY <1>1, <1>3 DEF Waiting
<1> QED BY <1>2, <1>3

LEMMA FrontEmit ==
  ASSUME IndInv, NEW w \in Workers, Front(w), Waiting(w), NEW at \in SUBSET Addresses, Emit(at)
  PROVE  Front(w)' /\ Waiting(w)'
<1>1. /\ chain' = Append(chain, at) /\ pending' = pending \cup {Len(chain) + 1}
      /\ UNCHANGED <<slot, postponed>>
  BY DEF Emit
<1>2. chain \in Seq(SUBSET Addresses) /\ pending \subseteq DOMAIN chain
  BY Parts DEF BlocksTyped
<1>3. \A h \in DOMAIN chain : h \in DOMAIN chain' /\ h < Len(chain) + 1
  BY <1>1, <1>2
<1>4. Front(w)'
  BY <1>1, <1>2, <1>3 DEF Front
<1>5. Waiting(w)'
  BY <1>1, <1>2, <1>3 DEF Waiting
<1> QED BY <1>4, <1>5

LEMMA FrontTake ==
  ASSUME IndInv, NEW w, Workers = {w}, Front(w), Waiting(w), Take(w)
  PROVE  Front(w)' /\ Waiting(w)'
<1>1. /\ slot[w].pc = "idle" /\ slot[w].hash = 0 /\ UNCHANGED <<chain, pending, postponed>>
  BY DEF Take, Front
<1>2. Taken = {0} /\ 0 \notin pending
  <2>1. pending \subseteq DOMAIN chain /\ chain \in Seq(SUBSET Addresses)
    BY Parts DEF BlocksTyped
  <2> QED BY <1>1, <2>1 DEF Taken
<1>3. PICK h \in pending : /\ \A g \in pending : h <= g
                           /\ slot' = [slot EXCEPT ![w] = [IdleSlot EXCEPT !.hash = h, !.pc = "internal"]]
  <2>1. pending \ Taken = pending
    BY <1>2
  <2> QED BY <2>1 DEF Take
<1>4. slot'[w].hash = h /\ slot'[w].pc = "internal"
  BY <1>3, SlotFacts DEF IdleSlot
<1>5. Front(w)'
  BY <1>1, <1>3, <1>4 DEF Front
<1>6. Waiting(w)'
  BY <1>1, <1>4 DEF Waiting
<1> QED BY <1>5, <1>6

LEMMA FrontRead ==
  ASSUME IndInv, NEW w \in Workers, Front(w), Waiting(w),
         ListFromCache(w) \/ FetchTable(w) \/ FillCache(w) \/ Handle(w)
  PROVE  Front(w)' /\ Waiting(w)'
<1>0. slot[w] \in Slot /\ SlotFine(slot[w]) /\ slot \in [Workers -> Slot]
  BY SlotFacts
<1>1. ASSUME NEW t \in Table, slot[w].pc \in Reading
      PROVE  Listed(slot[w], t).hash = slot[w].hash /\ Listed(slot[w], t).pc \notin {"idle", "ack"}
  <2> DEFINE s == slot[w]
             at == CASE s.pc = "internal" -> [s EXCEPT !.internal = At(t, "Enable", Internal)]
                     [] s.pc = "external" -> [s EXCEPT !.external = At(t, "Enable", External)]
                     [] s.pc = "disabled" -> [s EXCEPT !.disabled = DisabledAt(t)]
  <2>1. at.hash = s.hash /\ DOMAIN at = DOMAIN s
    <3>1. CASE s.pc = "internal"
      BY <1>0, <3>1 DEF Slot
    <3>2. CASE s.pc = "external"
      BY <1>0, <3>2 DEF Slot
    <3>3. CASE s.pc = "disabled"
      BY <1>0, <3>3 DEF Slot
    <3> QED BY <1>1, <3>1, <3>2, <3>3 DEF Reading
  <2>2. Listed(s, t) = [at EXCEPT !.pc = NextPC[s.pc], !.table = None, !.seen = @ \cup {t}]
    BY Zenon DEF Listed
  <2>3. NextPC[s.pc] \in {"external", "disabled", "handle"}
    BY <1>1 DEF NextPC, Reading
  <2>4. DOMAIN s = DOMAIN IdleSlot
    BY <1>0, IdleTyped DEF Slot
  <2> HIDE DEF at
  <2> QED BY <2>1, <2>2, <2>3, <2>4 DEF IdleSlot
<1>2. CASE ListFromCache(w)
  <2>1. cached \in Table /\ slot[w].pc \in Reading /\ slot'[w] = Listed(slot[w], cached)
        /\ UNCHANGED <<chain, pending, postponed>>
    BY <1>0, <1>2, PastFacts DEF ListFromCache
  <2> QED BY <1>1, <2>1, FrontSame DEF Reading
<1>3. CASE FetchTable(w)
  <2>1. slot'[w].hash = slot[w].hash /\ slot'[w].pc = slot[w].pc /\ UNCHANGED <<chain, pending, postponed>>
    BY <1>0, <1>3 DEF FetchTable, Slot
  <2> QED BY <2>1, FrontSame
<1>4. CASE FillCache(w)
  <2>1. slot[w].table \in Table /\ slot[w].pc \in Reading /\ slot'[w] = Listed(slot[w], slot[w].table)
        /\ UNCHANGED <<chain, pending, postponed>>
    BY <1>0, <1>4 DEF FillCache, Slot, SlotFine
  <2> QED BY <1>1, <2>1, FrontSame DEF Reading
<1>5. CASE Handle(w)
  <2>1. slot'[w].hash = slot[w].hash /\ slot'[w].pc = "postpone" /\ slot[w].pc = "handle"
        /\ UNCHANGED <<chain, pending, postponed>>
    BY <1>0, <1>5 DEF Handle, Slot
  <2> QED BY <2>1, FrontSame
<1> QED BY <1>2, <1>3, <1>4, <1>5

\* The block in hand is younger than those that wait.
LEMMA FrontPostpone ==
  ASSUME IndInv, NEW w \in Workers, Front(w), Waiting(w), Postpone(w)
  PROVE  Front(w)' /\ Waiting(w)'
<1> DEFINE at == chain[slot[w].hash] \cap slot[w].disabled
           p == [hash |-> slot[w].hash, at |-> at]
<1>1. /\ slot[w].pc = "postpone" /\ slot'[w].hash = slot[w].hash /\ slot'[w].pc = "ack"
      /\ postponed' = (IF at = {} THEN postponed ELSE Append(postponed, p))
      /\ UNCHANGED <<chain, pending>>
  BY SlotFacts DEF Postpone, Slot
<1>2. /\ postponed \in Seq(Part) /\ chain \in Seq(SUBSET Addresses) /\ pending \subseteq DOMAIN chain
  BY Parts DEF BlocksTyped, TablesTyped
<1>3. p.hash = slot[w].hash
  OBVIOUS
<1> HIDE DEF p, at
<1>4. Front(w)'
  BY <1>1 DEF Front
<1>5. \A i \in DOMAIN postponed : postponed[i].hash < slot[w].hash
  BY <1>1 DEF Front, Waiting
<1>6. slot[w].hash \in DOMAIN chain /\ \A h \in pending : slot[w].hash <= h
  BY <1>1, <1>2 DEF Front
<1>7. CASE at = {}
  <2>1. postponed' = postponed
    BY <1>1, <1>7
  <2>2. \A i \in DOMAIN postponed : postponed[i].hash \in DOMAIN chain /\ \A h \in pending : postponed[i].hash < h
    BY <1>1 DEF Waiting
  <2> QED BY <1>1, <1>4, <2>1, <2>2 DEF Waiting
<1>8. CASE at # {}
  <2>1. postponed' = Append(postponed, p) /\ DOMAIN postponed' = 1..Len(postponed) + 1
    BY <1>1, <1>2, <1>8
  <2>2. \A i \in DOMAIN postponed' : \/ i \in DOMAIN postponed /\ postponed'[i] = postponed[i] /\ i < Len(postponed) + 1
                                     \/ i = Len(postponed) + 1 /\ postponed'[i] = p
    BY <1>2, <2>1
  <2>3. \A i, j \in DOMAIN postponed' : i < j => postponed'[i].hash < postponed'[j].hash
    <3> SUFFICES ASSUME NEW i \in DOMAIN postponed', NEW j \in DOMAIN postponed', i < j
                 PROVE  postponed'[i].hash < postponed'[j].hash
      OBVIOUS
    <3>1. i \in DOMAIN postponed /\ postponed'[i] = postponed[i]
      BY <1>2, <2>1, <2>2
    <3> QED BY <1>3, <1>5, <2>2, <3>1 DEF Waiting
  <2>4. ASSUME NEW i \in DOMAIN postponed'
        PROVE  postponed'[i].hash \in DOMAIN chain' /\ \A h \in pending' :
                 \/ postponed'[i].hash < h
                 \/ postponed'[i].hash = h /\ h = slot'[w].hash /\ slot'[w].pc = "ack"
    <3>1. CASE i \in DOMAIN postponed /\ postponed'[i] = postponed[i]
      BY <1>1, <3>1 DEF Waiting
    <3>2. CASE postponed'[i] = p
      <4>1. \A h \in pending : h \in Int /\ slot[w].hash \in Int
        BY <1>2, <1>6
      <4> QED BY <1>1, <1>3, <1>6, <3>2, <4>1
    <3> QED BY <2>2, <3>1, <3>2
  <2> QED BY <1>4, <2>3, <2>4 DEF Waiting
<1> QED BY <1>7, <1>8

LEMMA FrontLeave ==
  ASSUME IndInv, NEW w \in Workers, Front(w), Waiting(w), Acknowledge(w) \/ BlockFails(w)
  PROVE  Front(w)' /\ Waiting(w)'
<1>1. /\ slot[w].pc # "idle" /\ slot'[w] = IdleSlot /\ pending' = pending \ {slot[w].hash}
      /\ UNCHANGED <<chain, postponed>>
  BY SlotFacts DEF Acknowledge, BlockFails
<1>2. Front(w)'
  BY <1>1 DEF Front, IdleSlot
<1>3. Waiting(w)'
  BY <1>1 DEF Waiting
<1> QED BY <1>2, <1>3
\* The numbers: steps of the worker, and of a call.
LEMMA NumbersSame ==
  ASSUME Numbered, Prepared, Older, UNCHANGED <<call, calls, handled, discarded>>
  PROVE  Numbered' /\ Prepared' /\ Older'
  BY DEF Numbered, Prepared, Older

\* What the consumer handles has number 0, which is no call's.
LEMMA NumbersHandle ==
  ASSUME IndInv, Numbered, Prepared, Older, NEW w \in Workers, Handle(w)
  PROVE  Numbered' /\ Prepared' /\ Older'
<1> DEFINE e == [hash |-> slot[w].hash,
                 at |-> chain[slot[w].hash] \cap (slot[w].internal \cup slot[w].external), by |-> 0]
<1>1. handled' \in {handled, Append(handled, e)} /\ UNCHANGED <<call, calls, discarded>>
  BY DEF Handle, Handled
<1>2. e.by = 0
  OBVIOUS
<1> HIDE DEF e
<1>3. handled \in Seq(Entry) /\ calls \in Nat /\ \A d \in discarded : d.by \in 1..MaxCalls
  BY Parts, Bounds DEF PastTyped, CountsTyped
<1>4. \A i \in DOMAIN handled' : (i \in DOMAIN handled /\ handled'[i] = handled[i]) \/ handled'[i] = e
  BY <1>1, <1>3
<1>5. \A c \in Callers : call[c].pc # "idle" => call[c].number \in 1..MaxCalls
  BY CallFacts DEF CallFine
<1>6. Numbered'
  BY <1>1, <1>2, <1>3, <1>4 DEF Numbered
<1>7. Prepared'
  <2> SUFFICES ASSUME NEW c \in Callers, call[c].pc \in {"read", "pop", "replay"}, NEW i \in DOMAIN handled'
               PROVE  handled'[i].by # call[c].number
    BY <1>1 DEF Prepared
  <2> QED BY <1>2, <1>4, <1>5 DEF Prepared
<1>8. Older'
  BY <1>1, <1>2, <1>3, <1>4 DEF Older
<1> QED BY <1>6, <1>7, <1>8

LEMMA NumbersRequest ==
  ASSUME IndInv, Numbered, Prepared, Older, NEW c \in Callers, NEW op, NEW keys, Request(c, op, keys)
  PROVE  Numbered' /\ Prepared' /\ Older'
<1> DEFINE k == [IdleCall EXCEPT !.op = op, !.pc = "read", !.rows = keys, !.number = calls + 1]
<1>1. /\ calls' = calls + 1 /\ call' = [call EXCEPT ![c] = k] /\ UNCHANGED <<handled, discarded>>
  BY DEF Request, historyVars
<1>2. k.number = calls + 1 /\ k.pc = "read"
  BY DEF IdleCall
<1> HIDE DEF k
<1>3. /\ calls \in Nat /\ handled \in Seq(Entry) /\ discarded \subseteq Discards
      /\ \A d \in Callers : call[d].number \in Nat
  <2>1. calls \in Nat /\ handled \in Seq(Entry) /\ discarded \subseteq Discards
    BY Parts, Bounds DEF CountsTyped, PastTyped, Discards
  <2>2. \A d \in Callers : call[d].number \in Nat
    BY CallFacts, Bounds DEF Call
  <2> QED BY <2>1, <2>2
<1>4. call'[c] = k /\ \A d \in Callers : d # c => call'[d] = call[d]
  BY <1>1, CallFacts
<1>5. /\ \A d \in Callers : call[d].number < calls + 1
      /\ \A d \in discarded : d.by \in Nat /\ d.by < calls + 1
      /\ \A i \in DOMAIN handled : handled[i].by \in Nat /\ handled[i].by < calls + 1
  <2>1. \A d \in discarded : d.by \in Nat /\ d.by < calls + 1
    BY <1>3, Bounds DEF Numbered, Discards
  <2>2. \A i \in DOMAIN handled : handled[i] \in Entry
    BY <1>3
  <2>3. \A i \in DOMAIN handled : handled[i].by \in Nat /\ handled[i].by < calls + 1
    BY <1>3, <2>2, Bounds DEF Numbered, Entry
  <2>4. \A d \in Callers : call[d].number < calls + 1
    BY <1>3 DEF Numbered
  <2> QED BY <2>1, <2>3, <2>4
<1>6. Numbered'
  BY <1>1, <1>2, <1>3, <1>4, <1>5 DEF Numbered
<1>7. Prepared'
  BY <1>1, <1>2, <1>3, <1>4, <1>5 DEF Prepared
<1>8. Older'
  BY <1>1 DEF Older
<1> QED BY <1>6, <1>7, <1>8

\* A call that handles and discards nothing, and becomes idle or goes on.
LEMMA NumbersGo ==
  ASSUME IndInv, Numbered, Prepared, Older, NEW c \in Callers, NEW k,
         k.number = call[c].number \/ (k.number = 0 /\ k.pc = "idle"),
         k.pc \in {"idle", "save", "publish"} \/ (k.pc = "pop" /\ call[c].pc = "read"),
         call[c].pc # "idle",
         call' = [call EXCEPT ![c] = k], UNCHANGED <<calls, handled, discarded>>
  PROVE  Numbered' /\ Prepared' /\ Older'
<1>1. calls \in Nat
  BY Parts, Bounds DEF CountsTyped
<1>2. call'[c] = k /\ \A d \in Callers : d # c => call'[d] = call[d]
  BY CallFacts
<1>3. Numbered'
  BY <1>1, <1>2 DEF Numbered
<1>4. Prepared'
  BY <1>2 DEF Prepared
<1>5. Older'
  BY DEF Older
<1> QED BY <1>3, <1>4, <1>5

\* What is popped behind the head is younger than the head.
LEMMA NumbersPop ==
  ASSUME IndInv, NEW w \in Workers, Waiting(w), Numbered, Prepared, Older, NEW c \in Callers, PopPostponed(c),
         postponed # <<>>
  PROVE  Numbered' /\ Prepared' /\ Older'
<1> DEFINE p == postponed[1]
           k == [call[c] EXCEPT !.part = p, !.pc = "replay"]
<1>1. /\ call[c].pc = "pop" /\ call' = [call EXCEPT ![c] = k] /\ UNCHANGED <<calls, handled>>
      /\ discarded' = discarded \cup {[by |-> call[c].number, part |-> postponed[i]] :
                                        i \in {j \in DOMAIN postponed : postponed[j] # p}}
  <2>1. Replayed(postponed) = p
    BY PastFacts DEF Replayed
  <2> QED BY <2>1, CallFacts DEF PopPostponed
<1>2. k.pc = "replay" /\ k.part = p /\ k.number = call[c].number
  BY CallFacts DEF Call
<1>3. call[c].number <= calls /\ \A d \in discarded : d.by # call[c].number
  BY <1>1 DEF Numbered, Prepared
<1>4. \A i \in DOMAIN postponed : postponed[i] # p => p.hash < postponed[i].hash
  <2>1. 1 \in DOMAIN postponed /\ \A i \in DOMAIN postponed : i # 1 => 1 < i
    BY PastFacts
  <2> QED BY <2>1 DEF Waiting
<1>5. \A d \in discarded' : d \in discarded \/ (d.by = call[c].number /\ p.hash < d.part.hash)
  BY <1>1, <1>4
<1>6. \A i \in DOMAIN handled : handled[i].by # call[c].number
  BY <1>1 DEF Prepared
<1> HIDE DEF k, p
<1>7. call'[c] = k /\ \A d \in Callers : d # c => call'[d] = call[d]
  BY <1>1, CallFacts
<1>8. Numbered'
  BY <1>1, <1>2, <1>3, <1>5, <1>7 DEF Numbered
<1>9. \A d \in Callers : d # c /\ call[d].pc # "idle" => call[d].number # call[c].number
  BY <1>1 DEF Numbered
<1>10. Prepared'
  <2>1. ASSUME NEW e \in Callers, e # c, call[e].pc # "idle", NEW d \in discarded', d.by = call[e].number
        PROVE  d \in discarded
    BY <1>5, <1>9, <2>1
  <2>2. /\ k.pc \in {"read", "pop"} => \A d \in discarded' : d.by # k.number
        /\ k.pc \in {"read", "pop", "replay"} => \A i \in DOMAIN handled' : handled'[i].by # k.number
        /\ k.pc = "replay" => \A d \in discarded' : d.by = k.number => k.part.hash < d.part.hash
    BY <1>1, <1>2, <1>3, <1>5, <1>6
  <2>3. ASSUME NEW e \in Callers, e # c
        PROVE /\ call[e].pc \in {"read", "pop"} => \A d \in discarded' : d.by # call[e].number
              /\ call[e].pc \in {"read", "pop", "replay"} => \A i \in DOMAIN handled' : handled'[i].by # call[e].number
              /\ call[e].pc = "replay" =>
                   \A d \in discarded' : d.by = call[e].number => call[e].part.hash < d.part.hash
    BY <1>1, <2>1, <2>3 DEF Prepared
  <2> QED BY <1>7, <2>2, <2>3 DEF Prepared
<1>11. Older'
  BY <1>1, <1>5, <1>6 DEF Older
<1> QED BY <1>8, <1>10, <1>11

LEMMA NumbersReplay ==
  ASSUME IndInv, Numbered, Prepared, Older, NEW c \in Callers, Replay(c)
  PROVE  Numbered' /\ Prepared' /\ Older'
<1> DEFINE k == [call[c] EXCEPT !.pc = "save", !.part = None]
           e == [hash |-> call[c].part.hash, at |-> call[c].part.at, by |-> call[c].number]
<1>1. /\ call[c].pc = "replay" /\ Advance(c) /\ UNCHANGED <<calls, discarded>>
      /\ handled' \in {handled, Append(handled, e)}
  BY DEF Replay, Handled
<1>2. call' = [call EXCEPT ![c] = k]
  BY <1>1, AdvanceIs, ThenIs
<1>3. k.pc = "save" /\ k.number = call[c].number /\ e.hash = call[c].part.hash /\ e.by = call[c].number
  BY CallFacts DEF Call
<1> HIDE DEF k, e
<1>4. call'[c] = k /\ \A d \in Callers : d # c => call'[d] = call[d]
  BY <1>2, CallFacts
<1>5. \A i \in DOMAIN handled' : (i \in DOMAIN handled /\ handled'[i] = handled[i]) \/ handled'[i] = e
  BY <1>1, Parts DEF PastTyped
<1>6. Numbered'
  BY <1>1, <1>3, <1>4, <1>5 DEF Numbered
<1>7. \A d \in Callers : d # c /\ call[d].pc # "idle" => call[d].number # call[c].number
  BY <1>1 DEF Numbered
<1>8. Prepared'
  BY <1>1, <1>3, <1>4, <1>5, <1>7 DEF Prepared
<1>9. Older'
  BY <1>1, <1>3, <1>5 DEF Older, Prepared
<1> QED BY <1>6, <1>8, <1>9

\* What a call had popped goes with it.
LEMMA NumbersFail ==
  ASSUME IndInv, Numbered, Prepared, Older, NEW c \in Callers, CallFails(c)
  PROVE  Numbered' /\ Prepared' /\ Older'
<1>1. /\ call[c].pc # "idle" /\ call' = [call EXCEPT ![c] = IdleCall] /\ UNCHANGED <<calls, handled>>
      /\ discarded' = discarded \cup {[by |-> call[b].number, part |-> call[b].part] :
                                        b \in {d \in {c} : call[d].part # None}}
  BY DEF CallFails, DiscardedWith
<1>2. CASE call[c].part = None
  <2>1. discarded' = discarded
    BY <1>1, <1>2
  <2>2. IdleCall.pc = "idle" /\ IdleCall.number = 0
    BY DEF IdleCall
  <2> QED BY <1>1, <2>1, <2>2, NumbersGo
<1>3. CASE call[c].part # None
  <2>1. call[c].pc = "replay"
    BY <1>3, CallFacts DEF CallFine
  <2>2. \A d \in discarded' : d \in discarded \/ d.by = call[c].number
    BY <1>1
  <2>3. IdleCall.pc = "idle" /\ IdleCall.number = 0 /\ calls \in Nat
    BY Parts, Bounds DEF IdleCall, CountsTyped
  <2>4. call'[c] = IdleCall /\ \A d \in Callers : d # c => call'[d] = call[d]
    BY <1>1, CallFacts
  <2>5. Numbered'
    BY <1>1, <2>2, <2>3, <2>4 DEF Numbered
  <2>6. \A d \in Callers : d # c /\ call[d].pc # "idle" => call[d].number # call[c].number
    BY <1>1 DEF Numbered
  <2>7. Prepared'
    BY <1>1, <2>2, <2>3, <2>4, <2>6 DEF Prepared
  <2>8. Older'
    BY <1>1, <2>1, <2>2 DEF Older, Prepared
  <2> QED BY <2>5, <2>7, <2>8
<1> QED BY <1>2, <1>3

LEMMA OldCalls ==
  ASSUME NEW w \in Workers, IndInv, Numbered, Prepared, Older, Waiting(w), Front(w), NEW c \in Callers,
         Serve(c) \/ CallFails(c) \/ PublishFails(c)
  PROVE  Numbered' /\ Prepared' /\ Older' /\ Front(w)' /\ Waiting(w)'
<1>1. UNCHANGED <<chain, pending, slot>> /\ postponed' \in {postponed, <<>>}
  BY DEF Serve, Request, ReadRows, PopPostponed, Replay, SaveRows, PublishChange, CallFails, PublishFails, blockVars
<1>2. Front(w)' /\ Waiting(w)'
  BY <1>1, FrontSame
<1>3. ASSUME NEW op \in Op, NEW keys \in SUBSET Keys, Request(c, op, keys) PROVE Numbered' /\ Prepared' /\ Older'
  BY <1>3, NumbersRequest
<1>4. CASE ReadRows(c)
  <2> DEFINE pc == IF call[c].op = "enable" THEN "pop" ELSE "save"
             k == [call[c] EXCEPT !.state = StateOf(c), !.pc = pc]
  <2>1. /\ call[c].pc = "read" /\ call' = [call EXCEPT ![c] = k] /\ UNCHANGED <<calls, handled, discarded>>
    BY <1>4, CallFacts DEF ReadRows, historyVars, Then
  <2>2. k.pc \in {"pop", "save"} /\ k.number = call[c].number
    BY CallFacts DEF Call
  <2> HIDE DEF k
  <2> QED BY <1>2, <2>1, <2>2, NumbersGo
<1>5. CASE PopPostponed(c) /\ postponed # <<>>
  BY <1>2, <1>5, NumbersPop
<1>6. CASE \/ PopPostponed(c) /\ postponed = <<>>
           \/ SaveRows(c) \/ PublishChange(c) \/ PublishFails(c)
  <2>1. /\ Advance(c) /\ call[c].pc \in {"pop", "save", "publish"} /\ UNCHANGED <<calls, handled, discarded>>
    BY <1>6 DEF PopPostponed, SaveRows, PublishChange, PublishFails, historyVars
  <2>2. PICK k : /\ call' = [call EXCEPT ![c] = k]
                 /\ k = IF Then(call[c].pc) = "idle" THEN IdleCall
                        ELSE [call[c] EXCEPT !.pc = Then(call[c].pc), !.part = None]
    BY <2>1, AdvanceIs
  <2>3. \/ k.pc = "idle" /\ k.number = 0
        \/ k.pc \in {"save", "publish"} /\ k.number = call[c].number
    BY <2>1, <2>2, ThenIs, CallFacts DEF Call, IdleCall
  <2> QED BY <1>2, <2>1, <2>2, <2>3, NumbersGo
<1>7. CASE Replay(c)
  BY <1>2, <1>7, NumbersReplay
<1>8. CASE CallFails(c)
  BY <1>2, <1>8, NumbersFail
<1> QED BY <1>2, <1>3, <1>4, <1>5, <1>6, <1>7, <1>8 DEF Serve

LEMMA OldNext == ASSUME NEW w, Workers = {w} PROVE OldInv(w) /\ [Next]_vars => OldInv(w)'
<1> SUFFICES ASSUME OldInv(w), [Next]_vars, ~crashed'
             PROVE  Front(w)' /\ Waiting(w)' /\ Numbered' /\ Prepared' /\ Older'
  BY NextKept DEF OldInv
<1>1. CASE ~crashed
  <2>1. IndInv /\ Front(w) /\ Waiting(w) /\ Numbered /\ Prepared /\ Older
    BY <1>1 DEF OldInv
  <2>2. ASSUME NEW at \in SUBSET Addresses, Emit(at)
        PROVE  Front(w)' /\ Waiting(w)' /\ Numbered' /\ Prepared' /\ Older'
    <3>1. UNCHANGED <<call, calls, handled, discarded>>
      BY <2>2 DEF Emit, historyVars
    <3> QED BY <2>1, <2>2, <3>1, FrontEmit, NumbersSame
  <2>3. ASSUME Consume(w) \/ BlockFails(w)
        PROVE  Front(w)' /\ Waiting(w)' /\ Numbered' /\ Prepared' /\ Older'
    <3>1. Front(w)' /\ Waiting(w)'
      BY <2>1, <2>3, FrontTake, FrontRead, FrontPostpone, FrontLeave DEF Consume
    <3>2. CASE Handle(w)
      BY <2>1, <3>1, <3>2, NumbersHandle
    <3>3. CASE ~Handle(w)
      <4>1. UNCHANGED <<call, calls, handled, discarded>>
        BY <2>3, <3>3 DEF Consume, Take, ListFromCache, FetchTable, FillCache, Postpone, Acknowledge,
                         BlockFails, historyVars
      <4> QED BY <2>1, <3>1, <4>1, NumbersSame
    <3> QED BY <3>2, <3>3
  <2>4. ASSUME NEW c \in Callers, Serve(c) \/ CallFails(c) \/ PublishFails(c)
        PROVE  Front(w)' /\ Waiting(w)' /\ Numbered' /\ Prepared' /\ Older'
    BY <2>1, <2>4, OldCalls
  <2>5. CASE ConsumeChange \/ Expire \/ UNCHANGED vars
    <3>1. UNCHANGED <<chain, pending, slot, postponed, call, calls, handled, discarded>>
      BY <2>5 DEF ConsumeChange, Expire, vars, blockVars, historyVars
    <3> QED BY <2>1, <3>1, FrontSame, NumbersSame
  <2>6. ~Crash
    BY DEF Crash
  <2> QED BY <2>2, <2>3, <2>4, <2>5, <2>6 DEF Next
<1>2. CASE crashed
  <2>1. crashed' = crashed \/ Crash
    BY DEF Next, vars, faultVars, Emit, Consume, Take, ListFromCache, FetchTable, FillCache, Handle, Postpone,
           Acknowledge, Serve, Request, ReadRows, PopPostponed, Replay, SaveRows, PublishChange,
           ConsumeChange, Expire, BlockFails, CallFails, PublishFails
  <2> QED BY <1>2, <2>1 DEF Crash
<1> QED BY <1>1, <1>2

\* With one block at a time, and until a restart, enabling a marketplace
\* replays the oldest of the events that wait: what a call discards of the list
\* is younger than what it handles, whatever throws (enableMarketplace, rpush,
\* lpop and events[0]).
THEOREM OldestFirst == ASSUME IsFiniteSet(Workers) PROVE Spec => []OldestIsReplayed
<1>1. CASE Cardinality(Workers) = 1
  <2>1. PICK w : Workers = {w}
    BY <1>1, FS_Singleton
  <2>2. OldInv(w) => OldestIsReplayed
    BY DEF OldInv, OldestIsReplayed, Older
  <2>3. Init => OldInv(w)
    BY <2>1, OldInit
  <2>4. OldInv(w) /\ [Next]_vars => OldInv(w)'
    BY <2>1, OldNext
  <2> QED BY <2>2, <2>3, <2>4, PTL DEF Spec
<1>2. CASE Cardinality(Workers) # 1
  <2>1. OldestIsReplayed
    BY <1>2 DEF OldestIsReplayed
  <2> QED BY <2>1, PTL
<1> QED BY <1>1, <1>2

-----------------------------------------------------------------------------
(* Every event is accounted for. An event moves between the places it may be *)
(* at, and is at one of them as soon as its worker has passed the list that  *)
(* names its contract; until a restart it is at one only.                    *)

\* Where an event of block h at contract at may be: handled, in the list, in
\* the hands of a call that replays it, or lost.
Listing(h, at) == {i \in DOMAIN postponed : postponed[i].hash = h /\ at \in postponed[i].at}
Replaying(h, at) == {c \in Callers : /\ call[c].part # None
                                     /\ call[c].part.hash = h /\ at \in call[c].part.at}

Somewhere(h, at) ==
    \/ HandledAt(h, at) # {} \/ Listing(h, at) # {} \/ Replaying(h, at) # {}
    \/ Discarded(h, at)

Single(S) == \A x, y \in S : x = y
OnePlace(h, at) ==
    /\ Single(HandledAt(h, at)) /\ Single(Listing(h, at)) /\ Single(Replaying(h, at))
    /\ HandledAt(h, at) # {} => /\ Listing(h, at) = {} /\ Replaying(h, at) = {}
                                /\ ~Discarded(h, at)
    /\ Listing(h, at) # {} => Replaying(h, at) = {} /\ ~Discarded(h, at)
    /\ Replaying(h, at) # {} => ~Discarded(h, at)

Served(s, at) == at \in s.internal \cup s.external

\* A worker's lists so far, of a block whose reads all saw the same table.
Reads(s) ==
    \/ s.pc \in {"idle", "internal"} /\ s.seen = {}
    \/ s.pc \notin {"idle", "internal"} /\ \E t \in Table :
         /\ s.seen = {t} /\ ~Split(t)
         /\ s.internal = At(t, "Enable", Internal)
         /\ s.pc # "external" => s.external = At(t, "Enable", External)
         /\ s.pc \notin {"external", "disabled"} => s.disabled = DisabledAt(t)

\* The blocks in hand are pending, each in one worker's.
InHand ==
    \A w \in Workers : slot[w].pc # "idle" =>
       /\ slot[w].hash \in pending
       /\ \A v \in Workers : slot[v].pc # "idle" /\ slot[v].hash = slot[w].hash => v = w

ReadAlike == \A w \in Workers : slot[w].hash \in torn \/ Reads(slot[w])

\* Nothing is known of a block before the chain has it.
Unborn == \A h \in Blocks \ DOMAIN chain : \A at \in Addresses : ~Somewhere(h, at)

\* What a worker has done of the event so far: not less, and not more.
Done(s, at) == s.pc = "ack" \/ (s.pc = "postpone" /\ Served(s, at))
DoneSome(h, at) ==
    \A w \in Workers : slot[w].hash = h /\ Done(slot[w], at) => Somewhere(h, at)
DoneOnce(h, at) ==
    \A w \in Workers : slot[w].pc # "idle" /\ slot[w].hash = h /\ Somewhere(h, at) =>
       Done(slot[w], at)
Held(h) == \E w \in Workers : slot[w].pc # "idle" /\ slot[w].hash = h

Account(h, at) ==
    /\ h \notin pending => Somewhere(h, at)
    /\ DoneSome(h, at)
    /\ ~crashed => /\ OnePlace(h, at) /\ DoneOnce(h, at)
                   /\ h \in pending /\ ~Held(h) => ~Somewhere(h, at)
Accounts == \A h \in DOMAIN chain \ (torn \cup dead) : \A at \in chain[h] : Account(h, at)


EventsInv == IndInv /\ InHand /\ ReadAlike /\ Unborn /\ Accounts

\* A step that loses no event of block h at contract at, and leaves none in
\* two places.
Kept(h, at) == /\ Somewhere(h, at)' <=> Somewhere(h, at)
               /\ OnePlace(h, at) => OnePlace(h, at)'

\* The places of an event in a list that grows.
Places(list, h, at) == {i \in DOMAIN list : list[i].hash = h /\ at \in list[i].at}
LEMMA PlacesIs == \A h, at : /\ HandledAt(h, at) = Places(handled, h, at)
                             /\ Listing(h, at) = Places(postponed, h, at)
  BY DEF HandledAt, Listing, Places
LEMMA PlacesNext == \A h, at : /\ HandledAt(h, at)' = Places(handled', h, at)
                               /\ Listing(h, at)' = Places(postponed', h, at)
  BY DEF HandledAt, Listing, Places

LEMMA PlacesGrow ==
  ASSUME NEW S, NEW list \in Seq(S), NEW e \in S, NEW h, NEW at
  PROVE  /\ e.hash = h /\ at \in e.at => Places(Append(list, e), h, at) = Places(list, h, at) \cup {Len(list) + 1}
         /\ ~(e.hash = h /\ at \in e.at) => Places(Append(list, e), h, at) = Places(list, h, at)
         /\ Len(list) + 1 \notin Places(list, h, at)
<1> DEFINE more == Append(list, e)
<1>1. DOMAIN more = DOMAIN list \cup {Len(list) + 1} /\ Len(list) + 1 \notin DOMAIN list
  OBVIOUS
<1>2. more[Len(list) + 1] = e /\ \A i \in DOMAIN list : more[i] = list[i]
  OBVIOUS
<1> QED BY <1>1, <1>2 DEF Places

\* Nothing moved.
LEMMA KeptSame ==
  ASSUME NEW h, NEW at, HandledAt(h, at)' = HandledAt(h, at), Listing(h, at)' = Listing(h, at),
         Replaying(h, at)' = Replaying(h, at), Discarded(h, at)' <=> Discarded(h, at)
  PROVE  Kept(h, at)
  BY DEF Kept, Somewhere, OnePlace, Single

LEMMA PlacesSame ==
  ASSUME UNCHANGED <<handled, postponed, discarded>>,
         \A c \in Callers : call'[c].part = call[c].part, NEW h, NEW at
  PROVE  Kept(h, at)
<1>1. HandledAt(h, at)' = HandledAt(h, at) /\ Listing(h, at)' = Listing(h, at)
  BY DEF HandledAt, Listing
<1>2. Replaying(h, at)' = Replaying(h, at)
  BY DEF Replaying
<1>3. Discarded(h, at)' <=> Discarded(h, at)
  BY DEF Discarded
<1> QED BY <1>1, <1>2, <1>3, KeptSame

\* The consumer handles or postpones another block.
LEMMA KeptElsewhere ==
  ASSUME IndInv, NEW w \in Workers, Handle(w) \/ Postpone(w), NEW h, slot[w].hash # h, NEW at
  PROVE  Kept(h, at)
<1>1. handled \in Seq(Entry) /\ postponed \in Seq(Part) /\ UNCHANGED <<call, discarded>>
  BY PastFacts DEF Handle, Postpone, historyVars
<1>2. HandledAt(h, at)' = HandledAt(h, at)
  <2> DEFINE e == [hash |-> slot[w].hash, at |-> chain[slot[w].hash] \cap (slot[w].internal \cup slot[w].external), by |-> 0]
  <2>1. handled' = handled \/ handled' = Append(handled, e)
    BY DEF Handle, Postpone, Handled, historyVars
  <2>2. e \in Entry /\ e.hash # h
    <3>1. slot[w].hash \in Blocks /\ slot[w].internal \subseteq Addresses /\ slot[w].external \subseteq Addresses
      BY SlotFacts DEF SlotFine, Slot, Handle, Postpone
    <3> QED BY <3>1, Bounds DEF Entry
  <2> HIDE DEF e
  <2>3. CASE handled' = Append(handled, e)
    <3>1. Places(Append(handled, e), h, at) = Places(handled, h, at)
      BY <1>1, <2>2, PlacesGrow
    <3> QED BY <2>3, <3>1, PlacesIs, PlacesNext
  <2> QED BY <2>1, <2>3 DEF HandledAt
<1>3. Listing(h, at)' = Listing(h, at)
  <2> DEFINE e == [hash |-> slot[w].hash, at |-> chain[slot[w].hash] \cap slot[w].disabled]
  <2>1. postponed' = postponed \/ postponed' = Append(postponed, e)
    BY DEF Handle, Postpone
  <2>2. e \in Part /\ e.hash # h
    <3>1. slot[w].hash \in Blocks /\ slot[w].disabled \subseteq Addresses
      BY SlotFacts DEF SlotFine, Slot, Handle, Postpone
    <3> QED BY <3>1 DEF Part
  <2> HIDE DEF e
  <2>3. CASE postponed' = Append(postponed, e)
    <3>1. Places(Append(postponed, e), h, at) = Places(postponed, h, at)
      BY <1>1, <2>2, PlacesGrow
    <3> QED BY <2>3, <3>1, PlacesIs, PlacesNext
  <2> QED BY <2>1, <2>3 DEF Listing
<1>4. Replaying(h, at)' = Replaying(h, at) /\ (Discarded(h, at)' <=> Discarded(h, at))
  BY <1>1 DEF Replaying, Discarded
<1> QED BY <1>2, <1>3, <1>4, KeptSame

\* The list is popped: its head is in the hands of the call, the rest is lost.
LEMMA KeptPop ==
  ASSUME IndInv, NEW c \in Callers, PopPostponed(c), postponed # <<>>, NEW h, NEW at
  PROVE  Kept(h, at)
<1> DEFINE p == postponed[1]
           Here(q) == q.hash = h /\ at \in q.at
<1>0. postponed \in Seq(Part) /\ call \in [Callers -> Call] /\ call[c].part = None /\ p \in Part
  BY PastFacts, CallFacts DEF CallFine, PopPostponed
<1>1. /\ postponed' = <<>> /\ handled' = handled
      /\ call' = [call EXCEPT ![c] = [call[c] EXCEPT !.part = p, !.pc = "replay"]]
      /\ discarded' = discarded \cup {[by |-> call[c].number, part |-> postponed[i]] :
                                        i \in {j \in DOMAIN postponed : postponed[j] # p}}
  <2>1. Replayed(postponed) = p
    BY <1>0 DEF Replayed
  <2> QED BY <1>0, <2>1 DEF PopPostponed
<1>2. p # None
  BY <1>0, MarketplacesAssumption DEF Part, Blocks
<1>3. call'[c].part = p /\ \A d \in Callers : d # c => call'[d] = call[d]
  BY <1>0, <1>1 DEF Call
<1>4. Listing(h, at)' = {} /\ HandledAt(h, at)' = HandledAt(h, at)
  BY <1>1 DEF Listing, HandledAt
<1>5. \A d : d \in Replaying(h, at)' <=> d \in Replaying(h, at) \/ (d = c /\ Here(p))
  BY <1>0, <1>2, <1>3 DEF Replaying
<1>6. Discarded(h, at)' <=> Discarded(h, at) \/ \E i \in DOMAIN postponed : postponed[i] # p /\ Here(postponed[i])
  <2>1. \A i : [by |-> call[c].number, part |-> postponed[i]].part = postponed[i]
    OBVIOUS
  <2> QED BY <1>1, <2>1 DEF Discarded
<1>7. \A i : i \in Listing(h, at) <=> i \in DOMAIN postponed /\ Here(postponed[i])
  BY DEF Listing
<1>8. 1 \in DOMAIN postponed
  BY <1>0
<1>9. Somewhere(h, at)' <=> Somewhere(h, at)
  BY <1>4, <1>5, <1>6, <1>7, <1>8 DEF Somewhere
<1>10. ASSUME OnePlace(h, at) PROVE OnePlace(h, at)'
  <2>1. Here(p) => Listing(h, at) = {1} /\ \A i \in DOMAIN postponed : Here(postponed[i]) => i = 1
    BY <1>7, <1>8, <1>10 DEF OnePlace, Single
  <2>2. Listing(h, at) # {} => HandledAt(h, at) = {} /\ Replaying(h, at) = {} /\ ~Discarded(h, at)
    BY <1>10 DEF OnePlace
  <2>3. (\E i \in DOMAIN postponed : postponed[i] # p /\ Here(postponed[i])) => ~Here(p) /\ Listing(h, at) # {}
    BY <1>7, <2>1
  <2>4. Here(p) => /\ Replaying(h, at)' = {c} /\ ~Discarded(h, at)' /\ HandledAt(h, at)' = {}
    BY <1>4, <1>5, <1>6, <2>1, <2>2, <2>3
  <2>5. ~Here(p) => Replaying(h, at)' = Replaying(h, at)
    BY <1>5
  <2> HIDE DEF p, Here
  <2>6. CASE Here(p)
    BY <1>4, <2>4, <2>6 DEF OnePlace, Single
  <2>7. CASE ~Here(p)
    BY <1>4, <1>6, <1>10, <2>2, <2>3, <2>5, <2>7 DEF OnePlace, Single
  <2> QED BY <2>6, <2>7
<1> QED BY <1>9, <1>10 DEF Kept

\* The part of a call is handled.
LEMMA KeptReplay ==
  ASSUME IndInv, NEW c \in Callers, Replay(c), NEW h, NEW at
  PROVE  Kept(h, at)
<1> DEFINE p == call[c].part
           e == [hash |-> p.hash, at |-> p.at, by |-> call[c].number]
           Here == p.hash = h /\ at \in p.at
<1>0. /\ handled \in Seq(Entry) /\ call[c].pc = "replay" /\ p \in Part /\ p # None
      /\ call[c].number \in 0..MaxCalls /\ call[c] \in Call /\ call \in [Callers -> Call]
  <2>1. handled \in Seq(Entry) /\ call[c].pc = "replay" /\ p \in Part
    BY PastFacts, CallFacts DEF CallFine, Replay
  <2>2. call[c].number \in 0..MaxCalls /\ call[c] \in Call /\ call \in [Callers -> Call]
    BY CallFacts DEF Call
  <2> QED BY <2>1, <2>2, MarketplacesAssumption DEF Part, Blocks
<1>1. /\ postponed' = postponed /\ discarded' = discarded
      /\ handled' = IF p.at = {} THEN handled ELSE Append(handled, e)
      /\ call' = [call EXCEPT ![c] = [call[c] EXCEPT !.pc = "save", !.part = None]]
  <2>1. Advance(c) /\ Handled(p.hash, p.at, call[c].number) /\ UNCHANGED <<postponed, discarded>>
    BY DEF Replay
  <2> QED BY <1>0, <2>1, AdvanceIs, ThenIs DEF Handled
<1>2. call'[c].part = None /\ \A d \in Callers : d # c => call'[d] = call[d]
  BY <1>0, <1>1 DEF Call
<1>3. Listing(h, at)' = Listing(h, at) /\ (Discarded(h, at)' <=> Discarded(h, at))
  BY <1>1 DEF Listing, Discarded
<1>4. \A d : d \in Replaying(h, at)' <=> d \in Replaying(h, at) /\ d # c
  BY <1>2 DEF Replaying
<1>5. c \in Replaying(h, at) <=> Here
  BY <1>0 DEF Replaying
<1>6. /\ Here => HandledAt(h, at)' = HandledAt(h, at) \cup {Len(handled) + 1}
      /\ ~Here => HandledAt(h, at)' = HandledAt(h, at)
  <2>1. e \in Entry
    BY <1>0 DEF Entry, Part
  <2>2. Here <=> e.hash = h /\ at \in e.at
    OBVIOUS
  <2>4. Here => p.at # {}
    OBVIOUS
  <2> HIDE DEF e, p, Here
  <2>3. /\ Here => Places(Append(handled, e), h, at) = Places(handled, h, at) \cup {Len(handled) + 1}
        /\ ~Here => Places(Append(handled, e), h, at) = Places(handled, h, at)
    <3>1. /\ e.hash = h /\ at \in e.at => Places(Append(handled, e), h, at) = Places(handled, h, at) \cup {Len(handled) + 1}
          /\ ~(e.hash = h /\ at \in e.at) => Places(Append(handled, e), h, at) = Places(handled, h, at)
      <4>1. handled \in Seq(Entry)
        BY <1>0
      <4> QED BY <2>1, <4>1, PlacesGrow
    <3> QED BY <2>2, <3>1
  <2>5. CASE p.at = {}
    <3>1. handled' = handled
      BY <1>1, <2>5
    <3> QED BY <2>4, <2>5, <3>1 DEF HandledAt
  <2>6. CASE p.at # {}
    <3>1. handled' = Append(handled, e)
      BY <1>1, <2>6
    <3> QED BY <2>3, <3>1, PlacesIs, PlacesNext
  <2> QED BY <2>5, <2>6
<1> HIDE DEF p, e, Here
<1>7. Somewhere(h, at)' <=> Somewhere(h, at)
  BY <1>3, <1>4, <1>5, <1>6 DEF Somewhere
<1>8. ASSUME OnePlace(h, at) PROVE OnePlace(h, at)'
  <2>1. CASE Here
    <3>1. /\ HandledAt(h, at) = {} /\ Listing(h, at) = {} /\ ~Discarded(h, at)
          /\ \A d \in Replaying(h, at) : d = c
      BY <1>5, <1>8, <2>1 DEF OnePlace, Single
    <3>2. HandledAt(h, at)' = {Len(handled) + 1} /\ Replaying(h, at)' = {}
      BY <1>4, <1>6, <2>1, <3>1
    <3> QED BY <1>3, <3>1, <3>2 DEF OnePlace, Single
  <2>2. CASE ~Here
    <3>1. HandledAt(h, at)' = HandledAt(h, at) /\ Replaying(h, at)' = Replaying(h, at)
      BY <1>4, <1>5, <1>6, <2>2
    <3> QED BY <1>3, <1>8, <3>1 DEF OnePlace, Single
  <2> QED BY <2>1, <2>2
<1> QED BY <1>7, <1>8 DEF Kept

\* What calls have popped is lost with them.
LEMMA KeptGiveUp ==
  ASSUME IndInv, NEW cs \in SUBSET Callers, DiscardedWith(cs), UNCHANGED <<handled, postponed>>,
         \A c \in Callers : call'[c] = IF c \in cs THEN IdleCall ELSE call[c], NEW h, NEW at
  PROVE  Kept(h, at)
<1>1. HandledAt(h, at)' = HandledAt(h, at) /\ Listing(h, at)' = Listing(h, at)
  BY DEF HandledAt, Listing
<1>2. \A c : c \in Replaying(h, at)' <=> c \in Replaying(h, at) /\ c \notin cs
  BY IdleTyped DEF Replaying
<1>3. Discarded(h, at)' <=> Discarded(h, at) \/ \E c \in cs : c \in Replaying(h, at)
  <2>1. \A c : [by |-> call[c].number, part |-> call[c].part].part = call[c].part
    OBVIOUS
  <2> QED BY <2>1 DEF DiscardedWith, Discarded, Replaying
<1>4. Somewhere(h, at)' <=> Somewhere(h, at)
  BY <1>1, <1>2, <1>3 DEF Somewhere
<1>5. ASSUME OnePlace(h, at) PROVE OnePlace(h, at)'
  <2>1. CASE \E c \in cs : c \in Replaying(h, at)
    <3>1. HandledAt(h, at) = {} /\ Listing(h, at) = {} /\ Replaying(h, at)' = {}
      BY <1>2, <1>5, <2>1 DEF OnePlace, Single
    <3> QED BY <1>1, <3>1 DEF OnePlace, Single
  <2>2. CASE ~\E c \in cs : c \in Replaying(h, at)
    <3>1. Replaying(h, at)' = Replaying(h, at)
      BY <1>2, <2>2
    <3> QED BY <1>1, <1>3, <1>5, <2>2, <3>1 DEF OnePlace, Single
  <2> QED BY <2>1, <2>2
<1> QED BY <1>4, <1>5 DEF Kept

\* The mutations, wherever they stop, leave every event in one place.
LEMMA KeptServe ==
  ASSUME IndInv, NEW c \in Callers, Serve(c) \/ CallFails(c) \/ PublishFails(c), NEW h, NEW at
  PROVE  Kept(h, at)
<1>0. call \in [Callers -> Call] /\ call[c] \in Call /\ CallFine(call[c])
  BY CallFacts
<1>1. ASSUME NEW op \in Op, NEW keys \in SUBSET Keys, Request(c, op, keys) PROVE Kept(h, at)
  <2> DEFINE k == [IdleCall EXCEPT !.op = op, !.pc = "read", !.rows = keys, !.number = calls + 1]
  <2>1. call[c].pc = "idle" /\ call' = [call EXCEPT ![c] = k] /\ UNCHANGED <<handled, postponed, discarded>>
    BY <1>1 DEF Request, historyVars
  <2>2. k.part = None
    BY DEF IdleCall
  <2> HIDE DEF k
  <2>3. \A d \in Callers : call'[d].part = call[d].part
    BY <1>0, <2>1, <2>2 DEF CallFine
  <2> QED BY <2>1, <2>3, PlacesSame
<1>2. CASE ReadRows(c)
  <2>1. \A d \in Callers : call'[d].part = call[d].part
    BY <1>0, <1>2 DEF ReadRows, Call
  <2>2. UNCHANGED <<handled, postponed, discarded>>
    BY <1>2 DEF ReadRows, historyVars
  <2> QED BY <2>1, <2>2, PlacesSame
<1>3. CASE PopPostponed(c) /\ postponed # <<>>
  BY <1>3, KeptPop
<1>4. CASE \/ PopPostponed(c) /\ postponed = <<>>
           \/ SaveRows(c) \/ PublishChange(c) \/ PublishFails(c)
  <2>1. /\ Advance(c) /\ call[c].pc \in {"pop", "save", "publish"} /\ UNCHANGED <<handled, postponed, discarded>>
    BY <1>4 DEF PopPostponed, SaveRows, PublishChange, PublishFails, historyVars
  <2>2. PICK k : /\ call' = [call EXCEPT ![c] = k]
                 /\ k = IF Then(call[c].pc) = "idle" THEN IdleCall
                        ELSE [call[c] EXCEPT !.pc = Then(call[c].pc), !.part = None]
    BY <2>1, AdvanceIs
  <2>3. k.part = None
    BY <1>0, <2>2 DEF Call, IdleCall
  <2>4. \A d \in Callers : call'[d].part = call[d].part
    BY <1>0, <2>1, <2>2, <2>3 DEF CallFine
  <2> QED BY <2>1, <2>4, PlacesSame
<1>5. CASE Replay(c)
  BY <1>5, KeptReplay
<1>6. CASE CallFails(c)
  <2>1. /\ DiscardedWith({c}) /\ UNCHANGED <<handled, postponed>>
        /\ \A d \in Callers : call'[d] = IF d \in {c} THEN IdleCall ELSE call[d]
    BY <1>0, <1>6 DEF CallFails
  <2> QED BY <2>1, KeptGiveUp
<1> QED BY <1>1, <1>2, <1>3, <1>4, <1>5, <1>6 DEF Serve

-----------------------------------------------------------------------------
\* A call's step, or one of the cache: the blocks in hand are where they were.
LEMMA EventsOfCall ==
  ASSUME EventsInv, UNCHANGED <<chain, pending, slot, torn, dead, crashed>>,
         \A h, at : Kept(h, at)
  PROVE  InHand' /\ ReadAlike' /\ Unborn' /\ Accounts'
<1>1. InHand' /\ ReadAlike'
  BY DEF EventsInv, InHand, ReadAlike, Reads
<1>2. Unborn'
  BY DEF EventsInv, Unborn, Kept
<1>3. ASSUME NEW h \in DOMAIN chain \ (torn \cup dead), NEW at \in chain[h] PROVE Account(h, at)'
  <2>1. Account(h, at) /\ Kept(h, at)
    BY DEF EventsInv, Accounts
  <2>2. \A w : Done(slot[w], at)' <=> Done(slot[w], at)
    BY DEF Done, Served
  <2>3. (Held(h)' <=> Held(h)) /\ (DoneSome(h, at)' <=> DoneSome(h, at)) /\ (DoneOnce(h, at)' <=> DoneOnce(h, at))
    BY <2>1, <2>2 DEF Held, DoneSome, DoneOnce, Kept
  <2> QED BY <2>1, <2>3 DEF Account, Kept
<1>4. Accounts'
  BY <1>3 DEF Accounts
<1> QED BY <1>1, <1>2, <1>4

LEMMA EventsServe ==
  ASSUME EventsInv, NEW c \in Callers, Serve(c) \/ CallFails(c) \/ PublishFails(c)
  PROVE  InHand' /\ ReadAlike' /\ Unborn' /\ Accounts'
<1>1. UNCHANGED <<chain, pending, slot, torn, dead, crashed>>
  BY DEF Serve, Request, ReadRows, PopPostponed, Replay, SaveRows, PublishChange, CallFails, PublishFails, blockVars,
         faultVars, historyVars
<1>2. \A h, at : Kept(h, at)
  BY KeptServe DEF EventsInv
<1> QED BY <1>1, <1>2, EventsOfCall

LEMMA EventsCache ==
  ASSUME EventsInv, ConsumeChange \/ Expire \/ UNCHANGED vars
  PROVE  InHand' /\ ReadAlike' /\ Unborn' /\ Accounts'
<1>1. UNCHANGED <<chain, pending, slot, torn, dead, crashed, handled, postponed, discarded, call>>
  BY DEF ConsumeChange, Expire, vars, blockVars, faultVars, historyVars
<1>2. \A h, at : Kept(h, at)
  BY <1>1, PlacesSame
<1> QED BY <1>1, <1>2, EventsOfCall

LEMMA EventsCrash ==
  ASSUME EventsInv, Crash PROVE InHand' /\ ReadAlike' /\ Unborn' /\ Accounts'
<1>1. /\ slot' = [w \in Workers |-> IdleSlot] /\ crashed' = TRUE /\ DiscardedWith(Callers)
      /\ \A c \in Callers : call'[c] = IF c \in Callers THEN IdleCall ELSE call[c]
      /\ UNCHANGED <<chain, pending, torn, dead, handled, postponed>>
  BY DEF Crash
<1>2. \A h, at : Kept(h, at)
  <2> SUFFICES ASSUME NEW h, NEW at PROVE Kept(h, at)
    OBVIOUS
  <2>1. Callers \in SUBSET Callers
    OBVIOUS
  <2> QED BY <1>1, <2>1, KeptGiveUp DEF EventsInv
<1>3. \A w \in Workers : slot'[w].pc = "idle" /\ slot'[w].seen = {}
  BY <1>1 DEF IdleSlot
<1>4. InHand' /\ ReadAlike'
  BY <1>3 DEF InHand, ReadAlike, Reads
<1>5. Unborn'
  BY <1>1, <1>2 DEF EventsInv, Unborn, Kept
<1>6. ASSUME NEW h \in DOMAIN chain \ (torn \cup dead), NEW at \in chain[h] PROVE Account(h, at)'
  <2>1. Account(h, at) /\ Kept(h, at)
    BY <1>2 DEF EventsInv, Accounts
  <2>2. DoneSome(h, at)'
    BY <1>3 DEF DoneSome, Done
  <2>3. (h \notin pending => Somewhere(h, at))'
    BY <1>1, <2>1 DEF Account, Kept
  <2> QED BY <1>1, <2>2, <2>3 DEF Account
<1>7. Accounts'
  BY <1>1, <1>6 DEF Accounts
<1> QED BY <1>4, <1>5, <1>7

-----------------------------------------------------------------------------
\* A worker's step that loses no event: what there is to show of its own block.
LEMMA EventsOfWorker ==
  ASSUME EventsInv, NEW w \in Workers, UNCHANGED <<chain, crashed>>,
         \A v \in Workers : v # w => slot'[v] = slot[v],
         pending' \subseteq pending, torn \subseteq torn', dead \subseteq dead',
         slot'[w].pc # "idle" => slot'[w].hash \in pending' /\ \A v \in Workers : v # w /\ slot[v].pc # "idle" => slot[v].hash # slot'[w].hash,
         slot'[w].hash \in torn' \/ Reads(slot'[w]),
         \A v \in Workers : v # w /\ slot[v].pc # "idle" => slot[v].hash \in pending',
         \A h \in Blocks \ DOMAIN chain : \A at : Kept(h, at),
         \A h \in DOMAIN chain \ (torn' \cup dead') : \A at \in chain[h] : Account(h, at)'
  PROVE  InHand' /\ ReadAlike' /\ Unborn' /\ Accounts'
<1>1. InHand'
  <2> SUFFICES ASSUME NEW u \in Workers, slot'[u].pc # "idle"
               PROVE  /\ slot'[u].hash \in pending'
                      /\ \A v \in Workers : slot'[v].pc # "idle" /\ slot'[v].hash = slot'[u].hash => v = u
    BY DEF InHand
  <2>1. CASE u = w
    BY <2>1
  <2>2. CASE u # w
    BY <2>2 DEF EventsInv, InHand
  <2> QED BY <2>1, <2>2
<1>2. ReadAlike'
  <2> SUFFICES ASSUME NEW u \in Workers PROVE slot'[u].hash \in torn' \/ Reads(slot'[u])
    BY DEF ReadAlike, Reads
  <2>1. CASE u = w
    BY <2>1
  <2>2. CASE u # w
    BY <2>2 DEF EventsInv, ReadAlike
  <2> QED BY <2>1, <2>2
<1>3. Unborn'
  BY DEF EventsInv, Unborn, Kept
<1>4. Accounts'
  BY DEF Accounts
<1> QED BY <1>1, <1>2, <1>3, <1>4

\* What the invariant says of the block in a worker's hands.
LEMMA HandFacts ==
  ASSUME EventsInv, NEW w \in Workers, slot[w].pc # "idle"
  PROVE  /\ slot[w].hash \in pending /\ slot[w].hash \in DOMAIN chain
         /\ \A v \in Workers : v # w /\ slot[v].pc # "idle" => slot[v].hash # slot[w].hash
  BY Parts DEF EventsInv, InHand, BlocksTyped

\* The other workers' blocks stay pending when a worker's own is taken off.
LEMMA ChainFacts ==
  ASSUME EventsInv
  PROVE  /\ chain \in Seq(SUBSET Addresses) /\ pending \subseteq DOMAIN chain /\ DOMAIN chain \subseteq Blocks
         /\ \A v \in Workers : slot[v].pc # "idle" => slot[v].hash \in pending
<1>1. chain \in Seq(SUBSET Addresses) /\ pending \subseteq DOMAIN chain /\ Len(chain) <= MaxBlocks
  BY Parts DEF EventsInv, BlocksTyped
<1>2. DOMAIN chain \subseteq Blocks
  BY <1>1, Bounds DEF Blocks
<1> QED BY <1>1, <1>2 DEF EventsInv, InHand

LEMMA EventsTake ==
  ASSUME EventsInv, NEW w \in Workers, Take(w)
  PROVE  InHand' /\ ReadAlike' /\ Unborn' /\ Accounts'
<1>1. PICK g \in pending \ Taken : slot' = [slot EXCEPT ![w] = [IdleSlot EXCEPT !.hash = g, !.pc = "internal"]]
  BY DEF Take
<1>2. /\ slot[w].pc = "idle"
      /\ UNCHANGED <<chain, pending, postponed, call, handled, discarded, torn, dead, crashed>>
  BY DEF Take, faultVars, historyVars
<1>3. /\ slot'[w].hash = g /\ slot'[w].pc = "internal" /\ slot'[w].seen = {}
      /\ \A v \in Workers : v # w => slot'[v] = slot[v]
  BY <1>1, SlotFacts DEF EventsInv, IdleSlot
<1>4. \A v \in Workers : slot[v].hash # g
  BY DEF Taken
<1>5. \A h, at : Kept(h, at)
  BY <1>2, PlacesSame
<1>6. ASSUME NEW h \in DOMAIN chain \ (torn' \cup dead'), NEW at \in chain[h] PROVE Account(h, at)'
  <2>1. Account(h, at) /\ (Somewhere(h, at)' <=> Somewhere(h, at)) /\ (OnePlace(h, at) => OnePlace(h, at)')
    BY <1>2, <1>5 DEF EventsInv, Accounts, Kept
  <2>2. \A v \in Workers : Done(slot'[v], at) => v # w
    BY <1>3 DEF Done
  <2>3. DoneSome(h, at)'
    <3> SUFFICES ASSUME NEW v \in Workers, slot'[v].hash = h, Done(slot'[v], at) PROVE Somewhere(h, at)
      BY <2>1 DEF DoneSome, Done, Served
    <3> QED BY <1>3, <2>1, <2>2 DEF Account, DoneSome
  <2>4. Held(h) => Held(h)'
    BY <1>2, <1>3 DEF Held
  <2>5. ~Held(g)
    BY <1>4 DEF Held
  <2>6. ASSUME ~crashed PROVE DoneOnce(h, at)'
    <3> SUFFICES ASSUME NEW v \in Workers, slot'[v].pc # "idle", slot'[v].hash = h, Somewhere(h, at)
                 PROVE Done(slot'[v], at)
      BY <2>1 DEF DoneOnce, Done, Served
    <3>1. CASE v = w
      <4>1. h = g
        BY <1>3, <3>1
      <4>2. h \in pending /\ ~Held(h)
        BY <2>5, <4>1
      <4> QED BY <2>1, <2>6, <4>2 DEF Account
    <3>2. CASE v # w
      BY <1>3, <2>1, <2>6, <3>2 DEF Account, DoneOnce
    <3> QED BY <3>1, <3>2
  <2> QED BY <1>2, <2>1, <2>3, <2>4, <2>6 DEF Account
<1> QED
  <2>1. slot'[w].hash \in torn' \/ Reads(slot'[w])
    BY <1>3 DEF Reads
  <2>2. slot'[w].hash \in pending' /\ pending' \subseteq pending /\ torn \subseteq torn' /\ dead \subseteq dead'
    BY <1>2, <1>3
  <2>3. \A v \in Workers : v # w /\ slot[v].pc # "idle" => slot[v].hash # slot'[w].hash
    BY <1>3, <1>4
  <2>4. \A v \in Workers : v # w /\ slot[v].pc # "idle" => slot[v].hash \in pending'
    BY <1>2, ChainFacts
  <2> QED BY <1>2, <1>3, <1>5, <1>6, <2>1, <2>2, <2>3, <2>4, EventsOfWorker

LEMMA TwoElements == ASSUME NEW u, NEW t, u # t PROVE Cardinality({u, t}) = 2
<1>1. IsFiniteSet({u}) /\ Cardinality({u}) = 1
  BY FS_Singleton
<1>2. {u, t} = {u} \cup {t} /\ t \notin {u}
  OBVIOUS
<1> QED BY <1>1, <1>2, FS_AddElement

\* The fields of a slot whose list has been read.
LEMMA ListedIs ==
  ASSUME NEW s \in Slot, s.pc \in Reading, NEW t
  PROVE  /\ Listed(s, t).hash = s.hash /\ Listed(s, t).pc = NextPC[s.pc] /\ Listed(s, t).seen = s.seen \cup {t}
         /\ Listed(s, t).internal = IF s.pc = "internal" THEN At(t, "Enable", Internal) ELSE s.internal
         /\ Listed(s, t).external = IF s.pc = "external" THEN At(t, "Enable", External) ELSE s.external
         /\ Listed(s, t).disabled = IF s.pc = "disabled" THEN DisabledAt(t) ELSE s.disabled
<1> DEFINE at == CASE s.pc = "internal" -> [s EXCEPT !.internal = At(t, "Enable", Internal)]
                   [] s.pc = "external" -> [s EXCEPT !.external = At(t, "Enable", External)]
                   [] s.pc = "disabled" -> [s EXCEPT !.disabled = DisabledAt(t)]
<1>1. /\ DOMAIN at = DOMAIN s /\ at.hash = s.hash /\ at.seen = s.seen
      /\ at.internal = IF s.pc = "internal" THEN At(t, "Enable", Internal) ELSE s.internal
      /\ at.external = IF s.pc = "external" THEN At(t, "Enable", External) ELSE s.external
      /\ at.disabled = IF s.pc = "disabled" THEN DisabledAt(t) ELSE s.disabled
  <2>1. CASE s.pc = "internal"
    <3>1. at = [s EXCEPT !.internal = At(t, "Enable", Internal)]
      BY <2>1
    <3> HIDE DEF at
    <3> QED BY <2>1, <3>1 DEF Slot
  <2>2. CASE s.pc = "external"
    <3>1. at = [s EXCEPT !.external = At(t, "Enable", External)]
      BY <2>2
    <3> HIDE DEF at
    <3> QED BY <2>2, <3>1 DEF Slot
  <2>3. CASE s.pc = "disabled"
    <3>1. at = [s EXCEPT !.disabled = DisabledAt(t)]
      BY <2>3
    <3> HIDE DEF at
    <3> QED BY <2>3, <3>1 DEF Slot
  <2> QED BY <2>1, <2>2, <2>3 DEF Reading
<1>2. Listed(s, t) = [at EXCEPT !.pc = NextPC[s.pc], !.table = None, !.seen = @ \cup {t}]
  BY Zenon DEF Listed
<1>3. DOMAIN s = DOMAIN IdleSlot
  BY IdleTyped DEF Slot
<1> HIDE DEF at
<1> QED BY <1>1, <1>2, <1>3 DEF IdleSlot

\* The next list is of the same table, unless the block is torn.
LEMMA ReadsListed ==
  ASSUME NEW s \in Slot, s.pc \in Reading, NEW t \in Table, Reads(s),
         ~(Cardinality(Listed(s, t).seen) > 1), \A u \in Listed(s, t).seen : ~Split(u)
  PROVE  Reads(Listed(s, t))
<1> DEFINE l == Listed(s, t)
<1>0. /\ l.pc = NextPC[s.pc] /\ l.seen = s.seen \cup {t}
      /\ l.internal = IF s.pc = "internal" THEN At(t, "Enable", Internal) ELSE s.internal
      /\ l.external = IF s.pc = "external" THEN At(t, "Enable", External) ELSE s.external
      /\ l.disabled = IF s.pc = "disabled" THEN DisabledAt(t) ELSE s.disabled
      /\ ~(Cardinality(l.seen) > 1) /\ ~Split(t)
  BY ListedIs
<1> HIDE DEF l
<1>1. CASE s.pc = "internal"
  <2>1. s.seen = {} /\ l.pc = "external"
    BY <1>0, <1>1 DEF Reads, NextPC
  <2>2. l.seen = {t}
    BY <1>0, <2>1
  <2> QED BY <1>0, <1>1, <2>1, <2>2 DEF Reads, l
<1>2. CASE s.pc # "internal"
  <2>1. PICK u \in Table : /\ s.seen = {u} /\ s.internal = At(u, "Enable", Internal)
                           /\ s.pc # "external" => s.external = At(u, "Enable", External)
    BY <1>2 DEF Reads, Reading
  <2>2. u = t
    <3> SUFFICES ASSUME u # t PROVE FALSE
      OBVIOUS
    <3>1. Cardinality({u, t}) = 2
      BY TwoElements
    <3>2. l.seen = {u, t}
      BY <1>0, <2>1
    <3> QED BY <1>0, <3>1, <3>2
  <2>3. CASE s.pc = "external"
    <3>1. l.pc = "disabled"
      BY <1>0, <2>3 DEF NextPC
    <3>2. l.seen = {t}
      BY <1>0, <2>1, <2>2
    <3> QED BY <1>0, <2>1, <2>2, <2>3, <3>1, <3>2 DEF Reads, l
  <2>4. CASE s.pc = "disabled"
    <3>1. l.pc = "handle"
      BY <1>0, <2>4 DEF NextPC
    <3>2. l.seen = {t}
      BY <1>0, <2>1, <2>2
    <3> QED BY <1>0, <2>1, <2>2, <2>4, <3>1, <3>2 DEF Reads, l
  <2> QED BY <1>2, <2>3, <2>4 DEF Reading
<1> QED BY <1>1, <1>2

\* A list is read, or its table fetched: nothing has been done of the block.
LEMMA EventsReads ==
  ASSUME EventsInv, NEW w \in Workers, slot[w].pc \in Reading,
         \A v \in Workers : v # w => slot'[v] = slot[v],
         slot'[w].hash = slot[w].hash, slot'[w].pc \in Reading \cup {"handle"},
         slot'[w].hash \in torn' \/ Reads(slot'[w]), torn \subseteq torn',
         UNCHANGED <<chain, pending, postponed, call, handled, discarded, dead, crashed>>
  PROVE  InHand' /\ ReadAlike' /\ Unborn' /\ Accounts'
<1>1. \A h, at : Kept(h, at)
  BY PlacesSame
<1>2. ASSUME NEW h \in DOMAIN chain \ (torn' \cup dead'), NEW at \in chain[h] PROVE Account(h, at)'
  <2>1. Account(h, at) /\ (Somewhere(h, at)' <=> Somewhere(h, at)) /\ (OnePlace(h, at) => OnePlace(h, at)')
    BY <1>1 DEF EventsInv, Accounts, Kept
  <2>2. ~Done(slot'[w], at) /\ ~Done(slot[w], at)
    BY DEF Done, Reading
  <2>3. \A v \in Workers : Done(slot'[v], at) <=> Done(slot[v], at)
    BY <2>2
  <2>4. \A v \in Workers : slot'[v].hash = slot[v].hash /\ (slot'[v].pc # "idle" <=> slot[v].pc # "idle")
    BY DEF Reading
  <2>5. DoneSome(h, at) => DoneSome(h, at)'
    <3> SUFFICES ASSUME DoneSome(h, at), NEW v \in Workers, slot'[v].hash = h, Done(slot'[v], at)
                 PROVE  Somewhere(h, at)
      BY <2>1 DEF DoneSome, Done, Served
    <3> QED BY <2>3, <2>4 DEF DoneSome
  <2>6. DoneOnce(h, at) => DoneOnce(h, at)'
    <3> SUFFICES ASSUME DoneOnce(h, at), NEW v \in Workers, slot'[v].pc # "idle", slot'[v].hash = h, Somewhere(h, at)
                 PROVE  Done(slot'[v], at)
      BY <2>1 DEF DoneOnce, Done, Served
    <3> QED BY <2>3, <2>4 DEF DoneOnce
  <2>7. Held(h)' <=> Held(h)
    BY <2>4 DEF Held
  <2> QED BY <2>1, <2>5, <2>6, <2>7 DEF Account
<1>3. slot[w].pc # "idle"
  BY DEF Reading
<1>4. slot'[w].hash \in pending' /\ \A v \in Workers : v # w /\ slot[v].pc # "idle" => slot[v].hash # slot'[w].hash
  BY <1>3, HandFacts
<1>5. \A v \in Workers : v # w /\ slot[v].pc # "idle" => slot[v].hash \in pending'
  BY ChainFacts
<1>6. pending' \subseteq pending /\ dead \subseteq dead'
  OBVIOUS
<1> QED BY <1>1, <1>2, <1>4, <1>5, <1>6, EventsOfWorker

\* The lists of the block stay of one table, or the block is torn.
LEMMA EventsListed ==
  ASSUME EventsInv, NEW w \in Workers, slot[w].pc \in Reading, NEW t \in Table,
         slot'[w] = Listed(slot[w], t), TornBy(w)
  PROVE  /\ slot'[w].hash = slot[w].hash /\ slot'[w].pc \in Reading \cup {"handle"}
         /\ slot'[w].hash \in torn' \/ Reads(slot'[w])
         /\ torn \subseteq torn'
<1>1. slot[w] \in Slot
  BY SlotFacts DEF EventsInv
<1>2. slot'[w].hash = slot[w].hash /\ slot'[w].pc = NextPC[slot[w].pc]
  BY <1>1, ListedIs
<1>3. slot'[w].pc \in Reading \cup {"handle"}
  BY <1>2 DEF NextPC, Reading
<1>4. torn \subseteq torn'
  BY DEF TornBy
<1>5. ASSUME slot[w].hash \notin torn' PROVE Reads(slot'[w])
  <2>1. ~(Cardinality(slot'[w].seen) > 1) /\ \A u \in slot'[w].seen : ~Split(u)
    BY <1>5 DEF TornBy
  <2>2. Reads(slot[w])
    BY <1>4, <1>5 DEF EventsInv, ReadAlike
  <2> QED BY <1>1, <2>1, <2>2, ReadsListed
<1> QED BY <1>2, <1>3, <1>4, <1>5

LEMMA EventsRead ==
  ASSUME EventsInv, NEW w \in Workers, ListFromCache(w) \/ FetchTable(w) \/ FillCache(w)
  PROVE  InHand' /\ ReadAlike' /\ Unborn' /\ Accounts'
<1>0. /\ slot[w] \in Slot /\ SlotFine(slot[w]) /\ slot \in [Workers -> Slot]
      /\ cached \in Table \cup {None}
  BY SlotFacts, PastFacts DEF EventsInv
<1>1. CASE ListFromCache(w) \/ FillCache(w)
  <2>1. PICK t \in Table : slot' = [slot EXCEPT ![w] = Listed(slot[w], t)]
    BY <1>0, <1>1 DEF ListFromCache, FillCache, Slot
  <2>2. slot[w].pc \in Reading /\ TornBy(w)
    BY <1>0, <1>1 DEF ListFromCache, FillCache, SlotFine
  <2>3. slot'[w] = Listed(slot[w], t) /\ \A v \in Workers : v # w => slot'[v] = slot[v]
    BY <1>0, <2>1
  <2>4. UNCHANGED <<chain, pending, postponed, call, handled, discarded, dead, crashed>>
    BY <1>1 DEF ListFromCache, FillCache, faultVars
  <2>5. /\ slot'[w].hash = slot[w].hash /\ slot'[w].pc \in Reading \cup {"handle"}
        /\ slot'[w].hash \in torn' \/ Reads(slot'[w])
        /\ torn \subseteq torn'
    BY <2>2, <2>3, EventsListed
  <2> QED BY <2>2, <2>3, <2>4, <2>5, EventsReads
<1>2. CASE FetchTable(w)
  <2>1. slot[w].pc \in Reading /\ slot' = [slot EXCEPT ![w] = [slot[w] EXCEPT !.table = rows]]
    BY <1>0, <1>2 DEF FetchTable
  <2>2. /\ slot'[w].hash = slot[w].hash /\ slot'[w].pc = slot[w].pc /\ slot'[w].seen = slot[w].seen
        /\ slot'[w].internal = slot[w].internal /\ slot'[w].external = slot[w].external
        /\ slot'[w].disabled = slot[w].disabled
        /\ \A v \in Workers : v # w => slot'[v] = slot[v]
    BY <1>0, <2>1 DEF Slot
  <2>3. UNCHANGED <<chain, pending, postponed, call, handled, discarded, torn, dead, crashed>>
    BY <1>2 DEF FetchTable, faultVars, historyVars
  <2>4. slot'[w].hash \in torn' \/ Reads(slot'[w])
    BY <2>2, <2>3 DEF EventsInv, ReadAlike, Reads
  <2> QED BY <2>1, <2>2, <2>3, <2>4, EventsReads
<1> QED BY <1>1, <1>2

\* A block is acknowledged, or goes to the dead letters.
LEMMA EventsLeave ==
  ASSUME EventsInv, NEW w \in Workers, Acknowledge(w) \/ BlockFails(w)
  PROVE  InHand' /\ ReadAlike' /\ Unborn' /\ Accounts'
<1>1. /\ slot[w].pc # "idle" /\ pending' = pending \ {slot[w].hash}
      /\ slot'[w] = IdleSlot /\ \A v \in Workers : v # w => slot'[v] = slot[v]
      /\ UNCHANGED <<chain, postponed, call, handled, discarded, torn, crashed>> /\ dead \subseteq dead'
      /\ slot[w].pc = "ack" \/ slot[w].hash \in dead'
  BY SlotFacts DEF EventsInv, Acknowledge, BlockFails, faultVars, historyVars
<1>2. \A h, at : Kept(h, at)
  BY <1>1, PlacesSame
<1>3. slot'[w].pc = "idle" /\ slot'[w].seen = {}
  BY <1>1 DEF IdleSlot
<1>4. ASSUME NEW h \in DOMAIN chain \ (torn' \cup dead'), NEW at \in chain[h] PROVE Account(h, at)'
  <2>1. Account(h, at) /\ (Somewhere(h, at)' <=> Somewhere(h, at)) /\ (OnePlace(h, at) => OnePlace(h, at)')
    BY <1>1, <1>2 DEF EventsInv, Accounts, Kept
  <2>2. ~Done(slot'[w], at)
    BY <1>3 DEF Done
  <2>3. DoneSome(h, at)'
    <3> SUFFICES ASSUME NEW v \in Workers, slot'[v].hash = h, Done(slot'[v], at) PROVE Somewhere(h, at)
      BY <2>1 DEF DoneSome, Done, Served
    <3> QED BY <1>1, <2>1, <2>2 DEF Account, DoneSome
  <2>4. ASSUME ~crashed PROVE DoneOnce(h, at)'
    <3> SUFFICES ASSUME NEW v \in Workers, slot'[v].pc # "idle", slot'[v].hash = h, Somewhere(h, at)
                 PROVE Done(slot'[v], at)
      BY <2>1 DEF DoneOnce, Done, Served
    <3> QED BY <1>1, <1>3, <2>1, <2>4 DEF Account, DoneOnce
  <2>5. h \notin pending' => Somewhere(h, at)
    <3>1. CASE h = slot[w].hash
      <4>1. Done(slot[w], at)
        BY <1>1, <3>1 DEF Done
      <4> QED BY <2>1, <3>1, <4>1 DEF Account, DoneSome
    <3>2. CASE h # slot[w].hash
      BY <1>1, <2>1, <3>2 DEF Account
    <3> QED BY <3>1, <3>2
  <2>6. h \in pending' /\ Held(h) => h \in pending /\ Held(h)'
    BY <1>1 DEF Held
  <2>7. h \in pending' => h \in pending
    BY <1>1
  <2> QED BY <1>1, <2>1, <2>3, <2>4, <2>5, <2>6, <2>7 DEF Account
<1>5. slot'[w].hash \in torn' \/ Reads(slot'[w])
  BY <1>3 DEF Reads
<1>6. pending' \subseteq pending /\ torn \subseteq torn'
  BY <1>1
<1>7. \A v \in Workers : v # w /\ slot[v].pc # "idle" => slot[v].hash \in pending'
  BY <1>1, HandFacts, ChainFacts
<1> QED BY <1>1, <1>2, <1>3, <1>4, <1>5, <1>6, <1>7, EventsOfWorker

LEMMA EventsEmit ==
  ASSUME EventsInv, NEW new \in SUBSET Addresses, Emit(new)
  PROVE  InHand' /\ ReadAlike' /\ Unborn' /\ Accounts'
<1>1. /\ chain' = Append(chain, new) /\ pending' = pending \cup {Len(chain) + 1} /\ Len(chain) < MaxBlocks
      /\ UNCHANGED <<slot, postponed, call, handled, discarded, torn, dead, crashed>>
  BY DEF Emit, faultVars, historyVars
<1>2. \A h, at : Kept(h, at)
  BY <1>1, PlacesSame
<1>3. /\ chain \in Seq(SUBSET Addresses) /\ pending \subseteq DOMAIN chain
      /\ \A v \in Workers : slot[v].pc # "idle" => slot[v].hash \in pending
  BY ChainFacts
<1>4. /\ DOMAIN chain' = DOMAIN chain \cup {Len(chain) + 1} /\ Len(chain) + 1 \notin DOMAIN chain
      /\ \A h \in DOMAIN chain : chain'[h] = chain[h]
      /\ Len(chain) + 1 \in Blocks /\ chain'[Len(chain) + 1] = new
  BY <1>1, <1>3, Bounds DEF Blocks
<1>5. InHand' /\ ReadAlike'
  BY <1>1 DEF EventsInv, InHand, ReadAlike, Reads
<1>6. Unborn'
  BY <1>2, <1>4 DEF EventsInv, Unborn, Kept
<1>7. ASSUME NEW h \in DOMAIN chain' \ (torn \cup dead), NEW at \in chain'[h] PROVE Account(h, at)'
  <2>0. (Somewhere(h, at)' <=> Somewhere(h, at)) /\ (OnePlace(h, at) => OnePlace(h, at)')
    BY <1>2 DEF Kept
  <2>1. \A v : Done(slot[v], at)' <=> Done(slot[v], at)
    BY <1>1 DEF Done, Served
  <2>2. (Held(h)' <=> Held(h)) /\ (DoneSome(h, at)' <=> DoneSome(h, at)) /\ (DoneOnce(h, at)' <=> DoneOnce(h, at))
    BY <1>1, <2>0, <2>1 DEF Held, DoneSome, DoneOnce
  <2>3. CASE h \in DOMAIN chain
    <3>1. Account(h, at) /\ h # Len(chain) + 1
      BY <1>4, <2>3 DEF EventsInv, Accounts
    <3> QED BY <1>1, <2>0, <2>2, <3>1 DEF Account
  <2>4. CASE h = Len(chain) + 1
    <3>1. ~Somewhere(h, at)
      BY <1>4, <2>4 DEF EventsInv, Unborn
    <3>2. h \in pending'
      BY <1>1, <2>4
    <3>3. \A v \in Workers : slot[v].pc # "idle" => slot[v].hash # h
      BY <1>3, <1>4, <2>4
    <3>4. DoneSome(h, at) /\ DoneOnce(h, at)
      BY <3>1, <3>3 DEF DoneSome, DoneOnce, Done
    <3>5. OnePlace(h, at)
      BY <3>1 DEF Somewhere, OnePlace, Single
    <3> QED BY <2>0, <2>2, <3>1, <3>2, <3>4, <3>5 DEF Account
  <2> QED BY <1>4, <2>3, <2>4
<1>8. Accounts'
  BY <1>1, <1>7 DEF Accounts
<1> QED BY <1>5, <1>6, <1>8

\* With one table, each contract is either served or disabled.
LEMMA ServedOrDisabled ==
  ASSUME NEW t \in Table, ~Split(t), NEW at \in Addresses, NEW k \in Keys, Address[k] = at
  PROVE  /\ at \in At(t, "Enable", Internal) \cup At(t, "Enable", External) <=> t[k] = "Enable"
         /\ at \in DisabledAt(t) <=> t[k] = "Disable"
         /\ t[k] = "Enable" <=> t[k] # "Disable"
<1>1. \A j \in Keys : t[j] \in {"Enable", "Disable"} /\ (Address[j] = at => t[j] = t[k])
  BY DEF Table, State, Split
<1>2. \A state : at \in {Address[j] : j \in {i \in Keys : t[i] = state}} <=> t[k] = state
  BY <1>1
<1>3. at \in Internal \/ at \in External
  BY DEF Internal
<1> QED BY <1>1, <1>2, <1>3 DEF At, DisabledAt

\* The block's own events after a worker has handled or postponed some.
LEMMA AccountWorks ==
  ASSUME EventsInv, NEW w \in Workers, slot[w].pc # "idle",
         NEW h, h = slot[w].hash, NEW at,
         UNCHANGED <<pending, crashed>>,
         \A v \in Workers : v # w => slot'[v] = slot[v],
         slot'[w].hash = h, slot'[w].pc # "idle",
         Done(slot'[w], at) => Somewhere(h, at)',
         ~crashed => OnePlace(h, at)' /\ (Somewhere(h, at)' => Done(slot'[w], at))
  PROVE  Account(h, at)'
<1>1. h \in pending /\ \A v \in Workers : v # w /\ slot[v].pc # "idle" => slot[v].hash # h
  BY HandFacts
<1>2. DoneSome(h, at)'
  <2> SUFFICES ASSUME NEW v \in Workers, slot'[v].hash = h, Done(slot'[v], at) PROVE Somewhere(h, at)'
    BY DEF DoneSome, Done, Served
  <2>1. v = w
    BY <1>1 DEF Done
  <2> QED BY <2>1
<1>3. ASSUME ~crashed PROVE DoneOnce(h, at)'
  <2> SUFFICES ASSUME NEW v \in Workers, slot'[v].pc # "idle", slot'[v].hash = h, Somewhere(h, at)'
               PROVE  Done(slot'[v], at)
    BY DEF DoneOnce, Done, Served
  <2>1. v = w
    BY <1>1
  <2> QED BY <1>3, <2>1
<1>4. Held(h)'
  BY DEF Held
<1> QED BY <1>1, <1>2, <1>3, <1>4 DEF Account

\* Of another block nothing changed.
LEMMA AccountElsewhere ==
  ASSUME NEW w \in Workers, NEW h, NEW at, Account(h, at), Kept(h, at), UNCHANGED <<pending, crashed>>,
         slot[w].hash # h, slot'[w].hash # h, \A v \in Workers : v # w => slot'[v] = slot[v]
  PROVE  Account(h, at)'
<1>1. (Somewhere(h, at)' <=> Somewhere(h, at)) /\ (OnePlace(h, at) => OnePlace(h, at)')
  BY DEF Kept
<1>2. DoneSome(h, at)'
  <2> SUFFICES ASSUME NEW v \in Workers, slot'[v].hash = h, Done(slot'[v], at) PROVE Somewhere(h, at)
    BY <1>1 DEF DoneSome, Done, Served
  <2>1. slot'[v] = slot[v]
    OBVIOUS
  <2> QED BY <2>1 DEF Account, DoneSome
<1>3. ASSUME ~crashed PROVE DoneOnce(h, at)'
  <2> SUFFICES ASSUME NEW v \in Workers, slot'[v].pc # "idle", slot'[v].hash = h, Somewhere(h, at)
               PROVE  Done(slot'[v], at)
    BY <1>1 DEF DoneOnce, Done, Served
  <2>1. slot'[v] = slot[v]
    OBVIOUS
  <2> QED BY <1>3, <2>1 DEF Account, DoneOnce
<1>4. Held(h) => Held(h)'
  BY DEF Held
<1> QED BY <1>1, <1>2, <1>3, <1>4 DEF Account

\* A worker that handles or postpones: its slot, and what follows from it.
LEMMA EventsWork ==
  ASSUME EventsInv, NEW w \in Workers, Handle(w) \/ Postpone(w), NEW own, own = slot[w].hash,
         \A at : own \in DOMAIN chain \ (torn \cup dead) /\ at \in chain[own] => Account(own, at)'
  PROVE  InHand' /\ ReadAlike' /\ Unborn' /\ Accounts'
<1>1. /\ slot[w].pc # "idle" /\ slot'[w].pc # "idle" /\ slot'[w].hash = slot[w].hash
      /\ Reads(slot[w]) => Reads(slot'[w])
      /\ \A v \in Workers : v # w => slot'[v] = slot[v]
      /\ UNCHANGED <<chain, pending, torn, dead, crashed>>
  <2>1. PICK pc \in {"postpone", "ack"} : slot' = [slot EXCEPT ![w] = [slot[w] EXCEPT !.pc = pc]]
    BY SlotFacts DEF EventsInv, Handle, Postpone
  <2>2. slot[w].pc \in {"handle", "postpone"}
    BY DEF Handle, Postpone
  <2>3. /\ slot'[w].pc = pc /\ slot'[w].hash = slot[w].hash /\ slot'[w].seen = slot[w].seen
        /\ slot'[w].internal = slot[w].internal /\ slot'[w].external = slot[w].external
        /\ slot'[w].disabled = slot[w].disabled
        /\ \A v \in Workers : v # w => slot'[v] = slot[v]
    BY <2>1, SlotFacts DEF EventsInv, Slot
  <2>4. Reads(slot[w]) => Reads(slot'[w])
    BY <2>2, <2>3 DEF Reads
  <2>5. UNCHANGED <<chain, pending, torn, dead, crashed>>
    BY DEF Handle, Postpone, faultVars, historyVars
  <2> QED BY <2>2, <2>3, <2>4, <2>5
<1>2. slot'[w].hash \in torn' \/ Reads(slot'[w])
  BY <1>1 DEF EventsInv, ReadAlike
<1>3. /\ slot[w].hash \in pending /\ slot[w].hash \in DOMAIN chain
      /\ \A v \in Workers : v # w /\ slot[v].pc # "idle" => slot[v].hash # slot'[w].hash
  BY <1>1, HandFacts
<1>4. \A v \in Workers : v # w /\ slot[v].pc # "idle" => slot[v].hash \in pending'
  BY <1>1, ChainFacts
<1>5. ASSUME NEW h, h # slot[w].hash, NEW at PROVE Kept(h, at)
  BY <1>5, KeptElsewhere DEF EventsInv
<1>6. \A h \in Blocks \ DOMAIN chain : \A at : Kept(h, at)
  BY <1>3, <1>5
<1>7. ASSUME NEW h \in DOMAIN chain \ (torn' \cup dead'), NEW at \in chain[h] PROVE Account(h, at)'
  <2>1. CASE h = own
    BY <1>1, <2>1
  <2>2. CASE h # own
    <3>1. Account(h, at) /\ Kept(h, at)
      BY <1>1, <1>5, <2>2 DEF EventsInv, Accounts
    <3> QED BY <1>1, <2>2, <3>1, AccountElsewhere
  <2> QED BY <2>1, <2>2
<1>8. pending' \subseteq pending /\ torn \subseteq torn' /\ dead \subseteq dead' /\ UNCHANGED <<chain, crashed>>
  BY <1>1
<1>9. slot'[w].hash \in pending'
  BY <1>1, <1>3
<1> HIDE DEF EventsInv
<1> QED BY <1>1, <1>2, <1>3, <1>4, <1>6, <1>7, <1>8, <1>9, EventsOfWorker

LEMMA EventsHandle ==
  ASSUME EventsInv, NEW w \in Workers, Handle(w)
  PROVE  InHand' /\ ReadAlike' /\ Unborn' /\ Accounts'
<1>0. PICK h : h = slot[w].hash
  OBVIOUS
<1> DEFINE served == chain[h] \cap (slot[w].internal \cup slot[w].external)
           e == [hash |-> h, at |-> served, by |-> 0]
<1>1. /\ slot[w].pc = "handle" /\ slot' = [slot EXCEPT ![w] = [slot[w] EXCEPT !.pc = "postpone"]]
      /\ handled' = IF served = {} THEN handled ELSE Append(handled, e)
      /\ UNCHANGED <<pending, crashed, postponed, call, discarded>>
  BY <1>0, SlotFacts DEF EventsInv, Handle, Handled, faultVars
<1>2. /\ slot'[w].pc = "postpone" /\ slot'[w].hash = h
      /\ slot'[w].internal = slot[w].internal /\ slot'[w].external = slot[w].external
      /\ \A v \in Workers : v # w => slot'[v] = slot[v]
  BY <1>0, <1>1, SlotFacts DEF EventsInv, Slot
<1>3. handled \in Seq(Entry) /\ e \in Entry
  <2>1. h \in Blocks /\ served \subseteq Addresses
    BY <1>0, <1>1, SlotFacts DEF EventsInv, SlotFine, Slot
  <2> HIDE DEF served
  <2>2. e \in Entry
    BY <2>1, Bounds DEF Entry
  <2> QED BY <2>2, PastFacts DEF EventsInv
<1>4. ASSUME NEW at, h \in DOMAIN chain \ (torn \cup dead), at \in chain[h] PROVE Account(h, at)'
  <2>0. Account(h, at)
    BY <1>4 DEF EventsInv, Accounts
  <2>1. Done(slot'[w], at) <=> at \in served
    BY <1>2, <1>4 DEF Done, Served
  <2>2. ~crashed => OnePlace(h, at) /\ ~Somewhere(h, at)
    BY <1>0, <1>1, <2>0 DEF Account, DoneOnce, Done
  <2>3. Listing(h, at)' = Listing(h, at) /\ Replaying(h, at)' = Replaying(h, at) /\ (Discarded(h, at)' <=> Discarded(h, at))
    BY <1>1 DEF Listing, Replaying, Discarded
  <2>4. /\ at \in served => HandledAt(h, at)' = HandledAt(h, at) \cup {Len(handled) + 1}
        /\ at \notin served => HandledAt(h, at)' = HandledAt(h, at)
    <3>1. at \in served <=> e.hash = h /\ at \in e.at
      OBVIOUS
    <3>2. at \in served => served # {}
      OBVIOUS
    <3>3. CASE served = {}
      <4>1. handled' = handled
        BY <1>1, <3>3
      <4> QED BY <3>2, <3>3, <4>1 DEF HandledAt
    <3>4. CASE served # {}
      <4>1. handled' = Append(handled, e)
        BY <1>1, <3>4
      <4> HIDE DEF served, e
      <4>2. /\ e.hash = h /\ at \in e.at => Places(Append(handled, e), h, at) = Places(handled, h, at) \cup {Len(handled) + 1}
            /\ ~(e.hash = h /\ at \in e.at) => Places(Append(handled, e), h, at) = Places(handled, h, at)
        BY <1>3, PlacesGrow
      <4>3. HandledAt(h, at) = Places(handled, h, at) /\ HandledAt(h, at)' = Places(Append(handled, e), h, at)
        BY <4>1, PlacesIs, PlacesNext
      <4> QED BY <3>1, <4>2, <4>3
    <3> QED BY <3>3, <3>4
  <2> HIDE DEF served, e
  <2>5. at \in served => Somewhere(h, at)'
    BY <1>2, <2>4 DEF Somewhere
  <2>6. ASSUME ~crashed PROVE OnePlace(h, at)' /\ (Somewhere(h, at)' => at \in served)
    <3>1. HandledAt(h, at) = {} /\ Listing(h, at) = {} /\ Replaying(h, at) = {} /\ ~Discarded(h, at)
      BY <2>2, <2>6 DEF Somewhere
    <3> QED BY <1>2, <2>3, <2>4, <3>1 DEF Somewhere, OnePlace, Single
  <2> QED BY <1>0, <1>1, <1>2, <2>1, <2>5, <2>6, AccountWorks
<1>5. slot[w].hash = h
  BY <1>0
<1>6. \A at : h \in DOMAIN chain \ (torn \cup dead) /\ at \in chain[h] => Account(h, at)'
  BY <1>4
<1> QED BY <1>5, <1>6, EventsWork

\* What is not served waits in the list: with one table nothing is both, and
\* nothing neither.
LEMMA EventsPostpone ==
  ASSUME EventsInv, \A x \in Addresses : \E k \in Keys : Address[k] = x, NEW w \in Workers, Postpone(w)
  PROVE  InHand' /\ ReadAlike' /\ Unborn' /\ Accounts'
<1>0. PICK h : h = slot[w].hash
  OBVIOUS
<1> DEFINE waits == chain[h] \cap slot[w].disabled
           e == [hash |-> h, at |-> waits]
<1>1. /\ slot[w].pc = "postpone" /\ slot' = [slot EXCEPT ![w] = [slot[w] EXCEPT !.pc = "ack"]]
      /\ postponed' = IF waits = {} THEN postponed ELSE Append(postponed, e)
      /\ UNCHANGED <<pending, crashed, handled, call, discarded>>
  BY <1>0, SlotFacts DEF EventsInv, Postpone, faultVars, historyVars
<1>2. /\ slot'[w].pc = "ack" /\ slot'[w].hash = h
      /\ \A v \in Workers : v # w => slot'[v] = slot[v]
  BY <1>0, <1>1, SlotFacts DEF EventsInv, Slot
<1>3. postponed \in Seq(Part) /\ e \in Part
  <2>1. h \in Blocks /\ waits \subseteq Addresses
    BY <1>0, <1>1, SlotFacts DEF EventsInv, SlotFine, Slot
  <2> HIDE DEF waits
  <2>2. e \in Part
    BY <2>1 DEF Part
  <2> QED BY <2>2, PastFacts DEF EventsInv
<1>4. ASSUME NEW at, h \in DOMAIN chain \ (torn \cup dead), at \in chain[h] PROVE Account(h, at)'
  <2>0. Account(h, at)
    BY <1>4 DEF EventsInv, Accounts
  <2>1. Done(slot'[w], at)
    BY <1>2 DEF Done
  <2>2. Served(slot[w], at) <=> at \notin waits
    <3>1. at \in Addresses
      BY <1>4, ChainFacts
    <3>2. PICK k \in Keys : Address[k] = at
      BY <3>1
    <3>3. Reads(slot[w])
      BY <1>0, <1>4 DEF EventsInv, ReadAlike
    <3>4. PICK t \in Table : /\ ~Split(t) /\ slot[w].internal = At(t, "Enable", Internal)
                             /\ slot[w].external = At(t, "Enable", External)
                             /\ slot[w].disabled = DisabledAt(t)
      BY <1>1, <3>3 DEF Reads
    <3>5. /\ at \in At(t, "Enable", Internal) \cup At(t, "Enable", External) <=> t[k] = "Enable"
          /\ at \in DisabledAt(t) <=> t[k] = "Disable"
          /\ t[k] = "Enable" <=> t[k] # "Disable"
      BY <3>1, <3>2, <3>4, ServedOrDisabled
    <3> QED BY <1>4, <3>4, <3>5 DEF Served
  <2>3. /\ Served(slot[w], at) => Somewhere(h, at)
        /\ ~crashed => OnePlace(h, at) /\ (Somewhere(h, at) => Served(slot[w], at))
    BY <1>0, <1>1, <2>0 DEF Account, DoneSome, DoneOnce, Done
  <2>4. HandledAt(h, at)' = HandledAt(h, at) /\ Replaying(h, at)' = Replaying(h, at) /\ (Discarded(h, at)' <=> Discarded(h, at))
    BY <1>1 DEF HandledAt, Replaying, Discarded
  <2>5. /\ at \in waits => Listing(h, at)' = Listing(h, at) \cup {Len(postponed) + 1}
        /\ at \notin waits => Listing(h, at)' = Listing(h, at)
    <3>1. at \in waits <=> e.hash = h /\ at \in e.at
      OBVIOUS
    <3>2. at \in waits => waits # {}
      OBVIOUS
    <3>3. CASE waits = {}
      <4>1. postponed' = postponed
        BY <1>1, <3>3
      <4> QED BY <3>2, <3>3, <4>1 DEF Listing
    <3>4. CASE waits # {}
      <4>1. postponed' = Append(postponed, e)
        BY <1>1, <3>4
      <4> HIDE DEF waits, e
      <4>2. /\ e.hash = h /\ at \in e.at => Places(Append(postponed, e), h, at) = Places(postponed, h, at) \cup {Len(postponed) + 1}
            /\ ~(e.hash = h /\ at \in e.at) => Places(Append(postponed, e), h, at) = Places(postponed, h, at)
        BY <1>3, PlacesGrow
      <4>3. Listing(h, at) = Places(postponed, h, at) /\ Listing(h, at)' = Places(Append(postponed, e), h, at)
        BY <4>1, PlacesIs, PlacesNext
      <4> QED BY <3>1, <4>2, <4>3
    <3> QED BY <3>3, <3>4
  <2> HIDE DEF waits, e
  <2>6. Somewhere(h, at)'
    <3>1. CASE at \in waits
      BY <2>5, <3>1 DEF Somewhere
    <3>2. CASE at \notin waits
      <4>1. Somewhere(h, at)
        BY <2>2, <2>3, <3>2
      <4> QED BY <2>4, <2>5, <3>2, <4>1 DEF Somewhere
    <3> QED BY <3>1, <3>2
  <2>7. ASSUME ~crashed PROVE OnePlace(h, at)'
    <3>1. CASE at \in waits
      <4>1. HandledAt(h, at) = {} /\ Listing(h, at) = {} /\ Replaying(h, at) = {} /\ ~Discarded(h, at)
        BY <2>2, <2>3, <2>7, <3>1 DEF Somewhere
      <4> QED BY <2>4, <2>5, <3>1, <4>1 DEF OnePlace, Single
    <3>2. CASE at \notin waits
      BY <2>3, <2>4, <2>5, <2>7, <3>2 DEF OnePlace, Single
    <3> QED BY <3>1, <3>2
  <2> QED BY <1>0, <1>1, <1>2, <2>1, <2>6, <2>7, AccountWorks
<1>5. slot[w].hash = h
  BY <1>0
<1>6. \A at : h \in DOMAIN chain \ (torn \cup dead) /\ at \in chain[h] => Account(h, at)'
  BY <1>4
<1> QED BY <1>5, <1>6, EventsWork

LEMMA EventsInit == Init => EventsInv
<1> SUFFICES ASSUME Init PROVE EventsInv
  OBVIOUS
<1>1. /\ \A w \in Workers : slot[w].pc = "idle" /\ slot[w].seen = {}
      /\ \A c \in Callers : call[c].part = None
      /\ chain = <<>> /\ handled = <<>> /\ postponed = <<>> /\ discarded = {}
  BY IdleTyped DEF Init, IdleSlot
<1>2. InHand /\ ReadAlike
  BY <1>1 DEF InHand, ReadAlike, Reads
<1>3. \A h, at : ~Somewhere(h, at)
  BY <1>1 DEF Somewhere, HandledAt, Listing, Replaying, Discarded
<1>4. Unborn /\ Accounts
  BY <1>1, <1>3 DEF Unborn, Accounts
<1> QED BY <1>2, <1>4, InitKept DEF EventsInv

LEMMA EventsNext ==
  ASSUME \A x \in Addresses : \E k \in Keys : Address[k] = x
  PROVE  EventsInv /\ [Next]_vars => EventsInv'
<1> SUFFICES ASSUME EventsInv, [Next]_vars PROVE InHand' /\ ReadAlike' /\ Unborn' /\ Accounts'
  BY NextKept DEF EventsInv
<1>1. ASSUME NEW at \in SUBSET Addresses, Emit(at) PROVE InHand' /\ ReadAlike' /\ Unborn' /\ Accounts'
  BY <1>1, EventsEmit
<1>2. ASSUME NEW w \in Workers, Consume(w) \/ BlockFails(w) PROVE InHand' /\ ReadAlike' /\ Unborn' /\ Accounts'
  BY <1>2, EventsTake, EventsRead, EventsHandle, EventsPostpone, EventsLeave DEF Consume
<1>3. ASSUME NEW c \in Callers, Serve(c) \/ CallFails(c) \/ PublishFails(c) PROVE InHand' /\ ReadAlike' /\ Unborn' /\ Accounts'
  BY <1>3, EventsServe
<1>4. CASE ConsumeChange \/ Expire \/ Crash \/ UNCHANGED vars
  BY <1>4, EventsCache, EventsCrash
<1> QED BY <1>1, <1>2, <1>3, <1>4 DEF Next

\* Where every contract is a marketplace's: once the blocks and the calls are
\* done, each event was handled once, or waits in the list, or was popped and
\* lost - exactly one of the three until a restart, and at least one after it -
\* unless its block is dead or its lists were read from different copies of the
\* table, or from a split one (nft-events.consumer.ts:37-50, rpush, lpop and
\* events[0]).
THEOREM NoEventDisappears ==
  ASSUME \A x \in Addresses : \E k \in Keys : Address[k] = x
  PROVE  Spec => []EventsAccountedFor
<1>1. EventsInv => EventsAccountedFor
  <2> SUFFICES ASSUME EventsInv, AtRest, NEW h \in DOMAIN chain \ (torn \cup dead), NEW at \in chain[h]
               PROVE  LET accounts == Cardinality(HandledAt(h, at)) + (IF Waits(h, at) THEN 1 ELSE 0)
                                        + (IF Discarded(h, at) THEN 1 ELSE 0)
                      IN  accounts = 1 \/ (crashed /\ accounts > 1)
    BY DEF EventsAccountedFor
  <2> DEFINE n == Cardinality(HandledAt(h, at))
  <2>1. Somewhere(h, at) /\ (~crashed => OnePlace(h, at))
    BY DEF EventsInv, Accounts, Account, AtRest
  <2>2. Replaying(h, at) = {}
    <3> SUFFICES ASSUME NEW c \in Callers PROVE call[c].part = None
      BY DEF Replaying
    <3> QED BY CallFacts DEF EventsInv, CallFine, AtRest
  <2>3. Waits(h, at) <=> Listing(h, at) # {}
    BY DEF Waits, Listing
  <2>4. IsFiniteSet(HandledAt(h, at))
    <3>1. HandledAt(h, at) \subseteq 1..Len(handled) /\ Len(handled) \in Nat
      BY PastFacts DEF EventsInv, HandledAt
    <3>2. IsFiniteSet(1..Len(handled))
      BY <3>1, FS_Interval
    <3> QED BY <3>1, <3>2, FS_Subset
  <2>5. n \in Nat /\ (n = 0 <=> HandledAt(h, at) = {})
    BY <2>4, FS_CardinalityType, FS_EmptySet
  <2>6. Single(HandledAt(h, at)) /\ HandledAt(h, at) # {} => n = 1
    <3> SUFFICES ASSUME Single(HandledAt(h, at)), NEW i \in HandledAt(h, at) PROVE n = 1
      OBVIOUS
    <3>1. HandledAt(h, at) = {i}
      BY DEF Single
    <3> QED BY <3>1, FS_Singleton
  <2> HIDE DEF n
  <2>7. CASE ~crashed
    BY <2>1, <2>2, <2>3, <2>5, <2>6, <2>7 DEF Somewhere, OnePlace, n
  <2>8. CASE crashed
    <3>1. n > 0 \/ Waits(h, at) \/ Discarded(h, at)
      BY <2>1, <2>2, <2>3, <2>5 DEF Somewhere
    <3> QED BY <2>5, <2>8, <3>1 DEF n
  <2> QED BY <2>7, <2>8
<1> QED BY <1>1, EventsInit, EventsNext, PTL DEF Spec
=============================================================================
