------------------------ MODULE DisabledMarketplace ------------------------
(***************************************************************************)
(* The events of a marketplace an administrator has disabled: the consumer *)
(* of the blocks postpones them in a Redis list, and enabling the          *)
(* marketplace pops the list and handles what it finds. The consumer knows *)
(* which marketplaces are disabled from a cached copy of the table, which  *)
(* it consults once for each of three lists of addresses.                  *)
(***************************************************************************)
EXTENDS Integers, Sequences, FiniteSets

CONSTANTS
  Addresses, Keys,   \* contracts, and the rows of table marketplaces
  Address,           \* Address[k]: the contract of row k
  External,          \* the contracts of type External (the others are Internal)
  Workers, Callers,  \* blocks, and mutations, handled at the same time
  None,
  MaxBlocks, MaxCalls, MaxFaults   \* bounds

ASSUME MarketplacesAssumption ==
  /\ IsFiniteSet(Keys) /\ Address \in [Keys -> Addresses] /\ External \subseteq Addresses
  /\ None \notin [Keys -> {"Enable", "Disable"}]
  /\ None \notin [hash : 1..MaxBlocks, at : SUBSET Addresses]
  /\ {MaxBlocks, MaxCalls, MaxFaults} \subseteq Nat

VARIABLES
  chain,      \* chain[h]: the contracts that have an event in block h
  pending,    \* the blocks not acknowledged
  slot,       \* slot[w]: the block a worker handles, and where it is
  rows,       \* table marketplaces: rows[k] is the state of row k
  cached,     \* the copy of the table the consumer finds in its cache
  changes,    \* how many Marketplaces events are not consumed yet
  postponed,  \* the Redis list of postponed events
  call,       \* call[c]: the mutation in hand, and where it is
  calls, faults,
  dead,       \* the blocks sent to the dead letter exchange
  crashed,    \* whether the process was ever restarted
  handled,    \* history: the events handled, in order
  discarded,  \* history: blocks popped from the list and not handled
  torn,       \* history: blocks whose three lists came from different copies, or a split one
  raced,      \* history: a copy read before the last save may fill the cache
  lost        \* history: a save was never announced, and the cache not dropped since

faultVars == <<faults, dead, crashed>>
blockVars == <<chain, pending, slot>>
historyVars == <<handled, discarded, torn, raced, lost>>
vars == <<blockVars, rows, cached, changes, postponed, call, calls, faultVars, historyVars>>

State == {"Enable", "Disable"}
Table == [Keys -> State]
Blocks == 1..MaxBlocks
Part == [hash : Blocks, at : SUBSET Addresses]
Entry == [hash : Blocks, at : SUBSET Addresses, by : 0..MaxCalls]

At(t, state, contracts) == {Address[k] : k \in {j \in Keys : t[j] = state}} \cap contracts
Internal == Addresses \ External
\* Faulty variant: internal marketplaces only.
DisabledInternal(t) == At(t, "Disable", Internal)
DisabledAt(t) == At(t, "Disable", Addresses)

PC == {"idle", "internal", "external", "disabled", "handle", "postpone", "ack"}
\* table: what the cache is about to be filled with; seen: the copies used so far.
Slot == [hash : 0..MaxBlocks, pc : PC, table : Table \cup {None}, seen : SUBSET Table,
         internal : SUBSET Addresses, external : SUBSET Addresses, disabled : SUBSET Addresses]
IdleSlot == [hash |-> 0, pc |-> "idle", table |-> None, seen |-> {},
             internal |-> {}, external |-> {}, disabled |-> {}]

Op == {"enable", "disable", "update"}
\* rows: the rows the call is about; state: what update read; part: what enable replays.
Call == [op : Op, pc : {"idle", "read", "pop", "replay", "save", "publish"}, rows : SUBSET Keys,
         state : State, part : Part \cup {None}, number : 0..MaxCalls]
IdleCall == [op |-> "enable", pc |-> "idle", rows |-> {}, state |-> "Enable", part |-> None, number |-> 0]

Init ==
  /\ chain = <<>> /\ pending = {} /\ slot = [w \in Workers |-> IdleSlot]
  /\ rows = [k \in Keys |-> "Enable"] /\ cached = None /\ changes = 0 /\ postponed = <<>>
  /\ call = [c \in Callers |-> IdleCall] /\ calls = 0 /\ faults = 0 /\ dead = {} /\ crashed = FALSE
  /\ handled = <<>> /\ discarded = {} /\ torn = {} /\ raced = FALSE /\ lost = FALSE

InFlight == \E w \in Workers : slot[w].table # None

-----------------------------------------------------------------------------
(* Blocks: each awaited read, handler or push is a step of its own.        *)

Emit(at) ==
  /\ Len(chain) < MaxBlocks
  /\ chain' = Append(chain, at) /\ pending' = pending \cup {Len(chain) + 1}
  /\ UNCHANGED <<slot, rows, cached, changes, postponed, call, calls, faultVars, historyVars>>

Taken == {slot[w].hash : w \in Workers}

Take(w) ==
  /\ slot[w].pc = "idle"
  /\ \E h \in pending \ Taken :
       /\ \A g \in pending \ Taken : h <= g
       /\ slot' = [slot EXCEPT ![w] = [IdleSlot EXCEPT !.hash = h, !.pc = "internal"]]
  /\ UNCHANGED <<chain, pending, rows, cached, changes, postponed, call, calls, faultVars, historyVars>>

Reading == {"internal", "external", "disabled"}
NextPC == [internal |-> "external", external |-> "disabled", disabled |-> "handle"]

\* A worker has a copy of the table for the list it is reading.
Listed(s, t) ==
  LET at == CASE s.pc = "internal" -> [s EXCEPT !.internal = At(t, "Enable", Internal)]
              [] s.pc = "external" -> [s EXCEPT !.external = At(t, "Enable", External)]
              [] s.pc = "disabled" -> [s EXCEPT !.disabled = DisabledAt(t)]
  IN [at EXCEPT !.pc = NextPC[s.pc], !.table = None, !.seen = @ \cup {t}]
\* A table in which the rows of one contract disagree (an update that overlaps).
Split(t) == \E j, k \in Keys : Address[j] = Address[k] /\ t[j] # t[k]
TornBy(w) ==
  LET seen == slot'[w].seen IN
  torn' = IF Cardinality(seen) > 1 \/ (\E t \in seen : Split(t)) THEN torn \cup {slot[w].hash} ELSE torn

ListFromCache(w) ==
  /\ slot[w].pc \in Reading /\ slot[w].table = None /\ cached # None
  /\ slot' = [slot EXCEPT ![w] = Listed(@, cached)]
  /\ TornBy(w)
  /\ UNCHANGED <<chain, pending, rows, cached, changes, postponed, call, calls, faultVars, handled, discarded, raced, lost>>

FetchTable(w) ==
  /\ slot[w].pc \in Reading /\ slot[w].table = None /\ cached = None
  /\ slot' = [slot EXCEPT ![w].table = rows]
  /\ UNCHANGED <<chain, pending, rows, cached, changes, postponed, call, calls, faultVars, historyVars>>

FillCache(w) ==
  /\ slot[w].table # None
  /\ cached' = slot[w].table
  /\ slot' = [slot EXCEPT ![w] = Listed(@, slot[w].table)]
  /\ TornBy(w)
  /\ UNCHANGED <<chain, pending, rows, changes, postponed, call, calls, faultVars, handled, discarded, raced, lost>>

\* The events of a block at some contracts are handled by the consumer (0) or by a call.
Handled(hash, at, by) ==
  handled' = IF at = {} THEN handled ELSE Append(handled, [hash |-> hash, at |-> at, by |-> by])

\* handleNftAuctionEvents, for the internal and then for the external list.
Handle(w) ==
  /\ slot[w].pc = "handle"
  /\ Handled(slot[w].hash, chain[slot[w].hash] \cap (slot[w].internal \cup slot[w].external), 0)
  /\ slot' = [slot EXCEPT ![w].pc = "postpone"]
  /\ UNCHANGED <<chain, pending, rows, cached, changes, postponed, call, calls, faultVars, discarded, torn, raced, lost>>

Postpone(w) ==
  /\ slot[w].pc = "postpone"
  /\ LET at == chain[slot[w].hash] \cap slot[w].disabled IN
       postponed' = IF at = {} THEN postponed
                    ELSE Append(postponed, [hash |-> slot[w].hash, at |-> at])
  /\ slot' = [slot EXCEPT ![w].pc = "ack"]
  /\ UNCHANGED <<chain, pending, rows, cached, changes, call, calls, faultVars, historyVars>>

Acknowledge(w) ==
  /\ slot[w].pc = "ack"
  /\ pending' = pending \ {slot[w].hash} /\ slot' = [slot EXCEPT ![w] = IdleSlot]
  /\ UNCHANGED <<chain, rows, cached, changes, postponed, call, calls, faultVars, historyVars>>

-----------------------------------------------------------------------------
(* The administrator's mutations.                                          *)

RowsOf(contract) == {k \in Keys : Address[k] = contract}

Request(c, op, keys) ==
  /\ call[c].pc = "idle" /\ calls < MaxCalls
  /\ keys \in IF op = "update" THEN {{k} : k \in Keys} ELSE {RowsOf(contract) : contract \in Addresses} \ {{}}
  /\ calls' = calls + 1
  /\ call' = [call EXCEPT ![c] = [IdleCall EXCEPT !.op = op, !.pc = "read", !.rows = keys, !.number = calls + 1]]
  /\ UNCHANGED <<blockVars, rows, cached, changes, postponed, faultVars, historyVars>>

\* disable and enable set the state of the rows they read; update keeps what it read.
StateOf(c) == CASE call[c].op = "enable" -> "Enable"
                [] call[c].op = "disable" -> "Disable"
                [] call[c].op = "update" -> rows[CHOOSE k \in call[c].rows : TRUE]

\* Faulty variant: the change is published before the rows are saved.
PublishedFirst(pc) == CASE pc = "publish" -> "save" [] pc = "save" -> "idle" [] OTHER -> "publish"
\* What follows the preparation of a call, the save and the publication.
Then(pc) == CASE pc = "save" -> "publish" [] pc = "publish" -> "idle" [] OTHER -> "save"
Advance(c) ==
  LET pc == Then(call[c].pc)
  IN  call' = [call EXCEPT ![c] = IF pc = "idle" THEN IdleCall ELSE [@ EXCEPT !.pc = pc, !.part = None]]

ReadRows(c) ==
  /\ call[c].pc = "read"
  /\ call' = [call EXCEPT ![c].state = StateOf(c), ![c].pc = IF call[c].op = "enable" THEN "pop" ELSE Then(@)]
  /\ UNCHANGED <<blockVars, rows, cached, changes, postponed, calls, faultVars, historyVars>>

\* Faulty variant: the last element.
Newest(list) == list[Len(list)]
\* The whole list is popped, and its first element replayed.
Replayed(list) == Head(list)

PopPostponed(c) ==
  /\ call[c].pc = "pop"
  /\ IF postponed = <<>> THEN Advance(c) /\ UNCHANGED <<postponed, discarded>>
     ELSE /\ call' = [call EXCEPT ![c].part = Replayed(postponed), ![c].pc = "replay"]
          /\ postponed' = <<>>
          /\ discarded' = discarded \cup {[by |-> call[c].number, part |-> postponed[i]] :
                                           i \in {j \in DOMAIN postponed : postponed[j] # Replayed(postponed)}}
  /\ UNCHANGED <<blockVars, rows, cached, changes, calls, faultVars, handled, torn, raced, lost>>

\* Every event of the part, with the type of the marketplace that is enabled.
Replay(c) ==
  /\ call[c].pc = "replay"
  /\ Handled(call[c].part.hash, call[c].part.at, call[c].number)
  /\ Advance(c)
  /\ UNCHANGED <<blockVars, rows, cached, changes, postponed, calls, faultVars, discarded, torn, raced, lost>>

SaveRows(c) ==
  /\ call[c].pc = "save"
  /\ rows' = [k \in Keys |-> IF k \in call[c].rows THEN call[c].state ELSE rows[k]]
  /\ Advance(c)
  /\ raced' = (raced \/ InFlight)
  /\ UNCHANGED <<blockVars, cached, changes, postponed, calls, faultVars, handled, discarded, torn, lost>>

\* triggerCacheInvalidation: a message for each of the rows.
PublishChange(c) ==
  /\ call[c].pc = "publish"
  /\ changes' = changes + Cardinality(call[c].rows)
  /\ Advance(c)
  /\ UNCHANGED <<blockVars, rows, cached, postponed, calls, faultVars, historyVars>>

-----------------------------------------------------------------------------
(* The cache, and what may fail.                                           *)

DropCache == cached' = None /\ raced' = (raced /\ InFlight) /\ lost' = FALSE

ConsumeChange ==
  /\ changes > 0 /\ changes' = changes - 1
  /\ DropCache
  /\ UNCHANGED <<blockVars, rows, postponed, call, calls, faultVars, handled, discarded, torn>>

Expire ==
  /\ cached # None
  /\ DropCache
  /\ UNCHANGED <<blockVars, rows, changes, postponed, call, calls, faultVars, handled, discarded, torn>>

Fault == faults < MaxFaults /\ faults' = faults + 1

\* What the calls of cs have popped is gone with them.
DiscardedWith(cs) ==
  discarded' = discarded \cup {[by |-> call[c].number, part |-> call[c].part] : c \in {d \in cs : call[d].part # None}}

\* The process restarts: blocks are delivered again, calls are gone.
Crash ==
  /\ Fault /\ crashed' = TRUE
  /\ slot' = [w \in Workers |-> IdleSlot] /\ call' = [c \in Callers |-> IdleCall]
  /\ DiscardedWith(Callers)
  /\ lost' = (lost \/ \E c \in Callers : call[c].pc = "publish")
  /\ UNCHANGED <<chain, pending, rows, cached, changes, postponed, calls, dead, handled, torn, raced>>

\* A handler throws: the block goes to the dead letter exchange.
BlockFails(w) ==
  /\ Fault /\ slot[w].pc \in {"handle", "postpone"}
  /\ dead' = dead \cup {slot[w].hash}
  /\ pending' = pending \ {slot[w].hash} /\ slot' = [slot EXCEPT ![w] = IdleSlot]
  /\ UNCHANGED <<chain, rows, cached, changes, postponed, call, calls, crashed, historyVars>>

\* Replaying or saving throws: the mutation answers false.
CallFails(c) ==
  /\ Fault /\ call[c].pc \in {"pop", "replay", "save"}
  /\ call' = [call EXCEPT ![c] = IdleCall]
  /\ DiscardedWith({c})
  /\ UNCHANGED <<blockVars, rows, cached, changes, postponed, calls, dead, crashed, handled, torn, raced, lost>>

\* A publication fails, which is logged only: some of the messages are lost, or all.
PublishFails(c) ==
  /\ Fault /\ call[c].pc = "publish"
  /\ \E arrived \in 0..(Cardinality(call[c].rows) - 1) :
       changes' = changes + arrived /\ lost' = (lost \/ arrived = 0)
  /\ Advance(c)
  /\ UNCHANGED <<blockVars, rows, cached, postponed, calls, dead, crashed, handled, discarded, torn, raced>>

-----------------------------------------------------------------------------
Consume(w) ==
  \/ Take(w) \/ ListFromCache(w) \/ FetchTable(w) \/ FillCache(w)
  \/ Handle(w) \/ Postpone(w) \/ Acknowledge(w)

Serve(c) ==
  \/ \E op \in Op, keys \in SUBSET Keys : Request(c, op, keys)
  \/ ReadRows(c) \/ PopPostponed(c) \/ Replay(c) \/ SaveRows(c) \/ PublishChange(c)

Next ==
  \/ \E at \in SUBSET Addresses \ {{}} : Emit(at)
  \/ \E w \in Workers : Consume(w)
  \/ \E c \in Callers : Serve(c)
  \/ ConsumeChange \/ Expire
  \/ Crash \/ (\E w \in Workers : BlockFails(w)) \/ (\E c \in Callers : CallFails(c) \/ PublishFails(c))

Spec == Init /\ [][Next]_vars

-----------------------------------------------------------------------------
(* Properties.                                                             *)

TypeOK ==
  /\ chain \in Seq(SUBSET Addresses) /\ Len(chain) <= MaxBlocks /\ pending \subseteq DOMAIN chain
  /\ slot \in [Workers -> Slot] /\ rows \in Table /\ cached \in Table \cup {None}
  /\ changes \in Nat /\ postponed \in Seq(Part) /\ call \in [Callers -> Call]
  /\ calls \in 0..MaxCalls /\ faults \in 0..MaxFaults /\ dead \subseteq Blocks /\ crashed \in BOOLEAN
  /\ handled \in Seq(Entry) /\ discarded \subseteq [by : 1..MaxCalls, part : Part]
  /\ torn \subseteq Blocks /\ {raced, lost} \subseteq BOOLEAN

AtRest == pending = {} /\ \A c \in Callers : call[c].pc = "idle"
HandledAt(h, at) == {i \in DOMAIN handled : handled[i].hash = h /\ at \in handled[i].at}
Waits(h, at) == \E i \in DOMAIN postponed : postponed[i].hash = h /\ at \in postponed[i].at
Discarded(h, at) == \E d \in discarded : d.part.hash = h /\ at \in d.part.at

\* An event of a marketplace is handled once, or still waits in the list, or was popped
\* and lost (behind another, or by a call that failed), or its block is dead: the
\* consumer never drops one between its lists, and never both handles and postpones it,
\* unless the table changed between its reads or was split (nft-events.consumer.ts:37-50). Only a
\* restart may repeat one.
EventsAccountedFor ==
  AtRest => \A h \in DOMAIN chain \ (torn \cup dead) : \A at \in chain[h] :
    LET accounts == Cardinality(HandledAt(h, at)) + (IF Waits(h, at) THEN 1 ELSE 0)
                      + (IF Discarded(h, at) THEN 1 ELSE 0)
    IN accounts = 1 \/ (crashed /\ accounts > 1)

\* With one block at a time, enabling replays the oldest block that waits: what a call
\* discards is younger than what it handles (rpush, lpop and events[0]).
OldestIsReplayed ==
  ~crashed /\ Cardinality(Workers) = 1 => \A d \in discarded :
    \A i \in DOMAIN handled : handled[i].by = d.by => handled[i].hash < d.part.hash

\* Once every change is consumed, the cached table is the table, unless a copy read
\* before a save filled the cache after it, or none of the messages about a save was
\* sent: the publication failed, which is swallowed (rabbit.publisher.ts:12-20), or the
\* process stopped before it (marketplaces.service.ts:277-283, 307-313).
CacheCatchesUp ==
  changes = 0 /\ ~raced /\ ~lost /\ (\A c \in Callers : call[c].pc # "publish") => cached \in {None, rows}
=============================================================================
