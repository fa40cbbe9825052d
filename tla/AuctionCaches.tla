---------------------------- MODULE AuctionCaches ----------------------------
(***************************************************************************)
(* What the caches of an auction show (auctions.repository.ts,             *)
(* order.service.ts, cache-events.consumer.ts,                             *)
(* redis-key-value-dataloader.handler.ts).                                 *)
(*                                                                         *)
(* Whoever writes an auction or its orders first publishes that it will,   *)
(* and then writes; a consumer deletes keys from Redis when it is told;    *)
(* readers that find no key ask the database - one of its replicas - and   *)
(* store what they got, most of it for a week.  Nothing orders these.      *)
(*                                                                         *)
(* One auction, of one NFT, one cluster.  The commits of the tables are a  *)
(* log; what a query returns is the set of the commits it reflects.        *)
(***************************************************************************)
EXTENDS Integers, Sequences, FiniteSets

CONSTANTS
    Writes,     \* the handlers' runs that write
    Readers,    \* requests at work at once
    Keys,       \* the cached queries looked at
    MaxFaults   \* bound: restarts, lost messages and failed calls

\* The tables each cached query reads.
Content == [auction                     |-> {"auctions"},
            default_auctions            |-> {"auctions"},
            assetAuctionsCount          |-> {"auctions"},
            on_sale_assets_count        |-> {"auctions"},
            lowest_auctions             |-> {"auctions", "orders"},
            lowest_auctions_marketplace |-> {"auctions", "orders"},
            availableTokensCount        |-> {"auctions", "orders"},
            auction_orders              |-> {"orders"},
            auction_active_orders       |-> {"orders"},
            auction_available_tokens    |-> {"auctions", "orders"}]

ASSUME CachesAssumption == Keys \subseteq DOMAIN Content /\ MaxFaults \in Nat

VARIABLES
    log,        \* the commits of the master: which table, by which write
    replicated, \* how many of them every replica has
    kind,       \* what each write does, "none" before it starts
    done,       \* how many of its steps it has taken
    clearing,   \* the keys its message has still to delete
    cache,      \* Redis
    call,       \* what each reader is doing
    faults,     \* faults so far
    lost        \* history: writes whose message was lost

writes  == <<log, kind, done>>
vars    == <<writes, replicated, clearing, cache, call, faults, lost>>

----------------------------------------------------------------------------
(* The writes                                                               *)

\* insertAuction, updateAuction and the others that publish before they save the row.
UpdateSteps == <<"UpdateAuction", "auctions">>

\* updateAuctionOrders: the new order is inserted, the old one retired.
BidSteps == <<"UpdateOrder", "orders", "orders">>

\* createOrderForSft
BuySteps == <<"UpdateOrder", "orders">>

\* rollbackOrdersByHash and, in the reindex, saveBulkOrders: they publish nothing.
RollbackSteps == <<"orders">>

\* Nor do rollbackCreateAuction and saveBulkAuctions.
DeleteSteps == <<"auctions">>

Steps == [update |-> UpdateSteps, bid |-> BidSteps, buy |-> BuySteps,
          rollback |-> RollbackSteps, delete |-> DeleteSteps, none |-> <<>>]
Silent == {"rollback", "delete"}
Kinds == {"update", "bid", "buy"} \cup Silent

\* Faulty variant: the number of tokens left is forgotten.
OnlyOrdersCleared == {"auction_orders", "auction_active_orders"}

\* invalidateCache of the orders; the pages of auction_orders too, by pattern.
OrderEventClears == {"auction_orders", "auction_active_orders", "auction_available_tokens"}

\* invalidatePersistentCaching.  It also deletes default_auctions of the NFT,
\* but the keys of that name are those of pages of it: they stay.
AuctionEventClears ==
    {"assetAuctionsCount", "on_sale_assets_count", "lowest_auctions", "availableTokensCount"}

\* consume: the keys that the message of a write of kind kd deletes.
Clears(kd) ==
    IF kd = "update" THEN Keys \cap AuctionEventClears
    ELSE IF kd \in {"bid", "buy"} THEN Keys \cap OrderEventClears ELSE {}

Event == {"UpdateAuction", "UpdateOrder"}
Table == {"auctions", "orders"}

Relevant(k, n) == {i \in 1..n : log[i].table \in Content[k]}

Entry == [seen : SUBSET Nat, met : SUBSET Writes]

Call == [pc : {"idle"}]
   \cup [pc : {"query"}, key : Keys, met : SUBSET Writes]
   \cup [pc : {"set"}, key : Keys, seen : SUBSET Nat, met : SUBSET Writes]

TypeOK ==
    /\ log \in Seq([table : Table, by : Writes]) /\ replicated \in 0..Len(log)
    /\ kind \in [Writes -> Kinds \cup {"none"}]
    /\ done \in [Writes -> 0..3] /\ \A w \in Writes : done[w] <= Len(Steps[kind[w]])
    /\ clearing \in [Writes -> SUBSET Keys] /\ \A w \in Writes : clearing[w] \subseteq Clears(kind[w])
    /\ DOMAIN cache \subseteq Keys /\ \A k \in DOMAIN cache :
         cache[k] \in Entry /\ cache[k].seen \subseteq Relevant(k, Len(log))
    /\ call \in [Readers -> Call]
    /\ faults \in 0..MaxFaults /\ lost \subseteq Writes

Init ==
    /\ log = <<>> /\ replicated = 0
    /\ kind = [w \in Writes |-> "none"] /\ done = [w \in Writes |-> 0]
    /\ clearing = [w \in Writes |-> {}]
    /\ cache = [k \in {} |-> <<>>]
    /\ call = [r \in Readers |-> [pc |-> "idle"]]
    /\ faults = 0 /\ lost = {}

Fault == faults < MaxFaults /\ faults' = faults + 1

\* The readers at work meet write w.
Meet(w) == call' = [r \in Readers |-> IF call[r].pc = "idle" THEN call[r]
                                      ELSE [call[r] EXCEPT !.met = @ \cup {w}]]

Start(w, kd) ==
    /\ kind[w] = "none" /\ kind' = [kind EXCEPT ![w] = kd]
    /\ Meet(w)
    /\ UNCHANGED <<log, done, replicated, clearing, cache, faults, lost>>

Busy(w) == done[w] < Len(Steps[kind[w]])
Step(w) == Steps[kind[w]][done[w] + 1]
Advances(w) == done' = [done EXCEPT ![w] = @ + 1] /\ kind' = kind

\* triggerCacheInvalidation
Publish(w) ==
    /\ Busy(w) /\ Step(w) \in Event
    /\ Advances(w)
    /\ clearing' = [clearing EXCEPT ![w] = Clears(kind[w])]
    /\ lost' = lost \ {w}
    /\ UNCHANGED <<log, replicated, cache, call, faults>>

\* RabbitPublisherService: an error is logged, and the write goes on.
PublishFails(w) ==
    /\ Fault
    /\ Busy(w) /\ Step(w) \in Event
    /\ Advances(w)
    /\ lost' = lost \cup {w}
    /\ UNCHANGED <<log, replicated, clearing, cache, call>>

Save(w) ==
    /\ Busy(w) /\ Step(w) \in Table
    /\ Advances(w)
    /\ log' = Append(log, [table |-> Step(w), by |-> w])
    /\ UNCHANGED <<replicated, clearing, cache, call, faults, lost>>

\* The writer's process restarts: its block is handled again. (A bid whose order was
\* inserted before is not: it is then found to be of the same amount. Here it may be.)
Restart(w) ==
    /\ Fault
    /\ Busy(w) /\ done[w] > 0 /\ done' = [done EXCEPT ![w] = 0]
    /\ UNCHANGED <<log, kind, replicated, clearing, cache, call, lost>>

\* Another commit has reached the last replica.
Replicate ==
    /\ replicated < Len(log) /\ replicated' = replicated + 1
    /\ UNCHANGED <<writes, clearing, cache, call, faults, lost>>

\* Write w may still change what a query returns.
InProgress(w) ==
    kind[w] # "none" /\ (Busy(w) \/ \E i \in replicated + 1..Len(log) : log[i].by = w)

----------------------------------------------------------------------------
(* The consumer of the messages                                             *)

Without(f, k) == [x \in DOMAIN f \ {k} |-> f[x]]

\* clearKey, clearKeyByPattern: the deletes of a message, in any order.
Clear(w, k) ==
    /\ k \in clearing[w]
    /\ clearing' = [clearing EXCEPT ![w] = @ \ {k}]
    /\ cache' = Without(cache, k)
    /\ UNCHANGED <<writes, replicated, call, faults, lost>>

\* An error or a restart: the message is delivered again.
Redeliver(w) ==
    /\ Fault
    /\ clearing[w] # {} /\ clearing' = [clearing EXCEPT ![w] = Clears(kind[w])]
    /\ UNCHANGED <<writes, replicated, cache, call, lost>>

----------------------------------------------------------------------------
(* The readers: batchLoad                                                   *)

Becomes(r, c) == call' = [call EXCEPT ![r] = c]

\* The key is not in Redis.
Miss(r, k) ==
    /\ call[r].pc = "idle" /\ k \in Keys \ DOMAIN cache
    /\ Becomes(r, [pc |-> "query", key |-> k, met |-> {w \in Writes : InProgress(w)}])
    /\ UNCHANGED <<writes, replicated, clearing, cache, faults, lost>>

\* createValueFunc: any replica may answer.
Query(r) ==
    /\ call[r].pc = "query"
    /\ \E n \in replicated..Len(log) :
         Becomes(r, [pc |-> "set", key |-> call[r].key, met |-> call[r].met,
                     seen |-> Relevant(call[r].key, n)])
    /\ UNCHANGED <<writes, replicated, clearing, cache, faults, lost>>

\* mapValues
Loaded(c) == [seen |-> c.seen, met |-> c.met]

\* setMany
Set(r) ==
    /\ call[r].pc = "set"
    /\ cache' = [k \in DOMAIN cache \cup {call[r].key} |->
                   IF k = call[r].key THEN Loaded(call[r]) ELSE cache[k]]
    /\ Becomes(r, [pc |-> "idle"])
    /\ UNCHANGED <<writes, replicated, clearing, faults, lost>>

\* The database or Redis fails: the request does, and nothing is stored.
LoadFails(r) ==
    /\ Fault
    /\ call[r].pc # "idle" /\ Becomes(r, [pc |-> "idle"])
    /\ UNCHANGED <<writes, replicated, clearing, cache, lost>>

\* Faulty variant: keys that messages delete do not expire.
UntilCleared(k) == k \notin OrderEventClears

\* setMany with val.ttl: every key has a time to live.
HasTtl(k) == TRUE

Expire(k) ==
    /\ k \in DOMAIN cache /\ HasTtl(k)
    /\ cache' = Without(cache, k)
    /\ UNCHANGED <<writes, replicated, clearing, call, faults, lost>>

----------------------------------------------------------------------------
Writer(w) == Publish(w) \/ Save(w)
Reader(r) == Query(r) \/ Set(r)

Faults ==
    \/ \E w \in Writes : PublishFails(w) \/ Restart(w) \/ Redeliver(w)
    \/ \E r \in Readers : LoadFails(r)

Next ==
    \/ \E w \in Writes : Writer(w) \/ \E kd \in Kinds : Start(w, kd)
    \/ \E w \in Writes, k \in Keys : Clear(w, k)
    \/ Replicate \/ Faults
    \/ \E r \in Readers : Reader(r) \/ \E k \in Keys : Miss(r, k)
    \/ \E k \in Keys : Expire(k)

Spec == Init /\ [][Next]_vars

\* Writers, requests, replication and clocks go on.  Messages need not: the
\* time to live is what the caches rely on.
FairSpec ==
    /\ Spec /\ WF_vars(Replicate)
    /\ \A w \in Writes : WF_vars(Writer(w))
    /\ \A r \in Readers : WF_vars(Reader(r))
    /\ \A k \in Keys : WF_vars(Expire(k))

----------------------------------------------------------------------------
(* Properties                                                               *)

\* The writes whose commits the entry of k does not show.
Unseen(k) == {log[i].by : i \in Relevant(k, Len(log)) \ cache[k].seen}

\* The keys no message of a write corrects: a rollback or bulk save sends none; a row, a page
\* of rows and the cheapest auction of a marketplace are deleted by none; the
\* tokens left of an NFT and its cheapest auction forget orders, the tokens left
\* of an auction forget updates of it.
NeverTold(kd, k) ==
    \/ kd \in Silent
    \/ k \in {"auction", "default_auctions", "lowest_auctions_marketplace"}
    \/ kd \in {"bid", "buy"} /\ k \in {"availableTokensCount", "lowest_auctions"}
    \/ kd = "update" /\ k = "auction_available_tokens"

\* A cached entry that misses a commit was left by a write that never corrects
\* that key, or whose message was lost, or has not deleted it yet; or the
\* request that stored it was at work while that write was, from its message to
\* its last replica (batchLoad, triggerCacheInvalidation).  Then nothing
\* corrects it before it expires.
StaleIsExplained ==
    \A k \in DOMAIN cache : \A w \in Unseen(k) :
        \/ NeverTold(kind[w], k)
        \/ w \in lost \/ k \in clearing[w]
        \/ w \in cache[k].met

\* When the writes have ended the caches end up showing them all, whatever was
\* lost, late or overwritten, and the keys no message deletes too (batchLoad).
CachesSettle ==
    <>[](\A k \in DOMAIN cache : Unseen(k) = {})
=============================================================================
