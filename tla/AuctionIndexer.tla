--------------------------- MODULE AuctionIndexer ---------------------------
(***************************************************************************)
(* How the service turns the marketplace events of the chain into its      *)
(* MySQL tables auctions, orders and notifications.                        *)
(*                                                                         *)
(* Four kinds of process write these tables at the same time:              *)
(*   - the consumer of the events queue, which handles up to a prefetch of *)
(*     blocks at once (Workers), each handler awaiting its reads and       *)
(*     writes one after the other;                                         *)
(*   - the promises the handlers start and never await (tasks);            *)
(*   - the cron that turns auctions past their deadline into Claimable;    *)
(*   - the consumer of the revert queue, which undoes a block.             *)
(* Every await of a read or a write that matters is a step of its own.     *)
(***************************************************************************)
EXTENDS Integers, SequencesExt

CONSTANTS
  Auctions,      \* auction ids of one marketplace
  Sft,           \* those that sell Supply tokens by piece (the others take bids)
  ByIdentifier,  \* those whose buy and withdraw events carry no auction id
  Tagged,        \* those whose asset has tags
  Bidders,
  Nobody,        \* the address of an event or a row that names no bidder
  Workers,       \* blocks handled at the same time (the consumer's prefetch)
  Supply, MaxAmount,
  Kinds,         \* the kinds of event the chain emits
  CronRuns,      \* whether the claimable cron is started
  MaxEvents, BlockSize, MaxOrders, MaxFaults, MaxReverts   \* bounds

ASSUME SetsAssumption ==
  /\ Workers # {} /\ Auctions # {} /\ Sft \subseteq Auctions /\ ByIdentifier \subseteq Auctions /\ Tagged \subseteq Auctions
  /\ Nobody \notin Bidders
  /\ CronRuns \in BOOLEAN
ASSUME BoundsAssumption ==
  /\ Supply \in Nat \ {0} /\ MaxAmount \in Nat \ {0}
  /\ MaxEvents \in Nat /\ BlockSize \in Nat \ {0} /\ MaxOrders \in Nat
  /\ MaxFaults \in Nat /\ MaxReverts \in Nat

VARIABLES
  log,          \* the events of the canonical chain, in order
  lastHash,     \* the last block produced
  emitted,      \* how many events were ever emitted
  expired,      \* auctions whose deadline has passed
  queue,        \* the blocks not acknowledged, in order
  slot,         \* slot[w]: the block a worker handles, and where it is
  tasks,        \* the promises nobody awaits
  auctions,     \* table auctions: one row per auction id (the unique index)
  nextAuction,  \* auto-increment of table auctions
  orders,       \* table orders
  nextOrder,    \* auto-increment of table orders
  notifs,       \* the active rows of table notifications
  cron,         \* the run of the claimable cron
  revertQueue,  \* the reverted blocks not acknowledged
  revert,       \* the revert being handled
  reverts,      \* how many blocks were reverted
  done,         \* the blocks acknowledged
  dead,         \* the blocks sent to the dead letter exchange
  faults        \* how many crashes and failed calls happened

chainVars == <<log, lastHash, emitted, expired>>
tableVars == <<auctions, nextAuction, orders, nextOrder, notifs>>
revertVars == <<revertQueue, revert, reverts>>
vars == <<chainVars, queue, slot, tasks, tableVars, cron, revertVars, done, dead, faults>>

-----------------------------------------------------------------------------
(* Rows, events and processes.                                             *)

AllKinds == {"start", "bid", "buy", "withdraw", "end", "price", "close"}
Event == [kind : AllKinds, a : Auctions, who : Bidders \cup {Nobody}, amount : 0..MaxAmount]
Block == [hash : Nat, events : Seq(Event) \ {<<>>}]

AuctionStatus == {"Running", "Claimable", "Ended", "Closed"}
\* The columns of an auction the handlers change or test. price stands for
\* minBid and maxBid, which every price update sets to the same amount.
AuctionRow == [id : Nat, a : Auctions, status : AuctionStatus \cup {"absent"},
               blockHash : Nat, price : 0..MaxAmount]
NoAuction(a) == [id |-> 0, a |-> a, status |-> "absent", blockHash |-> 0, price |-> 0]

OrderStatus == {"active", "inactive", "bought"}
OrderRow == [auctionId : Nat, owner : Bidders \cup {Nobody}, amount : 0..MaxAmount,
             tokens : 0..MaxAmount, status : OrderStatus \cup {"absent"}, blockHash : Nat]
NoOrder == [auctionId |-> 0, owner |-> Nobody, amount |-> 0, tokens |-> 0,
            status |-> "absent", blockHash |-> 0]
OrderIds == 1..MaxOrders
\* An order as a handler remembers it: its id (0 for none) and its columns.
OrderCopy == [id : 0..MaxOrders, row : OrderRow]
NoCopy == [id |-> 0, row |-> NoOrder]

Notification == [auctionId : Nat, owner : Bidders \cup {Nobody},
                 type : {"Ended", "Outbidded", "Won"}, cause : Nat]

Task == [task : {"status"}, a : Auctions, id : Nat, status : AuctionStatus, blockHash : Nat]
        \cup [task : {"saveAuction"}, row : AuctionRow]
        \cup [task : {"settle"}, id : Nat]
        \cup [task : {"saveOrder"}, copy : OrderCopy]
        \cup [task : {"seen"}, id : Nat, owner : Bidders \cup {Nobody}]
        \cup [task : {"clear"}, id : Nat]
        \cup [task : {"notify"}, rows : SUBSET Notification]

PC == {"idle", "next", "insert", "order", "save", "outbid", "retire", "feed", "left", "buy", "ack"}
Slot == [hash : Nat, events : Seq(Event), pc : PC,
         auction : AuctionRow, active : OrderCopy, new : 0..MaxOrders]

\* No worker holds a row of this auction: the value of an unused snapshot.
SomeAuction == CHOOSE a \in Auctions : TRUE
IdleSlot == [hash |-> 0, events |-> <<>>, pc |-> "idle",
             auction |-> NoAuction(SomeAuction), active |-> NoCopy, new |-> 0]

IdleCron == [pc |-> "idle", ended |-> {}]
IdleRevert == [pc |-> "idle", rows |-> {}, pending |-> {}, previous |-> NoCopy]

Init ==
  /\ log = <<>> /\ lastHash = 0 /\ emitted = 0 /\ expired = {}
  /\ queue = <<>>
  /\ slot = [w \in Workers |-> IdleSlot]
  /\ tasks = {}
  /\ auctions = [a \in Auctions |-> NoAuction(a)] /\ nextAuction = 1
  /\ orders = [o \in OrderIds |-> NoOrder] /\ nextOrder = 1
  /\ notifs = {}
  /\ cron = IdleCron
  /\ revertQueue = <<>> /\ revert = IdleRevert /\ reverts = 0
  /\ done = {} /\ dead = {} /\ faults = 0

-----------------------------------------------------------------------------
(* The chain: the events it emits form a legal life of each auction.       *)

Happened(a, kinds) == \E i \in DOMAIN log : log[i].event.a = a /\ log[i].event.kind \in kinds
Amounts(a, kind) == {log[i].event.amount : i \in {j \in DOMAIN log :
                        log[j].event.a = a /\ log[j].event.kind = kind}}
Sold(a) == MapThenSumSet(LAMBDA i : log[i].event.amount,
             {i \in DOMAIN log : log[i].event.a = a /\ log[i].event.kind = "buy"})
Best(a) == Max(Amounts(a, "bid") \cup {0})
PriceEvents(a) == {i \in DOMAIN log : log[i].event.a = a /\ log[i].event.kind = "price"}
ChainPrice(a) == IF PriceEvents(a) = {} THEN MaxAmount ELSE log[Max(PriceEvents(a))].event.amount
Over(a) == Happened(a, {"end", "withdraw", "close"}) \/ (a \in Sft /\ Sold(a) = Supply)
Live(a) == Happened(a, {"start"}) /\ ~Over(a)

Legal(e) ==
  /\ e.kind \in Kinds
  /\ \/ e.kind = "start" /\ ~Happened(e.a, AllKinds) /\ e.who = Nobody /\ e.amount = 0
     \/ /\ Live(e.a)
        /\ \/ /\ e.kind = "bid" /\ e.a \notin Sft /\ e.a \notin expired
              /\ e.who \in Bidders /\ Best(e.a) < e.amount /\ e.amount <= ChainPrice(e.a)
           \/ /\ e.kind = "buy" /\ e.a \in Sft
              /\ e.who \in Bidders /\ e.amount \in 1..(Supply - Sold(e.a))
           \/ /\ e.kind = "end" /\ e.a \notin Sft /\ e.who = Nobody /\ e.amount = 0
              /\ e.a \in expired \/ Best(e.a) = ChainPrice(e.a)
           \/ e.kind = "withdraw" /\ Best(e.a) = 0 /\ e.who = Nobody /\ e.amount = 0
           \/ e.kind = "price" /\ Best(e.a) = 0 /\ e.who = Nobody /\ e.amount > 0
           \/ e.kind = "close" /\ Best(e.a) = 0 /\ e.who = Nobody /\ e.amount = 0

Taken == {slot[w].hash : w \in Workers}

Emit(e) ==
  /\ emitted < MaxEvents /\ Legal(e)
  /\ emitted' = emitted + 1
  /\ \/ \* the event opens a block
        /\ lastHash' = lastHash + 1
        /\ queue' = Append(queue, [hash |-> lastHash', events |-> <<e>>])
     \/ \* the event joins the last block, not delivered yet
        /\ queue # <<>> /\ log # <<>>
        /\ LET last == Len(queue) IN
             /\ queue[last].hash = lastHash /\ log[Len(log)].hash = lastHash
             /\ queue[last].hash \notin Taken /\ Len(queue[last].events) < BlockSize
             /\ queue' = [queue EXCEPT ![last].events = Append(@, e)]
        /\ UNCHANGED lastHash
  /\ log' = Append(log, [hash |-> lastHash', event |-> e])
  /\ UNCHANGED <<expired, slot, tasks, tableVars, cron, revertVars, done, dead, faults>>

Deadline(a) ==
  /\ Live(a) /\ a \notin expired
  /\ expired' = expired \cup {a}
  /\ UNCHANGED <<log, lastHash, emitted, queue, slot, tasks, tableVars, cron, revertVars, done, dead, faults>>

\* The chain drops its last block, and its events with it.
RevertBlock ==
  /\ reverts < MaxReverts /\ log # <<>>
  /\ LET h == log[Len(log)].hash IN
       /\ \E k \in 0..(Len(log) - 1) :
            /\ \A i \in DOMAIN log : log[i].hash = h <=> i > k
            /\ log' = SubSeq(log, 1, k)
       /\ revertQueue' = Append(revertQueue, h)
  /\ reverts' = reverts + 1
  /\ UNCHANGED <<lastHash, emitted, expired, queue, slot, tasks, tableVars, cron, revert, done, dead, faults>>

-----------------------------------------------------------------------------
(* The tables. TypeORM's save of a row it does not find inserts it again,  *)
(* under its old id; the unique index and the foreign keys may refuse.     *)

HasAuction(id) == id # 0 /\ \E a \in Auctions : auctions[a].id = id

\* updateAuctionStatus writes a status and the hash of its block together.
\* Faulty variant: only the hash.
WithHash(row, status, hash) == [row EXCEPT !.blockHash = hash]
WithStatus(row, status, hash) == [row EXCEPT !.status = status, !.blockHash = hash]
\* Faulty variant of Claimable: saved as it was read.
AsRead(row) == row
Claimable(row) == [row EXCEPT !.status = "Claimable"]

Savable(row) == auctions[row.a].id \in {0, row.id}
SavedAll(rows) ==
  IF \A r \in rows : Savable(r)
    THEN [a \in Auctions |-> IF \E r \in rows : r.a = a
                               THEN CHOOSE r \in rows : r.a = a ELSE auctions[a]]
    ELSE auctions

\* Faulty variant of OrdersOfBlock: the orders already outbid are left out.
ActiveOrdersOfBlock(hash) == {o \in OrderIds : orders[o].status = "active" /\ orders[o].blockHash = hash}
OrdersOfBlock(hash) == {o \in OrderIds : orders[o].status # "absent" /\ orders[o].blockHash = hash}

OrdersOf(id) == {o \in OrderIds : orders[o].status # "absent" /\ orders[o].auctionId = id}
\* Faulty variant: whatever is not bought counts as active.
NotBoughtOrders(id) == {o \in OrdersOf(id) : orders[o].status # "bought"}
ActiveOrders(id) == {o \in OrdersOf(id) : orders[o].status = "active"}
CopyOf(o) == [id |-> o, row |-> orders[o]]

\* Faulty variant: the entity of the last order is saved again, under its id.
OverwriteOrder(row) ==
  /\ nextOrder \in OrderIds
  /\ orders' = [orders EXCEPT ![nextOrder] = row]
  /\ UNCHANGED nextOrder
InsertOrder(row) ==
  /\ nextOrder \in OrderIds
  /\ orders' = [orders EXCEPT ![nextOrder] = row]
  /\ nextOrder' = nextOrder + 1

\* updateOrderWithStatus: the remembered row is saved with its new status.
OrderSavable(copy) == orders[copy.id].status # "absent" \/ HasAuction(copy.row.auctionId)
\* Faulty variant: the status is not set before the save.
SavedOrderAsRead(copy, status) == [orders EXCEPT ![copy.id] = copy.row]
SavedOrder(copy, status) == [orders EXCEPT ![copy.id] = [copy.row EXCEPT !.status = status]]

-----------------------------------------------------------------------------
(* The consumer of the events queue.                                       *)

event(w) == Head(slot[w].events)
At(w, pc) == slot[w].pc = pc
Kind(w, kind) == event(w).kind = kind

Goto(w, pc) == slot' = [slot EXCEPT ![w].pc = pc]
\* The handler of the current event returns, having started some tasks.
Return(w, started) ==
  /\ tasks' = tasks \cup started
  /\ slot' = [slot EXCEPT ![w] = [IdleSlot EXCEPT !.hash = slot[w].hash, !.events = Tail(slot[w].events),
                                   !.pc = IF Len(slot[w].events) = 1 THEN "ack" ELSE "next"]]
  /\ UNCHANGED <<queue, dead>>
Dequeue(w) == \E i \in DOMAIN queue : queue[i].hash = slot[w].hash /\ queue' = RemoveAt(queue, i)
\* The handler throws: the message goes to the dead letter exchange.
DeadLetter(w) ==
  /\ slot' = [slot EXCEPT ![w] = IdleSlot]
  /\ Dequeue(w)
  /\ dead' = dead \cup {slot[w].hash}
  /\ UNCHANGED tasks

Take(w) ==
  /\ At(w, "idle")
  /\ \E i \in DOMAIN queue :
       /\ queue[i].hash \notin Taken
       /\ \A j \in 1..(i-1) : queue[j].hash \in Taken
       /\ slot' = [slot EXCEPT ![w] = [IdleSlot EXCEPT !.hash = queue[i].hash,
                                        !.events = queue[i].events, !.pc = "next"]]
  /\ UNCHANGED <<chainVars, queue, tasks, tableVars, cron, revertVars, done, dead, faults>>

Ack(w) ==
  /\ At(w, "ack")
  /\ Dequeue(w)
  /\ done' = done \cup {slot[w].hash}
  /\ slot' = [slot EXCEPT ![w] = IdleSlot]
  /\ UNCHANGED <<chainVars, tasks, tableVars, cron, revertVars, dead, faults>>

\* The contract is asked for the auction as it is now; one that is over is gone. Two
\* marketplaces are not asked (ELRONDNFTSWAP_KEY, ENEFTOR_KEY): they are left out.
StartQuery(w) ==
  /\ At(w, "next") /\ Kind(w, "start")
  /\ \/ /\ Live(event(w).a)
        /\ \E price \in 0..MaxAmount :
             /\ price = ChainPrice(event(w).a)
             /\ slot' = [slot EXCEPT ![w].pc = "insert",
                                     ![w].auction = [NoAuction(event(w).a) EXCEPT !.price = price]]
        /\ UNCHANGED <<queue, tasks, dead>>
     \/ ~Live(event(w).a) /\ Return(w, {})
  /\ UNCHANGED <<chainVars, tableVars, cron, revertVars, done, faults>>

\* A second row for the same auction id violates the unique index: the error is caught.
StartInsert(w) ==
  /\ At(w, "insert")
  /\ LET row == slot[w].auction IN
       IF auctions[row.a].id = 0
         THEN /\ auctions' = [auctions EXCEPT ![row.a] = [row EXCEPT !.id = nextAuction,
                                !.status = "Running", !.blockHash = slot[w].hash]]
              /\ nextAuction' = nextAuction + 1
              /\ Goto(w, "feed") /\ UNCHANGED <<queue, tasks, dead>>
         ELSE Return(w, {}) /\ UNCHANGED <<auctions, nextAuction>>
  /\ UNCHANGED <<chainVars, orders, nextOrder, notifs, cron, revertVars, done, faults>>

BidRead(w) ==
  /\ At(w, "next") /\ Kind(w, "bid")
  /\ IF auctions[event(w).a].id # 0
       THEN /\ slot' = [slot EXCEPT ![w].pc = "order", ![w].auction = auctions[event(w).a]]
            /\ UNCHANGED <<queue, tasks, dead>>
       ELSE Return(w, {})
  /\ UNCHANGED <<chainVars, tableVars, cron, revertVars, done, faults>>

\* Faulty variant: a new bid of the leading bidder counts as the old one.
SameBidder(row, e) == row.owner = e.who
HandledBefore(row, e) == row.amount = e.amount

\* The active order the bid replaces (any of them, if there are several); an
\* active order of the same amount means the event was handled before.
BidOrder(w) ==
  /\ At(w, "order")
  /\ LET active == ActiveOrders(slot[w].auction.id) IN
       \/ /\ active = {}
          /\ Goto(w, "save") /\ UNCHANGED <<queue, tasks, dead>>
       \/ \E o \in active :
            IF HandledBefore(orders[o], event(w))
              THEN Return(w, {})
              ELSE /\ slot' = [slot EXCEPT ![w].pc = "save", ![w].active = CopyOf(o)]
                   /\ UNCHANGED <<queue, tasks, dead>>
  /\ UNCHANGED <<chainVars, tableVars, cron, revertVars, done, faults>>

BidRow(w) == [auctionId |-> slot[w].auction.id, owner |-> event(w).who, amount |-> event(w).amount,
              tokens |-> 1, status |-> "active", blockHash |-> slot[w].hash]

BidSave(w) ==
  /\ At(w, "save")
  /\ IF HasAuction(slot[w].auction.id)
       THEN /\ InsertOrder(BidRow(w))
            /\ LET replaces == slot[w].active.id # 0 IN
                 /\ slot' = [slot EXCEPT ![w].pc = IF replaces THEN "outbid" ELSE "feed", ![w].new = nextOrder]
                 /\ tasks' = IF replaces
                               THEN tasks \cup {[task |-> "seen", id |-> slot[w].auction.id, owner |-> event(w).who]}
                               ELSE tasks
            /\ UNCHANGED <<queue, dead>>
       ELSE DeadLetter(w) /\ UNCHANGED <<orders, nextOrder>>
  /\ UNCHANGED <<chainVars, auctions, nextAuction, notifs, cron, revertVars, done, faults>>

BidOutbid(w) ==
  /\ At(w, "outbid")
  /\ IF HasAuction(slot[w].auction.id)
       THEN /\ notifs' = notifs \cup {[auctionId |-> slot[w].auction.id, owner |-> slot[w].active.row.owner,
                                       type |-> "Outbidded", cause |-> slot[w].new]}
            /\ Goto(w, "retire") /\ UNCHANGED <<queue, tasks, dead>>
       ELSE DeadLetter(w) /\ UNCHANGED notifs
  /\ UNCHANGED <<chainVars, auctions, nextAuction, orders, nextOrder, cron, revertVars, done, faults>>

BidRetire(w) ==
  /\ At(w, "retire")
  /\ IF OrderSavable(slot[w].active)
       THEN /\ orders' = SavedOrder(slot[w].active, "inactive")
            /\ Goto(w, "feed") /\ UNCHANGED <<queue, tasks, dead>>
       ELSE DeadLetter(w) /\ UNCHANGED orders
  /\ UNCHANGED <<chainVars, auctions, nextAuction, nextOrder, notifs, cron, revertVars, done, faults>>

\* A bid at the auction's maximum ends it, by tasks.
MaxBidTasks(w) ==
  LET auction == slot[w].auction IN
    { [task |-> "clear", id |-> auction.id],
      [task |-> "notify", rows |-> {
         [auctionId |-> auction.id, owner |-> Nobody, type |-> "Ended", cause |-> slot[w].new],
         [auctionId |-> auction.id, owner |-> event(w).who, type |-> "Won", cause |-> slot[w].new]}],
      [task |-> "status", a |-> auction.a, id |-> auction.id, status |-> "Ended", blockHash |-> slot[w].hash],
      [task |-> "saveOrder", copy |-> [id |-> slot[w].new, row |-> [BidRow(w) EXCEPT !.status = "bought"]]] }

\* The call to the feed service returns.
Feed(w) ==
  /\ At(w, "feed")
  /\ Return(w, IF Kind(w, "bid") /\ event(w).amount = slot[w].auction.price THEN MaxBidTasks(w) ELSE {})
  /\ UNCHANGED <<chainVars, tableVars, cron, revertVars, done, faults>>

\* Lookup by auction id, or, without one, the running auction of the identifier.
Found(a) == auctions[a].id # 0 /\ (a \in ByIdentifier => auctions[a].status = "Running")

BuyRead(w) ==
  /\ At(w, "next") /\ Kind(w, "buy")
  /\ IF Found(event(w).a)
       THEN /\ slot' = [slot EXCEPT ![w].pc = "left", ![w].auction = auctions[event(w).a]]
            /\ UNCHANGED <<queue, tasks, dead>>
       ELSE Return(w, {})
  /\ UNCHANGED <<chainVars, tableVars, cron, revertVars, done, faults>>

\* Faulty variant: only active orders count.
TokensWithoutActive(id) == Supply - MapThenSumSet(LAMBDA o : orders[o].tokens, ActiveOrders(id))
\* Tokens left: every order of the auction counts, whatever its status.
AvailableTokens(id) == Supply - MapThenSumSet(LAMBDA o : orders[o].tokens, OrdersOf(id))

BuyLeft(w) ==
  /\ At(w, "left")
  /\ tasks' = tasks \cup
       (IF HasAuction(slot[w].auction.id) /\ AvailableTokens(slot[w].auction.id) = event(w).amount
          THEN {[task |-> "status", a |-> slot[w].auction.a, id |-> slot[w].auction.id,
                 status |-> "Ended", blockHash |-> slot[w].hash]}
          ELSE {})
  /\ Goto(w, "buy")
  /\ UNCHANGED <<chainVars, queue, tableVars, cron, revertVars, done, dead, faults>>

BuySave(w) ==
  /\ At(w, "buy")
  /\ IF HasAuction(slot[w].auction.id)
       THEN /\ InsertOrder([auctionId |-> slot[w].auction.id, owner |-> event(w).who,
                            amount |-> slot[w].auction.price, tokens |-> event(w).amount,
                            status |-> "bought", blockHash |-> slot[w].hash])
            /\ Goto(w, "feed") /\ UNCHANGED <<queue, tasks, dead>>
       ELSE DeadLetter(w) /\ UNCHANGED <<orders, nextOrder>>
  /\ UNCHANGED <<chainVars, auctions, nextAuction, notifs, cron, revertVars, done, faults>>

\* The other handlers read the auction and start tasks they do not await.
\* Faulty variant: the status of an order is passed for that of an auction.
OrderStatusTask(w, status) ==
  [task |-> "status", a |-> event(w).a, id |-> auctions[event(w).a].id, status |-> "bought", blockHash |-> slot[w].hash]
StatusTask(w, status) ==
  [task |-> "status", a |-> event(w).a, id |-> auctions[event(w).a].id, status |-> status, blockHash |-> slot[w].hash]

Withdraw(w) ==
  /\ At(w, "next") /\ Kind(w, "withdraw")
  /\ Return(w, IF Found(event(w).a) THEN {StatusTask(w, "Closed")} ELSE {})
  /\ UNCHANGED <<chainVars, tableVars, cron, revertVars, done, faults>>

End(w) ==
  /\ At(w, "next") /\ Kind(w, "end")
  /\ LET id == auctions[event(w).a].id IN
       IF id # 0
         THEN /\ tasks' = tasks \cup {StatusTask(w, "Ended"), [task |-> "clear", id |-> id], [task |-> "settle", id |-> id]}
              /\ Goto(w, "feed") /\ UNCHANGED <<queue, dead>>
         ELSE Return(w, {})
  /\ UNCHANGED <<chainVars, tableVars, cron, revertVars, done, faults>>

\* The whole row read here is what the task saves, with its new price. An updated
\* listing or swap takes the same steps and writes an end date as well, and a swap a
\* number of tokens: these two columns are fixed here (Supply, expired).
UpdatePrice(w) ==
  /\ At(w, "next") /\ Kind(w, "price")
  /\ LET row == auctions[event(w).a] IN
       Return(w, IF row.id # 0
                   THEN {[task |-> "saveAuction",
                          row |-> [row EXCEPT !.price = event(w).amount, !.blockHash = slot[w].hash]]}
                   ELSE {})
  /\ UNCHANGED <<chainVars, tableVars, cron, revertVars, done, faults>>

\* An accepted offer closes the auction the same way, and leaves its hash alone.
AcceptOffer(w) ==
  /\ At(w, "next") /\ Kind(w, "close")
  /\ LET row == auctions[event(w).a] IN
       Return(w, IF row.id # 0
                   THEN {[task |-> "saveAuction", row |-> [row EXCEPT !.status = "Closed"]]}
                   ELSE {})
  /\ UNCHANGED <<chainVars, tableVars, cron, revertVars, done, faults>>

-----------------------------------------------------------------------------
(* The promises nobody awaits.                                             *)

Becomes(t, next) == tasks' = (tasks \ {t}) \cup next

\* updateAuctionStatus reads the row afresh, publishes, and saves the whole row.
TaskStatus(t) ==
  /\ t \in tasks /\ t.task = "status"
  /\ Becomes(t, IF t.id # 0 /\ auctions[t.a].id = t.id
                  THEN {[task |-> "saveAuction", row |-> WithStatus(auctions[t.a], t.status, t.blockHash)]}
                  ELSE {})
  /\ UNCHANGED <<chainVars, queue, slot, tableVars, cron, revertVars, done, dead, faults>>

TaskSaveAuction(t) ==
  /\ t \in tasks /\ t.task = "saveAuction"
  /\ auctions' = SavedAll({t.row})
  /\ Becomes(t, {})
  /\ UNCHANGED <<chainVars, queue, slot, nextAuction, orders, nextOrder, notifs, cron, revertVars, done, dead, faults>>

\* updateOrder reads the active order, publishes, and saves it as bought.
TaskSettle(t) ==
  /\ t \in tasks /\ t.task = "settle"
  /\ \/ ActiveOrders(t.id) = {} /\ Becomes(t, {})
     \/ \E o \in ActiveOrders(t.id) :
          Becomes(t, {[task |-> "saveOrder", copy |-> [id |-> o, row |-> [orders[o] EXCEPT !.status = "bought"]]]})
  /\ UNCHANGED <<chainVars, queue, slot, tableVars, cron, revertVars, done, dead, faults>>

TaskSaveOrder(t) ==
  /\ t \in tasks /\ t.task = "saveOrder"
  /\ orders' = IF OrderSavable(t.copy) THEN SavedOrder(t.copy, t.copy.row.status) ELSE orders
  /\ Becomes(t, {})
  /\ UNCHANGED <<chainVars, queue, slot, auctions, nextAuction, nextOrder, notifs, cron, revertVars, done, dead, faults>>

\* A notification never becomes active again, so reading some and saving them
\* as inactive is one step: one of the bidder's (seen), all of the auction's (clear).
TaskSeen(t) ==
  /\ t \in tasks /\ t.task = "seen"
  /\ LET mine == {n \in notifs : n.auctionId = t.id /\ n.owner = t.owner} IN
       \/ mine = {} /\ UNCHANGED notifs
       \/ \E n \in mine : notifs' = notifs \ {n}
  /\ Becomes(t, {})
  /\ UNCHANGED <<chainVars, queue, slot, auctions, nextAuction, orders, nextOrder, cron, revertVars, done, dead, faults>>

TaskClear(t) ==
  /\ t \in tasks /\ t.task = "clear"
  /\ notifs' = {n \in notifs : n.auctionId # t.id}
  /\ Becomes(t, {})
  /\ UNCHANGED <<chainVars, queue, slot, auctions, nextAuction, orders, nextOrder, cron, revertVars, done, dead, faults>>

TaskNotify(t) ==
  /\ t \in tasks /\ t.task = "notify"
  /\ notifs' = notifs \cup t.rows
  /\ Becomes(t, {})
  /\ UNCHANGED <<chainVars, queue, slot, auctions, nextAuction, orders, nextOrder, cron, revertVars, done, dead, faults>>

-----------------------------------------------------------------------------
(* The cron of the expired auctions.                                       *)

CronRead ==
  /\ CronRuns /\ cron.pc = "idle"
  /\ LET ended == {auctions[a] : a \in {b \in expired : auctions[b].status = "Running"}} IN
       /\ ended # {}
       /\ cron' = [pc |-> "clear", ended |-> ended]
  /\ UNCHANGED <<chainVars, queue, slot, tasks, tableVars, revertVars, done, dead, faults>>

CronClear ==
  /\ cron.pc = "clear"
  /\ notifs' = {n \in notifs : \A r \in cron.ended : n.auctionId # r.id}
  /\ cron' = [cron EXCEPT !.pc = "notify"]
  /\ UNCHANGED <<chainVars, queue, slot, tasks, auctions, nextAuction, orders, nextOrder, revertVars, done, dead, faults>>

\* The winner's notification is built from the array of active orders, which has
\* no owner: its insert fails, and the owner's, in the same save, with it.
CronNotify ==
  /\ cron.pc = "notify"
  /\ tasks' = tasks \cup
       {[task |-> "notify", rows |-> {[auctionId |-> r.id, owner |-> Nobody, type |-> "Ended", cause |-> 0]}]
          : r \in {x \in cron.ended : ActiveOrders(x.id) = {}}}
  /\ cron' = [cron EXCEPT !.pc = "save"]
  /\ UNCHANGED <<chainVars, queue, slot, tableVars, revertVars, done, dead, faults>>

\* The rows read at the start are saved whole, as Claimable.
CronSave ==
  /\ cron.pc = "save"
  /\ auctions' = SavedAll({Claimable(r) : r \in cron.ended})
  /\ cron' = IdleCron
  /\ UNCHANGED <<chainVars, queue, slot, tasks, nextAuction, orders, nextOrder, notifs, revertVars, done, dead, faults>>

-----------------------------------------------------------------------------
(* The consumer of the revert queue.                                       *)

Reverted == Head(revertQueue)

RevertRead ==
  /\ revert.pc = "idle" /\ revertQueue # <<>>
  /\ LET rows == {auctions[a] : a \in {b \in Auctions : auctions[b].id # 0 /\ auctions[b].blockHash = Reverted}} IN
       revert' = [IdleRevert EXCEPT !.rows = rows, !.pc = IF rows = {} THEN "orders" ELSE "reopen"]
  /\ UNCHANGED <<chainVars, queue, slot, tasks, tableVars, cron, revertQueue, reverts, done, dead, faults>>

\* Those that are not Running when read run again; a refused save skips the deletes.
RevertReopen ==
  /\ revert.pc = "reopen"
  /\ LET closed == {r \in revert.rows : r.status # "Running"} IN
       /\ auctions' = SavedAll({[r EXCEPT !.status = "Running"] : r \in closed})
       /\ revert' = [revert EXCEPT !.pc = IF \A r \in closed : Savable(r) THEN "delete" ELSE "orders"]
  /\ UNCHANGED <<chainVars, queue, slot, tasks, nextAuction, orders, nextOrder, notifs, cron,
                 revertQueue, reverts, done, dead, faults>>

\* Those that are Running when read are deleted, unless an order or a tag refers to one.
RevertDelete ==
  /\ revert.pc = "delete"
  /\ LET doomed == {r \in revert.rows : r.status = "Running"}
         ids == {r.id : r \in doomed} IN
       auctions' = IF \E r \in doomed : OrdersOf(r.id) # {} \/ r.a \in Tagged
                     THEN auctions
                     ELSE [a \in Auctions |-> IF auctions[a].id \in ids THEN NoAuction(a) ELSE auctions[a]]
  /\ revert' = [revert EXCEPT !.pc = "orders", !.rows = {}]
  /\ UNCHANGED <<chainVars, queue, slot, tasks, nextAuction, orders, nextOrder, notifs, cron,
                 revertQueue, reverts, done, dead, faults>>

RevertOrders ==
  /\ revert.pc = "orders"
  /\ revert' = [revert EXCEPT !.pc = "each", !.pending = OrdersOfBlock(Reverted)]
  /\ UNCHANGED <<chainVars, queue, slot, tasks, tableVars, cron, revertQueue, reverts, done, dead, faults>>

\* The orders of the block, oldest first. The only order of an auction is
\* deleted and nothing else is rolled back; the last of several makes room for
\* the one before it.
RevertOrder ==
  /\ revert.pc = "each"
  /\ \E o \in revert.pending :
       LET others == OrdersOf(orders[o].auctionId) \ {o} IN
       /\ \A p \in revert.pending : o <= p
       /\ orders' = [orders EXCEPT ![o] = NoOrder]
       /\ \/ others = {} /\ revert' = [revert EXCEPT !.pending = {}]
          \/ /\ \E p \in others : p > o
             /\ revert' = [revert EXCEPT !.pending = @ \ {o}]
          \/ \E last \in others :
               /\ \A p \in others : p <= last /\ p < o
               /\ revert' = [revert EXCEPT !.pending = @ \ {o}, !.pc = "revive", !.previous = CopyOf(last)]
  /\ UNCHANGED <<chainVars, queue, slot, tasks, auctions, nextAuction, nextOrder, notifs, cron,
                 revertQueue, reverts, done, dead, faults>>

RevertRevive ==
  /\ revert.pc = "revive"
  /\ orders' = IF OrderSavable(revert.previous) THEN SavedOrder(revert.previous, "active") ELSE orders
  /\ revert' = [revert EXCEPT !.pc = "each", !.previous = NoCopy]
  /\ UNCHANGED <<chainVars, queue, slot, tasks, auctions, nextAuction, nextOrder, notifs, cron,
                 revertQueue, reverts, done, dead, faults>>

RevertAck ==
  /\ revert.pc = "each" /\ revert.pending = {}
  /\ revertQueue' = Tail(revertQueue)
  /\ revert' = IdleRevert
  /\ UNCHANGED <<chainVars, queue, slot, tasks, tableVars, cron, reverts, done, dead, faults>>

-----------------------------------------------------------------------------
(* Faults: a restart of the process, and awaited calls that fail.          *)

\* Blocks not acknowledged are delivered again; promises not settled are gone.
Crash ==
  /\ faults < MaxFaults
  /\ slot' = [w \in Workers |-> IdleSlot]
  /\ tasks' = {}
  /\ cron' = IdleCron /\ revert' = IdleRevert
  /\ faults' = faults + 1
  /\ UNCHANGED <<chainVars, queue, tableVars, revertQueue, reverts, done, dead>>

\* A read, a write or the feed call of a handler fails: the error reaches the
\* consumer, which gives up the block, unless saveAuction or saveNotification
\* caught it.
HandlerFails(w) ==
  /\ faults < MaxFaults
  /\ ~At(w, "idle")
  /\ \/ slot[w].pc \in {"next", "insert"} /\ Kind(w, "start") /\ Return(w, {})
     \/ At(w, "outbid") /\ Goto(w, "retire") /\ UNCHANGED <<queue, tasks, dead>>
     \/ DeadLetter(w)
  /\ faults' = faults + 1
  /\ UNCHANGED <<chainVars, tableVars, cron, revertVars, done>>

\* A task fails: the error is logged.
TaskFails(t) ==
  /\ faults < MaxFaults
  /\ t \in tasks
  /\ Becomes(t, {})
  /\ faults' = faults + 1
  /\ UNCHANGED <<chainVars, queue, slot, tableVars, cron, revertVars, done, dead>>

-----------------------------------------------------------------------------
Handle(w) ==
  \/ Take(w) \/ Ack(w)
  \/ StartQuery(w) \/ StartInsert(w)
  \/ BidRead(w) \/ BidOrder(w) \/ BidSave(w) \/ BidOutbid(w) \/ BidRetire(w) \/ Feed(w)
  \/ BuyRead(w) \/ BuyLeft(w) \/ BuySave(w)
  \/ Withdraw(w) \/ End(w) \/ UpdatePrice(w) \/ AcceptOffer(w)

Settle(t) ==
  \/ TaskStatus(t) \/ TaskSaveAuction(t) \/ TaskSettle(t) \/ TaskSaveOrder(t)
  \/ TaskSeen(t) \/ TaskClear(t) \/ TaskNotify(t)

Cron == CronRead \/ CronClear \/ CronNotify \/ CronSave

Rollback ==
  RevertRead \/ RevertReopen \/ RevertDelete \/ RevertOrders \/ RevertOrder \/ RevertRevive \/ RevertAck

Chain == (\E e \in Event : Emit(e)) \/ (\E a \in Auctions : Deadline(a)) \/ RevertBlock

Faulty == Crash \/ (\E w \in Workers : HandlerFails(w)) \/ (\E t \in tasks : TaskFails(t))

Next ==
  \/ Chain
  \/ \E w \in Workers : Handle(w)
  \/ \E t \in tasks : Settle(t)
  \/ Cron
  \/ Rollback
  \/ Faulty

Spec == Init /\ [][Next]_vars

\* The scheduler runs what is ready: handlers, promises, the cron's timer and the
\* two consumers. The chain, crashes and failures are under no obligation.
Fairness ==
  /\ \A w \in Workers : WF_vars(Handle(w))
  /\ WF_vars(\E t \in tasks : Settle(t))
  /\ WF_vars(Cron) /\ WF_vars(Rollback)
FairSpec == Spec /\ Fairness

-----------------------------------------------------------------------------
TypeOK ==
  /\ log \in Seq([hash : Nat, event : Event])
  /\ lastHash \in Nat /\ emitted \in Nat /\ expired \subseteq Auctions
  /\ queue \in Seq(Block)
  /\ slot \in [Workers -> Slot]
  /\ tasks \subseteq Task
  /\ auctions \in [Auctions -> AuctionRow] /\ nextAuction \in Nat \ {0}
  /\ orders \in [OrderIds -> OrderRow] /\ nextOrder \in Nat \ {0}
  /\ notifs \subseteq Notification
  /\ cron \in [pc : {"idle", "clear", "notify", "save"}, ended : SUBSET AuctionRow]
  /\ revertQueue \in Seq(Nat) /\ reverts \in Nat
  /\ revert \in [pc : {"idle", "reopen", "delete", "orders", "each", "revive"},
                 rows : SUBSET AuctionRow, pending : SUBSET OrderIds, previous : OrderCopy]
  /\ done \subseteq Nat /\ dead \subseteq Nat /\ faults \in Nat

\* Nothing is under way: every block handled, every promise settled.
Settled ==
  /\ queue = <<>> /\ tasks = {} /\ revertQueue = <<>>
  /\ \A w \in Workers : At(w, "idle")
  /\ cron.pc = "idle"
Indexed(a) == auctions[a].id # 0

\* An auction has one winning order at most: a second active order exists only
\* while a bid handler is between inserting its order and retiring the one it
\* replaces (updateAuctionOrders), and it is that one. A crash just there leaves
\* both, so this is for histories without.
OneActiveOrder ==
  faults = 0 => \A id \in {auctions[a].id : a \in Auctions} : \A o, p \in ActiveOrders(id) :
    o < p => \E w \in Workers : /\ slot[w].pc \in {"outbid", "retire"}
                                /\ slot[w].active.id = o /\ slot[w].new = p

\* When an auction has ended on the chain and everything is handled, the one
\* bought order is the highest bid, of its bidder (endAuction's updateOrder, or
\* the maximum bid's updateOrderWithStatus), and no order is active any more.
WinnerIsHighestBid ==
  Settled => \A a \in Auctions : Indexed(a) /\ Happened(a, {"end"}) /\ Best(a) > 0 =>
    LET of == OrdersOf(auctions[a].id) IN
      /\ \E o \in of : /\ {p \in of : orders[p].status = "bought"} = {o}
                      /\ \E i \in DOMAIN log :
                           log[i].event = [kind |-> "bid", a |-> a, who |-> orders[o].owner, amount |-> Best(a)]
                      /\ orders[o].amount = Best(a)
      /\ \A o \in of : orders[o].status # "active"

\* While an auction runs on the chain and everything is handled, its highest bid
\* is the one active order: a bid that is overtaken by another, or undone by a
\* revert, hands the place over (updateAuctionOrders, rollbackOrdersByHash).
BestBidLeads ==
  Settled => \A a \in Auctions \ Sft : Indexed(a) /\ Live(a) /\ Best(a) < ChainPrice(a) =>
    {orders[o].amount : o \in ActiveOrders(auctions[a].id)} = IF Best(a) = 0 THEN {} ELSE {Best(a)}

\* When everything is handled, every order stems from a block of the chain.
OrdersAreCanonical ==
  Settled => \A o \in OrderIds : orders[o].status # "absent" =>
    \E i \in DOMAIN log : log[i].hash = orders[o].blockHash

\* When everything is handled the status of an indexed auction is the chain's,
\* although each status is written by a promise nobody awaits.
StatusFollowsChain ==
  Settled => \A a \in Auctions : Indexed(a) =>
    LET status == auctions[a].status IN
      /\ Live(a) => status = IF Best(a) = ChainPrice(a) THEN "Ended" ELSE "Running"
      /\ Happened(a, {"withdraw", "close"}) => status = "Closed"
      /\ Over(a) /\ ~Happened(a, {"withdraw", "close"}) => status = "Ended"

\* What was sold on the chain is what the orders of the auction add up to.
TokensAddUp ==
  Settled => \A a \in Sft : Indexed(a) => Supply - AvailableTokens(auctions[a].id) = Sold(a)

\* An acknowledged block never loses a bid: whatever crashed or failed, its order
\* is recorded, or the block is not acknowledged and comes back or is dead.
BidsRecorded ==
  \A i \in DOMAIN log :
    LET e == log[i].event IN
    e.kind = "bid" /\ log[i].hash \in done /\ Indexed(e.a) =>
      \E o \in OrdersOf(auctions[e.a].id) : orders[o].owner = e.who /\ orders[o].amount = e.amount

\* An auction that is over is not offered for sale any more, whatever the cron does
\* meanwhile. A crash or a failed call may lose the event, or the status that nobody
\* awaits, so this is for histories without.
OverIsNotRunning ==
  Settled /\ faults = 0 => \A a \in Auctions : Indexed(a) /\ Over(a) => auctions[a].status # "Running"

Facts(row) == [row EXCEPT !.status = "active"]
\* Handlers save remembered copies of whole rows; none ever changes who bid what.
OrderFactsImmutable ==
  [][\A o \in OrderIds : orders[o].status # "absent" /\ orders'[o].status # "absent"
       => Facts(orders'[o]) = Facts(orders[o])]_orders

\* An auction past its deadline ends up outside Running, for good: the cron reads
\* it again as long as a stale save puts it back.
ExpiredLeaveRunning ==
  \A a \in Auctions : [](a \in expired => <>[](auctions[a].status # "Running"))

\* The orders of the bidding auctions, as the bids a reader sees: with one worker
\* the interleaved handlers and promises implement AuctionBook.
BidsOf(a, statuses) == {[who |-> orders[o].owner, amount |-> orders[o].amount] :
                          o \in {p \in OrdersOf(auctions[a].id) : orders[p].status \in statuses}}
Book == INSTANCE AuctionBook WITH
          Auctions <- Auctions \ Sft,
          bids <- [a \in Auctions \ Sft |-> BidsOf(a, OrderStatus)],
          won  <- [a \in Auctions \ Sft |-> BidsOf(a, {"bought"})]
BooksBids == Book!Spec
=============================================================================
