----------------------- MODULE AuctionIndexer_proofs -----------------------
(***************************************************************************)
(* AuctionIndexer is type correct, and no save of a remembered order       *)
(* changes its facts, for any auctions, bidders, workers, bounds, faults   *)
(* and reverts. However many blocks are handled at a time, an auction has  *)
(* one active order but while a bid takes its place, as long as no two     *)
(* bids of one auction are handled at once (BiddersApart) and no order is  *)
(* revived meanwhile (RevivesAlone); and no bid of an acknowledged block   *)
(* is lost, as long as no two blocks in hand are about one auction         *)
(* (AuctionsApart) and no block was reverted. Without these conditions     *)
(* both fail.                                                              *)
(***************************************************************************)
EXTENDS AuctionIndexer, FiniteSetTheorems, SequenceTheorems, WellFoundedInduction, TLAPS

-----------------------------------------------------------------------------
(* Type correctness. A handler that is not done has an event left: without *)
(* this its Tail would have no type.                                       *)

HasEvent == \A w \in Workers : slot[w].pc \notin {"idle", "ack"} => slot[w].events # <<>>
TypeInv == TypeOK /\ HasEvent
\* Likewise of the revert that is being handled.
HasReverted == revert.pc # "idle" => revertQueue # <<>>

LEMMA HeadTail ==
  ASSUME NEW S, NEW q \in Seq(S), q # <<>>
  PROVE  Head(q) \in S /\ Tail(q) \in Seq(S) /\ (Len(q) # 1 => Tail(q) # <<>>)
<1>1. /\ Head(q) \in S /\ Tail(q) \in Seq(S) /\ Len(Tail(q)) = Len(q) - 1
  BY HeadTailProperties
<1>2. Len(q) \in Nat /\ Len(<<>>) = 0
  OBVIOUS
<1> QED  BY <1>1, <1>2

LEMMA NullTypes ==
  /\ \A a \in Auctions : NoAuction(a) \in AuctionRow
  /\ NoOrder \in OrderRow /\ NoCopy \in OrderCopy
  /\ IdleSlot \in Slot
<1> SomeAuction \in Auctions
  BY SetsAssumption DEF SomeAuction
<1> /\ 0 \in 0..MaxAmount /\ 0 \in 0..MaxOrders
  BY BoundsAssumption
<1> QED BY DEF IdleSlot, Slot, PC, NoAuction, AuctionRow, AuctionStatus, NoCopy, OrderCopy, NoOrder, OrderRow, OrderStatus

\* What a handler that returns does to the consumer's state.
LEMMA ReturnType ==
  ASSUME TypeInv, NEW w \in Workers, NEW started \in SUBSET Task,
         ~At(w, "idle"), ~At(w, "ack"), Return(w, started)
  PROVE  /\ slot' \in [Workers -> Slot]
         /\ \A v \in Workers : slot'[v].pc \notin {"idle", "ack"} => slot'[v].events # <<>>
         /\ tasks' \subseteq Task /\ UNCHANGED <<queue, dead>>
<1> DEFINE s == slot[w]
<1>1. s \in Slot /\ s.events \in Seq(Event) /\ s.events # <<>> /\ s.hash \in Nat
  BY DEF TypeInv, TypeOK, HasEvent, At, Slot
<1>2. Tail(s.events) \in Seq(Event) /\ (Len(s.events) # 1 => Tail(s.events) # <<>>)
  BY <1>1, HeadTail
<1> DEFINE new == [IdleSlot EXCEPT !.hash = s.hash, !.events = Tail(s.events),
                                   !.pc = IF Len(s.events) = 1 THEN "ack" ELSE "next"]
<1>3. new \in Slot /\ new.events = Tail(s.events) /\ new.pc = IF Len(s.events) = 1 THEN "ack" ELSE "next"
  BY <1>1, <1>2, NullTypes DEF Slot, PC, IdleSlot
<1>4. slot' = [slot EXCEPT ![w] = new]
  BY DEF Return
<1> HIDE DEF new
<1>5. slot' \in [Workers -> Slot]
  BY <1>3, <1>4 DEF TypeInv, TypeOK
<1>6. \A v \in Workers : slot'[v].pc \notin {"idle", "ack"} => slot'[v].events # <<>>
  BY <1>2, <1>3, <1>4 DEF TypeInv, TypeOK, HasEvent
<1> QED  BY <1>5, <1>6 DEF Return, TypeInv, TypeOK

LEMMA GotoType ==
  ASSUME TypeInv, NEW w \in Workers, NEW pc \in PC, ~At(w, "idle"), ~At(w, "ack"), Goto(w, pc)
  PROVE  /\ slot' \in [Workers -> Slot]
         /\ \A v \in Workers : slot'[v].pc \notin {"idle", "ack"} => slot'[v].events # <<>>
<1>1. [slot[w] EXCEPT !.pc = pc] \in Slot /\ [slot[w] EXCEPT !.pc = pc].events = slot[w].events /\ slot[w].events # <<>>
  BY Zenon DEF TypeInv, TypeOK, HasEvent, Slot, At
<1>2. slot' = [slot EXCEPT ![w] = [slot[w] EXCEPT !.pc = pc]]
  BY DEF Goto
<1> QED BY <1>1, <1>2, Zenon DEF TypeInv, TypeOK, HasEvent

LEMMA RemoveType ==
  ASSUME NEW S, NEW q \in Seq(S), NEW i \in DOMAIN q
  PROVE  RemoveAt(q, i) \in Seq(S)
<1>1. SubSeq(q, 1, i-1) \in Seq(S) /\ SubSeq(q, i+1, Len(q)) \in Seq(S)
  OBVIOUS
<1> QED  BY <1>1 DEF RemoveAt

LEMMA DropType ==
  ASSUME TypeInv, NEW w \in Workers, Dequeue(w), slot' = [slot EXCEPT ![w] = IdleSlot]
  PROVE  /\ queue' \in Seq(Block) /\ slot' \in [Workers -> Slot] /\ slot[w].hash \in Nat
         /\ \A v \in Workers : slot'[v].pc \notin {"idle", "ack"} => slot'[v].events # <<>>
<1>1. IdleSlot.pc = "idle"
  BY DEF IdleSlot
<1>2. \A v \in Workers : slot'[v].pc \notin {"idle", "ack"} => slot'[v].events # <<>>
  BY <1>1, Zenon DEF TypeInv, TypeOK, HasEvent
<1> QED BY <1>2, NullTypes, RemoveType DEF TypeInv, TypeOK, Slot, Dequeue

LEMMA DeadLetterType ==
  ASSUME TypeInv, NEW w \in Workers, DeadLetter(w)
  PROVE  /\ queue' \in Seq(Block) /\ slot' \in [Workers -> Slot] /\ dead' \subseteq Nat /\ tasks' \subseteq Task
         /\ \A v \in Workers : slot'[v].pc \notin {"idle", "ack"} => slot'[v].events # <<>>
  BY DropType DEF DeadLetter, TypeInv, TypeOK

LEMMA SavedAllType ==
  ASSUME TypeInv, NEW rows \in SUBSET AuctionRow
  PROVE  SavedAll(rows) \in [Auctions -> AuctionRow]
<1>1. \A a \in Auctions : (\E r \in rows : r.a = a) => (CHOOSE r \in rows : r.a = a) \in AuctionRow
  OBVIOUS
<1> QED  BY <1>1 DEF SavedAll, TypeInv, TypeOK

LEMMA CurrentEvent ==
  ASSUME TypeInv, NEW w \in Workers, ~At(w, "idle"), ~At(w, "ack")
  PROVE  /\ event(w).a \in Auctions /\ event(w).who \in Bidders \cup {Nobody} /\ event(w).amount \in 0..MaxAmount
         /\ slot[w] \in Slot /\ slot[w].hash \in Nat /\ slot[w].auction \in AuctionRow
         /\ slot[w].active \in OrderCopy /\ slot[w].new \in 0..MaxOrders /\ slot[w].events # <<>>
<1>1. event(w) \in Event
  BY HeadTail DEF event, Slot, TypeInv, TypeOK, HasEvent, At
<1> QED BY <1>1 DEF Event, Slot, TypeInv, TypeOK, HasEvent, At

LEMMA AppendType ==
  ASSUME NEW S, NEW q \in Seq(S), NEW e \in S
  PROVE  Append(q, e) \in Seq(S) /\ Append(q, e) # <<>>
<1>1. Append(q, e) \in Seq(S) /\ Len(Append(q, e)) = Len(q) + 1 /\ Len(q) \in Nat /\ Len(<<>>) = 0
  OBVIOUS
<1> QED  BY <1>1

LEMMA SlotType ==
  ASSUME TypeInv, NEW w \in Workers, NEW new \in Slot, slot' = [slot EXCEPT ![w] = new],
         new.pc \notin {"idle", "ack"} => new.events # <<>>
  PROVE  /\ slot' \in [Workers -> Slot]
         /\ \A v \in Workers : slot'[v].pc \notin {"idle", "ack"} => slot'[v].events # <<>>
BY DEF TypeInv, TypeOK, HasEvent

LEMMA CopyType ==
  ASSUME TypeInv, NEW o \in OrderIds
  PROVE  CopyOf(o) \in OrderCopy
BY BoundsAssumption DEF CopyOf, OrderCopy, OrderIds, TypeInv, TypeOK

LEMMA BidRowType ==
  ASSUME TypeInv, NEW w \in Workers, ~At(w, "idle"), ~At(w, "ack")
  PROVE  BidRow(w) \in OrderRow
BY CurrentEvent, BoundsAssumption DEF BidRow, OrderRow, OrderStatus, AuctionRow

LEMMA InsertType ==
  ASSUME TypeInv, NEW row \in OrderRow, InsertOrder(row)
  PROVE  orders' \in [OrderIds -> OrderRow] /\ nextOrder' \in Nat \ {0}
BY DEF InsertOrder, OrderIds, TypeInv, TypeOK

LEMMA SavedOrderType ==
  ASSUME TypeInv, NEW copy \in OrderCopy, NEW status \in OrderStatus \cup {"absent"}
  PROVE  SavedOrder(copy, status) \in [OrderIds -> OrderRow]
<1>1. [copy.row EXCEPT !.status = status] \in OrderRow
  BY DEF OrderCopy, OrderRow
<1> QED  BY <1>1 DEF SavedOrder, TypeInv, TypeOK

LEMMA MaxBidType ==
  ASSUME TypeInv, NEW w \in Workers, ~At(w, "idle"), ~At(w, "ack")
  PROVE  MaxBidTasks(w) \subseteq Task
<1>1. slot[w].auction.id \in Nat /\ slot[w].auction.a \in Auctions /\ slot[w].hash \in Nat
      /\ slot[w].new \in 0..MaxOrders /\ event(w).who \in Bidders \cup {Nobody}
  BY CurrentEvent DEF AuctionRow
<1> QED BY <1>1, BidRowType DEF MaxBidTasks, Task, Notification, AuctionStatus, OrderCopy, OrderRow, OrderStatus

LEMMA StatusTaskType ==
  ASSUME TypeInv, NEW w \in Workers, ~At(w, "idle"), ~At(w, "ack"), NEW status \in AuctionStatus
  PROVE  StatusTask(w, status) \in Task
<1>1. event(w).a \in Auctions /\ slot[w].hash \in Nat
  BY CurrentEvent
<1>2. auctions[event(w).a].id \in Nat
  BY <1>1 DEF TypeInv, TypeOK, AuctionRow
<1> QED  BY <1>1, <1>2 DEF StatusTask, Task

LEMMA BecomesType ==
  ASSUME TypeInv, NEW t, NEW next \in SUBSET Task, Becomes(t, next)
  PROVE  tasks' \subseteq Task
BY DEF Becomes, TypeInv, TypeOK

\* A row of the tables, or of a copy of them, with another status.
LEMMA StatusType ==
  /\ \A r \in AuctionRow, status \in AuctionStatus, h \in Nat :
       WithStatus(r, status, h) \in AuctionRow /\ [r EXCEPT !.status = status] \in AuctionRow
  /\ \A r \in OrderRow, status \in OrderStatus : [r EXCEPT !.status = status] \in OrderRow
BY DEF WithStatus, AuctionRow, OrderRow

LEMMA TypeStep == TypeInv /\ HasReverted /\ [Next]_vars => TypeInv'
<1> SUFFICES ASSUME TypeInv, HasReverted, [Next]_vars PROVE TypeInv'
  OBVIOUS
<1> USE DEF chainVars, tableVars, revertVars, At
<1>1. ASSUME NEW e \in Event, Emit(e) PROVE TypeInv'
  <2>1. lastHash' \in Nat
    BY SMTT(30), <1>1 DEF Emit, TypeInv, TypeOK
  <2>2. queue' \in Seq(Block)
    <3>1. CASE queue' = Append(queue, [hash |-> lastHash', events |-> <<e>>])
      <4>1. [hash |-> lastHash', events |-> <<e>>] \in Block
        BY <2>1 DEF Block
      <4> QED  BY <3>1, <4>1, AppendType DEF TypeInv, TypeOK
    <3>2. CASE queue # <<>> /\ queue' = [queue EXCEPT ![Len(queue)].events = Append(@, e)]
      <4> DEFINE last == queue[Len(queue)]
      <4>1. queue \in Seq(Block) /\ Len(queue) \in DOMAIN queue /\ last \in Block
        BY <3>2 DEF TypeInv, TypeOK
      <4>2. Append(last.events, e) \in Seq(Event) \ {<<>>}
        BY <4>1, AppendType DEF Block
      <4>3. [last EXCEPT !.events = Append(@, e)] \in Block
        BY <4>1, <4>2 DEF Block
      <4> QED  BY <3>2, <4>1, <4>3
    <3> QED  BY <1>1, <3>1, <3>2 DEF Emit
  <2>3. log' \in Seq([hash : Nat, event : Event])
    <3>1. [hash |-> lastHash', event |-> e] \in [hash : Nat, event : Event]
      BY <2>1
    <3> QED  BY <1>1, <3>1, AppendType DEF Emit, TypeInv, TypeOK
  <2>4. emitted' = emitted + 1
        /\ UNCHANGED <<expired, slot, tasks, tableVars, cron, revertVars, done, dead, faults>>
    BY <1>1 DEF Emit
  <2> QED  BY <2>1, <2>2, <2>3, <2>4 DEF TypeInv, TypeOK, HasEvent
<1>2. ASSUME NEW a \in Auctions, Deadline(a) PROVE TypeInv'
  BY <1>2 DEF Deadline, TypeInv, TypeOK, HasEvent
<1>3. ASSUME RevertBlock PROVE TypeInv'
  <2>1. PICK k \in 0..(Len(log) - 1) : log' = SubSeq(log, 1, k)
    BY <1>3 DEF RevertBlock
  <2>2. log \in Seq([hash : Nat, event : Event]) /\ log # <<>>
    BY <1>3 DEF RevertBlock, TypeInv, TypeOK
  <2>3. log' \in Seq([hash : Nat, event : Event])
    <3> DEFINE L == [hash : Nat, event : Event]
    <3>1. log \in Seq(L) /\ k \in 0..(Len(log) - 1)
      BY <2>1, <2>2
    <3> HIDE DEF L
    <3>2. SubSeq(log, 1, k) \in Seq(L)
      BY <3>1
    <3> QED  BY <2>1, <3>2 DEF L
  <2>4. log[Len(log)].hash \in Nat
    <3>1. Len(log) \in DOMAIN log
      BY <2>2
    <3> DEFINE L == [hash : Nat, event : Event]
    <3>2. log \in Seq(L)
      BY <2>2
    <3> HIDE DEF L
    <3>3. log[Len(log)] \in L
      BY <3>1, <3>2
    <3> QED  BY <3>3 DEF L
  <2>5. revertQueue' \in Seq(Nat) /\ reverts' \in Nat
    BY <1>3, <2>4, AppendType DEF RevertBlock, TypeInv, TypeOK
  <2> QED  BY <1>3, <2>3, <2>5 DEF RevertBlock, TypeInv, TypeOK, HasEvent
<1>4. ASSUME NEW w \in Workers, Take(w) PROVE TypeInv'
  <2>1. PICK i \in DOMAIN queue : slot' = [slot EXCEPT ![w] = [IdleSlot EXCEPT !.hash = queue[i].hash,
                                                              !.events = queue[i].events, !.pc = "next"]]
    BY <1>4 DEF Take
  <2> DEFINE new == [IdleSlot EXCEPT !.hash = queue[i].hash, !.events = queue[i].events, !.pc = "next"]
  <2>2. queue[i].hash \in Nat /\ queue[i].events \in Seq(Event) /\ queue[i].events # <<>>
    <3> queue[i] \in Block
      BY DEF TypeInv, TypeOK
    <3> QED  BY DEF Block
  <2>3. new \in Slot /\ new.events = queue[i].events
    BY <2>2, NullTypes DEF Slot, PC, IdleSlot
  <2> HIDE DEF new
  <2>4. slot' \in [Workers -> Slot] /\ \A v \in Workers : slot'[v].pc \notin {"idle", "ack"} => slot'[v].events # <<>>
    BY <2>1, <2>2, <2>3, SlotType DEF new
  <2> QED  BY <1>4, <2>4 DEF Take, TypeInv, TypeOK, HasEvent
<1>5. ASSUME NEW w \in Workers, Ack(w) PROVE TypeInv'
  BY <1>5, DropType DEF Ack, TypeInv, TypeOK, HasEvent
<1>6. ASSUME NEW w \in Workers, StartQuery(w) PROVE TypeInv'
  <2>1. CASE Return(w, {})
    BY <1>6, <2>1, ReturnType DEF StartQuery, TypeInv, TypeOK, HasEvent
  <2>2. ASSUME NEW price \in 0..MaxAmount, UNCHANGED <<queue, tasks, dead>>,
               slot' = [slot EXCEPT ![w].pc = "insert", ![w].auction = [NoAuction(event(w).a) EXCEPT !.price = price]]
        PROVE  TypeInv'
    <3>1. [NoAuction(event(w).a) EXCEPT !.price = price] \in AuctionRow
      BY <1>6, <2>2, CurrentEvent, NullTypes DEF AuctionRow, StartQuery
    <3> DEFINE new == [slot[w] EXCEPT !.pc = "insert", !.auction = [NoAuction(event(w).a) EXCEPT !.price = price]]
    <3>2. new \in Slot /\ new.events = slot[w].events /\ slot[w].events # <<>>
      BY <1>6, <3>1, CurrentEvent DEF StartQuery, Slot, PC
    <3>3. slot' = [slot EXCEPT ![w] = new]
      BY <2>2
    <3> HIDE DEF new
    <3>4. slot' \in [Workers -> Slot] /\ HasEvent'
      BY <3>2, <3>3, SlotType DEF HasEvent
    <3> QED  BY Zenon, <1>6, <2>2, <3>4 DEF StartQuery, TypeInv, TypeOK, HasEvent
  <2> QED  BY <1>6, <2>1, <2>2 DEF StartQuery
<1>7. ASSUME NEW w \in Workers, StartInsert(w) PROVE TypeInv'
  <2> DEFINE row == slot[w].auction
  <2>1. CASE Return(w, {}) /\ UNCHANGED <<auctions, nextAuction>>
    BY <1>7, <2>1, ReturnType DEF StartInsert, TypeInv, TypeOK, HasEvent
  <2>2. ASSUME auctions' = [auctions EXCEPT ![row.a] = [row EXCEPT !.id = nextAuction, !.status = "Running",
                                                                   !.blockHash = slot[w].hash]],
               nextAuction' = nextAuction + 1, Goto(w, "feed"), UNCHANGED <<queue, tasks, dead>>
        PROVE  TypeInv'
    <3>1. auctions' \in [Auctions -> AuctionRow] /\ nextAuction' \in Nat \ {0}
      <4>1. row \in AuctionRow /\ slot[w].hash \in Nat /\ nextAuction \in Nat \ {0}
        BY <1>7, CurrentEvent DEF StartInsert, TypeInv, TypeOK
      <4>3. row.a \in Auctions /\ auctions \in [Auctions -> AuctionRow]
        BY <4>1 DEF TypeInv, TypeOK, AuctionRow
      <4>2. [row EXCEPT !.id = nextAuction, !.status = "Running", !.blockHash = slot[w].hash] \in AuctionRow
        BY <4>1 DEF AuctionRow, AuctionStatus
      <4> QED  BY <2>2, <4>1, <4>2, <4>3
    <3>2. slot' \in [Workers -> Slot] /\ HasEvent'
      BY <1>7, <2>2, GotoType DEF StartInsert, PC, HasEvent
    <3> QED  BY <1>7, <2>2, <3>1, <3>2 DEF StartInsert, TypeInv, TypeOK
  <2> QED  BY <1>7, <2>1, <2>2 DEF StartInsert
<1>8. ASSUME NEW w \in Workers, BidRead(w) PROVE TypeInv'
  <2>1. CASE Return(w, {})
    BY <1>8, <2>1, ReturnType DEF BidRead, TypeInv, TypeOK, HasEvent
  <2>2. ASSUME slot' = [slot EXCEPT ![w].pc = "order", ![w].auction = auctions[event(w).a]],
               UNCHANGED <<queue, tasks, dead>>
        PROVE  TypeInv'
    <3> DEFINE new == [slot[w] EXCEPT !.pc = "order", !.auction = auctions[event(w).a]]
    <3>1. auctions[event(w).a] \in AuctionRow
      BY <1>8, CurrentEvent DEF BidRead, TypeInv, TypeOK
    <3>2. new \in Slot /\ new.events = slot[w].events /\ slot[w].events # <<>>
      BY <1>8, <3>1, CurrentEvent DEF BidRead, Slot, PC
    <3>3. slot' = [slot EXCEPT ![w] = new]
      BY <2>2
    <3> HIDE DEF new
    <3>4. slot' \in [Workers -> Slot] /\ HasEvent'
      BY <3>2, <3>3, SlotType DEF HasEvent
    <3> QED  BY <1>8, <2>2, <3>4 DEF BidRead, TypeInv, TypeOK
  <2> QED  BY <1>8, <2>1, <2>2 DEF BidRead
<1>9. ASSUME NEW w \in Workers, BidOrder(w) PROVE TypeInv'
  <2>1. CASE Return(w, {})
    BY <1>9, <2>1, ReturnType DEF BidOrder, TypeInv, TypeOK, HasEvent
  <2>2. CASE Goto(w, "save") /\ UNCHANGED <<queue, tasks, dead>>
    <3>1. slot' \in [Workers -> Slot] /\ HasEvent'
      BY <1>9, <2>2, GotoType DEF BidOrder, PC, HasEvent
    <3> QED  BY <1>9, <2>2, <3>1 DEF BidOrder, TypeInv, TypeOK
  <2>3. ASSUME NEW o \in ActiveOrders(slot[w].auction.id), UNCHANGED <<queue, tasks, dead>>,
               slot' = [slot EXCEPT ![w].pc = "save", ![w].active = CopyOf(o)]
        PROVE  TypeInv'
    <3> DEFINE new == [slot[w] EXCEPT !.pc = "save", !.active = CopyOf(o)]
    <3>1. CopyOf(o) \in OrderCopy
      BY CopyType DEF ActiveOrders, OrdersOf
    <3>2. new \in Slot /\ new.events = slot[w].events /\ slot[w].events # <<>>
      BY <1>9, <3>1, CurrentEvent DEF BidOrder, Slot, PC
    <3>3. slot' = [slot EXCEPT ![w] = new]
      BY <2>3
    <3> HIDE DEF new
    <3>4. slot' \in [Workers -> Slot] /\ HasEvent'
      BY <3>2, <3>3, SlotType DEF HasEvent
    <3> QED  BY <1>9, <2>3, <3>4 DEF BidOrder, TypeInv, TypeOK
  <2> QED  BY <1>9, <2>1, <2>2, <2>3 DEF BidOrder
<1>10. ASSUME NEW w \in Workers, BidSave(w) PROVE TypeInv'
  <2>1. CASE DeadLetter(w) /\ UNCHANGED <<orders, nextOrder>>
    BY <1>10, <2>1, DeadLetterType DEF BidSave, TypeInv, TypeOK, HasEvent
  <2>2. CASE HasAuction(slot[w].auction.id)
    <3> DEFINE next == IF slot[w].active.id # 0 THEN "outbid" ELSE "feed"
               new == [slot[w] EXCEPT !.pc = next, !.new = nextOrder]
    <3>1. InsertOrder(BidRow(w)) /\ slot' = [slot EXCEPT ![w] = new] /\ UNCHANGED <<queue, dead>>
      BY <1>10, <2>2 DEF BidSave
    <3>2. nextOrder \in 1..MaxOrders
      BY <3>1 DEF InsertOrder, OrderIds
    <3>3. new \in Slot /\ new.events = slot[w].events /\ slot[w].events # <<>>
      <4>1. slot[w] \in Slot /\ slot[w].events # <<>>
        BY <1>10, CurrentEvent DEF BidSave
      <4>2. next \in PC /\ nextOrder \in 0..MaxOrders
        BY <3>2 DEF PC
      <4> HIDE DEF next
      <4> QED  BY <4>1, <4>2 DEF Slot
    <3> HIDE DEF new
    <3>4. slot' \in [Workers -> Slot] /\ HasEvent'
      BY <3>1, <3>3, SlotType DEF HasEvent
    <3>5. BidRow(w) \in OrderRow
      BY <1>10, BidRowType DEF BidSave
    <3>6. orders' \in [OrderIds -> OrderRow] /\ nextOrder' \in Nat \ {0}
      BY <3>1, <3>5, InsertType
    <3>7. [task |-> "seen", id |-> slot[w].auction.id, owner |-> event(w).who] \in Task
      BY <1>10, CurrentEvent DEF BidSave, Task, AuctionRow
    <3>8. tasks' \subseteq Task
      BY <1>10, <2>2, <3>7 DEF BidSave, TypeInv, TypeOK
    <3> QED  BY <1>10, <3>1, <3>4, <3>6, <3>8 DEF BidSave, TypeInv, TypeOK
  <2> QED  BY <1>10, <2>1, <2>2 DEF BidSave
<1>11. ASSUME NEW w \in Workers, BidOutbid(w) PROVE TypeInv'
  <2>1. CASE DeadLetter(w) /\ UNCHANGED notifs
    BY <1>11, <2>1, DeadLetterType DEF BidOutbid, TypeInv, TypeOK, HasEvent
  <2>2. CASE HasAuction(slot[w].auction.id)
    <3>1. slot' \in [Workers -> Slot] /\ HasEvent'
      BY <1>11, <2>2, GotoType DEF BidOutbid, PC, HasEvent
    <3>2. [auctionId |-> slot[w].auction.id, owner |-> slot[w].active.row.owner,
           type |-> "Outbidded", cause |-> slot[w].new] \in Notification
      BY <1>11, CurrentEvent DEF BidOutbid, Notification, AuctionRow, OrderCopy, OrderRow
    <3>3. notifs' \subseteq Notification
      BY <1>11, <2>2, <3>2 DEF BidOutbid, TypeInv, TypeOK
    <3> QED  BY <1>11, <2>2, <3>1, <3>3 DEF BidOutbid, TypeInv, TypeOK
  <2> QED  BY <1>11, <2>1, <2>2 DEF BidOutbid
<1>12. ASSUME NEW w \in Workers, BidRetire(w) PROVE TypeInv'
  <2>1. CASE DeadLetter(w) /\ UNCHANGED orders
    BY <1>12, <2>1, DeadLetterType DEF BidRetire, TypeInv, TypeOK, HasEvent
  <2>2. CASE OrderSavable(slot[w].active)
    <3>1. slot' \in [Workers -> Slot] /\ HasEvent'
      BY <1>12, <2>2, GotoType DEF BidRetire, PC, HasEvent
    <3>2. orders' \in [OrderIds -> OrderRow]
      BY <1>12, <2>2, CurrentEvent, SavedOrderType DEF BidRetire, OrderStatus
    <3> QED  BY <1>12, <2>2, <3>1, <3>2 DEF BidRetire, TypeInv, TypeOK
  <2> QED  BY <1>12, <2>1, <2>2 DEF BidRetire
<1>13. ASSUME NEW w \in Workers, Feed(w) PROVE TypeInv'
  <2>1. MaxBidTasks(w) \subseteq Task
    BY <1>13, MaxBidType DEF Feed
  <2> QED  BY <1>13, <2>1, ReturnType DEF Feed, TypeInv, TypeOK, HasEvent
<1>14. ASSUME NEW w \in Workers, BuyRead(w) PROVE TypeInv'
  <2>1. CASE Return(w, {})
    BY <1>14, <2>1, ReturnType DEF BuyRead, TypeInv, TypeOK, HasEvent
  <2>2. ASSUME slot' = [slot EXCEPT ![w].pc = "left", ![w].auction = auctions[event(w).a]],
               UNCHANGED <<queue, tasks, dead>>
        PROVE  TypeInv'
    <3> DEFINE new == [slot[w] EXCEPT !.pc = "left", !.auction = auctions[event(w).a]]
    <3>1. auctions[event(w).a] \in AuctionRow
      BY <1>14, CurrentEvent DEF BuyRead, TypeInv, TypeOK
    <3>2. new \in Slot /\ new.events = slot[w].events /\ slot[w].events # <<>>
      BY <1>14, <3>1, CurrentEvent DEF BuyRead, Slot, PC
    <3>3. slot' = [slot EXCEPT ![w] = new]
      BY <2>2
    <3> HIDE DEF new
    <3>4. slot' \in [Workers -> Slot] /\ HasEvent'
      BY <3>2, <3>3, SlotType DEF HasEvent
    <3> QED  BY <1>14, <2>2, <3>4 DEF BuyRead, TypeInv, TypeOK
  <2> QED  BY <1>14, <2>1, <2>2 DEF BuyRead
<1>15. ASSUME NEW w \in Workers, BuyLeft(w) PROVE TypeInv'
  <2>1. slot' \in [Workers -> Slot] /\ HasEvent'
    BY <1>15, GotoType DEF BuyLeft, PC, HasEvent
  <2>2. [task |-> "status", a |-> slot[w].auction.a, id |-> slot[w].auction.id,
         status |-> "Ended", blockHash |-> slot[w].hash] \in Task
    BY <1>15, CurrentEvent DEF BuyLeft, Task, AuctionRow, AuctionStatus
  <2>3. tasks' \subseteq Task
    BY <1>15, <2>2 DEF BuyLeft, TypeInv, TypeOK
  <2> QED  BY <1>15, <2>1, <2>3 DEF BuyLeft, TypeInv, TypeOK
<1>16. ASSUME NEW w \in Workers, BuySave(w) PROVE TypeInv'
  <2>1. CASE DeadLetter(w) /\ UNCHANGED <<orders, nextOrder>>
    BY <1>16, <2>1, DeadLetterType DEF BuySave, TypeInv, TypeOK, HasEvent
  <2>2. CASE HasAuction(slot[w].auction.id)
    <3>1. slot' \in [Workers -> Slot] /\ HasEvent'
      BY <1>16, <2>2, GotoType DEF BuySave, PC, HasEvent
    <3> DEFINE row == [auctionId |-> slot[w].auction.id, owner |-> event(w).who,
                       amount |-> slot[w].auction.price, tokens |-> event(w).amount,
                       status |-> "bought", blockHash |-> slot[w].hash]
    <3>2. row \in OrderRow
      BY <1>16, CurrentEvent DEF BuySave, OrderRow, OrderStatus, AuctionRow
    <3>3. InsertOrder(row)
      BY <1>16, <2>2 DEF BuySave
    <3> HIDE DEF row
    <3>4. orders' \in [OrderIds -> OrderRow] /\ nextOrder' \in Nat \ {0}
      BY <3>2, <3>3, InsertType
    <3> QED  BY <1>16, <2>2, <3>1, <3>4 DEF BuySave, TypeInv, TypeOK
  <2> QED  BY <1>16, <2>1, <2>2 DEF BuySave
<1>17. ASSUME NEW w \in Workers, Withdraw(w) PROVE TypeInv'
  <2> DEFINE started == IF Found(event(w).a) THEN {StatusTask(w, "Closed")} ELSE {}
  <2>1. started \subseteq Task
    BY <1>17, StatusTaskType DEF Withdraw, AuctionStatus
  <2>2. Return(w, started)
    BY <1>17 DEF Withdraw
  <2> HIDE DEF started
  <2> QED  BY <1>17, <2>1, <2>2, ReturnType DEF Withdraw, TypeInv, TypeOK, HasEvent
<1>18. ASSUME NEW w \in Workers, End(w) PROVE TypeInv'
  <2> DEFINE id == auctions[event(w).a].id
  <2>1. CASE Return(w, {})
    BY <1>18, <2>1, ReturnType DEF End, TypeInv, TypeOK, HasEvent
  <2>2. ASSUME tasks' = tasks \cup {StatusTask(w, "Ended"), [task |-> "clear", id |-> id], [task |-> "settle", id |-> id]},
               Goto(w, "feed"), UNCHANGED <<queue, dead>>
        PROVE  TypeInv'
    <3>1. slot' \in [Workers -> Slot] /\ HasEvent'
      BY <1>18, <2>2, GotoType DEF End, PC, HasEvent
    <3>2. StatusTask(w, "Ended") \in Task
      BY <1>18, StatusTaskType DEF End, AuctionStatus
    <3>3. id \in Nat
      BY <1>18, CurrentEvent DEF End, TypeInv, TypeOK, AuctionRow
    <3> HIDE DEF id
    <3>4. [task |-> "clear", id |-> id] \in Task /\ [task |-> "settle", id |-> id] \in Task
      BY <3>3 DEF Task
    <3>5. tasks' \subseteq Task
      BY <2>2, <3>2, <3>4 DEF TypeInv, TypeOK
    <3> QED  BY <1>18, <2>2, <3>1, <3>5 DEF End, TypeInv, TypeOK
  <2> QED  BY <1>18, <2>1, <2>2 DEF End
<1>19. ASSUME NEW w \in Workers, UpdatePrice(w) PROVE TypeInv'
  <2> DEFINE row == auctions[event(w).a]
             started == IF row.id # 0
                          THEN {[task |-> "saveAuction",
                                 row |-> [row EXCEPT !.price = event(w).amount, !.blockHash = slot[w].hash]]}
                          ELSE {}
  <2>1. row \in AuctionRow /\ event(w).amount \in 0..MaxAmount /\ slot[w].hash \in Nat
    BY <1>19, CurrentEvent DEF UpdatePrice, TypeInv, TypeOK
  <2>2. [row EXCEPT !.price = event(w).amount, !.blockHash = slot[w].hash] \in AuctionRow
    BY <2>1 DEF AuctionRow
  <2>3. started \subseteq Task
    BY <2>2 DEF Task
  <2>4. Return(w, started)
    BY <1>19 DEF UpdatePrice
  <2> HIDE DEF started
  <2> QED  BY <1>19, <2>3, <2>4, ReturnType DEF UpdatePrice, TypeInv, TypeOK, HasEvent
<1>20. ASSUME NEW w \in Workers, AcceptOffer(w) PROVE TypeInv'
  <2> DEFINE row == auctions[event(w).a]
             started == IF row.id # 0
                          THEN {[task |-> "saveAuction", row |-> [row EXCEPT !.status = "Closed"]]}
                          ELSE {}
  <2>1. row \in AuctionRow
    BY <1>20, CurrentEvent DEF AcceptOffer, TypeInv, TypeOK
  <2>2. [row EXCEPT !.status = "Closed"] \in AuctionRow
    BY <2>1 DEF AuctionRow, AuctionStatus
  <2>3. started \subseteq Task
    BY <2>2 DEF Task
  <2>4. Return(w, started)
    BY <1>20 DEF AcceptOffer
  <2> HIDE DEF started
  <2> QED  BY <1>20, <2>3, <2>4, ReturnType DEF AcceptOffer, TypeInv, TypeOK, HasEvent
<1>21. ASSUME NEW t \in tasks, TaskStatus(t) PROVE TypeInv'
  <2> DEFINE next == IF t.id # 0 /\ auctions[t.a].id = t.id
                       THEN {[task |-> "saveAuction", row |-> WithStatus(auctions[t.a], t.status, t.blockHash)]}
                       ELSE {}
  <2>1. t.a \in Auctions /\ t.status \in AuctionStatus /\ t.blockHash \in Nat
    BY <1>21 DEF TaskStatus, TypeInv, TypeOK, Task
  <2>2. WithStatus(auctions[t.a], t.status, t.blockHash) \in AuctionRow
    BY <2>1, StatusType DEF TypeInv, TypeOK
  <2>3. next \subseteq Task
    BY <2>2 DEF Task
  <2>4. Becomes(t, next)
    BY <1>21 DEF TaskStatus
  <2> HIDE DEF next
  <2> QED  BY <1>21, <2>3, <2>4, BecomesType DEF TaskStatus, TypeInv, TypeOK, HasEvent
<1>22. ASSUME NEW t \in tasks, TaskSaveAuction(t) PROVE TypeInv'
  <2>1. {t.row} \subseteq AuctionRow
    BY <1>22 DEF TaskSaveAuction, TypeInv, TypeOK, Task
  <2>2. auctions' \in [Auctions -> AuctionRow] /\ tasks' \subseteq Task
    BY <1>22, <2>1, SavedAllType, BecomesType DEF TaskSaveAuction
  <2> QED  BY <1>22, <2>2 DEF TaskSaveAuction, TypeInv, TypeOK, HasEvent
<1>23. ASSUME NEW t \in tasks, TaskSettle(t) PROVE TypeInv'
  <2>1. CASE Becomes(t, {})
    BY <1>23, <2>1, BecomesType DEF TaskSettle, TypeInv, TypeOK, HasEvent
  <2>2. ASSUME NEW o \in ActiveOrders(t.id),
               Becomes(t, {[task |-> "saveOrder",
                            copy |-> [id |-> o, row |-> [orders[o] EXCEPT !.status = "bought"]]]})
        PROVE  TypeInv'
    <3>1. o \in OrderIds /\ o \in 0..MaxOrders
      BY <2>2, BoundsAssumption DEF ActiveOrders, OrdersOf, OrderIds
    <3>2. [orders[o] EXCEPT !.status = "bought"] \in OrderRow
      BY <3>1, StatusType DEF TypeInv, TypeOK, OrderStatus
    <3>3. [task |-> "saveOrder", copy |-> [id |-> o, row |-> [orders[o] EXCEPT !.status = "bought"]]] \in Task
      BY <3>1, <3>2 DEF Task, OrderCopy
    <3>4. tasks' \subseteq Task
      BY <2>2, <3>3, BecomesType
    <3> QED  BY <1>23, <3>4 DEF TaskSettle, TypeInv, TypeOK, HasEvent
  <2> QED  BY <1>23, <2>1, <2>2 DEF TaskSettle
<1>24. ASSUME NEW t \in tasks, TaskSaveOrder(t) PROVE TypeInv'
  <2>1. t.copy \in OrderCopy /\ t.copy.row.status \in OrderStatus \cup {"absent"}
    BY <1>24 DEF TaskSaveOrder, TypeInv, TypeOK, Task, OrderCopy, OrderRow
  <2>2. orders' \in [OrderIds -> OrderRow]
    BY <1>24, <2>1, SavedOrderType DEF TaskSaveOrder, TypeInv, TypeOK
  <2>3. tasks' \subseteq Task
    BY <1>24, BecomesType DEF TaskSaveOrder
  <2> QED  BY <1>24, <2>2, <2>3 DEF TaskSaveOrder, TypeInv, TypeOK, HasEvent
<1>25. ASSUME NEW t \in tasks, TaskSeen(t) \/ TaskClear(t) PROVE TypeInv'
  <2>1. notifs' \subseteq Notification
    BY <1>25 DEF TaskSeen, TaskClear, TypeInv, TypeOK
  <2>2. tasks' \subseteq Task
    BY <1>25, BecomesType DEF TaskSeen, TaskClear
  <2> QED  BY <1>25, <2>1, <2>2 DEF TaskSeen, TaskClear, TypeInv, TypeOK, HasEvent
<1>26. ASSUME NEW t \in tasks, TaskNotify(t) PROVE TypeInv'
  <2>1. t.rows \subseteq Notification
    BY <1>26 DEF TaskNotify, TypeInv, TypeOK, Task
  <2>2. tasks' \subseteq Task
    BY <1>26, BecomesType DEF TaskNotify
  <2> QED  BY <1>26, <2>1, <2>2 DEF TaskNotify, TypeInv, TypeOK, HasEvent
<1>27. ASSUME CronRead PROVE TypeInv'
  <2>1. {auctions[a] : a \in {b \in expired : auctions[b].status = "Running"}} \subseteq AuctionRow
    BY DEF TypeInv, TypeOK
  <2> QED  BY <1>27, <2>1 DEF CronRead, TypeInv, TypeOK, HasEvent
<1>28. ASSUME CronClear PROVE TypeInv'
  BY <1>28 DEF CronClear, TypeInv, TypeOK, HasEvent
<1>29. ASSUME CronNotify PROVE TypeInv'
  <2>1. \A r \in cron.ended :
          [task |-> "notify", rows |-> {[auctionId |-> r.id, owner |-> Nobody, type |-> "Ended", cause |-> 0]}] \in Task
    <3> SUFFICES ASSUME NEW r \in cron.ended
                 PROVE  [task |-> "notify",
                         rows |-> {[auctionId |-> r.id, owner |-> Nobody, type |-> "Ended", cause |-> 0]}] \in Task
      OBVIOUS
    <3>1. r.id \in Nat
      BY DEF TypeInv, TypeOK, AuctionRow
    <3>2. [auctionId |-> r.id, owner |-> Nobody, type |-> "Ended", cause |-> 0] \in Notification
      BY <3>1 DEF Notification
    <3> QED  BY <3>2 DEF Task
  <2>2. tasks' \subseteq Task
    BY <1>29, <2>1 DEF CronNotify, TypeInv, TypeOK
  <2> QED  BY <1>29, <2>2 DEF CronNotify, TypeInv, TypeOK, HasEvent
<1>30. ASSUME CronSave PROVE TypeInv'
  <2>1. {Claimable(r) : r \in cron.ended} \subseteq AuctionRow
    BY Zenon, StatusType DEF Claimable, TypeInv, TypeOK, AuctionStatus
  <2>2. auctions' \in [Auctions -> AuctionRow]
    BY <1>30, <2>1, SavedAllType DEF CronSave
  <2> QED  BY <1>30, <2>2 DEF CronSave, IdleCron, TypeInv, TypeOK, HasEvent
<1>31. ASSUME RevertRead PROVE TypeInv'
  <2>1. {auctions[a] : a \in {b \in Auctions : auctions[b].id # 0 /\ auctions[b].blockHash = Reverted}} \subseteq AuctionRow
    BY DEF TypeInv, TypeOK
  <2> QED  BY Zenon, <1>31, <2>1, NullTypes DEF RevertRead, IdleRevert, TypeInv, TypeOK, HasEvent
<1>32. ASSUME RevertReopen PROVE TypeInv'
  <2> DEFINE reopened == {[r EXCEPT !.status = "Running"] : r \in {x \in revert.rows : x.status # "Running"}}
  <2>1. revert.rows \subseteq AuctionRow
    BY DEF TypeInv, TypeOK
  <2>2. reopened \subseteq AuctionRow
    BY <2>1, StatusType DEF AuctionStatus
  <2>3. auctions' = SavedAll(reopened)
    BY <1>32 DEF RevertReopen
  <2> HIDE DEF reopened
  <2>4. auctions' \in [Auctions -> AuctionRow]
    BY <2>2, <2>3, SavedAllType
  <2> QED  BY <1>32, <2>4 DEF RevertReopen, TypeInv, TypeOK, HasEvent
<1>33. ASSUME RevertDelete PROVE TypeInv'
  <2>1. auctions' \in [Auctions -> AuctionRow]
    BY <1>33, NullTypes DEF RevertDelete, TypeInv, TypeOK
  <2> QED  BY <1>33, <2>1 DEF RevertDelete, TypeInv, TypeOK, HasEvent
<1>34. ASSUME RevertOrders PROVE TypeInv'
  BY Zenon, <1>34 DEF RevertOrders, OrdersOfBlock, TypeInv, TypeOK, HasEvent
<1>35. ASSUME RevertOrder PROVE TypeInv'
  <2>1. PICK o \in revert.pending :
          /\ orders' = [orders EXCEPT ![o] = NoOrder]
          /\ LET others == OrdersOf(orders[o].auctionId) \ {o} IN
             \/ others = {} /\ revert' = [revert EXCEPT !.pending = {}]
             \/ revert' = [revert EXCEPT !.pending = @ \ {o}]
             \/ \E last \in others :
                  revert' = [revert EXCEPT !.pending = @ \ {o}, !.pc = "revive", !.previous = CopyOf(last)]
    BY Zenon, <1>35 DEF RevertOrder
  <2>2. orders' \in [OrderIds -> OrderRow]
    BY Zenon, <2>1, NullTypes DEF TypeInv, TypeOK
  <2>3. \A last \in OrdersOf(orders[o].auctionId) \ {o} : CopyOf(last) \in OrderCopy
    BY CopyType DEF OrdersOf
  <2>4. revert' \in [pc : {"idle", "reopen", "delete", "orders", "each", "revive"},
                     rows : SUBSET AuctionRow, pending : SUBSET OrderIds, previous : OrderCopy]
    <3> DEFINE R == [pc : {"idle", "reopen", "delete", "orders", "each", "revive"},
                     rows : SUBSET AuctionRow, pending : SUBSET OrderIds, previous : OrderCopy]
    <3>1. revert \in R
      BY DEF TypeInv, TypeOK
    <3>2. CASE revert' = [revert EXCEPT !.pending = {}] \/ revert' = [revert EXCEPT !.pending = @ \ {o}]
      BY <3>1, <3>2
    <3>3. ASSUME NEW last \in OrdersOf(orders[o].auctionId) \ {o},
                 revert' = [revert EXCEPT !.pending = @ \ {o}, !.pc = "revive", !.previous = CopyOf(last)]
          PROVE  revert' \in R
      <4>1. CopyOf(last) \in OrderCopy
        BY <2>3, <3>3
      <4> QED  BY <3>1, <3>3, <4>1
    <3> QED  BY <2>1, <3>2, <3>3
  <2> QED  BY Zenon, <1>35, <2>2, <2>4 DEF RevertOrder, TypeInv, TypeOK, HasEvent
<1>36. ASSUME RevertRevive PROVE TypeInv'
  <2>1. revert.previous \in OrderCopy
    BY DEF TypeInv, TypeOK
  <2>2. orders' \in [OrderIds -> OrderRow]
    BY <1>36, <2>1, SavedOrderType DEF RevertRevive, OrderStatus, TypeInv, TypeOK
  <2> QED  BY <1>36, <2>2, NullTypes DEF RevertRevive, TypeInv, TypeOK, HasEvent
<1>37. ASSUME RevertAck PROVE TypeInv'
  <2>1. revertQueue' \in Seq(Nat)
    BY <1>37, HeadTail DEF RevertAck, HasReverted, TypeInv, TypeOK
  <2> QED  BY <1>37, <2>1, NullTypes DEF RevertAck, IdleRevert, TypeInv, TypeOK, HasEvent
<1>38. ASSUME Crash PROVE TypeInv'
  <2>1. slot' \in [Workers -> Slot] /\ HasEvent'
    BY <1>38, NullTypes DEF Crash, HasEvent, IdleSlot
  <2> QED  BY <1>38, <2>1, NullTypes DEF Crash, IdleCron, IdleRevert, TypeInv, TypeOK
<1>39. ASSUME NEW w \in Workers, HandlerFails(w) PROVE TypeInv'
  <2>1. CASE DeadLetter(w)
    BY SMTT(30), <1>39, <2>1, DeadLetterType DEF HandlerFails, TypeInv, TypeOK, HasEvent
  <2>2. CASE ~At(w, "ack") /\ Return(w, {})
    <3>1. /\ slot' \in [Workers -> Slot] /\ HasEvent'
          /\ tasks' \subseteq Task /\ UNCHANGED <<queue, dead>>
      <4>1. ~At(w, "idle") /\ ~At(w, "ack") /\ Return(w, {}) /\ {} \in SUBSET Task
        BY <1>39, <2>2 DEF HandlerFails
      <4> QED  BY <4>1, ReturnType DEF HasEvent
    <3> QED  BY <1>39, <3>1 DEF HandlerFails, TypeInv, TypeOK
  <2>3. CASE ~At(w, "ack") /\ Goto(w, "retire") /\ UNCHANGED <<queue, tasks, dead>>
    <3>1. slot' \in [Workers -> Slot] /\ HasEvent'
      BY <1>39, <2>3, GotoType DEF HandlerFails, PC, HasEvent
    <3> QED  BY <1>39, <2>3, <3>1 DEF HandlerFails, TypeInv, TypeOK
  <2> QED  BY <1>39, <2>1, <2>2, <2>3 DEF HandlerFails
<1>40. ASSUME NEW t \in tasks, TaskFails(t) PROVE TypeInv'
  <2>1. tasks' \subseteq Task
    BY <1>40, BecomesType DEF TaskFails
  <2> QED  BY <1>40, <2>1 DEF TaskFails, TypeInv, TypeOK, HasEvent
<1>41. CASE UNCHANGED vars
  BY <1>41 DEF vars, TypeInv, TypeOK, HasEvent
<1>42. ASSUME NEW w \in Workers, Handle(w) PROVE TypeInv'
  BY <1>42, <1>4, <1>5, <1>6, <1>7, <1>8, <1>9, <1>10, <1>11, <1>12, <1>13, <1>14, <1>15, <1>16,
     <1>17, <1>18, <1>19, <1>20 DEF Handle
<1>43. ASSUME NEW t \in tasks, Settle(t) PROVE TypeInv'
  BY <1>43, <1>21, <1>22, <1>23, <1>24, <1>25, <1>26 DEF Settle
<1>44. CASE Cron
  BY <1>44, <1>27, <1>28, <1>29, <1>30 DEF Cron
<1>45. CASE Rollback
  BY <1>45, <1>31, <1>32, <1>33, <1>34, <1>35, <1>36, <1>37 DEF Rollback
<1>46. CASE Chain
  BY <1>46, <1>1, <1>2, <1>3 DEF Chain
<1>47. CASE Faulty
  BY <1>47, <1>38, <1>39, <1>40 DEF Faulty
<1> QED  BY <1>41, <1>42, <1>43, <1>44, <1>45, <1>46, <1>47 DEF Next

LEMMA RevertedStep == TypeInv /\ HasReverted /\ [Next]_vars => HasReverted'
<1> SUFFICES ASSUME TypeInv, HasReverted, [Next]_vars PROVE HasReverted'
  OBVIOUS
<1> USE DEF revertVars
<1>1. CASE RevertBlock
  BY <1>1, AppendType DEF RevertBlock, HasReverted, TypeInv, TypeOK
<1>2. CASE Rollback
  <2>1. CASE RevertRead
    BY <2>1 DEF RevertRead, HasReverted
  <2>2. CASE RevertAck
    BY <2>2 DEF RevertAck, IdleRevert, HasReverted
  <2>3. CASE RevertReopen \/ RevertDelete \/ RevertOrders \/ RevertOrder \/ RevertRevive
    <3>1. revert.pc # "idle" /\ UNCHANGED revertQueue
      BY Zenon, <2>3 DEF RevertReopen, RevertDelete, RevertOrders, RevertOrder, RevertRevive
    <3> QED BY <3>1 DEF HasReverted
  <2> QED BY <1>2, <2>1, <2>2, <2>3 DEF Rollback
<1>3. CASE Crash
  BY <1>3 DEF Crash, IdleRevert, HasReverted
<1>4. ASSUME NEW w \in Workers, Handle(w) PROVE UNCHANGED <<revertQueue, revert>>
  BY Zenon, <1>4 DEF Handle, Take, Ack, StartQuery, StartInsert, BidRead, BidOrder, BidSave, BidOutbid, BidRetire, Feed,
     BuyRead, BuyLeft, BuySave, Withdraw, End, UpdatePrice, AcceptOffer
<1>5. ASSUME NEW t \in tasks, Settle(t) \/ TaskFails(t) PROVE UNCHANGED <<revertQueue, revert>>
  BY <1>5 DEF Settle, TaskStatus, TaskSaveAuction, TaskSettle, TaskSaveOrder, TaskSeen, TaskClear, TaskNotify, TaskFails
<1>6. CASE Cron
  BY <1>6 DEF Cron, CronRead, CronClear, CronNotify, CronSave, HasReverted
<1>7. ASSUME NEW e \in Event, Emit(e) PROVE UNCHANGED <<revertQueue, revert>>
  BY <1>7 DEF Emit
<1>8. ASSUME NEW a \in Auctions, Deadline(a) PROVE UNCHANGED <<revertQueue, revert>>
  BY <1>8 DEF Deadline
<1>9. ASSUME NEW w \in Workers, HandlerFails(w) PROVE UNCHANGED <<revertQueue, revert>>
  BY <1>9 DEF HandlerFails
<1>10. CASE UNCHANGED vars
  BY <1>10 DEF vars, HasReverted
<1> QED BY <1>1, <1>2, <1>3, <1>4, <1>5, <1>6, <1>7, <1>8, <1>9, <1>10 DEF Next, Chain, Faulty, HasReverted

LEMMA TypeInit == Init => TypeInv /\ HasReverted
  BY NullTypes DEF Init, HasEvent, IdleSlot, IdleRevert, IdleCron, HasReverted, TypeInv, TypeOK

\* Whatever the handlers, promises, cron, reverts and faults do to the tables and
\* to the rows they remember, every row keeps its columns and their domains, and
\* every reference is to an order id that may exist.
THEOREM TypeCorrect == Spec => []TypeOK
<1>1. TypeInv => TypeOK
  BY DEF TypeInv
<1> QED  BY <1>1, TypeInit, TypeStep, RevertedStep, PTL DEF Spec

-----------------------------------------------------------------------------
(* The facts of an order. A handler, a promise and the rollback each save  *)
(* whole rows they read some steps ago. The invariant collects everything  *)
(* that may still be written to order o: its row, the copies of it that    *)
(* handlers, promises and the rollback remember, and the row a bid handler *)
(* inserted and may mark as bought. They agree on all but the status, and  *)
(* none is of an id still to be given out.                                 *)

InTable(o) == {Facts(orders[p]) : p \in {q \in OrderIds : q = o /\ orders[q].status # "absent"}}
InActive(o) == {Facts(slot[w].active.row) : w \in {v \in Workers : slot[v].active.id = o}}
InNew(o) == {BidRow(w) : w \in {v \in Workers : slot[v].new = o}}
InTasks(o) == {Facts(t.copy.row) : t \in {u \in tasks : u.task = "saveOrder" /\ u.copy.id = o}}
InRevert(o) == {Facts(c.row) : c \in {d \in {revert.previous} : d.id = o}}
Remembered(o) == InTable(o) \cup InActive(o) \cup InNew(o) \cup InTasks(o) \cup InRevert(o)

Agreed == \A o \in OrderIds : \A r, s \in Remembered(o) : r = s
Given == \A o \in OrderIds : Remembered(o) # {} => o < nextOrder
\* A handler at the start of an event has inserted nothing for it.
NothingNew == \A w \in Workers : slot[w].pc = "next" => slot[w].new = 0
FactsInv == Agreed /\ Given /\ NothingNew

\* A step that writes and remembers nothing new of any order, and one that
\* gives out the next id.
Keeps == nextOrder' = nextOrder /\ \A o \in OrderIds : Remembered(o)' \subseteq Remembered(o)
Adds(r) ==
  /\ nextOrder' = nextOrder + 1
  /\ orders' = [orders EXCEPT ![nextOrder] = r]
  /\ \A o \in OrderIds : Remembered(o)' \subseteq Remembered(o) \cup (IF o = nextOrder THEN {Facts(r)} ELSE {})

LEMMA FactsStatus ==
  /\ \A r \in OrderRow, status \in OrderStatus \cup {"absent"} : Facts([r EXCEPT !.status = status]) = Facts(r)
  /\ \A w \in Workers : Facts(BidRow(w)) = BidRow(w)
  /\ \A w \in Workers : Facts([BidRow(w) EXCEPT !.status = "bought"]) = BidRow(w)
<1>1. \A w \in Workers : Facts([BidRow(w) EXCEPT !.status = "bought"]) = BidRow(w)
  <2> TAKE w \in Workers
  <2> DEFINE row(status) == [auctionId |-> slot[w].auction.id, owner |-> event(w).who, amount |-> event(w).amount,
                             tokens |-> 1, status |-> status, blockHash |-> slot[w].hash]
  <2>1. [row("bought") EXCEPT !.status = "active"] = row("active")
    OBVIOUS
  <2> QED BY <2>1 DEF Facts, BidRow
<1> QED BY <1>1 DEF Facts, OrderRow, BidRow

LEMMA SlotFacts ==
  ASSUME TypeInv, NEW w \in Workers, NEW s, slot' = [slot EXCEPT ![w] = s], NEW o \in OrderIds,
         NEW x \in (InActive(o) \cup InNew(o))'
  PROVE  \/ x \in InActive(o) \cup InNew(o)
         \/ s.active.id = o /\ x = Facts(s.active.row)
         \/ s.new = o /\ x = BidRow(w)'
  BY DEF TypeInv, TypeOK, BidRow, event, InActive, InNew

\* A handler that lets go of what it remembers.
LEMMA DropFacts ==
  ASSUME TypeInv, NEW w \in Workers, NEW s, slot' = [slot EXCEPT ![w] = s], s.active.id = 0, s.new = 0
  PROVE  \A o \in OrderIds : (InActive(o) \cup InNew(o))' \subseteq InActive(o) \cup InNew(o)
<1>1. 0 \notin OrderIds
  BY DEF OrderIds
<1> QED  BY <1>1, SlotFacts

\* A handler that goes on, and remembers what it did.
LEMMA SameFacts ==
  ASSUME TypeInv, NEW w \in Workers, NEW s, slot' = [slot EXCEPT ![w] = s],
         s.active = slot[w].active, s.new = slot[w].new, s.new = 0 \/ s.auction = slot[w].auction,
         s.events = slot[w].events, s.hash = slot[w].hash
  PROVE  \A o \in OrderIds : (InActive(o) \cup InNew(o))' \subseteq InActive(o) \cup InNew(o)
<1> SUFFICES ASSUME NEW o \in OrderIds, NEW x \in (InActive(o) \cup InNew(o))'
             PROVE  x \in InActive(o) \cup InNew(o)
  OBVIOUS
<1>1. 0 \notin OrderIds
  BY DEF OrderIds
<1>2. slot'[w] = s
  BY DEF TypeInv, TypeOK
<1>3. s.new = o => BidRow(w)' = BidRow(w)
  BY <1>1, <1>2 DEF BidRow, event
<1>4. CASE s.active.id = o /\ x = Facts(s.active.row)
  BY <1>4 DEF InActive
<1>5. CASE s.new = o /\ x = BidRow(w)'
  BY <1>3, <1>5 DEF InNew
<1> QED  BY <1>4, <1>5, SlotFacts

LEMMA TableFacts ==
  ASSUME TypeInv, NEW id, NEW row, orders' = [orders EXCEPT ![id] = row], NEW o \in OrderIds, NEW x \in InTable(o)'
  PROVE  x \in InTable(o) \/ (id = o /\ x = Facts(row) /\ row.status # "absent")
  BY DEF TypeInv, TypeOK, InTable

LEMMA TaskFacts ==
  ASSUME NEW started, tasks' \subseteq tasks \cup started, NEW o \in OrderIds, NEW x \in InTasks(o)'
  PROVE  x \in InTasks(o) \/ \E t \in started : t.task = "saveOrder" /\ t.copy.id = o /\ x = Facts(t.copy.row)
BY DEF InTasks

\* Saving a remembered copy writes no new facts.
LEMMA SaveFacts ==
  ASSUME TypeInv, NEW copy \in OrderCopy, NEW status \in OrderStatus \cup {"absent"},
         orders' = SavedOrder(copy, status) \/ orders' = orders, NEW o \in OrderIds, copy.id = o => Facts(copy.row) \in Remembered(o)
  PROVE  InTable(o)' \subseteq Remembered(o)
<1>1. CASE orders' = orders
  BY <1>1 DEF InTable, Remembered
<1>2. CASE orders' = SavedOrder(copy, status)
  <2> DEFINE row == [copy.row EXCEPT !.status = status]
  <2>1. orders' = [orders EXCEPT ![copy.id] = row]
    BY <1>2 DEF SavedOrder
  <2>2. Facts(row) = Facts(copy.row)
    BY FactsStatus DEF OrderCopy
  <2> HIDE DEF row
  <2>3. \A x \in InTable(o)' : x \in InTable(o) \/ (copy.id = o /\ x = Facts(row))
    BY <2>1, TableFacts
  <2> QED BY <2>2, <2>3 DEF Remembered
<1> QED BY <1>1, <1>2

\* Steps that leave the orders alone.
LEMMA ReturnKeeps ==
  ASSUME TypeInv, NEW w \in Workers, NEW started, Return(w, started), UNCHANGED <<orders, nextOrder, revert>>,
         \A t \in started : t.task = "saveOrder" => t.copy.id = slot[w].new /\ Facts(t.copy.row) = BidRow(w)
  PROVE  Keeps
<1> SUFFICES ASSUME NEW o \in OrderIds PROVE Remembered(o)' \subseteq Remembered(o)
  BY DEF Keeps
<1> DEFINE s == [IdleSlot EXCEPT !.hash = slot[w].hash, !.events = Tail(slot[w].events),
                                 !.pc = IF Len(slot[w].events) = 1 THEN "ack" ELSE "next"]
<1>1. s.active.id = 0 /\ s.new = 0 /\ slot' = [slot EXCEPT ![w] = s]
  BY DEF Return, IdleSlot, NoCopy
<1> HIDE DEF s
<1>2. InTasks(o)' \subseteq InTasks(o) \cup InNew(o)
  BY TaskFacts DEF Return, InNew
<1> QED BY <1>2, <1>1, DropFacts DEF Remembered, InTable, InRevert

LEMMA DropKeeps ==
  ASSUME TypeInv, NEW w \in Workers, NEW s, slot' = [slot EXCEPT ![w] = s], s.active.id = 0, s.new = 0,
         UNCHANGED <<tasks, orders, nextOrder, revert>>
  PROVE  Keeps
<1> SUFFICES ASSUME NEW o \in OrderIds PROVE Remembered(o)' \subseteq Remembered(o)
  BY DEF Keeps
<1>1. (InActive(o) \cup InNew(o))' \subseteq InActive(o) \cup InNew(o)
  BY DropFacts
<1>2. InTable(o)' = InTable(o) /\ InRevert(o)' = InRevert(o) /\ InTasks(o)' = InTasks(o)
  BY DEF InTable, InRevert, InTasks
<1> QED  BY <1>1, <1>2 DEF Remembered

LEMMA StartKeeps ==
  ASSUME TypeInv, NEW w \in Workers, NEW s, slot' = [slot EXCEPT ![w] = s],
         s.active = slot[w].active, s.new = slot[w].new, s.new = 0 \/ s.auction = slot[w].auction,
         s.events = slot[w].events, s.hash = slot[w].hash,
         NEW started, tasks' \subseteq tasks \cup started, \A t \in started : t.task # "saveOrder",
         UNCHANGED <<orders, nextOrder, revert>>
  PROVE  Keeps
<1> SUFFICES ASSUME NEW o \in OrderIds PROVE Remembered(o)' \subseteq Remembered(o)
  BY DEF Keeps
<1>1. InTasks(o)' \subseteq InTasks(o)
  BY TaskFacts
<1> QED BY <1>1, SameFacts DEF Remembered, InTable, InRevert

\* A promise or the rollback goes on: no handler is involved.
LEMMA TaskKeeps ==
  ASSUME TypeInv, UNCHANGED <<slot, nextOrder, revert>>, NEW started, tasks' \subseteq tasks \cup started,
         \A o \in OrderIds : InTable(o)' \subseteq Remembered(o),
         \A t \in started : t.task = "saveOrder" => t.copy.id \in OrderIds /\ Facts(t.copy.row) \in Remembered(t.copy.id)
  PROVE  Keeps
<1> SUFFICES ASSUME NEW o \in OrderIds PROVE Remembered(o)' \subseteq Remembered(o)
  BY DEF Keeps
<1>1. InTasks(o)' \subseteq Remembered(o)
  BY TaskFacts DEF Remembered
<1> QED BY <1>1 DEF Remembered, InActive, InNew, InRevert, BidRow, event

LEMMA DeadLetterKeeps ==
  ASSUME TypeInv, NEW w \in Workers, DeadLetter(w), UNCHANGED <<orders, nextOrder, revert>>
  PROVE  Keeps
<1>1. IdleSlot.active.id = 0 /\ IdleSlot.new = 0
  BY DEF IdleSlot, NoCopy
<1> QED  BY <1>1, DropKeeps DEF DeadLetter

LEMMA GotoKeeps ==
  ASSUME TypeInv, NEW w \in Workers, NEW pc, Goto(w, pc),
         NEW started, tasks' \subseteq tasks \cup started, \A t \in started : t.task # "saveOrder",
         UNCHANGED <<orders, nextOrder, revert>>
  PROVE  Keeps
<1> DEFINE s == [slot[w] EXCEPT !.pc = pc]
<1>1. slot' = [slot EXCEPT ![w] = s]
  BY DEF Goto
<1>2. /\ s.active = slot[w].active /\ s.new = slot[w].new /\ s.auction = slot[w].auction
      /\ s.events = slot[w].events /\ s.hash = slot[w].hash
  BY DEF TypeInv, TypeOK, Slot
<1> HIDE DEF s
<1> QED  BY <1>1, <1>2, StartKeeps

\* The rollback goes on: no handler and no promise is involved.
LEMMA RollbackKeeps ==
  ASSUME TypeInv, UNCHANGED <<slot, tasks, nextOrder>>,
         \A o \in OrderIds : InTable(o)' \subseteq Remembered(o),
         revert'.previous.id \in OrderIds => Facts(revert'.previous.row) \in Remembered(revert'.previous.id)
  PROVE  Keeps
<1> SUFFICES ASSUME NEW o \in OrderIds PROVE Remembered(o)' \subseteq Remembered(o)
  BY DEF Keeps
<1>1. InActive(o)' = InActive(o) /\ InNew(o)' = InNew(o) /\ InTasks(o)' = InTasks(o)
  BY DEF InActive, InNew, InTasks, BidRow, event
<1>2. InRevert(o)' \subseteq Remembered(o)
  BY DEF InRevert
<1> QED  BY <1>1, <1>2 DEF Remembered

\* A handler reads the auction into its memory, before it inserts anything.
LEMMA ReadKeeps ==
  ASSUME TypeInv, NothingNew, NEW w \in Workers, At(w, "next"), NEW pc, NEW row,
         slot' = [slot EXCEPT ![w].pc = pc, ![w].auction = row],
         UNCHANGED <<tasks, orders, nextOrder, revert>>
  PROVE  Keeps
<1> DEFINE s == [slot[w] EXCEPT !.pc = pc, !.auction = row]
<1>1. slot' = [slot EXCEPT ![w] = s]
  BY DEF TypeInv, TypeOK
<1>2. /\ s.active = slot[w].active /\ s.new = slot[w].new /\ s.new = 0
      /\ s.events = slot[w].events /\ s.hash = slot[w].hash
  BY DEF TypeInv, TypeOK, Slot, NothingNew, At
<1> HIDE DEF s
<1>3. PICK none : none = {}
  OBVIOUS
<1>4. tasks' \subseteq tasks \cup none /\ \A t \in none : t.task # "saveOrder"
  BY <1>3
<1> QED BY <1>1, <1>2, <1>4, StartKeeps

\* A handler's insert. What it remembers is the row it inserted, if anything new.
LEMMA InsertAdds ==
  ASSUME TypeInv, NEW w \in Workers, NEW s, slot' = [slot EXCEPT ![w] = s], NEW row, InsertOrder(row),
         s.active = slot[w].active, s.auction = slot[w].auction, s.events = slot[w].events, s.hash = slot[w].hash,
         s.new = slot[w].new \/ (s.new = nextOrder /\ row = BidRow(w)),
         NEW started, tasks' \subseteq tasks \cup started, \A t \in started : t.task # "saveOrder",
         UNCHANGED revert
  PROVE  Adds(row)
<1> SUFFICES ASSUME NEW o \in OrderIds
             PROVE  Remembered(o)' \subseteq Remembered(o) \cup (IF o = nextOrder THEN {Facts(row)} ELSE {})
  BY DEF Adds, InsertOrder
<1>1. slot'[w] = s /\ BidRow(w)' = BidRow(w)
  BY DEF TypeInv, TypeOK, BidRow, event
<1>2. Facts(BidRow(w)) = BidRow(w)
  BY FactsStatus
<1>3. \A x \in (InActive(o) \cup InNew(o))' :
        x \in InActive(o) \cup InNew(o) \/ (o = nextOrder /\ x = Facts(row))
  <2> SUFFICES ASSUME NEW x \in (InActive(o) \cup InNew(o))'
               PROVE  x \in InActive(o) \cup InNew(o) \/ (o = nextOrder /\ x = Facts(row))
    OBVIOUS
  <2>1. CASE s.active.id = o /\ x = Facts(s.active.row)
    BY <2>1 DEF InActive
  <2>2. CASE s.new = o /\ x = BidRow(w)' /\ s.new = slot[w].new
    BY <1>1, <2>2 DEF InNew
  <2>3. CASE s.new = o /\ x = BidRow(w)' /\ s.new = nextOrder /\ row = BidRow(w)
    BY <1>1, <1>2, <2>3
  <2> QED  BY <2>1, <2>2, <2>3, SlotFacts
<1>4. InTasks(o)' \subseteq InTasks(o)
  BY TaskFacts
<1>5. \A x \in InTable(o)' : x \in InTable(o) \/ (o = nextOrder /\ x = Facts(row))
  BY TableFacts DEF InsertOrder
<1>6. InRevert(o)' = InRevert(o)
  BY DEF InRevert
<1> QED  BY <1>3, <1>4, <1>5, <1>6 DEF Remembered

LEMMA HandlerFacts ==
  ASSUME TypeInv, NothingNew, NEW w \in Workers, Handle(w)
  PROVE  Keeps \/ \E r \in OrderRow : Adds(r)
<1> USE DEF chainVars, tableVars, revertVars, At
<1>1. PICK none : none = {}
  OBVIOUS
<1>2. ASSUME Return(w, {}), UNCHANGED <<orders, nextOrder, revert>> PROVE Keeps
  BY <1>1, <1>2, ReturnKeeps
<1>3. ASSUME NEW pc, Goto(w, pc), UNCHANGED <<tasks, orders, nextOrder, revert>> PROVE Keeps
  BY <1>1, <1>3, GotoKeeps
<1>4. CASE Take(w)
  <2>1. PICK i \in DOMAIN queue : slot' = [slot EXCEPT ![w] = [IdleSlot EXCEPT !.hash = queue[i].hash,
                                                              !.events = queue[i].events, !.pc = "next"]]
    BY <1>4 DEF Take
  <2> DEFINE s == [IdleSlot EXCEPT !.hash = queue[i].hash, !.events = queue[i].events, !.pc = "next"]
  <2>2. s.active.id = 0 /\ s.new = 0 /\ slot' = [slot EXCEPT ![w] = s]
    BY <2>1 DEF IdleSlot, NoCopy
  <2> HIDE DEF s
  <2> QED BY <1>4, <2>2, DropKeeps DEF Take
<1>5. CASE Ack(w)
  <2>1. IdleSlot.active.id = 0 /\ IdleSlot.new = 0 /\ slot' = [slot EXCEPT ![w] = IdleSlot]
    BY <1>5 DEF Ack, IdleSlot, NoCopy
  <2> QED BY <1>5, <2>1, DropKeeps DEF Ack
<1>6. CASE StartQuery(w)
  BY <1>2, <1>6, ReadKeeps DEF StartQuery
<1>7. CASE StartInsert(w)
  BY <1>2, <1>3, <1>7 DEF StartInsert
<1>8. CASE BidRead(w)
  BY <1>2, <1>8, ReadKeeps DEF BidRead
<1>9. CASE BidOrder(w)
  <2>1. CASE Return(w, {})
    BY <1>2, <1>9, <2>1 DEF BidOrder
  <2>2. CASE Goto(w, "save") /\ UNCHANGED tasks
    BY <1>3, <1>9, <2>2 DEF BidOrder
  <2>3. ASSUME NEW p \in ActiveOrders(slot[w].auction.id), UNCHANGED tasks,
               slot' = [slot EXCEPT ![w].pc = "save", ![w].active = CopyOf(p)]
        PROVE  Keeps
    <3> SUFFICES ASSUME NEW o \in OrderIds PROVE Remembered(o)' \subseteq Remembered(o)
      BY <1>9 DEF BidOrder, Keeps
    <3> DEFINE s == [slot[w] EXCEPT !.pc = "save", !.active = CopyOf(p)]
    <3>1. slot' = [slot EXCEPT ![w] = s]
      BY <2>3 DEF TypeInv, TypeOK
    <3>2. /\ s.active = CopyOf(p) /\ s.new = slot[w].new /\ s.auction = slot[w].auction
          /\ s.events = slot[w].events /\ s.hash = slot[w].hash
      BY DEF TypeInv, TypeOK, Slot
    <3> HIDE DEF s
    <3>3. slot'[w] = s /\ BidRow(w)' = BidRow(w)
      BY <3>1, <3>2 DEF TypeInv, TypeOK, BidRow, event
    <3>4. \A x \in (InActive(o) \cup InNew(o))' : x \in Remembered(o)
      <4> SUFFICES ASSUME NEW x \in (InActive(o) \cup InNew(o))' PROVE x \in Remembered(o)
        OBVIOUS
      <4>1. CASE s.active.id = o /\ x = Facts(s.active.row)
        BY <3>2, <4>1 DEF Remembered, ActiveOrders, OrdersOf, CopyOf, InTable
      <4>2. CASE s.new = o /\ x = BidRow(w)'
        BY <3>2, <3>3, <4>2 DEF InNew, Remembered
      <4> QED BY <3>1, <4>1, <4>2, SlotFacts DEF Remembered
    <3> QED BY <3>4, <1>9, <2>3 DEF Remembered, BidOrder, InTable, InRevert, InTasks
  <2> QED BY <1>9, <2>1, <2>2, <2>3 DEF BidOrder
<1>10. CASE BidSave(w)
  <2>1. CASE DeadLetter(w) /\ UNCHANGED <<orders, nextOrder>>
    BY <1>10, <2>1, DeadLetterKeeps DEF BidSave
  <2>2. CASE HasAuction(slot[w].auction.id)
    <3> DEFINE next == IF slot[w].active.id # 0 THEN "outbid" ELSE "feed"
               s == [slot[w] EXCEPT !.pc = next, !.new = nextOrder]
    <3>1. InsertOrder(BidRow(w)) /\ slot' = [slot EXCEPT ![w] = s] /\ UNCHANGED revert
      BY <1>10, <2>2 DEF BidSave
    <3>2. /\ s.active = slot[w].active /\ s.new = nextOrder /\ s.auction = slot[w].auction
          /\ s.events = slot[w].events /\ s.hash = slot[w].hash
      BY DEF TypeInv, TypeOK, Slot
    <3> HIDE DEF s
    <3> DEFINE started == {[task |-> "seen", id |-> slot[w].auction.id, owner |-> event(w).who]}
    <3>3. tasks' \subseteq tasks \cup started /\ \A t \in started : t.task # "saveOrder"
      BY <1>10, <2>2 DEF BidSave
    <3> HIDE DEF started
    <3> QED BY <1>10, <3>1, <3>2, <3>3, BidRowType, InsertAdds DEF BidSave
  <2> QED BY <1>10, <2>1, <2>2 DEF BidSave
<1>11. CASE BidOutbid(w)
  BY <1>3, <1>11, DeadLetterKeeps DEF BidOutbid
<1>12. CASE BidRetire(w)
  <2>1. CASE DeadLetter(w) /\ UNCHANGED orders
    BY <1>12, <2>1, DeadLetterKeeps DEF BidRetire
  <2>2. CASE OrderSavable(slot[w].active)
    <3> SUFFICES ASSUME NEW o \in OrderIds PROVE Remembered(o)' \subseteq Remembered(o)
      BY <1>12 DEF BidRetire, Keeps
    <3> DEFINE s == [slot[w] EXCEPT !.pc = "feed"]
    <3>1. slot' = [slot EXCEPT ![w] = s] /\ orders' = SavedOrder(slot[w].active, "inactive") /\ UNCHANGED <<tasks, revert>>
      BY <1>12, <2>2 DEF BidRetire, Goto
    <3>2. /\ s.active = slot[w].active /\ s.new = slot[w].new /\ s.auction = slot[w].auction
          /\ s.events = slot[w].events /\ s.hash = slot[w].hash
      BY DEF TypeInv, TypeOK, Slot
    <3> HIDE DEF s
    <3>3. slot[w].active \in OrderCopy /\ "inactive" \in OrderStatus
      BY DEF TypeInv, TypeOK, Slot, OrderStatus
    <3>4. InTable(o)' \subseteq Remembered(o)
      BY <3>1, <3>3, SaveFacts DEF InActive, Remembered
    <3> QED BY <3>4, <3>1, <3>2, SameFacts DEF Remembered, InRevert, InTasks
  <2> QED BY <1>12, <2>1, <2>2 DEF BidRetire
<1>13. CASE Feed(w)
  BY <1>13, FactsStatus, ReturnKeeps DEF MaxBidTasks, Feed
<1>14. CASE BuyRead(w)
  BY <1>2, <1>14, ReadKeeps DEF BuyRead
<1>15. CASE BuyLeft(w)
  <2> DEFINE started == {[task |-> "status", a |-> slot[w].auction.a, id |-> slot[w].auction.id,
                          status |-> "Ended", blockHash |-> slot[w].hash]}
  <2>1. tasks' \subseteq tasks \cup started /\ \A t \in started : t.task # "saveOrder"
    BY <1>15 DEF BuyLeft
  <2> HIDE DEF started
  <2> QED BY <1>15, <2>1, GotoKeeps DEF BuyLeft
<1>16. CASE BuySave(w)
  <2>1. CASE DeadLetter(w) /\ UNCHANGED <<orders, nextOrder>>
    BY <1>16, <2>1, DeadLetterKeeps DEF BuySave
  <2>2. CASE HasAuction(slot[w].auction.id)
    <3> DEFINE s == [slot[w] EXCEPT !.pc = "feed"]
               row == [auctionId |-> slot[w].auction.id, owner |-> event(w).who,
                       amount |-> slot[w].auction.price, tokens |-> event(w).amount,
                       status |-> "bought", blockHash |-> slot[w].hash]
    <3>1. InsertOrder(row) /\ slot' = [slot EXCEPT ![w] = s] /\ UNCHANGED <<tasks, revert>>
      BY <1>16, <2>2 DEF BuySave, Goto
    <3>2. /\ s.active = slot[w].active /\ s.new = slot[w].new /\ s.auction = slot[w].auction
          /\ s.events = slot[w].events /\ s.hash = slot[w].hash
      BY DEF TypeInv, TypeOK, Slot
    <3>3. row \in OrderRow
      BY <1>16, CurrentEvent DEF BuySave, OrderRow, OrderStatus, AuctionRow
    <3> HIDE DEF s, row
    <3>4. tasks' \subseteq tasks \cup none /\ \A t \in none : t.task # "saveOrder"
      BY <1>1, <3>1
    <3> QED BY <3>3, <3>1, <3>2, <3>4, InsertAdds
  <2> QED BY <1>16, <2>1, <2>2 DEF BuySave
<1>17. ASSUME NEW started, \A t \in started : t.task # "saveOrder", Return(w, started),
              UNCHANGED <<orders, nextOrder, revert>>
       PROVE  Keeps
  BY <1>17, ReturnKeeps
<1>18. CASE Withdraw(w)
  BY <1>18, <1>17 DEF Withdraw, StatusTask
<1>19. CASE End(w)
  <2> DEFINE id == auctions[event(w).a].id
             started == {StatusTask(w, "Ended"), [task |-> "clear", id |-> id], [task |-> "settle", id |-> id]}
  <2>1. CASE Return(w, {})
    BY <1>2, <1>19, <2>1 DEF End
  <2>2. CASE tasks' = tasks \cup started /\ Goto(w, "feed")
    <3>1. tasks' \subseteq tasks \cup started /\ \A t \in started : t.task # "saveOrder"
      BY <2>2 DEF StatusTask
    <3> HIDE DEF started
    <3> QED BY <1>19, <2>2, <3>1, GotoKeeps DEF End
  <2> QED BY <1>19, <2>1, <2>2 DEF End
<1>20. CASE UpdatePrice(w)
  BY <1>20, <1>17 DEF UpdatePrice
<1>21. CASE AcceptOffer(w)
  BY <1>21, <1>17 DEF AcceptOffer
<1> QED BY <1>4, <1>5, <1>6, <1>7, <1>8, <1>9, <1>10, <1>11, <1>12, <1>13, <1>14, <1>15, <1>16, <1>18, <1>19, <1>20, <1>21 DEF Handle

LEMMA SettleFacts ==
  ASSUME TypeInv, NEW t \in tasks, Settle(t) \/ TaskFails(t)
  PROVE  Keeps
<1> USE DEF chainVars, tableVars, revertVars
<1>1. PICK none : none = {}
  OBVIOUS
<1>2. ASSUME UNCHANGED <<slot, nextOrder, orders, revert>>,
             NEW started, tasks' \subseteq tasks \cup started, \A u \in started : u.task # "saveOrder"
      PROVE  Keeps
  BY <1>2, TaskKeeps DEF InTable, Remembered
<1>3. ASSUME UNCHANGED <<slot, nextOrder, orders, revert>>, Becomes(t, {}) PROVE Keeps
  BY <1>1, <1>3, <1>2 DEF Becomes
<1>4. CASE TaskStatus(t)
  <2> DEFINE next == IF t.id # 0 /\ auctions[t.a].id = t.id
                       THEN {[task |-> "saveAuction", row |-> WithStatus(auctions[t.a], t.status, t.blockHash)]}
                       ELSE {}
  <2>1. tasks' \subseteq tasks \cup next /\ \A u \in next : u.task # "saveOrder"
    BY <1>4 DEF TaskStatus, Becomes
  <2> HIDE DEF next
  <2> QED BY <1>2, <1>4, <2>1 DEF TaskStatus
<1>5. CASE TaskSettle(t)
  <2>1. CASE Becomes(t, {})
    BY <1>3, <1>5, <2>1 DEF TaskSettle
  <2>2. ASSUME NEW p \in ActiveOrders(t.id),
               Becomes(t, {[task |-> "saveOrder",
                            copy |-> [id |-> p, row |-> [orders[p] EXCEPT !.status = "bought"]]]})
        PROVE  Keeps
    <3> DEFINE row == [orders[p] EXCEPT !.status = "bought"]
               started == {[task |-> "saveOrder", copy |-> [id |-> p, row |-> row]]}
    <3>1. p \in OrderIds /\ orders[p].status # "absent" /\ orders[p] \in OrderRow
      BY <2>2 DEF ActiveOrders, OrdersOf, TypeInv, TypeOK
    <3>2. Facts(row) \in Remembered(p)
      BY <3>1, FactsStatus DEF InTable, Remembered, OrderStatus
    <3> HIDE DEF row
    <3>3. \A u \in started : u.task = "saveOrder" => u.copy.id \in OrderIds /\ Facts(u.copy.row) \in Remembered(u.copy.id)
      BY <3>1, <3>2
    <3>4. tasks' \subseteq tasks \cup started
      BY <2>2 DEF Becomes, row
    <3> HIDE DEF started
    <3> QED BY <1>5, <3>3, <3>4, TaskKeeps DEF TaskSettle, InTable, Remembered
  <2> QED BY <1>5, <2>1, <2>2 DEF TaskSettle
<1>6. CASE TaskSaveOrder(t)
  <2>1. \A o \in OrderIds : t.copy.id = o => Facts(t.copy.row) \in Remembered(o)
    BY <1>6 DEF TaskSaveOrder, InTasks, Remembered
  <2>2. \A o \in OrderIds : InTable(o)' \subseteq Remembered(o)
    BY <1>6, <2>1, SaveFacts DEF TaskSaveOrder, TypeInv, TypeOK, Task, OrderCopy, OrderRow
  <2> QED BY <1>6, <2>2, <1>1, TaskKeeps DEF TaskSaveOrder, Becomes
<1>7. CASE TaskSaveAuction(t) \/ TaskSeen(t) \/ TaskClear(t) \/ TaskNotify(t) \/ TaskFails(t)
  BY <1>3, <1>7 DEF TaskSaveAuction, TaskSeen, TaskClear, TaskNotify, TaskFails
<1> QED BY <1>4, <1>5, <1>6, <1>7 DEF Settle

LEMMA CronFacts ==
  ASSUME TypeInv, Cron
  PROVE  Keeps
<1> DEFINE started ==
      {[task |-> "notify", rows |-> {[auctionId |-> r.id, owner |-> Nobody, type |-> "Ended", cause |-> 0]}]
         : r \in {x \in cron.ended : ActiveOrders(x.id) = {}}}
<1>1. tasks' \subseteq tasks \cup started
  BY DEF Cron, CronRead, CronClear, CronNotify, CronSave
<1>2. \A u \in started : u.task # "saveOrder"
  OBVIOUS
<1> HIDE DEF started
<1> QED BY <1>1, <1>2, TaskKeeps DEF InTable, Remembered, Cron, CronRead, CronClear, CronNotify, CronSave, tableVars, revertVars

LEMMA RollbackFacts ==
  ASSUME TypeInv, Rollback
  PROVE  Keeps
<1> USE DEF chainVars, tableVars
<1>0. 0 \notin OrderIds
  BY DEF OrderIds
<1>1. UNCHANGED <<slot, tasks, nextOrder>>
  BY Zenon DEF Rollback, RevertRead, RevertReopen, RevertDelete, RevertOrders, RevertOrder, RevertRevive, RevertAck
<1>2. revert.previous.id \in OrderIds => Facts(revert.previous.row) \in Remembered(revert.previous.id)
  BY DEF InRevert, Remembered
<1>3. UNCHANGED orders => \A o \in OrderIds : InTable(o)' \subseteq Remembered(o)
  BY DEF InTable, Remembered
<1>4. IdleRevert.previous.id = 0
  BY DEF IdleRevert, NoCopy
<1>5. CASE RevertRead \/ RevertAck
  <2>1. UNCHANGED orders /\ revert'.previous.id = 0
    BY <1>4, <1>5 DEF RevertRead, RevertAck, IdleRevert
  <2> QED  BY <1>0, <1>1, <1>3, <2>1, RollbackKeeps
<1>6. CASE RevertReopen \/ RevertDelete \/ RevertOrders
  <2>1. UNCHANGED orders /\ revert'.previous = revert.previous
    BY <1>6 DEF RevertReopen, RevertDelete, RevertOrders, TypeInv, TypeOK
  <2> QED  BY <1>1, <1>2, <1>3, <2>1, RollbackKeeps
<1>7. CASE RevertOrder
  <2>1. PICK p \in revert.pending :
          /\ orders' = [orders EXCEPT ![p] = NoOrder]
          /\ LET others == OrdersOf(orders[p].auctionId) \ {p} IN
             \/ others = {} /\ revert' = [revert EXCEPT !.pending = {}]
             \/ revert' = [revert EXCEPT !.pending = @ \ {p}]
             \/ \E last \in others :
                  revert' = [revert EXCEPT !.pending = @ \ {p}, !.pc = "revive", !.previous = CopyOf(last)]
    BY Zenon, <1>7 DEF RevertOrder
  <2>2. \A o \in OrderIds : InTable(o)' \subseteq Remembered(o)
    <3>1. NoOrder.status = "absent"
      BY DEF NoOrder
    <3>2. \A o \in OrderIds : \A x \in InTable(o)' : x \in InTable(o)
      BY Zenon, <2>1, <3>1, TableFacts
    <3> QED  BY <3>2 DEF Remembered
  <2>3. CASE revert' = [revert EXCEPT !.pending = {}] \/ revert' = [revert EXCEPT !.pending = @ \ {p}]
    <3>1. revert'.previous = revert.previous
      BY <2>3 DEF TypeInv, TypeOK
    <3> QED  BY <1>1, <1>2, <2>2, <3>1, RollbackKeeps
  <2>4. ASSUME NEW last \in OrdersOf(orders[p].auctionId),
               revert' = [revert EXCEPT !.pending = @ \ {p}, !.pc = "revive", !.previous = CopyOf(last)]
        PROVE  Keeps
    <3>1. revert'.previous = CopyOf(last)
      BY <2>4 DEF TypeInv, TypeOK
    <3>2. last \in OrderIds /\ CopyOf(last).id = last /\ Facts(CopyOf(last).row) \in Remembered(last)
      BY <2>4 DEF OrdersOf, CopyOf, InTable, Remembered
    <3> QED  BY <1>1, <2>2, <3>1, <3>2, RollbackKeeps
  <2> QED  BY Zenon, <2>1, <2>3, <2>4
<1>8. CASE RevertRevive
  <2>1. revert'.previous.id = 0
    BY <1>8 DEF RevertRevive, NoCopy, TypeInv, TypeOK
  <2>2. revert.previous \in OrderCopy /\ "active" \in OrderStatus
    BY DEF TypeInv, TypeOK, OrderStatus
  <2>3. \A o \in OrderIds : InTable(o)' \subseteq Remembered(o)
    BY <1>2, <1>8, <2>2, SaveFacts DEF RevertRevive
  <2> QED  BY <1>0, <1>1, <2>1, <2>3, RollbackKeeps
<1> QED  BY <1>5, <1>6, <1>7, <1>8 DEF Rollback

LEMMA FaultFacts ==
  ASSUME TypeInv, Crash \/ \E w \in Workers : HandlerFails(w)
  PROVE  Keeps
<1> USE DEF chainVars, tableVars, revertVars
<1>1. PICK none : none = {}
  OBVIOUS
<1>2. CASE Crash
  <2> SUFFICES ASSUME NEW o \in OrderIds PROVE Remembered(o)' \subseteq Remembered(o)
    BY <1>2 DEF Crash, Keeps
  <2> QED BY <1>2 DEF Remembered, Crash, InTable, InTasks, InRevert, InActive, InNew, OrderIds, IdleSlot, IdleRevert, NoCopy
<1>3. ASSUME NEW w \in Workers, HandlerFails(w) PROVE Keeps
  BY <1>3, <1>1, ReturnKeeps, GotoKeeps, DeadLetterKeeps DEF HandlerFails
<1> QED BY <1>2, <1>3

LEMMA ChainFacts ==
  ASSUME TypeInv, Chain \/ UNCHANGED vars
  PROVE  Keeps
<1>1. UNCHANGED <<slot, tasks, orders, nextOrder, revert>>
  BY DEF Chain, Emit, Deadline, RevertBlock, chainVars, tableVars, revertVars, vars
<1> QED  BY <1>1 DEF Keeps, Remembered, InTable, InActive, InNew, InTasks, InRevert, BidRow, event

LEMMA NothingNewStep == TypeInv /\ NothingNew /\ [Next]_vars => NothingNew'
<1> SUFFICES ASSUME TypeInv, NothingNew, [Next]_vars PROVE NothingNew'
  OBVIOUS
<1> USE DEF chainVars, tableVars, revertVars
<1>1. ASSUME NEW w \in Workers, NEW s, slot' = [slot EXCEPT ![w] = s], s.pc = "next" => s.new = 0 PROVE NothingNew'
  BY <1>1 DEF NothingNew, TypeInv, TypeOK
<1>2. ASSUME NEW w \in Workers, NEW pc, pc # "next", Goto(w, pc) PROVE NothingNew'
  BY <1>2 DEF Goto, NothingNew, TypeInv, TypeOK, Slot
<1>3. ASSUME NEW w \in Workers, NEW started, Return(w, started) PROVE NothingNew'
  <2> DEFINE s == [IdleSlot EXCEPT !.hash = slot[w].hash, !.events = Tail(slot[w].events),
                                   !.pc = IF Len(slot[w].events) = 1 THEN "ack" ELSE "next"]
  <2>1. s.new = 0 /\ slot' = [slot EXCEPT ![w] = s]
    BY <1>3 DEF Return, IdleSlot
  <2> HIDE DEF s
  <2> QED BY <1>1, <2>1
<1>4. ASSUME NEW w \in Workers, DeadLetter(w) \/ Ack(w) PROVE NothingNew'
  BY <1>1, <1>4 DEF DeadLetter, Ack, IdleSlot
<1>5. ASSUME NEW w \in Workers, Handle(w) PROVE NothingNew'
  <2>1. CASE Take(w)
    BY <2>1, <1>1 DEF Take, IdleSlot
  <2>2. CASE StartQuery(w) \/ BidRead(w) \/ BuyRead(w)
    <3>1. ASSUME NEW pc, NEW row, pc # "next", slot' = [slot EXCEPT ![w].pc = pc, ![w].auction = row] PROVE NothingNew'
      BY SMTT(30), <3>1 DEF NothingNew, TypeInv, TypeOK, Slot
    <3> QED BY <1>3, <2>2, <3>1 DEF StartQuery, BidRead, BuyRead
  <2>3. CASE BidOrder(w)
    <3>1. ASSUME NEW copy, slot' = [slot EXCEPT ![w].pc = "save", ![w].active = copy] PROVE NothingNew'
      BY SMTT(30), <3>1 DEF NothingNew, TypeInv, TypeOK, Slot
    <3> QED BY <1>2, <1>3, <2>3, <3>1 DEF BidOrder
  <2>4. CASE BidSave(w)
    <3>1. ASSUME NEW pc, NEW new, pc # "next", slot' = [slot EXCEPT ![w].pc = pc, ![w].new = new] PROVE NothingNew'
      BY SMTT(30), <3>1 DEF NothingNew, TypeInv, TypeOK, Slot
    <3> QED BY <1>4, <2>4, <3>1 DEF BidSave
  <2>5. CASE StartInsert(w) \/ BidOutbid(w) \/ BidRetire(w) \/ BuyLeft(w) \/ BuySave(w) \/ End(w)
    BY <1>2, <1>3, <1>4, <2>5 DEF StartInsert, BidOutbid, BidRetire, BuyLeft, BuySave, End
  <2>6. CASE Feed(w) \/ Withdraw(w) \/ UpdatePrice(w) \/ AcceptOffer(w)
    BY <1>3, <2>6 DEF Feed, Withdraw, UpdatePrice, AcceptOffer
  <2> QED BY <1>4, <1>5, <2>1, <2>2, <2>3, <2>4, <2>5, <2>6 DEF Handle
<1>6. ASSUME NEW t \in tasks, Settle(t) \/ TaskFails(t) PROVE UNCHANGED slot
  BY <1>6 DEF Settle, TaskStatus, TaskSaveAuction, TaskSettle, TaskSaveOrder, TaskSeen, TaskClear, TaskNotify, TaskFails
<1>7. CASE Cron \/ Rollback
  <2>1. UNCHANGED slot
    BY Zenon, <1>7 DEF Cron, CronRead, CronClear, CronNotify, CronSave, Rollback, RevertRead, RevertReopen,
       RevertDelete, RevertOrders, RevertOrder, RevertRevive, RevertAck
  <2> QED BY <2>1 DEF NothingNew
<1>8. CASE Chain \/ UNCHANGED vars
  BY <1>8 DEF Chain, Emit, Deadline, RevertBlock, vars, NothingNew
<1>9. CASE Crash
  BY <1>9 DEF Crash, IdleSlot, NothingNew
<1>10. ASSUME NEW w \in Workers, HandlerFails(w) PROVE NothingNew'
  BY <1>2, <1>3, <1>4, <1>10 DEF HandlerFails
<1> QED BY <1>5, <1>6, <1>7, <1>8, <1>9, <1>10 DEF Next, Faulty, NothingNew

LEMMA FactsKeep == TypeInv /\ NothingNew /\ [Next]_vars => Keeps \/ \E r \in OrderRow : Adds(r)
BY HandlerFacts, SettleFacts, CronFacts, RollbackFacts, FaultFacts, ChainFacts DEF Next, Faulty

LEMMA FactsInit == Init => FactsInv
<1> SUFFICES ASSUME Init PROVE FactsInv
  OBVIOUS
<1>1. ASSUME NEW o \in OrderIds PROVE Remembered(o) = {}
  BY DEF OrderIds, IdleSlot, IdleRevert, NoCopy, NoOrder, Init, Remembered, InTable, InActive, InNew, InTasks, InRevert
<1> QED BY <1>1 DEF FactsInv, Agreed, Given, Init, NothingNew, IdleSlot

LEMMA FactsStep == TypeInv /\ FactsInv /\ [Next]_vars => FactsInv'
<1> SUFFICES ASSUME TypeInv, FactsInv, [Next]_vars PROVE FactsInv'
  OBVIOUS
<1>1. CASE Keeps
  BY <1>1, NothingNewStep DEF Keeps, FactsInv, Agreed, Given
<1>2. ASSUME NEW r \in OrderRow, Adds(r) PROVE FactsInv'
  <2>1. ASSUME NEW o \in OrderIds, o # nextOrder PROVE Remembered(o)' \subseteq Remembered(o)
    BY <1>2, <2>1 DEF Adds
  <2>2. ASSUME NEW o \in OrderIds, o = nextOrder PROVE Remembered(o) = {} /\ Remembered(o)' \subseteq {Facts(r)}
    BY <1>2, <2>2 DEF Adds, FactsInv, Given, TypeInv, TypeOK, OrderIds
  <2> QED BY <2>1, <2>2, <1>2, NothingNewStep DEF FactsInv, Agreed, Given, Adds, TypeInv, TypeOK, OrderIds
<1> QED BY <1>1, <1>2, FactsKeep DEF FactsInv

\* A save of an order that is there writes the facts it has.
LEMMA FactsStay ==
  ASSUME TypeInv, FactsInv, [Next]_vars, NEW o \in OrderIds,
         orders[o].status # "absent", orders'[o].status # "absent"
  PROVE  Facts(orders'[o]) = Facts(orders[o])
<1>1. Facts(orders[o]) \in Remembered(o) /\ Facts(orders'[o]) \in Remembered(o)'
  BY DEF InTable, Remembered
<1>2. CASE Keeps
  BY <1>1, <1>2 DEF Keeps, FactsInv, Agreed
<1>3. ASSUME NEW r \in OrderRow, Adds(r) PROVE Facts(orders'[o]) = Facts(orders[o])
  BY <1>1, <1>3 DEF FactsInv, Given, TypeInv, TypeOK, OrderIds, Adds
<1> QED BY <1>2, <1>3, FactsKeep DEF FactsInv

\* Handlers, promises and the rollback save whole rows that they read some steps
\* earlier, over whatever the table holds by then. With any number of blocks
\* handled at once, crashes, failed calls and reverts, no save ever changes who
\* bid how much, for which auction and in which block.
THEOREM OrderFactsKept == Spec => OrderFactsImmutable
<1> DEFINE Kept == \A o \in OrderIds : orders[o].status # "absent" /\ orders'[o].status # "absent"
                                         => Facts(orders'[o]) = Facts(orders[o])
<1>1. TypeInv /\ FactsInv /\ [Next]_vars => [Kept]_orders
  BY FactsStay
<1> HIDE DEF Kept
<1>2. Spec => [][Kept]_orders
  BY <1>1, TypeInit, TypeStep, RevertedStep, FactsInit, FactsStep, PTL DEF Spec
<1> QED  BY <1>2 DEF OrderFactsImmutable, Kept

-----------------------------------------------------------------------------
(* One winning order. A bid handler remembers the active order it read; until *)
(* it has inserted its own that one is the only active order of the auction,  *)
(* and until it has saved the old one as inactive these two are. Whatever     *)
(* else is saved meanwhile is saved as bought, or deleted.                    *)

\* No block was ever reverted, and none is being rolled back.
NoReverts == reverts = 0 => revertQueue = <<>> /\ revert.pc = "idle"
SettlesAsBought == \A t \in tasks : t.task = "saveOrder" => t.copy.row.status = "bought"

LEMMA NoRevertsStep ==
  ASSUME TypeInv, NoReverts, [Next]_vars
  PROVE  NoReverts' /\ (reverts' = 0 => reverts = 0 /\ ~Rollback /\ ~RevertBlock)
<1> USE DEF revertVars
<1>1. reverts = 0 => ~Rollback
  BY DEF NoReverts, Rollback, RevertRead, RevertReopen, RevertDelete, RevertOrders, RevertOrder, RevertRevive, RevertAck
<1>2. RevertBlock => reverts' # 0
  BY DEF RevertBlock, TypeInv, TypeOK
<1>3. ASSUME UNCHANGED <<revertQueue, reverts>>, UNCHANGED revert \/ revert' = IdleRevert
      PROVE  NoReverts' /\ (reverts' = 0 => reverts = 0 /\ ~Rollback /\ ~RevertBlock)
  BY <1>1, <1>2, <1>3 DEF NoReverts, IdleRevert
<1>4. ASSUME NEW w \in Workers, Handle(w) PROVE UNCHANGED <<revertQueue, revert, reverts>>
  BY Zenon, <1>4 DEF Handle, Take, Ack, StartQuery, StartInsert, BidRead, BidOrder, BidSave, BidOutbid, BidRetire, Feed,
     BuyRead, BuyLeft, BuySave, Withdraw, End, UpdatePrice, AcceptOffer
<1>5. ASSUME NEW t \in tasks, Settle(t) \/ TaskFails(t) PROVE UNCHANGED <<revertQueue, revert, reverts>>
  BY <1>5 DEF Settle, TaskStatus, TaskSaveAuction, TaskSettle, TaskSaveOrder, TaskSeen, TaskClear, TaskNotify, TaskFails
<1>6. CASE Cron \/ Crash \/ UNCHANGED vars \/ \E w \in Workers : HandlerFails(w)
  BY <1>3, <1>6 DEF Cron, CronRead, CronClear, CronNotify, CronSave, Crash, vars, HandlerFails
<1>7. CASE (\E e \in Event : Emit(e)) \/ \E a \in Auctions : Deadline(a)
  BY <1>3, <1>7 DEF Emit, Deadline
<1>8. CASE RevertBlock
  BY <1>2, <1>8 DEF NoReverts
<1>9. CASE Rollback
  <2>1. UNCHANGED reverts
    BY <1>9 DEF Rollback, RevertRead, RevertReopen, RevertDelete, RevertOrders, RevertOrder, RevertRevive, RevertAck
  <2> QED BY <1>1, <1>9, <2>1 DEF NoReverts
<1> QED BY <1>3, <1>4, <1>5, <1>6, <1>7, <1>8, <1>9 DEF Next, Chain, Faulty

\* What a handler starts, and what comes of a promise, saves an order as bought only.
LEMMA HandlerSettles ==
  ASSUME TypeInv, SettlesAsBought, NEW w \in Workers, Handle(w) \/ HandlerFails(w)
  PROVE  SettlesAsBought'
<1> USE DEF tableVars
<1>1. ASSUME NEW started, tasks' \subseteq tasks \cup started, \A t \in started : t.task = "saveOrder" => t.copy.row.status = "bought"
      PROVE  SettlesAsBought'
  BY <1>1 DEF SettlesAsBought
<1>2. UNCHANGED tasks \/ Return(w, {}) => SettlesAsBought'
  BY DEF Return, SettlesAsBought
<1>3. CASE Feed(w)
  <2> DEFINE started == MaxBidTasks(w)
  <2>1. \A t \in started : t.task = "saveOrder" => t.copy.row.status = "bought"
    BY DEF MaxBidTasks, BidRow
  <2>2. tasks' \subseteq tasks \cup started
    BY <1>3 DEF Feed, Return
  <2> HIDE DEF started
  <2> QED  BY <1>1, <2>1, <2>2
<1>4. CASE BidSave(w)
  <2> DEFINE started == {[task |-> "seen", id |-> slot[w].auction.id, owner |-> event(w).who]}
  <2>1. tasks' \subseteq tasks \cup started
    BY <1>4 DEF BidSave, DeadLetter
  <2>2. \A t \in started : t.task # "saveOrder"
    OBVIOUS
  <2> HIDE DEF started
  <2> QED  BY <1>1, <2>1, <2>2
<1>5. CASE BuyLeft(w)
  <2> DEFINE started == {[task |-> "status", a |-> slot[w].auction.a, id |-> slot[w].auction.id,
                          status |-> "Ended", blockHash |-> slot[w].hash]}
  <2>1. tasks' \subseteq tasks \cup started
    BY <1>5 DEF BuyLeft
  <2>2. \A t \in started : t.task # "saveOrder"
    OBVIOUS
  <2> HIDE DEF started
  <2> QED  BY <1>1, <2>1, <2>2
<1>6. CASE Withdraw(w)
  <2>1. tasks' \subseteq tasks \cup {StatusTask(w, "Closed")}
    BY <1>6 DEF Withdraw, Return
  <2>2. StatusTask(w, "Closed").task # "saveOrder"
    BY DEF StatusTask
  <2> QED  BY <2>1, <2>2 DEF SettlesAsBought
<1>7. CASE End(w)
  <2> DEFINE id == auctions[event(w).a].id
             started == {StatusTask(w, "Ended"), [task |-> "clear", id |-> id], [task |-> "settle", id |-> id]}
  <2>1. tasks' \subseteq tasks \cup started
    BY <1>7 DEF End, Return
  <2>2. \A t \in started : t.task # "saveOrder"
    BY DEF StatusTask
  <2> HIDE DEF started
  <2> QED  BY <1>1, <2>1, <2>2
<1>8. CASE UpdatePrice(w)
  <2> DEFINE started == {[task |-> "saveAuction",
                          row |-> [auctions[event(w).a] EXCEPT !.price = event(w).amount, !.blockHash = slot[w].hash]]}
  <2>1. tasks' \subseteq tasks \cup started
    BY <1>8 DEF UpdatePrice, Return
  <2>2. \A t \in started : t.task # "saveOrder"
    OBVIOUS
  <2> HIDE DEF started
  <2> QED  BY <1>1, <2>1, <2>2
<1>9. CASE AcceptOffer(w)
  <2> DEFINE started == {[task |-> "saveAuction", row |-> [auctions[event(w).a] EXCEPT !.status = "Closed"]]}
  <2>1. tasks' \subseteq tasks \cup started
    BY <1>9 DEF AcceptOffer, Return
  <2>2. \A t \in started : t.task # "saveOrder"
    OBVIOUS
  <2> HIDE DEF started
  <2> QED  BY <1>1, <2>1, <2>2
<1>10. CASE Take(w) \/ Ack(w) \/ StartQuery(w) \/ StartInsert(w) \/ BidRead(w) \/ BidOrder(w) \/ BidOutbid(w)
            \/ BidRetire(w) \/ BuyRead(w) \/ BuySave(w) \/ HandlerFails(w)
  <2>1. UNCHANGED tasks \/ Return(w, {})
    BY Zenon, <1>10 DEF Take, Ack, StartQuery, StartInsert, BidRead, BidOrder, BidOutbid, BidRetire, BuyRead, BuySave,
       HandlerFails, DeadLetter
  <2> QED  BY <1>2, <2>1
<1> QED  BY <1>3, <1>4, <1>5, <1>6, <1>7, <1>8, <1>9, <1>10 DEF Handle

LEMMA SettlesStep ==
  ASSUME TypeInv, SettlesAsBought, [Next]_vars
  PROVE  SettlesAsBought'
<1> USE DEF chainVars, tableVars
<1>1. ASSUME NEW started, tasks' \subseteq tasks \cup started, \A t \in started : t.task = "saveOrder" => t.copy.row.status = "bought"
      PROVE  SettlesAsBought'
  BY <1>1 DEF SettlesAsBought
<1>2. ASSUME NEW t \in tasks, Settle(t) \/ TaskFails(t)
      PROVE  SettlesAsBought'
  <2>1. CASE TaskStatus(t)
    <3> DEFINE started == {[task |-> "saveAuction", row |-> WithStatus(auctions[t.a], t.status, t.blockHash)]}
    <3>1. tasks' \subseteq tasks \cup started
      BY <2>1 DEF TaskStatus, Becomes
    <3>2. \A u \in started : u.task # "saveOrder"
      OBVIOUS
    <3> HIDE DEF started
    <3> QED BY <1>1, <3>1, <3>2
  <2>2. CASE TaskSettle(t)
    <3>1. ASSUME NEW p \in ActiveOrders(t.id),
                 Becomes(t, {[task |-> "saveOrder", copy |-> [id |-> p, row |-> [orders[p] EXCEPT !.status = "bought"]]]})
          PROVE  SettlesAsBought'
      <4> DEFINE row == [orders[p] EXCEPT !.status = "bought"]
                 started == {[task |-> "saveOrder", copy |-> [id |-> p, row |-> row]]}
      <4>1. row.status = "bought"
        BY <3>1 DEF ActiveOrders, OrdersOf, TypeInv, TypeOK, OrderRow
      <4>2. tasks' \subseteq tasks \cup started
        BY <3>1 DEF Becomes
      <4> HIDE DEF row
      <4>3. \A u \in started : u.copy.row.status = "bought"
        BY <4>1
      <4> HIDE DEF started
      <4> QED BY <1>1, <4>2, <4>3
    <3>2. CASE Becomes(t, {})
      BY <3>2 DEF Becomes, SettlesAsBought
    <3> QED BY <2>2, <3>1, <3>2 DEF TaskSettle
  <2>3. CASE TaskSaveAuction(t) \/ TaskSaveOrder(t) \/ TaskSeen(t) \/ TaskClear(t) \/ TaskNotify(t) \/ TaskFails(t)
    BY <2>3 DEF TaskSaveAuction, TaskSaveOrder, TaskSeen, TaskClear, TaskNotify, TaskFails, Becomes, SettlesAsBought
  <2> QED BY <1>2, <2>1, <2>2, <2>3 DEF Settle
<1>3. CASE Cron
  <2> DEFINE started ==
        {[task |-> "notify", rows |-> {[auctionId |-> r.id, owner |-> Nobody, type |-> "Ended", cause |-> 0]}]
           : r \in {x \in cron.ended : ActiveOrders(x.id) = {}}}
  <2>1. tasks' \subseteq tasks \cup started
    BY <1>3 DEF Cron, CronRead, CronClear, CronNotify, CronSave
  <2>2. \A u \in started : u.task # "saveOrder"
    OBVIOUS
  <2> HIDE DEF started
  <2> QED BY <1>1, <2>1, <2>2
<1>4. CASE Chain \/ Crash \/ UNCHANGED vars
  BY <1>4 DEF Chain, Emit, Deadline, RevertBlock, Crash, vars, SettlesAsBought
<1>5. CASE Rollback
  BY <1>5 DEF Rollback, RevertRead, RevertReopen, RevertDelete, RevertOrders, RevertOrder, RevertRevive, RevertAck, SettlesAsBought
<1> QED BY <1>2, <1>3, <1>4, <1>5, HandlerSettles DEF Next, Faulty

\* Nothing but a revert removes the row of an auction or gives it another id.
LEMMA SavedAllStays ==
  ASSUME TypeInv, NEW rows, auctions' = SavedAll(rows), NEW id, HasAuction(id)
  PROVE  HasAuction(id)'
  BY DEF HasAuction, SavedAll, Savable

LEMMA AuctionsStay ==
  ASSUME TypeInv, [Next]_vars, ~RevertDelete
  PROVE  \A id : HasAuction(id) => HasAuction(id)'
<1> USE DEF chainVars, tableVars
<1> SUFFICES ASSUME NEW id, HasAuction(id) PROVE HasAuction(id)'
  OBVIOUS
<1>1. UNCHANGED auctions => HasAuction(id)'
  BY DEF HasAuction
<1>2. ASSUME NEW rows, auctions' = SavedAll(rows) PROVE HasAuction(id)'
  BY <1>2, SavedAllStays
<1>3. ASSUME NEW w \in Workers, Handle(w) PROVE HasAuction(id)'
  <2>1. CASE StartInsert(w) /\ auctions[slot[w].auction.a].id = 0
    BY <2>1 DEF HasAuction, StartInsert, TypeInv, TypeOK
  <2>2. CASE ~(StartInsert(w) /\ auctions[slot[w].auction.a].id = 0)
    <3>1. UNCHANGED auctions
      BY Zenon, <1>3, <2>2 DEF Handle, Take, Ack, StartQuery, StartInsert, BidRead, BidOrder, BidSave, BidOutbid,
         BidRetire, Feed, BuyRead, BuyLeft, BuySave, Withdraw, End, UpdatePrice, AcceptOffer
    <3> QED BY <1>1, <3>1
  <2> QED BY <2>1, <2>2
<1>4. ASSUME NEW t \in tasks, Settle(t) \/ TaskFails(t) PROVE HasAuction(id)'
  BY <1>4, <1>1, <1>2 DEF Settle, TaskStatus, TaskSaveAuction, TaskSettle, TaskSaveOrder, TaskSeen, TaskClear,
     TaskNotify, TaskFails
<1>5. CASE Cron
  BY <1>5, <1>1, <1>2 DEF Cron, CronRead, CronClear, CronNotify, CronSave
<1>6. CASE Chain \/ Crash \/ UNCHANGED vars \/ \E w \in Workers : HandlerFails(w)
  BY <1>6, <1>1 DEF Chain, Emit, Deadline, RevertBlock, Crash, HandlerFails, vars
<1>7. CASE Rollback
  BY <1>7, <1>1, <1>2 DEF Rollback, RevertRead, RevertReopen, RevertOrders, RevertOrder, RevertRevive, RevertAck
<1> QED BY <1>3, <1>4, <1>5, <1>6, <1>7 DEF Next, Faulty

\* Orders that are written without becoming active.
Quiet == \A o \in OrderIds : orders'[o] = orders[o] \/ orders'[o].status # "active"
\* A handler that goes on, or one that has nothing to replace.
GoesOn(s, t) ==
  \/ t.active = s.active /\ t.new = s.new /\ t.auction = s.auction /\ t.pc = s.pc
  \/ s.pc \notin {"outbid", "retire"} /\ t.pc \notin {"save", "outbid", "retire"}

\* Where a handler that returns, throws or goes on is.
LEMMA Moves ==
  ASSUME TypeInv, NEW w \in Workers
  PROVE  /\ \A started : Return(w, started) => slot'[w].pc \in {"ack", "next"} /\ slot'[w].active.id = 0
         /\ DeadLetter(w) => slot'[w].pc = "idle" /\ slot'[w].active.id = 0
         /\ \A pc : Goto(w, pc) => /\ slot'[w].pc = pc /\ slot'[w].active = slot[w].active
                                   /\ slot'[w].new = slot[w].new /\ slot'[w].auction = slot[w].auction
<1>1. ASSUME NEW started, Return(w, started)
      PROVE  slot'[w].pc \in {"ack", "next"} /\ slot'[w].active.id = 0
  BY <1>1 DEF Return, IdleSlot, NoCopy, TypeInv, TypeOK
<1>2. ASSUME NEW pc, Goto(w, pc)
      PROVE  /\ slot'[w].pc = pc /\ slot'[w].active = slot[w].active
             /\ slot'[w].new = slot[w].new /\ slot'[w].auction = slot[w].auction
  BY <1>2 DEF Goto, TypeInv, TypeOK, Slot
<1> QED BY <1>1, <1>2 DEF DeadLetter, IdleSlot, NoCopy, TypeInv, TypeOK

\* A handler's step that is none of those of a bid that takes the lead.
LEMMA PlainStep ==
  ASSUME TypeInv, NEW w \in Workers, Handle(w), ~BidOrder(w), ~BidSave(w), ~BidOutbid(w), ~BidRetire(w)
  PROVE  Quiet /\ GoesOn(slot[w], slot'[w])
<1> USE DEF tableVars, At
<1>1. slot[w] \in Slot /\ orders \in [OrderIds -> OrderRow] /\ slot \in [Workers -> Slot]
  BY DEF TypeInv, TypeOK
<1>2. CASE BuySave(w)
  BY <1>2, <1>1, Moves DEF BuySave, InsertOrder, Quiet, GoesOn
<1>3. CASE StartQuery(w) \/ BidRead(w) \/ BuyRead(w)
  <2>1. /\ slot[w].pc = "next" /\ UNCHANGED orders
        /\ \/ Return(w, {})
           \/ \E pc \in {"insert", "order", "left"} : \E row : slot' = [slot EXCEPT ![w].pc = pc, ![w].auction = row]
    BY <1>3 DEF StartQuery, BidRead, BuyRead
  <2>2. slot'[w].pc \in {"ack", "next", "insert", "order", "left"}
    <3>1. ASSUME NEW pc \in {"insert", "order", "left"}, NEW row, slot' = [slot EXCEPT ![w].pc = pc, ![w].auction = row]
          PROVE  slot'[w].pc \in {"insert", "order", "left"}
      BY <1>1, <3>1 DEF Slot
    <3> QED BY <2>1, <3>1, Moves, Zenon
  <2> QED BY <2>1, <2>2 DEF GoesOn, Quiet
<1>4. CASE Take(w) \/ Ack(w)
  <2>1. /\ slot[w].pc \in {"idle", "ack"} /\ UNCHANGED orders
        /\ \/ slot' = [slot EXCEPT ![w] = IdleSlot]
           \/ \E i : slot' = [slot EXCEPT ![w] = [IdleSlot EXCEPT !.hash = queue[i].hash,
                                                  !.events = queue[i].events, !.pc = "next"]]
    BY Zenon, <1>4 DEF Take, Ack
  <2>2. slot'[w].pc \in {"idle", "next"}
    <3>1. ASSUME NEW hash, NEW events, slot' = [slot EXCEPT ![w] = [IdleSlot EXCEPT !.hash = hash, !.events = events, !.pc = "next"]]
          PROVE  slot'[w].pc = "next"
      BY <1>1, <3>1 DEF IdleSlot, NoCopy
    <3>2. CASE slot' = [slot EXCEPT ![w] = IdleSlot]
      BY <1>1, <3>2 DEF IdleSlot, NoCopy
    <3> QED BY Zenon, <2>1, <3>1, <3>2
  <2> QED BY Zenon, <2>1, <2>2 DEF GoesOn, Quiet
<1>5. CASE StartInsert(w) \/ Feed(w) \/ BuyLeft(w) \/ Withdraw(w) \/ End(w) \/ UpdatePrice(w) \/ AcceptOffer(w)
  BY <1>5, Moves DEF StartInsert, Feed, BuyLeft, Withdraw, End, UpdatePrice, AcceptOffer, GoesOn, Quiet
<1> QED BY <1>2, <1>3, <1>4, <1>5 DEF Handle

\* What is not a handler writes orders as bought, deletes them, or revives one.
LEMMA OthersQuiet ==
  ASSUME TypeInv, SettlesAsBought, [Next]_vars, ~\E w \in Workers : Handle(w) \/ HandlerFails(w), ~Crash
  PROVE  (Quiet \/ RevertRevive) /\ UNCHANGED slot
<1> USE DEF chainVars, tableVars
<1>1. ASSUME NEW t \in tasks, Settle(t) \/ TaskFails(t)
      PROVE  Quiet /\ UNCHANGED slot
  <2>1. CASE TaskSaveOrder(t)
    BY <2>1 DEF TaskSaveOrder, SettlesAsBought, TypeInv, TypeOK, Task, OrderCopy, SavedOrder, OrderRow, Quiet
  <2>2. CASE ~TaskSaveOrder(t)
    BY <1>1, <2>2 DEF Settle, TaskStatus, TaskSaveAuction, TaskSettle, TaskSeen, TaskClear, TaskNotify, TaskFails, Quiet
  <2> QED BY <2>1, <2>2
<1>2. CASE Cron \/ Chain \/ UNCHANGED vars
  BY <1>2 DEF Cron, CronRead, CronClear, CronNotify, CronSave, Chain, Emit, Deadline, RevertBlock, vars, Quiet
<1>3. CASE Rollback
  <2>1. CASE RevertOrder
    <3>1. PICK p : orders' = [orders EXCEPT ![p] = NoOrder] /\ UNCHANGED slot
      BY <2>1 DEF RevertOrder
    <3>2. NoOrder.status = "absent"
      BY DEF NoOrder
    <3> QED BY <3>1, <3>2 DEF Quiet, TypeInv, TypeOK
  <2>2. CASE ~RevertOrder
    BY <1>3, <2>2 DEF Rollback, RevertRead, RevertReopen, RevertDelete, RevertOrders, RevertRevive, RevertAck, Quiet
  <2> QED BY <2>1, <2>2
<1> QED BY <1>1, <1>2, <1>3 DEF Next, Faulty

LEMMA FaultsCount ==
  ASSUME TypeInv, [Next]_vars, faults' = 0
  PROVE  faults = 0 /\ ~Crash /\ \A w \in Workers : ~HandlerFails(w)
<1>1. ASSUME Crash \/ (\E w \in Workers : HandlerFails(w)) \/ \E t \in tasks : TaskFails(t)
      PROVE  FALSE
  BY <1>1 DEF Crash, HandlerFails, TaskFails, TypeInv, TypeOK
<1>2. ASSUME NEW w \in Workers, Handle(w)
      PROVE  UNCHANGED faults
  BY Zenon, <1>2 DEF Handle, Take, Ack, StartQuery, StartInsert, BidRead, BidOrder, BidSave, BidOutbid, BidRetire, Feed,
     BuyRead, BuyLeft, BuySave, Withdraw, End, UpdatePrice, AcceptOffer
<1>3. ASSUME NEW t \in tasks, Settle(t)
      PROVE  UNCHANGED faults
  BY <1>3 DEF Settle, TaskStatus, TaskSaveAuction, TaskSettle, TaskSaveOrder, TaskSeen, TaskClear, TaskNotify
<1>4. CASE Cron
  BY <1>1, <1>4 DEF Cron, CronRead, CronClear, CronNotify, CronSave
<1>5. CASE Chain
  BY <1>1, <1>5 DEF Chain, Emit, Deadline, RevertBlock
<1>6. CASE UNCHANGED vars
  BY <1>1, <1>6 DEF vars
<1>7. CASE Rollback
  BY <1>1, <1>7 DEF Rollback, RevertRead, RevertReopen, RevertDelete, RevertOrders, RevertOrder, RevertRevive, RevertAck
<1> QED BY <1>1, <1>2, <1>3, <1>4, <1>5, <1>6, <1>7 DEF Next, Faulty, TypeInv, TypeOK

\* A handler's steps leave what the other workers remember alone.
LEMMA OtherSlots ==
  ASSUME TypeInv, NEW v \in Workers, Handle(v) \/ HandlerFails(v), NEW w \in Workers, w # v
  PROVE  slot'[w] = slot[w]
<1> USE DEF tableVars, Return, Goto, DeadLetter, TypeInv, TypeOK
<1>1. CASE Take(v)
  BY <1>1 DEF Take
<1>2. CASE StartQuery(v) \/ StartInsert(v) \/ BidRead(v) \/ BidOrder(v)
  BY <1>2 DEF StartQuery, StartInsert, BidRead, BidOrder
<1>3. CASE BidSave(v) \/ BidOutbid(v) \/ BidRetire(v) \/ Feed(v) \/ BuyRead(v) \/ BuyLeft(v) \/ BuySave(v)
  BY <1>3 DEF BidSave, BidOutbid, BidRetire, Feed, BuyRead, BuyLeft, BuySave
<1>4. CASE Ack(v) \/ Withdraw(v) \/ End(v) \/ UpdatePrice(v) \/ AcceptOffer(v) \/ HandlerFails(v)
  BY <1>4 DEF Ack, Withdraw, End, UpdatePrice, AcceptOffer, HandlerFails
<1> QED BY <1>1, <1>2, <1>3, <1>4 DEF Handle

\* A handler that goes on is at the block it was at.
LEMMA StaysAtBlock ==
  ASSUME TypeInv, NEW w \in Workers, Handle(w) \/ HandlerFails(w), ~Take(w)
  PROVE  slot'[w].pc # "idle" => slot[w].pc # "idle" /\ slot'[w].hash = slot[w].hash
<1> USE DEF tableVars, At, TypeInv, TypeOK, Slot
<1>1. ASSUME NEW started, Return(w, started) PROVE slot'[w].hash = slot[w].hash
  BY <1>1 DEF Return, IdleSlot
<1>2. ASSUME NEW pc, Goto(w, pc) PROVE slot'[w].hash = slot[w].hash
  BY <1>2 DEF Goto
<1>3. DeadLetter(w) => slot'[w].pc = "idle"
  BY DEF DeadLetter, IdleSlot
<1>4. slot[w].pc # "idle"
  BY Zenon DEF Handle, Ack, StartQuery, StartInsert, BidRead, BidOrder, BidSave, BidOutbid, BidRetire, Feed,
     BuyRead, BuyLeft, BuySave, Withdraw, End, UpdatePrice, AcceptOffer, HandlerFails
<1>5. CASE Ack(w)
  BY <1>5 DEF Ack, IdleSlot
<1>6. CASE StartQuery(w)
  BY <1>1, <1>4, <1>6 DEF StartQuery
<1>7. CASE BidRead(w) \/ BuyRead(w) \/ BidOrder(w)
  BY <1>1, <1>2, <1>4, <1>7 DEF BidRead, BuyRead, BidOrder
<1>8. CASE BidSave(w)
  BY <1>3, <1>4, <1>8 DEF BidSave
<1>9. CASE StartInsert(w) \/ BidOutbid(w) \/ BidRetire(w) \/ Feed(w) \/ BuyLeft(w) \/ BuySave(w) \/ Withdraw(w) \/ End(w)
           \/ UpdatePrice(w) \/ AcceptOffer(w) \/ HandlerFails(w)
  BY Zenon, <1>1, <1>2, <1>3, <1>4, <1>9 DEF StartInsert, BidOutbid, BidRetire, Feed, BuyLeft, BuySave, Withdraw, End, UpdatePrice, AcceptOffer,
     HandlerFails
<1> QED BY <1>5, <1>6, <1>7, <1>8, <1>9 DEF Handle

\* An order that was not there is written with its auction there: the foreign key.
LEMMA ForeignKey ==
  ASSUME TypeInv, [Next]_vars, NEW o \in OrderIds, orders[o].status = "absent", orders'[o].status # "absent"
  PROVE  HasAuction(orders'[o].auctionId)
<1> USE DEF chainVars, tableVars
<1>1. ASSUME NEW copy \in OrderCopy, NEW status, OrderSavable(copy), orders' = SavedOrder(copy, status)
      PROVE  HasAuction(orders'[o].auctionId)
  BY <1>1 DEF OrderSavable, SavedOrder, TypeInv, TypeOK, OrderRow, OrderCopy
<1>2. ASSUME NEW row, InsertOrder(row), HasAuction(row.auctionId)
      PROVE  HasAuction(orders'[o].auctionId)
  BY <1>2 DEF InsertOrder, TypeInv, TypeOK
<1>3. ASSUME UNCHANGED orders
      PROVE  FALSE
  BY <1>3
<1>4. ASSUME NEW w \in Workers, Handle(w)
      PROVE  HasAuction(orders'[o].auctionId)
  <2>1. CASE BidSave(w)
    BY <1>2, <1>3, <2>1 DEF BidSave, BidRow
  <2>2. CASE BuySave(w)
    BY <1>2, <1>3, <2>2 DEF BuySave
  <2>3. CASE BidRetire(w)
    <3>1. slot[w].active \in OrderCopy
      BY DEF TypeInv, TypeOK, Slot
    <3> QED BY <1>1, <1>3, <2>3, <3>1 DEF BidRetire
  <2>4. CASE ~BidSave(w) /\ ~BuySave(w) /\ ~BidRetire(w)
    BY Zenon, <1>3, <1>4, <2>4 DEF Handle, Take, Ack, StartQuery, StartInsert, BidRead, BidOrder, BidOutbid,
       Feed, BuyRead, BuyLeft, Withdraw, End, UpdatePrice, AcceptOffer
  <2> QED BY <2>1, <2>2, <2>3, <2>4
<1>5. ASSUME NEW t \in tasks, Settle(t) \/ TaskFails(t)
      PROVE  HasAuction(orders'[o].auctionId)
  <2>1. CASE TaskSaveOrder(t)
    <3>1. t.copy \in OrderCopy
      BY <2>1 DEF TaskSaveOrder, TypeInv, TypeOK, Task
    <3> QED BY <1>1, <1>3, <2>1, <3>1 DEF TaskSaveOrder
  <2>2. CASE ~TaskSaveOrder(t)
    BY <1>3, <1>5, <2>2 DEF Settle, TaskStatus, TaskSaveAuction, TaskSettle, TaskSeen, TaskClear, TaskNotify, TaskFails
  <2> QED BY <2>1, <2>2
<1>6. CASE Cron \/ Chain \/ UNCHANGED vars \/ Crash \/ \E w \in Workers : HandlerFails(w)
  BY <1>3, <1>6 DEF Cron, CronRead, CronClear, CronNotify, CronSave, Chain, Emit, Deadline, RevertBlock, vars, Crash, HandlerFails
<1>7. CASE Rollback
  <2>1. CASE RevertOrder
    <3>1. PICK p : orders' = [orders EXCEPT ![p] = NoOrder]
      BY <2>1 DEF RevertOrder
    <3>2. NoOrder.status = "absent"
      BY DEF NoOrder
    <3> QED BY <3>1, <3>2 DEF TypeInv, TypeOK
  <2>2. CASE RevertRevive
    <3>1. revert.previous \in OrderCopy
      BY DEF TypeInv, TypeOK
    <3> QED BY <1>1, <1>3, <2>2, <3>1 DEF RevertRevive
  <2>3. CASE ~RevertOrder /\ ~RevertRevive
    BY <1>3, <1>7, <2>3 DEF Rollback, RevertRead, RevertReopen, RevertDelete, RevertOrders, RevertAck
  <2> QED BY <2>1, <2>2, <2>3
<1> QED BY <1>4, <1>5, <1>6, <1>7 DEF Next, Faulty

\* Every order's auction is there: no auction with orders is deleted.
Owned == \A o \in OrderIds : orders[o].status # "absent" => HasAuction(orders[o].auctionId)

LEMMA OwnedStep ==
  ASSUME TypeInv, TypeInv', FactsInv, Owned, [Next]_vars
  PROVE  Owned'
<1> SUFFICES ASSUME NEW o \in OrderIds, orders'[o].status # "absent", NEW id, id = orders'[o].auctionId PROVE HasAuction(id)'
  BY DEF Owned
<1>1. HasAuction(id)
  <2>1. CASE orders[o].status = "absent"
    BY <2>1, ForeignKey
  <2>2. CASE orders[o].status # "absent"
    <3>1. Facts(orders'[o]) = Facts(orders[o])
      BY <2>2, FactsStay
    <3>2. Facts(orders'[o]).auctionId = id /\ Facts(orders[o]).auctionId = orders[o].auctionId
      BY DEF Facts, TypeInv, TypeOK, OrderRow
    <3> QED BY <2>2, <3>1, <3>2 DEF Owned
  <2> QED BY <2>1, <2>2
<1>2. CASE RevertDelete
  <2>1. UNCHANGED orders
    BY <1>2 DEF RevertDelete
  <2>2. o \in OrdersOf(id)
    BY <2>1 DEF OrdersOf
  <2>3. PICK a \in Auctions : auctions[a].id = id
    BY <1>1 DEF HasAuction
  <2>4. auctions'[a] = auctions[a]
    BY <1>2, <2>2, <2>3 DEF RevertDelete, TypeInv, TypeOK
  <2> QED BY <1>1, <2>3, <2>4 DEF HasAuction
<1>3. CASE ~RevertDelete
  BY <1>1, <1>3, AuctionsStay
<1> QED BY <1>2, <1>3

\* The orders of the auction in this bidder's hands, until its own is inserted; and
\* why two are active.
Bids(w) == slot[w].pc \in {"save", "outbid", "retire"}
Alone(w) == slot[w].pc = "save" => ActiveOrders(slot[w].auction.id) \subseteq {slot[w].active.id}
Rivals(o, p) ==
  /\ orders[o].status = "active" /\ orders[p].status = "active" /\ o < p
  /\ orders[o].auctionId = orders[p].auctionId
Replaces(w, o, p) ==
  /\ slot[w].pc \in {"outbid", "retire"} /\ slot[w].active.id = o /\ slot[w].new = p
  /\ slot[w].auction.id = orders[p].auctionId
Leading == (\A w \in Workers : Alone(w)) /\ \A o, p \in OrderIds : Rivals(o, p) => \E w \in Workers : Replaces(w, o, p)
LeadInv == SettlesAsBought /\ Owned /\ (faults = 0 => Leading)

\* No two bids of an auction are being handled at a time, and an order is revived
\* only when no other is active or about to be.
BiddersApart == \A v, w \in Workers : v # w /\ Bids(v) /\ Bids(w) => slot[v].auction.id # slot[w].auction.id
RevivesAlone ==
  revert.pc = "revive" =>
    /\ ActiveOrders(revert.previous.row.auctionId) \subseteq {revert.previous.id}
    /\ \A w \in Workers : Bids(w) => slot[w].auction.id # revert.previous.row.auctionId

\* A quiet step leaves the bidders where they are, or takes one on.
LEMMA QuietLeads ==
  ASSUME TypeInv, TypeInv', FactsInv, Leading, [Next]_vars, Quiet,
         \A w \in Workers : GoesOn(slot[w], slot'[w]) \/ (Alone(w)' /\ \A o, p \in OrderIds : Rivals(o, p)' /\ Replaces(w, o, p) => Replaces(w, o, p)')
  PROVE  Leading'
<1>1. ASSUME NEW w \in Workers PROVE Alone(w)'
  BY <1>1 DEF Quiet, Leading, Alone, ActiveOrders, OrdersOf, GoesOn
<1>2. ASSUME NEW o \in OrderIds, NEW p \in OrderIds, Rivals(o, p)' PROVE \E w \in Workers : Replaces(w, o, p)'
  <2>1. orders'[o] = orders[o] /\ orders'[p] = orders[p] /\ Rivals(o, p)
    BY <1>2 DEF Quiet, Rivals
  <2>2. PICK w \in Workers : Replaces(w, o, p)
    BY <2>1 DEF Leading
  <2> QED BY <1>2, <2>1, <2>2 DEF GoesOn, Replaces
<1> QED BY <1>1, <1>2 DEF Leading

\* The bid handler reads the active order its bid replaces.
LEMMA OrderLeads ==
  ASSUME TypeInv, TypeInv', FactsInv, Leading, [Next]_vars, BiddersApart', NEW v \in Workers, BidOrder(v)
  PROVE  Leading'
<1> USE DEF tableVars, At
<1>1. UNCHANGED <<orders, auctions>> /\ slot[v].pc = "order" /\ slot[v] \in Slot /\ slot \in [Workers -> Slot]
  BY DEF BidOrder, TypeInv, TypeOK
<1>2. \A w \in Workers : w # v => slot'[w] = slot[w]
  BY OtherSlots DEF Handle
<1>3. CASE Return(v, {}) \/ (Goto(v, "save") /\ ActiveOrders(slot[v].auction.id) = {})
  BY <1>1, <1>2, <1>3, Moves DEF Leading, Alone, Rivals, Replaces, ActiveOrders, OrdersOf
<1>4. ASSUME NEW o \in ActiveOrders(slot[v].auction.id), slot' = [slot EXCEPT ![v].pc = "save", ![v].active = CopyOf(o)]
      PROVE  Leading'
  <2>1. slot'[v].pc = "save" /\ slot'[v].active.id = o /\ slot'[v].auction = slot[v].auction /\ o \in OrderIds
    BY <1>1, <1>4 DEF Slot, CopyOf, ActiveOrders, OrdersOf
  <2>2. ASSUME NEW p \in ActiveOrders(slot[v].auction.id), p # o
        PROVE  FALSE
    <3>1. p \in OrderIds /\ (Rivals(o, p) \/ Rivals(p, o))
      BY <1>4, <2>1, <2>2 DEF ActiveOrders, OrdersOf, Rivals, OrderIds
    <3>2. PICK w \in Workers : slot[w].pc \in {"outbid", "retire"} /\ slot[w].auction.id = slot[v].auction.id
      BY <1>4, <2>1, <2>2, <3>1 DEF Leading, Replaces, ActiveOrders, OrdersOf
    <3> QED BY <1>1, <1>2, <2>1, <3>2 DEF BiddersApart, Bids
  <2>3. Alone(v)'
    BY <1>1, <2>1, <2>2 DEF Alone, ActiveOrders, OrdersOf
  <2> QED BY <1>1, <1>2, <2>1, <2>3 DEF Leading, Alone, Rivals, Replaces, ActiveOrders, OrdersOf
<1> QED BY <1>3, <1>4 DEF BidOrder

\* It inserts its own order, under an id above all others.
LEMMA SaveLeads ==
  ASSUME TypeInv, TypeInv', FactsInv, Leading, [Next]_vars, BiddersApart, NEW v \in Workers, BidSave(v)
  PROVE  Leading'
<1> USE DEF tableVars, At
<1>1. UNCHANGED auctions /\ slot[v].pc = "save" /\ slot[v] \in Slot /\ slot \in [Workers -> Slot] /\ orders \in [OrderIds -> OrderRow]
  BY DEF BidSave, TypeInv, TypeOK
<1>2. \A w \in Workers : w # v => slot'[w] = slot[w]
  BY OtherSlots DEF Handle
<1>3. CASE DeadLetter(v) /\ UNCHANGED orders
  <2>1. \A w \in Workers : GoesOn(slot[w], slot'[w])
    BY <1>1, <1>2, <1>3, Moves DEF GoesOn
  <2> QED BY <1>3, <2>1, QuietLeads DEF Quiet
<1>4. CASE HasAuction(slot[v].auction.id)
  <2>1. /\ slot'[v].pc = IF slot[v].active.id # 0 THEN "outbid" ELSE "feed"
        /\ slot'[v].new = nextOrder /\ slot'[v].active = slot[v].active /\ slot'[v].auction = slot[v].auction
    BY <1>1, <1>4 DEF Slot, BidSave, InsertOrder
  <2>2. /\ orders'[nextOrder].status = "active" /\ orders'[nextOrder].auctionId = slot[v].auction.id
        /\ \A o \in OrderIds \ {nextOrder} : orders'[o] = orders[o]
    BY <1>1, <1>4 DEF BidRow, BidSave, InsertOrder
  <2>3. \A o \in OrderIds : orders[o].status # "absent" => o < nextOrder
    BY DEF InTable, Remembered, FactsInv, Given
  <2>4. ASSUME NEW w \in Workers PROVE Alone(w)'
    <3>1. CASE w = v
      BY <2>1, <3>1 DEF Alone
    <3>2. CASE w # v /\ slot[w].pc = "save"
      <4>1. slot[w].auction.id # slot[v].auction.id
        BY <1>1, <3>2 DEF BiddersApart, Bids
      <4> QED BY <1>2, <2>2, <3>2, <4>1 DEF Leading, Alone, ActiveOrders, OrdersOf
    <3>3. CASE w # v /\ slot[w].pc # "save"
      BY <1>2, <3>3 DEF Alone
    <3> QED BY <3>1, <3>2, <3>3
  <2>5. ASSUME NEW o \in OrderIds, NEW p \in OrderIds, Rivals(o, p)', p = nextOrder
        PROVE  Replaces(v, o, p)'
    <3>1. o # nextOrder /\ orders[o].status = "active" /\ orders[o].auctionId = slot[v].auction.id
      BY <2>2, <2>5 DEF Rivals, OrderIds
    <3>2. o = slot[v].active.id
      BY <1>1, <3>1 DEF Leading, Alone, ActiveOrders, OrdersOf
    <3> QED BY <2>1, <2>2, <2>5, <3>2 DEF Replaces, OrderIds
  <2>6. ASSUME NEW o \in OrderIds, NEW p \in OrderIds, Rivals(o, p)', p # nextOrder
        PROVE  \E w \in Workers : Replaces(w, o, p)'
    <3>1. o # nextOrder
      BY <2>2, <2>3, <2>6 DEF Rivals, OrderIds
    <3>2. Rivals(o, p) /\ orders'[p] = orders[p]
      BY <2>2, <2>6, <3>1 DEF Rivals
    <3>3. PICK w \in Workers : Replaces(w, o, p)
      BY <3>2 DEF Leading
    <3>4. w # v
      BY <1>1, <3>3 DEF Replaces
    <3> QED BY <1>2, <3>2, <3>3, <3>4 DEF Replaces
  <2> QED BY <2>4, <2>5, <2>6 DEF Leading
<1> QED BY <1>3, <1>4 DEF BidSave

\* It tells the bidder of the order it replaced, and saves that order as inactive.
LEMMA RetireLeads ==
  ASSUME TypeInv, TypeInv', FactsInv, Owned, Leading, [Next]_vars, NEW v \in Workers, BidOutbid(v) \/ BidRetire(v)
  PROVE  Leading'
<1> USE DEF tableVars, At
<1>1. slot[v].pc \in {"outbid", "retire"} /\ slot[v] \in Slot /\ slot \in [Workers -> Slot] /\ orders \in [OrderIds -> OrderRow]
  BY DEF BidOutbid, BidRetire, TypeInv, TypeOK
<1>2. \A w \in Workers : w # v => slot'[w] = slot[w]
  BY OtherSlots DEF Handle
<1>3. slot'[v].pc # "save"
  BY Moves DEF BidOutbid, BidRetire
<1>4. Quiet
  BY <1>1 DEF BidOutbid, BidRetire, Quiet, SavedOrder, Slot, OrderCopy, OrderRow
<1>5. ASSUME NEW o \in OrderIds, NEW p \in OrderIds, Rivals(o, p)', Replaces(v, o, p)
      PROVE  Replaces(v, o, p)'
  <2>1. orders'[o] = orders[o] /\ orders'[p] = orders[p] /\ orders[o].status = "active" /\ orders[p].status = "active"
    BY <1>4, <1>5 DEF Quiet, Rivals
  <2>2. CASE BidOutbid(v)
    <3>1. HasAuction(slot[v].auction.id)
      BY <1>5, <2>1 DEF Owned, Replaces
    <3> QED BY <1>5, <2>1, <2>2, <3>1, Moves DEF BidOutbid, Replaces
  <2>3. CASE BidRetire(v)
    <3>1. orders' = SavedOrder(slot[v].active, "inactive")
      BY <1>5, <2>1, <2>3 DEF BidRetire, OrderSavable, Replaces
    <3>2. orders'[o].status = "inactive"
      BY <1>1, <1>5, <3>1 DEF SavedOrder, Replaces, Slot, OrderCopy, OrderRow
    <3> QED BY <2>1, <3>2
  <2> QED BY <2>2, <2>3
<1>6. \A w \in Workers : GoesOn(slot[w], slot'[w])
                        \/ (Alone(w)' /\ \A o, p \in OrderIds : Rivals(o, p)' /\ Replaces(w, o, p) => Replaces(w, o, p)')
  BY <1>2, <1>3, <1>5 DEF GoesOn, Alone
<1> QED BY <1>4, <1>6, QuietLeads

\* The rollback revives an order where no other is.
LEMMA ReviveLeads ==
  ASSUME TypeInv, TypeInv', Leading, RevivesAlone, RevertRevive
  PROVE  Leading'
<1> DEFINE c == revert.previous
<1>1. /\ UNCHANGED slot /\ revert.pc = "revive" /\ c \in OrderCopy
      /\ orders' = orders \/ orders' = SavedOrder(c, "active")
  BY DEF RevertRevive, TypeInv, TypeOK
<1>2. /\ \A o \in OrderIds : o # c.id => orders'[o] = orders[o]
      /\ orders' # orders /\ c.id \in OrderIds => orders'[c.id].auctionId = c.row.auctionId
  <2>1. c.row \in OrderRow /\ orders \in [OrderIds -> OrderRow]
    BY <1>1 DEF OrderCopy, TypeInv, TypeOK
  <2> DEFINE row == [c.row EXCEPT !.status = "active"]
  <2>2. row.auctionId = c.row.auctionId
    BY <2>1 DEF OrderRow
  <2>3. orders' = orders \/ orders' = [orders EXCEPT ![c.id] = row]
    BY <1>1 DEF SavedOrder
  <2> HIDE DEF row, c
  <2> QED BY <2>1, <2>2, <2>3
<1>3. CASE orders' = orders
  BY <1>1, <1>3 DEF Leading, Alone, Rivals, Replaces, ActiveOrders, OrdersOf
<1>4. CASE orders' # orders
  <2> HIDE DEF c
  <2>1. ActiveOrders(c.row.auctionId) \subseteq {c.id} /\ \A w \in Workers : Bids(w) => slot[w].auction.id # c.row.auctionId
    BY <1>1 DEF RevivesAlone, c
  <2>2. ASSUME NEW w \in Workers PROVE Alone(w)'
    BY <1>1, <1>2, <1>4, <2>1 DEF Leading, Alone, ActiveOrders, OrdersOf, Bids
  <2>3. ASSUME NEW o \in OrderIds, NEW p \in OrderIds, Rivals(o, p)' PROVE o # c.id /\ p # c.id
    BY <1>2, <1>4, <2>1, <2>3 DEF Rivals, ActiveOrders, OrdersOf, OrderIds
  <2>4. ASSUME NEW o \in OrderIds, NEW p \in OrderIds, Rivals(o, p)' PROVE \E w \in Workers : Replaces(w, o, p)'
    BY <1>1, <1>2, <2>3, <2>4 DEF Rivals, Replaces, Leading
  <2> QED BY <2>2, <2>4 DEF Leading
<1> QED BY <1>3, <1>4

LEMMA LeadStep ==
  ASSUME TypeInv, TypeInv', FactsInv, LeadInv, BiddersApart, BiddersApart', RevivesAlone, [Next]_vars
  PROVE  LeadInv'
<1>1. ASSUME faults' = 0
      PROVE  Leading'
  <2>1. Leading /\ SettlesAsBought /\ Owned /\ ~Crash /\ \A w \in Workers : ~HandlerFails(w)
    BY <1>1, FaultsCount DEF LeadInv
  <2>2. ASSUME NEW v \in Workers, Handle(v)
        PROVE  Leading'
    <3>1. CASE BidOrder(v) \/ BidSave(v) \/ BidOutbid(v) \/ BidRetire(v)
      BY <2>1, <3>1, OrderLeads, SaveLeads, RetireLeads
    <3>2. CASE ~(BidOrder(v) \/ BidSave(v) \/ BidOutbid(v) \/ BidRetire(v))
      <4>1. Quiet /\ \A w \in Workers : GoesOn(slot[w], slot'[w])
        BY <2>2, <3>2, PlainStep, OtherSlots DEF GoesOn
      <4> QED BY <2>1, <4>1, QuietLeads
    <3> QED BY <3>1, <3>2
  <2>3. CASE RevertRevive
    BY <2>1, <2>3, ReviveLeads
  <2>4. CASE ~RevertRevive /\ ~\E v \in Workers : Handle(v)
    <3>1. Quiet /\ UNCHANGED slot
      BY <2>1, <2>4, OthersQuiet
    <3>2. \A w \in Workers : GoesOn(slot[w], slot'[w])
      BY <3>1 DEF GoesOn
    <3> QED BY <2>1, <3>1, <3>2, QuietLeads
  <2> QED BY <2>2, <2>3, <2>4
<1> QED BY <1>1, SettlesStep, OwnedStep DEF LeadInv

LEMMA LeadInit == Init => SettlesAsBought /\ Owned /\ LeadInv
<1> SUFFICES ASSUME Init PROVE SettlesAsBought /\ Owned /\ LeadInv
  OBVIOUS
<1>1. \A o \in OrderIds : orders[o].status = "absent"
  BY DEF Init, NoOrder
<1>2. \A w \in Workers : slot[w].pc = "idle"
  BY DEF Init, IdleSlot
<1> QED  BY <1>1, <1>2 DEF LeadInv, Leading, Alone, Rivals, Owned, SettlesAsBought, Init

\* An auction has two active orders only between a bid's insert and its save of
\* the order it replaces: for any auctions, bidders, blocks in hand, promises,
\* reverts and runs of the cron, as long as nothing crashed or failed, unless one
\* of two races happens. They are in the premise: two bids of one auction are
\* being handled at a time, or the rollback revives an order while a bid of its
\* auction is being handled or leads.
THEOREM OneOrderLeads == Spec /\ []BiddersApart /\ []RevivesAlone => []OneActiveOrder
<1>1. LeadInv => OneActiveOrder
  <2> SUFFICES ASSUME LeadInv, faults = 0, NEW id, NEW o \in ActiveOrders(id), NEW p \in ActiveOrders(id), o < p
               PROVE  \E w \in Workers : slot[w].pc \in {"outbid", "retire"} /\ slot[w].active.id = o /\ slot[w].new = p
    BY DEF OneActiveOrder
  <2>1. o \in OrderIds /\ p \in OrderIds /\ Rivals(o, p)
    BY DEF ActiveOrders, OrdersOf, Rivals
  <2> QED  BY <2>1 DEF LeadInv, Leading, Replaces
<1>2. TypeInv /\ TypeInv' /\ FactsInv /\ LeadInv /\ BiddersApart /\ BiddersApart' /\ RevivesAlone /\ [Next]_vars => LeadInv'
  BY LeadStep
<1> QED  BY <1>1, <1>2, LeadInit, TypeInit, TypeStep, RevertedStep, FactsInit, FactsStep, PTL DEF Spec
-----------------------------------------------------------------------------
(* No bid is lost, when no two blocks in hand are about the same auction and  *)
(* none was reverted, whatever crashes or fails. The invariant follows a bid  *)
(* from the chain to its order: the blocks of the queue are segments of the   *)
(* chain's log, in order; each handler is at a position of the log, and every *)
(* bid it has passed has its order, unless its auction has no row; blocks     *)
(* about the same auction are taken in the order of the chain, so an auction  *)
(* gets its row at its start event, before any of its bids is passed.         *)

IsBid(e) == e.kind = "bid"

\* Blocks are in order; an auction starts once, and each of its bids is higher.
ChainFine ==
  /\ \A i \in DOMAIN log : log[i].hash <= lastHash
  /\ \A i, j \in DOMAIN log : i < j => log[i].hash <= log[j].hash
  /\ \A i, j \in DOMAIN log : i < j /\ log[i].event.a = log[j].event.a =>
       /\ log[j].event.kind # "start"
       /\ IsBid(log[i].event) /\ IsBid(log[j].event) => log[i].event.amount < log[j].event.amount
  /\ \A i \in DOMAIN log : IsBid(log[i].event) => log[i].event.a \notin Sft
  /\ \A i \in DOMAIN log : log[i].event.kind = "buy" => log[i].event.a \in Sft

\* The highest bid is one: a bounded set of numbers has a maximum.
LEMMA MaxExists ==
  ASSUME NEW n \in Nat, NEW S \in SUBSET (0..n), S # {}
  PROVE  Max(S) \in S /\ \A y \in S : y <= Max(S)
<1> DEFINE T == {n - x : x \in S}
<1>1. T \subseteq Nat /\ T # {}
  <2>1. \A x \in S : x \in Nat /\ x <= n /\ n - x \in Nat
    OBVIOUS
  <2> QED BY <2>1
<1>2. PICK m \in T : \A y \in T : ~(<<y, m>> \in OpToRel(<, Nat))
  BY <1>1, NatLessThanWellFounded, WFMin
<1>3. \A y \in T : ~(y < m)
  BY <1>1, <1>2 DEF OpToRel
<1>4. PICK x \in S : m = n - x
  BY <1>2
<1>5. \A y \in S : x >= y
  BY <1>3, <1>4
<1> HIDE DEF T
<1> QED BY <1>5 DEF Max

LEMMA SeqElements ==
  ASSUME NEW S, NEW q \in Seq(S)
  PROVE  Len(q) \in Nat /\ DOMAIN q = 1..Len(q) /\ \A i \in DOMAIN q : q[i] \in S
OBVIOUS

LEMMA LogTyped ==
  ASSUME TypeInv
  PROVE  /\ Len(log) \in Nat /\ DOMAIN log = 1..Len(log) /\ lastHash \in Nat
         /\ \A i \in DOMAIN log : log[i] \in [hash : Nat, event : Event]
         /\ \A i \in DOMAIN log : log[i].hash \in Nat /\ log[i].event \in Event
<1> DEFINE Entries == [hash : Nat, event : Event]
<1>1. log \in Seq(Entries) /\ lastHash \in Nat
  BY DEF TypeInv, TypeOK
<1> HIDE DEF Entries
<1>2. Len(log) \in Nat /\ DOMAIN log = 1..Len(log) /\ \A i \in DOMAIN log : log[i] \in Entries
  BY <1>1, SeqElements
<1> QED BY <1>1, <1>2 DEF Entries

LEMMA LegalFacts ==
  ASSUME TypeInv, NEW e \in Event, Legal(e)
  PROVE  /\ e.kind = "start" => \A i \in DOMAIN log : log[i].event.a # e.a
         /\ IsBid(e) => e.a \notin Sft /\ \A i \in DOMAIN log :
              log[i].event.a = e.a /\ IsBid(log[i].event) => log[i].event.amount < e.amount
         /\ e.kind = "buy" => e.a \in Sft
<1>1. log \in Seq([hash : Nat, event : Event]) /\ \A i \in DOMAIN log : log[i].event \in Event
  BY LogTyped DEF TypeInv, TypeOK
<1>2. ASSUME IsBid(e), NEW i \in DOMAIN log, log[i].event.a = e.a, IsBid(log[i].event)
      PROVE  log[i].event.amount < e.amount
  <2> DEFINE S == Amounts(e.a, "bid") \cup {0}
  <2>1. S \in SUBSET (0..MaxAmount) /\ S # {}
    BY <1>1, BoundsAssumption DEF Amounts, Event
  <2>2. log[i].event.amount \in S
    BY <1>2 DEF Amounts, IsBid
  <2>3. Best(e.a) = Max(S)
    BY DEF Best
  <2> HIDE DEF S
  <2>4. Max(S) \in S /\ \A y \in S : y <= Max(S)
    BY <2>1, MaxExists, BoundsAssumption
  <2>5. log[i].event.amount \in Nat /\ Best(e.a) \in Nat /\ e.amount \in Nat
    <3>1. S \subseteq Nat
      BY <2>1, BoundsAssumption
    <3>2. e.amount \in Nat
      BY <1>1, BoundsAssumption DEF Event
    <3> QED BY <2>2, <2>3, <2>4, <3>1, <3>2
  <2> QED BY <2>5, <2>2, <2>3, <2>4, <1>2 DEF Legal, IsBid
<1> QED BY <1>2, <1>1 DEF Legal, IsBid, Happened, Event

\* The event that is emitted is the last of the log, in the last block.
LEMMA EmitLog ==
  ASSUME TypeInv, NEW e \in Event, Emit(e)
  PROVE  /\ Len(log') = Len(log) + 1 /\ Len(log) \in Nat /\ DOMAIN log' = 1..(Len(log) + 1)
         /\ \A i \in DOMAIN log : i \in DOMAIN log' /\ log'[i] = log[i]
         /\ log'[Len(log) + 1].hash = lastHash' /\ log'[Len(log) + 1].event = e
         /\ lastHash' \in {lastHash, lastHash + 1} /\ lastHash \in Nat
         /\ DOMAIN log = 1..Len(log) /\ \A i \in DOMAIN log : log[i] \in [hash : Nat, event : Event]
<1> DEFINE new == [hash |-> lastHash', event |-> e]
<1>1. log \in Seq([hash : Nat, event : Event]) /\ lastHash \in Nat
  BY DEF TypeInv, TypeOK
<1> HIDE DEF new
<1> QED BY <1>1, LogTyped DEF Emit

LEMMA EmitChain ==
  ASSUME TypeInv, ChainFine, NEW e \in Event, Emit(e)
  PROVE  ChainFine'
<1> DEFINE n == Len(log) + 1
<1>1. /\ n \in Nat /\ DOMAIN log' = 1..n /\ DOMAIN log = 1..(n - 1)
      /\ \A i \in DOMAIN log : i \in DOMAIN log' /\ log'[i] = log[i]
      /\ log'[n].hash = lastHash' /\ log'[n].event = e
      /\ lastHash' \in {lastHash, lastHash + 1} /\ lastHash \in Nat
      /\ \A i \in DOMAIN log : log[i].hash \in Nat
  BY EmitLog
<1> HIDE DEF n
<1>2. \A i \in DOMAIN log' : i = n \/ i \in DOMAIN log
  BY <1>1
<1>3. \A i, j \in DOMAIN log' : i < j => i \in DOMAIN log
  BY <1>1
<1>4. ASSUME NEW i \in DOMAIN log', NEW j \in DOMAIN log', i < j, log'[i].event.a = log'[j].event.a
      PROVE  /\ log'[j].event.kind # "start"
             /\ IsBid(log'[i].event) /\ IsBid(log'[j].event) => log'[i].event.amount < log'[j].event.amount
  BY <1>1, <1>3, <1>4, <1>2, LegalFacts DEF Emit, ChainFine
<1>5. /\ \A i \in DOMAIN log' : IsBid(log'[i].event) => log'[i].event.a \notin Sft
      /\ \A i \in DOMAIN log' : log'[i].event.kind = "buy" => log'[i].event.a \in Sft
  BY <1>1, <1>2, LegalFacts DEF ChainFine, Emit
<1> QED BY <1>4, <1>5, <1>1, <1>2, <1>3 DEF ChainFine

\* A block of the queue is a segment of the log, the whole of its hash, from b on.
Whole(block, b, chain) ==
  /\ \A k \in DOMAIN block.events :
       b + k \in DOMAIN chain /\ chain[b + k] = [hash |-> block.hash, event |-> block.events[k]]
  /\ \A i \in DOMAIN chain : chain[i].hash = block.hash => b < i /\ i <= b + Len(block.events)

QueueFine ==
  /\ \A k \in DOMAIN queue : queue[k].hash \in 1..lastHash /\ \E b \in 0..Len(log) : Whole(queue[k], b, log)
  /\ \A k, l \in DOMAIN queue : k < l => queue[k].hash < queue[l].hash
  /\ \A h \in done : h <= lastHash /\ \A k \in DOMAIN queue : h # queue[k].hash

\* A block whose hash is not the new event's stays whole.
LEMMA WholeStays ==
  ASSUME TypeInv, NEW e \in Event, Emit(e), NEW block \in Block, block.hash # lastHash',
         NEW b \in 0..Len(log), Whole(block, b, log)
  PROVE  b \in 0..Len(log') /\ Whole(block, b, log')
  BY EmitLog DEF Whole

LEMMA QueueTyped ==
  ASSUME TypeInv
  PROVE  /\ Len(queue) \in Nat /\ DOMAIN queue = 1..Len(queue)
         /\ \A k \in DOMAIN queue : queue[k] \in Block
         /\ \A k \in DOMAIN queue : /\ queue[k].hash \in Nat /\ queue[k].events \in Seq(Event)
                                    /\ Len(queue[k].events) \in Nat \ {0}
<1>1. Len(queue) \in Nat /\ DOMAIN queue = 1..Len(queue) /\ \A k \in DOMAIN queue : queue[k] \in Block
  BY SeqElements DEF TypeInv, TypeOK
<1>2. ASSUME NEW events \in Seq(Event) \ {<<>>} PROVE Len(events) \in Nat \ {0}
  BY <1>2
<1> QED BY <1>1, <1>2 DEF Block

LEMMA OpenQueue ==
  ASSUME TypeInv, ChainFine, QueueFine, NEW e \in Event, Emit(e),
         lastHash' = lastHash + 1, queue' = Append(queue, [hash |-> lastHash', events |-> <<e>>])
  PROVE  QueueFine'
<1> DEFINE new == [hash |-> lastHash', events |-> <<e>>]
           n == Len(queue) + 1
<1>1. /\ n \in Nat /\ DOMAIN queue = 1..(n - 1) /\ DOMAIN queue' = 1..n
      /\ \A k \in DOMAIN queue : queue'[k] = queue[k]
      /\ queue'[n] = new
  <2>1. queue \in Seq(Block)
    BY DEF TypeInv, TypeOK
  <2> HIDE DEF new
  <2>2. queue' = Append(queue, new)
    BY DEF new
  <2> QED BY <2>1, <2>2
<1>2. /\ Len(log') = Len(log) + 1 /\ Len(log) \in Nat /\ DOMAIN log' = 1..(Len(log) + 1)
      /\ \A i \in DOMAIN log : i \in DOMAIN log' /\ log'[i] = log[i]
      /\ log'[Len(log) + 1].hash = lastHash' /\ log'[Len(log) + 1].event = e
      /\ DOMAIN log = 1..Len(log) /\ lastHash \in Nat /\ \A i \in DOMAIN log : log[i] \in [hash : Nat, event : Event]
  BY EmitLog
<1>3. log'[Len(log) + 1] = [hash |-> lastHash', event |-> e]
  <2> DEFINE x == [hash |-> lastHash', event |-> e]
  <2>1. log' = Append(log, x) /\ log \in Seq([hash : Nat, event : Event])
    BY DEF Emit, TypeInv, TypeOK
  <2> HIDE DEF x
  <2>2. log'[Len(log) + 1] = x
    BY <2>1
  <2> QED BY <2>2 DEF x
<1>4. \A k \in DOMAIN queue : queue[k] \in Block /\ queue[k].hash \in 1..lastHash
  BY QueueTyped DEF QueueFine
<1>5. ASSUME NEW k \in DOMAIN queue
      PROVE  \E b \in 0..Len(log') : Whole(queue'[k], b, log')
  <2>1. PICK block \in Block : block = queue[k]
    BY <1>4
  <2>2. PICK b \in 0..Len(log) : Whole(block, b, log)
    BY <2>1 DEF QueueFine
  <2>3. block.hash # lastHash'
    BY <1>2, <1>4, <2>1
  <2>4. b \in 0..Len(log') /\ Whole(block, b, log')
    BY <2>2, <2>3, WholeStays
  <2>5. queue'[k] = block
    BY <1>1, <2>1
  <2> QED BY <2>4, <2>5
<1>6. Whole(new, Len(log), log')
  <2>1. new.hash = lastHash' /\ new.events = <<e>> /\ DOMAIN new.events = {1} /\ Len(new.events) = 1
    OBVIOUS
  <2>2. \A i \in DOMAIN log : log[i].hash # lastHash'
    BY <1>2 DEF ChainFine
  <2>3. \A i \in DOMAIN log' : i = Len(log) + 1 \/ i \in DOMAIN log
    BY <1>2
  <2>4. \A i \in DOMAIN log' : log'[i].hash = new.hash => Len(log) < i /\ i <= Len(log) + Len(new.events)
    BY <1>2, <2>1, <2>2, <2>3
  <2>5. \A k \in DOMAIN new.events : Len(log) + k \in DOMAIN log'
          /\ log'[Len(log) + k] = [hash |-> new.hash, event |-> new.events[k]]
    BY <1>2, <1>3, <2>1
  <2> HIDE DEF new
  <2> QED BY <2>4, <2>5 DEF Whole
<1>7. Len(log) \in 0..Len(log') /\ new.hash = lastHash'
  BY <1>2
<1> HIDE DEF new, n
<1>8. \A k \in DOMAIN queue' : k \in DOMAIN queue \/ k = n
  BY <1>1
<1>9. \A k \in DOMAIN queue' : queue'[k].hash \in 1..lastHash' /\ \E b \in 0..Len(log') : Whole(queue'[k], b, log')
  <2>1. \A k \in DOMAIN queue : queue'[k].hash \in 1..lastHash'
    BY <1>1, <1>2, <1>4
  <2>2. queue'[n].hash \in 1..lastHash' /\ \E b \in 0..Len(log') : Whole(queue'[n], b, log')
    BY <1>1, <1>2, <1>6, <1>7
  <2> QED BY <1>5, <1>8, <2>1, <2>2
<1>10. \A k, l \in DOMAIN queue' : k < l => queue'[k].hash < queue'[l].hash
  <2> SUFFICES ASSUME NEW k \in DOMAIN queue', NEW l \in DOMAIN queue', k < l PROVE queue'[k].hash < queue'[l].hash
    OBVIOUS
  <2>1. k \in DOMAIN queue
    BY <1>1
  <2> QED BY <1>1, <1>2, <1>4, <1>7, <1>8, <2>1 DEF QueueFine
<1>11. \A h \in done' : h <= lastHash' /\ \A k \in DOMAIN queue' : h # queue'[k].hash
  <2>1. done' = done /\ done \subseteq Nat
    BY DEF Emit, TypeInv, TypeOK
  <2> QED BY <1>1, <1>2, <1>7, <1>8, <2>1 DEF QueueFine
<1> QED BY <1>9, <1>10, <1>11 DEF QueueFine

LEMMA JoinQueue ==
  ASSUME TypeInv, ChainFine, QueueFine, NEW e \in Event, Emit(e), queue # <<>>, log # <<>>,
         queue[Len(queue)].hash = lastHash, log[Len(log)].hash = lastHash, lastHash' = lastHash,
         queue' = [queue EXCEPT ![Len(queue)].events = Append(@, e)]
  PROVE  QueueFine'
<1> DEFINE n == Len(queue)
           old == queue[n].events
           new == [queue[n] EXCEPT !.events = Append(old, e)]
<1>1. /\ n \in DOMAIN queue /\ DOMAIN queue = 1..n /\ n \in Nat /\ DOMAIN queue' = DOMAIN queue
      /\ queue'[n] = new /\ \A k \in DOMAIN queue : k # n => queue'[k] = queue[k]
  <2>1. n \in Nat /\ DOMAIN queue = 1..n /\ n # 0
    <3>1. queue \in Seq(Block)
      BY DEF TypeInv, TypeOK
    <3> QED BY <3>1
  <2> QED BY <2>1
<1>2. old \in Seq(Event) /\ queue[n] \in Block
  BY <1>1, QueueTyped
<1>3. new.hash = lastHash /\ new.events = Append(old, e)
  BY <1>2 DEF Block
<1>4. /\ Len(log') = Len(log) + 1 /\ Len(log) \in Nat /\ DOMAIN log' = 1..(Len(log) + 1)
      /\ \A i \in DOMAIN log : i \in DOMAIN log' /\ log'[i] = log[i]
      /\ log'[Len(log) + 1].hash = lastHash' /\ log'[Len(log) + 1].event = e
      /\ DOMAIN log = 1..Len(log) /\ lastHash \in Nat
  BY EmitLog
<1>5. log'[Len(log) + 1] = [hash |-> lastHash, event |-> e]
  <2> DEFINE x == [hash |-> lastHash, event |-> e]
  <2>1. log' = Append(log, x) /\ log \in Seq([hash : Nat, event : Event])
    BY DEF Emit, TypeInv, TypeOK
  <2> HIDE DEF x
  <2>2. log'[Len(log) + 1] = x
    BY <2>1
  <2> QED BY <2>2 DEF x
<1>6. PICK b \in 0..Len(log) : Whole(queue[n], b, log)
  BY <1>1 DEF QueueFine
<1>7. Len(log) = b + Len(old)
  <2>1. Len(old) \in Nat \ {0} /\ DOMAIN old = 1..Len(old)
    BY <1>1, <1>2, QueueTyped, SeqElements
  <2>2. b + Len(old) \in DOMAIN log
    <3>1. \A k \in DOMAIN old : b + k \in DOMAIN log
      BY <1>6 DEF Whole
    <3>2. Len(old) \in DOMAIN old
      BY <2>1
    <3> QED BY <3>1, <3>2
  <2>3. Len(log) \in DOMAIN log
    <3>1. log \in Seq([hash : Nat, event : Event])
      BY DEF TypeInv, TypeOK
    <3>2. Len(log) # 0
      BY <3>1
    <3> QED BY <1>4, <3>2
  <2>4. Len(log) <= b + Len(old)
    BY <1>6, <2>3 DEF Whole
  <2> QED BY <1>4, <2>1, <2>2, <2>4
<1>8. Whole(new, b, log')
  <2>1. /\ Len(new.events) = Len(old) + 1 /\ DOMAIN new.events = 1..(Len(old) + 1) /\ Len(old) \in Nat
        /\ \A k \in DOMAIN old : new.events[k] = old[k]
        /\ new.events[Len(old) + 1] = e /\ DOMAIN old = 1..Len(old)
    BY <1>2, <1>3
  <2>2. \A k \in DOMAIN new.events : k \in DOMAIN old \/ k = Len(old) + 1
    BY SMTT(30), <2>1
  <2>3. \A i \in DOMAIN log' : i = Len(log) + 1 \/ i \in DOMAIN log
    BY <1>4
  <2> HIDE DEF new, old
  <2>4. queue[n].hash = lastHash /\ \A k \in DOMAIN old : b + k \in DOMAIN log /\ log[b + k] = [hash |-> lastHash, event |-> old[k]]
    BY <1>6 DEF Whole, old
  <2>5. ASSUME NEW k \in DOMAIN new.events
        PROVE  b + k \in DOMAIN log' /\ log'[b + k] = [hash |-> new.hash, event |-> new.events[k]]
    <3>1. CASE k \in DOMAIN old
      BY <1>3, <1>4, <2>1, <2>4, <3>1
    <3>2. CASE k = Len(old) + 1
      <4>1. b + k = Len(log) + 1
        BY <1>7, <2>1, <3>2
      <4> QED BY <1>3, <1>4, <1>5, <2>1, <3>2, <4>1
    <3> QED BY <2>2, <3>1, <3>2
  <2>6. \A i \in DOMAIN log' : log'[i].hash = new.hash => b < i /\ i <= b + Len(new.events)
    <3>1. \A i \in DOMAIN log : log[i].hash = lastHash => b < i /\ i <= b + Len(old)
      BY <1>6, <2>4 DEF Whole, old
    <3>2. new.hash = lastHash /\ Len(new.events) = Len(old) + 1 /\ Len(old) \in Nat /\ b \in Nat
      BY <1>3, <1>4, <2>1
    <3> SUFFICES ASSUME NEW i \in DOMAIN log', log'[i].hash = new.hash
                 PROVE  b < i /\ i <= b + Len(new.events)
      OBVIOUS
    <3>3. CASE i \in DOMAIN log
      <4>1. log[i].hash = lastHash
        BY <1>4, <3>2, <3>3
      <4>2. b < i /\ i <= b + Len(old) /\ i \in Nat
        BY <1>4, <3>1, <3>3, <4>1
      <4> QED BY <3>2, <4>2
    <3>4. CASE i = Len(log) + 1
      BY <1>7, <3>2, <3>4
    <3> QED BY <2>3, <3>3, <3>4
  <2> QED BY <2>5, <2>6 DEF Whole
<1> HIDE DEF new, old
<1>9. ASSUME NEW k \in DOMAIN queue, k # n
      PROVE  queue[k].hash < lastHash /\ \E d \in 0..Len(log') : Whole(queue'[k], d, log')
  <2>1. k < n
    BY <1>1, <1>9
  <2>2. queue[k].hash < lastHash
    BY <1>1, <2>1 DEF QueueFine
  <2>3. PICK block \in Block : block = queue[k]
    BY QueueTyped
  <2>4. PICK d \in 0..Len(log) : Whole(block, d, log)
    BY <2>3 DEF QueueFine
  <2>5. block.hash # lastHash'
    BY <1>4, <2>2, <2>3, QueueTyped
  <2>6. d \in 0..Len(log') /\ Whole(block, d, log')
    BY <2>4, <2>5, WholeStays
  <2>7. queue'[k] = block
    BY <1>1, <1>9, <2>3
  <2> QED BY <2>2, <2>6, <2>7
<1>10. \A k \in DOMAIN queue' : queue'[k].hash = queue[k].hash
  BY <1>1, <1>3
<1>11. \A k \in DOMAIN queue' : queue'[k].hash \in 1..lastHash' /\ \E d \in 0..Len(log') : Whole(queue'[k], d, log')
  <2>1. b \in 0..Len(log')
    BY <1>4
  <2>2. \A k \in DOMAIN queue' : queue'[k].hash \in 1..lastHash'
    BY <1>1, <1>10 DEF QueueFine
  <2>3. \E d \in 0..Len(log') : Whole(queue'[n], d, log')
    BY <1>1, <1>8, <2>1
  <2> QED BY <1>1, <1>9, <2>2, <2>3
<1>12. /\ \A k, l \in DOMAIN queue' : k < l => queue'[k].hash < queue'[l].hash
       /\ \A h \in done' : h <= lastHash' /\ \A k \in DOMAIN queue' : h # queue'[k].hash
  <2>1. done' = done
    BY DEF Emit
  <2> QED BY <1>1, <1>10, <2>1 DEF QueueFine
<1> QED BY <1>11, <1>12 DEF QueueFine

LEMMA EmitQueue ==
  ASSUME TypeInv, ChainFine, QueueFine, NEW e \in Event, Emit(e)
  PROVE  QueueFine'
BY OpenQueue, JoinQueue DEF Emit

LEMMA RemoveIs ==
  ASSUME NEW S, NEW q \in Seq(S), NEW i \in DOMAIN q
  PROVE  /\ DOMAIN RemoveAt(q, i) = 1..(Len(q) - 1)
         /\ \A k \in 1..(Len(q) - 1) : RemoveAt(q, i)[k] = q[IF k < i THEN k ELSE k + 1]
<1> DEFINE l == SubSeq(q, 1, i - 1)
           r == SubSeq(q, i + 1, Len(q))
<1>1. Len(q) \in Nat /\ i \in 1..Len(q) /\ \A k \in 1..Len(q) : q[k] \in S
  OBVIOUS
<1>2. l \in Seq(S) /\ Len(l) = i - 1 /\ \A k \in 1..(i - 1) : l[k] = q[k]
  OBVIOUS
<1>3. r \in Seq(S) /\ Len(r) = Len(q) - i /\ \A k \in 1..(Len(q) - i) : r[k] = q[k + i]
  OBVIOUS
<1>4. RemoveAt(q, i) = l \o r
  BY DEF RemoveAt
<1> HIDE DEF l, r
<1>5. PICK c : c = l \o r
  OBVIOUS
<1>6. c \in Seq(S) /\ Len(c) = Len(l) + Len(r)
  BY <1>2, <1>3, <1>5, ConcatProperties
<1>7. \A k \in 1..(Len(l) + Len(r)) : c[k] = IF k <= Len(l) THEN l[k] ELSE r[k - Len(l)]
  BY <1>2, <1>3, <1>5, ConcatProperties
<1>8. Len(l) + Len(r) = Len(q) - 1 /\ DOMAIN c = 1..(Len(q) - 1)
  BY <1>1, <1>2, <1>3, <1>6
<1>9. ASSUME NEW k \in 1..(Len(q) - 1), k < i PROVE c[k] = q[k]
  <2>1. k \in 1..(i - 1) /\ k <= Len(l)
    BY <1>1, <1>2, <1>9
  <2> QED BY <1>2, <1>7, <1>8, <2>1
<1>10. ASSUME NEW k \in 1..(Len(q) - 1), ~(k < i) PROVE c[k] = q[k + 1]
  <2>1. k - (i - 1) \in 1..(Len(q) - i) /\ k - (i - 1) + i = k + 1 /\ ~(k <= i - 1)
    BY <1>1, <1>10
  <2> QED BY <1>1, <1>2, <1>3, <1>7, <1>8, <1>10, <2>1
<1> QED BY <1>4, <1>5, <1>8, <1>9, <1>10

\* The block a worker is at leaves the queue, and no other.
LEMMA Dropped ==
  ASSUME TypeInv, QueueFine, NEW w \in Workers, Dequeue(w)
  PROVE  /\ \E j \in DOMAIN queue : queue[j].hash = slot[w].hash
         /\ \A k \in DOMAIN queue' : \E j \in DOMAIN queue : queue'[k] = queue[j] /\ queue[j].hash # slot[w].hash
         /\ \A j \in DOMAIN queue : queue[j].hash # slot[w].hash => \E k \in DOMAIN queue' : queue'[k] = queue[j]
         /\ \A k, l \in DOMAIN queue' : k < l => queue'[k].hash < queue'[l].hash
<1>1. Len(queue) \in Nat /\ DOMAIN queue = 1..Len(queue) /\ \A k \in DOMAIN queue : queue[k].hash \in Nat
  BY QueueTyped
<1>2. PICK i \in DOMAIN queue : queue[i].hash = slot[w].hash /\ queue' = RemoveAt(queue, i)
  BY DEF Dequeue
<1> DEFINE from(k) == IF k < i THEN k ELSE k + 1
<1>3. /\ DOMAIN queue' = 1..(Len(queue) - 1)
      /\ \A k \in DOMAIN queue' : queue'[k] = queue[from(k)]
  BY <1>1, <1>2, RemoveIs DEF TypeInv, TypeOK
<1>4. \A k \in DOMAIN queue' : from(k) \in DOMAIN queue /\ from(k) # i
  BY <1>1, <1>3
<1>5. \A k, l \in DOMAIN queue' : k < l => from(k) < from(l)
  BY <1>1, <1>3
<1>6. \A j \in DOMAIN queue : j # i => queue[j].hash # queue[i].hash
  BY <1>1 DEF QueueFine
<1>7. ASSUME NEW j \in DOMAIN queue, j # i PROVE \E k \in DOMAIN queue' : from(k) = j
  <2>1. CASE j < i
    BY <1>1, <1>3, <2>1
  <2>2. CASE i < j
    <3>1. j - 1 \in DOMAIN queue' /\ from(j - 1) = j
      BY <1>1, <1>3, <2>2
    <3> QED BY <3>1
  <2> QED BY <1>1, <1>7, <2>1, <2>2
<1> HIDE DEF from
<1>8. \A k, l \in DOMAIN queue' : k < l => queue'[k].hash < queue'[l].hash
  BY <1>3, <1>4, <1>5 DEF QueueFine
<1>9. \A k \in DOMAIN queue' : \E j \in DOMAIN queue : queue'[k] = queue[j] /\ queue[j].hash # slot[w].hash
  BY <1>2, <1>3, <1>4, <1>6
<1>10. \A j \in DOMAIN queue : queue[j].hash # slot[w].hash => \E k \in DOMAIN queue' : queue'[k] = queue[j]
  BY <1>2, <1>3, <1>7
<1> QED BY <1>2, <1>8, <1>9, <1>10

LEMMA DropQueue ==
  ASSUME TypeInv, QueueFine, NEW w \in Workers, Dequeue(w), UNCHANGED <<log, lastHash>>, done' \in {done, done \cup {slot[w].hash}}
  PROVE  QueueFine'
<1>1. \A k \in DOMAIN queue' : queue'[k].hash \in 1..lastHash' /\ \E b \in 0..Len(log') : Whole(queue'[k], b, log')
  BY Dropped DEF QueueFine
<1>2. \A h \in done' : h <= lastHash' /\ \A k \in DOMAIN queue' : h # queue'[k].hash
  <2>1. slot[w].hash <= lastHash
    BY Dropped DEF QueueFine
  <2> QED BY <2>1, Dropped DEF QueueFine
<1> QED BY <1>1, <1>2, Dropped DEF QueueFine

-----------------------------------------------------------------------------
\* The rows that promises and the cron remember, and will save whole.
SavedRows == {t.row : t \in {u \in tasks : u.task = "saveAuction"}} \cup cron.ended

\* A row that is there has an id of its own, which every copy of it has as well.
Known(r) == r.id # 0 /\ auctions[r.a].id = r.id
RowsFine ==
  /\ \A a \in Auctions : auctions[a].a = a /\ auctions[a].id < nextAuction
  /\ \A a \in Auctions : auctions[a].id = 0 => auctions[a].status = "absent"
  /\ \A a, b \in Auctions : a # b /\ auctions[a].id # 0 => auctions[a].id # auctions[b].id
  /\ \A r \in SavedRows : Known(r)

LEMMA RowsTyped ==
  ASSUME TypeInv
  PROVE  /\ \A r \in SavedRows : r \in AuctionRow
         /\ \A a \in Auctions : auctions[a] \in AuctionRow
         /\ auctions \in [Auctions -> AuctionRow] /\ nextAuction \in Nat \ {0}
<1>1. \A t \in tasks : t.task = "saveAuction" => t.row \in AuctionRow
  BY DEF TypeInv, TypeOK, Task
<1>2. cron.ended \subseteq AuctionRow
  BY DEF TypeInv, TypeOK
<1> QED BY <1>1, <1>2 DEF SavedRows, TypeInv, TypeOK

\* Saving remembered rows changes no id.
LEMMA SavedAllRows ==
  ASSUME TypeInv, RowsFine, NEW rows \in SUBSET AuctionRow, \A r \in rows : Known(r),
         auctions' = SavedAll(rows), nextAuction' = nextAuction, SavedRows' \subseteq SavedRows
  PROVE  RowsFine' /\ \A a \in Auctions : auctions'[a].id = auctions[a].id
  BY RowsTyped DEF SavedAll, Known, RowsFine, AuctionRow

\* The table stays, and the rows that are remembered now are copies of its rows.
LEMMA KnownRows ==
  ASSUME RowsFine, UNCHANGED <<auctions, nextAuction>>, \A r \in SavedRows' : r \in SavedRows \/ Known(r)
  PROVE  RowsFine' /\ \A a \in Auctions : auctions'[a].id = auctions[a].id
BY DEF RowsFine, Known

\* A task that is started, or comes of another.
LEMMA StartsRows ==
  ASSUME RowsFine, UNCHANGED <<auctions, nextAuction, cron>>, NEW started, tasks' \subseteq tasks \cup started,
         \A t \in started : t.task = "saveAuction" => Known(t.row)
  PROVE  RowsFine' /\ \A a \in Auctions : auctions'[a].id = auctions[a].id
<1>1. \A r \in SavedRows' : r \in SavedRows \/ Known(r)
  BY DEF SavedRows
<1> QED BY <1>1, KnownRows

LEMMA NoStartsRows ==
  ASSUME RowsFine, UNCHANGED <<auctions, nextAuction, cron>>, tasks' \subseteq tasks
  PROVE  RowsFine' /\ \A a \in Auctions : auctions'[a].id = auctions[a].id
<1>1. \A r \in SavedRows' : r \in SavedRows
  BY DEF SavedRows
<1> QED BY <1>1, KnownRows

LEMMA StartInsertRows ==
  ASSUME TypeInv, RowsFine, NEW w \in Workers, StartInsert(w), auctions[slot[w].auction.a].id = 0
  PROVE  /\ RowsFine'
         /\ \A a \in Auctions : auctions'[a].id = auctions[a].id \/ a = slot[w].auction.a
<1> DEFINE row == slot[w].auction
           new == [row EXCEPT !.id = nextAuction, !.status = "Running", !.blockHash = slot[w].hash]
<1>1. PICK b \in Auctions : b = row.a
  BY DEF AuctionRow, TypeInv, TypeOK, Slot
<1>2. auctions' = [auctions EXCEPT ![b] = new] /\ nextAuction' = nextAuction + 1 /\ UNCHANGED cron /\ UNCHANGED tasks
  BY <1>1 DEF StartInsert
<1>3. new.id = nextAuction /\ new.a = b
  BY <1>1 DEF AuctionRow, TypeInv, TypeOK, Slot
<1> HIDE DEF new
<1> QED BY <1>1, <1>2, <1>3, RowsTyped DEF RowsFine, Known, AuctionRow, SavedRows

LEMMA HandlerRows ==
  ASSUME TypeInv, RowsFine, NEW w \in Workers, Handle(w) \/ HandlerFails(w),
         ~(StartInsert(w) /\ auctions[slot[w].auction.a].id = 0)
  PROVE  RowsFine' /\ \A a \in Auctions : auctions'[a].id = auctions[a].id
<1> USE DEF tableVars, At
<1>1. UNCHANGED <<auctions, nextAuction, cron>>
  BY Zenon DEF Handle, Take, Ack, StartQuery, StartInsert, BidRead, BidOrder, BidSave, BidOutbid, BidRetire, Feed,
     BuyRead, BuyLeft, BuySave, Withdraw, End, UpdatePrice, AcceptOffer, HandlerFails
<1>2. ASSUME NEW started, tasks' \subseteq tasks \cup started, \A t \in started : t.task # "saveAuction"
      PROVE  RowsFine' /\ \A a \in Auctions : auctions'[a].id = auctions[a].id
  BY <1>1, <1>2, StartsRows
<1>3. CASE Feed(w)
  <2>1. tasks' \subseteq tasks \cup MaxBidTasks(w)
    BY <1>3 DEF Feed, Return
  <2>2. \A t \in MaxBidTasks(w) : t.task # "saveAuction"
    BY DEF MaxBidTasks
  <2> QED BY <1>2, <2>1, <2>2
<1>4. CASE BidSave(w)
  <2> DEFINE started == {[task |-> "seen", id |-> slot[w].auction.id, owner |-> event(w).who]}
  <2>1. tasks' \subseteq tasks \cup started
    BY <1>4 DEF BidSave, DeadLetter
  <2>2. \A t \in started : t.task # "saveAuction"
    OBVIOUS
  <2> HIDE DEF started
  <2> QED BY <1>2, <2>1, <2>2
<1>5. CASE BuyLeft(w)
  <2> DEFINE started == {[task |-> "status", a |-> slot[w].auction.a, id |-> slot[w].auction.id,
                          status |-> "Ended", blockHash |-> slot[w].hash]}
  <2>1. tasks' \subseteq tasks \cup started
    BY <1>5 DEF BuyLeft
  <2>2. \A t \in started : t.task # "saveAuction"
    OBVIOUS
  <2> HIDE DEF started
  <2> QED BY <1>2, <2>1, <2>2
<1>6. CASE Withdraw(w)
  <2> DEFINE started == {StatusTask(w, "Closed")}
  <2>1. tasks' \subseteq tasks \cup started
    BY <1>6 DEF Withdraw, Return
  <2>2. \A t \in started : t.task # "saveAuction"
    BY DEF StatusTask
  <2> HIDE DEF started
  <2> QED BY <1>2, <2>1, <2>2
<1>7. CASE End(w)
  <2> DEFINE id == auctions[event(w).a].id
             started == {StatusTask(w, "Ended"), [task |-> "clear", id |-> id], [task |-> "settle", id |-> id]}
  <2>1. tasks' \subseteq tasks \cup started
    BY <1>7 DEF End, Return
  <2>2. \A t \in started : t.task # "saveAuction"
    BY DEF StatusTask
  <2> HIDE DEF started
  <2> QED BY <1>2, <2>1, <2>2
<1>8. CASE UpdatePrice(w) \/ AcceptOffer(w)
  <2>1. event(w).a \in Auctions
    BY <1>8, CurrentEvent DEF UpdatePrice, AcceptOffer
  <2>2. PICK old \in AuctionRow : old = auctions[event(w).a] /\ old.a = event(w).a
    BY <2>1, RowsTyped DEF RowsFine
  <2>3. CASE old.id = 0
    <3>1. tasks' \subseteq tasks
      BY <1>8, <2>2, <2>3 DEF UpdatePrice, AcceptOffer, Return
    <3> QED BY <1>1, <3>1, NoStartsRows
  <2>4. CASE UpdatePrice(w) /\ old.id # 0
    <3> DEFINE new == [old EXCEPT !.price = event(w).amount, !.blockHash = slot[w].hash]
               started == {[task |-> "saveAuction", row |-> new]}
    <3>1. tasks' \subseteq tasks \cup started
      BY <2>2, <2>4 DEF UpdatePrice, Return
    <3>2. new.id = old.id /\ new.a = old.a
      BY DEF AuctionRow
    <3>3. \A t \in started : t.row = new
      OBVIOUS
    <3> HIDE DEF started, new
    <3> QED BY <1>1, <2>2, <2>4, <3>1, <3>2, <3>3, StartsRows DEF Known
  <2>5. CASE AcceptOffer(w) /\ old.id # 0
    <3> DEFINE new == [old EXCEPT !.status = "Closed"]
               started == {[task |-> "saveAuction", row |-> new]}
    <3>1. tasks' \subseteq tasks \cup started
      BY <2>2, <2>5 DEF AcceptOffer, Return
    <3>2. new.id = old.id /\ new.a = old.a
      BY DEF AuctionRow
    <3>3. \A t \in started : t.row = new
      OBVIOUS
    <3> HIDE DEF started, new
    <3> QED BY <1>1, <2>2, <2>5, <3>1, <3>2, <3>3, StartsRows DEF Known
  <2> QED BY <1>8, <2>3, <2>4, <2>5
<1>9. CASE Take(w) \/ Ack(w) \/ StartQuery(w) \/ StartInsert(w) \/ BidRead(w) \/ BidOrder(w) \/ BidOutbid(w)
            \/ BidRetire(w) \/ BuyRead(w) \/ BuySave(w) \/ HandlerFails(w)
  <2>1. UNCHANGED tasks \/ Return(w, {})
    BY Zenon, <1>9 DEF Take, Ack, StartQuery, StartInsert, BidRead, BidOrder, BidOutbid, BidRetire, BuyRead, BuySave,
       HandlerFails, DeadLetter
  <2>2. tasks' \subseteq tasks
    BY <2>1 DEF Return
  <2> QED BY <1>1, <2>2, NoStartsRows
<1> QED BY <1>3, <1>4, <1>5, <1>6, <1>7, <1>8, <1>9 DEF Handle

LEMMA SettleRows ==
  ASSUME TypeInv, RowsFine, NEW t \in tasks, Settle(t) \/ TaskFails(t)
  PROVE  RowsFine' /\ \A a \in Auctions : auctions'[a].id = auctions[a].id
<1> USE DEF tableVars
<1>1. nextAuction' = nextAuction /\ UNCHANGED cron
  BY DEF Settle, TaskStatus, TaskSaveAuction, TaskSettle, TaskSaveOrder, TaskSeen, TaskClear, TaskNotify, TaskFails
<1>2. CASE TaskSaveAuction(t)
  <2>1. t.row \in SavedRows /\ auctions' = SavedAll({t.row}) /\ tasks' \subseteq tasks
    BY <1>2 DEF TaskSaveAuction, SavedRows, Becomes
  <2>2. SavedRows' \subseteq SavedRows
    BY <1>1, <2>1 DEF SavedRows
  <2> QED BY Zenon, <1>1, <2>1, <2>2, RowsTyped, SavedAllRows DEF RowsFine
<1>3. CASE TaskStatus(t)
  <2>1. CASE t.id # 0 /\ auctions[t.a].id = t.id
    <3> DEFINE new == WithStatus(auctions[t.a], t.status, t.blockHash)
               started == {[task |-> "saveAuction", row |-> new]}
    <3>1. tasks' \subseteq tasks \cup started
      BY <1>3, <2>1 DEF TaskStatus, Becomes
    <3>2. t.a \in Auctions
      BY <1>3 DEF TaskStatus, TypeInv, TypeOK, Task
    <3>3. new.id = auctions[t.a].id /\ new.a = t.a
      BY <3>2, RowsTyped DEF WithStatus, AuctionRow, RowsFine
    <3>4. \A u \in started : u.row = new
      OBVIOUS
    <3> HIDE DEF started, new
    <3> QED BY <1>1, <2>1, <3>1, <3>3, <3>4, <1>3, StartsRows DEF Known, TaskStatus
  <2>2. CASE ~(t.id # 0 /\ auctions[t.a].id = t.id)
    BY <1>3, <2>2, <1>1, NoStartsRows DEF TaskStatus, Becomes
  <2> QED BY <2>1, <2>2
<1>4. CASE TaskSettle(t)
  <2>1. CASE Becomes(t, {})
    BY <2>1, <1>1, <1>4, NoStartsRows DEF Becomes, TaskSettle
  <2>2. ASSUME NEW o \in ActiveOrders(t.id),
               Becomes(t, {[task |-> "saveOrder", copy |-> [id |-> o, row |-> [orders[o] EXCEPT !.status = "bought"]]]})
        PROVE  RowsFine' /\ \A a \in Auctions : auctions'[a].id = auctions[a].id
    <3> DEFINE started == {[task |-> "saveOrder", copy |-> [id |-> o, row |-> [orders[o] EXCEPT !.status = "bought"]]]}
    <3>1. tasks' \subseteq tasks \cup started
      BY <2>2 DEF Becomes
    <3>2. \A u \in started : u.task # "saveAuction"
      OBVIOUS
    <3> HIDE DEF started
    <3> QED BY <1>1, <3>1, <3>2, <1>4, StartsRows DEF TaskSettle
  <2> QED BY <1>4, <2>1, <2>2 DEF TaskSettle
<1>5. CASE TaskSaveOrder(t) \/ TaskSeen(t) \/ TaskClear(t) \/ TaskNotify(t) \/ TaskFails(t)
  BY <1>5, <1>1, NoStartsRows DEF TaskSaveOrder, TaskSeen, TaskClear, TaskNotify, TaskFails, Becomes
<1> QED BY <1>2, <1>3, <1>4, <1>5 DEF Settle

LEMMA CronRows ==
  ASSUME TypeInv, RowsFine, Cron
  PROVE  RowsFine' /\ \A a \in Auctions : auctions'[a].id = auctions[a].id
<1> USE DEF tableVars
<1>1. nextAuction' = nextAuction
  BY DEF Cron, CronRead, CronClear, CronNotify, CronSave
<1>2. CASE CronRead
  BY <1>2, <1>1, KnownRows DEF CronRead, TypeInv, TypeOK, RowsFine, Known, SavedRows
<1>3. CASE CronClear
  BY <1>3, <1>1, KnownRows DEF CronClear, TypeInv, TypeOK, SavedRows
<1>4. CASE CronNotify
  BY <1>4, <1>1, KnownRows DEF CronNotify, TypeInv, TypeOK, SavedRows
<1>5. CASE CronSave
  <2> DEFINE rows == {Claimable(r) : r \in cron.ended}
  <2>1. auctions' = SavedAll(rows) /\ UNCHANGED tasks /\ cron' = IdleCron
    BY <1>5 DEF CronSave
  <2>2. ASSUME NEW r \in cron.ended PROVE Claimable(r) \in AuctionRow /\ Known(Claimable(r))
    BY RowsTyped DEF SavedRows, RowsFine, Claimable, AuctionRow, AuctionStatus, Known
  <2>3. rows \in SUBSET AuctionRow /\ \A r \in rows : Known(r)
    BY <2>2
  <2> HIDE DEF rows
  <2> QED BY <1>1, <2>1, <2>3, SavedAllRows DEF SavedRows, IdleCron
<1> QED BY <1>2, <1>3, <1>4, <1>5 DEF Cron

\* No step changes the id of a row that is there, and only a start event adds one.
LEMMA RowsStep ==
  ASSUME TypeInv, RowsFine, [Next]_vars, ~Rollback
  PROVE  /\ RowsFine'
         /\ \A a \in Auctions : \/ auctions'[a].id = auctions[a].id
                                \/ \E w \in Workers : StartInsert(w) /\ a = slot[w].auction.a /\ auctions[a].id = 0
<1> USE DEF chainVars, tableVars
<1>1. ASSUME NEW w \in Workers, Handle(w) \/ HandlerFails(w)
      PROVE  RowsFine' /\ \A a \in Auctions : auctions'[a].id = auctions[a].id \/ (StartInsert(w) /\ a = slot[w].auction.a /\ auctions[a].id = 0)
  BY <1>1, HandlerRows, StartInsertRows
<1>2. CASE Chain \/ Crash \/ UNCHANGED vars
  <2>1. UNCHANGED <<auctions, nextAuction>> /\ tasks' \subseteq tasks /\ (cron' = cron \/ cron' = IdleCron)
    BY <1>2 DEF Chain, Emit, Deadline, RevertBlock, Crash, vars
  <2> QED BY <2>1, KnownRows DEF SavedRows, IdleCron
<1> QED BY <1>1, <1>2, SettleRows, CronRows DEF Next, Faulty

-----------------------------------------------------------------------------
\* What anyone remembers of an order is of an auction that has its row, and, if
\* that takes bids, of one of its bids. (A buy's amount is not the event's.)
Fits(r) ==
  \E a \in Auctions :
    /\ auctions[a].id = r.auctionId /\ r.auctionId # 0
    /\ a \notin Sft => \E i \in DOMAIN log : /\ IsBid(log[i].event) /\ log[i].event.a = a
                                             /\ log[i].event.who = r.owner /\ log[i].event.amount = r.amount
OrdersFit == \A o \in OrderIds : \A r \in Remembered(o) : Fits(r)

\* The events go on from those that are there, and rows keep their ids.
ChainGrows == \A i \in DOMAIN log : i \in DOMAIN log' /\ log'[i] = log[i]
IdsStay == \A a \in Auctions : auctions[a].id # 0 => auctions'[a].id = auctions[a].id
\* A handler about to insert an order is at an event of the chain.
Placed(w) ==
  slot[w].pc \in {"save", "buy"} =>
    /\ \E i \in DOMAIN log : log[i].event = event(w)
    /\ slot[w].auction.id # 0 /\ auctions[event(w).a].id = slot[w].auction.id
    /\ event(w).kind = IF slot[w].pc = "save" THEN "bid" ELSE "buy"

LEMMA FitsStay ==
  ASSUME ChainGrows, IdsStay, NEW r, Fits(r)
  PROVE  Fits(r)'
  BY DEF Fits, IdsStay, ChainGrows

LEMMA OrdersPresent ==
  ASSUME TypeInv, SettlesAsBought, [Next]_vars, ~Rollback
  PROVE  \A o \in OrderIds : orders[o].status # "absent" => orders'[o].status # "absent"
<1> USE DEF chainVars, tableVars
<1> DEFINE Goal == \A o \in OrderIds : orders[o].status # "absent" => orders'[o].status # "absent"
<1>1. ASSUME NEW id, NEW row, orders' = [orders EXCEPT ![id] = row], row.status # "absent"
      PROVE  Goal
  BY <1>1 DEF TypeInv, TypeOK
<1>2. ASSUME UNCHANGED orders PROVE Goal
  BY <1>2
<1>3. ASSUME NEW w \in Workers, BidSave(w) PROVE Goal
  <2>1. BidRow(w).status = "active"
    BY DEF BidRow
  <2> QED BY <1>1, <1>2, <1>3, <2>1 DEF BidSave, InsertOrder
<1>4. ASSUME NEW w \in Workers, BuySave(w) PROVE Goal
  BY <1>4, <1>1, <1>2 DEF BuySave, InsertOrder
<1>5. ASSUME NEW copy \in OrderCopy, NEW status \in {"inactive", "bought"}, orders' = SavedOrder(copy, status)
      PROVE  Goal
  BY <1>5, <1>1 DEF SavedOrder, OrderCopy, OrderRow
<1>6. ASSUME NEW w \in Workers, BidRetire(w) PROVE Goal
  BY <1>2, <1>5, <1>6 DEF TypeInv, TypeOK, Slot, BidRetire
<1>7. ASSUME NEW t \in tasks, TaskSaveOrder(t) PROVE Goal
  BY <1>7, <1>2, <1>5 DEF TaskSaveOrder, SettlesAsBought, TypeInv, TypeOK, Task
<1>8. ASSUME NEW w \in Workers, (Handle(w) /\ ~BidSave(w) /\ ~BuySave(w) /\ ~BidRetire(w)) \/ HandlerFails(w) PROVE UNCHANGED orders
  BY Zenon, <1>8 DEF Handle, Take, Ack, StartQuery, StartInsert, BidRead, BidOrder, BidOutbid, Feed, BuyRead, BuyLeft,
     Withdraw, End, UpdatePrice, AcceptOffer, HandlerFails
<1>9. ASSUME NEW t \in tasks, (Settle(t) /\ ~TaskSaveOrder(t)) \/ TaskFails(t) PROVE UNCHANGED orders
  BY <1>9 DEF Settle, TaskStatus, TaskSaveAuction, TaskSettle, TaskSeen, TaskClear, TaskNotify, TaskFails
<1>10. ASSUME Cron \/ Chain \/ Crash \/ UNCHANGED vars PROVE Goal
  BY <1>2, <1>10 DEF Cron, CronRead, CronClear, CronNotify, CronSave, Chain, Emit, Deadline, RevertBlock, Crash, vars
<1> HIDE DEF Goal
<1> QED BY <1>2, <1>3, <1>4, <1>6, <1>8, <1>7, <1>9, <1>10 DEF Goal, Next, Faulty

\* Who bid or bought what of which auction stays.
LEMMA OrdersStay ==
  ASSUME TypeInv, TypeInv', FactsInv, SettlesAsBought, [Next]_vars, ~Rollback, NEW o \in OrderIds, orders[o].status # "absent"
  PROVE  /\ orders'[o].status # "absent" /\ orders'[o].auctionId = orders[o].auctionId
         /\ orders'[o].owner = orders[o].owner /\ orders'[o].amount = orders[o].amount
         /\ orders'[o].tokens = orders[o].tokens
<1>1. PICK r \in OrderRow, q \in OrderRow : r = orders[o] /\ q = orders'[o]
  BY DEF TypeInv, TypeOK
<1>2. ASSUME NEW x \in OrderRow
      PROVE  Facts(x).auctionId = x.auctionId /\ Facts(x).owner = x.owner /\ Facts(x).amount = x.amount /\ Facts(x).tokens = x.tokens
  BY DEF Facts, OrderRow
<1> QED BY <1>1, <1>2, FactsStay, OrdersPresent

\* Only the two handlers of bids and buys insert an order.
LEMMA Inserts ==
  ASSUME TypeInv, [Next]_vars, ~Rollback, nextOrder' # nextOrder
  PROVE  \E w \in Workers : (BidSave(w) \/ BuySave(w)) /\ HasAuction(slot[w].auction.id)
<1> USE DEF chainVars, tableVars
<1>1. ASSUME NEW w \in Workers, Handle(w) \/ HandlerFails(w)
      PROVE  (BidSave(w) \/ BuySave(w)) /\ HasAuction(slot[w].auction.id)
  BY Zenon, <1>1 DEF Handle, Take, Ack, StartQuery, StartInsert, BidRead, BidOrder, BidSave, BidOutbid, BidRetire, Feed,
     BuyRead, BuyLeft, BuySave, Withdraw, End, UpdatePrice, AcceptOffer, HandlerFails
<1>2. ASSUME NEW t \in tasks, Settle(t) \/ TaskFails(t) PROVE FALSE
  BY <1>2 DEF Settle, TaskStatus, TaskSaveAuction, TaskSettle, TaskSaveOrder, TaskSeen, TaskClear, TaskNotify, TaskFails
<1>3. CASE Cron \/ Chain \/ Crash \/ UNCHANGED vars
  BY <1>3 DEF Cron, CronRead, CronClear, CronNotify, CronSave, Chain, Emit, Deadline, RevertBlock, Crash, vars
<1> QED BY <1>1, <1>2, <1>3 DEF Next, Faulty

\* The row that is inserted fits.
LEMMA InsertFits ==
  ASSUME TypeInv, ChainFine, NEW w \in Workers, Placed(w), BidSave(w) \/ BuySave(w), HasAuction(slot[w].auction.id),
         NEW r, orders' = [orders EXCEPT ![nextOrder] = r]
  PROVE  nextOrder \in OrderIds /\ Fits(Facts(r))
<1> USE DEF At
<1>1. orders \in [OrderIds -> OrderRow]
  BY DEF TypeInv, TypeOK
<1>2. CASE BidSave(w)
  BY <1>2, <1>1, FactsStatus, CurrentEvent DEF BidSave, InsertOrder, BidRow, Placed, Fits, IsBid
<1>3. CASE BuySave(w)
  BY <1>3, <1>1, CurrentEvent DEF BuySave, InsertOrder, Facts, Placed, ChainFine, Fits
<1> QED BY <1>2, <1>3

LEMMA OrdersFitStep ==
  ASSUME TypeInv, ChainFine, FactsInv, OrdersFit, [Next]_vars, ~Rollback, ChainGrows, IdsStay, \A w \in Workers : Placed(w)
  PROVE  OrdersFit'
<1>1. CASE Keeps
  BY <1>1, FitsStay DEF Keeps, OrdersFit
<1>2. ASSUME NEW r \in OrderRow, Adds(r) PROVE OrdersFit'
  <2>1. PICK w \in Workers : (BidSave(w) \/ BuySave(w)) /\ HasAuction(slot[w].auction.id)
    BY <1>2, Inserts DEF Adds, TypeInv, TypeOK
  <2>2. Fits(Facts(r))
    BY <2>1, <1>2, InsertFits DEF Adds, TypeInv, TypeOK
  <2>3. ASSUME NEW o \in OrderIds, NEW x \in Remembered(o)' PROVE Fits(x)'
    BY <1>2, <2>2, FitsStay DEF Adds, OrdersFit
  <2> QED BY <2>3 DEF OrdersFit
<1> QED BY <1>1, <1>2, FactsKeep DEF FactsInv

\* An order of an auction that takes bids is one of its bids, under its row's id.
LEMMA OrderIsBid ==
  ASSUME TypeInv, RowsFine, OrdersFit, NEW a \in Auctions \ Sft, auctions[a].id # 0, NEW o \in OrdersOf(auctions[a].id)
  PROVE  \E i \in DOMAIN log : /\ IsBid(log[i].event) /\ log[i].event.a = a
                               /\ log[i].event.who = orders[o].owner /\ log[i].event.amount = orders[o].amount
<1>1. o \in OrderIds /\ orders[o].status # "absent" /\ orders[o].auctionId = auctions[a].id /\ orders[o] \in OrderRow
  BY DEF OrdersOf, TypeInv, TypeOK
<1>2. PICK row \in OrderRow : row = orders[o]
  BY <1>1
<1>3. PICK r : r = Facts(row)
  OBVIOUS
<1> QED BY <1>1, <1>2, <1>3 DEF Fits, RowsFine, Facts, OrderRow, OrdersFit, Remembered, InTable

-----------------------------------------------------------------------------
\* A bid has its order, under the id of its auction's row.
Recorded(e) == \E o \in OrdersOf(auctions[e.a].id) : orders[o].owner = e.who /\ orders[o].amount = e.amount
Counted(e) == Indexed(e.a) => Recorded(e)
\* An event of an acknowledged block, or of s's block among the first b of the chain.
Due(e, b, s) == \E i \in DOMAIN log : log[i].event = e /\ (log[i].hash \in done \/ (log[i].hash = s.hash /\ i <= b))

\* What a handler at event e knows.
Stage(s, e) ==
  /\ s.pc = "insert" => e.kind = "start" /\ s.auction.a = e.a
  /\ s.pc \in {"order", "save", "outbid", "retire"} => IsBid(e)
  /\ s.pc \in {"left", "buy"} => e.kind = "buy"
  /\ s.pc \in {"order", "save", "left", "buy"} => s.auction.id # 0 /\ auctions[e.a].id = s.auction.id
  /\ s.pc \in {"outbid", "retire", "feed"} /\ IsBid(e) => Recorded(e)

\* Of its block a handler has handled what is among the first b events of the
\* chain: the rest comes next.
Work(b, s) ==
  /\ s.pc = "idle" => s.hash = 0 /\ b = 0
  /\ s.pc # "idle" =>
       /\ \E k \in DOMAIN queue : queue[k].hash = s.hash
       /\ \A k \in DOMAIN s.events : b + k \in DOMAIN log /\ log[b + k] = [hash |-> s.hash, event |-> s.events[k]]
       /\ \A i \in DOMAIN log : log[i].hash = s.hash => i <= b + Len(s.events)
  /\ s.pc = "ack" => s.events = <<>>
  /\ s.pc \notin {"idle", "ack"} => Stage(s, Head(s.events))
  /\ \A e \in Event : IsBid(e) /\ Due(e, b, s) => Counted(e)

\* What was recorded stays, and what was due is counted still.
Kept(b, s) ==
  /\ \A e \in Event : Recorded(e) => Recorded(e)'
  /\ \A e \in Event : IsBid(e) /\ Due(e, b, s) => Counted(e)'

\* Two blocks meet if they are about the same auction.
Mentions(h, a) == \E i \in DOMAIN log : log[i].hash = h /\ log[i].event.a = a
Meet(g, h) == \E a \in Auctions : Mentions(g, a) /\ Mentions(h, a)
\* No two blocks in hand meet.
AuctionsApart == \A v, w \in Workers : v # w /\ ~At(v, "idle") /\ ~At(w, "idle") => ~Meet(slot[v].hash, slot[w].hash)
\* Then a block is taken after the earlier blocks it meets.
InOrder(h) == \A k \in DOMAIN queue : queue[k].hash < h => ~Meet(h, queue[k].hash)
TurnsInv ==
  /\ \A h \in done : InOrder(h)
  /\ \A w \in Workers : ~At(w, "idle") => InOrder(slot[w].hash)
  /\ \A v, w \in Workers : v # w /\ ~At(v, "idle") /\ ~At(w, "idle") => slot[v].hash # slot[w].hash
WorkInv == \A w \in Workers : \E b \in 0..Len(log) : Work(b, slot[w])

\* The event a handler is at is the next of the chain.
LEMMA NextEvent ==
  ASSUME TypeInv, NEW w \in Workers, NEW s, s = slot[w], s.pc \notin {"idle", "ack"}, NEW b \in 0..Len(log), Work(b, s)
  PROVE  /\ s.events \in Seq(Event) /\ s.events # <<>> /\ Head(s.events) \in Event /\ event(w) = Head(s.events)
         /\ b + 1 \in DOMAIN log /\ log[b + 1].hash = s.hash /\ log[b + 1].event = Head(s.events)
<1>1. s.events \in Seq(Event) /\ s.events # <<>>
  BY DEF TypeInv, TypeOK, HasEvent, Slot
<1>2. b + 1 \in DOMAIN log /\ log[b + 1] = [hash |-> s.hash, event |-> s.events[1]]
  BY <1>1 DEF Work
<1> QED BY <1>1, <1>2, HeadTail DEF event

LEMMA WorkPlaced ==
  ASSUME TypeInv, NEW w \in Workers, NEW b \in 0..Len(log), Work(b, slot[w])
  PROVE  Placed(w)
<1> SUFFICES ASSUME slot[w].pc \in {"save", "buy"}
             PROVE  /\ \E i \in DOMAIN log : log[i].event = event(w)
                    /\ slot[w].auction.id # 0 /\ auctions[event(w).a].id = slot[w].auction.id
                    /\ event(w).kind = IF slot[w].pc = "save" THEN "bid" ELSE "buy"
  BY DEF Placed
<1>1. b + 1 \in DOMAIN log /\ log[b + 1].event = event(w) /\ event(w) = Head(slot[w].events)
  BY NextEvent
<1>2. Stage(slot[w], event(w))
  BY <1>1 DEF Work
<1> QED BY <1>1, <1>2 DEF Stage, IsBid

\* No step loses a bid's order, and none gives a row to an auction with a bid
\* that was passed: the start event is before any bid.
LEMMA BidsKept ==
  ASSUME TypeInv, TypeInv', FactsInv, SettlesAsBought, ChainFine, QueueFine, RowsFine, OrdersFit, TurnsInv, AuctionsApart,
         WorkInv, [Next]_vars, ~Rollback, NEW w \in Workers, NEW b \in 0..Len(log), NEW s, s = slot[w], Work(b, s)
  PROVE  IdsStay /\ Kept(b, s)
<1>1. ASSUME NEW e \in Event, Recorded(e) PROVE Recorded(e)'
  <2>1. PICK o \in OrderIds : /\ orders[o].status # "absent" /\ orders[o].auctionId = auctions[e.a].id
                              /\ orders[o].owner = e.who /\ orders[o].amount = e.amount
    BY <1>1 DEF Recorded, OrdersOf
  <2>2. e.a \in Auctions /\ orders[o] \in OrderRow
    BY DEF Event, TypeInv, TypeOK
  <2>3. auctions[e.a].id # 0
    <3>1. Fits(Facts(orders[o]))
      BY <2>1 DEF OrdersFit, Remembered, InTable
    <3> QED BY <2>1, <3>1, <2>2 DEF Fits, Facts, OrderRow
  <2> QED BY <2>1, <2>2, <2>3, OrdersStay, RowsStep DEF Recorded, OrdersOf, IdsStay
<1>2. ASSUME NEW e \in Event, IsBid(e), Due(e, b, s), Indexed(e.a)' PROVE Recorded(e)'
  <2>1. CASE Indexed(e.a)
    BY <1>1, <1>2, <2>1 DEF Work, Counted
  <2>2. CASE ~Indexed(e.a)
    <3>1. PICK v \in Workers : slot[v].pc = "insert" /\ e.a = slot[v].auction.a
      BY <1>2, <2>2, RowsStep DEF StartInsert, At, Indexed, Event
    <3>2. PICK c \in 0..Len(log) : Work(c, slot[v]) /\ (v = w => c = b)
      BY DEF WorkInv
    <3>3. c + 1 \in DOMAIN log /\ log[c + 1].hash = slot[v].hash /\ log[c + 1].event.kind = "start" /\ log[c + 1].event.a = e.a
      BY <3>1, <3>2, NextEvent DEF Work, Stage
    <3>4. PICK i \in DOMAIN log : log[i].event = e /\ (log[i].hash \in done \/ (log[i].hash = s.hash /\ i <= b))
      BY <1>2 DEF Due
    <3>5. c + 1 < i
      BY <1>2, <3>3, <3>4, LogTyped DEF ChainFine, IsBid
    <3>6. Mentions(log[i].hash, e.a) /\ Mentions(slot[v].hash, e.a) /\ e.a \in Auctions
      BY <3>3, <3>4 DEF Mentions, Event
    <3>7. CASE log[i].hash \in done
      <4>1. PICK k \in DOMAIN queue : queue[k].hash = slot[v].hash
        BY <3>1, <3>2 DEF Work
      <4>2. log[i].hash # slot[v].hash
        BY <3>7, <4>1 DEF QueueFine
      <4>3. slot[v].hash < log[i].hash
        BY <3>3, <3>5, <4>2, LogTyped DEF ChainFine
      <4> QED BY <3>6, <3>7, <4>1, <4>3 DEF TurnsInv, InOrder, Meet
    <3>8. CASE log[i].hash = s.hash /\ i <= b
      <4>1. v # w
        BY <3>2, <3>5, <3>8
      <4>2. s.pc # "idle"
        BY <3>8, <3>4 DEF Work
      <4> QED BY <3>1, <3>6, <3>8, <4>1, <4>2 DEF AuctionsApart, At, Meet
    <3> QED BY <3>4, <3>7, <3>8
  <2> QED BY <2>1, <2>2
<1> QED BY <1>1, <1>2, RowsStep DEF Kept, Counted, IdsStay

\* The handler stays at its event, and knows what its next step needs.
LEMMA WorkOn ==
  ASSUME UNCHANGED <<log, queue, done>>, NEW b \in 0..Len(log), NEW s, NEW t, Work(b, s), Kept(b, s),
         s.pc \notin {"idle", "ack"}, t.pc \notin {"idle", "ack"}, t.hash = s.hash, t.events = s.events,
         Stage(t, Head(s.events))'
  PROVE  \E c \in 0..Len(log') : Work(c, t)'
  BY DEF Due, Kept, Work

\* The handler is not involved.
LEMMA WorkStays ==
  ASSUME UNCHANGED <<log, queue, done>>, NEW b \in 0..Len(log), NEW s, Work(b, s), Kept(b, s), IdsStay,
         s.pc \notin {"idle", "ack"} => Head(s.events) \in Event
  PROVE  \E c \in 0..Len(log') : Work(c, s)'
  BY DEF Due, Event, Stage, Kept, IdsStay, Work

\* The handler returns: its event is passed.
LEMMA WorkReturns ==
  ASSUME TypeInv, UNCHANGED <<log, queue, done>>, NEW b \in 0..Len(log), NEW w \in Workers, NEW s, s = slot[w],
         NEW t, Work(b, s), Kept(b, s), s.pc \notin {"idle", "ack"}, t.hash = s.hash, t.events = Tail(s.events),
         t.pc = IF Len(s.events) = 1 THEN "ack" ELSE "next",
         IsBid(Head(s.events)) => Counted(Head(s.events))'
  PROVE  \E c \in 0..Len(log') : Work(c, t)'
<1>1. /\ s.events \in Seq(Event) /\ s.events # <<>> /\ Head(s.events) \in Event
      /\ b + 1 \in DOMAIN log /\ log[b + 1].event = Head(s.events)
  BY NextEvent
<1>2. b + 1 \in 0..Len(log') /\ b \in Nat
  BY <1>1, LogTyped
<1>3. PICK e : e = Head(s.events)
  OBVIOUS
<1>4. \A x \in Event : IsBid(x) /\ Due(x, b + 1, t)' => Counted(x)'
  BY <1>3, <1>2, <1>1, LogTyped DEF Kept, Due
<1>5. /\ Len(t.events) = Len(s.events) - 1 /\ Len(s.events) \in Nat /\ DOMAIN t.events = 1..Len(t.events)
      /\ \A k \in DOMAIN t.events : k + 1 \in DOMAIN s.events /\ t.events[k] = s.events[k + 1]
      /\ (Len(s.events) = 1 => t.events = <<>>)
  <2>1. PICK q \in Seq(Event) : q = s.events /\ q # <<>> /\ t.events = Tail(q)
    BY <1>1
  <2>2. Len(q) = 1 => Tail(q) = <<>>
    <3>1. PICK r \in Seq(Event) : r = Tail(q)
      BY <2>1, HeadTail
    <3> QED BY <3>1, <2>1, EmptySeq
  <2> QED BY <2>1, <2>2
<1>6. \A k \in DOMAIN t.events : /\ (b + 1) + k \in DOMAIN log'
                                 /\ log'[(b + 1) + k] = [hash |-> t.hash, event |-> t.events[k]]
  <2> SUFFICES ASSUME NEW k \in DOMAIN t.events
               PROVE  (b + 1) + k \in DOMAIN log' /\ log'[(b + 1) + k] = [hash |-> t.hash, event |-> t.events[k]]
    OBVIOUS
  <2>1. k \in Nat
    BY <1>5
  <2>2. b + (k + 1) = (b + 1) + k
    BY <1>2, <2>1
  <2> QED BY <1>5, <2>2 DEF Work
<1>7. /\ \E k \in DOMAIN queue' : queue'[k].hash = t.hash
       /\ \A i \in DOMAIN log' : log'[i].hash = t.hash => i <= (b + 1) + Len(t.events)
  <2>1. (b + 1) + Len(t.events) = b + Len(s.events)
    BY <1>2, <1>5
  <2> QED BY <2>1 DEF Work
<1> QED BY <1>2, <1>4, <1>6, <1>7, <1>5 DEF Work, Stage

\* Another block is done or dead.
LEMMA WorkElsewhere ==
  ASSUME TypeInv, QueueFine, TurnsInv, NEW v \in Workers, slot[v].pc # "idle", Dequeue(v), UNCHANGED log, IdsStay,
         done' = done \/ (done' = done \cup {slot[v].hash} /\ slot[v].pc = "ack"),
         NEW c \in 0..Len(log), Work(c, slot[v]), Kept(c, slot[v]),
         NEW w \in Workers, w # v, NEW b \in 0..Len(log), NEW s, s = slot[w], Work(b, s), Kept(b, s)
  PROVE  \E d \in 0..Len(log') : Work(d, s)'
<1>1. s.pc # "idle" => \E k \in DOMAIN queue' : queue'[k].hash = s.hash
  BY Dropped DEF TurnsInv, At, Work
<1>2. ASSUME NEW x \in Event, IsBid(x), Due(x, b, s)' PROVE Counted(x)'
  <2>1. Due(x, b, s) \/ Due(x, c, slot[v])
    BY <1>2 DEF Due, Work
  <2> QED BY <1>2, <2>1 DEF Kept
<1>3. s.pc \notin {"idle", "ack"} => Head(s.events) \in Event
  BY NextEvent
<1> QED BY <1>1, <1>2, <1>3 DEF Work, Stage, Kept, IdsStay, Event

\* The block is done or dead, or the process restarts.
LEMMA WorkEnds ==
  ASSUME TypeInv, UNCHANGED log, NEW b \in 0..Len(log), NEW s, Work(b, s), Kept(b, s),
         done' = done \/ (done' = done \cup {s.hash} /\ s.pc = "ack")
  PROVE  \E c \in 0..Len(log') : Work(c, IdleSlot)'
  BY LogTyped DEF IdleSlot, Work, Due, Kept

\* A new event is of the block handled neither now nor before.
LEMMA EmitElsewhere ==
  ASSUME TypeInv, QueueFine, WorkInv, NEW e \in Event, Emit(e)
  PROVE  /\ lastHash' \notin done /\ \A h \in done : h < lastHash'
         /\ \A w \in Workers : slot[w].pc # "idle" => slot[w].hash < lastHash' /\ \E k \in DOMAIN queue' : queue'[k].hash = slot[w].hash
         /\ \A k \in DOMAIN queue' : queue'[k].hash = lastHash' \/ \E j \in DOMAIN queue : queue[j].hash = queue'[k].hash
<1>1. lastHash' \in {lastHash, lastHash + 1} /\ lastHash \in Nat /\ done \subseteq Nat /\ \A k \in DOMAIN queue : queue[k].hash \in 1..lastHash
  BY EmitLog DEF TypeInv, TypeOK, QueueFine
<1>2. CASE lastHash' = lastHash + 1 /\ queue' = Append(queue, [hash |-> lastHash', events |-> <<e>>])
  <2> DEFINE new == [hash |-> lastHash', events |-> <<e>>]
  <2>1. queue' = Append(queue, new) /\ new.hash = lastHash'
    BY <1>2
  <2> HIDE DEF new
  <2>2. DOMAIN queue' = 1..(Len(queue) + 1) /\ (\A k \in DOMAIN queue : k \in DOMAIN queue' /\ queue'[k] = queue[k]) /\ queue'[Len(queue) + 1] = new
    BY <2>1, QueueTyped DEF TypeInv, TypeOK
  <2>3. \A k \in DOMAIN queue' : k \in DOMAIN queue \/ k = Len(queue) + 1
    BY <2>2, QueueTyped
  <2>4. \A h \in done : h < lastHash'
    BY <1>1, <1>2 DEF QueueFine
  <2>5. ASSUME NEW w \in Workers, slot[w].pc # "idle"
        PROVE  slot[w].hash < lastHash' /\ \E k \in DOMAIN queue' : queue'[k].hash = slot[w].hash
    <3>1. PICK k \in DOMAIN queue : queue[k].hash = slot[w].hash
      BY <2>5 DEF WorkInv, Work
    <3> QED BY <1>1, <1>2, <2>2, <3>1
  <2>6. lastHash' \notin done
    BY <1>1, <2>4
  <2>7. \A k \in DOMAIN queue' : queue'[k].hash = lastHash' \/ \E j \in DOMAIN queue : queue[j].hash = queue'[k].hash
    BY <2>1, <2>2, <2>3
  <2> QED BY <2>4, <2>5, <2>6, <2>7
<1>3. CASE /\ queue # <<>> /\ queue[Len(queue)].hash = lastHash /\ queue[Len(queue)].hash \notin Taken /\ lastHash' = lastHash
           /\ queue' = [queue EXCEPT ![Len(queue)].events = Append(@, e)]
  <2>1. Len(queue) \in DOMAIN queue /\ DOMAIN queue' = DOMAIN queue /\ \A k \in DOMAIN queue : queue'[k].hash = queue[k].hash
    BY <1>3, QueueTyped DEF Block
  <2>2. \A h \in done : h < lastHash'
    BY <1>1, <1>3, <2>1 DEF QueueFine
  <2>3. ASSUME NEW w \in Workers, slot[w].pc # "idle"
        PROVE  slot[w].hash < lastHash' /\ \E k \in DOMAIN queue' : queue'[k].hash = slot[w].hash
    <3>1. PICK k \in DOMAIN queue : queue[k].hash = slot[w].hash
      BY <2>3 DEF WorkInv, Work
    <3> QED BY <1>1, <1>3, <2>1, <3>1 DEF Taken
  <2>4. lastHash' \notin done
    BY <1>1, <2>2
  <2> QED BY <2>1, <2>2, <2>3, <2>4
<1> QED BY <1>2, <1>3 DEF Emit

LEMMA WorkEmits ==
  ASSUME TypeInv, ChainFine, QueueFine, WorkInv, NEW e \in Event, Emit(e), NEW w \in Workers, NEW s, s = slot[w],
         NEW b \in 0..Len(log), Work(b, s)
  PROVE  \E c \in 0..Len(log') : Work(c, s)'
<1> USE DEF tableVars
<1>1. /\ Len(log') = Len(log) + 1 /\ Len(log) \in Nat /\ DOMAIN log' = 1..(Len(log) + 1)
      /\ \A i \in DOMAIN log : i \in DOMAIN log' /\ log'[i] = log[i]
      /\ log'[Len(log) + 1].hash = lastHash' /\ lastHash' \in {lastHash, lastHash + 1} /\ lastHash \in Nat
      /\ DOMAIN log = 1..Len(log)
  BY EmitLog
<1>2. UNCHANGED <<auctions, orders, done, slot>>
  BY DEF Emit
<1>3. s.pc # "idle" => s.hash # lastHash' /\ \E k \in DOMAIN queue' : queue'[k].hash = s.hash
  BY <1>1, EmitElsewhere
<1>4. lastHash' \notin done
  BY EmitElsewhere
<1>5. ASSUME NEW x \in Event, Due(x, b, s)' PROVE Due(x, b, s)
  BY <1>2, <1>5, <1>1, <1>4, <1>3 DEF Due, Work
<1>6. Work(b, s)'
  BY <1>3, <1>1, <1>2, <1>5 DEF Work, Stage, Recorded, OrdersOf, Counted, Indexed
<1> QED BY <1>6, <1>1

\* A handler takes the first block of the queue that no other has.
LEMMA WorkTakes ==
  ASSUME TypeInv, QueueFine, NEW w \in Workers, NEW s, s = slot[w], NEW b \in 0..Len(log), Work(b, s), Take(w),
         NEW t, t = slot'[w]
  PROVE  \E c \in 0..Len(log') : Work(c, t)'
<1> USE DEF chainVars, tableVars
<1>1. UNCHANGED <<log, queue, done, auctions, orders>> /\ s.pc = "idle" /\ s.hash = 0 /\ b = 0
  BY DEF Take, At, Work
<1>2. PICK h \in DOMAIN queue :
        slot' = [slot EXCEPT ![w] = [IdleSlot EXCEPT !.hash = queue[h].hash, !.events = queue[h].events, !.pc = "next"]]
  BY DEF Take
<1>3. t.hash = queue[h].hash /\ t.events = queue[h].events /\ t.pc = "next"
  BY <1>2 DEF IdleSlot, TypeInv, TypeOK
<1>4. PICK c \in 0..Len(log) : Whole(queue[h], c, log)
  BY <1>2 DEF QueueFine
<1>5. \A e \in Event : Counted(e)' = Counted(e)
  BY <1>1 DEF Counted, Recorded, Indexed, OrdersOf
<1>6. \A e \in Event : IsBid(e) /\ Due(e, c, t)' => Due(e, b, s)
  BY <1>1, <1>3, <1>4, LogTyped DEF Due, Whole
<1> QED BY <1>1, <1>3, <1>4, <1>5, <1>6 DEF Work, Whole, Stage

\* The bid is recorded already, if the active order of its auction has its amount:
\* amounts grow, so that order is of the same event.
LEMMA HandledIsRecorded ==
  ASSUME TypeInv, ChainFine, RowsFine, OrdersFit, NEW i \in DOMAIN log, IsBid(log[i].event), NEW e, e = log[i].event,
         NEW id, id # 0, auctions[e.a].id = id, NEW o \in ActiveOrders(id), orders[o].amount = e.amount
  PROVE  Recorded(e)
<1>1. e \in Event /\ e.a \in Auctions \ Sft /\ DOMAIN log \subseteq Nat
  <2>1. e \in Event /\ DOMAIN log \subseteq Nat
    BY LogTyped
  <2> QED BY <2>1 DEF ChainFine, Event
<1>2. o \in OrdersOf(auctions[e.a].id)
  BY DEF ActiveOrders
<1>3. PICK j \in DOMAIN log : /\ IsBid(log[j].event) /\ log[j].event.a = e.a
                              /\ log[j].event.who = orders[o].owner /\ log[j].event.amount = orders[o].amount
  BY <1>1, <1>2, OrderIsBid
<1>4. e.amount \in Nat
  BY <1>1, BoundsAssumption DEF Event
<1>5. ~(i < j) /\ ~(j < i)
  BY <1>3, <1>4 DEF ChainFine
<1>6. i = j
  BY <1>1, <1>5
<1> QED BY <1>2, <1>3, <1>6 DEF Recorded

LEMMA HandlerWorks ==
  ASSUME TypeInv, ChainFine, QueueFine, RowsFine, OrdersFit, NEW w \in Workers, Handle(w) \/ HandlerFails(w),
         NEW s, s = slot[w], NEW t, t = slot'[w], NEW b \in 0..Len(log), Work(b, s), Kept(b, s), IdsStay
  PROVE  QueueFine' /\ \E c \in 0..Len(log') : Work(c, t)'
<1> USE DEF chainVars, tableVars, At
<1> DEFINE Goal == QueueFine' /\ \E c \in 0..Len(log') : Work(c, t)'
<1>1. UNCHANGED <<log, lastHash>> /\ slot \in [Workers -> Slot] /\ w \in Workers /\ s \in Slot
  BY Zenon DEF TypeInv, TypeOK, Handle, Take, Ack, StartQuery, StartInsert, BidRead, BidOrder, BidSave, BidOutbid,
     BidRetire, Feed, BuyRead, BuyLeft, BuySave, Withdraw, End, UpdatePrice, AcceptOffer, HandlerFails
<1>2. UNCHANGED <<queue, done>> => QueueFine'
  BY <1>1 DEF QueueFine
<1>3. ASSUME s.pc # "idle", slot' = [slot EXCEPT ![w] = IdleSlot], Dequeue(w),
             done' = done \/ (done' = done \cup {s.hash} /\ s.pc = "ack")
      PROVE  Goal
  BY <1>1, <1>3, DropQueue, WorkEnds DEF Work
<1>4. CASE Take(w)
  BY <1>4, <1>2, WorkTakes DEF Take
<1>5. CASE Ack(w)
  BY <1>3, <1>5 DEF Ack
<1>6. ASSUME s.pc \notin {"idle", "ack"}, DeadLetter(w), UNCHANGED done PROVE Goal
  BY <1>3, <1>6 DEF DeadLetter
<1>7. CASE s.pc \notin {"idle", "ack"}
  <2>1. PICK e \in Event : e = Head(s.events) /\ e = event(w)
    BY <1>1, <1>7, NextEvent
  <2>2. b + 1 \in DOMAIN log /\ log[b + 1].event = e
    BY <1>1, <1>7, <2>1, NextEvent
  <2>3. Stage(s, e) /\ e.a \in Auctions
    BY <1>7, <2>1 DEF Work, Event
  <2>4. (Recorded(e) => Recorded(e)') /\ (auctions[e.a].id # 0 => auctions'[e.a].id = auctions[e.a].id)
    BY <2>3 DEF Kept, IdsStay
  <2>5. ASSUME NEW started, Return(w, started), UNCHANGED done, IsBid(e) => Counted(e)'
        PROVE  Goal
    BY <1>1, <2>5, <2>1, <1>2, <1>7, WorkReturns DEF Return, IdleSlot
  <2>6. ASSUME UNCHANGED <<queue, done>>, t.pc \notin {"idle", "ack"}, t.hash = s.hash, t.events = s.events, Stage(t, e)'
        PROVE  Goal
    BY <2>1, <2>6, <1>1, <1>2, <1>7, WorkOn
  <2>7. \A pc : Goto(w, pc) => t.pc = pc /\ t.auction = s.auction /\ t.hash = s.hash /\ t.events = s.events
    BY <1>1 DEF Goto, Slot
  <2>8. ASSUME NEW pc, NEW row, slot' = [slot EXCEPT ![w].pc = pc, ![w].auction = row]
        PROVE  t.pc = pc /\ t.auction = row /\ t.hash = s.hash /\ t.events = s.events
    BY <1>1, <2>8 DEF Slot
  <2>9. ASSUME NEW pc, NEW copy, slot' = [slot EXCEPT ![w].pc = pc, ![w].active = copy]
        PROVE  t.pc = pc /\ t.auction = s.auction /\ t.hash = s.hash /\ t.events = s.events
    BY <1>1, <2>9 DEF Slot
  <2>10. ASSUME NEW pc, NEW new, slot' = [slot EXCEPT ![w].pc = pc, ![w].new = new]
         PROVE  t.pc = pc /\ t.auction = s.auction /\ t.hash = s.hash /\ t.events = s.events
    BY <1>1, <2>10 DEF Slot
  <2> HIDE DEF Goal
  <2>11. ASSUME StartQuery(w) PROVE Goal
    <3>1. ASSUME NEW price, slot' = [slot EXCEPT ![w].pc = "insert", ![w].auction = [NoAuction(e.a) EXCEPT !.price = price]],
                 UNCHANGED queue
          PROVE  Goal
      <4>1. t.pc = "insert" /\ t.auction = [NoAuction(e.a) EXCEPT !.price = price] /\ t.hash = s.hash /\ t.events = s.events
        BY <2>8, <3>1
      <4> QED BY <2>6, <3>1, <4>1, <2>1, <2>11 DEF Stage, NoAuction, StartQuery, Kind, IsBid
    <3> QED BY <2>1, <2>5, <2>11, <3>1 DEF StartQuery, Kind, IsBid
  <2>12. ASSUME StartInsert(w) PROVE Goal
    BY <2>3, <2>12, <2>7, <2>6, <2>5 DEF StartInsert, Stage, IsBid
  <2>13. ASSUME BidRead(w) PROVE Goal
    <3>1. CASE auctions[e.a].id # 0
      <4>1. slot' = [slot EXCEPT ![w].pc = "order", ![w].auction = auctions[e.a]] /\ UNCHANGED queue
        BY <2>1, <2>13, <3>1 DEF BidRead
      <4>2. t.pc = "order" /\ t.auction = auctions[e.a] /\ t.hash = s.hash /\ t.events = s.events
        BY <2>8, <4>1
      <4> QED BY <2>6, <4>1, <4>2, <3>1, <2>1, <2>13 DEF Stage, BidRead, Kind, IsBid
    <3>2. CASE auctions[e.a].id = 0
      BY <2>1, <2>13, <3>2, <2>5 DEF BidRead, Counted, Indexed, Kind, IsBid
    <3> QED BY <3>1, <3>2
  <2>14. ASSUME BidOrder(w) PROVE Goal
    <3>1. ASSUME t.pc = "save", t.auction = s.auction, t.hash = s.hash, t.events = s.events, UNCHANGED queue
          PROVE  Goal
      BY <3>1, <2>6, <2>3, <2>14 DEF Stage, BidOrder
    <3>2. ASSUME Goto(w, "save"), UNCHANGED queue PROVE Goal
      BY <2>7, <3>1, <3>2
    <3>3. ASSUME NEW copy, slot' = [slot EXCEPT ![w].pc = "save", ![w].active = copy], UNCHANGED queue PROVE Goal
      BY <2>9, <3>1, <3>3
    <3>4. ASSUME NEW o \in ActiveOrders(s.auction.id), orders[o].amount = e.amount, Return(w, {}) PROVE Goal
      BY <2>2, <3>4, <2>4, <2>5, <2>3, <2>14, HandledIsRecorded DEF Counted, BidOrder, Stage
    <3> QED BY <2>1, <2>14, <3>2, <3>3, <3>4 DEF BidOrder, HandledBefore
  <2>15. ASSUME BidSave(w) PROVE Goal
    <3>1. /\ IsBid(e) /\ UNCHANGED <<done, auctions>> /\ s.pc = "save"
          /\ s.auction.id # 0 /\ auctions[e.a].id = s.auction.id
      BY <2>3, <2>15 DEF BidSave, Stage
    <3>2. CASE HasAuction(s.auction.id)
      <4>1. /\ nextOrder \in OrderIds /\ orders' = [orders EXCEPT ![nextOrder] = BidRow(w)] /\ UNCHANGED queue
            /\ slot' = [slot EXCEPT ![w].pc = IF s.active.id # 0 THEN "outbid" ELSE "feed", ![w].new = nextOrder]
        BY <2>15, <3>2 DEF BidSave, InsertOrder
      <4>2. t.pc \in {"outbid", "feed"} /\ t.hash = s.hash /\ t.events = s.events
        BY <2>10, <4>1
      <4> QED BY <2>6, <3>1, <4>1, <4>2, <2>1 DEF Stage, Recorded, OrdersOf, BidRow, TypeInv, TypeOK
    <3>3. CASE ~HasAuction(s.auction.id)
      BY <1>6, <1>7, <2>15, <3>1, <3>3 DEF BidSave
    <3> QED BY <3>2, <3>3
  <2>16. ASSUME BidOutbid(w) \/ BidRetire(w) PROVE Goal
    BY <2>3, <2>4, <2>16, <2>7, <2>6, <1>6, <1>7 DEF BidOutbid, BidRetire, Stage
  <2>17. ASSUME Feed(w) PROVE Goal
    BY <2>17, <2>3, <2>4, <2>5 DEF Feed, Stage, Counted
  <2>18. ASSUME BuyRead(w) PROVE Goal
    <3>1. CASE Found(e.a)
      <4>1. slot' = [slot EXCEPT ![w].pc = "left", ![w].auction = auctions[e.a]] /\ UNCHANGED queue
        BY <2>1, <2>18, <3>1 DEF BuyRead
      <4>2. t.pc = "left" /\ t.auction = auctions[e.a] /\ t.hash = s.hash /\ t.events = s.events
        BY <2>8, <4>1
      <4> QED BY <2>6, <4>1, <4>2, <3>1, <2>1, <2>18 DEF Stage, Found, BuyRead, Kind, IsBid
    <3>2. CASE ~Found(e.a)
      BY <2>1, <2>5, <2>18, <3>2 DEF BuyRead, Kind, IsBid
    <3> QED BY <3>1, <3>2
  <2>19. ASSUME BuyLeft(w) PROVE Goal
    BY <2>19, <2>7, <2>3, <2>6 DEF BuyLeft, Stage
  <2>20. ASSUME BuySave(w) PROVE Goal
    BY <2>3, <2>20, <2>7, <2>6, <1>6, <1>7 DEF BuySave, Stage, IsBid
  <2>21. ASSUME Withdraw(w) \/ End(w) \/ UpdatePrice(w) \/ AcceptOffer(w) PROVE Goal
    BY <2>1, <2>21, <2>7, <2>6, <2>5 DEF Withdraw, End, UpdatePrice, AcceptOffer, Kind, IsBid, Stage
  <2>22. ASSUME HandlerFails(w) PROVE Goal
    <3>1. UNCHANGED done
      BY <2>22 DEF HandlerFails
    <3>2. ASSUME s.pc \in {"next", "insert"}, Kind(w, "start"), Return(w, {}) PROVE Goal
      BY <2>1, <3>2, <2>5, <3>1 DEF Kind, IsBid
    <3>3. ASSUME s.pc = "outbid", Goto(w, "retire"), UNCHANGED queue PROVE Goal
      BY <2>7, <3>3, <2>3, <2>4, <2>6, <3>1 DEF Stage
    <3> QED BY <1>6, <1>7, <2>22, <3>1, <3>2, <3>3 DEF HandlerFails
  <2>23. Goal
    BY Zenon, <1>7, <2>11, <2>12, <2>13, <2>14, <2>15, <2>16, <2>17, <2>18, <2>19, <2>20, <2>21, <2>22 DEF Handle, Take,
       Ack
  <2> QED BY <2>23 DEF Goal
<1>8. CASE s.pc = "ack" /\ HandlerFails(w)
  <2>1. Goal
    BY SMTT(30), <1>3, <1>8 DEF HandlerFails, DeadLetter
  <2> QED BY <2>1
<1>9. s.pc \in {"idle", "ack"} => Take(w) \/ Ack(w) \/ (s.pc = "ack" /\ HandlerFails(w))
  BY Zenon DEF Handle, StartQuery, StartInsert, BidRead, BidOrder, BidSave, BidOutbid, BidRetire, Feed, BuyRead,
     BuyLeft, BuySave, Withdraw, End, UpdatePrice, AcceptOffer, HandlerFails
<1> QED BY <1>4, <1>5, <1>7, <1>8, <1>9

BidsInv ==
  /\ ChainFine /\ QueueFine /\ RowsFine /\ OrdersFit
  /\ WorkInv /\ TurnsInv

\* Blocks that are taken are in order with the blocks they meet; and an event that
\* is emitted is of none that was taken.
LEMMA TurnsStep ==
  ASSUME TypeInv, QueueFine, WorkInv, TurnsInv, AuctionsApart', [Next]_vars, ~RevertBlock
  PROVE  TurnsInv'
<1> USE DEF chainVars, tableVars, At
<1>1. ASSUME UNCHANGED log, UNCHANGED queue \/ (\E w \in Workers : Dequeue(w)),
             \A w \in Workers : slot'[w].pc # "idle" => slot[w].pc # "idle" /\ slot'[w].hash = slot[w].hash,
             \A h \in done' : h \in done \/ \E w \in Workers : slot[w].pc # "idle" /\ h = slot[w].hash
      PROVE  TurnsInv'
  <2>1. \A h : InOrder(h) => InOrder(h)'
    <3>1. \A k \in DOMAIN queue' : \E j \in DOMAIN queue : queue'[k] = queue[j]
      BY <1>1, Dropped
    <3> QED BY <1>1, <3>1 DEF InOrder, Meet, Mentions
  <2> QED BY <1>1, <2>1 DEF TurnsInv
<1>2. ASSUME UNCHANGED <<log, queue, slot, done>> PROVE TurnsInv'
  BY <1>1, <1>2
<1>3. ASSUME NEW w \in Workers, Take(w) PROVE TurnsInv'
  <2>1. UNCHANGED <<log, queue, done>> /\ slot[w].pc = "idle"
    BY <1>3 DEF Take
  <2>2. PICK i \in DOMAIN queue :
          /\ queue[i].hash \notin Taken /\ \A j \in 1..(i-1) : queue[j].hash \in Taken
          /\ slot' = [slot EXCEPT ![w] = [IdleSlot EXCEPT !.hash = queue[i].hash, !.events = queue[i].events, !.pc = "next"]]
    BY <1>3 DEF Take
  <2>3. slot'[w].hash = queue[i].hash /\ slot'[w].pc = "next" /\ \A v \in Workers : v # w => slot'[v] = slot[v]
    BY <2>2 DEF IdleSlot, TypeInv, TypeOK
  <2>4. ASSUME NEW k \in DOMAIN queue, queue[k].hash < queue[i].hash, Meet(queue[i].hash, queue[k].hash) PROVE FALSE
    <3>1. k \in 1..(i - 1)
      BY <2>4, QueueTyped DEF QueueFine
    <3>2. PICK v \in Workers : slot[v].hash = queue[k].hash
      BY <2>2, <3>1 DEF Taken
    <3>3. slot[v].pc # "idle"
      BY <3>2 DEF QueueFine, WorkInv, Work
    <3>4. ~Meet(slot'[w].hash, slot'[v].hash)
      BY <2>1, <2>3, <3>3 DEF AuctionsApart, Meet, Mentions
    <3> QED BY <2>1, <2>3, <2>4, <3>2, <3>3, <3>4
  <2>5. \A h : InOrder(h) => InOrder(h)'
    BY <2>1 DEF InOrder, Meet, Mentions
  <2>6. InOrder(queue[i].hash)
    BY <2>4 DEF InOrder
  <2>7. \A v \in Workers : v # w => slot[v].hash # queue[i].hash
    BY <2>2 DEF Taken
  <2> QED BY <2>1, <2>3, <2>5, <2>6, <2>7 DEF TurnsInv
<1>4. ASSUME NEW w \in Workers, Handle(w) \/ HandlerFails(w), ~Take(w) PROVE TurnsInv'
  <2>1. /\ UNCHANGED log
        /\ \/ UNCHANGED <<queue, done>>
           \/ Dequeue(w) /\ UNCHANGED done
           \/ Dequeue(w) /\ slot[w].pc = "ack" /\ done' = done \cup {slot[w].hash}
    BY Zenon, <1>4 DEF Handle, Ack, StartQuery, StartInsert, BidRead, BidOrder, BidSave, BidOutbid, BidRetire, Feed,
       BuyRead, BuyLeft, BuySave, Withdraw, End, UpdatePrice, AcceptOffer, HandlerFails, Return, DeadLetter
  <2>2. slot'[w].pc # "idle" => slot[w].pc # "idle" /\ slot'[w].hash = slot[w].hash
    BY <1>4, StaysAtBlock
  <2>3. \A v \in Workers : slot'[v].pc # "idle" => slot[v].pc # "idle" /\ slot'[v].hash = slot[v].hash
    BY <1>4, <2>2, OtherSlots
  <2> QED BY <1>1, <2>1, <2>3
<1>5. ASSUME NEW e \in Event, Emit(e) PROVE TurnsInv'
  <2>1. UNCHANGED <<slot, done>>
    BY <1>5 DEF Emit
  <2>2. \A h, a : h # lastHash' => (Mentions(h, a)' <=> Mentions(h, a))
    <3>1. \A i \in DOMAIN log' : i \in DOMAIN log \/ i = Len(log) + 1
      BY <1>5, EmitLog
    <3> QED BY <1>5, <3>1, EmitLog DEF Mentions
  <2>3. ASSUME NEW h \in Nat, h < lastHash', InOrder(h) PROVE InOrder(h)'
    <3>1. ASSUME NEW k \in DOMAIN queue', NEW g, g = queue'[k].hash, g < h PROVE ~Meet(h, g)'
      <4>1. lastHash' \in Nat
        BY <1>5, EmitLog
      <4>2. g # lastHash'
        BY <2>3, <3>1, <4>1
      <4>3. PICK j \in DOMAIN queue : queue[j].hash = g
        BY <1>5, <3>1, <4>2, EmitElsewhere
      <4>4. h # lastHash'
        BY <2>3, <4>1
      <4> QED BY <2>2, <2>3, <3>1, <4>2, <4>3, <4>4 DEF InOrder, Meet
    <3> QED BY <3>1 DEF InOrder
  <2>4. /\ \A h \in done : h \in Nat /\ h < lastHash'
        /\ \A w \in Workers : slot[w].pc # "idle" => slot[w].hash \in Nat /\ slot[w].hash < lastHash'
    BY <1>5, EmitElsewhere DEF TypeInv, TypeOK, Slot
  <2> QED BY <2>1, <2>3, <2>4 DEF TurnsInv
<1>6. CASE Crash
  BY <1>1, <1>6 DEF Crash, IdleSlot
<1>7. ASSUME NEW x \in tasks, Settle(x) \/ TaskFails(x) PROVE TurnsInv'
  BY <1>7, <1>2 DEF Settle, TaskStatus, TaskSaveAuction, TaskSettle, TaskSaveOrder, TaskSeen, TaskClear, TaskNotify, TaskFails
<1>8. CASE Cron \/ (\E a \in Auctions : Deadline(a)) \/ UNCHANGED vars
  BY <1>8, <1>2 DEF Cron, CronRead, CronClear, CronNotify, CronSave, Deadline, vars
<1>9. CASE Rollback
  BY <1>9, <1>2 DEF Rollback, RevertRead, RevertReopen, RevertDelete, RevertOrders, RevertOrder, RevertRevive, RevertAck
<1> QED BY <1>3, <1>4, <1>5, <1>6, <1>7, <1>8, <1>9 DEF Next, Chain, Faulty

LEMMA BidsStep ==
  ASSUME TypeInv, TypeInv', NoReverts, FactsInv, SettlesAsBought, BidsInv, AuctionsApart, AuctionsApart', [Next]_vars, reverts' = 0
  PROVE  BidsInv'
<1> USE DEF chainVars, tableVars
<1>1. ~Rollback /\ ~RevertBlock
  BY NoRevertsStep
<1>2. ASSUME NEW w \in Workers PROVE \E b \in 0..Len(log) : Work(b, slot[w]) /\ Kept(b, slot[w])
  BY <1>1, BidsKept DEF BidsInv, WorkInv
<1>3. IdsStay
  BY <1>1, RowsStep DEF BidsInv, IdsStay
<1>4. TurnsInv'
  BY <1>1, TurnsStep DEF BidsInv
<1>5. RowsFine'
  BY <1>1, RowsStep DEF BidsInv
<1>6. ChainGrows => OrdersFit'
  BY <1>1, <1>2, <1>3, OrdersFitStep, WorkPlaced DEF BidsInv
<1>7. ASSUME UNCHANGED <<log, lastHash>> PROVE ChainFine' /\ ChainGrows
  BY <1>7 DEF BidsInv, ChainFine, ChainGrows
<1>8. ASSUME ChainFine', QueueFine', ChainGrows, \A w \in Workers : \A t : t = slot'[w] => \E b \in 0..Len(log') : Work(b, t)' PROVE BidsInv'
  BY <1>4, <1>5, <1>6, <1>8 DEF BidsInv, WorkInv
<1>9. ASSUME NEW w \in Workers, UNCHANGED <<log, queue, done>>, slot'[w] = slot[w], NEW s, s = slot[w]
      PROVE  \E b \in 0..Len(log') : Work(b, s)'
  <2>1. PICK b \in 0..Len(log) : Work(b, slot[w]) /\ Kept(b, slot[w])
    BY <1>2
  <2>2. slot[w].pc \notin {"idle", "ack"} => Head(slot[w].events) \in Event
    BY <2>1, NextEvent
  <2> QED BY <1>3, <1>9, <2>1, <2>2, WorkStays
<1>10. ASSUME UNCHANGED <<log, lastHash, queue, done, slot>> PROVE BidsInv'
  BY <1>7, <1>8, <1>9, <1>10 DEF BidsInv, QueueFine
<1>11. ASSUME NEW w \in Workers, Handle(w) \/ HandlerFails(w) PROVE BidsInv'
  <2>1. /\ UNCHANGED <<log, lastHash>>
        /\ \/ UNCHANGED <<queue, done>>
           \/ Dequeue(w) /\ slot[w].pc # "idle" /\ (done' = done \/ (done' = done \cup {slot[w].hash} /\ slot[w].pc = "ack"))
    BY Zenon, <1>11 DEF Handle, Take, Ack, StartQuery, StartInsert, BidRead, BidOrder, BidSave, BidOutbid, BidRetire, Feed,
       BuyRead, BuyLeft, BuySave, Withdraw, End, UpdatePrice, AcceptOffer, HandlerFails, Return, DeadLetter, At
  <2>2. PICK c \in 0..Len(log) : Work(c, slot[w]) /\ Kept(c, slot[w])
    BY <1>2
  <2>3. PICK s, u : s = slot[w] /\ u = slot'[w]
    OBVIOUS
  <2>4. QueueFine' /\ \E b \in 0..Len(log') : Work(b, u)'
    BY <1>3, <1>11, <2>2, <2>3, HandlerWorks DEF BidsInv
  <2>5. ASSUME NEW v \in Workers, v # w, NEW r, r = slot'[v] PROVE \E b \in 0..Len(log') : Work(b, r)'
    <3>1. r = slot[v]
      BY <1>11, <2>5, OtherSlots
    <3>2. CASE UNCHANGED <<queue, done>>
      BY <1>9, <2>1, <2>5, <3>1, <3>2
    <3>3. CASE Dequeue(w) /\ slot[w].pc # "idle" /\ (done' = done \/ (done' = done \cup {slot[w].hash} /\ slot[w].pc = "ack"))
      <4>1. PICK b \in 0..Len(log) : Work(b, slot[v]) /\ Kept(b, slot[v])
        BY <1>2
      <4> QED BY <1>3, <2>1, <2>2, <2>5, <3>1, <3>3, <4>1, WorkElsewhere DEF BidsInv
    <3> QED BY <2>1, <3>2, <3>3
  <2> QED BY <1>7, <1>8, <2>1, <2>3, <2>4, <2>5
<1>12. ASSUME NEW e \in Event, Emit(e) PROVE BidsInv'
  <2>1. ChainGrows /\ UNCHANGED slot
    BY <1>12, EmitLog DEF ChainGrows, Emit
  <2>2. ASSUME NEW w \in Workers, NEW t, t = slot'[w] PROVE \E b \in 0..Len(log') : Work(b, t)'
    <3>1. PICK b \in 0..Len(log) : Work(b, slot[w])
      BY <1>2
    <3> QED BY <1>12, <2>1, <2>2, <3>1, WorkEmits DEF BidsInv
  <2> QED BY <1>8, <1>12, <2>1, <2>2, EmitChain, EmitQueue DEF BidsInv
<1>13. ASSUME Crash PROVE BidsInv'
  <2>1. UNCHANGED <<log, lastHash, queue, done>> /\ \A w \in Workers : slot'[w] = IdleSlot
    BY <1>13 DEF Crash
  <2>2. ASSUME NEW w \in Workers, NEW t, t = slot'[w] PROVE \E b \in 0..Len(log') : Work(b, t)'
    <3>1. PICK b \in 0..Len(log) : Work(b, slot[w]) /\ Kept(b, slot[w])
      BY <1>2
    <3> QED BY <2>1, <2>2, <3>1, WorkEnds
  <2> QED BY <1>7, <1>8, <2>1, <2>2 DEF BidsInv, QueueFine
<1>14. ASSUME NEW x \in tasks, Settle(x) \/ TaskFails(x) PROVE BidsInv'
  BY <1>14, <1>10 DEF Settle, TaskStatus, TaskSaveAuction, TaskSettle, TaskSaveOrder, TaskSeen, TaskClear, TaskNotify,
     TaskFails
<1>15. ASSUME Cron \/ (\E a \in Auctions : Deadline(a)) \/ UNCHANGED vars PROVE BidsInv'
  BY <1>15, <1>10 DEF Cron, CronRead, CronClear, CronNotify, CronSave, Deadline, vars
<1>16. CASE Next
  BY <1>1, <1>11, <1>12, <1>13, <1>14, <1>15, <1>16 DEF Chain, Next, Faulty
<1> QED BY <1>15, <1>16

LEMMA BidsInit == Init => BidsInv /\ NoReverts
<1> SUFFICES ASSUME Init PROVE BidsInv /\ NoReverts
  OBVIOUS
<1>1. OrdersFit
  BY FactsInit DEF FactsInv, Given, Init, OrderIds, OrdersFit
<1>2. WorkInv
  BY DEF Init, IdleSlot, Work, Due, WorkInv
<1>3. TurnsInv
  BY DEF Init, IdleSlot, TurnsInv, At
<1>4. NoReverts
  BY DEF Init, NoReverts, IdleRevert
<1> QED BY <1>1, <1>2, <1>3, <1>4 DEF BidsInv, ChainFine, QueueFine, Init, NoAuction, SavedRows, IdleCron, RowsFine

\* No bid of an acknowledged block is lost, as long as no two blocks in hand are
\* about the same auction and no block was reverted: however many blocks of other
\* auctions are handled at the same time, and whatever crashes or fails, each has
\* its order, unless its auction never got a row. (A block that is given up is
\* dead, not acknowledged.)
THEOREM NoBidIsLost == Spec /\ []AuctionsApart => [](reverts = 0 => BidsRecorded)
<1> DEFINE Inv == reverts = 0 => BidsInv
<1>1. TypeInv /\ BidsInv => BidsRecorded
  <2> SUFFICES ASSUME TypeInv, BidsInv, NEW i \in DOMAIN log, IsBid(log[i].event), log[i].hash \in done, Indexed(log[i].event.a)
               PROVE  Recorded(log[i].event)
    BY DEF BidsRecorded, IsBid, Recorded
  <2>1. PICK w \in Workers, b \in 0..Len(log) : Work(b, slot[w])
    BY SetsAssumption DEF BidsInv, WorkInv
  <2>2. log[i].event \in Event
    BY LogTyped
  <2>3. Due(log[i].event, b, slot[w])
    BY DEF Due
  <2> QED BY <2>1, <2>2, <2>3 DEF Work, Counted
<1>2. TypeInv /\ TypeInv' /\ FactsInv /\ NoReverts /\ SettlesAsBought /\ Inv /\ AuctionsApart /\ AuctionsApart' /\ [Next]_vars => Inv'
  BY BidsStep, NoRevertsStep
<1>3. TypeInv /\ NoReverts /\ [Next]_vars => NoReverts'
  BY NoRevertsStep
<1>4. TypeInv /\ SettlesAsBought /\ [Next]_vars => SettlesAsBought'
  BY SettlesStep
<1>5. Init => Inv /\ NoReverts /\ SettlesAsBought
  BY BidsInit, LeadInit
<1>6. TypeInv /\ Inv => (reverts = 0 => BidsRecorded)
  BY <1>1
<1> HIDE DEF Inv
<1> QED BY <1>2, <1>3, <1>4, <1>5, <1>6, TypeInit, TypeStep, RevertedStep, FactsInit, FactsStep, PTL DEF Spec

=============================================================================
