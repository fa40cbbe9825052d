------------------------ MODULE OfferIndexer_proofs ------------------------
(***************************************************************************)
(* Proofs about OfferIndexer: its type invariant, that an offer that is    *)
(* over stays over, and that nobody is left uninformed, for any number of  *)
(* workers, crashes and failures; and that as long as no two blocks in     *)
(* hand hold events of one offer (OffersApart) the status of an offer is   *)
(* explained by its last event handled, or by the cron.                    *)
(***************************************************************************)
EXTENDS OfferIndexer, SequenceTheorems, TLAPS

\* A worker that is handling an event has one, and what it remembers of an offer
\* is an offer that has a row: rows are never deleted.
Holds(s, chain, table) ==
  /\ s.pc # "idle" => s.block \in DOMAIN chain
  /\ s.pc \notin {"idle", "ack"} => s.pos \in DOMAIN chain[s.block]
  /\ s.pc = "save" => /\ table[chain[s.block][s.pos].o] # "absent"
                      /\ chain[s.block][s.pos].kind \in {"accept", "withdraw"}
Kept ==
  /\ \A w \in Workers : Holds(slot[w], blocks, offers)
  /\ \A o \in cron.offers : offers[o] # "absent"
\* The type invariant, without the two variables of the auctions.
Typed ==
  /\ blocks \in Seq(Seq(Event) \ {<<>>}) /\ fate \in Seq({"queued", "done", "dead"})
  /\ Len(fate) = Len(blocks)
  /\ expired \subseteq Offers
  /\ slot \in [Workers -> Slot]
  /\ tasks \subseteq Task
  /\ offers \in [Offers -> OfferStatus \cup {"absent"}]
  /\ notifs \subseteq Notification
  /\ cron \in [pc : {"idle", "notify", "save"}, offers : SUBSET Offers]
  /\ faults \in Nat
AuctionsTyped == told \in [Offers -> {"nobody", "owner", "auction"}] /\ closed \subseteq Auctioned
IndInv == Typed /\ Kept

\* What one step may do to the table.
OffersStep ==
  \A o \in Offers : offers'[o] # offers[o] =>
    IF offers[o] = "absent" THEN offers'[o] = "Active" ELSE offers'[o] \notin {"absent", "Active"}

-----------------------------------------------------------------------------
LEMMA IdleTypes == IdleSlot \in Slot /\ IdleSlot.pc = "idle"
  BY DEF IdleSlot, Slot

LEMMA Current ==
  ASSUME IndInv, NEW w \in Workers, ~At(w, "idle")
  PROVE  /\ slot[w] \in Slot /\ slot[w].block \in DOMAIN blocks /\ slot[w].block \in Nat /\ slot[w].pos \in Nat \ {0}
         /\ blocks[slot[w].block] \in Seq(Event)
         /\ ~At(w, "ack") => slot[w].pos \in DOMAIN blocks[slot[w].block] /\ event(w) \in Event /\ event(w).o \in Offers
<1>1. slot[w] \in Slot /\ Holds(slot[w], blocks, offers) /\ slot[w].pc # "idle"
  BY DEF IndInv, Typed, Kept, At
<1>2. slot[w].block \in DOMAIN blocks /\ slot[w].block \in Nat /\ slot[w].pos \in Nat \ {0}
  BY <1>1 DEF Holds, Slot
<1>3. blocks[slot[w].block] \in Seq(Event)
  BY <1>2 DEF IndInv, Typed
<1>4. ~At(w, "ack") => slot[w].pos \in DOMAIN blocks[slot[w].block]
  BY <1>1 DEF Holds, At
<1>5. ~At(w, "ack") => event(w) \in Event
  BY <1>3, <1>4 DEF event
<1>6. ~At(w, "ack") => event(w).o \in Offers
  BY <1>5 DEF Event
<1> QED  BY <1>1, <1>2, <1>3, <1>4, <1>5, <1>6

\* A step that changes one slot, and no block, and deletes no row.
LEMMA SlotStep ==
  ASSUME IndInv, NEW w \in Workers, NEW new \in Slot, slot' = [slot EXCEPT ![w] = new],
         blocks' = blocks, OffersStep, Holds(new, blocks', offers')
  PROVE  slot' \in [Workers -> Slot] /\ \A v \in Workers : Holds(slot'[v], blocks', offers')
<1>1. slot' \in [Workers -> Slot] /\ slot'[w] = new /\ \A v \in Workers \ {w} : slot'[v] = slot[v]
  BY DEF IndInv, Typed
<1>2. ASSUME NEW v \in Workers, v # w
      PROVE  Holds(slot'[v], blocks', offers')
  <2>1. Holds(slot[v], blocks, offers) /\ slot'[v] = slot[v] /\ slot[v] \in Slot
    BY <1>1, <1>2 DEF IndInv, Typed, Kept
  <2>2. CASE slot[v].pc = "save"
    <3>1. ~At(v, "idle") /\ ~At(v, "ack")
      BY <2>2 DEF At
    <3>2. blocks[slot[v].block][slot[v].pos].o \in Offers
      BY <3>1, Current DEF event
    <3> QED  BY <2>1, <2>2, <3>2 DEF Holds, OffersStep
  <2>3. CASE slot[v].pc # "save"
    BY <2>1, <2>3 DEF Holds
  <2> QED  BY <2>2, <2>3
<1>3. Holds(slot'[w], blocks', offers')
  BY <1>1
<1> QED  BY <1>1, <1>2, <1>3

\* The handler of an event goes on, returns, or gives its block up.
LEMMA GotoStep ==
  ASSUME IndInv, NEW w \in Workers, ~At(w, "idle"), ~At(w, "ack"),
         NEW pc \in {"announce", "clear"}, Goto(w, pc), blocks' = blocks, OffersStep
  PROVE  slot' \in [Workers -> Slot] /\ fate' = fate /\ \A v \in Workers : Holds(slot'[v], blocks', offers')
<1> DEFINE new == [slot[w] EXCEPT !.pc = pc]
<1>1. slot' = [slot EXCEPT ![w] = new] /\ fate' = fate
  BY DEF Goto
<1>2. new \in Slot /\ new.pc = pc /\ new.block = slot[w].block /\ new.pos = slot[w].pos
  BY Current DEF Slot
<1>3. Holds(new, blocks', offers')
  BY <1>2, Current DEF Holds
<1> HIDE DEF new
<1> QED  BY <1>1, <1>2, <1>3, SlotStep

LEMMA ReturnStep ==
  ASSUME IndInv, NEW w \in Workers, ~At(w, "idle"), ~At(w, "ack"), Return(w), blocks' = blocks, OffersStep
  PROVE  slot' \in [Workers -> Slot] /\ fate' = fate /\ \A v \in Workers : Holds(slot'[v], blocks', offers')
<1> DEFINE last == slot[w].pos = Len(blocks[slot[w].block])
           new == [block |-> slot[w].block, pos |-> slot[w].pos + 1, pc |-> IF last THEN "ack" ELSE "next"]
<1>1. slot' = [slot EXCEPT ![w] = new] /\ fate' = fate
  BY DEF Return
<1>2. /\ new \in Slot /\ new.pc = (IF last THEN "ack" ELSE "next")
      /\ new.block = slot[w].block /\ new.pos = slot[w].pos + 1
  BY Current DEF Slot
<1>3. ~last => slot[w].pos + 1 \in DOMAIN blocks[slot[w].block]
  BY Current
<1>4. Holds(new, blocks', offers')
  BY <1>2, <1>3, Current DEF Holds
<1> HIDE DEF new
<1> QED  BY <1>1, <1>2, <1>4, SlotStep

LEMMA LeaveStep ==
  ASSUME IndInv, NEW w \in Workers, ~At(w, "idle"), NEW how \in {"done", "dead"}, Leave(w, how),
         blocks' = blocks, OffersStep
  PROVE  /\ slot' \in [Workers -> Slot] /\ \A v \in Workers : Holds(slot'[v], blocks', offers')
         /\ fate' \in Seq({"queued", "done", "dead"}) /\ Len(fate') = Len(fate)
<1>1. slot' = [slot EXCEPT ![w] = IdleSlot] /\ fate' = [fate EXCEPT ![slot[w].block] = how]
  BY DEF Leave
<1>2. Holds(IdleSlot, blocks', offers')
  BY IdleTypes DEF Holds
<1>3. slot[w].block \in DOMAIN fate
  BY Current DEF IndInv, Typed
<1>4. fate' \in Seq({"queued", "done", "dead"}) /\ Len(fate') = Len(fate)
  BY <1>1, <1>3 DEF IndInv, Typed
<1> QED  BY <1>1, <1>2, <1>4, IdleTypes, SlotStep

-----------------------------------------------------------------------------
(* One step, action by action.                                             *)

\* The chain grows at the end of its last block, which no worker handles.
LEMMA ChainGrows ==
  ASSUME IndInv, NEW e \in Event, Emit(e)
  PROVE  /\ blocks' \in Seq(Seq(Event) \ {<<>>}) /\ fate' \in Seq({"queued", "done", "dead"})
         /\ Len(fate') = Len(blocks')
         /\ \A b \in DOMAIN blocks :
              /\ b \in DOMAIN blocks'
              /\ \A i \in DOMAIN blocks[b] : i \in DOMAIN blocks'[b] /\ blocks'[b][i] = blocks[b][i]
<1>1. CASE blocks' = Append(blocks, <<e>>) /\ fate' = Append(fate, "queued")
  <2>1. <<e>> \in Seq(Event) \ {<<>>} /\ "queued" \in {"queued", "done", "dead"}
    OBVIOUS
  <2> QED  BY <1>1, <2>1 DEF IndInv, Typed
<1>2. CASE blocks # <<>> /\ blocks' = [blocks EXCEPT ![Len(blocks)] = Append(@, e)] /\ fate' = fate
  <2>1. Len(blocks) \in DOMAIN blocks
    BY <1>2 DEF IndInv, Typed
  <2> DEFINE last == blocks[Len(blocks)]
  <2>2. last \in Seq(Event)
    BY <2>1 DEF IndInv, Typed
  <2>3. /\ Append(last, e) \in Seq(Event) /\ Append(last, e) # <<>>
        /\ \A i \in DOMAIN last : i \in DOMAIN Append(last, e) /\ Append(last, e)[i] = last[i]
    <3>1. Len(Append(last, e)) = Len(last) + 1 /\ Len(last) \in Nat /\ Len(<<>>) = 0
      BY <2>2
    <3> QED  BY <2>2, <3>1
  <2> QED  BY <1>2, <2>1, <2>3 DEF IndInv, Typed
<1> QED  BY <1>1, <1>2 DEF Emit

LEMMA EmitStep ==
  ASSUME IndInv, NEW e \in Event, Emit(e)
  PROVE  IndInv' /\ OffersStep
<1>0. UNCHANGED <<expired, slot, tasks, offers, notifs, cron, faults>>
  BY DEF Emit
<1>1. OffersStep
  BY <1>0 DEF OffersStep
<1>2. ASSUME NEW w \in Workers
      PROVE  Holds(slot'[w], blocks', offers')
  <2>1. Holds(slot[w], blocks, offers) /\ slot'[w] = slot[w]
    BY <1>0 DEF IndInv, Kept
  <2> QED  BY <1>0, <2>1, ChainGrows DEF Holds
<1>3. Kept'
  BY <1>0, <1>2 DEF IndInv, Kept
<1> QED  BY <1>0, <1>1, <1>3, ChainGrows DEF IndInv, Typed

LEMMA DeadlineStep ==
  ASSUME IndInv, NEW o \in Offers, Deadline(o)
  PROVE  IndInv' /\ OffersStep
<1>1. /\ UNCHANGED <<blocks, fate, slot, tasks, offers, notifs, cron, faults>>
      /\ expired' = expired \cup {o}
  BY DEF Deadline
<1>2. Typed'
  BY <1>1 DEF IndInv, Typed
<1>3. Kept'
  BY <1>1 DEF IndInv, Kept, Holds
<1> QED  BY <1>1, <1>2, <1>3 DEF IndInv, OffersStep

\* A step of a worker: what it leaves to show once its slot and its block are right.
LEMMA WorkerStep ==
  ASSUME IndInv, OffersStep, UNCHANGED <<blocks, expired, cron>>, faults' \in Nat,
         slot' \in [Workers -> Slot], \A v \in Workers : Holds(slot'[v], blocks', offers'),
         fate' \in Seq({"queued", "done", "dead"}), Len(fate') = Len(fate),
         offers' \in [Offers -> OfferStatus \cup {"absent"}], tasks' \subseteq Task, notifs' \subseteq Notification
  PROVE  IndInv' /\ OffersStep
<1>1. Typed'
  BY DEF IndInv, Typed
<1>2. \A o \in cron'.offers : offers'[o] # "absent"
  BY DEF IndInv, Typed, Kept, OffersStep
<1> QED  BY <1>1, <1>2 DEF IndInv, Kept

LEMMA HandleStep ==
  ASSUME IndInv, NEW w \in Workers, Handle(w)
  PROVE  IndInv' /\ OffersStep
<1>0. Typed
  BY DEF IndInv
<1>1. CASE Take(w)
  <2>1. UNCHANGED <<blocks, fate, expired, tasks, offers, notifs, cron, faults>>
    BY <1>1 DEF Take
  <2>2. PICK b \in DOMAIN blocks : slot' = [slot EXCEPT ![w] = [block |-> b, pos |-> 1, pc |-> "next"]]
    BY <1>1 DEF Take
  <2> DEFINE new == [block |-> b, pos |-> 1, pc |-> "next"]
  <2>3. new \in Slot /\ new.block = b /\ new.pos = 1 /\ new.pc = "next"
    BY <1>0 DEF Typed, Slot
  <2>4. 1 \in DOMAIN blocks[b]
    BY <1>0 DEF Typed
  <2>5. Holds(new, blocks', offers')
    BY <2>1, <2>3, <2>4 DEF Holds
  <2> HIDE DEF new
  <2>6. OffersStep
    BY <2>1 DEF OffersStep
  <2>7. slot' \in [Workers -> Slot] /\ \A v \in Workers : Holds(slot'[v], blocks', offers')
    BY <2>1, <2>2, <2>3, <2>5, <2>6, SlotStep DEF new
  <2> QED  BY <1>0, <2>1, <2>6, <2>7, WorkerStep DEF Typed
<1>2. CASE Ack(w)
  <2>1. UNCHANGED <<blocks, expired, tasks, offers, notifs, cron, faults>> /\ Leave(w, "done") /\ ~At(w, "idle")
    BY <1>2 DEF Ack, At
  <2>2. OffersStep
    BY <2>1 DEF OffersStep
  <2> QED  BY <1>0, <2>1, <2>2, LeaveStep, WorkerStep DEF Typed
<1>3. CASE SendInsert(w)
  <2>1. UNCHANGED <<blocks, expired, tasks, notifs, cron, faults>> /\ ~At(w, "idle") /\ ~At(w, "ack")
    BY <1>3 DEF SendInsert, At
  <2>2. CASE Insertable(event(w).o) /\ offers' = [offers EXCEPT ![event(w).o] = "Active"] /\ Goto(w, "announce")
    <3>1. offers' \in [Offers -> OfferStatus \cup {"absent"}] /\ OffersStep
      BY <1>0, <2>1, <2>2, Current DEF Typed, OfferStatus, OffersStep, Insertable
    <3> QED  BY <1>0, <2>1, <2>2, <3>1, GotoStep, WorkerStep DEF Typed
  <2>3. CASE Leave(w, "dead") /\ offers' = offers
    <3>1. OffersStep
      BY <2>3 DEF OffersStep
    <3> QED  BY <1>0, <2>1, <2>3, <3>1, LeaveStep, WorkerStep DEF Typed
  <2> QED  BY <1>3, <2>2, <2>3 DEF SendInsert
<1>4. CASE SendAnnounce(w)
  <2>1. UNCHANGED <<blocks, expired, offers, notifs, cron, faults>> /\ ~At(w, "idle") /\ ~At(w, "ack") /\ Return(w)
    BY <1>4 DEF SendAnnounce, At
  <2>2. [task |-> "notify", rows |-> {[type |-> "OfferReceived", o |-> event(w).o]}] \in Task
    BY <2>1, Current DEF Task, Notification
  <2>3. tasks' \subseteq Task
    BY <1>0, <1>4, <2>2 DEF SendAnnounce, Typed
  <2>4. OffersStep
    BY <2>1 DEF OffersStep
  <2> QED  BY <1>0, <2>1, <2>3, <2>4, ReturnStep, WorkerStep DEF Typed
<1>5. CASE OfferRead(w)
  <2>1. /\ UNCHANGED <<blocks, expired, tasks, offers, notifs, cron, faults>> /\ ~At(w, "idle") /\ ~At(w, "ack")
        /\ event(w).kind \in {"accept", "withdraw"}
    BY <1>5 DEF OfferRead, At
  <2>2. OffersStep
    BY <2>1 DEF OffersStep
  <2>3. CASE offers[event(w).o] # "absent" /\ Goto(w, "save")
    <3> DEFINE new == [slot[w] EXCEPT !.pc = "save"]
    <3>1. slot' = [slot EXCEPT ![w] = new] /\ fate' = fate
      BY <2>3 DEF Goto
    <3>2. new \in Slot /\ new.pc = "save" /\ new.block = slot[w].block /\ new.pos = slot[w].pos
      BY <2>1, Current DEF Slot
    <3>3. Holds(new, blocks', offers')
      BY <2>1, <2>3, <3>2, Current DEF Holds, event
    <3> HIDE DEF new
    <3>4. slot' \in [Workers -> Slot] /\ \A v \in Workers : Holds(slot'[v], blocks', offers')
      BY <2>1, <2>2, <3>1, <3>2, <3>3, SlotStep
    <3> QED  BY <1>0, <2>1, <2>2, <3>1, <3>4, WorkerStep DEF Typed
  <2>4. CASE Return(w)
    BY <1>0, <2>1, <2>2, <2>4, ReturnStep, WorkerStep DEF Typed
  <2>5. CASE Leave(w, "dead")
    BY <1>0, <2>1, <2>2, <2>5, LeaveStep, WorkerStep DEF Typed
  <2> QED  BY <1>5, <2>3, <2>4, <2>5 DEF OfferRead
<1>6. CASE OfferSave(w)
  <2>1. /\ UNCHANGED <<blocks, expired, notifs, cron, faults>> /\ ~At(w, "idle") /\ ~At(w, "ack")
        /\ offers' = [offers EXCEPT ![event(w).o] = StatusOf(event(w).kind)]
    BY <1>6 DEF OfferSave, At
  <2>2. offers[event(w).o] # "absent" /\ event(w).kind \in {"accept", "withdraw"}
    BY <1>6 DEF OfferSave, At, IndInv, Kept, Holds, event
  <2>3. StatusOf(event(w).kind) \in {"Accepted", "Closed"}
    BY <2>2 DEF StatusOf
  <2>4. offers' \in [Offers -> OfferStatus \cup {"absent"}] /\ OffersStep
    BY <1>0, <2>1, <2>2, <2>3, Current DEF Typed, OfferStatus, OffersStep
  <2>5. CASE Goto(w, "clear") /\ tasks' = tasks
    BY <1>0, <2>1, <2>4, <2>5, GotoStep, WorkerStep DEF Typed
  <2>6. CASE Return(w) /\ tasks' = tasks \cup {[task |-> "clear", item |-> Item[event(w).o]]}
    <3>1. Item[event(w).o] \in Items
      BY <2>1, Current, OffersAssumption
    <3>2. tasks' \subseteq Task
      BY <1>0, <2>6, <3>1 DEF Task, Typed
    <3> QED  BY <1>0, <2>1, <2>4, <2>6, <3>2, ReturnStep, WorkerStep DEF Typed
  <2> QED  BY <1>6, <2>5, <2>6 DEF OfferSave
<1>7. CASE AcceptClear(w)
  <2>1. /\ UNCHANGED <<blocks, expired, tasks, offers, cron, faults>> /\ ~At(w, "idle") /\ ~At(w, "ack") /\ Return(w)
        /\ notifs' \subseteq notifs
    BY <1>7 DEF AcceptClear, At
  <2>2. OffersStep
    BY <2>1 DEF OffersStep
  <2> QED  BY <1>0, <2>1, <2>2, ReturnStep, WorkerStep DEF Typed
<1> QED  BY <1>1, <1>2, <1>3, <1>4, <1>5, <1>6, <1>7 DEF Handle

LEMMA SettleStep ==
  ASSUME IndInv, NEW t \in tasks, Settle(t)
  PROVE  IndInv' /\ OffersStep
<1>1. UNCHANGED <<blocks, fate, expired, slot, offers, cron, faults>> /\ tasks' \subseteq tasks
  BY DEF Settle, TaskNotify, TaskClear
<1>2. t.task = "notify" => t.rows \subseteq Notification
  BY DEF IndInv, Typed, Task
<1>3. notifs' \subseteq Notification
  BY <1>2 DEF Settle, TaskNotify, TaskClear, IndInv, Typed
<1>4. Typed'
  BY <1>1, <1>3 DEF IndInv, Typed
<1>5. Kept'
  BY <1>1 DEF IndInv, Kept
<1> QED  BY <1>1, <1>4, <1>5 DEF IndInv, OffersStep

LEMMA CronStep ==
  ASSUME IndInv, Cron
  PROVE  IndInv' /\ OffersStep
<1>0. Typed /\ Kept
  BY DEF IndInv
<1>1. CASE CronRead
  <2>1. /\ UNCHANGED <<blocks, fate, expired, slot, tasks, offers, notifs, faults>>
        /\ cron' = [pc |-> "notify", offers |-> ReachedDeadline]
    BY <1>1 DEF CronRead
  <2>2. ReachedDeadline \subseteq Offers /\ \A o \in ReachedDeadline : offers[o] # "absent"
    BY <1>0 DEF ReachedDeadline, Typed
  <2>3. Typed' /\ Kept'
    BY <1>0, <2>1, <2>2 DEF Typed, Kept
  <2> QED  BY <2>1, <2>3 DEF IndInv, OffersStep
<1>2. CASE CronNotify
  <2>1. /\ UNCHANGED <<blocks, fate, expired, slot, offers, notifs, faults>>
        /\ cron' = [cron EXCEPT !.pc = "save"]
        /\ tasks' = tasks \cup {[task |-> "notify", rows |-> {[type |-> "OfferExpired", o |-> o] : o \in cron.offers}]}
    BY <1>2 DEF CronNotify
  <2>2. cron.offers \subseteq Offers
    BY <1>0 DEF Typed
  <2>3. {[type |-> "OfferExpired", o |-> o] : o \in cron.offers} \in SUBSET Notification
    BY <2>2 DEF Notification
  <2>4. tasks' \subseteq Task
    BY <1>0, <2>1, <2>3 DEF Task, Typed
  <2>5. cron' \in [pc : {"idle", "notify", "save"}, offers : SUBSET Offers] /\ cron'.offers = cron.offers
    BY <1>0, <2>1 DEF Typed
  <2>6. Typed' /\ Kept'
    BY <1>0, <2>1, <2>4, <2>5 DEF Typed, Kept
  <2> QED  BY <2>1, <2>6 DEF IndInv, OffersStep
<1>3. CASE CronSave
  <2>1. /\ UNCHANGED <<blocks, fate, expired, slot, tasks, notifs, faults>> /\ cron' = IdleCron
        /\ offers' = [o \in Offers |-> IF o \in cron.offers THEN "Expired" ELSE offers[o]]
    BY <1>3 DEF CronSave
  <2>2. OffersStep
    BY <1>0, <2>1 DEF Typed, Kept, OffersStep
  <2>3. Typed'
    BY <1>0, <2>1 DEF Typed, IdleCron, OfferStatus
  <2>4. ASSUME NEW w \in Workers
        PROVE  Holds(slot'[w], blocks', offers')
    <3>1. Holds(slot[w], blocks, offers)
      BY <1>0 DEF Kept
    <3>2. slot[w].pc = "save" => blocks[slot[w].block][slot[w].pos].o \in Offers
      BY Current DEF At, event
    <3> QED  BY <2>1, <2>2, <3>1, <3>2 DEF Holds, OffersStep
  <2>5. Kept'
    BY <2>1, <2>4 DEF Kept, IdleCron
  <2> QED  BY <2>2, <2>3, <2>5 DEF IndInv
<1> QED  BY <1>1, <1>2, <1>3 DEF Cron

LEMMA FaultStep ==
  ASSUME IndInv, Faulty
  PROVE  IndInv' /\ OffersStep
<1>0. Typed /\ Kept /\ faults' \in Nat
  BY DEF IndInv, Typed, Faulty, Crash, HandlerFails, CronFails
<1>1. OffersStep
  BY DEF Faulty, Crash, HandlerFails, CronFails, OffersStep
<1>2. CASE Crash
  <2>1. /\ UNCHANGED <<blocks, fate, expired, offers, notifs>>
        /\ slot' = [w \in Workers |-> IdleSlot] /\ tasks' = {} /\ cron' = IdleCron
    BY <1>2 DEF Crash
  <2>2. Typed'
    BY <1>0, <2>1, IdleTypes DEF Typed, IdleCron
  <2>3. Kept'
    BY <2>1, IdleTypes DEF Kept, Holds, IdleCron
  <2> QED  BY <1>1, <2>2, <2>3 DEF IndInv
<1>3. ASSUME NEW w \in Workers, HandlerFails(w)
      PROVE  IndInv' /\ OffersStep
  <2>1. UNCHANGED <<blocks, expired, tasks, offers, notifs, cron>> /\ ~At(w, "idle")
    BY <1>3 DEF HandlerFails
  <2>2. CASE Leave(w, "dead")
    BY <1>0, <1>1, <2>1, <2>2, LeaveStep, WorkerStep DEF Typed
  <2>3. CASE slot[w].pc \in {"announce", "clear"} /\ Return(w)
    <3>1. ~At(w, "ack")
      BY <2>3 DEF At
    <3> QED  BY <1>0, <1>1, <2>1, <2>3, <3>1, ReturnStep, WorkerStep DEF Typed
  <2> QED  BY <1>3, <2>2, <2>3 DEF HandlerFails
<1>4. CASE CronFails
  <2>1. UNCHANGED <<blocks, fate, expired, slot, tasks, offers, notifs>> /\ cron' = IdleCron
    BY <1>4 DEF CronFails
  <2>2. Typed' /\ Kept'
    BY <1>0, <2>1 DEF Typed, Kept, IdleCron
  <2> QED  BY <1>1, <2>2 DEF IndInv
<1> QED  BY <1>2, <1>3, <1>4 DEF Faulty

LEMMA OneStep ==
  ASSUME IndInv, [Next]_vars
  PROVE  IndInv' /\ OffersStep
<1>1. CASE UNCHANGED vars
  <2>1. Typed'
    BY <1>1 DEF IndInv, Typed, vars
  <2>2. Kept'
    BY <1>1 DEF IndInv, Kept, vars
  <2> QED  BY <1>1, <2>1, <2>2 DEF IndInv, OffersStep, vars
<1>2. ASSUME NEW item \in Auctioned, AuctionClears(item)
      PROVE  IndInv' /\ OffersStep
  <2>1. /\ UNCHANGED <<blocks, fate, expired, slot, tasks, offers, cron, faults>> /\ notifs' \subseteq notifs
    BY <1>2 DEF AuctionClears
  <2>2. Typed'
    BY <2>1 DEF IndInv, Typed
  <2>3. Kept'
    BY <2>1 DEF IndInv, Kept
  <2> QED  BY <2>1, <2>2, <2>3 DEF IndInv, OffersStep
<1>3. CASE Next
  BY <1>2, <1>3, EmitStep, DeadlineStep, HandleStep, SettleStep, CronStep, FaultStep DEF Next
<1> QED  BY <1>1, <1>3

LEMMA InitInv == Init => IndInv
<1> SUFFICES ASSUME Init PROVE IndInv
  OBVIOUS
<1>1. Typed
  BY IdleTypes DEF Init, Typed, IdleCron
<1>2. Kept
  BY IdleTypes DEF Init, Kept, Holds, IdleCron
<1> QED  BY <1>1, <1>2 DEF IndInv

\* What a handler or an auction says of whom to tell.
LEMMA Audience ==
  ASSUME NEW item, NEW to \in Addressees(item)
  PROVE  /\ to \in {"nobody", "owner", "auction"}
         /\ item \in Announced /\ to = "nobody" => item \in closed
  BY DEF Addressees

LEMMA AuctionsStep ==
  ASSUME IndInv, AuctionsTyped, [Next]_vars
  PROVE  AuctionsTyped'
<1>1. ASSUME NEW w \in Workers, SendAnnounce(w)
      PROVE  AuctionsTyped'
  BY <1>1, Audience DEF SendAnnounce, AuctionsTyped
<1>2. ASSUME NEW item \in Auctioned, AuctionClears(item)
      PROVE  AuctionsTyped'
  BY <1>2 DEF AuctionClears, AuctionsTyped
<1>3. \/ UNCHANGED <<told, closed>> \/ \E w \in Workers : SendAnnounce(w)
      \/ \E item \in Auctioned : AuctionClears(item)
  BY DEF Next, vars, auctionVars, Emit, Deadline, Handle, Take, Ack, SendInsert, OfferRead, OfferSave, AcceptClear,
         Settle, TaskNotify, TaskClear, Cron, CronRead, CronNotify, CronSave, Faulty, Crash, HandlerFails, CronFails
<1> QED  BY <1>1, <1>2, <1>3 DEF AuctionsTyped

\* Every row, promise, block and slot keeps its type, and what a handler or the
\* cron remembers has a row, whatever crashes and fails.
THEOREM OffersTyped == Spec => []TypeOK
<1>1. Init => IndInv
  BY InitInv
<1>2. IndInv /\ [Next]_vars => IndInv'
  BY OneStep
<1>3. Init => AuctionsTyped
  BY DEF Init, AuctionsTyped
<1>4. IndInv /\ AuctionsTyped /\ [Next]_vars => AuctionsTyped'
  BY AuctionsStep
<1>5. IndInv /\ AuctionsTyped => TypeOK
  BY DEF IndInv, Typed, AuctionsTyped, TypeOK
<1> QED  BY <1>1, <1>2, <1>3, <1>4, <1>5, PTL DEF Spec

\* An offer that is over never becomes active again and no row disappears, with any
\* number of workers, redelivered blocks and late runs of the cron.
THEOREM OffersStayOver == Spec => OfferNeverReopens
<1>1. Init => IndInv
  BY InitInv
<1>2. IndInv /\ [Next]_vars => IndInv'
  BY OneStep
<1>3. IndInv /\ [Next]_vars => [OffersStep]_offers
  BY OneStep
<1>4. OfferNeverReopens <=> [][OffersStep]_offers
  BY PTL DEF OfferNeverReopens, OffersStep
<1> QED  BY <1>1, <1>2, <1>3, <1>4, PTL DEF Spec
-----------------------------------------------------------------------------
(* Nobody is left uninformed. While nothing has failed, a notification that  *)
(* somebody must get is there, or a promise is about to save it, or the      *)
(* handler is about to start that promise; and what clears notifications was *)
(* started by an event that ends an offer for the same NFT.                  *)

Quiet(item) == \A p \in Offers : Item[p] = item => ~Happened(p, {"accept", "withdraw"})
Told(n) == n \in notifs \/ \E t \in tasks : t.task = "notify" /\ n \in t.rows
Received(o) == offers[o] # "absent" /\ Item[o] \in Announced =>
  \/ Told([type |-> "OfferReceived", o |-> o])
  \/ \E w \in Workers : At(w, "announce") /\ event(w).o = o
  \/ told[o] # "owner" /\ Item[o] \in closed
Expiry(o) == offers[o] = "Expired" \/ (cron.pc = "save" /\ o \in cron.offers) =>
  Told([type |-> "OfferExpired", o |-> o])

BlocksFit == \A b \in DOMAIN blocks : Len(blocks[b]) <= BlockSize
ClearsAccepted == \A w \in Workers : At(w, "clear") => event(w).kind = "accept"
ClearsEnded == \A t \in tasks : t.task = "clear" => ~Quiet(t.item)
AllTold == faults = 0 => \A o \in Offers : Quiet(Item[o]) => Received(o) /\ Expiry(o)
Announcing == BlocksFit /\ ClearsAccepted /\ ClearsEnded /\ AllTold

\* The event a worker handles is one that happened.
LEMMA AtWork ==
  ASSUME IndInv, BlocksFit, NEW w \in Workers, ~At(w, "idle"), ~At(w, "ack")
  PROVE  <<slot[w].block, slot[w].pos>> \in Events /\ EventAt(<<slot[w].block, slot[w].pos>>) = event(w)
<1>1. slot[w].block \in DOMAIN blocks /\ slot[w].pos \in DOMAIN blocks[slot[w].block]
  BY Current
<1>2. slot[w].pos \in 1..BlockSize
  <2>1. slot[w].pos \in 1..Len(blocks[slot[w].block]) /\ Len(blocks[slot[w].block]) \in Nat
    BY <1>1, Current
  <2> QED  BY <1>1, <2>1, OffersAssumption DEF BlocksFit
<1> QED  BY <1>1, <1>2 DEF Events, EventAt, event

\* An event that ends an offer is being handled: its NFT is not quiet.
LEMMA Ended ==
  ASSUME IndInv, BlocksFit, NEW w \in Workers, ~At(w, "idle"), ~At(w, "ack"),
         event(w).kind \in {"accept", "withdraw"}
  PROVE  ~Quiet(Item[event(w).o])
  BY AtWork, Current DEF Quiet, Happened

\* What happened stays so.
LEMMA QuietBefore ==
  ASSUME IndInv, [Next]_vars, NEW item, Quiet(item)'
  PROVE  Quiet(item)
<1>1. CASE blocks' = blocks
  BY <1>1 DEF Quiet, Happened, Events, EventAt
<1>2. ASSUME NEW e \in Event, Emit(e)
      PROVE  Quiet(item)
  <2>1. ASSUME NEW p \in Events
        PROVE  p \in Events' /\ EventAt(p)' = EventAt(p)
    <3>1. p[1] \in DOMAIN blocks /\ p[2] \in DOMAIN blocks[p[1]] /\ p \in (DOMAIN blocks) \X (1..BlockSize)
      BY DEF Events
    <3>2. p[1] \in DOMAIN blocks' /\ p[2] \in DOMAIN blocks'[p[1]] /\ blocks'[p[1]][p[2]] = blocks[p[1]][p[2]]
      BY <1>2, <3>1, ChainGrows
    <3> QED  BY <3>1, <3>2 DEF Events, EventAt
  <2> QED  BY <2>1 DEF Quiet, Happened
<1>3. blocks' = blocks \/ \E e \in Event : Emit(e)
  BY DEF Next, vars, Deadline, Handle, Take, Ack, SendInsert, SendAnnounce, OfferRead, OfferSave, AcceptClear,
         Settle, TaskNotify, TaskClear, AuctionClears, Cron, CronRead, CronNotify, CronSave, Faulty, Crash, HandlerFails, CronFails
<1> QED  BY <1>1, <1>2, <1>3

\* What a step has to show.
LEMMA AnnouncingStep ==
  ASSUME IndInv, Announcing, [Next]_vars, BlocksFit', ClearsAccepted',
         \A t \in tasks' \ tasks : t.task = "clear" => ~Quiet(t.item)',
         faults' = 0 => faults = 0,
         ASSUME faults' = 0, NEW o \in Offers, Quiet(Item[o])', Quiet(Item[o]), Received(o), Expiry(o)
         PROVE  Received(o)' /\ Expiry(o)'
  PROVE  Announcing'
<1>1. ClearsEnded'
  <2> SUFFICES ASSUME NEW t \in tasks', t.task = "clear" PROVE ~Quiet(t.item)'
    BY DEF ClearsEnded
  <2>1. CASE t \in tasks
    BY <2>1, QuietBefore DEF Announcing, ClearsEnded
  <2> QED  BY <2>1
<1>2. AllTold'
  <2> SUFFICES ASSUME faults' = 0, NEW o \in Offers, Quiet(Item[o])' PROVE Received(o)' /\ Expiry(o)'
    BY DEF AllTold
  <2>1. Quiet(Item[o])
    BY QuietBefore
  <2> QED  BY <2>1 DEF Announcing, AllTold
<1> QED  BY <1>1, <1>2 DEF Announcing

\* The slots of the other workers stay as they are.
Others(w) == \A v \in Workers : v # w => slot'[v] = slot[v]

LEMMA GoesOn ==
  ASSUME IndInv, NEW w \in Workers
  PROVE  /\ Take(w) => slot'[w].pc = "next" /\ Others(w)
         /\ Return(w) => slot'[w].pc \in {"ack", "next"} /\ Others(w)
         /\ \A how : Leave(w, how) => slot'[w].pc = "idle" /\ Others(w)
         /\ \A pc : Goto(w, pc) => /\ slot'[w].pc = pc /\ Others(w)
                                  /\ slot'[w].block = slot[w].block /\ slot'[w].pos = slot[w].pos
<1>1. slot \in [Workers -> Slot]
  BY DEF IndInv, Typed
<1>2. \A new : slot' = [slot EXCEPT ![w] = new] => slot'[w] = new /\ Others(w)
  BY <1>1 DEF Others
<1>3. Take(w) => slot'[w].pc = "next" /\ Others(w)
  <2> SUFFICES ASSUME Take(w) PROVE slot'[w].pc = "next" /\ Others(w)
    OBVIOUS
  <2>1. PICK b \in DOMAIN blocks : slot' = [slot EXCEPT ![w] = [block |-> b, pos |-> 1, pc |-> "next"]]
    BY DEF Take
  <2> QED  BY <1>2, <2>1
<1>4. Return(w) => slot'[w].pc \in {"ack", "next"} /\ Others(w)
  <2> DEFINE new == [block |-> slot[w].block, pos |-> slot[w].pos + 1,
                     pc |-> IF slot[w].pos = Len(blocks[slot[w].block]) THEN "ack" ELSE "next"]
  <2>1. Return(w) => slot' = [slot EXCEPT ![w] = new]
    BY DEF Return
  <2>2. new.pc \in {"ack", "next"}
    OBVIOUS
  <2> HIDE DEF new
  <2> QED  BY <1>2, <2>1, <2>2
<1>5. \A how : Leave(w, how) => slot'[w].pc = "idle" /\ Others(w)
  <2> SUFFICES ASSUME NEW how, Leave(w, how) PROVE slot'[w].pc = "idle" /\ Others(w)
    OBVIOUS
  <2>1. slot' = [slot EXCEPT ![w] = IdleSlot]
    BY DEF Leave
  <2>2. IdleSlot.pc = "idle"
    BY IdleTypes
  <2> QED  BY <1>2, <2>1, <2>2
<1>6. ASSUME NEW pc, Goto(w, pc)
      PROVE  /\ slot'[w].pc = pc /\ Others(w)
             /\ slot'[w].block = slot[w].block /\ slot'[w].pos = slot[w].pos
  <2>1. slot[w] \in Slot /\ slot' = [slot EXCEPT ![w] = [slot[w] EXCEPT !.pc = pc]]
    BY <1>1, <1>6 DEF Goto
  <2> QED  BY <1>2, <2>1 DEF Slot
<1> QED  BY <1>3, <1>4, <1>5, <1>6

\* A worker that is not about to announce goes on, and changes nothing else.
LEMMA QuietWorker ==
  ASSUME IndInv, Announcing, [Next]_vars, NEW w \in Workers, Others(w), slot'[w].pc # "clear",
         ~At(w, "announce"), UNCHANGED <<blocks, tasks, offers, notifs, told, closed, cron, faults>>
  PROVE  Announcing'
<1>1. ClearsAccepted'
  BY DEF Others, Announcing, ClearsAccepted, At, event
<1>2. ASSUME NEW o \in Offers, Received(o), Expiry(o)
      PROVE  Received(o)' /\ Expiry(o)'
  BY <1>2 DEF Others, Received, Expiry, Told, At, event
<1>3. BlocksFit'
  BY DEF Announcing, BlocksFit
<1> QED  BY <1>1, <1>2, <1>3, AnnouncingStep

LEMMA EmitAnnounces ==
  ASSUME IndInv, Announcing, NEW e \in Event, Emit(e)
  PROVE  Announcing'
<1>0. UNCHANGED <<expired, slot, tasks, offers, notifs, told, closed, cron, faults>> /\ [Next]_vars
  BY DEF Emit, Next, auctionVars
<1>1. BlocksFit'
  <2>1. CASE blocks' = Append(blocks, <<e>>)
    <3>1. Len(<<e>>) = 1 /\ 1 <= BlockSize
      BY OffersAssumption
    <3> QED  BY <2>1, <3>1 DEF Announcing, BlocksFit, IndInv, Typed
  <2>2. CASE /\ blocks # <<>> /\ blocks' = [blocks EXCEPT ![Len(blocks)] = Append(@, e)]
             /\ Len(blocks[Len(blocks)]) < BlockSize
    <3>1. Len(blocks) \in DOMAIN blocks /\ blocks[Len(blocks)] \in Seq(Event)
      BY <2>2 DEF IndInv, Typed
    <3>2. Len(Append(blocks[Len(blocks)], e)) <= BlockSize
      BY <2>2, <3>1, OffersAssumption
    <3> QED  BY <2>2, <3>1, <3>2 DEF Announcing, BlocksFit, IndInv, Typed
  <2> QED  BY <2>1, <2>2 DEF Emit
<1>2. ASSUME NEW w \in Workers, ~At(w, "idle"), ~At(w, "ack")
      PROVE  event(w)' = event(w)
  BY <1>0, <1>2, Current, ChainGrows DEF event
<1>3. ClearsAccepted'
  BY <1>0, <1>2 DEF Announcing, ClearsAccepted, At
<1>4. ASSUME NEW o \in Offers, Received(o), Expiry(o)
      PROVE  Received(o)' /\ Expiry(o)'
  BY <1>0, <1>2, <1>4 DEF Received, Expiry, Told, At
<1> QED  BY <1>0, <1>1, <1>3, <1>4, AnnouncingStep

LEMMA HandleAnnounces ==
  ASSUME IndInv, AuctionsTyped, Announcing, NEW w \in Workers, Handle(w)
  PROVE  Announcing'
<1>0. /\ UNCHANGED <<blocks, expired, cron, faults, closed>> /\ BlocksFit' /\ [Next]_vars /\ BlocksFit
      /\ SendAnnounce(w) \/ told' = told
      /\ \A x \in Workers : event(x)' = blocks[slot'[x].block][slot'[x].pos]
  BY DEF Handle, Take, Ack, SendInsert, SendAnnounce, OfferRead, OfferSave, AcceptClear, Next, Announcing,
         BlocksFit, event, auctionVars
<1>1. CASE Take(w)
  <2>1. UNCHANGED <<tasks, offers, notifs, told>> /\ ~At(w, "announce")
    BY <1>1 DEF Take, At, auctionVars
  <2> QED  BY <1>0, <1>1, <2>1, GoesOn, QuietWorker
<1>2. CASE Ack(w)
  <2>1. UNCHANGED <<tasks, offers, notifs, told>> /\ ~At(w, "announce") /\ Leave(w, "done")
    BY <1>2 DEF Ack, At, auctionVars
  <2> QED  BY <1>0, <2>1, GoesOn, QuietWorker
<1>3. CASE SendInsert(w)
  <2>1. CASE Leave(w, "dead") /\ offers' = offers
    <3>1. UNCHANGED <<tasks, notifs, told>> /\ ~At(w, "announce")
      BY <1>3 DEF SendInsert, At, auctionVars
    <3> QED  BY <1>0, <2>1, <3>1, GoesOn, QuietWorker
  <2>2. CASE Insertable(event(w).o) /\ offers' = [offers EXCEPT ![event(w).o] = "Active"] /\ Goto(w, "announce")
    <3>0. ~At(w, "idle") /\ ~At(w, "ack") /\ UNCHANGED <<tasks, notifs, told>> /\ event(w).o \in Offers
      BY <1>3, Current DEF SendInsert, At, auctionVars
    <3>1. \A v \in Workers : v # w => slot'[v] = slot[v]
      BY <2>2, GoesOn DEF Others
    <3>2. slot'[w].pc = "announce" /\ slot'[w].block = slot[w].block /\ slot'[w].pos = slot[w].pos
      BY <2>2, GoesOn
    <3>3. event(w)' = event(w)
      BY <1>0, <3>2 DEF event
    <3>4. ClearsAccepted'
      BY <1>0, <3>1, <3>2 DEF Announcing, ClearsAccepted, At, event
    <3>5. ASSUME NEW o \in Offers, Received(o), Expiry(o)
          PROVE  Received(o)' /\ Expiry(o)'
      <4>1. CASE o = event(w).o
        <5>1. offers'[o] = "Active"
          BY <2>2, <3>0, <4>1 DEF IndInv, Typed
        <5>2. offers[o] = "absent" /\ (o \in cron.offers => offers[o] # "absent")
          BY <2>2, <4>1 DEF Insertable, IndInv, Kept
        <5> QED  BY <1>0, <3>2, <3>3, <4>1, <5>1, <5>2 DEF Received, Expiry, At
      <4>2. CASE o # event(w).o
        <5>1. offers'[o] = offers[o]
          BY <2>2, <4>2 DEF IndInv, Typed
        <5>2. ASSUME NEW v \in Workers, At(v, "announce")
              PROVE  v # w /\ slot'[v] = slot[v]
          BY <1>3, <3>1, <5>2 DEF SendInsert, At
        <5> QED  BY <1>0, <3>0, <3>5, <5>1, <5>2 DEF Received, Expiry, Told, At, event
      <4> QED  BY <4>1, <4>2
    <3> QED  BY <1>0, <3>0, <3>4, <3>5, AnnouncingStep
  <2> QED  BY <1>3, <2>1, <2>2 DEF SendInsert
<1>4. CASE SendAnnounce(w)
  <2>0. ~At(w, "idle") /\ ~At(w, "ack") /\ UNCHANGED <<offers, notifs>> /\ event(w).o \in Offers
    BY <1>4, Current DEF SendAnnounce, At
  <2> DEFINE new == [task |-> "notify", rows |-> {[type |-> "OfferReceived", o |-> event(w).o]}]
  <2>1. PICK to \in Addressees(Item[event(w).o]) :
             /\ told' = [told EXCEPT ![event(w).o] = to]
             /\ tasks' = IF to = "nobody" THEN tasks ELSE tasks \cup {new}
    BY <1>4 DEF SendAnnounce
  <2>5. tasks \subseteq tasks' /\ \A t \in tasks' \ tasks : t.task # "clear"
    BY <2>1
  <2>6. told \in [Offers -> {"nobody", "owner", "auction"}]
    BY DEF AuctionsTyped
  <2>2. /\ slot'[w].pc \in {"ack", "next"} /\ \A v \in Workers : v # w => slot'[v] = slot[v]
    BY <1>4, GoesOn DEF SendAnnounce, Others
  <2>3. ClearsAccepted'
    BY <1>0, <2>2 DEF Announcing, ClearsAccepted, At, event
  <2>4. ASSUME NEW o \in Offers, Received(o), Expiry(o)
        PROVE  Received(o)' /\ Expiry(o)'
    <3>1. Expiry(o)'
      BY <1>0, <2>0, <2>4, <2>5 DEF Expiry, Told
    <3>2. CASE o = event(w).o
      <4>1. CASE to # "nobody"
        <5>1. new \in tasks' /\ new.task = "notify" /\ [type |-> "OfferReceived", o |-> o] \in new.rows
          BY <2>1, <3>2, <4>1
        <5> QED  BY <3>1, <5>1 DEF Received, Told
      <4>2. CASE to = "nobody"
        <5>1. told'[o] = "nobody" /\ (Item[o] \in Announced => Item[o] \in closed')
          BY <1>0, <2>0, <2>1, <2>6, <3>2, <4>2, Audience
        <5> QED  BY <3>1, <5>1 DEF Received
      <4> QED  BY <4>1, <4>2
    <3>3. CASE o # event(w).o
      <4>1. ASSUME NEW v \in Workers, At(v, "announce"), event(v).o = o
            PROVE  At(v, "announce")' /\ event(v)'.o = o
        BY <1>0, <2>2, <3>3, <4>1 DEF At, event
      <4>2. told'[o] = told[o] /\ closed' = closed
        BY <1>0, <2>1, <2>6, <3>3
      <4> QED  BY <2>0, <2>4, <2>5, <3>1, <4>1, <4>2 DEF Received, Told
    <3> QED  BY <3>2, <3>3
  <2> HIDE DEF new
  <2> QED  BY <1>0, <2>5, <2>3, <2>4, AnnouncingStep
<1>5. CASE OfferRead(w)
  <2>1. /\ UNCHANGED <<tasks, offers, notifs, told>> /\ ~At(w, "announce")
    BY <1>5 DEF OfferRead, At, auctionVars
  <2>2. CASE Goto(w, "save")
    BY <1>0, <2>1, <2>2, GoesOn, QuietWorker
  <2>3. CASE Return(w)
    BY <1>0, <2>1, <2>3, GoesOn, QuietWorker
  <2>4. CASE Leave(w, "dead")
    BY <1>0, <2>1, <2>4, GoesOn, QuietWorker
  <2> QED  BY <1>5, <2>2, <2>3, <2>4 DEF OfferRead
<1>6. CASE OfferSave(w)
  <2>0. /\ ~At(w, "idle") /\ ~At(w, "ack") /\ ~At(w, "announce") /\ UNCHANGED <<notifs, told>> /\ event(w).o \in Offers
        /\ event(w).kind \in {"accept", "withdraw"}
        /\ offers' = [offers EXCEPT ![event(w).o] = StatusOf(event(w).kind)]
    BY <1>6, Current DEF OfferSave, At, IndInv, Kept, Holds, event, auctionVars
  <2>1. \A item : item = Item[event(w).o] => ~Quiet(item) /\ ~Quiet(item)'
    <3>1. ~Quiet(Item[event(w).o])
      BY <1>0, <2>0, Ended
    <3>2. \A item : Quiet(item)' => Quiet(item)
      BY <1>0, QuietBefore
    <3> QED  BY <3>1, <3>2
  <2>2. tasks \subseteq tasks' /\ \A t \in tasks' \ tasks : t.task = "clear" => t.item = Item[event(w).o]
    BY <1>6 DEF OfferSave
  <2>3. \A v \in Workers : v # w => slot'[v] = slot[v]
    BY <1>6, GoesOn DEF OfferSave, Others
  <2>4. At(w, "clear")' => event(w)'.kind = "accept"
    <3>1. CASE Handling(w, "accept") /\ Goto(w, "clear")
      <4>1. slot'[w].block = slot[w].block /\ slot'[w].pos = slot[w].pos
        BY <3>1, GoesOn
      <4> QED  BY <1>0, <3>1, <4>1 DEF Handling, event
    <3>2. CASE Return(w)
      BY <3>2, GoesOn DEF At
    <3> QED  BY <1>6, <3>1, <3>2 DEF OfferSave
  <2>5. ClearsAccepted'
    BY <1>0, <2>3, <2>4 DEF Announcing, ClearsAccepted, At, event
  <2>6. ASSUME NEW o \in Offers, Quiet(Item[o]), Received(o), Expiry(o)
        PROVE  Received(o)' /\ Expiry(o)'
    <3>1. o # event(w).o
      BY <2>1, <2>6
    <3>2. offers'[o] = offers[o]
      BY <2>0, <3>1 DEF IndInv, Typed
    <3>3. ASSUME NEW v \in Workers, At(v, "announce"), event(v).o = o
          PROVE  At(v, "announce")' /\ event(v)'.o = o
      BY <1>0, <2>0, <2>3, <3>3 DEF At, event
    <3> QED  BY <1>0, <2>0, <2>2, <2>6, <3>2, <3>3 DEF Received, Expiry, Told
  <2> QED  BY <1>0, <2>1, <2>2, <2>5, <2>6, AnnouncingStep
<1>7. CASE AcceptClear(w)
  <2>0. /\ ~At(w, "idle") /\ ~At(w, "ack") /\ ~At(w, "announce") /\ UNCHANGED <<tasks, offers, told>>
        /\ notifs' = notifs \ NotifsOf(Item[event(w).o]) /\ event(w).kind = "accept"
    BY <1>7 DEF AcceptClear, At, Announcing, ClearsAccepted, auctionVars
  <2>1. ~Quiet(Item[event(w).o])
    BY <1>0, <2>0, Ended
  <2>2. slot'[w].pc \in {"ack", "next"} /\ \A v \in Workers : v # w => slot'[v] = slot[v]
    BY <1>7, GoesOn DEF AcceptClear, Others
  <2>3. ClearsAccepted'
    BY <1>0, <2>2 DEF Announcing, ClearsAccepted, At, event
  <2>4. ASSUME NEW o \in Offers, Quiet(Item[o]), Received(o), Expiry(o)
        PROVE  Received(o)' /\ Expiry(o)'
    <3>1. ASSUME NEW n \in notifs, n.o = o
          PROVE  n \in notifs'
      BY <2>0, <2>1, <2>4, <3>1 DEF NotifsOf
    <3>2. ASSUME NEW v \in Workers, At(v, "announce"), event(v).o = o
          PROVE  At(v, "announce")' /\ event(v)'.o = o
      BY <1>0, <2>0, <2>2, <3>2 DEF At, event
    <3>3. /\ Told([type |-> "OfferReceived", o |-> o]) => Told([type |-> "OfferReceived", o |-> o])'
          /\ Told([type |-> "OfferExpired", o |-> o]) => Told([type |-> "OfferExpired", o |-> o])'
      BY <2>0, <3>1 DEF Told
    <3> QED  BY <1>0, <2>0, <2>4, <3>2, <3>3 DEF Received, Expiry
  <2> QED  BY <1>0, <2>0, <2>3, <2>4, AnnouncingStep
<1> QED  BY <1>1, <1>2, <1>3, <1>4, <1>5, <1>6, <1>7 DEF Handle

LEMMA SettleAnnounces ==
  ASSUME IndInv, Announcing, NEW t \in tasks, Settle(t)
  PROVE  Announcing'
<1>0. /\ UNCHANGED <<blocks, fate, expired, slot, offers, told, closed, cron, faults>> /\ tasks' = tasks \ {t} /\ [Next]_vars
      /\ BlocksFit' /\ ClearsAccepted'
  BY DEF Settle, TaskNotify, TaskClear, Next, Announcing, BlocksFit, ClearsAccepted, At, event, auctionVars
<1>1. CASE t.task = "notify" /\ notifs' = notifs \cup t.rows
  <2>1. ASSUME NEW n, Told(n)
        PROVE  Told(n)'
    BY <1>0, <1>1, <2>1 DEF Told
  <2>2. ASSUME NEW o \in Offers, Received(o), Expiry(o)
        PROVE  Received(o)' /\ Expiry(o)'
    BY <1>0, <2>1, <2>2 DEF Received, Expiry, At, event
  <2> QED  BY <1>0, <2>2, AnnouncingStep
<1>2. CASE t.task = "clear" /\ notifs' = notifs \ NotifsOf(t.item)
  <2>1. ~Quiet(t.item)
    BY <1>2 DEF Announcing, ClearsEnded
  <2>2. ASSUME NEW o \in Offers, Quiet(Item[o]), Received(o), Expiry(o)
        PROVE  Received(o)' /\ Expiry(o)'
    <3>1. ASSUME NEW n \in notifs, n.o = o
          PROVE  n \in notifs'
      BY <1>2, <2>1, <2>2, <3>1 DEF NotifsOf
    <3>2. /\ Told([type |-> "OfferReceived", o |-> o]) => Told([type |-> "OfferReceived", o |-> o])'
          /\ Told([type |-> "OfferExpired", o |-> o]) => Told([type |-> "OfferExpired", o |-> o])'
      BY <1>0, <1>2, <3>1 DEF Told
    <3> QED  BY <1>0, <2>2, <3>2 DEF Received, Expiry, At, event
  <2> QED  BY <1>0, <2>2, AnnouncingStep
<1> QED  BY <1>1, <1>2 DEF Settle, TaskNotify, TaskClear

LEMMA CronAnnounces ==
  ASSUME IndInv, Announcing, Cron
  PROVE  Announcing'
<1>0. /\ UNCHANGED <<blocks, fate, expired, slot, notifs, told, closed, faults>> /\ [Next]_vars /\ BlocksFit'
      /\ ClearsAccepted'
      /\ tasks \subseteq tasks' /\ \A t \in tasks' \ tasks : t.task # "clear"
  BY DEF Cron, CronRead, CronNotify, CronSave, Next, Announcing, BlocksFit, ClearsAccepted, At, event, auctionVars
<1>1. ASSUME NEW o \in Offers, Received(o), Expiry(o)
      PROVE  Received(o)' /\ Expiry(o)'
  <2>1. ASSUME NEW n, Told(n)
        PROVE  Told(n)'
    BY <1>0, <2>1 DEF Told
  <2>2. Received(o)'
    <3>1. offers'[o] # "absent" => offers[o] # "absent"
      BY DEF Cron, CronRead, CronNotify, CronSave, IndInv, Typed, Kept
    <3> QED  BY <1>0, <1>1, <2>1, <3>1 DEF Received, At, event
  <2>3. CASE CronRead
    BY <1>1, <2>1, <2>2, <2>3 DEF CronRead, Expiry
  <2>4. CASE CronNotify
    <3>1. cron'.offers = cron.offers /\ offers' = offers
      BY <2>4 DEF CronNotify, IndInv, Typed
    <3>2. o \in cron.offers => Told([type |-> "OfferExpired", o |-> o])'
      <4> DEFINE new == [task |-> "notify", rows |-> {[type |-> "OfferExpired", o |-> p] : p \in cron.offers}]
      <4>1. new \in tasks' /\ new.task = "notify" /\ (o \in cron.offers => [type |-> "OfferExpired", o |-> o] \in new.rows)
        BY <2>4 DEF CronNotify
      <4> QED  BY <4>1 DEF Told
    <3> QED  BY <1>1, <2>1, <2>2, <3>1, <3>2 DEF Expiry
  <2>5. CASE CronSave
    <3>1. offers'[o] = "Expired" => offers[o] = "Expired" \/ (cron.pc = "save" /\ o \in cron.offers)
      BY <2>5 DEF CronSave
    <3>2. cron'.pc = "idle"
      BY <2>5 DEF CronSave, IdleCron
    <3> QED  BY <1>1, <2>1, <2>2, <3>1, <3>2 DEF Expiry
  <2> QED  BY <2>3, <2>4, <2>5 DEF Cron
<1> QED  BY <1>0, <1>1, AnnouncingStep

\* An auction clears what is filed under it, and is over from then on.
LEMMA AuctionAnnounces ==
  ASSUME IndInv, Announcing, NEW item \in Auctioned, AuctionClears(item)
  PROVE  Announcing'
<1>0. /\ UNCHANGED <<blocks, fate, slot, tasks, offers, told, cron, faults>> /\ [Next]_vars
      /\ closed' = closed \cup {item} /\ notifs' = notifs \ FiledUnder(item) /\ BlocksFit' /\ ClearsAccepted'
  BY DEF AuctionClears, Next, Announcing, BlocksFit, ClearsAccepted, At, event
<1>1. ASSUME NEW o \in Offers, Received(o), Expiry(o)
      PROVE  Received(o)' /\ Expiry(o)'
  <2> DEFINE received == [type |-> "OfferReceived", o |-> o]
             expiry == [type |-> "OfferExpired", o |-> o]
  <2>1. expiry \notin FiledUnder(item)
    BY DEF FiledUnder
  <2>2. received \in FiledUnder(item) => Item[o] = item /\ told[o] # "owner"
    BY DEF FiledUnder
  <2> HIDE DEF received, expiry
  <2>3. Told(expiry) => Told(expiry)'
    BY <1>0, <2>1 DEF Told
  <2>4. Told(received) => Told(received)' \/ (told'[o] # "owner" /\ Item[o] \in closed')
    BY <1>0, <2>2 DEF Told
  <2>5. Received(o)'
    BY <1>0, <1>1, <2>4 DEF Received, At, event, received
  <2> QED  BY <1>0, <1>1, <2>3, <2>5 DEF Expiry, expiry
<1> QED  BY <1>0, <1>1, AnnouncingStep

LEMMA FaultAnnounces ==
  ASSUME IndInv, Announcing, Faulty
  PROVE  Announcing'
<1>1. faults \in Nat /\ faults' = faults + 1 /\ UNCHANGED blocks /\ tasks' \subseteq tasks /\ [Next]_vars /\ BlocksFit'
  BY DEF Faulty, Crash, HandlerFails, CronFails, IndInv, Typed, Next, Announcing, BlocksFit
<1>2. ClearsAccepted'
  <2>1. CASE Crash
    BY <2>1 DEF Crash, ClearsAccepted, At, IdleSlot
  <2>2. ASSUME NEW w \in Workers, HandlerFails(w)
        PROVE  ClearsAccepted'
    <3>1. slot'[w].pc # "clear" /\ \A v \in Workers : v # w => slot'[v] = slot[v]
      BY <2>2, GoesOn DEF HandlerFails, Others
    <3> QED  BY <1>1, <3>1 DEF Announcing, ClearsAccepted, At, event
  <2>3. CASE CronFails
    BY <1>1, <2>3 DEF CronFails, Announcing, ClearsAccepted, At, event
  <2> QED  BY <2>1, <2>2, <2>3 DEF Faulty
<1>3. faults' # 0
  BY <1>1
<1> QED  BY <1>1, <1>2, <1>3, AnnouncingStep

LEMMA AnnouncingKept == IndInv /\ AuctionsTyped /\ Announcing /\ [Next]_vars => Announcing'
<1> SUFFICES ASSUME IndInv, AuctionsTyped, Announcing, [Next]_vars PROVE Announcing'
  OBVIOUS
<1>1. CASE UNCHANGED vars
  BY <1>1 DEF vars, Announcing, BlocksFit, ClearsAccepted, ClearsEnded, AllTold, Quiet, Happened, Events, EventAt,
              Received, Expiry, Told, At, event, auctionVars
<1>2. ASSUME NEW o \in Offers, Deadline(o)
      PROVE  Announcing'
  BY <1>2 DEF Deadline, Announcing, BlocksFit, ClearsAccepted, ClearsEnded, AllTold, Quiet, Happened, Events, EventAt,
              Received, Expiry, Told, At, event, auctionVars
<1> QED  BY <1>1, <1>2, EmitAnnounces, HandleAnnounces, SettleAnnounces, CronAnnounces,
         AuctionAnnounces, FaultAnnounces DEF Next

LEMMA AnnouncingInit == Init => Announcing
  BY DEF Init, Announcing, BlocksFit, ClearsAccepted, ClearsEnded, AllTold, Received, Expiry, At, IdleSlot, IdleCron

\* While nothing fails, every owner is told of the offers made and expired for an NFT
\* none of whose offers has ended, with any number of workers.
THEOREM OwnersAreTold == Spec => []OffersAreAnnounced
<1>1. Init => IndInv /\ AuctionsTyped /\ Announcing
  BY InitInv, AnnouncingInit DEF Init, AuctionsTyped
<1>2. IndInv /\ AuctionsTyped /\ Announcing /\ [Next]_vars => (IndInv /\ AuctionsTyped /\ Announcing)'
  BY OneStep, AuctionsStep, AnnouncingKept
<1>3. IndInv /\ Announcing => OffersAreAnnounced
  <2> SUFFICES ASSUME Announcing, Settled, faults = 0, NEW o \in Offers,
                      \A p \in Offers : Item[p] = Item[o] => ~Happened(p, {"accept", "withdraw"})
               PROVE  /\ offers[o] # "absent" /\ Item[o] \in Announced =>
                           \/ [type |-> "OfferReceived", o |-> o] \in notifs
                           \/ told[o] # "owner" /\ Item[o] \in closed
                      /\ offers[o] = "Expired" => [type |-> "OfferExpired", o |-> o] \in notifs
    BY DEF OffersAreAnnounced
  <2>1. Received(o) /\ Expiry(o)
    BY DEF Announcing, AllTold, Quiet
  <2>2. tasks = {} /\ \A w \in Workers : ~At(w, "announce")
    BY DEF Settled, At
  <2> QED  BY <2>1, <2>2 DEF Received, Expiry, Told
<1> QED  BY <1>1, <1>2, <1>3, PTL DEF Spec
-----------------------------------------------------------------------------
(* As long as no two blocks in hand hold events of the same offer, the events *)
(* of an offer are handled one after the other: what was got past of them is  *)
(* a beginning of its story, and each left its mark. When two such blocks are *)
(* in hand an event may overtake the one before it, and with two workers the  *)
(* model checker finds the status unexplained.                                *)

Mentions(b, o) == \E i \in DOMAIN blocks[b] : blocks[b][i].o = o
OffersApart == \A v, w \in Workers : v # w /\ ~At(v, "idle") /\ ~At(w, "idle") =>
  \A o \in Offers : ~(Mentions(slot[v].block, o) /\ Mentions(slot[w].block, o))

IsHere(w, p) == p[1] = slot[w].block /\ p[2] = slot[w].pos

\* The write of this event was made, in a block not given up.
PassedBy(w, p) ==
  /\ ~At(w, "idle") /\ slot[w].block = p[1]
  /\ p[2] < slot[w].pos \/ (p[2] = slot[w].pos /\ slot[w].pc \in {"announce", "clear"})
Passed(p) == fate[p[1]] = "done" \/ \E w \in Workers : PassedBy(w, p)

\* What was to be said of this offer before a block has been said.
Settles(b) == \A c \in DOMAIN blocks, o \in Offers :
  c < b /\ Mentions(c, o) /\ Mentions(b, o) => fate[c] # "queued"
Orderly(w) ==
  /\ At(w, "idle") => slot[w].block = 0
  /\ ~At(w, "idle") => fate[slot[w].block] = "queued" /\ Settles(slot[w].block)
  /\ At(w, "ack") => Len(blocks[slot[w].block]) < slot[w].pos
OneByOne == /\ \A b \in DOMAIN blocks : fate[b] # "queued" => Settles(b)
            /\ \A w \in Workers : Orderly(w)

\* An offer is sent once, and ends once, after that.
Ends(p) == EventAt(p).kind \in {"accept", "withdraw"}
OneLife == \A p, q \in Events : EventAt(p).o = EventAt(q).o =>
  /\ EventAt(p).kind = "send" /\ EventAt(q).kind = "send" => p = q
  /\ Ends(p) /\ Ends(q) => p = q
  /\ EventAt(p).kind = "send" /\ Ends(q) => Before(p, q)

\* What the table may say of an offer once one of its events has been handled.
Effect(kind) == CASE kind = "send" -> {"Active", "Accepted", "Closed", "Expired"}
                  [] kind = "accept" -> {"Accepted", "Expired"}
                  [] kind = "withdraw" -> {"Closed", "Expired", "absent"}
Obeyed == \A p \in Events : Passed(p) => offers[EventAt(p).o] \in Effect(EventAt(p).kind)

\* Why the table says what it does.
Means(kind, status) ==
  \/ kind = "send" /\ status = "Active"
  \/ kind = "accept" /\ status = "Accepted"
  \/ kind = "withdraw" /\ status = "Closed"
Overdue(o) == CronRuns /\ o \in expired
Caused == \A o \in Offers :
  /\ offers[o] \in {"Active", "Accepted", "Closed"} =>
       \E p \in Events : EventAt(p).o = o /\ Means(EventAt(p).kind, offers[o])
  /\ offers[o] = "Expired" \/ o \in cron.offers => Overdue(o)

StatusInv == BlocksFit /\ OneByOne /\ OneLife /\ Obeyed /\ Caused

LEMMA EventTypes ==
  ASSUME IndInv, NEW p \in Events
  PROVE  /\ p[1] \in DOMAIN blocks /\ p[2] \in DOMAIN blocks[p[1]] /\ p[1] \in Nat /\ p[2] \in Nat
         /\ EventAt(p) \in Event /\ EventAt(p).o \in Offers /\ EventAt(p).kind \in {"send", "accept", "withdraw"}
         /\ fate[p[1]] \in {"queued", "done", "dead"}
<1>1. p[1] \in DOMAIN blocks /\ p[2] \in DOMAIN blocks[p[1]] /\ p[1] \in 1..Len(blocks)
  BY DEF Events, IndInv, Typed
<1>2. blocks[p[1]] \in Seq(Event) /\ p[1] \in 1..Len(fate) /\ p[1] \in Nat
  BY <1>1 DEF IndInv, Typed
<1>3. EventAt(p) \in Event /\ p[2] \in Nat
  BY <1>1, <1>2 DEF EventAt
<1>4. fate[p[1]] \in {"queued", "done", "dead"}
  BY <1>2 DEF IndInv, Typed
<1> QED  BY <1>1, <1>2, <1>3, <1>4 DEF Event, Kinds

\* How the slot of a worker moves.
LEMMA Moves ==
  ASSUME IndInv, NEW w \in Workers
  PROVE  /\ Return(w) => /\ slot'[w].block = slot[w].block /\ slot'[w].pos = slot[w].pos + 1 /\ fate' = fate
                         /\ slot'[w].pc = IF slot[w].pos = Len(blocks[slot[w].block]) THEN "ack" ELSE "next"
         /\ \A how \in {"done", "dead"} : Leave(w, how) => slot'[w].pc = "idle" /\ slot'[w].block = 0
         /\ \A pc : Goto(w, pc) => fate' = fate
<1>1. slot \in [Workers -> Slot]
  BY DEF IndInv, Typed
<1>2. \A new : slot' = [slot EXCEPT ![w] = new] => slot'[w] = new
  BY <1>1
<1>3. ASSUME Return(w)
      PROVE  /\ slot'[w].block = slot[w].block /\ slot'[w].pos = slot[w].pos + 1 /\ fate' = fate
             /\ slot'[w].pc = IF slot[w].pos = Len(blocks[slot[w].block]) THEN "ack" ELSE "next"
  <2> DEFINE new == [block |-> slot[w].block, pos |-> slot[w].pos + 1,
                     pc |-> IF slot[w].pos = Len(blocks[slot[w].block]) THEN "ack" ELSE "next"]
  <2>1. slot' = [slot EXCEPT ![w] = new] /\ fate' = fate
    BY <1>3 DEF Return
  <2>2. slot'[w] = new
    BY <1>2, <2>1
  <2> QED  BY <2>1, <2>2
<1>4. ASSUME NEW how \in {"done", "dead"}, Leave(w, how)
      PROVE  slot'[w].pc = "idle" /\ slot'[w].block = 0
  <2>1. slot'[w] = IdleSlot
    BY <1>2, <1>4 DEF Leave
  <2> QED  BY <2>1 DEF IdleSlot
<1> QED  BY <1>3, <1>4 DEF Goto

\* A step of one worker, the fate of the blocks as it was.
LEMMA SettlesKept == blocks' = blocks /\ fate' = fate => \A b : Settles(b)' <=> Settles(b)
  BY DEF Settles, Mentions

LEMMA OrderKept ==
  ASSUME OneByOne, NEW w \in Workers, Others(w), Orderly(w)', blocks' = blocks, fate' = fate
  PROVE  OneByOne'
<1>1. ASSUME NEW v \in Workers, v # w
      PROVE  Orderly(v)'
  BY <1>1, SettlesKept DEF OneByOne, Orderly, Others, At
<1> QED  BY <1>1, SettlesKept DEF OneByOne

LEMMA PassedKept ==
  ASSUME NEW w \in Workers, Others(w), fate' = fate, NEW p, Passed(p)', ~PassedBy(w, p)'
  PROVE  Passed(p)
  BY DEF Passed, PassedBy, Others, At

\* The offer of an event is mentioned in its block.
LEMMA Mentioned ==
  ASSUME IndInv, NEW p \in Events
  PROVE  Mentions(p[1], EventAt(p).o) /\ EventAt(p).o \in Offers
  BY EventTypes DEF Mentions, EventAt

\* A handler goes on, returns, or gives its block up: what it has got past.
LEMMA Onwards ==
  ASSUME IndInv, NEW w \in Workers, OneByOne, blocks' = blocks, ~At(w, "idle"), ~At(w, "ack")
  PROVE  /\ \A pc : pc \notin {"idle", "ack"} /\ Goto(w, pc) =>
              /\ OneByOne'
              /\ \A p \in Events : Passed(p)' => Passed(p) \/ (IsHere(w, p) /\ pc \in {"announce", "clear"})
         /\ Return(w) =>
              /\ OneByOne'
              /\ \A p \in Events : Passed(p)' => Passed(p) \/ IsHere(w, p)
<1>0. Orderly(w)
  BY DEF OneByOne
<1>1. ASSUME NEW pc, pc \notin {"idle", "ack"}, Goto(w, pc)
      PROVE  /\ OneByOne'
             /\ \A p \in Events : Passed(p)' => Passed(p) \/ (IsHere(w, p) /\ pc \in {"announce", "clear"})
  <2>1. /\ slot'[w].pc = pc /\ slot'[w].block = slot[w].block /\ slot'[w].pos = slot[w].pos /\ fate' = fate /\ Others(w)
    BY <1>1, GoesOn, Moves
  <2>2. Orderly(w)'
    BY <1>0, <1>1, <2>1, SettlesKept DEF Orderly, At
  <2>3. OneByOne'
    BY <2>1, <2>2, OrderKept
  <2>4. ASSUME NEW p \in Events, Passed(p)'
        PROVE  Passed(p) \/ (IsHere(w, p) /\ pc \in {"announce", "clear"})
    <3>1. CASE PassedBy(w, p)'
      BY <1>1, <2>1, <3>1 DEF Passed, PassedBy, IsHere, At
    <3>2. CASE ~PassedBy(w, p)'
      BY <2>1, <2>4, <3>2, PassedKept
    <3> QED  BY <3>1, <3>2
  <2> QED  BY <2>3, <2>4
<1>2. ASSUME Return(w)
      PROVE  /\ OneByOne'
             /\ \A p \in Events : Passed(p)' => Passed(p) \/ IsHere(w, p)
  <2>1. /\ slot'[w].block = slot[w].block /\ slot'[w].pos = slot[w].pos + 1 /\ fate' = fate
        /\ slot'[w].pc = IF slot[w].pos = Len(blocks[slot[w].block]) THEN "ack" ELSE "next"
    BY <1>2, Moves
  <2>2. slot[w].pos \in Nat /\ Others(w)
    BY <1>2, Current, GoesOn
  <2>3. Orderly(w)'
    BY <1>0, <2>1, <2>2, SettlesKept DEF Orderly, At
  <2>4. OneByOne'
    BY <2>1, <2>2, <2>3, OrderKept
  <2>5. ASSUME NEW p \in Events, Passed(p)'
        PROVE  Passed(p) \/ IsHere(w, p)
    <3>1. CASE PassedBy(w, p)'
      <4>1. p[2] \in Nat
        BY EventTypes
      <4>2. p[2] < slot[w].pos + 1 => p[2] < slot[w].pos \/ p[2] = slot[w].pos
        BY <2>2, <4>1
      <4> QED  BY <2>1, <3>1, <4>2 DEF Passed, PassedBy, IsHere, At
    <3>2. CASE ~PassedBy(w, p)'
      BY <2>1, <2>2, <2>5, <3>2, PassedKept
    <3> QED  BY <3>1, <3>2
  <2> QED  BY <2>4, <2>5
<1> QED  BY <1>1, <1>2

LEMMA GivenUp ==
  ASSUME IndInv, NEW w \in Workers, OneByOne, OffersApart, blocks' = blocks, ~At(w, "idle"),
         NEW how \in {"done", "dead"}, Leave(w, how), how = "done" => At(w, "ack")
  PROVE  OneByOne' /\ \A p \in Events : Passed(p)' => Passed(p)
<1>1. slot'[w].pc = "idle" /\ slot'[w].block = 0 /\ Others(w)
  BY Moves, GoesOn
<1>2. slot[w].block \in DOMAIN fate /\ slot[w].block \in DOMAIN blocks /\ slot[w].pos \in Nat
  BY Current DEF IndInv, Typed
<1>3. /\ fate'[slot[w].block] = how
      /\ \A b \in DOMAIN blocks : b # slot[w].block => fate'[b] = fate[b]
  BY <1>2 DEF Leave, IndInv, Typed
<1>4. ASSUME NEW v \in Workers, v # w, ~At(v, "idle")
      PROVE  slot[v].block # slot[w].block /\ slot[v].block \in DOMAIN blocks
  <2>1. 1 \in DOMAIN blocks[slot[w].block] /\ blocks[slot[w].block][1] \in Event
    BY <1>2 DEF IndInv, Typed
  <2>2. PICK o \in Offers : Mentions(slot[w].block, o)
    BY <2>1 DEF Mentions, Event
  <2> QED  BY <1>4, <2>2, Current DEF OffersApart
<1>5. ASSUME NEW b, Settles(b)
      PROVE  Settles(b)'
  BY <1>3, <1>5 DEF Settles, Mentions
<1>6. ASSUME NEW b \in DOMAIN blocks, fate'[b] # "queued"
      PROVE  Settles(b)'
  <2>1. CASE b = slot[w].block
    BY <1>5, <2>1 DEF OneByOne, Orderly
  <2>2. CASE b # slot[w].block
    BY <1>3, <1>5, <1>6, <2>2 DEF OneByOne
  <2> QED  BY <2>1, <2>2
<1>7. ASSUME NEW v \in Workers
      PROVE  Orderly(v)'
  <2>1. CASE v = w
    BY <1>1, <2>1 DEF Orderly, At
  <2>2. CASE v # w
    <3>1. slot'[v] = slot[v] /\ Orderly(v)
      BY <1>1, <2>2 DEF Others, OneByOne
    <3> QED  BY <1>3, <1>4, <1>5, <2>2, <3>1 DEF Orderly, At
  <2> QED  BY <2>1, <2>2
<1>8. OneByOne'
  BY <1>6, <1>7 DEF OneByOne
<1>9. ASSUME NEW p \in Events, Passed(p)'
      PROVE  Passed(p)
  <2>0. p[1] \in DOMAIN blocks /\ p[2] \in DOMAIN blocks[p[1]]
    BY EventTypes
  <2>1. CASE fate'[p[1]] = "done" /\ p[1] = slot[w].block
    <3>1. At(w, "ack") /\ Len(blocks[slot[w].block]) < slot[w].pos
      BY <1>3, <2>1 DEF OneByOne, Orderly
    <3>2. p[2] < slot[w].pos
      BY <1>2, <2>0, <2>1, <3>1, Current
    <3> QED  BY <2>1, <3>2 DEF Passed, PassedBy
  <2>2. CASE fate'[p[1]] = "done" /\ p[1] # slot[w].block
    BY <1>3, <2>0, <2>2 DEF Passed
  <2>3. ASSUME NEW v \in Workers, PassedBy(v, p)'
        PROVE  Passed(p)
    BY <1>1, <2>3 DEF Passed, PassedBy, Others, At
  <2> QED  BY <1>9, <2>1, <2>2, <2>3 DEF Passed
<1> QED  BY <1>8, <1>9

\* The events of the chain, once another is emitted.
LEMMA EmitAdds ==
  ASSUME IndInv, OneByOne, NEW e \in Event, Emit(e)
  PROVE  \E n \in (DOMAIN blocks') \X (1..BlockSize) :
           /\ Events' = Events \cup {n} /\ EventAt(n)' = e
           /\ \A p \in Events : EventAt(p)' = EventAt(p) /\ Before(p, n) /\ p # n
           /\ fate'[n[1]] = "queued" /\ \A w \in Workers : slot[w].block # n[1]
           /\ \A b \in DOMAIN blocks : fate'[b] = fate[b] /\ (b # n[1] => blocks'[b] = blocks[b])
           /\ \A b \in DOMAIN blocks' : b <= n[1] /\ (b \in DOMAIN blocks \/ b = n[1])
<1>0. /\ blocks \in Seq(Seq(Event) \ {<<>>}) /\ fate \in Seq({"queued", "done", "dead"}) /\ Len(fate) = Len(blocks)
      /\ Len(blocks) \in Nat /\ BlockSize \in Nat \ {0}
  BY OffersAssumption DEF IndInv, Typed
<1>1. CASE blocks' = Append(blocks, <<e>>) /\ fate' = Append(fate, "queued")
  <2>0. PICK n : n = <<Len(blocks) + 1, 1>>
    OBVIOUS
  <2>1. /\ DOMAIN blocks' = DOMAIN blocks \cup {Len(blocks) + 1} /\ Len(blocks) + 1 \notin DOMAIN blocks
        /\ blocks'[Len(blocks) + 1] = <<e>> /\ \A b \in DOMAIN blocks : blocks'[b] = blocks[b] /\ fate'[b] = fate[b]
        /\ fate'[Len(blocks) + 1] = "queued"
    BY <1>0, <1>1
  <2>2. DOMAIN <<e>> = {1} /\ <<e>>[1] = e /\ 1 \in 1..BlockSize
    BY <1>0
  <2>3. n \in (DOMAIN blocks') \X (1..BlockSize) /\ EventAt(n)' = e
    BY <2>0, <2>1, <2>2 DEF EventAt
  <2>4. Events' = Events \cup {n}
    <3>1. ASSUME NEW p \in Events'
          PROVE  p \in Events \cup {n}
      <4>1. p = <<p[1], p[2]>> /\ p[1] \in DOMAIN blocks' /\ p[2] \in 1..BlockSize /\ p[2] \in DOMAIN blocks'[p[1]]
        BY DEF Events
      <4>2. CASE p[1] \in DOMAIN blocks
        BY <2>1, <4>1, <4>2 DEF Events
      <4>3. CASE p[1] = Len(blocks) + 1
        BY <2>0, <2>1, <2>2, <4>1, <4>3
      <4> QED  BY <2>1, <4>1, <4>2, <4>3
    <3>2. ASSUME NEW p \in Events
          PROVE  p \in Events'
      BY <2>1 DEF Events
    <3>3. n \in Events'
      BY <2>0, <2>1, <2>2, <2>3 DEF Events
    <3> QED  BY <3>1, <3>2, <3>3
  <2>5. ASSUME NEW p \in Events
        PROVE  EventAt(p)' = EventAt(p) /\ Before(p, n) /\ p # n
    <3>1. p[1] \in DOMAIN blocks
      BY EventTypes
    <3> QED  BY <2>0, <1>0, <2>1, <3>1 DEF EventAt, Before
  <2>6. ASSUME NEW w \in Workers
        PROVE  slot[w].block # n[1]
    BY <2>0, <1>0, Current DEF OneByOne, Orderly
  <2>7. n[1] = Len(blocks) + 1
    BY <2>0
  <2>8. \A b \in DOMAIN blocks' : b <= n[1]
    BY <1>0, <1>1, <2>7
  <2> QED  BY <2>0, <2>1, <2>3, <2>4, <2>5, <2>6, <2>7, <2>8
<1>2. CASE /\ blocks # <<>> /\ fate[Len(blocks)] = "queued" /\ Len(blocks) \notin Taken
           /\ Len(blocks[Len(blocks)]) < BlockSize
           /\ blocks' = [blocks EXCEPT ![Len(blocks)] = Append(@, e)] /\ fate' = fate
  <2>0. PICK k, n : k = Len(blocks) /\ n = <<k, Len(blocks[k]) + 1>>
    OBVIOUS
  <2>1. k \in DOMAIN blocks /\ blocks[k] \in Seq(Event) /\ Len(blocks[k]) \in Nat
    BY <2>0, <1>0, <1>2
  <2>2. /\ DOMAIN blocks' = DOMAIN blocks /\ \A b \in DOMAIN blocks : b # k => blocks'[b] = blocks[b]
        /\ blocks'[k] = Append(blocks[k], e)
    BY <2>0, <1>0, <1>2, <2>1
  <2>3. /\ DOMAIN Append(blocks[k], e) = DOMAIN blocks[k] \cup {Len(blocks[k]) + 1}
        /\ Append(blocks[k], e)[Len(blocks[k]) + 1] = e
        /\ \A i \in DOMAIN blocks[k] : Append(blocks[k], e)[i] = blocks[k][i] /\ i < Len(blocks[k]) + 1
    BY <2>0, <2>1
  <2>4. n \in (DOMAIN blocks') \X (1..BlockSize) /\ EventAt(n)' = e
    <3>1. Len(blocks[k]) + 1 \in 1..BlockSize
      BY <2>0, <1>0, <1>2, <2>1
    <3> QED  BY <2>0, <2>1, <2>2, <2>3, <3>1 DEF EventAt
  <2>5. ASSUME NEW p \in Events
        PROVE  p \in Events' /\ EventAt(p)' = EventAt(p) /\ Before(p, n) /\ p # n
    <3>1. p[1] \in 1..k /\ p[2] \in DOMAIN blocks[p[1]]
      BY <2>0, EventTypes DEF IndInv, Typed
    <3>2. CASE p[1] = k
      BY <2>0, <2>2, <2>3, <3>1, <3>2 DEF Events, EventAt, Before
    <3>3. CASE p[1] # k
      BY <2>0, <1>0, <2>2, <3>1, <3>3 DEF Events, EventAt, Before
    <3> QED  BY <3>2, <3>3
  <2>6. Events' = Events \cup {n}
    <3>1. ASSUME NEW p \in Events'
          PROVE  p \in Events \cup {n}
      <4>1. p = <<p[1], p[2]>> /\ p[1] \in DOMAIN blocks' /\ p[2] \in 1..BlockSize /\ p[2] \in DOMAIN blocks'[p[1]]
        BY DEF Events
      <4>2. CASE p[2] \in DOMAIN blocks[p[1]]
        BY <2>2, <4>1, <4>2 DEF Events
      <4>3. CASE p[2] \notin DOMAIN blocks[p[1]]
        BY <2>0, <2>2, <2>3, <4>1, <4>3
      <4> QED  BY <4>2, <4>3
    <3>2. n \in Events'
      BY <2>0, <2>1, <2>2, <2>3, <2>4 DEF Events
    <3> QED  BY <2>5, <3>1, <3>2
  <2>7. (\A w \in Workers : slot[w].block # k) /\ n[1] = k /\ fate'[k] = "queued"
    BY <2>0, <1>2 DEF Taken
  <2>8. \A b \in DOMAIN blocks' : b <= n[1]
    BY <1>0, <2>0, <2>2, <2>7
  <2> QED  BY <2>0, <1>2, <2>2, <2>4, <2>5, <2>6, <2>7, <2>8
<1> QED  BY <1>1, <1>2 DEF Emit

\* The event a worker handles, as one of the events of the chain.
LEMMA Here ==
  ASSUME IndInv, BlocksFit, NEW w \in Workers, ~At(w, "idle"), ~At(w, "ack")
  PROVE  \E h \in Events : /\ EventAt(h) = event(w) /\ h[1] = slot[w].block /\ h[2] = slot[w].pos
                           /\ \A p \in Events : IsHere(w, p) => p = h
<1>1. PICK h : h = <<slot[w].block, slot[w].pos>>
  OBVIOUS
<1>2. ASSUME NEW p \in Events, IsHere(w, p)
      PROVE  p = h
  BY <1>1, <1>2 DEF Events, IsHere
<1> QED  BY <1>1, <1>2, AtWork

\* What comes after the event being handled has not been handled.
LEMMA NotYet ==
  ASSUME IndInv, OneByOne, OffersApart,
         NEW w \in Workers, ~At(w, "idle"), ~At(w, "ack"), slot[w].pc \notin {"announce", "clear"},
         NEW h \in Events, h[1] = slot[w].block, h[2] = slot[w].pos, NEW p \in Events, Passed(p),
         EventAt(p).o = EventAt(h).o
  PROVE  ~Before(h, p) /\ p # h
<1>1. h[1] \in DOMAIN blocks /\ p[1] \in DOMAIN blocks /\ h[1] \in Nat /\ p[1] \in Nat /\ h[2] \in Nat /\ p[2] \in Nat
  BY EventTypes
<1>2. fate[h[1]] = "queued"
  BY DEF OneByOne, Orderly
<1>3. CASE fate[p[1]] = "done"
  <2>1. ~(h[1] < p[1]) /\ p[1] # h[1]
    BY <1>1, <1>2, <1>3, Mentioned DEF OneByOne, Settles
  <2> QED  BY <2>1 DEF Before
<1>4. CASE PassedBy(w, p)
  BY <1>1, <1>4 DEF Before, PassedBy
<1>5. ASSUME NEW v \in Workers, v # w, PassedBy(v, p)
      PROVE  FALSE
  BY <1>5, Mentioned DEF OffersApart, PassedBy
<1> QED  BY <1>3, <1>4, <1>5 DEF Passed

LEMMA EmitExplains ==
  ASSUME IndInv, StatusInv, NEW e \in Event, Emit(e), BlocksFit'
  PROVE  StatusInv'
<1>0. UNCHANGED <<expired, slot, tasks, offers, notifs, cron, faults>> /\ Legal(e) /\ OneByOne
  BY DEF Emit, StatusInv
<1>1. PICK n \in (DOMAIN blocks') \X (1..BlockSize) :
               /\ Events' = Events \cup {n} /\ EventAt(n)' = e
               /\ \A p \in Events : EventAt(p)' = EventAt(p) /\ Before(p, n) /\ p # n
               /\ fate'[n[1]] = "queued" /\ \A w \in Workers : slot[w].block # n[1]
               /\ \A b \in DOMAIN blocks : fate'[b] = fate[b] /\ (b # n[1] => blocks'[b] = blocks[b])
               /\ \A b \in DOMAIN blocks' : b <= n[1] /\ (b \in DOMAIN blocks \/ b = n[1])
  BY <1>0, EmitAdds
<1>2. ASSUME NEW b \in DOMAIN blocks, b # n[1], Settles(b)
      PROVE  Settles(b)'
  <2>1. ASSUME NEW c \in DOMAIN blocks', c < b
        PROVE  c \in DOMAIN blocks /\ fate'[c] = fate[c] /\ blocks'[c] = blocks[c] /\ blocks'[b] = blocks[b]
    <3>1. /\ b \in DOMAIN blocks' /\ b \in Nat
          /\ DOMAIN blocks' \subseteq Nat
      BY <1>1, ChainGrows DEF IndInv, Typed
    <3>2. b <= n[1] /\ c \in Nat /\ n[1] \in Nat /\ c <= n[1]
      BY <1>1, <3>1
    <3> QED  BY <1>1, <1>2, <2>1, <3>1, <3>2
  <2> QED  BY <1>2, <2>1 DEF Settles, Mentions
<1>3. OneByOne'
  <2>1. ASSUME NEW b \in DOMAIN blocks', fate'[b] # "queued"
        PROVE  Settles(b)'
    BY <1>0, <1>1, <1>2, <2>1 DEF OneByOne
  <2>2. ASSUME NEW w \in Workers
        PROVE  Orderly(w)'
    <3>1. Orderly(w) /\ slot'[w] = slot[w] /\ slot[w].block # n[1]
      BY <1>0, <1>1, <2>2 DEF OneByOne
    <3>2. ~At(w, "idle") => slot[w].block \in DOMAIN blocks
      BY Current
    <3>3. ~At(w, "idle") => fate'[slot[w].block] = fate[slot[w].block] /\ blocks'[slot[w].block] = blocks[slot[w].block]
      BY <1>1, <3>1, <3>2
    <3> QED  BY <1>2, <3>1, <3>2, <3>3 DEF Orderly, At
  <2> QED  BY <2>1, <2>2 DEF OneByOne
<1>4. OneLife'
  <2>1. ASSUME NEW p \in Events, EventAt(p).o = e.o
        PROVE  /\ e.kind # "send"
               /\ e.kind \in {"accept", "withdraw"} => ~Ends(p)
    BY <1>0, <2>1, EventTypes DEF Legal, Live, Happened, Kinds, Ends
  <2>2. ASSUME NEW p \in Events', NEW q \in Events', EventAt(p)'.o = EventAt(q)'.o
        PROVE  /\ EventAt(p)'.kind = "send" /\ EventAt(q)'.kind = "send" => p = q
               /\ Ends(p)' /\ Ends(q)' => p = q
               /\ EventAt(p)'.kind = "send" /\ Ends(q)' => Before(p, q)
    <3>1. CASE p \in Events /\ q \in Events
      BY <1>1, <2>2, <3>1 DEF StatusInv, OneLife, Ends
    <3>2. CASE p \in Events /\ q = n
      BY <1>1, <2>1, <2>2, <3>2 DEF Ends
    <3>3. CASE p = n /\ q \in Events
      BY <1>1, <2>1, <2>2, <3>3 DEF Ends
    <3>4. CASE p = n /\ q = n
      BY <3>4 DEF Ends
    <3> QED  BY <1>1, <3>1, <3>2, <3>3, <3>4
  <2> QED  BY <2>2 DEF OneLife, Before
<1>5. Obeyed'
  <2> SUFFICES ASSUME NEW p \in Events', Passed(p)'
               PROVE  offers'[EventAt(p)'.o] \in Effect(EventAt(p)'.kind)
    BY DEF Obeyed, Effect
  <2>1. p # n
    BY <1>0, <1>1 DEF Passed, PassedBy, At
  <2>2. p \in Events /\ EventAt(p)' = EventAt(p) /\ fate'[p[1]] = fate[p[1]]
    BY <1>1, <2>1, EventTypes
  <2>3. Passed(p)
    BY <1>0, <2>2 DEF Passed, PassedBy, At
  <2> QED  BY <1>0, <2>2, <2>3 DEF StatusInv, Obeyed
<1>6. Caused'
  <2>1. ASSUME NEW o \in Offers, offers[o] \in {"Active", "Accepted", "Closed"}
        PROVE  \E p \in Events' : EventAt(p)'.o = o /\ Means(EventAt(p)'.kind, offers[o])
    <3>1. PICK p \in Events : EventAt(p).o = o /\ Means(EventAt(p).kind, offers[o])
      BY <2>1 DEF StatusInv, Caused
    <3>2. p \in Events' /\ EventAt(p)' = EventAt(p)
      BY <1>1
    <3> QED  BY <3>1, <3>2
  <2> QED  BY <1>0, <2>1 DEF StatusInv, Caused, Overdue, Means
<1> QED  BY <1>3, <1>4, <1>5, <1>6 DEF StatusInv

\* A worker's step: the events it has got past keep what they say, and its own
\* event says what it writes.
LEMMA WorkerExplains ==
  ASSUME IndInv, StatusInv, UNCHANGED <<blocks, expired>>, cron'.offers \subseteq cron.offers, OneByOne',
         \A p \in Events : Passed(p)' => offers'[EventAt(p).o] \in Effect(EventAt(p).kind),
         \A o \in Offers : offers'[o] # offers[o] =>
           /\ offers'[o] \in {"Active", "Accepted", "Closed"}
           /\ \E p \in Events : EventAt(p).o = o /\ Means(EventAt(p).kind, offers'[o])
  PROVE  StatusInv'
<1>0. Events' = Events /\ \A p : EventAt(p)' = EventAt(p)
  BY DEF Events, EventAt
<1>1. BlocksFit'
  BY DEF StatusInv, BlocksFit
<1>2. OneLife'
  BY <1>0 DEF StatusInv, OneLife, Ends, Before
<1>3. Obeyed'
  BY <1>0 DEF Obeyed, Effect
<1>4. Caused'
  <2> SUFFICES ASSUME NEW o \in Offers
               PROVE  /\ offers'[o] \in {"Active", "Accepted", "Closed"} =>
                           \E p \in Events : EventAt(p).o = o /\ Means(EventAt(p).kind, offers'[o])
                      /\ offers'[o] = "Expired" \/ o \in cron'.offers => Overdue(o)
    BY <1>0 DEF Caused, Overdue, Means
  <2> QED  BY DEF StatusInv, Caused
<1> QED  BY <1>1, <1>2, <1>3, <1>4 DEF StatusInv

\* What the block a worker takes goes on with has been handled.
LEMMA TakeOne ==
  ASSUME IndInv, NEW w \in Workers, OneByOne, OffersApart', Take(w)
  PROVE  OneByOne' /\ \A p \in Events : Passed(p)' => Passed(p)
<1>0. UNCHANGED <<blocks, fate>> /\ At(w, "idle") /\ slot[w].block = 0
  BY DEF Take, OneByOne, Orderly
<1>1. PICK b \in DOMAIN blocks : /\ fate[b] = "queued" /\ \A c \in 1..(b - 1) : fate[c] = "queued" => c \in Taken
                                 /\ slot' = [slot EXCEPT ![w] = [block |-> b, pos |-> 1, pc |-> "next"]]
  BY DEF Take
<1>2. slot'[w] = [block |-> b, pos |-> 1, pc |-> "next"] /\ Others(w)
  BY <1>1 DEF IndInv, Typed, Others
<1>3. Settles(b)
  <2> SUFFICES ASSUME NEW c \in DOMAIN blocks, NEW o \in Offers, c < b, Mentions(c, o), Mentions(b, o), fate[c] = "queued"
               PROVE  FALSE
    BY DEF Settles
  <2>1. c \in 1..(b - 1) /\ c # 0
    BY DEF IndInv, Typed
  <2>2. PICK v \in Workers : slot[v].block = c
    BY <1>1, <2>1 DEF Taken
  <2>3. v # w /\ ~At(v, "idle") /\ slot'[v] = slot[v]
    BY <1>0, <1>2, <2>1, <2>2 DEF OneByOne, Orderly, Others
  <2>4. ~At(v, "idle")' /\ ~At(w, "idle")' /\ slot'[v].block = c /\ slot'[w].block = b
    BY <1>2, <2>2, <2>3 DEF At
  <2>5. Mentions(c, o)' /\ Mentions(b, o)'
    BY <1>0 DEF Mentions
  <2> QED  BY <2>3, <2>4, <2>5 DEF OffersApart
<1>4. Orderly(w)'
  BY <1>0, <1>1, <1>2, <1>3, SettlesKept DEF Orderly, At
<1>5. OneByOne'
  BY <1>0, <1>2, <1>4, OrderKept
<1>6. ASSUME NEW p \in Events, Passed(p)'
      PROVE  Passed(p)
  <2>0. p[1] \in DOMAIN blocks /\ p[2] \in DOMAIN blocks[p[1]]
    BY EventTypes
  <2>1. p[2] \in DOMAIN blocks[p[1]] /\ blocks[p[1]] \in Seq(Event)
    BY <2>0 DEF IndInv, Typed
  <2>2. ~(p[2] < 1)
    BY <2>1
  <2>3. ~PassedBy(w, p)'
    BY <1>2, <2>2 DEF PassedBy, At
  <2> QED  BY <1>0, <1>2, <1>6, <2>3, PassedKept
<1> QED  BY <1>5, <1>6

LEMMA AckOne ==
  ASSUME IndInv, NEW w \in Workers, OneByOne, OffersApart, Ack(w)
  PROVE  OneByOne' /\ \A p \in Events : Passed(p)' => Passed(p)
  BY GivenUp DEF Ack, At

LEMMA HandleExplains ==
  ASSUME IndInv, StatusInv, OffersApart, OffersApart', NEW w \in Workers, Handle(w)
  PROVE  StatusInv'
<1>0. /\ UNCHANGED <<blocks, expired, cron>> /\ OneByOne /\ BlocksFit /\ w \in Workers
      /\ \A p \in Events : Passed(p) => offers[EventAt(p).o] \in Effect(EventAt(p).kind)
  BY DEF Handle, Take, Ack, SendInsert, SendAnnounce, OfferRead, OfferSave, AcceptClear, StatusInv, Obeyed
<1>1. CASE Take(w)
  <2>1. offers' = offers
    BY <1>1 DEF Take
  <2> QED  BY <1>0, <1>1, <2>1, TakeOne, WorkerExplains
<1>2. CASE Ack(w)
  <2>1. offers' = offers
    BY <1>2 DEF Ack
  <2> QED  BY <1>0, <1>2, <2>1, AckOne, WorkerExplains
<1>3. CASE SendInsert(w)
  <2>0. ~At(w, "idle") /\ ~At(w, "ack") /\ slot[w].pc \notin {"announce", "clear"} /\ event(w).kind = "send"
    BY <1>3 DEF SendInsert, At, Handling
  <2>1. CASE Leave(w, "dead") /\ offers' = offers
    BY <1>0, <2>0, <2>1, GivenUp, WorkerExplains
  <2>2. CASE Insertable(event(w).o) /\ offers' = [offers EXCEPT ![event(w).o] = "Active"] /\ Goto(w, "announce")
    <3>1. PICK h \in Events : /\ EventAt(h) = event(w) /\ h[1] = slot[w].block /\ h[2] = slot[w].pos
                              /\ \A p \in Events : IsHere(w, p) => p = h
      BY <1>0, <2>0, Here
    <3>2. offers[EventAt(h).o] = "absent" /\ offers'[EventAt(h).o] = "Active"
          /\ \A o \in Offers : o # EventAt(h).o => offers'[o] = offers[o]
      BY <2>2, <3>1, EventTypes DEF Insertable, IndInv, Typed
    <3>3. ASSUME NEW p \in Events, Passed(p)'
          PROVE  offers'[EventAt(p).o] \in Effect(EventAt(p).kind)
      <4>1. CASE p = h
        BY <2>0, <3>1, <3>2, <4>1 DEF Effect
      <4>2. CASE p # h
        <5>1. Passed(p)
          BY <1>0, <2>0, <2>2, <3>1, <3>3, <4>2, Onwards
        <5>2. CASE EventAt(p).o = EventAt(h).o
          <6>1. EventAt(p).kind = "withdraw"
            BY <1>0, <3>2, <5>1, <5>2, EventTypes DEF Effect
          <6>2. Before(h, p)
            BY <2>0, <3>1, <5>2, <6>1 DEF StatusInv, OneLife, Ends
          <6> QED  BY <1>0, <2>0, <3>1, <5>1, <5>2, <6>2, NotYet
        <5>3. CASE EventAt(p).o # EventAt(h).o
          BY <1>0, <3>2, <5>1, <5>3, EventTypes
        <5> QED  BY <5>2, <5>3
      <4> QED  BY <4>1, <4>2
    <3>4. OneByOne'
      BY <1>0, <2>0, <2>2, Onwards
    <3>5. Means(EventAt(h).kind, "Active")
      BY <2>0, <3>1 DEF Means
    <3> QED  BY <1>0, <3>2, <3>3, <3>4, <3>5, WorkerExplains
  <2> QED  BY <1>3, <2>1, <2>2 DEF SendInsert
<1>4. CASE SendAnnounce(w)
  <2>1. ~At(w, "idle") /\ ~At(w, "ack") /\ slot[w].pc = "announce" /\ offers' = offers /\ Return(w)
    BY <1>4 DEF SendAnnounce, At
  <2>2. \A p \in Events : IsHere(w, p) => Passed(p)
    BY <2>1 DEF IsHere, Passed, PassedBy
  <2> QED  BY <1>0, <2>1, <2>2, Onwards, WorkerExplains
<1>5. CASE OfferRead(w)
  <2>0. ~At(w, "idle") /\ ~At(w, "ack") /\ offers' = offers
    BY <1>5 DEF OfferRead, At
  <2>1. CASE Goto(w, "save")
    <3>1. OneByOne' /\ \A p \in Events : Passed(p)' => Passed(p)
      BY <1>0, <2>0, <2>1, Onwards
    <3> QED  BY <1>0, <2>0, <3>1, WorkerExplains
  <2>2. CASE offers[event(w).o] = "absent" /\ Handling(w, "withdraw") /\ Return(w)
    <3>1. ASSUME NEW p \in Events, IsHere(w, p)
          PROVE  offers[EventAt(p).o] \in Effect(EventAt(p).kind)
      BY <2>2, <3>1 DEF IsHere, EventAt, event, Handling, Effect
    <3> QED  BY <1>0, <2>0, <2>2, <3>1, Onwards, WorkerExplains
  <2>3. CASE Leave(w, "dead")
    BY <1>0, <2>0, <2>3, GivenUp, WorkerExplains
  <2> QED  BY <1>5, <2>1, <2>2, <2>3 DEF OfferRead
<1>6. CASE OfferSave(w)
  <2>0. /\ ~At(w, "idle") /\ ~At(w, "ack") /\ offers[event(w).o] # "absent" /\ event(w).kind \in {"accept", "withdraw"}
        /\ offers' = [offers EXCEPT ![event(w).o] = StatusOf(event(w).kind)]
        /\ Goto(w, "clear") \/ Return(w)
    BY <1>6 DEF OfferSave, At, IndInv, Kept, Holds, event
  <2>1. PICK h \in Events : /\ EventAt(h) = event(w) /\ h[1] = slot[w].block /\ h[2] = slot[w].pos
                            /\ \A p \in Events : IsHere(w, p) => p = h
    BY <1>0, <2>0, Here
  <2>2. /\ Means(EventAt(h).kind, offers'[EventAt(h).o]) /\ offers'[EventAt(h).o] \in Effect(EventAt(h).kind)
        /\ offers'[EventAt(h).o] \in {"Accepted", "Closed"}
        /\ \A o \in Offers : o # EventAt(h).o => offers'[o] = offers[o]
    BY <2>0, <2>1, EventTypes DEF StatusOf, Means, Effect, IndInv, Typed
  <2>3. ASSUME NEW p \in Events, Passed(p)'
        PROVE  offers'[EventAt(p).o] \in Effect(EventAt(p).kind)
    <3>1. CASE p = h
      BY <2>2, <3>1
    <3>2. CASE p # h
      <4>1. Passed(p)
        BY <1>0, <2>0, <2>1, <2>3, <3>2, Onwards
      <4>2. CASE EventAt(p).o = EventAt(h).o
        <5>1. EventAt(p).kind = "send"
          BY <2>0, <2>1, <3>2, <4>2, EventTypes DEF StatusInv, OneLife, Ends
        <5> QED  BY <2>2, <4>2, <5>1 DEF Effect
      <4>3. CASE EventAt(p).o # EventAt(h).o
        BY <1>0, <2>2, <4>1, <4>3, EventTypes
      <4> QED  BY <4>2, <4>3
    <3> QED  BY <3>1, <3>2
  <2>4. OneByOne'
    BY <1>0, <2>0, Onwards
  <2> QED  BY <1>0, <2>2, <2>3, <2>4, WorkerExplains
<1>7. CASE AcceptClear(w)
  <2>1. ~At(w, "idle") /\ ~At(w, "ack") /\ slot[w].pc = "clear" /\ offers' = offers /\ Return(w)
    BY <1>7 DEF AcceptClear, At
  <2>2. \A p \in Events : IsHere(w, p) => Passed(p)
    BY <2>1 DEF IsHere, Passed, PassedBy
  <2> QED  BY <1>0, <2>1, <2>2, Onwards, WorkerExplains
<1> QED  BY <1>1, <1>2, <1>3, <1>4, <1>5, <1>6, <1>7 DEF Handle

\* What leaves the chain, the slot and the rows as they are, but for the cron.
LEMMA CronExplains ==
  ASSUME IndInv, StatusInv, Cron
  PROVE  StatusInv'
<1>0. UNCHANGED <<blocks, fate, expired, slot>>
  BY DEF Cron, CronRead, CronNotify, CronSave
<1>1. BlocksFit' /\ OneByOne' /\ OneLife'
  BY <1>0 DEF StatusInv, BlocksFit, OneByOne, Orderly, Settles, Mentions, OneLife, Ends, Before, Events, EventAt, At
<1>2. /\ \A o \in Offers : offers'[o] # offers[o] => offers'[o] = "Expired" /\ o \in cron.offers
      /\ \A o \in Offers : o \in cron'.offers => o \in cron.offers \/ (CronRuns /\ o \in expired)
  <2>1. CASE CronRead
    BY <2>1 DEF CronRead, ReachedDeadline
  <2>2. CASE CronNotify
    BY <2>2 DEF CronNotify, IndInv, Typed
  <2>3. CASE CronSave
    BY <2>3 DEF CronSave, IdleCron
  <2> QED  BY <2>1, <2>2, <2>3 DEF Cron
<1>3. Events' = Events /\ \A p : EventAt(p)' = EventAt(p)
  BY <1>0 DEF Events, EventAt
<1>4. Obeyed'
  <2> SUFFICES ASSUME NEW p \in Events, Passed(p)
               PROVE  offers'[EventAt(p).o] \in Effect(EventAt(p).kind)
    BY <1>0, <1>3 DEF Obeyed, Effect, Passed, PassedBy, At
  <2>1. EventAt(p).o \in Offers /\ offers[EventAt(p).o] \in Effect(EventAt(p).kind)
    BY EventTypes DEF StatusInv, Obeyed
  <2> QED  BY <1>2, <2>1, EventTypes DEF Effect
<1>5. Caused'
  <2> SUFFICES ASSUME NEW o \in Offers
               PROVE  /\ offers'[o] \in {"Active", "Accepted", "Closed"} =>
                           \E p \in Events : EventAt(p).o = o /\ Means(EventAt(p).kind, offers'[o])
                      /\ offers'[o] = "Expired" \/ o \in cron'.offers => Overdue(o)
    BY <1>0, <1>3 DEF Caused, Overdue, Means
  <2> QED  BY <1>2 DEF StatusInv, Caused, Overdue
<1> QED  BY <1>1, <1>4, <1>5 DEF StatusInv

LEMMA FaultExplains ==
  ASSUME IndInv, StatusInv, OffersApart, Faulty
  PROVE  StatusInv'
<1>0. /\ UNCHANGED <<blocks, expired, offers>> /\ OneByOne /\ BlocksFit
      /\ \A p \in Events : Passed(p) => offers[EventAt(p).o] \in Effect(EventAt(p).kind)
  BY DEF Faulty, Crash, HandlerFails, CronFails, StatusInv, Obeyed
<1>1. ASSUME NEW w \in Workers, HandlerFails(w)
      PROVE  StatusInv'
  <2>0. ~At(w, "idle") /\ cron' = cron
    BY <1>1 DEF HandlerFails
  <2>1. CASE Leave(w, "dead")
    BY <1>0, <2>0, <2>1, GivenUp, WorkerExplains
  <2>2. CASE slot[w].pc \in {"announce", "clear"} /\ Return(w)
    <3>1. ~At(w, "ack")
      BY <2>2 DEF At
    <3>2. \A p \in Events : IsHere(w, p) => Passed(p)
      BY <2>0, <2>2 DEF IsHere, Passed, PassedBy
    <3> QED  BY <1>0, <2>0, <2>2, <3>1, <3>2, Onwards, WorkerExplains
  <2> QED  BY <1>1, <2>1, <2>2 DEF HandlerFails
<1>2. CASE Crash
  <2>1. fate' = fate /\ (\A w \in Workers : slot'[w] = IdleSlot) /\ cron' = IdleCron
    BY <1>2 DEF Crash
  <2>2. OneByOne'
    BY <1>0, <2>1, SettlesKept DEF OneByOne, Orderly, At, IdleSlot
  <2>3. \A p \in Events : Passed(p)' => Passed(p)
    BY <2>1 DEF Passed, PassedBy, At, IdleSlot
  <2> QED  BY <1>0, <2>1, <2>2, <2>3, WorkerExplains DEF IdleCron
<1>3. CASE CronFails
  <2>1. UNCHANGED <<fate, slot>> /\ cron' = IdleCron
    BY <1>3 DEF CronFails
  <2>2. OneByOne'
    BY <1>0, <2>1, SettlesKept DEF OneByOne, Orderly, At
  <2>3. \A p \in Events : Passed(p)' => Passed(p)
    BY <2>1 DEF Passed, PassedBy, At
  <2> QED  BY <1>0, <2>1, <2>2, <2>3, WorkerExplains DEF IdleCron
<1> QED  BY <1>1, <1>2, <1>3 DEF Faulty

LEMMA StatusKept ==
  ASSUME IndInv, AuctionsTyped, Announcing, StatusInv, OffersApart, OffersApart', [Next]_vars
  PROVE  StatusInv'
<1>1. BlocksFit'
  BY AnnouncingKept DEF Announcing
<1>2. ASSUME blocks' = blocks, fate' = fate, slot' = slot, offers' = offers, cron' = cron, expired \subseteq expired'
      PROVE  StatusInv'
  <2>1. Events' = Events /\ \A p : EventAt(p)' = EventAt(p)
    BY <1>2 DEF Events, EventAt
  <2>2. BlocksFit' /\ OneByOne'
    BY <1>2, SettlesKept DEF StatusInv, BlocksFit, OneByOne, Orderly, At
  <2>3. OneLife'
    BY <2>1 DEF StatusInv, OneLife, Ends, Before
  <2>4. Obeyed'
    BY <1>2, <2>1 DEF StatusInv, Obeyed, Passed, PassedBy, Effect, At
  <2>5. Caused'
    BY <1>2, <2>1 DEF StatusInv, Caused, Means, Overdue
  <2> QED  BY <2>2, <2>3, <2>4, <2>5 DEF StatusInv
<1>3. CASE UNCHANGED vars
  BY <1>2, <1>3 DEF vars
<1>4. ASSUME NEW o \in Offers, Deadline(o)
      PROVE  StatusInv'
  BY <1>2, <1>4 DEF Deadline
<1>5. ASSUME NEW t \in tasks, Settle(t)
      PROVE  StatusInv'
  BY <1>2, <1>5 DEF Settle, TaskNotify, TaskClear
<1>6. ASSUME NEW e \in Event, Emit(e)
      PROVE  StatusInv'
  BY <1>1, <1>6, EmitExplains
<1>7. ASSUME NEW item \in Auctioned, AuctionClears(item)
      PROVE  StatusInv'
  BY <1>2, <1>7 DEF AuctionClears
<1> QED  BY <1>3, <1>4, <1>5, <1>6, <1>7, HandleExplains, CronExplains, FaultExplains DEF Next

LEMMA StatusInit == Init => StatusInv
<1> SUFFICES ASSUME Init PROVE StatusInv
  OBVIOUS
<1>1. blocks = <<>> /\ DOMAIN blocks = {} /\ Events = {}
  BY DEF Init, Events
<1> QED  BY <1>1 DEF Init, StatusInv, BlocksFit, OneByOne, Orderly, OneLife, Obeyed, Caused, At, IdleSlot, IdleCron

\* As long as no two blocks in hand hold events of one offer, the status of every
\* offer is explained by its last handled event or by the cron, for any number of
\* workers and whatever crashes and fails on the way.
THEOREM StatusesExplained == Spec /\ []OffersApart => []StatusIsExplained
<1> DEFINE Inv == IndInv /\ AuctionsTyped /\ Announcing /\ StatusInv
<1>1. Init => Inv
  BY InitInv, AnnouncingInit, StatusInit DEF Init, AuctionsTyped
<1>2. Inv /\ OffersApart /\ OffersApart' /\ [Next]_vars => Inv'
  BY OneStep, AuctionsStep, AnnouncingKept, StatusKept
<1>3. IndInv /\ StatusInv => StatusIsExplained
  <2> SUFFICES ASSUME IndInv, StatusInv, Settled, NEW o \in Offers
               PROVE  LET own == {p \in Events : EventAt(p).o = o}
                          means == [send |-> "Active", accept |-> "Accepted", withdraw |-> "Closed"]
                          latest == {p \in own : \A q \in own : fate[q[1]] = "done" => ~Before(p, q)}
                      IN IF offers[o] = "absent"
                           THEN \A p \in own : EventAt(p).kind = "send" => fate[p[1]] = "dead"
                           ELSE offers[o] \in {means[EventAt(p).kind] : p \in latest}
                                               \cup (IF CronRuns /\ o \in expired THEN {"Expired"} ELSE {})
    BY DEF StatusIsExplained
  <2> DEFINE own == {p \in Events : EventAt(p).o = o}
             means == [send |-> "Active", accept |-> "Accepted", withdraw |-> "Closed"]
             latest == {p \in own : \A q \in own : fate[q[1]] = "done" => ~Before(p, q)}
  <2>1. ASSUME NEW p \in own, fate[p[1]] = "done"
        PROVE  offers[o] \in Effect(EventAt(p).kind)
    BY <2>1 DEF StatusInv, Obeyed, Passed
  <2>2. ASSUME offers[o] = "absent", NEW p \in own, EventAt(p).kind = "send"
        PROVE  fate[p[1]] = "dead"
    <3>1. fate[p[1]] \in {"queued", "done", "dead"} /\ fate[p[1]] # "queued"
      BY EventTypes DEF Settled
    <3> QED  BY <2>1, <2>2, <3>1 DEF Effect
  <2>3. CASE offers[o] \in {"Active", "Accepted", "Closed"}
    <3>1. PICK p \in own : Means(EventAt(p).kind, offers[o])
      BY <2>3 DEF StatusInv, Caused
    <3>2. means[EventAt(p).kind] = offers[o]
      BY <3>1 DEF Means
    <3>3. ASSUME NEW q \in own, fate[q[1]] = "done", Before(p, q)
          PROVE  FALSE
      <4>1. offers[o] \in Effect(EventAt(q).kind) /\ EventAt(q).kind \in {"send", "accept", "withdraw"}
        BY <2>1, <3>3, EventTypes
      <4>2. ~Before(q, p) /\ p # q
        BY <3>3, EventTypes DEF Before
      <4>3. CASE EventAt(p).kind = "send"
        BY <3>1, <4>1, <4>2, <4>3 DEF Means, Effect, StatusInv, OneLife
      <4>4. CASE EventAt(p).kind \in {"accept", "withdraw"}
        BY <4>1, <4>2, <4>4 DEF StatusInv, OneLife, Ends
      <4> QED  BY <3>1, <4>3, <4>4 DEF Means
    <3>4. p \in latest
      BY <3>3
    <3> QED  BY <2>3, <3>2, <3>4
  <2>4. CASE offers[o] = "Expired"
    BY <2>4 DEF StatusInv, Caused, Overdue
  <2>5. offers[o] \in {"Active", "Accepted", "Closed", "Expired", "absent"}
    BY DEF IndInv, Typed, OfferStatus
  <2> QED  BY <2>2, <2>3, <2>4, <2>5
<1>4. Inv => StatusIsExplained
  BY <1>3
<1> HIDE DEF Inv
<1> QED  BY <1>1, <1>2, <1>4, PTL DEF Spec
=============================================================================
