---------------------------- MODULE OfferIndexer ----------------------------
(***************************************************************************)
(* How the offers made for NFTs are indexed: the consumer of the events    *)
(* queue, the promises its handlers do not await, and the cron that        *)
(* expires offers, all writing the tables offers and notifications.        *)
(*                                                                         *)
(* An offer's columns other than its status never change once it is        *)
(* inserted, so a remembered row saved whole writes its status only.       *)
(***************************************************************************)
EXTENDS Integers, SequencesExt

CONSTANTS
  Offers,      \* offer ids of one marketplace
  Items,       \* the NFTs offers are made for
  Item,        \* Item[o]: the NFT of offer o
  Announced,   \* the NFTs with an owner to tell about an offer
  Auctioned,   \* the NFTs in an auction of the marketplace, which table auctions has as Running
  Workers,     \* blocks handled at the same time (the consumer's prefetch)
  CronRuns,    \* whether the cron of the expired offers is started
  MaxEvents, BlockSize, MaxFaults   \* bounds

ASSUME OffersAssumption ==
  /\ Item \in [Offers -> Items] /\ {Announced, Auctioned} \subseteq SUBSET Items /\ CronRuns \in BOOLEAN
  /\ MaxEvents \in Nat /\ BlockSize \in Nat \ {0} /\ MaxFaults \in Nat

VARIABLES
  blocks,    \* the blocks of the chain: sequences of events
  fate,      \* fate[b]: "queued", "done" or "dead"
  expired,   \* offers whose deadline has passed
  slot,      \* slot[w]: the block a worker handles, its next event, and where it is
  tasks,     \* the promises nobody awaits
  offers,    \* table offers: one row per offer id (the unique index), its status
  notifs,    \* the active rows of table notifications that are about offers
  told,      \* told[o]: whose the notification of offer o is; auctionId says the auction's
  closed,    \* NFTs whose auction is sold, past its deadline or ended
  cron,      \* the run of the cron
  faults     \* how many crashes and failed calls happened

vars == <<blocks, fate, expired, slot, tasks, offers, notifs, told, closed, cron, faults>>
auctionVars == <<told, closed>>

-----------------------------------------------------------------------------
Kinds == {"send", "accept", "withdraw"}
Event == [kind : Kinds, o : Offers]
OfferStatus == {"Active", "Closed", "Accepted", "Expired"}
Notification == [type : {"OfferReceived", "OfferExpired"}, o : Offers]
Task == [task : {"notify"}, rows : SUBSET Notification] \cup [task : {"clear"}, item : Items]
Slot == [block : Nat, pos : Nat \ {0}, pc : {"idle", "next", "announce", "save", "clear", "ack"}]

IdleSlot == [block |-> 0, pos |-> 1, pc |-> "idle"]
IdleCron == [pc |-> "idle", offers |-> {}]

Init ==
  /\ blocks = <<>> /\ fate = <<>> /\ expired = {}
  /\ slot = [w \in Workers |-> IdleSlot]
  /\ tasks = {}
  /\ offers = [o \in Offers |-> "absent"]
  /\ notifs = {}
  /\ told = [o \in Offers |-> "nobody"] /\ closed = {}
  /\ cron = IdleCron
  /\ faults = 0

-----------------------------------------------------------------------------
(* The chain.                                                              *)

Events == {p \in (DOMAIN blocks) \X (1..BlockSize) : p[2] \in DOMAIN blocks[p[1]]}
EventAt(p) == blocks[p[1]][p[2]]
Happened(o, kinds) == \E p \in Events : EventAt(p).o = o /\ EventAt(p).kind \in kinds
Live(o) == Happened(o, {"send"}) /\ ~Happened(o, {"accept", "withdraw"})

Legal(e) ==
  \/ e.kind = "send" /\ ~Happened(e.o, Kinds)
  \/ e.kind = "accept" /\ Live(e.o) /\ e.o \notin expired
  \/ e.kind = "withdraw" /\ Live(e.o)

Taken == {slot[w].block : w \in Workers}

Emit(e) ==
  /\ Cardinality(Events) < MaxEvents /\ Legal(e)
  /\ \/ \* the event opens a block
        /\ blocks' = Append(blocks, <<e>>) /\ fate' = Append(fate, "queued")
     \/ \* the event joins the last block, not delivered yet
        /\ blocks # <<>> /\ fate[Len(blocks)] = "queued" /\ Len(blocks) \notin Taken
        /\ Len(blocks[Len(blocks)]) < BlockSize
        /\ blocks' = [blocks EXCEPT ![Len(blocks)] = Append(@, e)]
        /\ UNCHANGED fate
  /\ UNCHANGED <<expired, slot, tasks, offers, notifs, cron, faults, auctionVars>>

Deadline(o) ==
  /\ Live(o) /\ o \notin expired
  /\ expired' = expired \cup {o}
  /\ UNCHANGED <<blocks, fate, slot, tasks, offers, notifs, cron, faults, auctionVars>>

-----------------------------------------------------------------------------
(* The consumer of the events queue.                                       *)

event(w) == blocks[slot[w].block][slot[w].pos]
At(w, pc) == slot[w].pc = pc
Handling(w, kind) == event(w).kind = kind
Goto(w, pc) == slot' = [slot EXCEPT ![w].pc = pc] /\ UNCHANGED fate

\* The handler of the current event returns.
Return(w) ==
  /\ LET last == slot[w].pos = Len(blocks[slot[w].block]) IN
       slot' = [slot EXCEPT ![w] = [block |-> slot[w].block, pos |-> slot[w].pos + 1,
                                     pc |-> IF last THEN "ack" ELSE "next"]]
  /\ UNCHANGED fate

\* The consumer is through with its block: acknowledged, or rejected to the dead letters.
Leave(w, how) ==
  /\ fate' = [fate EXCEPT ![slot[w].block] = how]
  /\ slot' = [slot EXCEPT ![w] = IdleSlot]

Take(w) ==
  /\ At(w, "idle")
  /\ \E b \in DOMAIN blocks :
       /\ fate[b] = "queued" /\ b \notin Taken
       /\ \A c \in 1..(b - 1) : fate[c] = "queued" => c \in Taken
       /\ slot' = [slot EXCEPT ![w] = [block |-> b, pos |-> 1, pc |-> "next"]]
  /\ UNCHANGED <<blocks, fate, expired, tasks, offers, notifs, cron, faults, auctionVars>>

Ack(w) ==
  /\ At(w, "ack") /\ Leave(w, "done")
  /\ UNCHANGED <<blocks, expired, tasks, offers, notifs, cron, faults, auctionVars>>

\* Faulty variant: a row already there is saved again.
Anyhow(o) == TRUE
\* The unique index lets an offer be inserted once.
Insertable(o) == offers[o] = "absent"

SendInsert(w) ==
  /\ At(w, "next") /\ Handling(w, "send")
  /\ \/ /\ Insertable(event(w).o)
        /\ offers' = [offers EXCEPT ![event(w).o] = "Active"]
        /\ Goto(w, "announce")
     \/ ~Insertable(event(w).o) /\ Leave(w, "dead") /\ UNCHANGED offers
  /\ UNCHANGED <<blocks, expired, tasks, notifs, cron, faults, auctionVars>>

\* The owner of the NFT is told, or the owner of its auction when the marketplace
\* holds it; nobody, when that auction is not Running any more.
Addressees(item) ==
  CASE item \notin Announced -> {"nobody"}
    [] item \in Announced \ Auctioned -> {"owner"}
    [] item \in Announced \cap (Auctioned \ closed) -> {"auction"}
    [] OTHER -> {"nobody", "owner", "auction"}

\* After the call to the feed, by a task.
SendAnnounce(w) ==
  /\ At(w, "announce")
  /\ \E to \in Addressees(Item[event(w).o]) :
       /\ told' = [told EXCEPT ![event(w).o] = to]
       /\ tasks' = IF to = "nobody" THEN tasks
                   ELSE tasks \cup {[task |-> "notify", rows |-> {[type |-> "OfferReceived", o |-> event(w).o]}]}
  /\ Return(w)
  /\ UNCHANGED <<blocks, expired, offers, notifs, cron, faults, closed>>

\* A withdrawn offer that is not found is ignored; an accepted one is saved
\* without the columns it needs, which fails.
OfferRead(w) ==
  /\ At(w, "next") /\ event(w).kind \in {"accept", "withdraw"}
  /\ \/ offers[event(w).o] # "absent" /\ Goto(w, "save")
     \/ offers[event(w).o] = "absent" /\ Handling(w, "withdraw") /\ Return(w)
     \/ offers[event(w).o] = "absent" /\ Handling(w, "accept") /\ Leave(w, "dead")
  /\ UNCHANGED <<blocks, expired, tasks, offers, notifs, cron, faults, auctionVars>>

\* Faulty variant: whatever is over is accepted.
AcceptedAnyhow(kind) == IF kind = "send" THEN "Active" ELSE "Accepted"
StatusOf(kind) == CASE kind = "send" -> "Active" [] kind = "accept" -> "Accepted" [] kind = "withdraw" -> "Closed"

OfferSave(w) ==
  /\ At(w, "save")
  /\ offers' = [offers EXCEPT ![event(w).o] = StatusOf(event(w).kind)]
  /\ \/ Handling(w, "accept") /\ Goto(w, "clear") /\ UNCHANGED tasks
     \/ /\ Handling(w, "withdraw") /\ Return(w)
        /\ tasks' = tasks \cup {[task |-> "clear", item |-> Item[event(w).o]]}
  /\ UNCHANGED <<blocks, expired, notifs, cron, faults, auctionVars>>

\* updateNotificationStatusForOffers goes by the NFT, not by the offer.
NotifsOf(item) == {n \in notifs : Item[n.o] = item}

\* After the call to the feed.
AcceptClear(w) ==
  /\ At(w, "clear")
  /\ notifs' = notifs \ NotifsOf(Item[event(w).o])
  /\ Return(w)
  /\ UNCHANGED <<blocks, expired, tasks, offers, cron, faults, auctionVars>>

-----------------------------------------------------------------------------
(* The promises nobody awaits.                                             *)

TaskNotify(t) ==
  /\ t \in tasks /\ t.task = "notify"
  /\ notifs' = notifs \cup t.rows /\ tasks' = tasks \ {t}
  /\ UNCHANGED <<blocks, fate, expired, slot, offers, cron, faults, auctionVars>>

TaskClear(t) ==
  /\ t \in tasks /\ t.task = "clear"
  /\ notifs' = notifs \ NotifsOf(t.item) /\ tasks' = tasks \ {t}
  /\ UNCHANGED <<blocks, fate, expired, slot, offers, cron, faults, auctionVars>>

-----------------------------------------------------------------------------
(* The auctions.                                                           *)

\* Faulty variant: whoever was told.
AllReceived(item) == {n \in notifs : n.type = "OfferReceived" /\ Item[n.o] = item}
\* What is filed under an auction: notifications about received offers as well.
FiledUnder(item) == {n \in notifs : n.type = "OfferReceived" /\ Item[n.o] = item /\ told[n.o] = "auction"}

\* updateNotificationStatus goes by the auction, whatever the type: the bid that
\* reaches the maximum, the end event and the cron of the claimable auctions each
\* call it, so it may come more than once.
AuctionClears(item) ==
  /\ closed' = closed \cup {item}
  /\ notifs' = notifs \ FiledUnder(item)
  /\ UNCHANGED <<blocks, fate, expired, slot, tasks, offers, told, cron, faults>>

-----------------------------------------------------------------------------
(* The cron of the expired offers.                                         *)

\* Faulty variant: the dates are compared the other way round.
DeadlineAhead == {o \in Offers \ expired : offers[o] = "Active"}
ReachedDeadline == {o \in expired : offers[o] = "Active"}

CronRead ==
  /\ CronRuns /\ cron.pc = "idle" /\ ReachedDeadline # {}
  /\ cron' = [pc |-> "notify", offers |-> ReachedDeadline]
  /\ UNCHANGED <<blocks, fate, expired, slot, tasks, offers, notifs, faults, auctionVars>>

\* The assets are read one by one; the rows are saved by a task.
CronNotify ==
  /\ cron.pc = "notify"
  /\ tasks' = tasks \cup {[task |-> "notify", rows |-> {[type |-> "OfferExpired", o |-> o] : o \in cron.offers}]}
  /\ cron' = [cron EXCEPT !.pc = "save"]
  /\ UNCHANGED <<blocks, fate, expired, slot, offers, notifs, faults, auctionVars>>

\* The rows read at the start are saved whole, as Expired.
CronSave ==
  /\ cron.pc = "save"
  /\ offers' = [o \in Offers |-> IF o \in cron.offers THEN "Expired" ELSE offers[o]]
  /\ cron' = IdleCron
  /\ UNCHANGED <<blocks, fate, expired, slot, tasks, notifs, faults, auctionVars>>

-----------------------------------------------------------------------------
(* Faults.                                                                 *)

\* Blocks not acknowledged are delivered again; promises not settled are gone.
Crash ==
  /\ faults < MaxFaults /\ faults' = faults + 1
  /\ slot' = [w \in Workers |-> IdleSlot]
  /\ tasks' = {} /\ cron' = IdleCron
  /\ UNCHANGED <<blocks, fate, expired, offers, notifs, auctionVars>>

\* A read, a write or the feed call fails: the block is given up. The cron ends
\* its run; what reads the asset or the notifications catches its errors.
HandlerFails(w) ==
  /\ faults < MaxFaults /\ faults' = faults + 1
  /\ ~At(w, "idle")
  /\ \/ Leave(w, "dead")
     \/ slot[w].pc \in {"announce", "clear"} /\ Return(w)
  /\ UNCHANGED <<blocks, expired, tasks, offers, notifs, cron, auctionVars>>

CronFails ==
  /\ faults < MaxFaults /\ faults' = faults + 1
  /\ cron.pc # "idle" /\ cron' = IdleCron
  /\ UNCHANGED <<blocks, fate, expired, slot, tasks, offers, notifs, auctionVars>>

-----------------------------------------------------------------------------
Handle(w) ==
  \/ Take(w) \/ Ack(w)
  \/ SendInsert(w) \/ SendAnnounce(w)
  \/ OfferRead(w) \/ OfferSave(w) \/ AcceptClear(w)
Settle(t) == TaskNotify(t) \/ TaskClear(t)
Cron == CronRead \/ CronNotify \/ CronSave
Faulty == Crash \/ (\E w \in Workers : HandlerFails(w)) \/ CronFails

Next ==
  \/ \E e \in Event : Emit(e)
  \/ \E o \in Offers : Deadline(o)
  \/ \E w \in Workers : Handle(w)
  \/ \E t \in tasks : Settle(t)
  \/ \E item \in Auctioned : AuctionClears(item)
  \/ Cron
  \/ Faulty

Spec == Init /\ [][Next]_vars
Fairness ==
  /\ \A w \in Workers : WF_vars(Handle(w))
  /\ WF_vars(\E t \in tasks : Settle(t))
  /\ WF_vars(Cron)
FairSpec == Spec /\ Fairness

-----------------------------------------------------------------------------
TypeOK ==
  /\ blocks \in Seq(Seq(Event) \ {<<>>}) /\ fate \in Seq({"queued", "done", "dead"})
  /\ Len(fate) = Len(blocks)
  /\ expired \subseteq Offers
  /\ slot \in [Workers -> Slot]
  /\ tasks \subseteq Task
  /\ offers \in [Offers -> OfferStatus \cup {"absent"}]
  /\ notifs \subseteq Notification
  /\ told \in [Offers -> {"nobody", "owner", "auction"}] /\ closed \subseteq Auctioned
  /\ cron \in [pc : {"idle", "notify", "save"}, offers : SUBSET Offers]
  /\ faults \in Nat

\* Nothing is under way: every block handled, every promise settled.
Settled ==
  /\ \A b \in DOMAIN blocks : fate[b] # "queued"
  /\ \A w \in Workers : At(w, "idle")
  /\ tasks = {} /\ cron.pc = "idle"

Before(p, q) == p[1] < q[1] \/ (p[1] = q[1] /\ p[2] < q[2])

\* When everything is handled, the status of an offer is what its last event in
\* an acknowledged block made it, or an event after that in a block given up half
\* way; or the cron expired it. Redelivery after a crash never loses an event of
\* a block that is acknowledged in the end (the send, accept and withdraw handlers).
StatusIsExplained ==
  Settled => \A o \in Offers :
    LET own == {p \in Events : EventAt(p).o = o}
        means == [send |-> "Active", accept |-> "Accepted", withdraw |-> "Closed"]
        latest == {p \in own : \A q \in own : fate[q[1]] = "done" => ~Before(p, q)}
    IN IF offers[o] = "absent"
         THEN \A p \in own : EventAt(p).kind = "send" => fate[p[1]] = "dead"
         ELSE offers[o] \in {means[EventAt(p).kind] : p \in latest}
                             \cup (IF CronRuns /\ o \in expired THEN {"Expired"} ELSE {})

\* Nobody is left uninformed: the owner of an NFT has the notification of every
\* offer made for it, and the owner of an offer that of its expiry, until an offer
\* for that NFT is accepted or withdrawn. What is filed under an auction may be gone
\* once that auction is over, though the offer is open: the auction clears all that
\* carries its id (addNotificationForOffer, generateOffersNotifications,
\* updateNotificationStatus, updateNotificationStatusForOffers). A crash or a failed
\* call may lose one, so this is for histories without.
OffersAreAnnounced ==
  Settled /\ faults = 0 => \A o \in Offers :
    (\A p \in Offers : Item[p] = Item[o] => ~Happened(p, {"accept", "withdraw"})) =>
      /\ offers[o] # "absent" /\ Item[o] \in Announced =>
           \/ [type |-> "OfferReceived", o |-> o] \in notifs
           \/ told[o] # "owner" /\ Item[o] \in closed
      /\ offers[o] = "Expired" => [type |-> "OfferExpired", o |-> o] \in notifs

\* An offer that is over stays over, and one appears as active only: no redelivered
\* block, second worker or late cron brings it back (the unique index and the order
\* of the reads and saves in the handlers).
OfferNeverReopens ==
  [][\A o \in Offers : offers'[o] # offers[o] =>
       IF offers[o] = "absent" THEN offers'[o] = "Active" ELSE offers'[o] \notin {"absent", "Active"}]_offers

\* An offer past its deadline does not stay active, though the cron may fail or
\* the process restart in the middle of a run (updateExpiredOffers).
ExpiredLeaveActive == \A o \in Offers : [](o \in expired => <>[](offers[o] # "Active"))
=============================================================================
