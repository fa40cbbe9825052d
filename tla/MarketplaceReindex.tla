------------------------- MODULE MarketplaceReindex -------------------------
(***************************************************************************)
(* Rebuilding the auctions of a marketplace from its stored events         *)
(* (marketplaces-reindex.service.ts).                                      *)
(*                                                                         *)
(* The events lie in the table marketplace_events.  The reindex reads them *)
(* in batches, oldest first, and reads one batch ahead; it cuts the newest *)
(* timestamp off every batch, because the batch may hold only a part of    *)
(* it, and keeps back the last events of a batch for the next one, because *)
(* a transaction and its results come with different timestamps.  Meanwhile*)
(* the indexer of events (Index) goes on adding rows to the table.         *)
(*                                                                         *)
(* The state the events rebuild is kept to what the loop depends on: which *)
(* auctions have a row, and which of them are over.  One state is rebuilt  *)
(* (an external marketplace); orders, offers, tags and expiry are left out.*)
(***************************************************************************)
EXTENDS Naturals, SequencesExt

CONSTANTS
    Auctions,      \* marketplaceAuctionIds
    MaxTime,       \* bound: timestamps are 1..MaxTime
    Stored,        \* bound: events in the table when the reindex starts
    Added,         \* bound: events added while it runs
    Telling,       \* bound: only the first so many rows are about auctions
    BatchSize,     \* constants.dbBatch
    Befores        \* the beforeTimestamps asked for; None: not given

None == 0 \* no timestamp, no auction, no original transaction

ASSUME ReindexAssumption ==
    /\ MaxTime \in Nat \ {0} /\ Stored \in Nat /\ Added \in Nat /\ Telling \in Nat
    /\ BatchSize \in Nat \ {0}
    /\ Befores \subseteq Nat

VARIABLES
    table,         \* marketplace_events of this address, by timestamp
    before,        \* input.beforeTimestamp
    pc,            \* where reindexMarketplaceData is
    fetched,       \* nextBatchPromise: has it read the table yet, and what
    after,         \* afterTimestamp
    batch,         \* batch, after the cut
    todo,          \* unprocessedEvents
    carried,       \* processInNextBatch
    rows,          \* marketplaceReindexState.auctions
    saved,         \* the auctions table
    sets,          \* history: the sets with an event never processed before
    late           \* history: events added behind what was read already

vars == <<table, before, pc, fetched, after, batch, todo, carried, rows,
          saved, sets, late>>

TheReindex == <<pc, fetched, after, batch, todo, carried, rows, saved, sets>>

Unread == [read |-> FALSE, events |-> <<>>]

Transactions == 1..(Stored + Added)

\* n is the id of the row, tx its txHash, orig its originalTxHash; ord is its
\* place among the events of its transaction (eventOrder).
Event == [n : Transactions, ts : 1..MaxTime, tx : Transactions,
          orig : Transactions \cup {None}, ord : 0..(Stored + Added),
          kind : {"start", "over", "other"}, a : Auctions \cup {None}]

Row == [a : Auctions, over : BOOLEAN]

Places == {"await", "first", "second", "flush", "final", "save", "done", "failed"}
Ended == {"done", "failed"}

TypeOK ==
    /\ table \in Seq(Event) /\ before \in Befores
    /\ pc \in Places /\ after \in Nat
    /\ fetched \in [read : BOOLEAN, events : Seq(Event)]
    /\ batch \in Seq(Event) /\ todo \in Seq(Event) /\ carried \in Seq(Event)
    /\ rows \in Seq(Row) /\ saved \subseteq Auctions
    /\ sets \in Seq(SUBSET Transactions) /\ late \subseteq Transactions

----------------------------------------------------------------------------
(* The table of events                                                      *)

\* The elements of s that are in kept, in the order of s. SelectSeq would
\* say the same of a test; the prover does not expand its argument, an operator.
Kept(s, kept) ==
    LET upTo[i \in 0..Len(s)] ==
            IF i = 0 THEN <<>>
            ELSE IF s[i] \in kept THEN Append(upTo[i - 1], s[i]) ELSE upTo[i - 1]
    IN  upTo[Len(s)]

Txs(t) == {t[i].tx : i \in DOMAIN t}
OfTx(t, x) == Kept(t, {e \in ToSet(t) : e.tx = x})
Kinds(t, a) == {e.kind : e \in {f \in ToSet(t) : f.a = a}}

\* What happened to an auction at ts: it is started once, and over once,
\* after that; anything else the loop only carries along.
Happenings(t, ts) ==
    {[kind |-> "other", a |-> None]}
    \cup {[kind |-> "start", a |-> a] :
              a \in {b \in Auctions : Len(t) < Telling /\ Kinds(t, b) = {}}}
    \cup {[kind |-> "over", a |-> a] :
              a \in {b \in Auctions : /\ Len(t) < Telling /\ Kinds(t, b) = {"start"}
                                      /\ \A e \in ToSet(t) : e.a = b => e.ts <= ts}}

\* The events that may come next to the events in t: one of a known
\* transaction, with its timestamp, or of a new one, which may be the result of
\* a known one (of the one the user sent: no result has results) and is then
\* not older.
NewEvents(t) ==
    LET New(ts, x, o, h) == [n |-> Len(t) + 1, ts |-> ts, tx |-> x, orig |-> o,
                             ord |-> Len(OfTx(t, x)), kind |-> h.kind, a |-> h.a]
    IN  (UNION {{New(e.ts, e.tx, e.orig, h) : h \in Happenings(t, e.ts)} : e \in ToSet(t)})
        \cup (UNION {{New(ts, Cardinality(Txs(t)) + 1, o, h) :
                        o \in {None} \cup {e.tx : e \in {f \in ToSet(t) : f.orig = None /\ f.ts <= ts}},
                        h \in Happenings(t, ts)} : ts \in 1..MaxTime})

\* Equal timestamps come in any order (ORDER BY timestamp only), the same one
\* at every read.
PutAfter(t, k, e) == SubSeq(t, 1, k) \o <<e>> \o SubSeq(t, k + 1, Len(t))
Fits(t, k, e) == /\ \A i \in 1..k : t[i].ts <= e.ts
                 /\ \A i \in (k + 1)..Len(t) : e.ts <= t[i].ts

Tables[k \in 0..Stored] ==
    IF k = 0 THEN {<<>>}
    ELSE UNION {{Append(t, e) : e \in {f \in NewEvents(t) : Fits(t, Len(t), f)}} :
                    t \in Tables[k - 1]}

\* getEventsByMarketplaceAndTimestampsAsc(address, t)
Query(t) ==
    LET newer == Kept(table, {e \in ToSet(table) : e.ts > t})
    IN  SubSeq(newer, 1, IF Len(newer) > BatchSize THEN BatchSize ELSE Len(newer))

----------------------------------------------------------------------------
(* Batches                                                                  *)

Newest(b) == b[Len(b)].ts

\* The newest timestamp of a batch is left for the next one, unless it is the
\* only one.
Whole(b) == IF Newest(b) = b[1].ts THEN b
            ELSE Kept(b, {e \in ToSet(b) : e.ts # Newest(b)})

\* filter((e) => e.timestamp < beforeTimestamp)
OlderOf(b) == Kept(b, {e \in ToSet(b) : e.ts < before})

\* Faulty variant: the newest timestamp is not cut off.
Uncut(b) ==
    IF before # None /\ Newest(b) > before
    THEN [batch |-> OlderOf(b), after |-> before]
    ELSE [batch |-> b, after |-> Newest(b)]

\* getSlicedBatchAndNewestTimestampIfPartialEventsSet
Sliced(b) ==
    LET w == Whole(b)
    IN  IF before # None /\ Newest(w) > before
        THEN [batch |-> OlderOf(w), after |-> before]
        ELSE [batch |-> w, after |-> Newest(w)]

\* The reindex has read the events of ts for good: they are in what it keeps of
\* the batch it has read, or before it, or it has read the end of the table.
Passed(ts) ==
    \/ ts <= after
    \/ fetched.read /\ (fetched.events = <<>> \/ ts <= Sliced(fetched.events).after)

\* Faulty variant: batch.concat(processInNextBatch)
KeptLast(kept, b) == b \o kept

\* processInNextBatch.concat(batch)
Joined(kept, b) == kept \o b

SameSet(e, x) == e.tx = x \/ e.orig = x

\* The events of the first transaction, and whether they must wait for the
\* next batch.
FirstSet == Kept(todo, {e \in ToSet(todo) : SameSet(e, todo[1].tx)})
IsAnother == \E i \in DOMAIN todo : todo[i].ts > todo[1].ts
\* Faulty variant: without isAnotherEventsSetInBatch.
OneSetWaits == pc # "final" /\ Len(FirstSet) = Len(todo)
MustWait == pc # "final" /\ (Len(FirstSet) = Len(todo) \/ ~IsAnother)

\* getEventsAndTxData: the events of a set by eventOrder.
InOrderOfEvents(s) ==
    LET upTo[o \in 0..(Stored + Added)] ==
            (IF o = 0 THEN <<>> ELSE upTo[o - 1]) \o Kept(s, {e \in ToSet(s) : e.ord = o})
    IN  upTo[Stored + Added]

\* ReindexAuctionStartedHandler: a new row, whatever rows there are.
Started(r, a) == Append(r, [a |-> a, over |-> FALSE])

\* ReindexAuctionEndedHandler, ReindexAuctionClosedHandler: the first row of the
\* auction, if any.
WentOver(r, a) ==
    LET places == {i \in DOMAIN r : r[i].a = a}
    IN  IF places = {} THEN r
        ELSE [r EXCEPT ![CHOOSE i \in places : \A j \in places : i <= j].over = TRUE]

\* Faulty variant: what is not over is taken for a start.
Guessed(r, e) == IF e.kind = "over" THEN WentOver(r, e.a) ELSE Started(r, e.a)

\* processEvent
Handled(r, e) == CASE e.kind = "start" -> Started(r, e.a)
                   [] e.kind = "over"  -> WentOver(r, e.a)
                   [] OTHER            -> r

\* processEventsSet: one event after the other.
HandledSet(r, s) ==
    LET built[k \in 0..Len(s)] == IF k = 0 THEN r ELSE Handled(built[k - 1], s[k])
    IN  built[Len(s)]

\* AuctionEntity_UQ_Marketplace: a save of a second row of an auction fails.
Insertable(r) ==
    /\ \A i \in DOMAIN r : r[i].a \notin saved
    /\ \A i, j \in DOMAIN r : r[i].a = r[j].a => i = j

----------------------------------------------------------------------------

Init ==
    /\ table \in Tables[Stored]
    /\ before \in Befores
    /\ pc = "await" /\ fetched = Unread /\ after = None
    /\ batch = <<>> /\ todo = <<>> /\ carried = <<>>
    /\ rows = <<>> /\ saved = {}
    /\ sets = <<>> /\ late = {}

\* The indexer adds an event of any age.  It may do so at any time; what the
\* reindex does between two reads does not look at the table, so it is enough
\* to let it do so while a read is awaited, before the table is read or after.
Index ==
    /\ pc = "await" /\ Len(table) < Stored + Added
    /\ \E e \in NewEvents(table), k \in 0..Len(table) :
         /\ Fits(table, k, e)
         /\ table' = PutAfter(table, k, e)
         /\ late' = IF Passed(e.ts) THEN late \cup {e.n} ELSE late
    /\ UNCHANGED <<before, TheReindex>>

\* The promise has read the table.
Read ==
    /\ pc = "await" /\ ~fetched.read
    /\ fetched' = [read |-> TRUE, events |-> Query(after)]
    /\ UNCHANGED <<table, before, pc, after, batch, todo, carried, rows, saved, sets, late>>

\* A batch arrives: it is sliced and the next one is asked for.
Take ==
    /\ pc = "await" /\ fetched.read /\ fetched.events # <<>>
    /\ LET s == Sliced(fetched.events)
       IN  /\ batch' = s.batch /\ after' = s.after
           /\ todo' = Joined(carried, s.batch)
    /\ fetched' = Unread
    /\ pc' = "first"
    /\ UNCHANGED <<table, before, carried, rows, saved, sets, late>>

\* No more events: what was kept back is processed now.
NoMore ==
    /\ pc = "await" /\ fetched.read /\ fetched.events = <<>>
    /\ todo' = carried /\ pc' = "final"
    /\ UNCHANGED <<table, before, fetched, after, batch, carried, rows, saved, sets, late>>

\* Faulty variant: only the results of the transaction are dropped.
OwnKept == Kept(todo, {e \in ToSet(todo) : e.orig # todo[1].tx})

Rest == Kept(todo, {e \in ToSet(todo) : ~SameSet(e, todo[1].tx)})

\* popInactiveItems
Over(r) == Kept(r, {x \in ToSet(r) : x.over})
NotOver(r) == Kept(r, {x \in ToSet(r) : ~x.over})

Noted(s) == IF s \subseteq UNION ToSet(sets) THEN sets ELSE Append(sets, s)

\* processEventsSet. (s is bound by a quantifier for TLC: it reads a LET again
\* at every use.)
ProcessSet ==
    /\ pc \in {"first", "second", "final"} /\ todo # <<>> /\ ~MustWait
    /\ sets' = Noted({e.n : e \in ToSet(FirstSet)})
    /\ \E s \in {InOrderOfEvents(FirstSet)} : rows' = HandledSet(rows, s)
    /\ todo' = Rest
    /\ UNCHANGED <<table, before, pc, fetched, after, batch, carried, saved, late>>

\* processEventsBatchAndReturnUnprocessedEvents returns.  The loop calls it
\* twice for every batch, with what the first call kept back put before the
\* whole batch again.
PassEnds ==
    /\ pc \in {"first", "second", "final"}
    /\ todo = <<>> \/ MustWait
    /\ carried' = todo
    /\ \/ pc = "first"  /\ pc' = "second" /\ todo' = Joined(todo, batch)
       \/ pc = "second" /\ pc' = "flush"  /\ todo' = <<>>
       \/ pc = "final"  /\ pc' = "save"   /\ todo' = <<>>
    /\ UNCHANGED <<table, before, fetched, after, batch, rows, saved, sets, late>>

MoreToRead == before = None \/ after < before

\* addInactiveStateItemsToDb: the rows that are over leave the state and are
\* inserted; then the loop's condition.
Flush ==
    /\ pc = "flush"
    /\ Insertable(Over(rows))
    /\ saved' = saved \cup {r.a : r \in ToSet(Over(rows))}
    /\ rows' = NotOver(rows)
    /\ IF MoreToRead THEN pc' = "await" /\ todo' = todo
                     ELSE pc' = "final" /\ todo' = carried
    /\ UNCHANGED <<table, before, fetched, after, batch, carried, sets, late>>

\* addMarketplaceStateToDb
Save ==
    /\ pc = "save" /\ Insertable(rows)
    /\ saved' = saved \cup {r.a : r \in ToSet(rows)}
    /\ pc' = "done"
    /\ UNCHANGED <<table, before, fetched, after, batch, todo, carried, rows, sets, late>>

\* The insert violates the unique key: the error is logged, nothing is retried.
SaveFails ==
    /\ \/ pc = "flush" /\ ~Insertable(Over(rows))
       \/ pc = "save"  /\ ~Insertable(rows)
    /\ pc' = "failed"
    /\ UNCHANGED <<table, before, fetched, after, batch, todo, carried, rows, saved, sets, late>>

Step == Read \/ Take \/ NoMore \/ ProcessSet \/ PassEnds \/ Flush \/ Save \/ SaveFails

Next == Index \/ Step

Spec == Init /\ [][Next]_vars /\ WF_vars(Step)

----------------------------------------------------------------------------
(* Properties                                                               *)

Processed == UNION ToSet(sets)

\* More events at one timestamp than a batch holds: the rest is never read
\* (it is no newer than the newest read).
Crowded(ts) == Cardinality({e \in ToSet(table) : e.ts = ts}) > BatchSize

\* The events the reindex can know: asked for, and there when their timestamp
\* was read.
Due(e) == /\ before # None => e.ts < before
          /\ e.n \notin late /\ ~Crowded(e.ts)

\* A reindex that ends, or fails in its last save, has processed every event
\* that was there when its timestamp was read: neither the cut of a batch, nor
\* the read ahead, nor what is kept back for the next batch loses one
\* (processMarketplaceEventsInBatches).
NothingSkipped ==
    pc \in {"save", "done"} => \A e \in ToSet(table) : Due(e) => e.n \in Processed

\* The set in which an event is processed for the first time.
FirstTime(n) == CHOOSE i \in DOMAIN sets : /\ n \in sets[i]
                                           /\ \A j \in 1..(i - 1) : n \notin sets[j]

\* No timestamp of the table lies between the two.
NextTo(s, t) == s < t /\ ~\E e \in ToSet(table) : s < e.ts /\ e.ts < t

\* An event is first processed together with all the events of its
\* transaction, and with the results of that transaction at the next
\* timestamp, however the batches cut the table
\* (getSlicedBatchAndNewestTimestampIfPartialEventsSet, isAnotherEventsSetInBatch).
KeptTogether ==
    pc \in Ended => \A e, f \in ToSet(table) :
        /\ e.n \in Processed /\ Due(e) /\ Due(f)
        /\ e.tx = f.tx \/ (f.orig = e.tx /\ NextTo(e.ts, f.ts))
        => f.n \in sets[FirstTime(e.n)]

\* Events are first processed by timestamp: none after a set that belongs to a
\* later timestamp (a set is as old as its oldest event).
InOrder ==
    pc \in Ended => \A e \in ToSet(table) : e.n \in Processed /\ Due(e) =>
        \A i \in 1..(FirstTime(e.n) - 1) :
            \E f \in ToSet(table) : f.n \in sets[i] /\ f.ts <= e.ts

\* The reindex ends, with its rows saved or with an error, however the events
\* lie (Locker.lock would keep the next reindex of the marketplace waiting).
Terminates == <>(pc \in Ended)

\* The rows of a marketplace's auctions are one per marketplaceAuctionId
\* (AuctionEntity_UQ_Marketplace, auction.entity.ts).
OneRowPerAuction ==
    /\ \A i \in DOMAIN rows : rows[i].a \notin saved \/ pc = "done"
    /\ \A i, j \in DOMAIN rows : rows[i].a = rows[j].a => i = j

============================================================================
