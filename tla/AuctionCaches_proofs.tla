------------------------ MODULE AuctionCaches_proofs ------------------------
(***************************************************************************)
(* Proofs about AuctionCaches: its type invariant, and that a stale entry  *)
(* has one of the named causes, for any writes, readers, cached queries,   *)
(* faults and replication lag.                                             *)
(***************************************************************************)
EXTENDS AuctionCaches, SequenceTheorems, TLAPS

\* The table a kind of write changes.
WritesTo(kd) == IF kd \in {"update", "delete"} THEN "auctions" ELSE "orders"

\* The write has sent its message, and has still to commit something.
Published(w) == Busy(w) /\ done[w] >= 1 /\ kind[w] \notin Silent

\* Nobody expects the entry of k to show what w writes.
Excused(w, k) ==
    NeverTold(kind[w], k) \/ w \in lost \/ k \in clearing[w] \/ w \in cache[k].met

\* A request at work has met the writes in progress, and those whose commits
\* its query did not see.
CallsMeet == \A r \in Readers : call[r].pc # "idle" =>
                \A w \in Writes : InProgress(w) => w \in call[r].met
SeenOrMet == \A r \in Readers : call[r].pc = "set" =>
                /\ call[r].seen \subseteq Relevant(call[r].key, Len(log))
                /\ \A i \in Relevant(call[r].key, Len(log)) \ call[r].seen :
                       log[i].by \in call[r].met
LogHasKinds == \A i \in 1..Len(log) : /\ kind[log[i].by] # "none"
                                      /\ log[i].table = WritesTo(kind[log[i].by])
EntriesTold == \A k \in DOMAIN cache : \A w \in Writes :
                  Published(w) /\ WritesTo(kind[w]) \in Content[k] => Excused(w, k)

IndInv ==
    TypeOK /\ CallsMeet /\ SeenOrMet /\ LogHasKinds /\ EntriesTold /\ StaleIsExplained

-----------------------------------------------------------------------------
LEMMA StepFacts ==
  ASSUME NEW kd \in Kinds \cup {"none"}
  PROVE  /\ Len(Steps[kd]) \in 0..3 /\ (kd = "none" => Len(Steps[kd]) = 0)
         /\ \A j \in 1..Len(Steps[kd]) :
              /\ Steps[kd][j] \in Event \cup Table
              /\ Steps[kd][j] \in Event <=> (j = 1 /\ kd \notin Silent)
              /\ Steps[kd][j] \in Table <=> ~(j = 1 /\ kd \notin Silent)
              /\ Steps[kd][j] \in Table => Steps[kd][j] = WritesTo(kd)
<1>1. CASE kd = "update"
  BY <1>1 DEF Steps, UpdateSteps, Event, Table, WritesTo, Silent
<1>2. CASE kd = "bid"
  BY <1>2 DEF Steps, BidSteps, Event, Table, WritesTo, Silent
<1>3. CASE kd = "buy"
  BY <1>3 DEF Steps, BuySteps, Event, Table, WritesTo, Silent
<1>4. CASE kd = "rollback"
  BY <1>4 DEF Steps, RollbackSteps, Event, Table, WritesTo, Silent
<1>5. CASE kd = "delete"
  BY <1>5 DEF Steps, DeleteSteps, Event, Table, WritesTo, Silent
<1>6. CASE kd = "none"
  BY <1>6 DEF Steps
<1> QED  BY <1>1, <1>2, <1>3, <1>4, <1>5, <1>6 DEF Kinds, Silent

\* What a kind of write changes in a cached query its messages delete, or nobody.
LEMMA ClearsKeys == \A kd : Clears(kd) \subseteq Keys
  BY DEF Clears

LEMMA KeysTold ==
  ASSUME NEW kd \in Kinds, NEW k \in Keys
  PROVE  WritesTo(kd) \in Content[k] => NeverTold(kd, k) \/ k \in Clears(kd)
<1>1. k \in {"auction", "default_auctions", "assetAuctionsCount", "on_sale_assets_count",
             "lowest_auctions", "lowest_auctions_marketplace", "availableTokensCount",
             "auction_orders", "auction_active_orders", "auction_available_tokens"}
  BY CachesAssumption DEF Content
<1>2. /\ Content["assetAuctionsCount"] = {"auctions"}
      /\ Content["on_sale_assets_count"] = {"auctions"}
      /\ Content["auction_orders"] = {"orders"}
      /\ Content["auction_active_orders"] = {"orders"}
  BY DEF Content
<1>3. CASE kd = "update"
  <2>1. Clears(kd) = Keys \cap AuctionEventClears /\ WritesTo(kd) = "auctions"
    BY <1>3 DEF Clears, WritesTo
  <2> QED  BY <1>1, <1>2, <1>3, <2>1 DEF NeverTold, AuctionEventClears
<1>4. CASE kd \in {"bid", "buy"}
  <2>1. Clears(kd) = Keys \cap OrderEventClears /\ WritesTo(kd) = "orders"
    BY <1>4 DEF Clears, WritesTo
  <2> QED  BY <1>1, <1>2, <1>4, <2>1 DEF NeverTold, OrderEventClears
<1>5. CASE kd \in Silent
  BY <1>5 DEF Clears, NeverTold
<1> QED  BY <1>3, <1>4, <1>5 DEF Kinds

LEMMA InitOK == Init => IndInv
<1> SUFFICES ASSUME Init PROVE IndInv
  OBVIOUS
<1> USE DEF Init
<1>1. \A w \in Writes : ~Busy(w)
  BY StepFacts DEF Busy
<1>2. TypeOK
  <2>1. \A r \in Readers : call[r] \in Call
    BY DEF Call
  <2>2. \A w \in Writes : done[w] <= Len(Steps[kind[w]])
    BY StepFacts
  <2> QED  BY <2>1, <2>2, CachesAssumption DEF TypeOK, Relevant
<1> QED  BY <1>1, <1>2 DEF IndInv, CallsMeet, SeenOrMet, LogHasKinds, EntriesTold,
                           StaleIsExplained, Published

-----------------------------------------------------------------------------
LEMMA Progress ==
  ASSUME TypeOK, NEW w \in Writes
  PROVE  /\ kind[w] \in Kinds \cup {"none"} /\ Len(Steps[kind[w]]) \in 0..3
         /\ done[w] \in 0..Len(Steps[kind[w]])
         /\ Busy(w) => /\ kind[w] \in Kinds /\ done[w] + 1 \in 1..Len(Steps[kind[w]])
                       /\ Step(w) \in Event \cup Table
                       /\ Step(w) \in Event <=> (done[w] = 0 /\ kind[w] \notin Silent)
                       /\ Step(w) \in Table <=> ~(done[w] = 0 /\ kind[w] \notin Silent)
                       /\ Step(w) \in Table => Step(w) = WritesTo(kind[w])
<1>1. kind[w] \in Kinds \cup {"none"} /\ done[w] \in 0..3 /\ done[w] <= Len(Steps[kind[w]])
  BY DEF TypeOK
<1>2. Len(Steps[kind[w]]) \in 0..3 /\ (kind[w] = "none" => Len(Steps[kind[w]]) = 0)
  BY <1>1, StepFacts
<1>3. ASSUME Busy(w) PROVE kind[w] \in Kinds /\ done[w] + 1 \in 1..Len(Steps[kind[w]])
  BY <1>1, <1>2, <1>3 DEF Busy
<1>4. ASSUME Busy(w)
      PROVE  /\ Step(w) \in Event \cup Table
             /\ Step(w) \in Event <=> (done[w] = 0 /\ kind[w] \notin Silent)
             /\ Step(w) \in Table <=> ~(done[w] = 0 /\ kind[w] \notin Silent)
             /\ Step(w) \in Table => Step(w) = WritesTo(kind[w])
  BY <1>1, <1>2, <1>3, <1>4, StepFacts DEF Step
<1> QED  BY <1>1, <1>2, <1>3, <1>4

\* What a commit adds to a cached query.
LEMMA Committed ==
  ASSUME TypeOK, NEW t \in Table, NEW w \in Writes,
         log' = Append(log, [table |-> t, by |-> w])
  PROVE  /\ log' \in Seq([table : Table, by : Writes]) /\ Len(log') = Len(log) + 1
         /\ \A i \in 1..Len(log) : log'[i] = log[i]
         /\ log'[Len(log) + 1] = [table |-> t, by |-> w]
         /\ \A k \in Keys : /\ Relevant(k, Len(log)) \subseteq Relevant(k, Len(log))'
                             /\ \A i \in Relevant(k, Len(log))' \ Relevant(k, Len(log)) :
                                  i = Len(log) + 1 /\ t \in Content[k]
<1> DEFINE e == [table |-> t, by |-> w]
<1>1. log' \in Seq([table : Table, by : Writes]) /\ Len(log') = Len(log) + 1
      /\ (\A i \in 1..Len(log) : log'[i] = log[i]) /\ log'[Len(log) + 1] = e
      /\ Len(log) \in Nat
  <2>1. log \in Seq([table : Table, by : Writes]) /\ e \in [table : Table, by : Writes]
    BY DEF TypeOK
  <2> HIDE DEF e
  <2>2. log' = Append(log, e)
    BY DEF e
  <2> QED  BY <2>1, <2>2, AppendProperties, LenProperties
<1>2. ASSUME NEW k \in Keys
      PROVE  Relevant(k, Len(log)) \subseteq Relevant(k, Len(log))'
  BY <1>1 DEF Relevant
<1>3. ASSUME NEW k \in Keys, NEW i \in Relevant(k, Len(log))', i \notin Relevant(k, Len(log))
      PROVE  i = Len(log) + 1 /\ t \in Content[k]
  <2>1. i \in 1..Len(log) + 1 /\ log'[i].table \in Content[k]
    BY <1>1, <1>3 DEF Relevant
  <2>2. i \notin 1..Len(log)
    BY <1>1, <1>3, <2>1 DEF Relevant
  <2> QED  BY <1>1, <2>1, <2>2
<1> QED  BY <1>1, <1>2, <1>3

LEMMA CallKinds ==
  ASSUME TypeOK, NEW r \in Readers
  PROVE  /\ call[r].pc \in {"idle", "query", "set"}
         /\ call[r].pc # "idle" => call[r].key \in Keys /\ call[r].met \subseteq Writes
         /\ call[r].pc = "set" => call[r].seen \subseteq Nat
  BY DEF TypeOK, Call

\* A request that meets a write keeps everything else.
LEMMA MeetStep ==
  ASSUME TypeOK, NEW w \in Writes, Meet(w)
  PROVE  /\ call' \in [Readers -> Call]
         /\ \A r \in Readers : /\ call'[r].pc = call[r].pc
                               /\ call[r].pc # "idle" => /\ call'[r].key = call[r].key
                                                          /\ call'[r].met = call[r].met \cup {w}
                               /\ call[r].pc = "set" => call'[r].seen = call[r].seen
<1>1. ASSUME NEW r \in Readers
      PROVE  /\ call'[r] \in Call /\ call'[r].pc = call[r].pc
             /\ call[r].pc # "idle" => /\ call'[r].key = call[r].key
                                        /\ call'[r].met = call[r].met \cup {w}
             /\ call[r].pc = "set" => call'[r].seen = call[r].seen
  <2>0. call'[r] = IF call[r].pc = "idle" THEN call[r] ELSE [call[r] EXCEPT !.met = @ \cup {w}]
    BY DEF Meet
  <2>1. CASE call[r] \in [pc : {"idle"}]
    BY <2>0, <2>1 DEF Call
  <2>2. CASE call[r] \in [pc : {"query"}, key : Keys, met : SUBSET Writes]
    BY <2>0, <2>2 DEF Call
  <2>3. CASE call[r] \in [pc : {"set"}, key : Keys, seen : SUBSET Nat, met : SUBSET Writes]
    BY <2>0, <2>3 DEF Call
  <2> QED  BY <2>1, <2>2, <2>3 DEF TypeOK, Call
<1>2. call' = [r \in Readers |-> call'[r]]
  BY DEF Meet
<1> QED  BY <1>1, <1>2

-----------------------------------------------------------------------------
LEMMA LogEntries ==
  ASSUME TypeOK
  PROVE  /\ Len(log) \in Nat
         /\ \A i \in 1..Len(log) : log[i].table \in Table /\ log[i].by \in Writes
<1>1. log \in Seq([table : Table, by : Writes])
  BY DEF TypeOK
<1>2. Len(log) \in Nat
  BY <1>1
<1>3. ASSUME NEW i \in 1..Len(log) PROVE log[i] \in [table : Table, by : Writes]
  BY <1>1, ElementOfSeq
<1> QED  BY <1>2, <1>3

LEMMA UnseenWrites ==
  ASSUME TypeOK, LogHasKinds, NEW k \in DOMAIN cache, NEW v \in Unseen(k)
  PROVE  /\ k \in Keys /\ v \in Writes /\ kind[v] # "none" /\ kind[v] \in Kinds
         /\ WritesTo(kind[v]) \in Content[k]
<1>1. PICK i \in Relevant(k, Len(log)) : v = log[i].by
  BY DEF Unseen
<1>2. i \in 1..Len(log) /\ log[i].table \in Content[k]
  BY <1>1 DEF Relevant
<1>3. v \in Writes /\ kind[v] # "none" /\ WritesTo(kind[v]) \in Content[k]
  BY <1>1, <1>2, LogEntries DEF LogHasKinds
<1> QED  BY <1>3 DEF TypeOK

LEMMA StartKeeps ==
  ASSUME IndInv, NEW w \in Writes, NEW kd \in Kinds, Start(w, kd)
  PROVE  IndInv'
<1> USE DEF Start
<1>1. TypeOK'
  <2>1. kind' \in [Writes -> Kinds \cup {"none"}]
    BY DEF IndInv, TypeOK
  <2>2. \A v \in Writes : done[v] <= Len(Steps[kind'[v]])
    <3>1. ASSUME NEW v \in Writes PROVE done[v] <= Len(Steps[kind'[v]])
      <4>1. CASE v = w
        BY <4>1, Progress, StepFacts DEF IndInv, TypeOK
      <4>2. CASE v # w
        BY <4>2 DEF IndInv, TypeOK
      <4> QED  BY <4>1, <4>2
    <3> QED  BY <3>1
  <2>3. \A v \in Writes : clearing[v] \subseteq Clears(kind'[v])
    <3>1. clearing[w] \subseteq Clears("none") /\ Clears("none") = {}
      BY DEF IndInv, TypeOK, Clears
    <3> QED  BY <3>1 DEF IndInv, TypeOK
  <2>4. call' \in [Readers -> Call]
    BY MeetStep DEF IndInv
  <2> QED  BY <2>1, <2>2, <2>3, <2>4 DEF IndInv, TypeOK, Relevant
<1>2. \A v \in Writes : v # w => kind'[v] = kind[v] /\ Busy(v)' = Busy(v)
                                   /\ InProgress(v)' = InProgress(v)
                                   /\ Published(v)' = Published(v)
  BY DEF Busy, InProgress, Published, IndInv, TypeOK
<1>3. ~Published(w)' /\ kind[w] = "none" /\ kind'[w] = kd
  BY Progress, StepFacts DEF Published, IndInv, TypeOK
<1>4. CallsMeet' /\ SeenOrMet'
  BY <1>2, MeetStep, CallKinds DEF IndInv, CallsMeet, SeenOrMet, Relevant
<1>5. LogHasKinds'
  BY <1>2, <1>3, LogEntries DEF IndInv, LogHasKinds
<1>6. EntriesTold'
  BY <1>2, <1>3 DEF IndInv, EntriesTold, Excused
<1>7. StaleIsExplained'
  <2>1. ASSUME NEW k \in DOMAIN cache, NEW v \in Unseen(k) PROVE v # w
    BY <1>3, UnseenWrites DEF IndInv
  <2>2. \A k \in DOMAIN cache : Unseen(k)' = Unseen(k) /\ Unseen(k) \subseteq Writes
    BY UnseenWrites DEF Unseen, Relevant, IndInv
  <2> QED  BY <1>2, <2>1, <2>2 DEF StaleIsExplained, IndInv
<1> QED  BY <1>1, <1>4, <1>5, <1>6, <1>7 DEF IndInv

\* The message has gone out, or was lost.
LEMMA PublishKeeps ==
  ASSUME IndInv, NEW w \in Writes, Publish(w) \/ PublishFails(w)
  PROVE  IndInv'
<1>0. /\ Busy(w) /\ Step(w) \in Event /\ Advances(w)
      /\ UNCHANGED <<log, replicated, cache, call>>
      /\ \/ clearing' = [clearing EXCEPT ![w] = Clears(kind[w])] /\ lost' = lost \ {w}
            /\ faults' = faults
         \/ clearing' = clearing /\ lost' = lost \cup {w} /\ Fault
  BY DEF Publish, PublishFails
<1>1. kind' = kind /\ done' = [done EXCEPT ![w] = @ + 1] /\ done[w] + 1 \in 1..Len(Steps[kind[w]])
      /\ kind[w] \in Kinds /\ done[w] = 0
  BY <1>0, Progress DEF Advances, IndInv
<1>2. clearing' \in [Writes -> SUBSET Keys] /\ \A v \in Writes \ {w} : clearing'[v] = clearing[v]
  BY <1>0, ClearsKeys DEF IndInv, TypeOK
<1>3. TypeOK'
  <2>1. done' \in [Writes -> 0..3] /\ \A v \in Writes : done'[v] <= Len(Steps[kind[v]])
    BY <1>1, Progress DEF IndInv, TypeOK
  <2>2. faults' \in 0..MaxFaults /\ lost' \subseteq Writes
    BY <1>0, CachesAssumption DEF IndInv, TypeOK, Fault
  <2>3. \A k \in Keys : Relevant(k, Len(log))' = Relevant(k, Len(log))
    BY <1>0 DEF Relevant
  <2> QED  BY <1>0, <1>1, <1>2, <2>1, <2>2, <2>3 DEF IndInv, TypeOK
<1>4. \A v \in Writes : v # w => Busy(v)' = Busy(v) /\ Published(v)' = Published(v)
  BY <1>1 DEF Busy, Published, IndInv, TypeOK
<1>5. \A v \in Writes : InProgress(v)' => InProgress(v)
  BY <1>0, <1>1, <1>4 DEF InProgress, Kinds
<1>6. CallsMeet' /\ SeenOrMet' /\ LogHasKinds'
  BY <1>0, <1>1, <1>5 DEF IndInv, CallsMeet, SeenOrMet, LogHasKinds, Relevant
<1>7. \A k \in Keys : WritesTo(kind[w]) \in Content[k] => Excused(w, k)'
  BY <1>0, <1>1, KeysTold DEF Excused, IndInv, TypeOK
<1>8. \A k \in DOMAIN cache, v \in Writes \ {w} : Excused(v, k) => Excused(v, k)'
  BY <1>0, <1>1, <1>2 DEF Excused
<1>9. DOMAIN cache \subseteq Keys /\ cache' = cache
  BY <1>0 DEF IndInv, TypeOK
<1>10. EntriesTold'
  BY <1>1, <1>4, <1>7, <1>8, <1>9 DEF IndInv, EntriesTold
<1>11. StaleIsExplained'
  <2>1. ASSUME NEW k \in DOMAIN cache, NEW v \in Unseen(k), v # w PROVE Excused(v, k)'
    <3>1. v \in Writes /\ Excused(v, k)
      BY UnseenWrites DEF IndInv, StaleIsExplained, Excused
    <3> QED  BY <2>1, <3>1, <1>8
  <2>2. ASSUME NEW k \in DOMAIN cache, w \in Unseen(k) PROVE Excused(w, k)'
    BY <1>7, <2>2, UnseenWrites DEF IndInv
  <2>3. \A k \in DOMAIN cache : Unseen(k)' = Unseen(k)
    BY <1>0 DEF Unseen, Relevant
  <2> QED  BY <1>9, <2>1, <2>2, <2>3 DEF StaleIsExplained, Excused
<1> QED  BY <1>3, <1>6, <1>10, <1>11 DEF IndInv

LEMMA SaveKeeps ==
  ASSUME IndInv, NEW w \in Writes, Save(w)
  PROVE  IndInv'
<1>0. /\ Busy(w) /\ Step(w) \in Table /\ Advances(w)
      /\ log' = Append(log, [table |-> Step(w), by |-> w])
      /\ UNCHANGED <<replicated, clearing, cache, call, faults, lost>>
  BY DEF Save
<1>1. kind' = kind /\ done' = [done EXCEPT ![w] = @ + 1] /\ done[w] + 1 \in 1..Len(Steps[kind[w]])
      /\ kind[w] \in Kinds /\ kind[w] # "none" /\ Step(w) = WritesTo(kind[w])
      /\ (done[w] = 0 => kind[w] \in Silent) /\ done[w] \in 0..3
  BY <1>0, Progress, StepFacts DEF Advances, IndInv, TypeOK, Kinds
<1>2. /\ log' \in Seq([table : Table, by : Writes]) /\ Len(log') = Len(log) + 1
      /\ \A i \in 1..Len(log) : log'[i] = log[i]
      /\ log'[Len(log) + 1].by = w /\ log'[Len(log) + 1].table = WritesTo(kind[w])
      /\ \A k \in Keys : /\ Relevant(k, Len(log)) \subseteq Relevant(k, Len(log))'
                          /\ \A i \in Relevant(k, Len(log))' \ Relevant(k, Len(log)) :
                               i = Len(log) + 1 /\ WritesTo(kind[w]) \in Content[k]
  <2>1. PICK t \in Table : t = Step(w) /\ t = WritesTo(kind[w])
    BY <1>0, <1>1
  <2>2. TypeOK /\ log' = Append(log, [table |-> t, by |-> w])
    BY <1>0, <2>1 DEF IndInv
  <2>3. /\ log' \in Seq([table : Table, by : Writes]) /\ Len(log') = Len(log) + 1
        /\ \A i \in 1..Len(log) : log'[i] = log[i]
        /\ log'[Len(log) + 1] = [table |-> t, by |-> w]
    BY <2>2, Committed
  <2>4. \A k \in Keys : /\ Relevant(k, Len(log)) \subseteq Relevant(k, Len(log))'
                        /\ \A i \in Relevant(k, Len(log))' \ Relevant(k, Len(log)) :
                             i = Len(log) + 1 /\ t \in Content[k]
    BY <2>2, Committed
  <2> QED  BY <2>1, <2>3, <2>4
<1>3. TypeOK'
  <2>1. done' \in [Writes -> 0..3] /\ \A v \in Writes : done'[v] <= Len(Steps[kind[v]])
    <3>1. done[w] + 1 \in 0..3 /\ done[w] + 1 <= Len(Steps[kind[w]])
      <4> DEFINE n == Len(Steps[kind[w]])
      <4>1. n \in 0..3 /\ done[w] + 1 \in 1..n
        BY <1>1, Progress DEF IndInv
      <4> HIDE DEF n
      <4>2. done[w] + 1 \in 0..3 /\ done[w] + 1 <= n
        BY <4>1
      <4> QED  BY <4>2 DEF n
    <3> QED  BY <1>1, <3>1 DEF IndInv, TypeOK
  <2>2. replicated' \in 0..Len(log')
    BY <1>0, <1>2, LogEntries DEF IndInv, TypeOK
  <2> QED  BY <1>0, <1>1, <1>2, <2>1, <2>2 DEF IndInv, TypeOK
<1>4. \A v \in Writes : v # w => Busy(v)' = Busy(v) /\ Published(v)' = Published(v)
  BY <1>1 DEF Busy, Published, IndInv, TypeOK
<1>5. InProgress(w)
  BY <1>0, <1>1 DEF InProgress
<1>6. ASSUME NEW v \in Writes, InProgress(v)' PROVE InProgress(v)
  <2>1. CASE v = w
    BY <1>5, <2>1
  <2>2. CASE v # w
    <3>1. ASSUME NEW i \in replicated + 1..Len(log'), log'[i].by = v
          PROVE  i \in replicated + 1..Len(log) /\ log[i].by = v
      BY <1>2, <2>2, <3>1, LogEntries DEF IndInv, TypeOK
    <3> QED  BY <1>0, <1>1, <1>4, <1>6, <2>2, <3>1 DEF InProgress
  <2> QED  BY <2>1, <2>2
<1>7. CallsMeet'
  BY <1>0, <1>6 DEF IndInv, CallsMeet
<1>8. SeenOrMet'
  <2>1. ASSUME NEW r \in Readers, call[r].pc = "set"
        PROVE  /\ call'[r].seen \subseteq Relevant(call[r].key, Len(log))'
               /\ \A i \in Relevant(call[r].key, Len(log))' \ call'[r].seen :
                     log'[i].by \in call'[r].met
    <3>1. PICK k \in Keys : k = call[r].key
      BY <2>1, CallKinds DEF IndInv
    <3>2. /\ call[r].seen \subseteq Relevant(k, Len(log))
          /\ \A i \in Relevant(k, Len(log)) \ call[r].seen : log[i].by \in call[r].met
      BY <2>1, <3>1 DEF IndInv, SeenOrMet
    <3>3. ASSUME NEW i \in Relevant(k, Len(log))', i \notin call[r].seen
          PROVE  log'[i].by \in call[r].met
      <4>1. CASE i \in Relevant(k, Len(log))
        <5>1. i \in 1..Len(log)
          BY <4>1 DEF Relevant
        <5> QED  BY <1>2, <3>2, <3>3, <4>1, <5>1
      <4>2. CASE i \notin Relevant(k, Len(log))
        <5>1. i = Len(log) + 1
          BY <1>2, <3>3, <4>2
        <5>2. w \in call[r].met
          BY <1>5, <2>1 DEF IndInv, CallsMeet
        <5> QED  BY <1>2, <5>1, <5>2
      <4> QED  BY <4>1, <4>2
    <3>4. call'[r] = call[r] /\ k = call'[r].key /\ call[r].seen \subseteq Relevant(k, Len(log))'
      BY <1>0, <1>2, <3>1, <3>2
    <3> QED  BY <3>3, <3>4
  <2> QED  BY <1>0, <2>1 DEF SeenOrMet
<1>9. LogHasKinds'
  <2>1. ASSUME NEW i \in 1..Len(log) + 1
        PROVE  kind[log'[i].by] # "none" /\ log'[i].table = WritesTo(kind[log'[i].by])
    <3>1. CASE i = Len(log) + 1
      BY <1>1, <1>2, <3>1
    <3>2. CASE i \in 1..Len(log)
      BY <1>2, <3>2 DEF IndInv, LogHasKinds
    <3> QED  BY <3>1, <3>2, LogEntries DEF IndInv
  <2> QED  BY <1>1, <1>2, <2>1 DEF LogHasKinds
<1>10. EntriesTold /\ EntriesTold'
  <2>1. \A k \in DOMAIN cache, v \in Writes : Excused(v, k)' = Excused(v, k)
    BY <1>0, <1>1 DEF Excused
  <2>2. Published(w)' => Published(w)
    BY <1>0, <1>1 DEF Published
  <2> QED  BY <1>0, <1>1, <1>4, <2>1, <2>2 DEF IndInv, EntriesTold
<1>11. StaleIsExplained'
  <2>1. ASSUME NEW k \in DOMAIN cache, NEW v \in Unseen(k)' PROVE Excused(v, k)
    <3>0. k \in Keys
      BY DEF IndInv, TypeOK
    <3>1. PICK i \in Relevant(k, Len(log))' \ cache[k].seen : v = log'[i].by
      BY <1>0 DEF Unseen
    <3>2. CASE i \in Relevant(k, Len(log))
      <4>1. i \in 1..Len(log)
        BY <3>2 DEF Relevant
      <4>2. v \in Unseen(k)
        BY <1>2, <3>1, <3>2, <4>1 DEF Unseen
      <4> QED  BY <4>2 DEF IndInv, StaleIsExplained, Excused
    <3>3. CASE i \notin Relevant(k, Len(log))
      <4>1. v = w /\ WritesTo(kind[w]) \in Content[k]
        BY <1>2, <3>0, <3>1, <3>3
      <4>2. CASE kind[w] \in Silent
        BY <4>1, <4>2 DEF Excused, NeverTold
      <4>3. CASE kind[w] \notin Silent
        <5>1. Published(w)
          BY <1>0, <1>1, <4>3 DEF Published
        <5> QED  BY <1>10, <4>1, <5>1 DEF EntriesTold
      <4> QED  BY <4>2, <4>3
    <3> QED  BY <3>2, <3>3
  <2>2. \A k \in DOMAIN cache, v \in Writes : Excused(v, k)' = Excused(v, k)
    BY <1>0, <1>1 DEF Excused
  <2> QED  BY <1>0, <1>1, <2>1 DEF StaleIsExplained, Excused
<1> QED  BY <1>3, <1>7, <1>8, <1>9, <1>10, <1>11 DEF IndInv

\* A step that commits nothing, and after which fewer writes are published or in
\* progress, and no entry is less excused.
LEMMA QuietStep ==
  ASSUME IndInv, UNCHANGED <<log, kind, call>>,
         \A v \in Writes : /\ Published(v)' => Published(v)
                           /\ InProgress(v)' => InProgress(v),
         DOMAIN cache' \subseteq DOMAIN cache,
         \A k \in DOMAIN cache' : /\ cache'[k] = cache[k]
                                  /\ \A v \in Writes : Excused(v, k) => Excused(v, k)'
  PROVE  CallsMeet' /\ SeenOrMet' /\ LogHasKinds' /\ EntriesTold' /\ StaleIsExplained'
<1>1. CallsMeet' /\ SeenOrMet' /\ LogHasKinds'
  BY DEF IndInv, CallsMeet, SeenOrMet, LogHasKinds, Relevant
<1>2. EntriesTold'
  BY DEF IndInv, EntriesTold
<1>3. StaleIsExplained'
  <2>1. ASSUME NEW k \in DOMAIN cache', NEW v \in Unseen(k)' PROVE Excused(v, k)'
    <3>1. v \in Unseen(k) /\ k \in DOMAIN cache
      BY DEF Unseen, Relevant
    <3>2. v \in Writes /\ Excused(v, k)
      BY <3>1, UnseenWrites DEF IndInv, StaleIsExplained, Excused
    <3> QED  BY <3>2
  <2> QED  BY <2>1 DEF StaleIsExplained, Excused
<1> QED  BY <1>1, <1>2, <1>3

LEMMA RestartKeeps ==
  ASSUME IndInv, NEW w \in Writes, Restart(w)
  PROVE  IndInv'
<1> USE DEF Restart
<1>1. TypeOK'
  <2>1. done' \in [Writes -> 0..3] /\ \A v \in Writes : done'[v] <= Len(Steps[kind[v]])
    BY Progress DEF IndInv, TypeOK
  <2>2. faults' \in 0..MaxFaults
    BY CachesAssumption DEF IndInv, TypeOK, Fault
  <2> QED  BY <2>1, <2>2 DEF IndInv, TypeOK, Relevant
<1>2. Busy(w) /\ ~Published(w)' /\ kind[w] # "none"
  <2>1. Busy(w) /\ kind[w] \in Kinds /\ done'[w] = 0
    BY Progress DEF IndInv, TypeOK
  <2> QED  BY <2>1 DEF Published, Kinds, Silent
<1>3. \A v \in Writes : v # w => Busy(v)' = Busy(v) /\ Published(v)' = Published(v)
  BY DEF Busy, Published, IndInv, TypeOK
<1>4. \A v \in Writes : InProgress(v)' => InProgress(v)
  BY <1>2, <1>3 DEF InProgress
<1> QED  BY <1>1, <1>2, <1>3, <1>4, QuietStep DEF IndInv, Excused

LEMMA ReplicateKeeps ==
  ASSUME IndInv, Replicate
  PROVE  IndInv'
<1> USE DEF Replicate
<1>1. TypeOK'
  <2>1. replicated' \in 0..Len(log)
    BY LogEntries DEF IndInv, TypeOK
  <2> QED  BY <2>1 DEF IndInv, TypeOK, Relevant, writes
<1>2. \A v \in Writes : Busy(v)' = Busy(v) /\ Published(v)' = Published(v)
  BY DEF Busy, Published, writes
<1>3. replicated' + 1..Len(log) \subseteq replicated + 1..Len(log)
  BY LogEntries DEF IndInv, TypeOK
<1>4. \A v \in Writes : InProgress(v)' => InProgress(v)
  BY <1>2, <1>3 DEF InProgress, writes
<1> QED  BY <1>1, <1>2, <1>4, QuietStep DEF IndInv, Excused, writes

\* A message deletes a key, or is delivered again.
LEMMA ClearKeeps ==
  ASSUME IndInv, NEW w \in Writes, (\E k \in Keys : Clear(w, k)) \/ Redeliver(w)
  PROVE  IndInv'
<1>1. UNCHANGED <<log, kind, done, replicated, call, lost>> /\ faults' \in 0..MaxFaults
  BY CachesAssumption DEF Clear, Redeliver, writes, Fault, IndInv, TypeOK
<1>2. /\ clearing' \in [Writes -> SUBSET Keys] /\ DOMAIN cache' \subseteq DOMAIN cache
      /\ \A k \in DOMAIN cache' : /\ cache'[k] = cache[k]
                                /\ \A v \in Writes : k \in clearing[v] => k \in clearing'[v]
      /\ \A v \in Writes : clearing'[v] \subseteq clearing[v] \cup Clears(kind[v])
  <2>1. CASE \E k \in Keys : Clear(w, k)
    <3>1. PICK k \in Keys : Clear(w, k)
      BY <2>1
    <3>2. clearing' = [clearing EXCEPT ![w] = @ \ {k}] /\ cache' = Without(cache, k)
      BY <3>1 DEF Clear
    <3> QED  BY <3>2 DEF Without, IndInv, TypeOK
  <2>2. CASE Redeliver(w)
    <3>1. cache' = cache /\ clearing' = [clearing EXCEPT ![w] = Clears(kind[w])]
      BY <2>2 DEF Redeliver
    <3>2. clearing[w] \subseteq Clears(kind[w])
      BY DEF IndInv, TypeOK
    <3> QED  BY <3>1, <3>2, ClearsKeys DEF IndInv, TypeOK
  <2> QED  BY <2>1, <2>2
<1>3. TypeOK'
  <2>1. \A v \in Writes : clearing'[v] \subseteq Clears(kind[v])
    BY <1>2 DEF IndInv, TypeOK
  <2>2. \A k \in Keys : Relevant(k, Len(log))' = Relevant(k, Len(log))
    BY <1>1 DEF Relevant
  <2> QED  BY <1>1, <1>2, <2>1, <2>2 DEF IndInv, TypeOK
<1>4. \A v \in Writes : Published(v)' = Published(v) /\ InProgress(v)' = InProgress(v)
  BY <1>1 DEF Published, InProgress, Busy
<1>5. \A k \in DOMAIN cache' : \A v \in Writes : Excused(v, k) => Excused(v, k)'
  BY <1>1, <1>2 DEF Excused
<1> QED  BY <1>1, <1>2, <1>3, <1>4, <1>5, QuietStep DEF IndInv

\* A request finds no key, asks, or fails.
LEMMA CallKeeps ==
  ASSUME IndInv, NEW r \in Readers,
         (\E k \in Keys : Miss(r, k)) \/ Query(r) \/ LoadFails(r)
  PROVE  IndInv'
<1>1. UNCHANGED <<log, kind, done, replicated, clearing, cache, lost>> /\ faults' \in 0..MaxFaults
  <2>1. faults' = faults \/ Fault
    BY DEF Miss, Query, LoadFails
  <2>2. UNCHANGED <<log, kind, done, replicated, clearing, cache, lost>>
    BY DEF Miss, Query, LoadFails, writes
  <2>3. faults' \in 0..MaxFaults
    BY <2>1, CachesAssumption DEF Fault, IndInv, TypeOK
  <2> QED  BY <2>2, <2>3
<1>2. PICK c \in Call :
         /\ call' = [call EXCEPT ![r] = c]
         /\ c.pc # "idle" => \A w \in Writes : InProgress(w) => w \in c.met
         /\ c.pc = "set" => /\ c.seen \subseteq Relevant(c.key, Len(log))
                            /\ \A i \in Relevant(c.key, Len(log)) \ c.seen : log[i].by \in c.met
  <2>1. CASE \E k \in Keys : Miss(r, k)
    <3>1. PICK k \in Keys : Miss(r, k)
      BY <2>1
    <3> DEFINE c == [pc |-> "query", key |-> k, met |-> {w \in Writes : InProgress(w)}]
    <3>2. c \in Call /\ call' = [call EXCEPT ![r] = c]
      BY <3>1 DEF Miss, Becomes, Call
    <3> QED  BY <3>2
  <2>2. CASE Query(r)
    <3>1. PICK n \in replicated..Len(log) :
             call' = [call EXCEPT ![r] = [pc |-> "set", key |-> call[r].key,
                                          met |-> call[r].met,
                                          seen |-> Relevant(call[r].key, n)]]
      BY <2>2 DEF Query, Becomes
    <3> DEFINE c == [pc |-> "set", key |-> call[r].key, met |-> call[r].met,
                     seen |-> Relevant(call[r].key, n)]
    <3>2. call[r].pc = "query" /\ call[r].key \in Keys /\ call[r].met \subseteq Writes
      BY <2>2, CallKinds DEF Query, IndInv
    <3>3. n \in Nat /\ Relevant(call[r].key, n) \subseteq Nat
      BY LogEntries DEF Relevant, IndInv, TypeOK
    <3>4. c \in Call
      BY <3>2, <3>3 DEF Call
    <3>5. \A w \in Writes : InProgress(w) => w \in call[r].met
      BY <3>2 DEF IndInv, CallsMeet
    <3>6. ASSUME NEW i \in Relevant(call[r].key, Len(log)) \ Relevant(call[r].key, n)
          PROVE  log[i].by \in call[r].met
      <4>1. i \in 1..Len(log) /\ i \notin 1..n
        BY <3>6 DEF Relevant
      <4>2. i \in replicated + 1..Len(log)
        BY <3>3, <4>1, LogEntries DEF IndInv, TypeOK
      <4>3. InProgress(log[i].by) /\ log[i].by \in Writes
        BY <4>1, <4>2, LogEntries DEF IndInv, LogHasKinds, InProgress
      <4> QED  BY <3>5, <4>3
    <3>7. Relevant(call[r].key, n) \subseteq Relevant(call[r].key, Len(log))
      BY <3>3, LogEntries DEF Relevant, IndInv, TypeOK
    <3> QED  BY <3>1, <3>4, <3>5, <3>6, <3>7
  <2>3. CASE LoadFails(r)
    <3>1. [pc |-> "idle"] \in Call /\ call' = [call EXCEPT ![r] = [pc |-> "idle"]]
      BY <2>3 DEF LoadFails, Becomes, Call
    <3> QED  BY <3>1
  <2> QED  BY <2>1, <2>2, <2>3
<1>3. call' \in [Readers -> Call] /\ call'[r] = c /\ \A q \in Readers \ {r} : call'[q] = call[q]
  BY <1>2 DEF IndInv, TypeOK
<1>4. TypeOK'
  BY <1>1, <1>3 DEF IndInv, TypeOK, Relevant
<1>5. \A v \in Writes : Published(v)' = Published(v) /\ InProgress(v)' = InProgress(v)
  BY <1>1 DEF Published, InProgress, Busy
<1>6. CallsMeet'
  BY <1>2, <1>3, <1>5 DEF IndInv, CallsMeet
<1>7. SeenOrMet'
  BY <1>1, <1>2, <1>3 DEF IndInv, SeenOrMet, Relevant
<1>8. LogHasKinds' /\ EntriesTold' /\ StaleIsExplained'
  BY <1>1, <1>5 DEF IndInv, LogHasKinds, EntriesTold, Excused, StaleIsExplained, Unseen, Relevant
<1> QED  BY <1>4, <1>6, <1>7, <1>8 DEF IndInv

LEMMA SetKeeps ==
  ASSUME IndInv, NEW r \in Readers, Set(r)
  PROVE  IndInv'
<1>0. PICK k \in Keys : k = call[r].key
  BY CallKinds DEF Set, IndInv
<1>1. /\ call[r].pc = "set" /\ call[r].met \subseteq Writes /\ call[r].seen \subseteq Nat
      /\ call' = [call EXCEPT ![r] = [pc |-> "idle"]]
      /\ UNCHANGED <<log, kind, done, replicated, clearing, faults, lost>>
      /\ cache' = [x \in DOMAIN cache \cup {k} |->
                     IF x = k THEN [seen |-> call[r].seen, met |-> call[r].met] ELSE cache[x]]
  BY <1>0, CallKinds DEF Set, Becomes, Loaded, writes, IndInv
<1>2. /\ DOMAIN cache' = DOMAIN cache \cup {k}
      /\ cache'[k].seen = call[r].seen /\ cache'[k].met = call[r].met /\ cache'[k] \in Entry
      /\ \A x \in DOMAIN cache : x # k => cache'[x] = cache[x]
  BY <1>1 DEF Entry
<1>3. /\ call' \in [Readers -> Call] /\ call'[r].pc = "idle"
      /\ \A q \in Readers \ {r} : call'[q] = call[q]
  BY <1>1 DEF IndInv, TypeOK, Call
<1>4. /\ call[r].seen \subseteq Relevant(k, Len(log))
      /\ \A i \in Relevant(k, Len(log)) \ call[r].seen : log[i].by \in call[r].met
      /\ \A w \in Writes : InProgress(w) => w \in call[r].met
  BY <1>1, <1>0 DEF IndInv, SeenOrMet, CallsMeet
<1>5. TypeOK'
  <2>1. \A x \in Keys : Relevant(x, Len(log))' = Relevant(x, Len(log))
    BY <1>1 DEF Relevant
  <2>2. \A x \in DOMAIN cache' : cache'[x] \in Entry /\ cache'[x].seen \subseteq Relevant(x, Len(log))
    BY <1>2, <1>4 DEF IndInv, TypeOK
  <2>3. DOMAIN cache' \subseteq Keys
    BY <1>2 DEF IndInv, TypeOK
  <2>4. \A w \in Writes : Clears(kind[w])' = Clears(kind[w])
    BY <1>1 DEF Clears
  <2>5. \A x \in DOMAIN cache' :
          cache'[x] \in Entry /\ cache'[x].seen \subseteq Relevant(x, Len(log))'
    BY <2>1, <2>2, <2>3
  <2>6. UNCHANGED <<log, kind, done, replicated, clearing, faults, lost>>
    BY <1>1
  <2> QED  BY <1>3, <2>3, <2>4, <2>5, <2>6 DEF IndInv, TypeOK
<1>6. \A v \in Writes : Published(v)' = Published(v) /\ InProgress(v)' = InProgress(v)
  BY <1>1 DEF Published, InProgress, Busy
<1>7. CallsMeet' /\ SeenOrMet' /\ LogHasKinds'
  BY <1>1, <1>3, <1>6 DEF IndInv, CallsMeet, SeenOrMet, LogHasKinds, Relevant
<1>8. EntriesTold'
  <2>1. ASSUME NEW v \in Writes, Published(v) PROVE Excused(v, k)'
    <3>1. InProgress(v)
      BY <2>1, Progress DEF Published, InProgress, Kinds, IndInv
    <3> QED  BY <1>2, <1>4, <3>1 DEF Excused
  <2>2. \A x \in DOMAIN cache : x # k => \A v \in Writes : Excused(v, x) => Excused(v, x)'
    BY <1>1, <1>2 DEF Excused
  <2> QED  BY <1>1, <1>2, <1>6, <2>1, <2>2 DEF IndInv, EntriesTold
<1>9. StaleIsExplained'
  <2>1. ASSUME NEW v \in Unseen(k)' PROVE v \in cache'[k].met
    BY <1>1, <1>2, <1>4 DEF Unseen, Relevant
  <2>2. ASSUME NEW x \in DOMAIN cache, x # k
        PROVE  Unseen(x)' = Unseen(x) /\ cache'[x] = cache[x]
    BY <1>1, <1>2, <2>2 DEF Unseen, Relevant
  <2> QED  BY <1>1, <1>2, <2>1, <2>2 DEF IndInv, StaleIsExplained
<1> QED  BY <1>5, <1>7, <1>8, <1>9 DEF IndInv

LEMMA ExpireKeeps ==
  ASSUME IndInv, NEW k \in Keys, Expire(k)
  PROVE  IndInv'
<1>1. UNCHANGED <<log, kind, done, replicated, clearing, call, faults, lost>>
      /\ cache' = Without(cache, k)
  BY DEF Expire, writes
<1>2. DOMAIN cache' \subseteq DOMAIN cache /\ \A x \in DOMAIN cache' : cache'[x] = cache[x]
  BY <1>1 DEF Without
<1>3. TypeOK'
  BY <1>1, <1>2 DEF IndInv, TypeOK, Relevant
<1>4. \A v \in Writes : Published(v)' = Published(v) /\ InProgress(v)' = InProgress(v)
  BY <1>1 DEF Published, InProgress, Busy
<1>5. \A x \in DOMAIN cache' : \A v \in Writes : Excused(v, x) => Excused(v, x)'
  BY <1>1, <1>2 DEF Excused
<1> QED  BY <1>1, <1>2, <1>3, <1>4, <1>5, QuietStep DEF IndInv

LEMMA StutterKeeps ==
  ASSUME IndInv, UNCHANGED vars
  PROVE  IndInv'
<1> USE DEF vars, writes
<1>1. TypeOK'
  BY DEF IndInv, TypeOK, Relevant
<1>2. CallsMeet' /\ SeenOrMet' /\ LogHasKinds'
  BY DEF IndInv, CallsMeet, SeenOrMet, LogHasKinds, InProgress, Busy, Relevant
<1>3. EntriesTold' /\ StaleIsExplained'
  BY DEF IndInv, EntriesTold, StaleIsExplained, Excused, Published, Busy, Unseen, Relevant
<1> QED  BY <1>1, <1>2, <1>3 DEF IndInv

LEMMA StepKeeps == IndInv /\ [Next]_vars => IndInv'
<1> SUFFICES ASSUME IndInv, [Next]_vars PROVE IndInv'
  OBVIOUS
<1>1. CASE \E w \in Writes : Writer(w) \/ \E kd \in Kinds : Start(w, kd)
  BY <1>1, StartKeeps, PublishKeeps, SaveKeeps DEF Writer
<1>2. CASE \E w \in Writes, k \in Keys : Clear(w, k)
  BY <1>2, ClearKeeps
<1>3. CASE Replicate
  BY <1>3, ReplicateKeeps
<1>4. CASE Faults
  BY <1>4, PublishKeeps, RestartKeeps, ClearKeeps, CallKeeps DEF Faults
<1>5. CASE \E r \in Readers : Reader(r) \/ \E k \in Keys : Miss(r, k)
  BY <1>5, CallKeeps, SetKeeps DEF Reader
<1>6. CASE \E k \in Keys : Expire(k)
  BY <1>6, ExpireKeeps
<1>7. CASE UNCHANGED vars
  BY <1>7, StutterKeeps
<1> QED  BY <1>1, <1>2, <1>3, <1>4, <1>5, <1>6, <1>7 DEF Next

\* The log, the messages, the cache and the requests keep their types.
THEOREM CachesTyped == Spec => []TypeOK
<1>1. IndInv => TypeOK
  BY DEF IndInv
<1> QED  BY InitOK, StepKeeps, <1>1, PTL DEF Spec

\* A stale entry was left by a write whose message never deletes that key, was
\* lost or is still on its way, or stored by a request that met the write.
THEOREM CachesExplained == Spec => []StaleIsExplained
<1>1. IndInv => StaleIsExplained
  BY DEF IndInv
<1> QED  BY InitOK, StepKeeps, <1>1, PTL DEF Spec
=============================================================================
