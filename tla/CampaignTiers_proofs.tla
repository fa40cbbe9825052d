------------------------ MODULE CampaignTiers_proofs ------------------------
(***************************************************************************)
(* Proofs about CampaignTiers, for any brands, purchases, workers and      *)
(* faults: a campaign has its tier, or one worker is about to save it, or  *)
(* a fault came in between; the tables keep their types; and a tier is     *)
(* wrong about what is left only for the reasons LeftIsExplained names.    *)
(* The last one needs sums over sets of purchases: what MapThenSumSet      *)
(* computes is shown, by the smallest counterexample, to grow and shrink   *)
(* by one amount with one purchase.                                        *)
(***************************************************************************)
EXTENDS CampaignTiers, SequenceTheorems, FiniteSetTheorems, WellFoundedInduction, TLAPS

\* A purchase is announced after the contract has it.
Happened(e) == e.kind = "bought" => e.of \in DOMAIN sold

\* What the workers have in hand; the amounts are left aside.
HandOK(w) ==
    /\ hand[w].pc \in {"idle", "query", "find", "read", "ack", "save", "tier", "write"}
    /\ hand[w].pc # "idle" => hand[w].event \in Event /\ Happened(hand[w].event)
    /\ hand[w].pc \in {"find", "read", "write"} => hand[w].event.kind = "bought"
    /\ hand[w].pc \in {"save", "tier"} => \A s \in hand[w].list : s.brand \in Brands
    /\ hand[w].pc = "tier" => hand[w].one.brand \in Brands

Shape ==
    /\ created \subseteq Brands
    /\ queue \in Seq(Event) /\ \A i \in 1..Len(queue) : Happened(queue[i])
    /\ hand = [w \in Workers |-> hand[w]]
    /\ \A w \in Workers : HandOK(w)
    /\ campaigns \subseteq Brands

\* A tier is saved after its campaign, and what is taken off is taken off a
\* tier that exists.
TiersKnown ==
    /\ DOMAIN tiers \subseteq campaigns
    /\ \A w \in Workers : At(w, "write") => Purchase(w).brand \in DOMAIN tiers

IndInv == Shape /\ TiersKnown /\ EveryCampaignHasTier

-----------------------------------------------------------------------------
\* With gives x the value v and leaves the others alone.
LEMMA WithFacts ==
  ASSUME NEW f, NEW x, NEW v
  PROVE  /\ DOMAIN With(f, x, v) = DOMAIN f \cup {x}
         /\ With(f, x, v)[x] = v
         /\ \A y \in DOMAIN f : y # x => With(f, x, v)[y] = f[y]
  BY DEF With

\* Only the worker that takes a step changes what it has in hand.
LEMMA HandFacts ==
  ASSUME hand = [w \in Workers |-> hand[w]], NEW w \in Workers, NEW h, Now(w, h)
  PROVE  /\ hand' = [v \in Workers |-> hand'[v]]
         /\ hand'[w] = h
         /\ \A v \in Workers : v # w => hand'[v] = hand[v]
  BY DEF Now

\* The tables, the contract and the queue are as before, but for new entries:
\* what the other workers have in hand is still in order.
LEMMA OthersKeep ==
  ASSUME NEW w \in Workers, Shape, TiersKnown,
         hand' = [v \in Workers |-> hand'[v]],
         \A v \in Workers : v # w => hand'[v] = hand[v],
         \A p \in DOMAIN sold : p \in DOMAIN sold' /\ sold'[p] = sold[p],
         DOMAIN tiers \subseteq DOMAIN tiers'
  PROVE  \A v \in Workers : v # w =>
            /\ HandOK(v)'
            /\ At(v, "write")' => Purchase(v).brand' \in DOMAIN tiers'
<1> SUFFICES ASSUME NEW v \in Workers, v # w
             PROVE  /\ HandOK(v)'
                    /\ At(v, "write")' => Purchase(v).brand' \in DOMAIN tiers'
  OBVIOUS
<1>1. hand'[v] = hand[v] /\ HandOK(v)
  BY DEF Shape
<1>2. HandOK(v)'
  BY <1>1 DEF HandOK, Happened
<1>3. ASSUME At(v, "write")' PROVE Purchase(v).brand' \in DOMAIN tiers'
  <2>1. At(v, "write") /\ hand[v].event.kind = "bought" /\ hand[v].event.of \in DOMAIN sold
    BY <1>1, <1>3 DEF At, HandOK, Happened
  <2>2. Purchase(v)' = Purchase(v)
    BY <1>1, <2>1 DEF Purchase
  <2> QED BY <2>1, <2>2 DEF TiersKnown
<1> QED BY <1>2, <1>3

\* No campaign is left without a tier by a step that leaves the campaigns
\* alone, does not begin to save a tier, and saves no tier but w's own.
LEMMA NoneLeft ==
  ASSUME EveryCampaignHasTier, NEW w \in Workers,
         \A v \in Workers : v # w => hand'[v] = hand[v],
         hand'[w].pc # "tier",
         campaigns' = campaigns, orphans \subseteq orphans',
         DOMAIN tiers \subseteq DOMAIN tiers',
         DOMAIN tiers' \ DOMAIN tiers \subseteq {b \in Brands : Saves(w, b)},
         \A b \in campaigns : Saves(w, b) => b \in orphans' \cup DOMAIN tiers'
  PROVE  EveryCampaignHasTier'
<1>1. \A v \in Workers, b \in Brands : v # w => (Saves(v, b)' <=> Saves(v, b))
  BY DEF Saves, At
<1>2. \A b : ~Saves(w, b)'
  BY DEF Saves, At
<1>3. ASSUME NEW b \in campaigns
      PROVE  b \in DOMAIN tiers' \/ b \in orphans' \/ \E v \in Workers : Saves(v, b)'
  <2>1. CASE b \in DOMAIN tiers \/ b \in orphans
    BY <2>1
  <2>2. CASE \E v \in Workers : Saves(v, b)
    <3>1. PICK v \in Workers : Saves(v, b)
      BY <2>2
    <3>2. CASE v = w
      BY <3>1, <3>2
    <3>3. CASE v # w
      BY <3>1, <3>3 DEF Saves, At
    <3> QED BY <3>2, <3>3
  <2> QED BY <2>1, <2>2 DEF EveryCampaignHasTier
<1>4. ASSUME NEW v \in Workers, NEW b \in Brands, Saves(v, b)'
      PROVE  /\ b \in campaigns /\ b \notin DOMAIN tiers'
             /\ \A u \in Workers : Saves(u, b)' => u = v
  <2>1. v # w /\ Saves(v, b)
    BY <1>1, <1>2, <1>4
  <2>2. ~Saves(w, b) /\ b \in campaigns /\ b \notin DOMAIN tiers
    BY <2>1 DEF EveryCampaignHasTier
  <2>3. \A u \in Workers : Saves(u, b)' => u = v
    BY <1>1, <1>2, <2>1 DEF EveryCampaignHasTier
  <2> QED BY <2>2, <2>3
<1> QED BY <1>3, <1>4 DEF EveryCampaignHasTier

\* The rest of the invariant, from what the step does to w and to the tables.
LEMMA RestKept ==
  ASSUME Shape, TiersKnown, NEW w \in Workers,
         hand' = [v \in Workers |-> hand'[v]],
         \A v \in Workers : v # w => hand'[v] = hand[v],
         \A p \in DOMAIN sold : p \in DOMAIN sold' /\ sold'[p] = sold[p],
         DOMAIN tiers \subseteq DOMAIN tiers', DOMAIN tiers' \subseteq campaigns',
         created' \subseteq Brands, campaigns' \subseteq Brands,
         queue' \in Seq(Event), (\A i \in 1..Len(queue) : Happened(queue[i]))',
         HandOK(w)', At(w, "write")' => Purchase(w).brand' \in DOMAIN tiers'
  PROVE  Shape' /\ TiersKnown'
<1>1. \A v \in Workers : /\ HandOK(v)'
                         /\ At(v, "write")' => Purchase(v).brand' \in DOMAIN tiers'
  BY OthersKeep
<1>2. Shape'
  <2>1. created' \subseteq Brands /\ campaigns' \subseteq Brands
    OBVIOUS
  <2>2. queue' \in Seq(Event) /\ (\A i \in 1..Len(queue) : Happened(queue[i]))'
    OBVIOUS
  <2>3. \A v \in Workers : HandOK(v)'
    BY <1>1
  <2>4. hand' = [v \in Workers |-> hand'[v]]
    OBVIOUS
  <2> QED BY <2>1, <2>2, <2>3, <2>4, Zenon DEF Shape
<1>3. TiersKnown'
  BY <1>1 DEF TiersKnown
<1> QED BY <1>2, <1>3

LEMMA InitKept == Init => IndInv
<1> SUFFICES ASSUME Init PROVE IndInv
  OBVIOUS
<1>1. \A w \in Workers : hand[w].pc = "idle"
  BY DEF Init
<1>2. Shape
  <2>1. hand = [w \in Workers |-> hand[w]]
    BY DEF Init
  <2>2. \A w \in Workers : HandOK(w)
    BY <1>1 DEF HandOK
  <2> QED BY <2>1, <2>2 DEF Shape, Init
<1>3. TiersKnown
  BY <1>1 DEF TiersKnown, At, Init
<1>4. EveryCampaignHasTier
  BY <1>1 DEF EveryCampaignHasTier, Saves, At, Init
<1> QED BY <1>2, <1>3, <1>4 DEF IndInv

-----------------------------------------------------------------------------
\* A step of w that does not begin to save a tier.
LEMMA PlainStep ==
  ASSUME IndInv, NEW w \in Workers, NEW h, Now(w, h), h.pc # "tier",
         UNCHANGED <<created, sold, campaigns>>, orphans \subseteq orphans',
         queue' \in Seq(Event), (\A i \in 1..Len(queue) : Happened(queue[i]))',
         DOMAIN tiers \subseteq DOMAIN tiers',
         DOMAIN tiers' \ DOMAIN tiers \subseteq {b \in Brands : Saves(w, b)},
         \A b \in campaigns : Saves(w, b) => b \in orphans' \cup DOMAIN tiers',
         HandOK(w)', At(w, "write")' => Purchase(w).brand' \in DOMAIN tiers'
  PROVE  IndInv'
<1>1. /\ hand' = [v \in Workers |-> hand'[v]] /\ hand'[w] = h
      /\ \A v \in Workers : v # w => hand'[v] = hand[v]
  BY HandFacts DEF IndInv, Shape
<1>2. EveryCampaignHasTier'
  BY <1>1, NoneLeft DEF IndInv
<1>3. DOMAIN tiers' \subseteq campaigns'
  BY DEF IndInv, TiersKnown, EveryCampaignHasTier
<1>4. Shape' /\ TiersKnown'
  BY <1>1, <1>3, RestKept DEF IndInv, Shape
<1> QED BY <1>2, <1>4 DEF IndInv

\* A step that leaves the tables and the queue alone.
LEMMA HandStep ==
  ASSUME IndInv, NEW w \in Workers, NEW h, Now(w, h), h.pc # "tier",
         UNCHANGED <<contract, queue, tables>>, orphans \subseteq orphans',
         \A b \in campaigns : Saves(w, b) => b \in orphans',
         HandOK(w)', h.pc # "write" \/ Purchase(w).brand' \in DOMAIN tiers
  PROVE  IndInv'
<1>1. UNCHANGED <<created, sold, queue, campaigns, tiers>>
  BY DEF contract, tables
<1>2. queue' \in Seq(Event) /\ (\A i \in 1..Len(queue) : Happened(queue[i]))'
  BY <1>1 DEF IndInv, Shape, Happened
<1>3. hand'[w] = h
  BY HandFacts DEF IndInv, Shape
<1>4. At(w, "write")' => Purchase(w).brand' \in DOMAIN tiers'
  BY <1>1, <1>3 DEF At
<1> QED BY <1>1, <1>2, <1>4, PlainStep

\* What w had in hand, and the shape of what it has next.
LEMMA HandStays ==
  ASSUME IndInv, NEW w \in Workers, NEW h, Now(w, h), UNCHANGED sold,
         hand[w].pc # "idle", h.event = hand[w].event,
         h.pc \in {"query", "find", "read", "ack", "save", "tier", "write"},
         h.pc \in {"find", "read", "write"} => hand[w].event.kind = "bought",
         h.pc \in {"save", "tier"} => \A s \in h.list : s.brand \in Brands,
         h.pc = "tier" => h.one.brand \in Brands
  PROVE  HandOK(w)'
<1>1. hand'[w] = h
  BY HandFacts DEF IndInv, Shape
<1>2. hand[w].event \in Event /\ Happened(hand[w].event)
  BY DEF IndInv, Shape, HandOK
<1>3. Happened(hand[w].event)'
  BY <1>1, <1>2 DEF Happened
<1> QED BY <1>1, <1>2, <1>3 DEF HandOK, Happened

LEMMA IdleIsOK ==
  ASSUME NEW w \in Workers, hand'[w] = [pc |-> "idle"]
  PROVE  HandOK(w)'
  BY DEF HandOK

-----------------------------------------------------------------------------
(* The contract                                                              *)

\* An event joins the queue, with its purchase.
LEMMA ChainStep ==
  ASSUME IndInv, NEW e \in Event, queue' = Append(queue, e),
         UNCHANGED <<hand, tables, history>>, created' \subseteq Brands,
         \A p \in DOMAIN sold : p \in DOMAIN sold' /\ sold'[p] = sold[p],
         e.kind = "bought" => e.of \in DOMAIN sold'
  PROVE  IndInv'
<1>1. UNCHANGED <<hand, campaigns, tiers, orphans>>
  BY DEF tables, history
<1>2. /\ queue' \in Seq(Event) /\ Len(queue') = Len(queue) + 1
      /\ \A i \in 1..Len(queue) : queue'[i] = queue[i]
      /\ queue'[Len(queue) + 1] = e
  BY DEF IndInv, Shape
<1>3. Len(queue) \in Nat
  BY DEF IndInv, Shape
<1>4. (\A i \in 1..Len(queue) : Happened(queue[i]))'
  <2> SUFFICES ASSUME NEW i \in 1..Len(queue') PROVE Happened(queue[i])'
    OBVIOUS
  <2>1. CASE i = Len(queue) + 1
    BY <1>2, <2>1 DEF Happened
  <2>2. CASE i \in 1..Len(queue)
    BY <1>2, <2>2 DEF Happened, IndInv, Shape
  <2> QED BY <1>2, <1>3, <2>1, <2>2
<1>5. ASSUME NEW w \in Workers
      PROVE  HandOK(w)' /\ (At(w, "write")' => Purchase(w).brand' \in DOMAIN tiers')
  <2>1. HandOK(w)
    BY DEF IndInv, Shape
  <2>2. HandOK(w)'
    BY <1>1, <2>1 DEF HandOK, Happened
  <2>3. ASSUME At(w, "write") PROVE Purchase(w)' = Purchase(w)
    BY <1>1, <2>1, <2>3 DEF At, HandOK, Happened, Purchase
  <2>4. At(w, "write")' => At(w, "write")
    BY <1>1 DEF At
  <2>5. At(w, "write") => Purchase(w).brand \in DOMAIN tiers
    BY DEF IndInv, TiersKnown
  <2> QED BY <1>1, <2>2, <2>3, <2>4, <2>5
<1>6. Shape'
  <2>1. created' \subseteq Brands /\ campaigns' \subseteq Brands
    BY <1>1 DEF IndInv, Shape
  <2>2. hand' = [w \in Workers |-> hand'[w]]
    BY <1>1 DEF IndInv, Shape
  <2>3. queue' \in Seq(Event)
    BY <1>2
  <2>4. \A w \in Workers : HandOK(w)'
    BY <1>5
  <2> QED BY <1>4, <2>1, <2>2, <2>3, <2>4, Zenon DEF Shape
<1>7. TiersKnown'
  BY <1>1, <1>5 DEF IndInv, TiersKnown
<1>8. EveryCampaignHasTier'
  BY <1>1 DEF IndInv, EveryCampaignHasTier, Saves, At
<1> QED BY <1>6, <1>7, <1>8 DEF IndInv

LEMMA CreateBrandKept ==
  ASSUME IndInv, NEW b \in Brands, CreateBrand(b) PROVE IndInv'
<1>1. [kind |-> "brandCreated", of |-> b] \in Event
  BY DEF Event
<1>2. created' \subseteq Brands
  BY DEF CreateBrand, IndInv, Shape
<1>3. /\ queue' = Append(queue, [kind |-> "brandCreated", of |-> b])
      /\ UNCHANGED <<hand, tables, history>> /\ sold' = sold
  BY DEF CreateBrand
<1> QED BY <1>1, <1>2, <1>3, ChainStep

LEMMA BuyKept ==
  ASSUME IndInv, NEW p \in Purchases, NEW b \in Brands, NEW n \in 1..Total, Buy(p, b, n)
  PROVE  IndInv'
<1>1. [kind |-> "bought", of |-> p] \in Event
  BY DEF Event
<1>2. p \notin DOMAIN sold /\ sold' = With(sold, p, [brand |-> b, amount |-> n])
  BY DEF Buy
<1>3. /\ \A q \in DOMAIN sold : q \in DOMAIN sold' /\ sold'[q] = sold[q]
      /\ p \in DOMAIN sold'
  BY <1>2 DEF With
<1>4. /\ queue' = Append(queue, [kind |-> "bought", of |-> p])
      /\ UNCHANGED <<hand, tables, history>> /\ created' \subseteq Brands
  BY DEF Buy, IndInv, Shape
<1> QED BY <1>1, <1>3, <1>4, ChainStep

-----------------------------------------------------------------------------
(* The consumer                                                              *)

LEMMA TakeKept ==
  ASSUME IndInv, NEW w \in Workers, Take(w) PROVE IndInv'
<1> DEFINE e == Head(queue)
           h == [pc |-> IF e.kind = "bought" THEN "find" ELSE "query", event |-> e]
<1>1. /\ At(w, "idle") /\ queue # <<>> /\ queue' = Tail(queue) /\ Now(w, h)
      /\ UNCHANGED <<created, sold, campaigns, tiers, orphans>>
  BY DEF Take, contract, tables, history
<1>2. queue \in Seq(Event) /\ Len(queue) \in Nat \ {0} /\ e = queue[1]
  BY <1>1 DEF IndInv, Shape
<1>3. e \in Event /\ Happened(e)
  BY <1>2 DEF IndInv, Shape
<1>4. /\ queue' \in Seq(Event) /\ Len(queue') = Len(queue) - 1
      /\ \A i \in 1..Len(queue') : queue'[i] = queue[i + 1]
  BY <1>1, <1>2
<1>5. (\A i \in 1..Len(queue) : Happened(queue[i]))'
  <2> SUFFICES ASSUME NEW i \in 1..Len(queue') PROVE Happened(queue[i])'
    OBVIOUS
  <2>1. Happened(queue[i + 1])
    BY <1>2, <1>4 DEF IndInv, Shape
  <2> QED BY <1>1, <1>4, <2>1 DEF Happened
<1>6. hand'[w] = h
  BY <1>1, HandFacts DEF IndInv, Shape
<1>7. HandOK(w)'
  BY <1>1, <1>3, <1>6 DEF HandOK, Happened
<1>8. ~At(w, "write")' /\ \A b : ~Saves(w, b)
  BY <1>1, <1>6 DEF At, Saves
<1>9. h.pc # "tier"
  OBVIOUS
<1> HIDE DEF h
<1> QED BY <1>1, <1>4, <1>5, <1>7, <1>8, <1>9, PlainStep

LEMMA AckKept ==
  ASSUME IndInv, NEW w \in Workers, Ack(w) PROVE IndInv'
<1>1. /\ At(w, "ack") /\ Now(w, [pc |-> "idle"])
      /\ UNCHANGED <<contract, queue, tables, orphans>>
  BY DEF Ack, history
<1>2. HandOK(w)'
  BY <1>1, HandFacts, IdleIsOK DEF IndInv, Shape
<1>3. \A b : ~Saves(w, b)
  BY <1>1 DEF At, Saves
<1> QED BY <1>1, <1>2, <1>3, HandStep

LEMMA QueryKept ==
  ASSUME IndInv, NEW w \in Workers, Query(w) PROVE IndInv'
<1> DEFINE shown == {[brand |-> b, with |-> Of(b)] : b \in created}
           h == [pc |-> "save", event |-> hand[w].event, list |-> shown]
<1>1. /\ At(w, "query") /\ Now(w, h)
      /\ UNCHANGED <<contract, queue, tables, orphans>>
  BY DEF Query, history
<1>2. \A s \in shown : s.brand \in Brands
  BY DEF IndInv, Shape
<1>3. h.pc = "save" /\ h.event = hand[w].event /\ h.list = shown
  OBVIOUS
<1>4. hand[w].pc = "query" /\ UNCHANGED sold
  BY <1>1 DEF At, contract
<1> HIDE DEF h, shown
<1>5. HandOK(w)'
  BY <1>1, <1>2, <1>3, <1>4, HandStays
<1>6. \A b : ~Saves(w, b)
  BY <1>4 DEF At, Saves
<1> QED BY <1>1, <1>3, <1>5, <1>6, HandStep

\* A campaign the table has: the loop goes on.
LEMMA SaveKnownKept ==
  ASSUME IndInv, NEW w \in Workers, At(w, "save"), NEW s \in hand[w].list,
         Now(w, [pc |-> "save", event |-> hand[w].event, list |-> hand[w].list \ {s}]),
         UNCHANGED <<contract, queue, tables, orphans>>
  PROVE  IndInv'
<1> DEFINE h == [pc |-> "save", event |-> hand[w].event, list |-> hand[w].list \ {s}]
<1>1. \A x \in hand[w].list \ {s} : x.brand \in Brands
  BY DEF IndInv, Shape, HandOK, At
<1>2. h.pc = "save" /\ h.event = hand[w].event /\ h.list = hand[w].list \ {s}
  OBVIOUS
<1>3. hand[w].pc = "save" /\ UNCHANGED sold /\ Now(w, h)
  BY DEF At, contract
<1> HIDE DEF h
<1>4. HandOK(w)'
  BY <1>1, <1>2, <1>3, HandStays
<1>5. \A b : ~Saves(w, b)
  BY <1>3 DEF At, Saves
<1> QED BY <1>2, <1>3, <1>4, <1>5, HandStep

\* A campaign the table does not have: nobody else saves it or has its tier.
LEMMA SaveNewKept ==
  ASSUME IndInv, NEW w \in Workers, At(w, "save"), NEW s \in hand[w].list,
         s.brand \notin campaigns, campaigns' = campaigns \cup {s.brand},
         Now(w, [pc |-> "tier", event |-> hand[w].event, list |-> hand[w].list \ {s},
                 one |-> s]),
         UNCHANGED <<contract, queue, tiers, orphans>>
  PROVE  IndInv'
<1> DEFINE h == [pc |-> "tier", event |-> hand[w].event, list |-> hand[w].list \ {s},
                 one |-> s]
<1>1. /\ \A x \in hand[w].list \ {s} : x.brand \in Brands
      /\ s.brand \in Brands
  BY DEF IndInv, Shape, HandOK, At
<1>2. /\ h.pc = "tier" /\ h.event = hand[w].event /\ h.list = hand[w].list \ {s}
      /\ h.one = s
  OBVIOUS
<1>3. /\ hand[w].pc = "save" /\ Now(w, h)
      /\ UNCHANGED <<created, sold, queue, tiers, orphans>>
  BY DEF At, contract
<1> HIDE DEF h
<1>4. HandOK(w)'
  BY <1>1, <1>2, <1>3, HandStays
<1>5. /\ hand' = [v \in Workers |-> hand'[v]] /\ hand'[w] = h
      /\ \A v \in Workers : v # w => hand'[v] = hand[v]
  BY <1>3, HandFacts DEF IndInv, Shape
<1>6. ~At(w, "write")'
  BY <1>2, <1>5 DEF At
<1>7. queue' \in Seq(Event) /\ (\A i \in 1..Len(queue) : Happened(queue[i]))'
  BY <1>3 DEF IndInv, Shape, Happened
<1>8. DOMAIN tiers' \subseteq campaigns' /\ campaigns' \subseteq Brands /\ created' \subseteq Brands
  BY <1>1, <1>3 DEF IndInv, TiersKnown, Shape
<1>9. Shape' /\ TiersKnown'
  BY <1>3, <1>4, <1>5, <1>6, <1>7, <1>8, RestKept DEF IndInv
<1>10. EveryCampaignHasTier'
  <2>1. \A v \in Workers, b \in Brands : v # w => (Saves(v, b)' <=> Saves(v, b))
    BY <1>5 DEF Saves, At
  <2>2. /\ \A b : Saves(w, b)' <=> b = s.brand
        /\ \A b : ~Saves(w, b)
    BY <1>2, <1>3, <1>5 DEF Saves, At
  <2>3. s.brand \notin DOMAIN tiers /\ \A v \in Workers : ~Saves(v, s.brand)
    BY <1>1 DEF IndInv, TiersKnown, EveryCampaignHasTier
  <2>4. ASSUME NEW b \in campaigns'
        PROVE  b \in DOMAIN tiers' \/ b \in orphans' \/ \E v \in Workers : Saves(v, b)'
    <3>1. CASE b = s.brand
      BY <2>2, <3>1
    <3>2. CASE b \in campaigns
      <4>1. b \in Brands
        BY <3>2 DEF IndInv, Shape
      <4> QED BY <1>3, <2>1, <2>2, <3>2, <4>1 DEF IndInv, EveryCampaignHasTier
    <3> QED BY <3>1, <3>2
  <2>5. ASSUME NEW v \in Workers, NEW b \in Brands, Saves(v, b)'
        PROVE  /\ b \in campaigns' /\ b \notin DOMAIN tiers'
               /\ \A u \in Workers : Saves(u, b)' => u = v
    <3>1. CASE v = w
      BY <1>3, <2>1, <2>2, <2>3, <2>5, <3>1
    <3>2. CASE v # w
      <4>1. Saves(v, b) /\ b # s.brand
        BY <2>1, <2>3, <2>5, <3>2
      <4> QED BY <1>3, <2>1, <2>2, <4>1 DEF IndInv, EveryCampaignHasTier
    <3> QED BY <3>1, <3>2
  <2> QED BY <2>4, <2>5 DEF EveryCampaignHasTier
<1> QED BY <1>9, <1>10 DEF IndInv

LEMMA SaveCampaignKept ==
  ASSUME IndInv, NEW w \in Workers, SaveCampaign(w) PROVE IndInv'
<1>1. At(w, "save") /\ UNCHANGED <<contract, queue, tiers, orphans>>
  BY DEF SaveCampaign, history
<1>2. PICK s \in hand[w].list :
        /\ campaigns' = IF Known(s) THEN campaigns ELSE campaigns \cup {s.brand}
        /\ Now(w, IF Known(s)
                  THEN [pc |-> "save", event |-> hand[w].event, list |-> hand[w].list \ {s}]
                  ELSE [pc |-> "tier", event |-> hand[w].event, list |-> hand[w].list \ {s},
                        one |-> s])
  BY DEF SaveCampaign, RowOf, Others
<1>3. CASE Known(s)
  <2>1. Now(w, [pc |-> "save", event |-> hand[w].event, list |-> hand[w].list \ {s}])
    BY <1>2, <1>3
  <2>2. UNCHANGED <<contract, queue, tables, orphans>>
    BY <1>1, <1>2, <1>3 DEF tables
  <2> QED BY <1>1, <2>1, <2>2, SaveKnownKept
<1>4. CASE ~Known(s)
  <2>1. s.brand \notin campaigns /\ campaigns' = campaigns \cup {s.brand}
    BY <1>2, <1>4 DEF Known
  <2>2. Now(w, [pc |-> "tier", event |-> hand[w].event, list |-> hand[w].list \ {s},
                one |-> s])
    BY <1>2, <1>4
  <2> QED BY <1>1, <2>1, <2>2, SaveNewKept
<1> QED BY <1>3, <1>4

LEMMA SaveTierKept ==
  ASSUME IndInv, NEW w \in Workers, SaveTier(w) PROVE IndInv'
<1> DEFINE s == hand[w].one
           h == [pc |-> "save", event |-> hand[w].event, list |-> hand[w].list]
<1>1. /\ hand[w].pc = "tier" /\ Now(w, h)
      /\ tiers' = With(tiers, s.brand, LeftWithout(s.with))
      /\ UNCHANGED <<created, sold, queue, campaigns, orphans>>
  BY DEF SaveTier, At, contract
<1>2. h.pc = "save" /\ h.event = hand[w].event /\ h.list = hand[w].list
  OBVIOUS
<1>3. (\A x \in hand[w].list : x.brand \in Brands) /\ s.brand \in Brands
  BY <1>1 DEF IndInv, Shape, HandOK
<1>4. DOMAIN tiers' = DOMAIN tiers \cup {s.brand}
  BY <1>1 DEF With
<1>5. \A b : Saves(w, b) <=> b = s.brand
  BY <1>1 DEF Saves, At
<1> HIDE DEF h, s
<1>6. HandOK(w)'
  BY <1>1, <1>2, <1>3, HandStays
<1>7. ~At(w, "write")'
  BY <1>1, <1>2, HandFacts DEF At, IndInv, Shape
<1>8. queue' \in Seq(Event) /\ (\A i \in 1..Len(queue) : Happened(queue[i]))'
  BY <1>1 DEF IndInv, Shape, Happened
<1> QED BY <1>1, <1>2, <1>3, <1>4, <1>5, <1>6, <1>7, <1>8, PlainStep

\* The handler goes on to pc with the event it has.
LEMMA StaysKept ==
  ASSUME IndInv, NEW w \in Workers, NEW pc \in {"read", "ack"}, Stays(w, pc),
         hand[w].pc \notin {"idle", "tier"},
         pc = "read" => hand[w].event.kind = "bought",
         UNCHANGED <<contract, queue, tables, orphans>>
  PROVE  IndInv'
<1> DEFINE h == [pc |-> pc, event |-> hand[w].event]
<1>1. h.pc = pc /\ h.event = hand[w].event /\ Now(w, h) /\ UNCHANGED sold
  BY DEF Stays, contract
<1> HIDE DEF h
<1>2. HandOK(w)'
  BY <1>1, HandStays
<1>3. \A b : ~Saves(w, b)
  BY DEF Saves, At
<1> QED BY <1>1, <1>2, <1>3, HandStep

\* The handler gives the event up, and leaves what it was about to save.
LEMMA DiesKept ==
  ASSUME IndInv, NEW w \in Workers, Now(w, [pc |-> "idle"]),
         UNCHANGED <<contract, queue, tables>>, orphans \subseteq orphans',
         \A b \in campaigns : Saves(w, b) => b \in orphans'
  PROVE  IndInv'
<1>1. HandOK(w)'
  BY HandFacts, IdleIsOK DEF IndInv, Shape
<1> QED BY <1>1, HandStep

LEMMA SavedKept ==
  ASSUME IndInv, NEW w \in Workers, Saved(w) PROVE IndInv'
<1>1. /\ hand[w].pc = "save" /\ Stays(w, "ack")
      /\ UNCHANGED <<contract, queue, tables, orphans>>
  BY DEF Saved, At, history
<1> QED BY <1>1, StaysKept

LEMMA FindKept ==
  ASSUME IndInv, NEW w \in Workers, Find(w) PROVE IndInv'
<1>1. hand[w].pc = "find" /\ UNCHANGED <<contract, queue, tables, orphans>>
  BY DEF Find, At, history
<1>2. hand[w].event.kind = "bought" /\ \A b : ~Saves(w, b)
  BY <1>1 DEF IndInv, Shape, HandOK, Saves, At
<1>3. CASE Purchase(w).brand \in campaigns
  <2>1. Stays(w, "read")
    BY <1>3 DEF Find
  <2> QED BY <1>1, <1>2, <2>1, StaysKept
<1>4. CASE Purchase(w).brand \notin campaigns
  <2>1. Now(w, [pc |-> "idle"])
    BY <1>4 DEF Find, Dies
  <2> QED BY <1>1, <1>2, <2>1, DiesKept
<1> QED BY <1>3, <1>4

LEMMA ReadKept ==
  ASSUME IndInv, NEW w \in Workers, Read(w) PROVE IndInv'
<1> DEFINE b == Purchase(w).brand
           h == [pc |-> "write", event |-> hand[w].event, left |-> tiers[b]]
<1>1. hand[w].pc = "read" /\ UNCHANGED <<contract, queue, tables, orphans>>
  BY DEF Read, At, history
<1>2. hand[w].event.kind = "bought" /\ \A x : ~Saves(w, x)
  BY <1>1 DEF IndInv, Shape, HandOK, Saves, At
<1>3. CASE b \in DOMAIN tiers
  <2>1. Now(w, h) /\ h.pc = "write" /\ h.event = hand[w].event
    BY <1>3 DEF Read
  <2>2. UNCHANGED sold
    BY <1>1 DEF contract
  <2>3. hand'[w] = h
    BY <2>1, HandFacts DEF IndInv, Shape
  <2>4. Purchase(w)' = Purchase(w)
    BY <2>1, <2>2, <2>3 DEF Purchase
  <2> HIDE DEF h
  <2>5. HandOK(w)'
    BY <1>1, <1>2, <2>1, <2>2, HandStays
  <2> QED BY <1>1, <1>2, <1>3, <2>1, <2>4, <2>5, HandStep
<1>4. CASE b \notin DOMAIN tiers
  <2>1. Now(w, [pc |-> "idle"])
    BY <1>4 DEF Read, Dies
  <2> QED BY <1>1, <1>2, <2>1, DiesKept
<1> QED BY <1>3, <1>4

LEMMA WriteKept ==
  ASSUME IndInv, NEW w \in Workers, Write(w) PROVE IndInv'
<1> DEFINE b == Purchase(w).brand
           h == [pc |-> "ack", event |-> hand[w].event]
<1>1. /\ hand[w].pc = "write" /\ Now(w, h)
      /\ tiers' = With(tiers, b, Less(hand[w].left, Purchase(w).amount))
      /\ UNCHANGED <<created, sold, queue, campaigns, orphans>>
  BY DEF Write, At, Stays, contract
<1>2. b \in DOMAIN tiers
  BY <1>1 DEF IndInv, TiersKnown, At
<1>3. DOMAIN tiers' = DOMAIN tiers
  BY <1>1, <1>2 DEF With
<1>4. h.pc = "ack" /\ h.event = hand[w].event
  OBVIOUS
<1> HIDE DEF h
<1>5. HandOK(w)'
  BY <1>1, <1>4, HandStays
<1>6. ~At(w, "write")' /\ \A x : ~Saves(w, x)
  BY <1>1, <1>4, HandFacts DEF At, Saves, IndInv, Shape
<1>7. queue' \in Seq(Event) /\ (\A i \in 1..Len(queue) : Happened(queue[i]))'
  BY <1>1 DEF IndInv, Shape, Happened
<1> QED BY <1>1, <1>3, <1>4, <1>5, <1>6, <1>7, PlainStep

-----------------------------------------------------------------------------
(* Faults                                                                    *)

\* What a fault leaves without a tier is remembered.
LEMMA OrphanFacts ==
  ASSUME NEW w \in Workers, Orphan(w)
  PROVE  /\ orphans \subseteq orphans'
         /\ \A b : Saves(w, b) => b \in orphans'
  BY DEF Orphan, Saves

LEMMA CrashKept ==
  ASSUME IndInv, NEW w \in Workers, Crash(w) PROVE IndInv'
<1> DEFINE e == hand[w].event
<1>1. /\ ~At(w, "idle") /\ queue' = <<e>> \o queue /\ Now(w, [pc |-> "idle"])
      /\ UNCHANGED <<created, sold, campaigns, tiers>>
  BY DEF Crash, contract, tables
<1>2. orphans \subseteq orphans' /\ \A b : Saves(w, b) => b \in orphans'
  BY OrphanFacts DEF Crash
<1>3. e \in Event /\ Happened(e)
  BY <1>1 DEF IndInv, Shape, HandOK, At
<1>4. queue \in Seq(Event) /\ Len(queue) \in Nat
  BY DEF IndInv, Shape
<1>5. /\ queue' \in Seq(Event) /\ Len(queue') = Len(queue) + 1 /\ queue'[1] = e
      /\ \A i \in 2..Len(queue') : queue'[i] = queue[i - 1]
  <2>1. <<e>> \in Seq(Event) /\ Len(<<e>>) = 1 /\ <<e>>[1] = e
    BY <1>3
  <2> HIDE DEF e
  <2> QED BY <1>1, <1>4, <2>1
<1>6. (\A i \in 1..Len(queue) : Happened(queue[i]))'
  <2> SUFFICES ASSUME NEW i \in 1..Len(queue') PROVE Happened(queue[i])'
    OBVIOUS
  <2>1. CASE i = 1
    BY <1>1, <1>3, <1>5, <2>1 DEF Happened
  <2>2. CASE i # 1
    <3>1. i - 1 \in 1..Len(queue) /\ queue'[i] = queue[i - 1]
      BY <1>4, <1>5, <2>2
    <3> QED BY <1>1, <3>1 DEF Happened, IndInv, Shape
  <2> QED BY <2>1, <2>2
<1>7. hand'[w] = [pc |-> "idle"]
  BY <1>1, HandFacts DEF IndInv, Shape
<1>8. HandOK(w)' /\ ~At(w, "write")'
  BY <1>7, IdleIsOK DEF At
<1> QED BY <1>1, <1>2, <1>5, <1>6, <1>8, PlainStep

LEMMA CallFailsKept ==
  ASSUME IndInv, NEW w \in Workers, CallFails(w) PROVE IndInv'
<1>1. Now(w, [pc |-> "idle"]) /\ UNCHANGED <<contract, queue, tables>>
  BY DEF CallFails, Dies
<1>2. orphans \subseteq orphans' /\ \A b : Saves(w, b) => b \in orphans'
  BY OrphanFacts DEF CallFails
<1> QED BY <1>1, <1>2, DiesKept

-----------------------------------------------------------------------------
LEMMA NextKept == IndInv /\ [Next]_vars => IndInv'
<1> SUFFICES ASSUME IndInv, [Next]_vars PROVE IndInv'
  OBVIOUS
<1>1. CASE Chain
  BY <1>1, CreateBrandKept, BuyKept DEF Chain
<1>2. ASSUME NEW w \in Workers, Work(w) PROVE IndInv'
  BY <1>2, TakeKept, QueryKept, SaveCampaignKept, SaveTierKept, SavedKept, FindKept,
     ReadKept, WriteKept, AckKept DEF Work
<1>3. ASSUME NEW w \in Workers, Crash(w) \/ CallFails(w) PROVE IndInv'
  BY <1>3, CrashKept, CallFailsKept
<1>4. CASE UNCHANGED vars
  <2>1. UNCHANGED <<created, sold, queue, hand, campaigns, tiers, orphans>>
    BY <1>4 DEF vars, contract, tables, history
  <2>2. Shape'
    BY <2>1 DEF IndInv, Shape, HandOK, Happened
  <2>3. TiersKnown'
    BY <2>1 DEF IndInv, TiersKnown, At, Purchase
  <2>4. EveryCampaignHasTier'
    BY <2>1 DEF IndInv, EveryCampaignHasTier, Saves, At
  <2> QED BY <2>2, <2>3, <2>4 DEF IndInv
<1> QED BY <1>1, <1>2, <1>3, <1>4 DEF Next

\* However workers, restarts, failed calls and redeliveries interleave, a
\* campaign has its tier, or exactly one worker is about to save it, or a fault
\* came between the two saves (saveCampaign).
THEOREM TiersFollowCampaigns == Spec => []EveryCampaignHasTier
<1>1. Init => IndInv
  BY InitKept
<1>2. IndInv /\ [Next]_vars => IndInv'
  BY NextKept
<1>3. IndInv => EveryCampaignHasTier
  BY DEF IndInv
<1> QED BY <1>1, <1>2, <1>3, PTL DEF Spec

-----------------------------------------------------------------------------
(* Sums over finite sets.                                                  *)

Pick(s) == CHOOSE x \in s : TRUE

\* t has the sums of f over the subsets of S, as MapThenFoldSet builds them.
Sums(f, S, t) == t = [s \in SUBSET S |-> IF s = {} THEN 0 ELSE f[Pick(s)] + t[s \ {Pick(s)}]]
SumOf(f, S) == (CHOOSE t : Sums(f, S, t))[S]

LEMMA Smallest ==
  ASSUME NEW N \in SUBSET Nat, N # {}
  PROVE  \E m \in N : \A n \in N : m <= n
<1>1. PICK m \in N : \A n \in N : ~(<<n, m>> \in OpToRel(<, Nat))
  BY NatLessThanWellFounded, WFMin
<1>2. \A n \in N : ~(n < m)
  BY <1>1 DEF OpToRel
<1> QED BY <1>2

LEMMA PickIn == ASSUME NEW s, s # {} PROVE Pick(s) \in s
  BY DEF Pick

\* A subset without one of its elements is smaller.
LEMMA Smaller ==
  ASSUME NEW S, IsFiniteSet(S), NEW s \in SUBSET S
  PROVE  /\ IsFiniteSet(s) /\ Cardinality(s) \in Nat /\ Cardinality(s) <= Cardinality(S)
         /\ Cardinality(s) = 0 <=> s = {}
         /\ \A x \in s : /\ s \ {x} \in SUBSET S /\ Cardinality(s \ {x}) = Cardinality(s) - 1
<1>1. IsFiniteSet(s) /\ Cardinality(s) <= Cardinality(S)
  BY FS_Subset
<1>2. Cardinality(s) \in Nat /\ (Cardinality(s) = 0 <=> s = {})
  BY <1>1, FS_CardinalityType, FS_EmptySet
<1>3. ASSUME NEW x \in s PROVE Cardinality(s \ {x}) = Cardinality(s) - 1
  BY <1>1, FS_RemoveElement
<1> QED BY <1>1, <1>2, <1>3

LEMMA SumExists ==
  ASSUME NEW f, NEW S, IsFiniteSet(S)
  PROVE  \E t : Sums(f, S, t)
<1> DEFINE Eq(t, s) == t[s] = IF s = {} THEN 0 ELSE f[Pick(s)] + t[s \ {Pick(s)}]
           Fun(t) == t = [s \in SUBSET S |-> t[s]]
           Upto(t, n) == \A s \in SUBSET S : Cardinality(s) <= n => Eq(t, s)
           Bad == {n \in Nat : ~\E t : Fun(t) /\ Upto(t, n)}
<1>1. Bad = {}
  <2> SUFFICES ASSUME Bad # {} PROVE FALSE
    OBVIOUS
  <2>1. PICK m \in Bad : \A n \in Bad : m <= n
    <3>1. Bad \in SUBSET Nat
      OBVIOUS
    <3> HIDE DEF Bad
    <3> QED BY <3>1, Smallest
  <2>2. CASE m = 0
    <3> DEFINE t == [s \in SUBSET S |-> 0]
    <3>1. Fun(t)
      OBVIOUS
    <3>2. ASSUME NEW s \in SUBSET S, Cardinality(s) <= 0 PROVE Eq(t, s)
      <4>1. s = {}
        BY <3>2, Smaller
      <4> QED BY <4>1
    <3> QED BY <2>1, <2>2, <3>1, <3>2
  <2>3. CASE m # 0
    <3>1. m \in Nat /\ m - 1 \in Nat /\ m - 1 \notin Bad
      <4>1. m \in Nat
        OBVIOUS
      <4> HIDE DEF Bad
      <4> QED BY <2>1, <2>3, <4>1
    <3>2. PICK t : Fun(t) /\ Upto(t, m - 1)
      BY <3>1
    <3> DEFINE u == [s \in SUBSET S |-> IF Cardinality(s) <= m - 1 THEN t[s]
                                        ELSE f[Pick(s)] + t[s \ {Pick(s)}]]
    <3>3. Fun(u)
      OBVIOUS
    <3>4. ASSUME NEW s \in SUBSET S, Cardinality(s) <= m PROVE Eq(u, s)
      <4>1. CASE s = {}
        <5>1. Cardinality(s) <= m - 1
          BY <3>1, <4>1, FS_EmptySet
        <5> QED BY <3>2, <4>1, <5>1
      <4>2. CASE s # {}
        <5> DEFINE r == s \ {Pick(s)}
        <5>1. r \in SUBSET S /\ Cardinality(r) = Cardinality(s) - 1 /\ Cardinality(s) \in Nat
          BY <4>2, PickIn, Smaller
        <5>2. Cardinality(r) <= m - 1
          BY <3>1, <3>4, <5>1
        <5>3. u[r] = t[r]
          BY <5>1, <5>2
        <5>4. u[s] = f[Pick(s)] + t[r]
          BY <3>2, <4>2
        <5> QED BY <4>2, <5>3, <5>4
      <4> QED BY <4>1, <4>2
    <3> HIDE DEF u
    <3> QED BY <2>1, <3>1, <3>3, <3>4
  <2> QED BY <2>2, <2>3
<1>2. Cardinality(S) \in Nat
  BY FS_CardinalityType
<1>3. PICK t : Fun(t) /\ Upto(t, Cardinality(S))
  BY <1>1, <1>2
<1>4. \A s \in SUBSET S : Eq(t, s)
  BY <1>3, Smaller
<1> QED BY <1>3, <1>4 DEF Sums

\* Two such functions agree wherever both are defined, if f is the same there.
LEMMA SumUnique ==
  ASSUME NEW f, NEW g, NEW S, IsFiniteSet(S), NEW R \in SUBSET S,
         NEW t, NEW u, Sums(f, S, t), Sums(g, R, u),
         \A x \in R : f[x] = g[x]
  PROVE  t[R] = u[R]
<1> DEFINE Bad == {n \in Nat : \E s \in SUBSET R : Cardinality(s) = n /\ t[s] # u[s]}
<1>1. Bad = {}
  <2> SUFFICES ASSUME Bad # {} PROVE FALSE
    OBVIOUS
  <2>1. PICK m \in Bad : \A n \in Bad : m <= n
    <3>1. Bad \in SUBSET Nat
      OBVIOUS
    <3> HIDE DEF Bad
    <3> QED BY <3>1, Smallest
  <2>2. PICK s \in SUBSET R : Cardinality(s) = m /\ t[s] # u[s]
    BY <2>1
  <2>3. /\ t[s] = IF s = {} THEN 0 ELSE f[Pick(s)] + t[s \ {Pick(s)}]
        /\ u[s] = IF s = {} THEN 0 ELSE g[Pick(s)] + u[s \ {Pick(s)}]
    <3>1. s \in SUBSET S /\ s \in SUBSET R
      OBVIOUS
    <3> QED BY <3>1 DEF Sums
  <2>4. s # {}
    BY <2>2, <2>3
  <2>5. Pick(s) \in s /\ Cardinality(s \ {Pick(s)}) = m - 1 /\ m - 1 \in Nat
    <3>1. Pick(s) \in s
      BY <2>4, PickIn
    <3>2. Cardinality(s) # 0 /\ Cardinality(s \ {Pick(s)}) = Cardinality(s) - 1
      BY <2>4, <3>1, Smaller
    <3> QED BY <2>1, <2>2, <3>1, <3>2
  <2>6. m - 1 \notin Bad
    BY <2>1, <2>5
  <2>7. t[s \ {Pick(s)}] = u[s \ {Pick(s)}]
    BY <2>5, <2>6
  <2> QED BY <2>2, <2>3, <2>4, <2>5, <2>7
<1>2. Cardinality(R) \in Nat
  BY Smaller
<1> QED BY <1>1, <1>2

LEMMA SumIs ==
  ASSUME NEW f, NEW g, NEW S, IsFiniteSet(S), NEW R \in SUBSET S,
         NEW t, Sums(f, S, t), \A x \in R : f[x] = g[x]
  PROVE  t[R] = SumOf(g, R)
<1>1. IsFiniteSet(R)
  BY FS_Subset
<1>2. Sums(g, R, CHOOSE u : Sums(g, R, u))
  BY <1>1, SumExists
<1> DEFINE u == CHOOSE u : Sums(g, R, u)
<1>3. Sums(g, R, u)
  BY <1>2
<1> HIDE DEF u
<1>4. t[R] = u[R]
  BY <1>3, SumUnique
<1> QED BY <1>4 DEF SumOf, u

LEMMA SumAll ==
  ASSUME NEW f, NEW S, IsFiniteSet(S), NEW t, Sums(f, S, t)
  PROVE  t[S] = SumOf(f, S)
<1> DEFINE g == f
           R == S
<1>1. R \in SUBSET S /\ \A x \in R : f[x] = g[x]
  OBVIOUS
<1> HIDE DEF g, R
<1>2. t[R] = SumOf(g, R)
  BY <1>1, SumIs
<1> QED BY <1>2 DEF g, R

LEMMA SumSame ==
  ASSUME NEW f, NEW g, NEW S, IsFiniteSet(S), \A x \in S : f[x] = g[x]
  PROVE  SumOf(f, S) = SumOf(g, S)
<1>1. PICK t : Sums(f, S, t)
  BY SumExists
<1>2. SumOf(f, S) = t[S] /\ SumOf(g, S) = t[S]
  BY <1>1, SumIs
<1> QED BY <1>2

\* One element more.
LEMMA SumSplit ==
  ASSUME NEW f, NEW S, IsFiniteSet(S), \A x \in S : f[x] \in Int
  PROVE  /\ SumOf(f, S) \in Int
         /\ SumOf(f, {}) = 0
         /\ \A x \in S : SumOf(f, S) = f[x] + SumOf(f, S \ {x})
<1>1. PICK t : Sums(f, S, t)
  BY SumExists
<1>2. \A s \in SUBSET S : t[s] = SumOf(f, s)
  BY <1>1, SumIs
<1>3. t[{}] = 0 /\ \A s \in SUBSET S : s # {} => t[s] = f[Pick(s)] + t[s \ {Pick(s)}]
  BY <1>1 DEF Sums
<1> DEFINE Ok(s) == t[s] \in Int /\ \A x \in s : t[s] = f[x] + t[s \ {x}]
           Bad == {n \in Nat : \E s \in SUBSET S : Cardinality(s) = n /\ ~Ok(s)}
<1>4. Bad = {}
  <2> SUFFICES ASSUME Bad # {} PROVE FALSE
    OBVIOUS
  <2>1. PICK m \in Bad : \A n \in Bad : m <= n
    <3>1. Bad \in SUBSET Nat
      OBVIOUS
    <3> HIDE DEF Bad
    <3> QED BY <3>1, Smallest
  <2>2. PICK s \in SUBSET S : Cardinality(s) = m /\ ~Ok(s)
    BY <2>1
  <2>3. s # {}
    <3>1. s = {} => Ok(s)
      BY <1>3
    <3> HIDE DEF Ok
    <3> QED BY <2>2, <3>1
  <2> DEFINE c == Pick(s)
  <2>4. c \in s
    BY <2>3, PickIn
  <2>5. \A r \in SUBSET S : Cardinality(r) \in Nat /\ Cardinality(r) < m => Ok(r)
    BY <2>1
  <2>6. \A x \in s : /\ s \ {x} \in SUBSET S
                     /\ Cardinality(s \ {x}) = m - 1 /\ Cardinality(s \ {x}) \in Nat
    BY <2>2, Smaller
  <2>7. \A x \in s : Ok(s \ {x})
    BY <2>1, <2>5, <2>6
  <2>8. t[s] = f[c] + t[s \ {c}]
    BY <1>3, <2>3
  <2>9. t[s] \in Int
    <3>1. f[c] \in Int /\ t[s \ {c}] \in Int
      BY <2>4, <2>7
    <3> QED BY <2>8, <3>1
  <2>10. ASSUME NEW x \in s PROVE t[s] = f[x] + t[s \ {x}]
    <3>1. CASE x = c
      BY <2>8, <3>1
    <3>2. CASE x # c
      <4>1. t[s \ {c}] = f[x] + t[(s \ {c}) \ {x}]
        BY <2>4, <2>7, <3>2
      <4>2. t[s \ {x}] = f[c] + t[(s \ {x}) \ {c}]
        BY <2>4, <2>7, <3>2
      <4>3. (s \ {c}) \ {x} = (s \ {x}) \ {c}
        OBVIOUS
      <4>4. t[(s \ {c}) \ {x}] \in Int
        <5>1. (s \ {c}) \ {x} \in SUBSET S
          OBVIOUS
        <5>2. /\ Cardinality((s \ {c}) \ {x}) = m - 2 /\ Cardinality((s \ {c}) \ {x}) \in Nat
          <6>1. s \ {c} \in SUBSET S /\ x \in s \ {c} /\ Cardinality(s \ {c}) = m - 1
            BY <2>4, <2>6, <3>2
          <6>2. Cardinality((s \ {c}) \ {x}) = Cardinality(s \ {c}) - 1
            <7> DEFINE r == s \ {c}
            <7>1. r \in SUBSET S /\ x \in r
              BY <6>1
            <7> HIDE DEF r
            <7>2. Cardinality(r \ {x}) = Cardinality(r) - 1
              BY <7>1, Smaller
            <7> QED BY <7>2 DEF r
          <6>3. Cardinality((s \ {c}) \ {x}) \in Nat
            BY <5>1, Smaller
          <6> QED BY <2>1, <6>1, <6>2, <6>3
        <5> QED BY <2>1, <2>5, <5>1, <5>2
      <4>5. f[x] \in Int /\ f[c] \in Int
        BY <2>4
      <4> DEFINE A == t[(s \ {c}) \ {x}]
                 B == t[s \ {c}]
                 C == t[s \ {x}]
      <4>6. B = f[x] + A /\ C = f[c] + A /\ A \in Int /\ t[s] = f[c] + B
        BY <2>8, <4>1, <4>2, <4>3, <4>4
      <4> HIDE DEF c, Ok, A, B
      <4>7. t[s] = f[x] + C
        BY <4>5, <4>6
      <4> QED BY <4>7
    <3> QED BY <3>1, <3>2
  <2> QED BY <2>2, <2>9, <2>10
<1>5. /\ Ok(S) /\ t[S] = SumOf(f, S) /\ t[{}] = SumOf(f, {})
      /\ \A x \in S : t[S \ {x}] = SumOf(f, S \ {x})
  <2>1. Cardinality(S) \in Nat
    BY FS_CardinalityType
  <2> QED BY <1>2, <1>4, <2>1
<1> QED BY <1>3, <1>5

LEMMA EmptySum ==
  ASSUME NEW f PROVE SumOf(f, {}) = 0
<1>1. IsFiniteSet({}) /\ \A x \in {} : f[x] \in Int
  BY FS_EmptySet
<1> QED BY <1>1, SumSplit

\* A sum of natural numbers is one.
LEMMA SumNat ==
  ASSUME NEW f, NEW S, IsFiniteSet(S), \A x \in S : f[x] \in Nat
  PROVE  SumOf(f, S) \in Nat
<1> DEFINE Bad == {n \in Nat : \E s \in SUBSET S : Cardinality(s) = n /\ SumOf(f, s) \notin Nat}
<1>1. Bad = {}
  <2> SUFFICES ASSUME Bad # {} PROVE FALSE
    OBVIOUS
  <2>1. PICK m \in Bad : \A n \in Bad : m <= n
    <3>1. Bad \in SUBSET Nat
      OBVIOUS
    <3> HIDE DEF Bad
    <3> QED BY <3>1, Smallest
  <2>2. PICK s \in SUBSET S : Cardinality(s) = m /\ SumOf(f, s) \notin Nat
    BY <2>1
  <2>3. IsFiniteSet(s) /\ \A x \in s : f[x] \in Int
    BY FS_Subset
  <2>4. /\ SumOf(f, s) \in Int /\ SumOf(f, {}) = 0
        /\ \A x \in s : SumOf(f, s) = f[x] + SumOf(f, s \ {x})
    BY <2>3, SumSplit
  <2>5. PICK x \in s : TRUE
    BY <2>2, <2>4
  <2>6. s \ {x} \in SUBSET S /\ Cardinality(s \ {x}) = m - 1 /\ m - 1 \in Nat
    <3>1. Cardinality(s) # 0 /\ Cardinality(s \ {x}) = Cardinality(s) - 1
      BY Smaller
    <3> QED BY <2>1, <2>2, <3>1
  <2>7. m - 1 \notin Bad
    BY <2>1, <2>6
  <2>8. SumOf(f, s \ {x}) \in Nat
    BY <2>6, <2>7
  <2>9. f[x] \in Nat /\ SumOf(f, s) = f[x] + SumOf(f, s \ {x})
    BY <2>4, <2>5
  <2> QED BY <2>2, <2>8, <2>9
<1>2. Cardinality(S) \in Nat /\ S \in SUBSET S
  BY Smaller
<1> QED BY <1>1, <1>2

-----------------------------------------------------------------------------
(* What the tiers say is left.                                             *)

\* What is left of a brand when the purchases ps of the sales g are taken off.
LeftOf(g, ps) == Total - MapThenSumSet(LAMBDA p : g[p].amount, ps)

LEMMA LeftIs ==
  ASSUME NEW g, NEW ps \in SUBSET DOMAIN g, IsFiniteSet(ps)
  PROVE  LeftOf(g, ps) = Total - SumOf([p \in DOMAIN g |-> g[p].amount], ps)
<1> DEFINE f == [p \in DOMAIN g |-> g[p].amount]
           As(t) == t = [s \in SUBSET ps |->
                           IF s = {} THEN 0
                           ELSE g[CHOOSE x \in s : TRUE].amount + t[s \ {CHOOSE x \in s : TRUE}]]
           c == CHOOSE t : As(t)
<1>1. LeftOf(g, ps) = Total - c[ps]
  BY DEF LeftOf, MapThenSumSet, MapThenFoldSet
<1>2. PICK t : Sums(f, ps, t)
  BY SumExists
<1>3. \A s \in SUBSET ps : s # {} => f[Pick(s)] = g[Pick(s)].amount
  BY PickIn
<1>4. As(t)
  <2>1. t = [s \in SUBSET ps |-> IF s = {} THEN 0 ELSE f[Pick(s)] + t[s \ {Pick(s)}]]
    BY <1>2 DEF Sums
  <2> HIDE DEF f
  <2>2. t = [s \in SUBSET ps |-> IF s = {} THEN 0 ELSE g[Pick(s)].amount + t[s \ {Pick(s)}]]
    BY <1>3, <2>1
  <2> QED BY <2>2 DEF Pick
<1>5. PICK u : As(u) /\ LeftOf(g, ps) = Total - u[ps]
  <2>1. As(c)
    <3> HIDE DEF As
    <3> QED BY <1>4
  <2> HIDE DEF As, c
  <2> QED BY <1>1, <2>1
<1>6. Sums(f, ps, u)
  <2>1. u = [s \in SUBSET ps |-> IF s = {} THEN 0 ELSE g[Pick(s)].amount + u[s \ {Pick(s)}]]
    BY <1>5 DEF Pick
  <2> HIDE DEF f
  <2>2. u = [s \in SUBSET ps |-> IF s = {} THEN 0 ELSE f[Pick(s)] + u[s \ {Pick(s)}]]
    BY <1>3, <2>1
  <2> QED BY <2>2 DEF Sums
<1> HIDE DEF f
<1>7. u[ps] = SumOf(f, ps)
  BY <1>6, SumAll
<1> QED BY <1>5, <1>7 DEF f

-----------------------------------------------------------------------------
(* Types, and whose events the workers handle.                             *)

\* The list a worker saves is a brand's, and of purchases made before.
HandBooked(w) ==
    /\ hand[w] \in Hand
    /\ hand[w].pc \in {"query", "save", "tier"} => hand[w].event.kind = "brandCreated"
    /\ hand[w].pc \in {"save", "tier"} => \A s \in hand[w].list : s.with \subseteq DOMAIN sold
    /\ hand[w].pc = "tier" => hand[w].one.with \subseteq DOMAIN sold

SoldTyped ==
    /\ IsFiniteSet(DOMAIN sold)
    /\ DOMAIN sold \subseteq Purchases
    /\ sold \in [DOMAIN sold -> [brand : Brands, amount : 1..Total]]

TablesTyped ==
    /\ DOMAIN tiers \subseteq Brands /\ tiers \in [DOMAIN tiers -> Int]
    /\ faults \in 0..MaxFaults
    /\ orphans \subseteq Brands /\ early \subseteq Brands
    /\ again \subseteq Brands /\ stale \subseteq Brands

Typed ==
    /\ SoldTyped /\ TablesTyped
    /\ dead \subseteq Event /\ \A e \in dead : Happened(e)
    /\ \A w \in Workers : HandBooked(w)

LEMMA HandCases ==
  ASSUME NEW h \in Hand
  PROVE  /\ h.pc # "idle" => h.event \in Event
         /\ h.pc \in {"save", "tier"} => h.list \subseteq Shown
         /\ h.pc = "tier" => h.one \in Shown
         /\ h.pc = "write" => h.left \in Int
  BY DEF Hand

\* What is left is a number.
LEMMA LeftTyped ==
  ASSUME SoldTyped, NEW ps \in SUBSET DOMAIN sold
  PROVE  LeftWithout(ps) \in Int
<1> DEFINE f == [p \in DOMAIN sold |-> sold[p].amount]
<1>1. IsFiniteSet(ps)
  BY FS_Subset DEF SoldTyped
<1>2. LeftOf(sold, ps) = Total - SumOf(f, ps)
  BY <1>1, LeftIs
<1>3. LeftWithout(ps) = LeftOf(sold, ps)
  BY DEF LeftWithout, LeftOf
<1>4. \A p \in ps : f[p] \in Int
  BY DEF SoldTyped
<1> HIDE DEF f
<1>5. SumOf(f, ps) \in Int
  BY <1>1, <1>4, SumSplit
<1> QED BY <1>2, <1>3, <1>5, CampaignsAssumption

LEMMA TypedStep ==
  ASSUME Typed, Shape, NEW w \in Workers, NEW h, Now(w, h), UNCHANGED sold,
         dead' \subseteq Event, (\A e \in dead : Happened(e))',
         TablesTyped', HandBooked(w)'
  PROVE  Typed'
<1>1. \A v \in Workers : v # w => hand'[v] = hand[v]
  BY HandFacts DEF Shape
<1>2. \A v \in Workers : v # w => HandBooked(v)'
  BY <1>1 DEF Typed, HandBooked
<1>3. SoldTyped'
  BY DEF Typed, SoldTyped
<1>4. \A v \in Workers : HandBooked(v)'
  BY <1>2
<1> QED BY <1>3, <1>4 DEF Typed

LEMMA InitTyped == Init => Typed
<1> SUFFICES ASSUME Init PROVE Typed
  OBVIOUS
<1>1. DOMAIN sold = {}
  BY DEF Init
<1>2. SoldTyped
  BY <1>1, FS_EmptySet DEF Init, SoldTyped
<1>3. TablesTyped
  BY CampaignsAssumption DEF Init, TablesTyped
<1>4. \A w \in Workers : HandBooked(w)
  BY DEF Init, HandBooked, Hand
<1> QED BY <1>2, <1>3, <1>4 DEF Typed, Init

LEMMA BuyTyped ==
  ASSUME Typed, NEW p \in Purchases, NEW b \in Brands, NEW n \in 1..Total, Buy(p, b, n)
  PROVE  Typed'
<1>1. /\ sold' = With(sold, p, [brand |-> b, amount |-> n]) /\ p \notin DOMAIN sold
      /\ UNCHANGED <<hand, tiers, faults, dead, orphans, early, again, stale>>
  BY DEF Buy, tables, history
<1>2. DOMAIN sold' = DOMAIN sold \cup {p}
  BY <1>1 DEF With
<1>3. IsFiniteSet(DOMAIN sold')
  BY <1>2, FS_AddElement DEF Typed, SoldTyped
<1>4. SoldTyped'
  <2>1. \A q \in DOMAIN sold' : sold'[q] \in [brand : Brands, amount : 1..Total]
    BY <1>1 DEF With, Typed, SoldTyped
  <2>2. sold' = [q \in DOMAIN sold' |-> sold'[q]]
    BY <1>1 DEF With
  <2> QED BY <1>2, <1>3, <2>1, <2>2 DEF Typed, SoldTyped
<1>5. TablesTyped'
  BY <1>1 DEF Typed, TablesTyped
<1>6. \A w \in Workers : HandBooked(w)'
  BY <1>1, <1>2 DEF Typed, HandBooked
<1>7. dead' \subseteq Event /\ (\A e \in dead : Happened(e))'
  BY <1>1, <1>2 DEF Typed, Happened
<1> QED BY <1>4, <1>5, <1>6, <1>7 DEF Typed

\* A step that leaves what is typed alone, but for the hand of w.
LEMMA HandTypedStep ==
  ASSUME Typed, Shape, NEW w \in Workers, NEW h, Now(w, h), HandBooked(w)',
         UNCHANGED <<sold, tiers, faults, dead, early, again, stale>>,
         orphans' \subseteq Brands
  PROVE  Typed'
<1>1. TablesTyped'
  BY DEF Typed, TablesTyped
<1>2. dead' \subseteq Event /\ (\A e \in dead : Happened(e))'
  BY DEF Typed, Happened
<1> QED BY <1>1, <1>2, TypedStep

LEMMA TakeTyped ==
  ASSUME Typed, Shape, NEW w \in Workers, Take(w) PROVE Typed'
<1> DEFINE h == [pc |-> IF Head(queue).kind = "bought" THEN "find" ELSE "query",
                 event |-> Head(queue)]
<1>1. /\ Now(w, h) /\ queue # <<>>
      /\ UNCHANGED <<sold, tiers, faults, dead, orphans, early, again, stale>>
  BY DEF Take, contract, tables, history
<1>2. Head(queue) \in Event
  BY <1>1 DEF Shape
<1>3. hand'[w] = h
  BY <1>1, HandFacts DEF Shape
<1>4. HandBooked(w)'
  <2>1. h \in Hand
    BY <1>2 DEF Hand
  <2>2. h.pc = "query" => h.event.kind = "brandCreated"
    BY <1>2 DEF Event
  <2>3. h.pc \notin {"save", "tier"}
    OBVIOUS
  <2> HIDE DEF h
  <2> QED BY <1>3, <2>1, <2>2, <2>3 DEF HandBooked
<1>5. orphans' \subseteq Brands
  BY <1>1 DEF Typed, TablesTyped
<1> HIDE DEF h
<1> QED BY <1>1, <1>4, <1>5, HandTypedStep

\* The hand is idle, or waits with the event it has.
LEMMA StaysTyped ==
  ASSUME Typed, NEW w \in Workers, NEW h,
         \/ h = [pc |-> "idle"]
         \/ \E pc \in {"read", "ack"} : h = [pc |-> pc, event |-> hand[w].event] /\ ~At(w, "idle"),
         hand'[w] = h
  PROVE  HandBooked(w)'
<1>1. hand[w] \in Hand
  BY DEF Typed, HandBooked
<1>2. ~At(w, "idle") => hand[w].event \in Event
  BY <1>1, HandCases DEF At
<1>3. h \in Hand
  BY <1>2 DEF Hand
<1>4. h.pc \in {"idle", "read", "ack"}
  OBVIOUS
<1> QED BY <1>3, <1>4 DEF HandBooked

LEMMA AckTyped ==
  ASSUME Typed, Shape, NEW w \in Workers, Ack(w) PROVE Typed'
<1> DEFINE h == [pc |-> "idle"]
<1>1. /\ Now(w, h)
      /\ UNCHANGED <<sold, tiers, faults, dead, orphans, early, again, stale>>
  BY DEF Ack, contract, tables, history
<1>2. hand'[w] = h
  BY <1>1, HandFacts DEF Shape
<1>3. HandBooked(w)'
  BY <1>2, StaysTyped
<1>4. orphans' \subseteq Brands
  BY <1>1 DEF Typed, TablesTyped
<1> QED BY <1>1, <1>3, <1>4, HandTypedStep

LEMMA SavedTyped ==
  ASSUME Typed, Shape, NEW w \in Workers, Saved(w) PROVE Typed'
<1> DEFINE h == [pc |-> "ack", event |-> hand[w].event]
<1>1. /\ Now(w, h) /\ ~At(w, "idle")
      /\ UNCHANGED <<sold, tiers, faults, dead, orphans, early, again, stale>>
  BY DEF Saved, Stays, At, contract, tables, history
<1>2. hand'[w] = h
  BY <1>1, HandFacts DEF Shape
<1>3. HandBooked(w)'
  BY <1>1, <1>2, StaysTyped
<1>4. orphans' \subseteq Brands
  BY <1>1 DEF Typed, TablesTyped
<1> QED BY <1>1, <1>3, <1>4, HandTypedStep

LEMMA QueryTyped ==
  ASSUME Typed, Shape, NEW w \in Workers, Query(w) PROVE Typed'
<1> DEFINE l == {[brand |-> b, with |-> Of(b)] : b \in created}
           h == [pc |-> "save", event |-> hand[w].event, list |-> l]
<1>1. /\ Now(w, h) /\ hand[w].pc = "query"
      /\ UNCHANGED <<sold, tiers, faults, dead, orphans, early, again, stale>>
  BY DEF Query, At, contract, tables, history
<1>2. hand[w] \in Hand /\ hand[w].event.kind = "brandCreated"
  BY <1>1 DEF Typed, HandBooked
<1>3. hand[w].event \in Event
  BY <1>1, <1>2, HandCases
<1>4. \A b : Of(b) \subseteq DOMAIN sold
  BY DEF Of
<1>5. l \subseteq Shown /\ \A s \in l : s.with \subseteq DOMAIN sold
  BY <1>4 DEF Shown, Shape, Typed, SoldTyped
<1>6. hand'[w] = h
  BY <1>1, HandFacts DEF Shape
<1> HIDE DEF l
<1>7. h \in Hand /\ h.pc = "save" /\ h.list = l /\ h.event = hand[w].event
  BY <1>3, <1>5 DEF Hand
<1> HIDE DEF h
<1>8. HandBooked(w)'
  BY <1>1, <1>2, <1>5, <1>6, <1>7 DEF HandBooked
<1>9. orphans' \subseteq Brands
  BY <1>1 DEF Typed, TablesTyped
<1> QED BY <1>1, <1>8, <1>9, HandTypedStep

LEMMA SaveCampaignTyped ==
  ASSUME Typed, Shape, NEW w \in Workers, SaveCampaign(w) PROVE Typed'
<1>1. /\ hand[w].pc = "save"
      /\ UNCHANGED <<sold, tiers, faults, dead, orphans, early, again, stale>>
  BY DEF SaveCampaign, At, contract, history
<1>2. PICK s \in hand[w].list :
        Now(w, IF Known(s)
               THEN [pc |-> "save", event |-> hand[w].event, list |-> hand[w].list \ {s}]
               ELSE [pc |-> "tier", event |-> hand[w].event, list |-> hand[w].list \ {s},
                     one |-> s])
  BY DEF SaveCampaign, Others
<1> DEFINE h == IF Known(s)
                THEN [pc |-> "save", event |-> hand[w].event, list |-> hand[w].list \ {s}]
                ELSE [pc |-> "tier", event |-> hand[w].event, list |-> hand[w].list \ {s},
                      one |-> s]
<1>3. /\ hand[w] \in Hand /\ hand[w].event.kind = "brandCreated"
      /\ \A x \in hand[w].list : x.with \subseteq DOMAIN sold
  BY <1>1 DEF Typed, HandBooked
<1>4. hand[w].event \in Event /\ hand[w].list \subseteq Shown
  BY <1>1, <1>3, HandCases
<1>5. hand'[w] = h
  BY <1>2, HandFacts DEF Shape
<1>6. /\ h \in Hand /\ h.pc \in {"save", "tier"} /\ h.list = hand[w].list \ {s}
      /\ h.event = hand[w].event /\ (h.pc = "tier" => h.one = s)
  BY <1>4 DEF Hand
<1>7. Now(w, h)
  BY <1>2
<1> HIDE DEF h
<1>8. HandBooked(w)'
  BY <1>1, <1>3, <1>5, <1>6 DEF HandBooked
<1>9. orphans' \subseteq Brands
  BY <1>1 DEF Typed, TablesTyped
<1> QED BY <1>1, <1>7, <1>8, <1>9, HandTypedStep

LEMMA SaveTierTyped ==
  ASSUME Typed, Shape, NEW w \in Workers, SaveTier(w) PROVE Typed'
<1> DEFINE s == hand[w].one
           h == [pc |-> "save", event |-> hand[w].event, list |-> hand[w].list]
<1>1. /\ Now(w, h) /\ hand[w].pc = "tier"
      /\ tiers' = With(tiers, s.brand, LeftWithout(s.with))
      /\ early' = IF s.with = {} THEN early ELSE early \cup {s.brand}
      /\ UNCHANGED <<sold, faults, dead, orphans, again, stale>>
  BY DEF SaveTier, At, contract
<1>2. /\ hand[w] \in Hand /\ hand[w].event.kind = "brandCreated"
      /\ \A x \in hand[w].list : x.with \subseteq DOMAIN sold
      /\ s.with \subseteq DOMAIN sold
  BY <1>1 DEF Typed, HandBooked
<1>3. hand[w].event \in Event /\ hand[w].list \subseteq Shown /\ s.brand \in Brands
  BY <1>1, <1>2, HandCases DEF Shown
<1>4. LeftWithout(s.with) \in Int
  BY <1>2, LeftTyped DEF Typed
<1> HIDE DEF s
<1>5. hand'[w] = h
  BY <1>1, HandFacts DEF Shape
<1>6. HandBooked(w)'
  <2>1. h \in Hand /\ h.pc = "save" /\ h.list = hand[w].list /\ h.event = hand[w].event
    BY <1>3 DEF Hand
  <2> HIDE DEF h
  <2> QED BY <1>1, <1>2, <1>5, <2>1 DEF HandBooked
<1>7. TablesTyped'
  <2>1. DOMAIN tiers' \subseteq Brands /\ tiers' \in [DOMAIN tiers' -> Int]
    BY <1>1, <1>3, <1>4 DEF With, Typed, TablesTyped
  <2>2. early' \subseteq Brands
    BY <1>1, <1>3 DEF Typed, TablesTyped
  <2> QED BY <1>1, <2>1, <2>2 DEF Typed, TablesTyped
<1>8. dead' \subseteq Event /\ (\A e \in dead : Happened(e))'
  BY <1>1 DEF Typed, Happened
<1> HIDE DEF h
<1> QED BY <1>1, <1>6, <1>7, <1>8, TypedStep

\* The handler gives its event up.
LEMMA DiesTyped ==
  ASSUME Typed, Shape, NEW w \in Workers, ~At(w, "idle"), Dies(w),
         UNCHANGED <<sold, tiers, early, again, stale>>,
         faults' \in 0..MaxFaults, orphans' \subseteq Brands
  PROVE  Typed'
<1> DEFINE h == [pc |-> "idle"]
<1>1. Now(w, h) /\ dead' = dead \cup {hand[w].event}
  BY DEF Dies
<1>2. hand[w].event \in Event /\ Happened(hand[w].event)
  BY DEF Shape, HandOK, At
<1>3. hand'[w] = h
  BY <1>1, HandFacts DEF Shape
<1>4. HandBooked(w)'
  BY <1>3, StaysTyped
<1>5. TablesTyped'
  BY DEF Typed, TablesTyped
<1>6. dead' \subseteq Event /\ (\A e \in dead : Happened(e))'
  BY <1>1, <1>2 DEF Typed, Happened
<1> HIDE DEF h
<1> QED BY <1>1, <1>4, <1>5, <1>6, TypedStep

LEMMA FindTyped ==
  ASSUME Typed, Shape, NEW w \in Workers, Find(w) PROVE Typed'
<1>1. /\ ~At(w, "idle")
      /\ UNCHANGED <<sold, tiers, faults, orphans, early, again, stale>>
  BY DEF Find, At, contract, tables, history
<1>2. faults' \in 0..MaxFaults /\ orphans' \subseteq Brands
  BY <1>1 DEF Typed, TablesTyped
<1>3. CASE Purchase(w).brand \in campaigns
  <2> DEFINE h == [pc |-> "read", event |-> hand[w].event]
  <2>1. Now(w, h) /\ dead' = dead
    BY <1>3 DEF Find, Stays
  <2>2. hand'[w] = h
    BY <2>1, HandFacts DEF Shape
  <2>3. HandBooked(w)'
    BY <1>1, <2>2, StaysTyped
  <2> HIDE DEF h
  <2> QED BY <1>1, <1>2, <2>1, <2>3, HandTypedStep
<1>4. CASE Purchase(w).brand \notin campaigns
  <2>1. Dies(w)
    BY <1>4 DEF Find
  <2> QED BY <1>1, <1>2, <2>1, DiesTyped
<1> QED BY <1>3, <1>4

LEMMA ReadTyped ==
  ASSUME Typed, Shape, NEW w \in Workers, Read(w) PROVE Typed'
<1> DEFINE b == Purchase(w).brand
<1>1. /\ ~At(w, "idle")
      /\ UNCHANGED <<sold, tiers, faults, orphans, early, again, stale>>
  BY DEF Read, At, contract, tables, history
<1>2. faults' \in 0..MaxFaults /\ orphans' \subseteq Brands
  BY <1>1 DEF Typed, TablesTyped
<1>3. CASE b \in DOMAIN tiers
  <2> DEFINE h == [pc |-> "write", event |-> hand[w].event, left |-> tiers[b]]
  <2>1. Now(w, h) /\ dead' = dead
    BY <1>3 DEF Read
  <2>2. hand'[w] = h
    BY <2>1, HandFacts DEF Shape
  <2>3. hand[w].event \in Event /\ tiers[b] \in Int
    BY <1>1, <1>3 DEF Shape, HandOK, At, Typed, TablesTyped
  <2>4. h \in Hand /\ h.pc = "write"
    BY <2>3 DEF Hand
  <2> HIDE DEF h
  <2>5. HandBooked(w)'
    BY <2>2, <2>4 DEF HandBooked
  <2> QED BY <1>1, <1>2, <2>1, <2>5, HandTypedStep
<1>4. CASE b \notin DOMAIN tiers
  <2>1. Dies(w)
    BY <1>4 DEF Read
  <2> QED BY <1>1, <1>2, <2>1, DiesTyped
<1> QED BY <1>3, <1>4

LEMMA WriteTyped ==
  ASSUME Typed, Shape, NEW w \in Workers, Write(w) PROVE Typed'
<1> DEFINE b == Purchase(w).brand
           h == [pc |-> "ack", event |-> hand[w].event]
<1>1. /\ hand[w].pc = "write" /\ ~At(w, "idle") /\ Now(w, h)
      /\ tiers' = With(tiers, b, Less(hand[w].left, Purchase(w).amount))
      /\ stale' = IF tiers[b] = hand[w].left THEN stale ELSE stale \cup {b}
      /\ UNCHANGED <<sold, faults, dead, orphans, early, again>>
  BY DEF Write, At, Stays, contract
<1>2. hand[w].event.of \in DOMAIN sold
  BY <1>1 DEF Shape, HandOK, Happened
<1>3. b \in Brands /\ Purchase(w).amount \in Int
  BY <1>2 DEF Typed, SoldTyped, Purchase
<1>4. hand[w].left \in Int
  <2>1. hand[w] \in Hand
    BY DEF Typed, HandBooked
  <2> QED BY <1>1, <2>1, HandCases
<1> HIDE DEF b
<1>5. hand'[w] = h
  BY <1>1, HandFacts DEF Shape
<1>6. HandBooked(w)'
  BY <1>1, <1>5, StaysTyped
<1>7. TablesTyped'
  <2>1. Less(hand[w].left, Purchase(w).amount) \in Int
    BY <1>3, <1>4 DEF Less
  <2>2. DOMAIN tiers' \subseteq Brands /\ tiers' \in [DOMAIN tiers' -> Int]
    BY <1>1, <1>3, <2>1 DEF With, Typed, TablesTyped
  <2>3. stale' \subseteq Brands
    BY <1>1, <1>3 DEF Typed, TablesTyped
  <2> QED BY <1>1, <2>2, <2>3 DEF Typed, TablesTyped
<1>8. dead' \subseteq Event /\ (\A e \in dead : Happened(e))'
  BY <1>1 DEF Typed, Happened
<1> HIDE DEF h
<1> QED BY <1>1, <1>6, <1>7, <1>8, TypedStep

LEMMA OrphanTyped ==
  ASSUME Typed, NEW w \in Workers, Orphan(w) PROVE orphans' \subseteq Brands
<1>1. hand[w] \in Hand
  BY DEF Typed, HandBooked
<1>2. At(w, "tier") => hand[w].one.brand \in Brands
  BY <1>1, HandCases DEF At, Shown
<1> QED BY <1>2 DEF Orphan, Typed, TablesTyped

LEMMA CrashTyped ==
  ASSUME Typed, Shape, NEW w \in Workers, Crash(w) PROVE Typed'
<1> DEFINE h == [pc |-> "idle"]
<1>1. /\ ~At(w, "idle") /\ faults < MaxFaults /\ faults' = faults + 1 /\ Now(w, h)
      /\ again' = IF At(w, "ack") /\ hand[w].event.kind = "bought"
                  THEN again \cup {Purchase(w).brand} ELSE again
      /\ UNCHANGED <<sold, tiers, dead, early, stale>>
  BY DEF Crash, contract, tables
<1>2. orphans' \subseteq Brands
  BY OrphanTyped DEF Crash
<1>3. hand[w].event.kind = "bought" => Purchase(w).brand \in Brands
  BY <1>1 DEF Shape, HandOK, Happened, At, Typed, SoldTyped, Purchase
<1>4. again' \subseteq Brands
  BY <1>1, <1>3 DEF Typed, TablesTyped
<1>5. TablesTyped'
  BY <1>1, <1>2, <1>4, CampaignsAssumption DEF Typed, TablesTyped
<1>6. hand'[w] = h
  BY <1>1, HandFacts DEF Shape
<1>7. HandBooked(w)'
  BY <1>6, StaysTyped
<1>8. dead' \subseteq Event /\ (\A e \in dead : Happened(e))'
  BY <1>1 DEF Typed, Happened
<1> HIDE DEF h
<1> QED BY <1>1, <1>5, <1>7, <1>8, TypedStep

LEMMA CallFailsTyped ==
  ASSUME Typed, Shape, NEW w \in Workers, CallFails(w) PROVE Typed'
<1>1. /\ ~At(w, "idle") /\ Dies(w)
      /\ UNCHANGED <<sold, tiers, early, again, stale>>
  BY DEF CallFails, At, contract, tables
<1>2. orphans' \subseteq Brands
  BY OrphanTyped DEF CallFails
<1>3. faults' \in 0..MaxFaults
  BY CampaignsAssumption DEF CallFails, Typed, TablesTyped
<1> QED BY <1>1, <1>2, <1>3, DiesTyped

\* Nothing typed changes.
LEMMA TypedStays ==
  ASSUME Typed, UNCHANGED <<sold, hand, tiers, faults, dead, orphans, early, again, stale>>
  PROVE  Typed'
<1>1. SoldTyped' /\ TablesTyped'
  BY DEF Typed, SoldTyped, TablesTyped
<1>2. \A w \in Workers : HandBooked(w)'
  BY DEF Typed, HandBooked
<1> QED BY <1>1, <1>2 DEF Typed, Happened

LEMMA NextTyped == Typed /\ Shape /\ [Next]_vars => Typed'
<1> SUFFICES ASSUME Typed, Shape, [Next]_vars PROVE Typed'
  OBVIOUS
<1>1. ASSUME NEW b \in Brands, CreateBrand(b) PROVE Typed'
  BY <1>1, TypedStays DEF CreateBrand, tables, history
<1>2. CASE Chain
  BY <1>1, <1>2, BuyTyped DEF Chain
<1>3. ASSUME NEW w \in Workers, Work(w) PROVE Typed'
  BY <1>3, TakeTyped, QueryTyped, SaveCampaignTyped, SaveTierTyped, SavedTyped, FindTyped,
     ReadTyped, WriteTyped, AckTyped DEF Work
<1>4. ASSUME NEW w \in Workers, Crash(w) \/ CallFails(w) PROVE Typed'
  BY <1>4, CrashTyped, CallFailsTyped
<1>5. CASE UNCHANGED vars
  BY <1>5, TypedStays DEF vars, contract, tables, history
<1> QED BY <1>2, <1>3, <1>4, <1>5 DEF Next

\* The tables, the queue and what the workers have in hand keep their types
\* (minter-events.service.ts, campaigns.service.ts).
THEOREM TypesHold == Spec => []TypeOK
<1>1. Init => IndInv /\ Typed
  BY InitKept, InitTyped
<1>2. IndInv /\ Typed /\ [Next]_vars => (IndInv /\ Typed)'
  BY NextKept, NextTyped DEF IndInv
<1>3. IndInv /\ Typed => TypeOK
  <2> SUFFICES ASSUME IndInv, Typed PROVE TypeOK
    OBVIOUS
  <2>1. hand \in [Workers -> Hand]
    BY DEF IndInv, Shape, Typed, HandBooked
  <2> QED BY <2>1 DEF IndInv, Shape, Typed, SoldTyped, TablesTyped, TypeOK
<1> QED BY <1>1, <1>2, <1>3, PTL DEF Spec

-----------------------------------------------------------------------------
(* An event is at one place only, so a purchase is taken off once.         *)

Bought(p) == [kind |-> "bought", of |-> p]

Apart ==
    /\ \A i, j \in 1..Len(queue) : queue[i].kind = "bought" /\ queue[i] = queue[j] => i = j
    /\ \A w \in Workers : ~At(w, "idle") /\ hand[w].event.kind = "bought" =>
         /\ \A i \in 1..Len(queue) : queue[i] # hand[w].event
         /\ \A v \in Workers : ~At(v, "idle") /\ hand[v].event = hand[w].event => v = w
         /\ hand[w].event \notin dead
    /\ \A i \in 1..Len(queue) : queue[i].kind = "bought" => queue[i] \notin dead

\* The purchase p is still to be taken off.
Open(p) == Bought(p) \in Queued \cup InHand \cup dead

\* Where an open purchase is, now and after a step.
LEMMA OpenIs ==
  ASSUME queue \in Seq(Event), NEW p
  PROVE  Open(p) <=> \/ \E i \in 1..Len(queue) : queue[i] = Bought(p)
                     \/ \E w \in Workers : /\ ~At(w, "idle") /\ ~At(w, "ack")
                                           /\ hand[w].event = Bought(p)
                     \/ Bought(p) \in dead
  BY DEF Open, Queued, InHand
LEMMA OpenNext ==
  ASSUME queue' \in Seq(Event), NEW p
  PROVE  Open(p)' <=> \/ \E i \in 1..Len(queue') : queue'[i] = Bought(p)
                      \/ \E w \in Workers : /\ ~At(w, "idle")' /\ ~At(w, "ack")'
                                            /\ hand'[w].event = Bought(p)
                      \/ Bought(p) \in dead'
  BY DEF Open, Queued, InHand, Bought

LEMMA InitApart == Init => Apart
<1> SUFFICES ASSUME Init PROVE Apart
  OBVIOUS
<1>1. (\A w \in Workers : At(w, "idle")) /\ Len(queue) = 0
  BY DEF Init, At
<1> QED BY <1>1 DEF Apart

\* The worker goes on with its event.
LEMMA GoesOn ==
  ASSUME Apart, Shape, NEW w \in Workers, NEW h, Now(w, h), ~At(w, "idle"), h.pc # "idle",
         h.event = hand[w].event, UNCHANGED <<queue, dead>>
  PROVE  /\ Apart'
         /\ h.pc # "ack" /\ ~At(w, "ack") => \A p : Open(p)' <=> Open(p)
         /\ hand[w].event.kind # "bought" => \A p : Open(p)' <=> Open(p)
<1>1. hand'[w] = h /\ \A v \in Workers : v # w => hand'[v] = hand[v]
  BY HandFacts DEF Shape
<1>2. \A v \in Workers : /\ At(v, "idle")' <=> At(v, "idle")
                         /\ ~At(v, "idle") => hand'[v].event = hand[v].event
  BY <1>1 DEF At
<1>3. Apart'
  BY <1>2 DEF Apart
<1>4. queue \in Seq(Event) /\ queue' \in Seq(Event)
  BY DEF Shape
<1>5. ASSUME h.pc # "ack", ~At(w, "ack") PROVE \A p : Open(p)' <=> Open(p)
  <2>1. \A v \in Workers : At(v, "ack")' <=> At(v, "ack")
    BY <1>1, <1>5 DEF At
  <2> QED BY <1>2, <1>4, <2>1, OpenIs, OpenNext
<1>6. ASSUME hand[w].event.kind # "bought" PROVE \A p : Open(p)' <=> Open(p)
  <2>1. \A p : hand[w].event # Bought(p)
    BY <1>6 DEF Bought
  <2>2. \A v \in Workers : v # w => (At(v, "ack")' <=> At(v, "ack"))
    BY <1>1 DEF At
  <2> QED BY <1>2, <1>4, <2>1, <2>2, OpenIs, OpenNext
<1> QED BY <1>3, <1>5, <1>6

LEMMA TakeApart ==
  ASSUME Apart, Shape, NEW w \in Workers, Take(w)
  PROVE  Apart' /\ \A p : Open(p)' <=> Open(p)
<1> DEFINE e == Head(queue)
           h == [pc |-> IF e.kind = "bought" THEN "find" ELSE "query", event |-> e]
<1>1. At(w, "idle") /\ queue # <<>> /\ queue' = Tail(queue) /\ Now(w, h) /\ dead' = dead
  BY DEF Take
<1>2. queue \in Seq(Event) /\ Len(queue) \in Nat \ {0} /\ e = queue[1]
  BY <1>1 DEF Shape
<1>3. /\ queue' \in Seq(Event) /\ Len(queue') = Len(queue) - 1
      /\ \A i \in 1..Len(queue') : queue'[i] = queue[i + 1] /\ i + 1 \in 1..Len(queue) /\ i + 1 # 1
      /\ \A i \in 1..Len(queue) : i = 1 \/ (i - 1 \in 1..Len(queue') /\ queue'[i - 1] = queue[i])
  BY <1>1, <1>2
<1>4. hand'[w] = h /\ \A v \in Workers : v # w => hand'[v] = hand[v]
  BY <1>1, HandFacts DEF Shape
<1>5. h.pc \notin {"idle", "ack"} /\ h.event = e /\ 1 \in 1..Len(queue)
  BY <1>2
<1> HIDE DEF h, e
<1>6. /\ ~At(w, "idle")' /\ ~At(w, "ack")' /\ hand'[w].event = e
      /\ \A v \in Workers : v # w => /\ At(v, "idle")' <=> At(v, "idle")
                                     /\ At(v, "ack")' <=> At(v, "ack")
  BY <1>4, <1>5 DEF At
<1>7. Apart'
  <2>1. ASSUME NEW i \in 1..Len(queue'), NEW j \in 1..Len(queue'), queue'[i].kind = "bought",
               queue'[i] = queue'[j]
        PROVE  i = j
    <3> DEFINE k == i + 1
               l == j + 1
    <3>1. /\ k \in 1..Len(queue) /\ l \in 1..Len(queue)
          /\ queue[k].kind = "bought" /\ queue[k] = queue[l]
      BY <1>3, <2>1
    <3> HIDE DEF k, l
    <3>2. k = l
      BY <3>1 DEF Apart
    <3> QED BY <3>2 DEF k, l
  <2>2. ASSUME NEW v \in Workers, ~At(v, "idle")', hand'[v].event.kind = "bought"
        PROVE  /\ \A i \in 1..Len(queue') : queue'[i] # hand'[v].event
               /\ \A u \in Workers : ~At(u, "idle")' /\ hand'[u].event = hand'[v].event => u = v
               /\ hand'[v].event \notin dead'
    <3>1. CASE v = w
      <4>1. \A i \in 1..Len(queue') : queue'[i] # e
        BY <1>2, <1>3, <1>5, <1>6, <2>2, <3>1 DEF Apart
      <4>2. \A u \in Workers : ~At(u, "idle")' /\ hand'[u].event = e => u = w
        BY <1>2, <1>4, <1>5, <1>6, <2>2, <3>1 DEF Apart
      <4>3. e \notin dead'
        BY <1>1, <1>2, <1>5, <1>6, <2>2, <3>1 DEF Apart
      <4> QED BY <1>6, <3>1, <4>1, <4>2, <4>3
    <3>2. CASE v # w
      <4>1. ~At(v, "idle") /\ hand'[v] = hand[v]
        BY <1>4, <1>6, <2>2, <3>2
      <4>2. \A i \in 1..Len(queue) : queue[i] # hand[v].event
        BY <2>2, <4>1 DEF Apart
      <4>3. \A i \in 1..Len(queue') : queue'[i] # hand'[v].event
        BY <1>3, <4>1, <4>2
      <4>4. hand'[w].event # hand'[v].event
        BY <1>2, <1>5, <1>6, <4>1, <4>2
      <4>5. \A u \in Workers : ~At(u, "idle")' /\ hand'[u].event = hand'[v].event => u = v
        BY <1>4, <1>6, <2>2, <4>1, <4>4 DEF Apart
      <4>6. hand'[v].event \notin dead'
        BY <1>1, <2>2, <4>1 DEF Apart
      <4> QED BY <4>3, <4>5, <4>6
    <3> QED BY <3>1, <3>2
  <2>3. \A i \in 1..Len(queue') : queue'[i].kind = "bought" => queue'[i] \notin dead'
    BY <1>1, <1>3 DEF Apart
  <2> QED BY <2>1, <2>2, <2>3 DEF Apart
<1>8. ASSUME NEW p PROVE Open(p)' <=> Open(p)
  <2>1. ASSUME Open(p) PROVE Open(p)'
    <3>1. CASE \E i \in 1..Len(queue) : queue[i] = Bought(p)
      <4>1. PICK i \in 1..Len(queue) : queue[i] = Bought(p)
        BY <3>1
      <4>2. CASE i = 1
        BY <1>2, <1>3, <1>6, <4>1, <4>2, OpenNext
      <4>3. CASE i # 1
        BY <1>3, <4>1, <4>3, OpenNext
      <4> QED BY <4>2, <4>3
    <3>2. CASE \E v \in Workers : ~At(v, "idle") /\ ~At(v, "ack") /\ hand[v].event = Bought(p)
      BY <1>1, <1>3, <1>4, <1>6, <3>2, OpenNext
    <3>3. CASE Bought(p) \in dead
      BY <1>1, <1>3, <3>3, OpenNext
    <3> QED BY <1>2, <2>1, <3>1, <3>2, <3>3, OpenIs
  <2>2. ASSUME Open(p)' PROVE Open(p)
    <3>1. CASE \E i \in 1..Len(queue') : queue'[i] = Bought(p)
      BY <1>2, <1>3, <3>1, OpenIs
    <3>2. CASE \E v \in Workers : ~At(v, "idle")' /\ ~At(v, "ack")' /\ hand'[v].event = Bought(p)
      <4>1. PICK v \in Workers : ~At(v, "idle")' /\ ~At(v, "ack")' /\ hand'[v].event = Bought(p)
        BY <3>2
      <4>2. CASE v = w
        BY <1>2, <1>5, <1>6, <4>1, <4>2, OpenIs
      <4>3. CASE v # w
        BY <1>2, <1>4, <1>6, <4>1, <4>3, OpenIs
      <4> QED BY <4>2, <4>3
    <3>3. CASE Bought(p) \in dead'
      BY <1>1, <1>2, <3>3, OpenIs
    <3> QED BY <1>3, <2>2, <3>1, <3>2, <3>3, OpenNext
  <2> QED BY <2>1, <2>2
<1> QED BY <1>7, <1>8

\* The worker is done with its event.
LEMMA DoneWith ==
  ASSUME Apart, Shape, NEW w \in Workers, Now(w, [pc |-> "idle"]), ~At(w, "idle"), queue' = queue,
         \/ At(w, "ack") /\ dead' = dead
         \/ ~At(w, "ack") /\ dead' = dead \cup {hand[w].event}
  PROVE  Apart' /\ \A p : Open(p)' <=> Open(p)
<1>1. hand'[w] = [pc |-> "idle"] /\ \A v \in Workers : v # w => hand'[v] = hand[v]
  BY HandFacts DEF Shape
<1>2. At(w, "idle")' /\ \A v \in Workers : v # w => /\ At(v, "idle")' <=> At(v, "idle")
                                                    /\ At(v, "ack")' <=> At(v, "ack")
  BY <1>1 DEF At
<1>3. \A e \in dead' : e \in dead \/ e = hand[w].event
  OBVIOUS
<1>4. Apart'
  <2>1. ASSUME NEW v \in Workers, ~At(v, "idle")', hand'[v].event.kind = "bought"
        PROVE  /\ \A i \in 1..Len(queue') : queue'[i] # hand'[v].event
               /\ \A u \in Workers : ~At(u, "idle")' /\ hand'[u].event = hand'[v].event => u = v
               /\ hand'[v].event \notin dead'
    <3>1. v # w /\ ~At(v, "idle") /\ hand'[v] = hand[v]
      BY <1>1, <1>2, <2>1
    <3>2. hand[v].event # hand[w].event
      BY <2>1, <3>1 DEF Apart
    <3> QED BY <1>1, <1>2, <1>3, <2>1, <3>1, <3>2 DEF Apart
  <2>2. \A i, j \in 1..Len(queue') : queue'[i].kind = "bought" /\ queue'[i] = queue'[j] => i = j
    BY DEF Apart
  <2>3. \A i \in 1..Len(queue') : queue'[i].kind = "bought" => queue'[i] \notin dead'
    BY <1>3 DEF Apart
  <2> QED BY <2>1, <2>2, <2>3 DEF Apart
<1>5. queue \in Seq(Event) /\ queue' \in Seq(Event)
  BY DEF Shape
<1>6. ASSUME NEW p PROVE Open(p)' <=> Open(p)
  <2>1. (\E v \in Workers : v # w /\ ~At(v, "idle") /\ ~At(v, "ack") /\ hand[v].event = Bought(p))
        <=> \E v \in Workers : ~At(v, "idle")' /\ ~At(v, "ack")' /\ hand'[v].event = Bought(p)
    BY <1>1, <1>2
  <2>2. Bought(p) \in dead' <=> Bought(p) \in dead \/ (~At(w, "ack") /\ hand[w].event = Bought(p))
    OBVIOUS
  <2> QED BY <1>5, <2>1, <2>2, OpenIs, OpenNext
<1> QED BY <1>4, <1>6

\* The worker's event is queued again.
LEMMA CrashApart ==
  ASSUME Apart, Shape, NEW w \in Workers, Crash(w)
  PROVE  /\ Apart'
         /\ \A p : Open(p)' <=> Open(p) \/ hand[w].event = Bought(p)
<1> DEFINE e == hand[w].event
<1>1. /\ ~At(w, "idle") /\ queue' = <<e>> \o queue /\ Now(w, [pc |-> "idle"])
      /\ dead' = dead
  BY DEF Crash
<1>2. e \in Event
  BY <1>1 DEF Shape, HandOK, At
<1>3. queue \in Seq(Event) /\ Len(queue) \in Nat
  BY DEF Shape
<1>4. /\ queue' \in Seq(Event) /\ Len(queue') = Len(queue) + 1 /\ queue'[1] = e
      /\ \A i \in 2..Len(queue') : queue'[i] = queue[i - 1]
  <2>1. <<e>> \in Seq(Event) /\ Len(<<e>>) = 1 /\ <<e>>[1] = e
    BY <1>2
  <2> HIDE DEF e
  <2> QED BY <1>1, <1>3, <2>1
<1>5. /\ 1 \in 1..Len(queue')
      /\ \A i \in 1..Len(queue') : i # 1 => i - 1 \in 1..Len(queue) /\ queue'[i] = queue[i - 1]
      /\ \A i \in 1..Len(queue) : i + 1 \in 1..Len(queue') /\ queue'[i + 1] = queue[i]
  BY <1>3, <1>4
<1>6. hand'[w] = [pc |-> "idle"] /\ \A v \in Workers : v # w => hand'[v] = hand[v]
  BY <1>1, HandFacts DEF Shape
<1>7. At(w, "idle")' /\ \A v \in Workers : v # w => /\ At(v, "idle")' <=> At(v, "idle")
                                                    /\ At(v, "ack")' <=> At(v, "ack")
  BY <1>6 DEF At
<1>8. Apart'
  <2>1. ASSUME NEW v \in Workers, ~At(v, "idle")', hand'[v].event.kind = "bought"
        PROVE  /\ \A i \in 1..Len(queue') : queue'[i] # hand'[v].event
               /\ \A u \in Workers : ~At(u, "idle")' /\ hand'[u].event = hand'[v].event => u = v
               /\ hand'[v].event \notin dead'
    <3>1. v # w /\ ~At(v, "idle") /\ hand'[v] = hand[v]
      BY <1>6, <1>7, <2>1
    <3>2. hand[v].event # e
      BY <1>1, <2>1, <3>1 DEF Apart
    <3>3. \A i \in 1..Len(queue) : queue[i] # hand[v].event
      BY <2>1, <3>1 DEF Apart
    <3>4. \A i \in 1..Len(queue') : queue'[i] # hand'[v].event
      BY <1>4, <1>5, <3>1, <3>2, <3>3
    <3> QED BY <1>1, <1>6, <1>7, <2>1, <3>1, <3>4 DEF Apart
  <2>2. e.kind = "bought" => e \notin dead /\ \A i \in 1..Len(queue) : queue[i] # e
    BY <1>1 DEF Apart
  <2>3. ASSUME NEW i \in 1..Len(queue'), NEW j \in 1..Len(queue'), queue'[i].kind = "bought",
               queue'[i] = queue'[j]
        PROVE  i = j
    <3>1. CASE i = 1 \/ j = 1
      BY <1>4, <1>5, <2>2, <2>3, <3>1
    <3>2. CASE i # 1 /\ j # 1
      <4>1. i - 1 = j - 1
        BY <1>5, <2>3, <3>2 DEF Apart
      <4> QED BY <4>1
    <3> QED BY <3>1, <3>2
  <2>4. \A i \in 1..Len(queue') : queue'[i].kind = "bought" => queue'[i] \notin dead'
    BY <1>1, <1>4, <1>5, <2>2 DEF Apart
  <2> QED BY <2>1, <2>3, <2>4 DEF Apart
<1>9. ASSUME NEW p PROVE Open(p)' <=> Open(p) \/ e = Bought(p)
  <2>1. (\E v \in Workers : v # w /\ ~At(v, "idle") /\ ~At(v, "ack") /\ hand[v].event = Bought(p))
        <=> \E v \in Workers : ~At(v, "idle")' /\ ~At(v, "ack")' /\ hand'[v].event = Bought(p)
    BY <1>6, <1>7
  <2>2. (\E i \in 1..Len(queue') : queue'[i] = Bought(p))
        <=> e = Bought(p) \/ \E i \in 1..Len(queue) : queue[i] = Bought(p)
    BY <1>4, <1>5
  <2> HIDE DEF e
  <2> QED BY <1>1, <1>3, <1>4, <2>1, <2>2, OpenIs, OpenNext DEF e
<1> QED BY <1>8, <1>9

\* A new event of the chain.
LEMMA ChainApart ==
  ASSUME Apart, Shape, Typed, NEW e \in Event, e.kind = "bought" => e.of \notin DOMAIN sold,
         queue' = Append(queue, e), UNCHANGED <<hand, dead>>
  PROVE  /\ Apart'
         /\ \A p : Open(p)' <=> Open(p) \/ e = Bought(p)
<1>1. queue \in Seq(Event) /\ Len(queue) \in Nat
  BY DEF Shape
<1>2. /\ queue' \in Seq(Event) /\ Len(queue') = Len(queue) + 1
      /\ \A i \in 1..Len(queue) : queue'[i] = queue[i]
      /\ queue'[Len(queue) + 1] = e
  BY <1>1
<1>3. /\ Len(queue) + 1 \in 1..Len(queue')
      /\ \A i \in 1..Len(queue) : i \in 1..Len(queue')
      /\ \A i \in 1..Len(queue') : i \in 1..Len(queue) \/ i = Len(queue) + 1
  BY <1>1, <1>2
<1>4. e.kind = "bought" => /\ e \notin dead
                           /\ \A i \in 1..Len(queue) : queue[i] # e
                           /\ \A w \in Workers : ~At(w, "idle") => hand[w].event # e
  BY DEF Shape, HandOK, Happened, Typed, At
<1>5. \A w \in Workers : \A pc : At(w, pc)' <=> At(w, pc)
  BY DEF At
<1>6. Apart'
  <2>1. ASSUME NEW v \in Workers, ~At(v, "idle")', hand'[v].event.kind = "bought"
        PROVE  /\ \A i \in 1..Len(queue') : queue'[i] # hand'[v].event
               /\ \A u \in Workers : ~At(u, "idle")' /\ hand'[u].event = hand'[v].event => u = v
               /\ hand'[v].event \notin dead'
    BY <1>2, <1>3, <1>4, <1>5, <2>1 DEF Apart
  <2>2. ASSUME NEW i \in 1..Len(queue'), NEW j \in 1..Len(queue'), queue'[i].kind = "bought",
               queue'[i] = queue'[j]
        PROVE  i = j
    BY <1>2, <1>3, <1>4, <2>2 DEF Apart
  <2>3. \A i \in 1..Len(queue') : queue'[i].kind = "bought" => queue'[i] \notin dead'
    BY <1>2, <1>3, <1>4 DEF Apart
  <2> QED BY <2>1, <2>2, <2>3 DEF Apart
<1>7. ASSUME NEW p PROVE Open(p)' <=> Open(p) \/ e = Bought(p)
  <2>1. (\E i \in 1..Len(queue') : queue'[i] = Bought(p))
        <=> e = Bought(p) \/ \E i \in 1..Len(queue) : queue[i] = Bought(p)
    BY <1>2, <1>3
  <2> QED BY <1>1, <1>2, <1>5, <2>1, OpenIs, OpenNext
<1> QED BY <1>6, <1>7

\* A purchase that is written is open, and is open nowhere else.
LEMMA WriteOpens ==
  ASSUME Apart, Shape, NEW w \in Workers, NEW h, Now(w, h), hand[w].pc = "write", h.pc = "ack",
         NEW p, hand[w].event = Bought(p), UNCHANGED <<queue, dead>>
  PROVE  Open(p) /\ \A q : Open(q)' <=> Open(q) /\ q # p
<1>1. hand'[w] = h /\ \A v \in Workers : v # w => hand'[v] = hand[v]
  BY HandFacts DEF Shape
<1>2. queue \in Seq(Event) /\ queue' \in Seq(Event)
  BY DEF Shape
<1>3. ~At(w, "idle") /\ ~At(w, "ack") /\ At(w, "ack")'
  BY <1>1 DEF At
<1>4. \A v \in Workers : v # w => /\ At(v, "idle")' <=> At(v, "idle")
                                  /\ At(v, "ack")' <=> At(v, "ack")
  BY <1>1 DEF At
<1>5. Open(p)
  BY <1>2, <1>3, OpenIs
<1>6. Bought(p).kind = "bought" /\ \A q : Bought(p) = Bought(q) <=> p = q
  BY DEF Bought
<1>7. /\ \A i \in 1..Len(queue) : queue[i] # Bought(p)
      /\ \A v \in Workers : ~At(v, "idle") /\ hand[v].event = Bought(p) => v = w
      /\ Bought(p) \notin dead
  BY <1>3, <1>6 DEF Apart
<1>8. ~Open(p)'
  BY <1>1, <1>2, <1>3, <1>4, <1>7, OpenNext
<1>9. ASSUME NEW q, q # p PROVE Open(q)' <=> Open(q)
  <2>1. (\E v \in Workers : ~At(v, "idle") /\ ~At(v, "ack") /\ hand[v].event = Bought(q))
        <=> \E v \in Workers : ~At(v, "idle")' /\ ~At(v, "ack")' /\ hand'[v].event = Bought(q)
    BY <1>1, <1>3, <1>4, <1>6, <1>9
  <2> QED BY <1>2, <2>1, OpenIs, OpenNext
<1> QED BY <1>5, <1>8, <1>9

-----------------------------------------------------------------------------
(* The tiers against the purchases they have seen.                         *)

Amounts(g) == [p \in DOMAIN g |-> g[p].amount]

\* The purchases of b that have been taken off its tier.
Settled(b) == {p \in Of(b) : ~Open(p)}

\* Without a tier nothing has been taken off, and a worker about to save what
\* it took off has read too little only of a brand that is known to be wrong.
Book ==
    /\ \A b \in Brands : b \notin DOMAIN tiers => Settled(b) = {}
    /\ LeftIsExplained
    /\ \A w \in Workers : At(w, "write") /\ hand[w].left < Due(Purchase(w).brand) =>
         Purchase(w).brand \in early \cup again

\* What is due of a brand, as a sum the lemmas above speak of.
LEMMA DueSettled == \A b : Due(b) = LeftOf(sold, Settled(b))
<1> SUFFICES ASSUME NEW b PROVE Due(b) = LeftOf(sold, Settled(b))
  OBVIOUS
<1>1. Of(b) \ Pending(b) = Settled(b)
  BY DEF Pending, Settled, Open, Bought
<1>2. Due(b) = LeftWithout(Settled(b))
  BY <1>1 DEF Due
<1> QED BY <1>2 DEF LeftWithout, LeftOf

LEMMA DueIs == SoldTyped => \A b : /\ Due(b) = Total - SumOf(Amounts(sold), Settled(b))
                                   /\ Due(b) \in Int
<1> SUFFICES ASSUME SoldTyped, NEW b
             PROVE  /\ Due(b) = Total - SumOf(Amounts(sold), Settled(b))
                    /\ Due(b) \in Int
  OBVIOUS
<1>1. Settled(b) \in SUBSET DOMAIN sold
  BY DEF Settled, Of
<1>2. IsFiniteSet(Settled(b))
  BY <1>1, FS_Subset DEF SoldTyped
<1>3. Due(b) = Total - SumOf(Amounts(sold), Settled(b))
  <2>1. Due(b) = LeftOf(sold, Settled(b))
    BY DueSettled
  <2> QED BY <1>1, <1>2, <2>1, LeftIs DEF Amounts
<1>4. \A p \in Settled(b) : Amounts(sold)[p] \in Int
  BY <1>1 DEF Amounts, SoldTyped
<1>5. SumOf(Amounts(sold), Settled(b)) \in Int
  BY <1>2, <1>4, SumSplit
<1> QED BY <1>3, <1>5, CampaignsAssumption

LEMMA DueNext == SoldTyped' => \A b : /\ Due(b)' = Total - SumOf(Amounts(sold'), Settled(b)')
                                      /\ Due(b)' \in Int
<1>1. (SoldTyped => \A b : /\ Due(b) = Total - SumOf(Amounts(sold), Settled(b))
                           /\ Due(b) \in Int)'
  BY DueIs, PTL
<1> QED BY <1>1

\* The sums over the same purchases are the same.
LEMMA SameSum ==
  ASSUME NEW g, NEW h, NEW S, IsFiniteSet(S),
         \A p \in S : p \in DOMAIN g /\ p \in DOMAIN h /\ h[p] = g[p]
  PROVE  SumOf(Amounts(h), S) = SumOf(Amounts(g), S)
<1> DEFINE f == Amounts(h)
           k == Amounts(g)
<1>1. \A x \in S : f[x] = k[x]
  BY DEF Amounts
<1> HIDE DEF f, k
<1>2. SumOf(f, S) = SumOf(k, S)
  BY <1>1, SumSame
<1> QED BY <1>2 DEF f, k

\* Nothing is taken off, and nothing is put back.
LEMMA DueKept ==
  ASSUME SoldTyped, SoldTyped',
         \A p \in DOMAIN sold : p \in DOMAIN sold' /\ sold'[p] = sold[p] /\ (Open(p)' <=> Open(p)),
         \A p \in DOMAIN sold' : p \notin DOMAIN sold => Open(p)',
         NEW b
  PROVE  Settled(b)' = Settled(b) /\ Due(b)' = Due(b)
<1>1. Settled(b)' = Settled(b)
  BY DEF Settled, Of
<1>2. Settled(b) \subseteq DOMAIN sold /\ IsFiniteSet(Settled(b))
  BY FS_Subset DEF Settled, Of, SoldTyped
<1>3. SumOf(Amounts(sold'), Settled(b)) = SumOf(Amounts(sold), Settled(b))
  BY <1>2, SameSum
<1> QED BY <1>1, <1>3, DueIs, DueNext

\* The purchase p of brand c is taken off.
LEMMA DueTaken ==
  ASSUME SoldTyped, SoldTyped', UNCHANGED sold, NEW p \in DOMAIN sold,
         Open(p), \A q : Open(q)' <=> Open(q) /\ q # p,
         NEW b
  PROVE  /\ Settled(b)' = IF b = sold[p].brand THEN Settled(b) \cup {p} ELSE Settled(b)
         /\ Due(b)' = IF b = sold[p].brand THEN Due(b) - sold[p].amount ELSE Due(b)
<1>1. Settled(b)' = IF b = sold[p].brand THEN Settled(b) \cup {p} ELSE Settled(b)
  BY DEF Settled, Of
<1>2. CASE b # sold[p].brand
  BY <1>1, <1>2, DueIs, DueNext
<1>3. CASE b = sold[p].brand
  <2> DEFINE S == Settled(b) \cup {p}
  <2>1. S \subseteq DOMAIN sold /\ p \notin Settled(b)
    BY DEF Settled, Of
  <2>2. IsFiniteSet(S)
    BY <2>1, FS_Subset DEF SoldTyped
  <2>3. \A x \in S : Amounts(sold)[x] \in Int
    BY <2>1 DEF Amounts, SoldTyped
  <2>4. p \in S /\ S \ {p} = Settled(b)
    BY <2>1
  <2>5. Settled(b)' = S
    BY <1>1, <1>3
  <2>6. Amounts(sold)[p] = sold[p].amount /\ sold[p].amount \in Int
    BY DEF Amounts, SoldTyped
  <2> HIDE DEF S
  <2>7. SumOf(Amounts(sold), S) = Amounts(sold)[p] + SumOf(Amounts(sold), S \ {p})
    BY <2>2, <2>3, <2>4, SumSplit
  <2>8. Due(b) = Total - SumOf(Amounts(sold), Settled(b)) /\ Due(b) \in Int
    BY DueIs
  <2>9. Due(b)' = Total - SumOf(Amounts(sold), S)
    BY <2>5, DueNext
  <2>10. IsFiniteSet(Settled(b)) /\ \A x \in Settled(b) : Amounts(sold)[x] \in Int
    BY <2>2, <2>3, <2>4, FS_Subset
  <2>11. SumOf(Amounts(sold), Settled(b)) \in Int
    BY <2>10, SumSplit
  <2> DEFINE A == SumOf(Amounts(sold), Settled(b))
             B == SumOf(Amounts(sold), S)
             n == sold[p].amount
  <2>12. B = n + A /\ Due(b) = Total - A /\ Due(b)' = Total - B /\ A \in Int /\ n \in Int
    BY <2>4, <2>6, <2>7, <2>8, <2>9, <2>11
  <2> HIDE DEF A, B, n
  <2>13. Due(b)' = Due(b) - n
    BY <2>12, CampaignsAssumption
  <2> QED BY <1>1, <1>3, <2>13 DEF n
<1> QED BY <1>2, <1>3

\* The purchase p is to be taken off once more.
LEMMA DueAgain ==
  ASSUME SoldTyped, SoldTyped', UNCHANGED sold, NEW p \in DOMAIN sold,
         \A q : Open(q)' <=> Open(q) \/ q = p,
         NEW b
  PROVE  /\ Settled(b)' \subseteq Settled(b)
         /\ b # sold[p].brand => Due(b)' = Due(b)
         /\ Due(b)' >= Due(b)
<1>1. Settled(b)' = Settled(b) \ {p}
  BY DEF Settled, Of
<1>2. p \in Settled(b) => b = sold[p].brand
  BY DEF Settled, Of
<1>3. CASE p \notin Settled(b)
  <2>1. Settled(b)' = Settled(b)
    BY <1>1, <1>3
  <2>2. Due(b)' = Due(b) /\ Due(b) \in Int
    BY <2>1, DueIs, DueNext
  <2> QED BY <2>1, <2>2
<1>4. CASE p \in Settled(b)
  <2> DEFINE S == Settled(b)
  <2>1. S \subseteq DOMAIN sold
    BY DEF Settled, Of
  <2>2. IsFiniteSet(S)
    BY <2>1, FS_Subset DEF SoldTyped
  <2>3. \A x \in S : Amounts(sold)[x] \in Int
    BY <2>1 DEF Amounts, SoldTyped
  <2>4. Amounts(sold)[p] = sold[p].amount /\ sold[p].amount \in Nat
    BY DEF Amounts, SoldTyped
  <2>5. Due(b) = Total - SumOf(Amounts(sold), S) /\ Due(b) \in Int
    BY DueIs
  <2>6. Due(b)' = Total - SumOf(Amounts(sold), S \ {p})
    BY <1>1, DueNext
  <2> HIDE DEF S
  <2>7. SumOf(Amounts(sold), S) = Amounts(sold)[p] + SumOf(Amounts(sold), S \ {p})
    BY <1>4, <2>2, <2>3, SumSplit DEF S
  <2>8. IsFiniteSet(S \ {p}) /\ \A x \in S \ {p} : Amounts(sold)[x] \in Int
    BY <2>2, <2>3, FS_Subset
  <2>9. SumOf(Amounts(sold), S \ {p}) \in Int
    BY <2>8, SumSplit
  <2>10. Due(b)' >= Due(b)
    BY <2>4, <2>5, <2>6, <2>7, <2>9, CampaignsAssumption
  <2> QED BY <1>1, <1>2, <1>4, <2>10
<1> QED BY <1>3, <1>4

-----------------------------------------------------------------------------
LEMMA InitBook == Init => Book
<1> SUFFICES ASSUME Init PROVE Book
  OBVIOUS
<1>1. DOMAIN sold = {} /\ DOMAIN tiers = {} /\ \A w \in Workers : hand[w].pc = "idle"
  BY DEF Init
<1> QED BY <1>1 DEF Book, Settled, Of, LeftIsExplained, At

\* A worker that is about to write, and does not take the step, writes for the
\* same brand.
LEMMA SamePurchase ==
  ASSUME Shape, NEW v \in Workers, hand'[v] = hand[v], At(v, "write"),
         \A p \in DOMAIN sold : p \in DOMAIN sold' /\ sold'[p] = sold[p]
  PROVE  Purchase(v)' = Purchase(v) /\ hand[v].event.of \in DOMAIN sold
<1>1. hand[v].event.of \in DOMAIN sold
  BY DEF Shape, HandOK, At, Happened
<1> QED BY <1>1 DEF Purchase

\* The tiers stay, and what is due of a brand stays or, if that is known of the
\* brand, grows.
LEMMA BookKept ==
  ASSUME Book, Shape, Shape', TablesTyped, SoldTyped, SoldTyped', UNCHANGED tiers,
         early \subseteq early', again \subseteq again', stale \subseteq stale',
         \A p \in DOMAIN sold : p \in DOMAIN sold' /\ sold'[p] = sold[p],
         \A b \in Brands : /\ Settled(b)' \subseteq Settled(b)
                           /\ Due(b)' = Due(b) \/ (Due(b)' >= Due(b) /\ b \in again'),
         \A w \in Workers : At(w, "write")' =>
            \/ At(w, "write") /\ hand'[w] = hand[w]
            \/ Purchase(w).brand' \in DOMAIN tiers /\ hand'[w].left = tiers[Purchase(w).brand']
  PROVE  Book'
<1>1. \A b \in Brands : Due(b) \in Int /\ Due(b)' \in Int
  BY DueIs, DueNext
<1>2. \A b \in DOMAIN tiers : tiers[b] \in Int /\ b \in Brands
  BY DEF TablesTyped
<1>3. ASSUME NEW b \in Brands, b \notin DOMAIN tiers' PROVE Settled(b)' = {}
  BY <1>3 DEF Book
<1>4. ASSUME NEW b \in DOMAIN tiers'
      PROVE  /\ tiers'[b] > Due(b)' => b \in stale'
             /\ tiers'[b] < Due(b)' => b \in early' \cup again'
  <2>1. /\ tiers[b] > Due(b) => b \in stale
        /\ tiers[b] < Due(b) => b \in early \cup again
    BY DEF Book, LeftIsExplained
  <2>2. b \in Brands /\ tiers[b] \in Int /\ Due(b) \in Int /\ Due(b)' \in Int
    BY <1>1, <1>2
  <2> QED BY <2>1, <2>2
<1>5. LeftIsExplained'
  BY <1>4 DEF LeftIsExplained
<1>6. ASSUME NEW w \in Workers, At(w, "write")', hand'[w].left < Due(Purchase(w).brand)'
      PROVE  Purchase(w).brand' \in early' \cup again'
  <2> PICK b : b = Purchase(w).brand'
    OBVIOUS
  <2>1. hand'[w].left < Due(b)'
    BY <1>6
  <2>2. CASE At(w, "write") /\ hand'[w] = hand[w]
    <3>1. b = Purchase(w).brand
      BY <2>2, SamePurchase
    <3>2. b \in Brands
      BY <2>2, SamePurchase DEF SoldTyped, Purchase
    <3> QED BY <1>1, <2>1, <2>2, <3>1, <3>2 DEF Book
  <2>3. CASE b \in DOMAIN tiers /\ hand'[w].left = tiers[b]
    <3>1. tiers'[b] < Due(b)'
      BY <2>1, <2>3
    <3> QED BY <1>4, <2>3, <3>1
  <2> QED BY <1>6, <2>2, <2>3
<1> QED BY <1>3, <1>5, <1>6 DEF Book

\* Nothing is left of more than there is.
LEMMA LeftAtMost ==
  ASSUME SoldTyped, NEW ps \in SUBSET DOMAIN sold
  PROVE  /\ LeftWithout(ps) <= Total
         /\ ps = {} => LeftWithout(ps) = Total
<1> DEFINE f == Amounts(sold)
<1>1. IsFiniteSet(ps)
  BY FS_Subset DEF SoldTyped
<1>2. LeftWithout(ps) = Total - SumOf(f, ps)
  <2>1. LeftWithout(ps) = LeftOf(sold, ps)
    BY DEF LeftWithout, LeftOf
  <2> QED BY <1>1, <2>1, LeftIs DEF Amounts
<1>3. \A p \in ps : f[p] \in Nat
  BY DEF SoldTyped, Amounts
<1> HIDE DEF f
<1>4. SumOf(f, ps) \in Nat
  BY <1>1, <1>3, SumNat
<1>5. ps = {} => SumOf(f, ps) = 0
  BY EmptySum
<1>6. Total \in Nat
  BY CampaignsAssumption
<1> HIDE DEF Amounts
<1> QED BY <1>2, <1>4, <1>5, <1>6

\* A step of w that takes nothing off and puts nothing back.
LEMMA QuietStep ==
  ASSUME Book, Shape, Shape', Typed, Typed', NEW w \in Workers, NEW h, Now(w, h),
         UNCHANGED <<sold, tiers>>, \A p : Open(p)' <=> Open(p),
         early \subseteq early', again \subseteq again', stale \subseteq stale',
         h.pc = "write" => /\ Purchase(w).brand' \in DOMAIN tiers
                           /\ h.left = tiers[Purchase(w).brand']
  PROVE  Book'
<1>1. hand'[w] = h /\ \A v \in Workers : v # w => hand'[v] = hand[v]
  BY HandFacts DEF Shape
<1>2. SoldTyped /\ SoldTyped' /\ TablesTyped
  BY DEF Typed
<1>3. \A b : Settled(b)' = Settled(b) /\ Due(b)' = Due(b)
  BY <1>2, DueKept
<1>4. \A v \in Workers : At(v, "write")' =>
            \/ At(v, "write") /\ hand'[v] = hand[v]
            \/ Purchase(v).brand' \in DOMAIN tiers /\ hand'[v].left = tiers[Purchase(v).brand']
  BY <1>1 DEF At
<1> QED BY <1>2, <1>3, <1>4, BookKept

\* The contract's own steps: what it sells is open.
LEMMA BuyBook ==
  ASSUME Book, Apart, Shape, Shape', Typed, Typed',
         NEW p \in Purchases, NEW b \in Brands, NEW n \in 1..Total, Buy(p, b, n)
  PROVE  Apart' /\ Book'
<1>1. /\ p \notin DOMAIN sold /\ sold' = With(sold, p, [brand |-> b, amount |-> n])
      /\ queue' = Append(queue, Bought(p))
      /\ UNCHANGED <<hand, tiers, dead, early, again, stale>>
  BY DEF Buy, tables, history, Bought
<1>2. Bought(p) \in Event /\ Bought(p).kind = "bought" /\ Bought(p).of = p
  BY DEF Bought, Event
<1>3. Apart' /\ \A q : Open(q)' <=> Open(q) \/ Bought(p) = Bought(q)
  BY <1>1, <1>2, ChainApart
<1>4. \A q : Bought(p) = Bought(q) <=> p = q
  BY DEF Bought
<1>5. /\ \A q \in DOMAIN sold : q \in DOMAIN sold' /\ sold'[q] = sold[q] /\ (Open(q)' <=> Open(q))
      /\ \A q \in DOMAIN sold' : q \notin DOMAIN sold => Open(q)'
  BY <1>1, <1>3, <1>4 DEF With
<1>6. SoldTyped /\ SoldTyped' /\ TablesTyped
  BY DEF Typed
<1>7. \A c : Settled(c)' = Settled(c) /\ Due(c)' = Due(c)
  BY <1>5, <1>6, DueKept
<1>8. \A v \in Workers : At(v, "write")' => At(v, "write") /\ hand'[v] = hand[v]
  BY <1>1 DEF At
<1>9. Book'
  BY <1>1, <1>5, <1>6, <1>7, <1>8, BookKept
<1> QED BY <1>3, <1>9

LEMMA CreateBrandBook ==
  ASSUME Book, Apart, Shape, Shape', Typed, Typed', NEW b \in Brands, CreateBrand(b)
  PROVE  Apart' /\ Book'
<1> DEFINE e == [kind |-> "brandCreated", of |-> b]
<1>1. /\ queue' = Append(queue, e)
      /\ UNCHANGED <<sold, hand, tiers, dead, early, again, stale>>
  BY DEF CreateBrand, tables, history
<1>2. e \in Event /\ e.kind # "bought" /\ \A q : e # Bought(q)
  BY DEF Event, Bought
<1> HIDE DEF e
<1>3. Apart' /\ \A q : Open(q)' <=> Open(q)
  BY <1>1, <1>2, ChainApart
<1>4. SoldTyped /\ SoldTyped' /\ TablesTyped
  BY DEF Typed
<1>5. \A c : Settled(c)' = Settled(c) /\ Due(c)' = Due(c)
  BY <1>1, <1>3, <1>4, DueKept
<1>6. \A v \in Workers : At(v, "write")' => At(v, "write") /\ hand'[v] = hand[v]
  BY <1>1 DEF At
<1>7. Book'
  BY <1>1, <1>4, <1>5, <1>6, BookKept
<1> QED BY <1>3, <1>7

LEMMA TakeBook ==
  ASSUME Book, Apart, Shape, Shape', Typed, Typed', NEW w \in Workers, Take(w)
  PROVE  Apart' /\ Book'
<1> DEFINE h == [pc |-> IF Head(queue).kind = "bought" THEN "find" ELSE "query",
                 event |-> Head(queue)]
<1>1. Now(w, h) /\ UNCHANGED <<sold, tiers, early, again, stale>>
  BY DEF Take, contract, tables, history
<1>2. Apart' /\ \A p : Open(p)' <=> Open(p)
  BY TakeApart
<1>3. h.pc # "write"
  OBVIOUS
<1> HIDE DEF h
<1>4. Book'
  BY <1>1, <1>2, <1>3, QuietStep
<1> QED BY <1>2, <1>4

\* The worker goes on with its event, which stays open or is a brand's.
LEMMA OnBook ==
  ASSUME Book, Apart, Shape, Shape', Typed, Typed', NEW w \in Workers, NEW h, Now(w, h),
         ~At(w, "idle"), h.pc # "idle", h.event = hand[w].event,
         \/ h.pc # "ack" /\ ~At(w, "ack")
         \/ hand[w].event.kind # "bought",
         UNCHANGED <<sold, queue, tiers, dead, early, again, stale>>,
         h.pc = "write" => /\ Purchase(w).brand' \in DOMAIN tiers
                           /\ h.left = tiers[Purchase(w).brand']
  PROVE  Apart' /\ Book'
<1>1. Apart' /\ \A p : Open(p)' <=> Open(p)
  BY GoesOn
<1> QED BY <1>1, QuietStep

LEMMA QueryBook ==
  ASSUME Book, Apart, Shape, Shape', Typed, Typed', NEW w \in Workers, Query(w)
  PROVE  Apart' /\ Book'
<1> DEFINE h == [pc |-> "save", event |-> hand[w].event,
                 list |-> {[brand |-> b, with |-> Of(b)] : b \in created}]
<1>1. /\ Now(w, h) /\ ~At(w, "idle") /\ ~At(w, "ack")
      /\ UNCHANGED <<sold, queue, tiers, dead, early, again, stale>>
  BY DEF Query, At, contract, tables, history
<1>2. h.pc = "save" /\ h.event = hand[w].event
  OBVIOUS
<1> HIDE DEF h
<1> QED BY <1>1, <1>2, OnBook

LEMMA SaveCampaignBook ==
  ASSUME Book, Apart, Shape, Shape', Typed, Typed', NEW w \in Workers, SaveCampaign(w)
  PROVE  Apart' /\ Book'
<1>1. /\ ~At(w, "idle") /\ ~At(w, "ack")
      /\ UNCHANGED <<sold, queue, tiers, dead, early, again, stale>>
  BY DEF SaveCampaign, At, contract, history
<1>2. PICK s \in hand[w].list :
        Now(w, IF Known(s)
               THEN [pc |-> "save", event |-> hand[w].event, list |-> hand[w].list \ {s}]
               ELSE [pc |-> "tier", event |-> hand[w].event, list |-> hand[w].list \ {s},
                     one |-> s])
  BY DEF SaveCampaign, Others
<1> DEFINE h == IF Known(s)
                THEN [pc |-> "save", event |-> hand[w].event, list |-> hand[w].list \ {s}]
                ELSE [pc |-> "tier", event |-> hand[w].event, list |-> hand[w].list \ {s},
                      one |-> s]
<1>3. h.pc \in {"save", "tier"} /\ h.event = hand[w].event /\ Now(w, h)
  BY <1>2
<1> HIDE DEF h
<1> QED BY <1>1, <1>3, OnBook

LEMMA SavedBook ==
  ASSUME Book, Apart, Shape, Shape', Typed, Typed', NEW w \in Workers, Saved(w)
  PROVE  Apart' /\ Book'
<1> DEFINE h == [pc |-> "ack", event |-> hand[w].event]
<1>1. /\ Now(w, h) /\ hand[w].pc = "save" /\ ~At(w, "idle")
      /\ UNCHANGED <<sold, queue, tiers, dead, early, again, stale>>
  BY DEF Saved, Stays, At, contract, tables, history
<1>2. hand[w].event.kind # "bought"
  BY <1>1 DEF Typed, HandBooked
<1>3. h.pc = "ack" /\ h.event = hand[w].event
  OBVIOUS
<1> HIDE DEF h
<1> QED BY <1>1, <1>2, <1>3, OnBook

\* The worker is done with its event, which was taken off or goes to dead.
LEMMA DoneBook ==
  ASSUME Book, Apart, Shape, Shape', Typed, Typed', NEW w \in Workers,
         Now(w, [pc |-> "idle"]), ~At(w, "idle"),
         \/ At(w, "ack") /\ dead' = dead
         \/ ~At(w, "ack") /\ dead' = dead \cup {hand[w].event},
         UNCHANGED <<sold, queue, tiers, early, again, stale>>
  PROVE  Apart' /\ Book'
<1> DEFINE h == [pc |-> "idle"]
<1>1. Now(w, h) /\ h.pc # "write"
  OBVIOUS
<1>2. Apart' /\ \A p : Open(p)' <=> Open(p)
  BY DoneWith
<1> HIDE DEF h
<1>3. Book'
  BY <1>1, <1>2, QuietStep
<1> QED BY <1>2, <1>3

LEMMA AckBook ==
  ASSUME Book, Apart, Shape, Shape', Typed, Typed', NEW w \in Workers, Ack(w)
  PROVE  Apart' /\ Book'
<1>1. /\ Now(w, [pc |-> "idle"]) /\ At(w, "ack") /\ ~At(w, "idle")
      /\ UNCHANGED <<sold, queue, tiers, dead, early, again, stale>>
  BY DEF Ack, At, contract, tables, history
<1> QED BY <1>1, DoneBook

LEMMA CallFailsBook ==
  ASSUME Book, Apart, Shape, Shape', Typed, Typed', NEW w \in Workers, CallFails(w)
  PROVE  Apart' /\ Book'
<1>1. /\ Now(w, [pc |-> "idle"]) /\ ~At(w, "ack") /\ ~At(w, "idle")
      /\ dead' = dead \cup {hand[w].event}
      /\ UNCHANGED <<sold, queue, tiers, early, again, stale>>
  BY DEF CallFails, Dies, At, contract, tables
<1> QED BY <1>1, DoneBook

LEMMA FindBook ==
  ASSUME Book, Apart, Shape, Shape', Typed, Typed', NEW w \in Workers, Find(w)
  PROVE  Apart' /\ Book'
<1>1. /\ ~At(w, "idle") /\ ~At(w, "ack")
      /\ UNCHANGED <<sold, queue, tiers, early, again, stale>>
  BY DEF Find, At, contract, tables, history
<1>2. CASE Purchase(w).brand \in campaigns
  <2> DEFINE h == [pc |-> "read", event |-> hand[w].event]
  <2>1. Now(w, h) /\ dead' = dead /\ h.pc = "read" /\ h.event = hand[w].event
    BY <1>2 DEF Find, Stays
  <2> HIDE DEF h
  <2> QED BY <1>1, <2>1, OnBook
<1>3. CASE Purchase(w).brand \notin campaigns
  <2>1. Now(w, [pc |-> "idle"]) /\ dead' = dead \cup {hand[w].event}
    BY <1>3 DEF Find, Dies
  <2> QED BY <1>1, <2>1, DoneBook
<1> QED BY <1>2, <1>3

LEMMA ReadBook ==
  ASSUME Book, Apart, Shape, Shape', Typed, Typed', NEW w \in Workers, Read(w)
  PROVE  Apart' /\ Book'
<1> DEFINE b == Purchase(w).brand
<1>1. /\ ~At(w, "idle") /\ ~At(w, "ack")
      /\ UNCHANGED <<sold, queue, tiers, early, again, stale>>
  BY DEF Read, At, contract, tables, history
<1>2. CASE b \in DOMAIN tiers
  <2> DEFINE h == [pc |-> "write", event |-> hand[w].event, left |-> tiers[b]]
  <2>1. Now(w, h) /\ dead' = dead /\ h.pc = "write" /\ h.event = hand[w].event /\ h.left = tiers[b]
    BY <1>2 DEF Read
  <2>2. hand'[w] = h
    BY <2>1, HandFacts DEF Shape
  <2> HIDE DEF h
  <2>3. Purchase(w).brand' = b
    BY <1>1, <2>1, <2>2 DEF Purchase
  <2>4. Purchase(w).brand' \in DOMAIN tiers /\ h.left = tiers[Purchase(w).brand']
    BY <1>2, <2>1, <2>3
  <2> QED BY <1>1, <2>1, <2>4, OnBook
<1>3. CASE b \notin DOMAIN tiers
  <2>1. Now(w, [pc |-> "idle"]) /\ dead' = dead \cup {hand[w].event}
    BY <1>3 DEF Read, Dies
  <2> QED BY <1>1, <2>1, DoneBook
<1> QED BY <1>2, <1>3

\* A new campaign's tier: nothing of it has been taken off.
LEMMA SaveTierBook ==
  ASSUME Book, Apart, Shape, Shape', Typed, Typed', EveryCampaignHasTier,
         NEW w \in Workers, SaveTier(w)
  PROVE  Apart' /\ Book'
<1> DEFINE s == hand[w].one
           h == [pc |-> "save", event |-> hand[w].event, list |-> hand[w].list]
<1>1. /\ Now(w, h) /\ hand[w].pc = "tier" /\ ~At(w, "idle") /\ ~At(w, "ack")
      /\ tiers' = With(tiers, s.brand, LeftWithout(s.with))
      /\ early' = IF s.with = {} THEN early ELSE early \cup {s.brand}
      /\ UNCHANGED <<sold, queue, dead, again, stale>>
  BY DEF SaveTier, At, contract
<1>2. h.pc = "save" /\ h.event = hand[w].event
  OBVIOUS
<1>3. s.with \subseteq DOMAIN sold /\ s.brand \in Brands /\ hand[w].pc = "tier"
  BY <1>1 DEF Typed, HandBooked, Shape, HandOK
<1>4. s.brand \notin DOMAIN tiers
  BY <1>1, <1>3 DEF EveryCampaignHasTier, Saves, At
<1> HIDE DEF h, s
<1>5. Apart' /\ \A p : Open(p)' <=> Open(p)
  BY <1>1, <1>2, GoesOn
<1>6. SoldTyped /\ SoldTyped' /\ TablesTyped
  BY DEF Typed
<1>7. \A b : /\ Settled(b)' = Settled(b) /\ Due(b)' = Due(b)
             /\ Due(b) = Total - SumOf(Amounts(sold), Settled(b)) /\ Due(b) \in Int
  BY <1>1, <1>5, <1>6, DueKept, DueIs
<1>8. /\ DOMAIN tiers' = DOMAIN tiers \cup {s.brand}
      /\ tiers'[s.brand] = LeftWithout(s.with)
      /\ \A b \in DOMAIN tiers : b # s.brand => tiers'[b] = tiers[b]
  BY <1>1 DEF With
<1>9. Settled(s.brand) = {}
  BY <1>3, <1>4 DEF Book
<1>10. Due(s.brand) = Total
  <2>1. SumOf(Amounts(sold), {}) = 0
    BY EmptySum
  <2>2. Total \in Int
    BY CampaignsAssumption
  <2> QED BY <1>7, <1>9, <2>1, <2>2
<1>11. /\ LeftWithout(s.with) <= Total
       /\ s.with = {} => LeftWithout(s.with) = Total
  BY <1>3, <1>6, LeftAtMost
<1>12. ASSUME NEW b \in DOMAIN tiers'
       PROVE  /\ tiers'[b] > Due(b)' => b \in stale'
              /\ tiers'[b] < Due(b)' => b \in early' \cup again'
  <2>1. CASE b = s.brand
    <3>1. tiers'[b] = LeftWithout(s.with) /\ Due(b)' = Total
      BY <1>7, <1>8, <1>10, <2>1
    <3>2. LeftWithout(s.with) \in Int
      BY <1>3, <1>6, LeftTyped
    <3>3. s.with # {} => b \in early'
      BY <1>1, <2>1
    <3> QED BY <1>11, <3>1, <3>2, <3>3, CampaignsAssumption
  <2>2. CASE b # s.brand
    <3>1. b \in DOMAIN tiers /\ tiers'[b] = tiers[b]
      BY <1>8, <2>2
    <3>2. early \subseteq early'
      BY <1>1
    <3> QED BY <1>1, <1>7, <3>1, <3>2 DEF Book, LeftIsExplained
  <2> QED BY <2>1, <2>2
<1>13. ASSUME NEW v \in Workers, At(v, "write")', hand'[v].left < Due(Purchase(v).brand)'
       PROVE  Purchase(v).brand' \in early' \cup again'
  <2>1. hand'[v] = hand[v] /\ At(v, "write")
    BY <1>1, <1>2, <1>13, HandFacts DEF At, Shape
  <2>2. Purchase(v)' = Purchase(v)
    BY <1>1, <2>1, SamePurchase
  <2> PICK b : b = Purchase(v).brand'
    OBVIOUS
  <2>3. hand'[v].left < Due(b)'
    BY <1>13
  <2>4. hand[v].left < Due(b) /\ b = Purchase(v).brand
    BY <1>7, <2>1, <2>2, <2>3
  <2> QED BY <1>1, <2>1, <2>4 DEF Book
<1>14. Book'
  <2>1. \A b \in Brands : b \notin DOMAIN tiers' => Settled(b)' = {}
    BY <1>7, <1>8 DEF Book
  <2>2. LeftIsExplained'
    BY <1>12 DEF LeftIsExplained
  <2> QED BY <1>13, <2>1, <2>2 DEF Book
<1> QED BY <1>5, <1>14

\* A purchase is taken off: from what the tier says, or from what it said.
LEMMA WriteBook ==
  ASSUME Book, Apart, Shape, Shape', Typed, Typed', TiersKnown, NEW w \in Workers, Write(w)
  PROVE  Apart' /\ Book'
<1> DEFINE c == Purchase(w).brand
           n == Purchase(w).amount
           p == hand[w].event.of
           h == [pc |-> "ack", event |-> hand[w].event]
<1>1. /\ Now(w, h) /\ hand[w].pc = "write" /\ ~At(w, "idle") /\ ~At(w, "ack")
      /\ tiers' = With(tiers, c, Less(hand[w].left, n))
      /\ stale' = IF tiers[c] = hand[w].left THEN stale ELSE stale \cup {c}
      /\ UNCHANGED <<sold, queue, dead, early, again>>
  BY DEF Write, At, Stays, contract
<1>2. h.pc = "ack" /\ h.event = hand[w].event
  OBVIOUS
<1>3. p \in DOMAIN sold /\ hand[w].event = Bought(p)
  <2>1. hand[w].event.kind = "bought" /\ hand[w].event \in Event
    BY <1>1 DEF Shape, HandOK
  <2>2. hand[w].event = [kind |-> hand[w].event.kind, of |-> hand[w].event.of]
    BY <2>1 DEF Event
  <2> QED BY <1>1, <2>1, <2>2 DEF Shape, HandOK, Happened, Bought
<1>4. c = sold[p].brand /\ n = sold[p].amount /\ c \in Brands /\ n \in Int
  BY <1>3 DEF Purchase, Typed, SoldTyped
<1>5. c \in DOMAIN tiers
  BY <1>1 DEF TiersKnown, At
<1>6. hand[w].left \in Int
  <2>1. hand[w] \in Hand
    BY DEF Typed, HandBooked
  <2> QED BY <1>1, <2>1, HandCases
<1> HIDE DEF c, n, h
<1>7. Apart'
  BY <1>1, <1>2, GoesOn
<1>8. hand'[w] = h /\ \A v \in Workers : v # w => hand'[v] = hand[v]
  BY <1>1, HandFacts DEF Shape
<1>9. Open(p) /\ \A q : Open(q)' <=> Open(q) /\ q # p
  BY <1>1, <1>2, <1>3, WriteOpens
<1>10. SoldTyped /\ SoldTyped' /\ TablesTyped
  BY DEF Typed
<1>11. \A b : /\ Settled(b)' = IF b = c THEN Settled(b) \cup {p} ELSE Settled(b)
              /\ Due(b)' = IF b = c THEN Due(b) - n ELSE Due(b)
              /\ Due(b) \in Int
  <2>1. UNCHANGED sold
    BY <1>1
  <2> HIDE DEF p
  <2> QED BY <1>3, <1>4, <1>9, <1>10, <2>1, DueTaken, DueIs
<1>12. /\ DOMAIN tiers' = DOMAIN tiers
       /\ tiers'[c] = hand[w].left - n
       /\ \A b \in DOMAIN tiers : b # c => tiers'[b] = tiers[b]
  BY <1>1, <1>5 DEF With, Less
<1>13. \A b \in DOMAIN tiers : /\ tiers[b] \in Int
                               /\ tiers[b] > Due(b) => b \in stale
                               /\ tiers[b] < Due(b) => b \in early \cup again
  BY <1>10 DEF TablesTyped, Book, LeftIsExplained
<1>14. hand[w].left < Due(c) => c \in early \cup again
  BY <1>1 DEF Book, At, c
<1>15. ASSUME NEW b \in DOMAIN tiers'
       PROVE  /\ tiers'[b] > Due(b)' => b \in stale'
              /\ tiers'[b] < Due(b)' => b \in early' \cup again'
  <2>1. CASE b = c
    <3>1. tiers'[b] = hand[w].left - n /\ Due(b)' = Due(c) - n /\ Due(c) \in Int
      BY <1>11, <1>12, <2>1
    <3>2. tiers[c] \in Int /\ (tiers[c] > Due(c) => c \in stale)
      BY <1>5, <1>13
    <3>3. hand[w].left > Due(c) => c \in stale'
      BY <1>1, <3>1, <3>2
    <3> DEFINE l == hand[w].left
               d == Due(c)
    <3>4. tiers'[b] = l - n /\ Due(b)' = d - n /\ l \in Int /\ d \in Int /\ n \in Int
      BY <1>4, <1>6, <3>1
    <3> HIDE DEF l, d
    <3>5. (tiers'[b] > Due(b)' => l > d) /\ (tiers'[b] < Due(b)' => l < d)
      BY <3>4
    <3> QED BY <1>1, <1>14, <2>1, <3>3, <3>5 DEF l, d
  <2>2. CASE b # c
    <3>1. Due(b)' = Due(b) /\ tiers'[b] = tiers[b] /\ b \in DOMAIN tiers
      BY <1>11, <1>12, <2>2
    <3>2. stale \subseteq stale'
      BY <1>1
    <3> QED BY <1>1, <1>13, <3>1, <3>2
  <2> QED BY <2>1, <2>2
<1>16. ASSUME NEW v \in Workers, At(v, "write")', hand'[v].left < Due(Purchase(v).brand)'
       PROVE  Purchase(v).brand' \in early' \cup again'
  <2>1. hand'[v] = hand[v] /\ At(v, "write")
    BY <1>2, <1>8, <1>16 DEF At
  <2>2. Purchase(v)' = Purchase(v)
    BY <1>1, <2>1, SamePurchase
  <2> PICK b : b = Purchase(v).brand'
    OBVIOUS
  <2>3. hand[v].left < Due(b)' /\ b = Purchase(v).brand
    BY <1>16, <2>1, <2>2
  <2>4. hand[v].left \in Int
    <3>1. hand[v] \in Hand
      BY DEF Typed, HandBooked
    <3> QED BY <2>1, <3>1, HandCases DEF At
  <2>5. n \in Nat
    BY <1>3, <1>4 DEF Typed, SoldTyped
  <2>6. hand[v].left < Due(b)
    BY <1>11, <2>3, <2>4, <2>5
  <2> QED BY <1>1, <2>1, <2>3, <2>6 DEF Book
<1>17. Book'
  <2>1. \A b \in Brands : b \notin DOMAIN tiers' => Settled(b)' = {}
    BY <1>5, <1>11, <1>12 DEF Book
  <2>2. LeftIsExplained'
    BY <1>15 DEF LeftIsExplained
  <2> QED BY <1>16, <2>1, <2>2 DEF Book
<1> QED BY <1>7, <1>17

\* A restart puts the worker's event back, which counts if it was taken off.
LEMMA CrashBook ==
  ASSUME Book, Apart, Shape, Shape', Typed, Typed', NEW w \in Workers, Crash(w)
  PROVE  Apart' /\ Book'
<1> DEFINE h == [pc |-> "idle"]
           e == hand[w].event
           p == e.of
<1>1. /\ Now(w, h) /\ ~At(w, "idle")
      /\ again' = IF At(w, "ack") /\ e.kind = "bought"
                  THEN again \cup {Purchase(w).brand} ELSE again
      /\ UNCHANGED <<sold, tiers, early, stale>>
  BY DEF Crash, contract, tables
<1>2. h.pc # "write"
  OBVIOUS
<1> HIDE DEF h
<1>3. Apart' /\ \A q : Open(q)' <=> Open(q) \/ e = Bought(q)
  BY CrashApart
<1>4. e \in Event /\ (e.kind = "bought" => p \in DOMAIN sold)
  BY <1>1 DEF Shape, HandOK, Happened, At
<1>5. \A q : e = Bought(q) <=> e.kind = "bought" /\ q = p
  <2>1. e = [kind |-> e.kind, of |-> e.of]
    BY <1>4 DEF Event
  <2> HIDE DEF e
  <2> QED BY <2>1 DEF Bought
<1>6. queue \in Seq(Event)
  BY DEF Shape
<1>7. CASE e.kind # "bought" \/ ~At(w, "ack")
  <2>1. \A q : Open(q)' <=> Open(q)
    <3>1. ASSUME NEW q, e = Bought(q) PROVE Open(q)
      <4>1. ~At(w, "ack") /\ hand[w].event = Bought(q)
        BY <1>5, <1>7, <3>1
      <4> QED BY <1>1, <1>6, <4>1, OpenIs
    <3> QED BY <1>3, <3>1
  <2>2. again' = again
    BY <1>1, <1>7
  <2>3. Book'
    BY <1>1, <1>2, <2>1, <2>2, QuietStep
  <2> QED BY <1>3, <2>3
<1>8. CASE e.kind = "bought" /\ At(w, "ack")
  <2>1. p \in DOMAIN sold /\ again' = again \cup {sold[p].brand}
    BY <1>1, <1>4, <1>8 DEF Purchase
  <2>2. \A q : Open(q)' <=> Open(q) \/ q = p
    BY <1>3, <1>5, <1>8
  <2>3. SoldTyped /\ SoldTyped' /\ TablesTyped
    BY DEF Typed
  <2> HIDE DEF p
  <2>4. \A b : /\ Settled(b)' \subseteq Settled(b)
               /\ b # sold[p].brand => Due(b)' = Due(b)
               /\ Due(b)' >= Due(b)
    BY <1>1, <2>1, <2>2, <2>3, DueAgain
  <2>5. \A v \in Workers : At(v, "write")' => At(v, "write") /\ hand'[v] = hand[v]
    BY <1>1, <1>2, HandFacts DEF At, Shape
  <2>6. \A b \in Brands : /\ Settled(b)' \subseteq Settled(b)
                          /\ Due(b)' = Due(b) \/ (Due(b)' >= Due(b) /\ b \in again')
    BY <2>1, <2>4
  <2>7. early \subseteq early' /\ again \subseteq again' /\ stale \subseteq stale'
    BY <1>1, <2>1
  <2>8. Book'
    BY <1>1, <2>3, <2>5, <2>6, <2>7, BookKept
  <2> QED BY <1>3, <2>8
<1> QED BY <1>7, <1>8

LEMMA StutterBook ==
  ASSUME Book, Apart, Shape, Shape', Typed, Typed', UNCHANGED vars
  PROVE  Apart' /\ Book'
<1>1. UNCHANGED <<sold, queue, hand, tiers, dead, early, again, stale>>
  BY DEF vars, contract, tables, history
<1>2. Apart'
  BY <1>1 DEF Apart, At
<1>3. \A p : Open(p)' <=> Open(p)
  BY <1>1 DEF Open, Queued, InHand, At
<1>4. SoldTyped /\ SoldTyped' /\ TablesTyped
  BY DEF Typed
<1>5. \A c : Settled(c)' = Settled(c) /\ Due(c)' = Due(c)
  BY <1>1, <1>3, <1>4, DueKept
<1>6. \A v \in Workers : At(v, "write")' => At(v, "write") /\ hand'[v] = hand[v]
  BY <1>1 DEF At
<1>7. Book'
  BY <1>1, <1>4, <1>5, <1>6, BookKept
<1> QED BY <1>2, <1>7

\* The accounts rest on the rest of the invariant, which does not need them.
AllInv == IndInv /\ Typed /\ Apart /\ Book

LEMMA NextBook == AllInv /\ [Next]_vars => AllInv'
<1> SUFFICES ASSUME AllInv, [Next]_vars PROVE AllInv'
  OBVIOUS
<1>1. /\ IndInv /\ Shape /\ TiersKnown /\ EveryCampaignHasTier
      /\ Typed /\ Apart /\ Book
  BY DEF AllInv, IndInv
<1>2. IndInv' /\ Shape'
  BY <1>1, NextKept DEF IndInv
<1>3. Typed'
  BY <1>1, NextTyped
<1>4. CASE Chain
  BY <1>1, <1>2, <1>3, <1>4, CreateBrandBook, BuyBook DEF Chain, AllInv
<1>5. ASSUME NEW w \in Workers, Work(w) PROVE Apart' /\ Book'
  <2>1. CASE Take(w) \/ Query(w) \/ SaveCampaign(w) \/ Saved(w)
    BY <1>1, <1>2, <1>3, <2>1, TakeBook, QueryBook, SaveCampaignBook, SavedBook
  <2>2. CASE SaveTier(w) \/ Write(w)
    BY <1>1, <1>2, <1>3, <2>2, SaveTierBook, WriteBook
  <2>3. CASE Find(w) \/ Read(w) \/ Ack(w)
    BY <1>1, <1>2, <1>3, <2>3, FindBook, ReadBook, AckBook
  <2> QED BY <1>5, <2>1, <2>2, <2>3 DEF Work
<1>6. ASSUME NEW w \in Workers, Crash(w) \/ CallFails(w) PROVE Apart' /\ Book'
  BY <1>1, <1>2, <1>3, <1>6, CrashBook, CallFailsBook
<1>7. CASE UNCHANGED vars
  BY <1>1, <1>2, <1>3, <1>7, StutterBook DEF AllInv
<1> QED BY <1>2, <1>3, <1>4, <1>5, <1>6, <1>7 DEF Next, AllInv

\* Whatever workers, restarts, failed calls and redeliveries do in between, what
\* a tier says is left (availableNfts) is too high only if a tier was saved over
\* the purchase of another worker, and too low only if the campaign was saved
\* with purchases still queued, or a purchase was handled twice (saveTier,
\* updateTier).
THEOREM LeftExplained == Spec => []LeftIsExplained
<1>1. Init => AllInv
  BY InitKept, InitTyped, InitApart, InitBook DEF AllInv
<1>2. AllInv /\ [Next]_vars => AllInv'
  BY NextBook
<1>3. AllInv => LeftIsExplained
  BY DEF AllInv, Book
<1> QED BY <1>1, <1>2, <1>3, PTL DEF Spec
=============================================================================
