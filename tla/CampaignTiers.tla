---------------------------- MODULE CampaignTiers ----------------------------
(***************************************************************************)
(* The NFTs a minter's campaigns have left (minter-events.service.ts,      *)
(* campaigns.service.ts).                                                  *)
(*                                                                         *)
(* A minter contract has brands, each with a number of NFTs to mint.  When *)
(* a brand is created the service asks the contract for all its brands and *)
(* saves those it does not have yet, each as a campaign and then its tier; *)
(* when NFTs are bought it reads the tier, takes them off and saves it.    *)
(* Both follow the events of the chain, which are queued and consumed by   *)
(* several workers, while the contract is asked for its present state.     *)
(*                                                                         *)
(* There is one minter and one tier per brand; an event is a block of its  *)
(* own, and every worker an instance of its own.  The cached list of the   *)
(* campaigns is left out.                                                  *)
(***************************************************************************)
EXTENDS Integers, Sequences, FiniteSetsExt

CONSTANTS
    Brands,     \* the brands of the minter
    Purchases,  \* calls of buyRandomNft
    Workers,    \* the consumer's slots
    Total,      \* NFTs to mint in every brand
    MaxFaults   \* bound: restarts and failed calls

ASSUME CampaignsAssumption == Total \in Nat \ {0} /\ MaxFaults \in Nat

VARIABLES
    created,    \* the contract: its brands
    sold,       \* the contract: of which brand each purchase is, and how many
    queue,      \* the events to consume
    hand,       \* what each worker is doing
    campaigns,  \* the table campaigns
    tiers,      \* the table tiers: availableNfts of the campaigns that have one
    faults,     \* restarts and failed calls so far
    dead,       \* the dead letter exchange
    orphans,    \* history: campaigns whose tier a fault kept from being saved
    early,      \* history: brands saved while purchases they count were queued
    again,      \* history: brands with a purchase delivered after it was saved
    stale       \* history: brands whose tier was saved over another purchase

contract == <<created, sold>>
tables   == <<campaigns, tiers>>
history  == <<orphans, early, again, stale>>
vars     == <<contract, queue, hand, tables, faults, dead, history>>

Event == [kind : {"brandCreated"}, of : Brands] \cup [kind : {"bought"}, of : Purchases]

\* A brand as the contract shows it, with the purchases it counts.
Shown == [brand : Brands, with : SUBSET Purchases]

Hand == [pc : {"idle"}]
    \cup [pc : {"query", "find", "read", "ack"}, event : Event]
    \cup [pc : {"save"}, event : Event, list : SUBSET Shown]
    \cup [pc : {"tier"}, event : Event, list : SUBSET Shown, one : Shown]
    \cup [pc : {"write"}, event : Event, left : Int]

TypeOK ==
    /\ created \subseteq Brands
    /\ DOMAIN sold \subseteq Purchases
    /\ sold \in [DOMAIN sold -> [brand : Brands, amount : 1..Total]]
    /\ queue \in Seq(Event) /\ dead \subseteq Event
    /\ hand \in [Workers -> Hand]
    /\ campaigns \subseteq Brands
    /\ DOMAIN tiers \subseteq Brands /\ tiers \in [DOMAIN tiers -> Int]
    /\ faults \in 0..MaxFaults
    /\ orphans \subseteq Brands /\ early \subseteq Brands
    /\ again \subseteq Brands /\ stale \subseteq Brands

Init ==
    /\ created = {} /\ sold = [p \in {} |-> 0]
    /\ queue = <<>> /\ dead = {}
    /\ hand = [w \in Workers |-> [pc |-> "idle"]]
    /\ campaigns = {} /\ tiers = [b \in {} |-> 0]
    /\ faults = 0
    /\ orphans = {} /\ early = {} /\ again = {} /\ stale = {}

\* f with the value v for x, whether it had one or not.
With(f, x, v) == [y \in DOMAIN f \cup {x} |-> IF y = x THEN v ELSE f[y]]

----------------------------------------------------------------------------
(* The contract                                                             *)

Of(b) == {p \in DOMAIN sold : sold[p].brand = b}
LeftWithout(ps) == Total - MapThenSumSet(LAMBDA p : sold[p].amount, ps)

CreateBrand(b) ==
    /\ b \notin created
    /\ created' = created \cup {b}
    /\ queue' = Append(queue, [kind |-> "brandCreated", of |-> b])
    /\ UNCHANGED <<sold, hand, tables, faults, dead, history>>

Buy(p, b, n) ==
    /\ p \notin DOMAIN sold /\ b \in created /\ n <= LeftWithout(Of(b))
    /\ sold' = With(sold, p, [brand |-> b, amount |-> n])
    /\ queue' = Append(queue, [kind |-> "bought", of |-> p])
    /\ UNCHANGED <<created, hand, tables, faults, dead, history>>

----------------------------------------------------------------------------
(* The consumer                                                             *)

At(w, pc) == hand[w].pc = pc
Now(w, h) == hand' = [hand EXCEPT ![w] = h]
Stays(w, pc) == Now(w, [pc |-> pc, event |-> hand[w].event])

Take(w) ==
    /\ At(w, "idle") /\ queue # <<>>
    /\ queue' = Tail(queue)
    /\ Now(w, [pc |-> IF Head(queue).kind = "bought" THEN "find" ELSE "query",
               event |-> Head(queue)])
    /\ UNCHANGED <<contract, tables, faults, dead, history>>

\* What the consumer does after the event (analytics, reindex) may still throw: the
\* block then goes to the dead letters with its purchase counted, which changes
\* nothing here.
Ack(w) ==
    /\ At(w, "ack") /\ Now(w, [pc |-> "idle"])
    /\ UNCHANGED <<contract, queue, tables, faults, dead, history>>

\* An error: the block goes to the dead letter exchange.
Dies(w) == Now(w, [pc |-> "idle"]) /\ dead' = dead \cup {hand[w].event}

(* saveCampaign                                                             *)

\* getCampaignsForScAddress: all the brands of the minter, as they are now.
Query(w) ==
    /\ At(w, "query")
    /\ Now(w, [pc |-> "save", event |-> hand[w].event,
               list |-> {[brand |-> b, with |-> Of(b)] : b \in created}])
    /\ UNCHANGED <<contract, queue, tables, faults, dead, history>>

\* Faulty variant: what the contract returns is saved as it is.
AsShown(s) == s

\* CampaignEntity.fromCampaignAbi
RowOf(s) == s.brand

\* Faulty variant: a campaign that exists ends the loop (return).
RestAfter(list, s, known) == IF known THEN {} ELSE list \ {s}

\* The loop goes on with the others (continue).
Others(list, s, known) == list \ {s}

\* Faulty variant: looked up by its tier, without the unique key.
HasTier(s) == s.brand \in DOMAIN tiers

\* CampaignEntity_UQ
Known(s) == s.brand \in campaigns

\* One campaign of the loop, in any order: one that exists is left as it is
\* (MYSQL_ALREADY_EXISTS), with its tier; a new one waits for its tier.
SaveCampaign(w) ==
    /\ At(w, "save")
    /\ \E s \in hand[w].list :
         LET known == Known(s)
             list == Others(hand[w].list, s, known)
         IN  /\ campaigns' = IF known THEN campaigns ELSE campaigns \cup {RowOf(s)}
             /\ Now(w, IF known
                       THEN [pc |-> "save", event |-> hand[w].event, list |-> list]
                       ELSE [pc |-> "tier", event |-> hand[w].event, list |-> list,
                             one |-> s])
    /\ UNCHANGED <<contract, queue, tiers, faults, dead, history>>

\* saveTiers: availableNfts as the contract showed it.
SaveTier(w) ==
    /\ At(w, "tier")
    /\ LET s == hand[w].one
       IN  /\ tiers' = With(tiers, s.brand, LeftWithout(s.with))
           /\ early' = IF s.with = {} THEN early ELSE early \cup {s.brand}
    /\ Now(w, [pc |-> "save", event |-> hand[w].event, list |-> hand[w].list])
    /\ UNCHANGED <<contract, queue, campaigns, faults, dead, orphans, again, stale>>

Saved(w) ==
    /\ At(w, "save") /\ hand[w].list = {}
    /\ Stays(w, "ack")
    /\ UNCHANGED <<contract, queue, tables, faults, dead, history>>

(* updateTier                                                               *)

Purchase(w) == sold[hand[w].event.of]

\* getCampaign: without a campaign the handler throws.
Find(w) ==
    /\ At(w, "find")
    /\ IF Purchase(w).brand \in campaigns THEN Stays(w, "read") /\ dead' = dead
                                          ELSE Dies(w)
    /\ UNCHANGED <<contract, queue, tables, faults, history>>

\* getTier: without a tier it throws as well.
Read(w) ==
    /\ At(w, "read")
    /\ LET b == Purchase(w).brand
       IN  IF b \in DOMAIN tiers
           THEN Now(w, [pc |-> "write", event |-> hand[w].event, left |-> tiers[b]])
                /\ dead' = dead
           ELSE Dies(w)
    /\ UNCHANGED <<contract, queue, tables, faults, history>>

\* Faulty variant: always one NFT.
LessOne(left, n) == left - 1

\* availableNfts -= nftsBought
Less(left, n) == left - n

\* saveTier
Write(w) ==
    /\ At(w, "write")
    /\ LET b == Purchase(w).brand
       IN  /\ tiers' = With(tiers, b, Less(hand[w].left, Purchase(w).amount))
           /\ stale' = IF tiers[b] = hand[w].left THEN stale ELSE stale \cup {b}
    /\ Stays(w, "ack")
    /\ UNCHANGED <<contract, queue, campaigns, faults, dead, orphans, early, again>>

(* Faults                                                                   *)

\* A fault between a campaign and its tier.
Orphan(w) == orphans' = IF At(w, "tier") THEN orphans \cup {hand[w].one.brand} ELSE orphans

\* A restart of the worker's instance: the event is delivered again.
Crash(w) ==
    /\ ~At(w, "idle") /\ faults < MaxFaults
    /\ faults' = faults + 1
    /\ queue' = <<hand[w].event>> \o queue
    /\ again' = IF At(w, "ack") /\ hand[w].event.kind = "bought"
                THEN again \cup {Purchase(w).brand} ELSE again
    /\ Orphan(w)
    /\ Now(w, [pc |-> "idle"])
    /\ UNCHANGED <<contract, tables, dead, early, stale>>

\* A call of the contract or of the database fails.
CallFails(w) ==
    /\ hand[w].pc \notin {"idle", "ack"} /\ faults < MaxFaults
    /\ faults' = faults + 1
    /\ Dies(w) /\ Orphan(w)
    /\ UNCHANGED <<contract, queue, tables, early, again, stale>>

Chain ==
    \/ \E b \in Brands : CreateBrand(b)
    \/ \E p \in Purchases, b \in Brands, n \in 1..Total : Buy(p, b, n)

Work(w) == \/ Take(w) \/ Query(w) \/ SaveCampaign(w) \/ SaveTier(w) \/ Saved(w)
           \/ Find(w) \/ Read(w) \/ Write(w) \/ Ack(w)

Next == Chain \/ \E w \in Workers : Work(w) \/ Crash(w) \/ CallFails(w)

Spec == Init /\ [][Next]_vars /\ \A w \in Workers : WF_vars(Work(w))

----------------------------------------------------------------------------
(* Properties                                                               *)

InHand == {hand[w].event : w \in {v \in Workers : ~At(v, "idle") /\ ~At(v, "ack")}}
Queued == {queue[i] : i \in DOMAIN queue}

\* The purchases of b not yet taken off its tier, those of dead blocks included.
Pending(b) == {p \in Of(b) : [kind |-> "bought", of |-> p] \in Queued \cup InHand \cup dead}

\* What the tier of a campaign should say: what the contract has left, and the
\* purchases still to come.
Due(b) == LeftWithout(Of(b) \ Pending(b))

\* availableNfts is too high only when a tier was saved over the purchase of
\* another worker, and too low only when the campaign was saved late, with
\* purchases counted whose events were still queued, or when a restart had a
\* purchase handled twice (updateTier, saveCampaign).
LeftIsExplained ==
    \A b \in DOMAIN tiers :
        /\ tiers[b] > Due(b) => b \in stale
        /\ tiers[b] < Due(b) => b \in early \cup again

\* The worker that has saved a campaign and not yet its tier.
Saves(w, b) == At(w, "tier") /\ hand[w].one.brand = b

\* A campaign has its tier, or exactly one worker is about to save it, or a
\* fault came in between: then nobody ever saves it, because the campaign is
\* known (saveCampaign).
EveryCampaignHasTier ==
    /\ \A b \in campaigns :
         b \in DOMAIN tiers \/ b \in orphans \/ \E w \in Workers : Saves(w, b)
    /\ \A w \in Workers, b \in Brands : Saves(w, b) =>
         /\ b \in campaigns /\ b \notin DOMAIN tiers
         /\ \A v \in Workers : Saves(v, b) => v = w

\* Every brand becomes a campaign, unless the block that announced it failed
\* (handleNftMintEvents).
NewBrandsAppear ==
    \A b \in Brands :
        b \in created ~> \/ b \in campaigns
                         \/ [kind |-> "brandCreated", of |-> b] \in dead
=============================================================================
