# Verification of the NFT service

The NFT service indexes the NFT marketplaces of a chain. Most of it is a
read-only GraphQL API over MySQL, Redis, Elasticsearch and smart contract
queries; what can go wrong in ways a test hardly reaches is the part that
*writes*: consumers of blockchain events, crons and unawaited promises that
change the same MySQL rows, Redis entries and Elasticsearch documents at the
same time. This directory models that part in TLA+, checks it with TLC and
proves some of it with TLAPS.

## The system

The same program runs in several roles, chosen by flags (`main.ts`): public API,
private API, the RabbitMQ event processor, the claimable-auctions cron, the
cache warmer, the cache invalidation consumer, the Elasticsearch updater. The
roles share MySQL, Redis and Elasticsearch; they call each other only through
RabbitMQ queues and Redis pub/sub.

| part | state | operations | interacts with | what makes it hard |
|---|---|---|---|---|
| auction indexing (`rabbitmq/blockchain-events`, `auctions-setter.service.ts`, `order.service.ts`) | tables `auctions`, `orders` | one handler per marketplace event | contract queries, notifications, feed, cache invalidation | several blocks in hand at once, promises never awaited, whole-row saves of remembered rows, redelivery |
| claimable cron (`claimable.auction.service.ts`) | `auctions.status` | read expired Running rows, notify, save them Claimable | writes rows the handlers write | rows read long before they are saved |
| revert consumer (`revert-events.consumer.ts`, `revert.events.service.ts`) | `auctions`, `orders` | undo a block | writes rows the handlers write | not ordered with the handlers; deletes refused by foreign keys |
| notifications | table `notifications` | add, mark seen, clear | called from handlers and cron | unawaited, bulk save fails as a whole |
| offers | table `offers` | send, accept, withdraw, expire | auctions (an accepted offer closes one), notifications, cache | whole-row saves, unique index, no rollback |
| cache invalidation | local cache, Redis | publish, invalidate, refill | every writer | invalidation is published before the write |
| asset likes (`assets-likes.service.ts`, `redis-*-dataloader.handler.ts`) | table `assets_likes`, Redis counter, cached answers | add, remove, count, is liked | API callers, cache invalidation | the counter and the table change one after the other; caches filled from stale reads |
| marketplaces | tables `marketplaces`, Redis list of postponed blocks | whitelist, disable, enable | event consumer | replay of the postponed blocks races new ones |
| marketplace events and reindex | table `marketplace_events`, all auction tables | index, replay into a state, save | chain API | batch boundaries, states loaded from the database |
| campaigns | tables `campaigns`, `tiers` | save, decrement | mint events | read-modify-write |
| rarity, traits, scam, nsfw | Elasticsearch, Redis queues | enrich | crons, mint events | a popped collection is lost when its update fails |
| API queries, transactions, storage, metrics | none of their own | read, build a transaction | everything | pure queries and I/O |

For each part, what makes it correct:

- auctions and orders: the statuses in MySQL follow the chain; one active order
  per auction, and it is the highest bid; one order wins; what is sold adds up; a
  reverted block leaves nothing behind; no save of a remembered row changes facts;
- offers: a status is explained by an event or by the cron; an offer that is over
  stays over; those concerned are told; an expired offer leaves Active;
- likes: the counter agrees with the table; cached answers are not left behind;
  callers are told the truth;
- caches: what is read is not older than the last settled write;
- marketplaces: an event that arrives while a marketplace is disabled is handled
  once, after those before it;
- reindex: the tables rebuilt from stored events are those the handlers would have
  written, wherever the batches are cut;
- campaigns: available NFTs are those minted so far subtracted from the total;
- updaters: a queued collection is updated or queued again.

## Plan

In order of importance; all but the last is done.

1. `AuctionIndexer` with the abstract `AuctionBook` - auctions, orders, cron, reverts.
2. `OfferIndexer` - offers and their cron.
3. `AssetLikes` - the likes' counter and caches.
4. `DisabledMarketplace` - the life cycle of a marketplace and the events postponed
   in Redis.
5. `MarketplaceReindex` - cutting stored events into batches, and the save.
6. `CampaignTiers` - `saveCampaign` and `updateTier`.
7. `RarityQueue` - the queue of collections, the four jobs, the two copies of a rarity.
8. `AuctionCaches` - readers that refill, writers that publish before they write.
9. Not done: what the reindex handlers make of each event, against what the handlers
   of 1 and 2 write. As long as every batch is processed twice (see the findings)
   nearly every such reindex ends in the unique key.

A module with theorems has no RECURSIVE operator. One bound per counter, as a
constant in the guards.

## The modules

**`AuctionIndexer`**. The tables `auctions`, `orders` and `notifications` are the
variables of those names; a row keeps the columns that handlers change or test.
`log` is the canonical chain; `queue` holds the blocks RabbitMQ has not seen
acknowledged. `slot[w]` is a block in the consumer's hands: which event it is at and
what its handler remembers - the auction row, the active order, the inserted order.
A handler is one action per awaited read or write, so whatever it has read may be
stale when it writes: `BidRead`, `BidOrder`, `BidSave`, `BidOutbid`, `BidRetire`,
`Feed` are the steps of `bid-event.handler.ts` and of `updateAuctionOrders`.
`tasks` is the set of promises that handlers start and do not await; each is an
action of its own (`TaskStatus`, `TaskSaveAuction`, `TaskSettle`, ...) and may come
at any later moment. Two equal promises in flight are one element. `UpdatePrice`
also stands for the handlers of updated listings and swaps, whose new end date and
number of tokens are left out (a deadline and the tokens of an auction are fixed here),
and the kind `close` for accepted global offers. The two marketplaces whose auctions are
saved from the event, without asking the contract (`startAuction-event.handler.ts:54`),
are left out. `CronRead` ... `CronSave` are
`updateClaimableAuctions`; `RevertRead` ... `RevertAck` the revert consumer, with
the foreign keys that refuse to delete an auction orders or tags refer to.

**`AuctionBook`** is what readers of the tables are promised: bids only rise, one at
most is marked as won, it is the highest, and nothing follows it. `BooksBids` states
that `AuctionIndexer` implements it, with `bids` and `won` read off the orders.

**`OfferIndexer`**. An offer's other columns never change after the insert, so a
whole-row save is a change of status. `SendInsert` meets the unique index;
`OfferRead` and `OfferSave` are the two halves of accepting and withdrawing;
`AcceptClear` and the tasks change the notifications, by NFT and not by offer;
`SendAnnounce` tells the owner of the NFT, or, when the marketplace holds it, the owner
of its auction, and then files the notification under that auction (`told`);
`AuctionClears` is what the end, the maximum bid and the cron of the auctions do to
whatever is filed so (`updateNotificationStatus` has no type filter). A new bid also
clears the row its bidder has of the auction, by auction and owner: not modelled.
`CronRead`, `CronNotify`, `CronSave` are `updateExpiredOffers`.

**`AssetLikes`**. One NFT. What the others have to do with it is that the reader loads
counters in batches, and sets all of a batch again when Redis lacks one of them
(`InBatch`), so it may query and set a counter that is there. `call[c]` is
an API call with its program counter; `Load`, `Query`, `Fill` and `Bump` are the
counter (`loadLikesCount`, then increment or decrement), shared by `addLike`,
`removeLike`, the undoing of a failed save, and the reader of the count; `Look`,
`Fetch`, `Show` the reader of "is liked". `held` is a history variable: what the
table said of the caller's like since the call began.

**`DisabledMarketplace`**. `rows` is the table `marketplaces`, `cached` the copy of
it that the consumer finds, `postponed` the Redis list, `changes` the invalidations
published and not consumed: a call sends one per row, and any of them may be lost, as the
publisher swallows errors (`PublishFails`); `lost` remembers that none arrived. `slot[w]` is a block: the consumer reads three lists of
addresses one after the other (`ListFromCache`; if there is no copy it is read and
stored, `FetchTable`, `FillCache`), and then handles one part of the block and
postpones the other. `call[c]` is `disableMarketplace`, `enableMarketplace` or
`updateMarketplace`, one action per awaited step: read the rows, pop the list,
replay its first element, save the rows, publish. The number of rows an address has
matters, because each of them publishes. History variables record what was handled
in which order, what a call popped and dropped, and which blocks saw the table change
under them.

**`MarketplaceReindex`**. `table` is `marketplace_events` for one address; an event
has a timestamp, a transaction, the transaction it results from, and what it says of
an auction. `Read` is the promise of the next batch, which may resolve at any time
while the indexer adds rows (`Index`); `Take` cuts the newest timestamp off;
`ProcessSet` takes the next set of related events, unless the set may continue in
the next batch (`MustWait`); `PassEnds` is the return of
`processEventsBatchAndReturnUnprocessedEvents`, which the loop calls twice for every
batch, as the code does; `Flush`, `Save` and `SaveFails` are the two saves and the
unique key. `sets` is a history of which events were first processed together.

**`CampaignTiers`**. `created` and `sold` are the contract, which is always ahead of
`queue`. A worker asks the contract for the brands (`Query`), saves what it does not
have (`SaveCampaign`, then `SaveTier`), or reads, decrements and saves a tier
(`Find`, `Read`, `Write`); crashes and failing calls redeliver or dead-letter the
event. `early`, `again`, `stale` and `orphans` are histories of the four ways a tier
can go wrong, each set where its cause happens and not where its effect is seen. A failure
after the purchase is counted sends the block to the dead letters, which for the tiers is
an acknowledgement (`Ack`).

**`RarityQueue`**. `attributes` is what the chain says of each living NFT; `rows` and
`docs` are the two copies of a rarity - MySQL and the Elasticsearch document - each
reduced to the content of the collection it was computed from. `run[j]` is one of
the jobs: the queue every five minutes, the uncomputed every ten seconds, the
reindex and the validation once a day; `ReadApi`, `ReadDocs`, `SaveRows`, `SaveDocs`
are the awaits of `updateCollectionRarities`, the two saves in either order. The
first two jobs exclude each other on a collection (`Locker`), and what they skip is
never put back, as `updateTokenRarities` sees no error. Left out: a list of the API that
breaks off after some pages, a failed read of the documents when they are validated, and
that a job leaves at its first failed write while the others are under way.

**`AuctionCaches`**. `log` is the sequence of commits to `auctions` and `orders`;
what a query returns is the set of those it reflects, so that *stale* is exact: a
commit is not in the set. A write is a list of steps (`Steps`) in the order of the
code: publish, then save; a bid publishes once and saves twice; the writers that
publish nothing - rollbacks, and the bulk saves of the reindex - save only. A write whose
process restarts begins again, also a bid that would find its order. `clearing[w]` are the keys the message of `w` has still to delete. A reader
misses, asks a replica that has at least what all replicas have, and stores the
answer; `met` is the set of writes that were in progress while it worked.

**`MC...`** modules give the finite instances: symmetry (bidders, users and workers
are interchangeable; rows of one address are), the step `Finished` that lets a run
rest when nothing is left to do - so a deadlock anywhere else is reported - and the
calmer schedules named below.

Outside `src/`: RabbitMQ redelivers what was not acknowledged and does not requeue a
block whose handler threw (the consumer's `errorHandler` and dead letter exchange);
up to a prefetch of blocks are in hand; TypeORM's `save` inserts a row that is gone;
Redis answers a missing key with nothing and counts from zero. These are marked
external in `PROJECT.json`.

## The runs

| run | instance | shows |
|---|---|---|
| auction_sequential | 1 auction, 2 bidders, 5 events, amounts to 3, 1 worker | one bid leads, the highest wins, statuses follow the chain, refinement of `AuctionBook` |
| auction_sales | 3 auctions (bids; pieces; pieces found by identifier), 5 events, 2 reverts at rest | the bid before leads again, no order of a dropped block stays, order facts never change; the tokens add up and the last one ends the auction |
| auction_liveness | 1 bidder, price updates, closes, the cron, 1 crash or failure, 3 events | an acknowledged block has recorded its bids, what is over is not Running, an expired auction leaves Running for good |
| offer_life | 2 offers on 2 NFTs, one of them with an owner to tell and in an auction, cron, 1 crash or failure, 3 events | statuses are explained, those concerned are told, what is over stays over, an expired offer leaves Active |
| likes_calls | 2 users, 2 calls at once, 4 calls, 2 failed statements, 1 other fault of each kind | counter exact and answers fresh while calls stay apart; callers are told the truth and no like goes uncounted however they meet |
| likes_cold | 1 call at a time, no failure | **violated**: first finding |
| disabled_marketplace | 2 contracts, one with two rows, 2 blocks, 2 mutations at once, 1 fault | no event disappears between the lists, the oldest postponed block is replayed, the cached lists catch up unless no message was sent |
| reindex_batches | every table of 3 events at 3 timestamps, a fourth added at any await, batches of 2, with and without an upper bound | nothing that was there in time is skipped, transactions stay whole and in order, the reindex ends |
| reindex_twice | the same without the fourth | **violated**: second finding |
| campaign_tiers | 2 brands, 2 purchases of 1 or 2 of 2 NFTs, 2 workers, 1 fault | each wrong count has its cause, a campaign lacks its tier only after a fault, brands appear |
| rarity_queue | 1 NFT, 2 attributes, 2 changes, 1 fault, 2 of 4 jobs at once; or 2 NFTs, 1 attribute, 3 changes, 2 jobs | what is behind is on its way or was missed for a named reason, rows of burnt NFTs go, the daily job repairs all |
| auction_caches | 2 writes of any kind, 1 reader, 2 keys, 1 fault, any lag | each stale entry has a named cause, the caches end up right |

Every type invariant is proved; the runs that have room for it check it too.

Schedules narrower than the module's own, all in the `MC` modules: `PriceSettles`
(the chain waits for the unawaited save of a price), `CalmSpec` (a revert arrives at
rest), `OneTrade` (one kind of auction per history in `auction_sales`, so that one
run does the work of two), `Warm` and `Apart` (below), `Calm` (the marketplaces'
copy expires between blocks; messages drop it at any time), `InTurn` and `DisableFirst`
(a block is published when the one before is through, and the first call disables: with
one worker and every marketplace enabled nothing else shows).

`rarity_queue` chooses in its first state between two schedules: one NFT, where any
job and any fault may occur (`Alone`), or two NFTs without faults, where the daily
job may overwrite a right document while the queue's job is writing the other
(`Together`).

`likes_calls` chooses in its first state between two schedules: calls stay `apart`
(different users, no crash, Redis loses no increment, keys may expire between
calls) or meet (same user, crash, failing Redis, no expiry). `ExactWhenApart` and
`FreshWhenApart` are about the first, the others about both. In both, a call is alone
while it refills the counter, be it missing or one of a batch (`Warm`). The properties of the
counter say `spent.failures <= 1`: a save that fails after its load did is undone by a
call that loads the counter first, and so takes off what was never put on.

Why the bounds are enough. Two bidders are needed to overtake each other and more
add nothing, as handlers compare an order with the active one only. Amounts to 3
give two overtakings before the maximum bid. Five events are start, three bids and
an end, in every cut into blocks. One fault separates any two steps; the properties
that a fault may break say so (`faults = 0 =>`), so that one run looks at histories
with and without. Two mutations and two blocks are every overlap of a block with a
change and of a change with a change. Three events of which a batch holds two make
every case of the cut: a full batch of one timestamp, a cut in the middle, a rest
carried over; a fourth arrives late. Two workers and two purchases are every pair of
read-modify-writes. Two changes and two jobs are an older computation overtaking a
newer one. Two writes and one reader are a refill between any two steps of either
write, and the two keys are one deleted by updates and one deleted by orders.

**Fairness.** Weak fairness of every worker, of the set of promises, of the crons and
of the revert consumer: node runs what is ready, and the crons are timers. For
`RarityQueue` strong fairness of starting the daily job, because only the bound on
jobs at work (`MaxBusy`) ever disables it - in the program it starts whatever else
runs. For `AuctionCaches` writers, requests, replication and clocks (`Expire`) go
on; messages need not. `MarketplaceReindex` and `CampaignTiers`: the loop and the
workers go on. Nothing is assumed of the chain, deadlines, crashes, failures,
expiries of likes or the delivery of invalidations. Liveness is checked without
symmetry.

## What the code does not guarantee

Checking these properties on wilder instances shows where they stop. They are not
findings - nothing in the repository promises them - but they are what a reader of
the tables must know.

- *Two blocks in hand at once.* `OneActiveOrder`, `WinnerIsHighestBid`,
  `StatusFollowsChain`, `BidsRecorded` and `OverIsNotRunning` all fail with two
  workers: two bid handlers read one active order; an end is handled before the
  start it ends; a withdrawal of an offer looks for it too early and is ignored
  (`StatusIsExplained`).
- *A crash.* After one, `OneActiveOrder`, `WinnerIsHighestBid` and
  `StatusFollowsChain` fail: a promise is lost, or the order that should have been
  retired is not.
- *Price updates and the cron* save whole rows they read earlier:
  `StatusFollowsChain` fails, an ended auction becomes Running or Claimable, an
  accepted offer becomes Expired.
- *Reverts.* `rollbackOrdersByHash` returns after the first auction with one order:
  with two auctions in a block, orders stay behind. Reverting the `end` that
  followed a maximum bid leaves a bought order on a Running auction. A revert while
  handlers run may leave rows of the dropped block; so `auction_sales` reverts at
  rest only (`CalmSpec`). Prices and end dates a block changed are not restored.
- *Notifications.* The row that announces an offer may be saved after the one that
  clears it. One that tells of an offer for an NFT in an auction is filed under the
  auction, and gone when the auction is over, though the offer is open
  (`OffersAreAnnounced` says so). The cron passes an array where the winner's order is expected, so the
  winner's row has no owner and both rows are refused (modelled in `CronNotify`).
- *Likes.* Two calls that load the missing counter at once, a batch that sets a counter
  again after it changed, a key that expires
  between load and increment, two likes of one user at once, a failing Redis, and a
  failed load followed by a failed save each
  leave the counter wrong until it expires; a reader may store a stale "is liked" for
  a week. The runs say which of these they exclude (`Warm`, `Apart`, `RestNext`).

- *Disabled marketplaces.* Enabling pops every postponed block of every marketplace
  and replays the first only, as if it were of the marketplace enabled; the others
  are gone. Blocks that arrive during the replay stay postponed until somebody
  enables a marketplace again. A block that meets a change between its three reads
  may be handled and postponed, or neither. When none of the messages about a change is
  published the cached lists stay as they were until they expire, and nobody hears of it. Two calls on one address save whole
  rows: which wins is not which came last.
- *Campaigns.* `LeftIsExplained` lists the only ways `availableNfts` goes wrong: two
  purchases at once lose one; a campaign read from a contract that is ahead of its
  events counts purchases twice; so does a redelivered block. A purchase of a brand
  not saved yet dead-letters its block. A campaign whose tier was not saved never
  gets it.
- *Rarities.* Collections popped by a job that stops, or skipped because the other
  job holds the lock, are not queued again; an older computation may overwrite a
  newer one; a failed read of the API looks like an empty collection. All is
  repaired by the daily reindex (`CatchesUp`), except the rows of burnt NFTs:
  a computation that had read the NFT saves its row again and nothing deletes it.
- *Caches.* The message comes before the write, so a reader in between stores the old
  row for as long as the key lives; rollbacks and the reindex send no message; the row of an auction,
  the pages of an NFT's auctions (what is deleted is not the key of a page) and the
  cheapest auction on a marketplace are deleted by none; updates do not tell the
  tokens left of an auction, nor orders those of an NFT and its cheapest auction; the message of a bid is sent before the old order is retired. What corrects
  all of this is the time to live.
- *Reindex.* More events at one timestamp than a batch holds are skipped, and so are
  those indexed behind the reader. `popInactiveItems` shortens the array whose
  length gives the next auction its id, so ids collide, and the final save uses them
  as indexes. The indexer scrolls newest first and stops at the first duplicate: a
  scroll that broke off leaves a gap.

**Finding 1 (`likes_cold`).** `removeLike` deletes the row and then decrements the
counter. If Redis does not have the counter, `decrementLikesCount` first loads it -
from a table that no longer holds the like - and takes the like off a second time.
No concurrency or failure is needed; the counter's time to live is six hours. The
comment there says "Make sure that Redis Key is generated from DB."

**Finding 2 (`reindex_twice`).** `processMarketplaceEventsInBatches` calls
`processEventsBatchAndReturnUnprocessedEvents` twice for every batch
(`marketplaces-reindex.service.ts:137-145`). A started auction is then pushed to the
state twice, and the bulk save violates
`@Unique('AuctionEntity_UQ_Marketplace', ['marketplaceAuctionId', 'marketplaceKey'])`;
the error is caught at line 75 and the reindex is given up, with whatever earlier
batches have flushed left in the tables. The
properties of `reindex_batches` are about the first time an event is processed, and
so hold in spite of this.

## The proofs

The theorems hold for every value of the constants the assumptions allow: any
number of auctions, offers, users, workers, calls, events, crashes and reverts. A
property that a race breaks (*What the code does not guarantee*) is proved of every
behaviour in which that race, and no more, does not occur: the premise names it, and
everything else may overlap.

| theorem | says | rests on |
|---|---|---|
| `AuctionIndexer_proofs!TypeCorrect` | `Spec => []TypeOK` | `TypeOK` is inductive; one lemma per action |
| `AuctionIndexer_proofs!OrderFactsKept` | `Spec => OrderFactsImmutable` | every remembered copy of an order - in a slot, a promise, a revert - has the facts of the row it was read from, ids are not reused, and a promise refers to rows that exist or are gone |
| `AuctionIndexer_proofs!OneOrderLeads` | `Spec /\ []BiddersApart /\ []RevivesAlone => []OneActiveOrder` | `LeadInv`: until a bid handler has inserted its order, the active order it read is the only one of its auction; until it has retired that, these two are; whatever is saved meanwhile is saved as bought |
| `AuctionIndexer_proofs!NoBidIsLost` | `Spec /\ []AuctionsApart => [](reverts = 0 => BidsRecorded)` | `BidsInv`, below |
| `OfferIndexer_proofs!OffersTyped` | `Spec => []TypeOK` | `IndInv`: a busy worker has an event; an offer about to be saved, or remembered by the cron, has a row |
| `OfferIndexer_proofs!OffersStayOver` | `Spec => OfferNeverReopens` | the same `IndInv`: Active is written by the insert only, which needs the row to be absent, and nothing writes absent |
| `OfferIndexer_proofs!OwnersAreTold` | `Spec => []OffersAreAnnounced` | `Announcing`: a notification that is due is in the table, or its promise, handler or cron run is still to write it, and what is cleared had its offer ended |
| `OfferIndexer_proofs!StatusesExplained` | `Spec /\ []OffersApart => []StatusIsExplained` | `StatusInv`: the blocks that hold events of one offer are obeyed in order, and what each status or remembered row says was caused by an event not older than the last acknowledged one |
| `AssetLikes_proofs!LikesTyped` | `Spec => []TypeOK` | finitely many users, so that the count is a number |
| `AssetLikes_proofs!AnswersAreTrue` | `Spec => []AnswersHold` | `Truthful`: at each place of a call, which value of the table it must already have met |
| `AssetLikes_proofs!CounterStaysExact` | `ScheduledSpec => []ExactWhenApart` | `SchedInv`, below |
| `AssetLikes_proofs!NoLikeUncounted` | `ScheduledSpec => []LikesAreCounted` | `SchedInv`; calls may meet and crash |
| `AssetLikes_proofs!AnswersStayFresh` | `ScheduledSpec => []FreshWhenApart` | `SchedInv`; any number of statements may fail |
| `DisabledMarketplace_proofs!MarketplacesTyped` | `Spec => []TypeOK` | part of the next |
| `DisabledMarketplace_proofs!CacheFollowsTable` | `Spec => []CacheCatchesUp` | `IndInv`: a copy in a consumer's hands or in the cache is the table, or a message, a call about to publish, a race, or a save whose messages were lost says why not (`InFlightFresh`, `CachedFresh`) |
| `DisabledMarketplace_proofs!OldestFirst` | finitely many workers: `Spec => []OldestIsReplayed` | `OldInv`: the list in Redis is in the order of the blocks and behind none that will still be postponed; a call's number is its own, and what it has to replay is older than what it discarded |
| `DisabledMarketplace_proofs!NoEventDisappears` | every contract is a marketplace's: `Spec => []EventsAccountedFor` | `EventsInv`, below |
| `CampaignTiers_proofs!TiersFollowCampaigns` | `Spec => []EveryCampaignHasTier` | `TiersKnown`: a tier belongs to a campaign, and what a worker is about to save is not there yet and is saved by it alone |
| `CampaignTiers_proofs!TypesHold` | `Spec => []TypeOK` | a worker's list is of purchases the contract has |
| `CampaignTiers_proofs!LeftExplained` | `Spec => []LeftIsExplained` | `AllInv`: an event is at one place only (`Apart`); without a tier nothing was taken off, and a count about to be saved wrong is of a brand already known to be wrong (`Book`) |
| `RarityQueue_proofs!GhostsExplained` | `Spec => []GhostsAreExplained` | with it, that only known NFTs live; each save marks as ghosts what it writes of the dead |
| `RarityQueue_proofs!RaritiesTyped` | `Spec => []TypeOK` | part of the next |
| `RarityQueue_proofs!LagExplained` | `Spec => []BehindIsExplained` | a document that is not what the chain says is excused by an event, the queue, a job that has read what the chain says, or a cause set where it happened |
| `MarketplaceReindex_proofs!ReindexTyped` | `Spec => []TypeOK` | part of `IInv`, below |
| `MarketplaceReindex_proofs!NoEventSkipped` | `Spec => []NothingSkipped` | `IInv`: what was read is processed or in hand |
| `MarketplaceReindex_proofs!SetsKeptTogether` | `Spec => []KeptTogether` | `IInv`: a transaction waits until something newer has been read |
| `MarketplaceReindex_proofs!SetsInOrder` | `Spec => []InOrder` | `IInv`: what is left over lies behind older events only |
| `AuctionCaches_proofs!CachesTyped` | `Spec => []TypeOK` | part of the next |
| `AuctionCaches_proofs!CachesExplained` | `Spec => []StaleIsExplained` | requests at work have met every write in progress and every commit their query missed (`CallsMeet`, `SeenOrMet`), and an entry excuses a write that has published and not committed yet (`EntriesTold`) |

The assumptions are those of the modules: sets are what they are named for, bounds
are natural numbers, `Nobody` and `None` are no bidder, user, number, table or part of a block. The types
alone are not enough for the other theorems: nothing in `TypeOK` says that a
remembered row still exists, so each proof strengthens it by what its processes
remember, and TLC checked the resulting properties first.

The premises of three theorems speak of the blocks in hand. `BiddersApart`: no two
handlers of bids for one auction are at work; `AuctionsApart`: no two blocks in hand have
events of one auction; `OffersApart`: nor of one offer. RabbitMQ hands out a prefetch of
blocks, so the code does not see to this; the chain mostly does, as one auction seldom
has events in blocks that close together. Blocks of other auctions and offers may be in
hand in any number, and promises, crons, crashes, failures and redeliveries come when
they like. `RevivesAlone`: the rollback revives an order only when no other order of its
auction is active and no bid for it is being handled. `OneOrderLeads` allows reverts
besides that; `NoBidIsLost` is about behaviours up to the first revert: a revert deletes
orders of events the handler has passed, which is its purpose.

`BidsInv` says that the queue cuts the chain's log into whole blocks, and where in the
log each handler is (`Work`): every bid behind it has its order (`Due`, `Recorded`). A
bid handled again is recognised by its amount; an order with the amount of the bid is of
that bid, as amounts grow along the log (`OrdersFit`). A block is taken after the earlier
blocks it shares an auction with (`TurnsInv`), so an auction's row comes before its bids.

What `auction_sequential`, `auction_sales` and `auction_liveness` check of winners,
sums and statuses is not proved: each of these properties fails after a fault or with
two blocks of an auction in hand, and most with a price event, a run of the cron or a
revert at the wrong moment, so a theorem about them would have to rule out most of what
makes them hard. There TLC is what speaks.

`SchedInv` of `AssetLikes_proofs` is about the schedules of `MCAssetLikes`, for any
number of users and calls. The counter is the number of likes in the table plus that
of the calls that owe it a change (`Owed`, `Debt`): an add that is counted and not
saved, a remove that is deleted and not counted, a save to be undone. Where calls
meet it may be more. Calls that meet have met a counter that Redis has and nobody refills (`Warm`), which
is why a call that loads it owes nothing and finds the table as it left it. Of the
cached answers it says that one which is not what the table says belongs to a user
whose call is still to clear it (`Fresh`, `Pending`).

What is left of a tier is its supply less a sum over the purchases taken off, and the
library's induction cannot be used for what a sum over a finite set does when a member
joins or leaves it. `CampaignTiers_proofs` gets these facts from the smallest set that
would break them. With them `LeftIsExplained` needs no hypothesis: each purchase is
queued, in one worker's hands, dead with its block, or taken off, and a count that
is off was made so by a step that names its cause.

`EventsInv` follows an event of a disabled marketplace: it was handled, waits in the
list, is in the hands of a call that replays it, or was popped and lost (`Somewhere`).
A worker's block is pending and in no other's hands (`InHand`), and the lists it has
read so far are of one table, or the block is torn (`ReadAlike`); so each contract is
in one list, and an event is somewhere exactly when its worker has passed that list
(`DoneSome`, `DoneOnce`). Until a restart it is at one place only (`OnePlace`). A
contract that has no row is in no list, and its events are dropped: the theorem leaves
it out.

`IInv` of `MarketplaceReindex_proofs` is about one run of the loop over any table the
indexer may have written (`GoodTable`: in order, a transaction at one timestamp, a
result of a transaction the user sent), while rows are added meanwhile. Every
event asked for that is not newer than `after` has been processed or is in hand
(`Covered`); what the loop has read ahead is in the batch it will be given, unless its
timestamp is too crowded for a batch (`Ahead`). An event not processed yet lies, at
least once, behind older ones only (`OldestFirst`): only once, as the second pass
repeats the batch. Before the end nothing but results is processed until newer events
have been read (`SetsWaited`), so that the results at the next timestamp are in hand
with their transaction. The other parts say what the sets are in the end: whole
(`SetsWhole`), of results after their transaction (`ResultsLast`), oldest first
(`SetsByTime`). TLC checked `IInv` on `reindex_batches` before it was proved.

Three things make the claims about cut sequences provable without an induction theorem.
A set of numbers has a smallest member (`Smallest`), which gives induction up to a
number for a set of numbers (`Climb`). A recursive function is one chosen to satisfy
its equation, and the equation is shown to have a solution (`Recursion`, `Following`).
And the model filters sequences with `Kept`, which takes a set where `SelectSeq` takes
an operator: the prover does not expand an operator it is given as an argument.

Model-checked only: liveness (fairness is outside the prover), and what the tables
look like when everything is settled after reverts (`OrdersAreCanonical`), which needs
a calm schedule. `SalesFollowChain` is `StatusFollowsChain` on the histories of sales of
`auction_sales`, in which nothing is reverted: no theorem has its name, and
`StatusIsTheChains` says it for all histories.

## Not modelled

- Columns no handler tests, texts of notifications and feeds, prices in USD.
- Lag of the MySQL replica (`ormconfig.ts`) outside `AuctionCaches`: elsewhere tables
  are one copy.
- What the reindex makes of each event (`marketplaces-reindex-handlers/`,
  `MarketplaceReindexState`), and the scroll that fills `marketplace_events`.
- Traits, scam and nsfw updates (traits use the queue of rarities, the others single
  documents), the scoring algorithms, and above which size a collection is left out.
- The cache warmers, which overwrite keys of their own; the in-process caches and
  their pub/sub; messages about other things than auctions and orders.
- Creating and editing marketplaces and collections; the cached lists of campaigns.
- Asset tags beyond whether an auction has some; readers of the tables, filters and
  the paging of lists; the lists of liked NFTs.
- The API's pure queries, transactions, uploads, access control, metrics and
  analytics, which keep no state that others write. They are most of the code.
