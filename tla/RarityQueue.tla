----------------------------- MODULE RarityQueue -----------------------------
(***************************************************************************)
(* The rarities of the NFTs of a collection (rarity.updater.service.ts,    *)
(* nft-rarity.service.ts, elastic-updates-events.service.ts).              *)
(*                                                                         *)
(* How rare an NFT is depends on the attributes of all the NFTs of its     *)
(* collection.  The rarities are kept twice: in the table nft_rarities and *)
(* in the Elastic index of the chain, in fields of the NFT's own document. *)
(* When an NFT is minted, changed or burnt, its collection is pushed on a  *)
(* queue in Redis; four cron jobs of one process recompute collections:    *)
(* the queued ones, those with an NFT never computed, all of them once a   *)
(* day, and all of them once a day if they do not look valid.  The first   *)
(* two exclude each other on a collection, the others exclude nobody.      *)
(*                                                                         *)
(* A rarity is the content of the collection it was computed from.  Left   *)
(* out: the flag nft_hasRarities of a collection (only the daily job reads *)
(* it, to spare a write of it), collections above the size limit, NFTs     *)
(* without URIs, SFTs, custom ranks, the cache of the rarities, the        *)
(* mutation of the admin, redelivered events.                              *)
(***************************************************************************)
EXTENDS Integers, Sequences, SequencesExt, FiniteSets

CONSTANTS
    Collections,
    Nfts,
    CollectionOf,   \* the collection of each NFT
    Attributes,     \* what the metadata of an NFT may say
    PerRun,         \* collections the job of the uncomputed takes at most
    MaxChanges,     \* bound: mints, updates and burns
    MaxFaults,      \* bound: restarts and failed calls
    MaxBusy         \* bound: jobs at work at once

ASSUME RarityAssumption ==
    /\ CollectionOf \in [Nfts -> Collections] /\ "none" \notin Attributes
    /\ IsFiniteSet(Collections)
    /\ PerRun \in Nat \ {0} /\ MaxChanges \in Nat /\ MaxFaults \in Nat /\ MaxBusy \in Nat

VARIABLES
    attributes, \* the chain: the attributes of the living NFTs ("none" if not valid)
    minted,     \* the chain: the NFTs minted so far
    changes,    \* number of mints, updates and burns
    docs,       \* Elastic: nft_hasRarity and the scores of the living NFTs
    rows,       \* the table nft_rarities
    events,     \* events not yet consumed
    queue,      \* Redis: the rarityQueue
    deletes,    \* rows whose deletion was started, and is not awaited
    run,        \* what each job is doing
    faults,     \* restarts and failed calls so far
    missed,     \* history: collections with a change nobody will recompute today
    ghosts      \* history: burnt NFTs whose row was not deleted, or saved again

chain   == <<attributes, minted, changes>>
tables  == <<docs, rows>>
feed    == <<events, queue, deletes>>
history == <<missed, ghosts>>
vars    == <<chain, tables, feed, run, faults, history>>

Jobs == {"queue", "unset", "reindex", "validate"}
Values == Attributes \cup {"none"}

\* What a collection may hold; it is also what a rarity is computed from.
\* <<>>, the function without arguments, stands for a rarity not there.
IsPartial(f, T(_)) == DOMAIN f \subseteq Nfts /\ \A n \in DOMAIN f : T(f[n])
IsContent(f) == IsPartial(f, LAMBDA v : v \in Values)
IsDoc(d) == d.has \in {"unset", "true", "false"} /\ IsContent(d.rank)

IsRun(r) ==
    \/ r.pc = "idle"
    \/ /\ r.list \in Seq(Collections) \ {<<>>}
       /\ \/ r.pc = "skip"
          \/ /\ r.pc \in {"read", "plain"} /\ r.left \subseteq {"api", "docs"}
             /\ IsContent(r.api) /\ IsPartial(r.docs, IsDoc)
          \/ /\ r.pc = "check" /\ r.left \subseteq {"rows", "docs"}
             /\ IsPartial(r.rows, IsContent) /\ IsPartial(r.docs, IsDoc)
          \/ /\ r.pc = "save" /\ r.left \subseteq {"rows", "docs"} /\ r.left # {}
             /\ IsPartial(r.rows, IsContent) /\ IsPartial(r.scores, IsContent)

TypeOK ==
    /\ minted \subseteq Nfts
    /\ IsContent(attributes) /\ DOMAIN attributes \subseteq minted
    /\ IsPartial(docs, IsDoc) /\ DOMAIN docs = DOMAIN attributes
    /\ IsPartial(rows, IsContent)
    /\ events \subseteq [id : 1..MaxChanges, kind : {"burn", "other"}, nft : Nfts]
    /\ queue \in Seq(Collections) /\ deletes \subseteq Nfts
    /\ DOMAIN run = Jobs /\ \A j \in Jobs : IsRun(run[j])
    /\ changes \in 0..MaxChanges /\ faults \in 0..MaxFaults
    /\ missed \subseteq Collections /\ ghosts \subseteq Nfts

Init ==
    /\ attributes = <<>> /\ minted = {} /\ changes = 0
    /\ docs = <<>> /\ rows = <<>>
    /\ events = {} /\ queue = <<>> /\ deletes = {}
    /\ run = [j \in Jobs |-> [pc |-> "idle"]]
    /\ faults = 0 /\ missed = {} /\ ghosts = {}

Of(c) == {n \in DOMAIN attributes : CollectionOf[n] = c}
Now(c) == [n \in Of(c) |-> attributes[n]]
Restricted(f, S) == [x \in DOMAIN f \cap S |-> f[x]]
Over(f, g) == [x \in DOMAIN f \cup DOMAIN g |-> IF x \in DOMAIN g THEN g[x] ELSE f[x]]

\* The document of n says what the collection, as it is now, should say.
DocRight(d, n) ==
    IF attributes[n] = "none" THEN d.has = "false"
    ELSE d.has = "true" /\ d.rank = Now(CollectionOf[n])
RightIn(ds, c) == \A n \in Of(c) : DocRight(ds[n], n)

----------------------------------------------------------------------------
(* The chain, and the documents it keeps in the index                       *)

Change(n, kind) ==
    /\ changes < MaxChanges
    /\ changes' = changes + 1
    /\ events' = events \cup {[id |-> changes + 1, kind |-> kind, nft |-> n]}
    /\ UNCHANGED <<rows, queue, deletes, run, faults, history>>

Mint(n, a) ==
    /\ n \notin minted
    /\ minted' = minted \cup {n}
    /\ attributes' = Over(attributes, [x \in {n} |-> a])
    /\ docs' = Over(docs, [x \in {n} |-> [has |-> "unset", rank |-> <<>>]])
    /\ Change(n, "other")

Update(n, a) ==
    /\ n \in DOMAIN attributes /\ attributes[n] # a
    /\ attributes' = [attributes EXCEPT ![n] = a]
    /\ UNCHANGED <<minted, docs>>
    /\ Change(n, "other")

Burn(n) ==
    /\ n \in DOMAIN attributes
    /\ attributes' = Restricted(attributes, Nfts \ {n})
    /\ docs' = Restricted(docs, Nfts \ {n})
    /\ UNCHANGED minted
    /\ Change(n, "burn")

----------------------------------------------------------------------------
(* The consumer of the events                                               *)

\* handleRaritiesForNftMintBurnAndUpdateEvents: the row of a burnt NFT is
\* deleted, and the deletion not awaited; an NFT the API no longer has is
\* skipped.
Consume(e) ==
    /\ e \in events
    /\ events' = events \ {e}
    /\ deletes' = IF e.kind = "burn" THEN deletes \cup {e.nft} ELSE deletes
    /\ queue' = IF e.kind = "burn" \/ e.nft \in DOMAIN attributes
                THEN Append(queue, CollectionOf[e.nft]) ELSE queue
    /\ UNCHANGED <<chain, tables, run, faults, history>>

\* Faulty variant: the deletion does nothing.
RowsAfterNothing(n) == rows

\* deleteNftRarity
RowsWithout(n) == Restricted(rows, Nfts \ {n})

Delete(n) ==
    /\ n \in deletes /\ deletes' = deletes \ {n}
    /\ rows' = RowsWithout(n)
    /\ UNCHANGED <<chain, docs, events, queue, run, faults, history>>

Fault == faults < MaxFaults /\ faults' = faults + 1

\* The block goes to the dead letter exchange.
EventLost(e) ==
    /\ Fault
    /\ e \in events /\ events' = events \ {e}
    /\ missed' = missed \cup {CollectionOf[e.nft]}
    /\ ghosts' = IF e.kind = "burn" THEN ghosts \cup {e.nft} ELSE ghosts
    /\ UNCHANGED <<chain, tables, queue, deletes, run>>

\* The deletion fails, or its process restarts: nobody waits for it.
DeleteLost(n) ==
    /\ Fault
    /\ n \in deletes /\ deletes' = deletes \ {n}
    /\ ghosts' = ghosts \cup {n}
    /\ UNCHANGED <<chain, tables, events, queue, run, missed>>

----------------------------------------------------------------------------
(* The jobs                                                                 *)

At(j, pc) == run[j].pc = pc
Becomes(j, r) == run' = [run EXCEPT ![j] = r]
Busy == {j \in Jobs : ~At(j, "idle")}
This(j) == Head(run[j].list)

\* "Update/Validate rarities for <collection>": taken by these two jobs only.
Lockers == {"queue", "unset"}
Locked(j, c) ==
    j \in Lockers /\ \E k \in Lockers \ {j} : run[k].pc \notin {"idle", "skip"} /\ This(k) = c

\* The loop of job j over list: the first collection is read, if nobody has
\* locked it.
Loop(j, list) ==
    IF list = <<>> THEN [pc |-> "idle"]
    ELSE IF Locked(j, Head(list)) THEN [pc |-> "skip", list |-> list]
    ELSE IF j = "validate"
    THEN [pc |-> "check", list |-> list,
          left |-> {"rows", "docs"}, rows |-> <<>>, docs |-> <<>>]
    ELSE [pc |-> "read", list |-> list,
          left |-> {"api", "docs"}, api |-> <<>>, docs |-> <<>>]

\* The job goes on with the next collection; after the last one nothing is
\* pushed back, for notUpdatedCollections is always empty.
Leaves(j) == Loop(j, Tail(run[j].list))

Starts(j, list) ==
    /\ At(j, "idle") /\ Cardinality(Busy) < MaxBusy
    /\ Becomes(j, Loop(j, list))
    /\ UNCHANGED <<chain, tables, events, deletes, faults, history>>

\* processTokenRarityQueue: pops the whole queue.
StartQueue ==
    /\ queue # <<>> /\ queue' = <<>>
    /\ Starts("queue", queue)

Uncomputed == {CollectionOf[n] : n \in {m \in DOMAIN docs : docs[m].has = "unset"}}

\* handleUpdateTokenRaritiesWhereNotSet
StartUnset ==
    /\ Uncomputed # {} /\ UNCHANGED queue
    /\ \E all \in SetToSeqs(Uncomputed) :
         Starts("unset", SubSeq(all, 1, IF Len(all) < PerRun THEN Len(all) ELSE PerRun))

\* updateAllCollectionsRarities
StartReindex ==
    /\ UNCHANGED queue
    /\ \E all \in SetToSeqs(Collections) : Starts("reindex", all)

\* validateAllCollectionsRarities
StartValidate ==
    /\ UNCHANGED queue
    /\ \E all \in SetToSeqs(Collections) : Starts("validate", all)

\* A locked collection is left as if it were done (updateTokenRarities: Locker
\* just returns).
Skip(j) ==
    /\ At(j, "skip")
    /\ Becomes(j, Leaves(j))
    /\ missed' = IF j = "queue" THEN missed \cup {This(j)} ELSE missed
    /\ UNCHANGED <<chain, tables, feed, faults, ghosts>>

(* validateRarities                                                         *)

\* areIdenticalRarities: the same number of them is enough, else each is compared.
Identical(ds, rs) ==
    \/ /\ \A n \in DOMAIN ds : ds[n].has # "unset"
       /\ Cardinality({n \in DOMAIN ds : ds[n].has = "true"}) = Cardinality(DOMAIN rs)
    \/ DOMAIN ds = DOMAIN rs /\ \A n \in DOMAIN ds : ds[n].rank = rs[n]

\* areRaritiesMissingFromElasticOnly
MissingFromElastic(ds, rs) == rs # <<>> /\ \A n \in DOMAIN ds : ds[n].rank = <<>>

RowsOf(c) == Restricted(rows, {n \in Nfts : CollectionOf[n] = c})
DocsOf(c) == Restricted(docs, Of(c))

\* What the job does once it has read both: nothing, migrateRaritiesFromDbToElastic,
\* or updateCollectionRarities.
Verdict(j, ds, rs) ==
    IF Identical(ds, rs) THEN Leaves(j)
    ELSE IF MissingFromElastic(ds, rs)
    THEN [pc |-> "save", list |-> run[j].list, left |-> {"docs"}, rows |-> <<>>, scores |-> rs]
    ELSE [pc |-> "read", list |-> run[j].list,
          left |-> {"api", "docs"}, api |-> <<>>, docs |-> <<>>]

Check(j, part) ==
    /\ At(j, "check") /\ part \in run[j].left
    /\ LET r == [run[j] EXCEPT !.left = @ \ {part},
                               !.rows = IF part = "rows" THEN RowsOf(This(j)) ELSE @,
                               !.docs = IF part = "docs" THEN DocsOf(This(j)) ELSE @]
       IN  Becomes(j, IF r.left = {} THEN Verdict(j, r.docs, r.rows) ELSE r)
    /\ UNCHANGED <<chain, tables, feed, faults, history>>

(* updateCollectionRarities                                                 *)

WithAttributes(api) == {n \in DOMAIN api : api[n] # "none"}
Plain(api) == DOMAIN api \ WithAttributes(api)

\* Faulty variant: all the NFTs it computed are up to date when one is.
NoneOutdated(api, ds) ==
    IF \E n \in WithAttributes(api) : ds[n].has = "true" THEN {} ELSE WithAttributes(api)

\* setNftRaritiesInElastic: the documents that differ from what was read.
Outdated(api, ds) ==
    {n \in WithAttributes(api) : ds[n].has # "true" \/ ds[n].rank # api}

\* The writes of a computation, if there is something to write.  An NFT the API
\* has and the index did not have makes setNftRaritiesInElastic throw, when
\* the rows are on their way.
Save(j, api, ds) ==
    LET known == WithAttributes(api) \subseteq DOMAIN ds
    IN  IF WithAttributes(api) = {} THEN Leaves(j)
        ELSE [pc |-> "save", list |-> run[j].list,
              left |-> IF known THEN {"rows", "docs"} ELSE {"rows"},
              rows |-> [n \in WithAttributes(api) |-> api],
              scores |-> IF known THEN [n \in Outdated(api, ds) |-> api] ELSE <<>>]

\* NFTs without attributes come first: their documents are only marked.  (The
\* scores the API shows are those of the index, so they do not differ.)
Unmarked(r) == {n \in Plain(r.api) : r.docs[n].has # "false"}

Computed(j, r) ==
    IF ~(Plain(r.api) \subseteq DOMAIN r.docs) THEN Leaves(j)
    ELSE IF Unmarked(r) # {} THEN [r EXCEPT !.pc = "plain"]
    ELSE Save(j, r.api, r.docs)

\* A computation that stops for an NFT not in the index misses the collection.
Throws(r) == r.left = {} /\ ~(DOMAIN r.api \subseteq DOMAIN r.docs)

\* Both lists are read, the API and the index, in any order.
ReadPart(j, part, api, ds) ==
    /\ At(j, "read") /\ part \in run[j].left
    /\ LET r == [run[j] EXCEPT !.left = @ \ {part},
                               !.api = IF part = "api" THEN api ELSE @,
                               !.docs = IF part = "docs" THEN ds ELSE @]
       IN  /\ Becomes(j, IF r.left = {} THEN Computed(j, r) ELSE r)
           /\ missed' = IF Throws(r) THEN missed \cup {This(j)} ELSE missed
    /\ UNCHANGED <<chain, tables, feed, ghosts>>

ReadApi(j) == ReadPart(j, "api", Now(This(j)), <<>>) /\ UNCHANGED faults
ReadDocs(j) == ReadPart(j, "docs", <<>>, DocsOf(This(j))) /\ UNCHANGED faults

\* The documents of This(j) become ds: one that was right and is not any more
\* was overwritten with older rarities.
Overwritten(c, ds) == \E n \in Of(c) : DocRight(docs[n], n) /\ ~DocRight(ds[n], n)

DocsBecome(j, ds) ==
    /\ docs' = ds
    /\ missed' = IF RightIn(ds, This(j)) THEN missed \ {This(j)}
                 ELSE IF Overwritten(This(j), ds) THEN missed \cup {This(j)}
                 ELSE missed

MarkPlain(j) ==
    /\ At(j, "plain")
    /\ DocsBecome(j, [n \in DOMAIN docs |->
                        IF n \in Unmarked(run[j]) THEN [docs[n] EXCEPT !.has = "false"]
                        ELSE docs[n]])
    /\ Becomes(j, Save(j, run[j].api, run[j].docs))
    /\ UNCHANGED <<chain, rows, feed, faults, ghosts>>

\* One write less; after the last one the job leaves the collection.
Written(j, part) ==
    Becomes(j, IF run[j].left = {part} THEN Leaves(j)
               ELSE [run[j] EXCEPT !.left = @ \ {part}])

Saves(j, part) == At(j, "save") /\ part \in run[j].left /\ Written(j, part)

\* saveOrUpdateBulkRarities: an INSERT that overwrites.
Upserted(j) == Over(rows, run[j].rows)

SaveRows(j) ==
    /\ Saves(j, "rows")
    /\ rows' = Upserted(j)
    /\ ghosts' = ghosts \cup
         {n \in DOMAIN run[j].rows :
            /\ n \notin DOMAIN attributes \cup deletes
            /\ ~\E e \in events : e.kind = "burn" /\ e.nft = n}
    /\ UNCHANGED <<chain, docs, feed, faults, missed>>

\* Faulty variant: a document that is gone is created again (doc_as_upsert).
All(j) == DOMAIN run[j].scores

\* A document that is gone is not written.
Existing(j) == DOMAIN run[j].scores \cap DOMAIN docs

\* bulkRequest
SaveDocs(j) ==
    /\ Saves(j, "docs")
    /\ DocsBecome(j, Over(docs, [n \in Existing(j) |->
                                   [has |-> "true", rank |-> run[j].scores[n]]]))
    /\ UNCHANGED <<chain, rows, feed, faults, ghosts>>

(* Faults                                                                   *)

\* A read that fails reads nothing, and the collection seems to be empty. Left out are
\* the list of the API that breaks off after some of its pages, and the failed read of
\* the documents when they are checked (Check), which migrates the rows over them.
ReadFails(j, part) ==
    /\ Fault
    /\ At(j, "read") /\ part \in run[j].left
    /\ LET r == [run[j] EXCEPT !.left = @ \ {part}]
       IN  Becomes(j, IF r.left = {} THEN Computed(j, r) ELSE r)
    /\ missed' = missed \cup {This(j)}
    /\ UNCHANGED <<chain, tables, feed, ghosts>>

\* A write that fails is logged. The job goes on when all its writes have ended; in the
\* code it leaves at the first that fails, while the others are still under way.
WriteFails(j, part) ==
    /\ Fault
    /\ \/ Saves(j, part)
       \/ At(j, "plain") /\ part = "docs" /\ Becomes(j, Save(j, run[j].api, run[j].docs))
    /\ missed' = IF part = "docs" THEN missed \cup {This(j)} ELSE missed
    /\ UNCHANGED <<chain, tables, feed, ghosts>>

\* The process of the jobs restarts: what the queue's job had popped is gone.
Restart ==
    /\ Fault
    /\ Busy # {}
    /\ run' = [j \in Jobs |-> [pc |-> "idle"]]
    /\ missed' = IF At("queue", "idle") THEN missed
                 ELSE missed \cup ToSet(run["queue"].list)
    /\ UNCHANGED <<chain, tables, feed, ghosts>>

Chain == \E n \in Nfts : Burn(n) \/ \E a \in Values : Mint(n, a) \/ Update(n, a)

Consumer == \/ \E e \in events : Consume(e)
            \/ \E n \in deletes : Delete(n)

Work(j) ==
    \/ Skip(j)
    \/ \E part \in {"rows", "docs"} : Check(j, part)
    \/ ReadApi(j) \/ ReadDocs(j) \/ MarkPlain(j)
    \/ SaveRows(j) \/ SaveDocs(j)

Faults ==
    \/ \E e \in events : EventLost(e)
    \/ \E n \in deletes : DeleteLost(n)
    \/ \E j \in Jobs, part \in {"api", "docs"} : ReadFails(j, part)
    \/ \E j \in Jobs, part \in {"rows", "docs"} : WriteFails(j, part)
    \/ Restart

Next ==
    \/ Chain \/ Consumer \/ Faults
    \/ StartQueue \/ StartUnset \/ StartReindex \/ StartValidate
    \/ \E j \in Jobs : Work(j)

Spec == Init /\ [][Next]_vars

\* The cron starts the daily job, whatever else runs (StartReindex waits for the
\* others only because MaxBusy bounds them), and the jobs go on.
Fairness ==
    /\ SF_vars(StartReindex) /\ WF_vars(Work("reindex"))
    /\ WF_vars(\E j \in Jobs \ {"reindex"} : Work(j))

FairSpec == Spec /\ Fairness

----------------------------------------------------------------------------
(* Properties                                                               *)

\* The change of c is still on its way: in an event, in the queue, in the list
\* of the queue's job, or read by it and not yet written.
OnItsWay(c) ==
    \/ \E e \in events : CollectionOf[e.nft] = c
    \/ c \in ToSet(queue)
    \/ LET r == run["queue"]
       IN  /\ r.pc # "idle"
           /\ \/ c \in ToSet(Tail(r.list))
              \/ /\ c = Head(r.list)
                 /\ r.pc = "save" => "docs" \in r.left

\* The documents of a collection are not what its NFTs say only while the
\* change is on its way, or when it was missed since they were last right: its
\* event or its call failed, the process restarted after the queue was popped,
\* its collection was locked by the other job or an older computation overwrote
\* a document (processTokenRarityQueue).
BehindIsExplained ==
    \A c \in Collections :
        RightIn(docs, c) \/ OnItsWay(c) \/ c \in missed

\* A burnt NFT keeps its row only until its event has deleted it, unless the
\* deletion was lost or a computation that had read the NFT saved it again.
GhostsAreExplained ==
    \A n \in DOMAIN rows \ DOMAIN attributes :
        n \in deletes \cup ghosts \/ \E e \in events : e.kind = "burn" /\ e.nft = n

\* Once nothing changes and nothing fails the documents and the rows of the
\* living NFTs are right for good, whatever was missed or overwritten
\* (updateAllCollectionsRarities).
CatchesUp ==
    <>[](\A c \in Collections :
            /\ RightIn(docs, c)
            /\ \A n \in WithAttributes(Now(c)) : n \in DOMAIN rows /\ rows[n] = Now(c))
=============================================================================
