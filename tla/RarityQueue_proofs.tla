------------------------- MODULE RarityQueue_proofs -------------------------
(***************************************************************************)
(* Proofs about RarityQueue, for any collections, NFTs, changes, jobs and  *)
(* faults: the row of a burnt NFT stays only for one of the named reasons, *)
(* what the jobs remember keeps its type, and the documents of a           *)
(* collection are behind its NFTs only for one of the named reasons.       *)
(***************************************************************************)
EXTENDS RarityQueue, FiniteSetTheorems, SequenceTheorems, TLAPS

IndInv == GhostsAreExplained /\ DOMAIN attributes \subseteq Nfts

\* Somebody will still delete the row of n, or it is known why nobody does.
Excused(n) == n \in deletes \cup ghosts \/ \E e \in events : e.kind = "burn" /\ e.nft = n

LEMMA Ghosts ==
  GhostsAreExplained <=> \A n \in DOMAIN rows \ DOMAIN attributes : Excused(n)
  BY DEF GhostsAreExplained, Excused

\* No living NFT is lost, no row is added, and what was excused still is.
LEMMA NoNewGhost ==
  ASSUME IndInv, DOMAIN attributes \subseteq DOMAIN attributes', DOMAIN attributes' \subseteq Nfts,
         DOMAIN rows' \subseteq DOMAIN rows, \A n \in DOMAIN rows' : Excused(n) => Excused(n)'
  PROVE  IndInv'
  BY DEF IndInv, GhostsAreExplained, Excused

\* Neither the chain nor the rows change, and every excuse stays.
LEMMA SameStep ==
  ASSUME IndInv, UNCHANGED <<chain, rows>>, \A n : Excused(n) => Excused(n)'
  PROVE  IndInv'
  BY NoNewGhost DEF IndInv, chain

\* Deletions, ghosts and events to come are as before.
LEMMA SameExcuses ==
  ASSUME UNCHANGED <<deletes, ghosts, events>>
  PROVE  \A n : Excused(n) => Excused(n)'
  BY DEF Excused

-----------------------------------------------------------------------------
(* The chain and the consumer of its events                                  *)

LEMMA ChangeFacts ==
  ASSUME NEW n \in Nfts, NEW k \in {"burn", "other"}, Change(n, k)
  PROVE  /\ UNCHANGED <<rows, deletes, ghosts>> /\ \A x : Excused(x) => Excused(x)'
         /\ k = "burn" => Excused(n)'
<1> DEFINE e == [id |-> changes + 1, kind |-> k, nft |-> n]
<1>1. UNCHANGED <<rows, deletes, ghosts>> /\ events' = events \cup {e}
  BY DEF Change, history
<1>2. e.kind = k /\ e.nft = n
  OBVIOUS
<1> HIDE DEF e
<1> QED BY <1>1, <1>2 DEF Excused

LEMMA MintKept ==
  ASSUME IndInv, NEW n \in Nfts, NEW a \in Values, Mint(n, a) PROVE IndInv'
<1>1. DOMAIN attributes' = DOMAIN attributes \cup {n}
  BY DEF Mint, Over
<1>2. UNCHANGED rows /\ \A x : Excused(x) => Excused(x)'
  BY ChangeFacts DEF Mint
<1> QED BY <1>1, <1>2, NoNewGhost DEF IndInv

LEMMA UpdateKept ==
  ASSUME IndInv, NEW n \in Nfts, NEW a \in Values, Update(n, a) PROVE IndInv'
<1>1. DOMAIN attributes' = DOMAIN attributes
  BY DEF Update
<1>2. UNCHANGED rows /\ \A x : Excused(x) => Excused(x)'
  BY ChangeFacts DEF Update
<1> QED BY <1>1, <1>2, NoNewGhost DEF IndInv

\* A burnt NFT is excused by its own event.
LEMMA BurnKept ==
  ASSUME IndInv, NEW n \in Nfts, Burn(n) PROVE IndInv'
<1>1. DOMAIN attributes' = DOMAIN attributes \ {n}
  BY DEF Burn, Restricted, IndInv
<1>2. /\ UNCHANGED rows /\ \A x : Excused(x) => Excused(x)'
      /\ Excused(n)'
  BY ChangeFacts DEF Burn
<1>3. \A x \in DOMAIN rows' \ DOMAIN attributes' : Excused(x)'
  BY <1>1, <1>2, Ghosts DEF IndInv
<1> QED BY <1>1, <1>3 DEF IndInv, GhostsAreExplained, Excused

\* The event of a burn becomes a deletion.
LEMMA ConsumeKept ==
  ASSUME IndInv, NEW e \in events, Consume(e) PROVE IndInv'
<1>1. /\ events' = events \ {e} /\ UNCHANGED <<chain, rows, ghosts>>
      /\ deletes' = IF e.kind = "burn" THEN deletes \cup {e.nft} ELSE deletes
  BY DEF Consume, tables, history
<1>2. \A n : Excused(n) => Excused(n)'
  BY <1>1 DEF Excused
<1> QED BY <1>1, <1>2, SameStep

\* The deletion takes the row with it.
LEMMA DeleteKept ==
  ASSUME IndInv, NEW n \in deletes, Delete(n) PROVE IndInv'
<1>1. /\ DOMAIN rows' \subseteq DOMAIN rows \ {n} /\ deletes' = deletes \ {n}
      /\ UNCHANGED <<attributes, events, ghosts>>
  BY DEF Delete, RowsWithout, Restricted, chain, history
<1>2. \A x \in DOMAIN rows' : Excused(x) => Excused(x)'
  BY <1>1 DEF Excused
<1> QED BY <1>1, <1>2, NoNewGhost DEF IndInv

LEMMA EventLostKept ==
  ASSUME IndInv, NEW e \in events, EventLost(e) PROVE IndInv'
<1>1. /\ events' = events \ {e} /\ UNCHANGED <<chain, rows, deletes>>
      /\ ghosts' = IF e.kind = "burn" THEN ghosts \cup {e.nft} ELSE ghosts
  BY DEF EventLost, tables
<1>2. \A n : Excused(n) => Excused(n)'
  BY <1>1 DEF Excused
<1> QED BY <1>1, <1>2, SameStep

LEMMA DeleteLostKept ==
  ASSUME IndInv, NEW n \in deletes, DeleteLost(n) PROVE IndInv'
<1>1. /\ deletes' = deletes \ {n} /\ ghosts' = ghosts \cup {n}
      /\ UNCHANGED <<chain, rows, events>>
  BY DEF DeleteLost, tables
<1>2. \A x : Excused(x) => Excused(x)'
  BY <1>1 DEF Excused
<1> QED BY <1>1, <1>2, SameStep

-----------------------------------------------------------------------------
(* The jobs                                                                  *)

\* A computation adds the rows of the NFTs it had read: those burnt meanwhile
\* are still to be deleted, or become ghosts.
LEMMA SaveRowsKept ==
  ASSUME IndInv, NEW j \in Jobs, SaveRows(j) PROVE IndInv'
<1> DEFINE new == DOMAIN run[j].rows
<1>1. /\ DOMAIN rows' = DOMAIN rows \cup new
      /\ ghosts' = ghosts \cup {n \in new : /\ n \notin DOMAIN attributes \cup deletes
                                            /\ ~\E e \in events : e.kind = "burn" /\ e.nft = n}
      /\ UNCHANGED <<attributes, events, deletes>>
  BY DEF SaveRows, Upserted, Over, chain, feed
<1> HIDE DEF new
<1>2. \A n \in DOMAIN rows \ DOMAIN attributes : Excused(n)'
  BY <1>1, Ghosts DEF IndInv, Excused
<1>3. \A n \in new \ DOMAIN attributes : Excused(n)'
  BY <1>1 DEF Excused
<1>4. \A n \in DOMAIN rows' \ DOMAIN attributes' : Excused(n)'
  BY <1>1, <1>2, <1>3
<1> QED BY <1>1, <1>4 DEF IndInv, GhostsAreExplained, Excused

LEMMA WorkKept ==
  ASSUME IndInv, NEW j \in Jobs, Work(j) PROVE IndInv'
<1>1. CASE SaveRows(j)
  BY <1>1, SaveRowsKept
<1>2. CASE ~SaveRows(j)
  <2>1. UNCHANGED <<chain, rows, deletes, ghosts, events>>
    BY <1>2 DEF Work, Skip, Check, ReadApi, ReadDocs, ReadPart, MarkPlain, SaveDocs,
       tables, feed, history
  <2> QED BY <2>1, SameStep, SameExcuses
<1> QED BY <1>1, <1>2

LEMMA StartsKept ==
  ASSUME IndInv, StartQueue \/ StartUnset \/ StartReindex \/ StartValidate PROVE IndInv'
<1>1. UNCHANGED <<chain, rows, deletes, ghosts, events>>
  BY DEF StartQueue, StartUnset, StartReindex, StartValidate, Starts, tables, history
<1> QED BY <1>1, SameStep, SameExcuses

LEMMA FaultsKept ==
  ASSUME IndInv, Faults PROVE IndInv'
<1>1. ASSUME NEW j \in Jobs, NEW part, ReadFails(j, part) \/ WriteFails(j, part) PROVE IndInv'
  <2>1. UNCHANGED <<chain, rows, deletes, ghosts, events>>
    BY <1>1 DEF ReadFails, WriteFails, tables, feed
  <2> QED BY <2>1, SameStep, SameExcuses
<1>2. CASE Restart
  <2>1. UNCHANGED <<chain, rows, deletes, ghosts, events>>
    BY <1>2 DEF Restart, tables, feed
  <2> QED BY <2>1, SameStep, SameExcuses
<1> QED BY <1>1, <1>2, EventLostKept, DeleteLostKept DEF Faults

-----------------------------------------------------------------------------
LEMMA InitKept == Init => IndInv
  BY DEF Init, IndInv, GhostsAreExplained

LEMMA NextKept == IndInv /\ [Next]_vars => IndInv'
<1> SUFFICES ASSUME IndInv, [Next]_vars PROVE IndInv'
  OBVIOUS
<1>1. CASE Chain
  BY <1>1, MintKept, UpdateKept, BurnKept DEF Chain
<1>2. CASE Consumer
  BY <1>2, ConsumeKept, DeleteKept DEF Consumer
<1>3. ASSUME NEW j \in Jobs, Work(j) PROVE IndInv'
  BY <1>3, WorkKept
<1>4. CASE UNCHANGED vars
  <2>1. UNCHANGED <<chain, rows, deletes, ghosts, events>>
    BY <1>4 DEF vars, tables, feed, history
  <2> QED BY <2>1, SameStep, SameExcuses
<1> QED BY <1>1, <1>2, <1>3, <1>4, StartsKept, FaultsKept DEF Next

\* However the jobs, the consumer and the deletions nobody awaits interleave, a
\* burnt NFT keeps its row only until its event has deleted it, or when the
\* deletion was lost, or when a computation that had read the NFT saved it
\* again (deleteNftRarity, saveOrUpdateBulkRarities).
THEOREM GhostsExplained == Spec => []GhostsAreExplained
<1>1. IndInv => GhostsAreExplained
  BY DEF IndInv
<1> QED BY <1>1, InitKept, NextKept, PTL DEF Spec

-----------------------------------------------------------------------------
(* Types: what a job remembers of a collection is about NFTs of it.          *)

Partial(V) == UNION {[S -> V] : S \in SUBSET Nfts}
Contents == Partial(Values)
Doc == [has : {"unset", "true", "false"}, rank : Contents]
Members(c) == {n \in Nfts : CollectionOf[n] = c}
Lists == Seq(Collections) \ {<<>>}

IdleRun == [pc : {"idle"}]
SkipRun == [pc : {"skip"}, list : Lists]
ReadRun == [pc : {"read", "plain"}, list : Lists, left : SUBSET {"api", "docs"}, api : Contents, docs : Partial(Doc)]
CheckRun == [pc : {"check"}, list : Lists, left : SUBSET {"rows", "docs"}, rows : Partial(Contents), docs : Partial(Doc)]
SaveRun == [pc : {"save"}, list : Lists, left : (SUBSET {"rows", "docs"}) \ {{}}, rows : Partial(Contents),
            scores : Partial(Contents)]

\* What a job is doing, and for which collection.
Good(r) ==
  \/ r \in IdleRun \cup SkipRun
  \/ r \in ReadRun /\ DOMAIN r.api \subseteq Members(Head(r.list)) /\ DOMAIN r.docs \subseteq Members(Head(r.list))
  \/ r \in CheckRun /\ DOMAIN r.rows \subseteq Members(Head(r.list))
  \/ r \in SaveRun /\ DOMAIN r.scores \subseteq Members(Head(r.list))

TablesTyped ==
  /\ minted \subseteq Nfts /\ attributes \in Contents /\ DOMAIN attributes \subseteq minted
  /\ docs \in Partial(Doc) /\ DOMAIN docs = DOMAIN attributes /\ rows \in Partial(Contents)
FeedTyped ==
  /\ events \subseteq [id : 1..MaxChanges, kind : {"burn", "other"}, nft : Nfts]
  /\ queue \in Seq(Collections) /\ deletes \subseteq Nfts
RunTyped == DOMAIN run = Jobs /\ run = [j \in Jobs |-> run[j]] /\ \A j \in Jobs : Good(run[j])
RestTyped ==
  /\ changes \in 0..MaxChanges /\ faults \in 0..MaxFaults
  /\ missed \subseteq Collections /\ ghosts \subseteq Nfts
Typed == TablesTyped /\ FeedTyped /\ RunTyped /\ RestTyped

LEMMA PartialIs ==
  ASSUME NEW V, NEW f
  PROVE  f \in Partial(V) <=> /\ DOMAIN f \subseteq Nfts /\ f = [n \in DOMAIN f |-> f[n]]
                              /\ \A n \in DOMAIN f : f[n] \in V
  BY DEF Partial

\* Partial functions built from partial functions.
LEMMA EmptyPartial == ASSUME NEW V PROVE <<>> \in Partial(V) /\ DOMAIN <<>> = {}
<1>1. <<>> = [n \in {} |-> {}]
  OBVIOUS
<1> QED  BY <1>1 DEF Partial

LEMMA RestrictedPartial ==
  ASSUME NEW V, NEW f \in Partial(V), NEW S
  PROVE  Restricted(f, S) \in Partial(V) /\ DOMAIN Restricted(f, S) = DOMAIN f \cap S
<1>1. DOMAIN f \subseteq Nfts /\ \A x \in DOMAIN f : f[x] \in V
  BY PartialIs
<1>2. Restricted(f, S) = [x \in DOMAIN f \cap S |-> f[x]]
  BY DEF Restricted
<1>3. Restricted(f, S) \in [DOMAIN f \cap S -> V] /\ DOMAIN f \cap S \in SUBSET Nfts
  BY <1>1, <1>2
<1> QED  BY <1>2, <1>3 DEF Partial

LEMMA OverPartial ==
  ASSUME NEW V, NEW f \in Partial(V), NEW g \in Partial(V)
  PROVE  Over(f, g) \in Partial(V) /\ DOMAIN Over(f, g) = DOMAIN f \cup DOMAIN g
<1>1. /\ DOMAIN f \subseteq Nfts /\ \A x \in DOMAIN f : f[x] \in V
      /\ DOMAIN g \subseteq Nfts /\ \A x \in DOMAIN g : g[x] \in V
  BY PartialIs
<1>2. Over(f, g) = [x \in DOMAIN f \cup DOMAIN g |-> IF x \in DOMAIN g THEN g[x] ELSE f[x]]
  BY DEF Over
<1>3. Over(f, g) \in [DOMAIN f \cup DOMAIN g -> V] /\ DOMAIN f \cup DOMAIN g \in SUBSET Nfts
  BY <1>1, <1>2
<1> QED  BY <1>2, <1>3 DEF Partial

LEMMA TypedMeans == Typed => TypeOK
<1> SUFFICES ASSUME Typed PROVE TypeOK
  OBVIOUS
<1>1. ASSUME NEW f \in Contents PROVE IsContent(f)
  BY <1>1, PartialIs DEF Contents, IsContent, IsPartial
<1>2. ASSUME NEW f \in Partial(Doc) PROVE IsPartial(f, IsDoc)
  <2>1. \A d \in Doc : IsDoc(d)
    BY <1>1 DEF Doc, IsDoc
  <2> QED  BY <1>2, <2>1, PartialIs DEF IsPartial
<1>3. ASSUME NEW f \in Partial(Contents) PROVE IsPartial(f, IsContent)
  BY <1>1, <1>3, PartialIs DEF IsPartial
<1>4. ASSUME NEW r, Good(r) PROVE IsRun(r)
  BY <1>1, <1>2, <1>3, <1>4 DEF Good, IsRun, IdleRun, SkipRun, ReadRun, CheckRun, SaveRun, Lists
<1> QED  BY <1>1, <1>2, <1>3, <1>4 DEF Typed, TablesTyped, FeedTyped, RunTyped, RestTyped, TypeOK

-----------------------------------------------------------------------------
(* The chain and the consumer keep the types.                                *)

LEMMA ChangeTyped ==
  ASSUME Typed, NEW n \in Nfts, NEW k \in {"burn", "other"}, Change(n, k)
  PROVE  FeedTyped' /\ RunTyped' /\ RestTyped' /\ rows' = rows
<1>1. changes + 1 \in 1..MaxChanges /\ changes' = changes + 1
  BY RarityAssumption DEF Typed, RestTyped, Change
<1>2. [id |-> changes + 1, kind |-> k, nft |-> n] \in [id : 1..MaxChanges, kind : {"burn", "other"}, nft : Nfts]
  BY <1>1
<1>3. events' \subseteq [id : 1..MaxChanges, kind : {"burn", "other"}, nft : Nfts]
  BY <1>2 DEF Change, Typed, FeedTyped
<1> QED  BY <1>1, <1>3 DEF Typed, FeedTyped, RunTyped, RestTyped, Change, history

LEMMA ChainTyped ==
  ASSUME Typed, NEW n \in Nfts, Burn(n) \/ \E a \in Values : Mint(n, a) \/ Update(n, a)
  PROVE  Typed'
<1>1. attributes \in Partial(Values) /\ docs \in Partial(Doc) /\ Contents = Partial(Values)
  BY DEF Typed, TablesTyped, Contents
<1>2. ASSUME NEW a \in Values, Mint(n, a)
      PROVE  Typed'
  <2>0. {n} \in SUBSET Nfts
    OBVIOUS
  <2>1. PICK f : f = [x \in {n} |-> a] /\ f \in Partial(Values) /\ DOMAIN f = {n}
    <3>1. [x \in {n} |-> a] \in [{n} -> Values]
      OBVIOUS
    <3> QED  BY <2>0, <3>1 DEF Partial
  <2>2. [has |-> "unset", rank |-> <<>>] \in Doc
    BY <1>1, EmptyPartial DEF Doc
  <2> DEFINE new == [has |-> "unset", rank |-> <<>>]
  <2> HIDE DEF new
  <2>3. PICK g : g = [x \in {n} |-> new] /\ g \in Partial(Doc) /\ DOMAIN g = {n}
    <3>1. [x \in {n} |-> new] \in [{n} -> Doc]
      BY <2>2 DEF new
    <3> QED  BY <2>0, <3>1 DEF Partial
  <2>4. /\ attributes' \in Partial(Values) /\ DOMAIN attributes' = DOMAIN attributes \cup {n}
        /\ docs' \in Partial(Doc) /\ DOMAIN docs' = DOMAIN docs \cup {n} /\ minted' = minted \cup {n}
    <3>1. attributes' = Over(attributes, f) /\ docs' = Over(docs, g)
      BY <1>2, <2>1, <2>3 DEF Mint, new
    <3>0. f \in Partial(Values) /\ DOMAIN f = {n} /\ g \in Partial(Doc) /\ DOMAIN g = {n}
      BY <2>1, <2>3
    <3>2. attributes' \in Partial(Values) /\ DOMAIN attributes' = DOMAIN attributes \cup {n}
      <4>1. Over(attributes, f) \in Partial(Values) /\ DOMAIN Over(attributes, f) = DOMAIN attributes \cup DOMAIN f
        <5>1. attributes \in Partial(Values) /\ f \in Partial(Values)
          BY <1>1, <3>0
        <5> QED  BY <5>1, OverPartial
      <4> QED  BY <3>0, <3>1, <4>1
    <3>3. docs' \in Partial(Doc) /\ DOMAIN docs' = DOMAIN docs \cup {n}
      <4>1. Over(docs, g) \in Partial(Doc) /\ DOMAIN Over(docs, g) = DOMAIN docs \cup DOMAIN g
        <5>1. docs \in Partial(Doc) /\ g \in Partial(Doc)
          BY <1>1, <3>0
        <5> QED  BY <5>1, OverPartial
      <4> QED  BY <3>0, <3>1, <4>1
    <3> QED  BY <1>2, <3>2, <3>3 DEF Mint
  <2>5. TablesTyped'
    BY <1>1, <1>2, <2>4, ChangeTyped DEF Mint, Typed, TablesTyped
  <2> QED  BY <1>2, <2>5, ChangeTyped DEF Mint, Typed
<1>3. ASSUME NEW a \in Values, Update(n, a)
      PROVE  Typed'
  <2>1. attributes' \in Partial(Values) /\ DOMAIN attributes' = DOMAIN attributes
    <3>1. attributes' = [attributes EXCEPT ![n] = a]
      BY <1>3 DEF Update
    <3>2. PICK S \in SUBSET Nfts : attributes \in [S -> Values]
      BY <1>1 DEF Partial
    <3>3. attributes' \in [S -> Values]
      BY <3>1, <3>2
    <3> QED  BY <3>2, <3>3 DEF Partial
  <2>2. TablesTyped'
    BY <1>1, <1>3, <2>1, ChangeTyped DEF Update, Typed, TablesTyped
  <2> QED  BY <1>3, <2>2, ChangeTyped DEF Update, Typed
<1>4. CASE Burn(n)
  <2>1. /\ attributes' \in Partial(Values) /\ DOMAIN attributes' = DOMAIN attributes \cap (Nfts \ {n})
        /\ docs' \in Partial(Doc) /\ DOMAIN docs' = DOMAIN docs \cap (Nfts \ {n})
    <3>1. attributes' = Restricted(attributes, Nfts \ {n}) /\ docs' = Restricted(docs, Nfts \ {n})
      BY <1>4 DEF Burn
    <3>2. attributes' \in Partial(Values) /\ DOMAIN attributes' = DOMAIN attributes \cap (Nfts \ {n})
      BY <1>1, <3>1, RestrictedPartial
    <3>3. docs' \in Partial(Doc) /\ DOMAIN docs' = DOMAIN docs \cap (Nfts \ {n})
      BY <1>1, <3>1, RestrictedPartial
    <3> QED  BY <3>2, <3>3
  <2>2. TablesTyped'
    BY <1>1, <1>4, <2>1, ChangeTyped DEF Burn, Typed, TablesTyped
  <2> QED  BY <1>4, <2>2, ChangeTyped DEF Burn, Typed
<1> QED  BY <1>2, <1>3, <1>4

LEMMA ConsumerTyped ==
  ASSUME Typed, Consumer
  PROVE  Typed'
<1>1. ASSUME NEW e \in events, Consume(e)
      PROVE  Typed'
  <2>1. e.nft \in Nfts /\ CollectionOf[e.nft] \in Collections
    BY RarityAssumption DEF Typed, FeedTyped
  <2>2. FeedTyped'
    BY <1>1, <2>1 DEF Consume, Typed, FeedTyped
  <2> QED  BY <1>1, <2>2 DEF Consume, Typed, TablesTyped, RunTyped, RestTyped, chain, tables, history
<1>2. ASSUME NEW n \in deletes, Delete(n)
      PROVE  Typed'
  <2>1. rows' \in Partial(Contents)
    BY <1>2, RestrictedPartial DEF Delete, RowsWithout, Typed, TablesTyped
  <2> QED  BY <1>2, <2>1 DEF Delete, Typed, TablesTyped, FeedTyped, RunTyped, RestTyped, chain, history
<1> QED  BY <1>1, <1>2 DEF Consumer

-----------------------------------------------------------------------------
(* What a job does next is a good run.                                       *)

LEMMA LoopGood ==
  ASSUME NEW j, NEW list \in Seq(Collections)
  PROVE  Good(Loop(j, list))
<1>1. CASE list = <<>>
  BY <1>1 DEF Loop, Good, IdleRun
<1>2. CASE list # <<>>
  <2>1. list \in Lists
    BY <1>2 DEF Lists
  <2>2. <<>> \in Contents /\ <<>> \in Partial(Doc) /\ <<>> \in Partial(Contents) /\ DOMAIN <<>> = {}
    BY EmptyPartial DEF Contents
  <2> DEFINE check == [pc |-> "check", list |-> list, left |-> {"rows", "docs"}, rows |-> <<>>, docs |-> <<>>]
             read == [pc |-> "read", list |-> list, left |-> {"api", "docs"}, api |-> <<>>, docs |-> <<>>]
             skip == [pc |-> "skip", list |-> list]
  <2>3. Good(check)
    BY <2>1, <2>2 DEF Good, CheckRun
  <2>4. Good(read)
    BY <2>1, <2>2 DEF Good, ReadRun
  <2>5. Good(skip)
    BY <2>1 DEF Good, SkipRun
  <2> QED  BY <1>2, <2>3, <2>4, <2>5 DEF Loop
<1> QED  BY <1>1, <1>2

LEMMA Shape ==
  ASSUME NEW r, Good(r)
  PROVE  /\ r.pc \in {"idle", "skip", "read", "plain", "check", "save"}
         /\ r.pc # "idle" => r.list \in Lists /\ Tail(r.list) \in Seq(Collections) /\ Head(r.list) \in Collections
         /\ r.pc \in {"read", "plain"} => /\ r \in ReadRun /\ DOMAIN r.api \subseteq Members(Head(r.list))
                                          /\ DOMAIN r.docs \subseteq Members(Head(r.list))
         /\ r.pc = "check" => r \in CheckRun /\ DOMAIN r.rows \subseteq Members(Head(r.list))
         /\ r.pc = "save" => r \in SaveRun /\ DOMAIN r.scores \subseteq Members(Head(r.list))
<1>1. \A l \in Lists : Tail(l) \in Seq(Collections) /\ Head(l) \in Collections
  BY DEF Lists
<1> QED  BY <1>1 DEF Good, IdleRun, SkipRun, ReadRun, CheckRun, SaveRun

LEMMA LeavesGood ==
  ASSUME NEW j, Good(run[j]), ~At(j, "idle")
  PROVE  Good(Leaves(j))
  BY Shape, LoopGood DEF Leaves, At

\* The run j is replaced by a good one.
LEMMA BecomesTyped ==
  ASSUME RunTyped, NEW j \in Jobs, NEW r, Good(r), Becomes(j, r)
  PROVE  RunTyped' /\ run'[j] = r /\ \A k \in Jobs \ {j} : run'[k] = run[k]
  BY DEF RunTyped, Becomes

LEMMA CheckTyped ==
  ASSUME Typed, NEW j \in Jobs, NEW part, Check(j, part)
  PROVE  Typed'
<1>0. /\ Good(run[j]) /\ At(j, "check") /\ part \in run[j].left
      /\ UNCHANGED <<chain, tables, feed, faults, history>>
  BY DEF Check, Typed, RunTyped
<1>1. run[j] \in CheckRun /\ DOMAIN run[j].rows \subseteq Members(This(j)) /\ run[j].list \in Lists
  BY <1>0, Shape DEF At, This
<1>2. /\ RowsOf(This(j)) \in Partial(Contents) /\ DOMAIN RowsOf(This(j)) \subseteq Members(This(j))
      /\ DocsOf(This(j)) \in Partial(Doc)
  <2>1. rows \in Partial(Contents) /\ docs \in Partial(Doc)
    BY DEF Typed, TablesTyped
  <2>2. /\ RowsOf(This(j)) \in Partial(Contents) /\ DOMAIN RowsOf(This(j)) = DOMAIN rows \cap Members(This(j))
    BY <2>1, RestrictedPartial DEF RowsOf, Members
  <2>3. DocsOf(This(j)) \in Partial(Doc)
    BY <2>1, RestrictedPartial DEF DocsOf
  <2> QED  BY <2>2, <2>3
<1> DEFINE r == [run[j] EXCEPT !.left = @ \ {part},
                               !.rows = IF part = "rows" THEN RowsOf(This(j)) ELSE @,
                               !.docs = IF part = "docs" THEN DocsOf(This(j)) ELSE @]
<1>3. r \in CheckRun /\ r.list = run[j].list /\ DOMAIN r.rows \subseteq Members(Head(r.list)) /\ r.rows \in Partial(Contents)
  BY <1>1, <1>2 DEF CheckRun, This
<1>4. Good(r)
  BY <1>3 DEF Good
<1> HIDE DEF r
<1>5. Good(Verdict(j, r.docs, r.rows))
  <2>1. <<>> \in Contents /\ <<>> \in Partial(Doc) /\ <<>> \in Partial(Contents) /\ DOMAIN <<>> = {}
    BY EmptyPartial DEF Contents
  <2>2. Good(Leaves(j))
    BY <1>0, LeavesGood DEF At
  <2>3. Good([pc |-> "save", list |-> run[j].list, left |-> {"docs"}, rows |-> <<>>, scores |-> r.rows])
    BY <1>1, <1>3, <2>1 DEF Good, SaveRun, This
  <2>4. Good([pc |-> "read", list |-> run[j].list, left |-> {"api", "docs"}, api |-> <<>>, docs |-> <<>>])
    BY <1>1, <2>1 DEF Good, ReadRun
  <2> QED  BY <2>2, <2>3, <2>4 DEF Verdict
<1>6. PICK new : Good(new) /\ Becomes(j, new)
  BY <1>0, <1>4, <1>5 DEF Check, r
<1> QED  BY <1>0, <1>6, BecomesTyped DEF Typed, TablesTyped, FeedTyped, RestTyped, chain, tables, feed, history

\* What is computed from what was read.
LEMMA SaveGood ==
  ASSUME NEW j, Good(run[j]), run[j].pc \in {"read", "plain"},
         NEW api \in Contents, DOMAIN api \subseteq Members(This(j)), NEW ds
  PROVE  Good(Save(j, api, ds))
<1>1. run[j].list \in Lists
  BY Shape
<1>2. WithAttributes(api) \subseteq DOMAIN api /\ DOMAIN api \subseteq Nfts /\ Outdated(api, ds) \subseteq DOMAIN api
  BY PartialIs DEF WithAttributes, Outdated, Contents
<1> DEFINE known == WithAttributes(api) \subseteq DOMAIN ds
           rs == [n \in WithAttributes(api) |-> api]
           scores == IF known THEN [n \in Outdated(api, ds) |-> api] ELSE <<>>
           left == IF known THEN {"rows", "docs"} ELSE {"rows"}
           save == [pc |-> "save", list |-> run[j].list, left |-> left, rows |-> rs, scores |-> scores]
<1>3. rs \in Partial(Contents)
  <2>1. rs \in [WithAttributes(api) -> Contents]
    OBVIOUS
  <2> QED  BY <1>2, <2>1 DEF Partial
<1>4. scores \in Partial(Contents) /\ DOMAIN scores \subseteq Members(This(j))
  <2>1. [n \in Outdated(api, ds) |-> api] \in [Outdated(api, ds) -> Contents]
    OBVIOUS
  <2>2. [n \in Outdated(api, ds) |-> api] \in Partial(Contents)
    BY <1>2, <2>1 DEF Partial
  <2> QED  BY <1>2, <2>2, EmptyPartial
<1>5. left \in (SUBSET {"rows", "docs"}) \ {{}}
  OBVIOUS
<1> HIDE DEF rs, scores, left
<1>6. Good(save)
  BY <1>1, <1>3, <1>4, <1>5 DEF Good, SaveRun, This
<1>7. Good(Leaves(j))
  BY LeavesGood DEF At
<1> HIDE DEF save
<1> QED  BY <1>6, <1>7 DEF Save, save, rs, scores, left

LEMMA ComputedGood ==
  ASSUME NEW j, Good(run[j]), At(j, "read"), NEW r, Good(r), r.pc = "read", r.list = run[j].list
  PROVE  Good(Computed(j, r))
<1>1. r \in ReadRun /\ DOMAIN r.api \subseteq Members(This(j)) /\ DOMAIN r.docs \subseteq Members(This(j)) /\ r.api \in Contents
  BY Shape DEF This, ReadRun
<1>2. Good([r EXCEPT !.pc = "plain"])
  BY <1>1 DEF Good, ReadRun, This
<1>3. Good(Save(j, r.api, r.docs))
  BY <1>1, SaveGood DEF At
<1>4. Good(Leaves(j))
  BY LeavesGood DEF At
<1> QED  BY <1>2, <1>3, <1>4 DEF Computed

\* A list is read, or its read fails.
LEMMA ReadTyped ==
  ASSUME Typed, NEW j \in Jobs, NEW part, At(j, "read"), part \in run[j].left,
         NEW r, r \in ReadRun, r.pc = "read", r.list = run[j].list,
         DOMAIN r.api \subseteq Members(This(j)), DOMAIN r.docs \subseteq Members(This(j)),
         Becomes(j, IF r.left = {} THEN Computed(j, r) ELSE r),
         UNCHANGED <<chain, tables, feed, ghosts>>, faults' \in 0..MaxFaults, missed' \subseteq Collections
  PROVE  Typed'
<1>1. Good(run[j]) /\ RunTyped
  BY DEF Typed, RunTyped
<1>2. Good(r)
  BY DEF Good, This
<1>3. Good(IF r.left = {} THEN Computed(j, r) ELSE r)
  BY <1>1, <1>2, ComputedGood
<1>4. RunTyped'
  BY <1>1, <1>3, BecomesTyped
<1> QED  BY <1>4 DEF Typed, TablesTyped, FeedTyped, RestTyped, chain, tables, feed

\* What a job works on.
LEMMA Working ==
  ASSUME Typed, NEW j \in Jobs, ~At(j, "idle")
  PROVE  This(j) \in Collections /\ Good(run[j]) /\ Good(Leaves(j)) /\ Members(This(j)) \subseteq Nfts
<1>1. Good(run[j])
  BY DEF Typed, RunTyped
<1> QED  BY <1>1, Shape, LeavesGood DEF At, This, Members

LEMMA ReadPartTyped ==
  ASSUME Typed, NEW j \in Jobs, NEW part, NEW api \in Contents, DOMAIN api \subseteq Members(This(j)),
         NEW ds \in Partial(Doc), DOMAIN ds \subseteq Members(This(j)), ReadPart(j, part, api, ds), UNCHANGED faults
  PROVE  Typed'
<1>1. At(j, "read") /\ part \in run[j].left /\ UNCHANGED <<chain, tables, feed, ghosts>> /\ ~At(j, "idle")
  BY DEF ReadPart, At
<1>2. run[j] \in ReadRun /\ DOMAIN run[j].api \subseteq Members(This(j)) /\ DOMAIN run[j].docs \subseteq Members(This(j))
  BY <1>1, Working, Shape DEF At, This
<1>3. missed' \subseteq Collections /\ faults' \in 0..MaxFaults
  BY <1>1, Working DEF ReadPart, Typed, RestTyped
<1> DEFINE r == [run[j] EXCEPT !.left = @ \ {part}, !.api = IF part = "api" THEN api ELSE @,
                               !.docs = IF part = "docs" THEN ds ELSE @]
<1>4. /\ r \in ReadRun /\ r.pc = "read" /\ r.list = run[j].list
      /\ DOMAIN r.api \subseteq Members(This(j)) /\ DOMAIN r.docs \subseteq Members(This(j))
  BY <1>1, <1>2 DEF ReadRun, At
<1>5. Becomes(j, IF r.left = {} THEN Computed(j, r) ELSE r)
  BY DEF ReadPart
<1> HIDE DEF r
<1> QED  BY <1>1, <1>3, <1>4, <1>5, ReadTyped

\* What there is to read of a collection.
LEMMA ThereIs ==
  ASSUME Typed, NEW c
  PROVE  /\ Now(c) \in Contents /\ DOMAIN Now(c) = Of(c) /\ Of(c) \subseteq Members(c)
         /\ DocsOf(c) \in Partial(Doc) /\ DOMAIN DocsOf(c) = Of(c) /\ \A n \in Of(c) : DocsOf(c)[n] = docs[n]
<1>1. /\ docs \in Partial(Doc) /\ DOMAIN docs = DOMAIN attributes /\ DOMAIN attributes \subseteq Nfts
      /\ \A x \in DOMAIN attributes : attributes[x] \in Values
  BY PartialIs DEF Typed, TablesTyped, Contents
<1>2. Of(c) \subseteq Members(c) /\ Of(c) \in SUBSET Nfts /\ Of(c) \subseteq DOMAIN docs
  BY <1>1 DEF Of, Members
<1>3. Now(c) \in [Of(c) -> Values]
  BY <1>1 DEF Now, Of
<1>4. DocsOf(c) \in Partial(Doc) /\ DOMAIN DocsOf(c) = DOMAIN docs \cap Of(c)
  BY <1>1, RestrictedPartial DEF DocsOf
<1>5. \A n \in Of(c) : DocsOf(c)[n] = docs[n]
  BY <1>2 DEF DocsOf, Restricted
<1> QED  BY <1>2, <1>3, <1>4, <1>5 DEF Contents, Partial

LEMMA ReadsTyped ==
  ASSUME Typed, NEW j \in Jobs, ReadApi(j) \/ ReadDocs(j)
  PROVE  Typed'
<1>1. <<>> \in Contents /\ <<>> \in Partial(Doc) /\ DOMAIN <<>> \subseteq Members(This(j))
  BY EmptyPartial DEF Contents
<1>2. CASE ReadApi(j)
  BY <1>1, <1>2, ThereIs, ReadPartTyped DEF ReadApi
<1>3. CASE ReadDocs(j)
  BY <1>1, <1>3, ThereIs, ReadPartTyped DEF ReadDocs
<1> QED  BY <1>2, <1>3

\* The documents a job writes are documents of its collection that there are.
LEMMA Unmarks ==
  ASSUME Typed, NEW j \in Jobs, At(j, "plain")
  PROVE  /\ Unmarked(run[j]) \subseteq Members(This(j))
         /\ [n \in DOMAIN docs |-> IF n \in Unmarked(run[j]) THEN [docs[n] EXCEPT !.has = "false"] ELSE docs[n]] \in Partial(Doc)
         /\ Good(Save(j, run[j].api, run[j].docs))
<1>1. /\ run[j] \in ReadRun /\ DOMAIN run[j].api \subseteq Members(This(j)) /\ run[j].api \in Contents
      /\ Good(run[j]) /\ run[j].pc = "plain"
  BY Working, Shape DEF At, This, ReadRun
<1>2. Unmarked(run[j]) \subseteq Members(This(j))
  BY <1>1 DEF Unmarked, Plain
<1>3. docs \in Partial(Doc) /\ DOMAIN docs \in SUBSET Nfts /\ \A n \in DOMAIN docs : docs[n] \in Doc
  BY PartialIs DEF Typed, TablesTyped
<1>4. \A d \in Doc : [d EXCEPT !.has = "false"] \in Doc
  BY DEF Doc
<1>5. [n \in DOMAIN docs |-> IF n \in Unmarked(run[j]) THEN [docs[n] EXCEPT !.has = "false"] ELSE docs[n]]
        \in [DOMAIN docs -> Doc]
  BY <1>3, <1>4
<1>6. Good(Save(j, run[j].api, run[j].docs))
  BY <1>1, SaveGood
<1> QED  BY <1>2, <1>3, <1>5, <1>6 DEF Partial

LEMMA DocsWritten ==
  ASSUME Typed, NEW j \in Jobs, At(j, "save")
  PROVE  LET new == [n \in Existing(j) |-> [has |-> "true", rank |-> run[j].scores[n]]] IN
         /\ Existing(j) \subseteq DOMAIN docs \cap Members(This(j))
         /\ Over(docs, new) \in Partial(Doc) /\ DOMAIN Over(docs, new) = DOMAIN docs
<1> DEFINE new == [n \in Existing(j) |-> [has |-> "true", rank |-> run[j].scores[n]]]
<1>1. run[j] \in SaveRun /\ DOMAIN run[j].scores \subseteq Members(This(j)) /\ run[j].scores \in Partial(Contents)
  BY Working, Shape DEF At, This, SaveRun
<1>2. docs \in Partial(Doc)
  BY DEF Typed, TablesTyped
<1>3. Existing(j) \subseteq DOMAIN docs \cap Members(This(j)) /\ Existing(j) \in SUBSET Nfts
  BY <1>1 DEF Existing, Members
<1>4. \A n \in Existing(j) : [has |-> "true", rank |-> run[j].scores[n]] \in Doc
  BY <1>1, PartialIs DEF Existing, Doc
<1>5. new \in Partial(Doc) /\ DOMAIN new = Existing(j)
  <2>1. new \in [Existing(j) -> Doc]
    BY <1>4
  <2> QED  BY <1>3, <2>1 DEF Partial
<1> HIDE DEF new
<1>6. Over(docs, new) \in Partial(Doc) /\ DOMAIN Over(docs, new) = DOMAIN docs \cup DOMAIN new
  BY <1>2, <1>5, OverPartial
<1> QED  BY <1>3, <1>5, <1>6 DEF new

\* A write is made, or fails.
LEMMA WrittenGood ==
  ASSUME Typed, NEW j \in Jobs, NEW part \in {"rows", "docs"}, Saves(j, part)
  PROVE  RunTyped'
<1>1. At(j, "save") /\ part \in run[j].left /\ ~At(j, "idle") /\ Written(j, part)
  BY DEF Saves, At
<1>2. run[j] \in SaveRun /\ DOMAIN run[j].scores \subseteq Members(Head(run[j].list)) /\ Good(Leaves(j))
  BY <1>1, Working, Shape DEF At
<1>3. run[j].left # {part} => Good([run[j] EXCEPT !.left = @ \ {part}])
  BY <1>1, <1>2 DEF Good, SaveRun
<1> QED  BY <1>1, <1>2, <1>3, BecomesTyped DEF Written, Typed

LEMMA DocsBecomeTyped ==
  ASSUME Typed, NEW j \in Jobs, ~At(j, "idle"), NEW ds, DocsBecome(j, ds)
  PROVE  docs' = ds /\ missed' \subseteq Collections
  BY Working DEF DocsBecome, Typed, RestTyped

LEMMA WorkTyped ==
  ASSUME Typed, NEW j \in Jobs, Work(j)
  PROVE  Typed'
<1>0. RunTyped /\ rows \in Partial(Contents)
  BY DEF Typed, TablesTyped
<1>1. CASE Skip(j)
  <2>1. RunTyped' /\ missed' \subseteq Collections
    <3>1. ~At(j, "idle") /\ Becomes(j, Leaves(j)) /\ missed' \subseteq missed \cup {This(j)}
      BY <1>1 DEF Skip, At
    <3> QED  BY <1>0, <3>1, Working, BecomesTyped DEF Typed, RestTyped
  <2> QED  BY <1>1, <2>1 DEF Skip, Typed, TablesTyped, FeedTyped, RestTyped, chain, tables, feed
<1>2. CASE \E part \in {"rows", "docs"} : Check(j, part)
  BY <1>2, CheckTyped
<1>3. CASE ReadApi(j) \/ ReadDocs(j)
  BY <1>3, ReadsTyped
<1>4. CASE MarkPlain(j)
  <2>1. At(j, "plain") /\ ~At(j, "idle")
    BY <1>4 DEF MarkPlain, At
  <2>2. RunTyped'
    BY <1>0, <1>4, <2>1, Unmarks, BecomesTyped DEF MarkPlain
  <2> DEFINE new == [n \in DOMAIN docs |-> IF n \in Unmarked(run[j]) THEN [docs[n] EXCEPT !.has = "false"] ELSE docs[n]]
  <2>3. new \in Partial(Doc) /\ DOMAIN new = DOMAIN docs
    BY <2>1, Unmarks
  <2>4. DocsBecome(j, new)
    BY <1>4 DEF MarkPlain
  <2> HIDE DEF new
  <2>5. docs' \in Partial(Doc) /\ DOMAIN docs' = DOMAIN docs /\ missed' \subseteq Collections
    BY <2>1, <2>3, <2>4, DocsBecomeTyped
  <2> QED  BY <1>4, <2>2, <2>5 DEF MarkPlain, Typed, TablesTyped, FeedTyped, RestTyped, chain, feed
<1>5. CASE SaveRows(j)
  <2>1. Saves(j, "rows") /\ run[j] \in SaveRun
    BY <1>5, Working, Shape DEF SaveRows, Saves, At
  <2>2. RunTyped'
    BY <2>1, WrittenGood
  <2>3. run[j].rows \in Partial(Contents)
    BY <2>1 DEF SaveRun
  <2>4. rows' \in Partial(Contents)
    BY <1>0, <1>5, <2>3, OverPartial DEF SaveRows, Upserted
  <2>5. ghosts' \subseteq Nfts
    BY <1>5, <2>3, PartialIs DEF SaveRows, Typed, RestTyped
  <2> QED  BY <1>5, <2>2, <2>4, <2>5 DEF SaveRows, Typed, TablesTyped, FeedTyped, RestTyped, chain, feed
<1>6. CASE SaveDocs(j)
  <2>1. Saves(j, "docs") /\ At(j, "save") /\ ~At(j, "idle")
    BY <1>6 DEF SaveDocs, Saves, At
  <2>2. RunTyped'
    BY <2>1, WrittenGood
  <2> DEFINE new == Over(docs, [n \in Existing(j) |-> [has |-> "true", rank |-> run[j].scores[n]]])
  <2>3. new \in Partial(Doc) /\ DOMAIN new = DOMAIN docs
    BY <2>1, DocsWritten
  <2>4. DocsBecome(j, new)
    BY <1>6 DEF SaveDocs
  <2> HIDE DEF new
  <2>5. docs' \in Partial(Doc) /\ DOMAIN docs' = DOMAIN docs /\ missed' \subseteq Collections
    BY <2>1, <2>3, <2>4, DocsBecomeTyped
  <2> QED  BY <1>6, <2>2, <2>5 DEF SaveDocs, Typed, TablesTyped, FeedTyped, RestTyped, chain, feed
<1> QED  BY <1>1, <1>2, <1>3, <1>4, <1>5, <1>6 DEF Work

LEMMA FaultsTyped ==
  ASSUME Typed, Faults
  PROVE  Typed'
<1>0. faults \in 0..MaxFaults /\ MaxFaults \in Nat
  BY RarityAssumption DEF Typed, RestTyped
<1>1. Fault => faults' \in 0..MaxFaults
  BY <1>0 DEF Fault
<1>2. ASSUME NEW e \in events, EventLost(e)
      PROVE  Typed'
  <2>1. e.nft \in Nfts /\ CollectionOf[e.nft] \in Collections
    BY RarityAssumption DEF Typed, FeedTyped
  <2> QED  BY <1>1, <1>2, <2>1 DEF EventLost, Typed, TablesTyped, FeedTyped, RunTyped, RestTyped, chain, tables
<1>3. ASSUME NEW n \in deletes, DeleteLost(n)
      PROVE  Typed'
  BY <1>1, <1>3 DEF DeleteLost, Typed, TablesTyped, FeedTyped, RunTyped, RestTyped, chain, tables
<1>4. ASSUME NEW j \in Jobs, NEW part, ReadFails(j, part)
      PROVE  Typed'
  <2> DEFINE r == [run[j] EXCEPT !.left = @ \ {part}]
  <2>1. /\ At(j, "read") /\ part \in run[j].left /\ ~At(j, "idle") /\ UNCHANGED <<chain, tables, feed, ghosts>>
        /\ Becomes(j, IF r.left = {} THEN Computed(j, r) ELSE r)
    BY <1>4 DEF ReadFails, At
  <2>2. run[j] \in ReadRun /\ DOMAIN run[j].api \subseteq Members(This(j)) /\ DOMAIN run[j].docs \subseteq Members(This(j))
    BY <2>1, Working, Shape DEF At, This
  <2>3. /\ r \in ReadRun /\ r.pc = "read" /\ r.list = run[j].list
        /\ DOMAIN r.api \subseteq Members(This(j)) /\ DOMAIN r.docs \subseteq Members(This(j))
    BY <2>1, <2>2 DEF ReadRun, At
  <2>4. missed' \subseteq Collections /\ faults' \in 0..MaxFaults
    BY <1>1, <1>4, <2>1, Working DEF ReadFails, Typed, RestTyped
  <2> HIDE DEF r
  <2> QED  BY <2>1, <2>3, <2>4, ReadTyped
<1>5. ASSUME NEW j \in Jobs, NEW part \in {"rows", "docs"}, WriteFails(j, part)
      PROVE  Typed'
  <2>1. RunTyped' /\ ~At(j, "idle")
    <3>1. CASE Saves(j, part)
      BY <3>1, WrittenGood DEF Saves, At
    <3>2. CASE At(j, "plain") /\ Becomes(j, Save(j, run[j].api, run[j].docs))
      BY <3>2, Unmarks, BecomesTyped DEF Typed, At
    <3> QED  BY <1>5, <3>1, <3>2 DEF WriteFails
  <2>2. missed' \subseteq Collections /\ faults' \in 0..MaxFaults
    BY <1>1, <1>5, <2>1, Working DEF WriteFails, Typed, RestTyped
  <2> QED  BY <1>5, <2>1, <2>2 DEF WriteFails, Typed, TablesTyped, FeedTyped, RestTyped, chain, tables, feed
<1>6. CASE Restart
  <2>1. RunTyped'
    <3>1. Good([pc |-> "idle"])
      BY DEF Good, IdleRun
    <3> QED  BY <1>6, <3>1 DEF Restart, RunTyped
  <2>2. ToSet(run["queue"].list) \subseteq Collections \/ At("queue", "idle")
    <3>1. Good(run["queue"])
      BY DEF Typed, RunTyped, Jobs
    <3>2. CASE ~At("queue", "idle")
      <4>1. run["queue"].list \in Seq(Collections)
        BY <3>1, <3>2, Shape DEF At, Lists
      <4> QED  BY <4>1 DEF ToSet
    <3> QED  BY <3>2
  <2>3. missed' \subseteq Collections
    BY <1>6, <2>2 DEF Restart, Typed, RestTyped
  <2> QED  BY <1>1, <1>6, <2>1, <2>3 DEF Restart, Typed, TablesTyped, FeedTyped, RestTyped, chain, tables, feed
<1> QED  BY <1>2, <1>3, <1>4, <1>5, <1>6 DEF Faults

\* A job goes over a list of collections.
LEMMA StartsTyped ==
  ASSUME Typed, StartQueue \/ StartUnset \/ StartReindex \/ StartValidate
  PROVE  Typed'
<1>1. ASSUME NEW j \in Jobs, NEW list \in Seq(Collections), Starts(j, list), queue' \in Seq(Collections)
      PROVE  Typed'
  <2>1. RunTyped'
    BY <1>1, LoopGood, BecomesTyped DEF Starts, Typed
  <2> QED  BY <1>1, <2>1 DEF Starts, Typed, TablesTyped, FeedTyped, RestTyped, chain, tables, history
<1>2. ASSUME NEW S \in SUBSET Collections, NEW all \in SetToSeqs(S)
      PROVE  all \in Seq(Collections) /\ Len(all) \in Nat
  <2>1. Cardinality(S) \in Nat
    BY RarityAssumption, FS_Subset, FS_CardinalityType
  <2>2. all \in [1..Cardinality(S) -> Collections]
    BY DEF SetToSeqs
  <2> QED  BY <2>1, <2>2
<1>3. queue \in Seq(Collections) /\ <<>> \in Seq(Collections)
  BY DEF Typed, FeedTyped
<1>4. CASE StartQueue
  BY <1>1, <1>3, <1>4 DEF StartQueue, Jobs
<1>5. CASE StartUnset
  <2>1. PICK all \in SetToSeqs(Uncomputed) :
          Starts("unset", SubSeq(all, 1, IF Len(all) < PerRun THEN Len(all) ELSE PerRun))
    BY <1>5 DEF StartUnset
  <2>2. Uncomputed \in SUBSET Collections
    BY RarityAssumption, PartialIs DEF Uncomputed, Typed, TablesTyped
  <2>3. all \in Seq(Collections) /\ Len(all) \in Nat /\ PerRun \in Nat \ {0}
    BY <1>2, <2>2, RarityAssumption
  <2> DEFINE k == IF Len(all) < PerRun THEN Len(all) ELSE PerRun
  <2>4. k \in Nat /\ k <= Len(all)
    BY <2>3
  <2> HIDE DEF k
  <2>5. SubSeq(all, 1, k) \in Seq(Collections)
    BY <2>3, <2>4
  <2> QED  BY <1>1, <1>3, <1>5, <2>1, <2>5 DEF StartUnset, Jobs, k
<1>6. CASE StartReindex
  BY <1>1, <1>2, <1>3, <1>6 DEF StartReindex, Jobs
<1>7. CASE StartValidate
  BY <1>1, <1>2, <1>3, <1>7 DEF StartValidate, Jobs
<1> QED  BY <1>4, <1>5, <1>6, <1>7

LEMMA InitTyped == Init => Typed
<1> SUFFICES ASSUME Init PROVE Typed
  OBVIOUS
<1>1. <<>> \in Contents /\ <<>> \in Partial(Doc) /\ <<>> \in Partial(Contents) /\ DOMAIN <<>> = {} /\ <<>> \in Seq(Collections)
  BY EmptyPartial DEF Contents
<1>2. Good([pc |-> "idle"])
  BY DEF Good, IdleRun
<1> QED  BY <1>1, <1>2, RarityAssumption DEF Init, Typed, TablesTyped, FeedTyped, RunTyped, RestTyped

LEMMA NextTyped == Typed /\ [Next]_vars => Typed'
<1> SUFFICES ASSUME Typed, [Next]_vars PROVE Typed'
  OBVIOUS
<1>1. CASE Chain
  BY <1>1, ChainTyped DEF Chain
<1>2. ASSUME NEW j \in Jobs, Work(j) PROVE Typed'
  BY <1>2, WorkTyped
<1>3. CASE UNCHANGED vars
  BY <1>3 DEF vars, chain, tables, feed, history, Typed, TablesTyped, FeedTyped, RunTyped, RestTyped
<1> QED  BY <1>1, <1>2, <1>3, ConsumerTyped, FaultsTyped, StartsTyped DEF Next

\* The chain, the index, the table, the queue and what each job remembers keep
\* their types, for any collections and NFTs.
THEOREM RaritiesTyped == Spec => []TypeOK
<1> QED  BY InitTyped, NextTyped, TypedMeans, PTL DEF Spec

-----------------------------------------------------------------------------
(* Why the documents of a collection are behind: a change of it is announced *)
(* by an event the consumer will not skip or by the queue, it was missed, or *)
(* the queue's job has it in hand: what that job has read of the NFTs is as  *)
(* they are, and a document that was right when it read it is right still.   *)

Effective(e) == e.kind = "burn" \/ e.nft \in DOMAIN attributes
Announced(c) == (\E e \in events : CollectionOf[e.nft] = c /\ Effective(e)) \/ c \in ToSet(queue)

\* What was right in one state of the documents is right in another.
NotWorse(c, before, after) == \A n \in Of(c) : DocRight(before[n], n) => DocRight(after[n], n)

Reading(c, r, ds) ==
  \/ r.pc = "skip"
  \/ /\ r.pc \in {"read", "plain"} /\ (r.pc = "plain" => r.left = {})
     /\ "api" \notin r.left => r.api = Now(c)
     /\ "docs" \notin r.left => DOMAIN r.docs = Of(c) /\ NotWorse(c, r.docs, ds)
  \/ /\ r.pc = "save" /\ "docs" \in r.left
     /\ \A n \in DOMAIN r.scores : n \in Of(c) /\ attributes[n] # "none" /\ r.scores[n] = Now(c)
     /\ \A n \in Of(c) \ DOMAIN r.scores : DocRight(ds[n], n)
InHand(c, r, ds) ==
  r.pc # "idle" /\ (c \in ToSet(Tail(r.list)) \/ (c = Head(r.list) /\ Reading(c, r, ds)))

Explained(c) == RightIn(docs, c) \/ c \in missed \/ Announced(c) \/ InHand(c, run["queue"], docs)
AllExplained == run["queue"].pc # "check" /\ \A c \in Collections : Explained(c)

LEMMA ExplainedMeans ==
  ASSUME Typed, NEW c \in Collections, Explained(c)
  PROVE  RightIn(docs, c) \/ OnItsWay(c) \/ c \in missed
<1>1. Announced(c) => OnItsWay(c)
  BY DEF Announced, OnItsWay
<1>2. InHand(c, run["queue"], docs) => OnItsWay(c)
  BY DEF InHand, Reading, OnItsWay
<1> QED  BY <1>1, <1>2 DEF Explained

\* While the chain stays as it is.
LEMMA SameChain ==
  ASSUME attributes' = attributes, NEW c,
         RightIn(docs', c) \/ c \in missed' \/ Announced(c)' \/ InHand(c, run'["queue"], docs')
  PROVE  Explained(c)'
<1>1. Of(c)' = Of(c) /\ Now(c)' = Now(c) /\ \A d : Now(d)' = Now(d)
  BY DEF Of, Now
<1>2. RightIn(docs', c) => RightIn(docs, c)'
  BY <1>1 DEF RightIn, DocRight
<1>3. Reading(c, run'["queue"], docs') => Reading(c, run["queue"], docs)'
  BY <1>1 DEF Reading, NotWorse, DocRight
<1>4. InHand(c, run'["queue"], docs') => InHand(c, run["queue"], docs)'
  BY <1>3 DEF InHand
<1> QED  BY <1>2, <1>4 DEF Explained

LEMMA HandStays ==
  ASSUME NEW c, NEW r, NEW before, NEW after, InHand(c, r, before), NotWorse(c, before, after)
  PROVE  InHand(c, r, after)
<1>1. Reading(c, r, before) => Reading(c, r, after)
  BY DEF Reading, NotWorse
<1> QED  BY <1>1 DEF InHand

\* The documents are as right as they were, or all right, or it is missed.
Steady(c) ==
  RightIn(docs', c) \/ c \in missed' \/ (NotWorse(c, docs, docs') /\ (c \in missed => c \in missed'))

LEMMA NothingWritten ==
  ASSUME docs' = docs, missed \subseteq missed', NEW c
  PROVE  Steady(c)
  BY DEF Steady, NotWorse

\* A step that is not one of the queue's job.
LEMMA QuietStep ==
  ASSUME attributes' = attributes, run'["queue"] = run["queue"], NEW c, Explained(c), Steady(c),
         Announced(c) => Announced(c)' \/ c \in missed'
  PROVE  Explained(c)'
<1>1. NotWorse(c, docs, docs') /\ RightIn(docs, c) => RightIn(docs', c)
  BY DEF NotWorse, RightIn
<1> QED  BY <1>1, HandStays, SameChain DEF Explained, Steady

\* What is announced stays so while neither the events nor the queue change.
LEMMA StillAnnounced ==
  ASSUME UNCHANGED <<attributes, events, queue>>, NEW c
  PROVE  Announced(c)' <=> Announced(c)
  BY DEF Announced, Effective

LEMMA LoopReads ==
  ASSUME NEW list \in Seq(Collections), NEW c \in ToSet(list), NEW ds
  PROVE  InHand(c, Loop("queue", list), ds) /\ Loop("queue", list).pc \in {"skip", "read"}
<1>1. list # <<>>
  BY DEF ToSet
<1>2. c = Head(list) \/ c \in ToSet(Tail(list))
  <2>1. PICK i \in 1..Len(list) : c = list[i]
    BY DEF ToSet
  <2>2. i # 1 => i - 1 \in 1..Len(Tail(list)) /\ Tail(list)[i - 1] = list[i]
    BY <1>1
  <2>3. i # 1 => c \in ToSet(Tail(list))
    <3> DEFINE rest == Tail(list)
    <3>1. DOMAIN rest = 1..Len(rest)
      BY <1>1
    <3>2. i # 1 => i - 1 \in DOMAIN rest /\ c = rest[i - 1]
      BY <2>1, <2>2, <3>1
    <3> HIDE DEF rest
    <3>3. i # 1 => c \in ToSet(rest)
      BY <3>2 DEF ToSet
    <3> QED  BY <3>3 DEF rest
  <2> QED  BY <2>1, <2>3
<1> QED  BY <1>1, <1>2 DEF Loop, InHand, Reading

\* A step of the queue's job: it stays with its collection or leaves it.
LEMMA QueueStep ==
  ASSUME Typed, attributes' = attributes, ~At("queue", "idle"), NEW c, Explained(c), Steady(c),
         Announced(c) => Announced(c)',
         \/ run'["queue"] = Leaves("queue")
         \/ run'["queue"].pc # "idle" /\ run'["queue"].list = run["queue"].list,
         c = This("queue") /\ Reading(c, run["queue"], docs) =>
           RightIn(docs', c) \/ c \in missed' \/ InHand(c, run'["queue"], docs')
  PROVE  Explained(c)'
<1>1. NotWorse(c, docs, docs') /\ RightIn(docs, c) => RightIn(docs', c)
  BY DEF NotWorse, RightIn
<1>2. c \in ToSet(Tail(run["queue"].list)) => InHand(c, run'["queue"], docs')
  <2>1. CASE run'["queue"] = Leaves("queue")
    <3>1. Tail(run["queue"].list) \in Seq(Collections)
      BY Shape DEF Typed, RunTyped, Jobs, At
    <3> QED  BY <2>1, <3>1, LoopReads DEF Leaves
  <2>2. CASE run'["queue"].pc # "idle" /\ run'["queue"].list = run["queue"].list
    BY <2>2 DEF InHand
  <2> QED  BY <2>1, <2>2
<1> QED  BY <1>1, <1>2, SameChain DEF Explained, Steady, InHand, This

\* A job writes documents of its own collection only.
LEMMA WritesSteady ==
  ASSUME Typed, attributes' = attributes, NEW j \in Jobs, NEW ds, DocsBecome(j, ds),
         \A n \in DOMAIN docs \ Members(This(j)) : ds[n] = docs[n], NEW c \in Collections
  PROVE  Steady(c)
<1>1. \A n \in Of(c) : n \in DOMAIN docs /\ CollectionOf[n] = c
  BY DEF Of, Typed, TablesTyped
<1>2. docs' = ds /\ missed' = IF RightIn(ds, This(j)) THEN missed \ {This(j)}
                              ELSE IF Overwritten(This(j), ds) THEN missed \cup {This(j)}
                              ELSE missed
  BY DEF DocsBecome
<1>3. CASE c # This(j)
  BY <1>1, <1>2, <1>3 DEF Steady, NotWorse, Members
<1>4. CASE c = This(j)
  BY <1>2, <1>4 DEF Steady, NotWorse, Overwritten
<1> QED  BY <1>3, <1>4

-----------------------------------------------------------------------------
(* What the queue's job does with what it has read.                          *)

\* What is computed from the NFTs as they are writes what is not right yet.
LEMMA SaveReads ==
  ASSUME NEW c, c = This("queue"), NEW ds, DOMAIN ds = Of(c), NEW after, NotWorse(c, ds, after),
         \A n \in Of(c) : attributes[n] = "none" => DocRight(after[n], n)
  PROVE  RightIn(after, c) \/ InHand(c, Save("queue", Now(c), ds), after)
<1>1. /\ WithAttributes(Now(c)) = {n \in Of(c) : attributes[n] # "none"}
      /\ \A n \in Of(c) : n \notin Outdated(Now(c), ds) /\ attributes[n] # "none" => ds[n].has = "true" /\ ds[n].rank = Now(c)
      /\ Outdated(Now(c), ds) \subseteq WithAttributes(Now(c))
  BY DEF WithAttributes, Outdated, Now
<1>2. CASE WithAttributes(Now(c)) = {}
  BY <1>1, <1>2 DEF RightIn
<1>3. CASE WithAttributes(Now(c)) # {}
  <2> DEFINE scores == [n \in Outdated(Now(c), ds) |-> Now(c)]
  <2>1. WithAttributes(Now(c)) \subseteq DOMAIN ds
    BY <1>1
  <2>2. PICK new : /\ new = Save("queue", Now(c), ds)
                   /\ new.pc = "save" /\ new.list = run["queue"].list /\ new.left = {"rows", "docs"}
                   /\ new.scores = scores
    <3>1. Save("queue", Now(c), ds) =
            [pc |-> "save", list |-> run["queue"].list, left |-> {"rows", "docs"},
             rows |-> [n \in WithAttributes(Now(c)) |-> Now(c)], scores |-> scores]
      BY <1>3, <2>1 DEF Save
    <3> HIDE DEF scores
    <3> QED  BY <3>1
  <2>3. ASSUME NEW n \in DOMAIN scores
        PROVE  n \in Of(c) /\ attributes[n] # "none" /\ scores[n] = Now(c)
    BY <1>1
  <2>4. ASSUME NEW n \in Of(c) \ DOMAIN scores
        PROVE  DocRight(after[n], n)
    <3>1. CASE attributes[n] = "none"
      BY <3>1
    <3>2. CASE attributes[n] # "none"
      <4>1. CollectionOf[n] = c
        BY DEF Of
      <4>2. DocRight(ds[n], n)
        BY <1>1, <3>2, <4>1 DEF DocRight
      <4> QED  BY <4>2 DEF NotWorse
    <3> QED  BY <3>1, <3>2
  <2> HIDE DEF scores
  <2>5. Reading(c, new, after)
    BY <2>2, <2>3, <2>4 DEF Reading
  <2> QED  BY <2>2, <2>5 DEF InHand, This
<1> QED  BY <1>2, <1>3

LEMMA ComputedReads ==
  ASSUME NEW c, c = This("queue"), NEW r \in ReadRun, r.pc = "read", r.left = {}, r.list = run["queue"].list,
         Reading(c, r, docs)
  PROVE  RightIn(docs, c) \/ InHand(c, Computed("queue", r), docs)
<1>1. r.api = Now(c) /\ DOMAIN r.docs = Of(c) /\ NotWorse(c, r.docs, docs)
  BY DEF Reading
<1>2. Plain(r.api) = {n \in Of(c) : attributes[n] = "none"}
  BY <1>1 DEF Plain, WithAttributes, Now
<1>3. CASE Unmarked(r) # {}
  <2>1. /\ [r EXCEPT !.pc = "plain"].pc = "plain" /\ [r EXCEPT !.pc = "plain"].list = r.list
        /\ [r EXCEPT !.pc = "plain"].api = r.api /\ [r EXCEPT !.pc = "plain"].docs = r.docs
        /\ [r EXCEPT !.pc = "plain"].left = r.left
    BY DEF ReadRun
  <2>2. Reading(c, [r EXCEPT !.pc = "plain"], docs)
    BY <1>1, <2>1 DEF Reading
  <2>3. InHand(c, [r EXCEPT !.pc = "plain"], docs)
    BY <2>1, <2>2 DEF InHand, This
  <2> QED  BY <1>1, <1>2, <1>3, <2>3 DEF Computed
<1>4. CASE Unmarked(r) = {}
  <2>1. ASSUME NEW n \in Of(c), attributes[n] = "none"
        PROVE  DocRight(docs[n], n)
    <3>1. r.docs[n].has = "false"
      BY <1>2, <1>4, <2>1 DEF Unmarked
    <3>2. DocRight(r.docs[n], n)
      BY <2>1, <3>1 DEF DocRight
    <3> QED  BY <1>1, <3>2 DEF NotWorse
  <2>2. Computed("queue", r) = Save("queue", Now(c), r.docs)
    BY <1>1, <1>2, <1>4 DEF Computed
  <2> QED  BY <1>1, <2>1, <2>2, SaveReads
<1> QED  BY <1>3, <1>4

\* Where the queue's job goes.
LEMMA Goes ==
  ASSUME NEW api, NEW ds, NEW r \in ReadRun, r.list = run["queue"].list
  PROVE  /\ \/ Save("queue", api, ds) = Leaves("queue")
            \/ Save("queue", api, ds).pc = "save" /\ Save("queue", api, ds).list = run["queue"].list
         /\ \/ Computed("queue", r) = Leaves("queue")
            \/ Computed("queue", r).pc \in {"save", "plain"} /\ Computed("queue", r).list = run["queue"].list
         /\ Leaves("queue").pc \in {"idle", "skip", "read"}
<1>1. /\ \/ Save("queue", api, ds) = Leaves("queue")
         \/ Save("queue", api, ds).pc = "save" /\ Save("queue", api, ds).list = run["queue"].list
      /\ \/ Save("queue", r.api, r.docs) = Leaves("queue")
         \/ Save("queue", r.api, r.docs).pc = "save" /\ Save("queue", r.api, r.docs).list = run["queue"].list
  BY DEF Save
<1>2. [r EXCEPT !.pc = "plain"].pc = "plain" /\ [r EXCEPT !.pc = "plain"].list = r.list
  BY DEF ReadRun
<1>3. Leaves("queue").pc \in {"idle", "skip", "read"}
  BY DEF Leaves, Loop
<1> QED  BY <1>1, <1>2, <1>3 DEF Computed

LEMMA QueueRuns ==
  ASSUME Typed
  PROVE  /\ "queue" \in Jobs /\ Good(run["queue"])
         /\ \A r : Becomes("queue", r) => run'["queue"] = r
         /\ \A j \in Jobs \ {"queue"} : \A r : Becomes(j, r) => run'["queue"] = run["queue"]
  BY DEF Typed, RunTyped, Jobs, Becomes

LEMMA ReadExplains ==
  ASSUME Typed, AllExplained, ReadApi("queue") \/ ReadDocs("queue")
  PROVE  AllExplained'
<1>1. /\ At("queue", "read") /\ ~At("queue", "idle") /\ UNCHANGED <<attributes, docs, events, queue>>
      /\ missed \subseteq missed'
  BY DEF ReadApi, ReadDocs, ReadPart, At, chain, tables, feed
<1>2. run["queue"] \in ReadRun
  BY <1>1, QueueRuns, Shape DEF At
<1>3. PICK r \in ReadRun : /\ r.list = run["queue"].list /\ r.pc = "read"
                           /\ run'["queue"] = IF r.left = {} THEN Computed("queue", r) ELSE r
                           /\ Reading(This("queue"), run["queue"], docs) => Reading(This("queue"), r, docs)
  <2>1. CASE ReadApi("queue")
    <3> DEFINE r == [run["queue"] EXCEPT !.left = @ \ {"api"}, !.api = Now(This("queue")), !.docs = @]
    <3>1. Becomes("queue", IF r.left = {} THEN Computed("queue", r) ELSE r)
      BY <2>1 DEF ReadApi, ReadPart
    <3>2. /\ r \in ReadRun /\ r.list = run["queue"].list /\ r.pc = "read" /\ r.left = run["queue"].left \ {"api"}
          /\ r.api = Now(This("queue")) /\ r.docs = run["queue"].docs
      BY <1>1, <1>2, ThereIs DEF ReadRun, At
    <3> HIDE DEF r
    <3>3. Reading(This("queue"), run["queue"], docs) => Reading(This("queue"), r, docs)
      BY <1>1, <3>2 DEF Reading, At
    <3> QED  BY <3>1, <3>2, <3>3, QueueRuns
  <2>2. CASE ReadDocs("queue")
    <3> DEFINE r == [run["queue"] EXCEPT !.left = @ \ {"docs"}, !.api = @, !.docs = DocsOf(This("queue"))]
    <3>1. Becomes("queue", IF r.left = {} THEN Computed("queue", r) ELSE r)
      BY <2>2 DEF ReadDocs, ReadPart
    <3>2. /\ r \in ReadRun /\ r.list = run["queue"].list /\ r.pc = "read" /\ r.left = run["queue"].left \ {"docs"}
          /\ r.api = run["queue"].api /\ r.docs = DocsOf(This("queue"))
      BY <1>1, <1>2, ThereIs DEF ReadRun, At
    <3> HIDE DEF r
    <3>3. NotWorse(This("queue"), r.docs, docs) /\ DOMAIN r.docs = Of(This("queue"))
      BY <3>2, ThereIs DEF NotWorse
    <3>4. Reading(This("queue"), run["queue"], docs) => Reading(This("queue"), r, docs)
      BY <1>1, <3>2, <3>3 DEF Reading, At
    <3> QED  BY <3>1, <3>2, <3>4, QueueRuns
  <2> QED  BY <2>1, <2>2
<1>4. /\ \/ run'["queue"] = Leaves("queue")
         \/ run'["queue"].pc # "idle" /\ run'["queue"].list = run["queue"].list
      /\ run'["queue"].pc # "check"
  BY <1>3, Goes
<1>5. ASSUME NEW c \in Collections
      PROVE  Explained(c)'
  <2>1. c = This("queue") /\ Reading(c, run["queue"], docs) => RightIn(docs', c) \/ InHand(c, run'["queue"], docs')
    <3> SUFFICES ASSUME c = This("queue"), Reading(c, r, docs)
                 PROVE  RightIn(docs, c) \/ InHand(c, run'["queue"], docs)
      BY <1>1, <1>3
    <3>1. r.left # {} => InHand(c, r, docs)
      BY <1>3 DEF InHand, This
    <3> QED  BY <1>3, <3>1, ComputedReads
  <2>2. Steady(c) /\ (Announced(c) => Announced(c)')
    BY <1>1, NothingWritten, StillAnnounced
  <2> QED  BY <1>1, <1>4, <2>1, <2>2, QueueStep DEF AllExplained
<1> QED  BY <1>4, <1>5 DEF AllExplained

LEMMA PlainExplains ==
  ASSUME Typed, AllExplained, MarkPlain("queue")
  PROVE  AllExplained'
<1> DEFINE new == [n \in DOMAIN docs |-> IF n \in Unmarked(run["queue"]) THEN [docs[n] EXCEPT !.has = "false"] ELSE docs[n]]
<1>1. /\ At("queue", "plain") /\ ~At("queue", "idle") /\ UNCHANGED <<attributes, events, queue>>
      /\ DocsBecome("queue", new) /\ docs' = new
      /\ run'["queue"] = Save("queue", run["queue"].api, run["queue"].docs)
  BY QueueRuns DEF MarkPlain, DocsBecome, At, chain, feed
<1>2. run["queue"] \in ReadRun /\ \A n \in DOMAIN docs : docs[n] \in Doc
  BY <1>1, QueueRuns, Shape, PartialIs DEF At, Typed, TablesTyped
<1>3. /\ \/ run'["queue"] = Leaves("queue")
         \/ run'["queue"].pc # "idle" /\ run'["queue"].list = run["queue"].list
      /\ run'["queue"].pc # "check"
  BY <1>1, <1>2, Goes
<1>4. Unmarked(run["queue"]) \subseteq Members(This("queue"))
  BY <1>1, QueueRuns, Unmarks
<1>5. \A n \in DOMAIN docs \ Members(This("queue")) : new[n] = docs[n]
  BY <1>4
<1>6. ASSUME NEW c \in Collections
      PROVE  Explained(c)'
  <2>1. Steady(c) /\ (Announced(c) => Announced(c)')
    BY <1>1, <1>5, QueueRuns, WritesSteady, StillAnnounced
  <2>2. ASSUME c = This("queue"), Reading(c, run["queue"], docs)
        PROVE  RightIn(new, c) \/ InHand(c, run'["queue"], new)
    <3>1. /\ run["queue"].api = Now(c) /\ DOMAIN run["queue"].docs = Of(c) /\ NotWorse(c, run["queue"].docs, docs)
      BY <1>1, <2>2 DEF Reading, At
    <3>2. Unmarked(run["queue"]) = {n \in Of(c) : attributes[n] = "none" /\ run["queue"].docs[n].has # "false"}
      BY <3>1 DEF Unmarked, Plain, WithAttributes, Now
    <3>3. \A n \in Of(c) : n \in DOMAIN docs
      BY DEF Of, Typed, TablesTyped
    <3>4. ASSUME NEW n \in Of(c)
          PROVE  new[n] = (IF n \in Unmarked(run["queue"]) THEN [docs[n] EXCEPT !.has = "false"] ELSE docs[n])
      BY <3>3
    <3>5. ASSUME NEW n \in Unmarked(run["queue"])
          PROVE  DocRight(new[n], n)
      <4>1. n \in Of(c) /\ attributes[n] = "none" /\ docs[n] \in Doc
        BY <1>2, <3>2, <3>3, <3>5
      <4>2. new[n] = [docs[n] EXCEPT !.has = "false"]
        BY <3>4, <3>5, <4>1
      <4>3. [docs[n] EXCEPT !.has = "false"].has = "false"
        BY <4>1 DEF Doc
      <4> QED  BY <4>1, <4>2, <4>3 DEF DocRight
    <3> HIDE DEF new
    <3>6. NotWorse(c, run["queue"].docs, new)
      BY <3>1, <3>4, <3>5 DEF NotWorse
    <3>7. ASSUME NEW n \in Of(c), attributes[n] = "none"
          PROVE  DocRight(new[n], n)
      <4>1. n \notin Unmarked(run["queue"]) => DocRight(run["queue"].docs[n], n)
        BY <3>2, <3>7 DEF DocRight
      <4> QED  BY <3>5, <3>6, <3>7, <4>1 DEF NotWorse
    <3> QED  BY <1>1, <2>2, <3>1, <3>6, <3>7, SaveReads
  <2> QED  BY <1>1, <1>3, <2>1, <2>2, QueueStep DEF AllExplained
<1> QED  BY <1>3, <1>6 DEF AllExplained

\* The next write of the queue's job.
LEMMA Writing ==
  ASSUME Typed, NEW part \in {"rows", "docs"}, Saves("queue", part)
  PROVE  /\ ~At("queue", "idle") /\ At("queue", "save") /\ run["queue"] \in SaveRun /\ part \in run["queue"].left
         /\ \/ run'["queue"] = Leaves("queue") /\ run["queue"].left = {part}
            \/ /\ run'["queue"].pc = "save" /\ run'["queue"].list = run["queue"].list
               /\ run'["queue"].left = run["queue"].left \ {part} /\ run'["queue"].scores = run["queue"].scores
         /\ run'["queue"].pc \notin {"check"}
<1>1. At("queue", "save") /\ ~At("queue", "idle") /\ part \in run["queue"].left /\ Written("queue", part)
  BY DEF Saves, At
<1>2. run["queue"] \in SaveRun
  BY <1>1, QueueRuns, Shape DEF At
<1>3. Leaves("queue").pc # "check"
  BY DEF Leaves, Loop
<1> DEFINE new == [run["queue"] EXCEPT !.left = @ \ {part}]
<1>4. /\ new.pc = "save" /\ new.list = run["queue"].list
      /\ new.left = run["queue"].left \ {part} /\ new.scores = run["queue"].scores
  BY <1>1, <1>2 DEF SaveRun, At
<1>5. run'["queue"] = IF run["queue"].left = {part} THEN Leaves("queue") ELSE new
  BY <1>1, QueueRuns DEF Written
<1> HIDE DEF new
<1> QED  BY <1>1, <1>2, <1>3, <1>4, <1>5

\* The rows are written, or not.
LEMMA RowsExplains ==
  ASSUME Typed, AllExplained, Saves("queue", "rows"), UNCHANGED <<attributes, docs, events, queue>>, missed \subseteq missed'
  PROVE  AllExplained'
<1>1. ASSUME NEW c \in Collections
      PROVE  Explained(c)'
  <2>1. c = This("queue") /\ Reading(c, run["queue"], docs) => InHand(c, run'["queue"], docs')
    <3> SUFFICES ASSUME c = This("queue"), Reading(c, run["queue"], docs)
                 PROVE  InHand(c, run'["queue"], docs)
      OBVIOUS
    <3>1. "docs" \in run["queue"].left
      BY Writing DEF Reading, At
    <3>2. /\ run'["queue"].pc = "save" /\ run'["queue"].list = run["queue"].list
          /\ "docs" \in run'["queue"].left /\ run'["queue"].scores = run["queue"].scores
      BY <3>1, Writing
    <3>3. Reading(c, run'["queue"], docs)
      BY <3>2, Writing DEF Reading, At
    <3> QED  BY <3>2, <3>3 DEF InHand, This
  <2>2. Steady(c) /\ (Announced(c) => Announced(c)')
    BY NothingWritten, StillAnnounced
  <2>3. /\ ~At("queue", "idle")
        /\ \/ run'["queue"] = Leaves("queue")
           \/ run'["queue"].pc # "idle" /\ run'["queue"].list = run["queue"].list
    BY Writing
  <2> QED  BY <2>1, <2>2, <2>3, QueueStep DEF AllExplained
<1> QED  BY <1>1, Writing DEF AllExplained

LEMMA DocsExplains ==
  ASSUME Typed, AllExplained, SaveDocs("queue")
  PROVE  AllExplained'
<1> DEFINE scores == run["queue"].scores
           new == Over(docs, [n \in Existing("queue") |-> [has |-> "true", rank |-> scores[n]]])
<1>1. /\ Saves("queue", "docs") /\ UNCHANGED <<attributes, events, queue>>
      /\ DocsBecome("queue", new) /\ docs' = new
  BY DEF SaveDocs, DocsBecome, chain, feed
<1>2. Existing("queue") \subseteq DOMAIN docs \cap Members(This("queue")) /\ At("queue", "save")
  BY <1>1, Writing, QueueRuns, DocsWritten
<1>3. \A n \in DOMAIN docs : new[n] = IF n \in Existing("queue") THEN [has |-> "true", rank |-> scores[n]] ELSE docs[n]
  BY DEF Over
<1>4. \A n \in DOMAIN docs \ Members(This("queue")) : new[n] = docs[n]
  BY <1>2, <1>3
<1>5. ASSUME NEW c \in Collections
      PROVE  Explained(c)'
  <2>1. Steady(c) /\ (Announced(c) => Announced(c)')
    BY <1>1, <1>4, QueueRuns, WritesSteady, StillAnnounced
  <2>2. ASSUME c = This("queue"), Reading(c, run["queue"], docs), NEW n \in Of(c)
        PROVE  DocRight(new[n], n)
    <3>1. /\ \A m \in DOMAIN scores : m \in Of(c) /\ attributes[m] # "none" /\ scores[m] = Now(c)
          /\ \A m \in Of(c) \ DOMAIN scores : DocRight(docs[m], m)
      BY <1>2, <2>2 DEF Reading, At
    <3>2. n \in DOMAIN docs /\ CollectionOf[n] = c
      BY <2>2 DEF Of, Typed, TablesTyped
    <3>3. n \in Existing("queue") <=> n \in DOMAIN scores
      BY <3>2 DEF Existing
    <3>4. CASE n \in DOMAIN scores
      <4>1. new[n] = [has |-> "true", rank |-> scores[n]]
        BY <1>3, <3>2, <3>3, <3>4
      <4> HIDE DEF new, scores
      <4>2. new[n].has = "true" /\ new[n].rank = Now(c) /\ attributes[n] # "none"
        BY <3>1, <3>4, <4>1
      <4> QED  BY <3>2, <4>2 DEF DocRight
    <3>5. CASE n \notin DOMAIN scores
      <4>1. new[n] = docs[n]
        BY <1>3, <3>2, <3>3, <3>5
      <4> HIDE DEF new, scores
      <4> QED  BY <2>2, <3>1, <3>5, <4>1
    <3> QED  BY <3>4, <3>5
  <2>3. c = This("queue") /\ Reading(c, run["queue"], docs) => RightIn(docs', c)
    <3> HIDE DEF new
    <3> QED  BY <1>1, <2>2 DEF RightIn
  <2>4. /\ ~At("queue", "idle")
        /\ \/ run'["queue"] = Leaves("queue")
           \/ run'["queue"].pc # "idle" /\ run'["queue"].list = run["queue"].list
    BY <1>1, Writing
  <2> QED  BY <1>1, <2>1, <2>3, <2>4, QueueStep DEF AllExplained
<1> QED  BY <1>1, <1>5, Writing DEF AllExplained

\* The queue's job gives its collection up, and it is missed.
LEMMA GivenUp ==
  ASSUME Typed, AllExplained, ~At("queue", "idle"), UNCHANGED <<attributes, docs, events, queue>>,
         missed \subseteq missed', This("queue") \in missed',
         \/ run'["queue"] = Leaves("queue")
         \/ run'["queue"].pc \notin {"idle", "check"} /\ run'["queue"].list = run["queue"].list
  PROVE  AllExplained'
<1>1. run'["queue"].pc # "check"
  BY DEF Leaves, Loop
<1>2. ASSUME NEW c \in Collections
      PROVE  Explained(c)'
  <2>1. Steady(c) /\ (Announced(c) => Announced(c)')
    BY NothingWritten, StillAnnounced
  <2> QED  BY <2>1, QueueStep DEF AllExplained
<1> QED  BY <1>1, <1>2 DEF AllExplained

LEMMA QueueWorks ==
  ASSUME Typed, AllExplained, Work("queue")
  PROVE  AllExplained'
<1>1. CASE Skip("queue")
  <2>1. /\ ~At("queue", "idle") /\ UNCHANGED <<attributes, docs, events, queue>>
        /\ missed' = missed \cup {This("queue")} /\ run'["queue"] = Leaves("queue")
    BY <1>1, QueueRuns DEF Skip, At, chain, tables, feed
  <2> QED  BY <2>1, GivenUp
<1>2. ~\E part \in {"rows", "docs"} : Check("queue", part)
  BY DEF Check, At, AllExplained
<1>3. CASE SaveRows("queue")
  BY <1>3, RowsExplains DEF SaveRows, chain, feed
<1> QED  BY <1>1, <1>2, <1>3, ReadExplains, PlainExplains, DocsExplains DEF Work

-----------------------------------------------------------------------------
(* What the other jobs do does not change what the queue's job has in hand.  *)

LEMMA Stays ==
  ASSUME AllExplained, UNCHANGED <<attributes, events, queue>>, run'["queue"] = run["queue"],
         \A c \in Collections : Steady(c)
  PROVE  AllExplained'
<1>1. ASSUME NEW c \in Collections
      PROVE  Explained(c)'
  BY StillAnnounced, QuietStep DEF AllExplained
<1> QED  BY <1>1 DEF AllExplained

LEMMA OthersWork ==
  ASSUME Typed, AllExplained, NEW j \in Jobs \ {"queue"}, Work(j)
  PROVE  AllExplained'
<1>1. UNCHANGED <<attributes, events, queue>> /\ run'["queue"] = run["queue"]
  <2>1. \E r : Becomes(j, r)
    BY DEF Work, Skip, Check, ReadApi, ReadDocs, ReadPart, MarkPlain, SaveRows, SaveDocs, Saves, Written
  <2> QED  BY <2>1, QueueRuns
           DEF Work, Skip, Check, ReadApi, ReadDocs, ReadPart, MarkPlain, SaveRows, SaveDocs, chain, feed
<1>2. ASSUME NEW c \in Collections
      PROVE  Steady(c)
  <2>1. CASE MarkPlain(j)
    <3> DEFINE new == [n \in DOMAIN docs |-> IF n \in Unmarked(run[j]) THEN [docs[n] EXCEPT !.has = "false"] ELSE docs[n]]
    <3>1. DocsBecome(j, new) /\ At(j, "plain")
      BY <2>1 DEF MarkPlain
    <3>2. \A n \in DOMAIN docs \ Members(This(j)) : new[n] = docs[n]
      BY <3>1, Unmarks
    <3> HIDE DEF new
    <3> QED  BY <1>1, <3>1, <3>2, WritesSteady
  <2>2. CASE SaveDocs(j)
    <3> DEFINE new == Over(docs, [n \in Existing(j) |-> [has |-> "true", rank |-> run[j].scores[n]]])
    <3>1. DocsBecome(j, new) /\ At(j, "save")
      BY <2>2 DEF SaveDocs, Saves
    <3>2. \A n \in DOMAIN docs \ Members(This(j)) : new[n] = docs[n]
      BY <3>1, DocsWritten DEF Over
    <3> HIDE DEF new
    <3> QED  BY <1>1, <3>1, <3>2, WritesSteady
  <2>3. CASE ~MarkPlain(j) /\ ~SaveDocs(j)
    <3>1. docs' = docs /\ missed \subseteq missed'
      BY <2>3 DEF Work, Skip, Check, ReadApi, ReadDocs, ReadPart, SaveRows, tables, history
    <3> QED  BY <3>1, NothingWritten
  <2> QED  BY <2>1, <2>2, <2>3
<1> QED  BY <1>1, <1>2, Stays

-----------------------------------------------------------------------------
(* The faults.                                                               *)

LEMMA ReadFailsExplains ==
  ASSUME Typed, AllExplained, NEW j \in Jobs, NEW part \in {"api", "docs"}, ReadFails(j, part)
  PROVE  AllExplained'
<1> DEFINE r == [run[j] EXCEPT !.left = @ \ {part}]
<1>1. /\ At(j, "read") /\ ~At(j, "idle") /\ UNCHANGED <<attributes, docs, events, queue>>
      /\ missed' = missed \cup {This(j)} /\ Becomes(j, IF r.left = {} THEN Computed(j, r) ELSE r)
  BY DEF ReadFails, At, chain, tables, feed
<1>2. CASE j = "queue"
  <2>1. run["queue"] \in ReadRun
    BY <1>1, <1>2, QueueRuns, Shape DEF At
  <2>2. r \in ReadRun /\ r.pc = "read" /\ r.list = run["queue"].list
    BY <1>1, <1>2, <2>1 DEF ReadRun, At
  <2> HIDE DEF r
  <2>3. \/ run'["queue"] = Leaves("queue")
        \/ run'["queue"].pc \notin {"idle", "check"} /\ run'["queue"].list = run["queue"].list
    BY <1>1, <1>2, <2>2, QueueRuns, Goes
  <2> QED  BY <1>1, <1>2, <2>3, GivenUp
<1>3. CASE j # "queue"
  BY <1>1, <1>3, QueueRuns, NothingWritten, Stays
<1> QED  BY <1>2, <1>3

LEMMA WriteFailsExplains ==
  ASSUME Typed, AllExplained, NEW j \in Jobs, NEW part \in {"rows", "docs"}, WriteFails(j, part)
  PROVE  AllExplained'
<1>1. /\ UNCHANGED <<attributes, docs, events, queue>> /\ missed \subseteq missed'
      /\ part = "docs" => This(j) \in missed'
      /\ \/ Saves(j, part)
         \/ At(j, "plain") /\ part = "docs" /\ Becomes(j, Save(j, run[j].api, run[j].docs))
  BY DEF WriteFails, chain, tables, feed
<1>2. CASE j = "queue" /\ Saves("queue", part)
  <2>1. /\ ~At("queue", "idle")
        /\ \/ run'["queue"] = Leaves("queue")
           \/ run'["queue"].pc \notin {"idle", "check"} /\ run'["queue"].list = run["queue"].list
    BY <1>2, Writing
  <2>2. CASE part = "rows"
    BY <1>1, <1>2, <2>2, RowsExplains
  <2>3. CASE part = "docs"
    BY <1>1, <1>2, <2>1, <2>3, GivenUp
  <2> QED  BY <2>2, <2>3
<1>3. CASE j = "queue" /\ At("queue", "plain") /\ part = "docs" /\ Becomes("queue", Save("queue", run["queue"].api, run["queue"].docs))
  <2>1. run["queue"] \in ReadRun /\ ~At("queue", "idle")
    BY <1>3, QueueRuns, Shape DEF At
  <2>2. \/ run'["queue"] = Leaves("queue")
        \/ run'["queue"].pc \notin {"idle", "check"} /\ run'["queue"].list = run["queue"].list
    BY <1>3, <2>1, QueueRuns, Goes
  <2> QED  BY <1>1, <1>3, <2>1, <2>2, GivenUp
<1>4. CASE j # "queue"
  <2>1. \E r : Becomes(j, r)
    BY <1>1 DEF Saves, Written
  <2> QED  BY <1>1, <1>4, <2>1, QueueRuns, NothingWritten, Stays
<1> QED  BY <1>1, <1>2, <1>3, <1>4

\* What the queue's job had popped is missed.
LEMMA RestartExplains ==
  ASSUME Typed, AllExplained, Restart
  PROVE  AllExplained'
<1>1. /\ UNCHANGED <<attributes, docs, events, queue>> /\ missed \subseteq missed' /\ run'["queue"].pc = "idle"
      /\ ~At("queue", "idle") => ToSet(run["queue"].list) \subseteq missed'
  BY DEF Restart, Jobs, chain, tables, feed
<1>2. ASSUME NEW c, ~At("queue", "idle"), InHand(c, run["queue"], docs)
      PROVE  c \in ToSet(run["queue"].list)
  <2>1. PICK list : list = run["queue"].list /\ list \in Seq(Collections) /\ list # <<>>
    BY <1>2, QueueRuns, Shape DEF Lists, At
  <2>2. DOMAIN list = 1..Len(list) /\ 1 \in 1..Len(list) /\ Head(list) = list[1]
    BY <2>1
  <2>3. DOMAIN Tail(list) = 1..(Len(list) - 1) /\ \A i \in 1..(Len(list) - 1) : Tail(list)[i] = list[i + 1] /\ i + 1 \in 1..Len(list)
    BY <2>1
  <2>4. Head(list) \in ToSet(list)
    BY <2>2 DEF ToSet
  <2>5. ToSet(Tail(list)) \subseteq ToSet(list)
    BY <2>2, <2>3 DEF ToSet
  <2> QED  BY <1>2, <2>1, <2>4, <2>5 DEF InHand
<1>3. ASSUME NEW c \in Collections
      PROVE  Explained(c)'
  <2>1. Announced(c) => Announced(c)'
    BY <1>1, StillAnnounced
  <2>2. InHand(c, run["queue"], docs) => c \in missed'
    BY <1>1, <1>2 DEF InHand, At
  <2> QED  BY <1>1, <2>1, <2>2, SameChain DEF Explained, AllExplained
<1> QED  BY <1>1, <1>3 DEF AllExplained

-----------------------------------------------------------------------------
(* The consumer moves what is announced to the queue, a start of the queue's *)
(* job takes it in hand, and a change of the chain is announced.             *)

LEMMA Appended ==
  ASSUME NEW list \in Seq(Collections), NEW c \in Collections
  PROVE  ToSet(Append(list, c)) = ToSet(list) \cup {c}
<1> DEFINE longer == Append(list, c)
<1>1. /\ DOMAIN longer = 1..(Len(list) + 1) /\ DOMAIN list = 1..Len(list) /\ longer[Len(list) + 1] = c
      /\ \A i \in DOMAIN list : i \in DOMAIN longer /\ longer[i] = list[i]
      /\ \A i \in DOMAIN longer : i \in DOMAIN list \/ i = Len(list) + 1
      /\ Len(list) + 1 \in DOMAIN longer
  OBVIOUS
<1> HIDE DEF longer
<1>2. ToSet(longer) = ToSet(list) \cup {c}
  BY <1>1 DEF ToSet
<1> QED  BY <1>2 DEF longer

LEMMA EventFacts ==
  ASSUME Typed, NEW e \in events
  PROVE  e.nft \in Nfts /\ CollectionOf[e.nft] \in Collections
  BY RarityAssumption DEF Typed, FeedTyped

LEMMA EventGoes ==
  ASSUME Typed, AllExplained, NEW e \in events, Consume(e) \/ EventLost(e)
  PROVE  AllExplained'
<1>1. /\ UNCHANGED <<attributes, docs, run>> /\ events' = events \ {e} /\ missed \subseteq missed'
      /\ \/ queue' = queue /\ CollectionOf[e.nft] \in missed'
         \/ queue' = IF Effective(e) THEN Append(queue, CollectionOf[e.nft]) ELSE queue
  BY DEF Consume, EventLost, Effective, chain, tables, history
<1>2. queue \in Seq(Collections)
  BY DEF Typed, FeedTyped
<1>3. ASSUME NEW c \in Collections
      PROVE  Explained(c)'
  <2>1. ToSet(queue) \subseteq ToSet(queue')
    BY <1>1, <1>2, EventFacts, Appended
  <2>2. Announced(c) => Announced(c)' \/ c \in missed'
    <3>1. CASE c \in ToSet(queue)
      BY <2>1, <3>1 DEF Announced
    <3>2. ASSUME NEW d \in events, CollectionOf[d.nft] = c, Effective(d)
          PROVE  Announced(c)' \/ c \in missed'
      <4>1. CASE d # e
        BY <1>1, <3>2, <4>1 DEF Announced, Effective
      <4>2. CASE d = e
        <5>1. queue' = Append(queue, c) => c \in ToSet(queue')
          BY <1>2, Appended
        <5> QED  BY <1>1, <3>2, <4>2, <5>1 DEF Announced
      <4> QED  BY <4>1, <4>2
    <3> QED  BY <3>1, <3>2 DEF Announced
  <2>3. Steady(c)
    BY <1>1, NothingWritten
  <2> QED  BY <1>1, <2>2, <2>3, QuietStep DEF AllExplained
<1> QED  BY <1>1, <1>3 DEF AllExplained

LEMMA DeletesExplain ==
  ASSUME AllExplained, NEW n \in deletes, Delete(n) \/ DeleteLost(n)
  PROVE  AllExplained'
<1>1. UNCHANGED <<attributes, docs, events, queue, run, missed>>
  BY DEF Delete, DeleteLost, chain, tables, history
<1> QED  BY <1>1, NothingWritten, Stays

LEMMA QueueStarts ==
  ASSUME Typed, AllExplained, StartQueue
  PROVE  AllExplained'
<1>1. /\ At("queue", "idle") /\ UNCHANGED <<attributes, docs, events, missed>>
      /\ run'["queue"] = Loop("queue", queue) /\ queue \in Seq(Collections)
  BY QueueRuns DEF StartQueue, Starts, chain, tables, history, Typed, FeedTyped
<1>2. ASSUME NEW c \in Collections
      PROVE  Explained(c)'
  <2>1. ~InHand(c, run["queue"], docs)
    BY <1>1 DEF InHand, At
  <2>2. c \in ToSet(queue) => InHand(c, run'["queue"], docs')
    BY <1>1, LoopReads
  <2>3. Announced(c) => c \in ToSet(queue) \/ Announced(c)'
    BY <1>1 DEF Announced, Effective
  <2> QED  BY <1>1, <2>1, <2>2, <2>3, SameChain DEF Explained, AllExplained
<1>3. run'["queue"].pc # "check"
  BY <1>1 DEF Loop
<1> QED  BY <1>2, <1>3 DEF AllExplained

LEMMA OthersStart ==
  ASSUME Typed, AllExplained, StartUnset \/ StartReindex \/ StartValidate
  PROVE  AllExplained'
<1>1. /\ UNCHANGED <<attributes, docs, events, queue, missed>>
      /\ \E j \in Jobs \ {"queue"} : \E r : Becomes(j, r)
  BY DEF StartUnset, StartReindex, StartValidate, Starts, Jobs, chain, tables, history
<1> QED  BY <1>1, QueueRuns, NothingWritten, Stays

\* A change of n.
LEMMA Changed ==
  ASSUME Typed, NEW n \in Nfts, Burn(n) \/ \E a \in Values : Mint(n, a) \/ Update(n, a)
  PROVE  /\ UNCHANGED <<queue, run, missed>>
         /\ \A x \in Nfts \ {n} : /\ x \in DOMAIN attributes' <=> x \in DOMAIN attributes
                                  /\ x \in DOMAIN attributes => attributes'[x] = attributes[x] /\ docs'[x] = docs[x]
         /\ DOMAIN attributes \cup DOMAIN attributes' \subseteq Nfts
         /\ \E kind : /\ events' = events \cup {[id |-> changes + 1, kind |-> kind, nft |-> n]}
                      /\ kind = "burn" \/ n \in DOMAIN attributes'
<1>1. /\ DOMAIN attributes \subseteq Nfts /\ DOMAIN docs = DOMAIN attributes
      /\ attributes = [x \in DOMAIN attributes |-> attributes[x]]
  BY PartialIs DEF Typed, TablesTyped, Contents
<1>2. CASE Burn(n)
  BY <1>1, <1>2 DEF Burn, Change, Restricted, history
<1>3. ASSUME NEW a, Mint(n, a)
      PROVE  /\ DOMAIN attributes' = DOMAIN attributes \cup {n}
             /\ \A x \in DOMAIN attributes \ {n} : attributes'[x] = attributes[x] /\ docs'[x] = docs[x]
  BY <1>1, <1>3 DEF Mint, Over
<1>4. ASSUME NEW a, Update(n, a)
      PROVE  /\ DOMAIN attributes' = DOMAIN attributes \cup {n}
             /\ \A x \in DOMAIN attributes \ {n} : attributes'[x] = attributes[x] /\ docs'[x] = docs[x]
  BY <1>1, <1>4 DEF Update
<1>5. CASE \E a \in Values : Mint(n, a) \/ Update(n, a)
  <2>1. Change(n, "other")
    BY <1>5 DEF Mint, Update
  <2>2. /\ DOMAIN attributes' = DOMAIN attributes \cup {n}
        /\ \A x \in DOMAIN attributes \ {n} : attributes'[x] = attributes[x] /\ docs'[x] = docs[x]
    BY <1>3, <1>4, <1>5
  <2> QED  BY <1>1, <2>1, <2>2 DEF Change, history
<1> QED  BY <1>2, <1>5

LEMMA ChainExplains ==
  ASSUME Typed, AllExplained, NEW n \in Nfts, Burn(n) \/ \E a \in Values : Mint(n, a) \/ Update(n, a)
  PROVE  AllExplained'
<1>1. PICK kind : /\ events' = events \cup {[id |-> changes + 1, kind |-> kind, nft |-> n]}
                  /\ kind = "burn" \/ n \in DOMAIN attributes'
  BY Changed
<1>2. ASSUME NEW c \in Collections, c = CollectionOf[n]
      PROVE  Announced(c)'
  <2> DEFINE e == [id |-> changes + 1, kind |-> kind, nft |-> n]
  <2>1. e \in events' /\ e.nft = n /\ e.kind = kind
    BY <1>1
  <2> HIDE DEF e
  <2>2. CollectionOf[e.nft] = c /\ (e.kind = "burn" \/ e.nft \in DOMAIN attributes')
    BY <1>1, <1>2, <2>1
  <2> QED  BY <2>1, <2>2 DEF Announced, Effective
<1>3. ASSUME NEW c \in Collections, c # CollectionOf[n]
      PROVE  Explained(c)'
  <2>1. /\ Of(c)' = Of(c)
        /\ \A m \in Of(c) : CollectionOf[m] = c /\ attributes'[m] = attributes[m] /\ docs'[m] = docs[m]
    BY <1>3, Changed DEF Of
  <2>2. Now(c)' = Now(c)
    BY <2>1 DEF Now
  <2>3. \A m \in Of(c) : \A d : DocRight(d, m)' <=> DocRight(d, m)
    BY <2>1, <2>2 DEF DocRight
  <2>4. RightIn(docs, c) => RightIn(docs, c)'
    BY <2>1, <2>3 DEF RightIn
  <2>5. Reading(c, run["queue"], docs) => Reading(c, run["queue"], docs)'
    BY <2>1, <2>2, <2>3, Changed DEF Reading, NotWorse
  <2>6. InHand(c, run["queue"], docs) => InHand(c, run["queue"], docs)'
    BY <2>5, Changed DEF InHand
  <2>7. Announced(c) => Announced(c)'
    <3>1. ASSUME NEW e \in events, CollectionOf[e.nft] = c, Effective(e)
          PROVE  e \in events' /\ Effective(e)'
      BY <1>1, <1>3, <3>1, EventFacts, Changed DEF Effective
    <3> QED  BY <3>1, Changed DEF Announced
  <2> QED  BY <2>4, <2>6, <2>7, Changed DEF Explained, AllExplained
<1> QED  BY <1>2, <1>3, Changed DEF Explained, AllExplained

LEMMA InitExplains == Init => AllExplained
  BY DEF Init, AllExplained, Explained, RightIn, Of, Jobs

LEMMA NextExplains == Typed /\ AllExplained /\ [Next]_vars => AllExplained'
<1> SUFFICES ASSUME Typed, AllExplained, [Next]_vars PROVE AllExplained'
  OBVIOUS
<1>1. CASE Chain
  BY <1>1, ChainExplains DEF Chain
<1>2. CASE Consumer
  BY <1>2, EventGoes, DeletesExplain DEF Consumer
<1>3. CASE Faults
  BY <1>3, EventGoes, DeletesExplain, ReadFailsExplains, WriteFailsExplains, RestartExplains DEF Faults
<1>4. CASE StartQueue \/ StartUnset \/ StartReindex \/ StartValidate
  BY <1>4, QueueStarts, OthersStart
<1>5. ASSUME NEW j \in Jobs, Work(j)
      PROVE  AllExplained'
  BY <1>5, QueueWorks, OthersWork
<1>6. CASE UNCHANGED vars
  <2>1. UNCHANGED <<attributes, docs, events, queue, run, missed>>
    BY <1>6 DEF vars, chain, tables, feed, history
  <2> QED  BY <2>1, NothingWritten, Stays
<1> QED  BY <1>1, <1>2, <1>3, <1>4, <1>5, <1>6 DEF Next

\* The documents of a collection are behind only while its change is on its
\* way, or when it was missed: for any number of collections, NFTs, changes,
\* jobs at once and faults (processTokenRarityQueue).
THEOREM LagExplained == Spec => []BehindIsExplained
<1>1. Typed /\ AllExplained => BehindIsExplained
  BY ExplainedMeans DEF AllExplained, BehindIsExplained
<1> QED  BY <1>1, InitTyped, NextTyped, InitExplains, NextExplains, PTL DEF Spec
=============================================================================
