---------------------------- MODULE MCRarityQueue ----------------------------
(* One collection with all the NFTs. *)
EXTENDS RarityQueue

OneCollection == [n \in Nfts |-> CHOOSE c \in Collections : TRUE]

\* Whether a behaviour is about one NFT or about two, chosen at its start.
VARIABLE alone
mcVars == <<vars, alone>>

First == CHOOSE n \in Nfts : TRUE
Second == CHOOSE n \in Nfts : n # First
Common == CHOOSE a \in Attributes : TRUE

OnlyCommon == \A n \in DOMAIN attributes : attributes[n] \in {Common, "none"}

\* One NFT: any change but the last one, any fault, any job.  Attributes are
\* alike, so that the first one shown may be called the common one.
Alone ==
    /\ minted' \subseteq {First} /\ changes' < MaxChanges
    /\ attributes' # attributes =>
         OnlyCommon' \/ \E n \in DOMAIN attributes : attributes[n] = Common

\* Two NFTs with one attribute: the first is minted and changed, then the second
\* is minted.  Nothing fails, and only the queue's job and the daily one work.
Together ==
    /\ OnlyCommon'
    /\ changes' < MaxChanges => minted' \subseteq {First}
    /\ changes' = MaxChanges => minted' = Nfts /\ attributes'[Second] = Common
    /\ faults' = 0
    /\ \A j \in {"unset", "validate"} : run'[j].pc = "idle"

ScheduledNext == Next /\ UNCHANGED alone /\ IF alone THEN Alone ELSE Together

ScheduledInit == Init /\ alone \in BOOLEAN

\* The schedules forbid no step of the daily job and none of a job at work.
ScheduledSpec ==
    /\ ScheduledInit
    /\ [][ScheduledNext]_mcVars
    /\ Fairness
=============================================================================
