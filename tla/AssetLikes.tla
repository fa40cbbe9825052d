----------------------------- MODULE AssetLikes -----------------------------
(***************************************************************************)
(* The likes of one NFT: the table assets_likes, the counter of the likes  *)
(* in Redis and the cached answers to "does this user like it", changed by *)
(* the calls that several instances of the API serve at the same time.     *)
(* Every call to MySQL or Redis is a step of its own.                      *)
(***************************************************************************)
EXTENDS Integers, FiniteSets

CONSTANTS
  Users,
  Clients,     \* calls served at the same time
  None,        \* what Redis answers for a key it does not have; nobody
  MaxCalls, MaxExpiries, MaxFailures, MaxCacheFailures, MaxCrashes   \* bounds

ASSUME LikesAssumption ==
  /\ None \notin Users \cup Int /\ IsFiniteSet(Users)
  /\ {MaxCalls, MaxExpiries, MaxFailures, MaxCacheFailures, MaxCrashes} \subseteq Nat

VARIABLES
  likes,     \* table assets_likes: the users who like the NFT
  count,     \* the counter in Redis
  shown,     \* shown[u]: the cached answer for user u
  messages,  \* the users whose AssetLike events are not consumed yet
  call,      \* call[c]: the call client c waits for, and where it is
  held,      \* history: what the table said of c's user since c's call began
  spent      \* how much of each bound is used up

vars == <<likes, count, shown, messages, call, held, spent>>

Op == {"add", "remove", "count", "isLiked"}
PC == {"idle", "read", "load", "query", "fill", "bump", "save", "delete", "clear",
       "recheck", "look", "fetch", "show", "done"}
\* up: the counter is about to be incremented, not decremented; value: what was read.
Call == [op : Op, user : Users \cup {None}, pc : PC, up : BOOLEAN,
         value : Int, answer : {"none", "true", "false", "error"}]
IdleCall == [op |-> "count", user |-> None, pc |-> "idle", up |-> FALSE, value |-> 0, answer |-> "none"]

Bound == [calls |-> MaxCalls, expiries |-> MaxExpiries, failures |-> MaxFailures,
          cache |-> MaxCacheFailures, crashes |-> MaxCrashes]
Spend(what) == spent[what] < Bound[what] /\ spent' = [spent EXCEPT ![what] = @ + 1]

Init ==
  /\ likes = {} /\ count = None /\ shown = [u \in Users |-> None] /\ messages = {}
  /\ call = [c \in Clients |-> IdleCall]
  /\ held = [c \in Clients |-> {}]
  /\ spent = [what \in DOMAIN Bound |-> 0]

At(c, pc) == call[c].pc = pc
user(c) == call[c].user
Goto(c, pc) == call' = [call EXCEPT ![c].pc = pc]
Answer(c, answer) == call' = [call EXCEPT ![c].pc = "done", ![c].answer = answer]
\* What the table says of a user.
Says(table, u) == IF u \in table THEN 1 ELSE 0
\* The calls in hand may have seen the table as it is now.
Witnessed(table) == held' = [c \in Clients |-> held[c] \cup {Says(table, user(c))}]

First(op) == CASE op = "add" -> "read" [] op = "remove" -> "delete"
               [] op = "count" -> "load" [] op = "isLiked" -> "look"

Begin(c, op, u) ==
  /\ At(c, "idle") /\ Spend("calls")
  /\ call' = [call EXCEPT ![c] = [op |-> op, user |-> u, pc |-> First(op),
                                   up |-> FALSE, value |-> 0, answer |-> "none"]]
  /\ held' = [held EXCEPT ![c] = {Says(likes, u)}]
  /\ UNCHANGED <<likes, count, shown, messages>>

Return(c) ==
  /\ At(c, "done") /\ call' = [call EXCEPT ![c] = IdleCall]
  /\ UNCHANGED <<likes, count, shown, messages, held, spent>>

-----------------------------------------------------------------------------
(* The counter: loaded from the table when Redis has none, then changed.   *)

Loaded(c, n) ==
  call' = [call EXCEPT ![c].value = n, ![c].pc = IF call[c].op = "count" THEN "done" ELSE "bump"]

\* Where the call goes on, whether the counter was changed or an error was caught.
Counted(c) ==
  CASE call[c].op = "count" -> "done"
    [] call[c].op = "remove" -> "clear"
    [] call[c].op = "add" -> IF call[c].up THEN "save" ELSE "recheck"

\* The reader loads the counters of a batch of NFTs: if Redis lacks one of the batch it
\* queries and sets all of them, those it has too. The other NFTs are left out, so
\* whether one of theirs is missing is open. A change loads the one counter.
InBatch(c) == call[c].op = "count"

Load(c) ==
  /\ At(c, "load")
  /\ \/ count # None /\ Loaded(c, count)
     \/ (count = None \/ InBatch(c)) /\ Goto(c, "query")
  /\ UNCHANGED <<likes, count, shown, messages, held, spent>>

Query(c) ==
  /\ At(c, "query")
  /\ call' = [call EXCEPT ![c].value = Cardinality(likes), ![c].pc = "fill"]
  /\ UNCHANGED <<likes, count, shown, messages, held, spent>>

Fill(c) ==
  /\ At(c, "fill")
  /\ count' = call[c].value /\ Loaded(c, call[c].value)
  /\ UNCHANGED <<likes, shown, messages, held, spent>>

\* Redis counts from zero when it does not have the key.
Added(n) == IF count = None THEN n ELSE count + n

\* Faulty variant: from the value that was read.
FromRead(c) == IF call[c].up THEN call[c].value + 1 ELSE call[c].value - 1
Changed(c) == IF call[c].up THEN Added(1) ELSE IF call[c].value > 0 THEN Added(-1) ELSE count

Bump(c) ==
  /\ At(c, "bump")
  /\ count' = Changed(c)
  /\ Goto(c, Counted(c))
  /\ UNCHANGED <<likes, shown, messages, held, spent>>

-----------------------------------------------------------------------------
(* addLike.                                                                *)

AddRead(c) ==
  /\ At(c, "read")
  /\ IF user(c) \in likes THEN Answer(c, "true")
                          ELSE call' = [call EXCEPT ![c].pc = "load", ![c].up = TRUE]
  /\ UNCHANGED <<likes, count, shown, messages, held, spent>>

\* The unique index refuses a like that is there already: the error is ignored.
Save(c) ==
  /\ At(c, "save")
  /\ likes' = likes \cup {user(c)} /\ Witnessed(likes')
  /\ Goto(c, "clear")
  /\ UNCHANGED <<count, shown, messages, spent>>

\* Faulty variant: as if the error did not matter.
Hopeful(c) == "true"
\* What the caller is told after an error: isAssetLiked.
Rechecked(c) == IF user(c) \in likes THEN "true" ELSE "false"

Recheck(c) ==
  /\ At(c, "recheck") /\ Answer(c, Rechecked(c))
  /\ UNCHANGED <<likes, count, shown, messages, held, spent>>

-----------------------------------------------------------------------------
(* removeLike.                                                             *)

\* Faulty variant: the number of deleted rows is not looked at.
Anyway(c) == TRUE
Affected(c) == user(c) \in likes

Delete(c) ==
  /\ At(c, "delete")
  /\ likes' = likes \ {user(c)} /\ Witnessed(likes')
  /\ IF Affected(c) THEN Goto(c, "load") ELSE Answer(c, "true")
  /\ UNCHANGED <<count, shown, messages, spent>>

\* Faulty variant: another key is deleted.
OtherKey(u) == shown
Forgotten(u) == [shown EXCEPT ![u] = None]

\* Both calls end by clearing the cached answer and telling the other services to.
Clear(c) ==
  /\ At(c, "clear")
  /\ shown' = Forgotten(user(c))
  /\ messages' = messages \cup {user(c)}
  /\ Answer(c, "true")
  /\ UNCHANGED <<likes, count, held, spent>>

Consume(u) ==
  /\ u \in messages /\ messages' = messages \ {u}
  /\ shown' = Forgotten(u)
  /\ UNCHANGED <<likes, count, call, held, spent>>

-----------------------------------------------------------------------------
(* The reader of the cached answer.                                        *)

Look(c) ==
  /\ At(c, "look") /\ Goto(c, IF shown[user(c)] = None THEN "fetch" ELSE "done")
  /\ UNCHANGED <<likes, count, shown, messages, held, spent>>

Fetch(c) ==
  /\ At(c, "fetch")
  /\ call' = [call EXCEPT ![c].value = Says(likes, user(c)), ![c].pc = "show"]
  /\ UNCHANGED <<likes, count, shown, messages, held, spent>>

Show(c) ==
  /\ At(c, "show")
  /\ shown' = [shown EXCEPT ![user(c)] = call[c].value]
  /\ Goto(c, "done")
  /\ UNCHANGED <<likes, count, messages, held, spent>>

-----------------------------------------------------------------------------
(* Keys that expire, calls that fail, instances that stop.                 *)

Expire ==
  /\ Spend("expiries")
  /\ \/ count # None /\ count' = None /\ UNCHANGED shown
     \/ /\ UNCHANGED count
        /\ \E u \in Users : shown[u] # None /\ shown' = [shown EXCEPT ![u] = None]
  /\ UNCHANGED <<likes, messages, call, held>>

\* A statement of MySQL fails, or the NFT of a new like is not found. A like that
\* is not saved is taken off the counter again.
StatementFails(c) ==
  /\ Spend("failures")
  /\ \/ At(c, "read") /\ Goto(c, "recheck")
     \/ At(c, "query") /\ Goto(c, Counted(c))
     \/ At(c, "save") /\ call' = [call EXCEPT ![c].pc = "load", ![c].up = FALSE]
     \/ At(c, "delete") /\ Answer(c, "false")
     \/ At(c, "recheck") /\ Answer(c, "error")
     \/ At(c, "fetch") /\ Goto(c, "done")
     \/ At(c, "done") /\ call[c].op = "add" /\ Goto(c, "recheck")
  /\ UNCHANGED <<likes, count, shown, messages, held>>

\* A call to Redis or the publishing of the event fails: the errors of the counter
\* and of publishing are logged, the others reported.
CacheFails(c) ==
  /\ Spend("cache")
  /\ \/ /\ call[c].pc \in {"load", "fill", "bump"} /\ Goto(c, Counted(c))
        /\ UNCHANGED <<shown, messages>>
     \/ /\ call[c].pc \in {"look", "show"} /\ Goto(c, "done")
        /\ UNCHANGED <<shown, messages>>
     \/ /\ At(c, "clear") /\ messages' = messages \cup {user(c)} /\ UNCHANGED shown
        /\ IF call[c].op = "add" THEN Goto(c, "recheck") ELSE Answer(c, "false")
     \/ /\ At(c, "clear") /\ shown' = Forgotten(user(c)) /\ UNCHANGED messages
        /\ Answer(c, "true")
  /\ UNCHANGED <<likes, count, held>>

Crash(c) ==
  /\ Spend("crashes") /\ ~At(c, "idle")
  /\ call' = [call EXCEPT ![c] = IdleCall]
  /\ UNCHANGED <<likes, count, shown, messages, held>>

-----------------------------------------------------------------------------
Serve(c) ==
  \/ Load(c) \/ Query(c) \/ Fill(c) \/ Bump(c)
  \/ AddRead(c) \/ Save(c) \/ Recheck(c) \/ Delete(c) \/ Clear(c)
  \/ Look(c) \/ Fetch(c) \/ Show(c) \/ Return(c)

Next ==
  \/ \E c \in Clients :
       \/ \E op \in Op, u \in Users : Begin(c, op, u)
       \/ Serve(c)
       \/ StatementFails(c) \/ CacheFails(c) \/ Crash(c)
  \/ \E u \in Users : Consume(u)
  \/ Expire

Spec == Init /\ [][Next]_vars

-----------------------------------------------------------------------------
TypeOK ==
  /\ likes \subseteq Users /\ count \in Int \cup {None}
  /\ shown \in [Users -> {0, 1, None}] /\ messages \subseteq Users
  /\ call \in [Clients -> Call] /\ held \in [Clients -> SUBSET {0, 1}]
  /\ spent \in [DOMAIN Bound -> Nat]

AtRest == messages = {} /\ \A c \in Clients : At(c, "idle")

\* The counter says how many like the NFT. It holds as long as no other call is in hand
\* while one refills it, it does not expire between load and change, no user has two calls in
\* hand, and one statement fails at most; then adds, removes and a failed save leave
\* it exact. After a failed load the save is not counted, and if it fails too, what
\* undoes it loads the counter first and counts one too few.
CountIsExact == AtRest => count \in {None, Cardinality(likes)}

\* Whatever one user does twice at once and wherever a call is cut off, no like in
\* the table goes uncounted: the counter changes before a like is saved and after
\* one is deleted. It takes a Redis that did not lose an increment, no save that fails
\* after its load did, and no refill (also one of a batch) that a change overtakes.
LikesAreCounted == AtRest /\ spent.cache = 0 /\ spent.failures <= 1 => count = None \/ count >= Cardinality(likes)

\* The answer to "does this user like it" is not left behind by a change.
ShownIsFresh == AtRest => \A u \in Users : shown[u] \in {None, Says(likes, u)}

\* Callers are told the truth: an answer agrees with the table at some moment of the
\* call, even if the save fails, is a duplicate, or the call retreats after an error.
AnswersHold ==
  \A c \in Clients : At(c, "done") =>
    /\ call[c].op = "add" /\ call[c].answer = "true" => 1 \in held[c]
    /\ call[c].op = "add" /\ call[c].answer = "false" => 0 \in held[c]
    /\ call[c].op = "remove" /\ call[c].answer = "true" => 0 \in held[c]
=============================================================================
