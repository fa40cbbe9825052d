------------------------- MODULE AssetLikes_proofs -------------------------
(***************************************************************************)
(* Proofs about AssetLikes: its type invariant, and that the answers given *)
(* to callers agree with the table at some moment of their calls, for any  *)
(* users, calls served at once, expiries, failures and crashes. Then, for  *)
(* the schedules of MCAssetLikes: the counter is exact and the cached      *)
(* answers are fresh while calls stay apart, and no like goes uncounted.   *)
(***************************************************************************)
EXTENDS MCAssetLikes, FiniteSetTheorems, TLAPS

\* What a call k may still answer, given what its client may have seen of the table.
Truthful(k, seen, now) ==
  /\ now \in seen
  /\ k.pc \in {"read", "save", "recheck"} => k.op = "add"
  /\ k.pc = "delete" => k.op = "remove"
  /\ k.pc = "clear" => k.op \in {"add", "remove"}
  /\ k.pc = "clear" /\ k.op = "add" => 1 \in seen
  /\ k.pc \in {"load", "query", "fill", "bump", "clear"} /\ k.op = "remove" => 0 \in seen
  /\ k.pc \in {"load", "query", "fill", "bump"} => k.op # "isLiked"
  /\ k.pc \in {"look", "fetch", "show"} => k.op = "isLiked"
  /\ k.pc = "show" => k.value \in {0, 1}
  /\ k.pc = "done" /\ k.op = "add" /\ k.answer = "true" => 1 \in seen
  /\ k.pc = "done" /\ k.op = "add" /\ k.answer = "false" => 0 \in seen
  /\ k.pc = "done" /\ k.op = "remove" /\ k.answer = "true" => 0 \in seen

Truths == \A c \in Clients : ~At(c, "idle") => user(c) \in Users /\ Truthful(call[c], held[c], Says(likes, user(c)))
IndInv == TypeOK /\ Truths

-----------------------------------------------------------------------------
LEMMA Bounds == \A what \in DOMAIN Bound : Spend(what) /\ spent \in [DOMAIN Bound -> Nat] => spent' \in [DOMAIN Bound -> Nat]
  BY DEF Spend

LEMMA BoundNames == DOMAIN Bound = {"calls", "expiries", "failures", "cache", "crashes"}
  BY DEF Bound

LEMMA IdleCallType == IdleCall \in Call /\ IdleCall.pc = "idle"
  BY DEF IdleCall, Call, Op, PC

\* A step that replaces one call by k and leaves the table alone.
LEMMA CallStep ==
  ASSUME IndInv, NEW c \in Clients, NEW k \in Call, call' = [call EXCEPT ![c] = k],
         UNCHANGED <<likes, held>>,
         k.pc # "idle" => k.user \in Users /\ Truthful(k, held[c], Says(likes, k.user))
  PROVE  call' \in [Clients -> Call] /\ Truths'
<1>1. call' \in [Clients -> Call] /\ call'[c] = k /\ \A d \in Clients \ {c} : call'[d] = call[d]
  BY DEF IndInv, TypeOK
<1>2. ASSUME NEW d \in Clients, ~At(d, "idle")'
      PROVE  user(d)' \in Users /\ Truthful(call'[d], held'[d], Says(likes', user(d)'))
  <2>1. CASE d = c
    BY <1>1, <1>2, <2>1 DEF At, user
  <2>2. CASE d # c
    BY <1>1, <1>2, <2>2 DEF At, user, IndInv, Truths
  <2> QED  BY <2>1, <2>2
<1> QED  BY <1>1, <1>2 DEF Truths

\* A step that changes the table and moves one call on to k.
LEMMA TableStep ==
  ASSUME IndInv, NEW c \in Clients, NEW k \in Call, call' = [call EXCEPT ![c] = k],
         Witnessed(likes'), k.user = user(c),
         Truthful(k, held[c] \cup {Says(likes', user(c))}, Says(likes', user(c))),
         ~At(c, "idle")
  PROVE  call' \in [Clients -> Call] /\ held' \in [Clients -> SUBSET {0, 1}] /\ Truths'
<1>1. call' \in [Clients -> Call] /\ call'[c] = k /\ \A d \in Clients \ {c} : call'[d] = call[d]
  BY DEF IndInv, TypeOK
<1>2. /\ held' \in [Clients -> SUBSET {0, 1}]
      /\ \A d \in Clients : held'[d] = held[d] \cup {Says(likes', user(d))}
  BY DEF Witnessed, Says, IndInv, TypeOK
<1>3. ASSUME NEW d \in Clients, ~At(d, "idle")'
      PROVE  user(d)' \in Users /\ Truthful(call'[d], held'[d], Says(likes', user(d)'))
  <2>1. CASE d = c
    BY <1>1, <1>2, <2>1 DEF user, IndInv, Truths
  <2>2. CASE d # c
    <3>1. call'[d] = call[d] /\ ~At(d, "idle") /\ user(d)' = user(d)
      BY <1>1, <1>3, <2>2 DEF At, user
    <3>2. user(d) \in Users /\ Truthful(call[d], held[d], Says(likes, user(d)))
      BY <3>1 DEF IndInv, Truths
    <3> QED  BY <1>2, <3>1, <3>2 DEF Truthful
  <2> QED  BY <2>1, <2>2
<1> QED  BY <1>1, <1>2, <1>3 DEF Truths

\* What an invariant state says of a call in hand.
LEMMA Current ==
  ASSUME IndInv, NEW c \in Clients, ~At(c, "idle")
  PROVE  call[c] \in Call /\ user(c) \in Users /\ Truthful(call[c], held[c], Says(likes, user(c)))
  BY DEF IndInv, TypeOK, Truths

\* A call goes on: only its place and its answer change.
LEMMA GotoIs ==
  ASSUME IndInv, NEW c \in Clients, NEW pc \in PC, Goto(c, pc)
  PROVE  [call[c] EXCEPT !.pc = pc] \in Call /\ call' = [call EXCEPT ![c] = [call[c] EXCEPT !.pc = pc]]
  BY DEF Goto, IndInv, TypeOK, Call

LEMMA AnswerIs ==
  ASSUME IndInv, NEW c \in Clients, NEW answer \in {"true", "false", "error"}, Answer(c, answer)
  PROVE  LET k == [call[c] EXCEPT !.pc = "done", !.answer = answer] IN
         k \in Call /\ call' = [call EXCEPT ![c] = k]
  BY DEF Answer, IndInv, TypeOK, Call, PC

LEMMA CountedIs ==
  ASSUME IndInv, NEW c \in Clients, At(c, "load") \/ At(c, "query") \/ At(c, "fill") \/ At(c, "bump")
  PROVE  /\ call[c].op = "count" => Counted(c) = "done"
         /\ call[c].op = "remove" => Counted(c) = "clear"
         /\ call[c].op = "add" => Counted(c) = IF call[c].up THEN "save" ELSE "recheck"
  BY DEF Counted

-----------------------------------------------------------------------------
LEMMA InitHolds == Init => IndInv
<1> SUFFICES ASSUME Init PROVE IndInv
  OBVIOUS
<1>1. TypeOK
  BY IdleCallType DEF Init, TypeOK
<1>2. Truths
  BY IdleCallType DEF Init, Truths, At
<1> QED  BY <1>1, <1>2 DEF IndInv

LEMMA BeginKeeps ==
  ASSUME IndInv, NEW c \in Clients, NEW op \in Op, NEW u \in Users, Begin(c, op, u)
  PROVE  IndInv'
<1> DEFINE k == [op |-> op, user |-> u, pc |-> First(op), up |-> FALSE, value |-> 0, answer |-> "none"]
<1>1. /\ op = "add" => First(op) = "read"
      /\ op = "remove" => First(op) = "delete"
      /\ op = "count" => First(op) = "load"
      /\ op = "isLiked" => First(op) = "look"
  BY DEF First
<1>2. k \in Call /\ k.pc = First(op) /\ k.op = op /\ k.user = u
  <2>1. First(op) \in PC
    BY <1>1 DEF Op, PC
  <2> QED  BY <2>1 DEF Call
<1> HIDE DEF k
<1>3. Truthful(k, {Says(likes, u)}, Says(likes, u))
  BY <1>1, <1>2 DEF Truthful, Op
<1>4. call' = [call EXCEPT ![c] = k] /\ held' = [held EXCEPT ![c] = {Says(likes, u)}]
      /\ UNCHANGED <<likes, count, shown, messages>>
  BY DEF Begin, k
<1>5. TypeOK'
  <2>1. spent' \in [DOMAIN Bound -> Nat]
    BY Bounds, BoundNames DEF Begin, IndInv, TypeOK
  <2>2. held' \in [Clients -> SUBSET {0, 1}] /\ call' \in [Clients -> Call]
    BY <1>2, <1>4 DEF Says, IndInv, TypeOK
  <2> QED  BY <1>4, <2>1, <2>2 DEF IndInv, TypeOK
<1>6. Truths'
  BY <1>2, <1>3, <1>4 DEF IndInv, TypeOK, Truths, At, user
<1> QED  BY <1>5, <1>6 DEF IndInv

\* The actions that only move their call on.
LEMMA MoveKeeps ==
  ASSUME IndInv, NEW c \in Clients, ~At(c, "idle"), NEW k \in Call, call' = [call EXCEPT ![c] = k],
         UNCHANGED <<likes, held>>, k.user = user(c), Truthful(k, held[c], Says(likes, user(c))),
         count' \in Int \cup {None}, shown' \in [Users -> {0, 1, None}], messages' \subseteq Users,
         spent' \in [DOMAIN Bound -> Nat]
  PROVE  IndInv'
<1>1. user(c) \in Users
  BY Current
<1>2. call' \in [Clients -> Call] /\ Truths'
  BY <1>1, CallStep
<1> QED  BY <1>2 DEF IndInv, TypeOK

LEMMA ReturnKeeps ==
  ASSUME IndInv, NEW c \in Clients, Return(c)
  PROVE  IndInv'
<1>1. call' \in [Clients -> Call] /\ Truths'
  BY CallStep, IdleCallType DEF Return
<1> QED  BY <1>1 DEF Return, IndInv, TypeOK

LEMMA CountsAreInts == IndInv => Cardinality(likes) \in Int
<1> SUFFICES ASSUME IndInv PROVE Cardinality(likes) \in Int
  OBVIOUS
<1>1. IsFiniteSet(likes)
  BY LikesAssumption, FS_Subset DEF IndInv, TypeOK
<1> QED  BY <1>1, FS_CardinalityType

\* The counter's actions.
LEMMA CounterKeeps ==
  ASSUME IndInv, NEW c \in Clients, Load(c) \/ Query(c) \/ Fill(c) \/ Bump(c)
  PROVE  IndInv'
<1>1. /\ call[c].pc \in {"load", "query", "fill", "bump"} /\ ~At(c, "idle")
      /\ UNCHANGED <<likes, held, shown, messages, spent>>
  BY DEF Load, Query, Fill, Bump, At
<1>2. call[c] \in Call /\ user(c) \in Users /\ Truthful(call[c], held[c], Says(likes, user(c)))
  BY <1>1, Current
<1>3. ASSUME NEW n \in Int, NEW pc \in PC,
             \/ pc \in {"query", "fill", "bump"}
             \/ pc = "done" /\ call[c].op = "count"
             \/ pc = Counted(c)
      PROVE  LET k == [call[c] EXCEPT !.value = n, !.pc = pc] IN
             k \in Call /\ k.user = user(c) /\ Truthful(k, held[c], Says(likes, user(c)))
  <2> DEFINE k == [call[c] EXCEPT !.value = n, !.pc = pc]
  <2>1. k \in Call /\ k.user = user(c) /\ k.pc = pc /\ k.op = call[c].op /\ k.answer = call[c].answer
    BY <1>2 DEF Call, user
  <2>2. /\ call[c].op \in Op
        /\ call[c].op = "count" => Counted(c) = "done"
        /\ call[c].op = "remove" => Counted(c) = "clear"
        /\ call[c].op = "add" => Counted(c) \in {"save", "recheck"}
    BY <1>1, <1>2, CountedIs DEF At, Call
  <2> HIDE DEF k
  <2>3. Truthful(k, held[c], Says(likes, user(c)))
    BY <1>1, <1>2, <1>3, <2>1, <2>2 DEF Truthful, Op
  <2> QED  BY <2>1, <2>3 DEF k
<1>4. CASE Load(c)
  <2>1. call[c].value \in Int
    BY <1>2 DEF Call
  <2>2. \/ call' = [call EXCEPT ![c] = [call[c] EXCEPT !.value = call[c].value, !.pc = "query"]]
        \/ \E n \in Int, pc \in PC : /\ (pc = "bump" \/ (pc = "done" /\ call[c].op = "count"))
                                     /\ call' = [call EXCEPT ![c] = [call[c] EXCEPT !.value = n, !.pc = pc]]
    <3>1. CASE Goto(c, "query")
      BY <1>2, <3>1 DEF Goto, Call, IndInv, TypeOK
    <3>2. CASE count # None /\ Loaded(c, count)
      <4>1. count \in Int /\ Loaded(c, count)
        BY <3>2 DEF IndInv, TypeOK
      <4> DEFINE pc == IF call[c].op = "count" THEN "done" ELSE "bump"
      <4>2. pc \in PC /\ (pc = "bump" \/ (pc = "done" /\ call[c].op = "count"))
        BY DEF PC
      <4>3. call' = [call EXCEPT ![c] = [call[c] EXCEPT !.value = count, !.pc = pc]]
        BY <4>1 DEF Loaded, IndInv, TypeOK
      <4> HIDE DEF pc
      <4> QED  BY <4>1, <4>2, <4>3
    <3> QED  BY <1>4, <3>1, <3>2 DEF Load
  <2>3. PICK n \in Int, pc \in PC :
          /\ pc \in {"query", "bump"} \/ (pc = "done" /\ call[c].op = "count")
          /\ call' = [call EXCEPT ![c] = [call[c] EXCEPT !.value = n, !.pc = pc]]
    BY <2>1, <2>2 DEF PC
  <2> DEFINE k == [call[c] EXCEPT !.value = n, !.pc = pc]
  <2>4. k \in Call /\ k.user = user(c) /\ Truthful(k, held[c], Says(likes, user(c))) /\ call' = [call EXCEPT ![c] = k]
    BY <1>3, <2>3
  <2> HIDE DEF k
  <2> QED  BY <1>1, <1>4, <2>4, MoveKeeps DEF Load, IndInv, TypeOK
<1>5. CASE Query(c)
  <2> DEFINE k == [call[c] EXCEPT !.value = Cardinality(likes), !.pc = "fill"]
  <2>1. k \in Call /\ k.user = user(c) /\ Truthful(k, held[c], Says(likes, user(c)))
    BY <1>3, CountsAreInts DEF PC
  <2>2. call' = [call EXCEPT ![c] = k]
    BY <1>5 DEF Query, IndInv, TypeOK
  <2>3. count' = count
    BY <1>5 DEF Query
  <2> HIDE DEF k
  <2> QED  BY <1>1, <2>1, <2>2, <2>3, MoveKeeps DEF IndInv, TypeOK
<1>6. CASE Fill(c)
  <2> DEFINE pc == IF call[c].op = "count" THEN "done" ELSE "bump"
             k == [call[c] EXCEPT !.value = call[c].value, !.pc = pc]
  <2>1. pc \in PC /\ (pc = "bump" \/ (pc = "done" /\ call[c].op = "count")) /\ call[c].value \in Int
    BY <1>2 DEF PC, Call
  <2>2. call' = [call EXCEPT ![c] = k] /\ count' = call[c].value
    BY <1>6 DEF Fill, Loaded, IndInv, TypeOK
  <2> HIDE DEF pc
  <2>3. k \in Call /\ k.user = user(c) /\ Truthful(k, held[c], Says(likes, user(c)))
    BY <1>3, <2>1
  <2> HIDE DEF k
  <2> QED  BY <1>1, <2>1, <2>2, <2>3, MoveKeeps DEF IndInv, TypeOK
<1>7. CASE Bump(c)
  <2>1. count' \in Int \cup {None}
    <3>1. Added(1) \in Int /\ Added(-1) \in Int
      BY DEF Added, IndInv, TypeOK
    <3> QED  BY <1>7, <3>1 DEF Bump, Changed, IndInv, TypeOK
  <2>2. Counted(c) \in PC
    BY <1>1, <1>2, CountedIs DEF At, Call, Op, PC, Truthful
  <2> DEFINE k == [call[c] EXCEPT !.value = call[c].value, !.pc = Counted(c)]
  <2>3. call' = [call EXCEPT ![c] = k]
    BY <1>2, <1>7 DEF Bump, Goto, Call, IndInv, TypeOK
  <2>4. k \in Call /\ k.user = user(c) /\ Truthful(k, held[c], Says(likes, user(c)))
    BY <1>2, <1>3, <2>2 DEF Call
  <2> HIDE DEF k
  <2> QED  BY <1>1, <2>1, <2>3, <2>4, MoveKeeps DEF IndInv, TypeOK
<1> QED  BY <1>4, <1>5, <1>6, <1>7

\* A call is answered, or goes to a place where nothing more is claimed of it.
LEMMA AnswerKeeps ==
  ASSUME IndInv, NEW c \in Clients, ~At(c, "idle"), NEW answer \in {"true", "false", "error"}, Answer(c, answer),
         call[c].op = "add" => (answer = "true" => 1 \in held[c]) /\ (answer = "false" => 0 \in held[c]),
         call[c].op = "remove" /\ answer = "true" => 0 \in held[c],
         UNCHANGED <<likes, held>>,
         count' \in Int \cup {None}, shown' \in [Users -> {0, 1, None}], messages' \subseteq Users,
         spent' \in [DOMAIN Bound -> Nat]
  PROVE  IndInv'
<1> DEFINE k == [call[c] EXCEPT !.pc = "done", !.answer = answer]
<1>1. k \in Call /\ call' = [call EXCEPT ![c] = k]
  BY AnswerIs
<1>2. call[c] \in Call /\ Truthful(call[c], held[c], Says(likes, user(c)))
  BY Current
<1>3. k.op = call[c].op /\ k.pc = "done" /\ k.answer = answer /\ k.user = user(c)
  BY <1>2 DEF Call, user
<1> HIDE DEF k
<1>4. Truthful(k, held[c], Says(likes, user(c)))
  BY <1>2, <1>3 DEF Truthful
<1> QED  BY <1>1, <1>3, <1>4, MoveKeeps

LEMMA GotoKeeps ==
  ASSUME IndInv, NEW c \in Clients, ~At(c, "idle"), NEW pc \in PC, Goto(c, pc),
         Truthful([call[c] EXCEPT !.pc = pc], held[c], Says(likes, user(c))),
         UNCHANGED <<likes, held>>,
         count' \in Int \cup {None}, shown' \in [Users -> {0, 1, None}], messages' \subseteq Users,
         spent' \in [DOMAIN Bound -> Nat]
  PROVE  IndInv'
<1> DEFINE k == [call[c] EXCEPT !.pc = pc]
<1>1. k \in Call /\ call' = [call EXCEPT ![c] = k]
  BY GotoIs
<1>2. k.user = user(c)
  BY Current DEF Call, user
<1> HIDE DEF k
<1> QED  BY <1>1, <1>2, MoveKeeps DEF k

\* Reading the membership of a user answers truthfully.
LEMMA SaysIs == \A table, u : Says(table, u) = IF u \in table THEN 1 ELSE 0
  BY DEF Says

LEMMA AddReadKeeps ==
  ASSUME IndInv, NEW c \in Clients, AddRead(c)
  PROVE  IndInv'
<1>1. /\ ~At(c, "idle") /\ call[c].pc = "read" /\ call[c] \in Call
      /\ Truthful(call[c], held[c], Says(likes, user(c)))
      /\ UNCHANGED <<likes, held, count, shown, messages, spent>>
  BY Current DEF AddRead, At
<1>2. CASE user(c) \in likes
  <2>1. Answer(c, "true") /\ 1 \in held[c] /\ call[c].op = "add"
    BY <1>1, <1>2, SaysIs DEF AddRead, Truthful
  <2> QED  BY <1>1, <2>1, AnswerKeeps DEF IndInv, TypeOK
<1>3. CASE user(c) \notin likes
  <2> DEFINE k == [call[c] EXCEPT !.pc = "load", !.up = TRUE]
  <2>1. k \in Call /\ call' = [call EXCEPT ![c] = k] /\ k.user = user(c) /\ k.op = call[c].op /\ k.pc = "load"
    BY <1>1, <1>3 DEF AddRead, Call, PC, user, IndInv, TypeOK
  <2> HIDE DEF k
  <2>2. Truthful(k, held[c], Says(likes, user(c)))
    BY <1>1, <2>1 DEF Truthful
  <2> QED  BY <1>1, <2>1, <2>2, MoveKeeps DEF IndInv, TypeOK
<1> QED  BY <1>2, <1>3

LEMMA RecheckKeeps ==
  ASSUME IndInv, NEW c \in Clients, Recheck(c)
  PROVE  IndInv'
<1>1. /\ ~At(c, "idle") /\ call[c].pc = "recheck"
      /\ Truthful(call[c], held[c], Says(likes, user(c)))
      /\ UNCHANGED <<likes, held, count, shown, messages, spent>>
  BY Current DEF Recheck, At
<1>2. call[c].op = "add"
  BY <1>1 DEF Truthful
<1>3. CASE user(c) \in likes
  <2>1. Answer(c, "true") /\ 1 \in held[c]
    BY <1>1, <1>3, SaysIs DEF Recheck, Rechecked, Truthful
  <2> QED  BY <1>1, <1>2, <2>1, AnswerKeeps DEF IndInv, TypeOK
<1>4. CASE user(c) \notin likes
  <2>1. Answer(c, "false") /\ 0 \in held[c]
    BY <1>1, <1>4, SaysIs DEF Recheck, Rechecked, Truthful
  <2> QED  BY <1>1, <1>2, <2>1, AnswerKeeps DEF IndInv, TypeOK
<1> QED  BY <1>3, <1>4

LEMMA SaveKeeps ==
  ASSUME IndInv, NEW c \in Clients, Save(c)
  PROVE  IndInv'
<1>1. /\ ~At(c, "idle") /\ call[c].pc = "save" /\ call[c] \in Call /\ user(c) \in Users
      /\ Truthful(call[c], held[c], Says(likes, user(c)))
      /\ likes' = likes \cup {user(c)} /\ UNCHANGED <<count, shown, messages, spent>>
  BY Current DEF Save, At
<1> DEFINE k == [call[c] EXCEPT !.pc = "clear"]
<1>2. k \in Call /\ call' = [call EXCEPT ![c] = k]
  BY GotoIs DEF Save, PC
<1>3. k.user = user(c) /\ k.op = call[c].op /\ k.pc = "clear"
  BY <1>1 DEF Call, user
<1> HIDE DEF k
<1>4. Says(likes', user(c)) = 1
  BY <1>1, SaysIs
<1>5. Truthful(k, held[c] \cup {Says(likes', user(c))}, Says(likes', user(c)))
  BY <1>1, <1>3, <1>4 DEF Truthful
<1>6. call' \in [Clients -> Call] /\ held' \in [Clients -> SUBSET {0, 1}] /\ Truths'
  BY <1>1, <1>2, <1>3, <1>5, TableStep DEF Save
<1> QED  BY <1>1, <1>6 DEF IndInv, TypeOK

LEMMA DeleteKeeps ==
  ASSUME IndInv, NEW c \in Clients, Delete(c)
  PROVE  IndInv'
<1>1. /\ ~At(c, "idle") /\ call[c].pc = "delete" /\ call[c] \in Call /\ user(c) \in Users
      /\ Truthful(call[c], held[c], Says(likes, user(c)))
      /\ likes' = likes \ {user(c)} /\ UNCHANGED <<count, shown, messages, spent>>
  BY Current DEF Delete, At
<1>2. Says(likes', user(c)) = 0
  BY <1>1, SaysIs
<1>3. PICK k \in Call : /\ call' = [call EXCEPT ![c] = k] /\ k.user = user(c) /\ k.op = call[c].op
                        /\ k.pc \in {"load", "done"}
  <2>1. CASE user(c) \in likes
    <3>1. Goto(c, "load")
      BY <2>1 DEF Delete, Affected
    <3>2. [call[c] EXCEPT !.pc = "load"] \in Call /\ call' = [call EXCEPT ![c] = [call[c] EXCEPT !.pc = "load"]]
      BY <3>1, GotoIs DEF PC
    <3> QED  BY <1>1, <3>2 DEF Call, user
  <2>2. CASE user(c) \notin likes
    <3> DEFINE k == [call[c] EXCEPT !.pc = "done", !.answer = "true"]
    <3>1. k \in Call /\ call' = [call EXCEPT ![c] = k]
      BY <2>2, AnswerIs DEF Delete, Affected
    <3>2. k.user = user(c) /\ k.op = call[c].op /\ k.pc = "done"
      BY <1>1 DEF Call, user
    <3> QED  BY <3>1, <3>2
  <2> QED  BY <2>1, <2>2
<1>4. Truthful(k, held[c] \cup {Says(likes', user(c))}, Says(likes', user(c)))
  BY <1>1, <1>2, <1>3 DEF Truthful
<1>5. call' \in [Clients -> Call] /\ held' \in [Clients -> SUBSET {0, 1}] /\ Truths'
  BY <1>1, <1>3, <1>4, TableStep DEF Delete
<1> QED  BY <1>1, <1>5 DEF IndInv, TypeOK

LEMMA ClearKeeps ==
  ASSUME IndInv, NEW c \in Clients, Clear(c)
  PROVE  IndInv'
<1>1. /\ ~At(c, "idle") /\ call[c].pc = "clear" /\ call[c] \in Call /\ user(c) \in Users
      /\ Truthful(call[c], held[c], Says(likes, user(c)))
      /\ Answer(c, "true") /\ UNCHANGED <<likes, held, count, spent>>
  BY Current DEF Clear, At
<1>2. shown' \in [Users -> {0, 1, None}] /\ messages' \subseteq Users
  BY <1>1 DEF Clear, Forgotten, IndInv, TypeOK
<1>3. /\ call[c].op = "add" => 1 \in held[c]
      /\ call[c].op = "remove" => 0 \in held[c]
  BY <1>1 DEF Truthful
<1> QED  BY <1>1, <1>2, <1>3, AnswerKeeps DEF IndInv, TypeOK

\* The reader of the cached answer claims nothing.
LEMMA ReaderKeeps ==
  ASSUME IndInv, NEW c \in Clients, Look(c) \/ Fetch(c) \/ Show(c)
  PROVE  IndInv'
<1>1. /\ ~At(c, "idle") /\ call[c].pc \in {"look", "fetch", "show"} /\ call[c] \in Call /\ user(c) \in Users
      /\ Truthful(call[c], held[c], Says(likes, user(c)))
      /\ UNCHANGED <<likes, held, count, messages, spent>>
  BY Current DEF Look, Fetch, Show, At
<1>2. call[c].op = "isLiked"
  BY <1>1 DEF Truthful
<1>3. shown' \in [Users -> {0, 1, None}]
  <2>1. CASE Show(c)
    BY <1>1, <2>1 DEF Show, At, Truthful, IndInv, TypeOK
  <2>2. CASE Look(c) \/ Fetch(c)
    BY <2>2 DEF Look, Fetch, IndInv, TypeOK
  <2> QED  BY <2>1, <2>2
<1>4. PICK n \in Int, pc \in {"fetch", "show", "done"} :
        /\ pc = "show" => n \in {0, 1}
        /\ call' = [call EXCEPT ![c] = [call[c] EXCEPT !.value = n, !.pc = pc]]
  <2>1. call[c].value \in Int /\ Says(likes, user(c)) \in {0, 1}
    BY <1>1 DEF Call, Says
  <2>2. CASE Look(c) \/ Show(c)
    <3>1. PICK pc \in {"fetch", "done"} : Goto(c, pc)
      BY <2>2 DEF Look, Show
    <3>2. call' = [call EXCEPT ![c] = [call[c] EXCEPT !.value = call[c].value, !.pc = pc]]
      BY <1>1, <3>1 DEF Goto, Call, IndInv, TypeOK
    <3> QED  BY <2>1, <3>2
  <2>3. CASE Fetch(c)
    <3>1. call' = [call EXCEPT ![c] = [call[c] EXCEPT !.value = Says(likes, user(c)), !.pc = "show"]]
      BY <2>3 DEF Fetch, IndInv, TypeOK
    <3>2. Says(likes, user(c)) \in Int /\ Says(likes, user(c)) \in {0, 1} /\ "show" \in {"fetch", "show", "done"}
      BY <2>1
    <3> QED  BY <3>1, <3>2, Zenon
  <2> QED  BY <1>1, <2>2, <2>3
<1> DEFINE k == [call[c] EXCEPT !.value = n, !.pc = pc]
<1>5. k \in Call /\ k.user = user(c) /\ k.op = "isLiked" /\ k.pc = pc /\ k.value = n
  BY <1>1, <1>2, <1>4 DEF Call, PC, user
<1> HIDE DEF k
<1>6. Truthful(k, held[c], Says(likes, user(c)))
  BY <1>1, <1>4, <1>5 DEF Truthful
<1>7. call' = [call EXCEPT ![c] = k]
  BY <1>4 DEF k
<1> QED  BY <1>1, <1>3, <1>5, <1>6, <1>7, MoveKeeps DEF IndInv, TypeOK

LEMMA ConsumeKeeps ==
  ASSUME IndInv, NEW u \in Users, Consume(u)
  PROVE  IndInv'
<1>1. TypeOK'
  BY DEF Consume, Forgotten, IndInv, TypeOK
<1>2. Truths'
  BY DEF Consume, IndInv, Truths, At, user
<1> QED  BY <1>1, <1>2 DEF IndInv

LEMMA ExpireKeeps ==
  ASSUME IndInv, Expire
  PROVE  IndInv'
<1>1. spent' \in [DOMAIN Bound -> Nat]
  BY Bounds, BoundNames DEF Expire, IndInv, TypeOK
<1>2. TypeOK'
  BY <1>1 DEF Expire, IndInv, TypeOK
<1>3. Truths'
  BY DEF Expire, IndInv, Truths, At, user
<1> QED  BY <1>2, <1>3 DEF IndInv

LEMMA CrashKeeps ==
  ASSUME IndInv, NEW c \in Clients, Crash(c)
  PROVE  IndInv'
<1>1. spent' \in [DOMAIN Bound -> Nat]
  BY Bounds, BoundNames DEF Crash, IndInv, TypeOK
<1>2. call' \in [Clients -> Call] /\ Truths'
  BY CallStep, IdleCallType DEF Crash
<1> QED  BY <1>1, <1>2 DEF Crash, IndInv, TypeOK

LEMMA StatementFailsKeeps ==
  ASSUME IndInv, NEW c \in Clients, StatementFails(c)
  PROVE  IndInv'
<1>1. spent' \in [DOMAIN Bound -> Nat] /\ UNCHANGED <<likes, count, shown, messages, held>>
  BY Bounds, BoundNames DEF StatementFails, IndInv, TypeOK
<1>2. call[c].pc # "idle"
  BY DEF StatementFails, At
<1>3. ~At(c, "idle") /\ call[c] \in Call /\ Truthful(call[c], held[c], Says(likes, user(c)))
  BY <1>2, Current DEF At
<1>4. ASSUME NEW pc \in PC, Goto(c, pc), \/ pc = "recheck" /\ call[c].op = "add"
                                         \/ pc = "done" /\ call[c].op = "isLiked"
                                         \/ At(c, "query") /\ pc = Counted(c)
      PROVE  IndInv'
  <2> DEFINE k == [call[c] EXCEPT !.pc = pc]
  <2>1. k.pc = pc /\ k.op = call[c].op /\ k.answer = call[c].answer
    BY <1>3 DEF Call
  <2>2. At(c, "query") => /\ call[c].op \in {"add", "remove", "count"}
                          /\ call[c].op = "count" => Counted(c) = "done"
                          /\ call[c].op = "remove" => Counted(c) = "clear" /\ 0 \in held[c]
                          /\ call[c].op = "add" => Counted(c) \in {"save", "recheck"}
    BY <1>3, CountedIs DEF At, Truthful, Call, Op
  <2> HIDE DEF k
  <2>3. Truthful(k, held[c], Says(likes, user(c)))
    BY <1>3, <1>4, <2>1, <2>2 DEF Truthful
  <2> QED  BY <1>1, <1>3, <1>4, <2>3, GotoKeeps DEF k, IndInv, TypeOK
<1>5. CASE At(c, "read") /\ Goto(c, "recheck")
  BY <1>3, <1>4, <1>5 DEF At, Truthful, PC
<1>6. CASE At(c, "query") /\ Goto(c, Counted(c))
  <2>1. Counted(c) \in PC
    BY <1>3, <1>6, CountedIs DEF At, Truthful, Call, Op, PC
  <2> QED  BY <1>4, <1>6, <2>1
<1>7. CASE At(c, "save") /\ call' = [call EXCEPT ![c].pc = "load", ![c].up = FALSE]
  <2> DEFINE k == [call[c] EXCEPT !.pc = "load", !.up = FALSE]
  <2>1. k \in Call /\ call' = [call EXCEPT ![c] = k] /\ k.user = user(c) /\ k.op = call[c].op /\ k.pc = "load"
    BY <1>3, <1>7 DEF Call, PC, user, IndInv, TypeOK
  <2>2. call[c].op = "add"
    BY <1>3, <1>7 DEF At, Truthful
  <2> HIDE DEF k
  <2>3. Truthful(k, held[c], Says(likes, user(c)))
    BY <1>3, <2>1, <2>2 DEF Truthful
  <2> QED  BY <1>1, <1>3, <2>1, <2>3, MoveKeeps DEF IndInv, TypeOK
<1>8. CASE At(c, "delete") /\ Answer(c, "false")
  <2>1. call[c].op = "remove"
    BY <1>3, <1>8 DEF At, Truthful
  <2> QED  BY <1>1, <1>3, <1>8, <2>1, AnswerKeeps DEF IndInv, TypeOK
<1>9. CASE At(c, "recheck") /\ Answer(c, "error")
  BY <1>1, <1>3, <1>9, AnswerKeeps DEF IndInv, TypeOK
<1>10. CASE At(c, "fetch") /\ Goto(c, "done")
  BY <1>3, <1>4, <1>10 DEF At, Truthful, PC
<1>11. CASE At(c, "done") /\ call[c].op = "add" /\ Goto(c, "recheck")
  BY <1>4, <1>11 DEF PC
<1> QED  BY <1>5, <1>6, <1>7, <1>8, <1>9, <1>10, <1>11 DEF StatementFails

LEMMA CacheFailsKeeps ==
  ASSUME IndInv, NEW c \in Clients, CacheFails(c)
  PROVE  IndInv'
<1>1. spent' \in [DOMAIN Bound -> Nat] /\ UNCHANGED <<likes, count, held>>
  BY Bounds, BoundNames DEF CacheFails, IndInv, TypeOK
<1>2. call[c].pc # "idle"
  BY DEF CacheFails, At
<1>3. ~At(c, "idle") /\ call[c] \in Call /\ user(c) \in Users /\ Truthful(call[c], held[c], Says(likes, user(c)))
  BY <1>2, Current DEF At
<1>4. shown' \in [Users -> {0, 1, None}] /\ messages' \subseteq Users
  BY <1>3 DEF CacheFails, Forgotten, IndInv, TypeOK
<1>5. CASE call[c].pc \in {"load", "fill", "bump"} /\ Goto(c, Counted(c))
  <2> DEFINE k == [call[c] EXCEPT !.pc = Counted(c)]
  <2>1. k.pc = Counted(c) /\ k.op = call[c].op /\ k.answer = call[c].answer
    BY <1>3 DEF Call
  <2>2. /\ call[c].op \in {"add", "remove", "count"}
        /\ call[c].op = "count" => Counted(c) = "done"
        /\ call[c].op = "remove" => Counted(c) = "clear" /\ 0 \in held[c]
        /\ call[c].op = "add" => Counted(c) \in {"save", "recheck"}
    BY <1>3, <1>5, CountedIs DEF At, Truthful, Call, Op
  <2>3. Counted(c) \in PC
    BY <2>2 DEF PC
  <2> HIDE DEF k
  <2>4. Truthful(k, held[c], Says(likes, user(c)))
    BY <1>3, <1>5, <2>1, <2>2 DEF Truthful
  <2> QED  BY <1>1, <1>3, <1>4, <1>5, <2>3, <2>4, GotoKeeps DEF k, IndInv, TypeOK
<1>6. CASE call[c].pc \in {"look", "show"} /\ Goto(c, "done")
  <2> DEFINE k == [call[c] EXCEPT !.pc = "done"]
  <2>1. k.pc = "done" /\ k.op = "isLiked"
    BY <1>3, <1>6 DEF Call, Truthful
  <2> HIDE DEF k
  <2>2. Truthful(k, held[c], Says(likes, user(c)))
    BY <1>3, <2>1 DEF Truthful
  <2> QED  BY <1>1, <1>3, <1>4, <1>6, <2>2, GotoKeeps DEF k, PC, IndInv, TypeOK
<1>7. CASE At(c, "clear") /\ call[c].op = "add" /\ Goto(c, "recheck")
  <2> DEFINE k == [call[c] EXCEPT !.pc = "recheck"]
  <2>1. k.pc = "recheck" /\ k.op = "add"
    BY <1>3, <1>7 DEF Call
  <2> HIDE DEF k
  <2>2. Truthful(k, held[c], Says(likes, user(c)))
    BY <1>3, <2>1 DEF Truthful
  <2> QED  BY <1>1, <1>3, <1>4, <1>7, <2>2, GotoKeeps DEF k, PC, IndInv, TypeOK
<1>8. CASE At(c, "clear") /\ call[c].op # "add" /\ Answer(c, "false")
  BY <1>1, <1>3, <1>4, <1>8, AnswerKeeps DEF IndInv, TypeOK
<1>9. CASE At(c, "clear") /\ Answer(c, "true")
  <2>1. (call[c].op = "add" => 1 \in held[c]) /\ (call[c].op = "remove" => 0 \in held[c])
    BY <1>3, <1>9 DEF At, Truthful
  <2> QED  BY <1>1, <1>3, <1>4, <1>9, <2>1, AnswerKeeps DEF IndInv, TypeOK
<1> QED  BY <1>5, <1>6, <1>7, <1>8, <1>9 DEF CacheFails

-----------------------------------------------------------------------------
LEMMA StepKeeps == IndInv /\ [Next]_vars => IndInv'
<1> SUFFICES ASSUME IndInv, [Next]_vars PROVE IndInv'
  OBVIOUS
<1>1. ASSUME NEW c \in Clients, Serve(c)
      PROVE  IndInv'
  BY <1>1, CounterKeeps, AddReadKeeps, SaveKeeps, RecheckKeeps, DeleteKeeps, ClearKeeps, ReaderKeeps, ReturnKeeps
     DEF Serve
<1>2. CASE UNCHANGED vars
  BY <1>2 DEF vars, IndInv, TypeOK, Truths, At, user
<1> QED
  BY <1>1, <1>2, BeginKeeps, StatementFailsKeeps, CacheFailsKeeps, CrashKeeps, ConsumeKeeps, ExpireKeeps DEF Next

LEMMA Invariant == Spec => []IndInv
<1> QED  BY InitHolds, StepKeeps, PTL DEF Spec

\* The table, the counter, the cached answers and the calls keep their types
\* (AssetsLikesService, with any number of calls served at once).
THEOREM LikesTyped == Spec => []TypeOK
<1>1. IndInv => TypeOK
  BY DEF IndInv
<1> QED  BY <1>1, Invariant, PTL

\* An answer to addLike or removeLike agrees with the table at some moment of the
\* call, whatever other calls, failures, crashes and expiries happen meanwhile.
THEOREM AnswersAreTrue == Spec => []AnswersHold
<1>1. IndInv => AnswersHold
  <2> SUFFICES ASSUME IndInv, NEW c \in Clients, At(c, "done")
               PROVE  /\ call[c].op = "add" /\ call[c].answer = "true" => 1 \in held[c]
                      /\ call[c].op = "add" /\ call[c].answer = "false" => 0 \in held[c]
                      /\ call[c].op = "remove" /\ call[c].answer = "true" => 0 \in held[c]
    BY DEF AnswersHold
  <2> QED  BY Current DEF At, Truthful
<1> QED  BY <1>1, Invariant, PTL

-----------------------------------------------------------------------------
(* The cached answers of calls that stay apart, and the counter.           *)

Counting == {"load", "query", "fill", "bump"}

\* The counter is already up for a like that is not saved yet, or not yet down for one
\* that is deleted or could not be saved.
Uncounted(k) == k.pc = "save" \/ (k.pc \in Counting /\ k.op # "count" /\ ~k.up)
Debt == {c \in Clients : Uncounted(call[c])}

\* What holds of a call and the counter at each place of the call.
Placed(c) ==
  /\ call[c].up => call[c].op = "add"
  /\ At(c, "query") \/ At(c, "fill") => count = None \/ InBatch(c)
  /\ At(c, "fill") => call[c].value = Cardinality(likes)
  /\ At(c, "bump") => count # None /\ call[c].op # "count"
  /\ At(c, "save") /\ count = None => spent.failures > 0
  /\ Uncounted(call[c]) /\ ~At(c, "save") => count # None
  /\ apart /\ At(c, "bump") /\ ~call[c].up => call[c].value > 0
  /\ apart /\ call[c].op = "add" /\ call[c].pc \in Counting \cup {"save"} => user(c) \notin likes

Owed == /\ count >= Cardinality(likes) + Cardinality(Debt)
        /\ apart => count = Cardinality(likes) + Cardinality(Debt)
Counts == (\A c \in Clients : Placed(c)) /\ (count = None \/ Owed)
FewFailures == spent.cache = 0 /\ spent.failures <= 1

\* The call k will still clear the cached answer.
Pending(k) == k.pc = "clear" \/ (k.op = "remove" /\ k.pc \in Counting)
Fresh(u) == shown[u] \in {None, Says(likes, u)} \/ \E c \in Clients : user(c) = u /\ Pending(call[c])
Freshness == /\ \A u \in Users : Fresh(u)
             /\ \A c \in Clients : At(c, "show") => call[c].value = Says(likes, user(c))

Gentle == Warm /\ IsFiniteSet(Busy) /\ (apart => Apart)
SchedInv == IndInv /\ Gentle /\ (FewFailures => Counts) /\ (apart => Freshness)

-----------------------------------------------------------------------------
LEMMA TwoAreMore ==
  ASSUME NEW S, IsFiniteSet(S), NEW c \in S, NEW d \in S, c # d
  PROVE  ~(Cardinality(S) <= 1)
<1>1. IsFiniteSet({c}) /\ Cardinality({c}) = 1
  BY FS_Singleton
<1>2. Cardinality({c} \cup {d}) = 2
  BY <1>1, FS_AddElement
<1>3. Cardinality({c} \cup {d}) <= Cardinality(S) /\ Cardinality(S) \in Nat
  BY FS_Subset, FS_CardinalityType
<1> QED  BY <1>2, <1>3

\* One call moves on: who is busy, and who is uncounted.
LEMMA BusyMoves ==
  ASSUME IsFiniteSet(Busy), IndInv, NEW c \in Clients, NEW k, call' = [call EXCEPT ![c] = k]
  PROVE  IsFiniteSet(Busy')
<1>1. call' \in [Clients -> {call'[d] : d \in Clients}] /\ \A d \in Clients \ {c} : call'[d] = call[d]
  BY DEF IndInv, TypeOK
<1>2. Busy' \subseteq Busy \cup {c}
  BY <1>1 DEF Busy, At
<1>3. IsFiniteSet(Busy \cup {c})
  BY FS_AddElement
<1> QED  BY <1>2, <1>3, FS_Subset

LEMMA DebtIsBusy == ASSUME IsFiniteSet(Busy) PROVE IsFiniteSet(Debt) /\ Cardinality(Debt) \in Nat
<1>1. Debt \subseteq Busy
  BY DEF Debt, Busy, Uncounted, Counting, At
<1> QED  BY <1>1, FS_Subset, FS_CardinalityType

LEMMA DebtMoves ==
  ASSUME IsFiniteSet(Busy), IndInv, NEW c \in Clients, NEW k, call' = [call EXCEPT ![c] = k]
  PROVE  /\ Cardinality(Debt) \in Nat /\ Cardinality(Debt') \in Nat
         /\ (Uncounted(k) <=> Uncounted(call[c])) => Cardinality(Debt') = Cardinality(Debt)
         /\ Uncounted(k) /\ ~Uncounted(call[c]) => Cardinality(Debt') = Cardinality(Debt) + 1
         /\ ~Uncounted(k) /\ Uncounted(call[c]) => Cardinality(Debt') = Cardinality(Debt) - 1
<1>1. call'[c] = k /\ \A d \in Clients \ {c} : call'[d] = call[d]
  BY DEF IndInv, TypeOK
<1>2. IsFiniteSet(Debt) /\ Cardinality(Debt) \in Nat
  BY DebtIsBusy
<1>3. CASE Uncounted(k)
  <2>1. Debt' = Debt \cup {c} /\ (c \in Debt <=> Uncounted(call[c]))
    BY <1>1, <1>3 DEF Debt
  <2>2. Cardinality(Debt \cup {c}) = IF c \in Debt THEN Cardinality(Debt) ELSE Cardinality(Debt) + 1
    BY <1>2, FS_AddElement
  <2> QED  BY <1>2, <1>3, <2>1, <2>2
<1>4. CASE ~Uncounted(k)
  <2>1. Debt' = Debt \ {c} /\ (c \in Debt <=> Uncounted(call[c]))
    BY <1>1, <1>4 DEF Debt
  <2>2. Cardinality(Debt \ {c}) \in Nat
    BY <1>2, FS_RemoveElement, FS_CardinalityType
  <2> QED  BY <1>2, <1>4, <2>1, <2>2, FS_RemoveElement
<1> QED  BY <1>3, <1>4

LEMMA LikesMove ==
  ASSUME IndInv, NEW u
  PROVE  /\ Cardinality(likes) \in Nat
         /\ Cardinality(likes \cup {u}) = IF u \in likes THEN Cardinality(likes) ELSE Cardinality(likes) + 1
         /\ Cardinality(likes \ {u}) = IF u \in likes THEN Cardinality(likes) - 1 ELSE Cardinality(likes)
<1>1. IsFiniteSet(likes)
  BY LikesAssumption, FS_Subset DEF IndInv, TypeOK
<1> QED  BY <1>1, FS_CardinalityType, FS_AddElement, FS_RemoveElement

\* Calls that are not the one that moves stay where they are placed: two calls in
\* hand have met a counter that Redis has.
LEMMA OthersStay ==
  ASSUME IndInv, Gentle, Gentle', NEW c \in Clients, NEW k, call' = [call EXCEPT ![c] = k], UNCHANGED apart,
         count # None => count' # None,
         likes' \subseteq likes \cup {user(c)},
         ~At(c, "idle") \/ (k.pc # "idle" /\ UNCHANGED <<likes, count>>),
         NEW d \in Clients, d # c, Placed(d)
  PROVE  Placed(d)'
<1>1. call'[c] = k /\ call'[d] = call[d] /\ user(d)' = user(d)
  BY DEF IndInv, TypeOK, user
<1>2. CASE At(d, "idle")
  BY <1>1, <1>2 DEF Placed, At, Uncounted, Counting
<1>3. CASE ~At(d, "idle")
  <2>1. count # None /\ count' # None /\ ~At(d, "query") /\ ~At(d, "fill")
    <3>1. CASE ~At(c, "idle")
      <4>1. c \in Busy /\ d \in Busy
        BY <1>3, <3>1 DEF Busy
      <4> QED  BY <4>1, TwoAreMore DEF Gentle, Warm, Refilling, At
    <3>2. CASE k.pc # "idle" /\ UNCHANGED <<likes, count>>
      <4>1. c \in Busy' /\ d \in Busy'
        BY <1>1, <1>3, <3>2 DEF Busy, At
      <4>2. ~(Cardinality(Busy') <= 1)
        BY <4>1, TwoAreMore DEF Gentle
      <4> QED  BY <1>1, <3>2, <4>2 DEF Gentle, Warm, Refilling, At
    <3> QED  BY <3>1, <3>2
  <2>2. apart /\ user(d) \notin likes => user(d) \notin likes'
    <3>1. CASE ~At(c, "idle")
      BY <1>3, <3>1 DEF Gentle, Apart, Busy
    <3>2. CASE At(c, "idle")
      BY <3>2
    <3> QED  BY <3>1, <3>2
  <2> QED  BY <1>1, <2>1, <2>2 DEF Placed, At, InBatch
<1> QED  BY <1>2, <1>3

\* A step that moves one call on and leaves the count of likes as it was.
LEMMA QuietKeeps ==
  ASSUME IndInv, Gentle, Gentle', Counts, NEW c \in Clients, NEW k, call' = [call EXCEPT ![c] = k],
         UNCHANGED <<apart, count, likes>>, ~At(c, "idle") \/ k.pc # "idle",
         ~Uncounted(k), ~Uncounted(call[c]) \/ ~apart, k.pc \notin {"query", "fill", "bump"}, k.up => k.op = "add",
         apart /\ k.pc = "load" /\ k.op = "add" => k.user \notin likes
  PROVE  Counts'
<1>1. call'[c] = k
  BY DEF IndInv, TypeOK
<1>2. Placed(c)'
  BY <1>1 DEF Placed, At, user, Uncounted, Counting
<1>3. \A d \in Clients \ {c} : Placed(d)'
  BY OthersStay DEF Counts
<1>4. count' = None \/ Owed'
  <2>1. CASE count = None
    BY <2>1
  <2>2. CASE count # None
    <3>1. /\ Cardinality(Debt) \in Nat /\ Cardinality(Debt') \in Nat
          /\ Cardinality(Debt') <= Cardinality(Debt)
          /\ ~Uncounted(call[c]) => Cardinality(Debt') = Cardinality(Debt)
      <4>1. /\ Cardinality(Debt) \in Nat /\ Cardinality(Debt') \in Nat
            /\ ~Uncounted(call[c]) => Cardinality(Debt') = Cardinality(Debt)
            /\ Uncounted(call[c]) => Cardinality(Debt') = Cardinality(Debt) - 1
        BY DebtMoves DEF Gentle
      <4> QED  BY <4>1
    <3>2. Cardinality(likes) \in Nat /\ count \in Int
      BY <2>2, LikesMove DEF IndInv, TypeOK
    <3> QED  BY <2>2, <3>1, <3>2 DEF Counts, Owed
  <2> QED  BY <2>1, <2>2
<1> QED  BY <1>2, <1>3, <1>4 DEF Counts

\* A step that moves one call on, changing the counter, the table or the debt.
LEMMA MoveCounts ==
  ASSUME IndInv, Gentle, Gentle', Counts, NEW c \in Clients, NEW k, call' = [call EXCEPT ![c] = k], UNCHANGED apart,
         count # None => count' # None, likes' \subseteq likes \cup {user(c)}, ~At(c, "idle"),
         Placed(c)', count' = None \/ Owed'
  PROVE  Counts'
<1>1. \A d \in Clients \ {c} : Placed(d)'
  BY OthersStay DEF Counts
<1> QED  BY <1>1 DEF Counts

\* While the counter is refilled, nobody owes anything but the only call in hand.
LEMMA OnlyCall ==
  ASSUME IndInv, Gentle, Counts, Refilling, NEW c \in Clients, ~At(c, "idle")
  PROVE  /\ call[c].op # "remove"
         /\ ~Uncounted(call[c]) => Debt = {}
         /\ Cardinality(Debt) \in Nat
<1>1. c \in Busy
  BY DEF Busy
<1>2. \A d \in Busy : d = c
  BY <1>1, TwoAreMore DEF Gentle, Warm
<1>3. Debt \subseteq Busy
  BY DEF Debt, Busy, Uncounted, Counting, At
<1> QED  BY <1>1, <1>2, <1>3, DebtIsBusy DEF Gentle, Warm, Debt

LEMMA LoadCounts ==
  ASSUME IndInv, Gentle, Gentle', Counts, NEW c \in Clients, Load(c), UNCHANGED apart
  PROVE  Counts'
<1>1. /\ call[c].pc = "load" /\ ~At(c, "idle") /\ UNCHANGED <<likes, count, spent>>
      /\ call[c] \in Call /\ Placed(c)
  BY Current DEF Load, At, Counts
<1>2. CASE (count = None \/ InBatch(c)) /\ Goto(c, "query")
  <2> DEFINE k == [call[c] EXCEPT !.pc = "query"]
  <2>1. call' = [call EXCEPT ![c] = k]
    BY <1>2, GotoIs DEF PC
  <2>2. /\ k.pc = "query" /\ k.op = call[c].op /\ k.up = call[c].up /\ k.user = user(c)
        /\ call'[c] = k
    BY <1>1, <2>1 DEF Call, user, IndInv, TypeOK
  <2> HIDE DEF k
  <2>3. Placed(c)'
    BY <1>1, <1>2, <2>2 DEF Placed, At, user, Uncounted, Counting, InBatch
  <2>4. count' = None \/ Owed'
    <3>1. CASE count = None
      BY <1>1, <3>1
    <3>2. CASE count # None
      <4>1. Uncounted(k) <=> Uncounted(call[c])
        BY <1>1, <2>2 DEF Uncounted, Counting
      <4>2. Cardinality(Debt') = Cardinality(Debt)
        BY <2>1, <4>1, DebtMoves DEF Gentle
      <4> QED  BY <1>1, <3>2, <4>2 DEF Owed, Counts
    <3> QED  BY <3>1, <3>2
  <2> QED  BY <1>1, <2>1, <2>3, <2>4, MoveCounts
<1>3. CASE count # None /\ Loaded(c, count)
  <2>1. count \in Int /\ Owed
    BY <1>3 DEF IndInv, TypeOK, Counts
  <2> DEFINE k == [call[c] EXCEPT !.value = count, !.pc = IF call[c].op = "count" THEN "done" ELSE "bump"]
  <2>2. call' = [call EXCEPT ![c] = k]
    BY <1>3 DEF Loaded, IndInv, TypeOK
  <2>3. /\ k.pc = (IF call[c].op = "count" THEN "done" ELSE "bump") /\ k.op = call[c].op /\ k.up = call[c].up
        /\ k.user = user(c) /\ k.value = count /\ call'[c] = k
    BY <1>1, <2>2 DEF Call, user, IndInv, TypeOK
  <2> HIDE DEF k
  <2>4. Uncounted(k) <=> Uncounted(call[c])
    BY <1>1, <2>3 DEF Uncounted, Counting
  <2>5. Cardinality(Debt) \in Nat /\ Cardinality(Debt') = Cardinality(Debt) /\ Cardinality(likes) \in Nat
    BY <2>2, <2>4, DebtMoves, LikesMove DEF Gentle
  <2>6. Owed'
    BY <1>1, <2>1, <2>5 DEF Owed, Gentle
  <2>7. apart /\ k.pc = "bump" /\ ~k.up => count > 0
    <3>1. ~k.up /\ k.pc = "bump" => c \in Debt
      BY <1>1, <2>3 DEF Debt, Uncounted, Counting
    <3>2. c \in Debt => Cardinality(Debt) # 0
      BY DebtIsBusy, FS_EmptySet DEF Gentle
    <3> QED  BY <2>1, <2>5, <3>1, <3>2 DEF Owed
  <2>8. Placed(c)'
    BY <1>1, <1>3, <2>3, <2>7 DEF Placed, At, user, Uncounted, Counting
  <2> QED  BY <1>1, <2>2, <2>6, <2>8, MoveCounts
<1> QED  BY <1>2, <1>3 DEF Load

LEMMA QueryCounts ==
  ASSUME IndInv, Gentle, Gentle', Counts, NEW c \in Clients, Query(c), UNCHANGED apart
  PROVE  Counts'
<1>1. /\ call[c].pc = "query" /\ ~At(c, "idle") /\ UNCHANGED <<likes, count, spent>>
      /\ call[c] \in Call /\ Placed(c)
  BY Current DEF Query, At, Counts
<1> DEFINE k == [call[c] EXCEPT !.value = Cardinality(likes), !.pc = "fill"]
<1>2. call' = [call EXCEPT ![c] = k]
  BY DEF Query, IndInv, TypeOK
<1>3. /\ k.pc = "fill" /\ k.op = call[c].op /\ k.up = call[c].up /\ k.user = user(c)
      /\ k.value = Cardinality(likes) /\ call'[c] = k
  BY <1>1, <1>2 DEF Call, user, IndInv, TypeOK
<1> HIDE DEF k
<1>4. Placed(c)'
  BY <1>1, <1>3 DEF Placed, At, user, Uncounted, Counting, InBatch
<1>5. count' = None \/ Owed'
  <2>1. CASE count = None
    BY <1>1, <2>1
  <2>2. CASE count # None
    <3>1. Uncounted(k) <=> Uncounted(call[c])
      BY <1>1, <1>3 DEF Uncounted, Counting
    <3>2. Cardinality(Debt') = Cardinality(Debt)
      BY <1>2, <3>1, DebtMoves DEF Gentle
    <3> QED  BY <1>1, <2>2, <3>2 DEF Owed, Counts
  <2> QED  BY <2>1, <2>2
<1> QED  BY <1>1, <1>2, <1>4, <1>5, MoveCounts

LEMMA FillCounts ==
  ASSUME IndInv, Gentle, Gentle', Counts, NEW c \in Clients, Fill(c), UNCHANGED apart
  PROVE  Counts'
<1>1. /\ call[c].pc = "fill" /\ ~At(c, "idle") /\ UNCHANGED <<likes, spent>> /\ count' = call[c].value
      /\ call[c] \in Call /\ Placed(c) /\ Refilling /\ call[c].value = Cardinality(likes)
      /\ (count = None \/ InBatch(c))
  BY Current DEF Fill, At, Counts, Placed, Refilling
<1> DEFINE k == [call[c] EXCEPT !.value = call[c].value, !.pc = IF call[c].op = "count" THEN "done" ELSE "bump"]
<1>2. call' = [call EXCEPT ![c] = k]
  BY DEF Fill, Loaded, IndInv, TypeOK
<1>3. /\ k.pc = (IF call[c].op = "count" THEN "done" ELSE "bump") /\ k.op = call[c].op /\ k.up = call[c].up
      /\ k.user = user(c) /\ k.value = Cardinality(likes) /\ call'[c] = k
  BY <1>1, <1>2 DEF Call, user, IndInv, TypeOK
<1> HIDE DEF k
<1>4. ~Uncounted(call[c]) /\ ~Uncounted(k)
  BY <1>1, <1>3 DEF Placed, At, Uncounted, Counting, InBatch
<1>5. Cardinality(likes) \in Nat /\ Cardinality(Debt') = Cardinality(Debt) /\ Cardinality(Debt) = 0
  BY <1>1, <1>2, <1>4, LikesMove, DebtMoves, OnlyCall, FS_EmptySet DEF Gentle
<1>6. Owed'
  BY <1>1, <1>5 DEF Owed
<1>7. count' # None
  BY <1>1, <1>5, LikesAssumption
<1>8. k.pc = "bump" => k.up
  BY <1>3, <1>4 DEF Uncounted, Counting
<1>9. Placed(c)'
  BY <1>1, <1>3, <1>4, <1>7, <1>8 DEF Placed, At, user, Counting
<1> QED  BY <1>1, <1>2, <1>6, <1>7, <1>9, MoveCounts

LEMMA BumpCounts ==
  ASSUME IndInv, Gentle, Gentle', Counts, NEW c \in Clients, Bump(c), UNCHANGED apart
  PROVE  Counts'
<1>1. /\ call[c].pc = "bump" /\ ~At(c, "idle") /\ UNCHANGED <<likes, spent>> /\ count' = Changed(c)
      /\ call[c] \in Call /\ Placed(c) /\ count \in Int /\ Owed /\ call[c].op # "count"
      /\ Truthful(call[c], held[c], Says(likes, user(c)))
  BY Current DEF Bump, At, Counts, Placed, IndInv, TypeOK
<1>2. /\ Counted(c) \in {"clear", "save", "recheck"}
      /\ Counted(c) = "save" <=> call[c].up
      /\ Counted(c) = "clear" => call[c].op = "remove"
  BY <1>1, CountedIs DEF At, Truthful, Call, Op, Placed
<1> DEFINE k == [call[c] EXCEPT !.pc = Counted(c)]
<1>3. call' = [call EXCEPT ![c] = k]
  <2>1. Counted(c) \in PC /\ Goto(c, Counted(c))
    BY <1>2 DEF Bump, PC
  <2> QED  BY <2>1, GotoIs
<1>4. /\ k.pc = Counted(c) /\ k.op = call[c].op /\ k.up = call[c].up /\ k.user = user(c) /\ call'[c] = k
  BY <1>1, <1>3 DEF Call, user, IndInv, TypeOK
<1> HIDE DEF k
<1>5. Uncounted(k) <=> call[c].up
  BY <1>2, <1>4 DEF Uncounted, Counting
<1>6. Uncounted(call[c]) <=> ~call[c].up
  BY <1>1 DEF Uncounted, Counting
<1>7. /\ Cardinality(Debt) \in Nat /\ Cardinality(Debt') \in Nat /\ Cardinality(likes) \in Nat
      /\ call[c].up => Cardinality(Debt') = Cardinality(Debt) + 1
      /\ ~call[c].up => Cardinality(Debt') = Cardinality(Debt) - 1
  BY <1>3, <1>5, <1>6, DebtMoves, LikesMove DEF Gentle
<1>8. /\ count' \in Int
      /\ call[c].up => count' = count + 1
      /\ ~call[c].up => count' = count - 1 \/ (count' = count /\ ~apart)
  BY <1>1, LikesAssumption DEF Changed, Added, Placed, At, Call
<1>9. Owed'
  BY <1>1, <1>7, <1>8 DEF Owed
<1>10. count' # None
  BY <1>8, LikesAssumption
<1>11. Placed(c)'
  BY <1>1, <1>2, <1>4, <1>5, <1>10 DEF Placed, At, user, Uncounted, Counting
<1> QED  BY <1>1, <1>3, <1>9, <1>10, <1>11, MoveCounts

LEMMA SaveCounts ==
  ASSUME IndInv, Gentle, Gentle', Counts, NEW c \in Clients, Save(c), UNCHANGED apart
  PROVE  Counts'
<1>1. /\ call[c].pc = "save" /\ ~At(c, "idle") /\ UNCHANGED <<count, spent>> /\ likes' = likes \cup {user(c)}
      /\ call[c] \in Call /\ Placed(c) /\ call[c].op = "add"
  BY Current DEF Save, At, Counts, Truthful
<1> DEFINE k == [call[c] EXCEPT !.pc = "clear"]
<1>2. call' = [call EXCEPT ![c] = k]
  BY GotoIs DEF Save, PC
<1>3. /\ k.pc = "clear" /\ k.op = call[c].op /\ k.up = call[c].up /\ k.user = user(c) /\ call'[c] = k
  BY <1>1, <1>2 DEF Call, user, IndInv, TypeOK
<1> HIDE DEF k
<1>4. Uncounted(call[c]) /\ ~Uncounted(k)
  BY <1>1, <1>3 DEF Uncounted, Counting
<1>5. /\ Cardinality(Debt) \in Nat /\ Cardinality(Debt') = Cardinality(Debt) - 1 /\ Cardinality(likes) \in Nat
      /\ Cardinality(likes') = IF user(c) \in likes THEN Cardinality(likes) ELSE Cardinality(likes) + 1
  BY <1>1, <1>2, <1>4, DebtMoves, LikesMove DEF Gentle
<1>6. apart => user(c) \notin likes
  BY <1>1 DEF Placed
<1>7. count' = None \/ Owed'
  <2>1. CASE count = None
    BY <1>1, <2>1
  <2>2. CASE count # None
    BY <1>1, <1>5, <1>6, <2>2 DEF Owed, Counts, IndInv, TypeOK
  <2> QED  BY <2>1, <2>2
<1>8. Placed(c)'
  BY <1>1, <1>3, <1>4 DEF Placed, At, user, Counting
<1> QED  BY <1>1, <1>2, <1>7, <1>8, MoveCounts

LEMMA DeleteCounts ==
  ASSUME IndInv, Gentle, Gentle', Counts, NEW c \in Clients, Delete(c), UNCHANGED apart
  PROVE  Counts'
<1>1. /\ call[c].pc = "delete" /\ ~At(c, "idle") /\ UNCHANGED <<count, spent>> /\ likes' = likes \ {user(c)}
      /\ call[c] \in Call /\ Placed(c) /\ call[c].op = "remove"
  BY Current DEF Delete, At, Counts, Truthful
<1>2. count # None /\ ~call[c].up
  BY <1>1, OnlyCall DEF Placed, Refilling
<1>3. ~Uncounted(call[c])
  BY <1>1 DEF Uncounted, Counting
<1>4. CASE user(c) \in likes
  <2> DEFINE k == [call[c] EXCEPT !.pc = "load"]
  <2>1. call' = [call EXCEPT ![c] = k]
    BY <1>4, GotoIs DEF Delete, Affected, PC
  <2>2. /\ k.pc = "load" /\ k.op = call[c].op /\ k.up = call[c].up /\ k.user = user(c) /\ call'[c] = k
    BY <1>1, <2>1 DEF Call, user, IndInv, TypeOK
  <2> HIDE DEF k
  <2>3. Uncounted(k)
    BY <1>1, <1>2, <2>2 DEF Uncounted, Counting
  <2>4. /\ Cardinality(Debt) \in Nat /\ Cardinality(Debt') = Cardinality(Debt) + 1 /\ Cardinality(likes) \in Nat
        /\ Cardinality(likes') = Cardinality(likes) - 1
    BY <1>1, <1>3, <1>4, <2>1, <2>3, DebtMoves, LikesMove DEF Gentle
  <2>5. Owed'
    BY <1>1, <1>2, <2>4 DEF Owed, Counts, IndInv, TypeOK
  <2>6. Placed(c)'
    BY <1>1, <1>2, <2>2 DEF Placed, At, user, Uncounted, Counting
  <2> QED  BY <1>1, <1>2, <2>1, <2>5, <2>6, MoveCounts
<1>5. CASE user(c) \notin likes
  <2> DEFINE k == [call[c] EXCEPT !.pc = "done", !.answer = "true"]
  <2>1. call' = [call EXCEPT ![c] = k]
    BY <1>5, AnswerIs DEF Delete, Affected
  <2>2. k.pc = "done" /\ k.op = call[c].op /\ k.up = call[c].up
    BY <1>1 DEF Call
  <2> HIDE DEF k
  <2>3. ~Uncounted(k) /\ UNCHANGED likes
    BY <1>1, <1>5, <2>2 DEF Uncounted, Counting
  <2> QED  BY <1>1, <1>2, <1>3, <2>1, <2>2, <2>3, QuietKeeps
<1> QED  BY <1>4, <1>5

\* The steps that neither count nor change the table.
LEMMA QuietCounts ==
  ASSUME IndInv, Gentle, Gentle', Counts, NEW c \in Clients, UNCHANGED apart,
         \/ Return(c) \/ AddRead(c) \/ Recheck(c) \/ Clear(c) \/ Look(c) \/ Fetch(c) \/ Show(c)
         \/ \E op \in Op, u \in Users : Begin(c, op, u)
         \/ Crash(c) /\ ~apart
  PROVE  Counts'
<1>1. PICK k : call' = [call EXCEPT ![c] = k] /\ ~Uncounted(k) /\ k.pc \notin {"query", "fill", "bump"}
               /\ (k.up => k.op = "add") /\ (k.pc = "load" /\ k.op = "add" => k.user \notin likes)
               /\ (~At(c, "idle") \/ k.pc # "idle")
  <2>1. call[c] \in Call
    BY DEF IndInv, TypeOK
  <2>2. call[c].up => call[c].op = "add"
    BY DEF Counts, Placed
  <2>3. CASE Return(c) \/ Crash(c)
    <3>1. call' = [call EXCEPT ![c] = IdleCall] /\ ~At(c, "idle")
      BY <2>3 DEF Return, Crash, At
    <3>2. ~Uncounted(IdleCall) /\ IdleCall.pc = "idle" /\ ~IdleCall.up
      BY DEF IdleCall, Uncounted, Counting
    <3> QED  BY <3>1, <3>2
  <2>4. ASSUME NEW op \in Op, NEW u \in Users, Begin(c, op, u)
        PROVE  \E k : /\ call' = [call EXCEPT ![c] = k] /\ ~Uncounted(k) /\ k.pc \notin {"query", "fill", "bump"}
                      /\ (k.up => k.op = "add") /\ (k.pc = "load" /\ k.op = "add" => k.user \notin likes)
                      /\ (~At(c, "idle") \/ k.pc # "idle")
    <3> DEFINE k == [op |-> op, user |-> u, pc |-> First(op), up |-> FALSE, value |-> 0, answer |-> "none"]
    <3>1. call' = [call EXCEPT ![c] = k]
      BY <2>4 DEF Begin
    <3>2. k.op = op /\ k.pc = First(op) /\ ~k.up
      OBVIOUS
    <3>3. First(op) \in {"read", "delete", "load", "look"} /\ (First(op) = "load" => op = "count")
      BY DEF First, Op
    <3> HIDE DEF k
    <3>4. ~Uncounted(k)
      BY <3>2, <3>3 DEF Uncounted, Counting
    <3> QED  BY <3>1, <3>2, <3>3, <3>4
  <2>5. CASE AddRead(c)
    <3>1. At(c, "read") /\ call[c].op = "add"
      BY <2>5, Current DEF AddRead, At, Truthful
    <3>2. CASE user(c) \in likes
      <4> DEFINE k == [call[c] EXCEPT !.pc = "done", !.answer = "true"]
      <4>1. call' = [call EXCEPT ![c] = k]
        BY <2>5, <3>2, AnswerIs DEF AddRead
      <4>2. k.pc = "done" /\ k.op = call[c].op /\ k.up = call[c].up
        BY <2>1 DEF Call
      <4> HIDE DEF k
      <4> QED  BY <2>2, <3>1, <4>1, <4>2 DEF Uncounted, Counting, At
    <3>3. CASE user(c) \notin likes
      <4> DEFINE k == [call[c] EXCEPT !.pc = "load", !.up = TRUE]
      <4>1. call' = [call EXCEPT ![c] = k]
        BY <2>5, <3>3 DEF AddRead, IndInv, TypeOK
      <4>2. k.pc = "load" /\ k.op = call[c].op /\ k.up /\ k.user = user(c)
        BY <2>1 DEF Call, user
      <4> HIDE DEF k
      <4> QED  BY <3>1, <3>3, <4>1, <4>2 DEF Uncounted, Counting, At
    <3> QED  BY <3>2, <3>3
  <2>6. CASE Recheck(c) \/ Clear(c)
    <3>1. PICK answer \in {"true", "false", "error"} : Answer(c, answer) /\ ~At(c, "idle")
      BY <2>6 DEF Recheck, Clear, Rechecked, At
    <3> DEFINE k == [call[c] EXCEPT !.pc = "done", !.answer = answer]
    <3>2. call' = [call EXCEPT ![c] = k]
      BY <3>1, AnswerIs
    <3>3. k.pc = "done" /\ k.op = call[c].op /\ k.up = call[c].up
      BY <2>1 DEF Call
    <3> HIDE DEF k
    <3> QED  BY <2>2, <3>1, <3>2, <3>3 DEF Uncounted, Counting
  <2>7. CASE Look(c) \/ Fetch(c) \/ Show(c)
    <3>1. PICK n \in Int, pc \in {"fetch", "show", "done"} :
             call' = [call EXCEPT ![c] = [call[c] EXCEPT !.value = n, !.pc = pc]] /\ ~At(c, "idle")
      <4>1. ~At(c, "idle")
        BY <2>7 DEF Look, Fetch, Show, At
      <4>2. CASE Fetch(c)
        <5>1. call' = [call EXCEPT ![c] = [call[c] EXCEPT !.value = Says(likes, user(c)), !.pc = "show"]]
          BY <4>2 DEF Fetch, IndInv, TypeOK
        <5>2. Says(likes, user(c)) \in Int /\ "show" \in {"fetch", "show", "done"}
          BY DEF Says
        <5> QED  BY <4>1, <5>1, <5>2, Zenon
      <4>3. CASE Look(c) \/ Show(c)
        <5>1. PICK pc \in {"fetch", "done"} : Goto(c, pc)
          BY <4>3 DEF Look, Show
        <5>2. call' = [call EXCEPT ![c] = [call[c] EXCEPT !.value = call[c].value, !.pc = pc]]
          BY <2>1, <5>1 DEF Goto, Call, IndInv, TypeOK
        <5>3. call[c].value \in Int /\ pc \in {"fetch", "show", "done"}
          BY <2>1 DEF Call
        <5> QED  BY <4>1, <5>2, <5>3, Zenon
      <4> QED  BY <2>7, <4>2, <4>3
    <3> DEFINE k == [call[c] EXCEPT !.value = n, !.pc = pc]
    <3>2. k.pc = pc /\ k.op = call[c].op /\ k.up = call[c].up
      BY <2>1 DEF Call
    <3>3. call' = [call EXCEPT ![c] = k]
      BY <3>1
    <3> HIDE DEF k
    <3> QED  BY <2>2, <3>1, <3>2, <3>3 DEF Uncounted, Counting
  <2> QED  BY <2>3, <2>4, <2>5, <2>6, <2>7
<1>2. UNCHANGED <<likes, count>>
  BY DEF Return, AddRead, Recheck, Clear, Look, Fetch, Show, Begin, Crash
<1>3. ~Uncounted(call[c]) \/ ~apart
  BY DEF Return, AddRead, Recheck, Clear, Look, Fetch, Show, Begin, Crash, At, Uncounted, Counting
<1> QED  BY <1>1, <1>2, <1>3, QuietKeeps

LEMMA Spends ==
  ASSUME IndInv, NEW what \in DOMAIN Bound, Spend(what)
  PROVE  /\ spent'[what] = spent[what] + 1 /\ spent[what] \in Nat
         /\ \A other \in DOMAIN Bound : spent[other] \in Nat /\ (other # what => spent'[other] = spent[other])
  BY DEF Spend, IndInv, TypeOK

LEMMA StatementFailsCounts ==
  ASSUME IndInv, Gentle, Gentle', Counts, NEW c \in Clients, StatementFails(c), FewFailures', UNCHANGED apart
  PROVE  Counts'
<1>1. spent.failures = 0 /\ spent'.failures = 1
  <2>1. spent'["failures"] = spent["failures"] + 1 /\ spent["failures"] \in Nat
    BY BoundNames, Spends DEF StatementFails
  <2> QED  BY <2>1 DEF FewFailures
<1>2. /\ UNCHANGED <<likes, count>> /\ ~At(c, "idle") /\ call[c] \in Call /\ Placed(c)
      /\ Truthful(call[c], held[c], Says(likes, user(c)))
  BY Current DEF StatementFails, At, Counts
<1>3. ASSUME NEW k, call' = [call EXCEPT ![c] = k], k.pc \in {"recheck", "done"}, k.op = call[c].op, k.up = call[c].up,
             ~Uncounted(call[c])
      PROVE  Counts'
  BY <1>2, <1>3, QuietKeeps DEF Uncounted, Counting, Placed
<1>4. ASSUME NEW pc \in {"recheck", "done"}, Goto(c, pc), ~Uncounted(call[c])
      PROVE  Counts'
  <2> DEFINE k == [call[c] EXCEPT !.pc = pc]
  <2>1. call' = [call EXCEPT ![c] = k]
    BY <1>4, GotoIs DEF PC
  <2>2. k.pc = pc /\ k.op = call[c].op /\ k.up = call[c].up
    BY <1>2 DEF Call
  <2> HIDE DEF k
  <2> QED  BY <1>3, <1>4, <2>1, <2>2
<1>5. ASSUME NEW answer \in {"true", "false", "error"}, Answer(c, answer), ~Uncounted(call[c])
      PROVE  Counts'
  <2> DEFINE k == [call[c] EXCEPT !.pc = "done", !.answer = answer]
  <2>1. call' = [call EXCEPT ![c] = k]
    BY <1>5, AnswerIs
  <2>2. k.pc = "done" /\ k.op = call[c].op /\ k.up = call[c].up
    BY <1>2 DEF Call
  <2> HIDE DEF k
  <2> QED  BY <1>3, <1>5, <2>1, <2>2
<1>6. call[c].pc \in {"read", "delete", "recheck", "fetch", "done"} => ~Uncounted(call[c])
  BY DEF Uncounted, Counting
<1>7. CASE At(c, "query") /\ Goto(c, Counted(c))
  <2>1. (count = None \/ InBatch(c)) /\ ~Uncounted(call[c]) /\ call[c].op # "remove"
    <3>1. Refilling
      BY <1>7 DEF Refilling, At
    <3> QED  BY <1>2, <1>7, <3>1, OnlyCall DEF Placed, At, Uncounted, Counting, InBatch
  <2>2. CASE call[c].op = "count"
    <3>1. Goto(c, "done")
      BY <1>7, <2>2, CountedIs
    <3> QED  BY <1>4, <2>1, <3>1
  <2>3. CASE call[c].op # "count"
    <3>1. call[c].op = "add" /\ call[c].up /\ count = None
      BY <1>7, <2>1, <2>3, <1>2 DEF At, Uncounted, Counting, Call, Op, Truthful, InBatch
    <3>2. Goto(c, "save") /\ "save" \in PC
      BY <1>7, <3>1, CountedIs DEF PC
    <3> DEFINE k == [call[c] EXCEPT !.pc = "save"]
    <3>3. call' = [call EXCEPT ![c] = k]
      BY <3>2, GotoIs
    <3>4. k.pc = "save" /\ k.op = call[c].op /\ k.up = call[c].up /\ k.user = user(c) /\ call'[c] = k
      BY <1>2, <3>3 DEF Call, user, IndInv, TypeOK
    <3> HIDE DEF k
    <3>5. Placed(c)'
      BY <1>1, <1>2, <1>7, <3>1, <3>4 DEF Placed, At, user, Uncounted, Counting
    <3> QED  BY <1>2, <3>1, <3>3, <3>5, MoveCounts
  <2> QED  BY <2>2, <2>3
<1>8. CASE At(c, "save") /\ call' = [call EXCEPT ![c].pc = "load", ![c].up = FALSE]
  <2>1. count # None /\ call[c].op = "add" /\ count \in Int /\ Owed
    BY <1>1, <1>2, <1>8 DEF Placed, At, Truthful, IndInv, TypeOK, Counts
  <2> DEFINE k == [call[c] EXCEPT !.pc = "load", !.up = FALSE]
  <2>2. call' = [call EXCEPT ![c] = k]
    BY <1>8 DEF IndInv, TypeOK
  <2>3. k.pc = "load" /\ k.op = call[c].op /\ ~k.up /\ k.user = user(c) /\ call'[c] = k
    BY <1>2, <2>2 DEF Call, user, IndInv, TypeOK
  <2> HIDE DEF k
  <2>4. Uncounted(k) /\ Uncounted(call[c])
    BY <1>8, <2>1, <2>3 DEF At, Uncounted, Counting
  <2>5. Cardinality(Debt') = Cardinality(Debt)
    BY <2>2, <2>4, DebtMoves DEF Gentle
  <2>6. Owed'
    BY <1>2, <2>1, <2>5 DEF Owed
  <2>7. Placed(c)'
    BY <1>2, <1>8, <2>1, <2>3 DEF Placed, At, user, Uncounted, Counting
  <2> QED  BY <1>2, <2>1, <2>2, <2>6, <2>7, MoveCounts
<1>9. CASE At(c, "read") /\ Goto(c, "recheck")
  BY <1>4, <1>6, <1>9 DEF At
<1>10. CASE (At(c, "delete") /\ Answer(c, "false")) \/ (At(c, "recheck") /\ Answer(c, "error"))
  BY <1>5, <1>6, <1>10 DEF At
<1>11. CASE At(c, "fetch") /\ Goto(c, "done")
  BY <1>4, <1>6, <1>11 DEF At
<1>12. CASE At(c, "done") /\ call[c].op = "add" /\ Goto(c, "recheck")
  BY <1>4, <1>6, <1>12 DEF At
<1> QED  BY <1>7, <1>8, <1>9, <1>10, <1>11, <1>12 DEF StatementFails

\* What stays as it is when no call moves.
LEMMA StillCounts ==
  ASSUME IndInv, Counts, UNCHANGED <<likes, call, apart>>, count' = count \/ (count' = None /\ Busy = {}),
         spent'.failures = spent.failures
  PROVE  Counts'
<1>1. Debt' = Debt
  BY DEF Debt
<1>2. CASE count' = count
  BY <1>1, <1>2 DEF Counts, Owed, Placed, At, user, InBatch
<1>3. CASE count' = None /\ Busy = {}
  <2>1. \A c \in Clients : call[c].pc = "idle"
    BY <1>3 DEF Busy, At
  <2> QED  BY <1>3, <2>1 DEF Counts, Placed, At, user, Uncounted, Counting
<1> QED  BY <1>2, <1>3

\* Once failures are too many, they stay so.
LEMMA FewerBefore == IndInv /\ [Next]_vars /\ FewFailures' => FewFailures
<1> SUFFICES ASSUME IndInv, [Next]_vars, FewFailures' PROVE FewFailures
  OBVIOUS
<1>1. CASE UNCHANGED spent
  BY <1>1 DEF FewFailures
<1>2. ASSUME NEW what \in DOMAIN Bound, Spend(what) PROVE FewFailures
  <2>1. /\ spent'[what] = spent[what] + 1 /\ spent[what] \in Nat
        /\ \A other \in DOMAIN Bound : spent[other] \in Nat /\ (other # what => spent'[other] = spent[other])
    BY <1>2, Spends
  <2>2. spent["cache"] \in Nat /\ spent["failures"] \in Nat
        /\ (spent'["cache"] = spent["cache"] \/ spent'["cache"] = spent["cache"] + 1)
        /\ (spent'["failures"] = spent["failures"] \/ spent'["failures"] = spent["failures"] + 1)
    BY <2>1, BoundNames
  <2> QED  BY <2>2 DEF FewFailures
<1>3. \/ UNCHANGED spent
      \/ Spend("calls") \/ Spend("expiries") \/ Spend("failures") \/ Spend("cache") \/ Spend("crashes")
  BY DEF Next, vars, Serve, Begin, StatementFails, CacheFails, Crash, Consume, Expire, Return,
         Load, Query, Fill, Bump, AddRead, Save, Recheck, Delete, Clear, Look, Fetch, Show
<1> QED  BY <1>1, <1>2, <1>3, BoundNames

LEMMA CountsKept ==
  ASSUME SchedInv, Gentle', FewFailures', Next, spent'.expiries # spent.expiries => Busy = {}, UNCHANGED apart
  PROVE  Counts'
<1>1. IndInv /\ Gentle /\ Counts
  BY FewerBefore DEF SchedInv
<1>2. CASE Expire
  <2>1. Spend("expiries") /\ (count' = count \/ count' = None) /\ UNCHANGED <<likes, call>>
    BY <1>2 DEF Expire
  <2>2. /\ spent'["expiries"] = spent["expiries"] + 1 /\ spent["expiries"] \in Nat
        /\ spent'["failures"] = spent["failures"]
    BY <1>1, <2>1, Spends, BoundNames
  <2> QED  BY <1>1, <2>1, <2>2, StillCounts
<1>3. ASSUME NEW u \in Users, Consume(u) PROVE Counts'
  BY <1>1, <1>3, StillCounts DEF Consume
<1>4. ASSUME NEW c \in Clients, Serve(c) PROVE Counts'
  BY <1>1, <1>4, LoadCounts, QueryCounts, FillCounts, BumpCounts, SaveCounts, DeleteCounts, QuietCounts DEF Serve
<1>5. ASSUME NEW c \in Clients, CacheFails(c) PROVE FALSE
  <2>1. spent'["cache"] = spent["cache"] + 1 /\ spent["cache"] \in Nat
    BY <1>1, <1>5, Spends, BoundNames DEF CacheFails
  <2> QED  BY <2>1 DEF FewFailures
<1>6. ASSUME NEW c \in Clients, Crash(c) PROVE Counts'
  <2>1. spent'["crashes"] = spent["crashes"] + 1 /\ spent["crashes"] \in Nat
    BY <1>1, <1>6, Spends, BoundNames DEF Crash
  <2>2. ~apart
    BY <2>1 DEF Gentle, Apart
  <2> QED  BY <1>1, <1>6, <2>2, QuietCounts
<1>7. ASSUME NEW c \in Clients, NEW op \in Op, NEW u \in Users, Begin(c, op, u) PROVE Counts'
  BY <1>1, <1>7, QuietCounts
<1>8. ASSUME NEW c \in Clients, StatementFails(c) PROVE Counts'
  BY <1>1, <1>8, StatementFailsCounts
<1> QED  BY <1>2, <1>3, <1>4, <1>5, <1>6, <1>7, <1>8 DEF Next

-----------------------------------------------------------------------------
(* The cached answers.                                                     *)

\* A step of a call of a user who has no other in hand.
LEMMA FreshMove ==
  ASSUME IndInv, Apart, Freshness, NEW c \in Clients, ~At(c, "idle"), NEW k, call' = [call EXCEPT ![c] = k],
         \A u \in Users \ {user(c)} : shown'[u] = shown[u] /\ Says(likes', u) = Says(likes, u),
         \/ shown'[user(c)] \in {None, Says(likes', user(c))}
         \/ k.user = user(c) /\ Pending(k)
         \/ ~Pending(call[c]) /\ shown'[user(c)] = shown[user(c)] /\ likes' = likes,
         k.pc = "show" => k.user = user(c) /\ k.value = Says(likes', user(c))
  PROVE  Freshness'
<1>1. call'[c] = k /\ \A d \in Clients \ {c} : call'[d] = call[d]
  BY DEF IndInv, TypeOK
<1>2. \A d \in Clients \ {c} : ~At(d, "idle") => user(d) # user(c) /\ user(d) \in Users
  BY Current DEF Apart, Busy
<1>3. ASSUME NEW d \in Clients, At(d, "show")' PROVE call'[d].value = Says(likes', user(d)')
  <2>1. CASE d = c
    BY <1>1, <1>3, <2>1 DEF At, user
  <2>2. CASE d # c
    <3>1. At(d, "show") /\ ~At(d, "idle") /\ user(d)' = user(d) /\ call'[d].value = call[d].value
      BY <1>1, <1>3, <2>2 DEF At, user
    <3> QED  BY <1>2, <2>2, <3>1 DEF Freshness
  <2> QED  BY <2>1, <2>2
<1>4. ASSUME NEW u \in Users, u # user(c) PROVE Fresh(u)'
  <2>1. CASE shown[u] \in {None, Says(likes, u)}
    BY <1>4, <2>1 DEF Fresh
  <2>2. CASE shown[u] \notin {None, Says(likes, u)}
    <3>1. PICK d \in Clients : user(d) = u /\ Pending(call[d])
      BY <2>2 DEF Freshness, Fresh
    <3>2. user(d)' = u /\ Pending(call'[d])
      BY <1>1, <1>4, <3>1 DEF user
    <3> QED  BY <3>2 DEF Fresh
  <2> QED  BY <2>1, <2>2
<1>5. ASSUME NEW u \in Users, u = user(c) PROVE Fresh(u)'
  <2>1. CASE shown'[user(c)] \in {None, Says(likes', user(c))}
    BY <1>5, <2>1 DEF Fresh
  <2>2. CASE k.user = user(c) /\ Pending(k)
    BY <1>1, <1>5, <2>2 DEF Fresh, user
  <2>3. CASE ~Pending(call[c]) /\ shown'[user(c)] = shown[user(c)] /\ likes' = likes
    <3>1. \A d \in Clients : user(d) = user(c) => ~Pending(call[d])
      <4>1. \A d \in Clients : Pending(call[d]) => ~At(d, "idle")
        BY DEF Pending, Counting, At
      <4> QED  BY <1>2, <2>3, <4>1
    <3>2. user(c) \in Users
      BY Current
    <3>3. shown[user(c)] \in {None, Says(likes, user(c))}
      BY <3>1, <3>2 DEF Freshness, Fresh
    <3> QED  BY <1>5, <2>3, <3>3 DEF Fresh
  <2> QED  BY <2>1, <2>2, <2>3
<1>6. \A u \in Users : Fresh(u)'
  BY <1>4, <1>5
<1> QED  BY <1>3, <1>6 DEF Freshness

\* A call goes on without touching the table or the cached answers.
LEMMA FreshQuiet ==
  ASSUME IndInv, Apart, Freshness, NEW c \in Clients, ~At(c, "idle"), UNCHANGED <<shown, likes>>,
         NEW k, call' = [call EXCEPT ![c] = k],
         Pending(call[c]) => k.user = user(c) /\ Pending(k),
         k.pc # "show"
  PROVE  Freshness'
  BY FreshMove

LEMMA GotoFresh ==
  ASSUME IndInv, Apart, Freshness, NEW c \in Clients, ~At(c, "idle"), UNCHANGED <<shown, likes>>,
         NEW pc \in PC \ {"show"}, Goto(c, pc),
         Pending(call[c]) => pc \in Counting \cup {"clear"} /\ call[c].op = "remove"
  PROVE  Freshness'
<1> DEFINE k == [call[c] EXCEPT !.pc = pc]
<1>1. call' = [call EXCEPT ![c] = k]
  BY GotoIs
<1>2. k.pc = pc /\ k.op = call[c].op /\ k.user = user(c)
  BY Current DEF Call, user
<1> HIDE DEF k
<1> QED  BY <1>1, <1>2, FreshQuiet DEF Pending

LEMMA AnswerFresh ==
  ASSUME IndInv, Apart, Freshness, NEW c \in Clients, ~At(c, "idle"), UNCHANGED <<shown, likes>>,
         NEW answer \in {"true", "false", "error"}, Answer(c, answer), ~Pending(call[c])
  PROVE  Freshness'
<1> DEFINE k == [call[c] EXCEPT !.pc = "done", !.answer = answer]
<1>1. call' = [call EXCEPT ![c] = k]
  BY AnswerIs
<1>2. k.pc = "done"
  BY Current DEF Call
<1> HIDE DEF k
<1> QED  BY <1>1, <1>2, FreshQuiet

\* The counter's actions leave the clearing of the answer to come.
LEMMA CounterFresh ==
  ASSUME IndInv, Apart, Freshness, NEW c \in Clients, Load(c) \/ Query(c) \/ Fill(c) \/ Bump(c)
  PROVE  Freshness'
<1>1. /\ call[c].pc \in Counting /\ ~At(c, "idle") /\ UNCHANGED <<shown, likes>> /\ call[c] \in Call
      /\ Truthful(call[c], held[c], Says(likes, user(c)))
  BY Current DEF Load, Query, Fill, Bump, At, Counting
<1>2. CASE Goto(c, "query")
  BY <1>1, <1>2, GotoFresh DEF PC, Pending, Counting
<1>3. CASE Bump(c)
  <2>1. Goto(c, Counted(c)) /\ Counted(c) \in {"done", "clear", "save", "recheck"}
        /\ (call[c].op = "remove" => Counted(c) = "clear")
    BY <1>1, <1>3, CountedIs DEF Bump, At, Truthful, Counting, Call, Op
  <2> DEFINE pc == Counted(c)
  <2>2. pc \in PC \ {"show"} /\ (Pending(call[c]) => pc = "clear" /\ call[c].op = "remove")
    BY <1>1, <2>1 DEF PC, Pending, Counting
  <2>3. Goto(c, pc)
    BY <2>1
  <2> HIDE DEF pc
  <2> QED  BY <1>1, <2>2, <2>3, GotoFresh
<1>4. ASSUME NEW n \in Int, NEW pc \in {"fill", "bump", "done"}, pc = "done" => call[c].op = "count",
             call' = [call EXCEPT ![c] = [call[c] EXCEPT !.value = n, !.pc = pc]]
      PROVE  Freshness'
  <2> DEFINE k == [call[c] EXCEPT !.value = n, !.pc = pc]
  <2>1. k.pc = pc /\ k.op = call[c].op /\ k.user = user(c)
    BY <1>1 DEF Call, user
  <2>2. call' = [call EXCEPT ![c] = k]
    BY <1>4
  <2> HIDE DEF k
  <2> QED  BY <1>1, <1>4, <2>1, <2>2, FreshQuiet DEF Pending, Counting
<1>5. ASSUME NEW n \in Int, Loaded(c, n) PROVE Freshness'
  <2>1. call' = [call EXCEPT ![c] = [call[c] EXCEPT !.value = n, !.pc = IF call[c].op = "count" THEN "done" ELSE "bump"]]
    BY <1>5 DEF Loaded, IndInv, TypeOK
  <2>2. CASE call[c].op = "count"
    BY <1>4, <2>1, <2>2
  <2>3. CASE call[c].op # "count"
    BY <1>4, <2>1, <2>3
  <2> QED  BY <2>2, <2>3
<1>6. CASE count # None /\ Loaded(c, count)
  BY <1>5, <1>6 DEF IndInv, TypeOK
<1>7. Load(c) => Goto(c, "query") \/ (count # None /\ Loaded(c, count))
  BY DEF Load
<1>8. CASE Query(c)
  <2>1. call' = [call EXCEPT ![c] = [call[c] EXCEPT !.value = Cardinality(likes), !.pc = "fill"]]
    BY <1>8 DEF Query, IndInv, TypeOK
  <2> QED  BY <1>4, <2>1, CountsAreInts
<1>9. CASE Fill(c)
  BY <1>1, <1>5, <1>9 DEF Fill, Call
<1> QED  BY <1>2, <1>3, <1>6, <1>7, <1>8, <1>9

LEMMA TableFresh ==
  ASSUME IndInv, Apart, Freshness, NEW c \in Clients, Save(c) \/ Delete(c)
  PROVE  Freshness'
<1>1. /\ ~At(c, "idle") /\ UNCHANGED shown /\ call[c] \in Call
      /\ \A u \in Users \ {user(c)} : Says(likes', u) = Says(likes, u)
      /\ Truthful(call[c], held[c], Says(likes, user(c)))
  BY Current DEF Save, Delete, At, Says
<1>2. ASSUME NEW pc \in PC, Goto(c, pc), pc = "clear" \/ (pc = "load" /\ call[c].op = "remove")
      PROVE  Freshness'
  <2> DEFINE k == [call[c] EXCEPT !.pc = pc]
  <2>1. call' = [call EXCEPT ![c] = k]
    BY <1>2, GotoIs
  <2>2. k.pc = pc /\ k.op = call[c].op /\ k.user = user(c)
    BY <1>1 DEF Call, user
  <2> HIDE DEF k
  <2> QED  BY <1>1, <1>2, <2>1, <2>2, FreshMove DEF Pending, Counting
<1>3. CASE Save(c)
  BY <1>2, <1>3 DEF Save, PC
<1>4. CASE Delete(c) /\ user(c) \in likes
  BY <1>1, <1>2, <1>4 DEF Delete, Affected, At, Truthful, PC
<1>5. CASE Delete(c) /\ user(c) \notin likes
  <2>1. likes' = likes /\ Answer(c, "true") /\ ~Pending(call[c])
    BY <1>5 DEF Delete, Affected, Pending, Counting, At
  <2> QED  BY <1>1, <2>1, AnswerFresh
<1> QED  BY <1>3, <1>4, <1>5

LEMMA ClearFresh ==
  ASSUME IndInv, Apart, Freshness, NEW c \in Clients, Clear(c)
  PROVE  Freshness'
<1>1. /\ ~At(c, "idle") /\ UNCHANGED likes /\ user(c) \in Users /\ Answer(c, "true")
      /\ shown' = [shown EXCEPT ![user(c)] = None]
  BY Current DEF Clear, At, Forgotten
<1> DEFINE k == [call[c] EXCEPT !.pc = "done", !.answer = "true"]
<1>2. call' = [call EXCEPT ![c] = k]
  BY <1>1, AnswerIs
<1>3. k.pc = "done"
  BY <1>1, Current DEF Call
<1> HIDE DEF k
<1>4. shown'[user(c)] = None /\ \A u \in Users \ {user(c)} : shown'[u] = shown[u]
  BY <1>1 DEF IndInv, TypeOK
<1> QED  BY <1>1, <1>2, <1>3, <1>4, FreshMove

LEMMA ReaderFresh ==
  ASSUME IndInv, Apart, Freshness, NEW c \in Clients, Look(c) \/ Fetch(c) \/ Show(c)
  PROVE  Freshness'
<1>1. ~At(c, "idle") /\ UNCHANGED likes /\ call[c] \in Call /\ user(c) \in Users /\ ~Pending(call[c])
  BY Current DEF Look, Fetch, Show, At, Pending, Counting
<1>2. CASE Look(c)
  <2>1. PICK pc \in {"fetch", "done"} : Goto(c, pc)
    BY <1>2 DEF Look
  <2> QED  BY <1>1, <1>2, <2>1, GotoFresh DEF Look, PC
<1>3. CASE Fetch(c)
  <2> DEFINE k == [call[c] EXCEPT !.value = Says(likes, user(c)), !.pc = "show"]
  <2>1. call' = [call EXCEPT ![c] = k]
    BY <1>3 DEF Fetch, IndInv, TypeOK
  <2>2. k.user = user(c) /\ k.value = Says(likes, user(c))
    BY <1>1 DEF Call, user
  <2> HIDE DEF k
  <2>3. shown' = shown
    BY <1>3 DEF Fetch
  <2> QED  BY <1>1, <2>1, <2>2, <2>3, FreshMove
<1>4. CASE Show(c)
  <2> DEFINE k == [call[c] EXCEPT !.pc = "done"]
  <2>1. call' = [call EXCEPT ![c] = k]
    BY <1>4, GotoIs DEF Show, PC
  <2>2. k.pc = "done"
    BY <1>1 DEF Call
  <2> HIDE DEF k
  <2>3. call[c].value = Says(likes, user(c))
    BY <1>4 DEF Show, Freshness
  <2>4. shown'[user(c)] = Says(likes, user(c)) /\ \A u \in Users \ {user(c)} : shown'[u] = shown[u]
    BY <1>1, <1>4, <2>3 DEF Show, IndInv, TypeOK
  <2> QED  BY <1>1, <2>1, <2>2, <2>4, FreshMove
<1> QED  BY <1>2, <1>3, <1>4

LEMMA OtherFresh ==
  ASSUME IndInv, Apart, Freshness, NEW c \in Clients, Return(c) \/ AddRead(c) \/ Recheck(c)
  PROVE  Freshness'
<1>1. ~At(c, "idle") /\ UNCHANGED <<likes, shown>> /\ call[c] \in Call /\ ~Pending(call[c])
  BY Current DEF Return, AddRead, Recheck, At, Pending, Counting, Truthful
<1>2. CASE Return(c)
  <2>1. call' = [call EXCEPT ![c] = IdleCall] /\ IdleCall.pc # "show"
    BY <1>2 DEF Return, IdleCall
  <2> QED  BY <1>1, <2>1, FreshQuiet
<1>3. CASE Recheck(c) \/ (AddRead(c) /\ user(c) \in likes)
  <2>1. PICK answer \in {"true", "false", "error"} : Answer(c, answer)
    BY <1>3 DEF Recheck, AddRead, Rechecked
  <2> QED  BY <1>1, <2>1, AnswerFresh
<1>4. CASE AddRead(c) /\ user(c) \notin likes
  <2> DEFINE k == [call[c] EXCEPT !.pc = "load", !.up = TRUE]
  <2>1. call' = [call EXCEPT ![c] = k]
    BY <1>4 DEF AddRead, IndInv, TypeOK
  <2>2. k.pc = "load"
    BY <1>1 DEF Call
  <2> HIDE DEF k
  <2> QED  BY <1>1, <2>1, <2>2, FreshQuiet
<1> QED  BY <1>2, <1>3, <1>4

LEMMA StatementFailsFresh ==
  ASSUME IndInv, Apart, Freshness, NEW c \in Clients, StatementFails(c)
  PROVE  Freshness'
<1>1. /\ ~At(c, "idle") /\ UNCHANGED <<likes, shown>> /\ call[c] \in Call
      /\ Truthful(call[c], held[c], Says(likes, user(c)))
  BY Current DEF StatementFails, At
<1>2. call[c].pc \in {"read", "save", "delete", "recheck", "fetch", "done"} => ~Pending(call[c])
  BY DEF Pending, Counting
<1>3. CASE At(c, "query") /\ Goto(c, Counted(c))
  <2> DEFINE pc == Counted(c)
  <2>1. pc \in {"done", "clear", "save", "recheck"} /\ (call[c].op = "remove" => pc = "clear")
    BY <1>1, <1>3, CountedIs DEF At, Truthful, Call, Op
  <2>2. pc \in PC \ {"show"} /\ (Pending(call[c]) => pc = "clear" /\ call[c].op = "remove")
    BY <1>3, <2>1 DEF At, PC, Pending
  <2>3. Goto(c, pc)
    BY <1>3
  <2> HIDE DEF pc
  <2> QED  BY <1>1, <2>2, <2>3, GotoFresh
<1>4. CASE At(c, "save") /\ call' = [call EXCEPT ![c].pc = "load", ![c].up = FALSE]
  <2> DEFINE k == [call[c] EXCEPT !.pc = "load", !.up = FALSE]
  <2>1. call' = [call EXCEPT ![c] = k]
    BY <1>4 DEF IndInv, TypeOK
  <2>2. k.pc = "load"
    BY <1>1 DEF Call
  <2> HIDE DEF k
  <2> QED  BY <1>1, <1>2, <1>4, <2>1, <2>2, FreshQuiet DEF At
<1>5. ASSUME NEW pc \in {"recheck", "done"}, Goto(c, pc), call[c].pc \in {"read", "fetch", "done"} PROVE Freshness'
  BY <1>1, <1>2, <1>5, GotoFresh DEF PC
<1>6. ASSUME NEW answer \in {"false", "error"}, Answer(c, answer), call[c].pc \in {"delete", "recheck"} PROVE Freshness'
  BY <1>1, <1>2, <1>6, AnswerFresh
<1> QED  BY <1>3, <1>4, <1>5, <1>6 DEF StatementFails, At

LEMMA BeginFresh ==
  ASSUME IndInv, Freshness, NEW c \in Clients, NEW op \in Op, NEW u \in Users, Begin(c, op, u)
  PROVE  Freshness'
<1> DEFINE k == [op |-> op, user |-> u, pc |-> First(op), up |-> FALSE, value |-> 0, answer |-> "none"]
<1>1. call' = [call EXCEPT ![c] = k] /\ UNCHANGED <<likes, shown>> /\ At(c, "idle")
  BY DEF Begin
<1>2. k.pc = First(op) /\ First(op) # "show"
  BY DEF First, Op
<1> HIDE DEF k
<1>3. call'[c] = k /\ \A d \in Clients \ {c} : call'[d] = call[d] /\ user(d)' = user(d)
  BY <1>1 DEF IndInv, TypeOK, user
<1>4. \A d \in Clients : At(d, "show")' => d # c /\ At(d, "show")
  BY <1>2, <1>3 DEF At
<1>5. \A d \in Clients : Pending(call[d]) => d # c
  BY <1>1 DEF Pending, Counting, At
<1>6. ASSUME NEW v \in Users PROVE Fresh(v)'
  <2>1. CASE shown[v] \in {None, Says(likes, v)}
    BY <1>1, <2>1 DEF Fresh
  <2>2. CASE shown[v] \notin {None, Says(likes, v)}
    <3>1. PICK d \in Clients : user(d) = v /\ Pending(call[d])
      BY <2>2 DEF Freshness, Fresh
    <3>2. user(d)' = v /\ Pending(call'[d])
      BY <1>3, <1>5, <3>1
    <3> QED  BY <3>2 DEF Fresh
  <2> QED  BY <2>1, <2>2
<1> QED  BY <1>1, <1>3, <1>4, <1>6 DEF Freshness

\* An answer that is dropped is not left behind.
LEMMA DropFresh ==
  ASSUME Freshness, UNCHANGED <<likes, call>>, \A u \in Users : shown'[u] \in {shown[u], None}
  PROVE  Freshness'
<1>1. \A u \in Users : Fresh(u)'
  BY DEF Freshness, Fresh, user
<1> QED  BY <1>1 DEF Freshness, At, user

LEMMA FreshKept ==
  ASSUME SchedInv, Gentle', Next, apart, apart'
  PROVE  Freshness'
<1>1. IndInv /\ Apart /\ Freshness /\ Apart'
  BY DEF SchedInv, Gentle
<1>2. ASSUME NEW c \in Clients, Serve(c) \/ StatementFails(c) PROVE Freshness'
  BY <1>1, <1>2, CounterFresh, TableFresh, ClearFresh, ReaderFresh, OtherFresh, StatementFailsFresh DEF Serve
<1>3. ASSUME NEW c \in Clients, CacheFails(c) \/ Crash(c) PROVE FALSE
  <2>1. CASE CacheFails(c)
    <3>1. spent'["cache"] = spent["cache"] + 1 /\ spent["cache"] \in Nat
      BY <1>1, <2>1, Spends, BoundNames DEF CacheFails
    <3> QED  BY <1>1, <3>1 DEF Apart
  <2>2. CASE Crash(c)
    <3>1. spent'["crashes"] = spent["crashes"] + 1 /\ spent["crashes"] \in Nat
      BY <1>1, <2>2, Spends, BoundNames DEF Crash
    <3> QED  BY <1>1, <3>1 DEF Apart
  <2> QED  BY <1>3, <2>1, <2>2
<1>4. ASSUME NEW u \in Users, Consume(u) PROVE Freshness'
  <2>1. \A v \in Users : shown'[v] \in {shown[v], None}
    BY <1>1, <1>4 DEF Consume, Forgotten, IndInv, TypeOK
  <2> QED  BY <1>1, <1>4, <2>1, DropFresh DEF Consume
<1>5. CASE Expire
  <2>1. \A v \in Users : shown'[v] \in {shown[v], None}
    BY <1>1, <1>5 DEF Expire, IndInv, TypeOK
  <2> QED  BY <1>1, <1>5, <2>1, DropFresh DEF Expire
<1>6. ASSUME NEW c \in Clients, NEW op \in Op, NEW u \in Users, Begin(c, op, u) PROVE Freshness'
  BY <1>1, <1>6, BeginFresh
<1> QED  BY <1>2, <1>3, <1>4, <1>5, <1>6 DEF Next

-----------------------------------------------------------------------------
LEMMA SchedInitHolds == ScheduledInit => SchedInv
<1> SUFFICES ASSUME ScheduledInit PROVE SchedInv
  OBVIOUS
<1>1. Init /\ IndInv
  BY InitHolds DEF ScheduledInit
<1>2. \A c \in Clients : call[c].pc = "idle" /\ ~call[c].up
  BY <1>1 DEF Init, IdleCall
<1>3. Busy = {} /\ IsFiniteSet(Busy) /\ Cardinality(Busy) = 0
  <2>1. Busy = {}
    BY <1>2 DEF Busy, At
  <2> QED  BY <2>1, FS_EmptySet
<1>4. Warm
  BY <1>3 DEF Warm
<1>5. Apart
  <2>1. spent["cache"] = 0 /\ spent["crashes"] = 0
    BY <1>1, BoundNames DEF Init
  <2> QED  BY <1>3, <2>1 DEF Apart
<1>6. Counts
  BY <1>1, <1>2 DEF Counts, Placed, At, Uncounted, Counting, Init
<1>7. Freshness
  BY <1>1, <1>2 DEF Freshness, Fresh, At, Init
<1> QED  BY <1>1, <1>3, <1>4, <1>5, <1>6, <1>7 DEF SchedInv, Gentle

\* At most one more call is in hand after a step.
LEMMA BusyStaysFinite == IndInv /\ IsFiniteSet(Busy) /\ Next => IsFiniteSet(Busy')
<1> SUFFICES ASSUME IndInv, IsFiniteSet(Busy), Next PROVE IsFiniteSet(Busy')
  OBVIOUS
<1>1. CASE UNCHANGED call
  BY <1>1 DEF Busy, At
<1>2. ASSUME NEW c \in Clients, \A d \in Clients \ {c} : call'[d] = call[d]
      PROVE  IsFiniteSet(Busy')
  <2>1. Busy' \subseteq Busy \cup {c}
    BY <1>2 DEF Busy, At
  <2>2. IsFiniteSet(Busy \cup {c})
    BY FS_AddElement
  <2> QED  BY <2>1, <2>2, FS_Subset
<1>3. ASSUME NEW c \in Clients, Serve(c) PROVE \A d \in Clients \ {c} : call'[d] = call[d]
  BY <1>3 DEF Serve, Load, Query, Fill, Bump, AddRead, Save, Recheck, Delete, Clear, Look, Fetch, Show, Return,
     Goto, Answer, Loaded, IndInv, TypeOK
<1>4. ASSUME NEW c \in Clients, StatementFails(c) \/ CacheFails(c) \/ Crash(c)
      PROVE  \A d \in Clients \ {c} : call'[d] = call[d]
  BY <1>4 DEF StatementFails, CacheFails, Crash, Goto, Answer, IndInv, TypeOK
<1>5. ASSUME NEW c \in Clients, NEW op \in Op, NEW u \in Users, Begin(c, op, u)
      PROVE  \A d \in Clients \ {c} : call'[d] = call[d]
  BY <1>5 DEF Begin, IndInv, TypeOK
<1>6. (\E u \in Users : Consume(u)) \/ Expire => UNCHANGED call
  BY DEF Consume, Expire
<1> QED  BY <1>1, <1>2, <1>3, <1>4, <1>5, <1>6 DEF Next

LEMMA SchedStepKeeps == SchedInv /\ [ScheduledNext]_mcVars => SchedInv'
<1> SUFFICES ASSUME SchedInv, [ScheduledNext]_mcVars PROVE SchedInv'
  OBVIOUS
<1>1. IndInv /\ Gentle
  BY DEF SchedInv
<1>2. CASE Next /\ ScheduledNext
  <2>1. UNCHANGED apart /\ Warm' /\ (apart => Apart') /\ (spent'.expiries # spent.expiries => Busy = {})
    BY <1>2 DEF ScheduledNext, RestNext, MCNext
  <2>2. IndInv'
    BY <1>1, <1>2, StepKeeps
  <2>3. Gentle'
    BY <1>1, <1>2, <2>1, BusyStaysFinite DEF Gentle
  <2>4. FewFailures' => Counts'
    BY <1>2, <2>1, <2>3, CountsKept
  <2>5. apart' => Freshness'
    BY <1>2, <2>1, <2>3, FreshKept
  <2> QED  BY <2>2, <2>3, <2>4, <2>5 DEF SchedInv
<1>3. CASE UNCHANGED mcVars
  <2>1. IndInv'
    BY <1>1, <1>3, StepKeeps DEF mcVars
  <2>2. UNCHANGED <<likes, count, shown, messages, call, held, spent, apart>>
    BY <1>3 DEF mcVars, vars
  <2>3. Gentle'
    BY <1>1, <2>2 DEF Gentle, Warm, Refilling, Apart, Busy, At, user
  <2>4. Counts => Counts'
    BY <2>2 DEF Counts, Placed, Owed, Debt, At, user, InBatch
  <2>5. Freshness => Freshness'
    BY <2>2 DEF Freshness, Fresh, At, user
  <2> QED  BY <2>1, <2>2, <2>3, <2>4, <2>5 DEF SchedInv, FewFailures
<1> QED  BY <1>2, <1>3 DEF ScheduledNext, RestNext, MCNext, Finished, mcVars

LEMMA SchedInvariant == ScheduledSpec => []SchedInv
<1> QED  BY SchedInitHolds, SchedStepKeeps, PTL DEF ScheduledSpec

\* What is owed when everything is at rest.
LEMMA NothingOwed == IndInv /\ AtRest => Cardinality(Debt) = 0 /\ Cardinality(likes) \in Nat
<1> SUFFICES ASSUME IndInv, AtRest PROVE Cardinality(Debt) = 0 /\ Cardinality(likes) \in Nat
  OBVIOUS
<1>1. Debt = {}
  BY DEF Debt, AtRest, At, Uncounted, Counting
<1> QED  BY <1>1, FS_EmptySet, LikesMove

\* The counter is exact after calls that stay apart (addLike, removeLike and the reader
\* of the count), with at most one statement that fails.
THEOREM CounterStaysExact == ScheduledSpec => []ExactWhenApart
<1>1. SchedInv => ExactWhenApart
  <2> SUFFICES ASSUME SchedInv, apart, spent.failures <= 1, AtRest PROVE count \in {None, Cardinality(likes)}
    BY DEF ExactWhenApart, CountIsExact
  <2>1. IndInv /\ Counts
    BY DEF SchedInv, Gentle, Apart, FewFailures
  <2>2. Cardinality(Debt) = 0 /\ Cardinality(likes) \in Nat
    BY <2>1, NothingOwed
  <2> QED  BY <2>1, <2>2 DEF Counts, Owed
<1> QED  BY <1>1, SchedInvariant, PTL

\* No like in the table goes uncounted, however calls meet, wherever they are cut off
\* and also when the calls of one user meet.
THEOREM NoLikeUncounted == ScheduledSpec => []LikesAreCounted
<1>1. SchedInv => LikesAreCounted
  <2> SUFFICES ASSUME SchedInv, AtRest, spent.cache = 0, spent.failures <= 1
               PROVE  count = None \/ count >= Cardinality(likes)
    BY DEF LikesAreCounted
  <2>1. IndInv /\ Counts
    BY DEF SchedInv, FewFailures
  <2>2. Cardinality(Debt) = 0 /\ Cardinality(likes) \in Nat
    BY <2>1, NothingOwed
  <2> QED  BY <2>1, <2>2 DEF Counts, Owed
<1> QED  BY <1>1, SchedInvariant, PTL

\* No cached answer is left behind by calls that stay apart, whatever statements fail.
THEOREM AnswersStayFresh == ScheduledSpec => []FreshWhenApart
<1>1. SchedInv => FreshWhenApart
  <2> SUFFICES ASSUME SchedInv, apart, AtRest, NEW u \in Users PROVE shown[u] \in {None, Says(likes, u)}
    BY DEF FreshWhenApart, ShownIsFresh
  <2>1. Fresh(u)
    BY DEF SchedInv, Freshness
  <2>2. \A c \in Clients : ~Pending(call[c])
    BY DEF AtRest, At, Pending, Counting
  <2> QED  BY <2>1, <2>2 DEF Fresh
<1> QED  BY <1>1, SchedInvariant, PTL
=============================================================================
