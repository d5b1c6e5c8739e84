------------------------- MODULE StateQueries_proofs --------------------------
(***************************************************************************)
(* Theorems about StateQueries: for any names, variables and callbacks,    *)
(* any size of the registry and any contents.                              *)
(***************************************************************************)
EXTENDS StateQueries, SequenceTheorems, WellFoundedInduction, TLAPS

-----------------------------------------------------------------------------
(* The registry: where a name is entered, and where first.                 *)
Places(s, n) == {i \in DOMAIN s : s[i].name = n}
IsFirst(s, n, i) == i \in Places(s, n) /\ \A j \in Places(s, n) : i <= j
First(s, n) == CHOOSE i \in Places(s, n) : \A j \in Places(s, n) : i <= j

(* A name that is entered has a first place, and it leads to a variable.   *)
LEMMA FirstPlace ==
  ASSUME NEW s \in Seq(Entries), NEW n, Places(s, n) # {}
  PROVE  /\ IsFirst(s, n, First(s, n))
         /\ First(s, n) \in 1..Len(s)
         /\ s[First(s, n)].ptr \in Variables
  <1>1. DOMAIN s = 1..Len(s) /\ Len(s) \in Nat
    BY LenProperties
  <1>2. Places(s, n) \in SUBSET Nat
    BY <1>1 DEF Places
  <1>3. PICK x \in Places(s, n) :
          \A y \in Places(s, n) : ~(<<y, x>> \in OpToRel(<, Nat))
    BY <1>2, WFMin, NatLessThanWellFounded, Zenon
  <1>4. \A y \in Places(s, n) : ~(y < x)
    BY <1>2, <1>3, Zenon DEF OpToRel
  <1>5. \A y \in Places(s, n) : x <= y
    BY <1>2, <1>4
  <1>6. IsFirst(s, n, First(s, n))
    BY <1>5, Zenon DEF First, IsFirst
  <1>7. First(s, n) \in 1..Len(s)
    BY <1>1, <1>6 DEF IsFirst, Places
  <1>8. s[First(s, n)] \in Entries
    BY <1>7, ElementOfSeq
  <1>9. QED
    BY <1>6, <1>7, <1>8 DEF Entries

(* So handle_query_state() finds a variable for a name that is entered.    *)
LEMMA MatchFound ==
  ASSUME exposed_states \in Seq(Entries), NEW n, Named(n) # {}
  PROVE  FirstMatch(n) \in Variables /\ Bound(n) = FirstMatch(n)
  <1>1. Places(exposed_states, n) = Named(n)
    BY DEF Places, Named
  <1>2. FirstMatch(n) = exposed_states[First(exposed_states, n)].ptr
    BY Zenon DEF FirstMatch, First, Places, Named
  <1>3. QED
    BY <1>1, <1>2, FirstPlace DEF Bound

(* There is only one first place.                                          *)
LEMMA FirstUnique ==
  ASSUME NEW s \in Seq(Entries), NEW n, NEW i, IsFirst(s, n, i)
  PROVE  First(s, n) = i
  <1>1. IsFirst(s, n, First(s, n)) /\ First(s, n) \in 1..Len(s)
    BY FirstPlace DEF IsFirst
  <1>2. i \in 1..Len(s) /\ Len(s) \in Nat
    BY LenProperties DEF IsFirst, Places
  <1>3. i <= First(s, n) /\ First(s, n) <= i
    BY <1>1 DEF IsFirst
  <1>4. QED
    BY <1>1, <1>2, <1>3

(* An entry more leaves the first place of a name where it is, if it has   *)
(* one, and gives one to no name but its own.                              *)
LEMMA Entered ==
  ASSUME NEW s \in Seq(Entries), NEW e \in Entries, NEW n
  PROVE  /\ Places(s, n) # {} =>
              /\ Places(Append(s, e), n) # {}
              /\ Append(s, e)[First(Append(s, e), n)] = s[First(s, n)]
         /\ Places(s, n) = {} /\ e.name # n => Places(Append(s, e), n) = {}
         /\ Places(s, n) = {} /\ e.name = n =>
              /\ Places(Append(s, e), n) # {}
              /\ Append(s, e)[First(Append(s, e), n)] = e
  <1> DEFINE t == Append(s, e)
  <1>1. /\ DOMAIN s = 1..Len(s) /\ Len(s) \in Nat
        /\ t \in Seq(Entries) /\ DOMAIN t = 1..(Len(s) + 1)
        /\ t[Len(s) + 1] = e
        /\ \A j \in 1..Len(s) : t[j] = s[j]
    BY LenProperties, AppendProperties
  <1> HIDE DEF t
  <1>2. Places(t, n) = Places(s, n)
                         \cup (IF e.name = n THEN {Len(s) + 1} ELSE {})
    BY <1>1 DEF Places
  <1>3. ASSUME Places(s, n) # {}
        PROVE  t[First(t, n)] = s[First(s, n)]
    <2>1. IsFirst(s, n, First(s, n)) /\ First(s, n) \in 1..Len(s)
      BY <1>3, FirstPlace
    <2>2. IsFirst(t, n, First(s, n))
      BY <1>1, <1>2, <2>1 DEF IsFirst
    <2>3. First(t, n) = First(s, n)
      BY <1>1, <2>2, FirstUnique
    <2>4. QED
      BY <1>1, <2>1, <2>3
  <1>4. ASSUME Places(s, n) = {}, e.name = n
        PROVE  t[First(t, n)] = e
    <2>1. IsFirst(t, n, Len(s) + 1)
      BY <1>1, <1>2, <1>4 DEF IsFirst
    <2>2. First(t, n) = Len(s) + 1
      BY <1>1, <2>1, FirstUnique
    <2>3. QED
      BY <1>1, <2>2
  <1>5. QED
    BY <1>2, <1>3, <1>4 DEF t
-----------------------------------------------------------------------------
(* Answers.                                                                *)

(* A string that is exposed fits the lengths it is sent with.              *)
LEMMA LengthsFit ==
  ASSUME NEW n \in StringLengths
  PROVE  n \in Nat /\ uint16(n) = n /\ uint16(1 + n + 1) = n + 2
  <1>1. n \in Nat /\ n + 2 < Word /\ Word \in Nat
    BY StringsShort, StateQueriesAssumption
  <1>2. \A k \in Nat : k < Word => k % Word = k
    BY <1>1
  <1>3. QED
    BY <1>1, <1>2 DEF uint16

(* What is sent for a content reports that content.                        *)
LEMMA Sent ==
  ASSUME NEW c \in AllContents, c # Nil
  PROVE  SendState(c) \in Replies /\ <<c, SendState(c)>> \in Faithful
  <1>1. PICK t \in Types : c \in ContentsOf(t)
    BY DEF AllContents
  <1>2. CASE t = "STRING"
    <2>1. PICK n \in StringLengths : c = Content("STRING", n)
      BY <1>1, <1>2 DEF ContentsOf
    <2>2. c.type = "STRING" /\ c.v = n /\ [c EXCEPT !.v = n] = c
      BY <2>1 DEF Content
    <2>3. Failure \in Replies /\ Reply("STATE_VALUE", c) \in Replies
      BY Zenon DEF Replies
    <2>4. CASE n + 2 > MaxStateString
      <3>1. SendState(c) = Failure
        BY <2>2, <2>4, LengthsFit DEF SendState, SendStateString
      <3>2. c \in TooLong
        BY <2>1, <2>4 DEF TooLong
      <3>3. <<c, Failure>> \in Faithful
        BY <3>2, Zenon DEF Faithful
      <3>4. QED
        BY <2>3, <3>1, <3>3
    <2>5. CASE ~(n + 2 > MaxStateString)
      <3>1. SendState(c) = Reply("STATE_VALUE", c)
        BY <2>2, <2>5, LengthsFit DEF SendState, SendStateString
      <3>2. c \notin TooLong
        BY <2>2, <2>5 DEF TooLong, Content
      <3>3. <<c, Reply("STATE_VALUE", c)>> \in Faithful
        BY <3>2, Zenon DEF Faithful
      <3>4. QED
        BY <2>3, <3>1, <3>3
    <2>6. QED
      BY <2>4, <2>5
  <1>3. CASE t # "STRING"
    <2>1. c.type = t
      BY <1>1 DEF ContentsOf, Content
    <2>2. SendState(c) = Reply("STATE_VALUE", c)
      BY <1>3, <2>1 DEF SendState
    <2>3. <<c, Reply("STATE_VALUE", c)>> \in Faithful
      <3>1. c \notin TooLong
        BY <1>3, <2>1 DEF TooLong, Content
      <3>2. QED
        BY <3>1, Zenon DEF Faithful
    <2>4. Reply("STATE_VALUE", c) \in Replies
      BY Zenon DEF Replies
    <2>5. QED
      BY <2>2, <2>3, <2>4
  <1>4. QED
    BY <1>2, <1>3

(* What a variable holds is a content, and never Nil.                      *)
LEMMA VariablesHold ==
  ASSUME TypeOK, NEW x \in Variables
  PROVE  x \in Sources /\ memory[x] \in AllContents /\ memory[x] # Nil
  <1>1. x \in Sources /\ memory[x] \in MayHold(x) /\ memory[x] \in AllContents
    BY DEF TypeOK, Sources
  <1>2. TypeOf[x] \in Types
    BY StateQueriesAssumption
  <1>3. memory[x] \in ContentsOf(TypeOf[x])
    BY <1>1 DEF MayHold
  <1>4. memory[x].type = TypeOf[x]
    BY <1>3 DEF ContentsOf, Content
  <1>5. Nil.type = "NIL"
    BY DEF Nil, Content
  <1>6. QED
    BY <1>1, <1>2, <1>4, <1>5 DEF Types

(* What a source of a name holds, or NoSource when it has none.            *)
HeldBy(n) == IF Bound(n) = NoSource THEN NoSource ELSE memory[Bound(n)]

(* A query is answered by what its name stands for.                        *)
LEMMA Answered ==
  ASSUME TypeOK, NEW n \in Names
  PROVE  /\ HandleQueryState(n) \in Replies
         /\ <<HeldBy(n), HandleQueryState(n)>> \in Faithful
  <1> USE StateQueriesAssumption
  <1>1. NotFound \in Replies
    BY Zenon DEF Replies
  <1>2. <<Nil, NotFound>> \in Faithful /\ <<NoSource, NotFound>> \in Faithful
    BY Zenon DEF Faithful
  <1>3. exposed_states \in Seq(Entries)
    BY DEF TypeOK
  <1>4. CASE Named(n) # {}
    <2>1. /\ FirstMatch(n) \in Variables
          /\ Bound(n) = FirstMatch(n)
      BY <1>3, <1>4, MatchFound
    <2>2. HeldBy(n) = memory[FirstMatch(n)]
      BY <2>1 DEF HeldBy
    <2>3. HandleQueryState(n) = SendState(memory[FirstMatch(n)])
      BY <1>4 DEF HandleQueryState
    <2>4. QED
      BY <2>1, <2>2, <2>3, VariablesHold, Sent
  <1>5. CASE Named(n) = {} /\ state_query_hook /\ Loaded
    <2>1. /\ HandleQueryState(n) = StateQueryHook(n)
          /\ Bound(n) = callbacks[n]
      BY <1>5 DEF HandleQueryState, Bound
    <2>2. CASE callbacks[n] = NoSource
      <3>1. HandleQueryState(n) = NotFound /\ HeldBy(n) = NoSource
        BY <2>1, <2>2 DEF StateQueryHook, Dispatch, HeldBy
      <3>2. QED
        BY <1>1, <1>2, <3>1
    <2>3. CASE callbacks[n] # NoSource
      <3>1. /\ Dispatch(n) = memory[callbacks[n]]
            /\ HeldBy(n) = memory[callbacks[n]]
        BY <1>5, <2>1, <2>3 DEF Dispatch, HeldBy
      <3>2. callbacks[n] \in Callbacks
        BY <2>3 DEF TypeOK
      <3>3. memory[callbacks[n]] \in AllContents
        BY <3>2 DEF TypeOK, Sources
      <3>4. HandleQueryState(n) = IF memory[callbacks[n]] = Nil THEN NotFound
                                  ELSE SendState(memory[callbacks[n]])
        BY <2>1, <3>1 DEF StateQueryHook
      <3>5. CASE memory[callbacks[n]] = Nil
        BY <1>1, <1>2, <3>1, <3>4, <3>5
      <3>6. CASE memory[callbacks[n]] # Nil
        BY <3>1, <3>3, <3>4, <3>6, Sent
      <3>7. QED
        BY <3>5, <3>6
    <2>4. QED
      BY <2>2, <2>3
  <1>6. CASE Named(n) = {} /\ ~(state_query_hook /\ Loaded)
    <2>1. HandleQueryState(n) = NotFound
      BY <1>6 DEF HandleQueryState, StateQueryHook, Dispatch
    <2>2. HeldBy(n) = NoSource
      BY <1>6 DEF HeldBy, Bound
    <2>3. QED
      BY <1>1, <1>2, <2>1, <2>2
  <1>7. QED
    BY <1>4, <1>5, <1>6
-----------------------------------------------------------------------------
(* The invariant.                                                          *)

(* A query that runs has a name; only a Lua game has the extension, whose  *)
(* hook is then in place; the calls counted are the entries; and a name    *)
(* promised is entered in the registry or is behind the hook.              *)
QueryInv == Running => query.name \in Names
HookInv  == stage \in {"initLua", "imported"} => lua /\ state_query_hook
CallsInv == calls = Len(exposed_states)
PromisedInv ==
  \A n \in promised :
    \/ Named(n) # {}
    \/ state_query_hook /\ Loaded /\ callbacks[n] # NoSource
QueriesInv == TypeOK /\ QueryInv /\ HookInv /\ CallsInv /\ PromisedInv

QueryRecords ==
  [call : Calls \cup {"none"}, name : Names \cup {NoSource},
   phase : Phases, reply : Replies, polls : Nat]

(* TypeOK in three parts.                                                  *)
RegistryTypes ==
  /\ lua \in BOOLEAN /\ stage \in Stages
  /\ exposed_states \in Seq(Entries)
  /\ Len(exposed_states) <= MaxExposedStates
  /\ state_query_hook \in BOOLEAN
  /\ callbacks \in [Names -> Callbacks \cup {NoSource}]
  /\ calls \in Nat /\ promised \in SUBSET Names
MemoryTypes ==
  /\ memory \in [Sources -> AllContents]
  /\ \A s \in Sources : memory[s] \in MayHold(s)
QueryTypes ==
  /\ query \in QueryRecords
  /\ query.phase = "asked" => query.name \in Names

(* The parts of the type invariant.                                        *)
LEMMA Parts == TypeOK <=> RegistryTypes /\ MemoryTypes /\ QueryTypes
  BY Zenon DEF TypeOK, RegistryTypes, MemoryTypes, QueryTypes, QueryRecords

(* Before the module is initialised.                                       *)
LEMMA InitHolds == Init => QueriesInv
  <1> SUFFICES ASSUME Init  PROVE QueriesInv
    OBVIOUS
  <1> USE StateQueriesAssumption
  <1>1. /\ exposed_states \in Seq(Entries) /\ Len(exposed_states) = 0
        /\ calls = 0
    BY DEF Init
  <1>2. NotFound \in Replies
    BY Zenon DEF Replies
  <1>3. query \in QueryRecords /\ query.phase = "none"
    BY <1>2 DEF Init, NoQuery, QueryRecords, Phases
  <1>4. TypeOK
    <2>1. RegistryTypes
      <3>1. Len(exposed_states) <= MaxExposedStates /\ calls \in Nat
        BY <1>1
      <3>2. callbacks \in [Names -> Callbacks \cup {NoSource}]
        BY DEF Init
      <3>3. /\ lua \in BOOLEAN /\ state_query_hook \in BOOLEAN
            /\ stage \in Stages /\ promised \in SUBSET Names
        BY Zenon DEF Init, Stages
      <3>4. QED
        BY <1>1, <3>1, <3>2, <3>3 DEF RegistryTypes
    <2>2. MemoryTypes
      BY DEF Init, MemoryTypes
    <2>3. QueryTypes
      BY <1>3 DEF QueryTypes
    <2>4. QED
      BY <2>1, <2>2, <2>3, Parts
  <1>5. QED
    BY <1>1, <1>3, <1>4
       DEF Init, QueriesInv, QueryInv, HookInv, CallsInv, PromisedInv, Running

(* What starts the game.                                                   *)
LEMMA StartHolds ==
  ASSUME QueriesInv, EventInit \/ Import \/ \E ok \in BOOLEAN : EventInitLua(ok)
  PROVE  QueriesInv'
  <1> USE StateQueriesAssumption DEF QueriesInv
  <1>1. CASE EventInit
    <2>1. exposed_states' \in Seq(Entries) /\ Len(exposed_states') = 0
      BY <1>1 DEF EventInit
    <2>2. query' \in QueryRecords /\ QueryInv' /\ query'.phase # "asked"
      BY <1>1 DEF EventInit, TypeOK, QueryInv, QueryRecords, Phases, Running
    <2>3. TypeOK'
      <3>1. RegistryTypes'
        <4>1. Len(exposed_states') <= MaxExposedStates /\ calls' \in Nat
          BY <1>1, <2>1 DEF EventInit
        <4>2. /\ lua' \in BOOLEAN /\ state_query_hook' \in BOOLEAN
              /\ stage' \in Stages /\ promised' \in SUBSET Names
          BY <1>1, Zenon DEF EventInit, TypeOK, Stages
        <4>3. callbacks' \in [Names -> Callbacks \cup {NoSource}]
          BY <1>1 DEF EventInit
        <4>4. QED
          BY <2>1, <4>1, <4>2, <4>3 DEF RegistryTypes
      <3>2. MemoryTypes'
        BY <1>1, Parts DEF EventInit, MemoryTypes
      <3>3. QueryTypes'
        BY <2>2 DEF QueryTypes
      <3>4. QED
        BY <3>1, <3>2, <3>3, Zenon
           DEF TypeOK, RegistryTypes, MemoryTypes, QueryTypes, QueryRecords
    <2>4. QED
      BY <1>1, <2>1, <2>2, <2>3 DEF EventInit, HookInv, CallsInv, PromisedInv
  <1>2. CASE Import
    <2>1. TypeOK' /\ QueryInv' /\ HookInv' /\ CallsInv'
      BY <1>2 DEF Import, TypeOK, QueryInv, HookInv, CallsInv, Stages, Running
    <2>2. PromisedInv'
      <3>1. \A m : Named(m)' = Named(m)
        BY <1>2 DEF Import, Named
      <3>2. stage = "initLua" /\ lua /\ promised' = promised
        BY <1>2 DEF Import, HookInv
      <3>3. \A n \in promised : Named(n) # {}
        BY <3>2 DEF PromisedInv, Loaded
      <3>4. QED
        BY <3>1, <3>2, <3>3 DEF PromisedInv
    <2>3. QED
      BY <2>1, <2>2
  <1>3. ASSUME NEW ok \in BOOLEAN, EventInitLua(ok)  PROVE QueriesInv'
    <2>1. TypeOK' /\ QueryInv' /\ HookInv' /\ CallsInv'
      BY <1>3 DEF EventInitLua, TypeOK, QueryInv, HookInv, CallsInv, Stages,
                  Running
    <2>2. PromisedInv'
      BY <1>3 DEF EventInitLua, PromisedInv, Named, Loaded
    <2>3. QED
      BY <2>1, <2>2
  <1>4. QED
    BY <1>1, <1>2, <1>3

(* What a game exposes.                                                    *)
LEMMA ExposeHolds ==
  ASSUME QueriesInv, NEW n \in Names, NEW x \in Variables, Expose(n, x)
  PROVE  QueriesInv'
  <1> USE StateQueriesAssumption DEF QueriesInv
  <1> DEFINE e == [name |-> n, ptr |-> x]
  <1>1. e \in Entries
    BY DEF Entries
  <1>2. exposed_states \in Seq(Entries) /\ Len(exposed_states) \in Nat
    BY LenProperties DEF TypeOK
  <1>3. UNCHANGED <<lua, stage, state_query_hook, callbacks, memory, query>>
    BY DEF Expose
  <1>4. QueryInv' /\ HookInv'
    BY <1>3 DEF QueryInv, HookInv, Running
  <1>5. CASE Room
    <2>1. /\ exposed_states' = Append(exposed_states, e)
          /\ calls' = calls + 1 /\ promised' = promised \cup {n}
      BY <1>5 DEF Expose, Room, CallsInv
    <2>2. /\ exposed_states' \in Seq(Entries)
          /\ Len(exposed_states') = Len(exposed_states) + 1
      BY <1>1, <1>2, <2>1, AppendProperties
    <2>3. TypeOK' /\ CallsInv'
      BY <1>2, <1>3, <1>5, <2>1, <2>2 DEF TypeOK, CallsInv, Room
    <2>4. \A m : /\ Named(m) # {} => Named(m)' # {}
                 /\ m = n => Named(m)' # {}
      BY <1>1, <1>2, <2>1, Entered DEF Named, Places
    <2>5. PromisedInv'
      <3> HIDE DEF e
      <3>1. SUFFICES ASSUME NEW m \in promised'
                     PROVE  \/ Named(m)' # {}
                            \/ state_query_hook' /\ Loaded' /\ callbacks'[m] # NoSource
        BY DEF PromisedInv
      <3>2. CASE m = n
        BY <2>4, <3>2
      <3>3. CASE m \in promised
        BY <1>3, <2>4, <3>3 DEF PromisedInv, Loaded
      <3>4. QED
        BY <2>1, <3>2, <3>3
    <2>6. QED
      BY <1>4, <2>3, <2>5
  <1>6. CASE ~Room
    <2>1. UNCHANGED <<exposed_states, calls, promised>>
      BY <1>2, <1>6 DEF Expose, Room, CallsInv
    <2>2. TypeOK' /\ CallsInv'
      BY <1>3, <2>1 DEF TypeOK, CallsInv
    <2>3. PromisedInv'
      BY <1>3, <2>1 DEF PromisedInv, Named, Loaded
    <2>4. QED
      BY <1>4, <2>2, <2>3
  <1>7. QED
    BY <1>5, <1>6

(* What a Lua game exposes or withdraws.                                   *)
LEMMA LuaExposeHolds ==
  ASSUME QueriesInv, NEW n \in Names, NEW cb \in Callbacks \cup {NoSource},
         LuaExpose(n, cb)
  PROVE  QueriesInv'
  <1> USE StateQueriesAssumption DEF QueriesInv, LuaExpose
  <1>1. TypeOK'
    BY DEF TypeOK
  <1>2. QueryInv' /\ HookInv' /\ CallsInv'
    BY DEF QueryInv, HookInv, CallsInv, Running
  <1>3. \A m \in Names : Named(m)' = Named(m)
    BY DEF Named
  <1>4. \A m \in Names : callbacks'[m] = IF m = n THEN cb ELSE callbacks[m]
    BY DEF TypeOK
  <1>5. state_query_hook' /\ Loaded'
    BY DEF HookInv, Loaded
  <1>6. ASSUME NEW m \in promised'
        PROVE  Named(m)' # {} \/ callbacks'[m] # NoSource
    <2>1. m \in Names
      BY <1>1, <1>6 DEF TypeOK
    <2>2. CASE m = n
      BY <1>3, <1>4, <1>6, <2>1, <2>2
    <2>3. CASE m # n
      <3>1. m \in promised
        BY <1>6, <2>3
      <3>2. QED
        BY <1>3, <1>4, <2>1, <2>3, <3>1 DEF PromisedInv
    <2>4. QED
      BY <2>2, <2>3
  <1>7. PromisedInv'
    BY <1>5, <1>6 DEF PromisedInv
  <1>8. QED
    BY <1>1, <1>2, <1>7

(* A hook that a C game sets.                                              *)
LEMMA SetHookHolds ==
  ASSUME QueriesInv, NEW set \in BOOLEAN,
         NEW hook \in [Names -> Callbacks \cup {NoSource}], SetHook(set, hook)
  PROVE  QueriesInv'
  <1> USE DEF QueriesInv, SetHook
  <1>1. TypeOK'
    BY DEF TypeOK
  <1>2. QueryInv' /\ HookInv' /\ CallsInv'
    BY DEF QueryInv, HookInv, CallsInv, Running
  <1>3. \A m \in Names : Named(m)' = Named(m)
    BY DEF Named
  <1>4. Loaded'
    BY DEF Loaded
  <1>5. ASSUME NEW m \in promised'
        PROVE  \/ Named(m)' # {}
               \/ state_query_hook' /\ Loaded' /\ callbacks'[m] # NoSource
    <2>1. m \in Names
      BY <1>1, <1>5 DEF TypeOK
    <2>2. Named(m) # {} \/ hook[m] # NoSource
      BY <1>5
    <2>3. QED
      BY <1>3, <1>4, <2>1, <2>2
  <1>6. PromisedInv'
    BY <1>5 DEF PromisedInv
  <1>7. QED
    BY <1>1, <1>2, <1>6

(* What a source holds, and what becomes of the query, touches nothing     *)
(* else.                                                                   *)
LEMMA RestHolds ==
  ASSUME QueriesInv, UNCHANGED gameVars, MemoryTypes', QueryTypes', QueryInv'
  PROVE  QueriesInv'
  <1>1. TypeOK'
    <2>1. RegistryTypes'
      BY Zenon DEF QueriesInv, TypeOK, RegistryTypes, gameVars
    <2>2. QED
      BY <2>1, Zenon
         DEF TypeOK, RegistryTypes, MemoryTypes, QueryTypes, QueryRecords
  <1>2. HookInv' /\ CallsInv'
    BY DEF QueriesInv, HookInv, CallsInv, gameVars
  <1>3. PromisedInv'
    <2>1. \A n : Named(n)' = Named(n)
      BY DEF Named, gameVars
    <2>2. QED
      BY <2>1 DEF QueriesInv, PromisedInv, gameVars, Loaded
  <1>4. QED
    BY <1>1, <1>2, <1>3 DEF QueriesInv

(* A variable keeps its type.                                              *)
LEMMA ChangeHolds ==
  ASSUME QueriesInv, NEW s \in Sources, NEW c \in MayHold(s), Change(s, c)
  PROVE  QueriesInv'
  <1>1. c \in AllContents
    <2>1. CASE s \in Variables
      BY <2>1, StateQueriesAssumption DEF MayHold, AllContents
    <2>2. CASE s \notin Variables
      BY <2>2 DEF MayHold
    <2>3. QED
      BY <2>1, <2>2
  <1>2. memory' = [memory EXCEPT ![s] = c] /\ memory \in [Sources -> AllContents]
    BY DEF Change, QueriesInv, TypeOK
  <1>3. memory' \in [Sources -> AllContents]
    BY <1>1, <1>2
  <1>4. \A x \in Sources : memory'[x] \in MayHold(x)
    BY <1>2 DEF QueriesInv, TypeOK
  <1>5. UNCHANGED gameVars /\ query' = query
    BY DEF Change
  <1>6. QueryTypes' /\ QueryInv'
    BY <1>5, Zenon
       DEF QueriesInv, TypeOK, QueryTypes, QueryInv, Running, QueryRecords
  <1>7. MemoryTypes'
    BY <1>3, <1>4, Zenon DEF MemoryTypes, Sources, MayHold, ContentsOf
  <1>8. QED
    BY <1>5, <1>6, <1>7, RestHolds

(* A query is asked, answered, and ends.                                   *)
LEMMA QueryHolds ==
  ASSUME QueriesInv,
         \/ \E call \in Calls, n \in Names : Ask(call, n)
         \/ Answer \/ Receive \/ TimesOut
         \/ \E satisfied, expired \in BOOLEAN : Poll(satisfied, expired)
  PROVE  QueriesInv'
  <1>1. query \in QueryRecords /\ (Running => query.name \in Names)
    BY DEF QueriesInv, TypeOK, QueryInv, QueryRecords
  <1>2. NotFound \in Replies
    BY Zenon DEF Replies
  <1>3. \A call \in Calls, n \in Names, k \in Nat :
          /\ Asking(call, n, k) \in QueryRecords
          /\ Asking(call, n, k).name \in Names
    BY <1>2 DEF Asking, QueryRecords, Phases
  <1>4. \A how \in {"resolved", "rejected"} :
          Ends(how) \in QueryRecords /\ Ends(how).phase = how
    BY <1>2 DEF Ends, NoQuery, QueryRecords, Phases
  <1>5. /\ UNCHANGED <<gameVars, memory>>
        /\ query' \in QueryRecords
        /\ query'.phase \in {"asked", "lost", "answered"} => query'.name \in Names
    <2>1. ASSUME NEW call \in Calls, NEW n \in Names, Ask(call, n)
          PROVE  <1>5!1 /\ <1>5!2 /\ <1>5!3
      BY <1>3, <2>1 DEF Ask
    <2>2. CASE Answer
      <3>1. Running /\ query.name \in Names
        BY <1>1, <2>2 DEF Answer, Running
      <3>2. HandleQueryState(query.name) \in Replies
        BY <3>1, Answered DEF QueriesInv
      <3>3. /\ query' = [query EXCEPT !.phase = "answered",
                                      !.reply = HandleQueryState(query.name)]
            /\ UNCHANGED <<gameVars, memory>>
        BY <2>2 DEF Answer
      <3>4. QED
        BY <1>1, <3>1, <3>2, <3>3 DEF QueryRecords, Phases
    <2>3. CASE Receive
      BY <1>4, <2>3 DEF Receive
    <2>4. CASE TimesOut
      BY <1>4, <2>4 DEF TimesOut
    <2>5. ASSUME NEW satisfied \in BOOLEAN, NEW expired \in BOOLEAN,
                 Poll(satisfied, expired)
          PROVE  <1>5!1 /\ <1>5!2 /\ <1>5!3
      <3>1. query.call \in Calls /\ query.name \in Names /\ query.polls \in Nat
        BY <1>1, <2>5 DEF Poll, Running, Calls, QueryRecords
      <3>2. query' \in {Ends("resolved"), Ends("rejected"),
                        Asking(query.call, query.name, query.polls + 1)}
        BY <2>5 DEF Poll
      <3>3. query.polls + 1 \in Nat
        BY <3>1
      <3>4. UNCHANGED <<gameVars, memory>>
        BY <2>5 DEF Poll
      <3>5. QED
        BY <1>3, <1>4, <3>1, <3>2, <3>3, <3>4
    <2>6. QED
      BY <2>1, <2>2, <2>3, <2>4, <2>5
  <1>6. MemoryTypes'
    BY <1>5, Zenon DEF QueriesInv, TypeOK, MemoryTypes, Sources, MayHold
  <1>7. QueryTypes' /\ QueryInv'
    BY <1>5 DEF QueryTypes, QueryInv, Running, QueryRecords
  <1>8. QED
    BY <1>5, <1>6, <1>7, RestHolds

(* The invariant that the theorems follow from.                            *)
THEOREM Invariant == Spec => []QueriesInv
  <1>1. ASSUME QueriesInv, [Next]_vars  PROVE QueriesInv'
    <2>1. CASE Next
      BY <1>1, <2>1, StartHolds, ExposeHolds, LuaExposeHolds, SetHookHolds, ChangeHolds,
         QueryHolds, Zenon DEF Next
    <2>2. CASE UNCHANGED vars
      <3>1. UNCHANGED gameVars /\ memory' = memory /\ query' = query
        BY <2>2 DEF vars
      <3>2. MemoryTypes' /\ QueryTypes' /\ QueryInv'
        BY <1>1, <3>1, Zenon
           DEF QueriesInv, TypeOK, MemoryTypes, QueryTypes, QueryInv, Running,
               QueryRecords, Sources, MayHold
      <3>3. QED
        BY <1>1, <3>1, <3>2, RestHolds
    <2>3. QED
      BY <1>1, <2>1, <2>2
  <1>2. QED
    BY InitHolds, <1>1, PTL DEF Spec

(* Every variable keeps its type; the registry stays within its array.     *)
THEOREM QueryTypesKept == Spec => []TypeOK
  <1>1. QueriesInv => TypeOK
    BY DEF QueriesInv
  <1>2. QED
    BY Invariant, <1>1, PTL

(* A name that was exposed within the limit is found, on whichever side it *)
(* was, for registries and games of any size.                              *)
THEOREM ExposedStaysFound == Spec => []ExposedIsFound
  <1>1. QueriesInv => ExposedIsFound
    <2> SUFFICES ASSUME QueriesInv, NEW n \in promised
                 PROVE  Bound(n) # NoSource
      BY DEF ExposedIsFound
    <2>1. exposed_states \in Seq(Entries) /\ n \in Names
      BY DEF QueriesInv, TypeOK
    <2>2. CASE Named(n) # {}
      BY <2>1, <2>2, MatchFound, StateQueriesAssumption
    <2>3. CASE Named(n) = {}
      BY <2>3 DEF QueriesInv, PromisedInv, Bound
    <2>4. QED
      BY <2>2, <2>3
  <1>2. QED
    BY Invariant, <1>1, PTL
-----------------------------------------------------------------------------
(* The refinement of Exposure.                                             *)

AskedFor == IF query.phase = "asked" THEN query.name ELSE NoSource
Replied  == IF query.phase = "answered" THEN query.reply ELSE NoSource

(* How Exposure sees the variables.                                        *)
LEMMA Mapping ==
  /\ \A n \in Names : Promise!Held(n) = HeldBy(n)
  /\ Promise!Sources = Sources
  BY DEF Promise!Held, Promise!Sources, HeldBy, Sources

(* Before anything is exposed no name stands for anything.                 *)
LEMMA InitMaps == Init => Promise!Init
  <1> SUFFICES ASSUME Init  PROVE Promise!Init
    OBVIOUS
  <1>1. \A n \in Names : Bound(n) = NoSource
    <2>1. exposed_states = <<>> /\ DOMAIN exposed_states = {}
      BY DEF Init
    <2>2. \A n \in Names : Named(n) = {}
      BY <2>1 DEF Named
    <2>3. QED
      BY <2>2 DEF Init, Bound
  <1>2. AskedFor = NoSource /\ Replied = NoSource
    BY DEF Init, NoQuery, AskedFor, Replied
  <1>3. QED
    BY <1>1, <1>2 DEF Init, Promise!Init, Promise!Sources, Sources, AskedFor,
                      Replied

(* A step that leaves the registry, the hook and the Lua table alone       *)
(* leaves every name to what it stands for.                                *)
LEMMA BoundKept ==
  ASSUME UNCHANGED <<lua, exposed_states, state_query_hook, callbacks, stage>>
  PROVE  \A n : Bound(n)' = Bound(n)
  BY DEF Bound, Named, FirstMatch, Loaded

(* What starts a game empties the registry, or changes nothing yet.        *)
LEMMA StartMaps ==
  ASSUME QueriesInv, EventInit \/ Import \/ \E ok \in BOOLEAN : EventInitLua(ok)
  PROVE  [Promise!Next]_(Promise!vars)
  <1>1. CASE EventInit
    <2>1. exposed_states' = <<>> /\ state_query_hook' = FALSE /\ memory' = memory
      BY <1>1 DEF EventInit
    <2>2. \A n \in Names : Bound(n)' = NoSource
      <3>1. \A n \in Names : Named(n)' = {}
        BY <2>1 DEF Named
      <3>2. QED
        BY <2>1, <3>1 DEF Bound
    <2>3. AskedFor' = NoSource /\ Replied' = Replied
      BY <1>1 DEF EventInit, AskedFor, Replied, QueriesInv, TypeOK
    <2>4. Promise!Reset
      BY <2>1, <2>2, <2>3 DEF Promise!Reset, AskedFor, Replied
    <2>5. QED
      BY <2>4 DEF Promise!Next
  <1>2. CASE Import \/ \E ok \in BOOLEAN : EventInitLua(ok)
    <2>1. /\ UNCHANGED <<exposed_states, memory, query>>
          /\ ~Loaded
          /\ \/ callbacks' = [n \in Names |-> NoSource]
             \/ ~Loaded'
      BY <1>2 DEF Import, EventInitLua, QueriesInv, HookInv, Loaded
    <2>2. \A n \in Names : Named(n)' = Named(n) /\ FirstMatch(n)' = FirstMatch(n)
      BY <2>1 DEF Named, FirstMatch
    <2>3. \A n \in Names : Bound(n)' = Bound(n)
      BY <2>1, <2>2 DEF Bound
    <2>4. AskedFor' = AskedFor /\ Replied' = Replied
      BY <2>1 DEF AskedFor, Replied
    <2>5. UNCHANGED Promise!vars
      BY <2>1, <2>3, <2>4 DEF Promise!vars, AskedFor, Replied
    <2>6. QED
      BY <2>5
  <1>3. QED
    BY <1>1, <1>2
(* A variable that is exposed takes its name, unless a variable has it.    *)
LEMMA ExposeMaps ==
  ASSUME QueriesInv, NEW n \in Names, NEW x \in Variables, Expose(n, x)
  PROVE  [Promise!Next]_(Promise!vars)
  <1> DEFINE e == [name |-> n, ptr |-> x]
             t == Append(exposed_states, e)
  <1>1. /\ UNCHANGED <<lua, stage, state_query_hook, callbacks, memory, query>>
        /\ exposed_states \in Seq(Entries) /\ e \in Entries
    BY DEF Expose, QueriesInv, TypeOK, Entries
  <1>2. AskedFor' = AskedFor /\ Replied' = Replied
    BY <1>1 DEF AskedFor, Replied
  <1>3. CASE ~Room
    <2>1. exposed_states' = exposed_states
      BY <1>3 DEF Expose
    <2>2. \A m : Bound(m)' = Bound(m)
      BY <1>1, <2>1, BoundKept
    <2>3. QED
      BY <1>1, <1>2, <2>2 DEF Promise!vars, AskedFor, Replied
  <1>4. CASE Room
    <2>1. exposed_states' = t /\ t \in Seq(Entries)
      BY <1>1, <1>4, AppendProperties DEF Expose
    <2>2. \A m : /\ Named(m) = Places(exposed_states, m)
                /\ Named(m)' = Places(t, m)
                /\ FirstMatch(m) = exposed_states[First(exposed_states, m)].ptr
                /\ FirstMatch(m)' = t[First(t, m)].ptr
      <3> HIDE DEF t
      <3>1. QED
        BY <2>1 DEF Named, Places, FirstMatch, First
    <2>3. \A m \in Names :
            Bound(m)' = IF m = n /\ Named(m) = {} THEN x ELSE Bound(m)
      <3>1. SUFFICES ASSUME NEW m \in Names
                     PROVE  Bound(m)' = IF m = n /\ Named(m) = {} THEN x
                                        ELSE Bound(m)
        OBVIOUS
      <3>2. e.name = n /\ e.ptr = x
        OBVIOUS
      <3>3. /\ Places(exposed_states, m) # {} =>
                 /\ Places(t, m) # {}
                 /\ t[First(t, m)] = exposed_states[First(exposed_states, m)]
            /\ Places(exposed_states, m) = {} /\ e.name # m =>
                 Places(t, m) = {}
            /\ Places(exposed_states, m) = {} /\ e.name = m =>
                 Places(t, m) # {} /\ t[First(t, m)] = e
        <4> HIDE DEF e
        <4>1. QED
          BY <1>1, Entered
      <3>4. /\ Named(m) # {} =>
                 Named(m)' # {} /\ FirstMatch(m)' = FirstMatch(m)
            /\ Named(m) = {} /\ m # n => Named(m)' = {}
            /\ Named(m) = {} /\ m = n => Named(m)' # {} /\ FirstMatch(m)' = x
        <4> HIDE DEF e, t
        <4>1. QED
          BY <2>2, <3>2, <3>3
      <3>5. QED
        BY <1>1, <3>4 DEF Bound, Loaded
    <2>4. CASE Named(n) # {}
      <3>1. \A m \in Names : Bound(m)' = Bound(m)
        BY <2>3, <2>4
      <3>2. QED
        BY <1>1, <1>2, <3>1 DEF Promise!vars, AskedFor, Replied
    <2>5. CASE Named(n) = {}
      <3>1. Bound(n) \notin Variables
        BY <2>5, StateQueriesAssumption DEF Bound, QueriesInv, TypeOK
      <3>2. Promise!Bind(n, x)
        BY <1>1, <1>2, <2>3, <2>5, <3>1 DEF Promise!Bind, AskedFor, Replied
      <3>3. QED
        BY <3>2, Mapping DEF Promise!Next, Sources
    <2>6. QED
      BY <2>4, <2>5
  <1>5. QED
    BY <1>3, <1>4

(* A callback that is exposed takes its name, unless a variable has it,    *)
(* and one that is withdrawn gives it up.                                  *)
LEMMA LuaExposeMaps ==
  ASSUME QueriesInv, NEW n \in Names, NEW cb \in Callbacks \cup {NoSource},
         LuaExpose(n, cb)
  PROVE  [Promise!Next]_(Promise!vars)
  <1>1. /\ UNCHANGED <<exposed_states, state_query_hook, memory, query>>
        /\ Loaded /\ Loaded' /\ state_query_hook
        /\ \A m \in Names : callbacks'[m] = IF m = n THEN cb ELSE callbacks[m]
    BY DEF LuaExpose, QueriesInv, HookInv, TypeOK, Loaded
  <1>2. AskedFor' = AskedFor /\ Replied' = Replied
    BY <1>1 DEF AskedFor, Replied
  <1>3. \A m \in Names : Named(m)' = Named(m) /\ FirstMatch(m)' = FirstMatch(m)
    BY <1>1 DEF Named, FirstMatch
  <1>4. \A m \in Names :
          Bound(m)' = IF m = n /\ Named(m) = {} THEN cb ELSE Bound(m)
    BY <1>1, <1>3 DEF Bound
  <1>5. CASE Named(n) # {}
    <2>1. \A m \in Names : Bound(m)' = Bound(m)
      BY <1>4, <1>5
    <2>2. QED
      BY <1>1, <1>2, <2>1 DEF Promise!vars, AskedFor, Replied
  <1>6. CASE Named(n) = {}
    <2>1. Bound(n) \notin Variables
      BY <1>6, StateQueriesAssumption DEF Bound, QueriesInv, TypeOK
    <2>2. Promise!Bind(n, cb)
      BY <1>1, <1>2, <1>4, <1>6, <2>1 DEF Promise!Bind, AskedFor, Replied
    <2>3. QED
      BY <2>2, Mapping DEF Promise!Next, Sources
  <1>7. QED
    BY <1>5, <1>6

(* A hook that a C game sets answers for the names no variable has.        *)
LEMMA SetHookMaps ==
  ASSUME QueriesInv, NEW set \in BOOLEAN,
         NEW hook \in [Names -> Callbacks \cup {NoSource}], SetHook(set, hook)
  PROVE  [Promise!Next]_(Promise!vars)
  <1>1. /\ UNCHANGED <<exposed_states, memory, query>>
        /\ Loaded' /\ callbacks' = hook /\ state_query_hook' = set
        /\ set \/ \A n \in Names : hook[n] = NoSource
    BY DEF SetHook, Loaded
  <1>2. AskedFor' = AskedFor /\ Replied' = Replied
    BY <1>1 DEF AskedFor, Replied
  <1>3. \A n : Named(n)' = Named(n) /\ FirstMatch(n)' = FirstMatch(n)
    BY <1>1 DEF Named, FirstMatch
  <1>4. \A n \in Names : Bound(n) \in Variables <=> Named(n) # {}
    <2>1. ASSUME NEW n \in Names, Named(n) # {}
          PROVE  Bound(n) \in Variables
      BY <2>1, MatchFound DEF QueriesInv, TypeOK
    <2>2. ASSUME NEW n \in Names, Named(n) = {}
          PROVE  Bound(n) \notin Variables
      BY <2>2, StateQueriesAssumption DEF Bound, QueriesInv, TypeOK
    <2>3. QED
      BY <2>1, <2>2
  <1>5. \A n \in Names :
          Bound(n)' = IF Bound(n) \in Variables THEN Bound(n) ELSE hook[n]
    BY <1>1, <1>3, <1>4 DEF Bound
  <1>6. Promise!Rebind(hook)
    BY <1>1, <1>2, <1>5 DEF Promise!Rebind, AskedFor, Replied
  <1>7. QED
    BY <1>6 DEF Promise!Next

(* What a source holds changes, and nothing else.                          *)
LEMMA ChangeMaps ==
  ASSUME QueriesInv, QueriesInv', NEW s \in Sources, NEW c, Change(s, c)
  PROVE  [Promise!Next]_(Promise!vars)
  <1>1. UNCHANGED <<lua, exposed_states, state_query_hook, callbacks, stage,
                    query>>
    BY DEF Change, gameVars
  <1>2. memory' \in [Sources -> AllContents]
    BY DEF QueriesInv, TypeOK
  <1>3. \A n : Bound(n)' = Bound(n)
    BY <1>1, BoundKept
  <1>4. Promise!Change
    BY <1>1, <1>2, <1>3, Mapping DEF Promise!Change
  <1>5. QED
    BY <1>4 DEF Promise!Next

(* The runner's steps: a query is asked, answered by what its name stands  *)
(* for, and its reply is received; waitUntilState() asks again.            *)
LEMMA QueryMaps ==
  ASSUME QueriesInv,
         \/ \E call \in Calls, n \in Names : Ask(call, n)
         \/ Answer \/ Receive \/ TimesOut
         \/ \E satisfied, expired \in BOOLEAN : Poll(satisfied, expired)
  PROVE  [Promise!Next]_(Promise!vars)
  <1>1. UNCHANGED <<lua, exposed_states, state_query_hook, callbacks, stage,
                    memory>>
    BY DEF Ask, Answer, Receive, TimesOut, Poll, gameVars
  <1>2. \A n : Bound(n)' = Bound(n)
    BY <1>1, BoundKept
  <1>3. Running => query.name \in Names
    BY DEF QueriesInv, QueryInv
  <1>4. ASSUME NEW n \in Names, query.phase # "asked",
               query'.phase = "asked", query'.name = n
        PROVE  Promise!Ask(n)
    BY <1>1, <1>2, <1>4 DEF Promise!Ask
  <1>5. ASSUME NEW call \in Calls, NEW n \in Names, Ask(call, n)
        PROVE  Promise!Ask(n)
    <2>1. query.phase # "asked" /\ query'.phase = "asked" /\ query'.name = n
      BY <1>5 DEF Ask, Running, Asking
    <2>2. QED
      BY <1>4, <2>1
  <1>6. CASE Answer
    <2>1. query.phase = "asked" /\ query.name \in Names
      BY <1>3, <1>6 DEF Answer, Running
    <2>2. /\ HandleQueryState(query.name) \in Replies
          /\ <<HeldBy(query.name), HandleQueryState(query.name)>> \in Faithful
      BY <2>1, Answered DEF QueriesInv
    <2>3. /\ query'.phase = "answered"
          /\ query'.reply = HandleQueryState(query.name)
      BY <1>6 DEF Answer, QueriesInv, TypeOK
    <2>4. query.name # NoSource
      BY <2>1, StateQueriesAssumption
    <2>5. Promise!Answer(HandleQueryState(query.name))
      BY <1>1, <1>2, <2>1, <2>2, <2>3, <2>4, Mapping DEF Promise!Answer
    <2>6. QED
      BY <2>2, <2>5 DEF Promise!Next
  <1>7. ASSUME query'.phase \in {"resolved", "rejected"}, query.phase # "asked"
        PROVE  [Promise!Next]_(Promise!vars)
    <2>1. CASE query.phase = "answered"
      <3>1. Promise!Forget
        BY <1>1, <1>2, <1>7, <2>1 DEF Promise!Forget
      <3>2. QED
        BY <3>1 DEF Promise!Next
    <2>2. CASE query.phase # "answered"
      BY <1>1, <1>2, <1>7, <2>2 DEF Promise!vars
    <2>3. QED
      BY <2>1, <2>2
  <1>8. CASE Receive \/ TimesOut
    <2>1. query'.phase \in {"resolved", "rejected"} /\ query.phase # "asked"
      BY <1>8 DEF Receive, TimesOut, Ends, NoQuery
    <2>2. QED
      BY <1>7, <2>1
  <1>9. ASSUME NEW satisfied \in BOOLEAN, NEW expired \in BOOLEAN,
               Poll(satisfied, expired)
        PROVE  [Promise!Next]_(Promise!vars)
    <2>1. query.phase = "answered" /\ query.name \in Names
      BY <1>3, <1>9 DEF Poll, Running
    <2>2. \/ query' \in {Ends("resolved"), Ends("rejected")}
          \/ query' = Asking(query.call, query.name, query.polls + 1)
      BY <1>9 DEF Poll
    <2>3. CASE query' \in {Ends("resolved"), Ends("rejected")}
      <3>1. query'.phase \in {"resolved", "rejected"}
        BY <2>3 DEF Ends, NoQuery
      <3>2. QED
        BY <1>7, <2>1, <3>1
    <2>4. CASE query' = Asking(query.call, query.name, query.polls + 1)
      <3>1. query'.phase = "asked" /\ query'.name = query.name
        BY <2>4 DEF Asking
      <3>2. Promise!Ask(query.name)
        BY <1>4, <2>1, <3>1
      <3>3. QED
        BY <2>1, <3>2 DEF Promise!Next
    <2>5. QED
      BY <2>2, <2>3, <2>4
  <1>10. QED
    BY <1>5, <1>6, <1>8, <1>9 DEF Promise!Next

(* The registry, the hook and the Lua table implement Exposure, for games, *)
(* registries and contents of any size.                                    *)
THEOREM PromiseIsKept == Spec => PromiseKept
  <1>1. ASSUME QueriesInv, QueriesInv', [Next]_vars
        PROVE  [Promise!Next]_(Promise!vars)
    <2>1. CASE Next
      BY <1>1, <2>1, StartMaps, ExposeMaps, LuaExposeMaps, SetHookMaps,
         ChangeMaps,
         QueryMaps, Zenon DEF Next
    <2>2. CASE UNCHANGED vars
      <3>1. UNCHANGED <<lua, exposed_states, state_query_hook, callbacks,
                        stage, memory, query>>
        BY <2>2 DEF vars, gameVars
      <3>2. \A n : Bound(n)' = Bound(n)
        BY <3>1, BoundKept
      <3>3. QED
        BY <3>1, <3>2 DEF Promise!vars
    <2>3. QED
      BY <1>1, <2>1, <2>2
  <1>2. QED
    BY Invariant, InitMaps, <1>1, PTL DEF Spec, PromiseKept, Promise!Spec
===============================================================================
