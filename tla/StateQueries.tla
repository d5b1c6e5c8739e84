----------------------------- MODULE StateQueries ------------------------------
(***************************************************************************)
(* How a game exposes its state and how the runner's queries are answered: *)
(* the registry of C pointers and the query hook (pdk_e2e.c), the Lua      *)
(* extension that installs a hook (pdk_e2e_ext.c) and the table of Lua     *)
(* callbacks behind it (pdk_e2e.lua), or a hook that a C game sets itself, *)
(* and queryInt() to waitUntilState() of PlaydateGame.ts.  GameModule leaves open what a query is answered;   *)
(* here the frame that answers is one action and the transport is left to  *)
(* Session.  Replies come in time, unless there is none to come.           *)
(***************************************************************************)
EXTENDS Naturals, Sequences

CONSTANTS
  Names, Variables, Callbacks, NoSource,
  TypeOf,               \* the C type of each variable
  MaxExposedStates,     \* PDK_E2E_MAX_EXPOSED_STATES
  MaxStateString,       \* the payload of send_state_string()
  Numbers,              \* the numbers that are exposed
  StringLengths,        \* lengths of the strings that are exposed
  Word,                 \* 2^16: the values of a uint16_t
  MaxPolls              \* polls after which a deadline has passed

Types == {"INT32", "FLOAT32", "STRING"}

ASSUME StateQueriesAssumption ==
  /\ Variables \cap Callbacks = {}
  /\ NoSource \notin Names \cup Variables \cup Callbacks
  /\ TypeOf \in [Variables -> Types]
  /\ MaxExposedStates \in Nat /\ MaxPolls \in Nat
  /\ MaxStateString \in Nat /\ Word \in Nat
  /\ Numbers \in SUBSET Nat /\ StringLengths \in SUBSET Nat

(* A length of Word - 2 or Word - 1 makes that of the payload wrap to 0 or *)
(* 1, and the copy overruns it; from Word on the length itself is taken    *)
(* modulo Word, and the string is sent cut, or refused, by what is left.   *)
ASSUME StringsShort == \A n \in StringLengths : n + 2 < Word

VARIABLES
  lua,                \* the game is a Lua game with the C extension
  stage,              \* how far it has started
  exposed_states, state_query_hook,   \* as in pdk_e2e.c; FALSE is NULL
  callbacks,          \* what the hook answers from: _callbacks of pdk_e2e.lua
                      \* or, of a C game, the callbacks behind its own hook
  memory,             \* what variables hold and callbacks return
  query,              \* the runner's query
  calls,              \* history: calls to expose a variable since the
                      \* initialisation, counted up to the limit
  promised            \* history: names exposed since, within the limit

gameVars == <<lua, stage, exposed_states, state_query_hook, callbacks, calls,
              promised>>
vars == <<gameVars, memory, query>>

(* "imported": pdk_e2e.lua has run.  "unregistered": Lua would not have    *)
(* the functions, so playdate.e2e does not exist.                          *)
Stages == {"loaded", "init", "unregistered", "initLua", "imported"}

-----------------------------------------------------------------------------
(* What is exposed.                                                        *)

Sources == Variables \cup Callbacks

(* A content: a number by its value, a string by its length.  A callback   *)
(* may also return nil or a table, or raise an error.                      *)
Content(type, v) == [type |-> type, v |-> v]
ContentsOf(type) ==
  {Content(type, v) : v \in IF type = "STRING" THEN StringLengths ELSE Numbers}
Nil == Content("NIL", 0)
AllContents == {Nil} \cup UNION {ContentsOf(t) : t \in Types}
MayHold(s) == IF s \in Variables THEN ContentsOf(TypeOf[s]) ELSE AllContents

Entries == [name : Names, ptr : Variables]

Reply(type, value) == [type |-> type, value |-> value]
NotFound == Reply("STATE_NOT_FOUND", Nil)
Failure  == Reply("ERROR", Nil)
Replies  == {NotFound, Failure}
              \cup {Reply("STATE_VALUE", c) : c \in AllContents \ {Nil}}

NoQuery == [call |-> "none", name |-> NoSource, phase |-> "none",
            reply |-> NotFound, polls |-> 0]

Init ==
  /\ lua \in BOOLEAN /\ stage = "loaded"
  /\ exposed_states = <<>> /\ state_query_hook = FALSE
  /\ callbacks = [n \in Names |-> NoSource]
  /\ memory \in [Sources -> AllContents]
  /\ \A s \in Sources : memory[s] \in MayHold(s)
  /\ query = NoQuery
  /\ calls = 0 /\ promised = {}

(* pdk_e2e_init(), from kEventInit.  A C game may call it again, to        *)
(* connect once more; the runner's query is lost with the connection.      *)
EventInit ==
  /\ stage = "loaded" \/ ~lua
  /\ stage' = "init"
  /\ exposed_states' = <<>>
  /\ state_query_hook' = FALSE /\ callbacks' = [n \in Names |-> NoSource]
  /\ calls' = 0 /\ promised' = {}
  /\ query' = IF query.phase = "asked" THEN [query EXCEPT !.phase = "lost"]
              ELSE query
  /\ UNCHANGED <<lua, memory>>

(* A slip: the extension registers its functions and no hook.              *)
EventInitLuaHookless(ok) ==
  /\ lua /\ stage = "init"
  /\ stage' = IF ok THEN "initLua" ELSE "unregistered"
  /\ UNCHANGED <<lua, state_query_hook, exposed_states, callbacks, memory,
                 query, calls, promised>>

EventInitLua(ok) ==
  /\ lua /\ stage = "init"
  /\ stage' = IF ok THEN "initLua" ELSE "unregistered"
  /\ state_query_hook' = TRUE
  /\ UNCHANGED <<lua, exposed_states, callbacks, memory, query, calls,
                 promised>>

(* import "pdk_e2e"                                                        *)
Import ==
  /\ stage = "initLua"
  /\ stage' = "imported"
  /\ callbacks' = [n \in Names |-> NoSource]
  /\ UNCHANGED <<lua, exposed_states, state_query_hook, memory, query, calls,
                 promised>>

Named(n) == {i \in DOMAIN exposed_states : exposed_states[i].name = n}

(* Slip: one entry more than there is room for.                            *)
RoomOffByOne == Len(exposed_states) <= MaxExposedStates
Room == Len(exposed_states) < MaxExposedStates

(* pdk_e2e_expose_int(), _float() and _string().                           *)
Expose(n, x) ==
  /\ exposed_states' =
       IF Room THEN Append(exposed_states, [name |-> n, ptr |-> x])
       ELSE exposed_states
  /\ calls' = IF calls < MaxExposedStates THEN calls + 1 ELSE calls
  /\ promised' = IF calls < MaxExposedStates THEN promised \cup {n}
                 ELSE promised
  /\ UNCHANGED <<lua, stage, state_query_hook, callbacks, memory, query>>

(* playdate.e2e.expose(): nil, for NoSource, withdraws a callback.         *)
LuaExpose(n, cb) ==
  /\ stage = "imported"
  /\ callbacks' = [callbacks EXCEPT ![n] = cb]
  /\ promised' = IF cb # NoSource \/ Named(n) # {} THEN promised \cup {n}
                 ELSE promised \ {n}
  /\ UNCHANGED <<lua, stage, exposed_states, state_query_hook, memory, query,
                 calls>>

(* pdk_e2e_set_state_query_hook() of a C game, with a hook that answers by *)
(* a callback for each name, or with NULL.                                 *)
SetHook(set, hook) ==
  /\ ~lua
  /\ set \/ \A n \in Names : hook[n] = NoSource
  /\ state_query_hook' = set /\ callbacks' = hook
  /\ promised' = {n \in promised : Named(n) # {}}
                   \cup {n \in Names : hook[n] # NoSource}
  /\ UNCHANGED <<lua, stage, exposed_states, memory, query, calls>>

(* The game goes on: what it exposes changes.                              *)
Change(s, c) ==
  /\ memory' = [memory EXCEPT ![s] = c]
  /\ UNCHANGED <<gameVars, query>>

-----------------------------------------------------------------------------
(* QUERY_STATE.                                                            *)

uint16(n) == n % Word

SendStateString(s) ==
  LET str_len == uint16(s.v)
      payload_len == uint16(1 + str_len + 1)
  IN IF payload_len > MaxStateString THEN Failure
     ELSE Reply("STATE_VALUE", [s EXCEPT !.v = str_len])

SendState(c) ==
  IF c.type = "STRING" THEN SendStateString(c) ELSE Reply("STATE_VALUE", c)

(* A slip: the latest pointer of a name, not the first.                    *)
LastMatch(n) == exposed_states[CHOOSE i \in Named(n) :
                                 \A j \in Named(n) : j <= i].ptr

(* strcmp() on each entry from the first.                                  *)
FirstMatch(n) == exposed_states[CHOOSE i \in Named(n) :
                                  \A j \in Named(n) : i <= j].ptr

(* What is behind the hook: the Lua table once it is there, or C.          *)
Loaded == lua => stage = "imported"

(* playdate.e2e._dispatch(), or the callback of a C game: nil, a type that *)
(* is not supported and an error are all reported as not found.            *)
Dispatch(n) ==
  IF Loaded /\ callbacks[n] # NoSource THEN memory[callbacks[n]] ELSE Nil
StateQueryHook(n) ==
  IF Dispatch(n) = Nil THEN NotFound ELSE SendState(Dispatch(n))

HandleQueryState(n) ==
  IF Named(n) # {} THEN SendState(memory[FirstMatch(n)])
  ELSE IF state_query_hook THEN StateQueryHook(n)
  ELSE NotFound

Answer ==
  /\ query.phase = "asked"
  /\ query' = [query EXCEPT !.phase = "answered",
                            !.reply = HandleQueryState(query.name)]
  /\ UNCHANGED <<gameVars, memory>>

-----------------------------------------------------------------------------
(* The runner.                                                             *)

Calls == {"queryInt", "queryFloat", "queryString", "waitUntilState"}
Running == query.phase \in {"asked", "lost", "answered"}
Phases == {"none", "asked", "lost", "answered", "resolved", "rejected"}

Asking(call, n, polls) ==
  [call |-> call, name |-> n, phase |-> "asked", reply |-> NotFound,
   polls |-> polls]

Ends(how) == [NoQuery EXCEPT !.phase = how]

Ask(call, n) ==
  /\ stage # "loaded" /\ ~Running
  /\ query' = Asking(call, n, 1)
  /\ UNCHANGED <<gameVars, memory>>

(* The three typed queries.                                                *)
Matches(call, c) ==
  \/ call = "queryInt" /\ c.type = "INT32"
  \/ call = "queryFloat" /\ c.type = "FLOAT32"
  \/ call = "queryString" /\ c.type = "STRING"

Receive ==
  /\ query.phase = "answered"
  /\ \/ query.reply.type = "STATE_NOT_FOUND"
     \/ query.reply.type = "STATE_VALUE" /\ query.call # "waitUntilState"
  /\ query' = IF /\ query.reply.type = "STATE_VALUE"
                 /\ Matches(query.call, query.reply.value)
              THEN Ends("resolved") ELSE Ends("rejected")
  /\ UNCHANGED <<gameVars, memory>>

(* A slip: a loop that never looks at its deadline.                        *)
PollsForEver(satisfied, expired) ==
  /\ query.phase = "answered" /\ query.reply.type = "STATE_VALUE"
  /\ query.call = "waitUntilState"
  /\ query' = IF satisfied THEN Ends("resolved")
              ELSE Asking(query.call, query.name, query.polls)
  /\ UNCHANGED <<gameVars, memory>>

(* waitUntilState() hands a value of any type to its predicate, and asks   *)
(* again unless its deadline has passed.                                   *)
Poll(satisfied, expired) ==
  /\ query.phase = "answered" /\ query.reply.type = "STATE_VALUE"
  /\ query.call = "waitUntilState"
  /\ query.polls >= MaxPolls => expired
  /\ query' = IF satisfied THEN Ends("resolved")
              ELSE IF expired THEN Ends("rejected")
              ELSE Asking(query.call, query.name, query.polls + 1)
  /\ UNCHANGED <<gameVars, memory>>

(* No call receives an ERROR.                                              *)
TimesOut ==
  /\ \/ query.phase = "lost"
     \/ query.phase = "answered" /\ query.reply.type = "ERROR"
  /\ query' = Ends("rejected")
  /\ UNCHANGED <<gameVars, memory>>

Next ==
  \/ EventInit \/ Import \/ \E ok \in BOOLEAN : EventInitLua(ok)
  \/ \E n \in Names, x \in Variables : Expose(n, x)
  \/ \E n \in Names, cb \in Callbacks \cup {NoSource} : LuaExpose(n, cb)
  \/ \E set \in BOOLEAN : \E hook \in [Names -> Callbacks \cup {NoSource}] :
       SetHook(set, hook)
  \/ \E s \in Sources : \E c \in MayHold(s) : Change(s, c)
  \/ \E call \in Calls, n \in Names : Ask(call, n)
  \/ Answer \/ Receive \/ TimesOut
  \/ \E satisfied, expired \in BOOLEAN : Poll(satisfied, expired)

Spec == Init /\ [][Next]_vars

(* The game runs its frames, and Node its timers and promises.             *)
Fairness ==
  /\ WF_vars(Answer) /\ WF_vars(Receive) /\ WF_vars(TimesOut)
  /\ WF_vars(\E satisfied, expired \in BOOLEAN : Poll(satisfied, expired))

FairSpec == Spec /\ Fairness

-----------------------------------------------------------------------------
(***************************************************************************)
(* Properties.                                                             *)
(***************************************************************************)

(* Types; the registry stays within its array.                             *)
TypeOK ==
  /\ lua \in BOOLEAN /\ stage \in Stages
  /\ exposed_states \in Seq(Entries)
  /\ Len(exposed_states) <= MaxExposedStates
  /\ state_query_hook \in BOOLEAN
  /\ callbacks \in [Names -> Callbacks \cup {NoSource}]
  /\ memory \in [Sources -> AllContents]
  /\ \A s \in Sources : memory[s] \in MayHold(s)
  /\ query \in [call : Calls \cup {"none"}, name : Names \cup {NoSource},
                phase : Phases, reply : Replies, polls : Nat]
  /\ query.phase = "asked" => query.name \in Names
  /\ calls \in Nat /\ promised \in SUBSET Names

(* What a name stands for.                                                 *)
Bound(n) ==
  IF Named(n) # {} THEN FirstMatch(n)
  ELSE IF state_query_hook /\ Loaded THEN callbacks[n]
  ELSE NoSource

(* The replies that tell the truth: the value, whole and of its own type;  *)
(* of a string with which the terminated payload has no room, an error;    *)
(* not found, when there is none.                                          *)
TooLong ==
  {Content("STRING", n) : n \in {m \in StringLengths : m + 2 > MaxStateString}}
Faithful ==
  {<<c, Reply("STATE_VALUE", c)>> : c \in AllContents \ ({Nil} \cup TooLong)}
    \cup {<<c, Failure>> : c \in TooLong}
    \cup {<<Nil, NotFound>>, <<NoSource, NotFound>>}

(* The registry, the hook and what is behind it implement Exposure:        *)
(* a name never changes hands once a variable has it, whatever is exposed  *)
(* afterwards, on either side, under whatever name; and every query is     *)
(* answered by what its name stands for on that frame.                     *)
Promise == INSTANCE Exposure WITH
  Contents <- AllContents,
  source <- [n \in Names |-> Bound(n)],
  asked <- IF query.phase = "asked" THEN query.name ELSE NoSource,
  reply <- IF query.phase = "answered" THEN query.reply ELSE NoSource

PromiseKept == Promise!Spec

(* A name exposed since the module was initialised is found, if it was     *)
(* among the first 32 calls in C, or exposed in Lua; names exposed twice   *)
(* use up the registry all the same.  The hook must still be in place and  *)
(* the registry not emptied since.                                         *)
ExposedIsFound == \A n \in promised : Bound(n) # NoSource

(* Every query ends: it is answered and resumes its call, or times out;    *)
(* waitUntilState() looks at its deadline before each poll.                *)
EveryQueryEnds == Running ~> ~Running
===============================================================================
