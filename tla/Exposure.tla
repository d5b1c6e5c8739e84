------------------------------ MODULE Exposure --------------------------------
(***************************************************************************)
(* What a game that exposes its state promises to the runner: each name    *)
(* stands for one source, a variable of the game or a callback.  A name    *)
(* once given to a variable keeps it until the module is initialised       *)
(* again; a callback gives way to a later callback and to a variable, or   *)
(* is withdrawn, by itself or with all others when a game sets a hook of   *)
(* its own.  A query reports, unaltered, what the source of its name holds *)
(* at the time it is answered.                                             *)
(***************************************************************************)
CONSTANTS
  Names, Variables, Callbacks, NoSource,
  Contents,     \* what a source may hold
  Replies,      \* what a query may be answered
  Faithful      \* the replies that report a content: a relation
VARIABLES
  source,       \* the source of each name
  memory,       \* what each source holds
  asked,        \* the name asked for and not yet answered, or NoSource
  reply         \* the reply, while it counts, or NoSource

vars == <<source, memory, asked, reply>>
Sources == Variables \cup Callbacks

Init ==
  /\ source = [n \in Names |-> NoSource]
  /\ memory \in [Sources -> Contents]
  /\ asked = NoSource /\ reply = NoSource

Bind(n, s) ==
  /\ source[n] \notin Variables
  /\ source' = [source EXCEPT ![n] = s]
  /\ UNCHANGED <<memory, asked, reply>>

(* A hook of the game's own answers from now on, for every name that no    *)
(* variable has.                                                           *)
Rebind(hook) ==
  /\ source' = [n \in Names |->
                  IF source[n] \in Variables THEN source[n] ELSE hook[n]]
  /\ UNCHANGED <<memory, asked, reply>>

(* The registry is emptied; what was asked before may go unanswered.       *)
Reset ==
  /\ source' = [n \in Names |-> NoSource]
  /\ asked' \in {asked, NoSource}
  /\ UNCHANGED <<memory, reply>>

Change ==
  /\ memory' \in [Sources -> Contents]
  /\ UNCHANGED <<source, asked, reply>>

Ask(n) ==
  /\ asked = NoSource
  /\ asked' = n /\ reply' = NoSource
  /\ UNCHANGED <<source, memory>>

(* What no source stands for holds NoSource.                               *)
Held(n) == IF source[n] = NoSource THEN NoSource ELSE memory[source[n]]

Answer(r) ==
  /\ asked # NoSource
  /\ <<Held(asked), r>> \in Faithful
  /\ asked' = NoSource /\ reply' = r
  /\ UNCHANGED <<source, memory>>

Forget ==
  /\ reply' = NoSource
  /\ UNCHANGED <<source, memory, asked>>

Next ==
  \/ \E n \in Names, s \in Sources \cup {NoSource} : Bind(n, s)
  \/ \E hook \in [Names -> Callbacks \cup {NoSource}] : Rebind(hook)
  \/ Reset \/ Change \/ Forget
  \/ \E n \in Names : Ask(n)
  \/ \E r \in Replies : Answer(r)

Spec == Init /\ [][Next]_vars
===============================================================================
