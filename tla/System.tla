------------------------------- MODULE System -------------------------------
(***************************************************************************)
(* A server and a client that follows one of its refs, over one connection *)
(* after the other: Server's protocol client is Client's consume.          *)
(***************************************************************************)
EXTENDS Server, Client

ASSUME SystemAssumption == Free \notin Conns

VARIABLE link  \* the connection the client uses, or Free

sysVars == <<vars, clientVars, link>>

SysInit == Init /\ ClientInit /\ link = Free

-----------------------------------------------------------------------------
\* Dial and Resume: the registration names the tree of the last update.
Connects(c) ==
  /\ link = Free
  /\ Resume
  /\ Dial(c)
  /\ reg'[c].hash = previous'
  /\ link' = c

\* ReadServerMessage returns an update.  It stays under way until it has been
\* interpreted.
Receives(c) ==
  /\ link = c
  /\ down[c] # <<>>
  /\ Head(down[c]).kind = "update"
  /\ ReadUpdate(Head(down[c]).head, Head(down[c]).since)
  /\ UNCHANGED <<vars, link>>

Unpacks(c) == link = c /\ OnObject /\ UNCHANGED <<vars, link>>

Acknowledges(c) == link = c /\ WriteAck /\ Interpret(c) /\ UNCHANGED link

Hands(c) == link = c /\ HandOver /\ UNCHANGED <<vars, link>>

\* The server refused the client, or closed the connection in the middle of
\* whatever it was sending.  A client that waits for the application does not
\* notice.
Breaks(c) ==
  /\ link = c
  /\ stage # "delivering"
  /\ \/ ~serverOpen[c]
     \/ stage = "reading" /\ down[c] # <<>> /\ Head(down[c]).kind = "error"
  /\ ConsumeEnds
  /\ UNCHANGED <<vars, link>>

\* The application cancels the context.
Cancels(c) == link = c /\ ConsumeEnds /\ HangUp(c) /\ UNCHANGED link

\* The application closes a client whose subscription has ended.
Closes(c) ==
  /\ link = c
  /\ Over
  /\ IF clientOpen[c] THEN HangUp(c) ELSE UNCHANGED vars
  /\ link' = Free

Finishes == Studied /\ UNCHANGED <<vars, link>>

-----------------------------------------------------------------------------
Consumes(c) ==
  Receives(c) \/ Unpacks(c) \/ Acknowledges(c) \/ Hands(c) \/ Breaks(c) \/ Closes(c)

ServerSteps ==
  /\ \/ \E c \in Conns : Serves(c) \/ Reads(c)
     \/ \E a \in Apps : Begins(a) \/ Continues(a)
  /\ UNCHANGED <<clientVars, link>>

SysRest == AtRest /\ link = Free /\ studied = {} /\ UNCHANGED sysVars

SysNext ==
  \/ ServerSteps
  \/ \E c \in Conns : Connects(c) \/ Consumes(c) \/ Cancels(c)
  \/ Finishes
  \/ SysRest

\* As in Server, and the client's goroutine and its application go on.
SysFairness ==
  /\ \A c \in Conns : /\ WF_sysVars(Serves(c) /\ UNCHANGED <<clientVars, link>>)
                      /\ WF_sysVars(Reads(c) /\ UNCHANGED <<clientVars, link>>)
                      /\ WF_sysVars(Consumes(c))
  /\ \A a \in Apps : WF_sysVars(Continues(a) /\ UNCHANGED <<clientVars, link>>)
  /\ WF_sysVars(Finishes)

SysSpec == SysInit /\ [][SysNext]_sysVars /\ SysFairness

-----------------------------------------------------------------------------
\* The client's variables keep their types; a client without a connection is
\* between two subscriptions, and what is left of a pack is being interpreted:
\* consume never leaves an update half read when it acknowledges it.
SysTypeOK ==
  /\ ClientTypeOK
  /\ link \in Conns \cup {Free}
  /\ link = Free => stage = "off"
  /\ rest # {} => stage = "interpreting"

\* The pair of trees an update is about can both be walked in the graph when
\* the update is handed over: "Diff(Previous, Hash) is what turns an update into
\* a list of changed paths" (Update).
DiffPossible == stage = "delivering" => Whole(hand.hash) /\ Whole(previous)

\* Whatever has been cut off, swept or cancelled: what the client would register
\* with is a tree it holds in full (Resume).
ResumeWhole == Whole(previous)

\* A client with a history keeps that many states and the one that has
\* arrived, and nothing else (WithHistory).
GraphIsLean ==
  /\ Cardinality(Roots) <= History
  /\ stage = "delivering" /\ heads # <<>> => graph \subseteq Live(Roots \cup {hand.hash})

\* A sweep never drops what the application may still be reading ("nothing is
\* dropped while a caller might still be reading", consume).
PairStays == \A t \in studied : Whole(t)

\* A client that stays is handed the head of its ref in the end.
EventuallyHanded ==
  <>[](link # Free /\ pc[link] \in Joined =>
         stage = "reading" /\ previous = state[my[link]].head.hash)
=============================================================================
