------------------------------- MODULE Client -------------------------------
(***************************************************************************)
(* What a client does with the updates of one subscription after the       *)
(* other: client/client.go, and the graph it keeps, receive/graph.go.      *)
(*                                                                         *)
(* An update is taken off the connection, the graph swept, the objects of  *)
(* its pack interpreted one by one, the update acknowledged and handed to  *)
(* the application, which reads the graph while the client goes on.  The   *)
(* connection is another module's: the operators below say what happens at *)
(* the client's end of it.                                                 *)
(*                                                                         *)
(* Trees are known by what they reach.                                     *)
(***************************************************************************)
EXTENDS Heads, Sequences

CONSTANTS
  Parts,     \* the objects beneath the trees
  Reach,     \* the objects a tree reaches, itself included
  Sweeping,  \* the client was made WithHistory
  History    \* how many states it keeps

Objects == Hashes \cup Parts

ASSUME ClientAssumption ==
  /\ Reach \in [Trees -> SUBSET Objects]
  /\ Reach[Void] = {}
  /\ \A t \in Hashes : t \in Reach[t]
  /\ \A t, u \in Hashes : u \in Reach[t] => Reach[u] \subseteq Reach[t]
  /\ Sweeping \in BOOLEAN
  /\ History \in Nat \ {0}

VARIABLES
  graph,     \* the objects the Graph holds
  heads,     \* consume's heads, the states a sweep keeps, newest last
  previous,  \* the hash of the last update handed over
  stage,     \* where consume is, or "off"
  hand,      \* the head of the update in hand
  rest,      \* the objects of its pack that are still to come
  studied    \* the pair of trees the application is comparing, or {}

clientVars == <<graph, heads, previous, stage, hand, rest, studied>>

Stages == {"off", "reading", "interpreting", "delivering", "ended"}

-----------------------------------------------------------------------------
(* The graph.                                                              *)

\* A tree that Retain, Diff or Leaves can walk to its end.
Whole(t) == Reach[t] \subseteq graph

\* Faulty Live: the walk stops at the roots.
LiveRoots(roots) == roots

\* What mark collects from the roots.
Live(roots) == UNION {Reach[t] : t \in roots}

\* The objects of a push are those the baseline does not reach; SelectSince may
\* select more, never less.
Pack(since, head) == Reach[head] \ Reach[since]

\* The states that a sweep keeps.
Roots == {heads[n] : n \in DOMAIN heads}

-----------------------------------------------------------------------------
(* The goroutine that runs consume.                                        *)

ClientInit ==
  /\ graph = {}
  /\ heads = <<>>
  /\ previous = Void
  /\ stage = "off"
  /\ hand = ZeroHead
  /\ rest = {}
  /\ studied = {}

\* Resume with what the last update left, or Subscribe with nothing.
Resume ==
  /\ stage = "off"
  /\ \/ UNCHANGED <<graph, previous>>
     \/ graph' = {} /\ previous' = Void
  /\ studied = {}
  /\ heads' = IF Sweeping /\ previous' # Void THEN <<previous'>> ELSE <<>>
  /\ stage' = "reading"
  /\ UNCHANGED <<hand, rest, studied>>

\* An update has been read: the graph is swept before its pack is read.  If a
\* state that the graph is to keep cannot be walked, nothing is dropped and
\* consume returns.
ReadUpdate(head, since) ==
  /\ stage = "reading"
  /\ IF \A t \in Roots : Whole(t)
     THEN /\ graph' = IF heads = <<>> THEN graph ELSE graph \cap Live(Roots)
          /\ hand' = head
          /\ rest' = Pack(since, head.hash)
          /\ stage' = "interpreting"
     ELSE stage' = "ended" /\ UNCHANGED <<graph, hand, rest>>
  /\ UNCHANGED <<heads, previous, studied>>

\* OnBlob or OnTree.
OnObject ==
  /\ stage = "interpreting"
  /\ \E o \in rest :
       /\ graph' = graph \cup {o}
       /\ rest' = rest \ {o}
  /\ UNCHANGED <<heads, previous, stage, hand, studied>>

\* Faulty WriteAck: the update is confirmed as soon as its pack begins.
WriteAckEarly ==
  /\ stage = "interpreting"
  /\ stage' = "delivering"
  /\ UNCHANGED <<graph, heads, previous, hand, rest, studied>>

\* The pack has been drained, and the update is acknowledged.
WriteAck ==
  /\ stage = "interpreting"
  /\ rest = {}
  /\ stage' = "delivering"
  /\ UNCHANGED <<graph, heads, previous, hand, rest, studied>>

\* Faulty Newest: the list is cut before the head that has come is added.
NewestBefore(hs) == IF Len(hs) > History + 1 THEN SubSeq(hs, Len(hs) - History, Len(hs)) ELSE hs

\* The newest states, as many as are to be kept.
Newest(hs) == IF Len(hs) > History THEN SubSeq(hs, Len(hs) - History + 1, Len(hs)) ELSE hs

\* The application takes the update, and has done with the one before.
HandOver ==
  /\ stage = "delivering"
  /\ studied = {}
  /\ studied' = {previous, hand.hash}
  /\ previous' = hand.hash
  /\ heads' = IF Sweeping /\ (heads = <<>> \/ heads[Len(heads)] # hand.hash)
              THEN Newest(Append(heads, hand.hash)) ELSE heads
  /\ stage' = "reading"
  /\ hand' = ZeroHead
  /\ UNCHANGED <<graph, rest>>

\* The connection ended, or the context was cancelled, wherever consume is.
ConsumeEnds ==
  /\ stage \notin {"off", "ended"}
  /\ stage' = "ended"
  /\ hand' = ZeroHead
  /\ rest' = {}
  /\ UNCHANGED <<graph, heads, previous, studied>>

\* The application has seen the end of the subscription.
Over ==
  /\ stage = "ended"
  /\ stage' = "off"
  /\ heads' = <<>>
  /\ hand' = ZeroHead
  /\ rest' = {}
  /\ UNCHANGED <<graph, previous, studied>>

\* The application is finished with the pair it compared.
Studied ==
  /\ studied # {}
  /\ studied' = {}
  /\ UNCHANGED <<graph, heads, previous, stage, hand, rest>>

ClientTypeOK ==
  /\ graph \in SUBSET Objects
  /\ heads \in Seq(Trees)
  /\ previous \in Trees
  /\ stage \in Stages
  /\ hand \in AnyHead
  /\ rest \in SUBSET Objects
  /\ studied \in SUBSET Trees
=============================================================================
