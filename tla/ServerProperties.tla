-------------------------- MODULE ServerProperties --------------------------
(***************************************************************************)
(* What the server of treevial promises to those who follow a ref, to the  *)
(* provider behind it and to the application that moves it.                *)
(***************************************************************************)
EXTENDS Server

\* No call of the application is under way.
Quiet == \A a \in Apps : call[a] = Idle

\* The subscriber has been pushed what it was owed and waits to be woken.
Resting(c) == pc[c] = "wait" /\ ~notify[c]

\* A subscriber that waits with no wake-up pending, while no call is under
\* way, was last pushed the head its ref is at: no move of the ref was lost to
\* it ("Every subscriber to the ref moves", SetHead).
RestingIsCurrent ==
  \A c \in Conns : Resting(c) /\ Quiet => owed[c].head = state[my[c]].head

\* A push never finds that its store lacks the head or the baseline it is to be
\* computed from; such a push ends the subscription with a refusal.
PushesSelect ==
  \A c \in Conns :
    pc[c] = "push" => Selects(owed[c].store, synced[c], owed[c].head.hash)

\* Where a published ref points is always in the store the ref has, sweeps
\* included ("either is a head that store cannot serve", refState.current).
PublishedIsServed ==
  \A ref \in PublishedRefs :
    LET st == state[refs[ref]] IN st.head.hash \in holds[st.store] \cup {Void}

\* What the server takes a subscriber to hold is something that its client
\* has said it holds ("never runs ahead of reality", awaitAck).
SyncedWasSaid == \A c \in Conns : synced[c] # Void => synced[c] \in acked[c]

\* On one connection there is an update under way to the client, or its
\* acknowledgement under way or in the channel, but never a second of either: the
\* acknowledgement readAcks drops when the channel is full is never one that
\* awaitAck still needs.
OneAtATime ==
  \A c \in Conns :
    Cardinality({n \in DOMAIN down[c] : down[c][n].kind = "update"})
      + Len(up[c]) + (IF acks[c] = NoAck THEN 0 ELSE 1) <= 1

\* The baseline of a subscriber is in the store of its ref whenever no sweep is
\* under way: the next push can be computed from it (subscriber.ack).
BaselineIsHeld ==
  mu = Free =>
    \A c \in Conns :
      pc[c] \in Joined /\ state[my[c]].ready /\ ~state[my[c]].err /\ pc[c] # "ready" =>
        synced[c] \in holds[state[my[c]].store] \cup {Void}

\* A ref is prepared again only after everything prepared for it was released,
\* and never has two preparations (the contract of Provider).
ProviderAlternates ==
  \A ref \in Refs :
    LET out       == {i \in StateIds : <<ref, i>> \in lent}
        preparing == {c \in Conns : pc[c] = "prepare" /\ reg[c].ref = ref} IN
    Cardinality(out) + Cardinality(preparing) <= 1

\* A ref held through the provider has a subscriber who will see to it that it
\* is released, or is being released.
SomebodyReleases ==
  \A ref \in Refs :
    LET i == refs[ref] IN
    i # 0 /\ ~state[i].published =>
      \/ \E c \in state[i].members : my[c] = i /\ reg[c].ref = ref /\ pc[c] \in Joined
      \/ \E c \in Conns : my[c] = i /\ last[c]
                          /\ pc[c] \in {"unsubscribed", "release", "unlist"}

\* The subscribers that Subscribers lists, for one refState.
Listed(i) == IF state[i].ready /\ state[i].prepared THEN state[i].members ELSE {}

\* The tree a subscriber is said to hold is the one it came with, and not one that
\* it has been sent.
Brought(c) ==
  synced[c] # Void /\ synced[c] = reg[c].hash /\ latest[c].hash # synced[c]

\* When every subscriber to a ref reports Synced equal to Head, no push that
\* carries anything is in flight, so that the store can be rebuilt ("This is
\* how a provider tells whether a ref is quiet", Subscribers), but for one to a
\* client that came with a tree the ref reached only later: it looks as though it
\* had been sent that tree while it is sent the one before.
SyncedMeansEmptyPush ==
  \A ref \in Refs :
    LET i == refs[ref] IN
    i # 0 /\ (\A c \in Listed(i) : synced[c] = state[i].head.hash) =>
      \A c \in {c \in Listed(i) : ~Brought(c)} :
        /\ pc[c] = "push" => owed[c].head.hash = synced[c]
        /\ \A n \in DOMAIN down[c] :
             down[c][n].kind = "update" => down[c][n].head.hash \in {down[c][n].since, Void}

\* Every connection that handle has recorded before Stop looks is closed when Stop has
\* returned, whatever its goroutine was at, unless that goroutine is just about to
\* close it itself ("drops every client", Stop).  One that is recorded later is not
\* in reach of Stop.
StopDropsAll ==
  \A c \in Conns :
    [](c \in conns /\ ~stopped =>
         [](stopped /\ Quiet /\ serverOpen[c] => pc[c] = "shutting"))

\* On one connection a lower sequence never follows a higher one.
SequencesAdvance ==
  [][\A c \in Conns : latest'[c] # latest[c] => latest'[c].seq >= latest[c].seq]_vars

\* Every subscriber that stays ends up with the head of its ref.
EventuallyCurrent ==
  \A c \in Conns :
    <>[](pc[c] \in Joined => pc[c] = "wait" /\ latest[c] = state[my[c]].head)

\* Whoever registers is served or turned away: nobody waits for good on a
\* preparation or a release ("waits for that one answer", connect).
EventuallyAnswered ==
  \A c \in Conns : pc[c] = "join" ~> pc[c] \in {"current", "closing"}

\* What was prepared for a ref that nobody follows any more is given back.
EventuallyReleased ==
  \A ref \in Refs, i \in StateIds :
    <<ref, i>> \in lent /\ state[i].members = {} ~> <<ref, i>> \notin lent

\* After Stop, every goroutine that served a connection comes to its end.
EventuallyDown ==
  stopped ~> \A c \in Conns : pc[c] \in {"idle", "dialled", "done"}
=============================================================================
