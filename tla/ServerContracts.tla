-------------------------- MODULE ServerContracts ---------------------------
(***************************************************************************)
(* What others may rely on, for every number of refs, connections and      *)
(* calls: a provider and Stop; and the subscribers, to whom heads are sent *)
(* and interpreted in their order, so that one who waits with nothing to   *)
(* wake it has been sent the last one.                                     *)
(***************************************************************************)
EXTENDS ServerProofs

USE VoidAssumption, ServerAssumption
    DEF registry, entries, running, stores, session, sync, signals, life, wires, ends,
        outside, calls, client, Goto, Continue, Unlocked

-----------------------------------------------------------------------------
(* The calls of the application, one step of one of them at a time.         *)

Others(a) == \A b \in Apps \ {a} : call'[b] = call[b]

LEMMA BeginsCall ==
  ASSUME TypeInv, NEW a \in Apps, Begins(a)
  PROVE  /\ Others(a) /\ call[a] = Idle /\ pc' = pc
         /\ Orderly => \A c \in Conns : pc[c] \notin Arriving
         /\ \/ call'[a].at \in {"move", "publish"} /\ call'[a].head \in Headings
            \/ call'[a].at \in {"idle", "close", "install", "listener"}
         /\ call'[a].at = "publish" => PublishInsert(a)
<1>1. /\ call[a] = Idle /\ pc' = pc
      /\ Orderly => \A c \in Conns : pc[c] \notin Arriving
  <2>1. CASE SetHeadFind(a)
    BY <2>1 DEF SetHeadFind, Begin
  <2>2. CASE PublishInsert(a)
    BY <2>2 DEF PublishInsert, Begin
  <2>3. CASE Unpublish(a)
    BY <2>3 DEF Unpublish, Begin
  <2>4. CASE SweepCheck(a)
    BY <2>4 DEF SweepCheck, Begin
  <2>5. CASE Stop(a)
    BY <2>5 DEF Stop, Begin
  <2> QED
    BY <2>1, <2>2, <2>3, <2>4, <2>5 DEF Begins
<1>0. call \in [Apps -> Call]
  BY DEF TypeInv, TypeOK
<1>2. /\ Others(a)
      /\ \/ call'[a].at \in {"move", "publish"} /\ call'[a].head \in Headings
         \/ call'[a].at \in {"idle", "close", "install", "listener"}
      /\ call'[a].at = "publish" => PublishInsert(a)
  <2> USE DEF Others
  <2>1. CASE SetHeadFind(a)
    <3>1. PICK ref \in Refs, head \in Headings :
            Continue(a, [Idle EXCEPT !.at = "move", !.ref = ref, !.st = Living(ref),
                                     !.head = head, !.todo = state[Living(ref)].members])
      BY <2>1 DEF SetHeadFind
    <3> QED
      BY <1>0, <3>1 DEF Idle
  <2>2. CASE PublishInsert(a)
    <3>1. PICK ref \in Refs, head \in Headings :
            Continue(a, [Idle EXCEPT !.at = "publish", !.ref = ref, !.st = made + 1,
                                     !.head = head])
      BY <2>2 DEF PublishInsert
    <3> QED
      BY <1>0, <2>2, <3>1 DEF Idle
  <2>3. CASE Unpublish(a)
    BY <1>0, <2>3 DEF Unpublish, Idle
  <2>4. CASE SweepCheck(a)
    BY <1>0, <2>4 DEF SweepCheck, Idle
  <2>5. CASE Stop(a)
    BY <1>0, <2>5 DEF Stop, Idle
  <2> QED
    BY <2>1, <2>2, <2>3, <2>4, <2>5 DEF Begins
<1> QED
  BY <1>1, <1>2

\* What the rest of a call leaves behind it.
LEMMA ContinuesCall ==
  ASSUME TypeInv, NEW a \in Apps, Continues(a)
  PROVE  /\ Others(a) /\ call[a] # Idle /\ pc' = pc
         /\ call'[a].at \in {"wake", "idle", "close", "install", "members", "reset"}
<1>1. call[a] # Idle /\ pc' = pc
  <2>0. Idle.at = "idle"
    BY DEF Idle
  <2>1. CASE SetHeadMove(a)
    BY <2>0, <2>1 DEF SetHeadMove
  <2>2. CASE SetHeadWake(a)
    BY <2>0, <2>2 DEF SetHeadWake
  <2>3. CASE PublishMove(a)
    BY <2>0, <2>3 DEF PublishMove
  <2>4. CASE CloseOne(a)
    BY <2>0, <2>4 DEF CloseOne
  <2>5. CASE SweepInstall(a)
    BY <2>0, <2>5 DEF SweepInstall
  <2>6. CASE SweepKeeps(a)
    BY <2>0, <2>6 DEF SweepKeeps
  <2>7. CASE SweepDrops(a)
    BY <2>0, <2>7 DEF SweepDrops
  <2>8. CASE SweepResets(a)
    BY <2>0, <2>8 DEF SweepResets
  <2>9. CASE StopListener(a)
    BY <2>0, <2>9 DEF StopListener
  <2> QED
    BY <2>1, <2>2, <2>3, <2>4, <2>5, <2>6, <2>7, <2>8, <2>9 DEF Continues
<1>2. call[a] \in Call /\ call \in [Apps -> Call]
  BY DEF TypeInv, TypeOK
<1>4. /\ Others(a)
      /\ call'[a].at \in {"wake", "idle", "close", "install", "members", "reset"}
  <2> USE DEF Others
  <2>0. Idle.at = "idle"
    BY DEF Idle
  <2>1. CASE SetHeadMove(a)
    <3>1. [call[a] EXCEPT !.at = "wake"].at = "wake"
      BY <1>2 DEF Call
    <3>2. Continue(a, [call[a] EXCEPT !.at = "wake"]) \/ Continue(a, Idle)
      BY <2>1 DEF SetHeadMove
    <3> QED
      BY <1>2, <2>0, <3>1, <3>2
  <2>2. CASE SetHeadWake(a) \/ CloseOne(a)
    <3>1. PICK c : TakeOff(a, c, Idle) /\ call[a].at \in {"wake", "close"}
      BY <2>2 DEF SetHeadWake, CloseOne
    <3>2. [call[a] EXCEPT !.todo = @ \ {c}].at = call[a].at
      BY <1>2 DEF Call
    <3> QED
      BY <1>2, <2>0, <3>1, <3>2 DEF TakeOff
  <2>3. CASE PublishMove(a)
    BY <1>2, <2>0, <2>3 DEF PublishMove
  <2>4. ASSUME NEW remaining, SweepOn(a, remaining)
        PROVE  Others(a) /\ call'[a].at \in {"idle", "install"}
    <3>1. [call[a] EXCEPT !.at = "install", !.refs = remaining, !.ref = Free,
                          !.st = 0, !.todo = {}, !.moved = FALSE].at = "install"
      BY <1>2 DEF Call
    <3> QED
      BY <1>2, <2>0, <2>4, <3>1 DEF SweepOn
  <2>5. ASSUME NEW c, SweepNext(a, c)
        PROVE  Others(a) /\ call'[a].at \in {"idle", "install", "members"}
    <3>1. [call[a] EXCEPT !.at = "members", !.todo = @ \ {c}, !.drop = Free].at = "members"
      BY <1>2 DEF Call
    <3>2. CASE SweepOn(a, call[a].refs \ {call[a].ref})
      BY <2>4, <3>2
    <3>3. CASE ~SweepOn(a, call[a].refs \ {call[a].ref})
      BY <1>2, <2>5, <3>1, <3>3 DEF SweepNext
    <3> QED
      BY <3>2, <3>3
  <2>6. CASE SweepInstall(a)
    <3>1. PICK r \in call[a].refs :
            \/ SweepOn(a, call[a].refs \ {r})
            \/ \E named : Continue(a, [call[a] EXCEPT !.at = "members", !.ref = r,
                                    !.st = refs[r], !.todo = state[refs[r]].members,
                                    !.moved = named])
      BY <2>6 DEF SweepInstall
    <3>2. CASE SweepOn(a, call[a].refs \ {r})
      BY <2>4, <3>2
    <3>3. CASE ~SweepOn(a, call[a].refs \ {r})
      <4>1. PICK named : Continue(a, [call[a] EXCEPT !.at = "members", !.ref = r,
                                    !.st = refs[r], !.todo = state[refs[r]].members,
                                    !.moved = named])
        BY <3>1, <3>3
      <4>2. [call[a] EXCEPT !.at = "members", !.ref = r, !.st = refs[r],
                            !.todo = state[refs[r]].members, !.moved = named].at = "members"
        BY <1>2 DEF Call
      <4> QED
        BY <1>2, <4>1, <4>2
    <3> QED
      BY <3>2, <3>3
  <2>7. CASE SweepKeeps(a) \/ SweepResets(a)
    <3>1. PICK c : SweepNext(a, c)
      BY <2>7 DEF SweepKeeps, SweepResets
    <3> QED
      BY <2>5, <3>1
  <2>8. CASE SweepDrops(a)
    <3>1. PICK c : Continue(a, [call[a] EXCEPT !.at = "reset", !.drop = c])
      BY <2>8 DEF SweepDrops
    <3>2. [call[a] EXCEPT !.at = "reset", !.drop = c].at = "reset"
      BY <1>2 DEF Call
    <3> QED
      BY <1>2, <3>1, <3>2
  <2>9. CASE StopListener(a)
    <3>1. [call[a] EXCEPT !.at = "close"].at = "close"
      BY <1>2 DEF Call
    <3>2. Continue(a, [call[a] EXCEPT !.at = "close"]) \/ Continue(a, Idle)
      BY <2>9 DEF StopListener
    <3> QED
      BY <1>2, <2>0, <3>1, <3>2
  <2> QED
    BY <2>1, <2>2, <2>3, <2>6, <2>7, <2>8, <2>9 DEF Continues
<1> QED
  BY <1>1, <1>4

\* The other steps begin and end nothing.
LEMMA ConnsCall ==
  ASSUME NEW c \in Conns, Serves(c) \/ Reads(c) \/ Clients(c)
  PROVE  UNCHANGED calls
<1>1. CASE Reads(c)
  BY <1>1 DEF Reads, ReadAck, ReadFails
<1>2. CASE Clients(c)
  BY <1>2 DEF Clients, Dial, Interpret, HangUp
<1>3. CASE Serves(c)
  <2>1. CASE Accept(c)
    BY <2>1 DEF Accept
  <2>2. CASE Handle(c)
    BY <2>2 DEF Handle
  <2>3. CASE Register(c)
    BY <2>3 DEF Register
  <2>4. CASE RegisterFails(c)
    BY <2>4 DEF RegisterFails
  <2>5. CASE JoinRetiring(c)
    BY <2>5 DEF JoinRetiring
  <2>6. CASE Retired(c)
    BY <2>6 DEF Retired
  <2>7. CASE JoinMembers(c)
    BY <2>7 DEF JoinMembers
  <2>8. CASE JoinFirst(c)
    BY <2>8 DEF JoinFirst
  <2>9. CASE JoinRefused(c)
    BY <2>9 DEF JoinRefused
  <2>10. CASE Prepared(c)
    BY <2>10 DEF Prepared
  <2>11. CASE PrepareFails(c)
    BY <2>11 DEF PrepareFails
  <2>12. CASE Ready(c)
    BY <2>12 DEF Ready
  <2>13. CASE ReadyRefused(c)
    BY <2>13 DEF ReadyRefused
  <2>14. CASE Announce(c)
    BY <2>14 DEF Announce
  <2>15. CASE Current(c)
    BY <2>15 DEF Current
  <2>16. CASE Push(c)
    BY <2>16 DEF Push
  <2>17. CASE PushFails(c)
    BY <2>17 DEF PushFails
  <2>18. CASE TakeAck(c)
    BY <2>18 DEF TakeAck
  <2>19. CASE Record(c)
    BY <2>19 DEF Record
  <2>20. CASE Report(c)
    BY <2>20 DEF Report
  <2>21. CASE Woken(c)
    BY <2>21 DEF Woken
  <2>22. CASE Lost(c)
    BY <2>22 DEF Lost
  <2>23. CASE Leave(c)
    BY <2>23 DEF Leave
  <2>24. CASE Unsubscribed(c)
    BY <2>24 DEF Unsubscribed
  <2>25. CASE Release(c)
    BY <2>25 DEF Release
  <2>26. CASE Unlist(c)
    BY <2>26 DEF Unlist
  <2>27. CASE Refuse(c)
    BY <2>27 DEF Refuse
  <2>28. CASE Delist(c)
    BY <2>28 DEF Delist
  <2>29. CASE Close(c)
    BY <2>29 DEF Close
  <2> QED
    BY <1>3, <2>1, <2>2, <2>3, <2>4, <2>5, <2>6, <2>7, <2>8, <2>9, <2>10, <2>11, <2>12,
       <2>13, <2>14, <2>15, <2>16, <2>17, <2>18, <2>19, <2>20, <2>21, <2>22, <2>23,
       <2>24, <2>25, <2>26, <2>27, <2>28, <2>29 DEF Serves
<1> QED
  BY <1>1, <1>2, <1>3

LEMMA CallStep ==
  ASSUME TypeInv, [Next]_vars
  PROVE  \/ call' = call
         \/ \E a \in Apps : Begins(a) \/ Continues(a)
<1>1. CASE UNCHANGED vars
  BY <1>1 DEF vars
<1>2. CASE \E c \in Conns : Serves(c) \/ Reads(c) \/ Clients(c)
  BY <1>2, ConnsCall
<1> QED
  BY <1>1, <1>2 DEF Next, Rest

-----------------------------------------------------------------------------
(* Preparations.  The refState that a subscriber prepares is one that the   *)
(* application has not published, and nobody else prepares it; whoever is   *)
(* served by a refState has waited until it was ready.                      *)

SameContent ==
  /\ made' = made
  /\ \A i \in StateIds :
       /\ state'[i].published = state[i].published
       /\ state'[i].prepared = state[i].prepared
       /\ state'[i].ready = state[i].ready
       /\ state'[i].err = state[i].err
       /\ state'[i].store = state[i].store
       /\ SameHead(state'[i], state[i])

\* A connection comes or goes; what its refState serves stays as it is.
Passes(c) ==
  \/ JoinRetiring(c) \/ Retired(c) \/ JoinMembers(c) \/ Leave(c) \/ Unsubscribed(c)
  \/ Release(c) \/ Unlist(c) \/ Close(c) \/ Dial(c)

LEMMA PassesContent ==
  ASSUME TypeInv, NEW c \in Conns, Passes(c)
  PROVE  SameContent
<1>1. state \in [StateIds -> RefState]
  BY DEF TypeInv, TypeOK
<1>2. ASSUME UNCHANGED <<state, made>> PROVE SameContent
  BY <1>2 DEF SameContent, SameHead
<1>3. ASSUME NEW i \in StateIds, NEW n, state' = [state EXCEPT ![i] = n], made' = made,
             n.published = state[i].published, n.prepared = state[i].prepared,
             n.ready = state[i].ready, n.err = state[i].err, n.store = state[i].store,
             SameHead(n, state[i])
      PROVE  SameContent
  BY <1>1, <1>3 DEF SameContent, SameHead
<1>4. CASE JoinRetiring(c)
  BY <1>2, <1>4 DEF JoinRetiring
<1>5. CASE Retired(c)
  BY <1>2, <1>5 DEF Retired
<1>6. CASE JoinMembers(c)
  <2> DEFINE i == refs[reg[c].ref]
             n == [state[i] EXCEPT !.members = @ \cup {c}]
  <2>1. i # 0 /\ reg[c].ref \in Refs
    BY <1>6 DEF JoinMembers, Found, TypeInv, SessionOK, Registered
  <2>2. i \in StateIds
    BY <2>1 DEF TypeInv, TypeOK, StateIds
  <2>3. state' = [state EXCEPT ![i] = n] /\ made' = made
    BY <1>1, <1>6, <2>2 DEF JoinMembers, Found
  <2> HIDE DEF i
  <2>4. /\ n.published = state[i].published /\ n.prepared = state[i].prepared
        /\ n.ready = state[i].ready /\ n.err = state[i].err /\ n.store = state[i].store
        /\ SameHead(n, state[i])
    BY <1>1, <2>2 DEF RefState, SameHead
  <2> HIDE DEF n
  <2> QED
    BY <1>3, <2>2, <2>3, <2>4
<1>7. CASE Leave(c)
  <2> DEFINE i == my[c]
             n == [state[i] EXCEPT !.members = @ \ {c}, !.retiring = @ \/ Ends(c)]
  <2>1. i \in StateIds
    BY <1>7 DEF Leave, TypeInv, TypeOK, SessionOK, Bound, Joined, StateIds
  <2>2. state' = [state EXCEPT ![i] = n] /\ made' = made
    BY <1>1, <1>7, <2>1 DEF Leave
  <2> HIDE DEF i
  <2>3. /\ n.published = state[i].published /\ n.prepared = state[i].prepared
        /\ n.ready = state[i].ready /\ n.err = state[i].err /\ n.store = state[i].store
        /\ SameHead(n, state[i])
    BY <1>1, <2>1 DEF RefState, SameHead
  <2> HIDE DEF n
  <2> QED
    BY <1>3, <2>1, <2>2, <2>3
<1>8. CASE Unlist(c)
  <2> DEFINE i == my[c]
             n == [state[i] EXCEPT !.retired = TRUE]
  <2>1. i \in StateIds
    BY <1>8 DEF Unlist, TypeInv, TypeOK, SessionOK, Bound, Joined, StateIds
  <2>2. state' = [state EXCEPT ![i] = n] /\ made' = made
    BY <1>1, <1>8, <2>1 DEF Unlist
  <2> HIDE DEF i
  <2>3. /\ n.published = state[i].published /\ n.prepared = state[i].prepared
        /\ n.ready = state[i].ready /\ n.err = state[i].err /\ n.store = state[i].store
        /\ SameHead(n, state[i])
    BY <1>1, <2>1 DEF RefState, SameHead
  <2> HIDE DEF n
  <2> QED
    BY <1>3, <2>1, <2>2, <2>3
<1>9. CASE Unsubscribed(c)
  BY <1>2, <1>9 DEF Unsubscribed
<1>10. CASE Release(c)
  BY <1>2, <1>10 DEF Release
<1>11. CASE Close(c)
  BY <1>2, <1>11 DEF Close
<1>12. CASE Dial(c)
  BY <1>2, <1>12 DEF Dial
<1> QED
  BY <1>4, <1>5, <1>6, <1>7, <1>8, <1>9, <1>10, <1>11, <1>12 DEF Passes

\* Where a connection goes when it comes or goes.
LEMMA PassesPlaces ==
  ASSUME TypeInv, NEW c \in Conns, Passes(c)
  PROVE  /\ \A d \in Conns \ {c} : pc'[d] = pc[d] /\ my'[d] = my[d] /\ reg'[d] = reg[d]
         /\ pc[c] # "prepare" /\ pc[c] \notin Serving
         /\ \/ pc'[c] \in {"retired", "join"} /\ pc[c] \in Arriving
            \/ pc'[c] \in {"ready", "unsubscribed", "closing", "release", "unlist", "done"}
            \/ Dial(c) /\ pc'[c] = "dialled"
<1>0. /\ pc \in [Conns -> Labels] /\ my \in [Conns -> 0..MaxStates]
      /\ reg \in [Conns -> Registrations \cup {Garbage}]
  BY DEF TypeInv, TypeOK
<1> USE DEF Serving, Arriving
<1>1. CASE JoinRetiring(c)
  BY <1>0, <1>1 DEF JoinRetiring
<1>2. CASE Retired(c)
  BY <1>0, <1>2 DEF Retired
<1>3. CASE JoinMembers(c)
  BY <1>0, <1>3 DEF JoinMembers
<1>4. CASE Leave(c)
  BY <1>0, <1>4 DEF Leave
<1>5. CASE Unsubscribed(c)
  BY <1>0, <1>5 DEF Unsubscribed
<1>6. CASE Release(c)
  BY <1>0, <1>6 DEF Release
<1>7. CASE Unlist(c)
  BY <1>0, <1>7 DEF Unlist
<1>8. CASE Close(c)
  BY <1>0, <1>8 DEF Close
<1>9. CASE Dial(c)
  BY <1>0, <1>9 DEF Dial
<1> QED
  BY <1>1, <1>2, <1>3, <1>4, <1>5, <1>6, <1>7, <1>8, <1>9 DEF Passes

\* The refStates that are there stay as they are when another one is made.
LEMMA MakesState ==
  ASSUME TypeInv
  PROVE  /\ \A c \in Conns : JoinFirst(c) =>
              /\ made' = made + 1 /\ my'[c] = made' /\ my'[c] \in StateIds
              /\ state'[made'] = [NewState EXCEPT !.members = {c}]
              /\ \A i \in StateIds \ {made'} : state'[i] = state[i]
         /\ \A a \in Apps : PublishInsert(a) =>
              /\ made' = made + 1 /\ call'[a].st = made' /\ made' \in StateIds
              /\ state'[made'] = [NewState EXCEPT !.published = TRUE, !.prepared = TRUE,
                                                  !.store = appStore]
              /\ \A i \in StateIds \ {made'} : state'[i] = state[i]
<1>1. /\ state \in [StateIds -> RefState] /\ made \in Nat /\ my \in [Conns -> 0..MaxStates]
      /\ call \in [Apps -> Call]
  BY DEF TypeInv, TypeOK
<1>2. ASSUME NEW c \in Conns, JoinFirst(c)
      PROVE  /\ made' = made + 1 /\ my'[c] = made' /\ my'[c] \in StateIds
             /\ state'[made'] = [NewState EXCEPT !.members = {c}]
             /\ \A i \in StateIds \ {made'} : state'[i] = state[i]
  <2>1. /\ made < MaxStates /\ made' = made + 1
        /\ state' = [state EXCEPT ![made + 1] = [NewState EXCEPT !.members = {c}]]
        /\ my' = [my EXCEPT ![c] = made + 1]
    BY <1>2 DEF JoinFirst
  <2>2. made + 1 \in StateIds
    BY <1>1, <2>1 DEF StateIds
  <2> QED
    BY <1>1, <2>1, <2>2
<1>3. ASSUME NEW a \in Apps, PublishInsert(a)
      PROVE  /\ made' = made + 1 /\ call'[a].st = made' /\ made' \in StateIds
             /\ state'[made'] = [NewState EXCEPT !.published = TRUE, !.prepared = TRUE,
                                                 !.store = appStore]
             /\ \A i \in StateIds \ {made'} : state'[i] = state[i]
  <2>1. /\ made < MaxStates /\ made' = made + 1
        /\ state' = [state EXCEPT ![made + 1] = [NewState EXCEPT !.published = TRUE,
                                                   !.prepared = TRUE, !.store = appStore]]
    BY <1>3 DEF PublishInsert
  <2>2. PICK ref \in Refs, head \in Headings :
            Continue(a, [Idle EXCEPT !.at = "publish", !.ref = ref, !.st = made + 1,
                                     !.head = head])
    BY <1>3 DEF PublishInsert
  <2>3. call'[a].st = made + 1
    BY <1>1, <2>2 DEF Idle
  <2>4. made + 1 \in StateIds
    BY <1>1, <2>1 DEF StateIds
  <2> QED
    BY <1>1, <2>1, <2>3, <2>4
<1> QED
  BY <1>2, <1>3

\* A refState keeps its answer, unless it is the one that is being prepared or
\* published.
LEMMA AnswersStay ==
  ASSUME TypeInv, [Next]_vars, NEW i \in 1..made
  PROVE  /\ i \in StateIds /\ state'[i].published = state[i].published
         /\ state[i].prepared => state'[i].prepared
         /\ \/ state'[i].ready = state[i].ready /\ state'[i].err = state[i].err
            \/ \E c \in Conns : Settles(c) /\ my[c] = i
            \/ /\ state'[i].err = state[i].err /\ state'[i].ready
               /\ \E a \in Apps : call[a].at = "publish" /\ call[a].st = i
<1>0. /\ state \in [StateIds -> RefState] /\ made \in 0..MaxStates /\ i \in StateIds
      /\ \A a \in Apps : call[a].st \in Nat
  BY DEF TypeInv, TypeOK, StateIds, Call
<1>1. CASE state' = state
  BY <1>0, <1>1
<1>2. CASE \E c \in Conns : Settles(c)
  <2>1. PICK c \in Conns : Settles(c)
    BY <1>2
  <2>2. state'[i].published = state[i].published
    BY <1>0, <2>1, SettlesKeepShape DEF SameShape
  <2>3. PICK n : /\ state' = [state EXCEPT ![my[c]] = n]
                 /\ state[my[c]].prepared => n.prepared
    <3>1. state[my[c]] \in RefState
      BY <2>1, SettlesState
    <3>2. Failed(state[my[c]]).prepared = state[my[c]].prepared
      BY <3>1 DEF Failed, RefState
    <3>3. \A head \in Headings : Answered(state[my[c]], my[c], head).prepared
      <4> TAKE head \in Headings
      <4>1. Move(state[my[c]], head) \in RefState
        BY <3>1, MoveType
      <4> QED
        BY <4>1 DEF Answered, RefState
    <3> QED
      BY <2>1, <3>2, <3>3, SettlesState
  <2>4. CASE my[c] = i
    BY <1>0, <2>1, <2>2, <2>3, <2>4
  <2>5. CASE my[c] # i
    BY <1>0, <2>3, <2>5
  <2> QED
    BY <2>4, <2>5
<1>3. CASE \E a \in Apps : HeadStep(a)
  <2>1. PICK a \in Apps : HeadStep(a)
    BY <1>3
  <2>2. PICK j \in StateIds, n \in RefState :
              /\ state' \in {state, [state EXCEPT ![j] = n]}
              /\ Puts(a, j, n)
    BY <2>1, HeadStepState
  <2>3. /\ n.published = state[j].published /\ n.err = state[j].err
        /\ n.prepared = state[j].prepared
        /\ \/ n.ready = state[j].ready
           \/ n.ready /\ call[a].at = "publish" /\ j = call[a].st
    BY <2>2 DEF Puts
  <2>4. CASE state' = state
    BY <1>1, <2>4
  <2>5. CASE state' = [state EXCEPT ![j] = n]
    <3>1. CASE i # j
      BY <1>0, <2>5, <3>1
    <3>2. CASE i = j
      <4>1. state'[i] = n
        BY <1>0, <2>5, <3>2
      <4> QED
        BY <1>0, <2>3, <3>2, <4>1
    <3> QED
      BY <3>1, <3>2
  <2> QED
    BY <2>2, <2>4, <2>5
<1>4. CASE \E c \in Conns : Passes(c)
  BY <1>0, <1>4, PassesContent DEF SameContent
<1>5. CASE \/ \E c \in Conns : JoinFirst(c)
           \/ \E a \in Apps : PublishInsert(a)
  <2>1. made' = made + 1 /\ \A j \in StateIds \ {made'} : state'[j] = state[j]
    BY <1>5, MakesState
  <2>2. i # made'
    BY <1>0, <2>1
  <2> QED
    BY <1>0, <2>1, <2>2
<1>6. \/ UNCHANGED regVars
      \/ \E a \in Apps : Unpublish(a)
      \/ \E c \in Conns : Walk(c)
      => state' = state
  BY DEF regVars, Unpublish, Walk
<1> QED
  BY <1>1, <1>2, <1>3, <1>4, <1>5, <1>6, RegistryStep DEF Passes

\* How a connection comes to one of the labels these invariants are about.
LEMMA Enters ==
  ASSUME TypeInv, [Next]_vars, NEW c \in Conns
  PROVE  /\ pc'[c] = "prepare" =>
              \/ JoinFirst(c)
              \/ pc[c] = "prepare" /\ ~Settles(c) /\ my'[c] = my[c]
         /\ pc'[c] \in Serving =>
              /\ my'[c] = my[c] /\ my[c] \in 1..made
              /\ pc[c] \in Serving \/ (state' = state /\ state[my[c]].ready /\ ~state[my[c]].err)
         /\ pc'[c] \in Arriving => pc[c] \in Arriving \/ Dial(c)
<1>0. /\ pc \in [Conns -> Labels] /\ my \in [Conns -> 0..MaxStates]
      /\ \A d \in Conns : pc[d] \in Joined => my[d] \in 1..made
  BY DEF TypeInv, TypeOK, SessionOK, Bound
<1> DEFINE P == /\ pc'[c] = "prepare" =>
                     \/ JoinFirst(c)
                     \/ pc[c] = "prepare" /\ ~Settles(c) /\ my'[c] = my[c]
                /\ pc'[c] \in Serving =>
                     /\ my'[c] = my[c] /\ my[c] \in 1..made
                     /\ \/ pc[c] \in Serving
                        \/ state' = state /\ state[my[c]].ready /\ ~state[my[c]].err
                /\ pc'[c] \in Arriving => pc[c] \in Arriving \/ Dial(c)
<1>1. ASSUME pc'[c] = pc[c], my'[c] = my[c] PROVE P
  <2>1. ~Settles(c) \/ pc'[c] # pc[c]
    BY <1>0, SettlesState
  <2> QED
    BY <1>0, <1>1, <2>1 DEF Serving, Joined
<1>2. ASSUME NEW d \in Conns, Walk(d) PROVE P
  <2>1. PICK label \in Labels :
          /\ pc' = [pc EXCEPT ![d] = label]
          /\ label \in Arriving => pc[d] \in Arriving
          /\ (label \in Serving /\ pc[d] \notin Serving) => (state[my[d]].ready /\ ~state[my[d]].err)
          /\ \/ pc[d] \in Joined \ {"prepare"} /\ label \in Joined \ {"prepare"}
             \/ pc[d] \in Apart \ {"idle", "done"} /\ label \in Apart \ {"idle", "done"}
    BY <1>2 DEF Walk
  <2>2. state' = state /\ my' = my
    BY <1>2 DEF Walk
  <2>3. CASE d = c
    <3>1. label # "prepare" /\ (label \in Serving => pc[c] \in Joined)
      BY <2>1, <2>3 DEF Apart, Serving
    <3> QED
      BY <1>0, <2>1, <2>2, <2>3, <3>1
  <2>4. CASE d # c
    BY <1>0, <1>1, <2>1, <2>2, <2>4
  <2> QED
    BY <2>3, <2>4
<1>3. ASSUME NEW d \in Conns, Settles(d) PROVE P
  <2>1. pc' = [pc EXCEPT ![d] = "ready"] /\ my' = my
    BY <1>3, SettlesState
  <2>2. CASE d = c
    BY <1>0, <2>1, <2>2 DEF Serving, Arriving
  <2>3. CASE d # c
    BY <1>0, <1>1, <2>1, <2>3
  <2> QED
    BY <2>2, <2>3
<1>4. ASSUME NEW d \in Conns, Passes(d) PROVE P
  <2>1. CASE d = c
    BY <1>4, <2>1, PassesPlaces DEF Serving, Arriving
  <2>2. CASE d # c
    BY <1>1, <1>4, <2>2, PassesPlaces
  <2> QED
    BY <2>1, <2>2
<1>5. ASSUME NEW d \in Conns, JoinFirst(d) PROVE P
  <2>1. /\ pc' = [pc EXCEPT ![d] = "prepare"]
        /\ my' = [my EXCEPT ![d] = made + 1]
    BY <1>5 DEF JoinFirst
  <2>2. CASE d = c
    BY <1>0, <1>5, <2>1, <2>2 DEF Serving, Arriving
  <2>3. CASE d # c
    <3>1. pc'[c] = pc[c] /\ my'[c] = my[c]
      BY <1>0, <2>1, <2>3
    <3> QED
      BY <1>1, <3>1
  <2> QED
    BY <2>2, <2>3
<1>6. ASSUME NEW a \in Apps, HeadStep(a) \/ PublishInsert(a) \/ Unpublish(a) PROVE P
  <2>1. HeadStep(a) => pc' = pc /\ my' = my
    BY HeadStepState
  <2> QED
    BY <1>1, <1>6, <2>1 DEF PublishInsert, Unpublish
<1>7. UNCHANGED regVars => P
  BY <1>1 DEF regVars
<1> HIDE DEF P
<1>8. P
  BY <1>2, <1>3, <1>4, <1>5, <1>6, <1>7, RegistryStep DEF Passes
<1> QED
  BY <1>8 DEF P

PubOK == \A a \in Apps : call[a].at = "publish" => state[call[a].st].published

PrepOK ==
  /\ \A c \in Conns : pc[c] = "prepare" => ~state[my[c]].published /\ ~state[my[c]].ready
  /\ \A c, d \in Conns : pc[c] = "prepare" /\ pc[d] = "prepare" /\ my[c] = my[d] => c = d

ReadyOK == \A c \in Conns : pc[c] \in Serving => state[my[c]].ready /\ ~state[my[c]].err

\* Orderly: no call is under way while a connection is on its way to its ref.
QuietOK == Orderly /\ (\E a \in Apps : call[a] # Idle) => \A c \in Conns : pc[c] \notin Arriving

AnswerOK == PubOK /\ PrepOK /\ ReadyOK /\ QuietOK

LEMMA InitAnswer == Init => AnswerOK
BY DEF Init, AnswerOK, PubOK, PrepOK, ReadyOK, QuietOK, Serving, Idle

LEMMA StepAnswer == TypeInv /\ AnswerOK /\ [Next]_vars => AnswerOK'
<1> SUFFICES ASSUME TypeInv, AnswerOK, [Next]_vars PROVE AnswerOK'
  OBVIOUS
<1> USE DEF AnswerOK
<1>0. /\ made \in 0..MaxStates /\ call \in [Apps -> Call]
      /\ \A d \in Conns : pc[d] \in Joined => my[d] \in 1..made
      /\ \A a \in Apps : call[a].at \in {"move", "publish"} => call[a].st \in 1..made
  BY DEF TypeInv, TypeOK, SessionOK, Bound, CallOK
<1>1. PubOK'
  <2> SUFFICES ASSUME NEW a \in Apps, call'[a].at = "publish" PROVE state'[call'[a].st].published
    BY DEF PubOK
  <2>1. call'[a] = call[a] \/ Begins(a)
    <3>1. CASE call' = call
      BY <3>1
    <3>2. ASSUME NEW b \in Apps, Begins(b) \/ Continues(b) PROVE call'[a] = call[a] \/ Begins(a)
      <4>1. Others(b)
        BY <3>2, BeginsCall, ContinuesCall
      <4>2. CASE a # b
        BY <4>1, <4>2 DEF Others
      <4>3. CASE a = b
        BY <3>2, <4>3, ContinuesCall
      <4> QED
        BY <4>2, <4>3
    <3> QED
      BY <3>1, <3>2, CallStep
  <2>2. CASE call'[a] = call[a]
    <3>1. call[a].st \in 1..made /\ state[call[a].st].published
      BY <1>0, <2>2 DEF PubOK
    <3> QED
      BY <2>2, <3>1, AnswersStay
  <2>3. CASE Begins(a)
    <3>1. PublishInsert(a)
      BY <2>3, BeginsCall
    <3>2. /\ call'[a].st = made'
          /\ state'[made'] = [NewState EXCEPT !.published = TRUE, !.prepared = TRUE,
                                              !.store = appStore]
      BY <3>1, MakesState
    <3> QED
      BY <3>2 DEF NewState
  <2> QED
    BY <2>1, <2>2, <2>3
<1>2. \A c \in Conns : pc'[c] = "prepare" =>
         \/ JoinFirst(c)
         \/ /\ pc[c] = "prepare" /\ my'[c] = my[c] /\ my[c] \in 1..made
            /\ ~state'[my[c]].published /\ ~state'[my[c]].ready
  <2> SUFFICES ASSUME NEW c \in Conns, pc'[c] = "prepare", ~JoinFirst(c)
               PROVE  /\ pc[c] = "prepare" /\ my'[c] = my[c] /\ my[c] \in 1..made
                      /\ ~state'[my[c]].published /\ ~state'[my[c]].ready
    OBVIOUS
  <2>1. pc[c] = "prepare" /\ ~Settles(c) /\ my'[c] = my[c] /\ my[c] \in 1..made
    BY <1>0, Enters DEF Joined
  <2>2. ~state[my[c]].published /\ ~state[my[c]].ready
    BY <2>1 DEF PrepOK
  <2>3. ~\E d \in Conns : Settles(d) /\ my[d] = my[c]
    <3> SUFFICES ASSUME NEW d \in Conns, Settles(d), my[d] = my[c] PROVE FALSE
      OBVIOUS
    <3>1. pc[d] = "prepare"
      BY SettlesState
    <3> QED
      BY <2>1, <3>1 DEF PrepOK
  <2>4. ~\E a \in Apps : call[a].at = "publish" /\ call[a].st = my[c]
    BY <2>2 DEF PubOK
  <2> QED
    BY <2>1, <2>2, <2>3, <2>4, AnswersStay
<1>3. PrepOK'
  <2>1. \A c \in Conns : JoinFirst(c) =>
          /\ my'[c] = made + 1
          /\ ~state'[my'[c]].published /\ ~state'[my'[c]].ready
    <3> SUFFICES ASSUME NEW c \in Conns, JoinFirst(c)
                 PROVE  /\ my'[c] = made + 1
                        /\ ~state'[my'[c]].published /\ ~state'[my'[c]].ready
      OBVIOUS
    <3>1. /\ made' = made + 1 /\ my'[c] = made'
          /\ state'[made'] = [NewState EXCEPT !.members = {c}]
      BY MakesState
    <3> QED
      BY <3>1 DEF NewState
  <2>2. \A c \in Conns : JoinFirst(c) => pc' = [pc EXCEPT ![c] = "prepare"] /\ pc[c] = "join"
    BY DEF JoinFirst
  <2>3. \A c, d \in Conns : JoinFirst(c) /\ JoinFirst(d) => c = d
    <3> SUFFICES ASSUME NEW c \in Conns, NEW d \in Conns, JoinFirst(c), JoinFirst(d), c # d
                 PROVE  FALSE
      OBVIOUS
    <3>1. pc \in [Conns -> Labels]
      BY DEF TypeInv, TypeOK
    <3>2. pc'[d] = "prepare" /\ pc'[d] = pc[d] /\ pc[d] = "join"
      BY <2>2, <3>1
    <3> QED
      BY <3>2
  <2>4. \A c \in Conns : pc'[c] = "prepare" => ~state'[my'[c]].published /\ ~state'[my'[c]].ready
    BY <1>2, <2>1
  <2>5. \A c, d \in Conns : pc'[c] = "prepare" /\ pc'[d] = "prepare" /\ my'[c] = my'[d] => c = d
    <3> SUFFICES ASSUME NEW c \in Conns, NEW d \in Conns,
                        pc'[c] = "prepare", pc'[d] = "prepare", my'[c] = my'[d]
                 PROVE  c = d
      OBVIOUS
    <3>1. CASE JoinFirst(c)
      BY <1>0, <1>2, <2>1, <2>3, <3>1
    <3>2. CASE JoinFirst(d)
      BY <1>0, <1>2, <2>1, <2>3, <3>2
    <3>3. CASE ~JoinFirst(c) /\ ~JoinFirst(d)
      BY <1>2, <3>3 DEF PrepOK
    <3> QED
      BY <3>1, <3>2, <3>3
  <2> QED
    BY <2>4, <2>5 DEF PrepOK
<1>4. ReadyOK'
  <2> SUFFICES ASSUME NEW c \in Conns, pc'[c] \in Serving
               PROVE  state'[my'[c]].ready /\ ~state'[my'[c]].err
    BY DEF ReadyOK
  <2>1. my'[c] = my[c] /\ my[c] \in 1..made
    BY Enters
  <2>2. CASE state' = state /\ state[my[c]].ready /\ ~state[my[c]].err
    BY <2>1, <2>2
  <2>3. CASE pc[c] \in Serving
    <3>1. state[my[c]].ready /\ ~state[my[c]].err
      BY <2>3 DEF ReadyOK
    <3>2. ~\E d \in Conns : Settles(d) /\ my[d] = my[c]
      BY <3>1, SettlesState DEF PrepOK
    <3> QED
      BY <2>1, <3>1, <3>2, AnswersStay
  <2> QED
    BY <2>2, <2>3, Enters
<1>5. QuietOK'
  <2> SUFFICES ASSUME Orderly, NEW a \in Apps, call'[a] # Idle,
                      NEW c \in Conns, pc'[c] \in Arriving
               PROVE  FALSE
    BY DEF QuietOK
  <2>1. CASE call' = call
    <3>1. pc[c] \notin Arriving
      BY <2>1 DEF QuietOK
    <3>2. ~Dial(c)
      BY <2>1 DEF Dial
    <3> QED
      BY <3>1, <3>2, Enters
  <2>2. ASSUME NEW b \in Apps, Begins(b) PROVE FALSE
    BY <2>2, BeginsCall
  <2>3. ASSUME NEW b \in Apps, Continues(b) PROVE FALSE
    BY <2>3, ContinuesCall DEF QuietOK
  <2> QED
    BY <2>1, <2>2, <2>3, CallStep
<1> QED
  BY <1>1, <1>3, <1>4, <1>5

\* One goroutine at a time prepares an entry, which is not published nor answered
\* yet; whoever is served has found his entry ready and without an error; and with
\* Orderly nobody is on his way to a ref during a call (connect, prepare, Publish).
THEOREM AnswersKept == Spec => []AnswerOK
<1>1. Init => AnswerOK
  BY InitAnswer
<1>2. TypeInv /\ AnswerOK /\ [Next]_vars => AnswerOK'
  BY StepAnswer
<1> QED
  BY <1>1, <1>2, TypesKept, PTL DEF Spec

-----------------------------------------------------------------------------
(* The kind of a ref.  Whatever moves a head, it was named by the provider   *)
(* or the application; if all they name is of one kind, no head is refused   *)
(* for being of the other.                                                   *)

\* The application and the provider name heads of one kind only.
OneKind == \A h, k \in Headings : Ordered(h) = Ordered(k)

\* The head of a refState is as it was, as in a new one, or was moved.
LEMMA HeadsMove ==
  ASSUME TypeInv, [Next]_vars, NEW i \in StateIds
  PROVE  \/ SameHead(state'[i], state[i])
         \/ SameHead(state'[i], NewState) /\ i = made + 1
         \/ /\ i \in 1..made
            /\ \E head \in AnyHead :
                 /\ head \in Headings \/ \E a \in Apps : Carries(a, head)
                 /\ SameHead(state'[i], Move(state[i], head))
<1>0. state \in [StateIds -> RefState] /\ made \in 0..MaxStates
  BY DEF TypeInv, TypeOK
<1>1. state' = state => SameHead(state'[i], state[i])
  BY DEF SameHead
<1>2. ASSUME NEW c \in Conns, Settles(c)
      PROVE  \/ SameHead(state'[i], state[i])
             \/ /\ i \in 1..made
                /\ \E head \in AnyHead :
                     head \in Headings /\ SameHead(state'[i], Move(state[i], head))
  <2>1. my[c] \in StateIds /\ my[c] \in 1..made /\ state[my[c]] \in RefState
    BY <1>2, SettlesState
  <2>2. CASE i # my[c]
    <3>1. PICK n : state' = [state EXCEPT ![my[c]] = n]
      BY <1>2, SettlesState
    <3> QED
      BY <1>0, <2>2, <3>1 DEF SameHead
  <2>3. CASE i = my[c] /\ state' = [state EXCEPT ![i] = Failed(state[i])]
    <3>1. SameHead(Failed(state[i]), state[i])
      BY <2>1, <2>3 DEF Failed, RefState, SameHead
    <3> QED
      BY <1>0, <2>3, <3>1
  <2>4. ASSUME NEW head \in Headings, i = my[c], state' = [state EXCEPT ![i] = Answered(state[i], i, head)]
        PROVE  head \in AnyHead /\ SameHead(state'[i], Move(state[i], head))
    <3>1. Move(state[i], head) \in RefState
      BY <2>1, <2>4, MoveType
    <3>2. SameHead(Answered(state[i], i, head), Move(state[i], head))
      BY <3>1 DEF Answered, RefState, SameHead
    <3> QED
      BY <1>0, <2>4, <3>2
  <2> QED
    BY <1>2, <2>1, <2>2, <2>3, <2>4, SettlesState
<1>3. ASSUME NEW a \in Apps, HeadStep(a)
      PROVE  \/ SameHead(state'[i], state[i])
             \/ /\ i \in 1..made
                /\ \E head \in AnyHead :
                     Carries(a, head) /\ SameHead(state'[i], Move(state[i], head))
  <2>1. PICK j \in StateIds, n \in RefState :
              /\ j \in 1..made
              /\ state' \in {state, [state EXCEPT ![j] = n]}
              /\ Puts(a, j, n)
    BY <1>3, HeadStepState
  <2>2. CASE state' = state \/ i # j
    BY <1>0, <2>1, <2>2 DEF SameHead
  <2>3. CASE i = j /\ state' = [state EXCEPT ![j] = n]
    <3>1. state'[i] = n
      BY <1>0, <2>3
    <3> QED
      BY <2>1, <2>3, <3>1 DEF Puts
  <2> QED
    BY <2>1, <2>2, <2>3
<1>4. ASSUME NEW c \in Conns, Passes(c) PROVE SameHead(state'[i], state[i])
  BY <1>4, PassesContent DEF SameContent
<1>5. ASSUME NEW c \in Conns, JoinFirst(c)
      PROVE  SameHead(state'[i], state[i]) \/ (SameHead(state'[i], NewState) /\ i = made + 1)
  <2>1. /\ made' = made + 1 /\ state'[made'] = [NewState EXCEPT !.members = {c}]
        /\ \A j \in StateIds \ {made'} : state'[j] = state[j]
    BY <1>5, MakesState
  <2>2. SameHead([NewState EXCEPT !.members = {c}], NewState)
    BY DEF NewState, SameHead
  <2> QED
    BY <2>1, <2>2 DEF SameHead
<1>6. ASSUME NEW a \in Apps, PublishInsert(a)
      PROVE  SameHead(state'[i], state[i]) \/ (SameHead(state'[i], NewState) /\ i = made + 1)
  <2>1. /\ made' = made + 1
        /\ state'[made'] = [NewState EXCEPT !.published = TRUE, !.prepared = TRUE,
                                            !.store = appStore]
        /\ \A j \in StateIds \ {made'} : state'[j] = state[j]
    BY <1>6, MakesState
  <2>2. SameHead([NewState EXCEPT !.published = TRUE, !.prepared = TRUE,
                                  !.store = appStore], NewState)
    <3>1. \A st \in RefState : \A s : SameHead([st EXCEPT !.published = TRUE, !.prepared = TRUE,
                                                      !.store = s], st)
      BY DEF RefState, SameHead
    <3> QED
      BY <3>1, NewStateType
  <2> QED
    BY <2>1, <2>2 DEF SameHead
<1>7. \/ UNCHANGED regVars
      \/ \E a \in Apps : Unpublish(a)
      \/ \E c \in Conns : Walk(c)
      => state' = state
  BY DEF regVars, Unpublish, Walk
<1> QED
  BY <1>1, <1>2, <1>3, <1>4, <1>5, <1>6, <1>7, RegistryStep DEF Passes

\* A head that a call has yet to move was named by the application.
NamedOK == \A a \in Apps : call[a].at \in {"move", "publish"} => call[a].head \in Headings

LEMMA StepNamed == TypeInv /\ NamedOK /\ [Next]_vars => NamedOK'
<1> SUFFICES ASSUME TypeInv, NamedOK, [Next]_vars, NEW a \in Apps,
                    call'[a].at \in {"move", "publish"}
             PROVE  call'[a].head \in Headings
  BY DEF NamedOK
<1>1. CASE call'[a] = call[a]
  BY <1>1 DEF NamedOK
<1>2. ASSUME NEW b \in Apps, Begins(b) PROVE call'[a].head \in Headings
  <2>1. CASE a = b
    BY <1>2, <2>1, BeginsCall
  <2>2. CASE a # b
    BY <1>1, <1>2, <2>2, BeginsCall DEF Others
  <2> QED
    BY <2>1, <2>2
<1>3. ASSUME NEW b \in Apps, Continues(b) PROVE call'[a].head \in Headings
  <2>1. CASE a = b
    BY <1>3, <2>1, ContinuesCall
  <2>2. CASE a # b
    BY <1>1, <1>3, <2>2, ContinuesCall DEF Others
  <2> QED
    BY <2>1, <2>2
<1> QED
  BY <1>1, <1>2, <1>3, CallStep

KindOK == \A i \in StateIds : state[i].installed => \A h \in Headings : state[i].sequenced = Ordered(h)

LEMMA StepKind ==
  OneKind /\ TypeInv /\ NamedOK /\ KindOK /\ [Next]_vars => KindOK'
<1> SUFFICES ASSUME OneKind, TypeInv, NamedOK, KindOK, [Next]_vars, NEW i \in StateIds,
                    state'[i].installed, NEW h \in Headings
             PROVE  state'[i].sequenced = Ordered(h)
  BY DEF KindOK
<1>1. CASE SameHead(state'[i], state[i])
  BY <1>1 DEF SameHead, KindOK
<1>2. CASE SameHead(state'[i], NewState)
  BY <1>2 DEF SameHead, NewState
<1>3. ASSUME NEW head \in AnyHead, head \in Headings \/ \E a \in Apps : Carries(a, head),
             SameHead(state'[i], Move(state[i], head))
      PROVE  state'[i].sequenced = Ordered(h)
  <2>1. head \in Headings
    BY <1>3 DEF Carries, NamedOK
  <2>2. state[i] \in RefState
    BY DEF TypeInv, TypeOK
  <2>3. CASE Moves(state[i], head)
    <3>1. Move(state[i], head).sequenced = Ordered(head)
      BY <2>2, <2>3 DEF Move, RefState
    <3>2. Ordered(head) = Ordered(h)
      BY <2>1 DEF OneKind
    <3> QED
      BY <1>3, <3>1, <3>2 DEF SameHead
  <2>4. CASE ~Moves(state[i], head)
    <3>1. Move(state[i], head) = state[i]
      BY <2>4 DEF Move
    <3> QED
      BY <1>1, <1>3, <3>1
  <2> QED
    BY <2>3, <2>4
<1> QED
  BY <1>1, <1>2, <1>3, HeadsMove

-----------------------------------------------------------------------------
(* What is lent belongs to an entry of the registry until it has been given  *)
(* back, and neither who prepares an entry nor who takes it out holds it.    *)

LentOK ==
  /\ \A r \in Refs, i \in StateIds :
       <<r, i>> \in lent => refs[r] = i /\ ~state[i].published /\ state[i].prepared
  /\ \A c \in Conns : pc[c] = "prepare" =>
       refs[reg[c].ref] = my[c] /\ <<reg[c].ref, my[c]>> \notin lent
  /\ \A c \in Conns : pc[c] = "unlist" => <<reg[c].ref, my[c]>> \notin lent

\* Steps that lend nothing and start no preparation.
LEMMA LentStays ==
  ASSUME TypeInv, LentOK, [Next]_vars, lent' \subseteq lent,
         \A r \in Refs, i \in StateIds : <<r, i>> \in lent' => refs'[r] = refs[r],
         \A c \in Conns : pc'[c] = "prepare" =>
           /\ pc[c] = "prepare" /\ my'[c] = my[c] /\ reg'[c] = reg[c]
           /\ refs'[reg[c].ref] = refs[reg[c].ref],
         \A c \in Conns : pc'[c] = "unlist" => <<reg'[c].ref, my'[c]>> \notin lent'
  PROVE  LentOK'
<1>1. \A r \in Refs, i \in StateIds :
        <<r, i>> \in lent' => refs'[r] = i /\ ~state'[i].published /\ state'[i].prepared
  <2> SUFFICES ASSUME NEW r \in Refs, NEW i \in StateIds, <<r, i>> \in lent'
               PROVE  refs'[r] = i /\ ~state'[i].published /\ state'[i].prepared
    OBVIOUS
  <2>1. refs[r] = i /\ ~state[i].published /\ state[i].prepared /\ refs'[r] = i
    BY DEF LentOK
  <2>2. i \in 1..made
    BY <2>1 DEF TypeInv, RegistryOK, StateIds
  <2> QED
    BY <2>1, <2>2, AnswersStay
<1>2. \A c \in Conns : pc'[c] = "prepare" =>
        refs'[reg'[c].ref] = my'[c] /\ <<reg'[c].ref, my'[c]>> \notin lent'
  BY DEF LentOK
<1> QED
  BY <1>1, <1>2 DEF LentOK

\* Nobody hands back what is still being prepared.
LEMMA PreparedApart ==
  ASSUME TypeInv, RegOK, NEW c \in Conns, NEW d \in Conns,
         pc[c] = "prepare", pc[d] \in Ending, last[d]
  PROVE  my[c] # my[d]
<1>1. c \in state[my[c]].members
  BY DEF RegOK, MembersOK, Joined
<1>2. state[my[d]].retiring /\ my[d] \in StateIds
  BY DEF RegOK, RetiringOK, TypeInv, TypeOK, SessionOK, Bound, Ending, StateIds
<1>3. state[my[d]].members = {}
  BY <1>2 DEF RegOK, RetiringOK
<1> QED
  BY <1>1, <1>3

LEMMA SettlesLent ==
  ASSUME OneKind, TypeInv, RegOK, PrepOK, KindOK, LentOK, [Next]_vars, NEW c \in Conns, Settles(c)
  PROVE  LentOK'
<1> DEFINE i == my[c]
           ref == reg[c].ref
<1>0. /\ pc \in [Conns -> Labels] /\ pc[c] = "prepare" /\ i \in StateIds /\ i \in 1..made
      /\ pc' = [pc EXCEPT ![c] = "ready"] /\ my' = my /\ reg' = reg /\ ref \in Refs
      /\ refs \in [Refs -> 0..MaxStates] /\ state \in [StateIds -> RefState]
  BY SettlesState DEF TypeInv, TypeOK
<1>1. refs[ref] = i /\ <<ref, i>> \notin lent /\ ~state[i].published
  BY <1>0 DEF LentOK, PrepOK
<1>2. \A d \in Conns : pc'[d] = "prepare" =>
        pc[d] = "prepare" /\ my[d] # i /\ refs[reg[d].ref] = my[d] /\ <<reg[d].ref, my[d]>> \notin lent
  <2> SUFFICES ASSUME NEW d \in Conns, pc'[d] = "prepare"
               PROVE  /\ pc[d] = "prepare" /\ my[d] # i
                      /\ refs[reg[d].ref] = my[d] /\ <<reg[d].ref, my[d]>> \notin lent
    OBVIOUS
  <2>1. d # c /\ pc[d] = "prepare"
    BY <1>0
  <2> QED
    BY <1>0, <2>1 DEF PrepOK, LentOK
<1>3. \A d \in Conns : pc'[d] = "unlist" =>
        pc[d] = "unlist" /\ my[d] # i /\ <<reg[d].ref, my[d]>> \notin lent
  <2> SUFFICES ASSUME NEW d \in Conns, pc'[d] = "unlist"
               PROVE  pc[d] = "unlist" /\ my[d] # i /\ <<reg[d].ref, my[d]>> \notin lent
    OBVIOUS
  <2>1. d # c /\ pc[d] = "unlist"
    BY <1>0
  <2>2. last[d] /\ pc[d] \in Ending
    BY <2>1 DEF RegOK, RetiringOK, Ending
  <2> QED
    BY <1>0, <2>1, <2>2, PreparedApart DEF LentOK
<1>4. CASE /\ refs' = refs /\ lent' = lent \cup {<<ref, i>>}
           /\ \E head \in Headings : state' = [state EXCEPT ![i] = Answered(state[i], i, head)]
  <2>1. ~state'[i].published /\ state'[i].prepared
    <3>1. PICK head \in Headings : state' = [state EXCEPT ![i] = Answered(state[i], i, head)]
      BY <1>4
    <3>2. Move(state[i], head) \in RefState
      BY <1>0, MoveType
    <3>3. Answered(state[i], i, head).prepared
      BY <3>2 DEF Answered, RefState
    <3>4. state'[i].published = state[i].published
      BY <1>0, AnswersStay
    <3> QED
      BY <1>0, <1>1, <3>1, <3>3, <3>4
  <2>2. \A r \in Refs, j \in StateIds :
          <<r, j>> \in lent' => refs'[r] = j /\ ~state'[j].published /\ state'[j].prepared
    <3> SUFFICES ASSUME NEW r \in Refs, NEW j \in StateIds, <<r, j>> \in lent'
                 PROVE  refs'[r] = j /\ ~state'[j].published /\ state'[j].prepared
      OBVIOUS
    <3>1. CASE <<r, j>> = <<ref, i>>
      BY <1>1, <1>4, <2>1, <3>1
    <3>2. CASE <<r, j>> \in lent
      <4>1. refs[r] = j /\ ~state[j].published /\ state[j].prepared
        BY <3>2 DEF LentOK
      <4>2. j \in 1..made
        BY <4>1 DEF TypeInv, RegistryOK, StateIds
      <4> QED
        BY <1>4, <4>1, <4>2, AnswersStay
    <3> QED
      BY <1>4, <3>1, <3>2
  <2>3. \A d \in Conns : pc'[d] \in {"prepare", "unlist"} => <<reg'[d].ref, my'[d]>> \notin lent'
    BY <1>0, <1>2, <1>3, <1>4
  <2> QED
    BY <1>0, <1>2, <1>4, <2>2, <2>3 DEF LentOK
<1>5. CASE refs' = Forget(ref, i) /\ lent' = lent
  <2>1. \A r \in Refs : refs[r] # i => refs'[r] = refs[r]
    BY <1>0, <1>5 DEF Forget
  <2>2. \A r \in Refs, j \in StateIds : <<r, j>> \in lent' => refs'[r] = refs[r]
    <3> SUFFICES ASSUME NEW r \in Refs, NEW j \in StateIds, <<r, j>> \in lent
                 PROVE  refs'[r] = refs[r]
      BY <1>5
    <3>1. refs[r] = j
      BY DEF LentOK
    <3>2. j # i
      <4>1. ref = r \/ refs[r] # i
        BY <1>0, <1>1 DEF RegOK, EntriesOK, StateIds
      <4> QED
        BY <1>1, <3>1, <4>1
    <3> QED
      BY <2>1, <3>1, <3>2
  <2>3. \A d \in Conns : pc'[d] = "prepare" =>
          /\ pc[d] = "prepare" /\ my'[d] = my[d] /\ reg'[d] = reg[d]
          /\ refs'[reg[d].ref] = refs[reg[d].ref]
    <3> SUFFICES ASSUME NEW d \in Conns, pc'[d] = "prepare"
                 PROVE  pc[d] = "prepare" /\ refs'[reg[d].ref] = refs[reg[d].ref]
      BY <1>0
    <3>1. pc[d] = "prepare" /\ reg[d].ref \in Refs
      BY <1>2 DEF TypeInv, SessionOK, Registered, Joined
    <3> QED
      BY <1>2, <2>1, <3>1
  <2>4. \A d \in Conns : pc'[d] = "unlist" => <<reg'[d].ref, my'[d]>> \notin lent'
    BY <1>0, <1>3, <1>5
  <2> QED
    BY <1>5, <2>2, <2>3, <2>4, LentStays
<1>6. \A head \in Headings : Allows(state[i], head)
  BY <1>0 DEF Allows, KindOK
<1> QED
  BY <1>4, <1>5, <1>6, SettlesState

LEMMA HeadStepLent ==
  ASSUME OneKind, TypeInv, NamedOK, KindOK, LentOK, [Next]_vars, NEW a \in Apps, HeadStep(a)
  PROVE  LentOK'
<1>1. refs' = refs
  <2>1. CASE call[a].at = "publish"
    <3>1. call[a].head \in Headings /\ call[a].st \in StateIds
      BY <2>1, HeadStepState DEF NamedOK
    <3>2. Allows(state[call[a].st], call[a].head)
      BY <3>1 DEF Allows, KindOK
    <3> QED
      BY <3>2, HeadStepState
  <2>2. CASE call[a].at # "publish"
    BY <2>2, HeadStepState
  <2> QED
    BY <2>1, <2>2
<1>2. pc' = pc /\ my' = my /\ reg' = reg /\ lent' = lent
  BY HeadStepState
<1>3. \A c \in Conns : pc[c] = "unlist" => <<reg[c].ref, my[c]>> \notin lent
  BY DEF LentOK
<1> QED
  BY <1>1, <1>2, <1>3, LentStays

\* A new entry for a ref that had none.
LEMMA NewLent ==
  ASSUME TypeInv, LentOK, [Next]_vars, NEW r \in Refs, refs[r] = 0, lent' = lent,
         refs' = [refs EXCEPT ![r] = made + 1], reg' = reg,
         \A c \in Conns :
           \/ pc'[c] = pc[c] /\ my'[c] = my[c]
           \/ pc'[c] = "prepare" /\ my'[c] = made + 1 /\ reg[c].ref = r
  PROVE  LentOK'
<1>0. /\ refs \in [Refs -> 0..MaxStates] /\ made \in 0..MaxStates
      /\ \A s \in Refs : refs[s] \in 0..made
      /\ \A c \in Conns : pc[c] = "prepare" => reg[c].ref \in Refs /\ my[c] \in 1..made
      /\ \A c \in Conns : pc[c] = "unlist" => my[c] \in 1..made
  BY DEF TypeInv, TypeOK, RegistryOK, SessionOK, Registered, Bound, Joined
<1>1. \A s \in Refs, i \in StateIds :
        <<s, i>> \in lent => s # r /\ i \in 1..made /\ refs[s] = i
                             /\ ~state[i].published /\ state[i].prepared
  BY <1>0 DEF LentOK, StateIds
<1>2. \A s \in Refs, i \in StateIds :
        <<s, i>> \in lent' => refs'[s] = i /\ ~state'[i].published /\ state'[i].prepared
  BY <1>0, <1>1, AnswersStay
<1>3. /\ refs'[r] = made + 1
      /\ <<r, made + 1>> \notin lent
  <2>1. made + 1 \notin 1..made
    BY <1>0
  <2>2. lent \in SUBSET (Refs \X StateIds)
    BY DEF TypeInv, TypeOK
  <2> QED
    BY <1>0, <1>1, <2>1, <2>2
<1>4. \A c \in Conns : pc'[c] = "prepare" =>
        refs'[reg'[c].ref] = my'[c] /\ <<reg'[c].ref, my'[c]>> \notin lent'
  <2> SUFFICES ASSUME NEW c \in Conns, pc'[c] = "prepare"
               PROVE  refs'[reg[c].ref] = my'[c] /\ <<reg[c].ref, my'[c]>> \notin lent
    OBVIOUS
  <2>1. CASE pc'[c] = pc[c] /\ my'[c] = my[c]
    <3>1. refs[reg[c].ref] = my[c] /\ <<reg[c].ref, my[c]>> \notin lent
      BY <2>1 DEF LentOK
    <3>2. reg[c].ref # r
      BY <1>0, <2>1, <3>1
    <3> QED
      BY <1>0, <2>1, <3>1, <3>2
  <2>2. CASE my'[c] = made + 1 /\ reg[c].ref = r
    BY <1>3, <2>2
  <2> QED
    BY <2>1, <2>2
<1>5. \A c \in Conns : pc'[c] = "unlist" => <<reg'[c].ref, my'[c]>> \notin lent'
  BY DEF LentOK
<1> QED
  BY <1>2, <1>4, <1>5 DEF LentOK

LEMMA PassesLent ==
  ASSUME TypeInv, RegOK, LentOK, [Next]_vars, NEW c \in Conns, Passes(c)
  PROVE  LentOK'
<1>0. /\ pc \in [Conns -> Labels] /\ refs \in [Refs -> 0..MaxStates]
      /\ \A d \in Conns \ {c} : pc'[d] = pc[d] /\ my'[d] = my[d] /\ reg'[d] = reg[d]
      /\ \A d \in Conns : pc[d] = "prepare" => reg[d].ref \in Refs
  BY PassesPlaces DEF TypeInv, TypeOK, SessionOK, Registered, Joined
<1>1. ASSUME lent' \subseteq lent, pc'[c] # "prepare",
             \A r \in Refs, i \in StateIds : <<r, i>> \in lent' => refs'[r] = refs[r],
             \A d \in Conns \ {c} : pc[d] = "prepare" => refs'[reg[d].ref] = refs[reg[d].ref],
             pc'[c] = "unlist" => <<reg'[c].ref, my'[c]>> \notin lent'
      PROVE  LentOK'
  <2>1. \A d \in Conns : pc'[d] = "prepare" =>
          /\ pc[d] = "prepare" /\ my'[d] = my[d] /\ reg'[d] = reg[d]
          /\ refs'[reg[d].ref] = refs[reg[d].ref]
    BY <1>0, <1>1
  <2>2. \A d \in Conns : pc'[d] = "unlist" => <<reg'[d].ref, my'[d]>> \notin lent'
    <3> SUFFICES ASSUME NEW d \in Conns, pc'[d] = "unlist"
                 PROVE  <<reg'[d].ref, my'[d]>> \notin lent'
      OBVIOUS
    <3>1. CASE d = c
      BY <1>1, <3>1
    <3>2. CASE d # c
      <4>1. pc[d] = "unlist" /\ reg'[d] = reg[d] /\ my'[d] = my[d]
        BY <1>0, <3>2
      <4>2. <<reg[d].ref, my[d]>> \notin lent
        BY <4>1 DEF LentOK
      <4> QED
        BY <1>1, <4>1, <4>2
    <3> QED
      BY <3>1, <3>2
  <2> QED
    BY <1>1, <2>1, <2>2, LentStays
<1>2. CASE JoinRetiring(c)
  BY <1>0, <1>1, <1>2 DEF JoinRetiring
<1>3. CASE Retired(c)
  BY <1>0, <1>1, <1>3 DEF Retired
<1>4. CASE JoinMembers(c)
  BY <1>0, <1>1, <1>4 DEF JoinMembers
<1>5. CASE Leave(c)
  BY <1>0, <1>1, <1>5 DEF Leave
<1>6. CASE Close(c)
  BY <1>0, <1>1, <1>6 DEF Close
<1>7. CASE Dial(c)
  BY <1>0, <1>1, <1>7 DEF Dial
<1>8. CASE Unsubscribed(c)
  <2>1. /\ UNCHANGED <<refs, lent, my, reg>>
        /\ pc'[c] # "prepare"
        /\ pc'[c] = "unlist" => ~state[my[c]].prepared
        /\ my[c] \in StateIds /\ reg[c].ref \in Refs
    BY <1>0, <1>8 DEF Unsubscribed, TypeInv, TypeOK, SessionOK, Registered, Bound, StateIds
  <2>2. pc'[c] = "unlist" => <<reg[c].ref, my[c]>> \notin lent
    BY <2>1 DEF LentOK
  <2> QED
    BY <1>1, <2>1, <2>2
<1>9. CASE Release(c)
  <2>1. /\ UNCHANGED <<refs, my, reg>>
        /\ pc'[c] = "unlist"
        /\ lent' = lent \ {<<reg[c].ref, my[c]>>}
    BY <1>0, <1>9 DEF Release
  <2> QED
    BY <1>1, <2>1
<1>10. CASE Unlist(c)
  <2> DEFINE i == my[c]
             ref == reg[c].ref
  <2>1. /\ UNCHANGED <<lent, my, reg>>
        /\ pc[c] = "unlist" /\ pc'[c] = "closing"
        /\ refs' = Forget(ref, i)
        /\ i \in StateIds /\ ref \in Refs
    BY <1>0, <1>10 DEF Unlist, TypeInv, TypeOK, SessionOK, Registered, Bound, StateIds
  <2>2. \A r \in Refs : r # ref \/ refs[r] # i => refs'[r] = refs[r]
    BY <1>0, <2>1 DEF Forget
  <2>3. <<ref, i>> \notin lent
    BY <2>1 DEF LentOK
  <2>4. \A r \in Refs, j \in StateIds : <<r, j>> \in lent' => refs'[r] = refs[r]
    <3> SUFFICES ASSUME NEW r \in Refs, NEW j \in StateIds, <<r, j>> \in lent
                 PROVE  refs'[r] = refs[r]
      BY <2>1
    <3>1. refs[r] = j
      BY DEF LentOK
    <3> QED
      BY <2>2, <2>3, <3>1
  <2>5. \A d \in Conns \ {c} : pc[d] = "prepare" => refs'[reg[d].ref] = refs[reg[d].ref]
    <3> SUFFICES ASSUME NEW d \in Conns \ {c}, pc[d] = "prepare"
                 PROVE  refs'[reg[d].ref] = refs[reg[d].ref]
      OBVIOUS
    <3>1. refs[reg[d].ref] = my[d] /\ reg[d].ref \in Refs
      BY <1>0 DEF LentOK
    <3>2. last[c] /\ pc[c] \in Ending
      BY <2>1 DEF RegOK, RetiringOK, Ending
    <3>3. my[d] # i
      BY <3>2, PreparedApart
    <3> QED
      BY <2>2, <3>1, <3>3
  <2> QED
    BY <1>1, <2>1, <2>4, <2>5
<1> QED
  BY <1>2, <1>3, <1>4, <1>5, <1>6, <1>7, <1>8, <1>9, <1>10 DEF Passes

LEMMA StepLent ==
  OneKind /\ TypeInv /\ RegOK /\ AnswerOK /\ NamedOK /\ KindOK /\ LentOK /\ [Next]_vars => LentOK'
<1> SUFFICES ASSUME OneKind, TypeInv, RegOK, AnswerOK, NamedOK, KindOK, LentOK, [Next]_vars
             PROVE  LentOK'
  OBVIOUS
<1>0. /\ pc \in [Conns -> Labels] /\ refs \in [Refs -> 0..MaxStates]
      /\ my \in [Conns -> 0..MaxStates]
  BY DEF TypeInv, TypeOK
<1>1. ASSUME UNCHANGED <<refs, lent, my, reg>>,
             \A c \in Conns : pc'[c] \in {"prepare", "unlist"} => pc'[c] = pc[c]
      PROVE  LentOK'
  <2>1. \A c \in Conns : pc'[c] = "unlist" => <<reg'[c].ref, my'[c]>> \notin lent'
    BY <1>1 DEF LentOK
  <2> QED
    BY <1>1, <2>1, LentStays
<1>2. CASE UNCHANGED regVars
  BY <1>1, <1>2 DEF regVars
<1>3. ASSUME NEW c \in Conns, Walk(c) PROVE LentOK'
  <2>1. UNCHANGED <<refs, lent, my, reg>>
    BY <1>3 DEF Walk
  <2>2. \A d \in Conns : pc'[d] \in {"prepare", "unlist"} => pc'[d] = pc[d]
    BY <1>0, <1>3 DEF Walk, Joined, Apart
  <2> QED
    BY <1>1, <2>1, <2>2
<1>4. ASSUME NEW c \in Conns, JoinFirst(c) PROVE LentOK'
  <2>1. /\ pc' = [pc EXCEPT ![c] = "prepare"] /\ my' = [my EXCEPT ![c] = made + 1]
        /\ reg[c].ref \in Refs /\ refs[reg[c].ref] = 0
        /\ refs' = [refs EXCEPT ![reg[c].ref] = made + 1]
        /\ reg' = reg /\ lent' = lent
    BY <1>4 DEF JoinFirst, Found, TypeInv, SessionOK, Registered
  <2>2. \A d \in Conns :
           \/ pc'[d] = pc[d] /\ my'[d] = my[d]
           \/ pc'[d] = "prepare" /\ my'[d] = made + 1 /\ reg[d].ref = reg[c].ref
    BY <1>0, <2>1
  <2> QED
    BY <2>1, <2>2, NewLent
<1>5. ASSUME NEW a \in Apps, PublishInsert(a) PROVE LentOK'
  <2>1. PICK r \in Refs : refs[r] = 0 /\ refs' = [refs EXCEPT ![r] = made + 1]
    BY <1>5 DEF PublishInsert, Found
  <2>2. UNCHANGED <<pc, my, reg, lent>>
    BY <1>5 DEF PublishInsert
  <2> QED
    BY <2>1, <2>2, NewLent
<1>6. ASSUME NEW a \in Apps, Unpublish(a) PROVE LentOK'
  <2>1. PICK r \in Refs : state[refs[r]].published /\ refs' = [refs EXCEPT ![r] = 0]
    BY <1>6 DEF Unpublish, PublishedRefs
  <2>2. UNCHANGED <<pc, my, reg, lent>>
    BY <1>6 DEF Unpublish
  <2>3. \A s \in Refs, i \in StateIds : <<s, i>> \in lent' => refs'[s] = refs[s]
    BY <1>0, <2>1, <2>2 DEF LentOK
  <2>4. \A c \in Conns : pc[c] = "prepare" => refs'[reg[c].ref] = refs[reg[c].ref]
    <3> SUFFICES ASSUME NEW c \in Conns, pc[c] = "prepare"
                 PROVE  refs'[reg[c].ref] = refs[reg[c].ref]
      OBVIOUS
    <3>1. reg[c].ref \in Refs
      BY DEF TypeInv, SessionOK, Registered, Joined
    <3>2. refs[reg[c].ref] = my[c] /\ ~state[my[c]].published
      BY DEF LentOK, AnswerOK, PrepOK
    <3> QED
      BY <1>0, <2>1, <3>1, <3>2
  <2>5. \A c \in Conns : pc'[c] = "unlist" => <<reg'[c].ref, my'[c]>> \notin lent'
    BY <2>2 DEF LentOK
  <2> QED
    BY <2>2, <2>3, <2>4, <2>5, LentStays
<1> QED
  BY <1>2, <1>3, <1>4, <1>5, <1>6, SettlesLent, HeadStepLent, PassesLent, RegistryStep
     DEF Passes, AnswerOK

LEMMA AtMostOne ==
  ASSUME NEW S, \A x, y \in S : x = y
  PROVE  Cardinality(S) \in {0, 1} /\ (S = {} => Cardinality(S) = 0)
<1>1. CASE S = {}
  BY <1>1, FS_EmptySet
<1>2. CASE S # {}
  <2>1. PICK x \in S : TRUE
    BY <1>2
  <2>2. S = {x}
    BY <2>1
  <2> QED
    BY <1>2, <2>2, FS_Singleton
<1> QED
  BY <1>1, <1>2

\* Whoever implements Provider is asked for a ref again only after it was given
\* back what it prepared before, and never twice at a time (connect, prepare and
\* disconnect), provided that no head is of another kind than the ref it is for:
\* such a head leaves a store with the server that nobody hands back.
THEOREM ProvidersAlternate == ASSUME OneKind PROVE Spec => []ProviderAlternates
<1> DEFINE Inv == TypeInv /\ RegOK /\ AnswerOK /\ NamedOK /\ KindOK /\ LentOK
<1>1. Init => Inv
  <2>1. Init => NamedOK /\ KindOK /\ LentOK
    BY DEF Init, NamedOK, KindOK, LentOK, Idle, NewState
  <2> QED
    BY <2>1, InitTypeInv, InitReg, InitAnswer
<1>2. Inv /\ [Next]_vars => Inv'
  BY StepTypeInv, StepReg, StepAnswer, StepNamed, StepKind, StepLent
<1>3. Inv => ProviderAlternates
  <2> SUFFICES ASSUME Inv, NEW ref \in Refs
               PROVE  LET out       == {i \in StateIds : <<ref, i>> \in lent}
                          preparing == {c \in Conns : pc[c] = "prepare" /\ reg[c].ref = ref} IN
                      Cardinality(out) + Cardinality(preparing) <= 1
    BY DEF ProviderAlternates
  <2> DEFINE out       == {i \in StateIds : <<ref, i>> \in lent}
             preparing == {c \in Conns : pc[c] = "prepare" /\ reg[c].ref = ref}
  <2>1. \A i, j \in out : i = j
    BY DEF LentOK
  <2>2. \A c \in preparing : /\ c \in Conns /\ pc[c] = "prepare"
                             /\ refs[ref] = my[c] /\ <<ref, my[c]>> \notin lent
    BY DEF LentOK
  <2>3. out = {} \/ preparing = {}
    <3> SUFFICES ASSUME NEW i \in out, NEW c \in preparing PROVE FALSE
      OBVIOUS
    <3>1. refs[ref] = i /\ <<ref, i>> \in lent
      BY DEF LentOK
    <3>2. refs[ref] = my[c] /\ <<ref, my[c]>> \notin lent
      BY <2>2
    <3> QED
      BY <3>1, <3>2
  <2>0. \A c, d \in preparing : c = d
    BY <2>2 DEF AnswerOK, PrepOK
  <2> HIDE DEF out, preparing
  <2>4. Cardinality(out) \in {0, 1} /\ (out = {} => Cardinality(out) = 0)
    BY <2>1, AtMostOne
  <2>5. Cardinality(preparing) \in {0, 1} /\ (preparing = {} => Cardinality(preparing) = 0)
    BY <2>0, AtMostOne
  <2>6. Cardinality(out) + Cardinality(preparing) <= 1
    BY <2>3, <2>4, <2>5
  <2> QED
    BY <2>6 DEF out, preparing
<1> QED
  BY <1>1, <1>2, <1>3, PTL DEF Spec

-----------------------------------------------------------------------------
(* Stop.  What handle has recorded before Stop looks is among those that Stop *)
(* has found, and stays on its list until it is closed, whether by Stop or by *)
(* its own goroutine.                                                         *)

Steady == UNCHANGED <<conns, stopped, listening, serverOpen>>

\* Labels of a goroutine whose connection is recorded in conns.
Recorded == Labels \ {"idle", "dialled", "accepted", "shutting", "done"}

LEMMA ServesLines ==
  ASSUME TypeInv, NEW c \in Conns, Serves(c)
  PROVE  /\ \A d \in Conns \ {c} : pc'[d] = pc[d]
         /\ \/ Steady /\ pc[c] = "dialled" /\ pc'[c] = "accepted"
            \/ Steady /\ pc[c] \in Recorded /\ pc'[c] \in Recorded
            \/ /\ UNCHANGED <<stopped, listening, serverOpen>> /\ conns' = conns \cup {c}
               /\ pc[c] = "accepted" /\ pc'[c] \in Recorded
            \/ Delist(c) \/ Close(c)
<1>0. pc \in [Conns -> Labels]
  BY DEF TypeInv, TypeOK
<1> USE DEF Steady, Recorded, Labels
<1>1. CASE Accept(c)
  BY <1>0, <1>1 DEF Accept
<1>2. CASE Handle(c)
  BY <1>0, <1>2 DEF Handle
<1>3. CASE Register(c)
  BY <1>0, <1>3 DEF Register
<1>4. CASE RegisterFails(c)
  BY <1>0, <1>4 DEF RegisterFails
<1>5. CASE JoinRetiring(c)
  BY <1>0, <1>5 DEF JoinRetiring
<1>6. CASE Retired(c)
  BY <1>0, <1>6 DEF Retired
<1>7. CASE JoinMembers(c)
  BY <1>0, <1>7 DEF JoinMembers
<1>8. CASE JoinFirst(c)
  BY <1>0, <1>8 DEF JoinFirst
<1>9. CASE JoinRefused(c)
  BY <1>0, <1>9 DEF JoinRefused
<1>10. CASE Prepared(c)
  BY <1>0, <1>10 DEF Prepared
<1>11. CASE PrepareFails(c)
  BY <1>0, <1>11 DEF PrepareFails
<1>12. CASE Ready(c)
  BY <1>0, <1>12 DEF Ready
<1>13. CASE ReadyRefused(c)
  BY <1>0, <1>13 DEF ReadyRefused
<1>14. CASE Announce(c)
  BY <1>0, <1>14 DEF Announce
<1>15. CASE Current(c)
  BY <1>0, <1>15 DEF Current
<1>16. CASE Push(c)
  BY <1>0, <1>16 DEF Push
<1>17. CASE PushFails(c)
  BY <1>0, <1>17 DEF PushFails
<1>18. CASE TakeAck(c)
  BY <1>0, <1>18 DEF TakeAck
<1>19. CASE Record(c)
  BY <1>0, <1>19 DEF Record
<1>20. CASE Report(c)
  BY <1>0, <1>20 DEF Report
<1>21. CASE Woken(c)
  BY <1>0, <1>21 DEF Woken
<1>22. CASE Lost(c)
  BY <1>0, <1>22 DEF Lost
<1>23. CASE Leave(c)
  BY <1>0, <1>23 DEF Leave
<1>24. CASE Unsubscribed(c)
  BY <1>0, <1>24 DEF Unsubscribed
<1>25. CASE Release(c)
  BY <1>0, <1>25 DEF Release
<1>26. CASE Unlist(c)
  BY <1>0, <1>26 DEF Unlist
<1>27. CASE Refuse(c)
  BY <1>0, <1>27 DEF Refuse
<1>28. CASE Delist(c)
  BY <1>0, <1>28 DEF Delist
<1>29. CASE Close(c)
  BY <1>0, <1>29 DEF Close
<1> QED
  BY <1>1, <1>2, <1>3, <1>4, <1>5, <1>6, <1>7, <1>8, <1>9, <1>10, <1>11, <1>12,
     <1>13, <1>14, <1>15, <1>16, <1>17, <1>18, <1>19, <1>20, <1>21, <1>22, <1>23,
     <1>24, <1>25, <1>26, <1>27, <1>28, <1>29
     DEF Serves

LEMMA CallsLines ==
  ASSUME NEW a \in Apps
  PROVE  /\ Begins(a) => Steady \/ Stop(a)
         /\ Continues(a) => Steady \/ StopListener(a) \/ CloseOne(a)
         /\ Continues(a) /\ call[a].at \in {"listener", "close"} =>
              StopListener(a) \/ CloseOne(a)
<1> USE DEF Steady
<1>1. ASSUME Begins(a), ~Stop(a) PROVE Steady
  <2>1. CASE SetHeadFind(a)
    BY <2>1 DEF SetHeadFind
  <2>2. CASE PublishInsert(a)
    BY <2>2 DEF PublishInsert
  <2>3. CASE Unpublish(a)
    BY <2>3 DEF Unpublish
  <2>4. CASE SweepCheck(a)
    BY <2>4 DEF SweepCheck
  <2> QED
    BY <1>1, <2>1, <2>2, <2>3, <2>4 DEF Begins
<1>2. ASSUME Continues(a), ~StopListener(a), ~CloseOne(a)
      PROVE  Steady /\ call[a].at \notin {"listener", "close"}
  <2>1. CASE SetHeadMove(a)
    BY <2>1 DEF SetHeadMove
  <2>2. CASE SetHeadWake(a)
    BY <2>2 DEF SetHeadWake
  <2>3. CASE PublishMove(a)
    BY <2>3 DEF PublishMove
  <2>4. CASE SweepInstall(a)
    BY <2>4 DEF SweepInstall
  <2>5. CASE SweepKeeps(a)
    BY <2>5 DEF SweepKeeps
  <2>6. CASE SweepDrops(a)
    BY <2>6 DEF SweepDrops
  <2>7. CASE SweepResets(a)
    BY <2>7 DEF SweepResets
  <2> QED
    BY <1>2, <2>1, <2>2, <2>3, <2>4, <2>5, <2>6, <2>7 DEF Continues
<1> HIDE DEF Steady
<1> QED
  BY <1>1, <1>2

\* One step, as far as the connections of the server and its listener go.
LEMMA LinesStep ==
  ASSUME TypeInv, [Next]_vars
  PROVE  \/ Steady /\ pc' = pc /\ call' = call
         \/ \E c \in Conns : call' = call /\ (Serves(c) \/ Dial(c))
         \/ \E a \in Apps : /\ Begins(a) \/ Continues(a)
                            /\ Steady \/ Stop(a) \/ StopListener(a) \/ CloseOne(a)
<1>1. CASE UNCHANGED vars
  BY <1>1 DEF vars, Steady
<1>2. ASSUME NEW c \in Conns, Reads(c) PROVE Steady /\ pc' = pc /\ call' = call
  BY <1>2 DEF Reads, ReadAck, ReadFails, Steady
<1>3. ASSUME NEW c \in Conns, Clients(c)
      PROVE  (Steady /\ pc' = pc /\ call' = call) \/ (call' = call /\ Dial(c))
  BY <1>3 DEF Clients, Dial, Interpret, HangUp, Steady
<1>4. ASSUME NEW c \in Conns, Serves(c) PROVE call' = call
  BY <1>4, ConnsCall
<1> QED
  BY <1>1, <1>2, <1>3, <1>4, CallsLines DEF Next, Rest

\* c is among those that a call of Stop is about to close.
Doomed(c) == \E a \in Apps : call[a].at \in {"listener", "close"} /\ c \in call[a].todo

ConnsOK ==
  \A c \in Conns : /\ c \in conns <=> pc[c] \in Recorded
                   /\ pc[c] = "done" => ~serverOpen[c]

\* A connection that was recorded is on the list of Stop, or about to be closed
\* by its own goroutine, or closed.
StopOK(c) ==
  /\ pc[c] \in Recorded \cup {"shutting", "done"}
  /\ stopped /\ serverOpen[c] => Doomed(c) \/ pc[c] = "shutting"

LEMMA StepConns == TypeInv /\ ConnsOK /\ [Next]_vars => ConnsOK'
<1> SUFFICES ASSUME TypeInv, ConnsOK, [Next]_vars PROVE ConnsOK'
  OBVIOUS
<1>0. pc \in [Conns -> Labels] /\ serverOpen \in [Conns -> BOOLEAN]
  BY DEF TypeInv, TypeOK
<1>1. CASE Steady /\ pc' = pc
  BY <1>1 DEF ConnsOK, Steady
<1>2. ASSUME NEW c \in Conns, Serves(c) PROVE ConnsOK'
  <2>1. CASE Close(c)
    <3>1. /\ conns' = conns /\ pc[c] = "shutting" /\ pc' = [pc EXCEPT ![c] = "done"]
          /\ serverOpen' = [d \in Conns |-> serverOpen[d] /\ d \notin {c}]
      BY <2>1 DEF Close, CloseAll
    <3>2. \A d \in Conns \ {c} : pc'[d] = pc[d] /\ (serverOpen'[d] => serverOpen[d])
      BY <1>0, <3>1
    <3>3. pc'[c] = "done" /\ ~serverOpen'[c]
      BY <1>0, <3>1
    <3> QED
      BY <3>1, <3>2, <3>3 DEF ConnsOK, Recorded
  <2>2. CASE Delist(c)
    <3>1. /\ conns' = conns \ {c} /\ pc' = [pc EXCEPT ![c] = "shutting"]
          /\ serverOpen' = serverOpen
      BY <2>2 DEF Delist
    <3>2. /\ \A d \in Conns \ {c} : pc'[d] = pc[d] /\ (d \in conns' <=> d \in conns)
          /\ pc'[c] = "shutting" /\ c \notin conns'
      BY <1>0, <3>1
    <3> QED
      BY <3>1, <3>2 DEF ConnsOK, Recorded
  <2>3. CASE ~Close(c) /\ ~Delist(c)
    <3>1. /\ \A d \in Conns \ {c} : pc'[d] = pc[d] /\ (d \in conns' <=> d \in conns)
          /\ pc'[c] # "done" /\ serverOpen' = serverOpen
          /\ \/ conns' = conns /\ (pc'[c] \in Recorded <=> pc[c] \in Recorded)
             \/ c \in conns' /\ pc'[c] \in Recorded
      BY <1>2, <2>3, ServesLines DEF Steady, Recorded
    <3> QED
      BY <3>1 DEF ConnsOK
  <2> QED
    BY <2>1, <2>2, <2>3
<1>3. ASSUME NEW c \in Conns, Dial(c) PROVE ConnsOK'
  <2>1. /\ conns' = conns /\ pc[c] = "idle" /\ pc' = [pc EXCEPT ![c] = "dialled"]
        /\ serverOpen' = [serverOpen EXCEPT ![c] = TRUE]
    BY <1>3 DEF Dial
  <2>2. /\ \A d \in Conns \ {c} : pc'[d] = pc[d] /\ serverOpen'[d] = serverOpen[d]
        /\ pc'[c] = "dialled"
    BY <1>0, <2>1
  <2> QED
    BY <2>1, <2>2 DEF ConnsOK, Recorded
<1>4. ASSUME NEW a \in Apps, Begins(a) \/ Continues(a), ~Steady,
             Stop(a) \/ StopListener(a) \/ CloseOne(a)
      PROVE  ConnsOK'
  <2>1. conns' = conns /\ pc' = pc
    BY <1>4 DEF Stop, StopListener, CloseOne
  <2>2. \A c \in Conns : serverOpen'[c] => serverOpen[c]
    BY <1>0, <1>4 DEF Stop, StopListener, CloseOne, CloseAll
  <2> QED
    BY <2>1, <2>2 DEF ConnsOK
<1>5. ASSUME NEW a \in Apps, Begins(a) \/ Continues(a), Steady PROVE ConnsOK'
  BY <1>1, <1>5, BeginsCall, ContinuesCall
<1> QED
  BY <1>1, <1>2, <1>3, <1>4, <1>5, LinesStep

\* Whoever Stop has on its list stays there until its connection is closed.
LEMMA DoomedStays ==
  ASSUME TypeInv, [Next]_vars, NEW c \in Conns, Doomed(c), serverOpen'[c]
  PROVE  Doomed(c)'
<1>0. /\ serverOpen \in [Conns -> BOOLEAN] /\ call \in [Apps -> Call]
  BY DEF TypeInv, TypeOK
<1>1. PICK a \in Apps : call[a].at \in {"listener", "close"} /\ c \in call[a].todo
  BY DEF Doomed
<1>2. CASE call'[a] = call[a]
  BY <1>1, <1>2 DEF Doomed
<1>3. CASE StopListener(a)
  <2>1. /\ call' = [call EXCEPT ![a] = IF call[a].todo = {} THEN Idle
                                       ELSE [call[a] EXCEPT !.at = "close"]]
    BY <1>3 DEF StopListener
  <2>2. call'[a] = [call[a] EXCEPT !.at = "close"]
    BY <1>0, <1>1, <2>1
  <2>3. call'[a].at = "close" /\ c \in call'[a].todo
    BY <1>0, <1>1, <2>2 DEF Call
  <2> QED
    BY <2>3 DEF Doomed
<1>4. CASE CloseOne(a)
  <2>1. PICK d \in call[a].todo : CloseAll({d}) /\ TakeOff(a, d, Idle) /\ call[a].at = "close"
    BY <1>4 DEF CloseOne
  <2>2. d # c
    BY <2>1 DEF CloseAll
  <2>3. call'[a] = [call[a] EXCEPT !.todo = @ \ {d}]
    BY <1>0, <1>1, <2>1, <2>2 DEF TakeOff
  <2>4. call'[a].at = "close" /\ c \in call'[a].todo
    BY <1>0, <1>1, <2>1, <2>2, <2>3 DEF Call
  <2> QED
    BY <2>4 DEF Doomed
<1>5. ASSUME NEW b \in Apps, Begins(b) \/ Continues(b)
      PROVE  \/ call'[a] = call[a] \/ StopListener(a) \/ CloseOne(a)
  <2>1. CASE a # b
    BY <1>5, <2>1, BeginsCall, ContinuesCall DEF Others
  <2>2. CASE a = b
    <3>1. call[a] # Idle
      BY <1>1 DEF Idle
    <3> QED
      BY <1>1, <1>5, <2>2, <3>1, BeginsCall, CallsLines
  <2> QED
    BY <2>1, <2>2
<1> QED
  BY <1>2, <1>3, <1>4, <1>5, CallStep

LEMMA StepStop ==
  ASSUME TypeInv, ConnsOK, NEW c \in Conns, StopOK(c), [Next]_vars
  PROVE  StopOK(c)'
<1>0. /\ pc \in [Conns -> Labels] /\ serverOpen \in [Conns -> BOOLEAN] /\ call \in [Apps -> Call]
  BY DEF TypeInv, TypeOK
<1>1. ASSUME NEW a \in Apps, Stop(a) PROVE StopOK(c)'
  <2>1. /\ call' = [call EXCEPT ![a] = [Idle EXCEPT !.at = "listener", !.todo = conns]]
        /\ UNCHANGED <<pc, serverOpen>>
    BY <1>1 DEF Stop
  <2>2. call'[a].at = "listener" /\ call'[a].todo = conns
    BY <1>0, <2>1 DEF Idle
  <2>3. serverOpen[c] => c \in conns \/ pc[c] = "shutting"
    BY DEF ConnsOK, StopOK
  <2> QED
    BY <2>1, <2>2, <2>3 DEF StopOK, Doomed
<1>2. CASE \A a \in Apps : ~Stop(a)
  <2>1. ~Dial(c)
    BY DEF Dial, StopOK, Recorded
  <2>2. /\ stopped' => stopped
        /\ serverOpen'[c] => serverOpen[c]
        /\ pc'[c] \in Recorded \cup {"shutting", "done"}
        /\ pc[c] = "shutting" /\ serverOpen'[c] => pc'[c] = "shutting"
    <3>1. CASE Steady /\ pc' = pc
      BY <3>1 DEF Steady, StopOK
    <3>2. ASSUME NEW d \in Conns, Serves(d)
          PROVE  /\ stopped' => stopped
                 /\ serverOpen'[c] => serverOpen[c]
                 /\ pc'[c] \in Recorded \cup {"shutting", "done"}
                 /\ pc[c] = "shutting" /\ serverOpen'[c] => pc'[c] = "shutting"
      <4>1. CASE Close(d)
        <5>1. /\ stopped' = stopped /\ pc' = [pc EXCEPT ![d] = "done"]
              /\ serverOpen' = [e \in Conns |-> serverOpen[e] /\ e \notin {d}]
          BY <4>1 DEF Close, CloseAll
        <5> QED
          BY <1>0, <5>1 DEF StopOK
      <4>2. CASE Delist(d)
        <5>1. /\ UNCHANGED <<stopped, serverOpen>> /\ pc' = [pc EXCEPT ![d] = "shutting"]
          BY <4>2 DEF Delist
        <5> QED
          BY <1>0, <5>1 DEF StopOK
      <4>3. CASE ~Close(d) /\ ~Delist(d)
        <5>1. /\ UNCHANGED <<stopped, serverOpen>>
              /\ \A e \in Conns \ {d} : pc'[e] = pc[e]
              /\ pc[d] \in Recorded => pc'[d] \in Recorded
              /\ pc[d] \notin {"shutting", "done"}
          BY <3>2, <4>3, ServesLines DEF Steady, Recorded
        <5> QED
          BY <5>1 DEF StopOK
      <4> QED
        BY <4>1, <4>2, <4>3
    <3>3. ASSUME NEW d \in Conns, Dial(d)
          PROVE  stopped' = stopped /\ serverOpen'[c] = serverOpen[c] /\ pc'[c] = pc[c]
      BY <1>0, <2>1, <3>3 DEF Dial
    <3>4. ASSUME NEW a \in Apps, StopListener(a) \/ CloseOne(a)
          PROVE  stopped' = stopped /\ pc' = pc /\ (serverOpen'[c] => serverOpen[c])
      BY <1>0, <3>4 DEF StopListener, CloseOne, CloseAll
    <3>5. ASSUME NEW a \in Apps, Begins(a) \/ Continues(a), Steady PROVE pc' = pc
      BY <3>5, BeginsCall, ContinuesCall
    <3> QED
      BY <1>2, <3>1, <3>2, <3>3, <3>4, <3>5, LinesStep DEF StopOK
  <2>3. Doomed(c) /\ serverOpen'[c] => Doomed(c)'
    BY DoomedStays
  <2> QED
    BY <2>2, <2>3 DEF StopOK
<1> QED
  BY <1>1, <1>2

\* Whatever handle has recorded before Stop looks is closed once Stop has returned
\* (Stop, which "drops every client"), whatever its goroutine was at, unless that
\* goroutine has just taken it from conns and is about to close it.
THEOREM StopDropsEveryone == Spec => StopDropsAll
<1> SUFFICES ASSUME NEW c \in Conns
             PROVE  Spec => [](c \in conns /\ ~stopped =>
                                 [](stopped /\ Quiet /\ serverOpen[c] => pc[c] = "shutting"))
  BY DEF StopDropsAll
<1> DEFINE Inv == TypeInv /\ ConnsOK
           Before == c \in conns /\ ~stopped
           After == stopped /\ Quiet /\ serverOpen[c] => pc[c] = "shutting"
<1>1. Init => ConnsOK
  BY DEF Init, ConnsOK, Recorded
<1>2. TypeInv /\ ConnsOK /\ [Next]_vars => ConnsOK'
  BY StepConns
<1>3. Inv /\ Before => StopOK(c)
  BY DEF ConnsOK, StopOK
<1>4. Inv /\ StopOK(c) /\ [Next]_vars => StopOK(c)'
  BY StepStop
<1>5. StopOK(c) => After
  BY DEF StopOK, Doomed, Quiet, Idle
<1> HIDE DEF Before, After
<1>6. Spec => [](Before => []After)
  BY <1>1, <1>2, <1>3, <1>4, <1>5, TypesKept, PTL DEF Spec
<1> QED
  BY <1>6 DEF Before, After

-----------------------------------------------------------------------------
(* The head of a ref never goes back.                                       *)

HeadOK ==
  \A i \in StateIds :
    /\ state[i].installed => state[i].sequenced = Ordered(state[i].head)
    /\ ~state[i].installed => state[i].head = ZeroHead

\* Whatever head a refState is given: its sequence does not fall, and its kind
\* is the one of its head.
LEMMA MoveAdvances ==
  ASSUME NEW st \in RefState, NEW head \in AnyHead,
         st.installed => st.sequenced = Ordered(st.head),
         ~st.installed => st.head = ZeroHead
  PROVE  /\ st.head.seq <= Move(st, head).head.seq
         /\ Move(st, head).installed => Move(st, head).sequenced = Ordered(Move(st, head).head)
         /\ ~Move(st, head).installed => Move(st, head).head = ZeroHead
<1>0. st.head.seq \in Nat /\ head.seq \in Nat
  BY DEF RefState, AnyHead
<1>1. CASE ~Moves(st, head)
  BY <1>0, <1>1 DEF Move
<1>2. CASE Moves(st, head)
  <2>1. /\ Move(st, head).head = head /\ Move(st, head).sequenced = Ordered(head)
        /\ Move(st, head).installed
    BY <1>2 DEF Move, RefState
  <2>2. st.head.seq <= head.seq
    <3>1. CASE ~st.installed
      BY <1>0, <3>1 DEF ZeroHead
    <3>2. CASE st.installed /\ st.sequenced
      BY <1>0, <1>2, <3>2 DEF Moves, Advances
    <3>3. CASE st.installed /\ ~st.sequenced
      <4>1. ~Ordered(st.head)
        BY <3>3
      <4> QED
        BY <1>0, <4>1 DEF Ordered
    <3> QED
      BY <3>1, <3>2, <3>3
  <2> QED
    BY <2>1, <2>2
<1> QED
  BY <1>1, <1>2

LEMMA StepHead ==
  ASSUME TypeInv, HeadOK, [Next]_vars
  PROVE  HeadOK' /\ \A i \in 1..made : state[i].head.seq <= state'[i].head.seq
<1> SUFFICES ASSUME NEW i \in StateIds
             PROVE  /\ state'[i].installed => state'[i].sequenced = Ordered(state'[i].head)
                    /\ ~state'[i].installed => state'[i].head = ZeroHead
                    /\ i \in 1..made => state[i].head.seq <= state'[i].head.seq
  <2>1. 1..made \subseteq StateIds
    BY DEF TypeInv, TypeOK, StateIds
  <2> QED
    BY <2>1 DEF HeadOK
<1>0. state[i] \in RefState /\ state[i].head.seq \in Nat /\ made \in Nat
  BY DEF TypeInv, TypeOK, RefState, AnyHead
<1>1. CASE SameHead(state'[i], state[i])
  BY <1>0, <1>1 DEF SameHead, HeadOK
<1>2. CASE SameHead(state'[i], NewState) /\ i = made + 1
  BY <1>0, <1>2 DEF SameHead, NewState
<1>3. ASSUME NEW head \in AnyHead, SameHead(state'[i], Move(state[i], head))
      PROVE  /\ state'[i].installed => state'[i].sequenced = Ordered(state'[i].head)
             /\ ~state'[i].installed => state'[i].head = ZeroHead
             /\ state[i].head.seq <= state'[i].head.seq
  BY <1>0, <1>3, MoveAdvances DEF SameHead, HeadOK
<1> QED
  BY <1>1, <1>2, <1>3, HeadsMove

-----------------------------------------------------------------------------
(* Messages in their order.                                                 *)

\* What is said of the sequences of the updates in a queue.
Climbs(msgs) ==
  \A m, n \in DOMAIN msgs :
    m < n /\ msgs[m].kind = "update" /\ msgs[n].kind = "update" =>
      msgs[m].head.seq <= msgs[n].head.seq
Above(msgs, seq) == \A n \in DOMAIN msgs : msgs[n].kind = "update" => seq <= msgs[n].head.seq
Below(msgs, seq) == \A n \in DOMAIN msgs : msgs[n].kind = "update" => msgs[n].head.seq <= seq

LEMMA AppendInOrder ==
  ASSUME NEW msgs \in Seq(Message), NEW msg \in Message, NEW seq \in Nat,
         msg.kind = "update" => Below(msgs, msg.head.seq)
  PROVE  /\ Climbs(msgs) => Climbs(Append(msgs, msg))
         /\ Above(msgs, seq) /\ (msg.kind = "update" => seq <= msg.head.seq) =>
              Above(Append(msgs, msg), seq)
         /\ Below(msgs, seq) /\ (msg.kind = "update" => msg.head.seq <= seq) =>
              Below(Append(msgs, msg), seq)
<1> DEFINE more == Append(msgs, msg)
<1>1. /\ DOMAIN msgs = 1..Len(msgs) /\ Len(msgs) \in Nat
      /\ DOMAIN more = 1..(Len(msgs) + 1)
      /\ more[Len(msgs) + 1] = msg
      /\ \A n \in 1..Len(msgs) : more[n] = msgs[n]
  OBVIOUS
<1> HIDE DEF more
<1>2. \A n \in DOMAIN more : n = Len(msgs) + 1 \/ n \in DOMAIN msgs
  BY <1>1
<1>3. Climbs(msgs) => Climbs(more)
  BY <1>1, <1>2 DEF Climbs, Below
<1>4. Above(msgs, seq) /\ (msg.kind = "update" => seq <= msg.head.seq) => Above(more, seq)
  BY <1>1, <1>2 DEF Above
<1>5. Below(msgs, seq) /\ (msg.kind = "update" => msg.head.seq <= seq) => Below(more, seq)
  BY <1>1, <1>2 DEF Below
<1> QED
  BY <1>3, <1>4, <1>5 DEF more

LEMMA TailInOrder ==
  ASSUME NEW msgs \in Seq(Message), msgs # <<>>, NEW seq \in Nat
  PROVE  /\ Climbs(msgs) => Climbs(Tail(msgs))
         /\ Climbs(msgs) /\ Head(msgs).kind = "update" => Above(Tail(msgs), Head(msgs).head.seq)
         /\ Below(msgs, seq) => Below(Tail(msgs), seq)
         /\ Head(msgs).kind = "update" /\ Above(msgs, seq) => seq <= Head(msgs).head.seq
         /\ Head(msgs).kind = "update" /\ Below(msgs, seq) => Head(msgs).head.seq <= seq
<1> DEFINE rest == Tail(msgs)
<1>1. /\ DOMAIN msgs = 1..Len(msgs) /\ Len(msgs) \in Nat \ {0}
      /\ DOMAIN rest = 1..(Len(msgs) - 1)
      /\ Head(msgs) = msgs[1]
      /\ \A n \in DOMAIN rest : rest[n] = msgs[n + 1]
  OBVIOUS
<1> HIDE DEF rest
<1>2. 1 \in DOMAIN msgs /\ \A n \in DOMAIN rest : n \in Nat /\ n + 1 \in DOMAIN msgs /\ 1 < n + 1
  BY <1>1
<1>3. Climbs(msgs) => Climbs(rest)
  BY <1>1, <1>2 DEF Climbs
<1>4. Climbs(msgs) /\ Head(msgs).kind = "update" => Above(rest, Head(msgs).head.seq)
  BY <1>1, <1>2 DEF Climbs, Above
<1>5. Below(msgs, seq) => Below(rest, seq)
  BY <1>1, <1>2 DEF Below
<1>6. /\ Head(msgs).kind = "update" /\ Above(msgs, seq) => seq <= Head(msgs).head.seq
      /\ Head(msgs).kind = "update" /\ Below(msgs, seq) => Head(msgs).head.seq <= seq
  BY <1>1, <1>2 DEF Above, Below
<1> QED
  BY <1>3, <1>4, <1>5, <1>6 DEF rest

-----------------------------------------------------------------------------
(* What a step does to the updates of one connection.                       *)

\* Labels at which a subscriber has taken the head that it pushes.
Loop == {"push", "ack", "record", "report", "wait"}

\* A step of c's goroutine disturbs no other connection, and only some of its
\* own steps touch what it owes, sends and waits for.
Flows(c) ==
  /\ \A d \in Conns \ {c} : /\ down'[d] = down[d] /\ owed'[d] = owed[d]
                            /\ notify'[d] = notify[d]
  /\ latest' = latest
  /\ \/ Current(c) \/ Push(c) \/ Woken(c) \/ Refuse(c) \/ Close(c)
     \/ /\ down'[c] = down[c] /\ owed'[c] = owed[c] /\ notify'[c] = notify[c]
        /\ pc'[c] \in Loop => pc[c] \in Loop

LEMMA ServesFlows ==
  ASSUME TypeInv, NEW c \in Conns, Serves(c)
  PROVE  Flows(c)
<1>0. /\ pc \in [Conns -> Labels] /\ owed \in [Conns -> Pair] /\ notify \in [Conns -> BOOLEAN]
      /\ down \in [Conns -> Seq(Message)]
  BY DEF TypeInv, TypeOK
<1> USE DEF Flows, Loop
<1>1. CASE Accept(c)
  BY <1>0, <1>1 DEF Accept
<1>2. CASE Handle(c)
  BY <1>0, <1>2 DEF Handle
<1>3. CASE Register(c)
  BY <1>0, <1>3 DEF Register
<1>4. CASE RegisterFails(c)
  BY <1>0, <1>4 DEF RegisterFails
<1>5. CASE JoinRetiring(c)
  BY <1>0, <1>5 DEF JoinRetiring
<1>6. CASE Retired(c)
  BY <1>0, <1>6 DEF Retired
<1>7. CASE JoinMembers(c)
  BY <1>0, <1>7 DEF JoinMembers
<1>8. CASE JoinFirst(c)
  BY <1>0, <1>8 DEF JoinFirst
<1>9. CASE JoinRefused(c)
  BY <1>0, <1>9 DEF JoinRefused
<1>10. CASE Prepared(c)
  BY <1>0, <1>10 DEF Prepared
<1>11. CASE PrepareFails(c)
  BY <1>0, <1>11 DEF PrepareFails
<1>12. CASE Ready(c)
  BY <1>0, <1>12 DEF Ready
<1>13. CASE ReadyRefused(c)
  BY <1>0, <1>13 DEF ReadyRefused
<1>14. CASE Announce(c)
  BY <1>0, <1>14 DEF Announce
<1>15. CASE Current(c)
  BY <1>0, <1>15 DEF Current
<1>16. CASE Push(c)
  BY <1>0, <1>16 DEF Push
<1>17. CASE PushFails(c)
  BY <1>0, <1>17 DEF PushFails
<1>18. CASE TakeAck(c)
  BY <1>0, <1>18 DEF TakeAck
<1>19. CASE Record(c)
  BY <1>0, <1>19 DEF Record
<1>20. CASE Report(c)
  BY <1>0, <1>20 DEF Report
<1>21. CASE Woken(c)
  BY <1>0, <1>21 DEF Woken
<1>22. CASE Lost(c)
  BY <1>0, <1>22 DEF Lost
<1>23. CASE Leave(c)
  BY <1>0, <1>23 DEF Leave
<1>24. CASE Unsubscribed(c)
  BY <1>0, <1>24 DEF Unsubscribed
<1>25. CASE Release(c)
  BY <1>0, <1>25 DEF Release
<1>26. CASE Unlist(c)
  BY <1>0, <1>26 DEF Unlist
<1>27. CASE Refuse(c)
  BY <1>0, <1>27 DEF Refuse
<1>28. CASE Delist(c)
  BY <1>0, <1>28 DEF Delist
<1>29. CASE Close(c)
  BY <1>0, <1>29 DEF Close, Flows
<1> QED
  BY <1>1, <1>2, <1>3, <1>4, <1>5, <1>6, <1>7, <1>8, <1>9, <1>10, <1>11, <1>12,
     <1>13, <1>14, <1>15, <1>16, <1>17, <1>18, <1>19, <1>20, <1>21, <1>22, <1>23,
     <1>24, <1>25, <1>26, <1>27, <1>28, <1>29
     DEF Serves

LEMMA CallsFlow ==
  ASSUME NEW a \in Apps, Begins(a) \/ Continues(a)
  PROVE  UNCHANGED <<down, owed, latest>>
<1>1. CASE SetHeadFind(a)
  BY <1>1 DEF SetHeadFind
<1>2. CASE PublishInsert(a)
  BY <1>2 DEF PublishInsert
<1>3. CASE Unpublish(a)
  BY <1>3 DEF Unpublish
<1>4. CASE SweepCheck(a)
  BY <1>4 DEF SweepCheck
<1>5. CASE Stop(a)
  BY <1>5 DEF Stop
<1>6. CASE SetHeadMove(a)
  BY <1>6 DEF SetHeadMove
<1>7. CASE SetHeadWake(a)
  BY <1>7 DEF SetHeadWake
<1>8. CASE PublishMove(a)
  BY <1>8 DEF PublishMove
<1>9. CASE CloseOne(a)
  BY <1>9 DEF CloseOne
<1>10. CASE SweepInstall(a)
  BY <1>10 DEF SweepInstall
<1>11. CASE SweepKeeps(a)
  BY <1>11 DEF SweepKeeps
<1>12. CASE SweepDrops(a)
  BY <1>12 DEF SweepDrops
<1>13. CASE SweepResets(a)
  BY <1>13 DEF SweepResets
<1>14. CASE StopListener(a)
  BY <1>14 DEF StopListener
<1> QED
  BY <1>1, <1>2, <1>3, <1>4, <1>5, <1>6, <1>7, <1>8, <1>9, <1>10, <1>11, <1>12,
     <1>13, <1>14
     DEF Begins, Continues

\* The updates of a connection stay as they are but for these steps.
LEMMA FlowStep ==
  ASSUME TypeInv, [Next]_vars, NEW c \in Conns
  PROVE  \/ down'[c] = down[c] /\ owed'[c] = owed[c] /\ latest'[c] = latest[c]
         \/ Current(c) \/ Push(c) \/ Refuse(c) \/ Close(c) \/ Interpret(c) \/ HangUp(c)
<1>0. /\ pc \in [Conns -> Labels] /\ owed \in [Conns -> Pair]
      /\ down \in [Conns -> Seq(Message)] /\ latest \in [Conns -> AnyHead]
  BY DEF TypeInv, TypeOK
<1> DEFINE P == \/ down'[c] = down[c] /\ owed'[c] = owed[c] /\ latest'[c] = latest[c]
                \/ Current(c) \/ Push(c) \/ Refuse(c) \/ Close(c) \/ Interpret(c) \/ HangUp(c)
<1>1. CASE UNCHANGED vars
  BY <1>1 DEF vars
<1>2. ASSUME NEW d \in Conns, Serves(d) PROVE P
  <2>1. Woken(c) => down' = down /\ owed' = owed
    BY DEF Woken
  <2> QED
    BY <1>2, <2>1, ServesFlows DEF Flows
<1>3. ASSUME NEW d \in Conns, Reads(d) PROVE UNCHANGED <<down, owed, latest>>
  BY <1>3 DEF Reads, ReadAck, ReadFails
<1>4. ASSUME NEW d \in Conns, Clients(d) PROVE P
  <2>1. CASE Dial(d)
    BY <2>1 DEF Dial
  <2>2. CASE Interpret(d)
    BY <1>0, <2>2 DEF Interpret
  <2>3. CASE HangUp(d)
    BY <1>0, <2>3 DEF HangUp
  <2> QED
    BY <1>4, <2>1, <2>2, <2>3 DEF Clients
<1> HIDE DEF P
<1>5. P
  BY <1>1, <1>2, <1>3, <1>4, CallsFlow DEF Next, Rest, P
<1> QED
  BY <1>5 DEF P

\* Where a connection may have been before.
LEMMA Came ==
  ASSUME TypeInv, [Next]_vars, NEW c \in Conns
  PROVE  /\ pc'[c] \in Joined => \/ pc[c] \in Joined /\ my'[c] = my[c]
                                 \/ pc[c] \in Arriving
         /\ pc'[c] \in Arriving \cup {"idle"} => pc[c] \in Arriving \cup {"idle"}
         /\ pc[c] = "done" => pc'[c] = "done"
<1>0. /\ pc \in [Conns -> Labels] /\ my \in [Conns -> 0..MaxStates]
  BY DEF TypeInv, TypeOK
<1> DEFINE P == /\ pc'[c] \in Joined => \/ pc[c] \in Joined /\ my'[c] = my[c]
                                        \/ pc[c] \in Arriving
                /\ pc'[c] \in Arriving \cup {"idle"} => pc[c] \in Arriving \cup {"idle"}
                /\ pc[c] = "done" => pc'[c] = "done"
<1>1. ASSUME pc'[c] = pc[c], my'[c] = my[c] PROVE P
  BY <1>1
<1>2. UNCHANGED regVars => P
  BY <1>1 DEF regVars
<1>3. ASSUME NEW d \in Conns, Walk(d) PROVE P
  <2>1. PICK label \in Labels :
          /\ pc' = [pc EXCEPT ![d] = label]
          /\ label \in Arriving => pc[d] \in Arriving
          /\ \/ pc[d] \in Joined \ {"prepare"} /\ label \in Joined \ {"prepare"}
             \/ pc[d] \in Apart \ {"idle", "done"} /\ label \in Apart \ {"idle", "done"}
    BY <1>3 DEF Walk
  <2>2. my' = my
    BY <1>3 DEF Walk
  <2>3. CASE d = c
    BY <1>0, <2>1, <2>2, <2>3 DEF Joined, Apart
  <2>4. CASE d # c
    <3>1. pc'[c] = pc[c] /\ my'[c] = my[c]
      BY <1>0, <2>1, <2>2, <2>4
    <3> QED
      BY <1>1, <3>1
  <2> QED
    BY <2>3, <2>4
<1>4. ASSUME NEW d \in Conns, Settles(d) PROVE P
  <2>1. pc[d] = "prepare" /\ pc' = [pc EXCEPT ![d] = "ready"] /\ my' = my
    BY <1>4, SettlesState
  <2>2. pc'[c] = pc[c] \/ (pc[c] \in Joined /\ pc'[c] = "ready")
    BY <1>0, <2>1 DEF Joined
  <2> QED
    BY <1>1, <2>1, <2>2 DEF Arriving
<1>5. ASSUME NEW d \in Conns, Passes(d) PROVE P
  <2>1. CASE d # c
    BY <1>1, <1>5, <2>1, PassesPlaces
  <2>2. CASE JoinRetiring(c) \/ Retired(c)
    BY <1>0, <2>2 DEF JoinRetiring, Retired, Joined, Arriving
  <2>3. CASE JoinMembers(c)
    BY <1>0, <2>3 DEF JoinMembers, Arriving
  <2>4. CASE Leave(c) \/ Release(c) \/ Unlist(c)
    BY <1>0, <2>4 DEF Leave, Release, Unlist, Joined, Arriving
  <2>5. CASE Unsubscribed(c)
    BY <1>0, <2>5 DEF Unsubscribed, Joined, Arriving
  <2>6. CASE Close(c) \/ Dial(c)
    BY <1>0, <2>6 DEF Close, Dial, Joined, Arriving
  <2> QED
    BY <1>5, <2>1, <2>2, <2>3, <2>4, <2>5, <2>6 DEF Passes
<1>6. ASSUME NEW d \in Conns, JoinFirst(d) PROVE P
  <2>1. pc[d] = "join" /\ pc' = [pc EXCEPT ![d] = "prepare"] /\ my' = [my EXCEPT ![d] = made + 1]
    BY <1>6 DEF JoinFirst
  <2> QED
    BY <1>0, <1>1, <2>1 DEF Arriving
<1>7. ASSUME NEW a \in Apps, HeadStep(a) \/ PublishInsert(a) \/ Unpublish(a) PROVE P
  <2>1. HeadStep(a) => pc' = pc /\ my' = my
    BY HeadStepState
  <2> QED
    BY <1>1, <1>7, <2>1 DEF PublishInsert, Unpublish
<1> HIDE DEF P
<1>8. P
  BY <1>2, <1>3, <1>4, <1>5, <1>6, <1>7, RegistryStep DEF Passes
<1> QED
  BY <1>8 DEF P

\* What a client is sent climbs from the head it has interpreted last to the one
\* that its subscriber took last, which is not past the head of the ref.
FlowOK ==
  \A c \in Conns :
    /\ Climbs(down[c]) /\ Above(down[c], latest[c].seq)
    /\ pc[c] # "done" =>
         Below(down[c], owed[c].head.seq) /\ latest[c].seq <= owed[c].head.seq
    /\ pc[c] \in Joined => owed[c].head.seq <= state[my[c]].head.seq
    /\ pc[c] \in Arriving \cup {"idle"} => owed[c].head.seq = 0

LEMMA FlowTypes ==
  ASSUME TypeInv, NEW c \in Conns
  PROVE  /\ pc \in [Conns -> Labels] /\ down \in [Conns -> Seq(Message)] /\ owed \in [Conns -> Pair]
         /\ latest \in [Conns -> AnyHead]
         /\ latest[c].seq \in Nat /\ owed[c].head.seq \in Nat /\ owed[c].head \in AnyHead
         /\ down[c] \in Seq(Message)
         /\ \A i \in StateIds : state[i].head.seq \in Nat
         /\ pc[c] \in Joined => my[c] \in 1..made /\ my[c] \in StateIds
BY DEF TypeInv, TypeOK, SessionOK, Bound, Pair, AnyHead, RefState, StateIds

\* A subscriber that joins has taken nothing; the head of a ref only grows.
LEMMA OwedInOrder ==
  ASSUME TypeInv, HeadOK, FlowOK, [Next]_vars, NEW c \in Conns, owed'[c] = owed[c]
  PROVE  /\ pc'[c] \in Joined => owed'[c].head.seq <= state'[my'[c]].head.seq
         /\ pc'[c] \in Arriving \cup {"idle"} => owed'[c].head.seq = 0
<1>0. TypeInv'
  BY StepTypeInv
<1>1. ASSUME pc'[c] \in Joined PROVE owed'[c].head.seq <= state'[my'[c]].head.seq
  <2>1. my'[c] \in StateIds /\ state'[my'[c]].head.seq \in Nat
    BY <1>0, <1>1 DEF TypeInv, TypeOK, SessionOK, Bound, AnyHead, RefState, StateIds
  <2>2. CASE pc[c] \in Joined /\ my'[c] = my[c]
    <3>1. my[c] \in 1..made /\ my[c] \in StateIds /\ owed[c].head.seq \in Nat
          /\ state[my[c]].head.seq \in Nat
      BY <2>2, FlowTypes
    <3>2. state[my[c]].head.seq <= state'[my[c]].head.seq
      BY <3>1, StepHead
    <3>3. owed[c].head.seq <= state[my[c]].head.seq
      BY <2>2 DEF FlowOK
    <3> QED
      BY <2>1, <2>2, <3>1, <3>2, <3>3
  <2>3. CASE pc[c] \in Arriving
    BY <2>1, <2>3 DEF FlowOK
  <2> QED
    BY <1>1, <2>2, <2>3, Came
<1> QED
  BY <1>1, Came DEF FlowOK

LEMMA StepFlow == TypeInv /\ HeadOK /\ FlowOK /\ [Next]_vars => FlowOK'
<1> SUFFICES ASSUME TypeInv, HeadOK, FlowOK, [Next]_vars, NEW c \in Conns
             PROVE  /\ Climbs(down'[c]) /\ Above(down'[c], latest'[c].seq)
                    /\ pc'[c] # "done" =>
                         Below(down'[c], owed'[c].head.seq) /\ latest'[c].seq <= owed'[c].head.seq
                    /\ pc'[c] \in Joined => owed'[c].head.seq <= state'[my'[c]].head.seq
                    /\ pc'[c] \in Arriving \cup {"idle"} => owed'[c].head.seq = 0
  BY DEF FlowOK, Climbs, Above, Below
<1> DEFINE Queue == /\ Climbs(down'[c]) /\ Above(down'[c], latest'[c].seq)
                    /\ pc'[c] # "done" =>
                         Below(down'[c], owed'[c].head.seq) /\ latest'[c].seq <= owed'[c].head.seq
<1>0. /\ Climbs(down[c]) /\ Above(down[c], latest[c].seq)
      /\ pc[c] # "done" =>
           Below(down[c], owed[c].head.seq) /\ latest[c].seq <= owed[c].head.seq
  BY DEF FlowOK
<1>1. CASE down'[c] = down[c] /\ owed'[c] = owed[c] /\ latest'[c] = latest[c]
  <2>1. pc'[c] # "done" => pc[c] # "done"
    BY Came
  <2>2. Queue
    BY <1>0, <1>1, <2>1
  <2> QED
    BY <1>1, <2>2, OwedInOrder
<1>2. CASE Current(c)
  <2>1. /\ pc[c] = "current" /\ pc'[c] = "push" /\ owed'[c].head = state[my[c]].head
        /\ UNCHANGED <<down, latest, my, state>>
    BY <1>2, FlowTypes DEF Current
  <2>2. owed[c].head.seq <= state[my[c]].head.seq /\ my[c] \in StateIds
    BY <2>1, FlowTypes DEF FlowOK, Joined
  <2>3. \A k \in Nat : owed[c].head.seq <= k /\ Below(down[c], owed[c].head.seq) => Below(down[c], k)
    <3> SUFFICES ASSUME NEW k \in Nat, owed[c].head.seq <= k, Below(down[c], owed[c].head.seq),
                        NEW n \in DOMAIN down[c], down[c][n].kind = "update"
                 PROVE  down[c][n].head.seq <= k
      BY DEF Below
    <3>1. down[c][n] \in Message
      <4>1. down[c] \in Seq(Message)
        BY FlowTypes
      <4> HIDE DEF Message
      <4> QED
        BY <4>1
    <3> QED
      BY <3>1, FlowTypes DEF Below, Message, AnyHead
  <2>4. Queue
    BY <1>0, <2>1, <2>2, <2>3, FlowTypes
  <2> QED
    BY <2>1, <2>2, <2>4, FlowTypes DEF Arriving
<1>3. CASE Push(c)
  <2>1. /\ pc[c] = "push" /\ pc'[c] = "ack" /\ UNCHANGED <<owed, latest, my, state>>
        /\ down'[c] \in {down[c], Append(down[c], Update(owed[c].head, synced[c]))}
    BY <1>3, FlowTypes DEF Push
  <2> DEFINE msg == Update(owed[c].head, synced[c])
  <2>2. msg \in Message /\ msg.kind = "update" /\ msg.head.seq = owed[c].head.seq
    BY FlowTypes DEF Update, Message, TypeInv, TypeOK
  <2> HIDE DEF msg
  <2>3. Queue
    <3>1. CASE down'[c] = down[c]
      BY <1>0, <2>1, <3>1
    <3>2. CASE down'[c] = Append(down[c], msg)
      BY <1>0, <2>1, <2>2, <3>2, FlowTypes, AppendInOrder
    <3> QED
      BY <2>1, <3>1, <3>2 DEF msg
  <2> QED
    BY <2>1, <2>3, OwedInOrder
<1>4. CASE Refuse(c)
  <2>1. /\ pc[c] = "closing" /\ pc'[c] = "delisting" /\ UNCHANGED <<latest, owed>>
        /\ down'[c] \in {down[c], Append(down[c], ErrorMessage)}
    BY <1>4, FlowTypes DEF Refuse
  <2>2. ErrorMessage \in Message /\ ErrorMessage.kind # "update"
    BY DEF ErrorMessage, Message, ZeroHead, AnyHead, Trees
  <2>3. Queue
    <3>1. CASE down'[c] = down[c]
      BY <1>0, <2>1, <3>1
    <3>2. CASE down'[c] = Append(down[c], ErrorMessage)
      BY <1>0, <2>1, <2>2, <3>2, FlowTypes, AppendInOrder
    <3> QED
      BY <2>1, <3>1, <3>2
  <2> QED
    BY <2>1, <2>3, OwedInOrder
<1>5. CASE Close(c)
  <2>1. pc'[c] = "done" /\ UNCHANGED <<latest, down>>
    BY <1>5, FlowTypes DEF Close
  <2> QED
    BY <1>0, <2>1 DEF Joined, Arriving
<1>6. CASE Interpret(c)
  <2>1. /\ down[c] # <<>> /\ Head(down[c]).kind = "update"
        /\ latest'[c] = Head(down[c]).head
        /\ down'[c] = Tail(down[c])
        /\ UNCHANGED <<pc, owed, my, state>>
    BY <1>6, FlowTypes DEF Interpret
  <2> DEFINE msgs == down[c]
             seq  == owed[c].head.seq
  <2>2. Queue
    <3>1. msgs \in Seq(Message) /\ msgs # <<>> /\ seq \in Nat
      BY <2>1, FlowTypes
    <3>2. Climbs(msgs) /\ (pc'[c] # "done" => Below(msgs, seq))
      BY <1>0, <2>1
    <3>3. down'[c] = Tail(msgs) /\ latest'[c].seq = Head(msgs).head.seq /\ owed'[c].head.seq = seq
          /\ Head(msgs).kind = "update"
      BY <2>1
    <3> HIDE DEF msgs, seq
    <3>4. Climbs(Tail(msgs)) /\ Above(Tail(msgs), Head(msgs).head.seq)
      BY <3>1, <3>2, <3>3, TailInOrder
    <3>5. Below(msgs, seq) => Below(Tail(msgs), seq) /\ Head(msgs).head.seq <= seq
      BY <3>1, <3>3, TailInOrder
    <3> QED
      BY <3>2, <3>3, <3>4, <3>5
  <2> QED
    BY <2>1, <2>2, OwedInOrder
<1>7. CASE HangUp(c)
  <2>1. down'[c] = <<>> /\ UNCHANGED <<pc, owed, my, state, latest>>
    BY <1>7, FlowTypes DEF HangUp
  <2>2. Queue
    BY <1>0, <2>1 DEF Climbs, Above, Below
  <2> QED
    BY <2>1, <2>2, OwedInOrder
<1> QED
  BY <1>1, <1>2, <1>3, <1>4, <1>5, <1>6, <1>7, FlowStep

LEMMA HeadsFlow == Spec => [](HeadOK /\ FlowOK)
<1>1. Init => HeadOK /\ FlowOK
  <2>1. Init => HeadOK
    BY DEF Init, HeadOK, NewState
  <2>2. Init => FlowOK
    BY DEF Init, FlowOK, Climbs, Above, Below, NoPair, ZeroHead, Joined
  <2> QED
    BY <2>1, <2>2
<1>2. TypeInv /\ (HeadOK /\ FlowOK) /\ [Next]_vars => (HeadOK /\ FlowOK)'
  BY StepHead, StepFlow
<1> QED
  BY <1>1, <1>2, TypesKept, PTL DEF Spec

\* On one connection a lower sequence never follows a higher one (a sequenced ref
\* "moves only forward", head.go): what the client interprets next is not older
\* than what it has, whatever it is sent in between.
THEOREM SequencesClimb == Spec => SequencesAdvance
<1> DEFINE Inv == TypeInv /\ HeadOK /\ FlowOK
<1>3. Inv /\ [Next]_vars => [\A c \in Conns : latest'[c] # latest[c] => latest'[c].seq >= latest[c].seq]_vars
  <2> SUFFICES ASSUME Inv, [Next]_vars, NEW c \in Conns, latest'[c] # latest[c]
               PROVE  latest'[c].seq >= latest[c].seq
    OBVIOUS
  <2>1. ~Current(c) /\ ~Push(c) /\ ~Refuse(c) /\ ~Close(c) /\ ~HangUp(c)
    BY DEF Current, Push, Refuse, Close, HangUp
  <2>2. Interpret(c)
    BY <2>1, FlowStep
  <2>3. /\ down[c] # <<>> /\ Head(down[c]).kind = "update"
        /\ latest'[c] = Head(down[c]).head
    BY <2>2, FlowTypes DEF Interpret
  <2>4. latest[c].seq <= Head(down[c]).head.seq
    <3>1. down[c] \in Seq(Message) /\ latest[c].seq \in Nat /\ Above(down[c], latest[c].seq)
      BY FlowTypes DEF FlowOK
    <3> QED
      BY <2>3, <3>1, TailInOrder
  <2>5. Head(down[c]).head.seq \in Nat
    <3>1. Head(down[c]) \in Message
      <4>1. down[c] \in Seq(Message)
        BY FlowTypes
      <4> HIDE DEF Message
      <4> QED
        BY <2>3, <4>1
    <3> QED
      BY <3>1 DEF Message, AnyHead
  <2> QED
    BY <2>3, <2>4, <2>5, FlowTypes
<1> QED
  BY <1>3, TypesKept, HeadsFlow, PTL DEF Spec, SequencesAdvance

-----------------------------------------------------------------------------
(* Wake-ups.  A subscriber that took another head than its ref has now holds *)
(* a signal, or is on the list of a call that has moved the ref and goes     *)
(* through those it has found.                                               *)

\* The call of a is yet to wake c for a head that moved.
Pending(a, c) ==
  /\ c \in call[a].todo
  /\ \/ call[a].at = "wake"
     \/ call[a].at \in {"members", "reset"} /\ call[a].moved

WakeOK ==
  Orderly =>
    \A c \in Conns : pc[c] \in Loop /\ owed[c].head # state[my[c]].head =>
      notify[c] \/ \E a \in Apps : Pending(a, c)

\* A call that is about to move a ref has found everybody that follows it.
FoundOK ==
  Orderly =>
    \A a \in Apps, c \in Conns : pc[c] \in Joined /\ my[c] = call[a].st =>
      /\ call[a].at = "move" => c \in call[a].todo
      /\ call[a].at # "publish"

\* Where a call stands that has begun.
LEMMA BeginsFound ==
  ASSUME TypeInv, NEW a \in Apps, Begins(a)
  PROVE  /\ call'[a].at = "move" => /\ state' = state /\ call'[a].st \in StateIds
                                    /\ call'[a].todo = state[call'[a].st].members
         /\ call'[a].at = "publish" => call'[a].st = made + 1
<1>0. call \in [Apps -> Call] /\ refs \in [Refs -> 0..MaxStates] /\ Idle.at = "idle"
  BY DEF TypeInv, TypeOK, Idle
<1>1. CASE SetHeadFind(a)
  <2>1. PICK ref \in Refs, head \in Headings :
          /\ Living(ref) # 0
          /\ Continue(a, [Idle EXCEPT !.at = "move", !.ref = ref, !.st = Living(ref),
                                      !.head = head, !.todo = state[Living(ref)].members])
    BY <1>1 DEF SetHeadFind
  <2>2. call'[a].at = "move" /\ call'[a].st = Living(ref)
        /\ call'[a].todo = state[Living(ref)].members
    BY <1>0, <2>1 DEF Idle
  <2>3. Living(ref) \in StateIds
    BY <1>0, <2>1 DEF Living, StateIds
  <2>4. state' = state
    BY <1>1 DEF SetHeadFind
  <2> QED
    BY <2>2, <2>3, <2>4
<1>2. CASE PublishInsert(a)
  <2>1. made' = made + 1 /\ call'[a].st = made'
    BY <1>2, MakesState
  <2>2. call'[a].at = "publish"
    <3>1. PICK ref \in Refs, head \in Headings :
            Continue(a, [Idle EXCEPT !.at = "publish", !.ref = ref, !.st = made + 1,
                                     !.head = head])
      BY <1>2 DEF PublishInsert
    <3> QED
      BY <1>0, <3>1 DEF Idle
  <2> QED
    BY <2>1, <2>2
<1>3. CASE Unpublish(a)
  <2>1. call'[a].at \in {"idle", "close"}
    BY <1>0, <1>3 DEF Unpublish, Idle
  <2> QED
    BY <2>1
<1>4. CASE SweepCheck(a)
  <2>1. call'[a].at = "install"
    BY <1>0, <1>4 DEF SweepCheck, Idle
  <2> QED
    BY <2>1
<1>5. CASE Stop(a)
  <2>1. call'[a].at = "listener"
    BY <1>0, <1>5 DEF Stop, Idle
  <2> QED
    BY <2>1
<1> QED
  BY <1>1, <1>2, <1>3, <1>4, <1>5 DEF Begins

LEMMA StepFound == TypeInv /\ RegOK /\ QuietOK /\ FoundOK /\ [Next]_vars => FoundOK'
<1> SUFFICES ASSUME TypeInv, RegOK, QuietOK, FoundOK, [Next]_vars, Orderly,
                    NEW a \in Apps, NEW c \in Conns, pc'[c] \in Joined, my'[c] = call'[a].st
             PROVE  /\ call'[a].at = "move" => c \in call'[a].todo
                    /\ call'[a].at # "publish"
  BY DEF FoundOK
<1>0. call \in [Apps -> Call] /\ Idle.at = "idle" /\ made \in Nat
  BY DEF TypeInv, TypeOK, Idle
<1>1. pc[c] \in Joined => my'[c] = my[c] /\ my[c] \in 1..made /\ c \in state[my[c]].members
  <2>1. pc[c] \in Joined => pc[c] \notin Arriving
    BY DEF Joined, Arriving
  <2> QED
    BY <2>1, Came DEF TypeInv, SessionOK, Bound, RegOK, MembersOK
<1>2. CASE call[a] # Idle /\ call'[a] = call[a]
  <2>1. pc[c] \in Joined
    BY <1>2, Came DEF QuietOK
  <2> QED
    BY <1>1, <1>2, <2>1 DEF FoundOK
<1>3. CASE call'[a] = Idle
  BY <1>0, <1>3
<1>4. ASSUME NEW b \in Apps, Begins(b) \/ Continues(b), a # b PROVE call'[a] = call[a]
  BY <1>4, BeginsCall, ContinuesCall DEF Others
<1>5. CASE Begins(a)
  <2>1. pc' = pc
    BY <1>5, BeginsCall
  <2> QED
    BY <1>0, <1>1, <1>5, <2>1, BeginsFound
<1>6. CASE Continues(a)
  <2>1. call'[a].at \notin {"move", "publish"}
    BY <1>6, ContinuesCall
  <2> QED
    BY <2>1
<1> QED
  BY <1>2, <1>3, <1>4, <1>5, <1>6, CallStep

\* Only a preparation or a call puts another head in the place of one.
LEMMA HeadStays ==
  ASSUME TypeInv, [Next]_vars, NEW i \in 1..made
  PROVE  \/ state'[i].head = state[i].head
         \/ \E c \in Conns : Settles(c) /\ my[c] = i
         \/ \E a \in Apps : HeadStep(a)
<1>0. i \in StateIds /\ made \in Nat /\ state \in [StateIds -> RefState]
  BY DEF TypeInv, TypeOK, StateIds
<1>1. ASSUME NEW c \in Conns, Settles(c), my[c] # i PROVE state'[i] = state[i]
  <2>1. PICK n : state' = [state EXCEPT ![my[c]] = n]
    BY <1>1, SettlesState
  <2> QED
    BY <1>0, <1>1, <2>1
<1>2. ASSUME NEW c \in Conns, Passes(c) PROVE state'[i].head = state[i].head
  BY <1>0, <1>2, PassesContent DEF SameContent, SameHead
<1>3. ASSUME \/ \E c \in Conns : JoinFirst(c)
             \/ \E a \in Apps : PublishInsert(a)
      PROVE  state'[i] = state[i]
  <2>1. made' = made + 1 /\ \A j \in StateIds \ {made'} : state'[j] = state[j]
    BY <1>3, MakesState
  <2> QED
    BY <1>0, <2>1
<1>4. UNCHANGED regVars => state' = state
  BY DEF regVars
<1>5. \A a \in Apps : Unpublish(a) => state' = state
  BY DEF Unpublish
<1>6. \A c \in Conns : Walk(c) => state' = state
  BY DEF Walk
<1> QED
  BY <1>1, <1>2, <1>3, <1>4, <1>5, <1>6, RegistryStep DEF Passes

\* A call that has moved a head goes through its list until everybody has the
\* signal.
LEMMA PendingStays ==
  ASSUME TypeInv, NEW a \in Apps, Continues(a), NEW c \in Conns, Pending(a, c)
  PROVE  notify'[c] \/ Pending(a, c)'
<1>0. /\ call \in [Apps -> Call] /\ call[a] \in Call /\ notify \in [Conns -> BOOLEAN]
  BY DEF TypeInv, TypeOK
<1>1. ASSUME NEW d \in Conns, SweepNext(a, d), call[a].moved, call[a].at # "wake", c # d
      PROVE  Pending(a, c)'
  <2> DEFINE rest == [call[a] EXCEPT !.at = "members", !.todo = @ \ {d}, !.drop = Free]
  <2>1. c \in call[a].todo
    BY DEF Pending
  <2>2. call'[a] = rest
    BY <1>0, <1>1, <2>1 DEF SweepNext
  <2>3. rest.at = "members" /\ rest.todo = call[a].todo \ {d} /\ rest.moved = call[a].moved
    BY <1>0 DEF Call
  <2> HIDE DEF rest
  <2> QED
    BY <1>1, <2>1, <2>2, <2>3 DEF Pending
<1>2. CASE SetHeadWake(a)
  <2>1. PICK d \in call[a].todo : notify' = [notify EXCEPT ![d] = TRUE] /\ TakeOff(a, d, Idle)
    BY <1>2 DEF SetHeadWake
  <2>2. CASE c = d
    BY <1>0, <2>1, <2>2
  <2>3. CASE c # d
    <3>1. c \in call[a].todo /\ call[a].at = "wake"
      BY <1>2 DEF Pending, SetHeadWake
    <3>2. call'[a] = [call[a] EXCEPT !.todo = @ \ {d}]
      <4>1. call[a].todo # {d}
        BY <2>3, <3>1
      <4> QED
        BY <1>0, <2>1, <4>1 DEF TakeOff
    <3>3. call'[a].at = "wake" /\ c \in call'[a].todo
      BY <1>0, <2>3, <3>1, <3>2 DEF Call
    <3> QED
      BY <3>3 DEF Pending
  <2> QED
    BY <2>2, <2>3
<1>3. CASE SweepKeeps(a)
  <2>1. PICK d \in call[a].todo :
          notify' = [notify EXCEPT ![d] = @ \/ call[a].moved] /\ SweepNext(a, d)
    BY <1>3 DEF SweepKeeps
  <2>2. call[a].moved /\ call[a].at # "wake" /\ d \in Conns
    BY <1>0, <1>3 DEF Pending, SweepKeeps, Call
  <2>3. CASE c = d
    BY <1>0, <2>1, <2>2, <2>3
  <2>4. CASE c # d
    BY <1>1, <2>1, <2>2, <2>4
  <2> QED
    BY <2>3, <2>4
<1>4. CASE SweepDrops(a)
  <2>1. PICK d \in call[a].todo : call' = [call EXCEPT ![a] = [call[a] EXCEPT !.at = "reset", !.drop = d]]
    BY <1>4 DEF SweepDrops
  <2>2. call'[a].at = "reset" /\ call'[a].todo = call[a].todo /\ call'[a].moved = call[a].moved
    BY <1>0, <2>1 DEF Call
  <2>3. c \in call[a].todo /\ call[a].moved
    BY <1>4 DEF Pending, SweepDrops
  <2> QED
    BY <2>2, <2>3 DEF Pending
<1>5. CASE SweepResets(a)
  <2>1. notify' = [notify EXCEPT ![call[a].drop] = TRUE] /\ SweepNext(a, call[a].drop)
    BY <1>5 DEF SweepResets
  <2>2. call[a].moved /\ call[a].at # "wake" /\ call[a].drop \in Conns
    BY <1>5 DEF Pending, SweepResets, TypeInv, CallOK
  <2>3. CASE c = call[a].drop
    BY <1>0, <2>1, <2>3
  <2>4. CASE c # call[a].drop
    BY <1>1, <2>1, <2>2, <2>4
  <2> QED
    BY <2>3, <2>4
<1>6. call[a].at \in {"wake", "members", "reset"}
  BY DEF Pending
<1>7. /\ ~SetHeadMove(a) /\ ~PublishMove(a) /\ ~CloseOne(a) /\ ~SweepInstall(a)
      /\ ~StopListener(a)
  BY <1>6 DEF SetHeadMove, PublishMove, CloseOne, SweepInstall, StopListener
<1> QED
  BY <1>2, <1>3, <1>4, <1>5, <1>7 DEF Continues

\* A call that moves a head has its followers on the list from then on.
LEMMA HeadStepWakes ==
  ASSUME TypeInv, RegOK, FoundOK, Orderly, NEW a \in Apps, HeadStep(a),
         NEW c \in Conns, pc[c] \in Joined, state'[my[c]].head # state[my[c]].head
  PROVE  Pending(a, c)'
<1> DEFINE i == my[c]
<1>0. /\ call \in [Apps -> Call] /\ call[a] \in Call /\ state \in [StateIds -> RefState]
      /\ i \in StateIds /\ state[i] \in RefState
  BY DEF TypeInv, TypeOK, SessionOK, Bound, StateIds
<1>1. CASE SetHeadMove(a)
  <2>1. /\ call[a].at = "move"
        /\ state' = [state EXCEPT ![call[a].st] = Move(state[call[a].st], call[a].head)]
    BY <1>1 DEF SetHeadMove
  <2>2. i = call[a].st
    BY <1>0, <2>1
  <2>3. Moves(state[i], call[a].head)
    BY <1>0, <2>1, <2>2 DEF Move
  <2>4. c \in call[a].todo
    BY <2>1, <2>2 DEF FoundOK
  <2>5. call' = [call EXCEPT ![a] = [call[a] EXCEPT !.at = "wake"]]
    BY <1>1, <2>2, <2>3, <2>4 DEF SetHeadMove
  <2>6. call'[a].at = "wake" /\ call'[a].todo = call[a].todo
    BY <1>0, <2>5 DEF Call
  <2> QED
    BY <2>4, <2>6 DEF Pending
<1>2. CASE PublishMove(a)
  <2>1. call[a].at = "publish" /\ i # call[a].st
    BY <1>2 DEF PublishMove, FoundOK
  <2>2. state' = state \/ \E n : state' = [state EXCEPT ![call[a].st] = n]
    BY <1>2 DEF PublishMove
  <2> QED
    BY <1>0, <2>1, <2>2
<1>3. CASE SweepInstall(a)
  <2>1. PICK ref \in call[a].refs :
          LET j     == refs[ref]
              head  == call[a].named[ref]
              named == head # Unnamed IN
          /\ state' = [state EXCEPT ![j] = IF named THEN Install(@, call[a].store, head)
                                           ELSE [@ EXCEPT !.store = call[a].store]]
          /\ state[j].members # {} =>
               Continue(a, [call[a] EXCEPT !.at = "members", !.ref = ref, !.st = j,
                                           !.todo = state[j].members,
                                           !.moved = named /\ Moves(state[j], head)])
    BY <1>3 DEF SweepInstall
  <2> DEFINE head == call[a].named[ref]
             st   == [state[i] EXCEPT !.store = call[a].store]
  <2>2. i = refs[ref]
    BY <1>0, <2>1
  <2>3. c \in state[i].members
    BY DEF RegOK, MembersOK
  <2>4. st.head = state[i].head /\ st.sequenced = state[i].sequenced /\ st.installed = state[i].installed
    BY <1>0 DEF RefState
  <2>5. state'[i] = IF head # Unnamed THEN Move(st, head) ELSE st
    BY <1>0, <2>1, <2>2 DEF Install
  <2> HIDE DEF st, head
  <2>6. head # Unnamed /\ Moves(st, head)
    BY <2>4, <2>5 DEF Move
  <2>7. Moves(state[i], head)
    BY <2>4, <2>6 DEF Moves, Allows, Advances
  <2>8. call'[a] = [call[a] EXCEPT !.at = "members", !.ref = ref, !.st = i,
                                   !.todo = state[i].members, !.moved = TRUE]
    BY <1>0, <2>1, <2>2, <2>3, <2>6, <2>7 DEF head
  <2>9. call'[a].at = "members" /\ call'[a].todo = state[i].members /\ call'[a].moved
    <3>1. \A x \in Call : \A r, j, t : LET y == [x EXCEPT !.at = "members", !.ref = r, !.st = j,
                                                       !.todo = t, !.moved = TRUE] IN
            y.at = "members" /\ y.todo = t /\ y.moved
      BY DEF Call
    <3> QED
      BY <1>0, <2>8, <3>1
  <2> QED
    BY <2>3, <2>9 DEF Pending
<1> QED
  BY <1>1, <1>2, <1>3 DEF HeadStep

\* A subscriber in its loop keeps what it took and its signal until it starts
\* the next round.
LEMMA LoopStep ==
  ASSUME TypeInv, [Next]_vars, NEW c \in Conns, pc'[c] \in Loop, ~Current(c)
  PROVE  /\ pc[c] \in Loop /\ owed'[c] = owed[c] /\ my'[c] = my[c]
         /\ notify[c] => notify'[c]
<1>0. /\ pc \in [Conns -> Labels] /\ owed \in [Conns -> Pair] /\ notify \in [Conns -> BOOLEAN]
      /\ call \in [Apps -> Call]
  BY DEF TypeInv, TypeOK
<1> DEFINE P == pc[c] \in Loop /\ owed'[c] = owed[c] /\ (notify[c] => notify'[c])
<1>1. CASE UNCHANGED vars
  BY <1>1 DEF vars
<1>2. ASSUME NEW d \in Conns, Serves(d) PROVE P
  <2>1. CASE d # c
    BY <1>2, <2>1, ServesFlows, ServesLines DEF Flows
  <2>2. CASE d = c
    <3>1. ~Woken(c)
      BY <1>0 DEF Woken, Loop
    <3>2. ~Refuse(c) /\ ~Close(c)
      BY <1>0 DEF Refuse, Close, Loop
    <3>3. Push(c) => P
      BY <1>0 DEF Push, Loop
    <3> QED
      BY <1>2, <2>2, <3>1, <3>2, <3>3, ServesFlows DEF Flows
  <2> QED
    BY <2>1, <2>2
<1>3. ASSUME NEW d \in Conns, Reads(d) PROVE UNCHANGED <<pc, owed, notify>>
  BY <1>3 DEF Reads, ReadAck, ReadFails
<1>4. ASSUME NEW d \in Conns, Clients(d) PROVE P
  <2>1. CASE Dial(d)
    BY <1>0, <2>1 DEF Dial, Loop
  <2>2. CASE Interpret(d)
    BY <2>2 DEF Interpret
  <2>3. CASE HangUp(d)
    BY <2>3 DEF HangUp
  <2> QED
    BY <1>4, <2>1, <2>2, <2>3 DEF Clients
<1>5. ASSUME NEW a \in Apps, Begins(a) \/ Continues(a) PROVE P
  <2>1. pc' = pc /\ owed' = owed
    BY <1>5, BeginsCall, ContinuesCall, CallsFlow
  <2>2. notify[c] => notify'[c]
    <3>1. CASE SetHeadWake(a)
      BY <1>0, <3>1 DEF SetHeadWake
    <3>2. CASE SweepKeeps(a)
      BY <1>0, <3>2 DEF SweepKeeps
    <3>3. CASE SweepResets(a)
      BY <1>0, <3>3 DEF SweepResets
    <3>4. CASE SetHeadFind(a)
      BY <3>4 DEF SetHeadFind
    <3>5. CASE PublishInsert(a)
      BY <3>5 DEF PublishInsert
    <3>6. CASE Unpublish(a)
      BY <3>6 DEF Unpublish
    <3>7. CASE SweepCheck(a)
      BY <3>7 DEF SweepCheck
    <3>8. CASE SetHeadMove(a)
      BY <3>8 DEF SetHeadMove
    <3>9. CASE PublishMove(a)
      BY <3>9 DEF PublishMove
    <3>10. CASE CloseOne(a)
      BY <3>10 DEF CloseOne
    <3>11. CASE SweepInstall(a)
      BY <3>11 DEF SweepInstall
    <3>12. CASE SweepDrops(a)
      BY <3>12 DEF SweepDrops
    <3>13. CASE StopListener(a)
      BY <3>13 DEF StopListener
    <3>14. CASE Stop(a)
      BY <3>14 DEF Stop
    <3> QED
      BY <1>5, <3>1, <3>2, <3>3, <3>4, <3>5, <3>6, <3>7, <3>8, <3>9, <3>10, <3>11, <3>12,
         <3>13, <3>14 DEF Begins, Continues
  <2> QED
    BY <2>1, <2>2
<1> HIDE DEF P
<1>6. P
  BY <1>1, <1>2, <1>3, <1>4, <1>5 DEF Next, Rest, P
<1>7. my'[c] = my[c]
  <2>1. pc[c] \notin Arriving /\ pc'[c] \in Joined
    BY <1>6 DEF P, Loop, Arriving, Joined
  <2> QED
    BY <2>1, Came
<1> QED
  BY <1>6, <1>7 DEF P

LEMMA StepWake ==
  TypeInv /\ RegOK /\ AnswerOK /\ FoundOK /\ WakeOK /\ [Next]_vars => WakeOK'
<1> SUFFICES ASSUME TypeInv, RegOK, AnswerOK, FoundOK, WakeOK, [Next]_vars, Orderly,
                    NEW c \in Conns, pc'[c] \in Loop, owed'[c].head # state'[my'[c]].head
             PROVE  notify'[c] \/ \E a \in Apps : Pending(a, c)'
  BY DEF WakeOK
<1>0. /\ pc \in [Conns -> Labels] /\ owed \in [Conns -> Pair] /\ Idle.at = "idle"
      /\ pc[c] \in Loop => my[c] \in 1..made /\ pc[c] \in Joined /\ pc[c] \in Serving
  BY DEF TypeInv, TypeOK, SessionOK, Bound, Joined, Loop, Serving, Idle
<1>1. ~Current(c)
  BY <1>0 DEF Current
<1>2. /\ pc[c] \in Loop /\ owed'[c] = owed[c] /\ my'[c] = my[c]
      /\ notify[c] => notify'[c]
  BY <1>1, LoopStep
<1>3. CASE state'[my[c]].head = state[my[c]].head
  <2>1. notify[c] \/ \E a \in Apps : Pending(a, c)
    BY <1>2, <1>3 DEF WakeOK
  <2>2. ASSUME NEW a \in Apps, Pending(a, c) PROVE notify'[c] \/ Pending(a, c)'
    <3>1. CASE call'[a] = call[a]
      BY <2>2, <3>1 DEF Pending
    <3>2. ASSUME NEW b \in Apps, Begins(b) \/ Continues(b), a # b PROVE call'[a] = call[a]
      BY <3>2, BeginsCall, ContinuesCall DEF Others
    <3>3. ~Begins(a)
      <4>1. call[a] # Idle
        BY <1>0, <2>2 DEF Pending
      <4> QED
        BY <4>1, BeginsCall
    <3> QED
      BY <2>2, <3>1, <3>2, <3>3, PendingStays, CallStep
  <2> QED
    BY <1>2, <2>1, <2>2
<1>4. CASE state'[my[c]].head # state[my[c]].head
  <2>1. ~\E d \in Conns : Settles(d) /\ my[d] = my[c]
    <3> SUFFICES ASSUME NEW d \in Conns, Settles(d), my[d] = my[c] PROVE FALSE
      OBVIOUS
    <3>1. pc[d] = "prepare"
      BY SettlesState
    <3> QED
      BY <1>0, <1>2, <3>1 DEF AnswerOK, PrepOK, ReadyOK
  <2>2. PICK a \in Apps : HeadStep(a)
    BY <1>0, <1>2, <1>4, <2>1, HeadStays
  <2>3. Pending(a, c)'
    BY <1>0, <1>2, <1>4, <2>2, HeadStepWakes
  <2> QED
    BY <2>3
<1> QED
  BY <1>3, <1>4

\* A subscriber that waits with nothing to wake it has been sent the head its ref
\* is at once no call is under way ("Every subscriber to the ref moves", SetHead),
\* provided that no connection arrives during a call: one that joins between
\* SetHead finding the followers and moving the ref is told by nobody.
THEOREM RestIsCurrent == ASSUME Orderly PROVE Spec => []RestingIsCurrent
<1> DEFINE Inv == TypeInv /\ RegOK /\ AnswerOK /\ FoundOK /\ WakeOK
<1>1. Init => Inv
  <2>1. Init => FoundOK /\ WakeOK
    BY DEF Init, FoundOK, WakeOK, Loop, Joined
  <2> QED
    BY <2>1, InitTypeInv, InitReg, InitAnswer
<1>2. Inv /\ [Next]_vars => Inv'
  BY StepTypeInv, StepReg, StepAnswer, StepFound, StepWake DEF AnswerOK
<1>3. Inv => RestingIsCurrent
  <2> SUFFICES ASSUME Inv, Quiet, NEW c \in Conns, Resting(c)
               PROVE  owed[c].head = state[my[c]].head
    BY DEF RestingIsCurrent
  <2>1. pc[c] \in Loop /\ ~notify[c]
    BY DEF Resting, Loop
  <2>2. \A a \in Apps : ~Pending(a, c)
    BY DEF Quiet, Pending, Idle
  <2> QED
    BY <2>1, <2>2 DEF WakeOK
<1> QED
  BY <1>1, <1>2, <1>3, PTL DEF Spec
=============================================================================
