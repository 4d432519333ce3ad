---------------------------- MODULE ServerProofs ----------------------------
(***************************************************************************)
(* Theorems about the server, for every number of refs, connections and    *)
(* calls: its types; who is a member of which refState; and who sees to it *)
(* that a ref that was prepared is released.                               *)
(***************************************************************************)
EXTENDS ServerProperties, FiniteSetTheorems, TLAPS

USE VoidAssumption, ServerAssumption
    DEF registry, entries, running, stores, session, sync, signals, life, wires,
        ends, outside, calls, client, Goto, Continue, Unlocked

-----------------------------------------------------------------------------
(* Types.  A subscriber's registration and its refState are only there once *)
(* it has got that far, and a sweep can count on the registry it has found  *)
(* because it holds the mutex.                                              *)

\* Labels past the registration, and labels at which my names a refState.
Registered == {"join", "retired", "unsubscribed", "release", "unlist"} \cup Joined
Bound      == {"retired", "unsubscribed", "release", "unlist"} \cup Joined

SessionOK ==
  \A c \in Conns :
    /\ pc[c] \in Registered => reg[c] \in [ref : Refs, hash : Trees]
    /\ pc[c] \in Bound => my[c] \in 1..made

Sweeps == {"install", "members", "reset"}

CallOK ==
  \A a \in Apps :
    /\ call[a].at \in {"move", "publish"} => call[a].st \in 1..made
    /\ call[a].at = "publish" => call[a].ref \in Refs
    /\ call[a].at \in Sweeps => mu = a /\ call[a].refs \subseteq PublishedRefs
                                  /\ call[a].named \in Named
    /\ call[a].at = "reset" => call[a].drop \in Conns
    /\ mu = a => call[a].at \in Sweeps

RegistryOK == \A r \in Refs : refs[r] \in 0..made

TypeInv == TypeOK /\ SessionOK /\ CallOK /\ RegistryOK

LEMMA IdleType == Idle \in Call
BY DEF Idle, Call, ZeroHead, AnyHead, Trees, Stores, NoStore

LEMMA NewStateType == NewState \in RefState
BY DEF NewState, RefState, ZeroHead, AnyHead, Trees, Stores, NoStore

LEMMA MoveType ==
  ASSUME NEW st \in RefState, NEW head \in AnyHead
  PROVE  Move(st, head) \in RefState
BY DEF Move, Moves, RefState, Ordered

LEMMA MovePublished ==
  ASSUME NEW st \in RefState, NEW head \in AnyHead
  PROVE  Move(st, head).published = st.published
BY DEF Move, RefState

LEMMA LoadType ==
  ASSUME holds \in [Stores -> SUBSET Hashes], NEW store, NEW hash \in Trees
  PROVE  Load(store, hash) \in [Stores -> SUBSET Hashes]
BY DEF Load, Trees

LEMMA ForgetType ==
  ASSUME refs \in [Refs -> 0..MaxStates], NEW ref \in Refs, NEW i \in StateIds
  PROVE  /\ Forget(ref, i) \in [Refs -> 0..MaxStates]
         /\ \A r \in Refs : Forget(ref, i)[r] \in {0, refs[r]}
BY DEF Forget, StateIds

LEMMA InitTypeInv == Init => TypeInv
<1> SUFFICES ASSUME Init PROVE TypeInv
  OBVIOUS
<1>1. TypeOK
  <2>1. state \in [StateIds -> RefState]
    BY NewStateType DEF Init
  <2>2. call \in [Apps -> Call]
    BY IdleType DEF Init
  <2>3. /\ owed \in [Conns -> Pair]
        /\ latest \in [Conns -> AnyHead]
        /\ acked \in [Conns -> SUBSET Trees]
        /\ synced \in [Conns -> Trees]
    BY DEF Init, NoPair, Pair, ZeroHead, AnyHead, Trees, Stores, NoStore
  <2>4. /\ down \in [Conns -> Seq(Message)]
        /\ up \in [Conns -> Seq(Trees)]
    BY DEF Init
  <2>5. appStore \in Stores /\ made \in 0..MaxStates
    BY DEF Init, Stores
  <2>6. budget \in [Calls -> Nat]
    BY ServerAssumption DEF Init
  <2> QED
    BY <2>1, <2>2, <2>3, <2>4, <2>5, <2>6 DEF Init, TypeOK, Labels
<1>2. SessionOK
  BY DEF Init, SessionOK, Registered, Bound, Joined
<1>3. CallOK
  BY DEF Init, CallOK, Sweeps, Idle
<1>4. RegistryOK
  BY DEF Init, RegistryOK
<1> QED
  BY <1>1, <1>2, <1>3, <1>4 DEF TypeInv

LEMMA ServesTypes == ASSUME TypeInv, NEW c \in Conns, Serves(c) PROVE TypeInv'
<1> USE DEF TypeInv
<1>1. CASE Accept(c)
  <2>1. TypeOK'
    BY <1>1 DEF Accept, TypeOK, SessionOK, CallOK, Registered, Bound, Joined, Labels
  <2>2. SessionOK'
    BY <1>1 DEF Accept, TypeOK, SessionOK, Registered, Bound, Joined
  <2>3. CallOK'
    BY <1>1 DEF Accept, TypeOK, SessionOK, CallOK, PublishedRefs, Sweeps
  <2>4. RegistryOK'
    BY <1>1 DEF Accept, TypeOK, RegistryOK
  <2> QED
    BY <2>1, <2>2, <2>3, <2>4
<1>2. CASE Handle(c)
  <2>1. TypeOK'
    BY <1>2 DEF Handle, TypeOK, SessionOK, CallOK, Registered, Bound, Joined, Labels
  <2>2. SessionOK'
    BY <1>2 DEF Handle, TypeOK, SessionOK, Registered, Bound, Joined
  <2>3. CallOK'
    BY <1>2 DEF Handle, TypeOK, SessionOK, CallOK, PublishedRefs, Sweeps
  <2>4. RegistryOK'
    BY <1>2 DEF Handle, TypeOK, RegistryOK
  <2> QED
    BY <2>1, <2>2, <2>3, <2>4
<1>3. CASE Register(c)
  <2>1. TypeOK'
    BY <1>3 DEF Register, TypeOK, SessionOK, CallOK, Registered, Bound, Joined, Labels
  <2>2. SessionOK'
    BY <1>3 DEF Register, TypeOK, SessionOK, Registered, Bound, Joined
  <2>3. CallOK'
    BY <1>3 DEF Register, TypeOK, SessionOK, CallOK, PublishedRefs, Sweeps
  <2>4. RegistryOK'
    BY <1>3 DEF Register, TypeOK, RegistryOK
  <2> QED
    BY <2>1, <2>2, <2>3, <2>4
<1>4. CASE RegisterFails(c)
  <2>1. TypeOK'
    BY <1>4 DEF RegisterFails, TypeOK, SessionOK, CallOK, Registered, Bound, Joined, Labels
  <2>2. SessionOK'
    BY <1>4 DEF RegisterFails, TypeOK, SessionOK, Registered, Bound, Joined
  <2>3. CallOK'
    BY <1>4 DEF RegisterFails, TypeOK, SessionOK, CallOK, PublishedRefs, Sweeps
  <2>4. RegistryOK'
    BY <1>4 DEF RegisterFails, TypeOK, RegistryOK
  <2> QED
    BY <2>1, <2>2, <2>3, <2>4
<1>5. CASE JoinRetiring(c)
  <2>1. TypeOK'
    BY <1>5 DEF JoinRetiring, TypeOK, SessionOK, CallOK, Registered, Bound, Joined, Labels, Found
  <2>2. SessionOK'
    BY <1>5 DEF JoinRetiring, TypeOK, SessionOK, RegistryOK, Registered, Bound, Joined, Found
  <2>3. CallOK'
    BY <1>5 DEF JoinRetiring, TypeOK, SessionOK, CallOK, PublishedRefs, Sweeps, Found
  <2>4. RegistryOK'
    BY <1>5 DEF JoinRetiring, TypeOK, RegistryOK
  <2> QED
    BY <2>1, <2>2, <2>3, <2>4
<1>6. CASE Retired(c)
  <2>1. TypeOK'
    BY <1>6 DEF Retired, TypeOK, SessionOK, CallOK, Registered, Bound, Joined, Labels
  <2>2. SessionOK'
    BY <1>6 DEF Retired, TypeOK, SessionOK, Registered, Bound, Joined
  <2>3. CallOK'
    BY <1>6 DEF Retired, TypeOK, SessionOK, CallOK, PublishedRefs, Sweeps
  <2>4. RegistryOK'
    BY <1>6 DEF Retired, TypeOK, RegistryOK
  <2> QED
    BY <2>1, <2>2, <2>3, <2>4
<1>7. CASE JoinMembers(c)
  <2>1. TypeOK'
    <3> DEFINE i == refs[reg[c].ref]
               n == [state[i] EXCEPT !.members = @ \cup {c}]
    <3>1. i \in StateIds /\ state[i] \in RefState
      BY <1>7 DEF JoinMembers, TypeOK, SessionOK, RegistryOK, Registered, Found, StateIds
    <3>2. n \in RefState
      BY <3>1 DEF RefState
    <3>3. state' = [state EXCEPT ![i] = n]
      BY <1>7, <3>1 DEF JoinMembers, TypeOK, RefState, Found
    <3>4. state' \in [StateIds -> RefState]
      BY <3>1, <3>2, <3>3 DEF TypeOK
    <3> QED
      BY <1>7, <3>4 DEF JoinMembers, TypeOK, SessionOK, Registered, Joined, Labels, Found, StateIds
  <2>2. SessionOK'
    BY <1>7 DEF JoinMembers, TypeOK, SessionOK, RegistryOK, Registered, Bound, Joined, Found, RefState
  <2>3. CallOK'
    BY <1>7 DEF JoinMembers, TypeOK, SessionOK, CallOK, PublishedRefs, Sweeps, Found, RefState
  <2>4. RegistryOK'
    BY <1>7 DEF JoinMembers, TypeOK, RegistryOK
  <2> QED
    BY <2>1, <2>2, <2>3, <2>4
<1>8. CASE JoinFirst(c)
  <2>1. TypeOK'
    <3> DEFINE n == [NewState EXCEPT !.members = {c}]
    <3>1. n \in RefState
      BY NewStateType DEF RefState
    <3>2. state' \in [StateIds -> RefState]
      BY <1>8, <3>1 DEF JoinFirst, TypeOK, StateIds
    <3>3. made + 1 \in 0..MaxStates
      BY <1>8 DEF JoinFirst, TypeOK
    <3>4. made' \in 0..MaxStates /\ refs' \in [Refs -> 0..MaxStates]
      BY <1>8, <3>3 DEF JoinFirst, TypeOK
    <3>5. my' \in [Conns -> 0..MaxStates]
      BY <1>8, <3>3 DEF JoinFirst, TypeOK
    <3> QED
      BY <1>8, <3>2, <3>4, <3>5 DEF JoinFirst, TypeOK, Labels
  <2>2. SessionOK'
    <3>1. /\ pc[c] = "join"
          /\ pc' = [pc EXCEPT ![c] = "prepare"]
          /\ my' = [my EXCEPT ![c] = made + 1]
          /\ made' = made + 1
          /\ reg' = reg
      BY <1>8 DEF JoinFirst
    <3>2. made \in Nat /\ pc \in [Conns -> Labels] /\ my \in [Conns -> 0..MaxStates]
      BY DEF TypeOK
    <3> QED
      BY <3>1, <3>2 DEF SessionOK, Registered, Bound, Joined
  <2>3. CallOK'
    <3>1. /\ refs[reg[c].ref] = 0
          /\ refs' = [refs EXCEPT ![reg[c].ref] = made + 1]
          /\ state' = [state EXCEPT ![made + 1] = [NewState EXCEPT !.members = {c}]]
          /\ made' = made + 1
          /\ UNCHANGED <<mu, call>>
      BY <1>8 DEF JoinFirst, Found
    <3>2. \A r \in PublishedRefs : /\ refs'[r] = refs[r]
                                   /\ state'[refs[r]] = state[refs[r]]
      BY <3>1 DEF PublishedRefs, TypeOK, RegistryOK, StateIds
    <3>3. PublishedRefs \subseteq PublishedRefs'
      BY <3>2 DEF PublishedRefs
    <3>4. \A n \in 1..made : n \in 1..made'
      BY <3>1 DEF TypeOK
    <3> QED
      BY <3>1, <3>3, <3>4 DEF CallOK
  <2>4. RegistryOK'
    BY <1>8 DEF JoinFirst, TypeOK, RegistryOK, Found
  <2> QED
    BY <2>1, <2>2, <2>3, <2>4
<1>9. CASE JoinRefused(c)
  <2>1. TypeOK'
    BY <1>9 DEF JoinRefused, TypeOK, SessionOK, CallOK, Registered, Bound, Joined, Labels
  <2>2. SessionOK'
    BY <1>9 DEF JoinRefused, TypeOK, SessionOK, Registered, Bound, Joined
  <2>3. CallOK'
    BY <1>9 DEF JoinRefused, TypeOK, SessionOK, CallOK, PublishedRefs, Sweeps
  <2>4. RegistryOK'
    BY <1>9 DEF JoinRefused, TypeOK, RegistryOK
  <2> QED
    BY <2>1, <2>2, <2>3, <2>4
<1>10. CASE Prepared(c)
  <2> DEFINE i == my[c]
             ok(head) == [Move(state[i], head) EXCEPT !.store = i, !.prepared = TRUE,
                                                      !.ready = TRUE]
             bad == [state[i] EXCEPT !.err = TRUE, !.ready = TRUE]
  <2>1. i \in StateIds /\ i \in Stores /\ state[i] \in RefState /\ i \in 1..made
    BY <1>10 DEF Prepared, TypeOK, SessionOK, Bound, Joined, StateIds, Stores
  <2>2. PICK head \in Headings :
          \/ /\ state' = [state EXCEPT ![i] = ok(head)]
             /\ holds' = Load(i, head.hash)
             /\ refs' = refs
          \/ /\ Unlocked
             /\ state' = [state EXCEPT ![i] = bad]
             /\ refs' = Forget(reg[c].ref, i)
             /\ holds' = holds
    <3>1. state \in [StateIds -> RefState]
      BY DEF TypeOK
    <3>2. PICK head \in Headings :
            IF Allows(state[i], head)
            THEN /\ state' = [state EXCEPT ![i] = ok(head)]
                 /\ holds' = Load(i, head.hash)
                 /\ refs' = refs
            ELSE /\ Unlocked
                 /\ state' = [state EXCEPT ![i].err = TRUE, ![i].ready = TRUE]
                 /\ refs' = Forget(reg[c].ref, i)
                 /\ holds' = holds
      BY <1>10 DEF Prepared
    <3> HIDE DEF ok
    <3>3. [state EXCEPT ![i].err = TRUE, ![i].ready = TRUE] = [state EXCEPT ![i] = bad]
      BY <2>1, <3>1 DEF RefState
    <3> QED
      BY <3>2, <3>3
  <2>3. /\ pc[c] = "prepare"
        /\ pc' = [pc EXCEPT ![c] = "ready"]
        /\ lent' = lent \cup {<<reg[c].ref, i>>}
        /\ UNCHANGED <<made, running, appStore, provider, session, wires, calls, client>>
    BY <1>10 DEF Prepared
  <2>4. head \in AnyHead /\ head.hash \in Trees
    BY DEF AnyHead
  <2>5. ok(head) \in RefState
    <3>1. Move(state[i], head) \in RefState
      BY <2>1, <2>4, MoveType
    <3> QED
      BY <3>1, <2>1 DEF RefState
  <2>6. bad \in RefState
    BY <2>1 DEF RefState
  <2>7. state' \in [StateIds -> RefState]
    <3> HIDE DEF ok, bad
    <3>1. CASE state' = [state EXCEPT ![i] = ok(head)]
      BY <2>5, <3>1 DEF TypeOK
    <3>2. CASE state' = [state EXCEPT ![i] = bad]
      BY <2>6, <3>2 DEF TypeOK
    <3> QED
      BY <2>2, <3>1, <3>2
  <2>8. refs' \in [Refs -> 0..MaxStates] /\ RegistryOK'
    <3> HIDE DEF ok, bad
    <3>1. CASE refs' = refs
      BY <2>3, <3>1 DEF TypeOK, RegistryOK
    <3>2. CASE refs' = Forget(reg[c].ref, i)
      <4>1. reg[c].ref \in Refs
        BY <2>3 DEF SessionOK, Registered, Joined
      <4>2. /\ refs' \in [Refs -> 0..MaxStates]
            /\ \A r \in Refs : refs'[r] \in {0, refs[r]}
        BY <2>1, <3>2, <4>1, ForgetType DEF TypeOK
      <4>3. made' = made /\ made \in Nat
        BY <2>3 DEF TypeOK
      <4> QED
        BY <4>2, <4>3 DEF RegistryOK
    <3> QED
      BY <2>2, <3>1, <3>2
  <2>9. holds' \in [Stores -> SUBSET Hashes]
    BY <2>2, <2>4, LoadType DEF TypeOK
  <2>10. lent' \in SUBSET (Refs \X StateIds)
    BY <2>1, <2>3 DEF TypeOK, SessionOK, Registered, Joined
  <2>11. TypeOK'
    BY <2>3, <2>7, <2>8, <2>9, <2>10 DEF TypeOK, Labels
  <2>12. SessionOK'
    BY <2>3 DEF TypeOK, SessionOK, Registered, Bound, Joined
  <2>13. CallOK'
    <3>1. CASE mu = Free
      BY <2>2, <2>3, <3>1 DEF CallOK, Sweeps
    <3>2. CASE mu # Free
      <4>1. ok(head).published = state[i].published
        BY <2>1, <2>4, MoveType DEF Move, RefState
      <4>2. state' = [state EXCEPT ![i] = ok(head)] /\ refs' = refs
        BY <2>2, <3>2
      <4>3. \A j \in StateIds : state'[j].published = state[j].published
        <5> HIDE DEF ok
        <5> QED
          BY <2>1, <4>1, <4>2 DEF TypeOK
      <4>4. PublishedRefs \subseteq PublishedRefs'
        BY <4>2, <4>3 DEF PublishedRefs, TypeOK, StateIds
      <4> QED
        BY <2>3, <4>4 DEF CallOK, TypeOK
    <3> QED
      BY <3>1, <3>2
  <2> QED
    BY <2>8, <2>11, <2>12, <2>13
<1>11. CASE PrepareFails(c)
  <2>1. TypeOK'
    <3> DEFINE i == my[c]
               n == [state[i] EXCEPT !.err = TRUE, !.ready = TRUE]
    <3>1. i \in StateIds /\ state[i] \in RefState
      BY <1>11 DEF PrepareFails, TypeOK, SessionOK, Bound, Joined, StateIds
    <3>2. n \in RefState
      BY <3>1 DEF RefState
    <3>3. state' = [state EXCEPT ![i] = n]
      <4>1. state' = [state EXCEPT ![i].err = TRUE, ![i].ready = TRUE]
        BY <1>11 DEF PrepareFails
      <4>2. state \in [StateIds -> RefState]
        BY DEF TypeOK
      <4> QED
        BY <3>1, <4>1, <4>2 DEF RefState
    <3>4. state' \in [StateIds -> RefState]
      BY <3>1, <3>2, <3>3 DEF TypeOK
    <3> QED
      <4>1. reg[c].ref \in Refs
        BY <1>11 DEF PrepareFails, SessionOK, Registered, Joined
      <4>2. refs' \in [Refs -> 0..MaxStates]
        BY <1>11, <3>1, <4>1, ForgetType DEF PrepareFails, TypeOK
      <4>3. pc' \in [Conns -> Labels]
        BY <1>11 DEF PrepareFails, TypeOK, Labels
      <4> QED
        BY <1>11, <3>4, <4>2, <4>3 DEF PrepareFails, TypeOK
  <2>2. SessionOK'
    BY <1>11 DEF PrepareFails, TypeOK, SessionOK, Registered, Bound, Joined, Forget, RefState
  <2>3. CallOK'
    BY <1>11 DEF PrepareFails, TypeOK, SessionOK, CallOK, PublishedRefs, Sweeps, Forget, RefState
  <2>4. RegistryOK'
    BY <1>11 DEF PrepareFails, TypeOK, RegistryOK, Forget
  <2> QED
    BY <2>1, <2>2, <2>3, <2>4
<1>12. CASE Ready(c)
  <2>1. TypeOK'
    BY <1>12 DEF Ready, TypeOK, SessionOK, CallOK, Registered, Bound, Joined, Labels, Baseline, Trees
  <2>2. SessionOK'
    BY <1>12 DEF Ready, TypeOK, SessionOK, Registered, Bound, Joined, Baseline, Trees
  <2>3. CallOK'
    BY <1>12 DEF Ready, TypeOK, SessionOK, CallOK, PublishedRefs, Sweeps, Baseline, Trees
  <2>4. RegistryOK'
    BY <1>12 DEF Ready, TypeOK, RegistryOK
  <2> QED
    BY <2>1, <2>2, <2>3, <2>4
<1>13. CASE ReadyRefused(c)
  <2>1. TypeOK'
    BY <1>13 DEF ReadyRefused, TypeOK, SessionOK, CallOK, Registered, Bound, Joined, Labels
  <2>2. SessionOK'
    BY <1>13 DEF ReadyRefused, TypeOK, SessionOK, Registered, Bound, Joined
  <2>3. CallOK'
    BY <1>13 DEF ReadyRefused, TypeOK, SessionOK, CallOK, PublishedRefs, Sweeps
  <2>4. RegistryOK'
    BY <1>13 DEF ReadyRefused, TypeOK, RegistryOK
  <2> QED
    BY <2>1, <2>2, <2>3, <2>4
<1>14. CASE Announce(c)
  <2>1. TypeOK'
    BY <1>14 DEF Announce, TypeOK, SessionOK, CallOK, Registered, Bound, Joined, Labels
  <2>2. SessionOK'
    BY <1>14 DEF Announce, TypeOK, SessionOK, Registered, Bound, Joined
  <2>3. CallOK'
    BY <1>14 DEF Announce, TypeOK, SessionOK, CallOK, PublishedRefs, Sweeps
  <2>4. RegistryOK'
    BY <1>14 DEF Announce, TypeOK, RegistryOK
  <2> QED
    BY <2>1, <2>2, <2>3, <2>4
<1>15. CASE Current(c)
  <2>1. TypeOK'
    <3>1. my[c] \in StateIds /\ state[my[c]] \in RefState
      BY <1>15 DEF Current, TypeOK, SessionOK, Bound, Joined, StateIds
    <3>2. [store |-> state[my[c]].store, head |-> state[my[c]].head] \in Pair
      BY <3>1 DEF RefState, Pair
    <3>3. owed' \in [Conns -> Pair]
      BY <1>15, <3>2 DEF Current, TypeOK
    <3>4. pc' \in [Conns -> Labels]
      BY <1>15 DEF Current, TypeOK, Labels
    <3> QED
      BY <1>15, <3>3, <3>4 DEF Current, TypeOK
  <2>2. SessionOK'
    BY <1>15 DEF Current, TypeOK, SessionOK, Registered, Bound, Joined, Pair, RefState, StateIds
  <2>3. CallOK'
    BY <1>15 DEF Current, TypeOK, SessionOK, CallOK, PublishedRefs, Sweeps, Pair, RefState, StateIds
  <2>4. RegistryOK'
    BY <1>15 DEF Current, TypeOK, RegistryOK
  <2> QED
    BY <2>1, <2>2, <2>3, <2>4
<1>16. CASE Push(c)
  <2>1. TypeOK'
    <3>1. Update(owed[c].head, synced[c]) \in Message
      BY DEF Update, Message, TypeOK, Pair
    <3>2. down' \in [Conns -> Seq(Message)]
      BY <1>16, <3>1 DEF Push, TypeOK
    <3> QED
      BY <1>16, <3>2 DEF Push, TypeOK, Labels
  <2>2. SessionOK'
    BY <1>16 DEF Push, TypeOK, SessionOK, Registered, Bound, Joined, Update, Message, Pair
  <2>3. CallOK'
    BY <1>16 DEF Push, TypeOK, SessionOK, CallOK, PublishedRefs, Sweeps, Update, Message, Pair
  <2>4. RegistryOK'
    BY <1>16 DEF Push, TypeOK, RegistryOK
  <2> QED
    BY <2>1, <2>2, <2>3, <2>4
<1>17. CASE PushFails(c)
  <2>1. TypeOK'
    BY <1>17 DEF PushFails, TypeOK, SessionOK, CallOK, Registered, Bound, Joined, Labels
  <2>2. SessionOK'
    BY <1>17 DEF PushFails, TypeOK, SessionOK, Registered, Bound, Joined
  <2>3. CallOK'
    BY <1>17 DEF PushFails, TypeOK, SessionOK, CallOK, PublishedRefs, Sweeps
  <2>4. RegistryOK'
    BY <1>17 DEF PushFails, TypeOK, RegistryOK
  <2> QED
    BY <2>1, <2>2, <2>3, <2>4
<1>18. CASE TakeAck(c)
  <2>1. TypeOK'
    <3>1. \/ pc' = [pc EXCEPT ![c] = "ack"]
          \/ pc' = [pc EXCEPT ![c] = "report"]
          \/ pc' = [pc EXCEPT ![c] = "record"]
      BY <1>18 DEF TakeAck
    <3>2. pc' \in [Conns -> Labels]
      BY <3>1 DEF TypeOK, Labels
    <3>3. acks' \in [Conns -> Trees \cup {NoAck}]
      BY <1>18 DEF TakeAck, TypeOK
    <3> QED
      BY <1>18, <3>2, <3>3 DEF TakeAck, TypeOK
  <2>2. SessionOK'
    BY <1>18 DEF TakeAck, TypeOK, SessionOK, Registered, Bound, Joined
  <2>3. CallOK'
    BY <1>18 DEF TakeAck, TypeOK, SessionOK, CallOK, PublishedRefs, Sweeps
  <2>4. RegistryOK'
    BY <1>18 DEF TakeAck, TypeOK, RegistryOK
  <2> QED
    BY <2>1, <2>2, <2>3, <2>4
<1>19. CASE Record(c)
  <2>1. TypeOK'
    BY <1>19 DEF Record, TypeOK, SessionOK, CallOK, Registered, Bound, Joined, Labels, Pair, AnyHead
  <2>2. SessionOK'
    BY <1>19 DEF Record, TypeOK, SessionOK, Registered, Bound, Joined, Pair, AnyHead
  <2>3. CallOK'
    BY <1>19 DEF Record, TypeOK, SessionOK, CallOK, PublishedRefs, Sweeps, Pair, AnyHead
  <2>4. RegistryOK'
    BY <1>19 DEF Record, TypeOK, RegistryOK
  <2> QED
    BY <2>1, <2>2, <2>3, <2>4
<1>20. CASE Report(c)
  <2>1. TypeOK'
    BY <1>20 DEF Report, TypeOK, SessionOK, CallOK, Registered, Bound, Joined, Labels
  <2>2. SessionOK'
    BY <1>20 DEF Report, TypeOK, SessionOK, Registered, Bound, Joined
  <2>3. CallOK'
    BY <1>20 DEF Report, TypeOK, SessionOK, CallOK, PublishedRefs, Sweeps
  <2>4. RegistryOK'
    BY <1>20 DEF Report, TypeOK, RegistryOK
  <2> QED
    BY <2>1, <2>2, <2>3, <2>4
<1>21. CASE Woken(c)
  <2>1. TypeOK'
    BY <1>21 DEF Woken, TypeOK, SessionOK, CallOK, Registered, Bound, Joined, Labels
  <2>2. SessionOK'
    BY <1>21 DEF Woken, TypeOK, SessionOK, Registered, Bound, Joined
  <2>3. CallOK'
    BY <1>21 DEF Woken, TypeOK, SessionOK, CallOK, PublishedRefs, Sweeps
  <2>4. RegistryOK'
    BY <1>21 DEF Woken, TypeOK, RegistryOK
  <2> QED
    BY <2>1, <2>2, <2>3, <2>4
<1>22. CASE Lost(c)
  <2>1. TypeOK'
    BY <1>22 DEF Lost, TypeOK, SessionOK, CallOK, Registered, Bound, Joined, Labels
  <2>2. SessionOK'
    BY <1>22 DEF Lost, TypeOK, SessionOK, Registered, Bound, Joined
  <2>3. CallOK'
    BY <1>22 DEF Lost, TypeOK, SessionOK, CallOK, PublishedRefs, Sweeps
  <2>4. RegistryOK'
    BY <1>22 DEF Lost, TypeOK, RegistryOK
  <2> QED
    BY <2>1, <2>2, <2>3, <2>4
<1>23. CASE Leave(c)
  <2>1. TypeOK'
    <3> DEFINE i == my[c]
               n == [state[i] EXCEPT !.members = @ \ {c}, !.retiring = @ \/ Ends(c)]
    <3>1. i \in StateIds /\ state[i] \in RefState
      BY <1>23 DEF Leave, TypeOK, SessionOK, Bound, Joined, StateIds
    <3>2. n \in RefState
      BY <3>1 DEF RefState, Ends
    <3>3. state' = [state EXCEPT ![i] = n]
      <4>1. state' = [state EXCEPT ![i].members = @ \ {c}, ![i].retiring = @ \/ Ends(c)]
        BY <1>23 DEF Leave
      <4>2. state \in [StateIds -> RefState]
        BY DEF TypeOK
      <4> QED
        BY <3>1, <4>1, <4>2 DEF RefState
    <3>4. state' \in [StateIds -> RefState]
      BY <3>1, <3>2, <3>3 DEF TypeOK
    <3>5. last' \in [Conns -> BOOLEAN]
      BY <1>23 DEF Leave, TypeOK, Ends
    <3> QED
      BY <1>23, <3>4, <3>5 DEF Leave, TypeOK, Labels
  <2>2. SessionOK'
    BY <1>23 DEF Leave, TypeOK, SessionOK, Registered, Bound, Joined, Ends, RefState
  <2>3. CallOK'
    BY <1>23 DEF Leave, TypeOK, SessionOK, CallOK, PublishedRefs, Sweeps, Ends, RefState
  <2>4. RegistryOK'
    BY <1>23 DEF Leave, TypeOK, RegistryOK
  <2> QED
    BY <2>1, <2>2, <2>3, <2>4
<1>24. CASE Unsubscribed(c)
  <2>1. TypeOK'
    BY <1>24 DEF Unsubscribed, TypeOK, SessionOK, CallOK, Registered, Bound, Joined, Labels
  <2>2. SessionOK'
    BY <1>24 DEF Unsubscribed, TypeOK, SessionOK, Registered, Bound, Joined
  <2>3. CallOK'
    BY <1>24 DEF Unsubscribed, TypeOK, SessionOK, CallOK, PublishedRefs, Sweeps
  <2>4. RegistryOK'
    BY <1>24 DEF Unsubscribed, TypeOK, RegistryOK
  <2> QED
    BY <2>1, <2>2, <2>3, <2>4
<1>25. CASE Release(c)
  <2>1. TypeOK'
    BY <1>25 DEF Release, TypeOK, SessionOK, CallOK, Registered, Bound, Joined, Labels
  <2>2. SessionOK'
    BY <1>25 DEF Release, TypeOK, SessionOK, Registered, Bound, Joined
  <2>3. CallOK'
    BY <1>25 DEF Release, TypeOK, SessionOK, CallOK, PublishedRefs, Sweeps
  <2>4. RegistryOK'
    BY <1>25 DEF Release, TypeOK, RegistryOK
  <2> QED
    BY <2>1, <2>2, <2>3, <2>4
<1>26. CASE Unlist(c)
  <2>1. TypeOK'
    <3> DEFINE i == my[c]
               n == [state[i] EXCEPT !.retired = TRUE]
    <3>1. i \in StateIds /\ state[i] \in RefState
      BY <1>26 DEF Unlist, TypeOK, SessionOK, Bound, Joined, StateIds
    <3>2. n \in RefState
      BY <3>1 DEF RefState
    <3>3. state' = [state EXCEPT ![i] = n]
      BY <1>26, <3>1 DEF Unlist, TypeOK, RefState
    <3>4. state' \in [StateIds -> RefState]
      BY <3>1, <3>2, <3>3 DEF TypeOK
    <3> QED
      <4>1. reg[c].ref \in Refs
        BY <1>26 DEF Unlist, SessionOK, Registered
      <4>2. refs' \in [Refs -> 0..MaxStates]
        BY <1>26, <3>1, <4>1, ForgetType DEF Unlist, TypeOK
      <4>3. pc' \in [Conns -> Labels]
        BY <1>26 DEF Unlist, TypeOK, Labels
      <4> QED
        BY <1>26, <3>4, <4>2, <4>3 DEF Unlist, TypeOK
  <2>2. SessionOK'
    BY <1>26 DEF Unlist, TypeOK, SessionOK, Registered, Bound, Joined, Forget, RefState
  <2>3. CallOK'
    BY <1>26 DEF Unlist, TypeOK, SessionOK, CallOK, PublishedRefs, Sweeps, Forget, RefState
  <2>4. RegistryOK'
    BY <1>26 DEF Unlist, TypeOK, RegistryOK, Forget
  <2> QED
    BY <2>1, <2>2, <2>3, <2>4
<1>27. CASE Refuse(c)
  <2>1. TypeOK'
    <3>1. ErrorMessage \in Message
      BY DEF ErrorMessage, Message, ZeroHead, AnyHead, Trees, NoPair, Pair, Stores, NoStore
    <3>2. down' \in [Conns -> Seq(Message)]
      BY <1>27, <3>1 DEF Refuse, TypeOK
    <3> QED
      BY <1>27, <3>2 DEF Refuse, TypeOK, Labels
  <2>2. SessionOK'
    BY <1>27 DEF Refuse, TypeOK, SessionOK, Registered, Bound, Joined
  <2>3. CallOK'
    BY <1>27 DEF Refuse, TypeOK, CallOK, PublishedRefs, Sweeps
  <2>4. RegistryOK'
    BY <1>27 DEF Refuse, TypeOK, RegistryOK
  <2> QED
    BY <2>1, <2>2, <2>3, <2>4
<1>28. CASE Delist(c)
  <2>1. TypeOK'
    BY <1>28 DEF Delist, TypeOK, Labels
  <2>2. SessionOK'
    BY <1>28 DEF Delist, TypeOK, SessionOK, Registered, Bound, Joined
  <2>3. CallOK'
    BY <1>28 DEF Delist, TypeOK, CallOK, PublishedRefs, Sweeps
  <2>4. RegistryOK'
    BY <1>28 DEF Delist, TypeOK, RegistryOK
  <2> QED
    BY <2>1, <2>2, <2>3, <2>4
<1>29. CASE Close(c)
  <2>1. TypeOK'
    <3>1. NoPair \in Pair /\ Void \in Trees
      BY DEF ZeroHead, AnyHead, Trees, NoPair, Pair, Stores, NoStore
    <3>2. up' \in [Conns -> Seq(Trees)] /\ serverOpen' \in [Conns -> BOOLEAN]
      BY <1>29 DEF Close, CloseAll, TypeOK
    <3>3. /\ pc' \in [Conns -> Labels] /\ my' \in [Conns -> 0..MaxStates]
          /\ synced' \in [Conns -> Trees] /\ owed' \in [Conns -> Pair]
          /\ acks' \in [Conns -> Trees \cup {NoAck}]
      BY <1>29, <3>1 DEF Close, TypeOK, Labels
    <3>4. /\ notify' \in [Conns -> BOOLEAN] /\ last' \in [Conns -> BOOLEAN]
          /\ conns' \in SUBSET Conns
      BY <1>29 DEF Close, TypeOK
    <3> QED
      BY <1>29, <3>2, <3>3, <3>4 DEF Close, TypeOK
  <2>2. SessionOK'
    BY <1>29 DEF Close, TypeOK, SessionOK, Registered, Bound, Joined, CloseAll
  <2>3. CallOK'
    BY <1>29 DEF Close, TypeOK, SessionOK, CallOK, PublishedRefs, Sweeps, CloseAll
  <2>4. RegistryOK'
    BY <1>29 DEF Close, TypeOK, RegistryOK
  <2> QED
    BY <2>1, <2>2, <2>3, <2>4
<1> QED
  BY <1>1, <1>2, <1>3, <1>4, <1>5, <1>6, <1>7, <1>8, <1>9, <1>10, <1>11, <1>12, <1>13, <1>14, <1>15, <1>16, <1>17, <1>18, <1>19, <1>20, <1>21, <1>22, <1>23, <1>24, <1>25, <1>26, <1>27, <1>28, <1>29 DEF Serves

LEMMA ReadsTypes == ASSUME TypeInv, NEW c \in Conns, Reads(c) PROVE TypeInv'
<1> USE DEF TypeInv
<1>1. CASE ReadAck(c)
  <2>1. TypeOK'
    BY <1>1 DEF ReadAck, TypeOK, SessionOK, CallOK, Registered, Bound, Joined, Labels
  <2>2. SessionOK'
    BY <1>1 DEF ReadAck, TypeOK, SessionOK, Registered, Bound, Joined
  <2>3. CallOK'
    BY <1>1 DEF ReadAck, TypeOK, SessionOK, CallOK, PublishedRefs, Sweeps
  <2>4. RegistryOK'
    BY <1>1 DEF ReadAck, TypeOK, RegistryOK
  <2> QED
    BY <2>1, <2>2, <2>3, <2>4
<1>2. CASE ReadFails(c)
  <2>1. TypeOK'
    BY <1>2 DEF ReadFails, TypeOK, SessionOK, CallOK, Registered, Bound, Joined, Labels
  <2>2. SessionOK'
    BY <1>2 DEF ReadFails, TypeOK, SessionOK, Registered, Bound, Joined
  <2>3. CallOK'
    BY <1>2 DEF ReadFails, TypeOK, SessionOK, CallOK, PublishedRefs, Sweeps
  <2>4. RegistryOK'
    BY <1>2 DEF ReadFails, TypeOK, RegistryOK
  <2> QED
    BY <2>1, <2>2, <2>3, <2>4
<1> QED
  BY <1>1, <1>2 DEF Reads

LEMMA ClientsTypes == ASSUME TypeInv, NEW c \in Conns, Clients(c) PROVE TypeInv'
<1> USE DEF TypeInv
<1>1. CASE Dial(c)
  <2>1. TypeOK'
    BY <1>1 DEF Dial, TypeOK, SessionOK, CallOK, Registered, Bound, Joined, Labels, Trees
  <2>2. SessionOK'
    BY <1>1 DEF Dial, TypeOK, SessionOK, Registered, Bound, Joined, Trees
  <2>3. CallOK'
    BY <1>1 DEF Dial, TypeOK, SessionOK, CallOK, PublishedRefs, Sweeps, Trees
  <2>4. RegistryOK'
    BY <1>1 DEF Dial, TypeOK, RegistryOK
  <2> QED
    BY <2>1, <2>2, <2>3, <2>4
<1>2. CASE Interpret(c)
  <2>1. TypeOK'
    <3> DEFINE msg == down[c][1]
    <3>1. msg \in Message /\ Head(down[c]) = msg /\ Tail(down[c]) \in Seq(Message)
      BY <1>2 DEF Interpret, TypeOK
    <3>2. msg.head \in AnyHead /\ msg.head.hash \in Trees
      BY <3>1 DEF Message, AnyHead
    <3>3. up' \in [Conns -> Seq(Trees)]
      BY <1>2, <3>1, <3>2 DEF Interpret, TypeOK
    <3>4. /\ down' \in [Conns -> Seq(Message)]
          /\ latest' \in [Conns -> AnyHead]
          /\ acked' \in [Conns -> SUBSET Trees]
      BY <1>2, <3>1, <3>2 DEF Interpret, TypeOK
    <3> QED
      BY <1>2, <3>3, <3>4 DEF Interpret, TypeOK
  <2>2. SessionOK'
    BY <1>2 DEF Interpret, TypeOK, SessionOK, Registered, Bound, Joined, Message, AnyHead
  <2>3. CallOK'
    BY <1>2 DEF Interpret, TypeOK, SessionOK, CallOK, PublishedRefs, Sweeps, Message, AnyHead
  <2>4. RegistryOK'
    BY <1>2 DEF Interpret, TypeOK, RegistryOK
  <2> QED
    BY <2>1, <2>2, <2>3, <2>4
<1>3. CASE HangUp(c)
  <2>1. TypeOK'
    BY <1>3 DEF HangUp, TypeOK, SessionOK, CallOK, Registered, Bound, Joined, Labels
  <2>2. SessionOK'
    BY <1>3 DEF HangUp, TypeOK, SessionOK, Registered, Bound, Joined
  <2>3. CallOK'
    BY <1>3 DEF HangUp, TypeOK, SessionOK, CallOK, PublishedRefs, Sweeps
  <2>4. RegistryOK'
    BY <1>3 DEF HangUp, TypeOK, RegistryOK
  <2> QED
    BY <2>1, <2>2, <2>3, <2>4
<1> QED
  BY <1>1, <1>2, <1>3 DEF Clients

LEMMA CallStepType ==
  ASSUME TypeOK, NEW a \in Apps, NEW what \in Call, Continue(a, what)
  PROVE  call' \in [Apps -> Call]
BY DEF TypeOK

LEMMA BeginType ==
  ASSUME TypeOK, NEW a \in Apps, NEW op \in Calls, Begin(a, op)
  PROVE  /\ budget' \in [Calls -> Nat]
         /\ call[a].at = "idle"
BY DEF Begin, TypeOK, Idle

LEMMA BeginsTypes == ASSUME TypeInv, NEW a \in Apps, Begins(a) PROVE TypeInv'
<1> USE DEF TypeInv
<1>1. CASE SetHeadFind(a)
  <2>1. PICK ref \in Refs, head \in Headings :
          /\ refs[ref] # 0
          /\ Living(ref) = refs[ref]
          /\ holds' = Load(StoreOf(refs[ref]), head.hash)
          /\ Continue(a, [Idle EXCEPT !.at = "move", !.ref = ref, !.st = refs[ref],
                                      !.head = head, !.todo = state[refs[ref]].members])
    BY <1>1 DEF SetHeadFind, Living
  <2>2. refs[ref] \in 1..made /\ refs[ref] \in StateIds
    BY <2>1 DEF TypeOK, RegistryOK, StateIds
  <2>3. [Idle EXCEPT !.at = "move", !.ref = ref, !.st = refs[ref], !.head = head,
                     !.todo = state[refs[ref]].members] \in Call
    BY <2>2, IdleType DEF Call, TypeOK, RefState, StateIds
  <2>4. holds' \in [Stores -> SUBSET Hashes]
    BY <2>1, LoadType DEF TypeOK, AnyHead
  <2>5. budget' \in [Calls -> Nat] /\ call[a].at = "idle"
    BY <1>1, BeginType DEF SetHeadFind, Calls
  <2>6. TypeOK'
    BY <1>1, <2>1, <2>3, <2>4, <2>5, CallStepType DEF SetHeadFind, TypeOK
  <2>7. SessionOK' /\ RegistryOK'
    BY <1>1 DEF SetHeadFind, SessionOK, RegistryOK
  <2>8. CallOK'
    <3>1. UNCHANGED <<mu, refs, state, made>>
      BY <1>1 DEF SetHeadFind
    <3>2. PublishedRefs' = PublishedRefs
      BY <3>1 DEF PublishedRefs
    <3>3. call'[a].at = "move" /\ call'[a].st = refs[ref]
      BY <2>1 DEF TypeOK, Idle
    <3>4. \A b \in Apps : b # a => call'[b] = call[b]
      BY <2>1 DEF TypeOK
    <3> QED
      BY <2>2, <2>5, <3>1, <3>2, <3>3, <3>4 DEF CallOK, Sweeps
  <2> QED
    BY <2>6, <2>7, <2>8
<1>2. CASE PublishInsert(a)
  <2> DEFINE new == [NewState EXCEPT !.published = TRUE, !.prepared = TRUE,
                                     !.store = appStore]
  <2>1. PICK ref \in Refs, head \in Headings :
          /\ refs' = [refs EXCEPT ![ref] = made + 1]
          /\ holds' = Load(appStore, head.hash)
          /\ Continue(a, [Idle EXCEPT !.at = "publish", !.ref = ref, !.st = made + 1,
                                      !.head = head])
    BY <1>2 DEF PublishInsert
  <2>2. made \in Nat /\ made + 1 \in StateIds /\ made + 1 \in 0..MaxStates /\ made' = made + 1
    BY <1>2 DEF PublishInsert, TypeOK, StateIds
  <2>3. [Idle EXCEPT !.at = "publish", !.ref = ref, !.st = made + 1, !.head = head] \in Call
    BY <2>2, IdleType DEF Call
  <2>4. holds' \in [Stores -> SUBSET Hashes]
    BY <2>1, LoadType DEF TypeOK, AnyHead
  <2>5. budget' \in [Calls -> Nat] /\ call[a].at = "idle"
    BY <1>2, BeginType DEF PublishInsert, Calls
  <2>6. state' \in [StateIds -> RefState]
    <3>1. new \in RefState
      BY NewStateType DEF RefState, TypeOK
    <3>2. state' = [state EXCEPT ![made + 1] = new]
      BY <1>2 DEF PublishInsert
    <3> HIDE DEF new
    <3> QED
      BY <3>1, <3>2 DEF TypeOK
  <2>7. refs' \in [Refs -> 0..MaxStates] /\ RegistryOK'
    BY <2>1, <2>2 DEF TypeOK, RegistryOK
  <2>8. call' \in [Apps -> Call]
    BY <2>1, <2>3, CallStepType
  <2>9. TypeOK'
    BY <1>2, <2>2, <2>4, <2>5, <2>6, <2>7, <2>8 DEF PublishInsert, TypeOK
  <2>10. SessionOK'
    BY <1>2, <2>2 DEF PublishInsert, SessionOK, TypeOK
  <2>11. CallOK'
    BY <1>2, <2>1, <2>2 DEF PublishInsert, CallOK, TypeOK, Sweeps, Idle
  <2> QED
    BY <2>7, <2>9, <2>10, <2>11
<1>3. CASE Unpublish(a)
  <2>1. PICK ref \in PublishedRefs :
          /\ refs' = [refs EXCEPT ![ref] = 0]
          /\ Continue(a, IF state[refs[ref]].members = {} THEN Idle
                         ELSE [Idle EXCEPT !.at = "close",
                                           !.todo = state[refs[ref]].members])
    BY <1>3 DEF Unpublish
  <2>2. state[refs[ref]].members \in SUBSET Conns
    BY DEF PublishedRefs, TypeOK, RefState, StateIds
  <2>3. [Idle EXCEPT !.at = "close", !.todo = state[refs[ref]].members] \in Call
    BY <2>2, IdleType DEF Call
  <2>4. call' \in [Apps -> Call]
    BY <2>1, <2>3, IdleType, CallStepType
  <2>5. budget' \in [Calls -> Nat] /\ call[a].at = "idle"
    BY <1>3, BeginType DEF Unpublish, Calls
  <2>6. refs' \in [Refs -> 0..MaxStates] /\ RegistryOK'
    <3>1. made' = made /\ made \in Nat
      BY <1>3 DEF Unpublish, TypeOK
    <3>2. refs' = [refs EXCEPT ![ref] = 0] /\ ref \in Refs
      BY <2>1 DEF PublishedRefs
    <3>3. refs' \in [Refs -> 0..MaxStates] /\ \A r \in Refs : refs'[r] \in {0, refs[r]}
      BY <3>2 DEF TypeOK
    <3> QED
      BY <3>1, <3>3 DEF RegistryOK
  <2>7. TypeOK'
    BY <1>3, <2>4, <2>5, <2>6 DEF Unpublish, TypeOK
  <2>8. SessionOK'
    BY <1>3 DEF Unpublish, SessionOK
  <2>9. CallOK'
    BY <1>3, <2>1 DEF Unpublish, CallOK, TypeOK, Sweeps, Idle
  <2> QED
    BY <2>6, <2>7, <2>8, <2>9
<1>4. CASE SweepCheck(a)
  <2>1. PICK named \in Named, kept \in SUBSET Hashes :
          /\ holds' = [holds EXCEPT ![appStore + 1] = kept]
          /\ Continue(a, [Idle EXCEPT !.at = "install", !.named = named,
                                      !.store = appStore + 1, !.refs = PublishedRefs])
    BY <1>4 DEF SweepCheck
  <2>2. appStore + 1 \in Stores /\ PublishedRefs \subseteq Refs
    BY <1>4 DEF SweepCheck, TypeOK, Stores, PublishedRefs
  <2>3. [Idle EXCEPT !.at = "install", !.named = named, !.store = appStore + 1,
                     !.refs = PublishedRefs] \in Call
    BY <2>2, IdleType DEF Call
  <2>4. call' \in [Apps -> Call]
    BY <2>1, <2>3, CallStepType
  <2>5. holds' \in [Stores -> SUBSET Hashes]
    BY <2>1 DEF TypeOK
  <2>6. budget' \in [Calls -> Nat] /\ call[a].at = "idle"
    BY <1>4, BeginType DEF SweepCheck, Calls
  <2>7. TypeOK'
    BY <1>4, <2>4, <2>5, <2>6 DEF SweepCheck, TypeOK
  <2>8. SessionOK' /\ RegistryOK'
    BY <1>4 DEF SweepCheck, SessionOK, RegistryOK
  <2>9. CallOK'
    BY <1>4, <2>1 DEF SweepCheck, CallOK, TypeOK, PublishedRefs, Sweeps, Idle
  <2> QED
    BY <2>7, <2>8, <2>9
<1>5. CASE Stop(a)
  <2>1. [Idle EXCEPT !.at = "listener", !.todo = conns] \in Call
    BY IdleType DEF Call, TypeOK
  <2>2. call' \in [Apps -> Call]
    BY <1>5, <2>1, CallStepType DEF Stop
  <2>3. budget' \in [Calls -> Nat] /\ call[a].at = "idle"
    BY <1>5, BeginType DEF Stop, Calls
  <2>4. TypeOK'
    BY <1>5, <2>2, <2>3 DEF Stop, TypeOK
  <2>5. SessionOK' /\ RegistryOK'
    BY <1>5 DEF Stop, SessionOK, RegistryOK
  <2>6. CallOK'
    BY <1>5 DEF Stop, CallOK, TypeOK, PublishedRefs, Sweeps, Idle
  <2> QED
    BY <2>4, <2>5, <2>6
<1> QED
  BY <1>1, <1>2, <1>3, <1>4, <1>5 DEF Begins

\* A step of a call leaves every other call as it is.
LEMMA OtherCalls ==
  ASSUME TypeOK, NEW a \in Apps, NEW what \in Call, Continue(a, what)
  PROVE  call'[a] = what /\ \A b \in Apps : b # a => call'[b] = call[b]
BY DEF TypeOK

\* A call that is not, or no longer, a sweep keeps to its types if the refs
\* that sweeps rely on stay published.
LEMMA CallOKStep ==
  ASSUME TypeOK, CallOK, NEW a \in Apps, NEW what \in Call, Continue(a, what),
         what.at \in {"idle", "wake", "close", "listener"},
         call[a].at \notin Sweeps, mu' = mu, made' = made,
         mu = Free \/ PublishedRefs \subseteq PublishedRefs'
  PROVE  CallOK'
BY OtherCalls DEF CallOK, Sweeps

LEMMA CallAt ==
  ASSUME NEW k \in Call, NEW label \in {"wake", "close"}
  PROVE  [k EXCEPT !.at = label] \in Call /\ [k EXCEPT !.at = label].at = label
BY DEF Call

LEMMA TakeOffType ==
  ASSUME TypeOK, NEW a \in Apps, NEW c \in Conns, NEW done \in Call, TakeOff(a, c, done)
  PROVE  \E what \in Call : Continue(a, what) /\ what.at \in {done.at, call[a].at}
<1>1. call[a] \in Call
  BY DEF TypeOK
<1>2. [call[a] EXCEPT !.todo = @ \ {c}] \in Call
  BY <1>1 DEF Call
<1>3. [call[a] EXCEPT !.todo = @ \ {c}].at = call[a].at
  BY <1>1 DEF Call
<1> QED
  BY <1>2, <1>3 DEF TakeOff

\* A step of a sweep leaves the sweep, or its end, behind it.
LEMMA SweepStep ==
  ASSUME TypeOK, CallOK, NEW a \in Apps, call[a].at \in Sweeps,
         NEW what \in Call, Continue(a, what),
         what.at \in Sweeps, what.refs \subseteq call[a].refs, what.named \in Named,
         what.at = "reset" => what.drop \in Conns,
         mu' = mu, made' = made, PublishedRefs' = PublishedRefs
  PROVE  CallOK'
BY OtherCalls DEF CallOK, Sweeps

LEMMA SweepOnType ==
  ASSUME TypeOK, CallOK, NEW a \in Apps, call[a].at \in Sweeps,
         NEW remaining \in SUBSET call[a].refs, SweepOn(a, remaining),
         made' = made, PublishedRefs' = PublishedRefs
  PROVE  /\ call' \in [Apps -> Call]
         /\ mu' \in Apps \cup {Free}
         /\ appStore' \in Stores
         /\ CallOK'
<1> DEFINE next == [call[a] EXCEPT !.at = "install", !.refs = remaining, !.ref = Free,
                                   !.st = 0, !.todo = {}, !.moved = FALSE]
<1>1. call[a] \in Call /\ mu = a
  BY DEF TypeOK, CallOK
<1>2. next \in Call /\ next.at = "install" /\ next.refs = remaining
      /\ next.named = call[a].named
  <2>1. remaining \in SUBSET Refs
    BY <1>1 DEF Call
  <2> DEFINE half == [call[a] EXCEPT !.at = "install", !.refs = remaining, !.ref = Free]
  <2>2. half \in Call /\ half.at = "install" /\ half.refs = remaining
        /\ half.named = call[a].named
    BY <1>1, <2>1 DEF Call
  <2>3. next = [half EXCEPT !.st = 0, !.todo = {}, !.moved = FALSE]
    BY <1>1 DEF Call
  <2>4. {} \in SUBSET Conns /\ 0 \in 0..MaxStates
    OBVIOUS
  <2> HIDE DEF half, next
  <2> QED
    BY <2>2, <2>3, <2>4 DEF Call
<1>3. CASE remaining = {}
  <2>1. Continue(a, Idle) /\ mu' = Free /\ appStore' = call[a].store
    BY <1>3 DEF SweepOn
  <2>2. call' \in [Apps -> Call]
    BY <2>1, IdleType, CallStepType
  <2>3. appStore' \in Stores
    BY <1>1, <2>1 DEF Call
  <2>4. CallOK'
    <3>1. call'[a] = Idle /\ \A b \in Apps : b # a => call'[b] = call[b]
      BY <2>1, IdleType, OtherCalls
    <3>2. \A b \in Apps : call'[b].at \notin Sweeps
      BY <1>1, <3>1 DEF CallOK, Sweeps, Idle
    <3> QED
      BY <2>1, <3>1, <3>2 DEF CallOK, Sweeps, Idle
  <2> QED
    BY <2>1, <2>2, <2>3, <2>4
<1>4. CASE remaining # {}
  <2>1. Continue(a, next) /\ UNCHANGED <<mu, appStore>>
    BY <1>4 DEF SweepOn
  <2> HIDE DEF next
  <2>2. call' \in [Apps -> Call]
    BY <1>2, <2>1, CallStepType
  <2>3. CallOK'
    BY <1>2, <2>1, SweepStep DEF CallOK, Sweeps
  <2> QED
    BY <2>1, <2>2, <2>3 DEF TypeOK
<1> QED
  BY <1>3, <1>4

LEMMA SweepNextType ==
  ASSUME TypeOK, CallOK, NEW a \in Apps, call[a].at \in Sweeps,
         NEW c \in Conns, SweepNext(a, c), made' = made, PublishedRefs' = PublishedRefs
  PROVE  /\ call' \in [Apps -> Call]
         /\ mu' \in Apps \cup {Free}
         /\ appStore' \in Stores
         /\ CallOK'
<1> DEFINE next == [call[a] EXCEPT !.at = "members", !.todo = @ \ {c}, !.drop = Free]
<1>1. call[a] \in Call
  BY DEF TypeOK
<1>2. next \in Call /\ next.at = "members" /\ next.refs = call[a].refs
      /\ next.named = call[a].named
  BY <1>1 DEF Call
<1>3. CASE call[a].todo = {c}
  BY <1>3, SweepOnType DEF SweepNext
<1>4. CASE call[a].todo # {c}
  <2>1. Continue(a, next) /\ UNCHANGED <<mu, appStore>>
    BY <1>4 DEF SweepNext
  <2> HIDE DEF next
  <2>2. call' \in [Apps -> Call]
    BY <1>2, <2>1, CallStepType
  <2>3. CallOK'
    BY <1>2, <2>1, SweepStep DEF CallOK, Sweeps
  <2> QED
    BY <2>1, <2>2, <2>3 DEF TypeOK
<1> QED
  BY <1>3, <1>4

LEMMA ContinuesTypes == ASSUME TypeInv, NEW a \in Apps, Continues(a) PROVE TypeInv'
<1> USE DEF TypeInv
<1>1. CASE SetHeadMove(a)
  <2> DEFINE i == call[a].st
             new == Move(state[i], call[a].head)
  <2>1. call[a] \in Call /\ i \in StateIds /\ call[a].at = "move" /\ i \in 1..made
    BY <1>1 DEF SetHeadMove, TypeOK, CallOK, StateIds
  <2>2. new \in RefState
    BY <2>1, MoveType DEF Call, TypeOK
  <2>3. /\ state' = [state EXCEPT ![i] = new]
        /\ Continue(a, [call[a] EXCEPT !.at = "wake"]) \/ Continue(a, Idle)
    BY <1>1 DEF SetHeadMove
  <2>4. PICK what \in Call : Continue(a, what) /\ what.at \in {"wake", "idle"}
    <3>1. Idle.at = "idle"
      BY DEF Idle
    <3> QED
      BY <2>1, <2>3, <3>1, IdleType, CallAt
  <2>5. new.published = state[i].published
    BY <2>1 DEF Move, TypeOK, RefState
  <2> HIDE DEF new
  <2>6. state' \in [StateIds -> RefState]
    BY <2>2, <2>3 DEF TypeOK
  <2>7. TypeOK'
    BY <1>1, <2>4, <2>6, CallStepType DEF SetHeadMove, TypeOK
  <2>8. SessionOK' /\ RegistryOK'
    BY <1>1 DEF SetHeadMove, SessionOK, RegistryOK
  <2>9. \A j \in StateIds : state'[j].published = state[j].published
    BY <2>1, <2>2, <2>3, <2>5 DEF TypeOK
  <2>10. PublishedRefs \subseteq PublishedRefs'
    BY <1>1, <2>9 DEF SetHeadMove, PublishedRefs, TypeOK, StateIds
  <2>11. CallOK'
    BY <1>1, <2>1, <2>4, <2>10, CallOKStep DEF SetHeadMove, Sweeps
  <2> QED
    BY <2>7, <2>8, <2>11
<1>2. CASE SetHeadWake(a)
  <2>1. PICK c \in Conns : /\ notify' = [notify EXCEPT ![c] = TRUE]
                           /\ TakeOff(a, c, Idle)
    BY <1>2 DEF SetHeadWake, TypeOK, Call
  <2>2. PICK what \in Call : Continue(a, what) /\ what.at \in {"wake", "idle"}
    BY <1>2, <2>1, IdleType, TakeOffType DEF SetHeadWake, Idle
  <2>3. TypeOK'
    BY <1>2, <2>1, <2>2, CallStepType DEF SetHeadWake, TypeOK
  <2>4. SessionOK' /\ RegistryOK'
    BY <1>2 DEF SetHeadWake, SessionOK, RegistryOK
  <2>5. CallOK'
    BY <1>2, <2>2, CallOKStep DEF SetHeadWake, Sweeps, PublishedRefs
  <2> QED
    BY <2>3, <2>4, <2>5
<1>3. CASE PublishMove(a)
  <2> DEFINE i == call[a].st
             new == [Move(state[i], call[a].head) EXCEPT !.ready = TRUE]
  <2>1. /\ call[a] \in Call /\ i \in StateIds /\ i \in 1..made
        /\ call[a].at = "publish" /\ call[a].ref \in Refs
    BY <1>3 DEF PublishMove, TypeOK, CallOK, StateIds
  <2>2. Move(state[i], call[a].head) \in RefState
    BY <2>1, MoveType DEF Call, TypeOK
  <2>3. new \in RefState /\ new.published = state[i].published
    <3>1. Move(state[i], call[a].head).published = state[i].published
      BY <2>1, MovePublished DEF Call, TypeOK
    <3> HIDE DEF i
    <3> QED
      BY <2>2, <3>1 DEF RefState
  <2>4. Continue(a, Idle)
    BY <1>3 DEF PublishMove
  <2>5. \/ state' = [state EXCEPT ![i] = new] /\ refs' = refs
        \/ Unlocked /\ refs' = Forget(call[a].ref, i) /\ state' = state
    BY <1>3 DEF PublishMove
  <2> HIDE DEF new
  <2>6. state' \in [StateIds -> RefState]
    <3> HIDE DEF i
    <3>1. state \in [StateIds -> RefState]
      BY DEF TypeOK
    <3>2. CASE state' = [state EXCEPT ![i] = new]
      BY <2>1, <2>3, <3>1, <3>2
    <3>3. CASE state' = state
      BY <3>1, <3>3
    <3> QED
      BY <2>5, <3>2, <3>3
  <2>7. refs' \in [Refs -> 0..MaxStates] /\ \A r \in Refs : refs'[r] \in {0, refs[r]}
    <3>1. CASE refs' = refs
      BY <3>1 DEF TypeOK
    <3>2. CASE refs' = Forget(call[a].ref, i)
      BY <2>1, <3>2, ForgetType DEF TypeOK
    <3> QED
      BY <2>5, <3>1, <3>2
  <2>8. TypeOK'
    BY <1>3, <2>4, <2>6, <2>7, IdleType, CallStepType DEF PublishMove, TypeOK
  <2>9. SessionOK' /\ RegistryOK'
    BY <1>3, <2>7 DEF PublishMove, SessionOK, RegistryOK, TypeOK
  <2>10. ASSUME mu # Free PROVE PublishedRefs \subseteq PublishedRefs'
    <3>1. \A j \in StateIds : state'[j].published = state[j].published
      BY <2>1, <2>3, <2>5 DEF TypeOK
    <3> QED
      BY <2>5, <2>10, <3>1 DEF PublishedRefs, TypeOK, StateIds
  <2>11. CallOK'
    BY <1>3, <2>1, <2>4, <2>10, IdleType, CallOKStep DEF PublishMove, Sweeps, Idle
  <2> QED
    BY <2>8, <2>9, <2>11
<1>4. CASE CloseOne(a)
  <2>1. PICK c \in Conns : CloseAll({c}) /\ TakeOff(a, c, Idle)
    BY <1>4 DEF CloseOne, TypeOK, Call
  <2>2. PICK what \in Call : Continue(a, what) /\ what.at \in {"close", "idle"}
    BY <1>4, <2>1, IdleType, TakeOffType DEF CloseOne, Idle
  <2>3. serverOpen' \in [Conns -> BOOLEAN] /\ up' \in [Conns -> Seq(Trees)]
    BY <2>1 DEF CloseAll, TypeOK
  <2>4. TypeOK'
    BY <1>4, <2>2, <2>3, CallStepType DEF CloseOne, TypeOK
  <2>5. SessionOK' /\ RegistryOK'
    BY <1>4 DEF CloseOne, SessionOK, RegistryOK
  <2>6. CallOK'
    BY <1>4, <2>2, CallOKStep DEF CloseOne, Sweeps, PublishedRefs
  <2> QED
    BY <2>4, <2>5, <2>6
<1>5. CASE SweepInstall(a)
  <2>1. PICK ref \in call[a].refs :
          LET i     == refs[ref]
              head  == call[a].named[ref]
              named == head # Unnamed IN
          /\ state' = [state EXCEPT ![i] = IF named THEN Install(@, call[a].store, head)
                                           ELSE [@ EXCEPT !.store = call[a].store]]
          /\ IF state[i].members = {}
             THEN SweepOn(a, call[a].refs \ {ref})
             ELSE /\ Continue(a, [call[a] EXCEPT !.at = "members", !.ref = ref, !.st = i,
                                                 !.todo = state[i].members,
                                                 !.moved = named /\ Moves(state[i], head)])
                  /\ UNCHANGED <<mu, appStore>>
    BY <1>5 DEF SweepInstall
  <2> DEFINE i == refs[ref]
             head == call[a].named[ref]
             store == call[a].store
             new == IF head # Unnamed THEN Install(state[i], store, head)
                    ELSE [state[i] EXCEPT !.store = store]
             next == [call[a] EXCEPT !.at = "members", !.ref = ref, !.st = i,
                                     !.todo = state[i].members,
                                     !.moved = head # Unnamed /\ Moves(state[i], head)]
  <2>2. /\ call[a] \in Call /\ call[a].at = "install"
        /\ ref \in PublishedRefs /\ call[a].named \in Named
    BY <1>5, <2>1 DEF SweepInstall, TypeOK, CallOK, Sweeps
  <2>3. ref \in Refs /\ i \in StateIds /\ state[i] \in RefState
    BY <2>2 DEF PublishedRefs, TypeOK, StateIds
  <2>4. head \in Headings \cup {Unnamed} /\ store \in Stores
    BY <2>2, <2>3 DEF Call
  <2>5. [state[i] EXCEPT !.store = store] \in RefState
        /\ [state[i] EXCEPT !.store = store].published = state[i].published
    BY <2>3, <2>4 DEF RefState
  <2>6. new \in RefState /\ new.published = state[i].published
    BY <2>4, <2>5, MoveType, MovePublished DEF Install
  <2>7. next \in Call /\ next.at = "members" /\ next.refs = call[a].refs
        /\ next.named = call[a].named
    <3>1. (head # Unnamed /\ Moves(state[i], head)) \in BOOLEAN
      BY DEF Moves, Allows, Advances
    <3>2. state[i].members \in SUBSET Conns
      BY <2>3 DEF RefState
    <3> DEFINE half == [call[a] EXCEPT !.at = "members", !.ref = ref, !.st = i]
    <3>3. next = [half EXCEPT !.todo = state[i].members,
                              !.moved = head # Unnamed /\ Moves(state[i], head)]
      BY <2>2 DEF Call
    <3>4. i \in 0..MaxStates
      BY <2>3 DEF StateIds
    <3> HIDE DEF i, next
    <3>5. half \in Call /\ half.at = "members" /\ half.refs = call[a].refs
          /\ half.named = call[a].named
      BY <2>2, <2>3, <3>4 DEF Call
    <3> HIDE DEF half, head
    <3> QED
      BY <3>1, <3>2, <3>3, <3>5 DEF Call
  <2>8. state' = [state EXCEPT ![i] = new]
    BY <2>1
  <2>9. \/ SweepOn(a, call[a].refs \ {ref})
        \/ Continue(a, next) /\ UNCHANGED <<mu, appStore>>
    BY <2>1
  <2> HIDE DEF new, next
  <2>10. state' \in [StateIds -> RefState]
    BY <2>6, <2>8 DEF TypeOK
  <2>11. made' = made /\ PublishedRefs' = PublishedRefs
    <3>1. \A j \in StateIds : state'[j].published = state[j].published
      BY <2>3, <2>6, <2>8 DEF TypeOK
    <3>2. refs' = refs /\ made' = made
      BY <1>5 DEF SweepInstall
    <3> QED
      BY <3>1, <3>2 DEF PublishedRefs, TypeOK, StateIds
  <2>12. /\ call' \in [Apps -> Call]
         /\ mu' \in Apps \cup {Free}
         /\ appStore' \in Stores
         /\ CallOK'
    <3>1. CASE SweepOn(a, call[a].refs \ {ref})
      BY <2>2, <2>11, <3>1, SweepOnType DEF Sweeps
    <3>2. CASE Continue(a, next) /\ UNCHANGED <<mu, appStore>>
      <4>1. call' \in [Apps -> Call]
        BY <2>7, <3>2, CallStepType
      <4>2. CallOK'
        BY <2>2, <2>7, <2>11, <3>2, SweepStep DEF Sweeps
      <4> QED
        BY <3>2, <4>1, <4>2 DEF TypeOK
    <3> QED
      BY <2>9, <3>1, <3>2
  <2>13. TypeOK'
    BY <1>5, <2>10, <2>12 DEF SweepInstall, TypeOK
  <2>14. SessionOK' /\ RegistryOK'
    BY <1>5 DEF SweepInstall, SessionOK, RegistryOK
  <2> QED
    BY <2>12, <2>13, <2>14
<1>6. CASE SweepKeeps(a)
  <2>1. PICK c \in Conns :
          /\ notify' = [notify EXCEPT ![c] = @ \/ call[a].moved]
          /\ SweepNext(a, c)
    BY <1>6 DEF SweepKeeps, TypeOK, Call
  <2>2. call[a].at \in Sweeps /\ call[a].moved \in BOOLEAN
    BY <1>6 DEF SweepKeeps, Sweeps, TypeOK, Call
  <2>3. /\ call' \in [Apps -> Call]
        /\ mu' \in Apps \cup {Free}
        /\ appStore' \in Stores
        /\ CallOK'
    BY <1>6, <2>1, <2>2, SweepNextType DEF SweepKeeps, PublishedRefs
  <2>4. notify' \in [Conns -> BOOLEAN]
    BY <2>1, <2>2 DEF TypeOK
  <2>5. TypeOK'
    BY <1>6, <2>3, <2>4 DEF SweepKeeps, TypeOK
  <2>6. SessionOK' /\ RegistryOK'
    BY <1>6 DEF SweepKeeps, SessionOK, RegistryOK
  <2> QED
    BY <2>3, <2>5, <2>6
<1>7. CASE SweepDrops(a)
  <2>1. PICK c \in Conns : Continue(a, [call[a] EXCEPT !.at = "reset", !.drop = c])
    BY <1>7 DEF SweepDrops, TypeOK, Call
  <2> DEFINE next == [call[a] EXCEPT !.at = "reset", !.drop = c]
  <2>2. call[a].at \in Sweeps /\ call[a] \in Call /\ call[a].named \in Named
    BY <1>7 DEF SweepDrops, Sweeps, TypeOK, CallOK
  <2>3. next \in Call /\ next.at = "reset" /\ next.refs = call[a].refs
        /\ next.named = call[a].named /\ next.drop = c
    BY <2>2 DEF Call
  <2> HIDE DEF next
  <2>4. Continue(a, next)
    BY <2>1 DEF next
  <2>5. TypeOK'
    BY <1>7, <2>3, <2>4, CallStepType DEF SweepDrops, TypeOK
  <2>6. SessionOK' /\ RegistryOK'
    BY <1>7 DEF SweepDrops, SessionOK, RegistryOK
  <2>7. CallOK'
    BY <1>7, <2>2, <2>3, <2>4, SweepStep DEF SweepDrops, Sweeps, PublishedRefs
  <2> QED
    BY <2>5, <2>6, <2>7
<1>8. CASE SweepResets(a)
  <2> DEFINE c == call[a].drop
  <2>1. c \in Conns
    BY <1>8 DEF SweepResets, CallOK, Sweeps
  <2>2. call[a].at \in Sweeps
    BY <1>8 DEF SweepResets, Sweeps
  <2>3. /\ synced' = [synced EXCEPT ![c] = Void]
        /\ notify' = [notify EXCEPT ![c] = TRUE]
        /\ SweepNext(a, c)
    BY <1>8 DEF SweepResets
  <2>4. /\ call' \in [Apps -> Call]
        /\ mu' \in Apps \cup {Free}
        /\ appStore' \in Stores
        /\ CallOK'
    BY <1>8, <2>1, <2>2, <2>3, SweepNextType DEF SweepResets, PublishedRefs
  <2>5. synced' \in [Conns -> Trees] /\ notify' \in [Conns -> BOOLEAN]
    BY <2>3 DEF TypeOK, Trees
  <2>6. TypeOK'
    BY <1>8, <2>4, <2>5 DEF SweepResets, TypeOK
  <2>7. SessionOK' /\ RegistryOK'
    BY <1>8 DEF SweepResets, SessionOK, RegistryOK
  <2> QED
    BY <2>4, <2>6, <2>7
<1>9. CASE StopListener(a)
  <2>1. call[a] \in Call /\ call[a].at = "listener"
    BY <1>9 DEF StopListener, TypeOK
  <2>2. PICK what \in Call : Continue(a, what) /\ what.at \in {"close", "idle"}
    <3>1. Idle.at = "idle"
      BY DEF Idle
    <3>2. \E what \in {[call[a] EXCEPT !.at = "close"], Idle} : Continue(a, what)
      BY <1>9 DEF StopListener
    <3> QED
      BY <2>1, <3>1, <3>2, IdleType, CallAt
  <2>3. TypeOK'
    BY <1>9, <2>2, CallStepType DEF StopListener, TypeOK
  <2>4. SessionOK' /\ RegistryOK'
    BY <1>9 DEF StopListener, SessionOK, RegistryOK
  <2>5. CallOK'
    BY <1>9, <2>1, <2>2, CallOKStep DEF StopListener, Sweeps, PublishedRefs
  <2> QED
    BY <2>3, <2>4, <2>5
<1> QED
  BY <1>1, <1>2, <1>3, <1>4, <1>5, <1>6, <1>7, <1>8, <1>9 DEF Continues

LEMMA StepTypeInv == TypeInv /\ [Next]_vars => TypeInv'
<1> SUFFICES ASSUME TypeInv, [Next]_vars PROVE TypeInv'
  OBVIOUS
<1>1. CASE UNCHANGED vars
  BY <1>1 DEF vars, TypeInv, TypeOK, SessionOK, CallOK, RegistryOK, PublishedRefs
<1>2. ASSUME NEW c \in Conns, Serves(c) \/ Reads(c) \/ Clients(c) PROVE TypeInv'
  BY <1>2, ServesTypes, ReadsTypes, ClientsTypes
<1>3. ASSUME NEW a \in Apps, Begins(a) \/ Continues(a) PROVE TypeInv'
  BY <1>3, BeginsTypes, ContinuesTypes
<1> QED
  BY <1>1, <1>2, <1>3 DEF Next, Rest

\* TypeOK with what makes it inductive: where goroutines and calls are, and what
\* they point at from there.
THEOREM TypesKept == Spec => []TypeInv
BY InitTypeInv, StepTypeInv, PTL DEF Spec

\* Every variable keeps its type, however many refs, connections and calls
\* there are.
THEOREM TypeCorrect == Spec => []TypeOK
<1>1. TypeInv => TypeOK
  BY DEF TypeInv
<1> QED
  BY <1>1, TypesKept, PTL

-----------------------------------------------------------------------------
(* What a step does to the registry and to the places of the connections.  *)
(* Most steps leave both alone, or move one connection along inside a ref  *)
(* or outside of any.                                                      *)

regVars == <<entries, pc, my, last, reg, lent>>

\* Labels of a connection that is at no ref, and of one that hands its ref back.
Apart  == {"idle", "dialled", "accepted", "register", "join", "closing", "delisting",
           "shutting", "done"}
Ending == {"unsubscribed", "release", "unlist"}

\* Labels of a subscriber that has been given a store and a head to serve.
Serving == {"announce", "current", "push", "ack", "record", "report", "wait"}

Walk(c) ==
  /\ UNCHANGED <<entries, my, last, reg, lent>>
  /\ \E label \in Labels :
       /\ pc' = [pc EXCEPT ![c] = label]
       /\ label \in Arriving => pc[c] \in Arriving
       /\ (label \in Serving /\ pc[c] \notin Serving) =>
             (state[my[c]].ready /\ ~state[my[c]].err)
       /\ \/ pc[c] \in Joined \ {"prepare"} /\ label \in Joined \ {"prepare"}
          \/ pc[c] \in Apart \ {"idle", "done"} /\ label \in Apart \ {"idle", "done"}

\* Steps that put a new head, a store or an answer into a refState.
Settles(c)  == Prepared(c) \/ PrepareFails(c)
HeadStep(a) == SetHeadMove(a) \/ PublishMove(a) \/ SweepInstall(a)

LEMMA ServesWalks ==
  ASSUME TypeInv, NEW c \in Conns, Serves(c)
  PROVE  \/ Walk(c) \/ Settles(c)
         \/ JoinRetiring(c) \/ Retired(c) \/ JoinMembers(c) \/ JoinFirst(c)
         \/ Leave(c) \/ Unsubscribed(c) \/ Release(c) \/ Unlist(c) \/ Close(c)
<1> USE DEF Walk, Joined, Apart, Labels, Arriving, Serving
<1>1. CASE Accept(c)
  BY <1>1 DEF Accept
<1>2. CASE Handle(c)
  BY <1>2 DEF Handle
<1>3. CASE Register(c)
  BY <1>3 DEF Register
<1>4. CASE RegisterFails(c)
  BY <1>4 DEF RegisterFails
<1>5. CASE JoinRefused(c)
  BY <1>5 DEF JoinRefused
<1>6. CASE Ready(c)
  BY <1>6 DEF Ready
<1>7. CASE ReadyRefused(c)
  BY <1>7 DEF ReadyRefused
<1>8. CASE Announce(c)
  BY <1>8 DEF Announce
<1>9. CASE Current(c)
  BY <1>9 DEF Current
<1>10. CASE Push(c)
  BY <1>10 DEF Push
<1>11. CASE PushFails(c)
  BY <1>11 DEF PushFails
<1>12. CASE TakeAck(c)
  BY <1>12 DEF TakeAck
<1>13. CASE Record(c)
  BY <1>13 DEF Record
<1>14. CASE Report(c)
  BY <1>14 DEF Report
<1>15. CASE Woken(c)
  BY <1>15 DEF Woken
<1>16. CASE Lost(c)
  BY <1>16 DEF Lost
<1>17. CASE Refuse(c)
  BY <1>17 DEF Refuse
<1>18. CASE Delist(c)
  BY <1>18 DEF Delist
<1> QED
  BY <1>1, <1>2, <1>3, <1>4, <1>5, <1>6, <1>7, <1>8, <1>9, <1>10, <1>11, <1>12, <1>13,
     <1>14, <1>15, <1>16, <1>17, <1>18 DEF Serves, Settles

LEMMA RegistryStep ==
  ASSUME TypeInv, [Next]_vars
  PROVE  \/ UNCHANGED regVars
         \/ \E c \in Conns :
              \/ Walk(c) \/ Settles(c)
              \/ JoinRetiring(c) \/ Retired(c) \/ JoinMembers(c) \/ JoinFirst(c)
              \/ Leave(c) \/ Unsubscribed(c) \/ Release(c) \/ Unlist(c) \/ Close(c)
              \/ Dial(c)
         \/ \E a \in Apps : HeadStep(a) \/ PublishInsert(a) \/ Unpublish(a)
<1> USE DEF regVars
<1>1. CASE UNCHANGED vars
  BY <1>1 DEF vars
<1>2. ASSUME NEW c \in Conns, Serves(c) PROVE
              \/ Walk(c) \/ Settles(c)
              \/ JoinRetiring(c) \/ Retired(c) \/ JoinMembers(c) \/ JoinFirst(c)
              \/ Leave(c) \/ Unsubscribed(c) \/ Release(c) \/ Unlist(c) \/ Close(c)
  BY <1>2, ServesWalks
<1>3. ASSUME NEW c \in Conns, Reads(c) PROVE UNCHANGED regVars
  BY <1>3 DEF Reads, ReadAck, ReadFails
<1>4. ASSUME NEW c \in Conns, Interpret(c) \/ HangUp(c) PROVE UNCHANGED regVars
  BY <1>4 DEF Interpret, HangUp
<1>5. ASSUME NEW a \in Apps, SetHeadFind(a) \/ SweepCheck(a) \/ Stop(a)
      PROVE  UNCHANGED regVars
  <2>1. CASE SetHeadFind(a)
    BY <2>1 DEF SetHeadFind
  <2>2. CASE SweepCheck(a)
    BY <2>2 DEF SweepCheck
  <2>3. CASE Stop(a)
    BY <2>3 DEF Stop
  <2> QED
    BY <1>5, <2>1, <2>2, <2>3
<1>6. ASSUME NEW a \in Apps, SetHeadWake(a) \/ CloseOne(a) \/ SweepKeeps(a) \/ SweepDrops(a)
                             \/ SweepResets(a) \/ StopListener(a)
      PROVE  UNCHANGED regVars
  <2>1. CASE SetHeadWake(a)
    BY <2>1 DEF SetHeadWake
  <2>2. CASE CloseOne(a)
    BY <2>2 DEF CloseOne
  <2>3. CASE SweepKeeps(a)
    BY <2>3 DEF SweepKeeps
  <2>4. CASE SweepDrops(a)
    BY <2>4 DEF SweepDrops
  <2>5. CASE SweepResets(a)
    BY <2>5 DEF SweepResets
  <2>6. CASE StopListener(a)
    BY <2>6 DEF StopListener
  <2> QED
    BY <1>6, <2>1, <2>2, <2>3, <2>4, <2>5, <2>6
<1>7. ASSUME NEW a \in Apps, Begins(a) PROVE
        UNCHANGED regVars \/ PublishInsert(a) \/ Unpublish(a)
  BY <1>5, <1>7 DEF Begins
<1>8. ASSUME NEW a \in Apps, Continues(a) PROVE UNCHANGED regVars \/ HeadStep(a)
  BY <1>6, <1>8 DEF Continues, HeadStep
<1>9. ASSUME NEW c \in Conns, Clients(c) PROVE UNCHANGED regVars \/ Dial(c)
  BY <1>4, <1>9 DEF Clients
<1> HIDE DEF regVars
<1>10. CASE Next
  <2>1. CASE \E c \in Conns : Serves(c)
    BY <2>1, <1>2
  <2>2. CASE \E c \in Conns : Reads(c) \/ Clients(c)
    BY <2>2, <1>3, <1>9
  <2>3. CASE \E a \in Apps : Begins(a) \/ Continues(a)
    BY <2>3, <1>7, <1>8
  <2> QED
    BY <1>10, <1>1, <2>1, <2>2, <2>3 DEF Next, Rest
<1> QED
  BY <1>1, <1>10

-----------------------------------------------------------------------------
(* Members and entries.  A subscriber is a member of exactly the refState it *)
(* is at; an entry that nobody is a member of any more is about to go,       *)
(* because the last member has marked it.                                    *)

FreshOK == \A i \in StateIds : i > made => state[i] = NewState

MembersOK ==
  /\ \A c \in Conns : pc[c] \in Joined => c \in state[my[c]].members
  /\ \A i \in StateIds, c \in Conns :
       c \in state[i].members => pc[c] \in Joined /\ my[c] = i

\* A refState is the entry of one ref, the one its subscribers registered for.
EntriesOK ==
  /\ \A r, s \in Refs : refs[r] # 0 /\ refs[r] = refs[s] => r = s
  /\ \A c \in Conns, r \in Refs : pc[c] \in Bound /\ refs[r] = my[c] => reg[c].ref = r

RetiringOK ==
  /\ \A i \in StateIds : state[i].retiring => state[i].members = {} /\ ~state[i].published
  /\ \A c \in Conns :
       /\ pc[c] \in {"release", "unlist"} => last[c]
       /\ pc[c] \in Ending /\ last[c] => state[my[c]].retiring

\* c is the last subscriber of the refState i, and hands it back.
Ender(c, i) == my[c] = i /\ last[c] /\ pc[c] \in Ending

EmptyOK ==
  \A r \in Refs :
    LET i == refs[r] IN
    i # 0 /\ ~state[i].published /\ state[i].members = {} => \E c \in Conns : Ender(c, i)

RegOK == FreshOK /\ MembersOK /\ EntriesOK /\ RetiringOK /\ EmptyOK

LEMMA InitReg == Init => RegOK
<1> SUFFICES ASSUME Init PROVE RegOK
  OBVIOUS
<1>1. FreshOK
  BY DEF Init, FreshOK
<1>2. MembersOK
  BY DEF Init, MembersOK, Joined, NewState
<1>3. EntriesOK
  BY DEF Init, EntriesOK, Bound, Joined
<1>4. RetiringOK
  BY DEF Init, RetiringOK, Ending, NewState
<1>5. EmptyOK
  BY DEF Init, EmptyOK
<1> QED
  BY <1>1, <1>2, <1>3, <1>4, <1>5 DEF RegOK

\* A head, a store or an answer changes nothing else of a refState.
LEMMA MoveKeeps ==
  ASSUME NEW st \in RefState, NEW head \in AnyHead
  PROVE  /\ Move(st, head).members = st.members
         /\ Move(st, head).retiring = st.retiring
         /\ Move(st, head).published = st.published
         /\ Move(st, head).prepared = st.prepared
         /\ Move(st, head).ready = st.ready
         /\ Move(st, head).err = st.err
         /\ Move(st, head).store = st.store
BY DEF Move, RefState

SameShape ==
  \A i \in StateIds :
    /\ state'[i].members = state[i].members
    /\ state'[i].retiring = state[i].retiring
    /\ state'[i].published = state[i].published
    /\ i > made => state'[i] = state[i]

\* What Prepare answers, whether it is taken or not.
Answered(st, i, head) ==
  [Move(st, head) EXCEPT !.store = i, !.prepared = TRUE, !.ready = TRUE]

Failed(st) == [st EXCEPT !.err = TRUE, !.ready = TRUE]

LEMMA SettlesState ==
  ASSUME TypeInv, NEW c \in Conns, Settles(c)
  PROVE  /\ pc[c] = "prepare" /\ my[c] \in StateIds /\ my[c] \in 1..made
         /\ state[my[c]] \in RefState /\ reg[c].ref \in Refs
         /\ pc' = [pc EXCEPT ![c] = "ready"]
         /\ UNCHANGED <<made, running, appStore, provider, session, wires, calls, client>>
         /\ \/ \E head \in Headings :
                 /\ Allows(state[my[c]], head)
                 /\ state' = [state EXCEPT ![my[c]] = Answered(state[my[c]], my[c], head)]
                 /\ holds' = Load(my[c], head.hash)
                 /\ refs' = refs
                 /\ lent' = lent \cup {<<reg[c].ref, my[c]>>}
            \/ /\ Unlocked
               /\ state' = [state EXCEPT ![my[c]] = Failed(state[my[c]])]
               /\ refs' = Forget(reg[c].ref, my[c])
               /\ holds' = holds
               /\ \/ lent' = lent
                  \/ /\ \E head \in Headings : ~Allows(state[my[c]], head)
                     /\ lent' = lent \cup {<<reg[c].ref, my[c]>>}
<1> DEFINE i == my[c]
<1>1. /\ pc[c] = "prepare"
      /\ pc' = [pc EXCEPT ![c] = "ready"]
      /\ UNCHANGED <<made, running, appStore, provider, session, wires, calls, client>>
  BY DEF Settles, Prepared, PrepareFails
<1>2. i \in StateIds /\ i \in 1..made /\ reg[c].ref \in Refs /\ state[i] \in RefState
  BY <1>1 DEF TypeInv, TypeOK, SessionOK, Registered, Bound, Joined, StateIds
<1>3. [state EXCEPT ![i].err = TRUE, ![i].ready = TRUE] = [state EXCEPT ![i] = Failed(state[i])]
  <2>1. state \in [StateIds -> RefState]
    BY DEF TypeInv, TypeOK
  <2> QED
    BY <1>2, <2>1 DEF RefState, Failed
<1>4. CASE Prepared(c)
  <2>1. PICK head \in Headings :
          /\ lent' = lent \cup {<<reg[c].ref, i>>}
          /\ IF Allows(state[i], head)
             THEN /\ state' = [state EXCEPT ![i] = Answered(state[i], i, head)]
                  /\ holds' = Load(i, head.hash)
                  /\ refs' = refs
             ELSE /\ Unlocked
                  /\ state' = [state EXCEPT ![i].err = TRUE, ![i].ready = TRUE]
                  /\ refs' = Forget(reg[c].ref, i)
                  /\ holds' = holds
    BY <1>4 DEF Prepared, Answered
  <2> QED
    BY <1>1, <1>2, <1>3, <2>1
<1>5. CASE PrepareFails(c)
  <2>1. /\ Unlocked
        /\ state' = [state EXCEPT ![i].err = TRUE, ![i].ready = TRUE]
        /\ refs' = Forget(reg[c].ref, i)
        /\ holds' = holds
        /\ lent' = lent
    BY <1>5 DEF PrepareFails
  <2> QED
    BY <1>1, <1>2, <1>3, <2>1
<1> QED
  BY <1>4, <1>5 DEF Settles


SameHead(st, old) ==
  st.head = old.head /\ st.sequenced = old.sequenced /\ st.installed = old.installed

\* A head that a call carries.
Carries(a, head) ==
  \/ head \in Headings
  \/ head = call[a].head /\ call[a].at \in {"move", "publish"}

\* A store that is put in place does not matter to the head.
LEMMA MoveApart ==
  ASSUME NEW st \in RefState, NEW store \in Stores, NEW head \in AnyHead
  PROVE  SameHead(Move([st EXCEPT !.store = store], head), Move(st, head))
<1> DEFINE p == [st EXCEPT !.store = store]
<1>1. p \in RefState /\ SameHead(p, st)
  BY DEF RefState, SameHead
<1>2. Moves(p, head) <=> Moves(st, head)
  BY <1>1 DEF Moves, Allows, Advances, SameHead
<1> HIDE DEF p
<1>3. SameHead(Move(p, head), Move(st, head))
  <2>1. CASE Moves(st, head)
    <3>1. \A x \in RefState : Moves(x, head) =>
            SameHead(Move(x, head),
                     [head |-> head, sequenced |-> Ordered(head), installed |-> TRUE])
      BY DEF Move, SameHead, RefState
    <3> QED
      BY <1>1, <1>2, <2>1, <3>1 DEF SameHead
  <2>2. CASE ~Moves(st, head)
    BY <1>1, <1>2, <2>2 DEF Move
  <2> QED
    BY <2>1, <2>2
<1> QED
  BY <1>3 DEF p

\* n is what a call may put in the place of the refState i.
Puts(a, i, n) ==
  /\ n.members = state[i].members
  /\ n.retiring = state[i].retiring
  /\ n.published = state[i].published
  /\ n.prepared = state[i].prepared
  /\ n.err = state[i].err
  /\ \/ n.ready = state[i].ready
     \/ n.ready /\ call[a].at = "publish" /\ i = call[a].st
  /\ \/ SameHead(n, state[i])
     \/ \E head \in AnyHead : Carries(a, head) /\ SameHead(n, Move(state[i], head))

\* What a call that moves a head puts in the place of a refState.
LEMMA HeadStepState ==
  ASSUME TypeInv, NEW a \in Apps, HeadStep(a)
  PROVE  /\ UNCHANGED <<made, running, holds, provider, pc, session, wires, budget, client, lent>>
         /\ call[a].at = "publish" => call[a].ref \in Refs /\ call[a].st \in StateIds
         /\ \/ refs' = refs
            \/ /\ call[a].at = "publish"
               /\ refs' = Forget(call[a].ref, call[a].st)
               /\ state' = state
               /\ ~Allows(state[call[a].st], call[a].head)
         /\ \E i \in StateIds, n \in RefState :
              /\ i \in 1..made
              /\ state' \in {state, [state EXCEPT ![i] = n]}
              /\ Puts(a, i, n)
<1> USE DEF TypeInv
<1>1. CASE SetHeadMove(a)
  <2> DEFINE i == call[a].st
             n == Move(state[i], call[a].head)
  <2>1. /\ UNCHANGED <<refs, made, running, stores, pc, session, wires, budget, client, lent>>
        /\ call[a].at = "move"
        /\ state' = [state EXCEPT ![i] = n]
    BY <1>1 DEF SetHeadMove
  <2>2. i \in StateIds /\ i \in 1..made /\ state[i] \in RefState /\ call[a].head \in AnyHead
    BY <2>1 DEF TypeOK, CallOK, StateIds, Call
  <2>3. n \in RefState
    BY <2>2, MoveType
  <2>4. /\ n.members = state[i].members /\ n.retiring = state[i].retiring
        /\ n.published = state[i].published /\ n.prepared = state[i].prepared
        /\ n.err = state[i].err /\ n.ready = state[i].ready
    BY <2>2, MoveKeeps
  <2>5. \E head \in AnyHead : Carries(a, head) /\ SameHead(n, Move(state[i], head))
    BY <2>1, <2>2 DEF SameHead, Carries
  <2> HIDE DEF n, i
  <2>6. Puts(a, i, n)
    BY <2>4, <2>5 DEF Puts
  <2> QED
    BY <2>1, <2>2, <2>3, <2>6
<1>2. CASE PublishMove(a)
  <2> DEFINE i == call[a].st
             m == Move(state[i], call[a].head)
             n == [m EXCEPT !.ready = TRUE]
  <2>1. /\ UNCHANGED <<made, running, stores, pc, session, wires, budget, client, lent>>
        /\ call[a].at = "publish"
        /\ \/ state' = [state EXCEPT ![i] = n] /\ refs' = refs
           \/ /\ refs' = Forget(call[a].ref, i) /\ state' = state
              /\ ~Allows(state[i], call[a].head)
    BY <1>2 DEF PublishMove
  <2>2. /\ i \in StateIds /\ i \in 1..made /\ state[i] \in RefState
        /\ call[a].head \in AnyHead /\ call[a].ref \in Refs
    BY <2>1 DEF TypeOK, CallOK, StateIds, Call
  <2>3. m \in RefState
    BY <2>2, MoveType
  <2>4. /\ m.members = state[i].members /\ m.retiring = state[i].retiring
        /\ m.published = state[i].published /\ m.prepared = state[i].prepared
        /\ m.err = state[i].err
    BY <2>2, MoveKeeps
  <2>5. n \in RefState /\ n.members = state[i].members /\ n.retiring = state[i].retiring
        /\ n.published = state[i].published /\ n.prepared = state[i].prepared
        /\ n.err = state[i].err /\ n.ready
    <3> HIDE DEF m, i
    <3> QED
      BY <2>3, <2>4 DEF RefState
  <2>6. \E head \in AnyHead : Carries(a, head) /\ SameHead(n, Move(state[i], head))
    <3>1. SameHead(n, m)
      <4> HIDE DEF m
      <4> QED
        BY <2>3 DEF SameHead, RefState
    <3> QED
      BY <2>1, <2>2, <3>1 DEF Carries
  <2> HIDE DEF n
  <2>7. Puts(a, i, n)
    BY <2>1, <2>5, <2>6 DEF Puts
  <2> QED
    BY <2>1, <2>2, <2>5, <2>7
<1>3. CASE SweepInstall(a)
  <2>1. PICK ref \in call[a].refs :
          state' = [state EXCEPT ![refs[ref]] =
                      IF call[a].named[ref] # Unnamed
                      THEN Install(@, call[a].store, call[a].named[ref])
                      ELSE [@ EXCEPT !.store = call[a].store]]
    BY <1>3 DEF SweepInstall
  <2>2. /\ UNCHANGED <<refs, made, running, holds, provider, pc, session, wires, budget,
                       client, lent>>
        /\ call[a].at = "install"
    BY <1>3 DEF SweepInstall
  <2>3. /\ ref \in PublishedRefs /\ call[a].named \in Named /\ call[a] \in Call
    BY <2>1, <2>2 DEF TypeOK, CallOK, Sweeps
  <2> DEFINE i == refs[ref]
             head == call[a].named[ref]
             p == [state[i] EXCEPT !.store = call[a].store]
             n == IF head # Unnamed THEN Move(p, head) ELSE p
  <2>4. /\ i \in StateIds /\ i \in 1..made /\ state[i] \in RefState
        /\ head \in Headings \cup {Unnamed} /\ call[a].store \in Stores
    <3>1. ref \in Refs /\ refs[ref] # 0 /\ refs[ref] \in 0..made /\ made \in 0..MaxStates
      BY <2>3 DEF PublishedRefs, TypeOK, RegistryOK
    <3>2. i \in StateIds /\ i \in 1..made
      BY <3>1 DEF StateIds
    <3> QED
      BY <2>3, <3>1, <3>2 DEF TypeOK, Call
  <2>5. /\ p \in RefState /\ p.members = state[i].members /\ p.retiring = state[i].retiring
        /\ p.published = state[i].published /\ p.prepared = state[i].prepared
        /\ p.err = state[i].err /\ p.ready = state[i].ready /\ SameHead(p, state[i])
    <3> HIDE DEF i
    <3> QED
      BY <2>4 DEF RefState, SameHead
  <2>6. /\ n \in RefState /\ n.members = state[i].members /\ n.retiring = state[i].retiring
        /\ n.published = state[i].published /\ n.prepared = state[i].prepared
        /\ n.err = state[i].err /\ n.ready = state[i].ready
        /\ \/ SameHead(n, state[i])
           \/ head \in Headings /\ SameHead(n, Move(state[i], head))
    <3>1. CASE head = Unnamed
      <4> HIDE DEF p, i, head
      <4> QED
        BY <2>5, <3>1
    <3>2. CASE head # Unnamed
      <4>1. head \in Headings /\ head \in AnyHead
        <5> HIDE DEF head
        <5> QED
          BY <2>4, <3>2
      <4>2. SameHead(n, Move(state[i], head))
        <5>1. n = Move(p, head)
          BY <3>2
        <5> HIDE DEF n, i, head
        <5> QED
          BY <2>4, <4>1, <5>1, MoveApart
      <4> HIDE DEF p, i, head
      <4> QED
        BY <2>5, <3>2, <4>1, <4>2, MoveType, MoveKeeps
    <3> QED
      BY <3>1, <3>2
  <2>7. state' = [state EXCEPT ![i] = n]
    BY <2>1 DEF Install
  <2>8. \/ SameHead(n, state[i])
        \/ \E h \in AnyHead : Carries(a, h) /\ SameHead(n, Move(state[i], h))
    <3> HIDE DEF n, i, head
    <3> QED
      BY <2>6 DEF Carries
  <2> HIDE DEF n, i, head
  <2>9. Puts(a, i, n)
    BY <2>6, <2>8 DEF Puts
  <2> QED
    BY <2>2, <2>4, <2>6, <2>7, <2>9
<1> QED
  BY <1>1, <1>2, <1>3 DEF HeadStep

\* None of these changes who is a member of what.
LEMMA HeadsKeepShape ==
  ASSUME TypeInv, NEW a \in Apps, HeadStep(a)
  PROVE  SameShape /\ made' = made /\ \A r \in Refs : refs'[r] \in {0, refs[r]}
<1>1. PICK i \in StateIds, n \in RefState :
              /\ i \in 1..made
              /\ state' \in {state, [state EXCEPT ![i] = n]}
              /\ n.members = state[i].members
              /\ n.retiring = state[i].retiring
              /\ n.published = state[i].published
  BY HeadStepState DEF Puts
<1>2. SameShape
  <2>1. state \in [StateIds -> RefState] /\ made \in Nat
    BY DEF TypeInv, TypeOK
  <2> QED
    BY <1>1, <2>1 DEF SameShape
<1>3. made' = made /\ \A r \in Refs : refs'[r] \in {0, refs[r]}
  <2>1. refs \in [Refs -> 0..MaxStates]
    BY DEF TypeInv, TypeOK
  <2> QED
    BY <2>1, HeadStepState, ForgetType
<1> QED
  BY <1>2, <1>3

LEMMA SettlesKeepShape ==
  ASSUME TypeInv, NEW c \in Conns, Settles(c)
  PROVE  SameShape /\ made' = made /\ \A r \in Refs : refs'[r] \in {0, refs[r]}
<1> DEFINE i == my[c]
<1>1. /\ i \in StateIds /\ i \in 1..made /\ state[i] \in RefState /\ reg[c].ref \in Refs
      /\ made' = made
  BY SettlesState
<1>2. \A head \in Headings : LET n == Answered(state[i], i, head) IN
         /\ n.members = state[i].members
         /\ n.retiring = state[i].retiring
         /\ n.published = state[i].published
  <2> TAKE head \in Headings
  <2>1. Move(state[i], head) \in RefState
    BY <1>1, MoveType
  <2>2. /\ Move(state[i], head).members = state[i].members
        /\ Move(state[i], head).retiring = state[i].retiring
        /\ Move(state[i], head).published = state[i].published
    BY <1>1, MoveKeeps
  <2> QED
    BY <2>1, <2>2 DEF Answered, RefState
<1>3. LET n == Failed(state[i]) IN
         /\ n.members = state[i].members
         /\ n.retiring = state[i].retiring
         /\ n.published = state[i].published
  BY <1>1 DEF Failed, RefState
<1>4. SameShape
  <2>1. state \in [StateIds -> RefState] /\ made \in Nat
    BY DEF TypeInv, TypeOK
  <2>2. PICK n : /\ state' = [state EXCEPT ![i] = n]
                 /\ n.members = state[i].members
                 /\ n.retiring = state[i].retiring
                 /\ n.published = state[i].published
    BY <1>2, <1>3, SettlesState
  <2> QED
    BY <1>1, <2>1, <2>2 DEF SameShape
<1>5. \A r \in Refs : refs'[r] \in {0, refs[r]}
  <2>1. refs \in [Refs -> 0..MaxStates]
    BY DEF TypeInv, TypeOK
  <2> QED
    BY <1>1, <2>1, SettlesState, ForgetType
<1> QED
  BY <1>1, <1>4, <1>5

SamePlaces ==
  \A c \in Conns :
    /\ pc'[c] \in Joined <=> pc[c] \in Joined
    /\ pc'[c] \in Bound <=> pc[c] \in Bound
    /\ pc'[c] \in Ending <=> pc[c] \in Ending
    /\ pc'[c] \in {"release", "unlist"} <=> pc[c] \in {"release", "unlist"}

\* As long as the members and the places stay, entries may go.
LEMMA KeepsReg ==
  ASSUME TypeInv, RegOK, SameShape, SamePlaces, UNCHANGED <<made, my, last, reg>>,
         \A r \in Refs : refs'[r] \in {0, refs[r]}
  PROVE  RegOK'
<1> USE DEF RegOK, SameShape, SamePlaces
<1>0. \A c \in Conns : pc[c] \in Bound => my[c] \in StateIds
  BY DEF TypeInv, TypeOK, SessionOK, StateIds
<1>1. FreshOK'
  BY DEF FreshOK
<1>2. MembersOK'
  BY <1>0 DEF MembersOK, Bound
<1>3. EntriesOK'
  <2>1. \A c \in Conns : pc[c] \in Bound => my[c] # 0
    BY <1>0 DEF StateIds
  <2>2. \A r \in Refs : refs'[r] # 0 => refs'[r] = refs[r]
    OBVIOUS
  <2>3. \A c \in Conns, r \in Refs : pc'[c] \in Bound /\ refs'[r] = my'[c] => reg'[c].ref = r
    BY <2>1, <2>2 DEF EntriesOK
  <2> QED
    BY <2>2, <2>3 DEF EntriesOK
<1>4. RetiringOK'
  BY <1>0 DEF RetiringOK, Bound, Ending
<1>5. EmptyOK'
  <2>1. \A r \in Refs : refs[r] # 0 => refs[r] \in StateIds
    BY DEF TypeInv, TypeOK, StateIds
  <2> QED
    BY <2>1 DEF EmptyOK, Ender
<1> QED
  BY <1>1, <1>2, <1>3, <1>4, <1>5

LEMMA StateUnchanged ==
  UNCHANGED <<state, made>> => SameShape /\ made' = made
BY DEF SameShape

LEMMA WalkReg == ASSUME TypeInv, RegOK, NEW c \in Conns, Walk(c) PROVE RegOK'
<1>1. UNCHANGED <<refs, state, made, my, last, reg>>
  BY DEF Walk
<1>2. SamePlaces
  <2>1. pc \in [Conns -> Labels]
    BY DEF TypeInv, TypeOK
  <2> QED
    BY <2>1 DEF Walk, SamePlaces, Joined, Bound, Ending, Apart
<1>3. SameShape
  BY <1>1, StateUnchanged
<1> QED
  BY <1>1, <1>2, <1>3, KeepsReg

LEMMA SettlesReg == ASSUME TypeInv, RegOK, NEW c \in Conns, Settles(c) PROVE RegOK'
<1>1. UNCHANGED <<my, last, reg>> /\ pc[c] = "prepare" /\ pc' = [pc EXCEPT ![c] = "ready"]
  BY SettlesState
<1>2. SamePlaces
  <2>1. pc \in [Conns -> Labels]
    BY DEF TypeInv, TypeOK
  <2> QED
    BY <1>1, <2>1 DEF SamePlaces, Joined, Bound, Ending
<1> QED
  BY <1>1, <1>2, SettlesKeepShape, KeepsReg

LEMMA HeadStepReg == ASSUME TypeInv, RegOK, NEW a \in Apps, HeadStep(a) PROVE RegOK'
<1>1. UNCHANGED <<pc, my, last, reg>>
  BY HeadStepState
<1> QED
  BY <1>1, HeadsKeepShape, KeepsReg DEF SamePlaces

LEMMA JoinReg ==
  ASSUME TypeInv, RegOK, NEW c \in Conns,
         JoinRetiring(c) \/ Retired(c) \/ JoinMembers(c) \/ JoinFirst(c)
  PROVE  RegOK'
<1> USE DEF TypeInv, RegOK
<1>1. CASE JoinRetiring(c)
  <2>1. /\ pc[c] = "join" /\ pc' = [pc EXCEPT ![c] = "retired"]
        /\ my' = [my EXCEPT ![c] = refs[reg[c].ref]]
        /\ UNCHANGED <<refs, state, made, last, reg>>
    BY <1>1 DEF JoinRetiring, Found
  <2>2. reg[c].ref \in Refs
    BY <2>1 DEF SessionOK, Registered
  <2>3. FreshOK'
    BY <2>1 DEF FreshOK
  <2>4. MembersOK'
    BY <2>1 DEF MembersOK, TypeOK, Joined
  <2>5. EntriesOK'
    <3>1. \A d \in Conns : d # c => pc'[d] = pc[d] /\ my'[d] = my[d]
      BY <2>1 DEF TypeOK
    <3>2. my'[c] = refs[reg[c].ref] /\ refs[reg[c].ref] # 0
      BY <1>1, <2>1 DEF JoinRetiring, Found, TypeOK
    <3> QED
      BY <2>1, <2>2, <3>1, <3>2 DEF EntriesOK
  <2>6. RetiringOK'
    BY <2>1 DEF RetiringOK, TypeOK, Ending
  <2>7. EmptyOK'
    BY <2>1 DEF EmptyOK, TypeOK, Ender, Ending
  <2> QED
    BY <2>3, <2>4, <2>5, <2>6, <2>7
<1>2. CASE Retired(c)
  <2>1. /\ pc[c] = "retired" /\ pc' = [pc EXCEPT ![c] = "join"]
        /\ my' = [my EXCEPT ![c] = 0]
        /\ UNCHANGED <<refs, state, made, last, reg>>
    BY <1>2 DEF Retired
  <2>2. FreshOK'
    BY <2>1 DEF FreshOK
  <2>3. MembersOK'
    BY <2>1 DEF MembersOK, TypeOK, Joined
  <2>4. EntriesOK'
    BY <2>1 DEF EntriesOK, TypeOK, Bound, Joined
  <2>5. RetiringOK'
    BY <2>1 DEF RetiringOK, TypeOK, Ending
  <2>6. EmptyOK'
    BY <2>1 DEF EmptyOK, TypeOK, Ender, Ending
  <2> QED
    BY <2>2, <2>3, <2>4, <2>5, <2>6
<1>3. CASE JoinMembers(c)
  <2> DEFINE i == refs[reg[c].ref]
  <2>1. /\ pc[c] = "join" /\ pc' = [pc EXCEPT ![c] = "ready"]
        /\ i # 0 /\ ~state[i].retiring
        /\ my' = [my EXCEPT ![c] = i]
        /\ state' = [state EXCEPT ![i].members = @ \cup {c}]
        /\ UNCHANGED <<refs, made, last, reg>>
    BY <1>3 DEF JoinMembers, Found
  <2>2. /\ reg[c].ref \in Refs /\ i \in StateIds /\ i \in 1..made
        /\ state \in [StateIds -> RefState] /\ state[i] \in RefState
    <3>1. reg[c].ref \in Refs /\ state \in [StateIds -> RefState] /\ made \in 0..MaxStates
      BY <2>1 DEF SessionOK, Registered, TypeOK
    <3>2. i \in 0..made
      BY <3>1 DEF RegistryOK
    <3>3. i \in StateIds /\ i \in 1..made
      BY <2>1, <3>1, <3>2 DEF StateIds
    <3> QED
      BY <3>1, <3>3
  <2>3. /\ \A j \in StateIds : j # i => state'[j] = state[j]
        /\ state'[i].members = state[i].members \cup {c}
        /\ state'[i].retiring = state[i].retiring
        /\ state'[i].published = state[i].published
    <3> HIDE DEF i
    <3> QED
      BY <2>1, <2>2 DEF RefState
  <2>4. \A d \in Conns : d # c => pc'[d] = pc[d] /\ my'[d] = my[d]
    BY <2>1 DEF TypeOK
  <2>5. pc'[c] = "ready" /\ my'[c] = i
    BY <2>1 DEF TypeOK
  <2>6. \A d \in Conns : pc[d] \in Bound => my[d] \in StateIds
    BY DEF TypeOK, SessionOK, StateIds
  <2>7. FreshOK'
    <3>1. ~(i > made) /\ made' = made
      BY <2>1, <2>2 DEF TypeOK
    <3> HIDE DEF i
    <3> QED
      BY <2>3, <3>1 DEF FreshOK
  <2>8. EntriesOK'
    BY <2>1, <2>2, <2>4, <2>5 DEF EntriesOK
  <2> HIDE DEF i
  <2>9. MembersOK'
    <3>1. ASSUME NEW d \in Conns, pc'[d] \in Joined PROVE d \in state'[my'[d]].members
      <4>1. CASE d = c
        BY <2>3, <2>5, <4>1
      <4>2. CASE d # c
        <5>1. my[d] \in StateIds /\ d \in state[my[d]].members /\ my'[d] = my[d]
          BY <2>4, <2>6, <3>1, <4>2 DEF MembersOK, Bound
        <5> QED
          BY <2>3, <5>1
      <4> QED
        BY <4>1, <4>2
    <3>2. \A j \in StateIds : c \notin state[j].members
      BY <2>1 DEF MembersOK, Joined
    <3>3. \A j \in StateIds, d \in Conns :
            d \in state'[j].members => pc'[d] \in Joined /\ my'[d] = j
      BY <2>2, <2>3, <2>4, <2>5, <3>2 DEF MembersOK, Joined
    <3> QED
      BY <3>1, <3>3 DEF MembersOK
  <2>10. RetiringOK'
    <3>1. \A j \in StateIds :
            state'[j].retiring => state'[j].members = {} /\ ~state'[j].published
      BY <2>1, <2>2, <2>3 DEF RetiringOK
    <3>2. \A d \in Conns : pc'[d] \in {"release", "unlist"} => last'[d]
      BY <2>1, <2>4, <2>5 DEF RetiringOK
    <3>3. \A d \in Conns : pc'[d] \in Ending /\ last'[d] => state'[my'[d]].retiring
      BY <2>1, <2>2, <2>3, <2>4, <2>5, <2>6 DEF RetiringOK, Bound, Ending
    <3> QED
      BY <3>1, <3>2, <3>3 DEF RetiringOK
  <2>11. EmptyOK'
    <3>1. \A r \in Refs : refs[r] # 0 => refs[r] \in StateIds
      BY DEF TypeOK, StateIds
    <3>2. \A d \in Conns, j \in StateIds : Ender(d, j) => Ender(d, j)'
      BY <2>1, <2>4 DEF Ender, Ending
    <3>3. state'[i].members # {}
      BY <2>3
    <3> QED
      BY <2>1, <2>3, <3>1, <3>2, <3>3 DEF EmptyOK
  <2> QED
    BY <2>7, <2>8, <2>9, <2>10, <2>11
<1>4. CASE JoinFirst(c)
  <2> DEFINE i == made + 1
  <2>1. /\ pc[c] = "join" /\ pc' = [pc EXCEPT ![c] = "prepare"]
        /\ refs[reg[c].ref] = 0 /\ made < MaxStates /\ made' = i
        /\ refs' = [refs EXCEPT ![reg[c].ref] = i]
        /\ my' = [my EXCEPT ![c] = i]
        /\ state' = [state EXCEPT ![i] = [NewState EXCEPT !.members = {c}]]
        /\ UNCHANGED <<last, reg>>
    BY <1>4 DEF JoinFirst, Found
  <2>2. /\ reg[c].ref \in Refs /\ i \in StateIds /\ made \in Nat
        /\ state \in [StateIds -> RefState]
    BY <2>1 DEF SessionOK, Registered, TypeOK, StateIds
  <2>3. /\ \A j \in StateIds : j # i => state'[j] = state[j]
        /\ state'[i].members = {c}
        /\ ~state'[i].retiring
    <3> HIDE DEF i
    <3> QED
      BY <2>1, <2>2 DEF NewState
  <2>4. FreshOK'
    BY <2>1, <2>2, <2>3 DEF FreshOK, StateIds
  <2>5. \A d \in Conns : d # c => pc'[d] = pc[d] /\ my'[d] = my[d]
    BY <2>1 DEF TypeOK
  <2>6. pc'[c] = "prepare" /\ my'[c] = i
    BY <2>1 DEF TypeOK
  <2>7. \A d \in Conns : pc[d] \in Bound => my[d] \in StateIds /\ my[d] # i
    BY <2>2 DEF TypeOK, SessionOK, StateIds
  <2>8. /\ \A r \in Refs : r # reg[c].ref => refs'[r] = refs[r] /\ refs[r] # i
        /\ refs'[reg[c].ref] = i
    BY <2>1, <2>2 DEF TypeOK, RegistryOK
  <2> HIDE DEF i
  <2>9. MembersOK'
    <3>1. \A d \in Conns : pc'[d] \in Joined => d \in state'[my'[d]].members
      BY <2>2, <2>3, <2>5, <2>6, <2>7 DEF MembersOK, Bound
    <3>2. \A j \in StateIds : c \notin state[j].members
      BY <2>1 DEF MembersOK, Joined
    <3>3. \A j \in StateIds, d \in Conns :
            d \in state'[j].members => pc'[d] \in Joined /\ my'[d] = j
      BY <2>2, <2>3, <2>5, <2>6, <3>2 DEF MembersOK, Joined
    <3> QED
      BY <3>1, <3>3 DEF MembersOK
  <2>10. EntriesOK'
    <3>1. \A r, s \in Refs : refs'[r] # 0 /\ refs'[r] = refs'[s] => r = s
      BY <2>8 DEF EntriesOK
    <3>2. \A d \in Conns, r \in Refs : pc'[d] \in Bound /\ refs'[r] = my'[d] => reg'[d].ref = r
      BY <2>1, <2>5, <2>6, <2>7, <2>8 DEF EntriesOK
    <3> QED
      BY <3>1, <3>2 DEF EntriesOK
  <2>11. RetiringOK'
    BY <2>1, <2>2, <2>3, <2>5, <2>6, <2>7 DEF RetiringOK, Ending, Bound
  <2>12. EmptyOK'
    <3>1. \A r \in Refs : refs[r] # 0 => refs[r] \in StateIds
      BY DEF TypeOK, StateIds
    <3>2. \A d \in Conns, j \in StateIds : Ender(d, j) => Ender(d, j)'
      BY <2>1, <2>5 DEF Ender, Ending
    <3> QED
      BY <2>3, <2>8, <3>1, <3>2 DEF EmptyOK
  <2> QED
    BY <2>4, <2>9, <2>10, <2>11, <2>12
<1> QED
  BY <1>1, <1>2, <1>3, <1>4

\* A subscriber leaves; the last one hands the ref back.
LEMMA LeaveReg == ASSUME TypeInv, RegOK, NEW c \in Conns, Leave(c) PROVE RegOK'
<1> USE DEF TypeInv, RegOK
<1> DEFINE i == my[c]
<1>1. /\ pc[c] = "leave" /\ pc' = [pc EXCEPT ![c] = "unsubscribed"]
      /\ state' = [state EXCEPT ![i].members = @ \ {c}, ![i].retiring = @ \/ Ends(c)]
      /\ last' = [last EXCEPT ![c] = Ends(c)]
      /\ UNCHANGED <<refs, made, my, reg>>
  BY DEF Leave
<1>2. /\ i \in StateIds /\ i \in 1..made /\ state[i] \in RefState
      /\ state \in [StateIds -> RefState]
  BY <1>1 DEF TypeOK, SessionOK, Bound, Joined, StateIds
<1>3. Ends(c) <=> ~state[i].published /\ state[i].members \subseteq {c} /\ refs[reg[c].ref] = i
  BY DEF Ends
<1>4. Ends(c) \in BOOLEAN
  BY DEF Ends
<1>5. /\ \A j \in StateIds : j # i => state'[j] = state[j]
      /\ state'[i].members = state[i].members \ {c}
      /\ state'[i].retiring = (state[i].retiring \/ Ends(c))
      /\ state'[i].published = state[i].published
  <2>1. state' = [state EXCEPT ![i] = [state[i] EXCEPT !.members = @ \ {c},
                                                      !.retiring = @ \/ Ends(c)]]
    BY <1>1, <1>2, <1>4 DEF RefState
  <2> HIDE DEF i
  <2> QED
    BY <1>2, <1>4, <2>1 DEF RefState
<1>6. \A d \in Conns : d # c => pc'[d] = pc[d] /\ last'[d] = last[d]
  BY <1>1 DEF TypeOK
<1>7. pc'[c] = "unsubscribed" /\ last'[c] = Ends(c)
  BY <1>1 DEF TypeOK
<1>8. \A d \in Conns : pc[d] \in Bound => my[d] \in StateIds
  BY DEF TypeOK, SessionOK, StateIds
<1>9. c \in state[i].members /\ ~state[i].retiring
  BY <1>1, <1>2 DEF MembersOK, RetiringOK, Joined
<1>10. FreshOK'
  <2>1. ~(i > made) /\ made' = made
    BY <1>1, <1>2 DEF TypeOK
  <2> HIDE DEF i
  <2> QED
    BY <1>5, <2>1 DEF FreshOK
<1>11. EntriesOK'
  BY <1>1, <1>6, <1>7 DEF EntriesOK, Bound, Joined
<1>12. MembersOK'
  <2>1. ASSUME NEW d \in Conns, pc'[d] \in Joined PROVE d \in state'[my'[d]].members
    <3>1. d # c
      BY <1>7, <2>1 DEF Joined
    <3>2. d \in state[my[d]].members /\ my[d] \in StateIds /\ my'[d] = my[d]
      BY <1>1, <1>6, <1>8, <2>1, <3>1 DEF MembersOK, Bound
    <3> QED
      BY <1>5, <3>1, <3>2
  <2>2. \A j \in StateIds, d \in Conns :
          d \in state'[j].members => d # c /\ d \in state[j].members
    BY <1>5, <1>2 DEF MembersOK
  <2>3. \A j \in StateIds, d \in Conns :
          d \in state'[j].members => pc'[d] \in Joined /\ my'[d] = j
    BY <1>1, <1>6, <2>2 DEF MembersOK
  <2> QED
    BY <2>1, <2>3 DEF MembersOK
<1>13. RetiringOK'
  <2>1. Ends(c) => state'[i].members = {} /\ ~state'[i].published
    BY <1>3, <1>5
  <2>2. \A j \in StateIds :
          state'[j].retiring => state'[j].members = {} /\ ~state'[j].published
    BY <1>5, <1>9, <2>1 DEF RetiringOK
  <2>3. \A d \in Conns : pc'[d] \in {"release", "unlist"} => last'[d]
    BY <1>6, <1>7 DEF RetiringOK
  <2>4. ASSUME NEW d \in Conns, pc'[d] \in Ending, last'[d] PROVE state'[my'[d]].retiring
    <3>1. CASE d = c
      BY <1>1, <1>5, <1>7, <2>4, <3>1
    <3>2. CASE d # c
      <4>1. state[my[d]].retiring /\ my[d] \in StateIds /\ my'[d] = my[d]
        BY <1>1, <1>6, <1>8, <2>4, <3>2 DEF RetiringOK, Bound, Ending
      <4> QED
        BY <1>5, <1>9, <4>1
    <3> QED
      BY <3>1, <3>2
  <2> QED
    BY <2>2, <2>3, <2>4 DEF RetiringOK
<1>14. EmptyOK'
  <2>1. \A r \in Refs : refs[r] # 0 => refs[r] \in StateIds
    BY DEF TypeOK, StateIds
  <2>2. \A d \in Conns, j \in StateIds : Ender(d, j) => Ender(d, j)'
    BY <1>1, <1>6 DEF Ender, Ending
  <2>3. ASSUME NEW r \in Refs, refs[r] = i, ~state[i].published, state'[i].members = {}
        PROVE  Ender(c, refs[r])'
    <3>1. reg[c].ref = r
      BY <1>1, <2>3 DEF EntriesOK, Bound, Joined
    <3>2. state[i].members \subseteq {c}
      BY <1>5, <2>3
    <3> QED
      BY <1>1, <1>3, <1>7, <2>3, <3>1, <3>2 DEF Ender, Ending
  <2>4. ASSUME NEW r \in Refs, refs[r] # 0, ~state'[refs[r]].published,
               state'[refs[r]].members = {}
        PROVE  \E d \in Conns : Ender(d, refs[r])'
    <3>1. CASE refs[r] = i
      <4>1. ~state[i].published /\ state'[i].members = {}
        BY <1>5, <2>4, <3>1
      <4> QED
        BY <2>3, <3>1, <4>1, <1>1
    <3>2. CASE refs[r] # i
      <4>1. state'[refs[r]] = state[refs[r]] /\ refs[r] \in StateIds
        BY <1>5, <2>1, <2>4, <3>2
      <4>2. PICK d \in Conns : Ender(d, refs[r])
        BY <2>4, <4>1 DEF EmptyOK
      <4> QED
        BY <1>1, <2>2, <4>1, <4>2
    <3> QED
      BY <3>1, <3>2
  <2> QED
    BY <1>1, <2>4 DEF EmptyOK
<1> QED
  BY <1>10, <1>11, <1>12, <1>13, <1>14

\* What the last subscriber does after that, and the end of every connection.
LEMMA EndReg ==
  ASSUME TypeInv, RegOK, NEW c \in Conns,
         Unsubscribed(c) \/ Release(c) \/ Unlist(c) \/ Close(c) \/ Dial(c)
  PROVE  RegOK'
<1> USE DEF TypeInv, RegOK
<1>1. CASE Unsubscribed(c)
  <2>1. /\ pc[c] = "unsubscribed"
        /\ \/ ~last[c] /\ pc' = [pc EXCEPT ![c] = "closing"]
           \/ last[c] /\ \E label \in {"release", "unlist"} : pc' = [pc EXCEPT ![c] = label]
        /\ UNCHANGED <<refs, state, made, my, last, reg>>
    BY <1>1 DEF Unsubscribed
  <2>2. /\ \A d \in Conns : d # c => pc'[d] = pc[d]
        /\ pc'[c] \in IF last[c] THEN {"release", "unlist"} ELSE {"closing"}
    BY <2>1 DEF TypeOK
  <2>3. FreshOK'
    BY <2>1 DEF FreshOK
  <2>4. MembersOK'
    BY <2>1, <2>2 DEF MembersOK, Joined
  <2>5. EntriesOK'
    BY <2>1, <2>2 DEF EntriesOK, Bound, Joined
  <2>6. RetiringOK'
    BY <2>1, <2>2 DEF RetiringOK, Ending
  <2>7. EmptyOK'
    <3>1. \A d \in Conns, j \in StateIds : Ender(d, j) => Ender(d, j)'
      BY <2>1, <2>2 DEF Ender, Ending
    <3>2. \A r \in Refs : refs[r] # 0 => refs[r] \in StateIds
      BY DEF TypeOK, StateIds
    <3> QED
      BY <2>1, <3>1, <3>2 DEF EmptyOK
  <2> QED
    BY <2>3, <2>4, <2>5, <2>6, <2>7
<1>2. CASE Release(c)
  <2>1. /\ pc[c] = "release" /\ pc' = [pc EXCEPT ![c] = "unlist"]
        /\ UNCHANGED <<refs, state, made, my, last, reg>>
    BY <1>2 DEF Release
  <2>2. SamePlaces
    <3>1. /\ \A d \in Conns : d # c => pc'[d] = pc[d]
          /\ pc'[c] = "unlist"
      BY <2>1 DEF TypeOK
    <3> QED
      BY <2>1, <3>1 DEF SamePlaces, Joined, Bound, Ending
  <2> QED
    BY <2>1, <2>2, KeepsReg, StateUnchanged
<1>3. CASE Unlist(c)
  <2> DEFINE i == my[c]
  <2>1. /\ pc[c] = "unlist" /\ pc' = [pc EXCEPT ![c] = "closing"]
        /\ refs' = Forget(reg[c].ref, i)
        /\ state' = [state EXCEPT ![i].retired = TRUE]
        /\ UNCHANGED <<made, my, last, reg>>
    BY <1>3 DEF Unlist
  <2>2. /\ i \in StateIds /\ i \in 1..made /\ state[i] \in RefState
        /\ state \in [StateIds -> RefState] /\ reg[c].ref \in Refs
    BY <2>1 DEF TypeOK, SessionOK, Registered, Bound, StateIds
  <2>3. SameShape
    <3>1. state' = [state EXCEPT ![i] = [state[i] EXCEPT !.retired = TRUE]]
      BY <2>1, <2>2
    <3>2. ~(i > made)
      BY <2>2 DEF TypeOK
    <3> HIDE DEF i
    <3> QED
      BY <2>2, <3>1, <3>2 DEF SameShape, RefState
  <2>4. \A r \in Refs : refs'[r] = IF r = reg[c].ref /\ refs[r] = i THEN 0 ELSE refs[r]
    BY <2>1, <2>2 DEF Forget, TypeOK
  <2>5. /\ \A d \in Conns : d # c => pc'[d] = pc[d]
        /\ pc'[c] = "closing"
    BY <2>1 DEF TypeOK
  <2>6. FreshOK' /\ \A r \in Refs : refs[r] = i => refs'[r] = 0
    BY <2>1, <2>2, <2>3, <2>4 DEF FreshOK, SameShape, EntriesOK, Bound
  <2>7. MembersOK'
    <3>1. \A d \in Conns : pc[d] \in Bound => my[d] \in StateIds
      BY DEF TypeOK, SessionOK, StateIds
    <3> QED
      BY <2>1, <2>3, <2>5, <3>1 DEF MembersOK, SameShape, Joined, Bound
  <2>8. EntriesOK'
    <3>1. \A d \in Conns : pc[d] \in Bound => my[d] # 0
      BY DEF TypeOK, SessionOK
    <3>2. \A r \in Refs : refs'[r] # 0 => refs'[r] = refs[r]
      BY <2>4
    <3>3. \A d \in Conns : pc'[d] \in Bound => pc[d] \in Bound
      BY <2>1, <2>5 DEF Bound
    <3> QED
      BY <2>1, <3>1, <3>2, <3>3 DEF EntriesOK
  <2>9. RetiringOK'
    <3>1. \A d \in Conns : pc[d] \in Bound => my[d] \in StateIds
      BY DEF TypeOK, SessionOK, StateIds
    <3> QED
      BY <2>1, <2>3, <2>5, <3>1 DEF RetiringOK, SameShape, Ending, Bound
  <2>10. EmptyOK'
    <3>1. \A d \in Conns, j \in StateIds : j # i /\ Ender(d, j) => Ender(d, j)'
      BY <2>1, <2>5 DEF Ender, Ending
    <3>2. \A r \in Refs : refs[r] # 0 => refs[r] \in StateIds
      BY DEF TypeOK, StateIds
    <3> HIDE DEF i
    <3> QED
      BY <2>3, <2>4, <2>6, <3>1, <3>2 DEF EmptyOK, SameShape
  <2> QED
    BY <2>6, <2>7, <2>8, <2>9, <2>10
<1>4. CASE Close(c)
  <2>1. /\ pc[c] = "shutting" /\ pc' = [pc EXCEPT ![c] = "done"]
        /\ my' = [my EXCEPT ![c] = 0]
        /\ last' = [last EXCEPT ![c] = FALSE]
        /\ UNCHANGED <<refs, state, made, reg>>
    BY <1>4 DEF Close
  <2>2. /\ \A d \in Conns : d # c => pc'[d] = pc[d] /\ my'[d] = my[d] /\ last'[d] = last[d]
        /\ pc'[c] = "done"
    BY <2>1 DEF TypeOK
  <2>3. FreshOK'
    BY <2>1 DEF FreshOK
  <2>4. MembersOK'
    BY <2>1, <2>2 DEF MembersOK, Joined
  <2>5. EntriesOK'
    BY <2>1, <2>2 DEF EntriesOK, Bound, Joined
  <2>6. RetiringOK'
    BY <2>1, <2>2 DEF RetiringOK, Ending
  <2>7. EmptyOK'
    <3>1. \A d \in Conns, j \in StateIds : Ender(d, j) => Ender(d, j)'
      BY <2>1, <2>2 DEF Ender, Ending
    <3>2. \A r \in Refs : refs[r] # 0 => refs[r] \in StateIds
      BY DEF TypeOK, StateIds
    <3> QED
      BY <2>1, <3>1, <3>2 DEF EmptyOK
  <2> QED
    BY <2>3, <2>4, <2>5, <2>6, <2>7
<1>5. CASE Dial(c)
  <2>1. /\ pc[c] = "idle" /\ pc' = [pc EXCEPT ![c] = "dialled"]
        /\ \E r \in Registrations : reg' = [reg EXCEPT ![c] = r]
        /\ UNCHANGED <<refs, state, made, my, last>>
    BY <1>5 DEF Dial
  <2>2. /\ \A d \in Conns : d # c => pc'[d] = pc[d] /\ reg'[d] = reg[d]
        /\ pc'[c] = "dialled"
    BY <2>1 DEF TypeOK
  <2>3. FreshOK'
    BY <2>1 DEF FreshOK
  <2>4. MembersOK'
    BY <2>1, <2>2 DEF MembersOK, Joined
  <2>5. EntriesOK'
    BY <2>1, <2>2 DEF EntriesOK, Bound, Joined
  <2>6. RetiringOK'
    BY <2>1, <2>2 DEF RetiringOK, Ending
  <2>7. EmptyOK'
    <3>1. \A d \in Conns, j \in StateIds : Ender(d, j) => Ender(d, j)'
      BY <2>1, <2>2 DEF Ender, Ending
    <3>2. \A r \in Refs : refs[r] # 0 => refs[r] \in StateIds
      BY DEF TypeOK, StateIds
    <3> QED
      BY <2>1, <3>1, <3>2 DEF EmptyOK
  <2> QED
    BY <2>3, <2>4, <2>5, <2>6, <2>7
<1> QED
  BY <1>1, <1>2, <1>3, <1>4, <1>5

\* What the application does to the entries.
LEMMA EntryReg ==
  ASSUME TypeInv, RegOK, NEW a \in Apps, PublishInsert(a) \/ Unpublish(a)
  PROVE  RegOK'
<1> USE DEF TypeInv
<1>1. CASE PublishInsert(a)
  <2> DEFINE i == made + 1
  <2>1. PICK ref \in Refs : refs[ref] = 0 /\ refs' = [refs EXCEPT ![ref] = i]
    BY <1>1 DEF PublishInsert, Found
  <2>2. /\ made < MaxStates /\ made' = i
        /\ state' = [state EXCEPT ![i] = [NewState EXCEPT !.published = TRUE,
                                            !.prepared = TRUE, !.store = appStore]]
        /\ UNCHANGED <<pc, my, last, reg>>
    BY <1>1 DEF PublishInsert
  <2>3. /\ i \in StateIds /\ made \in Nat /\ state \in [StateIds -> RefState]
        /\ refs \in [Refs -> 0..MaxStates]
    BY <2>2 DEF TypeOK, StateIds
  <2>4. /\ \A j \in StateIds : j # i => state'[j] = state[j]
        /\ state'[i].members = {}
        /\ ~state'[i].retiring
        /\ state'[i].published
    <3> HIDE DEF i
    <3> QED
      BY <2>2, <2>3 DEF NewState
  <2>5. state[i].members = {} /\ \A j \in StateIds : j > made' => j # i /\ j > made
    BY <2>2, <2>3 DEF RegOK, FreshOK, NewState, StateIds
  <2>6. \A d \in Conns : pc[d] \in Bound => my[d] \in StateIds /\ my[d] # i
    BY <2>3 DEF TypeOK, SessionOK, StateIds
  <2>7. /\ \A r \in Refs : r # ref => refs'[r] = refs[r] /\ refs[r] # i
        /\ refs'[ref] = i
    BY <2>1, <2>3 DEF RegistryOK
  <2> HIDE DEF i
  <2> USE DEF RegOK
  <2>8. FreshOK'
    BY <2>2, <2>4, <2>5 DEF FreshOK
  <2>9. MembersOK'
    BY <2>2, <2>4, <2>5, <2>6 DEF MembersOK, Bound
  <2>10. EntriesOK'
    BY <2>2, <2>6, <2>7 DEF EntriesOK
  <2>11. RetiringOK'
    BY <2>2, <2>4, <2>6 DEF RetiringOK, Ending, Bound
  <2>12. EmptyOK'
    <3>1. \A r \in Refs : refs[r] # 0 => refs[r] \in StateIds
      BY DEF TypeOK, StateIds
    <3>2. \A d \in Conns, j \in StateIds : Ender(d, j) => Ender(d, j)'
      BY <2>2 DEF Ender
    <3> QED
      BY <2>4, <2>7, <3>1, <3>2 DEF EmptyOK
  <2> QED
    BY <2>8, <2>9, <2>10, <2>11, <2>12
<1>2. CASE Unpublish(a)
  <2>1. PICK ref \in PublishedRefs : refs' = [refs EXCEPT ![ref] = 0]
    BY <1>2 DEF Unpublish
  <2>2. UNCHANGED <<state, made, pc, my, last, reg>>
    BY <1>2 DEF Unpublish
  <2>3. \A r \in Refs : refs'[r] \in {0, refs[r]}
    BY <2>1 DEF PublishedRefs, TypeOK
  <2> QED
    BY <2>2, <2>3, KeepsReg, StateUnchanged DEF SamePlaces
<1> QED
  BY <1>1, <1>2

LEMMA StepReg == TypeInv /\ RegOK /\ [Next]_vars => RegOK'
<1> SUFFICES ASSUME TypeInv, RegOK, [Next]_vars PROVE RegOK'
  OBVIOUS
<1>1. CASE UNCHANGED regVars
  <2>1. UNCHANGED <<refs, state, made, pc, my, last, reg>>
    BY <1>1 DEF regVars
  <2> QED
    BY <2>1, KeepsReg, StateUnchanged DEF SamePlaces
<1> QED
  BY <1>1, RegistryStep, WalkReg, SettlesReg, HeadStepReg, JoinReg, LeaveReg, EndReg, EntryReg

\* Who is on an entry of the registry, whose entry it is, and who will take it
\* out: the invariant on which the two theorems below rest (connect, disconnect).
THEOREM RegistryKept == Spec => [](TypeInv /\ RegOK)
<1>1. Init => TypeInv /\ RegOK
  BY InitTypeInv, InitReg
<1>2. TypeInv /\ RegOK /\ [Next]_vars => (TypeInv /\ RegOK)'
  BY StepTypeInv, StepReg
<1> QED
  BY <1>1, <1>2, PTL DEF Spec

\* A ref that the server holds through the provider always has a subscriber
\* who will leave it one day, or one who is handing it back (disconnect).
THEOREM HeldRefsAreReleased == Spec => []SomebodyReleases
<1>1. TypeInv /\ RegOK => SomebodyReleases
  <2> USE DEF TypeInv, RegOK
  <2> SUFFICES ASSUME TypeInv, RegOK, NEW ref \in Refs, refs[ref] # 0, ~state[refs[ref]].published
               PROVE  \/ \E c \in state[refs[ref]].members :
                           my[c] = refs[ref] /\ reg[c].ref = ref /\ pc[c] \in Joined
                      \/ \E c \in Conns : my[c] = refs[ref] /\ last[c]
                           /\ pc[c] \in {"unsubscribed", "release", "unlist"}
    BY DEF SomebodyReleases
  <2> DEFINE i == refs[ref]
  <2>1. i \in StateIds /\ state[i].members \in SUBSET Conns
    BY DEF TypeOK, StateIds, RefState
  <2>2. CASE state[i].members = {}
    BY <2>2 DEF EmptyOK, Ender, Ending
  <2>3. CASE state[i].members # {}
    <3>1. PICK c \in state[i].members : c \in Conns
      BY <2>1, <2>3
    <3>2. pc[c] \in Joined /\ my[c] = i
      BY <2>1, <3>1 DEF MembersOK
    <3>3. reg[c].ref = ref
      BY <3>1, <3>2 DEF EntriesOK, Bound
    <3> QED
      BY <3>1, <3>2, <3>3
  <2> QED
    BY <2>2, <2>3
<1> QED
  BY <1>1, RegistryKept, PTL
=============================================================================
