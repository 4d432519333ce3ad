---------------------------- MODULE ServerStores ----------------------------
(***************************************************************************)
(* What the server records of its clients and what its stores hold, for    *)
(* every number of refs, connections and calls: only what a client has     *)
(* acknowledged is taken for granted; until the first sweep every push can *)
(* be selected from its store; and when the application makes its calls    *)
(* one after the other a published ref is served from a store that holds   *)
(* its head, sweeps included.                                              *)
(***************************************************************************)
EXTENDS ServerContracts

USE VoidAssumption, ServerAssumption
    DEF registry, entries, running, stores, session, sync, signals, life, wires, ends,
        outside, calls, client, Goto, Continue, Unlocked

-----------------------------------------------------------------------------
(* Every acknowledgement on its way to the server, in the channel or just  *)
(* compared is of a tree the client has; so is what the server records.    *)

AcksOK ==
  \A c \in Conns :
    /\ reg[c] # Garbage => reg[c].hash \in acked[c]
    /\ synced[c] \in acked[c] \cup {Void}
    /\ acks[c] \in acked[c] \cup {NoAck}
    /\ \A n \in DOMAIN up[c] : up[c][n] \in acked[c]
    /\ pc[c] = "record" => owed[c].head.hash \in acked[c]
    /\ pc[c] \in {"idle", "done"} => synced[c] = Void
    /\ pc[c] = "idle" => /\ acks[c] = NoAck
                         /\ up[c] = <<>>
                         /\ ~clientOpen[c]
                         /\ reader[c] = "off"

AcksInv == TypeInv /\ AcksOK

LEMMA InitAcks == Init => AcksOK
BY DEF Init, AcksOK

\* The variables it is about, and that a step that leaves them alone keeps it.
ackVars == <<reg, synced, acks, up, owed, pc, clientOpen, reader, acked>>

LEMMA OthersAcks == AcksOK /\ UNCHANGED ackVars => AcksOK'
BY DEF AcksOK, ackVars

LEMMA BeginsLeaves == ASSUME NEW a \in Apps, Begins(a) PROVE UNCHANGED ackVars
<1>1. CASE SetHeadFind(a)
  BY <1>1 DEF SetHeadFind, ackVars
<1>2. CASE PublishInsert(a)
  BY <1>2 DEF PublishInsert, ackVars
<1>3. CASE Unpublish(a)
  BY <1>3 DEF Unpublish, ackVars
<1>4. CASE SweepCheck(a)
  BY <1>4 DEF SweepCheck, ackVars
<1>5. CASE Stop(a)
  BY <1>5 DEF Stop, ackVars
<1> QED
  BY <1>1, <1>2, <1>3, <1>4, <1>5 DEF Begins

LEMMA ContinuesLeaves ==
  ASSUME NEW a \in Apps,
         \/ SetHeadMove(a) \/ SetHeadWake(a) \/ PublishMove(a) \/ SweepInstall(a)
         \/ SweepKeeps(a) \/ SweepDrops(a) \/ StopListener(a)
  PROVE  UNCHANGED ackVars
<1>1. CASE SetHeadMove(a)
  BY <1>1 DEF SetHeadMove, ackVars
<1>2. CASE SetHeadWake(a)
  BY <1>2 DEF SetHeadWake, ackVars
<1>3. CASE PublishMove(a)
  BY <1>3 DEF PublishMove, ackVars
<1>4. CASE SweepInstall(a)
  BY <1>4 DEF SweepInstall, ackVars
<1>5. CASE SweepKeeps(a)
  BY <1>5 DEF SweepKeeps, ackVars
<1>6. CASE SweepDrops(a)
  BY <1>6 DEF SweepDrops, ackVars
<1>7. CASE StopListener(a)
  BY <1>7 DEF StopListener, ackVars
<1> QED
  BY <1>1, <1>2, <1>3, <1>4, <1>5, <1>6, <1>7

LEMMA StepAcks == AcksInv /\ [Next]_vars => AcksOK'
<1> SUFFICES ASSUME AcksInv, [Next]_vars PROVE AcksOK'
  OBVIOUS
<1> USE DEF AcksInv, TypeInv
<1>1. CASE UNCHANGED vars
  <2>1. UNCHANGED ackVars
    BY <1>1 DEF vars, ackVars
  <2> QED
    BY <2>1, OthersAcks
<1>2. ASSUME NEW c \in Conns, Serves(c) PROVE AcksOK'
  <2>1. CASE Register(c)
    BY <2>1 DEF Register, AcksOK, TypeOK
  <2>2. CASE Ready(c)
    BY <2>2 DEF Ready, AcksOK, TypeOK, Baseline
  <2>3. CASE TakeAck(c)
    BY <2>3 DEF TakeAck, AcksOK, TypeOK
  <2>4. CASE Record(c)
    BY <2>4 DEF Record, AcksOK, TypeOK
  <2>5. CASE Close(c)
    BY <2>5 DEF Close, CloseAll, AcksOK, TypeOK
  <2>6. CASE Current(c)
    BY <2>6 DEF Current, AcksOK, TypeOK
  <2>7. CASE \/ Accept(c) \/ Handle(c) \/ RegisterFails(c) \/ JoinRetiring(c)
             \/ Retired(c) \/ JoinMembers(c) \/ JoinFirst(c) \/ JoinRefused(c)
    BY <2>7 DEF Accept, Handle, RegisterFails, JoinRetiring, Retired, JoinMembers,
                JoinFirst, JoinRefused, AcksOK, TypeOK
  <2>8. CASE Prepared(c) \/ PrepareFails(c) \/ ReadyRefused(c)
    <3>1. /\ pc[c] \in {"prepare", "ready"}
          /\ \E label \in {"ready", "leave"} : pc' = [pc EXCEPT ![c] = label]
          /\ UNCHANGED <<sync, signals, wires, client>>
      BY <2>8 DEF Prepared, PrepareFails, ReadyRefused
    <3> QED
      BY <3>1 DEF AcksOK, TypeOK
  <2>9. CASE Announce(c) \/ Push(c) \/ PushFails(c) \/ Report(c)
    BY <2>9 DEF Announce, Push, PushFails, Report, AcksOK, TypeOK
  <2>10. CASE \/ Woken(c) \/ Lost(c) \/ Leave(c) \/ Unsubscribed(c) \/ Release(c)
              \/ Unlist(c)
    BY <2>10 DEF Woken, Lost, Leave, Unsubscribed, Release, Unlist, AcksOK, TypeOK
  <2>11. CASE Refuse(c) \/ Delist(c)
    BY <2>11 DEF Refuse, Delist, AcksOK, TypeOK
  <2> QED
    BY <1>2, <2>1, <2>2, <2>3, <2>4, <2>5, <2>6, <2>7, <2>8, <2>9, <2>10, <2>11
    DEF Serves
<1>3. ASSUME NEW c \in Conns, Reads(c) PROVE AcksOK'
  <2>1. CASE ReadAck(c)
    BY <2>1 DEF ReadAck, AcksOK, TypeOK
  <2>2. CASE ReadFails(c)
    BY <2>2 DEF ReadFails, AcksOK
  <2> QED
    BY <1>3, <2>1, <2>2 DEF Reads
<1>4. ASSUME NEW c \in Conns, Clients(c) PROVE AcksOK'
  <2>1. CASE Dial(c)
    <3>1. PICK r \in Registrations :
            /\ reg' = [reg EXCEPT ![c] = r]
            /\ acked' = [acked EXCEPT ![c] = IF r = Garbage THEN {} ELSE {r.hash}]
      BY <2>1 DEF Dial
    <3>2. /\ pc[c] = "idle" /\ pc' = [pc EXCEPT ![c] = "dialled"]
          /\ clientOpen' = [clientOpen EXCEPT ![c] = TRUE]
          /\ UNCHANGED <<synced, acks, up, owed, reader>>
      BY <2>1 DEF Dial
    <3> QED
      BY <3>1, <3>2 DEF AcksOK, TypeOK
  <2>2. CASE Interpret(c)
    <3> DEFINE tree == Head(down[c]).head.hash
    <3>1. /\ clientOpen[c]
          /\ acked' = [acked EXCEPT ![c] = @ \cup {tree}]
          /\ up' = [up EXCEPT ![c] = IF serverOpen[c] THEN Append(@, tree) ELSE @]
          /\ UNCHANGED <<reg, synced, acks, owed, pc, clientOpen, reader>>
      BY <2>2 DEF Interpret
    <3>2. tree \in Trees
      <4>1. down[c] \in Seq(Message) /\ down[c] # <<>>
        BY <2>2 DEF Interpret, TypeOK
      <4>2. Head(down[c]) \in Message
        BY <4>1
      <4> QED
        BY <4>2 DEF Message, AnyHead
    <3>3. \A d \in Conns : /\ acked[d] \subseteq acked'[d]
                           /\ \A n \in DOMAIN up'[d] : up'[d][n] \in acked'[d]
      <4> HIDE DEF tree
      <4>1. \A n \in DOMAIN Append(up[c], tree) :
              Append(up[c], tree)[n] \in acked[c] \cup {tree}
        BY <3>2 DEF AcksOK, TypeOK
      <4> QED
        BY <3>1, <4>1 DEF AcksOK, TypeOK
    <3> HIDE DEF tree
    <3> QED
      BY <3>1, <3>3 DEF AcksOK, TypeOK
  <2>3. CASE HangUp(c)
    BY <2>3 DEF HangUp, AcksOK
  <2> QED
    BY <1>4, <2>1, <2>2, <2>3 DEF Clients
<1>5. ASSUME NEW a \in Apps, Begins(a) PROVE AcksOK'
  BY <1>5, BeginsLeaves, OthersAcks
<1>6. ASSUME NEW a \in Apps, Continues(a) PROVE AcksOK'
  <2>1. CASE CloseOne(a)
    <3>1. /\ \A c \in Conns : up'[c] \in {up[c], <<>>}
          /\ UNCHANGED <<reg, synced, acks, owed, pc, clientOpen, reader, acked>>
      <4>1. PICK d : CloseAll({d}) /\ UNCHANGED <<reg, session, pc, clientOpen, acked>>
        BY <2>1 DEF CloseOne
      <4> QED
        BY <4>1 DEF CloseAll
    <3> QED
      BY <3>1 DEF AcksOK
  <2>2. CASE SweepResets(a)
    <3>1. /\ synced' = [synced EXCEPT ![call[a].drop] = Void]
          /\ UNCHANGED <<reg, acks, up, owed, pc, clientOpen, reader, acked>>
      BY <2>2 DEF SweepResets
    <3>2. \A d \in Conns : synced'[d] \in {synced[d], Void}
      BY <3>1 DEF TypeOK
    <3> QED
      BY <3>1, <3>2 DEF AcksOK
  <2>3. CASE \/ SetHeadMove(a) \/ SetHeadWake(a) \/ PublishMove(a) \/ SweepInstall(a)
             \/ SweepKeeps(a) \/ SweepDrops(a) \/ StopListener(a)
    BY <2>3, ContinuesLeaves, OthersAcks
  <2> QED
    BY <1>6, <2>1, <2>2, <2>3 DEF Continues
<1> QED
  BY <1>1, <1>2, <1>3, <1>4, <1>5, <1>6 DEF Next, Rest

\* On its whole way from the client to the baseline, a tree is one the client has
\* registered with or acknowledged (readAcks, awaitAck, ack).
THEOREM AcksKept == Spec => [](TypeInv /\ AcksOK)
<1>1. Init => TypeInv /\ AcksOK
  BY InitTypeInv, InitAcks
<1>2. TypeInv /\ AcksOK /\ [Next]_vars => (TypeInv /\ AcksOK)'
  BY StepTypeInv, StepAcks DEF AcksInv
<1> QED
  BY <1>1, <1>2, PTL DEF Spec

\* Whatever the server takes a client to hold, the client has registered with
\* or acknowledged: synced "never runs ahead of reality" (awaitAck).
THEOREM SyncedIsSaid == Spec => []SyncedWasSaid
<1>1. AcksOK => SyncedWasSaid
  BY DEF AcksOK, SyncedWasSaid
<1> QED
  BY <1>1, AcksKept, PTL

-----------------------------------------------------------------------------
(* One update at a time: the loop that pushes does not come round before    *)
(* the acknowledgement of the last push has.                                *)

\* Where a connection's goroutine is when it waits for no acknowledgement, nor
\* has given up waiting.
Settled ==
  {"idle", "dialled", "accepted", "register", "join", "retired", "prepare", "ready",
   "announce", "current", "push", "record", "report", "wait"}

\* Labels of a goroutine that has told its client whatever there was to tell.
Gone == {"delisting", "shutting", "done"}

\* Between a push and its acknowledgement one of three places is taken; what the
\* update was computed from is still the baseline, unless a sweep has reset that.
PipeAt(c) ==
  /\ pc[c] \in Settled => down[c] = <<>> /\ up[c] = <<>> /\ acks[c] = NoAck
  /\ \A n \in DOMAIN down[c] : down[c][n].kind = "update" =>
       /\ n = 1 /\ up[c] = <<>> /\ acks[c] = NoAck
       /\ synced[c] \in {down[c][n].since, Void}
       /\ pc[c] # "done" => down[c][n].head = owed[c].head
  /\ pc[c] \notin Gone => \A n \in DOMAIN down[c] : down[c][n].kind = "update"
  /\ acks[c] # NoAck => up[c] = <<>>
  /\ Len(up[c]) <= 1

PipeOK == \A c \in Conns : PipeAt(c)

\* A connection another one's goroutine leaves alone.
LeftAlone(c) ==
  /\ synced'[c] = synced[c] /\ owed'[c] = owed[c] /\ acks'[c] = acks[c]
  /\ up'[c] = up[c] /\ down'[c] = down[c] /\ pc'[c] = pc[c]

LEMMA AlonePipe == ASSUME NEW c \in Conns, PipeAt(c), LeftAlone(c) PROVE PipeAt(c)'
BY DEF PipeAt, LeftAlone

\* A step of a goroutine from one place to the next that touches nothing else.
LEMMA GoesPipe ==
  ASSUME NEW c \in Conns, NEW label, PipeAt(c), pc'[c] = label,
         label \in Settled => pc[c] \in Settled, pc[c] # "done", label # "done",
         label \notin Gone => pc[c] \notin Gone,
         owed'[c] = owed[c], acks'[c] = acks[c], up'[c] = up[c], down'[c] = down[c],
         synced'[c] = synced[c] \/ pc[c] \in Settled
  PROVE  PipeAt(c)'
BY DEF PipeAt

\* What a step on the connection c keeps.
Piped(c) ==
  /\ PipeAt(c)'
  /\ \A d \in Conns \ {c} : LeftAlone(d)

LEMMA ServesPipe == ASSUME TypeOK, NEW c \in Conns, Serves(c), PipeAt(c) PROVE Piped(c)
<1>0. /\ pc \in [Conns -> Labels] /\ synced \in [Conns -> Trees] /\ owed \in [Conns -> Pair]
      /\ acks \in [Conns -> Trees \cup {NoAck}] /\ up \in [Conns -> Seq(Trees)]
      /\ down \in [Conns -> Seq(Message)]
  BY DEF TypeOK
<1>1. ASSUME pc' = [pc EXCEPT ![c] = pc'[c]], pc'[c] \in Settled => pc[c] \in Settled,
             pc[c] # "done", pc'[c] # "done", pc'[c] \notin Gone => pc[c] \notin Gone,
             UNCHANGED <<synced, owed, acks, up, down>>
      PROVE  Piped(c)
  <2>1. PipeAt(c)'
    BY <1>0, <1>1, GoesPipe
  <2> QED
    BY <1>0, <1>1, <2>1 DEF LeftAlone, Piped
<1>2. ASSUME pc' = [pc EXCEPT ![c] = pc'[c]], synced' = [synced EXCEPT ![c] = synced'[c]],
             pc[c] \in Settled, pc'[c] # "done", UNCHANGED <<owed, acks, up, down>>
      PROVE  Piped(c)
  <2>1. pc[c] \notin Gone
    BY <1>2 DEF Settled, Gone
  <2>2. PipeAt(c)'
    BY <1>0, <1>2, <2>1, GoesPipe DEF Gone
  <2> QED
    BY <1>0, <1>2, <2>2 DEF LeftAlone, Piped
<1> USE DEF Gone
<1>3. CASE Accept(c) \/ Handle(c) \/ RegisterFails(c)
  BY <1>0, <1>1, <1>3 DEF Accept, Handle, RegisterFails, Settled
<1>4. CASE JoinRetiring(c) \/ Retired(c) \/ JoinMembers(c) \/ JoinFirst(c) \/ JoinRefused(c)
  BY <1>0, <1>1, <1>4 DEF JoinRetiring, Retired, JoinMembers, JoinFirst, JoinRefused, Settled
<1>5. CASE Prepared(c) \/ PrepareFails(c) \/ ReadyRefused(c)
  <2>1. /\ pc[c] \in {"prepare", "ready"}
        /\ \E label \in {"ready", "leave"} : pc' = [pc EXCEPT ![c] = label]
        /\ UNCHANGED <<sync, signals, wires>>
    BY <1>5 DEF Prepared, PrepareFails, ReadyRefused
  <2> QED
    BY <1>0, <1>1, <2>1 DEF Settled
<1>6. CASE Announce(c) \/ PushFails(c) \/ Report(c)
  BY <1>0, <1>1, <1>6 DEF Announce, PushFails, Report, Settled
<1>7. CASE Woken(c) \/ Lost(c) \/ Delist(c)
  BY <1>0, <1>1, <1>7 DEF Woken, Lost, Delist, Settled
<1>8. CASE Leave(c) \/ Release(c) \/ Unlist(c)
  BY <1>0, <1>1, <1>8 DEF Leave, Release, Unlist, Settled
<1>9. CASE Unsubscribed(c)
  <2>1. /\ pc[c] = "unsubscribed" /\ UNCHANGED <<sync, signals, wires>>
        /\ \E label \in {"closing", "release", "unlist"} : pc' = [pc EXCEPT ![c] = label]
    BY <1>9 DEF Unsubscribed
  <2> QED
    BY <1>0, <1>1, <2>1 DEF Settled
<1>10. CASE Register(c)
  BY <1>0, <1>2, <1>10 DEF Register, Settled
<1>11. CASE Ready(c)
  BY <1>0, <1>2, <1>11 DEF Ready, Settled
<1>12. CASE Record(c)
  BY <1>0, <1>2, <1>12 DEF Record, Settled
<1>13. CASE Current(c)
  <2>1. PipeAt(c)'
    BY <1>0, <1>13 DEF Current, PipeAt, Settled
  <2> QED
    BY <1>0, <1>13, <2>1 DEF Current, Piped, LeftAlone
<1>14. CASE Push(c)
  <2>1. /\ pc[c] = "push" /\ pc' = [pc EXCEPT ![c] = "ack"]
        /\ UNCHANGED <<synced, owed, acks, up>>
        /\ down' = [down EXCEPT ![c] = Append(@, Update(owed[c].head, synced[c]))] \/ down' = down
    BY <1>0, <1>14 DEF Push
  <2>2. down[c] = <<>> /\ up[c] = <<>> /\ acks[c] = NoAck
    BY <2>1 DEF PipeAt, Settled
  <2>3. down'[c] = <<Update(owed[c].head, synced[c])>> \/ down'[c] = <<>>
    BY <1>0, <2>1, <2>2
  <2>4. PipeAt(c)'
    <3>1. pc'[c] = "ack"
      BY <1>0, <2>1
    <3> QED
      BY <2>1, <2>2, <2>3, <3>1 DEF PipeAt, Settled, Update
  <2>5. \A d \in Conns \ {c} : LeftAlone(d)
    BY <1>0, <2>1 DEF LeftAlone
  <2> QED
    BY <2>4, <2>5 DEF Piped
<1>15. CASE TakeAck(c)
  <2>1. /\ pc[c] = "ack" /\ acks[c] # NoAck
        /\ acks' = [acks EXCEPT ![c] = NoAck]
        /\ \E label \in {"ack", "report", "record"} : pc' = [pc EXCEPT ![c] = label]
        /\ UNCHANGED <<synced, owed, up, down>>
    BY <1>15 DEF TakeAck
  <2>2. up[c] = <<>> /\ down[c] = <<>>
    <3>1. \A n \in DOMAIN down[c] : FALSE
      BY <2>1 DEF PipeAt
    <3> QED
      BY <1>0, <2>1, <3>1 DEF PipeAt
  <2>3. PipeAt(c)'
    BY <1>0, <2>1, <2>2 DEF PipeAt
  <2> QED
    BY <1>0, <2>1, <2>3 DEF Piped, LeftAlone
<1>16. CASE Refuse(c)
  <2>1. /\ pc' = [pc EXCEPT ![c] = "delisting"] /\ pc[c] = "closing"
        /\ UNCHANGED <<synced, owed, acks, up>>
        /\ down' = [down EXCEPT ![c] = Append(@, ErrorMessage)] \/ down' = down
    BY <1>0, <1>16 DEF Refuse
  <2>2. /\ pc'[c] = "delisting" /\ \A d \in Conns \ {c} : pc'[d] = pc[d] /\ down'[d] = down[d]
        /\ down'[c] = Append(down[c], ErrorMessage) \/ down'[c] = down[c]
    BY <1>0, <2>1
  <2>3. ASSUME NEW n \in DOMAIN down'[c], down'[c][n].kind = "update"
        PROVE  n \in DOMAIN down[c] /\ down'[c][n] = down[c][n]
    <3>1. CASE down'[c] = down[c]
      BY <2>3, <3>1
    <3>2. CASE down'[c] = Append(down[c], ErrorMessage)
      <4>1. ErrorMessage.kind # "update"
        BY DEF ErrorMessage
      <4> QED
        BY <1>0, <2>3, <3>2, <4>1
    <3> QED
      BY <2>2, <3>1, <3>2
  <2>4. PipeAt(c)'
    BY <2>1, <2>2, <2>3 DEF PipeAt, Settled
  <2> QED
    BY <2>1, <2>2, <2>4 DEF Piped, LeftAlone
<1>17. CASE Close(c)
  <2>1. /\ pc' = [pc EXCEPT ![c] = "done"] /\ pc[c] = "shutting"
        /\ synced' = [synced EXCEPT ![c] = Void]
        /\ owed' = [owed EXCEPT ![c] = NoPair]
        /\ acks' = [acks EXCEPT ![c] = NoAck]
        /\ CloseAll({c})
        /\ down' = down
    BY <1>0, <1>17 DEF Close
  <2>2. up'[c] = <<>> /\ \A d \in Conns \ {c} : up'[d] = up[d]
    BY <1>0, <2>1 DEF CloseAll
  <2>3. synced'[c] = Void /\ acks'[c] = NoAck /\ pc'[c] = "done"
    BY <1>0, <2>1
  <2>4. PipeAt(c)'
    BY <2>1, <2>2, <2>3 DEF PipeAt, Settled
  <2> QED
    BY <1>0, <2>1, <2>2, <2>4 DEF Piped, LeftAlone
<1> QED
  BY <1>3, <1>4, <1>5, <1>6, <1>7, <1>8, <1>9, <1>10, <1>11, <1>12, <1>13, <1>14, <1>15,
     <1>16, <1>17 DEF Serves

LEMMA ReadsPipe ==
  ASSUME TypeOK, NEW c \in Conns, Reads(c) \/ Clients(c), PipeAt(c)
  PROVE  Piped(c)
<1>0. /\ pc \in [Conns -> Labels] /\ acks \in [Conns -> Trees \cup {NoAck}]
      /\ up \in [Conns -> Seq(Trees)] /\ down \in [Conns -> Seq(Message)]
  BY DEF TypeOK
<1>1. CASE ReadAck(c)
  <2>1. /\ up[c] # <<>> /\ up' = [up EXCEPT ![c] = Tail(@)]
        /\ acks' = [acks EXCEPT ![c] = IF @ = NoAck THEN Head(up[c]) ELSE @]
        /\ UNCHANGED <<pc, synced, owed, down>>
    BY <1>1 DEF ReadAck
  <2>2. up'[c] = <<>>
    BY <1>0, <2>1 DEF PipeAt
  <2>3. PipeAt(c)'
    BY <2>1, <2>2 DEF PipeAt
  <2> QED
    BY <1>0, <2>1, <2>3 DEF LeftAlone, Piped
<1>2. CASE ReadFails(c)
  BY <1>2 DEF ReadFails, PipeAt, LeftAlone, Piped
<1>3. CASE Dial(c)
  <2>1. /\ pc[c] = "idle" /\ pc' = [pc EXCEPT ![c] = "dialled"]
        /\ UNCHANGED <<acks, up, synced, owed, down>>
    BY <1>3 DEF Dial
  <2> QED
    BY <1>0, <2>1 DEF PipeAt, LeftAlone, Piped, Settled
<1>4. CASE Interpret(c)
  <2> DEFINE tree == Head(down[c]).head.hash
  <2>1. /\ down[c] # <<>> /\ Head(down[c]).kind = "update"
        /\ down' = [down EXCEPT ![c] = Tail(@)]
        /\ up' = [up EXCEPT ![c] = IF serverOpen[c] THEN Append(@, tree) ELSE @]
        /\ UNCHANGED <<pc, synced, owed, acks>>
    BY <1>4 DEF Interpret
  <2>2. down[c][1].kind = "update" /\ 1 \in DOMAIN down[c]
    BY <1>0, <2>1
  <2>3. up[c] = <<>> /\ acks[c] = NoAck /\ pc[c] \notin Settled
    BY <2>1, <2>2 DEF PipeAt
  <2> HIDE DEF tree
  <2>4. up'[c] \in {<<>>, <<tree>>}
    BY <1>0, <2>1, <2>3
  <2>5. \A n \in DOMAIN Tail(down[c]) : n + 1 \in DOMAIN down[c]
                                        /\ Tail(down[c])[n] = down[c][n + 1] /\ n + 1 # 1
    BY <1>0, <2>1
  <2>6. ASSUME NEW n \in DOMAIN down'[c] PROVE down'[c][n].kind # "update" /\ pc[c] \in Gone
    BY <1>0, <2>1, <2>5, <2>6 DEF PipeAt
  <2>7. Len(up'[c]) <= 1
    <3>1. Len(<<tree>>) = 1 /\ Len(<<>>) = 0
      OBVIOUS
    <3>2. CASE up'[c] = <<>>
      BY <3>1, <3>2
    <3>3. CASE up'[c] = <<tree>>
      BY <3>1, <3>3
    <3> QED
      BY <2>4, <3>2, <3>3
  <2>8. PipeAt(c)'
    BY <2>1, <2>3, <2>6, <2>7 DEF PipeAt
  <2> QED
    BY <1>0, <2>1, <2>8 DEF LeftAlone, Piped
<1>5. CASE HangUp(c)
  <2>1. down' = [down EXCEPT ![c] = <<>>] /\ UNCHANGED <<pc, synced, owed, acks, up>>
    BY <1>5 DEF HangUp
  <2> QED
    BY <1>0, <2>1 DEF PipeAt, LeftAlone, Piped
<1> QED
  BY <1>1, <1>2, <1>3, <1>4, <1>5 DEF Reads, Clients

LEMMA StepPipe == TypeInv /\ PipeOK /\ [Next]_vars => PipeOK'
<1> SUFFICES ASSUME TypeInv, PipeOK, [Next]_vars, NEW d \in Conns PROVE PipeAt(d)'
  BY DEF PipeOK
<1>0. TypeOK /\ PipeAt(d)
  BY DEF TypeInv, PipeOK
<1>1. CASE UNCHANGED vars
  BY <1>0, <1>1 DEF vars, PipeAt
<1>2. ASSUME NEW c \in Conns, Serves(c) \/ Reads(c) \/ Clients(c) PROVE PipeAt(d)'
  <2>1. PipeAt(c)
    BY DEF PipeOK
  <2>2. PipeAt(c)' /\ \A e \in Conns \ {c} : LeftAlone(e)
    BY <1>0, <1>2, <2>1, ServesPipe, ReadsPipe DEF Piped
  <2> QED
    BY <1>0, <2>2, AlonePipe
<1>3. ASSUME NEW a \in Apps, Begins(a) PROVE PipeAt(d)'
  <2>1. UNCHANGED <<ackVars, down>>
    BY <1>3, BeginsLeaves DEF Begins, SetHeadFind, PublishInsert, Unpublish, SweepCheck, Stop
  <2> QED
    BY <1>0, <2>1 DEF ackVars, PipeAt
<1>4. ASSUME NEW a \in Apps, Continues(a) PROVE PipeAt(d)'
  <2>1. CASE CloseOne(a)
    <3>1. up'[d] \in {up[d], <<>>} /\ UNCHANGED <<pc, synced, owed, acks, down>>
      <4>1. PICK e : CloseAll({e}) /\ UNCHANGED <<session, pc, down>>
        BY <2>1 DEF CloseOne
      <4> QED
        BY <4>1 DEF CloseAll
    <3> QED
      BY <1>0, <3>1 DEF PipeAt
  <2>2. CASE SweepResets(a)
    <3>1. /\ synced' = [synced EXCEPT ![call[a].drop] = Void]
          /\ UNCHANGED <<acks, up, owed, pc, down>>
      BY <2>2 DEF SweepResets
    <3>2. synced'[d] \in {synced[d], Void}
      BY <1>0, <3>1 DEF TypeOK
    <3> QED
      BY <1>0, <3>1, <3>2 DEF PipeAt
  <2>3. CASE \/ SetHeadMove(a) \/ SetHeadWake(a) \/ PublishMove(a) \/ SweepInstall(a)
             \/ SweepKeeps(a) \/ SweepDrops(a) \/ StopListener(a)
    <3>1. UNCHANGED ackVars
      BY <2>3, ContinuesLeaves
    <3>2. UNCHANGED down
      BY <2>3 DEF SetHeadMove, SetHeadWake, PublishMove, SweepInstall, SweepKeeps, SweepDrops,
                  StopListener
    <3> QED
      BY <1>0, <3>1, <3>2 DEF ackVars, PipeAt
  <2> QED
    BY <1>4, <2>1, <2>2, <2>3 DEF Continues
<1> QED
  BY <1>1, <1>2, <1>3, <1>4 DEF Next, Rest

LEMMA InitPipe == Init => PipeOK
BY DEF Init, PipeOK, PipeAt

\* Between a push and its acknowledgement only one of the places it passes is
\* taken, and none while the loop is elsewhere (push, readAcks, awaitAck).
THEOREM PipesKept == Spec => []PipeOK
<1>1. Init => PipeOK
  BY InitPipe
<1>2. TypeInv /\ PipeOK /\ [Next]_vars => PipeOK'
  BY StepPipe
<1> QED
  BY <1>1, <1>2, TypesKept, PTL DEF Spec

\* The server is never more than one update ahead of the client's word, and the
\* channel of one acknowledgement is never too small for it (serve, readAcks).
THEOREM OneUpdateUnderWay == Spec => []OneAtATime
<1>1. PipeOK /\ TypeInv => OneAtATime
  <2> SUFFICES ASSUME PipeOK, TypeInv, NEW c \in Conns, NEW k,
                      k = Cardinality({n \in DOMAIN down[c] : down[c][n].kind = "update"})
               PROVE  k + Len(up[c]) + (IF acks[c] = NoAck THEN 0 ELSE 1) <= 1
    BY DEF OneAtATime
  <2> DEFINE updates == {n \in DOMAIN down[c] : down[c][n].kind = "update"}
  <2>1. PipeAt(c) /\ up[c] \in Seq(Trees)
    BY DEF PipeOK, TypeInv, TypeOK
  <2>2. CASE updates = {}
    <3>1. k = 0
      BY <2>2, FS_EmptySet
    <3>2. Len(up[c]) \in Nat /\ Len(up[c]) <= 1
      BY <2>1 DEF PipeAt
    <3>3. CASE acks[c] = NoAck
      BY <3>1, <3>2, <3>3
    <3>4. CASE acks[c] # NoAck
      <4>1. up[c] = <<>>
        BY <2>1, <3>4 DEF PipeAt
      <4> QED
        BY <3>1, <3>4, <4>1
    <3> QED
      BY <3>3, <3>4
  <2>3. CASE updates # {}
    <3>1. updates = {1} /\ up[c] = <<>> /\ acks[c] = NoAck
      BY <2>1, <2>3 DEF PipeAt
    <3>2. k = 1 /\ Len(up[c]) = 0
      BY <3>1, FS_Singleton
    <3> QED
      BY <3>1, <3>2
  <2> QED
    BY <2>2, <2>3
<1> QED
  BY <1>1, PipesKept, TypesKept, PTL

-----------------------------------------------------------------------------
(* Trees in stores.                                                         *)

InStore(store, hash) == hash \in holds[store] \cup {Void}

\* Nothing goes out of a store.
Grows == \A s \in Stores : holds[s] \subseteq holds'[s]

\* The application has not begun its first sweep.
Unswept == appStore = MaxStates + 1 /\ \A a \in Apps : call[a].at \notin Sweeps

\* Every store a sweep is about to put in place is a new one, and the ref it is
\* at is one it has left to do.
SweptOK ==
  /\ appStore > MaxStates
  /\ \A a \in Apps :
       /\ call[a].at \in Sweeps => call[a].store > MaxStates + 1
       /\ call[a].at \in {"members", "reset"} => call[a].ref \in call[a].refs

\* A refState that has been answered is served from its own store, or from the
\* application's if it is published.
PlacedOK ==
  \A i \in StateIds :
    /\ state[i].published => state[i].store = appStore
    /\ ~state[i].published /\ state[i].ready /\ ~state[i].err => state[i].store = i

\* Where it points is there, and so is what is about to be pointed at, ...
PointsOK ==
  /\ \A i \in StateIds : InStore(StoreOf(i), state[i].head.hash)
  /\ \A a \in Apps : call[a].at \in {"move", "publish"} =>
       InStore(StoreOf(call[a].st), call[a].head.hash)

\* ... the baseline of each subscriber, and what it has taken to push.
BaselinesOK ==
  \A c \in Conns :
    /\ pc[c] \in Serving => InStore(StoreOf(my[c]), synced[c])
    /\ pc[c] \in {"push", "ack", "record"} =>
         owed[c].store = StoreOf(my[c]) /\ InStore(StoreOf(my[c]), owed[c].head.hash)

StoresOK == Unswept => PlacedOK /\ PointsOK /\ BaselinesOK

LEMMA LoadGrows ==
  ASSUME TypeInv, NEW store \in Stores, NEW hash \in Trees, holds' = Load(store, hash)
  PROVE  Grows /\ hash \in holds'[store] \cup {Void}
<1>1. holds \in [Stores -> SUBSET Hashes]
  BY DEF TypeInv, TypeOK
<1> QED
  BY <1>1 DEF Grows, Load

LEMMA StaysInStore ==
  ASSUME Grows, NEW s \in Stores, NEW hash, InStore(s, hash)
  PROVE  hash \in holds'[s] \cup {Void}
BY DEF Grows, InStore

\* Labels at which a subscriber works with the pair it has taken.
Selecting == {"push", "ack", "record"}

\* What a step of c's goroutine does to the stores, to the baselines and to who
\* is pushing.
Feeds(c) ==
  /\ appStore' = appStore
  /\ holds' = holds \/ Prepared(c)
  /\ \A d \in Conns \ {c} : synced'[d] = synced[d] /\ pc'[d] = pc[d]
  /\ synced'[c] = synced[c] \/ Register(c) \/ Ready(c) \/ Record(c) \/ Close(c)
  /\ pc'[c] \in Selecting => pc[c] \in Selecting \/ Current(c)
  /\ pc'[c] \in Serving => pc[c] \in Serving \/ Ready(c)

LEMMA ServesFeeds ==
  ASSUME TypeInv, NEW c \in Conns, Serves(c)
  PROVE  Feeds(c)
<1>0. pc \in [Conns -> Labels] /\ synced \in [Conns -> Trees]
  BY DEF TypeInv, TypeOK
<1> USE DEF Feeds, Selecting, Serving
<1>1. CASE Accept(c)
  BY <1>0, <1>1 DEF Accept
<1>2. CASE Handle(c)
  BY <1>0, <1>2 DEF Handle
<1>3. CASE Register(c)
  BY <1>0, <1>3 DEF Register
<1>4. CASE RegisterFails(c)
  BY <1>0, <1>4 DEF RegisterFails
<1>5. CASE JoinRetiring(c)
  BY <1>0, <1>5 DEF JoinRetiring
<1>6. CASE Retired(c)
  BY <1>0, <1>6 DEF Retired
<1>7. CASE JoinMembers(c)
  BY <1>0, <1>7 DEF JoinMembers
<1>8. CASE JoinFirst(c)
  BY <1>0, <1>8 DEF JoinFirst
<1>9. CASE JoinRefused(c)
  BY <1>0, <1>9 DEF JoinRefused
<1>10. CASE Prepared(c)
  BY <1>0, <1>10 DEF Prepared
<1>11. CASE PrepareFails(c)
  BY <1>0, <1>11 DEF PrepareFails
<1>12. CASE Ready(c)
  BY <1>0, <1>12 DEF Ready
<1>13. CASE ReadyRefused(c)
  BY <1>0, <1>13 DEF ReadyRefused
<1>14. CASE Announce(c)
  BY <1>0, <1>14 DEF Announce
<1>15. CASE Current(c)
  BY <1>0, <1>15 DEF Current
<1>16. CASE Push(c)
  BY <1>0, <1>16 DEF Push
<1>17. CASE PushFails(c)
  BY <1>0, <1>17 DEF PushFails
<1>18. CASE TakeAck(c)
  BY <1>0, <1>18 DEF TakeAck
<1>19. CASE Record(c)
  BY <1>0, <1>19 DEF Record
<1>20. CASE Report(c)
  BY <1>0, <1>20 DEF Report
<1>21. CASE Woken(c)
  BY <1>0, <1>21 DEF Woken
<1>22. CASE Lost(c)
  BY <1>0, <1>22 DEF Lost
<1>23. CASE Leave(c)
  BY <1>0, <1>23 DEF Leave
<1>24. CASE Unsubscribed(c)
  BY <1>0, <1>24 DEF Unsubscribed
<1>25. CASE Release(c)
  BY <1>0, <1>25 DEF Release
<1>26. CASE Unlist(c)
  BY <1>0, <1>26 DEF Unlist
<1>27. CASE Refuse(c)
  BY <1>0, <1>27 DEF Refuse
<1>28. CASE Delist(c)
  BY <1>0, <1>28 DEF Delist
<1>29. CASE Close(c)
  BY <1>0, <1>29 DEF Close
<1> QED
  BY <1>1, <1>2, <1>3, <1>4, <1>5, <1>6, <1>7, <1>8, <1>9, <1>10, <1>11, <1>12, <1>13,
     <1>14, <1>15, <1>16, <1>17, <1>18, <1>19, <1>20, <1>21, <1>22, <1>23, <1>24, <1>25,
     <1>26, <1>27, <1>28, <1>29
     DEF Serves

LEMMA ConnsFeed ==
  ASSUME TypeInv, NEW c \in Conns, Serves(c) \/ Reads(c) \/ Clients(c)
  PROVE  Feeds(c) /\ Grows
<1>0. pc \in [Conns -> Labels] /\ synced \in [Conns -> Trees]
  BY DEF TypeInv, TypeOK
<1>1. ASSUME Reads(c) \/ Clients(c) PROVE Feeds(c) /\ holds' = holds
  <2> USE DEF Feeds, Selecting, Serving
  <2>1. CASE Reads(c)
    BY <1>0, <2>1 DEF Reads, ReadAck, ReadFails
  <2>2. CASE Dial(c)
    BY <1>0, <2>2 DEF Dial
  <2>3. CASE Interpret(c)
    BY <1>0, <2>3 DEF Interpret
  <2>4. CASE HangUp(c)
    BY <1>0, <2>4 DEF HangUp
  <2> QED
    BY <1>1, <2>1, <2>2, <2>3, <2>4 DEF Clients
<1>2. Feeds(c)
  BY <1>1, ServesFeeds
<1>3. CASE holds' = holds
  BY <1>2, <1>3 DEF Grows
<1>4. CASE Prepared(c)
  <2>1. my[c] \in StateIds /\ Settles(c)
    BY <1>4, SettlesState DEF Settles
  <2>2. my[c] \in Stores
    <3>1. MaxStates \in Nat /\ MaxStores \in Nat
      OBVIOUS
    <3> QED
      BY <2>1, <3>1 DEF Stores, StateIds
  <2>3. ASSUME NEW head \in Headings, holds' = Load(my[c], head.hash) PROVE Grows
    <3>1. head \in AnyHead
      BY <2>3
    <3>2. head.hash \in Trees
      BY <3>1 DEF AnyHead
    <3> QED
      BY <2>2, <2>3, <3>2, LoadGrows
  <2> QED
    BY <1>2, <1>3, <2>1, <2>3, SettlesState
<1> QED
  BY <1>2, <1>3, <1>4 DEF Feeds

-----------------------------------------------------------------------------
(* The sweep, from one ref to the next.                                     *)

\* Refs a sweep has yet to come to.
Left(a) == IF call[a].at = "install" THEN call[a].refs ELSE call[a].refs \ {call[a].ref}

\* The sweep goes on with these refs left, or ends and its store is put in place.
GoesOn(a, left) ==
  \/ left = {} /\ call'[a] = Idle /\ appStore' = call[a].store
  \/ /\ call'[a].at \in Sweeps /\ Left(a)' = left /\ appStore' = appStore
     /\ call'[a].store = call[a].store /\ call'[a].named = call[a].named
     /\ call'[a].at # "install" => call'[a].ref \in call'[a].refs

LEMMA SweepOnGoes ==
  ASSUME TypeInv, NEW a \in Apps, NEW remaining, SweepOn(a, remaining)
  PROVE  GoesOn(a, remaining)
<1>0. call \in [Apps -> Call]
  BY DEF TypeInv, TypeOK
<1> DEFINE next == [call[a] EXCEPT !.at = "install", !.refs = remaining, !.ref = Free,
                                   !.st = 0, !.todo = {}, !.moved = FALSE]
<1>1. /\ next.at = "install" /\ next.refs = remaining
      /\ next.named = call[a].named /\ next.store = call[a].store
  <2>1. \A k \in Call : \A rs : /\ [k EXCEPT !.at = "install", !.refs = rs].at = "install"
                                /\ [k EXCEPT !.at = "install", !.refs = rs].refs = rs
    BY DEF Call
  <2> DEFINE half == [call[a] EXCEPT !.at = "install", !.refs = remaining]
  <2>2. next = [half EXCEPT !.ref = Free, !.st = 0, !.todo = {}, !.moved = FALSE]
    BY <1>0 DEF Call
  <2>3. /\ half.at = "install" /\ half.refs = remaining
        /\ half.named = call[a].named /\ half.store = call[a].store
    BY <1>0 DEF Call
  <2>4. DOMAIN half = {"at", "ref", "st", "head", "todo", "named", "store", "refs", "moved", "drop"}
    BY <1>0 DEF Call
  <2> HIDE DEF half, next
  <2> QED
    BY <2>2, <2>3, <2>4
<1>2. CASE remaining = {}
  BY <1>0, <1>2 DEF SweepOn, GoesOn
<1>3. CASE remaining # {}
  <2>1. call' = [call EXCEPT ![a] = next] /\ appStore' = appStore
    BY <1>3 DEF SweepOn
  <2> HIDE DEF next
  <2>2. call'[a] = next
    BY <1>0, <2>1
  <2> QED
    BY <1>1, <2>1, <2>2 DEF GoesOn, Left, Sweeps
<1> QED
  BY <1>2, <1>3

LEMMA SweepNextGoes ==
  ASSUME TypeInv, NEW a \in Apps, NEW c, SweepNext(a, c),
         call[a].at \in {"members", "reset"}, call[a].ref \in call[a].refs
  PROVE  GoesOn(a, Left(a))
<1>0. call \in [Apps -> Call]
  BY DEF TypeInv, TypeOK
<1>1. CASE call[a].todo = {c}
  <2>1. Left(a) = call[a].refs \ {call[a].ref}
    BY DEF Left
  <2> QED
    BY <1>1, <2>1, SweepOnGoes DEF SweepNext
<1>2. CASE call[a].todo # {c}
  <2> DEFINE next == [call[a] EXCEPT !.at = "members", !.todo = @ \ {c}, !.drop = Free]
  <2>1. call' = [call EXCEPT ![a] = next] /\ appStore' = appStore
    BY <1>2 DEF SweepNext
  <2>2. /\ next.at = "members" /\ next.ref = call[a].ref /\ next.refs = call[a].refs
        /\ next.store = call[a].store /\ next.named = call[a].named
    BY <1>0 DEF Call
  <2> HIDE DEF next
  <2>3. call'[a] = next
    BY <1>0, <2>1
  <2> QED
    BY <2>1, <2>2, <2>3 DEF GoesOn, Left, Sweeps
<1> QED
  BY <1>1, <1>2

\* What the rest of a sweep does, one step of it at a time.
SweepSteps(a) == SweepInstall(a) \/ SweepKeeps(a) \/ SweepDrops(a) \/ SweepResets(a)

LEMMA SweepGoes ==
  ASSUME TypeInv, NEW a \in Apps, SweepSteps(a),
         call[a].at \in {"members", "reset"} => call[a].ref \in call[a].refs
  PROVE  /\ call[a].at \in Sweeps
         /\ UNCHANGED <<refs, holds>>
         /\ \/ state' = state /\ GoesOn(a, Left(a))
            \/ /\ call[a].at = "install"
               /\ \E r \in call[a].refs :
                    /\ GoesOn(a, call[a].refs \ {r})
                    /\ state' = [state EXCEPT ![refs[r]] =
                                   IF call[a].named[r] # Unnamed
                                   THEN Install(@, call[a].store, call[a].named[r])
                                   ELSE [@ EXCEPT !.store = call[a].store]]
<1>0. call \in [Apps -> Call]
  BY DEF TypeInv, TypeOK
<1> USE DEF Sweeps
<1>1. CASE SweepInstall(a)
  <2>1. PICK r \in call[a].refs :
          LET i     == refs[r]
              head  == call[a].named[r]
              named == head # Unnamed IN
          /\ state' = [state EXCEPT ![i] = IF named THEN Install(@, call[a].store, head)
                                           ELSE [@ EXCEPT !.store = call[a].store]]
          /\ IF state[i].members = {}
             THEN SweepOn(a, call[a].refs \ {r})
             ELSE /\ Continue(a, [call[a] EXCEPT !.at = "members", !.ref = r, !.st = i,
                                                 !.todo = state[i].members,
                                                 !.moved = named /\ Moves(state[i], head)])
                  /\ UNCHANGED <<mu, appStore>>
    BY <1>1 DEF SweepInstall
  <2>2. call[a].at = "install" /\ UNCHANGED <<refs, holds>>
    BY <1>1 DEF SweepInstall
  <2>3. ASSUME NEW todo, NEW moved, appStore' = appStore,
               call' = [call EXCEPT ![a] = [call[a] EXCEPT !.at = "members", !.ref = r,
                                              !.st = refs[r], !.todo = todo,
                                              !.moved = moved]]
        PROVE  GoesOn(a, call[a].refs \ {r})
    <3> DEFINE half == [call[a] EXCEPT !.at = "members", !.ref = r]
               next == [half EXCEPT !.st = refs[r], !.todo = todo, !.moved = moved]
    <3>1. call' = [call EXCEPT ![a] = next]
      BY <1>0, <2>3 DEF Call
    <3>2. /\ half.at = "members" /\ half.ref = r /\ half.refs = call[a].refs
          /\ half.store = call[a].store /\ half.named = call[a].named
          /\ DOMAIN half = {"at", "ref", "st", "head", "todo", "named", "store", "refs",
                            "moved", "drop"}
      BY <1>0 DEF Call
    <3> HIDE DEF half
    <3>3. /\ next.at = "members" /\ next.ref = r /\ next.refs = call[a].refs
          /\ next.store = call[a].store /\ next.named = call[a].named
      BY <3>2
    <3> HIDE DEF next
    <3>4. call'[a] = next
      BY <1>0, <3>1
    <3> QED
      BY <2>1, <2>3, <3>3, <3>4 DEF GoesOn, Left
  <2>4. GoesOn(a, call[a].refs \ {r})
    <3>1. CASE state[refs[r]].members = {}
      BY <2>1, <3>1, SweepOnGoes
    <3>2. CASE state[refs[r]].members # {}
      <4>1. appStore' = appStore
        BY <2>1, <3>2
      <4> QED
        BY <2>1, <2>3, <3>2, <4>1
    <3> QED
      BY <3>1, <3>2
  <2>5. state' = [state EXCEPT ![refs[r]] =
                    IF call[a].named[r] # Unnamed
                    THEN Install(@, call[a].store, call[a].named[r])
                    ELSE [@ EXCEPT !.store = call[a].store]]
    BY <2>1
  <2> QED
    BY <2>2, <2>4, <2>5
<1>2. CASE SweepKeeps(a)
  <2>1. PICK c : SweepNext(a, c)
    BY <1>2 DEF SweepKeeps
  <2>2. call[a].at = "members" /\ UNCHANGED <<refs, holds, state>>
    BY <1>2 DEF SweepKeeps
  <2> QED
    BY <2>1, <2>2, SweepNextGoes
<1>3. CASE SweepResets(a)
  <2>1. PICK c : SweepNext(a, c)
    BY <1>3 DEF SweepResets
  <2>2. call[a].at = "reset" /\ UNCHANGED <<refs, holds, state>>
    BY <1>3 DEF SweepResets
  <2> QED
    BY <2>1, <2>2, SweepNextGoes
<1>4. CASE SweepDrops(a)
  <2>1. PICK c : call' = [call EXCEPT ![a] = [call[a] EXCEPT !.at = "reset", !.drop = c]]
    BY <1>4 DEF SweepDrops
  <2>2. call[a].at = "members" /\ UNCHANGED <<refs, holds, state, appStore>>
    BY <1>4 DEF SweepDrops
  <2> DEFINE next == [call[a] EXCEPT !.at = "reset", !.drop = c]
  <2>3. /\ next.at = "reset" /\ next.ref = call[a].ref /\ next.refs = call[a].refs
        /\ next.store = call[a].store /\ next.named = call[a].named
    BY <1>0 DEF Call
  <2>4. call'[a] = next
    BY <1>0, <2>1
  <2> HIDE DEF next
  <2>5. GoesOn(a, Left(a))
    BY <2>2, <2>3, <2>4 DEF GoesOn, Left
  <2> QED
    BY <2>2, <2>5
<1> QED
  BY <1>1, <1>2, <1>3, <1>4 DEF SweepSteps

\* The other calls leave the store of the application where it is.
LEMMA CallsFeed ==
  ASSUME TypeInv, NEW a \in Apps, Begins(a) \/ Continues(a), ~SweepSteps(a), ~SweepCheck(a)
  PROVE  /\ appStore' = appStore /\ Grows /\ synced' = synced
         /\ call[a].at \notin Sweeps /\ call'[a].at \notin Sweeps
<1>0. /\ call \in [Apps -> Call] /\ refs \in [Refs -> 0..MaxStates]
      /\ appStore \in Stores /\ Idle.at = "idle"
  BY DEF TypeInv, TypeOK, Idle
<1>1. UNCHANGED holds => Grows
  BY DEF Grows
<1> USE DEF Sweeps
<1>2. CASE SetHeadFind(a)
  <2>1. PICK ref \in Refs, head \in Headings :
          /\ Living(ref) # 0
          /\ holds' = Load(StoreOf(Living(ref)), head.hash)
          /\ Continue(a, [Idle EXCEPT !.at = "move", !.ref = ref, !.st = Living(ref),
                                      !.head = head, !.todo = state[Living(ref)].members])
    BY <1>2 DEF SetHeadFind
  <2>2. StoreOf(Living(ref)) \in Stores
    <3>1. MaxStates \in Nat /\ MaxStores \in Nat
      OBVIOUS
    <3> QED
      BY <1>0, <2>1, <3>1 DEF Living, StoreOf, Stores
  <2>3. head \in AnyHead
    OBVIOUS
  <2>4. Grows
    BY <2>1, <2>2, <2>3, LoadGrows DEF AnyHead
  <2>5. call'[a].at = "move"
    BY <1>0, <2>1 DEF Idle
  <2>6. appStore' = appStore /\ synced' = synced /\ call[a] = Idle
    BY <1>2 DEF SetHeadFind, Begin
  <2> QED
    BY <1>0, <2>4, <2>5, <2>6
<1>3. CASE PublishInsert(a)
  <2>1. PICK head \in Headings : holds' = Load(appStore, head.hash)
    BY <1>3 DEF PublishInsert
  <2>2. head \in AnyHead
    OBVIOUS
  <2>3. Grows
    BY <1>0, <2>1, <2>2, LoadGrows DEF AnyHead
  <2>4. appStore' = appStore /\ synced' = synced /\ call[a] = Idle
    BY <1>3 DEF PublishInsert, Begin
  <2>5. PICK ref \in Refs, h \in Headings :
          Continue(a, [Idle EXCEPT !.at = "publish", !.ref = ref, !.st = made + 1, !.head = h])
    BY <1>3 DEF PublishInsert
  <2>6. call'[a].at = "publish"
    BY <1>0, <2>5 DEF Idle
  <2> QED
    BY <1>0, <2>3, <2>4, <2>6
<1>4. CASE Unpublish(a)
  <2>1. call'[a].at \in {"idle", "close"}
    BY <1>0, <1>4 DEF Unpublish, Idle
  <2>2. appStore' = appStore /\ synced' = synced /\ call[a] = Idle /\ UNCHANGED holds
    BY <1>4 DEF Unpublish, Begin
  <2> QED
    BY <1>0, <1>1, <2>1, <2>2
<1>5. CASE Stop(a)
  <2>1. call'[a].at = "listener"
    BY <1>0, <1>5 DEF Stop, Idle
  <2>2. appStore' = appStore /\ synced' = synced /\ call[a] = Idle /\ UNCHANGED holds
    BY <1>5 DEF Stop, Begin
  <2> QED
    BY <1>0, <1>1, <2>1, <2>2
<1>6. CASE SetHeadMove(a)
  <2>1. [call[a] EXCEPT !.at = "wake"].at = "wake"
    BY <1>0 DEF Call
  <2>2. Continue(a, [call[a] EXCEPT !.at = "wake"]) \/ Continue(a, Idle)
    BY <1>6 DEF SetHeadMove
  <2>3. appStore' = appStore /\ synced' = synced /\ call[a].at = "move" /\ UNCHANGED holds
    BY <1>6 DEF SetHeadMove
  <2> QED
    BY <1>0, <1>1, <2>1, <2>2, <2>3
<1>7. ASSUME NEW c, TakeOff(a, c, Idle), call[a].at \in {"wake", "close"}
      PROVE  call'[a].at \in {"idle", call[a].at}
  <2>1. [call[a] EXCEPT !.todo = @ \ {c}].at = call[a].at
    BY <1>0 DEF Call
  <2> QED
    BY <1>0, <1>7, <2>1 DEF TakeOff
<1>8. CASE SetHeadWake(a)
  <2>1. /\ appStore' = appStore /\ synced' = synced /\ call[a].at = "wake" /\ UNCHANGED holds
        /\ \E c : TakeOff(a, c, Idle)
    BY <1>8 DEF SetHeadWake
  <2> QED
    BY <1>1, <1>7, <2>1
<1>9. CASE CloseOne(a)
  <2>1. /\ appStore' = appStore /\ synced' = synced /\ call[a].at = "close" /\ UNCHANGED holds
        /\ \E c : TakeOff(a, c, Idle)
    BY <1>9 DEF CloseOne
  <2> QED
    BY <1>1, <1>7, <2>1
<1>10. CASE PublishMove(a)
  <2>1. /\ appStore' = appStore /\ synced' = synced /\ call[a].at = "publish"
        /\ UNCHANGED holds /\ Continue(a, Idle)
    BY <1>10 DEF PublishMove
  <2> QED
    BY <1>0, <1>1, <2>1
<1>11. CASE StopListener(a)
  <2>1. /\ appStore' = appStore /\ synced' = synced /\ call[a].at = "listener"
        /\ UNCHANGED holds
    BY <1>11 DEF StopListener
  <2>2. [call[a] EXCEPT !.at = "close"].at = "close"
    BY <1>0 DEF Call
  <2>3. Continue(a, [call[a] EXCEPT !.at = "close"]) \/ Continue(a, Idle)
    BY <1>11 DEF StopListener
  <2> QED
    BY <1>0, <1>1, <2>1, <2>2, <2>3
<1> QED
  BY <1>2, <1>3, <1>4, <1>5, <1>6, <1>8, <1>9, <1>10, <1>11 DEF Begins, Continues, SweepSteps

-----------------------------------------------------------------------------
(* What one step does to the calls, to the baselines and to the refStates.  *)

LEMMA CallOf ==
  ASSUME TypeInv, [Next]_vars, NEW a \in Apps
  PROVE  call'[a] = call[a] \/ Begins(a) \/ Continues(a)
<1>1. CASE call' = call
  BY <1>1
<1>2. ASSUME NEW b \in Apps, Begins(b) \/ Continues(b)
      PROVE  call'[a] = call[a] \/ Begins(a) \/ Continues(a)
  <2>1. Others(b)
    BY <1>2, BeginsCall, ContinuesCall
  <2>2. CASE a # b
    BY <2>1, <2>2 DEF Others
  <2>3. CASE a = b
    BY <1>2, <2>3
  <2> QED
    BY <2>2, <2>3
<1> QED
  BY <1>1, <1>2, CallStep

LEMMA SweepBegins ==
  ASSUME TypeInv, NEW a \in Apps, SweepCheck(a)
  PROVE  /\ call'[a].at = "install" /\ call'[a].store = appStore + 1
         /\ appStore + 1 \in Stores /\ call'[a].refs = PublishedRefs /\ call[a] = Idle
         /\ UNCHANGED <<registry, appStore>>
         /\ \E kept \in SUBSET Hashes :
              /\ Sweepable(call'[a].named, kept)
              /\ holds' = [holds EXCEPT ![appStore + 1] = kept]
<1>0. call \in [Apps -> Call]
  BY DEF TypeInv, TypeOK
<1>1. PICK named \in Named, kept \in SUBSET Hashes :
        /\ Sweepable(named, kept)
        /\ holds' = [holds EXCEPT ![appStore + 1] = kept]
        /\ Continue(a, [Idle EXCEPT !.at = "install", !.named = named,
                                    !.store = appStore + 1, !.refs = PublishedRefs])
  BY DEF SweepCheck
<1> DEFINE next == [Idle EXCEPT !.at = "install", !.named = named,
                                !.store = appStore + 1, !.refs = PublishedRefs]
<1>2. /\ next.at = "install" /\ next.store = appStore + 1 /\ next.refs = PublishedRefs
      /\ next.named = named
  BY DEF Idle
<1>3. call'[a] = next
  BY <1>0, <1>1
<1> HIDE DEF next
<1>4. call[a] = Idle /\ UNCHANGED <<registry, appStore>> /\ appStore < MaxStates + MaxStores
  BY DEF SweepCheck, Begin
<1>5. appStore + 1 \in Stores
  <2>1. MaxStates \in Nat /\ MaxStores \in Nat /\ appStore \in Stores
    BY DEF TypeInv, TypeOK
  <2> QED
    BY <1>4, <2>1 DEF Stores
<1> QED
  BY <1>1, <1>2, <1>3, <1>4, <1>5

LEMMA StepSwept == TypeInv /\ SweptOK /\ [Next]_vars => SweptOK'
<1> SUFFICES ASSUME TypeInv, SweptOK, [Next]_vars PROVE SweptOK'
  OBVIOUS
<1>0. MaxStates \in Nat /\ appStore \in Nat
  BY DEF TypeInv, TypeOK, Stores
<1>1. appStore' \in {appStore} \/ \E a \in Apps : call[a].at \in Sweeps /\ appStore' = call[a].store
  <2>1. CASE UNCHANGED vars
    BY <2>1 DEF vars
  <2>2. ASSUME NEW c \in Conns, Serves(c) \/ Reads(c) \/ Clients(c) PROVE appStore' = appStore
    BY <2>2, ConnsFeed DEF Feeds
  <2>3. ASSUME NEW a \in Apps, Begins(a) \/ Continues(a)
        PROVE  appStore' = appStore \/ (call[a].at \in Sweeps /\ appStore' = call[a].store)
    <3>1. CASE SweepCheck(a)
      BY <3>1, SweepBegins
    <3>2. CASE SweepSteps(a)
      BY <3>2, SweepGoes DEF GoesOn, SweptOK
    <3> QED
      BY <2>3, <3>1, <3>2, CallsFeed
  <2> QED
    BY <2>1, <2>2, <2>3 DEF Next, Rest
<1>2. appStore' > MaxStates
  <2>1. \A a \in Apps : call[a].store \in Nat
    BY DEF TypeInv, TypeOK, Call, Stores
  <2> QED
    BY <1>0, <1>1, <2>1 DEF SweptOK
<1>3. ASSUME NEW a \in Apps
      PROVE  /\ call'[a].at \in Sweeps => call'[a].store > MaxStates + 1
             /\ call'[a].at \in {"members", "reset"} => call'[a].ref \in call'[a].refs
  <2> USE DEF Sweeps
  <2>1. CASE call'[a] = call[a]
    BY <2>1 DEF SweptOK
  <2>2. CASE SweepCheck(a)
    BY <1>0, <2>2, SweepBegins DEF SweptOK
  <2>3. CASE SweepSteps(a)
    <3>1. GoesOn(a, Left(a)) \/ \E r : GoesOn(a, call[a].refs \ {r})
      BY <2>3, SweepGoes DEF SweptOK
    <3>2. call[a].at \in Sweeps
      BY <2>3, SweepGoes DEF SweptOK
    <3> QED
      BY <3>1, <3>2 DEF GoesOn, SweptOK, Idle
  <2>4. CASE (Begins(a) \/ Continues(a)) /\ ~SweepSteps(a) /\ ~SweepCheck(a)
    BY <2>4, CallsFeed
  <2> QED
    BY <2>1, <2>2, <2>3, <2>4, CallOf
<1> QED
  BY <1>2, <1>3 DEF SweptOK

\* Before the first sweep there was none, and stores only grow.
LEMMA UnsweptStep ==
  ASSUME TypeInv, SweptOK, [Next]_vars, Unswept'
  PROVE  /\ Unswept /\ appStore' = appStore /\ Grows
         /\ \A a \in Apps : ~SweepSteps(a) /\ ~SweepCheck(a)
<1>0. MaxStates \in Nat /\ appStore \in Nat
  BY DEF TypeInv, TypeOK, Stores
<1>1. ASSUME NEW a \in Apps PROVE ~SweepSteps(a) /\ ~SweepCheck(a)
  <2>1. CASE SweepCheck(a)
    BY <2>1, SweepBegins DEF Unswept, Sweeps
  <2>2. CASE SweepSteps(a)
    <3>1. GoesOn(a, Left(a)) \/ \E r : GoesOn(a, call[a].refs \ {r})
      BY <2>2, SweepGoes DEF SweptOK
    <3>2. call[a].at \in Sweeps
      BY <2>2, SweepGoes DEF SweptOK
    <3> QED
      BY <1>0, <3>1, <3>2 DEF GoesOn, SweptOK, Unswept
  <2> QED
    BY <2>1, <2>2
<1>2. appStore' = appStore /\ Grows
  <2>1. CASE UNCHANGED vars
    BY <2>1 DEF vars, Grows
  <2>2. ASSUME NEW c \in Conns, Serves(c) \/ Reads(c) \/ Clients(c)
        PROVE  appStore' = appStore /\ Grows
    BY <2>2, ConnsFeed DEF Feeds
  <2>3. ASSUME NEW a \in Apps, Begins(a) \/ Continues(a) PROVE appStore' = appStore /\ Grows
    BY <1>1, <2>3, CallsFeed
  <2> QED
    BY <2>1, <2>2, <2>3 DEF Next, Rest
<1>3. ASSUME NEW a \in Apps PROVE call[a].at \notin Sweeps
  <2>1. CASE call'[a] = call[a]
    BY <2>1 DEF Unswept
  <2>2. CASE Begins(a) \/ Continues(a)
    BY <1>1, <2>2, CallsFeed
  <2> QED
    BY <2>1, <2>2, CallOf
<1> QED
  BY <1>1, <1>2, <1>3 DEF Unswept

LEMMA FeedStep ==
  ASSUME TypeInv, [Next]_vars, NEW c \in Conns, \A a \in Apps : ~SweepSteps(a)
  PROVE  /\ synced'[c] = synced[c] \/ Register(c) \/ Ready(c) \/ Record(c) \/ Close(c)
         /\ pc'[c] \in Selecting => pc[c] \in Selecting \/ Current(c)
         /\ pc'[c] \in Serving => pc[c] \in Serving \/ Ready(c)
<1>1. CASE UNCHANGED vars
  BY <1>1 DEF vars
<1>2. ASSUME NEW d \in Conns, Serves(d) \/ Reads(d) \/ Clients(d)
      PROVE  /\ synced'[c] = synced[c] \/ Register(c) \/ Ready(c) \/ Record(c) \/ Close(c)
             /\ pc'[c] \in Selecting => pc[c] \in Selecting \/ Current(c)
             /\ pc'[c] \in Serving => pc[c] \in Serving \/ Ready(c)
  <2>1. Feeds(d)
    BY <1>2, ConnsFeed
  <2>2. CASE c = d
    BY <2>1, <2>2 DEF Feeds
  <2>3. CASE c # d
    BY <2>1, <2>3 DEF Feeds
  <2> QED
    BY <2>2, <2>3
<1>3. ASSUME NEW a \in Apps, Begins(a) \/ Continues(a) PROVE UNCHANGED <<pc, synced>>
  <2>1. pc' = pc
    BY <1>3, BeginsCall, ContinuesCall
  <2>2. SweepCheck(a) => synced' = synced
    BY DEF SweepCheck
  <2> QED
    BY <1>3, <2>1, <2>2, CallsFeed
<1> QED
  BY <1>1, <1>2, <1>3 DEF Next, Rest

\* What becomes of a refState that is prepared, ...
LEMMA SettlesContent ==
  ASSUME TypeInv, NEW c \in Conns, Settles(c)
  PROVE  /\ \A j \in StateIds \ {my[c]} : state'[j] = state[j]
         /\ my[c] \in StateIds /\ state'[my[c]].published = state[my[c]].published
         /\ \/ state'[my[c]].err /\ state'[my[c]].head = state[my[c]].head
            \/ /\ state'[my[c]].store = my[c]
               /\ \/ state'[my[c]].head = state[my[c]].head
                  \/ state'[my[c]].head.hash \in holds'[my[c]] \cup {Void}
<1> DEFINE i == my[c]
<1>0. /\ state \in [StateIds -> RefState] /\ i \in StateIds /\ i \in Stores
      /\ \A j : j \in StateIds => state[j] \in RefState
  <2>1. MaxStates \in Nat /\ MaxStores \in Nat
    OBVIOUS
  <2> QED
    BY <2>1, SettlesState DEF TypeInv, TypeOK, Stores, StateIds
<1>1. CASE state' = [state EXCEPT ![i] = Failed(state[i])]
  <2> HIDE DEF i
  <2>1. /\ Failed(state[i]).published = state[i].published /\ Failed(state[i]).err
        /\ Failed(state[i]).head = state[i].head
    BY <1>0 DEF Failed, RefState
  <2>2. state'[i] = Failed(state[i]) /\ \A j \in StateIds \ {i} : state'[j] = state[j]
    BY <1>0, <1>1
  <2>3. /\ state'[i].published = state[i].published /\ state'[i].err
        /\ state'[i].head = state[i].head
    BY <2>1, <2>2
  <2> USE DEF i
  <2> QED
    BY <1>0, <2>2, <2>3
<1>2. ASSUME NEW head \in Headings, holds' = Load(i, head.hash),
             state' = [state EXCEPT ![i] = Answered(state[i], i, head)]
      PROVE  /\ \A j \in StateIds \ {i} : state'[j] = state[j]
             /\ state'[i].published = state[i].published /\ state'[i].store = i
             /\ \/ state'[i].head = state[i].head
                \/ state'[i].head.hash \in holds'[i] \cup {Void}
  <2> HIDE DEF i
  <2>0. head \in AnyHead /\ state[i] \in RefState
    BY <1>0
  <2> DEFINE m == Move(state[i], head)
  <2>1. /\ m \in RefState /\ m.published = state[i].published
        /\ m.head = state[i].head \/ m.head = head
    <3>1. m.head = state[i].head \/ m.head = head
      BY <2>0 DEF Move, RefState
    <3> QED
      BY <2>0, <3>1, MoveType, MoveKeeps
  <2>2. /\ Answered(state[i], i, head).published = m.published
        /\ Answered(state[i], i, head).store = i
        /\ Answered(state[i], i, head).head = m.head
    <3>1. Answered(state[i], i, head) = [m EXCEPT !.store = i, !.prepared = TRUE, !.ready = TRUE]
      BY DEF Answered
    <3> HIDE DEF m
    <3> QED
      BY <2>1, <3>1 DEF RefState
  <2>3. state'[i] = Answered(state[i], i, head) /\ \A j \in StateIds \ {i} : state'[j] = state[j]
    BY <1>0, <1>2
  <2>4. head.hash \in holds'[i] \cup {Void}
    <3>1. head.hash \in Trees
      BY <2>0 DEF AnyHead
    <3> QED
      BY <1>0, <1>2, <3>1, LoadGrows
  <2> HIDE DEF m
  <2> QED
    BY <2>1, <2>2, <2>3, <2>4
<1> QED
  BY <1>0, <1>1, <1>2, SettlesState

\* ... and of one whose head is moved by SetHead or Publish.
LEMMA MovesContent ==
  ASSUME TypeInv, NEW a \in Apps, SetHeadMove(a) \/ PublishMove(a)
  PROVE  /\ call[a].at \in {"move", "publish"} /\ call[a].st \in StateIds
         /\ \A j \in StateIds \ {call[a].st} : state'[j] = state[j]
         /\ state'[call[a].st].published = state[call[a].st].published
         /\ state'[call[a].st].store = state[call[a].st].store
         /\ state'[call[a].st].err = state[call[a].st].err
         /\ \/ call[a].at = "publish"
            \/ state'[call[a].st].ready = state[call[a].st].ready
         /\ state'[call[a].st].head \in {state[call[a].st].head, call[a].head}
<1> DEFINE i == call[a].st
           m == Move(state[i], call[a].head)
           n == [m EXCEPT !.ready = TRUE]
<1>0. /\ state \in [StateIds -> RefState] /\ call[a].at \in {"move", "publish"}
      /\ SetHeadMove(a) => call[a].at = "move" /\ state' = [state EXCEPT ![i] = m]
      /\ PublishMove(a) => /\ call[a].at = "publish"
                           /\ state' = state \/ state' = [state EXCEPT ![i] = n]
  BY DEF TypeInv, TypeOK, SetHeadMove, PublishMove
<1>1. i \in StateIds /\ state[i] \in RefState /\ call[a].head \in AnyHead
  <2>1. i \in StateIds
    BY <1>0 DEF TypeInv, TypeOK, CallOK, StateIds
  <2>2. call[a] \in Call
    BY DEF TypeInv, TypeOK
  <2> QED
    BY <1>0, <2>1, <2>2 DEF Call
<1>2. /\ m \in RefState /\ m.published = state[i].published /\ m.store = state[i].store
      /\ m.err = state[i].err /\ m.ready = state[i].ready
      /\ m.head \in {state[i].head, call[a].head}
  <2>1. m.head \in {state[i].head, call[a].head}
    BY <1>1 DEF Move, RefState
  <2> QED
    BY <1>1, <2>1, MoveType, MoveKeeps
<1> HIDE DEF m
<1>3. n.published = m.published /\ n.store = m.store /\ n.err = m.err /\ n.head = m.head
  BY <1>2 DEF RefState
<1> HIDE DEF n
<1>4. CASE state' = state
  BY <1>0, <1>1, <1>4
<1>5. CASE state' = [state EXCEPT ![i] = m]
  BY <1>0, <1>1, <1>2, <1>5
<1>6. CASE state' = [state EXCEPT ![i] = n] /\ call[a].at = "publish"
  BY <1>0, <1>1, <1>2, <1>3, <1>6
<1> QED
  BY <1>0, <1>4, <1>5, <1>6

LEMMA StateStep ==
  ASSUME TypeInv, [Next]_vars
  PROVE  \/ SameContent
         \/ \E c \in Conns : Settles(c) \/ JoinFirst(c)
         \/ \E a \in Apps : \/ SetHeadMove(a) \/ PublishMove(a) \/ PublishInsert(a)
                            \/ SweepInstall(a)
<1>1. ASSUME UNCHANGED <<state, made>> PROVE SameContent
  BY <1>1 DEF SameContent, SameHead
<1>2. \/ UNCHANGED regVars
      \/ \E a \in Apps : Unpublish(a)
      \/ \E c \in Conns : Walk(c)
      => UNCHANGED <<state, made>>
  BY DEF regVars, Unpublish, Walk
<1>3. ASSUME NEW c \in Conns, Passes(c) PROVE SameContent
  BY <1>3, PassesContent
<1> QED
  BY <1>1, <1>2, <1>3, RegistryStep DEF Passes, HeadStep

-----------------------------------------------------------------------------
(* Until the first sweep.                                                   *)

\* The head that a call is about to move is in the store it was loaded into.
Loaded(a) == InStore(StoreOf(call[a].st), call[a].head.hash)

\* The store of a refState stays its store.
LEMMA PlaceStays ==
  ASSUME TypeInv, [Next]_vars, appStore' = appStore, NEW i \in 1..made
  PROVE  i \in StateIds /\ StoreOf(i)' = StoreOf(i) /\ StoreOf(i) \in Stores
<1>0. MaxStates \in Nat /\ MaxStores \in Nat /\ made \in 0..MaxStates /\ appStore \in Stores
  BY DEF TypeInv, TypeOK
<1>1. state'[i].published = state[i].published /\ i \in StateIds
  BY AnswersStay
<1> QED
  BY <1>0, <1>1 DEF StoreOf, Stores

\* What SetHead and Publish load before they move a ref.
LEMMA CallsLoad ==
  ASSUME TypeInv, NEW a \in Apps, Begins(a), call'[a].at \in {"move", "publish"}
  PROVE  call'[a].st \in StateIds /\ appStore' = appStore /\ Loaded(a)'
<1>0. /\ call \in [Apps -> Call] /\ refs \in [Refs -> 0..MaxStates] /\ Idle.at = "idle"
      /\ appStore \in Stores /\ MaxStates \in Nat /\ MaxStores \in Nat
  BY DEF TypeInv, TypeOK, Idle
<1>1. CASE SetHeadFind(a)
  <2>1. PICK ref \in Refs, head \in Headings :
          /\ Living(ref) # 0
          /\ holds' = Load(StoreOf(Living(ref)), head.hash)
          /\ Continue(a, [Idle EXCEPT !.at = "move", !.ref = ref, !.st = Living(ref),
                                      !.head = head, !.todo = state[Living(ref)].members])
    BY <1>1 DEF SetHeadFind
  <2>2. Living(ref) \in StateIds
    BY <1>0, <2>1 DEF Living, StateIds
  <2> DEFINE i == Living(ref)
  <2>3. StoreOf(i) \in Stores
    BY <1>0, <2>2 DEF StoreOf, Stores, StateIds
  <2>4. head \in AnyHead
    OBVIOUS
  <2>5. head.hash \in Trees
    BY <2>4 DEF AnyHead
  <2>6. head.hash \in holds'[StoreOf(i)] \cup {Void}
    BY <2>1, <2>3, <2>5, LoadGrows
  <2>7. call'[a].st = i /\ call'[a].head = head
    BY <1>0, <2>1 DEF Idle
  <2>8. state' = state /\ appStore' = appStore
    BY <1>1 DEF SetHeadFind
  <2> HIDE DEF i
  <2>9. StoreOf(i) = IF state'[call'[a].st].published THEN appStore' ELSE call'[a].st
    BY <2>7, <2>8 DEF StoreOf
  <2>10. Loaded(a)'
    BY <2>6, <2>7, <2>9 DEF Loaded, InStore, StoreOf
  <2> QED
    BY <2>2, <2>7, <2>8, <2>10 DEF i
<1>2. CASE PublishInsert(a)
  <2>1. PICK ref \in Refs, head \in Headings :
          /\ holds' = Load(appStore, head.hash)
          /\ Continue(a, [Idle EXCEPT !.at = "publish", !.ref = ref, !.st = made + 1,
                                      !.head = head])
    BY <1>2 DEF PublishInsert
  <2>2. /\ call'[a].st = made' /\ made' \in StateIds
        /\ state'[made'] = [NewState EXCEPT !.published = TRUE, !.prepared = TRUE,
                                            !.store = appStore]
    BY <1>2, MakesState
  <2>3. head \in AnyHead
    OBVIOUS
  <2>4. head.hash \in Trees
    BY <2>3 DEF AnyHead
  <2>5. head.hash \in holds'[appStore] \cup {Void}
    BY <1>0, <2>1, <2>4, LoadGrows
  <2>6. call'[a].head = head /\ appStore' = appStore
    BY <1>0, <1>2, <2>1 DEF Idle, PublishInsert
  <2>7. state'[made'].published
    BY <2>2 DEF NewState
  <2>8. Loaded(a)'
    BY <2>2, <2>5, <2>6, <2>7 DEF Loaded, InStore, StoreOf
  <2> QED
    BY <2>2, <2>6, <2>8
<1>3. CASE Unpublish(a)
  <2>1. call'[a].at \in {"idle", "close"}
    BY <1>0, <1>3 DEF Unpublish, Idle
  <2> QED
    BY <2>1
<1>4. CASE SweepCheck(a)
  BY <1>4, SweepBegins
<1>5. CASE Stop(a)
  <2>1. call'[a].at = "listener"
    BY <1>0, <1>5 DEF Stop, Idle
  <2> QED
    BY <2>1
<1> QED
  BY <1>1, <1>2, <1>3, <1>4, <1>5 DEF Begins

LEMMA StepPlaced ==
  ASSUME TypeInv, PubOK, PrepOK, PlacedOK, [Next]_vars, appStore' = appStore,
         \A a \in Apps : ~SweepInstall(a)
  PROVE  PlacedOK'
<1> SUFFICES ASSUME NEW i \in StateIds
             PROVE  /\ state'[i].published => state'[i].store = appStore
                    /\ ~state'[i].published /\ state'[i].ready /\ ~state'[i].err =>
                          state'[i].store = i
  BY DEF PlacedOK
<1>1. CASE state'[i] = state[i] \/ SameContent
  BY <1>1 DEF SameContent, PlacedOK
<1>2. CASE \E c \in Conns : Settles(c)
  <2>1. PICK c \in Conns : Settles(c)
    BY <1>2
  <2>2. CASE i # my[c]
    BY <1>1, <2>1, <2>2, SettlesContent
  <2>3. CASE i = my[c]
    <3>1. ~state[my[c]].published
      BY <2>1, SettlesState DEF PrepOK
    <3>2. ~state'[i].published /\ (state'[i].err \/ state'[i].store = i)
      BY <2>1, <2>3, <3>1, SettlesContent
    <3> QED
      BY <3>2
  <2> QED
    BY <2>2, <2>3
<1>3. ASSUME NEW c \in Conns, JoinFirst(c)
      PROVE  \/ state'[i] = state[i]
             \/ ~state'[i].published /\ ~state'[i].ready
  <2>1. ~[NewState EXCEPT !.members = {c}].published /\ ~[NewState EXCEPT !.members = {c}].ready
    BY DEF NewState
  <2> QED
    BY <1>3, <2>1, MakesState
<1>4. ASSUME NEW a \in Apps, PublishInsert(a)
      PROVE  \/ state'[i] = state[i]
             \/ state'[i].published /\ state'[i].store = appStore
  <2> DEFINE new == [NewState EXCEPT !.published = TRUE, !.prepared = TRUE, !.store = appStore]
  <2>1. new.published /\ new.store = appStore
    BY DEF NewState
  <2> HIDE DEF new
  <2>2. state'[made'] = new /\ \A j \in StateIds \ {made'} : state'[j] = state[j]
    BY <1>4, MakesState DEF new
  <2> QED
    BY <2>1, <2>2
<1>5. ASSUME NEW a \in Apps, SetHeadMove(a) \/ PublishMove(a)
      PROVE  /\ state'[i].published => state'[i].store = appStore
             /\ ~state'[i].published /\ state'[i].ready /\ ~state'[i].err => state'[i].store = i
  <2>1. CASE i # call[a].st
    BY <1>1, <1>5, <2>1, MovesContent
  <2>2. CASE i = call[a].st /\ state[i].published
    BY <1>5, <2>2, MovesContent DEF PlacedOK
  <2>3. CASE i = call[a].st /\ ~state[i].published
    <3>1. call[a].at # "publish"
      BY <2>3 DEF PubOK
    <3>2. /\ state'[i].published = state[i].published /\ state'[i].store = state[i].store
          /\ state'[i].err = state[i].err /\ state'[i].ready = state[i].ready
      BY <1>5, <2>3, <3>1, MovesContent
    <3> QED
      BY <2>3, <3>2 DEF PlacedOK
  <2> QED
    BY <2>1, <2>2, <2>3
<1> QED
  BY <1>1, <1>2, <1>3, <1>4, <1>5, StateStep

LEMMA StepPoints ==
  ASSUME TypeInv, PubOK, PrepOK, PointsOK, [Next]_vars, appStore' = appStore, Grows,
         \A a \in Apps : ~SweepInstall(a)
  PROVE  PointsOK'
<1>0. /\ made \in 0..MaxStates /\ MaxStates \in Nat
  BY DEF TypeInv, TypeOK
<1>1. ASSUME NEW i \in StateIds PROVE state'[i].head.hash \in holds'[StoreOf(i)'] \cup {Void}
  <2>0. MaxStores \in Nat /\ appStore \in Stores
    BY DEF TypeInv, TypeOK
  <2>1. StoreOf(i) \in Stores /\ InStore(StoreOf(i), state[i].head.hash)
    BY <1>0, <2>0 DEF StoreOf, PointsOK, Stores, StateIds
  <2>2. ASSUME state'[i].published = state[i].published,
               state'[i].head = state[i].head
        PROVE  state'[i].head.hash \in holds'[StoreOf(i)'] \cup {Void}
    <3>1. StoreOf(i)' = StoreOf(i)
      BY <2>2 DEF StoreOf
    <3> QED
      BY <2>1, <2>2, <3>1, StaysInStore
  <2>3. CASE state'[i] = state[i] \/ SameContent
    BY <2>2, <2>3 DEF SameContent, SameHead
  <2>4. ASSUME NEW c \in Conns, Settles(c)
        PROVE  state'[i].head.hash \in holds'[StoreOf(i)'] \cup {Void}
    <3>1. CASE i # my[c]
      BY <2>3, <2>4, <3>1, SettlesContent
    <3>2. CASE i = my[c]
      <4>1. ~state[i].published
        BY <2>4, <3>2, SettlesState DEF PrepOK
      <4>2. state'[i].published = state[i].published
        BY <2>4, <3>2, SettlesContent
      <4>3. StoreOf(i)' = i
        BY <4>1, <4>2 DEF StoreOf
      <4>4. state'[i].head = state[i].head \/ state'[i].head.hash \in holds'[i] \cup {Void}
        BY <2>4, <3>2, SettlesContent
      <4> QED
        BY <2>2, <4>2, <4>3, <4>4
    <3> QED
      BY <3>1, <3>2
  <2>5. ASSUME \/ \E c \in Conns : JoinFirst(c)
               \/ \E a \in Apps : PublishInsert(a)
        PROVE  state'[i].head.hash \in holds'[StoreOf(i)'] \cup {Void}
    <3>1. CASE state'[i] = state[i]
      BY <2>3, <3>1
    <3>2. CASE state'[i].head = ZeroHead
      BY <3>2 DEF ZeroHead
    <3>3. ASSUME NEW c \in Conns, JoinFirst(c) PROVE state'[i] = state[i] \/ state'[i].head = ZeroHead
      <4>1. [NewState EXCEPT !.members = {c}].head = ZeroHead
        BY DEF NewState
      <4> QED
        BY <3>3, <4>1, MakesState
    <3>4. ASSUME NEW a \in Apps, PublishInsert(a)
          PROVE  state'[i] = state[i] \/ state'[i].head = ZeroHead
      <4> DEFINE new == [NewState EXCEPT !.published = TRUE, !.prepared = TRUE, !.store = appStore]
      <4>1. new.head = ZeroHead
        BY DEF NewState
      <4> HIDE DEF new
      <4>2. state'[made'] = new /\ \A j \in StateIds \ {made'} : state'[j] = state[j]
        BY <3>4, MakesState DEF new
      <4> QED
        BY <4>1, <4>2
    <3> QED
      BY <2>5, <3>1, <3>2, <3>3, <3>4
  <2>6. ASSUME NEW a \in Apps, SetHeadMove(a) \/ PublishMove(a)
        PROVE  state'[i].head.hash \in holds'[StoreOf(i)'] \cup {Void}
    <3>1. CASE i # call[a].st
      BY <2>3, <2>6, <3>1, MovesContent
    <3>2. CASE i = call[a].st
      <4>1. /\ call[a].at \in {"move", "publish"}
            /\ state'[i].published = state[i].published
            /\ state'[i].head \in {state[i].head, call[a].head}
        BY <2>6, <3>2, MovesContent
      <4>2. StoreOf(i)' = StoreOf(i)
        BY <4>1 DEF StoreOf
      <4>3. InStore(StoreOf(i), call[a].head.hash)
        BY <3>2, <4>1 DEF PointsOK
      <4>4. call[a].head.hash \in holds'[StoreOf(i)'] \cup {Void}
        BY <2>1, <4>2, <4>3, StaysInStore
      <4> QED
        BY <2>2, <4>1, <4>4
    <3> QED
      BY <3>1, <3>2
  <2> QED
    BY <2>3, <2>4, <2>5, <2>6, StateStep
<1>2. ASSUME NEW a \in Apps, call'[a].at \in {"move", "publish"}
      PROVE  Loaded(a)'
  <2>1. CASE call'[a] = call[a]
    <3> DEFINE i == call[a].st
    <3>1. i \in 1..made /\ InStore(StoreOf(i), call[a].head.hash)
      BY <1>2, <2>1 DEF TypeInv, CallOK, PointsOK
    <3>2. StoreOf(i) \in Stores /\ state'[i].published = state[i].published
      BY <3>1, PlaceStays, AnswersStay
    <3>3. call[a].head.hash \in holds'[StoreOf(i)] \cup {Void}
      BY <3>1, <3>2, StaysInStore
    <3>4. StoreOf(i) = IF state'[call'[a].st].published THEN appStore' ELSE call'[a].st
      BY <2>1, <3>2 DEF StoreOf
    <3> QED
      BY <2>1, <3>3, <3>4 DEF Loaded, InStore, StoreOf
  <2>2. CASE Begins(a)
    BY <1>2, <2>2, CallsLoad
  <2>3. CASE Continues(a)
    BY <1>2, <2>3, ContinuesCall
  <2> QED
    BY <2>1, <2>2, <2>3, CallOf
<1> QED
  BY <1>1, <1>2 DEF PointsOK, InStore, Loaded

\* A subscriber keeps its baseline, or has one that its store holds.
LEMMA StepBaselines ==
  ASSUME TypeInv, ReadyOK, PlacedOK, PointsOK, BaselinesOK, [Next]_vars,
         appStore' = appStore, Grows, \A a \in Apps : ~SweepSteps(a)
  PROVE  BaselinesOK'
<1> SUFFICES ASSUME NEW c \in Conns
             PROVE  /\ pc'[c] \in Serving =>
                         synced'[c] \in holds'[StoreOf(my[c])'] \cup {Void}
                    /\ pc'[c] \in Selecting =>
                         /\ owed'[c].store = StoreOf(my[c])'
                         /\ owed'[c].head.hash \in holds'[StoreOf(my[c])'] \cup {Void}
  BY DEF BaselinesOK, InStore, Selecting
<1> SUFFICES ASSUME pc'[c] \in Serving
             PROVE  /\ synced'[c] \in holds'[StoreOf(my[c])'] \cup {Void}
                    /\ pc'[c] \in Selecting =>
                         /\ owed'[c].store = StoreOf(my[c])'
                         /\ owed'[c].head.hash \in holds'[StoreOf(my[c])'] \cup {Void}
  BY DEF Selecting, Serving
<1> DEFINE i == my[c]
<1>0. /\ pc \in [Conns -> Labels] /\ synced \in [Conns -> Trees] /\ owed \in [Conns -> Pair]
  BY DEF TypeInv, TypeOK
<1>1. /\ my'[c] = i /\ i \in 1..made
      /\ pc[c] \in Serving \/ (state' = state /\ state[i].ready /\ ~state[i].err)
  BY Enters
<1>2. i \in StateIds /\ StoreOf(i) \in Stores
  BY <1>1, PlaceStays
<1>3. StoreOf(my[c])' = StoreOf(i)
  <2>1. state'[i].published = state[i].published
    BY <1>1, AnswersStay
  <2> QED
    BY <1>1, <2>1 DEF StoreOf
<1>4. state[i].ready /\ ~state[i].err => state[i].store = StoreOf(i)
  BY <1>2 DEF PlacedOK, StoreOf
<1>5. ASSUME NEW hash, InStore(StoreOf(i), hash) PROVE hash \in holds'[StoreOf(i)] \cup {Void}
  BY <1>2, <1>5, StaysInStore
<1> HIDE DEF i
<1>6. InStore(StoreOf(i), synced'[c])
  <2>1. CASE Register(c) \/ Close(c)
    <3>1. pc'[c] \in {"join", "done"}
      BY <1>0, <2>1 DEF Register, Close
    <3> QED
      BY <3>1 DEF Serving
  <2>2. CASE Ready(c)
    <3>1. /\ synced' = [synced EXCEPT ![c] = Baseline(state[i].store, @)]
          /\ state[i].ready /\ ~state[i].err
      BY <2>2 DEF Ready, i
    <3> QED
      BY <1>0, <1>4, <3>1 DEF Baseline, Has, InStore
  <2>3. CASE Record(c)
    <3>1. pc[c] = "record" /\ synced'[c] = owed[c].head.hash
      BY <1>0, <2>3 DEF Record
    <3> QED
      BY <3>1 DEF BaselinesOK, i
  <2>4. CASE synced'[c] = synced[c] /\ ~Ready(c)
    <3>1. pc[c] \in Serving
      BY <2>4, FeedStep
    <3> QED
      BY <2>4, <3>1 DEF BaselinesOK, i
  <2> QED
    BY <2>1, <2>2, <2>3, <2>4, FeedStep
<1>7. ASSUME pc'[c] \in Selecting
      PROVE  owed'[c].store = StoreOf(i) /\ InStore(StoreOf(i), owed'[c].head.hash)
  <2>1. CASE Current(c)
    <3>1. /\ owed'[c].store = state[i].store /\ owed'[c].head = state[i].head
          /\ pc[c] = "current"
      BY <1>0, <2>1 DEF Current, i
    <3>2. state[i].ready /\ ~state[i].err
      BY <3>1 DEF ReadyOK, Serving, i
    <3>3. InStore(StoreOf(i), state[i].head.hash)
      BY <1>2 DEF PointsOK
    <3> QED
      BY <1>4, <3>1, <3>2, <3>3
  <2>2. CASE ~Current(c)
    <3>1. pc[c] \in Selecting
      BY <1>7, <2>2, FeedStep
    <3>2. owed'[c] = owed[c]
      <4>1. Push(c) \/ Interpret(c) \/ HangUp(c) => owed' = owed
        BY DEF Push, Interpret, HangUp
      <4>2. ~Close(c) /\ (Refuse(c) => owed' = owed)
        <5>1. (Close(c) => pc'[c] = "done") /\ (Refuse(c) => owed' = owed)
          BY <1>0 DEF Close, Refuse
        <5> QED
          BY <5>1 DEF Serving
      <4> QED
        BY <2>2, <4>1, <4>2, FlowStep
    <3> QED
      BY <3>1, <3>2 DEF BaselinesOK, Selecting, i
  <2> QED
    BY <2>1, <2>2
<1> QED
  BY <1>3, <1>5, <1>6, <1>7

LEMMA StepStores == TypeInv /\ AnswerOK /\ SweptOK /\ StoresOK /\ [Next]_vars => StoresOK'
<1> SUFFICES ASSUME TypeInv, AnswerOK, SweptOK, StoresOK, [Next]_vars, Unswept'
             PROVE  (PlacedOK /\ PointsOK /\ BaselinesOK)'
  BY DEF StoresOK
<1>1. /\ Unswept /\ appStore' = appStore /\ Grows
      /\ \A a \in Apps : ~SweepSteps(a) /\ ~SweepCheck(a)
  BY UnsweptStep
<1>2. PlacedOK /\ PointsOK /\ BaselinesOK
  BY <1>1 DEF StoresOK
<1>3. \A a \in Apps : ~SweepInstall(a)
  BY <1>1 DEF SweepSteps
<1>4. PlacedOK'
  BY <1>1, <1>2, <1>3, StepPlaced DEF AnswerOK
<1>5. PointsOK'
  BY <1>1, <1>2, <1>3, StepPoints DEF AnswerOK
<1>6. BaselinesOK'
  BY <1>1, <1>2, StepBaselines DEF AnswerOK
<1> QED
  BY <1>4, <1>5, <1>6

LEMMA InitStores == Init => SweptOK /\ StoresOK
<1> SUFFICES ASSUME Init PROVE SweptOK /\ StoresOK
  OBVIOUS
<1>1. SweptOK
  BY DEF Init, SweptOK, Idle, Sweeps
<1>2. PlacedOK
  BY DEF Init, PlacedOK, NewState
<1>3. PointsOK
  BY DEF Init, PointsOK, NewState, ZeroHead, InStore, Idle
<1>4. BaselinesOK
  BY DEF Init, BaselinesOK, Serving
<1> QED
  BY <1>1, <1>2, <1>3, <1>4 DEF StoresOK

\* Whatever is pointed at, or is about to be, is in the store it is to be read
\* from until the first sweep; every sweep puts in place a store of its own.
THEOREM StoresKept == Spec => [](SweptOK /\ StoresOK)
<1>1. Init => SweptOK /\ StoresOK
  BY InitStores
<1>2. TypeInv /\ AnswerOK /\ (SweptOK /\ StoresOK) /\ [Next]_vars => (SweptOK /\ StoresOK)'
  BY StepSwept, StepStores
<1> QED
  BY <1>1, <1>2, TypesKept, AnswersKept, PTL DEF Spec

\* Until the first sweep begins, no push is refused by the store it is selected
\* from: SetHead, Publish and Prepare load what they point at before they do,
\* and a baseline is never one of another store (push, refState.current).
THEOREM PushesAreSelected == Spec => [](Unswept => PushesSelect)
<1>1. StoresOK => (Unswept => PushesSelect)
  BY DEF StoresOK, BaselinesOK, PushesSelect, Selects, Has, InStore, Serving
<1> QED
  BY <1>1, StoresKept, PTL

-----------------------------------------------------------------------------
(* Sweeps.                                                                  *)

\* The application makes its calls one after the other.
OneCaller == \A a, b \in Apps : a = b

ServedFrom(store, r) ==
  state[refs[r]].store = store /\ InStore(store, state[refs[r]].head.hash)

\* A published ref that a sweep has yet to come to can still be given its head.
Due(a, r) ==
  /\ InStore(call[a].store, Wanted(call[a].named, r).hash)
  /\ call[a].named[r] # Unnamed => WouldMove(state[refs[r]], call[a].named[r])

\* The sweep has come to all but these of the published refs.
Through(a, left) ==
  \A r \in PublishedRefs :
    /\ r \in left => ServedFrom(appStore, r) /\ Due(a, r)
    /\ r \notin left => ServedFrom(call[a].store, r)

ServedOK ==
  /\ \A a \in Apps : call[a].at \in {"move", "publish"} /\ state[call[a].st].published =>
       InStore(appStore, call[a].head.hash)
  /\ (\A a \in Apps : call[a].at \notin Sweeps) => \A r \in PublishedRefs : ServedFrom(appStore, r)
  /\ \A a \in Apps : call[a].at \in Sweeps => Through(a, Left(a))

\* The published refs are served as they were.
SamePublished ==
  \A r \in PublishedRefs' :
    /\ r \in PublishedRefs /\ refs'[r] = refs[r]
    /\ state'[refs[r]].store = state[refs[r]].store
    /\ SameHead(state'[refs[r]], state[refs[r]])

LEMMA ContentPublished ==
  ASSUME TypeInv, SameContent, \A r \in Refs : refs'[r] \in {0, refs[r]}
  PROVE  SamePublished
<1>1. \A r \in Refs : refs[r] # 0 => refs[r] \in StateIds
  BY DEF TypeInv, TypeOK, StateIds
<1> QED
  BY <1>1 DEF SameContent, SamePublished, PublishedRefs

\* Nobody who comes, goes or prepares disturbs a published ref.
LEMMA ConnsPublished ==
  ASSUME TypeInv, PrepOK, NEW c \in Conns, Serves(c) \/ Reads(c) \/ Clients(c)
  PROVE  SamePublished
<1>0. /\ refs \in [Refs -> 0..MaxStates] /\ made \in Nat
      /\ \A r \in Refs : refs[r] # 0 => refs[r] \in StateIds /\ refs[r] \in 1..made
  BY DEF TypeInv, TypeOK, StateIds, RegistryOK
<1>1. ASSUME UNCHANGED entries PROVE SamePublished
  <2>1. SameContent
    BY <1>1 DEF SameContent, SameHead
  <2> QED
    BY <1>1, <2>1, ContentPublished
<1>2. CASE Reads(c)
  BY <1>1, <1>2 DEF Reads, ReadAck, ReadFails
<1>3. CASE Interpret(c) \/ HangUp(c)
  BY <1>1, <1>3 DEF Interpret, HangUp
<1>4. CASE Walk(c)
  BY <1>1, <1>4 DEF Walk
<1>5. CASE Passes(c)
  <2>1. \A r \in Refs : refs'[r] \in {0, refs[r]}
    <3>1. \/ refs' = refs
          \/ Unlist(c) /\ refs' = Forget(reg[c].ref, my[c])
      BY <1>5 DEF Passes, JoinRetiring, Retired, JoinMembers, Leave, Unsubscribed, Release,
                  Unlist, Close, Dial
    <3> QED
      BY <1>0, <3>1 DEF Forget
  <2> QED
    BY <1>5, <2>1, PassesContent, ContentPublished
<1>6. CASE Settles(c)
  <2>1. \A r \in Refs : refs'[r] \in {0, refs[r]}
    <3>1. refs' = refs \/ refs' = Forget(reg[c].ref, my[c])
      BY <1>6, SettlesState
    <3> QED
      BY <1>0, <3>1 DEF Forget
  <2>2. /\ \A j \in StateIds \ {my[c]} : state'[j] = state[j]
        /\ ~state'[my[c]].published
    BY <1>6, SettlesContent, SettlesState DEF PrepOK
  <2>3. ASSUME NEW r \in PublishedRefs'
        PROVE  r \in PublishedRefs /\ refs'[r] = refs[r] /\ state'[refs[r]] = state[refs[r]]
    <3>1. r \in Refs /\ refs'[r] # 0 /\ state'[refs'[r]].published
      BY DEF PublishedRefs
    <3>2. refs'[r] = refs[r] /\ refs[r] \in StateIds
      BY <1>0, <2>1, <3>1
    <3>3. refs[r] # my[c]
      BY <2>2, <3>1, <3>2
    <3> QED
      BY <2>2, <3>1, <3>2, <3>3 DEF PublishedRefs
  <2> QED
    BY <2>3 DEF SamePublished, SameHead
<1>7. CASE JoinFirst(c)
  <2>1. /\ made' = made + 1 /\ refs' = [refs EXCEPT ![reg[c].ref] = made + 1]
        /\ \A j \in StateIds \ {made'} : state'[j] = state[j]
        /\ state'[made'] = [NewState EXCEPT !.members = {c}]
    BY <1>7, MakesState DEF JoinFirst
  <2>2. ~state'[made'].published
    BY <2>1 DEF NewState
  <2>3. ASSUME NEW r \in PublishedRefs'
        PROVE  r \in PublishedRefs /\ refs'[r] = refs[r] /\ state'[refs[r]] = state[refs[r]]
    <3>1. r \in Refs /\ refs'[r] # 0 /\ state'[refs'[r]].published
      BY DEF PublishedRefs
    <3>2. refs'[r] = refs[r]
      BY <1>0, <2>1, <2>2, <3>1
    <3>3. refs[r] \in StateIds /\ refs[r] # made'
      BY <1>0, <2>1, <3>1, <3>2
    <3> QED
      BY <2>1, <3>1, <3>2, <3>3 DEF PublishedRefs
  <2> QED
    BY <2>3 DEF SamePublished, SameHead
<1> QED
  BY <1>2, <1>3, <1>4, <1>5, <1>6, <1>7, ServesWalks DEF Clients, Passes

\* Whoever is served as before is served from the same store.
LEMMA ServedStays ==
  ASSUME TypeInv, Grows, SamePublished, NEW store \in Stores,
         NEW r \in PublishedRefs', ServedFrom(store, r)
  PROVE  /\ state'[refs'[r]].store = store
         /\ state'[refs'[r]].head.hash \in holds'[store] \cup {Void}
BY StaysInStore DEF SamePublished, SameHead, ServedFrom

LEMMA ConnsServed ==
  ASSUME TypeInv, PrepOK, ServedOK, [Next]_vars, call' = call, appStore' = appStore, Grows,
         SamePublished
  PROVE  ServedOK'
<1>0. /\ appStore \in Stores /\ \A a \in Apps : call[a].store \in Stores
  BY DEF TypeInv, TypeOK, Call
<1>1. ASSUME NEW a \in Apps, call[a].at \in {"move", "publish"}, state'[call[a].st].published
      PROVE  call[a].head.hash \in holds'[appStore] \cup {Void}
  <2>1. call[a].st \in 1..made
    BY <1>1 DEF TypeInv, CallOK
  <2>2. state[call[a].st].published
    BY <1>1, <2>1, AnswersStay
  <2> QED
    BY <1>0, <1>1, <2>2, StaysInStore DEF ServedOK
<1>2. ASSUME \A a \in Apps : call[a].at \notin Sweeps, NEW r \in PublishedRefs'
      PROVE  ServedFrom(appStore, r)'
  <2>1. ServedFrom(appStore, r)
    BY <1>2 DEF ServedOK, SamePublished
  <2> QED
    BY <1>0, <2>1, ServedStays DEF ServedFrom, InStore
<1>3. ASSUME NEW a \in Apps, call[a].at \in Sweeps, NEW r \in PublishedRefs'
      PROVE  /\ r \in Left(a) => ServedFrom(appStore, r)' /\ Due(a, r)'
             /\ r \notin Left(a) => ServedFrom(call[a].store, r)'
  <2>1. r \in PublishedRefs /\ Through(a, Left(a))
    BY <1>3 DEF ServedOK, SamePublished
  <2>2. ASSUME r \in Left(a) PROVE ServedFrom(appStore, r)'
    <3>1. ServedFrom(appStore, r)
      BY <2>1, <2>2 DEF Through
    <3> QED
      BY <1>0, <3>1, ServedStays DEF ServedFrom, InStore
  <2>3. ASSUME r \notin Left(a) PROVE ServedFrom(call[a].store, r)'
    <3>1. ServedFrom(call[a].store, r)
      BY <2>1, <2>3 DEF Through
    <3> QED
      BY <1>0, <3>1, ServedStays DEF ServedFrom, InStore
  <2>4. ASSUME r \in Left(a) PROVE Due(a, r)'
    <3>1. Due(a, r)
      BY <2>1, <2>4 DEF Through
    <3>2. refs'[r] = refs[r] /\ SameHead(state'[refs[r]], state[refs[r]])
      BY DEF SamePublished
    <3>3. Wanted(call[a].named, r)' = Wanted(call[a].named, r)
      BY <3>2 DEF Wanted, SameHead
    <3>4. Wanted(call[a].named, r).hash \in holds'[call[a].store] \cup {Void}
      BY <1>0, <3>1, StaysInStore DEF Due
    <3>5. call[a].named[r] # Unnamed => WouldMove(state'[refs'[r]], call[a].named[r])
      BY <3>1, <3>2 DEF Due, WouldMove, Allows, Advances, SameHead
    <3> QED
      BY <3>3, <3>4, <3>5 DEF Due, InStore
  <2> QED
    BY <2>2, <2>3, <2>4
<1>4. \A a \in Apps : Left(a)' = Left(a)
  BY DEF Left
<1>5. \A a \in Apps : call[a].at \in Sweeps => Through(a, Left(a))'
  BY <1>3, <1>4 DEF Through
<1>6. (\A a \in Apps : call[a].at \notin Sweeps) => \A r \in PublishedRefs' : ServedFrom(appStore, r)'
  BY <1>2
<1> QED
  BY <1>1, <1>5, <1>6 DEF ServedOK, InStore

\* What a call that is no sweep leaves the published refs, ...
LEMMA CallsServed ==
  ASSUME TypeInv, OneCaller, ServedOK, [Next]_vars, NEW a \in Apps,
         Begins(a) \/ Continues(a), ~SweepSteps(a), ~SweepCheck(a),
         NEW r \in PublishedRefs'
  PROVE  ServedFrom(appStore, r)'
<1>0. /\ refs \in [Refs -> 0..MaxStates] /\ made \in Nat /\ appStore \in Stores
      /\ \A q \in Refs : refs[q] # 0 => refs[q] \in StateIds /\ refs[q] \in 1..made
  BY DEF TypeInv, TypeOK, StateIds, RegistryOK
<1>1. /\ appStore' = appStore /\ Grows
      /\ \A q \in PublishedRefs : ServedFrom(appStore, q)
  BY CallsFeed DEF ServedOK, OneCaller
<1>2. ASSUME SamePublished PROVE ServedFrom(appStore, r)'
  <2>1. ServedFrom(appStore, r)
    BY <1>1, <1>2 DEF SamePublished
  <2> QED
    BY <1>0, <1>1, <1>2, <2>1, ServedStays DEF ServedFrom, InStore
<1>3. ASSUME UNCHANGED <<state, made>>, \A q \in Refs : refs'[q] \in {0, refs[q]}
      PROVE  SamePublished
  <2>1. SameContent
    BY <1>3 DEF SameContent, SameHead
  <2> QED
    BY <1>3, <2>1, ContentPublished
<1>4. CASE UNCHANGED entries
  BY <1>2, <1>3, <1>4
<1>5. CASE SetHeadFind(a) \/ SetHeadWake(a)
  BY <1>4, <1>5 DEF SetHeadFind, SetHeadWake
<1>6. CASE CloseOne(a) \/ Stop(a) \/ StopListener(a)
  BY <1>4, <1>6 DEF CloseOne, Stop, StopListener
<1>7. CASE Unpublish(a)
  <2>1. PICK ref \in PublishedRefs : refs' = [refs EXCEPT ![ref] = 0]
    BY <1>7 DEF Unpublish
  <2>2. UNCHANGED <<state, made>>
    BY <1>7 DEF Unpublish
  <2> QED
    BY <1>0, <1>2, <1>3, <2>1, <2>2
<1>8. CASE PublishInsert(a)
  <2>1. PICK ref \in Refs : refs' = [refs EXCEPT ![ref] = made + 1]
    BY <1>8 DEF PublishInsert
  <2> DEFINE new == [NewState EXCEPT !.published = TRUE, !.prepared = TRUE,
                                     !.store = appStore]
  <2>2. new.store = appStore /\ new.head = ZeroHead
    BY DEF NewState
  <2> HIDE DEF new
  <2>3. /\ made' = made + 1 /\ state'[made'] = new
        /\ \A j \in StateIds \ {made'} : state'[j] = state[j]
    BY <1>8, MakesState DEF new
  <2>4. r \in Refs /\ refs'[r] # 0 /\ state'[refs'[r]].published
    BY DEF PublishedRefs
  <2>5. CASE refs'[r] = made'
    <3>1. state'[refs'[r]].store = appStore /\ state'[refs'[r]].head.hash = Void
      BY <2>2, <2>3, <2>5 DEF ZeroHead
    <3> QED
      BY <1>1, <3>1 DEF ServedFrom, InStore
  <2>6. CASE refs'[r] # made'
    <3>1. refs'[r] = refs[r] /\ refs[r] \in StateIds /\ state'[refs[r]] = state[refs[r]]
      BY <1>0, <2>1, <2>3, <2>4, <2>6
    <3>2. r \in PublishedRefs
      BY <2>4, <3>1 DEF PublishedRefs
    <3>3. state[refs[r]].store = appStore /\ InStore(appStore, state[refs[r]].head.hash)
      BY <1>1, <3>2 DEF ServedFrom
    <3>4. state[refs[r]].head.hash \in holds'[appStore] \cup {Void}
      BY <1>0, <1>1, <3>3, StaysInStore
    <3> QED
      BY <1>1, <3>1, <3>3, <3>4 DEF ServedFrom, InStore
  <2> QED
    BY <2>5, <2>6
<1>9. CASE SetHeadMove(a) \/ PublishMove(a)
  <2>1. r \in Refs /\ refs'[r] # 0 /\ state'[refs'[r]].published
    BY DEF PublishedRefs
  <2>2. refs'[r] = refs[r] /\ refs[r] \in StateIds
    <3>1. refs' = refs \/ refs' = Forget(call[a].ref, call[a].st)
      BY <1>9 DEF SetHeadMove, PublishMove
    <3> QED
      BY <1>0, <2>1, <3>1 DEF Forget
  <2>3. state[refs[r]].published /\ state'[refs[r]].store = state[refs[r]].store
    BY <1>9, <2>1, <2>2, MovesContent
  <2>4. state[refs[r]].store = appStore /\ InStore(appStore, state[refs[r]].head.hash)
    BY <1>1, <2>1, <2>2, <2>3 DEF ServedFrom, PublishedRefs
  <2>5. InStore(appStore, state'[refs[r]].head.hash)
    <3>1. CASE refs[r] # call[a].st
      BY <1>9, <2>2, <2>4, <3>1, MovesContent
    <3>2. CASE refs[r] = call[a].st
      <4>1. call[a].at \in {"move", "publish"}
        BY <1>9, MovesContent
      <4>2. InStore(appStore, call[a].head.hash)
        BY <2>3, <3>2, <4>1 DEF ServedOK
      <4>3. state'[refs[r]].head \in {state[refs[r]].head, call[a].head}
        BY <1>9, <3>2, MovesContent
      <4> QED
        BY <2>4, <4>2, <4>3
    <3> QED
      BY <3>1, <3>2
  <2>6. state'[refs[r]].head.hash \in holds'[appStore] \cup {Void}
    BY <1>0, <1>1, <2>5, StaysInStore
  <2> QED
    BY <1>1, <2>2, <2>3, <2>4, <2>6 DEF ServedFrom, InStore
<1> QED
  BY <1>5, <1>6, <1>7, <1>8, <1>9 DEF Begins, Continues, SweepSteps

\* ... and a sweep, when it begins ...
LEMMA SweepServed ==
  ASSUME TypeInv, OneCaller, ServedOK, NEW a \in Apps, SweepCheck(a)
  PROVE  Through(a, Left(a))'
<1>0. /\ appStore \in Stores /\ appStore + 1 # appStore /\ appStore + 1 \in Stores
      /\ holds \in [Stores -> SUBSET Hashes]
  <2>1. appStore \in Nat
    BY DEF TypeInv, TypeOK, Stores
  <2> QED
    BY <2>1, SweepBegins DEF TypeInv, TypeOK
<1>1. /\ call'[a].at = "install" /\ call'[a].store = appStore + 1
      /\ call'[a].refs = PublishedRefs /\ call[a] = Idle
      /\ UNCHANGED <<refs, state, appStore>>
  BY SweepBegins
<1>2. PICK kept \in SUBSET Hashes :
        /\ Sweepable(call'[a].named, kept)
        /\ holds' = [holds EXCEPT ![appStore + 1] = kept]
  BY SweepBegins
<1>3. holds'[appStore] = holds[appStore] /\ holds'[appStore + 1] = kept
  BY <1>0, <1>2
<1>4. \A r \in PublishedRefs : ServedFrom(appStore, r)
  BY <1>1 DEF ServedOK, OneCaller, Idle, Sweeps
<1>5. ASSUME NEW r \in PublishedRefs' PROVE ServedFrom(appStore, r)' /\ Due(a, r)'
  <2>1. r \in PublishedRefs
    BY <1>1 DEF PublishedRefs
  <2>2. /\ Wanted(call'[a].named, r).hash \in kept \cup {Void}
        /\ call'[a].named[r] # Unnamed => WouldMove(state[refs[r]], call'[a].named[r])
    BY <1>2, <2>1 DEF Sweepable
  <2>3. Due(a, r)'
    BY <1>1, <1>3, <2>2 DEF Due, Wanted, InStore
  <2>4. ServedFrom(appStore, r)'
    BY <1>1, <1>3, <1>4, <2>1 DEF ServedFrom, InStore
  <2> QED
    BY <2>3, <2>4
<1>6. Left(a)' = PublishedRefs'
  BY <1>1 DEF Left, PublishedRefs
<1> QED
  BY <1>5, <1>6 DEF Through

\* ... and goes on: the published refs as a step of the sweep leaves them.
Midway(a, left) ==
  \A r \in PublishedRefs' :
    /\ r \in left =>
         /\ state'[refs[r]].store = appStore
         /\ InStore(appStore, state'[refs[r]].head.hash)
         /\ call[a].named[r] = Unnamed => InStore(call[a].store, state'[refs[r]].head.hash)
         /\ call[a].named[r] # Unnamed =>
              /\ InStore(call[a].store, call[a].named[r].hash)
              /\ WouldMove(state'[refs[r]], call[a].named[r])
    /\ r \notin left =>
         /\ state'[refs[r]].store = call[a].store
         /\ InStore(call[a].store, state'[refs[r]].head.hash)

LEMMA MidwayServed ==
  ASSUME OneCaller, NEW a \in Apps, NEW left, UNCHANGED <<refs, holds>>,
         GoesOn(a, left), Midway(a, left)
  PROVE  ServedOK'
<1>1. CASE left = {} /\ call'[a] = Idle /\ appStore' = call[a].store
  <2>1. \A b \in Apps : call'[b].at = "idle"
    BY <1>1 DEF OneCaller, Idle
  <2>2. ASSUME NEW r \in PublishedRefs' PROVE ServedFrom(appStore, r)'
    BY <1>1 DEF Midway, ServedFrom, InStore
  <2> QED
    BY <2>1, <2>2 DEF ServedOK, Sweeps
<1>2. CASE /\ call'[a].at \in Sweeps /\ Left(a)' = left /\ appStore' = appStore
           /\ call'[a].store = call[a].store /\ call'[a].named = call[a].named
  <2>1. ASSUME NEW r \in PublishedRefs'
        PROVE  /\ r \in left => ServedFrom(appStore, r)' /\ Due(a, r)'
               /\ r \notin left => ServedFrom(call[a].store, r)'
    <3>1. r \in left => ServedFrom(appStore, r)'
      BY <1>2 DEF Midway, ServedFrom, InStore
    <3>2. r \in left => Due(a, r)'
      BY <1>2 DEF Midway, Due, Wanted, InStore
    <3>3. r \notin left => ServedFrom(call[a].store, r)'
      BY <1>2 DEF Midway, ServedFrom, InStore
    <3> QED
      BY <3>1, <3>2, <3>3
  <2>2. Through(a, Left(a))'
    BY <1>2, <2>1 DEF Through
  <2>3. \A b \in Apps : b = a
    BY DEF OneCaller
  <2>4. call'[a].at \notin {"move", "publish"}
    BY <1>2 DEF Sweeps
  <2> QED
    BY <1>2, <2>2, <2>3, <2>4 DEF ServedOK
<1> QED
  BY <1>1, <1>2 DEF GoesOn

LEMMA SweepingServed ==
  ASSUME TypeInv, EntriesOK, SweptOK, OneCaller, ServedOK, NEW a \in Apps, SweepSteps(a)
  PROVE  ServedOK'
<1>0. /\ state \in [StateIds -> RefState] /\ call[a] \in Call
      /\ \A r \in Refs : refs[r] # 0 => refs[r] \in StateIds
  BY DEF TypeInv, TypeOK, StateIds
<1>1. /\ call[a].at \in Sweeps /\ UNCHANGED <<refs, holds>>
      /\ \/ state' = state /\ GoesOn(a, Left(a))
         \/ /\ call[a].at = "install"
            /\ \E r \in call[a].refs :
                 /\ GoesOn(a, call[a].refs \ {r})
                 /\ state' = [state EXCEPT ![refs[r]] =
                                IF call[a].named[r] # Unnamed
                                THEN Install(@, call[a].store, call[a].named[r])
                                ELSE [@ EXCEPT !.store = call[a].store]]
  BY SweepGoes DEF SweptOK
<1>2. Through(a, Left(a))
  BY <1>1 DEF ServedOK
<1>3. ASSUME NEW r \in PublishedRefs
      PROVE  /\ r \in Left(a) =>
                  /\ state[refs[r]].store = appStore
                  /\ InStore(appStore, state[refs[r]].head.hash)
                  /\ call[a].named[r] = Unnamed => InStore(call[a].store, state[refs[r]].head.hash)
                  /\ call[a].named[r] # Unnamed =>
                       /\ InStore(call[a].store, call[a].named[r].hash)
                       /\ WouldMove(state[refs[r]], call[a].named[r])
             /\ r \notin Left(a) =>
                  /\ state[refs[r]].store = call[a].store
                  /\ InStore(call[a].store, state[refs[r]].head.hash)
  BY <1>2 DEF Through, ServedFrom, Due, Wanted
<1>4. CASE state' = state /\ GoesOn(a, Left(a))
  <2>1. PublishedRefs' = PublishedRefs
    BY <1>1, <1>4 DEF PublishedRefs
  <2>2. Midway(a, Left(a))
    BY <1>3, <1>4, <2>1 DEF Midway
  <2> QED
    BY <1>1, <1>4, <2>2, MidwayServed
<1>5. ASSUME call[a].at = "install", NEW r0 \in call[a].refs,
             GoesOn(a, call[a].refs \ {r0}),
             state' = [state EXCEPT ![refs[r0]] =
                         IF call[a].named[r0] # Unnamed
                         THEN Install(@, call[a].store, call[a].named[r0])
                         ELSE [@ EXCEPT !.store = call[a].store]]
      PROVE  ServedOK'
  <2> DEFINE i    == refs[r0]
             head == call[a].named[r0]
             st   == state[i]
             new  == IF head # Unnamed THEN Install(st, call[a].store, head)
                     ELSE [st EXCEPT !.store = call[a].store]
  <2>1. r0 \in PublishedRefs /\ call[a].named \in Named
    BY <1>1 DEF TypeInv, CallOK
  <2>2. i \in StateIds /\ st \in RefState /\ Left(a) = call[a].refs /\ r0 \in Refs
        /\ call[a].store \in Stores
    BY <1>0, <1>5, <2>1 DEF PublishedRefs, Left, Call
  <2>3. state'[i] = new /\ \A j \in StateIds \ {i} : state'[j] = state[j]
    BY <1>0, <1>5, <2>2
  <2>4. head # Unnamed => head \in AnyHead
    BY <2>1, <2>2
  <2>5. /\ new.store = call[a].store /\ new.published = st.published
        /\ InStore(call[a].store, new.head.hash)
    <3>1. CASE head = Unnamed
      <4>1. InStore(call[a].store, st.head.hash)
        BY <1>3, <2>1, <2>2, <3>1
      <4>2. /\ new.store = call[a].store /\ new.published = st.published
            /\ new.head = st.head
        BY <2>2, <3>1 DEF RefState
      <4> QED
        BY <4>1, <4>2
    <3>2. CASE head # Unnamed
      <4> DEFINE put == [st EXCEPT !.store = call[a].store]
      <4>1. put \in RefState /\ put.store = call[a].store /\ put.published = st.published
        BY <2>2 DEF RefState
      <4>2. InStore(call[a].store, head.hash) /\ WouldMove(st, head)
        BY <1>3, <2>1, <2>2, <3>2
      <4>3. Move(st, head).head = head
        BY <2>2, <4>2 DEF Move, Moves, WouldMove, RefState
      <4>4. SameHead(Move(put, head), Move(st, head))
        BY <2>2, <2>4, <3>2, MoveApart
      <4>5. new = Move(put, head)
        BY <3>2 DEF Install
      <4> HIDE DEF put, new
      <4>6. new.store = put.store /\ new.published = put.published
        BY <2>4, <3>2, <4>1, <4>5, MoveKeeps
      <4>7. new.head = head
        BY <4>3, <4>4, <4>5 DEF SameHead
      <4> QED
        BY <4>1, <4>2, <4>6, <4>7
    <3> QED
      BY <3>1, <3>2
  <2> HIDE DEF new
  <2>6. ASSUME NEW r \in PublishedRefs', r # r0
        PROVE  r \in PublishedRefs /\ state'[refs[r]] = state[refs[r]]
    <3>1. r \in Refs /\ refs[r] # 0 /\ state'[refs[r]].published
      BY <1>1 DEF PublishedRefs
    <3>2. refs[r] # i
      BY <2>1, <2>2, <2>6, <3>1 DEF EntriesOK
    <3> QED
      BY <1>0, <2>3, <3>1, <3>2 DEF PublishedRefs
  <2>7. Midway(a, call[a].refs \ {r0})
    <3>1. ASSUME NEW r \in PublishedRefs', r # r0
          PROVE  /\ r \in PublishedRefs /\ state'[refs[r]] = state[refs[r]]
                 /\ r \in call[a].refs \ {r0} <=> r \in Left(a)
      BY <2>2, <2>6, <3>1
    <3>2. state'[refs[r0]].store = call[a].store /\ InStore(call[a].store, state'[refs[r0]].head.hash)
      BY <2>3, <2>5
    <3> QED
      BY <1>3, <3>1, <3>2 DEF Midway
  <2> QED
    BY <1>1, <1>5, <2>7, MidwayServed
<1> QED
  BY <1>1, <1>4, <1>5

LEMMA StepServed ==
  TypeInv /\ RegOK /\ AnswerOK /\ SweptOK /\ OneCaller /\ ServedOK /\ [Next]_vars => ServedOK'
<1> SUFFICES ASSUME TypeInv, RegOK, AnswerOK, SweptOK, OneCaller, ServedOK, [Next]_vars
             PROVE  ServedOK'
  OBVIOUS
<1>0. EntriesOK /\ PrepOK
  BY DEF RegOK, AnswerOK
<1>1. CASE UNCHANGED vars
  <2>1. /\ call' = call /\ appStore' = appStore /\ Grows
        /\ UNCHANGED <<refs, state, made>>
    BY <1>1 DEF vars, Grows
  <2>2. SamePublished
    <3>1. SameContent
      BY <2>1 DEF SameContent, SameHead
    <3> QED
      BY <2>1, <3>1, ContentPublished
  <2> QED
    BY <1>0, <2>1, <2>2, ConnsServed
<1>2. ASSUME NEW c \in Conns, Serves(c) \/ Reads(c) \/ Clients(c) PROVE ServedOK'
  <2>1. call' = call /\ appStore' = appStore /\ Grows
    BY <1>2, ConnsFeed, ConnsCall DEF Feeds
  <2>2. SamePublished
    BY <1>0, <1>2, ConnsPublished
  <2> QED
    BY <1>0, <2>1, <2>2, ConnsServed
<1>3. ASSUME NEW a \in Apps, Begins(a) \/ Continues(a) PROVE ServedOK'
  <2>0. \A b \in Apps : b = a
    BY DEF OneCaller
  <2>1. CASE SweepSteps(a)
    BY <1>0, <2>1, SweepingServed
  <2>2. CASE SweepCheck(a)
    <3>1. call'[a].at = "install"
      BY <2>2, SweepBegins
    <3>2. Through(a, Left(a))'
      BY <2>2, SweepServed
    <3> QED
      BY <2>0, <3>1, <3>2 DEF ServedOK, Sweeps
  <2>3. CASE ~SweepSteps(a) /\ ~SweepCheck(a)
    <3>1. call'[a].at \notin Sweeps
      BY <1>3, <2>3, CallsFeed
    <3>2. \A r \in PublishedRefs' : ServedFrom(appStore, r)'
      BY <1>3, <2>3, CallsServed
    <3>3. ASSUME call'[a].at \in {"move", "publish"}, state'[call'[a].st].published
          PROVE  InStore(appStore, call[a].head.hash)'
      <4>1. Begins(a)
        BY <1>3, <3>3, ContinuesCall
      <4>2. Loaded(a)'
        BY <3>3, <4>1, CallsLoad
      <4> QED
        BY <3>3, <4>2 DEF Loaded, StoreOf
    <3> QED
      BY <2>0, <3>1, <3>2, <3>3 DEF ServedOK
  <2> QED
    BY <2>1, <2>2, <2>3
<1> QED
  BY <1>1, <1>2, <1>3 DEF Next, Rest

LEMMA InitServed == Init => ServedOK
<1> SUFFICES ASSUME Init PROVE ServedOK
  OBVIOUS
<1>1. PublishedRefs = {}
  BY DEF Init, PublishedRefs
<1>2. \A a \in Apps : call[a].at = "idle"
  BY DEF Init, Idle
<1> QED
  BY <1>1, <1>2 DEF ServedOK, Sweeps

\* An application that makes its calls one after the other never has a published
\* ref point at a tree that the store of that ref lacks, not even while Sweep
\* puts the refs into their new store one by one (Sweep, refState.current).
THEOREM PublishedRefsAreServed ==
  ASSUME OneCaller PROVE Spec => []PublishedIsServed
<1>1. TypeInv /\ ServedOK => PublishedIsServed
  <2> SUFFICES ASSUME TypeInv, ServedOK, NEW r \in PublishedRefs
               PROVE  state[refs[r]].head.hash \in holds[state[refs[r]].store] \cup {Void}
    BY DEF PublishedIsServed
  <2>1. \E store : ServedFrom(store, r)
    BY DEF ServedOK, Through
  <2> QED
    BY <2>1 DEF ServedFrom, InStore
<1>2. Init => ServedOK
  BY InitServed
<1>3. TypeInv /\ RegOK /\ AnswerOK /\ SweptOK /\ ServedOK /\ [Next]_vars => ServedOK'
  BY StepServed
<1>4. Spec => [](SweptOK /\ StoresOK)
  BY StoresKept
<1> QED
  BY <1>1, <1>2, <1>3, <1>4, TypesKept, RegistryKept, AnswersKept, PTL DEF Spec

-----------------------------------------------------------------------------
(* Synced and Head.  Where every head has a sequence of its own and a tree of *)
(* its own, a subscriber that is said to hold the tree its ref is at has been *)
(* sent no other since.                                                       *)

\* The heads the application and its provider name are one history.
OneHistory ==
  /\ \A h \in Headings : Ordered(h) /\ h.hash # Void
  /\ \A g, h \in Headings : g.seq = h.seq \/ g.hash = h.hash => g = h

\* Refs point into that history, and so does what is owed; a subscriber is owed
\* nothing older than the head whose tree it is said to hold, unless it has come
\* with that tree.
HistoryOK ==
  /\ \A i \in StateIds : state[i].head \in Headings \cup {ZeroHead}
  /\ \A c \in Conns : owed[c].head \in Headings \cup {ZeroHead}
  /\ \A c \in Conns, h \in Headings :
       h.hash = synced[c] => h.seq <= owed[c].head.seq \/ Brought(c)
  /\ \A c \in Conns : pc[c] \in Arriving \cup {"idle"} => latest[c] = ZeroHead

\* Where a baseline comes from.
LEMMA SyncedStep ==
  ASSUME TypeInv, [Next]_vars, NEW c \in Conns
  PROVE  synced'[c] \in {synced[c], Void} \/ Register(c) \/ Record(c)
<1>0. synced \in [Conns -> Trees]
  BY DEF TypeInv, TypeOK
<1>1. ASSUME NEW d \in Conns, Serves(d) \/ Reads(d) \/ Clients(d)
      PROVE  synced'[c] \in {synced[c], Void} \/ Register(c) \/ Record(c)
  <2>1. synced'[c] = synced[c] \/ Register(c) \/ Ready(c) \/ Record(c) \/ Close(c)
    <3>1. Feeds(d)
      BY <1>1, ConnsFeed
    <3>2. CASE c = d
      BY <3>1, <3>2 DEF Feeds
    <3>3. CASE c # d
      BY <3>1, <3>3 DEF Feeds
    <3> QED
      BY <3>2, <3>3
  <2>2. Ready(c) => synced'[c] \in {synced[c], Void}
    BY <1>0 DEF Ready, Baseline
  <2>3. Close(c) => synced'[c] = Void
    BY <1>0 DEF Close
  <2> QED
    BY <2>1, <2>2, <2>3
<1>2. ASSUME NEW a \in Apps, SweepSteps(a) \/ SweepCheck(a)
      PROVE  synced'[c] \in {synced[c], Void}
  BY <1>0, <1>2 DEF SweepSteps, SweepInstall, SweepKeeps, SweepDrops, SweepResets, SweepCheck
<1>3. ASSUME NEW a \in Apps, Begins(a) \/ Continues(a)
      PROVE  synced'[c] \in {synced[c], Void}
  BY <1>2, <1>3, CallsFeed
<1>4. CASE UNCHANGED vars
  BY <1>4 DEF vars
<1> QED
  BY <1>1, <1>3, <1>4 DEF Next, Rest

LEMMA StepRefHeads ==
  ASSUME TypeInv, NamedOK, HistoryOK, [Next]_vars, NEW i \in StateIds
  PROVE  state'[i].head \in Headings \cup {ZeroHead}
<1>1. CASE SameHead(state'[i], state[i])
  BY <1>1 DEF SameHead, HistoryOK
<1>2. CASE SameHead(state'[i], NewState)
  BY <1>2 DEF SameHead, NewState
<1>3. ASSUME NEW head \in AnyHead, head \in Headings \/ \E a \in Apps : Carries(a, head),
             SameHead(state'[i], Move(state[i], head))
      PROVE  state'[i].head \in Headings \cup {ZeroHead}
  <2>1. head \in Headings
    BY <1>3 DEF Carries, NamedOK
  <2>2. state[i] \in RefState
    BY DEF TypeInv, TypeOK
  <2>3. Move(state[i], head).head \in {head, state[i].head}
    BY <2>2 DEF Move, RefState
  <2> QED
    BY <1>3, <2>1, <2>3 DEF SameHead, HistoryOK
<1> QED
  BY <1>1, <1>2, <1>3, HeadsMove

\* What a client registers with, and what it has interpreted last, stays.
LEMMA ClientStays ==
  ASSUME TypeInv, [Next]_vars, NEW c \in Conns
  PROVE  /\ reg'[c] = reg[c] \/ Dial(c)
         /\ latest'[c] = latest[c] \/ Interpret(c)
<1>0. reg \in [Conns -> Registrations \cup {Garbage}]
  BY DEF TypeInv, TypeOK
<1>1. ASSUME NEW d \in Conns, Settles(d) PROVE reg' = reg
  BY <1>1, SettlesState
<1>2. ASSUME NEW d \in Conns, Walk(d) PROVE reg' = reg
  BY <1>2 DEF Walk
<1>3. ASSUME NEW d \in Conns, JoinRetiring(d) \/ Retired(d) \/ JoinMembers(d) \/ JoinFirst(d)
      PROVE  reg' = reg
  BY <1>3 DEF JoinRetiring, Retired, JoinMembers, JoinFirst
<1>4. ASSUME NEW d \in Conns, Leave(d) \/ Unsubscribed(d) \/ Release(d) \/ Unlist(d) \/ Close(d)
      PROVE  reg' = reg
  BY <1>4 DEF Leave, Unsubscribed, Release, Unlist, Close
<1>5. ASSUME NEW d \in Conns, Dial(d) PROVE reg'[c] = reg[c] \/ Dial(c)
  BY <1>0, <1>5 DEF Dial
<1>6. ASSUME NEW a \in Apps, HeadStep(a) PROVE reg' = reg
  BY <1>6, HeadStepState
<1>7. ASSUME NEW a \in Apps, PublishInsert(a) \/ Unpublish(a) PROVE reg' = reg
  BY <1>7 DEF PublishInsert, Unpublish
<1>8. UNCHANGED regVars => reg' = reg
  BY DEF regVars
<1>9. reg'[c] = reg[c] \/ Dial(c)
  BY <1>1, <1>2, <1>3, <1>4, <1>5, <1>6, <1>7, <1>8, RegistryStep
<1>10. Current(c) \/ Push(c) \/ Refuse(c) \/ Close(c) \/ HangUp(c) => latest' = latest
  BY DEF Current, Push, Refuse, Close, HangUp
<1> QED
  BY <1>9, <1>10, FlowStep

LEMMA StepHistory ==
  ASSUME OneHistory, TypeInv, NamedOK, FlowOK, AcksOK, PipeOK, HistoryOK, [Next]_vars
  PROVE  HistoryOK'
<1> SUFFICES ASSUME NEW c \in Conns
             PROVE  /\ owed'[c].head \in Headings \cup {ZeroHead}
                    /\ \A h \in Headings :
                         h.hash = synced'[c] => h.seq <= owed'[c].head.seq \/ Brought(c)'
                    /\ pc'[c] \in Arriving \cup {"idle"} => latest'[c] = ZeroHead
  BY StepRefHeads DEF HistoryOK
<1>5. pc'[c] \in Arriving \cup {"idle"} => latest'[c] = ZeroHead
  <2>1. Interpret(c) => pc[c] \notin Arriving \cup {"idle"}
    BY FlowTypes DEF Interpret, PipeOK, PipeAt, Settled, Arriving
  <2> QED
    BY <2>1, Came, ClientStays DEF HistoryOK
<1>0. /\ synced \in [Conns -> Trees] /\ owed \in [Conns -> Pair]
      /\ reg \in [Conns -> Registrations \cup {Garbage}] /\ latest \in [Conns -> AnyHead]
      /\ owed[c].head \in Headings \cup {ZeroHead} /\ owed[c].head.seq \in Nat
      /\ \A h \in Headings : h.hash = synced[c] => h.seq <= owed[c].head.seq \/ Brought(c)
      /\ \A h \in Headings : h.hash # Void /\ h.seq \in Nat
      /\ ZeroHead.hash = Void /\ ZeroHead.seq = 0
  BY FlowTypes DEF TypeInv, TypeOK, HistoryOK, OneHistory, AnyHead, ZeroHead
<1>1. CASE Current(c)
  <2>1. /\ pc[c] = "current" /\ owed'[c].head = state[my[c]].head /\ synced' = synced
    BY <1>0, <1>1 DEF Current
  <2>4. Brought(c)' <=> Brought(c)
    BY <1>1 DEF Current, Brought
  <2>2. my[c] \in StateIds /\ owed[c].head.seq <= state[my[c]].head.seq
    BY <2>1, FlowTypes DEF FlowOK, Joined
  <2>3. state[my[c]].head \in Headings \cup {ZeroHead} /\ state[my[c]].head.seq \in Nat
    BY <2>2, FlowTypes DEF HistoryOK
  <2> QED
    BY <1>0, <1>5, <2>1, <2>2, <2>3, <2>4
<1>2. CASE Close(c)
  <2>1. owed'[c].head = ZeroHead /\ synced'[c] = Void
    BY <1>0, <1>2 DEF Close, NoPair
  <2> QED
    BY <1>0, <1>5, <2>1
<1>3. CASE owed'[c] = owed[c]
  <2>1. CASE synced'[c] = Void
    BY <1>0, <1>3, <1>5, <2>1
  <2>2. CASE synced'[c] = synced[c] /\ synced[c] # Void /\ ~Register(c)
    <3>1. CASE Interpret(c)
      <4>1. /\ down[c] # <<>> /\ Head(down[c]).kind = "update" /\ reg' = reg
            /\ latest'[c] = Head(down[c]).head
        BY <1>0, <3>1 DEF Interpret
      <4>2. pc[c] # "done" /\ 1 \in DOMAIN down[c] /\ Head(down[c]) = down[c][1]
        BY <2>2, <4>1, FlowTypes DEF AcksOK
      <4>3. latest'[c] = owed[c].head
        BY <4>1, <4>2 DEF PipeOK, PipeAt
      <4>4. \A h \in Headings : h.hash = owed[c].head.hash => h = owed[c].head
        BY <1>0 DEF OneHistory
      <4> QED
        BY <1>0, <1>3, <1>5, <2>2, <4>1, <4>3, <4>4 DEF Brought
    <3>2. CASE ~Interpret(c)
      <4>1. ~Dial(c)
        BY <2>2 DEF Dial, AcksOK
      <4>2. latest'[c] = latest[c] /\ reg'[c] = reg[c]
        BY <3>2, <4>1, ClientStays
      <4> QED
        BY <1>0, <1>3, <1>5, <2>2, <4>2 DEF Brought
    <3> QED
      BY <3>1, <3>2
  <2>3. CASE Register(c)
    <3>1. /\ synced'[c] = reg[c].hash /\ reg' = reg
          /\ pc[c] = "register" /\ latest' = latest
      BY <1>0, <2>3 DEF Register
    <3>2. latest[c] = ZeroHead
      BY <3>1 DEF HistoryOK, Arriving
    <3> QED
      BY <1>0, <1>3, <1>5, <3>1, <3>2 DEF Brought
  <2>4. CASE Record(c)
    <3>1. synced'[c] = owed[c].head.hash
      BY <1>0, <2>4 DEF Record
    <3>2. \A h \in Headings : h.hash = owed[c].head.hash => h = owed[c].head
      BY <1>0 DEF OneHistory
    <3> QED
      BY <1>0, <1>3, <1>5, <3>1, <3>2
  <2> QED
    BY <2>1, <2>2, <2>3, <2>4, SyncedStep
<1>4. owed'[c] = owed[c] \/ Current(c) \/ Close(c)
  <2>1. Push(c) \/ Refuse(c) \/ Interpret(c) \/ HangUp(c) => owed' = owed
    BY DEF Push, Refuse, Interpret, HangUp
  <2> QED
    BY <2>1, FlowStep
<1> QED
  BY <1>1, <1>2, <1>3, <1>4, <1>5

LEMMA HistoryKept == ASSUME OneHistory PROVE Spec => [](NamedOK /\ HistoryOK)
<1>1. Init => NamedOK /\ HistoryOK
  BY DEF Init, NamedOK, HistoryOK, OneHistory, Idle, NewState, NoPair
<1>2. /\ TypeInv /\ AcksOK /\ PipeOK /\ (HeadOK /\ FlowOK)
      /\ NamedOK /\ HistoryOK /\ [Next]_vars
      => (NamedOK /\ HistoryOK)'
  BY StepNamed, StepHistory
<1> QED
  BY <1>1, <1>2, AcksKept, PipesKept, HeadsFlow, PTL DEF Spec

\* A subscriber that is said to hold what its ref is at is owed nothing else,
\* unless it has come with just that.
LEMMA SyncedIsOwed ==
  ASSUME OneHistory, TypeInv, FlowOK, HistoryOK, NEW c \in Conns, pc[c] \in Joined, ~Brought(c),
         synced[c] = state[my[c]].head.hash
  PROVE  owed[c].head.hash = synced[c]
<1> DEFINE at == state[my[c]].head
<1>0. /\ my[c] \in StateIds /\ owed[c].head.seq <= at.seq /\ at \in Headings \cup {ZeroHead}
      /\ owed[c].head \in Headings \cup {ZeroHead} /\ owed[c].head.seq \in Nat /\ at.seq \in Nat
      /\ ZeroHead.hash = Void /\ ZeroHead.seq = 0
      /\ \A h \in Headings : h.seq # 0 /\ h.seq \in Nat
  BY FlowTypes DEF FlowOK, HistoryOK, ZeroHead, OneHistory, Ordered, AnyHead
<1>1. CASE at = ZeroHead
  BY <1>0, <1>1
<1>2. CASE at \in Headings
  <2>1. at.seq <= owed[c].head.seq
    BY <1>2 DEF HistoryOK
  <2>2. owed[c].head \in Headings /\ owed[c].head.seq = at.seq
    BY <1>0, <1>2, <2>1
  <2>3. owed[c].head = at
    BY <1>2, <2>2 DEF OneHistory
  <2> QED
    BY <2>3
<1> QED
  BY <1>0, <1>1, <1>2

\* When every subscriber to a ref reports Synced equal to Head, no push that
\* carries anything is in flight (Subscribers), but for one to a client that has
\* resumed with a tree its ref reached only later, where every head has a sequence
\* and a tree of its own.
THEOREM SyncedIsQuiet == ASSUME OneHistory PROVE Spec => []SyncedMeansEmptyPush
<1>1. TypeInv /\ RegOK /\ PipeOK /\ FlowOK /\ HistoryOK => SyncedMeansEmptyPush
  <2> SUFFICES ASSUME TypeInv, RegOK, PipeOK, FlowOK, HistoryOK, NEW ref \in Refs, NEW i,
                      i = refs[ref], i # 0, NEW c \in Listed(i), synced[c] = state[i].head.hash, ~Brought(c)
               PROVE  /\ pc[c] = "push" => owed[c].head.hash = synced[c]
                      /\ \A n \in DOMAIN down[c] :
                           down[c][n].kind = "update" =>
                             down[c][n].head.hash \in {down[c][n].since, Void}
    BY DEF SyncedMeansEmptyPush
  <2>1. i \in StateIds
    BY DEF TypeInv, TypeOK, StateIds
  <2>2. c \in state[i].members /\ c \in Conns
    BY <2>1 DEF Listed, TypeInv, TypeOK, RefState
  <2>3. pc[c] \in Joined /\ my[c] = i
    BY <2>1, <2>2 DEF RegOK, MembersOK
  <2>4. owed[c].head.hash = synced[c]
    BY <2>2, <2>3, SyncedIsOwed
  <2>5. pc[c] # "done" /\ PipeAt(c)
    BY <2>2, <2>3 DEF Joined, PipeOK
  <2> QED
    BY <2>4, <2>5 DEF PipeAt
<1> QED
  BY <1>1, RegistryKept, PipesKept, HeadsFlow, HistoryKept, PTL
=============================================================================
