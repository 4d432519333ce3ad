---------------------------- MODULE SystemProofs ----------------------------
(***************************************************************************)
(* A server and a client that follows one of its refs are, for the server, *)
(* a client like any other; and what the client keeps of the trees it was  *)
(* sent.  Proofs of the invariants of System, for every number of refs,    *)
(* connections, trees and states kept.                                     *)
(***************************************************************************)
EXTENDS System, ServerStores

-----------------------------------------------------------------------------
(* Whatever the client does is what Server allows a client to do.          *)

LEMMA StepServer == [SysNext]_sysVars => [Next]_vars
<1> SUFFICES ASSUME [SysNext]_sysVars PROVE [Next]_vars
  OBVIOUS
<1>1. CASE UNCHANGED sysVars
  BY <1>1 DEF sysVars
<1>2. CASE ServerSteps
  BY <1>2 DEF ServerSteps, Next
<1>3. ASSUME NEW c \in Conns, Connects(c) PROVE [Next]_vars
  BY <1>3 DEF Connects, Next, Clients
<1>4. ASSUME NEW c \in Conns, Consumes(c) PROVE [Next]_vars
  <2>1. CASE Acknowledges(c)
    BY <2>1 DEF Acknowledges, Next, Clients
  <2>2. CASE Closes(c)
    BY <2>2 DEF Closes, Next, Clients
  <2>3. CASE Receives(c) \/ Unpacks(c) \/ Hands(c) \/ Breaks(c)
    BY <2>3 DEF Receives, Unpacks, Hands, Breaks
  <2> QED
    BY <1>4, <2>1, <2>2, <2>3 DEF Consumes
<1>5. ASSUME NEW c \in Conns, Cancels(c) PROVE [Next]_vars
  BY <1>5 DEF Cancels, Next, Clients
<1>6. CASE Finishes \/ SysRest
  BY <1>6 DEF Finishes, SysRest, sysVars
<1> QED
  BY <1>1, <1>2, <1>3, <1>4, <1>5, <1>6 DEF SysNext

\* A client that keeps a graph, resumes where it was and acknowledges only what
\* it has unpacked (consume) is one of the clients Server was checked and
\* proved with, so everything that holds of Server holds of the pair.
THEOREM ClientIsAllowed == SysSpec => Spec
<1>1. SysInit => Init
  BY DEF SysInit
<1> QED
  BY <1>1, StepServer, PTL DEF SysSpec, Spec

-----------------------------------------------------------------------------
(* Types, and how much the client keeps.                                   *)

\* What a graph that is swept holds beyond the states that are kept: what has
\* come of the update in hand.
LeanOK ==
  /\ Len(heads) <= History
  /\ stage = "interpreting" => rest \subseteq Reach[hand.hash]
  /\ stage \in {"interpreting", "delivering"} /\ heads # <<>> =>
       graph \subseteq Live(Roots \cup {hand.hash})

KeepsOK == SysTypeOK /\ LeanOK

LEMMA InitKeeps == SysInit => KeepsOK
<1> SUFFICES ASSUME SysInit PROVE KeepsOK
  OBVIOUS
<1>1. ZeroHead \in AnyHead
  BY DEF ZeroHead, AnyHead, Trees
<1>2. ClientTypeOK
  BY <1>1 DEF SysInit, ClientInit, ClientTypeOK, Trees, Stages
<1>3. SysTypeOK
  BY <1>2 DEF SysInit, ClientInit, SysTypeOK
<1>4. LeanOK
  BY ClientAssumption DEF SysInit, ClientInit, LeanOK
<1> QED
  BY <1>3, <1>4 DEF KeepsOK

LEMMA ResumeKeeps ==
  ASSUME KeepsOK, Resume, link' \in Conns PROVE KeepsOK'
<1>1. heads' \in Seq(Trees) /\ Len(heads') <= History
  <2>1. previous' \in Trees
    BY DEF Resume, KeepsOK, SysTypeOK, ClientTypeOK, Trees
  <2> QED
    BY <2>1, ClientAssumption DEF Resume
<1>2. ClientTypeOK'
  BY <1>1 DEF Resume, KeepsOK, SysTypeOK, ClientTypeOK, Trees, Stages
<1>3. SysTypeOK'
  BY <1>2, SystemAssumption DEF Resume, KeepsOK, SysTypeOK
<1>4. LeanOK'
  BY <1>1 DEF Resume, LeanOK
<1> QED
  BY <1>3, <1>4 DEF KeepsOK

LEMMA ReadKeeps ==
  ASSUME KeepsOK, UNCHANGED link, NEW head \in AnyHead, NEW since \in Trees,
         ReadUpdate(head, since)
  PROVE  KeepsOK'
<1>1. rest' \in SUBSET Objects
  BY ClientAssumption DEF ReadUpdate, Pack, KeepsOK, SysTypeOK, ClientTypeOK, AnyHead
<1>2. ClientTypeOK'
  BY <1>1 DEF ReadUpdate, KeepsOK, SysTypeOK, ClientTypeOK, Stages
<1>3. SysTypeOK'
  BY <1>2 DEF ReadUpdate, KeepsOK, SysTypeOK
<1>4. CASE stage' = "interpreting"
  <2>1. rest' \subseteq Reach[hand'.hash]
    BY <1>4 DEF ReadUpdate, Pack
  <2>2. heads' = heads /\ (heads # <<>> => graph' \subseteq Live(Roots))
    BY <1>4 DEF ReadUpdate
  <2>3. Roots' = Roots
    BY <2>2 DEF Roots
  <2>4. Live(Roots) \subseteq Live(Roots \cup {hand'.hash})
    BY DEF Live
  <2>5. Live(Roots' \cup {hand'.hash}) = Live(Roots \cup {hand'.hash})
    BY <2>3
  <2>6. heads' # <<>> => graph' \subseteq Live(Roots' \cup {hand'.hash})
    BY <2>2, <2>4, <2>5
  <2> QED
    BY <1>3, <2>1, <2>2, <2>6 DEF KeepsOK, LeanOK, Live
<1>5. CASE stage' = "ended"
  BY <1>3, <1>5 DEF ReadUpdate, KeepsOK, LeanOK
<1> QED
  BY <1>4, <1>5 DEF ReadUpdate

LEMMA ObjectKeeps ==
  ASSUME KeepsOK, UNCHANGED link, OnObject PROVE KeepsOK'
<1>1. PICK o \in rest : graph' = graph \cup {o} /\ rest' = rest \ {o}
  BY DEF OnObject
<1>2. SysTypeOK'
  BY <1>1 DEF OnObject, KeepsOK, SysTypeOK, ClientTypeOK
<1>3. UNCHANGED <<heads, hand, stage, Roots>> /\ stage = "interpreting"
  BY DEF OnObject, Roots
<1>4. o \in Reach[hand.hash] /\ rest' \subseteq Reach[hand.hash]
  BY <1>1, <1>3 DEF KeepsOK, LeanOK
<1>5. Reach[hand.hash] \subseteq Live(Roots \cup {hand.hash})
  BY DEF Live
<1>6. heads # <<>> => graph' \subseteq Live(Roots \cup {hand.hash})
  BY <1>1, <1>3, <1>4, <1>5 DEF KeepsOK, LeanOK
<1>7. Live(Roots' \cup {hand'.hash}) = Live(Roots \cup {hand.hash})
  BY <1>3
<1>8. heads' # <<>> => graph' \subseteq Live(Roots' \cup {hand'.hash})
  BY <1>3, <1>6, <1>7
<1>9. Len(heads') <= History
  BY <1>3 DEF KeepsOK, LeanOK
<1> QED
  BY <1>2, <1>3, <1>4, <1>8, <1>9 DEF KeepsOK, LeanOK, Live

LEMMA AckKeeps ==
  ASSUME KeepsOK, UNCHANGED link, WriteAck PROVE KeepsOK'
<1>1. SysTypeOK'
  BY DEF WriteAck, KeepsOK, SysTypeOK, ClientTypeOK, Stages
<1>2. LeanOK'
  BY DEF WriteAck, KeepsOK, LeanOK, Live, Roots
<1> QED
  BY <1>1, <1>2 DEF KeepsOK

\* The list of kept states is cut to its length.
LEMMA NewestKept ==
  ASSUME NEW hs \in Seq(Trees)
  PROVE  /\ Newest(hs) \in Seq(Trees)
         /\ Len(Newest(hs)) <= History
         /\ hs # <<>> => /\ Newest(hs) # <<>>
                         /\ Newest(hs)[Len(Newest(hs))] = hs[Len(hs)]
         /\ \A n \in DOMAIN Newest(hs) : \E m \in DOMAIN hs : Newest(hs)[n] = hs[m]
<1>1. Len(hs) \in Nat /\ History \in Nat \ {0}
  BY ClientAssumption
<1>2. CASE Len(hs) > History
  <2> DEFINE m == Len(hs) - History + 1
  <2>1. m \in 1..Len(hs) /\ m \in Nat /\ Len(hs) - m + 1 = History
    BY <1>1, <1>2
  <2>2. Newest(hs) = SubSeq(hs, m, Len(hs))
    BY <1>2 DEF Newest
  <2> HIDE DEF m
  <2>3. \A n \in m..Len(hs) : hs[n] \in Trees
    BY <2>1
  <2>4. /\ SubSeq(hs, m, Len(hs)) \in Seq(Trees)
        /\ Len(SubSeq(hs, m, Len(hs))) = History
    BY <1>1, <2>1, <2>3
  <2>5. SubSeq(hs, m, Len(hs))[History] = hs[Len(hs)]
    BY <1>1, <2>1, <2>3
  <2>6. ASSUME NEW n \in 1..History
        PROVE  SubSeq(hs, m, Len(hs))[n] = hs[m + n - 1] /\ m + n - 1 \in DOMAIN hs
    BY <1>1, <2>1, <2>3
  <2>7. DOMAIN SubSeq(hs, m, Len(hs)) = 1..History
    BY <2>4
  <2>8. \A n \in DOMAIN Newest(hs) : \E k \in DOMAIN hs : Newest(hs)[n] = hs[k]
    BY <2>2, <2>6, <2>7
  <2> QED
    BY <1>1, <2>2, <2>4, <2>5, <2>8
<1>3. CASE ~(Len(hs) > History)
  BY <1>1, <1>3 DEF Newest
<1> QED
  BY <1>2, <1>3

LEMMA HandOverKeeps ==
  ASSUME KeepsOK, UNCHANGED link, HandOver PROVE KeepsOK'
<1>1. ZeroHead \in AnyHead /\ hand.hash \in Trees /\ heads \in Seq(Trees) /\ hand \in AnyHead
  BY DEF ZeroHead, AnyHead, Trees, KeepsOK, SysTypeOK, ClientTypeOK
<1>2. Append(heads, hand.hash) \in Seq(Trees)
  BY <1>1
<1>3. heads' \in Seq(Trees) /\ Len(heads') <= History
  BY <1>1, <1>2, NewestKept DEF HandOver, KeepsOK, LeanOK
<1>4. ClientTypeOK'
  BY <1>1, <1>3 DEF HandOver, KeepsOK, SysTypeOK, ClientTypeOK, Stages
<1>5. SysTypeOK'
  BY <1>4 DEF HandOver, KeepsOK, SysTypeOK
<1>6. LeanOK'
  BY <1>3 DEF HandOver, LeanOK
<1> QED
  BY <1>5, <1>6 DEF KeepsOK

LEMMA EndKeeps ==
  ASSUME KeepsOK, \/ ConsumeEnds /\ UNCHANGED link
                  \/ Over /\ link' \in Conns \cup {Free}
                  \/ Studied /\ UNCHANGED link
  PROVE  KeepsOK'
<1>1. ZeroHead \in AnyHead
  BY DEF ZeroHead, AnyHead, Trees
<1>2. CASE ConsumeEnds /\ UNCHANGED link
  <2>1. SysTypeOK'
    BY <1>1, <1>2 DEF ConsumeEnds, KeepsOK, SysTypeOK, ClientTypeOK, Stages
  <2>2. LeanOK'
    BY <1>2 DEF ConsumeEnds, KeepsOK, LeanOK
  <2> QED
    BY <2>1, <2>2 DEF KeepsOK
<1>3. CASE Over /\ link' \in Conns \cup {Free}
  <2>1. SysTypeOK'
    BY <1>1, <1>3 DEF Over, KeepsOK, SysTypeOK, ClientTypeOK, Stages
  <2>2. LeanOK'
    BY <1>3, ClientAssumption DEF Over, KeepsOK, LeanOK
  <2> QED
    BY <2>1, <2>2 DEF KeepsOK
<1>4. CASE Studied /\ UNCHANGED link
  <2>1. SysTypeOK'
    BY <1>4 DEF Studied, KeepsOK, SysTypeOK, ClientTypeOK
  <2>2. LeanOK'
    BY <1>4 DEF Studied, KeepsOK, LeanOK, Live, Roots
  <2> QED
    BY <2>1, <2>2 DEF KeepsOK
<1> QED
  BY <1>2, <1>3, <1>4

\* What an update carries to the client has its type.
LEMMA UpdateType ==
  ASSUME TypeInv, NEW c \in Conns, down[c] # <<>>
  PROVE  Head(down[c]).head \in AnyHead /\ Head(down[c]).since \in Trees
<1>1. down[c] \in Seq(Message)
  BY DEF TypeInv, TypeOK
<1>2. Head(down[c]) \in Message
  BY <1>1
<1> QED
  BY <1>2 DEF Message

LEMMA StepKeeps == TypeInv /\ KeepsOK /\ [SysNext]_sysVars => KeepsOK'
<1> SUFFICES ASSUME TypeInv, KeepsOK, [SysNext]_sysVars PROVE KeepsOK'
  OBVIOUS
<1>1. CASE UNCHANGED <<clientVars, link>>
  BY <1>1 DEF clientVars, KeepsOK, SysTypeOK, ClientTypeOK, LeanOK, Live, Roots
<1>2. ASSUME NEW c \in Conns, Connects(c) PROVE KeepsOK'
  BY <1>2, ResumeKeeps DEF Connects
<1>3. ASSUME NEW c \in Conns, Receives(c) PROVE KeepsOK'
  <2>1. Head(down[c]).head \in AnyHead /\ Head(down[c]).since \in Trees
    BY <1>3, UpdateType DEF Receives
  <2> QED
    BY <1>3, <2>1, ReadKeeps DEF Receives
<1>4. ASSUME NEW c \in Conns, Consumes(c) PROVE KeepsOK'
  BY <1>3, <1>4, ObjectKeeps, AckKeeps, HandOverKeeps, EndKeeps
     DEF Consumes, Unpacks, Acknowledges, Hands, Breaks, Closes
<1>5. ASSUME NEW c \in Conns, Cancels(c) PROVE KeepsOK'
  BY <1>5, EndKeeps DEF Cancels
<1>6. CASE Finishes
  BY <1>6, EndKeeps DEF Finishes
<1> QED
  BY <1>1, <1>2, <1>4, <1>5, <1>6 DEF SysNext, ServerSteps, SysRest, sysVars

LEMMA ClientKept == SysSpec => [](TypeInv /\ KeepsOK)
<1>1. TypeInv /\ KeepsOK /\ [SysNext]_sysVars => (TypeInv /\ KeepsOK)'
  BY StepKeeps, StepServer, StepTypeInv
<1>2. SysInit => TypeInv /\ KeepsOK
  BY InitKeeps, InitTypeInv DEF SysInit
<1> QED
  BY <1>1, <1>2, PTL DEF SysSpec

\* The types of the client's variables; a client without a connection is between
\* two subscriptions, and consume never leaves an update half read.
THEOREM ClientTypesKept == SysSpec => []SysTypeOK
<1>1. TypeInv /\ KeepsOK => SysTypeOK
  BY DEF KeepsOK
<1> QED
  BY <1>1, ClientKept, PTL

\* A client WithHistory(n) never keeps more than n states, and after the sweep
\* that precedes a pack its graph is those states and what the pack brought.
THEOREM GraphStaysLean == SysSpec => []GraphIsLean
<1>1. ASSUME KeepsOK PROVE GraphIsLean
  <2>1. heads \in Seq(Trees) /\ Len(heads) \in Nat /\ Len(heads) <= History
    BY <1>1 DEF KeepsOK, SysTypeOK, ClientTypeOK, LeanOK
  <2>2. heads \in Surjection(1..Len(heads), Roots)
    BY <2>1 DEF Surjection, Roots
  <2>3. ExistsSurjection(1..Len(heads), Roots)
    BY <2>2 DEF ExistsSurjection
  <2>4. Cardinality(Roots) <= Len(heads)
    BY <2>1, <2>3, FS_SurjCardinalityBound
  <2>5. IsFiniteSet(Roots)
    BY <2>1, <2>3, FS_NatSurjection
  <2>6. Cardinality(Roots) \in Nat
    BY <2>5, FS_CardinalityType
  <2>7. Cardinality(Roots) <= History
    BY <2>1, <2>4, <2>6, ClientAssumption
  <2> QED
    BY <1>1, <2>7 DEF GraphIsLean, KeepsOK, LeanOK
<1> QED
  BY <1>1, ClientKept, PTL

-----------------------------------------------------------------------------
(* What the server's steps leave to the client.                             *)

USE DEF registry, entries, running, stores, session, sync, signals, life, wires, ends,
        outside, calls, client, Goto, Continue, Unlocked

\* A step of c's goroutine: the client's end of the connection is the client's.
Detached(c) ==
  /\ reg' = reg /\ clientOpen' = clientOpen /\ acked' = acked
  /\ \A d \in Conns \ {c} : pc'[d] = pc[d]
  /\ pc'[c] # "idle"
  /\ down'[c] = down[c] \/ Push(c) \/ Refuse(c)

LEMMA ServesApart == ASSUME TypeInv, NEW c \in Conns, Serves(c) PROVE Detached(c)
<1>0. pc \in [Conns -> Labels] /\ down \in [Conns -> Seq(Message)]
  BY DEF TypeInv, TypeOK
<1> USE DEF Detached
<1>1. CASE Accept(c)
  BY <1>0, <1>1 DEF Accept
<1>2. CASE Handle(c)
  BY <1>0, <1>2 DEF Handle
<1>3. CASE Register(c)
  BY <1>0, <1>3 DEF Register
<1>4. CASE RegisterFails(c)
  BY <1>0, <1>4 DEF RegisterFails
<1>5. CASE JoinRetiring(c)
  BY <1>0, <1>5 DEF JoinRetiring
<1>6. CASE Retired(c)
  BY <1>0, <1>6 DEF Retired
<1>7. CASE JoinMembers(c)
  BY <1>0, <1>7 DEF JoinMembers
<1>8. CASE JoinFirst(c)
  BY <1>0, <1>8 DEF JoinFirst
<1>9. CASE JoinRefused(c)
  BY <1>0, <1>9 DEF JoinRefused
<1>10. CASE Prepared(c)
  BY <1>0, <1>10 DEF Prepared
<1>11. CASE PrepareFails(c)
  BY <1>0, <1>11 DEF PrepareFails
<1>12. CASE Ready(c)
  BY <1>0, <1>12 DEF Ready
<1>13. CASE ReadyRefused(c)
  BY <1>0, <1>13 DEF ReadyRefused
<1>14. CASE Announce(c)
  BY <1>0, <1>14 DEF Announce
<1>15. CASE Current(c)
  BY <1>0, <1>15 DEF Current
<1>16. CASE Push(c)
  BY <1>0, <1>16 DEF Push
<1>17. CASE PushFails(c)
  BY <1>0, <1>17 DEF PushFails
<1>18. CASE TakeAck(c)
  BY <1>0, <1>18 DEF TakeAck
<1>19. CASE Record(c)
  BY <1>0, <1>19 DEF Record
<1>20. CASE Report(c)
  BY <1>0, <1>20 DEF Report
<1>21. CASE Woken(c)
  BY <1>0, <1>21 DEF Woken
<1>22. CASE Lost(c)
  BY <1>0, <1>22 DEF Lost
<1>23. CASE Leave(c)
  BY <1>0, <1>23 DEF Leave
<1>24. CASE Unsubscribed(c)
  BY <1>0, <1>24 DEF Unsubscribed
<1>25. CASE Release(c)
  BY <1>0, <1>25 DEF Release
<1>26. CASE Unlist(c)
  BY <1>0, <1>26 DEF Unlist
<1>27. CASE Refuse(c)
  BY <1>0, <1>27 DEF Refuse
<1>28. CASE Delist(c)
  BY <1>0, <1>28 DEF Delist
<1>29. CASE Close(c)
  BY <1>0, <1>29 DEF Close
<1> QED
  BY <1>1, <1>2, <1>3, <1>4, <1>5, <1>6, <1>7, <1>8, <1>9, <1>10, <1>11, <1>12, <1>13,
     <1>14, <1>15, <1>16, <1>17, <1>18, <1>19, <1>20, <1>21, <1>22, <1>23, <1>24, <1>25, <1>26,
     <1>27, <1>28, <1>29
     DEF Serves

LEMMA CallsSpare ==
  ASSUME NEW a \in Apps, Begins(a) \/ Continues(a)
  PROVE  UNCHANGED <<reg, clientOpen, acked, owed>>
<1>1. CASE SetHeadFind(a)
  BY <1>1 DEF SetHeadFind
<1>2. CASE PublishInsert(a)
  BY <1>2 DEF PublishInsert
<1>3. CASE Unpublish(a)
  BY <1>3 DEF Unpublish
<1>4. CASE SweepCheck(a)
  BY <1>4 DEF SweepCheck
<1>5. CASE Stop(a)
  BY <1>5 DEF Stop
<1>6. CASE SetHeadMove(a)
  BY <1>6 DEF SetHeadMove
<1>7. CASE SetHeadWake(a)
  BY <1>7 DEF SetHeadWake
<1>8. CASE PublishMove(a)
  BY <1>8 DEF PublishMove
<1>9. CASE CloseOne(a)
  BY <1>9 DEF CloseOne
<1>10. CASE SweepInstall(a)
  BY <1>10 DEF SweepInstall
<1>11. CASE SweepKeeps(a)
  BY <1>11 DEF SweepKeeps
<1>12. CASE SweepDrops(a)
  BY <1>12 DEF SweepDrops
<1>13. CASE SweepResets(a)
  BY <1>13 DEF SweepResets
<1>14. CASE StopListener(a)
  BY <1>14 DEF StopListener
<1> QED
  BY <1>1, <1>2, <1>3, <1>4, <1>5, <1>6, <1>7, <1>8, <1>9, <1>10, <1>11, <1>12,
     <1>13, <1>14
     DEF Begins, Continues

\* What a step of the server's own leaves as it was on the connection c, and
\* what the client reads next.
Spared(c) ==
  /\ reg'[c] = reg[c] /\ clientOpen'[c] = clientOpen[c] /\ acked'[c] = acked[c]
  /\ pc[c] # "idle" => pc'[c] # "idle"
  /\ down[c] # <<>> => down'[c] # <<>> /\ Head(down'[c]) = Head(down[c])

LEMMA AppendHead ==
  ASSUME NEW msgs \in Seq(Message), NEW msg \in Message, msgs # <<>>
  PROVE  Append(msgs, msg) # <<>> /\ Head(Append(msgs, msg)) = Head(msgs)
<1> HIDE DEF Message
<1> QED
  OBVIOUS

LEMMA ServerSpares ==
  ASSUME TypeInv, ServerSteps, NEW c \in Conns
  PROVE  Spared(c)
<1>0. /\ pc \in [Conns -> Labels] /\ down \in [Conns -> Seq(Message)] /\ down[c] \in Seq(Message)
      /\ owed[c].head \in AnyHead /\ synced[c] \in Trees
  BY DEF TypeInv, TypeOK, Pair
<1>1. ASSUME NEW d \in Conns, Serves(d) PROVE Spared(c)
  <2>1. Detached(d) /\ Flows(d)
    BY <1>1, ServesApart, ServesFlows
  <2>2. reg' = reg /\ clientOpen' = clientOpen /\ acked' = acked /\ (pc[c] # "idle" => pc'[c] # "idle")
    BY <2>1 DEF Detached
  <2>3. CASE down'[c] = down[c]
    BY <2>2, <2>3 DEF Spared
  <2>4. CASE Push(c)
    <3>1. \/ down'[c] = down[c]
          \/ down'[c] = Append(down[c], Update(owed[c].head, synced[c]))
      BY <1>0, <2>4 DEF Push
    <3>2. Update(owed[c].head, synced[c]) \in Message
      BY <1>0 DEF Update, Message
    <3>3. down[c] # <<>> => down'[c] # <<>> /\ Head(down'[c]) = Head(down[c])
      BY <1>0, <3>1, <3>2, AppendHead
    <3> QED
      BY <2>2, <3>3 DEF Spared
  <2>5. CASE Refuse(c)
    <3>1. down'[c] = down[c] \/ down'[c] = Append(down[c], ErrorMessage)
      BY <1>0, <2>5 DEF Refuse
    <3>2. ErrorMessage \in Message
      BY DEF ErrorMessage, Message, ZeroHead, AnyHead, Trees
    <3>3. down[c] # <<>> => down'[c] # <<>> /\ Head(down'[c]) = Head(down[c])
      BY <1>0, <3>1, <3>2, AppendHead
    <3> QED
      BY <2>2, <3>3 DEF Spared
  <2> QED
    BY <2>1, <2>3, <2>4, <2>5 DEF Detached, Flows
<1>2. ASSUME NEW d \in Conns, Reads(d) PROVE UNCHANGED <<reg, clientOpen, acked, pc, down>>
  BY <1>2 DEF Reads, ReadAck, ReadFails
<1>3. ASSUME NEW a \in Apps, Begins(a) \/ Continues(a)
      PROVE  UNCHANGED <<reg, clientOpen, acked, pc, down>>
  <2>1. UNCHANGED <<down, reg, clientOpen, acked>>
    BY <1>3, CallsFlow, CallsSpare
  <2> QED
    BY <1>3, <2>1, BeginsCall, ContinuesCall
<1> QED
  BY <1>1, <1>2, <1>3 DEF ServerSteps, Spared

-----------------------------------------------------------------------------
(* The baseline of every update under way is a tree the client has said it   *)
(* holds.                                                                    *)

SaidAt(c) ==
  \A n \in DOMAIN down[c] :
    down[c][n].kind = "update" => down[c][n].since \in acked[c] \cup {Void}

SaidOK == \A c \in Conns : SaidAt(c)

LEMMA AckedStays ==
  ASSUME TypeInv, [Next]_vars, NEW c \in Conns
  PROVE  acked[c] \subseteq acked'[c] \/ Dial(c)
<1>0. acked \in [Conns -> SUBSET Trees]
  BY DEF TypeInv, TypeOK
<1>1. CASE UNCHANGED vars
  BY <1>1 DEF vars
<1>2. ASSUME NEW d \in Conns, Serves(d) PROVE acked' = acked
  BY <1>2, ServesApart DEF Detached
<1>3. ASSUME NEW d \in Conns, Reads(d) PROVE acked' = acked
  BY <1>3 DEF Reads, ReadAck, ReadFails
<1>4. ASSUME NEW d \in Conns, Clients(d) PROVE acked[c] \subseteq acked'[c] \/ Dial(c)
  <2>1. CASE Dial(d)
    BY <1>0, <2>1 DEF Dial
  <2>2. CASE Interpret(d)
    BY <1>0, <2>2 DEF Interpret
  <2>3. CASE HangUp(d)
    BY <2>3 DEF HangUp
  <2> QED
    BY <1>4, <2>1, <2>2, <2>3 DEF Clients
<1>5. ASSUME NEW a \in Apps, Begins(a) \/ Continues(a) PROVE acked' = acked
  BY <1>5, CallsSpare
<1> QED
  BY <1>1, <1>2, <1>3, <1>4, <1>5 DEF Next, Rest

LEMMA StepSaid == TypeInv /\ AcksOK /\ PipeOK /\ SaidOK /\ [Next]_vars => SaidOK'
<1> SUFFICES ASSUME TypeInv, AcksOK, PipeOK, SaidOK, [Next]_vars, NEW c \in Conns
             PROVE  SaidAt(c)'
  BY DEF SaidOK
<1>0. /\ down[c] \in Seq(Message) /\ down \in [Conns -> Seq(Message)] /\ SaidAt(c)
      /\ synced[c] \in acked[c] \cup {Void}
      /\ acked \in [Conns -> SUBSET Trees]
  BY DEF TypeInv, TypeOK, SaidOK, AcksOK
<1>1. CASE Dial(c)
  <2>1. down' = down /\ down[c] = <<>>
    BY <1>1 DEF Dial, PipeOK, PipeAt, Settled
  <2> QED
    BY <2>1 DEF SaidAt
<1>2. CASE acked[c] \subseteq acked'[c]
  <2>1. CASE down'[c] = down[c]
    BY <1>0, <1>2, <2>1 DEF SaidAt
  <2>2. CASE Current(c)
    BY <1>0, <1>2, <2>2 DEF Current, SaidAt
  <2>3. CASE Push(c)
    <3>1. \/ down'[c] = down[c]
          \/ down'[c] = Append(down[c], Update(owed[c].head, synced[c]))
      BY <1>0, <2>3 DEF Push
    <3>2. down[c] = <<>>
      BY <2>3 DEF Push, PipeOK, PipeAt, Settled
    <3>3. Update(owed[c].head, synced[c]).since = synced[c]
      BY DEF Update
    <3> HIDE DEF Message, Update
    <3>4. \A n \in DOMAIN down'[c] : down'[c][n] = Update(owed[c].head, synced[c])
      BY <3>1, <3>2
    <3> QED
      BY <1>0, <1>2, <3>3, <3>4 DEF SaidAt
  <2>4. CASE Refuse(c)
    <3>1. down'[c] = down[c] \/ down'[c] = Append(down[c], ErrorMessage)
      BY <1>0, <2>4 DEF Refuse
    <3>2. ErrorMessage.kind = "error" /\ ErrorMessage \in Message
      BY DEF ErrorMessage, Message, ZeroHead, AnyHead, Trees
    <3> HIDE DEF Message, ErrorMessage
    <3>3. \A n \in DOMAIN down'[c] :
            \/ down'[c][n] = ErrorMessage
            \/ n \in DOMAIN down[c] /\ down'[c][n] = down[c][n]
      <4>1. CASE down'[c] = down[c]
        BY <4>1
      <4>2. CASE down'[c] = Append(down[c], ErrorMessage)
        BY <1>0, <3>2, <4>2
      <4> QED
        BY <3>1, <4>1, <4>2
    <3> QED
      BY <1>0, <1>2, <3>2, <3>3 DEF SaidAt
  <2>5. CASE Interpret(c)
    <3>1. down[c] # <<>> /\ down'[c] = Tail(down[c])
      BY <1>0, <2>5 DEF Interpret
    <3> HIDE DEF Message
    <3>2. \A n \in DOMAIN down'[c] : n + 1 \in DOMAIN down[c] /\ down'[c][n] = down[c][n + 1]
      BY <1>0, <3>1
    <3> QED
      BY <1>0, <1>2, <3>2 DEF SaidAt
  <2>6. CASE HangUp(c)
    BY <1>0, <2>6 DEF HangUp, SaidAt
  <2>7. Close(c) => down' = down
    BY DEF Close
  <2> QED
    BY <2>1, <2>2, <2>3, <2>4, <2>5, <2>6, <2>7, FlowStep
<1> QED
  BY <1>1, <1>2, AckedStays

\* Nothing is computed from a tree that the client has not told the server of
\* on that very connection (awaitAck, push).
THEOREM BaselinesAreSaid == Spec => []SaidOK
<1>1. Init => SaidOK
  BY DEF Init, SaidOK, SaidAt
<1>2. AcksInv => AcksOK
  BY DEF AcksInv
<1>3. TypeInv /\ AcksOK /\ PipeOK /\ SaidOK /\ [Next]_vars => SaidOK'
  BY StepSaid
<1> QED
  BY <1>1, <1>3, AcksKept, PipesKept, PTL DEF Spec

-----------------------------------------------------------------------------
(* What the graph holds in full: the tree of the last update, the states that *)
(* are kept, and the update in hand once its pack has been unpacked.          *)

Active == {"reading", "interpreting", "delivering"}

GraphOK ==
  /\ Whole(previous)
  /\ \A t \in Roots : Whole(t)
  /\ stage \in Active /\ heads # <<>> => heads[Len(heads)] = previous
  /\ stage = "interpreting" => Reach[hand.hash] \subseteq graph \cup rest
  /\ stage = "delivering" => Whole(hand.hash)
  /\ ~Sweeping => heads = <<>>

LEMMA GraphResumes == ASSUME KeepsOK, GraphOK, Resume PROVE GraphOK'
<1>1. Whole(previous)'
  BY ClientAssumption DEF Resume, GraphOK, Whole
<1>2. Roots' \subseteq {previous'}
  BY DEF Resume, Roots
<1>3. \A t \in Roots' : Whole(t)'
  BY <1>1, <1>2 DEF Whole
<1>4. heads' # <<>> => heads'[Len(heads')] = previous'
  BY DEF Resume
<1> QED
  BY <1>1, <1>3, <1>4 DEF Resume, GraphOK

\* A pack completes the graph if its baseline is what the client has last been
\* handed, or anything it holds when its graph is not swept.
LEMMA GraphReads ==
  ASSUME KeepsOK, GraphOK, NEW head \in AnyHead, NEW since \in Trees, ReadUpdate(head, since),
         since \in {Void, previous} \/ (heads = <<>> /\ Whole(since))
  PROVE  GraphOK'
<1>1. CASE stage' = "ended"
  BY <1>1 DEF ReadUpdate, GraphOK, Whole, Roots, Active
<1>2. CASE stage' = "interpreting"
  <2>1. /\ heads' = heads /\ previous' = previous /\ hand' = head /\ stage = "reading"
        /\ graph' = IF heads = <<>> THEN graph ELSE graph \cap Live(Roots)
        /\ rest' = Reach[head.hash] \ Reach[since]
    BY <1>2 DEF ReadUpdate, Pack
  <2>2. Roots' = Roots /\ \A t \in Roots : Reach[t] \subseteq Live(Roots)
    BY <2>1 DEF Roots, Live
  <2>3. \A t \in Roots' : Whole(t)'
    BY <2>1, <2>2 DEF GraphOK, Whole
  <2>4. heads # <<>> => previous \in Roots
    <3>1. heads \in Seq(Trees)
      BY DEF KeepsOK, SysTypeOK, ClientTypeOK
    <3>2. heads # <<>> => Len(heads) \in DOMAIN heads
      BY <3>1
    <3> QED
      BY <2>1, <3>2 DEF GraphOK, Active, Roots
  <2>5. Whole(previous)'
    BY <2>1, <2>2, <2>3, <2>4 DEF GraphOK, Whole
  <2>6. Reach[since] \subseteq graph'
    BY <2>1, <2>5, ClientAssumption DEF Whole
  <2>7. Reach[hand'.hash] \subseteq graph' \cup rest'
    BY <2>1, <2>6
  <2> QED
    BY <1>2, <2>1, <2>3, <2>5, <2>7 DEF GraphOK, Active
<1> QED
  BY <1>1, <1>2 DEF ReadUpdate

LEMMA GraphUnpacks == ASSUME GraphOK, OnObject PROVE GraphOK'
<1>1. PICK o \in rest : graph' = graph \cup {o} /\ rest' = rest \ {o}
  BY DEF OnObject
<1>2. UNCHANGED <<heads, previous, stage, hand, Roots>>
  BY DEF OnObject, Roots
<1> QED
  BY <1>1, <1>2 DEF OnObject, GraphOK, Whole

LEMMA GraphAcks == ASSUME GraphOK, WriteAck PROVE GraphOK' /\ Whole(hand.hash)
<1>1. Whole(hand.hash)
  BY DEF WriteAck, GraphOK, Whole
<1> QED
  BY <1>1 DEF WriteAck, GraphOK, Whole, Roots, Active

LEMMA GraphHands == ASSUME KeepsOK, GraphOK, HandOver PROVE GraphOK'
<1>0. heads \in Seq(Trees) /\ hand.hash \in Trees
  BY DEF KeepsOK, SysTypeOK, ClientTypeOK, AnyHead
<1>1. Whole(hand.hash) /\ previous' = hand.hash /\ graph' = graph /\ stage' = "reading"
  BY DEF HandOver, GraphOK
<1>2. CASE Sweeping /\ (heads = <<>> \/ heads[Len(heads)] # hand.hash)
  <2> DEFINE hs == Append(heads, hand.hash)
  <2>1. heads' = Newest(hs)
    BY <1>2 DEF HandOver
  <2>2. /\ hs \in Seq(Trees) /\ hs # <<>> /\ hs[Len(hs)] = hand.hash
        /\ \A m \in DOMAIN hs : hs[m] = hand.hash \/ \E n \in DOMAIN heads : hs[m] = heads[n]
    BY <1>0
  <2> HIDE DEF hs
  <2>3. /\ heads' # <<>> => heads'[Len(heads')] = hand.hash
        /\ \A n \in DOMAIN heads' : \E m \in DOMAIN hs : heads'[n] = hs[m]
    BY <2>1, <2>2, NewestKept
  <2>4. Roots' \subseteq Roots \cup {hand.hash}
    BY <2>2, <2>3 DEF Roots
  <2>5. \A t \in Roots' : Whole(t)'
    BY <1>1, <2>4 DEF GraphOK, Whole
  <2> QED
    BY <1>1, <1>2, <2>3, <2>5 DEF GraphOK, Whole
<1>3. CASE ~(Sweeping /\ (heads = <<>> \/ heads[Len(heads)] # hand.hash))
  <2>1. heads' = heads /\ (heads # <<>> => heads[Len(heads)] = hand.hash)
    BY <1>3 DEF HandOver, GraphOK
  <2> QED
    BY <1>1, <2>1 DEF GraphOK, Whole, Roots
<1> QED
  BY <1>2, <1>3

LEMMA GraphEnds == ASSUME GraphOK, ConsumeEnds \/ Over \/ Studied PROVE GraphOK'
<1>1. CASE ConsumeEnds
  BY <1>1 DEF ConsumeEnds, GraphOK, Whole, Roots, Active
<1>2. CASE Over
  BY <1>2 DEF Over, GraphOK, Whole, Roots, Active
<1>3. CASE Studied
  BY <1>3 DEF Studied, GraphOK, Whole, Roots, Active
<1> QED
  BY <1>1, <1>2, <1>3

\* A step of the pair, of which only one takes an update off the connection.
LEMMA StepGraph ==
  ASSUME TypeInv, KeepsOK, GraphOK, [SysNext]_sysVars,
         \A c \in Conns : Receives(c) =>
           LET since == Head(down[c]).since IN
           since \in {Void, previous} \/ (heads = <<>> /\ Whole(since))
  PROVE  GraphOK'
<1>1. CASE UNCHANGED <<clientVars, link>>
  BY <1>1 DEF clientVars, GraphOK, Whole, Roots
<1>2. ASSUME NEW c \in Conns, Connects(c) PROVE GraphOK'
  BY <1>2, GraphResumes DEF Connects
<1>3. ASSUME NEW c \in Conns, Receives(c) PROVE GraphOK'
  <2>1. Head(down[c]).head \in AnyHead /\ Head(down[c]).since \in Trees
    BY <1>3, UpdateType DEF Receives
  <2> QED
    BY <1>3, <2>1, GraphReads DEF Receives
<1>4. ASSUME NEW c \in Conns, Consumes(c) PROVE GraphOK'
  BY <1>3, <1>4, GraphUnpacks, GraphAcks, GraphHands, GraphEnds
     DEF Consumes, Unpacks, Acknowledges, Hands, Breaks, Closes
<1>5. ASSUME NEW c \in Conns, Cancels(c) PROVE GraphOK'
  BY <1>5, GraphEnds DEF Cancels
<1>6. CASE Finishes
  BY <1>6, GraphEnds DEF Finishes
<1> QED
  BY <1>1, <1>2, <1>4, <1>5, <1>6 DEF SysNext, ServerSteps, SysRest, sysVars

-----------------------------------------------------------------------------
(* The update in hand is the one at the head of the connection.             *)

HandAt(c) ==
  link = c =>
    /\ pc[c] # "idle"
    /\ stage \in Active => clientOpen[c]
    /\ stage = "interpreting" =>
         down[c] # <<>> /\ Head(down[c]).kind = "update" /\ Head(down[c]).head = hand

HandOK == \A c \in Conns : HandAt(c)

LEMMA StepHand == TypeInv /\ KeepsOK /\ HandOK /\ [SysNext]_sysVars => HandOK'
<1> SUFFICES ASSUME TypeInv, KeepsOK, HandOK, [SysNext]_sysVars, NEW c \in Conns
             PROVE  HandAt(c)'
  BY DEF HandOK
<1>0. /\ HandAt(c) /\ link \in Conns \cup {Free} /\ pc \in [Conns -> Labels]
      /\ clientOpen \in [Conns -> BOOLEAN]
  BY DEF HandOK, KeepsOK, SysTypeOK, TypeInv, TypeOK
<1>1. CASE UNCHANGED sysVars
  BY <1>0, <1>1 DEF sysVars, vars, clientVars, HandAt
<1>2. CASE ServerSteps
  <2>1. Spared(c) /\ UNCHANGED <<clientVars, link>>
    BY <1>2, ServerSpares DEF ServerSteps
  <2> QED
    BY <1>0, <2>1 DEF Spared, clientVars, HandAt
<1>3. ASSUME NEW d \in Conns, Connects(d) PROVE HandAt(c)'
  <2>1. /\ link' = d /\ stage' = "reading" /\ pc' = [pc EXCEPT ![d] = "dialled"]
        /\ clientOpen' = [clientOpen EXCEPT ![d] = TRUE]
    BY <1>3 DEF Connects, Resume, Dial
  <2> QED
    BY <1>0, <2>1 DEF HandAt
<1>4. ASSUME NEW d \in Conns, Receives(d) PROVE HandAt(c)'
  <2>1. /\ link = d /\ link' = d /\ UNCHANGED <<pc, clientOpen, down>>
        /\ down[d] # <<>> /\ Head(down[d]).kind = "update" /\ stage = "reading"
        /\ \/ stage' = "ended"
           \/ stage' = "interpreting" /\ hand' = Head(down[d]).head
    BY <1>4 DEF Receives, ReadUpdate, vars
  <2> QED
    BY <1>0, <2>1 DEF HandAt, Active
<1>5. ASSUME NEW d \in Conns, Unpacks(d) PROVE HandAt(c)'
  BY <1>0, <1>5 DEF Unpacks, OnObject, vars, HandAt
<1>6. ASSUME NEW d \in Conns, Acknowledges(d) PROVE HandAt(c)'
  BY <1>0, <1>6 DEF Acknowledges, WriteAck, Interpret, HandAt, Active
<1>7. ASSUME NEW d \in Conns, Hands(d) PROVE HandAt(c)'
  BY <1>0, <1>7 DEF Hands, HandOver, vars, HandAt, Active
<1>8. ASSUME NEW d \in Conns, Breaks(d) PROVE HandAt(c)'
  BY <1>0, <1>8 DEF Breaks, ConsumeEnds, vars, HandAt, Active
<1>9. ASSUME NEW d \in Conns, Closes(d) PROVE HandAt(c)'
  BY <1>9, SystemAssumption DEF Closes, HandAt
<1>10. ASSUME NEW d \in Conns, Cancels(d) PROVE HandAt(c)'
  BY <1>0, <1>10 DEF Cancels, ConsumeEnds, HangUp, HandAt, Active
<1>11. CASE Finishes
  BY <1>0, <1>11 DEF Finishes, Studied, vars, HandAt
<1> QED
  BY <1>1, <1>2, <1>3, <1>4, <1>5, <1>6, <1>7, <1>8, <1>9, <1>10, <1>11
     DEF SysNext, Consumes, SysRest

-----------------------------------------------------------------------------
(* A client that keeps everything holds every tree it has told the server of. *)

SaidAreWhole == \A c \in Conns : link = c => \A t \in acked[c] : Whole(t)

LEMMA StepSaidWhole ==
  ASSUME TypeInv, KeepsOK, GraphOK, HandOK, SaidAreWhole, ~Sweeping,
         [SysNext]_sysVars, GraphOK'
  PROVE  SaidAreWhole'
<1> SUFFICES ASSUME NEW c \in Conns, link' = c, NEW t \in acked'[c]
             PROVE  Whole(t)'
  BY DEF SaidAreWhole
<1>0. /\ acked \in [Conns -> SUBSET Trees] /\ heads = <<>> /\ link \in Conns \cup {Free}
      /\ HandAt(c) /\ reg \in [Conns -> Registrations \cup {Garbage}]
  BY DEF HandOK, KeepsOK, SysTypeOK, TypeInv, TypeOK, GraphOK
<1>1. CASE link = c /\ acked'[c] = acked[c] /\ graph \subseteq graph'
  BY <1>1 DEF SaidAreWhole, Whole
<1>2. CASE UNCHANGED sysVars
  BY <1>1, <1>2 DEF sysVars, vars, clientVars
<1>3. CASE ServerSteps
  <2>1. Spared(c) /\ UNCHANGED <<clientVars, link>>
    BY <1>3, ServerSpares DEF ServerSteps
  <2> QED
    BY <1>1, <2>1 DEF Spared, clientVars
<1>4. ASSUME NEW d \in Conns, Connects(d) PROVE Whole(t)'
  <2>1. c = d /\ Dial(d) /\ reg'[c].hash = previous'
    BY <1>4 DEF Connects
  <2>2. acked'[c] \subseteq {reg'[c].hash}
    BY <1>0, <2>1 DEF Dial
  <2> QED
    BY <2>1, <2>2 DEF GraphOK
<1>5. ASSUME NEW d \in Conns, Receives(d) PROVE Whole(t)'
  <2>1. link = c /\ acked' = acked /\ graph' = graph
    BY <1>0, <1>5 DEF Receives, ReadUpdate, vars
  <2> QED
    BY <1>1, <2>1
<1>6. ASSUME NEW d \in Conns, Unpacks(d) PROVE Whole(t)'
  <2>1. link = c /\ acked' = acked /\ graph \subseteq graph'
    BY <1>6 DEF Unpacks, OnObject, vars
  <2> QED
    BY <1>1, <2>1
<1>7. ASSUME NEW d \in Conns, Acknowledges(d) PROVE Whole(t)'
  <2>1. d = c /\ link = c /\ graph' = graph /\ stage = "interpreting"
    BY <1>7 DEF Acknowledges, WriteAck
  <2>2. acked'[c] = acked[c] \cup {hand.hash}
    BY <1>0, <1>7, <2>1 DEF Acknowledges, Interpret, HandAt
  <2>3. Whole(hand.hash)
    BY <1>7, GraphAcks DEF Acknowledges
  <2> QED
    BY <2>1, <2>2, <2>3 DEF SaidAreWhole, Whole
<1>8. ASSUME NEW d \in Conns, Hands(d) PROVE Whole(t)'
  <2>1. link = c /\ acked' = acked /\ graph' = graph
    BY <1>8 DEF Hands, HandOver, vars
  <2> QED
    BY <1>1, <2>1
<1>9. ASSUME NEW d \in Conns, Breaks(d) \/ Cancels(d) PROVE Whole(t)'
  <2>1. link = c /\ acked' = acked /\ graph' = graph
    BY <1>9 DEF Breaks, Cancels, ConsumeEnds, HangUp, vars
  <2> QED
    BY <1>1, <2>1
<1>10. ASSUME NEW d \in Conns, Closes(d) PROVE Whole(t)'
  BY <1>10, SystemAssumption DEF Closes
<1>11. CASE Finishes
  <2>1. link = c /\ acked' = acked /\ graph' = graph
    BY <1>11 DEF Finishes, Studied, vars
  <2> QED
    BY <1>1, <2>1
<1> QED
  BY <1>2, <1>3, <1>4, <1>5, <1>6, <1>7, <1>8, <1>9, <1>10, <1>11
     DEF SysNext, Consumes, SysRest

\* The first update of a connection.
LEMMA FirstSince ==
  ASSUME TypeInv, NEW c \in Conns, down[c] # <<>>
  PROVE  1 \in DOMAIN down[c] /\ down[c][1] = Head(down[c])
<1>1. down[c] \in Seq(Message)
  BY DEF TypeInv, TypeOK
<1> HIDE DEF Message
<1> QED
  BY <1>1

-----------------------------------------------------------------------------
(* Until the server is swept, what it takes the client to hold is the tree    *)
(* the client has last acknowledged, or nothing.                              *)

\* What the client would say it holds.
Held == IF stage = "delivering" THEN hand.hash ELSE previous

Early == {"dialled", "accepted", "register"}
Baselined == {"join", "retired", "prepare", "ready", "announce", "current", "push",
              "report", "wait"}

FollowsAt(c) ==
  /\ pc[c] \in Early => reg[c].hash = Held
  /\ pc[c] \in Baselined => synced[c] \in {Void, Held}
  /\ pc[c] = "record" => owed[c].head.hash = Held
  /\ pc[c] = "ack" => down[c] # <<>> \/ owed[c].head.hash = Held
  /\ \A n \in DOMAIN down[c] :
       down[c][n].kind = "update" => down[c][n].since \in {Void, Held}

FollowOK == \A c \in Conns : link = c /\ stage \in Active => FollowsAt(c)

LEMMA ServesFollow ==
  ASSUME TypeInv, PipeOK, ReadyOK, PlacedOK, BaselinesOK, NEW c \in Conns, Serves(c),
         UNCHANGED clientVars, clientOpen[c], FollowsAt(c)
  PROVE  FollowsAt(c)'
<1>0. /\ pc \in [Conns -> Labels] /\ synced \in [Conns -> Trees] /\ owed \in [Conns -> Pair]
      /\ down \in [Conns -> Seq(Message)] /\ down[c] \in Seq(Message)
      /\ Held' = Held /\ PipeAt(c)
  BY DEF TypeInv, TypeOK, Held, clientVars, PipeOK
<1>a. ASSUME pc' = [pc EXCEPT ![c] = pc'[c]], UNCHANGED <<synced, reg, down>>,
             owed' = owed \/ pc'[c] \notin {"record", "ack"},
             pc'[c] \in Early => pc[c] \in Early,
             pc'[c] \in Baselined => pc[c] \in Baselined,
             pc'[c] \notin {"record", "ack"}
      PROVE  FollowsAt(c)'
  BY <1>0, <1>a DEF FollowsAt
<1> USE DEF Early, Baselined
<1>1. CASE Accept(c) \/ Handle(c) \/ RegisterFails(c)
  BY <1>0, <1>1, <1>a DEF Accept, Handle, RegisterFails
<1>2. CASE JoinRetiring(c) \/ Retired(c) \/ JoinMembers(c) \/ JoinFirst(c) \/ JoinRefused(c)
  BY <1>0, <1>2, <1>a DEF JoinRetiring, Retired, JoinMembers, JoinFirst, JoinRefused
<1>3. CASE Prepared(c) \/ PrepareFails(c) \/ ReadyRefused(c)
  <2>1. /\ pc[c] \in {"prepare", "ready"}
        /\ \E label \in {"ready", "leave"} : pc' = [pc EXCEPT ![c] = label]
        /\ UNCHANGED <<sync, signals, wires>>
    BY <1>3 DEF Prepared, PrepareFails, ReadyRefused
  <2> QED
    BY <1>0, <1>a, <2>1
<1>4. CASE Announce(c) \/ Current(c) \/ PushFails(c) \/ Report(c)
  BY <1>0, <1>4, <1>a DEF Announce, Current, PushFails, Report
<1>5. CASE Woken(c) \/ Lost(c)
  BY <1>0, <1>5, <1>a DEF Woken, Lost
<1>6. CASE Leave(c) \/ Release(c) \/ Unlist(c)
  BY <1>0, <1>6, <1>a DEF Leave, Release, Unlist
<1>7. CASE Unsubscribed(c)
  <2>1. /\ pc[c] = "unsubscribed" /\ UNCHANGED <<sync, signals, wires>>
        /\ \E label \in {"closing", "release", "unlist"} : pc' = [pc EXCEPT ![c] = label]
    BY <1>7 DEF Unsubscribed
  <2> QED
    BY <1>0, <1>a, <2>1
<1>8. CASE Register(c)
  BY <1>0, <1>8 DEF Register, FollowsAt
<1>9. CASE Ready(c)
  <2>1. synced'[c] \in {synced[c], Void} /\ pc'[c] = "announce" /\ pc[c] = "ready"
        /\ UNCHANGED <<owed, down>>
    BY <1>0, <1>9 DEF Ready, Baseline
  <2> QED
    BY <1>0, <2>1 DEF FollowsAt
<1>10. CASE Push(c)
  <2>1. /\ pc[c] = "push" /\ pc'[c] = "ack" /\ UNCHANGED <<synced, owed>>
        /\ down'[c] = Append(down[c], Update(owed[c].head, synced[c]))
    BY <1>0, <1>10 DEF Push
  <2>2. down[c] = <<>>
    BY <1>0, <2>1 DEF PipeAt, Settled
  <2>3. Update(owed[c].head, synced[c]).since = synced[c]
    BY DEF Update
  <2>4. synced[c] \in {Void, Held}
    BY <2>1 DEF FollowsAt
  <2> HIDE DEF Message, Update
  <2>5. /\ down'[c] # <<>>
        /\ \A n \in DOMAIN down'[c] : down'[c][n] = Update(owed[c].head, synced[c])
    BY <2>1, <2>2
  <2> QED
    BY <1>0, <2>1, <2>3, <2>4, <2>5 DEF FollowsAt
<1>11. CASE TakeAck(c)
  <2>1. /\ pc[c] = "ack" /\ acks[c] # NoAck /\ UNCHANGED <<synced, owed, down>>
        /\ pc'[c] = "ack" \/ (pc'[c] = "report" /\ owed[c].store # state[my[c]].store)
             \/ pc'[c] = "record"
    BY <1>0, <1>11 DEF TakeAck
  <2>2. down[c] = <<>>
    <3>1. \A n \in DOMAIN down[c] : FALSE
      BY <1>0, <2>1 DEF PipeAt, Gone
    <3> QED
      BY <3>1, FirstSince
  <2>3. owed[c].head.hash = Held
    BY <2>1, <2>2 DEF FollowsAt
  <2>4. owed[c].store = state[my[c]].store
    <3>1. my[c] \in StateIds /\ state[my[c]].ready /\ ~state[my[c]].err
      <4>1. my[c] \in 1..made /\ made \in 0..MaxStates /\ MaxStates \in Nat
        BY <2>1, ServerAssumption DEF TypeInv, TypeOK, SessionOK, Bound, Joined
      <4> QED
        BY <2>1, <4>1 DEF ReadyOK, Serving, StateIds
    <3>2. owed[c].store = StoreOf(my[c])
      BY <2>1 DEF BaselinesOK
    <3> QED
      BY <3>1, <3>2 DEF PlacedOK, StoreOf
  <2> QED
    BY <1>0, <2>1, <2>2, <2>3, <2>4 DEF FollowsAt
<1>12. CASE Record(c)
  <2>1. pc[c] = "record" /\ pc'[c] = "report" /\ synced'[c] = owed[c].head.hash /\ down' = down
    BY <1>0, <1>12 DEF Record
  <2> QED
    BY <1>0, <2>1 DEF FollowsAt
<1>13. CASE Refuse(c)
  <2>1. pc'[c] = "delisting" /\ (down'[c] = down[c] \/ down'[c] = Append(down[c], ErrorMessage))
    BY <1>0, <1>13 DEF Refuse
  <2>2. ErrorMessage.kind = "error" /\ ErrorMessage \in Message
    BY DEF ErrorMessage, Message, ZeroHead, AnyHead, Trees
  <2> HIDE DEF Message, ErrorMessage
  <2>3. \A n \in DOMAIN down'[c] :
          \/ down'[c][n] = ErrorMessage
          \/ n \in DOMAIN down[c] /\ down'[c][n] = down[c][n]
    <3>1. CASE down'[c] = down[c]
      BY <3>1
    <3>2. CASE down'[c] = Append(down[c], ErrorMessage)
      BY <1>0, <2>2, <3>2
    <3> QED
      BY <2>1, <3>1, <3>2
  <2> QED
    BY <1>0, <2>1, <2>2, <2>3 DEF FollowsAt
<1>14. CASE Delist(c)
  BY <1>0, <1>14, <1>a DEF Delist
<1>15. CASE Close(c)
  <2>1. pc'[c] = "done" /\ down' = down
    BY <1>0, <1>15 DEF Close
  <2> QED
    BY <1>0, <2>1 DEF FollowsAt
<1> QED
  BY <1>1, <1>2, <1>3, <1>4, <1>5, <1>6, <1>7, <1>8, <1>9, <1>10, <1>11, <1>12, <1>13,
     <1>14, <1>15
     DEF Serves

\* What the claims about the connection c are made of.
Steadily(c) ==
  /\ pc'[c] = pc[c] /\ synced'[c] = synced[c] /\ owed'[c] = owed[c]
  /\ reg'[c] = reg[c] /\ down'[c] = down[c]

LEMMA ServerFollow ==
  ASSUME TypeInv, PipeOK, ReadyOK, PlacedOK, BaselinesOK, ServerSteps, NEW c \in Conns,
         \A a \in Apps : ~SweepSteps(a) /\ ~SweepCheck(a), clientOpen[c], FollowsAt(c)
  PROVE  FollowsAt(c)'
<1>1. UNCHANGED clientVars
  BY DEF ServerSteps
<1>2. CASE Steadily(c)
  BY <1>1, <1>2 DEF Steadily, clientVars, Held, FollowsAt
<1>3. ASSUME NEW d \in Conns, Serves(d) PROVE FollowsAt(c)'
  <2>1. CASE d = c
    BY <1>1, <1>3, <2>1, ServesFollow
  <2>2. CASE d # c
    <3>1. Feeds(d) /\ Flows(d) /\ Detached(d)
      BY <1>3, ServesFeeds, ServesFlows, ServesApart
    <3>2. Steadily(c)
      BY <2>2, <3>1 DEF Feeds, Flows, Detached, Steadily
    <3> QED
      BY <1>2, <3>2
  <2> QED
    BY <2>1, <2>2
<1>4. ASSUME NEW d \in Conns, Reads(d) PROVE Steadily(c)
  BY <1>4 DEF Reads, ReadAck, ReadFails, Steadily
<1>5. ASSUME NEW a \in Apps, Begins(a) \/ Continues(a) PROVE Steadily(c)
  <2>1. synced' = synced
    BY <1>5, CallsFeed
  <2>2. UNCHANGED <<down, owed, reg>>
    BY <1>5, CallsFlow, CallsSpare
  <2>3. pc' = pc
    BY <1>5, BeginsCall, ContinuesCall
  <2> QED
    BY <2>1, <2>2, <2>3 DEF Steadily
<1> QED
  BY <1>2, <1>3, <1>4, <1>5 DEF ServerSteps

\* The acknowledgement of the one update under way moves both ends together.
LEMMA AckFollows ==
  ASSUME TypeInv, PipeOK, HandOK, NEW c \in Conns, Acknowledges(c)
  PROVE  FollowsAt(c)'
<1>0. /\ down \in [Conns -> Seq(Message)] /\ down[c] \in Seq(Message) /\ PipeAt(c)
      /\ HandAt(c) /\ link = c /\ stage = "interpreting"
  BY DEF TypeInv, TypeOK, PipeOK, HandOK, Acknowledges, WriteAck
<1>1. /\ UNCHANGED <<pc, synced, owed, reg>> /\ down'[c] = Tail(down[c])
      /\ down[c] # <<>> /\ Held' = hand.hash
  BY <1>0 DEF Acknowledges, WriteAck, Interpret, Held
<1>2. /\ 1 \in DOMAIN down[c] /\ down[c][1].kind = "update" /\ down[c][1].head = hand
  BY <1>0, <1>1, FirstSince DEF HandAt
<1>3. pc[c] \notin Settled
  BY <1>0, <1>1 DEF PipeAt
<1>4. pc[c] = "ack" => owed[c].head.hash = hand.hash
  BY <1>0, <1>2 DEF PipeAt
<1>5. \A n \in DOMAIN down'[c] :
        n + 1 \in DOMAIN down[c] /\ down'[c][n] = down[c][n + 1] /\ n + 1 # 1
  <2> HIDE DEF Message
  <2> QED
    BY <1>0, <1>1
<1>6. \A n \in DOMAIN down'[c] : down'[c][n].kind # "update"
  BY <1>0, <1>5 DEF PipeAt
<1> QED
  BY <1>1, <1>3, <1>4, <1>6 DEF FollowsAt, Settled, Early, Baselined

LEMMA StepFollow ==
  ASSUME TypeInv, KeepsOK, HandOK, PipeOK, AnswerOK, SweptOK, StoresOK, FollowOK, Unswept',
         [SysNext]_sysVars
  PROVE  FollowOK'
<1> SUFFICES ASSUME NEW c \in Conns, link' = c, stage' \in Active
             PROVE  FollowsAt(c)'
  BY DEF FollowOK
<1>0. HandAt(c) /\ link \in Conns \cup {Free} /\ reg \in [Conns -> Registrations \cup {Garbage}]
  BY DEF HandOK, KeepsOK, SysTypeOK, TypeInv, TypeOK
<1>1. /\ PlacedOK /\ BaselinesOK /\ ReadyOK
      /\ \A a \in Apps : ~SweepSteps(a) /\ ~SweepCheck(a)
  <2>1. [Next]_vars
    BY StepServer
  <2>2. Unswept /\ \A a \in Apps : ~SweepSteps(a) /\ ~SweepCheck(a)
    BY <2>1, UnsweptStep
  <2> QED
    BY <2>2 DEF StoresOK, AnswerOK
<1>2. ASSUME link = c, stage \in Active, Held' = Held, UNCHANGED vars PROVE FollowsAt(c)'
  <2>1. FollowsAt(c)
    BY <1>2 DEF FollowOK
  <2> QED
    BY <1>2, <2>1 DEF FollowsAt, vars
<1>3. CASE UNCHANGED sysVars
  BY <1>2, <1>3 DEF sysVars, clientVars, Held
<1>4. CASE ServerSteps
  <2>1. link = c /\ stage \in Active /\ clientOpen[c]
    BY <1>0, <1>4 DEF ServerSteps, clientVars, HandAt
  <2>2. FollowsAt(c)
    BY <2>1 DEF FollowOK
  <2> QED
    BY <1>1, <1>4, <2>1, <2>2, ServerFollow
<1>5. ASSUME NEW d \in Conns, Connects(d) PROVE FollowsAt(c)'
  <2>1. c = d /\ Dial(d) /\ reg'[c].hash = previous' /\ stage' = "reading"
    BY <1>5 DEF Connects, Resume
  <2>2. pc'[c] = "dialled" /\ down'[c] = <<>>
    BY <2>1 DEF Dial, TypeInv, TypeOK, PipeOK, PipeAt, Settled
  <2> QED
    BY <2>1, <2>2 DEF FollowsAt, Held, Early, Baselined
<1>6. ASSUME NEW d \in Conns, Receives(d) PROVE FollowsAt(c)'
  BY <1>2, <1>6 DEF Receives, ReadUpdate, Held, Active
<1>7. ASSUME NEW d \in Conns, Unpacks(d) PROVE FollowsAt(c)'
  BY <1>2, <1>7 DEF Unpacks, OnObject, Held, Active
<1>8. ASSUME NEW d \in Conns, Acknowledges(d) PROVE FollowsAt(c)'
  <2>1. d = c
    BY <1>8 DEF Acknowledges
  <2> QED
    BY <1>8, <2>1, AckFollows
<1>9. ASSUME NEW d \in Conns, Hands(d) PROVE FollowsAt(c)'
  BY <1>2, <1>9 DEF Hands, HandOver, Held, Active
<1>10. ASSUME NEW d \in Conns, Breaks(d) \/ Cancels(d) PROVE FALSE
  BY <1>10 DEF Breaks, Cancels, ConsumeEnds, Active
<1>11. ASSUME NEW d \in Conns, Closes(d) PROVE FALSE
  BY <1>11, SystemAssumption DEF Closes
<1>12. CASE Finishes
  BY <1>2, <1>12 DEF Finishes, Studied, Held
<1> QED
  BY <1>3, <1>4, <1>5, <1>6, <1>7, <1>8, <1>9, <1>10, <1>11, <1>12
     DEF SysNext, Consumes, SysRest

-----------------------------------------------------------------------------
(* What the client is about to compare, and what it would resume with.       *)

\* A client that never sweeps its graph, or one whose server is never swept.
WholeOK ==
  /\ ~Sweeping => GraphOK /\ SaidAreWhole
  /\ Unswept => GraphOK /\ FollowOK

LEMMA InitWhole == SysInit => HandOK /\ WholeOK
<1> SUFFICES ASSUME SysInit PROVE HandOK /\ WholeOK
  OBVIOUS
<1>1. HandOK
  BY SystemAssumption DEF SysInit, HandOK, HandAt
<1>2. GraphOK
  BY ClientAssumption DEF SysInit, ClientInit, GraphOK, Whole, Roots, Active
<1>3. SaidAreWhole
  BY SystemAssumption DEF SysInit, SaidAreWhole
<1>4. FollowOK
  BY SystemAssumption DEF SysInit, FollowOK
<1> QED
  BY <1>1, <1>2, <1>3, <1>4 DEF WholeOK

LEMMA StepWhole ==
  TypeInv /\ KeepsOK /\ HandOK /\ PipeOK /\ AnswerOK /\ SweptOK /\ StoresOK /\ SaidOK
    /\ WholeOK /\ [SysNext]_sysVars => WholeOK'
<1> SUFFICES ASSUME TypeInv, KeepsOK, HandOK, PipeOK, AnswerOK, SweptOK, StoresOK, SaidOK,
                    WholeOK, [SysNext]_sysVars
             PROVE  WholeOK'
  OBVIOUS
<1>1. ASSUME ~Sweeping PROVE GraphOK' /\ SaidAreWhole'
  <2>0. GraphOK /\ SaidAreWhole
    BY <1>1 DEF WholeOK
  <2>1. ASSUME NEW c \in Conns, Receives(c)
        PROVE  heads = <<>> /\ Whole(Head(down[c]).since)
    <3>1. heads = <<>>
      BY <1>1, <2>0 DEF GraphOK
    <3>2. link = c /\ down[c] # <<>> /\ Head(down[c]).kind = "update"
      BY <2>1 DEF Receives
    <3>3. Head(down[c]).since \in acked[c] \cup {Void}
      BY <3>2, FirstSince DEF SaidOK, SaidAt
    <3>4. Whole(Void)
      BY ClientAssumption DEF Whole
    <3> QED
      BY <2>0, <3>1, <3>2, <3>3, <3>4 DEF SaidAreWhole
  <2>2. GraphOK'
    BY <2>0, <2>1, StepGraph
  <2>3. SaidAreWhole'
    BY <1>1, <2>0, <2>2, StepSaidWhole
  <2> QED
    BY <2>2, <2>3
<1>2. ASSUME Unswept' PROVE GraphOK' /\ FollowOK'
  <2>0. GraphOK /\ FollowOK
    BY <1>2, StepServer, UnsweptStep DEF WholeOK
  <2>1. ASSUME NEW c \in Conns, Receives(c)
        PROVE  Head(down[c]).since \in {Void, previous}
    <3>1. /\ link = c /\ down[c] # <<>> /\ Head(down[c]).kind = "update" /\ stage = "reading"
      BY <2>1 DEF Receives, ReadUpdate
    <3>2. FollowsAt(c) /\ Held = previous
      BY <2>0, <3>1 DEF FollowOK, Active, Held
    <3> QED
      BY <3>1, <3>2, FirstSince DEF FollowsAt
  <2>2. GraphOK'
    BY <2>0, <2>1, StepGraph
  <2>3. FollowOK'
    BY <1>2, <2>0, StepFollow
  <2> QED
    BY <2>2, <2>3
<1> QED
  BY <1>1, <1>2 DEF WholeOK

LEMMA WholeKept == SysSpec => []WholeOK
<1>1. SysInit => HandOK /\ WholeOK
  BY InitWhole
<1>2. TypeInv /\ KeepsOK /\ HandOK /\ [SysNext]_sysVars => HandOK'
  BY StepHand
<1>3. TypeInv /\ KeepsOK /\ HandOK /\ PipeOK /\ AnswerOK /\ SweptOK /\ StoresOK /\ SaidOK
        /\ WholeOK /\ [SysNext]_sysVars => WholeOK'
  BY StepWhole
<1> QED
  BY <1>1, <1>2, <1>3, ClientKept, ClientIsAllowed, PipesKept, AnswersKept, StoresKept,
     BaselinesAreSaid, PTL DEF SysSpec

\* Both trees of the pair an update is about can be walked when it is handed
\* over, for a client without history, and for any client as long as the server
\* has not been swept.  Of a client WithHistory and a server that sweeps it is
\* not true: run ShortDelta.
THEOREM PairsCanBeCompared == SysSpec => [](~Sweeping \/ Unswept => DiffPossible)
<1>1. WholeOK => (~Sweeping \/ Unswept => DiffPossible)
  BY DEF WholeOK, GraphOK, DiffPossible
<1> QED
  BY <1>1, WholeKept, PTL

\* Under the same conditions the tree a client would resume with is one it holds
\* in full, whatever was cut off, cancelled or dropped on the way (Resume).
THEOREM ResumesWithAllOfIt == SysSpec => [](~Sweeping \/ Unswept => ResumeWhole)
<1>1. WholeOK => (~Sweeping \/ Unswept => ResumeWhole)
  BY DEF WholeOK, GraphOK, ResumeWhole
<1> QED
  BY <1>1, WholeKept, PTL

=============================================================================
