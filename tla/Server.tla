------------------------------- MODULE Server -------------------------------
(***************************************************************************)
(* The server of treevial: the registry of refs, the goroutines that serve *)
(* the connections, and the calls an application makes while they run      *)
(* (server/server.go, server/publish.go, server/subscriber.go).            *)
(*                                                                         *)
(* A connection is served by one goroutine that walks                      *)
(*   register, join, prepare, push, await the acknowledgement, wait        *)
(* and a second one that reads acknowledgements.  An action is what one    *)
(* goroutine does between two points where another one can interfere: a    *)
(* critical section of the server's mutex is one action, except in Sweep,  *)
(* which holds the mutex over many steps (variable mu) while goroutines    *)
(* that do not need the mutex run on.                                      *)
(*                                                                         *)
(* Trees are opaque.  A pack is what a subscriber that holds the tree      *)
(* since needs in order to hold the tree of head as well.                  *)
(***************************************************************************)
EXTENDS Heads, FiniteSets, Sequences

CONSTANTS
  Refs,           \* names of refs
  Conns,          \* connections; each is dialled at most once
  Apps,           \* application goroutines that call the server
  Headings,       \* the heads the application and its provider name
  Registrations,  \* what clients send first: records [ref, hash], or Garbage
  Named,          \* the heads maps Sweep is called with: records [Refs -> Head or Unnamed]
  WithProvider,   \* whether the server was made WithProvider: one answer or both
  Orderly,        \* no connection arrives during a call of the application
  Budgets,        \* how often each call may be made: one bound or several to choose from
  MaxStates,      \* bound on the refStates made
  MaxStores,      \* bound on the stores the application makes
  Free, Unnamed, NoAck, Garbage  \* model values: no holder, no entry, no message

Calls == {"SetHead", "Publish", "Unpublish", "Sweep", "Stop"}

ASSUME ServerAssumption ==
  /\ Headings \subseteq AnyHead
  /\ Registrations \subseteq [ref : Refs, hash : Trees] \cup {Garbage}
  /\ Named \subseteq [Refs -> Headings \cup {Unnamed}]
  /\ Unnamed \notin AnyHead
  /\ WithProvider \subseteq BOOLEAN
  /\ Orderly \in BOOLEAN
  /\ Budgets \subseteq [Calls -> Nat]
  /\ MaxStates \in Nat
  /\ MaxStores \in Nat \ {0}
  /\ Free \notin Apps
  /\ NoAck \notin Trees
  /\ Garbage \notin [ref : Refs, hash : Trees]

VARIABLES
  \* the registry, guarded by Server.mu
  mu,          \* the application goroutine sweeping, or Free
  refs,        \* Server.refs: the refState of each ref, 0 for none
  state,       \* the refStates, in the order they were made
  made,        \* how many have been made
  conns,       \* Server.conns
  stopped,     \* Server.stopped
  listening,   \* the listener is open and Serve accepts from it
  \* the object stores
  holds,       \* the trees each store holds
  appStore,    \* the store the application keeps its published refs in
  provider,    \* there is a Server.provider, which prepares the stores of other refs
  \* the two goroutines of a connection
  pc,          \* where the goroutine running handle is
  my,          \* subscriber.state
  synced,      \* subscriber.synced
  notify,      \* subscriber.notify holds a signal
  owed,        \* the store and head that serve last read together
  acks,        \* the acknowledgement in the channel acks, or NoAck
  reader,      \* the goroutine running readAcks: off, reading or failed
  last,        \* disconnect's local: this was the ref's last subscriber
  told,        \* what the watcher last heard of the subscriber
  refused,     \* serve returned a *treevial.Error
  \* the connections
  reg,         \* the registration the client sent
  down, up,    \* messages under way to the client, and to the server
  clientOpen, serverOpen,
  \* the application
  call,        \* what each of its goroutines is doing
  budget,      \* the calls it may still begin
  \* the clients, as far as the server needs them
  latest,      \* the head the client interpreted last
  acked,       \* every tree the client has registered or acknowledged
  \* the provider
  lent         \* the preparations it has not been given back

entries  == <<refs, state, made>>
running  == <<conns, stopped, listening>>
registry == <<entries, running>>
stores   == <<holds, appStore, provider>>
sync     == <<synced, owed>>
signals  == <<notify, acks, reader>>
life     == <<my, last, told, refused>>
session  == <<sync, signals, life>>
ends     == <<clientOpen, serverOpen>>
wires    == <<reg, down, up, ends>>
calls    == <<mu, call, budget>>
client   == <<latest, acked>>
outside  == <<calls, client, lent>>

vars == <<registry, stores, pc, session, wires, outside>>

-----------------------------------------------------------------------------
(* Values.                                                                 *)

StateIds == 1..MaxStates

\* A provider makes one store for each refState it prepares; the stores after
\* those are the application's.
Stores == 0..(MaxStates + MaxStores)

NoStore == 0

\* refState, as newRefState leaves it.
NewState == [
  ready     |-> FALSE,  prepared  |-> FALSE, err     |-> FALSE,
  retiring  |-> FALSE,  retired   |-> FALSE, members |-> {},
  published |-> FALSE,  store     |-> NoStore,
  head      |-> ZeroHead, sequenced |-> FALSE, installed |-> FALSE]

RefState == [
  ready     : BOOLEAN, prepared  : BOOLEAN, err     : BOOLEAN,
  retiring  : BOOLEAN, retired   : BOOLEAN, members : SUBSET Conns,
  published : BOOLEAN, store     : Stores,
  head      : AnyHead, sequenced : BOOLEAN, installed : BOOLEAN]

\* Faulty Update: the head and the baseline change places.
UpdateSwapped(head, since) == [kind |-> "update", head |-> since, since |-> head]

Update(head, since) == [kind |-> "update", head |-> head, since |-> since]
ErrorMessage        == [kind |-> "error", head |-> ZeroHead, since |-> Void]

Message == [kind : {"update", "error"}, head : AnyHead, since : Trees]

Pair == [store : Stores, head : AnyHead]

NoPair == [store |-> NoStore, head |-> ZeroHead]

\* A goroutine of the application between calls.
Idle == [at |-> "idle", ref |-> Free, st |-> 0, head |-> ZeroHead, todo |-> {},
         named |-> Unnamed, store |-> NoStore, refs |-> {}, moved |-> FALSE,
         drop |-> Free]

Call == [at    : {"idle", "move", "wake", "publish", "close", "listener",
                  "install", "members", "reset"},
         ref   : Refs \cup {Free},   st   : 0..MaxStates, head  : AnyHead,
         todo  : SUBSET Conns,       named : Named \cup {Unnamed},
         store : Stores,             refs : SUBSET Refs,  moved : BOOLEAN,
         drop  : Conns \cup {Free}]

Labels == {"idle", "dialled", "accepted", "register", "join", "retired",
           "prepare", "ready", "announce", "current", "push", "ack", "record",
           "report", "wait", "leave", "unsubscribed", "release", "unlist",
           "closing", "delisting", "shutting", "done"}

\* Connections that are on their way to a ref but not among its members yet.
Arriving == {"dialled", "accepted", "register", "join", "retired"}

\* Connections that are members of a refState.
Joined == {"prepare", "ready", "announce", "current", "push", "ack", "record",
           "report", "wait", "leave"}

-----------------------------------------------------------------------------
(* Helpers.                                                                *)

Unlocked == mu = Free

Goto(c, label) == pc' = [pc EXCEPT ![c] = label]

\* Has: what SelectSince, Sweep and connect ask of a store.
Has(store, hash) == hash \in holds[store]

\* loading a tree into a store; nothing removes objects from one
Load(store, hash) == [holds EXCEPT ![store] = @ \cup ({hash} \ {Void})]

\* Server.living, as the refState or 0.
Living(ref) == IF refs[ref] # 0 /\ state[refs[ref]].retiring THEN 0 ELSE refs[ref]

\* Faulty Found: an entry that is being handed back counts as gone.
FoundLiving(ref) == Living(ref)

\* What connect and Publish find in the registry: the refState or 0.
Found(ref) == refs[ref]

\* Faulty Baseline: what the client registered is believed.
BaselineBelieved(store, hash) == hash

\* The baseline connect leaves a subscriber that registered with hash.
Baseline(store, hash) == IF Has(store, hash) THEN hash ELSE Void

\* Faulty Ends: the members are counted before the subscriber is removed.
EndsTooEarly(c) ==
  ~state[my[c]].published /\ state[my[c]].members = {} /\ refs[reg[c].ref] = my[c]

\* disconnect's last, once c is no longer a member.
Ends(c) ==
  LET i == my[c] IN
  ~state[i].published /\ state[i].members \subseteq {c} /\ refs[reg[c].ref] = i

\* The refs the application has published.
PublishedRefs == {r \in Refs : refs[r] # 0 /\ state[refs[r]].published}

\* The server's side closing a connection loses what the client had under way.
CloseAll(cs) ==
  /\ serverOpen' = [c \in Conns |-> serverOpen[c] /\ c \notin cs]
  /\ up' = [c \in Conns |-> IF c \in cs THEN <<>> ELSE up[c]]

\* A goroutine of the application begins a call.
Begin(a, op) ==
  /\ call[a] = Idle
  /\ budget[op] > 0
  /\ budget' = [budget EXCEPT ![op] = @ - 1]
  /\ Orderly => \A c \in Conns : pc[c] \notin Arriving

Continue(a, what) == call' = [call EXCEPT ![a] = what]

-----------------------------------------------------------------------------
Init ==
  /\ mu = Free
  /\ refs = [r \in Refs |-> 0]
  /\ state = [i \in StateIds |-> NewState]
  /\ made = 0
  /\ conns = {}
  /\ stopped = FALSE
  /\ listening = TRUE
  /\ holds = [s \in Stores |-> {}]
  /\ appStore = MaxStates + 1
  /\ provider \in WithProvider
  /\ pc = [c \in Conns |-> "idle"]
  /\ my = [c \in Conns |-> 0]
  /\ synced = [c \in Conns |-> Void]
  /\ notify = [c \in Conns |-> FALSE]
  /\ owed = [c \in Conns |-> NoPair]
  /\ acks = [c \in Conns |-> NoAck]
  /\ reader = [c \in Conns |-> "off"]
  /\ last = [c \in Conns |-> FALSE]
  /\ told = [c \in Conns |-> "nothing"]
  /\ refused = [c \in Conns |-> FALSE]
  /\ reg = [c \in Conns |-> Garbage]
  /\ down = [c \in Conns |-> <<>>]
  /\ up = [c \in Conns |-> <<>>]
  /\ clientOpen = [c \in Conns |-> FALSE]
  /\ serverOpen = [c \in Conns |-> FALSE]
  /\ call = [a \in Apps |-> Idle]
  /\ budget \in Budgets
  /\ latest = [c \in Conns |-> ZeroHead]
  /\ acked = [c \in Conns |-> {}]
  /\ lent = {}

-----------------------------------------------------------------------------
(* Accepting a connection, and its registration.                           *)

\* Serve: the listener hands over a connection and a goroutine is started.
Accept(c) ==
  /\ pc[c] = "dialled"
  /\ listening
  /\ Goto(c, "accepted")
  /\ UNCHANGED <<registry, stores, session, wires, outside>>

\* handle, up to serve: Stop can find the connection from here on.
Handle(c) ==
  /\ pc[c] = "accepted"
  /\ Unlocked
  /\ conns' = conns \cup {c}
  /\ Goto(c, "register")
  /\ UNCHANGED <<entries, stopped, listening, stores, session, wires, outside>>

\* register returns a message, and connect makes a subscriber of it.
Register(c) ==
  /\ pc[c] = "register"
  /\ serverOpen[c]
  /\ reg[c] # Garbage
  /\ synced' = [synced EXCEPT ![c] = reg[c].hash]
  /\ Goto(c, "join")
  /\ UNCHANGED <<registry, stores, owed, signals, life, wires, outside>>

\* register returns an error: a message that is no registration is refused, a
\* connection that is gone is not answered.
RegisterFails(c) ==
  /\ pc[c] = "register"
  /\ \/ reg[c] = Garbage
     \/ ~serverOpen[c]
     \/ ~clientOpen[c]
  /\ refused' = [refused EXCEPT ![c] = reg[c] = Garbage /\ serverOpen[c]]
  /\ Goto(c, "closing")
  /\ UNCHANGED <<registry, stores, sync, signals, my, last, told, wires,
                 outside>>

-----------------------------------------------------------------------------
(* connect: joining a ref, and the provider's answer for the first to do so.*)

\* The ref is being handed back to the provider: wait for that to end.
JoinRetiring(c) ==
  /\ pc[c] = "join"
  /\ Unlocked
  /\ LET i == Found(reg[c].ref) IN
       /\ i # 0
       /\ state[i].retiring
       /\ my' = [my EXCEPT ![c] = i]
  /\ Goto(c, "retired")
  /\ UNCHANGED <<registry, stores, sync, signals, last, told, refused, wires,
                 outside>>

\* <-st.retired, and start again from a clean slate.
Retired(c) ==
  /\ pc[c] = "retired"
  /\ state[my[c]].retired
  /\ my' = [my EXCEPT ![c] = 0]
  /\ Goto(c, "join")
  /\ UNCHANGED <<registry, stores, sync, signals, last, told, refused, wires,
                 outside>>

\* The ref is there already: become one of its members.
JoinMembers(c) ==
  /\ pc[c] = "join"
  /\ Unlocked
  /\ LET i == Found(reg[c].ref) IN
       /\ i # 0
       /\ ~state[i].retiring
       /\ state' = [state EXCEPT ![i].members = @ \cup {c}]
       /\ my' = [my EXCEPT ![c] = i]
  /\ Goto(c, "ready")
  /\ UNCHANGED <<refs, made, running, stores, sync, signals, last, told,
                 refused, wires, outside>>

\* Nobody has the ref: make it, and call Prepare.
JoinFirst(c) ==
  /\ pc[c] = "join"
  /\ Unlocked
  /\ provider
  /\ Found(reg[c].ref) = 0
  /\ made < MaxStates
  /\ made' = made + 1
  /\ refs' = [refs EXCEPT ![reg[c].ref] = made + 1]
  /\ state' = [state EXCEPT ![made + 1] = [NewState EXCEPT !.members = {c}]]
  /\ my' = [my EXCEPT ![c] = made + 1]
  /\ Goto(c, "prepare")
  /\ UNCHANGED <<running, stores, sync, signals, last, told, refused, wires,
                 outside>>

\* Nobody has the ref and there is nowhere to ask for it.
JoinRefused(c) ==
  /\ pc[c] = "join"
  /\ Unlocked
  /\ ~provider
  /\ Found(reg[c].ref) = 0
  /\ refused' = [refused EXCEPT ![c] = TRUE]
  /\ Goto(c, "closing")
  /\ UNCHANGED <<registry, stores, sync, signals, my, last, told, wires,
                 outside>>

\* Server.forget: drop the entry if it is still this one.
Forget(ref, i) == [refs EXCEPT ![ref] = IF @ = i THEN 0 ELSE @]

\* prepare, once Prepare has answered with a store and a head.  SetHead may
\* have moved the ref meanwhile, and may have fixed its kind.
Prepared(c) ==
  /\ pc[c] = "prepare"
  /\ \E head \in Headings :
       LET i  == my[c]
           st == state[i] IN
       /\ lent' = lent \cup {<<reg[c].ref, i>>}
       /\ IF Allows(st, head)
          THEN /\ state' = [state EXCEPT ![i] =
                              [Move(st, head) EXCEPT !.store = i, !.prepared = TRUE,
                                                     !.ready = TRUE]]
               /\ holds' = Load(i, head.hash)
               /\ refs' = refs
          ELSE /\ Unlocked
               /\ state' = [state EXCEPT ![i].err = TRUE, ![i].ready = TRUE]
               /\ refs' = Forget(reg[c].ref, i)
               /\ holds' = holds
  /\ Goto(c, "ready")
  /\ UNCHANGED <<made, running, appStore, provider, session, wires, calls,
                 client>>

\* prepare, once Prepare has answered with an error.
PrepareFails(c) ==
  /\ pc[c] = "prepare"
  /\ Unlocked
  /\ state' = [state EXCEPT ![my[c]].err = TRUE, ![my[c]].ready = TRUE]
  /\ refs' = Forget(reg[c].ref, my[c])
  /\ Goto(c, "ready")
  /\ UNCHANGED <<made, running, stores, session, wires, outside>>

\* <-st.ready with an answer: a baseline the store does not hold is dropped.
Ready(c) ==
  /\ pc[c] = "ready"
  /\ LET st == state[my[c]] IN
       /\ st.ready
       /\ ~st.err
       /\ synced' = [synced EXCEPT ![c] = Baseline(st.store, @)]
  /\ Goto(c, "announce")
  /\ UNCHANGED <<registry, stores, owed, signals, life, wires, outside>>

\* <-st.ready with the error of the preparation.
ReadyRefused(c) ==
  /\ pc[c] = "ready"
  /\ state[my[c]].ready
  /\ state[my[c]].err
  /\ refused' = [refused EXCEPT ![c] = TRUE]
  /\ Goto(c, "leave")
  /\ UNCHANGED <<registry, stores, sync, signals, my, last, told, wires,
                 outside>>

\* report(Subscribed); serve starts the reader.
Announce(c) ==
  /\ pc[c] = "announce"
  /\ Unlocked
  /\ told' = [told EXCEPT ![c] = "subscribed"]
  /\ reader' = [reader EXCEPT ![c] = "reading"]
  /\ Goto(c, "current")
  /\ UNCHANGED <<registry, stores, sync, notify, acks, my, last, refused, wires,
                 outside>>

-----------------------------------------------------------------------------
(* serve: the loop that pushes.                                            *)

\* refState.current: the store and the head as a pair.
Current(c) ==
  /\ pc[c] = "current"
  /\ owed' = [owed EXCEPT ![c] = [store |-> state[my[c]].store,
                                  head  |-> state[my[c]].head]]
  /\ Goto(c, "push")
  /\ UNCHANGED <<registry, stores, synced, signals, life, wires, outside>>

\* SelectSince answers: the head is a tree of the store, and so is a baseline.
\* A void head selects nothing.
Selects(store, since, hash) ==
  hash # Void => /\ since # Void => Has(store, since)
                 /\ Has(store, hash)

\* Faulty Push: the client is taken to hold what it has only been sent.
PushRecords(c) ==
  /\ pc[c] = "push"
  /\ Selects(owed[c].store, synced[c], owed[c].head.hash)
  /\ serverOpen[c]
  /\ down' = [down EXCEPT ![c] =
                IF clientOpen[c] THEN Append(@, Update(owed[c].head, synced[c])) ELSE @]
  /\ synced' = [synced EXCEPT ![c] = owed[c].head.hash]
  /\ Goto(c, "ack")
  /\ UNCHANGED <<registry, stores, owed, signals, life, reg, up, ends, outside>>

\* Faulty Push: nobody waits for the acknowledgement.
PushAhead(c) ==
  /\ pc[c] = "push"
  /\ Selects(owed[c].store, synced[c], owed[c].head.hash)
  /\ serverOpen[c]
  /\ down' = [down EXCEPT ![c] =
                IF clientOpen[c] THEN Append(@, Update(owed[c].head, synced[c])) ELSE @]
  /\ Goto(c, "report")
  /\ UNCHANGED <<registry, stores, session, reg, up, ends, outside>>

\* push: the update is written.  Writing to a connection the client has closed
\* may still succeed.
Push(c) ==
  /\ pc[c] = "push"
  /\ Selects(owed[c].store, synced[c], owed[c].head.hash)
  /\ serverOpen[c]
  /\ down' = [down EXCEPT ![c] =
                IF clientOpen[c] THEN Append(@, Update(owed[c].head, synced[c])) ELSE @]
  /\ Goto(c, "ack")
  /\ UNCHANGED <<registry, stores, session, reg, up, ends, outside>>

\* push: the selection is refused, or the connection is gone.
PushFails(c) ==
  /\ pc[c] = "push"
  /\ LET selects == Selects(owed[c].store, synced[c], owed[c].head.hash) IN
       /\ selects => ~serverOpen[c] \/ ~clientOpen[c]
       /\ refused' = [refused EXCEPT ![c] = ~selects]
  /\ Goto(c, "leave")
  /\ UNCHANGED <<registry, stores, sync, signals, my, last, told, wires,
                 outside>>

\* awaitAck: one acknowledgement.  A stale one is passed over; one of a push
\* from a store that has been replaced ends the wait without being recorded.
TakeAck(c) ==
  /\ pc[c] = "ack"
  /\ acks[c] # NoAck
  /\ acks' = [acks EXCEPT ![c] = NoAck]
  /\ IF acks[c] # owed[c].head.hash THEN Goto(c, "ack")
     ELSE IF owed[c].store # state[my[c]].store THEN Goto(c, "report")
     ELSE Goto(c, "record")
  /\ UNCHANGED <<registry, stores, sync, notify, reader, life, wires, outside>>

\* subscriber.ack, past the comparison of the stores.
Record(c) ==
  /\ pc[c] = "record"
  /\ synced' = [synced EXCEPT ![c] = owed[c].head.hash]
  /\ Goto(c, "report")
  /\ UNCHANGED <<registry, stores, owed, signals, life, wires, outside>>

\* Faulty Report: wake-ups that came in during the push are thrown away.
ReportDrains(c) ==
  /\ pc[c] = "report"
  /\ Unlocked
  /\ told' = [told EXCEPT ![c] = "synced"]
  /\ notify' = [notify EXCEPT ![c] = FALSE]
  /\ Goto(c, "wait")
  /\ UNCHANGED <<registry, stores, sync, acks, reader, my, last, refused, wires,
                 outside>>

\* report(Synced).
Report(c) ==
  /\ pc[c] = "report"
  /\ Unlocked
  /\ told' = [told EXCEPT ![c] = "synced"]
  /\ Goto(c, "wait")
  /\ UNCHANGED <<registry, stores, sync, signals, my, last, refused, wires,
                 outside>>

\* <-c.notify: round again.
Woken(c) ==
  /\ pc[c] = "wait"
  /\ notify[c]
  /\ notify' = [notify EXCEPT ![c] = FALSE]
  /\ Goto(c, "current")
  /\ UNCHANGED <<registry, stores, sync, acks, reader, life, wires, outside>>

\* <-recvErr, in serve's select or in awaitAck's.
Lost(c) ==
  /\ pc[c] \in {"ack", "wait"}
  /\ reader[c] = "failed"
  /\ Goto(c, "leave")
  /\ UNCHANGED <<registry, stores, session, wires, outside>>

\* readAcks: an acknowledgement goes into the channel, or is dropped when the
\* channel is full.
ReadAck(c) ==
  /\ reader[c] = "reading"
  /\ serverOpen[c]
  /\ up[c] # <<>>
  /\ up' = [up EXCEPT ![c] = Tail(@)]
  /\ acks' = [acks EXCEPT ![c] = IF @ = NoAck THEN Head(up[c]) ELSE @]
  /\ UNCHANGED <<registry, stores, pc, sync, notify, reader, life, reg, down,
                 ends, outside>>

\* readAcks: the connection is gone, for whichever side closed it.
ReadFails(c) ==
  /\ reader[c] = "reading"
  /\ ~serverOpen[c] \/ ~clientOpen[c]
  /\ reader' = [reader EXCEPT ![c] = "failed"]
  /\ UNCHANGED <<registry, stores, pc, sync, notify, acks, life, wires,
                 outside>>

-----------------------------------------------------------------------------
(* disconnect, and the end of handle.                                      *)

\* The subscriber stops being a member; the last one of a provider's ref marks
\* it as being handed back.
Leave(c) ==
  /\ pc[c] = "leave"
  /\ Unlocked
  /\ state' = [state EXCEPT ![my[c]].members = @ \ {c}, ![my[c]].retiring = @ \/ Ends(c)]
  /\ last' = [last EXCEPT ![c] = Ends(c)]
  /\ Goto(c, "unsubscribed")
  /\ UNCHANGED <<refs, made, running, stores, sync, signals, my, told, refused,
                 wires, outside>>

\* report(Unsubscribed), for a subscriber that was announced.
Unsubscribed(c) ==
  /\ pc[c] = "unsubscribed"
  /\ told[c] # "nothing" => Unlocked
  /\ told' = [told EXCEPT ![c] = IF @ = "nothing" THEN @ ELSE "unsubscribed"]
  /\ Goto(c, IF ~last[c] THEN "closing"
             ELSE IF state[my[c]].prepared THEN "release" ELSE "unlist")
  /\ UNCHANGED <<registry, stores, sync, signals, my, last, refused, wires,
                 outside>>

\* Provider.Release returns.
Release(c) ==
  /\ pc[c] = "release"
  /\ lent' = lent \ {<<reg[c].ref, my[c]>>}
  /\ Goto(c, "unlist")
  /\ UNCHANGED <<registry, stores, session, wires, calls, client>>

\* The entry goes, and whoever waits for that may start again.
Unlist(c) ==
  /\ pc[c] = "unlist"
  /\ Unlocked
  /\ refs' = Forget(reg[c].ref, my[c])
  /\ state' = [state EXCEPT ![my[c]].retired = TRUE]
  /\ Goto(c, "closing")
  /\ UNCHANGED <<made, running, stores, session, wires, outside>>

\* serve has returned: a refusal is written, anything else is not told.
Refuse(c) ==
  /\ pc[c] = "closing"
  /\ down' = [down EXCEPT ![c] = IF refused[c] /\ serverOpen[c] /\ clientOpen[c]
                                 THEN Append(@, ErrorMessage) ELSE @]
  /\ Goto(c, "delisting")
  /\ UNCHANGED <<registry, stores, session, reg, up, ends, outside>>

\* The connection is forgotten: Stop does not find it from here on.
Delist(c) ==
  /\ pc[c] = "delisting"
  /\ Unlocked
  /\ conns' = conns \ {c}
  /\ Goto(c, "shutting")
  /\ UNCHANGED <<entries, stopped, listening, stores, session, wires, outside>>

\* And closed, which ends readAcks too.  What the two goroutines kept goes with
\* them.
Close(c) ==
  /\ pc[c] = "shutting"
  /\ CloseAll({c})
  /\ my' = [my EXCEPT ![c] = 0]
  /\ synced' = [synced EXCEPT ![c] = Void]
  /\ notify' = [notify EXCEPT ![c] = FALSE]
  /\ owed' = [owed EXCEPT ![c] = NoPair]
  /\ acks' = [acks EXCEPT ![c] = NoAck]
  /\ reader' = [reader EXCEPT ![c] = "off"]
  /\ last' = [last EXCEPT ![c] = FALSE]
  /\ Goto(c, "done")
  /\ UNCHANGED <<registry, stores, told, refused, reg, down, clientOpen, outside>>

-----------------------------------------------------------------------------
(* The client's end of a connection, as the protocol has it: register, then *)
(* acknowledge every update in order, or hang up.                           *)

Dial(c) ==
  /\ pc[c] = "idle"
  /\ listening
  /\ Orderly => \A a \in Apps : call[a] = Idle
  /\ \E r \in Registrations :
       /\ reg' = [reg EXCEPT ![c] = r]
       /\ acked' = [acked EXCEPT ![c] = IF r = Garbage THEN {} ELSE {r.hash}]
  /\ clientOpen' = [clientOpen EXCEPT ![c] = TRUE]
  /\ serverOpen' = [serverOpen EXCEPT ![c] = TRUE]
  /\ Goto(c, "dialled")
  /\ UNCHANGED <<registry, stores, session, down, up, calls, latest, lent>>

\* An update is interpreted and acknowledged.
Interpret(c) ==
  /\ clientOpen[c]
  /\ down[c] # <<>>
  /\ LET msg == Head(down[c]) IN
       /\ msg.kind = "update"
       /\ latest' = [latest EXCEPT ![c] = msg.head]
       /\ acked' = [acked EXCEPT ![c] = @ \cup {msg.head.hash}]
       /\ up' = [up EXCEPT ![c] = IF serverOpen[c] THEN Append(@, msg.head.hash) ELSE @]
  /\ down' = [down EXCEPT ![c] = Tail(@)]
  /\ UNCHANGED <<registry, stores, pc, session, reg, ends, calls, lent>>

\* The client closes its end: because it wants to, or because the server
\* refused it or closed the connection.
HangUp(c) ==
  /\ clientOpen[c]
  /\ clientOpen' = [clientOpen EXCEPT ![c] = FALSE]
  /\ down' = [down EXCEPT ![c] = <<>>]
  /\ UNCHANGED <<registry, stores, pc, session, reg, up, serverOpen, outside>>

-----------------------------------------------------------------------------
(* The application: SetHead.                                               *)

\* The store the objects behind a ref are loaded into.
StoreOf(i) == IF state[i].published THEN appStore ELSE i

\* The objects are loaded, then SetHead finds the ref and who follows it.
SetHeadFind(a) ==
  /\ Begin(a, "SetHead")
  /\ Unlocked
  /\ \E ref \in Refs, head \in Headings :
       LET i == Living(ref) IN
       /\ i # 0
       /\ holds' = Load(StoreOf(i), head.hash)
       /\ Continue(a, [Idle EXCEPT !.at = "move", !.ref = ref, !.st = i, !.head = head,
                                   !.todo = state[i].members])
  /\ UNCHANGED <<registry, appStore, provider, pc, session, wires, mu, client,
                 lent>>

\* moveHead; a head that does not move the ref wakes nobody.
SetHeadMove(a) ==
  /\ call[a].at = "move"
  /\ LET i == call[a].st IN
       /\ state' = [state EXCEPT ![i] = Move(@, call[a].head)]
       /\ IF Moves(state[i], call[a].head) /\ call[a].todo # {}
          THEN Continue(a, [call[a] EXCEPT !.at = "wake"])
          ELSE Continue(a, Idle)
  /\ UNCHANGED <<refs, made, running, stores, pc, session, wires, mu, budget,
                 client, lent>>

\* Faulty TakeOff: the call is over after the first one.
TakeOffFirst(a, c, done) == Continue(a, done)

\* The rest of a call that has one thing left to do for each of a set.
TakeOff(a, c, done) ==
  IF call[a].todo = {c} THEN Continue(a, done)
  ELSE Continue(a, [call[a] EXCEPT !.todo = @ \ {c}])

\* wake, for one of those SetHead found.
SetHeadWake(a) ==
  /\ call[a].at = "wake"
  /\ \E c \in call[a].todo :
       /\ notify' = [notify EXCEPT ![c] = TRUE]
       /\ TakeOff(a, c, Idle)
  /\ UNCHANGED <<registry, stores, pc, sync, acks, reader, life, wires, mu,
                 budget, client, lent>>

-----------------------------------------------------------------------------
(* The application: Publish and Unpublish.                                 *)

\* Publish, up to the entry being in the registry with no head yet.
PublishInsert(a) ==
  /\ Begin(a, "Publish")
  /\ Unlocked
  /\ made < MaxStates
  /\ \E ref \in Refs, head \in Headings :
       /\ Found(ref) = 0
       /\ refs' = [refs EXCEPT ![ref] = made + 1]
       /\ holds' = Load(appStore, head.hash)
       /\ Continue(a, [Idle EXCEPT !.at = "publish", !.ref = ref, !.st = made + 1,
                                   !.head = head])
  /\ made' = made + 1
  /\ state' = [state EXCEPT ![made + 1] =
                 [NewState EXCEPT !.published = TRUE, !.prepared = TRUE,
                                  !.store = appStore]]
  /\ UNCHANGED <<running, appStore, provider, pc, session, wires, mu, client,
                 lent>>

\* The head goes in and the ref is ready, or the entry is taken out again.
PublishMove(a) ==
  /\ call[a].at = "publish"
  /\ LET i == call[a].st IN
       IF Allows(state[i], call[a].head)
       THEN /\ state' = [state EXCEPT ![i] = [Move(@, call[a].head) EXCEPT !.ready = TRUE]]
            /\ refs' = refs
       ELSE /\ Unlocked
            /\ refs' = Forget(call[a].ref, i)
            /\ state' = state
  /\ Continue(a, Idle)
  /\ UNCHANGED <<made, running, stores, pc, session, wires, mu, budget, client,
                 lent>>

\* Unpublish: the entry goes at once, and those who follow it are cut off.
Unpublish(a) ==
  /\ Begin(a, "Unpublish")
  /\ Unlocked
  /\ \E ref \in PublishedRefs :
       LET members == state[refs[ref]].members IN
       /\ refs' = [refs EXCEPT ![ref] = 0]
       /\ Continue(a, IF members = {} THEN Idle
                      ELSE [Idle EXCEPT !.at = "close", !.todo = members])
  /\ UNCHANGED <<state, made, running, stores, pc, session, wires, mu, client,
                 lent>>

\* conn.Close, for one of those Unpublish or Stop found.
CloseOne(a) ==
  /\ call[a].at = "close"
  /\ \E c \in call[a].todo :
       /\ CloseAll({c})
       /\ TakeOff(a, c, Idle)
  /\ UNCHANGED <<registry, stores, pc, session, reg, down, clientOpen, mu,
                 budget, client, lent>>

-----------------------------------------------------------------------------
(* The application: Sweep, which holds the server's mutex all the way.     *)

\* The head a ref is to have.
Wanted(named, ref) == IF named[ref] = Unnamed THEN state[refs[ref]].head ELSE named[ref]

\* Faulty Sweepable: only the refs that are named are looked up in the new store.
SweepableNamed(named, kept) ==
  \A ref \in Refs : named[ref] # Unnamed =>
    /\ ref \in PublishedRefs
    /\ named[ref].hash \in kept \cup {Void}
    /\ WouldMove(state[refs[ref]], named[ref])

\* Every named ref is published and takes its head, and the new store holds
\* what every published ref will point at.
Sweepable(named, kept) ==
  /\ \A ref \in Refs : named[ref] # Unnamed => ref \in PublishedRefs
  /\ \A ref \in PublishedRefs :
       /\ Wanted(named, ref).hash \in kept \cup {Void}
       /\ named[ref] # Unnamed => WouldMove(state[refs[ref]], named[ref])

\* The checks pass, and the mutex stays held.  kept is what the new store
\* holds: whatever the application compacted into it.
SweepCheck(a) ==
  /\ Begin(a, "Sweep")
  /\ Unlocked
  /\ appStore < MaxStates + MaxStores
  /\ PublishedRefs # {}
  /\ \E named \in Named, kept \in SUBSET Hashes :
       /\ Sweepable(named, kept)
       /\ holds' = [holds EXCEPT ![appStore + 1] = kept]
       /\ Continue(a, [Idle EXCEPT !.at = "install", !.named = named,
                                   !.store = appStore + 1, !.refs = PublishedRefs])
  /\ mu' = a
  /\ UNCHANGED <<registry, appStore, provider, pc, session, wires, client, lent>>

\* The next ref of the sweep, or the end of it.
SweepOn(a, remaining) ==
  IF remaining = {}
  THEN /\ Continue(a, Idle)
       /\ mu' = Free
       /\ appStore' = call[a].store
  ELSE /\ Continue(a, [call[a] EXCEPT !.at = "install", !.refs = remaining, !.ref = Free,
                                      !.st = 0, !.todo = {}, !.moved = FALSE])
       /\ UNCHANGED <<mu, appStore>>

\* One published ref gets its store and, if it is named, its head.
SweepInstall(a) ==
  /\ call[a].at = "install"
  /\ \E ref \in call[a].refs :
       LET i     == refs[ref]
           head  == call[a].named[ref]
           named == head # Unnamed IN
       /\ state' = [state EXCEPT ![i] = IF named THEN Install(@, call[a].store, head)
                                        ELSE [@ EXCEPT !.store = call[a].store]]
       /\ IF state[i].members = {}
          THEN SweepOn(a, call[a].refs \ {ref})
          ELSE /\ Continue(a, [call[a] EXCEPT !.at = "members", !.ref = ref, !.st = i,
                                              !.todo = state[i].members,
                                              !.moved = named /\ Moves(state[i], head)])
               /\ UNCHANGED <<mu, appStore>>
  /\ UNCHANGED <<refs, made, running, holds, provider, pc, session, wires, budget,
                 client, lent>>

\* Faulty SweepNext: only the first member of a ref is looked at.
SweepNextRef(a, c) == SweepOn(a, call[a].refs \ {call[a].ref})

\* The next member of the ref, or the next ref.
SweepNext(a, c) ==
  IF call[a].todo = {c} THEN SweepOn(a, call[a].refs \ {call[a].ref})
  ELSE /\ Continue(a, [call[a] EXCEPT !.at = "members", !.todo = @ \ {c}, !.drop = Free])
       /\ UNCHANGED <<mu, appStore>>

\* A member whose tree the new store holds is woken only if its ref moved.
SweepKeeps(a) ==
  /\ call[a].at = "members"
  /\ \E c \in call[a].todo :
       /\ synced[c] # Void => Has(call[a].store, synced[c])
       /\ notify' = [notify EXCEPT ![c] = @ \/ call[a].moved]
       /\ SweepNext(a, c)
  /\ UNCHANGED <<registry, holds, provider, pc, sync, acks, reader, life, wires,
                 budget, client, lent>>

\* A member whose tree is gone is found ...
SweepDrops(a) ==
  /\ call[a].at = "members"
  /\ \E c \in call[a].todo :
       /\ synced[c] # Void
       /\ ~Has(call[a].store, synced[c])
       /\ Continue(a, [call[a] EXCEPT !.at = "reset", !.drop = c])
  /\ UNCHANGED <<registry, stores, pc, session, wires, mu, budget, client,
                 lent>>

\* ... and its baseline reset.
SweepResets(a) ==
  /\ call[a].at = "reset"
  /\ LET c == call[a].drop IN
       /\ synced' = [synced EXCEPT ![c] = Void]
       /\ notify' = [notify EXCEPT ![c] = TRUE]
       /\ SweepNext(a, c)
  /\ UNCHANGED <<registry, holds, provider, pc, owed, acks, reader, life, wires,
                 budget, client, lent>>

-----------------------------------------------------------------------------
(* The application: Stop.                                                  *)

\* Faulty Stop: nobody connects any more, and those who have stay connected.
StopListens(a) ==
  /\ Begin(a, "Stop")
  /\ Unlocked
  /\ ~stopped
  /\ stopped' = TRUE
  /\ Continue(a, [Idle EXCEPT !.at = "listener"])
  /\ UNCHANGED <<entries, conns, listening, stores, pc, session, wires, mu,
                 client, lent>>

\* No connection that handle has not recorded yet is among those to be closed.
Stop(a) ==
  /\ Begin(a, "Stop")
  /\ Unlocked
  /\ ~stopped
  /\ stopped' = TRUE
  /\ Continue(a, [Idle EXCEPT !.at = "listener", !.todo = conns])
  /\ UNCHANGED <<entries, conns, listening, stores, pc, session, wires, mu,
                 client, lent>>

StopListener(a) ==
  /\ call[a].at = "listener"
  /\ listening' = FALSE
  /\ Continue(a, IF call[a].todo = {} THEN Idle ELSE [call[a] EXCEPT !.at = "close"])
  /\ UNCHANGED <<entries, conns, stopped, stores, pc, session, wires, mu,
                 budget, client, lent>>

-----------------------------------------------------------------------------
(* The specification.                                                      *)

\* What the goroutine serving c does.
Serves(c) ==
  \/ Accept(c) \/ Handle(c) \/ Register(c) \/ RegisterFails(c)
  \/ JoinRetiring(c) \/ Retired(c) \/ JoinMembers(c) \/ JoinFirst(c) \/ JoinRefused(c)
  \/ Prepared(c) \/ PrepareFails(c) \/ Ready(c) \/ ReadyRefused(c) \/ Announce(c)
  \/ Current(c) \/ Push(c) \/ PushFails(c) \/ TakeAck(c) \/ Record(c) \/ Report(c)
  \/ Woken(c) \/ Lost(c)
  \/ Leave(c) \/ Unsubscribed(c) \/ Release(c) \/ Unlist(c)
  \/ Refuse(c) \/ Delist(c) \/ Close(c)

Reads(c) == ReadAck(c) \/ ReadFails(c)

\* Steps of a call that has begun.
Continues(a) ==
  \/ SetHeadMove(a) \/ SetHeadWake(a) \/ PublishMove(a) \/ CloseOne(a)
  \/ SweepInstall(a) \/ SweepKeeps(a) \/ SweepDrops(a) \/ SweepResets(a)
  \/ StopListener(a)

Begins(a) ==
  \/ SetHeadFind(a) \/ PublishInsert(a) \/ Unpublish(a) \/ SweepCheck(a) \/ Stop(a)

Clients(c) == Dial(c) \/ Interpret(c) \/ HangUp(c)

\* Nothing is left to be done: every connection was closed or never accepted.
AtRest ==
  /\ \A c \in Conns : pc[c] \in {"idle", "dialled", "done"} /\ ~clientOpen[c]
  /\ \A a \in Apps : call[a] = Idle

Rest == AtRest /\ UNCHANGED vars

Next ==
  \/ \E c \in Conns : Serves(c) \/ Reads(c) \/ Clients(c)
  \/ \E a \in Apps : Begins(a) \/ Continues(a)
  \/ Rest

\* Every goroutine that can run does, a call that has begun is continued, and
\* a client reads what it is sent; nobody has to dial, to hang up or to call.
Fairness ==
  /\ \A c \in Conns : /\ WF_vars(Serves(c))
                      /\ WF_vars(Reads(c))
                      /\ WF_vars(Interpret(c))
  /\ \A a \in Apps : WF_vars(Continues(a))

Spec == Init /\ [][Next]_vars

FairSpec == Spec /\ Fairness

-----------------------------------------------------------------------------
\* Every variable keeps its type, the values code and channels may hold.
TypeOK ==
  /\ mu \in Apps \cup {Free}
  /\ refs \in [Refs -> 0..MaxStates]
  /\ state \in [StateIds -> RefState]
  /\ made \in 0..MaxStates
  /\ conns \in SUBSET Conns
  /\ stopped \in BOOLEAN
  /\ listening \in BOOLEAN
  /\ holds \in [Stores -> SUBSET Hashes]
  /\ appStore \in Stores
  /\ provider \in BOOLEAN
  /\ pc \in [Conns -> Labels]
  /\ my \in [Conns -> 0..MaxStates]
  /\ synced \in [Conns -> Trees]
  /\ notify \in [Conns -> BOOLEAN]
  /\ owed \in [Conns -> Pair]
  /\ acks \in [Conns -> Trees \cup {NoAck}]
  /\ reader \in [Conns -> {"off", "reading", "failed"}]
  /\ last \in [Conns -> BOOLEAN]
  /\ told \in [Conns -> {"nothing", "subscribed", "synced", "unsubscribed"}]
  /\ refused \in [Conns -> BOOLEAN]
  /\ reg \in [Conns -> Registrations \cup {Garbage}]
  /\ down \in [Conns -> Seq(Message)]
  /\ up \in [Conns -> Seq(Trees)]
  /\ clientOpen \in [Conns -> BOOLEAN]
  /\ serverOpen \in [Conns -> BOOLEAN]
  /\ call \in [Apps -> Call]
  /\ budget \in [Calls -> Nat]
  /\ latest \in [Conns -> AnyHead]
  /\ acked \in [Conns -> SUBSET Trees]
  /\ lent \in SUBSET (Refs \X StateIds)
=============================================================================
