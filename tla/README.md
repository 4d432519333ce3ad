# A verification of treevial in TLA+

treevial keeps trees of content-addressed objects in step between a server and
its clients. A server holds *refs*; a ref names a *head*, the hash of a tree in
an object store. A client connects, names a ref and the tree it already holds,
and is sent what it lacks, first up to the head and then each time the head
moves. It acknowledges every update it has interpreted, and the server computes
the next update from the tree that was acknowledged.

This directory holds TLA+ modules that model that program, TLC configurations
that check them on small instances, and proofs that TLAPS checks. Paths such as
`server/server.go` are relative to `src/`. `PROJECT.json` maps every
definition to the lines it stands for.

## Inventory

| part | state it keeps | operations | talks to |
|---|---|---|---|
| **Ref heads** `server/head.go` | a ref's store, head, kind (sequenced or not) and whether it has a head yet | `allows`, `move`, `install`, `wouldMove`, `current` | the server, under the ref's own mutex `st.mu` |
| **Server** `server/server.go`, `publish.go`, `subscriber.go` | the registry `refs`, the connections, the subscribers of each ref, whether it was stopped; for each subscriber what it holds (`synced`) and one pending wake-up | `Serve`, `handle`, `connect`, `prepare`, `push`, `awaitAck`, `readAcks`, `disconnect`; `SetHead`, `Publish`, `Unpublish`, `Sweep`, `Subscribers`, `Stop` | clients (wire), the application's `Provider` and `Watcher` (callbacks), object stores |
| **Client** `client/client.go` | what the last update was, the heads its graph is to keep | `Dial`, `Subscribe`, `Resume`, `consume` | the server (wire), a `Graph`, the application (channel of updates) |
| **Receiver** `receive/` | the objects a client has been sent | `Interpret`, `Retain`, `Diff`, `Listing`, `Compare` | the client writes it, the application reads it |
| **Object store** `objects/store.go`, `select.go` | objects by hash, a memo of parsed trees | `AddBlob`, `AddTree`, `Compact`, `LoadPack`, `ReplaceBlob`, `SelectSince`, `EncodePack` | server (selection), builders, providers |
| **Tree builder, apply** `structtree/` | a builder remembers the nodes of the value it built last, and where in memory each of its parts was | `Build`, `Retarget`, `Apply`, `ApplySince` | an object store on one side, a graph on the other |
| **Wire** `internal/wire/` | where a reader is in a message and a pack | `Write...`, `Read...`, `PackWriter`, `PackReader` | client and server |
| **Pack reader** `internal/packread/` | none between calls | `Scan` | the wire on one side, a graph or a store on the other |
| `internal/tcpkeep`, `treevial.go`, `demo/`, `examples/` | none of interest here; the demo shows how a builder is used | | |

### Who runs at the same time

* Each connection has a goroutine that runs `handle` and `serve`, and one that
  runs `readAcks`. They share a channel of one acknowledgement.
* The application calls `SetHead`, `Publish`, `Unpublish`, `Sweep` and `Stop`
  from goroutines of its own. Its provider is called back from the goroutine of
  a connection, with no lock held.
* Three kinds of mutex: `Server.mu` (the registry, and who subscribes to what),
  a ref's `st.mu` (its store and head) and a subscriber's `c.mu` (what it
  holds). `Sweep` keeps `Server.mu` for the whole of its work; everybody else
  takes and releases it in short sections, and what was read in one section may
  be stale in the next. That is where the difficult behaviour is.
* A connection may end at any moment, from either side.

### What makes each part correct

* **Ref heads**: a ref keeps its kind; a sequenced ref only moves forward; store
  and head change as a pair.
* **Server**: no move is lost to a subscriber; a delta is only computed from
  what the client said it holds and the store still has; what a provider
  prepared is released exactly once, before it is prepared again; an
  application's own refs are left alone; a sweep leaves every ref with a head
  its store can serve; stopping drops everybody; nobody waits for ever.
* **Client**: what it hands to the application is complete: the whole tree of
  the head can be walked in the graph, whatever was dropped from it before.
* **Receiver**: `Retain` keeps all of what it was asked to keep.
* **Object store**: a selection is never short; compaction keeps what its roots
  reach.
* **Builder**: an incremental build gives the tree that a build from nothing
  gives, in a store that has all of it; what is read from a tree builds that
  tree; an update applied to a value gives what reading the whole tree would.
* **A cluster** whose members each build the same value: members that have
  applied the same entries serve the same head, whether they crashed, restored a
  snapshot, or applied entries one by one or in batches.
* **Wire**: a reader never takes a message or a pack that was cut off for a
  whole one, and never reads into the next.

## Modules

| module | what it is |
|---|---|
| `Heads` | `server/head.go`: the rules by which a ref's head moves |
| `Server` | the registry, the two goroutines of each connection, and the application's calls |
| `ServerProperties` | what the server promises |
| `MCServer` | instances of `Server` for TLC |
| `ServerProofs` | proofs: types, entries of the registry and who is on them |
| `ServerContracts` | proofs: `Prepare` and `Release`, `Stop`, sequences, and whether everybody is told of a move |
| `ServerStores` | proofs: what is said on a connection, one update at a time, what stores hold, and `Synced` against `Head` |
| `Client` | `client/client.go` and `Graph.Retain`: what becomes of an update at the client |
| `System` | `Server` and `Client` composed: one client, one connection after the other |
| `MCSystem` | instances of `System` for TLC |
| `SystemProofs` | proofs: `System` is a `Server`, and what the client's graph holds |
| `Trees` | the algorithms on trees: both selections of a push, rewriting a blob, comparing two trees |
| `Wire` | the framing of a pack into lines, reading it back, and what is made of it when it is cut off |
| `Transfer` | a store and a graph of such trees: building, pushing over `Wire`, compacting, retaining |
| `MCTransfer` | an instance of `Transfer` for TLC |
| `TreesProofs` | proofs: recursive functions, selections, the comparison |
| `WireProofs` | proofs: what is written of a pack is what is read of it, or it is not taken for whole |
| `TransferProofs` | proofs: the invariants of `Transfer` |
| `Values` | Go values and their trees: `structtree`'s walk, `Build`, `Apply`, `ApplySince` |
| `Builder` | `structtree/builder.go`: nodes, index, and a build of what was declared |
| `Members` | a cluster that replicates a value, each member with a builder and a store, and a client that applies what it is sent |
| `Replica` | the abstract specification `Members` implements |
| `MembersProofs` | proofs: what is built of a value and read of it again, the members and the client of a cluster |
| `MCMembers` | instances of `Members` for TLC |

### How `Server` corresponds to the code

*An action is what one goroutine does between two points at which another can
interfere.* A critical section of `Server.mu` is one action, and so is a read
or write of a ref under `st.mu`. `Sweep` is many actions with `mu` naming its
goroutine: others that need `Server.mu` wait (`Unlocked`), while those that do
not, such as a push or `moveHead`, run on.

| variable | in the code |
|---|---|
| `refs`, `state`, `made` | `Server.refs` and the `refState`s it has pointed at, in the order they were made. A `refState` outlives its entry: goroutines hold pointers to it |
| `conns`, `stopped`, `listening` | `Server.conns`, `Server.stopped`, the listener |
| `holds`, `appStore`, `provider` | object stores as the sets of trees they can serve. The provider, if the server has one, makes a store for each `refState`, the application keeps its own |
| `pc`, `my`, `owed`, `last` | where a connection's goroutine is, and its locals |
| `synced`, `notify`, `acks`, `reader` | the subscriber's baseline, its wake-up, the channel between `readAcks` and `awaitAck`, and what `readAcks` is doing |
| `told`, `refused` | what the watcher was last told, and whether an error is to be written |
| `reg`, `down`, `up`, `clientOpen`, `serverOpen` | the connection: what was registered, messages under way in both directions, who has closed |
| `call`, `budget`, `mu` | the application's goroutines in the middle of a call |
| `latest`, `acked` | what a client was sent last, and all it ever said it holds |
| `lent` | what the provider has prepared and not been given back |

Trees are opaque: what matters to the server is whether a store holds them. A
push is a message that says what it was computed from (`since`) and what it
leads to (`head`). Selection may fail: a push whose store lacks the head or the
baseline ends the subscription with a refusal, as `push` does.

A goroutine that ends does so in three steps, as `handle` has it: it
writes the refusal, if there is one (`Refuse`), takes the connection from `conns`
under the mutex (`Delist`), and closes it (`Close`). A `Stop` may find it at any
of them, and return before the last. `connect` sets `c.state` just after the
section in which the subscriber becomes a member; the model does both in one
step, since until then only `Subscribers` could look at it, which changes nothing.

`CONSTANTS` give the refs, connections and application goroutines, the heads
and registrations to choose from, whether there is a provider (`WithProvider`),
and the bounds: `Budgets` (how often each call is made), `MaxStates` and
`MaxStores` (how many `refState`s and application stores there may be). Where
`Budgets` or `WithProvider` has several members, a behaviour begins with one of
them. Each connection is dialled once; a client that comes back is another
connection.

`Orderly` restricts *when* connections arrive: with it, none is on its way to a
ref while a call of the application is under way, and no call begins while one
is. Several promises hold only then: the findings below say which, and runs with
`Orderly = FALSE` show why. Joining, pushing, acknowledging and leaving still
interleave with calls in every way once the subscriber is a member.

### How `Client` and `System` correspond to the code

`stage` is where the goroutine running `consume` is: reading a message,
interpreting a pack, or waiting for the application to take the update. `graph`
is the `Graph` as a set of objects, `heads` and `previous` are `consume`'s
locals, `hand` and `rest` the update in hand and what is still to come of its
pack, `studied` the pair of trees the application is working on. Trees share
parts (`Reach`), so that a sweep can take away what a later delta relies on. A
pack is exactly what the baseline lacks; the real selection may add objects the
client has already, which changes nothing for a set.

`System` replaces `Server`'s free client: `Dial` happens together with `Resume`
and registers with the tree of the last update, `Interpret` with the
acknowledgement, `HangUp` with `Close` or the cancellation of the context. A
connection may break in the middle of a pack, after the acknowledgement, or
while the application keeps the client waiting; then the next one resumes with
what there is. An application that takes an update has done with the one before,
as `Graph` asks (`receive/graph.go:23`).

### How `Trees` and `Transfer` correspond to the code

An object is its own hash: a blob is a value, a tree a function from names to
objects. `Objects` are the objects there are, any number of them, and `Height`
says how deep one is. Nothing can be part of what it is the hash of, so there is
such a `Height`; and a tree with an entry replaced by one of its kind is a tree.
That is what `TreesAssumption` and `TransferAssumption` say. `Place` gives git's
order, in which a directory sorts as though its name ended in a slash.

The closures that descend a tree in the code (`descend`, `walk`, `rebuild`,
`compare`) are recursive functions of their arguments here, and the loops in them
are `Loop`, which makes of what there is after a round what there is after the
next. `Descend` walks two trees side by side as `selectCompared` does, one pass
over the older entries in step with the newer (`Cursor`), with what has been
selected so far as its `seen`. `SelectExact` is the walk of `selectExact`, and
`SelectSince` chooses between the two. `Rebuild` is only defined where a path
leads to a blob: `ReplaceBlob` "does not create entries", and what it would do at
the path of a directory is listed among the hazards. `Compare` reports the rows
that `Graph.compare` hands its visitor. What they are held against is stated over
the nodes of a tree, the set `Within` of its paths with their objects, and looks
at all of them.

`Wire` has a line as a sequence of bytes, and a byte says what it is of: text, or
an object of a pack, which takes one or two, so that objects lie across the ends
of lines. `Write`, `Flush` and `Close` are `PackWriter`'s; `Read` is
`packReader`'s, which takes a closed connection for an error and a flush-pkt for
the end. `Consumed` is what `consume` and `Scan` make of the lines of one update.
`Transfer`'s `Push` goes through all of them. `Write`'s loop and the reader's are
`Loop`s of as many rounds as there are bytes to move; they end earlier by doing
nothing in the rest. `ReadSizes` are what a reader asks for at a time, a byte at
least (`io.Reader` may be asked for none, which `io.Copy` and the decoder do not
do). Cutting a connection is a matter
for the properties here, which look at every prefix of the lines; in `System` it
is a step, and the subscription is resumed after it.

### How `Values`, `Builder`, `Members` and `Replica` correspond to the code

A value is a function of its places: the paths of its fields, and of the keys and
elements it may have. `Kind` says what each place is, so that the two are the
type; `Here` stands for a pointer, map or slice that is not nil, and `Nil` for what
is nil or not there. `Walk` and `Planted` are the walk and the nodes made of the
paths it yields, from the leaves up. `Views` has what `applyInto` finds at each
place, with its three cases, against a tree and a baseline, from the root down:
what is no longer carried, what has not moved and is left alone, and what is read
(`Settled`). A leaf is its own encoding.

`Builder`'s nodes are a function of their places: the hash, and whether the
entries kept from the last time still describe the node. The index of addresses
is the set of paths that are where they were: assigning to a place moves what lies
beneath it, and what a map holds (`StillThere`). `Refresh`, `Attach`, `Detach`,
`Restore` and `Rehash` are the methods of those names, and `written` collects what
they put into the store. A build that fails leaves the nodes as they are by then,
as in the code.

`Members` uses all this as `README.md` ("A member and its log", "Snapshots",
"Sweeping") and `demo/shared/config.go` do. An entry of the log assigns to one
place of the value and declares a pointer to it or to something that holds it.
Members apply the next entries, one or several, and build what these declared;
they crash and lose everything, come back with the snapshot of another one, and
compact their stores and `Retarget`. The client follows any member, with its last
tree as the baseline or, where it has that no longer, none.

Two constants say what is assumed of the application. With `Tidy`, an entry that
leaves a subtree empty declares something that holds it and is not empty;
`EmptyBranch` shows what happens without. With `Careful`, a failed build is
followed by a whole one, which is what `Build` offers for it. No entry puts a nil
element into a slice (`Readable`, a guard of `Propose`), and no object is at two places of the value.

`Replica` knows none of this: members are at positions of a log and show what it
says. `MembersReplicate` is the refinement. A position is a member's own; what it
shows is the leaves of the head it serves, and the log says the leaves of the
value after each entry, which `Propose` records. Each of `ApplyEntries` and
`LoadSnapshot` is a `Shows`, `Crash` is `Crash`, and `Compact` and `Follow`
stutter.

## Runs

Six pass; the other six each show a disagreement between the code and what
it says of itself.

| run | instance | what it shows |
|---|---|---|
| `Subscribe` | 2 connections to a ref of the provider, both with a tree the server lacks, preparations that fail, a `Stop` at any time | no push is refused, no deadlock, what was prepared is released once nobody follows it, and `Stop` closes all it finds |
| `Follow` | 2 connections, with a tree the ref may reach only later or with no registration at all, a provider or none, a sequenced ref that is moved, swept, published and unpublished, or a server that is stopped | whoever rests has the head, a ref that looks quiet is quiet, a baseline is only what the client said, one update is under way at a time, `Prepare` and `Release` alternate, sequences only advance |
| `Settle` | 2 refs sharing a store, a client of either on 1 connection, no provider, an application that takes its time; a move, a sweep of any subset, `Stop` | types, published refs can be served, a subscriber that stays gets the head and its application is handed it, a stopped server ends |
| `Deliver` | a client with a history of 1, 2 connections one after the other, 2 trees that share a part, a published ref that moves | the pair of an update can be walked, what a client resumes with is whole, the graph keeps no more states than it was told to |
| `Transfer` | 41 trees of up to three levels, 2 builds, 1 rewrite, lines of 3 bytes | selections suffice and do not repeat, comparisons are complete, stores stay closed, packs arrive and a cut is noticed |
| `Replicate` | 2 members and a client, a value with a struct behind a pointer, a map of structs and a slice, 9 edits, 2 entries | incremental builds are exact, members agree, heads are held in full, snapshots restore, the client's value is current, and `Members` implements `Replica` |
| `LostWake` | as `Follow`, with arrivals during calls | `RestingIsCurrent` fails |
| `LateAck` | 1 connection, a sweep | `BaselineIsHeld` fails |
| `StuckReady` | a published ref and two goroutines of the application | `EventuallyAnswered` fails |
| `ShortDelta` | a client with a history of 1, moves and a sweep | `DiffPossible` fails |
| `ReadRace` | a client with a history of 1, a provider's ref that moves twice | `PairStays` fails |
| `EmptyBranch` | as `Replicate`, with `Careful` and without `Tidy` | `HeadsAgree` fails |

**Bounds.** Two connections are enough for a first and a second subscriber of
one `refState`, for one leaving as the other joins, and for a release that races
a registration. Two trees, or a tree and no tree, are enough for a head to move
and for a baseline to be of another tree. Three `refState`s let a ref be held by
the provider, published, and held again. Two application stores are a store and
its replacement. Every call is made at most once or twice; a second `SetHead`
in the middle of a first is what two publications exercise in `Follow`. The
client's trees share a part where a sweep that drops too much is to be noticed,
and are disjoint where a short delta is. `Transfer` has two names of which one is the beginning of the
other, so that a file that becomes a directory changes places with its
neighbour; two blobs, so that trees and subtrees of equal content turn up at
different paths; and three levels, so that a subtree moves up or down. Its packs
take from one line to several, of which the last is full or not; writers split a
pack at objects, at every byte or nowhere, and readers ask for less and for more
than a line. `Replicate` starts from a full value and from an empty one, so that
two entries are enough to empty a subtree, to fill it again, to replace what a
pointer leads to and then declare what lay beneath, and to build two declared
paths in one batch; two members are one that went the long way and one that did
not. Its values have two contents. TLC visits all reachable states of each
instance.

**Fairness.** The goroutine of a connection, `readAcks`, a client reading its
connection and a call of the application that has begun are weakly fair: each is
a Go goroutine, and nothing in the program makes one wait but the guards of its
actions. No one has to dial, hang up or begin a call. In `System` the
client's goroutine and an application that finishes with an update are weakly
fair too; dialling and cancelling are not. The provider's `Prepare`
and `Release` are taken to return, as the contract of `Provider` asks. Weak
fairness is enough because a goroutine that waits for the mutex finds it free
for good at the latest when the bounded calls are done.

**Deadlock** is checked, with the steps `Rest` and `SysRest` standing for a
program that has nothing left to do; only `StuckReady` turns the check off, since
there a goroutine does wait for good. In `Transfer` and `Replicate` something can always
be done.

**Symmetry** is used in `Follow` (connections), `Deliver` (connections, and the two
trees that share a part), `Transfer` (contents) and `Replicate` (members), none of
which has a liveness property. Their orders do not tell the permuted values apart.

## Findings

* **`LostWake`**: `SetHead` collects a ref's members (`server.go:337`), then
  moves the head (353), then wakes those members. A client that joins between
  the two and reads the old head is not woken, and stays on the old head until
  the next move. "Every subscriber to the ref moves" (333).
* **`LateAck`**: `subscriber.ack` compares the store of the push with the
  ref's store (`subscriber.go:156`) and records the baseline (163) in two
  sections. A sweep between them has its reset undone, which the comment at 149
  says is prevented; the next push is then refused.
* **`StuckReady`**: `Publish` inserts the entry, then installs the head, and
  takes the entry out again if the head is refused (`publish.go:61`), but never
  closes `ready`. Whoever joined in between waits for good.

* **`ShortDelta`**: `subscriber.ack` drops the acknowledgement of a push whose
  store was replaced (`subscriber.go:157`), and the server goes on computing
  deltas from the tree before. A client made `WithHistory(1)` has sent that
  acknowledgement and sweeps the tree before away as the next update arrives
  (`client.go:395`); the delta cannot be resolved, and the sweep after it ends
  the subscription. "One is the usual answer" (`client.go:135`); "a dropped
  state costs work rather than correctness" (`README.md:250`). Without a sweep
  of the server it does not happen: that is what `Deliver` shows.
* **`ReadRace`**: the client sweeps when the next message *arrives*, which may
  be while the application is still at the update it took last; with a history
  of one state `Previous` is dropped under it. "Nothing is dropped while a
  caller might still be reading what it was handed last" (`client.go:385`).

* **`EmptyBranch`**: a declared subtree whose walk yields nothing is attached as
  an empty node (`builder.go:292`), and `detach` leaves a node whose last child
  has gone (`builder.go:433`); what is above is stored with an entry for the
  empty tree, which a build of the whole value does not have. "A nil or empty
  map ... contributes nothing" (`README.md:117`); "taking the shortcut must
  produce exactly the tree the long way round would" (`builder_test.go:40`). Two
  members with the same value then serve different heads, and one that restores
  the snapshot refuses what it has built itself.

The same reading of the code turned up more of the kind, which no run states.
Of the builder and the wire:

* A build that fails half way has changed nodes, and stored what it refreshed
  but nothing above it. If a store is compacted to the last head and `Retarget`
  takes it, since it holds the root's old tree, the next build may publish a
  head whose subtree the store lacks. `Replicate` with `Careful = FALSE` and
  three entries violates `HeadIsHeld`.
* A nil element in the middle of a slice of pointers leaves a gap in the indices
  that `applySlice` refuses (`apply.go:462`), so such a value can be built and
  not be read.
* An error of `EncodePack` is written after the update was announced
  (`server.go:780`, 471), where the client reads it as pack data: it is not
  acknowledged (`CutIsNoticed`), but the client is not told why either.

Of the server, from the model with `Orderly = FALSE` or heads of both kinds:

* A push that reads its store and baseline between a sweep's installing the new
  store (`publish.go:157`) and resetting the member's baseline (168) is computed
  from a tree the new store lacks, and the subscription ends with a refusal.
* An acknowledgement dropped because its store was replaced may be the only one:
  a member the sweep neither moved nor reset is then listed as not caught up
  until the next move (`subscriber.go:157`).
* `Stop` closes the connections in `conns`; one that `Serve` has accepted and
  `handle` has not yet recorded is missed (`server.go:280`, 453).
* `moveHead` does not take the mutex `Sweep` holds, so a `SetHead` past its
  first section moves the ref between the sweep's check (`publish.go:130`) and
  its installing the store.
* If `SetHead` gives a ref that is being prepared a head of the other kind,
  `prepare` forgets the entry with nothing marked as prepared
  (`server.go:656`), and what the provider made is never released.
* `Synced` and `Head` are both zero for a ref whose state is gone and a
  subscriber being sent its first tree: the ref looks quiet (`server.go:406`).

## Proofs

Everything here is proved for any number of refs, connections, goroutines of the
application, calls, stores and trees, and for trees, packs and lines of any size. `Heads`,
`Server`, `System`, `Client`, `Trees`, `Wire` and `Transfer` state what they take
for granted of their constants; that is all the theorems assume, but for the
hypotheses they name themselves. TLC checked each inductive invariant on small
instances before it was proved.

`ServerStores` extends the modules above it in this table, and `SystemProofs`
extends that, so that a later invariant may rely on an earlier one.

| theorem | what it says | what the invariant adds |
|---|---|---|
| `ServerProofs!TypeCorrect` | `TypeOK` | a goroutine past its registration has one, and past its look into the registry points at a `refState` that was made; so does a call. A sweep holds the mutex while the refs it has left stay published: only `Unpublish`, `Publish`'s failure and `forget` take entries out, and all need the mutex (`SessionOK`, `CallOK`, `RegistryOK`) |
| `ServerStores!SyncedIsSaid` | `SyncedWasSaid` | a tree travels from client to baseline through the connection, the channel of one and the comparison in `awaitAck`; at each it is one the client has told the server of (`AcksOK`) |
| `ServerStores!OneUpdateUnderWay` | `OneAtATime` | between a push and its acknowledgement at most one of the two directions of the connection and the channel is taken; once the loop has come round, none is (`PipeOK`) |
| `ServerProofs!HeldRefsAreReleased` | `SomebodyReleases` | members of an entry are exactly the goroutines between joining and leaving it, an entry is of one ref, and one without members has somebody on the way out who found himself the last (`MembersOK`, `EntriesOK`, `EmptyOK`) |
| `ServerContracts!ProvidersAlternate` | `ProviderAlternates`, with `OneKind` | what is lent belongs to the entry of its ref until it is given back; who prepares an entry, or takes it out, does not hold it (`LentOK`); one goroutine prepares an entry, and nobody has been answered yet (`AnswerOK`) |
| `ServerContracts!StopDropsEveryone` | `StopDropsAll` | a connection that `handle` serves is recorded until its goroutine forgets it, which is the step before it closes it; one recorded before `Stop` looked and still open is on the list of a `Stop` that has begun (`ConnsOK`, `StopOK`) |
| `ServerContracts!SequencesClimb` | `SequencesAdvance` | along the way from a ref to its client sequences do not rise: the ref's, that of the head its goroutine took last, those under way in their order, the client's (`HeadOK`, `FlowOK`) |
| `ServerContracts!RestIsCurrent` | `RestingIsCurrent`, with `Orderly` | a subscriber whose last head is not the ref's has a wake-up pending or is on the list of a call that will leave one (`FoundOK`, `WakeOK`) |
| `ServerStores!PushesAreSelected` | `Unswept => PushesSelect` | everything that is pointed at, or is about to be, is in the store it will be read from (`PlacedOK`, `PointsOK`, `BaselinesOK`) |
| `ServerStores!PublishedRefsAreServed` | `PublishedIsServed`, with `OneCaller` | while a sweep goes through its refs, those it has done are in the new store, and those it has left can still be given the head they will have (`ServedOK`) |
| `ServerStores!SyncedIsQuiet` | `SyncedMeansEmptyPush`, with `OneHistory` | a subscriber was never owed anything older than the head it is said to hold, unless it came with that head's tree and has not been sent it since (`HistoryOK`, `Brought`) |
| `SystemProofs!ClientIsAllowed` | `SysSpec => Spec`: the client that `Client` describes is one of those `Server` allows for, so all of the above holds of it | |
| `SystemProofs!ClientTypesKept`, `GraphStaysLean` | `SysTypeOK`, `GraphIsLean` | what a graph holds beyond the states that are kept has come with the update in hand (`LeanOK`) |
| `SystemProofs!BaselinesAreSaid` | `SaidOK`: an update under way was computed from a tree the client told the server of on that connection, or from none | |
| `SystemProofs!PairsCanBeCompared`, `ResumesWithAllOfIt` | `DiffPossible` and `ResumeWhole`, for a client that never sweeps its graph or a server that has not been swept | the graph holds in full the tree of the last update, the states kept and, once its pack has been read, the update in hand (`GraphOK`). A client without a history holds all it ever told the server of (`SaidAreWhole`); a server that is not swept computes deltas from the tree acknowledged last, and from no other (`FollowOK`) |

### Trees, packs and pushes

| theorem | what it says |
|---|---|
| `TreesProofs!SelectionCovers` | what either selection picks, with what the older tree reaches, is all that the newer one reaches |
| `TreesProofs!SelectionPrunes` | what is selected is at some path of the newer tree at which the older one does not have it |
| `TreesProofs!ComparisonIsComplete` | `Compare` reports how the nodes of two trees differ, all of it and nothing else |
| `TransferProofs!StoreStaysClosed`, `NeverIsShort`, `UnmovedStaysPruned`, `CompareStaysComplete`, `RewritesAreLocal` | `StoreIsClosed`, `NeverShort`, `UnmovedIsPruned`, `CompareIsComplete`, `RewriteIsLocal` |
| `TransferProofs!ClientStaysWhole` | `ClientIsWhole` |
| `TransferProofs!PacksStayWhole`, `CutStaysNoticed` | `PacksArrive`, `CutIsNoticed` |
| `MembersProofs!ClientStaysInStep` | `ClientMirrors`, whatever the application does: neither `Tidy` nor `Careful` is asked for |
| `MembersProofs!BuildsAreExact`, `MembersAgree`, `HeadStaysHeld`, `SnapshotsAlwaysRestore` | `BuildMatches`, `HeadsAgree`, `HeadIsHeld`, `SnapshotsRestore`, with `Tidy` and `Careful` |
| `MembersProofs!MembersAreReplicas` | `Members` implements `Replica`, with `Tidy` and `Careful` |

*Recursion.* `f[x \in S] == ...` is whatever function satisfies the equation, if
there is one, and the induction theorems of the library take an operator, which
no prover at hand can instantiate. `TreesProofs` does without. A recursion is
written as a function `D` of the pair of a function and an argument, and
`Descends` says that what `D` makes of an argument depends only on the function
at arguments that lie deeper. `GoodExists` then has, for each `n`, a function that
is right down to `n`: else there is a least `n` without one, and the one for
`n - 1` extends to it. `RecursionExists` puts them together; for `Loop`,
`Within`, `Descend`, `Rebuild` and `InOrder` it gives the function they are
defined to be. Of the walk of `selectExact` and of `Compare` it is enough that
what they should compute satisfies their equations. What such a function computes
is proved of the least argument at which it would not (`Least`). `Loop` is a
recursion over the rounds, so that what holds of the loops of `select.go` and
`wire.go` is an invariant of their rounds (`LoopRuns`, `LoopIn`).

*Selections.* `Advance` passes over the older entries once. It misses none that a
newer entry has to be compared with because both sequences are sorted by the same
order, in which no two entries are at one place (`Entries`, `Key`): that is why an
entry that became a directory may move away from its neighbours without anything
being lost or sent twice. `descend` prunes what was selected before, which may be a tree that is still
under way and whose contents are not selected yet. `Ready` and `Through` say what
it may count on: of the objects selected before a call, those no deeper than the
one it is called with are complete, because those under way lie above it and are
deeper; and a call leaves complete whatever it has added.

*The invariant* of `Transfer` is `TreesHeld /\ StoreIsClosed`: `head`, `base` and
`past` are trees or the zero hash, and the store holds objects. `NeverShort`,
`UnmovedIsPruned` and `CompareIsComplete` follow from it and the theorems on
trees. `ClientIsWhole` is inductive on top: in a push, the order in which the pack
is written has everything that was selected (`InOrderCovers`, `SelectedFacts`),
all of what is written is read (`SplitArrives`), and all objects in it get into the
graph (`ScannedFacts`, `ConsumedFacts`); with what the client held that is the
whole head (`SelectionCovers`). A sweep keeps the baseline or resets it.

*Packs.* `FlattenAppend` and its like tie a sequence of lines to the bytes in it. A
round of `Write` keeps the bytes in the lines, in the buffer and still to come the
same, never leaves a full buffer and writes no empty line (`Holds`, `Filled`). So
the first empty line is the flush-pkt of `Close`. A round of the reader moves bytes
from the lines to what was read, until it takes an empty line (`ReadAllFacts`);
whatever the split and the sizes, all is read and no more (`SplitArrives`). The
lines of a pack that was cut off have no empty line among them, so the reader ends
with an error (`CutFacts`), and so it does after the line of text of one that was
broken off (`BrokenOffFacts`).

*Values.* `Planted` is a recursion over places, from the leaves up, and `Views` one
from the root down (`PlantedUnfolds`, `ViewsUnfold`, with `RecursionExists`). What a
place of a tree is read as depends on the tree alone, if the value held what the
baseline says (`ViewsMeet`): where `applyMember` leaves a subtree because it has not
moved, both trees have the same object there, and an object is read the same
wherever it came from. By induction along the path `ReadSince` follows: reading
with a baseline what was read of the baseline gives what reading alone gives.
`ClientStaysInStep` needs of the members only that they serve trees
(`Typed`), for which every round of a build keeps nodes, index and store what they
are (`Works`, `WorksFacts`); a build ends after as many rounds as there are
declared paths and places (`RehashUnfolds`, `RefreshedUnfolds`).

*Builds.* The invariant of the members, `Right`, says that a member has the nodes,
the tree and the leaves of its position in the log, with all of the tree in its
store, and that every entry of the log says what it did to the value. It is
inductive because a build keeps it (`BuildExact`), which goes through the two
loops of `Build`. While the declared paths are refreshed, `Toiled` holds: a leaf
at a path that was declared already is that of the value as it is now, and any other
that of the value before; no subtree at which nothing grows is left, but where an
entry still to come will see to it; and a node whose entries are not what it was
stored as, or which holds a child by another hash than the child's, lies above one
of the paths dealt with (`Linked`). `Tidy` is what the second of these needs: an
entry cannot leave an empty subtree above what it declares. The paths may hold one
another or come in any order, since each is refreshed from the value as the last entry
left it (`LaterSprouts`, `BloomStays`). While the way up from each of them is stored
again, deepest first, what is off shrinks to what is above the paths still to
come (`RehashLinked`, `RehashedLinked`), and in the end nothing is. Nodes that are
linked, and are there just where something grows, are those of a build from nothing
(`ExactIsWhole`), and what each of them is stored as is all that the tree reaches
(`HeldIsWhole`). Of two members with the same leaves and different values, as there
are once one of them came from a snapshot, the same entry makes the same leaves
(`AssignAgrees`).

### The hypotheses

Each is there because the theorem is false of the code without it.

* `Orderly` (`RestIsCurrent`): no connection arrives during a call. `LostWake`
  shows a subscriber that arrives in the middle of `SetHead` and is told of
  nothing.
* `OneKind` (`ProvidersAlternate`): the heads named are all sequenced or all not.
  Otherwise `prepare` forgets an entry whose preparation is not given back.
* `Unswept` (`PushesAreSelected`): no sweep has begun. A push between a sweep's
  installing a store and its resetting the baselines is refused, and so is one
  that follows on `LateAck`.
* `OneCaller` (`PublishedRefsAreServed`): the application makes one call at a
  time. A `SetHead` that is past its first section moves a ref that a `Sweep`
  in another goroutine has checked already.
* `OneHistory` (`SyncedIsQuiet`): every head is sequenced and names a tree, and no
  two share a sequence or a tree. If a ref moves from A to B and back to A, a
  subscriber that holds A looks current while it is being sent B. Clients may
  resume with any tree, one of that history included; `SyncedMeansEmptyPush` itself
  leaves out a client that came with a tree the ref reached only later (`Brought`),
  which looks the same.
* `~Sweeping \/ Unswept` (`PairsCanBeCompared`, `ResumesWithAllOfIt`): not both,
  a client that drops states and a server that is swept; `ShortDelta` has both.
* `Tidy` and `Careful` (`BuildsAreExact` and the four after it): an entry that
  empties a subtree declares what holds it, and a failed build is followed by one of
  the whole value. `EmptyBranch` has an application that is not tidy; a failed
  build that is left at that keeps the head of the value before. `HeadStaysHeld`
  has both because it rests on the same invariant as the others.

The runs satisfy them: `Replicate` is tidy and careful; `Follow` is orderly, of
one kind and one history, and has one caller; the server of `Deliver` and that of
`Subscribe` are never swept.

### Only model-checked

* All liveness, and that nothing waits for ever: fairness and `ENABLED` are out of
  the prover's reach.
* That the library's encoding of a pack is read back as it was written is assumed
  by the runs and the proofs alike.

## Plan

In this order; each part is modelled, checked and then proved about.

1. `Heads`, `Server`, `ServerProperties`: done. Every safety invariant and action
   property of theirs that a passing run checks is a theorem, some with one of the
   hypotheses above.
2. `Client` and `System`: done, and likewise proved. What is left is a run of a
   client without a history, of which so far there are only theorems.
3. `Trees`, `Wire` and `Transfer`: done, and every property of theirs is a theorem.
4. `Values`, `Builder`, `Members` and the refinement of `Replica`: done, and every
   property of theirs is a theorem.
5. A ref of a member's head, served by `Server` to a `Client`: the composition of
   `Members` and `System`, whose instances are too large for TLC as they stand.

## Not modelled

Option parsing, names of servers and clients, byte counts, logging, the watcher
beyond what it was told last, keepalives and TCP options
(`internal/tcpkeep`): none of them decides anything the properties are about.
The text of messages and its parsing in `internal/wire` is left to its unit
tests; each message is read from one line, and nothing is kept between lines. The
library's encoding and decoding of packs and objects is taken to be right.
Of `structtree`: a `Mapper`'s own rules and encodings, protobuf messages, keys
and types that are refused, arrays, interfaces, unexported fields, and values in
which one object is at two places. The rest of the demo, and the examples.
`LoadPack` and `LoadSnapshot` that fail half way, with part of a pack in the store.
Panics of callbacks and running out of memory are left out.
