# eq2emu: a verification project

TLA+ models of the concurrent core of the eq2emu servers, checked with TLC on
small instances, and theorems about them checked with TLAPS for every value of
the constants. Paths are relative to `src/source/`.

## 1. Inventory

The repository builds two programs, a login server (`LoginServer/`) and a world
server (`WorldServer/`), on a common library (`common/`). A game client, which
is not part of the repository, talks to both over a UDP protocol; the login
server and its world servers talk over TCP; world servers talk to each other
over HTTPS.

| Component | State | Operations | Hard behaviour | What makes it correct |
|---|---|---|---|---|
| `common/Mutex.cpp` | `readers`, `writing`, `CSWrite` | readlock, writelock, try-variants, releases | interleaving, starvation | a writer is alone; the count is exact; everybody who asks gets the lock |
| `common/EQStream.cpp`, transport | `SequencedQueue`, `SequencedBase`, `NextOutSeq`, `NextInSeq`, `OutOfOrderpackets`, ack counters | SequencedPush, Write, Decay, ProcessPacket, AckPackets, ProcessQueue | loss, repetition and reordering; 16-bit numbers that wrap; retransmission | packets arrive once, in order and in the end; nothing is forgotten that was not received |
| `common/EQStream.cpp`, sessions, fragments, combining | `State`, `oversize_buffer`, `combine_queue`, cipher | Process, SendPacket, CheckCombineQueue | restart of a session in the middle of a reassembly; order of encryption | what is reassembled is what was split; the cipher is applied in sequence order |
| `common/EQStreamFactory.cpp` | `Streams`, `NewStreams` | ReaderLoop, WriterLoop, CombinePacketLoop, CheckTimeout, Pop | three threads and the clients' share raw pointers | no stream is used after its deletion; closed streams go; no stream is left waiting |
| `WorldServer/net.cpp` main loop, `ClientList` | `connecting_clients`, `client_list` | admission, RemoveConnection | repeated session requests, time limits | one client for each peer, and one for each session |
| `WorldServer/Trade.cpp`, trade commands, purses | offers, coins, acceptance of two players; `Entity::trade` | add, remove, accept, cancel, complete, leave | two players' commands in any order; purses and inventories that change meanwhile; carries between denominations | both players share the trade and neither keeps a pointer to it; coins and items are neither lost nor made |
| `common/database.cpp`, asynchronous queries | `asyncQueries`, `activeQuerySessions`, `dbInstances` | submit, take, run, retire, end | threads start workers on what they read before a lock; queries run after their submitter went on | each query is run once, in order; "writes under way" is true as long as it has to be; the queue is never left without a worker |
| `WorldServer/client.cpp`, `World.cpp` ZoneAuth: the life of a client | `zone_auth`, name map, `linkdead` and `camp` timers, saves | login, delay, resume, supersede, zone, camp, lose the stream, delete | a second login while the first client plays, zones, camps or is linkdead | the name leads to the one live client; a key admits once; a blank player is never saved; lost clients go |
| `WorldServer/PlayerGroups.cpp`, group commands | groups, members, invitations, `rejoin_group_id` | invite, accept, decline, leave, kick, disband, zone | two zones' commands interleaved; a member between two zones; disconnection between invitation and answer | players' pointers and groups' lists agree; nobody is listed twice |
| `WorldServer/Items/Items.cpp`, `Player.cpp`, inventory commands | places, indices, details of items, equipment, overflow | add, stack, move, split, merge, destroy, equip, unequip, pop | an item is in several structures; scripts give items while commands move them | the structures agree on where each item is; nothing is duplicated, lost or out of reach |
| `LoginServer/*`, `WorldServer/LoginServer.cpp` | accounts, worlds, pending requests | play request, answer, timeout | lost answers, expiry | a client enters only with a key the login server gave for it |
| `common/TCPConnection.cpp` | connection state, buffers | connect, receive, send, close | partial reads; state changes between threads | framing and order |
| `WorldServer/Web/PeerManager.cpp` | peers, health, priorities | add, update, assign zone or group | a peer fails and comes back | a zone has one peer; assignments are to healthy peers |
| `WorldServer/SpellProcess.cpp` | casting, recast and active spells | cast, queue, interrupt, remove | target or caster goes away during a cast | each cast ends once |
| Broker, guilds, chat, heroic opportunities | tables and small state machines | list, buy, join, leave, advance | two buyers for one item | no item is sold twice |
| Zone servers | spawns, clients, threads | start, process, shut down, zone change | a client is between zones | a client is in one zone |
| Combat, NPCs, pathfinding, loot, tradeskills, quests, rules, Lua, SQL, packet structures, ciphers, logging | data | formulas, tables, I/O | little control | left aside, see section 8 |

How they interact. `EQStreamFactory` owns the streams and three threads (reader,
writer, packet combiner). The reader makes a stream for each session request and
pushes it to `NewStreams`. The world's main loop pops it, makes a `Client` when
it is established, or keeps it in `connecting_clients` for up to ten seconds.
Every five seconds the main loop calls `CheckTimeout`, which closes streams that
are silent, gives closed ones two passes of grace, takes them from their client
(`ClientList::RemoveConnection`) and deletes them. Zone threads call
`Client::QueuePacket`, which appends to the stream's queues; the writer empties
them and the reader acknowledges. Commands of players run in the thread of
their zone; groups, names and trades reach across zones, and scripts give a player items from any thread. Saves of a character go
to `Database::AddAsyncQuery`, whose worker threads write them, and a login asks
`IsActiveQuery` before it reads the character back. Nearly every shared container is guarded by a
`Mutex`, used as a plain or as a read/write lock.

`PROJECT.json` lists the components with what is modelled of each, and the
hazards, each at its line, with the properties that watch it.

## 2. Modules

| Module | Models | Status |
|---|---|---|
| `ReadWriteLock` | abstract specification: read sections, or one write section, that begin and end in one step | refined by `RWMutex` |
| `RWMutex`, `MCRWMutex`, `RWMutexProofs` | read/write lock of `Mutex` | checked, proved |
| `EQSequence` | 16-bit arithmetic, `CompareSequence` | proved, in `EQTransportProofs` |
| `ReliableChannel` | abstract specification: a queue that delivers everything once, in order | refined by `EQTransport` |
| `EQTransport`, `MCEQTransport`, `EQTransportProofs` | sequenced transport of `EQStream` over UDP | checked, proved |
| `EQStreamFactory`, `MCEQStreamFactory`, `EQStreamFactoryProofs` | life of streams across reader, writer, main loop and clients | checked, proved |
| `WriteBehind` | abstract specification: each query run once at most, after its submission | refined by `AsyncQuery` |
| `AsyncQuery`, `MCAsyncQuery`, `AsyncQueryProofs` | asynchronous queries: queues, workers, connections | checked, proved |
| `Login`, `MCLogin`, `LoginProofs` | the clients of one character from the key to the deletion | checked, proved |
| `PlayerGroups`, `MCPlayerGroups`, `PlayerGroupsProofs` | groups, invitations, members between zones | checked, proved |
| `Inventory`, `MCInventory`, `InventoryProofs` | what a player carries and wears, and the commands that rearrange it | checked, proved |
| `Trade`, `MCTrade`, `TradeProofs` | trades between players, purses, stacks of items | checked, proved |

`RWMutex` instantiates `ReadWriteLock`; `EQTransport` extends `EQSequence` and
instantiates `ReliableChannel`; `AsyncQuery` instantiates `WriteBehind`. `Login` takes from `AsyncQuery` what it
promises a login (`PendingIsActive`): its `saving` is `IsActiveQuery`. Operators
named "Variant" in a comment are deliberate mistakes, one for each property: the
check that a property is sensitive to the code. No specification uses them.

## 3. How the modules correspond to the code

**RWMutex.** `readers`, `writing` and `csWrite` are the fields of `Mutex`; `pc`
says where each thread is in the lock calls, `held` how many read locks it has.
A section between `CSRead.lock()` and `CSRead.unlock()` is one action, `CSWrite`
is taken and released by actions of their own. A poll that fails changes
nothing and is no action. A thread does not ask for a write lock while it holds
a read lock, nor lock anything within a write section: the polling code could
never grant it. `Init` is the constructor.

**EQTransport.** One direction of a session: the endpoint that pushes
(`queue`, `sequencedBase`, `nextOutSeq`) and the one that receives (`nextInSeq`,
`outOfOrder`, `nextAckToSend`, `lastAckSent`), with a network (`toReceiver`,
`toSender`) that loses, repeats and reorders. The game client is modelled as
another `EQStream`, which is what the server's code expects of it. Each entry of
`queue` is `[id, sent, acked]`, from `sent_time` and `acked`. Each action is one
critical section: `SequencedPush`; `Write(first, last)` for one datagram of the
loop of `EQStream::Write`, with combining; `Decay`; `AckPackets` within
`ReceiveAck`; the `OP_OutOfOrderAck` case; `ProcessPacket` with its three cases
for each packet of a datagram; `ProcessQueue` for one packet kept; `SendAck`.
Packets are identified by number, so that the properties can tell repetition
from progress; the code's decisions read sequence numbers only.

**EQStreamFactory.** `streams` is `Streams`, `newStreams` is `NewStreams`,
`delays` is `timeout_delays`, `outgoing` stands for `HasOutgoingData`. The reader
passes through the labels `request`, `insert`, `signal`, `push`, `open`, because
from `MStreams.unlock()` (line 226) on it works without the lock; `writerAt`
separates the scan, the writes, the count and the wait. `CheckTimeout` holds
`MStreams` from `BeginCheck` to `EndCheck` and comes to one stream at a time, in
any order. What passes through a stream, and which packet made it close, is
nondeterministic. `InTime` is the only timing assumption: passes of
`CheckTimeout` are five seconds apart, so an operation that takes less than that
sees at most `Grace = 1` pass begin, and the ten-second waiting list at most
`Patience = 2`.

**AsyncQuery.** `asyncQueries` and `activeQuerySessions` are the fields of
`Database`; `made` and `inUse` stand for `dbInstances`. A producer's
`AddAsyncQuery` is two steps, the section under `DBAsyncMutex` (`AddAsyncQuery`)
and the test after it (`StartIfIdle`); in between a worker may run and delete
the query, and what is then read of it has any value (`StartAfterFree`). A
worker goes through the labels of `at`, one for each section under a mutex:
`FindFreeInstance`, `TakeQueries` or `NothingToTake`, `RunQuery` and
`RemoveActiveQuery` for each query, `FreeDBInstance`, `StartSuccessor`. It is
named after the query whose submission started it. `stamp` and `runs` are
history: the order of submission and how often a query was run.

**Login.** All clients of one character, and the players they have: `client` holds
for each its stage (`stage`), its stream and the flags of `Client` the decisions
read; `player` the flags of `Player`; `byName` is the entry of the map of names,
`zoneAuth` the keys given out, `saving` that writes of the character are active.
The main thread runs `HandleNewLogin` while the zone's thread goes on, so a swap
of players is four steps (`TakePlayer`, `LeaveBlank`, `LeaveZone`,
`EnterResumed`), for each of which the zone's thread may act in between. Streams
fail at any moment (`Drop`, `GiveUpStream`); timers expire at any moment.

**PlayerGroups.** `m_groups`, `m_members` and `m_pendingInvites` are the manager's
maps, `gmi` is the player's pointer to his `GroupMemberInfo`, `rejoin_group_id` the
group a player asks for when he enters the next zone. A command of several
sections under `MGroups` leaves the rest of its work in `doing[zone]`, and the
zone does nothing else until it is done. The sequences that go wrong for good set
`intact` to `FALSE`: a null pointer is followed, a deleted info stays in a list, or
a player between two zones joins a group that does not get him back. The
invariants are about the time before, and the hazards name the lines.

**Trade.** The fields of the two traders (`trader1_coins`, `trader2_coins`, and so
on) are functions of the player, since a player is in one trade at most; `trade`
is `Entity::trade`, `open` holds the `Trade` objects that exist, so that a pointer
to a deleted one can be told. One zone thread runs the commands of its players
(`ZoneServer::ClientProcess`), so each command is one action: `TradeStart`,
`CancelTrade` (cancel, reject, and `TerminateTrade` of a player who leaves the zone),
`SetTradeAccepted` with `CompleteTrade`, and the four commands that change an offer.
`AddCoins` splits and carries as the code does, `TotalCoins` has its `int32`
products. A stack of items is a count, because `unique_id` identifies a stack;
`AddItem` refuses a second lore item and loses it, as `Player::AddItem` does.
`Spend` and `UseItem` stand for everything else that takes from a purse or a bag.

**Inventory.** `items` is the map of places of `PlayerItemList` (bag or container,
slot), `indexed_items` its map of indices, by which the client names an item; `at`,
`index` and `count` are fields of an item's details, `overflowItems` the vector of
items without a place, `worn` the `EquipmentItemList`. A script's thread adds an
item in two steps, because `Player::AddItem` decides under `MPlayerItems` where it
goes and acts after the release: `adding` is that decision. The zone's thread
runs commands; `doing` is what is left of one after a step whose result the rest
relies on (the destruction after a merge, the second `UnequipItem` of
`Client::UnequipItem`, the weapon after the shield). `intact` turns `FALSE` when a bag
gets into a bag, when a bag in the bank is destroyed and its contents stay
listed, and when a command overtakes the script's decision; section 7 and the
hazards name the lines. The index in the details is an `int8` (`IndexWidth`), in
the list an `int32`, so `PlacesAgree` speaks of players whose indices fit. A client
asks for no more of a stack than there are.

## 4. Runs

| Run | Checks | Bounds |
|---|---|---|
| `mutex` | `Exclusion`, `ReadersCounted`, the refinement `LockSpec`, and `AllReturn` under fairness | three threads, two nested reads, two calls each: every pair of lock calls overlaps |
| `transport_alias` | `AckedWasReceived`, and the refinement `ChannelSpec` | modulus 4, window 2: more packets than numbers, so each number is used again |
| `transport_live` | `InOrderOnce`, and `Arrives`, `Settles` under fairness | the real modulus 65536 and window 2048, a session that starts just before the wrap, a network with room for every datagram |
| `factory` | types, `InUseIsAlive`, `MapIsSound`, `OneClientPerPeer`, and `ClosingIsRemoved` under fairness | one peer that asks for a session twice, grace of one pass |
| `trade` | `TradeIsShared`, `CoinsAreCovered`, `ItemsAreCovered`, `LoreIsUnique`, `CoinsConserved`, `ItemsConserved` | three players, a lore and a common kind, two slots, four commands, amounts that have to be changed and carried through all denominations |
| `async` | `PendingIsActive`, `ActiveIsHeldOnce`, `OneWorkerPerConnection`, `TakenInOrder`, `SoleIsServed`, the refinement `RunOnce`, and `SoleIsRun` under fairness | three queries of one character by one thread; a second id, under which a worker can be started after a read of freed memory |
| `async_wait` | a violation, section 7 | two threads, a query each |
| `login` | `FoundIsLive`, `PlayingIsFound`, `BlankIsNeverSaved`, `KeyAdmitsOnce`, and `LinkdeadEnds` under fairness | three connections, two keys, the third client of another version |
| `groups` | types, `MemberInfoAgrees`, `NamedOnce`, `ListedIsMember` | three players, two zones, two groups ever, one client left behind, groups full at three, players and zones symmetric |
| `groups_accept` | a violation, section 7 | the same |
| `inventory` | types, `PlacesAgree`, `InReach`, `RearrangingKeepsTotals` | two bags of one slot, two stacks of at most two, two weapons and a shield, four items at a time; two places in the inventory, one in the bank, room for one in the overflow; kinds symmetric |
| `inventory_bags` | a violation, section 7 | the same |

The types of the lock, the transport, trades, asynchronous queries and logins, and some
invariants the named ones rest on, are not repeated in the runs: section 6 proves
them.

Why the bounds are enough. The lock's decisions depend on the reader count being
zero or not and on who holds `CSWrite`; three threads give a writer, a competitor
and a reader. A sequence-number comparison depends on distances only, so a
modulus of two windows, the least the code's arithmetic supports, meets each
case, and the run at the real modulus meets the promotion to `int` at 65535; the
proofs remove the bound. In the factory a stream interferes with at most the
stream that replaced it; streams of two peers share the lock only. Three queries
give a worker a batch of two while a third is on its way, and every pair of
workers for one id. In a login the client in the map meets the one that replaces
it, and a third that comes while they swap; that one has another version, so
that both ways of replacing happen. Three players in two zones give a group of
two that invites, and a member in either zone; a group of three is full. Two bags
can be put into each other; four items fill the bags, the inventory and the
overflow, so that every search for a free place fails somewhere; a weapon can
replace another and drive a shield out of the second hand. A trade
has two players; the third is there to be left out of it, or to trade with
either afterwards. `Width` is 2^30 in the run, because TLC's own integers have 32 bits
with a sign, and arbitrary in the proofs. `Quiet` restricts the run: a trader's
purse and bag change by his trade only. The code does not enforce it, so it is a
constant, and a hypothesis of the theorems.
Deadlock is checked for the factory and for trades; the other models stop
legally, when their bounds on calls, packets, queries, connections or groups are
used up, and `Inventory` when `intact` is lost.

## 5. Fairness

* Mutex: each thread goes on running, a thread that polls looks again, and a
  holder releases. New requests are not obliged. A reader can overtake a writer
  again and again; what is checked is that requests that end, end well.
* Transport: weak fairness of the writer (`WriteSome`), of the reader's loop over a
  datagram it has and of its kept packets, and of the retransmission timeout of
  each packet, which the writer thread meets every 20 ms in `Decay`. Strong
  fairness of the arrival of each packet and of each acknowledgement: the
  network loses any number of copies, but not all. `SendAck` needs none: a
  repeated packet is answered with an out-of-order ack.
* Factory: each thread runs; the five-second timer comes up again and again
  (strong fairness of `BeginCheck`, which `InTime` holds up only while another
  thread is in an operation); a peer that closes falls silent in the end, so
  that the 45-second timeout meets its stream (strong fairness of
  `FinishClosing`). Clients and peers are never obliged to do anything.
* Asynchronous queries: a thread that submits finishes its submission, and a
  worker goes on; the database answers. Nobody has to submit.
* Login: the zone's thread runs its loop (`ProcessFails`), timers run out
  (`TimerExpires`), removed clients are deleted (`Delete`), and the main thread
  finishes the login it has in hand (`Enter`). Players and peers are not obliged.

## 6. Proofs

Assumptions: those of the constants (`ThreadAssumption`, `BoundsAssumption`,
`SequenceAssumption`: the modulus is at least two windows;
`TransportAssumption`, `TradeAssumption`, `FactoryAssumption`, `LoginAssumption`,
`GroupAssumption`, `InventoryAssumption`, `AsyncAssumption`: each query has an id
and a thread), `Quiet` for what a trade promises about
purses and bags, and, as a hypothesis of each theorem about the
transport, `WithinWindow`: the pushing side is at most a window ahead of the
receiver and no datagram is more than a window late. Nothing in the code
enforces it. Without its first half a packet the receiver never had may count
as acknowledged; without the second, `CompareSequence` takes a datagram from the
distant past for a future one. So it belongs in the statements. For the same
reason the theorems about the factory have the hypothesis `Grace < 2`: no
operation on a stream lasts through two passes of `CheckTimeout`, which are five
seconds apart. Those about `Inventory` have `IndicesFit`: the details of an item hold
every index the list gives. An `int8` does so for 256 items; beyond that the index of
one item may name another, and nothing in the code tells them apart. `OnePlaceEach`
needs no hypothesis, because `PlacesAgree` has this one in it.

* `RWMutexProofs`: `IInv` is `TypeOK`, `ReadersCounted`, `CSWriteOwned`,
  `WritingIsWriter` and that while `writing` is up there are no readers.
  `Exclusion` is not inductive: it says nothing of a writer that drains
  beside readers; that the writer owns `CSWrite` alone and that the count it
  reads is exact are what carries it. `ImplementsLock` maps the write section to
  the time between raising and lowering `writing`, with the holder of `CSWrite` as
  the writer: every way into a call, every failed try and `CSWrite` before and after
  the section leave the abstract lock as it is.
* `EQTransportProofs` begins with laws of `Advance` and `Distance`, and
  `WindowExact`: between packet numbers at most a window apart, `CompareSequence`
  is the order of the packets. `IInv` says that each counter is the sequence number of the
  packet it stands for (`Numbered`), the queue holds consecutive packets
  (`QueueIds`), the sender is within the window (`Ahead`), datagrams and the
  reader's rest of one are runs of consecutive packets with their numbers
  (`NetRuns`, `InboxRun`), and packets kept are later ones within the window under
  their own number (`Kept`). With it `WindowExact` turns each comparison of
  numbers into one of packets, and each action preserves `InOrderOnce`. From
  it follow type correctness, `InOrderDelivery`, `KeepsOnlyLater`, `QueueNumbers`
  and, step by step, `ImplementsChannel`. `NothingForgotten` needs a second
  invariant beside it, `AckInv`: every acknowledgement under way, and the next one,
  answers a packet that was delivered (`Answered`), and all that was released or
  marked was delivered (`ReleasedDelivered`, `MarkedDelivered`). An acknowledgement
  older than the queue is in the past (`WindowExact`) and does nothing; of any other
  the uint16 distance never leads beyond the packet it answers (`DistanceBound`,
  which needs no window), so nothing later is released or marked. It rests on the
  reader keeping early packets without an answer: the variant that answers them
  breaks the run.
* `EQStreamFactoryProofs`: that a stream in use is alive rests on time. `Paid(s, n)`
  says that n passes pay for the delays `CheckTimeout` gave the stream and for the
  one the present pass may still give it. `IInv` says that the age of whoever uses
  a stream pays for its delays (`ReaderInTime`, `WriterInTime`, `QueueInTime`), that
  only closed streams have any (`ClosedOnly`), that nobody has a stream that is
  not born, and that a new one is queued once. A stream with two delays that
  is found closed again would need more than `Grace + 1` passes, so nobody has it.
  The lemma of `CheckTimeout` splits into what becomes of the stream: kept, given
  time, deleted. `InUseAlive` for any number of peers and sessions is
  the result; with it `MapSound`, `OneClient` and `TypeCorrect`.
* `TradeProofs`: `IInv`, that is `TypeOK` and `TradeIsShared`, is inductive
  without more: a start finds both players free, so no open trade has either of
  them. `Covered` adds under `Quiet` that offers are covered and that nobody trades
  with himself. Three arithmetic lemmas carry conservation: `Split` (an amount is
  the sum of its denominations), `Carry` (a carry changes no worth) and `Fits` (a
  number below `Width` is its own remainder); with them `AddCoins` adds and
  `RemoveCoins` takes exactly, and so a completed trade moves coins
  (`CoinsAreConserved`) and items (`ItemsAreConserved`) between its two players.
* `AsyncQueryProofs`: the properties are nearly inductive together. `IInv` adds
  where an active query is (`ActiveIsHeld`, `QueuesHold`, `BatchesHold`,
  `BatchesApart`), how far it has come (the head of a batch was run exactly if its
  worker is about to retire it), and that a query whose submission is not
  finished has no worker. `SoleIsServed` rests on two tests: a thread that finds
  another query of its own active knows that one to be served, and a worker that
  finds its queue empty knows that what is active is in another's batch.
  `ImplementsWriteBehind` maps the section under the lock to `Submit` and
  `RunQuery` to `Apply`.
* `LoginProofs`: the main thread has one login in hand (`OneInHand`); the key of a
  client that was let in is used up, and no login in hand has it (`KeysOK`); while
  players are swapped nobody plays, the new client has its player, and the old one
  has stopped saving (`SwapOK`); a client with a zone has the character or saves
  nothing (`ZoneOK`). Most actions change none of what these speak of: the lemma
  `OrdinaryIInv` serves them all, and only the ways to enter, the steps of the swap
  and the deletion have proofs of their own. The theorems are for any number of
  connections and keys.
* `PlayerGroupsProofs`: of a server that is intact, `IInv` says that pointers and lists
  agree (`Agree`), a list names nobody twice (`OnceEach`), only players in a zone have
  a pointer (`MembersHere`), a player whom a group lists is in it or will ask for it
  when he arrives (`Placed`), a free id has no list (`FreeIds`), and those whom a
  thread is about to add stay in its zone (`TasksOK`). Three lemmas say what
  appending to a list, removing from it and detaching an info in it do; five more
  say that joining, leaving, dissolving, zoning and returning keep all of this,
  and each action is an instance of one of them.
* `InventoryProofs`: of an inventory that is intact, `IInv` says that the map of places
  and the items' details name each other (`PlacesOK`, `AtOK`; one item may be on its
  way, `PlacingOK`), so do the list of indices and the details (`IndexOK`), the
  equipment (`WornOK`) and the overflow (`OverflowOK`), no bag is in a bag and one
  with contents is at a place (`BagsOK`), what does not exist counts nothing
  (`CountOK`), and the weapon a shield was taken off for is still where it was
  (`DoingOK`). `PlacesAgree` alone is not inductive: it does not say what a command
  left half done, nor where a stack that was merged away went. Lemmas say what
  `AddItem`, `RemoveItem`, putting at a place, taking off and wearing do to each part;
  every action is composed of them. `AnIndexIsFree` is a pigeonhole argument: there
  are as many indices as items, so the search for a free one ends with one. What a
  player owns is counted piece by piece (`Pieces`), so that moving a part of a stack
  is a bijection between the pieces before and after (`TransferKeepsPieces`) and
  `TotalsKept` needs no induction over a sum.

Only model-checked: the liveness properties (`AllReturn`, `Arrives`, `Settles`,
`ClosingIsRemoved`, `SoleIsRun`, `LinkdeadEnds`), which are outside the prover's
reach. Every invariant, action property and refinement of a run that passes is
proved.

## 7. Where code and comments disagree

Each is a run with the expectation "violation", and a finding in `PROJECT.json`:
a wait for a character's writes that never ends (`client.cpp:3805`); an invitation
that is accepted with the code for success and leaves an empty group
(`PlayerGroups.h:183`); a full bag that a move puts into another bag, or into itself
(`Items.cpp:3684`).

## 8. Not modelled

* In `EQStream`: fragments and oversized packets beyond their being packets,
  compression, encryption, the combine queue, rate control, keep-alives.
* `CombinePacketLoop`: it takes `MStreams` before it looks a stream up and
  releases it after the last use, so it meets no stream that is deleted.
* Trades with bots, the flags that make an item untradable, and the content of
  traded bags. That an offer may still change after the partner accepted it is
  in the model, as it is in the code.
* Start and shutdown of the process (`Open`, `Close`, `CheckTimeout(true)`).
* In `Database`: what the queries say, the entries of peers in the list of active
  queries. In `Login`: what a save contains, the login server's side, other
  characters. In `PlayerGroups`: raids, mentoring, bots, peers, group options and
  spells shared by a group.
* In `Inventory`: appearance items, quivers, the shared bank and the house vault,
  lore, prices, and items that are locked by crafting or by a sale.
* The components the table leaves aside: formulas, tables, database access,
  parsing, geometry and script bindings. They hold data, not control.

## 9. Plan

1. Sessions: state changes, fragmentation and reassembly, restart of a session,
   combine queue and cipher order, composed with `EQTransport`.
2. Admission across servers: login server, world server and client, with access
   keys and their expiry; refinement of an abstract "one admission for each grant".
3. `PeerManager`, `SpellProcess`, broker, heroic opportunities.
