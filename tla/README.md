# Network labs: a TLA+ model of the chat servers

The repository holds five laboratory works in C++, each a step towards a chat over
sockets: UDP lines (lab 1), a framed TCP stream (lab 2), a thread pool with broadcast and
a reconnecting client (lab 3), nicknames and private messages (lab 4), and history with
store-and-forward (lab 5). Lab 5 contains nearly all of what the others do, so the
project starts there. What it gave up has modules of its own: the frames, the slots and the
reconnecting client of lab 3, the byte stream and the select loop of lab 2. The documents are `5/lab5.md` and `4/lab4.md` (in Russian); there are
no tests. Paths in this file are relative to `src/`.

## 1. Inventory

| Component | State it keeps | Operations | Hard behaviour |
| --- | --- | --- | --- |
| Lab 5 accept loop and pool (`5/server.cpp` 103-107, 194-201, 485-519) | `g_queue`, its mutex and condition variable | accept, push, signal; wait, pop | lost or spurious wakeups; pool exhausted; descriptor reuse |
| Lab 5 login and registry (22-32, 213-272, 187-192) | `g_clients` | HELLO/WELCOME, AUTH, refuse, register, remove | lookup and registration are two critical sections; order of remove and close |
| Lab 5 delivery (158-183, 312-417) | none of its own | broadcast, private, PING, LIST | sends under a mutex; a send to a descriptor read before the unlock; a result nobody looks at |
| Lab 5 store-and-forward (34-45, 274-301, 374-395) | `g_offline` | store, deliver at login | receiver logs in between lookup and store; delivery and clear must be one section |
| Lab 5 history (47-101, 419-461) | `g_history`, `chat_history.jsonl` | save, collect the last N | order of broadcast and save; reply cut to one payload; memory lost on restart |
| Lab 5 process | descriptor table | death by SIGPIPE, restart | all memory is lost, the file is not |
| Lab 5 client (`5/client.cpp`) | `g_msg_id`, `g_nickname`, `g_running` | login, input loop, receive thread | takes the next message for the answer to its AUTH |
| Lab 4 server and client (`4/`) | registry, pool | as above without history | variable-length messages read by one `recv()` |
| Lab 3 server and client (`3/`) | slots of clients; socket shared by two threads | framed send and receive, reconnect | three sends per frame from several threads; `close()` under a blocked `recv()` |
| Lab 2 stream, client, server (`2/`) | one socket | `sendMessage`, `recvMessage`, select loop | frames cut anywhere; buffered stdin behind `select()` |
| Lab 1 UDP (`1/`) | none | send a line, print a datagram | loss, reordering, truncation |

How they interact. The main thread hands accepted descriptors to the workers through
`g_queue`. A worker serves one connection from HELLO to `close()`. Workers meet in three
shared structures, each behind its own mutex: `g_clients`, `g_offline`, `g_history`; no
code holds two of them. They also meet, unprotected, in the process's descriptor table: a
worker that closes a socket frees a number that the next `accept()` may return. A client
talks to one worker and hears from all of them.

What makes each part correct:

* pool: each accepted connection is served once, in order, and none waits beside an idle
  worker;
* registry: an entry names the open socket of the worker that serves this nickname;
  nicknames are unique; descriptors are neither leaked nor closed twice;
* delivery: all clients hear the chat in one order without gaps; a private message reaches
  its addressee only, and at most once; a request is answered in the end;
* store-and-forward: what is stored is kept until it is sent, sent once, in order;
* history: records keep each client's order; a client finds what it said; the latest
  messages are the ones returned.

## 2. Modules

| Module | Contents |
| --- | --- |
| `PoolQueue` | abstract: descriptors are handed out first in, first out, each to one free worker, and not again before it is let go |
| `ConnQueue` | `g_queue`, `g_queue_mutex`, `g_queue_cond`, call by call; implements `PoolQueue` |
| `ChatServer` | the whole lab 5 server and what it sees of its clients; implements `PoolQueue` |
| `FrameServer` | the whole lab 3 server, with its frames of three sends and its registry of slots |
| `ReconnectClient` | the lab 3 client: two threads, one shared descriptor, the reconnect loop |
| `MessageLink` | abstract: each end receives what the other one sent, from the first message on, in order, once |
| `FramedStream` | lab 2's `sendMessage()` and `recvMessage()` over bytes that are cut anywhere |
| `LineChat` | the lab 2 client and server on a `FramedStream`; implements `MessageLink` in both directions |
| `MCConnQueue`, `MCChatServer`, `MCFrameServer`, `MCReconnectClient`, `MCLineChat` | small instances for TLC |
| `ListLemmas` | facts about lists (appending, taking the first, erasing one, joining) and numbers (the least of a set, induction, recursive functions, quotients) |
| `ConnQueueProofs` | theorems about `ConnQueue` |
| `ChatServerProofs` | `ChatServer`: types, descriptors, registry, that it implements `PoolQueue`, and the order of messages and records |
| `ChatDeliveryProofs` | `ChatServer`: the two locks, the echo, the store (extends `ChatServerProofs`) |
| `ChatClientProofs` | `ChatServer`: what a client is sent (extends `ChatDeliveryProofs`) |
| `FrameServerProofs`, `ReconnectClientProofs` | theorems about `FrameServer` and `ReconnectClient` |
| `LineChatProofs` | theorems about `FramedStream` and `LineChat`, and that they implement `MessageLink` |

### ConnQueue

`pc[t]` is the call a thread is about to make, `fd[t]` the descriptor in its hands
(`client_fd` of `main`, `fd` of a worker), `lock` the holder of the mutex, `sleeping` the
threads inside `pthread_cond_wait`. Giving the mutex away and going to sleep are one step
(`Wait`), coming back is two (leave `sleeping`, get the mutex), and a sleeper may leave at
any time (`SpuriousWakeup`). Labs 3 (`SocketQueue`) and 4 have the same structure.

### ChatServer

One step is one access to shared state. A section under a mutex in which nothing can block
is one step (`CheckNick`, `Register`, `Lookup`, `FindTarget`, `StoreOffline`,
`SaveHistory`, ...). The two that send are a loop of steps under an explicit lock, because
`send()` blocks: `LockClients` takes `clientsLock` before `Broadcast` looks at the first entry
(line 161), `LockOffline` takes `offlineLock` before `DeliverOffline` does (276), and the
last step of the loop gives it back. A worker that waits for its first `send()` has the lock
already, and whoever needs it waits with it. Private delivery is four steps as in the code:
lookup, second lookup in `deliver_private()`, send after the unlock, save. A refusal is two,
the ERROR (`Refuse`) and the `close()` (`CloseClient`).

| Model | Code |
| --- | --- |
| `pc`, `fd`, `nick`, `msg`, `target`, `reply` | a worker's place in `worker_thread` and its locals `fd`, `nickname`, `msg`, `target_fd`, the reply being built |
| `idx` | the iterator of the loops in `broadcast()` and the offline delivery |
| `queue`, `clients`, `offline`, `history`, `file` | `g_queue`, `g_clients`, `g_offline`, `g_history`, `chat_history.jsonl` |
| `sockOf` | which connection each descriptor number stands for in the kernel |
| `peer` | the client's end: not there yet, open, closed, or closed and known to the server as reset |
| `c2s`, `s2c`, `taken` | the two directions of each connection; `s2c` keeps everything ever accepted by `send()`, `taken` counts what the client has read of it |
| `login`, `nextId` | `g_nickname` and `g_msg_id` of the client |
| `Accept` ... `CloseClient` | `main` and `worker_thread` from top to bottom; `Sigpipe`, `Restart`: end and new start of the process |
| `ClientAuth`, `ClientRequest`, `ClientQuit`, `ClientClose`, `ClientRead` | the client program, which follows the protocol and may vanish at any time |

Abstracted: the text of messages (a message is its author and id), addresses, time stamps,
logging, JSON. The nickname typed may be empty or taken. Whispering to an empty name is
possible (`/w  text`) and is stored in the queue of the empty name, which nobody can
collect; the model has it. A reply to HISTORY holds the first `ReplyLines` lines, which is
what `make_msg()` does with the first 255 bytes. Messages arrive whole: every message of
lab 5 has one size, and the code does not look whether `recv()` returned all of it.

`Shown(c)` is what the client of lab 5 shows its user (`5/client.cpp` 112-145): the main thread
takes the message after the WELCOME for the answer to its AUTH and shows it only if it is an
ERROR or a SERVER_INFO. A live message that overtakes the SERVER_INFO is lost to the user;
`OfflineShown` says that a stored one cannot be.

### FrameServer

One worker is in `handle_client()`; `pc` is its place there, `out`, `part` and `pos` the frame
it is sending, which of the three `send_all()` calls of `send_message()` is next, and the slot
`broadcast_message()` has come to. `slots` is `g_clients`, `lock` the holder of
`g_clients_mutex`: `add_client()` and `remove_client()` are one step, a broadcast is one step
per `send_all()` with the mutex held. WELCOME and PONG go to the worker's own client with no
mutex. `s2c` holds the parts of frames in the order they went into a socket, which is what
makes a torn frame visible, and is forgotten when the client leaves.

Since lab 3 ignores SIGPIPE, a send to a client that is gone succeeds or fails without
killing the process; broadcasts pass over it, a PONG that fails ends the session. A client
whose stream is torn may vanish at any time, which covers what it does with a frame it
cannot read. Descriptor numbers are not modelled here: `SlotsOwned` says that an active slot
names an open socket of a worker that still serves it, so that a reused number would change nothing.

### ReconnectClient

| Model | Code |
| --- | --- |
| `pc`, `sock`, `out`, `part` | a thread's place in `run()` or `receiver_loop()`, its local descriptor (`sockfd` of the handshake, `sock` elsewhere), the frame it sends and which of its three `send_all()` calls is next |
| `reading` | the connection on which its `recv()` waits |
| `sockfd`, `connected`, `running` | `sockfd_`, `is_connected_`, `running_` |
| `table` | the process's descriptors: closed, a socket that is not connected, or a connection |
| `c2s`, `seen`, `s2c`, `srv` | the parts a connection was sent and how many of them its server has read, messages to the client, the server's state |

A section of `socket_mutex_` is one step, and so is each test of an atomic flag. The kernel
looks a descriptor up on every call: `SendPart` sends on whatever the number names at that
moment, which may be nothing, a socket that is not yet connected, or the next connection in
the middle of its handshake. A `recv()` that has begun keeps the connection up and is not
woken by `close()` in the other thread. `connect_and_handshake()` is one set of actions, used
by the main thread at the start and by the receive thread later.

The server is that of lab 3 (`3/server.cpp` 77-148), as one connection meets it. `ServerRead` is
`handle_client()` with a whole frame; when it is sent thirds of different frames
(`ServerMisread`) it may answer, close, or wait for ever. `ServerHeld` is a connection that
nobody reads any more: it was accepted and stays in the queue because the ten workers
(10-31, 151-156) are all kept by other clients, or its worker waits in a broadcast for a client that
does not read.

What the model showed, and the properties are stated around:

* After `/quit` the server closes because of the BYE, which ends the receive thread. After the
  end of the input nobody tells the server anything; `join()` (line 60) then waits until
  the server happens to send or close. The same happens after a `/quit` whose `get_socket()` came
  before a reconnect and whose test of `is_connected_` came after it: the BYE goes nowhere.
* A connection that is accepted and not served leaves `connect_and_handshake()` waiting for its
  WELCOME (line 91), which has no time limit, and `join()` with it.
* A line, or a part of one, can go to the next connection before its HELLO. One such message is
  possible per connection and no more (`OneStray`), because `close_connection()` sets both
  the number and the flag, and the main thread looks at both again for every line.

### FramedStream and LineChat

`todo[e]` is what end `e` has still to hand to `send()`, `wire[e]` what the kernels hold,
`rx[e]` the field `recvMessage()` is reading and the bytes it has of it. Lengths are
written and read big-endian, in `LenBytes` digits below `Base`. `sent` and `got` are the messages
themselves and exist for the properties; `MessageLink` is stated over them. An end that
closes while bytes for it are unread, or still come, resets the connection: what it has sent
and is still under way may get lost, from the end.

A `send()` to an end that is closed may take the bytes for nothing or fail (`SendToClosed`);
one that fails throws, and the session ends there (`Transfer`).

In `LineChat` the client's stages are the calls of `eventLoop()`: `Select` takes a
snapshot of both descriptors, the socket is served first (`InputOnly`). `typed` are the lines of the user,
the first `taken` of them have left the kernel, the first `used` have been returned by
`getline()`; the ones in between are in its buffer, of which `select()` knows nothing. So
lines that were read ahead, a `/quit` among them, wait until something else is typed or the input
ends: `AllDelivered` is stated for the end of the input for this reason. It excludes sessions with a
`/ping`, since TLC showed lines lost when the client closes with a PONG unread. A text or
a nickname longer than `MAX_PAYLOAD` throws and ends the session.

## 3. What is checked

| Run | Instance | Shows |
| --- | --- | --- |
| `pool_handoff` | 3 workers, 4 descriptors | `TypeOK`, `NoLostWakeup`, `ImplementsPool`, and under fairness `IdleWorkerServes` |
| `chat_broadcast` | 3 connections, 2 workers, 2 descriptors, 2 nicknames, one chat message each | `TypeOK`, `DescriptorsOwned`, `RegistryOwned`, `BroadcastAgreement`, `AuthorEchoed`, `RefusedSeesNothing`, `ImplementsPool` |
| `chat_private` | 3 connections, 3 descriptors, 2 workers, two whispers, two connections that use one nickname, a file that may not open | `OfflineConserved`, `PrivateAtMostOnce`, `OfflineInOrder`, `OfflineShown` |
| `chat_history` | 2 connections, 2 requests each, HISTORY for all or for the last 3 records, one death and restart | `ReadYourWrites`, `RecordsInOrder` |
| `chat_liveness` | 2 connections, one that speaks and one that lists users, one request each, sockets that hold 2 unread messages, fairness | `RequestServed`, `GoneIsClosed` |
| `frames` | 3 connections, 2 workers, 2 slots, one client that asks once, for text or PING | `TypeOK`, `SlotsOwned`, `NobodyTurnedAway`, `BroadcastsWhole`, `SameOrder`, `LeftIsGone` |
| `reconnect` | 2 connections, 2 descriptors, one line (text or `/ping`), then `/quit` or the end of the input | `TypeOK`, `SocketOwned`, `OneStray`, and under fairness `JoinEnds`, `LossNoticed` |
| `line_chat` | 4 lines of 4 kinds, lengths of two bits, payloads of 0 to 2 bytes, 5 bytes under way in a direction | `TypeOK`, `NoProtocolError`, `PrintedIsPrefix`, `ImplementsLink`, and under fairness `AllDelivered`, `PingAnswered` |
| `nick_unique` | 2 connections with one nickname | violates `NicknamesUnique` |
| `private_addressee` | 3 connections, 2 descriptors | violates `PrivateOnlyToAddressee` |
| `private_delivered` | 2 connections | violates `DeliveredWasSent` |
| `history_latest` | 1 connection, room for one line | violates `HistoryShowsLatest` |

Bounds. Two workers are the fewest that interleave; with fewer descriptors than
connections a number is reused while another worker still runs, which is the case every
property about descriptors needs; the third connection is the stranger who gets a
reused number or the second owner of a nickname. `MaxRequests`, `MaxRestarts` and the sets
of nicknames bound the runs; `SockBuf` = 20 in the safety runs means that no socket ever
fills (each connection gets fewer messages), `SockBuf` = 2 in `chat_liveness` makes `send()` block:
WELCOME and SERVER_INFO fill a socket, so the first client's broadcast blocks on an entry of the
registry while the worker of the second one waits for the registry to answer its LIST and has
what that client sent behind it unread: what `RequestServed` says can then come only from the clients'
reading. In `chat_history` two texts of one client and one of the other
are all there can be recorded before a HISTORY, so that the last 3 are all there are.
In `frames` two slots for three
connections mean that a slot is reused, and a slot that is not freed turns somebody away;
a client that joins, speaks or leaves while another one does is enough for two broadcasts to meet.
Symmetry is used in safety runs only, over sets the instance treats alike. In `ChatServer`
and `FrameServer` every connection is used once, so the system stops when all are gone: these runs do not
check for deadlock, `RequestServed` does instead; `pool_handoff` checks for it.
In `reconnect` two connections make one reconnect and one reuse of the number; with one line and a BYE
there are two messages that could stray, so that `OneStray` can tell one from two; a second descriptor
would show one that was left open. In `line_chat` the longest frame has five bytes and a
direction holds five, so that frames are cut, share the wire, and block their sender; the kinds of
lines are a text of the greatest length, one that is too long, `/ping` and `/quit`, which have
no payload, and one of two nicknames is too long. Four lines make the case that
`PingAnswered` is about: two PINGs, of which the second PONG does not fit and blocks the server, and two
more lines that do not fit behind one another, so that a client that wrote them without a look at its
socket in between would wait for the server, and the server for it. A direction must hold a whole frame
for that: with 3 bytes TLC finds the two ends waiting for each other, the client in the middle of one
text. The kernels' buffers are larger than the 1029 bytes of the longest frame.
Both systems end, so these runs do not check for deadlock.

Fairness. In `reconnect` the client's two threads run, and a server reads what it was sent
unless it has no worker for the connection (`ServerHeld`, which may happen at any moment and of which
nothing is assumed); `JoinEnds` says that `join()` returns or that the receive thread is in one
of the calls of `recv()` that `Hangs` lists: on a connection that is held, on one whose server
was not told to close, or on one the main thread's message led astray. In `line_chat`
both processes run. Users, connects, kills and whatever else a server may do are not assumed
fair. In `ConnQueue` and `ChatServer`, `FairSpec` lets every worker thread that can go on do so
(pool threads are never cancelled, and the code has no priorities), and in `ChatServer` also the thread a client
reads with (`5/client.cpp` 45-90, which does nothing else). Users, new connections, the end
of a session and the winner of a mutex are not assumed fair. `RequestServed` shows that
with that much the chat goes on although `broadcast()` blocks with the registry locked; a
client that stops reading without closing stops everybody, which is why the assumption is
there.

## 4. Where the code and its documents differ

* `nick_unique`: `5/lab5.md:117` and `:385` ask for unique nicknames. Lookup (243-247) and
  registration (262-264) are two sections of `g_clients_mutex`: two clients can both pass.
* `private_addressee`: `5/lab5.md:391` and `4/lab4.md:127` send a private message to its
  addressee. `deliver_private()` sends to a descriptor it read before the unlock (181); it
  may be closed and reused by then.
* `private_delivered`: `5/lab5.md:48` and `:158`. When the receiver leaves between the two
  lookups, `deliver_private()` returns false, line 370 drops it, and the record says
  `delivered`.
* `history_latest`: `5/lab5.md:344` returns the last messages. The reply starts with the
  oldest collected line and is cut at 255 bytes.

Seen while modelling and not given a run. Lab 5: the `delivered` flag of a stored message is
never set later (`5/lab5.md:220`); `msg_id` is a counter of each client and not unique (`:127`);
the history is answered from memory and not from the file (`:344`), so it is empty after a
restart; `g_offline` is lost with the process. Lab 3, which has no document: a PONG is sent
without the mutex (`3/server.cpp:126`), so a broadcast frame can land between its parts, or it
between theirs; `BroadcastsWhole` says, and `FramesWhole` proves, that nothing else can.

Also seen and not given a run. Lab 3 client: the hanging `join()` and the stray message
above, and the handshake without a time limit (`3/client.cpp:91`), which the server's full pool
(`3/server.cpp:10-31`) makes wait. Lab 2: lines that wait behind
`select()`, and lines lost with a PONG unread.

## 5. What is proved

TLAPS proves the theorems below for every value of the constants that meets the named
assumptions: any number of connections, workers, descriptors, requests and restarts. The
assumptions are types of the constants and that `None` is nothing else (`ThreadsAssumption` of
`ConnQueue`, `ConstantsAssumption` of `ChatServer`, `ServerAssumption` of `FrameServer`,
`ClientAssumption` of `ReconnectClient`, `StreamAssumption` and `ChatAssumption` of `LineChat`),
and beyond that only that workers and descriptors are finitely many where they are counted, in
`FrameServer` that there are no more workers than slots, as in `3/server.cpp` (10 threads, 256
slots), and in `LineChat` that a length fits its field (32 bits for 1024 bytes, `2/net.cpp:129` and
`2/protocol.hpp:5`), that the greeting, `Welcome` and an address, fits a payload, and that payloads
are made of bytes. Nicknames and lines may be of any length. Every safety argument is the same in
form: an inductive invariant `I`, with `Init => I` and `I /\ [Next]_vars => I'`, that implies
the property. TLC checks the properties themselves on the instances of section 3.

**Pool** (`ConnQueueProofs`): `TypeCorrect`, `NoWakeupLost` and `PoolImplemented`. The
invariant is `TypeOK`, which says who has the mutex, `Holding`, which says what a thread has
in its hands and that what a worker tested is still true at its `pop` and `wait`, and
`NoLostWakeup` itself. The count is the heart: a push adds one to the queue and, by way of the
signal, one to the workers awake; a pop takes one from each; a worker falls asleep only while
it holds the mutex and the queue is empty.

**Chat server.** Five invariants, each proved with the help of those before it:

| Invariant | Parts | Theorems |
| --- | --- | --- |
| `IInv` (`ChatServerProofs`) | `TypeOK`, `DescriptorsOwned`, `RegistryOwned` | `TypeCorrect`, `NoDescriptorLeaks`, `RegistryIsSound`, `ServerImplementsPool` |
| `OrderInv` (`ChatServerProofs`) | `Streams`, `Handling`, `Recorded` | `HistoryKeepsOrder` |
| `DeliveryInv` (`ChatDeliveryProofs`) | `Locks`, `Answering`, `Echoed`, `Named`, `Addressed`, `Greeted`, `Conserved`, ... | `AuthorsSeeTheirTexts`, `StoredIsNotLost`, `StoredIsShown` |
| `OnceInv` (`ChatClientProofs`) | `Pending`, `Queued`, `Unrepeated`, the properties | `NoPrivateTwice`, `StoredInOrder` |
| `AgreeInv` (`ChatClientProofs`) | `Heeded`, `Unheard`, `Airs`, `Sync`, the property | `AllHearOneChat` |

* `IInv`: none of the three parts is inductive without the ones before it. A worker's socket
  is open because it owns it; its entry in `g_clients` is its own because no two workers have
  one descriptor; a removal takes out that entry and no other because entries differ in their
  socket (`WithoutSpec`). That `broadcast()` never sends to a closed or foreign descriptor
  follows from `RegistryOwned`.
* `OrderInv`: a connection has one descriptor and thus one worker (`OneWorker`); its stream
  holds its messages by number, and what the worker handles (`Handling`) came before all that
  is still in the stream (`Read`). So what is recorded came before what is handled, and a new
  record is the latest of its author.
* `DeliveryInv`: whoever has passed an entry of a list holds its mutex (`Locks`), so the registry stands
  still during a broadcast and everybody whose entry it has passed was sent the message
  (`Echoed`); the author's own entry is among them. For the store: `StoreOffline` and the
  record of it are two steps, and a login of the receiver can fall between them. `Conserved`
  therefore follows a message from the store on, before its record exists: it is in the queue
  or was sent to a connection that logged in under that name. `Greeted` counts what a worker's
  client was sent before a drain may begin.
* `OnceInv`: a whisper is at one place only, with its worker, in a queue at or behind the
  position of a drain, or sent. `Waiting(m)` says the former, `Unsent(m)` that no connection
  has it; numbers in a queue grow for each author (`Queued`).
* `AgreeInv`: what the clients heard differs by the broadcast that is going on and by nothing
  else. A message on the air is the last one that anybody heard, and who heard it has an entry
  which the broadcast has passed (`Airs`); of two members with a message in common, one has
  heard all the other heard since, but for what is on the air (`Sync`); a connection that
  registers has heard nothing yet (`Unheard`).

Two theorems have a hypothesis on what users type, which the property does not hold without:

* `WritersFindTheirTexts == WholeHistory => (Spec => []ReadYourWrites)`: every HISTORY asks
  for the whole history (its `count` is 0). One that asks for the last N leaves out the
  others by design; `chat_history` also has an N for which there are no others. Its invariant `ReadingInv` adds that what a client saw echoed is recorded
  before its own next request is handled, unless the process dies, and then this client has no
  socket any more.
* `RefusedHearNothing == NoWhispers => (Spec => []RefusedSeesNothing)`: nobody whispers, as in
  `chat_broadcast`. A whisper can reach a reused descriptor before its WELCOME: this is what
  `private_addressee` shows. Its invariant `QuietInv` says how much a connection has heard at
  each stage of its worker (`Hushed`).

**Lab 3 server** (`FrameServerProofs`). `TypeCorrect`, `SlotsAreSound` and `AlwaysRoom` have
the invariant `IInv`: `TypeOK`, `FramesFit` (which frames go through `broadcast_message()`),
`Served` (a connection waits once or has one worker, and its socket is open until that worker
closes it) and `SlotsOwned`. `AlwaysRoom` is a pigeonhole argument: slots belong to different
workers, the one that looks for a slot has none, and the workers are no more than the slots.

Two more invariants rest on that one:

| Invariant | Parts | Theorems |
| --- | --- | --- |
| `ToldInv` | `IInv`, `Locked`, `Listening`, `Numbered`, `Fresh`, `OnAir`, `Once`, `Sync`, `LeftLast` | `OneOrder`, `LeftForGood` |
| `FrameInv` | `IInv`, `Locked`, `Listening`, `Framed` | `FramesWhole` |

* `ToldInv`: a frame that was composed is not composed again (`Fresh`: a request has a number
  of its own, and a client joins and leaves once), so that "the same frame" has a meaning. A
  broadcast holds the mutex for its whole walk (`Locked`), the slots stand still, and a client
  has heard the frame on the air exactly if the walk has passed its slot (`OnAir`). Two
  clients' streams therefore differ by that frame only (`Sync`). A LEAVE is the last that is
  heard of its client (`LeftLast`), because only the worker of that client speaks for it.
* `FrameInv`: at most one worker sends a client PONGs, and at most one sends it anything else
  (`Alone`, from `Served`, `SlotsOwned` and `Locked`); what that worker sends next continues
  what the stream ends with (`Framed`). The stream without its PONGs and the PONGs alone are
  then whole frames; the two together are not, since a PONG is sent without the mutex.

**Lab 3 client** (`ReconnectClientProofs`): `TypeCorrect`, `OneSocket` and `StrayOnce`. The
first two have the invariant `IInv`: `TypeOK`, `Turns` (the receive thread is started after the first connection, the main thread
closes one only after `running_` is false), `Sending`, `Owned` (an open socket is the
published one or that of the thread that connects, and nobody connects while one is published)
and `Follows` (while the client runs, the receive thread reads the published socket). A number
that a thread copied before a `close_connection()` may be stale; `Owned` does not say
otherwise, and does not need to.

`StrayOnce` says what such a stale number can do. Its invariant `StrayInv` adds to `IInv` that a
connection is published after its HELLO (`Introduced`), that one not made yet has no bytes
(`Unmade`), and for each connection that can still be written to: what the main thread sends next
continues what the stream ends with (`Continued`), and before the HELLO is complete no message
begins behind another (`Untimely`). The last two hold only as long as the connection is
alive: a message whose first third went to a connection that is gone is finished
on the next one, which is the stray of `OneStray`. That there is no second one rests on
`Introduced`: for its next line the main thread looks at flag and number again, and finds a
connection that has its HELLO.

**Lab 2 stream and chat** (`LineChatProofs`): `TypeCorrect`, `ProtocolKept`, `PrintedInOrder`
and `LinkImplemented`, the refinement of `MessageLink` in both directions, for lengths of any
number of bytes, any `MAX_PAYLOAD` that fits them and any capacity of the kernels' buffers. The
invariant is `IInv == StreamInv /\ Roles /\ InputTypes /\ ClientSaid /\ ServerSaid`.

* A length that was written is the length that is read (`NumberOfBigEndian`): the value of the
  first `i` bytes is the number without its last `LenBytes - i` digits.
* `StreamInv` is the heart. What is under way from an end is one string of bytes, `Flow`: what
  the peer's `recvMessage()` has consumed of the message it is in, what the kernels hold, and what
  the end has yet to send. `InOrder` says that this string is the frames of the messages that
  were sent and not yet received, one behind the other (`Carries`), whole as long as the sender is
  open, and otherwise the first bytes of it. `Cuts` are the places where the frames end. Moving
  bytes from one part to the next leaves `Flow` as it is; a send adds a frame at its end
  (`CarriesMore`), a complete message takes one off its front (`CarriesRest`), an end that dies or
  a reset cuts bytes off its end (`CarriesLess`). So a length that is read is that of the first
  frame (`TakeLength`), which is why it is never out of range.
* `Roles` says which stages send and receive, so that nobody hands over a message while the
  last one is under way. `ClientSaid` relates what was sent to what was typed: the HELLO first,
  then as many lines as `getline()` has returned.

`PrintedIsPrefix` and `ImplementsLink` follow: what was received is the first part of what was
sent (`StreamInv`), and that is what was typed (`ClientSaid`).

Induction. The library's induction theorems take an operator as a parameter, which the
installed provers cannot instantiate. The one recursive computation a proof here needs, that of
a number from its bytes and of powers of the base, is reached with `SetInduction` of `ListLemmas`,
which speaks of a set of numbers and follows from the existence of a least element;
`FunctionByRecursion`, proved with it, gives the recursive functions of `FramedStream` their
values.

Only model-checked, and why:

* Liveness under fairness (`IdleWorkerServes`, `RequestServed`, `GoneIsClosed`, `JoinEnds`,
  `LossNoticed`, `AllDelivered`, `PingAnswered`) and all that rests on ENABLED: out of this
  prover's reach.

Every invariant and every step property that a passing run checks is the statement of a theorem.

## 6. Plan

1. Done: `PoolQueue`, `ConnQueue`, `ChatServer`, their runs and proofs.
2. Done: `FrameServer` and `ReconnectClient` (lab 3), `MessageLink`, `FramedStream` and
   `LineChat` (lab 2), what the lab 5 client shows.
3. Done: a theorem for every safety property that a passing run checks, the refinements of
   `PoolQueue` and `MessageLink` among them.
4. Open: lab 4's framing, if a promise for it can be found (section 7).

## 7. Not modelled

* Lab 4. Its server has the pool, the registry and the broadcast of lab 5, which are modelled,
  without history and store. Its own part is the framing: a message is sent with as many
  bytes as it has, with no NUL after its text, and read by one `recv()` of the greatest size into a
  buffer that is used again. Where one message ends depends on how TCP cuts the stream, and the
  last text shows through behind a shorter one (`4/server.cpp` 134-155, 196): there is no
  promise left that a property could state, beyond the registry's.
* Lab 1: datagrams are printed as they come; no state, no retry.
* The lab 5 client's prompt and the parsing of its input lines; the network-layer logging of
  lab 5 (prints only); JSON text (quotes in a message are not escaped); time stamps; `atoi()`
  on more digits than an `int` holds.
* The listen backlog, `accept()` failing for want of descriptors (the loop spins), sockets
  of lab 3 that fill up, a failed `connect()` of lab 2 (the client ends).
* Torn frames on their way to the lab 3 client: `FrameServer` shows where they come from, and the
  client treats an impossible length as a lost connection.
