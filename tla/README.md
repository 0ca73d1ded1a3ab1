# TLA+ models of the TAHI test tools

The repository is the TAHI Project's conformance test kit for IPv6. Most of its
17,000 files are test sequences and packet definitions, and most of its C++ is
`v6eval`'s packet language, functions of their input. What has behaviour over
time, and is modelled here, are its daemons:

* **koid** (`src/koi`), the centre of KOI, the tool for protocols above UDP and
  TCP: a daemon that owns all sockets to the device under test and takes
  commands from Perl test scripts;
* **vel** (`src/vel`), which drives traffic between several hosts: a manager
  (velm) runs a scenario of threads, an agent on every host (vela) has the
  sockets, and a command executor (velo) runs programs;
* **pktbuf** (`src/v6eval/bin/pktbuf`, `src/v6eval/lib/pkt`), v6eval's packet
  buffer: it captures from a BPF device and serves the tools that send and
  receive.

    test script (Perl, kCommon.pm)
        |  commands / acks over a UNIX stream socket
        v
    koid main loop ---- kCloseTimerProc    due closes          -> kSocketClose
        |          ---- kRecvTimerProc     waiting RECVs       -> acks
        |          ---- select(), one ready socket per turn
        v
    kDispatcher --> kSocket (table, descriptors)
        |      +--> kBuffer + kParser (TCP stream -> messages)
        |      +--> kData (messages)  <-- kRecvTimeoutTimer (RECVs that wait)
        v
    device under test (TCP, UDP, ICMP)

    velm (threads, statements, sync events)
        |  requests, answers and reports, one TCP connection per agent
        v
    vela at each host ---- sockets <==== TCP / UDP traffic ====> vela
        |  commands
        v
    velo ---- children, SIGCHLD

    BPF device --> BpfAgent (filter of own packets) --> Ringbuf
                        ^                                  |
    tools (pktsend, pktrecv, pktctl) <--> PktServer -------+

koid has one thread, and a handler runs to its end. What makes it hard is not
parallelism inside it but everything that may happen between two handlers:
time, arrivals in any order and any pieces, commands that name ids of things
long gone, closes from three sides (a command, the end of a stream, a client
that hangs up), descriptor numbers that the kernel gives out again, and calls
that fail half way. vel adds real concurrency: a signal handler that interrupts
velo anywhere, answers that cross reports, two hosts that number sockets by
descriptors, a lossy network. pktbuf adds a device whose contents run ahead of
what the daemon knows, and readers that come and go.

## Inventory

| component | state | operations | interacts with |
|---|---|---|---|
| main loop (`koid.c`) | none of its own | close timers, walk, select, one handler | all below |
| close timer (`kSocketCloseTimer.c`) | 16 slots (socket id, deadline), a count | Init, Set, Proc, Remove | kSocketClose; set by CLOSE and by the end of a TCP stream |
| waiting RECVs (`kRecvTimeoutTimer.c`) | linked list with last pointer, `g_rt_num` | Init, Set, Proc (the walk), Remove | reads kData, writes acks; limit is the last socket id |
| messages (`kData.c`) | linked list with last pointer, `g_msg_dataid` | Init, Regist, Clear (FLUSH), GetDataBySocketid | socket table (types, parents) |
| left data (`kBuffer.c`) | linked list with last pointer, `g_ld_datanum` | Init, Set, Get | the TCP handler; limit is the last socket id |
| parsers (`kParser*.c`) | none | one function per payload type | the TCP and UDP handlers |
| socket table (`kSocket.c`) | list of entries, `g_socket_socketid`, `g_readfds`; the process's descriptors | OpenUnixd, Open, OpenWait, OpenRaw, Regist..., CheckNewSocket, Send, Close, look-ups | the kernel; every other part looks ids up here |
| dispatcher (`kDispatcher.c`) | none beyond the tables | CONNECT, LISTEN, SEND, RECV, CLOSE, FLUSH, INFO; accept; arrival on UDP, TCP, raw; hangup | all of the above |
| TLS (`kTls.c`) | OpenSSL objects per entry | handshake, read, write | socket table, dispatcher |
| log, interfaces, utilities | configuration | formatting, name look-up | everybody |
| client library (`libdata/kCommon`) | one UNIX socket | send a command, read its ack | dispatcher |
| velm (`tg.cc`, `TgAgntCtrl.cc`, `TgStatement.cc`, `TgExecThread.cc`, `TgReqElm.cc`, `TgSyncEvent.cc`) | threads and their statements; requests, listens, accepts and connections of each agent; sync events; timers | the steps of connect, traffic, close, sync, delay and execute; the answers and reports of the agents | vela, by messages |
| vela (`TgServer.cc`, `TcSocket.cc`, `TcTCPSocket.cc`, `TcUDPSocket.cc`, `TcAccept.cc`) | sockets with their request, counters and timer; the proxy to velo | open, listen, connect, send, receive, their combinations, close; arrivals, timeouts, end of stream | velm, the peer's vela, velo |
| velo (`TeServer.cc`, `TeIF.cc`, `TeCmd.cc`) | the set of running commands, a flag for one that ended early | execute; the SIGCHLD handler | vela, child processes |
| vel scenario language, vel library | statements; fds, timers | parse; dispatch | velm; everybody |
| pktbuf (`BpfAgent.cc`, `PktServer.cc`, `PktBuf.cc`, `Ringbuf.cc`) | ring, queue of sent packets, the reader that waits, timers | read, write, dump, capture, stop, clear, wrap, nowrap; receive | the BPF device, the tools |
| other Perl libraries, tools, v6eval's packet language, test suites, LCNA | | | none of these |

What makes each part correct, in a sentence each:

* close timer: an accepted close is done once, never early, and in the end; a
  refusal has a cause.
* waiting RECVs and messages: a command is answered at most once, a message is
  delivered at most once and in order, a walk misses nobody, a wait ends.
* left data: the messages of a stream are registered as they were sent.
* socket table: an id names one socket for ever; a live entry names its own
  descriptor, is watched, and what is watched is known; children go with their
  listener.
* velo: a command is answered once, after it ended, unless one of a few known
  incidents happened; answers are not torn.
* vela: a request is answered once; a transfer is over when its packets are, and
  ends whatever the network loses; no timer outlives its request.
* velm: answers find their requests; no thread's request reaches another
  thread's socket; a thread that waits will be woken; sync events are barriers.
* pktbuf: the reader that is registered exists and reads; it is given the oldest
  packet, and never what the tools sent themselves; the ring is a bounded queue.

The hard behaviours, each at its line, are the "hazards" of `PROJECT.json`.

## Modules

| module | models | proofs |
|---|---|---|
| `CloseAgenda` | abstract: a partial map from sockets to deadlines | |
| `KoiCloseTimer` | kSocketCloseTimer.c, slot by slot | `KoiSocket_proofs` |
| `KoiList` | the linked lists of kData, kBuffer and kRecvTimeoutTimer: append at the last pointer, unlink, the walk through freed nodes | in `KoiRecv_proofs`, `KoiStream_proofs` |
| `KoiSocketTable` | what kSocketClose(id) closes, on any table of entries | |
| `KoiRecv` | kData.c, kRecvTimeoutTimer.c, the dispatcher's commands around them, the main loop | `KoiRecv_proofs` |
| `KoiStream` | kBuffer.c, kParserDNS.c and process_si_type_tcp | `KoiStream_proofs` |
| `KoiSocket` | kSocket.c and the dispatcher's opens, accepts, sends and closes, over descriptors | `KoiSocket_proofs` |
| `VelExec` | a command on its way through velm, vela and velo; velo with its signal handler, step by step | `VelExec_proofs` |
| `VelTraffic` | the two sockets of a connection and the thread that drives them, over TCP and UDP | `VelTraffic_proofs` |
| `VelManager` | velm's tables and statements, the agents' sockets as descriptors | `VelManager_proofs`, `VelManagerWake_proofs` |
| `VelManagerInv` | the invariants of VelManager and what they are made of, without theorems | |
| `VelBarrier` | abstract: a sync event | `VelManager_proofs` |
| `PktBuf` | pktbuf | `PktBuf_proofs` |
| `PktLog` | abstract: a queue of bounded length | `PktBuf_proofs` |
| `MC*` | constants for TLC | |

Names of operators and variables are those of the source where there is one.
`PROJECT.json` ("map") gives the lines each definition stands for.

**KoiList.** A node is a number, and numbers grow in the order of creation. A
list is its set of linked nodes plus the last pointer, which is a number that
may no longer be linked: that is how the code behaves. `Link` attaches the new
node behind the last pointer. If that pointer stands on an inner node, everything
behind it is cut off; if it stands on a freed node, the new node cannot be reached.
`NextNode` is the walk's step from a node that may just have been freed. Freed
memory keeps its contents (FreeBSD's allocator does not touch the pointer
before the next malloc, and the walk makes none).

**KoiCloseTimer.** `close_table` and `table_num` are the code's; `cursor` and
`current_time` are the local state of the scan, so that sets, resets and time
fall between its slots only as the code lets them. `answer` and `closed` record
what the latest step returned or closed. It implements `CloseAgenda` under a
refinement mapping that reads the deadlines out of the slots.

**KoiRecv.** `phase` is the place in a turn: "close" (any live socket may be
closed, which stands for kCloseTimerProc), "walk" (one node per step,
`current_time` being the clock read at its start) and "select" (one event, or
none). `message` and `request` are everything ever registered; the two lists
are KoiLists over them. `acks` are the RECV acks written.

**KoiStream.** A byte is its position in its peer's stream, a piece of data is
an interval of positions, and `ends` says where messages end, so that framing,
merging and losing data are statements about numbers. recv() returns any
positive part of what remains. Bytes that are read at a place where no message
begins give any length. The parse loop is one step per turn. `dropped` is a history
variable: the sockets whose left data was cut off the list or refused; no step
depends on it.

**KoiSocket.** The descriptors are a table of the process: `fds[f].conn` tells
which socket ever created is open as number f, and 0 is closed. Creation takes
the lowest free number. An entry keeps the number and, in the model only, the
`conn` it was made for; stale numbers are the difference of the two. Every
failure of an open or accept is a disjunct: error returns before anything
changed, the failed setsockopt() (`OptionFails`), the failed bind() after which
the code goes on (`bound` = FALSE), the missing parser (`NoParser`), the early
returns after accept() (`AcceptFails`), the full table (`Full` in `Adopt`).
`sent` records where the latest send was to go and where it went. `Served` is
the select() of the main loop: with a closed number on the list it fails, and no
handler runs but the close timer's.

Abstractions of KoiSocket: one address family; commands name their local port;
one interface; TLS is the handshake that may fail; malloc does not fail;
descriptors do not run out before `MaxConns` does; accept() on the UNIX socket
does not fail; after the ids have wrapped into the negative nothing more is
opened (`NotWrapped`), because from there on the order of the ids is no longer
that of the list. In KoiRecv and KoiStream socket ids have no gaps, which
KoiSocket shows to happen only after a failed open.

**VelExec.** velm's request travels as a number through vela's queue to velo;
`session` is velm's run, since velo outlives it and a new one counts from 1
again. `pc` is the place in `expandRun`, whose steps are actions of their own so
that the handler (`ChildSignal`, `Waited`, `childEnd`) falls between any two;
`sigPending` is one bit, as signals merge. `process` is the process table: a pid
is free again once waited for. Answers are two writes, a header and a body.
A failed vfork() is answered under `eCmdExec_`, the code of the request type, which
is the number of a later request too; `failed` records for which requests. When
such an answer is torn by the handler, vela reads the next header as the body it
waits for (`Torn`) and never finds the start of an answer again: `Astray` lets it
take anything from there for an answer to any request. `incidents` records what may
cost an answer; the properties name the incidents they exclude.

**VelTraffic.** `sock[e]` has the counters of TcSocket at each end, `net[e]` the
packets on their way to it, `step` the step of the statement. `PostReceive` is
reached from a packet, a timer and a request alike, as in the code. Over UDP
packets are lost, repeated and delayed into the next statement; a send may fail
with the error that makes the code set a timer.

**VelManager.** `requests`, `listens`, `accepts`, `connects` are velm's sets with
their keys, `resume` the threads an answer has freed, run before the next
answer; an operation (`OpListen`, `OpAccept`, ...) is one call of TgAgntCtrl.
`fds[a]` is the descriptor table of agent `a`. Traffic is one request that is
answered some time: what happens between sockets is in VelTraffic.

**PktBuf.** A handler runs to its end; the loop over a received buffer and the
loop of clear() are stepwise, the latter because the network goes on meanwhile.
Offsets stand for the ring's pointers, numbers for packets, and a packet sent by
a tool keeps its identity as a copy. `mode` is not initialised by the constructor
(Ringbuf.cc:49) and starts as either. `astray` and `overlap` record that the
queue of sent packets is out of step and that two clients read at once. A
connection is used by one tool; after its end the number is not used again.

## Runs

| run | bounds | shows |
|---|---|---|
| `close_timer` | 2 slots, ids -1..2, waits 0..2, time 3 | the counter and the uniqueness of slots; refusals; liveness; refinement of `CloseAgenda` |
| `recv_walk` | UDP sockets, RECV for ids 0, 3, 4; 3 sockets, 1 message, 3 RECVs, time 1 | at most one ack; the walk misses nobody; `WaitEnds` under fairness |
| `recv_listen` | listeners of both kinds, 4 sockets, 3 messages, 2 RECVs | delivery once and in order |
| `stream_three` | 3 TCP sockets, streams of 1 message of 3 bytes or 2 of 2 | framing, completeness and exact left data of every socket that the list has not failed, which takes three |
| `sockets` | 4 ids, 5 descriptors, 2 hosts, 5 sockets ever created | the socket table properties |
| `vel_exec` | 2 sessions of 1 and 3 commands, 2 pids, 1 failing vfork(), `eCmdExec_` = 2 | wait() finds a child, one answer, none early, whole frames, an answer is lost only by a named incident |
| `vel_traffic` | TCP and UDP, every program of 1 or 2 traffic statements of 1 or 2 packets and a close; 1 repeated packet, 1 send that is retried | one answer per request, no timer left, complete transfers, no abort, the thread ends |
| `vel_manager` | 2 threads, 7 scenarios, 3 agents, 4 descriptors, 1 failing bind() | answers find requests, own sockets, wake-ups, the end, refinement of `VelBarrier` |
| `pktbuf` | 3 clients, ring of 2, 3 packets of peers, 3 requests or failures, 5 of both together, time 1, capturing | sound registration, right packet, requests end, refinement of `PktLog` |

A property of a run is often the conjunction of several named parts
(`TableSound`, `WaitingListSound`, `LeftListSound`, `RegisteredOrKept`,
`SelectListSound`, `TransferComplete`, `WaiterSound`), which the modules state and
comment one by one. The type invariants that are proved are not checked again in
runs.

Why the bounds are enough for what the runs ask. Two close slots are the fewest
with a full and a half-full table and a second slot behind the first. `recv_walk`
needs three nodes so that the walk frees inner, first and last ones. Listening
needs a listener, a child, a client and the UNIX socket: four entries. Left data
is lost with three sockets and never with two; both runs of KoiStream have three. The
lists of waiting RECVs are cut by four RECVs, which `KoiRecv_proofs` covers for any
number. Four socket ids (UNIX, client, two more) reach the last id, and a fifth
socket wraps the counter or finds the table full; a stale descriptor needs one
close and one open between. Three commands in a second session are the fewest with
which a pid is used again behind a flag that stays, and one before them leaves
what outlives a session. In the code `eCmdExec_` is 19, so that the nineteenth request
of a session shares its number with the failed ones; the run has three requests, and
the second does. Two packets have a first and a last one, two statements
a packet that is late for its own; the third kind of statement is the close.
Two threads are enough for two owners of a descriptor, two waiters on an address
and a sync; the scenarios have the same and different ports, both protocols,
one without a connect and one that syncs twice. A ring of two slots and three
packets is full, wraps and is overwritten; up to three requests or failures on top of
a capture that was asked for before (`MCInit`) are two readers and a tool that leaves,
a writer and two readers, or a write, its copy that is never seen, and a clear.
`MaxEvents` leaves room for two packets of peers with these, or for three with two.

Hosts are symmetric in `sockets`; no property of that run is a liveness one.
The deadlock check is off where the system may stop: when every stream has been
read (`stream_three`), every command, scenario or program has come to its end (the
vel runs), or nobody asks and nothing arrives any more (`pktbuf`).

Three further runs check what a comment in the code says and what TLC refutes.
They are the "findings" of `PROJECT.json`:

| run | comment | what happens |
|---|---|---|
| `message_linked_last` | "last data's next is new" | after a FLUSH of the last message new ones are lost |
| `merges_left_data` | "get left data and merge" | with three sockets left data is cut off the list |
| `early_end_answered` | "Instead of childEnd(), a response to v is sent here" | a command that ends early is not answered when another one runs, or when it ends after the flag was tested |

The models contain more of the kind, each the behaviour of the code, and no run
is spent on them:

* the cut of `merges_left_data` happens to waiting RECVs too
  (kRecvTimeoutTimer.c:396), which then stay counted in `g_rt_num`;
* kRecvTimerSet may refuse a RECV, which then has neither a timer nor an answer
  (kDispatcher.c:1637); a CONNECT whose first send fails is answered twice
  (kDispatcher.c:1531);
* a failed setsockopt() puts a closed number on the select list (kSocket.c:476),
  and select() fails from then on: the step `ServedStays` leaves out;
* a SEND for a closed id goes out on the socket that has its number now
  (kSocket.c:1905; the comment at 1829 says "send data with socketid");
* a reused UDP socket still sends to its first peer (`SentToPeer` leaves it out);
* closing a TCP listener closes every TCP socket (kSocket.c:1695 joins with ||
  what the comments at 1557 and 1692 join with "and");
* kSocketOpenRaw takes the id past the largest short (kSocket.c:3585);
* a failed vfork() is answered under the number of a request type, `eCmdExec_` = 19
  (TeServer.cc:241 passes `header().request()` down), so that request 19 of the
  session may be answered early or twice (`Mistaken`) and the failed one never is;
  that answer can be torn by the handler (`FramesWhole` leaves the case out), and
  vela then reads the stream out of step from there on (`Torn`, `Astray`);
* two servers at one address, one of them over UDP, share velm's entry, and the
  second confirmation is an internal error (TgAgntCtrl.cc:374, `SharedUdp`), or an
  accept at that address waits for ever;
* an aborted thread leaves the other members of its sync events waiting;
* after a send that is retried and fails a timer may be left (TcSocket.cc:222);
* a second reader of pktbuf takes the place of the first, which is then never
  answered if it has no deadline, and the timeout of one clears the registration
  of the other (PktServer.cc:136, 163);
* clear() promises to wait until all sent packets are filtered out
  (BpfAgent.cc:216) and gives up the first one whenever nothing is there to read
  (BpfAgent.cc:130); a copy that comes later is recorded as received;
* a waiting reader is given the start of the device's buffer, which is the copy
  of a sent packet when that came first (BpfAgent.cc:99, `Mixed`);
* an answer to a tool that is gone detaches its agent, which nothing deletes
  (CmDispatch.cc:165).

## Fairness

All liveness is under weak fairness of the steps of the programs themselves, and
of time; nothing is assumed of clients, tools, peers or the order of events.

* `KoiCloseTimer` and `KoiRecv`: the steps of the loop and the clock. There is one
  thread, its loop has no exit but a signal, select() returns after one second
  (`LOOPWAIT_SEC`), each scan and walk is over a finite table. Time is bounded in
  the model; `WaitEnds` speaks only of deadlines inside the bound. It says that a
  RECV leaves the list, not that it was answered: it may be cut off, which is a
  finding. A turn that `Served` stops is outside of KoiRecv, which has no
  descriptors.
* `VelExec`: the dispatch loops of velm, vela and velo, velo's main program, the
  delivery of a pending signal, the handler, and the end of every child (a
  command that runs for ever is not answered for ever, by design). Not the failure
  of vfork() and not the new session.
* `VelTraffic`: velm's thread, the loops of velm and of both agents, timers, the
  end of a stream and the arrival of what TCP carries. What UDP carries need not
  arrive: `ThreadEnds` holds when everything is lost.
* `VelManager`: velm's thread, the sync and delay events, and for every agent its
  loop, its accepts and its answers to what the network did. Fairness is for each
  agent and each sync on its own: CmDispatch serves every ready descriptor in a
  turn.
* `PktBuf`: the handlers, which run to their end; one turn of the main loop for
  every client; transmission and time. The main loop serves all ready descriptors
  and all timers that are due in each turn (CmDispatch.cc), so no client can starve
  another.

## Proofs

All theorems hold for every value of the constants under the modules' `ASSUME`s
(numbers are natural, descriptors a finite non-empty set, streams are finite
sequences of messages with a header, the special values are different), which
TLC evaluates in the runs. The bounds `Max...` are constants like the others: a
proof covers them for every value.

* `KoiSocket_proofs`, close timer: the invariant (`TimerInv`) says that the count is the number of
  occupied slots, that ids are unique, and, while a scan runs, that the slots
  before the cursor hold nothing that was due at `current_time`. The
  refinement: the deadlines read out of the slots change as `CloseAgenda` says.
* `KoiRecv_proofs` begins with what `Link`, `Unlink`, `UnlinkAll` do to the linked
  set, its order and its cardinality, and that `NextNode` skips no linked node, also
  from a node that is linked no longer. `IInv` has five parts (sockets, messages, timers, acks,
  loop). `AckedOnce` is not inductive alone: it needs that a request on the list
  has no ack, which needs that the walk's removal by socket id takes out the node
  it answered, which needs that a socket has one node (`OneTimerPerSocket`, a part
  of `WaitingListSound`). `DeliveredInOrder` needs that an unread message on the
  list is younger than every delivered one of its socket, which survives cuts and
  flushes because both only take away. `WalkComplete` needs the half-done walk:
  every node before `pos` still on the list has no data and is not due, and no data
  arrives during a walk.
* `KoiStream_proofs`: left data on the list ends where its socket has read to,
  and the socket being handled has none (`IInv`). The list may lose left data
  (`merges_left_data`); `FramedCorrect` and `KeptCorrect` say that this harms no socket
  but the one whose data it was. `StreamInv(s)`, for a socket that is not in
  `dropped`: its messages are its stream, cut at its ends; behind the last of them
  begins the space of the handler or the left data, and no whole message is in it.
  `DInv` says what it takes: with two TCP sockets the list has one node at most
  when another is linked, and the last pointer points to its end (`TwoInv`).
* `KoiSocket_proofs`, sockets: `IInv` joins the types, that ids and conns are given once
  and in order, that the parent of a DATA entry is a TCP listener, and the
  invariants. The central argument: a live entry's number is open with the
  entry's own conn, so a number the kernel gives out belongs to no live entry;
  therefore kSocketMakeSocketStatusClose, with which the code guards against stale
  entries, never changes anything (`MarkingIsIdle`). `ChildHasListener` holds in
  spite of the wrong condition in kSocketClose because that condition closes too
  much and not too little. The proof assumes nothing of the stale parent id: it
  is any Boolean. `SentToPeerCorrect` rests on
  that only UDP entries are used again for another peer, and `ServedCorrect` on that
  every close() but the one after a failed setsockopt() takes its number off the
  select list in the same step.
* `VelExec_proofs`: four invariants. `WaitInv`: a pending signal or a running
  handler means a zombie, both together two, so wait() never blocks the handler.
  `FrameInv`: main program and handler are not both in the middle of an answer
  unless a vfork() has failed, and what was written is whole frames and at most a
  last header. `EndInv`, as long as none of the incidents (`Kept`) has happened: a
  command is in one place only (request pipes, main program, process table,
  `cmdSet`, answer pipes, past), numbers grow along the pipes, and a process, an
  element of `cmdSet` and the flag belong to each other; then an answer can only be
  about a command that was waited for. It is needed because the answer is made of
  `cmdSet`, which names a pid, and pids are used again. A request whose vfork() failed
  has ended for velo and stays open at velm (`Lost`, `Due`); the answer it is owed is
  under `eCmdExec_` somewhere on its way, and whatever is said of the place of that number
  has an exception (`Shared`, `Wrong`).
  `OnceInv`, as long as no session was left with commands open: a command's number
  is in one place only on its way from velm to velo and back (pipes, hand, `cmdSet`,
  one header, one answer, `confirms`). It says nothing of processes: the handler
  answers what the element of `cmdSet` says, so that a reused pid costs an answer
  but never makes two. A number that the failed vfork() of another request uses too
  (`Shared`) may be in two places, and is all that is exempt.
* `PktBuf_proofs`: `WInv` adds to `WaiterSound` that what the daemon has not read
  has no answer, that a client that is gone asks for nothing, and that clear() runs
  for a request that is not answered. The refinement of `PktLog`: the numbers
  `(rp + n) % (Size + 1)` are a turn around the ring (`PlaceOfSlot`), so that a read
  is `Tail`, a write with room `Append`, and a write over the oldest packet both.
  `DeliveredCorrect` has to follow a packet from the wire through the device, the
  buffer of receive() and the ring to its reader. `OrderInv`: read in that order, the
  peers' packets are numbered upwards, and all above `last`. `HeadInv`: while somebody
  waits for a packet, the ring holds only what comes from the buffer that receive() works
  on and begins with its first packet. `StepInv`: the queue of sent packets is what is
  still to come of the tools' own packets, unless it is out of step (`astray`), which is
  why a copy is recognised and never recorded.
* `VelTraffic_proofs`: `TInv` has five parts next to the types. `AtStep`: what velm
  waits for belongs to its statement and step. `Place`: a request is
  on its way, owed by its socket, or answered, and one of them only. `Pace`: as long
  as no send has failed, the packets that began a turnaround are the answers that
  were counted or given up, and one ahead. `Conn`: a connection is intact until the
  client is closed. `Xfer`: where each socket is between being told of a transfer and
  having answered it, and, over TCP, that the packets sent are those received and
  those on their way (`Carried`), which is why a transfer that has ended has lost
  nothing. `NeverAborts` needs more: that nothing but a close follows a close in a
  program (`CloseLast`, the assumption of that theorem), and `NInv`, that a socket
  which refuses a request has sent the report that explains it before.
* `VelManager_proofs`, with the invariants in `VelManagerInv`: four theorems, each on
  the one before. `IInv` joins the types
  and `StateInv`: a thread that has a request waits at its step, and has no other
  (`PlaceInv`); the tables have the keys that velm looks things up by (`KeyInv`);
  velm knows a socket only of a thread that is past the step which tells of it, and
  knows it once (`SocketInv`). `BarrierCorrect` refines `VelBarrier`: a member that an
  event waits for no longer stands at its sync statement until the event fires
  (`SyncInv`, in `PlaceInv`).
  `OwnSocketCorrect` needs that a thread has one thing under way, on its way to an
  agent, there, or on its way back (`TokenInv`, `ConnectionInv`, `KindInv`), because
  then an answer is about the statement its thread stands at. `Ref(a, f, t)` says that
  anybody names descriptor `f` of agent `a` as a socket of `t`: descriptors named for
  `t` were named before or are new (`RefInv`), and as long as nobody has closed
  anything what is named is open (`OpenInv`), so that no number is given out again.
  That is what the event of the property is for (`GateInv`): no thread has passed it
  before it fires and none stands before it afterwards, so that there are no closes
  while there are new sockets, and no new sockets while there are closes.
  `NoInternalErrorCorrect` adds, for as long as none of the excused incidents has
  happened, that what is under way at an agent has its request (`RequestInv`), and
  that every server that was asked for, is open or was reported has its entry in
  `listens_` under the request's number (`ListenInv`), and one that failed no open
  socket. Then every answer finds what it looks for.
* `VelManagerWake_proofs`: `WakeupCorrect` follows what velm waits for. `WakeInv`, on
  top of all of the above and for as long as nothing has gone wrong and no server of
  UDP shares its address (`Smooth`), has six parts. `WaitInv`: a thread that stands at
  a statement and is not about to run is at a delay, at an event that has not fired,
  or has a request. `DueInv`: a request is on its way to its agent, the agent works on
  it, or its answer is on its way back. `AcceptInv`: an accept waits for a connection
  that is in the backlog or reported, under the number of the entry in `listens_` that
  the report will find. `DialedInv`: when a client hears that it is connected, its
  connection is there for the accept that comes next. `ReadsInv` and `ClosedInv` say
  that only servers read and that a client closes only when it is asked to: a socket
  that works on a request is not closed under it.
  Writing the proof showed that the property was too strong. velm compares the addresses
  of servers without their protocol. With two servers of UDP and three of TCP at one
  address, the confirmations of the UDP servers take the entries of the TCP ones out
  of `listens_`, and an accept waits under the number of one server while its connection is
  reported by that of another. velm keeps the connection, the thread waits for ever,
  and nothing has been reported as an error: TLC shows it with five threads, in 36
  steps. The runs have two threads and do not reach it. `WakeupUnderWay` and
  `ScenarioEnds` now leave such servers out (`~SharedUdp`), as `NoInternalError` does.

Only model-checked: the liveness properties (`CloseIsServed`, `WaitEnds`,
`ThreadEnds`, `ScenarioEnds`, `RequestEnds`, and `AnsweredUnlessLost`, which needs
fairness too), which are out of the prover's reach. Every invariant and every safety
property of the steps that a run checks is stated by a theorem.

## Not modelled

* koid: memory exhaustion, freed memory that is reused at once, the double free
  after a failed bind(); TLS sessions; the SIP parser (text) and the parsers that
  pass every packet as one; DATAINFO and SOCKETINFO, which read the tables; short
  reads of commands; all acks but those of RECV; which of several ready sockets is
  served first.
* koid, streams: sizes are natural numbers, where the code has a short packet size
  (kParserDNS.c:103) and merges left data into 64 KiB without a check
  (kDispatcher.c:2407); the return when there is no parser (kDispatcher.c:2423). In
  KoiRecv a turn registers one message; that one read may hold several
  (kDispatcher.c:2438) is in KoiStream.
* koid, sockets: that a packet over UDP writes its sender's address over the
  destination of the entry (kDispatcher.c:2209), about whose UDP entries `SentToPeer`
  therefore says less than its name; the descriptor that a failed SIOCGIFADDR leaves
  open (kSocket.c:1010); the loop over several addresses of an interface.
* velm: the keyboard's wait and print statements and the start handshake with the
  agents; the requests that connect and transfer in one; the cancelling of a
  command (cmdCancelRequest); a connection between velm and an agent that is
  lost; the language of scenarios. A vel session in VelExec ends only when its
  requests have reached velo.
* vela: sends that fail with an error that is not retried; errors of recvfrom() over UDP;
  requests with a count or a length of 0; the timer of a
  TeClient that retries to connect and outlives it (TgServer.cc:121).
* velo: the element of `cmdSet` that an early end dereferences although none was found.
* The bytes of vela's stream after a torn answer: that it waits for the rest of a body in
  recvAll(), and serves nobody meanwhile, or gets an error and drops the connection.
* pktbuf: requests for status and the data link type; the answers' wire format; errors
  of read() and packets of the device read in pieces (PktRecv.cc:66): one read returns all
  it holds.
* v6eval's packet language (`lib/Pz`, `lib/Cm` and the compilers), the bulk of the
  repository's C++: functions from a definition file and a packet to bytes and
  verdicts, with no state that outlives a call. There is nothing for a state
  machine in it, and a transliteration of its expressions would be no shorter than
  they are; that is why the share of lines that the map covers is small.
* The Perl libraries and the tools around them, the test suites, LCNA. The reasons
  are with the components in `PROJECT.json`.

## Plan

Done, in this order: close timer and its agenda; the lists; messages and
waiting RECVs; streams; the socket table over descriptors; their proofs; vel:
commands, traffic, the manager; pktbuf; the proofs of VelExec, PktBuf and
VelTraffic; `ServedStays` and `SentToPeer` of KoiSocket, `AnsweredOnce` of VelExec,
and the proofs of VelManager; `FramedAsSent` and `RegisteredOrKept` of KoiStream for any
number of sockets, `DeliveredAsSent` of PktBuf and `WakeupUnderWay` of VelManager.

What is left:

1. The command channel of koid. The client library
   (`libdata/kCommon/kCommon.pm`) writes a command and reads one answer, told
   apart by its length and never by its request number; koid writes acks for
   CONNECT, SEND, LISTEN, CLOSE, FLUSH and RECV. To be checked: an answer
   belongs to the command that waits for it, a command is answered in the end,
   commands split over reads are reassembled.
2. The choice of the ready socket (`kSocketGetSelectedHandle` takes the first of
   the table): starvation of later sockets as a liveness question.
3. KoiSocket composed with KoiRecv: waiting RECVs keep the descriptor number of
   their client; acks written to a number that was given away.
4. An abstract message queue for KoiRecv (a set of unread messages per socket,
   RECV takes the least), refined where the lists are intact.
5. VelTraffic and VelManager composed: traffic statements on sockets that may be
   another thread's.
6. Theorems: that the two broken lists are intact as long as nothing is removed from
   their middle.
7. Pure functions: the short packet size of the parsers, the SIP framing.
