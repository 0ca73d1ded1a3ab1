------------------------------- MODULE PktBuf -------------------------------
(***************************************************************************)
(* The packet buffer daemon of v6eval (pktbuf): it records what the BPF    *)
(* device of an interface captures in a ring, leaves out what it sent      *)
(* itself, and serves the tools that send and receive packets.             *)
(*                                                                         *)
(* The daemon is one process: the handler of the device (BpfAgent), one    *)
(* agent per connected tool (PktServer), timers.  A handler runs to its    *)
(* end; the loops of the device's handler and of clear() are stepwise,     *)
(* because the network does not wait for them.                             *)
(***************************************************************************)
EXTENDS Integers, Sequences

CONSTANTS
  Clients,      \* the connections of tools, each of which is used once
  Nobody,
  Own,          \* what the tools send; the peers send numbered packets
  Asks,         \* for each client the requests it makes
  Size,         \* RunEnv::bufferSize
  Garbage,      \* what memory holds that nothing was written to
  MaxPeers,     \* bound on the packets of the peers
  MaxSent,      \* bound on what was sent and is outstanding
  MaxActs,      \* bound on the requests, failing writes, hidden copies and
                \* tools that leave
  MaxTime       \* bound on the clock

ASSUME SizeAssumption == Size \in Nat
ASSUME BoundsAssumption == MaxPeers \in Nat /\ MaxSent \in Nat
                           /\ MaxActs \in Nat /\ MaxTime \in Nat
ASSUME NobodyAssumption == Nobody \notin Clients
ASSUME OwnAssumption == Own \cap Nat = {}
ASSUME AsksAssumption ==
  \A c \in Clients : \A r \in Asks[c] :
    /\ r.op = "write" => r.id \in Own
    /\ r.op = "read" => r.deadline \in Int

VARIABLES
  wire,       \* sent packets that the interface has not transmitted yet
  bpf,        \* what the device holds for the daemon
  fifo,       \* what was sent and has not been seen again
  slot, wp, rp, mode,  \* Ringbuf, with offsets for its pointers
  running,    \* runStat_
  buffer, at, \* what receive() works on, and where it is; at = 0: it does not
  clearing,   \* the client in whose request clear() runs
  readwait,   \* readwait_
  timer,      \* of each agent the time of its timer, or -1
  conn,       \* "open", "left": gone, which the daemon does not know yet,
              \* "closed", "detached": its agent is no longer watched
  ask,        \* the request each client waits for, or NoAsk
  taken,      \* the daemon has read it
  inbox,      \* the answers to that request
  now, peers, acts,
  last,       \* the number of the last packet given to a reader
  astray,     \* what is in fifo, or was recorded, is not what it should be
  overlap     \* two clients have been reading at once

device == <<wire, bpf, fifo>>
ring == <<slot, wp, rp, mode>>
handler == <<buffer, at, clearing>>
tools == <<conn, ask, taken, inbox>>
waits == <<readwait, timer>>
counts == <<now, peers, acts>>
ghosts == <<last, astray, overlap>>

vars == <<device, ring, running, handler, tools, waits, counts, ghosts>>
-----------------------------------------------------------------------------
(* Ringbuf, with Size + 1 slots. *)

IsEmpty == wp = rp

\* Mutant: a ring that is full from the first slot to the last is not seen.
IsFull_NotAtEnd == rp - wp = 1

IsFull == rp - wp = 1 \/ wp = rp + Size

NextPoint(p) == IF p = Size THEN 0 ELSE p + 1

Datanum == IF wp >= rp THEN wp - rp ELSE wp - rp + Size + 1

\* Ringbuf::readn, for n = 0 also what read() finds.
Slot(n) == slot[(rp + n) % (Size + 1)]

\* What the ring holds, the oldest first.
Recorded == [i \in 1 .. Datanum |-> Slot(i - 1)]

\* Ringbuf::write.  mode_ is "wrap" only when the request has set it.
Write(p) ==
  IF IsFull /\ mode # "wrap" THEN UNCHANGED ring
  ELSE /\ slot' = [slot EXCEPT ![wp] = p]
       /\ wp' = NextPoint(wp)
       /\ rp' = IF IsFull THEN NextPoint(rp) ELSE rp
       /\ UNCHANGED mode

\* Ringbuf::read.
Pop == rp' = NextPoint(rp) /\ UNCHANGED <<slot, wp, mode>>
-----------------------------------------------------------------------------
(* Requests and answers. *)

NoAsk == [op |-> "none"]
NoPacket == [id |-> 0, time |-> 0]

\* The daemon is in its main loop.
Idle == at = 0 /\ clearing = Nobody

Asked(c) == ask[c] # NoAsk /\ ~taken[c]

\* The agent of c has read a read request and has not answered it.
Reads(c) == conn[c] # "closed" /\ ask[c].op = "read" /\ taken[c] /\ inbox[c] = <<>>

\* PktReceiver::response.
Response(c, result, packet) ==
  inbox' = [inbox EXCEPT ![c] =
              Append(@, [op |-> ask[c].op, result |-> result, packet |-> packet])]

\* The response as the end of a request: when it cannot be sent, as the client
\* has left, the main loop detaches the agent, which is then never deleted.
Answers(c, result, packet) ==
  /\ Response(c, result, packet)
  /\ conn' = [conn EXCEPT ![c] = IF @ = "left" THEN "detached" ELSE @]

\* A response with a packet, to a reader (readResponse).
Given(c, p) ==
  /\ Response(c, 0, p)
  /\ timer' = [timer EXCEPT ![c] = -1]
  /\ last' = IF p.id \in Nat THEN p.id ELSE last

\* The daemon with no request yet but, when r is true, one to capture.
Started(r) ==
  /\ wire = <<>> /\ bpf = <<>> /\ fifo = <<>>
  /\ slot = [i \in 0 .. Size |-> Garbage] /\ wp = 0 /\ rp = 0
  /\ mode \in {"wrap", "nowrap"}       \* the constructor does not set mode_
  /\ running = r
  /\ buffer = <<>> /\ at = 0 /\ clearing = Nobody
  /\ readwait = Nobody /\ timer = [c \in Clients |-> -1]
  /\ conn = [c \in Clients |-> "open"]
  /\ ask = [c \in Clients |-> NoAsk]
  /\ taken = [c \in Clients |-> FALSE]
  /\ inbox = [c \in Clients |-> <<>>]
  /\ now = 0 /\ peers = 0 /\ acts = 0
  /\ last = 0 /\ astray = FALSE /\ overlap = FALSE

Init == Started(FALSE)
-----------------------------------------------------------------------------
(* The network and the clock.  The loop over a buffer that was received does  *)
(* not look at what is outside: nothing else is taken up in the middle of it. *)

\* A packet of a peer is captured.
Arrives ==
  /\ at = 0 /\ peers < MaxPeers
  /\ peers' = peers + 1
  /\ bpf' = Append(bpf, [id |-> peers + 1, time |-> now])
  /\ UNCHANGED <<wire, fifo, ring, running, handler, tools, waits, now, acts, ghosts>>

\* The interface transmits a sent packet and the device captures the copy.
Transmitted ==
  /\ at = 0 /\ wire # <<>>
  /\ wire' = Tail(wire)
  /\ bpf' = Append(bpf, [Head(wire) EXCEPT !.time = now])
  /\ UNCHANGED <<fifo, ring, running, handler, tools, waits, counts, ghosts>>

\* The filter in the kernel takes IPv6 only, and does not show the copy.
Hidden ==
  /\ at = 0 /\ acts < MaxActs /\ wire # <<>>
  /\ acts' = acts + 1
  /\ wire' = Tail(wire)
  /\ astray' = TRUE
  /\ UNCHANGED <<bpf, fifo, ring, running, handler, tools, waits, now, peers, last, overlap>>

Tick ==
  /\ at = 0 /\ now < MaxTime
  /\ now' = now + 1
  /\ UNCHANGED <<device, ring, running, handler, tools, waits, peers, acts, ghosts>>
-----------------------------------------------------------------------------
(* The tools. *)

\* What a tool asks for after an answer; a dump that has more goes on.
Requests(c) ==
  IF inbox[c] # <<>> /\ inbox[c][1].op = "dump" /\ inbox[c][1].result # 0
  THEN {[op |-> "dump", n |-> inbox[c][1].result]} ELSE Asks[c]

\* A request of a tool that has none, or has read the answer to its last one.
Ask(c) ==
  /\ at = 0 /\ conn[c] = "open" /\ (ask[c] = NoAsk \/ inbox[c] # <<>>)
  /\ \E r \in Requests(c) :
       /\ r.op = "write" => Len(fifo) < MaxSent /\ Len(wire) < MaxSent
       /\ ask' = [ask EXCEPT ![c] = r]
  /\ acts < MaxActs /\ acts' = acts + 1
  /\ taken' = [taken EXCEPT ![c] = FALSE]
  /\ inbox' = [inbox EXCEPT ![c] = <<>>]
  /\ UNCHANGED <<device, ring, running, handler, conn, waits, now, peers, ghosts>>

\* The tool ends, or is killed; what it asked for is still in the socket.
Leave(c) ==
  /\ at = 0 /\ conn[c] = "open"
  /\ conn' = [conn EXCEPT ![c] = "left"]
  /\ acts < MaxActs /\ acts' = acts + 1
  /\ UNCHANGED <<device, ring, running, handler, ask, taken, inbox, waits, now, peers, ghosts>>
-----------------------------------------------------------------------------
(* PktServer: one action per request. *)

Takes(c, op) ==
  /\ Idle /\ Asked(c) /\ ask[c].op = op
  /\ taken' = [taken EXCEPT ![c] = TRUE]
  /\ UNCHANGED ask

TooLate(c) == ask[c].deadline >= 0 /\ Slot(0).time > ask[c].deadline

\* Mutant: only the first that waits gets a timer.
Deadline_First(c) == IF readwait = Nobody THEN ask[c].deadline ELSE -1

Deadline(c) == ask[c].deadline

\* readRequest on an empty ring: the agent registers as the one that waits,
\* whoever is registered, and sets its timer if there is a deadline.
ReadWaits(c) ==
  /\ Takes(c, "read") /\ IsEmpty
  /\ readwait' = c
  /\ timer' = [timer EXCEPT ![c] = Deadline(c)]
  /\ overlap' = (overlap \/ \E d \in Clients \ {c} : Reads(d))
  /\ UNCHANGED <<device, ring, running, handler, conn, inbox, counts, last, astray>>

ReadTooLate(c) ==
  /\ Takes(c, "read") /\ ~IsEmpty /\ TooLate(c)
  /\ Answers(c, 2, NoPacket)
  /\ UNCHANGED <<device, ring, running, handler, waits, counts, ghosts>>

ReadGiven(c) ==
  /\ Takes(c, "read") /\ ~IsEmpty /\ ~TooLate(c)
  /\ Pop
  /\ Given(c, Slot(0))
  /\ conn' = [conn EXCEPT ![c] = IF @ = "left" THEN "detached" ELSE @]
  /\ UNCHANGED <<device, running, handler, readwait, counts, astray, overlap>>

\* writeRequest: the answer says 0 also when the write has failed.
WriteRequest(c) ==
  /\ Takes(c, "write")
  /\ fifo' = Append(fifo, ask[c].id)
  /\ Answers(c, 0, NoPacket)
  /\ \/ /\ wire' = Append(wire, [id |-> ask[c].id, time |-> 0])
        /\ UNCHANGED <<acts, astray>>
     \/ /\ acts < MaxActs /\ acts' = acts + 1
        /\ astray' = TRUE
        /\ UNCHANGED wire
  /\ UNCHANGED <<bpf, ring, running, handler, waits, now, peers, last, overlap>>

\* capture: the device is flushed, with the copies that are still in it.
CaptureRequest(c) ==
  /\ Takes(c, "capture")
  /\ running' = TRUE
  /\ bpf' = <<>>
  /\ astray' = (astray \/ \E i \in DOMAIN bpf : bpf[i].id \in Own)
  /\ Answers(c, 0, NoPacket)
  /\ UNCHANGED <<wire, fifo, ring, handler, waits, counts, last, overlap>>

StopRequest(c) ==
  /\ Takes(c, "stop")
  /\ running' = FALSE
  /\ Answers(c, 0, NoPacket)
  /\ UNCHANGED <<device, ring, handler, waits, counts, ghosts>>

\* wrapRequest and nowrapRequest.
ModeRequest(c) ==
  \E m \in {"wrap", "nowrap"} :
    /\ Takes(c, m)
    /\ mode' = m
    /\ Answers(c, 0, NoPacket)
    /\ UNCHANGED <<device, slot, wp, rp, running, handler, waits, counts, ghosts>>

\* dumpRequest: the packet with the given number, and the number of the next
\* one; the number is not compared with what the ring holds.
DumpRequest(c) ==
  /\ Takes(c, "dump")
  /\ IF IsEmpty THEN Answers(c, 0, NoPacket)
     ELSE Answers(c, IF ask[c].n + 1 >= Datanum THEN 0 ELSE ask[c].n + 1, Slot(ask[c].n))
  /\ UNCHANGED <<device, ring, running, handler, waits, counts, ghosts>>

\* clearRequest, which goes on in ClearLoop.
ClearRequest(c) ==
  /\ Takes(c, "clear")
  /\ clearing' = c
  /\ UNCHANGED <<device, ring, running, buffer, at, conn, inbox, waits, counts, ghosts>>

\* Mutant: the agent is deleted and stays registered.
Deregistered_Not(c) == readwait

\* The destructor of PktServer.
Deregistered(c) == IF readwait = c THEN Nobody ELSE readwait

\* The end of the connection is read (PktServer::terminate).
Terminate(c) ==
  /\ Idle /\ conn[c] = "left" /\ ~Asked(c)
  /\ conn' = [conn EXCEPT ![c] = "closed"]
  /\ ask' = [ask EXCEPT ![c] = NoAsk]
  /\ taken' = [taken EXCEPT ![c] = FALSE]
  /\ inbox' = [inbox EXCEPT ![c] = <<>>]
  /\ readwait' = Deregistered(c)
  /\ timer' = [timer EXCEPT ![c] = -1]
  /\ UNCHANGED <<device, ring, running, handler, counts, ghosts>>

\* timeout: whoever is registered is no longer.
Timeout(c) ==
  /\ Idle /\ timer[c] # -1 /\ timer[c] <= now
  /\ timer' = [timer EXCEPT ![c] = -1]
  /\ readwait' = Nobody
  /\ Response(c, 2, NoPacket)
  /\ UNCHANGED <<device, ring, running, handler, conn, ask, taken, counts, ghosts>>
-----------------------------------------------------------------------------
(* BpfAgent. *)

\* receive reads all that the device holds.
Receive ==
  /\ Idle /\ bpf # <<>>
  /\ buffer' = bpf /\ bpf' = <<>> /\ at' = 1
  /\ UNCHANGED <<wire, fifo, ring, running, clearing, tools, waits, counts, ghosts>>

IsCopy(p) == fifo # <<>> /\ Head(fifo) = p.id

\* One turn of the loop of receive and nonblock_receive.
FilterOne ==
  /\ at \in 1 .. Len(buffer)
  /\ at' = at + 1
  /\ IF IsCopy(buffer[at]) THEN fifo' = Tail(fifo) /\ UNCHANGED ring
     ELSE /\ UNCHANGED fifo
          /\ IF running THEN Write(buffer[at]) ELSE UNCHANGED ring
  /\ UNCHANGED <<wire, bpf, running, buffer, clearing, tools, waits, counts, ghosts>>

\* Mutant: the last packet that was received is handed out.
FirstOfBuffer_Last == IF buffer = <<>> THEN Garbage ELSE buffer[Len(buffer)]

\* The packet at the start of the buffer, which receive() hands to readydata.
FirstOfBuffer == IF buffer = <<>> THEN Garbage ELSE buffer[1]

Answered == Nobody

\* The end of receive and nonblock_receive: if anything is recorded, the
\* agent that waits is given the first packet of the buffer, and the oldest
\* one is taken from the ring (PktBuf::readydata).
ReadyData ==
  /\ at > Len(buffer)
  /\ at' = 0 /\ buffer' = <<>>
  /\ IF ~IsEmpty /\ readwait # Nobody
     THEN /\ Pop
          /\ Given(readwait, FirstOfBuffer)
          /\ readwait' = Answered
     ELSE UNCHANGED <<ring, inbox, waits, last>>
  /\ UNCHANGED <<device, running, clearing, conn, ask, taken, counts, astray, overlap>>

\* The loop of clear(): nonblock_receive until nothing sent is outstanding.
ClearReceives ==
  /\ clearing # Nobody /\ at = 0 /\ fifo # <<>> /\ bpf # <<>>
  /\ buffer' = bpf /\ bpf' = <<>> /\ at' = 1
  /\ UNCHANGED <<wire, fifo, ring, running, clearing, tools, waits, counts, ghosts>>

\* ... with nothing to receive the first one is given up.
ClearGivesUp ==
  /\ clearing # Nobody /\ at = 0 /\ fifo # <<>> /\ bpf = <<>>
  /\ fifo' = Tail(fifo)
  /\ at' = 1 /\ UNCHANGED buffer
  /\ astray' = (astray \/ wire # <<>>)
  /\ UNCHANGED <<wire, bpf, ring, running, clearing, tools, waits, counts, last, overlap>>

\* The end of clear().
ClearEnds ==
  /\ clearing # Nobody /\ at = 0 /\ fifo = <<>>
  /\ wp' = 0 /\ rp' = 0 /\ UNCHANGED <<slot, mode>>
  /\ bpf' = <<>>
  /\ Answers(clearing, 0, NoPacket)
  /\ clearing' = Nobody
  /\ astray' = (wire # <<>>)
  /\ UNCHANGED <<wire, fifo, running, buffer, at, ask, taken, waits, counts, last, overlap>>
-----------------------------------------------------------------------------
Serve(c) ==
  \/ ReadWaits(c) \/ ReadTooLate(c) \/ ReadGiven(c)
  \/ WriteRequest(c) \/ CaptureRequest(c) \/ StopRequest(c) \/ ModeRequest(c)
  \/ DumpRequest(c) \/ ClearRequest(c)

\* What the main loop does for the agent of c.
Agent(c) == Serve(c) \/ Terminate(c) \/ Timeout(c)

\* What a handler of the device or clear() does next.
Device == FilterOne \/ ReadyData \/ ClearReceives \/ ClearGivesUp \/ ClearEnds

Network == Arrives \/ Transmitted \/ Hidden \/ Tick

Tool(c) == Ask(c) \/ Leave(c)

Next ==
  \/ Network \/ Receive \/ Device
  \/ \E c \in Clients : Agent(c) \/ Tool(c)

Spec == Init /\ [][Next]_vars

\* A handler runs to its end; every turn of the main loop serves every ready
\* descriptor and every timer that is due; what is sent is transmitted, time
\* goes on.
Fairness ==
  /\ WF_vars(Device) /\ WF_vars(Receive)
  /\ \A c \in Clients : WF_vars(Agent(c))
  /\ WF_vars(Transmitted) /\ WF_vars(Tick)

FairSpec == Spec /\ Fairness
-----------------------------------------------------------------------------
(* Properties *)

Packets == [id : Own \union 1 .. MaxPeers, time : 0 .. MaxTime]

TypeOK ==
  /\ wire \in Seq(Packets) /\ bpf \in Seq(Packets) /\ buffer \in Seq(Packets)
  /\ fifo \in Seq(Own)
  /\ slot \in [0 .. Size -> Packets \union {Garbage}]
  /\ wp \in 0 .. Size /\ rp \in 0 .. Size /\ mode \in {"wrap", "nowrap"}
  /\ running \in BOOLEAN /\ at \in 0 .. Len(buffer) + 1
  /\ clearing \in Clients \union {Nobody} /\ readwait \in Clients \union {Nobody}
  /\ timer \in [Clients -> Int]
  /\ conn \in [Clients -> {"closed", "open", "left", "detached"}]
  /\ taken \in [Clients -> BOOLEAN]
  /\ now \in 0 .. MaxTime /\ peers \in 0 .. MaxPeers /\ acts \in 0 .. MaxActs
  /\ last \in Nat /\ astray \in BOOLEAN /\ overlap \in BOOLEAN

\* readwait_ points to an agent that exists and whose read is unanswered, and
\* nobody is registered while there is something to read.
RegisteredReads ==
  readwait # Nobody => Reads(readwait) /\ (at = 0 => IsEmpty)

\* A timer runs only for an agent that exists and whose read is unanswered.
TimersRead == \A c \in Clients : timer[c] # -1 => Reads(c)

\* A request is answered once, and with its own answer.
AnsweredOnce ==
  \A c \in Clients : inbox[c] # <<>> =>
    taken[c] /\ Len(inbox[c]) = 1 /\ inbox[c][1].op = ask[c].op

\* As long as no two clients read at once, one that reads is registered: it
\* is given the next packet.
SoleReaderRegistered ==
  ~overlap => \A c \in Clients : Reads(c) => readwait = c

WaiterSound == RegisteredReads /\ TimersRead /\ AnsweredOnce /\ SoleReaderRegistered

\* The buffer that receive() works on starts with a copy of what was sent.
Mixed == at # 0 /\ buffer # <<>> /\ buffer[1].id \in Own

\* The packet that a reader is given is the oldest recorded one, it comes from
\* a peer, and it is newer than all that were given before.  Not so when the
\* queue of sent packets is out of step with the device, which the next clear
\* mends; when a copy is at the start of a buffer for which somebody waits;
\* and when that buffer holds more than the ring, in wrap mode.
DeliveredAsSent ==
  [][\A c \in Clients :
       (inbox[c] = <<>> /\ inbox'[c] # <<>> /\ inbox'[c][1].op = "read" /\ inbox'[c][1].result = 0) =>
         LET p == inbox'[c][1].packet
         IN  \/ astray \/ Mixed \/ (mode = "wrap" /\ Len(buffer) > Size)
             \/ /\ p = Head(Recorded)
                /\ p.id \in Nat /\ p.id > last]_vars

\* A request waits for the daemon, or is a read that waits for its deadline.
Waits(c) ==
  /\ conn[c] = "open" /\ ask[c] # NoAsk /\ inbox[c] = <<>>
  /\ ask[c].op = "read" => ask[c].deadline >= 0

\* Every request is answered, a read at its deadline, whatever the other
\* clients ask for and the network does.
RequestEnds == \A c \in Clients : Waits(c) ~> ~Waits(c)

Log == INSTANCE PktLog WITH log <- Recorded, wrap <- mode = "wrap",
                           clearing <- clearing # Nobody

\* The slots and the two pointers of the ring are a bounded queue.
ImplementsLog == Log!Spec
=============================================================================
