--------------------------- MODULE PktBuf_proofs ---------------------------
(***************************************************************************)
(* That the waiting of readers in the packet buffer is sound, that the     *)
(* ring is a bounded queue, and that readers are given what was sent in    *)
(* its order, for any number of tools and requests and any size of the     *)
(* ring.                                                                   *)
(***************************************************************************)
EXTENDS PktBuf, SequenceTheorems, TLAPS

\* The tables are indexed by the clients.
Shape ==
  /\ at \in Nat
  /\ readwait \in Clients \union {Nobody} /\ clearing \in Clients \union {Nobody}
  /\ timer = [c \in Clients |-> timer[c]] /\ conn = [c \in Clients |-> conn[c]]
  /\ ask = [c \in Clients |-> ask[c]] /\ inbox = [c \in Clients |-> inbox[c]]
  /\ taken \in [Clients -> BOOLEAN]

\* What was not read has no answer, a client that is gone asks for nothing, and
\* the request in which clear() runs is one for it, and is not answered.
Fresh == \A c \in Clients : ~taken[c] => inbox[c] = <<>>
GoneAsksNothing == \A c \in Clients : conn[c] = "closed" => ask[c] = NoAsk
ClearWaits ==
  clearing # Nobody => taken[clearing] /\ ask[clearing].op = "clear" /\ inbox[clearing] = <<>>

WInv == Shape /\ Fresh /\ GoneAsksNothing /\ ClearWaits /\ WaiterSound

LEMMA OneAnswer ==
  ASSUME NEW x
  PROVE  Append(<<>>, x) # <<>> /\ Len(Append(<<>>, x)) = 1 /\ Append(<<>>, x)[1] = x
<1>1. Append(<<>>, x) = <<x>>
  OBVIOUS
<1> QED BY <1>1

\* Steps of the network and of the handlers that leave waiting alone.
LEMMA Quiet ==
  ASSUME WInv, UNCHANGED <<tools, waits, clearing, overlap>>, at' \in Nat,
         readwait # Nobody /\ at' = 0 => IsEmpty'
  PROVE  WInv'
<1> USE DEF tools, waits
<1>1. Shape' BY DEF WInv, Shape
<1>2. Fresh' /\ GoneAsksNothing' /\ ClearWaits'
  BY DEF WInv, Fresh, GoneAsksNothing, ClearWaits
<1>3. \A c \in Clients \union {Nobody} : Reads(c)' <=> Reads(c)
  BY DEF Reads
<1>4. RegisteredReads' /\ TimersRead' /\ AnsweredOnce' /\ SoleReaderRegistered'
  BY <1>3 DEF WInv, Shape, WaiterSound, RegisteredReads, TimersRead, AnsweredOnce, SoleReaderRegistered
<1> QED BY <1>1, <1>2, <1>4 DEF WInv, WaiterSound

LEMMA NetworkStep == ASSUME WInv, Network PROVE WInv'
<1>1. UNCHANGED <<tools, waits, clearing, at, ring, overlap>>
  BY DEF Network, Arrives, Transmitted, Hidden, Tick, handler, ghosts
<1>2. at' \in Nat BY <1>1 DEF WInv, Shape
<1>3. readwait # Nobody /\ at' = 0 => IsEmpty'
  BY <1>1 DEF WInv, WaiterSound, RegisteredReads, IsEmpty, ring
<1> QED BY <1>1, <1>2, <1>3, Quiet

LEMMA ReceiveStep == ASSUME WInv, Receive \/ ClearReceives \/ ClearGivesUp \/ FilterOne PROVE WInv'
<1>1. UNCHANGED <<tools, waits, clearing, overlap>>
  BY DEF Receive, ClearReceives, ClearGivesUp, FilterOne, ghosts
<1>2. at' \in Nat /\ at' # 0
  BY DEF WInv, Shape, Receive, ClearReceives, ClearGivesUp, FilterOne
<1> QED BY <1>1, <1>2, Quiet

\* The answer to a request that was not answered yet, of a client that is not
\* registered and has no timer.
LEMMA AnswerStep ==
  ASSUME WInv, NEW c \in Clients, NEW r, NEW p, inbox[c] = <<>>, ask[c] # NoAsk,
         taken' = [taken EXCEPT ![c] = TRUE],
         ~Reads(c), Answers(c, r, p), UNCHANGED <<ask, waits, overlap, at>>,
         clearing' = Nobody,
         readwait # Nobody /\ at' = 0 => IsEmpty'
  PROVE  WInv'
<1> USE DEF waits
<1>1. /\ inbox' = [inbox EXCEPT ![c] = Append(@, [op |-> ask[c].op, result |-> r, packet |-> p])]
      /\ conn' = [conn EXCEPT ![c] = IF @ = "left" THEN "detached" ELSE @]
  BY DEF Answers, Response
<1>2. /\ taken' \in [Clients -> BOOLEAN] /\ taken'[c]
      /\ \A d \in Clients \ {c} : taken'[d] = taken[d]
  BY DEF WInv, Shape
<1>3. /\ inbox'[c] # <<>> /\ Len(inbox'[c]) = 1 /\ inbox'[c][1].op = ask[c].op
      /\ \A d \in Clients \ {c} : inbox'[d] = inbox[d]
  BY <1>1, OneAnswer DEF WInv, Shape
<1>4. \A d \in Clients : conn'[d] = "closed" <=> conn[d] = "closed"
  BY <1>1 DEF WInv, Shape
<1>5. Shape' BY <1>1, <1>2 DEF WInv, Shape
<1>6. Fresh' BY <1>2, <1>3 DEF WInv, Fresh
<1>7. GoneAsksNothing' BY <1>4 DEF WInv, GoneAsksNothing
<1>8. ClearWaits' BY <1>2, <1>3 DEF WInv, Shape, ClearWaits
<1>9. \A d \in Clients : Reads(d)' <=> Reads(d)
  BY <1>2, <1>3, <1>4 DEF Reads
<1>10. RegisteredReads' /\ TimersRead' /\ SoleReaderRegistered'
  BY <1>9 DEF WInv, Shape, WaiterSound, RegisteredReads, TimersRead, SoleReaderRegistered
<1>11. AnsweredOnce'
  BY <1>2, <1>3 DEF WInv, WaiterSound, AnsweredOnce
<1> QED BY <1>5, <1>6, <1>7, <1>8, <1>10, <1>11 DEF WInv, WaiterSound

\* The requests that are answered at once and leave the ring alone.
LEMMA RequestStep ==
  ASSUME WInv, NEW c \in Clients,
         ReadTooLate(c) \/ WriteRequest(c) \/ CaptureRequest(c) \/ StopRequest(c)
           \/ ModeRequest(c) \/ DumpRequest(c)
  PROVE  WInv'
<1>1. /\ Idle /\ Asked(c) /\ taken' = [taken EXCEPT ![c] = TRUE]
      /\ UNCHANGED <<ask, waits, overlap, at, clearing, wp, rp>>
      /\ \E r, p : Answers(c, r, p)
  BY DEF ReadTooLate, WriteRequest, CaptureRequest, StopRequest, ModeRequest, DumpRequest,
         Takes, ring, handler, ghosts
<1>2. inbox[c] = <<>> /\ ask[c] # NoAsk /\ ~Reads(c)
  BY <1>1 DEF WInv, Fresh, Asked, Reads
<1>3. readwait # Nobody /\ at' = 0 => IsEmpty'
  BY <1>1 DEF WInv, WaiterSound, RegisteredReads, IsEmpty
<1>4. clearing' = Nobody
  BY <1>1 DEF Idle
<1> QED BY <1>1, <1>2, <1>3, <1>4, AnswerStep

LEMMA ClearEndsStep == ASSUME WInv, ClearEnds PROVE WInv'
<1>1. /\ clearing \in Clients /\ taken[clearing] /\ inbox[clearing] = <<>>
      /\ ask[clearing].op = "clear"
  BY DEF ClearEnds, WInv, Shape, ClearWaits
<1>2. ask[clearing] # NoAsk /\ ~Reads(clearing)
  BY <1>1 DEF NoAsk, Reads
<1>3. /\ UNCHANGED <<ask, waits, overlap, at>> /\ clearing' = Nobody
      /\ taken' = [taken EXCEPT ![clearing] = TRUE]
      /\ Answers(clearing, 0, NoPacket) /\ wp' = rp'
  BY <1>1 DEF ClearEnds, WInv, Shape
<1>4. IsEmpty' BY <1>3 DEF IsEmpty
<1> QED BY <1>1, <1>2, <1>3, <1>4, AnswerStep

\* A reader registers: nobody else reads, or two overlap from now on.
LEMMA ReadWaitsStep == ASSUME WInv, NEW c \in Clients, ReadWaits(c) PROVE WInv'
<1>1. /\ Idle /\ Asked(c) /\ ask[c].op = "read" /\ taken' = [taken EXCEPT ![c] = TRUE]
      /\ UNCHANGED <<ask, conn, inbox, at, clearing, wp, rp>> /\ IsEmpty
      /\ readwait' = c /\ timer' = [timer EXCEPT ![c] = Deadline(c)]
      /\ overlap' = (overlap \/ \E d \in Clients \ {c} : Reads(d))
  BY DEF ReadWaits, Takes, ring, handler
<1>2. inbox[c] = <<>> /\ conn[c] # "closed" /\ IsEmpty'
  BY <1>1 DEF WInv, Fresh, GoneAsksNothing, Asked, IsEmpty
<1>3. Shape' /\ Fresh' /\ GoneAsksNothing' /\ ClearWaits'
  BY <1>1, <1>2 DEF WInv, Shape, Fresh, GoneAsksNothing, ClearWaits, Idle
<1>4. taken'[c] /\ \A d \in Clients \ {c} : taken'[d] = taken[d] /\ timer'[d] = timer[d]
  BY <1>1 DEF WInv, Shape
<1>5. Reads(c)' /\ \A d \in Clients \ {c} : Reads(d)' <=> Reads(d)
  BY <1>1, <1>2, <1>4 DEF Reads
<1>6. RegisteredReads' /\ TimersRead' /\ SoleReaderRegistered'
  BY <1>1, <1>2, <1>4, <1>5
  DEF WInv, WaiterSound, RegisteredReads, TimersRead, SoleReaderRegistered
<1>7. AnsweredOnce'
  BY <1>1, <1>2, <1>4 DEF WInv, WaiterSound, AnsweredOnce
<1> QED BY <1>3, <1>6, <1>7 DEF WInv, WaiterSound

\* A response to a client whose request has none: after it the client does not
\* read, and the others read as before.
LEMMA ResponseGiven ==
  ASSUME WInv, NEW c \in Clients, NEW r, NEW p, inbox[c] = <<>>, Response(c, r, p),
         UNCHANGED ask,
         \A d \in Clients : conn'[d] = "closed" <=> conn[d] = "closed",
         taken'[c], \A d \in Clients \ {c} : taken'[d] = taken[d]
  PROVE  /\ inbox' = [d \in Clients |-> inbox'[d]] /\ inbox'[c] # <<>>
         /\ \A d \in Clients \ {c} : inbox'[d] = inbox[d]
         /\ ~Reads(c)' /\ \A d \in Clients \ {c} : Reads(d)' <=> Reads(d)
         /\ Fresh' /\ GoneAsksNothing' /\ AnsweredOnce'
<1>1. inbox' = [inbox EXCEPT ![c] = Append(@, [op |-> ask[c].op, result |-> r, packet |-> p])]
  BY DEF Response
<1>2. /\ inbox'[c] # <<>> /\ Len(inbox'[c]) = 1 /\ inbox'[c][1].op = ask[c].op
      /\ \A d \in Clients \ {c} : inbox'[d] = inbox[d]
  BY <1>1, OneAnswer DEF WInv, Shape
<1>3. inbox' = [d \in Clients |-> inbox'[d]]
  BY <1>1 DEF WInv, Shape
<1>4. ~Reads(c)' /\ \A d \in Clients \ {c} : Reads(d)' <=> Reads(d)
  BY <1>2 DEF Reads
<1>5. Fresh' /\ GoneAsksNothing'
  BY <1>2 DEF WInv, Fresh, GoneAsksNothing
<1>6. AnsweredOnce'
  BY <1>2 DEF WInv, WaiterSound, AnsweredOnce
<1> QED BY <1>2, <1>3, <1>4, <1>5, <1>6

LEMMA ReadGivenStep == ASSUME WInv, NEW c \in Clients, ReadGiven(c) PROVE WInv'
<1>1. /\ Idle /\ Asked(c) /\ taken' = [taken EXCEPT ![c] = TRUE] /\ ~IsEmpty
      /\ UNCHANGED <<ask, at, clearing, readwait, overlap>>
      /\ Response(c, 0, Slot(0)) /\ timer' = [timer EXCEPT ![c] = -1]
      /\ conn' = [conn EXCEPT ![c] = IF @ = "left" THEN "detached" ELSE @]
  BY DEF ReadGiven, Takes, Given, handler
<1>2. inbox[c] = <<>> /\ readwait = Nobody
  BY <1>1 DEF WInv, Fresh, Asked, Idle, WaiterSound, RegisteredReads
<1>3. taken'[c] /\ \A d \in Clients \ {c} : taken'[d] = taken[d] /\ timer'[d] = timer[d]
  BY <1>1 DEF WInv, Shape
<1>4. \A d \in Clients : conn'[d] = "closed" <=> conn[d] = "closed"
  BY <1>1 DEF WInv, Shape
<1>5. /\ inbox' = [d \in Clients |-> inbox'[d]] /\ ~Reads(c)'
      /\ \A d \in Clients \ {c} : Reads(d)' <=> Reads(d)
      /\ Fresh' /\ GoneAsksNothing' /\ AnsweredOnce'
  BY <1>1, <1>2, <1>3, <1>4, ResponseGiven
<1>6. Shape' /\ ClearWaits'
  BY <1>1, <1>5 DEF WInv, Shape, ClearWaits, Idle
<1>7. timer'[c] = -1 BY <1>1 DEF WInv, Shape
<1>8. RegisteredReads' /\ TimersRead' /\ SoleReaderRegistered'
  BY <1>1, <1>2, <1>3, <1>5, <1>7
  DEF WInv, WaiterSound, RegisteredReads, TimersRead, SoleReaderRegistered
<1> QED BY <1>5, <1>6, <1>8 DEF WInv, WaiterSound

\* The agent whose timer expires reads, and nobody is registered after it: if
\* nobody overlapped it was the one.
LEMMA TimeoutStep == ASSUME WInv, NEW c \in Clients, Timeout(c) PROVE WInv'
<1>1. /\ Idle /\ timer[c] # -1 /\ readwait' = Nobody
      /\ UNCHANGED <<ask, taken, conn, at, clearing, overlap>>
      /\ Response(c, 2, NoPacket) /\ timer' = [timer EXCEPT ![c] = -1]
  BY DEF Timeout, handler, ghosts
<1>2. Reads(c) /\ inbox[c] = <<>> /\ taken[c]
  BY <1>1 DEF WInv, WaiterSound, TimersRead, Reads
<1>3. timer'[c] = -1 /\ \A d \in Clients \ {c} : timer'[d] = timer[d]
  BY <1>1 DEF WInv, Shape
<1>4. /\ inbox' = [d \in Clients |-> inbox'[d]] /\ ~Reads(c)'
      /\ \A d \in Clients \ {c} : Reads(d)' <=> Reads(d)
      /\ Fresh' /\ GoneAsksNothing' /\ AnsweredOnce'
  BY <1>1, <1>2, ResponseGiven
<1>5. Shape' /\ ClearWaits'
  BY <1>1, <1>4 DEF WInv, Shape, ClearWaits, Idle
<1>6. SoleReaderRegistered'
  BY <1>1, <1>2, <1>4 DEF WInv, WaiterSound, SoleReaderRegistered
<1>7. RegisteredReads' /\ TimersRead'
  BY <1>1, <1>3, <1>4 DEF WInv, WaiterSound, RegisteredReads, TimersRead
<1> QED BY <1>4, <1>5, <1>6, <1>7 DEF WInv, WaiterSound

LEMMA ReadyDataStep == ASSUME WInv, ReadyData PROVE WInv'
<1>1. /\ UNCHANGED <<clearing, conn, ask, taken, overlap>> /\ at' = 0
  BY DEF ReadyData
<1>2. CASE ~(~IsEmpty /\ readwait # Nobody)
  <2>1. UNCHANGED <<tools, waits, clearing, overlap, wp, rp>>
    BY <1>1, <1>2 DEF ReadyData, tools, ring
  <2>2. readwait # Nobody /\ at' = 0 => IsEmpty'
    BY <1>2, <2>1 DEF IsEmpty
  <2> QED BY <1>1, <2>1, <2>2, Quiet
<1>3. CASE ~IsEmpty /\ readwait # Nobody
  <2>1. PICK c \in Clients : c = readwait
    BY <1>3 DEF WInv, Shape
  <2>2. Reads(c) /\ inbox[c] = <<>> /\ taken[c]
    BY <1>3, <2>1 DEF WInv, WaiterSound, RegisteredReads, Reads
  <2>3. /\ Response(c, 0, FirstOfBuffer) /\ timer' = [timer EXCEPT ![c] = -1]
        /\ readwait' = Nobody
    BY <1>3, <2>1 DEF ReadyData, Given, Answered
  <2>4. timer'[c] = -1 /\ \A d \in Clients \ {c} : timer'[d] = timer[d]
    BY <2>3 DEF WInv, Shape
  <2>5. /\ inbox' = [d \in Clients |-> inbox'[d]] /\ inbox'[c] # <<>> /\ ~Reads(c)'
        /\ \A d \in Clients \ {c} : inbox'[d] = inbox[d] /\ (Reads(d)' <=> Reads(d))
        /\ Fresh' /\ GoneAsksNothing' /\ AnsweredOnce'
    BY <1>1, <2>2, <2>3, ResponseGiven
  <2>6. Shape' BY <1>1, <2>3, <2>5 DEF WInv, Shape
  <2>7. ClearWaits'
    BY <1>1, <2>2, <2>5 DEF WInv, Shape, ClearWaits, Reads
  <2>8. SoleReaderRegistered'
    BY <1>1, <2>1, <2>5 DEF WInv, WaiterSound, SoleReaderRegistered
  <2>9. RegisteredReads' /\ TimersRead'
    BY <2>3, <2>4, <2>5 DEF WInv, WaiterSound, RegisteredReads, TimersRead
  <2> QED BY <2>5, <2>6, <2>7, <2>8, <2>9 DEF WInv, WaiterSound
<1> QED BY <1>2, <1>3

\* A client that has no open request neither reads nor waits for clear().
LEMMA Settled ==
  ASSUME WInv, NEW c \in Clients, ask[c] = NoAsk \/ inbox[c] # <<>>
  PROVE  ~Reads(c) /\ readwait # c /\ timer[c] = -1 /\ clearing # c
<1>1. ~Reads(c) BY DEF Reads, NoAsk
<1>2. clearing # c BY NobodyAssumption DEF WInv, ClearWaits, NoAsk
<1>3. readwait # c /\ timer[c] = -1
  BY <1>1, NobodyAssumption DEF WInv, WaiterSound, RegisteredReads, TimersRead
<1> QED BY <1>1, <1>2, <1>3

LEMMA AskStep == ASSUME WInv, NEW c \in Clients, Ask(c) PROVE WInv'
<1>1. PICK r : ask' = [ask EXCEPT ![c] = r]
  BY DEF Ask
<1>2. /\ conn[c] = "open" /\ (ask[c] = NoAsk \/ inbox[c] # <<>>)
      /\ taken' = [taken EXCEPT ![c] = FALSE] /\ inbox' = [inbox EXCEPT ![c] = <<>>]
      /\ UNCHANGED <<conn, waits, at, clearing, overlap, wp, rp>>
  BY DEF Ask, handler, ghosts, ring
<1>3. readwait # c /\ timer[c] = -1 /\ clearing # c
  BY <1>2, Settled
<1>4. /\ taken'[c] = FALSE /\ inbox'[c] = <<>>
      /\ \A d \in Clients \ {c} : taken'[d] = taken[d] /\ inbox'[d] = inbox[d] /\ ask'[d] = ask[d]
  BY <1>1, <1>2 DEF WInv, Shape
<1>5. Shape' BY <1>1, <1>2 DEF WInv, Shape, waits
<1>6. Fresh' /\ GoneAsksNothing' /\ ClearWaits'
  BY <1>2, <1>3, <1>4 DEF WInv, Shape, Fresh, GoneAsksNothing, ClearWaits
<1>7. ~Reads(c)' /\ \A d \in Clients \ {c} : Reads(d)' <=> Reads(d)
  BY <1>2, <1>4 DEF Reads
<1>8. AnsweredOnce' BY <1>4 DEF WInv, WaiterSound, AnsweredOnce
<1>9. RegisteredReads' /\ TimersRead' /\ SoleReaderRegistered'
  BY <1>2, <1>3, <1>7
  DEF WInv, Shape, WaiterSound, RegisteredReads, TimersRead, SoleReaderRegistered, IsEmpty, waits
<1> QED BY <1>5, <1>6, <1>8, <1>9 DEF WInv, WaiterSound

LEMMA LeaveStep == ASSUME WInv, NEW c \in Clients, Leave(c) PROVE WInv'
<1>1. /\ conn[c] = "open" /\ conn' = [conn EXCEPT ![c] = "left"]
      /\ UNCHANGED <<ask, taken, inbox, waits, at, clearing, overlap, wp, rp>>
  BY DEF Leave, handler, ghosts, ring
<1>2. \A d \in Clients : conn'[d] = "closed" <=> conn[d] = "closed"
  BY <1>1 DEF WInv, Shape
<1>3. \A d \in Clients : Reads(d)' <=> Reads(d)
  BY <1>1, <1>2 DEF Reads
<1>4. Shape' BY <1>1 DEF WInv, Shape, waits
<1>5. Fresh' /\ GoneAsksNothing' /\ ClearWaits' /\ AnsweredOnce'
  BY <1>1, <1>2 DEF WInv, Shape, Fresh, GoneAsksNothing, ClearWaits, WaiterSound, AnsweredOnce
<1>6. RegisteredReads' /\ TimersRead' /\ SoleReaderRegistered'
  BY <1>1, <1>3
  DEF WInv, Shape, WaiterSound, RegisteredReads, TimersRead, SoleReaderRegistered, IsEmpty, waits
<1> QED BY <1>4, <1>5, <1>6 DEF WInv, WaiterSound

LEMMA ClearRequestStep == ASSUME WInv, NEW c \in Clients, ClearRequest(c) PROVE WInv'
<1>1. /\ Asked(c) /\ ask[c].op = "clear" /\ taken' = [taken EXCEPT ![c] = TRUE] /\ clearing' = c
      /\ UNCHANGED <<ask, conn, inbox, waits, at, overlap, wp, rp>>
  BY DEF ClearRequest, Takes, ghosts, ring
<1>2. inbox[c] = <<>> BY <1>1 DEF WInv, Fresh, Asked
<1>3. taken'[c] /\ \A d \in Clients \ {c} : taken'[d] = taken[d]
  BY <1>1 DEF WInv, Shape
<1>4. Shape' BY <1>1 DEF WInv, Shape, waits
<1>5. Fresh' /\ GoneAsksNothing' /\ ClearWaits' /\ AnsweredOnce'
  BY <1>1, <1>2, <1>3 DEF WInv, Fresh, GoneAsksNothing, ClearWaits, WaiterSound, AnsweredOnce
<1>6. \A d \in Clients : Reads(d)' <=> Reads(d)
  BY <1>1, <1>3 DEF Reads, Asked
<1>7. RegisteredReads' /\ TimersRead' /\ SoleReaderRegistered'
  BY <1>1, <1>6
  DEF WInv, Shape, WaiterSound, RegisteredReads, TimersRead, SoleReaderRegistered, IsEmpty, waits
<1> QED BY <1>4, <1>5, <1>7 DEF WInv, WaiterSound

LEMMA TerminateStep == ASSUME WInv, NEW c \in Clients, Terminate(c) PROVE WInv'
<1>1. /\ Idle /\ conn' = [conn EXCEPT ![c] = "closed"] /\ ask' = [ask EXCEPT ![c] = NoAsk]
      /\ taken' = [taken EXCEPT ![c] = FALSE] /\ inbox' = [inbox EXCEPT ![c] = <<>>]
      /\ readwait' = IF readwait = c THEN Nobody ELSE readwait
      /\ timer' = [timer EXCEPT ![c] = -1] /\ UNCHANGED <<at, clearing, overlap, wp, rp>>
  BY DEF Terminate, Deregistered, handler, ghosts, ring
<1>2. /\ ask'[c] = NoAsk /\ ~taken'[c] /\ inbox'[c] = <<>> /\ timer'[c] = -1
      /\ \A d \in Clients \ {c} :
           /\ conn'[d] = conn[d] /\ ask'[d] = ask[d] /\ taken'[d] = taken[d]
           /\ inbox'[d] = inbox[d] /\ timer'[d] = timer[d]
  BY <1>1 DEF WInv, Shape
<1>3. Shape' BY <1>1 DEF WInv, Shape
<1>4. Fresh' /\ GoneAsksNothing' /\ ClearWaits' /\ AnsweredOnce'
  BY <1>1, <1>2 DEF WInv, Fresh, GoneAsksNothing, ClearWaits, WaiterSound, AnsweredOnce, Idle
<1>5. ~Reads(c)' /\ \A d \in Clients \ {c} : Reads(d)' <=> Reads(d)
  BY <1>2 DEF Reads
<1>6. RegisteredReads' /\ TimersRead' /\ SoleReaderRegistered'
  BY <1>1, <1>2, <1>5, NobodyAssumption
  DEF WInv, Shape, WaiterSound, RegisteredReads, TimersRead, SoleReaderRegistered, IsEmpty
<1> QED BY <1>3, <1>4, <1>6 DEF WInv, WaiterSound

LEMMA InitWaits == Init => WInv
<1> SUFFICES ASSUME Init PROVE WInv OBVIOUS
<1>1. \A c \in Clients : ~Reads(c) BY DEF Init, Started, Reads
<1>2. Shape BY DEF Init, Started, Shape
<1>3. Fresh /\ GoneAsksNothing /\ ClearWaits
  BY DEF Init, Started, Fresh, GoneAsksNothing, ClearWaits
<1>4. WaiterSound
  BY <1>1 DEF Init, Started, WaiterSound, RegisteredReads, TimersRead, AnsweredOnce, SoleReaderRegistered
<1> QED BY <1>2, <1>3, <1>4 DEF WInv

LEMMA StepWaits == WInv /\ [Next]_vars => WInv'
<1> SUFFICES ASSUME WInv, [Next]_vars PROVE WInv' OBVIOUS
<1>1. CASE UNCHANGED vars
  <2>1. UNCHANGED <<tools, waits, clearing, overlap, at, ring>>
    BY <1>1 DEF vars, handler, ghosts
  <2>2. at' \in Nat /\ (readwait # Nobody /\ at' = 0 => IsEmpty')
    BY <2>1 DEF WInv, Shape, WaiterSound, RegisteredReads, IsEmpty, ring
  <2> QED BY <2>1, <2>2, Quiet
<1>2. CASE Network BY <1>2, NetworkStep
<1>3. CASE Receive BY <1>3, ReceiveStep
<1>4. CASE Device BY <1>4, ReceiveStep, ReadyDataStep, ClearEndsStep DEF Device
<1>5. ASSUME NEW c \in Clients, Agent(c) PROVE WInv'
  BY <1>5, RequestStep, ReadWaitsStep, ReadGivenStep, ClearRequestStep, TerminateStep, TimeoutStep
  DEF Agent, Serve
<1>6. ASSUME NEW c \in Clients, Tool(c) PROVE WInv'
  BY <1>6, AskStep, LeaveStep DEF Tool
<1> QED BY <1>1, <1>2, <1>3, <1>4, <1>5, <1>6 DEF Next

\* readwait_ and the timers name only agents that exist and whose read is not
\* answered, a request is answered once, and one that reads alone is registered.
THEOREM WaiterCorrect == Spec => []WaiterSound
<1>1. WInv => WaiterSound BY DEF WInv
<1> QED BY <1>1, InitWaits, StepWaits, PTL DEF Spec

-----------------------------------------------------------------------------
(* The ring *)

\* A turn around the ring.
Place(r, n) == IF r + n <= Size THEN r + n ELSE r + n - (Size + 1)

Contents == Packets \union {Garbage}

RingOK ==
  /\ slot \in [0 .. Size -> Contents] /\ wp \in 0 .. Size /\ rp \in 0 .. Size

LEMMA ModSmall == ASSUME NEW m \in Nat \ {0}, NEW x \in 0 .. m - 1 PROVE x % m = x
OBVIOUS

LEMMA ModLarge == ASSUME NEW m \in Nat \ {0}, NEW x \in m .. 2 * m - 1 PROVE x % m = x - m
OBVIOUS

LEMMA PlaceOfSlot ==
  ASSUME NEW r \in 0 .. Size, NEW n \in 0 .. Size
  PROVE  (r + n) % (Size + 1) = Place(r, n) /\ Place(r, n) \in 0 .. Size
<1> DEFINE m == Size + 1
<1>1. m \in Nat \ {0} BY SizeAssumption
<1>2. CASE r + n <= Size
  <2>1. r + n \in 0 .. m - 1 BY <1>2, SizeAssumption
  <2>2. (r + n) % m = r + n BY <1>1, <2>1, ModSmall
  <2> QED BY <1>2, <2>1, <2>2 DEF Place
<1>3. CASE ~(r + n <= Size)
  <2>1. r + n \in m .. 2 * m - 1 BY <1>3, SizeAssumption
  <2>2. (r + n) % m = r + n - m BY <1>1, <2>1, ModLarge
  <2>3. r + n - m \in 0 .. Size BY <2>1, SizeAssumption
  <2> QED BY <1>3, <2>2, <2>3 DEF Place
<1> QED BY <1>2, <1>3

LEMMA DatanumType ==
  ASSUME RingOK
  PROVE  /\ Datanum \in 0 .. Size /\ (IsEmpty <=> Datanum = 0)
         /\ (IsFull <=> Datanum = Size)
BY SizeAssumption DEF RingOK, Datanum, IsEmpty, IsFull

\* What is recorded, slot by slot.
RecordedSlots ==
  /\ Recorded \in Seq(Contents) /\ Len(Recorded) = Datanum
  /\ \A i \in 1 .. Datanum : Recorded[i] = slot[Place(rp, i - 1)]

LEMMA RecordedType == RingOK => RecordedSlots
<1> SUFFICES ASSUME RingOK PROVE RecordedSlots OBVIOUS
<1>1. Datanum \in 0 .. Size BY DatanumType
<1>2. \A i \in 1 .. Datanum : i - 1 \in 0 .. Size
  BY <1>1, SizeAssumption
<1>3. \A i \in 1 .. Datanum : Slot(i - 1) = slot[Place(rp, i - 1)] /\ Slot(i - 1) \in Contents
  BY <1>2, PlaceOfSlot DEF RingOK, Slot
<1>4. Recorded \in [1 .. Datanum -> Contents]
  BY <1>3 DEF Recorded
<1>5. Datanum \in Nat BY <1>1, SizeAssumption
<1>6. Recorded \in Seq(Contents) /\ Len(Recorded) = Datanum
  BY <1>4, <1>5
<1>7. \A i \in 1 .. Datanum : Recorded[i] = slot[Place(rp, i - 1)]
  BY <1>3 DEF Recorded
<1> QED BY <1>6, <1>7 DEF RecordedSlots

LEMMA NextPointType == ASSUME NEW p \in 0 .. Size PROVE NextPoint(p) \in 0 .. Size
BY SizeAssumption DEF NextPoint

\* The read pointer moves on by one.
LEMMA PlaceNext ==
  ASSUME NEW r \in 0 .. Size, NEW n \in 0 .. Size - 1
  PROVE  Place(NextPoint(r), n) = Place(r, n + 1)
BY SizeAssumption DEF Place, NextPoint

LEMMA Popped ==
  ASSUME RingOK, ~IsEmpty, Pop
  PROVE  RingOK' /\ Recorded # <<>> /\ Recorded' = Tail(Recorded)
<1>1. RingOK' BY NextPointType DEF Pop, RingOK
<1>2. /\ Datanum \in 1 .. Size /\ Datanum' = Datanum - 1
  BY SizeAssumption DEF RingOK, IsEmpty, Pop, Datanum, NextPoint
<1>3. RecordedSlots BY RecordedType
<1>4. RecordedSlots' BY <1>1, RecordedType, PTL
<1>5. Recorded # <<>> BY <1>2, <1>3, EmptySeq DEF RecordedSlots
<1>6. /\ Tail(Recorded) \in Seq(Contents) /\ Len(Tail(Recorded)) = Datanum - 1
      /\ \A i \in 1 .. Datanum - 1 : Tail(Recorded)[i] = Recorded[i + 1]
  BY <1>3, <1>5, HeadTailProperties DEF RecordedSlots
<1>7. ASSUME NEW i \in 1 .. Datanum - 1
      PROVE  Recorded'[i] = Tail(Recorded)[i]
  <2>1. i - 1 \in 0 .. Size - 1 /\ i + 1 \in 1 .. Datanum /\ (i - 1) + 1 = i /\ (i + 1) - 1 = i
    BY <1>2, SizeAssumption
  <2>2. Place(rp', i - 1) = Place(rp, i)
    BY <2>1, PlaceNext DEF Pop, RingOK
  <2>3. Recorded[i + 1] = slot[Place(rp, i)]
    BY <1>3, <2>1 DEF RecordedSlots
  <2>4. Recorded'[i] = slot[Place(rp, i)]
    BY <1>2, <1>4, <2>2 DEF Pop, RecordedSlots
  <2> QED BY <1>6, <2>3, <2>4
<1>8. Recorded' = Tail(Recorded)
  BY <1>2, <1>3, <1>4, <1>6, <1>7, SeqEqual DEF RecordedSlots
<1> QED BY <1>1, <1>5, <1>8

\* Writing where there is room.
LEMMA Written ==
  ASSUME RingOK, ~IsFull, NEW p \in Contents, Write(p)
  PROVE  RingOK' /\ Len(Recorded) < Size /\ Recorded' = Append(Recorded, p)
<1>1. slot' = [slot EXCEPT ![wp] = p] /\ wp' = NextPoint(wp) /\ rp' = rp
  BY DEF Write
<1>2. RingOK' BY <1>1, NextPointType DEF RingOK
<1>3. Datanum \in 0 .. Size - 1 /\ Datanum' = Datanum + 1 /\ Place(rp, Datanum) = wp
  BY <1>1, SizeAssumption DEF RingOK, IsFull, Datanum, NextPoint, Place
<1>4. RecordedSlots BY RecordedType
<1>5. RecordedSlots' BY <1>2, RecordedType, PTL
<1>6. /\ Append(Recorded, p) \in Seq(Contents) /\ Len(Append(Recorded, p)) = Datanum + 1
      /\ \A i \in 1 .. Datanum : Append(Recorded, p)[i] = Recorded[i]
      /\ Append(Recorded, p)[Datanum + 1] = p
  BY <1>4, AppendProperties DEF RecordedSlots
<1>7. ASSUME NEW i \in 1 .. Datanum PROVE Recorded'[i] = Append(Recorded, p)[i]
  <2>1. i \in 1 .. Datanum + 1 /\ i - 1 \in 0 .. Size
    BY <1>3, SizeAssumption
  <2>2. Place(rp, i - 1) \in 0 .. Size /\ Place(rp, i - 1) # wp
    BY <1>3, SizeAssumption DEF Place, RingOK
  <2>3. Recorded'[i] = slot'[Place(rp, i - 1)]
    BY <1>1, <1>3, <1>5, <2>1 DEF RecordedSlots
  <2>4. slot'[Place(rp, i - 1)] = slot[Place(rp, i - 1)]
    BY <1>1, <2>2 DEF RingOK
  <2> QED BY <1>4, <1>6, <2>3, <2>4 DEF RecordedSlots
<1>8. Recorded'[Datanum + 1] = p
  <2>1. Datanum + 1 \in 1 .. Datanum + 1 /\ (Datanum + 1) - 1 = Datanum
    BY <1>3, SizeAssumption
  <2>2. Recorded'[Datanum + 1] = slot'[Place(rp, Datanum)]
    BY <1>1, <1>3, <1>5, <2>1 DEF RecordedSlots
  <2> QED BY <1>1, <1>3, <2>2 DEF RingOK
<1>9. \A i \in 1 .. Datanum + 1 : i \in 1 .. Datanum \/ i = Datanum + 1
  BY <1>3, SizeAssumption
<1>10. \A i \in 1 .. Datanum + 1 : Recorded'[i] = Append(Recorded, p)[i]
  BY <1>6, <1>7, <1>8, <1>9
<1>11. Recorded' = Append(Recorded, p)
  BY <1>3, <1>5, <1>6, <1>10, SeqEqual DEF RecordedSlots
<1>12. Len(Recorded) < Size BY <1>3, <1>4, SizeAssumption DEF RecordedSlots
<1> QED BY <1>2, <1>11, <1>12

\* Writing over the oldest packet of a full ring.
LEMMA Overwritten ==
  ASSUME RingOK, IsFull, mode = "wrap", NEW p \in Contents, Write(p)
  PROVE  RingOK' /\ Len(Recorded) = Size /\ Recorded' = Tail(Append(Recorded, p))
<1>1. slot' = [slot EXCEPT ![wp] = p] /\ wp' = NextPoint(wp) /\ rp' = NextPoint(rp)
  BY DEF Write
<1>2. RingOK' BY <1>1, NextPointType DEF RingOK
<1>3. Datanum = Size /\ Datanum' = Size /\ Place(rp, Size) = wp
  BY <1>1, SizeAssumption DEF RingOK, IsFull, Datanum, NextPoint, Place
<1>4. RecordedSlots BY RecordedType
<1>5. RecordedSlots' BY <1>2, RecordedType, PTL
<1>6. /\ Append(Recorded, p) \in Seq(Contents) /\ Append(Recorded, p) # <<>>
      /\ Len(Append(Recorded, p)) = Size + 1
      /\ \A i \in 1 .. Size : Append(Recorded, p)[i] = Recorded[i]
      /\ Append(Recorded, p)[Size + 1] = p
  BY <1>3, <1>4, AppendProperties DEF RecordedSlots
<1> DEFINE t == Tail(Append(Recorded, p))
<1>7. t \in Seq(Contents) /\ Len(t) = Size /\ \A i \in 1 .. Size : t[i] = Append(Recorded, p)[i + 1]
  <2>1. /\ t \in Seq(Contents) /\ Len(t) = Len(Append(Recorded, p)) - 1
        /\ \A i \in 1 .. Len(t) : t[i] = Append(Recorded, p)[i + 1]
    BY <1>6, HeadTailProperties
  <2> QED BY <1>6, <2>1, SizeAssumption
<1>8. ASSUME NEW i \in 1 .. Size PROVE Recorded'[i] = t[i]
  <2>1. i - 1 \in 0 .. Size - 1 /\ i \in 0 .. Size /\ (i - 1) + 1 = i
    BY SizeAssumption
  <2>2. Recorded'[i] = slot'[Place(rp, i)]
    BY <1>1, <1>3, <1>5, <2>1, PlaceNext DEF RingOK, RecordedSlots
  <2>3. CASE i = Size
    BY <1>1, <1>3, <1>6, <1>7, <2>2, <2>3 DEF RingOK
  <2>4. CASE i # Size
    <3>1. Place(rp, i) \in 0 .. Size /\ Place(rp, i) # wp
      BY <1>3, <2>1, <2>4, SizeAssumption DEF Place, RingOK
    <3>2. slot'[Place(rp, i)] = slot[Place(rp, i)]
      BY <1>1, <3>1 DEF RingOK
    <3>3. i + 1 \in 1 .. Size /\ (i + 1) - 1 = i
      BY <2>4, SizeAssumption
    <3> QED BY <1>3, <1>4, <1>6, <1>7, <2>2, <3>2, <3>3 DEF RecordedSlots
  <2> QED BY <2>3, <2>4
<1>9. Recorded' = t
  BY <1>3, <1>5, <1>7, <1>8, SeqEqual DEF RecordedSlots
<1> QED BY <1>2, <1>3, <1>4, <1>9 DEF RecordedSlots

-----------------------------------------------------------------------------
(* That the daemon implements PktLog *)

\* What is on its way to the ring are packets, and what tools write is theirs.
Data ==
  /\ wire \in Seq(Packets) /\ bpf \in Seq(Packets) /\ buffer \in Seq(Packets)
  /\ now \in 0 .. MaxTime /\ peers \in 0 .. MaxPeers

AsksTyped ==
  \A c \in Clients :
    /\ ask[c].op = "write" => ask[c].id \in Own
    /\ ask[c].op = "read" => ask[c].deadline \in Int

PInv == RingOK /\ mode \in {"wrap", "nowrap"} /\ Data /\ AsksTyped

Maps == PInv' /\ [Log!Next]_Log!vars

\* Steps that leave the ring and clear() alone.
LEMMA LogStutters ==
  ASSUME PInv, Data', AsksTyped', UNCHANGED <<ring, clearing>>
  PROVE  Maps
<1>1. UNCHANGED <<slot, wp, rp, mode, clearing>> BY DEF ring
<1>2. RingOK' /\ mode' \in {"wrap", "nowrap"}
  BY <1>1 DEF PInv, RingOK
<1>3. Recorded' = Recorded BY <1>1 DEF Recorded, Datanum, Slot
<1>4. UNCHANGED Log!vars BY <1>1, <1>3 DEF Log!vars
<1> QED BY <1>2, <1>4 DEF Maps, PInv

LEMMA StampedPacket ==
  ASSUME NEW p \in Packets, NEW t \in 0 .. MaxTime
  PROVE  [p EXCEPT !.time = t] \in Packets
BY DEF Packets

LEMMA NetworkData == ASSUME PInv, Network PROVE Data'
<1>1. UNCHANGED <<ring, clearing, ask, buffer>>
  BY DEF Network, Arrives, Transmitted, Hidden, Tick, handler, tools
<1>2. CASE Arrives
  <2>1. peers' = peers + 1 /\ peers' \in 1 .. MaxPeers /\ peers' \in 0 .. MaxPeers
    BY <1>2, BoundsAssumption DEF Arrives, PInv, Data
  <2>2. [id |-> peers + 1, time |-> now] \in Packets
    BY <2>1 DEF PInv, Data, Packets
  <2>3. bpf' \in Seq(Packets) /\ UNCHANGED <<wire, now>>
    BY <1>2, <2>2, AppendProperties DEF Arrives, PInv, Data
  <2> QED BY <1>1, <2>1, <2>3 DEF PInv, Data
<1>3. CASE Transmitted
  <2>1. Head(wire) \in Packets /\ Tail(wire) \in Seq(Packets)
    BY <1>3, HeadTailProperties DEF Transmitted, PInv, Data
  <2>2. [Head(wire) EXCEPT !.time = now] \in Packets
    BY <2>1, StampedPacket DEF PInv, Data
  <2>3. wire' \in Seq(Packets) /\ bpf' \in Seq(Packets)
    BY <1>3, <2>1, <2>2, AppendProperties DEF Transmitted, PInv, Data
  <2> QED BY <1>1, <1>3, <2>3 DEF Transmitted, PInv, Data, counts
<1>4. CASE Hidden
  <2>1. Tail(wire) \in Seq(Packets)
    BY <1>4, HeadTailProperties DEF Hidden, PInv, Data
  <2> QED BY <1>1, <1>4, <2>1 DEF Hidden, PInv, Data
<1>5. CASE Tick
  <2>1. now' \in 0 .. MaxTime
    BY <1>5, BoundsAssumption DEF Tick, PInv, Data
  <2> QED BY <1>1, <1>5, <2>1 DEF Tick, PInv, Data, device
<1> QED BY <1>2, <1>3, <1>4, <1>5 DEF Network

LEMMA NetworkMaps == ASSUME PInv, Network PROVE Maps
<1>1. UNCHANGED <<ring, clearing, ask>>
  BY DEF Network, Arrives, Transmitted, Hidden, Tick, handler, tools
<1>2. AsksTyped' BY <1>1 DEF PInv, AsksTyped
<1> QED BY <1>1, <1>2, NetworkData, LogStutters

\* Handing the device's packets to a handler, and giving one up.
LEMMA ReceiveMaps == ASSUME PInv, Receive \/ ClearReceives \/ ClearGivesUp PROVE Maps
<1>1. UNCHANGED <<ring, clearing, ask>>
  BY DEF Receive, ClearReceives, ClearGivesUp, tools
<1>2. <<>> \in Seq(Packets) OBVIOUS
<1>3. Data'
  BY <1>2 DEF Receive, ClearReceives, ClearGivesUp, PInv, Data, counts
<1>4. AsksTyped' BY <1>1 DEF PInv, AsksTyped
<1> QED BY <1>1, <1>3, <1>4, LogStutters

\* A request that is answered leaves what is asked for alone.
LEMMA RequestMaps ==
  ASSUME PInv, NEW c \in Clients,
         ReadWaits(c) \/ ReadTooLate(c) \/ WriteRequest(c) \/ CaptureRequest(c)
           \/ StopRequest(c) \/ DumpRequest(c)
  PROVE  Maps
<1>1. UNCHANGED <<ring, clearing, ask, buffer, now, peers>>
  BY DEF ReadWaits, ReadTooLate, WriteRequest, CaptureRequest, StopRequest, DumpRequest,
         Takes, handler, counts
<1>2. bpf' = bpf \/ bpf' = <<>>
  BY DEF ReadWaits, ReadTooLate, WriteRequest, CaptureRequest, StopRequest, DumpRequest,
         device
<1>3. wire' \in Seq(Packets)
  <2>1. CASE WriteRequest(c)
    <3>1. ask[c].id \in Own /\ 0 \in 0 .. MaxTime
      BY <2>1, BoundsAssumption DEF WriteRequest, Takes, PInv, AsksTyped
    <3>2. [id |-> ask[c].id, time |-> 0] \in Packets
      BY <3>1 DEF Packets
    <3>3. wire' = Append(wire, [id |-> ask[c].id, time |-> 0]) \/ wire' = wire
      BY <2>1 DEF WriteRequest
    <3>4. wire \in Seq(Packets) BY DEF PInv, Data
    <3>5. Append(wire, [id |-> ask[c].id, time |-> 0]) \in Seq(Packets)
      BY <3>2, <3>4, AppendProperties
    <3> QED BY <3>3, <3>4, <3>5
  <2>2. CASE ~WriteRequest(c)
    BY <2>2 DEF ReadWaits, ReadTooLate, CaptureRequest, StopRequest, DumpRequest,
                PInv, Data, device
  <2> QED BY <2>1, <2>2
<1>4. <<>> \in Seq(Packets) OBVIOUS
<1>5. Data' BY <1>1, <1>2, <1>3, <1>4 DEF PInv, Data
<1>6. AsksTyped' BY <1>1 DEF PInv, AsksTyped
<1> QED BY <1>1, <1>5, <1>6, LogStutters

\* The tools and the end of a connection.
LEMMA ToolMaps ==
  ASSUME WInv, PInv, NEW c \in Clients, Ask(c) \/ Leave(c) \/ Terminate(c) \/ Timeout(c)
  PROVE  Maps
<1>1. UNCHANGED <<ring, clearing, device, buffer, now, peers>>
  BY DEF Ask, Leave, Terminate, Timeout, handler, counts
<1>2. Data' BY <1>1 DEF PInv, Data, device
<1>3. AsksTyped'
  <2>1. CASE Ask(c)
    <3>1. PICK r \in Requests(c) : ask' = [ask EXCEPT ![c] = r]
      BY <2>1 DEF Ask
    <3>2. (r.op = "write" => r.id \in Own) /\ (r.op = "read" => r.deadline \in Int)
      BY <3>1, AsksAssumption DEF Requests
    <3> QED BY <3>1, <3>2 DEF PInv, AsksTyped, WInv, Shape
  <2>2. CASE Terminate(c)
    BY <2>2 DEF Terminate, NoAsk, PInv, AsksTyped, WInv, Shape
  <2>3. CASE Leave(c) \/ Timeout(c)
    BY <2>3 DEF Leave, Timeout, PInv, AsksTyped
  <2> QED BY <2>1, <2>2, <2>3
<1> QED BY <1>1, <1>2, <1>3, LogStutters

\* The steps that change the log: one of the packets of the buffer is recorded,
LEMMA FilterMaps == ASSUME PInv, FilterOne PROVE Maps
<1>1. UNCHANGED <<wire, bpf, buffer, clearing, ask, now, peers>>
  BY DEF FilterOne, tools, counts
<1>2. Data' /\ AsksTyped' BY <1>1 DEF PInv, Data, AsksTyped
<1>3. CASE UNCHANGED ring
  BY <1>1, <1>2, <1>3, LogStutters
<1>4. CASE ~UNCHANGED ring
  <2> DEFINE p == buffer[at]
  <2>1. p \in Packets /\ p \in Contents /\ Write(p)
    BY <1>4 DEF FilterOne, PInv, Data, Contents
  <2>2. ~(IsFull /\ mode # "wrap") /\ mode' = mode
    BY <1>4, <2>1 DEF Write
  <2>3. RingOK' /\ Recorded' = IF Len(Recorded) < Size THEN Append(Recorded, p)
                               ELSE IF mode = "wrap" THEN Tail(Append(Recorded, p)) ELSE Recorded
    <3>1. CASE ~IsFull
      BY <2>1, <3>1, Written DEF PInv
    <3>2. CASE IsFull
      BY <2>1, <2>2, <3>2, Overwritten, SizeAssumption DEF PInv
    <3> QED BY <3>1, <3>2
  <2>4. Log!Record(p)
    BY <1>1, <2>2, <2>3 DEF Log!Record
  <2> QED BY <1>2, <2>1, <2>2, <2>3, <2>4 DEF Maps, PInv, Log!Next
<1> QED BY <1>3, <1>4

\* the oldest one is given to a reader,
LEMMA PopMaps ==
  ASSUME PInv, Data', AsksTyped', UNCHANGED clearing, ~IsEmpty, Pop
  PROVE  Maps
<1>1. RingOK' /\ Recorded # <<>> /\ Recorded' = Tail(Recorded) /\ mode' = mode
  BY Popped DEF PInv, Pop
<1>2. Log!Take BY <1>1 DEF Log!Take
<1> QED BY <1>1, <1>2 DEF Maps, PInv, Log!Next

LEMMA ReadMaps ==
  ASSUME PInv, NEW c \in Clients, ReadGiven(c)
  PROVE  Maps
<1>1. UNCHANGED <<device, buffer, clearing, ask, now, peers>> /\ ~IsEmpty /\ Pop
  BY DEF ReadGiven, Takes, handler, counts
<1>2. Data' /\ AsksTyped' BY <1>1 DEF PInv, Data, AsksTyped, device
<1> QED BY <1>1, <1>2, PopMaps

LEMMA ReadyDataMaps == ASSUME PInv, ReadyData PROVE Maps
<1>1. UNCHANGED <<device, clearing, ask, now, peers>> /\ buffer' = <<>>
  BY DEF ReadyData, counts
<1>2. Data' /\ AsksTyped' BY <1>1 DEF PInv, Data, AsksTyped, device
<1>3. CASE ~IsEmpty /\ readwait # Nobody
  <2>1. Pop BY <1>3 DEF ReadyData
  <2> QED BY <1>1, <1>2, <1>3, <2>1, PopMaps
<1>4. CASE ~(~IsEmpty /\ readwait # Nobody)
  <2>1. UNCHANGED ring BY <1>4 DEF ReadyData
  <2> QED BY <1>1, <1>2, <2>1, LogStutters
<1> QED BY <1>3, <1>4

\* the mode is set,
LEMMA ModeMaps == ASSUME PInv, NEW c \in Clients, ModeRequest(c) PROVE Maps
<1>1. /\ UNCHANGED <<device, slot, wp, rp, buffer, clearing, ask, now, peers>>
      /\ mode' \in {"wrap", "nowrap"}
  BY DEF ModeRequest, Takes, handler, counts
<1>2. PInv' BY <1>1 DEF PInv, RingOK, Data, AsksTyped, device
<1>3. Recorded' = Recorded BY <1>1 DEF Recorded, Datanum, Slot
<1>4. Log!SetMode BY <1>1, <1>3 DEF Log!SetMode
<1> QED BY <1>2, <1>4 DEF Maps, Log!Next

\* and clear() starts and ends.
LEMMA ClearMaps ==
  ASSUME PInv, ClearEnds \/ \E c \in Clients : ClearRequest(c)
  PROVE  Maps
<1>1. CASE ClearEnds
  <2>1. /\ UNCHANGED <<wire, buffer, ask, now, peers, slot, mode>> /\ bpf' = <<>>
        /\ wp' = 0 /\ rp' = 0 /\ clearing # Nobody /\ clearing' = Nobody
    BY <1>1 DEF ClearEnds, counts
  <2>2. PInv' BY <2>1, SizeAssumption DEF PInv, RingOK, Data, AsksTyped
  <2>3. RingOK' BY <2>2 DEF PInv
  <2>4. RecordedSlots' BY <2>3, RecordedType, PTL
  <2>5. Datanum' = 0 BY <2>1 DEF Datanum
  <2>6. Recorded' = <<>> BY <2>4, <2>5, EmptySeq DEF RecordedSlots
  <2>7. Log!Clear BY <2>1, <2>6 DEF Log!Clear
  <2> QED BY <2>2, <2>7 DEF Maps, Log!Next
<1>2. CASE \E c \in Clients : ClearRequest(c)
  <2>1. PICK c \in Clients : ClearRequest(c) BY <1>2
  <2>2. /\ UNCHANGED <<device, ring, buffer, ask, now, peers>>
        /\ clearing = Nobody /\ clearing' # Nobody
    BY <2>1, NobodyAssumption DEF ClearRequest, Takes, Idle, counts
  <2>3. PInv' BY <2>2 DEF PInv, RingOK, Data, AsksTyped, device, ring
  <2>4. Recorded' = Recorded /\ mode' = mode
    BY <2>2 DEF Recorded, Datanum, Slot, ring
  <2>5. Log!StartClear BY <2>2, <2>4 DEF Log!StartClear
  <2> QED BY <2>3, <2>5 DEF Maps, Log!Next
<1> QED BY <1>1, <1>2

LEMMA InitMaps == Init => PInv /\ Log!Init
<1> SUFFICES ASSUME Init PROVE PInv /\ Log!Init OBVIOUS
<1>1. RingOK BY SizeAssumption DEF Init, Started, RingOK, Contents
<1>2. Data BY BoundsAssumption DEF Init, Started, Data
<1>3. AsksTyped BY DEF Init, Started, AsksTyped, NoAsk
<1>4. PInv BY <1>1, <1>2, <1>3 DEF PInv, Init, Started
<1>5. Datanum = 0 BY SizeAssumption DEF Init, Started, Datanum
<1>6. Recorded = <<>>
  BY <1>1, <1>5, RecordedType, EmptySeq DEF RecordedSlots
<1> QED BY <1>4, <1>6 DEF Log!Init, Init, Started

LEMMA StepMaps == WInv /\ PInv /\ [Next]_vars => Maps
<1> SUFFICES ASSUME WInv, PInv, [Next]_vars PROVE Maps OBVIOUS
<1>1. CASE UNCHANGED vars
  <2>1. UNCHANGED <<ring, clearing, wire, bpf, buffer, now, peers, ask>>
    BY <1>1 DEF vars, handler, device, tools, counts
  <2>2. Data' /\ AsksTyped' BY <2>1 DEF PInv, Data, AsksTyped
  <2> QED BY <2>1, <2>2, LogStutters
<1>2. CASE Network BY <1>2, NetworkMaps
<1>3. CASE Receive BY <1>3, ReceiveMaps
<1>4. CASE Device BY <1>4, ReceiveMaps, FilterMaps, ReadyDataMaps, ClearMaps DEF Device
<1>5. ASSUME NEW c \in Clients, Agent(c) PROVE Maps
  BY <1>5, RequestMaps, ReadMaps, ModeMaps, ClearMaps, ToolMaps DEF Agent, Serve
<1>6. ASSUME NEW c \in Clients, Tool(c) PROVE Maps
  BY <1>6, ToolMaps DEF Tool
<1> QED BY <1>1, <1>2, <1>3, <1>4, <1>5, <1>6 DEF Next

\* The types of what the two invariants say nothing of.
Rest ==
  /\ fifo \in Seq(Own) /\ running \in BOOLEAN
  /\ at \in 0 .. Len(buffer) + 1 /\ timer \in [Clients -> Int]
  /\ conn \in [Clients -> {"closed", "open", "left", "detached"}]
  /\ acts \in 0 .. MaxActs
  /\ last \in Nat /\ astray \in BOOLEAN /\ overlap \in BOOLEAN

LEMMA RestOfNetwork == ASSUME PInv, Rest, Network PROVE Rest'
<1>1. UNCHANGED <<fifo, running, at, buffer, timer>>
  BY DEF Network, Arrives, Transmitted, Hidden, Tick, device, handler, waits
<1>2. UNCHANGED <<conn, last, overlap>>
  BY DEF Network, Arrives, Transmitted, Hidden, Tick, tools, ghosts
<1>3. acts' \in 0 .. MaxActs
  BY BoundsAssumption DEF Rest, Network, Arrives, Transmitted, Hidden, Tick, counts
<1>4. astray' \in BOOLEAN
  BY DEF Rest, Network, Arrives, Transmitted, Hidden, Tick, ghosts
<1> QED BY <1>1, <1>2, <1>3, <1>4 DEF Rest

LEMMA RestOfDevice == ASSUME PInv, WInv, Rest, Receive \/ Device PROVE Rest'
<1>1. UNCHANGED <<running, acts, overlap>>
  BY DEF Receive, Device, FilterOne, ReadyData, ClearReceives, ClearGivesUp, ClearEnds,
         counts, ghosts
<1>2. <<>> \in Seq(Own) OBVIOUS
<1>3. fifo # <<>> => Tail(fifo) \in Seq(Own)
  BY HeadTailProperties DEF Rest
<1>4. fifo' \in Seq(Own)
  BY <1>3 DEF Rest, Receive, Device, FilterOne, IsCopy, ReadyData, ClearReceives, ClearGivesUp,
         ClearEnds, device
<1>5. Len(buffer) \in Nat /\ Len(bpf) \in Nat
  BY DEF PInv, Data
<1>6. at' \in 0 .. Len(buffer') + 1
  <2>1. CASE Receive \/ ClearReceives \/ ClearGivesUp
    BY <1>5, <2>1 DEF Receive, ClearReceives, ClearGivesUp
  <2>2. CASE FilterOne BY <1>5, <2>2 DEF FilterOne
  <2>3. CASE ReadyData BY <2>3 DEF ReadyData
  <2>4. CASE ClearEnds BY <2>4 DEF ClearEnds, Rest
  <2> QED BY <2>1, <2>2, <2>3, <2>4 DEF Device
<1>7. timer' \in [Clients -> Int] /\ last' \in Nat
  BY DEF Rest, Receive, Device, FilterOne, ReadyData, Given, ClearReceives, ClearGivesUp,
         ClearEnds, waits, ghosts
<1>8. conn' \in [Clients -> {"closed", "open", "left", "detached"}]
  BY DEF Rest, Receive, Device, FilterOne, ReadyData, ClearReceives, ClearGivesUp,
         ClearEnds, Answers, tools
<1>9. astray' \in BOOLEAN
  BY DEF Rest, Receive, Device, FilterOne, ReadyData, ClearReceives, ClearGivesUp,
         ClearEnds, ghosts
<1> QED BY <1>1, <1>4, <1>6, <1>7, <1>8, <1>9 DEF Rest

LEMMA RestOfClients ==
  ASSUME PInv, WInv, Rest, NEW c \in Clients, Agent(c) \/ Tool(c)
  PROVE  Rest'
<1> USE DEF Agent, Serve, Tool
<1>1. UNCHANGED <<at, buffer>>
  BY DEF ReadWaits, ReadTooLate, ReadGiven, WriteRequest, CaptureRequest, StopRequest, ModeRequest,
         DumpRequest, ClearRequest, Terminate, Timeout, Ask, Leave, handler
<1>2. fifo' \in Seq(Own)
  <2>1. CASE WriteRequest(c)
    BY <2>1, AppendProperties DEF WriteRequest, Takes, Rest, PInv, AsksTyped
  <2>2. CASE ~WriteRequest(c)
    BY <2>2 DEF ReadWaits, ReadTooLate, ReadGiven, CaptureRequest, StopRequest, ModeRequest,
         DumpRequest, ClearRequest, Terminate, Timeout, Ask, Leave, device, Rest
  <2> QED BY <2>1, <2>2
<1>3. timer' \in [Clients -> Int]
  <2>1. CASE ReadWaits(c)
    BY <2>1 DEF ReadWaits, Takes, Deadline, Rest, PInv, AsksTyped
  <2>2. CASE ~ReadWaits(c)
    BY <2>2 DEF ReadTooLate, ReadGiven, WriteRequest, CaptureRequest, StopRequest, ModeRequest,
         DumpRequest, ClearRequest, Terminate, Timeout, Ask, Leave, Given, waits, Rest
  <2> QED BY <2>1, <2>2
<1>4. conn' \in [Clients -> {"closed", "open", "left", "detached"}]
  BY DEF ReadWaits, ReadTooLate, ReadGiven, WriteRequest, CaptureRequest, StopRequest, ModeRequest,
         DumpRequest, ClearRequest, Terminate, Timeout, Ask, Leave, Answers, Rest
<1>5. acts' \in 0 .. MaxActs
  BY BoundsAssumption
  DEF ReadWaits, ReadTooLate, ReadGiven, WriteRequest, CaptureRequest, StopRequest, ModeRequest,
      DumpRequest, ClearRequest, Terminate, Timeout, Ask, Leave, counts, Rest
<1>6. running' \in BOOLEAN /\ astray' \in BOOLEAN /\ overlap' \in BOOLEAN
  BY DEF ReadWaits, ReadTooLate, ReadGiven, WriteRequest, CaptureRequest, StopRequest, ModeRequest,
         DumpRequest, ClearRequest, Terminate, Timeout, Ask, Leave, Given, ghosts, Rest
<1>7. last' \in Nat
  BY DEF ReadWaits, ReadTooLate, ReadGiven, WriteRequest, CaptureRequest, StopRequest, ModeRequest,
         DumpRequest, ClearRequest, Terminate, Timeout, Ask, Leave, Given, ghosts, Rest
<1> QED BY <1>1, <1>2, <1>3, <1>4, <1>5, <1>6, <1>7 DEF Rest

LEMMA InitRest == Init => Rest
<1> SUFFICES ASSUME Init PROVE Rest OBVIOUS
<1>1. fifo \in Seq(Own) BY DEF Init, Started
<1>2. at \in 0 .. Len(buffer) + 1
  <2>1. at = 0 /\ Len(buffer) = 0 BY DEF Init, Started
  <2> QED BY <2>1
<1>3. /\ timer \in [Clients -> Int]
      /\ conn \in [Clients -> {"closed", "open", "left", "detached"}]
  BY DEF Init, Started
<1>4. running \in BOOLEAN /\ astray \in BOOLEAN /\ overlap \in BOOLEAN
  BY DEF Init, Started
<1>5. acts \in 0 .. MaxActs /\ last \in Nat
  BY BoundsAssumption DEF Init, Started
<1> QED BY <1>1, <1>2, <1>3, <1>4, <1>5 DEF Rest

LEMMA StepRest == WInv /\ PInv /\ Rest /\ [Next]_vars => Rest'
<1> SUFFICES ASSUME WInv, PInv, Rest, [Next]_vars PROVE Rest' OBVIOUS
<1>1. CASE UNCHANGED vars
  BY <1>1 DEF vars, Rest, device, handler, tools, waits, counts, ghosts
<1>2. CASE Next
  BY <1>2, RestOfNetwork, RestOfDevice, RestOfClients DEF Next
<1> QED BY <1>1, <1>2

\* Every variable keeps its type.
THEOREM TypeCorrect == Spec => []TypeOK
<1>1. WInv /\ PInv /\ [Next]_vars => PInv'
  BY StepMaps DEF Maps
<1>2. WInv /\ PInv /\ Rest => TypeOK
  BY DEF WInv, Shape, PInv, RingOK, Contents, Data, Rest, TypeOK
<1> QED BY <1>1, <1>2, InitWaits, StepWaits, InitMaps, InitRest, StepRest, PTL DEF Spec

\* The slots and the two pointers of the ring hold a bounded queue: packets are
\* recorded at its end, read at its start, and lost only where the mode says so
\* or with the end of a clear.
THEOREM LogCorrect == Spec => ImplementsLog
<1>1. WInv /\ PInv /\ [Next]_vars => PInv' /\ [Log!Next]_Log!vars
  BY StepMaps DEF Maps
<1> QED BY <1>1, InitWaits, StepWaits, InitMaps, PTL DEF Spec, ImplementsLog, Log!Spec

-----------------------------------------------------------------------------
(* That readers are given what the peers sent, in its order *)

Peer(p) == p.id \notin Own

\* The packets of peers in s are numbered upwards,
Rising(s) ==
  \A i, j \in 1 .. Len(s) : i < j /\ Peer(s[i]) /\ Peer(s[j]) => s[i].id < s[j].id

\* have numbers above l, up to n,
Within(s, l, n) == \A i \in 1 .. Len(s) : Peer(s[i]) => s[i].id \in l + 1 .. n

\* and those of s are older than those of t from place n on.
Before(s, t, n) ==
  \A i \in 1 .. Len(s), j \in 1 .. Len(t) :
    n <= j /\ Peer(s[i]) /\ Peer(t[j]) => s[i].id < t[j].id

\* What is recorded, the buffer that receive() works on from place n on, and
\* what the device holds: the packets of the peers are in their order, newer
\* than number l, and not newer than number m.
Ordered(rec, buf, n, dev, l, m) ==
  /\ l \in Nat /\ m \in Nat /\ l <= m
  /\ Within(rec, l, m) /\ Within(buf, l, m) /\ Within(dev, l, m)
  /\ Rising(rec) /\ Rising(buf) /\ Rising(dev)
  /\ Before(rec, buf, n) /\ Before(rec, dev, 1) /\ Before(buf, dev, 1)

LEMMA AppendPlaces ==
  ASSUME NEW s \in Seq(Packets), NEW p \in Packets, NEW i \in 1 .. Len(Append(s, p))
  PROVE  \/ i \in 1 .. Len(s) /\ Append(s, p)[i] = s[i]
         \/ i = Len(s) + 1 /\ Append(s, p)[i] = p
<1>1. Len(s) \in Nat /\ Len(Append(s, p)) = Len(s) + 1
  BY AppendProperties, LenProperties
<1>2. i \in 1 .. Len(s) \/ i = Len(s) + 1
  BY <1>1
<1> QED BY <1>2, AppendProperties

LEMMA TailPlaces ==
  ASSUME NEW s \in Seq(Packets), s # <<>>, NEW i \in 1 .. Len(Tail(s))
  PROVE  i + 1 \in 1 .. Len(s) /\ Tail(s)[i] = s[i + 1]
<1>1. /\ Len(s) \in Nat /\ Len(Tail(s)) = Len(s) - 1
      /\ \A k \in 1 .. Len(Tail(s)) : Tail(s)[k] = s[k + 1]
  BY HeadTailProperties, LenProperties
<1> QED BY <1>1

\* A peer's next packet, or one of a tool, is captured.
LEMMA OrderedCaptured ==
  ASSUME NEW rec \in Seq(Packets), NEW buf \in Seq(Packets), NEW dev \in Seq(Packets),
         NEW n, NEW l, NEW m, NEW k \in {m, m + 1}, Ordered(rec, buf, n, dev, l, m),
         NEW p \in Packets, Peer(p) => k = m + 1 /\ p.id = k
  PROVE  Ordered(rec, buf, n, Append(dev, p), l, k)
<1> DEFINE t == Append(dev, p)
<1>1. l \in Nat /\ m \in Nat /\ k \in Nat /\ l <= k /\ m <= k
  BY DEF Ordered
<1>2. \A i \in 1 .. Len(t) : (i \in 1 .. Len(dev) /\ t[i] = dev[i]) \/ (i = Len(dev) + 1 /\ t[i] = p)
  BY AppendPlaces
<1>3. Len(dev) \in Nat /\ Len(buf) \in Nat /\ Len(rec) \in Nat
  BY LenProperties
<1> HIDE DEF t
<1>4. Within(rec, l, k) /\ Within(buf, l, k)
  BY <1>1 DEF Ordered, Within
<1>5. Within(t, l, k)
  BY <1>1, <1>2 DEF Ordered, Within
<1>6. Rising(t)
  <2> SUFFICES ASSUME NEW i \in 1 .. Len(t), NEW j \in 1 .. Len(t), i < j, Peer(t[i]), Peer(t[j])
               PROVE  t[i].id < t[j].id
    BY DEF Rising
  <2>1. CASE j \in 1 .. Len(dev)
    BY <1>2, <1>3, <2>1 DEF Ordered, Rising
  <2>2. CASE j = Len(dev) + 1 /\ t[j] = p
    <3>1. i \in 1 .. Len(dev) /\ t[i] = dev[i]
      BY <1>2, <1>3, <2>2
    <3>2. t[i].id \in l + 1 .. m
      BY <3>1 DEF Ordered, Within
    <3> QED BY <1>1, <2>2, <3>2
  <2> QED BY <1>2, <2>1, <2>2
<1>7. ASSUME NEW s, Within(s, l, m), Before(s, dev, 1) PROVE Before(s, t, 1)
  <2> SUFFICES ASSUME NEW i \in 1 .. Len(s), NEW j \in 1 .. Len(t), Peer(s[i]), Peer(t[j])
               PROVE  s[i].id < t[j].id
    BY DEF Before
  <2>1. s[i].id \in l + 1 .. m
    BY <1>7 DEF Within
  <2>2. CASE j \in 1 .. Len(dev) /\ t[j] = dev[j]
    BY <1>7, <2>2 DEF Before
  <2>3. CASE t[j] = p
    BY <1>1, <2>1, <2>3
  <2> QED BY <1>2, <2>2, <2>3
<1>8. Before(rec, t, 1) /\ Before(buf, t, 1)
  BY <1>7 DEF Ordered
<1> QED BY <1>1, <1>4, <1>5, <1>6, <1>8 DEF Ordered, t

\* Nothing is in an empty sequence.
LEMMA OrderedNone ==
  ASSUME NEW s, NEW l, NEW m, NEW n
  PROVE  Within(<<>>, l, m) /\ Rising(<<>>) /\ Before(s, <<>>, n) /\ Before(<<>>, s, n)
<1>1. 1 .. Len(<<>>) = {} BY EmptySeq
<1> QED BY <1>1 DEF Within, Rising, Before

\* receive() takes what the device holds, and is through with it,
LEMMA OrderedReceived ==
  ASSUME NEW rec, NEW dev, NEW n, NEW l, NEW m, Ordered(rec, <<>>, n, dev, l, m)
  PROVE  Ordered(rec, dev, 1, <<>>, l, m)
BY OrderedNone DEF Ordered

LEMMA OrderedDone ==
  ASSUME NEW rec, NEW buf, NEW n, NEW k, NEW dev, NEW l, NEW m, Ordered(rec, buf, n, dev, l, m)
  PROVE  Ordered(rec, <<>>, k, dev, l, m)
BY OrderedNone DEF Ordered

\* the device is flushed.
LEMMA OrderedFlushed ==
  ASSUME NEW rec, NEW buf, NEW n, NEW dev, NEW l, NEW m, Ordered(rec, buf, n, dev, l, m)
  PROVE  Ordered(rec, buf, n, <<>>, l, m)
BY OrderedNone DEF Ordered

\* One packet of the buffer is passed over, or recorded.
LEMMA OrderedSkipped ==
  ASSUME NEW rec, NEW buf, NEW n \in Nat, NEW dev, NEW l, NEW m, Ordered(rec, buf, n, dev, l, m)
  PROVE  Ordered(rec, buf, n + 1, dev, l, m)
<1>1. Before(rec, buf, n + 1) BY DEF Ordered, Before
<1> QED BY <1>1 DEF Ordered

LEMMA OrderedRecorded ==
  ASSUME NEW rec \in Seq(Packets), NEW buf \in Seq(Packets), NEW dev \in Seq(Packets),
         NEW n \in 1 .. Len(buf), NEW l, NEW m, Ordered(rec, buf, n, dev, l, m)
  PROVE  Ordered(Append(rec, buf[n]), buf, n + 1, dev, l, m)
<1> DEFINE t == Append(rec, buf[n])
<1>1. buf[n] \in Packets OBVIOUS
<1>2. \A i \in 1 .. Len(t) : (i \in 1 .. Len(rec) /\ t[i] = rec[i]) \/ (i = Len(rec) + 1 /\ t[i] = buf[n])
  BY <1>1, AppendPlaces
<1>3. Len(buf) \in Nat /\ Len(rec) \in Nat /\ n \in Nat
  BY LenProperties
<1> HIDE DEF t
<1>4. Within(t, l, m) BY <1>2 DEF Ordered, Within
<1>5. Rising(t)
  <2> SUFFICES ASSUME NEW i \in 1 .. Len(t), NEW j \in 1 .. Len(t), i < j, Peer(t[i]), Peer(t[j])
               PROVE  t[i].id < t[j].id
    BY DEF Rising
  <2>1. CASE j \in 1 .. Len(rec)
    <3>1. i \in 1 .. Len(rec) /\ t[i] = rec[i] /\ t[j] = rec[j]
      BY <1>2, <1>3, <2>1
    <3>2. Rising(rec) BY DEF Ordered
    <3> QED BY <2>1, <3>1, <3>2 DEF Rising
  <2>2. CASE j = Len(rec) + 1 /\ t[j] = buf[n]
    <3>1. i \in 1 .. Len(rec) /\ t[i] = rec[i]
      BY <1>2, <1>3, <2>2
    <3>2. n \in 1 .. Len(buf) /\ n <= n /\ Peer(rec[i]) /\ Peer(buf[n])
      BY <1>3, <2>2, <3>1
    <3>3. Before(rec, buf, n) BY DEF Ordered
    <3>4. rec[i].id < buf[n].id BY <3>1, <3>2, <3>3 DEF Before
    <3> QED BY <2>2, <3>1, <3>4
  <2> QED BY <1>2, <2>1, <2>2
<1>6. Before(t, buf, n + 1)
  <2> SUFFICES ASSUME NEW i \in 1 .. Len(t), NEW j \in 1 .. Len(buf), n + 1 <= j, Peer(t[i]), Peer(buf[j])
               PROVE  t[i].id < buf[j].id
    BY DEF Before
  <2>1. n < j /\ n <= j BY <1>3
  <2>2. CASE i \in 1 .. Len(rec) /\ t[i] = rec[i]
    BY <2>1, <2>2 DEF Ordered, Before
  <2>3. CASE t[i] = buf[n]
    BY <2>1, <2>3 DEF Ordered, Rising
  <2> QED BY <1>2, <2>2, <2>3
<1>7. Before(t, dev, 1)
  <2> SUFFICES ASSUME NEW i \in 1 .. Len(t), NEW j \in 1 .. Len(dev), 1 <= j, Peer(t[i]), Peer(dev[j])
               PROVE  t[i].id < dev[j].id
    BY DEF Before
  <2>1. CASE i \in 1 .. Len(rec) /\ t[i] = rec[i]
    BY <2>1 DEF Ordered, Before
  <2>2. CASE t[i] = buf[n]
    BY <2>2 DEF Ordered, Before
  <2> QED BY <1>2, <2>1, <2>2
<1> QED BY <1>4, <1>5, <1>6, <1>7 DEF Ordered, t

\* The oldest packet of the ring is taken, or overwritten.
LEMMA OrderedPopped ==
  ASSUME NEW rec \in Seq(Packets), rec # <<>>, NEW buf, NEW dev, NEW n, NEW l, NEW m,
         Ordered(rec, buf, n, dev, l, m)
  PROVE  Ordered(Tail(rec), buf, n, dev, l, m)
<1> DEFINE t == Tail(rec)
<1>1. \A i \in 1 .. Len(t) : i \in Int /\ i + 1 \in 1 .. Len(rec) /\ t[i] = rec[i + 1]
  BY TailPlaces
<1> HIDE DEF t
<1>2. Within(t, l, m) BY <1>1 DEF Ordered, Within
<1>3. Rising(t)
  <2> SUFFICES ASSUME NEW i \in 1 .. Len(t), NEW j \in 1 .. Len(t), i < j, Peer(t[i]), Peer(t[j])
               PROVE  t[i].id < t[j].id
    BY DEF Rising
  <2>1. i + 1 < j + 1 BY <1>1
  <2> QED BY <1>1, <2>1 DEF Ordered, Rising
<1>4. Before(t, buf, n) /\ Before(t, dev, 1)
  BY <1>1 DEF Ordered, Before
<1> QED BY <1>2, <1>3, <1>4 DEF Ordered, t

\* A reader is given the oldest packet of the ring, which a peer sent, while
\* nothing is received,
LEMMA OrderedGiven ==
  ASSUME NEW rec \in Seq(Packets), rec # <<>>, NEW dev, NEW n, NEW l, NEW m,
         Ordered(rec, <<>>, n, dev, l, m), Peer(rec[1])
  PROVE  rec[1].id > l /\ Ordered(Tail(rec), <<>>, n, dev, rec[1].id, m)
<1> DEFINE t == Tail(rec)
<1>1. \A i \in 1 .. Len(t) : i \in Int /\ i >= 1 /\ i + 1 \in 1 .. Len(rec) /\ t[i] = rec[i + 1]
  BY TailPlaces
<1>2. 1 \in 1 .. Len(rec) BY EmptySeq
<1>3. rec[1].id \in l + 1 .. m /\ l \in Nat /\ m \in Nat
  BY <1>2 DEF Ordered, Within
<1> HIDE DEF t
<1>4. ASSUME NEW i \in 1 .. Len(t), Peer(t[i]) PROVE t[i].id \in rec[1].id + 1 .. m
  <2>1. i + 1 \in 1 .. Len(rec) /\ 1 < i + 1 /\ t[i] = rec[i + 1]
    BY <1>1
  <2>2. t[i].id \in l + 1 .. m /\ rec[1].id < t[i].id
    BY <1>2, <1>4, <2>1 DEF Ordered, Within, Rising
  <2> QED BY <1>3, <2>2
<1>5. ASSUME NEW i \in 1 .. Len(dev), Peer(dev[i]) PROVE dev[i].id \in rec[1].id + 1 .. m
  <2>1. dev[i].id \in l + 1 .. m /\ rec[1].id < dev[i].id
    BY <1>2, <1>5 DEF Ordered, Within, Before
  <2> QED BY <1>3, <2>1
<1>6. Ordered(t, <<>>, n, dev, l, m)
  BY OrderedPopped DEF t
<1>7. Within(t, rec[1].id, m) /\ Within(dev, rec[1].id, m)
  BY <1>4, <1>5 DEF Within
<1> QED BY <1>3, <1>6, <1>7, OrderedNone DEF Ordered, t

\* and the first one of the buffer at its end, when what else is recorded is newer.
LEMMA OrderedHanded ==
  ASSUME NEW rec \in Seq(Packets), rec # <<>>, NEW buf \in Seq(Packets), buf # <<>>,
         NEW dev, NEW n, NEW l, NEW m, Ordered(rec, buf, n, dev, l, m), Peer(buf[1]),
         \A i \in 2 .. Len(rec) : Peer(rec[i]) => rec[i].id > buf[1].id
  PROVE  buf[1].id > l /\ Ordered(Tail(rec), <<>>, 0, dev, buf[1].id, m)
<1> DEFINE t == Tail(rec)
<1>1. \A i \in 1 .. Len(t) : i \in Int /\ i >= 1 /\ i + 1 \in 1 .. Len(rec) /\ t[i] = rec[i + 1]
  BY TailPlaces
<1>2. 1 \in 1 .. Len(buf) BY EmptySeq
<1>3. buf[1].id \in l + 1 .. m /\ l \in Nat /\ m \in Nat
  BY <1>2 DEF Ordered, Within
<1> HIDE DEF t
<1>4. ASSUME NEW i \in 1 .. Len(t), Peer(t[i]) PROVE t[i].id \in buf[1].id + 1 .. m
  <2>1. i + 1 \in 1 .. Len(rec) /\ i + 1 \in 2 .. Len(rec) /\ t[i] = rec[i + 1]
    BY <1>1
  <2>2. t[i].id \in l + 1 .. m /\ t[i].id > buf[1].id
    BY <1>4, <2>1 DEF Ordered, Within
  <2> QED BY <1>3, <2>2
<1>5. ASSUME NEW i \in 1 .. Len(dev), Peer(dev[i]) PROVE dev[i].id \in buf[1].id + 1 .. m
  <2>1. dev[i].id \in l + 1 .. m /\ buf[1].id < dev[i].id
    BY <1>2, <1>5 DEF Ordered, Within, Before
  <2> QED BY <1>3, <2>1
<1>6. Ordered(t, <<>>, 0, dev, l, m)
  BY OrderedPopped, OrderedDone DEF t
<1>7. Within(t, buf[1].id, m) /\ Within(dev, buf[1].id, m)
  BY <1>4, <1>5 DEF Within
<1> QED BY <1>3, <1>6, <1>7, OrderedNone DEF Ordered, t

LEMMA PeerIsNumbered ==
  ASSUME NEW p \in Packets
  PROVE  (Peer(p) <=> p.id \in Nat) /\ (Peer(p) => p.id \in 1 .. MaxPeers)
<1>1. p.id \in Own \union 1 .. MaxPeers BY DEF Packets
<1>2. 1 .. MaxPeers \subseteq Nat BY BoundsAssumption
<1> QED BY <1>1, <1>2, OwnAssumption DEF Peer

OrderInv ==
  /\ Recorded \in Seq(Packets) /\ (at = 0 => buffer = <<>>)
  /\ \A i \in 1 .. Len(wire) : ~Peer(wire[i])
  /\ Ordered(Recorded, buffer, at, bpf, last, peers)

LEMMA RingStays ==
  ASSUME UNCHANGED ring
  PROVE  Recorded' = Recorded /\ (IsEmpty' <=> IsEmpty)
BY DEF ring, Recorded, Datanum, Slot, IsEmpty

LEMMA EmptyRing ==
  ASSUME PInv
  PROVE  (IsEmpty <=> Recorded = <<>>) /\ Len(Recorded) = Datanum /\ Datanum \in 0 .. Size
         /\ (~IsEmpty => Recorded[1] = Slot(0) /\ Recorded[1] = Head(Recorded))
<1>1. RecordedSlots /\ Datanum \in 0 .. Size /\ (IsEmpty <=> Datanum = 0)
  BY RecordedType, DatanumType DEF PInv
<1>2. Recorded = <<>> <=> Datanum = 0
  BY <1>1, EmptySeq DEF RecordedSlots
<1>3. ~IsEmpty => 1 \in 1 .. Datanum
  BY <1>1, SizeAssumption
<1>4. ~IsEmpty => Recorded[1] = Slot(0)
  BY <1>3 DEF Recorded
<1>5. ~IsEmpty => Recorded[1] = Head(Recorded)
  BY <1>1, <1>2 DEF RecordedSlots
<1> QED BY <1>1, <1>2, <1>4, <1>5 DEF RecordedSlots

\* What a turn of the loop records.
LEMMA FilterRecords ==
  ASSUME PInv, FilterOne
  PROVE  /\ at \in 1 .. Len(buffer) /\ at' = at + 1 /\ buffer[at] \in Packets
         /\ \/ /\ Recorded' = Recorded
               /\ IsCopy(buffer[at]) \/ ~running \/ Len(Recorded) = Size
            \/ /\ ~IsCopy(buffer[at]) /\ running /\ Len(Recorded) < Size
               /\ Recorded' = Append(Recorded, buffer[at])
            \/ /\ ~IsCopy(buffer[at]) /\ running /\ Len(Recorded) = Size /\ mode = "wrap"
               /\ Recorded' = Tail(Append(Recorded, buffer[at]))
<1> DEFINE p == buffer[at]
<1>1. at \in 1 .. Len(buffer) /\ at' = at + 1 /\ p \in Packets /\ p \in Contents
  BY DEF FilterOne, PInv, Data, Contents
<1>2. Len(Recorded) = Datanum /\ (IsFull <=> Datanum = Size)
  BY EmptyRing, DatanumType DEF PInv
<1> HIDE DEF p
<1>3. CASE IsCopy(p) \/ ~running
  <2>1. UNCHANGED ring BY <1>3 DEF FilterOne, p
  <2> QED BY <1>1, <1>3, <2>1, RingStays DEF p
<1>4. CASE ~IsCopy(p) /\ running
  <2>1. Write(p) BY <1>4 DEF FilterOne, p
  <2>2. CASE ~IsFull
    <3>1. Len(Recorded) < Size /\ Recorded' = Append(Recorded, p)
      BY <1>1, <2>1, <2>2, Written DEF PInv
    <3> QED BY <1>1, <1>4, <3>1 DEF p
  <2>3. CASE IsFull /\ mode = "wrap"
    <3>1. Recorded' = Tail(Append(Recorded, p))
      BY <1>1, <2>1, <2>3, Overwritten DEF PInv
    <3> QED BY <1>1, <1>2, <1>4, <2>3, <3>1 DEF p
  <2>4. CASE IsFull /\ mode # "wrap"
    <3>1. UNCHANGED ring BY <2>1, <2>4 DEF Write
    <3> QED BY <1>1, <1>2, <2>4, <3>1, RingStays DEF p
  <2> QED BY <2>2, <2>3, <2>4
<1> QED BY <1>3, <1>4

LEMMA OrderNetwork == ASSUME PInv, OrderInv, Network PROVE OrderInv'
<1>1. UNCHANGED <<ring, at, buffer, last>>
  BY DEF Network, Arrives, Transmitted, Hidden, Tick, handler, ghosts
<1>2. Recorded' = Recorded BY <1>1, RingStays
<1>3. Len(wire) \in Nat BY LenProperties DEF PInv, Data
<1>4. CASE Arrives
  <2> DEFINE p == [id |-> peers + 1, time |-> now]
  <2>1. p.id = peers + 1 /\ p \in Packets
    BY <1>4, BoundsAssumption DEF Arrives, PInv, Data, Packets
  <2>2. peers' = peers + 1 /\ bpf' = Append(bpf, p) /\ wire' = wire
    BY <1>4 DEF Arrives
  <2> HIDE DEF p
  <2>3. Ordered(Recorded, buffer, at, Append(bpf, p), last, peers + 1)
    BY <2>1, OrderedCaptured DEF OrderInv, PInv, Data
  <2> QED BY <1>1, <1>2, <2>2, <2>3 DEF OrderInv
<1>5. CASE Transmitted
  <2> DEFINE p == [Head(wire) EXCEPT !.time = now]
  <2>1. /\ wire # <<>> /\ wire' = Tail(wire) /\ bpf' = Append(bpf, p) /\ peers' = peers
    BY <1>5 DEF Transmitted, counts
  <2>2. Head(wire) \in Packets /\ Head(wire) = wire[1] /\ 1 \in 1 .. Len(wire)
    BY <2>1, HeadTailProperties, EmptySeq DEF PInv, Data
  <2>3. p \in Packets /\ p.id = wire[1].id
    BY <2>2, StampedPacket DEF PInv, Data, Packets
  <2>4. ~Peer(p) BY <2>2, <2>3 DEF OrderInv, Peer
  <2> HIDE DEF p
  <2>5. Ordered(Recorded, buffer, at, Append(bpf, p), last, peers)
    BY <2>3, <2>4, OrderedCaptured DEF OrderInv, PInv, Data
  <2>6. \A i \in 1 .. Len(wire') : ~Peer(wire'[i])
    BY <2>1, TailPlaces DEF OrderInv, PInv, Data
  <2> QED BY <1>1, <1>2, <2>1, <2>5, <2>6 DEF OrderInv
<1>6. CASE Hidden
  <2>1. wire # <<>> /\ wire' = Tail(wire) /\ UNCHANGED <<bpf, peers>>
    BY <1>6 DEF Hidden
  <2>2. \A i \in 1 .. Len(wire') : ~Peer(wire'[i])
    BY <2>1, TailPlaces DEF OrderInv, PInv, Data
  <2> QED BY <1>1, <1>2, <2>1, <2>2 DEF OrderInv
<1>7. CASE Tick
  <2>1. UNCHANGED <<bpf, wire, peers>> BY <1>7 DEF Tick, device
  <2> QED BY <1>1, <1>2, <2>1 DEF OrderInv
<1> QED BY <1>4, <1>5, <1>6, <1>7 DEF Network

LEMMA OrderReceive ==
  ASSUME PInv, OrderInv, Receive \/ ClearReceives \/ ClearGivesUp
  PROVE  OrderInv'
<1>1. UNCHANGED <<ring, wire, last, peers>> /\ at = 0 /\ at' = 1
  BY DEF Receive, ClearReceives, ClearGivesUp, Idle, counts, ghosts
<1>2. Recorded' = Recorded /\ buffer = <<>>
  BY <1>1, RingStays DEF OrderInv
<1>3. CASE Receive \/ ClearReceives
  <2>1. buffer' = bpf /\ bpf' = <<>>
    BY <1>3 DEF Receive, ClearReceives
  <2>2. Ordered(Recorded, bpf, 1, <<>>, last, peers)
    BY <1>2, OrderedReceived DEF OrderInv
  <2> QED BY <1>1, <1>2, <2>1, <2>2 DEF OrderInv
<1>4. CASE ClearGivesUp
  <2>1. UNCHANGED <<buffer, bpf>>
    BY <1>4 DEF ClearGivesUp
  <2>2. Ordered(Recorded, <<>>, 1, bpf, last, peers)
    BY <1>2, OrderedDone DEF OrderInv
  <2> QED BY <1>1, <1>2, <2>1, <2>2 DEF OrderInv
<1> QED BY <1>3, <1>4

LEMMA OrderFilter == ASSUME PInv, OrderInv, FilterOne PROVE OrderInv'
<1>1. UNCHANGED <<wire, bpf, buffer, last, peers>>
  BY DEF FilterOne, counts, ghosts
<1>2. /\ at \in 1 .. Len(buffer) /\ at' = at + 1 /\ at \in Nat /\ at' # 0 /\ buffer[at] \in Packets
      /\ Recorded' = Recorded \/ Recorded' = Append(Recorded, buffer[at])
           \/ Recorded' = Tail(Append(Recorded, buffer[at]))
  <2>1. Len(buffer) \in Nat BY LenProperties DEF PInv, Data
  <2> QED BY <2>1, FilterRecords
<1> DEFINE u == Append(Recorded, buffer[at])
<1>3. u \in Seq(Packets) /\ u # <<>>
  BY <1>2, AppendProperties DEF OrderInv
<1>4. Ordered(u, buffer, at + 1, bpf, last, peers)
  BY <1>2, OrderedRecorded DEF OrderInv, PInv, Data
<1>5. Tail(u) \in Seq(Packets)
  BY <1>3, HeadTailProperties
<1>6. Ordered(Tail(u), buffer, at + 1, bpf, last, peers)
  BY <1>3, <1>4, OrderedPopped
<1>7. Ordered(Recorded, buffer, at + 1, bpf, last, peers)
  BY <1>2, OrderedSkipped DEF OrderInv
<1>8. Recorded' \in Seq(Packets) /\ Ordered(Recorded', buffer, at + 1, bpf, last, peers)
  BY <1>2, <1>3, <1>4, <1>5, <1>6, <1>7 DEF OrderInv
<1> QED BY <1>1, <1>2, <1>8 DEF OrderInv

LEMMA OrderClearEnds == ASSUME PInv, OrderInv, ClearEnds PROVE OrderInv'
<1>1. /\ UNCHANGED <<wire, at, buffer, last, peers>> /\ bpf' = <<>> /\ at = 0
      /\ wp' = 0 /\ rp' = 0 /\ UNCHANGED <<slot, mode>>
  BY DEF ClearEnds, counts
<1>2. RingOK' BY <1>1, SizeAssumption DEF PInv, RingOK
<1>3. RecordedSlots' BY <1>2, RecordedType, PTL
<1>4. Datanum' = 0 BY <1>1 DEF Datanum
<1>5. Recorded' = <<>> BY <1>3, <1>4, EmptySeq DEF RecordedSlots
<1>6. buffer = <<>> BY <1>1 DEF OrderInv
<1>7. Ordered(<<>>, <<>>, 0, <<>>, last, peers)
  BY OrderedNone DEF OrderInv, Ordered
<1>8. <<>> \in Seq(Packets) OBVIOUS
<1> QED BY <1>1, <1>5, <1>6, <1>7, <1>8 DEF OrderInv

\* While somebody waits, receive() has recorded nothing that is not from its
\* buffer.  With the packet of a peer at the start of the buffer what is recorded
\* starts with it, unless the ring overflowed, and goes on with newer ones.
Headed(rec, buf, n, wraps, runs) ==
  /\ Len(rec) <= n - 1
  /\ buf # <<>> /\ Peer(buf[1]) =>
       /\ \A i \in 2 .. Len(rec) : Peer(rec[i]) => rec[i].id > buf[1].id
       /\ \/ wraps /\ Len(buf) > Size
          \/ rec = <<>> /\ (n = 1 \/ ~runs \/ Size = 0)
          \/ rec # <<>> /\ rec[1] = buf[1]

HeadInv ==
  readwait # Nobody /\ at # 0 => Headed(Recorded, buffer, at, mode = "wrap", running)

\* receive() starts with nothing recorded.
LEMMA HeadReceive ==
  ASSUME WInv, PInv, Receive \/ ClearReceives \/ ClearGivesUp
  PROVE  HeadInv'
<1>1. UNCHANGED <<ring, readwait>> /\ at = 0 /\ at' = 1
  BY DEF Receive, ClearReceives, ClearGivesUp, Idle, waits
<1>2. Recorded' = Recorded BY <1>1, RingStays
<1>3. readwait # Nobody => Recorded = <<>>
  BY <1>1, EmptyRing DEF WInv, WaiterSound, RegisteredReads
<1>4. Headed(<<>>, buffer', 1, (mode = "wrap")', running')
  BY EmptySeq DEF Headed
<1> QED BY <1>1, <1>2, <1>3, <1>4 DEF HeadInv

LEMMA HeadFilter == ASSUME PInv, Rest, OrderInv, HeadInv, FilterOne PROVE HeadInv'
<1> SUFFICES ASSUME readwait # Nobody
             PROVE  Headed(Recorded', buffer, at + 1, mode = "wrap", running)
  <2>1. UNCHANGED <<readwait, buffer, running, mode>> /\ at' = at + 1
    BY DEF FilterOne, waits, Write, ring
  <2> QED BY <2>1 DEF HeadInv
<1> DEFINE p == buffer[at]
           r == Append(Recorded, p)
<1>1. /\ at \in 1 .. Len(buffer) /\ at \in Nat /\ at # 0 /\ p \in Packets /\ buffer # <<>>
      /\ Len(buffer) \in Nat /\ Len(Recorded) \in Nat /\ Recorded \in Seq(Packets)
      /\ buffer \in Seq(Packets)
  <2>1. buffer \in Seq(Packets) /\ Recorded \in Seq(Packets)
    BY DEF PInv, Data, OrderInv
  <2>2. Len(buffer) \in Nat /\ Len(Recorded) \in Nat
    BY <2>1, LenProperties
  <2> QED BY <2>1, <2>2, FilterRecords, EmptySeq
<1>2. Headed(Recorded, buffer, at, mode = "wrap", running)
  BY <1>1 DEF HeadInv
<1>3. Len(Recorded) <= at - 1 BY <1>2 DEF Headed
<1>4. /\ r \in Seq(Packets) /\ r # <<>> /\ Len(r) = Len(Recorded) + 1
      /\ \A i \in 1 .. Len(Recorded) : r[i] = Recorded[i]
      /\ r[Len(Recorded) + 1] = p
  BY <1>1, AppendProperties
<1>5. Peer(buffer[1]) /\ Peer(p) /\ at # 1 => p.id > buffer[1].id
  <2>1. Rising(buffer) BY DEF OrderInv, Ordered
  <2>2. 1 \in 1 .. Len(buffer) /\ (at # 1 => 1 < at) BY <1>1
  <2>3. Peer(buffer[1]) /\ Peer(p) /\ at # 1 => buffer[1].id < p.id
    BY <1>1, <2>1, <2>2 DEF Rising
  <2>4. Peer(buffer[1]) /\ Peer(p) => buffer[1].id \in Nat /\ p.id \in Nat
    BY <1>1, <2>2, PeerIsNumbered
  <2> QED BY <2>3, <2>4
<1>6. ASSUME Peer(buffer[1]), NEW i \in 2 .. Len(r), Peer(r[i]) PROVE r[i].id > buffer[1].id
  <2>1. CASE i \in 2 .. Len(Recorded)
    <3>1. r[i] = Recorded[i] BY <1>1, <1>4, <2>1
    <3> QED BY <1>1, <1>2, <1>6, <2>1, <3>1 DEF Headed
  <2>2. CASE i = Len(Recorded) + 1
    <3>1. at # 1 BY <1>1, <1>3, <2>2
    <3> QED BY <1>4, <1>5, <1>6, <2>2, <3>1
  <2> QED BY <1>1, <1>4, <2>1, <2>2
<1> HIDE DEF p, r
<1>7. CASE Recorded' = Recorded /\ (IsCopy(p) \/ ~running \/ Len(Recorded) = Size)
  <2>1. Peer(buffer[1]) /\ at = 1 => ~IsCopy(p)
    <3>1. fifo # <<>> => Head(fifo) \in Own
      BY HeadTailProperties DEF Rest
    <3> QED BY <3>1 DEF IsCopy, Peer, p
  <2>2. Recorded = <<>> /\ Peer(buffer[1]) /\ ~((mode = "wrap") /\ Len(buffer) > Size) => ~running \/ Size = 0
    <3>1. Recorded = <<>> => Len(Recorded) = 0 BY EmptySeq
    <3>2. at = 1 /\ Recorded = <<>> /\ Peer(buffer[1]) => ~running \/ Size = 0
      BY <1>7, <2>1, <3>1
    <3> QED BY <1>1, <1>2, <3>2 DEF Headed
  <2>3. Len(Recorded) <= (at + 1) - 1 BY <1>1, <1>3
  <2> QED BY <1>1, <1>2, <1>7, <2>2, <2>3 DEF Headed
<1>8. CASE running /\ Len(Recorded) < Size /\ Recorded' = r
  <2>1. Len(r) <= (at + 1) - 1 BY <1>1, <1>3, <1>4
  <2>2. ASSUME Peer(buffer[1]), ~((mode = "wrap") /\ Len(buffer) > Size) PROVE r[1] = buffer[1]
    <3>1. CASE Recorded = <<>>
      <4>1. Size # 0 /\ Len(Recorded) = 0 BY <1>1, <1>8, <3>1, SizeAssumption, EmptySeq
      <4>2. at = 1 BY <1>1, <1>2, <1>8, <2>2, <3>1, <4>1 DEF Headed
      <4> QED BY <1>4, <4>1, <4>2 DEF p
    <3>2. CASE Recorded # <<>>
      <4>1. Recorded[1] = buffer[1] BY <1>1, <1>2, <2>2, <3>2 DEF Headed
      <4>2. 1 \in 1 .. Len(Recorded) BY <1>1, <3>2, EmptySeq
      <4> QED BY <1>4, <4>1, <4>2
    <3> QED BY <3>1, <3>2
  <2> QED BY <1>1, <1>4, <1>6, <1>8, <2>1, <2>2 DEF Headed
<1>9. CASE Len(Recorded) = Size /\ mode = "wrap" /\ Recorded' = Tail(r)
  <2>1. Len(buffer) > Size BY <1>1, <1>3, <1>9, SizeAssumption
  <2>2. /\ Len(Tail(r)) = Len(Recorded)
        /\ \A i \in 1 .. Len(Tail(r)) : Tail(r)[i] = r[i + 1]
    BY <1>1, <1>4, HeadTailProperties
  <2>3. Len(Tail(r)) <= (at + 1) - 1 BY <1>1, <1>3, <2>2
  <2>4. ASSUME Peer(buffer[1]), NEW i \in 2 .. Len(Tail(r)), Peer(Tail(r)[i])
        PROVE  Tail(r)[i].id > buffer[1].id
    <3>1. i \in 1 .. Len(Tail(r)) /\ i + 1 \in 2 .. Len(r)
      BY <1>1, <1>4, <2>2
    <3> QED BY <1>6, <2>2, <2>4, <3>1
  <2> QED BY <1>9, <2>1, <2>3, <2>4 DEF Headed
<1> QED BY <1>7, <1>8, <1>9, FilterRecords DEF p, r

\* What readydata hands out is a packet, and newer than what was given.
LEMMA Handed ==
  ASSUME PInv, Rest, OrderInv, HeadInv, ReadyData, ~IsEmpty, readwait # Nobody
  PROVE  /\ buffer # <<>> /\ FirstOfBuffer = buffer[1] /\ buffer[1] \in Packets
         /\ Recorded # <<>> /\ Recorded' = Tail(Recorded) /\ at # 0
         /\ last' = IF Peer(buffer[1]) THEN buffer[1].id ELSE last
         /\ Headed(Recorded, buffer, at, mode = "wrap", running)
<1>1. Pop /\ Given(readwait, FirstOfBuffer) /\ at > Len(buffer)
  BY DEF ReadyData
<1>2. Recorded # <<>> /\ Recorded' = Tail(Recorded)
  BY <1>1, Popped DEF PInv
<1>3. Len(buffer) \in Nat /\ at \in 0 .. Len(buffer) + 1 /\ at # 0
  BY <1>1, LenProperties DEF PInv, Data, Rest
<1>4. Headed(Recorded, buffer, at, mode = "wrap", running)
  BY <1>3 DEF HeadInv
<1>5. Len(Recorded) \in Nat \ {0} BY <1>2, EmptySeq DEF OrderInv
<1>6. Len(buffer) # 0 BY <1>3, <1>4, <1>5 DEF Headed
<1>7. buffer # <<>> /\ buffer[1] \in Packets /\ FirstOfBuffer = buffer[1]
  BY <1>3, <1>6, EmptySeq DEF FirstOfBuffer, PInv, Data
<1>8. last' = IF Peer(buffer[1]) THEN buffer[1].id ELSE last
  BY <1>1, <1>7, PeerIsNumbered DEF Given
<1> QED BY <1>2, <1>3, <1>4, <1>7, <1>8

LEMMA OrderReadyData ==
  ASSUME PInv, Rest, OrderInv, HeadInv, ReadyData
  PROVE  OrderInv'
<1>1. UNCHANGED <<wire, bpf, peers>> /\ at' = 0 /\ buffer' = <<>>
  BY DEF ReadyData, device, counts
<1>2. CASE ~IsEmpty /\ readwait # Nobody
  <2>1. /\ buffer # <<>> /\ Recorded # <<>> /\ Recorded' = Tail(Recorded)
        /\ last' = IF Peer(buffer[1]) THEN buffer[1].id ELSE last
        /\ Headed(Recorded, buffer, at, mode = "wrap", running)
    BY <1>2, Handed
  <2>2. Recorded' \in Seq(Packets)
    BY <2>1, HeadTailProperties DEF OrderInv
  <2>3. CASE Peer(buffer[1])
    <3>1. \A i \in 2 .. Len(Recorded) : Peer(Recorded[i]) => Recorded[i].id > buffer[1].id
      BY <2>1, <2>3 DEF Headed
    <3>2. Ordered(Tail(Recorded), <<>>, 0, bpf, buffer[1].id, peers)
      BY <2>1, <2>3, <3>1, OrderedHanded DEF OrderInv, PInv, Data
    <3> QED BY <1>1, <2>1, <2>2, <2>3, <3>2 DEF OrderInv
  <2>4. CASE ~Peer(buffer[1])
    <3>1. Ordered(Tail(Recorded), buffer, at, bpf, last, peers)
      BY <2>1, OrderedPopped DEF OrderInv
    <3>2. Ordered(Tail(Recorded), <<>>, 0, bpf, last, peers)
      BY <3>1, OrderedDone
    <3> QED BY <1>1, <2>1, <2>2, <2>4, <3>2 DEF OrderInv
  <2> QED BY <2>3, <2>4
<1>3. CASE ~(~IsEmpty /\ readwait # Nobody)
  <2>1. UNCHANGED <<ring, last>> BY <1>3 DEF ReadyData
  <2>2. Ordered(Recorded, <<>>, 0, bpf, last, peers)
    BY OrderedDone DEF OrderInv
  <2> QED BY <1>1, <2>1, <2>2, RingStays DEF OrderInv
<1> QED BY <1>2, <1>3

\* A reader that finds something in the ring.
LEMMA GivenFirst ==
  ASSUME PInv, OrderInv, NEW c \in Clients, ReadGiven(c)
  PROVE  /\ at = 0 /\ buffer = <<>> /\ UNCHANGED <<wire, bpf, fifo, peers, at, buffer, astray>>
         /\ Recorded # <<>> /\ Recorded' = Tail(Recorded) /\ Slot(0) = Recorded[1]
         /\ Recorded[1] = Head(Recorded) /\ Recorded[1] \in Packets
         /\ Response(c, 0, Recorded[1])
         /\ last' = IF Peer(Recorded[1]) THEN Recorded[1].id ELSE last
<1>1. /\ UNCHANGED <<wire, bpf, fifo, peers, at, buffer, astray>> /\ at = 0 /\ ~IsEmpty /\ Pop
      /\ Given(c, Slot(0))
  BY DEF ReadGiven, Takes, Idle, device, handler, counts
<1>2. Recorded # <<>> /\ Recorded' = Tail(Recorded) /\ Slot(0) = Recorded[1] /\ Recorded[1] = Head(Recorded)
  BY <1>1, Popped, EmptyRing DEF PInv
<1>3. Recorded[1] \in Packets
  BY <1>2, HeadTailProperties DEF OrderInv
<1>4. last' = IF Peer(Recorded[1]) THEN Recorded[1].id ELSE last
  BY <1>1, <1>2, <1>3, PeerIsNumbered DEF Given
<1>5. Response(c, 0, Recorded[1])
  BY <1>1, <1>2 DEF Given
<1> QED BY <1>1, <1>2, <1>3, <1>4, <1>5 DEF OrderInv

LEMMA OrderReadGiven ==
  ASSUME PInv, OrderInv, NEW c \in Clients, ReadGiven(c)
  PROVE  OrderInv'
<1>1. /\ at = 0 /\ buffer = <<>> /\ UNCHANGED <<wire, bpf, peers, at, buffer>>
      /\ Recorded # <<>> /\ Recorded' = Tail(Recorded)
      /\ last' = IF Peer(Recorded[1]) THEN Recorded[1].id ELSE last
  BY GivenFirst
<1>2. Recorded' \in Seq(Packets)
  BY <1>1, HeadTailProperties DEF OrderInv
<1>3. Ordered(Recorded, <<>>, at, bpf, last, peers)
  BY <1>1 DEF OrderInv
<1>4. Peer(Recorded[1]) => Ordered(Tail(Recorded), <<>>, at, bpf, Recorded[1].id, peers)
  BY <1>1, <1>3, OrderedGiven DEF OrderInv
<1>5. Ordered(Tail(Recorded), <<>>, at, bpf, last, peers)
  BY <1>1, <1>3, OrderedPopped DEF OrderInv
<1> QED BY <1>1, <1>2, <1>4, <1>5 DEF OrderInv

\* The other requests, the tools and the timers.
LEMMA OrderClients ==
  ASSUME PInv, OrderInv, NEW c \in Clients, Agent(c) \/ Tool(c), ~ReadGiven(c)
  PROVE  OrderInv'
<1> USE DEF Agent, Serve, Tool
<1>1. UNCHANGED <<wp, rp, slot, at, buffer>>
  BY DEF ReadWaits, ReadTooLate, WriteRequest, CaptureRequest, StopRequest, ModeRequest,
         DumpRequest, ClearRequest, Terminate, Timeout, Ask, Leave, handler, ring
<1>2. UNCHANGED <<last, peers>>
  BY DEF ReadWaits, ReadTooLate, WriteRequest, CaptureRequest, StopRequest, ModeRequest,
         DumpRequest, ClearRequest, Terminate, Timeout, Ask, Leave, counts, ghosts
<1>3. Recorded' = Recorded BY <1>1 DEF Recorded, Datanum, Slot
<1>4. \A i \in 1 .. Len(wire') : ~Peer(wire'[i])
  <2>1. CASE WriteRequest(c)
    <3> DEFINE p == [id |-> ask[c].id, time |-> 0]
    <3>1. ask[c].id \in Own /\ 0 \in 0 .. MaxTime
      BY <2>1, BoundsAssumption DEF WriteRequest, Takes, PInv, AsksTyped
    <3>2. p \in Packets /\ ~Peer(p)
      BY <3>1 DEF Packets, Peer
    <3>3. wire' = Append(wire, p) \/ wire' = wire
      BY <2>1 DEF WriteRequest
    <3> HIDE DEF p
    <3> QED BY <3>2, <3>3, AppendPlaces DEF OrderInv, PInv, Data
  <2>2. CASE ~WriteRequest(c)
    <3>1. wire' = wire
      BY <2>2 DEF ReadWaits, ReadTooLate, CaptureRequest, StopRequest, ModeRequest,
         DumpRequest, ClearRequest, Terminate, Timeout, Ask, Leave, device
    <3> QED BY <3>1 DEF OrderInv
  <2> QED BY <2>1, <2>2
<1>5. bpf' = bpf \/ bpf' = <<>>
  BY DEF ReadWaits, ReadTooLate, WriteRequest, CaptureRequest, StopRequest, ModeRequest,
         DumpRequest, ClearRequest, Terminate, Timeout, Ask, Leave, device
<1>6. Ordered(Recorded, buffer, at, bpf', last, peers)
  BY <1>5, OrderedFlushed DEF OrderInv
<1> QED BY <1>1, <1>2, <1>3, <1>4, <1>6 DEF OrderInv

-----------------------------------------------------------------------------
(* The queue of what was sent is in step with the device *)

\* q is what of s is the tools', by its identities and in its order: f says
\* where.
Placed(s, q, f) ==
  /\ f \in [1 .. Len(q) -> 1 .. Len(s)]
  /\ \A i, j \in 1 .. Len(q) : i < j => f[i] < f[j]
  /\ \A k \in 1 .. Len(s) : ~Peer(s[k]) => \E i \in 1 .. Len(q) : f[i] = k
  /\ \A i \in 1 .. Len(q) : q[i] = s[f[i]].id /\ ~Peer(s[f[i]])

Matches(s, q) == \E f : Placed(s, q, f)

LEMMA MatchNothing == Matches(<<>>, <<>>)
<1>1. Len(<<>>) = 0 /\ 1 .. 0 = {} BY EmptySeq
<1>2. Placed(<<>>, <<>>, [i \in {} |-> 0]) BY <1>1 DEF Placed
<1> QED BY <1>2 DEF Matches

\* Then there is nothing in the queue when nothing of the tools' is there.
LEMMA MatchNone ==
  ASSUME NEW s \in Seq(Packets), NEW q \in Seq(Own), Matches(s, q), \A i \in 1 .. Len(s) : Peer(s[i])
  PROVE  q = <<>>
<1>1. PICK f : Placed(s, q, f) BY DEF Matches
<1>2. ASSUME q # <<>> PROVE FALSE
  <2>1. 1 \in 1 .. Len(q) BY <1>2, EmptySeq
  <2> QED BY <1>1, <2>1 DEF Placed
<1> QED BY <1>2

\* The tools' packets of s are those of t, in the same order: h says where.
Moves(s, t, h) ==
  /\ h \in [1 .. Len(s) -> Int]
  /\ \A i \in 1 .. Len(s) : ~Peer(s[i]) => h[i] \in 1 .. Len(t) /\ t[h[i]].id = s[i].id
  /\ \A i, j \in 1 .. Len(s) : ~Peer(s[i]) /\ ~Peer(s[j]) /\ i < j => h[i] < h[j]
  /\ \A k \in 1 .. Len(t) : ~Peer(t[k]) => \E i \in 1 .. Len(s) : ~Peer(s[i]) /\ h[i] = k

LEMMA MatchMoved ==
  ASSUME NEW s \in Seq(Packets), NEW t \in Seq(Packets), NEW q \in Seq(Own), Matches(s, q),
         NEW h, Moves(s, t, h)
  PROVE  Matches(t, q)
<1>1. PICK f : Placed(s, q, f) BY DEF Matches
<1> DEFINE g == [i \in 1 .. Len(q) |-> h[f[i]]]
<1>2. \A i \in 1 .. Len(q) : f[i] \in 1 .. Len(s) /\ ~Peer(s[f[i]]) /\ q[i] = s[f[i]].id
  BY <1>1 DEF Placed
<1>3. \A i \in 1 .. Len(q) : g[i] = h[f[i]] /\ g[i] \in 1 .. Len(t) /\ t[g[i]].id = s[f[i]].id
  BY <1>2 DEF Moves
<1>4. \A i \in 1 .. Len(q) : q[i] = t[g[i]].id /\ ~Peer(t[g[i]])
  BY <1>2, <1>3 DEF Peer
<1>5. \A i, j \in 1 .. Len(q) : i < j => g[i] < g[j]
  BY <1>1, <1>2, <1>3 DEF Placed, Moves
<1>6. ASSUME NEW k \in 1 .. Len(t), ~Peer(t[k]) PROVE \E i \in 1 .. Len(q) : g[i] = k
  <2>1. PICK i \in 1 .. Len(s) : ~Peer(s[i]) /\ h[i] = k
    BY <1>6 DEF Moves
  <2>2. PICK j \in 1 .. Len(q) : f[j] = i
    BY <1>1, <2>1 DEF Placed
  <2> QED BY <1>3, <2>1, <2>2
<1>7. g \in [1 .. Len(q) -> 1 .. Len(t)]
  BY <1>3
<1> HIDE DEF g
<1>8. Placed(t, q, g) BY <1>4, <1>5, <1>6, <1>7 DEF Placed
<1> QED BY <1>8 DEF Matches

\* The first packet goes: a peer's, or a copy, which is the first of the queue.
LEMMA MatchTail ==
  ASSUME NEW s \in Seq(Packets), NEW q \in Seq(Own), Matches(s, q), s # <<>>, Peer(s[1])
  PROVE  Matches(Tail(s), q)
<1> DEFINE t == Tail(s)
           h == [i \in 1 .. Len(s) |-> i - 1]
<1>1. /\ Len(s) \in Nat \ {0} /\ t \in Seq(Packets) /\ Len(t) = Len(s) - 1
      /\ \A i \in 1 .. Len(t) : t[i] = s[i + 1]
  BY HeadTailProperties, EmptySeq
<1> HIDE DEF t
<1>2. \A i \in 1 .. Len(s) : h[i] = i - 1 OBVIOUS
<1>3. h \in [1 .. Len(s) -> Int] BY <1>1
<1> HIDE DEF h
<1>4. ASSUME NEW i \in 1 .. Len(s), ~Peer(s[i])
      PROVE  h[i] \in 1 .. Len(t) /\ t[h[i]].id = s[i].id
  <2>1. i # 1 BY <1>4
  <2>2. i - 1 \in 1 .. Len(t) /\ (i - 1) + 1 = i BY <1>1, <2>1
  <2>3. t[i - 1] = s[i] BY <1>1, <2>2
  <2> QED BY <1>2, <2>2, <2>3
<1>5. \A i, j \in 1 .. Len(s) : i < j => h[i] < h[j]
  BY <1>1, <1>2
<1>6. ASSUME NEW k \in 1 .. Len(t), ~Peer(t[k]) PROVE \E i \in 1 .. Len(s) : ~Peer(s[i]) /\ h[i] = k
  <2>1. k + 1 \in 1 .. Len(s) /\ h[k + 1] = k BY <1>1, <1>2
  <2>2. t[k] = s[k + 1] BY <1>1
  <2> QED BY <1>6, <2>1, <2>2
<1>7. Moves(s, t, h) BY <1>3, <1>4, <1>5, <1>6 DEF Moves
<1>8. Matches(t, q) BY <1>1, <1>7, MatchMoved
<1> QED BY <1>8 DEF t

LEMMA MatchHead ==
  ASSUME NEW s \in Seq(Packets), NEW q \in Seq(Own), Matches(s, q), s # <<>>, ~Peer(s[1])
  PROVE  q # <<>> /\ Head(q) = s[1].id /\ Matches(Tail(s), Tail(q))
<1>1. PICK f : Placed(s, q, f) BY DEF Matches
<1>2. Len(s) \in Nat \ {0} /\ Len(q) \in Nat BY EmptySeq, LenProperties
<1>3. PICK m \in 1 .. Len(q) : f[m] = 1
  BY <1>1, <1>2 DEF Placed
<1>4. 1 \in 1 .. Len(q) /\ q # <<>> BY <1>2, <1>3, EmptySeq
<1>5. \A i \in 1 .. Len(q) : f[i] \in 1 .. Len(s)
  BY <1>1 DEF Placed
<1>6. f[1] = 1
  <2>1. m # 1 => f[1] < f[m] BY <1>1, <1>3, <1>4 DEF Placed
  <2> QED BY <1>3, <1>4, <1>5, <2>1
<1>7. Head(q) = s[1].id
  BY <1>1, <1>4, <1>6 DEF Placed
<1> DEFINE t == Tail(s)
           r == Tail(q)
           g == [i \in 1 .. Len(r) |-> f[i + 1] - 1]
<1>8. /\ t \in Seq(Packets) /\ Len(t) = Len(s) - 1 /\ \A i \in 1 .. Len(t) : t[i] = s[i + 1]
  BY HeadTailProperties
<1>9. /\ r \in Seq(Own) /\ Len(r) = Len(q) - 1 /\ \A i \in 1 .. Len(r) : r[i] = q[i + 1]
  BY <1>4, HeadTailProperties
<1> HIDE DEF t, r
<1>10. ASSUME NEW i \in 1 .. Len(r)
       PROVE  /\ i + 1 \in 1 .. Len(q) /\ g[i] = f[i + 1] - 1 /\ g[i] \in 1 .. Len(t)
              /\ r[i] = t[g[i]].id /\ ~Peer(t[g[i]])
  <2>1. i + 1 \in 1 .. Len(q) /\ 1 < i + 1 BY <1>2, <1>9
  <2>2. f[1] < f[i + 1] BY <1>1, <1>4, <2>1 DEF Placed
  <2>3. f[i + 1] \in 2 .. Len(s) BY <1>5, <1>6, <2>1, <2>2
  <2>4. f[i + 1] - 1 \in 1 .. Len(t) /\ (f[i + 1] - 1) + 1 = f[i + 1]
    BY <1>2, <1>8, <2>3
  <2>5. t[f[i + 1] - 1] = s[f[i + 1]] BY <1>8, <2>4
  <2>6. q[i + 1] = s[f[i + 1]].id /\ ~Peer(s[f[i + 1]])
    BY <1>1, <2>1 DEF Placed
  <2> QED BY <1>9, <2>1, <2>4, <2>5, <2>6
<1>11. ASSUME NEW i \in 1 .. Len(r), NEW j \in 1 .. Len(r), i < j PROVE g[i] < g[j]
  <2>1. i + 1 < j + 1 /\ i + 1 \in 1 .. Len(q) /\ j + 1 \in 1 .. Len(q)
    BY <1>9, <1>10, <1>11
  <2>2. f[i + 1] < f[j + 1] BY <1>1, <2>1 DEF Placed
  <2>3. f[i + 1] \in Int /\ f[j + 1] \in Int BY <1>5, <2>1
  <2> QED BY <1>10, <2>2, <2>3
<1>12. ASSUME NEW k \in 1 .. Len(t), ~Peer(t[k]) PROVE \E i \in 1 .. Len(r) : g[i] = k
  <2>1. k + 1 \in 1 .. Len(s) /\ k + 1 # 1 /\ t[k] = s[k + 1]
    BY <1>2, <1>8
  <2>2. PICK j \in 1 .. Len(q) : f[j] = k + 1
    BY <1>1, <1>12, <2>1 DEF Placed
  <2>3. j # 1 BY <1>6, <2>1, <2>2
  <2>4. j - 1 \in 1 .. Len(r) /\ (j - 1) + 1 = j BY <1>2, <1>9, <2>3
  <2>5. g[j - 1] = f[j] - 1 BY <1>10, <2>4
  <2>6. g[j - 1] = k BY <2>2, <2>5
  <2> QED BY <2>4, <2>6
<1>13. g \in [1 .. Len(r) -> 1 .. Len(t)] BY <1>10
<1> HIDE DEF g
<1>14. Placed(t, r, g) BY <1>10, <1>11, <1>12, <1>13 DEF Placed
<1> QED BY <1>4, <1>7, <1>14 DEF Matches, t, r

\* A tool sends.
LEMMA MatchSent ==
  ASSUME NEW s \in Seq(Packets), NEW q \in Seq(Own), Matches(s, q), NEW p \in Packets, ~Peer(p)
  PROVE  Matches(Append(s, p), Append(q, p.id))
<1>1. PICK f : Placed(s, q, f) BY DEF Matches
<1> DEFINE t == Append(s, p)
           r == Append(q, p.id)
           n == Len(q) + 1
           g == [i \in 1 .. Len(r) |-> IF i = n THEN Len(s) + 1 ELSE f[i]]
<1>2. Len(s) \in Nat /\ Len(q) \in Nat BY LenProperties
<1>3. /\ Len(t) = Len(s) + 1 /\ t[Len(s) + 1] = p /\ \A i \in 1 .. Len(s) : t[i] = s[i]
  BY AppendProperties
<1>4. /\ Len(r) = n /\ r[n] = p.id /\ \A i \in 1 .. Len(q) : r[i] = q[i]
  <2>1. p.id \in Own BY DEF Peer
  <2> QED BY <2>1, AppendProperties
<1> HIDE DEF t, r
<1>5. /\ n \in 1 .. Len(r) /\ g[n] = Len(s) + 1
      /\ \A i \in 1 .. Len(q) : i \in 1 .. Len(r) /\ i < n /\ g[i] = f[i] /\ f[i] \in 1 .. Len(s)
      /\ \A i \in 1 .. Len(r) : i \in 1 .. Len(q) \/ i = n
  <2>1. n \in 1 .. Len(r) /\ \A i \in 1 .. Len(r) : i \in 1 .. Len(q) \/ i = n
    BY <1>2, <1>4
  <2>2. \A i \in 1 .. Len(q) : i \in 1 .. Len(r) /\ i < n /\ i # n
    BY <1>2, <1>4
  <2>3. \A i \in 1 .. Len(q) : f[i] \in 1 .. Len(s)
    BY <1>1 DEF Placed
  <2> QED BY <2>1, <2>2, <2>3
<1> HIDE DEF g, n
<1>6. \A i \in 1 .. Len(r) : g[i] \in 1 .. Len(t) /\ r[i] = t[g[i]].id /\ ~Peer(t[g[i]])
  <2>1. ASSUME NEW i \in 1 .. Len(q)
        PROVE  g[i] \in 1 .. Len(t) /\ r[i] = t[g[i]].id /\ ~Peer(t[g[i]])
    <3>1. q[i] = s[f[i]].id /\ ~Peer(s[f[i]]) BY <1>1 DEF Placed
    <3> QED BY <1>2, <1>3, <1>4, <1>5, <3>1
  <2>2. g[n] \in 1 .. Len(t) /\ r[n] = t[g[n]].id /\ ~Peer(t[g[n]])
    BY <1>2, <1>3, <1>4, <1>5
  <2> QED BY <1>5, <2>1, <2>2
<1>7. ASSUME NEW i \in 1 .. Len(r), NEW j \in 1 .. Len(r), i < j PROVE g[i] < g[j]
  <2>1. i \in 1 .. Len(q) BY <1>2, <1>4, <1>5, <1>7 DEF n
  <2>2. CASE j \in 1 .. Len(q) BY <1>1, <1>5, <1>7, <2>1, <2>2 DEF Placed
  <2>3. CASE j = n BY <1>2, <1>5, <2>1, <2>3
  <2> QED BY <1>5, <2>2, <2>3
<1>8. ASSUME NEW k \in 1 .. Len(t), ~Peer(t[k]) PROVE \E i \in 1 .. Len(r) : g[i] = k
  <2>1. CASE k \in 1 .. Len(s)
    <3>1. \E i \in 1 .. Len(q) : f[i] = k BY <1>1, <1>3, <1>8, <2>1 DEF Placed
    <3> QED BY <1>5, <3>1
  <2>2. CASE k = Len(s) + 1 BY <1>5, <2>2
  <2> QED BY <1>2, <1>3, <2>1, <2>2
<1>9. g \in [1 .. Len(r) -> 1 .. Len(t)]
  <2>1. DOMAIN g = 1 .. Len(r) /\ g = [i \in 1 .. Len(r) |-> g[i]] BY DEF g
  <2> QED BY <1>6, <2>1
<1>10. Placed(t, r, g) BY <1>6, <1>7, <1>8, <1>9 DEF Placed
<1> QED BY <1>10 DEF Matches, t, r

LEMMA ConcatPlaces ==
  ASSUME NEW a \in Seq(Packets), NEW b \in Seq(Packets)
  PROVE  /\ Len(a) \in Nat /\ Len(b) \in Nat
         /\ a \o b \in Seq(Packets) /\ Len(a \o b) = Len(a) + Len(b)
         /\ \A i \in 1 .. Len(a) : (a \o b)[i] = a[i]
         /\ \A i \in 1 .. Len(b) : (a \o b)[Len(a) + i] = b[i]
<1>1. Len(a) \in Nat /\ Len(b) \in Nat BY LenProperties
<1>2. /\ a \o b \in Seq(Packets) /\ Len(a \o b) = Len(a) + Len(b)
      /\ \A i \in 1 .. Len(a) + Len(b) : (a \o b)[i] = IF i <= Len(a) THEN a[i] ELSE b[i - Len(a)]
  BY ConcatProperties
<1>3. ASSUME NEW i \in 1 .. Len(a) PROVE (a \o b)[i] = a[i]
  BY <1>1, <1>2
<1>4. ASSUME NEW i \in 1 .. Len(b) PROVE (a \o b)[Len(a) + i] = b[i]
  <2>1. Len(a) + i \in 1 .. Len(a) + Len(b) /\ ~(Len(a) + i <= Len(a)) /\ (Len(a) + i) - Len(a) = i
    BY <1>1
  <2> QED BY <1>2, <2>1
<1> QED BY <1>1, <1>2, <1>3, <1>4

\* A peer's packet is captured: it comes in the middle.
LEMMA MatchCaptured ==
  ASSUME NEW a \in Seq(Packets), NEW b \in Seq(Packets), NEW q \in Seq(Own), Matches(a \o b, q),
         NEW p \in Packets, Peer(p)
  PROVE  Matches(Append(a, p) \o b, q)
<1> DEFINE s == a \o b
           c == Append(a, p)
           t == c \o b
           h == [i \in 1 .. Len(s) |-> IF i <= Len(a) THEN i ELSE i + 1]
<1>1. /\ c \in Seq(Packets) /\ Len(c) = Len(a) + 1 /\ c[Len(a) + 1] = p
      /\ \A i \in 1 .. Len(a) : c[i] = a[i]
  BY AppendProperties
<1> HIDE DEF c
<1>2. /\ Len(a) \in Nat /\ Len(b) \in Nat /\ s \in Seq(Packets) /\ Len(s) = Len(a) + Len(b)
      /\ \A i \in 1 .. Len(a) : s[i] = a[i]
      /\ \A i \in 1 .. Len(b) : s[Len(a) + i] = b[i]
  BY ConcatPlaces
<1>3. /\ t \in Seq(Packets) /\ Len(t) = Len(c) + Len(b)
      /\ \A i \in 1 .. Len(c) : t[i] = c[i]
      /\ \A i \in 1 .. Len(b) : t[Len(c) + i] = b[i]
  BY <1>1, ConcatPlaces
<1> HIDE DEF s, t
<1>4. \A i \in 1 .. Len(s) : h[i] = IF i <= Len(a) THEN i ELSE i + 1
  OBVIOUS
<1>5. h \in [1 .. Len(s) -> Int] BY <1>2
<1> HIDE DEF h
<1>6. ASSUME NEW i \in 1 .. Len(s)
      PROVE  h[i] \in 1 .. Len(t) /\ t[h[i]] = s[i]
  <2>1. CASE i <= Len(a)
    <3>1. i \in 1 .. Len(a) /\ i \in 1 .. Len(c) BY <1>1, <1>2, <2>1
    <3> QED BY <1>1, <1>2, <1>3, <1>4, <2>1, <3>1
  <2>2. CASE ~(i <= Len(a))
    <3>1. i - Len(a) \in 1 .. Len(b) /\ Len(a) + (i - Len(a)) = i /\ Len(c) + (i - Len(a)) = i + 1
      BY <1>1, <1>2, <2>2
    <3>2. s[i] = b[i - Len(a)] BY <1>2, <3>1
    <3>3. t[i + 1] = b[i - Len(a)] BY <1>3, <3>1
    <3>4. h[i] = i + 1 /\ i + 1 \in 1 .. Len(t) BY <1>1, <1>2, <1>3, <1>4, <2>2
    <3> QED BY <3>2, <3>3, <3>4
  <2> QED BY <2>1, <2>2
<1>7. \A i, j \in 1 .. Len(s) : i < j => h[i] < h[j]
  BY <1>2, <1>4
<1>8. ASSUME NEW k \in 1 .. Len(t), ~Peer(t[k]) PROVE \E i \in 1 .. Len(s) : ~Peer(s[i]) /\ h[i] = k
  <2>1. k # Len(a) + 1
    <3>1. Len(a) + 1 \in 1 .. Len(c) BY <1>1, <1>2
    <3> QED BY <1>1, <1>3, <1>8, <3>1
  <2>2. PICK i \in 1 .. Len(s) : h[i] = k
    <3>1. CASE k <= Len(a)
      <4>1. k \in 1 .. Len(s) BY <1>2, <3>1
      <4> QED BY <1>4, <3>1, <4>1
    <3>2. CASE ~(k <= Len(a))
      <4>1. k - 1 \in 1 .. Len(s) /\ ~(k - 1 <= Len(a)) /\ (k - 1) + 1 = k
        BY <1>1, <1>2, <1>3, <2>1, <3>2
      <4> QED BY <1>4, <4>1
    <3> QED BY <3>1, <3>2
  <2>3. ~Peer(s[i]) BY <1>6, <1>8, <2>2
  <2> QED BY <2>2, <2>3
<1>9. Moves(s, t, h) BY <1>5, <1>6, <1>7, <1>8 DEF Moves
<1>10. Matches(s, q) BY DEF s
<1>11. Matches(t, q) BY <1>2, <1>3, <1>9, <1>10, MatchMoved
<1> QED BY <1>11 DEF t, c

\* A sent packet is captured: what comes is the same, but for the time.
LEMMA MatchTransmitted ==
  ASSUME NEW a \in Seq(Packets), NEW b \in Seq(Packets), b # <<>>, NEW q \in Seq(Own),
         Matches(a \o b, q), NEW p \in Packets, p.id = b[1].id
  PROVE  Matches(Append(a, p) \o Tail(b), q)
<1> DEFINE s == a \o b
           c == Append(a, p)
           d == Tail(b)
           t == c \o d
           h == [i \in 1 .. Len(s) |-> i]
<1>1. /\ c \in Seq(Packets) /\ Len(c) = Len(a) + 1 /\ c[Len(a) + 1] = p
      /\ \A i \in 1 .. Len(a) : c[i] = a[i]
  BY AppendProperties
<1>2. /\ d \in Seq(Packets) /\ Len(d) = Len(b) - 1 /\ \A i \in 1 .. Len(d) : d[i] = b[i + 1]
      /\ Len(b) \in Nat \ {0}
  BY HeadTailProperties, EmptySeq
<1> HIDE DEF c, d
<1>3. /\ Len(a) \in Nat /\ s \in Seq(Packets) /\ Len(s) = Len(a) + Len(b)
      /\ \A i \in 1 .. Len(a) : s[i] = a[i]
      /\ \A i \in 1 .. Len(b) : s[Len(a) + i] = b[i]
  BY ConcatPlaces
<1>4. /\ t \in Seq(Packets) /\ Len(t) = Len(c) + Len(d)
      /\ \A i \in 1 .. Len(c) : t[i] = c[i]
      /\ \A i \in 1 .. Len(d) : t[Len(c) + i] = d[i]
  BY <1>1, <1>2, ConcatPlaces
<1> HIDE DEF s, t
<1>5. Len(t) = Len(s) BY <1>1, <1>2, <1>3, <1>4
<1>6. ASSUME NEW i \in 1 .. Len(s) PROVE t[i].id = s[i].id
  <2>1. CASE i <= Len(a)
    <3>1. i \in 1 .. Len(a) /\ i \in 1 .. Len(c) BY <1>1, <1>3, <2>1
    <3> QED BY <1>1, <1>3, <1>4, <3>1
  <2>2. CASE i = Len(a) + 1
    <3>1. 1 \in 1 .. Len(b) /\ i \in 1 .. Len(c) BY <1>1, <1>2, <1>3, <2>2
    <3>2. s[i] = b[1] BY <1>3, <2>2, <3>1
    <3>3. t[i] = p BY <1>1, <1>4, <2>2, <3>1
    <3> QED BY <3>2, <3>3
  <2>3. CASE i > Len(a) + 1
    <3>1. i - Len(c) \in 1 .. Len(d) /\ Len(c) + (i - Len(c)) = i
      BY <1>1, <1>2, <1>3, <2>3
    <3>2. t[i] = d[i - Len(c)] BY <1>4, <3>1
    <3>3. d[i - Len(c)] = b[(i - Len(c)) + 1] BY <1>2, <3>1
    <3>4. (i - Len(c)) + 1 \in 1 .. Len(b) /\ Len(a) + ((i - Len(c)) + 1) = i
      BY <1>1, <1>2, <1>3, <3>1
    <3>5. s[i] = b[(i - Len(c)) + 1] BY <1>3, <3>4
    <3> QED BY <3>2, <3>3, <3>5
  <2> QED BY <1>3, <2>1, <2>2, <2>3
<1>7. h \in [1 .. Len(s) -> Int] /\ \A i \in 1 .. Len(s) : h[i] = i
  BY <1>3
<1> HIDE DEF h
<1>8. \A i \in 1 .. Len(s) : ~Peer(s[i]) => h[i] \in 1 .. Len(t) /\ t[h[i]].id = s[i].id
  BY <1>5, <1>6, <1>7
<1>9. \A i, j \in 1 .. Len(s) : ~Peer(s[i]) /\ ~Peer(s[j]) /\ i < j => h[i] < h[j]
  BY <1>7
<1>10. \A k \in 1 .. Len(t) : ~Peer(t[k]) => \E i \in 1 .. Len(s) : ~Peer(s[i]) /\ h[i] = k
  BY <1>5, <1>6, <1>7 DEF Peer
<1>11. Matches(s, q) BY DEF s
<1>12. Moves(s, t, h) BY <1>7, <1>8, <1>9, <1>10 DEF Moves
<1>13. Matches(t, q) BY <1>3, <1>4, <1>11, <1>12, MatchMoved
<1> QED BY <1>13 DEF t, c, d

\* The device is flushed, which holds nothing of the tools'.
LEMMA MatchFlushed ==
  ASSUME NEW a \in Seq(Packets), NEW b \in Seq(Packets), NEW q \in Seq(Own), Matches(a \o b, q),
         \A i \in 1 .. Len(a) : Peer(a[i])
  PROVE  Matches(b, q)
<1> DEFINE s == a \o b
           h == [i \in 1 .. Len(s) |-> i - Len(a)]
<1>1. /\ Len(a) \in Nat /\ Len(b) \in Nat /\ s \in Seq(Packets) /\ Len(s) = Len(a) + Len(b)
      /\ \A i \in 1 .. Len(a) : s[i] = a[i]
      /\ \A i \in 1 .. Len(b) : s[Len(a) + i] = b[i]
  BY ConcatPlaces
<1> HIDE DEF s
<1>2. h \in [1 .. Len(s) -> Int] /\ \A i \in 1 .. Len(s) : h[i] = i - Len(a)
  BY <1>1
<1> HIDE DEF h
<1>3. ASSUME NEW i \in 1 .. Len(s), ~Peer(s[i]) PROVE h[i] \in 1 .. Len(b) /\ b[h[i]].id = s[i].id
  <2>1. ~(i \in 1 .. Len(a)) BY <1>1, <1>3
  <2>2. i - Len(a) \in 1 .. Len(b) /\ Len(a) + (i - Len(a)) = i BY <1>1, <2>1
  <2>3. s[i] = b[i - Len(a)] BY <1>1, <2>2
  <2> QED BY <1>2, <2>2, <2>3
<1>4. \A i, j \in 1 .. Len(s) : i < j => h[i] < h[j]
  BY <1>1, <1>2
<1>5. ASSUME NEW k \in 1 .. Len(b), ~Peer(b[k]) PROVE \E i \in 1 .. Len(s) : ~Peer(s[i]) /\ h[i] = k
  <2>1. Len(a) + k \in 1 .. Len(s) /\ h[Len(a) + k] = k BY <1>1, <1>2
  <2>2. s[Len(a) + k] = b[k] BY <1>1
  <2> QED BY <1>5, <2>1, <2>2
<1>6. Moves(s, b, h) BY <1>2, <1>3, <1>4, <1>5 DEF Moves
<1>7. Matches(s, q) BY DEF s
<1> QED BY <1>1, <1>6, <1>7, MatchMoved

\* What is still to pass the filter.
ToCome ==
  IF at = 0 THEN bpf \o wire ELSE SubSeq(buffer, at, Len(buffer)) \o (bpf \o wire)

\* Unless it is out of step, the queue holds what is to come of the tools'
\* packets, and none of them was recorded.
StepInv ==
  ~astray => Matches(ToCome, fifo) /\ \A i \in 1 .. Len(Recorded) : Peer(Recorded[i])

\* The start of the rest of the buffer.
LEMMA ComesFirst ==
  ASSUME NEW buf \in Seq(Packets), NEW n \in 1 .. Len(buf), NEW x \in Seq(Packets)
  PROVE  LET s == SubSeq(buf, n, Len(buf)) \o x
         IN  /\ s \in Seq(Packets) /\ s # <<>> /\ s[1] = buf[n]
             /\ Tail(s) = SubSeq(buf, n + 1, Len(buf)) \o x
<1> DEFINE r == SubSeq(buf, n, Len(buf))
           u == SubSeq(buf, n + 1, Len(buf))
           s == r \o x
<1>1. Len(buf) \in Nat /\ n \in Int /\ n + 1 \in Int /\ n \in 1 .. Len(buf) /\ n <= Len(buf)
  BY LenProperties
<1>2. \A i \in n .. Len(buf) : buf[i] \in Packets
  BY <1>1
<1>3. \A i \in n + 1 .. Len(buf) : buf[i] \in Packets
  BY <1>1
<1>4. /\ r \in Seq(Packets) /\ Len(r) = Len(buf) - n + 1
      /\ \A i \in 1 .. Len(buf) - n + 1 : r[i] = buf[n + i - 1]
  BY <1>1, <1>2, SubSeqProperties
<1>5. /\ u \in Seq(Packets) /\ Len(u) = Len(buf) - n
      /\ \A i \in 1 .. Len(buf) - n : u[i] = buf[n + i]
  <2>1. /\ u \in Seq(Packets) /\ Len(u) = IF n + 1 <= Len(buf) THEN Len(buf) - (n + 1) + 1 ELSE 0
        /\ \A i \in 1 .. Len(buf) - (n + 1) + 1 : u[i] = buf[(n + 1) + i - 1]
    BY <1>1, <1>3, SubSeqProperties
  <2>2. \A i \in 1 .. Len(buf) - n : i \in 1 .. Len(buf) - (n + 1) + 1 /\ (n + 1) + i - 1 = n + i
    BY <1>1
  <2>3. Len(u) = Len(buf) - n BY <1>1, <2>1
  <2> QED BY <2>1, <2>2, <2>3
<1> HIDE DEF r, u
<1>6. /\ Len(x) \in Nat /\ s \in Seq(Packets) /\ Len(s) = Len(r) + Len(x)
      /\ \A i \in 1 .. Len(r) : s[i] = r[i]
      /\ \A i \in 1 .. Len(x) : s[Len(r) + i] = x[i]
  BY <1>4, ConcatPlaces
<1>7. /\ u \o x \in Seq(Packets) /\ Len(u \o x) = Len(u) + Len(x)
      /\ \A i \in 1 .. Len(u) : (u \o x)[i] = u[i]
      /\ \A i \in 1 .. Len(x) : (u \o x)[Len(u) + i] = x[i]
  BY <1>5, ConcatPlaces
<1> HIDE DEF s
<1>8. s # <<>> /\ s[1] = buf[n]
  <2>1. 1 \in 1 .. Len(r) /\ n + 1 - 1 = n /\ Len(s) # 0 BY <1>1, <1>4, <1>6
  <2>2. s[1] = r[1] /\ r[1] = buf[n] BY <1>4, <1>6, <2>1
  <2> QED BY <2>1, <2>2, EmptySeq
<1>9. /\ Tail(s) \in Seq(Packets) /\ Len(Tail(s)) = Len(s) - 1
      /\ \A i \in 1 .. Len(Tail(s)) : Tail(s)[i] = s[i + 1]
  BY <1>6, <1>8, HeadTailProperties
<1>10. Len(Tail(s)) = Len(u \o x) BY <1>1, <1>4, <1>5, <1>6, <1>7, <1>9
<1>11. ASSUME NEW i \in 1 .. Len(Tail(s)) PROVE Tail(s)[i] = (u \o x)[i]
  <2>1. CASE i <= Len(u)
    <3>1. i \in 1 .. Len(u) /\ i + 1 \in 1 .. Len(r) /\ n + (i + 1) - 1 = n + i
      BY <1>1, <1>4, <1>5, <2>1
    <3>2. s[i + 1] = r[i + 1] /\ r[i + 1] = buf[n + i]
      BY <1>4, <1>6, <3>1
    <3>3. (u \o x)[i] = u[i] /\ u[i] = buf[n + i]
      BY <1>5, <1>7, <3>1
    <3> QED BY <1>9, <3>2, <3>3
  <2>2. CASE ~(i <= Len(u))
    <3>1. /\ i - Len(u) \in 1 .. Len(x) /\ Len(u) + (i - Len(u)) = i
          /\ Len(r) + (i - Len(u)) = i + 1
      BY <1>1, <1>4, <1>5, <1>6, <1>9, <2>2
    <3>2. s[i + 1] = x[i - Len(u)] BY <1>6, <3>1
    <3>3. (u \o x)[i] = x[i - Len(u)] BY <1>7, <3>1
    <3> QED BY <1>9, <3>2, <3>3
  <2> QED BY <2>1, <2>2
<1>12. Tail(s) = u \o x
  BY <1>7, <1>9, <1>10, <1>11, SeqEqual
<1> QED BY <1>6, <1>8, <1>12 DEF s, r, u

LEMMA ComesType ==
  ASSUME PInv
  PROVE  /\ bpf \o wire \in Seq(Packets) /\ (at = 0 => ToCome = bpf \o wire)
         /\ bpf \in Seq(Packets) /\ wire \in Seq(Packets)
BY ConcatProperties DEF PInv, Data, ToCome

LEMMA StepNetwork == ASSUME PInv, Rest, OrderInv, StepInv, Network PROVE StepInv'
<1> SUFFICES ASSUME ~astray' PROVE StepInv' BY DEF StepInv
<1>1. UNCHANGED <<ring, fifo>> /\ at = 0 /\ at' = 0 /\ ~Hidden
  BY DEF Network, Arrives, Transmitted, Hidden, Tick, handler, device
<1>2. Recorded' = Recorded BY <1>1, RingStays
<1>3. ~astray BY <1>1 DEF Network, Arrives, Transmitted, Tick, ghosts
<1>4. Matches(bpf \o wire, fifo) /\ \A i \in 1 .. Len(Recorded) : Peer(Recorded[i])
  BY <1>1, <1>3, ComesType DEF StepInv
<1>5. Matches(bpf' \o wire', fifo)
  <2>1. CASE Arrives
    <3> DEFINE p == [id |-> peers + 1, time |-> now]
    <3>1. p.id \in 1 .. MaxPeers /\ p \in Packets
      BY <2>1, BoundsAssumption DEF Arrives, PInv, Data, Packets
    <3>2. Peer(p) BY <3>1, BoundsAssumption, PeerIsNumbered
    <3>3. bpf' = Append(bpf, p) /\ wire' = wire
      BY <2>1 DEF Arrives
    <3> HIDE DEF p
    <3> QED BY <1>4, <3>1, <3>2, <3>3, ComesType, MatchCaptured DEF Rest
  <2>2. CASE Transmitted
    <3> DEFINE p == [Head(wire) EXCEPT !.time = now]
    <3>1. wire # <<>> /\ wire' = Tail(wire) /\ bpf' = Append(bpf, p)
      BY <2>2 DEF Transmitted
    <3>2. Head(wire) \in Packets /\ Head(wire) = wire[1]
      BY <3>1, HeadTailProperties, ComesType
    <3>3. p \in Packets /\ p.id = wire[1].id
      BY <3>2, StampedPacket DEF PInv, Data, Packets
    <3> HIDE DEF p
    <3> QED BY <1>4, <3>1, <3>3, ComesType, MatchTransmitted DEF Rest
  <2>3. CASE Tick
    BY <1>4, <2>3 DEF Tick, device
  <2> QED BY <1>1, <2>1, <2>2, <2>3 DEF Network
<1>6. ToCome' = bpf' \o wire' BY <1>1 DEF ToCome
<1> QED BY <1>1, <1>2, <1>4, <1>5, <1>6 DEF StepInv

LEMMA StepReceive ==
  ASSUME PInv, Rest, OrderInv, StepInv, Receive \/ ClearReceives \/ ClearGivesUp
  PROVE  StepInv'
<1> SUFFICES ASSUME ~astray' PROVE StepInv' BY DEF StepInv
<1>1. UNCHANGED <<ring, wire>> /\ at = 0 /\ at' = 1 /\ ~astray
  <2>1. CASE Receive BY <2>1 DEF Receive, Idle, ghosts
  <2>2. CASE ClearReceives BY <2>2 DEF ClearReceives, ghosts
  <2>3. CASE ClearGivesUp BY <2>3 DEF ClearGivesUp
  <2> QED BY <2>1, <2>2, <2>3
<1>2. Recorded' = Recorded BY <1>1, RingStays
<1>3. Matches(bpf \o wire, fifo) /\ \A i \in 1 .. Len(Recorded) : Peer(Recorded[i])
  BY <1>1, ComesType DEF StepInv
<1>4. CASE Receive \/ ClearReceives
  <2>1. buffer' = bpf /\ bpf' = <<>> /\ fifo' = fifo
    BY <1>4 DEF Receive, ClearReceives
  <2>2. ToCome' = SubSeq(bpf, 1, Len(bpf)) \o (<<>> \o wire)
    BY <1>1, <2>1 DEF ToCome
  <2>3. SubSeq(bpf, 1, Len(bpf)) = bpf /\ <<>> \o wire = wire
    BY ComesType, SubSeqFull, ConcatEmptySeq
  <2> QED BY <1>2, <1>3, <2>1, <2>2, <2>3 DEF StepInv
<1>5. CASE ClearGivesUp
  <2>1. fifo # <<>> /\ bpf = <<>> /\ wire = <<>>
    BY <1>5 DEF ClearGivesUp
  <2>2. bpf \o wire = <<>> BY <2>1, ComesType, ConcatEmptySeq
  <2>3. \A i \in 1 .. Len(bpf \o wire) : Peer((bpf \o wire)[i])
    BY <2>2, EmptySeq
  <2>4. fifo = <<>> BY <1>3, <2>3, ComesType, MatchNone DEF Rest
  <2> QED BY <2>1, <2>4
<1> QED BY <1>4, <1>5

LEMMA StepFilter == ASSUME PInv, Rest, OrderInv, StepInv, FilterOne PROVE StepInv'
<1> SUFFICES ASSUME ~astray' PROVE StepInv' BY DEF StepInv
<1> DEFINE p == buffer[at]
           x == bpf \o wire
           s == SubSeq(buffer, at, Len(buffer)) \o x
<1>1. UNCHANGED <<wire, bpf, buffer>> /\ ~astray
  BY DEF FilterOne, ghosts
<1>2. at \in 1 .. Len(buffer) /\ at' = at + 1 /\ p \in Packets
  BY FilterRecords
<1>3. at # 0 /\ at' # 0
  <2>1. Len(buffer) \in Nat BY LenProperties DEF PInv, Data
  <2> QED BY <1>2, <2>1
<1>4. Matches(s, fifo) /\ \A i \in 1 .. Len(Recorded) : Peer(Recorded[i])
  BY <1>1, <1>3 DEF StepInv, ToCome
<1>5. /\ s \in Seq(Packets) /\ s # <<>> /\ s[1] = p
      /\ Tail(s) = SubSeq(buffer, at + 1, Len(buffer)) \o x
  BY <1>2, ComesFirst, ComesType DEF PInv, Data
<1>6. ToCome' = Tail(s)
  BY <1>1, <1>2, <1>3, <1>5 DEF ToCome
<1> HIDE DEF s, x, p
<1>7. fifo \in Seq(Own) BY DEF Rest
<1>8. CASE Peer(p)
  <2>1. ~IsCopy(p)
    <3>1. fifo # <<>> => Head(fifo) \in Own BY <1>7, HeadTailProperties
    <3> QED BY <1>8, <3>1 DEF IsCopy, Peer
  <2>2. fifo' = fifo BY <2>1 DEF FilterOne, p
  <2>3. Matches(Tail(s), fifo) BY <1>4, <1>5, <1>7, <1>8, MatchTail
  <2>4. Append(Recorded, p) \in Seq(Packets) /\ Append(Recorded, p) # <<>>
    BY <1>2, AppendProperties DEF OrderInv
  <2>5. \A i \in 1 .. Len(Append(Recorded, p)) : Peer(Append(Recorded, p)[i])
    BY <1>2, <1>4, <1>8, AppendPlaces DEF OrderInv
  <2>6. \A i \in 1 .. Len(Tail(Append(Recorded, p))) : Peer(Tail(Append(Recorded, p))[i])
    BY <2>4, <2>5, TailPlaces
  <2>7. Recorded' = Recorded \/ Recorded' = Append(Recorded, p) \/ Recorded' = Tail(Append(Recorded, p))
    BY FilterRecords DEF p
  <2>8. \A i \in 1 .. Len(Recorded') : Peer(Recorded'[i])
    BY <1>4, <2>5, <2>6, <2>7
  <2> QED BY <1>6, <2>2, <2>3, <2>8 DEF StepInv
<1>9. CASE ~Peer(p)
  <2>1. fifo # <<>> /\ Head(fifo) = p.id /\ Matches(Tail(s), Tail(fifo))
    BY <1>4, <1>5, <1>7, <1>9, MatchHead
  <2>2. fifo' = Tail(fifo) /\ UNCHANGED ring
    BY <2>1 DEF FilterOne, IsCopy, p
  <2>3. Recorded' = Recorded BY <2>2, RingStays
  <2> QED BY <1>4, <1>6, <2>1, <2>2, <2>3 DEF StepInv
<1> QED BY <1>8, <1>9

LEMMA StepReadyData ==
  ASSUME PInv, Rest, OrderInv, HeadInv, StepInv, ReadyData
  PROVE  StepInv'
<1> SUFFICES ASSUME ~astray' PROVE StepInv' BY DEF StepInv
<1>1. UNCHANGED <<wire, bpf, fifo>> /\ ~astray /\ at > Len(buffer) /\ at' = 0
  BY DEF ReadyData, device
<1>2. Len(buffer) \in Nat /\ at \in Nat /\ at # 0
  <2>1. Len(buffer) \in Nat BY LenProperties DEF PInv, Data
  <2> QED BY <1>1, <2>1 DEF Rest
<1>3. SubSeq(buffer, at, Len(buffer)) = <<>>
  BY <1>1, <1>2, SubSeqEmpty
<1>4. ToCome = bpf \o wire
  BY <1>2, <1>3, ComesType, ConcatEmptySeq DEF ToCome
<1>5. ToCome' = bpf \o wire
  BY <1>1 DEF ToCome
<1>6. Matches(ToCome, fifo) /\ \A i \in 1 .. Len(Recorded) : Peer(Recorded[i])
  BY <1>1 DEF StepInv
<1>7. \A i \in 1 .. Len(Recorded') : Peer(Recorded'[i])
  <2>1. CASE ~IsEmpty /\ readwait # Nobody
    <3>1. Recorded # <<>> /\ Recorded' = Tail(Recorded)
      BY <2>1, Handed
    <3> QED BY <1>6, <3>1, TailPlaces DEF OrderInv
  <2>2. CASE ~(~IsEmpty /\ readwait # Nobody)
    <3>1. UNCHANGED ring BY <2>2 DEF ReadyData
    <3> QED BY <1>6, <3>1, RingStays
  <2> QED BY <2>1, <2>2
<1> QED BY <1>1, <1>4, <1>5, <1>6, <1>7 DEF StepInv

LEMMA StepClearEnds == ASSUME PInv, OrderInv, ClearEnds PROVE StepInv'
<1> SUFFICES ASSUME ~astray' PROVE StepInv' BY DEF StepInv
<1>1. /\ at = 0 /\ at' = 0 /\ bpf' = <<>> /\ wire = <<>> /\ wire' = wire /\ fifo = <<>> /\ fifo' = fifo
      /\ wp' = 0 /\ rp' = 0 /\ UNCHANGED <<slot, mode>>
  BY DEF ClearEnds
<1>2. RingOK' BY <1>1, SizeAssumption DEF PInv, RingOK
<1>3. RecordedSlots' BY <1>2, RecordedType, PTL
<1>4. Datanum' = 0 BY <1>1 DEF Datanum
<1>5. Recorded' = <<>> BY <1>3, <1>4, EmptySeq DEF RecordedSlots
<1>6. <<>> \o wire = wire BY ComesType, ConcatEmptySeq
<1>7. ToCome' = <<>> BY <1>1, <1>6 DEF ToCome
<1>8. 1 .. Len(<<>>) = {} BY EmptySeq
<1> QED BY <1>1, <1>5, <1>7, <1>8, MatchNothing DEF StepInv

LEMMA StepClients ==
  ASSUME PInv, Rest, OrderInv, StepInv, NEW c \in Clients, Agent(c) \/ Tool(c)
  PROVE  StepInv'
<1> USE DEF Agent, Serve, Tool
<1> SUFFICES ASSUME ~astray' PROVE StepInv' BY DEF StepInv
<1>1. at = 0 /\ at' = 0
  BY DEF ReadWaits, ReadTooLate, ReadGiven, WriteRequest, CaptureRequest, StopRequest, ModeRequest,
         DumpRequest, ClearRequest, Terminate, Timeout, Ask, Leave, Takes, Idle, handler
<1>2. ~astray
  BY DEF ReadWaits, ReadTooLate, ReadGiven, WriteRequest, CaptureRequest, StopRequest, ModeRequest,
         DumpRequest, ClearRequest, Terminate, Timeout, Ask, Leave, ghosts
<1>3. Matches(bpf \o wire, fifo) /\ \A i \in 1 .. Len(Recorded) : Peer(Recorded[i])
  BY <1>1, <1>2, ComesType DEF StepInv
<1>4. \A i \in 1 .. Len(Recorded') : Peer(Recorded'[i])
  <2>1. CASE ReadGiven(c)
    <3>1. Recorded # <<>> /\ Recorded' = Tail(Recorded) BY <2>1, GivenFirst
    <3> QED BY <1>3, <3>1, TailPlaces DEF OrderInv
  <2>2. CASE ~ReadGiven(c)
    <3>1. UNCHANGED <<slot, wp, rp>>
      BY <2>2 DEF ReadWaits, ReadTooLate, WriteRequest, CaptureRequest, StopRequest, ModeRequest,
         DumpRequest, ClearRequest, Terminate, Timeout, Ask, Leave, ring
    <3>2. Recorded' = Recorded BY <3>1 DEF Recorded, Datanum, Slot
    <3> QED BY <1>3, <3>2
  <2> QED BY <2>1, <2>2
<1>5. Matches(bpf' \o wire', fifo')
  <2>1. CASE WriteRequest(c)
    <3> DEFINE p == [id |-> ask[c].id, time |-> 0]
    <3>1. ask[c].id \in Own /\ 0 \in 0 .. MaxTime
      BY <2>1, BoundsAssumption DEF WriteRequest, Takes, PInv, AsksTyped
    <3>2. p \in Packets /\ ~Peer(p) /\ p.id = ask[c].id
      BY <3>1 DEF Packets, Peer
    <3>3. wire' = Append(wire, p) /\ bpf' = bpf /\ fifo' = Append(fifo, p.id)
      BY <2>1 DEF WriteRequest
    <3> HIDE DEF p
    <3>4. Matches(Append(bpf \o wire, p), Append(fifo, p.id))
      BY <1>3, <3>2, ComesType, MatchSent DEF Rest
    <3>5. Append(wire, p) = wire \o <<p>> /\ Append(bpf \o wire, p) = (bpf \o wire) \o <<p>>
      BY <3>2, ComesType, AppendIsConcat
    <3>6. <<p>> \in Seq(Packets) BY <3>2
    <3>7. (bpf \o wire) \o <<p>> = bpf \o (wire \o <<p>>)
      BY <3>6, ComesType, ConcatAssociative
    <3> QED BY <3>3, <3>4, <3>5, <3>7
  <2>2. CASE CaptureRequest(c)
    <3>1. bpf' = <<>> /\ wire' = wire /\ fifo' = fifo /\ ~\E i \in DOMAIN bpf : bpf[i].id \in Own
      BY <2>2 DEF CaptureRequest
    <3>2. \A i \in 1 .. Len(bpf) : Peer(bpf[i])
      BY <3>1, ComesType, LenProperties DEF Peer
    <3>3. Matches(wire, fifo)
      BY <1>3, <3>2, ComesType, MatchFlushed DEF Rest
    <3>4. <<>> \o wire = wire BY ComesType, ConcatEmptySeq
    <3> QED BY <3>1, <3>3, <3>4
  <2>3. CASE ~WriteRequest(c) /\ ~CaptureRequest(c)
    <3>1. UNCHANGED <<bpf, wire, fifo>>
      BY <2>3 DEF ReadWaits, ReadTooLate, ReadGiven, StopRequest, ModeRequest,
         DumpRequest, ClearRequest, Terminate, Timeout, Ask, Leave, device
    <3> QED BY <1>3, <3>1
  <2> QED BY <2>1, <2>2, <2>3
<1>6. ToCome' = bpf' \o wire' BY <1>1 DEF ToCome
<1> QED BY <1>4, <1>5, <1>6 DEF StepInv

DInv == OrderInv /\ HeadInv /\ StepInv

LEMMA InitDelivers == Init => DInv
<1> SUFFICES ASSUME Init PROVE DInv OBVIOUS
<1>1. PInv BY InitMaps
<1>2. /\ IsEmpty /\ at = 0 /\ buffer = <<>> /\ bpf = <<>> /\ wire = <<>> /\ fifo = <<>>
      /\ last = 0 /\ peers = 0
  BY DEF Init, Started, IsEmpty
<1>3. Recorded = <<>> BY <1>1, <1>2, EmptyRing
<1>4. 1 .. Len(<<>>) = {} /\ <<>> \in Seq(Packets) BY EmptySeq
<1>5. OrderInv BY <1>2, <1>3, <1>4, OrderedNone DEF OrderInv, Ordered
<1>6. HeadInv BY <1>2 DEF HeadInv
<1>7. ToCome = <<>> BY <1>1, <1>2, ComesType, ConcatEmptySeq DEF ToCome
<1>8. StepInv BY <1>2, <1>3, <1>4, <1>7, MatchNothing DEF StepInv
<1> QED BY <1>5, <1>6, <1>8 DEF DInv

LEMMA StepDelivers == WInv /\ PInv /\ Rest /\ DInv /\ [Next]_vars => DInv'
<1> SUFFICES ASSUME WInv, PInv, Rest, OrderInv, HeadInv, StepInv, [Next]_vars
             PROVE  OrderInv' /\ HeadInv' /\ StepInv'
  BY DEF DInv
<1>1. CASE UNCHANGED vars
  <2>1. UNCHANGED <<wire, bpf, fifo, ring, running, at, buffer, readwait, peers, last, astray>>
    BY <1>1 DEF vars, device, handler, waits, counts, ghosts
  <2>2. Recorded' = Recorded /\ mode' = mode BY <2>1, RingStays DEF ring
  <2>3. ToCome' = ToCome BY <2>1 DEF ToCome
  <2> QED BY <2>1, <2>2, <2>3 DEF OrderInv, HeadInv, StepInv
<1>2. CASE Network
  <2>1. at' = 0
    BY <1>2 DEF Network, Arrives, Transmitted, Hidden, Tick, handler
  <2> QED BY <1>2, <2>1, OrderNetwork, StepNetwork DEF HeadInv
<1>3. CASE Receive \/ ClearReceives \/ ClearGivesUp
  BY <1>3, OrderReceive, HeadReceive, StepReceive
<1>4. CASE FilterOne
  BY <1>4, OrderFilter, HeadFilter, StepFilter
<1>5. CASE ReadyData
  <2>1. at' = 0 BY <1>5 DEF ReadyData
  <2> QED BY <1>5, <2>1, OrderReadyData, StepReadyData DEF HeadInv
<1>6. CASE ClearEnds
  <2>1. at' = 0 BY <1>6 DEF ClearEnds
  <2> QED BY <1>6, <2>1, OrderClearEnds, StepClearEnds DEF HeadInv
<1>7. ASSUME NEW c \in Clients, Agent(c) \/ Tool(c) PROVE OrderInv' /\ HeadInv' /\ StepInv'
  <2>1. at' = 0
    BY <1>7 DEF Agent, Serve, Tool, ReadWaits, ReadTooLate, ReadGiven, WriteRequest, CaptureRequest,
       StopRequest, ModeRequest, DumpRequest, ClearRequest, Terminate, Timeout, Ask, Leave, Takes,
       Idle, handler
  <2> QED BY <1>7, <2>1, OrderReadGiven, OrderClients, StepClients DEF HeadInv
<1> QED BY <1>1, <1>2, <1>3, <1>4, <1>5, <1>6, <1>7 DEF Next, Device

\* The response to c, and to nobody else.
LEMMA ResponseIs ==
  ASSUME WInv, NEW d \in Clients, NEW r, NEW p, Response(d, r, p),
         NEW c \in Clients, inbox[c] = <<>>, inbox'[c] # <<>>
  PROVE  /\ c = d /\ inbox'[c][1].op = ask[d].op
         /\ inbox'[c][1].result = r /\ inbox'[c][1].packet = p
<1>1. inbox' = [inbox EXCEPT ![d] = Append(@, [op |-> ask[d].op, result |-> r, packet |-> p])]
  BY DEF Response
<1>2. c = d BY <1>1 DEF WInv, Shape
<1>3. inbox'[c] = Append(<<>>, [op |-> ask[c].op, result |-> r, packet |-> p])
  BY <1>1, <1>2 DEF WInv, Shape
<1>4. inbox'[c][1] = [op |-> ask[c].op, result |-> r, packet |-> p]
  BY <1>3, OneAnswer
<1> QED BY <1>2, <1>4

\* A successful answer to a read is given by ReadGiven and ReadyData alone.
LEMMA WhoGives ==
  ASSUME WInv, [Next]_vars, NEW c \in Clients, inbox[c] = <<>>, inbox'[c] # <<>>,
         inbox'[c][1].op = "read", inbox'[c][1].result = 0
  PROVE  ReadGiven(c) \/ (ReadyData /\ ~IsEmpty /\ readwait = c)
<1>1. ~UNCHANGED inbox OBVIOUS
<1>2. ~Network /\ ~Receive /\ ~FilterOne /\ ~ClearReceives /\ ~ClearGivesUp /\ ~UNCHANGED vars
  BY <1>1 DEF Network, Arrives, Transmitted, Hidden, Tick, Receive, FilterOne, ClearReceives,
     ClearGivesUp, tools, vars
<1>3. ~ClearEnds
  <2> SUFFICES ASSUME ClearEnds PROVE FALSE OBVIOUS
  <2>1. clearing \in Clients /\ ask[clearing].op = "clear" /\ Response(clearing, 0, NoPacket)
    BY DEF ClearEnds, Answers, WInv, Shape, ClearWaits
  <2>2. inbox'[c][1].op = "clear" BY <2>1, ResponseIs
  <2> QED BY <2>2
<1>4. CASE ReadyData
  <2>1. ~IsEmpty /\ readwait # Nobody
    BY <1>1, <1>4 DEF ReadyData
  <2>2. readwait \in Clients /\ Response(readwait, 0, FirstOfBuffer)
    BY <1>4, <2>1 DEF ReadyData, Given, WInv, Shape
  <2>3. c = readwait BY <2>2, ResponseIs
  <2> QED BY <1>4, <2>1, <2>3
<1>5. ASSUME NEW d \in Clients, Agent(d) \/ Tool(d) PROVE ReadGiven(c)
  <2>1. ~ReadWaits(d) /\ ~ClearRequest(d) /\ ~Leave(d)
    BY <1>1 DEF ReadWaits, ClearRequest, Leave
  <2>2. ~Terminate(d) /\ ~Ask(d)
    BY DEF Terminate, Ask, WInv, Shape
  <2>3. ~ReadTooLate(d) /\ ~Timeout(d)
    <3> SUFFICES ASSUME ReadTooLate(d) \/ Timeout(d) PROVE FALSE OBVIOUS
    <3>1. Response(d, 2, NoPacket) BY DEF ReadTooLate, Timeout, Answers
    <3>2. inbox'[c][1].result = 2 BY <3>1, ResponseIs
    <3> QED BY <3>2
  <2>4. ASSUME NEW o, ask[d].op = o, o # "read", NEW r, NEW p, Answers(d, r, p) PROVE FALSE
    <3>1. Response(d, r, p) BY <2>4 DEF Answers
    <3>2. inbox'[c][1].op = o BY <2>4, <3>1, ResponseIs
    <3> QED BY <2>4, <3>2
  <2>5. ~WriteRequest(d) /\ ~CaptureRequest(d) /\ ~StopRequest(d) /\ ~ModeRequest(d)
    BY <2>4 DEF WriteRequest, CaptureRequest, StopRequest, ModeRequest, Takes
  <2>6. ~DumpRequest(d)
    BY <2>4 DEF DumpRequest, Takes
  <2>7. ReadGiven(d)
    BY <1>5, <2>1, <2>2, <2>3, <2>5, <2>6 DEF Agent, Serve, Tool
  <2>8. Response(d, 0, Slot(0)) BY <2>7 DEF ReadGiven, Given
  <2>9. c = d BY <2>8, ResponseIs
  <2> QED BY <2>7, <2>9
<1> QED BY <1>2, <1>3, <1>4, <1>5 DEF Next, Device

LEMMA GivesRight ==
  ASSUME WInv, PInv, Rest, DInv, [Next]_vars, NEW c \in Clients, inbox[c] = <<>>, inbox'[c] # <<>>,
         inbox'[c][1].op = "read", inbox'[c][1].result = 0,
         ~astray, ~Mixed, ~(mode = "wrap" /\ Len(buffer) > Size)
  PROVE  LET p == inbox'[c][1].packet
         IN  p = Head(Recorded) /\ p.id \in Nat /\ p.id > last
<1> USE DEF DInv
<1>1. \A i \in 1 .. Len(Recorded) : Peer(Recorded[i]) BY DEF StepInv
<1>2. CASE ReadGiven(c)
  <2>1. /\ at = 0 /\ buffer = <<>> /\ Recorded # <<>> /\ Recorded[1] = Head(Recorded)
        /\ Recorded[1] \in Packets /\ Response(c, 0, Recorded[1])
    BY <1>2, GivenFirst
  <2>2. inbox'[c][1].packet = Recorded[1] BY <2>1, ResponseIs
  <2>3. Peer(Recorded[1])
    <3>1. 1 \in 1 .. Len(Recorded) BY <2>1, EmptySeq DEF OrderInv
    <3> QED BY <1>1, <3>1
  <2>4. Recorded[1].id \in Nat BY <2>1, <2>3, PeerIsNumbered
  <2>5. Recorded[1].id > last
    BY <2>1, <2>3, OrderedGiven DEF OrderInv
  <2> QED BY <2>1, <2>2, <2>4, <2>5
<1>3. CASE ReadyData /\ ~IsEmpty /\ readwait = c
  <2>1. /\ buffer # <<>> /\ FirstOfBuffer = buffer[1] /\ buffer[1] \in Packets /\ Recorded # <<>>
        /\ at # 0 /\ Headed(Recorded, buffer, at, mode = "wrap", running)
    BY <1>3, NobodyAssumption, Handed
  <2>2. Response(c, 0, buffer[1])
    BY <1>3, <2>1, NobodyAssumption DEF ReadyData, Given
  <2>3. inbox'[c][1].packet = buffer[1] BY <2>2, ResponseIs
  <2>4. Peer(buffer[1]) BY <2>1 DEF Mixed, Peer
  <2>5. Recorded[1] = buffer[1] BY <2>1, <2>4 DEF Headed
  <2>6. Head(Recorded) = Recorded[1] OBVIOUS
  <2>7. buffer[1].id \in Nat BY <2>1, <2>4, PeerIsNumbered
  <2>8. buffer[1].id > last
    <3>1. \A i \in 2 .. Len(Recorded) : Peer(Recorded[i]) => Recorded[i].id > buffer[1].id
      BY <2>1, <2>4 DEF Headed
    <3> QED BY <2>1, <2>4, <3>1, OrderedHanded DEF OrderInv, PInv, Data
  <2> QED BY <2>3, <2>5, <2>6, <2>7, <2>8
<1> QED BY <1>2, <1>3, WhoGives

\* A reader is given the oldest packet that is recorded, which a peer sent and
\* which is newer than all that were given before: the filter has taken every
\* copy out, unless the queue of what was sent is out of step.
THEOREM DeliveredCorrect == Spec => DeliveredAsSent
<1>1. WInv /\ PInv /\ [Next]_vars => PInv' BY StepMaps DEF Maps
<1>2. WInv /\ PInv /\ Rest /\ DInv /\ [Next]_vars =>
      [\A c \in Clients :
       (inbox[c] = <<>> /\ inbox'[c] # <<>> /\ inbox'[c][1].op = "read" /\ inbox'[c][1].result = 0) =>
         LET p == inbox'[c][1].packet
         IN  \/ astray \/ Mixed \/ (mode = "wrap" /\ Len(buffer) > Size)
             \/ /\ p = Head(Recorded)
                /\ p.id \in Nat /\ p.id > last]_vars
  BY GivesRight
<1> QED BY <1>1, <1>2, InitWaits, StepWaits, InitMaps, InitRest, StepRest, InitDelivers, StepDelivers,
           PTL DEF Spec, DeliveredAsSent
=============================================================================
