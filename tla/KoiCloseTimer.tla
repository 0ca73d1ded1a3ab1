--------------------------- MODULE KoiCloseTimer ---------------------------
(***************************************************************************)
(* The socket close timer of koid (lib/kSocketCloseTimer).  A CLOSE        *)
(* command, or the end of a TCP stream, does not close a socket: it writes *)
(* the socket id and a deadline into a table of T_SCT_MAXNUM slots.  The   *)
(* main loop scans the table once per turn and closes what has expired.    *)
(*                                                                         *)
(* kCloseTimerProc reads the clock once and then visits the slots one by   *)
(* one; the scan is modelled slot by slot (cursor), and no other operation *)
(* runs during it because koid has a single thread.  Time passes at any    *)
(* moment, also during a scan.                                             *)
(***************************************************************************)
EXTENDS Integers, FiniteSets

CONSTANTS
  T_SCT_MAXNUM,  \* number of slots (16 in the code)
  SocketIds,     \* socket ids that kCloseTimerSet is called with
  Waits,         \* delays in seconds that it is called with
  MaxTime        \* bound on the clock, for model checking

T_SCT_INIT == -1
Slots == 1 .. T_SCT_MAXNUM

ASSUME TableAssumption ==
  /\ T_SCT_MAXNUM \in Nat \ {0}
  /\ SocketIds \subseteq Int
  /\ Waits \subseteq Nat
  /\ MaxTime \in Nat

VARIABLES
  close_table,   \* g_t_socket_close_table
  table_num,     \* g_t_current_socket_close_table_num
  now,           \* what gettimeofday() would return, in whole ticks
  cursor,        \* loop of kCloseTimerProc: next slot to visit, 0 = no scan
  current_time,  \* the clock reading the running scan compares with
  closed,        \* socket id that the latest step passed to kSocketClose
  answer         \* call and return value of kCloseTimerSet in the latest step

timerVars == <<close_table, table_num, now, cursor, current_time, closed, answer>>

NoAnswer == [socketid |-> T_SCT_INIT, ret |-> "none"]
EmptySlot == [sct_socketid |-> T_SCT_INIT, sct_expire |-> 0]

----------------------------------------------------------------------------
Vacant(i) == close_table[i].sct_socketid = T_SCT_INIT
InTable(s) == \E i \in Slots : close_table[i].sct_socketid = s

\* The slot a search from the start of the table stops at.
IsFirst(i, s) ==
  /\ close_table[i].sct_socketid = s
  /\ \A j \in 1 .. (i - 1) : close_table[j].sct_socketid # s

\* Mutant: the reset clears the slots and leaves the counter.
kCloseTimerInit_KeepsNum ==
  /\ cursor = 0
  /\ close_table' = [i \in Slots |-> EmptySlot]
  /\ closed' = T_SCT_INIT
  /\ answer' = NoAnswer
  /\ UNCHANGED <<table_num, now, cursor, current_time>>

\* kCloseTimerInit: start of the daemon, and every client that hangs up.
kCloseTimerInit ==
  /\ cursor = 0
  /\ close_table' = [i \in Slots |-> EmptySlot]
  /\ table_num' = 0
  /\ closed' = T_SCT_INIT
  /\ answer' = NoAnswer
  /\ UNCHANGED <<now, cursor, current_time>>

\* Mutant: no protection against a double registration.
SetRefused_NoDoubleCheck(s) ==
  \/ s < 0
  \/ table_num = T_SCT_MAXNUM
  \/ \A i \in Slots : ~Vacant(i)

\* The early returns of kCloseTimerSet.
SetRefused(s) ==
  \/ s < 0
  \/ table_num = T_SCT_MAXNUM
  \/ InTable(s)
  \/ \A i \in Slots : ~Vacant(i)

kCloseTimerSet(s, sec) ==
  /\ cursor = 0
  /\ closed' = T_SCT_INIT
  /\ \/ /\ SetRefused(s)
        /\ answer' = [socketid |-> s, ret |-> "RETURN_NG"]
        /\ UNCHANGED <<close_table, table_num>>
     \/ /\ ~SetRefused(s)
        /\ \E i \in Slots :
             /\ IsFirst(i, T_SCT_INIT)
             /\ close_table' = [close_table EXCEPT
                  ![i] = [sct_socketid |-> s, sct_expire |-> now + sec]]
        /\ table_num' = table_num + 1
        /\ answer' = [socketid |-> s, ret |-> "RETURN_OK"]
  /\ UNCHANGED <<now, cursor, current_time>>

\* kCloseTimerRemove clears the first slot that holds the socket id.
kCloseTimerRemove(s) ==
  IF s >= 0 /\ table_num # 0 /\ InTable(s)
    THEN /\ \E i \in Slots :
              /\ IsFirst(i, s)
              /\ close_table' = [close_table EXCEPT
                                   ![i].sct_socketid = T_SCT_INIT]
         /\ table_num' = table_num - 1
    ELSE UNCHANGED <<close_table, table_num>>

\* kCloseTimerProc, entry: the clock is read once for the whole scan.
ProcStart ==
  /\ cursor = 0
  /\ cursor' = 1
  /\ current_time' = now
  /\ closed' = T_SCT_INIT
  /\ answer' = NoAnswer
  /\ UNCHANGED <<close_table, table_num, now>>

\* Mutant: a deadline within the next second counts.
Expired_Early(i) == ~Vacant(i) /\ close_table[i].sct_expire - 1 <= current_time

\* Both comparisons of kCloseTimerProc, seconds and microseconds.
Expired(i) == ~Vacant(i) /\ close_table[i].sct_expire <= current_time

\* Where the loop goes after slot i.  Mutant: it stops one slot early.
NextCursor_StopsEarly(i) == IF i >= T_SCT_MAXNUM - 1 THEN 0 ELSE i + 1
NextCursor(i) == IF i = T_SCT_MAXNUM THEN 0 ELSE i + 1

\* kCloseTimerProc, one turn of its loop over the slots.
ProcSlot ==
  /\ cursor # 0
  /\ \/ /\ ~Expired(cursor)
        /\ closed' = T_SCT_INIT
        /\ UNCHANGED <<close_table, table_num>>
     \/ /\ Expired(cursor)
        /\ closed' = close_table[cursor].sct_socketid
        /\ kCloseTimerRemove(close_table[cursor].sct_socketid)
  /\ cursor' = NextCursor(cursor)
  /\ answer' = NoAnswer
  /\ UNCHANGED <<now, current_time>>

Tick ==
  /\ now < MaxTime
  /\ now' = now + 1
  /\ closed' = T_SCT_INIT
  /\ answer' = NoAnswer
  /\ UNCHANGED <<close_table, table_num, cursor, current_time>>
----------------------------------------------------------------------------
TimerInit ==
  /\ close_table = [i \in Slots |-> EmptySlot]
  /\ table_num = 0
  /\ now = 0
  /\ cursor = 0
  /\ current_time = 0
  /\ closed = T_SCT_INIT
  /\ answer = NoAnswer

TimerNext ==
  \/ kCloseTimerInit
  \/ \E s \in SocketIds, sec \in Waits : kCloseTimerSet(s, sec)
  \/ ProcStart
  \/ ProcSlot
  \/ Tick

TimerSpec == TimerInit /\ [][TimerNext]_timerVars

\* The main loop calls kCloseTimerProc on every turn and select() returns
\* after LOOPWAIT_SEC at the latest, so scans start and end; time passes.
Fairness == WF_timerVars(ProcStart) /\ WF_timerVars(ProcSlot) /\ WF_timerVars(Tick)

FairTimerSpec == TimerSpec /\ Fairness

----------------------------------------------------------------------------
TimerTypeOK ==
  /\ close_table \in
       [Slots -> [sct_socketid : Nat \union {T_SCT_INIT}, sct_expire : Nat]]
  /\ table_num \in 0 .. T_SCT_MAXNUM
  /\ now \in Nat
  /\ cursor \in 0 .. T_SCT_MAXNUM
  /\ current_time \in Nat
  /\ closed \in Nat \union {T_SCT_INIT}
  /\ answer \in [socketid : Int, ret : {"none", "RETURN_OK", "RETURN_NG"}]

Occupied == {i \in Slots : ~Vacant(i)}

\* The limit check of kCloseTimerSet compares table_num with the number of
\* slots: it means "the table is full" only while table_num counts exactly
\* the slots in use, over every order of sets, expiries and resets.
NumCountsOccupied == table_num = Cardinality(Occupied)

\* No socket waits in two slots: kCloseTimerRemove clears the first slot it
\* finds, so with two slots the expired one could stay behind.
OneSlotPerSocket ==
  \A i, j \in Occupied :
    close_table[i].sct_socketid = close_table[j].sct_socketid => i = j

\* The table and its counter tell the same through every order of sets,
\* expiries and resets.
TableSound == NumCountsOccupied /\ OneSlotPerSocket

\* While a scan runs, what it has passed is not expired: kCloseTimerProc
\* leaves no slot behind that was due when it read the clock.
ScanLeavesNothingDue ==
  cursor # 0 =>
    \A i \in 1 .. (cursor - 1) :
      ~Vacant(i) => close_table[i].sct_expire > current_time

\* A close request is refused only for a negative socket id, for a socket
\* that already waits to be closed, or when every slot really is in use.
RefusedOnlyForCause ==
  [][ answer'.ret = "RETURN_NG" =>
        \/ answer'.socketid < 0
        \/ InTable(answer'.socketid)
        \/ Occupied = Slots ]_timerVars

\* The table seen from outside: who waits, and until when.
Waiting == {close_table[i].sct_socketid : i \in Occupied}
DeadlineOf(s) ==
  close_table[CHOOSE i \in Slots : IsFirst(i, s)].sct_expire

\* Every accepted request is served: a socket with a deadline inside the
\* modelled time is closed by a later scan, or forgotten by a reset.
CloseIsServed ==
  \A s \in SocketIds :
    (s \in Waiting /\ DeadlineOf(s) <= MaxTime) ~> (s \notin Waiting)

Accepted == IF answer.ret = "RETURN_OK" THEN answer.socketid ELSE T_SCT_INIT

\* The slots implement the agenda: no close before its deadline, none lost
\* and none done twice.
Agenda == INSTANCE CloseAgenda WITH
  Sockets    <- SocketIds \cap Nat,
  NotASocket <- T_SCT_INIT,
  deadline   <- [s \in Waiting |-> DeadlineOf(s)],
  accepted   <- Accepted

ImplementsAgenda == Agenda!Spec
=============================================================================
