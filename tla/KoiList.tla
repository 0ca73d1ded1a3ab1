------------------------------ MODULE KoiList ------------------------------
(***************************************************************************)
(* The linked lists of koid.  kBuffer, kData and kRecvTimeoutTimer each    *)
(* keep a singly linked list behind two globals, a start pointer and a     *)
(* last pointer; a new node is always linked behind the last pointer.      *)
(*                                                                         *)
(* Nodes are named by the order of their creation.  New nodes go to the    *)
(* end, so the order of a list is the order of its names and a list is     *)
(*   linked : the set of nodes reachable from the start pointer            *)
(*   last   : the node the last pointer points to, 0 for NULL              *)
(* last need not be the end of the list, nor on it: none of the three      *)
(* modules moves it correctly when a node is taken out, and what a new     *)
(* node is linked behind then decides what stays reachable.  Memory of a   *)
(* freed node keeps its contents (the C library writes no junk into it);   *)
(* other objects allocated at the address of a freed node are left out.    *)
(***************************************************************************)
EXTENDS Integers

First(S) == CHOOSE k \in S : \A j \in S : k <= j
Final(S) == CHOOSE k \in S : \A j \in S : j <= k

EmptyList == [linked |-> {}, last |-> 0]

\* "if(start) last->next = new; else start = new; new->next = NULL; last = new".
\* Behind a last node in the middle the rest of the list is cut off; behind
\* a node that is not on the list the new node is not reachable.
Link(l, n) ==
  [ linked |->
      IF l.linked = {} THEN {n}
      ELSE IF l.last \in l.linked THEN {j \in l.linked : j <= l.last} \union {n}
      ELSE l.linked,
    last |-> n ]

\* Removal in kBufferGet and kRecvTimerRemove: the last pointer is moved to
\* the node before the removed one, and not at all for the first node.
Unlink(l, n) ==
  LET before == {j \in l.linked : j < n}
  IN [ linked |-> l.linked \ {n},
       last |-> IF before = {} THEN l.last ELSE Final(before) ]

\* Removal in kDataClear: the last pointer stays where it is.
UnlinkAll(l, S) == [l EXCEPT !.linked = @ \ S]

\* The next node of a walk that stands on n, 0 at the end.
NextNode(l, n) ==
  LET behind == {j \in l.linked : j > n}
  IN IF behind = {} THEN 0 ELSE First(behind)
=============================================================================
