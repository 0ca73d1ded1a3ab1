---------------------------- MODULE MCVelManager ----------------------------
(* Scenarios for checking VelManager. *)
EXTENDS VelManager, TLC

CONSTANTS t1, t2, host1, host2, port1, port2, ev

S(kind) == [kind |-> kind]
Sync == [kind |-> "sync", event |-> ev]
Tcp(c, port) == [client |-> c, protocol |-> "tcp", port |-> port]
Udp(c, port) == [client |-> c, protocol |-> "udp", port |-> port]
Both(p1, p2, c1, c2) ==
  [program |-> (t1 :> p1) @@ (t2 :> p2), conn |-> (t1 :> c1) @@ (t2 :> c2)]

MCMembers == [e \in {ev} |-> {t1, t2}]

\* The example of the manual, with closes; threads that do not wait for each
\* other; and threads whose scenario is at odds with itself.
Synced == <<S("connect"), Sync, S("traffic"), S("close")>>
Loose == <<S("connect"), S("traffic"), S("close")>>
Brief == <<S("connect"), S("close")>>
Delayed == <<S("delay"), S("connect"), Sync, S("traffic")>>
Unconnected == <<Sync, S("traffic")>>
MCScenarios ==
  {Both(Synced, Synced, Tcp(host1, port1), Tcp(host2, port1)),
   Both(Synced, Synced, Tcp(host1, port1), Tcp(host1, port2)),
   Both(Delayed, Synced, Tcp(host1, port1), Udp(host2, port2)),
   Both(Loose, Loose, Tcp(host1, port1), Tcp(host2, port1)),
   Both(Loose, Loose, Udp(host1, port1), Udp(host2, port1)),
   Both(Loose, Brief, Tcp(host1, port1), Tcp(host1, port2)),
   Both(<<Sync, Sync>>, Unconnected, Tcp(host1, port1), Tcp(host2, port2))}
=============================================================================
