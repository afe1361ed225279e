------------------------- MODULE DeviceSessionProofs -------------------------
(***************************************************************************)
(* Proofs about DeviceSession for every set of displays and sockets.  The  *)
(* invariants of the runs support one another: an offline timer can only   *)
(* take down a display nobody serves because no timer is armed while the   *)
(* connection is live, and that in turn needs the socket that serves a     *)
(* display to be the one in the connection map.                            *)
(***************************************************************************)
EXTENDS DeviceSession, TLAPS

(* A socket outside the namespace speaks for nobody.                       *)
GoneIsMute == \A s \in Socket \ sockets : current[s] = NoDevice

IInv ==
    /\ TypeOK
    /\ GoneIsMute
    /\ OwnerIsConnection
    /\ NoTimerWhileLive
    /\ ServedIsNotOffline
    /\ TagsDrain
    /\ ServedIsNotSilent

-----------------------------------------------------------------------------
(* An accepted registration changes the timers only by cancelling the one  *)
(* of its display: the eviction tag keeps the evicted socket's disconnect  *)
(* handler from arming another.                                            *)
LEMMA ServeCancelsTimer ==
  ASSUME TypeOK, NEW s \in Socket, NEW d \in Device, Serve(s, d)
  PROVE  pending' = [pending EXCEPT ![d] = NoSocket]
  BY DEF Serve, Incumbent, Armed, ArmsTimer, Marked, Cancelled

(* The sockets an accepted registration leaves are the old ones without    *)
(* the display's incumbent, and the registering socket is among them.      *)
LEMMA ServeKeepsSocket ==
  ASSUME TypeOK, NEW s \in Socket, NEW d \in Device, MayRun(s), Serve(s, d)
  PROVE  /\ sockets' \subseteq sockets
         /\ s \in sockets'
         /\ closing \in sockets' \cup {NoSocket}
         /\ \A t \in sockets' : t # s => conn[d] # t
  BY DEF Serve, Incumbent, MayRun, TypeOK

(* Every accepted registration preserves the invariant.                    *)
LEMMA ServeInvariant ==
  ASSUME IInv, NEW s \in Socket, NEW d \in Device, MayRun(s), d \in Rows,
         Serve(s, d), UNCHANGED <<closing, owner>>,
         settle' \subseteq Device, tokened' \subseteq Device
  PROVE  IInv'
<1>1. pending' = [pending EXCEPT ![d] = NoSocket]
  BY ServeCancelsTimer DEF IInv
<1>2. /\ sockets' \subseteq sockets
      /\ s \in sockets'
      /\ closing \in sockets' \cup {NoSocket}
      /\ \A t \in sockets' : t # s => conn[d] # t
  BY ServeKeepsSocket DEF IInv
<1>3. TypeOK'
  BY <1>1, <1>2 DEF IInv, TypeOK, Serve, ClearedReason, Status, Reason
<1>4. GoneIsMute'
  BY <1>2 DEF IInv, TypeOK, GoneIsMute, Serve, Incumbent
<1>5. /\ current'[s] = d
      /\ \A t \in sockets' : t # s => current'[t] = current[t]
      /\ \A t \in sockets' : t # s => current[t] # d
  <2>1. current'[s] = d
    BY DEF Serve
  <2>2. \A t \in sockets' : t # s => current'[t] = current[t]
    BY DEF IInv, TypeOK, Serve
  <2>3. ASSUME NEW t \in sockets', t # s, current[t] = d
        PROVE  FALSE
    <3>1. t \in sockets /\ d # NoDevice
      BY <1>2, <2>3, SentinelAssumption
    <3>2. conn[d] = t
      BY <2>3, <3>1 DEF IInv, OwnerIsConnection
    <3> QED
      BY <1>2, <2>3, <3>2
  <2> QED
    BY <2>1, <2>2, <2>3
<1>6. OwnerIsConnection'
  BY <1>2, <1>5, SentinelAssumption DEF IInv, TypeOK, OwnerIsConnection, Serve
<1>7. NoTimerWhileLive'
  BY <1>1, <1>2 DEF IInv, TypeOK, NoTimerWhileLive, Serve
<1>8. ServedIsNotOffline'
  BY <1>2, <1>5 DEF IInv, TypeOK, ServedIsNotOffline, Serve
<1>9. TagsDrain'
  BY DEF IInv, TagsDrain, Serve
<1>10. ServedIsNotSilent'
  BY DEF IInv, TypeOK, ServedIsNotSilent, Serve, ClearedReason
<1> QED
  BY <1>3, <1>4, <1>6, <1>7, <1>8, <1>9, <1>10 DEF IInv

-----------------------------------------------------------------------------
(* The server starts in the invariant.                                     *)
LEMMA InitInvariant == Init => IInv
BY SentinelAssumption
   DEF Init, IInv, TypeOK, GoneIsMute, OwnerIsConnection, NoTimerWhileLive,
       ServedIsNotOffline, TagsDrain, ServedIsNotSilent, Status, Owner, Reason

(* A socket enters the namespace: nothing in memory refers to it yet.      *)
LEMMA ConnectInvariant ==
  ASSUME IInv, NEW s \in Socket, Connect(s)
  PROVE  IInv'
<1>1. TypeOK' /\ GoneIsMute'
  BY DEF Connect, table, IInv, TypeOK, GoneIsMute, Quiet
<1>2. OwnerIsConnection' /\ ServedIsNotOffline'
  BY DEF Connect, table, IInv, GoneIsMute, OwnerIsConnection, ServedIsNotOffline
<1>3. NoTimerWhileLive'
  BY DEF Connect, IInv, TypeOK, NoTimerWhileLive
<1>4. TagsDrain' /\ ServedIsNotSilent'
  BY DEF Connect, table, IInv, GoneIsMute, TagsDrain, ServedIsNotSilent
<1> QED
  BY <1>1, <1>2, <1>3, <1>4 DEF IInv

(* A socket closes: a timer armed by it names a socket that is gone, and   *)
(* the display had no other connection.                                    *)
LEMMA DisconnectInvariant ==
  ASSUME IInv, NEW s \in Socket, Disconnect(s)
  PROVE  IInv'
<1>1. NoSocket \notin sockets /\ s \in sockets
  BY SentinelAssumption DEF IInv, TypeOK, Disconnect, MayRun
<1>2. ArmsTimer(s, evicted) => /\ current[s] \in Device
                              /\ conn[current[s]] \in {NoSocket, s}
  BY <1>1 DEF ArmsTimer, IInv, TypeOK
<1>3. TypeOK'
  BY <1>1, <1>2 DEF Disconnect, Armed, Drained, IInv, TypeOK, Reason
<1>4. GoneIsMute' /\ OwnerIsConnection' /\ ServedIsNotOffline'
  BY <1>1 DEF Disconnect, IInv, TypeOK, GoneIsMute, OwnerIsConnection, ServedIsNotOffline
<1>5. NoTimerWhileLive'
  BY <1>1, <1>2 DEF Disconnect, Armed, IInv, TypeOK, NoTimerWhileLive
<1>6. TagsDrain'
  BY <1>1, SentinelAssumption DEF Disconnect, Drained, MayRun, IInv, TypeOK, TagsDrain
<1>7. ServedIsNotSilent'
  BY <1>2 DEF Disconnect, IInv, TypeOK, ServedIsNotSilent
<1> QED
  BY <1>3, <1>4, <1>5, <1>6, <1>7 DEF IInv

(* A refusal, plain or tagged, leaves everything but the tags alone.       *)
LEMMA RefusalInvariant ==
  ASSUME IInv, NEW s \in Socket, NEW key \in Device \cup {NoDevice},
         Refused(s, key) \/ \E d \in Device : Held(s, d, key)
  PROVE  IInv'
<1>1. s \in sockets /\ Issued(key) \subseteq Device
  BY DEF Refused, Held, MayRun, Issued, Rows, IInv, TypeOK
<1>2. evicted \subseteq {s}
  BY SentinelAssumption DEF Refused, Held, MayRun, IInv, TypeOK, TagsDrain
<1>3. TypeOK' /\ TagsDrain'
  BY <1>1, <1>2 DEF Refused, Held, IInv, TypeOK, TagsDrain
<1>4. GoneIsMute' /\ OwnerIsConnection' /\ NoTimerWhileLive'
  BY DEF Refused, Held, IInv, GoneIsMute, OwnerIsConnection, NoTimerWhileLive
<1>5. ServedIsNotOffline' /\ ServedIsNotSilent'
  BY DEF Refused, Held, IInv, ServedIsNotOffline, ServedIsNotSilent
<1> QED
  BY <1>3, <1>4, <1>5 DEF IInv

(* A display is created, by its player or from the dashboard, under an id  *)
(* that nothing in memory refers to.                                       *)
LEMMA ProvisionInvariant ==
  ASSUME IInv, NEW s \in Socket, NEW d \in Device, Provision(s, d)
  PROVE  IInv'
<1>1. s \in sockets
  BY DEF Provision, MayRun
<1>2. TypeOK'
  BY <1>1 DEF Provision, IInv, TypeOK, Status, Owner, Reason
<1>3. GoneIsMute'
  BY <1>1 DEF Provision, IInv, TypeOK, GoneIsMute
<1>4. OwnerIsConnection' /\ ServedIsNotOffline'
  BY <1>1 DEF Provision, IInv, TypeOK, OwnerIsConnection, ServedIsNotOffline
<1>5. NoTimerWhileLive'
  BY DEF Provision, IInv, TypeOK, NoTimerWhileLive
<1>6. TagsDrain' /\ ServedIsNotSilent'
  BY DEF Provision, IInv, TypeOK, TagsDrain, ServedIsNotSilent
<1> QED
  BY <1>2, <1>3, <1>4, <1>5, <1>6 DEF IInv

(* The same for a row made before its player runs.                         *)
LEMMA CreateWebPlayerInvariant ==
  ASSUME IInv, NEW d \in Device, CreateWebPlayer(d)
  PROVE  IInv'
<1>1. TypeOK'
  BY DEF CreateWebPlayer, memory, IInv, TypeOK, Status, Owner, Reason
<1>2. ServedIsNotOffline'
  BY DEF CreateWebPlayer, memory, IInv, TypeOK, ServedIsNotOffline
<1>3. /\ GoneIsMute' /\ OwnerIsConnection' /\ NoTimerWhileLive'
      /\ TagsDrain' /\ ServedIsNotSilent'
  BY DEF CreateWebPlayer, memory, IInv, TypeOK, GoneIsMute, OwnerIsConnection,
         NoTimerWhileLive, TagsDrain, ServedIsNotSilent
<1> QED
  BY <1>1, <1>2, <1>3 DEF IInv

(* The actions that leave sockets, connections and timers alone: only the  *)
(* row's status and reason can disturb the invariant.                      *)
LEMMA RowInvariant ==
  ASSUME IInv, NEW d \in Device,
         \/ \E s \in Socket : Heartbeat(s, d) \/ Exit(s, d) \/ SelfUnpair(s, d)
         \/ ExitBeacon(d) \/ GoesStale(d) \/ SettleCloses(d) \/ Claim(d)
         \/ Delete(d) \/ PruneProvisioning(d)
  PROVE  IInv'
<1> DEFINE Memory == UNCHANGED <<sockets, current, closing, evicted, conn, pending>>
<1>1. Memory
  BY DEF Heartbeat, Exit, Announce, SelfUnpair, ExitBeacon, GoesStale, SettleCloses,
         Claim, Delete, PruneProvisioning, RowGone, memory
<1>2. TypeOK'
  <2> USE DEF IInv, TypeOK, memory, table, Status, Owner, Reason
  <2>1. CASE \E s \in Socket : Heartbeat(s, d) \/ Exit(s, d) \/ SelfUnpair(s, d)
    BY <2>1 DEF Heartbeat, Exit, Announce, SelfUnpair
  <2>2. CASE ExitBeacon(d) \/ GoesStale(d) \/ SettleCloses(d) \/ Claim(d)
    BY <2>2 DEF ExitBeacon, Announce, GoesStale, SettleCloses, Claim
  <2>3. CASE Delete(d) \/ PruneProvisioning(d)
    BY <2>3 DEF Delete, PruneProvisioning, RowGone
  <2> QED
    BY <2>1, <2>2, <2>3
<1>3. GoneIsMute' /\ OwnerIsConnection' /\ NoTimerWhileLive' /\ TagsDrain'
  BY <1>1 DEF IInv, GoneIsMute, OwnerIsConnection, NoTimerWhileLive, TagsDrain
<1>4. \A e \in Device :
        (owner'[e] = "claimed" /\ status'[e] = "offline")
           => (owner[e] = "claimed" /\ status[e] = "offline")
  <2> USE DEF IInv, TypeOK, memory, table
  <2>1. CASE \E s \in Socket : Heartbeat(s, d) \/ Exit(s, d) \/ SelfUnpair(s, d)
    BY <2>1 DEF Heartbeat, Exit, Announce, SelfUnpair
  <2>2. CASE ExitBeacon(d) \/ GoesStale(d) \/ SettleCloses(d) \/ Claim(d)
    BY <2>2 DEF ExitBeacon, Announce, GoesStale, SettleCloses, Claim
  <2>3. CASE Delete(d) \/ PruneProvisioning(d)
    BY <2>3 DEF Delete, PruneProvisioning, RowGone
  <2> QED
    BY <2>1, <2>2, <2>3
<1>5. ServedIsNotOffline'
  BY <1>1, <1>4 DEF IInv, TypeOK, ServedIsNotOffline
<1>6. ServedIsNotSilent'
  <2> USE DEF IInv, TypeOK, ServedIsNotSilent, memory, table
  <2>1. CASE \E s \in Socket : Heartbeat(s, d) \/ Exit(s, d) \/ SelfUnpair(s, d)
    BY <2>1 DEF Heartbeat, Exit, Announce, SelfUnpair
  <2>2. CASE ExitBeacon(d) \/ GoesStale(d) \/ SettleCloses(d) \/ Claim(d)
    BY <2>2 DEF ExitBeacon, Announce, GoesStale, SettleCloses, Claim
  <2>3. CASE Delete(d) \/ PruneProvisioning(d)
    BY <2>3 DEF Delete, PruneProvisioning, RowGone
  <2> QED
    BY <2>1, <2>2, <2>3
<1> QED
  BY <1>2, <1>3, <1>5, <1>6 DEF IInv

(* Displays without a live connection may be recorded offline and leave    *)
(* the map: nobody serves them.                                            *)
LEMMA OfflineInvariant ==
  ASSUME IInv, NEW S \in SUBSET Device, \A d \in S : conn[d] \notin sockets,
         WentOffline(S),
         conn' = [d \in Device |-> IF d \in S THEN NoSocket ELSE conn[d]],
         pending' \in [Device -> Socket \cup {NoSocket}],
         \A d \in Device : pending'[d] \in {NoSocket, pending[d]},
         UNCHANGED <<sockets, current, closing, evicted, settle, stale,
                     owner, tokened>>
  PROVE  IInv'
<1>1. NoSocket \notin sockets
  BY SentinelAssumption DEF IInv, TypeOK
<1>2. \A s \in sockets : current[s] # NoDevice => current[s] \in Device \ S
  BY DEF IInv, TypeOK, OwnerIsConnection
<1>3. TypeOK'
  BY DEF WentOffline, IInv, TypeOK, Status, Reason
<1>4. GoneIsMute' /\ TagsDrain'
  BY DEF IInv, GoneIsMute, TagsDrain
<1>5. OwnerIsConnection'
  BY <1>2 DEF IInv, TypeOK, OwnerIsConnection
<1>6. NoTimerWhileLive'
  BY <1>1 DEF IInv, TypeOK, NoTimerWhileLive
<1>7. ServedIsNotOffline'
  BY <1>2 DEF WentOffline, IInv, TypeOK, ServedIsNotOffline
<1>8. ServedIsNotSilent'
  BY <1>2 DEF WentOffline, IInv, TypeOK, ServedIsNotSilent
<1> QED
  BY <1>3, <1>4, <1>5, <1>6, <1>7, <1>8 DEF IInv

(* The debounced transition takes down only a display nobody serves.       *)
LEMMA OfflineTimerInvariant ==
  ASSUME IInv, NEW d \in Device, OfflineTimer(d)
  PROVE  IInv'
<1>1. conn[d] \notin sockets
  BY DEF OfflineTimer, IInv, NoTimerWhileLive
<1>2. /\ pending' \in [Device -> Socket \cup {NoSocket}]
      /\ \A e \in Device : pending'[e] \in {NoSocket, pending[e]}
  BY DEF OfflineTimer, IInv, TypeOK
<1>3. CASE conn[d] \in {NoSocket, pending[d]}
  <2> DEFINE S == {d}
  <2>1. /\ WentOffline(S)
        /\ conn' = [e \in Device |-> IF e \in S THEN NoSocket ELSE conn[e]]
    BY <1>3 DEF OfflineTimer, IInv, TypeOK
  <2>2. S \in SUBSET Device /\ \A e \in S : conn[e] \notin sockets
    BY <1>1
  <2>3. UNCHANGED <<sockets, current, closing, evicted, settle, stale,
                    owner, tokened>>
    BY DEF OfflineTimer
  <2> HIDE DEF S
  <2> QED
    BY <1>2, <2>1, <2>2, <2>3, OfflineInvariant
<1>4. CASE conn[d] \notin {NoSocket, pending[d]}
  <2>1. UNCHANGED <<sockets, current, closing, evicted, conn, settle, stale,
                    status, owner, tokened, reason>>
    BY <1>4 DEF OfflineTimer
  <2> QED
    BY <1>2, <2>1
       DEF IInv, TypeOK, GoneIsMute, OwnerIsConnection, NoTimerWhileLive,
           ServedIsNotOffline, TagsDrain, ServedIsNotSilent
<1> QED
  BY <1>3, <1>4

(* The heartbeat sweep takes down only displays without a live connection. *)
LEMMA SweepInvariant ==
  ASSUME IInv, Sweep
  PROVE  IInv'
<1>1. TimedOut \in SUBSET Device /\ \A d \in TimedOut : conn[d] \notin sockets
  BY DEF TimedOut
<1>2. /\ pending' \in [Device -> Socket \cup {NoSocket}]
      /\ \A d \in Device : pending'[d] \in {NoSocket, pending[d]}
  BY DEF Sweep, IInv, TypeOK
<1> QED
  BY <1>1, <1>2, OfflineInvariant DEF Sweep

(* After a restart nothing is in memory and the rows are as they were.     *)
LEMMA RestartInvariant ==
  ASSUME IInv, Restart
  PROVE  IInv'
BY SentinelAssumption
   DEF Restart, table, IInv, TypeOK, GoneIsMute, OwnerIsConnection, NoTimerWhileLive,
       ServedIsNotOffline, TagsDrain, ServedIsNotSilent

-----------------------------------------------------------------------------
(* The accepted registrations of a known display, with its token or by its *)
(* fingerprint, preserve the invariant.                                    *)
LEMMA RegisterInvariant ==
  ASSUME IInv, NEW s \in Socket, NEW d \in Device, NEW key \in Device \cup {NoDevice},
         Register(s, d, key) \/ Reclaim(s, d)
  PROVE  IInv'
<1>1. /\ MayRun(s) /\ d \in Rows /\ Serve(s, d)
      /\ UNCHANGED <<closing, owner>>
  BY DEF Register, Reclaim
<1>2. settle' \subseteq Device /\ tokened' \subseteq Device
  BY DEF Register, Reclaim, Issued, Rows, IInv, TypeOK
<1> QED
  BY <1>1, <1>2, ServeInvariant

(* Every step of the server preserves the invariant.                       *)
LEMMA NextInvariant ==
  ASSUME IInv, [Next]_vars
  PROVE  IInv'
<1>1. ASSUME NEW s \in Socket, SocketStep(s)
      PROVE  IInv'
  <2>1. CASE Connect(s)
    BY <2>1, ConnectInvariant
  <2>2. CASE Disconnect(s)
    BY <2>2, DisconnectInvariant
  <2>3. ASSUME NEW key \in Device \cup {NoDevice}, Refused(s, key)
        PROVE  IInv'
    BY <2>3, RefusalInvariant
  <2>4. ASSUME NEW d \in Device, NEW keyed \in BOOLEAN,
               LET key == IF keyed THEN d ELSE NoDevice
               IN  Held(s, d, key) \/ Register(s, d, key)
        PROVE  IInv'
    BY <2>4, RefusalInvariant, RegisterInvariant
  <2>5. ASSUME NEW d \in Device,
               \/ Reclaim(s, d) \/ Provision(s, d)
               \/ Heartbeat(s, d) \/ Exit(s, d) \/ SelfUnpair(s, d)
        PROVE  IInv'
    BY <2>5, RegisterInvariant, ProvisionInvariant, RowInvariant
  <2> QED
    BY <1>1, <2>1, <2>2, <2>3, <2>4, <2>5 DEF SocketStep
<1>2. ASSUME NEW d \in Device, DeviceStep(d)
      PROVE  IInv'
  BY <1>2, OfflineTimerInvariant, CreateWebPlayerInvariant, RowInvariant DEF DeviceStep
<1>3. CASE UNCHANGED vars
  BY <1>3 DEF vars, memory, table, IInv, TypeOK, GoneIsMute, OwnerIsConnection,
              NoTimerWhileLive, ServedIsNotOffline, TagsDrain, ServedIsNotSilent
<1> QED
  BY <1>1, <1>2, <1>3, SweepInvariant, RestartInvariant DEF Next

-----------------------------------------------------------------------------
(* The inductive invariant holds of every behaviour of the server.         *)
THEOREM Invariance == Spec => []IInv
<1>1. Init => IInv
  BY InitInvariant
<1>2. IInv /\ [Next]_vars => IInv'
  BY NextInvariant
<1> QED
  BY <1>1, <1>2, PTL DEF Spec

(* Every variable keeps its type; in particular a refused socket stays in  *)
(* the namespace until its queued disconnect runs.                         *)
THEOREM TypeCorrect == Spec => []TypeOK
BY Invariance, PTL DEF IInv

(* At most one live socket serves a display: the one in the map.           *)
THEOREM OneOwner == Spec => []OwnerIsConnection
BY Invariance, PTL DEF IInv

(* The self-reset race is excluded: no offline timer is pending for a      *)
(* display whose connection is live.                                       *)
THEOREM NoSelfReset == Spec => []NoTimerWhileLive
BY Invariance, PTL DEF IInv

(* A claimed display is not recorded offline while a live socket serves it.*)
THEOREM NoFalseOffline == Spec => []ServedIsNotOffline
BY Invariance, PTL DEF IInv

(* No eviction tag survives to swallow the disconnect of a later session.  *)
THEOREM NoTagLeft == Spec => []TagsDrain
BY Invariance, PTL DEF IInv

(* A display in service carries no 'silent' of an earlier death.           *)
THEOREM NoOldDeath == Spec => []ServedIsNotSilent
BY Invariance, PTL DEF IInv

-----------------------------------------------------------------------------
(* Actions that keep every live connection on its socket.                  *)
LEMMA TimersTakeNothing ==
  ASSUME IInv, NEW d \in Device, conn[d] \in sockets,
         \/ Sweep \/ \E e \in Device : OfflineTimer(e)
  PROVE  conn'[d] = conn[d]
<1>1. CASE Sweep
  BY <1>1 DEF Sweep, TimedOut, IInv, TypeOK
<1>2. ASSUME NEW e \in Device, OfflineTimer(e)
      PROVE  conn'[d] = conn[d]
  BY <1>2 DEF OfflineTimer, IInv, TypeOK, NoTimerWhileLive
<1> QED
  BY <1>1, <1>2

(* A reclaim finds no live connection: either there is no entry at all, or *)
(* an offline timer is pending and no such display has a live one.         *)
LEMMA ReclaimTakesNothing ==
  ASSUME IInv, NEW s \in Socket, NEW e \in Device, Reclaim(s, e),
         NEW d \in Device, conn[d] \in sockets
  PROVE  conn'[d] = conn[d]
<1>1. d # e
  BY SentinelAssumption DEF Reclaim, IInv, TypeOK, NoTimerWhileLive
<1> QED
  BY <1>1 DEF Reclaim, Serve, IInv, TypeOK

(* A live connection passes only to a socket that presented the display's  *)
(* token, outside the settle window of the last accepted one.              *)
THEOREM LiveSessionsAreSafe == Spec => LiveIsNotTaken
<1>1. ASSUME IInv, Next, NEW d \in Device, Taken(d)
      PROVE  d \notin settle /\ ByToken(d)
  <2>1. ASSUME NEW s \in Socket, NEW e \in Device,
               NEW key \in {e, NoDevice}, Register(s, e, key)
        PROVE  d \notin settle /\ ByToken(d)
    <3>1. d = e /\ conn'[d] = s
      BY <1>1, <2>1 DEF Taken, Register, Serve, IInv, TypeOK
    <3>2. Incumbent(s, d)
      BY <1>1, <3>1 DEF Taken, Incumbent
    <3> QED
      BY <2>1, <3>1, <3>2 DEF ByToken, Register
  <2>2. ASSUME NEW s \in Socket, SocketStep(s)
        PROVE  d \notin settle /\ ByToken(d)
    <3>1. CASE \/ Connect(s) \/ Disconnect(s)
               \/ \E key \in Device \cup {NoDevice} : Refused(s, key)
      BY <1>1, <3>1 DEF Taken, Connect, Disconnect, Refused
    <3>2. ASSUME NEW e \in Device, NEW keyed \in BOOLEAN,
                 LET key == IF keyed THEN e ELSE NoDevice
                 IN  Held(s, e, key) \/ Register(s, e, key)
          PROVE  d \notin settle /\ ByToken(d)
      BY <1>1, <2>1, <3>2 DEF Taken, Held
    <3>3. ASSUME NEW e \in Device,
                 \/ Reclaim(s, e) \/ Provision(s, e)
                 \/ Heartbeat(s, e) \/ Exit(s, e) \/ SelfUnpair(s, e)
          PROVE  FALSE
      <4>1. CASE Reclaim(s, e)
        BY <1>1, <4>1, ReclaimTakesNothing DEF Taken
      <4>2. CASE Provision(s, e)
        BY <1>1, <4>2, SentinelAssumption DEF Taken, Provision, IInv, TypeOK
      <4>3. CASE Heartbeat(s, e) \/ Exit(s, e) \/ SelfUnpair(s, e)
        BY <1>1, <4>3 DEF Taken, Heartbeat, Exit, Announce, SelfUnpair, memory
      <4> QED
        BY <3>3, <4>1, <4>2, <4>3
    <3> QED
      BY <2>2, <3>1, <3>2, <3>3 DEF SocketStep
  <2>3. ASSUME NEW e \in Device, DeviceStep(e)
        PROVE  FALSE
    <3>1. CASE OfflineTimer(e)
      BY <1>1, <3>1, TimersTakeNothing DEF Taken
    <3>2. CASE ~OfflineTimer(e)
      BY <1>1, <2>3, <3>2
         DEF Taken, DeviceStep, ExitBeacon, Announce, GoesStale, SettleCloses, Claim,
             CreateWebPlayer, Delete, PruneProvisioning, RowGone, memory
    <3> QED
      BY <3>1, <3>2
  <2>4. CASE Sweep
    BY <1>1, <2>4, TimersTakeNothing DEF Taken
  <2>5. CASE Restart
    BY <1>1, <2>5 DEF Taken, Restart
  <2> QED
    BY <1>1, <2>2, <2>3, <2>4, <2>5 DEF Next
<1>2. IInv /\ [Next]_vars => [TokenTakes]_vars
  BY <1>1 DEF TokenTakes
<1> QED
  BY <1>2, Invariance, PTL DEF Spec, LiveIsNotTaken
=============================================================================
