---------------------------- MODULE DeviceSession ----------------------------
(***************************************************************************)
(* The life of a display's connection on the server: ws/deviceSocket.js    *)
(* (register, eviction, disconnect, the debounced offline transition) with *)
(* services/heartbeat.js (the connection map and the timeout sweep), and   *)
(* the REST handlers that write the same device row.                       *)
(*                                                                         *)
(* A socket is an identity of the /device namespace.  Real socket ids are  *)
(* never reused; here a closed socket may be reused once nothing refers to *)
(* it any more, which gives the same behaviours from a finite set.         *)
(*                                                                         *)
(* Time is a set of facts that become true: a display in `stale' has sent  *)
(* no beat for longer than heartbeatTimeout, one outside `settle' has no   *)
(* open settle window, a pending timer may fire at any later moment.       *)
(***************************************************************************)
CONSTANTS
    Device,    \* device ids (rows of the devices table, past and present)
    Socket,    \* sockets of the /device namespace
    NoDevice,  \* currentDeviceId of a socket that has not registered
    NoSocket   \* no entry in the map

ASSUME SentinelAssumption == NoDevice \notin Device /\ NoSocket \notin Socket

VARIABLES
    sockets,   \* sockets now in the namespace (deviceNs.sockets)
    current,   \* per socket: currentDeviceId, set together with authenticated
    closing,   \* the refused socket whose process.nextTick disconnect is queued
    evicted,   \* evictedSockets: their disconnect must not touch device state
    conn,      \* deviceConnections: per device the socket it was registered on
    pending,   \* pendingOfflines: per device the closed socket that armed it
    settle,    \* devices whose session-settle window is open
    stale,     \* devices with no beat for longer than heartbeatTimeout
    status,    \* devices.status, or "absent" when there is no row
    owner,     \* what the row is to its workspace (see Owner)
    tokened,   \* devices whose row holds a device_token
    reason     \* devices.offline_reason

memory == <<sockets, current, closing, evicted, conn, pending, settle>>
table  == <<stale, status, owner, tokened, reason>>
vars   == <<memory, table>>

Status == {"absent", "provisioning", "online", "offline"}

(* "code": unclaimed, its pairing code is on the screen; "claimed": has a  *)
(* user_id; "resigned": unpaired itself, neither code nor user_id.         *)
Owner == {"code", "claimed", "resigned"}

Reason == {"none", "silent", "announced", "unpaired"}

TypeOK ==
    /\ sockets \subseteq Socket
    /\ current \in [Socket -> Device \cup {NoDevice}]
    /\ closing \in sockets \cup {NoSocket}
    /\ evicted \subseteq Socket
    /\ conn \in [Device -> Socket \cup {NoSocket}]
    /\ pending \in [Device -> Socket \cup {NoSocket}]
    /\ settle \subseteq Device
    /\ stale \subseteq Device
    /\ status \in [Device -> Status]
    /\ owner \in [Device -> Owner]
    /\ tokened \subseteq Device
    /\ reason \in [Device -> Reason]

Rows == {d \in Device : status[d] # "absent"}

(* The handlers of one socket may run between its refusal and the queued   *)
(* disconnect; nothing else can: nextTick precedes every other callback.   *)
Quiet == closing = NoSocket

MayRun(s) == s \in sockets /\ closing \in {NoSocket, s}

Init ==
    /\ sockets = {} /\ closing = NoSocket /\ evicted = {} /\ settle = {}
    /\ current = [s \in Socket |-> NoDevice]
    /\ conn = [d \in Device |-> NoSocket]
    /\ pending = [d \in Device |-> NoSocket]
    /\ stale = {} /\ tokened = {}
    /\ status = [d \in Device |-> "absent"]
    /\ owner = [d \in Device |-> "code"]
    /\ reason = [d \in Device |-> "none"]

-----------------------------------------------------------------------------
(* Sockets come, are evicted, are refused, and go.                         *)

Connect(s) ==
    /\ Quiet
    /\ s \notin sockets \cup evicted
    /\ \A d \in Device : conn[d] # s /\ pending[d] # s
    /\ sockets' = sockets \cup {s}
    /\ UNCHANGED <<current, closing, evicted, conn, pending, settle, table>>

(* The `disconnect' handler: whether the closing of s arms the offline     *)
(* timer of the display it served, given the tags set at that moment.      *)
ArmsTimer(s, tags) ==
    /\ s \notin tags
    /\ current[s] # NoDevice
    /\ conn[current[s]] \in {NoSocket, s}

Armed(s, tags, timers) ==
    IF ArmsTimer(s, tags) THEN [timers EXCEPT ![current[s]] = s] ELSE timers

(* evictedSockets.delete(socket.id): reading the tag removes it.           *)
DrainedByHas(s) == evicted   \* mutant: has() in place of delete()
Drained(s) == evicted \ {s}

(* An exit frame that arrived with the close is applied by the handler     *)
(* just before it arms the timer (applyUndispatchedExit).                  *)
Disconnect(s) ==
    /\ MayRun(s)
    /\ sockets' = sockets \ {s}
    /\ current' = [current EXCEPT ![s] = NoDevice]
    /\ closing' = NoSocket
    /\ evicted' = Drained(s)
    /\ pending' = Armed(s, evicted, pending)
    /\ \/ UNCHANGED reason
       \/ /\ ArmsTimer(s, evicted)
          /\ current[s] \in Rows
          /\ reason' = [reason EXCEPT ![current[s]] = "announced"]
    /\ UNCHANGED <<conn, settle, stale, status, owner, tokened>>

(* The map entry of d belongs to another socket, still in the namespace.   *)
IncumbentIfLate(s, d) ==   \* mutant: only an incumbent that is late counts
    conn[d] # s /\ conn[d] \in sockets /\ d \in stale
Incumbent(s, d) == conn[d] # s /\ conn[d] \in sockets

(* The enrolment-key exchange opens the handler: a key names its display   *)
(* and issues a token to a row that has none, whatever happens next.       *)
Issued(key) == tokened \cup ({key} \cap Rows)

(* Refused with a queued disconnect and no tag: operator block, flap       *)
(* limiter, reconnect throttle, unknown enrolment key.                     *)
Refused(s, key) ==
    /\ MayRun(s)
    /\ closing' = s
    /\ tokened' = Issued(key)
    /\ UNCHANGED <<sockets, current, evicted, conn, pending, settle,
                   stale, status, owner, reason>>

(* A duplicate of a live session is refused softly, and tagged: by the     *)
(* settle debounce, or by the ping-pong guard when the incumbent is fresh. *)
Held(s, d, key) ==
    /\ MayRun(s)
    /\ d \in Rows \cap Issued(key)
    /\ Incumbent(s, d)
    /\ d \in settle \/ d \notin stale
    /\ closing' = s
    /\ evicted' = evicted \cup {s}
    /\ tokened' = Issued(key)
    /\ UNCHANGED <<sockets, current, conn, pending, settle,
                   stale, status, owner, reason>>

(* evictPriorSocket marks the incumbent before it disconnects it, because  *)
(* disconnect(true) runs its `disconnect' handler at once.                 *)
MarkedNever(p) == evicted   \* mutant: the incumbent is closed unmarked
Marked(p) == evicted \cup {p}

(* offline_reason = NULL: the last session's manner of death is forgotten. *)
KeptReason(d) == reason   \* mutant: the UPDATE leaves offline_reason alone
ClearedReason(d) == [reason EXCEPT ![d] = "none"]

(* clearTimeout: the display is back in its grace window.                  *)
KeptTimer(d) == pending   \* mutant: the armed timer is left to fire
Cancelled(d) == [pending EXCEPT ![d] = NoSocket]

(* What every accepted registration does: cancel the pending offline, evict*)
(* the prior socket, record the display online, and own the connection.    *)
Serve(s, d) ==
    LET prior == IF Incumbent(s, d) THEN {conn[d]} ELSE {}
        timers == Cancelled(d)
    IN  /\ sockets' = sockets \ prior
        /\ current' = [t \in Socket |-> IF t = s THEN d
                                        ELSE IF t \in prior THEN NoDevice
                                        ELSE current[t]]
        /\ evicted' = evicted \ prior
        /\ pending' = IF prior = {} THEN timers
                      ELSE Armed(conn[d], Marked(conn[d]), timers)
        /\ conn' = [conn EXCEPT ![d] = s]
        /\ stale' = stale \ {d}
        /\ status' = [status EXCEPT ![d] = "online"]
        /\ reason' = ClearedReason(d)

(* A known display with its token (or the key its token was taken from).   *)
(* A re-register on the same socket is a playlist refresh: no incumbent.   *)
Register(s, d, key) ==
    /\ MayRun(s)
    /\ d \in Rows \cap Issued(key)
    /\ ~(Incumbent(s, d) /\ d \in settle)
    /\ Serve(s, d)
    /\ settle' = settle \cup {d}
    /\ tokened' = Issued(key)
    /\ UNCHANGED <<closing, owner>>

(* A reinstalled player: no identity but a fingerprint linked to d.  It    *)
(* takes over a claimed row, or its own unclaimed one when the codes match;*)
(* a live connection refuses it, unless d is in its deferred offline.      *)
Reclaim(s, d) ==
    /\ MayRun(s)
    /\ d \in Rows
    /\ owner[d] \in {"claimed", "code"}
    /\ conn[d] = NoSocket \/ pending[d] # NoSocket
    /\ Serve(s, d)
    /\ tokened' = tokened \cup {d}
    /\ UNCHANGED <<closing, settle, owner>>

(* A new display: a fresh row holding the pairing code on the screen.      *)
Provision(s, d) ==
    /\ MayRun(s)
    /\ d \notin Rows \cup settle \cup {current[t] : t \in Socket}
    /\ conn[d] = NoSocket /\ pending[d] = NoSocket
    /\ status' = [status EXCEPT ![d] = "provisioning"]
    /\ owner' = [owner EXCEPT ![d] = "code"]
    /\ reason' = [reason EXCEPT ![d] = "none"]
    /\ tokened' = tokened \cup {d}
    /\ stale' = stale \ {d}
    /\ current' = [current EXCEPT ![s] = d]
    /\ conn' = [conn EXCEPT ![d] = s]
    /\ UNCHANGED <<sockets, closing, evicted, pending, settle>>

-----------------------------------------------------------------------------
(* Events of an authenticated socket.                                      *)

Serving(s, d) == MayRun(s) /\ d # NoDevice /\ current[s] = d

(* Every beat refreshes the connection; the row is written unless the      *)
(* heartbeat floor drops it.                                               *)
Heartbeat(s, d) ==
    /\ Serving(s, d)
    /\ stale' = stale \ {d}
    /\ \/ UNCHANGED status
       \/ d \in Rows /\ status' = [status EXCEPT ![d] = "online"]
    /\ UNCHANGED <<memory, owner, tokened, reason>>

(* device:exit, and the beacon the display POSTs when it cannot emit.  The *)
(* beacon needs the token only: one that was sent by an earlier session    *)
(* may arrive in a later one, and is then taken for that one's exit.       *)
Announce(d) ==
    /\ d \in Rows
    /\ reason' = [reason EXCEPT ![d] = "announced"]
    /\ UNCHANGED <<memory, stale, status, owner, tokened>>

Exit(s, d) == Serving(s, d) /\ Announce(d)

ExitBeacon(d) == Quiet /\ d \in tokened /\ Announce(d)

(* The operator unpaired the display at the panel; its socket lives on.    *)
SelfUnpair(s, d) ==
    /\ Serving(s, d)
    /\ d \in Rows
    /\ owner' = [owner EXCEPT ![d] = "resigned"]
    /\ tokened' = tokened \ {d}
    /\ status' = [status EXCEPT ![d] = "offline"]
    /\ stale' = IF conn[d] = NoSocket THEN stale \cup {d} ELSE stale
    /\ reason' = [reason EXCEPT ![d] = "unpaired"]
    /\ UNCHANGED memory

-----------------------------------------------------------------------------
(* Timers and the clock.                                                   *)

WentOffline(S) ==
    /\ status' = [d \in Device |-> IF d \in S \cap Rows THEN "offline" ELSE status[d]]
    /\ reason' = [d \in Device |-> IF d \in S \cap Rows /\ reason[d] = "none"
                                   THEN "silent" ELSE reason[d]]

(* The debounced offline transition, unless another socket has taken over. *)
OfflineTimer(d) ==
    /\ Quiet
    /\ pending[d] # NoSocket
    /\ pending' = [pending EXCEPT ![d] = NoSocket]
    /\ IF conn[d] \in {NoSocket, pending[d]}
       THEN WentOffline({d}) /\ conn' = [conn EXCEPT ![d] = NoSocket]
       ELSE UNCHANGED <<status, reason, conn>>
    /\ UNCHANGED <<sockets, current, closing, evicted, settle,
                   stale, owner, tokened>>

(* The heartbeat checker: a display with a live socket is up however late  *)
(* its beat; any other that is late goes offline and leaves the map.  The  *)
(* pending timer stays.                                                    *)
TimedOutLate ==       \* mutant: a late beat outweighs a live socket
    {d \in Device : status[d] = "online" /\ d \in stale}
TimedOutUnmapped ==   \* mutant: any map entry counts as a live socket
    {d \in Device : status[d] = "online" /\ conn[d] = NoSocket /\ d \in stale}
TimedOut == {d \in Device : status[d] = "online" /\ conn[d] \notin sockets /\ d \in stale}

Sweep ==
    /\ Quiet
    /\ TimedOut # {}
    /\ WentOffline(TimedOut)
    /\ conn' = [d \in Device |-> IF d \in TimedOut THEN NoSocket ELSE conn[d]]
    /\ UNCHANGED <<sockets, current, closing, evicted, pending, settle,
                   stale, owner, tokened>>

(* Time passes: no beat for longer than heartbeatTimeout (a live socket's  *)
(* beat may be stuck behind a lagged event loop); the settle window closes.*)
GoesStale(d) ==
    /\ Quiet
    /\ d \notin stale
    /\ stale' = stale \cup {d}
    /\ UNCHANGED <<memory, status, owner, tokened, reason>>

SettleCloses(d) ==
    /\ Quiet
    /\ d \in settle
    /\ settle' = settle \ {d}
    /\ UNCHANGED <<sockets, current, closing, evicted, conn, pending, table>>

-----------------------------------------------------------------------------
(* The dashboard, the retention sweep, and a restart of the server.        *)

(* POST /api/provision/pair: the operator types the code on the screen.    *)
Claim(d) ==
    /\ Quiet
    /\ d \in Rows /\ owner[d] = "code"
    /\ owner' = [owner EXCEPT ![d] = "claimed"]
    /\ status' = [status EXCEPT ![d] = "online"]
    /\ UNCHANGED <<memory, stale, tokened, reason>>

(* POST /api/devices/web-player: a claimed row made before its player runs.*)
CreateWebPlayer(d) ==
    /\ Quiet
    /\ d \notin Rows \cup settle \cup {current[t] : t \in Socket}
    /\ conn[d] = NoSocket /\ pending[d] = NoSocket
    /\ status' = [status EXCEPT ![d] = "offline"]
    /\ owner' = [owner EXCEPT ![d] = "claimed"]
    /\ tokened' = tokened \cup {d}
    /\ stale' = stale \cup {d}
    /\ reason' = [reason EXCEPT ![d] = "none"]
    /\ UNCHANGED memory

RowGone(d) ==
    /\ Quiet
    /\ status' = [status EXCEPT ![d] = "absent"]
    /\ owner' = [owner EXCEPT ![d] = "code"]
    /\ tokened' = tokened \ {d}
    /\ reason' = [reason EXCEPT ![d] = "none"]
    /\ UNCHANGED <<memory, stale>>

(* DELETE /api/devices/:id leaves the display's socket and map entry alone.*)
Delete(d) == d \in Rows /\ owner[d] # "code" /\ RowGone(d)

(* The retention sweep drops unclaimed rows still in `provisioning'.       *)
PruneProvisioning(d) == status[d] = "provisioning" /\ RowGone(d)

(* A restart keeps the table and loses everything held in memory.          *)
Restart ==
    /\ sockets' = {} /\ closing' = NoSocket /\ evicted' = {} /\ settle' = {}
    /\ current' = [s \in Socket |-> NoDevice]
    /\ conn' = [d \in Device |-> NoSocket]
    /\ pending' = [d \in Device |-> NoSocket]
    /\ UNCHANGED table

-----------------------------------------------------------------------------
SocketStep(s) ==
    \/ Connect(s)
    \/ Disconnect(s)
    \/ \E key \in Device \cup {NoDevice} : Refused(s, key)
    \/ \E d \in Device, keyed \in BOOLEAN :
          LET key == IF keyed THEN d ELSE NoDevice
          IN  Held(s, d, key) \/ Register(s, d, key)
    \/ \E d \in Device : \/ Reclaim(s, d) \/ Provision(s, d)
                         \/ Heartbeat(s, d) \/ Exit(s, d) \/ SelfUnpair(s, d)

DeviceStep(d) ==
    \/ ExitBeacon(d)
    \/ OfflineTimer(d) \/ GoesStale(d) \/ SettleCloses(d)
    \/ Claim(d) \/ CreateWebPlayer(d) \/ Delete(d) \/ PruneProvisioning(d)

Next ==
    \/ \E s \in Socket : SocketStep(s)
    \/ \E d \in Device : DeviceStep(d)
    \/ Sweep
    \/ Restart

Spec == Init /\ [][Next]_vars

(* The server's timers run and time passes; nothing is assumed of displays,*)
(* operators or restarts.  Timers are disabled while a nextTick is queued  *)
(* and the event loop reaches them in every round: strong fairness.        *)
Fairness ==
    /\ \A s \in Socket : WF_vars(closing = s /\ Disconnect(s))
    /\ \A d \in Device : SF_vars(OfflineTimer(d)) /\ SF_vars(GoesStale(d))
    /\ SF_vars(Sweep)

FairSpec == Spec /\ Fairness

-----------------------------------------------------------------------------
(* A socket that speaks for a display is the one in the connection map, so *)
(* no two live sockets serve one display and the map-based stale guard in  *)
(* the disconnect handler is right to trust it.                            *)
OwnerIsConnection ==
    \A s \in sockets : current[s] # NoDevice => conn[current[s]] = s

(* The self-reset race (#146): no offline timer is armed for a display     *)
(* whose connection is live, whatever order evictions and closes take.  It *)
(* is also what makes the fingerprint reclaim safe: a display in deferred  *)
(* offline never has a live connection to take over.                       *)
NoTimerWhileLive ==
    \A d \in Device : pending[d] # NoSocket =>
        /\ pending[d] \notin sockets
        /\ conn[d] \notin sockets

(* No false offline: a claimed display that a live socket serves is never  *)
(* recorded offline, however late its beats and whichever timers fire.     *)
ServedIsNotOffline ==
    \A s \in sockets : LET d == current[s] IN
        d # NoDevice => ~(owner[d] = "claimed" /\ status[d] = "offline")

(* The eviction tags drain: outside the tick between a refusal and its     *)
(* disconnect no tag is left to swallow a later disconnect.                *)
TagsDrain == evicted \subseteq {closing}

(* No old death: the row of a display in service holds no 'silent' of an  *)
(* earlier session, whichever timers, sweeps and claims came between.  The *)
(* offline transition keeps a reason and a time it finds (COALESCE), so    *)
(* the next silent death would be dated by that one.                       *)
ServedIsNotSilent ==
    \A s \in sockets : current[s] # NoDevice => reason[current[s]] # "silent"

(* The anti-hijack boundary and the settle debounce: a live connection is  *)
(* replaced only by a registration that holds the display's token, never by*)
(* a fingerprint reclaim, and never within its settle window.              *)
Taken(d) == conn[d] \in sockets /\ conn'[d] \in sockets' /\ conn'[d] # conn[d]
ByToken(d) == \E s \in Socket, key \in {d, NoDevice} : Register(s, d, key)
TokenTakes == \A d \in Device : Taken(d) => d \notin settle /\ ByToken(d)
LiveIsNotTaken == [][TokenTakes]_vars

(* A display that is gone is found out: recorded online without a live     *)
(* connection, it ends offline, removed, or connected again.               *)
GoneIsNoticed ==
    \A d \in Device :
        (status[d] = "online" /\ conn[d] \notin sockets)
            ~> (status[d] # "online" \/ conn[d] \in sockets)
=============================================================================
