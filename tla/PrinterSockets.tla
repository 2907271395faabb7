--------------------------- MODULE PrinterSockets ---------------------------
(***************************************************************************)
(* The OctoPrint WebSocket life cycle: the adapters kept by                *)
(* PrinterSocketStore, the WebSocket objects they open, the two periodic   *)
(* tasks that repair them, and the handlers of printer events.             *)
(*                                                                         *)
(* Node runs handlers one at a time, so an atomic step is the code between *)
(* two awaits.  A reconnect run awaits HTTP replies and send callbacks     *)
(* (`sess`), and a WebSocket reports opening, messages and closing through *)
(* handlers that stay attached after the adapter has let go of it.         *)
(***************************************************************************)
EXTENDS Naturals

CONSTANTS
    Printer,      \* printers the operator can add, change and remove
    Adapter,      \* OctoPrintSockIoAdapter objects
    Conn,         \* WebSocket objects
    Run,          \* executions of the reconnect task that may be under way
                  \* at once: more than one, if the scheduler lets them overlap
    Disturbance,  \* what the environment does to the sockets
    MaxDisturb,   \* bound: how often it does so in one behaviour
    PromptClose,  \* closing handshakes end before the next connection opens
    None          \* no adapter, no WebSocket

ASSUME NoneAssumption == None \notin Adapter \cup Conn
ASSUME BoundAssumption == MaxDisturb \in Nat
ASSUME PromptCloseAssumption == PromptClose \in BOOLEAN

VARIABLES
    reg,      \* reg[p]: the entry of p in printerSocketAdaptersById
    ad,       \* ad[a]: socketState, apiState, reauthRequired of a, and whether
              \* its sessionDto was obtained with credentials since replaced
    sock,     \* sock[a]: the WebSocket a.socket refers to
    conn,     \* conn[c]: state of a WebSocket, the adapter its handlers are
              \* bound to, and whether it was sent a (usable) session
    run,      \* run[r]: which Promise.all of the reconnect task r awaits
    sess,     \* sess[r][a]: what the session set-up started by r for a awaits
    restore,  \* adapters the restore task has listed and not yet visited
    budget    \* disturbances left

vars == <<reg, ad, sock, conn, run, sess, restore, budget>>

SocketState == {"unopened", "opening", "authenticating", "authenticated",
                "aborted", "error", "closed"}
ApiState == {"unset", "noResponse", "globalKey", "authFail", "responding"}

\* "login": a login request is out; "loginOld": so it is, but the credentials it
\* carries have been replaced since; "user": the user list is awaited;
\* "send": the callback of the auth message of a re-authentication is awaited.
SessionStep == {"none", "login", "loginOld", "user", "send"}

\* "closing": close() was called here, the peer may still send;
\* "ending": nothing can arrive any more but the close event.
ConnState == {"none", "connecting", "open", "closing", "ending"}

AdapterRec == [ss : SocketState, api : ApiState, reauth : BOOLEAN, old : BOOLEAN]
ConnRec == [st : ConnState, owner : Adapter \cup {None}, auth : {"no", "old", "yes"}]

TypeOK ==
    /\ reg \in [Printer -> Adapter \cup {None}]
    /\ ad \in [Adapter -> AdapterRec]
    /\ sock \in [Adapter -> Conn \cup {None}]
    /\ conn \in [Conn -> ConnRec]
    /\ run \in [Run -> {"idle", "reauth", "open"}]
    /\ sess \in [Run -> [Adapter -> SessionStep]]
    /\ restore \in SUBSET Adapter
    /\ budget \in 0..MaxDisturb

-----------------------------------------------------------------------------
(* Adapter and WebSocket objects.                                          *)

NewAdapter == [ss |-> "unopened", api |-> "unset", reauth |-> FALSE, old |-> FALSE]
NoConn == [st |-> "none", owner |-> None, auth |-> "no"]

\* resetSocketState: a pending re-authentication request is kept
ResetSocketState(s) == [s EXCEPT !.ss = "unopened", !.api = "unset"]

\* Variants a bug could produce, for the mutant runs: the arguments of the two
\* setters swapped, and the API state forgotten
AbortSwapped(s, api) == [s EXCEPT !.ss = api, !.api = "aborted"]
AbortWithoutReason(s, api) == [s EXCEPT !.ss = "aborted"]

Abort(s, api) == [s EXCEPT !.ss = "aborted", !.api = api]

\* registerCredentials: the session the adapter has may be of no more use
RegisterCredentials(s, newCredentials) == [s EXCEPT !.old = s.old \/ newCredentials]

NeedsReopen(s) == s.api = "responding" /\ s.ss \in {"closed", "error"}
NeedsSetup(s) == s.ss = "unopened"
\* Variants: one of the two states forgotten
IsClosed(s) == s.ss = "closed"
IsAborted(s) == s.ss = "aborted"
IsClosedOrAborted(s) == s.ss \in {"closed", "aborted"}

Registered == {a \in Adapter : \E p \in Printer : reg[p] = a}
Live(c) == conn[c].st # "none"
Unused(a) ==
    /\ a \notin Registered \cup restore
    /\ \A r \in Run : sess[r][a] = "none"
    /\ \A c \in Conn : Live(c) => conn[c].owner # a

IsOpened(a) == sock[a] # None /\ conn[sock[a]].st = "open"
IsConnecting(a) == sock[a] # None /\ conn[sock[a]].st = "connecting"

\* close(): an open WebSocket starts its closing handshake, one that is still
\* connecting is aborted.  Its handlers stay attached, and a.socket is deleted.
AfterClose(c) ==
    CASE c.st = "connecting" -> NoConn
      [] c.st = "open" -> [c EXCEPT !.st = "closing"]
      [] OTHER -> c

CloseSocket(a) ==
    /\ sock' = [sock EXCEPT ![a] = None]
    /\ conn' = [c \in Conn |-> IF sock[a] = c THEN AfterClose(conn[c]) ELSE conn[c]]

\* An aborted handshake raises its error and close events before anything else
\* runs, so they come after the synchronous rest of the calling handler.
AbortEvents(a, s) == IF IsConnecting(a) THEN [s EXCEPT !.ss = "closed"] ELSE s

\* sendAuth: a message is sent only on an open a.socket
SendAuth(a, cs) ==
    IF sock[a] # None /\ cs[sock[a]].st = "open"
    THEN [cs EXCEPT ![sock[a]].auth = IF ad[a].old THEN "old" ELSE "yes"]
    ELSE cs

\* Variant: open() does not look whether there is a socket
CanAlwaysOpen(a) == TRUE

\* open(): refused while the adapter holds a socket
CanOpen(a) == sock[a] = None

\* The environment acts at most MaxDisturb times
Disturb(kind) ==
    /\ kind \in Disturbance
    /\ budget > 0
    /\ budget' = budget - 1

-----------------------------------------------------------------------------
(* The reconnect task: reconnectPrinterSockets.                            *)

\* Second loop: every adapter that needs it starts a session set-up.  `s` is
\* the state of the adapters when the loop starts.  The run ends at once if
\* there is nothing to wait for.
OpenPhase(r, s) ==
    LET needing == {a \in Registered : NeedsSetup(s[a]) \/ NeedsReopen(s[a])} IN
    /\ ad' = [a \in Adapter |-> IF a \in needing THEN ResetSocketState(s[a]) ELSE s[a]]
    /\ sess' = [sess EXCEPT ![r] =
                   [a \in Adapter |-> IF a \in needing THEN "login" ELSE "none"]]
    /\ run' = [run EXCEPT ![r] = IF needing = {} THEN "idle" ELSE "open"]

\* First loop: adapters that were asked to, re-authenticate.  Without any,
\* the second loop follows in the same step.
StartReconnect(r) ==
    LET reauthing == {a \in Registered : ad[a].reauth} IN
    /\ run[r] = "idle"
    /\ IF reauthing = {}
       THEN OpenPhase(r, ad)
       ELSE /\ ad' = [a \in Adapter |-> IF a \in reauthing
                                        THEN ResetSocketState(ad[a]) ELSE ad[a]]
            /\ sess' = [sess EXCEPT ![r] =
                           [a \in Adapter |-> IF a \in reauthing THEN "login" ELSE "none"]]
            /\ run' = [run EXCEPT ![r] = "reauth"]
    /\ UNCHANGED <<reg, sock, conn, restore, budget>>

\* The promise of r for a settles and leaves the adapters in state s; the last
\* one of a Promise.all lets the run go on.
Settle(r, a, s) ==
    IF \E b \in Adapter \ {a} : sess[r][b] # "none"
    THEN /\ sess' = [sess EXCEPT ![r][a] = "none"]
         /\ ad' = s
         /\ run' = run
    ELSE IF run[r] = "reauth"
         THEN OpenPhase(r, s)
         ELSE /\ sess' = [sess EXCEPT ![r][a] = "none"]
              /\ ad' = s
              /\ run' = [run EXCEPT ![r] = "idle"]

\* setupSocketSession, the login request answers
LoginSucceeds(r, a) ==
    /\ sess[r][a] \in {"login", "loginOld"}
    /\ ad' = [ad EXCEPT ![a].ss = "opening", ![a].api = "responding",
                        ![a].old = (sess[r][a] = "loginOld")]
    /\ sess' = [sess EXCEPT ![r][a] = "user"]
    /\ UNCHANGED <<reg, sock, conn, run, restore, budget>>

\* ... or fails: a global API key, the guest group, HTTP 403, no answer
LoginFails(r, a) ==
    /\ sess[r][a] \in {"login", "loginOld"}
    /\ Disturb("httpFault")
    /\ \E api \in {"globalKey", "authFail", "noResponse"} :
           Settle(r, a, [ad EXCEPT ![a] = Abort(@, api)])
    /\ UNCHANGED <<reg, sock, conn, restore>>

\* A closing handshake takes a round trip, a session set-up two; but an
\* unresponsive peer is given ws's closing time-out, which is far longer.
ClosedInTime(a) ==
    PromptClose => \A c \in Conn : conn[c].owner = a => conn[c].st \notin {"closing", "ending"}

\* Variant: the set-up waits for the socket to go away instead of giving up
OpenSocketWaits(r, a) ==
    /\ sess[r][a] = "user"
    /\ run[r] = "open"
    /\ sock[a] = None
    /\ \E c \in Conn :
          /\ ~Live(c)
          /\ conn' = [conn EXCEPT ![c] = [st |-> "connecting", owner |-> a, auth |-> "no"]]
          /\ sock' = [sock EXCEPT ![a] = c]
    /\ Settle(r, a, ad)
    /\ UNCHANGED <<reg, restore, budget>>

\* The user name is known: the adapter opens its socket, unless it has one
OpenSocket(r, a) ==
    /\ sess[r][a] = "user"
    /\ run[r] = "open"
    /\ ClosedInTime(a)
    /\ IF CanOpen(a)
       THEN \E c \in Conn :
              /\ ~Live(c)
              /\ conn' = [conn EXCEPT ![c] =
                             [st |-> "connecting", owner |-> a, auth |-> "no"]]
              /\ sock' = [sock EXCEPT ![a] = c]
       ELSE UNCHANGED <<conn, sock>>
    /\ Settle(r, a, ad)
    /\ UNCHANGED <<reg, restore, budget>>

\* ... or, when re-authenticating, sends the new session on the socket it has
SendReauth(r, a) ==
    /\ sess[r][a] = "user"
    /\ run[r] = "reauth"
    /\ conn' = SendAuth(a, conn)
    /\ IF IsOpened(a)
       THEN /\ ad' = [ad EXCEPT ![a].ss = "authenticating"]
            /\ sess' = [sess EXCEPT ![r][a] = "send"]
            /\ run' = run
       ELSE Settle(r, a, [ad EXCEPT ![a].ss = "authenticating", ![a].reauth = FALSE])
    /\ UNCHANGED <<reg, sock, restore, budget>>

ReauthSent(r, a) ==
    /\ sess[r][a] = "send"
    /\ Settle(r, a, [ad EXCEPT ![a].reauth = FALSE])
    /\ UNCHANGED <<reg, sock, conn, restore, budget>>

\* The connection died before the message was written
ReauthNotSent(r, a) ==
    /\ sess[r][a] = "send"
    /\ Disturb("wsFault")
    /\ Settle(r, a, ad)
    /\ UNCHANGED <<reg, sock, conn, restore>>

\* getAdminUserOrDefault fails: whatever the status, authFail
UserFails(r, a) ==
    /\ sess[r][a] = "user"
    /\ Disturb("httpFault")
    /\ Settle(r, a, [ad EXCEPT ![a] = Abort(@, "authFail")])
    /\ UNCHANGED <<reg, sock, conn, restore>>

-----------------------------------------------------------------------------
(* The restore task.  It walks the adapters it listed when it started and  *)
(* awaits an API call (which only feeds its log) between them.             *)

StartRestore ==
    /\ restore = {}
    /\ restore' = Registered
    /\ UNCHANGED <<reg, ad, sock, conn, run, sess, budget>>

RestoreAdapter(a) ==
    /\ a \in restore
    /\ restore' = restore \ {a}
    /\ IF IsClosedOrAborted(ad[a])
       THEN /\ CloseSocket(a)
            /\ ad' = [ad EXCEPT ![a] = AbortEvents(a, ResetSocketState(@))]
       ELSE UNCHANGED <<sock, conn, ad>>
    /\ UNCHANGED <<reg, run, sess, budget>>

-----------------------------------------------------------------------------
(* Operator: printer events and the reconnect request.                     *)

\* createOrUpdateSocket for an enabled printer without an adapter
SaveNewPrinter(p) ==
    /\ reg[p] = None
    /\ Disturb("save")
    /\ \E a \in Adapter :
           /\ Unused(a)
           /\ reg' = [reg EXCEPT ![p] = a]
           /\ ad' = [ad EXCEPT ![a] = NewAdapter]
    /\ UNCHANGED <<sock, conn, run, sess, restore>>

\* createOrUpdateSocket for an enabled printer with one.  A login request that
\* is out keeps the credentials it was sent with.
SavePrinter(p, newCredentials) ==
    LET a == reg[p] IN
    /\ a # None
    /\ Disturb("save")
    /\ CloseSocket(a)
    /\ ad' = [ad EXCEPT ![a] =
                 AbortEvents(a, ResetSocketState(RegisterCredentials(@, newCredentials)))]
    /\ sess' = [r \in Run |-> [sess[r] EXCEPT ![a] =
                   IF newCredentials /\ @ = "login" THEN "loginOld" ELSE @]]
    /\ UNCHANGED <<reg, run, restore>>

\* deleteSocket: the printer is disabled or deleted
DropPrinter(p) ==
    LET a == reg[p] IN
    /\ a # None
    /\ Disturb("drop")
    /\ CloseSocket(a)
    /\ ad' = [ad EXCEPT ![a] = AbortEvents(a, @)]
    /\ reg' = [reg EXCEPT ![p] = None]
    /\ UNCHANGED <<run, sess, restore>>

ReconnectOctoPrint(p) ==
    LET a == reg[p] IN
    /\ a # None
    /\ Disturb("reconnect")
    /\ CloseSocket(a)
    /\ ad' = [ad EXCEPT ![a] = AbortEvents(a, ResetSocketState(@))]
    /\ UNCHANGED <<reg, run, sess, restore>>

-----------------------------------------------------------------------------
(* Handlers of a WebSocket.  They act on the adapter they are bound to,    *)
(* whichever socket that adapter refers to now.                            *)

\* onopen, afterOpened: "opened" is overwritten by sendAuth in the same step
ConnOpened(c) ==
    LET a == conn[c].owner IN
    /\ conn[c].st = "connecting"
    /\ conn' = SendAuth(a, [conn EXCEPT ![c].st = "open"])
    /\ ad' = [ad EXCEPT ![a].ss = "authenticating"]
    /\ UNCHANGED <<reg, sock, run, sess, restore, budget>>

\* onmessage; wantsReauth: the message is OctoPrint's reauthRequired
ConnMessage(c, wantsReauth) ==
    LET a == conn[c].owner IN
    /\ conn[c].st \in {"open", "closing"}
    /\ ad' = [ad EXCEPT ![a].ss = "authenticated", ![a].reauth = @ \/ wantsReauth]
    /\ IF wantsReauth THEN Disturb("reauth") ELSE UNCHANGED budget
    /\ UNCHANGED <<reg, sock, conn, run, sess, restore>>

\* Variant: the close handler leaves a.socket alone
AfterClosedKeepsSocket(c) ==
    /\ ad' = [ad EXCEPT ![conn[c].owner].ss = "closed"]
    /\ sock' = sock
    /\ conn' = [conn EXCEPT ![c] = NoConn]

\* onclose, afterClosed: it deletes a.socket, be it c or a later one
AfterClosed(c) ==
    LET a == conn[c].owner IN
    /\ ad' = [ad EXCEPT ![a].ss = "closed"]
    /\ sock' = [sock EXCEPT ![a] = None]
    /\ conn' = [conn EXCEPT ![c] = NoConn]

ConnClosed(c) ==
    /\ conn[c].st \in {"closing", "ending"}
    /\ AfterClosed(c)
    /\ UNCHANGED <<reg, run, sess, restore, budget>>

\* The handshake fails or times out: error and close events in one step
ConnRefused(c) ==
    /\ conn[c].st = "connecting"
    /\ Disturb("wsFault")
    /\ AfterClosed(c)
    /\ UNCHANGED <<reg, run, sess, restore>>

\* The peer closes, or the network does: the close event is still to come
ConnDropped(c) ==
    /\ conn[c].st = "open"
    /\ Disturb("wsFault")
    /\ conn' = [conn EXCEPT ![c].st = "ending"]
    /\ UNCHANGED <<reg, ad, sock, run, sess, restore>>

\* onerror on an open connection: a malformed frame, which ends it
ConnError(c) ==
    /\ conn[c].st = "open"
    /\ Disturb("wsFault")
    /\ conn' = [conn EXCEPT ![c].st = "ending"]
    /\ ad' = [ad EXCEPT ![conn[c].owner].ss = "error"]
    /\ UNCHANGED <<reg, sock, run, sess, restore>>

-----------------------------------------------------------------------------
(* Specification.                                                          *)

\* loadPrinterSockets: a fresh adapter for every enabled printer
Init ==
    /\ reg \in {f \in [Printer -> Adapter \cup {None}] :
                   \A p, q \in Printer : f[p] = f[q] => p = q \/ f[p] = None}
    /\ ad = [a \in Adapter |-> NewAdapter]
    /\ sock = [a \in Adapter |-> None]
    /\ conn = [c \in Conn |-> NoConn]
    /\ run = [r \in Run |-> "idle"]
    /\ sess = [r \in Run |-> [a \in Adapter |-> "none"]]
    /\ restore = {}
    /\ budget = MaxDisturb

SessionStepNext(r, a) ==
    \/ LoginSucceeds(r, a) \/ LoginFails(r, a)
    \/ OpenSocket(r, a) \/ SendReauth(r, a) \/ UserFails(r, a)
    \/ ReauthSent(r, a) \/ ReauthNotSent(r, a)

OperatorNext(p) ==
    \/ SaveNewPrinter(p)
    \/ \E newCredentials \in BOOLEAN : SavePrinter(p, newCredentials)
    \/ DropPrinter(p)
    \/ ReconnectOctoPrint(p)

ConnNext(c) ==
    \/ ConnOpened(c) \/ ConnRefused(c)
    \/ \E wantsReauth \in BOOLEAN : ConnMessage(c, wantsReauth)
    \/ ConnDropped(c) \/ ConnError(c) \/ ConnClosed(c)

Next ==
    \/ \E r \in Run : StartReconnect(r)
    \/ \E r \in Run, a \in Adapter : SessionStepNext(r, a)
    \/ StartRestore
    \/ \E a \in Adapter : RestoreAdapter(a)
    \/ \E p \in Printer : OperatorNext(p)
    \/ \E c \in Conn : ConnNext(c)

Spec == Init /\ [][Next]_vars

(***************************************************************************)
(* Fairness.  Both tasks are interval timers (so runs of the reconnect     *)
(* task keep starting, overlapping or not), HTTP requests and handshakes   *)
(* have time-outs, ws destroys a socket whose closing handshake takes too  *)
(* long, and OctoPrint keeps sending to a client it has authenticated.     *)
(* Nothing is assumed of the operator, of faults, or of messages on a      *)
(* connection that was never sent a session.                               *)
(***************************************************************************)
Fairness ==
    /\ WF_vars(\E r \in Run : StartReconnect(r))
    /\ \A r \in Run, a \in Adapter : WF_vars(SessionStepNext(r, a))
    /\ WF_vars(StartRestore)
    /\ \A a \in Adapter : WF_vars(RestoreAdapter(a))
    /\ \A c \in Conn : WF_vars(ConnOpened(c) \/ ConnRefused(c))
    /\ \A c \in Conn : WF_vars(ConnClosed(c))
    /\ \A c \in Conn : WF_vars(conn[c].auth = "yes" /\ ConnMessage(c, FALSE))

FairSpec == Spec /\ Fairness

-----------------------------------------------------------------------------
(* Properties.                                                             *)

\* The socket an adapter refers to is a WebSocket of its own that has not
\* reported its end: whatever order close events come in, needsReopen and
\* isOpened never look at a dead one.
AttachedIsLive ==
    \A a \in Adapter : sock[a] # None => Live(sock[a]) /\ conn[sock[a]].owner = a

\* Every step of the sockets is a step of the slots: open() never replaces a
\* socket the adapter holds, even when two set-ups for the same adapter overlap
\* or the operator reconnects in between, and no WebSocket is used twice.
Slots == INSTANCE SocketSlots WITH
            Slot <- Adapter, Connection <- Conn,
            held <- sock, owner <- [c \in Conn |-> conn[c].owner]

OneSocketAtATime == Slots!Spec

\* The pair of states shown to the user agrees: an aborted socket names the
\* reason, a socket being opened follows a successful login, a reset one
\* claims nothing about the API.
StatesAgree ==
    \A a \in Adapter :
        /\ ad[a].ss = "aborted" => ad[a].api \in {"globalKey", "authFail", "noResponse"}
        /\ ad[a].ss = "opening" => ad[a].api = "responding"
        /\ ad[a].ss = "unopened" => ad[a].api = "unset"

\* No connection escapes: one that is opening or open is the socket of the
\* adapter of an enabled printer.
NoLeakedConnection ==
    \A c \in Conn : conn[c].st \in {"connecting", "open"} =>
        /\ conn[c].owner \in Registered
        /\ sock[conn[c].owner] = c

\* "Delete the socket if the printer is disabled": no connection is opening or
\* open for an adapter the store has deleted.
DisabledHasNoSocket ==
    \A c \in Conn : conn[c].st \in {"connecting", "open"} => conn[c].owner \in Registered

Healthy(a) == IsOpened(a) /\ conn[sock[a]].auth = "yes" /\ ad[a].ss = "authenticated"

\* Once faults end, every enabled printer is connected and stays so.
FaultRecovery ==
    \A p \in Printer : <>[](reg[p] = None \/ Healthy(reg[p]))

\* No promise of a reconnect run stays pending.
RunEnds == \A r \in Run : run[r] # "idle" ~> run[r] = "idle"

\* The tasks never leave an adapter in a state from which they reconnect.
NeverForgotten ==
    \A a \in Adapter :
        ad[a].ss \in {"unopened", "closed", "aborted"} /\ a \in Registered
        ~> ad[a].ss \notin {"unopened", "closed", "aborted"} \/ a \notin Registered

\* "The reconnect task will pick up this state and reconnect": an adapter that
\* was reset gets a new socket.
ReconnectPicksUp ==
    \A a \in Adapter :
        a \in Registered /\ ad[a].ss = "unopened" /\ sock[a] = None
        ~> a \notin Registered \/ sock[a] # None
=============================================================================
