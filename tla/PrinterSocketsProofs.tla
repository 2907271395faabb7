------------------------ MODULE PrinterSocketsProofs ------------------------
(* Theorems about PrinterSockets, for all values of its constants. *)
EXTENDS PrinterSockets, TLAPS

(* The parts of the state a step builds keep their types.                  *)

LEMMA AdapterRecType ==
    ASSUME NEW s \in AdapterRec
    PROVE  /\ ResetSocketState(s) \in AdapterRec
           /\ \A api \in ApiState : Abort(s, api) \in AdapterRec
           /\ \A ss \in SocketState : [s EXCEPT !.ss = ss] \in AdapterRec
           /\ \A b \in BOOLEAN : [s EXCEPT !.old = b] \in AdapterRec
           /\ \A b \in BOOLEAN : [s EXCEPT !.reauth = b] \in AdapterRec
           /\ \A a : AbortEvents(a, s) \in AdapterRec
           /\ NewAdapter \in AdapterRec
  BY DEF AdapterRec, ResetSocketState, Abort, AbortEvents, NewAdapter, SocketState, ApiState

LEMMA ConnRecType ==
    ASSUME NEW c \in ConnRec
    PROVE  /\ AfterClose(c) \in ConnRec
           /\ NoConn \in ConnRec
           /\ \A st \in ConnState : [c EXCEPT !.st = st] \in ConnRec
           /\ \A au \in {"no", "old", "yes"} : [c EXCEPT !.auth = au] \in ConnRec
           /\ \A a \in Adapter : [st |-> "connecting", owner |-> a, auth |-> "no"] \in ConnRec
  BY DEF ConnRec, AfterClose, NoConn, ConnState

LEMMA OpenPhaseType ==
    ASSUME TypeOK, NEW r \in Run, NEW s \in [Adapter -> AdapterRec], OpenPhase(r, s)
    PROVE  /\ ad' \in [Adapter -> AdapterRec]
           /\ sess' \in [Run -> [Adapter -> SessionStep]]
           /\ run' \in [Run -> {"idle", "reauth", "open"}]
<1> DEFINE needing == {a \in Registered : NeedsSetup(s[a]) \/ NeedsReopen(s[a])}
           step == [a \in Adapter |-> IF a \in needing THEN "login" ELSE "none"]
<1>1. ad' = [a \in Adapter |-> IF a \in needing THEN ResetSocketState(s[a]) ELSE s[a]]
  BY DEF OpenPhase
<1>2. \A a \in Adapter : s[a] \in AdapterRec /\ ResetSocketState(s[a]) \in AdapterRec
  BY AdapterRecType
<1>3. ad' \in [Adapter -> AdapterRec]
  BY <1>1, <1>2
<1>4. step \in [Adapter -> SessionStep]
  BY DEF SessionStep
<1>5. sess' = [sess EXCEPT ![r] = step]
  BY DEF OpenPhase
<1>6. run' \in [Run -> {"idle", "reauth", "open"}]
  BY DEF OpenPhase, TypeOK
<1>. HIDE DEF step
<1>7. sess' \in [Run -> [Adapter -> SessionStep]]
  BY <1>4, <1>5 DEF TypeOK
<1>8. QED BY <1>3, <1>6, <1>7

LEMMA SessionType ==
    ASSUME TypeOK, NEW r \in Run, NEW a \in Adapter, NEW v \in SessionStep
    PROVE  [sess EXCEPT ![r][a] = v] \in [Run -> [Adapter -> SessionStep]]
<1>1. sess \in [Run -> [Adapter -> SessionStep]]
  BY DEF TypeOK
<1>2. sess[r] \in [Adapter -> SessionStep]
  BY <1>1
<1>3. [sess[r] EXCEPT ![a] = v] \in [Adapter -> SessionStep]
  BY <1>2
<1>4. [sess EXCEPT ![r] = [sess[r] EXCEPT ![a] = v]] \in [Run -> [Adapter -> SessionStep]]
  BY <1>1, <1>3
<1>5. QED BY <1>4

LEMMA SettleType ==
    ASSUME TypeOK, NEW r \in Run, NEW a \in Adapter,
           NEW s \in [Adapter -> AdapterRec], Settle(r, a, s)
    PROVE  /\ ad' \in [Adapter -> AdapterRec]
           /\ sess' \in [Run -> [Adapter -> SessionStep]]
           /\ run' \in [Run -> {"idle", "reauth", "open"}]
<1> DEFINE busy == \E b \in Adapter \ {a} : sess[r][b] # "none"
<1>0. [sess EXCEPT ![r][a] = "none"] \in [Run -> [Adapter -> SessionStep]]
  BY SessionType DEF SessionStep
<1>1. CASE busy
  BY <1>0, <1>1 DEF Settle, TypeOK
<1>2. CASE ~busy /\ run[r] = "reauth"
  BY <1>2, OpenPhaseType DEF Settle
<1>3. CASE ~busy /\ run[r] # "reauth"
  <2>1. sess' = [sess EXCEPT ![r][a] = "none"] /\ ad' = s /\ run' = [run EXCEPT ![r] = "idle"]
    BY <1>3 DEF Settle
  <2>2. QED BY <1>0, <2>1 DEF TypeOK
<1>4. QED BY <1>1, <1>2, <1>3

LEMMA CloseSocketType ==
    ASSUME TypeOK, NEW a \in Adapter, CloseSocket(a)
    PROVE  /\ sock' \in [Adapter -> Conn \cup {None}]
           /\ conn' \in [Conn -> ConnRec]
<1>1. \A c \in Conn : conn[c] \in ConnRec /\ AfterClose(conn[c]) \in ConnRec
  BY ConnRecType DEF TypeOK
<1>2. QED BY <1>1 DEF CloseSocket, TypeOK

LEMMA SendAuthType ==
    ASSUME TypeOK, NEW a, NEW cs \in [Conn -> ConnRec]
    PROVE  SendAuth(a, cs) \in [Conn -> ConnRec]
<1>1. CASE sock[a] # None /\ cs[sock[a]].st = "open"
  <2> DEFINE au == IF ad[a].old THEN "old" ELSE "yes"
  <2>1. au \in {"no", "old", "yes"}
    OBVIOUS
  <2>2. \A c \in Conn : [cs[c] EXCEPT !.auth = au] \in ConnRec
    BY <2>1, ConnRecType
  <2>3. SendAuth(a, cs) = [cs EXCEPT ![sock[a]] = [cs[sock[a]] EXCEPT !.auth = au]]
    BY <1>1 DEF SendAuth
  <2> DEFINE x == sock[a]
             v == [cs[x] EXCEPT !.auth = au]
  <2>4. x \in Conn => v \in ConnRec
    BY <2>2
  <2>. HIDE DEF v, x
  <2>5. [cs EXCEPT ![x] = v] \in [Conn -> ConnRec]
    BY <2>4
  <2>6. QED BY <2>3, <2>5 DEF v, x
<1>2. CASE ~(sock[a] # None /\ cs[sock[a]].st = "open")
  BY <1>2 DEF SendAuth
<1>3. QED BY <1>1, <1>2

LEMMA DisturbType ==
    ASSUME TypeOK, NEW kind, Disturb(kind)
    PROVE  budget' \in 0..MaxDisturb
  BY BoundAssumption DEF TypeOK, Disturb

-----------------------------------------------------------------------------
(* Type correctness: one lemma per group of actions.                       *)

LEMMA InitType == Init => TypeOK
  BY BoundAssumption
  DEF Init, TypeOK, NewAdapter, NoConn, AdapterRec, ConnRec, SocketState, ApiState,
      ConnState, SessionStep

LEMMA TaskType ==
    ASSUME TypeOK, NEW r \in Run, StartReconnect(r)
    PROVE  TypeOK'
<1> DEFINE reauthing == {a \in Registered : ad[a].reauth}
           step == [a \in Adapter |-> IF a \in reauthing THEN "login" ELSE "none"]
<1>1. CASE reauthing = {}
  <2>1. OpenPhase(r, ad)
    BY <1>1 DEF StartReconnect
  <2>2. QED BY <2>1, OpenPhaseType DEF StartReconnect, TypeOK
<1>2. CASE reauthing # {}
  <2>1. /\ ad' = [a \in Adapter |-> IF a \in reauthing THEN ResetSocketState(ad[a]) ELSE ad[a]]
        /\ sess' = [sess EXCEPT ![r] = step]
        /\ run' = [run EXCEPT ![r] = "reauth"]
        /\ UNCHANGED <<reg, sock, conn, restore, budget>>
    BY <1>2 DEF StartReconnect
  <2>2. \A a \in Adapter : ad[a] \in AdapterRec /\ ResetSocketState(ad[a]) \in AdapterRec
    BY AdapterRecType DEF TypeOK
  <2>3. step \in [Adapter -> SessionStep]
    BY DEF SessionStep
  <2>. HIDE DEF step
  <2>4. QED BY <2>1, <2>2, <2>3 DEF TypeOK
<1>3. QED BY <1>1, <1>2

LEMMA SessionStepType ==
    ASSUME TypeOK, NEW r \in Run, NEW a \in Adapter, SessionStepNext(r, a)
    PROVE  TypeOK'
<1>0. /\ ad[a] \in AdapterRec
      /\ \A s \in AdapterRec : [ad EXCEPT ![a] = s] \in [Adapter -> AdapterRec]
      /\ \A api \in {"globalKey", "authFail", "noResponse"} : Abort(ad[a], api) \in AdapterRec
  BY AdapterRecType DEF TypeOK, ApiState
<1>1. CASE LoginSucceeds(r, a)
  <2>1. [ad[a] EXCEPT !.ss = "opening", !.api = "responding",
                      !.old = (sess[r][a] = "loginOld")] \in AdapterRec
    BY <1>0 DEF AdapterRec, SocketState, ApiState
  <2>2. ad' \in [Adapter -> AdapterRec]
    BY <2>1, <1>1 DEF LoginSucceeds, TypeOK
  <2>3. sess' \in [Run -> [Adapter -> SessionStep]]
    BY <1>1, SessionType DEF LoginSucceeds, SessionStep
  <2>4. QED BY <1>1, <2>2, <2>3 DEF LoginSucceeds, TypeOK
<1>2. CASE LoginFails(r, a)
  <2>1. PICK api \in {"globalKey", "authFail", "noResponse"} :
            Settle(r, a, [ad EXCEPT ![a] = Abort(ad[a], api)])
    BY <1>2 DEF LoginFails
  <2>2. [ad EXCEPT ![a] = Abort(ad[a], api)] \in [Adapter -> AdapterRec]
    BY <1>0
  <2>3. QED BY <1>2, <2>1, <2>2, SettleType, DisturbType DEF LoginFails, TypeOK
<1>3. CASE OpenSocket(r, a)
  <2>1. /\ ad' \in [Adapter -> AdapterRec]
        /\ sess' \in [Run -> [Adapter -> SessionStep]]
        /\ run' \in [Run -> {"idle", "reauth", "open"}]
    BY <1>3, SettleType DEF OpenSocket, TypeOK
  <2>2. CASE CanOpen(a)
    <3>1. PICK c \in Conn :
            /\ conn' = [conn EXCEPT ![c] = [st |-> "connecting", owner |-> a, auth |-> "no"]]
            /\ sock' = [sock EXCEPT ![a] = c]
      BY <1>3, <2>2 DEF OpenSocket
    <3>2. [st |-> "connecting", owner |-> a, auth |-> "no"] \in ConnRec
      BY DEF ConnRec, ConnState
    <3>3. QED BY <1>3, <2>1, <3>1, <3>2 DEF OpenSocket, TypeOK
  <2>3. CASE ~CanOpen(a)
    BY <1>3, <2>1, <2>3 DEF OpenSocket, TypeOK
  <2>4. QED BY <2>2, <2>3
<1>4. CASE SendReauth(r, a)
  <2>1. conn' \in [Conn -> ConnRec]
    BY <1>4, SendAuthType DEF SendReauth, TypeOK
  <2>2. /\ [ad[a] EXCEPT !.ss = "authenticating"] \in AdapterRec
        /\ [ad[a] EXCEPT !.ss = "authenticating", !.reauth = FALSE] \in AdapterRec
    BY <1>0 DEF AdapterRec, SocketState
  <2>3. CASE IsOpened(a)
    <3>1. /\ ad' = [ad EXCEPT ![a].ss = "authenticating"]
          /\ sess' = [sess EXCEPT ![r][a] = "send"]
          /\ run' = run
      BY <1>4, <2>3 DEF SendReauth
    <3>2. ad' \in [Adapter -> AdapterRec]
      BY <2>2, <3>1 DEF TypeOK
    <3>3. sess' \in [Run -> [Adapter -> SessionStep]]
      BY <3>1, SessionType DEF SessionStep
    <3>4. QED BY <1>4, <2>1, <3>1, <3>2, <3>3 DEF SendReauth, TypeOK
  <2>4. CASE ~IsOpened(a)
    <3> DEFINE s == [ad EXCEPT ![a].ss = "authenticating", ![a].reauth = FALSE]
    <3>1. s \in [Adapter -> AdapterRec]
      BY <2>2 DEF TypeOK
    <3>2. Settle(r, a, s)
      BY <1>4, <2>4 DEF SendReauth
    <3>. HIDE DEF s
    <3>3. QED BY <1>4, <2>1, <3>1, <3>2, SettleType DEF SendReauth, TypeOK
  <2>5. QED BY <2>3, <2>4
<1>5. CASE ReauthSent(r, a)
  <2> DEFINE s == [ad EXCEPT ![a].reauth = FALSE]
  <2>1. s \in [Adapter -> AdapterRec]
    BY <1>0, AdapterRecType DEF TypeOK
  <2>2. Settle(r, a, s)
    BY <1>5 DEF ReauthSent
  <2>. HIDE DEF s
  <2>3. QED BY <1>5, <2>1, <2>2, SettleType DEF ReauthSent, TypeOK
<1>6. CASE ReauthNotSent(r, a)
  BY <1>6, SettleType, DisturbType DEF ReauthNotSent, TypeOK
<1>7. CASE UserFails(r, a)
  <2>1. [ad EXCEPT ![a] = Abort(ad[a], "authFail")] \in [Adapter -> AdapterRec]
    BY <1>0
  <2>2. Settle(r, a, [ad EXCEPT ![a] = Abort(ad[a], "authFail")])
    BY <1>7 DEF UserFails
  <2>3. QED BY <1>7, <2>1, <2>2, SettleType, DisturbType DEF UserFails, TypeOK
<1>8. QED BY <1>1, <1>2, <1>3, <1>4, <1>5, <1>6, <1>7 DEF SessionStepNext

LEMMA RestoreType ==
    ASSUME TypeOK, NEW a \in Adapter, RestoreAdapter(a)
    PROVE  TypeOK'
<1>1. CASE IsClosedOrAborted(ad[a])
  <2>1. sock' \in [Adapter -> Conn \cup {None}] /\ conn' \in [Conn -> ConnRec]
    BY <1>1, CloseSocketType DEF RestoreAdapter
  <2>2. AbortEvents(a, ResetSocketState(ad[a])) \in AdapterRec
    BY AdapterRecType DEF TypeOK
  <2>3. ad' \in [Adapter -> AdapterRec]
    BY <1>1, <2>2 DEF RestoreAdapter, TypeOK
  <2>4. QED BY <2>1, <2>3 DEF RestoreAdapter, TypeOK
<1>2. CASE ~IsClosedOrAborted(ad[a])
  BY <1>2 DEF RestoreAdapter, TypeOK
<1>3. QED BY <1>1, <1>2

LEMMA OperatorType ==
    ASSUME TypeOK, NEW p \in Printer, OperatorNext(p)
    PROVE  TypeOK'
<1>1. CASE SaveNewPrinter(p)
  <2>1. budget' \in 0..MaxDisturb
    BY <1>1, DisturbType DEF SaveNewPrinter
  <2>2. NewAdapter \in AdapterRec
    BY DEF NewAdapter, AdapterRec, SocketState, ApiState
  <2>3. QED BY <1>1, <2>1, <2>2 DEF SaveNewPrinter, TypeOK
<1> DEFINE a == reg[p]
<1>2. SUFFICES ASSUME a # None
               PROVE  (\E nc \in BOOLEAN : SavePrinter(p, nc)) \/ DropPrinter(p)
                          \/ ReconnectOctoPrint(p) => TypeOK'
  BY <1>1 DEF OperatorNext, SavePrinter, DropPrinter, ReconnectOctoPrint
<1>3. a \in Adapter /\ ad[a] \in AdapterRec
  BY <1>2 DEF TypeOK
<1>. HIDE DEF a
<1>4. CASE \E nc \in BOOLEAN : SavePrinter(p, nc)
  <2>1. PICK nc \in BOOLEAN : SavePrinter(p, nc)
    BY <1>4
  <2> DEFINE s == AbortEvents(a, ResetSocketState(RegisterCredentials(ad[a], nc)))
  <2>2. s \in AdapterRec
    <3>1. RegisterCredentials(ad[a], nc) \in AdapterRec
      BY <1>3 DEF RegisterCredentials, AdapterRec
    <3>2. QED BY <3>1, AdapterRecType
  <2>3. ad' = [ad EXCEPT ![a] = s]
    BY <2>1 DEF SavePrinter, a
  <2>. HIDE DEF s
  <2>4. sock' \in [Adapter -> Conn \cup {None}] /\ conn' \in [Conn -> ConnRec]
    BY <1>3, <2>1, CloseSocketType DEF SavePrinter, a
  <2>5. budget' \in 0..MaxDisturb
    BY <2>1, DisturbType DEF SavePrinter
  <2>6. sess' \in [Run -> [Adapter -> SessionStep]]
    <3> DEFINE row(r) == [sess[r] EXCEPT ![a] = IF nc /\ @ = "login" THEN "loginOld" ELSE @]
    <3>1. \A r \in Run : row(r) \in [Adapter -> SessionStep]
      BY <1>3 DEF TypeOK, SessionStep
    <3>2. sess' = [r \in Run |-> row(r)]
      BY <2>1 DEF SavePrinter, a
    <3>. HIDE DEF row
    <3>3. QED BY <3>1, <3>2
  <2>7. UNCHANGED <<reg, run, restore>>
    BY <2>1 DEF SavePrinter
  <2>8. QED BY <2>2, <2>3, <2>4, <2>5, <2>6, <2>7 DEF TypeOK
<1>5. CASE DropPrinter(p)
  <2>1. sock' \in [Adapter -> Conn \cup {None}] /\ conn' \in [Conn -> ConnRec]
    BY <1>3, <1>5, CloseSocketType DEF DropPrinter, a
  <2>2. AbortEvents(a, ad[a]) \in AdapterRec
    BY <1>3, AdapterRecType
  <2>3. ad' \in [Adapter -> AdapterRec]
    BY <1>5, <2>2 DEF DropPrinter, TypeOK, a
  <2>4. QED BY <1>5, <2>1, <2>3, DisturbType DEF DropPrinter, TypeOK
<1>6. CASE ReconnectOctoPrint(p)
  <2>1. sock' \in [Adapter -> Conn \cup {None}] /\ conn' \in [Conn -> ConnRec]
    BY <1>3, <1>6, CloseSocketType DEF ReconnectOctoPrint, a
  <2>2. AbortEvents(a, ResetSocketState(ad[a])) \in AdapterRec
    BY <1>3, AdapterRecType
  <2>3. ad' \in [Adapter -> AdapterRec]
    BY <1>6, <2>2 DEF ReconnectOctoPrint, TypeOK, a
  <2>4. QED BY <1>6, <2>1, <2>3, DisturbType DEF ReconnectOctoPrint, TypeOK
<1>7. QED BY <1>4, <1>5, <1>6

LEMMA ConnType ==
    ASSUME TypeOK, NEW c \in Conn, ConnNext(c)
    PROVE  TypeOK'
<1> DEFINE a == conn[c].owner
<1>0. /\ conn[c] \in ConnRec
      /\ \A x \in Adapter : ad[x] \in AdapterRec
  BY DEF TypeOK
<1>1. \A ss \in SocketState : [ad EXCEPT ![a].ss = ss] \in [Adapter -> AdapterRec]
  BY <1>0, AdapterRecType DEF TypeOK
<1>2. /\ \A st \in ConnState : [conn EXCEPT ![c].st = st] \in [Conn -> ConnRec]
      /\ [conn EXCEPT ![c] = NoConn] \in [Conn -> ConnRec]
  BY <1>0, ConnRecType DEF TypeOK
<1>3. CASE ConnOpened(c)
  <2>1. [conn EXCEPT ![c].st = "open"] \in [Conn -> ConnRec]
    BY <1>2 DEF ConnState
  <2>2. conn' \in [Conn -> ConnRec]
    BY <1>3, <2>1, SendAuthType DEF ConnOpened
  <2>5. ad' \in [Adapter -> AdapterRec]
    BY <1>1, <1>3 DEF ConnOpened, SocketState
  <2>6. QED BY <1>3, <2>2, <2>5 DEF ConnOpened, TypeOK
<1>4. ASSUME NEW wr \in BOOLEAN, ConnMessage(c, wr)
      PROVE  TypeOK'
  <2>1. \A x \in Adapter : [ad[x] EXCEPT !.ss = "authenticated", !.reauth = @ \/ wr] \in AdapterRec
    BY <1>0 DEF AdapterRec, SocketState
  <2>2. ad' \in [Adapter -> AdapterRec]
    BY <1>4, <2>1 DEF ConnMessage, TypeOK
  <2>3. budget' \in 0..MaxDisturb
    BY <1>4, DisturbType DEF ConnMessage, TypeOK
  <2>4. QED BY <1>4, <2>2, <2>3 DEF ConnMessage, TypeOK
<1>5. AfterClosed(c) => /\ ad' \in [Adapter -> AdapterRec]
                        /\ sock' \in [Adapter -> Conn \cup {None}]
                        /\ conn' \in [Conn -> ConnRec]
  BY <1>1, <1>2 DEF AfterClosed, SocketState, TypeOK
<1>6. CASE ConnClosed(c)
  BY <1>5, <1>6 DEF ConnClosed, TypeOK
<1>7. CASE ConnRefused(c)
  BY <1>5, <1>7, DisturbType DEF ConnRefused, TypeOK
<1>8. CASE ConnDropped(c)
  BY <1>2, <1>8, DisturbType DEF ConnDropped, ConnState, TypeOK
<1>9. CASE ConnError(c)
  BY <1>1, <1>2, <1>9, DisturbType DEF ConnError, ConnState, SocketState, TypeOK
<1>10. QED BY <1>3, <1>4, <1>6, <1>7, <1>8, <1>9 DEF ConnNext

\* Every variable keeps its type, whatever handlers, tasks and the operator do.
THEOREM TypeCorrect == Spec => []TypeOK
<1>1. TypeOK /\ [Next]_vars => TypeOK'
  <2>1. SUFFICES ASSUME TypeOK, [Next]_vars
                 PROVE  TypeOK'
    OBVIOUS
  <2>2. CASE UNCHANGED vars
    BY <2>1, <2>2 DEF TypeOK, vars
  <2>3. CASE StartRestore
    BY <2>1, <2>3 DEF StartRestore, TypeOK, Registered
  <2>4. QED
    BY <2>1, <2>2, <2>3, TaskType, SessionStepType, RestoreType, OperatorType, ConnType
    DEF Next, RestoreAdapter, TypeOK
<1>2. QED BY InitType, <1>1, PTL DEF Spec

-----------------------------------------------------------------------------
(* The sockets as slots.  The invariant is inductive together with the     *)
(* types: a WebSocket has an owner exactly while it lives, and the close   *)
(* handler clears the reference of that owner and of no other adapter.     *)

OwnedIsLive == \A c \in Conn : conn[c].owner = None <=> ~Live(c)

SlotInv == TypeOK /\ AttachedIsLive /\ OwnedIsLive

SlotStep == [Slots!Next]_(Slots!slotVars)

\* What most steps do to the slots: nothing.
SlotFrame ==
    /\ sock' = sock
    /\ \A c \in Conn : /\ conn'[c].owner = conn[c].owner
                       /\ conn'[c].st = "none" <=> conn[c].st = "none"

LEMMA FrameSlots ==
    ASSUME SlotInv, SlotFrame
    PROVE  (AttachedIsLive /\ OwnedIsLive)' /\ SlotStep
<1>1. AttachedIsLive'
  BY DEF SlotInv, SlotFrame, AttachedIsLive, Live, TypeOK
<1>2. OwnedIsLive'
  BY DEF SlotInv, SlotFrame, OwnedIsLive, Live
<1>3. [c \in Conn |-> conn[c].owner]' = [c \in Conn |-> conn[c].owner]
  BY DEF SlotFrame
<1>4. UNCHANGED Slots!slotVars
  BY <1>3 DEF SlotFrame, Slots!slotVars
<1>5. QED BY <1>1, <1>2, <1>4 DEF SlotStep

LEMMA SendAuthFrame ==
    ASSUME TypeOK, NEW a, NEW cs \in [Conn -> ConnRec], NEW c \in Conn
    PROVE  /\ SendAuth(a, cs)[c].owner = cs[c].owner
           /\ SendAuth(a, cs)[c].st = cs[c].st
<1>1. cs[c] \in ConnRec
  OBVIOUS
<1>2. \A v : [cs[c] EXCEPT !.auth = v].owner = cs[c].owner /\ [cs[c] EXCEPT !.auth = v].st = cs[c].st
  BY <1>1 DEF ConnRec
<1> DEFINE v == IF ad[a].old THEN "old" ELSE "yes"
           x == sock[a]
<1>3. SendAuth(a, cs) = cs \/ SendAuth(a, cs) = [cs EXCEPT ![x] = [cs[x] EXCEPT !.auth = v]]
  BY DEF SendAuth
<1>. HIDE DEF v, x
<1>4. SendAuth(a, cs)[c] = cs[c] \/ SendAuth(a, cs)[c] = [cs[c] EXCEPT !.auth = v]
  BY <1>3
<1>5. QED BY <1>2, <1>4

LEMMA CloseSlots ==
    ASSUME SlotInv, NEW a \in Adapter, CloseSocket(a)
    PROVE  (AttachedIsLive /\ OwnedIsLive)' /\ SlotStep
<1>1. CASE sock[a] = None
  <2>1. SlotFrame
    BY <1>1, NoneAssumption DEF CloseSocket, SlotFrame, SlotInv, TypeOK
  <2>2. QED BY <2>1, FrameSlots
<1>2. CASE sock[a] # None
  <2> DEFINE c == sock[a]
  <2>1. c \in Conn /\ Live(c) /\ conn[c].owner = a
    BY <1>2 DEF SlotInv, AttachedIsLive, TypeOK
  <2>2. \A d \in Conn : d # c => conn'[d] = conn[d]
    BY DEF CloseSocket
  <2>3. conn'[c] = AfterClose(conn[c])
    BY <2>1 DEF CloseSocket
  <2>4. sock' = [sock EXCEPT ![a] = None]
    BY DEF CloseSocket
  <2>5. \A b \in Adapter : b # a => sock[b] # c
    BY <1>2, <2>1 DEF SlotInv, AttachedIsLive
  <2>. HIDE DEF c
  <2>6. \/ conn'[c] = NoConn
        \/ conn'[c].owner = a /\ conn'[c].st # "none"
    BY <2>1, <2>3 DEF AfterClose, SlotInv, TypeOK, ConnRec, Live
  <2>7. (AttachedIsLive /\ OwnedIsLive)'
    BY <2>1, <2>2, <2>4, <2>5, <2>6, NoneAssumption
    DEF SlotInv, AttachedIsLive, OwnedIsLive, Live, NoConn, TypeOK
  <2> DEFINE owner == [d \in Conn |-> conn[d].owner]
  <2>8. owner' \in {owner, [owner EXCEPT ![c] = None]}
    <3>1. CASE conn'[c] = NoConn
      <4>1. conn'[c].owner = None
        BY <3>1 DEF NoConn
      <4>2. \A d \in Conn : conn'[d].owner = IF d = c THEN None ELSE conn[d].owner
        BY <2>2, <4>1
      <4>3. owner' = [owner EXCEPT ![c] = None]
        BY <4>2
      <4>4. QED BY <4>3
    <3>2. CASE conn'[c].owner = a
      <4>1. owner' = owner
        BY <2>1, <2>2, <3>2
      <4>2. QED BY <4>1
    <3>3. QED BY <2>6, <3>1, <3>2
  <2>. HIDE DEF owner
  <2>9. Slots!Release(a)
    BY <1>2, <2>4, <2>8 DEF Slots!Release, c, owner
  <2>10. QED BY <2>7, <2>9 DEF SlotStep, Slots!Next
<1>3. QED BY <1>1, <1>2

LEMMA OpenSlots ==
    ASSUME SlotInv, NEW r \in Run, NEW a \in Adapter, OpenSocket(r, a)
    PROVE  (AttachedIsLive /\ OwnedIsLive)' /\ SlotStep
<1>1. CASE CanOpen(a)
  <2>1. PICK c \in Conn :
          /\ ~Live(c)
          /\ conn' = [conn EXCEPT ![c] = [st |-> "connecting", owner |-> a, auth |-> "no"]]
          /\ sock' = [sock EXCEPT ![a] = c]
    BY <1>1 DEF OpenSocket
  <2>2. conn[c].owner = None /\ \A b \in Adapter : sock[b] # c
    BY <2>1, NoneAssumption DEF SlotInv, OwnedIsLive, AttachedIsLive
  <2>3. (AttachedIsLive /\ OwnedIsLive)'
    BY <2>1, <2>2, NoneAssumption DEF SlotInv, AttachedIsLive, OwnedIsLive, Live, TypeOK
  <2> DEFINE owner == [d \in Conn |-> conn[d].owner]
  <2>4. owner' = [owner EXCEPT ![c] = a] /\ owner[c] = None
    BY <2>1, <2>2 DEF SlotInv, TypeOK
  <2>. HIDE DEF owner
  <2>5. Slots!Attach(a, c)
    BY <1>1, <2>1, <2>4 DEF Slots!Attach, CanOpen, owner
  <2>6. QED BY <2>3, <2>5 DEF SlotStep, Slots!Next
<1>2. CASE ~CanOpen(a)
  <2>1. SlotFrame
    BY <1>2 DEF OpenSocket, SlotFrame
  <2>2. QED BY <2>1, FrameSlots
<1>3. QED BY <1>1, <1>2

LEMMA EndSlots ==
    ASSUME SlotInv, NEW c \in Conn, Live(c), AfterClosed(c)
    PROVE  (AttachedIsLive /\ OwnedIsLive)' /\ SlotStep
<1> DEFINE a == conn[c].owner
<1>1. a \in Adapter
  BY DEF SlotInv, OwnedIsLive, TypeOK, ConnRec
<1>2. sock' = [sock EXCEPT ![a] = None] /\ conn' = [conn EXCEPT ![c] = NoConn]
  BY DEF AfterClosed
<1>3. \A b \in Adapter : sock[b] = c => b = a
  BY NoneAssumption DEF SlotInv, AttachedIsLive
<1>4. (AttachedIsLive /\ OwnedIsLive)'
  BY <1>1, <1>2, <1>3, NoneAssumption
  DEF SlotInv, AttachedIsLive, OwnedIsLive, Live, NoConn, TypeOK
<1> DEFINE owner == [d \in Conn |-> conn[d].owner]
<1>5. owner' = [owner EXCEPT ![c] = None] /\ owner[c] = a
  BY <1>2 DEF NoConn, SlotInv, TypeOK
<1>6. a # None
  BY <1>1, NoneAssumption
<1>. HIDE DEF owner, a
<1>7. Slots!End(c)
  BY <1>2, <1>5, <1>6 DEF Slots!End, owner, a
<1>8. QED BY <1>4, <1>7 DEF SlotStep, Slots!Next

LEMMA SessionSlots ==
    ASSUME SlotInv, NEW r \in Run, NEW a \in Adapter, SessionStepNext(r, a)
    PROVE  (AttachedIsLive /\ OwnedIsLive)' /\ SlotStep
<1>1. CASE OpenSocket(r, a)
  BY <1>1, OpenSlots
<1>2. CASE SendReauth(r, a)
  <2>1. conn' = SendAuth(a, conn) /\ sock' = sock /\ TypeOK
    BY <1>2 DEF SendReauth, SlotInv
  <2>2. \A c \in Conn : conn'[c].owner = conn[c].owner /\ conn'[c].st = conn[c].st
    BY <2>1, SendAuthFrame DEF TypeOK
  <2>3. QED BY <2>1, <2>2, FrameSlots DEF SlotFrame
<1>3. CASE UNCHANGED <<sock, conn>>
  BY <1>3, FrameSlots DEF SlotFrame
<1>4. QED
  BY <1>1, <1>2, <1>3
  DEF SessionStepNext, LoginSucceeds, LoginFails, ReauthSent, ReauthNotSent, UserFails

LEMMA OperatorSlots ==
    ASSUME SlotInv, NEW p \in Printer, OperatorNext(p)
    PROVE  (AttachedIsLive /\ OwnedIsLive)' /\ SlotStep
<1>1. CASE SaveNewPrinter(p)
  BY <1>1, FrameSlots DEF SlotFrame, SaveNewPrinter
<1>2. CASE reg[p] # None /\ CloseSocket(reg[p])
  <2>1. reg[p] \in Adapter
    BY <1>2 DEF SlotInv, TypeOK
  <2>2. QED BY <1>2, <2>1, CloseSlots
<1>3. QED
  BY <1>1, <1>2 DEF OperatorNext, SavePrinter, DropPrinter, ReconnectOctoPrint

LEMMA ConnSlots ==
    ASSUME SlotInv, NEW c \in Conn, ConnNext(c)
    PROVE  (AttachedIsLive /\ OwnedIsLive)' /\ SlotStep
<1>0. conn \in [Conn -> ConnRec] /\ conn[c] \in ConnRec
  BY DEF SlotInv, TypeOK
<1>1. CASE ConnOpened(c)
  <2> DEFINE cs == [conn EXCEPT ![c].st = "open"]
  <2>1. cs \in [Conn -> ConnRec]
    BY <1>0, ConnRecType DEF ConnState
  <2>2. conn' = SendAuth(conn[c].owner, cs) /\ sock' = sock /\ conn[c].st = "connecting"
    BY <1>1 DEF ConnOpened
  <2>3. \A d \in Conn : /\ cs[d].owner = conn[d].owner
                        /\ cs[d].st = "none" <=> conn[d].st = "none"
    BY <1>0, <2>2 DEF ConnRec
  <2>. HIDE DEF cs
  <2>4. \A d \in Conn : conn'[d].owner = cs[d].owner /\ conn'[d].st = cs[d].st
    BY <2>1, <2>2, SendAuthFrame DEF SlotInv
  <2>5. QED BY <2>2, <2>3, <2>4, FrameSlots DEF SlotFrame
<1>2. CASE AfterClosed(c) /\ Live(c)
  BY <1>2, EndSlots
<1>3. CASE sock' = sock /\ Live(c) /\ conn' = [conn EXCEPT ![c].st = "ending"]
  <2>1. \A d \in Conn : /\ conn'[d].owner = conn[d].owner
                        /\ conn'[d].st = "none" <=> conn[d].st = "none"
    BY <1>0, <1>3 DEF ConnRec, Live
  <2>2. QED BY <1>3, <2>1, FrameSlots DEF SlotFrame
<1>4. CASE \E wr \in BOOLEAN : ConnMessage(c, wr)
  BY <1>4, FrameSlots DEF ConnMessage, SlotFrame
<1>5. QED
  BY <1>1, <1>2, <1>3, <1>4
  DEF ConnNext, ConnRefused, ConnDropped, ConnError, ConnClosed, Live

LEMMA NextSlots ==
    ASSUME SlotInv, [Next]_vars
    PROVE  (AttachedIsLive /\ OwnedIsLive)' /\ SlotStep
<1>1. CASE \E r \in Run : StartReconnect(r)
  BY <1>1, FrameSlots DEF StartReconnect, SlotFrame
<1>2. CASE StartRestore
  BY <1>2, FrameSlots DEF StartRestore, SlotFrame
<1>3. CASE \E a \in Adapter : RestoreAdapter(a)
  <2>1. PICK a \in Adapter : RestoreAdapter(a)
    BY <1>3
  <2>2. CASE CloseSocket(a)
    BY <2>2, CloseSlots
  <2>3. CASE UNCHANGED <<sock, conn>>
    BY <2>3, FrameSlots DEF SlotFrame
  <2>4. QED BY <2>1, <2>2, <2>3 DEF RestoreAdapter
<1>4. CASE UNCHANGED vars
  BY <1>4, FrameSlots DEF vars, SlotFrame
<1>5. QED
  BY <1>1, <1>2, <1>3, <1>4, SessionSlots, OperatorSlots, ConnSlots DEF Next

LEMMA SlotInvariant == Spec => []SlotInv
<1>1. Init => AttachedIsLive /\ OwnedIsLive
  BY DEF Init, AttachedIsLive, OwnedIsLive, Live, NoConn
<1>2. AttachedIsLive /\ OwnedIsLive /\ TypeOK /\ [Next]_vars => (AttachedIsLive /\ OwnedIsLive)'
  BY NextSlots DEF SlotInv
<1>3. QED BY <1>1, <1>2, TypeCorrect, PTL DEF Spec, SlotInv

\* An adapter never refers to a WebSocket that has reported its end, nor to one
\* of another adapter, in whatever order close events arrive.
THEOREM SocketsAreLive == Spec => []AttachedIsLive
  BY SlotInvariant, PTL DEF SlotInv

\* The store, the tasks and the handlers together implement one-socket slots.
THEOREM SocketsAreSlots == Spec => OneSocketAtATime
<1>1. Init => Slots!Init
  BY DEF Init, Slots!Init, NoConn
<1>2. SlotInv /\ [Next]_vars => [Slots!Next]_(Slots!slotVars)
  BY NextSlots DEF SlotStep
<1>3. QED BY <1>1, <1>2, SlotInvariant, PTL DEF Spec, OneSocketAtATime, Slots!Spec

-----------------------------------------------------------------------------
(* The socket state and the API state of an adapter agree.                 *)

Agree(s) ==
    /\ s.ss = "aborted" => s.api \in {"globalKey", "authFail", "noResponse"}
    /\ s.ss = "opening" => s.api = "responding"
    /\ s.ss = "unopened" => s.api = "unset"

\* Every write to an adapter record is one of these, or names a state that
\* claims nothing about the API.
LEMMA WritesAgree ==
    ASSUME NEW s \in AdapterRec
    PROVE  /\ Agree(ResetSocketState(s))
           /\ \A api \in {"globalKey", "authFail", "noResponse"} : Agree(Abort(s, api))
           /\ Agree(s) => \A a : Agree(AbortEvents(a, s))
           /\ Agree(NewAdapter)
           /\ \A ss \in {"authenticating", "authenticated", "error", "closed"} :
                 /\ Agree([s EXCEPT !.ss = ss])
                 /\ \A b : Agree([s EXCEPT !.ss = ss, !.reauth = b])
           /\ \A b : Agree([s EXCEPT !.ss = "opening", !.api = "responding", !.old = b])
           /\ Agree(s) => \A b : Agree([s EXCEPT !.reauth = b])
  BY DEF Agree, AdapterRec, ResetSocketState, Abort, AbortEvents, NewAdapter

AllAgree(f) == \A a \in Adapter : Agree(f[a])

LEMMA OpenPhaseAgrees ==
    ASSUME NEW r \in Run, NEW s \in [Adapter -> AdapterRec], AllAgree(s), OpenPhase(r, s)
    PROVE  AllAgree(ad')
<1>1. \A a \in Adapter : ad'[a] = s[a] \/ ad'[a] = ResetSocketState(s[a])
  BY DEF OpenPhase
<1>2. QED BY <1>1, WritesAgree DEF AllAgree

LEMMA SettleAgrees ==
    ASSUME NEW r \in Run, NEW a \in Adapter, NEW s \in [Adapter -> AdapterRec],
           AllAgree(s), Settle(r, a, s)
    PROVE  AllAgree(ad')
<1>1. ad' = s \/ OpenPhase(r, s)
  BY DEF Settle
<1>2. QED BY <1>1, OpenPhaseAgrees

\* One adapter is written, with a record that agrees.
LEMMA WriteOne ==
    ASSUME TypeOK, AllAgree(ad), NEW a, NEW v, a \in Adapter => v \in AdapterRec /\ Agree(v)
    PROVE  /\ [ad EXCEPT ![a] = v] \in [Adapter -> AdapterRec]
           /\ AllAgree([ad EXCEPT ![a] = v])
  BY DEF TypeOK, AllAgree

LEMMA SessionAgrees ==
    ASSUME TypeOK, AllAgree(ad), NEW r \in Run, NEW a \in Adapter, SessionStepNext(r, a)
    PROVE  AllAgree(ad')
<1>0. ad[a] \in AdapterRec /\ Agree(ad[a])
  BY DEF TypeOK, AllAgree
<1>1. CASE LoginSucceeds(r, a)
  <2> DEFINE v == [ad[a] EXCEPT !.ss = "opening", !.api = "responding",
                                !.old = (sess[r][a] = "loginOld")]
  <2>1. v \in AdapterRec /\ Agree(v)
    BY <1>0, WritesAgree DEF AdapterRec, SocketState, ApiState
  <2>2. ad' = [ad EXCEPT ![a] = v]
    BY <1>1 DEF LoginSucceeds
  <2>. HIDE DEF v
  <2>3. QED BY <2>1, <2>2, WriteOne
<1>2. CASE \E api \in {"globalKey", "authFail", "noResponse"} :
              Settle(r, a, [ad EXCEPT ![a] = Abort(ad[a], api)])
  <2>1. PICK api \in {"globalKey", "authFail", "noResponse"} :
              Settle(r, a, [ad EXCEPT ![a] = Abort(ad[a], api)])
    BY <1>2
  <2>2. Abort(ad[a], api) \in AdapterRec /\ Agree(Abort(ad[a], api))
    BY <1>0, WritesAgree, AdapterRecType DEF ApiState
  <2>3. QED BY <2>1, <2>2, WriteOne, SettleAgrees
<1>3. CASE Settle(r, a, ad)
  BY <1>3, SettleAgrees DEF TypeOK
<1>4. CASE SendReauth(r, a)
  <2> DEFINE v == [ad[a] EXCEPT !.ss = "authenticating"]
             w == [ad[a] EXCEPT !.ss = "authenticating", !.reauth = FALSE]
  <2>1. /\ v \in AdapterRec /\ Agree(v)
        /\ w \in AdapterRec /\ Agree(w)
    BY <1>0, WritesAgree DEF AdapterRec, SocketState
  <2>2. ad' = [ad EXCEPT ![a] = v] \/ Settle(r, a, [ad EXCEPT ![a] = w])
    BY <1>4 DEF SendReauth
  <2>. HIDE DEF v, w
  <2>3. QED BY <2>1, <2>2, WriteOne, SettleAgrees
<1>5. CASE ReauthSent(r, a)
  <2> DEFINE v == [ad[a] EXCEPT !.reauth = FALSE]
  <2>1. v \in AdapterRec /\ Agree(v)
    BY <1>0, WritesAgree, AdapterRecType
  <2>2. Settle(r, a, [ad EXCEPT ![a] = v])
    BY <1>5 DEF ReauthSent
  <2>. HIDE DEF v
  <2>3. QED BY <2>1, <2>2, WriteOne, SettleAgrees
<1>6. QED
  BY <1>1, <1>2, <1>3, <1>4, <1>5
  DEF SessionStepNext, LoginFails, OpenSocket, ReauthNotSent, UserFails

LEMMA OtherAgrees ==
    ASSUME TypeOK, AllAgree(ad),
           \/ \E a \in Adapter : RestoreAdapter(a)
           \/ \E p \in Printer : OperatorNext(p)
           \/ \E c \in Conn : ConnNext(c)
    PROVE  AllAgree(ad')
<1>1. SUFFICES ASSUME NEW a, NEW v, ad' = [ad EXCEPT ![a] = v],
                      a \in Adapter => v \in AdapterRec /\ Agree(v)
               PROVE  AllAgree(ad')
  <2>1. CASE UNCHANGED ad
    BY <2>1
  <2>2. \A a \in Adapter : /\ ad[a] \in AdapterRec
                           /\ Agree(ad[a])
                           /\ ResetSocketState(ad[a]) \in AdapterRec
                           /\ Agree(ResetSocketState(ad[a]))
    BY WritesAgree, AdapterRecType DEF TypeOK, AllAgree
  <2>3. ASSUME NEW a \in Adapter, RestoreAdapter(a)
        PROVE  AllAgree(ad')
    <3>1. /\ AbortEvents(a, ResetSocketState(ad[a])) \in AdapterRec
          /\ Agree(AbortEvents(a, ResetSocketState(ad[a])))
      BY <2>2, AdapterRecType, WritesAgree
    <3>2. QED BY <1>1, <2>1, <2>3, <3>1 DEF RestoreAdapter
  <2>4. ASSUME NEW p \in Printer, OperatorNext(p)
        PROVE  AllAgree(ad')
    <3>1. CASE SaveNewPrinter(p)
      <4>1. NewAdapter \in AdapterRec /\ Agree(NewAdapter)
        BY DEF NewAdapter, AdapterRec, SocketState, ApiState, Agree
      <4>2. QED BY <1>1, <3>1, <4>1 DEF SaveNewPrinter
    <3>2. CASE reg[p] # None
      <4>1. reg[p] \in Adapter
        BY <3>2 DEF TypeOK
      <4> DEFINE a == reg[p]
      <4>2. \A b \in BOOLEAN :
              /\ RegisterCredentials(ad[a], b) \in AdapterRec
              /\ ResetSocketState(RegisterCredentials(ad[a], b)) \in AdapterRec
              /\ Agree(ResetSocketState(RegisterCredentials(ad[a], b)))
        <5>1. \A b \in BOOLEAN : RegisterCredentials(ad[a], b) \in AdapterRec
          BY <2>2, <4>1 DEF RegisterCredentials, AdapterRec
        <5>2. QED BY <5>1, WritesAgree, AdapterRecType
      <4>3. \A b \in BOOLEAN :
              LET v == AbortEvents(a, ResetSocketState(RegisterCredentials(ad[a], b)))
              IN  v \in AdapterRec /\ Agree(v)
        BY <4>2, WritesAgree, AdapterRecType
      <4>4. /\ AbortEvents(a, ad[a]) \in AdapterRec /\ Agree(AbortEvents(a, ad[a]))
            /\ AbortEvents(a, ResetSocketState(ad[a])) \in AdapterRec
            /\ Agree(AbortEvents(a, ResetSocketState(ad[a])))
        BY <2>2, <4>1, WritesAgree, AdapterRecType
      <4>. HIDE DEF a
      <4>5. QED BY <1>1, <2>4, <3>1, <4>3, <4>4
            DEF OperatorNext, SavePrinter, DropPrinter, ReconnectOctoPrint, a
    <3>3. QED BY <2>4, <3>1, <3>2 DEF OperatorNext, SavePrinter, DropPrinter, ReconnectOctoPrint
  <2>5. ASSUME NEW c \in Conn, ConnNext(c)
        PROVE  AllAgree(ad')
    <3> DEFINE a == conn[c].owner
               w(ss) == [ad[a] EXCEPT !.ss = ss]
               m(b) == [ad[a] EXCEPT !.ss = "authenticated", !.reauth = ad[a].reauth \/ b]
    <3>1. \A ss \in {"authenticating", "error", "closed"} :
              a \in Adapter => w(ss) \in AdapterRec /\ Agree(w(ss))
      BY <2>2 DEF AdapterRec, SocketState, Agree
    <3>2. \A b \in BOOLEAN : a \in Adapter => m(b) \in AdapterRec /\ Agree(m(b))
      BY <2>2 DEF AdapterRec, SocketState, Agree
    <3>3. \/ ad' = ad
          \/ \E ss \in {"authenticating", "error", "closed"} : ad' = [ad EXCEPT ![a] = w(ss)]
          \/ \E b \in BOOLEAN : ad' = [ad EXCEPT ![a] = m(b)]
      <4>1. CASE \E b \in BOOLEAN : ConnMessage(c, b)
        BY <4>1 DEF ConnMessage
      <4>2. CASE ConnOpened(c) \/ ConnError(c)
        BY <4>2 DEF ConnOpened, ConnError
      <4>3. CASE ConnClosed(c) \/ ConnRefused(c) \/ ConnDropped(c)
        BY <4>3 DEF ConnClosed, ConnRefused, ConnDropped, AfterClosed
      <4>4. QED BY <2>5, <4>1, <4>2, <4>3 DEF ConnNext
    <3>. HIDE DEF a, w, m
    <3>4. QED BY <1>1, <2>1, <3>1, <3>2, <3>3
  <2>6. QED BY <2>3, <2>4, <2>5
<1>2. QED BY <1>1, WriteOne

\* What the client is shown of a printer never contradicts itself: an aborted
\* socket has a reason, an opening one a printer that answered.
THEOREM StatesAlwaysAgree == Spec => []StatesAgree
<1>1. Init => AllAgree(ad)
  BY DEF Init, AllAgree, Agree, NewAdapter
<1>2. TypeOK /\ AllAgree(ad) /\ [Next]_vars => AllAgree(ad')
  <2>1. SUFFICES ASSUME TypeOK, AllAgree(ad), [Next]_vars
                 PROVE  AllAgree(ad')
    OBVIOUS
  <2>2. CASE UNCHANGED ad
    BY <2>1, <2>2
  <2>3. ASSUME NEW r \in Run, StartReconnect(r)
        PROVE  AllAgree(ad')
    <3>1. CASE OpenPhase(r, ad)
      BY <2>1, <3>1, OpenPhaseAgrees DEF TypeOK
    <3>2. CASE ~OpenPhase(r, ad)
      <4>1. \A a \in Adapter : ad'[a] = ad[a] \/ ad'[a] = ResetSocketState(ad[a])
        BY <2>3, <3>2 DEF StartReconnect
      <4>2. QED BY <2>1, <4>1, WritesAgree DEF AllAgree, TypeOK
    <3>3. QED BY <3>1, <3>2
  <2>4. QED BY <2>1, <2>2, <2>3, SessionAgrees, OtherAgrees DEF Next, StartRestore, vars
<1>3. AllAgree(ad) => StatesAgree
  BY DEF AllAgree, Agree, StatesAgree
<1>4. AllAgree(ad)' <=> AllAgree(ad')
  BY DEF AllAgree
<1>5. QED BY <1>1, <1>2, <1>3, <1>4, TypeCorrect, PTL DEF Spec

-----------------------------------------------------------------------------
(* Connections do not escape, as long as closing handshakes end in time    *)
(* and no printer is disabled or deleted.                                  *)

\* A session is only set up for the adapter of an enabled printer
SetUpsRegistered ==
    \A r \in Run, a \in Adapter : sess[r][a] # "none" => a \in Registered

\* While a WebSocket closes, its adapter has no other
ClosingIsLast ==
    \A c \in Conn :
        conn[c].st \in {"closing", "ending"} => sock[conn[c].owner] \in {None, c}

Contained == NoLeakedConnection /\ ClosingIsLast

LeakInv == SlotInv /\ SetUpsRegistered /\ Contained

\* Only disabling or deleting a printer takes an adapter from the store.
LEMMA RegisteredStays ==
    ASSUME TypeOK, [Next]_vars, "drop" \notin Disturbance
    PROVE  Registered \subseteq Registered'
<1>1. CASE UNCHANGED reg
  BY <1>1 DEF Registered
<1>2. ASSUME NEW p \in Printer, SaveNewPrinter(p)
      PROVE  Registered \subseteq Registered'
  <2>1. \A q \in Printer : reg[q] # None => reg'[q] = reg[q]
    BY <1>2 DEF SaveNewPrinter, TypeOK
  <2>2. QED
    BY <2>1, NoneAssumption DEF Registered
<1>3. UNCHANGED reg \/ \E p \in Printer : SaveNewPrinter(p)
  <2>1. ASSUME NEW r \in Run, NEW a \in Adapter, SessionStepNext(r, a) PROVE UNCHANGED reg
    BY <2>1 DEF SessionStepNext, LoginSucceeds, LoginFails, OpenSocket, SendReauth, UserFails,
                ReauthSent, ReauthNotSent
  <2>2. ASSUME NEW p \in Printer, OperatorNext(p) PROVE UNCHANGED reg \/ SaveNewPrinter(p)
    BY <2>2 DEF OperatorNext, SavePrinter, DropPrinter, ReconnectOctoPrint, Disturb
  <2>3. ASSUME NEW c \in Conn, ConnNext(c) PROVE UNCHANGED reg
    BY <2>3 DEF ConnNext, ConnOpened, ConnRefused, ConnMessage, ConnDropped, ConnError, ConnClosed
  <2>4. ASSUME NEW r \in Run, StartReconnect(r) PROVE UNCHANGED reg
    BY <2>4 DEF StartReconnect
  <2>5. ASSUME NEW a \in Adapter, RestoreAdapter(a) PROVE UNCHANGED reg
    BY <2>5 DEF RestoreAdapter
  <2>6. QED
    BY <2>1, <2>2, <2>3, <2>4, <2>5 DEF Next, StartRestore, vars
<1>4. QED
  BY <1>1, <1>2, <1>3

\* What a step does to the set-ups: it starts some for registered adapters
SetUpsStart ==
    \A r \in Run, a \in Adapter :
        sess'[r][a] # "none" => sess[r][a] # "none" \/ a \in Registered

LEMMA OpenPhaseStarts ==
    ASSUME TypeOK, NEW r \in Run, NEW s, OpenPhase(r, s) PROVE SetUpsStart
<1> DEFINE needing == {a \in Registered : NeedsSetup(s[a]) \/ NeedsReopen(s[a])}
<1>1. sess' = [sess EXCEPT ![r] = [a \in Adapter |-> IF a \in needing THEN "login" ELSE "none"]]
  BY DEF OpenPhase
<1>2. needing \subseteq Registered
  OBVIOUS
<1> HIDE DEF needing
<1>3. \A q \in Run, a \in Adapter :
         sess'[q][a] = IF q = r THEN IF a \in needing THEN "login" ELSE "none" ELSE sess[q][a]
  BY <1>1 DEF TypeOK
<1>4. QED
  BY <1>2, <1>3 DEF SetUpsStart

LEMMA OneSetUpMoves ==
    ASSUME TypeOK, NEW r \in Run, NEW a \in Adapter, NEW step, step = "none" \/ sess[r][a] # "none",
           sess' = [sess EXCEPT ![r][a] = step]
    PROVE  SetUpsStart
<1>1. \A q \in Run, b \in Adapter :
         sess'[q][b] = IF q = r /\ b = a THEN step ELSE sess[q][b]
  BY DEF TypeOK
<1>2. QED
  BY <1>1 DEF SetUpsStart

LEMMA SettleStarts ==
    ASSUME TypeOK, NEW r \in Run, NEW a \in Adapter, NEW s, Settle(r, a, s) PROVE SetUpsStart
<1>1. CASE sess' = [sess EXCEPT ![r][a] = "none"]
  BY <1>1, OneSetUpMoves
<1>2. CASE OpenPhase(r, s)
  BY <1>2, OpenPhaseStarts
<1>3. QED
  BY <1>1, <1>2 DEF Settle

LEMMA SessionStarts ==
    ASSUME TypeOK, NEW r \in Run, NEW a \in Adapter, SessionStepNext(r, a) PROVE SetUpsStart
<1>1. CASE \E s : Settle(r, a, s)
  BY <1>1, SettleStarts
<1>2. CASE LoginSucceeds(r, a)
  <2>1. sess[r][a] # "none" /\ sess' = [sess EXCEPT ![r][a] = "user"]
    BY <1>2 DEF LoginSucceeds
  <2>2. QED
    BY <2>1, OneSetUpMoves
<1>3. CASE sess[r][a] # "none" /\ sess' = [sess EXCEPT ![r][a] = "send"]
  BY <1>3, OneSetUpMoves
<1>4. ASSUME LoginFails(r, a) PROVE \E s : Settle(r, a, s)
  BY <1>4 DEF LoginFails
<1>5. ASSUME OpenSocket(r, a) \/ UserFails(r, a) \/ ReauthSent(r, a) \/ ReauthNotSent(r, a)
      PROVE  \E s : Settle(r, a, s)
  BY <1>5 DEF OpenSocket, UserFails, ReauthSent, ReauthNotSent
<1>6. ASSUME SendReauth(r, a)
      PROVE  \/ \E s : Settle(r, a, s)
             \/ sess[r][a] # "none" /\ sess' = [sess EXCEPT ![r][a] = "send"]
  BY <1>6 DEF SendReauth
<1>7. QED
  BY <1>1, <1>2, <1>3, <1>4, <1>5, <1>6 DEF SessionStepNext

LEMMA SetUpsStayRegistered ==
    ASSUME TypeOK, SetUpsRegistered, [Next]_vars, Registered \subseteq Registered'
    PROVE  SetUpsRegistered'
<1>1. ASSUME SetUpsStart PROVE SetUpsRegistered'
  BY <1>1 DEF SetUpsStart, SetUpsRegistered
<1>2. CASE UNCHANGED sess
  BY <1>2 DEF SetUpsRegistered
<1>3. ASSUME NEW r \in Run, StartReconnect(r) PROVE SetUpsStart
  <2> DEFINE reauthing == {a \in Registered : ad[a].reauth}
  <2>1. CASE OpenPhase(r, ad)
    BY <2>1, OpenPhaseStarts
  <2>2. CASE sess' = [sess EXCEPT ![r] = [a \in Adapter |-> IF a \in reauthing THEN "login" ELSE "none"]]
    <3>1. reauthing \subseteq Registered
      OBVIOUS
    <3> HIDE DEF reauthing
    <3>2. \A q \in Run, a \in Adapter :
             sess'[q][a] = IF q = r THEN IF a \in reauthing THEN "login" ELSE "none" ELSE sess[q][a]
      BY <2>2 DEF TypeOK
    <3>3. QED
      BY <3>1, <3>2 DEF SetUpsStart
  <2>3. QED
    BY <1>3, <2>1, <2>2 DEF StartReconnect
<1>4. ASSUME NEW p \in Printer, OperatorNext(p) PROVE SetUpsStart \/ UNCHANGED sess
  <2>1. ASSUME NEW newCredentials \in BOOLEAN, SavePrinter(p, newCredentials) PROVE SetUpsStart
    <3>1. \A r \in Run, a \in Adapter : sess'[r][a] # "none" => sess[r][a] # "none"
      BY <2>1 DEF SavePrinter, TypeOK
    <3>2. QED
      BY <3>1 DEF SetUpsStart
  <2>2. QED
    BY <1>4, <2>1 DEF OperatorNext, SaveNewPrinter, DropPrinter, ReconnectOctoPrint
<1>5. ASSUME NEW c \in Conn, ConnNext(c) PROVE UNCHANGED sess
  BY <1>5 DEF ConnNext, ConnOpened, ConnRefused, ConnMessage, ConnDropped, ConnError, ConnClosed
<1>6. ASSUME NEW a \in Adapter, RestoreAdapter(a) PROVE UNCHANGED sess
  BY <1>6 DEF RestoreAdapter
<1>7. QED
  BY <1>1, <1>2, <1>3, <1>4, <1>5, <1>6, SessionStarts DEF Next, StartRestore, vars

\* A step that lets go of no socket and opens no connection
Holds ==
    /\ sock' = sock
    /\ \A c \in Conn : /\ conn'[c].owner = conn[c].owner
                       /\ \/ conn'[c].st = conn[c].st
                          \/ conn[c].st \in {"connecting", "open"} /\ conn'[c].st \in {"open", "ending"}

LEMMA HoldsContained ==
    ASSUME LeakInv, Holds, Registered \subseteq Registered' PROVE Contained'
<1>1. NoLeakedConnection'
  BY DEF LeakInv, Contained, Holds, NoLeakedConnection
<1>2. ClosingIsLast'
  BY DEF LeakInv, Contained, Holds, NoLeakedConnection, ClosingIsLast
<1>3. QED
  BY <1>1, <1>2 DEF Contained

\* The owner of a WebSocket that lives is an adapter
LEMMA OwnerIsAdapter ==
    ASSUME SlotInv, NEW c \in Conn, conn[c].st # "none" PROVE conn[c].owner \in Adapter
BY DEF SlotInv, OwnedIsLive, Live, TypeOK, ConnRec

LEMMA CloseContained ==
    ASSUME LeakInv, NEW a \in Adapter, CloseSocket(a), Registered \subseteq Registered'
    PROVE  Contained'
<1>1. /\ sock \in [Adapter -> Conn \cup {None}] /\ sock' = [sock EXCEPT ![a] = None]
      /\ \A c \in Conn : conn'[c] = IF sock[a] = c THEN AfterClose(conn[c]) ELSE conn[c]
      /\ \A c \in Conn : conn[c] \in ConnRec
  BY DEF CloseSocket, LeakInv, SlotInv, TypeOK
<1>2. \A c \in Conn : \/ conn'[c] = conn[c] /\ sock[a] # c
                      \/ sock[a] = c /\ conn'[c].st \in {"none", "closing", "ending"}
                            /\ (conn'[c].st # "none" => conn'[c].owner = conn[c].owner /\ conn[c].st # "none")
  <2> SUFFICES ASSUME NEW c \in Conn, sock[a] = c
               PROVE  /\ AfterClose(conn[c]).st \in {"none", "closing", "ending"}
                      /\ AfterClose(conn[c]).st # "none" =>
                            AfterClose(conn[c]).owner = conn[c].owner /\ conn[c].st # "none"
    BY <1>1
  <2>1. conn[c] \in ConnRec
    BY <1>1
  <2>2. QED
    BY <2>1 DEF AfterClose, NoConn, ConnRec, ConnState
<1>3. ASSUME NEW c \in Conn, sock[a] = c PROVE conn[c].owner = a
  BY <1>3, NoneAssumption DEF LeakInv, SlotInv, AttachedIsLive
<1>4. NoLeakedConnection'
  <2> SUFFICES ASSUME NEW c \in Conn, conn'[c].st \in {"connecting", "open"}
               PROVE  conn'[c].owner \in Registered' /\ sock'[conn'[c].owner] = c
    BY DEF NoLeakedConnection
  <2>1. conn'[c] = conn[c] /\ sock[a] # c
    BY <1>2
  <2>2. conn[c].owner \in Registered /\ sock[conn[c].owner] = c /\ conn[c].owner \in Adapter
    BY <2>1, OwnerIsAdapter DEF LeakInv, Contained, NoLeakedConnection
  <2>3. conn[c].owner # a
    BY <2>1, <2>2
  <2>4. QED
    BY <1>1, <2>1, <2>2, <2>3
<1>5. ClosingIsLast'
  <2> SUFFICES ASSUME NEW c \in Conn, conn'[c].st \in {"closing", "ending"}
               PROVE  sock'[conn'[c].owner] \in {None, c}
    BY DEF ClosingIsLast
  <2>1. CASE conn'[c] = conn[c]
    <3>1. conn[c].owner \in Adapter /\ sock[conn[c].owner] \in {None, c}
      BY <2>1, OwnerIsAdapter DEF LeakInv, Contained, ClosingIsLast
    <3>2. QED
      BY <1>1, <2>1, <3>1
  <2>2. CASE sock[a] = c /\ conn'[c].owner = conn[c].owner
    BY <1>1, <1>3, <2>2
  <2>3. QED
    BY <1>2, <2>1, <2>2
<1>6. QED
  BY <1>4, <1>5 DEF Contained

LEMMA OpenContained ==
    ASSUME LeakInv, NEW r \in Run, NEW a \in Adapter, OpenSocket(r, a), PromptClose,
           Registered \subseteq Registered'
    PROVE  Contained'
<1>1. CASE ~CanOpen(a)
  <2>1. Holds
    BY <1>1 DEF OpenSocket, Holds
  <2>2. QED
    BY <2>1, HoldsContained
<1>2. CASE CanOpen(a)
  <2>1. PICK c \in Conn :
          /\ ~Live(c)
          /\ conn' = [conn EXCEPT ![c] = [st |-> "connecting", owner |-> a, auth |-> "no"]]
          /\ sock' = [sock EXCEPT ![a] = c]
    BY <1>2 DEF OpenSocket
  <2>2. /\ conn'[c].st = "connecting" /\ conn'[c].owner = a
        /\ \A d \in Conn : d # c => conn'[d] = conn[d]
        /\ sock'[a] = c /\ \A b \in Adapter : b # a => sock'[b] = sock[b]
    BY <2>1 DEF LeakInv, SlotInv, TypeOK
  <2>3. sock[a] = None /\ a \in Registered
    BY <1>2 DEF CanOpen, OpenSocket, LeakInv, SetUpsRegistered
  <2>4. \A d \in Conn : conn[d].owner = a => conn[d].st \notin {"closing", "ending"}
    BY DEF OpenSocket, ClosedInTime
  <2>5. \A d \in Conn : conn[d].owner = a => conn[d].st \notin {"connecting", "open"}
    BY <2>3, NoneAssumption DEF LeakInv, Contained, NoLeakedConnection
  <2>6. NoLeakedConnection'
    <3> SUFFICES ASSUME NEW d \in Conn, conn'[d].st \in {"connecting", "open"}
                 PROVE  conn'[d].owner \in Registered' /\ sock'[conn'[d].owner] = d
      BY DEF NoLeakedConnection
    <3>1. CASE d = c
      BY <2>2, <2>3, <3>1
    <3>2. CASE d # c
      <4>1. conn[d].owner \in Registered /\ sock[conn[d].owner] = d /\ conn[d].owner \in Adapter
        BY <2>2, <3>2, OwnerIsAdapter DEF LeakInv, Contained, NoLeakedConnection
      <4>2. QED
        BY <2>2, <2>5, <3>2, <4>1
    <3>3. QED
      BY <3>1, <3>2
  <2>7. ClosingIsLast'
    <3> SUFFICES ASSUME NEW d \in Conn, conn'[d].st \in {"closing", "ending"}
                 PROVE  sock'[conn'[d].owner] \in {None, d}
      BY DEF ClosingIsLast
    <3>1. d # c /\ conn'[d] = conn[d]
      BY <2>2
    <3>2. conn[d].owner \in Adapter /\ sock[conn[d].owner] \in {None, d} /\ conn[d].owner # a
      BY <2>4, <3>1, OwnerIsAdapter DEF LeakInv, Contained, ClosingIsLast
    <3>3. QED
      BY <2>2, <3>1, <3>2
  <2>8. QED
    BY <2>6, <2>7 DEF Contained
<1>3. QED
  BY <1>1, <1>2

LEMMA EndContained ==
    ASSUME LeakInv, NEW c \in Conn, Live(c), AfterClosed(c), Registered \subseteq Registered'
    PROVE  Contained'
<1> DEFINE a == conn[c].owner
<1>1. a \in Adapter
  BY OwnerIsAdapter DEF LeakInv, Live
<1>2. /\ conn'[c].st = "none" /\ \A d \in Conn : d # c => conn'[d] = conn[d]
      /\ sock'[a] = None /\ \A b \in Adapter : b # a => sock'[b] = sock[b]
  BY <1>1 DEF AfterClosed, NoConn, LeakInv, SlotInv, TypeOK
<1>3. sock[a] \in {None, c}
  <2>1. conn[c].st \in {"connecting", "open", "closing", "ending"}
    BY DEF Live, LeakInv, SlotInv, TypeOK, ConnRec, ConnState
  <2>2. QED
    BY <2>1 DEF LeakInv, Contained, NoLeakedConnection, ClosingIsLast
<1> HIDE DEF a
<1>4. NoLeakedConnection'
  <2> SUFFICES ASSUME NEW d \in Conn, conn'[d].st \in {"connecting", "open"}
               PROVE  conn'[d].owner \in Registered' /\ sock'[conn'[d].owner] = d
    BY DEF NoLeakedConnection
  <2>1. d # c /\ conn'[d] = conn[d]
    BY <1>2
  <2>2. conn[d].owner \in Registered /\ sock[conn[d].owner] = d /\ conn[d].owner \in Adapter
    BY <2>1, OwnerIsAdapter DEF LeakInv, Contained, NoLeakedConnection
  <2>3. conn[d].owner # a
    BY <1>3, <2>1, <2>2, NoneAssumption
  <2>4. QED
    BY <1>2, <2>1, <2>2, <2>3
<1>5. ClosingIsLast'
  <2> SUFFICES ASSUME NEW d \in Conn, conn'[d].st \in {"closing", "ending"}
               PROVE  sock'[conn'[d].owner] \in {None, d}
    BY DEF ClosingIsLast
  <2>1. d # c /\ conn'[d] = conn[d]
    BY <1>2
  <2>2. conn[d].owner \in Adapter /\ sock[conn[d].owner] \in {None, d}
    BY <2>1, OwnerIsAdapter DEF LeakInv, Contained, ClosingIsLast
  <2>3. QED
    BY <1>2, <2>1, <2>2
<1>6. QED
  BY <1>4, <1>5 DEF Contained

LEMMA ConnContained ==
    ASSUME LeakInv, NEW c \in Conn, ConnNext(c), Registered \subseteq Registered'
    PROVE  Contained'
<1>0. conn \in [Conn -> ConnRec] /\ conn[c] \in ConnRec /\ SlotInv
  BY DEF LeakInv, SlotInv, TypeOK
<1>1. CASE ConnOpened(c)
  <2> DEFINE cs == [conn EXCEPT ![c].st = "open"]
  <2>1. cs \in [Conn -> ConnRec]
    BY <1>0, ConnRecType DEF ConnState
  <2>2. conn' = SendAuth(conn[c].owner, cs) /\ sock' = sock /\ conn[c].st = "connecting"
    BY <1>1 DEF ConnOpened
  <2>3. \A d \in Conn : /\ cs[d].owner = conn[d].owner
                        /\ cs[d].st = IF d = c THEN "open" ELSE conn[d].st
    BY <1>0 DEF ConnRec
  <2>. HIDE DEF cs
  <2>4. \A d \in Conn : conn'[d].owner = cs[d].owner /\ conn'[d].st = cs[d].st
    BY <1>0, <2>1, <2>2, SendAuthFrame DEF SlotInv
  <2>5. Holds
    BY <2>2, <2>3, <2>4 DEF Holds
  <2>6. QED
    BY <2>5, HoldsContained
<1>2. CASE AfterClosed(c) /\ Live(c)
  BY <1>2, EndContained
<1>3. CASE sock' = sock /\ conn[c].st = "open" /\ conn' = [conn EXCEPT ![c].st = "ending"]
  <2>1. \A d \in Conn : /\ conn'[d].owner = conn[d].owner
                        /\ conn'[d].st = IF d = c THEN "ending" ELSE conn[d].st
    BY <1>0, <1>3 DEF ConnRec
  <2>2. Holds
    BY <1>3, <2>1 DEF Holds
  <2>3. QED
    BY <2>2, HoldsContained
<1>4. CASE \E wr \in BOOLEAN : ConnMessage(c, wr)
  <2>1. Holds
    BY <1>4 DEF ConnMessage, Holds
  <2>2. QED
    BY <2>1, HoldsContained
<1>5. QED
  BY <1>1, <1>2, <1>3, <1>4
  DEF ConnNext, ConnRefused, ConnDropped, ConnError, ConnClosed, Live

LEMMA NextContained ==
    ASSUME LeakInv, [Next]_vars, PromptClose, Registered \subseteq Registered'
    PROVE  Contained'
<1>1. CASE UNCHANGED <<sock, conn>>
  <2>1. Holds
    BY <1>1 DEF Holds
  <2>2. QED
    BY <2>1, HoldsContained
<1>2. ASSUME NEW r \in Run, NEW a \in Adapter, SessionStepNext(r, a) PROVE Contained'
  <2>1. CASE OpenSocket(r, a)
    BY <2>1, OpenContained
  <2>2. CASE SendReauth(r, a)
    <3>1. conn' = SendAuth(a, conn) /\ sock' = sock /\ TypeOK
      BY <2>2 DEF SendReauth, LeakInv, SlotInv
    <3>2. \A c \in Conn : conn'[c].owner = conn[c].owner /\ conn'[c].st = conn[c].st
      BY <3>1, SendAuthFrame DEF TypeOK
    <3>3. Holds
      BY <3>1, <3>2 DEF Holds
    <3>4. QED
      BY <3>3, HoldsContained
  <2>3. QED
    BY <1>1, <1>2, <2>1, <2>2
    DEF SessionStepNext, LoginSucceeds, LoginFails, ReauthSent, ReauthNotSent, UserFails
<1>3. ASSUME NEW a \in Adapter, RestoreAdapter(a) PROVE Contained'
  BY <1>1, <1>3, CloseContained DEF RestoreAdapter
<1>4. ASSUME NEW p \in Printer, OperatorNext(p) PROVE Contained'
  <2>1. CASE SaveNewPrinter(p)
    BY <1>1, <2>1 DEF SaveNewPrinter
  <2>2. CASE reg[p] # None /\ CloseSocket(reg[p])
    <3>1. reg[p] \in Adapter
      BY <2>2 DEF LeakInv, SlotInv, TypeOK
    <3>2. QED
      BY <2>2, <3>1, CloseContained
  <2>3. QED
    BY <1>4, <2>1, <2>2 DEF OperatorNext, SavePrinter, DropPrinter, ReconnectOctoPrint
<1>5. ASSUME NEW r \in Run, StartReconnect(r) PROVE Contained'
  BY <1>1, <1>5 DEF StartReconnect
<1>6. QED
  BY <1>1, <1>2, <1>3, <1>4, <1>5, ConnContained DEF Next, StartRestore, vars

\* No connection escapes: one that is opening or open is the socket of the adapter of an enabled
\* printer, whatever set-ups, reconnects, faults and saves come together, if closing handshakes
\* end before the next connection opens and no printer is disabled or deleted
\* (octoprint-sockio.adapter.ts, printer-socket.store.ts).
THEOREM ConnectionsDoNotLeak ==
    ASSUME PromptClose, "drop" \notin Disturbance
    PROVE  Spec => []NoLeakedConnection
<1>1. Init => SetUpsRegistered /\ Contained
  BY DEF Init, SetUpsRegistered, Contained, NoLeakedConnection, ClosingIsLast, NoConn
<1>2. SlotInv /\ SetUpsRegistered /\ Contained /\ [Next]_vars => (SetUpsRegistered /\ Contained)'
  <2> SUFFICES ASSUME LeakInv, [Next]_vars PROVE (SetUpsRegistered /\ Contained)'
    BY DEF LeakInv
  <2>1. Registered \subseteq Registered'
    BY RegisteredStays DEF LeakInv, SlotInv
  <2>2. QED
    BY <2>1, SetUpsStayRegistered, NextContained DEF LeakInv, SlotInv
<1>3. Contained => NoLeakedConnection
  BY DEF Contained
<1>4. QED
  BY <1>1, <1>2, <1>3, SlotInvariant, PTL DEF Spec

=============================================================================
