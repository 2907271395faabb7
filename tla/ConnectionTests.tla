---------------------------- MODULE ConnectionTests ----------------------------
(***************************************************************************)
(* The connection tests of PrinterController.testConnection: one socket of *)
(* TestPrinterSocketStore that every test replaces, and a listener per     *)
(* test that passes the socket's events on to the client.                  *)
(*                                                                         *)
(* Tests that overlap share the field testSocket: a test that resumes after *)
(* an await opens, waits for and closes whichever socket is there by then. *)
(***************************************************************************)
EXTENDS Actors

VARIABLES
    testSocket,     \* the test whose adapter is kept, None if there is none
    testsOpen,      \* tests of whose adapter the socket is open
    testReq,        \* testReq[r]: what test r waits for
    listening,      \* tests whose listener is registered
    dropped,        \* history: tests whose socket has ended by itself since they started
    together        \* history: tests that were under way together with another one, since it
                    \* was last started alone

testVars == <<testSocket, testsOpen, testReq, listening, dropped, together>>

TestStage == {"idle", "session", "poll"}

TestsTypeOK ==
    /\ testSocket \in Request \cup {None}
    /\ testsOpen \subseteq Request
    /\ testReq \in [Request -> TestStage]
    /\ listening \subseteq Request
    /\ dropped \subseteq Request
    /\ together \subseteq Request

OthersTested(r) == {q \in Request \ {r} : testReq[q] # "idle"}

\* setupTestPrinter closes what an earlier test has left
Closed(open, old) == open \ {old}

\* Variant: a socket that is there is used ("Create a new socket if it doesn't exist")
ReusedSocket(old, r) == IF old = None THEN r ELSE old

\* socketFactory.createInstance
NewSocket(old, r) == r

\* The earlier socket is closed, the input found valid, a new adapter created
StartTest(r) ==
    /\ testReq[r] = "idle"
    /\ testsOpen' = Closed(testsOpen, testSocket)
    /\ testSocket' = NewSocket(testSocket, r)
    /\ testReq' = [testReq EXCEPT ![r] = "session"]
    /\ listening' = listening \cup {r}
    /\ dropped' = dropped \ {r}
    /\ together' = IF OthersTested(r) = {} THEN together \ {r} ELSE together \cup OthersTested(r) \cup {r}

\* The input is not valid: the earlier socket is closed all the same
RejectTest(r) ==
    /\ testReq[r] = "idle"
    /\ testsOpen' = Closed(testsOpen, testSocket)
    /\ testSocket' = None
    /\ together' = together \cup OthersTested(r)
    /\ UNCHANGED <<testReq, listening, dropped>>

\* setupSocketSession rejects: the answer is a failure, socket and listener stay
SetUpFails(r) ==
    /\ testReq[r] = "session"
    /\ testReq' = [testReq EXCEPT ![r] = "idle"]
    /\ UNCHANGED <<testSocket, testsOpen, listening, dropped, together>>

\* The session is set up: the socket that is there is opened.  If there is none, or it is
\* open already, open() throws where nobody hears of it, and the test waits for its timeout.
SetUpReady(r) ==
    /\ testReq[r] = "session"
    /\ testReq' = [testReq EXCEPT ![r] = "poll"]
    /\ testsOpen' = testsOpen \cup ({testSocket} \ {None})
    /\ UNCHANGED <<testSocket, listening, dropped, together>>

\* The socket that is there is authenticated, or the timeout has come.  If there is none
\* close() fails, the answer is a failure, and the listener stays.
EndTest(r) ==
    /\ testReq[r] = "poll"
    /\ testReq' = [testReq EXCEPT ![r] = "idle"]
    /\ testSocket' = None
    /\ testsOpen' = testsOpen \ {testSocket}
    /\ listening' = IF testSocket = None THEN listening ELSE listening \ {r}
    /\ UNCHANGED <<dropped, together>>

\* OctoPrint refuses the socket of test r or drops it: afterClosed deletes it, its adapter is
\* kept, and the test waits for its timeout.  An overlapping test may open the adapter again.
SocketDrops(r) ==
    /\ r \in testsOpen
    /\ testsOpen' = testsOpen \ {r}
    /\ dropped' = dropped \cup {r}
    /\ UNCHANGED <<testSocket, testReq, listening, together>>

-----------------------------------------------------------------------------
TestsInit ==
    /\ testSocket = None
    /\ testsOpen = {} /\ listening = {} /\ dropped = {} /\ together = {}
    /\ testReq = [r \in Request |-> "idle"]

TestsNext ==
    \E r \in Request :
        \/ StartTest(r) \/ RejectTest(r) \/ SetUpFails(r) \/ SetUpReady(r) \/ EndTest(r)
        \/ SocketDrops(r)

TestsSpec == TestsInit /\ [][TestsNext]_testVars

-----------------------------------------------------------------------------
(* Properties.                                                             *)

\* However tests overlap and fail, at most the socket that is kept is open, and none while no
\* test is under way: a test leaves no connection to an OctoPrint behind.
NoTestLeftOpen ==
    /\ testsOpen \subseteq {testSocket}
    /\ (\A r \in Request : testReq[r] = "idle") => testsOpen = {}

\* A test that overlaps with no other one is about its own socket until it ends: it is not
\* answered with the state of another printer, and unless OctoPrint ends that socket it is
\* there, open, and heard by the client as long as the test waits for it.
LoneTestIsOwn ==
    \A r \in Request \ together :
        /\ testReq[r] # "idle" => testSocket = r /\ r \in listening
        /\ testReq[r] = "poll" => testsOpen = {r} \ dropped
=============================================================================
