----------------------------- MODULE AccountsProofs -----------------------------
(***************************************************************************)
(* Theorems about the users and the roles they are given, for any numbers  *)
(* of requests, users and roles.                                           *)
(***************************************************************************)
EXTENDS Accounts, Roles, FiniteSetTheorems, SequenceTheorems, WellFoundedInduction, TLAPS

-----------------------------------------------------------------------------
(* Users: the invariant.                                                   *)

AccountRequest ==
    [stage : AccountStage, op : Operation, u : User \cup {None}, value : BOOLEAN,
     boot : BOOLEAN, was : BOOLEAN, raced : SUBSET {"owners", "admins"}]

\* Operations that create an account
Creating == {"wizard", "demo"}

\* What the stage of a request says of it
StageFits(q) ==
    /\ q.stage \in {"count", "save"} => q.op \notin Creating
    /\ q.stage \in {"register", "complete"} => q.op \in Creating
    /\ q.stage # "idle" => q.u \in User
    /\ q.op = "delete" => ~q.value
    /\ q.boot => q.u = DemoUser /\ q.op # "delete"

\* Whether the server runs in demo mode says what a boot sets, and spares the demo account
Suits(q, role) ==
    /\ q.stage # "idle" /\ q.boot => role # None
    /\ q.stage # "idle" /\ q.op \in {"demo", "role"} => q.boot
    /\ q.stage # "idle" /\ q.op = "role" => q.value = (role = "ADMIN")
    /\ q.stage # "idle" /\ q.op = "delete" /\ role # None => q.u # DemoUser

Acting(q) == q.stage \in {"count", "save"}

\* But for those that are to create it, an operation is about an account that is there
AboutAccount(q, us) == q.stage # "idle" /\ q.op \notin Creating => us[q.u].exists

\* A demotion about to be written, unless something overlapped: of an owner still, and another
\* owner was counted
KeepsOwner(q, us) ==
    Acting(q) /\ q.op = "root" /\ ~q.value /\ q.was /\ "owners" \notin q.raced =>
        us[q.u].root /\ (q.stage = "save" => \E w \in User : w # q.u /\ us[w].root)

\* A deletion about to be made is not of an owner ...
SparesOwner(q, us) ==
    Acting(q) /\ q.op = "delete" /\ "owners" \notin q.raced => ~us[q.u].root

\* ... and, if of an admin, another admin was counted
KeepsAdmin(q, us) ==
    Acting(q) /\ q.op = "delete" /\ "admins" \notin q.raced =>
        /\ q.stage = "count" => us[q.u].admin
        /\ q.stage = "save" /\ us[q.u].admin => \E w \in User : w # q.u /\ us[w].admin

Careful(q, us) == KeepsOwner(q, us) /\ SparesOwner(q, us) /\ KeepsAdmin(q, us)

\* A name without an account has none of an account's flags
NoGhosts == \A u \in User : ~users[u].exists => users[u] = NoAccount

\* Requests are only served while the server is up; it starts with a run of the boot alone
QuietWhenDown ==
    /\ accountsUp = "down" => \A r \in Request : ~InFlight(r)
    /\ accountsUp = "starting" =>
          \A r, s \in Request : InFlight(r) /\ InFlight(s) => r = s /\ accountReq[r].boot

\* Whoever overlapped with a contending request knows
Knows(p, q) == \A x \in Contended(p, q) : x \in p.raced
OverlapIsKnown ==
    \A r, s \in Request :
        r # s /\ InFlight(r) /\ InFlight(s) => Knows(accountReq[r], accountReq[s])

UsersInv ==
    /\ users \in [User -> Account]
    /\ wizardDone \in BOOLEAN
    /\ accountsUp \in {"down", "starting", "loaded", "up"}
    /\ demoRole \in DemoRole \cup {None}
    /\ accountsUp \in {"starting", "loaded"} => demoRole # None
    /\ NoGhosts

RequestsInv ==
    /\ accountReq \in [Request -> AccountRequest]
    /\ \A r \in Request : StageFits(accountReq[r]) /\ Suits(accountReq[r], demoRole)
    /\ QuietWhenDown
    /\ OverlapIsKnown

AllAboutAccounts == \A r \in Request : AboutAccount(accountReq[r], users)
AllCareful == \A r \in Request : Careful(accountReq[r], users)

AccountsInv == UsersInv /\ RequestsInv /\ AllAboutAccounts /\ AllCareful

-----------------------------------------------------------------------------
(* Users: what requests contend for.                                       *)

LEMMA OwnersContended ==
    ASSUME NEW p \in AccountRequest, NEW q \in AccountRequest
    PROVE  "owners" \in Contended(p, q) <=>
              /\ ~(p.value /\ q.value)
              /\ \/ p.op = "root" /\ q.op \in {"root", "delete"}
                 \/ p.op = "delete" /\ q.op = "root"
<1>1. "owners" \in Contended(p, q) <=>
         {p.op, q.op} \in {{"root"}, {"root", "delete"}} /\ ~(p.value /\ q.value)
  BY DEF Contended
<1>2. p.op \in Operation /\ q.op \in Operation
  BY DEF AccountRequest
<1>3. {p.op, q.op} = {"root"} <=> p.op = "root" /\ q.op = "root"
  OBVIOUS
<1>4. {p.op, q.op} = {"root", "delete"} <=>
         (p.op = "root" /\ q.op = "delete") \/ (p.op = "delete" /\ q.op = "root")
  OBVIOUS
<1>5. QED
  BY <1>1, <1>2, <1>3, <1>4 DEF Operation

LEMMA AdminsContended ==
    ASSUME NEW p \in AccountRequest, NEW q \in AccountRequest
    PROVE  "admins" \in Contended(p, q) <=>
              /\ ~p.value /\ ~q.value
              /\ \/ p.op = "delete" /\ q.op \in {"delete", "role"}
                 \/ p.op = "role" /\ q.op = "delete"
<1>1. "admins" \in Contended(p, q) <=>
         {p.op, q.op} \in {{"delete"}, {"delete", "role"}} /\ ~p.value /\ ~q.value
  BY DEF Contended
<1>2. {p.op, q.op} = {"delete"} <=> p.op = "delete" /\ q.op = "delete"
  OBVIOUS
<1>3. {p.op, q.op} = {"delete", "role"} <=>
         (p.op = "delete" /\ q.op = "role") \/ (p.op = "role" /\ q.op = "delete")
  OBVIOUS
<1>4. QED
  BY <1>1, <1>2, <1>3

LEMMA ContendedTogether ==
    ASSUME NEW p, NEW q
    PROVE  /\ Contended(p, q) = Contended(q, p)
           /\ Contended(p, q) \subseteq {"owners", "admins"}
<1>1. {p.op, q.op} = {q.op, p.op}
  OBVIOUS
<1>2. QED
  BY <1>1 DEF Contended

\* What is contended for is a matter of what is asked
LEMMA ContendedByAsking ==
    ASSUME NEW p, NEW q, NEW p2, NEW q2, p2.op = p.op, p2.value = p.value,
           q2.op = q.op, q2.value = q.value
    PROVE  Contended(p2, q2) = Contended(p, q)
BY DEF Contended

LEMMA NoAccountReqFits ==
    /\ NoAccountReq \in AccountRequest
    /\ StageFits(NoAccountReq)
    /\ \A role : Suits(NoAccountReq, role)
    /\ NoAccountReq.stage = "idle"
    /\ \A us : Careful(NoAccountReq, us) /\ AboutAccount(NoAccountReq, us)
BY DEF NoAccountReq, Asked, AccountRequest, StageFits, Suits, AccountStage, Operation, Careful,
       KeepsOwner, SparesOwner, KeepsAdmin, Acting, AboutAccount

-----------------------------------------------------------------------------
(* Users: requests that move.                                              *)

\* A request goes on with what it asked for, or is answered
GoesOn(r, new) ==
    /\ accountReq' = [accountReq EXCEPT ![r] = new]
    /\ new \in AccountRequest
    /\ StageFits(new)
    /\ \/ new.stage = "idle"
       \/ /\ InFlight(r)
          /\ new.op = accountReq[r].op /\ new.value = accountReq[r].value
          /\ new.raced = accountReq[r].raced /\ new.u = accountReq[r].u
          /\ new.boot = accountReq[r].boot

\* The server stays as it is, but for the end of a run of the boot
StaysUp(r, new) ==
    \/ UNCHANGED accountsUp
    \/ new.stage = "idle" /\ accountsUp' = "up"
    \/ /\ new.stage = "idle" /\ InFlight(r)
       /\ accountsUp = "starting" /\ accountsUp' = "down"

LEMMA RequestGoesOn ==
    ASSUME RequestsInv, NEW r \in Request, NEW new, GoesOn(r, new), StaysUp(r, new),
           UNCHANGED demoRole
    PROVE  /\ RequestsInv'
           /\ accountReq'[r] = new
           /\ \A s \in Request : s # r => accountReq'[s] = accountReq[s]
<1>1. accountReq' \in [Request -> AccountRequest]
  BY DEF RequestsInv, GoesOn
<1>2. accountReq'[r] = new /\ \A s \in Request : s # r => accountReq'[s] = accountReq[s]
  BY DEF RequestsInv, GoesOn
<1>3. \A s \in Request : StageFits(accountReq'[s]) /\ Suits(accountReq'[s], demoRole')
  <2>1. StageFits(new) /\ Suits(new, demoRole)
    BY DEF RequestsInv, GoesOn, Suits, InFlight
  <2>2. QED
    BY <1>2, <2>1 DEF RequestsInv
<1>4. QuietWhenDown'
  <2>1. \A s \in Request : InFlight(s)' => InFlight(s) /\ accountReq'[s].boot = accountReq[s].boot
    BY <1>2 DEF GoesOn, InFlight
  <2>2. CASE UNCHANGED accountsUp
    BY <2>1, <2>2 DEF RequestsInv, QuietWhenDown
  <2>3. CASE accountsUp' = "up"
    BY <2>3 DEF QuietWhenDown
  <2>4. CASE new.stage = "idle" /\ InFlight(r) /\ accountsUp = "starting" /\ accountsUp' = "down"
    BY <1>2, <2>1, <2>4 DEF RequestsInv, QuietWhenDown, InFlight
  <2>5. QED
    BY <2>2, <2>3, <2>4 DEF StaysUp
<1>5. ASSUME NEW s \in Request, NEW t \in Request, s # t, InFlight(s)', InFlight(t)'
      PROVE  Knows(accountReq'[s], accountReq'[t])
  <2>1. InFlight(s) /\ InFlight(t)
    BY <1>2, <1>5 DEF GoesOn, InFlight
  <2>2. Knows(accountReq[s], accountReq[t])
    BY <1>5, <2>1 DEF RequestsInv, OverlapIsKnown
  <2>3. Contended(accountReq'[s], accountReq'[t]) = Contended(accountReq[s], accountReq[t])
    <3>1. \A x \in {s, t} : accountReq'[x].op = accountReq[x].op
                            /\ accountReq'[x].value = accountReq[x].value
      BY <1>2, <1>5 DEF GoesOn, InFlight
    <3>2. QED
      BY <3>1, ContendedByAsking
  <2>4. accountReq'[s].raced = accountReq[s].raced
    BY <1>2, <1>5 DEF GoesOn, InFlight
  <2>5. QED
    BY <2>2, <2>3, <2>4 DEF Knows
<1>6. OverlapIsKnown'
  BY <1>5 DEF OverlapIsKnown
<1>7. QED
  BY <1>1, <1>2, <1>3, <1>4, <1>6 DEF RequestsInv

\* ... and the users stay as they are
LEMMA OnlyGoesOn ==
    ASSUME AccountsInv, NEW r \in Request, NEW new, GoesOn(r, new), Careful(new, users),
           StaysUp(r, new), wizardDone' \in BOOLEAN, UNCHANGED <<users, demoRole>>
    PROVE  AccountsInv'
<1>1. RequestsInv' /\ accountReq'[r] = new /\ \A s \in Request : s # r => accountReq'[s] = accountReq[s]
  BY RequestGoesOn DEF AccountsInv
<1>2. UsersInv'
  BY DEF AccountsInv, UsersInv, NoGhosts, StaysUp
<1>3. AllCareful'
  BY <1>1 DEF AccountsInv, AllCareful
<1>4. AllAboutAccounts'
  BY <1>1 DEF AccountsInv, AllAboutAccounts, AboutAccount, GoesOn, InFlight
<1>5. QED
  BY <1>1, <1>2, <1>3, <1>4 DEF AccountsInv

\* Some requests end
LEMMA RequestsEnd ==
    ASSUME RequestsInv, NEW over \in SUBSET Request, UNCHANGED <<accountsUp, demoRole>>,
           accountReq' = [s \in Request |-> IF s \in over THEN NoAccountReq ELSE accountReq[s]]
    PROVE  RequestsInv'
<1>1. /\ accountReq' \in [Request -> AccountRequest]
      /\ \A s \in Request : StageFits(accountReq'[s]) /\ Suits(accountReq'[s], demoRole')
  BY NoAccountReqFits DEF RequestsInv
<1>2. \A s \in Request : InFlight(s)' => InFlight(s) /\ accountReq'[s] = accountReq[s]
  BY NoAccountReqFits DEF InFlight
<1>3. QuietWhenDown'
  BY <1>2 DEF RequestsInv, QuietWhenDown
<1>4. OverlapIsKnown'
  BY <1>2 DEF RequestsInv, OverlapIsKnown
<1>5. QED
  BY <1>1, <1>3, <1>4 DEF RequestsInv

LEMMA IsAnswered ==
    ASSUME RequestsInv, NEW r \in Request, InFlight(r), Answered(r)
    PROVE  /\ GoesOn(r, NoAccountReq) /\ StaysUp(r, NoAccountReq)
           /\ \A us : Careful(NoAccountReq, us)
BY NoAccountReqFits DEF GoesOn, StaysUp, Answered

\* The answer to a request changes nothing of the users
LEMMA AnswerKeeps ==
    ASSUME AccountsInv, NEW r \in Request, InFlight(r), Answered(r),
           wizardDone' \in BOOLEAN, UNCHANGED <<users, demoRole>>
    PROVE  AccountsInv'
BY IsAnswered, OnlyGoesOn DEF AccountsInv

Moved(q, stage, was) == [q EXCEPT !.stage = stage, !.was = was]

LEMMA StepFits ==
    ASSUME RequestsInv, NEW r \in Request, InFlight(r), NEW stage \in AccountStage,
           stage \in {"count", "save"} => accountReq[r].op \notin Creating,
           stage \in {"register", "complete"} => accountReq[r].op \in Creating,
           NEW was \in BOOLEAN
    PROVE  /\ Moved(accountReq[r], stage, was) \in AccountRequest
           /\ StageFits(Moved(accountReq[r], stage, was))
           /\ Moved(accountReq[r], stage, was).op = accountReq[r].op
           /\ Moved(accountReq[r], stage, was).value = accountReq[r].value
           /\ Moved(accountReq[r], stage, was).raced = accountReq[r].raced
           /\ Moved(accountReq[r], stage, was).u = accountReq[r].u
           /\ Moved(accountReq[r], stage, was).boot = accountReq[r].boot
           /\ Moved(accountReq[r], stage, was).stage = stage
           /\ Moved(accountReq[r], stage, was).was = was
<1> USE DEF Moved
<1> DEFINE q == accountReq[r]
           new == Moved(q, stage, was)
<1>1. q \in AccountRequest /\ StageFits(q) /\ q.stage # "idle"
  BY DEF RequestsInv, InFlight
<1>2. /\ new.op = q.op /\ new.value = q.value
      /\ new.raced = q.raced /\ new.u = q.u /\ new.boot = q.boot
      /\ new.stage = stage /\ new.was = was
  BY <1>1 DEF AccountRequest
<1>3. new \in AccountRequest
  BY <1>1 DEF AccountRequest
<1>4. StageFits(new)
  BY <1>1, <1>2 DEF StageFits
<1>5. QED
  BY <1>2, <1>3, <1>4

LEMMA GoesToStage ==
    ASSUME RequestsInv, NEW r \in Request, InFlight(r), NEW stage \in AccountStage,
           stage \in {"count", "save"} => accountReq[r].op \notin Creating,
           stage \in {"register", "complete"} => accountReq[r].op \in Creating,
           Goes(r, stage)
    PROVE  \E new : /\ GoesOn(r, new) /\ StaysUp(r, new)
                    /\ new.stage = stage /\ new.was = accountReq[r].was
                    /\ new.op = accountReq[r].op /\ new.value = accountReq[r].value
                    /\ new.raced = accountReq[r].raced /\ new.u = accountReq[r].u
<1> DEFINE q == accountReq[r]
           new == Moved(q, stage, q.was)
<1>1. q \in AccountRequest
  BY DEF RequestsInv
<1>2. q.was \in BOOLEAN
  BY <1>1 DEF AccountRequest
<1>3. /\ new \in AccountRequest /\ StageFits(new)
      /\ new.op = q.op /\ new.value = q.value
      /\ new.raced = q.raced /\ new.u = q.u /\ new.boot = q.boot
      /\ new.stage = stage /\ new.was = q.was
  BY <1>2, StepFits
<1>4. new = [q EXCEPT !.stage = stage]
  BY <1>1 DEF AccountRequest, Moved
<1>5. accountReq' = [accountReq EXCEPT ![r] = new]
  BY <1>4 DEF Goes
<1>6. GoesOn(r, new) /\ StaysUp(r, new)
  BY <1>3, <1>5 DEF GoesOn, StaysUp, Goes
<1>7. QED
  BY <1>3, <1>6

\* An operation begins: whatever is under way knows of it, and it of them
Known(new, q) == IF InFlight(q) THEN Contended(new, accountReq[q]) ELSE {}

LEMMA BeginsRecords ==
    ASSUME accountReq \in [Request -> AccountRequest], NEW r \in Request,
           NEW new \in AccountRequest, Begins(r, new)
    PROVE  /\ accountReq' \in [Request -> AccountRequest]
           /\ accountReq'[r].stage = new.stage /\ accountReq'[r].op = new.op
           /\ accountReq'[r].u = new.u /\ accountReq'[r].value = new.value
           /\ accountReq'[r].boot = new.boot
           /\ \A s \in Request : s # r => Known(new, s) \subseteq accountReq'[r].raced
           /\ \A s \in Request : s # r =>
                 /\ accountReq'[s].stage = accountReq[s].stage /\ accountReq'[s].op = accountReq[s].op
                 /\ accountReq'[s].u = accountReq[s].u /\ accountReq'[s].value = accountReq[s].value
                 /\ accountReq'[s].boot = accountReq[s].boot /\ accountReq'[s].was = accountReq[s].was
                 /\ accountReq'[s].raced = accountReq[s].raced \cup Known(new, s)
<1> DEFINE with(q) == IF q # r /\ InFlight(q) THEN Contended(new, accountReq[q]) ELSE {}
           mine == [new EXCEPT !.raced = UNION {with(s) : s \in Request}]
           theirs(q) == [accountReq[q] EXCEPT !.raced = @ \cup with(q)]
<1>1. accountReq' = [q \in Request |-> IF q = r THEN mine ELSE theirs(q)]
  BY DEF Begins
<1>2. \A q \in Request : with(q) \subseteq {"owners", "admins"}
  BY ContendedTogether
<1>3. \A q \in Request : q # r => with(q) = Known(new, q)
  BY DEF Known
<1>4. /\ mine \in AccountRequest
      /\ mine.stage = new.stage /\ mine.op = new.op /\ mine.u = new.u
      /\ mine.value = new.value /\ mine.boot = new.boot
      /\ \A s \in Request : with(s) \subseteq mine.raced
  <2>1. UNION {with(s) : s \in Request} \subseteq {"owners", "admins"}
    BY <1>2
  <2> HIDE DEF with
  <2>2. QED
    BY <2>1 DEF AccountRequest
<1>5. ASSUME NEW q \in Request
      PROVE  /\ theirs(q) \in AccountRequest
             /\ theirs(q).stage = accountReq[q].stage /\ theirs(q).op = accountReq[q].op
             /\ theirs(q).u = accountReq[q].u /\ theirs(q).value = accountReq[q].value
             /\ theirs(q).boot = accountReq[q].boot /\ theirs(q).was = accountReq[q].was
             /\ theirs(q).raced = accountReq[q].raced \cup with(q)
  <2>1. accountReq[q] \in AccountRequest /\ with(q) \subseteq {"owners", "admins"}
    BY <1>2
  <2> HIDE DEF with
  <2>2. QED
    BY <2>1 DEF AccountRequest
<1> HIDE DEF mine, theirs
<1>6. accountReq' \in [Request -> AccountRequest]
  BY <1>1, <1>4, <1>5
<1>7. accountReq'[r] = mine /\ \A s \in Request : s # r => accountReq'[s] = theirs(s)
  BY <1>1
<1> HIDE DEF with
<1>8. QED
  BY <1>3, <1>4, <1>5, <1>6, <1>7

\* An operation that begins fits in, if the server is, or comes, up for it
LEMMA BeginsKeepsRequests ==
    ASSUME RequestsInv, NEW r \in Request, NEW new \in AccountRequest, StageFits(new),
           Suits(new, demoRole'), Begins(r, new),
           \/ UNCHANGED <<accountsUp, demoRole>> /\ (Serving \/ (InFlight(r) /\ new.boot = accountReq[r].boot))
           \/ accountsUp = "down" /\ accountsUp' \in {"starting", "loaded"} /\ new.boot
    PROVE  RequestsInv'
<1>0. accountReq \in [Request -> AccountRequest]
  BY DEF RequestsInv
<1>1. /\ accountReq' \in [Request -> AccountRequest]
      /\ accountReq'[r].stage = new.stage /\ accountReq'[r].op = new.op
      /\ accountReq'[r].u = new.u /\ accountReq'[r].value = new.value
      /\ accountReq'[r].boot = new.boot
      /\ \A s \in Request : s # r => Known(new, s) \subseteq accountReq'[r].raced
  BY <1>0, BeginsRecords
<1>2. \A s \in Request : s # r =>
         /\ accountReq'[s].stage = accountReq[s].stage /\ accountReq'[s].op = accountReq[s].op
         /\ accountReq'[s].u = accountReq[s].u /\ accountReq'[s].value = accountReq[s].value
         /\ accountReq'[s].boot = accountReq[s].boot
         /\ accountReq'[s].raced = accountReq[s].raced \cup Known(new, s)
  BY <1>0, BeginsRecords
<1>3. \A s \in Request : s # r => (InFlight(s)' <=> InFlight(s))
  BY <1>2 DEF InFlight
<1>4. \A q \in Request : StageFits(accountReq'[q])
  BY <1>1, <1>2 DEF StageFits, RequestsInv
<1>5. \A q \in Request : Suits(accountReq'[q], demoRole')
  <2>1. Suits(accountReq'[r], demoRole')
    BY <1>1 DEF Suits
  <2>2. ASSUME NEW q \in Request, q # r PROVE Suits(accountReq'[q], demoRole')
    <3>1. CASE UNCHANGED demoRole
      BY <1>2, <2>2, <3>1 DEF Suits, RequestsInv
    <3>2. CASE accountsUp = "down"
      <4>1. ~InFlight(q)
        BY <3>2 DEF RequestsInv, QuietWhenDown
      <4>2. QED
        BY <1>2, <2>2, <4>1 DEF Suits, InFlight
    <3>3. QED
      BY <3>1, <3>2
  <2>3. QED
    BY <2>1, <2>2
<1>6. QuietWhenDown'
  <2>1. CASE accountsUp = "down" /\ accountsUp' \in {"starting", "loaded"} /\ new.boot
    <3>1. \A s \in Request : s # r => ~InFlight(s)'
      BY <1>3, <2>1 DEF RequestsInv, QuietWhenDown
    <3>2. QED
      BY <1>1, <2>1, <3>1 DEF QuietWhenDown
  <2>2. CASE UNCHANGED accountsUp /\ Serving
    BY <2>2 DEF QuietWhenDown, Serving
  <2>3. CASE UNCHANGED accountsUp /\ InFlight(r) /\ new.boot = accountReq[r].boot
    BY <1>1, <1>2, <1>3, <2>3 DEF QuietWhenDown, RequestsInv
  <2>4. QED
    BY <2>1, <2>2, <2>3
<1>7. ASSUME NEW s \in Request, NEW t \in Request, s # t, InFlight(s)', InFlight(t)'
      PROVE  Knows(accountReq'[s], accountReq'[t])
  <2>1. CASE s # r /\ t # r
    <3>1. InFlight(s) /\ InFlight(t)
      BY <1>3, <1>7, <2>1
    <3>2. Knows(accountReq[s], accountReq[t])
      BY <1>7, <3>1 DEF RequestsInv, OverlapIsKnown
    <3>3. Contended(accountReq'[s], accountReq'[t]) = Contended(accountReq[s], accountReq[t])
      BY <1>2, <2>1, ContendedByAsking
    <3>4. QED
      BY <1>2, <2>1, <3>2, <3>3 DEF Knows
  <2>2. CASE s = r
    <3>1. InFlight(t) /\ t # r
      BY <1>3, <1>7, <2>2
    <3>2. Contended(accountReq'[s], accountReq'[t]) = Contended(new, accountReq[t])
      BY <1>1, <1>2, <2>2, <3>1, ContendedByAsking
    <3>3. QED
      BY <1>1, <2>2, <3>1, <3>2 DEF Knows, Known
  <2>3. CASE t = r
    <3>1. InFlight(s) /\ s # r
      BY <1>3, <1>7, <2>3
    <3>2. Contended(accountReq'[t], accountReq'[s]) = Contended(new, accountReq[s])
      BY <1>1, <1>2, <2>3, <3>1, ContendedByAsking
    <3>3. Contended(accountReq'[s], accountReq'[t]) = Contended(new, accountReq[s])
      BY <3>2, ContendedTogether
    <3>4. Known(new, s) \subseteq accountReq'[s].raced
      BY <1>2, <3>1
    <3>5. QED
      BY <3>1, <3>3, <3>4 DEF Knows, Known
  <2>4. QED
    BY <2>1, <2>2, <2>3
<1>8. OverlapIsKnown'
  BY <1>7 DEF OverlapIsKnown
<1>9. QED
  BY <1>1, <1>4, <1>5, <1>6, <1>8 DEF RequestsInv

\* What is under way stays careful when it learns of one more
LEMMA StillCareful ==
    ASSUME NEW p, NEW q, NEW us, Careful(p, us), AboutAccount(p, us),
           q.stage = p.stage, q.op = p.op, q.u = p.u, q.value = p.value, q.was = p.was,
           p.raced \subseteq q.raced
    PROVE  Careful(q, us) /\ AboutAccount(q, us)
BY DEF Careful, KeepsOwner, SparesOwner, KeepsAdmin, Acting, AboutAccount

\* Every operation begins with a call that writes nothing
Beginning == {"find", "check", "complete"}

LEMMA BeginsCareful ==
    ASSUME accountReq \in [Request -> AccountRequest], NEW r \in Request,
           NEW new \in AccountRequest, Begins(r, new), new.stage \in Beginning, NEW us,
           AboutAccount(new, us),
           \A s \in Request : s # r => Careful(accountReq[s], us) /\ AboutAccount(accountReq[s], us)
    PROVE  \A s \in Request : Careful(accountReq'[s], us) /\ AboutAccount(accountReq'[s], us)
<1>1. /\ accountReq'[r].stage = new.stage /\ accountReq'[r].op = new.op
      /\ accountReq'[r].u = new.u
  BY BeginsRecords
<1>2. Careful(accountReq'[r], us) /\ AboutAccount(accountReq'[r], us)
  BY <1>1 DEF Careful, KeepsOwner, SparesOwner, KeepsAdmin, Acting, AboutAccount, Beginning
<1>3. ASSUME NEW s \in Request, s # r PROVE Careful(accountReq'[s], us) /\ AboutAccount(accountReq'[s], us)
  <2>1. /\ accountReq'[s].stage = accountReq[s].stage /\ accountReq'[s].op = accountReq[s].op
        /\ accountReq'[s].u = accountReq[s].u /\ accountReq'[s].value = accountReq[s].value
        /\ accountReq'[s].was = accountReq[s].was
        /\ accountReq[s].raced \subseteq accountReq'[s].raced
    BY <1>3, BeginsRecords
  <2>2. QED
    BY <1>3, <2>1, StillCareful
<1>4. QED
  BY <1>2, <1>3

\* An operation begins, and the users stay as they are
LEMMA BeginsKeeps ==
    ASSUME AccountsInv, NEW r \in Request, NEW new \in AccountRequest, StageFits(new),
           Suits(new, demoRole'), Begins(r, new), new.stage \in Beginning,
           AboutAccount(new, users), UNCHANGED <<users, wizardDone>>,
           \/ UNCHANGED <<accountsUp, demoRole>> /\ (Serving \/ (InFlight(r) /\ new.boot = accountReq[r].boot))
           \/ /\ accountsUp = "down" /\ accountsUp' \in {"starting", "loaded"} /\ new.boot
              /\ demoRole' \in DemoRole
    PROVE  AccountsInv'
<1>1. RequestsInv'
  BY BeginsKeepsRequests DEF AccountsInv
<1>2. UsersInv'
  BY AccountsAssumption DEF AccountsInv, UsersInv, NoGhosts
<1>3. /\ accountReq \in [Request -> AccountRequest]
      /\ \A s \in Request : Careful(accountReq[s], users) /\ AboutAccount(accountReq[s], users)
  BY DEF AccountsInv, RequestsInv, AllCareful, AllAboutAccounts
<1>4. \A s \in Request : Careful(accountReq'[s], users) /\ AboutAccount(accountReq'[s], users)
  BY <1>3, BeginsCareful
<1>5. AllCareful' /\ AllAboutAccounts'
  BY <1>4 DEF AllCareful, AllAboutAccounts
<1>6. QED
  BY <1>1, <1>2, <1>5 DEF AccountsInv

\* A request asks
LEMMA AskKeeps ==
    ASSUME AccountsInv, NEW r \in Request, NEW stage \in {"find", "check"},
           NEW op \in Operation \ {"demo", "role"},
           NEW u \in User, NEW value \in BOOLEAN, op = "delete" => ~value,
           op = "delete" /\ demoRole # None => u # DemoUser,
           op # "wizard" => users[u].exists,
           AskAccount(r, stage, op, u, value)
    PROVE  AccountsInv'
<1> DEFINE new == Asked(stage, op, u, value)
<1>1. /\ new \in AccountRequest /\ new.stage = stage /\ new.op = op /\ new.u = u
      /\ new.value = value /\ ~new.boot
  BY DEF Asked, AccountRequest, AccountStage
<1>2. /\ Serving /\ Begins(r, new) /\ UNCHANGED <<users, wizardDone, accountsUp, demoRole>>
  BY DEF AskAccount
<1> HIDE DEF new
<1>3. StageFits(new) /\ Suits(new, demoRole') /\ AboutAccount(new, users)
  BY <1>1, <1>2 DEF StageFits, Suits, AboutAccount, Creating
<1>4. new.stage \in Beginning
  BY <1>1 DEF Beginning
<1>5. QED
  BY <1>1, <1>2, <1>3, <1>4, BeginsKeeps

\* What a run of the boot begins
BootOperation(stage, op) ==
    \/ stage = "find" /\ op \in {"demo", "verified", "root", "role"}
    \/ stage = "complete" /\ op = "demo"

LEMMA BootAsks ==
    ASSUME NEW stage \in AccountStage, NEW op \in Operation, NEW value \in BOOLEAN
    PROVE  /\ AskedByBoot(stage, op, value) \in AccountRequest
           /\ AskedByBoot(stage, op, value).boot
           /\ AskedByBoot(stage, op, value).stage = stage
           /\ AskedByBoot(stage, op, value).op = op
           /\ AskedByBoot(stage, op, value).u = DemoUser
           /\ AskedByBoot(stage, op, value).value = value
<1> DEFINE new == AskedByBoot(stage, op, value)
           asked == Asked(stage, op, DemoUser, value)
<1>1. asked \in AccountRequest /\ asked.stage = stage /\ asked.op = op /\ asked.u = DemoUser
      /\ asked.value = value
  BY AccountsAssumption DEF Asked, AccountRequest
<1>2. new = [asked EXCEPT !.boot = TRUE]
  BY DEF AskedByBoot
<1> HIDE DEF new, asked
<1>3. /\ new \in AccountRequest /\ new.boot
      /\ new.stage = stage /\ new.op = op /\ new.u = DemoUser /\ new.value = value
  BY <1>1, <1>2 DEF AccountRequest
<1>4. QED
  BY <1>3 DEF new

LEMMA BootAsksFits ==
    ASSUME NEW new \in AccountRequest, new.boot, new.u = DemoUser, BootOperation(new.stage, new.op),
           NEW role, role # None, new.op = "role" => new.value = (role = "ADMIN")
    PROVE  StageFits(new) /\ Suits(new, role) /\ new.stage \in Beginning
BY AccountsAssumption DEF BootOperation, StageFits, Suits, Creating, Beginning

-----------------------------------------------------------------------------
(* Users: the actions.                                                     *)

LEMMA AnotherIsThere ==
    ASSUME NEW set, ~LastOne(set), NEW x \in set
    PROVE  \E y \in set : y # x
<1>1. CASE set = {x}
  BY <1>1, FS_Singleton DEF LastOne
<1>2. CASE set # {x}
  BY <1>2
<1>3. QED
  BY <1>1, <1>2

LEMMA CheckRootUserKeeps ==
    ASSUME AccountsInv, NEW r \in Request, CheckRootUser(r)
    PROVE  AccountsInv'
<1> USE DEF CheckRootUser
<1>1. RequestsInv /\ InFlight(r) /\ wizardDone' \in BOOLEAN /\ UNCHANGED <<users, demoRole>>
  BY DEF AccountsInv, UsersInv, InFlight
<1>2. CASE Answered(r)
  BY <1>1, <1>2, AnswerKeeps
<1>3. CASE Goes(r, "find")
  <2>1. PICK new : GoesOn(r, new) /\ StaysUp(r, new) /\ new.stage = "find"
    <3>1. "find" \in AccountStage
      BY DEF AccountStage
    <3>2. QED
      BY <1>1, <1>3, <3>1, GoesToStage
  <2>2. Careful(new, users)
    BY <2>1 DEF Careful, KeepsOwner, SparesOwner, KeepsAdmin, Acting
  <2>3. QED
    BY <1>1, <2>1, <2>2, OnlyGoesOn
<1>4. QED
  BY <1>2, <1>3

LEMMA FindUserKeeps ==
    ASSUME AccountsInv, NEW r \in Request, FindUser(r)
    PROVE  AccountsInv'
<1> DEFINE q == accountReq[r]
           stage == IF Counted(q) THEN "count" ELSE "save"
           was == CASE q.op = "root" -> users[q.u].root
                    [] q.op = "verified" -> users[q.u].verified
                    [] q.op = "role" -> users[q.u].admin
                    [] OTHER -> FALSE
<1>1. /\ RequestsInv /\ InFlight(r) /\ wizardDone' \in BOOLEAN /\ UNCHANGED <<users, demoRole>>
      /\ q.op \notin Creating /\ q.stage = "find"
  BY DEF AccountsInv, UsersInv, InFlight, FindUser, Creating
<1>2. CASE Answered(r)
  BY <1>1, <1>2, AnswerKeeps
<1>3. CASE /\ ~Forbidden(q)
           /\ accountReq' = [accountReq EXCEPT ![r].stage = stage, ![r].was = was]
           /\ UNCHANGED accountsUp
  <2>1. q \in AccountRequest /\ q.u \in User /\ users[q.u] \in Account /\ (q.op = "delete" => ~q.value)
    BY <1>1 DEF AccountsInv, UsersInv, RequestsInv, StageFits
  <2>2. stage \in AccountStage /\ stage \in {"count", "save"} /\ was \in BOOLEAN
    <3>1. users[q.u].root \in BOOLEAN /\ users[q.u].verified \in BOOLEAN /\ users[q.u].admin \in BOOLEAN
      BY <2>1 DEF Account
    <3>2. QED
      BY <3>1 DEF AccountStage
  <2>3. q.op = "root" => was = users[q.u].root
    OBVIOUS
  <2>4. stage = "count" <=> Counted(q)
    OBVIOUS
  <2> HIDE DEF stage, was
  <2> DEFINE new == Moved(q, stage, was)
  <2>5. /\ new \in AccountRequest /\ StageFits(new)
        /\ new.op = q.op /\ new.value = q.value /\ new.raced = q.raced /\ new.u = q.u /\ new.boot = q.boot
        /\ new.stage = stage /\ new.was = was
    BY <1>1, <2>2, StepFits
  <2>6. GoesOn(r, new) /\ StaysUp(r, new)
    <3>1. accountReq' = [accountReq EXCEPT ![r] = new]
      BY <1>3 DEF Moved
    <3>2. QED
      BY <1>1, <1>3, <2>5, <3>1 DEF GoesOn, StaysUp
  <2> HIDE DEF new
  <2>7. KeepsOwner(new, users)
    <3>1. q.op = "root" /\ ~q.value => stage = "count"
      BY <2>4 DEF Counted
    <3>2. QED
      BY <2>3, <2>5, <3>1 DEF KeepsOwner
  <2>8. SparesOwner(new, users)
    BY <1>3, <2>5 DEF SparesOwner, Forbidden
  <2>9. KeepsAdmin(new, users)
    <3>1. q.op = "delete" => (stage = "count" <=> users[q.u].admin)
      BY <2>4 DEF Counted
    <3>2. QED
      BY <1>3, <2>2, <2>5, <3>1 DEF KeepsAdmin, Acting
  <2>10. QED
    BY <1>1, <2>6, <2>7, <2>8, <2>9, OnlyGoesOn DEF Careful
<1>4. QED
  BY <1>2, <1>3 DEF FindUser

LEMMA CountOthersKeeps ==
    ASSUME AccountsInv, NEW r \in Request, CountOthers(r)
    PROVE  AccountsInv'
<1> DEFINE q == accountReq[r]
<1>1. /\ RequestsInv /\ InFlight(r) /\ wizardDone' \in BOOLEAN /\ UNCHANGED <<users, demoRole>>
      /\ q.stage = "count"
  BY DEF AccountsInv, UsersInv, InFlight, CountOthers
<1>2. CASE Answered(r)
  BY <1>1, <1>2, AnswerKeeps
<1>3. CASE ~LastOne(Others(q.op)) /\ Goes(r, "save")
  <2>1. q.op \notin Creating /\ q.u \in User /\ Careful(q, users)
    BY <1>1 DEF AccountsInv, AllCareful, RequestsInv, StageFits
  <2>2. PICK new : /\ GoesOn(r, new) /\ StaysUp(r, new)
                   /\ new.stage = "save" /\ new.was = q.was
                   /\ new.op = q.op /\ new.value = q.value
                   /\ new.raced = q.raced /\ new.u = q.u
    <3>1. "save" \in AccountStage
      BY DEF AccountStage
    <3>2. QED
      BY <1>1, <1>3, <2>1, <3>1, GoesToStage
  <2>3. KeepsOwner(new, users)
    <3>1. SUFFICES ASSUME q.op = "root", ~q.value, q.was, "owners" \notin q.raced
                   PROVE  users[q.u].root /\ \E w \in User : w # q.u /\ users[w].root
      BY <2>2 DEF KeepsOwner
    <3>2. users[q.u].root
      BY <1>1, <2>1, <3>1 DEF Careful, KeepsOwner, Acting
    <3>3. \E w \in Roots : w # q.u
      <4>1. q.u \in Roots /\ Others(q.op) = Roots
        BY <2>1, <3>1, <3>2 DEF Others, Roots
      <4>2. QED
        BY <1>3, <4>1, AnotherIsThere
    <3>4. QED
      BY <3>2, <3>3 DEF Roots
  <2>4. SparesOwner(new, users)
    BY <1>1, <2>1, <2>2 DEF Careful, SparesOwner, Acting
  <2>5. KeepsAdmin(new, users)
    <3>1. SUFFICES ASSUME q.op = "delete", "admins" \notin q.raced
                   PROVE  \E w \in User : w # q.u /\ users[w].admin
      BY <2>2 DEF KeepsAdmin
    <3>2. users[q.u].admin
      BY <1>1, <2>1, <3>1 DEF Careful, KeepsAdmin, Acting
    <3>3. \E w \in Admins : w # q.u
      <4>1. q.u \in Admins /\ Others(q.op) = Admins
        BY <2>1, <3>1, <3>2 DEF Others, Admins
      <4>2. QED
        BY <1>3, <4>1, AnotherIsThere
    <3>4. QED
      BY <3>2, <3>3 DEF Admins
  <2>6. QED
    BY <1>1, <2>2, <2>3, <2>4, <2>5, OnlyGoesOn DEF Careful
<1>4. QED
  BY <1>2, <1>3 DEF CountOthers

LEMMA FindByUsernameKeeps ==
    ASSUME AccountsInv, NEW r \in Request, FindByUsername(r)
    PROVE  AccountsInv'
<1> USE DEF FindByUsername
<1>1. RequestsInv /\ InFlight(r) /\ wizardDone' \in BOOLEAN /\ UNCHANGED <<users, demoRole>>
  BY DEF AccountsInv, UsersInv, InFlight
<1>2. CASE Answered(r)
  BY <1>1, <1>2, AnswerKeeps
<1>3. CASE Goes(r, "register")
  <2>1. PICK new : GoesOn(r, new) /\ StaysUp(r, new) /\ new.stage = "register"
    <3>1. "register" \in AccountStage
      BY DEF AccountStage
    <3>2. accountReq[r].op \in Creating
      BY DEF Creating
    <3>3. QED
      BY <1>1, <1>3, <3>1, <3>2, GoesToStage
  <2>2. Careful(new, users)
    BY <2>1 DEF Careful, KeepsOwner, SparesOwner, KeepsAdmin, Acting
  <2>3. QED
    BY <1>1, <2>1, <2>2, OnlyGoesOn
<1>4. QED
  BY <1>2, <1>3

LEMMA FindDemoUserKeeps ==
    ASSUME AccountsInv, NEW r \in Request, FindDemoUser(r)
    PROVE  AccountsInv'
<1>1. /\ RequestsInv /\ InFlight(r) /\ UNCHANGED <<users, wizardDone, demoRole>>
      /\ accountReq[r].op = "demo"
  BY DEF AccountsInv, InFlight, FindDemoUser
<1>2. accountReq[r].boot /\ demoRole # None /\ wizardDone' \in BOOLEAN
  BY <1>1 DEF AccountsInv, UsersInv, RequestsInv, Suits, InFlight
<1>3. CASE users[DemoUser].exists
  <2> DEFINE new == AskedByBoot("find", "verified", TRUE)
  <2>1. Begins(r, new) /\ UNCHANGED accountsUp
    BY <1>3 DEF FindDemoUser
  <2>2. /\ new \in AccountRequest /\ new.boot /\ new.stage = "find" /\ new.op = "verified"
        /\ new.u = DemoUser
    <3>1. "find" \in AccountStage /\ "verified" \in Operation
      BY DEF AccountStage, Operation
    <3>2. QED
      BY <3>1, BootAsks
  <2> HIDE DEF new
  <2>3. StageFits(new) /\ Suits(new, demoRole) /\ new.stage \in Beginning
    BY <1>2, <2>2, BootAsksFits DEF BootOperation
  <2>4. AboutAccount(new, users)
    BY <1>3, <2>2 DEF AboutAccount
  <2>5. QED
    BY <1>1, <1>2, <2>1, <2>2, <2>3, <2>4, BeginsKeeps
<1>4. CASE Goes(r, "register")
  <2>1. PICK new : GoesOn(r, new) /\ StaysUp(r, new) /\ new.stage = "register"
    <3>1. "register" \in AccountStage /\ accountReq[r].op \in Creating
      BY <1>1 DEF AccountStage, Creating
    <3>2. QED
      BY <1>1, <1>4, <3>1, GoesToStage
  <2>2. Careful(new, users)
    BY <2>1 DEF Careful, KeepsOwner, SparesOwner, KeepsAdmin, Acting
  <2>3. QED
    BY <1>1, <1>2, <2>1, <2>2, OnlyGoesOn
<1>5. QED
  BY <1>3, <1>4 DEF FindDemoUser

\* What is written to a user
Written(q, old, new) ==
    \/ new = old
    \/ q.op = "delete" /\ new = NoAccount
    \/ /\ q.op = "root" /\ q.value # q.was /\ old.exists
       /\ new.exists /\ new.root = q.value /\ new.admin = old.admin
    \/ /\ q.op = "verified" /\ old.exists
       /\ new.exists /\ new.root = old.root /\ new.admin = old.admin
    \/ /\ q.op = "role" /\ q.value # q.was /\ old.exists
       /\ new.exists /\ new.root = old.root /\ new.admin = q.value

LEMMA SaveUserWrites ==
    ASSUME AccountsInv, NEW r \in Request, SaveUser(r)
    PROVE  /\ users' \in [User -> Account]
           /\ accountReq[r].u \in User
           /\ \A w \in User : w # accountReq[r].u => users'[w] = users[w]
           /\ users[accountReq[r].u].exists
           /\ Written(accountReq[r], users[accountReq[r].u], users'[accountReq[r].u])
<1> DEFINE q == accountReq[r]
           old == users[q.u]
<1>1. /\ q \in AccountRequest /\ q.u \in User /\ q.op \notin Creating
      /\ users \in [User -> Account] /\ old \in Account /\ old.exists
  BY DEF AccountsInv, UsersInv, RequestsInv, AllAboutAccounts, AboutAccount, StageFits, SaveUser
<1>2. NoAccount \in Account
  BY DEF NoAccount, Account
<1>3. q.op \in {"root", "verified", "delete", "role"} /\ q.value \in BOOLEAN
  BY <1>1 DEF AccountRequest, Operation, Creating
<1>4. CASE q.op # "delete" /\ q.value = q.was
  <2>1. users' = users
    BY <1>4 DEF SaveUser
  <2>2. QED
    BY <1>1, <2>1 DEF Written
<1>5. CASE q.op = "delete"
  <2>1. users' = [users EXCEPT ![q.u] = NoAccount]
    BY <1>5 DEF SaveUser
  <2>2. QED
    BY <1>1, <1>2, <1>5, <2>1 DEF Written
<1>6. CASE q.op = "root" /\ q.value # q.was
  <2> DEFINE new == [old EXCEPT !.root = q.value]
  <2>1. users' = [users EXCEPT ![q.u] = new]
    BY <1>6 DEF SaveUser
  <2>2. new \in Account /\ new.exists = old.exists /\ new.root = q.value /\ new.admin = old.admin
    BY <1>1, <1>3 DEF Account
  <2> HIDE DEF new
  <2>3. QED
    BY <1>1, <1>6, <2>1, <2>2 DEF Written
<1>7. CASE q.op = "verified" /\ q.value # q.was
  <2> DEFINE new == [old EXCEPT !.verified = q.value]
  <2>1. users' = [users EXCEPT ![q.u] = new]
    BY <1>7 DEF SaveUser
  <2>2. new \in Account /\ new.exists = old.exists /\ new.root = old.root /\ new.admin = old.admin
    BY <1>1, <1>3 DEF Account
  <2> HIDE DEF new
  <2>3. QED
    BY <1>1, <1>7, <2>1, <2>2 DEF Written
<1>8. CASE q.op = "role" /\ q.value # q.was
  <2> DEFINE new == [old EXCEPT !.admin = q.value]
  <2>1. users' = [users EXCEPT ![q.u] = new]
    BY <1>8 DEF SaveUser
  <2>2. new \in Account /\ new.exists = old.exists /\ new.root = old.root /\ new.admin = q.value
    BY <1>1, <1>3 DEF Account
  <2> HIDE DEF new
  <2>3. QED
    BY <1>1, <1>8, <2>1, <2>2 DEF Written
<1>9. QED
  BY <1>3, <1>4, <1>5, <1>6, <1>7, <1>8

\* A request that does not know of the one that saves stays careful
LEMMA SaveSparesOthers ==
    ASSUME AccountsInv, NEW r \in Request, SaveUser(r), NEW s \in Request, s # r
    PROVE  Careful(accountReq[s], users')
<1> DEFINE q == accountReq[r]
           p == accountReq[s]
<1>1. q.stage = "save" /\ q \in AccountRequest /\ StageFits(q) /\ Suits(q, demoRole)
  BY DEF SaveUser, AccountsInv, RequestsInv
<1>2. /\ users' \in [User -> Account] /\ q.u \in User /\ users[q.u].exists
      /\ \A w \in User : w # q.u => users'[w] = users[w]
      /\ Written(q, users[q.u], users'[q.u])
  BY SaveUserWrites
<1>3. p \in AccountRequest /\ Careful(p, users) /\ StageFits(p) /\ Suits(p, demoRole)
  BY DEF AccountsInv, AllCareful, RequestsInv
<1>4. Acting(p) => Knows(p, q) /\ p.u \in User
  BY <1>1, <1>3 DEF Acting, AccountsInv, RequestsInv, OverlapIsKnown, InFlight, StageFits
<1>5. KeepsOwner(p, users')
  <2>1. SUFFICES ASSUME Acting(p), p.op = "root", ~p.value, p.was, "owners" \notin p.raced
                 PROVE  users'[p.u].root /\ (p.stage = "save" => \E w \in User : w # p.u /\ users'[w].root)
    BY DEF KeepsOwner
  <2>2. q.op \notin {"root", "delete"}
    BY <1>1, <1>3, <1>4, <2>1, OwnersContended DEF Knows
  <2>3. \A w \in User : users[w].root => users'[w].root
    BY <1>2, <2>2 DEF Written
  <2>4. QED
    BY <1>3, <1>4, <2>1, <2>3 DEF Careful, KeepsOwner
<1>6. SparesOwner(p, users')
  <2>1. SUFFICES ASSUME Acting(p), p.op = "delete", "owners" \notin p.raced
                 PROVE  ~users'[p.u].root
    BY DEF SparesOwner
  <2>2. ~p.value /\ q.op # "root"
    BY <1>1, <1>3, <1>4, <2>1, OwnersContended DEF Knows, StageFits
  <2>3. ~users[p.u].root
    BY <1>3, <2>1 DEF Careful, SparesOwner
  <2>4. QED
    BY <1>2, <1>4, <2>1, <2>2, <2>3 DEF Written, NoAccount
<1>7. KeepsAdmin(p, users')
  <2>1. SUFFICES ASSUME Acting(p), p.op = "delete", "admins" \notin p.raced
                 PROVE  /\ p.stage = "count" => users'[p.u].admin
                        /\ p.stage = "save" /\ users'[p.u].admin => \E w \in User : w # p.u /\ users'[w].admin
    BY DEF KeepsAdmin
  <2>2. ~p.value /\ q.value \in BOOLEAN
    BY <1>1, <1>3, <2>1 DEF StageFits, AccountRequest
  <2>3. q.op # "delete" /\ (q.op = "role" => q.value)
    BY <1>1, <1>3, <1>4, <2>1, <2>2, AdminsContended DEF Knows, StageFits
  <2>4. CASE q.op # "role"
    <3>1. \A w \in User : users[w].admin <=> users'[w].admin
      BY <1>2, <2>3, <2>4 DEF Written
    <3>2. QED
      BY <1>3, <1>4, <2>1, <3>1 DEF Careful, KeepsAdmin
  <2>5. CASE q.op = "role"
    <3>1. p.u # q.u
      BY <1>1, <1>3, <2>1, <2>5 DEF Suits, StageFits, Acting
    <3>2. users'[p.u] = users[p.u] /\ \A w \in User : users[w].admin => users'[w].admin
      BY <1>2, <1>4, <2>1, <2>3, <2>5, <3>1 DEF Written
    <3>3. QED
      BY <1>3, <1>4, <2>1, <3>2 DEF Careful, KeepsAdmin
  <2>6. QED
    BY <2>4, <2>5
<1>8. QED
  BY <1>5, <1>6, <1>7 DEF Careful

\* What a run of the boot goes on with fits in
LEMMA NextOfBootFits ==
    ASSUME AccountsInv, NEW r \in Request, SaveUser(r), accountReq[r].boot
    PROVE  /\ NextOfBoot(accountReq[r].op) \in AccountRequest
           /\ StageFits(NextOfBoot(accountReq[r].op))
           /\ Suits(NextOfBoot(accountReq[r].op), demoRole)
           /\ NextOfBoot(accountReq[r].op).boot
           /\ NextOfBoot(accountReq[r].op).stage \in Beginning
           /\ NextOfBoot(accountReq[r].op).u = DemoUser
<1>1. demoRole # None
  BY DEF SaveUser, AccountsInv, RequestsInv, Suits
<1> DEFINE new == NextOfBoot(accountReq[r].op)
<1>2. /\ new \in AccountRequest /\ new.boot /\ new.u = DemoUser /\ BootOperation(new.stage, new.op)
      /\ new.op = "role" => new.value = (demoRole = "ADMIN")
  <2>0. /\ "find" \in AccountStage /\ "complete" \in AccountStage
        /\ "demo" \in Operation /\ "root" \in Operation /\ "role" \in Operation
    BY DEF AccountStage, Operation
  <2>1. CASE accountReq[r].op = "verified"
    <3> DEFINE asked == AskedByBoot("find", "root", FALSE)
    <3>1. new = asked
      BY <2>1 DEF NextOfBoot
    <3>2. /\ asked \in AccountRequest /\ asked.boot /\ asked.u = DemoUser
          /\ asked.stage = "find" /\ asked.op = "root"
      BY <2>0, BootAsks
    <3> HIDE DEF new, asked
    <3>3. QED
      BY <3>1, <3>2 DEF BootOperation
  <2>2. CASE accountReq[r].op = "root"
    <3> DEFINE value == demoRole = "ADMIN"
               asked == AskedByBoot("find", "role", value)
    <3>1. new = asked /\ value = (demoRole = "ADMIN")
      BY <2>2 DEF NextOfBoot
    <3>2. value \in BOOLEAN
      OBVIOUS
    <3> HIDE DEF value
    <3>3. /\ asked \in AccountRequest /\ asked.boot /\ asked.u = DemoUser
          /\ asked.stage = "find" /\ asked.op = "role" /\ asked.value = value
      BY <2>0, <3>2, BootAsks
    <3> HIDE DEF new, asked
    <3>4. QED
      BY <3>1, <3>3 DEF BootOperation
  <2>3. CASE accountReq[r].op \notin {"verified", "root"}
    <3> DEFINE asked == AskedByBoot("complete", "demo", TRUE)
    <3>1. new = asked
      BY <2>3 DEF NextOfBoot
    <3>2. /\ asked \in AccountRequest /\ asked.boot /\ asked.u = DemoUser
          /\ asked.stage = "complete" /\ asked.op = "demo"
      BY <2>0, BootAsks
    <3> HIDE DEF new, asked
    <3>3. QED
      BY <3>1, <3>2 DEF BootOperation
  <2>4. QED
    BY <2>1, <2>2, <2>3
<1> HIDE DEF new
<1>3. StageFits(new) /\ Suits(new, demoRole) /\ new.stage \in Beginning
  BY <1>1, <1>2, BootAsksFits
<1>4. QED
  BY <1>2, <1>3 DEF new

\* Whoever has a flag keeps it, unless a deletion or a change of it is written
LEMMA SaveUserKeeps ==
    ASSUME AccountsInv, NEW r \in Request, SaveUser(r)
    PROVE  AccountsInv'
<1> DEFINE q == accountReq[r]
<1>1. /\ q.stage = "save" /\ q \in AccountRequest /\ InFlight(r) /\ StageFits(q)
      /\ UNCHANGED <<wizardDone, accountsUp, demoRole>>
      /\ accountReq \in [Request -> AccountRequest]
  BY DEF SaveUser, AccountsInv, RequestsInv, InFlight
<1>2. /\ users' \in [User -> Account] /\ q.u \in User /\ users[q.u].exists
      /\ \A w \in User : w # q.u => users'[w] = users[w]
      /\ Written(q, users[q.u], users'[q.u])
  BY SaveUserWrites
<1>3. UsersInv'
  <2>1. ~users'[q.u].exists => users'[q.u] = NoAccount
    BY <1>2 DEF Written, AccountsInv, UsersInv, NoGhosts
  <2>2. NoGhosts'
    BY <1>2, <2>1 DEF AccountsInv, UsersInv, NoGhosts
  <2>3. QED
    BY <1>1, <1>2, <2>2 DEF AccountsInv, UsersInv
<1>4. \A s \in Request : s # r => Careful(accountReq[s], users')
  BY SaveSparesOthers
<1>5. ASSUME NEW s \in Request, q.op = "delete" => ~Holds(s, q.u)
      PROVE  AboutAccount(accountReq[s], users')
  <2> SUFFICES ASSUME accountReq[s].stage # "idle", accountReq[s].op \notin Creating
               PROVE  users'[accountReq[s].u].exists
    BY DEF AboutAccount
  <2>1. accountReq[s].u \in User /\ users[accountReq[s].u].exists
    BY DEF AccountsInv, AllAboutAccounts, AboutAccount, RequestsInv, StageFits
  <2>2. q.op = "delete" => accountReq[s].u # q.u
    BY <1>5 DEF Holds, Creating
  <2>3. QED
    BY <1>2, <2>1, <2>2 DEF Written
<1>6. CASE q.boot
  <2> DEFINE new == NextOfBoot(q.op)
  <2>1. Begins(r, new)
    BY <1>6 DEF SaveUser
  <2>2. /\ new \in AccountRequest /\ StageFits(new) /\ Suits(new, demoRole) /\ new.boot
        /\ new.stage \in Beginning /\ new.u = DemoUser
    BY <1>6, NextOfBootFits
  <2>3. q.u = DemoUser /\ q.op # "delete"
    BY <1>1, <1>6 DEF StageFits
  <2> HIDE DEF new
  <2>4. RequestsInv'
    BY <1>1, <1>6, <2>1, <2>2, BeginsKeepsRequests DEF AccountsInv
  <2>5. AboutAccount(new, users')
    BY <1>2, <2>2, <2>3 DEF Written, AboutAccount
  <2>6. \A s \in Request : s # r => Careful(accountReq[s], users') /\ AboutAccount(accountReq[s], users')
    BY <1>4, <1>5, <2>3
  <2>7. \A s \in Request : Careful(accountReq'[s], users') /\ AboutAccount(accountReq'[s], users')
    BY <1>1, <2>1, <2>2, <2>5, <2>6, BeginsCareful
  <2>8. QED
    BY <1>3, <2>4, <2>7 DEF AccountsInv, AllCareful, AllAboutAccounts
<1>7. CASE ~q.boot
  <2> DEFINE over == {s \in Request : s = r \/ (q.op = "delete" /\ Holds(s, q.u))}
  <2>1. accountReq' = [s \in Request |-> IF s \in over THEN NoAccountReq ELSE accountReq[s]]
    BY <1>7 DEF SaveUser
  <2>2. \A s \in Request : \/ accountReq'[s] = NoAccountReq
                           \/ /\ accountReq'[s] = accountReq[s] /\ s # r
                              /\ q.op = "delete" => ~Holds(s, q.u)
    BY <2>1
  <2>3. RequestsInv'
    <3>1. over \in SUBSET Request
      OBVIOUS
    <3> HIDE DEF over
    <3>2. QED
      BY <1>1, <2>1, <3>1, RequestsEnd DEF AccountsInv
  <2>4. \A s \in Request : Careful(accountReq'[s], users') /\ AboutAccount(accountReq'[s], users')
    BY <1>4, <1>5, <2>2, NoAccountReqFits
  <2>5. QED
    BY <1>3, <2>3, <2>4 DEF AccountsInv, AllCareful, AllAboutAccounts
<1>8. QED
  BY <1>6, <1>7

LEMMA RegisterUserKeeps ==
    ASSUME AccountsInv, NEW u \in User, RegisterUser(u)
    PROVE  AccountsInv'
<1> DEFINE new == [NoAccount EXCEPT !.exists = TRUE]
<1>1. /\ new \in Account /\ new.exists /\ ~new.root /\ ~new.admin
      /\ ~NoAccount.exists /\ ~NoAccount.root /\ ~NoAccount.admin
  BY DEF NoAccount, Account
<1>2. /\ users' = [users EXCEPT ![u] = new] /\ ~users[u].exists
      /\ UNCHANGED <<wizardDone, accountsUp, demoRole, accountReq>>
  BY DEF RegisterUser
<1> HIDE DEF new
<1>3. users \in [User -> Account] /\ users[u] = NoAccount
  BY <1>2 DEF AccountsInv, UsersInv, NoGhosts
<1>4. /\ users' \in [User -> Account]
      /\ \A w \in User : /\ users[w].exists => users'[w].exists
                         /\ users[w].root <=> users'[w].root
                         /\ users[w].admin <=> users'[w].admin
                         /\ ~users'[w].exists => users'[w] = users[w]
  BY <1>1, <1>2, <1>3
<1>5. UsersInv'
  BY <1>2, <1>4 DEF AccountsInv, UsersInv, NoGhosts
<1>6. RequestsInv'
  BY <1>2 DEF AccountsInv, RequestsInv, QuietWhenDown, OverlapIsKnown, InFlight
<1>7. ASSUME NEW s \in Request
      PROVE  Careful(accountReq[s], users') /\ AboutAccount(accountReq[s], users')
  <2>1. /\ Careful(accountReq[s], users) /\ AboutAccount(accountReq[s], users)
        /\ accountReq[s].stage # "idle" => accountReq[s].u \in User
    BY DEF AccountsInv, AllCareful, AllAboutAccounts, RequestsInv, StageFits
  <2>2. AboutAccount(accountReq[s], users')
    BY <1>4, <2>1 DEF AboutAccount
  <2>3. Careful(accountReq[s], users')
    BY <1>4, <2>1 DEF Careful, KeepsOwner, SparesOwner, KeepsAdmin, Acting
  <2>4. QED
    BY <2>2, <2>3
<1>8. QED
  BY <1>2, <1>5, <1>6, <1>7 DEF AccountsInv, AllCareful, AllAboutAccounts

LEMMA RegisterOwnerKeeps ==
    ASSUME AccountsInv, NEW r \in Request, RegisterOwner(r)
    PROVE  AccountsInv'
<1> DEFINE q == accountReq[r]
           account == IF q.op = "wizard" THEN Owner
                      ELSE [Owner EXCEPT !.root = FALSE, !.admin = demoRole = "ADMIN"]
<1>1. /\ RequestsInv /\ InFlight(r) /\ wizardDone' \in BOOLEAN
      /\ UNCHANGED <<wizardDone, demoRole>>
      /\ q.stage = "register" /\ q \in AccountRequest /\ q.op \in Creating /\ q.u \in User
  BY DEF AccountsInv, UsersInv, RequestsInv, StageFits, InFlight, RegisterOwner
<1>2. CASE Answered(r) /\ UNCHANGED users
  BY <1>1, <1>2, AnswerKeeps
<1>3. CASE ~users[q.u].exists /\ users' = [users EXCEPT ![q.u] = account] /\ Goes(r, "complete")
  <2>1. account \in Account /\ account.exists
    BY DEF Owner, Account
  <2> HIDE DEF account
  <2>2. users \in [User -> Account]
    BY DEF AccountsInv, UsersInv
  <2>3. /\ users' \in [User -> Account] /\ users'[q.u] = account
        /\ \A w \in User : w # q.u => users'[w] = users[w]
    BY <1>1, <1>3, <2>1, <2>2
  <2>4. \A w \in User : /\ users[w].exists => users'[w].exists
                        /\ users[w].root => users'[w].root
                        /\ users[w].admin => users'[w].admin
    BY <1>3, <2>1, <2>3 DEF AccountsInv, UsersInv, NoGhosts, NoAccount
  <2>5. UsersInv'
    <3>1. UNCHANGED <<accountsUp, demoRole>>
      BY <1>1, <1>3 DEF Goes
    <3>2. NoGhosts'
      BY <2>1, <2>3 DEF AccountsInv, UsersInv, NoGhosts
    <3>3. QED
      BY <1>1, <2>3, <3>1, <3>2 DEF AccountsInv, UsersInv
  <2>6. PICK new : GoesOn(r, new) /\ StaysUp(r, new) /\ new.stage = "complete"
    <3>1. "complete" \in AccountStage
      BY DEF AccountStage
    <3>2. QED
      BY <1>1, <1>3, <3>1, GoesToStage
  <2>7. /\ RequestsInv' /\ accountReq'[r] = new
        /\ \A s \in Request : s # r => accountReq'[s] = accountReq[s]
    BY <1>1, <2>6, RequestGoesOn
  <2>8. ASSUME NEW s \in Request, s # r
        PROVE  Careful(accountReq[s], users') /\ AboutAccount(accountReq[s], users')
    <3> DEFINE p == accountReq[s]
    <3>1. /\ Careful(p, users) /\ AboutAccount(p, users) /\ StageFits(p)
          /\ p.stage # "idle" => p.u \in User
      BY DEF AccountsInv, AllCareful, AllAboutAccounts, RequestsInv, StageFits
    <3>2. p.stage # "idle" /\ p.op \notin Creating => users'[p.u] = users[p.u]
      BY <1>3, <2>3, <3>1 DEF AboutAccount
    <3>3. AboutAccount(p, users')
      BY <3>1, <3>2 DEF AboutAccount
    <3>4. Careful(p, users')
      <4>1. Acting(p) => p.op \notin Creating /\ p.u \in User /\ p.stage # "idle"
        BY <3>1 DEF Acting, StageFits
      <4>2. QED
        BY <2>4, <3>1, <3>2, <4>1 DEF Careful, KeepsOwner, SparesOwner, KeepsAdmin, Acting
    <3>5. QED
      BY <3>3, <3>4
  <2>9. Careful(accountReq'[r], users') /\ AboutAccount(accountReq'[r], users')
    <3>1. accountReq'[r].op \in Creating
      BY <1>1, <2>6, <2>7 DEF GoesOn
    <3>2. QED
      BY <2>6, <2>7, <3>1 DEF Careful, KeepsOwner, SparesOwner, KeepsAdmin, Acting, AboutAccount
  <2>10. AllCareful' /\ AllAboutAccounts'
    BY <2>7, <2>8, <2>9 DEF AllCareful, AllAboutAccounts
  <2>11. QED
    BY <2>5, <2>7, <2>10 DEF AccountsInv
<1>4. QED
  BY <1>2, <1>3 DEF RegisterOwner

LEMMA CompleteWizardKeeps ==
    ASSUME AccountsInv, NEW r \in Request, CompleteWizard(r)
    PROVE  AccountsInv'
<1>1. RequestsInv /\ InFlight(r) /\ wizardDone' \in BOOLEAN /\ UNCHANGED <<users, demoRole>>
  BY DEF AccountsInv, InFlight, CompleteWizard
<1>2. CASE Answered(r)
  BY <1>1, <1>2, AnswerKeeps
<1>3. CASE Goes(r, "rest")
  <2>1. PICK new : GoesOn(r, new) /\ StaysUp(r, new) /\ new.stage = "rest"
    <3>1. "rest" \in AccountStage
      BY DEF AccountStage
    <3>2. QED
      BY <1>1, <1>3, <3>1, GoesToStage
  <2>2. Careful(new, users)
    BY <2>1 DEF Careful, KeepsOwner, SparesOwner, KeepsAdmin, Acting
  <2>3. QED
    BY <1>1, <2>1, <2>2, OnlyGoesOn
<1>4. QED
  BY <1>2, <1>3 DEF CompleteWizard

LEMMA BootSucceedsKeeps ==
    ASSUME AccountsInv, NEW r \in Request, BootSucceeds(r)
    PROVE  AccountsInv'
<1>1. GoesOn(r, NoAccountReq) /\ StaysUp(r, NoAccountReq)
  BY NoAccountReqFits DEF BootSucceeds, GoesOn, StaysUp
<1>2. QED
  BY <1>1, NoAccountReqFits, OnlyGoesOn DEF BootSucceeds, AccountsInv, UsersInv

LEMMA AccountFailsKeeps ==
    ASSUME AccountsInv, NEW r \in Request, AccountFails(r)
    PROVE  AccountsInv'
BY AnswerKeeps DEF AccountFails, AccountsInv, UsersInv

LEMMA AllAtRest ==
    ASSUME UsersInv, accountReq = [r \in Request |-> NoAccountReq]
    PROVE  AccountsInv
<1>1. /\ accountReq \in [Request -> AccountRequest]
      /\ \A r \in Request : accountReq[r] = NoAccountReq
  BY NoAccountReqFits
<1>2. QuietWhenDown /\ OverlapIsKnown
  BY <1>1, NoAccountReqFits DEF QuietWhenDown, OverlapIsKnown, InFlight
<1>3. QED
  BY <1>1, <1>2, NoAccountReqFits DEF AccountsInv, RequestsInv, AllCareful, AllAboutAccounts

LEMMA AccountsStart == AccountsInit => AccountsInv
<1>1. AccountsInit => UsersInv
  <2> SUFFICES ASSUME AccountsInit PROVE UsersInv
    OBVIOUS
  <2>1. users \in [User -> Account] /\ NoGhosts
    BY DEF AccountsInit, NoGhosts, NoAccount, Account
  <2>2. QED
    BY <2>1 DEF AccountsInit, UsersInv
<1>2. QED
  BY <1>1, AllAtRest DEF AccountsInit

LEMMA ServerStopsKeeps == ASSUME AccountsInv, ServerStops PROVE AccountsInv'
<1>1. UsersInv'
  BY DEF ServerStops, AccountsInv, UsersInv, NoGhosts
<1>2. accountReq' = [r \in Request |-> NoAccountReq]
  BY DEF ServerStops
<1>3. /\ accountReq' \in [Request -> AccountRequest]
      /\ \A r \in Request : accountReq'[r] = NoAccountReq
  BY <1>2, NoAccountReqFits
<1>4. QuietWhenDown' /\ OverlapIsKnown'
  BY <1>3, NoAccountReqFits DEF QuietWhenDown, OverlapIsKnown, InFlight
<1>5. QED
  BY <1>1, <1>3, <1>4, NoAccountReqFits DEF AccountsInv, RequestsInv, AllCareful, AllAboutAccounts

\* A server that is down serves no request: so it is when it has started
LEMMA StartServerKeeps == ASSUME AccountsInv, StartServer PROVE AccountsInv'
<1>1. UsersInv' /\ UNCHANGED <<users, accountReq>>
  BY DEF StartServer, AccountsInv, UsersInv, NoGhosts
<1>2. \A r \in Request : ~InFlight(r)
  BY DEF StartServer, AccountsInv, RequestsInv, QuietWhenDown
<1>3. QuietWhenDown' /\ OverlapIsKnown'
  BY <1>1, <1>2 DEF QuietWhenDown, OverlapIsKnown, InFlight
<1>4. \A r \in Request : Suits(accountReq[r], demoRole')
  BY <1>2 DEF Suits, InFlight
<1>5. QED
  BY <1>1, <1>3, <1>4 DEF AccountsInv, RequestsInv, AllCareful, AllAboutAccounts

\* A run of the boot starts, and changes nothing yet
LEMMA BootKeeps ==
    ASSUME AccountsInv, NEW r \in Request, RepeatBoot(r) \/ \E role \in DemoRole : StartDemo(r, role)
    PROVE  AccountsInv'
<1> DEFINE new == AskedByBoot("find", "demo", TRUE)
<1>1. Begins(r, new) /\ UNCHANGED <<users, wizardDone>>
  BY DEF RepeatBoot, StartDemo
<1>2. \/ UNCHANGED <<accountsUp, demoRole>> /\ Serving
      \/ accountsUp = "down" /\ accountsUp' \in {"starting", "loaded"} /\ demoRole' \in DemoRole
  BY DEF RepeatBoot, StartDemo, Serving
<1>3. demoRole' # None
  <2>1. CASE RepeatBoot(r)
    BY <2>1 DEF RepeatBoot, AccountsInv, UsersInv
  <2>2. CASE \E role \in DemoRole : StartDemo(r, role)
    BY <2>2, AccountsAssumption DEF StartDemo
  <2>3. QED
    BY <2>1, <2>2
<1>4. new \in AccountRequest /\ new.boot /\ new.stage = "find" /\ new.op = "demo" /\ new.u = DemoUser
  <2>1. "find" \in AccountStage /\ "demo" \in Operation
    BY DEF AccountStage, Operation
  <2>2. QED
    BY <2>1, BootAsks
<1> HIDE DEF new
<1>5. /\ StageFits(new) /\ Suits(new, demoRole') /\ new.stage \in Beginning
      /\ AboutAccount(new, users)
  BY <1>3, <1>4, BootAsksFits DEF BootOperation, AboutAccount, Creating
<1>6. QED
  BY <1>1, <1>2, <1>4, <1>5, BeginsKeeps

LEMMA AccountsStep == AccountsInv /\ [AccountsNext]_accountVars => AccountsInv'
<1> SUFFICES ASSUME AccountsInv, [AccountsNext]_accountVars PROVE AccountsInv'
  OBVIOUS
<1>1. CASE UNCHANGED accountVars
  BY <1>1 DEF accountVars, AccountsInv, UsersInv, RequestsInv, AllAboutAccounts, AllCareful,
              NoGhosts, QuietWhenDown, OverlapIsKnown, InFlight
<1>2. ASSUME NEW r \in Request, NEW u \in User, DeleteUser(r, u) PROVE AccountsInv'
  <2>1. "delete" \in Operation \ {"demo", "role"} /\ "check" \in {"find", "check"} /\ FALSE \in BOOLEAN
    BY DEF Operation
  <2>2. /\ users[u].exists /\ AskAccount(r, "check", "delete", u, FALSE)
        /\ demoRole # None => u # DemoUser
    BY <1>2 DEF DeleteUser
  <2>3. QED
    BY <1>2, <2>1, <2>2, AskKeeps
<1>3. ASSUME NEW r \in Request, NEW u \in User, StartWizard(r, u) PROVE AccountsInv'
  <2>1. "wizard" \in Operation \ {"demo", "role"} /\ "find" \in {"find", "check"} /\ TRUE \in BOOLEAN
    BY DEF Operation
  <2>2. AskAccount(r, "find", "wizard", u, TRUE)
    BY <1>3 DEF StartWizard
  <2>3. QED
    BY <1>3, <2>1, <2>2, AskKeeps
<1>4. ASSUME NEW r \in Request, NEW u \in User, NEW value \in BOOLEAN,
             SetRootUser(r, u, value) \/ SetVerified(r, u, value)
      PROVE  AccountsInv'
  <2>1. {"root", "verified"} \subseteq Operation \ {"demo", "role"}
    BY DEF Operation
  <2>2. /\ users[u].exists
        /\ \/ AskAccount(r, "find", "root", u, value)
           \/ AskAccount(r, "check", "verified", u, value)
    BY <1>4 DEF SetRootUser, SetVerified
  <2>3. QED
    BY <1>4, <2>1, <2>2, AskKeeps
<1>5. ASSUME NEW r \in Request,
             \/ CheckRootUser(r) \/ FindUser(r) \/ CountOthers(r) \/ SaveUser(r)
             \/ FindByUsername(r) \/ RegisterOwner(r) \/ CompleteWizard(r) \/ AccountFails(r)
             \/ RepeatBoot(r) \/ FindDemoUser(r) \/ BootSucceeds(r)
             \/ \E role \in DemoRole : StartDemo(r, role)
      PROVE  AccountsInv'
  BY <1>5, CheckRootUserKeeps, FindUserKeeps, CountOthersKeeps, SaveUserKeeps,
     FindByUsernameKeeps, RegisterOwnerKeeps, CompleteWizardKeeps, AccountFailsKeeps,
     BootKeeps, FindDemoUserKeeps, BootSucceedsKeeps
<1>6. ASSUME NEW u \in User, RegisterUser(u) PROVE AccountsInv'
  BY <1>6, RegisterUserKeeps
<1>7. CASE ServerStops \/ StartServer
  BY <1>7, ServerStopsKeeps, StartServerKeeps
<1>8. QED
  BY <1>1, <1>2, <1>3, <1>4, <1>5, <1>6, <1>7 DEF AccountsNext

LEMMA AccountsAlways == AccountsSpec => []AccountsInv
BY AccountsStart, AccountsStep, PTL DEF AccountsSpec

-----------------------------------------------------------------------------
(* Users: the theorems.                                                    *)

\* Every account and every request about one is well-typed (UserService, UserController).
THEOREM AccountsTypeCorrect == AccountsSpec => []AccountsTypeOK
<1>1. AccountsInv => AccountsTypeOK
  BY DEF AccountsInv, UsersInv, RequestsInv, AccountRequest, AccountsTypeOK
<1>2. QED
  BY <1>1, AccountsAlways, PTL

\* Only a request or a boot that saves takes a flag from a user
LEMMA OthersTakeNothing ==
    ASSUME AccountsInv, [AccountsNext]_accountVars,
           ~ \E r \in Request : SaveUser(r)
    PROVE  \A w \in User : /\ users[w].root => users'[w].root
                           /\ users[w].admin => users'[w].admin
<1>1. CASE UNCHANGED users
  BY <1>1
<1>2. ASSUME NEW u \in User, RegisterUser(u)
      PROVE  \A w \in User : w = u \/ users'[w] = users[w]
  BY <1>2 DEF RegisterUser, AccountsInv, UsersInv
<1>3. ASSUME NEW u \in User, RegisterUser(u) PROVE ~users[u].root /\ ~users[u].admin
  BY <1>3 DEF RegisterUser, AccountsInv, UsersInv, NoGhosts, NoAccount
<1>4. ASSUME NEW r \in Request, RegisterOwner(r), ~UNCHANGED users
      PROVE  \A w \in User : \/ users'[w] = users[w]
                             \/ ~users[w].root /\ ~users[w].admin
  BY <1>4 DEF RegisterOwner, AccountsInv, UsersInv, NoGhosts, NoAccount
<1>5. \/ UNCHANGED users
      \/ \E u \in User : RegisterUser(u)
      \/ \E r \in Request : RegisterOwner(r)
  <2>1. ASSUME NEW r \in Request, NEW u \in User, NEW value \in BOOLEAN,
               \/ DeleteUser(r, u) \/ StartWizard(r, u)
               \/ SetRootUser(r, u, value) \/ SetVerified(r, u, value)
        PROVE  UNCHANGED users
    <3>1. ASSUME NEW stage, NEW op, NEW v, AskAccount(r, stage, op, u, v) PROVE UNCHANGED users
      BY <3>1 DEF AskAccount
    <3>2. QED
      BY <2>1, <3>1 DEF DeleteUser, StartWizard, SetRootUser, SetVerified
  <2>2. ASSUME NEW r \in Request,
               CheckRootUser(r) \/ FindUser(r) \/ CountOthers(r) \/ FindByUsername(r)
                  \/ CompleteWizard(r) \/ AccountFails(r)
                  \/ RepeatBoot(r) \/ FindDemoUser(r) \/ BootSucceeds(r)
                  \/ \E role \in DemoRole : StartDemo(r, role)
        PROVE  UNCHANGED users
    BY <2>2 DEF CheckRootUser, FindUser, CountOthers, FindByUsername, CompleteWizard, AccountFails,
                RepeatBoot, FindDemoUser, BootSucceeds, StartDemo
  <2>3. ASSUME ServerStops \/ StartServer PROVE UNCHANGED users
    BY <2>3 DEF ServerStops, StartServer
  <2>4. ASSUME UNCHANGED accountVars PROVE UNCHANGED users
    BY <2>4 DEF accountVars
  <2>5. QED
    BY <2>1, <2>2, <2>3, <2>4 DEF AccountsNext
<1>6. QED
  BY <1>1, <1>2, <1>3, <1>4, <1>5

LEMMA OwnerStaysStep ==
    ASSUME AccountsInv, [AccountsNext]_accountVars, Roots # {}, ~Raced("owners")
    PROVE  Roots' # {}
<1>1. PICK owner \in User : users[owner].root
  BY DEF Roots
<1>2. ASSUME NEW r \in Request, SaveUser(r) PROVE \E w \in User : users'[w].root
  <2> DEFINE q == accountReq[r]
  <2>1. /\ q \in AccountRequest /\ Careful(q, users) /\ q.stage = "save" /\ "owners" \notin q.raced
        /\ q.u \in User
    BY <1>2 DEF AccountsInv, AllCareful, RequestsInv, StageFits, SaveUser, Raced
  <2>2. /\ \A w \in User : w # q.u => users'[w] = users[w]
        /\ Written(q, users[q.u], users'[q.u])
    BY <1>2, SaveUserWrites
  <2>3. q.value \in BOOLEAN /\ q.was \in BOOLEAN
    BY <2>1 DEF AccountRequest
  <2>4. CASE users'[q.u].root
    BY <2>1, <2>4
  <2>5. CASE ~users'[q.u].root /\ users[q.u].root
    <3>1. q.op # "delete"
      BY <2>1, <2>5 DEF Careful, SparesOwner, Acting
    <3>2. q.op = "root" /\ ~q.value /\ q.was
      BY <2>2, <2>3, <2>5, <3>1 DEF Written
    <3>3. \E w \in User : w # q.u /\ users[w].root
      BY <2>1, <3>2 DEF Careful, KeepsOwner, Acting
    <3>4. QED
      BY <2>2, <3>3
  <2>6. CASE ~users[q.u].root
    BY <1>1, <2>2, <2>6
  <2>7. QED
    BY <2>4, <2>5, <2>6
<1>3. \E w \in User : users'[w].root
  BY <1>1, <1>2, OthersTakeNothing
<1>4. QED
  BY <1>3 DEF Roots

\* "Ensure at least one user is root user" (user.service.ts): the last owner goes only in an
\* operation, of a request or of the boot, that the change of an owner overlapped with.
THEOREM OwnerAlwaysStays == AccountsSpec => OwnerStays
<1>1. AccountsInv /\ [AccountsNext]_accountVars
         => [Roots # {} => Roots' # {} \/ Raced("owners")]_accountVars
  BY OwnerStaysStep
<1>2. QED
  BY <1>1, AccountsAlways, PTL DEF AccountsSpec, OwnerStays

LEMMA AdminStaysStep ==
    ASSUME AccountsInv, [AccountsNext]_accountVars, Admins # {}, ~Raced("admins"),
           ~(Admins = {DemoUser} /\ demoRole \notin {None, "ADMIN"})
    PROVE  Admins' # {}
<1>1. PICK admin \in User : users[admin].admin
  BY DEF Admins
<1>2. ASSUME NEW r \in Request, SaveUser(r) PROVE \E w \in User : users'[w].admin
  <2> DEFINE q == accountReq[r]
  <2>1. /\ Careful(q, users) /\ q.stage = "save" /\ "admins" \notin q.raced /\ q.u \in User
    BY <1>2 DEF AccountsInv, AllCareful, RequestsInv, StageFits, SaveUser, Raced
  <2>2. /\ \A w \in User : w # q.u => users'[w] = users[w]
        /\ Written(q, users[q.u], users'[q.u])
    BY <1>2, SaveUserWrites
  <2>3. CASE users'[q.u].admin
    BY <2>1, <2>3
  <2>4. CASE ~users'[q.u].admin /\ users[q.u].admin
    <3>1. CASE q.op = "delete"
      <4>1. \E w \in User : w # q.u /\ users[w].admin
        BY <2>1, <2>4, <3>1 DEF Careful, KeepsAdmin, Acting
      <4>2. QED
        BY <2>2, <4>1
    <3>2. CASE q.op = "role"
      <4>1. /\ q.u = DemoUser /\ demoRole # None /\ q.value = (demoRole = "ADMIN")
        BY <1>2, <3>2 DEF SaveUser, AccountsInv, RequestsInv, StageFits, Suits
      <4>2. ~q.value
        BY <2>2, <2>4, <3>2 DEF Written
      <4>3. Admins # {DemoUser}
        BY <4>1, <4>2
      <4>4. \E w \in User : w # q.u /\ users[w].admin
        BY <2>1, <2>4, <4>1, <4>3 DEF Admins
      <4>5. QED
        BY <2>2, <4>4
    <3>3. QED
      BY <2>2, <2>4, <3>1, <3>2 DEF Written
  <2>5. CASE ~users[q.u].admin
    BY <1>1, <2>2, <2>5
  <2>6. QED
    BY <2>3, <2>4, <2>5
<1>3. \E w \in User : users'[w].admin
  BY <1>1, <1>2, OthersTakeNothing
<1>4. QED
  BY <1>3 DEF Admins

\* The last user with the ADMIN role is deleted only if another deletion, or a boot that changes the
\* demo account's role, overlaps, or loses the role as the demo account whose role is configured
\* otherwise (user.service.ts, deleteUser; boot.task.ts, createOrUpdateDemoAccount).
THEOREM AdminAlwaysStays == AccountsSpec => AdminStays
<1>1. AccountsInv /\ [AccountsNext]_accountVars
         => [Admins # {} => \/ Admins' # {} \/ Raced("admins")
                            \/ Admins = {DemoUser} /\ demoRole \notin {None, "ADMIN"}]_accountVars
  <2>1. AccountsInv /\ [AccountsNext]_accountVars /\ Admins # {} /\ ~Raced("admins")
           /\ ~(Admins = {DemoUser} /\ demoRole \notin {None, "ADMIN"}) => Admins' # {}
    BY AdminStaysStep
  <2>2. QED
    BY <2>1
<1>2. QED
  BY <1>1, AccountsAlways, PTL DEF AccountsSpec, AdminStays

-----------------------------------------------------------------------------
(* Roles: the first of a name.                                             *)

\* Every non-empty set of natural numbers has a least element.
LEMMA LeastNatural ==
    ASSUME NEW T, T \subseteq Nat, T # {} PROVE \E x \in T : \A y \in T : x <= y
<1> DEFINE R == OpToRel(<, Nat)
<1>1. IsWellFoundedOn(R, Nat)
  BY NatLessThanWellFounded
<1>2. \A x, y \in Nat : x < y => <<x, y>> \in R
  BY DEF OpToRel
<1> HIDE DEF R
<1>3. PICK x \in T : \A y \in T : ~ (<<y, x>> \in R)
  BY <1>1, WFMin
<1>4. \A y \in T : ~ (y < x)
  BY <1>2, <1>3
<1>5. QED
  BY <1>3, <1>4

\* The role a name is looked up as is there, and no earlier one has the name.
LEMMA RoleIsFound ==
    ASSUME NEW list \in Seq(Role), NEW name, HasName(list, name)
    PROVE  \E i \in DOMAIN list :
              RoleByName(list, name) = list[i] /\ list[i].name = name /\ IsFirst(list, i)
<1> DEFINE T == {i \in DOMAIN list : list[i].name = name}
<1>1. DOMAIN list = 1..Len(list) /\ Len(list) \in Nat
  OBVIOUS
<1>2. T \subseteq Nat /\ T # {}
  BY <1>1 DEF HasName
<1>3. PICK x \in T : \A y \in T : x <= y
  <2> HIDE DEF T
  <2> QED BY <1>2, LeastNatural
<1>4. IsFirst(list, x)
  <2> SUFFICES ASSUME NEW j \in 1..(x - 1), list[j].name = list[x].name PROVE FALSE
    BY DEF IsFirst
  <2>1. j \in DOMAIN list /\ j < x
    BY <1>1, <1>3
  <2>2. j \in T
    BY <1>3, <2>1
  <2>3. QED
    BY <1>1, <1>3, <2>1, <2>2
<1>5. \E i \in DOMAIN list : list[i].name = name /\ IsFirst(list, i)
  BY <1>3, <1>4
<1> DEFINE k == CHOOSE i \in DOMAIN list : list[i].name = name /\ IsFirst(list, i)
<1>6. k \in DOMAIN list /\ list[k].name = name /\ IsFirst(list, k)
  BY <1>5
<1>7. RoleByName(list, name) = list[k]
  BY DEF RoleByName
<1> HIDE DEF k
<1>8. QED
  BY <1>6, <1>7

\* The first of a name is what the name is looked up as.
LEMMA FirstIsFound ==
    ASSUME NEW list \in Seq(Role), NEW i \in DOMAIN list, IsFirst(list, i)
    PROVE  RoleByName(list, list[i].name) = list[i]
<1>1. DOMAIN list = 1..Len(list) /\ Len(list) \in Nat
  OBVIOUS
<1>2. HasName(list, list[i].name)
  BY DEF HasName
<1>3. PICK k \in DOMAIN list : RoleByName(list, list[i].name) = list[k]
                               /\ list[k].name = list[i].name /\ IsFirst(list, k)
  BY <1>2, RoleIsFound
<1>4. ~(k < i) /\ ~(i < k)
  BY <1>1, <1>3 DEF IsFirst
<1>5. k = i
  BY <1>1, <1>4
<1>6. QED
  BY <1>3, <1>5

LEMMA OneMore ==
    ASSUME NEW S, NEW list \in Seq(S), NEW x \in S
    PROVE  /\ Append(list, x) \in Seq(S)
           /\ list \o <<x>> = Append(list, x)
           /\ DOMAIN Append(list, x) = 1..(Len(list) + 1)
           /\ \A i \in DOMAIN list : Append(list, x)[i] = list[i]
           /\ Append(list, x)[Len(list) + 1] = x
BY AppendProperties, AppendIsConcat

-----------------------------------------------------------------------------
(* Roles: the invariant.                                                   *)

RoleRequest ==
    [stage : {"idle", "find", "create"}, at : Nat, name : Range(RoleName) \cup {None}]

\* A synchronisation has come to one of the roles
AtRole(q) == q.stage # "idle" => q.at \in 1..Len(RoleName)

\* Ids are given out in order
IdsInOrder == \A i \in DOMAIN roleDocs : roleDocs[i].id = i

RolesTyped ==
    /\ roleDocs \in Seq(Role)
    /\ roles \in Seq(Role)
    /\ roleReq \in [Request -> RoleRequest]
    /\ \A r \in Request : AtRole(roleReq[r])
    /\ granted \subseteq RoleId
    /\ rolesMixed \in BOOLEAN
    /\ IdsInOrder

\* The role is a stored one, which findOne meets first of its name
Lasting(docs, role) == \E i \in DOMAIN docs : role = docs[i] /\ IsFirst(docs, i)

AllLast == \A k \in DOMAIN roles : Lasting(roleDocs, roles[k])
GrantsLast == \A id \in granted : id \in DOMAIN roleDocs /\ IsFirst(roleDocs, id)
CreatesNew ==
    \A r \in Request :
        roleReq[r].stage = "create" => ~HasName(roleDocs, RoleName[roleReq[r].at])
OneSyncs == \A r, s \in Request : Syncing(r) /\ Syncing(s) => r = s

Settled == AllLast /\ GrantsLast /\ CreatesNew /\ OneSyncs

RolesInv == RolesTyped /\ (rolesMixed \/ Settled)

LEMMA RolesTypedIsTypeOK == RolesTyped => RolesTypeOK
BY DEF RolesTyped, RolesTypeOK, RoleRequest

LEMMA NoRoleReqType == NoRoleReq \in RoleRequest /\ NoRoleReq.stage = "idle" /\ AtRole(NoRoleReq)
BY DEF NoRoleReq, RoleRequest, AtRole

LEMMA FirstRequestType ==
    ASSUME NEW name \in Range(RoleName) \cup {None}
    PROVE  LET q == [stage |-> "find", at |-> 1, name |-> name] IN
           q \in RoleRequest /\ AtRole(q)
<1>1. Len(RoleName) \in Nat /\ Len(RoleName) >= 1
  BY RolesAssumption
<1>2. QED
  BY <1>1 DEF RoleRequest, AtRole

\* A role a synchronisation comes to has a name
LEMMA AtName ==
    ASSUME RolesTyped, NEW r \in Request, Syncing(r)
    PROVE  RoleName[roleReq[r].at] \in Range(RoleName)
<1>1. roleReq[r].at \in 1..Len(RoleName)
  BY DEF RolesTyped, AtRole, Syncing
<1>2. DOMAIN RoleName = 1..Len(RoleName)
  BY RolesAssumption
<1>3. QED
  BY <1>1, <1>2 DEF Range

-----------------------------------------------------------------------------
(* Roles: the actions.                                                     *)

\* What is granted was granted before or is in the list
LEMMA GrantTakes ==
    ASSUME NEW list \in Seq(Role), NEW name, granted \subseteq RoleId,
           UNCHANGED granted \/ Grant(list, name)
    PROVE  /\ granted' \subseteq RoleId
           /\ \A id \in granted' : id \in granted \/ \E k \in DOMAIN list : id = list[k].id
<1>1. CASE UNCHANGED granted
  BY <1>1
<1>2. CASE Grant(list, name) /\ HasName(list, name)
  <2>1. PICK k \in DOMAIN list : RoleByName(list, name) = list[k]
    BY <1>2, RoleIsFound
  <2>2. granted' = granted \cup {list[k].id}
    BY <1>2, <2>1 DEF Grant
  <2>3. list[k] \in Role
    OBVIOUS
  <2>4. list[k].id \in RoleId
    BY <2>3 DEF Role
  <2>5. QED
    BY <2>2, <2>4
<1>3. CASE Grant(list, name) /\ ~HasName(list, name)
  BY <1>3 DEF Grant
<1>4. QED
  BY <1>1, <1>2, <1>3

LEMMA RequestReplaced ==
    ASSUME RolesTyped, NEW r \in Request, NEW q \in RoleRequest, AtRole(q),
           roleReq' = [roleReq EXCEPT ![r] = q]
    PROVE  /\ roleReq' \in [Request -> RoleRequest]
           /\ \A s \in Request : AtRole(roleReq'[s])
           /\ roleReq'[r] = q
           /\ \A s \in Request : s # r => roleReq'[s] = roleReq[s]
<1>1. roleReq \in [Request -> RoleRequest]
  BY DEF RolesTyped
<1>2. roleReq'[r] = q /\ \A s \in Request : s # r => roleReq'[s] = roleReq[s]
  BY <1>1
<1>3. \A s \in Request : AtRole(roleReq'[s])
  BY <1>2 DEF RolesTyped
<1>4. QED
  BY <1>1, <1>2, <1>3

\* A synchronisation goes on to the next role, or ends
LEMMA NextRoleMoves ==
    ASSUME RolesTyped, NEW r \in Request, NEW list \in Seq(Role), Syncing(r), NextRole(r, list)
    PROVE  /\ roles' = list
           /\ roleReq' \in [Request -> RoleRequest]
           /\ \A s \in Request : AtRole(roleReq'[s])
           /\ roleReq'[r].stage # "create"
           /\ \A s \in Request : s # r => roleReq'[s] = roleReq[s]
           /\ granted' \subseteq RoleId
           /\ \A id \in granted' : id \in granted \/ \E k \in DOMAIN list : id = list[k].id
<1> DEFINE q == roleReq[r]
<1>1. /\ q \in RoleRequest /\ q.at \in 1..Len(RoleName) /\ granted \subseteq RoleId
      /\ roles' = list /\ Len(RoleName) \in Nat
  BY RolesAssumption DEF RolesTyped, AtRole, Syncing, NextRole
<1>2. CASE q.at < Len(RoleName)
  <2> DEFINE next == q.at + 1
             new == [q EXCEPT !.stage = "find", !.at = next]
  <2>1. roleReq' = [roleReq EXCEPT ![r] = new] /\ UNCHANGED granted
    BY <1>2 DEF NextRole
  <2>2. next \in Nat /\ next \in 1..Len(RoleName)
    BY <1>1, <1>2
  <2> HIDE DEF next
  <2>3. new \in RoleRequest /\ new.stage = "find" /\ new.at = next
    BY <1>1, <2>2 DEF RoleRequest
  <2> HIDE DEF new
  <2>4. AtRole(new)
    BY <2>2, <2>3 DEF AtRole
  <2>5. QED
    BY <1>1, <2>1, <2>3, <2>4, RequestReplaced
<1>3. CASE ~(q.at < Len(RoleName))
  <2>1. roleReq' = [roleReq EXCEPT ![r] = NoRoleReq]
        /\ (UNCHANGED granted \/ Grant(list, q.name))
    BY <1>3 DEF NextRole
  <2>2. /\ granted' \subseteq RoleId
        /\ \A id \in granted' : id \in granted \/ \E k \in DOMAIN list : id = list[k].id
    BY <1>1, <2>1, GrantTakes
  <2>3. QED
    BY <1>1, <2>1, <2>2, NoRoleReqType, RequestReplaced
<1>4. QED
  BY <1>2, <1>3

\* What is granted from a list of lasting roles lasts
LEMMA GrantedLast ==
    ASSUME NEW list, GrantsLast, IdsInOrder, \A k \in DOMAIN list : Lasting(roleDocs, list[k]),
           \A id \in granted' : id \in granted \/ \E k \in DOMAIN list : id = list[k].id,
           UNCHANGED roleDocs
    PROVE  GrantsLast'
<1> SUFFICES ASSUME NEW id \in granted' PROVE id \in DOMAIN roleDocs /\ IsFirst(roleDocs, id)
  BY DEF GrantsLast
<1>1. CASE id \in granted
  BY <1>1 DEF GrantsLast
<1>2. ASSUME NEW k \in DOMAIN list, id = list[k].id
      PROVE  id \in DOMAIN roleDocs /\ IsFirst(roleDocs, id)
  <2>1. PICK i \in DOMAIN roleDocs : list[k] = roleDocs[i] /\ IsFirst(roleDocs, i)
    BY DEF Lasting
  <2>2. id = i
    BY <1>2, <2>1 DEF IdsInOrder
  <2>3. QED
    BY <2>1, <2>2
<1>3. QED
  BY <1>1, <1>2

LEMMA SyncRolesKeeps ==
    ASSUME RolesInv, NEW r \in Request, NEW name \in Range(RoleName), ~Syncing(r),
           SyncRoles(r, name)
    PROVE  RolesInv'
<1> DEFINE q == [stage |-> "find", at |-> 1, name |-> name]
<1>1. q \in RoleRequest /\ AtRole(q) /\ q.stage = "find"
  BY FirstRequestType
<1>2. roleReq' = [roleReq EXCEPT ![r] = q] /\ roles' = <<>> /\ UNCHANGED <<roleDocs, granted>>
      /\ rolesMixed' = (rolesMixed \/ \E s \in Request : Syncing(s))
  BY DEF SyncRoles
<1> HIDE DEF q
<1>3. /\ roleReq' \in [Request -> RoleRequest]
      /\ \A s \in Request : AtRole(roleReq'[s])
      /\ roleReq'[r] = q
      /\ \A s \in Request : s # r => roleReq'[s] = roleReq[s]
  BY <1>1, <1>2, RequestReplaced DEF RolesInv
<1>4. RolesTyped'
  BY <1>2, <1>3 DEF RolesInv, RolesTyped, IdsInOrder
<1>5. CASE rolesMixed \/ \E s \in Request : Syncing(s)
  BY <1>2, <1>4, <1>5 DEF RolesInv
<1>6. CASE ~rolesMixed /\ \A s \in Request : ~Syncing(s)
  <2>1. AllLast' /\ GrantsLast'
    BY <1>2, <1>6 DEF RolesInv, Settled, AllLast, GrantsLast
  <2>2. CreatesNew'
    BY <1>1, <1>3, <1>6 DEF CreatesNew, Syncing
  <2>3. OneSyncs'
    BY <1>3, <1>6 DEF OneSyncs, Syncing
  <2>4. QED
    BY <1>4, <2>1, <2>2, <2>3 DEF RolesInv, Settled
<1>7. QED
  BY <1>5, <1>6

LEMMA BootRolesKeeps ==
    ASSUME RolesInv, NEW r \in Request, BootRoles(r) PROVE RolesInv'
<1> DEFINE q == [stage |-> "find", at |-> 1, name |-> None]
<1>1. q \in RoleRequest /\ AtRole(q) /\ q.stage = "find"
  BY FirstRequestType
<1>2. /\ roleReq' = [s \in Request |-> IF s = r THEN q ELSE NoRoleReq] /\ roles' = <<>>
      /\ UNCHANGED <<roleDocs, granted, rolesMixed>>
  BY DEF BootRoles
<1> HIDE DEF q
<1>3. \A s \in Request : roleReq'[s] = IF s = r THEN q ELSE NoRoleReq
  BY <1>2
<1>4. roleReq' \in [Request -> RoleRequest] /\ \A s \in Request : AtRole(roleReq'[s])
  BY <1>1, <1>2, <1>3, NoRoleReqType
<1>5. RolesTyped'
  BY <1>2, <1>4 DEF RolesInv, RolesTyped, IdsInOrder
<1>6. CASE ~rolesMixed
  <2>1. AllLast' /\ GrantsLast'
    BY <1>2, <1>6 DEF RolesInv, Settled, AllLast, GrantsLast
  <2>2. CreatesNew' /\ OneSyncs'
    BY <1>1, <1>3, NoRoleReqType DEF CreatesNew, OneSyncs, Syncing
  <2>3. QED
    BY <1>5, <2>1, <2>2 DEF RolesInv, Settled
<1>7. QED
  BY <1>2, <1>5, <1>6 DEF RolesInv

LEMMA GrantRoleKeeps ==
    ASSUME RolesInv, NEW r \in Request, NEW name \in Range(RoleName), GrantRole(r, name)
    PROVE  RolesInv'
<1>1. CASE roles = <<>>
  BY <1>1, SyncRolesKeeps DEF GrantRole
<1>2. CASE roles # <<>>
  <2>1. Grant(roles, name) /\ UNCHANGED <<roleDocs, roles, roleReq, rolesMixed>>
    BY <1>2 DEF GrantRole
  <2>2. /\ granted' \subseteq RoleId
        /\ \A id \in granted' : id \in granted \/ \E k \in DOMAIN roles : id = roles[k].id
    BY <2>1, GrantTakes DEF RolesInv, RolesTyped
  <2>3. RolesTyped'
    BY <2>1, <2>2 DEF RolesInv, RolesTyped, IdsInOrder
  <2>4. CASE ~rolesMixed
    <3>1. Settled /\ IdsInOrder
      BY <2>4 DEF RolesInv, RolesTyped
    <3>2. GrantsLast'
      BY <2>1, <2>2, <3>1, GrantedLast DEF Settled, AllLast
    <3>3. AllLast' /\ CreatesNew' /\ OneSyncs'
      BY <2>1, <3>1 DEF Settled, AllLast, Lasting, CreatesNew, OneSyncs, Syncing
    <3>4. QED
      BY <2>3, <3>2, <3>3 DEF RolesInv, Settled
  <2>5. QED
    BY <2>1, <2>3, <2>4 DEF RolesInv
<1>3. QED
  BY <1>1, <1>2

\* A lasting role is still one when another role is stored after it
LEMMA StoredLasts ==
    ASSUME RolesTyped, NEW role \in Role, roleDocs' = Append(roleDocs, role)
    PROVE  /\ \A i \in DOMAIN roleDocs : /\ i \in DOMAIN roleDocs'
                                         /\ roleDocs'[i] = roleDocs[i]
                                         /\ IsFirst(roleDocs, i) => IsFirst(roleDocs', i)
           /\ Len(roleDocs) + 1 \in DOMAIN roleDocs'
           /\ roleDocs'[Len(roleDocs) + 1] = role
           /\ DOMAIN roleDocs' = DOMAIN roleDocs \cup {Len(roleDocs) + 1}
           /\ ~HasName(roleDocs, role.name) => IsFirst(roleDocs', Len(roleDocs) + 1)
<1>1. roleDocs \in Seq(Role) /\ DOMAIN roleDocs = 1..Len(roleDocs) /\ Len(roleDocs) \in Nat
  BY DEF RolesTyped
<1>2. /\ DOMAIN roleDocs' = 1..(Len(roleDocs) + 1)
      /\ \A i \in DOMAIN roleDocs : roleDocs'[i] = roleDocs[i]
      /\ roleDocs'[Len(roleDocs) + 1] = role
  BY <1>1, OneMore
<1>3. ASSUME NEW i \in DOMAIN roleDocs, IsFirst(roleDocs, i) PROVE IsFirst(roleDocs', i)
  <2>1. \A j \in 1..(i - 1) : j \in DOMAIN roleDocs
    BY <1>1
  <2>2. QED
    BY <1>2, <1>3, <2>1 DEF IsFirst
<1>4. ASSUME ~HasName(roleDocs, role.name) PROVE IsFirst(roleDocs', Len(roleDocs) + 1)
  <2>1. \A j \in 1..((Len(roleDocs) + 1) - 1) : j \in DOMAIN roleDocs
    BY <1>1
  <2>2. QED
    BY <1>2, <1>4, <2>1 DEF IsFirst, HasName
<1>5. QED
  BY <1>1, <1>2, <1>3, <1>4

LEMMA FindRoleKeeps ==
    ASSUME RolesInv, NEW r \in Request, FindRole(r) PROVE RolesInv'
<1> DEFINE q == roleReq[r]
           name == RoleName[q.at]
<1>1. /\ q.stage = "find" /\ Syncing(r) /\ q \in RoleRequest
      /\ UNCHANGED <<roleDocs, rolesMixed>> /\ RolesTyped
  BY DEF FindRole, Syncing, RolesInv, RolesTyped
<1>2. CASE ~HasName(roleDocs, name)
  <2> DEFINE new == [q EXCEPT !.stage = "create"]
  <2>1. roleReq' = [roleReq EXCEPT ![r] = new] /\ UNCHANGED <<roles, granted>>
    BY <1>2 DEF FindRole, Stored
  <2>2. new \in RoleRequest /\ new.stage = "create" /\ new.at = q.at
    BY <1>1 DEF RoleRequest
  <2> HIDE DEF new
  <2>3. AtRole(new)
    BY <1>1, <2>2 DEF AtRole, RolesTyped
  <2>4. /\ roleReq' \in [Request -> RoleRequest]
        /\ \A s \in Request : AtRole(roleReq'[s])
        /\ roleReq'[r] = new
        /\ \A s \in Request : s # r => roleReq'[s] = roleReq[s]
    BY <1>1, <2>1, <2>2, <2>3, RequestReplaced
  <2>5. RolesTyped'
    BY <1>1, <2>1, <2>4 DEF RolesTyped, IdsInOrder
  <2>6. CASE ~rolesMixed
    <3>1. Settled
      BY <2>6 DEF RolesInv
    <3>2. AllLast' /\ GrantsLast'
      BY <1>1, <2>1, <3>1 DEF Settled, AllLast, Lasting, GrantsLast
    <3>3. CreatesNew'
      BY <1>1, <1>2, <2>2, <2>4, <3>1 DEF Settled, CreatesNew
    <3>4. OneSyncs'
      BY <1>1, <2>4, <3>1 DEF Settled, OneSyncs, Syncing
    <3>5. QED
      BY <2>5, <3>2, <3>3, <3>4 DEF RolesInv, Settled
  <2>7. QED
    BY <1>1, <2>5, <2>6 DEF RolesInv
<1>3. CASE HasName(roleDocs, name)
  <2>1. roleDocs \in Seq(Role) /\ roles \in Seq(Role) /\ IdsInOrder
    BY <1>1 DEF RolesTyped
  <2>2. PICK i \in DOMAIN roleDocs : RoleByName(roleDocs, name) = roleDocs[i] /\ IsFirst(roleDocs, i)
    BY <1>3, <2>1, RoleIsFound
  <2> DEFINE list == Append(roles, roleDocs[i])
  <2>3. roleDocs[i] \in Role /\ Lasting(roleDocs, roleDocs[i])
    BY <2>1, <2>2 DEF Lasting
  <2>4. /\ list \in Seq(Role) /\ roles \o <<roleDocs[i]>> = list
        /\ DOMAIN list = 1..(Len(roles) + 1)
        /\ \A k \in DOMAIN roles : list[k] = roles[k]
        /\ list[Len(roles) + 1] = roleDocs[i]
    BY <2>1, <2>3, OneMore
  <2>5. NextRole(r, roles \o <<roleDocs[i]>>)
    <3>1. Stored(name) = <<roleDocs[i]>> /\ <<roleDocs[i]>> # <<>>
      BY <1>3, <2>2 DEF Stored
    <3>2. QED
      BY <3>1 DEF FindRole
  <2>6. NextRole(r, list)
    BY <2>4, <2>5
  <2> HIDE DEF list
  <2>7. /\ roles' = list
        /\ roleReq' \in [Request -> RoleRequest]
        /\ \A s \in Request : AtRole(roleReq'[s])
        /\ roleReq'[r].stage # "create"
        /\ \A s \in Request : s # r => roleReq'[s] = roleReq[s]
        /\ granted' \subseteq RoleId
        /\ \A id \in granted' : id \in granted \/ \E k \in DOMAIN list : id = list[k].id
    BY <1>1, <2>4, <2>6, NextRoleMoves
  <2>8. RolesTyped'
    BY <1>1, <2>4, <2>7 DEF RolesTyped, IdsInOrder
  <2>9. CASE ~rolesMixed
    <3>1. Settled
      BY <2>9 DEF RolesInv
    <3>2. \A k \in DOMAIN list : Lasting(roleDocs, list[k])
      <4>1. DOMAIN roles = 1..Len(roles) /\ Len(roles) \in Nat
        BY <2>1
      <4>2. \A k \in DOMAIN list : k \in DOMAIN roles \/ k = Len(roles) + 1
        BY <2>4, <4>1
      <4>3. QED
        BY <2>3, <2>4, <3>1, <4>2 DEF Settled, AllLast
    <3>3. AllLast'
      BY <1>1, <2>7, <3>2 DEF AllLast, Lasting
    <3>4. GrantsLast'
      BY <1>1, <2>1, <2>7, <3>1, <3>2, GrantedLast DEF Settled
    <3>5. CreatesNew'
      BY <1>1, <2>7, <3>1 DEF Settled, CreatesNew
    <3>6. OneSyncs'
      BY <1>1, <2>7, <3>1 DEF Settled, OneSyncs, Syncing
    <3>7. QED
      BY <2>8, <3>3, <3>4, <3>5, <3>6 DEF RolesInv, Settled
  <2>10. QED
    BY <1>1, <2>8, <2>9 DEF RolesInv
<1>4. QED
  BY <1>2, <1>3

LEMMA CreateRoleKeeps ==
    ASSUME RolesInv, NEW r \in Request, CreateRole(r) PROVE RolesInv'
<1> DEFINE q == roleReq[r]
           role == [id |-> Len(roleDocs) + 1, name |-> RoleName[q.at]]
           list == Append(roles, role)
<1>1. /\ q.stage = "create" /\ Syncing(r) /\ q \in RoleRequest /\ RolesTyped
      /\ roleDocs' = Append(roleDocs, role) /\ NextRole(r, list)
      /\ rolesMixed' = rolesMixed /\ Len(roleDocs) < MaxRole
  BY DEF CreateRole, Syncing, RolesInv, RolesTyped
<1>2. roleDocs \in Seq(Role) /\ roles \in Seq(Role) /\ Len(roleDocs) \in Nat /\ IdsInOrder
  BY <1>1 DEF RolesTyped
<1>3. role \in Role /\ role.id = Len(roleDocs) + 1 /\ role.name = RoleName[q.at]
  <2>1. RoleName[q.at] \in Range(RoleName)
    BY <1>1, AtName
  <2>2. Len(roleDocs) + 1 \in RoleId
    BY <1>1, <1>2, RolesAssumption DEF RoleId
  <2>3. QED
    BY <2>1, <2>2 DEF Role
<1> HIDE DEF role
<1>4. /\ list \in Seq(Role)
      /\ DOMAIN list = 1..(Len(roles) + 1)
      /\ \A k \in DOMAIN roles : list[k] = roles[k]
      /\ list[Len(roles) + 1] = role
  BY <1>2, <1>3, OneMore
<1> HIDE DEF list
<1>5. /\ \A i \in DOMAIN roleDocs : /\ i \in DOMAIN roleDocs'
                                    /\ roleDocs'[i] = roleDocs[i]
                                    /\ IsFirst(roleDocs, i) => IsFirst(roleDocs', i)
      /\ Len(roleDocs) + 1 \in DOMAIN roleDocs'
      /\ roleDocs'[Len(roleDocs) + 1] = role
      /\ DOMAIN roleDocs' = DOMAIN roleDocs \cup {Len(roleDocs) + 1}
      /\ ~HasName(roleDocs, role.name) => IsFirst(roleDocs', Len(roleDocs) + 1)
  BY <1>1, <1>3, StoredLasts
<1>6. /\ roles' = list
      /\ roleReq' \in [Request -> RoleRequest]
      /\ \A s \in Request : AtRole(roleReq'[s])
      /\ roleReq'[r].stage # "create"
      /\ \A s \in Request : s # r => roleReq'[s] = roleReq[s]
      /\ granted' \subseteq RoleId
      /\ \A id \in granted' : id \in granted \/ \E k \in DOMAIN list : id = list[k].id
  BY <1>1, <1>4, NextRoleMoves
<1>7. roleDocs' \in Seq(Role)
  BY <1>1, <1>2, <1>3, OneMore
<1>8. IdsInOrder'
  BY <1>2, <1>3, <1>5 DEF IdsInOrder
<1>9. RolesTyped'
  BY <1>1, <1>4, <1>6, <1>7, <1>8 DEF RolesTyped
<1>10. CASE ~rolesMixed
  <2>1. Settled
    BY <1>10 DEF RolesInv
  <2>2. IsFirst(roleDocs', Len(roleDocs) + 1)
    BY <1>1, <1>3, <1>5, <2>1 DEF Settled, CreatesNew
  <2>3. \A k \in DOMAIN list : Lasting(roleDocs', list[k])
    <3>1. Lasting(roleDocs', role)
      BY <1>5, <2>2 DEF Lasting
    <3>2. \A k \in DOMAIN roles : Lasting(roleDocs', roles[k])
      <4> SUFFICES ASSUME NEW k \in DOMAIN roles PROVE Lasting(roleDocs', roles[k])
        OBVIOUS
      <4>1. PICK i \in DOMAIN roleDocs : roles[k] = roleDocs[i] /\ IsFirst(roleDocs, i)
        BY <2>1 DEF Settled, AllLast, Lasting
      <4>2. QED
        BY <1>5, <4>1 DEF Lasting
    <3>3. DOMAIN roles = 1..Len(roles) /\ Len(roles) \in Nat
      BY <1>2
    <3>4. \A k \in DOMAIN list : k \in DOMAIN roles \/ k = Len(roles) + 1
      BY <1>4, <3>3
    <3>5. QED
      BY <1>4, <3>1, <3>2, <3>4
  <2>4. AllLast'
    BY <1>6, <2>3 DEF AllLast
  <2>5. GrantsLast'
    <3> SUFFICES ASSUME NEW id \in granted' PROVE id \in DOMAIN roleDocs' /\ IsFirst(roleDocs', id)
      BY DEF GrantsLast
    <3>1. CASE id \in granted
      BY <1>5, <2>1, <3>1 DEF Settled, GrantsLast
    <3>2. ASSUME NEW k \in DOMAIN list, id = list[k].id
          PROVE  id \in DOMAIN roleDocs' /\ IsFirst(roleDocs', id)
      <4>1. PICK i \in DOMAIN roleDocs' : list[k] = roleDocs'[i] /\ IsFirst(roleDocs', i)
        BY <2>3 DEF Lasting
      <4>2. id = i
        BY <1>8, <3>2, <4>1 DEF IdsInOrder
      <4>3. QED
        BY <4>1, <4>2
    <3>3. QED
      BY <1>6, <3>1, <3>2
  <2>6. CreatesNew'
    <3> SUFFICES ASSUME NEW s \in Request, roleReq'[s].stage = "create" PROVE FALSE
      BY DEF CreatesNew
    <3>1. s # r /\ roleReq[s].stage = "create"
      BY <1>6
    <3>2. QED
      BY <1>1, <2>1, <3>1 DEF Settled, OneSyncs, Syncing
  <2>7. OneSyncs'
    BY <1>1, <1>6, <2>1 DEF Settled, OneSyncs, Syncing
  <2>8. QED
    BY <1>9, <2>4, <2>5, <2>6, <2>7 DEF RolesInv, Settled
<1>11. QED
  BY <1>1, <1>9, <1>10 DEF RolesInv

LEMMA SyncFailsKeeps ==
    ASSUME RolesInv, NEW r \in Request, SyncFails(r) PROVE RolesInv'
<1>1. /\ roleReq' = [roleReq EXCEPT ![r] = NoRoleReq]
      /\ UNCHANGED <<roleDocs, roles, granted, rolesMixed>> /\ RolesTyped
  BY DEF SyncFails, RolesInv
<1>2. /\ roleReq' \in [Request -> RoleRequest]
      /\ \A s \in Request : AtRole(roleReq'[s])
      /\ roleReq'[r] = NoRoleReq
      /\ \A s \in Request : s # r => roleReq'[s] = roleReq[s]
  BY <1>1, NoRoleReqType, RequestReplaced
<1>3. RolesTyped'
  BY <1>1, <1>2 DEF RolesTyped, IdsInOrder
<1>4. Settled => Settled'
  BY <1>1, <1>2, NoRoleReqType DEF Settled, AllLast, GrantsLast, CreatesNew, OneSyncs, Syncing
<1>5. QED
  BY <1>1, <1>3, <1>4 DEF RolesInv

LEMMA RolesStart == RolesInit => RolesInv
<1> SUFFICES ASSUME RolesInit PROVE RolesInv
  OBVIOUS
<1>1. \A r \in Request : roleReq[r] = NoRoleReq
  BY DEF RolesInit
<1>2. roleReq \in [Request -> RoleRequest] /\ \A r \in Request : AtRole(roleReq[r])
  BY <1>1, NoRoleReqType DEF RolesInit
<1>3. RolesTyped
  <2>1. roleDocs = <<>> /\ roles = <<>> /\ granted = {} /\ rolesMixed = FALSE
    BY DEF RolesInit
  <2>2. roleDocs \in Seq(Role) /\ roles \in Seq(Role)
    BY <2>1
  <2>3. IdsInOrder
    BY <2>1 DEF IdsInOrder
  <2>4. QED
    BY <1>2, <2>1, <2>2, <2>3 DEF RolesTyped
<1>4. Settled
  BY <1>1, NoRoleReqType DEF RolesInit, Settled, AllLast, GrantsLast, CreatesNew, OneSyncs, Syncing
<1>5. QED
  BY <1>3, <1>4 DEF RolesInv

LEMMA RolesStep == RolesInv /\ [RolesNext]_roleVars => RolesInv'
<1> SUFFICES ASSUME RolesInv, [RolesNext]_roleVars PROVE RolesInv'
  OBVIOUS
<1>1. CASE UNCHANGED roleVars
  <2>1. UNCHANGED <<roleDocs, roles, roleReq, granted, rolesMixed>>
    BY <1>1 DEF roleVars
  <2>2. RolesTyped'
    BY <2>1 DEF RolesInv, RolesTyped, IdsInOrder
  <2>3. Settled => Settled'
    BY <2>1 DEF Settled, AllLast, GrantsLast, CreatesNew, OneSyncs, Syncing
  <2>4. QED
    BY <2>1, <2>2, <2>3 DEF RolesInv
<1>2. ASSUME NEW r \in Request,
             \/ BootRoles(r) \/ FindRole(r) \/ CreateRole(r) \/ SyncFails(r)
             \/ \E name \in Range(RoleName) : GrantRole(r, name)
      PROVE  RolesInv'
  BY <1>2, BootRolesKeeps, FindRoleKeeps, CreateRoleKeeps, SyncFailsKeeps, GrantRoleKeeps
<1>3. QED
  BY <1>1, <1>2 DEF RolesNext

LEMMA RolesAlways == RolesSpec => []RolesInv
BY RolesStart, RolesStep, PTL DEF RolesSpec

-----------------------------------------------------------------------------
(* Roles: the theorems.                                                    *)

\* The roles, their documents and the requests for them are well-typed (RoleService).
THEOREM RolesTypeCorrect == RolesSpec => []RolesTypeOK
<1>1. RolesInv => RolesTypeOK
  BY RolesTypedIsTypeOK DEF RolesInv
<1>2. QED
  BY <1>1, RolesAlways, PTL

\* A role a user was given is the one every later synchronisation finds by its name (syncRoles,
\* role.service.ts), unless two synchronisations have overlapped.
THEOREM GrantsAlwaysHold == RolesSpec => []GrantsHold
<1>1. RolesInv => GrantsHold
  <2> SUFFICES ASSUME RolesTyped, GrantsLast, NEW id \in granted
               PROVE  \E i \in DOMAIN roleDocs :
                         roleDocs[i].id = id /\ RoleByName(roleDocs, roleDocs[i].name).id = id
    BY DEF RolesInv, GrantsHold, Settled
  <2>1. id \in DOMAIN roleDocs /\ IsFirst(roleDocs, id)
    BY DEF GrantsLast
  <2>2. roleDocs[id].id = id /\ roleDocs \in Seq(Role)
    BY <2>1 DEF RolesTyped, IdsInOrder
  <2>3. RoleByName(roleDocs, roleDocs[id].name) = roleDocs[id]
    BY <2>1, <2>2, FirstIsFound
  <2>4. QED
    BY <2>1, <2>2, <2>3
<1>2. QED
  BY <1>1, RolesAlways, PTL

=============================================================================
