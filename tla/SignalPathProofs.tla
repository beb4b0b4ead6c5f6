--------------------------- MODULE SignalPathProofs ---------------------------
(***************************************************************************)
(* Proofs about what the page keeps in its storage and about the way of    *)
(* the device's messages: the shared login state stays coherent            *)
(* (AccountIsCoherent) for any number of visits, tasks, users and kept     *)
(* login states; the room that is stored is one that the server lets the   *)
(* page start (JoinedRoomStarts), for any rooms, lifetime and bounds; and, *)
(* for any size of the log and any number of sessions and messages, a      *)
(* browser session hears exactly what it is told (AnswersAreHeard) and the *)
(* diagnostics say nothing untrue (DiagnosticsTrue).                       *)
(*                                                                         *)
(* The library's induction theorems take an operator and so cannot be      *)
(* used; CountingUp is induction over a set of numbers instead, and with   *)
(* it the fold over the log (Applied) is reasoned about event by event.    *)
(***************************************************************************)
EXTENDS SignalPath, ProductAccount, SequenceTheorems, FiniteSetTheorems, NaturalsInduction,
        WellFoundedInduction, TLAPS

-----------------------------------------------------------------------------
(* The login state.                                                          *)

\* A login state of one user whose device, if it has one, belongs to its client.
OneUser(state) == state \in LoginStates /\ state.token = state.user
OneDevice(state) == state.device # Nobody => state.device = state.client

Actions == {"send-mobile-code", "mobile-login", "devices", "logout"}

Tasks ==
  [id : Nat, visit : Visits, action : Actions, at : {"ensure", "init", "request"}, state : LoginStates]

Types ==
  /\ store \in LoginStates \union {Nobody}
  /\ clients \in Nat /\ started \in Nat
  /\ place \in [Visits -> {"never", "on", "left"}]
  /\ DOMAIN status = Visits /\ DOMAIN busy = Visits
  /\ tasks \subseteq Tasks

\* What is stored, and what a task will write when its device is registered.
Paired ==
  /\ OneUser(Stored) /\ OneDevice(Stored)
  /\ \A t \in tasks :
       OneUser(t.state) /\ (t.at \in {"ensure", "init"} => t.state.client # Nobody)

\* Tasks belong to visits there have been, and a page that is not there is not busy.
Owned ==
  /\ \A t \in tasks : place[t.visit] # "never"
  /\ \A v \in Visits : ~On(v) => busy[v] = Nobody
  /\ BusyIsRunning

\* As long as the first visit is the only one, it shows what is stored, and every device it
\* has registered will be shown.
Lone == place[1] = "on" /\ (\A v \in Visits : v > 1 => place[v] = "never")
Current == Lone => status[1] = Summary(Stored) /\ \A t \in tasks : t.at # "init"

Inv == Types /\ Paired /\ Owned /\ Current

-----------------------------------------------------------------------------
(* Facts about login states.                                                 *)

LEMMA EmptyIsOne == Empty \in LoginStates /\ OneUser(Empty) /\ OneDevice(Empty)
  BY DEF Empty, LoginStates, UserNames, ClientNames, OneUser, OneDevice

LEMMA StoredType == ASSUME Types PROVE Stored \in LoginStates
  BY EmptyIsOne DEF Types, Stored

\* Writing a login state makes it the stored one.
LEMMA Written ==
  ASSUME NEW state \in LoginStates, store' = state
  PROVE  Stored' = state
  BY NobodyAssumption DEF Stored

LEMMA ProfileIsOne ==
  ASSUME NEW state, OneUser(state), clients \in Nat
  PROVE  OneUser(Profile(state)) /\ Profile(state).client # Nobody
  BY NobodyAssumption DEF Profile, OneUser, LoginStates, ClientNames

LEMMA RegisteredIsOne ==
  ASSUME NEW state, OneUser(state)
  PROVE  OneUser(Registered(state)) /\ OneDevice(Registered(state))
  BY DEF Registered, OneUser, OneDevice, LoginStates

LEMMA SignedInIsOne ==
  ASSUME Types, Paired, NEW u \in Users, NEW c \in ClientNames
  PROVE  OneUser(SignedIn(u, c)) /\ OneDevice(SignedIn(u, c))
  BY StoredType DEF Paired, OneUser, OneDevice, SignedIn, LoginStates, UserNames

-----------------------------------------------------------------------------
(* What the parts of a step keep.                                            *)

\* A page that is there is told what is stored now.
LEMMA Shown ==
  ASSUME Types, NEW v \in Visits, place[v] # "never", NEW state, Show(v, state)
  PROVE  DOMAIN status' = Visits /\ (Lone => status'[1] = Summary(state))
  BY VisitsAssumption DEF Types, Show, On, Lone, Visits

\* A visit that is there begins a task.
LEMMA BeginKeeps ==
  ASSUME Inv, NEW v \in Visits, On(v), NEW action \in Actions, NEW state, OneUser(state),
         NEW at \in {"ensure", "init", "request"},
         at \in {"ensure", "init"} => state.client # Nobody,
         Lone => at # "init",
         Begin(v, action, at, state), UNCHANGED <<store, place>>, clients' \in Nat,
         DOMAIN status' = Visits, Lone => status'[1] = Summary(Stored)
  PROVE  Inv'
  <1> DEFINE new == [id |-> started', visit |-> v, action |-> action, at |-> at, state |-> state]
  <1>1. /\ tasks' = tasks \union {new} /\ started' = started + 1
        /\ busy' = [busy EXCEPT ![v] = action]
    BY DEF Begin
  <1>2. Types'
    BY <1>1 DEF Inv, Types, Tasks, OneUser
  <1>3. Stored' = Stored /\ Lone' = Lone
    BY DEF Stored, Lone
  <1>4. Paired'
    BY <1>1, <1>3 DEF Inv, Paired
  <1>5. Owned'
    <2>1. new \in tasks' /\ new.visit = v /\ new.action = action
      BY <1>1
    <2>2. ASSUME NEW w \in Visits, busy'[w] # Nobody
          PROVE  \E t \in tasks' : t.visit = w /\ t.action = busy'[w]
      <3>1. CASE w = v
        BY <1>1, <2>1, <3>1 DEF Inv, Types
      <3>2. CASE w # v
        BY <1>1, <2>2, <3>2 DEF Inv, Types, Owned, BusyIsRunning
      <3> QED  BY <3>1, <3>2
    <2>3. \A t \in tasks' : place'[t.visit] # "never"
      BY <1>1, <2>1 DEF Inv, Owned, On
    <2>4. \A w \in Visits : ~On(w)' => busy'[w] = Nobody
      BY <1>1 DEF Inv, Types, Owned, On
    <2> QED  BY <2>2, <2>3, <2>4 DEF Owned, BusyIsRunning
  <1>6. Current'
    BY <1>1, <1>3 DEF Inv, Current, Summary, Complete
  <1> QED  BY <1>2, <1>4, <1>5, <1>6 DEF Inv

\* A task ends; what is stored by then is shown if the first visit is the only one.
LEMMA EndKeeps ==
  ASSUME Inv, NEW t \in tasks, End(t), UNCHANGED <<clients, place>>,
         store' \in LoginStates \union {Nobody}, (OneUser(Stored) /\ OneDevice(Stored))',
         DOMAIN status' = Visits, Lone => status'[1] = Summary(Stored)'
  PROVE  Inv'
  <1>1. /\ tasks' = tasks \ {t} /\ started' = started
        /\ busy' = IF On(t.visit) THEN [busy EXCEPT ![t.visit] = Nobody] ELSE busy
    BY DEF End
  <1>2. Types'
    BY <1>1 DEF Inv, Types
  <1>3. Lone' = Lone
    BY DEF Lone
  <1>4. Paired'
    BY <1>1 DEF Inv, Paired
  <1>5. Owned'
    BY <1>1 DEF Inv, Types, Owned, BusyIsRunning, On
  <1>6. Current'
    BY <1>1, <1>3 DEF Inv, Current
  <1> QED  BY <1>2, <1>4, <1>5, <1>6 DEF Inv

-----------------------------------------------------------------------------
\* Every action keeps the invariant, those of the visits first.

LEMMA VisitKeeps == ASSUME Inv, NEW v \in Visits, Visit(v) PROVE Inv'
  <1>1. /\ place' = [place EXCEPT ![v] = "on"] /\ place[v] = "never"
        /\ \A w \in Visits : w < v => place[w] # "never"
        /\ status' = [status EXCEPT ![v] = Summary(Stored)]
        /\ UNCHANGED <<store, clients, busy, tasks, started>>
    BY DEF Visit
  <1>2. Types'
    BY <1>1 DEF Inv, Types
  <1>3. Stored' = Stored /\ Paired'
    BY <1>1 DEF Inv, Paired, Stored
  <1>4. Owned'
    BY <1>1 DEF Inv, Types, Owned, BusyIsRunning, On, Tasks
  <1>5. Lone' => v = 1 /\ tasks = {}
    BY <1>1, VisitsAssumption DEF Inv, Types, Owned, Lone, Visits, Tasks
  <1>6. Current'
    BY <1>1, <1>3, <1>5 DEF Inv, Types, Current, Summary, Complete
  <1> QED  BY <1>2, <1>3, <1>4, <1>6 DEF Inv

LEMMA LeaveKeeps == ASSUME Inv, NEW v \in Visits, Leave(v) PROVE Inv'
  <1>1. /\ place' = [place EXCEPT ![v] = "left"] /\ place[v] = "on"
        /\ status' = [status EXCEPT ![v] = Summary(Empty)]
        /\ busy' = [busy EXCEPT ![v] = Nobody]
        /\ UNCHANGED <<store, clients, tasks, started>>
    BY DEF Leave, Acts, On
  <1>2. Types'
    BY <1>1 DEF Inv, Types
  <1>3. Paired'
    BY <1>1 DEF Inv, Paired, Stored
  <1>4. Owned'
    BY <1>1 DEF Inv, Types, Owned, BusyIsRunning, On, Tasks
  <1>5. ~Lone'
    BY <1>1, VisitsAssumption DEF Inv, Types, Lone, Visits
  <1> QED  BY <1>2, <1>3, <1>4, <1>5 DEF Inv, Current

LEMMA LoginFormKeeps ==
  ASSUME Inv, NEW v \in Visits, NEW action \in Actions, LoginForm(v, action) PROVE Inv'
  <1>1. On(v) /\ UNCHANGED <<store, place>> /\ OneUser(Stored)
    BY DEF LoginForm, Acts, Inv, Paired
  <1>2. CASE Stored.device # Nobody
    <2>1. /\ Begin(v, action, "request", Stored) /\ UNCHANGED clients
          /\ Show(v, Stored) \/ UNCHANGED <<status, attempted>>
      BY <1>2 DEF LoginForm
    <2>2. DOMAIN status' = Visits /\ (Lone => status'[1] = Summary(Stored))
      BY <1>1, <2>1, Shown DEF Inv, Types, Current, On
    <2> QED  BY <1>1, <2>1, <2>2, BeginKeeps DEF Inv, Types
  <1>3. CASE Stored.device = Nobody
    <2> DEFINE at == IF status[v].device = Nobody THEN "ensure" ELSE "init"
    <2>1. /\ Begin(v, action, at, Profile(Stored)) /\ UNCHANGED <<status, attempted>>
          /\ clients' = IF Stored.client = Nobody THEN clients + 1 ELSE clients
      BY <1>3 DEF LoginForm
    <2>2. OneUser(Profile(Stored)) /\ Profile(Stored).client # Nobody
      BY <1>1, ProfileIsOne DEF Inv, Types
    <2>3. Lone => at # "init"
      <3>1. Lone => v = 1
        BY <1>1, VisitsAssumption DEF Inv, Types, Lone, On, Visits
      <3> QED  BY <1>3, <3>1 DEF Inv, Current, Summary
    <2>4. at \in {"ensure", "init", "request"} /\ clients' \in Nat
      BY <2>1 DEF Inv, Types
    <2>5. DOMAIN status' = Visits /\ (Lone => status'[1] = Summary(Stored))
      BY <2>1 DEF Inv, Types, Current
    <2> HIDE DEF at
    <2> QED  BY <1>1, <2>1, <2>2, <2>3, <2>4, <2>5, BeginKeeps
  <1> QED  BY <1>2, <1>3

LEMMA ImportKeeps ==
  ASSUME Inv, NEW v \in Visits, NEW state \in Exports, Import(v, state) PROVE Inv'
  <1>1. /\ On(v) /\ store' = state /\ started' = started + 1
        /\ Show(v, state) /\ UNCHANGED <<clients, place, busy, tasks>>
    BY DEF Import, Acts
  <1>2. OneUser(state) /\ OneDevice(state) /\ Stored' = state
    BY <1>1, ExportsAssumption, Written DEF OneUser, OneDevice
  <1>3. DOMAIN status' = Visits /\ (Lone => status'[1] = Summary(state))
    BY <1>1, Shown DEF Inv, Types, On
  <1>4. Types'
    BY <1>1, <1>2, <1>3 DEF Inv, Types, OneUser
  <1>5. Paired'
    BY <1>1, <1>2 DEF Inv, Paired, OneUser, OneDevice
  <1>6. Owned'
    BY <1>1 DEF Inv, Owned, BusyIsRunning, On
  <1>7. Current'
    BY <1>1, <1>2, <1>3 DEF Inv, Current, Lone, Summary, Complete
  <1> QED  BY <1>4, <1>5, <1>6, <1>7 DEF Inv

\* Loading the devices changes nothing else.
LEMMA LoadKeeps ==
  ASSUME Inv, NEW v \in Visits, On(v), LoadDevices(v), UNCHANGED <<store, clients, place, status>>
  PROVE  Inv'
  <1>1. /\ OneUser(Stored) /\ DOMAIN status' = Visits /\ clients' \in Nat
        /\ Lone => status'[1] = Summary(Stored)
    BY DEF Inv, Types, Paired, Current
  <1>2. CASE Complete(Stored)
    <2>1. Begin(v, "devices", "request", Stored)
      BY <1>2 DEF LoadDevices
    <2> QED  BY <1>1, <2>1, BeginKeeps DEF Actions
  <1>3. CASE ~Complete(Stored)
    <2>1. started' = started + 1 /\ busy' = [busy EXCEPT ![v] = Nobody] /\ UNCHANGED tasks
      BY <1>3 DEF LoadDevices
    <2>2. Types'
      BY <2>1 DEF Inv, Types
    <2>3. Owned'
      BY <2>1 DEF Inv, Types, Owned, BusyIsRunning, On
    <2>4. Paired' /\ Current'
      BY <2>1 DEF Inv, Paired, Current, Stored, Lone, Summary, Complete, OneUser, OneDevice
    <2> QED  BY <2>2, <2>3, <2>4 DEF Inv
  <1> QED  BY <1>2, <1>3

-----------------------------------------------------------------------------
\* The steps of the tasks.

\* A registered device is shown by the visit that knew of none.
LEMMA DeviceCreatedKeeps == ASSUME Inv, NEW t \in tasks, DeviceCreated(t) PROVE Inv'
  <1> DEFINE state == Registered(t.state)
             next  == [t EXCEPT !.at = "request", !.state = state]
  <1>1. /\ t \in Tasks /\ t.visit \in Visits /\ place[t.visit] # "never"
        /\ t.at \in {"ensure", "init"} /\ OneUser(t.state)
    BY DEF DeviceCreated, Inv, Types, Owned, Paired, Tasks
  <1>2. OneUser(state) /\ OneDevice(state) /\ state \in LoginStates
    BY <1>1, RegisteredIsOne DEF OneUser
  <1>3. /\ store' = state /\ UNCHANGED <<clients, place, busy, started>>
        /\ IF t.at = "ensure" THEN Show(t.visit, state) ELSE UNCHANGED <<status, attempted>>
    BY DEF DeviceCreated, Proceed
  <1>4. Stored' = state /\ store' # Nobody
    BY <1>2, <1>3, Written, NobodyAssumption
  <1>5. tasks' = (tasks \ {t}) \union {next}
    BY <1>3, <1>4 DEF DeviceCreated, Proceed
  <1>6. /\ next \in Tasks /\ next.visit = t.visit /\ next.action = t.action
        /\ next.at = "request" /\ next.state = state
    BY <1>1, <1>2 DEF Tasks
  <1>7. DOMAIN status' = Visits /\ (Lone => status'[1] = Summary(state))
    BY <1>1, <1>3, Shown DEF Inv, Types, Current
  <1> HIDE DEF state, next
  <1>8. Types'
    BY <1>2, <1>3, <1>5, <1>6, <1>7 DEF Inv, Types
  <1>9. Paired'
    BY <1>2, <1>4, <1>5, <1>6 DEF Inv, Paired, OneUser, OneDevice
  <1>10. Owned'
    BY <1>1, <1>3, <1>5, <1>6 DEF Inv, Types, Owned, BusyIsRunning, On
  <1>11. Current'
    BY <1>3, <1>4, <1>5, <1>6, <1>7 DEF Inv, Current, Lone, Summary, Complete
  <1> QED  BY <1>8, <1>9, <1>10, <1>11 DEF Inv

\* A task that ends and writes what it shows.
LEMMA EndShowsKeeps ==
  ASSUME Inv, NEW t \in tasks, End(t), UNCHANGED <<clients, place>>,
         NEW state, OneUser(state), OneDevice(state), Show(t.visit, state),
         store' \in LoginStates \union {Nobody}, Stored' = state
  PROVE  Inv'
  <1>1. t.visit \in Visits /\ place[t.visit] # "never"
    BY DEF Inv, Types, Owned, Tasks
  <1>2. DOMAIN status' = Visits /\ (Lone => status'[1] = Summary(state))
    BY <1>1, Shown DEF Inv
  <1>3. (OneUser(Stored) /\ OneDevice(Stored))' /\ (Lone => status'[1] = Summary(Stored)')
    BY <1>2 DEF OneUser, OneDevice, Summary, Complete
  <1> QED  BY <1>2, <1>3, EndKeeps

LEMMA MobileLoginKeeps ==
  ASSUME Inv, NEW t \in tasks, NEW u \in Users, NEW c, MobileLogin(t, u, c) PROVE Inv'
  <1> DEFINE state == SignedIn(u, c)
  <1>1. /\ End(t) /\ UNCHANGED <<clients, place>> /\ store' = state /\ Show(t.visit, store')
        /\ c \in {t.state.client, Nobody}
    BY DEF MobileLogin
  <1>2. c \in ClientNames
    BY <1>1 DEF Inv, Paired, OneUser, LoginStates, ClientNames
  <1>3. OneUser(state) /\ OneDevice(state)
    BY <1>2, SignedInIsOne DEF Inv
  <1> HIDE DEF state
  <1>4. Stored' = state /\ state \in LoginStates
    BY <1>1, <1>3, Written DEF OneUser
  <1> QED  BY <1>1, <1>3, <1>4, EndShowsKeeps

LEMMA TaskEndsKeeps ==
  ASSUME Inv, NEW t \in tasks, CodeSent(t) \/ DevicesLoaded(t) \/ LoggedOut(t) \/ Fails(t) PROVE Inv'
  <1>1. CASE CodeSent(t)
    <2>1. /\ End(t) /\ Show(t.visit, Stored) /\ UNCHANGED <<store, clients, place>>
          /\ OneUser(Stored) /\ OneDevice(Stored) /\ Stored' = Stored
      BY <1>1 DEF CodeSent, Inv, Paired, Stored
    <2> QED  BY <2>1, EndShowsKeeps DEF Inv, Types
  <1>2. CASE LoggedOut(t)
    <2>1. /\ End(t) /\ Show(t.visit, Empty) /\ UNCHANGED <<clients, place>>
          /\ store' = Nobody /\ Stored' = Empty
      BY <1>2 DEF LoggedOut, Stored
    <2> QED  BY <2>1, EmptyIsOne, EndShowsKeeps
  <1>3. CASE DevicesLoaded(t) \/ Fails(t)
    <2>1. /\ End(t) /\ UNCHANGED <<store, clients, place, status>>
          /\ Stored' = Stored
      BY <1>3 DEF DevicesLoaded, Fails, Stored
    <2>2. /\ (OneUser(Stored) /\ OneDevice(Stored))' /\ DOMAIN status' = Visits
          /\ Lone => status'[1] = Summary(Stored)'
      BY <2>1 DEF Inv, Types, Paired, Current, OneUser, OneDevice, Summary, Complete
    <2> QED  BY <2>1, <2>2, EndKeeps DEF Inv, Types
  <1> QED  BY <1>1, <1>2, <1>3

-----------------------------------------------------------------------------
LEMMA InitHolds == ASSUME AccountInit PROVE Inv
  <1>1. Types
    BY ExportsAssumption DEF AccountInit, Types
  <1>2. Paired
    BY EmptyIsOne, ExportsAssumption, NobodyAssumption
    DEF AccountInit, Paired, Stored, OneUser, OneDevice
  <1>3. Owned /\ Current
    BY VisitsAssumption DEF AccountInit, Owned, BusyIsRunning, Current, Lone, Visits
  <1> QED  BY <1>1, <1>2, <1>3 DEF Inv

LEMMA StepKeeps == ASSUME Inv, [AccountNext]_accountVars PROVE Inv'
  <1>1. ASSUME NEW v \in Visits, AutoLoad(v) \/ Refresh(v) PROVE Inv'
    BY <1>1, LoadKeeps DEF AutoLoad, Refresh, Due, LoggedIn, Acts
  <1>2. ASSUME NEW v \in Visits, Logout(v) PROVE Inv'
    <2>1. /\ On(v) /\ Begin(v, "logout", "request", Empty)
          /\ UNCHANGED <<store, clients, place, status>>
      BY <1>2 DEF Logout, Acts
    <2>2. DOMAIN status' = Visits /\ clients' \in Nat /\ (Lone => status'[1] = Summary(Stored))
      BY <2>1 DEF Inv, Types, Current
    <2> QED  BY <2>1, <2>2, EmptyIsOne, BeginKeeps DEF Actions
  <1>3. CASE UNCHANGED accountVars
    <2>1. Types' /\ Owned'
      BY <1>3 DEF accountVars, visitVars, Inv, Types, Owned, BusyIsRunning, On
    <2>2. Paired' /\ Current'
      BY <1>3 DEF accountVars, visitVars, Inv, Paired, Current, Stored, Lone, Summary, Complete,
                  OneUser, OneDevice
    <2> QED  BY <2>1, <2>2 DEF Inv
  <1>4. ASSUME NEW v \in Visits,
               \/ \E action \in {"send-mobile-code", "mobile-login"} : LoginForm(v, action)
               \/ \E state \in Exports : Import(v, state)
        PROVE  Inv'
    BY <1>4, LoginFormKeeps, ImportKeeps DEF Actions
  <1>5. ASSUME NEW t \in tasks,
               \E u \in Users, c \in {t.state.client, Nobody} : MobileLogin(t, u, c)
        PROVE  Inv'
    BY <1>5, MobileLoginKeeps
  <1> QED
    BY <1>1, <1>2, <1>3, <1>4, <1>5, VisitKeeps, LeaveKeeps, DeviceCreatedKeeps, TaskEndsKeeps
    DEF AccountNext

\* The inductive invariant of the account: what is stored, and what the tasks will still store,
\* is of one user and one device (useProductController.ts).
THEOREM InvInductive == AccountSpec => []Inv
  BY InitHolds, StepKeeps, PTL DEF AccountSpec

\* Whatever visits and tabs write in between, the stored token is the stored user's and the
\* stored device was registered for the stored client (loginStateStore.ts, accountApi.ts); a
\* page is busy only with an action that is under way (useBusyAction.ts); and a page that is
\* the only one there has been shows the login state that is stored (useProductController.ts).
THEOREM AccountStaysCoherent == AccountSpec => []AccountIsCoherent
<1>1. Inv => AccountIsCoherent
  BY DEF Inv, Paired, Owned, Current, Lone, OneUser, OneDevice, AccountIsCoherent,
         CredentialsArePaired, LonePageIsCurrent
<1> QED  BY <1>1, InvInductive, PTL

-----------------------------------------------------------------------------
(* The room.                                                                 *)

\* A stored room was made by this page or an earlier one, at some time.
RoomTypes ==
  /\ page \in Nat /\ now \in Nat
  /\ room # None => room.page \in Nat /\ room.page <= page /\ room.at \in Nat
  /\ granted # None => granted.until \in Nat

\* A room this page has stored is the one its authorization is for, which lives as long as the
\* room does, unless the server has ended the session.
Covered ==
  room # None /\ room.page = page /\ ~ended =>
    /\ granted # None
    /\ granted.until >= room.at + Lifetime
    /\ room.config.token = granted.token
    /\ room.config.servers # <<>> /\ ToSet(room.config.servers) = granted.servers

RoomInv == RoomTypes /\ Covered

\* What the search finds in a join answer is a room with a token and servers.
LEMMA ConfigIsARoom ==
  ASSUME NEW body \in Bodies, RoomConfig(body) # None
  PROVE  RoomConfig(body) \in Rooms /\ RoomConfig(body).servers # <<>> /\ body.code = 0
<1> DEFINE bare == [token |-> "t0", servers |-> <<>>]
           Like(r) == r.token # None /\ r.servers # <<>>
<1>0. bare.servers = <<>>
  OBVIOUS
<1>1. \E i \in DOMAIN body.records : Like(body.records[i])
  BY DEF RoomConfig
<1>2. PICK r \in Rooms : body.records = <<bare, r>> /\ body.code = 0
  <2>1. \/ \E r \in Rooms : body.records = <<bare, r>> /\ body.code = 0
        \/ body.records = <<bare>> \/ body.records = <<>>
    BY DEF Bodies
  <2>2. body.records # <<bare>> /\ body.records # <<>>
    BY <1>0, <1>1
  <2> QED BY <2>1, <2>2
<1>3. Like(r) /\ ~Like(bare)
  BY <1>0, <1>1, <1>2
<1>4. {i \in 1..Len(body.records) : Like(body.records[i])} = {2}
  BY <1>2, <1>3
<1>5. SelectInSeq(body.records, Like) = 2
  BY <1>4 DEF SelectInSeq, Min
<1>6. RoomConfig(body) = r
  BY <1>1, <1>2, <1>5 DEF RoomConfig
<1> QED BY <1>2, <1>3, <1>6

LEMMA RoomInitKeeps == Init => RoomInv
  BY DEF Init, RoomInv, RoomTypes, Covered

LEMMA RoomStep == RoomInv /\ [Next]_vars => RoomInv'
<1> USE BoundsAssumption, NoneAssumption
<1> SUFFICES ASSUME RoomInv, [Next]_vars PROVE RoomInv'
  OBVIOUS
<1> USE DEF RoomInv, RoomTypes, Covered
<1>1. ASSUME NEW body \in Bodies, Join(body) PROVE RoomInv'
  <2> DEFINE c == RoomConfig(body)
             auth == [token |-> c.token, servers |-> ToSet(c.servers), until |-> now + Lifetime]
  <2>1. CASE Invalid(body)
    BY <1>1, <2>1 DEF Join, roomVars
  <2>2. CASE ~Invalid(body) /\ (c = None \/ ~Usable(body))
    <3>1. room' = None \/ c = None
      BY <1>1, <2>2 DEF Join, Saved
    <3>2. CASE c = None
      BY <1>1, <2>2, <3>2 DEF Join, Saved, Proxied, Authorized
    <3>3. CASE c # None
      <4>1. c \in Rooms /\ body.code = 0
        BY <3>3, ConfigIsARoom
      <4>2. Authorized(body) = auth
        BY <3>3, <4>1 DEF Authorized
      <4>3. granted' = auth \/ granted' = granted
        BY <1>1, <2>2, <4>2 DEF Join, Proxied
      <4>4. room' = None /\ page' = page /\ now' = now
        BY <1>1, <2>2, <3>3, <3>1 DEF Join
      <4> QED BY <4>3, <4>4
    <3> QED BY <3>2, <3>3
  <2>3. CASE ~Invalid(body) /\ c # None /\ Usable(body)
    <3>1. c \in Rooms /\ c.servers # <<>> /\ body.code = 0
      BY <2>3, ConfigIsARoom
    <3>2. auth \in [token : {r.token : r \in Rooms}, servers : {ToSet(r.servers) : r \in Rooms}, until : Nat]
      BY <3>1
    <3>3. Authorized(body) = auth /\ auth # None
      BY <2>3, <3>1, <3>2 DEF Authorized
    <3>4. granted' = auth /\ page' = page /\ now' = now
      BY <1>1, <2>3, <3>3 DEF Join, Proxied
    <3>5. room' = [page |-> page, user |-> user, at |-> now, config |-> c]
      BY <1>1, <2>3 DEF Join, Saved
    <3> HIDE DEF c
    <3> QED BY <3>1, <3>3, <3>4, <3>5
  <2> QED BY <2>1, <2>2, <2>3
<1>2. CASE Reload
  BY <1>2 DEF Reload
<1>3. CASE IdleEnds
  BY <1>3 DEF IdleEnds
<1>4. CASE Tick
  BY <1>4 DEF Tick
<1>5. CASE Forget
  BY <1>5 DEF Forget
<1>6. CASE UNCHANGED roomVars
  BY <1>6 DEF roomVars
<1>7. CASE UserChanges
  BY <1>7 DEF UserChanges
<1> QED
  <2>1. ASSUME NEW wire, Hear(wire) PROVE UNCHANGED roomVars
    BY <2>1 DEF Hear
  <2>2. ASSUME NEW n \in Sessions, Answers(n) \/ SendsCandidate(n) \/ Leaves(n) \/ SwitchesNetwork(n)
        PROVE  UNCHANGED roomVars
    BY <2>1, <2>2, Zenon DEF Answers, SendsCandidate, Leaves, SwitchesNetwork
  <2>3. ASSUME NEW code, IsControlled(code) PROVE UNCHANGED roomVars
    BY <2>1, <2>3, Zenon DEF IsControlled
  <2>4. ASSUME Start \/ Prune \/ GatewayCloses PROVE UNCHANGED roomVars
    BY <2>4 DEF Start, Prune, GatewayCloses
  <2>5. ASSUME Control \/ Offer \/ Candidate \/ BrowserCloses PROVE UNCHANGED roomVars
    BY <2>5 DEF Control, Offer, Candidate, BrowserCloses
  <2>6. ASSUME NEW items, Acked(items) PROVE UNCHANGED roomVars
    BY <2>6 DEF Acked
  <2>7. ASSUME Read PROVE UNCHANGED roomVars
    BY <2>7 DEF Read
  <2>8. ASSUME UNCHANGED vars PROVE UNCHANGED roomVars
    BY <2>8 DEF vars
  <2> HIDE DEF RoomInv
  <2> QED BY <1>1, <1>2, <1>3, <1>4, <1>5, <1>6, <1>7, <2>2, <2>3, <2>4, <2>5, <2>6, <2>7, <2>8, Zenon DEF Next

\* The room a page would start with is one the server lets it start, over reloads, changes of the
\* user, failed joins and both lifetimes, unless the server has ended the idle session.
THEOREM RoomsStart == Spec => []JoinedRoomStarts
<1>1. RoomInv => JoinedRoomStarts
  BY BoundsAssumption DEF RoomInv, RoomTypes, Covered, JoinedRoomStarts, RoomSession, IsAuthorized
<1> QED BY <1>1, RoomInitKeeps, RoomStep, PTL DEF Spec

-----------------------------------------------------------------------------
(* Counting, and the events that a browser session applies one after the other. *)

\* Induction over a set of numbers.
LEMMA CountingUp ==
  ASSUME NEW S \in SUBSET Nat, 0 \in S, \A k \in S : k + 1 \in S
  PROVE  S = Nat
<1> DEFINE Less == OpToRel(<, Nat)
<1> SUFFICES ASSUME S # Nat PROVE FALSE
  OBVIOUS
<1>1. IsWellFoundedOn(Less, Nat)
  BY NatLessThanWellFounded
<1>2. Less = {p \in Nat \X Nat : p[1] < p[2]}
  BY DEF OpToRel
<1> HIDE DEF Less
<1>3. PICK x \in Nat \ S : \A y \in Nat \ S : <<y, x>> \notin Less
  BY <1>1, WFMin
<1>4. x - 1 \in Nat \ S
  OBVIOUS
<1>5. <<x - 1, x>> \in Less
  BY <1>2, <1>4
<1> QED BY <1>3, <1>4, <1>5

HasLargest(t) ==
  \A T \in SUBSET Nat : T # {} /\ (\A k \in T : k <= t) => \E k \in T : \A j \in T : j <= k

\* A set of numbers below a bound has a largest one.
LEMMA Largest ==
  ASSUME NEW S \in SUBSET Nat, S # {}, NEW top \in Nat, \A k \in S : k <= top
  PROVE  \E k \in S : \A j \in S : j <= k
<1> DEFINE Below == {t \in Nat : HasLargest(t)}
<1>1. HasLargest(0)
  <2> SUFFICES ASSUME NEW T \in SUBSET Nat, T # {}, \A k \in T : k <= 0
               PROVE  \E k \in T : \A j \in T : j <= k
    BY DEF HasLargest
  <2>1. PICK k \in T : TRUE
    OBVIOUS
  <2> QED BY <2>1
<1>2. ASSUME NEW t \in Nat, HasLargest(t) PROVE HasLargest(t + 1)
  <2> SUFFICES ASSUME NEW T \in SUBSET Nat, T # {}, \A k \in T : k <= t + 1
               PROVE  \E k \in T : \A j \in T : j <= k
    BY DEF HasLargest
  <2>1. CASE t + 1 \in T
    BY <2>1
  <2>2. CASE t + 1 \notin T
    BY <1>2, <2>2 DEF HasLargest
  <2> QED BY <2>1, <2>2
<1>3. Below = Nat
  <2>1. Below \in SUBSET Nat /\ 0 \in Below /\ \A t \in Below : t + 1 \in Below
    BY <1>1, <1>2
  <2> HIDE DEF Below
  <2> QED BY <2>1, CountingUp
<1>4. HasLargest(top)
  BY <1>3
<1>5. S # {} /\ (\A k \in S : k <= top) => \E k \in S : \A j \in S : j <= k
  BY <1>4 DEF HasLargest
<1> QED BY <1>5

-----------------------------------------------------------------------------
OneMore(after, s, e) == IF e.id <= after THEN s ELSE ApplyEvent(s, e)
Highest(S) == CHOOSE x \in S : \A y \in S : x >= y
Unfolds(g, base, after, events, D) ==
  g = [u \in SUBSET D |-> IF u = {} THEN base
                          ELSE OneMore(after, g[u \ {Highest(u)}], events[Highest(u)])]
Fresh(b) == [browser |-> b, offers |-> <<>>]

LEMMA AppliedIs ==
  ASSUME NEW b, NEW after, NEW events
  PROVE  Applied(b, after, events) =
           (CHOOSE g : Unfolds(g, Fresh(b), after, events, DOMAIN events))[DOMAIN events]
  BY DEF Applied, FoldLeft, MapThenFoldSet, Max, Unfolds, OneMore, Highest, Fresh

LEMMA HighestIs == \A k \in Nat : \A u \in SUBSET (1..(k + 1)) : k + 1 \in u => Highest(u) = k + 1
<1> TAKE k \in Nat
<1> TAKE u \in SUBSET (1..(k + 1))
<1> HAVE k + 1 \in u
<1>1. \A y \in u : k + 1 >= y
  OBVIOUS
<1>2. \A x \in u : (\A y \in u : x >= y) => x = k + 1
  OBVIOUS
<1> QED BY <1>1, <1>2 DEF Highest

LEMMA Unfolding ==
  ASSUME NEW base, NEW after, NEW events, NEW n \in Nat
  PROVE  \E g : Unfolds(g, base, after, events, 1..n)
<1> DEFINE Can == {k \in Nat : \E g : Unfolds(g, base, after, events, 1..k)}
<1>1. 0 \in Can
  <2>1. Unfolds([u \in SUBSET (1..0) |-> base], base, after, events, 1..0)
    BY DEF Unfolds
  <2> QED BY <2>1
<1>2. ASSUME NEW k \in Can PROVE k + 1 \in Can
  <2>1. PICK g : Unfolds(g, base, after, events, 1..k)
    OBVIOUS
  <2> DEFINE h == [u \in SUBSET (1..(k + 1)) |->
                     IF k + 1 \in u THEN OneMore(after, g[u \ {k + 1}], events[k + 1]) ELSE g[u]]
  <2>2. ASSUME NEW u \in SUBSET (1..(k + 1))
        PROVE  h[u] = IF u = {} THEN base ELSE OneMore(after, h[u \ {Highest(u)}], events[Highest(u)])
    <3>1. CASE k + 1 \in u
      <4>1. Highest(u) = k + 1
        BY <3>1, HighestIs
      <4>2. h[u \ {k + 1}] = g[u \ {k + 1}]
        OBVIOUS
      <4> QED BY <3>1, <4>1, <4>2
    <3>2. CASE k + 1 \notin u
      <4>1. u \in SUBSET (1..k) /\ h[u] = g[u]
        BY <3>2
      <4>2. h[u \ {Highest(u)}] = g[u \ {Highest(u)}]
        BY <3>2
      <4>3. g[u] = IF u = {} THEN base ELSE OneMore(after, g[u \ {Highest(u)}], events[Highest(u)])
        <5> HIDE DEF h
        <5> QED BY <2>1, <4>1 DEF Unfolds
      <4> HIDE DEF h
      <4> QED BY <4>1, <4>2, <4>3
    <3> QED BY <3>1, <3>2
  <2>3. Unfolds(h, base, after, events, 1..(k + 1))
    <3>1. DOMAIN h = SUBSET (1..(k + 1)) /\ h = [u \in SUBSET (1..(k + 1)) |-> h[u]]
      OBVIOUS
    <3> HIDE DEF h
    <3> QED BY <2>2, <3>1 DEF Unfolds
  <2> HIDE DEF h
  <2> QED BY <2>3
<1>3. Can = Nat
  <2> HIDE DEF Can
  <2> QED BY <1>1, <1>2, CountingUp DEF Can
<1> QED BY <1>3

\* What a session has applied is reached event by event: FoldLeft unfolded.
LEMMA AppliedUnfolds ==
  ASSUME NEW S, NEW b, NEW after, NEW events \in Seq(S)
  PROVE  \E g : Unfolds(g, Fresh(b), after, events, 1..Len(events)) /\ Applied(b, after, events) = g[1..Len(events)]
<1>1. DOMAIN events = 1..Len(events) /\ Len(events) \in Nat
  OBVIOUS
<1> DEFINE g == CHOOSE g : Unfolds(g, Fresh(b), after, events, 1..Len(events))
<1>2. Applied(b, after, events) = g[1..Len(events)]
  BY <1>1, AppliedIs
<1>3. Unfolds(g, Fresh(b), after, events, 1..Len(events))
  BY <1>1, Unfolding
<1> QED BY <1>2, <1>3

LEMMA UnfoldsTo ==
  ASSUME NEW g, NEW base, NEW after, NEW events, NEW n \in Nat, Unfolds(g, base, after, events, 1..n)
  PROVE  /\ g[1..0] = base
         /\ \A k \in 0..(n - 1) : g[1..(k + 1)] = OneMore(after, g[1..k], events[k + 1])
<1>1. 1..0 \in SUBSET (1..n) /\ 1..0 = {}
  OBVIOUS
<1>2. ASSUME NEW k \in 0..(n - 1)
      PROVE  g[1..(k + 1)] = OneMore(after, g[1..k], events[k + 1])
  <2>1. 1..(k + 1) \in SUBSET (1..n) /\ 1..(k + 1) # {}
    <3>1. k \in Nat /\ k + 1 <= n
      OBVIOUS
    <3>2. \A x \in 1..(k + 1) : x \in 1..n
      BY <3>1
    <3> QED BY <3>1, <3>2
  <2>2. Highest(1..(k + 1)) = k + 1
    BY HighestIs
  <2>3. (1..(k + 1)) \ {k + 1} = 1..k
    OBVIOUS
  <2> QED BY <2>1, <2>2, <2>3 DEF Unfolds
<1> QED BY <1>1, <1>2 DEF Unfolds

LEMMA AppliedNone ==
  ASSUME NEW S, NEW b, NEW after, NEW events \in Seq(S)
  PROVE  Len(events) = 0 => Applied(b, after, events) = Fresh(b)
<1>1. PICK g : /\ Unfolds(g, Fresh(b), after, events, 1..Len(events))
               /\ Applied(b, after, events) = g[1..Len(events)]
  BY AppliedUnfolds
<1>2. Len(events) \in Nat
  OBVIOUS
<1>3. g[1..0] = Fresh(b)
  BY <1>1, <1>2, UnfoldsTo
<1> QED BY <1>1, <1>3

\* An event more at the end of the events is one application more at the end.
LEMMA AppliedMore ==
  ASSUME NEW S, NEW b, NEW after, NEW events \in Seq(S), NEW e \in S
  PROVE  Applied(b, after, Append(events, e)) = OneMore(after, Applied(b, after, events), e)
<1> DEFINE n == Len(events)
           more == Append(events, e)
<1>1. /\ n \in Nat /\ more \in Seq(S) /\ Len(more) = n + 1 /\ more[n + 1] = e
      /\ \A i \in 1..n : more[i] = events[i]
  OBVIOUS
<1> HIDE DEF more, n
<1>2. PICK g : Unfolds(g, Fresh(b), after, events, 1..n) /\ Applied(b, after, events) = g[1..n]
  BY AppliedUnfolds DEF n
<1>3. PICK h : Unfolds(h, Fresh(b), after, more, 1..(n + 1)) /\ Applied(b, after, more) = h[1..(n + 1)]
  BY <1>1, AppliedUnfolds
<1> DEFINE Same == {k \in Nat : k <= n => g[1..k] = h[1..k]}
<1>4. 0 \in Same
  BY <1>1, <1>2, <1>3, UnfoldsTo
<1>5. ASSUME NEW k \in Same PROVE k + 1 \in Same
  <2> SUFFICES ASSUME k + 1 <= n PROVE g[1..(k + 1)] = h[1..(k + 1)]
    OBVIOUS
  <2>1. k \in 0..(n - 1) /\ k \in 0..((n + 1) - 1) /\ g[1..k] = h[1..k]
    BY <1>1
  <2>2. g[1..(k + 1)] = OneMore(after, g[1..k], events[k + 1])
    BY <1>1, <1>2, <2>1, UnfoldsTo
  <2>3. h[1..(k + 1)] = OneMore(after, h[1..k], more[k + 1])
    BY <1>1, <1>3, <2>1, UnfoldsTo
  <2> QED BY <1>1, <2>1, <2>2, <2>3
<1>6. g[1..n] = h[1..n]
  <2>1. Same = Nat
    <3> HIDE DEF Same
    <3> QED BY <1>4, <1>5, CountingUp DEF Same
  <2> QED BY <1>1, <2>1
<1>7. h[1..(n + 1)] = OneMore(after, h[1..n], e)
  <2>1. n + 1 \in Nat /\ n \in 0..((n + 1) - 1)
    BY <1>1
  <2>2. h[1..(n + 1)] = OneMore(after, h[1..n], more[n + 1])
    BY <1>3, <2>1, UnfoldsTo
  <2> QED BY <1>1, <2>2
<1> QED BY <1>2, <1>3, <1>6, <1>7 DEF more

-----------------------------------------------------------------------------
(* What one event does to a browser session. *)

Signal(type, n) ==
  [Item EXCEPT !.data = [Data EXCEPT !.type = type, !.sdp = IF type = "candidate" THEN None ELSE "plain",
                                     !.ice = n]]
Notice(n) == [Item EXCEPT !.ice = n]
About(e, n) ==
  \/ e.event = "soac" /\ \E type \in InboundTypes : e.items = <<Signal(type, n)>>
  \/ e.event = "switch_network_notify" /\ e.items = <<Notice(n)>>
Speaks(e) == e.inbound /\ e.event \in {"soac", "switch_network_notify"}
Inert(e, n) == Speaks(e) => \E m \in Sessions \ {n} : About(e, m)
Plain(e) == Speaks(e) => \E m \in Sessions : About(e, m)

Stages == {"controlling", "controlled", "offered", "connected"}
Browsers == [n : Sessions, stage : Stages, signaling : {"stable", "have-local-offer"}, candidates : Nat]
Applying(n) == [browser : {b \in Browsers : b.n = n}, offers : Seq({Soac("restart_ice", n)})]

SoacUnfolds(g, b, items) ==
  g = [u \in SUBSET DOMAIN items |-> IF u = {} THEN b ELSE ApplySoac(g[u \ {Highest(u)}], items[Highest(u)])]

\* A SOAC event of one item is applied once.
LEMMA SoacOnce ==
  ASSUME NEW b, NEW item
  PROVE  FoldLeft(ApplySoac, b, <<item>>) = ApplySoac(b, item)
<1> DEFINE items == <<item>>
           one == [u \in SUBSET {1} |-> IF u = {} THEN b ELSE ApplySoac(b, item)]
           g == CHOOSE g : SoacUnfolds(g, b, items)
<1>1. FoldLeft(ApplySoac, b, items) = g[DOMAIN items]
  BY DEF FoldLeft, MapThenFoldSet, Max, SoacUnfolds, Highest
<1>2. DOMAIN items = {1} /\ items[1] = item
  OBVIOUS
<1>3. \A u \in SUBSET {1} : u # {} => u = {1} /\ Highest(u) = 1 /\ u \ {1} = {}
  <2>1. \A u \in SUBSET {1} : u # {} => u = {1} /\ u \ {1} = {}
    OBVIOUS
  <2>2. {1} \in SUBSET (1..(0 + 1)) /\ 0 + 1 \in {1}
    OBVIOUS
  <2>3. Highest({1}) = 0 + 1
    BY <2>2, HighestIs
  <2> QED BY <2>1, <2>3
<1>4. SoacUnfolds(one, b, items)
  <2>1. one = [u \in SUBSET {1} |-> IF u = {} THEN b ELSE ApplySoac(one[u \ {Highest(u)}], items[Highest(u)])]
    <3>1. \A u \in SUBSET {1} : one[u] = IF u = {} THEN b ELSE ApplySoac(one[u \ {Highest(u)}], items[Highest(u)])
      <4>1. one[{}] = b
        OBVIOUS
      <4> HIDE DEF items
      <4> QED BY <1>2, <1>3, <4>1
    <3>2. one = [u \in SUBSET {1} |-> one[u]]
      OBVIOUS
    <3> HIDE DEF one, items
    <3> QED BY <3>1, <3>2
  <2> HIDE DEF one, items
  <2> QED BY <1>2, <2>1 DEF SoacUnfolds
<1>5. SoacUnfolds(g, b, items)
  BY <1>4
<1>6. g[{1}] = ApplySoac(b, item)
  <2> HIDE DEF g, items, one
  <2>1. {1} \in SUBSET {1} /\ {} \in SUBSET {1} /\ {1} # {}
    OBVIOUS
  <2>2. g[{}] = b
    BY <1>2, <1>5, <2>1 DEF SoacUnfolds
  <2>3. Highest({1}) = 1 /\ {1} \ {1} = {}
    BY <1>3
  <2>4. g[{1}] = ApplySoac(g[{1} \ {Highest({1})}], items[Highest({1})])
    BY <1>2, <1>5, <2>1 DEF SoacUnfolds
  <2> QED BY <1>2, <2>2, <2>3, <2>4
<1> QED BY <1>1, <1>2, <1>6

DataRecords ==
  [type : Words \cup {None}, sdp : Words \cup {None}, zip : Words \cup {None},
   ice : Nat \cup {None}, code : Nat \cup {None}]

\* What is left of a SOAC message once its description has been made plain.
LEMMA SignalIs ==
  ASSUME NEW type \in SoacTypes, NEW n \in Sessions
  PROVE  LET x == Signal(type, n)
         IN  /\ x.data # None /\ x.data.ice = n /\ x.data.type = type
             /\ x.data.sdp = IF type = "candidate" THEN None ELSE "plain"
             /\ x.word = None /\ x.type = None /\ x.ice = None
<1>1. n \in Nat
  BY BoundsAssumption DEF Sessions
<1> DEFINE d == [Data EXCEPT !.type = type, !.sdp = IF type = "candidate" THEN None ELSE "plain", !.ice = n]
<1>2. d.type = type /\ d.ice = n /\ d.sdp = IF type = "candidate" THEN None ELSE "plain"
  BY DEF Data
<1>3. d \in DataRecords
  <2>1. Data \in DataRecords
    BY DEF Data, DataRecords
  <2>2. type \in Words \cup {None}
    BY DEF Words, SoacTypes, InboundTypes
  <2>3. (IF type = "candidate" THEN None ELSE "plain") \in Words \cup {None}
    BY DEF Words
  <2> HIDE DEF d
  <2>4. \A r \in DataRecords, t, w \in Words \cup {None} :
          [r EXCEPT !.type = t, !.sdp = w, !.ice = n] \in DataRecords
    BY <1>1 DEF DataRecords
  <2> QED BY <2>1, <2>2, <2>3, <2>4 DEF d
<1>4. d # None
  <2> HIDE DEF d
  <2> QED BY <1>3, NoneAssumption, Zenon DEF DataRecords
<1>5. Signal(type, n) = [Item EXCEPT !.data = d]
  BY DEF Signal
<1> HIDE DEF d
<1> QED BY <1>2, <1>4, <1>5 DEF Item

\* An event of another session, or of none of the session's, changes nothing.
LEMMA ApplyInert ==
  ASSUME NEW n \in Sessions, NEW s \in Applying(n), NEW e, Inert(e, n)
  PROVE  ApplyEvent(s, e) = s
<1>1. CASE ~Speaks(e)
  BY <1>1 DEF ApplyEvent, Speaks
<1>2. ASSUME NEW m \in Sessions \ {n}, About(e, m), e.inbound PROVE ApplyEvent(s, e) = s
  <2>0. {m, n} \subseteq Nat /\ s.browser.n = n /\ m # None
    BY BoundsAssumption, NoneAssumption DEF Sessions, Applying
  <2>1. ASSUME e.event = "soac", NEW type \in InboundTypes, e.items = <<Signal(type, m)>>
        PROVE  ApplyEvent(s, e) = s
    <3>1. FoldLeft(ApplySoac, s.browser, e.items) = ApplySoac(s.browser, Signal(type, m))
      BY <2>1, SoacOnce
    <3>2. Signal(type, m).data # None /\ Signal(type, m).data.ice = m
      BY SignalIs DEF SoacTypes
    <3>3. ApplySoac(s.browser, Signal(type, m)) = s.browser
      BY <2>0, <3>2 DEF ApplySoac, Matches
    <3>4. [s EXCEPT !.browser = s.browser] = s
      BY DEF Applying
    <3>5. ApplyEvent(s, e) = [s EXCEPT !.browser = FoldLeft(ApplySoac, s.browser, e.items)]
      BY <1>2, <2>1 DEF ApplyEvent
    <3> QED BY <3>1, <3>3, <3>4, <3>5
  <2>2. ASSUME e.event = "switch_network_notify", e.items = <<Notice(m)>> PROVE ApplyEvent(s, e) = s
    <3>1. \A i \in DOMAIN e.items : e.items[i].ice = m
      BY <2>2 DEF Notice, Item
    <3>2. ~\E i \in DOMAIN e.items : Matches(e.items[i].ice, s.browser.n)
      BY <2>0, <3>1 DEF Matches
    <3> QED BY <1>2, <2>2, <3>2 DEF ApplyEvent
  <2> QED BY <1>2, <2>1, <2>2 DEF About
<1> QED BY <1>1, <1>2 DEF Inert, Speaks

\* What becomes of a browser session that hears what is said to it.
Hears(b, c, e, n) ==
  /\ e.event = "soac" /\ e.items = <<Signal("candidate", n)>> =>
       c = [b EXCEPT !.candidates = @ + 1]
  /\ \A type \in {"answer", "restart_ice"} : e.event = "soac" /\ e.items = <<Signal(type, n)>> =>
       c = IF b.signaling # "have-local-offer" THEN b ELSE [b EXCEPT !.stage = "connected", !.signaling = "stable"]
  /\ e.event = "switch_network_notify" => c = [b EXCEPT !.signaling = "have-local-offer"]

\* An event about the session is heard by it: an answer connects it, a candidate is added.
LEMMA ApplyOwn ==
  ASSUME NEW n \in Sessions, NEW s \in Applying(n), NEW e, About(e, n), e.inbound
  PROVE  ApplyEvent(s, e) \in Applying(n) /\ Hears(s.browser, ApplyEvent(s, e).browser, e, n)
<1>0. n \in Nat /\ s.browser.n = n /\ n # None /\ s.browser \in Browsers
  BY BoundsAssumption, NoneAssumption DEF Sessions, Applying
<1>1. ASSUME e.event = "soac", NEW type \in InboundTypes, e.items = <<Signal(type, n)>>
      PROVE  ApplyEvent(s, e) \in Applying(n) /\ Hears(s.browser, ApplyEvent(s, e).browser, e, n)
  <2> DEFINE x == Signal(type, n)
             c == ApplySoac(s.browser, x)
  <2>1. x.data # None /\ x.data.ice = n /\ x.data.type = type /\ x.data.sdp = IF type = "candidate" THEN None ELSE "plain"
    BY SignalIs DEF SoacTypes
  <2>2. ApplyEvent(s, e) = [s EXCEPT !.browser = c]
    <3>1. FoldLeft(ApplySoac, s.browser, e.items) = c
      BY <1>1, SoacOnce
    <3>2. ApplyEvent(s, e) = [s EXCEPT !.browser = FoldLeft(ApplySoac, s.browser, e.items)]
      BY <1>1 DEF ApplyEvent
    <3> QED BY <3>1, <3>2
  <2>3. c = CASE type \in {"answer", "restart_ice"} ->
                   (IF s.browser.signaling # "have-local-offer" THEN s.browser
                    ELSE [s.browser EXCEPT !.stage = "connected", !.signaling = "stable"])
              [] type = "candidate" -> [s.browser EXCEPT !.candidates = @ + 1]
    <3> HIDE DEF x
    <3> QED BY <1>0, <2>1 DEF ApplySoac, Matches, InboundTypes
  <2>4. c \in Browsers /\ c.n = n
    <3> HIDE DEF c
    <3>1. CASE type = "candidate"
      BY <1>0, <2>3, <3>1 DEF Browsers
    <3>2. CASE type \in {"answer", "restart_ice"}
      BY <1>0, <2>3, <3>2 DEF Browsers, Stages
    <3> QED BY <3>1, <3>2 DEF InboundTypes
  <2>5. ApplyEvent(s, e).browser = c /\ ApplyEvent(s, e) \in Applying(n)
    <3> HIDE DEF c
    <3> QED BY <2>2, <2>4 DEF Applying
  <2>6. \A other \in InboundTypes : e.items = <<Signal(other, n)>> => other = type
    <3> SUFFICES ASSUME NEW other \in InboundTypes, e.items = <<Signal(other, n)>> PROVE other = type
      OBVIOUS
    <3>1. Signal(other, n) = Signal(type, n)
      BY <1>1
    <3> QED BY <2>1, <3>1, SignalIs DEF SoacTypes
  <2> HIDE DEF c, x
  <2> QED BY <1>1, <2>3, <2>5, <2>6 DEF Hears, InboundTypes
<1>2. ASSUME e.event = "switch_network_notify", e.items = <<Notice(n)>>
      PROVE  ApplyEvent(s, e) \in Applying(n) /\ Hears(s.browser, ApplyEvent(s, e).browser, e, n)
  <2> DEFINE c == [s.browser EXCEPT !.signaling = "have-local-offer"]
             o == Append(s.offers, Soac("restart_ice", n))
  <2>1. e.items[1].ice = n /\ 1 \in DOMAIN e.items
    BY <1>2 DEF Notice, Item
  <2>2. \E i \in DOMAIN e.items : Matches(e.items[i].ice, s.browser.n)
    BY <1>0, <2>1 DEF Matches
  <2>3. ApplyEvent(s, e) = [browser |-> c, offers |-> o]
    BY <1>0, <1>2, <2>2 DEF ApplyEvent, Applying
  <2>4. c \in Browsers /\ c.n = n
    BY <1>0 DEF Browsers
  <2>5. o \in Seq({Soac("restart_ice", n)})
    BY DEF Applying
  <2> HIDE DEF c, o
  <2>6. ApplyEvent(s, e) \in Applying(n) /\ ApplyEvent(s, e).browser = c
    BY <2>3, <2>4, <2>5 DEF Applying
  <2> QED BY <1>2, <2>6 DEF Hears, c
<1> QED BY <1>1, <1>2 DEF About

-----------------------------------------------------------------------------
(* What a log does to a browser session. *)

\* A nonempty sequence is a shorter one and its last element.
LEMMA AllButLast ==
  ASSUME NEW S, NEW events \in Seq(S), events # <<>>
  PROVE  \E first \in Seq(S), e \in S :
           /\ events = Append(first, e) /\ Len(events) = Len(first) + 1
           /\ e = events[Len(first) + 1] /\ \A i \in 1..Len(first) : first[i] = events[i]
<1> DEFINE k == Len(events) - 1
           first == [i \in 1..k |-> events[i]]
<1>1. k \in Nat /\ Len(events) = k + 1
  OBVIOUS
<1>2. first \in Seq(S) /\ Len(first) = k /\ events[k + 1] \in S
  BY <1>1
<1>3. events = Append(first, events[k + 1])
  BY <1>1
<1>4. \A i \in 1..k : first[i] = events[i]
  OBVIOUS
<1> HIDE DEF k, first
<1> QED BY <1>1, <1>2, <1>3, <1>4

\* What is left without the first elements ends with the last one.
LEMMA WithoutFirst ==
  ASSUME NEW S, NEW first \in Seq(S), NEW e \in S, NEW d \in 0..Len(first)
  PROVE  SubSeq(Append(first, e), d + 1, Len(first) + 1) = Append(SubSeq(first, d + 1, Len(first)), e)
<1> DEFINE n == Len(first)
           a == SubSeq(Append(first, e), d + 1, n + 1)
           rest == SubSeq(first, d + 1, n)
<1>1. n \in Nat /\ d \in 0..n /\ Append(first, e) \in Seq(S) /\ Len(Append(first, e)) = n + 1
  OBVIOUS
<1>2. a \in Seq(S) /\ Len(a) = n + 1 - d /\ \A i \in 1..(n + 1 - d) : a[i] = Append(first, e)[d + i]
  <2>1. d + 1 \in 1..((n + 1) + 1) /\ n + 1 \in (d + 1) - 1 .. (n + 1)
    BY <1>1
  <2> HIDE DEF n
  <2> QED BY <1>1, <2>1, SubSeqProperties
<1>3. rest \in Seq(S) /\ Len(rest) = n - d /\ \A i \in 1..(n - d) : rest[i] = first[d + i]
  <2>1. d + 1 \in 1..(n + 1) /\ n \in (d + 1) - 1 .. n
    BY <1>1
  <2> QED BY <1>1, <2>1, SubSeqProperties
<1> HIDE DEF a, rest
<1>4. Append(rest, e) \in Seq(S) /\ Len(Append(rest, e)) = n + 1 - d
  BY <1>1, <1>3
<1>5. \A i \in 1..(n + 1 - d) : a[i] = Append(rest, e)[i]
  <2> SUFFICES ASSUME NEW i \in 1..(n + 1 - d) PROVE a[i] = Append(rest, e)[i]
    OBVIOUS
  <2>1. CASE i = n + 1 - d
    <3>1. i = Len(rest) + 1 /\ d + i = n + 1
      BY <1>1, <1>3, <2>1
    <3>2. a[i] = Append(first, e)[d + i]
      BY <1>2
    <3>3. Append(first, e)[n + 1] = e
      OBVIOUS
    <3>4. Append(rest, e)[Len(rest) + 1] = e
      <4>1. rest \in Seq(S)
        BY <1>3
      <4> QED BY <4>1
    <3> QED BY <3>1, <3>2, <3>3, <3>4
  <2>2. CASE i # n + 1 - d
    <3>1. i \in 1..(n - d) /\ d + i \in 1..n
      BY <1>1, <2>2
    <3> QED BY <1>1, <1>2, <1>3, <3>1
  <2> QED BY <2>1, <2>2
<1>6. a = Append(rest, e)
  BY <1>2, <1>4, <1>5, SeqEqual
<1> QED BY <1>6 DEF a, rest

-----------------------------------------------------------------------------
Late == {"offered", "connected"}
Grown(n, b, s) == s \in Applying(n) /\ (b.stage \in Late => s.browser.stage \in Late)
GrownUpTo(k, S, n, b, after) ==
  \A events \in Seq(S) : Len(events) = k => Grown(n, b, Applied(b, after, events))

\* A session that waits for its answer, or has it, goes on to.
LEMMA HearsLate ==
  ASSUME NEW n \in Sessions, NEW b \in Browsers, NEW c, NEW e, About(e, n), Hears(b, c, e, n), b.stage \in Late
  PROVE  c.stage \in Late
<1>1. CASE e.event = "switch_network_notify"
  BY <1>1 DEF Hears, Browsers
<1>2. CASE e.event = "soac" /\ e.items = <<Signal("candidate", n)>>
  BY <1>2 DEF Hears, Browsers
<1>3. ASSUME NEW type \in {"answer", "restart_ice"}, e.event = "soac" /\ e.items = <<Signal(type, n)>>
      PROVE  c.stage \in Late
  <2>1. c = IF b.signaling # "have-local-offer" THEN b ELSE [b EXCEPT !.stage = "connected", !.signaling = "stable"]
    BY <1>3, Zenon DEF Hears
  <2> QED BY <2>1 DEF Browsers, Late
<1> QED BY <1>1, <1>2, <1>3, Zenon DEF About, InboundTypes

\* A browser session that applies events stays one, and does not fall back behind its offer.
LEMMA AppliedType ==
  ASSUME NEW S, \A e \in S : Plain(e), NEW n \in Sessions, NEW b \in Browsers, b.n = n, NEW after,
         NEW events \in Seq(S)
  PROVE  Grown(n, b, Applied(b, after, events))
<1> DEFINE Done == {k \in Nat : GrownUpTo(k, S, n, b, after)}
<1>1. GrownUpTo(0, S, n, b, after)
  <2>1. Fresh(b) \in Applying(n) /\ Fresh(b).browser = b
    BY DEF Fresh, Applying
  <2> QED BY <2>1, AppliedNone DEF GrownUpTo, Grown
<1>2. ASSUME NEW k \in Nat, GrownUpTo(k, S, n, b, after) PROVE GrownUpTo(k + 1, S, n, b, after)
  <2> SUFFICES ASSUME NEW more \in Seq(S), Len(more) = k + 1 PROVE Grown(n, b, Applied(b, after, more))
    BY DEF GrownUpTo
  <2>1. PICK first \in Seq(S), e \in S : more = Append(first, e) /\ Len(first) = k
    <3>1. more # <<>>
      OBVIOUS
    <3>2. PICK first \in Seq(S), e \in S : more = Append(first, e) /\ Len(more) = Len(first) + 1
      BY <3>1, AllButLast
    <3> QED BY <3>2
  <2> DEFINE s == Applied(b, after, first)
  <2>2. Grown(n, b, s)
    BY <1>2, <2>1 DEF GrownUpTo
  <2>3. Applied(b, after, more) = OneMore(after, s, e)
    BY <2>1, AppliedMore
  <2> HIDE DEF s
  <2>4. Grown(n, b, ApplyEvent(s, e))
    <3>0. s \in Applying(n) /\ s.browser \in Browsers
      BY <2>2 DEF Grown, Applying
    <3>1. CASE Inert(e, n)
      <4>1. ApplyEvent(s, e) = s
        BY <3>0, <3>1, ApplyInert
      <4> QED BY <2>2, <4>1
    <3>2. CASE ~Inert(e, n)
      <4>1. About(e, n) /\ e.inbound
        BY <3>2 DEF Inert, Plain, Speaks
      <4>2. ApplyEvent(s, e) \in Applying(n) /\ Hears(s.browser, ApplyEvent(s, e).browser, e, n)
        BY <3>0, <4>1, ApplyOwn
      <4>3. s.browser.stage \in Late => ApplyEvent(s, e).browser.stage \in Late
        BY <3>0, <4>1, <4>2, HearsLate
      <4> QED BY <2>2, <4>2, <4>3 DEF Grown
    <3> QED BY <3>1, <3>2
  <2> QED BY <2>2, <2>3, <2>4 DEF OneMore
<1>3. Done = Nat
  <2>1. Done \in SUBSET Nat /\ 0 \in Done /\ \A k \in Done : k + 1 \in Done
    BY <1>1, <1>2
  <2> HIDE DEF Done
  <2> QED BY <2>1, CountingUp
<1>4. GrownUpTo(Len(events), S, n, b, after)
  BY <1>3
<1> QED BY <1>4 DEF GrownUpTo

Passes(e, after, n) == e.id <= after \/ Inert(e, n)
IdleUpTo(k, S, n, b, after) ==
  \A events \in Seq(S) :
    Len(events) = k /\ (\A i \in 1..k : Passes(events[i], after, n)) => Applied(b, after, events) = Fresh(b)

\* Events that are not for a browser session leave it as it is.
LEMMA AppliedInert ==
  ASSUME NEW S, NEW n \in Sessions, NEW b \in Browsers, b.n = n, NEW after, NEW events \in Seq(S),
         \A i \in DOMAIN events : Passes(events[i], after, n)
  PROVE  Applied(b, after, events) = Fresh(b)
<1> DEFINE Done == {k \in Nat : IdleUpTo(k, S, n, b, after)}
<1>0. Fresh(b) \in Applying(n)
  BY DEF Fresh, Applying
<1>1. IdleUpTo(0, S, n, b, after)
  BY AppliedNone DEF IdleUpTo
<1>2. ASSUME NEW k \in Nat, IdleUpTo(k, S, n, b, after) PROVE IdleUpTo(k + 1, S, n, b, after)
  <2> SUFFICES ASSUME NEW more \in Seq(S), Len(more) = k + 1, \A i \in 1..(k + 1) : Passes(more[i], after, n)
               PROVE  Applied(b, after, more) = Fresh(b)
    BY DEF IdleUpTo
  <2>1. PICK first \in Seq(S), e \in S : /\ more = Append(first, e) /\ Len(first) = k
                                         /\ e = more[k + 1] /\ \A i \in 1..k : first[i] = more[i]
    <3>1. more # <<>>
      OBVIOUS
    <3>2. PICK first \in Seq(S), e \in S :
            /\ more = Append(first, e) /\ Len(more) = Len(first) + 1
            /\ e = more[Len(first) + 1] /\ \A i \in 1..Len(first) : first[i] = more[i]
      BY <3>1, AllButLast
    <3>3. Len(first) = k
      BY <3>2
    <3> QED BY <3>2, <3>3
  <2>2. Applied(b, after, first) = Fresh(b)
    BY <1>2, <2>1 DEF IdleUpTo
  <2>3. Applied(b, after, more) = OneMore(after, Fresh(b), e)
    BY <2>1, <2>2, AppliedMore
  <2>4. Passes(e, after, n)
    BY <2>1
  <2>5. e.id <= after \/ ApplyEvent(Fresh(b), e) = Fresh(b)
    BY <1>0, <2>4, ApplyInert DEF Passes
  <2> QED BY <2>3, <2>5 DEF OneMore
<1>3. Done = Nat
  <2>1. Done \in SUBSET Nat /\ 0 \in Done /\ \A k \in Done : k + 1 \in Done
    BY <1>1, <1>2
  <2> HIDE DEF Done
  <2> QED BY <2>1, CountingUp
<1>4. IdleUpTo(Len(events), S, n, b, after)
  BY <1>3
<1> QED BY <1>4 DEF IdleUpTo

SameUpTo(k, S, b, after, d) ==
  \A events \in Seq(S) :
    Len(events) = d + k /\ (\A i \in 1..d : events[i].id <= after) =>
      Applied(b, after, SubSeq(events, d + 1, d + k)) = Applied(b, after, events)

GoneUpTo(k, S, b, after) ==
  \A events \in Seq(S) :
    Len(events) = k /\ (\A i \in 1..k : events[i].id <= after) => Applied(b, after, events) = Fresh(b)

LEMMA AppliedRead ==
  ASSUME NEW S, NEW b, NEW after, NEW events \in Seq(S), \A i \in DOMAIN events : events[i].id <= after
  PROVE  Applied(b, after, events) = Fresh(b)
<1> DEFINE Done == {k \in Nat : GoneUpTo(k, S, b, after)}
<1>1. GoneUpTo(0, S, b, after)
  BY AppliedNone DEF GoneUpTo
<1>2. ASSUME NEW k \in Nat, GoneUpTo(k, S, b, after) PROVE GoneUpTo(k + 1, S, b, after)
  <2> SUFFICES ASSUME NEW more \in Seq(S), Len(more) = k + 1, \A i \in 1..(k + 1) : more[i].id <= after
               PROVE  Applied(b, after, more) = Fresh(b)
    BY DEF GoneUpTo
  <2>1. PICK first \in Seq(S), e \in S : /\ more = Append(first, e) /\ Len(first) = k
                                         /\ e = more[k + 1] /\ \A i \in 1..k : first[i] = more[i]
    <3>1. more # <<>>
      OBVIOUS
    <3>2. PICK first \in Seq(S), e \in S :
            /\ more = Append(first, e) /\ Len(more) = Len(first) + 1
            /\ e = more[Len(first) + 1] /\ \A i \in 1..Len(first) : first[i] = more[i]
      BY <3>1, AllButLast
    <3>3. Len(first) = k
      BY <3>2
    <3> QED BY <3>2, <3>3
  <2>2. Applied(b, after, first) = Fresh(b)
    BY <1>2, <2>1 DEF GoneUpTo
  <2>3. Applied(b, after, more) = OneMore(after, Fresh(b), e)
    BY <2>1, <2>2, AppliedMore
  <2>4. e.id <= after
    BY <2>1
  <2> QED BY <2>3, <2>4 DEF OneMore
<1>3. Done = Nat
  <2>1. Done \in SUBSET Nat /\ 0 \in Done /\ \A k \in Done : k + 1 \in Done
    BY <1>1, <1>2
  <2> HIDE DEF Done
  <2> QED BY <2>1, CountingUp
<1>4. GoneUpTo(Len(events), S, b, after)
  BY <1>3
<1> QED BY <1>4 DEF GoneUpTo

\* Events that have been read may be dropped.
LEMMA AppliedDrop ==
  ASSUME NEW S, NEW b, NEW after, NEW events \in Seq(S), NEW d \in 0..Len(events),
         \A i \in 1..d : events[i].id <= after
  PROVE  Applied(b, after, SubSeq(events, d + 1, Len(events))) = Applied(b, after, events)
<1> DEFINE Done == {k \in Nat : SameUpTo(k, S, b, after, d)}
<1>0. d \in Nat
  OBVIOUS
<1>1. SameUpTo(0, S, b, after, d)
  <2> SUFFICES ASSUME NEW more \in Seq(S), Len(more) = d + 0, \A i \in 1..d : more[i].id <= after
               PROVE  Applied(b, after, SubSeq(more, d + 1, d + 0)) = Applied(b, after, more)
    BY DEF SameUpTo
  <2>1. SubSeq(more, d + 1, d + 0) \in Seq(S) /\ Len(SubSeq(more, d + 1, d + 0)) = 0
    BY <1>0
  <2>2. Applied(b, after, SubSeq(more, d + 1, d + 0)) = Fresh(b)
    BY <2>1, AppliedNone
  <2>3. \A i \in DOMAIN more : more[i].id <= after
    BY <1>0
  <2>4. Applied(b, after, more) = Fresh(b)
    BY <2>3, AppliedRead
  <2> QED BY <2>2, <2>4
<1>2. ASSUME NEW k \in Nat, SameUpTo(k, S, b, after, d) PROVE SameUpTo(k + 1, S, b, after, d)
  <2> SUFFICES ASSUME NEW more \in Seq(S), Len(more) = d + (k + 1), \A i \in 1..d : more[i].id <= after
               PROVE  Applied(b, after, SubSeq(more, d + 1, d + (k + 1))) = Applied(b, after, more)
    BY DEF SameUpTo
  <2>1. PICK first \in Seq(S), e \in S : /\ more = Append(first, e) /\ Len(first) = d + k
                                         /\ \A i \in 1..(d + k) : first[i] = more[i]
    <3>1. more # <<>>
      BY <1>0
    <3>2. PICK first \in Seq(S), e \in S :
            /\ more = Append(first, e) /\ Len(more) = Len(first) + 1
            /\ \A i \in 1..Len(first) : first[i] = more[i]
      BY <3>1, AllButLast
    <3>3. Len(first) = d + k
      BY <1>0, <3>2
    <3> QED BY <3>2, <3>3
  <2> DEFINE rest == SubSeq(first, d + 1, d + k)
  <2>2. Applied(b, after, rest) = Applied(b, after, first)
    <3>1. \A i \in 1..d : first[i].id <= after
      BY <1>0, <2>1
    <3> QED BY <1>2, <2>1, <3>1 DEF SameUpTo
  <2>3. SubSeq(more, d + 1, d + (k + 1)) = Append(rest, e)
    <3>1. d \in 0..Len(first) /\ Len(first) + 1 = d + (k + 1)
      BY <1>0, <2>1
    <3> QED BY <2>1, <3>1, WithoutFirst
  <2>4. rest \in Seq(S)
    BY <1>0, <2>1
  <2>5. Applied(b, after, more) = OneMore(after, Applied(b, after, first), e)
    BY <2>1, AppliedMore
  <2>6. Applied(b, after, Append(rest, e)) = OneMore(after, Applied(b, after, rest), e)
    <3> HIDE DEF rest
    <3> QED BY <2>1, <2>4, AppliedMore
  <2> QED BY <2>2, <2>3, <2>5, <2>6
<1>3. Done = Nat
  <2>1. Done \in SUBSET Nat /\ 0 \in Done /\ \A k \in Done : k + 1 \in Done
    BY <1>1, <1>2
  <2> HIDE DEF Done
  <2> QED BY <2>1, CountingUp
<1> DEFINE k == Len(events) - d
<1>4. SameUpTo(k, S, b, after, d) /\ d + k = Len(events)
  BY <1>3
<1> HIDE DEF k
<1> QED BY <1>4 DEF SameUpTo

-----------------------------------------------------------------------------
(* What the gateway makes of what the device says. *)

Understood(event, item) ==
  IF event \in InboundTypes THEN [event |-> "soac", items |-> <<PlainSdp(AddSoacType(event, item))>>]
  ELSE IF event = "soac" THEN [event |-> "soac", items |-> <<PlainSdp(item)>>]
  ELSE [event |-> event, items |-> <<item>>]
PushNotice == [event |-> "bmsg_push", items |-> <<>>]
Forms == {"object", "text", "wrapped"}

Finished(part) == IF part.event # "soac" THEN part ELSE [part EXCEPT !.items = [j \in DOMAIN @ |-> PlainSdp(@[j])]]

\* An event that is described and then finished is as the gateway understands it.
LEMMA FinishedIs ==
  ASSUME NEW event, NEW item
  PROVE  Finished(Described(event, <<item>>)) = Understood(event, item)
<1>1. [i \in DOMAIN <<item>> |-> AddSoacType(event, <<item>>[i])] = <<AddSoacType(event, item)>>
  OBVIOUS
<1>2. Described(event, <<item>>) = IF event \in InboundTypes
                                   THEN [event |-> "soac", items |-> <<AddSoacType(event, item)>>]
                                   ELSE [event |-> event, items |-> <<item>>]
  BY <1>1 DEF Described
<1>3. \A x : [j \in DOMAIN <<x>> |-> PlainSdp(<<x>>[j])] = <<PlainSdp(x)>>
  OBVIOUS
<1>4. \A x : Finished([event |-> "soac", items |-> <<x>>]) = [event |-> "soac", items |-> <<PlainSdp(x)>>]
  <2> TAKE x
  <2> DEFINE part == [event |-> "soac", items |-> <<x>>]
  <2>1. part.event = "soac" /\ part.items = <<x>>
    OBVIOUS
  <2>2. \A y : [part EXCEPT !.items = y] = [event |-> "soac", items |-> y]
    OBVIOUS
  <2>3. Finished(part) = [part EXCEPT !.items = [j \in DOMAIN part.items |-> PlainSdp(part.items[j])]]
    BY <2>1 DEF Finished
  <2>4. [j \in DOMAIN part.items |-> PlainSdp(part.items[j])] = <<PlainSdp(x)>>
    BY <1>3, <2>1
  <2>5. Finished(part) = [event |-> "soac", items |-> <<PlainSdp(x)>>]
    <3> HIDE DEF part
    <3> QED BY <2>2, <2>3, <2>4
  <2> QED BY <2>5
<1>5. CASE event \in InboundTypes
  BY <1>2, <1>4, <1>5 DEF Understood
<1>6. CASE event = "soac"
  BY <1>2, <1>4, <1>6 DEF Understood, InboundTypes
<1>7. CASE event \notin InboundTypes /\ event # "soac"
  BY <1>2, <1>7 DEF Understood, Finished
<1> QED BY <1>5, <1>6, <1>7

\* A Socket.IO event is recorded as one event, as the gateway understands it.
LEMMA SaidIs ==
  ASSUME NEW event, NEW item
  PROVE  InboundEvents(Says(event, item)) = <<Understood(event, item)>>
<1> DEFINE wire == Says(event, item)
           pushes == SignalPushes(wire)
           parts == <<Described(wire.event, wire.items)>>
                    \o [i \in DOMAIN pushes |-> Described(pushes[i].type, <<pushes[i].item>>)]
<1>1. wire.event = event /\ wire.items = <<item>> /\ pushes = <<>>
  BY DEF Says, SignalPushes
<1>2. parts = <<Described(event, <<item>>)>>
  <2>1. [i \in DOMAIN pushes |-> Described(pushes[i].type, <<pushes[i].item>>)] = <<>>
    BY <1>1
  <2> HIDE DEF wire, pushes
  <2> QED BY <1>1, <2>1
<1>3. InboundEvents(wire) = [i \in DOMAIN parts |-> Finished(parts[i])]
  BY DEF InboundEvents, Finished
<1> HIDE DEF parts
<1>4. [i \in DOMAIN parts |-> Finished(parts[i])] = <<Finished(Described(event, <<item>>))>>
  BY <1>2
<1> QED BY <1>3, <1>4, FinishedIs

LEMMA PairIs ==
  ASSUME NEW a, NEW c
  PROVE  <<a>> \o <<c>> = <<a, c>>
<1> DEFINE S == {a, c}
           p == <<a>>
           q == <<c>>
           r == <<a, c>>
<1>1. p \in Seq(S) /\ q \in Seq(S)
  OBVIOUS
<1>2. Len(p) = 1 /\ Len(q) = 1 /\ p[1] = a /\ q[1] = c
  OBVIOUS
<1>3. r \in Seq(S)
  OBVIOUS
<1>4. Len(r) = 2 /\ r[1] = a /\ r[2] = c
  OBVIOUS
<1> HIDE DEF S, p, q, r
<1>5. /\ p \o q \in Seq(S) /\ Len(p \o q) = Len(p) + Len(q)
      /\ \A i \in 1 .. Len(p) + Len(q) : (p \o q)[i] = IF i <= Len(p) THEN p[i] ELSE q[i - Len(p)]
  BY <1>1, ConcatProperties
<1>6. Len(p \o q) = Len(r)
  BY <1>2, <1>4, <1>5
<1>7. \A i \in 1..Len(p \o q) : (p \o q)[i] = r[i]
  BY <1>2, <1>4, <1>5
<1>8. p \o q = r
  BY <1>3, <1>5, <1>6, <1>7, SeqEqual
<1> QED BY <1>8 DEF p, q, r

\* A push is recorded as the notice of it and the event in it, whatever its form.
LEMMA PushedIs ==
  ASSUME NEW form \in Forms, NEW event, NEW item
  PROVE  InboundEvents(Pushes(form, event, item)) = <<PushNotice, Understood(event, item)>>
<1> DEFINE wire == Pushes(form, event, item)
           pushes == SignalPushes(wire)
           parts == <<Described(wire.event, wire.items)>>
                    \o [i \in DOMAIN pushes |-> Described(pushes[i].type, <<pushes[i].item>>)]
           push == [form |-> form, type |-> event, item |-> item]
<1>1. wire.event = "bmsg_push" /\ wire.items = <<>> /\ wire.pushes = <<push>>
  BY DEF Pushes
<1>2. pushes = <<push>>
  <2>1. wire.pushes[1].form \in {"object", "text", "wrapped"}
    BY <1>1 DEF Forms
  <2> QED BY <1>1, <2>1 DEF SignalPushes
<1>3. Described(wire.event, wire.items) = PushNotice
  BY <1>1 DEF Described, InboundTypes, PushNotice
<1>4. [i \in DOMAIN pushes |-> Described(pushes[i].type, <<pushes[i].item>>)] = <<Described(event, <<item>>)>>
  <2> HIDE DEF pushes
  <2> QED BY <1>2
<1>5. parts = <<PushNotice, Described(event, <<item>>)>>
  <2>1. parts = <<PushNotice>> \o <<Described(event, <<item>>)>>
    BY <1>3, <1>4
  <2> HIDE DEF parts
  <2> QED BY <2>1, PairIs
<1>6. InboundEvents(wire) = [i \in DOMAIN parts |-> Finished(parts[i])]
  BY DEF InboundEvents, Finished
<1> HIDE DEF parts
<1>7. Finished(PushNotice) = PushNotice
  BY DEF Finished, PushNotice
<1>8. [i \in DOMAIN parts |-> Finished(parts[i])] = <<PushNotice, Finished(Described(event, <<item>>))>>
  BY <1>5, <1>7
<1> QED BY <1>6, <1>8, FinishedIs

ItemRecords ==
  [word : Words \cup {None}, code : Nat \cup {None}, ice : Nat \cup {None}, type : Words \cup {None},
   data : DataRecords \cup {None}]

Packed(type, w, z) ==
  IF type = "candidate" THEN w = None /\ z = None
  ELSE (w = "plain" /\ z = None) \/ (w = "" /\ z = "packed") \/ (w = "packed" /\ z = None)

\* Each packing of a description is one that normalizeSoacPayload unpacks.
LEMMA PackingIs ==
  ASSUME NEW type, NEW p \in Packings(type)
  PROVE  Packed(type, p[1], p[2])
<1>1. CASE type = "candidate"
  BY <1>1 DEF Packings, Packed
<1>2. CASE type # "candidate"
  <2>1. CASE p = <<"plain", None>>
    BY <1>2, <2>1 DEF Packed
  <2>2. CASE p = <<"", "packed">>
    BY <1>2, <2>2 DEF Packed
  <2>3. CASE p = <<"packed", None>>
    BY <1>2, <2>3 DEF Packed
  <2> QED BY <1>2, <2>1, <2>2, <2>3 DEF Packings
<1> QED BY <1>1, <1>2

\* However the device says it, the gateway notes the same.
LEMMA NormalIs ==
  ASSUME NEW type \in InboundTypes, NEW n \in Sessions, NEW p \in Packings(type), NEW t \in {type, None}
  PROVE  /\ PlainSdp(AddSoacType(type, SoacItem(t, p, n))) = Signal(type, n)
         /\ t = type => PlainSdp(SoacItem(t, p, n)) = Signal(type, n)
<1> DEFINE w == p[1]
           z == p[2]
           d == [Data EXCEPT !.type = t, !.sdp = w, !.zip = z, !.ice = n]
           x == [Item EXCEPT !.data = d]
           full == [Data EXCEPT !.type = type, !.sdp = w, !.zip = z, !.ice = n]
           y == [Item EXCEPT !.data = full]
           last == [Data EXCEPT !.type = type, !.sdp = IF type = "candidate" THEN None ELSE "plain", !.ice = n]
<1> HIDE DEF w, z
<1>p. Packed(type, w, z)
  BY PackingIs DEF w, z
<1>0. n \in Nat /\ type \in Words /\ {"plain", "packed", ""} \subseteq Words
  <2>1. n \in Nat
    BY BoundsAssumption DEF Sessions
  <2>2. type \in Words /\ {"plain", "packed", ""} \subseteq Words
    BY DEF InboundTypes, Words
  <2> QED BY <2>1, <2>2
<1>1. Data \in DataRecords /\ Item \in ItemRecords
  BY DEF Data, DataRecords, Item, ItemRecords
<1>2. w \in Words \cup {None} /\ z \in Words \cup {None}
  BY <1>0, <1>p DEF Packed
<1>3. \A r \in DataRecords : r # None
  BY NoneAssumption, Zenon DEF DataRecords
<1>4. /\ d \in DataRecords /\ d.type = t /\ d.sdp = w /\ d.zip = z /\ d.ice = n /\ d.code = None
      /\ full \in DataRecords /\ full.type = type /\ full.sdp = w /\ full.zip = z /\ full.ice = n /\ full.code = None
  BY <1>0, <1>1, <1>2 DEF Data, DataRecords
<1>5. /\ last \in DataRecords /\ last.type = type /\ last.ice = n /\ last.zip = None /\ last.code = None
      /\ last.sdp = IF type = "candidate" THEN None ELSE "plain"
  <2>1. (IF type = "candidate" THEN None ELSE "plain") \in Words \cup {None}
    BY <1>0
  <2> QED BY <1>0, <1>1, <2>1 DEF Data, DataRecords
<1>6. Signal(type, n) = [Item EXCEPT !.data = last]
  BY DEF Signal
<1> HIDE DEF d, full, last
<1>7. x \in ItemRecords /\ x.data = d /\ y \in ItemRecords /\ y.data = full
  BY <1>1, <1>4 DEF ItemRecords, Item
<1>8. AddSoacType(type, x) = y /\ (t = type => x = y)
  <2>1. t = type => d = full
    BY <1>4 DEF DataRecords
  <2>2. CASE t = type
    <3>1. x.data # None /\ x.data.type # None
      BY <1>0, <1>3, <1>4, <1>7, <2>2, NoneAssumption
    <3> QED BY <2>1, <2>2, <3>1 DEF AddSoacType
  <2>3. CASE t = None /\ t # type
    <3>1. x.data # None /\ x.data.type = None
      BY <1>3, <1>4, <1>7, <2>3
    <3>2. [d EXCEPT !.type = type] = full
      BY <1>0, <1>4 DEF DataRecords
    <3>3. AddSoacType(type, x) = [x EXCEPT !.data = [d EXCEPT !.type = type]]
      BY <1>7, <3>1 DEF AddSoacType
    <3>4. [x EXCEPT !.data = full] = y
      BY <1>7, <1>1, <1>4 DEF ItemRecords
    <3> QED BY <2>3, <3>2, <3>3, <3>4
  <2> QED BY <2>2, <2>3
<1>9. PlainSdp(y) = [Item EXCEPT !.data = last]
  <2>1. y.data # None
    BY <1>3, <1>4, <1>7
  <2>2. CASE full.sdp = "plain" \/ "packed" \notin {full.zip, full.sdp}
    <3>1. PlainSdp(y) = y
      BY <1>7, <2>1, <2>2 DEF PlainSdp
    <3>2. full.sdp = last.sdp /\ full.zip = last.zip
      BY <1>4, <1>5, <1>p, <2>2 DEF Packed
    <3>3. full = last
      BY <1>4, <1>5, <3>2 DEF DataRecords
    <3> QED BY <3>1, <3>3
  <2>3. CASE ~(full.sdp = "plain" \/ "packed" \notin {full.zip, full.sdp})
    <3>1. PlainSdp(y) = [y EXCEPT !.data = [[full EXCEPT !.sdp = "plain"] EXCEPT !.zip = None]]
      BY <1>7, <2>1, <2>3 DEF PlainSdp
    <3>2. type # "candidate"
      BY <1>4, <1>p, <2>3, NoneAssumption DEF Packed, Words
    <3>3. [[full EXCEPT !.sdp = "plain"] EXCEPT !.zip = None] = last
      BY <1>0, <1>4, <1>5, <3>2 DEF DataRecords
    <3>4. [y EXCEPT !.data = last] = [Item EXCEPT !.data = last]
      BY <1>1, <1>5, <1>7 DEF ItemRecords
    <3> QED BY <3>1, <3>3, <3>4
  <2> QED BY <2>2, <2>3
<1>10. /\ PlainSdp(AddSoacType(type, x)) = Signal(type, n)
       /\ t = type => PlainSdp(x) = Signal(type, n)
  <2> HIDE DEF x, y
  <2> QED BY <1>6, <1>8, <1>9
<1>11. SoacItem(t, p, n) = x
  BY DEF SoacItem, d, w, z
<1> HIDE DEF x
<1> QED BY <1>10, <1>11

-----------------------------------------------------------------------------
(* What the entries of the log show to the diagnostics. *)

Sends(events, part) == events = <<part>> \/ events = <<PushNotice, part>>
SoacPart(type, n) == [event |-> "soac", items |-> <<Signal(type, n)>>]

\* An event in any of its ways is recorded as the same event, after a notice if pushed.
LEMMA WaysSend ==
  ASSUME NEW event, NEW item, NEW wire \in Ways(event, item)
  PROVE  Sends(InboundEvents(wire), Understood(event, item))
<1>1. CASE wire = Says(event, item)
  BY <1>1, SaidIs DEF Sends
<1>2. ASSUME NEW f \in Forms, wire = Pushes(f, event, item)
      PROVE  Sends(InboundEvents(wire), Understood(event, item))
  BY <1>2, PushedIs DEF Sends
<1>3. wire = Says(event, item) \/ \E f \in Forms : wire = Pushes(f, event, item)
  BY Zenon DEF Ways, Forms
<1> QED BY <1>1, <1>2, <1>3

\* A SOAC message in any of its ways, with or without its type, is recorded as the same event.
LEMMA SoacWaysSend ==
  ASSUME NEW type \in InboundTypes, NEW n \in Sessions, NEW wire \in SoacWays(type, n)
  PROVE  Sends(InboundEvents(wire), SoacPart(type, n))
<1>1. PICK p \in Packings(type) : \/ wire \in Ways(type, SoacItem(type, p, n))
                                  \/ wire \in Ways(type, SoacItem(None, p, n))
                                  \/ wire = Says("soac", SoacItem(type, p, n))
  BY DEF SoacWays
<1>2. ASSUME NEW t \in {type, None}, wire \in Ways(type, SoacItem(t, p, n))
      PROVE  Sends(InboundEvents(wire), SoacPart(type, n))
  <2>1. PlainSdp(AddSoacType(type, SoacItem(t, p, n))) = Signal(type, n)
    BY NormalIs
  <2>2. Understood(type, SoacItem(t, p, n)) = SoacPart(type, n)
    BY <2>1 DEF Understood, SoacPart
  <2> QED BY <1>2, <2>2, WaysSend
<1>3. ASSUME wire = Says("soac", SoacItem(type, p, n))
      PROVE  Sends(InboundEvents(wire), SoacPart(type, n))
  <2>1. PlainSdp(SoacItem(type, p, n)) = Signal(type, n)
    BY NormalIs
  <2>2. Understood("soac", SoacItem(type, p, n)) = SoacPart(type, n)
    BY <2>1 DEF Understood, SoacPart, InboundTypes
  <2> QED BY <1>3, <2>2, SaidIs DEF Sends
<1> QED BY <1>1, <1>2, <1>3

\* What an event of the log shows to the diagnostics.
Shows(step, e) ==
  CASE step = "acked"    -> e.inbound /\ e.event = "control:ack" /\ ~AckFails(e.items)
    [] step = "refused"  -> e.inbound /\ e.event = "control:ack" /\ AckFails(e.items)
    [] step = "offered"  -> ~e.inbound /\ e.event = "soac" /\ "offer" \in TypesOf(e.items)
    [] step = "denied"   -> e.inbound /\ e.event = "be-controlled" /\ Code(e.items) \notin {None, 0}
    [] step = "answered" -> e.inbound /\ e.event = "soac" /\ TypesOf(e.items) \cap {"answer", "restart_ice"} # {}
    [] step = "left"     -> e.inbound /\ e.event \in {"leave", "left", "publisher_disconnect", "released"}
ShownSteps == Steps \ {"recent"}

\* The SOAC types of a message of one item are the item's and its data record's.
LEMMA TypesOfOne ==
  ASSUME NEW x
  PROVE  TypesOf(<<x>>) = ({x.type} \cup IF x.data = None THEN {} ELSE {x.data.type}) \cap SoacTypes
<1>1. DOMAIN <<x>> = {1} /\ <<x>>[1] = x
  OBVIOUS
<1> DEFINE items == <<x>>
<1> HIDE DEF items
<1>2. TypesOf(items) = ({items[1].type} \cup IF items[1].data = None THEN {} ELSE {items[1].data.type}) \cap SoacTypes
  BY <1>1 DEF TypesOf, items
<1> QED BY <1>1, <1>2 DEF items

\* Code and session of a message of one item are the item's, or else its data record's.
LEMMA SelectOne ==
  ASSUME NEW x
  PROVE  /\ Code(<<x>>) = IF x.code # None \/ x.data = None THEN x.code ELSE x.data.code
         /\ Ice(<<x>>)  = IF x.ice # None \/ x.data = None THEN x.ice ELSE x.data.ice
<1> DEFINE items == <<x>>
           OfC(r) == IF r.code # None \/ r.data = None THEN r.code ELSE r.data.code
           OfI(r) == IF r.ice # None \/ r.data = None THEN r.ice ELSE r.data.ice
           TestC(r) == OfC(r) # None
           TestI(r) == OfI(r) # None
<1>1. DOMAIN items = {1} /\ items[1] = x /\ Len(items) = 1 /\ 1..1 = {1}
  OBVIOUS
<1> HIDE DEF items
<1>2. Code(items) = IF \E i \in DOMAIN items : OfC(items[i]) # None
                    THEN OfC(items[SelectInSeq(items, TestC)]) ELSE None
  BY Zenon DEF Code, Nested
<1>3. Ice(items) = IF \E i \in DOMAIN items : OfI(items[i]) # None
                   THEN OfI(items[SelectInSeq(items, TestI)]) ELSE None
  BY Zenon DEF Ice, Nested
<1>4. TestC(x) => SelectInSeq(items, TestC) = 1
  <2> SUFFICES ASSUME TestC(x) PROVE SelectInSeq(items, TestC) = 1
    OBVIOUS
  <2>1. {i \in 1..Len(items) : TestC(items[i])} = {1}
    BY <1>1
  <2> QED BY <2>1 DEF SelectInSeq, Min
<1>5. TestI(x) => SelectInSeq(items, TestI) = 1
  <2> SUFFICES ASSUME TestI(x) PROVE SelectInSeq(items, TestI) = 1
    OBVIOUS
  <2>1. {i \in 1..Len(items) : TestI(items[i])} = {1}
    BY <1>1
  <2> QED BY <2>1 DEF SelectInSeq, Min
<1>6. Code(items) = OfC(x)
  BY <1>1, <1>2, <1>4
<1>7. Ice(items) = OfI(x)
  BY <1>1, <1>3, <1>5
<1> QED BY <1>6, <1>7 DEF items

Marks(e, S) == \A step \in ShownSteps : Shows(step, e) <=> step \in S

LEMMA ShownIs == ShownSteps = {"acked", "refused", "offered", "answered", "denied", "left"}
  BY DEF ShownSteps, Steps

\* What the diagnostics look for, step by step.
LEMMA ShowsIs ==
  ASSUME NEW e
  PROVE  /\ Shows("acked", e) <=> e.inbound /\ e.event = "control:ack" /\ ~AckFails(e.items)
         /\ Shows("refused", e) <=> e.inbound /\ e.event = "control:ack" /\ AckFails(e.items)
         /\ Shows("offered", e) <=> ~e.inbound /\ e.event = "soac" /\ "offer" \in TypesOf(e.items)
         /\ Shows("denied", e) <=> e.inbound /\ e.event = "be-controlled" /\ Code(e.items) \notin {None, 0}
         /\ Shows("answered", e) <=> e.inbound /\ e.event = "soac"
                                     /\ TypesOf(e.items) \cap {"answer", "restart_ice"} # {}
         /\ Shows("left", e) <=> e.inbound /\ e.event \in {"leave", "left", "publisher_disconnect", "released"}
  BY DEF Shows

\* Notices of pushes and of network changes show no step.
LEMMA NothingShown ==
  ASSUME NEW e, e.inbound = TRUE, e.event \in {"bmsg_push", "switch_network_notify"}
  PROVE  Marks(e, {})
  BY ShowsIs, ShownIs DEF Marks

\* Our own control request shows no step.
LEMMA ControlShows ==
  ASSUME NEW e, e.inbound = FALSE, e.event = "control"
  PROVE  Marks(e, {})
  BY ShowsIs, ShownIs DEF Marks

\* A SOAC event of the device shows an answer, or nothing if it is a candidate.
LEMMA SoacShows ==
  ASSUME NEW e, e.inbound = TRUE, e.event = "soac", NEW type \in InboundTypes, NEW n \in Sessions,
         e.items = <<Signal(type, n)>>
  PROVE  Marks(e, IF type = "candidate" THEN {} ELSE {"answered"})
<1>1. TypesOf(e.items) = {type}
  <2>1. TypesOf(e.items) = ({None} \cup {type}) \cap SoacTypes
    BY SignalIs, TypesOfOne DEF SoacTypes
  <2>2. None \notin SoacTypes
    BY NoneAssumption DEF SoacTypes, InboundTypes, Words
  <2> QED BY <2>1, <2>2 DEF SoacTypes
<1>2. Shows("answered", e) <=> type # "candidate"
  <2>1. Shows("answered", e) <=> {type} \cap {"answer", "restart_ice"} # {}
    BY <1>1, ShowsIs
  <2> QED BY <2>1 DEF InboundTypes
<1>3. \A step \in ShownSteps : Shows(step, e) => step = "answered"
  BY ShowsIs, ShownIs
<1> QED BY <1>2, <1>3 DEF Marks

\* A SOAC event of ours shows an offer, if it is one, and names its session.
LEMMA SentShows ==
  ASSUME NEW e, e.inbound = FALSE, e.event = "soac", NEW type \in SoacTypes, NEW n \in Sessions,
         e.items = Soac(type, n).items
  PROVE  Marks(e, IF type = "offer" THEN {"offered"} ELSE {}) /\ Ice(e.items) = n
<1> DEFINE d == [Data EXCEPT !.type = type, !.ice = n]
           x == [Item EXCEPT !.data = d]
<1>0. n \in Nat
  BY BoundsAssumption DEF Sessions
<1>1. d \in DataRecords /\ d.type = type /\ d.ice = n
  <2>1. type \in Words
    BY DEF SoacTypes, InboundTypes, Words
  <2> QED BY <1>0, <2>1 DEF Data, DataRecords
<1>2. d # None
  <2> HIDE DEF d
  <2> QED BY <1>1, NoneAssumption, Zenon DEF DataRecords
<1>3. e.items = <<x>>
  BY DEF Soac
<1> HIDE DEF d
<1>4. x.data = d /\ x.type = None /\ x.ice = None
  BY DEF Item
<1> HIDE DEF x
<1>5. TypesOf(e.items) = {type}
  <2>1. TypesOf(e.items) = ({None} \cup {type}) \cap SoacTypes
    BY <1>1, <1>2, <1>3, <1>4, TypesOfOne
  <2>2. None \notin SoacTypes
    BY NoneAssumption DEF SoacTypes, InboundTypes, Words
  <2> QED BY <2>1, <2>2
<1>6. Ice(e.items) = n
  BY <1>1, <1>2, <1>3, <1>4, SelectOne
<1>7. Shows("offered", e) <=> type = "offer"
  BY <1>5, ShowsIs
<1>8. \A step \in ShownSteps : Shows(step, e) => step = "offered"
  BY ShowsIs, ShownIs
<1> QED BY <1>6, <1>7, <1>8 DEF Marks

\* A record with an ice id or a code, or with one in its data.
NamedItems(n) == {[Item EXCEPT !.ice = n], [Item EXCEPT !.data = [Data EXCEPT !.ice = n]]}
CodedItems(c) == {[Item EXCEPT !.code = c], [Item EXCEPT !.data = [Data EXCEPT !.code = c]]}

\* The session a farewell names is read, wherever in the message it is.
LEMMA NamedIs ==
  ASSUME NEW n \in Nat, NEW x \in NamedItems(n)
  PROVE  Ice(<<x>>) = n
<1> DEFINE d == [Data EXCEPT !.ice = n]
<1>1. n # None
  BY NoneAssumption
<1>2. CASE x = [Item EXCEPT !.ice = n]
  <2>1. x.ice = n
    BY <1>2 DEF Item
  <2> QED BY <1>1, <2>1, SelectOne
<1>3. CASE x = [Item EXCEPT !.data = d]
  <2>1. d \in DataRecords /\ d.ice = n
    BY DEF Data, DataRecords
  <2> HIDE DEF d
  <2>2. d # None
    BY <2>1, NoneAssumption, Zenon DEF DataRecords
  <2>3. x.data = d /\ x.ice = None
    BY <1>3 DEF Item
  <2> QED BY <2>1, <2>2, <2>3, SelectOne
<1> QED BY <1>2, <1>3 DEF NamedItems

\* The result code of a report is read, wherever in the message it is.
LEMMA CodedIs ==
  ASSUME NEW c \in Nat, NEW x \in CodedItems(c)
  PROVE  Code(<<x>>) = c
<1> DEFINE d == [Data EXCEPT !.code = c]
<1>1. c # None
  BY NoneAssumption
<1>2. CASE x = [Item EXCEPT !.code = c]
  <2>1. x.code = c
    BY <1>2 DEF Item
  <2> QED BY <1>1, <2>1, SelectOne
<1>3. CASE x = [Item EXCEPT !.data = d]
  <2>1. d \in DataRecords /\ d.code = c
    BY DEF Data, DataRecords
  <2> HIDE DEF d
  <2>2. d # None
    BY <2>1, NoneAssumption, Zenon DEF DataRecords
  <2>3. x.data = d /\ x.code = None
    BY <1>3 DEF Item
  <2> QED BY <2>1, <2>2, <2>3, SelectOne
<1> QED BY <1>2, <1>3 DEF CodedItems

\* Every farewell shows that the device left.
LEMMA FarewellShows ==
  ASSUME NEW e, e.inbound = TRUE, e.event \in Farewells
  PROVE  Marks(e, {"left"})
<1>1. e.event \in {"leave", "left", "publisher_disconnect", "released"}
  BY FarewellsAssumption
<1>2. Shows("left", e)
  BY <1>1, ShowsIs
<1>3. \A step \in ShownSteps : Shows(step, e) => step = "left"
  BY <1>1, ShowsIs, ShownIs
<1> QED BY <1>2, <1>3 DEF Marks

\* A report shows a denial exactly if its code says so.
LEMMA ControlledShows ==
  ASSUME NEW e, e.inbound = TRUE, e.event = "be-controlled", NEW c \in {0, 7}, NEW x \in CodedItems(c), e.items = <<x>>
  PROVE  Marks(e, IF c = 0 THEN {} ELSE {"denied"})
<1>1. Code(e.items) = c /\ c # None
  BY CodedIs, NoneAssumption
<1>2. Shows("denied", e) <=> c # 0
  BY <1>1, ShowsIs
<1>3. \A step \in ShownSteps : Shows(step, e) => step = "denied"
  BY ShowsIs, ShownIs
<1> QED BY <1>2, <1>3 DEF Marks

\* An answer to a control request is read as the device meant it.
LEMMA AckIs ==
  /\ \A items \in Acks.accepts : ~AckFails(items)
  /\ \A items \in Acks.refuses : AckFails(items)
<1> DEFINE result(c) == [Item EXCEPT !.code = c]
           entry(w) == [Item EXCEPT !.word = w]
<1>0. /\ None \notin Nat /\ None # "success" /\ None # "failed"
  BY NoneAssumption DEF Words
<1>1. \A c : result(c).word = None /\ result(c).code = c
  BY DEF Item
<1>2. \A w : entry(w).word = w /\ entry(w).code = None
  BY DEF Item
<1>3. Acks.accepts = {<<entry("success"), result(0)>>, <<result(None)>>}
  BY DEF Acks
<1>4. Acks.refuses = {<<entry("failed"), result(0)>>, <<entry("success"), result(7)>>}
  BY DEF Acks
<1> HIDE DEF result, entry
<1>5. ~AckFails(<<entry("success"), result(0)>>)
  <2> DEFINE items == <<entry("success"), result(0)>>
  <2>1. DOMAIN items = 1..2 /\ items[1] = entry("success") /\ items[2] = result(0)
    OBVIOUS
  <2> HIDE DEF items
  <2>2. ~AckFails(items)
    BY <1>0, <1>1, <1>2, <2>1 DEF AckFails
  <2> QED BY <2>2 DEF items
<1>6. ~AckFails(<<result(None)>>)
  <2> DEFINE items == <<result(None)>>
  <2>1. DOMAIN items = 1..1 /\ items[1] = result(None)
    OBVIOUS
  <2> HIDE DEF items
  <2>2. ~AckFails(items)
    BY <1>0, <1>1, <1>2, <2>1 DEF AckFails
  <2> QED BY <2>2 DEF items
<1>7. AckFails(<<entry("failed"), result(0)>>)
  <2> DEFINE items == <<entry("failed"), result(0)>>
  <2>1. items[1] = entry("failed")
    OBVIOUS
  <2> HIDE DEF items
  <2>2. AckFails(items)
    BY <1>0, <1>2, <2>1 DEF AckFails
  <2> QED BY <2>2 DEF items
<1>8. AckFails(<<entry("success"), result(7)>>)
  <2> DEFINE items == <<entry("success"), result(7)>>
  <2>1. DOMAIN items = 1..2 /\ items[1] = entry("success") /\ items[2] = result(7)
    OBVIOUS
  <2> HIDE DEF items
  <2>2. items[2].word = None /\ (\A j \in 1..(2 - 1) : items[j].word # None) /\ items[2].code \notin {None, 0}
    BY <1>0, <1>1, <1>2, <2>1
  <2>3. AckFails(items)
    BY <2>1, <2>2 DEF AckFails
  <2> QED BY <2>3 DEF items
<1> QED BY <1>3, <1>4, <1>5, <1>6, <1>7, <1>8

\* The answer to a control request shows an acknowledgement or a refusal, and not both.
LEMMA AckShows ==
  ASSUME NEW e, e.inbound = TRUE, e.event = "control:ack", e.items \in Acks.accepts \cup Acks.refuses
  PROVE  /\ Marks(e, IF e.items \in Acks.accepts THEN {"acked"} ELSE {"refused"})
         /\ e.items \in Acks.accepts <=> e.items \notin Acks.refuses
<1>1. Shows("acked", e) <=> ~AckFails(e.items)
  BY ShowsIs
<1>2. Shows("refused", e) <=> AckFails(e.items)
  BY ShowsIs
<1>3. \A step \in ShownSteps : Shows(step, e) => step \in {"acked", "refused"}
  BY ShowsIs, ShownIs
<1> QED BY <1>1, <1>2, <1>3, AckIs DEF Marks

-----------------------------------------------------------------------------
(* The log: consecutive ids, of which the oldest may go. *)

Entries == ToSet(log)

LogTypes ==
  /\ log \in Seq(Entries) /\ nextId \in Nat /\ Len(log) < nextId
  /\ \A i \in DOMAIN log : log[i].id = nextId - 1 - Len(log) + i
  /\ evicted \in BOOLEAN /\ missed \in BOOLEAN

NewEvents(inbound, events) ==
  [i \in DOMAIN events |-> [id |-> nextId + i - 1, inbound |-> inbound,
                            event |-> events[i].event, items |-> events[i].items]]
Longer(inbound, events) == log \o NewEvents(inbound, events)

\* The log gains these events and may lose its oldest ones.
Gains(new) ==
  /\ Entries' \subseteq Entries \cup new
  /\ \A e \in Entries', f \in Entries \cup new : f.id >= e.id => f \in Entries'
  /\ ~evicted' => ~evicted /\ Entries' = Entries \cup new

\* Of the longer log the first d events are dropped.
Drops(inbound, events, d) ==
  /\ log' = SubSeq(Longer(inbound, events), d + 1, Len(Longer(inbound, events)))
  /\ nextId' = nextId + Len(events)
  /\ evicted' \in BOOLEAN /\ missed' \in BOOLEAN /\ (~evicted' => ~evicted /\ d = 0)

\* Ids in the log are older than the next one and name one event each.
LEMMA LogIds ==
  ASSUME LogTypes
  PROVE  /\ \A e \in Entries : e.id \in Nat /\ e.id < nextId
         /\ \A e, f \in Entries : e.id = f.id => e = f
<1>1. /\ nextId \in Nat /\ Len(log) \in Nat /\ Len(log) < nextId /\ DOMAIN log = 1..Len(log)
      /\ Entries = {log[i] : i \in DOMAIN log}
  BY DEF LogTypes, Entries, ToSet
<1>2. ASSUME NEW e \in Entries PROVE \E i \in DOMAIN log : e = log[i] /\ e.id = nextId - 1 - Len(log) + i
  BY <1>1 DEF LogTypes
<1> QED BY <1>1, <1>2

\* What is recorded has the next ids, and is otherwise as it came.
LEMMA NewIds ==
  ASSUME LogTypes, NEW P, NEW events \in Seq(P), NEW inbound, NEW i \in DOMAIN events
  PROVE  /\ NewEvents(inbound, events)[i].id = nextId + i - 1
         /\ NewEvents(inbound, events)[i].inbound = inbound
         /\ NewEvents(inbound, events)[i].event = events[i].event
         /\ NewEvents(inbound, events)[i].items = events[i].items
  BY DEF NewEvents

\* The log with the new events, before the oldest ones go, has consecutive ids.
LEMMA LongerIs ==
  ASSUME LogTypes, NEW P, NEW events \in Seq(P), NEW inbound
  PROVE  LET all == Longer(inbound, events)
             new == NewEvents(inbound, events)
         IN  /\ new \in Seq(ToSet(new)) /\ Len(new) = Len(events)
             /\ all \in Seq(Entries \cup ToSet(new)) /\ Len(all) = Len(log) + Len(events)
             /\ Entries \cup ToSet(new) = {all[i] : i \in 1..Len(all)}
             /\ \A i \in 1..Len(log) : all[i] = log[i]
             /\ \A i \in 1..Len(all) : all[i].id = nextId - 1 - Len(log) + i
<1> DEFINE all == Longer(inbound, events)
           new == NewEvents(inbound, events)
           S == Entries \cup ToSet(new)
<1>1. new \in Seq(ToSet(new)) /\ Len(new) = Len(events) /\ DOMAIN new = 1..Len(events)
  BY DEF NewEvents, ToSet
<1>2. log \in Seq(S) /\ new \in Seq(S)
  <2>1. log \in Seq(Entries)
    BY DEF LogTypes
  <2> HIDE DEF new
  <2> QED BY <1>1, <2>1
<1>3. Len(log) \in Nat /\ Len(events) \in Nat /\ nextId \in Nat /\ DOMAIN log = 1..Len(log)
  BY DEF LogTypes
<1>i. \A i \in 1..Len(events) : new[i].id = nextId + i - 1
  BY NewIds
<1>l. \A i \in 1..Len(log) : log[i].id = nextId - 1 - Len(log) + i
  BY <1>3 DEF LogTypes
<1> HIDE DEF new, S
<1>4. /\ all \in Seq(S) /\ Len(all) = Len(log) + Len(new)
      /\ \A i \in 1..(Len(log) + Len(new)) : all[i] = IF i <= Len(log) THEN log[i] ELSE new[i - Len(log)]
  <2>1. all = log \o new
    BY DEF Longer, new
  <2> HIDE DEF all
  <2> QED BY <1>2, <2>1, ConcatProperties
<1> HIDE DEF all
<1>5. \A i \in 1..Len(log) : all[i] = log[i]
  BY <1>1, <1>3, <1>4
<1>6. \A i \in 1..Len(events) : all[Len(log) + i] = new[i]
  BY <1>1, <1>3, <1>4
<1>7. \A i \in 1..Len(all) : i \in 1..Len(log) \/ \E j \in 1..Len(events) : i = Len(log) + j
  <2> SUFFICES ASSUME NEW i \in 1..Len(all), i \notin 1..Len(log) PROVE \E j \in 1..Len(events) : i = Len(log) + j
    OBVIOUS
  <2>1. i - Len(log) \in 1..Len(events) /\ i = Len(log) + (i - Len(log))
    BY <1>1, <1>3, <1>4
  <2> QED BY <2>1
<1>8. S = {all[i] : i \in 1..Len(all)}
  <2>1. S = {log[i] : i \in 1..Len(log)} \cup {new[i] : i \in 1..Len(events)}
    BY <1>1, <1>3 DEF S, Entries, ToSet
  <2>2. \A i \in 1..Len(log) : i \in 1..Len(all)
    BY <1>1, <1>3, <1>4
  <2>3. \A i \in 1..Len(events) : Len(log) + i \in 1..Len(all)
    BY <1>1, <1>3, <1>4
  <2>4. \A i \in 1..Len(all) : all[i] \in S
    BY <1>4
  <2>5. \A e \in S : \E i \in 1..Len(all) : e = all[i]
    BY <1>5, <1>6, <2>1, <2>2, <2>3
  <2> QED BY <2>4, <2>5
<1>9. \A i \in 1..Len(all) : all[i].id = nextId - 1 - Len(log) + i
  <2> SUFFICES ASSUME NEW i \in 1..Len(all) PROVE all[i].id = nextId - 1 - Len(log) + i
    OBVIOUS
  <2>1. CASE i \in 1..Len(log)
    BY <1>5, <1>l, <2>1
  <2>2. ASSUME NEW j \in 1..Len(events), i = Len(log) + j PROVE all[i].id = nextId - 1 - Len(log) + i
    BY <1>3, <1>6, <1>i, <2>2
  <2> QED BY <1>7, <2>1, <2>2
<1> QED BY <1>1, <1>4, <1>5, <1>8, <1>9 DEF all, new, S

\* The end of a sequence of consecutive ids is a log again.
LEMMA EndIsALog ==
  ASSUME LogTypes, NEW P, NEW events \in Seq(P), NEW inbound, NEW d \in 0..Len(Longer(inbound, events)),
         Drops(inbound, events, d)
  PROVE  LogTypes' /\ Gains(ToSet(NewEvents(inbound, events)))
<1> DEFINE all == Longer(inbound, events)
           new == ToSet(NewEvents(inbound, events))
           n == Len(all)
<1>1. /\ all \in Seq(Entries \cup new) /\ n = Len(log) + Len(events) /\ Entries \cup new = {all[i] : i \in 1..n}
      /\ \A i \in 1..n : all[i].id = nextId - 1 - Len(log) + i
  BY LongerIs
<1>2. Len(log) \in Nat /\ Len(events) \in Nat /\ nextId \in Nat /\ Len(log) < nextId
  BY DEF LogTypes
<1>3. n \in Nat /\ d \in 0..n
  BY <1>1
<1>s. log' = SubSeq(all, d + 1, n)
  BY DEF Drops
<1>d. nextId' = nextId + Len(events) /\ evicted' \in BOOLEAN /\ missed' \in BOOLEAN /\ (~evicted' => ~evicted /\ d = 0)
  BY DEF Drops
<1> HIDE DEF all, new, n
<1>4. /\ log' \in Seq(Entries \cup new) /\ Len(log') = n - d
      /\ \A i \in 1..(n - d) : log'[i] = all[d + i]
  <2>1. \A i \in (d + 1)..n : all[i] \in Entries \cup new
    BY <1>1, <1>3
  <2>2. d + 1 \in Int /\ n \in Int
    BY <1>3
  <2>3. /\ log' \in Seq(Entries \cup new) /\ Len(log') = IF d + 1 <= n THEN n - (d + 1) + 1 ELSE 0
        /\ \A i \in 1..(n - (d + 1) + 1) : log'[i] = all[(d + 1) + i - 1]
    BY <1>s, <2>1, <2>2, SubSeqProperties
  <2> QED BY <1>3, <2>3
<1>5. Entries' = {log'[i] : i \in DOMAIN log'} /\ DOMAIN log' = 1..Len(log')
  BY <1>4 DEF Entries, ToSet
<1>6. log' \in Seq(Entries')
  BY <1>4, <1>5
<1>7. Entries' = {all[i] : i \in (d + 1)..n}
  <2>1. \A i \in 1..(n - d) : d + i \in (d + 1)..n
    BY <1>3
  <2>2. \A i \in (d + 1)..n : i - d \in 1..(n - d) /\ d + (i - d) = i
    BY <1>3
  <2>3. \A i \in (d + 1)..n : log'[i - d] = all[i]
    BY <1>4, <2>2
  <2>4. ASSUME NEW e \in Entries' PROVE \E i \in (d + 1)..n : e = all[i]
    BY <1>4, <1>5, <2>1
  <2>5. \A i \in (d + 1)..n : all[i] \in Entries'
    BY <1>4, <1>5, <2>2, <2>3
  <2> QED BY <2>4, <2>5
<1>8. \A i \in DOMAIN log' : log'[i].id = nextId' - 1 - Len(log') + i
  <2> SUFFICES ASSUME NEW i \in 1..(n - d) PROVE log'[i].id = nextId' - 1 - Len(log') + i
    BY <1>4, <1>5
  <2>1. log'[i] = all[d + i] /\ d + i \in 1..n
    BY <1>3, <1>4
  <2>2. all[d + i].id = nextId - 1 - Len(log) + (d + i)
    BY <1>1, <2>1
  <2>3. nextId' - 1 - Len(log') = nextId - 1 - Len(log) + d
    BY <1>1, <1>2, <1>3, <1>4, <1>d
  <2> QED BY <1>2, <1>3, <2>1, <2>2, <2>3
<1>9. LogTypes'
  <2>1. nextId' \in Nat /\ Len(log') < nextId'
    BY <1>1, <1>2, <1>3, <1>4, <1>d
  <2> QED BY <1>6, <1>8, <1>d, <2>1 DEF LogTypes
<1>10. Gains(new)
  <2>1. \A i \in (d + 1)..n : i \in 1..n
    BY <1>3
  <2>2. Entries' \subseteq Entries \cup new
    BY <1>1, <1>7, <2>1
  <2>3. ASSUME NEW e \in Entries', NEW f \in Entries \cup new, f.id >= e.id PROVE f \in Entries'
    <3>1. PICK i \in (d + 1)..n : e = all[i]
      BY <1>7
    <3>2. PICK j \in 1..n : f = all[j]
      BY <1>1
    <3>3. e.id = nextId - 1 - Len(log) + i /\ f.id = nextId - 1 - Len(log) + j
      BY <1>1, <2>1, <3>1, <3>2
    <3>4. j \in (d + 1)..n
      BY <1>2, <1>3, <2>3, <3>3
    <3> QED BY <1>7, <3>2, <3>4
  <2>4. ~evicted' => ~evicted /\ Entries' = Entries \cup new
    <3>1. d = 0 => Entries' = Entries \cup new
      BY <1>1, <1>7
    <3> QED BY <1>d, <3>1
  <2> QED BY <2>2, <2>3, <2>4 DEF Gains
<1> QED BY <1>9, <1>10 DEF new

\* What recording events does to the log.
LEMMA RecordDrops ==
  ASSUME LogTypes, NEW P, NEW events \in Seq(P), NEW inbound, NEW seen \in Nat, Record(inbound, events, seen)
  PROVE  \E d \in 0..Len(Longer(inbound, events)) :
           /\ Drops(inbound, events, d)
           /\ ~missed' => ~missed /\ \A i \in 1..d : Longer(inbound, events)[i].id <= seen
<1> DEFINE all == Longer(inbound, events)
           lost == IF Len(all) > MaxEvents THEN Len(all) - MaxEvents ELSE 0
<1>1. /\ log' = SubSeq(all, lost + 1, Len(all))
      /\ nextId' = nextId + Len(events)
      /\ evicted' = (evicted \/ lost > 0)
      /\ missed' = (missed \/ \E i \in 1..lost : all[i].id > seen)
  BY Zenon DEF Record, Longer, NewEvents
<1>2. Len(all) \in Nat /\ \A i \in 1..Len(all) : all[i].id \in Int
  <2>1. /\ all \in Seq(Entries \cup ToSet(NewEvents(inbound, events)))
        /\ \A i \in 1..Len(all) : all[i].id = nextId - 1 - Len(log) + i
    BY LongerIs
  <2> HIDE DEF all
  <2>2. Len(all) \in Nat /\ Len(log) \in Nat /\ nextId \in Nat
    BY <2>1 DEF LogTypes
  <2> QED BY <2>1, <2>2
<1> HIDE DEF all
<1>3. lost \in 0..Len(all) /\ lost \in Nat
  BY <1>2, BoundsAssumption
<1> HIDE DEF lost
<1>4. evicted' \in BOOLEAN /\ (~evicted' => ~evicted /\ lost = 0)
  <2>1. evicted' \in BOOLEAN /\ (~evicted' => ~evicted /\ ~(lost > 0))
    BY <1>1, Zenon
  <2> QED BY <1>3, <2>1
<1>5. missed' \in BOOLEAN
  BY <1>1, Zenon
<1>6. ~missed' => ~missed /\ \A i \in 1..lost : all[i].id <= seen
  <2>1. \A i \in 1..lost : all[i].id \in Int
    BY <1>2, <1>3
  <2>2. ~missed' => ~missed /\ ~\E i \in 1..lost : all[i].id > seen
    BY <1>1, Zenon
  <2>3. (~\E i \in 1..lost : all[i].id > seen) => \A i \in 1..lost : all[i].id <= seen
    BY <2>1
  <2> QED BY <2>2, <2>3, Zenon
<1>7. Drops(inbound, events, lost)
  BY <1>1, <1>4, <1>5 DEF Drops, all
<1> QED BY <1>3, <1>6, <1>7 DEF all

\* Recording keeps the log a log and adds the events with the next ids.
LEMMA RecordGains ==
  ASSUME LogTypes, NEW P, NEW events \in Seq(P), NEW inbound, NEW seen \in Nat, Record(inbound, events, seen)
  PROVE  LogTypes' /\ Gains(ToSet(NewEvents(inbound, events))) /\ nextId' = nextId + Len(events)
<1>1. PICK d \in 0..Len(Longer(inbound, events)) : Drops(inbound, events, d)
  BY RecordDrops
<1> QED BY <1>1, EndIsALog DEF Drops

-----------------------------------------------------------------------------
(* The inductive invariant of the way of the messages. *)

\* While nothing is evicted, the log shows what has happened; and it shows nothing else.
Known ==
  \A step \in ShownSteps :
    /\ \A e \in Entries : Shows(step, e) => facts[step]
    /\ ~evicted /\ facts[step] => \E e \in Entries : Shows(step, e)

IsNewest(step, e, before) ==
  /\ e \in Entries /\ Shows(step, e) /\ e.id < before
  /\ \A f \in Entries : Shows(step, f) /\ f.id < before => f.id <= e.id

\* The last offer of the log is that of the last session that has sent one.
OfferNamed ==
  \A o \in Entries : IsNewest("offered", o, nextId) =>
    /\ Ice(o.items) \in Sessions /\ told[Ice(o.items)].offered
    /\ \A m \in Sessions : told[m].offered => m >= Ice(o.items)

\* The last farewell names the session of the offer before it exactly if the device left that one.
RecentTold ==
  \A t, o \in Entries :
    IsNewest("left", t, nextId) /\ IsNewest("offered", o, t.id) => (facts.recent <=> Ice(t.items) = Ice(o.items))

Tellings == [offered : BOOLEAN, answered : BOOLEAN, candidates : Nat]
Bounds == [joins : Nat, changes : Nat, sessions : Nat, said : Nat]
PathTypes ==
  /\ cursor \in Nat
  /\ facts \in [Steps -> BOOLEAN]
  /\ told \in [Sessions -> Tellings]
  /\ left \in Bounds /\ 1..left.sessions \subseteq Sessions
  /\ browser \in Browsers \cup {None}

\* Sessions are numbered downwards, and one that has not offered has been told nothing.
Numbered ==
  /\ browser # None => browser.n = left.sessions + 1
  /\ \A m \in Sessions : told[m].offered => m > left.sessions
  /\ browser # None /\ browser.stage \in {"controlling", "controlled"} =>
       ~told[browser.n].offered /\ browser.candidates = 0
  /\ \A m \in Sessions : ~told[m].offered => ~told[m].answered /\ told[m].candidates = 0
  /\ gateway = "connected" => cursor < nextId

\* What the device says is said to a session that has sent its offer.
Addressed ==
  \A e \in Entries : Speaks(e) => \E m \in Sessions : told[m].offered /\ About(e, m)

\* What a browser session will be when it has read everything is what it was told.
Progress(t, h) ==
  /\ t.offered
  /\ h.stage = IF t.answered THEN "connected" ELSE "offered"
  /\ h.stage = "offered" => h.signaling = "have-local-offer"
  /\ h.candidates = t.candidates
Offering == HasPeer /\ browser.stage # "controlled"
Heard == Offering /\ ~missed => Progress(told[browser.n], Applied(browser, cursor, log).browser)

-----------------------------------------------------------------------------
\* The events of a step have new ids.
News(new) ==
  /\ nextId' \in Nat /\ nextId <= nextId'
  /\ \A e \in new : e.id \in Nat /\ e.id >= nextId /\ e.id < nextId'

\* What is known stays known when facts and entries come together.
LEMMA KnownKeeps ==
  ASSUME Known, NEW new, Gains(new),
         \A step \in ShownSteps : facts'[step] <=> facts[step] \/ \E e \in new : Shows(step, e)
  PROVE  Known'
<1> SUFFICES ASSUME NEW step \in ShownSteps
             PROVE  /\ \A e \in Entries' : Shows(step, e) => facts'[step]
                    /\ ~evicted' /\ facts'[step] => \E e \in Entries' : Shows(step, e)
  BY Zenon DEF Known
<1>1. ASSUME NEW e \in Entries', Shows(step, e) PROVE facts'[step]
  <2>1. e \in Entries \/ e \in new
    BY DEF Gains
  <2> QED BY <1>1, <2>1, Zenon DEF Known
<1>2. ASSUME ~evicted', facts'[step] PROVE \E e \in Entries' : Shows(step, e)
  <2>1. ~evicted /\ Entries \subseteq Entries' /\ new \subseteq Entries'
    BY <1>2 DEF Gains
  <2>2. facts[step] \/ \E e \in new : Shows(step, e)
    BY <1>2, Zenon
  <2>3. (\E e \in Entries : Shows(step, e)) \/ \E e \in new : Shows(step, e)
    BY <2>1, <2>2, Zenon DEF Known
  <2> QED BY <2>1, <2>3
<1> QED BY <1>1, <1>2, Zenon

\* The newest entry before an id was the newest one before, if it was there.
LEMMA NewestWas ==
  ASSUME LogTypes, NEW new, Gains(new), News(new), NEW step, NEW e \in Entries, NEW b \in Nat,
         IsNewest(step, e, b)'
  PROVE  IsNewest(step, e, b)
<1>1. e \in Entries' /\ Shows(step, e) /\ e.id < b /\ \A f \in Entries' : Shows(step, f) /\ f.id < b => f.id <= e.id
  BY DEF IsNewest
<1>2. ASSUME NEW f \in Entries, Shows(step, f), f.id < b PROVE f.id <= e.id
  <2>1. f.id \in Nat /\ e.id \in Nat
    BY LogIds
  <2>2. CASE f.id >= e.id
    <3>1. f \in Entries'
      BY <1>1, <2>2 DEF Gains
    <3> QED BY <1>1, <1>2, <3>1
  <2> QED BY <2>1, <2>2
<1> QED BY <1>1, <1>2 DEF IsNewest

\* An entry that is now the last to show a step was so before, if it was there.
LEMMA LastWas ==
  ASSUME LogTypes, NEW new, Gains(new), News(new), NEW step, NEW e \in Entries, IsNewest(step, e, nextId)'
  PROVE  IsNewest(step, e, nextId)
<1>1. e \in Entries' /\ Shows(step, e) /\ \A f \in Entries' : Shows(step, f) /\ f.id < nextId' => f.id <= e.id
  BY DEF IsNewest
<1>2. e.id \in Nat /\ e.id < nextId
  BY LogIds
<1>3. ASSUME NEW f \in Entries, Shows(step, f), f.id < nextId PROVE f.id <= e.id
  <2>1. f.id \in Nat /\ nextId \in Nat
    BY LogIds DEF LogTypes
  <2>2. CASE f.id >= e.id
    <3>1. f \in Entries'
      BY <1>1, <2>2 DEF Gains
    <3>2. f.id < nextId'
      BY <1>3, <2>1 DEF News
    <3> QED BY <1>1, <1>3, <3>1, <3>2
  <2> QED BY <1>2, <2>1, <2>2
<1> QED BY <1>1, <1>2, <1>3 DEF IsNewest

\* An entry that shows what no new event shows was there before.
LEMMA OldEntry ==
  ASSUME LogTypes, NEW new, Gains(new), NEW step, \A e \in new : ~Shows(step, e),
         NEW e \in Entries', Shows(step, e)
  PROVE  e \in Entries
  BY DEF Gains

\* The last offer stays that of the last session, when no offer comes.
LEMMA OfferNamedKeeps ==
  ASSUME LogTypes, OfferNamed, NEW new, Gains(new), News(new), \A e \in new : ~Shows("offered", e),
         \A m \in Sessions : told'[m].offered <=> told[m].offered
  PROVE  OfferNamed'
<1> SUFFICES ASSUME NEW o \in Entries', IsNewest("offered", o, nextId)'
             PROVE  /\ Ice(o.items) \in Sessions /\ told'[Ice(o.items)].offered
                    /\ \A m \in Sessions : told'[m].offered => m >= Ice(o.items)
  BY DEF OfferNamed
<1>1. Shows("offered", o)
  BY DEF IsNewest
<1>2. o \in Entries
  BY <1>1, OldEntry
<1>3. IsNewest("offered", o, nextId)
  BY <1>2, LastWas
<1>4. /\ Ice(o.items) \in Sessions /\ told[Ice(o.items)].offered
      /\ \A m \in Sessions : told[m].offered => m >= Ice(o.items)
  BY <1>2, <1>3, Zenon DEF OfferNamed
<1> QED BY <1>4, Zenon

\* A new offer is that of the last session.
LEMMA OfferNamedNew ==
  ASSUME LogTypes, NEW e, Gains({e}), News({e}), Shows("offered", e),
         NEW n \in Sessions, Ice(e.items) = n, told'[n].offered, \A m \in Sessions : told'[m].offered => m >= n
  PROVE  OfferNamed'
<1> SUFFICES ASSUME NEW o \in Entries', IsNewest("offered", o, nextId)'
             PROVE  /\ Ice(o.items) \in Sessions /\ told'[Ice(o.items)].offered
                    /\ \A m \in Sessions : told'[m].offered => m >= Ice(o.items)
  BY DEF OfferNamed
<1>1. o = e
  <2>1. e.id \in Nat /\ e.id >= nextId /\ e.id < nextId'
    BY DEF News
  <2>2. o \in Entries => o.id \in Nat /\ o.id < nextId
    BY LogIds
  <2>3. o \in Entries \/ o = e
    BY DEF Gains
  <2>4. nextId \in Nat
    BY DEF LogTypes
  <2>5. ASSUME o \in Entries PROVE FALSE
    <3>1. e.id >= o.id
      BY <2>1, <2>2, <2>4, <2>5
    <3>2. e \in Entries'
      BY <3>1 DEF Gains
    <3>3. e.id <= o.id
      BY <2>1, <3>2 DEF IsNewest
    <3> QED BY <2>1, <2>2, <2>4, <2>5, <3>3
  <2> QED BY <2>3, <2>5
<1> QED BY <1>1

\* What the last farewell says of the last offer stays true, when no farewell comes.
LEMMA RecentKeeps ==
  ASSUME LogTypes, RecentTold, NEW new, Gains(new), News(new), \A e \in new : ~Shows("left", e),
         facts'.recent <=> facts.recent
  PROVE  RecentTold'
<1> SUFFICES ASSUME NEW t \in Entries', NEW o \in Entries',
                    IsNewest("left", t, nextId)', IsNewest("offered", o, t.id)'
             PROVE  facts'.recent <=> Ice(t.items) = Ice(o.items)
  BY DEF RecentTold
<1>1. t \in Entries
  BY OldEntry DEF IsNewest
<1>2. t.id \in Nat /\ t.id < nextId
  BY <1>1, LogIds
<1>3. o \in Entries
  <2>1. o.id < t.id
    BY DEF IsNewest
  <2>2. o \in new => o.id \in Nat /\ o.id >= nextId
    BY DEF News
  <2>3. o \in Entries \/ o \in new
    BY DEF Gains
  <2>4. nextId \in Nat
    BY DEF LogTypes
  <2> QED BY <1>2, <2>1, <2>2, <2>3, <2>4
<1>4. IsNewest("left", t, nextId)
  BY <1>1, LastWas
<1>5. IsNewest("offered", o, t.id)
  BY <1>2, <1>3, NewestWas
<1> QED BY <1>1, <1>3, <1>4, <1>5, Zenon DEF RecentTold

\* What a new farewell says of the last offer is true.
LEMMA RecentNew ==
  ASSUME LogTypes, OfferNamed, NEW new, Gains(new), News(new), \A e \in new : ~Shows("offered", e),
         NEW n \in Sessions, Sessions \subseteq Nat, told[n].offered,
         NEW x \in new, Shows("left", x), \A e \in new : Shows("left", e) => Ice(e.items) = n,
         facts'.recent <=> \A m \in Sessions : told[m].offered => m >= n
  PROVE  RecentTold'
<1> SUFFICES ASSUME NEW t \in Entries', NEW o \in Entries',
                    IsNewest("left", t, nextId)', IsNewest("offered", o, t.id)'
             PROVE  facts'.recent <=> Ice(t.items) = Ice(o.items)
  BY DEF RecentTold
<1>0. nextId \in Nat /\ nextId' \in Nat
  BY DEF LogTypes, News
<1>1. x.id \in Nat /\ x.id >= nextId /\ x.id < nextId'
  BY DEF News
<1>2. t \in new
  <2>1. ASSUME t \in Entries PROVE FALSE
    <3>1. t.id \in Nat /\ t.id < nextId
      BY <2>1, LogIds
    <3>2. x \in Entries'
      BY <1>0, <1>1, <3>1 DEF Gains
    <3>3. x.id <= t.id
      BY <1>1, <3>2 DEF IsNewest
    <3> QED BY <1>0, <1>1, <3>1, <3>3
  <2> QED BY <2>1 DEF Gains
<1>3. Ice(t.items) = n /\ t.id \in Nat /\ t.id >= nextId
  BY <1>2 DEF IsNewest, News
<1>4. o \in Entries /\ Shows("offered", o)
  BY OldEntry DEF IsNewest
<1>5. o.id \in Nat /\ o.id < nextId
  BY <1>4, LogIds
<1>6. ASSUME NEW f \in Entries, Shows("offered", f), f.id < nextId PROVE f.id <= o.id
  <2>1. f.id \in Nat
    BY LogIds
  <2>2. CASE f.id >= o.id
    <3>1. f \in Entries'
      BY <2>2 DEF Gains
    <3>2. f.id < t.id
      BY <1>0, <1>3, <1>6, <2>1
    <3> QED BY <1>6, <3>1, <3>2 DEF IsNewest
  <2> QED BY <1>5, <2>1, <2>2
<1>7. IsNewest("offered", o, nextId)
  BY <1>4, <1>5, <1>6 DEF IsNewest
<1> DEFINE k == Ice(o.items)
<1>8. k \in Sessions /\ told[k].offered /\ \A m \in Sessions : told[m].offered => m >= k
  BY <1>4, <1>7, Zenon DEF OfferNamed
<1> HIDE DEF k
<1>9. (\A m \in Sessions : told[m].offered => m >= n) => k >= n
  BY <1>8, Zenon
<1>10. n >= k
  BY <1>8, Zenon
<1>11. k = n => \A m \in Sessions : told[m].offered => m >= n
  BY <1>8, Zenon
<1>12. k \in Nat /\ n \in Nat
  BY <1>8
<1>13. k >= n => k = n
  BY <1>10, <1>12
<1>14. facts'.recent <=> k = n
  BY <1>9, <1>11, <1>13, Zenon
<1> QED BY <1>3, <1>14, Zenon DEF k

-----------------------------------------------------------------------------
(* What recording adds to the log. *)

Carries(e, inbound, part) == e.inbound = inbound /\ e.event = part.event /\ e.items = part.items

\* The log has gained an event that carries this part, perhaps with a notice of the push before
\* it; and who has read up to here, and misses nothing, applies that event only.
Follows(e, seen) ==
  ~missed' => ~missed /\ \A b : Applied(b, seen, log') = OneMore(seen, Applied(b, seen, log), e)
Adds(new, e, inbound, part, seen) ==
  /\ LogTypes' /\ Gains(new) /\ News(new) /\ e \in new /\ Carries(e, inbound, part)
  /\ \A f \in new : f = e \/ Carries(f, inbound, PushNotice)
  /\ Follows(e, seen)

\* The events recorded are new.
LEMMA NewsAre ==
  ASSUME LogTypes, NEW P, NEW events \in Seq(P), NEW inbound, nextId' = nextId + Len(events)
  PROVE  News(ToSet(NewEvents(inbound, events)))
<1> DEFINE new == NewEvents(inbound, events)
<1>1. new \in Seq(ToSet(new)) /\ Len(new) = Len(events)
  BY LongerIs
<1>2. \A i \in DOMAIN events : new[i].id = nextId + i - 1
  BY NewIds
<1> HIDE DEF new
<1>3. ToSet(new) = {new[i] : i \in 1..Len(events)} /\ DOMAIN events = 1..Len(events) /\ Len(events) \in Nat
  BY <1>1 DEF ToSet
<1>4. nextId \in Nat
  BY DEF LogTypes
<1>5. \A i \in 1..Len(events) : new[i].id \in Nat /\ new[i].id >= nextId /\ new[i].id < nextId'
  BY <1>2, <1>3, <1>4
<1> QED BY <1>3, <1>4, <1>5 DEF News, new

\* While no event was evicted unread, the evicted ones do not count for who reads on.
LEMMA Dropped ==
  ASSUME LogTypes, NEW P, NEW events \in Seq(P), NEW inbound, NEW seen \in Nat, Record(inbound, events, seen), ~missed'
  PROVE  ~missed /\ \A b : Applied(b, seen, log') = Applied(b, seen, Longer(inbound, events))
<1> DEFINE all == Longer(inbound, events)
           S == Entries \cup ToSet(NewEvents(inbound, events))
<1>1. PICK d \in 0..Len(all) : Drops(inbound, events, d) /\ ~missed /\ \A i \in 1..d : all[i].id <= seen
  BY RecordDrops
<1>2. all \in Seq(S)
  BY LongerIs
<1>3. log' = SubSeq(all, d + 1, Len(all))
  BY <1>1 DEF Drops
<1> HIDE DEF all, S
<1>4. ASSUME NEW b PROVE Applied(b, seen, SubSeq(all, d + 1, Len(all))) = Applied(b, seen, all)
  BY <1>1, <1>2, AppliedDrop
<1> QED BY <1>1, <1>3, <1>4 DEF all

LEMMA SameSequence ==
  ASSUME NEW S, NEW T, NEW p \in Seq(S), NEW q \in Seq(T), Len(p) = Len(q), \A i \in 1..Len(p) : p[i] = q[i]
  PROVE  p = q
  OBVIOUS

LEMMA CarriesAt ==
  ASSUME LogTypes, NEW P, NEW events \in Seq(P), NEW inbound, NEW i \in DOMAIN events
  PROVE  Carries(NewEvents(inbound, events)[i], inbound, events[i])
  BY NewIds DEF Carries

\* Recording one event appends it.
LEMMA LongerOne ==
  ASSUME LogTypes, NEW part, NEW inbound
  PROVE  /\ Longer(inbound, <<part>>) = Append(log, NewEvents(inbound, <<part>>)[1])
         /\ ToSet(NewEvents(inbound, <<part>>)) = {NewEvents(inbound, <<part>>)[1]}
         /\ Carries(NewEvents(inbound, <<part>>)[1], inbound, part)
<1> DEFINE new == NewEvents(inbound, <<part>>)
           all == Longer(inbound, <<part>>)
<1>0. <<part>> \in Seq({part}) /\ Len(<<part>>) = 1 /\ DOMAIN <<part>> = {1} /\ <<part>>[1] = part
  OBVIOUS
<1>1. new \in Seq(ToSet(new)) /\ Len(new) = 1
  BY <1>0, LongerIs
<1>2. all = log \o new
  BY DEF Longer
<1>3. Carries(new[1], inbound, part)
  <2> DEFINE one == <<part>>
  <2>1. one \in Seq({part}) /\ 1 \in DOMAIN one /\ one[1] = part
    BY <1>0
  <2>2. new = NewEvents(inbound, one)
    OBVIOUS
  <2> HIDE DEF one, new
  <2> QED BY <2>1, <2>2, CarriesAt
<1> HIDE DEF new, all
<1>4. ToSet(new) = {new[1]}
  BY <1>1 DEF ToSet
<1>5. new = <<new[1]>>
  BY <1>1
<1>6. log \in Seq(Entries)
  BY DEF LogTypes
<1>7. log \o <<new[1]>> = Append(log, new[1])
  <2> DEFINE x == new[1]
  <2> HIDE DEF x
  <2>1. log \o <<x>> = Append(log, x)
    BY <1>6
  <2> QED BY <2>1 DEF x
<1> QED BY <1>2, <1>3, <1>4, <1>5, <1>7 DEF new, all

\* Recording a notice and an event appends both.
LEMMA LongerTwo ==
  ASSUME LogTypes, NEW first, NEW part, NEW inbound
  PROVE  LET new == NewEvents(inbound, <<first, part>>)
         IN  /\ Longer(inbound, <<first, part>>) = Append(Append(log, new[1]), new[2])
             /\ ToSet(new) = {new[1], new[2]}
             /\ Carries(new[1], inbound, first) /\ Carries(new[2], inbound, part)
<1> DEFINE new == NewEvents(inbound, <<first, part>>)
           all == Longer(inbound, <<first, part>>)
           two == <<first, part>>
<1>0. /\ two \in Seq({first, part}) /\ Len(two) = 2 /\ DOMAIN two = {1, 2}
      /\ two[1] = first /\ two[2] = part
  OBVIOUS
<1>1. new \in Seq(ToSet(new)) /\ Len(new) = 2
  BY <1>0, LongerIs
<1>2. all = log \o new
  BY DEF Longer
<1>3. Carries(new[1], inbound, first) /\ Carries(new[2], inbound, part)
  <2>1. new = NewEvents(inbound, two) /\ 1 \in DOMAIN two /\ 2 \in DOMAIN two
    BY <1>0
  <2> HIDE DEF two, new
  <2>2. Carries(new[1], inbound, two[1])
    BY <1>0, <2>1, CarriesAt
  <2>3. Carries(new[2], inbound, two[2])
    BY <1>0, <2>1, CarriesAt
  <2> QED BY <1>0, <2>2, <2>3
<1> HIDE DEF new, all
<1>4. ToSet(new) = {new[1], new[2]}
  BY <1>1 DEF ToSet
<1>5. new = <<new[1], new[2]>>
  BY <1>1
<1>6. log \in Seq(Entries)
  BY DEF LogTypes
<1>7. ASSUME NEW x, NEW y PROVE log \o <<x, y>> = Append(Append(log, x), y)
  BY <1>6
<1>8. log \o <<new[1], new[2]>> = Append(Append(log, new[1]), new[2])
  BY <1>7
<1>9. all = Append(Append(log, new[1]), new[2])
  BY <1>2, <1>5, <1>8
<1> QED BY <1>3, <1>4, <1>9 DEF new, all

\* The notice of a push changes no session.
LEMMA NoticeIsInert ==
  ASSUME NEW s, NEW e, e.event = "bmsg_push", NEW after
  PROVE  OneMore(after, s, e) = s
  BY DEF OneMore, ApplyEvent

\* Recording what the device sent adds one event that counts.
LEMMA RecordAdds ==
  ASSUME LogTypes, NEW part, NEW events, Sends(events, part), NEW inbound, NEW seen \in Nat,
         Record(inbound, events, seen)
  PROVE  \E new : \E e \in new : Adds(new, e, inbound, part, seen) /\ (events = <<part>> => new = {e})
<1> DEFINE all == Longer(inbound, events)
           new == ToSet(NewEvents(inbound, events))
           S == Entries \cup new
<1>0. events \in Seq({PushNotice, part})
  <2> HIDE DEF all, new, S
  <2>1. CASE events = <<part>>
    BY <2>1
  <2>2. CASE events = <<PushNotice, part>>
    BY <2>2
  <2> QED BY <2>1, <2>2, Zenon DEF Sends
<1>1. LogTypes' /\ Gains(new) /\ nextId' = nextId + Len(events)
  BY <1>0, RecordGains
<1>2. News(new)
  BY <1>0, <1>1, NewsAre
<1>3. ~missed' => ~missed /\ \A b : Applied(b, seen, log') = Applied(b, seen, all)
  BY <1>0, Dropped
<1>4. log \in Seq(S)
  <2>1. log \in Seq(Entries)
    BY DEF LogTypes
  <2> HIDE DEF new
  <2> QED BY <2>1
<1>s. S = Entries \cup new
  OBVIOUS
<1> HIDE DEF S
<1>5. CASE events = <<part>>
  <2> DEFINE e == NewEvents(inbound, events)[1]
  <2>1. all = Append(log, e) /\ new = {e} /\ Carries(e, inbound, part)
    BY <1>5, LongerOne
  <2> HIDE DEF all, new, e
  <2>2. ASSUME NEW b PROVE Applied(b, seen, all) = OneMore(seen, Applied(b, seen, log), e)
    <3>1. e \in S
      BY <1>s, <2>1
    <3> QED BY <1>4, <2>1, <3>1, AppliedMore
  <2>3. Follows(e, seen)
    BY <1>3, <2>2 DEF Follows
  <2> QED BY <1>1, <1>2, <2>1, <2>3 DEF Adds
<1>6. CASE events = <<PushNotice, part>>
  <2> DEFINE f == NewEvents(inbound, events)[1]
             e == NewEvents(inbound, events)[2]
  <2>1. /\ all = Append(Append(log, f), e) /\ new = {f, e}
        /\ Carries(f, inbound, PushNotice) /\ Carries(e, inbound, part)
    BY <1>6, LongerTwo
  <2> HIDE DEF all, new, f, e
  <2>2. ASSUME NEW b PROVE Applied(b, seen, all) = OneMore(seen, Applied(b, seen, log), e)
    <3>1. Append(log, f) \in Seq(S) /\ f \in S /\ e \in S
      BY <1>4, <1>s, <2>1
    <3>2. ASSUME NEW g \in Seq(S) PROVE Applied(b, seen, Append(g, e)) = OneMore(seen, Applied(b, seen, g), e)
      BY <3>1, AppliedMore
    <3>3. Applied(b, seen, Append(log, f)) = OneMore(seen, Applied(b, seen, log), f)
      BY <1>4, <3>1, AppliedMore
    <3>4. f.event = "bmsg_push"
      BY <2>1 DEF Carries, PushNotice
    <3>5. OneMore(seen, Applied(b, seen, log), f) = Applied(b, seen, log)
      BY <3>4, NoticeIsInert
    <3> QED BY <2>1, <3>1, <3>2, <3>3, <3>5
  <2>3. Follows(e, seen)
    BY <1>3, <2>2 DEF Follows
  <2>4. events # <<part>>
    BY <1>6
  <2> QED BY <1>1, <1>2, <2>1, <2>3, <2>4 DEF Adds
<1> QED BY <1>5, <1>6 DEF Sends

-----------------------------------------------------------------------------
(* The diagnosis, kept by what a step adds. *)

Diagnosed == Known /\ OfferNamed /\ RecentTold
SameOffers == \A m \in Sessions : told'[m].offered <=> told[m].offered
FactsGain(M) == \A step \in ShownSteps : facts'[step] <=> facts[step] \/ step \in M
SameRecent == facts'.recent <=> facts.recent

\* Only the event that counts shows a step.
LEMMA Quiet ==
  ASSUME NEW new, NEW e \in new, NEW inbound \in BOOLEAN, NEW part, NEW seen, Adds(new, e, inbound, part, seen)
  PROVE  \A f \in new : f = e \/ \A step \in ShownSteps : ~Shows(step, f)
<1> SUFFICES ASSUME NEW f \in new, f # e PROVE \A step \in ShownSteps : ~Shows(step, f)
  OBVIOUS
<1>1. f.event = "bmsg_push"
  BY DEF Adds, Carries, PushNotice
<1> QED BY <1>1, ShowsIs, ShownIs

\* The diagnosis stays right when nothing new shows a step.
LEMMA SilentKeeps ==
  ASSUME LogTypes, Diagnosed, NEW new, Gains(new), News(new), \A f \in new : \A step \in ShownSteps : ~Shows(step, f),
         SameOffers, facts' = facts
  PROVE  Diagnosed'
<1>0. {"offered", "left"} \subseteq ShownSteps
  BY ShownIs
<1>1. Known'
  BY KnownKeeps DEF Diagnosed
<1>2. OfferNamed'
  BY <1>0, OfferNamedKeeps DEF Diagnosed, SameOffers
<1>3. RecentTold'
  BY <1>0, RecentKeeps DEF Diagnosed
<1> QED BY <1>1, <1>2, <1>3 DEF Diagnosed

\* What is known stays known when the event that counts shows what just became a fact.
LEMMA MarkedKnown ==
  ASSUME Known, NEW new, NEW e \in new, NEW inbound \in BOOLEAN, NEW part, NEW seen, Adds(new, e, inbound, part, seen),
         NEW M, Marks(e, M), FactsGain(M)
  PROVE  Known'
<1>1. \A f \in new : f = e \/ \A step \in ShownSteps : ~Shows(step, f)
  BY Quiet
<1>2. \A step \in ShownSteps : (\E f \in new : Shows(step, f)) <=> step \in M
  BY <1>1 DEF Marks
<1>3. \A step \in ShownSteps : facts'[step] <=> facts[step] \/ \E f \in new : Shows(step, f)
  BY <1>2, Zenon DEF FactsGain
<1>4. Gains(new)
  BY DEF Adds
<1> QED BY <1>3, <1>4, KnownKeeps

\* The diagnosis stays right through any event but an offer and a farewell.
LEMMA MarkedKeeps ==
  ASSUME LogTypes, Diagnosed, NEW new, NEW e \in new, NEW inbound \in BOOLEAN, NEW part, NEW seen,
         Adds(new, e, inbound, part, seen),
         NEW M, Marks(e, M), "offered" \notin M, "left" \notin M, FactsGain(M), SameOffers, SameRecent
  PROVE  Diagnosed'
<1>0. "offered" \in ShownSteps /\ "left" \in ShownSteps
  BY ShownIs
<1>1. \A f \in new : f = e \/ \A step \in ShownSteps : ~Shows(step, f)
  BY Quiet
<1>2. \A f \in new : ~Shows("offered", f) /\ ~Shows("left", f)
  BY <1>0, <1>1 DEF Marks
<1>3. Gains(new) /\ News(new)
  BY DEF Adds
<1>4. Known'
  BY MarkedKnown DEF Diagnosed
<1>5. OfferNamed'
  BY <1>2, <1>3, OfferNamedKeeps DEF Diagnosed, SameOffers
<1>6. RecentTold'
  BY <1>2, <1>3, RecentKeeps DEF Diagnosed, SameRecent
<1> QED BY <1>4, <1>5, <1>6 DEF Diagnosed

\* The diagnosis stays right through an offer of the newest session.
LEMMA OfferKeeps ==
  ASSUME LogTypes, Diagnosed, NEW new, NEW e \in new, NEW inbound \in BOOLEAN, NEW part, NEW seen,
         Adds(new, e, inbound, part, seen), new = {e}, Marks(e, {"offered"}), FactsGain({"offered"}), SameRecent,
         NEW n \in Sessions, Ice(e.items) = n, told'[n].offered, \A m \in Sessions : told'[m].offered => m >= n
  PROVE  Diagnosed'
<1>0. "offered" \in ShownSteps /\ "left" \in ShownSteps
  BY ShownIs
<1>1. Gains({e}) /\ News({e})
  BY DEF Adds
<1>2. Shows("offered", e) /\ ~Shows("left", e)
  BY <1>0 DEF Marks
<1>3. Known'
  BY MarkedKnown DEF Diagnosed
<1>4. OfferNamed'
  BY <1>1, <1>2, OfferNamedNew
<1>5. RecentTold'
  BY <1>1, <1>2, RecentKeeps DEF Diagnosed, SameRecent
<1> QED BY <1>3, <1>4, <1>5 DEF Diagnosed

\* The diagnosis stays right through a farewell.
LEMMA FarewellKeeps ==
  ASSUME LogTypes, Diagnosed, NEW new, NEW e \in new, NEW inbound \in BOOLEAN, NEW part, NEW seen,
         Adds(new, e, inbound, part, seen), Marks(e, {"left"}), FactsGain({"left"}), SameOffers,
         NEW n \in Sessions, Sessions \subseteq Nat, told[n].offered, Ice(e.items) = n,
         facts'.recent <=> \A m \in Sessions : told[m].offered => m >= n
  PROVE  Diagnosed'
<1>0. "offered" \in ShownSteps /\ "left" \in ShownSteps
  BY ShownIs
<1>1. \A f \in new : f = e \/ \A step \in ShownSteps : ~Shows(step, f)
  BY Quiet
<1>2. Shows("left", e) /\ \A f \in new : ~Shows("offered", f) /\ (Shows("left", f) => f = e)
  BY <1>0, <1>1 DEF Marks
<1>3. Gains(new) /\ News(new)
  BY DEF Adds
<1>4. Known'
  BY MarkedKnown DEF Diagnosed
<1>5. OfferNamed'
  BY <1>2, <1>3, OfferNamedKeeps DEF Diagnosed, SameOffers
<1>6. \A f \in new : Shows("left", f) => Ice(f.items) = n
  BY <1>2
<1>7. RecentTold'
  BY <1>2, <1>3, <1>6, RecentNew DEF Diagnosed
<1> QED BY <1>4, <1>5, <1>7 DEF Diagnosed

-----------------------------------------------------------------------------
(* What a browser session will have heard. *)

Tells(t, u, e, n) ==
  /\ e.event = "soac" /\ e.items = <<Signal("candidate", n)>> => u = [t EXCEPT !.candidates = @ + 1]
  /\ \A type \in {"answer", "restart_ice"} :
       e.event = "soac" /\ e.items = <<Signal(type, n)>> => u = [t EXCEPT !.answered = TRUE]
  /\ e.event = "switch_network_notify" => u = t

\* A session told something, and hearing it, is where it should be again.
LEMMA ProgressGoesOn ==
  ASSUME NEW n \in Sessions, NEW b \in Browsers, NEW c, NEW t \in Tellings, NEW u, NEW e,
         About(e, n), Hears(b, c, e, n), Tells(t, u, e, n), Progress(t, b)
  PROVE  Progress(u, c)
<1>1. CASE e.event = "switch_network_notify"
  <2>1. c = [b EXCEPT !.signaling = "have-local-offer"] /\ u = t
    BY <1>1, Zenon DEF Hears, Tells
  <2>2. c.stage = b.stage /\ c.signaling = "have-local-offer" /\ c.candidates = b.candidates
    BY <2>1 DEF Browsers
  <2> QED BY <2>1, <2>2, Zenon DEF Progress
<1>2. CASE e.event = "soac" /\ e.items = <<Signal("candidate", n)>>
  <2>1. c = [b EXCEPT !.candidates = @ + 1] /\ u = [t EXCEPT !.candidates = @ + 1]
    BY <1>2, Zenon DEF Hears, Tells
  <2>2. c.stage = b.stage /\ c.signaling = b.signaling /\ c.candidates = b.candidates + 1
    BY <2>1 DEF Browsers
  <2>3. u.offered = t.offered /\ u.answered = t.answered /\ u.candidates = t.candidates + 1
    BY <2>1 DEF Tellings
  <2> QED BY <2>2, <2>3, Zenon DEF Progress
<1>3. ASSUME NEW type \in {"answer", "restart_ice"}, e.event = "soac" /\ e.items = <<Signal(type, n)>>
      PROVE  Progress(u, c)
  <2>1. c = IF b.signaling # "have-local-offer" THEN b ELSE [b EXCEPT !.stage = "connected", !.signaling = "stable"]
    BY <1>3, Zenon DEF Hears
  <2>2. u = [t EXCEPT !.answered = TRUE]
    BY <1>3, Zenon DEF Tells
  <2>3. u.offered = t.offered /\ u.answered = TRUE /\ u.candidates = t.candidates
    BY <2>2 DEF Tellings
  <2>4. t.offered /\ b.candidates = t.candidates
    BY Zenon DEF Progress
  <2>5. CASE b.signaling = "have-local-offer"
    <3>1. c.stage = "connected" /\ c.candidates = b.candidates
      BY <2>1, <2>5 DEF Browsers
    <3> QED BY <2>3, <2>4, <3>1 DEF Progress
  <2>6. CASE b.signaling # "have-local-offer"
    <3>1. c = b /\ b.stage # "offered"
      BY <2>1, <2>6 DEF Progress
    <3>2. b.stage = "connected"
      BY <3>1 DEF Progress
    <3> QED BY <2>3, <2>4, <3>1, <3>2 DEF Progress
  <2> QED BY <2>5, <2>6
<1> QED BY <1>1, <1>2, <1>3, Zenon DEF About, InboundTypes

\* No entry of the log holds a packed description.
LEMMA PlainEntries ==
  ASSUME Addressed
  PROVE  \A e \in Entries : Plain(e)
  BY DEF Addressed, Plain

\* What the browser session will be when it has read what is in the log.
LEMMA Soon ==
  ASSUME LogTypes, PathTypes, Addressed, browser # None
  PROVE  /\ browser \in Browsers /\ browser.n \in Sessions /\ log \in Seq(Entries)
         /\ Grown(browser.n, browser, Applied(browser, cursor, log))
<1>1. browser \in Browsers /\ browser.n \in Sessions /\ log \in Seq(Entries)
  BY DEF LogTypes, PathTypes, Browsers
<1>2. \A e \in Entries : Plain(e)
  BY PlainEntries
<1>3. Grown(browser.n, browser, Applied(browser, cursor, log))
  BY <1>1, <1>2, AppliedType
<1> QED BY <1>1, <1>3

\* The log speaks only to sessions that have offered, if the new event does.
LEMMA AddressedKeeps ==
  ASSUME Addressed, NEW new, NEW e \in new, NEW inbound, NEW part, NEW seen, Adds(new, e, inbound, part, seen),
         \A m \in Sessions : told[m].offered => told'[m].offered,
         Speaks(e) => \E m \in Sessions : told[m].offered /\ About(e, m)
  PROVE  Addressed'
<1> SUFFICES ASSUME NEW f \in Entries', Speaks(f) PROVE \E m \in Sessions : told'[m].offered /\ About(f, m)
  BY DEF Addressed
<1>1. f = e \/ f.event = "bmsg_push" \/ f \in Entries
  BY DEF Adds, Gains, Carries, PushNotice
<1>2. f.event # "bmsg_push"
  BY DEF Speaks
<1>3. \E m \in Sessions : told[m].offered /\ About(f, m)
  <2>1. CASE f = e
    BY <2>1
  <2>2. CASE f \in Entries
    BY <2>2, Zenon DEF Addressed
  <2> QED BY <1>1, <1>2, <2>1, <2>2
<1> QED BY <1>3, Zenon

\* A new event is beyond the page's cursor.
LEMMA NewIsUnread ==
  ASSUME LogTypes, PathTypes, Numbered, gateway = "connected", NEW new, NEW e \in new, News(new), NEW s
  PROVE  OneMore(cursor, s, e) = ApplyEvent(s, e)
<1>1. cursor \in Nat /\ cursor < nextId /\ nextId \in Nat /\ e.id \in Nat /\ e.id >= nextId
  BY DEF LogTypes, PathTypes, Numbered, News
<1>2. ~(e.id <= cursor)
  BY <1>1
<1> QED BY <1>2 DEF OneMore

\* What was said to it before, and what was just added.
LEMMA HeardAdds ==
  ASSUME LogTypes, PathTypes, Numbered, Addressed, Heard, gateway = "connected",
         NEW new, NEW e \in new, NEW inbound, NEW part, Adds(new, e, inbound, part, cursor),
         browser' = browser, cursor' = cursor, Offering', ~missed'
  PROVE  LET s == Applied(browser, cursor, log)
         IN  /\ browser.n \in Sessions /\ s \in Applying(browser.n) /\ Progress(told[browser.n], s.browser)
             /\ Applied(browser', cursor', log') = ApplyEvent(s, e)
<1> DEFINE s == Applied(browser, cursor, log)
<1>1. Offering /\ browser # None
  BY DEF Offering, HasPeer
<1>2. browser.n \in Sessions /\ s \in Applying(browser.n)
  BY <1>1, Soon DEF Grown
<1>3. ~missed /\ Applied(browser, cursor, log') = OneMore(cursor, s, e)
  BY DEF Adds, Follows
<1>4. Progress(told[browser.n], s.browser)
  BY <1>1, <1>3 DEF Heard
<1> HIDE DEF s
<1>5. News(new)
  BY DEF Adds
<1>6. OneMore(cursor, s, e) = ApplyEvent(s, e)
  BY <1>5, NewIsUnread
<1> QED BY <1>2, <1>3, <1>4, <1>6 DEF s

\* What is not about the page's session leaves what the session will have heard.
LEMMA HeardOthers ==
  ASSUME LogTypes, PathTypes, Numbered, Addressed, Heard, gateway = "connected",
         NEW new, NEW e \in new, NEW inbound, NEW part, Adds(new, e, inbound, part, cursor),
         browser' = browser, cursor' = cursor,
         Offering => Inert(e, browser.n) /\ told'[browser.n] = told[browser.n]
  PROVE  Heard'
<1> SUFFICES ASSUME Offering', ~missed' PROVE Progress(told'[browser'.n], Applied(browser', cursor', log').browser)
  BY DEF Heard
<1> DEFINE s == Applied(browser, cursor, log)
<1>1. /\ browser.n \in Sessions /\ s \in Applying(browser.n) /\ Progress(told[browser.n], s.browser)
      /\ Applied(browser', cursor', log') = ApplyEvent(s, e)
  BY HeardAdds
<1>2. Inert(e, browser.n) /\ told'[browser.n] = told[browser.n]
  BY DEF Offering, HasPeer
<1> HIDE DEF s
<1>3. ApplyEvent(s, e) = s
  BY <1>1, <1>2, ApplyInert
<1> QED BY <1>1, <1>2, <1>3

\* What is about the page's session is what the session will have heard more.
LEMMA HeardOwn ==
  ASSUME LogTypes, PathTypes, Numbered, Addressed, Heard, gateway = "connected",
         NEW new, NEW e \in new, NEW part, Adds(new, e, TRUE, part, cursor),
         browser' = browser, cursor' = cursor,
         Offering => About(e, browser.n) /\ Tells(told[browser.n], told'[browser.n], e, browser.n)
  PROVE  Heard'
<1> SUFFICES ASSUME Offering', ~missed' PROVE Progress(told'[browser'.n], Applied(browser', cursor', log').browser)
  BY DEF Heard
<1> DEFINE s == Applied(browser, cursor, log)
           n == browser.n
<1>1. /\ n \in Sessions /\ s \in Applying(n) /\ Progress(told[n], s.browser)
      /\ Applied(browser', cursor', log') = ApplyEvent(s, e)
  BY HeardAdds
<1>2. About(e, n) /\ Tells(told[n], told'[n], e, n)
  BY DEF Offering, HasPeer
<1>3. e.inbound
  BY DEF Adds, Carries
<1>4. told[n] \in Tellings
  BY <1>1 DEF PathTypes
<1> HIDE DEF s, n
<1>5. Hears(s.browser, ApplyEvent(s, e).browser, e, n)
  BY <1>1, <1>2, <1>3, ApplyOwn
<1>6. s.browser \in Browsers
  BY <1>1 DEF Applying
<1>7. Progress(told'[n], ApplyEvent(s, e).browser)
  BY <1>1, <1>2, <1>4, <1>5, <1>6, ProgressGoesOn
<1> QED BY <1>1, <1>7 DEF n

-----------------------------------------------------------------------------
(* The steps, one by one. *)

PathInv == LogTypes /\ PathTypes /\ Numbered /\ Diagnosed /\ Addressed /\ Heard

LEMMA SessionsAreNumbers == Sessions \subseteq Nat
  BY DEF Sessions

LEMMA SpendIs ==
  ASSUME left \in Bounds, NEW what \in {"joins", "changes", "sessions", "said"}, Spend(what)
  PROVE  /\ left' \in Bounds /\ left[what] > 0
         /\ left'.sessions = IF what = "sessions" THEN left.sessions - 1 ELSE left.sessions
  BY DEF Spend, Bounds

SameSessions == left' \in Bounds /\ left'.sessions = left.sessions

LEMMA SpentElsewhere ==
  ASSUME PathTypes, NEW what \in {"joins", "changes", "said"}, Spend(what)
  PROVE  SameSessions
<1>1. left \in Bounds
  BY DEF PathTypes
<1> QED BY <1>1, SpendIs DEF SameSessions

\* A step that leaves log, reader, device and facts alone.
LEMMA StaticKeeps ==
  ASSUME PathInv, UNCHANGED <<logVars, readVars, told, facts>>, SameSessions, gateway' = "connected" => gateway = "connected"
  PROVE  PathInv'
<1>0. LogTypes /\ PathTypes /\ Numbered /\ Diagnosed /\ Addressed /\ Heard
  BY DEF PathInv
<1>1. /\ log' = log /\ nextId' = nextId /\ evicted' = evicted /\ cursor' = cursor /\ missed' = missed
      /\ browser' = browser /\ told' = told /\ facts' = facts
  BY DEF logVars, readVars
<1>2. LogTypes'
  BY <1>0, <1>1 DEF LogTypes, Entries
<1>3. PathTypes'
  BY <1>0, <1>1 DEF PathTypes, SameSessions
<1>4. Numbered'
  BY <1>0, <1>1 DEF Numbered, SameSessions
<1>5. Diagnosed'
  BY <1>0, <1>1 DEF Diagnosed, Known, OfferNamed, RecentTold, IsNewest, Entries
<1>6. Addressed'
  BY <1>0, <1>1 DEF Addressed, Entries
<1>7. Heard'
  BY <1>0, <1>1 DEF Heard, Offering, HasPeer
<1> QED BY <1>2, <1>3, <1>4, <1>5, <1>6, <1>7 DEF PathInv

LEMMA NoEvents == \A S : <<>> \in Seq(S) /\ Len(<<>>) = 0 /\ DOMAIN <<>> = {}
  OBVIOUS

\* An emptied log is a log, and there is nothing to diagnose.
LEMMA EmptyLog ==
  ASSUME log' = <<>>, nextId' = 1, evicted' = FALSE, missed' \in BOOLEAN, facts' = Nothing
  PROVE  LogTypes' /\ Diagnosed' /\ Addressed' /\ facts' \in [Steps -> BOOLEAN]
<1>1. Entries' = {}
  BY DEF Entries, ToSet
<1>2. LogTypes'
  <2>1. log' \in Seq(Entries') /\ Len(log') = 0 /\ DOMAIN log' = {}
    BY NoEvents
  <2>2. nextId' \in Nat /\ Len(log') < nextId'
    BY <2>1
  <2>3. \A i \in DOMAIN log' : log'[i].id = nextId' - 1 - Len(log') + i
    BY <2>1, Zenon
  <2>4. evicted' \in BOOLEAN
    OBVIOUS
  <2> QED BY <2>1, <2>2, <2>3, <2>4, Zenon DEF LogTypes
<1>3. \A step \in ShownSteps : facts'[step] = FALSE
  BY DEF ShownSteps, Nothing
<1>4. Known'
  BY <1>1, <1>3 DEF Known
<1>5. OfferNamed' /\ RecentTold' /\ Addressed'
  BY <1>1 DEF OfferNamed, RecentTold, Addressed
<1>6. facts' \in [Steps -> BOOLEAN]
  BY DEF Nothing
<1> QED BY <1>2, <1>4, <1>5, <1>6 DEF Diagnosed

LEMMA UnsaidIs == Unsaid \in [Sessions -> Tellings] /\ \A m \in Sessions : Unsaid[m] = [offered |-> FALSE, answered |-> FALSE, candidates |-> 0]
  BY DEF Unsaid, Tellings

\* After a start nothing has been told to anybody.
LEMMA Unsaying ==
  ASSUME PathTypes, told' = Unsaid, browser' = None, SameSessions, cursor' = 0, nextId' = 1,
         facts' \in [Steps -> BOOLEAN]
  PROVE  PathTypes' /\ Numbered' /\ Heard'
<1>1. PathTypes'
  BY UnsaidIs DEF PathTypes, SameSessions
<1>2. Numbered'
  BY UnsaidIs DEF Numbered
<1>3. Heard'
  BY DEF Heard, Offering, HasPeer
<1> QED BY <1>1, <1>2, <1>3

LEMMA InitPath == ASSUME Init PROVE PathInv
<1>1. left \in Budgets
  BY DEF Init
<1>2. left \in Bounds /\ 1..left.sessions \subseteq Sessions
  BY <1>1, BoundsAssumption DEF Bounds, Sessions
<1>3. Entries = {}
  BY DEF Entries, ToSet, Init
<1>4. LogTypes
  <2>1. log \in Seq(Entries) /\ Len(log) = 0 /\ DOMAIN log = {}
    BY NoEvents DEF Init
  <2>2. nextId \in Nat /\ Len(log) < nextId
    BY <2>1 DEF Init
  <2>3. \A i \in DOMAIN log : log[i].id = nextId - 1 - Len(log) + i
    BY <2>1, Zenon
  <2>4. evicted \in BOOLEAN /\ missed \in BOOLEAN
    BY DEF Init
  <2> QED BY <2>1, <2>2, <2>3, <2>4, Zenon DEF LogTypes
<1>5. \A step \in ShownSteps : facts[step] = FALSE
  BY DEF ShownSteps, Nothing, Init
<1>6. Known
  BY <1>3, <1>5 DEF Known
<1>7. OfferNamed /\ RecentTold /\ Addressed
  BY <1>3 DEF OfferNamed, RecentTold, Addressed
<1>8. facts \in [Steps -> BOOLEAN]
  BY DEF Nothing, Init
<1>9. PathTypes
  BY <1>2, <1>8, UnsaidIs DEF PathTypes, Init
<1>10. Numbered
  BY UnsaidIs DEF Numbered, Init
<1>11. Heard
  BY DEF Heard, Offering, HasPeer, Init
<1> QED BY <1>4, <1>6, <1>7, <1>9, <1>10, <1>11 DEF PathInv, Diagnosed

LEMMA StartPath == ASSUME PathInv, Start PROVE PathInv'
<1>1. SameSessions
  BY DEF Start, SameSessions, PathInv, PathTypes
<1>2. CASE IsAuthorized(RoomSession.config)
  <2>1. /\ log' = <<>> /\ nextId' = 1 /\ evicted' = FALSE /\ cursor' = 0 /\ missed' = FALSE
        /\ browser' = None /\ told' = Unsaid /\ facts' = Nothing
    BY <1>2 DEF Start, Emptied
  <2>2. LogTypes' /\ Diagnosed' /\ Addressed' /\ facts' \in [Steps -> BOOLEAN]
    BY <2>1, EmptyLog
  <2>3. PathTypes' /\ Numbered' /\ Heard'
    BY <1>1, <2>1, <2>2, Unsaying DEF PathInv
  <2> QED BY <2>2, <2>3 DEF PathInv
<1>3. CASE ~IsAuthorized(RoomSession.config)
  <2>0. LogTypes /\ PathTypes /\ Numbered /\ Diagnosed /\ Addressed /\ Heard
    BY DEF PathInv
  <2>1. /\ log' = log /\ nextId' = nextId /\ evicted' = evicted /\ cursor' = 0 /\ missed' = missed
        /\ browser' = None /\ browser = None /\ told' = told /\ facts' = facts /\ gateway' = gateway
        /\ gateway # "connected"
    BY <1>3 DEF Start, logVars
  <2>2. LogTypes'
    BY <2>0, <2>1 DEF LogTypes, Entries
  <2>3. PathTypes'
    BY <1>1, <2>0, <2>1 DEF PathTypes, SameSessions
  <2>4. Numbered'
    BY <1>1, <2>0, <2>1 DEF Numbered, SameSessions
  <2>5. Diagnosed'
    BY <2>0, <2>1 DEF Diagnosed, Known, OfferNamed, RecentTold, IsNewest, Entries
  <2>6. Addressed'
    BY <2>0, <2>1 DEF Addressed, Entries
  <2>7. Heard'
    BY <2>1 DEF Heard, Offering, HasPeer
  <2> QED BY <2>2, <2>3, <2>4, <2>5, <2>6, <2>7 DEF PathInv
<1> QED BY <1>2, <1>3

LEMMA ReloadPath == ASSUME PathInv, Reload PROVE PathInv'
<1>1. /\ log' = <<>> /\ nextId' = 1 /\ evicted' = FALSE /\ cursor' = 0 /\ missed' = FALSE
      /\ browser' = None /\ told' = Unsaid /\ facts' = Nothing /\ Spend("changes")
  BY DEF Reload, Emptied
<1>2. SameSessions
  BY <1>1, SpentElsewhere DEF PathInv
<1>3. LogTypes' /\ Diagnosed' /\ Addressed' /\ facts' \in [Steps -> BOOLEAN]
  BY <1>1, EmptyLog
<1>4. PathTypes' /\ Numbered' /\ Heard'
  BY <1>1, <1>2, <1>3, Unsaying DEF PathInv
<1> QED BY <1>3, <1>4 DEF PathInv

LEMMA ClosesPath == ASSUME PathInv, BrowserCloses PROVE PathInv'
<1>0. LogTypes /\ PathTypes /\ Numbered /\ Diagnosed /\ Addressed /\ Heard
  BY DEF PathInv
<1>1. /\ log' = log /\ nextId' = nextId /\ evicted' = evicted /\ cursor' = cursor /\ missed' = missed
      /\ browser' = None /\ told' = told /\ facts' = facts /\ gateway' = gateway /\ left' = left
  BY DEF BrowserCloses, logVars
<1>2. LogTypes'
  BY <1>0, <1>1 DEF LogTypes, Entries
<1>3. PathTypes'
  BY <1>0, <1>1 DEF PathTypes
<1>4. Numbered'
  BY <1>0, <1>1 DEF Numbered
<1>5. Diagnosed'
  BY <1>0, <1>1 DEF Diagnosed, Known, OfferNamed, RecentTold, IsNewest, Entries
<1>6. Addressed'
  BY <1>0, <1>1 DEF Addressed, Entries
<1>7. Heard'
  BY <1>1 DEF Heard, Offering, HasPeer
<1> QED BY <1>2, <1>3, <1>4, <1>5, <1>6, <1>7 DEF PathInv

\* A page that has read everything has a session that has heard everything.
LEMMA NothingUnread ==
  ASSUME LogTypes, PathTypes, browser # None, \A e \in Entries : e.id <= cursor
  PROVE  Applied(browser, cursor, log) = Fresh(browser)
<1>1. log \in Seq(Entries)
  BY DEF LogTypes
<1>2. \A i \in DOMAIN log : log[i].id <= cursor
  BY DEF Entries, ToSet
<1> QED BY <1>1, <1>2, AppliedRead

LEMMA AppliedEmpty == ASSUME NEW b, NEW after PROVE Applied(b, after, <<>>) = Fresh(b)
<1> DEFINE none == <<>>
<1>1. none \in Seq({}) /\ Len(none) = 0
  OBVIOUS
<1> HIDE DEF none
<1>2. Applied(b, after, none) = Fresh(b)
  BY <1>1, AppliedNone
<1> QED BY <1>2 DEF none

LEMMA IdlePath == ASSUME PathInv, IdleEnds PROVE PathInv'
<1>0. LogTypes /\ PathTypes /\ Numbered /\ Diagnosed /\ Addressed /\ Heard
  BY DEF PathInv
<1>1. /\ log' = <<>> /\ nextId' = 1 /\ evicted' = FALSE /\ cursor' = cursor
      /\ browser' = browser /\ told' = told /\ facts' = Nothing /\ gateway' = "idle" /\ Spend("changes")
      /\ missed' = (missed \/ Unread # {})
  BY DEF IdleEnds
<1>2. SameSessions
  BY <1>0, <1>1, SpentElsewhere
<1>3. missed' \in BOOLEAN
  BY <1>1, Zenon
<1>4. LogTypes' /\ Diagnosed' /\ Addressed' /\ facts' \in [Steps -> BOOLEAN]
  BY <1>1, <1>3, EmptyLog
<1>5. PathTypes'
  BY <1>0, <1>1, <1>2, <1>4 DEF PathTypes, SameSessions
<1>6. Numbered'
  BY <1>0, <1>1, <1>2 DEF Numbered, SameSessions
<1>7. Heard'
  <2> SUFFICES ASSUME Offering', ~missed' PROVE Progress(told'[browser'.n], Applied(browser', cursor', log').browser)
    BY DEF Heard
  <2>1. Offering /\ browser # None
    BY <1>1 DEF Offering, HasPeer
  <2>2. ~missed /\ Unread = {}
    BY <1>1, Zenon
  <2>3. \A e \in Entries : e.id <= cursor
    <3>1. \A e \in Entries : ~(e.id > cursor)
      BY <2>2 DEF Unread, Entries
    <3>2. \A e \in Entries : e.id \in Nat
      BY <1>0, LogIds
    <3>3. cursor \in Nat
      BY <1>0 DEF PathTypes
    <3> QED BY <3>1, <3>2, <3>3
  <2>4. Applied(browser, cursor, log) = Fresh(browser)
    BY <1>0, <2>1, <2>3, NothingUnread
  <2>5. Applied(browser, cursor, <<>>) = Fresh(browser)
    BY AppliedEmpty
  <2>6. Progress(told[browser.n], Applied(browser, cursor, log).browser)
    BY <1>0, <2>1, <2>2 DEF Heard
  <2> QED BY <1>1, <2>4, <2>5, <2>6
<1> QED BY <1>4, <1>5, <1>6, <1>7 DEF PathInv

\* What the tail of a sequence is.
LEMMA TailIs ==
  ASSUME NEW S, NEW events \in Seq(S), events # <<>>
  PROVE  /\ Tail(events) \in Seq(S) /\ Len(Tail(events)) = Len(events) - 1 /\ Len(events) \in Nat \ {0}
         /\ \A i \in 1..(Len(events) - 1) : Tail(events)[i] = events[i + 1]
         /\ Tail(events) = SubSeq(events, 1 + 1, Len(events))
  OBVIOUS

Loses == log # <<>> /\ log' = Tail(log) /\ nextId' = nextId /\ evicted' = TRUE /\ missed' \in BOOLEAN

\* A log that loses its oldest event is a log.
LEMMA PruneLoses ==
  ASSUME LogTypes, Loses
  PROVE  LogTypes' /\ Gains({}) /\ News({})
<1>1. log \in Seq(Entries) /\ nextId \in Nat /\ Len(log) < nextId
  BY DEF LogTypes
<1>2. /\ log' \in Seq(Entries) /\ Len(log') = Len(log) - 1 /\ Len(log) \in Nat \ {0}
      /\ \A i \in 1..(Len(log) - 1) : log'[i] = log[i + 1]
  BY <1>1, TailIs DEF Loses
<1>n. nextId' = nextId /\ evicted' = TRUE /\ missed' \in BOOLEAN
  BY DEF Loses
<1>3. Entries' = {log'[i] : i \in 1..(Len(log) - 1)}
  BY <1>2 DEF Entries, ToSet
<1>4. log' \in Seq(Entries')
  BY <1>2, <1>3
<1>5. \A i \in DOMAIN log' : log'[i].id = nextId' - 1 - Len(log') + i
  <2> SUFFICES ASSUME NEW i \in 1..(Len(log) - 1) PROVE log'[i].id = nextId' - 1 - Len(log') + i
    BY <1>2
  <2>1. log'[i] = log[i + 1] /\ i + 1 \in DOMAIN log
    BY <1>1, <1>2
  <2>2. log[i + 1].id = nextId - 1 - Len(log) + (i + 1)
    BY <2>1 DEF LogTypes
  <2> QED BY <1>1, <1>2, <1>n, <2>1, <2>2
<1>6. LogTypes'
  <2>1. nextId' \in Nat /\ Len(log') < nextId'
    BY <1>1, <1>2, <1>n
  <2>2. evicted' \in BOOLEAN
    BY <1>n
  <2> QED BY <1>4, <1>5, <1>n, <2>1, <2>2, Zenon DEF LogTypes
<1>7. Gains({})
  <2>1. Entries' = {log[i] : i \in 2..Len(log)}
    <3>1. \A i \in 1..(Len(log) - 1) : i + 1 \in 2..Len(log)
      BY <1>2
    <3>2. \A i \in 2..Len(log) : i - 1 \in 1..(Len(log) - 1) /\ log'[i - 1] = log[i]
      BY <1>2
    <3>3. \A i \in 2..Len(log) : log[i] \in Entries'
      BY <1>3, <3>2
    <3>4. \A e \in Entries' : \E i \in 2..Len(log) : e = log[i]
      BY <1>2, <1>3, <3>1
    <3> QED BY <3>3, <3>4
  <2>2. Entries = {log[i] : i \in 1..Len(log)}
    BY <1>1 DEF Entries, ToSet
  <2>3. \A i \in 1..Len(log) : log[i].id = nextId - 1 - Len(log) + i
    BY <1>1 DEF LogTypes
  <2>4. Entries' \subseteq Entries
    BY <2>1, <2>2
  <2>5. ASSUME NEW e \in Entries', NEW f \in Entries, f.id >= e.id PROVE f \in Entries'
    <3>1. PICK i \in 2..Len(log) : e = log[i]
      BY <2>1
    <3>2. PICK j \in 1..Len(log) : f = log[j]
      BY <2>2
    <3>3. i \in 1..Len(log) /\ e.id = nextId - 1 - Len(log) + i /\ f.id = nextId - 1 - Len(log) + j
      BY <2>3, <3>1, <3>2
    <3>4. j \in 2..Len(log)
      BY <1>1, <1>2, <2>5, <3>3
    <3> QED BY <2>1, <3>2, <3>4
  <2> QED BY <1>n, <2>4, <2>5 DEF Gains
<1>8. News({})
  BY <1>1, <1>n DEF News
<1> QED BY <1>6, <1>7, <1>8

LEMMA PrunePath == ASSUME PathInv, Prune PROVE PathInv'
<1>0. LogTypes /\ PathTypes /\ Numbered /\ Diagnosed /\ Addressed /\ Heard
  BY DEF PathInv
<1>1. /\ log # <<>> /\ log' = Tail(log) /\ nextId' = nextId /\ evicted' = TRUE /\ cursor' = cursor
      /\ browser' = browser /\ told' = told /\ facts' = facts /\ gateway' = gateway /\ Spend("changes")
      /\ missed' = (missed \/ log[1].id > cursor)
  BY DEF Prune
<1>2. SameSessions
  BY <1>0, <1>1, SpentElsewhere
<1>3. missed' \in BOOLEAN
  BY <1>1, Zenon
<1>4. LogTypes' /\ Gains({}) /\ News({})
  BY <1>0, <1>1, <1>3, PruneLoses DEF Loses
<1>5. Diagnosed'
  BY <1>0, <1>1, <1>4, SilentKeeps DEF SameOffers
<1>6. PathTypes'
  BY <1>0, <1>1, <1>2 DEF PathTypes, SameSessions
<1>7. Numbered'
  BY <1>0, <1>1, <1>2 DEF Numbered, SameSessions
<1>8. Addressed'
  <2>1. Entries' \subseteq Entries
    BY <1>4 DEF Gains
  <2> QED BY <1>0, <1>1, <2>1 DEF Addressed
<1>9. Heard'
  <2> SUFFICES ASSUME Offering', ~missed' PROVE Progress(told'[browser'.n], Applied(browser', cursor', log').browser)
    BY DEF Heard
  <2>1. Offering
    BY <1>1 DEF Offering, HasPeer
  <2>2. ~missed /\ ~(log[1].id > cursor)
    BY <1>1, Zenon
  <2>3. Progress(told[browser.n], Applied(browser, cursor, log).browser)
    BY <1>0, <2>1, <2>2 DEF Heard
  <2>4. log \in Seq(Entries) /\ Len(log) \in Nat \ {0} /\ Tail(log) = SubSeq(log, 1 + 1, Len(log))
    BY <1>0, <1>1, TailIs DEF LogTypes
  <2>5. \A i \in 1..1 : log[i].id <= cursor
    <3>1. log[1].id \in Nat /\ cursor \in Nat
      BY <1>0, <2>4, LogIds DEF Entries, ToSet, PathTypes
    <3> QED BY <2>2, <3>1
  <2>6. 1 \in 0..Len(log)
    BY <2>4
  <2>7. Applied(browser, cursor, SubSeq(log, 1 + 1, Len(log))) = Applied(browser, cursor, log)
    BY <2>4, <2>5, <2>6, AppliedDrop
  <2>8. Applied(browser, cursor, log') = Applied(browser, cursor, log)
    BY <1>1, <2>4, <2>7
  <2> QED BY <1>1, <2>3, <2>8
<1> QED BY <1>4, <1>5, <1>6, <1>7, <1>8, <1>9 DEF PathInv

\* Recording one event adds it.
LEMMA RecordedOne ==
  ASSUME PathInv, NEW inbound \in BOOLEAN, NEW part, Record(inbound, <<part>>, cursor)
  PROVE  \E e : Adds({e}, e, inbound, part, cursor)
<1>1. LogTypes /\ cursor \in Nat
  BY DEF PathInv, PathTypes
<1> DEFINE events == <<part>>
<1>2. Sends(events, part) /\ Record(inbound, events, cursor)
  BY DEF Sends
<1>3. events = <<part>>
  OBVIOUS
<1> HIDE DEF events
<1>4. PICK new : \E e \in new : Adds(new, e, inbound, part, cursor) /\ (events = <<part>> => new = {e})
  BY <1>1, <1>2, RecordAdds
<1> QED BY <1>3, <1>4

\* Types are kept by a step that keeps what it writes in its type.
LEMMA TypesGoOn ==
  ASSUME PathTypes, cursor' = cursor, facts' \in [Steps -> BOOLEAN], told' \in [Sessions -> Tellings],
         left' \in Bounds, left'.sessions <= left.sessions, browser' \in Browsers \cup {None}
  PROVE  PathTypes'
<1>1. left.sessions \in Nat /\ left'.sessions \in Nat /\ 1..left.sessions \subseteq Sessions
  BY DEF PathTypes, Bounds
<1>2. 1..left'.sessions \subseteq 1..left.sessions
  BY <1>1
<1>3. 1..left'.sessions \subseteq Sessions
  BY <1>1, <1>2
<1> QED BY <1>3 DEF PathTypes

\* New events leave the cursor behind the next id.
LEMMA CursorBehind ==
  ASSUME LogTypes, PathTypes, Numbered, NEW new, News(new), gateway = "connected", cursor' = cursor
  PROVE  cursor' < nextId'
  BY DEF LogTypes, PathTypes, Numbered, News

LEMMA ControlPath == ASSUME PathInv, Control PROVE PathInv'
<1>0. LogTypes /\ PathTypes /\ Numbered /\ Diagnosed /\ Addressed /\ Heard
  BY DEF PathInv
<1> DEFINE part == [event |-> "control", items |-> <<Item>>]
<1>1. /\ gateway = "connected" /\ browser = None /\ Spend("sessions") /\ cursor' = cursor
      /\ told' = told /\ facts' = facts /\ gateway' = gateway
      /\ browser' = [n |-> left.sessions, stage |-> "controlling", signaling |-> "stable", candidates |-> 0]
      /\ Record(FALSE, <<part>>, cursor)
  BY DEF Control
<1>2. part.event = "control"
  OBVIOUS
<1> HIDE DEF part
<1>3. PICK e : Adds({e}, e, FALSE, part, cursor)
  BY <1>1, RecordedOne
<1>4. e.inbound = FALSE /\ e.event = "control"
  BY <1>2, <1>3 DEF Adds, Carries
<1>5. Marks(e, {})
  BY <1>4, ControlShows
<1>6. LogTypes' /\ News({e})
  BY <1>3 DEF Adds
<1>7. Diagnosed'
  <2>1. SameOffers /\ SameRecent /\ FactsGain({})
    BY <1>1 DEF SameOffers, SameRecent, FactsGain
  <2> QED BY <1>0, <1>3, <1>5, <2>1, MarkedKeeps
<1>8. Addressed'
  BY <1>0, <1>1, <1>3, <1>4, AddressedKeeps DEF Speaks
<1>9. left \in Bounds /\ left' \in Bounds /\ left.sessions > 0 /\ left'.sessions = left.sessions - 1 /\ left.sessions \in Nat
  BY <1>0, <1>1, SpendIs DEF PathTypes, Bounds
<1>10. left.sessions \in Sessions
  BY <1>0, <1>9 DEF PathTypes
<1>11. browser' \in Browsers
  BY <1>1, <1>10 DEF Browsers, Stages
<1>12. PathTypes'
  BY <1>0, <1>1, <1>9, <1>11, TypesGoOn DEF PathTypes
<1>13. Numbered'
  <2>1. cursor' < nextId'
    BY <1>0, <1>1, <1>6, CursorBehind
  <2>2. \A m \in Sessions : m \in Nat /\ (told[m].offered => m > left.sessions)
    BY <1>0, SessionsAreNumbers DEF Numbered
  <2>3. ~told[left.sessions].offered
    BY <1>9, <1>10, <2>2
  <2>4. \A m \in Sessions : told'[m].offered => m > left'.sessions
    BY <1>1, <1>9, <2>2
  <2>5. browser' # None /\ browser'.n = left'.sessions + 1
    BY <1>1, <1>9, <1>11, NoneAssumption DEF Browsers, Stages
  <2>6. \A m \in Sessions : ~told'[m].offered => ~told'[m].answered /\ told'[m].candidates = 0
    BY <1>0, <1>1 DEF Numbered
  <2>7. browser'.candidates = 0 /\ browser'.n = left.sessions
    BY <1>1
  <2> QED BY <1>1, <2>1, <2>3, <2>4, <2>5, <2>6, <2>7 DEF Numbered
<1>14. Heard'
  BY <1>1 DEF Heard, Offering, HasPeer
<1> QED BY <1>6, <1>7, <1>8, <1>12, <1>13, <1>14 DEF PathInv

LEMMA AckedPath == ASSUME PathInv, NEW items \in Acks.accepts \cup Acks.refuses, Acked(items) PROVE PathInv'
<1>0. LogTypes /\ PathTypes /\ Numbered /\ Diagnosed /\ Addressed /\ Heard
  BY DEF PathInv
<1> DEFINE part == [event |-> "control:ack", items |-> items]
<1>1. /\ gateway = "connected" /\ browser # None /\ browser.stage = "controlling" /\ cursor' = cursor
      /\ told' = told /\ left' = left /\ gateway' = gateway
      /\ browser' = None \/ browser' = [browser EXCEPT !.stage = "controlled"]
      /\ facts' = [facts EXCEPT !.acked = @ \/ items \in Acks.accepts, !.refused = @ \/ items \in Acks.refuses]
      /\ Record(TRUE, <<part>>, cursor)
  BY DEF Acked
<1>2. part.event = "control:ack" /\ part.items = items
  OBVIOUS
<1> HIDE DEF part
<1>3. PICK e : Adds({e}, e, TRUE, part, cursor)
  BY <1>1, RecordedOne
<1>4. e.inbound = TRUE /\ e.event = "control:ack" /\ e.items = items
  BY <1>2, <1>3 DEF Adds, Carries
<1> DEFINE M == IF items \in Acks.accepts THEN {"acked"} ELSE {"refused"}
<1>5. Marks(e, M) /\ (items \in Acks.accepts <=> items \notin Acks.refuses)
  BY <1>4, AckShows
<1>6. LogTypes' /\ News({e})
  BY <1>3 DEF Adds
<1>7. facts \in [Steps -> BOOLEAN]
  BY <1>0 DEF PathTypes
<1>8. facts' \in [Steps -> BOOLEAN]
  BY <1>1, <1>7, Zenon
<1>9. FactsGain(M) /\ SameRecent
  <2>1. \A step \in Steps : facts'[step] = IF step = "refused" THEN facts[step] \/ items \in Acks.refuses
                                           ELSE IF step = "acked" THEN facts[step] \/ items \in Acks.accepts
                                           ELSE facts[step]
    BY <1>1, <1>7 DEF Steps
  <2>2. "recent" \in Steps /\ \A step \in ShownSteps : step \in Steps /\ step # "recent"
    BY DEF Steps, ShownSteps
  <2>3. SameRecent
    BY <2>1, <2>2 DEF SameRecent
  <2>4. ASSUME NEW step \in ShownSteps PROVE facts'[step] <=> facts[step] \/ step \in M
    <3>1. CASE step = "refused"
      <4>1. step \in M <=> items \in Acks.refuses
        BY <1>5, <3>1
      <4>2. facts'[step] = (facts[step] \/ items \in Acks.refuses)
        BY <2>1, <2>2, <3>1, Zenon
      <4> QED BY <4>1, <4>2, Zenon
    <3>2. CASE step = "acked"
      <4>1. step \in M <=> items \in Acks.accepts
        BY <1>5, <3>2
      <4>2. facts'[step] = (facts[step] \/ items \in Acks.accepts)
        BY <2>1, <2>2, <3>2
      <4> QED BY <4>1, <4>2, Zenon
    <3>3. CASE step \notin {"acked", "refused"}
      <4>1. step \notin M /\ facts'[step] = facts[step]
        BY <2>1, <2>2, <3>3
      <4> QED BY <4>1, Zenon
    <3> QED BY <3>1, <3>2, <3>3
  <2> QED BY <2>3, <2>4 DEF FactsGain
<1>10. Diagnosed'
  <2>1. SameOffers /\ "offered" \notin M /\ "left" \notin M
    BY <1>1 DEF SameOffers
  <2> HIDE DEF M
  <2> QED BY <1>0, <1>3, <1>5, <1>9, <2>1, MarkedKeeps
<1>11. Addressed'
  BY <1>0, <1>1, <1>3, <1>4, AddressedKeeps DEF Speaks
<1>12. browser \in Browsers /\ browser' \in Browsers \cup {None}
  BY <1>0, <1>1 DEF PathTypes, Browsers, Stages
<1>13. PathTypes'
  <2>1. left \in Bounds /\ left.sessions \in Nat
    BY <1>0 DEF PathTypes, Bounds
  <2> QED BY <1>0, <1>1, <1>8, <1>12, <2>1, TypesGoOn DEF PathTypes
<1>14. browser' # None => browser'.n = browser.n /\ browser'.candidates = browser.candidates /\ browser'.stage = "controlled"
  BY <1>1, <1>12 DEF Browsers
<1>15. Numbered'
  <2>1. cursor' < nextId'
    BY <1>0, <1>1, <1>6, CursorBehind
  <2> QED BY <1>0, <1>1, <1>14, <2>1 DEF Numbered
<1>16. Heard'
  BY <1>14 DEF Heard, Offering, HasPeer
<1> QED BY <1>6, <1>10, <1>11, <1>13, <1>15, <1>16 DEF PathInv

LEMMA SoacIs ==
  ASSUME NEW type, NEW n
  PROVE  Soac(type, n).event = "soac"
  BY DEF Soac

LEMMA OfferPath == ASSUME PathInv, Offer PROVE PathInv'
<1>0. LogTypes /\ PathTypes /\ Numbered /\ Diagnosed /\ Addressed /\ Heard
  BY DEF PathInv
<1> DEFINE n == browser.n
           part == Soac("offer", n)
<1>1. /\ gateway = "connected" /\ browser # None /\ browser.stage = "controlled" /\ cursor' = cursor
      /\ browser' = [browser EXCEPT !.stage = "offered", !.signaling = "have-local-offer"]
      /\ facts' = [facts EXCEPT !.offered = TRUE] /\ told' = [told EXCEPT ![n].offered = TRUE]
      /\ left' = left /\ gateway' = gateway
      /\ Record(FALSE, <<part>>, cursor)
  BY DEF Offer
<1>2. part.event = "soac"
  BY SoacIs
<1>3. browser \in Browsers /\ n \in Sessions /\ told \in [Sessions -> Tellings] /\ facts \in [Steps -> BOOLEAN]
  BY <1>0, <1>1 DEF PathTypes, Browsers
<1>b. browser' \in Browsers /\ browser'.n = n /\ browser'.stage = "offered" /\ browser'.signaling = "have-local-offer"
      /\ browser'.candidates = browser.candidates
  BY <1>1, <1>3 DEF Browsers, Stages
<1>t. /\ told'[n].offered = TRUE /\ told'[n].answered = told[n].answered /\ told'[n].candidates = told[n].candidates
      /\ \A m \in Sessions : m # n => told'[m] = told[m]
  BY <1>1, <1>3 DEF Tellings
<1> HIDE DEF part
<1>4. PICK e : Adds({e}, e, FALSE, part, cursor)
  BY <1>1, RecordedOne
<1>5. e.inbound = FALSE /\ e.event = "soac" /\ e.items = Soac("offer", n).items
  BY <1>2, <1>4 DEF Adds, Carries, part
<1>6. Marks(e, {"offered"}) /\ Ice(e.items) = n
  <2>1. "offer" \in SoacTypes
    BY DEF SoacTypes
  <2> HIDE DEF n
  <2>2. \A type \in SoacTypes : e.items = Soac(type, n).items =>
          Marks(e, IF type = "offer" THEN {"offered"} ELSE {})
    BY <1>3, <1>5, SentShows
  <2>3. \A type \in SoacTypes : e.items = Soac(type, n).items => Ice(e.items) = n
    BY <1>3, <1>5, SentShows
  <2> QED BY <1>5, <2>1, <2>2, <2>3
<1>7. LogTypes' /\ News({e})
  BY <1>4 DEF Adds
<1>8. facts' \in [Steps -> BOOLEAN]
  BY <1>1, <1>3
<1>9. FactsGain({"offered"}) /\ SameRecent
  <2>1. \A step \in Steps : facts'[step] = IF step = "offered" THEN TRUE ELSE facts[step]
    BY <1>1, <1>3
  <2>2. "recent" \in Steps /\ \A step \in ShownSteps : step \in Steps
    BY DEF Steps, ShownSteps
  <2>3. SameRecent
    BY <2>1, <2>2 DEF SameRecent
  <2>4. ASSUME NEW step \in ShownSteps PROVE facts'[step] <=> facts[step] \/ step \in {"offered"}
    BY <2>1, <2>2
  <2> QED BY <2>3, <2>4 DEF FactsGain
<1>10. n = left.sessions + 1 /\ ~told[n].offered /\ browser.candidates = 0
  BY <1>0, <1>1 DEF Numbered
<1>11. left.sessions \in Nat /\ \A m \in Sessions : m \in Nat
  BY <1>0, SessionsAreNumbers DEF PathTypes, Bounds
<1>12. \A m \in Sessions : told'[m].offered => m > left.sessions /\ m >= n
  <2>1. ASSUME NEW m \in Sessions, told'[m].offered PROVE m > left.sessions
    BY <1>0, <1>3, <1>t, <1>10, <1>11, <2>1 DEF Numbered
  <2> QED BY <1>10, <1>11, <2>1
<1>13. Diagnosed'
  <2> HIDE DEF n
  <2>1. e \in {e} /\ {e} = {e} /\ told'[n].offered
    BY <1>t
  <2> QED BY <1>0, <1>3, <1>4, <1>6, <1>9, <1>12, <2>1, OfferKeeps
<1>14. Addressed'
  <2>1. \A m \in Sessions : told[m].offered => told'[m].offered
    BY <1>t
  <2> QED BY <1>0, <1>4, <1>5, <2>1, AddressedKeeps DEF Speaks
<1>15. told' \in [Sessions -> Tellings]
  <2>1. DOMAIN told' = Sessions /\ told' = [m \in Sessions |-> told'[m]]
    BY <1>1, <1>3
  <2>2. ASSUME NEW m \in Sessions PROVE told'[m] \in Tellings
    <3>1. CASE m = n
      <4>1. told'[m] = [told[m] EXCEPT !.offered = TRUE]
        BY <1>1, <1>3, <3>1
      <4> QED BY <1>3, <4>1 DEF Tellings
    <3>2. CASE m # n
      BY <1>3, <1>t, <3>2
    <3> QED BY <3>1, <3>2
  <2> QED BY <2>1, <2>2
<1>16. PathTypes'
  <2>1. left' \in Bounds /\ left'.sessions <= left.sessions
    BY <1>0, <1>1, <1>11 DEF PathTypes
  <2> QED BY <1>0, <1>1, <1>8, <1>15, <1>b, <2>1, TypesGoOn
<1>17. Numbered'
  <2>1. cursor' < nextId'
    BY <1>0, <1>1, <1>7, CursorBehind
  <2>2. \A m \in Sessions : ~told'[m].offered => ~told'[m].answered /\ told'[m].candidates = 0
    BY <1>0, <1>t DEF Numbered
  <2>3. browser' # None => browser'.n = left'.sessions + 1
    BY <1>1, <1>b, <1>10
  <2>4. browser'.stage \notin {"controlling", "controlled"}
    BY <1>b
  <2> QED BY <1>1, <1>12, <2>1, <2>2, <2>3, <2>4 DEF Numbered
<1>18. Heard'
  <2> SUFFICES ASSUME Offering', ~missed' PROVE Progress(told'[browser'.n], Applied(browser', cursor', log').browser)
    BY DEF Heard
  <2>1. \A f \in Entries : Inert(f, n)
    BY <1>0, <1>10, Zenon DEF Addressed, Inert
  <2>2. log \in Seq(Entries) /\ \A i \in DOMAIN log : Passes(log[i], cursor, n)
    BY <1>0, <2>1 DEF LogTypes, Entries, ToSet, Passes
  <2> DEFINE c == browser'
  <2>c. c \in Browsers /\ c.n = n
    BY <1>b
  <2> HIDE DEF c, n
  <2>3. Applied(c, cursor, log) = Fresh(c)
    BY <1>3, <2>2, <2>c, AppliedInert
  <2>4. \A b : Applied(b, cursor, log') = OneMore(cursor, Applied(b, cursor, log), e)
    BY <1>4 DEF Adds, Follows
  <2>5. OneMore(cursor, Fresh(c), e) = Fresh(c)
    BY <1>5 DEF OneMore, ApplyEvent
  <2>6. Applied(c, cursor, log') = Fresh(c)
    BY <2>3, <2>4, <2>5
  <2>7. Fresh(c).browser = c
    BY DEF Fresh
  <2>8. ~told[n].answered /\ told[n].candidates = 0
    BY <1>0, <1>3, <1>10 DEF Numbered
  <2>9. Progress(told'[n], c)
    BY <1>b, <1>t, <1>10, <2>8 DEF Progress, c
  <2> QED BY <1>1, <1>b, <2>6, <2>7, <2>9 DEF c
<1> QED BY <1>7, <1>13, <1>14, <1>16, <1>17, <1>18 DEF PathInv

LEMMA CandidatePath == ASSUME PathInv, Candidate PROVE PathInv'
<1>0. LogTypes /\ PathTypes /\ Numbered /\ Diagnosed /\ Addressed /\ Heard
  BY DEF PathInv
<1> DEFINE n == browser.n
           part == Soac("candidate", n)
<1>1. /\ gateway = "connected" /\ browser # None /\ Spend("said") /\ cursor' = cursor
      /\ browser' = browser /\ told' = told /\ facts' = facts /\ gateway' = gateway
      /\ Record(FALSE, <<part>>, cursor)
  BY DEF Candidate
<1>2. part.event = "soac"
  BY SoacIs
<1>3. n \in Sessions
  BY <1>0, <1>1 DEF PathTypes, Browsers
<1> HIDE DEF part
<1>4. PICK e : Adds({e}, e, FALSE, part, cursor)
  BY <1>1, RecordedOne
<1>5. e.inbound = FALSE /\ e.event = "soac" /\ e.items = Soac("candidate", n).items
  BY <1>2, <1>4 DEF Adds, Carries, part
<1>6. Marks(e, {})
  <2>1. "candidate" \in SoacTypes
    BY DEF SoacTypes, InboundTypes
  <2>2. \A type \in SoacTypes : e.items = Soac(type, n).items => Marks(e, IF type = "offer" THEN {"offered"} ELSE {})
    BY <1>3, <1>5, SentShows
  <2> QED BY <1>5, <2>1, <2>2
<1>7. LogTypes' /\ News({e})
  BY <1>4 DEF Adds
<1>8. Diagnosed'
  <2>1. SameOffers /\ SameRecent /\ FactsGain({})
    BY <1>1 DEF SameOffers, SameRecent, FactsGain
  <2> QED BY <1>0, <1>4, <1>6, <2>1, MarkedKeeps
<1>9. Addressed'
  BY <1>0, <1>1, <1>4, <1>5, AddressedKeeps DEF Speaks
<1>10. SameSessions
  BY <1>0, <1>1, SpentElsewhere
<1>11. PathTypes'
  BY <1>0, <1>1, <1>10 DEF PathTypes, SameSessions
<1>12. Numbered'
  <2>1. cursor' < nextId'
    BY <1>0, <1>1, <1>7, CursorBehind
  <2> QED BY <1>0, <1>1, <1>10, <2>1 DEF Numbered, SameSessions
<1>13. Heard'
  BY <1>0, <1>1, <1>4, <1>5, HeardOthers DEF Inert, Speaks
<1> QED BY <1>7, <1>8, <1>9, <1>11, <1>12, <1>13 DEF PathInv

Still == gateway = "connected" /\ gateway' = gateway /\ cursor' = cursor /\ browser' = browser /\ SameSessions

\* What is heard from the device is added to the log, and nothing else changes at the page.
LEMMA HearAdds ==
  ASSUME PathInv, NEW wire, NEW part, Sends(InboundEvents(wire), part), Hear(wire)
  PROVE  Still /\ \E new : \E e \in new : Adds(new, e, TRUE, part, cursor)
<1>1. /\ gateway = "connected" /\ Spend("said") /\ gateway' = gateway /\ cursor' = cursor /\ browser' = browser
      /\ Record(TRUE, InboundEvents(wire), cursor)
  BY DEF Hear
<1>2. LogTypes /\ PathTypes /\ cursor \in Nat
  BY DEF PathInv, PathTypes
<1>3. Still
  BY <1>1, <1>2, SpentElsewhere DEF Still
<1> DEFINE events == InboundEvents(wire)
<1>4. Sends(events, part) /\ Record(TRUE, events, cursor)
  BY <1>1
<1> HIDE DEF events
<1>5. \A it : Record(it, events, cursor) => \E new : \E e \in new : Adds(new, e, it, part, cursor)
  BY <1>2, <1>4, RecordAdds
<1> QED BY <1>3, <1>4, <1>5

\* Types and numbers are kept by what the device says.
LEMMA DeviceTypes ==
  ASSUME PathInv, Still, LogTypes', NEW new, News(new), told' \in [Sessions -> Tellings], facts' \in [Steps -> BOOLEAN],
         SameOffers, \A m \in Sessions : ~told[m].offered => told'[m] = told[m]
  PROVE  PathTypes' /\ Numbered'
<1>0. LogTypes /\ PathTypes /\ Numbered
  BY DEF PathInv
<1>1. PathTypes'
  BY <1>0 DEF PathTypes, Still, SameSessions
<1>2. cursor' < nextId'
  BY <1>0, CursorBehind DEF Still
<1>3. browser # None => browser.n \in Sessions
  BY <1>0 DEF PathTypes, Browsers
<1>4. Numbered'
  <2>1. /\ browser' # None => browser'.n = left'.sessions + 1
        /\ gateway' = "connected" => cursor' < nextId'
    BY <1>0, <1>2 DEF Numbered, Still, SameSessions
  <2>2. \A m \in Sessions : told'[m].offered => m > left'.sessions
    BY <1>0 DEF Numbered, Still, SameSessions, SameOffers
  <2>3. \A m \in Sessions : ~told'[m].offered => ~told'[m].answered /\ told'[m].candidates = 0
    BY <1>0 DEF Numbered, SameOffers
  <2>4. browser' # None /\ browser'.stage \in {"controlling", "controlled"} =>
          ~told'[browser'.n].offered /\ browser'.candidates = 0
    BY <1>0, <1>3 DEF Numbered, Still, SameOffers
  <2> QED BY <2>1, <2>2, <2>3, <2>4 DEF Numbered
<1> QED BY <1>1, <1>4

\* What is said to a session.
LEMMA SaidTo ==
  ASSUME PathInv, Still, NEW new, NEW e \in new, NEW part, Adds(new, e, TRUE, part, cursor),
         NEW n \in Sessions, told[n].offered, About(e, n), SameOffers,
         \A m \in Sessions : m # n => told'[m] = told[m], Tells(told[n], told'[n], e, n)
  PROVE  Addressed' /\ Heard'
<1>0. LogTypes /\ PathTypes /\ Numbered /\ Addressed /\ Heard
  BY DEF PathInv
<1>1. gateway = "connected" /\ browser' = browser /\ cursor' = cursor
  BY DEF Still
<1>2. Addressed'
  <2>1. \A m \in Sessions : told[m].offered => told'[m].offered
    BY DEF SameOffers
  <2>2. \E m \in Sessions : told[m].offered /\ About(e, m)
    OBVIOUS
  <2> QED BY <1>0, <2>1, <2>2, AddressedKeeps
<1>3. Heard'
  <2>1. CASE browser # None /\ browser.n = n
    BY <1>0, <1>1, <2>1, HeardOwn
  <2>2. CASE ~(browser # None /\ browser.n = n)
    <3>1. Offering => browser # None /\ browser.n \in Sessions /\ browser.n # n
      BY <1>0, <2>2 DEF Offering, HasPeer, PathTypes, Browsers
    <3>2. Offering => Inert(e, browser.n) /\ told'[browser.n] = told[browser.n]
      BY <3>1 DEF Inert
    <3> QED BY <1>0, <1>1, <3>2, HeardOthers
  <2> QED BY <2>1, <2>2
<1> QED BY <1>2, <1>3

\* What is said to nobody.
LEMMA SaidAside ==
  ASSUME PathInv, Still, NEW new, NEW e \in new, NEW part, Adds(new, e, TRUE, part, cursor), ~Speaks(e), told' = told
  PROVE  Addressed' /\ Heard'
<1>0. LogTypes /\ PathTypes /\ Numbered /\ Addressed /\ Heard
  BY DEF PathInv
<1>1. gateway = "connected" /\ browser' = browser /\ cursor' = cursor
  BY DEF Still
<1>2. Addressed'
  BY <1>0, AddressedKeeps
<1>3. Heard'
  BY <1>0, <1>1, HeardOthers DEF Inert
<1> QED BY <1>2, <1>3

\* SOAC messages of different types are different.
LEMMA SignalsDiffer ==
  ASSUME NEW n \in Sessions, NEW t \in InboundTypes, NEW u \in InboundTypes, <<Signal(t, n)>> = <<Signal(u, n)>>
  PROVE  t = u
<1>1. Signal(t, n) = Signal(u, n)
  <2> DEFINE x == Signal(t, n)
             y == Signal(u, n)
  <2>1. <<x>> = <<y>>
    OBVIOUS
  <2> HIDE DEF x, y
  <2>2. <<x>>[1] = x /\ <<y>>[1] = y
    OBVIOUS
  <2>3. x = y
    BY <2>1, <2>2
  <2> QED BY <2>3 DEF x, y
<1>2. t \in SoacTypes /\ u \in SoacTypes
  BY DEF SoacTypes
<1>3. Signal(t, n).data.type = t
  BY <1>2, SignalIs
<1>4. Signal(u, n).data.type = u
  BY <1>2, SignalIs
<1> QED BY <1>1, <1>3, <1>4

\* Telling one session something tells no other anything.
LEMMA ToldOne ==
  ASSUME told \in [Sessions -> Tellings], NEW n \in Sessions, NEW u \in Tellings, u.offered = told[n].offered,
         told[n].offered, told' = [told EXCEPT ![n] = u]
  PROVE  /\ told' \in [Sessions -> Tellings] /\ told'[n] = u /\ SameOffers
         /\ \A m \in Sessions : m # n => told'[m] = told[m]
         /\ \A m \in Sessions : ~told[m].offered => told'[m] = told[m]
  BY DEF SameOffers

LEMMA AnswersPath == ASSUME PathInv, NEW n \in Sessions, Answers(n) PROVE PathInv'
<1>0. LogTypes /\ PathTypes /\ Diagnosed
  BY DEF PathInv
<1>1. /\ told[n].offered /\ facts' = [facts EXCEPT !.answered = TRUE] /\ told' = [told EXCEPT ![n].answered = TRUE]
      /\ \E type \in {"answer", "restart_ice"} : \E wire \in SoacWays(type, n) : Hear(wire)
  BY DEF Answers
<1>2. PICK type \in {"answer", "restart_ice"} : \E wire \in SoacWays(type, n) : Hear(wire)
  BY <1>1
<1>3. type \in InboundTypes /\ type # "candidate"
  BY DEF InboundTypes
<1>4. Still /\ \E new : \E e \in new : Adds(new, e, TRUE, SoacPart(type, n), cursor)
  BY <1>2, <1>3, SoacWaysSend, HearAdds
<1>5. PICK new : \E e \in new : Adds(new, e, TRUE, SoacPart(type, n), cursor)
  BY <1>4
<1>6. PICK e \in new : Adds(new, e, TRUE, SoacPart(type, n), cursor)
  BY <1>5
<1>7. e.inbound = TRUE /\ e.event = "soac" /\ e.items = <<Signal(type, n)>>
  BY <1>6 DEF Adds, Carries, SoacPart
<1>8. LogTypes' /\ News(new)
  BY <1>6 DEF Adds
<1>9. Marks(e, {"answered"})
  <2>1. Marks(e, IF type = "candidate" THEN {} ELSE {"answered"})
    BY <1>3, <1>7, SoacShows
  <2> QED BY <1>3, <2>1
<1>10. facts \in [Steps -> BOOLEAN] /\ told \in [Sessions -> Tellings]
  BY <1>0 DEF PathTypes
<1>11. facts' \in [Steps -> BOOLEAN]
  BY <1>1, <1>10
<1>12. FactsGain({"answered"}) /\ SameRecent
  <2>1. \A step \in Steps : facts'[step] = IF step = "answered" THEN TRUE ELSE facts[step]
    BY <1>1, <1>10
  <2>2. "recent" \in Steps /\ \A step \in ShownSteps : step \in Steps
    BY DEF Steps, ShownSteps
  <2>3. SameRecent
    BY <2>1, <2>2 DEF SameRecent
  <2>4. ASSUME NEW step \in ShownSteps PROVE facts'[step] <=> facts[step] \/ step \in {"answered"}
    BY <2>1, <2>2
  <2> QED BY <2>3, <2>4 DEF FactsGain
<1>13. /\ told' \in [Sessions -> Tellings] /\ told'[n] = [told[n] EXCEPT !.answered = TRUE] /\ SameOffers
       /\ \A m \in Sessions : m # n => told'[m] = told[m]
       /\ \A m \in Sessions : ~told[m].offered => told'[m] = told[m]
  <2> DEFINE u == [told[n] EXCEPT !.answered = TRUE]
  <2>1. u \in Tellings /\ u.offered = told[n].offered
    BY <1>10 DEF Tellings
  <2>2. told' = [told EXCEPT ![n] = u]
    BY <1>1
  <2> HIDE DEF u
  <2>3. /\ told' \in [Sessions -> Tellings] /\ told'[n] = u /\ SameOffers
        /\ \A m \in Sessions : m # n => told'[m] = told[m]
        /\ \A m \in Sessions : ~told[m].offered => told'[m] = told[m]
    BY <1>1, <1>10, <2>1, <2>2, ToldOne
  <2> QED BY <2>3 DEF u
<1>14. Diagnosed'
  BY <1>0, <1>6, <1>9, <1>12, <1>13, MarkedKeeps
<1>15. PathTypes' /\ Numbered'
  BY <1>4, <1>8, <1>11, <1>13, DeviceTypes
<1>16. About(e, n)
  BY <1>3, <1>7 DEF About
<1>17. Tells(told[n], told'[n], e, n)
  <2>1. e.items # <<Signal("candidate", n)>>
    <3>1. "candidate" \in InboundTypes
      BY DEF InboundTypes
    <3> QED BY <1>3, <1>7, <3>1, SignalsDiffer
  <2> QED BY <1>7, <1>13, <2>1 DEF Tells
<1>18. Addressed' /\ Heard'
  BY <1>1, <1>4, <1>6, <1>13, <1>16, <1>17, SaidTo
<1> QED BY <1>8, <1>14, <1>15, <1>18 DEF PathInv

LEMMA SaysCandidatePath == ASSUME PathInv, NEW n \in Sessions, SendsCandidate(n) PROVE PathInv'
<1>0. LogTypes /\ PathTypes /\ Diagnosed
  BY DEF PathInv
<1>1. /\ told[n].offered /\ facts' = facts /\ told' = [told EXCEPT ![n].candidates = @ + 1]
      /\ \E wire \in SoacWays("candidate", n) : Hear(wire)
  BY DEF SendsCandidate
<1>3. "candidate" \in InboundTypes
  BY DEF InboundTypes
<1>4. Still /\ \E new : \E e \in new : Adds(new, e, TRUE, SoacPart("candidate", n), cursor)
  BY <1>1, <1>3, SoacWaysSend, HearAdds
<1>5. PICK new : \E e \in new : Adds(new, e, TRUE, SoacPart("candidate", n), cursor)
  BY <1>4
<1>6. PICK e \in new : Adds(new, e, TRUE, SoacPart("candidate", n), cursor)
  BY <1>5
<1>7. e.inbound = TRUE /\ e.event = "soac" /\ e.items = <<Signal("candidate", n)>>
  BY <1>6 DEF Adds, Carries, SoacPart
<1>8. LogTypes' /\ News(new)
  BY <1>6 DEF Adds
<1>9. Marks(e, {})
  BY <1>3, <1>7, SoacShows
<1>10. facts \in [Steps -> BOOLEAN] /\ told \in [Sessions -> Tellings]
  BY <1>0 DEF PathTypes
<1>11. facts' \in [Steps -> BOOLEAN]
  BY <1>1, <1>10
<1>12. FactsGain({}) /\ SameRecent
  BY <1>1 DEF FactsGain, SameRecent
<1>13. /\ told' \in [Sessions -> Tellings] /\ told'[n] = [told[n] EXCEPT !.candidates = @ + 1] /\ SameOffers
       /\ \A m \in Sessions : m # n => told'[m] = told[m]
       /\ \A m \in Sessions : ~told[m].offered => told'[m] = told[m]
  <2> DEFINE u == [told[n] EXCEPT !.candidates = @ + 1]
  <2>1. u \in Tellings /\ u.offered = told[n].offered
    BY <1>10 DEF Tellings
  <2>2. told' = [told EXCEPT ![n] = u]
    BY <1>1
  <2> HIDE DEF u
  <2>3. /\ told' \in [Sessions -> Tellings] /\ told'[n] = u /\ SameOffers
        /\ \A m \in Sessions : m # n => told'[m] = told[m]
        /\ \A m \in Sessions : ~told[m].offered => told'[m] = told[m]
    BY <1>1, <1>10, <2>1, <2>2, ToldOne
  <2> QED BY <2>3 DEF u
<1>14. Diagnosed'
  BY <1>0, <1>6, <1>9, <1>12, <1>13, MarkedKeeps
<1>15. PathTypes' /\ Numbered'
  BY <1>4, <1>8, <1>11, <1>13, DeviceTypes
<1>16. About(e, n)
  BY <1>3, <1>7 DEF About
<1>17. Tells(told[n], told'[n], e, n)
  <2>1. \A type \in {"answer", "restart_ice"} : e.items # <<Signal(type, n)>>
    <3>1. \A type \in {"answer", "restart_ice"} : type \in InboundTypes /\ type # "candidate"
      BY DEF InboundTypes
    <3> QED BY <1>3, <1>7, <3>1, SignalsDiffer
  <2> QED BY <1>7, <1>13, <2>1 DEF Tells
<1>18. Addressed' /\ Heard'
  BY <1>1, <1>4, <1>6, <1>13, <1>16, <1>17, SaidTo
<1> QED BY <1>8, <1>14, <1>15, <1>18 DEF PathInv

Terminal == {"leave", "left", "publisher_disconnect", "released"}

\* An event that is no SOAC event is noted with its item.
LEMMA UnderstoodIs ==
  ASSUME NEW event, event \notin InboundTypes, event # "soac", NEW item
  PROVE  Understood(event, item) = [event |-> event, items |-> <<item>>]
  BY DEF Understood

Noted(event, item) ==
  /\ Still
  /\ \E new : \E e \in new : /\ Adds(new, e, TRUE, [event |-> event, items |-> <<item>>], cursor)
                             /\ e.inbound = TRUE /\ e.event = event /\ e.items = <<item>>

\* An event that is no SOAC is recorded as it came.
LEMMA HearPlain ==
  ASSUME PathInv, NEW event, event \notin InboundTypes, event # "soac", NEW item,
         \E wire \in Ways(event, item) : Hear(wire)
  PROVE  Noted(event, item)
<1>0. PICK wire \in Ways(event, item) : Hear(wire)
  OBVIOUS
<1> DEFINE part == [event |-> event, items |-> <<item>>]
<1>1. Sends(InboundEvents(wire), Understood(event, item))
  BY WaysSend
<1>2. Understood(event, item) = part
  BY UnderstoodIs
<1>3. part.event = event /\ part.items = <<item>>
  OBVIOUS
<1> HIDE DEF part
<1>4. Sends(InboundEvents(wire), part) /\ Hear(wire)
  BY <1>0, <1>1, <1>2
<1>5. Still /\ \E new : \E e \in new : Adds(new, e, TRUE, part, cursor)
  BY <1>4, HearAdds
<1>6. PICK new : \E e \in new : Adds(new, e, TRUE, part, cursor)
  BY <1>5
<1>7. PICK e \in new : Adds(new, e, TRUE, part, cursor)
  BY <1>6
<1>8. e.inbound = TRUE /\ e.event = event /\ e.items = <<item>>
  BY <1>3, <1>7 DEF Adds, Carries
<1> QED BY <1>5, <1>7, <1>8 DEF part, Noted

LEMMA LeavesPath == ASSUME PathInv, NEW n \in Sessions, Leaves(n) PROVE PathInv'
<1>0. LogTypes /\ PathTypes /\ Diagnosed
  BY DEF PathInv
<1>1. /\ told[n].offered /\ told' = told
      /\ facts' = [facts EXCEPT !.left = TRUE, !.recent = \A m \in Sessions : told[m].offered => m >= n]
      /\ \E event \in Farewells : Hear(Says(event, [Item EXCEPT !.ice = n]))
                               \/ Hear(Pushes("object", event, [Item EXCEPT !.data = [Data EXCEPT !.ice = n]]))
  BY DEF Leaves
<1>2. PICK event \in Farewells : \E x \in NamedItems(n) : \E wire \in Ways(event, x) : Hear(wire)
  BY <1>1 DEF NamedItems, Ways
<1>3. PICK x \in NamedItems(n) : \E wire \in Ways(event, x) : Hear(wire)
  BY <1>2
<1>4. event \in Terminal
  BY FarewellsAssumption DEF Terminal
<1>5. event \notin InboundTypes /\ event # "soac" /\ event # "switch_network_notify"
  BY <1>4 DEF Terminal, InboundTypes
<1> DEFINE part == [event |-> event, items |-> <<x>>]
<1>6. Still /\ \E new : \E e \in new : /\ Adds(new, e, TRUE, part, cursor)
                                       /\ e.inbound = TRUE /\ e.event = event /\ e.items = <<x>>
  <2>1. Noted(event, x)
    BY <1>3, <1>5, HearPlain
  <2> QED BY <2>1 DEF Noted
<1> HIDE DEF part
<1>7. PICK new : \E e \in new : Adds(new, e, TRUE, part, cursor) /\ e.inbound = TRUE /\ e.event = event /\ e.items = <<x>>
  BY <1>6
<1>8. PICK e \in new : Adds(new, e, TRUE, part, cursor) /\ e.inbound = TRUE /\ e.event = event /\ e.items = <<x>>
  BY <1>7
<1>9. LogTypes' /\ News(new)
  BY <1>8 DEF Adds
<1>10. Marks(e, {"left"})
  BY <1>8, FarewellShows
<1>11. Ice(e.items) = n
  BY <1>8, NamedIs, SessionsAreNumbers
<1>12. facts \in [Steps -> BOOLEAN] /\ told \in [Sessions -> Tellings]
  BY <1>0 DEF PathTypes
<1>13. facts' \in [Steps -> BOOLEAN]
  BY <1>1, <1>12
<1>14. FactsGain({"left"}) /\ (facts'.recent <=> \A m \in Sessions : told[m].offered => m >= n)
  <2> DEFINE last == \A m \in Sessions : told[m].offered => m >= n
  <2>0. facts' = [facts EXCEPT !.left = TRUE, !.recent = last]
    BY <1>1
  <2> HIDE DEF last
  <2>1. \A step \in Steps : facts'[step] = IF step = "recent" THEN last ELSE IF step = "left" THEN TRUE ELSE facts[step]
    BY <1>12, <2>0
  <2>2. "recent" \in Steps /\ \A step \in ShownSteps : step \in Steps /\ step # "recent"
    BY DEF Steps, ShownSteps
  <2>3. facts'.recent <=> last
    BY <2>1, <2>2
  <2>4. ASSUME NEW step \in ShownSteps PROVE facts'[step] <=> facts[step] \/ step \in {"left"}
    BY <2>1, <2>2
  <2> QED BY <2>3, <2>4 DEF FactsGain, last
<1>15. SameOffers
  BY <1>1 DEF SameOffers
<1>16. Diagnosed'
  BY <1>0, <1>1, <1>8, <1>10, <1>11, <1>14, <1>15, SessionsAreNumbers, FarewellKeeps
<1>17. PathTypes' /\ Numbered'
  BY <1>1, <1>6, <1>9, <1>12, <1>13, <1>15, DeviceTypes
<1>18. ~Speaks(e)
  BY <1>5, <1>8 DEF Speaks
<1>19. Addressed' /\ Heard'
  BY <1>1, <1>6, <1>8, <1>18, SaidAside
<1> QED BY <1>9, <1>16, <1>17, <1>19 DEF PathInv

LEMMA IsControlledPath == ASSUME PathInv, NEW code \in {0, 7}, IsControlled(code) PROVE PathInv'
<1>0. LogTypes /\ PathTypes /\ Diagnosed
  BY DEF PathInv
<1>1. /\ told' = told /\ facts' = [facts EXCEPT !.denied = @ \/ code # 0]
      /\ \/ Hear(Says("be-controlled", [Item EXCEPT !.code = code]))
         \/ Hear(Pushes("text", "be-controlled", [Item EXCEPT !.data = [Data EXCEPT !.code = code]]))
  BY DEF IsControlled
<1> DEFINE event == "be-controlled"
<1>2. PICK x \in CodedItems(code) : \E wire \in Ways(event, x) : Hear(wire)
  BY <1>1 DEF CodedItems, Ways
<1>3. event \notin InboundTypes /\ event # "soac" /\ event # "switch_network_notify"
  BY DEF InboundTypes
<1>4. event = "be-controlled"
  OBVIOUS
<1> HIDE DEF event
<1> DEFINE part == [event |-> event, items |-> <<x>>]
<1>6. Still /\ \E new : \E e \in new : /\ Adds(new, e, TRUE, part, cursor)
                                       /\ e.inbound = TRUE /\ e.event = event /\ e.items = <<x>>
  <2>1. Noted(event, x)
    BY <1>2, <1>3, HearPlain
  <2> QED BY <2>1 DEF Noted
<1> HIDE DEF part
<1>7. PICK new : \E e \in new : Adds(new, e, TRUE, part, cursor) /\ e.inbound = TRUE /\ e.event = event /\ e.items = <<x>>
  BY <1>6
<1>8. PICK e \in new : Adds(new, e, TRUE, part, cursor) /\ e.inbound = TRUE /\ e.event = event /\ e.items = <<x>>
  BY <1>7
<1>9. LogTypes' /\ News(new)
  BY <1>8 DEF Adds
<1> DEFINE M == IF code = 0 THEN {} ELSE {"denied"}
<1>10. Marks(e, M)
  BY <1>4, <1>8, ControlledShows
<1>12. facts \in [Steps -> BOOLEAN] /\ told \in [Sessions -> Tellings]
  BY <1>0 DEF PathTypes
<1>13. facts' \in [Steps -> BOOLEAN]
  BY <1>1, <1>12, Zenon
<1>14. FactsGain(M) /\ SameRecent
  <2>1. \A step \in Steps : facts'[step] = IF step = "denied" THEN facts[step] \/ code # 0 ELSE facts[step]
    BY <1>1, <1>12 DEF Steps
  <2>2. "recent" \in Steps /\ \A step \in ShownSteps : step \in Steps
    BY DEF Steps, ShownSteps
  <2>3. SameRecent
    BY <2>1, <2>2 DEF SameRecent
  <2>4. ASSUME NEW step \in ShownSteps PROVE facts'[step] <=> facts[step] \/ step \in M
    <3>1. CASE step = "denied"
      <4>1. step \in M <=> code # 0
        BY <3>1
      <4>2. facts'[step] = (facts[step] \/ code # 0)
        BY <2>1, <2>2, <3>1, Zenon
      <4> QED BY <4>1, <4>2, Zenon
    <3>2. CASE step # "denied"
      <4>1. step \notin M /\ facts'[step] = facts[step]
        BY <2>1, <2>2, <3>2
      <4> QED BY <4>1, Zenon
    <3> QED BY <3>1, <3>2
  <2> QED BY <2>3, <2>4 DEF FactsGain
<1>15. SameOffers /\ "offered" \notin M /\ "left" \notin M
  BY <1>1 DEF SameOffers
<1> HIDE DEF M
<1>16. Diagnosed'
  BY <1>0, <1>8, <1>10, <1>14, <1>15, MarkedKeeps
<1>17. PathTypes' /\ Numbered'
  BY <1>1, <1>6, <1>9, <1>12, <1>13, <1>15, DeviceTypes
<1>18. ~Speaks(e)
  BY <1>3, <1>8 DEF Speaks
<1>19. Addressed' /\ Heard'
  BY <1>1, <1>6, <1>8, <1>18, SaidAside
<1> QED BY <1>9, <1>16, <1>17, <1>19 DEF PathInv

LEMMA SwitchesPath == ASSUME PathInv, NEW n \in Sessions, SwitchesNetwork(n) PROVE PathInv'
<1>0. LogTypes /\ PathTypes /\ Diagnosed
  BY DEF PathInv
<1> DEFINE event == "switch_network_notify"
           x == Notice(n)
<1>1. told[n].offered /\ told' = told /\ facts' = facts /\ Hear(Says(event, x))
  BY DEF SwitchesNetwork, Notice
<1>2. Says(event, x) \in Ways(event, x)
  BY DEF Ways
<1>3. event \notin InboundTypes /\ event # "soac" /\ event = "switch_network_notify"
  BY DEF InboundTypes
<1> HIDE DEF event, x
<1> DEFINE part == [event |-> event, items |-> <<x>>]
<1>6. Still /\ \E new : \E e \in new : /\ Adds(new, e, TRUE, part, cursor)
                                       /\ e.inbound = TRUE /\ e.event = event /\ e.items = <<x>>
  <2>1. Noted(event, x)
    BY <1>1, <1>2, <1>3, HearPlain
  <2> QED BY <2>1 DEF Noted
<1> HIDE DEF part
<1>7. PICK new : \E e \in new : Adds(new, e, TRUE, part, cursor) /\ e.inbound = TRUE /\ e.event = event /\ e.items = <<x>>
  BY <1>6
<1>8. PICK e \in new : Adds(new, e, TRUE, part, cursor) /\ e.inbound = TRUE /\ e.event = event /\ e.items = <<x>>
  BY <1>7
<1>9. LogTypes' /\ News(new)
  BY <1>8 DEF Adds
<1>10. Marks(e, {})
  BY <1>3, <1>8, NothingShown
<1>12. facts \in [Steps -> BOOLEAN] /\ told \in [Sessions -> Tellings]
  BY <1>0 DEF PathTypes
<1>14. FactsGain({}) /\ SameRecent /\ SameOffers
  BY <1>1 DEF FactsGain, SameRecent, SameOffers
<1>16. Diagnosed'
  BY <1>0, <1>8, <1>10, <1>14, MarkedKeeps
<1>17. PathTypes' /\ Numbered'
  BY <1>1, <1>6, <1>9, <1>12, <1>14, DeviceTypes
<1>18. About(e, n)
  BY <1>3, <1>8 DEF About, x
<1>19. Tells(told[n], told'[n], e, n)
  BY <1>1, <1>3, <1>8 DEF Tells
<1>20. Addressed' /\ Heard'
  BY <1>1, <1>6, <1>8, <1>14, <1>18, <1>19, SaidTo
<1> QED BY <1>9, <1>16, <1>17, <1>20 DEF PathInv

Restarts == {Soac("restart_ice", m) : m \in Sessions}
Silent(new) == \A f \in new : f.inbound = FALSE /\ \A step \in ShownSteps : ~Shows(step, f)
\* The log has gained at most offers of an ICE restart.
Offered(new) ==
  LogTypes' /\ Gains(new) /\ News(new) /\ Silent(new) /\ (~missed' => ~missed)

\* Offers of a restart show no step.
LEMMA RestartsAreSilent ==
  ASSUME LogTypes, NEW offers \in Seq(Restarts)
  PROVE  Silent(ToSet(NewEvents(FALSE, offers)))
<1> DEFINE new == NewEvents(FALSE, offers)
<1>1. new \in Seq(ToSet(new)) /\ Len(new) = Len(offers)
  BY LongerIs
<1>2. ASSUME NEW i \in DOMAIN offers PROVE Carries(new[i], FALSE, offers[i])
  BY CarriesAt
<1> HIDE DEF new
<1>3. ToSet(new) = {new[i] : i \in DOMAIN offers}
  BY <1>1 DEF ToSet
<1>4. ASSUME NEW i \in DOMAIN offers PROVE new[i].inbound = FALSE /\ \A step \in ShownSteps : ~Shows(step, new[i])
  <2>1. PICK m \in Sessions : offers[i] = Soac("restart_ice", m)
    BY DEF Restarts
  <2>2. new[i].inbound = FALSE /\ new[i].event = "soac" /\ new[i].items = Soac("restart_ice", m).items
    BY <1>2, <2>1, SoacIs DEF Carries
  <2>3. "restart_ice" \in SoacTypes /\ "restart_ice" # "offer"
    BY DEF SoacTypes, InboundTypes
  <2>4. \A type \in SoacTypes : new[i].items = Soac(type, m).items =>
          Marks(new[i], IF type = "offer" THEN {"offered"} ELSE {})
    BY <2>2, SentShows
  <2>5. Marks(new[i], {})
    BY <2>2, <2>3, <2>4
  <2> QED BY <2>2, <2>5 DEF Marks
<1> QED BY <1>3, <1>4 DEF Silent, new

\* Offers of a restart are added to the log.
LEMMA RestartsAreOffered ==
  ASSUME LogTypes, NEW offers \in Seq(Restarts), NEW seen \in Nat, NEW out, out = FALSE, Record(out, offers, seen)
  PROVE  \E new : Offered(new)
<1> DEFINE new == ToSet(NewEvents(out, offers))
<1>1. LogTypes' /\ Gains(new) /\ nextId' = nextId + Len(offers)
  BY RecordGains
<1>2. News(new)
  BY <1>1, NewsAre
<1>3. ~missed' => ~missed
  BY Dropped
<1>4. Silent(new)
  BY RestartsAreSilent
<1> HIDE DEF new
<1> QED BY <1>1, <1>2, <1>3, <1>4 DEF Offered

\* What the browser session makes of what it reads.
Reading == IF HasPeer THEN Applied(browser, cursor, log) ELSE Fresh(browser)

\* What a read does.
LEMMA ReadIs ==
  ASSUME Read
  PROVE  /\ browser' = Reading.browser /\ cursor' = nextId - 1
         /\ IF gateway = "connected" THEN Record(FALSE, Reading.offers, nextId - 1) ELSE UNCHANGED <<logVars, missed>>
         /\ gateway' = gateway /\ told' = told /\ facts' = facts /\ left' = left
  BY DEF Read, Reading, Fresh

\* A read offers only restarts, and leaves a session that has no peer alone.
LEMMA ReadingIs ==
  ASSUME PathInv
  PROVE  /\ Reading.offers \in Seq(Restarts)
         /\ browser # None => Grown(browser.n, browser, Reading)
         /\ ~Offering => Reading.browser = browser
<1>0. LogTypes /\ PathTypes /\ Numbered /\ Addressed
  BY DEF PathInv
<1>1. CASE ~HasPeer
  <2>1. Reading = Fresh(browser)
    BY <1>1 DEF Reading
  <2>2. Reading.browser = browser /\ Reading.offers = <<>>
    BY <2>1 DEF Fresh
  <2>3. Reading.offers \in Seq(Restarts)
    BY <2>2, NoEvents
  <2>4. browser # None => Fresh(browser) \in Applying(browser.n) /\ Fresh(browser).browser = browser
    <3> SUFFICES ASSUME browser # None PROVE Fresh(browser) \in Applying(browser.n) /\ Fresh(browser).browser = browser
      OBVIOUS
    <3>1. browser \in {b \in Browsers : b.n = browser.n}
      BY <1>0 DEF PathTypes
    <3>2. <<>> \in Seq({Soac("restart_ice", browser.n)})
      BY NoEvents
    <3> QED BY <3>1, <3>2 DEF Fresh, Applying
  <2> QED BY <2>1, <2>2, <2>3, <2>4 DEF Grown
<1>2. CASE HasPeer
  <2> DEFINE n == browser.n
             s == Applied(browser, cursor, log)
  <2>1. browser # None /\ Reading = s
    BY <1>2 DEF HasPeer, Reading
  <2>2. browser \in Browsers /\ n \in Sessions /\ log \in Seq(Entries) /\ Grown(n, browser, s)
    BY <1>0, <2>1, Soon
  <2>3. s.offers \in Seq({Soac("restart_ice", n)})
    BY <2>2 DEF Grown, Applying
  <2>4. {Soac("restart_ice", n)} \subseteq Restarts
    BY <2>2 DEF Restarts
  <2>5. ~Offering => s.browser = browser
    <3> SUFFICES ASSUME ~Offering PROVE s.browser = browser
      OBVIOUS
    <3>1. browser.stage = "controlled"
      BY <1>2 DEF Offering
    <3>2. ~told[n].offered
      BY <1>0, <2>1, <3>1 DEF Numbered
    <3>3. \A f \in Entries : Inert(f, n)
      BY <1>0, <3>2, Zenon DEF Addressed, Inert
    <3>4. \A i \in DOMAIN log : Passes(log[i], cursor, n)
      BY <2>2, <3>3 DEF Entries, ToSet, Passes
    <3> HIDE DEF n
    <3>5. n = browser.n
      BY DEF n
    <3>6. s = Fresh(browser)
      BY <2>2, <3>4, <3>5, AppliedInert
    <3> QED BY <3>6 DEF Fresh
  <2> HIDE DEF n, s
  <2>7. s.offers \in Seq(Restarts)
    BY <2>3, <2>4
  <2> QED BY <2>1, <2>2, <2>5, <2>7 DEF n
<1> QED BY <1>1, <1>2

\* What a read adds to the log are offers of a restart.
LEMMA ReadOffers ==
  ASSUME PathInv, Read
  PROVE  \E new : Offered(new)
<1>1. LogTypes /\ nextId \in Nat /\ nextId - 1 \in Nat
  <2>1. LogTypes /\ Len(log) \in Nat
    BY DEF PathInv, LogTypes
  <2> QED BY <2>1 DEF LogTypes
<1>2. CASE gateway = "connected"
  <2> DEFINE seen == nextId - 1
             offers == Reading.offers
  <2>1. seen \in Nat /\ offers \in Seq(Restarts) /\ Record(FALSE, offers, seen)
    BY <1>1, <1>2, ReadIs, ReadingIs
  <2> HIDE DEF seen, offers
  <2>2. \A out : out = FALSE /\ Record(out, offers, seen) => \E new : Offered(new)
    BY <1>1, <2>1, RestartsAreOffered
  <2> QED BY <2>1, <2>2
<1>3. CASE gateway # "connected"
  <2>1. log' = log /\ nextId' = nextId /\ evicted' = evicted /\ missed' = missed
    BY <1>3, ReadIs DEF logVars
  <2>2. LogTypes'
    BY <1>1, <2>1 DEF LogTypes, Entries
  <2>3. Gains({}) /\ News({}) /\ Silent({})
    BY <1>1, <2>1 DEF Gains, News, Silent, Entries
  <2> QED BY <2>1, <2>2, <2>3 DEF Offered
<1> QED BY <1>2, <1>3

LEMMA ReadPath == ASSUME PathInv, Read PROVE PathInv'
<1>0. LogTypes /\ PathTypes /\ Numbered /\ Diagnosed /\ Addressed /\ Heard
  BY DEF PathInv
<1>1. PICK new : Offered(new)
  BY ReadOffers
<1>2. LogTypes' /\ Gains(new) /\ News(new) /\ Silent(new) /\ (~missed' => ~missed)
  BY <1>1 DEF Offered
<1>3. /\ browser' = Reading.browser /\ cursor' = nextId - 1
      /\ gateway' = gateway /\ told' = told /\ facts' = facts /\ left' = left
  BY ReadIs
<1>4. Diagnosed'
  BY <1>0, <1>2, <1>3, SilentKeeps DEF SameOffers, Silent
<1>5. Addressed'
  <2> SUFFICES ASSUME NEW f \in Entries', Speaks(f) PROVE \E m \in Sessions : told'[m].offered /\ About(f, m)
    BY DEF Addressed
  <2>1. f \in Entries
    BY <1>2 DEF Gains, Silent, Speaks
  <2> QED BY <1>0, <1>3, <2>1, Zenon DEF Addressed
<1>6. nextId \in Nat /\ nextId - 1 \in Nat
  <2>1. Len(log) \in Nat /\ nextId \in Nat /\ Len(log) < nextId
    BY <1>0 DEF LogTypes
  <2> QED BY <2>1
<1>7. browser # None => /\ browser \in Browsers /\ browser' \in Browsers /\ browser'.n = browser.n
                        /\ browser.stage \in Late => browser'.stage \in Late
  <2> SUFFICES ASSUME browser # None
               PROVE  /\ browser \in Browsers /\ browser' \in Browsers /\ browser'.n = browser.n
                      /\ browser.stage \in Late => browser'.stage \in Late
    OBVIOUS
  <2>1. Grown(browser.n, browser, Reading)
    BY ReadingIs
  <2>2. Reading.browser \in {b \in Browsers : b.n = browser.n}
    BY <2>1 DEF Grown, Applying
  <2>3. browser.stage \in Late => Reading.browser.stage \in Late
    BY <2>1 DEF Grown
  <2> QED BY <1>0, <1>3, <2>2, <2>3 DEF PathTypes
<1>8. ~Offering => browser' = browser
  BY <1>3, ReadingIs
<1>9. browser = None => browser' = None
  BY <1>8 DEF Offering, HasPeer
<1>10. Offering => browser # None /\ browser.stage \in Late
  BY <1>7 DEF Offering, HasPeer, Browsers, Stages, Late
<1>11. PathTypes'
  BY <1>0, <1>3, <1>6, <1>7, <1>9 DEF PathTypes
<1>12. Numbered'
  <2>1. cursor' < nextId'
    BY <1>2, <1>3, <1>6 DEF News
  <2>2. browser' # None => browser'.n = left'.sessions + 1
    BY <1>0, <1>3, <1>7, <1>9 DEF Numbered
  <2>3. browser' # None /\ browser'.stage \in {"controlling", "controlled"} =>
          ~told'[browser'.n].offered /\ browser'.candidates = 0
    <3>1. CASE Offering
      BY <1>7, <1>10, <3>1 DEF Late
    <3>2. CASE ~Offering
      BY <1>0, <1>3, <1>8, <3>2 DEF Numbered
    <3> QED BY <3>1, <3>2
  <2>4. /\ \A m \in Sessions : told'[m].offered => m > left'.sessions
        /\ \A m \in Sessions : ~told'[m].offered => ~told'[m].answered /\ told'[m].candidates = 0
    BY <1>0, <1>3 DEF Numbered
  <2> QED BY <2>1, <2>2, <2>3, <2>4 DEF Numbered
<1>13. Heard'
  <2> SUFFICES ASSUME Offering', ~missed' PROVE Progress(told'[browser'.n], Applied(browser', cursor', log').browser)
    BY DEF Heard
  <2>1. Offering /\ ~missed /\ browser # None
    <3>1. Offering
      BY <1>8 DEF Offering, HasPeer
    <3> QED BY <1>2, <1>10, <3>1
  <2>2. Progress(told[browser.n], Reading.browser)
    BY <1>0, <2>1 DEF Heard, Offering, Reading
  <2> DEFINE c == browser'
             n == browser.n
             at == cursor'
             S == Entries'
             events == log'
  <2>3. c \in Browsers /\ c.n = n /\ n \in Sessions
    BY <1>7, <2>1 DEF Browsers
  <2>4. events \in Seq(S) /\ \A i \in DOMAIN events : events[i] \in S
    BY <1>2 DEF LogTypes, Entries
  <2>5. \A f \in S : Passes(f, at, n)
    <3> SUFFICES ASSUME NEW f \in Entries' PROVE f.id <= cursor' \/ ~Speaks(f)
      BY DEF Passes, Inert
    <3>1. CASE f \in new
      BY <1>2, <3>1 DEF Silent, Speaks
    <3>2. CASE f \in Entries
      <4>1. f.id \in Nat /\ f.id < nextId
        BY <1>0, <3>2, LogIds
      <4> QED BY <1>3, <1>6, <4>1
    <3> QED BY <1>2, <3>1, <3>2 DEF Gains
  <2> HIDE DEF c, n, at, S, events
  <2>6. Applied(c, at, events) = Fresh(c)
    BY <2>3, <2>4, <2>5, AppliedInert
  <2>7. Applied(browser', cursor', log').browser = browser'
    BY <2>6 DEF Fresh, c, at, events
  <2> QED BY <1>3, <1>7, <2>1, <2>2, <2>7
<1> QED BY <1>2, <1>4, <1>5, <1>11, <1>12, <1>13 DEF PathInv

-----------------------------------------------------------------------------
(* The invariant, and what follows from it. *)

\* Every step keeps the invariant.
LEMMA PathStep == PathInv /\ [Next]_vars => PathInv'
<1> SUFFICES ASSUME PathInv, [Next]_vars PROVE PathInv'
  OBVIOUS
<1>0. PathTypes
  BY DEF PathInv
<1>1. CASE UNCHANGED vars
  BY <1>0, <1>1, StaticKeeps DEF vars, logVars, readVars, SameSessions, PathTypes
<1>2. ASSUME NEW body \in Bodies, Join(body) PROVE PathInv'
  <2>1. Spend("joins") /\ UNCHANGED <<logVars, readVars, told, facts>> /\ gateway' = gateway
    BY <1>2 DEF Join
  <2> QED BY <1>0, <2>1, SpentElsewhere, StaticKeeps
<1>3. CASE Forget
  BY <1>0, <1>3, StaticKeeps DEF Forget, SameSessions, PathTypes
<1>4. CASE GatewayCloses
  <2>1. Spend("changes") /\ UNCHANGED <<logVars, readVars, told, facts>> /\ gateway' = "closed"
    BY <1>4 DEF GatewayCloses
  <2> QED BY <1>0, <2>1, SpentElsewhere, StaticKeeps
<1>5. CASE UserChanges
  <2>1. Spend("changes") /\ UNCHANGED <<logVars, readVars, told, facts>> /\ gateway' = gateway
    BY <1>5 DEF UserChanges
  <2> QED BY <1>0, <2>1, SpentElsewhere, StaticKeeps
<1>6. CASE Tick
  <2>1. Spend("changes") /\ UNCHANGED <<logVars, readVars, told, facts>> /\ gateway' = gateway
    BY <1>6 DEF Tick
  <2> QED BY <1>0, <2>1, SpentElsewhere, StaticKeeps
<1> QED
  BY <1>1, <1>2, <1>3, <1>4, <1>5, <1>6, StartPath, PrunePath, ReloadPath, IdlePath, ControlPath, AckedPath, OfferPath,
     CandidatePath, ClosesPath, ReadPath, AnswersPath, SaysCandidatePath, LeavesPath, SwitchesPath, IsControlledPath
  DEF Next

\* The inductive invariant of the messages' way: the log has consecutive ids, what it shows is
\* what happened, and what the browser session will have heard is what it was told.
THEOREM PathIsKept == Spec => []PathInv
<1>1. Init => PathInv
  BY InitPath
<1> QED BY <1>1, PathStep, PTL DEF Spec

\* When everything is read, the browser session is what it has been told.
LEMMA ReadIsHeard == PathInv => AnswersAreHeard
<1> SUFFICES ASSUME PathInv, HasPeer, browser.stage # "controlled", Unread = {}, ~missed
             PROVE  /\ (browser.stage = "connected") = told[browser.n].answered
                    /\ browser.candidates = told[browser.n].candidates
  BY DEF AnswersAreHeard
<1>0. LogTypes /\ PathTypes /\ Heard
  BY DEF PathInv
<1>1. browser # None /\ Offering
  BY DEF Offering, HasPeer
<1>2. \A e \in Entries : e.id <= cursor
  <2>1. \A e \in Entries : ~(e.id > cursor)
    BY DEF Unread, Entries
  <2>2. cursor \in Nat /\ \A e \in Entries : e.id \in Nat
    BY <1>0, LogIds DEF PathTypes
  <2> QED BY <2>1, <2>2
<1>3. Applied(browser, cursor, log) = Fresh(browser)
  BY <1>0, <1>1, <1>2, NothingUnread
<1>4. Progress(told[browser.n], browser)
  BY <1>0, <1>1, <1>3 DEF Heard, Fresh
<1>5. told[browser.n].answered \in BOOLEAN
  BY <1>0, <1>1 DEF PathTypes, Browsers, Tellings
<1>6. browser.stage = (IF told[browser.n].answered THEN "connected" ELSE "offered")
      /\ browser.candidates = told[browser.n].candidates
  BY <1>4, Zenon DEF Progress
<1> QED BY <1>5, <1>6

\* SignalPath: whatever form the device chooses, what it says to the browser session arrives there,
\* once, and nothing it says to another session does.
THEOREM EverythingIsHeard == Spec => []AnswersAreHeard
  BY PathIsKept, ReadIsHeard, PTL

\* The newest of the entries that show a step, found by their places.
LEMMA NewestEntry ==
  ASSUME LogTypes, NEW step, NEW b \in Nat, NEW I \in SUBSET DOMAIN log, I # {},
         \A j \in DOMAIN log : j \in I <=> Shows(step, log[j]) /\ log[j].id < b
  PROVE  Newest(I) \in I /\ IsNewest(step, log[Newest(I)], b)
<1>0. /\ nextId \in Nat /\ Len(log) \in Nat /\ DOMAIN log = 1..Len(log) /\ Entries = {log[j] : j \in DOMAIN log}
      /\ \A j \in DOMAIN log : log[j].id = nextId - 1 - Len(log) + j
  BY DEF LogTypes, Entries, ToSet
<1>1. \E k \in I : \A j \in I : j <= k
  <2>1. I \in SUBSET Nat /\ \A k \in I : k <= Len(log)
    BY <1>0
  <2> QED BY <1>0, <2>1, Largest
<1> DEFINE i == Newest(I)
<1>2. i \in I /\ \A j \in I : j <= i
  BY <1>1 DEF Newest
<1> HIDE DEF i
<1>3. log[i] \in Entries /\ Shows(step, log[i]) /\ log[i].id < b
  BY <1>0, <1>2
<1>4. ASSUME NEW f \in Entries, Shows(step, f), f.id < b PROVE f.id <= log[i].id
  <2>1. PICK j \in DOMAIN log : f = log[j]
    BY <1>0
  <2>2. j \in I
    BY <1>4, <2>1
  <2>3. j <= i /\ log[j].id = nextId - 1 - Len(log) + j /\ log[i].id = nextId - 1 - Len(log) + i
    BY <1>0, <1>2, <2>2
  <2>4. i \in Int /\ j \in Int
    BY <1>0, <1>2, <2>2
  <2> QED BY <1>0, <2>1, <2>3, <2>4
<1>5. IsNewest(step, log[i], b)
  BY <1>3, <1>4 DEF IsNewest
<1> QED BY <1>2, <1>5 DEF i

\* What the diagnostics check is what the entries show.
LEMMA ChecksAre ==
  /\ Checks.acked    <=> \E e \in Entries : Shows("acked", e)
  /\ Checks.refused  <=> \E e \in Entries : Shows("refused", e)
  /\ Checks.offered  <=> \E e \in Entries : Shows("offered", e)
  /\ Checks.denied   <=> \E e \in Entries : Shows("denied", e)
  /\ Checks.answered <=> \E e \in Entries : Shows("answered", e)
  /\ Checks.left     <=> \E e \in Entries : Shows("left", e)
<1>1. \A step : (\E e \in Entries : Shows(step, e)) <=> \E j \in DOMAIN log : Shows(step, log[j])
  BY DEF Entries, ToSet
<1>2. Checks.acked <=> \E e \in Entries : Shows("acked", e)
  <2>1. Checks.acked <=> \E j \in In("control:ack") : ~AckFails(log[j].items)
    BY DEF Checks
  <2>2. \A j \in DOMAIN log : Shows("acked", log[j]) <=> log[j].inbound /\ log[j].event = "control:ack" /\ ~AckFails(log[j].items)
    BY ShowsIs
  <2>3. Checks.acked <=> \E j \in DOMAIN log : Shows("acked", log[j])
    BY <2>1, <2>2 DEF In
  <2> QED BY <1>1, <2>3, Zenon
<1>3. Checks.refused <=> \E e \in Entries : Shows("refused", e)
  <2>1. Checks.refused <=> \E j \in In("control:ack") : AckFails(log[j].items)
    BY DEF Checks
  <2>2. \A j \in DOMAIN log : Shows("refused", log[j]) <=> log[j].inbound /\ log[j].event = "control:ack" /\ AckFails(log[j].items)
    BY ShowsIs
  <2>3. Checks.refused <=> \E j \in DOMAIN log : Shows("refused", log[j])
    BY <2>1, <2>2 DEF In
  <2> QED BY <1>1, <2>3, Zenon
<1>4. Checks.offered <=> \E e \in Entries : Shows("offered", e)
  <2>1. Checks.offered <=> Sent("offer") # {}
    BY DEF Checks
  <2>2. \A j \in DOMAIN log : Shows("offered", log[j]) <=> ~log[j].inbound /\ log[j].event = "soac" /\ "offer" \in TypesOf(log[j].items)
    BY ShowsIs
  <2>3. Checks.offered <=> \E j \in DOMAIN log : Shows("offered", log[j])
    BY <2>1, <2>2 DEF Sent
  <2> QED BY <1>1, <2>3, Zenon
<1>5. Checks.denied <=> \E e \in Entries : Shows("denied", e)
  <2>1. Checks.denied <=> \E j \in In("be-controlled") : Code(log[j].items) \notin {None, 0}
    BY DEF Checks
  <2>2. \A j \in DOMAIN log : Shows("denied", log[j]) <=> log[j].inbound /\ log[j].event = "be-controlled" /\ Code(log[j].items) \notin {None, 0}
    BY ShowsIs
  <2>3. Checks.denied <=> \E j \in DOMAIN log : Shows("denied", log[j])
    BY <2>1, <2>2 DEF In
  <2> QED BY <1>1, <2>3, Zenon
<1>6. Checks.answered <=> \E e \in Entries : Shows("answered", e)
  <2>1. Checks.answered <=> \E j \in In("soac") : TypesOf(log[j].items) \cap {"answer", "restart_ice"} # {}
    BY DEF Checks
  <2>2. \A j \in DOMAIN log : Shows("answered", log[j]) <=> /\ log[j].inbound /\ log[j].event = "soac"
                                        /\ TypesOf(log[j].items) \cap {"answer", "restart_ice"} # {}
    BY ShowsIs
  <2>3. Checks.answered <=> \E j \in DOMAIN log : Shows("answered", log[j])
    BY <2>1, <2>2 DEF In
  <2> QED BY <1>1, <2>3, Zenon
<1>7. Checks.left <=> \E e \in Entries : Shows("left", e)
  <2>1. Checks.left <=> Terminals # {}
    BY DEF Checks
  <2>2. \A j \in DOMAIN log : Shows("left", log[j]) <=> log[j].inbound /\ log[j].event \in {"leave", "left", "publisher_disconnect", "released"}
    BY ShowsIs
  <2>3. Checks.left <=> \E j \in DOMAIN log : Shows("left", log[j])
    BY <2>1, <2>2 DEF Terminals, In
  <2> QED BY <1>1, <2>3, Zenon
<1> QED BY <1>2, <1>3, <1>4, <1>5, <1>6, <1>7

\* Stage and blocker of a connected gateway, from what the diagnostics find.
LEMMA ReadinessIs ==
  ASSUME Checks.connected
  PROVE  /\ ~Checks.acked => /\ Readiness.stage = "gateway_connected"
                             /\ Readiness.blocker = IF Checks.refused THEN "control_ack_failed" ELSE "control_ack_missing"
         /\ Checks.acked /\ ~Checks.offered =>
              Readiness.stage = "control_acknowledged" /\ Readiness.blocker = "offer_missing"
         /\ Checks.acked /\ Checks.offered /\ ~Checks.answered =>
              /\ Readiness.stage = "offer_sent"
              /\ Readiness.blocker = IF Checks.denied THEN "be_controlled_failed"
                                     ELSE IF Checks.left THEN "controlled_left_before_answer" ELSE "answer_missing"
         /\ Checks.acked /\ Checks.offered /\ Checks.answered =>
              Readiness.stage = "answer_received" /\ Readiness.blocker = None
<1>1. CASE ~Checks.acked
  BY <1>1 DEF Readiness
<1>2. CASE Checks.acked /\ ~Checks.offered
  BY <1>2 DEF Readiness
<1>3. CASE Checks.acked /\ Checks.offered /\ ~Checks.answered
  BY <1>3 DEF Readiness
<1>4. CASE Checks.acked /\ Checks.offered /\ Checks.answered
  BY <1>4 DEF Readiness
<1> QED BY <1>1, <1>2, <1>3, <1>4, Zenon

\* Without a connection and a log there is nothing to diagnose but that.
LEMMA NotConnected ==
  ASSUME ~Checks.connected
  PROVE  /\ Readiness.stage = "idle" /\ Readiness.blocker = "gateway_not_connected" /\ Entries = {}
<1>1. log = <<>>
  BY DEF Checks
<1>2. Entries = {}
  BY <1>1 DEF Entries, ToSet
<1>3. ~Checks.acked
  BY <1>2, ChecksAre
<1>4. Readiness.stage = "idle" /\ Readiness.blocker = "gateway_not_connected"
  BY <1>3 DEF Readiness
<1> QED BY <1>2, <1>4

\* What a farewell says of the last offer is true.
Matched == IF TerminalSignal = None THEN None ELSE TerminalSignal.matches

\* What a farewell is said to mean for the last offer is what happened.
LEMMA MatchesAreTrue ==
  ASSUME PathInv, Matched # None
  PROVE  Matched = facts.recent
<1>0. LogTypes /\ PathTypes /\ RecentTold /\ nextId \in Nat
  BY DEF PathInv, Diagnosed, LogTypes
<1> DEFINE i == Newest(Terminals)
           offers == {j \in Sent("offer") : j < i}
           ice == Ice(log[i].items)
<1>1. /\ Terminals # {} /\ ice # None /\ offers # {}
      /\ Matched = (ice = Ice(log[Newest(offers)].items))
  <2>1. Terminals # {}
    BY DEF Matched, TerminalSignal
  <2>2. TerminalSignal = [event |-> log[i].event,
                          matches |-> IF ice = None \/ offers = {} THEN None
                                      ELSE ice = Ice(log[Newest(offers)].items)]
    BY <2>1 DEF TerminalSignal
  <2> HIDE DEF i, offers, ice
  <2>3. Matched = IF ice = None \/ offers = {} THEN None ELSE ice = Ice(log[Newest(offers)].items)
    BY <2>2 DEF Matched
  <2> QED BY <2>1, <2>3
<1>2. DOMAIN log = 1..Len(log) /\ Len(log) \in Nat /\ \A j \in DOMAIN log : log[j].id = nextId - 1 - Len(log) + j
  BY <1>0 DEF LogTypes
<1>3. \A j \in DOMAIN log : log[j] \in Entries /\ log[j].id \in Nat /\ log[j].id < nextId
  BY <1>0, LogIds DEF Entries, ToSet
<1>4. Terminals \in SUBSET DOMAIN log /\ \A j \in DOMAIN log : j \in Terminals <=> Shows("left", log[j]) /\ log[j].id < nextId
  <2>1. \A j \in DOMAIN log : Shows("left", log[j]) <=>
          log[j].inbound /\ log[j].event \in {"leave", "left", "publisher_disconnect", "released"}
    BY ShowsIs
  <2> QED BY <1>3, <2>1 DEF Terminals, In
<1>5. i \in Terminals /\ IsNewest("left", log[i], nextId)
  BY <1>0, <1>1, <1>4, NewestEntry
<1>6. i \in DOMAIN log
  BY <1>4, <1>5
<1>7. offers \in SUBSET DOMAIN log
      /\ \A j \in DOMAIN log : j \in offers <=> Shows("offered", log[j]) /\ log[j].id < log[i].id
  <2> HIDE DEF i
  <2>1. \A j \in DOMAIN log : Shows("offered", log[j]) <=> j \in Sent("offer")
    BY ShowsIs DEF Sent
  <2>2. \A j \in DOMAIN log : j < i <=> log[j].id < log[i].id
    BY <1>0, <1>2, <1>6
  <2>3. Sent("offer") \subseteq DOMAIN log
    BY DEF Sent
  <2> QED BY <2>1, <2>2, <2>3
<1> DEFINE k == Newest(offers)
<1>8. log[i].id \in Nat
  BY <1>3, <1>6
<1> HIDE DEF i, offers, ice
<1>9. k \in offers /\ IsNewest("offered", log[k], log[i].id)
  BY <1>0, <1>1, <1>7, <1>8, NewestEntry
<1> HIDE DEF k
<1>10. facts.recent <=> Ice(log[i].items) = Ice(log[k].items)
  BY <1>0, <1>3, <1>5, <1>6, <1>7, <1>9 DEF RecentTold
<1>11. facts.recent \in BOOLEAN
  BY <1>0 DEF PathTypes, Steps
<1> QED BY <1>1, <1>10, <1>11 DEF k, ice

\* The invariant implies the property.
LEMMA DiagnosticsAre == PathInv => DiagnosticsTrue
<1> SUFFICES ASSUME PathInv PROVE DiagnosticsTrue
  OBVIOUS
<1>0. Known
  BY DEF PathInv, Diagnosed
<1>k. \A step \in ShownSteps : /\ (\E e \in Entries : Shows(step, e)) => facts[step]
                          /\ ~evicted /\ facts[step] => \E e \in Entries : Shows(step, e)
  BY <1>0, Zenon DEF Known
<1>s. /\ "acked" \in ShownSteps /\ "refused" \in ShownSteps /\ "offered" \in ShownSteps /\ "denied" \in ShownSteps
      /\ "answered" \in ShownSteps /\ "left" \in ShownSteps
  BY ShownIs
<1>1. /\ Checks.acked => facts.acked
      /\ Checks.refused => facts.refused
      /\ Checks.offered => facts.offered
      /\ Checks.denied => facts.denied
      /\ Checks.answered => facts.answered
      /\ Checks.left => facts.left
  <2>1. Checks.acked => facts.acked
    <3>1. Checks.acked <=> \E e \in Entries : Shows("acked", e)
      BY ChecksAre
    <3>2. ASSUME NEW e \in Entries, Shows("acked", e) PROVE facts["acked"]
      BY <1>s, <3>2, <1>0, Zenon DEF Known
    <3> QED BY <3>1, <3>2, Zenon
  <2>2. Checks.refused => facts.refused
    <3>1. Checks.refused <=> \E e \in Entries : Shows("refused", e)
      BY ChecksAre
    <3>2. ASSUME NEW e \in Entries, Shows("refused", e) PROVE facts["refused"]
      BY <1>s, <3>2, <1>0, Zenon DEF Known
    <3> QED BY <3>1, <3>2, Zenon
  <2>3. Checks.offered => facts.offered
    <3>1. Checks.offered <=> \E e \in Entries : Shows("offered", e)
      BY ChecksAre
    <3>2. ASSUME NEW e \in Entries, Shows("offered", e) PROVE facts["offered"]
      BY <1>s, <3>2, <1>0, Zenon DEF Known
    <3> QED BY <3>1, <3>2, Zenon
  <2>4. Checks.denied => facts.denied
    <3>1. Checks.denied <=> \E e \in Entries : Shows("denied", e)
      BY ChecksAre
    <3>2. ASSUME NEW e \in Entries, Shows("denied", e) PROVE facts["denied"]
      BY <1>s, <3>2, <1>0, Zenon DEF Known
    <3> QED BY <3>1, <3>2, Zenon
  <2>5. Checks.answered => facts.answered
    <3>1. Checks.answered <=> \E e \in Entries : Shows("answered", e)
      BY ChecksAre
    <3>2. ASSUME NEW e \in Entries, Shows("answered", e) PROVE facts["answered"]
      BY <1>s, <3>2, <1>0, Zenon DEF Known
    <3> QED BY <3>1, <3>2, Zenon
  <2>6. Checks.left => facts.left
    <3>1. Checks.left <=> \E e \in Entries : Shows("left", e)
      BY ChecksAre
    <3>2. ASSUME NEW e \in Entries, Shows("left", e) PROVE facts["left"]
      BY <1>s, <3>2, <1>0, Zenon DEF Known
    <3> QED BY <3>1, <3>2, Zenon
  <2> QED BY <2>1, <2>2, <2>3, <2>4, <2>5, <2>6, Zenon
<1>2. ~evicted => /\ facts.acked => Checks.acked
                  /\ facts.refused => Checks.refused
                  /\ facts.offered => Checks.offered
                  /\ facts.denied => Checks.denied
                  /\ facts.answered => Checks.answered
                  /\ facts.left => Checks.left
  <2>1. ~evicted /\ facts.acked => Checks.acked
    <3>1. Checks.acked <=> \E e \in Entries : Shows("acked", e)
      BY ChecksAre
    <3>2. ~evicted /\ facts["acked"] => \E e \in Entries : Shows("acked", e)
      BY <1>k, <1>s, Zenon
    <3> QED BY <3>1, <3>2
  <2>2. ~evicted /\ facts.refused => Checks.refused
    <3>1. Checks.refused <=> \E e \in Entries : Shows("refused", e)
      BY ChecksAre
    <3>2. ~evicted /\ facts["refused"] => \E e \in Entries : Shows("refused", e)
      BY <1>k, <1>s, Zenon
    <3> QED BY <3>1, <3>2
  <2>3. ~evicted /\ facts.offered => Checks.offered
    <3>1. Checks.offered <=> \E e \in Entries : Shows("offered", e)
      BY ChecksAre
    <3>2. ~evicted /\ facts["offered"] => \E e \in Entries : Shows("offered", e)
      BY <1>k, <1>s, Zenon
    <3> QED BY <3>1, <3>2
  <2>4. ~evicted /\ facts.denied => Checks.denied
    <3>1. Checks.denied <=> \E e \in Entries : Shows("denied", e)
      BY ChecksAre
    <3>2. ~evicted /\ facts["denied"] => \E e \in Entries : Shows("denied", e)
      BY <1>k, <1>s, Zenon
    <3> QED BY <3>1, <3>2
  <2>5. ~evicted /\ facts.answered => Checks.answered
    <3>1. Checks.answered <=> \E e \in Entries : Shows("answered", e)
      BY ChecksAre
    <3>2. ~evicted /\ facts["answered"] => \E e \in Entries : Shows("answered", e)
      BY <1>k, <1>s, Zenon
    <3> QED BY <3>1, <3>2
  <2>6. ~evicted /\ facts.left => Checks.left
    <3>1. Checks.left <=> \E e \in Entries : Shows("left", e)
      BY ChecksAre
    <3>2. ~evicted /\ facts["left"] => \E e \in Entries : Shows("left", e)
      BY <1>k, <1>s, Zenon
    <3> QED BY <3>1, <3>2
  <2> QED BY <2>1, <2>2, <2>3, <2>4, <2>5, <2>6, Zenon
<1> DEFINE reached == Readiness.stage
           blocker == Readiness.blocker
<1>3. Matched # None => Matched = facts.recent
  BY MatchesAreTrue
<1>4. None \notin {"control_ack_failed", "be_controlled_failed", "controlled_left_before_answer"}
  BY NoneAssumption DEF Blockers
<1>5. CASE ~Checks.connected
  <2>1. reached = "idle" /\ blocker = "gateway_not_connected" /\ Entries = {}
    BY <1>5, NotConnected
  <2>2. ~Checks.acked /\ ~Checks.refused
    BY <2>1, ChecksAre
  <2>3. ~evicted => ~facts.acked /\ ~facts.refused
    BY <1>2, <2>2, Zenon
  <2> HIDE DEF reached, blocker
  <2> QED BY <1>3, <2>1, <2>3 DEF DiagnosticsTrue, Matched, reached, blocker
<1>6. CASE Checks.connected
  <2>1. /\ ~Checks.acked => reached = "gateway_connected" /\ blocker = IF Checks.refused THEN "control_ack_failed"
                                                                       ELSE "control_ack_missing"
        /\ Checks.acked /\ ~Checks.offered => reached = "control_acknowledged" /\ blocker = "offer_missing"
        /\ Checks.acked /\ Checks.offered /\ ~Checks.answered =>
             /\ reached = "offer_sent"
             /\ blocker = IF Checks.denied THEN "be_controlled_failed"
                          ELSE IF Checks.left THEN "controlled_left_before_answer" ELSE "answer_missing"
        /\ Checks.acked /\ Checks.offered /\ Checks.answered => reached = "answer_received" /\ blocker = None
    BY <1>6, ReadinessIs
  <2> DEFINE a == Checks.acked
             r == Checks.refused
             o == Checks.offered
             d == Checks.denied
             w == Checks.answered
             l == Checks.left
  <2> HIDE DEF reached, blocker, a, r, o, d, w, l
  <2>2. /\ reached \in {"control_acknowledged", "offer_sent", "answer_received"} => a
        /\ reached \in {"offer_sent", "answer_received"} => o
        /\ reached = "answer_received" => w
        /\ blocker = "control_ack_failed" => r
        /\ blocker = "be_controlled_failed" => d
        /\ blocker = "controlled_left_before_answer" => l
        /\ a /\ o /\ w => reached = "answer_received"
        /\ r /\ ~a => blocker = "control_ack_failed"
        /\ a /\ o /\ ~w => blocker = IF d THEN "be_controlled_failed"
                                     ELSE IF l THEN "controlled_left_before_answer" ELSE "answer_missing"
    BY <1>4, <2>1 DEF a, r, o, d, w, l
  <2>3. /\ reached \in {"control_acknowledged", "offer_sent", "answer_received"} => facts.acked
        /\ reached \in {"offer_sent", "answer_received"} => facts.offered
        /\ reached = "answer_received" => facts.answered
        /\ blocker = "control_ack_failed" => facts.refused
        /\ blocker = "be_controlled_failed" => facts.denied
        /\ blocker = "controlled_left_before_answer" => facts.left
    BY <1>1, <2>2, Zenon DEF a, r, o, d, w, l
  <2>4. ~evicted => /\ a <=> facts.acked
                    /\ r <=> facts.refused
                    /\ o <=> facts.offered
                    /\ d <=> facts.denied
                    /\ w <=> facts.answered
                    /\ l <=> facts.left
    BY <1>1, <1>2, Zenon DEF a, r, o, d, w, l
  <2>5. ~evicted =>
          /\ facts.acked /\ facts.offered /\ facts.answered => reached = "answer_received"
          /\ facts.refused /\ ~facts.acked => blocker = "control_ack_failed"
          /\ facts.acked /\ facts.offered /\ ~facts.answered =>
               blocker = IF facts.denied THEN "be_controlled_failed"
                         ELSE IF facts.left THEN "controlled_left_before_answer" ELSE "answer_missing"
    BY <2>2, <2>4
  <2> QED BY <1>3, <2>3, <2>5, Zenon DEF DiagnosticsTrue, Matched, reached, blocker
<1> QED BY <1>5, <1>6

\* SignalPath: the diagnostics name the step that was reached and what stands in the way of the
\* next one, and never say what the device has not said.
THEOREM DiagnosticsStayTrue == Spec => []DiagnosticsTrue
  BY PathIsKept, DiagnosticsAre, PTL
=============================================================================
