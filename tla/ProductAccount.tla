---------------------------- MODULE ProductAccount ----------------------------
(***************************************************************************)
(* The account of the product pages: useProductController.ts with its busy *)
(* flag and its automatic loading of the devices, the login flow of        *)
(* accountApi.ts, and the login state that all tabs share in localStorage  *)
(* (loginStateStore.ts).                                                   *)
(*                                                                         *)
(* A visit is one mount of the product routes: in a tab of its own, or in a *)
(* tab where the landing page was shown in between.  What a visit started  *)
(* goes on when it is over, and still writes the login state.  A task is an *)
(* action that waits for a server.                                         *)
(*                                                                         *)
(* A token is named by its user, a device by the client it was registered  *)
(* for; Nobody stands for an absent or empty field.  The installation id is *)
(* treated like the client; the texts of the forms are left out, and so is *)
(* remote assistance, which is RemoteControlPage's subject.                *)
(***************************************************************************)
EXTENDS Integers

CONSTANTS
  Users,     \* the users that may log in with a code
  Exports,   \* login states a user may have kept: [token, user, client, device]
  Nobody,    \* an absent field or value
  MaxVisits, \* bound: visits
  MaxTasks   \* bound: tasks and imports

-----------------------------------------------------------------------------
(* What a login state looks like, and whom and which clients it may name.     *)
UserNames   == {Nobody} \union Users \union {e.token : e \in Exports}
ClientNames == {Nobody} \union Nat \union {e.client : e \in Exports}
LoginStates == [token : UserNames, user : UserNames, client : ClientNames, device : ClientNames]

ASSUME VisitsAssumption == MaxVisits \in Nat \ {0} /\ MaxTasks \in Nat

\* An absent value is neither a made-up client id nor a login state.
ASSUME NobodyAssumption == Nobody \notin Nat /\ Nobody \notin LoginStates

\* A kept login state was written by these pages: it names one user and one device.
ASSUME ExportsAssumption ==
  \A e \in Exports : e \in LoginStates /\ e.token = e.user /\ e.device = e.client

-----------------------------------------------------------------------------
VARIABLES
  store,     \* uurc.loginState, or Nobody
  clients,   \* client ids that were made up (createSyntheticAndroidProfile)
  place,     \* per visit: "never", "on" or "left"
  status,    \* per visit: authStatus
  busy,      \* per visit: the action, or Nobody
  devices,   \* per visit: whose devices are listed
  loaded,    \* per visit: devicesLoaded
  attempted, \* per visit: attemptedRef of useAutoLoadDevices
  tasks,     \* under way: [id, visit, action, at, state]
  started    \* tasks and imports so far

visitVars   == <<place, status, busy, devices, loaded, attempted>>
accountVars == <<store, clients, visitVars, tasks, started>>

Visits == 1..MaxVisits
On(v)  == place[v] = "on"

-----------------------------------------------------------------------------
(* The login state.                                                          *)

Empty == [token |-> Nobody, user |-> Nobody, client |-> Nobody, device |-> Nobody]

(* getStoredLoginState() ?? {}                                               *)
Stored == IF store = Nobody THEN Empty ELSE store

(* validateLoginState                                                        *)
Complete(state) == \A f \in {"token", "user", "device"} : state[f] # Nobody

(* summarizeAuthState                                                        *)
Summary(state) ==
  [hasState |-> Complete(state), user |-> state.user, device |-> state.device]

(* createSyntheticAndroidProfile: a client id is made up where there is none. *)
Profile(state) ==
  IF state.client # Nobody THEN state ELSE [state EXCEPT !.client = clients + 1]

(* What createMobileDevice writes: the state it was started with, and the device. *)
Registered(state) == [state EXCEPT !.device = state.client]

(* loginByMobile: the login is merged into what is stored by then.           *)
SignedIn(user, tokenClient) ==
  [Stored EXCEPT !.token = user, !.user = user,
                 !.client = IF Stored.client # Nobody THEN Stored.client ELSE tokenClient]

-----------------------------------------------------------------------------
(* What a visit shows.                                                       *)

LoggedIn(v) == On(v) /\ status[v].hasState

(* setAuthStatus, of a visit that is still there: useAutoLoadDevices starts  *)
(* afresh once nobody is logged in.                                          *)
Show(v, state) ==
  IF ~On(v) THEN UNCHANGED <<status, attempted>>
  ELSE /\ status' = [status EXCEPT ![v] = Summary(state)]
       /\ attempted' = [attempted EXCEPT ![v] = @ /\ Complete(state)]

(* setDevicesLoaded and setDevices, of a visit that is still there           *)
List(v, whose, done) ==
  IF ~On(v) THEN UNCHANGED <<devices, loaded>>
  ELSE devices' = [devices EXCEPT ![v] = whose] /\ loaded' = [loaded EXCEPT ![v] = done]

(* The effect of useAutoLoadDevices will load the devices.                   *)
Due(v) == LoggedIn(v) /\ ~loaded[v] /\ busy[v] = Nobody /\ ~attempted[v]

-----------------------------------------------------------------------------
(* useBusyAction's run                                                       *)

(* The action begins: it waits at `at`, with the login state it took.        *)
Begin(v, action, at, state) ==
  /\ started < MaxTasks /\ started' = started + 1
  /\ tasks' = tasks \union {[id |-> started', visit |-> v, action |-> action, at |-> at, state |-> state]}
  /\ busy' = [busy EXCEPT ![v] = action]

(* The action of a task goes on to its next call.                            *)
Proceed(t, at) ==
  /\ tasks' = (tasks \ {t}) \union {[t EXCEPT !.at = at, !.state = IF store' = Nobody THEN Empty ELSE store']}
  /\ UNCHANGED <<busy, started>>

(* finally                                                                   *)
End(t) ==
  /\ tasks' = tasks \ {t}
  /\ busy' = IF On(t.visit) THEN [busy EXCEPT ![t.visit] = Nobody] ELSE busy
  /\ UNCHANGED started

(* The user acts: the effects of what the page shows have run before.        *)
Acts(v) == On(v) /\ ~Due(v)

-----------------------------------------------------------------------------
(* Visits.                                                                   *)

(* loadStatus                                                                *)
Visit(v) ==
  /\ place[v] = "never" /\ \A w \in Visits : w < v => place[w] # "never"
  /\ place' = [place EXCEPT ![v] = "on"]
  /\ status' = [status EXCEPT ![v] = Summary(Stored)]
  /\ UNCHANGED <<store, clients, busy, devices, loaded, attempted, tasks, started>>

(* The landing page is shown, or the tab closed.                             *)
Leave(v) ==
  /\ Acts(v)
  /\ place' = [place EXCEPT ![v] = "left"]
  /\ status' = [status EXCEPT ![v] = Summary(Empty)] /\ busy' = [busy EXCEPT ![v] = Nobody]
  /\ devices' = [devices EXCEPT ![v] = Nobody] /\ loaded' = [loaded EXCEPT ![v] = FALSE]
  /\ attempted' = [attempted EXCEPT ![v] = FALSE]
  /\ UNCHANGED <<store, clients, tasks, started>>

-----------------------------------------------------------------------------
(* Logging in.                                                               *)

(* ensureMobileDevice and createMobileDevice: handleSendMobileCode and       *)
(* handleMobileLogin register a device first when the login state has none.  *)
(* What is stored is shown if the page did not know of a device.             *)
LoginForm(v, action) ==
  /\ Acts(v) /\ ~LoggedIn(v) /\ busy[v] = Nobody
  /\ IF Stored.device # Nobody
     THEN /\ Begin(v, action, "request", Stored) /\ UNCHANGED clients
          /\ IF status[v].device = Nobody THEN Show(v, Stored) ELSE UNCHANGED <<status, attempted>>
     ELSE /\ Begin(v, action, IF status[v].device = Nobody THEN "ensure" ELSE "init", Profile(Stored))
          /\ clients' = IF Stored.client = Nobody THEN clients + 1 ELSE clients
          /\ UNCHANGED <<status, attempted>>
  /\ UNCHANGED <<store, place, devices, loaded>>

(* The service has registered the device.                                    *)
DeviceCreated(t) ==
  /\ t.at \in {"ensure", "init"}
  /\ store' = Registered(t.state)
  /\ Proceed(t, "request")
  /\ IF t.at = "ensure" THEN Show(t.visit, Registered(t.state)) ELSE UNCHANGED <<status, attempted>>
  /\ UNCHANGED <<clients, place, devices, loaded>>

CodeSent(t) ==
  /\ t.action = "send-mobile-code" /\ t.at = "request"
  /\ End(t) /\ Show(t.visit, Stored)
  /\ UNCHANGED <<store, clients, place, devices, loaded>>

FaultyMobileLogin(t, user, tokenClient) ==
  /\ t.action = "mobile-login" /\ t.at = "request"
  /\ store' = [t.state EXCEPT !.token = user, !.user = Stored.user]
  /\ End(t) /\ Show(t.visit, store')
  /\ List(t.visit, devices[t.visit], FALSE)
  /\ UNCHANGED <<clients, place>>

(* loginByMobile's answer; the token may name the client it was asked with.  *)
MobileLogin(t, user, tokenClient) ==
  /\ t.action = "mobile-login" /\ t.at = "request"
  /\ tokenClient \in {t.state.client, Nobody}
  /\ store' = SignedIn(user, tokenClient)
  /\ End(t) /\ Show(t.visit, store')
  /\ List(t.visit, devices[t.visit], FALSE)
  /\ UNCHANGED <<clients, place>>

(* handleImport of a complete login state: it waits for nobody.              *)
Import(v, state) ==
  /\ Acts(v) /\ ~LoggedIn(v) /\ busy[v] = Nobody
  /\ started < MaxTasks /\ started' = started + 1
  /\ store' = state
  /\ Show(v, state) /\ List(v, devices[v], FALSE)
  /\ UNCHANGED <<clients, place, busy, tasks>>

-----------------------------------------------------------------------------
(* Devices, and logging out.                                                 *)

(* getDeviceGroups: a login state that is not complete is not sent.          *)
LoadDevices(v) ==
  IF Complete(Stored) THEN Begin(v, "devices", "request", Stored)
  ELSE started < MaxTasks /\ started' = started + 1 /\ busy' = [busy EXCEPT ![v] = Nobody] /\ UNCHANGED tasks

AutoLoad(v) ==
  /\ Due(v) /\ attempted' = [attempted EXCEPT ![v] = TRUE]
  /\ LoadDevices(v)
  /\ UNCHANGED <<store, clients, place, status, devices, loaded>>

(* The button of the list waits for its turn, the command palette does not.  *)
Refresh(v) ==
  /\ Acts(v) /\ LoggedIn(v)
  /\ LoadDevices(v)
  /\ UNCHANGED <<store, clients, place, status, devices, loaded, attempted>>

DevicesLoaded(t) ==
  /\ t.action = "devices" /\ End(t) /\ List(t.visit, t.state.user, TRUE)
  /\ UNCHANGED <<store, clients, place, status, attempted>>

(* handleLogout: the gateway of the tab is stopped first.                    *)
Logout(v) ==
  /\ Acts(v) /\ LoggedIn(v) /\ busy[v] = Nobody
  /\ Begin(v, "logout", "request", Empty)
  /\ UNCHANGED <<store, clients, place, status, devices, loaded, attempted>>

(* clearAuthState and resetDevices                                           *)
LoggedOut(t) ==
  /\ t.action = "logout" /\ store' = Nobody
  /\ End(t) /\ Show(t.visit, Empty) /\ List(t.visit, Nobody, FALSE)
  /\ UNCHANGED <<clients, place>>

(* A call is refused, lost or times out, or its answer makes no sense.       *)
Fails(t) ==
  /\ t.action # "logout" /\ End(t)
  /\ UNCHANGED <<store, clients, place, status, devices, loaded, attempted>>

-----------------------------------------------------------------------------
AccountInit ==
  /\ store \in Exports \union {Nobody} /\ clients = 0
  /\ place = [v \in Visits |-> "never"] /\ status = [v \in Visits |-> Summary(Empty)]
  /\ busy = [v \in Visits |-> Nobody] /\ devices = [v \in Visits |-> Nobody]
  /\ loaded = [v \in Visits |-> FALSE] /\ attempted = [v \in Visits |-> FALSE]
  /\ tasks = {} /\ started = 0

AccountNext ==
  \/ \E v \in Visits :
       \/ Visit(v) \/ Leave(v)
       \/ \E action \in {"send-mobile-code", "mobile-login"} : LoginForm(v, action)
       \/ \E state \in Exports : Import(v, state)
       \/ AutoLoad(v) \/ Refresh(v) \/ Logout(v)
  \/ \E t \in tasks :
       \/ DeviceCreated(t) \/ CodeSent(t)
       \/ \E user \in Users, c \in {t.state.client, Nobody} : MobileLogin(t, user, c)
       \/ DevicesLoaded(t) \/ LoggedOut(t) \/ Fails(t)

AccountSpec == AccountInit /\ [][AccountNext]_accountVars

-----------------------------------------------------------------------------
(* Whatever tabs and earlier visits write in between, the stored token is the *)
(* stored user's and the stored device was registered for the stored client. *)
CredentialsArePaired ==
  /\ Stored.token = Stored.user
  /\ Stored.device # Nobody => Stored.device = Stored.client

(* A page that says it is busy waits for the action it names.                *)
BusyIsRunning ==
  \A v \in Visits : busy[v] # Nobody => \E t \in tasks : t.visit = v /\ t.action = busy[v]

(* The only visit there has been knows what is stored.                       *)
LonePageIsCurrent ==
  place[1] = "on" /\ (\A v \in Visits : v > 1 => place[v] = "never") => status[1] = Summary(Stored)

AccountIsCoherent == CredentialsArePaired /\ BusyIsRunning /\ LonePageIsCurrent
=============================================================================
