----------------------------- MODULE WebSessions ------------------------------
(***************************************************************************)
(* Signing in to the panel: the tables of sessions and of login failures in*)
(* its web server, and the tabs of one browser that share a cookie while   *)
(* each keeps a CSRF token and a view of its own.                          *)
(*                                                                         *)
(* The server runs its handlers one at a time; an answer is on its way     *)
(* until it arrives or is lost, and what other tabs and other browsers do  *)
(* in between is not in it.  A request lost before its handler runs changes*)
(* nothing and is not modelled.                                            *)
(***************************************************************************)
EXTENDS Naturals, FiniteSets, FiniteSetsExt

CONSTANTS
    Tabs,                 \* of the browser
    Front,                \* the one its user goes on working in
    Peers,                \* addresses of other browsers
    Home,                 \* the browser's address
    None,
    MaxSessions,          \* kMaxSessions
    MaxRateEntries,       \* kMaxRateEntries
    FailuresBeforeLockout,\* kFailuresBeforeLockout
    MaxFailures,          \* where the count of failures saturates, 255
    BaseLockout,          \* kBaseLockoutMs, in ticks
    MaxLockout,           \* kMaxLockoutMs
    MaxTrouble            \* bound: what goes wrong, of all kinds

\* What an answer on its way answers.
Ops == {"session", "enter", "login", "status", "save", "password", "logout", "reboot"}

ASSUME WebAssumption ==
    /\ Front \in Tabs /\ Home \notin Peers /\ None \notin Peers \cup {Home}
    /\ IsFiniteSet(Tabs) /\ None \notin Nat \cup Ops
    /\ {MaxSessions, MaxRateEntries, FailuresBeforeLockout, BaseLockout,
        MaxLockout, MaxFailures} \subseteq Nat \ {0}
    /\ BaseLockout <= MaxLockout
    /\ MaxTrouble \in Nat

VARIABLES
    passwordSet,  \* config.web.passwordSet
    enabled,      \* config.web.enabled
    sessions,     \* g_sessions: the token of each, None when free or expired
    rate,         \* g_rate
    asked,        \* g_restartPending, g_factoryResetPending
    cookie,       \* the browser's wsid
    csrf,         \* of each tab, None for ""
    view,         \* what each tab has rendered
    polls,        \* the tab's timer runs
    call,         \* the answer on its way to each tab
    trouble       \* what has gone wrong so far

server == <<passwordSet, enabled, sessions, rate, asked>>
client == <<cookie, csrf, view, polls>>
vars == <<server, client, call, trouble>>

Slots == 1..MaxSessions
Entries == 1..MaxRateEntries
Addresses == Peers \cup {Home}
NoCall == [op |-> None, code |-> None, id |-> None]
Free == [ip |-> None, failures |-> 0, locked |-> 0]

Init ==
    /\ passwordSet \in BOOLEAN /\ enabled = TRUE
    /\ sessions = [i \in Slots |-> None] /\ rate = [e \in Entries |-> Free]
    /\ asked = {}
    /\ cookie = None /\ csrf = [t \in Tabs |-> None]
    /\ view = [t \in Tabs |-> "booting"] /\ polls = [t \in Tabs |-> FALSE]
    /\ call = [t \in Tabs |-> NoCall] /\ trouble = 0

(* ------------------------- the server's tables ------------------------- *)

Alive(id) == id # None /\ \E i \in Slots : sessions[i] = id

\* randomHex(): a token nobody holds.
NewToken ==
    LET held == {sessions[i] : i \in Slots} \cup {cookie}
                \cup {csrf[t] : t \in Tabs} \cup {call[t].id : t \in Tabs}
    IN CHOOSE n \in 1..Cardinality(held) + 1 : n \notin held

\* Mutant of SlotForLogin: always the first.
SlotForLoginFirst == 1

\* createSession(): the first free slot, or the first.
SlotForLogin ==
    IF \E i \in Slots : sessions[i] = None
      THEN CHOOSE i \in Slots : /\ sessions[i] = None
                                /\ \A j \in 1..i - 1 : sessions[j] # None
      ELSE 1

\* Mutant of CreateSession: a full table refuses.
CreateSessionUnlessFull(id) ==
    IF \E i \in Slots : sessions[i] = None
      THEN sessions' = [sessions EXCEPT ![SlotForLogin] = id]
      ELSE UNCHANGED sessions

CreateSession(id) == sessions' = [sessions EXCEPT ![SlotForLogin] = id]

\* rateEntryFor(): the entry of an address, else the first free one, else the
\* one whose lockout ends first; lockouts that have run out count alike.
RateEntryFor(ip) ==
    IF \E e \in Entries : rate[e].ip = ip
      THEN CHOOSE e \in Entries : rate[e].ip = ip
      ELSE LET free == {e \in Entries : rate[e].ip = None}
               pool == IF free = {} THEN Entries ELSE free
               first(S) == CHOOSE e \in S : \A f \in S : e <= f
           IN first({e \in pool : \A f \in pool : rate[e].locked <= rate[f].locked})

\* What the entry reads once it is the address's own.
RateOf(ip) ==
    LET entry == rate[RateEntryFor(ip)]
    IN IF entry.ip = ip THEN entry ELSE [Free EXCEPT !.ip = ip]

SetRate(ip, entry) == rate' = [rate EXCEPT ![RateEntryFor(ip)] = entry]

Lockout(failures) ==
    LET steps == failures - FailuresBeforeLockout
        doubled == BaseLockout * (2 ^ steps)
    IN Min({doubled, MaxLockout})

\* Mutant of NoteLoginFailure: the count goes on past its width.
NoteLoginFailureUnsaturated(ip) ==
    LET n == RateOf(ip).failures + 1
    IN SetRate(ip, [ip |-> ip, failures |-> n, locked |-> Lockout(n)])

\* noteLoginFailure().
NoteLoginFailure(ip) ==
    LET n == Min({RateOf(ip).failures + 1, MaxFailures})
    IN SetRate(ip, [ip |-> ip, failures |-> n,
                    locked |-> IF n >= FailuresBeforeLockout THEN Lockout(n)
                               ELSE RateOf(ip).locked])

\* noteLoginSuccess().
NoteLoginSuccess(ip) == SetRate(ip, [Free EXCEPT !.ip = ip])

\* requireAuth(): the code the request is refused with, or "ok".  The Wi-Fi
\* manager raises and takes down its portal on its own: either is possible.
RequireAuth(t, mutating, portal) ==
    CASE ~enabled                                 -> "403"
      [] enabled /\ ~passwordSet                  ->
            IF mutating /\ ~portal THEN "403" ELSE "ok"
      [] enabled /\ passwordSet /\ ~Alive(cookie) -> "401"
      [] OTHER -> IF mutating /\ csrf[t] # cookie THEN "403" ELSE "ok"

(* ------------------------- requests of the tabs ------------------------ *)

GoesWrong == trouble < MaxTrouble /\ trouble' = trouble + 1
Ready(t, views) == call[t] = NoCall /\ view[t] \in views
Answer(t, op, code, id) ==
    call' = [call EXCEPT ![t] = [op |-> op, code |-> code, id |-> id]]

\* boot(): GET /api/session, handleSession(); the code is the view it leads to.
GetSession(t) ==
    /\ Ready(t, {"booting"})
    /\ Answer(t, "session",
              CASE ~enabled                -> "disabled"
                [] enabled /\ ~passwordSet -> "firstRun"
                [] OTHER -> IF Alive(cookie) THEN "shell" ELSE "login",
              IF Alive(cookie) THEN cookie ELSE None)
    /\ UNCHANGED <<server, client, trouble>>

\* handleLogin() with the right password.
Login(t) ==
    /\ Ready(t, {"login"})
    /\ CASE RateOf(Home).locked > 0 ->
              /\ Answer(t, "login", "429", None)
              /\ SetRate(Home, RateOf(Home)) /\ UNCHANGED sessions
         [] RateOf(Home).locked = 0 /\ ~passwordSet ->
              /\ Answer(t, "login", "401", None)
              /\ NoteLoginFailure(Home) /\ UNCHANGED sessions
         [] OTHER ->
              /\ Answer(t, "login", "ok", NewToken)
              /\ NoteLoginSuccess(Home) /\ CreateSession(NewToken)
    /\ UNCHANGED <<passwordSet, enabled, asked, client, trouble>>

\* handleLogin() with a wrong one.
Mistype(t) ==
    /\ Ready(t, {"login"}) /\ GoesWrong
    /\ IF RateOf(Home).locked > 0
         THEN Answer(t, "login", "429", None) /\ SetRate(Home, RateOf(Home))
         ELSE Answer(t, "login", "401", None) /\ NoteLoginFailure(Home)
    /\ UNCHANGED <<passwordSet, enabled, sessions, asked, client>>

\* The timer of boot(): GET /api/status, whatever is rendered by now; a boot()
\* that begins asks for the session in the same turn.
Poll(t) ==
    /\ call[t] = NoCall /\ polls[t] /\ view[t] # "booting"
    /\ Answer(t, "status", RequireAuth(t, FALSE, FALSE), None)
    /\ UNCHANGED <<server, client, trouble>>

\* A change of settings, which may turn the website off.
Save(t) ==
    /\ Ready(t, {"shell"})
    /\ \E portal \in BOOLEAN :
          LET code == RequireAuth(t, TRUE, portal)
          IN /\ Answer(t, "save", code, None)
             /\ enabled' \in IF code = "ok" THEN BOOLEAN ELSE {enabled}
    /\ UNCHANGED <<passwordSet, sessions, rate, asked, client, trouble>>

\* handleSetPassword(): the first password needs the portal or the website, a
\* new one the session and the current password.  Every session ends.
SetPassword(t, knowsCurrent) ==
    /\ Ready(t, {"firstRun", "shell"}) /\ GoesWrong
    /\ \E portal \in BOOLEAN :
          LET auth == RequireAuth(t, passwordSet, portal)
              code == CASE passwordSet /\ auth = "ok" ->
                             IF knowsCurrent THEN "ok" ELSE "403"
                        [] ~passwordSet /\ portal     -> "ok"
                        [] OTHER                      -> auth
          IN /\ Answer(t, "password", code, None)
             /\ passwordSet' = (passwordSet \/ code = "ok")
             /\ sessions' = IF code = "ok" THEN [i \in Slots |-> None] ELSE sessions
    /\ UNCHANGED <<enabled, rate, asked, client>>

\* handleLogout(), dropSession().
Logout(t) ==
    /\ Ready(t, {"shell"}) /\ csrf[t] # None /\ GoesWrong
    /\ Answer(t, "logout", "ok", None)
    /\ sessions' = [i \in Slots |-> IF sessions[i] = cookie THEN None
                                    ELSE sessions[i]]
    /\ UNCHANGED <<passwordSet, enabled, rate, asked, client>>

\* handleRestart(), handleFactoryReset().
AskReboot(t, what) ==
    /\ Ready(t, {"shell"})
    /\ GoesWrong
    /\ \E portal \in BOOLEAN :
          LET code == RequireAuth(t, TRUE, portal)
          IN /\ Answer(t, "reboot", code, None)
             /\ asked' = IF code = "ok" THEN asked \cup {what} ELSE asked
    /\ UNCHANGED <<passwordSet, enabled, sessions, rate, client>>

(* ----------------------- answers in the tabs --------------------------- *)

\* Mutant of Announce: a refusal changes nothing in the page.
AnnounceNothing(t, code) == UNCHANGED csrf

\* request(): a 401 announces that nobody is signed in.  Only `session' in
\* main.ts listens; nothing is rendered.
Announce(t, code) ==
    IF code = "401" THEN csrf' = [csrf EXCEPT ![t] = None] ELSE UNCHANGED csrf

Arrives(t, op) == call[t].op = op /\ call' = [call EXCEPT ![t] = NoCall]
Shows(t, v) == view' = [view EXCEPT ![t] = v]

\* boot(), the answer.  On the Wi-Fi page a panel without password gets the
\* shell too, and the shell asks for the status before it is rendered.
SessionArrives(t) ==
    /\ call[t].op = "session"
    /\ csrf' = [csrf EXCEPT ![t] = call[t].id]
    /\ \/ /\ call[t].code \in {"shell", "firstRun"}
          /\ Answer(t, "enter", RequireAuth(t, FALSE, FALSE), None)
          /\ UNCHANGED view
       \/ /\ call[t].code # "shell"
          /\ Shows(t, call[t].code) /\ call' = [call EXCEPT ![t] = NoCall]
    /\ UNCHANGED <<server, cookie, polls, trouble>>

\* boot(), the status: good or bad, the shell appears and its timer starts.
EntersShell(t) == Shows(t, "shell") /\ polls' = [polls EXCEPT ![t] = TRUE]

EnterArrives(t) ==
    /\ Arrives(t, "enter")
    /\ Announce(t, call[t].code) /\ EntersShell(t)
    /\ UNCHANGED <<server, cookie, trouble>>

\* submit() of renderLogin().
LoginArrives(t) ==
    /\ Arrives(t, "login")
    /\ IF call[t].code = "ok"
         THEN /\ cookie' = call[t].id
              /\ csrf' = [csrf EXCEPT ![t] = call[t].id]
              /\ Shows(t, "booting")
         ELSE Announce(t, call[t].code) /\ UNCHANGED <<cookie, view>>
    /\ UNCHANGED <<server, polls, trouble>>

\* The timer: a good answer renders the shell when the page is the dashboard.
StatusArrives(t) ==
    /\ Arrives(t, "status")
    /\ Announce(t, call[t].code)
    /\ \/ UNCHANGED view
       \/ call[t].code = "ok" /\ Shows(t, "shell")
    /\ UNCHANGED <<server, cookie, polls, trouble>>

\* A toast says how it went.
ResultArrives(t) ==
    /\ Arrives(t, "save") \/ Arrives(t, "reboot")
    /\ Announce(t, call[t].code)
    /\ UNCHANGED <<server, cookie, view, polls, trouble>>

\* A new password leads to boot(); a refusal leaves the form.
PasswordArrives(t) ==
    /\ Arrives(t, "password")
    /\ Announce(t, call[t].code)
    /\ IF call[t].code = "ok" THEN Shows(t, "booting") ELSE UNCHANGED view
    /\ UNCHANGED <<server, cookie, polls, trouble>>

\* The answer to a logout takes the cookie away.
LogoutArrives(t) ==
    /\ Arrives(t, "logout")
    /\ cookie' = None /\ csrf' = [csrf EXCEPT ![t] = None]
    /\ Shows(t, "booting")
    /\ UNCHANGED <<server, polls, trouble>>

\* The connection breaks: boot() gives up or goes on without a status, anything
\* else only says so.
Lost(t) ==
    /\ call[t] # NoCall /\ GoesWrong
    /\ call' = [call EXCEPT ![t] = NoCall]
    /\ CASE call[t].op = "session" -> Shows(t, "offline") /\ UNCHANGED polls
         [] call[t].op = "enter"   -> EntersShell(t)
         [] OTHER                  -> UNCHANGED <<view, polls>>
    /\ UNCHANGED <<server, cookie, csrf>>

\* The user picks another page or reloads.
Reload(t) ==
    /\ Ready(t, {"login", "firstRun", "shell", "disabled", "offline"})
    /\ Shows(t, "booting")
    /\ UNCHANGED <<server, cookie, csrf, polls, call, trouble>>

Request(t) ==
    \/ GetSession(t) \/ Login(t) \/ Mistype(t) \/ Poll(t) \/ Save(t)
    \/ Logout(t) \/ \E knows \in BOOLEAN : SetPassword(t, knows)
    \/ \E what \in {"restart", "reset"} : AskReboot(t, what)
Arrival(t) ==
    \/ SessionArrives(t) \/ EnterArrives(t) \/ LoginArrives(t) \/ StatusArrives(t)
    \/ ResultArrives(t) \/ PasswordArrives(t) \/ LogoutArrives(t)

(* ------------------- the main loop, others, time ----------------------- *)

\* loop(): a factory reset comes before a restart; both lose the tables.
Reboot ==
    /\ asked # {}
    /\ asked' = {}
    /\ sessions' = [i \in Slots |-> None] /\ rate' = [e \in Entries |-> Free]
    /\ IF "reset" \in asked
         THEN passwordSet' = FALSE /\ enabled' = TRUE
         ELSE UNCHANGED <<passwordSet, enabled>>
    /\ UNCHANGED <<client, call, trouble>>

\* The reset of the panel's own diagnostics screen.
ResetOnPanel ==
    /\ "reset" \notin asked /\ GoesWrong
    /\ asked' = asked \cup {"reset"}
    /\ UNCHANGED <<passwordSet, enabled, sessions, rate, client, call>>

PeerLogsIn(ip) ==
    /\ passwordSet /\ RateOf(ip).locked = 0 /\ GoesWrong
    /\ CreateSession(NewToken) /\ NoteLoginSuccess(ip)
    /\ UNCHANGED <<passwordSet, enabled, asked, client, call>>

PeerMistypes(ip) ==
    /\ RateOf(ip).locked = 0 /\ GoesWrong
    /\ NoteLoginFailure(ip)
    /\ UNCHANGED <<passwordSet, enabled, sessions, asked, client, call>>

\* Nobody used a session for web.sessionTimeoutSeconds.
Expire(i) ==
    /\ sessions[i] # None /\ GoesWrong
    /\ sessions' = [sessions EXCEPT ![i] = None]
    /\ UNCHANGED <<passwordSet, enabled, rate, asked, client, call>>

Tick ==
    /\ \E e \in Entries : rate[e].locked > 0
    /\ rate' = [e \in Entries |->
                   [rate[e] EXCEPT !.locked = IF @ > 0 THEN @ - 1 ELSE 0]]
    /\ UNCHANGED <<passwordSet, enabled, sessions, asked, client, call,
                   trouble>>

Elsewhere ==
    \/ Reboot \/ ResetOnPanel \/ Tick
    \/ \E ip \in Peers : PeerLogsIn(ip) \/ PeerMistypes(ip)
    \/ \E i \in Slots : Expire(i)

Next ==
    \/ \E t \in Tabs : Request(t) \/ Arrival(t) \/ Lost(t) \/ Reload(t)
    \/ Elsewhere

\* Browser, network and panel go on: boot() and the timer ask, answers arrive,
\* loop() acts on what was asked, lockouts run down.  The user is persistent: at
\* the login form he tries again, and he reloads a page that does not show the
\* panel or whose every change is refused for its token.  A page that does show
\* the panel he may leave open for ever.
UserUnhappy == view[Front] # "shell" \/ csrf[Front] = None \/ csrf[Front] # cookie
Fairness ==
    /\ \A t \in Tabs : WF_vars(GetSession(t)) /\ WF_vars(Arrival(t)) /\ SF_vars(Poll(t))
    /\ SF_vars(Login(Front))
    /\ SF_vars(UserUnhappy /\ Reload(Front))
    /\ WF_vars(Reboot) /\ WF_vars(Tick)

Spec == Init /\ [][Next]_vars /\ Fairness

(* ------------------------------ properties ----------------------------- *)

\* The variables have their types.
TypeOK ==
    /\ {passwordSet, enabled} \subseteq BOOLEAN
    /\ sessions \in [Slots -> Nat \cup {None}]
    /\ \A e \in Entries : /\ rate[e].ip \in Addresses \cup {None}
                          /\ rate[e].failures \in 0..MaxFailures
                          /\ rate[e].locked \in 0..MaxLockout
    /\ \A e, f \in Entries : rate[e].ip = rate[f].ip => e = f \/ rate[e].ip = None
    /\ asked \subseteq {"restart", "reset"}
    /\ cookie \in Nat \cup {None} /\ csrf \in [Tabs -> Nat \cup {None}]
    /\ view \in [Tabs -> {"booting", "login", "firstRun", "shell", "disabled", "offline"}]
    /\ polls \in [Tabs -> BOOLEAN]
    /\ \A t \in Tabs : call[t].op \in Ops \cup {None} /\ call[t].id \in Nat \cup {None}
    /\ trouble \in 0..MaxTrouble

\* A login ends nobody's session while there is room, and one at most when
\* there is none, however many of the sessions nobody remembers.
LoginMakesRoom ==
    [][(\E t \in Tabs : Login(t)) \/ (\E ip \in Peers : PeerLogsIn(ip)) =>
          LET ended == {i \in Slots : sessions[i] # None /\ sessions'[i] # sessions[i]}
          IN /\ (\E i \in Slots : sessions[i] = None) => ended = {}
             /\ Cardinality(ended) <= 1]_vars

\* Time alone ends a lockout: no answer, no login of another browser and no
\* misfortune shortens it.  A restart forgets them all, and a table in which
\* every address has an entry gives up the one whose lockout ends first.
LockoutHolds ==
    [][\A e \in Entries : rate[e].locked > 0 =>
          \/ rate'[e].ip = rate[e].ip /\ rate'[e].locked >= rate[e].locked
          \/ /\ Tick
             /\ rate'[e].ip = rate[e].ip /\ rate'[e].locked = rate[e].locked - 1
          \/ Reboot
          \/ /\ rate'[e].ip # rate[e].ip
             /\ \A f \in Entries :
                   rate[f].ip # None /\ rate[e].locked <= rate[f].locked]_vars

\* A tab that goes on showing the pages of a session that is gone learns it
\* from its own timer, and stops presenting the token of the dead session.
StaleTabIsTold ==
    \A t \in Tabs :
        (view[t] = "shell" /\ polls[t] /\ csrf[t] # None /\ passwordSet /\ ~Alive(cookie))
            ~> (csrf[t] = None \/ Alive(cookie) \/ ~passwordSet \/ ~enabled
                \/ view[t] # "shell")

\* On a panel that keeps its password and its website, a user who comes back to
\* the page and types the password has a session again and again, once nobody
\* else logs in from the same browser: neither a full table, nor lost answers,
\* lockouts and reboots shut him out for good.
PersistentGetIn ==
    <>[](passwordSet /\ enabled /\ \A t \in Tabs \ {Front} : call[t].op # "login") =>
        []<>(view[Front] = "shell" /\ Alive(cookie) /\ csrf[Front] = cookie)
=============================================================================
