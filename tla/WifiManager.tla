---------------------------- MODULE WifiManager -----------------------------
(***************************************************************************)
(* The panel's way onto a network: the saved networks, the attempts to join*)
(* them with their timeout and backoff, and the open setup portal.         *)
(*                                                                         *)
(* loop() runs in the network task.  connectTo(), forget() and forgetAll() *)
(* run in the task of the web server or of the screen and work on the same *)
(* fields; only the saved list has a lock, so each call is several steps   *)
(* here and so is a pass of loop().                                        *)
(*                                                                         *)
(* Times are relative to the clock, in ticks: the age of the attempt and   *)
(* the wait for the next one.  A pass takes no tick.                       *)
(***************************************************************************)
EXTENDS Naturals, Sequences, SequencesExt

CONSTANTS
    Ssids,              \* networks the user names
    Reachable,          \* those whose access point is in range
    None,
    MaxNetworks,        \* kMaxWifiNetworks
    ConnectTimeout,     \* kConnectTimeoutMs
    FirstBackoff,       \* backoffMs_ after a success or a new choice
    MaxBackoff,         \* kMaxBackoffMs
    NothingSavedWait,   \* the 5000 ms of loop() when nothing is saved
    Asap,               \* nextAttemptMs_ = 0: due whatever the clock says
    Far,                \* a time the wrapped clock has yet to come back to
    FailureFactor,      \* failures per saved network before the portal
    MaxWraps            \* bound: wraps of millis()

ASSUME WifiAssumption ==
    /\ Reachable \subseteq Ssids
    /\ None \notin Ssids
    /\ {MaxNetworks, ConnectTimeout, FirstBackoff, MaxBackoff,
        NothingSavedWait, FailureFactor} \subseteq Nat \ {0}
    /\ FirstBackoff <= MaxBackoff
    /\ Asap \notin Nat /\ Far \notin Nat /\ Asap # Far
    /\ MaxWraps \in Nat

VARIABLES
    saved,        \* config.wifi.networks in byPriority() order
    radio,        \* what WiFi.status() and WiFi.SSID() report
    connecting,   \* connecting_
    age,          \* now - attemptStartedMs_, up to what exceeds the timeout
    ahead,        \* attemptStartedMs_ is later than the `now' of this pass
    wait,         \* until nextAttemptMs_
    backoff,      \* backoffMs_
    failures,     \* failures_
    index,        \* nextNetworkIndex_
    portal,       \* portalActive_
    ap,           \* the access point is on: WIFI_AP_STA and softAP()
    severed,      \* history: ap was turned off while startPortal() waited
    phase,        \* status().wifi
    pass,         \* where loop() is, with what it has read
    call,         \* the call of another task, and where it is
    wraps         \* wraps of millis() so far

attempt == <<connecting, age, ahead, wait, backoff, failures, index>>
accessPoint == <<portal, ap, severed>>
vars == <<saved, radio, attempt, accessPoint, phase, pass, call, wraps>>

Off == [link |-> "down", ssid |-> None]
NoCall == [op |-> "none", ssid |-> None]
Top == [at |-> "top", read |-> None]
MaxFailures == FailureFactor * MaxNetworks

\* The list without the name it has once at most.
Without(list, ssid) ==
    IF ssid \in ToSet(list)
      THEN RemoveAt(list, CHOOSE i \in DOMAIN list : list[i] = ssid)
      ELSE list
SavedSet == ToSet(saved)
Due == wait \in {0, Asap}

\* begin(), with the screen held during boot or not.
Init ==
    /\ saved \in {s \in SeqOf(Ssids, MaxNetworks) : IsInjective(s)}
    /\ radio = Off
    /\ connecting = FALSE /\ age = 0 /\ ahead = FALSE
    /\ wait = Asap /\ backoff = FirstBackoff /\ failures = 0 /\ index = 0
    /\ \E forcePortal \in BOOLEAN : portal = (saved = << >> \/ forcePortal)
    /\ ap = portal /\ severed = FALSE
    /\ phase = IF portal THEN "Portal" ELSE "Booting"
    /\ pass = Top /\ call = NoCall /\ wraps = 0

(* ------------------------- a pass of the task -------------------------- *)

\* networkTask() takes the time, loop() the status of the radio.
PassBegins ==
    /\ pass = Top
    /\ pass' = [at |-> "status", read |-> radio.link]
    /\ UNCHANGED <<saved, radio, attempt, accessPoint, phase, call, wraps>>

Reads(link) == pass.at = "status" /\ pass.read = link
PassAt(step) == pass' = [at |-> step, read |-> None]
PassEnds == PassAt("top") /\ ahead' = FALSE
KeepsWaiting == UNCHANGED <<saved, radio, age, index, call, wraps>>

\* startPortal() up to its delay: the access point starts, unless portalActive_
\* says that it is there.
RaisePortal ==
    IF portal THEN PassEnds /\ UNCHANGED accessPoint
    ELSE /\ PassAt("raise")
         /\ ap' = TRUE /\ severed' = FALSE
         /\ UNCHANGED <<ahead, portal>>

\* Mutant of PortalStands: the status is not told.
PortalStandsUnannounced ==
    /\ portal' = TRUE /\ connecting' = FALSE
    /\ UNCHANGED <<ap, severed, phase>>

\* startPortal() after its delay: whatever attempt began meanwhile is forgotten.
PortalStands ==
    /\ portal' = TRUE /\ connecting' = FALSE /\ phase' = "Portal"
    /\ UNCHANGED <<ap, severed>>

PassRaisesPortal ==
    /\ pass.at = "raise"
    /\ PortalStands
    /\ PassEnds /\ KeepsWaiting
    /\ UNCHANGED <<wait, backoff, failures>>

\* Mutant of OnConnected: the portal stays up.
OnConnectedPortalStays ==
    /\ Reads("up") /\ connecting
    /\ connecting' = FALSE /\ failures' = 0 /\ backoff' = FirstBackoff
    /\ phase' = "Connected"
    /\ PassEnds /\ KeepsWaiting /\ UNCHANGED <<wait, accessPoint>>

\* onConnected() up to the end of its lock.
OnConnected ==
    /\ Reads("up") /\ connecting
    /\ connecting' = FALSE /\ failures' = 0 /\ backoff' = FirstBackoff
    /\ phase' = "Connected"
    /\ PassAt("lower")
    /\ KeepsWaiting /\ UNCHANGED <<ahead, wait, accessPoint>>

\* onConnected() after the unlock, stopPortal().
PassLowersPortal ==
    /\ pass.at = "lower"
    /\ IF portal
         THEN portal' = FALSE /\ ap' = FALSE /\ severed' = (call.op = "raise")
         ELSE UNCHANGED accessPoint
    /\ PassEnds /\ KeepsWaiting
    /\ UNCHANGED <<connecting, wait, backoff, failures, phase>>

\* nowMs - attemptStartedMs_ > kConnectTimeoutMs, which a start later than
\* nowMs satisfies at once: the difference is unsigned.
TimedOut == ahead \/ age > ConnectTimeout

\* onFailed().  The radio goes on with what it was told to join.
OnFailed ==
    /\ pass.at = "status" /\ pass.read # "up" /\ connecting
    /\ TimedOut \/ pass.read = "refused"
    /\ connecting' = FALSE
    /\ failures' = IF failures < MaxFailures THEN failures + 1 ELSE failures
    /\ wait' = backoff
    /\ backoff' = IF backoff >= MaxBackoff THEN MaxBackoff ELSE 2 * backoff
    /\ phase' = "Failed"
    /\ IF saved # << >> /\ failures' >= FailureFactor * Len(saved)
         THEN RaisePortal
         ELSE PassEnds /\ UNCHANGED accessPoint
    /\ KeepsWaiting

\* The attempt has time left; or the panel is online; or the backoff runs.
NothingToDo ==
    /\ pass.at = "status"
    /\ \/ connecting /\ pass.read \notin {"up", "refused"} /\ ~TimedOut
       \/ ~connecting /\ (pass.read = "up" \/ ~Due)
    /\ PassEnds /\ KeepsWaiting
    /\ UNCHANGED <<connecting, wait, backoff, failures, accessPoint, phase>>

\* Mutant of ChooseNetwork: the cursor does not move on.
ChooseNetworkAlwaysFirst ==
    /\ pass.at = "status" /\ pass.read # "up" /\ ~connecting /\ Due
    /\ saved # << >>
    /\ pass' = [at |-> "chosen", read |-> saved[1]]
    /\ index' = 0
    /\ UNCHANGED <<saved, radio, connecting, age, ahead, wait, backoff,
                   failures, accessPoint, phase, call, wraps>>

\* startConnectAttempt() up to the unlock: the network to try, by turns.
ChooseNetwork ==
    /\ pass.at = "status" /\ pass.read # "up" /\ ~connecting /\ Due
    /\ saved # << >>
    /\ pass' = [at |-> "chosen", read |-> saved[(index % Len(saved)) + 1]]
    /\ index' = (index + 1) % Len(saved)
    /\ UNCHANGED <<saved, radio, connecting, age, ahead, wait, backoff,
                   failures, accessPoint, phase, call, wraps>>

\* startConnectAttempt() after the unlock.
JoinChosen ==
    /\ pass.at = "chosen"
    /\ radio' = [link |-> "joining", ssid |-> pass.read]
    /\ connecting' = TRUE /\ age' = 0
    /\ phase' = "Connecting"
    /\ PassEnds
    /\ UNCHANGED <<saved, wait, backoff, failures, index, accessPoint, call, wraps>>

\* Mutant of NothingSaved: waits for someone to save a network.
NothingSavedNoPortal ==
    /\ pass.at = "status" /\ pass.read # "up" /\ ~connecting /\ Due
    /\ saved = << >>
    /\ wait' = NothingSavedWait
    /\ PassEnds /\ KeepsWaiting
    /\ UNCHANGED <<connecting, backoff, failures, accessPoint, phase>>

\* loop(), startConnectAttempt() with nothing to try.
NothingSaved ==
    /\ pass.at = "status" /\ pass.read # "up" /\ ~connecting /\ Due
    /\ saved = << >>
    /\ wait' = NothingSavedWait
    /\ RaisePortal
    /\ KeepsWaiting /\ UNCHANGED <<connecting, backoff, failures, phase>>

Pass == \/ PassBegins \/ OnConnected \/ PassLowersPortal \/ OnFailed
        \/ NothingToDo \/ ChooseNetwork \/ JoinChosen \/ NothingSaved
        \/ PassRaisesPortal

(* ------------------------ calls of other tasks ------------------------- *)

\* connectTo(): a new choice goes to the front; a full list refuses it.
SaveNetwork(ssid) ==
    /\ call = NoCall
    /\ ssid \in SavedSet \/ Len(saved) < MaxNetworks
    /\ saved' = <<ssid>> \o Without(saved, ssid)
    /\ call' = [op |-> "connect", ssid |-> ssid]
    /\ UNCHANGED <<radio, attempt, accessPoint, phase, pass, wraps>>

\* connectTo() up to connecting_ = true, the old start time still in place.
\* Without a portal it leaves no access point either, also one being raised.
TakeRadio ==
    /\ call.op = "connect"
    /\ radio' = Off
    /\ ap' = (ap /\ portal) /\ severed' = (severed \/ (ap /\ ~portal))
    /\ connecting' = TRUE
    /\ call' = [call EXCEPT !.op = "begin"]
    /\ UNCHANGED <<saved, age, ahead, wait, backoff, failures, index, portal,
                   phase, pass, wraps>>

\* connectTo() from attemptStartedMs_ on.
BeginJoin ==
    /\ call.op = "begin"
    /\ age' = 0
    /\ ahead' \in IF pass = Top THEN {FALSE} ELSE BOOLEAN
    /\ failures' = 0 /\ backoff' = FirstBackoff
    /\ radio' = [link |-> "joining", ssid |-> call.ssid]
    /\ phase' = "Connecting"
    /\ call' = NoCall
    /\ UNCHANGED <<saved, connecting, wait, index, accessPoint, pass, wraps>>

\* forget(), under the lock.
ForgetSaved(ssid) ==
    /\ call = NoCall
    /\ saved' = Without(saved, ssid)
    /\ call' = [op |-> "forget", ssid |-> ssid]
    /\ UNCHANGED <<radio, attempt, accessPoint, phase, pass, wraps>>

\* forget() after the unlock; SSID() names a network only when associated.
ForgetDrops ==
    /\ call.op = "forget"
    /\ IF radio = [link |-> "up", ssid |-> call.ssid]
         THEN radio' = Off /\ connecting' = FALSE /\ wait' = Asap
         ELSE UNCHANGED <<radio, connecting, wait>>
    /\ call' = NoCall
    /\ UNCHANGED <<saved, age, ahead, backoff, failures, index, accessPoint, phase,
                   pass, wraps>>

\* forgetAll(), under the lock.
ForgetAllSaved ==
    /\ call = NoCall
    /\ saved' = << >>
    /\ call' = [op |-> "forgetAll", ssid |-> None]
    /\ UNCHANGED <<radio, attempt, accessPoint, phase, pass, wraps>>

\* forgetAll() after the unlock, up to the delay of startPortal().
ForgetAllDrops ==
    /\ call.op = "forgetAll"
    /\ radio' = Off /\ connecting' = FALSE
    /\ IF portal THEN call' = NoCall /\ UNCHANGED <<ap, severed>>
       ELSE /\ call' = [op |-> "raise", ssid |-> None]
            /\ ap' = TRUE /\ severed' = FALSE
    /\ UNCHANGED <<saved, age, ahead, wait, backoff, failures, index, portal,
                   phase, pass, wraps>>

CallRaisesPortal ==
    /\ call.op = "raise"
    /\ PortalStands
    /\ call' = NoCall
    /\ UNCHANGED <<saved, radio, age, ahead, wait, backoff, failures, index,
                   pass, wraps>>

CallBegins == \/ \E s \in Ssids : SaveNetwork(s) \/ ForgetSaved(s)
              \/ ForgetAllSaved
CallGoesOn == \/ TakeRadio \/ BeginJoin \/ ForgetDrops
              \/ ForgetAllDrops \/ CallRaisesPortal

(* ---------------------- the radio and the clock ------------------------ *)

Outcome(link) ==
    /\ radio' = [radio EXCEPT !.link = link]
    /\ UNCHANGED <<saved, attempt, accessPoint, phase, pass, call, wraps>>

\* A network out of range stays "joining": loop() tells it from one only in its
\* message.
Associate == radio.link = "joining" /\ radio.ssid \in Reachable /\ Outcome("up")
Refuse == radio.link = "joining" /\ Outcome("refused")
Drop == radio.link = "up" /\ Outcome("down")

Tick ==
    /\ age' = IF age <= ConnectTimeout THEN age + 1 ELSE age
    /\ wait' = IF wait \notin {0, Asap, Far} THEN wait - 1 ELSE wait
    /\ UNCHANGED <<saved, radio, connecting, ahead, backoff, failures, index,
                   accessPoint, phase, pass, call, wraps>>

\* millis() wraps: a deadline that has passed is in the far future again.
ClockWraps ==
    /\ wraps < MaxWraps /\ wait = 0
    /\ wait' = Far /\ wraps' = wraps + 1
    /\ UNCHANGED <<saved, radio, connecting, age, ahead, backoff, failures,
                   index, accessPoint, phase, pass, call>>

ClockComesBack ==
    /\ wait = Far
    /\ wait' = 0
    /\ UNCHANGED <<saved, radio, connecting, age, ahead, backoff, failures,
                   index, accessPoint, phase, pass, call, wraps>>

-----------------------------------------------------------------------------

Environment == Associate \/ Refuse \/ Drop \/ Tick \/ ClockWraps \/ ClockComesBack
Next == Pass \/ CallBegins \/ CallGoesOn \/ Environment

\* The scheduler runs the task, a call that began ends, time goes on, and an
\* access point in range that is asked again and again answers at last.
Fairness ==
    /\ WF_vars(Pass) /\ WF_vars(CallGoesOn)
    /\ WF_vars(Tick) /\ WF_vars(ClockComesBack)
    /\ SF_vars(Associate)

Spec == Init /\ [][Next]_vars /\ Fairness

(* ------------------------------ properties ----------------------------- *)

Links == {"down", "joining", "refused", "up"}

\* The variables have their types.
TypeOK ==
    /\ saved \in Seq(Ssids) /\ Len(saved) <= MaxNetworks /\ IsInjective(saved)
    /\ radio \in [link : Links, ssid : Ssids \cup {None}]
    /\ connecting \in BOOLEAN /\ ahead \in BOOLEAN
    /\ portal \in BOOLEAN /\ ap \in BOOLEAN /\ severed \in BOOLEAN
    /\ age \in 0 .. ConnectTimeout + 1
    /\ wait \in (0 .. 2 * MaxBackoff + NothingSavedWait) \cup {Asap, Far}
    /\ backoff \in FirstBackoff .. 2 * MaxBackoff
    /\ failures \in 0 .. MaxFailures
    /\ index \in 0 .. MaxNetworks - 1
    /\ phase \in {"Booting", "Portal", "Connecting", "Connected", "Failed"}
    /\ pass \in [at : {"top", "raise", "lower"}, read : {None}]
               \cup [at : {"status"}, read : Links]
               \cup [at : {"chosen"}, read : Ssids]
    /\ call \in [op : {"none", "forgetAll", "raise"}, ssid : {None}]
               \cup [op : {"connect", "begin", "forget"}, ssid : Ssids]
    /\ wraps \in 0 .. MaxWraps

\* A panel without a saved network, whatever calls raced to make it so, comes
\* to have its access point on, unless someone saves a network or an attempt that
\* was under way ends in an association.  Excepted is the access point that
\* another task turned off in the delay of startPortal(): portalActive_ then says
\* that the portal stands, and nothing raises it again (wifi_manager.cpp:73, 193).
WayIn ==
    (saved = << >>) ~> (ap \/ saved # << >> \/ radio.link = "up" \/ severed)

\* Not so: what portalActive_ says is on is on.
PortalIsOpen == portal => ap

\* With nobody calling, a panel that has a saved network in range keeps coming
\* back to one, whichever others it tries in between.
ReachesSaved ==
    <>[](call = NoCall /\ SavedSet \cap Reachable # {}) => []<>(radio.link = "up")

\* An association that comes while its attempt still runs, with no portal on its
\* way up that would forget the attempt, takes the portal down.
PortalComesDownInTime ==
    (pass = Top /\ call.op # "raise" /\ connecting /\ radio.link = "up") ~>
        (~portal \/ radio.link # "up")

\* What the panel shows catches up with a lost link.
PhaseCatchesUp ==
    (phase = "Connected" /\ radio.link # "up") ~>
        (phase # "Connected" \/ radio.link = "up")

\* With no saved network at all the portal comes up (wifi_manager.h:12).  It does
\* not when a network is forgotten while it is being joined: forget() leaves the
\* attempt alone, and the association takes the portal down for good.
NothingSavedMeansPortal == <>[](saved = << >>) => []<>portal
=============================================================================
