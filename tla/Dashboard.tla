------------------------------ MODULE Dashboard -------------------------------
(***************************************************************************)
(* The panel's screen: which machine's page it shows, the list of machines,*)
(* the finger, the carousel that turns pages on its own and the backlight. *)
(*                                                                         *)
(* tick() runs in the UI task: it takes the time once, reads the touch,    *)
(* repaints if the revision has moved, turns the carousel, sets the        *)
(* backlight, and lets LVGL call the widgets.  The other tasks change the  *)
(* devices between any two of these steps.                                 *)
(*                                                                         *)
(* Stamps are kept as ages, in ticks.  A pass takes at most one tick; a    *)
(* stamp made after it is later than the `now' the pass goes on using, and *)
(* an unsigned difference then wraps.                                      *)
(***************************************************************************)
EXTENDS Integers, Sequences, SequencesExt

CONSTANTS
    Devices,
    None,
    Watched,            \* bound: those whose age matters; the rest stay live
    Points,             \* where a finger can land, [x |->, y |->] in pixels
    Dots,               \* the points over the page indicator
    Durations,          \* how long a touch can last, in ms
    Interval,           \* carousel.intervalSeconds, in ticks
    Idle,               \* carousel.idleResumeSeconds
    ScreenTimeout,      \* display.screenTimeoutSeconds, 0 = never dim
    Wrap,               \* carousel.wrap
    Wrapped             \* what a difference is when it wraps

ASSUME DashboardAssumption ==
    /\ IsFiniteSet(Devices) /\ None \notin Devices /\ Watched \subseteq Devices
    /\ Points \subseteq [x : Nat, y : Nat] /\ Dots \subseteq Points
    /\ Durations \subseteq Nat
    /\ Interval \in Nat /\ Idle \in Nat /\ ScreenTimeout \in Nat
    /\ Wrap \in BOOLEAN
    /\ Wrapped \in Nat
    /\ \A limit \in {Interval, Idle, ScreenTimeout} : Wrapped > limit + 1

VARIABLES
    order,        \* visibleOrder(): the devices that have a page
    pending,      \* discovered, waiting for approval
    live,         \* those in the rotation and not offline at this `now'
    heard,        \* those that delivered after this `now'
    dirty,        \* revision() # g_lastRevision
    screen,       \* lv_scr_act()
    index,        \* g_pageIndex
    shown,        \* the device whose page is painted
    rows,         \* the rows of the device list, as painted
    drawing,      \* render() was called and has yet to take its snapshot
    at,           \* the step of tick()
    late,         \* a tick has passed since `now' was taken
    finger,       \* the gesture detector
    clicked,      \* a release LVGL has yet to act on
    touchAge,     \* of Carousel.lastInteractionMs_
    changeAge,    \* of Carousel.lastChangeMs_
    lightAge,     \* of g_lastInteractionMs
    dimmed,       \* g_dimmed
    lit           \* the level of the backlight

lists == <<order, pending, live, heard>>
painted == <<screen, index, shown, rows, drawing>>
stamps == <<touchAge, changeAge, lightAge>>
light == <<dimmed, lit>>
vars == <<lists, dirty, painted, at, late, finger, clicked, stamps, light>>

Up == [down |-> FALSE, from |-> None, fired |-> FALSE]
NoRows == [active |-> << >>, pending |-> << >>]
Orders == {s \in SeqOf(Devices, Cardinality(Devices)) : IsInjective(s)}
Listed == ToSet(order) \cup ToSet(pending)
Older(age, limit) == IF age < limit + 2 THEN age + 1 ELSE age

\* The device of page i, none when there are no pages.
PageAt(i) == IF order = << >> THEN None ELSE order[i + 1]
InRange(i) == IF i \in 0..Len(order) - 1 THEN i ELSE 0

\* nowMs - stamp, unsigned: later stamps wrap.
Since(age) == IF ~late THEN age ELSE IF age = 0 THEN Wrapped ELSE age - 1

Init ==
    /\ order \in Orders
    /\ pending = << >> /\ live = Devices \ Watched /\ heard = {} /\ dirty = TRUE
    /\ screen = "dashboard" /\ index = 0 /\ shown = PageAt(0)
    /\ rows = NoRows /\ drawing = FALSE
    /\ at = "top" /\ late = FALSE /\ finger = Up /\ clicked = FALSE
    /\ touchAge = Idle + 1 /\ changeAge = Interval + 1 /\ lightAge = 0
    /\ dimmed = FALSE /\ lit = "bright"

(* ------------------------------ gestures ------------------------------- *)

MinSwipeDistance == 45
MaxSwipeMs == 1000
MinSwipeMs == 30
LongPressMs == 600
MaxTapMs == 900

\* readTouch() clears the point before it finds that nothing touches.
Released == [x |-> 0, y |-> 0]

\* GestureDetector::release().
Gesture(from, to, moved, fired, ms) ==
    LET dx == to.x - from.x
        adx == IF dx < 0 THEN -dx ELSE dx
        ady == IF to.y < from.y THEN from.y - to.y ELSE to.y - from.y
        isSwipe == /\ adx >= MinSwipeDistance /\ 10 * ady <= 7 * adx
                   /\ ms \in MinSwipeMs..MaxSwipeMs
    IN CASE fired                    -> "none"
         [] ~fired /\ isSwipe        -> IF dx < 0 THEN "left" ELSE "right"
         [] OTHER -> IF ~moved /\ ms <= MaxTapMs THEN "tap" ELSE "none"

(* ------------------------------- painting ------------------------------ *)

\* render() with snapshotPage(), once the lock is free.
Draw ==
    /\ drawing
    /\ drawing' = FALSE
    /\ index' = IF order = << >> THEN index ELSE InRange(index)
    /\ shown' = PageAt(index')
    /\ UNCHANGED <<lists, dirty, screen, rows, at, late, finger, clicked,
                   stamps, light>>

\* Mutant of ShowDashboard: the page is left as it was painted.
ShowDashboardUnpainted ==
    /\ screen' = "dashboard" /\ rows' = NoRows
    /\ UNCHANGED <<drawing, shown>>

\* showDashboard().
ShowDashboard ==
    /\ screen' = "dashboard" /\ rows' = NoRows
    /\ drawing' = TRUE /\ UNCHANGED shown

\* Another screen covers the page.
Leave(to) == screen' = to /\ shown' = None /\ UNCHANGED <<index, drawing>>

\* showDeviceList(), refreshDeviceListScreen().
ShowDeviceList ==
    Leave("devices") /\ rows' = [active |-> order, pending |-> pending]

\* showSettings().
ShowSettings == Leave("settings") /\ rows' = NoRows

\* Mutant of NoteInteraction: the panel still thinks it is dimmed.
NoteInteractionStillDimmed ==
    /\ touchAge' = 0 /\ lightAge' = 0
    /\ lit' = "bright" /\ UNCHANGED dimmed

\* noteInteraction(): it takes the time anew.
NoteInteraction ==
    /\ touchAge' = 0 /\ lightAge' = 0
    /\ IF dimmed THEN dimmed' = FALSE /\ lit' = "bright" ELSE UNCHANGED light

\* Mutant of ChangePage: the pages are not a ring.
ChangePageUnwrapped(delta) ==
    IF Len(order) <= 1 \/ index + delta >= Len(order)
      THEN UNCHANGED <<index, drawing, changeAge>>
      ELSE index' = index + delta /\ changeAge' = 0 /\ drawing' = TRUE

\* changePage(): the count and the snapshot are under the lock, but not under
\* the same hold of it.
ChangePage(delta) ==
    LET next == CASE index + delta < 0           -> Len(order) - 1
                  [] index + delta >= Len(order) -> 0
                  [] OTHER                       -> index + delta
    IN IF Len(order) <= 1 \/ next = index
         THEN UNCHANGED <<index, drawing, changeAge>>
         ELSE index' = next /\ changeAge' = 0 /\ drawing' = TRUE

(* ------------------------------- the pass ------------------------------ *)

Step(from, to) == ~drawing /\ at = from /\ at' = to
OnDashboard == screen = "dashboard"

PassBegins ==
    /\ Step("top", "touch")
    /\ UNCHANGED <<lists, dirty, painted, late, finger, clicked, stamps, light>>

\* processTouch(), nothing touches.
NoTouch ==
    /\ Step("touch", "refresh") /\ ~finger.down
    /\ UNCHANGED <<lists, dirty, painted, late, finger, clicked, stamps, light>>

\* processTouch(), a finger comes down.
Press(p) ==
    /\ Step("touch", "refresh") /\ ~finger.down
    /\ finger' = [Up EXCEPT !.down = TRUE, !.from = p]
    /\ clicked' = FALSE
    /\ NoteInteraction
    /\ UNCHANGED <<lists, dirty, painted, late, changeAge>>

\* processTouch(), the finger stays: only the backlight takes note.
Hold ==
    /\ Step("touch", "refresh") /\ finger.down
    /\ lightAge' = IF late THEN 1 ELSE 0
    /\ UNCHANGED <<lists, dirty, painted, late, finger, clicked, touchAge, changeAge,
                   light>>

\* processTouch(), a long press on the dots.
LongPress ==
    /\ Step("touch", "refresh") /\ finger.down
    /\ ~finger.fired /\ finger.from \in Dots /\ OnDashboard
    /\ finger' = [finger EXCEPT !.fired = TRUE]
    /\ lightAge' = IF late THEN 1 ELSE 0
    /\ ShowDeviceList
    /\ UNCHANGED <<lists, dirty, late, clicked, touchAge, changeAge, light>>

\* processTouch(), the finger leaves after `ms', having moved beyond the slop or
\* not.  A tap opens a dialog over the page, which changes nothing here.
Release(ms, moved) ==
    /\ Step("touch", "refresh") /\ finger.down
    /\ finger.fired => ms >= LongPressMs
    /\ finger' = Up /\ clicked' = TRUE
    /\ NoteInteraction
    /\ LET gesture == Gesture(finger.from, Released, moved, finger.fired, ms)
       IN CASE OnDashboard /\ gesture = "left"  -> ChangePage(1)
            [] OnDashboard /\ gesture = "right" -> ChangePage(-1)
            [] OTHER -> UNCHANGED <<index, drawing, changeAge>>
    /\ UNCHANGED <<lists, dirty, screen, shown, rows, late>>

\* tick(), the repaint when the revision has moved or after a second.
Refresh ==
    /\ Step("refresh", "carousel")
    /\ dirty' = FALSE
    /\ drawing' = OnDashboard
    /\ rows' = IF screen = "devices"
                 THEN [active |-> order, pending |-> pending] ELSE rows
    /\ UNCHANGED <<lists, screen, index, shown, late, finger, clicked, stamps,
                   light>>

NoRefresh ==
    /\ Step("refresh", "carousel")
    /\ ~dirty
    /\ UNCHANGED <<lists, dirty, painted, late, finger, clicked, stamps, light>>

(* ----------------------------- the carousel ---------------------------- *)

\* With includeOffline off; with it on only the user's flag counts.
Eligible(d) == d \in live

ShouldAdvance == Since(touchAge) >= Idle /\ Since(changeAge) >= Interval

\* Mutant of NextPages: always the first eligible page.
NextPagesFirst ==
    {i \in 0..Len(order) - 1 : /\ Eligible(order[i + 1]) /\ i # index
                               /\ \A j \in 0..i - 1 : ~Eligible(order[j + 1])}

\* Carousel::nextIndex(), as a set that is empty when there is nowhere to go.
NextPages ==
    LET n == Len(order)
        pages == {i \in 0..n - 1 : Eligible(order[i + 1])}
        ahead(i) == IF i > index THEN i - index ELSE i - index + n
        after == CASE index >= n -> pages
                   [] OTHER -> {i \in pages : i > index \/ (Wrap /\ i # index)}
    IN IF index >= n
         THEN {i \in pages : \A j \in pages : i <= j}
         ELSE {i \in after : \A j \in after : ahead(i) <= ahead(j)}

\* applyBacklight(), which follows the carousel.
ApplyBacklight ==
    LET shouldDim == ScreenTimeout > 0 /\ Since(lightAge) > ScreenTimeout
    IN /\ dimmed' = shouldDim
       /\ lit' = CASE shouldDim # dimmed -> IF shouldDim THEN "dim" ELSE "bright"
                   [] ~shouldDim         -> "bright"
                   [] OTHER              -> lit

\* advanceCarousel(): the time or the screen is not right.
CarouselRests ==
    /\ Step("carousel", "lvgl")
    /\ ~OnDashboard \/ ~ShouldAdvance
    /\ ApplyBacklight
    /\ UNCHANGED <<lists, dirty, painted, late, finger, clicked, stamps>>

\* advanceCarousel(): notePageChange() gets the `now' of the pass.
CarouselTurns ==
    /\ Step("carousel", "lvgl")
    /\ OnDashboard /\ ShouldAdvance
    /\ changeAge' = IF late THEN 1 ELSE 0
    /\ IF NextPages = {} THEN UNCHANGED <<index, drawing>>
                         ELSE index' \in NextPages /\ drawing' = TRUE
    /\ ApplyBacklight
    /\ UNCHANGED <<lists, dirty, screen, shown, rows, late, finger, clicked,
                   touchAge, lightAge>>

(* ------------------- widgets, called by lv_timer_handler --------------- *)

\* What was heard in the pass counts from the next one on.
PassEnds ==
    /\ Step("lvgl", "top")
    /\ late' = FALSE /\ live' = live \cup heard /\ heard' = {}
    /\ UNCHANGED <<finger>>

\* Nothing was hit, or LVGL has not looked yet.
LvglIdle ==
    /\ PassEnds
    /\ clicked' \in {clicked, FALSE}
    /\ UNCHANGED <<order, pending, dirty, painted, stamps, light>>

Click == PassEnds /\ clicked /\ clicked' = FALSE /\ NoteInteraction

\* onPrevPage(), onNextPage().
ClickPage(delta) ==
    /\ Click /\ OnDashboard
    /\ ChangePage(delta)
    /\ UNCHANGED <<order, pending, dirty, screen, shown, rows>>

\* onGearClicked(), onBackToSettings().
ClickSettings ==
    /\ Click /\ screen \in {"dashboard", "devices"}
    /\ ShowSettings
    /\ UNCHANGED <<order, pending, dirty, changeAge>>

\* The Devices button of the settings.
ClickDevices ==
    /\ Click /\ screen = "settings"
    /\ ShowDeviceList
    /\ UNCHANGED <<order, pending, dirty, changeAge>>

\* onBackToDashboard().
ClickBack ==
    /\ Click /\ screen = "settings"
    /\ ShowDashboard
    /\ UNCHANGED <<order, pending, dirty, index, changeAge>>

\* onDeviceChosen(): setPageIndex() and showDashboard().
ClickDevice(row) ==
    /\ Click /\ screen = "devices"
    /\ row \in DOMAIN rows.active
    /\ index' = row - 1 /\ changeAge' = 0
    /\ ShowDashboard
    /\ UNCHANGED <<order, pending, dirty>>

\* onApproveDiscovered(): the row's index, whatever stands there now.
ClickPending(row) ==
    /\ Click /\ screen = "devices"
    /\ row \in DOMAIN rows.pending
    /\ IF row \in DOMAIN pending
         THEN /\ order' = Append(RemoveFirst(order, pending[row]), pending[row])
              /\ pending' = RemoveFirst(pending, pending[row])
              /\ dirty' = TRUE
              /\ rows' = [active |-> order', pending |-> pending']
         ELSE UNCHANGED <<order, pending, dirty, rows>>
    /\ UNCHANGED <<screen, index, shown, drawing, changeAge>>

Touch == \/ NoTouch \/ \E p \in Points : Press(p)
         \/ Hold \/ LongPress
         \/ \E ms \in Durations, moved \in BOOLEAN : Release(ms, moved)
Widgets == \/ LvglIdle \/ \E delta \in {-1, 1} : ClickPage(delta)
           \/ ClickSettings \/ ClickDevices \/ ClickBack
           \/ \E row \in DOMAIN rows.active : ClickDevice(row)
           \/ \E row \in DOMAIN rows.pending : ClickPending(row)
UiTask == \/ Draw \/ PassBegins \/ Touch \/ Refresh \/ NoRefresh
          \/ CarouselRests \/ CarouselTurns \/ Widgets

(* ------------------------ other tasks, the clock ----------------------- *)

Others == UNCHANGED <<painted, at, late, finger, clicked, stamps, light>>
Touched == dirty' = TRUE /\ Others

\* A device gets a page: added, approved over the web, shown again.
AddPage(d) ==
    /\ d \notin ToSet(order)
    /\ order' = Append(order, d) /\ pending' = RemoveFirst(pending, d)
    /\ Touched /\ UNCHANGED <<live, heard>>

\* Deleted or hidden.
DropPage(d) ==
    /\ d \in ToSet(order)
    /\ order' = RemoveFirst(order, d)
    /\ Touched /\ UNCHANGED <<pending, live, heard>>

Reorder ==
    /\ order' \in {s \in SeqOf(Devices, Len(order)) : ToSet(s) = ToSet(order)}
    /\ order' # order
    /\ Touched /\ UNCHANGED <<pending, live, heard>>

Discover(d) ==
    /\ d \notin Listed
    /\ pending' = Append(pending, d)
    /\ Touched /\ UNCHANGED <<order, live, heard>>

\* A sample taken after `now' makes the age wrap for the rest of the pass.
Sample(d) ==
    /\ IF late THEN live' = live \ {d} /\ heard' = heard \cup {d}
               ELSE live' = live \cup {d} /\ UNCHANGED heard
    /\ Touched /\ UNCHANGED <<order, pending>>

\* Too old, or announced offline.
GoesOffline(d) ==
    /\ d \in live
    /\ live' = live \ {d}
    /\ dirty' \in {dirty, TRUE} /\ Others /\ UNCHANGED <<order, pending, heard>>

OtherTasks == \/ \E d \in Devices : AddPage(d) \/ DropPage(d) \/ Discover(d)
              \/ \E d \in Watched : Sample(d) \/ GoesOffline(d)
              \/ Reorder

Tick ==
    /\ ~late
    /\ late' = (at # "top")
    /\ touchAge' = Older(touchAge, Idle - 1)
    /\ changeAge' = Older(changeAge, Interval - 1)
    /\ lightAge' = Older(lightAge, ScreenTimeout)
    /\ UNCHANGED <<lists, dirty, painted, at, finger, clicked, light>>

Next == UiTask \/ OtherTasks \/ Tick

\* loop() calls tick() for ever; time goes on.
Spec == Init /\ [][Next]_vars /\ WF_vars(UiTask) /\ WF_vars(Tick)

(* ------------------------------ properties ----------------------------- *)

\* The variables have their types.
TypeOK ==
    /\ {order, pending} \subseteq Seq(Devices)
    /\ IsInjective(order) /\ IsInjective(pending)
    /\ live \subseteq Devices /\ heard \subseteq Devices
    /\ (late \/ heard = {})
    /\ screen \in {"dashboard", "devices", "settings"}
    /\ index \in Nat /\ shown \in Devices \cup {None}
    /\ rows.active \in Seq(Devices) /\ rows.pending \in Seq(Devices)
    /\ at \in {"top", "touch", "refresh", "carousel", "lvgl"}
    /\ finger.from \in Points \cup {None}
    /\ {dirty, drawing, late, finger.down, finger.fired, clicked, dimmed} \subseteq BOOLEAN
    /\ touchAge \in 0..Idle + 1 /\ changeAge \in 0..Interval + 1
    /\ lightAge \in 0..ScreenTimeout + 2
    /\ lit \in {"bright", "dim"}

\* As long as the revision has not moved, what is painted is what is there: the
\* page is that of the device its index names, and each row of the list names
\* the device that a tap on it takes.
PaintedIsCurrent ==
    (~dirty /\ ~drawing) =>
        /\ screen = "dashboard" => shown = PageAt(InRange(index))
        /\ screen = "devices" => rows = [active |-> order, pending |-> pending]

\* With nobody touching, the carousel keeps coming back to the page of every
\* machine that stays in its rotation, wherever the list has left the index.
EveryPageComesRound ==
    \A d \in Devices, o \in Orders :
        d \in ToSet(o) =>
            (<>[](order = o /\ d \in live /\ screen = "dashboard" /\ ~finger.down /\ ~clicked)
                => []<>(shown = d))

\* A panel that is left alone ends up dark and stays dark.
LeftAloneGoesDark ==
    <>[](~finger.down /\ ~clicked) => <>[](ScreenTimeout > 0 => lit = "dim")

\* README.md:268: a touch that did not move turns no page.
TapKeepsPage ==
    [][\A ms \in Durations : Release(ms, FALSE) => index' = index]_vars
=============================================================================
