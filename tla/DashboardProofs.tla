--------------------------- MODULE DashboardProofs ----------------------------
(***************************************************************************)
(* What is painted is what is there, for any number of machines, any       *)
(* carousel and any touch.                                                 *)
(***************************************************************************)
EXTENDS Dashboard, FiniteSetTheorems, SequenceTheorems, TLAPS

\* Only the page of a device is drawn after the fact: whoever asks for it has
\* the dashboard on the screen, and no widget is called before it is drawn.
DrawsTheDashboard == drawing => OnDashboard

\* The inductive invariant: render() repaints neither the list nor another
\* screen, so a page that waits to be drawn must not excuse a stale list.
Painted == PaintedIsCurrent /\ DrawsTheDashboard

\* Everything PaintedIsCurrent speaks of.
canvas == <<order, pending, dirty, painted>>

\* Init: the first revision is still to be painted.
LEMMA InitPainted == Init => Painted
BY DEF Init, Painted, PaintedIsCurrent, DrawsTheDashboard, OnDashboard

\* A step that leaves the canvas alone.
LEMMA CanvasKept == Painted /\ UNCHANGED canvas => Painted'
BY DEF Painted, PaintedIsCurrent, DrawsTheDashboard, OnDashboard, canvas, painted,
       PageAt, InRange

\* A page asked for on the dashboard is still to be drawn.
LEMMA PageAskedFor == drawing' /\ screen' = "dashboard" => Painted'
BY DEF Painted, PaintedIsCurrent, DrawsTheDashboard, OnDashboard

\* changePage() leaves the page as it is or asks for another one.
LEMMA PageChanged ==
    ASSUME NEW delta, ChangePage(delta), Painted, OnDashboard,
           UNCHANGED <<order, pending, dirty, screen, shown, rows>>
    PROVE  Painted'
<1>1. CASE UNCHANGED <<index, drawing>>
  BY <1>1, CanvasKept DEF canvas, painted
<1>2. CASE drawing' = TRUE
  BY <1>2, PageAskedFor DEF OnDashboard
<1>3. UNCHANGED <<index, drawing>> \/ drawing' = TRUE
  BY DEF ChangePage
<1> QED  BY <1>1, <1>2, <1>3

\* render() brings the index back among the pages and paints that page.
LEMMA DrawStep == Painted /\ Draw => Painted'
<1> SUFFICES ASSUME Painted, Draw  PROVE Painted'
  OBVIOUS
<1>1. /\ screen = "dashboard" /\ screen' = screen /\ drawing' = FALSE
      /\ order' = order
  BY DEF Painted, DrawsTheDashboard, OnDashboard, Draw, lists
<1>2. shown' = PageAt(InRange(index))'
  <2>1. CASE order = << >>
    BY <2>1, <1>1 DEF Draw, PageAt
  <2>2. CASE order # << >>
    <3>1. index' = InRange(index)
      BY <2>2 DEF Draw
    <3>2. InRange(InRange(index)) = InRange(index)
      BY DEF InRange
    <3>3. InRange(index)' = index'
      BY <3>1, <3>2, <1>1 DEF InRange
    <3> QED  BY <3>3, <1>1 DEF Draw, PageAt
  <2> QED  BY <2>1, <2>2
<1> QED  BY <1>1, <1>2 DEF Painted, PaintedIsCurrent, DrawsTheDashboard, OnDashboard

\* The list or the settings cover the page.
LEMMA ScreenCovered ==
    ASSUME ShowDeviceList \/ ShowSettings, ~drawing,
           UNCHANGED <<order, pending>>
    PROVE  Painted'
BY DEF ShowDeviceList, ShowSettings, Leave, Painted, PaintedIsCurrent,
       DrawsTheDashboard, OnDashboard

\* processTouch().
LEMMA TouchStep == Painted /\ Touch => Painted'
<1> SUFFICES ASSUME Painted, Touch  PROVE Painted'
  OBVIOUS
<1>1. CASE NoTouch
  BY <1>1, CanvasKept DEF NoTouch, canvas, lists
<1>2. ASSUME NEW p \in Points, Press(p)  PROVE Painted'
  BY <1>2, CanvasKept DEF Press, canvas, lists
<1>3. CASE Hold
  BY <1>3, CanvasKept DEF Hold, canvas, lists
<1>4. CASE LongPress
  BY <1>4, ScreenCovered DEF LongPress, Step, lists
<1>5. ASSUME NEW ms \in Durations, NEW moved \in BOOLEAN, Release(ms, moved)
      PROVE  Painted'
  <2>1. UNCHANGED <<order, pending, dirty, screen, shown, rows>>
    BY <1>5 DEF Release, lists
  <2>2. \/ OnDashboard /\ ChangePage(1)
        \/ OnDashboard /\ ChangePage(-1)
        \/ UNCHANGED <<index, drawing>>
    BY <1>5 DEF Release
  <2>3. CASE UNCHANGED <<index, drawing>>
    BY <2>1, <2>3, CanvasKept DEF canvas, painted
  <2> QED  BY <2>1, <2>2, <2>3, PageChanged
<1> QED  BY <1>1, <1>2, <1>3, <1>4, <1>5 DEF Touch

\* The widgets that lv_timer_handler() calls.
LEMMA WidgetStep == Painted /\ Widgets => Painted'
<1> SUFFICES ASSUME Painted, Widgets  PROVE Painted'
  OBVIOUS
<1>0. Click => ~drawing
  BY DEF Click, PassEnds, Step
<1>1. CASE LvglIdle
  BY <1>1, CanvasKept DEF LvglIdle, canvas
<1>2. ASSUME NEW delta \in {-1, 1}, ClickPage(delta)  PROVE Painted'
  BY <1>2, PageChanged DEF ClickPage
<1>3. CASE ClickSettings
  BY <1>3, <1>0, ScreenCovered DEF ClickSettings
<1>4. CASE ClickDevices
  BY <1>4, <1>0, ScreenCovered DEF ClickDevices
<1>5. CASE ClickBack
  BY <1>5, PageAskedFor DEF ClickBack, ShowDashboard
<1>6. ASSUME NEW row \in DOMAIN rows.active, ClickDevice(row)  PROVE Painted'
  BY <1>6, PageAskedFor DEF ClickDevice, ShowDashboard
<1>7. ASSUME NEW row \in DOMAIN rows.pending, ClickPending(row)  PROVE Painted'
  <2>1. CASE row \in DOMAIN pending
    BY <1>7, <2>1, <1>0
    DEF ClickPending, Painted, PaintedIsCurrent, DrawsTheDashboard, OnDashboard
  <2>2. CASE row \notin DOMAIN pending
    BY <1>7, <2>2, CanvasKept DEF ClickPending, canvas, painted
  <2> QED  BY <2>1, <2>2
<1> QED  BY <1>1, <1>2, <1>3, <1>4, <1>5, <1>6, <1>7 DEF Widgets

\* The other tasks: a change of the lists moves the revision.
LEMMA OthersStep == Painted /\ OtherTasks => Painted'
<1> SUFFICES ASSUME Painted, OtherTasks  PROVE Painted'
  OBVIOUS
<1>1. CASE Touched
  BY <1>1 DEF Touched, Others, painted, Painted, PaintedIsCurrent,
              DrawsTheDashboard, OnDashboard
<1>2. ASSUME NEW d \in Watched, GoesOffline(d)  PROVE Painted'
  <2>1. UNCHANGED <<order, pending, painted>> /\ dirty' \in {dirty, TRUE}
    BY <1>2 DEF GoesOffline, Others
  <2>2. CASE dirty' = dirty
    BY <2>1, <2>2, CanvasKept DEF canvas
  <2>3. CASE dirty' = TRUE
    BY <2>1, <2>3 DEF painted, Painted, PaintedIsCurrent, DrawsTheDashboard, OnDashboard
  <2> QED  BY <2>1, <2>2, <2>3
<1> QED
  BY <1>1, <1>2 DEF OtherTasks, AddPage, DropPage, Discover, Sample, Reorder

\* Every step.
LEMMA NextPainted == Painted /\ [Next]_vars => Painted'
<1> SUFFICES ASSUME Painted, [Next]_vars  PROVE Painted'
  OBVIOUS
<1>1. CASE Draw  BY <1>1, DrawStep
<1>2. CASE PassBegins
  BY <1>2, CanvasKept DEF PassBegins, canvas, lists
<1>3. CASE Touch  BY <1>3, TouchStep
<1>4. CASE Refresh
  BY <1>4 DEF Refresh, Step, lists, Painted, PaintedIsCurrent, DrawsTheDashboard,
              OnDashboard
<1>5. CASE NoRefresh
  BY <1>5, CanvasKept DEF NoRefresh, canvas, lists
<1>6. CASE CarouselRests
  BY <1>6, CanvasKept DEF CarouselRests, canvas, lists
<1>7. CASE CarouselTurns
  <2>1. UNCHANGED <<order, pending, dirty, screen, shown, rows>> /\ OnDashboard
    BY <1>7 DEF CarouselTurns, lists
  <2>2. UNCHANGED <<index, drawing>> \/ drawing' = TRUE
    BY <1>7 DEF CarouselTurns
  <2>3. CASE UNCHANGED <<index, drawing>>
    BY <2>1, <2>3, CanvasKept DEF canvas, painted
  <2>4. CASE drawing' = TRUE
    BY <2>1, <2>4, PageAskedFor DEF OnDashboard
  <2> QED  BY <2>2, <2>3, <2>4
<1>8. CASE Widgets  BY <1>8, WidgetStep
<1>9. CASE OtherTasks  BY <1>9, OthersStep
<1>10. CASE Tick
  BY <1>10, CanvasKept DEF Tick, canvas, lists
<1>11. CASE UNCHANGED vars
  BY <1>11, CanvasKept DEF vars, canvas, lists
<1> QED
  BY <1>1, <1>2, <1>3, <1>4, <1>5, <1>6, <1>7, <1>8, <1>9, <1>10, <1>11
  DEF Next, UiTask

\* As long as the revision has not moved, the page is that of the device its
\* index names and each row of the list names the device a tap takes.
THEOREM ScreenIsCurrent == Spec => []PaintedIsCurrent
<1>1. Painted => PaintedIsCurrent
  BY DEF Painted
<1> QED  BY <1>1, InitPainted, NextPainted, PTL DEF Spec

(* -------------------------------- types -------------------------------- *)

\* A value without the element that is removed.
LEMMA RemoveFirstFacts ==
    ASSUME NEW S, NEW s \in Seq(S), IsInjective(s), NEW e
    PROVE  /\ RemoveFirst(s, e) \in Seq(S)
           /\ IsInjective(RemoveFirst(s, e))
           /\ \A k \in DOMAIN RemoveFirst(s, e) : RemoveFirst(s, e)[k] # e
<1> DEFINE N == Len(s)
<1>1. N \in Nat /\ DOMAIN s = 1 .. N /\ \A k \in 1 .. N : s[k] \in S
  BY LenProperties, ElementOfSeq
<1>2. CASE ~\E i \in 1 .. N : s[i] = e
  BY <1>1, <1>2 DEF RemoveFirst
<1>3. ASSUME NEW i \in 1 .. N, s[i] = e
      PROVE  /\ RemoveFirst(s, e) \in Seq(S)
             /\ IsInjective(RemoveFirst(s, e))
             /\ \A k \in DOMAIN RemoveFirst(s, e) : RemoveFirst(s, e)[k] # e
  <2> DEFINE I == {k \in 1 .. N : s[k] = e}
             a == SubSeq(s, 1, i - 1)
             b == SubSeq(s, i + 1, N)
             r == a \o b
             g(k) == IF k < i THEN k ELSE k + 1
  <2>1. I = {i}
    BY <1>1, <1>3 DEF IsInjective
  <2>2. SelectInSeq(s, LAMBDA v : v = e) = i
    <3>1. SelectInSeq(s, LAMBDA v : v = e) = Min(I)
      BY <2>1 DEF SelectInSeq
    <3>2. Min({i}) = i
      BY <1>1 DEF Min
    <3> QED
      BY <2>1, <3>1, <3>2
  <2>3. RemoveFirst(s, e) = r
    BY <1>3, <2>2 DEF RemoveFirst, RemoveAt
  <2>4. /\ a \in Seq(S) /\ Len(a) = i - 1
        /\ \A k \in 1 .. i - 1 : a[k] = s[k]
    <3>1. i - 1 \in Int /\ \A k \in 1 .. i - 1 : s[k] \in S
      BY <1>1
    <3> QED
      BY <1>1, <3>1, SubSeqProperties
  <2>5. /\ b \in Seq(S) /\ Len(b) = N - i
        /\ \A k \in 1 .. N - i : b[k] = s[k + i]
    <3> HIDE DEF N
    <3>1. i + 1 \in Int /\ N \in Int /\ \A k \in i + 1 .. N : s[k] \in S
      BY <1>1
    <3>2. /\ b \in Seq(S)
          /\ Len(b) = IF i + 1 <= N THEN N - (i + 1) + 1 ELSE 0
          /\ \A k \in 1 .. N - (i + 1) + 1 : b[k] = s[i + 1 + k - 1]
      BY <3>1, SubSeqProperties
    <3>3. N - (i + 1) + 1 = N - i /\ \A k \in 1 .. N - i : i + 1 + k - 1 = k + i
      BY <1>1
    <3> HIDE DEF b
    <3>4. Len(b) = N - i
      BY <1>1, <3>2
    <3> QED
      BY <3>2, <3>3, <3>4
  <2> HIDE DEF a, b, N
  <2>6. /\ r \in Seq(S) /\ Len(r) = N - 1
        /\ \A k \in 1 .. N - 1 : r[k] = IF k < i THEN a[k] ELSE b[k - (i - 1)]
    <3>1. /\ a \o b \in Seq(S) /\ Len(a \o b) = Len(a) + Len(b)
          /\ \A k \in 1 .. Len(a) + Len(b) :
                (a \o b)[k] = IF k <= Len(a) THEN a[k] ELSE b[k - Len(a)]
      BY <2>4, <2>5, ConcatProperties
    <3> HIDE DEF r
    <3>2. /\ r \in Seq(S) /\ Len(r) = Len(a) + Len(b)
          /\ \A k \in 1 .. Len(a) + Len(b) :
                r[k] = IF k <= Len(a) THEN a[k] ELSE b[k - Len(a)]
      BY <3>1 DEF r
    <3>3. Len(a) + Len(b) = N - 1
      BY <1>1, <2>4, <2>5
    <3>4. \A k \in 1 .. N - 1 : k <= Len(a) <=> k < i
      BY <1>1, <2>4
    <3> QED
      BY <2>4, <3>2, <3>3, <3>4
  <2> HIDE DEF r
  <2>7. \A k \in 1 .. N - 1 : r[k] = s[g(k)]
    <3> SUFFICES ASSUME NEW k \in 1 .. N - 1  PROVE r[k] = s[g(k)]
      OBVIOUS
    <3>1. CASE k < i
      BY <1>1, <2>4, <2>6, <3>1
    <3>2. CASE ~(k < i)
      <4>1. k - (i - 1) \in 1 .. N - i /\ (k - (i - 1)) + i = k + 1
        BY <1>1, <3>2
      <4> QED
        BY <2>5, <2>6, <3>2, <4>1
    <3> QED
      BY <3>1, <3>2
  <2>8. DOMAIN r = 1 .. N - 1
    BY <2>6, LenProperties
  <2>9. \A k \in 1 .. N - 1 : g(k) \in 1 .. N /\ g(k) # i
    BY <1>1
  <2>10. \A j, k \in 1 .. N - 1 : g(j) = g(k) => j = k
    BY <1>1
  <2> HIDE DEF g
  <2>11. IsInjective(r)
    BY <1>1, <2>7, <2>8, <2>9, <2>10 DEF IsInjective
  <2>12. \A k \in DOMAIN r : r[k] # e
    BY <1>1, <1>3, <2>7, <2>8, <2>9 DEF IsInjective
  <2> QED
    BY <2>3, <2>6, <2>11, <2>12
<1> QED
  BY <1>2, <1>3

\* One more element, which is new.
LEMMA AppendNew ==
    ASSUME NEW S, NEW s \in Seq(S), IsInjective(s), NEW e \in S,
           \A k \in DOMAIN s : s[k] # e
    PROVE  Append(s, e) \in Seq(S) /\ IsInjective(Append(s, e))
<1>1. Len(s) \in Nat /\ DOMAIN s = 1 .. Len(s)
  BY LenProperties
<1>2. /\ Append(s, e) \in Seq(S) /\ Len(Append(s, e)) = Len(s) + 1
      /\ \A i \in 1 .. Len(s) : Append(s, e)[i] = s[i]
      /\ Append(s, e)[Len(s) + 1] = e
  BY AppendProperties
<1>3. DOMAIN Append(s, e) = 1 .. Len(s) + 1
  BY <1>2, LenProperties
<1>4. \A i \in 1 .. Len(s) + 1 : i \in 1 .. Len(s) \/ i = Len(s) + 1
  BY <1>1
<1> QED
  BY <1>1, <1>2, <1>3, <1>4 DEF IsInjective

\* How many numbers 1 .. n has.
LEMMA Counted ==
    ASSUME NEW n \in Nat
    PROVE  IsFiniteSet(1 .. n) /\ Cardinality(1 .. n) = n
<1>1. 1 \in Int /\ n \in Int
  OBVIOUS
<1>2. IsFiniteSet(1 .. n) /\ Cardinality(1 .. n) = IF 1 > n THEN 0 ELSE n - 1 + 1
  BY <1>1, FS_Interval
<1> QED
  BY <1>2

\* A sequence with the elements of another and no longer than it repeats none,
\* when the other repeats none.
LEMMA ReorderInjective ==
    ASSUME NEW S, NEW s \in Seq(S), IsInjective(s),
           NEW t \in SeqOf(S, Len(s)), ToSet(t) = ToSet(s)
    PROVE  t \in Seq(S) /\ IsInjective(t)
<1>1. Len(s) \in Nat /\ DOMAIN s = 1 .. Len(s)
  BY LenProperties
<1>2. PICK m \in 0 .. Len(s) : t \in [1 .. m -> S]
  BY DEF SeqOf
<1>3. m \in Nat /\ DOMAIN t = 1 .. m
  BY <1>1, <1>2
<1>4. t \in Seq(S)
  BY <1>2, <1>3, SeqDef
<1> DEFINE R == ToSet(s)
<1>5. IsFiniteSet(1 .. m) /\ Cardinality(1 .. m) = m
  BY <1>3, Counted
<1>6. IsFiniteSet(1 .. Len(s)) /\ Cardinality(1 .. Len(s)) = Len(s)
  BY <1>1, Counted
<1>7. t \in Surjection(1 .. m, R)
  <2>1. R = {t[k] : k \in 1 .. m}
    BY <1>3 DEF ToSet
  <2> HIDE DEF R
  <2>2. t \in [1 .. m -> R]
    BY <1>2, <2>1
  <2> QED
    BY <2>1, <2>2 DEF Surjection
<1>8. s \in Surjection(1 .. Len(s), R) /\ s \in Injection(1 .. Len(s), R)
  <2>1. R = {s[k] : k \in 1 .. Len(s)}
    BY <1>1 DEF ToSet
  <2> HIDE DEF R
  <2>2. s \in [1 .. Len(s) -> R]
    <3>1. s \in [1 .. Len(s) -> S]
      BY LenProperties
    <3> QED
      BY <2>1, <3>1
  <2> QED
    BY <1>1, <2>1, <2>2 DEF Surjection, Injection, IsInjective
<1> HIDE DEF R
<1>9. IsFiniteSet(R) /\ Cardinality(R) = Len(s)
  BY <1>6, <1>8, FS_Surjection
<1>10. Cardinality(R) <= m /\ (Cardinality(R) = m => t \in Injection(1 .. m, R))
  BY <1>5, <1>7, FS_Surjection
<1>11. t \in Injection(1 .. m, R)
  <2>1. m <= Len(s) /\ Len(s) <= m
    BY <1>2, <1>9, <1>10
  <2>2. Len(s) = m
    <3>1. Len(s) \in Nat /\ m \in Nat
      BY <1>1, <1>3
    <3> QED
      BY <2>1, <3>1
  <2> QED
    BY <1>9, <1>10, <2>2
<1> QED
  BY <1>3, <1>4, <1>11 DEF Injection, IsInjective

\* TypeOK by what it is about, with the finger as the record it is.
ListsTyped ==
    /\ order \in Seq(Devices) /\ IsInjective(order)
    /\ pending \in Seq(Devices) /\ IsInjective(pending)
DevicesTyped ==
    live \subseteq Devices /\ heard \subseteq Devices /\ (late \/ heard = {})
CanvasTyped ==
    /\ screen \in {"dashboard", "devices", "settings"}
    /\ index \in Nat /\ shown \in Devices \cup {None}
RowsTyped == rows.active \in Seq(Devices) /\ rows.pending \in Seq(Devices)
FingerTyped ==
    finger \in [down : BOOLEAN, from : Points \cup {None}, fired : BOOLEAN]
FlagsTyped ==
    /\ dirty \in BOOLEAN /\ drawing \in BOOLEAN /\ late \in BOOLEAN
    /\ clicked \in BOOLEAN /\ dimmed \in BOOLEAN /\ lit \in {"bright", "dim"}
    /\ at \in {"top", "touch", "refresh", "carousel", "lvgl"}
AgesTyped ==
    /\ touchAge \in 0 .. Idle + 1 /\ changeAge \in 0 .. Interval + 1
    /\ lightAge \in 0 .. ScreenTimeout + 2

Typed == /\ ListsTyped /\ DevicesTyped /\ CanvasTyped /\ RowsTyped
         /\ FingerTyped /\ FlagsTyped /\ AgesTyped

\* The conjuncts of TypeOK.
LEMMA TypedImplies == Typed => TypeOK
<1> SUFFICES ASSUME Typed  PROVE TypeOK
  OBVIOUS
<1>1. {order, pending} \subseteq Seq(Devices)
  BY DEF Typed, ListsTyped
<1>2. /\ IsInjective(order) /\ IsInjective(pending)
      /\ live \subseteq Devices /\ heard \subseteq Devices /\ (late \/ heard = {})
      /\ screen \in {"dashboard", "devices", "settings"}
      /\ index \in Nat /\ shown \in Devices \cup {None}
      /\ rows.active \in Seq(Devices) /\ rows.pending \in Seq(Devices)
  BY DEF Typed, ListsTyped, DevicesTyped, CanvasTyped, RowsTyped
<1>3. /\ finger.from \in Points \cup {None}
      /\ finger.down \in BOOLEAN /\ finger.fired \in BOOLEAN
  BY DEF Typed, FingerTyped
<1>4. {dirty, drawing, late, finger.down, finger.fired, clicked, dimmed} \subseteq BOOLEAN
  BY <1>3 DEF Typed, FlagsTyped
<1>5. /\ at \in {"top", "touch", "refresh", "carousel", "lvgl"}
      /\ lit \in {"bright", "dim"}
  BY DEF Typed, FlagsTyped
<1>6. /\ touchAge \in 0 .. Idle + 1 /\ changeAge \in 0 .. Interval + 1
      /\ lightAge \in 0 .. ScreenTimeout + 2
  BY DEF Typed, AgesTyped
<1> QED
  BY <1>1, <1>2, <1>3, <1>4, <1>5, <1>6 DEF TypeOK

\* The panel as it comes up.
LEMMA InitTyped == Init => Typed
<1> SUFFICES ASSUME Init  PROVE Typed
  OBVIOUS
<1>1. order \in Seq(Devices) /\ IsInjective(order)
  <2>1. /\ IsInjective(order)
        /\ \E m \in 0 .. Cardinality(Devices) : order \in [1 .. m -> Devices]
    BY DEF Init, Orders, SeqOf
  <2>2. Cardinality(Devices) \in Nat
    BY DashboardAssumption, FS_CardinalityType
  <2>3. \E m \in Nat : order \in [1 .. m -> Devices]
    BY <2>1, <2>2
  <2> QED
    BY <2>1, <2>3, SeqDef
<1>2. pending \in Seq(Devices) /\ IsInjective(pending)
  <2>1. pending = << >> /\ Len(pending) = 0 /\ pending \in Seq(Devices)
    BY EmptySeq DEF Init
  <2>2. DOMAIN pending = 1 .. 0
    BY <2>1, LenProperties
  <2> QED
    BY <2>1, <2>2 DEF IsInjective
<1>3. shown \in Devices \cup {None}
  <2>1. CASE order = << >>
    BY <2>1 DEF Init, PageAt
  <2>2. CASE order # << >>
    <3>1. Len(order) \in Nat \ {0}
      BY <1>1, <2>2, EmptySeq
    <3>2. order[1] \in Devices
      BY <1>1, <3>1, ElementOfSeq
    <3> QED
      BY <2>2, <3>2 DEF Init, PageAt
  <2> QED
    BY <2>1, <2>2
<1>4. rows.active \in Seq(Devices) /\ rows.pending \in Seq(Devices)
  <2>1. rows.active = << >> /\ rows.pending = << >>
    BY DEF Init, NoRows
  <2> QED
    BY <2>1, EmptySeq
<1>5. FingerTyped
  BY DEF Init, Up, FingerTyped
<1>6. FlagsTyped
  BY DEF Init, FlagsTyped
<1>7. AgesTyped
  BY DashboardAssumption DEF Init, AgesTyped
<1>8. DevicesTyped
  BY DEF Init, DevicesTyped
<1>9. CanvasTyped
  BY <1>3 DEF Init, CanvasTyped
<1> QED
  BY <1>1, <1>2, <1>4, <1>5, <1>6, <1>7, <1>8, <1>9 DEF Typed, ListsTyped, RowsTyped

\* No step brings a device into a list twice.
LEMMA ListsStep == ListsTyped /\ [Next]_vars => ListsTyped'
<1> SUFFICES ASSUME ListsTyped, [Next]_vars  PROVE ListsTyped'
  OBVIOUS
<1>1. CASE UNCHANGED <<order, pending>>
  BY <1>1 DEF ListsTyped
<1>2. ASSUME NEW row \in DOMAIN rows.pending, ClickPending(row), row \in DOMAIN pending
      PROVE  ListsTyped'
  <2> DEFINE d == pending[row]
  <2>1. d \in Devices
    BY <1>2, LenProperties, ElementOfSeq DEF ListsTyped
  <2>2. /\ order' = Append(RemoveFirst(order, d), d)
        /\ pending' = RemoveFirst(pending, d)
    BY <1>2 DEF ClickPending
  <2> HIDE DEF d
  <2>3. /\ RemoveFirst(order, d) \in Seq(Devices) /\ IsInjective(RemoveFirst(order, d))
        /\ \A k \in DOMAIN RemoveFirst(order, d) : RemoveFirst(order, d)[k] # d
        /\ RemoveFirst(pending, d) \in Seq(Devices) /\ IsInjective(RemoveFirst(pending, d))
    BY RemoveFirstFacts DEF ListsTyped
  <2>4. order' \in Seq(Devices) /\ IsInjective(order')
    BY <2>1, <2>2, <2>3, AppendNew
  <2> QED
    BY <2>2, <2>3, <2>4 DEF ListsTyped
<1>3. ASSUME NEW d \in Devices, AddPage(d)
      PROVE  ListsTyped'
  <2>1. \A k \in DOMAIN order : order[k] # d
    BY <1>3 DEF AddPage, ToSet
  <2>2. Append(order, d) \in Seq(Devices) /\ IsInjective(Append(order, d))
    BY <2>1, AppendNew DEF ListsTyped
  <2>3. RemoveFirst(pending, d) \in Seq(Devices) /\ IsInjective(RemoveFirst(pending, d))
    BY RemoveFirstFacts DEF ListsTyped
  <2> QED
    BY <1>3, <2>2, <2>3 DEF AddPage, ListsTyped
<1>4. ASSUME NEW d \in Devices, DropPage(d)
      PROVE  ListsTyped'
  <2>1. RemoveFirst(order, d) \in Seq(Devices) /\ IsInjective(RemoveFirst(order, d))
    BY RemoveFirstFacts DEF ListsTyped
  <2> QED
    BY <1>4, <2>1 DEF DropPage, ListsTyped
<1>5. ASSUME NEW d \in Devices, Discover(d)
      PROVE  ListsTyped'
  <2>1. \A k \in DOMAIN pending : pending[k] # d
    BY <1>5 DEF Discover, Listed, ToSet
  <2>2. Append(pending, d) \in Seq(Devices) /\ IsInjective(Append(pending, d))
    BY <2>1, AppendNew DEF ListsTyped
  <2> QED
    BY <1>5, <2>2 DEF Discover, ListsTyped
<1>6. CASE Reorder
  <2>1. /\ order' \in SeqOf(Devices, Len(order)) /\ ToSet(order') = ToSet(order)
        /\ pending' = pending
    BY <1>6 DEF Reorder
  <2>2. order' \in Seq(Devices) /\ IsInjective(order')
    BY <2>1, ReorderInjective DEF ListsTyped
  <2> QED
    BY <2>1, <2>2 DEF ListsTyped
<1>7. CASE UNCHANGED vars
  BY <1>1, <1>7 DEF vars, lists
<1>8. CASE Draw \/ PassBegins \/ Refresh \/ NoRefresh \/ CarouselRests \/ CarouselTurns
  BY <1>1, <1>8 DEF Draw, PassBegins, Refresh, NoRefresh, CarouselRests, CarouselTurns,
                    lists
<1>9. CASE Touch
  BY <1>1, <1>9 DEF Touch, NoTouch, Press, Hold, LongPress, Release, lists
<1>10. CASE Widgets
  BY <1>1, <1>2, <1>10 DEF Widgets, LvglIdle, ClickPage, ClickSettings, ClickDevices,
                           ClickBack, ClickDevice, ClickPending
<1>11. CASE OtherTasks
  BY <1>1, <1>3, <1>4, <1>5, <1>6, <1>11 DEF OtherTasks, Sample, GoesOffline
<1>12. CASE Tick
  BY <1>1, <1>12 DEF Tick, lists
<1> QED
  BY <1>7, <1>8, <1>9, <1>10, <1>11, <1>12 DEF Next, UiTask

\* Nothing is heard later than `now' once a pass has ended.
LEMMA DevicesStep == DevicesTyped /\ [Next]_vars => DevicesTyped'
<1> SUFFICES ASSUME DevicesTyped, [Next]_vars  PROVE DevicesTyped'
  OBVIOUS
<1>1. CASE UNCHANGED <<live, heard, late>>
  BY <1>1 DEF DevicesTyped
<1>2. CASE PassEnds
  BY <1>2 DEF PassEnds, DevicesTyped
<1>3. ASSUME NEW d \in Watched, Sample(d)
      PROVE  DevicesTyped'
  <2>1. d \in Devices
    BY DashboardAssumption
  <2> QED
    BY <1>3, <2>1 DEF Sample, Touched, Others, DevicesTyped
<1>4. ASSUME NEW d \in Watched, GoesOffline(d)
      PROVE  DevicesTyped'
  BY <1>4 DEF GoesOffline, Others, DevicesTyped
<1>5. CASE Tick
  BY <1>5 DEF Tick, lists, DevicesTyped
<1>6. CASE UNCHANGED vars
  BY <1>1, <1>6 DEF vars, lists
<1>7. CASE Draw \/ PassBegins \/ Refresh \/ NoRefresh \/ CarouselRests \/ CarouselTurns
  BY <1>1, <1>7 DEF Draw, PassBegins, Refresh, NoRefresh, CarouselRests, CarouselTurns,
                    lists
<1>8. CASE Touch
  BY <1>1, <1>8 DEF Touch, NoTouch, Press, Hold, LongPress, Release, lists
<1>9. CASE Widgets
  BY <1>2, <1>9 DEF Widgets, LvglIdle, ClickPage, ClickSettings, ClickDevices,
                    ClickBack, ClickDevice, ClickPending, Click
<1>10. CASE OtherTasks
  BY <1>1, <1>3, <1>4, <1>10
  DEF OtherTasks, AddPage, DropPage, Discover, Reorder, Touched, Others
<1> QED
  BY <1>5, <1>6, <1>7, <1>8, <1>9, <1>10 DEF Next, UiTask

\* The page a list names is a device's, and so is the page of any index that
\* render() has brought back among the pages.
LEMMA PageTyped ==
    ASSUME ListsTyped, NEW i \in Nat, order # << >> => i \in 0 .. Len(order) - 1
    PROVE  PageAt(i) \in Devices \cup {None}
<1>1. CASE order = << >>
  BY <1>1 DEF PageAt
<1>2. CASE order # << >>
  <2>1. Len(order) \in Nat
    BY LenProperties DEF ListsTyped
  <2>2. i + 1 \in 1 .. Len(order)
    BY <1>2, <2>1
  <2>3. order[i + 1] \in Devices
    BY <2>2, ElementOfSeq DEF ListsTyped
  <2> QED
    BY <1>2, <2>3 DEF PageAt
<1> QED
  BY <1>1, <1>2

\* changePage() asks for a page that exists.
LEMMA ChangeTyped ==
    ASSUME ListsTyped, NEW delta \in {-1, 1}, ChangePage(delta), index \in Nat
    PROVE  index' \in Nat /\ drawing' \in {drawing, TRUE} /\ changeAge' \in {changeAge, 0}
<1>1. Len(order) \in Nat
  BY LenProperties DEF ListsTyped
<1>2. CASE UNCHANGED <<index, drawing, changeAge>>
  BY <1>2
<1> DEFINE next == CASE index + delta < 0           -> Len(order) - 1
                     [] index + delta >= Len(order) -> 0
                     [] OTHER                       -> index + delta
<1>3. CASE /\ Len(order) > 1
           /\ index' = next /\ changeAge' = 0 /\ drawing' = TRUE
  <2>1. CASE index + delta < 0
    <3>1. next = Len(order) - 1
      BY <2>1
    <3> QED
      BY <1>1, <1>3, <3>1
  <2>2. CASE ~(index + delta < 0) /\ index + delta >= Len(order)
    BY <1>3, <2>2
  <2>3. CASE ~(index + delta < 0) /\ ~(index + delta >= Len(order))
    <3>1. next = index + delta
      BY <2>3
    <3>2. index + delta \in Nat
      BY <2>3
    <3> QED
      BY <1>3, <3>1, <3>2
  <2> QED
    BY <2>1, <2>2, <2>3
<1>4. \/ UNCHANGED <<index, drawing, changeAge>>
      \/ /\ ~(Len(order) <= 1)
         /\ index' = next /\ changeAge' = 0 /\ drawing' = TRUE
  BY DEF ChangePage
<1> HIDE DEF next
<1>5. ~(Len(order) <= 1) => Len(order) > 1
  BY <1>1
<1> QED
  BY <1>2, <1>3, <1>4, <1>5

\* The carousel turns to a page that exists.
LEMMA NextPagesTyped ==
    ASSUME ListsTyped
    PROVE  NextPages \subseteq Nat
<1>1. Len(order) \in Nat
  BY LenProperties DEF ListsTyped
<1>2. NextPages \subseteq 0 .. Len(order) - 1
  BY DEF NextPages
<1> QED
  BY <1>1, <1>2

\* The index is a number and the page a device's.
LEMMA CanvasStep ==
    ListsTyped /\ RowsTyped /\ CanvasTyped /\ [Next]_vars => CanvasTyped'
<1> SUFFICES ASSUME ListsTyped, RowsTyped, CanvasTyped, [Next]_vars
             PROVE  CanvasTyped'
  OBVIOUS
<1>1. CASE UNCHANGED <<screen, index, shown>>
  BY <1>1 DEF CanvasTyped
<1>2. CASE Draw
  <2>1. Len(order) \in Nat
    BY LenProperties DEF ListsTyped
  <2>2. index' \in Nat /\ (order # << >> => index' \in 0 .. Len(order) - 1)
    <3>1. CASE order = << >>
      BY <1>2, <3>1 DEF Draw, CanvasTyped
    <3>2. CASE order # << >>
      <4>1. Len(order) \in Nat \ {0}
        BY <3>2, EmptySeq DEF ListsTyped
      <4>2. index' = InRange(index)
        BY <1>2, <3>2 DEF Draw
      <4>3. index' \in 0 .. Len(order) - 1
        BY <4>1, <4>2 DEF InRange
      <4> QED
        BY <2>1, <4>3
    <3> QED
      BY <3>1, <3>2
  <2>3. PageAt(index') \in Devices \cup {None}
    BY <2>2, PageTyped
  <2>4. shown' = PageAt(index') /\ screen' = screen
    BY <1>2 DEF Draw
  <2> QED
    BY <2>2, <2>3, <2>4 DEF CanvasTyped
<1>3. CASE ShowDeviceList \/ ShowSettings
  BY <1>3 DEF ShowDeviceList, ShowSettings, Leave, CanvasTyped
<1>4. ASSUME NEW delta \in {-1, 1}, ChangePage(delta), UNCHANGED <<screen, shown>>
      PROVE  CanvasTyped'
  <2>1. index' \in Nat
    BY <1>4, ChangeTyped DEF CanvasTyped
  <2> QED
    BY <1>4, <2>1 DEF CanvasTyped
<1>5. CASE CarouselTurns
  <2>1. index' \in Nat
    BY <1>5, NextPagesTyped DEF CarouselTurns, CanvasTyped
  <2> QED
    BY <1>5, <2>1 DEF CarouselTurns, CanvasTyped
<1>6. CASE Touch
  <2>1. ASSUME NEW ms \in Durations, NEW moved \in BOOLEAN, Release(ms, moved)
        PROVE  CanvasTyped'
    <3>1. /\ UNCHANGED <<screen, shown>>
          /\ ChangePage(1) \/ ChangePage(-1) \/ UNCHANGED index
      BY <2>1 DEF Release
    <3> QED
      BY <1>1, <1>4, <3>1
  <2> QED
    BY <1>1, <1>3, <1>6, <2>1 DEF Touch, NoTouch, Press, Hold, LongPress, painted
<1>7. CASE Widgets
  <2>1. CASE LvglIdle
    BY <1>1, <2>1 DEF LvglIdle, painted
  <2>2. ASSUME NEW delta \in {-1, 1}, ClickPage(delta)
        PROVE  CanvasTyped'
    BY <1>4, <2>2 DEF ClickPage
  <2>3. CASE ClickSettings \/ ClickDevices
    BY <1>3, <2>3 DEF ClickSettings, ClickDevices
  <2>4. CASE ClickBack
    BY <2>4 DEF ClickBack, ShowDashboard, CanvasTyped
  <2>5. ASSUME NEW row \in DOMAIN rows.active, ClickDevice(row)
        PROVE  CanvasTyped'
    <3>1. row - 1 \in Nat
      <4>1. DOMAIN rows.active = 1 .. Len(rows.active) /\ Len(rows.active) \in Nat
        BY LenProperties DEF RowsTyped
      <4> QED
        BY <4>1
    <3> QED
      BY <2>5, <3>1 DEF ClickDevice, ShowDashboard, CanvasTyped
  <2>6. ASSUME NEW row \in DOMAIN rows.pending, ClickPending(row)
        PROVE  CanvasTyped'
    BY <1>1, <2>6 DEF ClickPending
  <2> QED
    BY <1>7, <2>1, <2>2, <2>3, <2>4, <2>5, <2>6 DEF Widgets
<1>8. CASE PassBegins \/ Refresh \/ NoRefresh \/ CarouselRests
  BY <1>1, <1>8 DEF PassBegins, Refresh, NoRefresh, CarouselRests, painted
<1>9. CASE OtherTasks
  BY <1>1, <1>9 DEF OtherTasks, AddPage, DropPage, Discover, Reorder, Sample, GoesOffline,
                    Touched, Others, painted
<1>10. CASE Tick \/ UNCHANGED vars
  BY <1>1, <1>10 DEF Tick, vars, painted
<1> QED
  BY <1>2, <1>5, <1>6, <1>7, <1>8, <1>9, <1>10 DEF Next, UiTask

\* The rows of the list are devices.
LEMMA RowsStep == ListsTyped /\ RowsTyped /\ [Next]_vars => RowsTyped'
<1> SUFFICES ASSUME ListsTyped, RowsTyped, [Next]_vars  PROVE RowsTyped'
  OBVIOUS
<1>0. ListsTyped'
  BY ListsStep
<1>1. CASE UNCHANGED rows
  BY <1>1 DEF RowsTyped
<1>2. CASE rows' = NoRows
  <2>1. << >> \in Seq(Devices)
    BY EmptySeq
  <2> QED
    BY <1>2, <2>1 DEF NoRows, RowsTyped
<1>3. CASE rows' = [active |-> order, pending |-> pending]
  BY <1>3 DEF RowsTyped, ListsTyped
<1>4. CASE rows' = [active |-> order', pending |-> pending']
  BY <1>0, <1>4 DEF RowsTyped, ListsTyped
<1>5. CASE Touch
  BY <1>1, <1>3, <1>5
  DEF Touch, NoTouch, Press, Hold, LongPress, Release, ShowDeviceList, painted
<1>6. CASE Widgets
  BY <1>1, <1>2, <1>3, <1>4, <1>6
  DEF Widgets, LvglIdle, ClickPage, ClickSettings, ClickDevices, ClickBack, ClickDevice,
      ClickPending, ShowSettings, ShowDeviceList, ShowDashboard, painted
<1>7. CASE Draw \/ PassBegins \/ Refresh \/ NoRefresh \/ CarouselRests \/ CarouselTurns
  BY <1>1, <1>3, <1>7
  DEF Draw, PassBegins, Refresh, NoRefresh, CarouselRests, CarouselTurns, painted
<1>8. CASE OtherTasks
  BY <1>1, <1>8 DEF OtherTasks, AddPage, DropPage, Discover, Reorder, Sample, GoesOffline,
                    Touched, Others, painted
<1>9. CASE Tick \/ UNCHANGED vars
  BY <1>1, <1>9 DEF Tick, vars, painted
<1> QED
  BY <1>5, <1>6, <1>7, <1>8, <1>9 DEF Next, UiTask

\* The finger stays the record it is.
LEMMA FingerStep == FingerTyped /\ [Next]_vars => FingerTyped'
<1> SUFFICES ASSUME FingerTyped, [Next]_vars  PROVE FingerTyped'
  OBVIOUS
<1>1. CASE UNCHANGED finger
  BY <1>1 DEF FingerTyped
<1>2. CASE Touch
  <2>1. ASSUME NEW p \in Points, Press(p)
        PROVE  FingerTyped'
    BY <2>1 DEF Press, Up, FingerTyped
  <2>2. CASE LongPress
    BY <2>2 DEF LongPress, FingerTyped
  <2>3. ASSUME NEW ms \in Durations, NEW moved \in BOOLEAN, Release(ms, moved)
        PROVE  FingerTyped'
    BY <2>3 DEF Release, Up, FingerTyped
  <2> QED
    BY <1>1, <1>2, <2>1, <2>2, <2>3 DEF Touch, NoTouch, Hold
<1>3. CASE Widgets
  BY <1>1, <1>3 DEF Widgets, LvglIdle, ClickPage, ClickSettings, ClickDevices, ClickBack,
                    ClickDevice, ClickPending, Click, PassEnds
<1>4. CASE Draw \/ PassBegins \/ Refresh \/ NoRefresh \/ CarouselRests \/ CarouselTurns
  BY <1>1, <1>4 DEF Draw, PassBegins, Refresh, NoRefresh, CarouselRests, CarouselTurns
<1>5. CASE OtherTasks
  BY <1>1, <1>5 DEF OtherTasks, AddPage, DropPage, Discover, Reorder, Sample, GoesOffline,
                    Touched, Others
<1>6. CASE Tick \/ UNCHANGED vars
  BY <1>1, <1>6 DEF Tick, vars
<1> QED
  BY <1>2, <1>3, <1>4, <1>5, <1>6 DEF Next, UiTask

\* The flags are flags, and the pass is at one of its steps.
LEMMA FlagsStep == FlagsTyped /\ [Next]_vars => FlagsTyped'
<1> SUFFICES ASSUME FlagsTyped, [Next]_vars  PROVE FlagsTyped'
  OBVIOUS
<1> DEFINE Steps == {"top", "touch", "refresh", "carousel", "lvgl"}
<1>1. ASSUME dirty' \in {dirty, TRUE, FALSE}, drawing' \in {drawing, TRUE, FALSE},
             late' \in {late, TRUE, FALSE}, clicked' \in {clicked, TRUE, FALSE},
             dimmed' \in {dimmed, TRUE, FALSE}, lit' \in {lit, "bright", "dim"},
             at' \in {at} \cup Steps
      PROVE  FlagsTyped'
  <2>1. dirty' \in BOOLEAN /\ drawing' \in BOOLEAN /\ late' \in BOOLEAN
    BY <1>1, Zenon DEF FlagsTyped
  <2>2. clicked' \in BOOLEAN /\ dimmed' \in BOOLEAN
    BY <1>1, Zenon DEF FlagsTyped
  <2>3. lit' \in {"bright", "dim"} /\ at' \in Steps
    BY <1>1 DEF FlagsTyped
  <2> QED
    BY <2>1, <2>2, <2>3 DEF FlagsTyped
<1>2. NoteInteraction => dimmed' \in {dimmed, FALSE} /\ lit' \in {lit, "bright"}
  BY DEF NoteInteraction, light
<1>3. ASSUME NEW delta, ChangePage(delta)
      PROVE  drawing' \in {drawing, TRUE}
  BY <1>3 DEF ChangePage
<1>4. CASE Draw \/ PassBegins \/ Refresh \/ NoRefresh
  <2>1. OnDashboard \in BOOLEAN
    BY DEF OnDashboard
  <2> QED
    BY <1>1, <1>4, <2>1
    DEF Draw, PassBegins, Refresh, NoRefresh, Step, painted, light
<1>5. CASE CarouselRests \/ CarouselTurns
  <2>1. ApplyBacklight
    BY <1>5 DEF CarouselRests, CarouselTurns
  <2> DEFINE shouldDim == ScreenTimeout > 0 /\ Since(lightAge) > ScreenTimeout
  <2>2. /\ dimmed' = shouldDim
        /\ lit' = CASE shouldDim # dimmed -> IF shouldDim THEN "dim" ELSE "bright"
                    [] ~shouldDim         -> "bright"
                    [] OTHER              -> lit
    BY <2>1 DEF ApplyBacklight
  <2>3. shouldDim \in BOOLEAN
    OBVIOUS
  <2> HIDE DEF shouldDim
  <2>4. dimmed' \in {TRUE, FALSE} /\ lit' \in {lit, "bright", "dim"}
    BY <2>2, <2>3
  <2>5. /\ UNCHANGED <<dirty, late, clicked>> /\ at' \in Steps
        /\ drawing' \in {drawing, TRUE}
    BY <1>5 DEF CarouselRests, CarouselTurns, Step, painted
  <2> QED
    BY <1>1, <2>4, <2>5
<1>6. CASE Touch
  <2>1. CASE NoTouch \/ Hold \/ LongPress
    BY <1>1, <2>1 DEF NoTouch, Hold, LongPress, ShowDeviceList, Leave, Step, painted, light
  <2>2. ASSUME NEW p \in Points, Press(p)
        PROVE  FlagsTyped'
    <3>1. dimmed' \in {dimmed, FALSE} /\ lit' \in {lit, "bright"}
      BY <1>2, <2>2 DEF Press
    <3> QED
      BY <1>1, <2>2, <3>1 DEF Press, Step, painted
  <2>3. ASSUME NEW ms \in Durations, NEW moved \in BOOLEAN, Release(ms, moved)
        PROVE  FlagsTyped'
    <3>1. dimmed' \in {dimmed, FALSE} /\ lit' \in {lit, "bright"}
      BY <1>2, <2>3 DEF Release
    <3>2. ChangePage(1) \/ ChangePage(-1) \/ UNCHANGED drawing
      BY <2>3 DEF Release
    <3>3. drawing' \in {drawing, TRUE}
      BY <1>3, <3>2
    <3>4. /\ UNCHANGED <<dirty, late>> /\ clicked' = TRUE /\ at' \in Steps
      BY <2>3 DEF Release, Step
    <3> QED
      BY <1>1, <3>1, <3>3, <3>4
  <2> QED
    BY <1>6, <2>1, <2>2, <2>3 DEF Touch
<1>7. CASE Widgets
  <2>1. CASE LvglIdle
    BY <1>1, <2>1 DEF LvglIdle, PassEnds, Step, painted, light
  <2>2. ASSUME Click, dirty' \in {dirty, TRUE}, drawing' \in {drawing, TRUE}
        PROVE  FlagsTyped'
    <3>1. dimmed' \in {dimmed, FALSE} /\ lit' \in {lit, "bright"}
      BY <1>2, <2>2 DEF Click
    <3> QED
      BY <1>1, <2>2, <3>1 DEF Click, PassEnds, Step
  <2>3. ASSUME NEW delta \in {-1, 1}, ClickPage(delta)
        PROVE  FlagsTyped'
    BY <1>3, <2>2, <2>3 DEF ClickPage
  <2>4. CASE ClickSettings \/ ClickDevices \/ ClickBack
    BY <2>2, <2>4 DEF ClickSettings, ClickDevices, ClickBack, ShowSettings,
                      ShowDeviceList, ShowDashboard, Leave
  <2>5. ASSUME NEW row, ClickDevice(row) \/ ClickPending(row)
        PROVE  FlagsTyped'
    BY <2>2, <2>5 DEF ClickDevice, ClickPending, ShowDashboard
  <2> QED
    BY <1>7, <2>1, <2>3, <2>4, <2>5 DEF Widgets
<1>8. CASE OtherTasks
  <2>1. CASE Touched
    BY <1>1, <2>1 DEF Touched, Others, painted, light
  <2>2. ASSUME NEW d \in Watched, GoesOffline(d)
        PROVE  FlagsTyped'
    BY <1>1, <2>2 DEF GoesOffline, Others, painted, light
  <2> QED
    BY <1>8, <2>1, <2>2 DEF OtherTasks, AddPage, DropPage, Discover, Reorder, Sample
<1>9. CASE Tick
  <2>1. late' \in {TRUE, FALSE}
    BY <1>9 DEF Tick
  <2> QED
    BY <1>1, <1>9, <2>1 DEF Tick, painted, light
<1>10. CASE UNCHANGED vars
  BY <1>1, <1>10 DEF vars, painted, light
<1> QED
  BY <1>4, <1>5, <1>6, <1>7, <1>8, <1>9, <1>10 DEF Next, UiTask

\* A stamp that ages stays below its cap.
LEMMA OlderTyped ==
    ASSUME NEW limit \in Int, limit >= -1, NEW age \in 0 .. limit + 2
    PROVE  Older(age, limit) \in 0 .. limit + 2
BY DEF Older

\* No age outgrows the time anything waits for it.
LEMMA AgesStep == ListsTyped /\ CanvasTyped /\ AgesTyped /\ [Next]_vars => AgesTyped'
<1> SUFFICES ASSUME ListsTyped, CanvasTyped, AgesTyped, [Next]_vars  PROVE AgesTyped'
  OBVIOUS
<1>0. Idle \in Nat /\ Interval \in Nat /\ ScreenTimeout \in Nat
  BY DashboardAssumption
<1>1. ASSUME touchAge' \in {touchAge, 0}, changeAge' \in {changeAge, 0, 1},
             lightAge' \in {lightAge, 0, 1}
      PROVE  AgesTyped'
  BY <1>0, <1>1 DEF AgesTyped
<1>2. ASSUME NEW delta \in {-1, 1}, ChangePage(delta)
      PROVE  changeAge' \in {changeAge, 0}
  BY <1>2, ChangeTyped DEF CanvasTyped
<1>3. CASE Tick
  <2>1. /\ touchAge' = Older(touchAge, Idle - 1)
        /\ changeAge' = Older(changeAge, Interval - 1)
        /\ lightAge' = Older(lightAge, ScreenTimeout)
    BY <1>3 DEF Tick
  <2>2. touchAge' \in 0 .. Idle + 1
    <3>1. /\ Idle - 1 \in Int /\ Idle - 1 >= -1 /\ Idle - 1 + 2 = Idle + 1
          /\ touchAge \in 0 .. Idle - 1 + 2
      BY <1>0 DEF AgesTyped
    <3> QED
      BY <2>1, <3>1, OlderTyped
  <2>3. changeAge' \in 0 .. Interval + 1
    <3>1. /\ Interval - 1 \in Int /\ Interval - 1 >= -1 /\ Interval - 1 + 2 = Interval + 1
          /\ changeAge \in 0 .. Interval - 1 + 2
      BY <1>0 DEF AgesTyped
    <3> QED
      BY <2>1, <3>1, OlderTyped
  <2>4. lightAge' \in 0 .. ScreenTimeout + 2
    <3>1. /\ ScreenTimeout \in Int /\ ScreenTimeout >= -1
          /\ lightAge \in 0 .. ScreenTimeout + 2
      BY <1>0 DEF AgesTyped
    <3> QED
      BY <2>1, <3>1, OlderTyped
  <2> QED
    BY <2>2, <2>3, <2>4 DEF AgesTyped
<1>4. CASE Touch
  <2>1. CASE NoTouch \/ Hold \/ LongPress
    BY <1>1, <2>1 DEF NoTouch, Hold, LongPress, stamps
  <2>2. ASSUME NEW p \in Points, Press(p)
        PROVE  AgesTyped'
    BY <1>1, <2>2 DEF Press, NoteInteraction
  <2>3. ASSUME NEW ms \in Durations, NEW moved \in BOOLEAN, Release(ms, moved)
        PROVE  AgesTyped'
    <3>1. ChangePage(1) \/ ChangePage(-1) \/ UNCHANGED changeAge
      BY <2>3 DEF Release
    <3>2. changeAge' \in {changeAge, 0}
      BY <1>2, <3>1
    <3> QED
      BY <1>1, <2>3, <3>2 DEF Release, NoteInteraction
  <2> QED
    BY <1>4, <2>1, <2>2, <2>3 DEF Touch
<1>5. CASE Widgets
  <2>1. CASE LvglIdle
    BY <1>1, <2>1 DEF LvglIdle, stamps
  <2>2. ASSUME Click, changeAge' \in {changeAge, 0}
        PROVE  AgesTyped'
    BY <1>1, <2>2 DEF Click, NoteInteraction
  <2>3. ASSUME NEW delta \in {-1, 1}, ClickPage(delta)
        PROVE  AgesTyped'
    <3>1. Click /\ ChangePage(delta)
      BY <2>3 DEF ClickPage
    <3> QED
      BY <1>2, <2>2, <3>1
  <2>4. CASE ClickSettings \/ ClickDevices \/ ClickBack
    BY <2>2, <2>4 DEF ClickSettings, ClickDevices, ClickBack
  <2>5. ASSUME NEW row, ClickDevice(row) \/ ClickPending(row)
        PROVE  AgesTyped'
    BY <2>2, <2>5 DEF ClickDevice, ClickPending
  <2> QED
    BY <1>5, <2>1, <2>3, <2>4, <2>5 DEF Widgets
<1>6. CASE Draw \/ PassBegins \/ Refresh \/ NoRefresh \/ CarouselRests \/ CarouselTurns
  BY <1>1, <1>6
  DEF Draw, PassBegins, Refresh, NoRefresh, CarouselRests, CarouselTurns, stamps
<1>7. CASE OtherTasks
  BY <1>1, <1>7 DEF OtherTasks, AddPage, DropPage, Discover, Reorder, Sample, GoesOffline,
                    Touched, Others, stamps
<1>8. CASE UNCHANGED vars
  BY <1>1, <1>8 DEF vars, stamps
<1> QED
  BY <1>3, <1>4, <1>5, <1>6, <1>7, <1>8 DEF Next, UiTask

\* No machine has two pages or two rows, whatever the other tasks and the finger
\* do between two steps of the pass, and every index, age and row has its type.
THEOREM DashboardTypes == Spec => []TypeOK
<1>1. Typed /\ [Next]_vars => Typed'
  BY ListsStep, DevicesStep, CanvasStep, RowsStep, FingerStep, FlagsStep, AgesStep DEF Typed
<1> QED
  BY <1>1, InitTyped, TypedImplies, PTL DEF Spec
=============================================================================
