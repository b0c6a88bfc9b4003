-------------------------- MODULE WebSessionsProofs --------------------------
(***************************************************************************)
(* What the web server's tables of sessions and of login failures promise, *)
(* for any number of tabs, browsers, sessions, entries and misfortunes.    *)
(***************************************************************************)
EXTENDS WebSessions, FiniteSetTheorems, TLAPS

(* ------------------------------- numbers ------------------------------- *)

\* A set of numbers that is not empty has a least one: the end of the smallest
\* of the intervals from 0 to its members.
LEMMA LeastNumber ==
    ASSUME NEW T, T \subseteq Nat, T # {}
    PROVE  \E x \in T : \A y \in T : x <= y
<1>1. PICK m \in T : TRUE
  OBVIOUS
<1> DEFINE B == 0 .. m
           I == {0 .. t : t \in {u \in T : u <= m}}
           R == StrictSubsetOrdering(B)
<1>2. IsWellFoundedOn(R, SUBSET B)
  <2>1. IsFiniteSet(B)
    BY FS_Interval
  <2> QED
    BY <2>1, FS_StrictSubsetOrderingWellFounded, FS_FiniteSubsetsOfFinite
<1>3. I \subseteq SUBSET B /\ I # {}
  BY <1>1
<1>4. PICK x \in I : \A y \in I : <<y, x>> \notin R
  <2> HIDE DEF I, R, B
  <2> QED
    BY <1>2, <1>3, WFMin
<1>5. PICK t \in T : t <= m /\ x = 0 .. t
  BY <1>4
<1>6. ASSUME NEW u \in T, u < t
      PROVE  FALSE
  <2>1. 0 .. u \in I /\ 0 .. u \subseteq 0 .. t /\ 0 .. u # 0 .. t
    BY <1>5, <1>6
  <2>2. <<0 .. u, 0 .. t>> \in R
    BY <1>3, <1>5, <2>1 DEF StrictSubsetOrdering
  <2> QED
    BY <1>4, <1>5, <2>1, <2>2
<1> QED
  BY <1>5, <1>6

\* The smaller of two.
LEMMA MinOfTwo ==
    ASSUME NEW a \in Nat, NEW b \in Nat
    PROVE  /\ Min({a, b}) \in {a, b}
           /\ Min({a, b}) <= a /\ Min({a, b}) <= b
BY DEF Min

\* A power of two is a number: as many as an interval has subsets.
LEMMA PowerOfTwo ==
    ASSUME NEW n \in Nat
    PROVE  2 ^ n \in Nat
<1> DEFINE S == 1 .. n
<1>1. IsFiniteSet(S) /\ Cardinality(S) = n
  BY FS_Interval
<1>2. IsFiniteSet(SUBSET S) /\ Cardinality(SUBSET S) = 2 ^ Cardinality(S)
  <2> HIDE DEF S
  <2> QED
    BY <1>1, FS_SUBSET
<1>3. Cardinality(SUBSET S) \in Nat
  <2> HIDE DEF S
  <2> QED
    BY <1>2, FS_CardinalityType
<1> HIDE DEF S
<1> QED
  BY <1>1, <1>2, <1>3

(* -------------------------------- types -------------------------------- *)

Views == {"login", "firstRun", "shell", "disabled"}
RateEntries ==
    [ip : Addresses \cup {None}, failures : 0 .. MaxFailures, locked : 0 .. MaxLockout]
Calls ==
    [op : Ops \cup {None}, id : Nat \cup {None},
     code : Views \cup {"ok", "401", "403", "429", None}]

\* TypeOK is not inductive: what arrives at a tab is what was answered.
TypesHold ==
    /\ TypeOK
    /\ rate \in [Entries -> RateEntries]
    /\ call \in [Tabs -> Calls]
    /\ \A t \in Tabs : call[t].op = "session" => call[t].code \in Views

\* An address has one entry at most.
OneEntryEach(table) ==
    \A e, f \in Entries : table[e].ip = table[f].ip => e = f \/ table[e].ip = None

\* What the constants are.
LEMMA ConstantTypes ==
    /\ MaxSessions \in Nat \ {0} /\ MaxRateEntries \in Nat \ {0}
    /\ FailuresBeforeLockout \in Nat \ {0} /\ MaxFailures \in Nat \ {0}
    /\ BaseLockout \in Nat \ {0} /\ MaxLockout \in Nat \ {0}
    /\ MaxTrouble \in Nat /\ Home \in Addresses /\ Peers \subseteq Addresses
    /\ None \notin Addresses /\ None \notin Ops /\ None \notin Nat
BY WebAssumption DEF Addresses

\* There is always a token that nobody holds: the tables, the cookie and the
\* tabs hold finitely many.
LEMMA TokenIsNew ==
    ASSUME TypesHold
    PROVE  /\ NewToken \in Nat
           /\ \A i \in Slots : sessions[i] # NewToken
<1> DEFINE held == {sessions[i] : i \in Slots} \cup {cookie}
                   \cup {csrf[t] : t \in Tabs} \cup {call[t].id : t \in Tabs}
           N == Cardinality(held)
<1>1. ASSUME NEW S, IsFiniteSet(S), NEW f, f \in [S -> {f[s] : s \in S}]
      PROVE  IsFiniteSet({f[s] : s \in S})
  <2> DEFINE T == {f[s] : s \in S}
  <2>1. f \in Surjection(S, T)
    BY <1>1 DEF Surjection
  <2> HIDE DEF T
  <2>2. IsFiniteSet(T)
    BY <1>1, <2>1, FS_Surjection
  <2> QED
    BY <2>2 DEF T
<1>2. IsFiniteSet(held)
  <2>1. IsFiniteSet({sessions[i] : i \in Slots})
    <3>1. IsFiniteSet(Slots)
      BY ConstantTypes, FS_Interval DEF Slots
    <3>2. sessions \in [Slots -> {sessions[i] : i \in Slots}]
      BY DEF TypesHold, TypeOK
    <3> QED
      BY <1>1, <3>1, <3>2
  <2>2. IsFiniteSet({csrf[t] : t \in Tabs})
    <3>1. csrf \in [Tabs -> {csrf[t] : t \in Tabs}]
      BY DEF TypesHold, TypeOK
    <3> QED
      BY <1>1, <3>1, WebAssumption
  <2>3. IsFiniteSet({call[t].id : t \in Tabs})
    <3> DEFINE f == [t \in Tabs |-> call[t].id]
    <3>1. f \in [Tabs -> {f[t] : t \in Tabs}]
      OBVIOUS
    <3>2. {f[t] : t \in Tabs} = {call[t].id : t \in Tabs}
      OBVIOUS
    <3> HIDE DEF f
    <3> QED
      BY <1>1, <3>1, <3>2, WebAssumption
  <2> QED
    BY <2>1, <2>2, <2>3, FS_Singleton, FS_Union
<1>3. \E n \in 1 .. N + 1 : n \notin held
  <2> HIDE DEF held
  <2>1. N \in Nat
    BY <1>2, FS_CardinalityType
  <2>2. IsFiniteSet(1 .. N + 1) /\ Cardinality(1 .. N + 1) = N + 1
    BY <2>1, FS_Interval
  <2>3. ASSUME 1 .. N + 1 \subseteq held
        PROVE  FALSE
    <3>1. Cardinality(1 .. N + 1) <= N
      BY <1>2, <2>3, FS_Subset
    <3> QED
      BY <2>1, <2>2, <3>1
  <2> QED
    BY <2>3
<1>4. NewToken = CHOOSE n \in 1 .. N + 1 : n \notin held
  BY DEF NewToken
<1>5. NewToken \in 1 .. N + 1 /\ NewToken \notin held
  <2> HIDE DEF held
  <2> QED
    BY <1>3, <1>4
<1>6. N \in Nat
  BY <1>2, FS_CardinalityType
<1> QED
  BY <1>5, <1>6

\* A login takes a free slot when there is one.
LEMMA SlotFacts ==
    /\ SlotForLogin \in Slots
    /\ (\E i \in Slots : sessions[i] = None) => sessions[SlotForLogin] = None
<1>1. MaxSessions \in Nat \ {0}
  BY ConstantTypes
<1>2. CASE \E i \in Slots : sessions[i] = None
  <2> DEFINE free == {i \in Slots : sessions[i] = None}
  <2>1. free \subseteq Nat /\ free # {}
    BY <1>1, <1>2 DEF Slots
  <2>2. \E i \in free : \A j \in free : i <= j
    <3> HIDE DEF free
    <3> QED
      BY <2>1, LeastNumber
  <2>3. PICK i \in free : \A j \in free : i <= j
    BY <2>2
  <2>4. \A j \in 1 .. i - 1 : sessions[j] # None
    BY <1>1, <2>3 DEF Slots
  <2>5. \E k \in Slots : sessions[k] = None /\ \A j \in 1 .. k - 1 : sessions[j] # None
    BY <2>3, <2>4
  <2> QED
    BY <1>2, <2>5 DEF SlotForLogin
<1>3. CASE ~\E i \in Slots : sessions[i] = None
  BY <1>1, <1>3 DEF SlotForLogin, Slots
<1> QED
  BY <1>2, <1>3

\* An address's entry is the one it has, or one that is to be its own.
LEMMA RateEntryFacts ==
    ASSUME TypesHold, NEW ip \in Addresses
    PROVE  /\ RateEntryFor(ip) \in Entries
           /\ \A e \in Entries : rate[e].ip = ip => e = RateEntryFor(ip)
           /\ \/ rate[RateEntryFor(ip)].ip \in {ip, None}
              \/ \A e \in Entries :
                    /\ rate[e].ip # None
                    /\ rate[RateEntryFor(ip)].locked <= rate[e].locked
<1>1. /\ MaxRateEntries \in Nat \ {0} /\ ip # None
      /\ \A e \in Entries : rate[e].locked \in 0 .. MaxLockout
      /\ MaxLockout \in Nat /\ Entries \subseteq Nat /\ Entries # {}
  <2>1. MaxRateEntries \in Nat \ {0} /\ ip # None /\ MaxLockout \in Nat
    BY ConstantTypes
  <2>2. Entries \subseteq Nat /\ 1 \in Entries
    BY <2>1 DEF Entries
  <2>3. \A e \in Entries : rate[e].locked \in 0 .. MaxLockout
    BY DEF TypesHold, TypeOK
  <2> QED
    BY <2>1, <2>2, <2>3
<1>2. CASE \E e \in Entries : rate[e].ip = ip
  BY <1>1, <1>2 DEF TypesHold, TypeOK, RateEntryFor
<1>3. CASE ~\E e \in Entries : rate[e].ip = ip
  <2> DEFINE free == {e \in Entries : rate[e].ip = None}
             pool == IF free = {} THEN Entries ELSE free
             soonest == {e \in pool : \A f \in pool : rate[e].locked <= rate[f].locked}
  <2>1. pool \subseteq Entries /\ pool # {}
    BY <1>1
  <2> HIDE DEF pool
  <2>2. soonest # {}
    <3> DEFINE ends == {rate[e].locked : e \in pool}
    <3>1. ends \subseteq Nat /\ ends # {}
      <4>1. \A e \in pool : rate[e].locked \in Nat
        BY <1>1, <2>1
      <4> QED
        BY <2>1, <4>1
    <3>2. \E n \in ends : \A m \in ends : n <= m
      <4> HIDE DEF ends
      <4> QED
        BY <3>1, LeastNumber
    <3> QED
      BY <3>2
  <2>3. soonest \subseteq Nat /\ soonest \subseteq Entries
    BY <1>1, <2>1
  <2> HIDE DEF soonest
  <2>4. \E e \in soonest : \A f \in soonest : e <= f
    BY <2>2, <2>3, LeastNumber
  <2>5. RateEntryFor(ip) = CHOOSE e \in soonest : \A f \in soonest : e <= f
    BY <1>3 DEF RateEntryFor, pool, soonest
  <2>6. RateEntryFor(ip) \in soonest
    BY <2>4, <2>5
  <2>7. \/ rate[RateEntryFor(ip)].ip = None
        \/ \A e \in Entries : /\ rate[e].ip # None
                              /\ rate[RateEntryFor(ip)].locked <= rate[e].locked
    BY <2>6 DEF soonest, pool
  <2> QED
    BY <1>3, <2>3, <2>6, <2>7
<1> QED
  BY <1>2, <1>3

\* What is noted of an address goes into the entry of that address.
LEMMA SetRateFacts ==
    ASSUME TypesHold, NEW ip \in Addresses, NEW entry \in RateEntries, entry.ip = ip,
           SetRate(ip, entry)
    PROVE  rate' \in [Entries -> RateEntries] /\ OneEntryEach(rate')
<1> DEFINE k == RateEntryFor(ip)
<1>1. /\ k \in Entries /\ \A e \in Entries : rate[e].ip = ip => e = k
      /\ rate \in [Entries -> RateEntries] /\ OneEntryEach(rate)
  BY RateEntryFacts DEF TypesHold, TypeOK, OneEntryEach
<1>2. rate' = [rate EXCEPT ![k] = entry]
  BY DEF SetRate
<1> HIDE DEF k
<1>3. rate' \in [Entries -> RateEntries] /\ rate'[k] = entry
      /\ \A e \in Entries : e # k => rate'[e] = rate[e]
  BY <1>1, <1>2
<1> QED
  BY <1>1, <1>3 DEF OneEntryEach

\* The entry of an address, its own or blank.
LEMMA RateOfFacts ==
    ASSUME TypesHold, NEW ip \in Addresses
    PROVE  RateOf(ip) \in RateEntries /\ RateOf(ip).ip = ip
<1>1. RateEntryFor(ip) \in Entries /\ rate \in [Entries -> RateEntries]
  BY RateEntryFacts DEF TypesHold
<1>2. [Free EXCEPT !.ip = ip] \in RateEntries /\ [Free EXCEPT !.ip = ip].ip = ip
  BY ConstantTypes DEF Free, RateEntries
<1> QED
  BY <1>1, <1>2 DEF RateOf

\* The lockout doubles up to its limit, the count of failures up to its width.
LEMMA NoteEntry ==
    ASSUME TypesHold, NEW ip \in Addresses
    PROVE  LET n == Min({RateOf(ip).failures + 1, MaxFailures})
               entry == [ip |-> ip, failures |-> n,
                         locked |-> IF n >= FailuresBeforeLockout THEN Lockout(n)
                                    ELSE RateOf(ip).locked]
           IN  entry \in RateEntries /\ entry.ip = ip
<1> DEFINE old == RateOf(ip)
           n == Min({old.failures + 1, MaxFailures})
           locked == IF n >= FailuresBeforeLockout THEN Lockout(n) ELSE old.locked
           entry == [ip |-> ip, failures |-> n, locked |-> locked]
<1>1. /\ old \in RateEntries /\ old.ip = ip
      /\ old.failures \in 0 .. MaxFailures /\ old.locked \in 0 .. MaxLockout
      /\ MaxFailures \in Nat /\ MaxLockout \in Nat /\ BaseLockout \in Nat
      /\ FailuresBeforeLockout \in Nat
  BY RateOfFacts, ConstantTypes DEF RateEntries
<1>2. n \in 0 .. MaxFailures
  <2>1. old.failures + 1 \in Nat
    BY <1>1
  <2> HIDE DEF old
  <2>2. n \in {old.failures + 1, MaxFailures} /\ n <= MaxFailures
    BY <1>1, <2>1, MinOfTwo
  <2> HIDE DEF n
  <2> QED
    BY <1>1, <2>1, <2>2
<1> HIDE DEF n, old
<1>3. locked \in 0 .. MaxLockout
  <2>1. CASE n >= FailuresBeforeLockout
    <3> DEFINE steps == n - FailuresBeforeLockout
               power == 2 ^ steps
               doubled == BaseLockout * power
    <3>1. steps \in Nat
      BY <1>1, <1>2, <2>1
    <3>2. power \in Nat
      <4> HIDE DEF steps
      <4> QED
        BY <3>1, PowerOfTwo
    <3>3. doubled \in Nat
      <4> HIDE DEF power
      <4> QED
        BY <1>1, <3>2
    <3>4. Lockout(n) = Min({doubled, MaxLockout})
      BY DEF Lockout
    <3> HIDE DEF doubled
    <3>5. Lockout(n) \in {doubled, MaxLockout} /\ Lockout(n) <= MaxLockout
      BY <1>1, <3>3, <3>4, MinOfTwo
    <3> QED
      BY <1>1, <2>1, <3>3, <3>5
  <2>2. CASE ~(n >= FailuresBeforeLockout)
    BY <1>1, <2>2
  <2> QED
    BY <2>1, <2>2
<1> HIDE DEF locked
<1>4. entry \in RateEntries /\ entry.ip = ip
  BY <1>2, <1>3 DEF RateEntries
<1> QED
  BY <1>4 DEF n, old, locked

\* What is noted of a failure or a success keeps the table's type.
LEMMA NoteTypes ==
    ASSUME TypesHold, NEW ip \in Addresses
    PROVE  /\ NoteLoginFailure(ip) =>
                 rate' \in [Entries -> RateEntries] /\ OneEntryEach(rate')
           /\ NoteLoginSuccess(ip) =>
                 rate' \in [Entries -> RateEntries] /\ OneEntryEach(rate')
           /\ SetRate(ip, RateOf(ip)) =>
                 rate' \in [Entries -> RateEntries] /\ OneEntryEach(rate')
<1> DEFINE n == Min({RateOf(ip).failures + 1, MaxFailures})
           entry == [ip |-> ip, failures |-> n,
                     locked |-> IF n >= FailuresBeforeLockout THEN Lockout(n)
                                ELSE RateOf(ip).locked]
<1>1. entry \in RateEntries /\ entry.ip = ip
  BY NoteEntry
<1>2. RateOf(ip) \in RateEntries /\ RateOf(ip).ip = ip
  BY RateOfFacts
<1>3. NoteLoginFailure(ip) => SetRate(ip, entry)
  BY DEF NoteLoginFailure
<1>4. [Free EXCEPT !.ip = ip] \in RateEntries /\ [Free EXCEPT !.ip = ip].ip = ip
  BY ConstantTypes DEF Free, RateEntries
<1> HIDE DEF entry
<1> QED
  BY <1>1, <1>2, <1>3, <1>4, SetRateFacts DEF NoteLoginSuccess

(* ------------------------------ the step ------------------------------- *)

ServerTypes ==
    /\ passwordSet \in BOOLEAN /\ enabled \in BOOLEAN
    /\ sessions \in [Slots -> Nat \cup {None}]
    /\ rate \in [Entries -> RateEntries] /\ OneEntryEach(rate)
    /\ asked \subseteq {"restart", "reset"}
ClientTypes ==
    /\ cookie \in Nat \cup {None} /\ csrf \in [Tabs -> Nat \cup {None}]
    /\ view \in [Tabs -> {"booting", "login", "firstRun", "shell", "disabled", "offline"}]
    /\ polls \in [Tabs -> BOOLEAN]
CallTypes ==
    /\ call \in [Tabs -> Calls]
    /\ \A t \in Tabs : call[t].op = "session" => call[t].code \in Views

\* The types, part by part.
LEMMA TypesByPart ==
    TypesHold <=> ServerTypes /\ ClientTypes /\ CallTypes /\ trouble \in 0 .. MaxTrouble
<1>1. ASSUME rate \in [Entries -> RateEntries], call \in [Tabs -> Calls]
      PROVE  /\ \A e \in Entries : /\ rate[e].ip \in Addresses \cup {None}
                                   /\ rate[e].failures \in 0 .. MaxFailures
                                   /\ rate[e].locked \in 0 .. MaxLockout
             /\ \A t \in Tabs : call[t].op \in Ops \cup {None} /\ call[t].id \in Nat \cup {None}
  <2>1. \A e \in Entries : rate[e] \in RateEntries
    BY <1>1
  <2>2. \A t \in Tabs : call[t] \in Calls
    BY <1>1
  <2> QED
    BY <2>1, <2>2 DEF RateEntries, Calls
<1> QED
  BY <1>1 DEF TypesHold, TypeOK, ServerTypes, ClientTypes, CallTypes, OneEntryEach

\* The same in the next state.
LEMMA TypesByPartNext ==
    ASSUME ServerTypes', ClientTypes', CallTypes', trouble' \in 0 .. MaxTrouble
    PROVE  TypesHold'
<1>1. ASSUME rate' \in [Entries -> RateEntries], call' \in [Tabs -> Calls]
      PROVE  /\ \A e \in Entries : /\ rate'[e].ip \in Addresses \cup {None}
                                   /\ rate'[e].failures \in 0 .. MaxFailures
                                   /\ rate'[e].locked \in 0 .. MaxLockout
             /\ \A t \in Tabs : call'[t].op \in Ops \cup {None} /\ call'[t].id \in Nat \cup {None}
  <2>1. \A e \in Entries : rate'[e] \in RateEntries
    BY <1>1
  <2>2. \A t \in Tabs : call'[t] \in Calls
    BY <1>1
  <2> QED
    BY <2>1, <2>2 DEF RateEntries, Calls
<1> QED
  BY <1>1 DEF TypesHold, TypeOK, ServerTypes, ClientTypes, CallTypes, OneEntryEach

\* An answer that starts, and one that arrives or is lost.
LEMMA CallStep ==
    ASSUME CallTypes, NEW t \in Tabs
    PROVE  /\ \A op \in Ops : \A code \in Views \cup {"ok", "401", "403", "429", None} :
                 \A id \in Nat \cup {None} :
                    Answer(t, op, code, id) /\ (op = "session" => code \in Views)
                       => CallTypes'
           /\ call' = [call EXCEPT ![t] = NoCall] => CallTypes'
<1>1. ASSUME NEW c \in Calls, c.op = "session" => c.code \in Views,
             call' = [call EXCEPT ![t] = c]
      PROVE  CallTypes'
  <2>1. /\ call' \in [Tabs -> Calls] /\ call'[t] = c
        /\ \A u \in Tabs : u # t => call'[u] = call[u]
    BY <1>1 DEF CallTypes
  <2> QED
    BY <1>1, <2>1 DEF CallTypes
<1>2. ASSUME NEW op \in Ops, NEW code \in Views \cup {"ok", "401", "403", "429", None},
             NEW id \in Nat \cup {None},
             Answer(t, op, code, id), op = "session" => code \in Views
      PROVE  CallTypes'
  <2> DEFINE c == [op |-> op, code |-> code, id |-> id]
  <2>1. c \in Calls /\ (c.op = "session" => c.code \in Views)
    BY <1>2 DEF Calls
  <2>2. call' = [call EXCEPT ![t] = c]
    BY <1>2 DEF Answer
  <2> HIDE DEF c
  <2> QED
    BY <1>1, <2>1, <2>2
<1>3. NoCall \in Calls /\ NoCall.op # "session"
  BY ConstantTypes DEF NoCall, Calls, Ops
<1> HIDE DEF NoCall
<1> QED
  BY <1>1, <1>2, <1>3

\* What requireAuth() answers.
LEMMA AuthCodes ==
    ASSUME NEW t, NEW mutating, NEW portal
    PROVE  RequireAuth(t, mutating, portal) \in {"ok", "401", "403"}
<1>1. CASE ~enabled
  BY <1>1 DEF RequireAuth
<1>2. CASE enabled /\ ~passwordSet
  BY <1>2 DEF RequireAuth
<1>3. CASE enabled /\ passwordSet /\ ~Alive(cookie)
  BY <1>3 DEF RequireAuth
<1>4. CASE enabled /\ passwordSet /\ Alive(cookie)
  BY <1>4 DEF RequireAuth
<1> QED
  BY <1>1, <1>2, <1>3, <1>4

\* Requests keep the types.
LEMMA RequestTypes ==
    ASSUME TypesHold, NEW t \in Tabs, Request(t)
    PROVE  TypesHold'
<1>1. /\ ServerTypes /\ ClientTypes /\ CallTypes /\ trouble \in 0 .. MaxTrouble
      /\ MaxTrouble \in Nat /\ Home \in Addresses
  BY TypesByPart, ConstantTypes
<1>2. GoesWrong => trouble' \in 0 .. MaxTrouble
  BY <1>1 DEF GoesWrong
<1>3. UNCHANGED client => ClientTypes'
  BY <1>1 DEF client, ClientTypes
<1>4. UNCHANGED server => ServerTypes'
  BY <1>1 DEF server, ServerTypes, OneEntryEach
<1>5. /\ \A op \in Ops : \A code \in {"ok", "401", "403", "429"} :
            op # "session" /\ Answer(t, op, code, None) => CallTypes'
      /\ {"session", "login", "status", "save", "password", "logout", "reboot"} \subseteq Ops
  BY <1>1, CallStep DEF Ops
<1>6. CASE GetSession(t)
  <2> DEFINE code == CASE ~enabled                -> "disabled"
                       [] enabled /\ ~passwordSet -> "firstRun"
                       [] OTHER -> IF Alive(cookie) THEN "shell" ELSE "login"
             id == IF Alive(cookie) THEN cookie ELSE None
  <2>1. code \in Views
    <3>1. CASE ~enabled
      BY <3>1 DEF Views
    <3>2. CASE enabled /\ ~passwordSet
      BY <3>2 DEF Views
    <3>3. CASE enabled /\ passwordSet
      BY <3>3 DEF Views
    <3> QED
      BY <3>1, <3>2, <3>3
  <2>2. id \in Nat \cup {None}
    BY <1>1 DEF ClientTypes
  <2>3. Answer(t, "session", code, id) /\ UNCHANGED <<server, client, trouble>>
    BY <1>6 DEF GetSession
  <2> HIDE DEF code, id
  <2>4. CallTypes'
    BY <1>1, <1>5, <2>1, <2>2, <2>3, CallStep
  <2> QED
    BY <1>1, <1>3, <1>4, <2>3, <2>4, TypesByPartNext
<1>7. CASE Login(t)
  <2>1. UNCHANGED <<passwordSet, enabled, asked, client, trouble>>
    BY <1>7 DEF Login
  <2>2. CASE RateOf(Home).locked > 0
    <3>1. /\ Answer(t, "login", "429", None) /\ SetRate(Home, RateOf(Home))
          /\ UNCHANGED sessions
      BY <1>7, <2>2 DEF Login
    <3>2. rate' \in [Entries -> RateEntries] /\ OneEntryEach(rate')
      BY <1>1, <3>1, NoteTypes
    <3> QED
      BY <1>1, <1>3, <1>5, <2>1, <3>1, <3>2, TypesByPartNext DEF ServerTypes
  <2>3. CASE ~(RateOf(Home).locked > 0) /\ RateOf(Home).locked = 0 /\ ~passwordSet
    <3>1. /\ Answer(t, "login", "401", None) /\ NoteLoginFailure(Home)
          /\ UNCHANGED sessions
      BY <1>7, <2>3 DEF Login
    <3>2. rate' \in [Entries -> RateEntries] /\ OneEntryEach(rate')
      BY <1>1, <3>1, NoteTypes
    <3> QED
      BY <1>1, <1>3, <1>5, <2>1, <3>1, <3>2, TypesByPartNext DEF ServerTypes
  <2>4. CASE /\ ~(RateOf(Home).locked > 0)
             /\ ~(RateOf(Home).locked = 0 /\ ~passwordSet)
    <3>1. /\ Answer(t, "login", "ok", NewToken)
          /\ NoteLoginSuccess(Home) /\ CreateSession(NewToken)
      BY <1>7, <2>4 DEF Login
    <3>2. rate' \in [Entries -> RateEntries] /\ OneEntryEach(rate')
      BY <1>1, <3>1, NoteTypes
    <3>3. NewToken \in Nat
      BY TokenIsNew
    <3>4. sessions' \in [Slots -> Nat \cup {None}]
      BY <1>1, <3>1, <3>3, SlotFacts DEF CreateSession, ServerTypes
    <3>5. CallTypes'
      <4>1. "login" \in Ops /\ "login" # "session"
        BY <1>5
      <4> QED
        BY <1>1, <3>1, <3>3, <4>1, CallStep
    <3> QED
      BY <1>1, <1>3, <2>1, <3>2, <3>4, <3>5, TypesByPartNext DEF ServerTypes
  <2> QED
    BY <2>2, <2>3, <2>4
<1>8. CASE Mistype(t)
  <2>1. /\ GoesWrong /\ UNCHANGED <<passwordSet, enabled, sessions, asked, client>>
        /\ \/ Answer(t, "login", "429", None) /\ SetRate(Home, RateOf(Home))
           \/ Answer(t, "login", "401", None) /\ NoteLoginFailure(Home)
    BY <1>8 DEF Mistype
  <2>2. rate' \in [Entries -> RateEntries] /\ OneEntryEach(rate')
    BY <1>1, <2>1, NoteTypes
  <2>3. CallTypes'
    BY <1>5, <2>1
  <2> QED
    BY <1>1, <1>2, <1>3, <2>1, <2>2, <2>3, TypesByPartNext DEF ServerTypes
<1>9. CASE Poll(t)
  BY <1>1, <1>3, <1>4, <1>5, <1>9, AuthCodes, TypesByPartNext DEF Poll
<1>10. CASE Save(t)
  <2>1. PICK portal \in BOOLEAN :
           /\ Answer(t, "save", RequireAuth(t, TRUE, portal), None)
           /\ enabled' \in IF RequireAuth(t, TRUE, portal) = "ok" THEN BOOLEAN
                           ELSE {enabled}
    BY <1>10 DEF Save
  <2>2. UNCHANGED <<passwordSet, sessions, rate, asked, client, trouble>>
    BY <1>10 DEF Save
  <2>3. CallTypes'
    BY <1>5, <2>1, AuthCodes
  <2>4. ServerTypes'
    BY <1>1, <2>1, <2>2 DEF ServerTypes, OneEntryEach
  <2> QED
    BY <1>1, <1>3, <2>2, <2>3, <2>4, TypesByPartNext
<1>11. CASE Logout(t)
  <2>1. /\ Answer(t, "logout", "ok", None) /\ GoesWrong
        /\ sessions' = [i \in Slots |-> IF sessions[i] = cookie THEN None
                                        ELSE sessions[i]]
        /\ UNCHANGED <<passwordSet, enabled, rate, asked, client>>
    BY <1>11 DEF Logout
  <2>2. ServerTypes'
    BY <1>1, <2>1 DEF ServerTypes, OneEntryEach
  <2> QED
    BY <1>1, <1>2, <1>3, <1>5, <2>1, <2>2, TypesByPartNext
<1>12. CASE \E knows \in BOOLEAN : SetPassword(t, knows)
  <2>1. PICK code \in {"ok", "401", "403"} :
           /\ Answer(t, "password", code, None)
           /\ passwordSet' = (passwordSet \/ code = "ok")
           /\ sessions' = IF code = "ok" THEN [i \in Slots |-> None] ELSE sessions
    <3>1. PICK knows \in BOOLEAN : SetPassword(t, knows)
      BY <1>12
    <3>2. PICK portal \in BOOLEAN :
             LET auth == RequireAuth(t, passwordSet, portal)
                 code == CASE passwordSet /\ auth = "ok" ->
                                IF knows THEN "ok" ELSE "403"
                           [] ~passwordSet /\ portal     -> "ok"
                           [] OTHER                      -> auth
             IN /\ Answer(t, "password", code, None)
                /\ passwordSet' = (passwordSet \/ code = "ok")
                /\ sessions' = IF code = "ok" THEN [i \in Slots |-> None] ELSE sessions
      BY <3>1 DEF SetPassword
    <3> DEFINE auth == RequireAuth(t, passwordSet, portal)
               code == CASE passwordSet /\ auth = "ok" -> IF knows THEN "ok" ELSE "403"
                         [] ~passwordSet /\ portal     -> "ok"
                         [] OTHER                      -> auth
    <3>3. code \in {"ok", "401", "403"}
      <4>1. auth \in {"ok", "401", "403"}
        BY AuthCodes
      <4> HIDE DEF auth
      <4>2. CASE passwordSet /\ auth = "ok"
        BY <4>2
      <4>3. CASE ~passwordSet /\ portal
        BY <4>3
      <4>4. CASE ~(passwordSet /\ auth = "ok") /\ ~(~passwordSet /\ portal)
        BY <4>1, <4>4
      <4> QED
        BY <4>2, <4>3, <4>4
    <3>4. /\ Answer(t, "password", code, None)
          /\ passwordSet' = (passwordSet \/ code = "ok")
          /\ sessions' = IF code = "ok" THEN [i \in Slots |-> None] ELSE sessions
      BY <3>2
    <3> HIDE DEF code
    <3> QED
      BY <3>3, <3>4
  <2>2. GoesWrong /\ UNCHANGED <<enabled, rate, asked, client>>
    BY <1>12 DEF SetPassword
  <2>3. CallTypes'
    BY <1>5, <2>1
  <2>4. ServerTypes'
    BY <1>1, <2>1, <2>2 DEF ServerTypes, OneEntryEach
  <2> QED
    BY <1>1, <1>2, <1>3, <2>2, <2>3, <2>4, TypesByPartNext
<1>13. CASE \E what \in {"restart", "reset"} : AskReboot(t, what)
  <2>1. PICK what \in {"restart", "reset"} : AskReboot(t, what)
    BY <1>13
  <2>2. PICK portal \in BOOLEAN :
           LET code == RequireAuth(t, TRUE, portal)
           IN /\ Answer(t, "reboot", code, None)
              /\ asked' = IF code = "ok" THEN asked \cup {what} ELSE asked
    BY <2>1 DEF AskReboot
  <2>3. GoesWrong /\ UNCHANGED <<passwordSet, enabled, sessions, rate, client>>
    BY <2>1 DEF AskReboot
  <2>4. CallTypes'
    BY <1>5, <2>2, AuthCodes
  <2>5. ServerTypes'
    BY <1>1, <2>2, <2>3 DEF ServerTypes, OneEntryEach
  <2> QED
    BY <1>1, <1>2, <1>3, <2>3, <2>4, <2>5, TypesByPartNext
<1> QED
  BY <1>6, <1>7, <1>8, <1>9, <1>10, <1>11, <1>12, <1>13 DEF Request

\* Answers keep the types.
LEMMA ArrivalTypes ==
    ASSUME TypesHold, NEW t \in Tabs, Arrival(t)
    PROVE  TypesHold'
<1>1. /\ ServerTypes /\ ClientTypes /\ CallTypes /\ trouble \in 0 .. MaxTrouble
  BY TypesByPart
<1>2. UNCHANGED server => ServerTypes'
  BY <1>1 DEF server, ServerTypes, OneEntryEach
<1>3. \A op : Arrives(t, op) => CallTypes'
  BY <1>1, CallStep DEF Arrives
<1>4. \A code : Announce(t, code) => csrf' \in [Tabs -> Nat \cup {None}]
  BY <1>1 DEF Announce, ClientTypes
<1>5. \A v \in {"booting", "login", "firstRun", "shell", "disabled", "offline"} :
         Shows(t, v) =>
            view' \in [Tabs -> {"booting", "login", "firstRun", "shell", "disabled", "offline"}]
  BY <1>1 DEF Shows, ClientTypes
<1>6. call[t] \in Calls /\ call[t].id \in Nat \cup {None}
  BY <1>1 DEF CallTypes, Calls
<1>7. CASE SessionArrives(t)
  <2>1. /\ csrf' = [csrf EXCEPT ![t] = call[t].id]
        /\ UNCHANGED <<server, cookie, polls, trouble>>
        /\ \/ Answer(t, "enter", RequireAuth(t, FALSE, FALSE), None) /\ UNCHANGED view
           \/ Shows(t, call[t].code) /\ call' = [call EXCEPT ![t] = NoCall]
    BY <1>7 DEF SessionArrives
  <2>2. call[t].code \in Views
    BY <1>1, <1>7 DEF SessionArrives, CallTypes
  <2>3. csrf' \in [Tabs -> Nat \cup {None}]
    BY <1>1, <1>6, <2>1 DEF ClientTypes
  <2>4. CASE Answer(t, "enter", RequireAuth(t, FALSE, FALSE), None) /\ UNCHANGED view
    <3>1. /\ "enter" \in Ops /\ "enter" # "session"
          /\ RequireAuth(t, FALSE, FALSE) \in {"ok", "401", "403"}
      BY AuthCodes DEF Ops
    <3>2. CallTypes'
      BY <1>1, <2>4, <3>1, CallStep
    <3> QED
      BY <1>1, <1>2, <2>1, <2>3, <2>4, <3>2, TypesByPartNext DEF ClientTypes
  <2>5. CASE Shows(t, call[t].code) /\ call' = [call EXCEPT ![t] = NoCall]
    <3>1. view' \in [Tabs -> {"booting", "login", "firstRun", "shell", "disabled", "offline"}]
      BY <1>5, <2>2, <2>5 DEF Views
    <3>2. CallTypes'
      BY <1>1, <2>5, CallStep
    <3> QED
      BY <1>1, <1>2, <2>1, <2>3, <3>1, <3>2, TypesByPartNext DEF ClientTypes
  <2> QED
    BY <2>1, <2>4, <2>5
<1>8. CASE EnterArrives(t)
  <2>1. /\ Arrives(t, "enter") /\ Announce(t, call[t].code) /\ Shows(t, "shell")
        /\ polls' = [polls EXCEPT ![t] = TRUE] /\ UNCHANGED <<server, cookie, trouble>>
    BY <1>8 DEF EnterArrives, EntersShell
  <2>2. polls' \in [Tabs -> BOOLEAN]
    BY <1>1, <2>1 DEF ClientTypes
  <2> QED
    BY <1>1, <1>2, <1>3, <1>4, <1>5, <2>1, <2>2, TypesByPartNext DEF ClientTypes
<1>9. CASE LoginArrives(t)
  <2>1. Arrives(t, "login") /\ UNCHANGED <<server, polls, trouble>>
    BY <1>9 DEF LoginArrives
  <2>2. CASE call[t].code = "ok"
    <3>1. /\ cookie' = call[t].id /\ csrf' = [csrf EXCEPT ![t] = call[t].id]
          /\ Shows(t, "booting")
      BY <1>9, <2>2 DEF LoginArrives
    <3>2. csrf' \in [Tabs -> Nat \cup {None}]
      BY <1>1, <1>6, <3>1 DEF ClientTypes
    <3> QED
      BY <1>1, <1>2, <1>3, <1>5, <1>6, <2>1, <3>1, <3>2, TypesByPartNext
         DEF ClientTypes
  <2>3. CASE call[t].code # "ok"
    <3>1. Announce(t, call[t].code) /\ UNCHANGED <<cookie, view>>
      BY <1>9, <2>3 DEF LoginArrives
    <3> QED
      BY <1>1, <1>2, <1>3, <1>4, <2>1, <3>1, TypesByPartNext DEF ClientTypes
  <2> QED
    BY <2>2, <2>3
<1>10. CASE StatusArrives(t)
  <2>1. /\ Arrives(t, "status") /\ Announce(t, call[t].code)
        /\ UNCHANGED view \/ Shows(t, "shell")
        /\ UNCHANGED <<server, cookie, polls, trouble>>
    BY <1>10 DEF StatusArrives
  <2> QED
    BY <1>1, <1>2, <1>3, <1>4, <1>5, <2>1, TypesByPartNext DEF ClientTypes
<1>11. CASE ResultArrives(t)
  <2>1. /\ Arrives(t, "save") \/ Arrives(t, "reboot")
        /\ Announce(t, call[t].code)
        /\ UNCHANGED <<server, cookie, view, polls, trouble>>
    BY <1>11 DEF ResultArrives
  <2> QED
    BY <1>1, <1>2, <1>3, <1>4, <2>1, TypesByPartNext DEF ClientTypes
<1>12. CASE PasswordArrives(t)
  <2>1. /\ Arrives(t, "password") /\ Announce(t, call[t].code)
        /\ Shows(t, "booting") \/ UNCHANGED view
        /\ UNCHANGED <<server, cookie, polls, trouble>>
    BY <1>12 DEF PasswordArrives
  <2> QED
    BY <1>1, <1>2, <1>3, <1>4, <1>5, <2>1, TypesByPartNext DEF ClientTypes
<1>13. CASE LogoutArrives(t)
  <2>1. /\ Arrives(t, "logout") /\ cookie' = None /\ csrf' = [csrf EXCEPT ![t] = None]
        /\ Shows(t, "booting") /\ UNCHANGED <<server, polls, trouble>>
    BY <1>13 DEF LogoutArrives
  <2>2. csrf' \in [Tabs -> Nat \cup {None}]
    BY <1>1, <2>1 DEF ClientTypes
  <2> QED
    BY <1>1, <1>2, <1>3, <1>5, <2>1, <2>2, TypesByPartNext DEF ClientTypes
<1> QED
  BY <1>7, <1>8, <1>9, <1>10, <1>11, <1>12, <1>13 DEF Arrival

\* So do lost answers, reloads, the main loop, other browsers and time.
LEMMA ElsewhereTypes ==
    ASSUME TypesHold, Elsewhere \/ \E t \in Tabs : Lost(t) \/ Reload(t)
    PROVE  TypesHold'
<1>1. /\ ServerTypes /\ ClientTypes /\ CallTypes /\ trouble \in 0 .. MaxTrouble
      /\ MaxTrouble \in Nat /\ Peers \subseteq Addresses
  BY TypesByPart, ConstantTypes
<1>2. GoesWrong => trouble' \in 0 .. MaxTrouble
  BY <1>1 DEF GoesWrong
<1>3. UNCHANGED client => ClientTypes'
  BY <1>1 DEF client, ClientTypes
<1>4. UNCHANGED server => ServerTypes'
  BY <1>1 DEF server, ServerTypes, OneEntryEach
<1>5. UNCHANGED call => CallTypes'
  BY <1>1 DEF CallTypes
<1>6. CASE \E t \in Tabs : Lost(t)
  <2>1. PICK t \in Tabs : Lost(t)
    BY <1>6
  <2>2. /\ GoesWrong /\ call' = [call EXCEPT ![t] = NoCall]
        /\ UNCHANGED <<server, cookie, csrf>>
    BY <2>1 DEF Lost
  <2>3. CallTypes'
    BY <1>1, <2>2, CallStep
  <2>4. \/ view' = [view EXCEPT ![t] = "offline"] /\ UNCHANGED polls
        \/ view' = [view EXCEPT ![t] = "shell"] /\ polls' = [polls EXCEPT ![t] = TRUE]
        \/ UNCHANGED <<view, polls>>
    <3>1. CASE call[t].op = "session"
      BY <2>1, <3>1 DEF Lost, Shows
    <3>2. CASE call[t].op = "enter"
      BY <2>1, <3>2 DEF Lost, EntersShell, Shows
    <3>3. CASE call[t].op # "session" /\ call[t].op # "enter"
      BY <2>1, <3>3 DEF Lost
    <3> QED
      BY <3>1, <3>2, <3>3
  <2>5. ClientTypes'
    <3>1. /\ cookie' = cookie /\ csrf' = csrf
      BY <2>2
    <3>2. CASE view' = [view EXCEPT ![t] = "offline"] /\ UNCHANGED polls
      BY <1>1, <3>1, <3>2 DEF ClientTypes
    <3>3. CASE view' = [view EXCEPT ![t] = "shell"] /\ polls' = [polls EXCEPT ![t] = TRUE]
      BY <1>1, <3>1, <3>3 DEF ClientTypes
    <3>4. CASE UNCHANGED <<view, polls>>
      BY <1>1, <3>1, <3>4 DEF ClientTypes
    <3> QED
      BY <2>4, <3>2, <3>3, <3>4
  <2> QED
    BY <1>2, <1>4, <2>2, <2>3, <2>5, TypesByPartNext
<1>7. CASE \E t \in Tabs : Reload(t)
  <2>1. PICK t \in Tabs : Shows(t, "booting")
    BY <1>7 DEF Reload
  <2>2. UNCHANGED <<server, cookie, csrf, polls, call, trouble>>
    BY <1>7 DEF Reload
  <2>3. ClientTypes'
    BY <1>1, <2>1, <2>2 DEF ClientTypes, Shows
  <2> QED
    BY <1>1, <1>4, <1>5, <2>2, <2>3, TypesByPartNext
<1>8. CASE Reboot
  <2>1. /\ asked' = {} /\ sessions' = [i \in Slots |-> None]
        /\ rate' = [e \in Entries |-> Free]
        /\ \/ passwordSet' = FALSE /\ enabled' = TRUE
           \/ UNCHANGED <<passwordSet, enabled>>
        /\ UNCHANGED <<client, call, trouble>>
    BY <1>8 DEF Reboot
  <2>2. Free \in RateEntries /\ Free.ip = None
    BY ConstantTypes DEF Free, RateEntries
  <2>3. rate' \in [Entries -> RateEntries] /\ OneEntryEach(rate')
    <3> HIDE DEF Free
    <3> QED
      BY <2>1, <2>2 DEF OneEntryEach
  <2>4. ServerTypes'
    BY <1>1, <2>1, <2>3 DEF ServerTypes
  <2> QED
    BY <1>1, <1>3, <1>5, <2>1, <2>4, TypesByPartNext
<1>9. CASE ResetOnPanel
  <2>1. /\ GoesWrong /\ asked' = asked \cup {"reset"}
        /\ UNCHANGED <<passwordSet, enabled, sessions, rate, client, call>>
    BY <1>9 DEF ResetOnPanel
  <2>2. ServerTypes'
    BY <1>1, <2>1 DEF ServerTypes, OneEntryEach
  <2> QED
    BY <1>2, <1>3, <1>5, <2>1, <2>2, TypesByPartNext
<1>10. CASE Tick
  <2>1. /\ rate' = [e \in Entries |->
                      [rate[e] EXCEPT !.locked = IF @ > 0 THEN @ - 1 ELSE 0]]
        /\ UNCHANGED <<passwordSet, enabled, sessions, asked, client, call, trouble>>
    BY <1>10 DEF Tick
  <2>2. \A e \in Entries : rate'[e] \in RateEntries /\ rate'[e].ip = rate[e].ip
    <3>1. \A e \in Entries : rate[e] \in RateEntries
      BY <1>1 DEF ServerTypes
    <3>2. MaxLockout \in Nat
      BY ConstantTypes
    <3> QED
      BY <2>1, <3>1, <3>2 DEF RateEntries
  <2>3. rate' \in [Entries -> RateEntries] /\ OneEntryEach(rate')
    <3>1. DOMAIN rate' = Entries /\ rate' = [e \in Entries |-> rate'[e]]
      BY <2>1
    <3> QED
      BY <1>1, <2>2, <3>1 DEF ServerTypes, OneEntryEach
  <2>4. ServerTypes'
    BY <1>1, <2>1, <2>3 DEF ServerTypes
  <2> QED
    BY <1>1, <1>3, <1>5, <2>1, <2>4, TypesByPartNext
<1>11. CASE \E ip \in Peers : PeerLogsIn(ip)
  <2>1. PICK ip \in Peers : PeerLogsIn(ip)
    BY <1>11
  <2>2. /\ GoesWrong /\ CreateSession(NewToken) /\ NoteLoginSuccess(ip)
        /\ UNCHANGED <<passwordSet, enabled, asked, client, call>>
    BY <2>1 DEF PeerLogsIn
  <2>3. rate' \in [Entries -> RateEntries] /\ OneEntryEach(rate')
    BY <1>1, <2>2, NoteTypes
  <2>4. sessions' \in [Slots -> Nat \cup {None}]
    BY <1>1, <2>2, TokenIsNew, SlotFacts DEF CreateSession, ServerTypes
  <2>5. ServerTypes'
    BY <1>1, <2>2, <2>3, <2>4 DEF ServerTypes
  <2> QED
    BY <1>2, <1>3, <1>5, <2>2, <2>5, TypesByPartNext
<1>12. CASE \E ip \in Peers : PeerMistypes(ip)
  <2>1. PICK ip \in Peers : PeerMistypes(ip)
    BY <1>12
  <2>2. /\ GoesWrong /\ NoteLoginFailure(ip)
        /\ UNCHANGED <<passwordSet, enabled, sessions, asked, client, call>>
    BY <2>1 DEF PeerMistypes
  <2>3. rate' \in [Entries -> RateEntries] /\ OneEntryEach(rate')
    BY <1>1, <2>2, NoteTypes
  <2>4. ServerTypes'
    BY <1>1, <2>2, <2>3 DEF ServerTypes
  <2> QED
    BY <1>2, <1>3, <1>5, <2>2, <2>4, TypesByPartNext
<1>13. CASE \E i \in Slots : Expire(i)
  <2>1. PICK i \in Slots : Expire(i)
    BY <1>13
  <2>2. /\ GoesWrong /\ sessions' = [sessions EXCEPT ![i] = None]
        /\ UNCHANGED <<passwordSet, enabled, rate, asked, client, call>>
    BY <2>1 DEF Expire
  <2>3. ServerTypes'
    BY <1>1, <2>2 DEF ServerTypes, OneEntryEach
  <2> QED
    BY <1>2, <1>3, <1>5, <2>2, <2>3, TypesByPartNext
<1> QED
  BY <1>6, <1>7, <1>8, <1>9, <1>10, <1>11, <1>12, <1>13 DEF Elsewhere

\* One step keeps the types.
LEMMA TypeStep ==
    ASSUME TypesHold, [Next]_vars
    PROVE  TypesHold'
<1>1. CASE UNCHANGED vars
  <2>1. ServerTypes /\ ClientTypes /\ CallTypes /\ trouble \in 0 .. MaxTrouble
    BY TypesByPart
  <2>2. ServerTypes'
    BY <1>1, <2>1 DEF vars, server, ServerTypes, OneEntryEach
  <2>3. ClientTypes' /\ CallTypes' /\ trouble' \in 0 .. MaxTrouble
    BY <1>1, <2>1 DEF vars, client, ClientTypes, CallTypes
  <2> QED
    BY <2>2, <2>3, TypesByPartNext
<1> QED
  BY <1>1, RequestTypes, ArrivalTypes, ElsewhereTypes DEF Next

\* The tables, the tabs and what is between them keep their types: an address
\* has one entry at most, its count stays in its byte and its lockout below the
\* limit, however many failures it has.
THEOREM WebTypes == Spec => [](TypeOK /\ TypesHold)
<1>1. ASSUME Init
      PROVE  TypesHold
  <2>1. Free \in RateEntries /\ Free.ip = None /\ NoCall \in Calls /\ NoCall.op = None
    BY ConstantTypes DEF Free, RateEntries, NoCall, Calls
  <2>2. rate \in [Entries -> RateEntries] /\ OneEntryEach(rate)
    <3> HIDE DEF Free
    <3> QED
      BY <1>1, <2>1 DEF Init, OneEntryEach
  <2>3. ServerTypes
    BY <1>1, <2>2 DEF Init, ServerTypes
  <2>4. ClientTypes
    BY <1>1 DEF Init, ClientTypes
  <2>5. CallTypes
    <3>1. None # "session"
      BY ConstantTypes DEF Ops
    <3> HIDE DEF NoCall
    <3> QED
      BY <1>1, <2>1, <3>1 DEF Init, CallTypes
  <2>6. trouble \in 0 .. MaxTrouble
    BY <1>1, ConstantTypes DEF Init
  <2> QED
    BY <2>3, <2>4, <2>5, <2>6, TypesByPart
<1>2. TypesHold /\ [Next]_vars => TypesHold'
  BY TypeStep
<1>3. TypesHold => TypeOK
  BY DEF TypesHold
<1> QED
  BY <1>1, <1>2, <1>3, PTL DEF Spec

(* ------------------------ a login makes room --------------------------- *)

\* Whoever logs in while a slot is free takes it, and ends one session at most
\* when none is: the table never evicts more than it must.
THEOREM LoginsMakeRoom == Spec => LoginMakesRoom
<1> DEFINE ended == {i \in Slots : sessions[i] # None /\ sessions'[i] # sessions[i]}
           A == (\E t \in Tabs : Login(t)) \/ (\E ip \in Peers : PeerLogsIn(ip)) =>
                   /\ (\E i \in Slots : sessions[i] = None) => ended = {}
                   /\ Cardinality(ended) <= 1
<1>1. ASSUME TypesHold, (\E t \in Tabs : Login(t)) \/ (\E ip \in Peers : PeerLogsIn(ip))
      PROVE  /\ (\E i \in Slots : sessions[i] = None) => ended = {}
             /\ Cardinality(ended) <= 1
  <2>1. UNCHANGED sessions \/ CreateSession(NewToken)
    BY <1>1 DEF Login, PeerLogsIn
  <2>2. sessions \in [Slots -> Nat \cup {None}]
    BY <1>1 DEF TypesHold, TypeOK
  <2>3. ended \subseteq {SlotForLogin}
    BY <2>1, <2>2, SlotFacts DEF CreateSession
  <2>4. (\E i \in Slots : sessions[i] = None) => ended = {}
    BY <2>1, <2>2, <2>3, SlotFacts
  <2>5. Cardinality(ended) <= 1
    <3>1. IsFiniteSet({SlotForLogin}) /\ Cardinality({SlotForLogin}) = 1
      BY FS_Singleton
    <3> HIDE DEF ended
    <3> QED
      BY <2>3, <3>1, FS_Subset
  <2> QED
    BY <2>4, <2>5
<1>2. TypesHold /\ [Next]_vars => [A]_vars
  BY <1>1
<1>3. LoginMakesRoom <=> [][A]_vars
  BY DEF LoginMakesRoom
<1> HIDE DEF A
<1> QED
  BY <1>2, <1>3, WebTypes, PTL DEF Spec

(* ------------------------- lockouts run out ---------------------------- *)

\* Only an address is locked out.
LockedHasAddress == \A e \in Entries : rate[e].locked > 0 => rate[e].ip # None

\* The lockout of entry e is kept, or its entry is the one that a full table
\* of other addresses gives up.
Kept(e) == rate'[e].ip = rate[e].ip /\ rate'[e].locked >= rate[e].locked
GivenUp(e) ==
    /\ rate'[e].ip # rate[e].ip
    /\ \A f \in Entries : rate[f].ip # None /\ rate[e].locked <= rate[f].locked
LockoutsKept == \A e \in Entries : rate[e].locked > 0 => Kept(e) \/ GivenUp(e)

\* Writing the entry of an address that is not locked out, or one that says the
\* same of its lockout, costs nobody else his.
LEMMA SetRateKeeps ==
    ASSUME TypesHold, LockedHasAddress, NEW ip \in Addresses,
           NEW entry \in RateEntries, entry.ip = ip,
           RateOf(ip).locked = 0 \/ entry = RateOf(ip),
           SetRate(ip, entry)
    PROVE  LockoutsKept /\ LockedHasAddress'
<1> DEFINE k == RateEntryFor(ip)
<1>1. /\ k \in Entries /\ \A e \in Entries : rate[e].ip = ip => e = k
      /\ \/ rate[k].ip \in {ip, None}
         \/ \A e \in Entries : rate[e].ip # None /\ rate[k].locked <= rate[e].locked
      /\ rate \in [Entries -> RateEntries] /\ ip # None
  BY RateEntryFacts, ConstantTypes DEF TypesHold
<1>2. rate' = [rate EXCEPT ![k] = entry]
  BY DEF SetRate
<1>3. rate[k].ip = ip => RateOf(ip) = rate[k]
  BY DEF RateOf
<1> HIDE DEF k
<1>4. /\ rate'[k] = entry
      /\ \A e \in Entries : e # k => rate'[e] = rate[e]
      /\ \A e \in Entries : rate[e].locked \in Nat
  <2>1. \A e \in Entries : rate[e] \in RateEntries
    BY <1>1
  <2>2. MaxLockout \in Nat
    BY ConstantTypes
  <2> QED
    BY <1>1, <1>2, <2>1, <2>2 DEF RateEntries
<1>5. ASSUME NEW e \in Entries, rate[e].locked > 0
      PROVE  Kept(e) \/ GivenUp(e)
  <2>1. CASE e # k
    BY <1>4, <2>1 DEF Kept
  <2>2. CASE e = k /\ rate[k].ip = ip
    <3>1. entry = rate[k]
      BY <1>3, <1>4, <1>5, <2>2
    <3> QED
      BY <1>4, <2>2, <3>1 DEF Kept
  <2>3. CASE e = k /\ rate[k].ip # ip
    <3>1. rate[k].ip # None
      BY <1>5, <2>3 DEF LockedHasAddress
    <3> QED
      BY <1>1, <1>4, <2>3, <3>1 DEF GivenUp
  <2> QED
    BY <2>1, <2>2, <2>3
<1>6. LockedHasAddress'
  BY <1>1, <1>4 DEF LockedHasAddress
<1> QED
  BY <1>5, <1>6 DEF LockoutsKept

\* So does noting a failure or a success of an address that is not locked out.
LEMMA NoteKeeps ==
    ASSUME TypesHold, LockedHasAddress, NEW ip \in Addresses
    PROVE  /\ RateOf(ip).locked = 0 /\ NoteLoginFailure(ip) =>
                 LockoutsKept /\ LockedHasAddress'
           /\ RateOf(ip).locked = 0 /\ NoteLoginSuccess(ip) =>
                 LockoutsKept /\ LockedHasAddress'
           /\ SetRate(ip, RateOf(ip)) => LockoutsKept /\ LockedHasAddress'
<1>1. RateOf(ip) \in RateEntries /\ RateOf(ip).ip = ip
  BY RateOfFacts
<1>2. SetRate(ip, RateOf(ip)) => LockoutsKept /\ LockedHasAddress'
  BY <1>1, SetRateKeeps
<1>3. [Free EXCEPT !.ip = ip] \in RateEntries /\ [Free EXCEPT !.ip = ip].ip = ip
  BY ConstantTypes DEF Free, RateEntries
<1>4. ASSUME RateOf(ip).locked = 0, NoteLoginSuccess(ip)
      PROVE  LockoutsKept /\ LockedHasAddress'
  BY <1>3, <1>4, SetRateKeeps DEF NoteLoginSuccess
<1>5. ASSUME RateOf(ip).locked = 0, NoteLoginFailure(ip)
      PROVE  LockoutsKept /\ LockedHasAddress'
  <2> DEFINE n == Min({RateOf(ip).failures + 1, MaxFailures})
             entry == [ip |-> ip, failures |-> n,
                       locked |-> IF n >= FailuresBeforeLockout THEN Lockout(n)
                                  ELSE RateOf(ip).locked]
  <2>1. SetRate(ip, entry)
    BY <1>5 DEF NoteLoginFailure
  <2>2. entry \in RateEntries /\ entry.ip = ip
    BY NoteEntry
  <2> HIDE DEF entry
  <2> QED
    BY <1>5, <2>1, <2>2, SetRateKeeps
<1> QED
  BY <1>2, <1>4, <1>5

\* Every step keeps the lockouts, lets time run, or is a restart.
LEMMA LockoutStep ==
    ASSUME TypesHold, LockedHasAddress, [Next]_vars
    PROVE  /\ \/ LockoutsKept
              \/ Reboot
              \/ /\ Tick
                 /\ \A e \in Entries : rate[e].locked > 0 =>
                       /\ rate'[e].ip = rate[e].ip
                       /\ rate'[e].locked = rate[e].locked - 1
           /\ LockedHasAddress'
<1>a. /\ \A e \in Entries : rate[e].locked \in Nat
      /\ rate \in [Entries -> RateEntries]
      /\ Home \in Addresses /\ Peers \subseteq Addresses
  <2>1. MaxLockout \in Nat /\ \A e \in Entries : rate[e].locked \in 0 .. MaxLockout
    BY ConstantTypes DEF TypesHold, TypeOK
  <2> QED
    BY <2>1, ConstantTypes DEF TypesHold
<1>1. CASE UNCHANGED rate
  BY <1>a, <1>1 DEF LockoutsKept, Kept, LockedHasAddress
<1>2. ASSUME NEW t \in Tabs, Login(t)
      PROVE  LockoutsKept /\ LockedHasAddress'
  <2>1. CASE RateOf(Home).locked > 0
    <3>1. SetRate(Home, RateOf(Home))
      BY <1>2, <2>1 DEF Login
    <3> QED
      BY <1>a, <3>1, NoteKeeps
  <2>2. CASE RateOf(Home).locked = 0
    <3>1. NoteLoginFailure(Home) \/ NoteLoginSuccess(Home)
      BY <1>2, <2>2 DEF Login
    <3> QED
      BY <1>a, <2>2, <3>1, NoteKeeps
  <2>3. RateOf(Home).locked > 0 \/ RateOf(Home).locked = 0
    <3>1. RateOf(Home).locked \in 0 .. MaxLockout /\ MaxLockout \in Nat
      BY <1>a, RateOfFacts, ConstantTypes DEF RateEntries
    <3> QED
      BY <3>1
  <2> QED
    BY <2>1, <2>2, <2>3
<1>3. ASSUME NEW t \in Tabs, Mistype(t)
      PROVE  LockoutsKept /\ LockedHasAddress'
  <2>1. RateOf(Home).locked \in 0 .. MaxLockout /\ MaxLockout \in Nat
    BY <1>a, RateOfFacts, ConstantTypes DEF RateEntries
  <2>2. \/ SetRate(Home, RateOf(Home))
        \/ RateOf(Home).locked = 0 /\ NoteLoginFailure(Home)
    BY <1>3, <2>1 DEF Mistype
  <2> QED
    BY <1>a, <2>2, NoteKeeps
<1>4. ASSUME NEW ip \in Peers, PeerLogsIn(ip) \/ PeerMistypes(ip)
      PROVE  LockoutsKept /\ LockedHasAddress'
  <2>1. /\ RateOf(ip).locked = 0
        /\ NoteLoginFailure(ip) \/ NoteLoginSuccess(ip)
    BY <1>4 DEF PeerLogsIn, PeerMistypes
  <2> QED
    BY <1>a, <2>1, NoteKeeps
<1>5. CASE Tick
  <2>1. rate' = [e \in Entries |-> [rate[e] EXCEPT !.locked = IF @ > 0 THEN @ - 1 ELSE 0]]
    BY <1>5 DEF Tick
  <2>2. \A e \in Entries : rate[e] \in RateEntries
    BY <1>a
  <2>3. \A e \in Entries : /\ rate'[e].ip = rate[e].ip
                           /\ rate[e].locked > 0 => rate'[e].locked = rate[e].locked - 1
                           /\ rate[e].locked = 0 => rate'[e].locked = 0
    BY <1>a, <2>1, <2>2 DEF RateEntries
  <2>4. LockedHasAddress'
    <3> SUFFICES ASSUME NEW e \in Entries, rate'[e].locked > 0 PROVE rate'[e].ip # None
      BY DEF LockedHasAddress
    <3>1. rate[e].locked > 0
      BY <1>a, <2>3
    <3> QED
      BY <2>3, <3>1 DEF LockedHasAddress
  <2> QED
    BY <1>5, <2>3, <2>4
<1>6. CASE Reboot
  <2>1. \A e \in Entries : rate'[e].locked = 0
    BY <1>6 DEF Reboot, Free
  <2> QED
    BY <1>6, <2>1 DEF LockedHasAddress
<1>7. ASSUME NEW t \in Tabs, Request(t)
      PROVE  UNCHANGED rate \/ Login(t) \/ Mistype(t)
  BY <1>7 DEF Request, GetSession, Poll, Save, Logout, SetPassword, AskReboot, server
<1>8. ASSUME NEW t \in Tabs, Arrival(t) \/ Lost(t) \/ Reload(t)
      PROVE  UNCHANGED rate
  BY <1>8 DEF Arrival, SessionArrives, EnterArrives, LoginArrives, StatusArrives,
              ResultArrives, PasswordArrives, LogoutArrives, Lost, Reload, server
<1>9. ASSUME Elsewhere
      PROVE  \/ UNCHANGED rate \/ Reboot \/ Tick
             \/ \E ip \in Peers : PeerLogsIn(ip) \/ PeerMistypes(ip)
  BY <1>9 DEF Elsewhere, ResetOnPanel, Expire
<1>10. CASE UNCHANGED vars
  BY <1>1, <1>10 DEF vars, server
<1> QED
  BY <1>1, <1>2, <1>3, <1>4, <1>5, <1>6, <1>7, <1>8, <1>9, <1>10 DEF Next

\* A lockout ends when its time is over and not before, whatever is typed, lost
\* or restarted in the tabs; only a restart of the panel, or a table full of
\* other addresses in which it is the first to end, forgets it.
THEOREM LockoutsHold == Spec => LockoutHolds
<1> DEFINE A == \A e \in Entries : rate[e].locked > 0 =>
                  \/ rate'[e].ip = rate[e].ip /\ rate'[e].locked >= rate[e].locked
                  \/ /\ Tick
                     /\ rate'[e].ip = rate[e].ip /\ rate'[e].locked = rate[e].locked - 1
                  \/ Reboot
                  \/ /\ rate'[e].ip # rate[e].ip
                     /\ \A f \in Entries :
                           rate[f].ip # None /\ rate[e].locked <= rate[f].locked
<1>1. Init => LockedHasAddress
  BY DEF Init, Free, LockedHasAddress
<1>2. TypesHold /\ LockedHasAddress /\ [Next]_vars => LockedHasAddress' /\ [A]_vars
  <2>1. ASSUME TypesHold, LockedHasAddress, [Next]_vars
        PROVE  LockedHasAddress' /\ A
    BY <2>1, LockoutStep DEF LockoutsKept, Kept, GivenUp
  <2> QED
    BY <2>1
<1>3. LockoutHolds <=> [][A]_vars
  BY DEF LockoutHolds
<1> HIDE DEF A
<1> QED
  BY <1>1, <1>2, <1>3, WebTypes, PTL DEF Spec
=============================================================================
