----------------------- MODULE AccountSemaphoreProofs -----------------------
(***************************************************************************)
(* Admission by accountSemaphore.ts, for any number of callers, gates and  *)
(* limits: counters and queues agree with the permits and the waiters,     *)
(* admissions fit their limits and come in the order of arrival, and no    *)
(* step of the code leaves behind a waiter that it made admissible.        *)
(*                                                                         *)
(* The argument: Round, one turn of the loop of drainQueues, keeps the     *)
(* tables Sound and changes them only as Drains allows; by induction over  *)
(* the rounds so does Drained, and it ends with nobody admissible.         *)
(***************************************************************************)
EXTENDS AccountSemaphore, SequenceTheorems, FiniteSetTheorems, TLAPS

-----------------------------------------------------------------------------
\* Induction over the naturals for a set.

\* A set of naturals has a least element.
LEMMA LeastElement ==
  ASSUME NEW T, T \subseteq Nat, T # {}
  PROVE  \E x \in T : \A y \in T : x <= y
<1> DEFINE Less == {ss \in Nat \X Nat : ss[1] < ss[2]}
<1>1. IsWellFoundedOn(Less, Nat)
  BY NatLessThanWellFounded DEF OpToRel
<1>2. PICK x \in T : \A y \in T : <<y, x>> \notin Less
  <2> HIDE DEF Less
  <2> QED
    BY <1>1, WFMin
<1>3. ASSUME NEW y \in T PROVE x <= y
  <2>1. <<y, x>> \in Nat \X Nat
    OBVIOUS
  <2>2. ~ (y < x)
    BY <1>2, <2>1
  <2> QED
    BY <2>2
<1> QED
  BY <1>3

\* A set that holds 0 and the successor of each of its naturals holds them all.
LEMMA SetInduction ==
  ASSUME NEW S, 0 \in S, \A n \in Nat : n \in S => n + 1 \in S
  PROVE  Nat \subseteq S
<1> DEFINE T == Nat \ S
<1> SUFFICES ASSUME T # {} PROVE FALSE
  OBVIOUS
<1>1. PICK x \in T : \A y \in T : x <= y
  <2>1. T \subseteq Nat
    OBVIOUS
  <2> HIDE DEF T
  <2> QED
    BY <2>1, LeastElement
<1>2. x # 0 /\ x - 1 \in Nat /\ x = (x - 1) + 1
  OBVIOUS
<1>3. x - 1 \in S
  BY <1>1, <1>2
<1> QED
  BY <1>2, <1>3

-----------------------------------------------------------------------------
\* Queues.

\* splice of the place findIndex found takes one request out and leaves the
\* others in their order.
LEMMA RemoveFirstProperties ==
  ASSUME NEW S, NEW s \in Seq(S), IsInjective(s), NEW p
  PROVE  LET r == RemoveFirst(s, p) IN
         /\ r \in Seq(S)
         /\ IsInjective(r)
         /\ Range(r) = Range(s) \ {p}
         /\ \A a, b : Before(a, b, r) <=> Before(a, b, s) /\ a # p /\ b # p
         /\ p \in Range(s) => Len(r) = Len(s) - 1
<1> DEFINE r == RemoveFirst(s, p)
<1>0. Len(s) \in Nat /\ DOMAIN s = 1..Len(s)
  BY LenProperties
<1>1. CASE \E i \in 1..Len(s) : s[i] = p
  <2> DEFINE I == {j \in 1..Len(s) : s[j] = p}
  <2>1. PICK i \in 1..Len(s) : s[i] = p
    BY <1>1
  <2>2. I = {i}
    BY <1>0, <2>1 DEF IsInjective
  <2>3. SelectInSeq(s, LAMBDA v : v = p) = i
    <3>1. SelectInSeq(s, LAMBDA v : v = p) = IF I # {} THEN Min(I) ELSE 0
      BY DEF SelectInSeq
    <3>2. Min(I) = i
      BY <2>2 DEF Min
    <3> QED
      BY <2>2, <3>1, <3>2
  <2> DEFINE u == SubSeq(s, 1, i - 1)
             v == SubSeq(s, i + 1, Len(s))
  <2>4. r = u \o v
    BY <1>1, <2>3 DEF RemoveFirst, RemoveAt
  <2>5. u \in Seq(S) /\ Len(u) = i - 1 /\ \A j \in 1..(i - 1) : u[j] = s[j]
    <3>1. \A j \in 1..(i - 1) : s[j] \in S
      BY ElementOfSeq, <1>0, <2>1
    <3> QED
      BY <3>1, <1>0, <2>1, SubSeqProperties
  <2>6. v \in Seq(S) /\ Len(v) = Len(s) - i /\ \A j \in 1..(Len(s) - i) : v[j] = s[i + j]
    <3>1. PICK m \in Int : m = i + 1
      OBVIOUS
    <3>2. \A j \in m..Len(s) : s[j] \in S
      BY ElementOfSeq, <1>0, <3>1
    <3>3. v = SubSeq(s, m, Len(s))
      BY <3>1
    <3> HIDE DEF v
    <3>4. /\ v \in Seq(S)
          /\ Len(v) = IF m <= Len(s) THEN Len(s) - m + 1 ELSE 0
          /\ \A j \in 1..(Len(s) - m + 1) : v[j] = s[m + j - 1]
      BY <1>0, <3>2, <3>3, SubSeqProperties
    <3>5. \A j \in 1..(Len(s) - i) : j \in 1..(Len(s) - m + 1) /\ m + j - 1 = i + j
      BY <1>0, <3>1
    <3>6. Len(v) = Len(s) - i
      <4>1. Len(v) = IF m <= Len(s) THEN Len(s) - m + 1 ELSE 0
        BY <3>4
      <4>2. CASE m <= Len(s)
        <5>1. Len(v) = Len(s) - m + 1
          BY <4>1, <4>2
        <5> QED
          BY <1>0, <2>1, <3>1, <5>1
      <4>3. CASE ~ (m <= Len(s))
        <5>1. Len(v) = 0
          BY <4>1, <4>3
        <5>2. Len(s) \in Nat /\ i \in Nat /\ i <= Len(s)
          BY <1>0
        <5>3. i = Len(s)
          BY <3>1, <4>3, <5>2
        <5>4. Len(s) - i = 0
          BY <5>2, <5>3
        <5> QED
          BY <5>1, <5>4
      <4> QED
        BY <4>2, <4>3
    <3> QED
      BY <3>4, <3>5, <3>6
  <2>7. /\ r \in Seq(S) /\ Len(r) = Len(s) - 1
        /\ \A j \in 1..(Len(s) - 1) : r[j] = IF j < i THEN s[j] ELSE s[j + 1]
    <3> HIDE DEF r, u, v
    <3>1. /\ r \in Seq(S) /\ Len(r) = Len(u) + Len(v)
          /\ \A j \in 1..(Len(u) + Len(v)) : r[j] = IF j <= Len(u) THEN u[j] ELSE v[j - Len(u)]
      BY <2>4, <2>5, <2>6, ConcatProperties
    <3>2. Len(u) = i - 1 /\ Len(v) = Len(s) - i /\ Len(r) = Len(s) - 1
      BY <3>1, <2>5, <2>6, <1>0
    <3>3. ASSUME NEW j \in 1..(Len(s) - 1) PROVE r[j] = IF j < i THEN s[j] ELSE s[j + 1]
      <4>1. r[j] = IF j <= i - 1 THEN u[j] ELSE v[j - (i - 1)]
        BY <3>1, <3>2, <1>0
      <4>2. CASE j < i
        BY <4>1, <4>2, <2>5
      <4>3. CASE ~ (j < i)
        <5>1. j - (i - 1) \in 1..(Len(s) - i) /\ i + (j - (i - 1)) = j + 1
          BY <4>3, <1>0
        <5>2. v[j - (i - 1)] = s[j + 1]
          BY <5>1, <2>6
        <5> QED
          BY <4>1, <4>3, <5>2
      <4> QED
        BY <4>2, <4>3
    <3> QED
      BY <3>1, <3>2, <3>3
  <2>8. DOMAIN r = 1..(Len(s) - 1)
    BY <2>7, LenProperties
  <2> HIDE DEF r
  <2>9. IsInjective(r)
    <3> DEFINE J(x) == IF x < i THEN x ELSE x + 1
    <3>1. \A x \in DOMAIN r : J(x) \in DOMAIN s /\ r[x] = s[J(x)]
      BY <1>0, <2>1, <2>7, <2>8
    <3>2. \A x, y \in DOMAIN r : J(x) = J(y) => x = y
      BY <1>0, <2>1, <2>8
    <3> HIDE DEF J
    <3>3. ASSUME NEW x \in DOMAIN r, NEW y \in DOMAIN r, r[x] = r[y] PROVE x = y
      <4>1. s[J(x)] = s[J(y)]
        BY <3>1, <3>3
      <4>2. J(x) = J(y)
        BY <3>1, <4>1 DEF IsInjective
      <4> QED
        BY <3>2, <4>2
    <3> QED
      BY <3>3 DEF IsInjective
  <2>10. Range(r) = Range(s) \ {p}
    <3>1. ASSUME NEW x \in Range(r) PROVE x \in Range(s) /\ x # p
      <4>1. PICK j \in 1..(Len(s) - 1) : x = r[j]
        BY <2>8 DEF Range
      <4>2. PICK h \in 1..Len(s) : h # i /\ x = s[h]
        BY <1>0, <2>1, <2>7, <4>1
      <4> QED
        BY <1>0, <2>1, <4>2 DEF Range, IsInjective
    <3>2. ASSUME NEW x \in Range(s), x # p PROVE x \in Range(r)
      <4>1. PICK h \in 1..Len(s) : x = s[h]
        BY <1>0 DEF Range
      <4>2. h # i
        BY <2>1, <3>2, <4>1
      <4>3. CASE h < i
        BY <1>0, <2>1, <2>7, <2>8, <4>1, <4>3 DEF Range
      <4>4. CASE h > i
        <5>1. h - 1 \in 1..(Len(s) - 1) /\ ~ (h - 1 < i) /\ (h - 1) + 1 = h
          BY <1>0, <4>4
        <5> QED
          BY <2>7, <2>8, <4>1, <5>1 DEF Range
      <4> QED
        BY <4>2, <4>3, <4>4, <1>0
    <3> QED
      BY <3>1, <3>2
  <2>11. ASSUME NEW a, NEW b
         PROVE  Before(a, b, r) <=> Before(a, b, s) /\ a # p /\ b # p
    <3>1. ASSUME Before(a, b, r) PROVE Before(a, b, s)
      <4>1. PICK j, h \in 1..(Len(s) - 1) : r[j] = a /\ r[h] = b /\ j < h
        BY <3>1, <2>8 DEF Before
      <4> DEFINE J(x) == IF x < i THEN x ELSE x + 1
      <4>2. J(j) \in DOMAIN s /\ J(h) \in DOMAIN s /\ J(j) < J(h) /\ s[J(j)] = a /\ s[J(h)] = b
        BY <1>0, <2>1, <2>7, <4>1
      <4> QED
        BY <4>2 DEF Before
    <3>2. ASSUME Before(a, b, r) PROVE a # p /\ b # p
      BY <3>2, <2>10 DEF Before, Range
    <3>3. ASSUME Before(a, b, s), a # p, b # p PROVE Before(a, b, r)
      <4>1. PICK j, h \in 1..Len(s) : s[j] = a /\ s[h] = b /\ j < h
        BY <3>3, <1>0 DEF Before
      <4>2. j # i /\ h # i
        BY <2>1, <3>3, <4>1
      <4> DEFINE J(x) == IF x < i THEN x ELSE x - 1
      <4>3. J(j) \in DOMAIN r /\ J(h) \in DOMAIN r /\ J(j) < J(h) /\ r[J(j)] = a /\ r[J(h)] = b
        BY <1>0, <2>1, <2>7, <2>8, <4>1, <4>2
      <4> QED
        BY <4>3 DEF Before
    <3> QED
      BY <3>1, <3>2, <3>3
  <2> QED
    BY <2>7, <2>9, <2>10, <2>11 DEF r
<1>2. CASE ~ \E i \in 1..Len(s) : s[i] = p
  <2>1. r = s
    BY <1>2 DEF RemoveFirst
  <2>2. p \notin Range(s)
    BY <1>0, <1>2 DEF Range
  <2>3. \A a, b : Before(a, b, s) => a \in Range(s) /\ b \in Range(s)
    BY DEF Before, Range
  <2> HIDE DEF r
  <2>4. \A a, b : Before(a, b, s) => a # p /\ b # p
    BY <2>2, <2>3
  <2>5. Range(r) = Range(s) \ {p}
    BY <2>1, <2>2
  <2> QED
    BY <2>1, <2>2, <2>4, <2>5 DEF r
<1> QED
  BY <1>1, <1>2

\* push puts a new request behind all others.
LEMMA AppendKeepsOrder ==
  ASSUME NEW S, NEW s \in Seq(S), IsInjective(s), NEW p \in S, p \notin Range(s)
  PROVE  LET r == Append(s, p) IN
         /\ r \in Seq(S)
         /\ IsInjective(r)
         /\ Range(r) = Range(s) \union {p}
         /\ \A a, b : Before(a, b, r) <=> Before(a, b, s) \/ (a \in Range(s) /\ b = p)
<1> DEFINE r == Append(s, p)
<1>0. Len(s) \in Nat /\ DOMAIN s = 1..Len(s)
  BY LenProperties
<1>1. /\ r \in Seq(S) /\ Len(r) = Len(s) + 1
      /\ \A i \in 1..Len(s) : r[i] = s[i]
      /\ r[Len(s) + 1] = p
  BY AppendProperties
<1>2. DOMAIN r = 1..(Len(s) + 1)
  BY <1>1, LenProperties
<1> HIDE DEF r
<1>3. \A i \in 1..Len(s) : s[i] # p
  BY <1>0 DEF Range
<1>4. IsInjective(r)
  BY <1>0, <1>1, <1>2, <1>3 DEF IsInjective
<1>5. Range(r) = Range(s) \union {p}
  <2>1. ASSUME NEW x \in Range(r) PROVE x \in Range(s) \union {p}
    BY <1>0, <1>1, <1>2 DEF Range
  <2>2. ASSUME NEW x \in Range(s) PROVE x \in Range(r)
    BY <1>0, <1>1, <1>2 DEF Range
  <2>3. p \in Range(r)
    BY <1>0, <1>1, <1>2 DEF Range
  <2> QED
    BY <2>1, <2>2, <2>3
<1>6. ASSUME NEW a, NEW b
      PROVE  Before(a, b, r) <=> Before(a, b, s) \/ (a \in Range(s) /\ b = p)
  <2>1. ASSUME Before(a, b, r) PROVE Before(a, b, s) \/ (a \in Range(s) /\ b = p)
    <3>1. PICK i, j \in 1..(Len(s) + 1) : r[i] = a /\ r[j] = b /\ i < j
      BY <2>1, <1>2 DEF Before
    <3>2. i \in 1..Len(s) /\ s[i] = a
      BY <3>1, <1>0, <1>1
    <3>3. CASE j = Len(s) + 1
      BY <3>1, <3>2, <3>3, <1>0, <1>1 DEF Range
    <3>4. CASE j # Len(s) + 1
      BY <3>1, <3>2, <3>4, <1>0, <1>1 DEF Before
    <3> QED
      BY <3>3, <3>4
  <2>2. ASSUME Before(a, b, s) PROVE Before(a, b, r)
    BY <2>2, <1>0, <1>1, <1>2 DEF Before
  <2>3. ASSUME a \in Range(s), b = p PROVE Before(a, b, r)
    <3>1. PICK i \in 1..Len(s) : s[i] = a
      BY <2>3, <1>0 DEF Range
    <3>2. i \in DOMAIN r /\ Len(s) + 1 \in DOMAIN r /\ i < Len(s) + 1
      BY <1>0, <1>2
    <3> QED
      BY <2>3, <3>1, <3>2, <1>1 DEF Before
  <2> QED
    BY <2>1, <2>2, <2>3
<1> QED
  BY <1>1, <1>4, <1>5, <1>6 DEF r

\* The head of a queue stands before everybody else in it.
LEMMA HeadIsFirst ==
  ASSUME NEW S, NEW s \in Seq(S), s # <<>>
  PROVE  /\ Head(s) \in Range(s)
         /\ \A w \in Range(s) : w # Head(s) => Before(Head(s), w, s)
<1>0. Len(s) \in Nat \ {0} /\ DOMAIN s = 1..Len(s)
  BY LenProperties, EmptySeq
<1>1. Head(s) = s[1] /\ 1 \in DOMAIN s
  BY <1>0
<1>2. ASSUME NEW w \in Range(s), w # Head(s) PROVE Before(Head(s), w, s)
  <2>1. PICK j \in DOMAIN s : s[j] = w
    BY DEF Range
  <2>2. 1 < j
    BY <1>0, <1>1, <1>2, <2>1
  <2> QED
    BY <1>1, <2>1, <2>2 DEF Before
<1> QED
  BY <1>1, <1>2 DEF Range

\* Nobody stands before anybody in the empty queue.
LEMMA EmptyQueue ==
  /\ <<>> \in Seq(Caller) /\ IsInjective(<<>>) /\ Range(<<>>) = {}
  /\ \A a, b : ~ Before(a, b, <<>>)
<1>1. <<>> \in Seq(Caller) /\ DOMAIN <<>> = {}
  BY EmptySeq, LenProperties
<1> QED
  BY <1>1 DEF IsInjective, Range, Before

-----------------------------------------------------------------------------
\* Tables.

\* The permits counted on gate k, and what its counter says.
Holders(s, k) == {p \in Caller : s.call[p].pc = "held" /\ k \in s.call[p].counted}
Running(g, k) == IF k \in DOMAIN g THEN g[k].running ELSE 0

\* Tables of the right types, whose queues agree with the requests.
Typed(s) ==
  /\ DOMAIN s.gates \subseteq Gate
  /\ \A k \in DOMAIN s.gates : s.gates[k] \in GateState
  /\ s.call \in [Caller -> CallState]
  /\ s.order \in Seq(Caller)

Sound(s) == Typed(s) /\ Agree(s)

\* No gate is in a cooldown.
Open(s) == \A k \in DOMAIN s.gates : ~ s.gates[k].blocked

\* The first in the order of arrival wants a gate with permits out.
Awaited(s) ==
  s.order # <<>> =>
    \E k \in s.call[Head(s.order)].keys : k \in DOMAIN s.gates /\ s.gates[k].running # 0

\* What the counters miss of the permits counted on their gates is in D.
Accounted(s, D) ==
  \A k \in Gate : /\ IsFiniteSet(Holders(s, k))
                  /\ Cardinality(Holders(s, k)) - Running(s.gates, k) \in D

\* The fields of a table record, for leaves that need not see its definition.
LEMMA TablesFields ==
  ASSUME NEW g, NEW c, NEW o
  PROVE  /\ Tables(g, c, o).gates = g
         /\ Tables(g, c, o).call = c
         /\ Tables(g, c, o).order = o
BY DEF Tables

\* The queue of a gate, whether it exists or not.
LEMMA QueueFacts ==
  ASSUME NEW s, Sound(s), NEW k \in Gate
  PROVE  /\ Queue(s.gates, k) \in Seq(Caller)
         /\ IsInjective(Queue(s.gates, k))
         /\ Range(Queue(s.gates, k)) =
              {p \in Caller : s.call[p].pc = "waiting" /\ k \in s.call[p].keys}
         /\ \A p, w \in Caller :
              Before(p, w, Queue(s.gates, k)) => Before(p, w, s.order)
<1>1. Queue(s.gates, k) \in Seq(Caller)
  BY EmptyQueue DEF Sound, Typed, GateState, Queue
<1> QED
  BY <1>1 DEF Sound, Agree

\* The gates a waiter asks for exist, with the waiter in their queues.
LEMMA WaiterHasGates ==
  ASSUME NEW s, Sound(s), NEW p \in Caller, s.call[p].pc = "waiting",
         NEW k \in s.call[p].keys
  PROVE  /\ k \in Gate /\ k \in DOMAIN s.gates
         /\ p \in Range(s.gates[k].queue)
<1>1. k \in Gate
  BY DEF Sound, Typed, CallState
<1>2. p \in Range(Queue(s.gates, k))
  BY <1>1, QueueFacts
<1>3. k \in DOMAIN s.gates
  BY <1>2, EmptyQueue DEF Queue
<1> QED
  BY <1>1, <1>2, <1>3 DEF Queue

\* removeRequest touches the queues of its gates, and their cleanup timers.
LEMMA RemoveRequestFacts ==
  ASSUME NEW g, \A k \in DOMAIN g : g[k] \in GateState /\ IsInjective(g[k].queue),
         NEW p, NEW ks
  PROVE  LET h == RemoveRequest(p, g, ks) IN
         /\ DOMAIN h = DOMAIN g
         /\ \A k \in DOMAIN g :
              /\ h[k] \in GateState
              /\ h[k].queue = IF k \in ks THEN RemoveFirst(g[k].queue, p) ELSE g[k].queue
              /\ h[k].running = g[k].running /\ h[k].max = g[k].max
              /\ h[k].blocked = g[k].blocked
<1> DEFINE h == RemoveRequest(p, g, ks)
<1>1. DOMAIN h = DOMAIN g
  BY DEF RemoveRequest, Update
<1>2. ASSUME NEW k \in DOMAIN g
      PROVE  /\ h[k] \in GateState
             /\ h[k].queue = IF k \in ks THEN RemoveFirst(g[k].queue, p) ELSE g[k].queue
             /\ h[k].running = g[k].running /\ h[k].max = g[k].max
             /\ h[k].blocked = g[k].blocked
  <2>1. CASE k \notin ks
    <3>1. h[k] = g[k]
      BY <2>1 DEF RemoveRequest, Update
    <3> QED
      BY <2>1, <3>1
  <2>2. CASE k \in ks
    <3>1. h[k] = ScheduleCleanup(Drop(p, g[k]))
      BY <2>2 DEF RemoveRequest, Update
    <3>2. RemoveFirst(g[k].queue, p) \in Seq(Caller)
      BY RemoveFirstProperties DEF GateState
    <3>3. /\ Drop(p, g[k]) \in GateState
          /\ Drop(p, g[k]).queue = RemoveFirst(g[k].queue, p)
          /\ Drop(p, g[k]).running = g[k].running /\ Drop(p, g[k]).max = g[k].max
          /\ Drop(p, g[k]).blocked = g[k].blocked
      BY <3>2 DEF Drop, GateState
    <3>4. ASSUME NEW e \in GateState
          PROVE  /\ ScheduleCleanup(e) \in GateState
                 /\ ScheduleCleanup(e).queue = e.queue
                 /\ ScheduleCleanup(e).running = e.running
                 /\ ScheduleCleanup(e).max = e.max
                 /\ ScheduleCleanup(e).blocked = e.blocked
      BY DEF ScheduleCleanup, GateState
    <3> HIDE DEF h
    <3> QED
      BY <2>2, <3>1, <3>3, <3>4
  <2> QED
    BY <2>1, <2>2
<1> QED
  BY <1>1, <1>2

\* Tables with the same waiters in the same queues are sound.
LEMMA SameQueuesSound ==
  ASSUME NEW s, Sound(s),
         NEW g, DOMAIN g \subseteq Gate, \A k \in DOMAIN g : g[k] \in GateState,
         \A k \in Gate : Queue(g, k) = Queue(s.gates, k),
         NEW c \in [Caller -> CallState],
         \A p \in Caller : /\ c[p].pc = "waiting" <=> s.call[p].pc = "waiting"
                           /\ c[p].pc = "waiting" => c[p].keys = s.call[p].keys
  PROVE  Sound(Tables(g, c, s.order))
<1> DEFINE t == Tables(g, c, s.order)
<1>1. t.gates = g /\ t.call = c /\ t.order = s.order
  BY TablesFields
<1> HIDE DEF t
<1>2. Typed(t)
  BY <1>1 DEF Sound, Typed
<1>3. Range(t.order) = {p \in Caller : t.call[p].pc = "waiting"} /\ IsInjective(t.order)
  BY <1>1 DEF Sound, Agree
<1>4. ASSUME NEW k \in Gate
      PROVE  /\ IsInjective(Queue(t.gates, k))
             /\ Range(Queue(t.gates, k)) =
                  {p \in Caller : t.call[p].pc = "waiting" /\ k \in t.call[p].keys}
             /\ \A p, w \in Caller : Before(p, w, Queue(t.gates, k)) => Before(p, w, t.order)
  BY <1>1, QueueFacts
<1> QED
  BY <1>2, <1>3, <1>4 DEF Sound, Agree, t

\* A waiter leaves: its request is out of the order of arrival and out of the
\* queues of its gates, whatever becomes of it.
LEMMA LeavingIsSound ==
  ASSUME NEW s, Sound(s), NEW p \in Caller, s.call[p].pc = "waiting",
         NEW c \in CallState, c.pc # "waiting",
         NEW g, DOMAIN g = DOMAIN s.gates,
         \A k \in DOMAIN g :
           /\ g[k] \in GateState
           /\ g[k].queue = IF k \in s.call[p].keys THEN RemoveFirst(s.gates[k].queue, p)
                           ELSE s.gates[k].queue
  PROVE  Sound(Tables(g, [s.call EXCEPT ![p] = c], RemoveFirst(s.order, p)))
<1> DEFINE d == [s.call EXCEPT ![p] = c]
           o == RemoveFirst(s.order, p)
<1>1. s.order \in Seq(Caller) /\ IsInjective(s.order)
  BY DEF Sound, Typed, Agree
<1>2. /\ o \in Seq(Caller) /\ IsInjective(o) /\ Range(o) = Range(s.order) \ {p}
      /\ \A a, b : Before(a, b, o) <=> Before(a, b, s.order) /\ a # p /\ b # p
  BY <1>1, RemoveFirstProperties
<1>3. s.call \in [Caller -> CallState] /\ DOMAIN s.gates \subseteq Gate
  BY DEF Sound, Typed
<1>4. /\ d \in [Caller -> CallState] /\ d[p] = c
      /\ \A q \in Caller : q # p => d[q] = s.call[q]
  BY <1>3
<1> HIDE DEF d, o
<1>5. Range(o) = {q \in Caller : d[q].pc = "waiting"}
  <2>1. Range(s.order) = {q \in Caller : s.call[q].pc = "waiting"}
    BY DEF Sound, Agree
  <2> QED
    BY <1>2, <1>4, <2>1
<1>6. ASSUME NEW k \in Gate
      PROVE  /\ IsInjective(Queue(g, k))
             /\ Range(Queue(g, k)) = {q \in Caller : d[q].pc = "waiting" /\ k \in d[q].keys}
             /\ \A a, b \in Caller : Before(a, b, Queue(g, k)) => Before(a, b, o)
  <2> DEFINE u == Queue(s.gates, k)
  <2>1. /\ u \in Seq(Caller) /\ IsInjective(u)
        /\ Range(u) = {q \in Caller : s.call[q].pc = "waiting" /\ k \in s.call[q].keys}
        /\ \A a, b \in Caller : Before(a, b, u) => Before(a, b, s.order)
    BY QueueFacts
  <2>2. CASE k \in s.call[p].keys
    <3>1. Queue(g, k) = RemoveFirst(u, p)
      BY <2>2, WaiterHasGates DEF Queue
    <3> HIDE DEF u
    <3>2. /\ IsInjective(Queue(g, k)) /\ Range(Queue(g, k)) = Range(u) \ {p}
          /\ \A a, b : Before(a, b, Queue(g, k)) <=> Before(a, b, u) /\ a # p /\ b # p
      BY <2>1, <3>1, RemoveFirstProperties
    <3> QED
      BY <1>2, <1>4, <2>1, <3>2
  <2>3. CASE k \notin s.call[p].keys
    <3>1. Queue(g, k) = u
      BY <2>3 DEF Queue
    <3> HIDE DEF u
    <3>2. \A a, b : Before(a, b, u) => a # p /\ b # p
      BY <2>1, <2>3 DEF Before, Range
    <3> QED
      BY <1>2, <1>4, <2>1, <2>3, <3>1, <3>2
  <2> QED
    BY <2>2, <2>3
<1> DEFINE t == Tables(g, d, o)
<1>7. t.gates = g /\ t.call = d /\ t.order = o
  BY TablesFields
<1> HIDE DEF t
<1>8. Typed(t)
  BY <1>2, <1>3, <1>4, <1>7 DEF Typed
<1>9. Agree(t)
  BY <1>2, <1>5, <1>6, <1>7 DEF Agree
<1> QED
  BY <1>8, <1>9 DEF Sound, t, d, o

-----------------------------------------------------------------------------
\* The steps on tables: a request is settled, or admitted.

\* The gates of sound tables, with queues in which nobody stands twice.
LEMMA SoundGates ==
  ASSUME NEW s, Sound(s)
  PROVE  \A k \in DOMAIN s.gates : s.gates[k] \in GateState /\ IsInjective(s.gates[k].queue)
<1> SUFFICES ASSUME NEW k \in DOMAIN s.gates
             PROVE  s.gates[k] \in GateState /\ IsInjective(s.gates[k].queue)
  OBVIOUS
<1>1. s.gates[k] \in GateState /\ k \in Gate
  BY DEF Sound, Typed
<1>2. IsInjective(Queue(s.gates, k))
  BY <1>1, QueueFacts
<1> QED
  BY <1>1, <1>2 DEF Queue

\* Counters are naturals.
LEMMA RunningType ==
  ASSUME NEW s, Sound(s), NEW k \in Gate
  PROVE  Running(s.gates, k) \in Nat
BY SoundGates DEF Running, GateState

\* A waiter that gives up, or is rejected, leaves everything else as it was.
LEMMA DismissedFacts ==
  ASSUME NEW s, Sound(s), NEW p \in Caller, s.call[p].pc = "waiting"
  PROVE  LET t == Dismissed(s, p) IN
         /\ Sound(t)
         /\ t.call = [s.call EXCEPT ![p] = NoCall]
         /\ \A a, b : Before(a, b, t.order) => Before(a, b, s.order)
         /\ \A k \in Gate : Running(t.gates, k) = Running(s.gates, k)
         /\ Open(s) => Open(t)
<1> DEFINE g == RemoveRequest(p, s.gates, s.call[p].keys)
           t == Dismissed(s, p)
<1>1. /\ DOMAIN g = DOMAIN s.gates
      /\ \A k \in DOMAIN s.gates :
           /\ g[k] \in GateState
           /\ g[k].queue = IF k \in s.call[p].keys THEN RemoveFirst(s.gates[k].queue, p)
                           ELSE s.gates[k].queue
           /\ g[k].running = s.gates[k].running
           /\ g[k].blocked = s.gates[k].blocked
  BY SoundGates, RemoveRequestFacts
<1> HIDE DEF g
<1>2. NoCall \in CallState /\ NoCall.pc # "waiting"
  BY DEF NoCall, Call, CallState
<1>3. t = Tables(g, [s.call EXCEPT ![p] = NoCall], RemoveFirst(s.order, p))
  BY DEF Dismissed, g
<1>4. Sound(t)
  BY <1>1, <1>2, <1>3, LeavingIsSound
<1>5. t.gates = g /\ t.call = [s.call EXCEPT ![p] = NoCall] /\ t.order = RemoveFirst(s.order, p)
  BY <1>3, TablesFields
<1> HIDE DEF t
<1>6. \A a, b : Before(a, b, t.order) => Before(a, b, s.order)
  BY <1>5, RemoveFirstProperties DEF Sound, Typed, Agree
<1>7. \A k \in Gate : Running(t.gates, k) = Running(s.gates, k)
  BY <1>1, <1>5 DEF Running
<1>8. Open(s) => Open(t)
  BY <1>1, <1>5 DEF Open
<1> QED
  BY <1>4, <1>5, <1>6, <1>7, <1>8 DEF t

\* A waiter that can acquire is the first in each of its queues, and its
\* admission takes a free place of each of its gates.
LEMMA AdmitWaiterFacts ==
  ASSUME NEW s, Sound(s), NEW p \in Caller, s.call[p].pc = "waiting",
         CanAcquire(s.gates, p, s.call[p].keys)
  PROVE  LET t == AdmitWaiter(s, p)
             ks == s.call[p].keys
         IN
         /\ Sound(t)
         /\ t.call = [s.call EXCEPT ![p] = Call("held", ks, ks)]
         /\ t.order = RemoveFirst(s.order, p)
         /\ DOMAIN t.gates = DOMAIN s.gates
         /\ \A k \in DOMAIN s.gates :
              /\ t.gates[k].max = s.gates[k].max
              /\ t.gates[k].blocked = s.gates[k].blocked
              /\ k \notin ks => t.gates[k].running = s.gates[k].running
              /\ k \in ks => /\ t.gates[k].running = s.gates[k].running + 1
                             /\ t.gates[k].running <= t.gates[k].max
         /\ \A w \in Caller : s.call[w].pc = "waiting" /\ w # p /\ s.call[w].keys \intersect ks # {}
              => Before(p, w, s.order)
<1> DEFINE ks == s.call[p].keys
           h == RemoveRequest(p, s.gates, ks)
           g == Update(h, ks, CountUp)
           c == Call("held", ks, ks)
           t == AdmitWaiter(s, p)
<1>1. /\ DOMAIN h = DOMAIN s.gates
      /\ \A k \in DOMAIN s.gates :
           /\ h[k] \in GateState
           /\ h[k].queue = IF k \in ks THEN RemoveFirst(s.gates[k].queue, p) ELSE s.gates[k].queue
           /\ h[k].running = s.gates[k].running /\ h[k].max = s.gates[k].max
           /\ h[k].blocked = s.gates[k].blocked
  <2> HIDE DEF ks
  <2> QED
    BY SoundGates, RemoveRequestFacts
<1>2. /\ DOMAIN g = DOMAIN h
      /\ \A k \in DOMAIN h : g[k] = IF k \in ks THEN CountUp(h[k]) ELSE h[k]
  BY DEF Update
<1>3. t = Tables(g, [s.call EXCEPT ![p] = c], RemoveFirst(s.order, p))
  BY DEF AdmitWaiter
<1>4. ks \subseteq Gate /\ s.call \in [Caller -> CallState]
  BY DEF Sound, Typed, CallState
<1>5. c \in CallState /\ c.pc # "waiting"
  BY <1>4 DEF Call, CallState
<1> HIDE DEF g, h, c, t
<1>6. ASSUME NEW k \in DOMAIN s.gates
      PROVE  /\ g[k] \in GateState
             /\ g[k].queue = h[k].queue /\ g[k].max = s.gates[k].max
             /\ g[k].blocked = s.gates[k].blocked
             /\ g[k].running = s.gates[k].running + IF k \in ks THEN 1 ELSE 0
  <2>1. h[k] \in GateState
    BY <1>1
  <2>2. /\ CountUp(h[k]) \in GateState /\ CountUp(h[k]).queue = h[k].queue
        /\ CountUp(h[k]).max = h[k].max /\ CountUp(h[k]).running = h[k].running + 1
        /\ CountUp(h[k]).blocked = h[k].blocked
    BY <2>1 DEF CountUp, GateState
  <2>3. h[k].running + 0 = h[k].running
    BY <2>1 DEF GateState
  <2> QED
    BY <1>1, <1>2, <2>1, <2>2, <2>3
<1>7. Sound(t)
  BY <1>1, <1>2, <1>3, <1>5, <1>6, LeavingIsSound
<1>8. t.gates = g /\ t.call = [s.call EXCEPT ![p] = c] /\ t.order = RemoveFirst(s.order, p)
  BY <1>3, TablesFields
<1>9. ASSUME NEW k \in ks
      PROVE  /\ k \in DOMAIN s.gates /\ s.gates[k].running < s.gates[k].max
             /\ s.gates[k].queue # <<>> /\ Head(s.gates[k].queue) = p
  BY DEF CanAcquire, HasRoom
<1>10. ASSUME NEW k \in DOMAIN s.gates
       PROVE  /\ t.gates[k].max = s.gates[k].max
              /\ t.gates[k].blocked = s.gates[k].blocked
              /\ k \notin ks => t.gates[k].running = s.gates[k].running
              /\ k \in ks => /\ t.gates[k].running = s.gates[k].running + 1
                             /\ t.gates[k].running <= t.gates[k].max
  <2>1. s.gates[k].running \in Nat /\ s.gates[k].max \in Nat
    BY SoundGates DEF GateState
  <2> QED
    BY <1>6, <1>8, <1>9, <2>1
<1>11. ASSUME NEW w \in Caller, s.call[w].pc = "waiting", w # p, s.call[w].keys \intersect ks # {}
       PROVE  Before(p, w, s.order)
  <2>1. PICK k \in s.call[w].keys : k \in ks
    BY <1>11
  <2>2. k \in Gate /\ k \in DOMAIN s.gates /\ w \in Range(s.gates[k].queue)
    BY <1>11, WaiterHasGates
  <2>3. s.gates[k].queue \in Seq(Caller)
    BY <2>2, SoundGates DEF GateState
  <2>4. Before(p, w, s.gates[k].queue)
    BY <1>9, <1>11, <2>1, <2>2, <2>3, HeadIsFirst
  <2> QED
    BY <2>2, <2>4, QueueFacts DEF Queue
<1> QED
  BY <1>1, <1>2, <1>7, <1>8, <1>10, <1>11 DEF t, c

-----------------------------------------------------------------------------
\* The loop of drainQueues.

\* p is admitted between tables s and tables t.
Admitted(s, t, p) == s.call[p].pc = "waiting" /\ t.call[p].pc = "held"

\* What draining may do to tables s: it only admits waiters, each ahead of all
\* that came later and still wait for one of its gates, and within the limits.
Drains(s, t) ==
  /\ Sound(t)
  /\ \A p \in Caller :
       \/ t.call[p] = s.call[p]
       \/ s.call[p].pc = "waiting" /\ t.call[p] = Call("held", s.call[p].keys, s.call[p].keys)
  /\ \A a, b : Before(a, b, t.order) => Before(a, b, s.order)
  /\ \A p, w \in Caller :
       Admitted(s, t, p) /\ t.call[w].pc = "waiting" /\ t.call[w].keys \intersect t.call[p].keys # {}
       => Before(p, w, s.order)
  /\ \A p \in Caller : Admitted(s, t, p) =>
       \A k \in t.call[p].keys : k \in DOMAIN t.gates /\ t.gates[k].running <= t.gates[k].max
  /\ \A D : Accounted(s, D) => Accounted(t, D)
  /\ Open(s) => Open(t)

\* Waiter w could be admitted; nobody could.
Can(s, w) == s.call[w].pc = "waiting" /\ CanAcquire(s.gates, w, s.call[w].keys)
Stuck(s) == \A w \in Caller : ~ Can(s, w)

\* Counting up what one more permit holds keeps the accounts.
LEMMA OneMoreHolder ==
  ASSUME NEW s, Sound(s), NEW D, Accounted(s, D), NEW p \in Caller, s.call[p].pc # "held",
         NEW t, NEW ks, ks \subseteq Gate,
         t.call = [s.call EXCEPT ![p] = Call("held", ks, ks)],
         \A k \in Gate : Running(t.gates, k) = Running(s.gates, k) + IF k \in ks THEN 1 ELSE 0
  PROVE  Accounted(t, D)
<1> SUFFICES ASSUME NEW k \in Gate
             PROVE  /\ IsFiniteSet(Holders(t, k))
                    /\ Cardinality(Holders(t, k)) - Running(t.gates, k) \in D
  BY DEF Accounted
<1>1. /\ IsFiniteSet(Holders(s, k)) /\ Cardinality(Holders(s, k)) - Running(s.gates, k) \in D
      /\ Running(t.gates, k) = Running(s.gates, k) + IF k \in ks THEN 1 ELSE 0
  BY DEF Accounted
<1>2. /\ t.call[p].pc = "held" /\ t.call[p].counted = ks
      /\ \A q \in Caller : q # p => t.call[q] = s.call[q]
  BY DEF Call, Sound, Typed
<1>3. p \notin Holders(s, k)
  BY DEF Holders
<1>4. Cardinality(Holders(s, k)) \in Nat /\ Running(s.gates, k) \in Nat
  BY <1>1, FS_CardinalityType, RunningType
<1>5. CASE k \in ks
  <2>1. Holders(t, k) = Holders(s, k) \union {p}
    BY <1>2, <1>5 DEF Holders
  <2>2. /\ IsFiniteSet(Holders(t, k))
        /\ Cardinality(Holders(t, k)) = Cardinality(Holders(s, k)) + 1
    BY <1>1, <1>3, <2>1, FS_AddElement
  <2>3. Cardinality(Holders(t, k)) - Running(t.gates, k)
          = Cardinality(Holders(s, k)) - Running(s.gates, k)
    BY <1>1, <1>4, <1>5, <2>2
  <2> QED
    BY <1>1, <2>2, <2>3
<1>6. CASE k \notin ks
  <2>1. Holders(t, k) = Holders(s, k)
    BY <1>2, <1>3, <1>6 DEF Holders
  <2>2. Running(t.gates, k) = Running(s.gates, k)
    BY <1>1, <1>4, <1>6
  <2> QED
    BY <1>1, <2>1, <2>2
<1> QED
  BY <1>5, <1>6

\* An admission keeps the accounts.
LEMMA AdmissionAccounted ==
  ASSUME NEW s, Sound(s), NEW D, Accounted(s, D), NEW p \in Caller, s.call[p].pc = "waiting",
         CanAcquire(s.gates, p, s.call[p].keys)
  PROVE  Accounted(AdmitWaiter(s, p), D)
<1> DEFINE t == AdmitWaiter(s, p)
           ks == s.call[p].keys
<1>1. /\ t.call = [s.call EXCEPT ![p] = Call("held", ks, ks)]
      /\ DOMAIN t.gates = DOMAIN s.gates
      /\ \A k \in DOMAIN s.gates :
           /\ k \notin ks => t.gates[k].running = s.gates[k].running
           /\ k \in ks => t.gates[k].running = s.gates[k].running + 1
  BY AdmitWaiterFacts
<1>2. ks \subseteq Gate /\ ks \subseteq DOMAIN s.gates
  BY WaiterHasGates
<1>3. \A k \in DOMAIN s.gates : s.gates[k].running + 0 = s.gates[k].running
  BY SoundGates DEF GateState
<1> HIDE DEF t, ks
<1>4. \A k \in Gate : Running(t.gates, k) = Running(s.gates, k) + IF k \in ks THEN 1 ELSE 0
  BY <1>1, <1>2, <1>3 DEF Running
<1> QED
  BY <1>1, <1>2, <1>4, OneMoreHolder DEF t

\* A round finds nobody to admit, or admits a waiter that can acquire.
LEMMA RoundCases ==
  ASSUME NEW s, Sound(s)
  PROVE  \/ Stuck(s) /\ Round(s) = s
         \/ \E p \in Caller : /\ s.call[p].pc = "waiting"
                              /\ CanAcquire(s.gates, p, s.call[p].keys)
                              /\ Round(s) = AdmitWaiter(s, p)
<1> DEFINE I == {i \in 1..Len(s.order) : CanAcquire(s.gates, s.order[i], s.call[s.order[i]].keys)}
           i == SelectInSeq(s.order, LAMBDA p : CanAcquire(s.gates, p, s.call[p].keys))
<1>1. /\ s.order \in Seq(Caller) /\ Len(s.order) \in Nat /\ DOMAIN s.order = 1..Len(s.order)
      /\ Range(s.order) = {p \in Caller : s.call[p].pc = "waiting"}
  BY LenProperties DEF Sound, Typed, Agree
<1>2. i = IF I # {} THEN Min(I) ELSE 0
  BY DEF SelectInSeq
<1>3. Round(s) = IF i = 0 THEN s ELSE AdmitWaiter(s, s.order[i])
  BY DEF Round
<1>4. CASE I = {}
  <2>1. ASSUME NEW w \in Caller, s.call[w].pc = "waiting"
        PROVE  ~ CanAcquire(s.gates, w, s.call[w].keys)
    <3>1. PICK j \in 1..Len(s.order) : s.order[j] = w
      BY <1>1, <2>1 DEF Range
    <3> QED
      BY <1>4, <3>1
  <2> HIDE DEF i, I
  <2> QED
    BY <1>2, <1>3, <1>4, <2>1 DEF Stuck, Can
<1>5. CASE I # {}
  <2>1. I \subseteq Nat
    BY <1>1
  <2> HIDE DEF i
  <2>2. i \in I
    <3> HIDE DEF I
    <3> QED
      BY <1>2, <1>5, <2>1, LeastElement DEF Min
  <2>3. i # 0 /\ i \in 1..Len(s.order) /\ CanAcquire(s.gates, s.order[i], s.call[s.order[i]].keys)
    BY <2>2
  <2>4. s.order[i] \in Caller /\ s.call[s.order[i]].pc = "waiting"
    BY <1>1, <2>3 DEF Range
  <2> QED
    BY <1>3, <2>3, <2>4
<1> QED
  BY <1>4, <1>5

\* A round that admits somebody shortens the order of arrival.
LEMMA RoundShortens ==
  ASSUME NEW s, Sound(s), ~ Stuck(s)
  PROVE  Len(Round(s).order) = Len(s.order) - 1
<1>1. PICK p \in Caller : /\ s.call[p].pc = "waiting"
                          /\ CanAcquire(s.gates, p, s.call[p].keys)
                          /\ Round(s) = AdmitWaiter(s, p)
  BY RoundCases
<1>2. AdmitWaiter(s, p).order = RemoveFirst(s.order, p)
  BY <1>1, AdmitWaiterFacts
<1>3. s.order \in Seq(Caller) /\ IsInjective(s.order) /\ p \in Range(s.order)
  BY <1>1 DEF Sound, Typed, Agree
<1> QED
  BY <1>1, <1>2, <1>3, RemoveFirstProperties

\* Every round keeps to what draining may do.
LEMMA RoundDrains ==
  ASSUME NEW s, NEW t, Drains(s, t)
  PROVE  Drains(s, Round(t))
<1> SUFFICES ASSUME NEW p \in Caller, t.call[p].pc = "waiting",
                    CanAcquire(t.gates, p, t.call[p].keys), Round(t) = AdmitWaiter(t, p)
             PROVE  Drains(s, AdmitWaiter(t, p))
  BY RoundCases DEF Drains
<1> DEFINE u == AdmitWaiter(t, p)
           ks == t.call[p].keys
<1>1. Sound(t)
  BY DEF Drains
<1>2. /\ Sound(u)
      /\ u.call = [t.call EXCEPT ![p] = Call("held", ks, ks)]
      /\ u.order = RemoveFirst(t.order, p)
      /\ DOMAIN u.gates = DOMAIN t.gates
      /\ \A k \in DOMAIN t.gates :
           /\ u.gates[k].max = t.gates[k].max
           /\ u.gates[k].blocked = t.gates[k].blocked
           /\ k \notin ks => u.gates[k].running = t.gates[k].running
           /\ k \in ks => u.gates[k].running <= u.gates[k].max
      /\ \A w \in Caller : t.call[w].pc = "waiting" /\ w # p /\ t.call[w].keys \intersect ks # {}
           => Before(p, w, t.order)
  BY <1>1, AdmitWaiterFacts
<1>3. \A D : Accounted(t, D) => Accounted(u, D)
  BY <1>1, AdmissionAccounted
<1>4. t.call \in [Caller -> CallState] /\ t.order \in Seq(Caller) /\ IsInjective(t.order)
  BY <1>1 DEF Sound, Typed, Agree
<1>5. ks \subseteq DOMAIN t.gates
  BY <1>1, WaiterHasGates
<1> HIDE DEF u
<1>6. /\ u.call[p] = Call("held", ks, ks)
      /\ \A q \in Caller : q # p => u.call[q] = t.call[q]
  BY <1>2, <1>4
<1>7. u.call[p].pc = "held" /\ u.call[p].keys = ks
  BY <1>6 DEF Call
<1>8. s.call[p] = t.call[p]
  <2>1. \/ t.call[p] = s.call[p]
        \/ t.call[p] = Call("held", s.call[p].keys, s.call[p].keys)
    BY DEF Drains
  <2> QED
    BY <2>1 DEF Call
<1>9. \A a, b : Before(a, b, u.order) => Before(a, b, s.order)
  <2>1. \A a, b : Before(a, b, u.order) => Before(a, b, t.order)
    BY <1>2, <1>4, RemoveFirstProperties
  <2> QED
    BY <2>1 DEF Drains
<1>10. ASSUME NEW q \in Caller
       PROVE  \/ u.call[q] = s.call[q]
              \/ s.call[q].pc = "waiting" /\ u.call[q] = Call("held", s.call[q].keys, s.call[q].keys)
  <2>1. CASE q = p
    BY <1>6, <1>8, <2>1
  <2>2. CASE q # p
    BY <1>6, <2>2 DEF Drains
  <2> QED
    BY <2>1, <2>2
<1>11. ASSUME NEW q \in Caller, NEW w \in Caller, Admitted(s, u, q), u.call[w].pc = "waiting",
              u.call[w].keys \intersect u.call[q].keys # {}
       PROVE  Before(q, w, s.order)
  <2>1. w # p /\ u.call[w] = t.call[w]
    BY <1>6, <1>7, <1>11
  <2>2. CASE q = p
    <3>1. Before(p, w, t.order)
      BY <1>2, <1>7, <1>11, <2>1, <2>2
    <3> QED
      BY <2>2, <3>1 DEF Drains
  <2>3. CASE q # p
    <3>1. u.call[q] = t.call[q]
      BY <1>6, <2>3
    <3> QED
      BY <1>11, <2>1, <3>1 DEF Drains, Admitted
  <2> QED
    BY <2>2, <2>3
<1>12. ASSUME NEW q \in Caller, Admitted(s, u, q), NEW k \in u.call[q].keys
       PROVE  k \in DOMAIN u.gates /\ u.gates[k].running <= u.gates[k].max
  <2>1. CASE k \in ks
    BY <1>2, <1>5, <2>1
  <2>2. CASE k \notin ks
    <3>1. q # p
      BY <1>7, <1>12, <2>2
    <3>2. Admitted(s, t, q) /\ k \in t.call[q].keys
      BY <1>6, <1>12, <3>1 DEF Admitted
    <3>3. k \in DOMAIN t.gates /\ t.gates[k].running <= t.gates[k].max
      BY <3>2 DEF Drains
    <3> QED
      BY <1>2, <2>2, <3>3
  <2> QED
    BY <2>1, <2>2
<1>13. \A D : Accounted(s, D) => Accounted(u, D)
  BY <1>3 DEF Drains
<1>14. Open(s) => Open(u)
  BY <1>2 DEF Drains, Open
<1> HIDE DEF ks
<1> QED
  BY <1>2, <1>9, <1>10, <1>11, <1>12, <1>13, <1>14 DEF Drains, u

\* The recursive function of Drained exists: its first n + 1 values can always
\* be given one more.
LEMMA RoundsExist ==
  ASSUME NEW s, NEW m \in Nat
  PROVE  \E f : f = [n \in 0..m |-> IF n = 0 THEN s ELSE Round(f[n - 1])]
<1> DEFINE S == {m0 \in Nat : \E f : f = [n \in 0..m0 |-> IF n = 0 THEN s ELSE Round(f[n - 1])]}
<1>1. 0 \in S
  <2> DEFINE f == [n \in 0..0 |-> s]
  <2>1. f = [n \in 0..0 |-> IF n = 0 THEN s ELSE Round(f[n - 1])]
    OBVIOUS
  <2> QED
    BY <2>1
<1>2. ASSUME NEW m0 \in Nat, m0 \in S PROVE m0 + 1 \in S
  <2>1. PICK f : f = [n \in 0..m0 |-> IF n = 0 THEN s ELSE Round(f[n - 1])]
    BY <1>2
  <2> DEFINE h == [n \in 0..(m0 + 1) |-> IF n = m0 + 1 THEN Round(f[m0]) ELSE f[n]]
  <2>2. ASSUME NEW n \in 0..(m0 + 1) PROVE h[n] = IF n = 0 THEN s ELSE Round(h[n - 1])
    <3>1. CASE n = m0 + 1
      BY <3>1
    <3>2. CASE n = 0
      BY <2>1, <3>2
    <3>3. CASE n # 0 /\ n # m0 + 1
      BY <2>1, <3>3
    <3> QED
      BY <3>1, <3>2, <3>3
  <2>3. h = [n \in 0..(m0 + 1) |-> IF n = 0 THEN s ELSE Round(h[n - 1])]
    BY <2>2
  <2> HIDE DEF h
  <2> QED
    BY <2>3
<1> HIDE DEF S
<1>3. m \in S
  BY <1>1, <1>2, SetInduction
<1> QED
  BY <1>3 DEF S

\* drainQueues only drains, and leaves nobody that could be admitted: either a
\* round found nobody, or every round took one out of the order of arrival.
LEMMA DrainedFacts ==
  ASSUME NEW s, Sound(s)
  PROVE  Drains(s, Drained(s)) /\ Stuck(Drained(s))
<1> DEFINE m == Len(s.order)
           after == CHOOSE f : f = [n \in 0..m |-> IF n = 0 THEN s ELSE Round(f[n - 1])]
<1>1. s.order \in Seq(Caller) /\ m \in Nat
  BY LenProperties DEF Sound, Typed
<1>2. Drained(s) = after[m]
  BY Zenon DEF Drained
<1>3. after = [n \in 0..m |-> IF n = 0 THEN s ELSE Round(after[n - 1])]
  <2>1. \E f : f = [n \in 0..m |-> IF n = 0 THEN s ELSE Round(f[n - 1])]
    BY <1>1, RoundsExist, Zenon
  <2> QED
    BY <2>1, Zenon
<1> HIDE DEF after
<1> DEFINE P(n) == /\ Drains(s, after[n])
                   /\ Stuck(after[n]) \/ Len(after[n].order) = m - n
           S == {n \in Nat : n <= m => P(n)}
<1>4. 0 \in S
  <2>1. after[0] = s
    BY <1>1, <1>3
  <2>2. Drains(s, s)
    <3>1. \A p \in Caller : ~ Admitted(s, s, p)
      BY DEF Admitted
    <3> QED
      BY <3>1 DEF Drains
  <2> QED
    BY <1>1, <2>1, <2>2
<1>5. ASSUME NEW n \in Nat, n \in S PROVE n + 1 \in S
  <2> SUFFICES ASSUME n + 1 <= m PROVE P(n + 1)
    OBVIOUS
  <2>1. P(n)
    BY <1>1, <1>5
  <2>2. after[n + 1] = Round(after[n])
    BY <1>1, <1>3
  <2>3. Drains(s, after[n + 1])
    BY <2>1, <2>2, RoundDrains
  <2>4. Sound(after[n])
    BY <2>1 DEF Drains
  <2>5. CASE Stuck(after[n])
    <3>1. after[n + 1] = after[n]
      BY <2>2, <2>4, <2>5, RoundCases DEF Stuck, Can
    <3> QED
      BY <2>3, <2>5, <3>1
  <2>6. CASE ~ Stuck(after[n])
    <3>1. Len(after[n + 1].order) = Len(after[n].order) - 1
      BY <2>2, <2>4, <2>6, RoundShortens
    <3>2. Len(after[n + 1].order) = m - (n + 1)
      BY <1>1, <2>1, <2>6, <3>1
    <3> QED
      BY <2>3, <3>2
  <2> QED
    BY <2>5, <2>6
<1> HIDE DEF S
<1>6. m \in S
  BY <1>1, <1>4, <1>5, SetInduction
<1>7. P(m)
  BY <1>1, <1>6 DEF S
<1>8. CASE Stuck(after[m])
  BY <1>2, <1>7, <1>8
<1>9. CASE ~ Stuck(after[m])
  <2>1. Sound(after[m]) /\ Len(after[m].order) = 0
    BY <1>1, <1>7, <1>9 DEF Drains
  <2>2. DOMAIN after[m].order = {}
    BY <2>1, LenProperties DEF Sound, Typed
  <2>3. \A w \in Caller : after[m].call[w].pc # "waiting"
    BY <2>1, <2>2 DEF Sound, Agree, Range
  <2> QED
    BY <1>9, <2>3 DEF Stuck, Can
<1> QED
  BY <1>8, <1>9

\* Where nobody can be admitted and no gate is in a cooldown, the first in the
\* order of arrival, which is the head of all its queues, lacks room.
LEMMA StuckAwaits ==
  ASSUME NEW s, Sound(s), Stuck(s), Open(s)
  PROVE  Awaited(s)
<1> SUFFICES ASSUME s.order # <<>>
             PROVE  \E k \in s.call[Head(s.order)].keys :
                      k \in DOMAIN s.gates /\ s.gates[k].running # 0
  BY DEF Awaited
<1> DEFINE p == Head(s.order)
<1>1. /\ s.order \in Seq(Caller) /\ IsInjective(s.order)
      /\ Range(s.order) = {q \in Caller : s.call[q].pc = "waiting"}
  BY DEF Sound, Typed, Agree
<1>2. p \in Caller /\ s.call[p].pc = "waiting" /\ \A w : ~ Before(w, p, s.order)
  <2>1. p \in Range(s.order)
    BY <1>1, HeadIsFirst
  <2>2. Len(s.order) \in Nat \ {0} /\ DOMAIN s.order = 1..Len(s.order) /\ p = s.order[1]
    BY <1>1, LenProperties, EmptySeq
  <2>3. \A w : ~ Before(w, p, s.order)
    <3> HIDE DEF p
    <3> QED
      BY <1>1, <2>2 DEF Before, IsInjective
  <2> QED
    BY <1>1, <2>1, <2>3
<1> HIDE DEF p
<1>3. PICK k \in s.call[p].keys : ~ (/\ k \in DOMAIN s.gates /\ HasRoom(s.gates[k])
                                     /\ s.gates[k].queue # <<>> /\ Head(s.gates[k].queue) = p)
  BY <1>2 DEF Stuck, Can, CanAcquire
<1>4. k \in Gate /\ k \in DOMAIN s.gates /\ p \in Range(s.gates[k].queue)
  BY <1>2, WaiterHasGates
<1>5. s.gates[k] \in GateState /\ s.gates[k].queue # <<>>
  BY <1>4, SoundGates, EmptyQueue
<1>6. Head(s.gates[k].queue) = p
  <2>1. s.gates[k].queue \in Seq(Caller) /\ Queue(s.gates, k) = s.gates[k].queue
    BY <1>4, <1>5 DEF GateState, Queue
  <2>2. Head(s.gates[k].queue) \in Caller
    BY <1>5, <2>1, HeadTailProperties
  <2>3. \A w \in Caller : ~ Before(w, p, s.gates[k].queue)
    BY <1>2, <1>4, <2>1, QueueFacts
  <2> QED
    BY <1>4, <1>5, <2>1, <2>2, <2>3, HeadIsFirst
<1>7. ~ (s.gates[k].running < s.gates[k].max)
  BY <1>3, <1>4, <1>5, <1>6 DEF HasRoom, Open
<1>8. s.gates[k].running # 0
  BY <1>5, <1>7 DEF GateState
<1> QED
  BY <1>4, <1>8 DEF p

-----------------------------------------------------------------------------
\* The loop of reset, and the deletion of gates.

\* What rejecting may do to tables s: it only settles waiters.
Rejects(s, t) ==
  /\ Sound(t)
  /\ \A p \in Caller :
       t.call[p] = s.call[p] \/ (s.call[p].pc = "waiting" /\ t.call[p] = NoCall)
  /\ \A a, b : Before(a, b, t.order) => Before(a, b, s.order)
  /\ \A k \in Gate : Running(t.gates, k) = Running(s.gates, k)
  /\ Open(s) => Open(t)

\* One turn of the loop of reset settles its request, if it still waits, and
\* never makes anybody wait.
LEMMA RejectRejects ==
  ASSUME NEW s, NEW t, Rejects(s, t), NEW p \in Caller
  PROVE  /\ Rejects(s, Reject(t, p))
         /\ Reject(t, p).call[p].pc # "waiting"
         /\ \A q \in Caller : t.call[q].pc # "waiting" => Reject(t, p).call[q].pc # "waiting"
<1>1. CASE t.call[p].pc # "waiting"
  BY <1>1 DEF Reject
<1>2. CASE t.call[p].pc = "waiting"
  <2> DEFINE u == Dismissed(t, p)
  <2>1. Reject(t, p) = u
    BY <1>2 DEF Reject
  <2>2. Sound(t) /\ t.call \in [Caller -> CallState]
    BY DEF Rejects, Sound, Typed
  <2>3. /\ Sound(u)
        /\ u.call = [t.call EXCEPT ![p] = NoCall]
        /\ \A a, b : Before(a, b, u.order) => Before(a, b, t.order)
        /\ \A k \in Gate : Running(u.gates, k) = Running(t.gates, k)
        /\ Open(t) => Open(u)
    BY <1>2, <2>2, DismissedFacts
  <2> HIDE DEF u
  <2>4. u.call[p] = NoCall /\ \A q \in Caller : q # p => u.call[q] = t.call[q]
    BY <2>2, <2>3
  <2>5. NoCall.pc = "idle"
    BY DEF NoCall, Call
  <2>6. s.call[p].pc = "waiting"
    BY <1>2, <2>5 DEF Rejects
  <2>7. ASSUME NEW q \in Caller
        PROVE  u.call[q] = s.call[q] \/ (s.call[q].pc = "waiting" /\ u.call[q] = NoCall)
    BY <2>4, <2>6 DEF Rejects
  <2>8. \A a, b : Before(a, b, u.order) => Before(a, b, s.order)
    BY <2>3 DEF Rejects
  <2>9. \A k \in Gate : Running(u.gates, k) = Running(s.gates, k)
    BY <2>3 DEF Rejects
  <2>10. Rejects(s, u)
    BY <2>3, <2>7, <2>8, <2>9 DEF Rejects
  <2> QED
    BY <2>1, <2>4, <2>5, <2>10
<1> QED
  BY <1>1, <1>2

\* f[n] are the tables after n turns.
Rejections(f, s, q, m) ==
  f = [n \in 0..m |-> IF n = 0 THEN s ELSE Reject(f[n - 1], q[n])]

\* The loop of reset has an outcome for every number of turns.
LEMMA RejectionsExist ==
  ASSUME NEW s, NEW q, NEW m \in Nat
  PROVE  \E f : Rejections(f, s, q, m)
<1> USE DEF Rejections
<1> DEFINE S == {m0 \in Nat : \E f : Rejections(f, s, q, m0)}
<1>1. 0 \in S
  <2> DEFINE f == [n \in 0..0 |-> s]
  <2>1. f = [n \in 0..0 |-> IF n = 0 THEN s ELSE Reject(f[n - 1], q[n])]
    OBVIOUS
  <2> QED
    BY <2>1
<1>2. ASSUME NEW m0 \in Nat, m0 \in S PROVE m0 + 1 \in S
  <2>1. PICK f : f = [n \in 0..m0 |-> IF n = 0 THEN s ELSE Reject(f[n - 1], q[n])]
    BY <1>2
  <2> DEFINE h == [n \in 0..(m0 + 1) |-> IF n = m0 + 1 THEN Reject(f[m0], q[n]) ELSE f[n]]
  <2>2. ASSUME NEW n \in 0..(m0 + 1) PROVE h[n] = IF n = 0 THEN s ELSE Reject(h[n - 1], q[n])
    <3>1. CASE n = m0 + 1
      BY <3>1
    <3>2. CASE n = 0
      BY <2>1, <3>2
    <3>3. CASE n # 0 /\ n # m0 + 1
      BY <2>1, <3>3
    <3> QED
      BY <3>1, <3>2, <3>3
  <2>3. h = [n \in 0..(m0 + 1) |-> IF n = 0 THEN s ELSE Reject(h[n - 1], q[n])]
    BY <2>2
  <2> HIDE DEF h
  <2> QED
    BY <2>3
<1> HIDE DEF S
<1>3. m \in S
  BY <1>1, <1>2, SetInduction
<1> QED
  BY <1>3 DEF S

\* The loop of reset settles everybody in the queue and nobody else waits less.
LEMMA RejectedFacts ==
  ASSUME NEW s, Sound(s), NEW q \in Seq(Caller)
  PROVE  /\ Rejects(s, Rejected(s, q))
         /\ \A p \in Range(q) : Rejected(s, q).call[p].pc # "waiting"
<1> DEFINE m == Len(q)
           after == CHOOSE f : f = [n \in 0..m |-> IF n = 0 THEN s ELSE Reject(f[n - 1], q[n])]
<1>1. m \in Nat /\ DOMAIN q = 1..m /\ \A n \in 1..m : q[n] \in Caller
  BY LenProperties, ElementOfSeq
<1>2. Rejected(s, q) = after[m]
  BY Zenon DEF Rejected
<1>3. after = [n \in 0..m |-> IF n = 0 THEN s ELSE Reject(after[n - 1], q[n])]
  <2>1. \E f : Rejections(f, s, q, m)
    BY <1>1, RejectionsExist
  <2>2. \E f : f = [n \in 0..m |-> IF n = 0 THEN s ELSE Reject(f[n - 1], q[n])]
    BY <2>1, Zenon DEF Rejections
  <2> QED
    BY <2>2, Zenon
<1> HIDE DEF after
<1> DEFINE P(n) == /\ Rejects(s, after[n])
                   /\ \A i \in 1..n : after[n].call[q[i]].pc # "waiting"
           S == {n \in Nat : n <= m => P(n)}
<1>4. 0 \in S
  <2>1. after[0] = s
    BY <1>1, <1>3
  <2>2. Rejects(s, s)
    BY DEF Rejects
  <2> QED
    BY <2>1, <2>2
<1>5. ASSUME NEW n \in Nat, n \in S PROVE n + 1 \in S
  <2> SUFFICES ASSUME n + 1 <= m PROVE P(n + 1)
    OBVIOUS
  <2>1. P(n)
    BY <1>1, <1>5
  <2>2. after[n + 1] = Reject(after[n], q[n + 1]) /\ q[n + 1] \in Caller
    BY <1>1, <1>3
  <2>3. /\ Rejects(s, after[n + 1])
        /\ after[n + 1].call[q[n + 1]].pc # "waiting"
        /\ \A p \in Caller : after[n].call[p].pc # "waiting" => after[n + 1].call[p].pc # "waiting"
    BY <2>1, <2>2, RejectRejects
  <2>4. ASSUME NEW i \in 1..(n + 1) PROVE after[n + 1].call[q[i]].pc # "waiting"
    <3>1. CASE i = n + 1
      BY <2>3, <3>1
    <3>2. CASE i # n + 1
      <4>1. i \in 1..n /\ q[i] \in Caller
        BY <1>1, <3>2
      <4> QED
        BY <2>1, <2>3, <4>1
    <3> QED
      BY <3>1, <3>2
  <2> QED
    BY <2>3, <2>4
<1> HIDE DEF S
<1>6. m \in S
  BY <1>1, <1>4, <1>5, SetInduction
<1>7. P(m)
  BY <1>1, <1>6 DEF S
<1> QED
  BY <1>1, <1>2, <1>7 DEF Range

\* Gates nobody waits at can be deleted, with the permits counted on them.
LEMMA DeletedSound ==
  ASSUME NEW s, Sound(s), NEW ks,
         \A k \in ks \intersect DOMAIN s.gates : s.gates[k].queue = <<>>,
         NEW c \in [Caller -> CallState],
         \A p \in Caller : c[p].pc = s.call[p].pc /\ c[p].keys = s.call[p].keys
  PROVE  Sound(Tables(Without(s.gates, ks), c, s.order))
<1> DEFINE g == Without(s.gates, ks)
<1>1. DOMAIN g = DOMAIN s.gates \ ks /\ \A k \in DOMAIN g : g[k] = s.gates[k]
  BY DEF Without
<1> HIDE DEF g
<1>2. DOMAIN g \subseteq Gate /\ \A k \in DOMAIN g : g[k] \in GateState
  BY <1>1 DEF Sound, Typed
<1>3. \A k \in Gate : Queue(g, k) = Queue(s.gates, k)
  BY <1>1 DEF Queue
<1> QED
  BY <1>2, <1>3, SameQueuesSound DEF g

-----------------------------------------------------------------------------
\* The state as tables.

\* A permit outlives the reset of its gate and then counts down the successor,
\* so that the counters may miss permits, but only after a reset.
Missing == IF resets = 0 THEN {0} ELSE Nat

\* Until a gate is reset every permit is counted on all its gates.
Counted(c) == \A p \in Caller : c[p].pc = "held" => c[p].counted = c[p].keys

\* The inductive invariant.
SemaphoreInv ==
  /\ TypeOK
  /\ QueuesAgree
  /\ Accounted(Now, Missing)
  /\ resets = 0 => Counted(call)
  /\ blocks = 0 => Open(Now) /\ Awaited(Now)

\* The tables of the state.
LEMMA NowFields ==
  Now.gates = gates /\ Now.call = call /\ Now.order = order
BY TablesFields DEF Now

\* The state is sound tables where the invariant holds.
LEMMA SoundNow ==
  ASSUME TypeOK, QueuesAgree
  PROVE  Sound(Now)
BY NowFields DEF TypeOK, QueuesAgree, Sound, Typed

\* What the invariant says of the state after a step that becomes tables s.
LEMMA InvariantOfTables ==
  ASSUME NEW s, Sound(s), gates' = s.gates, call' = s.call, order' = s.order,
         blocks' \in 0..MaxBlocks, resets' \in 0..MaxResets,
         Accounted(s, Missing'), resets' = 0 => Counted(s.call),
         blocks' = 0 => Open(s) /\ Awaited(s)
  PROVE  SemaphoreInv'
<1>1. Now' = Tables(s.gates, s.call, s.order)
  BY DEF Now
<1> DEFINE t == Tables(s.gates, s.call, s.order)
<1>2. t.gates = s.gates /\ t.call = s.call /\ t.order = s.order
  BY TablesFields
<1> HIDE DEF t
<1>3. Agree(t) /\ Accounted(t, Missing')
  BY <1>2 DEF Sound, Agree, Accounted, Holders
<1>4. QueuesAgree'
  BY <1>1, <1>3 DEF QueuesAgree, t
<1>5. TypeOK'
  BY DEF Sound, Typed, TypeOK
<1>6. Accounted(Now, Missing)' /\ (resets' = 0 => Counted(call)')
  BY <1>1, <1>3 DEF t
<1>7. blocks' = 0 => Open(t) /\ Awaited(t)
  BY <1>2 DEF Open, Awaited
<1>8. blocks' = 0 => Open(Now)' /\ Awaited(Now)'
  BY <1>1, <1>7 DEF t
<1> QED
  BY <1>4, <1>5, <1>6, <1>8 DEF SemaphoreInv

-----------------------------------------------------------------------------
\* What a step does, from tables b to tables u.

NewlyHeld(b, u, p) == b.call[p].pc # "held" /\ u.call[p].pc = "held"

\* Nobody is admitted past an earlier waiter that wants one of the same gates.
InOrder(b, u) ==
  \A p, w \in Caller :
    /\ NewlyHeld(b, u, p)
    /\ b.call[w].pc = "waiting" /\ u.call[w].pc = "waiting"
    /\ b.call[w].keys \intersect u.call[p].keys # {}
    => Before(p, w, b.order)

\* Whoever is admitted is counted on all its gates, within their limits.
Fits(b, u) ==
  \A p \in Caller : NewlyHeld(b, u, p) =>
    \A k \in u.call[p].keys : /\ k \in u.call[p].counted
                              /\ k \in DOMAIN u.gates
                              /\ u.gates[k].running <= u.gates[k].max

\* Nobody could be admitted who could not before.
NoneWoken(b, u) == \A w \in Caller : Can(u, w) => Can(b, w)

\* A drain of tables s in which b has changed without admitting anybody or
\* letting anybody pass a waiter.
LEMMA DrainAfter ==
  ASSUME NEW b, NEW s, Sound(s),
         \A p \in Caller : s.call[p].pc = "held" => b.call[p].pc = "held",
         \A w \in Caller : b.call[w].pc = "waiting" /\ s.call[w].pc = "waiting"
                           => s.call[w].keys = b.call[w].keys,
         \A p, w \in Caller : Before(p, w, s.order) /\ b.call[w].pc = "waiting"
                              => Before(p, w, b.order)
  PROVE  LET t == Drained(s) IN
         /\ Sound(t) /\ Stuck(t) /\ InOrder(b, t) /\ Fits(b, t)
         /\ \A D : Accounted(s, D) => Accounted(t, D)
         /\ Counted(s.call) => Counted(t.call)
         /\ Open(s) => Open(t)
<1> DEFINE t == Drained(s)
<1>1. Drains(s, t) /\ Stuck(t)
  BY DrainedFacts
<1> HIDE DEF t
<1>2. ASSUME NEW p \in Caller
      PROVE  \/ t.call[p] = s.call[p]
             \/ /\ s.call[p].pc = "waiting"
                /\ t.call[p].pc = "held" /\ t.call[p].keys = s.call[p].keys
                /\ t.call[p].counted = s.call[p].keys
  <2>1. \/ t.call[p] = s.call[p]
        \/ s.call[p].pc = "waiting" /\ t.call[p] = Call("held", s.call[p].keys, s.call[p].keys)
    BY <1>1 DEF Drains
  <2> QED
    BY <2>1 DEF Call
<1>3. ASSUME NEW p \in Caller, NewlyHeld(b, t, p)
      PROVE  Admitted(s, t, p) /\ t.call[p].counted = t.call[p].keys
  BY <1>2, <1>3 DEF NewlyHeld, Admitted
<1>4. InOrder(b, t)
  <2> SUFFICES ASSUME NEW p \in Caller, NEW w \in Caller, NewlyHeld(b, t, p),
                      b.call[w].pc = "waiting", t.call[w].pc = "waiting",
                      b.call[w].keys \intersect t.call[p].keys # {}
               PROVE  Before(p, w, b.order)
    BY DEF InOrder
  <2>1. t.call[w] = s.call[w]
    BY <1>2
  <2>2. t.call[w].keys = b.call[w].keys
    BY <2>1
  <2>3. Before(p, w, s.order)
    BY <1>1, <1>3, <2>2 DEF Drains
  <2> QED
    BY <2>3
<1>5. Fits(b, t)
  <2> SUFFICES ASSUME NEW p \in Caller, NewlyHeld(b, t, p), NEW k \in t.call[p].keys
               PROVE  /\ k \in t.call[p].counted
                      /\ k \in DOMAIN t.gates
                      /\ t.gates[k].running <= t.gates[k].max
    BY DEF Fits
  <2> QED
    BY <1>1, <1>3 DEF Drains
<1>6. Counted(s.call) => Counted(t.call)
  BY <1>2 DEF Counted
<1>7. Sound(t) /\ (\A D : Accounted(s, D) => Accounted(t, D)) /\ (Open(s) => Open(t))
  BY <1>1 DEF Drains
<1> QED
  BY <1>1, <1>4, <1>5, <1>6, <1>7 DEF t

\* What follows a drain only sets timers and deletes idle gates.
LEMMA Tidied ==
  ASSUME NEW t, Sound(t), NEW g, DOMAIN g \subseteq DOMAIN t.gates,
         \A k \in DOMAIN g : /\ g[k] \in GateState
                             /\ g[k].queue = t.gates[k].queue
                             /\ g[k].running = t.gates[k].running
                             /\ g[k].max = t.gates[k].max
                             /\ g[k].blocked = t.gates[k].blocked,
         \A k \in DOMAIN t.gates \ DOMAIN g : Idle(t.gates[k])
  PROVE  LET u == Tables(g, t.call, t.order) IN
         /\ Sound(u)
         /\ \A D : Accounted(t, D) => Accounted(u, D)
         /\ NoneWoken(t, u)
         /\ Open(t) => Open(u)
         /\ Awaited(t) => Awaited(u)
         /\ \A b : InOrder(b, t) => InOrder(b, u)
         /\ \A b : Fits(b, t) /\ Accounted(t, {0}) => Fits(b, u)
<1> DEFINE u == Tables(g, t.call, t.order)
<1>1. u.gates = g /\ u.call = t.call /\ u.order = t.order
  BY TablesFields
<1>2. t.call \in [Caller -> CallState] /\ DOMAIN g \subseteq Gate
  BY DEF Sound, Typed
<1>3. \A k \in Gate : Queue(g, k) = Queue(t.gates, k) /\ Running(g, k) = Running(t.gates, k)
  BY DEF Queue, Running, Idle
<1>4. Sound(u)
  BY <1>2, <1>3, SameQueuesSound
<1> HIDE DEF u
<1>5. \A D : Accounted(t, D) => Accounted(u, D)
  BY <1>1, <1>3 DEF Accounted, Holders
<1>6. NoneWoken(t, u)
  <2> SUFFICES ASSUME NEW w \in Caller, Can(u, w)
               PROVE  Can(t, w)
    BY DEF NoneWoken
  <2>1. u.call[w].keys \subseteq DOMAIN g
    BY <1>1 DEF Can, CanAcquire
  <2>2. CanAcquire(t.gates, w, t.call[w].keys)
    BY <1>1, <2>1 DEF Can, CanAcquire, HasRoom
  <2> QED
    BY <1>1, <2>2 DEF Can
<1>7. \A b : InOrder(b, t) => InOrder(b, u)
  BY <1>1 DEF InOrder, NewlyHeld
<1>8. ASSUME NEW b, Fits(b, t), Accounted(t, {0}), NEW p \in Caller, NewlyHeld(b, u, p),
             NEW k \in u.call[p].keys
      PROVE  /\ k \in u.call[p].counted
             /\ k \in DOMAIN u.gates
             /\ u.gates[k].running <= u.gates[k].max
  <2>1. /\ k \in t.call[p].counted /\ k \in DOMAIN t.gates
        /\ t.gates[k].running <= t.gates[k].max
    BY <1>1, <1>8 DEF Fits, NewlyHeld
  <2>2. k \in Gate
    BY <2>1 DEF Sound, Typed
  <2>3. p \in Holders(t, k)
    BY <1>1, <1>8, <2>1 DEF Holders, NewlyHeld
  <2>4. /\ IsFiniteSet(Holders(t, k))
        /\ Cardinality(Holders(t, k)) - Running(t.gates, k) = 0
    BY <1>8, <2>2 DEF Accounted
  <2>5. Cardinality(Holders(t, k)) \in Nat \ {0} /\ Running(t.gates, k) \in Nat
    BY <2>2, <2>3, <2>4, FS_EmptySet, FS_CardinalityType, RunningType
  <2>6. t.gates[k].running # 0
    BY <2>1, <2>4, <2>5 DEF Running
  <2>7. k \in DOMAIN g
    BY <2>1, <2>6 DEF Idle
  <2> QED
    BY <1>1, <2>1, <2>7
<1>9. \A b : Fits(b, t) /\ Accounted(t, {0}) => Fits(b, u)
  BY <1>8 DEF Fits
<1>10. (Open(t) => Open(u)) /\ (Awaited(t) => Awaited(u))
  BY <1>1 DEF Open, Awaited, Idle
<1> QED
  BY <1>4, <1>5, <1>6, <1>7, <1>9, <1>10 DEF u

-----------------------------------------------------------------------------
\* The steps of callers, timers and operators.

\* A step becomes tables u, which keep the invariant and the properties.
Step(u) ==
  /\ gates' = u.gates /\ call' = u.call /\ order' = u.order
  /\ blocks' \in 0..MaxBlocks /\ resets' \in 0..MaxResets
  /\ Sound(u)
  /\ Accounted(u, Missing)
  /\ resets = 0 => Fits(Now, u)
  /\ resets' = 0 => resets = 0 /\ Counted(u.call)
  /\ blocks' = 0 => Open(u) /\ Awaited(u)
  /\ InOrder(Now, u)

\* The keys a caller asks for are gates, with limits of at least 1.
LEMMA RequirementFacts ==
  ASSUME NEW q \in Requirement
  PROVE  DOMAIN q \subseteq Gate /\ \A k \in DOMAIN q : q[k] \in Nat \ {0}
BY SemaphoreAssumption

\* ensureGate creates empty gates and sets limits, and changes nothing else.
LEMMA EnsuredFacts ==
  ASSUME TypeOK, NEW q \in Requirement, NEW ks, ks \subseteq DOMAIN q
  PROVE  LET g == Ensured(q, ks) IN
         /\ DOMAIN g = DOMAIN gates \union ks /\ DOMAIN g \subseteq Gate
         /\ \A k \in DOMAIN g : g[k] \in GateState
         /\ \A k \in Gate : Queue(g, k) = Queue(gates, k) /\ Running(g, k) = Running(gates, k)
         /\ \A k \in DOMAIN g \ ks : k \in DOMAIN gates /\ g[k] = gates[k]
         /\ \A k \in DOMAIN g : g[k].blocked => k \in DOMAIN gates /\ gates[k].blocked
<1> DEFINE g == Ensured(q, ks)
<1>1. DOMAIN g = DOMAIN gates \union ks /\ DOMAIN g \subseteq Gate
  BY RequirementFacts DEF Ensured, TypeOK
<1>2. ASSUME NEW k \in ks
      PROVE  /\ g[k] \in GateState
             /\ g[k].queue = IF k \in DOMAIN gates THEN gates[k].queue ELSE <<>>
             /\ g[k].running = IF k \in DOMAIN gates THEN gates[k].running ELSE 0
             /\ g[k].blocked => k \in DOMAIN gates /\ gates[k].blocked
  <2>1. q[k] \in Nat \ {0}
    BY RequirementFacts
  <2>2. CASE k \in DOMAIN gates
    <3>1. gates[k] \in GateState
      BY <2>2 DEF TypeOK
    <3>2. g[k] = [gates[k] EXCEPT !.max = q[k], !.cleanup = FALSE]
      BY <2>2 DEF Ensured
    <3> HIDE DEF g
    <3> QED
      BY <2>1, <2>2, <3>1, <3>2 DEF GateState
  <2>3. CASE k \notin DOMAIN gates
    <3>1. g[k] = NewGate(q[k])
      BY <2>3 DEF Ensured
    <3> HIDE DEF g
    <3> QED
      BY <2>1, <2>3, <3>1, EmptyQueue DEF NewGate, GateState
  <2> QED
    BY <2>2, <2>3
<1>3. ASSUME NEW k \in DOMAIN g, k \notin ks
      PROVE  k \in DOMAIN gates /\ g[k] = gates[k] /\ g[k] \in GateState
  BY <1>1, <1>3 DEF Ensured, TypeOK
<1> HIDE DEF g
<1>4. \A k \in Gate : Queue(g, k) = Queue(gates, k) /\ Running(g, k) = Running(gates, k)
  BY <1>1, <1>2, <1>3 DEF Queue, Running
<1>5. \A k \in DOMAIN g : g[k].blocked => k \in DOMAIN gates /\ gates[k].blocked
  BY <1>2, <1>3
<1> QED
  BY <1>1, <1>2, <1>3, <1>4, <1>5 DEF g

\* Steps that change neither requests nor queues nor counters: limits,
\* cooldowns, timers, and the deletion of idle gates.
LEMMA GatesOnly ==
  ASSUME SemaphoreInv, UNCHANGED <<call, order, resets>>, blocks' \in 0..MaxBlocks,
         DOMAIN gates' \subseteq Gate, \A k \in DOMAIN gates' : gates'[k] \in GateState,
         \A k \in Gate : /\ Queue(gates', k) = Queue(gates, k)
                         /\ Running(gates', k) = Running(gates, k),
         blocks' = 0 => blocks = 0 /\ \A k \in DOMAIN gates' : ~ gates'[k].blocked
  PROVE  Step(Tables(gates', call, order))
<1> DEFINE u == Tables(gates', call, order)
<1>1. u.gates = gates' /\ u.call = call /\ u.order = order
  BY TablesFields
<1>2. Sound(Now) /\ Now.gates = gates /\ Now.call = call /\ Now.order = order
  BY SoundNow, NowFields DEF SemaphoreInv
<1>3. Sound(u)
  <2>1. call \in [Caller -> CallState]
    BY DEF SemaphoreInv, TypeOK
  <2>2. Sound(Tables(gates', call, Now.order))
    BY <1>2, <2>1, SameQueuesSound
  <2> QED
    BY <1>2, <2>2
<1> HIDE DEF u
<1>4. Accounted(u, Missing)
  BY <1>1, <1>2 DEF Accounted, Holders, SemaphoreInv
<1>5. \A p \in Caller : ~ NewlyHeld(Now, u, p)
  BY <1>1, <1>2 DEF NewlyHeld
<1>6. InOrder(Now, u) /\ Fits(Now, u)
  BY <1>5 DEF InOrder, Fits
<1>7. resets' = resets /\ resets \in 0..MaxResets
  BY DEF SemaphoreInv, TypeOK
<1>8. ASSUME blocks' = 0 PROVE Open(u) /\ Awaited(u)
  <2>1. Awaited(Now)
    BY <1>8 DEF SemaphoreInv
  <2>2. ASSUME order # <<>>
        PROVE  \E k \in call[Head(order)].keys : k \in DOMAIN gates' /\ gates'[k].running # 0
    <3>1. PICK k \in call[Head(order)].keys : k \in DOMAIN gates /\ gates[k].running # 0
      BY <1>2, <2>1, <2>2 DEF Awaited
    <3>2. k \in Gate
      BY <3>1 DEF SemaphoreInv, TypeOK
    <3>3. Running(gates', k) # 0
      BY <3>1, <3>2 DEF Running
    <3> QED
      BY <3>3 DEF Running
  <2>3. Awaited(u)
    BY <1>1, <2>2 DEF Awaited
  <2> QED
    BY <1>1, <1>8, <2>3 DEF Open
<1> QED
  BY <1>1, <1>3, <1>4, <1>6, <1>7, <1>8 DEF Step, SemaphoreInv, u

\* A queue-full rejection leaves new gates and new limits behind.
LEMMA AcquireQueueFullSteps ==
  ASSUME SemaphoreInv, NEW p \in Caller, NEW q \in Requirement, AcquireQueueFull(p, q)
  PROVE  \E u : Step(u)
<1> DEFINE ks == {k \in DOMAIN q : \A f \in Full(q) : k <= f}
<1>1. gates' = Ensured(q, ks) /\ UNCHANGED <<call, order, blocks, resets>>
  BY DEF AcquireQueueFull
<1>2. TypeOK /\ blocks \in 0..MaxBlocks
  BY DEF SemaphoreInv, TypeOK
<1>3. ks \subseteq DOMAIN q
  OBVIOUS
<1> HIDE DEF ks
<1>4. ASSUME blocks' = 0, NEW k \in DOMAIN gates' PROVE ~ gates'[k].blocked
  <2>1. Open(Now) /\ Now.gates = gates
    BY <1>1, <1>4, NowFields DEF SemaphoreInv
  <2> QED
    BY <1>1, <1>2, <1>3, <1>4, <2>1, EnsuredFacts DEF Open
<1> QED
  BY <1>1, <1>2, <1>3, <1>4, EnsuredFacts, GatesOnly

\* An immediate admission finds the queues of its gates empty: there is nobody
\* to pass and nobody it could wake.
LEMMA AcquireAtOnceSteps ==
  ASSUME SemaphoreInv, NEW p \in Caller, NEW q \in Requirement, AcquireAtOnce(p, q)
  PROVE  \E u : Step(u) /\ NoneWoken(Now, u)
<1> DEFINE ks == DOMAIN q
           e == Ensured(q, ks)
           g == Update(e, ks, CountUp)
           c == [call EXCEPT ![p] = Call("held", ks, ks)]
           u == Tables(g, c, order)
<1>1. /\ call[p].pc = "idle" /\ Immediate(e, q)
      /\ gates' = g /\ call' = c /\ UNCHANGED <<order, blocks, resets>>
  BY DEF AcquireAtOnce
<1>2. /\ TypeOK /\ call \in [Caller -> CallState] /\ blocks \in 0..MaxBlocks
      /\ resets \in 0..MaxResets
  BY DEF SemaphoreInv, TypeOK
<1>3. Sound(Now) /\ Now.gates = gates /\ Now.call = call /\ Now.order = order
  BY SoundNow, NowFields DEF SemaphoreInv
<1>4. u.gates = g /\ u.call = c /\ u.order = order
  BY TablesFields
<1>5. ks \subseteq Gate
  BY RequirementFacts
<1>6. /\ DOMAIN e = DOMAIN gates \union ks /\ DOMAIN e \subseteq Gate
      /\ \A k \in DOMAIN e : e[k] \in GateState
      /\ \A k \in Gate : Queue(e, k) = Queue(gates, k) /\ Running(e, k) = Running(gates, k)
      /\ \A k \in DOMAIN e \ ks : k \in DOMAIN gates /\ e[k] = gates[k]
      /\ \A k \in DOMAIN e : e[k].blocked => k \in DOMAIN gates /\ gates[k].blocked
  BY <1>2, EnsuredFacts
<1>7. \A k \in ks : e[k].queue = <<>> /\ e[k].running < e[k].max
  BY <1>1 DEF Immediate, HasRoom
<1> HIDE DEF e
<1>8. /\ DOMAIN g = DOMAIN e
      /\ \A k \in DOMAIN e : g[k] = IF k \in ks THEN CountUp(e[k]) ELSE e[k]
  BY DEF Update
<1> HIDE DEF g
<1>9. ASSUME NEW k \in DOMAIN e
      PROVE  /\ g[k] \in GateState /\ g[k].queue = e[k].queue /\ g[k].max = e[k].max
             /\ g[k].running = e[k].running + IF k \in ks THEN 1 ELSE 0
             /\ k \in ks => g[k].running <= g[k].max
             /\ g[k].blocked = e[k].blocked
  <2>1. e[k] \in GateState /\ e[k].running \in Nat /\ e[k].max \in Nat
    BY <1>6 DEF GateState
  <2>2. /\ CountUp(e[k]) \in GateState /\ CountUp(e[k]).queue = e[k].queue
        /\ CountUp(e[k]).max = e[k].max /\ CountUp(e[k]).running = e[k].running + 1
        /\ CountUp(e[k]).blocked = e[k].blocked
    BY <2>1 DEF CountUp, GateState
  <2>3. e[k].running + 0 = e[k].running
    BY <2>1
  <2> QED
    BY <1>7, <1>8, <2>1, <2>2, <2>3
<1>10. \A k \in Gate : /\ Queue(g, k) = Queue(gates, k)
                       /\ Running(g, k) = Running(gates, k) + IF k \in ks THEN 1 ELSE 0
  <2> SUFFICES ASSUME NEW k \in Gate
               PROVE  /\ Queue(g, k) = Queue(gates, k)
                      /\ Running(g, k) = Running(gates, k) + IF k \in ks THEN 1 ELSE 0
    OBVIOUS
  <2>1. Queue(g, k) = Queue(e, k)
    BY <1>8, <1>9 DEF Queue
  <2>2. Running(g, k) = Running(e, k) + IF k \in ks THEN 1 ELSE 0
    BY <1>6, <1>8, <1>9 DEF Running
  <2> QED
    BY <1>6, <2>1, <2>2
<1>11. /\ c[p].pc = "held" /\ c[p].keys = ks /\ c[p].counted = ks
       /\ \A w \in Caller : w # p => c[w] = call[w]
  BY <1>2 DEF Call
<1>12. c \in [Caller -> CallState]
  BY <1>2, <1>5 DEF Call, CallState
<1>13. Sound(u)
  <2>1. Sound(Tables(g, c, Now.order))
    <3> HIDE DEF c
    <3> QED
      BY <1>1, <1>3, <1>6, <1>8, <1>9, <1>10, <1>11, <1>12, SameQueuesSound
  <2> QED
    BY <1>3, <2>1
<1>14. Accounted(u, Missing)
  <2>1. Accounted(Now, Missing) => Accounted(u, Missing)
    <3>1. u.call = [Now.call EXCEPT ![p] = Call("held", ks, ks)]
      BY <1>3, <1>4
    <3>2. \A k \in Gate : Running(u.gates, k) = Running(Now.gates, k) + IF k \in ks THEN 1 ELSE 0
      BY <1>3, <1>4, <1>10
    <3>3. Now.call[p].pc # "held"
      BY <1>1, <1>3
    <3> HIDE DEF u, c
    <3> QED
      BY <1>3, <1>5, <3>1, <3>2, <3>3, OneMoreHolder
  <2> QED
    BY <2>1 DEF SemaphoreInv
<1> HIDE DEF u, c
<1>15. \A w \in Caller : call[w].pc = "waiting" => call[w].keys \intersect ks = {}
  <2> SUFFICES ASSUME NEW w \in Caller, call[w].pc = "waiting", NEW k \in call[w].keys, k \in ks
               PROVE  FALSE
    OBVIOUS
  <2>1. k \in DOMAIN gates /\ w \in Range(gates[k].queue)
    BY <1>3, WaiterHasGates
  <2>2. gates[k].queue = <<>>
    BY <1>5, <1>6, <1>7, <2>1 DEF Queue
  <2> QED
    BY <2>1, <2>2, EmptyQueue
<1>16. InOrder(Now, u)
  BY <1>1, <1>3, <1>4, <1>11, <1>15 DEF InOrder, NewlyHeld
<1>17. Fits(Now, u)
  BY <1>3, <1>4, <1>6, <1>8, <1>9, <1>11 DEF Fits, NewlyHeld
<1>18. NoneWoken(Now, u)
  <2> SUFFICES ASSUME NEW w \in Caller, Can(u, w)
               PROVE  Can(Now, w)
    BY DEF NoneWoken
  <2>1. c[w].pc = "waiting" /\ CanAcquire(g, w, c[w].keys)
    BY <1>4 DEF Can
  <2>2. c[w] = call[w] /\ call[w].pc = "waiting"
    BY <1>11, <2>1
  <2>3. ASSUME NEW k \in call[w].keys PROVE k \in DOMAIN gates /\ g[k] = gates[k]
    <3>1. k \in DOMAIN g /\ k \notin ks
      BY <1>15, <2>1, <2>2 DEF CanAcquire
    <3> QED
      BY <1>6, <1>8, <3>1
  <2>4. CanAcquire(gates, w, call[w].keys)
    BY <2>1, <2>2, <2>3 DEF CanAcquire
  <2> QED
    BY <1>3, <2>2, <2>4 DEF Can
<1>19. Counted(call) => Counted(u.call)
  BY <1>4, <1>11 DEF Counted
<1>20. ASSUME blocks' = 0 PROVE Open(u) /\ Awaited(u)
  <2>1. Open(Now) /\ Awaited(Now)
    BY <1>1, <1>20 DEF SemaphoreInv
  <2>2. Open(u)
    BY <1>3, <1>4, <1>6, <1>8, <1>9, <2>1 DEF Open
  <2>3. ASSUME order # <<>>
        PROVE  \E k \in c[Head(order)].keys : k \in DOMAIN g /\ g[k].running # 0
    <3>1. PICK k \in call[Head(order)].keys : k \in DOMAIN gates /\ gates[k].running # 0
      BY <1>3, <2>1, <2>3 DEF Awaited
    <3>2. Head(order) \in Caller /\ call[Head(order)].pc = "waiting"
      BY <1>3, <2>3, HeadIsFirst DEF Sound, Typed, Agree
    <3>3. k \in call[Head(order)].keys /\ c[Head(order)] = call[Head(order)]
      BY <1>1, <1>11, <3>1, <3>2
    <3>4. k \notin ks
      BY <1>15, <3>2, <3>3
    <3>5. k \in DOMAIN e /\ e[k] = gates[k]
      BY <1>1, <1>6, <3>1, <3>4 DEF Ensured, e
    <3> QED
      BY <1>8, <3>1, <3>3, <3>4, <3>5
  <2>4. Awaited(u)
    BY <1>4, <2>3 DEF Awaited
  <2> QED
    BY <2>2, <2>4
<1>21. Step(u)
  BY <1>1, <1>2, <1>4, <1>13, <1>14, <1>16, <1>17, <1>19, <1>20 DEF Step, SemaphoreInv
<1> QED
  BY <1>18, <1>21

\* A request that joins the end of the order and of the queues of its gates.
LEMMA JoiningIsSound ==
  ASSUME NEW s, Sound(s), NEW p \in Caller, s.call[p].pc # "waiting",
         NEW ks, ks \subseteq Gate,
         NEW g, DOMAIN g \subseteq Gate, \A k \in DOMAIN g : g[k] \in GateState,
         \A k \in Gate : Queue(g, k) = IF k \in ks THEN Append(Queue(s.gates, k), p)
                                       ELSE Queue(s.gates, k)
  PROVE  Sound(Tables(g, [s.call EXCEPT ![p] = Call("waiting", ks, {})], Append(s.order, p)))
<1> DEFINE d == [s.call EXCEPT ![p] = Call("waiting", ks, {})]
           o == Append(s.order, p)
           t == Tables(g, d, o)
<1>1. /\ s.order \in Seq(Caller) /\ IsInjective(s.order)
      /\ Range(s.order) = {q \in Caller : s.call[q].pc = "waiting"}
      /\ s.call \in [Caller -> CallState]
  BY DEF Sound, Typed, Agree
<1>2. /\ o \in Seq(Caller) /\ IsInjective(o) /\ Range(o) = Range(s.order) \union {p}
      /\ \A a, b : Before(a, b, o) <=> Before(a, b, s.order) \/ (a \in Range(s.order) /\ b = p)
  <2>1. p \notin Range(s.order)
    BY <1>1
  <2> QED
    BY <1>1, <2>1, AppendKeepsOrder
<1>3. /\ d[p].pc = "waiting" /\ d[p].keys = ks
      /\ \A q \in Caller : q # p => d[q] = s.call[q]
  BY <1>1 DEF Call
<1>4. d \in [Caller -> CallState]
  BY <1>1 DEF Call, CallState
<1>5. t.gates = g /\ t.call = d /\ t.order = o
  <2> HIDE DEF d, o
  <2> QED
    BY TablesFields
<1> HIDE DEF t, d, o
<1>6. ASSUME NEW k \in Gate
      PROVE  /\ IsInjective(Queue(g, k))
             /\ Range(Queue(g, k)) = {q \in Caller : d[q].pc = "waiting" /\ k \in d[q].keys}
             /\ \A a, b \in Caller : Before(a, b, Queue(g, k)) => Before(a, b, o)
  <2> DEFINE u == Queue(s.gates, k)
  <2>1. /\ u \in Seq(Caller) /\ IsInjective(u)
        /\ Range(u) = {q \in Caller : s.call[q].pc = "waiting" /\ k \in s.call[q].keys}
        /\ \A a, b \in Caller : Before(a, b, u) => Before(a, b, s.order)
    BY QueueFacts
  <2>2. Queue(g, k) = IF k \in ks THEN Append(u, p) ELSE u
    OBVIOUS
  <2> HIDE DEF u
  <2>3. CASE k \in ks
    <3>1. /\ IsInjective(Queue(g, k)) /\ Range(Queue(g, k)) = Range(u) \union {p}
          /\ \A a, b : Before(a, b, Queue(g, k)) <=> Before(a, b, u) \/ (a \in Range(u) /\ b = p)
      BY <2>1, <2>2, <2>3, AppendKeepsOrder
    <3>2. Range(u) \subseteq Range(s.order)
      BY <1>1, <2>1
    <3> QED
      BY <1>2, <1>3, <2>1, <2>3, <3>1, <3>2
  <2>4. CASE k \notin ks
    BY <1>2, <1>3, <2>1, <2>2, <2>4
  <2> QED
    BY <2>3, <2>4
<1>7. Typed(t)
  BY <1>2, <1>4, <1>5 DEF Typed
<1>8. Agree(t)
  <2>1. Range(o) = {q \in Caller : d[q].pc = "waiting"}
    BY <1>1, <1>2, <1>3
  <2> QED
    BY <1>2, <1>5, <1>6, <2>1 DEF Agree
<1> QED
  BY <1>7, <1>8 DEF Sound, t, d, o

\* A step that becomes the tables after a drain of s, tidied or not.
LEMMA DrainSteps ==
  ASSUME SemaphoreInv, NEW s, Sound(s),
         \A p \in Caller : s.call[p].pc = "held" => call[p].pc = "held",
         \A w \in Caller : call[w].pc = "waiting" /\ s.call[w].pc = "waiting"
                           => s.call[w].keys = call[w].keys,
         \A p, w \in Caller : Before(p, w, s.order) /\ call[w].pc = "waiting"
                              => Before(p, w, order),
         Accounted(s, Missing), resets' = 0 => resets = 0 /\ Counted(s.call),
         blocks' \in 0..MaxBlocks, resets' \in 0..MaxResets, blocks' = 0 => Open(s),
         NEW g, DOMAIN g \subseteq DOMAIN Drained(s).gates,
         \A k \in DOMAIN g : /\ g[k] \in GateState
                             /\ g[k].queue = Drained(s).gates[k].queue
                             /\ g[k].running = Drained(s).gates[k].running
                             /\ g[k].max = Drained(s).gates[k].max
                             /\ g[k].blocked = Drained(s).gates[k].blocked,
         \A k \in DOMAIN Drained(s).gates \ DOMAIN g : Idle(Drained(s).gates[k]),
         gates' = g, call' = Drained(s).call, order' = Drained(s).order
  PROVE  \E u : Step(u) /\ NoneWoken(Now, u)
<1> DEFINE t == Drained(s)
           u == Tables(g, t.call, t.order)
<1>1. Now.gates = gates /\ Now.call = call /\ Now.order = order
  BY NowFields
<1>2. /\ Sound(t) /\ Stuck(t) /\ InOrder(Now, t) /\ Fits(Now, t)
      /\ \A D : Accounted(s, D) => Accounted(t, D)
      /\ Counted(s.call) => Counted(t.call)
      /\ Open(s) => Open(t)
  BY <1>1, DrainAfter
<1> HIDE DEF t
<1>3. /\ Sound(u)
      /\ \A D : Accounted(t, D) => Accounted(u, D)
      /\ NoneWoken(t, u)
      /\ Open(t) => Open(u)
      /\ Awaited(t) => Awaited(u)
      /\ InOrder(Now, t) => InOrder(Now, u)
      /\ Fits(Now, t) /\ Accounted(t, {0}) => Fits(Now, u)
  BY <1>2, Tidied DEF t
<1>4. u.gates = g /\ u.call = t.call /\ u.order = t.order
  BY TablesFields
<1> HIDE DEF u
<1>5. NoneWoken(Now, u)
  BY <1>2, <1>3 DEF NoneWoken, Stuck
<1>6. Step(u)
  <2>1. Accounted(u, Missing) /\ (resets = 0 => Fits(Now, u))
    BY <1>2, <1>3 DEF Missing
  <2>2. blocks' = 0 => Open(u) /\ Awaited(u)
    BY <1>2, <1>3, StuckAwaits
  <2> QED
    BY <1>2, <1>3, <1>4, <2>1, <2>2 DEF Step, t
<1> QED
  BY <1>5, <1>6

\* The same without tidying.
LEMMA PlainDrainSteps ==
  ASSUME SemaphoreInv, NEW s, Sound(s),
         \A p \in Caller : s.call[p].pc = "held" => call[p].pc = "held",
         \A w \in Caller : call[w].pc = "waiting" /\ s.call[w].pc = "waiting"
                           => s.call[w].keys = call[w].keys,
         \A p, w \in Caller : Before(p, w, s.order) /\ call[w].pc = "waiting"
                              => Before(p, w, order),
         Accounted(s, Missing), resets' = 0 => resets = 0 /\ Counted(s.call),
         blocks' \in 0..MaxBlocks, resets' \in 0..MaxResets, blocks' = 0 => Open(s),
         Become(Drained(s))
  PROVE  \E u : Step(u) /\ NoneWoken(Now, u)
<1>1. Sound(Drained(s))
  BY DrainedFacts DEF Drains
<1>2. \A k \in DOMAIN Drained(s).gates : Drained(s).gates[k] \in GateState
  BY <1>1 DEF Sound, Typed
<1> QED
  BY <1>2, DrainSteps DEF Become

\* A request that must wait joins the queues, and a drain follows.
LEMMA AcquireQueuedSteps ==
  ASSUME SemaphoreInv, NEW p \in Caller, NEW q \in Requirement, AcquireQueued(p, q)
  PROVE  \E u : Step(u) /\ NoneWoken(Now, u)
<1> DEFINE ks == DOMAIN q
           e == Ensured(q, ks)
           g == Update(e, ks, LAMBDA gate : [gate EXCEPT !.queue = Append(@, p)])
           c == [call EXCEPT ![p] = Call("waiting", ks, {})]
           o == Append(order, p)
           s == Tables(g, c, o)
<1>1. /\ call[p].pc = "idle" /\ Become(Drained(s)) /\ UNCHANGED <<blocks, resets>>
  BY DEF AcquireQueued
<1>2. /\ TypeOK /\ call \in [Caller -> CallState] /\ blocks \in 0..MaxBlocks
      /\ resets \in 0..MaxResets /\ order \in Seq(Caller)
  BY DEF SemaphoreInv, TypeOK
<1>3. Sound(Now) /\ Now.gates = gates /\ Now.call = call /\ Now.order = order
  BY SoundNow, NowFields DEF SemaphoreInv
<1>4. s.gates = g /\ s.call = c /\ s.order = o
  <2> HIDE DEF g, c, o
  <2> QED
    BY TablesFields
<1>5. ks \subseteq Gate
  BY RequirementFacts
<1>6. /\ DOMAIN e = DOMAIN gates \union ks /\ DOMAIN e \subseteq Gate
      /\ \A k \in DOMAIN e : e[k] \in GateState
      /\ \A k \in Gate : Queue(e, k) = Queue(gates, k) /\ Running(e, k) = Running(gates, k)
      /\ \A k \in DOMAIN e : e[k].blocked => k \in DOMAIN gates /\ gates[k].blocked
  BY <1>2, EnsuredFacts
<1> HIDE DEF e
<1>7. /\ DOMAIN g = DOMAIN e
      /\ \A k \in DOMAIN e :
           g[k] = IF k \in ks THEN [e[k] EXCEPT !.queue = Append(@, p)] ELSE e[k]
  BY DEF Update
<1> HIDE DEF g
<1>8. ASSUME NEW k \in DOMAIN e
      PROVE  /\ g[k] \in GateState /\ g[k].running = e[k].running /\ g[k].blocked = e[k].blocked
             /\ g[k].queue = IF k \in ks THEN Append(e[k].queue, p) ELSE e[k].queue
  <2>1. e[k] \in GateState
    BY <1>6
  <2>2. Append(e[k].queue, p) \in Seq(Caller)
    BY <2>1, AppendProperties DEF GateState
  <2> QED
    BY <1>7, <2>1, <2>2 DEF GateState
<1>9. \A k \in Gate : /\ Queue(g, k) = IF k \in ks THEN Append(Queue(gates, k), p)
                                       ELSE Queue(gates, k)
                      /\ Running(g, k) = Running(gates, k)
  <2> SUFFICES ASSUME NEW k \in Gate
               PROVE  /\ Queue(g, k) = IF k \in ks THEN Append(Queue(gates, k), p)
                                       ELSE Queue(gates, k)
                      /\ Running(g, k) = Running(gates, k)
    OBVIOUS
  <2>1. Queue(g, k) = IF k \in ks THEN Append(Queue(e, k), p) ELSE Queue(e, k)
    BY <1>6, <1>7, <1>8 DEF Queue
  <2>2. Running(g, k) = Running(e, k)
    BY <1>7, <1>8 DEF Running
  <2> QED
    BY <1>6, <2>1, <2>2
<1>10. /\ c[p].pc = "waiting"
       /\ \A w \in Caller : w # p => c[w] = call[w]
  BY <1>2 DEF Call
<1>11. Sound(s)
  <2>1. Now.call[p].pc # "waiting"
    BY <1>1, <1>3
  <2>2. Sound(Tables(g, [Now.call EXCEPT ![p] = Call("waiting", ks, {})], Append(Now.order, p)))
    BY <1>3, <1>5, <1>6, <1>7, <1>8, <1>9, <2>1, JoiningIsSound
  <2> QED
    BY <1>3, <2>2
<1> HIDE DEF s, c
<1>12. Accounted(s, Missing) /\ (resets = 0 => Counted(s.call))
  <2>1. \A k \in Gate : Holders(s, k) = Holders(Now, k)
    BY <1>1, <1>3, <1>4, <1>10 DEF Holders
  <2>2. Accounted(Now, Missing) => Accounted(s, Missing)
    BY <1>3, <1>4, <1>9, <2>1 DEF Accounted
  <2>3. Counted(call) => Counted(s.call)
    BY <1>4, <1>10 DEF Counted
  <2> QED
    BY <2>2, <2>3 DEF SemaphoreInv
<1>13. \A a, w \in Caller : Before(a, w, s.order) /\ call[w].pc = "waiting" => Before(a, w, order)
  <2>1. IsInjective(order) /\ p \notin Range(order)
    BY <1>1, <1>3 DEF Sound, Agree
  <2>2. \A a, w : Before(a, w, Append(order, p)) => Before(a, w, order) \/ w = p
    BY <1>2, <2>1, AppendKeepsOrder
  <2> QED
    BY <1>1, <1>4, <2>2
<1>14. /\ \A w \in Caller : s.call[w].pc = "held" => call[w].pc = "held"
       /\ \A w \in Caller : call[w].pc = "waiting" /\ s.call[w].pc = "waiting"
                            => s.call[w].keys = call[w].keys
  BY <1>1, <1>4, <1>10
<1>15. ASSUME blocks' = 0 PROVE Open(s)
  <2>1. Open(Now)
    BY <1>1, <1>15 DEF SemaphoreInv
  <2> QED
    BY <1>3, <1>4, <1>6, <1>7, <1>8, <2>1 DEF Open
<1> QED
  BY <1>1, <1>2, <1>11, <1>12, <1>13, <1>14, <1>15, PlainDrainSteps

\* A timeout or an abort takes the request out of all its queues, and drains.
LEMMA GiveUpSteps ==
  ASSUME SemaphoreInv, NEW p \in Caller, GiveUp(p)
  PROVE  \E u : Step(u) /\ NoneWoken(Now, u)
<1> DEFINE s == Dismissed(Now, p)
<1>1. call[p].pc = "waiting" /\ Become(Drained(s)) /\ UNCHANGED <<blocks, resets>>
  BY DEF GiveUp
<1>2. /\ call \in [Caller -> CallState] /\ blocks \in 0..MaxBlocks /\ resets \in 0..MaxResets
  BY DEF SemaphoreInv, TypeOK
<1>3. Sound(Now) /\ Now.gates = gates /\ Now.call = call /\ Now.order = order
  BY SoundNow, NowFields DEF SemaphoreInv
<1>4. /\ Sound(s)
      /\ s.call = [call EXCEPT ![p] = NoCall]
      /\ \A a, b : Before(a, b, s.order) => Before(a, b, order)
      /\ \A k \in Gate : Running(s.gates, k) = Running(gates, k)
      /\ Open(Now) => Open(s)
  BY <1>1, <1>3, DismissedFacts
<1> HIDE DEF s
<1>5. s.call[p].pc = "idle" /\ \A w \in Caller : w # p => s.call[w] = call[w]
  BY <1>2, <1>4 DEF NoCall, Call
<1>6. Accounted(s, Missing) /\ (resets = 0 => Counted(s.call))
  <2>1. \A k \in Gate : Holders(s, k) = Holders(Now, k)
    BY <1>1, <1>3, <1>5 DEF Holders
  <2>2. Accounted(Now, Missing) => Accounted(s, Missing)
    BY <1>3, <1>4, <2>1 DEF Accounted
  <2>3. Counted(call) => Counted(s.call)
    BY <1>5 DEF Counted
  <2> QED
    BY <2>2, <2>3 DEF SemaphoreInv
<1>7. /\ \A w \in Caller : s.call[w].pc = "held" => call[w].pc = "held"
      /\ \A w \in Caller : call[w].pc = "waiting" /\ s.call[w].pc = "waiting"
                           => s.call[w].keys = call[w].keys
  BY <1>5
<1>8. blocks' = 0 => Open(s)
  BY <1>1, <1>4 DEF SemaphoreInv
<1> QED
  BY <1>1, <1>2, <1>4, <1>6, <1>7, <1>8, PlainDrainSteps

\* Setting a timer changes nothing that admission looks at.
LEMMA ScheduleCleanupFacts ==
  ASSUME NEW e \in GateState
  PROVE  LET f == ScheduleCleanup(e) IN
         /\ f \in GateState /\ f.queue = e.queue /\ f.running = e.running
         /\ f.max = e.max /\ f.blocked = e.blocked
BY DEF ScheduleCleanup, GateState

\* A permit is given back: until a reset every one of its gates counted it, and
\* after one no gate counted it that does not count down.
LEMMA OneLessHolder ==
  ASSUME SemaphoreInv, NEW p \in Caller, call[p].pc = "held",
         NEW s, s.call = [call EXCEPT ![p] = NoCall],
         s.gates = Update(gates, call[p].keys, CountDown)
  PROVE  Accounted(s, Missing)
<1> SUFFICES ASSUME NEW k \in Gate
             PROVE  /\ IsFiniteSet(Holders(s, k))
                    /\ Cardinality(Holders(s, k)) - Running(s.gates, k) \in Missing
  BY DEF Accounted
<1> DEFINE H == Holders(Now, k)
           n == Running(gates, k)
<1>1. /\ TypeOK /\ call \in [Caller -> CallState] /\ call[p].counted \subseteq call[p].keys
      /\ resets = 0 => call[p].counted = call[p].keys
  BY DEF SemaphoreInv, TypeOK, Counted, CallState
<1>2. Now.call = call /\ Now.gates = gates /\ Sound(Now)
  BY NowFields, SoundNow DEF SemaphoreInv
<1>3. IsFiniteSet(H) /\ Cardinality(H) - n \in Missing
  BY <1>2 DEF SemaphoreInv, Accounted
<1>4. Cardinality(H) \in Nat /\ n \in Nat /\ (resets = 0 => Cardinality(H) = n)
  BY <1>2, <1>3, FS_CardinalityType, RunningType DEF Missing
<1>5. s.call[p].pc = "idle" /\ \A q \in Caller : q # p => s.call[q] = call[q]
  BY <1>1 DEF NoCall, Call
<1>6. Holders(s, k) = H \ {p}
  BY <1>2, <1>5 DEF Holders
<1>7. p \in H <=> k \in call[p].counted
  BY <1>1, <1>2 DEF Holders
<1>8. Running(s.gates, k) = IF k \in call[p].keys /\ n # 0 THEN n - 1 ELSE n
  <2>1. CASE k \notin DOMAIN gates
    BY <2>1 DEF Running, Update
  <2>2. CASE k \in DOMAIN gates /\ k \notin call[p].keys
    BY <2>2 DEF Running, Update
  <2>3. CASE k \in DOMAIN gates /\ k \in call[p].keys
    <3>1. gates[k] \in GateState
      BY <1>1, <2>3 DEF TypeOK
    <3>2. s.gates[k] = CountDown(gates[k]) /\ k \in DOMAIN s.gates
      BY <2>3 DEF Update
    <3>3. s.gates[k].running = IF gates[k].running > 0 THEN gates[k].running - 1 ELSE 0
      BY <3>1, <3>2 DEF CountDown, GateState
    <3> QED
      BY <2>3, <3>1, <3>2, <3>3 DEF Running, GateState
  <2> QED
    BY <2>1, <2>2, <2>3
<1>9. \/ H # {} /\ Cardinality(H) # 0
      \/ H = {} /\ Cardinality(H) = 0
  BY <1>3, FS_EmptySet
<1> HIDE DEF H, n
<1>10. CASE k \in call[p].counted
  <2>1. IsFiniteSet(H \ {p}) /\ Cardinality(H \ {p}) = Cardinality(H) - 1
    BY <1>3, <1>7, <1>10, FS_RemoveElement
  <2>2. Cardinality(H) # 0 /\ k \in call[p].keys
    BY <1>1, <1>7, <1>9, <1>10
  <2>3. Cardinality(H \ {p}) - Running(s.gates, k) \in Missing
    BY <1>3, <1>4, <1>8, <2>1, <2>2 DEF Missing
  <2> QED
    BY <1>6, <2>1, <2>3
<1>11. CASE k \notin call[p].counted
  <2>1. H \ {p} = H
    BY <1>7, <1>11
  <2>2. resets = 0 => k \notin call[p].keys
    BY <1>1, <1>11
  <2>3. Cardinality(H) - Running(s.gates, k) \in Missing
    BY <1>3, <1>4, <1>8, <2>2 DEF Missing
  <2> QED
    BY <1>3, <1>6, <2>1, <2>3
<1> QED
  BY <1>10, <1>11

\* A release counts down, drains, and sets the timers of idle gates.
LEMMA ReleaseSteps ==
  ASSUME SemaphoreInv, NEW p \in Caller, Release(p)
  PROVE  \E u : Step(u) /\ NoneWoken(Now, u)
<1> DEFINE ks == call[p].keys
           g == Update(gates, ks, CountDown)
           c == [call EXCEPT ![p] = NoCall]
           s == Tables(g, c, order)
           t == Drained(s)
           h == Update(t.gates, ks, ScheduleCleanup)
<1>1. call[p].pc = "held" /\ Become(Tables(h, t.call, t.order)) /\ UNCHANGED <<blocks, resets>>
  BY DEF Release, Released
<1>2. /\ TypeOK /\ call \in [Caller -> CallState] /\ blocks \in 0..MaxBlocks
      /\ resets \in 0..MaxResets
  BY DEF SemaphoreInv, TypeOK
<1>3. Sound(Now) /\ Now.gates = gates /\ Now.call = call /\ Now.order = order
  BY SoundNow, NowFields DEF SemaphoreInv
<1>4. s.gates = g /\ s.call = c /\ s.order = order
  <2> HIDE DEF g, c
  <2> QED
    BY TablesFields
<1>5. /\ DOMAIN g = DOMAIN gates
      /\ \A k \in DOMAIN gates : g[k] = IF k \in ks THEN CountDown(gates[k]) ELSE gates[k]
  BY DEF Update
<1>6. c[p] = NoCall /\ c[p].pc = "idle" /\ \A w \in Caller : w # p => c[w] = call[w]
  BY <1>2 DEF NoCall, Call
<1>7. c \in [Caller -> CallState]
  BY <1>2 DEF NoCall, Call, CallState
<1>8. Accounted(s, Missing)
  <2> HIDE DEF s, c, g
  <2>1. s.call = [call EXCEPT ![p] = NoCall] /\ s.gates = Update(gates, call[p].keys, CountDown)
    BY <1>4 DEF c, g
  <2> QED
    BY <1>1, <2>1, OneLessHolder
<1> HIDE DEF g, c
<1>9. ASSUME NEW k \in DOMAIN gates
      PROVE  /\ g[k] \in GateState /\ g[k].queue = gates[k].queue
             /\ g[k].blocked = gates[k].blocked
  <2>1. gates[k] \in GateState
    BY <1>2 DEF TypeOK
  <2>2. /\ CountDown(gates[k]) \in GateState /\ CountDown(gates[k]).queue = gates[k].queue
        /\ CountDown(gates[k]).blocked = gates[k].blocked
    BY <2>1 DEF CountDown, GateState
  <2> QED
    BY <1>5, <2>1, <2>2
<1>10. Sound(s)
  <2>1. \A k \in Gate : Queue(g, k) = Queue(gates, k)
    BY <1>5, <1>9 DEF Queue
  <2>2. DOMAIN g \subseteq Gate
    BY <1>2, <1>5 DEF TypeOK
  <2>3. Sound(Tables(g, c, Now.order))
    BY <1>1, <1>3, <1>5, <1>6, <1>7, <1>9, <2>1, <2>2, SameQueuesSound
  <2> QED
    BY <1>3, <2>3
<1>11. /\ Counted(call) => Counted(s.call)
       /\ Open(Now) => Open(s)
  BY <1>3, <1>4, <1>5, <1>6, <1>9 DEF Counted, Open
<1> HIDE DEF s
<1>12. Sound(t)
  BY <1>10, DrainedFacts DEF Drains
<1> HIDE DEF t
<1>13. /\ DOMAIN h = DOMAIN t.gates
       /\ \A k \in DOMAIN t.gates : h[k] = IF k \in ks THEN ScheduleCleanup(t.gates[k]) ELSE t.gates[k]
  BY DEF Update
<1> HIDE DEF h
<1>14. \A k \in DOMAIN h : /\ h[k] \in GateState
                           /\ h[k].queue = t.gates[k].queue /\ h[k].running = t.gates[k].running
                           /\ h[k].max = t.gates[k].max /\ h[k].blocked = t.gates[k].blocked
  <2>1. \A k \in DOMAIN t.gates : t.gates[k] \in GateState
    BY <1>12 DEF Sound, Typed
  <2> QED
    BY <1>13, <2>1, ScheduleCleanupFacts
<1>15. gates' = h /\ call' = t.call /\ order' = t.order
  BY <1>1, TablesFields DEF Become
<1>16. /\ \A w \in Caller : s.call[w].pc = "held" => call[w].pc = "held"
       /\ \A w \in Caller : call[w].pc = "waiting" /\ s.call[w].pc = "waiting"
                            => s.call[w].keys = call[w].keys
       /\ \A a, w \in Caller : Before(a, w, s.order) /\ call[w].pc = "waiting" => Before(a, w, order)
  BY <1>4, <1>6
<1>17. (resets' = 0 => resets = 0 /\ Counted(s.call)) /\ (blocks' = 0 => Open(s))
  BY <1>1, <1>11 DEF SemaphoreInv
<1> QED
  BY <1>1, <1>2, <1>8, <1>10, <1>13, <1>14, <1>15, <1>16, <1>17, DrainSteps DEF t

\* A cooldown closes its gate: it wakes nobody.
LEMMA MarkBlockedSteps ==
  ASSUME SemaphoreInv, NEW k \in Gate, MarkBlocked(k)
  PROVE  \E u : Step(u) /\ NoneWoken(Now, u)
<1> DEFINE g == IF k \in DOMAIN gates THEN gates[k] ELSE NewGate(1)
           u == Tables(gates', call, order)
<1>1. /\ gates' = [l \in DOMAIN gates \union {k} |->
                     IF l = k THEN [g EXCEPT !.blocked = TRUE, !.cleanup = FALSE] ELSE gates[l]]
      /\ UNCHANGED <<call, order, resets>> /\ blocks < MaxBlocks /\ blocks' = blocks + 1
  BY DEF MarkBlocked
<1>2. TypeOK /\ MaxBlocks \in Nat /\ blocks' \in 0..MaxBlocks /\ blocks' # 0
  BY <1>1, SemaphoreAssumption DEF SemaphoreInv, TypeOK
<1>3. /\ g \in GateState
      /\ g.queue = Queue(gates, k) /\ g.running = Running(gates, k)
  BY <1>2, EmptyQueue DEF TypeOK, NewGate, GateState, Queue, Running
<1> HIDE DEF g
<1>4. /\ DOMAIN gates' = DOMAIN gates \union {k}
      /\ gates'[k] \in GateState /\ gates'[k].blocked
      /\ gates'[k].queue = Queue(gates, k) /\ gates'[k].running = Running(gates, k)
      /\ \A l \in DOMAIN gates : l # k => gates'[l] = gates[l]
  BY <1>1, <1>3 DEF GateState
<1>5. DOMAIN gates' \subseteq Gate /\ \A l \in DOMAIN gates' : gates'[l] \in GateState
  BY <1>2, <1>4 DEF TypeOK
<1>6. \A l \in Gate : /\ Queue(gates', l) = Queue(gates, l)
                      /\ Running(gates', l) = Running(gates, l)
  BY <1>4 DEF Queue, Running
<1>7. Step(u)
  BY <1>1, <1>2, <1>5, <1>6, GatesOnly
<1>8. NoneWoken(Now, u)
  <2> SUFFICES ASSUME NEW w \in Caller, Can(u, w)
               PROVE  Can(Now, w)
    BY DEF NoneWoken
  <2>1. call[w].pc = "waiting" /\ CanAcquire(gates', w, call[w].keys)
    BY TablesFields DEF Can
  <2>2. ASSUME NEW l \in call[w].keys PROVE l \in DOMAIN gates /\ gates'[l] = gates[l]
    BY <1>4, <2>1 DEF CanAcquire, HasRoom
  <2>3. CanAcquire(gates, w, call[w].keys)
    BY <2>1, <2>2 DEF CanAcquire
  <2> QED
    BY <2>1, <2>3, NowFields DEF Can
<1> QED
  BY <1>7, <1>8

\* The passing of a cooldown opens its gate and runs no code.
LEMMA ElapseSteps ==
  ASSUME SemaphoreInv, NEW k \in Gate, Elapse(k)
  PROVE  \E u : Step(u)
<1>1. /\ k \in DOMAIN gates /\ gates' = [gates EXCEPT ![k].blocked = FALSE]
      /\ UNCHANGED <<call, order, resets>> /\ blocks' = blocks /\ gates[k].blocked
  BY DEF Elapse
<1>2. /\ DOMAIN gates \subseteq Gate /\ blocks' \in 0..MaxBlocks
      /\ \A l \in DOMAIN gates : gates[l] \in GateState
  BY <1>1 DEF SemaphoreInv, TypeOK
<1>3. /\ DOMAIN gates' = DOMAIN gates
      /\ \A l \in DOMAIN gates : l # k => gates'[l] = gates[l]
      /\ gates'[k] = [gates[k] EXCEPT !.blocked = FALSE]
  BY <1>1
<1>4. /\ gates'[k] \in GateState
      /\ gates'[k].queue = gates[k].queue /\ gates'[k].running = gates[k].running
  BY <1>1, <1>2, <1>3 DEF GateState
<1>5. \A l \in Gate : /\ Queue(gates', l) = Queue(gates, l)
                      /\ Running(gates', l) = Running(gates, l)
  BY <1>3, <1>4 DEF Queue, Running
<1>6. \A l \in DOMAIN gates' : gates'[l] \in GateState
  BY <1>2, <1>3, <1>4
<1>7. blocks' # 0
  BY <1>1, NowFields DEF SemaphoreInv, Open
<1> QED
  BY <1>1, <1>2, <1>3, <1>5, <1>6, <1>7, GatesOnly

\* unblock drains, and then deletes the gate if it is idle.
LEMMA UnblockSteps ==
  ASSUME SemaphoreInv, NEW k \in Gate, Unblock(k)
  PROVE  \E u : Step(u) /\ NoneWoken(Now, u)
<1> DEFINE g == [gates EXCEPT ![k].blocked = FALSE]
           s == Tables(g, call, order)
           t == Drained(s)
           h == Without(t.gates, IdleKeys(t.gates, {k}))
<1>1. /\ k \in DOMAIN gates /\ Become(Tables(h, t.call, t.order))
      /\ UNCHANGED <<blocks, resets>>
  BY DEF Unblock
<1>2. /\ TypeOK /\ call \in [Caller -> CallState] /\ blocks \in 0..MaxBlocks
      /\ resets \in 0..MaxResets
  BY DEF SemaphoreInv, TypeOK
<1>3. Sound(Now) /\ Now.gates = gates /\ Now.call = call /\ Now.order = order
  BY SoundNow, NowFields DEF SemaphoreInv
<1>4. s.gates = g /\ s.call = call /\ s.order = order
  <2> HIDE DEF g
  <2> QED
    BY TablesFields
<1>5. /\ DOMAIN g = DOMAIN gates
      /\ \A l \in DOMAIN gates : g[l] = IF l = k THEN [gates[k] EXCEPT !.blocked = FALSE]
                                        ELSE gates[l]
  OBVIOUS
<1> HIDE DEF g
<1>6. ASSUME NEW l \in DOMAIN g
      PROVE  /\ g[l] \in GateState /\ g[l].queue = gates[l].queue
             /\ g[l].running = gates[l].running
  <2>1. gates[l] \in GateState
    BY <1>2, <1>5 DEF TypeOK
  <2>2. CASE l = k
    <3>1. g[l] = [gates[l] EXCEPT !.blocked = FALSE]
      BY <1>5, <2>2
    <3> QED
      BY <2>1, <3>1 DEF GateState
  <2>3. CASE l # k
    BY <1>5, <2>1, <2>3
  <2> QED
    BY <2>2, <2>3
<1>7. \A l \in Gate : Queue(g, l) = Queue(gates, l) /\ Running(g, l) = Running(gates, l)
  BY <1>5, <1>6 DEF Queue, Running
<1>8. Sound(s)
  <2>1. DOMAIN g \subseteq Gate
    BY <1>2, <1>5 DEF TypeOK
  <2>2. Sound(Tables(g, call, Now.order))
    BY <1>2, <1>3, <1>6, <1>7, <2>1, SameQueuesSound
  <2> QED
    BY <1>3, <2>2
<1> HIDE DEF s
<1>9. Accounted(s, Missing) /\ (resets = 0 => Counted(s.call))
  <2>1. Accounted(Now, Missing) => Accounted(s, Missing)
    BY <1>3, <1>4, <1>7 DEF Accounted, Holders
  <2> QED
    BY <1>4, <2>1 DEF SemaphoreInv
<1>10. Sound(t)
  BY <1>8, DrainedFacts DEF Drains
<1> HIDE DEF t
<1>11. /\ DOMAIN h \subseteq DOMAIN t.gates
       /\ \A l \in DOMAIN h : h[l] = t.gates[l]
       /\ \A l \in DOMAIN t.gates \ DOMAIN h : Idle(t.gates[l])
  BY DEF Without, IdleKeys
<1> HIDE DEF h
<1>12. \A l \in DOMAIN h : h[l] \in GateState
  BY <1>10, <1>11 DEF Sound, Typed
<1>13. gates' = h /\ call' = t.call /\ order' = t.order
  BY <1>1, TablesFields DEF Become
<1>14. blocks' = 0 => Open(s)
  <2>1. \A l \in DOMAIN gates : gates[l] \in GateState
    BY <1>2 DEF TypeOK
  <2>2. Open(Now) => \A l \in DOMAIN g : ~ g[l].blocked
    BY <1>3, <1>5, <2>1 DEF Open, GateState
  <2> QED
    BY <1>1, <1>4, <2>2 DEF SemaphoreInv, Open
<1> QED
  BY <1>1, <1>2, <1>4, <1>8, <1>9, <1>11, <1>12, <1>13, <1>14, DrainSteps DEF t

\* The cleanup timer deletes only a gate that is still idle: nobody waits at it
\* and no permit is counted on it.
LEMMA CleanupSteps ==
  ASSUME SemaphoreInv, NEW k \in Gate, Cleanup(k)
  PROVE  \E u : Step(u) /\ NoneWoken(Now, u)
<1> DEFINE u == Tables(gates', call, order)
           f == [gates EXCEPT ![k].cleanup = FALSE]
<1>1. /\ k \in DOMAIN gates /\ gates' = Without(f, IdleKeys(gates, {k}))
      /\ UNCHANGED <<call, order, blocks, resets>>
  BY DEF Cleanup
<1>2. /\ DOMAIN gates \subseteq Gate /\ blocks' \in 0..MaxBlocks
      /\ \A l \in DOMAIN gates : gates[l] \in GateState
  BY <1>1 DEF SemaphoreInv, TypeOK
<1>3. /\ DOMAIN f = DOMAIN gates
      /\ \A l \in DOMAIN gates : f[l] = IF l = k THEN [gates[k] EXCEPT !.cleanup = FALSE]
                                        ELSE gates[l]
  OBVIOUS
<1> HIDE DEF f
<1>4. ASSUME NEW l \in DOMAIN gates
      PROVE  /\ f[l] \in GateState /\ f[l].queue = gates[l].queue
             /\ f[l].running = gates[l].running /\ f[l].max = gates[l].max
             /\ f[l].blocked = gates[l].blocked
  <2>1. gates[l] \in GateState
    BY <1>2
  <2>2. CASE l = k
    <3>1. f[l] = [gates[l] EXCEPT !.cleanup = FALSE]
      BY <1>3, <2>2
    <3> QED
      BY <2>1, <3>1 DEF GateState
  <2>3. CASE l # k
    BY <1>3, <2>1, <2>3
  <2> QED
    BY <2>2, <2>3
<1>5. /\ DOMAIN gates' \subseteq DOMAIN gates
      /\ \A l \in DOMAIN gates' : gates'[l] = f[l]
      /\ \A l \in DOMAIN gates \ DOMAIN gates' :
           gates[l].running = 0 /\ gates[l].queue = <<>>
  BY <1>1, <1>3 DEF Without, IdleKeys, Idle
<1>6. \A l \in Gate : Queue(gates', l) = Queue(gates, l) /\ Running(gates', l) = Running(gates, l)
  BY <1>4, <1>5 DEF Queue, Running
<1>7. Step(u)
  <2>1. ASSUME blocks' = 0 PROVE blocks = 0 /\ \A l \in DOMAIN gates' : ~ gates'[l].blocked
    <3>1. blocks = 0
      BY <1>1, <2>1
    <3>2. \A l \in DOMAIN gates : ~ gates[l].blocked
      BY <3>1, NowFields DEF SemaphoreInv, Open
    <3> QED
      BY <1>4, <1>5, <3>1, <3>2
  <2> QED
    BY <1>1, <1>2, <1>4, <1>5, <1>6, <2>1, GatesOnly
<1>8. NoneWoken(Now, u)
  <2> SUFFICES ASSUME NEW w \in Caller, Can(u, w)
               PROVE  Can(Now, w)
    BY DEF NoneWoken
  <2>1. call[w].pc = "waiting" /\ CanAcquire(gates', w, call[w].keys)
    BY TablesFields DEF Can
  <2>2. CanAcquire(gates, w, call[w].keys)
    BY <1>4, <1>5, <2>1 DEF CanAcquire, HasRoom
  <2> QED
    BY <2>1, <2>2, NowFields DEF Can
<1> QED
  BY <1>7, <1>8

\* A queue in which nobody stands is empty.
LEMMA NobodyQueued ==
  ASSUME NEW S, NEW s \in Seq(S), Range(s) = {}
  PROVE  s = <<>>
<1>1. Len(s) \in Nat /\ DOMAIN s = 1..Len(s)
  BY LenProperties
<1>2. Len(s) = 0
  <2> SUFFICES ASSUME Len(s) # 0 PROVE FALSE
    OBVIOUS
  <2>1. 1 \in DOMAIN s
    BY <1>1
  <2> QED
    BY <2>1 DEF Range
<1> QED
  BY <1>2, EmptySeq

\* Uncounting permits on ks leaves requests and permits as they are.
LEMMA UncountedFacts ==
  ASSUME NEW c \in [Caller -> CallState], NEW ks
  PROVE  LET d == Uncounted(c, ks) IN
         /\ d \in [Caller -> CallState]
         /\ \A p \in Caller : /\ d[p].pc = c[p].pc /\ d[p].keys = c[p].keys
                              /\ d[p].counted = c[p].counted \ ks
<1> DEFINE d == Uncounted(c, ks)
<1>1. ASSUME NEW p \in Caller
      PROVE  /\ d[p] \in CallState
             /\ d[p].pc = c[p].pc /\ d[p].keys = c[p].keys
             /\ d[p].counted = c[p].counted \ ks
  <2>1. d[p] = [c[p] EXCEPT !.counted = @ \ ks]
    BY DEF Uncounted
  <2>2. c[p] \in CallState
    OBVIOUS
  <2> HIDE DEF d
  <2> QED
    BY <2>1, <2>2 DEF CallState
<1>2. d = [p \in Caller |-> d[p]]
  BY DEF Uncounted
<1> HIDE DEF d
<1> QED
  BY <1>1, <1>2 DEF d

\* reset rejects the waiters of the gate, one after the other, deletes the
\* gate, and drains the others.
LEMMA ResetSteps ==
  ASSUME SemaphoreInv, NEW k \in Gate, Reset(k)
  PROVE  \E u : Step(u) /\ NoneWoken(Now, u)
<1> DEFINE q == gates[k].queue
           r == Rejected(Now, q)
           c == Uncounted(r.call, {k})
           s == Tables(Without(r.gates, {k}), c, r.order)
<1>1. /\ k \in DOMAIN gates /\ resets < MaxResets /\ Become(Drained(s))
      /\ resets' = resets + 1 /\ blocks' = blocks
  BY DEF Reset
<1>2. /\ call \in [Caller -> CallState] /\ blocks' \in 0..MaxBlocks
      /\ resets \in Nat /\ resets' \in 0..MaxResets /\ resets' # 0
  BY <1>1, SemaphoreAssumption DEF SemaphoreInv, TypeOK
<1>3. Sound(Now) /\ Now.gates = gates /\ Now.call = call /\ Now.order = order
  BY SoundNow, NowFields DEF SemaphoreInv
<1>4. /\ q \in Seq(Caller)
      /\ Range(q) = {p \in Caller : call[p].pc = "waiting" /\ k \in call[p].keys}
  BY <1>1, <1>3, QueueFacts DEF Queue
<1> HIDE DEF q
<1>5. /\ Rejects(Now, r)
      /\ \A p \in Range(q) : r.call[p].pc # "waiting"
  BY <1>3, <1>4, RejectedFacts
<1> HIDE DEF r
<1>6. Sound(r) /\ r.call \in [Caller -> CallState]
  BY <1>5 DEF Rejects, Sound, Typed
<1>7. ASSUME NEW p \in Caller
      PROVE  r.call[p] = call[p] \/ (call[p].pc = "waiting" /\ r.call[p].pc = "idle")
  BY <1>3, <1>5 DEF Rejects, NoCall, Call
<1>8. \A l \in {k} \intersect DOMAIN r.gates : r.gates[l].queue = <<>>
  <2> SUFFICES ASSUME k \in DOMAIN r.gates
               PROVE  r.gates[k].queue = <<>>
    OBVIOUS
  <2>1. /\ r.gates[k].queue \in Seq(Caller)
        /\ Range(r.gates[k].queue) = {p \in Caller : r.call[p].pc = "waiting" /\ k \in r.call[p].keys}
    BY <1>6, QueueFacts DEF Queue
  <2>2. ASSUME NEW p \in Caller, r.call[p].pc = "waiting", k \in r.call[p].keys
        PROVE  FALSE
    <3>1. r.call[p] = call[p]
      BY <1>7, <2>2
    <3>2. p \in Range(q)
      BY <1>4, <2>2, <3>1
    <3> QED
      BY <1>5, <2>2, <3>2
  <2>3. Range(r.gates[k].queue) = {}
    BY <2>1, <2>2
  <2> QED
    BY <2>1, <2>3, NobodyQueued
<1>9. /\ c \in [Caller -> CallState]
      /\ \A p \in Caller : /\ c[p].pc = r.call[p].pc /\ c[p].keys = r.call[p].keys
                           /\ c[p].counted = r.call[p].counted \ {k}
  BY <1>6, UncountedFacts
<1> HIDE DEF c
<1>10. Sound(s)
  BY <1>6, <1>8, <1>9, DeletedSound
<1>11. s.gates = Without(r.gates, {k}) /\ s.call = c /\ s.order = r.order
  BY TablesFields
<1> HIDE DEF s
<1>12. Accounted(s, Missing)
  <2> SUFFICES ASSUME NEW l \in Gate
               PROVE  /\ IsFiniteSet(Holders(s, l))
                      /\ Cardinality(Holders(s, l)) - Running(s.gates, l) \in Missing
    BY DEF Accounted
  <2>1. CASE l = k
    <3>1. Holders(s, l) = {}
      BY <1>9, <1>11, <2>1 DEF Holders
    <3>2. Running(s.gates, l) = 0
      BY <1>11, <2>1 DEF Running, Without
    <3> QED
      BY <3>1, <3>2, FS_EmptySet DEF Missing
  <2>2. CASE l # k
    <3>1. Holders(s, l) = Holders(Now, l)
      BY <1>3, <1>7, <1>9, <1>11, <2>2 DEF Holders
    <3>2. Running(s.gates, l) = Running(r.gates, l)
      BY <1>11, <2>2 DEF Running, Without
    <3>3. Running(r.gates, l) = Running(Now.gates, l)
      BY <1>5 DEF Rejects
    <3> QED
      BY <3>1, <3>2, <3>3 DEF SemaphoreInv, Accounted
  <2> QED
    BY <2>1, <2>2
<1>13. /\ \A w \in Caller : s.call[w].pc = "held" => call[w].pc = "held"
       /\ \A w \in Caller : call[w].pc = "waiting" /\ s.call[w].pc = "waiting"
                            => s.call[w].keys = call[w].keys
  BY <1>7, <1>9, <1>11
<1>14. \A a, w \in Caller : Before(a, w, s.order) /\ call[w].pc = "waiting" => Before(a, w, order)
  BY <1>3, <1>5, <1>11 DEF Rejects
<1>15. blocks' = 0 => Open(s)
  BY <1>1, <1>5, <1>11 DEF SemaphoreInv, Rejects, Open, Without
<1> QED
  BY <1>1, <1>2, <1>10, <1>12, <1>13, <1>14, <1>15, PlainDrainSteps

\* resetAll leaves no gate, no waiter, and no permit that is counted.
LEMMA ResetAllSteps ==
  ASSUME SemaphoreInv, ResetAll
  PROVE  \E u : Step(u) /\ NoneWoken(Now, u)
<1> DEFINE u == Tables(gates', call', <<>>)
<1>1. /\ gates' = [k \in {} |-> 0] /\ order' = <<>>
      /\ call' = [p \in Caller |-> IF call[p].pc = "waiting" THEN NoCall
                                   ELSE Uncounted(call, Gate)[p]]
      /\ resets < MaxResets /\ resets' = resets + 1 /\ blocks' = blocks
  BY DEF ResetAll
<1>2. /\ call \in [Caller -> CallState] /\ blocks' \in 0..MaxBlocks
      /\ resets \in Nat /\ resets' \in 0..MaxResets /\ resets' # 0
  BY <1>1, SemaphoreAssumption DEF SemaphoreInv, TypeOK
<1>3. /\ Uncounted(call, Gate) \in [Caller -> CallState]
      /\ \A p \in Caller : /\ Uncounted(call, Gate)[p].pc = call[p].pc
                           /\ Uncounted(call, Gate)[p].counted = call[p].counted \ Gate
  BY <1>2, UncountedFacts
<1>4. NoCall \in CallState /\ NoCall.pc = "idle"
  BY DEF NoCall, Call, CallState
<1>5. /\ call' \in [Caller -> CallState]
      /\ \A p \in Caller : /\ call'[p].pc # "waiting"
                           /\ call'[p].pc = "held" => call[p].pc = "held"
                           /\ call'[p].pc = "held" => call'[p].counted \intersect Gate = {}
  BY <1>1, <1>3, <1>4
<1>6. DOMAIN gates' = {}
  BY <1>1
<1>7. u.gates = gates' /\ u.call = call' /\ u.order = order'
  BY <1>1, TablesFields
<1> HIDE DEF u
<1>8. Sound(u)
  <2>1. Typed(u)
    BY <1>1, <1>5, <1>6, <1>7, EmptyQueue DEF Typed
  <2>2. \A k \in Gate : Queue(u.gates, k) = <<>>
    BY <1>6, <1>7 DEF Queue
  <2>3. Agree(u)
    BY <1>1, <1>5, <1>7, <2>2, EmptyQueue DEF Agree
  <2> QED
    BY <2>1, <2>3 DEF Sound
<1>9. Accounted(u, Missing)
  <2>1. ASSUME NEW k \in Gate PROVE Holders(u, k) = {} /\ Running(u.gates, k) = 0
    BY <1>5, <1>6, <1>7 DEF Holders, Running
  <2> QED
    BY <2>1, FS_EmptySet DEF Accounted, Missing
<1>10. \A p \in Caller : ~ NewlyHeld(Now, u, p)
  BY <1>5, <1>7, NowFields DEF NewlyHeld
<1>11. Fits(Now, u) /\ InOrder(Now, u)
  BY <1>10 DEF Fits, InOrder
<1>12. NoneWoken(Now, u)
  BY <1>5, <1>7 DEF NoneWoken, Can
<1>13. Open(u) /\ Awaited(u)
  BY <1>1, <1>6, <1>7 DEF Open, Awaited
<1>14. Step(u)
  BY <1>2, <1>7, <1>8, <1>9, <1>11, <1>13 DEF Step
<1> QED
  BY <1>12, <1>14

-----------------------------------------------------------------------------
\* The theorems.

\* Every step becomes tables that keep the invariant and the properties.
LEMMA NextSteps ==
  ASSUME SemaphoreInv, Next
  PROVE  \E u : Step(u) /\ (NoneWoken(Now, u) \/ Undrained)
<1>1. ASSUME NEW p \in Caller, NEW q \in Requirement, AcquireQueueFull(p, q)
      PROVE  \E u : Step(u) /\ Undrained
  BY <1>1, AcquireQueueFullSteps DEF Undrained
<1>2. ASSUME NEW p \in Caller, NEW q \in Requirement, AcquireAtOnce(p, q)
      PROVE  \E u : Step(u) /\ NoneWoken(Now, u)
  BY <1>2, AcquireAtOnceSteps
<1>3. ASSUME NEW p \in Caller, NEW q \in Requirement, AcquireQueued(p, q)
      PROVE  \E u : Step(u) /\ NoneWoken(Now, u)
  BY <1>3, AcquireQueuedSteps
<1>4. ASSUME NEW p \in Caller, GiveUp(p)
      PROVE  \E u : Step(u) /\ NoneWoken(Now, u)
  BY <1>4, GiveUpSteps
<1>5. ASSUME NEW p \in Caller, Release(p)
      PROVE  \E u : Step(u) /\ NoneWoken(Now, u)
  BY <1>5, ReleaseSteps
<1>6. ASSUME NEW k \in Gate, MarkBlocked(k)
      PROVE  \E u : Step(u) /\ NoneWoken(Now, u)
  BY <1>6, MarkBlockedSteps
<1>7. ASSUME NEW k \in Gate, Elapse(k)
      PROVE  \E u : Step(u) /\ Undrained
  <2>1. k \in DOMAIN gates
    BY <1>7 DEF Elapse
  <2> QED
    BY <1>7, <2>1, ElapseSteps DEF Undrained
<1>8. ASSUME NEW k \in Gate, Unblock(k)
      PROVE  \E u : Step(u) /\ NoneWoken(Now, u)
  BY <1>8, UnblockSteps
<1>9. ASSUME NEW k \in Gate, Cleanup(k)
      PROVE  \E u : Step(u) /\ NoneWoken(Now, u)
  BY <1>9, CleanupSteps
<1>10. ASSUME NEW k \in Gate, Reset(k)
       PROVE  \E u : Step(u) /\ NoneWoken(Now, u)
  BY <1>10, ResetSteps
<1>11. CASE ResetAll
  BY <1>11, ResetAllSteps
<1> QED
  BY <1>1, <1>2, <1>3, <1>4, <1>5, <1>6, <1>7, <1>8, <1>9, <1>10, <1>11 DEF Next

\* Nothing is queued, held or counted at the start.
LEMMA SemaphoreInit ==
  ASSUME Init
  PROVE  SemaphoreInv
<1>1. /\ DOMAIN gates = {} /\ order = <<>> /\ blocks = 0 /\ resets = 0
      /\ call = [p \in Caller |-> NoCall]
  BY DEF Init
<1>2. NoCall \in CallState /\ NoCall.pc = "idle"
  BY DEF NoCall, Call, CallState
<1>3. TypeOK
  BY <1>1, <1>2, EmptyQueue, SemaphoreAssumption DEF TypeOK
<1>4. Now.gates = gates /\ Now.call = call /\ Now.order = order
  BY NowFields
<1>5. \A k \in Gate : Queue(gates, k) = <<>> /\ Running(gates, k) = 0 /\ Holders(Now, k) = {}
  BY <1>1, <1>2, <1>4 DEF Queue, Running, Holders
<1>6. QueuesAgree
  BY <1>1, <1>2, <1>4, <1>5, EmptyQueue DEF QueuesAgree, Agree
<1>7. Accounted(Now, Missing)
  <2>1. 0 - 0 \in Missing
    BY DEF Missing
  <2> QED
    BY <1>4, <1>5, <2>1, FS_EmptySet DEF Accounted
<1>8. Counted(call)
  BY <1>1, <1>2 DEF Counted
<1>9. Open(Now) /\ Awaited(Now)
  BY <1>1, <1>4 DEF Open, Awaited
<1> QED
  BY <1>3, <1>6, <1>7, <1>8, <1>9 DEF SemaphoreInv

\* A step that changes nothing keeps the invariant.
LEMMA SemaphoreStutters ==
  ASSUME SemaphoreInv, UNCHANGED vars
  PROVE  SemaphoreInv'
<1>1. gates' = gates /\ call' = call /\ order' = order /\ blocks' = blocks /\ resets' = resets
  BY DEF vars
<1>2. Sound(Now) /\ Now.gates = gates /\ Now.call = call /\ Now.order = order
  BY SoundNow, NowFields DEF SemaphoreInv
<1>3. blocks' \in 0..MaxBlocks /\ resets' \in 0..MaxResets
  BY <1>1 DEF SemaphoreInv, TypeOK
<1>4. Missing' = Missing
  BY <1>1 DEF Missing
<1> QED
  BY <1>1, <1>2, <1>3, <1>4, InvariantOfTables DEF SemaphoreInv

\* The inductive invariant: types, the agreement of the queues with the
\* requests, and until the first reset the truth of the counters.
THEOREM SemaphoreInvariant == Spec => []SemaphoreInv
<1>1. Init => SemaphoreInv
  BY SemaphoreInit
<1>2. SemaphoreInv /\ [Next]_vars => SemaphoreInv'
  <2>1. ASSUME SemaphoreInv, Next PROVE SemaphoreInv'
    <3>1. PICK u : Step(u)
      BY <2>1, NextSteps
    <3>2. Missing \subseteq Missing'
      BY <3>1 DEF Step, Missing
    <3>3. Accounted(u, Missing')
      BY <3>1, <3>2 DEF Step, Accounted
    <3> QED
      BY <3>1, <3>3, InvariantOfTables DEF Step
  <2> QED
    BY <2>1, SemaphoreStutters
<1> QED
  BY <1>1, <1>2, PTL DEF Spec

\* Gates, requests and queues stay of their types, whatever resets and
\* cooldowns come in between.
THEOREM SemaphoreTypeCorrect == Spec => []TypeOK
<1>1. SemaphoreInv => TypeOK
  BY DEF SemaphoreInv
<1> QED
  BY <1>1, SemaphoreInvariant, PTL

\* A queued request stands once in the queue of each of its gates, in the order
\* of arrival, and a settled one in none: timeouts, aborts, admissions, resets
\* and cleanups take requests out of every queue (removeRequest, lines 124-136).
THEOREM QueuesFollowRequests == Spec => []QueuesAgree
<1>1. SemaphoreInv => QueuesAgree
  BY DEF SemaphoreInv
<1> QED
  BY <1>1, SemaphoreInvariant, PTL

\* The running count of a gate is the number of permits outstanding on it, and
\* a gate that does not exist has none, as long as nothing was reset.
THEOREM CountersAreTrue == Spec => []RunningIsHeld
<1>1. SemaphoreInv => RunningIsHeld
  <2> SUFFICES ASSUME SemaphoreInv, NEW k \in Gate
               PROVE  /\ Running(gates, k) \in 0..Cardinality(Holding(k))
                      /\ resets = 0 => Running(gates, k) = Cardinality(Holding(k))
    BY DEF RunningIsHeld, Running
  <2>1. Holding(k) = Holders(Now, k) /\ Sound(Now) /\ Now.gates = gates
    BY NowFields, SoundNow DEF Holding, Holders, SemaphoreInv
  <2>2. /\ IsFiniteSet(Holding(k))
        /\ Cardinality(Holding(k)) - Running(gates, k) \in Missing
    BY <2>1 DEF SemaphoreInv, Accounted
  <2>3. Cardinality(Holding(k)) \in Nat /\ Running(gates, k) \in Nat
    BY <2>1, <2>2, FS_CardinalityType, RunningType
  <2> QED
    BY <2>2, <2>3 DEF Missing
<1> QED
  BY <1>1, SemaphoreInvariant, PTL

\* The queues cannot come to a standstill: while somebody waits and no cooldown
\* was set, the first waiter wants a gate on which a permit is out, and the
\* release of permits drains (createCompositeReleaseFn, lines 171-186).
THEOREM NobodyWaitsForNothing == Spec => []WaitersAwaitPermits
<1>1. SemaphoreInv => WaitersAwaitPermits
  <2> SUFFICES ASSUME SemaphoreInv, blocks = 0, order # <<>>
               PROVE  \E k \in call[Head(order)].keys : Holding(k) # {}
    BY DEF WaitersAwaitPermits
  <2>1. PICK k \in call[Head(order)].keys : k \in DOMAIN gates /\ gates[k].running # 0
    BY NowFields DEF SemaphoreInv, Awaited
  <2>2. k \in Gate
    BY <2>1 DEF SemaphoreInv, TypeOK
  <2>3. Holding(k) = Holders(Now, k) /\ Sound(Now) /\ Now.gates = gates
    BY NowFields, SoundNow DEF Holding, Holders, SemaphoreInv
  <2>4. /\ IsFiniteSet(Holding(k))
        /\ Cardinality(Holding(k)) - Running(gates, k) \in Missing
    BY <2>2, <2>3 DEF SemaphoreInv, Accounted
  <2>5. Running(gates, k) \in Nat \ {0}
    BY <2>1, <2>2, <2>3, RunningType DEF Running
  <2>6. Cardinality(Holding(k)) \in Nat /\ Cardinality(Holding(k)) # 0
    BY <2>4, <2>5, FS_CardinalityType DEF Missing
  <2>7. Holding(k) # {}
    BY <2>6, FS_EmptySet
  <2> QED
    BY <2>1, <2>7
<1> QED
  BY <1>1, SemaphoreInvariant, PTL

\* Whoever is admitted, at once or by any drain, fits every gate it asked for:
\* several waiters may be admitted by one drain, and a limit lowered while
\* permits are out admits nobody.
THEOREM LimitsRespected == Spec => AdmissionsFitUntilReset
<1>1. ASSUME SemaphoreInv, [Next]_vars, resets = 0, NEW p \in Caller
      PROVE  FitsAtAdmission(p)
  <2>1. SUFFICES ASSUME Became(p, "held"), NEW k \in call'[p].keys
                 PROVE  Cardinality(Holding(k)') <= gates'[k].max
    BY DEF FitsAtAdmission
  <2>2. Next
    BY <1>1, <2>1 DEF vars, Became
  <2>3. PICK u : Step(u)
    BY <1>1, <2>2, NextSteps
  <2>4. gates' = u.gates /\ call' = u.call /\ Sound(u) /\ Accounted(u, {0}) /\ Fits(Now, u)
    BY <1>1, <2>3 DEF Step, Missing
  <2>5. NewlyHeld(Now, u, p)
    BY <2>1, <2>4, NowFields DEF Became, NewlyHeld
  <2>6. k \in DOMAIN u.gates /\ u.gates[k].running <= u.gates[k].max
    BY <2>1, <2>4, <2>5 DEF Fits
  <2>7. k \in Gate
    BY <2>4, <2>6 DEF Sound, Typed
  <2>8. Cardinality(Holders(u, k)) = u.gates[k].running
    <3>1. /\ IsFiniteSet(Holders(u, k))
          /\ Cardinality(Holders(u, k)) - Running(u.gates, k) = 0
      BY <2>4, <2>7 DEF Accounted
    <3>2. Cardinality(Holders(u, k)) \in Nat /\ Running(u.gates, k) \in Nat
      BY <2>4, <2>7, <3>1, FS_CardinalityType, RunningType
    <3> QED
      BY <2>6, <3>1, <3>2 DEF Running
  <2>9. Holding(k)' = Holders(u, k)
    BY <2>4 DEF Holding, Holders
  <2> QED
    BY <2>4, <2>6, <2>8, <2>9
<1>2. SemaphoreInv /\ [Next]_vars => (resets = 0 => \A p \in Caller : FitsAtAdmission(p))
  BY <1>1
<1> QED
  BY <1>2, SemaphoreInvariant, PTL DEF Spec, AdmissionsFitUntilReset

\* Nobody is admitted past an earlier waiter that wants one of the same gates,
\* although a drain admits whoever fits first and skips those who do not.
THEOREM FirstComeFirstAdmitted == Spec => NoOvertaking
<1>1. ASSUME SemaphoreInv, [Next]_vars, NEW p \in Caller, NEW w \in Caller,
             Became(p, "held"), call[w].pc = "waiting", call'[w].pc = "waiting",
             call[w].keys \intersect call'[p].keys # {}
      PROVE  Before(p, w, order)
  <2>1. Next
    BY <1>1 DEF vars, Became
  <2>2. PICK u : Step(u)
    BY <1>1, <2>1, NextSteps
  <2>3. call' = u.call /\ InOrder(Now, u)
    BY <2>2 DEF Step
  <2> QED
    BY <1>1, <2>3, NowFields DEF Became, InOrder, NewlyHeld
<1>2. SemaphoreInv /\ [Next]_vars
        => \A p, w \in Caller :
             /\ Became(p, "held")
             /\ call[w].pc = "waiting" /\ call'[w].pc = "waiting"
             /\ call[w].keys \intersect call'[p].keys # {}
             => Before(p, w, order)
  BY <1>1
<1> QED
  BY <1>2, SemaphoreInvariant, PTL DEF Spec, NoOvertaking

\* Every call that can make a waiter admissible drains until nobody is: only
\* the passing of a cooldown and a queue-full rejection leave one behind.
THEOREM DrainsLeaveNobody == Spec => NoWaiterLeftBehind
<1>1. ASSUME SemaphoreInv, [Next]_vars, NEW w \in Caller, BecameAdmissible(w)
      PROVE  Undrained
  <2>1. ~ Admissible(w) /\ Admissible(w)'
    BY <1>1 DEF BecameAdmissible
  <2>2. Next
    <3> SUFFICES ASSUME UNCHANGED vars PROVE FALSE
      BY <1>1
    <3>1. Admissible(w)' = Admissible(w)
      BY DEF vars, Admissible
    <3> QED
      BY <2>1, <3>1
  <2>3. PICK u : Step(u) /\ (NoneWoken(Now, u) \/ Undrained)
    BY <1>1, <2>2, NextSteps
  <2>4. gates' = u.gates /\ call' = u.call
    BY <2>3 DEF Step
  <2>5. Can(u, w)
    BY <2>1, <2>4 DEF Admissible, Can
  <2>6. ~ Can(Now, w)
    BY <2>1, NowFields DEF Admissible, Can
  <2> QED
    BY <2>3, <2>5, <2>6 DEF NoneWoken
<1>2. SemaphoreInv /\ [Next]_vars => \A w \in Caller : BecameAdmissible(w) => Undrained
  BY <1>1
<1> QED
  BY <1>2, SemaphoreInvariant, PTL DEF Spec, NoWaiterLeftBehind

=============================================================================
