------------------------ MODULE OwnerDecision_proofs ------------------------
(***************************************************************************)
(* Proofs about OwnerDecision for any number of contacts, sessions, calls, *)
(* routes and decisions, and for every window and time to live.            *)
(***************************************************************************)
EXTENDS OwnerDecision, SequenceTheorems, FiniteSetTheorems, TLAPS

\* A session has one entry in the cache at most.
OneEntryEach(q) == \A i, j \in DOMAIN q : q[i].session = q[j].session => i = j
-----------------------------------------------------------------------------
(* Sequences *)

LEMMA AppendFacts ==
    ASSUME NEW S, NEW q \in Seq(S), NEW x \in S
    PROVE  /\ Append(q, x) \in Seq(S) /\ Len(Append(q, x)) = Len(q) + 1
           /\ \A i \in 1..Len(q) : Append(q, x)[i] = q[i]
           /\ Append(q, x)[Len(q) + 1] = x
           /\ Range(Append(q, x)) = Range(q) \cup {x}
<1>1. /\ Append(q, x) \in Seq(S) /\ Len(Append(q, x)) = Len(q) + 1
      /\ \A i \in 1..Len(q) : Append(q, x)[i] = q[i]
      /\ Append(q, x)[Len(q) + 1] = x
      /\ DOMAIN q = 1..Len(q) /\ DOMAIN Append(q, x) = 1..(Len(q) + 1) /\ Len(q) \in Nat
  OBVIOUS
<1>2. Range(Append(q, x)) \subseteq Range(q) \cup {x}
  BY <1>1 DEF Range
<1>3. Range(q) \cup {x} \subseteq Range(Append(q, x))
  BY <1>1 DEF Range
<1>. QED
  BY <1>1, <1>2, <1>3

LEMMA RangeIsFinite ==
    ASSUME NEW S, NEW q \in Seq(S)
    PROVE  IsFiniteSet(Range(q)) /\ Range(q) \subseteq S
<1>1. q \in [1..Len(q) -> S] /\ Len(q) \in Nat /\ DOMAIN q = 1..Len(q)
  OBVIOUS
<1>2. q \in Surjection(1..Len(q), Range(q))
  BY <1>1 DEF Range, Surjection
<1>3. IsFiniteSet(1..Len(q))
  BY <1>1, FS_Interval
<1>. QED
  BY <1>2, <1>3, FS_Surjection DEF Range

\* A session's entry is taken out, and the others keep their order.
LEMMA WithoutFacts ==
    ASSUME routes \in Seq(Observation), OneEntryEach(routes), NEW s \in Sessions
    PROVE  /\ Without(s) \in Seq(Observation)
           /\ Len(Without(s)) <= Len(routes)
           /\ (\E r \in Range(routes) : r.session = s) => Len(Without(s)) = Len(routes) - 1
           /\ OneEntryEach(Without(s))
           /\ \A i \in DOMAIN Without(s) : Without(s)[i].session # s
           /\ Range(Without(s)) \subseteq Range(routes)
<1>1. PICK len \in Nat : len = Len(routes) /\ DOMAIN routes = 1..len
  OBVIOUS
<1>2. CASE ~ \E r \in Range(routes) : r.session = s
  <2>1. Without(s) = routes
    BY <1>2 DEF Without
  <2>2. \A i \in DOMAIN routes : routes[i].session # s
    BY <1>2 DEF Range
  <2>3. Without(s) \in Seq(Observation) /\ Len(Without(s)) <= Len(routes)
    BY <1>1, <2>1
  <2>4. /\ OneEntryEach(Without(s))
        /\ \A i \in DOMAIN Without(s) : Without(s)[i].session # s
    BY <2>1, <2>2, Zenon
  <2>. QED
    BY <1>2, <2>1, <2>3, <2>4
<1>3. CASE \E r \in Range(routes) : r.session = s
  <2>1. PICK k \in 1..len : /\ routes[k].session = s
                            /\ Without(s) = SubSeq(routes, 1, k - 1)
                                              \o SubSeq(routes, k + 1, Len(routes))
    <3>1. \E i \in DOMAIN routes : routes[i].session = s
      BY <1>3 DEF Range
    <3>. QED
      BY <1>1, <1>3, <3>1 DEF Without, RemoveAt
  <2> DEFINE before == SubSeq(routes, 1, k - 1)
             after == SubSeq(routes, k + 1, Len(routes))
             q == Without(s)
             at(n) == IF n < k THEN n ELSE n + 1
  <2>2. /\ before \in Seq(Observation) /\ Len(before) = k - 1
        /\ \A i \in 1..(k - 1) : before[i] = routes[i]
    BY <1>1, SubSeqProperties
  <2>3. /\ after \in Seq(Observation) /\ Len(after) = len - k
        /\ \A i \in 1..(len - k) : after[i] = routes[i + k]
    <3>1. \A i \in (k + 1)..len : routes[i] \in Observation
      BY <1>1
    <3>2. /\ after \in Seq(Observation)
          /\ Len(after) = IF k + 1 <= len THEN len - (k + 1) + 1 ELSE 0
          /\ \A i \in 1..(len - (k + 1) + 1) : after[i] = routes[k + 1 + i - 1]
      BY <1>1, <3>1, SubSeqProperties
    <3> HIDE DEF after
    <3>3. ASSUME NEW i \in 1..(len - k)
          PROVE  after[i] = routes[i + k]
      <4>1. i \in 1..(len - (k + 1) + 1) /\ k + 1 + i - 1 = i + k
        OBVIOUS
      <4>. QED
        BY <3>2, <4>1
    <3>. QED
      BY <3>2, <3>3
  <2>4. q = before \o after
    BY <2>1
  <2> HIDE DEF before, after, q
  <2>5. q \in Seq(Observation) /\ Len(q) = len - 1 /\ DOMAIN q = 1..(len - 1)
    <3>1. q \in Seq(Observation) /\ Len(q) = Len(before) + Len(after)
      BY <2>2, <2>3, <2>4, ConcatProperties
    <3>. QED
      BY <2>2, <2>3, <3>1
  <2>6. ASSUME NEW n \in 1..(len - 1)
        PROVE  at(n) \in 1..len /\ at(n) # k /\ q[n] = routes[at(n)]
    <3>1. q[n] = IF n <= k - 1 THEN before[n] ELSE after[n - (k - 1)]
      <4>1. n \in 1..(Len(before) + Len(after))
        BY <2>2, <2>3
      <4>2. q[n] = IF n <= Len(before) THEN before[n] ELSE after[n - Len(before)]
        BY <2>4, <4>1
      <4>. QED
        BY <2>2, <4>2
    <3>2. CASE n < k
      BY <2>2, <3>1, <3>2
    <3>3. CASE ~(n < k)
      <4>1. n - (k - 1) \in 1..(len - k) /\ n - (k - 1) + k = n + 1
        BY <3>3
      <4>. QED
        BY <2>3, <3>1, <3>3, <4>1
    <3>. QED
      BY <3>2, <3>3
  <2>7. \A m, n \in 1..(len - 1) : at(m) = at(n) => m = n
    OBVIOUS
  <2> HIDE DEF at
  <2>8. /\ \A n \in DOMAIN q : q[n].session # s /\ q[n] \in Range(routes)
        /\ OneEntryEach(q)
    <3>1. \A n \in DOMAIN q : /\ at(n) \in DOMAIN routes /\ at(n) # k
                             /\ q[n] = routes[at(n)]
      BY <1>1, <2>5, <2>6
    <3>2. \A n \in DOMAIN q : q[n].session # s /\ q[n] \in Range(routes)
      BY <1>1, <2>1, <3>1 DEF OneEntryEach, Range
    <3>3. \A m, n \in DOMAIN q : q[m].session = q[n].session => m = n
      <4>1. \A m, n \in DOMAIN q : q[m].session = q[n].session => at(m) = at(n)
        BY <3>1 DEF OneEntryEach
      <4>. QED
        BY <2>5, <2>7, <4>1
    <3>. QED
      BY <3>2, <3>3 DEF OneEntryEach
  <2>9. Range(q) \subseteq Range(routes)
    BY <2>8 DEF Range
  <2>. QED
    BY <1>1, <2>5, <2>8, <2>9 DEF q
<1>. QED
  BY <1>2, <1>3

\* A session without an entry gets one at the end.
LEMMA AppendEntry ==
    ASSUME NEW q \in Seq(Observation), OneEntryEach(q), NEW x \in Observation,
           \A i \in DOMAIN q : q[i].session # x.session
    PROVE  OneEntryEach(Append(q, x))
<1>1. PICK n \in Nat : n = Len(q) /\ DOMAIN q = 1..n
  OBVIOUS
<1>2. PICK p \in Seq(Observation) :
          /\ p = Append(q, x) /\ DOMAIN p = 1..(n + 1)
          /\ \A i \in 1..n : p[i] = q[i]
          /\ p[n + 1] = x
  <2>1. /\ Append(q, x) \in Seq(Observation) /\ Len(Append(q, x)) = n + 1
        /\ \A i \in 1..n : Append(q, x)[i] = q[i]
        /\ Append(q, x)[n + 1] = x
    BY <1>1, AppendFacts
  <2>2. DOMAIN Append(q, x) = 1..(n + 1)
    BY <2>1, LenProperties
  <2>. QED
    BY <2>1, <2>2
<1>3. OneEntryEach(p)
  <2> SUFFICES ASSUME NEW i \in 1..(n + 1), NEW j \in 1..(n + 1), p[i].session = p[j].session
               PROVE  i = j
    BY <1>2 DEF OneEntryEach
  <2>1. CASE i = n + 1 /\ j = n + 1
    BY <2>1
  <2>2. CASE i # n + 1 /\ j # n + 1
    BY <1>1, <1>2, <2>2 DEF OneEntryEach
  <2>3. CASE i # n + 1 /\ j = n + 1
    BY <1>1, <1>2, <2>3
  <2>4. CASE i = n + 1 /\ j # n + 1
    BY <1>1, <1>2, <2>4
  <2>. QED
    BY <2>1, <2>2, <2>3, <2>4
<1>. QED
  BY <1>2, <1>3

\* The least recently used entry goes when there are too many.
LEMMA EvictedFacts ==
    ASSUME NEW q \in Seq(Observation), OneEntryEach(q), Len(q) <= MaxRoutes + 1
    PROVE  /\ Evicted(q) \in Seq(Observation) /\ Len(Evicted(q)) <= MaxRoutes
           /\ OneEntryEach(Evicted(q))
           /\ Range(Evicted(q)) \subseteq Range(q)
<1>1. PICK n \in Nat : n = Len(q) /\ DOMAIN q = 1..n
  OBVIOUS
<1>2. MaxRoutes \in Nat
  BY OwnerAssumption
<1>3. CASE n <= MaxRoutes
  BY <1>1, <1>2, <1>3 DEF Evicted
<1>4. CASE n > MaxRoutes
  <2>1. PICK p \in Seq(Observation) :
            /\ p = Tail(q) /\ DOMAIN p = 1..(n - 1) /\ Len(p) = n - 1
            /\ \A i \in 1..(n - 1) : p[i] = q[i + 1]
    <3>1. q # <<>>
      BY <1>1, <1>2, <1>4
    <3>2. Tail(q) \in Seq(Observation) /\ Len(Tail(q)) = n - 1
      BY <1>1, <3>1, HeadTailProperties
    <3>3. \A i \in 1..(n - 1) : Tail(q)[i] = q[i + 1]
      BY <1>1, <3>1, <3>2, HeadTailProperties
    <3>4. DOMAIN Tail(q) = 1..(n - 1)
      BY <3>2, LenProperties
    <3>. QED
      BY <3>2, <3>3, <3>4
  <2>2. Evicted(q) = p
    BY <1>1, <1>4, <2>1 DEF Evicted
  <2>3. OneEntryEach(p)
    BY <1>1, <2>1 DEF OneEntryEach
  <2>4. Range(p) \subseteq Range(q)
    BY <1>1, <2>1 DEF Range
  <2>. QED
    BY <1>2, <2>1, <2>2, <2>3, <2>4
<1>. QED
  BY <1>1, <1>2, <1>3, <1>4
-----------------------------------------------------------------------------
(* The order of the lookup *)

OnceEach(q) == \A i, j \in DOMAIN q : q[i] = q[j] => i = j

\* Newer is a strict order in which any two contacts compare.
LEMMA NewerOrders ==
    ASSUME requests \in Seq(Contacts), OnceEach(requests)
    PROVE  /\ \A c \in Range(requests) : ~Newer(c, c)
           /\ \A c, d \in Range(requests) : c # d => Newer(c, d) \/ Newer(d, c)
           /\ \A c, d, e \in Range(requests) : Newer(c, d) /\ Newer(d, e) => Newer(c, e)
<1>1. /\ Len(requests) \in Nat /\ DOMAIN requests = 1..Len(requests)
      /\ Range(requests) \subseteq Contacts
  BY RangeIsFinite
<1>2. \A c \in Range(requests) : CreatedAt[c] \in Nat
  BY <1>1, OwnerAssumption
<1>3. \A c \in Range(requests) : Rowid(c) \in Nat /\ requests[Rowid(c)] = c
  BY <1>1 DEF Rowid, Range
<1>4. \A c, d \in Range(requests) : Rowid(c) = Rowid(d) => c = d
  BY <1>3
<1>. QED
  BY <1>2, <1>3, <1>4 DEF Newer

\* Of finitely many contacts one is the newest.
LEMMA NewestIsThere ==
    ASSUME requests \in Seq(Contacts), OnceEach(requests),
           NEW S \in SUBSET Range(requests), S # {}
    PROVE  /\ Newest(S) \in S
           /\ \A d \in S \ {Newest(S)} : Newer(Newest(S), d)
<1> DEFINE Ahead(c) == {d \in S : Newer(d, c)}
           aheads == {Ahead(c) : c \in S}
<1>1. IsFiniteSet(S)
  BY RangeIsFinite, FS_Subset
<1>2. aheads \subseteq FiniteSubsetsOf(S) /\ aheads # {}
  <2>1. \A c \in S : Ahead(c) \in SUBSET S /\ IsFiniteSet(Ahead(c))
    BY <1>1, FS_Subset
  <2>. QED
    BY <2>1 DEF FiniteSubsetsOf
<1>3. PICK least \in aheads : \A other \in aheads : <<other, least>> \notin StrictSubsetOrdering(S)
  <2> HIDE DEF aheads
  <2>1. IsWellFoundedOn(StrictSubsetOrdering(S), FiniteSubsetsOf(S))
    BY FS_StrictSubsetOrderingWellFounded
  <2>. QED
    BY <1>2, <2>1, WFMin
<1>4. PICK c \in S : least = Ahead(c)
  OBVIOUS
<1>5. Ahead(c) = {}
  <2> SUFFICES ASSUME NEW d \in Ahead(c) PROVE FALSE
    OBVIOUS
  <2>1. d \in S /\ Newer(d, c)
    OBVIOUS
  <2>2. Ahead(d) \subseteq Ahead(c) /\ d \notin Ahead(d)
    BY <2>1, NewerOrders
  <2>3. <<Ahead(d), Ahead(c)>> \in StrictSubsetOrdering(S)
    BY <2>2 DEF StrictSubsetOrdering
  <2>. QED
    BY <1>3, <1>4, <2>1, <2>3
<1>6. \A d \in S \ {c} : Newer(c, d)
  BY <1>5, NewerOrders
<1>. QED
  BY <1>6 DEF Newest
-----------------------------------------------------------------------------
(* The invariant *)

\* A session that has an entry was last heard where the entry says.
SessionInv ==
    /\ routes \in Seq(Observation) /\ Len(routes) <= MaxRoutes
    /\ heard \in [Sessions -> Observation \cup {None}]
    /\ clock \in 0..MaxTime
    /\ OneEntryEach(routes)
    /\ \A r \in Range(routes) : heard[r.session] = r

\* A contact has one row once it is reserved, a receipt not before its outcome
\* is recorded, and the receipt says delivered for those recorded so.
ContactInv ==
    /\ requests \in Seq(Contacts) /\ seen \in Seq(Contacts) /\ recorded \in Seq(Contacts)
    /\ receipt \in [Contacts -> {"none", "delivered", "dry_run"}]
    /\ stage \in [Contacts -> {"new", "reserved", "sent", "recorded", "unknown"}]
    /\ OnceEach(requests)
    /\ \A c \in Contacts : c \in Range(requests) <=> stage[c] # "new"
    /\ \A c \in Contacts : stage[c] # "recorded" => receipt[c] = "none"
    /\ \A c \in Contacts : c \in Range(recorded) <=> receipt[c] = "delivered"

\* What a call has sent and is still waiting for is its own decision on its own
\* event.
MailIsOwn ==
    \A m \in mail : m.by # None =>
        /\ pc[m.by] = "await"
        /\ m.event = job[m.by].event /\ m.decision = job[m.by].decision

CallInv ==
    /\ pc \in [Calls -> {"idle", "lookup", "send", "await"}]
    /\ job \in [Calls -> Job] /\ reply \in [Calls -> Reply]
    /\ mail \subseteq Message
    /\ approval \in [Events -> Decisions \cup {"waiting", "gone"}]
    /\ \A w \in Calls : pc[w] \in {"send", "await"} => job[w].event # None
    /\ EventOfOwnRoute /\ MailIsOwn
    /\ \A w \in Calls : pc[w] = "idle" /\ reply[w] = "accepted" => job[w].event # None
    /\ AcceptedMeansTaken

IInv == SessionInv /\ ContactInv /\ CallInv
-----------------------------------------------------------------------------
(* The session routes *)

LEMMA SessionStep == SessionInv /\ [Next]_vars => SessionInv'
<1> SUFFICES ASSUME SessionInv, [Next]_vars PROVE SessionInv'
  OBVIOUS
<1>1. /\ MaxRoutes \in Nat \ {0} /\ MaxTime \in Nat
      /\ routes \in Seq(Observation) /\ OneEntryEach(routes) /\ Len(routes) <= MaxRoutes
      /\ Len(routes) \in Nat
  BY OwnerAssumption DEF SessionInv
<1>2. ASSUME NEW s \in Sessions
      PROVE  \E q \in Seq(Observation) :
                /\ q = Without(s) /\ OneEntryEach(q)
                /\ Len(q) \in Nat /\ Len(q) <= Len(routes)
                /\ (\E r \in Range(routes) : r.session = s) => Len(q) = Len(routes) - 1
                /\ \A i \in DOMAIN q : q[i].session # s
                /\ \A r \in Range(q) : heard[r.session] = r /\ r.session # s
  <2>1. \A r \in Range(Without(s)) : heard[r.session] = r /\ r.session # s
    <3>1. /\ Range(Without(s)) \subseteq Range(routes)
          /\ \A i \in DOMAIN Without(s) : Without(s)[i].session # s
      BY <1>1, WithoutFacts
    <3>2. \A r \in Range(routes) : heard[r.session] = r
      BY DEF SessionInv
    <3>3. \A r \in Range(Without(s)) : r.session # s
      BY <3>1 DEF Range
    <3>. QED
      BY <3>1, <3>2, <3>3
  <2>. QED
    BY <1>1, <2>1, WithoutFacts
<1>3. ASSUME NEW s \in Sessions, NEW t \in Targets, GatewayTurn(s, t)
      PROVE  SessionInv'
  <2>1. PICK q \in Seq(Observation) :
            /\ q = Without(s) /\ OneEntryEach(q)
            /\ Len(q) \in Nat /\ Len(q) <= Len(routes)
            /\ \A i \in DOMAIN q : q[i].session # s
            /\ \A r \in Range(q) : heard[r.session] = r /\ r.session # s
    BY <1>2
  <2>2. PICK observed \in Observation :
            /\ observed.session = s /\ heard' = [heard EXCEPT ![s] = observed]
            /\ clock' = clock /\ routes' = Evicted(Append(q, observed))
    BY <1>3, <2>1 DEF GatewayTurn, SessionInv, Observation
  <2>3. PICK longer \in Seq(Observation) :
            /\ longer = Append(q, observed) /\ Len(longer) = Len(q) + 1
            /\ OneEntryEach(longer) /\ Range(longer) = Range(q) \cup {observed}
    <3>1. /\ Append(q, observed) \in Seq(Observation)
          /\ Len(Append(q, observed)) = Len(q) + 1
          /\ Range(Append(q, observed)) = Range(q) \cup {observed}
      BY AppendFacts
    <3>2. OneEntryEach(Append(q, observed))
      BY <2>1, <2>2, AppendEntry
    <3>. QED
      BY <3>1, <3>2
  <2>4. \A r \in Range(longer) : heard'[r.session] = r
    <3>1. heard \in [Sessions -> Observation \cup {None}]
      BY DEF SessionInv
    <3>2. \A r \in Range(q) : heard'[r.session] = heard[r.session]
      BY <2>1, <2>2, <3>1
    <3>3. heard'[observed.session] = observed
      BY <2>2, <3>1
    <3>. QED
      BY <2>1, <2>3, <3>2, <3>3
  <2>5. /\ routes' \in Seq(Observation) /\ Len(routes') <= MaxRoutes
        /\ OneEntryEach(routes') /\ Range(routes') \subseteq Range(longer)
    <3>1. Len(longer) <= MaxRoutes + 1
      BY <1>1, <2>1, <2>3
    <3>. QED
      BY <2>2, <2>3, <3>1, EvictedFacts
  <2>6. heard' \in [Sessions -> Observation \cup {None}] /\ clock' \in 0..MaxTime
    BY <2>2 DEF SessionInv
  <2>7. \A r \in Range(routes)' : heard'[r.session] = r
    BY <2>4, <2>5 DEF Range
  <2>. QED
    BY <2>5, <2>6, <2>7 DEF SessionInv
<1>a. ASSUME NEW w \in Calls, NEW s \in Sessions, NEW d \in Decisions, Call(w, s, d)
      PROVE  SessionInv'
  <2>1. PICK q \in Seq(Observation) :
            /\ q = Without(s) /\ OneEntryEach(q)
            /\ Len(q) \in Nat /\ Len(q) <= Len(routes)
            /\ (\E r \in Range(routes) : r.session = s) => Len(q) = Len(routes) - 1
            /\ \A i \in DOMAIN q : q[i].session # s
            /\ \A r \in Range(q) : heard[r.session] = r /\ r.session # s
    BY <1>2
  <2>2. PICK p \in Seq(Observation) :
            /\ routes' = p /\ OneEntryEach(p) /\ Len(p) <= MaxRoutes
            /\ \A r \in Range(p) : heard[r.session] = r
    <3>1. CASE routes' = Without(s)
      <4>1. Len(q) <= MaxRoutes
        BY <1>1, <2>1
      <4>. QED
        BY <2>1, <3>1, <4>1
    <3>2. ASSUME NEW r \in Range(routes), r.session = s, routes' = Append(q, r)
          PROVE  \E p \in Seq(Observation) :
                    /\ routes' = p /\ OneEntryEach(p) /\ Len(p) <= MaxRoutes
                    /\ \A e \in Range(p) : heard[e.session] = e
      <4>1. r \in Observation /\ heard[r.session] = r
        BY <1>1, RangeIsFinite DEF SessionInv
      <4>2. /\ Append(q, r) \in Seq(Observation) /\ Len(Append(q, r)) = Len(q) + 1
            /\ OneEntryEach(Append(q, r)) /\ Range(Append(q, r)) = Range(q) \cup {r}
        BY <2>1, <3>2, <4>1, AppendFacts, AppendEntry
      <4>3. Len(q) + 1 <= MaxRoutes
        <5>1. Len(q) = Len(routes) - 1
          BY <2>1, <3>2
        <5>. QED
          BY <1>1, <5>1
      <4>. QED
        BY <2>1, <3>2, <4>1, <4>2, <4>3
    <3>. QED
      BY <1>a, <2>1, <3>1, <3>2 DEF Call
  <2>3. UNCHANGED <<heard, clock>>
    BY <1>a DEF Call
  <2>4. \A r \in Range(routes)' : heard'[r.session] = r
    BY <2>2, <2>3 DEF Range
  <2>. QED
    BY <2>2, <2>3 DEF SessionInv
<1>4. CASE UNCHANGED session /\ clock' \in 0..MaxTime
  BY <1>4 DEF session, SessionInv
<1>5. Tick => UNCHANGED session /\ clock' \in 0..MaxTime
  BY <1>1 DEF Tick, SessionInv
<1>. QED
  BY <1>3, <1>a, <1>4, <1>5
  DEF Next, vars, Reserve, SaveDryRun, Arrive, SaveReceipt, OutcomeUnknown, CallStep, Lookup,
      Send, SendFails, TimeOut, CodexAccepts, CodexRejects, Answered, RequestEnds, SessionInv
-----------------------------------------------------------------------------
(* The contacts *)

LEMMA ContactStep == ContactInv /\ [Next]_vars => ContactInv'
<1> SUFFICES ASSUME ContactInv, [Next]_vars PROVE ContactInv'
  OBVIOUS
<1>1. ASSUME NEW c \in Contacts, Reserve(c) PROVE ContactInv'
  <2>1. /\ requests' = Append(requests, c) /\ stage[c] = "new"
        /\ stage' = [stage EXCEPT ![c] = "reserved"]
        /\ UNCHANGED <<receipt, seen, recorded>>
    BY <1>1 DEF Reserve, Stage
  <2>2. /\ requests' \in Seq(Contacts) /\ Range(requests') = Range(requests) \cup {c}
        /\ Len(requests') = Len(requests) + 1 /\ Len(requests) \in Nat
        /\ \A i \in 1..Len(requests) : requests'[i] = requests[i]
        /\ requests'[Len(requests) + 1] = c
    BY <2>1, AppendFacts DEF ContactInv
  <2>3. c \notin Range(requests)
    BY <2>1 DEF ContactInv
  <2>4. OnceEach(requests')
    <3>1. PICK n \in Nat : n = Len(requests) /\ DOMAIN requests = 1..n
      BY DEF ContactInv
    <3>2. PICK p \in Seq(Contacts) : /\ p = requests' /\ DOMAIN p = 1..(n + 1)
                                     /\ \A i \in 1..n : p[i] = requests[i]
                                     /\ p[n + 1] = c
      BY <2>2, <3>1
    <3>3. \A i \in 1..n : p[i] # c
      BY <2>3, <3>1, <3>2 DEF Range
    <3>4. \A i, j \in 1..n : p[i] = p[j] => i = j
      BY <3>1, <3>2 DEF ContactInv, OnceEach
    <3>5. \A i \in 1..(n + 1) : i = n + 1 \/ i \in 1..n
      OBVIOUS
    <3>6. OnceEach(p)
      BY <3>2, <3>3, <3>4, <3>5, Zenon DEF OnceEach
    <3>. QED
      BY <3>2, <3>6 DEF OnceEach
  <2>. QED
    BY <2>1, <2>2, <2>4 DEF ContactInv
<1>2. ASSUME NEW c \in Contacts, SaveReceipt(c) PROVE ContactInv'
  <2>1. /\ recorded' = Append(recorded, c) /\ stage[c] = "sent"
        /\ stage' = [stage EXCEPT ![c] = "recorded"]
        /\ receipt' = [receipt EXCEPT ![c] = "delivered"]
        /\ UNCHANGED <<requests, seen>>
    BY <1>2 DEF SaveReceipt, Stage
  <2>2. recorded' \in Seq(Contacts) /\ Range(recorded') = Range(recorded) \cup {c}
    BY <2>1, AppendFacts DEF ContactInv
  <2>3. OnceEach(requests)' /\ Range(requests)' = Range(requests)
    BY <2>1 DEF ContactInv, OnceEach, Range
  <2>4. Range(recorded)' = Range(recorded')
    BY DEF Range
  <2>. QED
    BY <2>1, <2>2 DEF ContactInv
<1>3. ASSUME NEW c \in Contacts, SaveDryRun(c) PROVE ContactInv'
  BY <1>3 DEF SaveDryRun, Stage, ContactInv
<1>4. ASSUME NEW c \in Contacts, Arrive(c) PROVE ContactInv'
  BY <1>4 DEF Arrive, Stage, ContactInv
<1>5. ASSUME NEW c \in Contacts, OutcomeUnknown(c) PROVE ContactInv'
  BY <1>5 DEF OutcomeUnknown, Stage, ContactInv
<1>6. CASE UNCHANGED contact
  BY <1>6 DEF contact, ContactInv
<1>. QED
  BY <1>1, <1>2, <1>3, <1>4, <1>5, <1>6
  DEF Next, vars, GatewayTurn, Call, CallStep, Lookup, Send, SendFails, TimeOut, CodexAccepts,
      CodexRejects, Answered, RequestEnds, Tick
-----------------------------------------------------------------------------
(* The lookup *)

\* The event found is that of a contact recorded on the route, and every
\* contact recorded there is as old or older.
LEMMA LookupFinds ==
    ASSUME ContactInv, NEW t \in Targets, LatestEvent(t) # None
    PROVE  /\ LatestEvent(t) \in Events
           /\ \E d \in Range(recorded) :
                 /\ TargetOf[d] = t /\ EventOf[d] = LatestEvent(t)
                 /\ \A c \in Range(recorded) : TargetOf[c] = t => CreatedAt[d] >= CreatedAt[c]
<1> DEFINE d == Newest(OnRoute(t))
<1>1. /\ requests \in Seq(Contacts) /\ OnceEach(requests)
      /\ Range(requests) \subseteq Contacts /\ IsFiniteSet(Range(requests))
      /\ Range(recorded) \subseteq Contacts
  BY RangeIsFinite DEF ContactInv
<1>2. /\ OnRoute(t) \subseteq Listed /\ Listed \subseteq Joined
      /\ Joined \subseteq Range(requests) /\ OnRoute(t) # {}
  BY DEF OnRoute, Listed, Joined, LatestEvent
<1>3. d \in OnRoute(t) /\ \A c \in OnRoute(t) \ {d} : Newer(d, c)
  BY <1>1, <1>2, NewestIsThere
<1>4. LatestEvent(t) = EventOf[d]
  BY <1>2 DEF LatestEvent
<1> HIDE DEF d
<1>5. /\ d \in Contacts /\ d \in Listed /\ d \in Joined /\ receipt[d] = "delivered"
      /\ TargetOf[d] = t /\ d \in Range(recorded)
  BY <1>1, <1>2, <1>3 DEF OnRoute, ContactInv
<1>6. ASSUME NEW c \in Range(recorded), TargetOf[c] = t
      PROVE  CreatedAt[d] >= CreatedAt[c]
  <2>1. c \in Contacts /\ receipt[c] = "delivered" /\ c \in Range(requests) /\ c \in Joined
    BY <1>1, <1>6 DEF ContactInv, Joined
  <2>2. CreatedAt[c] \in Nat /\ CreatedAt[d] \in Nat
    BY <1>5, <2>1, OwnerAssumption
  <2>3. CASE c = d
    BY <2>2, <2>3
  <2>4. CASE Newer(d, c)
    BY <2>2, <2>4 DEF Newer
  <2>5. CASE c # d /\ ~Newer(d, c)
    <3>1. Newer(c, d)
      BY <1>1, <1>2, <1>5, <2>1, <2>5, NewerOrders
    <3>2. {e \in Joined : Newer(e, c)} \subseteq {e \in Joined : Newer(e, d)}
      BY <1>1, <1>2, <1>5, <2>1, <3>1, NewerOrders
    <3>3. IsFiniteSet({e \in Joined : Newer(e, d)})
      BY <1>1, <1>2, FS_Subset
    <3>4. /\ Cardinality({e \in Joined : Newer(e, c)})
               <= Cardinality({e \in Joined : Newer(e, d)})
          /\ Cardinality({e \in Joined : Newer(e, c)}) \in Nat
          /\ Cardinality({e \in Joined : Newer(e, d)}) \in Nat
      BY <3>2, <3>3, FS_Subset, FS_CardinalityType
    <3>5. Cardinality({e \in Joined : Newer(e, d)}) < Window
      BY <1>5 DEF Listed
    <3>6. c \in Listed
      BY <2>1, <3>4, <3>5, OwnerAssumption DEF Listed
    <3>7. c \in OnRoute(t)
      BY <1>6, <2>1, <3>6 DEF OnRoute
    <3>. QED
      BY <1>3, <2>5, <3>7
  <2>. QED
    BY <2>3, <2>4, <2>5
<1>. QED
  BY <1>4, <1>5, <1>6 DEF Events
-----------------------------------------------------------------------------
(* The calls *)

\* A call that begins acts on the entry of its session.
LEMMA CallReadsRoute ==
    ASSUME SessionInv, NEW w \in Calls, NEW s \in Sessions, NEW d \in Decisions, Call(w, s, d)
    PROVE  /\ pc[w] = "idle" /\ UNCHANGED <<contact, heard, clock, mail, approval>>
           /\ \/ UNCHANGED <<pc, job>> /\ reply' = [reply EXCEPT ![w] = "no_route"]
              \/ /\ pc' = [pc EXCEPT ![w] = "lookup"] /\ UNCHANGED reply
                 /\ \E j \in Job :
                       /\ job' = [job EXCEPT ![w] = j] /\ j.session = s
                       /\ heard[s] \in Observation
                       /\ heard[s].target = j.target /\ ~Expired(heard[s])
<1>1. pc[w] = "idle" /\ UNCHANGED <<contact, heard, clock, mail, approval>>
  BY DEF Call, codex
<1>2. ASSUME NEW r \in Range(routes), r.session = s, ~Expired(r),
             job' = [job EXCEPT ![w] = [session |-> s, decision |-> d,
                                        target |-> r.target, event |-> None]]
      PROVE  \E j \in Job :
                /\ job' = [job EXCEPT ![w] = j] /\ j.session = s
                /\ heard[s] \in Observation
                /\ heard[s].target = j.target /\ ~Expired(heard[s])
  <2>1. r \in Observation /\ heard[s] = r
    BY <1>2, RangeIsFinite DEF SessionInv
  <2>2. [session |-> s, decision |-> d, target |-> r.target, event |-> None] \in Job
    BY <2>1 DEF Observation, Job
  <2>. QED
    BY <1>2, <2>1, <2>2
<1>. QED
  BY <1>1, <1>2 DEF Call

\* An answer ends the call that waits for it, if one does.
LEMMA AnswerEnds ==
    ASSUME CallInv, NEW m \in mail, NEW verdict \in Reply, Answered(m, verdict)
    PROVE  /\ mail' = mail \ {m} /\ UNCHANGED <<contact, session, clock, job>>
           /\ \/ UNCHANGED <<pc, reply>>
              \/ /\ m.by \in Calls /\ pc[m.by] = "await"
                 /\ m.event = job[m.by].event /\ m.decision = job[m.by].decision
                 /\ pc' = [pc EXCEPT ![m.by] = "idle"]
                 /\ reply' = [reply EXCEPT ![m.by] = verdict]
  BY DEF Answered, Finish, tool, CallInv, MailIsOwn

\* A call has at most one message under way.
LEMMA SameMessage ==
    ASSUME CallInv
    PROVE  \A m, n \in mail : m.by # None /\ m.by = n.by => m = n
  BY DEF CallInv, MailIsOwn, Message

LEMMA CallStepKeeps == IInv /\ [Next]_vars => CallInv'
<1> SUFFICES ASSUME IInv, [Next]_vars PROVE CallInv'
  OBVIOUS
<1> USE DEF CallInv, EventOfOwnRoute, MailIsOwn, AcceptedMeansTaken, Reply, Job, Message
<1>1. SessionInv /\ ContactInv /\ CallInv
  BY DEF IInv
<1>2. ASSUME NEW w \in Calls, NEW s \in Sessions, NEW d \in Decisions, Call(w, s, d)
      PROVE  CallInv'
  <2>1. /\ pc[w] = "idle" /\ UNCHANGED <<contact, heard, clock, mail, approval>>
        /\ \/ UNCHANGED <<pc, job>> /\ reply' = [reply EXCEPT ![w] = "no_route"]
           \/ /\ pc' = [pc EXCEPT ![w] = "lookup"] /\ UNCHANGED reply
              /\ \E j \in Job : job' = [job EXCEPT ![w] = j]
    BY <1>1, <1>2, CallReadsRoute
  <2>2. UNCHANGED recorded /\ Range(recorded)' = Range(recorded)
    BY <2>1 DEF contact, Range
  <2>3. CASE UNCHANGED <<pc, job>> /\ reply' = [reply EXCEPT ![w] = "no_route"]
    BY <1>1, <2>1, <2>2, <2>3
  <2>4. ASSUME NEW j \in Job, job' = [job EXCEPT ![w] = j],
               pc' = [pc EXCEPT ![w] = "lookup"], UNCHANGED reply
        PROVE  CallInv'
    <3>1. \A v \in Calls : v # w => pc'[v] = pc[v] /\ job'[v] = job[v]
      BY <1>1, <2>4
    <3>2. \A m \in mail : m.by # None => m.by # w
      BY <1>1, <2>1
    <3>3. pc'[w] = "lookup" /\ pc' \in [Calls -> {"idle", "lookup", "send", "await"}]
          /\ job' \in [Calls -> Job]
      BY <1>1, <2>4
    <3>. QED
      BY <1>1, <2>1, <2>2, <2>4
  <2>. QED
    BY <2>1, <2>3, <2>4
<1>3. ASSUME NEW w \in Calls, Lookup(w)
      PROVE  CallInv'
  <2>1. UNCHANGED <<recorded, mail, approval>> /\ pc[w] = "lookup"
    BY <1>3 DEF Lookup, contact, codex
  <2>2. CASE Finish(w, "no_contact")
    BY <1>1, <2>1, <2>2 DEF Finish
  <2>3. CASE LatestEvent(job[w].target) # None
    <3>1. job[w].target \in Targets
      BY <1>1
    <3>2. PICK e \in Events : e = LatestEvent(job[w].target)
      BY <1>1, <2>3, <3>1, LookupFinds
    <3>3. \E c \in Range(recorded) : EventOf[c] = e /\ TargetOf[c] = job[w].target
      BY <1>1, <2>3, <3>2, LookupFinds
    <3>4. CASE Finish(w, "no_contact")
      BY <2>2, <3>4
    <3>5. CASE /\ job' = [job EXCEPT ![w].event = e] /\ pc' = [pc EXCEPT ![w] = "send"]
               /\ UNCHANGED reply
      <4>1. e # None
        BY <2>3, <3>2
      <4>. QED
        <5>1. /\ \A v \in Calls : v # w => pc'[v] = pc[v] /\ job'[v] = job[v]
              /\ pc'[w] = "send" /\ job'[w].event = e /\ job'[w].target = job[w].target
              /\ pc' \in [Calls -> {"idle", "lookup", "send", "await"}]
              /\ job' \in [Calls -> Job]
          BY <1>1, <3>5
        <5>2. \A m \in mail : m.by # None => m.by # w
          BY <1>1, <2>1
        <5>3. Range(recorded)' = Range(recorded)
          BY <2>1 DEF Range
        <5>. QED
          BY <1>1, <2>1, <3>3, <3>5, <4>1, <5>1, <5>2, <5>3
    <3>. QED
      BY <1>3, <3>2, <3>4, <3>5 DEF Lookup
  <2>. QED
    BY <1>3, <2>2, <2>3 DEF Lookup
<1>4. ASSUME NEW w \in Calls, Send(w)
      PROVE  CallInv'
  <2> DEFINE m == [event |-> job[w].event, decision |-> job[w].decision, by |-> w]
  <2>1. /\ pc[w] = "send" /\ pc' = [pc EXCEPT ![w] = "await"] /\ mail' = mail \cup {m}
        /\ UNCHANGED <<recorded, job, reply, approval>>
    BY <1>4 DEF Send, contact
  <2>2. m \in Message
    BY <1>1, <2>1
  <2>. QED
    BY <1>1, <2>1, <2>2 DEF Range
<1>5. ASSUME NEW w \in Calls, SendFails(w)
      PROVE  CallInv'
  BY <1>1, <1>5 DEF SendFails, Finish, contact, codex, Range
<1>6. ASSUME NEW w \in Calls, TimeOut(w)
      PROVE  CallInv'
  <2>1. /\ pc[w] = "await" /\ pc' = [pc EXCEPT ![w] = "idle"]
        /\ reply' = [reply EXCEPT ![w] = "transport_failure"]
        /\ UNCHANGED <<recorded, job, approval>>
    BY <1>6 DEF TimeOut, Finish, contact
  <2>2. \A n \in mail' : /\ n \in Message
                         /\ n.by # None => n \in mail /\ n.by # w
    BY <1>1, <1>6 DEF TimeOut
  <2>. QED
    BY <1>1, <2>1, <2>2 DEF Range
<1>7. ASSUME NEW m \in mail, CodexAccepts(m)
      PROVE  CallInv'
  <2>1. /\ approval[m.event] \in {"waiting", m.decision}
        /\ approval' = [approval EXCEPT ![m.event] = m.decision]
        /\ m \in Message
    BY <1>1, <1>7 DEF CodexAccepts
  <2>2. /\ mail' = mail \ {m} /\ UNCHANGED <<contact, job>>
        /\ \/ UNCHANGED <<pc, reply>>
           \/ /\ m.by \in Calls /\ pc[m.by] = "await"
              /\ m.event = job[m.by].event /\ m.decision = job[m.by].decision
              /\ pc' = [pc EXCEPT ![m.by] = "idle"]
              /\ reply' = [reply EXCEPT ![m.by] = "accepted"]
    BY <1>1, <1>7, AnswerEnds DEF CodexAccepts
  <2>3. \A w \in Calls : pc[w] = "idle" /\ reply[w] = "accepted" =>
           approval'[job[w].event] = job[w].decision
    BY <1>1, <2>1, OwnerAssumption
  <2>4. MailIsOwn'
    BY <1>1, <2>2, SameMessage
  <2>5. EventOfOwnRoute'
    BY <1>1, <2>2 DEF contact, Range
  <2>6. AcceptedMeansTaken'
    <3>1. m.event \in Events /\ approval'[m.event] = m.decision
      BY <1>1, <2>1
    <3>. QED
      BY <1>1, <2>2, <2>3, <3>1
  <2>7. /\ pc' \in [Calls -> {"idle", "lookup", "send", "await"}] /\ job' \in [Calls -> Job]
        /\ reply' \in [Calls -> Reply] /\ mail' \subseteq Message
        /\ approval' \in [Events -> Decisions \cup {"waiting", "gone"}]
    BY <1>1, <2>2, <2>1
  <2>8. \A w \in Calls : /\ pc'[w] \in {"send", "await"} => job'[w].event # None
                         /\ pc'[w] = "idle" /\ reply'[w] = "accepted" => job'[w].event # None
    BY <1>1, <2>2
  <2>. QED
    BY <2>4, <2>5, <2>6, <2>7, <2>8
<1>8. ASSUME NEW m \in mail, CodexRejects(m)
      PROVE  CallInv'
  <2>1. /\ mail' = mail \ {m} /\ UNCHANGED <<contact, job, approval>>
        /\ \/ UNCHANGED <<pc, reply>>
           \/ /\ m.by \in Calls /\ pc[m.by] = "await"
              /\ m.event = job[m.by].event /\ m.decision = job[m.by].decision
              /\ pc' = [pc EXCEPT ![m.by] = "idle"]
              /\ reply' = [reply EXCEPT ![m.by] = "rejected"]
    BY <1>1, <1>8, AnswerEnds DEF CodexRejects
  <2>2. MailIsOwn'
    BY <1>1, <2>1, SameMessage
  <2>3. EventOfOwnRoute'
    BY <1>1, <2>1 DEF contact, Range
  <2>4. AcceptedMeansTaken'
    BY <1>1, <2>1
  <2>5. /\ pc' \in [Calls -> {"idle", "lookup", "send", "await"}] /\ job' \in [Calls -> Job]
        /\ reply' \in [Calls -> Reply] /\ mail' \subseteq Message
        /\ approval' \in [Events -> Decisions \cup {"waiting", "gone"}]
    BY <1>1, <2>1
  <2>6. \A w \in Calls : /\ pc'[w] \in {"send", "await"} => job'[w].event # None
                         /\ pc'[w] = "idle" /\ reply'[w] = "accepted" => job'[w].event # None
    BY <1>1, <2>1
  <2>. QED
    BY <2>2, <2>3, <2>4, <2>5, <2>6
<1>9. ASSUME NEW e \in Events, RequestEnds(e)
      PROVE  CallInv'
  BY <1>1, <1>9, OwnerAssumption DEF RequestEnds, contact, tool
<1>10. CASE Range(recorded) \subseteq Range(recorded)' /\ UNCHANGED <<tool, codex>>
  BY <1>1, <1>10 DEF tool, codex
<1>11. ASSUME NEW c \in Contacts, SaveReceipt(c) PROVE Range(recorded) \subseteq Range(recorded)'
  <2>1. Range(recorded') = Range(recorded) \cup {c}
    BY <1>1, <1>11, AppendFacts DEF SaveReceipt, ContactInv
  <2>. QED
    BY <2>1 DEF Range
<1>. QED
  BY <1>2, <1>3, <1>4, <1>5, <1>6, <1>7, <1>8, <1>9, <1>10, <1>11
  DEF Next, vars, contact, Reserve, SaveDryRun, Arrive, SaveReceipt, OutcomeUnknown, GatewayTurn,
      CallStep, Tick, Range

LEMMA InitStep == Init => IInv
<1> SUFFICES ASSUME Init PROVE IInv
  OBVIOUS
<1>1. /\ requests = <<>> /\ seen = <<>> /\ recorded = <<>> /\ routes = <<>>
      /\ <<>> \in Seq(Contacts) /\ <<>> \in Seq(Observation) /\ Len(<<>>) = 0
      /\ DOMAIN routes = {} /\ DOMAIN requests = {}
      /\ Range(requests) = {} /\ Range(recorded) = {} /\ Range(routes) = {}
  BY DEF Init, Range
<1>2. MaxRoutes \in Nat /\ MaxTime \in Nat
  BY OwnerAssumption
<1>3. SessionInv
  BY <1>1, <1>2 DEF Init, SessionInv, OneEntryEach
<1>4. ContactInv
  BY <1>1 DEF Init, ContactInv, OnceEach
<1>5. (CHOOSE j \in Job : j.event = None) \in Job
  <2>1. PICK s \in Sessions, d \in Decisions, t \in Targets : TRUE
    BY OwnerAssumption
  <2>2. /\ [session |-> s, decision |-> d, target |-> t, event |-> None] \in Job
        /\ [session |-> s, decision |-> d, target |-> t, event |-> None].event = None
    BY DEF Job
  <2>. QED
    BY <2>2
<1>6. CallInv
  BY <1>5 DEF Init, CallInv, EventOfOwnRoute, MailIsOwn, AcceptedMeansTaken, Reply
<1>. QED
  BY <1>3, <1>4, <1>6 DEF IInv

\* What the cache, the contact database and the tool calls keep true of each
\* other, whatever the order of their steps.
THEOREM OwnerInvariant == Spec => []IInv
<1>1. IInv /\ [Next]_vars => IInv'
  BY SessionStep, ContactStep, CallStepKeeps DEF IInv
<1>. QED
  BY <1>1, InitStep, PTL DEF Spec

\* Every variable keeps its type; the cache never outgrows its limit.
THEOREM TypeCorrect == Spec => []TypeOK
<1>1. IInv => TypeOK
  BY DEF IInv, SessionInv, ContactInv, CallInv, TypeOK
<1>. QED
  BY <1>1, OwnerInvariant, PTL

\* The event a call carries was delivered on the route of that call.
THEOREM EventIsOwn == Spec => []EventOfOwnRoute
<1>1. IInv => EventOfOwnRoute
  BY DEF IInv, CallInv
<1>. QED
  BY <1>1, OwnerInvariant, PTL

\* The owner is told "accepted" only when the companion holds that decision.
THEOREM AcceptedIsTaken == Spec => []AcceptedMeansTaken
<1>1. IInv => AcceptedMeansTaken
  BY DEF IInv, CallInv
<1>. QED
  BY <1>1, OwnerInvariant, PTL

\* A call acts on the route its session was last heard on, within the time to
\* live of that observation.
THEOREM RouteStaysCurrent == Spec => RouteIsCurrent
<1> DEFINE Current(w) ==
      LET last == heard[job'[w].session]
      IN  /\ last # None
          /\ last.target = job'[w].target
          /\ clock - last.at <= RouteTtl
<1>1. ASSUME IInv, [Next]_vars, NEW w \in Calls, pc[w] = "idle", pc'[w] = "lookup"
      PROVE  Current(w)
  <2>1. SessionInv /\ pc \in [Calls -> {"idle", "lookup", "send", "await"}] /\ job \in [Calls -> Job]
    BY <1>1 DEF IInv, CallInv
  <2>2. PICK v \in Calls, s \in Sessions, d \in Decisions : Call(v, s, d)
    BY <1>1, <2>1 DEF Next, vars, tool, Reserve, SaveDryRun, Arrive, SaveReceipt, OutcomeUnknown,
           GatewayTurn, CallStep, Lookup, Finish, Send, SendFails, TimeOut, CodexAccepts, CodexRejects,
           Answered, RequestEnds, Tick
  <2>3. /\ pc' = [pc EXCEPT ![v] = "lookup"]
        /\ \E j \in Job :
              /\ job' = [job EXCEPT ![v] = j] /\ j.session = s
              /\ heard[s] \in Observation
              /\ heard[s].target = j.target /\ ~Expired(heard[s])
    BY <1>1, <2>1, <2>2, CallReadsRoute
  <2>4. v = w
    BY <1>1, <2>1, <2>3
  <2>5. /\ job'[w].session = s /\ heard[s] \in Observation
        /\ heard[s].target = job'[w].target /\ ~Expired(heard[s])
    BY <2>1, <2>3, <2>4
  <2>6. clock - heard[s].at <= RouteTtl
    BY <2>1, <2>5, OwnerAssumption DEF Expired, SessionInv, Observation
  <2>. QED
    BY <2>5, <2>6, OwnerAssumption DEF Observation
<1>2. IInv /\ [Next]_vars =>
        [\A w \in Calls : pc[w] = "idle" /\ pc'[w] = "lookup" => Current(w)]_vars
  BY <1>1
<1>. QED
  BY <1>2, OwnerInvariant, PTL DEF Spec, RouteIsCurrent

\* The lookup never goes back past a contact recorded as delivered on the route
\* of the call to one created before it.
THEOREM OlderStayHidden == Spec => RecordedContactHidesOlder
<1> DEFINE Hides(w) ==
      \A c \in Range(recorded) : TargetOf[c] = job[w].target =>
        \E d \in Range(recorded) :
          /\ TargetOf[d] = job[w].target /\ EventOf[d] = job'[w].event
          /\ CreatedAt[d] >= CreatedAt[c]
<1>1. ASSUME IInv, [Next]_vars, NEW w \in Calls, pc[w] = "lookup", pc'[w] = "send"
      PROVE  Hides(w)
  <2>1. ContactInv /\ pc \in [Calls -> {"idle", "lookup", "send", "await"}] /\ job \in [Calls -> Job]
    BY <1>1 DEF IInv, CallInv
  <2>2. PICK v \in Calls : Lookup(v)
    BY <1>1, <2>1 DEF Next, vars, tool, Reserve, SaveDryRun, Arrive, SaveReceipt, OutcomeUnknown,
           GatewayTurn, Call, CallStep, Finish, Send, SendFails, TimeOut, CodexAccepts, CodexRejects,
           Answered, RequestEnds, Tick
  <2>3. /\ v = w /\ LatestEvent(job[w].target) # None
        /\ job' = [job EXCEPT ![w].event = LatestEvent(job[w].target)]
    BY <1>1, <2>1, <2>2 DEF Lookup, Finish
  <2>4. job[w].target \in Targets /\ job'[w].event = LatestEvent(job[w].target)
    BY <2>1, <2>3 DEF Job
  <2>. QED
    BY <2>1, <2>3, <2>4, LookupFinds
<1>2. IInv /\ [Next]_vars =>
        [\A w \in Calls : pc[w] = "lookup" /\ pc'[w] = "send" => Hides(w)]_vars
  BY <1>1
<1>. QED
  BY <1>2, OwnerInvariant, PTL DEF Spec, RecordedContactHidesOlder
=============================================================================
