------------------------- MODULE RateLimiterProofs -------------------------
(***************************************************************************)
(* Machine-checked proofs about module RateLimiter, for any number of keys *)
(* and requests, any limit, burst, window and table size, and any delay of *)
(* the mutex up to the window.                                             *)
(***************************************************************************)
EXTENDS RateLimiter, FiniteSetTheorems, TLAPS

-----------------------------------------------------------------------------
(* Sets of requests *)

\* The requests of a window are finitely many.
LEMMA AllowedAreFinite ==
  ASSUME NEW k, NEW s
  PROVE  IsFiniteSet(AllowedIn(k, s)) /\ Cardinality(AllowedIn(k, s)) \in Nat
<1>1. AllowedIn(k, s) \subseteq Requests
  BY DEF AllowedIn
<1> QED
  BY <1>1, LimiterAssumption, FS_Subset, FS_CardinalityType

\* Requests of a window read the clock less than a window and a delay before
\* one that is refused for it.
LEMMA RecentInWindow ==
  ASSUME LimiterTypeOK, ReadingsAreFresh, NEW r \in Requests, request[r].at = "refused"
  PROVE  LET q == request[r]
         IN  {p \in AllowedIn(q.key, q.windowStart) :
                request[p].now > q.now - Window - MaxDelay} = AllowedIn(q.key, q.windowStart)
<1> DEFINE q == request[r]
<1>1. q.now \in Nat /\ q.windowStart \in Nat /\ q.now < q.windowStart + Window
  BY DEF LimiterTypeOK, LimiterRequests, ReadingsAreFresh
<1>2. ASSUME NEW p \in AllowedIn(q.key, q.windowStart)
      PROVE  request[p].now > q.now - Window - MaxDelay
  <2>1. /\ p \in Requests /\ request[p].at = "allowed"
        /\ request[p].windowStart = q.windowStart
    BY DEF AllowedIn
  <2>2. request[p].now \in Nat /\ q.windowStart =< request[p].now + MaxDelay
    BY <2>1 DEF LimiterTypeOK, LimiterRequests, ReadingsAreFresh
  <2> QED
    BY <1>1, <2>2, LimiterAssumption
<1> QED
  BY <1>2

-----------------------------------------------------------------------------
(* Steps *)

LEMMA LimiterStart ==
  ASSUME LimiterInit
  PROVE  LimiterInv
<1>1. LimiterTypeOK
  BY DEF LimiterInit, LimiterTypeOK, Entries, ZeroEntry, Zero, LimiterRequests
<1>2. \A r \in Requests : request[r].at = "idle"
  BY DEF LimiterInit
<1>3. \A k \in Keys : entries[k].windowStart = Zero
  BY DEF LimiterInit, ZeroEntry
<1> QED
  BY <1>1, <1>2, <1>3
  DEF LimiterInv, ReadingsAreFresh, EntriesCount, DroppedIsOver, WindowsDoNotOverlap,
      RefusedOverLimit

\* What the table and the decided requests say when only the clock moves on, or
\* requests that were not decided change.
LEMMA UndecidedStep ==
  ASSUME LimiterInv, LimiterTypeOK', ReadingsAreFresh', UNCHANGED entries, clock =< clock',
         \A r \in Requests :
           \/ request'[r] = request[r]
           \/ /\ request[r].at \notin {"allowed", "refused"}
              /\ request'[r].at \notin {"allowed", "refused"}
  PROVE  LimiterInv'
<1>1. \A k, s : AllowedIn(k, s)' = AllowedIn(k, s)
  BY DEF AllowedIn
<1>2. ASSUME NEW r \in Requests, request'[r].at \in {"allowed", "refused"}
      PROVE  request'[r] = request[r]
  BY <1>2
<1>3. clock \in Nat /\ clock' \in Nat
  BY DEF LimiterInv, LimiterTypeOK
<1>4. EntriesCount'
  <2>1. \A k \in Keys : entries[k].windowStart \in Nat \cup {Zero}
    BY DEF LimiterInv, LimiterTypeOK, Entries
  <2> QED
    BY <1>1, <1>2, <1>3, <2>1 DEF LimiterInv, EntriesCount, Zero
<1>5. DroppedIsOver'
  <2>1. ASSUME NEW r \in Requests, request'[r].at = "allowed",
               entries[request'[r].key].windowStart = Zero
        PROVE  request'[r].windowStart + 2 * Window =< clock'
    <3>1. request'[r] = request[r]
      BY <1>2, <2>1
    <3>2. request[r].windowStart + 2 * Window =< clock /\ request[r].windowStart \in Nat
      BY <2>1, <3>1 DEF LimiterInv, DroppedIsOver, ReadingsAreFresh
    <3> QED
      BY <1>3, <3>1, <3>2, LimiterAssumption
  <2> QED
    BY <2>1 DEF DroppedIsOver
<1>6. WindowsDoNotOverlap'
  BY <1>1, <1>2 DEF LimiterInv, WindowsDoNotOverlap
<1>7. RefusedOverLimit'
  <2>1. ASSUME NEW r \in Requests, request'[r].at = "refused"
        PROVE  Cardinality({p \in AllowedIn(request[r].key, request[r].windowStart)' :
                              request'[p].now > request'[r].now - Window - MaxDelay})
               >= Limit + Burst
    <3> DEFINE A == AllowedIn(request[r].key, request[r].windowStart)
    <3>1. request'[r] = request[r]
      BY <1>2, <2>1
    <3>2. \A p \in A : request'[p] = request[p]
      BY <1>2 DEF AllowedIn
    <3>3. AllowedIn(request[r].key, request[r].windowStart)' = A
      BY <1>1, <3>1
    <3>4. Cardinality({p \in A : request[p].now > request[r].now - Window - MaxDelay})
            >= Limit + Burst
      BY <2>1, <3>1 DEF LimiterInv, RefusedOverLimit
    <3>5. {p \in A : request'[p].now > request[r].now - Window - MaxDelay}
          = {p \in A : request[p].now > request[r].now - Window - MaxDelay}
      BY <3>2
    <3> HIDE DEF A
    <3> QED
      BY <3>1, <3>3, <3>4, <3>5
  <2> QED
    BY <2>1 DEF RefusedOverLimit
<1> QED
  BY <1>4, <1>5, <1>6, <1>7 DEF LimiterInv

\* Time passes, or a request reads the clock.
LEMMA TickStep ==
  ASSUME LimiterInv, Tick
  PROVE  LimiterInv'
<1>1. LimiterTypeOK'
  BY DEF LimiterInv, LimiterTypeOK, Tick
<1>2. ReadingsAreFresh'
  BY LimiterAssumption
  DEF LimiterInv, LimiterTypeOK, LimiterRequests, ReadingsAreFresh, Tick
<1> QED
  BY <1>1, <1>2, UndecidedStep DEF Tick, LimiterInv, LimiterTypeOK

LEMMA ReadStep ==
  ASSUME LimiterInv, NEW r \in Requests, ReadClock(r)
  PROVE  LimiterInv'
<1>1. /\ request[r].at = "idle"
      /\ request'[r] = [request[r] EXCEPT !.at = "read", !.now = clock]
      /\ \A q \in Requests \ {r} : request'[q] = request[q]
      /\ request' \in [Requests -> LimiterRequests]
      /\ UNCHANGED <<clock, entries>>
  BY DEF LimiterInv, LimiterTypeOK, LimiterRequests, ReadClock
<1>2. request'[r].at = "read" /\ request'[r].now = clock
  BY <1>1 DEF LimiterInv, LimiterTypeOK, LimiterRequests
<1>3. LimiterTypeOK'
  BY <1>1 DEF LimiterInv, LimiterTypeOK
<1>4. ReadingsAreFresh'
  <2>1. ASSUME NEW q \in Requests \ {r}
        PROVE  /\ request'[q] = request[q] /\ clock' = clock
               /\ request[q].at # "idle" => request[q].now =< clock
               /\ request[q].at = "read" => clock =< request[q].now + MaxDelay
               /\ request[q].at \in {"allowed", "refused"} =>
                    /\ request[q].windowStart \in Nat /\ request[q].windowStart =< clock
                    /\ request[q].windowStart =< request[q].now + MaxDelay
                    /\ request[q].now < request[q].windowStart + Window
    BY <1>1 DEF LimiterInv, ReadingsAreFresh
  <2>2. clock =< clock + MaxDelay /\ clock \in Nat /\ clock' = clock
    BY <1>1, LimiterAssumption DEF LimiterInv, LimiterTypeOK
  <2> QED
    BY <1>2, <2>1, <2>2 DEF ReadingsAreFresh
<1>5. \A q \in Requests :
        \/ request'[q] = request[q]
        \/ /\ request[q].at \notin {"allowed", "refused"}
           /\ request'[q].at \notin {"allowed", "refused"}
  BY <1>1, <1>2
<1>6. clock =< clock' /\ UNCHANGED entries
  BY <1>1 DEF LimiterInv, LimiterTypeOK
<1> QED
  BY <1>3, <1>4, <1>5, <1>6, UndecidedStep

\* The entry a request is decided by is that of its window: it was begun at a
\* reading, counts the requests allowed in it, and no other window overlaps it.
LEMMA DecidingEntry ==
  ASSUME LimiterInv, NEW r \in Requests, request[r].at = "read"
  PROVE  LET q == request[r]
             e == Renewed(entries[q.key], q.now)
         IN  /\ e \in Entries /\ e.windowStart \in Nat
             /\ e.windowStart =< clock /\ e.windowStart =< q.now + MaxDelay
             /\ q.now < e.windowStart + Window
             /\ e.count = Cardinality(AllowedIn(q.key, e.windowStart))
             /\ e.count =< Limit + Burst
             /\ \A p \in Requests :
                  request[p].at = "allowed" /\ request[p].key = q.key =>
                    \/ request[p].windowStart = e.windowStart
                    \/ request[p].windowStart + Window =< e.windowStart
<1> DEFINE q == request[r]
           old == entries[q.key]
           e == Renewed(old, q.now)
<1>1. /\ q.key \in Keys /\ q.now \in Nat /\ clock \in Nat /\ old \in Entries
      /\ q.now =< clock /\ clock =< q.now + MaxDelay
  BY DEF LimiterInv, LimiterTypeOK, LimiterRequests, ReadingsAreFresh
<1>2. CASE old.windowStart = Zero \/ q.now - old.windowStart >= Window
  <2>1. e = [windowStart |-> q.now, count |-> 0]
    BY <1>2 DEF Renewed
  <2>2. ASSUME NEW p \in Requests, request[p].at = "allowed", request[p].key = q.key
        PROVE  request[p].windowStart \in Nat /\ request[p].windowStart + Window =< q.now
    <3>1. request[p].windowStart \in Nat
      BY <2>2 DEF LimiterInv, ReadingsAreFresh
    <3>2. CASE old.windowStart = Zero
      <4>1. request[p].windowStart + 2 * Window =< clock
        BY <2>2, <3>2 DEF LimiterInv, DroppedIsOver
      <4> QED
        BY <1>1, <3>1, <4>1, LimiterAssumption
    <3>3. CASE old.windowStart # Zero
      <4>1. old.windowStart \in Nat /\ q.now - old.windowStart >= Window
        BY <1>1, <1>2, <3>3 DEF Entries
      <4>2. \/ request[p].windowStart = old.windowStart
            \/ request[p].windowStart + Window =< old.windowStart
        BY <1>1, <2>2, <3>3 DEF LimiterInv, EntriesCount
      <4> QED
        BY <1>1, <3>1, <4>1, <4>2, LimiterAssumption
    <3> QED
      BY <3>1, <3>2, <3>3
  <2>3. AllowedIn(q.key, q.now) = {}
    BY <1>1, <2>2, LimiterAssumption DEF AllowedIn
  <2>4. Cardinality({}) = 0
    BY FS_EmptySet
  <2>5. /\ e.windowStart = q.now /\ e.count = 0 /\ e \in Entries
        /\ q.now =< q.now + MaxDelay /\ q.now < q.now + Window /\ 0 =< Limit + Burst
    BY <1>1, <2>1, LimiterAssumption DEF Entries
  <2> HIDE DEF e
  <2> QED
    BY <1>1, <2>2, <2>3, <2>4, <2>5 DEF e, old
<1>3. CASE old.windowStart # Zero /\ ~(q.now - old.windowStart >= Window)
  <2>1. e = old /\ old.windowStart \in Nat
    BY <1>1, <1>3 DEF Renewed, Entries
  <2> QED
    BY <1>1, <1>3, <2>1, LimiterAssumption DEF LimiterInv, EntriesCount
<1> QED
  BY <1>2, <1>3

\* Cleaning a table leaves an entry as it is, or drops it when it is old.
LEMMA CleanedEntry ==
  ASSUME NEW table \in [Keys -> Entries], NEW now, NEW k \in Keys
  PROVE  /\ Cleaned(table, now) \in [Keys -> Entries]
         /\ \/ Cleaned(table, now)[k] = table[k]
            \/ /\ Cleaned(table, now)[k] = ZeroEntry
               /\ table[k].windowStart # Zero
               /\ now - table[k].windowStart >= 2 * Window
<1>1. ZeroEntry \in Entries
  BY DEF ZeroEntry, Entries
<1>2. CASE Cardinality(InTable(table)) > MaxEntries
  BY <1>1, <1>2 DEF Cleaned
<1>3. CASE ~(Cardinality(InTable(table)) > MaxEntries)
  BY <1>3 DEF Cleaned
<1> QED
  BY <1>2, <1>3

\* What a refused request has found used up stays so when a request is decided.
LEMMA StillUsedUp ==
  ASSUME LimiterInv, NEW r \in Requests, request[r].at = "read",
         \A p \in Requests \ {r} : request'[p] = request[p],
         NEW p \in Requests \ {r}, request[p].at = "refused"
  PROVE  Cardinality({x \in AllowedIn(request[p].key, request[p].windowStart)' :
                        request'[x].now > request'[p].now - Window - MaxDelay})
         >= Limit + Burst
<1> DEFINE A == AllowedIn(request[p].key, request[p].windowStart)
           B == AllowedIn(request[p].key, request[p].windowStart)'
           before == {x \in A : request[x].now > request[p].now - Window - MaxDelay}
           after == {x \in B : request'[x].now > request[p].now - Window - MaxDelay}
<1>1. request'[p] = request[p]
  OBVIOUS
<1>2. before \subseteq after
  BY <1>1 DEF AllowedIn
<1>3. B \subseteq Requests
  BY <1>1 DEF AllowedIn
<1>4. IsFiniteSet(after)
  BY <1>3, LimiterAssumption, FS_Subset
<1>5. Cardinality(before) =< Cardinality(after)
  BY <1>2, <1>4, FS_Subset
<1>6. Cardinality(before) >= Limit + Burst
  BY DEF LimiterInv, RefusedOverLimit
<1>7. Cardinality(before) \in Nat /\ Cardinality(after) \in Nat
  BY <1>2, <1>4, FS_Subset, FS_CardinalityType
<1> HIDE DEF before, after
<1>8. Cardinality(after) >= Limit + Burst
  BY <1>5, <1>6, <1>7, LimiterAssumption
<1> QED
  BY <1>1, <1>8 DEF after, B

\* A request is refused.
LEMMA RefuseStep ==
  ASSUME LimiterInv, NEW r \in Requests, Refuse(r)
  PROVE  LimiterInv'
<1> DEFINE q == request[r]
           k == q.key
           e == Renewed(entries[k], q.now)
           s == e.windowStart
<1>1. q.at = "read"
  BY DEF Refuse
<1>2. /\ e \in Entries /\ s \in Nat /\ s =< clock /\ s =< q.now + MaxDelay
      /\ q.now < s + Window /\ e.count = Cardinality(AllowedIn(k, s))
      /\ e.count =< Limit + Burst
      /\ \A p \in Requests :
           request[p].at = "allowed" /\ request[p].key = k =>
             request[p].windowStart = s \/ request[p].windowStart + Window =< s
  BY <1>1, DecidingEntry
<1>3. /\ e.count >= Limit + Burst
      /\ entries' = [entries EXCEPT ![k] = e]
      /\ request' = [request EXCEPT ![r].at = "refused", ![r].windowStart = s]
      /\ clock' = clock
  BY DEF Refuse
<1>4. q \in LimiterRequests /\ k \in Keys /\ entries \in [Keys -> Entries] /\ clock \in Nat
      /\ request \in [Requests -> LimiterRequests]
  BY DEF LimiterInv, LimiterTypeOK, LimiterRequests
<1>5. /\ request'[r] = [q EXCEPT !.at = "refused", !.windowStart = s]
      /\ \A p \in Requests \ {r} : request'[p] = request[p]
  BY <1>3, <1>4
<1>6. /\ request'[r].at = "refused" /\ request'[r].windowStart = s
      /\ request'[r].key = k /\ request'[r].now = q.now
      /\ request'[r] \in LimiterRequests
  BY <1>2, <1>4, <1>5 DEF LimiterRequests
<1> HIDE DEF e, s, k
<1>7. LimiterTypeOK'
  BY <1>2, <1>3, <1>4, <1>5, <1>6 DEF LimiterTypeOK
<1>8. \A x, y : AllowedIn(x, y)' = AllowedIn(x, y)
  BY <1>1, <1>5, <1>6, ZenonT(40) DEF AllowedIn
<1>9. ReadingsAreFresh'
  <2>1. q.now \in Nat /\ q.now =< clock
    BY <1>1, <1>4 DEF LimiterInv, ReadingsAreFresh, LimiterRequests
  <2> QED
    BY <1>2, <1>3, <1>5, <1>6, <2>1 DEF LimiterInv, ReadingsAreFresh
<1>10. ASSUME NEW p \in Requests, request'[p].at = "allowed"
       PROVE  p # r /\ request'[p] = request[p] /\ request[p].at = "allowed"
  BY <1>5, <1>6, <1>10
<1>11. EntriesCount'
  <2>1. ASSUME NEW x \in Keys, x # k PROVE entries'[x] = entries[x]
    BY <1>3, <1>4, <2>1
  <2>2. entries'[k] = e
    BY <1>3, <1>4
  <2>3. ASSUME NEW x \in Keys, entries'[x].windowStart # Zero
        PROVE  /\ entries'[x].windowStart =< clock /\ entries'[x].count =< Limit + Burst
               /\ entries'[x].count = Cardinality(AllowedIn(x, entries'[x].windowStart))
               /\ \A p \in Requests :
                    request[p].at = "allowed" /\ request[p].key = x =>
                      \/ request[p].windowStart = entries'[x].windowStart
                      \/ request[p].windowStart + Window =< entries'[x].windowStart
    <3>1. CASE x = k
      BY <1>2, <2>2, <3>1 DEF s
    <3>2. CASE x # k
      BY <2>1, <2>3, <3>2 DEF LimiterInv, EntriesCount
    <3> QED
      BY <3>1, <3>2
  <2> QED
    BY <1>3, <1>8, <1>10, <2>3 DEF EntriesCount
<1>12. DroppedIsOver'
  <2>1. ASSUME NEW p \in Requests, request'[p].at = "allowed",
               entries'[request'[p].key].windowStart = Zero
        PROVE  request'[p].windowStart + 2 * Window =< clock
    <3>1. request'[p] = request[p] /\ request[p].at = "allowed" /\ request[p].key \in Keys
      BY <1>4, <1>10, <2>1 DEF LimiterRequests
    <3>2. request[p].key # k
      BY <1>2, <1>3, <1>4, <2>1, <3>1 DEF s, Zero
    <3>3. entries[request[p].key].windowStart = Zero
      BY <1>3, <1>4, <2>1, <3>1, <3>2
    <3> QED
      BY <3>1, <3>3 DEF LimiterInv, DroppedIsOver
  <2> QED
    BY <1>3, <2>1 DEF DroppedIsOver
<1>13. WindowsDoNotOverlap'
  BY <1>8, <1>10 DEF LimiterInv, WindowsDoNotOverlap
<1>14. RefusedOverLimit'
  <2>1. ASSUME NEW p \in Requests, request'[p].at = "refused"
        PROVE  Cardinality({x \in AllowedIn(request[p].key, request[p].windowStart)' :
                              request'[x].now > request'[p].now - Window - MaxDelay})
               >= Limit + Burst
    <3>1. CASE p # r
      BY <1>1, <1>5, <2>1, <3>1, StillUsedUp
    <3>2. CASE p = r
      <4> DEFINE A == AllowedIn(k, s)
      <4>1. AllowedIn(request[r].key, request[r].windowStart)' = A
        BY <1>6, <1>8
      <4>2. ASSUME NEW x \in A PROVE request'[x].now > q.now - Window - MaxDelay
        <5>1. /\ x \in Requests /\ x # r /\ request[x].at = "allowed"
              /\ request[x].windowStart = s
          BY <1>1 DEF AllowedIn
        <5>2. s =< request[x].now + MaxDelay /\ request[x].now \in Nat /\ q.now \in Nat
          BY <1>4, <5>1 DEF LimiterInv, ReadingsAreFresh, LimiterRequests
        <5>3. request'[x] = request[x]
          BY <1>5, <5>1
        <5> QED
          BY <1>2, <5>2, <5>3, LimiterAssumption
      <4>3. {x \in A : request'[x].now > q.now - Window - MaxDelay} = A
        BY <4>2
      <4>4. Cardinality(A) >= Limit + Burst
        BY <1>2, <1>3
      <4> HIDE DEF A
      <4> QED
        BY <1>6, <3>2, <4>1, <4>3, <4>4
    <3> QED
      BY <3>1, <3>2
  <2> QED
    BY <2>1 DEF RefusedOverLimit
<1> QED
  BY <1>7, <1>9, <1>11, <1>12, <1>13, <1>14 DEF LimiterInv

\* A request is allowed.
LEMMA AllowStep ==
  ASSUME LimiterInv, NEW r \in Requests, Allow(r)
  PROVE  LimiterInv'
<1> DEFINE q == request[r]
           k == q.key
           e == Renewed(entries[k], q.now)
           s == e.windowStart
           counted == [e EXCEPT !.count = @ + 1]
           table == [entries EXCEPT ![k] = counted]
<1>1. q.at = "read"
  BY DEF Allow
<1>2. /\ e \in Entries /\ s \in Nat /\ s =< clock /\ s =< q.now + MaxDelay
      /\ q.now < s + Window /\ e.count = Cardinality(AllowedIn(k, s))
      /\ \A p \in Requests :
           request[p].at = "allowed" /\ request[p].key = k =>
             request[p].windowStart = s \/ request[p].windowStart + Window =< s
  BY <1>1, DecidingEntry
<1>3. /\ e.count < Limit + Burst
      /\ entries' = Cleaned(table, q.now)
      /\ request' = [request EXCEPT ![r].at = "allowed", ![r].windowStart = s]
      /\ clock' = clock
  BY DEF Allow
<1>4. q \in LimiterRequests /\ k \in Keys /\ entries \in [Keys -> Entries] /\ clock \in Nat
      /\ request \in [Requests -> LimiterRequests]
  BY DEF LimiterInv, LimiterTypeOK, LimiterRequests
<1>5. /\ request'[r] = [q EXCEPT !.at = "allowed", !.windowStart = s]
      /\ \A p \in Requests \ {r} : request'[p] = request[p]
  BY <1>3, <1>4
<1>6. /\ request'[r].at = "allowed" /\ request'[r].windowStart = s
      /\ request'[r].key = k /\ request'[r].now = q.now
      /\ request'[r] \in LimiterRequests
  BY <1>2, <1>4, <1>5 DEF LimiterRequests
<1>7. counted \in Entries /\ counted.windowStart = s /\ counted.count = e.count + 1
  BY <1>2 DEF Entries
<1>8. /\ table \in [Keys -> Entries] /\ table[k] = counted
      /\ \A x \in Keys \ {k} : table[x] = entries[x]
  BY <1>4, <1>7
<1>9. q.now \in Nat /\ q.now =< clock
  BY <1>1, <1>4 DEF LimiterInv, ReadingsAreFresh, LimiterRequests
<1> HIDE DEF e, s, k, counted, table
<1>10. entries' \in [Keys -> Entries]
  BY <1>3, <1>4, <1>8, CleanedEntry
<1>11. entries'[k] = counted
  <2>1. ~(q.now - s >= 2 * Window)
    BY <1>2, <1>9, LimiterAssumption
  <2> QED
    BY <1>3, <1>4, <1>7, <1>8, <2>1, CleanedEntry
<1>12. ASSUME NEW x \in Keys, x # k
       PROVE  \/ entries'[x] = entries[x]
              \/ /\ entries'[x].windowStart = Zero /\ entries[x].windowStart # Zero
                 /\ q.now - entries[x].windowStart >= 2 * Window
  BY <1>3, <1>8, <1>12, CleanedEntry DEF ZeroEntry
<1>13. ASSUME NEW x, NEW y, x = k, y = s
       PROVE  AllowedIn(x, y)' = AllowedIn(x, y) \cup {r} /\ r \notin AllowedIn(x, y)
  <2>1. r \notin AllowedIn(x, y)
    BY <1>1 DEF AllowedIn
  <2>2. r \in AllowedIn(x, y)'
    BY <1>6, <1>13 DEF AllowedIn
  <2>3. ASSUME NEW p \in Requests \ {r} PROVE p \in AllowedIn(x, y)' <=> p \in AllowedIn(x, y)
    BY <1>5 DEF AllowedIn
  <2>4. AllowedIn(x, y)' \subseteq Requests /\ AllowedIn(x, y) \subseteq Requests
    BY DEF AllowedIn
  <2> QED
    BY <2>1, <2>2, <2>3, <2>4
<1>14. ASSUME NEW x, NEW y, x # k \/ y # s
       PROVE  AllowedIn(x, y)' = AllowedIn(x, y)
  BY <1>1, <1>5, <1>6, <1>14 DEF AllowedIn
<1>15. e.count + 1 =< Limit + Burst
  BY <1>2, <1>3, LimiterAssumption DEF Entries
<1>16. ASSUME NEW x, NEW y, x = k, y = s
       PROVE  Cardinality(AllowedIn(x, y)') = e.count + 1
  <2>1. IsFiniteSet(AllowedIn(x, y))
    BY AllowedAreFinite
  <2>2. Cardinality(AllowedIn(x, y) \cup {r}) = Cardinality(AllowedIn(x, y)) + 1
    BY <1>13, <1>16, <2>1, FS_AddElement
  <2> QED
    BY <1>2, <1>13, <1>16, <2>2
<1>17. LimiterTypeOK'
  BY <1>3, <1>4, <1>5, <1>6, <1>10 DEF LimiterTypeOK
<1>18. ReadingsAreFresh'
  BY <1>2, <1>3, <1>5, <1>6, <1>9 DEF LimiterInv, ReadingsAreFresh
<1>19. EntriesCount'
  <2>1. ASSUME NEW x \in Keys, entries'[x].windowStart # Zero
        PROVE  /\ entries'[x].windowStart =< clock' /\ entries'[x].count =< Limit + Burst
               /\ entries'[x].count = Cardinality(AllowedIn(x, entries[x].windowStart)')
               /\ \A p \in Requests :
                    request'[p].at = "allowed" /\ request'[p].key = x =>
                      \/ request'[p].windowStart = entries'[x].windowStart
                      \/ request'[p].windowStart + Window =< entries'[x].windowStart
    <3>1. CASE x = k
      <4>1. ASSUME NEW y, y = s
            PROVE  Cardinality(AllowedIn(x, y)') = e.count + 1
        BY <1>16, <3>1, <4>1
      <4>2. entries'[x].windowStart = s /\ entries'[x].count = e.count + 1
        BY <1>7, <1>11, <3>1
      <4>3. Cardinality(AllowedIn(x, entries[x].windowStart)') = e.count + 1
        BY <4>1, <4>2 DEF AllowedIn
      <4> QED
        BY <1>2, <1>3, <1>5, <1>6, <1>15, <3>1, <4>2, <4>3, ZenonT(40)
    <3>2. CASE x # k
      <4>1. entries'[x] = entries[x]
        BY <1>12, <2>1, <3>2
      <4>2. AllowedIn(x, entries[x].windowStart)' = AllowedIn(x, entries[x].windowStart)
        BY <1>1, <1>5, <1>6, <3>2, <4>1 DEF AllowedIn
      <4>3. ASSUME NEW p \in Requests, request'[p].at = "allowed", request'[p].key = x
            PROVE  request'[p] = request[p]
        BY <1>5, <1>6, <3>2, <4>3
      <4> QED
        BY <1>3, <2>1, <4>1, <4>2, <4>3 DEF LimiterInv, EntriesCount
    <3> QED
      BY <3>1, <3>2
  <2> QED
    BY <2>1 DEF EntriesCount
<1>20. DroppedIsOver'
  <2>1. ASSUME NEW p \in Requests, request'[p].at = "allowed",
               entries'[request'[p].key].windowStart = Zero
        PROVE  request'[p].windowStart + 2 * Window =< clock
    <3> DEFINE x == request[p].key
    <3>1. p # r
      BY <1>2, <1>6, <1>7, <1>11, <2>1 DEF Zero
    <3>2. request'[p] = request[p] /\ request[p].at = "allowed" /\ x \in Keys
      BY <1>4, <1>5, <2>1, <3>1 DEF LimiterRequests
    <3>3. x # k
      BY <1>2, <1>7, <1>11, <2>1, <3>2 DEF Zero
    <3>4. request[p].windowStart \in Nat
      BY <3>2 DEF LimiterInv, ReadingsAreFresh
    <3>5. CASE entries[x].windowStart = Zero
      BY <3>2, <3>5 DEF LimiterInv, DroppedIsOver
    <3>6. CASE entries[x].windowStart # Zero
      <4>1. q.now - entries[x].windowStart >= 2 * Window
        BY <1>12, <2>1, <3>2, <3>3, <3>6
      <4>2. \/ request[p].windowStart = entries[x].windowStart
            \/ request[p].windowStart + Window =< entries[x].windowStart
        BY <3>2, <3>6 DEF LimiterInv, EntriesCount
      <4>3. entries[x].windowStart \in Nat
        BY <1>4, <3>2, <3>6 DEF Entries
      <4> QED
        BY <1>4, <1>9, <3>2, <3>4, <4>1, <4>2, <4>3, LimiterAssumption
    <3> QED
      BY <3>5, <3>6
  <2> QED
    BY <1>3, <2>1 DEF DroppedIsOver
<1>21. WindowsDoNotOverlap'
  <2>1. ASSUME NEW a \in Requests, NEW b \in Requests,
               request'[a].at = "allowed", request'[b].at = "allowed",
               request'[a].key = request'[b].key,
               request'[a].windowStart < request'[b].windowStart
        PROVE  request'[a].windowStart + Window =< request'[b].windowStart
    <3>1. CASE a # r /\ b # r
      BY <1>5, <2>1, <3>1 DEF LimiterInv, WindowsDoNotOverlap
    <3>2. CASE a = r
      <4>1. request'[a].windowStart = s /\ request'[a].key = k
        BY <1>6, <3>2
      <4>2. b # r
        BY <1>2, <1>6, <2>1, <4>1
      <4>3. request'[b] = request[b]
        BY <1>5, <4>2
      <4>4. /\ request[b].key = k /\ s < request[b].windowStart
            /\ request[b].at = "allowed"
        BY <2>1, <4>1, <4>3
      <4>5. request[b].windowStart \in Nat
        BY <4>4 DEF LimiterInv, ReadingsAreFresh
      <4>6. request[b].windowStart = s \/ request[b].windowStart + Window =< s
        BY <1>2, <4>4
      <4> QED
        BY <1>2, <4>4, <4>5, <4>6, LimiterAssumption
    <3>3. CASE b = r
      <4>1. request'[b].windowStart = s /\ request'[b].key = k
        BY <1>6, <3>3
      <4>2. a # r
        BY <1>2, <1>6, <2>1, <4>1
      <4>3. request'[a] = request[a]
        BY <1>5, <4>2
      <4>4. /\ request[a].key = k /\ request[a].windowStart < s
            /\ request[a].at = "allowed"
        BY <2>1, <4>1, <4>3
      <4>5. request[a].windowStart \in Nat
        BY <4>4 DEF LimiterInv, ReadingsAreFresh
      <4>6. request[a].windowStart = s \/ request[a].windowStart + Window =< s
        BY <1>2, <4>4
      <4> QED
        BY <1>2, <4>1, <4>3, <4>4, <4>5, <4>6
    <3> QED
      BY <3>1, <3>2, <3>3
  <2>2. ASSUME NEW a \in Requests, request'[a].at = "allowed"
        PROVE  Cardinality(AllowedIn(request[a].key, request[a].windowStart)') =< Limit + Burst
    <3>1. CASE request'[a].key = k /\ request'[a].windowStart = s
      <4>1. ASSUME NEW x, NEW y, x = k, y = s, x = request'[a].key, y = request'[a].windowStart
            PROVE  Cardinality(AllowedIn(request[a].key, request[a].windowStart)') = e.count + 1
        <5>1. AllowedIn(request[a].key, request[a].windowStart)' = AllowedIn(x, y)'
          BY <4>1 DEF AllowedIn
        <5> QED
          BY <1>16, <4>1, <5>1
      <4> QED
        BY <1>15, <3>1, <4>1
    <3>2. CASE ~(request'[a].key = k /\ request'[a].windowStart = s)
      <4>1. a # r
        BY <1>6, <3>2
      <4>2. request'[a] = request[a]
        BY <1>5, <4>1
      <4>3. AllowedIn(request[a].key, request[a].windowStart)'
            = AllowedIn(request[a].key, request[a].windowStart)
        BY <1>14, <3>2, <4>2
      <4> QED
        BY <2>2, <4>2, <4>3 DEF LimiterInv, WindowsDoNotOverlap
    <3> QED
      BY <3>1, <3>2
  <2> QED
    BY <2>1, <2>2 DEF WindowsDoNotOverlap
<1>22. RefusedOverLimit'
  <2>1. ASSUME NEW p \in Requests, request'[p].at = "refused"
        PROVE  Cardinality({x \in AllowedIn(request[p].key, request[p].windowStart)' :
                              request'[x].now > request'[p].now - Window - MaxDelay})
               >= Limit + Burst
    <3>1. p # r
      BY <1>6, <2>1
    <3>2. request'[p] = request[p]
      BY <1>5, <3>1
    <3>3. request[p].at = "refused"
      BY <2>1, <3>2
    <3> QED
      BY <1>1, <1>5, <3>1, <3>3, StillUsedUp
  <2> QED
    BY <2>1 DEF RefusedOverLimit
<1> QED
  BY <1>17, <1>18, <1>19, <1>20, <1>21, <1>22 DEF LimiterInv

-----------------------------------------------------------------------------
(* Theorems *)

\* The invariant of the limiter: its entries count what was allowed.
THEOREM LimiterInvariant == LimiterSpec => []LimiterInv
<1>1. LimiterInit => LimiterInv
  BY LimiterStart
<1>2. LimiterInv /\ [LimiterNext]_vars => LimiterInv'
  <2> SUFFICES ASSUME LimiterInv, [LimiterNext]_vars PROVE LimiterInv'
    OBVIOUS
  <2>1. CASE Tick
    BY <2>1, TickStep
  <2>2. ASSUME NEW r \in Requests, ReadClock(r) \/ Allow(r) \/ Refuse(r)
        PROVE  LimiterInv'
    BY <2>2, ReadStep, AllowStep, RefuseStep
  <2>3. CASE UNCHANGED vars
    BY <2>3
    DEF vars, LimiterInv, LimiterTypeOK, ReadingsAreFresh, EntriesCount, DroppedIsOver,
        WindowsDoNotOverlap, RefusedOverLimit, AllowedIn
  <2> QED
    BY <2>1, <2>2, <2>3 DEF LimiterNext
<1> QED
  BY <1>1, <1>2, PTL DEF LimiterSpec

\* Two windows of a key never overlap, and no window admits more than the limit
\* and the burst.
THEOREM WindowsStayApart == LimiterSpec => []WindowsDoNotOverlap
BY LimiterInvariant, PTL DEF LimiterInv

\* Nobody is refused before the limit and the burst are used up.
THEOREM RefusalsAreEarned == LimiterSpec => []RefusedOverLimit
BY LimiterInvariant, PTL DEF LimiterInv

\* Of three windows of a key, two are more than a window and a delay apart.
LEMMA TwoWindows ==
  ASSUME LimiterInv, NEW k \in Keys, NEW from \in Nat
  PROVE  Cardinality(AllowedBetween(k, from, from + Window - MaxDelay - 1))
           =< 2 * (Limit + Burst)
<1> DEFINE A == AllowedBetween(k, from, from + Window - MaxDelay - 1)
<1>1. ASSUME NEW p \in A
      PROVE  /\ p \in Requests /\ request[p].at = "allowed" /\ request[p].key = k
             /\ request[p].windowStart \in Nat
             /\ from < request[p].windowStart + Window
             /\ request[p].windowStart < from + Window
  <2>1. /\ p \in Requests /\ request[p].at = "allowed" /\ request[p].key = k
        /\ request[p].now \in from..(from + Window - MaxDelay - 1)
    BY DEF AllowedBetween
  <2>2. /\ request[p].windowStart \in Nat
        /\ request[p].windowStart =< request[p].now + MaxDelay
        /\ request[p].now < request[p].windowStart + Window
    BY <2>1 DEF LimiterInv, ReadingsAreFresh
  <2> QED
    BY <2>1, <2>2, LimiterAssumption
<1>2. ASSUME NEW p \in A, NEW x \in A, request[p].windowStart < request[x].windowStart
      PROVE  request[p].windowStart + Window =< request[x].windowStart
  BY <1>1, <1>2 DEF LimiterInv, WindowsDoNotOverlap
<1>3. ASSUME NEW p \in A
      PROVE  /\ p \in AllowedIn(k, request[p].windowStart)
             /\ IsFiniteSet(AllowedIn(k, request[p].windowStart))
             /\ Cardinality(AllowedIn(k, request[p].windowStart)) \in Nat
             /\ Cardinality(AllowedIn(k, request[p].windowStart)) =< Limit + Burst
  <2>1. /\ p \in Requests /\ request[p].at = "allowed" /\ request[p].key = k
    BY <1>1
  <2>2. p \in AllowedIn(k, request[p].windowStart)
    BY <2>1 DEF AllowedIn
  <2> QED
    BY <2>1, <2>2, AllowedAreFinite DEF LimiterInv, WindowsDoNotOverlap
<1> HIDE DEF A
<1>4. ASSUME A = {}
      PROVE  Cardinality(A) =< 2 * (Limit + Burst)
  BY <1>4, FS_EmptySet, LimiterAssumption
<1>5. ASSUME NEW p \in A, NEW x \in A,
             \A y \in A : request[y].windowStart \in
                            {request[p].windowStart, request[x].windowStart}
      PROVE  Cardinality(A) =< 2 * (Limit + Burst)
  <2> DEFINE P == AllowedIn(k, request[p].windowStart)
             X == AllowedIn(k, request[x].windowStart)
  <2>1. A \subseteq P \cup X
    BY <1>3, <1>5
  <2>2. /\ IsFiniteSet(P) /\ Cardinality(P) \in Nat /\ Cardinality(P) =< Limit + Burst
        /\ IsFiniteSet(X) /\ Cardinality(X) \in Nat /\ Cardinality(X) =< Limit + Burst
    BY <1>3
  <2> HIDE DEF P, X
  <2>3. IsFiniteSet(P \cup X) /\ IsFiniteSet(P \cap X)
    BY <2>2, FS_Union, FS_Intersection
  <2>4. Cardinality(P \cup X) = Cardinality(P) + Cardinality(X) - Cardinality(P \cap X)
    BY <2>2, FS_Union
  <2>5. Cardinality(P \cap X) \in Nat /\ Cardinality(P \cup X) \in Nat
    BY <2>3, FS_CardinalityType
  <2>6. Cardinality(A) =< Cardinality(P \cup X) /\ Cardinality(A) \in Nat
    BY <2>1, <2>3, FS_Subset, FS_CardinalityType
  <2> QED
    BY <2>2, <2>4, <2>5, <2>6, LimiterAssumption
<1>6. ASSUME A # {}
      PROVE  Cardinality(A) =< 2 * (Limit + Burst)
  <2>1. PICK p \in A : TRUE
    BY <1>6
  <2>2. CASE \A y \in A : request[y].windowStart = request[p].windowStart
    BY <1>5, <2>1, <2>2
  <2>3. CASE \E x \in A : request[x].windowStart # request[p].windowStart
    <3>1. PICK x \in A : request[x].windowStart # request[p].windowStart
      BY <2>3
    <3>2. ASSUME NEW y \in A, request[y].windowStart # request[p].windowStart,
                 request[y].windowStart # request[x].windowStart
          PROVE  FALSE
      BY <1>1, <1>2, <3>1, <3>2, LimiterAssumption
    <3>3. \A y \in A :
            request[y].windowStart \in {request[p].windowStart, request[x].windowStart}
      BY <3>2
    <3> QED
      BY <1>5, <2>1, <3>1, <3>3
  <2> QED
    BY <2>2, <2>3
<1> QED
  BY <1>4, <1>6 DEF A

\* In no stretch of time shorter than a window, less the delay, are more
\* requests of a key allowed than two windows admit.
THEOREM AtMostTwice == LimiterSpec => []AtMostTwoWindows
<1>1. LimiterInv => AtMostTwoWindows
  <2> SUFFICES ASSUME LimiterInv, NEW k \in Keys, NEW r \in Requests
               PROVE  LET from == request[r].now
                      IN  Cardinality(AllowedBetween(k, from, from + Window - MaxDelay - 1))
                            =< 2 * (Limit + Burst)
    BY DEF AtMostTwoWindows
  <2>1. request[r].now \in Nat
    BY DEF LimiterInv, LimiterTypeOK, LimiterRequests
  <2> QED
    BY <2>1, TwoWindows
<1> QED
  BY <1>1, LimiterInvariant, PTL
=============================================================================
