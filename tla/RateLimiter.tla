---------------------------- MODULE RateLimiter ----------------------------
(***************************************************************************)
(* The fixed-window limiter of requests.  A request reads the clock before *)
(* it takes the limiter's mutex, so that a reading may be older than what  *)
(* others have left in the table when it is used; and the table forgets    *)
(* entries when it is full.                                                *)
(***************************************************************************)
EXTENDS Integers, FiniteSets

CONSTANTS
  Keys,        \* method, path and client address of a request
  Requests,    \* processes, each of which serves one request
  Limit,       \* RATE_LIMIT_RPM
  Burst,       \* RATE_LIMIT_BURST
  Window,      \* time.Minute, in ticks of the clock
  MaxEntries,  \* entries the table holds before it is cleaned (5000)
  MaxDelay     \* ticks between time.Now and the mutex, at most

\* A limit of 0 is no limiter, and a burst below 1 becomes 1.  Requests get the
\* mutex within the window: all that is done with it held is a few map accesses.
ASSUME LimiterAssumption ==
  /\ Limit \in Nat \ {0} /\ Burst \in Nat \ {0} /\ Window \in Nat \ {0}
  /\ MaxEntries \in Nat
  /\ MaxDelay \in Nat /\ MaxDelay =< Window
  /\ IsFiniteSet(Requests)

VARIABLES
  clock,
  entries,  \* the table; a key that is not in it has the zero entry
  request   \* the request each process serves

vars == <<clock, entries, request>>

\* time.Time{}
Zero == -1
ZeroEntry == [windowStart |-> Zero, count |-> 0]

Entries == [windowStart : Nat \cup {Zero}, count : Nat]

\* now: the clock as the request has read it.  windowStart: history, the window
\* that it was counted in or refused for.
LimiterRequests ==
  [at : {"idle", "read", "allowed", "refused"}, key : Keys, now : Nat,
   windowStart : Nat \cup {Zero}]

LimiterInit ==
  /\ clock = 0
  /\ entries = [k \in Keys |-> ZeroEntry]
  /\ request \in [Requests -> [at : {"idle"}, key : Keys, now : {0}, windowStart : {Zero}]]

-----------------------------------------------------------------------------

Tick ==
  /\ \A r \in Requests : request[r].at = "read" => clock - request[r].now < MaxDelay
  /\ clock' = clock + 1
  /\ UNCHANGED <<entries, request>>

\* rateLimitMiddleware calls time.Now().
ReadClock(r) ==
  /\ request[r].at = "idle"
  /\ request' = [request EXCEPT ![r].at = "read", ![r].now = clock]
  /\ UNCHANGED <<clock, entries>>

\* Mutant: a refused request begins the window anew.
RenewedOnRefusal(entry, now) ==
  IF entry.windowStart = Zero \/ now - entry.windowStart >= Window
  THEN [windowStart |-> now, count |-> 0]
  ELSE IF entry.count >= Limit + Burst
       THEN [windowStart |-> now, count |-> entry.count]
       ELSE entry

\* The entry of a key, in the window that a request at time now is counted in.
Renewed(entry, now) ==
  IF entry.windowStart = Zero \/ now - entry.windowStart >= Window
  THEN [windowStart |-> now, count |-> 0]
  ELSE entry

InTable(table) == {k \in Keys : table[k].windowStart # Zero}

\* Mutant: an entry is dropped when its window is over.
CleanedAfterWindow(table, now) ==
  LET over(k) == now - table[k].windowStart >= Window
  IN  IF Cardinality(InTable(table)) > MaxEntries
      THEN [k \in Keys |-> IF over(k) THEN ZeroEntry ELSE table[k]]
      ELSE table

\* Mutant: a full table is emptied.
CleanedAltogether(table, now) ==
  IF Cardinality(InTable(table)) > MaxEntries THEN [k \in Keys |-> ZeroEntry] ELSE table

\* A table with too many entries loses those whose window has been over for as
\* long as it lasted.
Cleaned(table, now) ==
  LET old(k) == table[k].windowStart # Zero /\ now - table[k].windowStart >= 2 * Window
  IN  IF Cardinality(InTable(table)) > MaxEntries
      THEN [k \in Keys |-> IF old(k) THEN ZeroEntry ELSE table[k]]
      ELSE table

\* allow, of a request that is counted: all of it with the mutex held.
Allow(r) ==
  LET q == request[r]
      entry == Renewed(entries[q.key], q.now)
      counted == [entry EXCEPT !.count = @ + 1]
  IN  /\ q.at = "read"
      /\ entry.count < Limit + Burst
      /\ entries' = Cleaned([entries EXCEPT ![q.key] = counted], q.now)
      /\ request' = [request EXCEPT ![r].at = "allowed", ![r].windowStart = entry.windowStart]
      /\ UNCHANGED clock

\* allow, of a request that is one too many.
Refuse(r) ==
  LET q == request[r]
      entry == Renewed(entries[q.key], q.now)
  IN  /\ q.at = "read"
      /\ entry.count >= Limit + Burst
      /\ entries' = [entries EXCEPT ![q.key] = entry]
      /\ request' = [request EXCEPT ![r].at = "refused", ![r].windowStart = entry.windowStart]
      /\ UNCHANGED clock

LimiterNext == Tick \/ \E r \in Requests : ReadClock(r) \/ Allow(r) \/ Refuse(r)

LimiterSpec == LimiterInit /\ [][LimiterNext]_vars

-----------------------------------------------------------------------------
(* Properties *)

\* The requests of a key that were allowed in the window that began at s.
AllowedIn(k, s) ==
  {r \in Requests : request[r].at = "allowed" /\ request[r].key = k
                    /\ request[r].windowStart = s}

\* Two windows of a key do not overlap, and each admits limit+burst requests at
\* most, although entries are dropped while requests that have read the clock
\* before are still waiting for the mutex.
WindowsDoNotOverlap ==
  \A r, q \in Requests :
    LET a == request[r]
        b == request[q]
    IN  a.at = "allowed" /\ b.at = "allowed" /\ a.key = b.key =>
          /\ a.windowStart < b.windowStart => a.windowStart + Window =< b.windowStart
          /\ Cardinality(AllowedIn(a.key, a.windowStart)) =< Limit + Burst

\* The requests of a key that were allowed with the clock between two times.
AllowedBetween(k, from, to) ==
  {r \in Requests : request[r].at = "allowed" /\ request[r].key = k
                    /\ request[r].now \in from..to}

\* In no stretch of time shorter than a window, less the delay of the mutex, are
\* more requests of a key allowed than two windows admit: the worst is the end
\* of one window and the beginning of the next.
AtMostTwoWindows ==
  \A k \in Keys : \A r \in Requests :
    request[r].at = "allowed" =>
      LET from == request[r].now
      IN  Cardinality(AllowedBetween(k, from, from + Window - MaxDelay - 1))
            =< 2 * (Limit + Burst)

\* A request is refused only if the limit and the burst were used up for its key
\* less than a window ago, but for the delay; neither what it tries itself
\* while it is refused nor the requests of other keys count.
RefusedOverLimit ==
  \A r \in Requests :
    LET q == request[r]
    IN  q.at = "refused" =>
          Cardinality({p \in AllowedIn(q.key, q.windowStart) :
                         request[p].now > q.now - Window - MaxDelay}) >= Limit + Burst

(* The invariant that makes these inductive *)

LimiterTypeOK ==
  /\ clock \in Nat
  /\ entries \in [Keys -> Entries]
  /\ request \in [Requests -> LimiterRequests]

\* A reading is not older than MaxDelay while it waits for the mutex, and a
\* window began at a reading, before the readings counted in it went stale.
ReadingsAreFresh ==
  \A r \in Requests :
    LET q == request[r]
    IN  /\ q.at # "idle" => q.now =< clock
        /\ q.at = "read" => clock =< q.now + MaxDelay
        /\ q.at \in {"allowed", "refused"} =>
             /\ q.windowStart \in Nat /\ q.windowStart =< clock
             /\ q.windowStart =< q.now + MaxDelay
             /\ q.now < q.windowStart + Window

\* An entry counts the requests allowed in its window, which is the last.
EntriesCount ==
  \A k \in Keys :
    LET e == entries[k]
    IN  e.windowStart # Zero =>
          /\ e.windowStart =< clock /\ e.count =< Limit + Burst
          /\ e.count = Cardinality(AllowedIn(k, e.windowStart))
          /\ \A r \in Requests :
               request[r].at = "allowed" /\ request[r].key = k =>
                 \/ request[r].windowStart = e.windowStart
                 \/ request[r].windowStart + Window =< e.windowStart

\* The windows of a key that is not in the table have been over for a window.
DroppedIsOver ==
  \A r \in Requests :
    LET q == request[r]
    IN  q.at = "allowed" /\ entries[q.key].windowStart = Zero =>
          q.windowStart + 2 * Window =< clock

LimiterInv ==
  /\ LimiterTypeOK
  /\ ReadingsAreFresh
  /\ EntriesCount
  /\ DroppedIsOver
  /\ WindowsDoNotOverlap
  /\ RefusedOverLimit
=============================================================================
