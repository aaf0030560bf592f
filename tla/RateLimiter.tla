----------------------------- MODULE RateLimiter -----------------------------
(***************************************************************************)
(* RateLimiter of dashboard/security.py, which guards /api/metrics/* per   *)
(* client address (_guard_api of dashboard/api.py).  All its callers run   *)
(* on the event loop and check() awaits nothing, so a check is one step;   *)
(* its clock does not run backwards.  Time is in ticks, TicksPerSecond of  *)
(* them to a second, because a client is told whole seconds.               *)
(***************************************************************************)
EXTENDS Integers, Sequences

CONSTANTS
  Clients,         \* the addresses
  Limit,           \* limit, at least 1
  WindowSeconds,   \* window_seconds, at least 1
  TicksPerSecond,  \* how fine the clock is
  Horizon          \* bound: the clock of a run stops here

ASSUME LimiterAssumption ==
  /\ Limit \in Nat \ {0}
  /\ WindowSeconds \in Nat \ {0}
  /\ TicksPerSecond \in Nat \ {0}
  /\ Horizon \in Nat

VARIABLES
  now,      \* time.time()
  hits,     \* _hits: for each client, the hits of its window, oldest first
  admitted, \* history: for each client, when it was let in since the last reset
  advised   \* history: when a client that was turned away last was told to come back

vars == <<now, hits, admitted, advised>>

Never == -1
Window == WindowSeconds * TicksPerSecond

\* Variant: a hit exactly a window old is dropped.
DropsMore(s, t, n) ==
  /\ \A i \in 1..n : s[i] <= t - Window
  /\ n < Len(s) => s[n + 1] > t - Window

\* "Drop entries outside the current window": of the hits s, a check at t drops the
\* first n, up to one that is inside the window.
Drops(s, t, n) ==
  /\ \A i \in 1..n : s[i] < t - Window
  /\ n < Len(s) => s[n + 1] >= t - Window

Rest(s, n) == SubSeq(s, n + 1, Len(s))

\* retry_after: what is left of the oldest hit's stay, in whole seconds.
RetryAfter(s, t) ==
  LET left == (s[1] + Window - t) \div TicksPerSecond
  IN IF left > 1 THEN left ELSE 1

Init ==
  /\ now = 0
  /\ hits = [c \in Clients |-> <<>>]
  /\ admitted = [c \in Clients |-> <<>>]
  /\ advised = [c \in Clients |-> Never]

\* Variant: the limit is off by one.
AdmitOneMore(c) ==
  \E n \in 0..Len(hits[c]) :
    LET bucket == Rest(hits[c], n)
    IN /\ Drops(hits[c], now, n)
       /\ Len(bucket) <= Limit
       /\ hits' = [hits EXCEPT ![c] = Append(bucket, now)]
       /\ admitted' = [admitted EXCEPT ![c] = Append(@, now)]
       /\ advised' = [advised EXCEPT ![c] = Never]
       /\ UNCHANGED now

\* check() lets the client in, and records the hit.
Admit(c) ==
  \E n \in 0..Len(hits[c]) :
    LET bucket == Rest(hits[c], n)
    IN /\ Drops(hits[c], now, n)
       /\ Len(bucket) < Limit
       /\ hits' = [hits EXCEPT ![c] = Append(bucket, now)]
       /\ admitted' = [admitted EXCEPT ![c] = Append(@, now)]
       /\ advised' = [advised EXCEPT ![c] = Never]
       /\ UNCHANGED now

\* Variant: a check that is turned away counts as a hit as well.
RejectAndCount(c) ==
  \E n \in 0..Len(hits[c]) :
    LET bucket == Rest(hits[c], n)
    IN /\ Drops(hits[c], now, n)
       /\ Len(bucket) >= Limit
       /\ hits' = [hits EXCEPT ![c] = Append(bucket, now)]
       /\ advised' = [advised EXCEPT ![c] = now + RetryAfter(bucket, now) * TicksPerSecond]
       /\ UNCHANGED <<now, admitted>>

\* check() turns the client away, with a Retry-After.
Reject(c) ==
  \E n \in 0..Len(hits[c]) :
    LET bucket == Rest(hits[c], n)
    IN /\ Drops(hits[c], now, n)
       /\ Len(bucket) >= Limit
       /\ hits' = [hits EXCEPT ![c] = bucket]
       /\ advised' = [advised EXCEPT ![c] = now + RetryAfter(bucket, now) * TicksPerSecond]
       /\ UNCHANGED <<now, admitted>>

\* reset(): every bucket is forgotten.
Reset ==
  /\ hits' = [c \in Clients |-> <<>>]
  /\ admitted' = [c \in Clients |-> <<>>]
  /\ advised' = [c \in Clients |-> Never]
  /\ UNCHANGED now

Tick ==
  /\ now < Horizon
  /\ now' = now + 1
  /\ UNCHANGED <<hits, admitted, advised>>

Next == (\E c \in Clients : Admit(c) \/ Reject(c)) \/ Reset \/ Tick

Spec == Init /\ [][Next]_vars

-----------------------------------------------------------------------------
(* Properties.                                                             *)

\* Every variable has its type.
TypeOK ==
  /\ now \in Nat
  /\ hits \in [Clients -> Seq(Nat)]
  /\ \A c \in Clients : Len(hits[c]) <= Limit
  /\ admitted \in [Clients -> Seq(Nat)]
  /\ advised \in [Clients -> Nat \union {Never}]

\* No window, wherever it starts, holds more than Limit admitted requests of a client:
\* of any Limit + 1 in a row the last comes more than a window after the first.  The
\* limiter drops old hits lazily, from the front, and only at the client's own checks.
AtMostLimitPerWindow ==
  \A c \in Clients : \A i \in 1..(Len(admitted[c]) - Limit) :
    admitted[c][i + Limit] > admitted[c][i] + Window

\* A client is turned away only when it was itself let in Limit times in the window
\* that ends now: neither other clients nor its rejected attempts count against it.
RejectedOnlyAtLimit ==
  [][\A c \in Clients :
       advised'[c] \notin {advised[c], Never} =>
         /\ Len(admitted[c]) >= Limit
         /\ admitted[c][Len(admitted[c]) - Limit + 1] >= now - Window]_vars
=============================================================================
