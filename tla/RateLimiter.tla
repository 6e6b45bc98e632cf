---------------------------- MODULE RateLimiter ----------------------------
(***************************************************************************)
(* internal/llm/ratelimit.go: a fixed-window limiter shared by the         *)
(* goroutines that call providers.  A caller reads the clock before it     *)
(* takes the lock, so the time it decides by may be an old one.            *)
(***************************************************************************)
EXTENDS Integers

CONSTANTS
  Callers,     \* goroutines
  Scopes,      \* keys of the limiter, the provider routes
  Window,      \* length of a window in ticks
  MaxClock     \* bound on the clock

ASSUME WindowAssumption == Window \in Nat \ {0} /\ MaxClock \in Nat
ASSUME ScopesAssumption == Scopes # {}

VARIABLES
  limit,       \* requests per window of each scope, 0 for no limit
  clock,
  windows,     \* states of the limiter: start (-1 if zero) and count
  caller,      \* where a goroutine is in Wait, for which scope, what it read
  granted      \* per scope, how many waits have returned and since when

limiterVars == <<limit, clock, windows, caller, granted>>

NotWaiting(s) == [pc |-> "out", scope |-> s, read |-> 0, wake |-> 0]

\* SetLimit is called before the first request only.
LimiterInit(limits) ==
  /\ limit = limits
  /\ clock = 0
  /\ windows = [s \in Scopes |-> [start |-> -1, count |-> 0]]
  /\ caller = [c \in Callers |-> NotWaiting(CHOOSE s \in Scopes : TRUE)]
  /\ granted = [s \in Scopes |-> [first |-> -1, n |-> 0]]

\* The call of Wait and each further round of its loop read the clock.
EnterWait(c, s) ==
  /\ caller[c].pc = "out"
  /\ caller' = [caller EXCEPT ![c] =
       [pc |-> "read", scope |-> s, read |-> clock, wake |-> 0]]
  /\ UNCHANGED <<limit, clock, windows, granted>>

Grant(c, s, w) ==
  /\ windows' = [windows EXCEPT ![s] = w]
  /\ caller' = [caller EXCEPT ![c].pc = "granted"]
  /\ granted' = [granted EXCEPT ![s] =
       [first |-> IF @.n = 0 THEN w.start ELSE @.first, n |-> @.n + 1]]

\* Mutant: a new window begins one tick early.
Wait_Early(c) ==
  LET s == caller[c].scope
      now == caller[c].read
      w == IF \/ windows[s].start = -1 \/ now - windows[s].start >= Window - 1
           THEN [start |-> now, count |-> 0] ELSE windows[s]
  IN /\ caller[c].pc = "read"
     /\ \/ /\ limit[s] = 0
           /\ caller' = [caller EXCEPT ![c].pc = "granted"]
           /\ UNCHANGED <<windows, granted>>
        \/ limit[s] > w.count /\ Grant(c, s, [w EXCEPT !.count = @ + 1])
        \/ /\ limit[s] > 0 /\ w.count >= limit[s]
           /\ caller' = [caller EXCEPT ![c] =
                [@ EXCEPT !.pc = "sleep", !.wake = clock + w.start + Window - now]]
           /\ UNCHANGED <<windows, granted>>
     /\ UNCHANGED <<limit, clock>>

\* The section under the lock.  A window that is full is not saved.
Wait(c) ==
  LET s == caller[c].scope
      now == caller[c].read
      w == IF \/ windows[s].start = -1 \/ now - windows[s].start >= Window
           THEN [start |-> now, count |-> 0] ELSE windows[s]
  IN /\ caller[c].pc = "read"
     /\ \/ /\ limit[s] = 0
           /\ caller' = [caller EXCEPT ![c].pc = "granted"]
           /\ UNCHANGED <<windows, granted>>
        \/ limit[s] > w.count /\ Grant(c, s, [w EXCEPT !.count = @ + 1])
        \/ /\ limit[s] > 0 /\ w.count >= limit[s]
           /\ caller' = [caller EXCEPT ![c] =
                [@ EXCEPT !.pc = "sleep", !.wake = clock + w.start + Window - now]]
           /\ UNCHANGED <<windows, granted>>
     /\ UNCHANGED <<limit, clock>>

Wake(c) ==
  /\ caller[c].pc = "sleep"
  /\ clock >= caller[c].wake
  /\ caller' = [caller EXCEPT ![c].pc = "read", ![c].read = clock]
  /\ UNCHANGED <<limit, clock, windows, granted>>

LeaveWait(c) ==
  /\ caller[c].pc = "granted"
  /\ caller' = [caller EXCEPT ![c] = NotWaiting(caller[c].scope)]
  /\ UNCHANGED <<limit, clock, windows, granted>>

Tick ==
  /\ clock < MaxClock
  /\ clock' = clock + 1
  /\ UNCHANGED <<limit, windows, caller, granted>>

WaitStep(c) == Wait(c) \/ Wake(c) \/ LeaveWait(c)

-----------------------------------------------------------------------------
\* However long a goroutine is held up between reading the clock and taking
\* the lock, Wait has let at most one window's worth of requests through per
\* window that has begun since the first.
LimiterKeepsTheRate ==
  \A s \in Scopes :
    (limit[s] > 0 /\ granted[s].n > 0) =>
      granted[s].n <= limit[s] * (1 + (clock - granted[s].first) \div Window)
=============================================================================
