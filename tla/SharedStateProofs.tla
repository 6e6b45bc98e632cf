------------------------- MODULE SharedStateProofs -------------------------
(***************************************************************************)
(* What the reviews of several runs share.  The limiter on its own keeps   *)
(* its rate, for any number of goroutines and scopes, any window and any   *)
(* delay between a goroutine's look at the clock and the lock.  What       *)
(* operators decide about git identities lasts, for any number of runs, of *)
(* observations in each, and of resolutions, in any order.                 *)
(***************************************************************************)
EXTENDS RateLimiter, IdentityMappings, TLAPS

-----------------------------------------------------------------------------
(* The rate limiter                                                        *)

LimiterNext ==
  \/ \E c \in Callers : WaitStep(c) \/ \E s \in Scopes : EnterWait(c, s)
  \/ Tick

LimiterSpec ==
  /\ \E limits \in [Scopes -> Nat] : LimiterInit(limits)
  /\ [][LimiterNext]_limiterVars

Waits == [pc : {"out", "read", "sleep", "granted"},
          scope : Scopes, read : Nat, wake : Int]

LimiterTypeOK ==
  /\ limit \in [Scopes -> Nat]
  /\ clock \in Nat
  /\ windows \in [Scopes -> [start : Int, count : Nat]]
  /\ caller \in [Callers -> Waits]
  /\ granted \in [Scopes -> [first : Int, n : Nat]]

\* Nobody has read a time that has not come.
ReadsArePast == \A c \in Callers : caller[c].read <= clock

\* Some number k of whole windows fits between the first grant and the
\* beginning of the present window, and the grants fill k windows at most,
\* besides those counted in the present one.
Filled(s, k) ==
  /\ k * Window <= windows[s].start - granted[s].first
  /\ granted[s].n <= limit[s] * k + windows[s].count

WindowsAreFull ==
  \A s \in Scopes : limit[s] > 0 =>
    \/ windows[s].start = -1 /\ granted[s].n = 0
    \/ /\ windows[s].start \in 0..clock
       /\ windows[s].count <= limit[s]
       /\ granted[s].n > 0
       /\ \E k \in Nat : Filled(s, k)

LimiterInv == LimiterTypeOK /\ ReadsArePast /\ WindowsAreFull

-----------------------------------------------------------------------------
(* Arithmetic                                                              *)

\* One more window fits.
LEMMA NextWindow ==
  ASSUME NEW k \in Nat, NEW W \in Nat, NEW L \in Nat
  PROVE  (k + 1) * W = k * W + W /\ L * (k + 1) = L * k + L
OBVIOUS

\* Windows that fit are windows that have begun.
LEMMA WholeWindows ==
  ASSUME NEW k \in Nat, NEW W \in Nat \ {0}, NEW d \in Int, k * W <= d
  PROVE  k <= d \div W
OBVIOUS

\* More windows, more requests.
LEMMA MoreWindows ==
  ASSUME NEW L \in Nat, NEW j \in Int, NEW k \in Int, j <= k
  PROVE  L * j <= L * k
OBVIOUS

-----------------------------------------------------------------------------
(* Steps                                                                   *)

\* Steps that grant nothing.
LEMMA IdleStep ==
  ASSUME LimiterInv, UNCHANGED <<limit, windows, granted>>,
         clock' \in Nat, clock <= clock'
  PROVE  WindowsAreFull'
<1>1. clock \in Nat /\ \A s \in Scopes : windows[s].start \in Int
  BY Zenon DEF LimiterInv, LimiterTypeOK
<1>2. \A s \in Scopes : windows[s].start \in 0..clock => windows[s].start \in 0..clock'
  BY <1>1
<1> QED BY <1>2, Zenon DEF LimiterInv, WindowsAreFull, Filled

\* A grant counts in the present window, or in a new one that begins a whole
\* window after it.
LEMMA GrantStep ==
  ASSUME LimiterInv, NEW c \in Callers, UNCHANGED <<limit, clock>>,
         NEW s \in Scopes, NEW now \in Nat, now <= clock,
         NEW w \in [start : Int, count : Nat],
         \/ /\ windows[s].start = -1 \/ now - windows[s].start >= Window
            /\ w.start = now /\ w.count = 0
         \/ /\ windows[s].start # -1 /\ w = windows[s],
         limit[s] > w.count, Grant(c, s, [w EXCEPT !.count = @ + 1])
  PROVE  WindowsAreFull'
<1>0. /\ limit \in [Scopes -> Nat] /\ clock \in Nat /\ Window \in Nat \ {0}
      /\ windows \in [Scopes -> [start : Int, count : Nat]]
      /\ granted \in [Scopes -> [first : Int, n : Nat]]
  BY WindowAssumption, Zenon DEF LimiterInv, LimiterTypeOK
<1>1. /\ windows'[s].start = w.start /\ windows'[s].count = w.count + 1
      /\ granted'[s].n = granted[s].n + 1
      /\ granted'[s].first = IF granted[s].n = 0 THEN w.start ELSE granted[s].first
  BY <1>0, Zenon DEF Grant
<1>2. \A t \in Scopes : t # s => /\ windows'[t] = windows[t]
                               /\ granted'[t] = granted[t]
  BY <1>0, Zenon DEF Grant
<1>3. /\ limit[s] \in Nat /\ windows[s].start \in Int /\ windows[s].count \in Nat
      /\ granted[s].first \in Int /\ granted[s].n \in Nat
      /\ w.start \in Int /\ w.count \in Nat
  BY <1>0, Zenon
<1>4. /\ windows'[s].start \in 0..clock' /\ windows'[s].count <= limit'[s]
      /\ granted'[s].n > 0
  <2>1. windows[s].start = -1 \/ windows[s].start \in 0..clock
    BY <1>3 DEF LimiterInv, WindowsAreFull
  <2> QED BY <1>0, <1>1, <1>3, <2>1
<1>5. \E k \in Nat : Filled(s, k)'
  <2>1. CASE granted[s].n = 0
    <3>1. windows[s].start = -1
      BY <1>3, <2>1 DEF LimiterInv, WindowsAreFull
    <3>2. w.start = now /\ w.count = 0
      BY <3>1, Zenon
    <3>3. 0 * Window = 0 /\ limit[s] * 0 = 0
      BY <1>0, <1>3
    <3>4. Filled(s, 0)'
      BY <1>1, <1>3, <2>1, <3>2, <3>3 DEF Filled
    <3> QED BY <3>4, Zenon
  <2>2. CASE granted[s].n # 0
    <3>1. /\ windows[s].start \in 0..clock /\ windows[s].count <= limit[s]
          /\ \E k \in Nat : Filled(s, k)
      BY <1>3, <2>2 DEF LimiterInv, WindowsAreFull
    <3>2. PICK k \in Nat : Filled(s, k)
      BY <3>1, Zenon
    <3>3. /\ k * Window \in Int /\ limit[s] * k \in Int
          /\ k * Window <= windows[s].start - granted[s].first
          /\ granted[s].n <= limit[s] * k + windows[s].count
      BY <1>0, <1>3, <3>2 DEF Filled
    <3>4. CASE w = windows[s]
      <4>1. Filled(s, k)'
        BY <1>1, <1>3, <2>2, <3>3, <3>4, SMTT(30) DEF Filled
      <4> QED BY <4>1, Zenon
    <3>5. CASE /\ now - windows[s].start >= Window
               /\ w.start = now /\ w.count = 0
      <4>1. (k + 1) * Window = k * Window + Window
            /\ limit[s] * (k + 1) = limit[s] * k + limit[s]
        BY <1>0, <1>3, NextWindow, Zenon
      <4>2. (k + 1) * Window <= now - granted[s].first
        BY <1>0, <1>3, <3>3, <3>5, <4>1, SMTT(30)
      <4>3. granted[s].n + 1 <= limit[s] * (k + 1) + 1
        BY <1>3, <3>1, <3>3, <4>1, SMTT(30)
      <4>4. Filled(s, k + 1)'
        BY <1>1, <1>3, <2>2, <3>5, <4>2, <4>3, SMTT(30) DEF Filled
      <4>5. k + 1 \in Nat
        OBVIOUS
      <4> QED BY <4>4, <4>5, Zenon
    <3> QED BY <1>0, <3>1, <3>4, <3>5
  <2> QED BY <2>1, <2>2, Zenon
<1>6. ASSUME NEW t \in Scopes, t # s, limit'[t] > 0
      PROVE  \/ windows'[t].start = -1 /\ granted'[t].n = 0
             \/ /\ windows'[t].start \in 0..clock'
                /\ windows'[t].count <= limit'[t]
                /\ granted'[t].n > 0
                /\ \E k \in Nat : Filled(t, k)'
  BY <1>2, <1>6, Zenon DEF LimiterInv, WindowsAreFull, Filled
<1> QED BY <1>4, <1>5, <1>6, Zenon DEF WindowsAreFull

\* The invariant is inductive.
LEMMA LimiterStep ==
  ASSUME LimiterInv, [LimiterNext]_limiterVars
  PROVE  LimiterInv'
<1>0. /\ limit \in [Scopes -> Nat] /\ clock \in Nat /\ Window \in Nat \ {0}
      /\ windows \in [Scopes -> [start : Int, count : Nat]]
      /\ caller \in [Callers -> Waits]
      /\ granted \in [Scopes -> [first : Int, n : Nat]]
      /\ \A c \in Callers : /\ caller[c].read \in Nat /\ caller[c].read <= clock
                            /\ caller[c].scope \in Scopes
  BY WindowAssumption, Zenon DEF LimiterInv, LimiterTypeOK, ReadsArePast, Waits
<1>c. ASSUME NEW c \in Callers, NEW e \in Waits, caller' = [caller EXCEPT ![c] = e],
             e.read <= clock
      PROVE  /\ caller' \in [Callers -> Waits]
             /\ \A b \in Callers : caller'[b].read <= clock
  BY <1>0, <1>c, Zenon
<1>i. ASSUME UNCHANGED <<limit, windows, granted>>,
             clock' \in Nat, clock <= clock',
             caller' \in [Callers -> Waits],
             \A c \in Callers : caller'[c].read <= clock'
      PROVE  LimiterInv'
  <2>1. WindowsAreFull'
    BY <1>i, IdleStep, Zenon
  <2> QED BY <1>0, <1>i, <2>1, Zenon DEF LimiterInv, LimiterTypeOK, ReadsArePast
<1>1. ASSUME NEW c \in Callers, NEW s \in Scopes, EnterWait(c, s) PROVE LimiterInv'
  <2>1. /\ UNCHANGED <<limit, clock, windows, granted>>
        /\ caller' = [caller EXCEPT ![c] =
             [pc |-> "read", scope |-> s, read |-> clock, wake |-> 0]]
    BY <1>1, Zenon DEF EnterWait
  <2> DEFINE e == [pc |-> "read", scope |-> s, read |-> clock, wake |-> 0]
  <2>2. e \in Waits /\ e.read <= clock
    BY <1>0 DEF Waits
  <2> HIDE DEF e
  <2> QED BY <1>0, <1>c, <1>i, <2>1, <2>2, Zenon DEF e
<1>2. ASSUME NEW c \in Callers, Wake(c) PROVE LimiterInv'
  <2>1. /\ UNCHANGED <<limit, clock, windows, granted>>
        /\ caller' = [caller EXCEPT ![c].pc = "read", ![c].read = clock]
    BY <1>2, Zenon DEF Wake
  <2> DEFINE e == [caller[c] EXCEPT !.pc = "read", !.read = clock]
  <2>2. e \in Waits /\ e.read <= clock
    <3>1. caller[c] \in Waits /\ clock \in Nat
      BY <1>0, Zenon
    <3>2. e \in Waits
      BY <3>1, Zenon DEF Waits
    <3>3. e.read = clock
      BY <3>1, Zenon DEF Waits
    <3> QED BY <3>1, <3>2, <3>3
  <2>3. caller' = [caller EXCEPT ![c] = e]
    BY <1>0, <2>1, Zenon DEF Waits
  <2> HIDE DEF e
  <2> QED BY <1>0, <1>c, <1>i, <2>1, <2>2, <2>3
<1>3. ASSUME NEW c \in Callers, LeaveWait(c) PROVE LimiterInv'
  <2>1. /\ UNCHANGED <<limit, clock, windows, granted>>
        /\ caller' = [caller EXCEPT ![c] = NotWaiting(caller[c].scope)]
    BY <1>3, Zenon DEF LeaveWait
  <2>2. NotWaiting(caller[c].scope) \in Waits
    BY <1>0 DEF NotWaiting, Waits
  <2>3. NotWaiting(caller[c].scope).read <= clock
    BY <1>0 DEF NotWaiting
  <2> QED BY <1>0, <1>c, <1>i, <2>1, <2>2, <2>3, SMTT(30)
<1>4. CASE Tick
  <2>1. clock' = clock + 1 /\ UNCHANGED <<limit, windows, caller, granted>>
    BY <1>4, Zenon DEF Tick
  <2> QED BY <1>0, <1>i, <2>1
<1>5. ASSUME NEW c \in Callers, Wait(c) PROVE LimiterInv'
  <2> DEFINE s == caller[c].scope
             now == caller[c].read
             w == IF windows[s].start = -1 \/ now - windows[s].start >= Window
                  THEN [start |-> now, count |-> 0] ELSE windows[s]
  <2>1. s \in Scopes /\ now \in Nat /\ now <= clock
    BY <1>0, Zenon
  <2>2. w \in [start : Int, count : Nat]
    BY <1>0, <2>1
  <2>3. \/ /\ windows[s].start = -1 \/ now - windows[s].start >= Window
           /\ w.start = now /\ w.count = 0
        \/ windows[s].start # -1 /\ w = windows[s]
    BY Zenon
  <2>4. /\ UNCHANGED <<limit, clock>>
        /\ \/ /\ caller' = [caller EXCEPT ![c].pc = "granted"]
              /\ UNCHANGED <<windows, granted>>
           \/ limit[s] > w.count /\ Grant(c, s, [w EXCEPT !.count = @ + 1])
           \/ /\ caller' = [caller EXCEPT ![c] =
                   [@ EXCEPT !.pc = "sleep", !.wake = clock + w.start + Window - now]]
              /\ UNCHANGED <<windows, granted>>
    BY <1>5, Zenon DEF Wait
  <2> HIDE DEF s, now, w
  <2>g. ASSUME caller' = [caller EXCEPT ![c].pc = "granted"]
        PROVE  /\ caller' \in [Callers -> Waits]
               /\ \A b \in Callers : caller'[b].read <= clock
    <3> DEFINE e == [caller[c] EXCEPT !.pc = "granted"]
    <3>1. e \in Waits /\ e.read <= clock
      BY <1>0 DEF Waits
    <3>2. caller' = [caller EXCEPT ![c] = e]
      BY <1>0, <2>g, Zenon DEF Waits
    <3> HIDE DEF e
    <3> QED BY <1>c, <3>1, <3>2, Zenon
  <2>5. CASE /\ caller' = [caller EXCEPT ![c].pc = "granted"]
             /\ UNCHANGED <<windows, granted>>
    BY <1>0, <1>i, <2>g, <2>4, <2>5, SMTT(30)
  <2>6. CASE /\ caller' = [caller EXCEPT ![c] =
                 [@ EXCEPT !.pc = "sleep", !.wake = clock + w.start + Window - now]]
             /\ UNCHANGED <<windows, granted>>
    <3> DEFINE wake == clock + w.start + Window - now
               e == [caller[c] EXCEPT !.pc = "sleep", !.wake = wake]
    <3>1. wake \in Int
      BY <1>0, <2>1, <2>2
    <3> HIDE DEF wake
    <3>2. e \in Waits /\ e.read <= clock
      BY <1>0, <3>1, Zenon DEF Waits
    <3>3. caller' = [caller EXCEPT ![c] = e]
      BY <2>6, Zenon DEF wake
    <3> HIDE DEF e
    <3> QED BY <1>0, <1>c, <1>i, <2>4, <2>6, <3>2, <3>3, SMTT(30)
  <2>7. CASE limit[s] > w.count /\ Grant(c, s, [w EXCEPT !.count = @ + 1])
    <3>1. WindowsAreFull'
      BY <2>1, <2>2, <2>3, <2>4, <2>7, GrantStep, ZenonT(60)
    <3>2. caller' = [caller EXCEPT ![c].pc = "granted"]
      BY <2>7, Zenon DEF Grant
    <3>3. windows' \in [Scopes -> [start : Int, count : Nat]]
      <4>1. [w EXCEPT !.count = @ + 1] \in [start : Int, count : Nat]
        BY <2>2
      <4>2. windows' = [windows EXCEPT ![s] = [w EXCEPT !.count = @ + 1]]
        BY <2>7, Zenon DEF Grant
      <4> QED BY <1>0, <4>1, <4>2, Zenon
    <3>4. granted' \in [Scopes -> [first : Int, n : Nat]]
      BY <1>0, <2>1, <2>2, <2>7, SMTT(30) DEF Grant
    <3>5. LimiterTypeOK'
      BY <1>0, <2>g, <2>4, <3>2, <3>3, <3>4, ZenonT(60) DEF LimiterTypeOK
    <3>6. ReadsArePast'
      BY <1>0, <2>g, <2>4, <3>2, ZenonT(60) DEF ReadsArePast
    <3> QED BY <3>1, <3>5, <3>6, Zenon DEF LimiterInv
  <2> QED BY <2>4, <2>5, <2>6, <2>7, Zenon
<1>6. CASE UNCHANGED limiterVars
  BY <1>0, <1>6, <1>i DEF limiterVars
<1> QED BY <1>1, <1>2, <1>3, <1>4, <1>5, <1>6, Zenon DEF LimiterNext, WaitStep

\* However the goroutines interleave and however old the times are that they
\* decide by, Wait lets at most one window's worth of requests through per
\* window that has begun since the first.
THEOREM LimiterRate == LimiterSpec => []LimiterKeepsTheRate
<1>1. (\E limits \in [Scopes -> Nat] : LimiterInit(limits)) => LimiterInv
  <2> SUFFICES ASSUME NEW limits \in [Scopes -> Nat], LimiterInit(limits)
               PROVE  LimiterInv
    BY Zenon
  <2>1. (CHOOSE s \in Scopes : TRUE) \in Scopes
    BY ScopesAssumption, Zenon
  <2>2. LimiterTypeOK
    <3>1. NotWaiting(CHOOSE s \in Scopes : TRUE) \in Waits
      BY <2>1 DEF NotWaiting, Waits
    <3> QED BY <3>1 DEF LimiterInit, LimiterTypeOK
  <2>3. ReadsArePast
    <3>1. NotWaiting(CHOOSE s \in Scopes : TRUE).read = 0
      BY Zenon DEF NotWaiting
    <3>2. clock = 0 /\ \A c \in Callers : caller[c].read = 0
      BY <3>1, Zenon DEF LimiterInit
    <3>3. 0 <= 0
      OBVIOUS
    <3> QED BY <3>2, <3>3, Zenon DEF ReadsArePast
  <2>4. WindowsAreFull
    BY Zenon DEF LimiterInit, WindowsAreFull
  <2> QED BY <2>2, <2>3, <2>4, Zenon DEF LimiterInv
<1>2. LimiterInv /\ [LimiterNext]_limiterVars => LimiterInv'
  BY LimiterStep, Zenon
<1>3. LimiterInv => LimiterKeepsTheRate
  <2> SUFFICES ASSUME LimiterInv, NEW s \in Scopes,
                      limit[s] > 0, granted[s].n > 0
               PROVE  granted[s].n <=
                        limit[s] * (1 + (clock - granted[s].first) \div Window)
    BY Zenon DEF LimiterKeepsTheRate
  <2> DEFINE d == clock - granted[s].first
  <2>1. /\ limit[s] \in Nat /\ clock \in Nat /\ Window \in Nat \ {0}
        /\ windows[s].start \in Int /\ windows[s].count \in Nat
        /\ granted[s].first \in Int /\ granted[s].n \in Nat
    BY WindowAssumption, Zenon DEF LimiterInv, LimiterTypeOK
  <2>2. windows[s].start \in 0..clock /\ windows[s].count <= limit[s]
    BY <2>1 DEF LimiterInv, WindowsAreFull
  <2>3. PICK k \in Nat : Filled(s, k)
    BY <2>1 DEF LimiterInv, WindowsAreFull
  <2>4. /\ k * Window \in Int /\ limit[s] * k \in Int
        /\ k * Window <= windows[s].start - granted[s].first
        /\ granted[s].n <= limit[s] * k + windows[s].count
    BY <2>1, <2>3 DEF Filled
  <2>5. d \in Int /\ k * Window <= d
    BY <2>1, <2>2, <2>4
  <2> HIDE DEF d
  <2>6. k <= d \div Window /\ d \div Window \in Int
    <3>1. k <= d \div Window
      BY <2>1, <2>5, WholeWindows, Zenon
    <3>2. d \div Window \in Int
      BY <2>1, <2>5
    <3> QED BY <3>1, <3>2, Zenon
  <2>7. k + 1 <= 1 + d \div Window /\ k + 1 \in Int /\ 1 + d \div Window \in Int
    BY <2>6
  <2>8. limit[s] * (k + 1) <= limit[s] * (1 + d \div Window)
    BY <2>1, <2>7, MoreWindows, Zenon
  <2>9. limit[s] * (k + 1) = limit[s] * k + limit[s]
    BY <2>1, NextWindow, Zenon
  <2>10. granted[s].n <= limit[s] * (k + 1)
    BY <2>1, <2>2, <2>4, <2>9
  <2>11. /\ limit[s] * (k + 1) \in Int
         /\ limit[s] * (1 + d \div Window) \in Int
    BY <2>1, <2>7
  <2> QED BY <2>1, <2>8, <2>10, <2>11 DEF d
<1> QED BY <1>1, <1>2, <1>3, PTL DEF LimiterSpec

-----------------------------------------------------------------------------
(* Identity mappings                                                       *)

CONSTANT RunIds   \* ids of runs

\* The empty string is named where the provers have to recognise it.
IdentityKeys == STRING \X STRING

IdentityRows ==
  [key : IdentityKeys, role : STRING, user : STRING, id : STRING, run : RunIds,
   source : {"observed", "manual"}, by : STRING \cup {""},
   status : {"unresolved", "auto", "manual"}, confidence : Nat]

StatusFits(row) == row.status = IF row.user = "" THEN "unresolved" ELSE "auto"

Observations == {o \in IdentityRows : StatusFits(o)}

SameUser(a, b) ==
  a.user = b.user /\ a.id = b.id /\ a.status = b.status /\ a.source = b.source

IdentityInit ==
  /\ mappings = <<>> /\ resolutions = <<>>
  /\ pending \in [RunIds -> Seq(Observations)]

IdentityNext ==
  \/ \E r \in RunIds : Observe(r)
  \/ \E k \in DOMAIN mappings, user, id, actor \in STRING :
       ResolveIdentityMapping(k, user, id, actor)

IdentitySpec == IdentityInit /\ [][IdentityNext]_identityVars

IdentityTypeOK ==
  /\ DOMAIN mappings \subseteq IdentityKeys
  /\ mappings \in [DOMAIN mappings -> IdentityRows]
  /\ resolutions \in [DOMAIN resolutions -> [user : STRING, id : STRING]]
  /\ DOMAIN resolutions \subseteq DOMAIN mappings
  /\ pending \in [RunIds -> Seq(Observations)]

IdentityInv == IdentityTypeOK /\ ResolvedIdentitiesStay

-----------------------------------------------------------------------------
(* The statements                                                          *)

\* GREATEST of two numbers is a number.
LEMMA GreatestIsNat ==
  ASSUME NEW a \in Nat, NEW b \in Nat
  PROVE  Max({a, b}) \in Nat
<1>1. \E x \in {a, b} : \A y \in {a, b} : x >= y
  OBVIOUS
<1>2. Max({a, b}) \in {a, b}
  BY <1>1, Zenon DEF Max
<1> QED
  BY <1>2, Zenon

\* What a run makes of a commit is a row whose status says whether a user is
\* known (persistIdentityMappingsFromInput).
LEMMA ObservedStatusFits ==
  ASSUME NEW run \in RunIds, NEW role \in STRING,
         NEW author \in [email : STRING, username : STRING, name : STRING,
                         id : STRING],
         NEW opener \in [email : STRING, username : STRING, name : STRING,
                         id : STRING],
         gitIdentityKey(author) \in IdentityKeys
  PROVE  observation(run, role, author, opener) \in Observations
<1> DEFINE o == observation(run, role, author, opener)
           user == IF author.username # "" THEN author.username ELSE opener.username
           id == IF author.id # "" THEN author.id ELSE opener.id
           status == IF user = "" THEN "unresolved" ELSE "auto"
           confidence == IF user = "" THEN 55 ELSE IF author.email # "" THEN 94 ELSE 72
<1>1. o = [key |-> gitIdentityKey(author), role |-> role, user |-> user, id |-> id,
           run |-> run, source |-> "observed", by |-> "", status |-> status,
           confidence |-> confidence]
  BY Zenon DEF observation
<1>2. user \in STRING /\ id \in STRING
  BY Zenon
<1>3. status \in {"unresolved", "auto", "manual"}
  BY Zenon
<1> HIDE DEF o, user, id
<1>4. confidence \in Nat
  BY Zenon
<1> HIDE DEF confidence
<1>5. o.status = status /\ o.user = user
  BY <1>1, Zenon
<1>6. StatusFits(o)
  BY <1>5, Zenon DEF StatusFits
<1> HIDE DEF status
<1>7. o \in IdentityRows
  BY <1>1, <1>2, <1>3, <1>4, Zenon DEF IdentityRows
<1> QED
  BY <1>6, <1>7, Zenon DEF Observations, o

\* From rows with the keys D, and an observation: no other key is added, the
\* other rows are left alone, a manual row keeps its user, and any other row
\* says whether a user is known.
Upserted(new, rows, D, o) ==
  /\ new \in [D \cup {o.key} -> IdentityRows]
  /\ \A k \in D \ {o.key} : new[k] = rows[k]
  /\ IF o.key \in D /\ rows[o.key].status = "manual"
     THEN SameUser(new[o.key], rows[o.key])
     ELSE StatusFits(new[o.key])

\* UpsertIdentityMapping does that.
LEMMA UpsertKeepsManual ==
  ASSUME NEW D \in SUBSET IdentityKeys, NEW rows \in [D -> IdentityRows],
         NEW o \in Observations
  PROVE  Upserted(UpsertIdentityMapping(rows, o), rows, D, o)
<1> DEFINE new == UpsertIdentityMapping(rows, o)
           Touched(row) == [row EXCEPT !.role = o.role, !.run = o.run,
                                       !.confidence = Max({@, o.confidence})]
           Adopted(row) == [Touched(row) EXCEPT !.user = o.user, !.id = o.id,
                                                !.source = o.source,
                                                !.status = o.status]
<1>1. o \in IdentityRows /\ StatusFits(o) /\ DOMAIN rows = D
  BY Zenon DEF Observations
<1>2. ASSUME NEW row \in IdentityRows
      PROVE  /\ Touched(row) \in IdentityRows
             /\ SameUser(Touched(row), row)
  <2>1. Max({row.confidence, o.confidence}) \in Nat
    BY <1>1, GreatestIsNat, Zenon DEF IdentityRows
  <2> QED
    BY <1>1, <2>1, Zenon DEF IdentityRows, SameUser
<1>3. ASSUME NEW row \in IdentityRows
      PROVE  Adopted(row) \in IdentityRows /\ StatusFits(Adopted(row))
  <2>1. Touched(row) \in IdentityRows
    BY <1>2, Zenon
  <2> HIDE DEF Touched
  <2> QED
    BY <1>1, <2>1, Zenon DEF IdentityRows, StatusFits
<1>4. new = [k \in D \cup {o.key} |->
               IF k # o.key THEN rows[k]
               ELSE IF k \notin D THEN o
               ELSE IF Touched(rows[k]).status = "manual" THEN Touched(rows[k])
               ELSE Adopted(rows[k])]
  BY <1>1, Zenon DEF UpsertIdentityMapping
<1> HIDE DEF new, Touched, Adopted
<1>5. \A k \in D : rows[k] \in IdentityRows
  BY Zenon
<1>6. new \in [D \cup {o.key} -> IdentityRows]
  BY <1>1, <1>2, <1>3, <1>4, <1>5, ZenonT(60)
<1>7. \A k \in D \ {o.key} : new[k] = rows[k]
  BY <1>4, Zenon
<1>8. ASSUME o.key \in D, rows[o.key].status = "manual"
      PROVE  SameUser(new[o.key], rows[o.key])
  <2>1. Touched(rows[o.key]).status = "manual"
    BY <1>2, <1>5, <1>8, Zenon DEF SameUser
  <2>2. new[o.key] = Touched(rows[o.key])
    BY <1>4, <1>8, <2>1, Zenon
  <2> QED
    BY <1>2, <1>5, <1>8, <2>2, Zenon
<1>9. ASSUME o.key \in D, rows[o.key].status # "manual"
      PROVE  StatusFits(new[o.key])
  <2>1. Touched(rows[o.key]).status # "manual"
    BY <1>2, <1>5, <1>9, Zenon DEF SameUser
  <2>2. new[o.key] = Adopted(rows[o.key])
    BY <1>4, <1>9, <2>1, Zenon
  <2> QED
    BY <1>3, <1>5, <1>9, <2>2, ZenonT(60)
<1>10. ASSUME o.key \notin D PROVE StatusFits(new[o.key])
  <2>1. new[o.key] = o
    BY <1>4, <1>10, Zenon
  <2> QED
    BY <1>1, <2>1, Zenon
<1>11. Upserted(new, rows, D, o)
  BY <1>6, <1>7, <1>8, <1>9, <1>10, ZenonT(60) DEF Upserted
<1> QED
  BY <1>11, Zenon DEF new

-----------------------------------------------------------------------------
(* The invariant                                                           *)

\* A statement of a run keeps the invariant (persistIdentityMappingsFromInput).
LEMMA ObserveKeeps ==
  ASSUME IdentityInv, NEW r \in RunIds, Observe(r)
  PROVE  IdentityInv'
<1> DEFINE o == Head(pending[r])
<1>1. pending[r] \in Seq(Observations) /\ pending[r] # <<>>
  BY Zenon DEF IdentityInv, IdentityTypeOK, Observe
<1>2. o \in Observations /\ Tail(pending[r]) \in Seq(Observations)
  BY <1>1
<1>3. pending' \in [RunIds -> Seq(Observations)]
  BY <1>2, Zenon DEF IdentityInv, IdentityTypeOK, Observe
<1>4. o.key \in IdentityKeys
  BY <1>2, Zenon DEF Observations, IdentityRows
<1> DEFINE D == DOMAIN mappings
<1>5. /\ mappings' = UpsertIdentityMapping(mappings, o) /\ resolutions' = resolutions
      /\ D \in SUBSET IdentityKeys /\ mappings \in [D -> IdentityRows]
  BY Zenon DEF IdentityInv, IdentityTypeOK, Observe
<1> HIDE DEF o, D
<1>6. Upserted(mappings', mappings, D, o)
  BY <1>2, <1>5, UpsertKeepsManual, Zenon
<1>7. DOMAIN mappings' = D \cup {o.key}
  BY <1>6, Zenon DEF Upserted
<1>8. IdentityTypeOK'
  BY <1>3, <1>4, <1>5, <1>6, <1>7, ZenonT(60) DEF IdentityInv, IdentityTypeOK, Upserted, D
<1>9. ResolvedIdentitiesStay'
  <2> SUFFICES ASSUME NEW k \in D \cup {o.key}
               PROVE  IF k \in DOMAIN resolutions
                      THEN /\ mappings'[k].status = "manual"
                           /\ mappings'[k].source = "manual"
                           /\ [user |-> mappings'[k].user, id |-> mappings'[k].id]
                              = resolutions[k]
                      ELSE StatusFits(mappings'[k])
    BY <1>5, <1>7, Zenon DEF ResolvedIdentitiesStay, StatusFits
  <2>1. ASSUME k \in D
        PROVE  IF k \in DOMAIN resolutions
               THEN /\ mappings[k].status = "manual"
                    /\ mappings[k].source = "manual"
                    /\ [user |-> mappings[k].user, id |-> mappings[k].id]
                       = resolutions[k]
               ELSE StatusFits(mappings[k]) /\ mappings[k].status # "manual"
    BY <2>1, Zenon DEF IdentityInv, ResolvedIdentitiesStay, StatusFits, D
  <2>2. CASE k # o.key
    BY <1>6, <2>1, <2>2, Zenon DEF Upserted
  <2>3. CASE k = o.key /\ k \in D /\ k \in DOMAIN resolutions
    BY <1>6, <2>1, <2>3, Zenon DEF Upserted, SameUser
  <2>4. CASE k = o.key /\ k \in D /\ k \notin DOMAIN resolutions
    BY <1>6, <2>1, <2>4, Zenon DEF Upserted
  <2>5. CASE k = o.key /\ k \notin D
    <3>1. k \notin DOMAIN resolutions
      BY <2>5, Zenon DEF IdentityInv, IdentityTypeOK, D
    <3> QED
      BY <1>6, <2>5, <3>1, Zenon DEF Upserted
  <2> QED
    BY <2>2, <2>3, <2>4, <2>5, Zenon
<1> QED
  BY <1>8, <1>9, Zenon DEF IdentityInv

\* So does an operator's resolution (ResolveIdentityMapping).
LEMMA ResolveKeeps ==
  ASSUME IdentityInv, NEW k \in DOMAIN mappings, NEW user \in STRING,
         NEW id \in STRING, NEW actor \in STRING,
         ResolveIdentityMapping(k, user, id, actor)
  PROVE  IdentityInv'
<1> DEFINE new == ResolveRow(mappings[k], user, id, actor)
<1>1. mappings[k] \in IdentityRows
  BY Zenon DEF IdentityInv, IdentityTypeOK
<1>2. /\ new \in IdentityRows /\ new.user = user /\ new.id = id
      /\ new.status = "manual" /\ new.source = "manual"
  <2> DEFINE row == mappings[k]
  <2>1. new = [row EXCEPT !.user = user, !.id = id, !.source = "manual",
                          !.status = "manual", !.by = actor]
    BY Zenon DEF ResolveRow
  <2>2. row \in IdentityRows
    BY <1>1, Zenon
  <2> HIDE DEF row, new
  <2>3. new \in IdentityRows
    BY <2>1, <2>2, Zenon DEF IdentityRows
  <2>4. new.user = user /\ new.id = id
    BY <2>1, <2>2, Zenon DEF IdentityRows
  <2>5. new.status = "manual" /\ new.source = "manual"
    BY <2>1, <2>2, Zenon DEF IdentityRows
  <2> QED
    BY <2>3, <2>4, <2>5, Zenon
<1>3. mappings' = [mappings EXCEPT ![k] = new]
  BY Zenon DEF ResolveIdentityMapping
<1> HIDE DEF new
<1>4. /\ DOMAIN resolutions' = DOMAIN resolutions \cup {k}
      /\ resolutions'[k] = [user |-> user, id |-> id]
      /\ \A j \in DOMAIN resolutions \ {k} : resolutions'[j] = resolutions[j]
      /\ resolutions' \in [DOMAIN resolutions' -> [user : STRING, id : STRING]]
      /\ pending' = pending
  BY Zenon DEF ResolveIdentityMapping, IdentityInv, IdentityTypeOK
<1>5. IdentityTypeOK'
  BY <1>2, <1>3, <1>4, Zenon DEF IdentityInv, IdentityTypeOK
<1>6. ResolvedIdentitiesStay'
  BY <1>2, <1>3, <1>4, Zenon DEF IdentityInv, IdentityTypeOK, ResolvedIdentitiesStay
<1> QED
  BY <1>5, <1>6, Zenon DEF IdentityInv

\* Whatever runs observe, in whichever order their statements and those of
\* operators reach identity_mappings, a resolved mapping keeps the user that
\* an operator set last, and the status of any other says whether a user is
\* known.
THEOREM ResolutionsLast == IdentitySpec => []ResolvedIdentitiesStay
<1>1. IdentityInit => IdentityInv
  BY DEF IdentityInit, IdentityInv, IdentityTypeOK, ResolvedIdentitiesStay
<1>2. IdentityInv /\ [IdentityNext]_identityVars => IdentityInv'
  <2> SUFFICES ASSUME IdentityInv, [IdentityNext]_identityVars
               PROVE  IdentityInv'
    BY Zenon
  <2>1. CASE IdentityNext
    BY <2>1, ObserveKeeps, ResolveKeeps, Zenon DEF IdentityNext
  <2>2. CASE UNCHANGED identityVars
    BY <2>2, Zenon DEF identityVars, IdentityInv, IdentityTypeOK, ResolvedIdentitiesStay
  <2> QED
    BY <2>1, <2>2, Zenon
<1>3. IdentityInv => ResolvedIdentitiesStay
  BY Zenon DEF IdentityInv
<1> QED
  BY <1>1, <1>2, <1>3, PTL DEF IdentitySpec
=============================================================================
