-------------------------- MODULE DeploymentProofs --------------------------
(***************************************************************************)
(* The deployed service with concurrent webhook requests and manual        *)
(* triggers, for any number of each and with events in any order, repeated *)
(* and lost.  What was acknowledged is applied, and once for each hook; a  *)
(* run created by hand replaces older ones, and the success its command    *)
(* reports is final.                                                       *)
(***************************************************************************)
EXTENDS Deployment, ReviewServiceProofs

-----------------------------------------------------------------------------
(* Deliveries                                                              *)

\* What extractDeliveryKey finds in the header of event n sent by a hook.
NamedKey(n, source) == 2 * n - (IF source = "system" THEN 1 ELSE 0)

HeaderNames == {"System Hook", "Note Hook", "Merge Request Hook"}

Requests == [mr : MRs, ev : Events, key : Nat, header : HeaderNames, group : BOOLEAN]

IngressTypeOK ==
  /\ forge \in [MRs -> [state : MRStates, head : Heads, past : SUBSET Heads]]
  /\ wire \in [MRs -> SUBSET Events]
  /\ moves \in 0..MaxMoves
  /\ headers \in BOOLEAN
  /\ sources \subseteq Sources
  /\ received \in Nat
  /\ requests \in [Handlers -> Requests \cup {NoDelivery}]
  /\ hook_events \subseteq Nat
  /\ \A a \in audit_logs : a.ev.n \in 1..MaxMoves
  /\ applied \in [1..MaxMoves -> [Sources -> Nat]]

Busy(r) == requests[r] # NoDelivery

\* An event that is still to be delivered, perhaps once more, or just handled.
UnderWay(m, e) ==
  \/ e \in wire[m]
  \/ \E r \in Handlers : Busy(r) /\ requests[r].mr = m /\ requests[r].ev = e

\* The number of an event tells which one it is.
EventsAreNumbered ==
  /\ \A m \in MRs : \A e \in Events : UnderWay(m, e) => e.n \in 1..moves
  /\ \A m, k \in MRs : \A e, f \in Events :
       UnderWay(m, e) /\ UnderWay(k, f) /\ e.n = f.n => m = k /\ e = f

Applied(n) == \E source \in Sources : applied[n][source] > 0

\* If the forge names its deliveries: a row of hook_events stands for an event
\* that is applied, or for one that is not handled at all, and what a hook said
\* of an event was applied once, together with its row.
NamedDeliveries ==
  /\ \A key \in hook_events : key <= 2 * moves
  /\ \A n \in 1..MaxMoves, source \in Sources :
       \/ applied[n][source] = 0
       \/ applied[n][source] = 1 /\ NamedKey(n, source) \in hook_events
  /\ \A m \in MRs : \A e \in Events : \A source \in Sources :
       UnderWay(m, e) /\ NamedKey(e.n, source) \in hook_events
         => Applied(e.n) \/ ~Supported([mr |-> m, ev |-> e])
  /\ \A r \in Handlers : Busy(r) =>
       /\ hookSource(requests[r]) \in Sources
       /\ requests[r].key = NamedKey(requests[r].ev.n, hookSource(requests[r]))

\* If it does not, no request has a key that was used before.
FreshDeliveries ==
  /\ \A key \in hook_events : key <= 2 * MaxMoves + received
  /\ \A r \in Handlers : Busy(r) =>
       /\ hookSource(requests[r]) \in Sources
       /\ requests[r].key <= 2 * MaxMoves + received
       /\ requests[r].key \notin hook_events
  /\ \A r, s \in Handlers :
       Busy(r) /\ Busy(s) /\ requests[r].key = requests[s].key => r = s

IngressInv ==
  /\ IngressTypeOK
  /\ EventsAreNumbered
  /\ headers => NamedDeliveries
  /\ ~headers => FreshDeliveries
  /\ AcknowledgedEventsAreApplied

\* Keys of different events differ.
LEMMA KeysTellEvents ==
  ASSUME NEW n \in Nat, NEW k \in Nat, NEW s, NEW t, NamedKey(n, s) = NamedKey(k, t)
  PROVE  n = k
BY DEF NamedKey

\* A key that is below the double of one count is below that of a later one.
LEMMA KeysStayBelow ==
  ASSUME NEW key \in Nat, NEW n \in Nat, NEW k \in Nat, key <= 2 * n, n <= k
  PROVE  key <= 2 * k
OBVIOUS

\* The payload and the headers of a request say which hook sent it.
LEMMA SourceIsKnown ==
  ASSUME NEW q, NEW e, NEW source \in Sources, q.header = Header(e, source),
         q.group = (source = "group")
  PROVE  hookSource(q) = source
BY Zenon DEF hookSource, Header, detectHookSource, inferWebhookSource, Sources

\* What the forge sends is a new event.
LEMMA ForgeSends ==
  ASSUME NEW m \in MRs, ForgeMoves(m), IngressTypeOK
  PROVE  /\ \E e \in Events : /\ e.n = moves + 1
                              /\ wire' = [wire EXCEPT ![m] = @ \cup {e}]
         /\ moves' = moves + 1 /\ moves' \in 0..MaxMoves
         /\ forge' \in [MRs -> [state : MRStates, head : Heads, past : SUBSET Heads]]
<1>0. /\ moves \in Nat /\ MaxMoves \in Nat /\ moves + 1 \in Nat
      /\ forge \in [MRs -> [state : MRStates, head : Heads, past : SUBSET Heads]]
      /\ forge[m].head \in Heads /\ forge[m].state \in MRStates
  <2>1. moves \in Nat /\ MaxMoves \in Nat
    BY IntakeAssumption DEF IngressTypeOK
  <2> QED BY <2>1 DEF IngressTypeOK
<1>1. moves' = moves + 1 /\ moves' \in 0..MaxMoves /\ ForgeChanges(m)
  BY <1>0 DEF ForgeMoves
<1>2. \E action \in Actions, state \in MRStates, h \in Heads :
        Becomes(m, state, h) /\ Announce(m, action, state, h)
  BY <1>0, <1>1, Zenon DEF ForgeChanges, NewHeads, Actions, MRStates
<1>3. PICK action \in Actions, state \in MRStates, h \in Heads :
        Becomes(m, state, h) /\ Announce(m, action, state, h)
  BY <1>2, Zenon
<1>4. \E e \in Events : e.n = moves + 1 /\ wire' = [wire EXCEPT ![m] = @ \cup {e}]
  <2> DEFINE e == [n |-> moves + 1, action |-> action, state |-> state, head |-> h]
  <2>1. e \in Events /\ e.n = moves + 1
    BY <1>0, Zenon DEF Events
  <2>2. wire' = [wire EXCEPT ![m] = @ \cup {e}]
    BY <1>3, Zenon DEF Announce
  <2> HIDE DEF e
  <2> QED BY <2>1, <2>2, Zenon
<1>5. forge' \in [MRs -> [state : MRStates, head : Heads, past : SUBSET Heads]]
  BY <1>0, <1>3, Zenon DEF Becomes
<1> QED BY <1>1, <1>4, <1>5, Zenon

\* Whoever else does something leaves deliveries alone.
LEMMA IngressElsewhere ==
  ASSUME IngressInv, UNCHANGED <<ingressVars, wire>>,
         moves' \in 0..MaxMoves, moves <= moves',
         forge' \in [MRs -> [state : MRStates, head : Heads, past : SUBSET Heads]]
  PROVE  IngressInv'
<1>0. /\ moves \in Nat /\ moves' \in Nat /\ hook_events \subseteq Nat
      /\ \A e \in Events : e.n \in Nat
  BY IntakeAssumption DEF IngressInv, IngressTypeOK, Events
<1>1. IngressTypeOK'
  BY Zenon DEF IngressInv, IngressTypeOK, ingressVars
<1>2. \A m, e : UnderWay(m, e)' <=> UnderWay(m, e)
  BY Zenon DEF UnderWay, Busy, ingressVars
<1>3. EventsAreNumbered'
  BY <1>0, <1>2 DEF IngressInv, EventsAreNumbered
<1>4. ASSUME headers PROVE NamedDeliveries'
  <2>1. NamedDeliveries
    BY <1>4, Zenon DEF IngressInv
  <2>2. /\ hook_events' = hook_events /\ applied' = applied
        /\ requests' = requests /\ platform' = platform
    BY Zenon DEF ingressVars
  <2>3. ASSUME NEW key \in hook_events' PROVE key <= 2 * moves'
    <3>1. key <= 2 * moves
      BY <2>1, <2>2, <2>3, Zenon DEF NamedDeliveries
    <3>2. key \in Nat /\ moves \in Nat /\ moves' \in Nat
      BY <1>0, <2>2, <2>3, Zenon
    <3> QED BY <3>1, <3>2, KeysStayBelow, Zenon
  <2>4. \A m \in MRs : \A e \in Events : \A source \in Sources :
          UnderWay(m, e)' /\ NamedKey(e.n, source) \in hook_events'
            => Applied(e.n)' \/ ~Supported([mr |-> m, ev |-> e])'
    BY <1>2, <2>1, <2>2, Zenon DEF NamedDeliveries, Applied, Supported
  <2> QED BY <2>1, <2>2, <2>3, <2>4, Zenon DEF NamedDeliveries, Busy
<1>5. ~headers => FreshDeliveries'
  BY Zenon DEF IngressInv, FreshDeliveries, Busy, ingressVars
<1>6. AcknowledgedEventsAreApplied'
  BY Zenon DEF IngressInv, AcknowledgedEventsAreApplied, Supported, ingressVars
<1>7. headers' = headers
  BY Zenon DEF ingressVars
<1> QED BY <1>1, <1>3, <1>4, <1>5, <1>6, <1>7, Zenon DEF IngressInv

\* An event just sent has a number that none had, and no row names it.
LEMMA IngressForge ==
  ASSUME IngressInv, NEW m \in MRs, ForgeMovesOn(m)
  PROVE  IngressInv'
<1>0. /\ moves \in Nat /\ hook_events \subseteq Nat /\ \A e \in Events : e.n \in Nat
      /\ IngressTypeOK
  BY IntakeAssumption DEF IngressInv, IngressTypeOK, Events
<1>1. /\ ForgeMoves(m)
      /\ UNCHANGED <<platform, headers, sources, requests, received, losses,
                     hook_events, audit_logs, applied>>
  BY Zenon DEF ForgeMovesOn
<1>2. PICK e \in Events : /\ e.n = moves + 1
                          /\ wire' = [wire EXCEPT ![m] = @ \cup {e}]
  BY <1>0, <1>1, ForgeSends, Zenon
<1>3. /\ moves' = moves + 1 /\ moves' \in 0..MaxMoves
      /\ forge' \in [MRs -> [state : MRStates, head : Heads, past : SUBSET Heads]]
  BY <1>0, <1>1, ForgeSends, Zenon
<1>4. IngressTypeOK'
  BY <1>0, <1>1, <1>2, <1>3, Zenon DEF IngressTypeOK
<1>5. \A k \in MRs : \A f : UnderWay(k, f)' => UnderWay(k, f) \/ (k = m /\ f = e)
  BY <1>0, <1>1, <1>2, Zenon DEF UnderWay, Busy, IngressTypeOK
<1>6. EventsAreNumbered'
  BY <1>0, <1>2, <1>3, <1>5 DEF IngressInv, EventsAreNumbered
<1>7. ASSUME headers PROVE NamedDeliveries'
  <2>1. NamedDeliveries
    BY <1>7, Zenon DEF IngressInv
  <2>2. \A key \in hook_events' : key <= 2 * moves'
    BY <1>0, <1>1, <1>3, <2>1 DEF NamedDeliveries
  <2>3. \A n \in 1..MaxMoves, source \in Sources :
          \/ applied'[n][source] = 0
          \/ applied'[n][source] = 1 /\ NamedKey(n, source) \in hook_events'
    BY <1>1, <2>1, Zenon DEF NamedDeliveries
  <2>4. ASSUME NEW k \in MRs, NEW f \in Events, NEW source \in Sources,
               UnderWay(k, f)', NamedKey(f.n, source) \in hook_events
        PROVE  Applied(f.n)' \/ ~Supported([mr |-> k, ev |-> f])'
    <3>1. f # e
      BY <1>0, <1>2, <2>1, <2>4 DEF NamedDeliveries, NamedKey
    <3>2. Applied(f.n) \/ ~Supported([mr |-> k, ev |-> f])
      BY <1>5, <2>1, <2>4, <3>1, Zenon DEF NamedDeliveries
    <3> QED BY <1>1, <3>2, Zenon DEF Applied, Supported
  <2>5. \A r \in Handlers : Busy(r)' =>
          /\ hookSource(requests'[r]) \in Sources
          /\ requests'[r].key = NamedKey(requests'[r].ev.n, hookSource(requests'[r]))
    BY <1>1, <2>1, Zenon DEF NamedDeliveries, Busy
  <2> QED BY <1>1, <2>2, <2>3, <2>4, <2>5, Zenon DEF NamedDeliveries
<1>8. ~headers => FreshDeliveries'
  BY <1>1, Zenon DEF IngressInv, FreshDeliveries, Busy
<1>9. AcknowledgedEventsAreApplied'
  BY <1>1, Zenon DEF IngressInv, AcknowledgedEventsAreApplied, Supported
<1> QED BY <1>1, <1>4, <1>6, <1>7, <1>8, <1>9, Zenon DEF IngressInv

\* A request that comes in takes its event from the wire.
LEMMA IngressReceive ==
  ASSUME IngressInv, NEW r \in Handlers, NEW m \in MRs, NEW e \in wire[m],
         NEW source \in sources, Receive(r, m, e, source)
  PROVE  IngressInv'
<1> DEFINE key == extractDeliveryKey(e, source)
           q == [mr |-> m, ev |-> e, key |-> key, header |-> Header(e, source),
                 group |-> source = "group"]
<1>0. /\ IngressTypeOK /\ EventsAreNumbered
      /\ moves \in Nat /\ MaxMoves \in Nat /\ moves <= MaxMoves
      /\ received \in Nat /\ hook_events \subseteq Nat
      /\ \A f \in Events : f.n \in Nat
      /\ e \in Events /\ source \in Sources /\ UnderWay(m, e)
  BY IntakeAssumption DEF IngressInv, IngressTypeOK, Events, UnderWay
<1>1. e.n \in 1..moves /\ e.n \in 1..MaxMoves
  <2>1. e.n \in 1..moves
    BY <1>0, Zenon DEF EventsAreNumbered
  <2> QED BY <1>0, <2>1
<1>2. key \in Nat /\ (headers => key = NamedKey(e.n, source))
      /\ (~headers => key = 2 * MaxMoves + received + 1)
  <2>1. 2 * e.n - 1 \in Nat /\ 2 * e.n - 0 \in Nat /\ 2 * MaxMoves + received + 1 \in Nat
    BY <1>0, <1>1
  <2> QED BY <2>1, Zenon DEF extractDeliveryKey, NamedKey
<1>3. /\ requests[r] = NoDelivery
      /\ requests' \in {requests, [requests EXCEPT ![r] = q]}
      /\ received' = IF headers THEN received ELSE received + 1
      /\ wire' \in {wire, [wire EXCEPT ![m] = @ \ {e}]}
      /\ UNCHANGED <<forge, moves, platform, headers, sources, hook_events, applied>>
  BY Zenon DEF Receive
<1>4. \/ audit_logs' = audit_logs
      \/ /\ key \in hook_events
         /\ audit_logs' = audit_logs
              \cup {[outcome |-> "deduplicated", mr |-> m, ev |-> e]}
  BY Zenon DEF Receive, GetHookEventByDeliveryKey, Acknowledge, InsertAuditLog
<1>5. /\ q \in Requests /\ q.mr = m /\ q.ev = e /\ q.key = key
      /\ hookSource(q) = source
  <2>1. Header(e, source) \in HeaderNames
    BY Zenon DEF Header, HeaderNames
  <2>2. q \in Requests /\ q.mr = m /\ q.ev = e /\ q.key = key
    BY <1>0, <1>2, <2>1, Zenon DEF Requests
  <2>3. q.header = Header(e, source) /\ q.group = (source = "group")
    BY Zenon
  <2> HIDE DEF q
  <2> QED BY <1>0, <2>2, <2>3, SourceIsKnown, Zenon
<1> HIDE DEF q, key
<1>6. IngressTypeOK'
  <2>1. \A a \in audit_logs' : a.ev.n \in 1..MaxMoves
    BY <1>0, <1>1, <1>4 DEF IngressTypeOK
  <2>2. received' \in Nat
    BY <1>0, <1>3
  <2>3. wire' \in [MRs -> SUBSET Events]
    BY <1>0, <1>3, Zenon DEF IngressTypeOK
  <2>4. requests' \in [Handlers -> Requests \cup {NoDelivery}]
    BY <1>0, <1>3, <1>5, Zenon DEF IngressTypeOK
  <2> QED BY <1>0, <1>3, <2>1, <2>2, <2>3, <2>4, Zenon DEF IngressTypeOK
<1>7. /\ \A s \in Handlers : Busy(s)' =>
           \/ Busy(s) /\ requests'[s] = requests[s]
           \/ s = r /\ requests'[s] = q
      /\ ~Busy(r)
  BY <1>0, <1>3, Zenon DEF Busy, IngressTypeOK
<1>8. \A k \in MRs : \A f : UnderWay(k, f)' => UnderWay(k, f)
  <2>1. SUFFICES ASSUME NEW k \in MRs, NEW f, UnderWay(k, f)'
                 PROVE  UnderWay(k, f)
    BY Zenon
  <2>2. CASE f \in wire'[k]
    BY <1>0, <1>3, <2>2, Zenon DEF UnderWay, IngressTypeOK
  <2>3. ASSUME NEW s \in Handlers, Busy(s)', requests'[s].mr = k, requests'[s].ev = f
        PROVE  UnderWay(k, f)
    <3>1. CASE Busy(s) /\ requests'[s] = requests[s]
      BY <2>3, <3>1, Zenon DEF UnderWay
    <3>2. CASE requests'[s] = q
      BY <1>0, <1>5, <2>3, <3>2, Zenon
    <3> QED BY <1>7, <2>3, <3>1, <3>2, Zenon
  <2> QED BY <2>1, <2>2, <2>3, Zenon DEF UnderWay
<1>9. EventsAreNumbered'
  BY <1>0, <1>3, <1>8, Zenon DEF EventsAreNumbered
<1>10. ASSUME headers PROVE NamedDeliveries'
  <2>1. NamedDeliveries
    BY <1>10, Zenon DEF IngressInv
  <2>2. \A k \in MRs : \A f \in Events : \A s \in Sources :
          UnderWay(k, f)' /\ NamedKey(f.n, s) \in hook_events'
            => Applied(f.n)' \/ ~Supported([mr |-> k, ev |-> f])'
    BY <1>3, <1>8, <2>1, Zenon DEF NamedDeliveries, Applied, Supported
  <2>3. \A s \in Handlers : Busy(s)' =>
          /\ hookSource(requests'[s]) \in Sources
          /\ requests'[s].key = NamedKey(requests'[s].ev.n, hookSource(requests'[s]))
    BY <1>0, <1>2, <1>5, <1>7, <1>10, <2>1, Zenon DEF NamedDeliveries
  <2> QED BY <1>3, <2>1, <2>2, <2>3, Zenon DEF NamedDeliveries
<1>11. ASSUME ~headers PROVE FreshDeliveries'
  <2>1. FreshDeliveries /\ received' = received + 1
        /\ key = 2 * MaxMoves + received + 1
    BY <1>2, <1>3, <1>11, Zenon DEF IngressInv
  <2>2. /\ \A k \in hook_events : k \in Nat /\ k < key
        /\ \A s \in Handlers : Busy(s) => requests[s].key \in Nat /\ requests[s].key < key
    <3>1. ASSUME NEW k \in hook_events PROVE k \in Nat /\ k < key
      <4>1. k <= 2 * MaxMoves + received
        BY <2>1, <3>1, Zenon DEF FreshDeliveries
      <4> QED BY <1>0, <2>1, <3>1, <4>1
    <3>2. ASSUME NEW s \in Handlers, Busy(s)
          PROVE  requests[s].key \in Nat /\ requests[s].key < key
      <4>1. requests[s].key <= 2 * MaxMoves + received
        BY <2>1, <3>2, Zenon DEF FreshDeliveries
      <4>2. requests[s].key \in Nat
        BY <1>0, <3>2, Zenon DEF IngressTypeOK, Requests, Busy
      <4> QED BY <1>0, <2>1, <4>1, <4>2
    <3> QED BY <3>1, <3>2, Zenon
  <2>3. \A k \in hook_events' : k <= 2 * MaxMoves + received'
    BY <1>0, <1>3, <2>1, <2>2
  <2>4. \A s \in Handlers : Busy(s)' =>
          /\ hookSource(requests'[s]) \in Sources
          /\ requests'[s].key <= 2 * MaxMoves + received'
          /\ requests'[s].key \notin hook_events'
    BY <1>0, <1>3, <1>5, <1>7, <2>1, <2>2 DEF FreshDeliveries
  <2>5. \A s, t \in Handlers :
          Busy(s)' /\ Busy(t)' /\ requests'[s].key = requests'[t].key => s = t
    BY <1>0, <1>2, <1>5, <1>7, <2>1, <2>2 DEF FreshDeliveries
  <2> QED BY <2>3, <2>4, <2>5, Zenon DEF FreshDeliveries
<1>12. AcknowledgedEventsAreApplied'
  <2>1. AcknowledgedEventsAreApplied
    BY Zenon DEF IngressInv
  <2>2. ASSUME key \in hook_events, Supported([mr |-> m, ev |-> e])
        PROVE  Applied(e.n)
    <3>1. headers
      <4>1. ASSUME ~headers PROVE FALSE
        BY <1>0, <1>2, <2>2, <4>1 DEF IngressInv, FreshDeliveries
      <4> QED BY <4>1, Zenon
    <3> QED BY <1>0, <1>2, <2>2, <3>1, Zenon DEF IngressInv, NamedDeliveries
  <2> QED BY <1>3, <1>4, <2>1, <2>2
          DEF AcknowledgedEventsAreApplied, Supported, Applied
<1> QED BY <1>3, <1>6, <1>9, <1>10, <1>11, <1>12, Zenon DEF IngressInv

\* What the end of request q leaves in the tables: the event with its row; the
\* row of an event that is not handled; or nothing but perhaps the entry that
\* says so.
EndsWith(q) ==
  \/ /\ Supported(q) /\ q.key \notin hook_events
     /\ hook_events' = hook_events \cup {q.key}
     /\ applied' = [applied EXCEPT ![q.ev.n][hookSource(q)] = @ + 1]
  \/ /\ ~Supported(q)
     /\ hook_events' \in {hook_events, hook_events \cup {q.key}}
     /\ applied' = applied
  \/ /\ q.key \in hook_events
     /\ hook_events' = hook_events /\ applied' = applied
  \/ hook_events' = hook_events /\ applied' = applied /\ audit_logs' = audit_logs

Acknowledges(q) ==
  \/ audit_logs' = audit_logs
  \/ \E text \in {"verified", "deduplicated"} :
       audit_logs' = audit_logs \cup {[outcome |-> text, mr |-> q.mr, ev |-> q.ev]}

\* Every step of a handler but the first one ends its request that way.
LEMMA RequestsEnd ==
  ASSUME NEW r \in Handlers,
         \/ InsertFindsDuplicate(r) \/ TransactionFails(r)
         \/ ProcessMergeRequestEvent(r) \/ handleNoteEvent(r)
         \/ ProcessPullRequestEvent(r) \/ IgnoreUnsupportedEvent(r)
  PROVE  Ends(r) /\ EndsWith(requests[r]) /\ Acknowledges(requests[r])
<1> DEFINE q == requests[r]
<1>1. ASSUME NEW text \in {"verified", "deduplicated"}, Acknowledge(text, q.mr, q.ev)
      PROVE  Acknowledges(q)
  BY <1>1, Zenon DEF Acknowledge, InsertAuditLog, Acknowledges
<1>2. ASSUME Commits(r), Supported(q)
      PROVE  EndsWith(q) /\ Acknowledges(q)
  BY <1>1, <1>2, Zenon DEF Commits, InsertHookEvent, EndsWith
<1>3. CASE InsertFindsDuplicate(r)
  BY <1>1, <1>3, Zenon DEF InsertFindsDuplicate, RollsBack, EndsWith
<1>4. CASE TransactionFails(r)
  BY <1>4, Zenon DEF TransactionFails, RollsBack, EndsWith, Acknowledges
<1>5. CASE ProcessMergeRequestEvent(r)
  BY <1>2, <1>5, Zenon DEF ProcessMergeRequestEvent, Supported
<1>6. CASE handleNoteEvent(r)
  <2>1. Ends(r) /\ Supported(q)
    BY <1>6, Zenon DEF handleNoteEvent, Supported
  <2>2. Commits(r) \/ UNCHANGED <<hook_events, applied, audit_logs>>
    BY <1>6, Zenon DEF handleNoteEvent, RollsBack
  <2> QED BY <1>2, <2>1, <2>2, Zenon DEF EndsWith, Acknowledges
<1>7. CASE ProcessPullRequestEvent(r)
  BY <1>2, <1>7, Zenon DEF ProcessPullRequestEvent, Supported
<1>8. CASE IgnoreUnsupportedEvent(r)
  <2>1. Acknowledges(q)
    BY <1>1, <1>8, Zenon DEF IgnoreUnsupportedEvent, InsertAuditLog, Acknowledges
  <2> QED BY <1>8, <2>1, Zenon DEF IgnoreUnsupportedEvent, InsertHookEvent, EndsWith
<1> QED BY <1>3, <1>4, <1>5, <1>6, <1>7, <1>8, Zenon

\* A request that is handled, of event n sent by a hook.
Handled(r, q, n, source) ==
  /\ q = requests[r] /\ Busy(r)
  /\ q \in Requests /\ n = q.ev.n /\ source = hookSource(q)
  /\ UnderWay(q.mr, q.ev)
  /\ n \in 1..moves /\ n \in 1..MaxMoves /\ source \in Sources
  /\ IF headers THEN q.key = NamedKey(n, source) ELSE q.key \notin hook_events

\* Such is every request there is.
LEMMA RequestsAreHandled ==
  ASSUME IngressInv, NEW r \in Handlers, Busy(r)
  PROVE  Handled(r, requests[r], requests[r].ev.n, hookSource(requests[r]))
<1> DEFINE q == requests[r]
           n == q.ev.n
<1>1. q \in Requests /\ q.mr \in MRs /\ q.ev \in Events /\ UnderWay(q.mr, q.ev)
  BY Zenon DEF IngressInv, IngressTypeOK, Requests, UnderWay, Busy
<1>2. n \in 1..moves
  BY <1>1, Zenon DEF IngressInv, EventsAreNumbered
<1>3. moves \in Nat /\ MaxMoves \in Nat /\ moves <= MaxMoves
  BY IntakeAssumption DEF IngressInv, IngressTypeOK
<1>4. n \in 1..MaxMoves
  BY <1>2, <1>3
<1>5. CASE headers
  BY <1>1, <1>2, <1>4, <1>5, Zenon DEF IngressInv, NamedDeliveries, Handled
<1>6. CASE ~headers
  BY <1>1, <1>2, <1>4, <1>6, Zenon DEF IngressInv, FreshDeliveries, Handled
<1> QED BY <1>5, <1>6, Zenon

\* The end of a request adds at most its row and at most one to the count of its
\* event, and gives no handler anything to do.
Ended(r, q, n, source) ==
  /\ UNCHANGED <<moves, headers, platform, received>>
  /\ hook_events \subseteq hook_events' /\ hook_events' \subseteq hook_events \cup {q.key}
  /\ \A k \in 1..MaxMoves : \A s \in Sources :
       \/ applied'[k][s] = applied[k][s]
       \/ k = n /\ s = source /\ applied'[k][s] = applied[k][s] + 1
  /\ \A k \in 1..MaxMoves : Applied(k) => Applied(k)'
  /\ \A s \in Handlers : Busy(s)' => Busy(s) /\ s # r /\ requests'[s] = requests[s]
  /\ \A k \in MRs : \A e : UnderWay(k, e)' => UnderWay(k, e)

\* The tables after the end of a request.
LEMMA RequestEnded ==
  ASSUME IngressTypeOK, NEW r \in Handlers, NEW q, NEW n, NEW source,
         Handled(r, q, n, source), Ends(r), EndsWith(q)
  PROVE  Ended(r, q, n, source) /\ applied' \in [1..MaxMoves -> [Sources -> Nat]]
<1>0. /\ n \in 1..MaxMoves /\ source \in Sources
      /\ applied \in [1..MaxMoves -> [Sources -> Nat]]
      /\ applied' = applied \/ applied' = [applied EXCEPT ![n][source] = @ + 1]
  BY Zenon DEF Handled, IngressTypeOK, EndsWith
<1>1. /\ applied' \in [1..MaxMoves -> [Sources -> Nat]]
      /\ \A k \in 1..MaxMoves : \A s \in Sources :
           \/ applied'[k][s] = applied[k][s]
           \/ k = n /\ s = source /\ applied'[k][s] = applied[k][s] + 1
  <2>1. CASE applied' = applied
    BY <1>0, <2>1, Zenon
  <2>2. CASE applied' = [applied EXCEPT ![n][source] = @ + 1]
    <3>1. applied[n] \in [Sources -> Nat] /\ applied[n][source] + 1 \in Nat
      BY <1>0
    <3>2. /\ applied' \in [1..MaxMoves -> [Sources -> Nat]]
          /\ \A k \in 1..MaxMoves : k # n => applied'[k] = applied[k]
          /\ applied'[n] = [applied[n] EXCEPT ![source] = @ + 1]
      BY <1>0, <2>2, <3>1, Zenon
    <3> QED BY <1>0, <3>1, <3>2, Zenon
  <2> QED BY <1>0, <2>1, <2>2, Zenon
<1>2. ASSUME NEW k \in 1..MaxMoves, NEW s \in Sources, applied[k][s] > 0
      PROVE  applied'[k][s] > 0
  <2>1. applied[k][s] \in Nat
    BY <1>0, Zenon
  <2> QED BY <1>1, <1>2, <2>1
<1>3. \A s \in Handlers : Busy(s)' => Busy(s) /\ s # r /\ requests'[s] = requests[s]
  BY Zenon DEF Ends, Busy, IngressTypeOK
<1>4. \A k \in MRs : \A e : UnderWay(k, e)' => UnderWay(k, e)
  BY <1>3, Zenon DEF UnderWay, Ends
<1>5. hook_events \subseteq hook_events' /\ hook_events' \subseteq hook_events \cup {q.key}
  BY Zenon DEF EndsWith
<1>6. \A k \in 1..MaxMoves : Applied(k) => Applied(k)'
  BY <1>2, Zenon DEF Applied
<1> QED BY <1>1, <1>3, <1>4, <1>5, <1>6, Zenon DEF Ended, Ends

\* The row of a request that is new: its event is applied now, or not handled.
LEMMA NewRowApplies ==
  ASSUME IngressTypeOK, NEW r \in Handlers, NEW q, NEW n, NEW source,
         Handled(r, q, n, source), EndsWith(q), Supported(q), q.key \notin hook_events,
         hook_events' # hook_events \/ audit_logs' # audit_logs
  PROVE  Applied(n)'
<1>1. /\ n \in 1..MaxMoves /\ source \in Sources
      /\ applied \in [1..MaxMoves -> [Sources -> Nat]]
      /\ applied' = [applied EXCEPT ![n][source] = @ + 1]
  BY Zenon DEF Handled, IngressTypeOK, EndsWith
<1>2. applied[n][source] \in Nat /\ applied'[n][source] = applied[n][source] + 1
  BY <1>1, Zenon
<1>3. applied'[n][source] > 0
  BY <1>2
<1> QED BY <1>1, <1>3, Zenon DEF Applied

\* Named deliveries stay so.
LEMMA NamedDeliveryEnds ==
  ASSUME IngressTypeOK, EventsAreNumbered, NamedDeliveries, headers,
         NEW r \in Handlers, NEW q, NEW n, NEW source,
         Handled(r, q, n, source), EndsWith(q), Ended(r, q, n, source)
  PROVE  NamedDeliveries'
<1>0. /\ moves \in Nat /\ n \in Nat /\ n \in 1..moves /\ n \in 1..MaxMoves
      /\ MaxMoves \in Nat /\ moves <= MaxMoves
      /\ hook_events \subseteq Nat
      /\ q.key = NamedKey(n, source) /\ q.key \in Nat
      /\ q.mr \in MRs /\ q.ev \in Events /\ UnderWay(q.mr, q.ev) /\ q.ev.n = n
      /\ moves' = moves /\ platform' = platform
  BY IntakeAssumption DEF IngressTypeOK, Handled, Ended, Requests
<1>1. ASSUME NEW key \in hook_events' PROVE key <= 2 * moves'
  <2>1. NamedKey(n, source) <= 2 * n
    BY <1>0 DEF NamedKey
  <2>2. n <= moves /\ q.key <= 2 * n
    BY <1>0, <2>1
  <2>3. q.key <= 2 * moves
    BY <1>0, <2>2, KeysStayBelow, Zenon
  <2> QED BY <1>0, <1>1, <2>3, Zenon DEF NamedDeliveries, Ended
<1>2. ASSUME NEW k \in 1..MaxMoves, NEW s \in Sources
      PROVE  \/ applied'[k][s] = 0
             \/ applied'[k][s] = 1 /\ NamedKey(k, s) \in hook_events'
  <2>1. CASE applied'[k][s] = applied[k][s]
    BY <2>1, Zenon DEF NamedDeliveries, Ended
  <2>2. CASE applied'[k][s] # applied[k][s]
    <3>1. k = n /\ s = source /\ applied'[k][s] = applied[k][s] + 1
      BY <2>2, Zenon DEF Ended
    <3>2. q.key \notin hook_events /\ q.key \in hook_events'
      BY <2>2, Zenon DEF EndsWith
    <3>3. applied[k][s] = 0
      BY <1>0, <3>1, <3>2, Zenon DEF NamedDeliveries
    <3> QED BY <1>0, <3>1, <3>2, <3>3
  <2> QED BY <2>1, <2>2, Zenon
<1>3. ASSUME NEW k \in MRs, NEW e \in Events, NEW s \in Sources,
             UnderWay(k, e)', NamedKey(e.n, s) \in hook_events'
      PROVE  Applied(e.n)' \/ ~Supported([mr |-> k, ev |-> e])'
  <2>1. UnderWay(k, e) /\ e.n \in 1..moves
    BY <1>3, Zenon DEF EventsAreNumbered, Ended
  <2>2. e.n \in 1..MaxMoves /\ e.n \in Nat
    BY <1>0, <2>1
  <2>3. CASE NamedKey(e.n, s) \in hook_events
    <3>1. Applied(e.n) \/ ~Supported([mr |-> k, ev |-> e])
      BY <2>1, <2>3, Zenon DEF NamedDeliveries
    <3> QED BY <1>0, <2>2, <3>1, Zenon DEF Ended, Supported
  <2>4. CASE NamedKey(e.n, s) \notin hook_events
    <3>1. NamedKey(e.n, s) = NamedKey(n, source) /\ q.key \notin hook_events
          /\ hook_events' # hook_events
      BY <1>0, <1>3, <2>4, Zenon DEF Ended
    <3>2. e.n = n
      BY <1>0, <2>2, <3>1, KeysTellEvents
    <3>3. k = q.mr /\ e = q.ev
      BY <1>0, <2>1, <3>2, Zenon DEF EventsAreNumbered
    <3>4. Supported(q) => Applied(n)'
      BY <3>1, NewRowApplies, Zenon
    <3> QED BY <1>0, <3>2, <3>3, <3>4, Zenon DEF Supported
  <2> QED BY <2>3, <2>4, Zenon
<1>4. \A s \in Handlers : Busy(s)' =>
        /\ hookSource(requests'[s]) \in Sources
        /\ requests'[s].key = NamedKey(requests'[s].ev.n, hookSource(requests'[s]))
  BY Zenon DEF NamedDeliveries, Ended
<1> QED BY <1>1, <1>2, <1>3, <1>4, Zenon DEF NamedDeliveries

\* A positive answer is given for an event that is applied by then.
LEMMA AnswersAreTrue ==
  ASSUME IngressInv, NEW r \in Handlers, NEW q, NEW n, NEW source,
         Handled(r, q, n, source), EndsWith(q), Acknowledges(q),
         Ended(r, q, n, source)
  PROVE  AcknowledgedEventsAreApplied'
<1>0. /\ q.mr \in MRs /\ q.ev \in Events /\ q.ev.n = n /\ UnderWay(q.mr, q.ev)
      /\ n \in 1..MaxMoves /\ source \in Sources /\ platform' = platform
      /\ IngressTypeOK
  BY Zenon DEF Handled, Requests, Ended, IngressInv
<1>1. ASSUME Supported(q), audit_logs' # audit_logs PROVE Applied(n)'
  <2>1. CASE q.key \in hook_events
    <3>1. headers /\ NamedDeliveries /\ q.key = NamedKey(n, source)
      BY <2>1, Zenon DEF Handled, IngressInv
    <3>2. Supported([mr |-> q.mr, ev |-> q.ev])
      BY <1>1, Zenon DEF Supported
    <3>3. Applied(n)
      BY <1>0, <2>1, <3>1, <3>2 DEF NamedDeliveries
    <3> QED BY <1>0, <3>3, Zenon DEF Ended
  <2>2. CASE q.key \notin hook_events
    BY <1>0, <1>1, <2>2, NewRowApplies, Zenon
  <2> QED BY <2>1, <2>2, Zenon
<1>2. ASSUME NEW a \in audit_logs', a.outcome \in {"verified", "deduplicated"},
             Supported(a)'
      PROVE  Applied(a.ev.n)'
  <2>1. Supported(a)
    BY <1>0, <1>2, Zenon DEF Supported
  <2>2. CASE a \in audit_logs
    <3>1. Applied(a.ev.n) /\ a.ev.n \in 1..MaxMoves
      BY <1>2, <2>1, <2>2, Zenon
         DEF IngressInv, AcknowledgedEventsAreApplied, Applied, IngressTypeOK
    <3> QED BY <3>1, Zenon DEF Ended
  <2>3. CASE a \notin audit_logs
    <3>1. a.mr = q.mr /\ a.ev = q.ev /\ audit_logs' # audit_logs
      BY <1>2, <2>3 DEF Acknowledges
    <3>2. Supported(q)
      BY <2>1, <3>1, Zenon DEF Supported
    <3> QED BY <1>0, <1>1, <3>1, <3>2, Zenon
  <2> QED BY <2>2, <2>3, Zenon
<1> QED BY <1>2, Zenon DEF AcknowledgedEventsAreApplied, Applied

\* A request that ends has applied its event, or leaves no row that would hide
\* it from the next one.
LEMMA IngressEnds ==
  ASSUME IngressInv, NEW r \in Handlers, Ends(r), EndsWith(requests[r]),
         Acknowledges(requests[r])
  PROVE  IngressInv'
<1>0. Busy(r) /\ IngressTypeOK /\ EventsAreNumbered
  BY Zenon DEF Ends, Busy, IngressInv
<1>1. PICK q, n, source : q = requests[r] /\ Handled(r, q, n, source)
  BY <1>0, RequestsAreHandled, Zenon
<1>2. EndsWith(q) /\ Acknowledges(q)
  BY <1>1, Zenon
<1>3. Ended(r, q, n, source) /\ applied' \in [1..MaxMoves -> [Sources -> Nat]]
  BY <1>0, <1>1, <1>2, RequestEnded, Zenon
<1>4. EventsAreNumbered'
  BY <1>0, <1>3, Zenon DEF EventsAreNumbered, Ended
<1>5. IngressTypeOK'
  <2>1. q.key \in Nat /\ q.ev.n \in 1..MaxMoves
    BY <1>1, Zenon DEF Handled, Requests
  <2>2. \A a \in audit_logs' : a.ev.n \in 1..MaxMoves
    BY <1>0, <1>2, <2>1 DEF IngressTypeOK, Acknowledges
  <2>3. requests' \in [Handlers -> Requests \cup {NoDelivery}]
    BY <1>0, Zenon DEF IngressTypeOK, Ends
  <2>4. hook_events' \subseteq Nat
    BY <1>0, <1>3, <2>1, Zenon DEF IngressTypeOK, Ended
  <2> QED BY <1>0, <1>3, <2>2, <2>3, <2>4, Zenon DEF IngressTypeOK, Ends
<1>6. headers => NamedDeliveries'
  BY <1>0, <1>1, <1>2, <1>3, NamedDeliveryEnds, Zenon DEF IngressInv
<1>7. ASSUME ~headers PROVE FreshDeliveries'
  <2>1. /\ FreshDeliveries /\ Busy(r) /\ q = requests[r] /\ received' = received
        /\ hook_events' \subseteq hook_events \cup {q.key}
    BY <1>0, <1>1, <1>3, <1>7, Zenon DEF IngressInv, Ended
  <2> QED BY <1>3, <2>1, Zenon DEF FreshDeliveries, Ended
<1>8. AcknowledgedEventsAreApplied'
  BY <1>1, <1>2, <1>3, AnswersAreTrue, Zenon
<1>9. headers' = headers
  BY <1>3, Zenon DEF Ended
<1> QED BY <1>4, <1>5, <1>6, <1>7, <1>8, <1>9, Zenon DEF IngressInv

\* What handlers do to the tables of deliveries is right.
LEMMA IngressSteps ==
  ASSUME IngressInv, IngressStep
  PROVE  IngressInv'
<1>1. PICK r \in Handlers : HandlerStep(r)
  BY Zenon DEF IngressStep
<1>2. CASE \E m \in MRs : \E e \in wire[m] : \E source \in sources :
             Receive(r, m, e, source)
  BY <1>2, IngressReceive, Zenon
<1>3. CASE \/ InsertFindsDuplicate(r) \/ TransactionFails(r)
           \/ ProcessMergeRequestEvent(r) \/ handleNoteEvent(r)
           \/ ProcessPullRequestEvent(r) \/ IgnoreUnsupportedEvent(r)
  BY <1>3, RequestsEnd, IngressEnds, Zenon
<1> QED BY <1>1, <1>2, <1>3, Zenon DEF HandlerStep

-----------------------------------------------------------------------------
(* The table                                                               *)

\* What all but the commands do to review_runs: rows keep what they are for,
\* none comes back to life, and a new one was not created by hand.
NothingRevives ==
  /\ lastId' \in {lastId, lastId + 1}
  /\ runs' \in [1..lastId' -> Rows]
  /\ RowsLast
  /\ lastId' = lastId + 1 => runs'[lastId + 1].key.trigger # "manual"

\* A statement of the scheduler does that.
LEMMA WorkersReviveNothing ==
  ASSUME SchedTypeOK, [SchedNext]_schedAllVars
  PROVE  NothingRevives /\ SchedTypeOK'
<1>1. SchedTypeOK' /\ lastId' = lastId /\ \A i \in 1..lastId : RowStep(runs[i], runs'[i])
  BY SchedTypeStep, SchedRowSteps, Zenon
<1>2. lastId \in Nat /\ runs \in [1..lastId -> Rows] /\ runs' \in [1..lastId' -> Rows]
  BY <1>1, Zenon DEF SchedTypeOK, StoreTypeOK
<1>3. ASSUME NEW i \in 1..lastId
      PROVE  /\ runs'[i].mr = runs[i].mr /\ runs'[i].head = runs[i].head
             /\ runs'[i].key = runs[i].key
             /\ Active(runs'[i]) => Active(runs[i])
  <2>1. runs[i] \in Rows /\ RowStep(runs[i], runs'[i])
    BY <1>1, <1>2, <1>3, Zenon
  <2> QED BY <2>1, RowStepKeepsHistory, RowStepKeepsSettled, Zenon
<1>4. lastId' # lastId + 1
  BY <1>1, <1>2
<1> QED BY <1>1, <1>2, <1>3, <1>4, Zenon DEF NothingRevives, RowsLast

\* A step that leaves the table alone does.
LEMMA SameTable ==
  ASSUME StoreTypeOK, UNCHANGED <<runs, lastId>>
  PROVE  NothingRevives
<1>1. lastId \in Nat /\ lastId' # lastId + 1
  BY DEF StoreTypeOK
<1> QED BY <1>1, Zenon DEF NothingRevives, StoreTypeOK, RowsLast

\* An INSERT into the table, or into one whose rows were superseded before.
LEMMA InsertKeepsType ==
  ASSUME StoreTypeOK, NEW m \in MRs, NEW h \in Heads, NEW key \in Keys,
         lastId' = lastId + 1,
         \/ runs' = Inserted(runs, lastId, InsertReviewRun(m, h, key))
         \/ runs' = Inserted(
              [i \in DOMAIN runs |-> SupersedeActiveRunsForMR(runs[i], m, lastId + 1)],
              lastId, InsertReviewRun(m, h, key))
  PROVE  runs' \in [1..lastId' -> Rows]
<1> DEFINE table == [i \in DOMAIN runs |-> SupersedeActiveRunsForMR(runs[i], m, lastId + 1)]
<1>1. lastId \in Nat /\ runs \in [1..lastId -> Rows] /\ lastId + 1 \in Nat
  BY DEF StoreTypeOK
<1>2. table \in [1..lastId -> Rows]
  BY <1>1, OtherStatementTypes, Zenon
<1>3. InsertReviewRun(m, h, key) \in Rows
  BY InsertType, Zenon
<1> HIDE DEF table
<1>4. /\ Inserted(runs, lastId, InsertReviewRun(m, h, key)) \in [1..(lastId + 1) -> Rows]
      /\ Inserted(table, lastId, InsertReviewRun(m, h, key)) \in [1..(lastId + 1) -> Rows]
  BY <1>1, <1>2, <1>3, InsertedRows, Zenon DEF HasRowMore
<1> QED BY <1>4, Zenon DEF table

\* A rerun comment, which inserts a run or none.
LEMMA RerunRevivesNothing ==
  ASSUME StoreTypeOK, NEW m \in MRs, NEW e, e.head \in Heads, e.n \in Nat,
         ExecuteRerun(m, e)
  PROVE  NothingRevives
<1> DEFINE key == CommandKey(m, e.head, e.n)
<1>1. CASE UNCHANGED <<runs, lastId>>
  BY <1>1, SameTable, Zenon
<1>2. CASE /\ lastId' = lastId + 1
           /\ runs' = Inserted(runs, lastId, InsertReviewRun(m, e.head, key))
  <2>1. key \in Keys /\ key.trigger # "manual"
    BY Zenon DEF CommandKey, Keys, Triggers
  <2> HIDE DEF key
  <2>2. lastId \in Nat
    BY Zenon DEF StoreTypeOK
  <2>3. runs'[lastId + 1].key = key /\ \A i \in 1..lastId : runs'[i] = runs[i]
    BY <1>2, <2>2, InsertCreates, ZenonT(60) DEF Creates
  <2> QED BY <1>2, <2>1, <2>3, InsertKeepsType, Zenon DEF NothingRevives, RowsLast
<1> QED BY <1>1, <1>2, Zenon DEF ExecuteRerun

\* An event that internal/runs processes.
LEMMA EventsReviveNothing ==
  ASSUME StoreTypeOK, NEW m \in MRs, NEW e, e.head \in Heads, e.n \in Nat,
         ProcessEvent(m, e)
  PROVE  NothingRevives
<1>0. lastId \in Nat /\ runs \in [1..lastId -> Rows]
  BY Zenon DEF StoreTypeOK
<1>1. RowsLast
  BY DeliveryRows, Zenon DEF DeliveredRows
<1>2. CASE UNCHANGED <<runs, lastId>>
  BY <1>2, SameTable, Zenon
<1>3. CASE /\ lastId' = lastId
           /\ runs' = [i \in DOMAIN runs |-> CancelPendingRunsForMR(runs[i], m)]
  <2>1. runs' \in [1..lastId' -> Rows]
    BY <1>0, <1>3, OtherStatementTypes, Zenon
  <2>2. lastId' # lastId + 1
    BY <1>0, <1>3
  <2> QED BY <1>1, <1>3, <2>1, <2>2, Zenon DEF NothingRevives
<1>4. ASSUME lastId' = lastId + 1,
             \/ runs' = Inserted(runs, lastId,
                          InsertReviewRun(m, e.head, WebhookKey(m, e.head)))
             \/ runs' = Inserted(
                  [i \in DOMAIN runs |-> SupersedeActiveRunsForMR(runs[i], m, lastId + 1)],
                  lastId, InsertReviewRun(m, e.head, WebhookKey(m, e.head)))
      PROVE  NothingRevives
  <2>1. WebhookKey(m, e.head) \in Keys /\ WebhookKey(m, e.head).trigger # "manual"
    BY Zenon DEF WebhookKey, Keys, Triggers
  <2>2. runs'[lastId + 1].key = WebhookKey(m, e.head)
    BY <1>0, <1>4, InsertCreates DEF Creates
  <2>3. runs' \in [1..lastId' -> Rows]
    BY <1>4, <2>1, InsertKeepsType, Zenon
  <2> QED BY <1>1, <1>4, <2>1, <2>2, <2>3, Zenon DEF NothingRevives
<1>5. CASE ExecuteRerun(m, e)
  BY <1>5, RerunRevivesNothing, Zenon
<1> QED BY <1>2, <1>3, <1>4, <1>5, Zenon
        DEF ProcessEvent, CreatePendingRun, HandleUpdate, CancelRuns

\* What internal/runs is given has the head of the payload.
LEMMA NormalizedEvents ==
  ASSUME NEW e \in Events
  PROVE  /\ NormalizeWebhook(e).head \in Heads /\ NormalizeWebhook(e).n \in Nat
         /\ NormalizeGitHub(e).head \in Heads /\ NormalizeGitHub(e).n \in Nat
         /\ \A key : [e EXCEPT !.n = key].head = e.head /\ [e EXCEPT !.n = key].n = key
         /\ e.head \in Heads
<1>1. e.head \in Heads /\ e.n \in Nat
  BY Zenon DEF Events
<1>2. NormalizeWebhook(e).head \in Heads /\ NormalizeWebhook(e).n \in Nat
  BY <1>1, Zenon DEF NormalizeWebhook, GitLabPayload, Events
<1>3. NormalizeGitHub(e).head \in Heads /\ NormalizeGitHub(e).n \in Nat
  BY <1>1, Zenon DEF NormalizeGitHub, Events
<1>4. \A key : [e EXCEPT !.n = key].head = e.head /\ [e EXCEPT !.n = key].n = key
  BY Zenon DEF Events
<1> QED BY <1>1, <1>2, <1>3, <1>4, Zenon

\* A request does not revive runs either.
LEMMA HandlersReviveNothing ==
  ASSUME StoreTypeOK, IngressInv, IngressStep
  PROVE  NothingRevives
<1>1. PICK r \in Handlers : HandlerStep(r)
  BY Zenon DEF IngressStep
<1> DEFINE q == requests[r]
<1>2. CASE UNCHANGED <<runs, lastId>>
  BY <1>2, SameTable, Zenon
<1>3. ASSUME Ends(r)
      PROVE  q.mr \in MRs /\ q.ev \in Events /\ q.key \in Nat
  BY <1>3, Zenon DEF IngressInv, IngressTypeOK, Requests, Ends
<1>4. CASE ProcessMergeRequestEvent(r)
  <2>1. Ends(r) /\ ProcessEvent(q.mr, NormalizeWebhook(q.ev))
    BY <1>4, Zenon DEF ProcessMergeRequestEvent
  <2> QED BY <1>3, <2>1, NormalizedEvents, EventsReviveNothing, Zenon
<1>5. CASE handleNoteEvent(r)
  <2>1. Ends(r)
    BY <1>5, Zenon DEF handleNoteEvent
  <2> DEFINE e == [q.ev EXCEPT !.n = q.key]
  <2>2. UNCHANGED <<runs, lastId>> \/ ExecuteRerun(q.mr, e)
    BY <1>5, Zenon DEF handleNoteEvent, executeWithQuerier, RollsBack
  <2>3. e.head \in Heads /\ e.n \in Nat
    BY <1>3, <2>1, NormalizedEvents
  <2> HIDE DEF e
  <2> QED BY <1>2, <1>3, <2>1, <2>2, <2>3, RerunRevivesNothing, Zenon
<1>6. CASE ProcessPullRequestEvent(r)
  <2>1. Ends(r)
    BY <1>6, Zenon DEF ProcessPullRequestEvent
  <2>2. UNCHANGED <<runs, lastId>> \/ ProcessEvent(q.mr, NormalizeGitHub(q.ev))
    BY <1>6, Zenon DEF ProcessPullRequestEvent
  <2> QED BY <1>2, <1>3, <2>1, <2>2, NormalizedEvents, EventsReviveNothing, ZenonT(60)
<1>7. \/ UNCHANGED <<runs, lastId>>
      \/ ProcessMergeRequestEvent(r) \/ handleNoteEvent(r) \/ ProcessPullRequestEvent(r)
  BY <1>1 DEF HandlerStep, Receive, InsertFindsDuplicate, TransactionFails,
              IgnoreUnsupportedEvent, RollsBack
<1> QED BY <1>2, <1>4, <1>5, <1>6, <1>7, Zenon

\* Workers are not touched by a table that grows.
LEMMA WorkersStay ==
  ASSUME SchedTypeOK, UNCHANGED schedVars,
         lastId' \in {lastId, lastId + 1}, runs' \in [1..lastId' -> Rows]
  PROVE  SchedTypeOK'
<1>0. StoreTypeOK
  BY TypeParts, Zenon
<1>1. lastId \in Nat /\ lastId' \in Nat /\ lastId <= lastId'
  BY <1>0 DEF StoreTypeOK
<1>2. StoreTypeOK'
  BY <1>1, Zenon DEF StoreTypeOK
<1>3. 0..lastId \subseteq 0..lastId' /\ 1..lastId \subseteq 1..lastId'
  BY <1>1
<1>4. /\ claim' \in [Workers -> 0..lastId']
      /\ gated' \subseteq 1..lastId' /\ broken' \subseteq 1..lastId'
  BY <1>3, Zenon DEF SchedTypeOK, schedVars, workerVars
<1> QED BY <1>2, <1>4, Zenon DEF SchedTypeOK, schedVars, workerVars
-----------------------------------------------------------------------------
(* Commands                                                                *)

NotBegun == [pc |-> "start", result |-> ""]

CommandRecords ==
  [pc : {"trigger", "wait", "process", "writeback", "failed", "done"},
   mr : MRs, run : Nat, processed : BOOLEAN,
   seen : [state : MRStates, head : Heads], result : Statuses \cup {""}]

Begun(c) == command[c] \in CommandRecords

\* The run that a command has created.
HasRun(c) == Begun(c) /\ command[c].run # 0

\* A command that waits for its run or processes it has one of its own, which
\* is marked as created by hand.  What a command reported is over.
CommandsInv ==
  /\ command \in [Commands -> CommandRecords \cup {NotBegun}]
  /\ \A c \in Commands : Begun(c) =>
       /\ command[c].run \in 0..lastId
       /\ command[c].pc \in {"wait", "process", "writeback", "failed"} => HasRun(c)
  /\ \A c \in Commands : HasRun(c) => runs[command[c].run].key.trigger = "manual"
  /\ \A c, d \in Commands :
       HasRun(c) /\ HasRun(d) /\ command[c].run = command[d].run => c = d
  /\ \A c \in Commands : runSucceeded(command[c].result) =>
       HasRun(c) /\ command[c].pc = "done" /\ ~Active(runs[command[c].run])

\* Whoever else does something leaves commands and their runs alone.
LEMMA CommandsElsewhere ==
  ASSUME StoreTypeOK, CommandsInv, ManualRunReplacesOlder, NothingRevives,
         command' = command
  PROVE  CommandsInv' /\ ManualRunReplacesOlder'
<1>0. /\ lastId \in Nat /\ lastId' \in Nat /\ DOMAIN runs = 1..lastId
      /\ DOMAIN runs' = 1..lastId' /\ lastId' \in {lastId, lastId + 1}
  BY DEF StoreTypeOK, NothingRevives
<1>1. \A c \in Commands : (Begun(c)' <=> Begun(c)) /\ (HasRun(c)' <=> HasRun(c))
  BY Zenon DEF Begun, HasRun
<1>2. \A c \in Commands : HasRun(c) => command[c].run \in 1..lastId
  BY <1>0 DEF CommandsInv, HasRun
<1>3. \A c \in Commands : Begun(c) => command[c].run \in 0..lastId'
  BY <1>0 DEF CommandsInv
<1>4. CommandsInv'
  BY <1>1, <1>2, <1>3, Zenon DEF CommandsInv, NothingRevives, RowsLast
<1>5. ASSUME NEW i \in 1..lastId', NEW j \in 1..lastId', i < j,
             runs'[i].mr = runs'[j].mr, runs'[j].key.trigger = "manual",
             runs'[i].key.trigger # "manual"
      PROVE  ~Active(runs'[i])
  <2>1. j # lastId + 1
    BY <1>0, <1>5 DEF NothingRevives
  <2>2. i \in 1..lastId /\ j \in 1..lastId
    BY <1>0, <1>5, <2>1
  <2>3. /\ runs'[i].mr = runs[i].mr /\ runs'[i].key = runs[i].key
        /\ runs'[j].mr = runs[j].mr /\ runs'[j].key = runs[j].key
        /\ Active(runs'[i]) => Active(runs[i])
    BY <2>2, Zenon DEF NothingRevives, RowsLast
  <2> QED BY <1>0, <1>5, <2>2, <2>3, ZenonT(60) DEF ManualRunReplacesOlder
<1> QED BY <1>0, <1>4, <1>5, Zenon DEF ManualRunReplacesOlder

\* A command that has a run, or none yet, goes on with it: it may write to its
\* own run, and it reports a success only of a run that is over.
LEMMA CommandGoesOn ==
  ASSUME StoreTypeOK, CommandsInv, ManualRunReplacesOlder,
         NEW c \in Commands, NEW new \in CommandRecords, Begun(c),
         command[c].pc # "done", SetCommand(c, new), new.run = command[c].run,
         new.pc \in {"trigger", "done"} \/ HasRun(c),
         lastId' = lastId,
         \/ runs' = runs
         \/ /\ HasRun(c)
            /\ \E row \in Rows :
                 /\ row.mr = runs[new.run].mr /\ row.key = runs[new.run].key
                 /\ runs' = [runs EXCEPT ![new.run] = row],
         runSucceeded(new.result) =>
           HasRun(c) /\ new.pc = "done" /\ runs' = runs /\ ~Active(runs[new.run])
  PROVE  /\ StoreTypeOK' /\ CommandsInv' /\ ManualRunReplacesOlder'
<1>0. lastId \in Nat /\ runs \in [1..lastId -> Rows]
  BY Zenon DEF StoreTypeOK
<1>1. /\ command' \in [Commands -> CommandRecords \cup {NotBegun}]
      /\ command'[c] = new
      /\ \A d \in Commands : d # c => command'[d] = command[d]
  BY Zenon DEF CommandsInv, SetCommand
<1>2. \A d \in Commands :
        /\ (Begun(d)' <=> Begun(d)) /\ (HasRun(d)' <=> HasRun(d))
        /\ HasRun(d) => command'[d].run = command[d].run
  BY <1>1, ZenonT(60) DEF Begun, HasRun
<1>3. \A d \in Commands : HasRun(d) => command[d].run \in 1..lastId
  BY <1>0 DEF CommandsInv, HasRun
<1>4. /\ runs' \in [1..lastId -> Rows]
      /\ \A i \in 1..lastId : runs'[i].mr = runs[i].mr /\ runs'[i].key = runs[i].key
      /\ \A i \in 1..lastId : runs'[i] = runs[i] \/ (HasRun(c) /\ i = command[c].run)
  <2>1. CASE runs' = runs
    BY <1>0, <2>1, Zenon
  <2>2. ASSUME HasRun(c),
               NEW row \in Rows, row.mr = runs[new.run].mr, row.key = runs[new.run].key,
               runs' = [runs EXCEPT ![new.run] = row]
        PROVE  /\ runs' \in [1..lastId -> Rows]
               /\ \A i \in 1..lastId :
                    /\ runs'[i].mr = runs[i].mr /\ runs'[i].key = runs[i].key
                    /\ runs'[i] = runs[i] \/ i = command[c].run
    <3>1. new.run \in 1..lastId /\ new.run = command[c].run
      BY <1>3, <2>2, ZenonT(60)
    <3> QED BY <1>0, <2>2, <3>1, ZenonT(60)
  <2> QED BY <2>1, <2>2, Zenon
<1>5. CommandsInv'
  <2>1. \A d \in Commands : Begun(d)' =>
          /\ command'[d].run \in 0..lastId'
          /\ command'[d].pc \in {"wait", "process", "writeback", "failed"} => HasRun(d)'
    BY <1>1, <1>2, Zenon DEF CommandsInv
  <2>2. ASSUME NEW d \in Commands, HasRun(d)'
        PROVE  runs'[command'[d].run].key.trigger = "manual"
    <3>1. /\ HasRun(d) /\ command'[d].run = command[d].run /\ command[d].run \in 1..lastId
          /\ runs[command[d].run].key.trigger = "manual"
      BY <1>2, <1>3, <2>2, ZenonT(60) DEF CommandsInv
    <3> QED BY <1>4, <3>1, Zenon
  <2>3. \A d, e \in Commands :
          HasRun(d)' /\ HasRun(e)' /\ command'[d].run = command'[e].run => d = e
    BY <1>2, Zenon DEF CommandsInv
  <2>4. ASSUME NEW d \in Commands, runSucceeded(command'[d].result)
        PROVE  HasRun(d)' /\ command'[d].pc = "done" /\ ~Active(runs'[command'[d].run])
    <3>1. CASE d = c
      BY <1>1, <1>2, <2>4, <3>1, ZenonT(60)
    <3>2. CASE d # c
      <4>1. /\ command'[d] = command[d] /\ HasRun(d) /\ command[d].pc = "done"
            /\ ~Active(runs[command[d].run])
        BY <1>1, <2>4, <3>2, ZenonT(60) DEF CommandsInv
      <4>2. HasRun(c) => command[d].run # command[c].run
        BY <3>2, <4>1, Zenon DEF CommandsInv
      <4>3. runs'[command[d].run] = runs[command[d].run]
        BY <1>3, <1>4, <4>1, <4>2, ZenonT(60)
      <4> QED BY <1>2, <4>1, <4>3, ZenonT(60)
    <3> QED BY <3>1, <3>2, Zenon
  <2> QED BY <1>1, <2>1, <2>2, <2>3, <2>4, ZenonT(60) DEF CommandsInv
<1>6. ManualRunReplacesOlder'
  <2>1. ASSUME NEW i \in 1..lastId, runs[i].key.trigger # "manual"
        PROVE  runs'[i] = runs[i]
    BY <1>4, <2>1, Zenon DEF CommandsInv
  <2>2. DOMAIN runs = 1..lastId /\ DOMAIN runs' = 1..lastId
    BY <1>0, <1>4, Zenon
  <2> QED BY <1>4, <2>1, <2>2, Zenon DEF ManualRunReplacesOlder
<1>7. StoreTypeOK'
  BY <1>0, <1>4, Zenon DEF StoreTypeOK
<1> QED BY <1>5, <1>6, <1>7, Zenon

\* A run that is created by hand supersedes the active ones.
LEMMA TriggerReplaces ==
  ASSUME StoreTypeOK, CommandsInv, ManualRunReplacesOlder,
         NEW c \in Commands, Trigger(c)
  PROVE  /\ StoreTypeOK' /\ CommandsInv' /\ ManualRunReplacesOlder'
         /\ lastId' = lastId + 1
<1> DEFINE m == command[c].mr
           head == command[c].seen.head
           key == ManualKey(m, head)
           new == [command[c] EXCEPT !.pc = "wait", !.run = lastId + 1]
           table == [i \in DOMAIN runs |-> SupersedeActiveRunsForMR(runs[i], m, lastId + 1)]
<1>0. lastId \in Nat /\ runs \in [1..lastId -> Rows] /\ lastId + 1 \in Nat
      /\ lastId + 1 # 0 /\ lastId + 1 \notin 0..lastId
  BY DEF StoreTypeOK
<1>1. command[c] \in CommandRecords /\ ~runSucceeded(command[c].result)
  <2>1. command[c].pc = "trigger"
    BY Zenon DEF Trigger, CommandAt
  <2>2. command[c] \in CommandRecords \cup {NotBegun} /\ NotBegun.pc = "start"
    BY Zenon DEF CommandsInv, NotBegun
  <2>3. command[c] # NotBegun /\ command[c].pc # "done"
    BY <2>1, <2>2, Zenon
  <2> QED BY <2>2, <2>3, Zenon DEF CommandsInv
<1>2. /\ lastId' = lastId + 1
      /\ runs' = Inserted(table, lastId, InsertReviewRun(m, head, key))
      /\ command' = [command EXCEPT ![c] = new]
  BY Zenon DEF Trigger, SetCommand
<1>3. /\ new \in CommandRecords /\ new.run = lastId + 1 /\ new.pc = "wait"
      /\ new.result = command[c].result
  BY <1>0, <1>1, Zenon DEF CommandRecords
<1>4. m \in MRs /\ head \in Heads
  BY <1>1, Zenon DEF CommandRecords
<1> HIDE DEF m, head
<1>5. key \in Keys /\ key.trigger = "manual"
  BY <1>0, <1>4, Zenon DEF ManualKey, Keys, Triggers
<1> HIDE DEF key, new
<1>6. StoreTypeOK'
  <2>1. runs' \in [1..lastId' -> Rows]
    BY <1>2, <1>4, <1>5, InsertKeepsType, ZenonT(60)
  <2> QED BY <1>0, <1>2, <2>1, Zenon DEF StoreTypeOK
<1>7. /\ runs'[lastId + 1].key = key /\ runs'[lastId + 1].mr = m
      /\ \A i \in 1..lastId : runs'[i] = SupersedeActiveRunsForMR(runs[i], m, lastId + 1)
  <2>1. \A i \in 1..lastId : table[i] = SupersedeActiveRunsForMR(runs[i], m, lastId + 1)
    BY <1>0, Zenon
  <2> HIDE DEF table
  <2> QED BY <1>0, <1>2, <2>1, InsertCreates DEF Creates
<1>8. ASSUME NEW i \in 1..lastId
      PROVE  /\ runs'[i].mr = runs[i].mr /\ runs'[i].key = runs[i].key
             /\ Active(runs'[i]) => Active(runs[i])
             /\ runs[i].mr = m => ~Active(runs'[i])
  <2>1. runs[i] \in Rows
    BY <1>0, <1>8, Zenon
  <2>2. \E n : runs'[i] = SupersedeActiveRunsForMR(runs[i], m, n)
    BY <1>7, <1>8, Zenon
  <2> QED BY <2>1, <2>2, StatementsSettle
<1>9. /\ command' \in [Commands -> CommandRecords \cup {NotBegun}]
      /\ command'[c] = new
      /\ \A d \in Commands : d # c => command'[d] = command[d]
  BY <1>2, <1>3, Zenon DEF CommandsInv
<1>10. /\ \A d \in Commands : d # c =>
            (Begun(d)' <=> Begun(d)) /\ (HasRun(d)' <=> HasRun(d))
       /\ \A d \in Commands : HasRun(d) =>
            command[d].run \in 1..lastId /\ command[d].run # lastId + 1
       /\ HasRun(c)' /\ command'[c].run = lastId + 1
  <2>1. \A d \in Commands : d # c =>
          (Begun(d)' <=> Begun(d)) /\ (HasRun(d)' <=> HasRun(d))
    BY <1>9, Zenon DEF Begun, HasRun
  <2>2. HasRun(c)' /\ command'[c].run = lastId + 1
    BY <1>0, <1>3, <1>9, Zenon DEF Begun, HasRun
  <2>3. \A d \in Commands : HasRun(d) => command[d].run \in 0..lastId /\ command[d].run # 0
    BY Zenon DEF CommandsInv, HasRun
  <2> QED BY <1>0, <2>1, <2>2, <2>3
<1>11. CommandsInv'
  <2>1. ASSUME NEW d \in Commands, Begun(d)'
        PROVE  /\ command'[d].run \in 0..lastId'
               /\ command'[d].pc \in {"wait", "process", "writeback", "failed"} =>
                    HasRun(d)'
    <3>1. CASE d = c
      <4>1. lastId + 1 \in 0..lastId'
        BY <1>0, <1>2
      <4> QED BY <1>10, <3>1, <4>1, Zenon
    <3>2. CASE d # c
      <4>1. command'[d].run \in 0..lastId
        BY <1>9, <1>10, <2>1, <3>2, Zenon DEF CommandsInv
      <4>2. command'[d].run \in 0..lastId'
        BY <1>0, <1>2, <4>1
      <4> QED BY <1>9, <1>10, <2>1, <3>2, <4>2, ZenonT(60) DEF CommandsInv
    <3> QED BY <3>1, <3>2, Zenon
  <2>2. ASSUME NEW d \in Commands, HasRun(d)'
        PROVE  runs'[command'[d].run].key.trigger = "manual"
    <3>1. CASE d = c
      BY <1>5, <1>7, <1>10, <3>1, Zenon
    <3>2. CASE d # c
      <4>1. /\ command'[d].run = command[d].run /\ command[d].run \in 1..lastId
            /\ runs[command[d].run].key.trigger = "manual"
        BY <1>9, <1>10, <2>2, <3>2, Zenon DEF CommandsInv
      <4> QED BY <1>8, <4>1, Zenon
    <3> QED BY <3>1, <3>2, Zenon
  <2>3. ASSUME NEW d \in Commands, NEW e \in Commands, HasRun(d)', HasRun(e)',
               command'[d].run = command'[e].run
        PROVE  d = e
    BY <1>9, <1>10, <2>3, ZenonT(60) DEF CommandsInv
  <2>4. ASSUME NEW d \in Commands, runSucceeded(command'[d].result)
        PROVE  HasRun(d)' /\ command'[d].pc = "done" /\ ~Active(runs'[command'[d].run])
    <3>1. d # c
      BY <1>1, <1>3, <1>9, <2>4, Zenon
    <3>2. /\ command'[d] = command[d] /\ HasRun(d) /\ command[d].pc = "done"
          /\ ~Active(runs[command[d].run]) /\ command[d].run \in 1..lastId
      BY <1>9, <1>10, <2>4, <3>1, Zenon DEF CommandsInv
    <3> QED BY <1>8, <1>10, <3>1, <3>2, Zenon
  <2> QED BY <1>9, <2>1, <2>2, <2>3, <2>4, ZenonT(60) DEF CommandsInv
<1>12. ManualRunReplacesOlder'
  <2>1. DOMAIN runs = 1..lastId /\ DOMAIN runs' = 1..(lastId + 1)
    BY <1>0, <1>2, <1>6, Zenon DEF StoreTypeOK
  <2>2. ASSUME NEW i \in 1..(lastId + 1), NEW j \in 1..(lastId + 1), i < j,
               runs'[i].mr = runs'[j].mr, runs'[j].key.trigger = "manual",
               runs'[i].key.trigger # "manual"
        PROVE  ~Active(runs'[i])
    <3>1. i \in 1..lastId /\ (j = lastId + 1 \/ j \in 1..lastId)
      BY <1>0, <2>2
    <3>2. CASE j = lastId + 1
      BY <1>7, <1>8, <2>2, <3>1, <3>2, ZenonT(60)
    <3>3. CASE j \in 1..lastId
      BY <1>8, <2>1, <2>2, <3>1, <3>3, ZenonT(60) DEF ManualRunReplacesOlder
    <3> QED BY <3>1, <3>2, <3>3, Zenon
  <2> QED BY <2>1, <2>2, Zenon DEF ManualRunReplacesOlder
<1> QED BY <1>2, <1>6, <1>11, <1>12, Zenon

\* A status that is written to a row leaves a row for the same thing.
LEMMA StatusKeepsRow ==
  ASSUME NEW row \in Rows, NEW s, NEW code
  PROVE  /\ UpdateReviewRunStatus(row, s, code).mr = row.mr
         /\ UpdateReviewRunStatus(row, s, code).key = row.key
BY Zenon DEF UpdateReviewRunStatus, Rows

\* The steps of a command after it has created its run, and its end.
LEMMA CommandsGoOn ==
  ASSUME StoreTypeOK, CommandsInv, ManualRunReplacesOlder, NEW c \in Commands,
         \/ WaitForTerminalRun(c) \/ ProcessRun(c) \/ WriteBack(c)
         \/ processPendingRun(c) \/ CommandStops(c)
  PROVE  /\ StoreTypeOK' /\ CommandsInv' /\ ManualRunReplacesOlder'
         /\ lastId' = lastId
<1> DEFINE i == command[c].run
<1>0. /\ command[c].pc \in {"trigger", "wait", "process", "writeback", "failed"}
      /\ lastId' = lastId
  BY Zenon DEF WaitForTerminalRun, ProcessRun, WriteBack, processPendingRun,
     CommandStops,
         CommandAt
<1>1. /\ command[c] \in CommandRecords /\ Begun(c) /\ command[c].pc # "done"
      /\ ~runSucceeded(command[c].result)
      /\ command[c].pc \in {"wait", "process", "writeback", "failed"} => HasRun(c)
  <2>1. command[c] \in CommandRecords \cup {NotBegun} /\ NotBegun.pc = "start"
    BY Zenon DEF CommandsInv, NotBegun
  <2>2. command[c] # NotBegun /\ command[c].pc # "done"
    BY <1>0, <2>1, Zenon
  <2> QED BY <2>1, <2>2, Zenon DEF CommandsInv, Begun
<1>2. HasRun(c) => i \in 1..lastId /\ runs[i] \in Rows
  <2>1. lastId \in Nat /\ runs \in [1..lastId -> Rows]
    BY Zenon DEF StoreTypeOK
  <2>2. HasRun(c) => i \in 0..lastId /\ i # 0
    BY Zenon DEF CommandsInv, HasRun
  <2> QED BY <2>1, <2>2
<1>3. ASSUME NEW next \in {"wait", "process", "writeback", "failed", "done"},
             SetCommand(c, [command[c] EXCEPT !.pc = next]),
             next = "done" \/ HasRun(c),
             \/ runs' = runs
             \/ /\ HasRun(c)
                /\ \E row \in Rows :
                     /\ row.mr = runs[i].mr /\ row.key = runs[i].key
                     /\ runs' = [runs EXCEPT ![i] = row]
      PROVE  StoreTypeOK' /\ CommandsInv' /\ ManualRunReplacesOlder'
  <2> DEFINE new == [command[c] EXCEPT !.pc = next]
  <2>1. /\ new \in CommandRecords /\ new.run = i /\ new.pc = next
        /\ new.result = command[c].result
    BY <1>1, <1>3, Zenon DEF CommandRecords
  <2> HIDE DEF new
  <2> QED BY <1>0, <1>1, <1>3, <2>1, CommandGoesOn, Zenon DEF new
<1>4. ASSUME NEW status \in Statuses, NEW code, SetStatus(c, status, code), HasRun(c),
             UpdateReviewRunStatus(runs[i], status, code) \in Rows
      PROVE  \E row \in Rows :
               /\ row.mr = runs[i].mr /\ row.key = runs[i].key
               /\ runs' = [runs EXCEPT ![i] = row]
  <2> DEFINE row == UpdateReviewRunStatus(runs[i], status, code)
  <2>1. runs' = [runs EXCEPT ![i] = row]
    BY <1>4, Zenon DEF SetStatus
  <2>2. runs[i] \in Rows
    BY <1>2, <1>4, Zenon
  <2>3. row \in Rows /\ row.mr = runs[i].mr /\ row.key = runs[i].key
    BY <1>4, <2>2, StatusKeepsRow
  <2> HIDE DEF row
  <2> QED BY <2>1, <2>3, Zenon
<1>5. CASE WaitForTerminalRun(c)
  <2> DEFINE status == runs[i].status
  <2>1. /\ command[c].pc = "wait" /\ runs' = runs
        /\ \/ /\ isTerminalStatus(status)
              /\ SetCommand(c, [command[c] EXCEPT !.pc = "done", !.result = status])
           \/ SetCommand(c, [command[c] EXCEPT !.pc = "process", !.processed = TRUE])
    BY <1>5, Zenon DEF WaitForTerminalRun, CommandAt
  <2>2. HasRun(c) /\ runs[i] \in Rows /\ status \in Statuses
    <3>1. HasRun(c) /\ runs[i] \in Rows
      BY <1>1, <1>2, <2>1, Zenon
    <3> QED BY <3>1, Zenon DEF Rows
  <2>3. runSucceeded(status) => ~Active(runs[i])
    BY Zenon DEF runSucceeded, Active
  <2> HIDE DEF status
  <2>4. ASSUME SetCommand(c, [command[c] EXCEPT !.pc = "done", !.result = status])
        PROVE  StoreTypeOK' /\ CommandsInv' /\ ManualRunReplacesOlder'
    <3> DEFINE new == [command[c] EXCEPT !.pc = "done", !.result = status]
    <3>1. /\ new \in CommandRecords /\ new.run = i /\ new.pc = "done"
          /\ new.result = status
      BY <1>1, <2>2, Zenon DEF CommandRecords
    <3>2. SetCommand(c, new)
      BY <2>4, Zenon
    <3> HIDE DEF new
    <3> QED BY <1>0, <1>1, <2>1, <2>2, <2>3, <3>1, <3>2, CommandGoesOn, ZenonT(60)
  <2>5. ASSUME SetCommand(c, [command[c] EXCEPT !.pc = "process", !.processed = TRUE])
        PROVE  StoreTypeOK' /\ CommandsInv' /\ ManualRunReplacesOlder'
    <3> DEFINE new == [command[c] EXCEPT !.pc = "process", !.processed = TRUE]
    <3>1. /\ new \in CommandRecords /\ new.run = i /\ new.pc = "process"
          /\ new.result = command[c].result
      BY <1>1, <2>2, Zenon DEF CommandRecords
    <3>2. SetCommand(c, new)
      BY <2>5, Zenon
    <3> HIDE DEF new
    <3> QED BY <1>0, <1>1, <2>1, <2>2, <3>1, <3>2, CommandGoesOn, ZenonT(60)
  <2> QED BY <1>0, <2>1, <2>4, <2>5, Zenon
<1>6. CASE ProcessRun(c)
  <2>1. HasRun(c) /\ runs[i] \in Rows
    BY <1>1, <1>2, <1>6, ZenonT(60) DEF ProcessRun, CommandAt
  <2>2. CASE /\ \E final \in {"completed", "requested_changes", "parser_error"} :
                  SetStatus(c, final, "")
             /\ SetCommand(c, [command[c] EXCEPT !.pc = "writeback"])
    <3>1. PICK final \in Statuses : SetStatus(c, final, "")
      BY <2>2, Zenon DEF Statuses
    <3>2. UpdateReviewRunStatus(runs[i], final, "") \in Rows
      BY <2>1, StatementTypes, Zenon
    <3> QED BY <1>0, <1>3, <1>4, <2>1, <2>2, <3>1, <3>2, ZenonT(60)
  <2>3. CASE runs' = runs /\ SetCommand(c, [command[c] EXCEPT !.pc = "failed"])
    BY <1>0, <1>3, <2>1, <2>3, Zenon
  <2> QED BY <1>6, <2>2, <2>3, Zenon DEF ProcessRun
<1>7. CASE WriteBack(c)
  <2>1. HasRun(c) /\ runs' = runs
    BY <1>1, <1>7, Zenon DEF WriteBack, CommandAt
  <2>2. PICK next \in {"wait", "failed"} : SetCommand(c, [command[c] EXCEPT !.pc = next])
    BY <1>7, Zenon DEF WriteBack
  <2> QED BY <1>0, <1>3, <2>1, <2>2, Zenon
<1>8. CASE processPendingRun(c)
  <2>1. /\ HasRun(c) /\ runs[i] \in Rows
        /\ SetStatus(c, "failed", "run_failed")
        /\ SetCommand(c, [command[c] EXCEPT !.pc = "wait"])
    BY <1>1, <1>2, <1>8, Zenon DEF processPendingRun, CommandAt
  <2>2. /\ "failed" \in Statuses
        /\ UpdateReviewRunStatus(runs[i], "failed", "run_failed") \in Rows
    BY <2>1, Zenon DEF UpdateReviewRunStatus, Rows, ErrorCodes, Statuses
  <2> QED BY <1>0, <1>3, <1>4, <2>1, <2>2, ZenonT(60)
<1>9. CASE CommandStops(c)
  BY <1>0, <1>3, <1>9, Zenon DEF CommandStops
<1> QED BY <1>5, <1>6, <1>7, <1>8, <1>9, <1>0, ZenonT(60)

\* A command that starts has no run yet.
LEMMA CommandsStart ==
  ASSUME StoreTypeOK, CommandsInv, ManualRunReplacesOlder, IngressInv,
         NEW c \in Commands, CommandStarts(c)
  PROVE  CommandsInv' /\ ManualRunReplacesOlder' /\ UNCHANGED <<runs, lastId>>
<1>1. PICK m \in MRs : GetMergeRequest(c, m)
  BY Zenon DEF CommandStarts
<1> DEFINE new == [pc |-> "trigger", mr |-> m, run |-> 0, processed |-> FALSE,
                   seen |-> [state |-> forge[m].state, head |-> forge[m].head],
                   result |-> ""]
<1>2. /\ command' = [command EXCEPT ![c] = new] /\ command[c].pc = "start"
      /\ runs' = runs /\ lastId' = lastId
  BY <1>1, Zenon DEF GetMergeRequest, SetCommand, CommandAt
<1>3. lastId \in Nat /\ 0 \in Nat /\ 0 \in 0..lastId
  BY DEF StoreTypeOK
<1>4. forge[m].state \in MRStates /\ forge[m].head \in Heads
  BY Zenon DEF IngressInv, IngressTypeOK
<1>5. /\ new \in CommandRecords /\ new.run = 0 /\ new.pc = "trigger"
      /\ ~runSucceeded(new.result)
  BY <1>3, <1>4, Zenon DEF CommandRecords, runSucceeded
<1> HIDE DEF new
<1>6. /\ command' \in [Commands -> CommandRecords \cup {NotBegun}]
      /\ command'[c] = new
      /\ \A d \in Commands : d # c => command'[d] = command[d]
  BY <1>2, <1>5, Zenon DEF CommandsInv
<1>7. /\ \A d \in Commands : d # c =>
           (Begun(d)' <=> Begun(d)) /\ (HasRun(d)' <=> HasRun(d))
      /\ ~HasRun(c)'
  BY <1>5, <1>6, Zenon DEF Begun, HasRun
<1>8. CommandsInv'
  <2>1. ASSUME NEW d \in Commands, Begun(d)'
        PROVE  /\ command'[d].run \in 0..lastId'
               /\ command'[d].pc \in {"wait", "process", "writeback", "failed"} =>
                    HasRun(d)'
    BY <1>2, <1>3, <1>5, <1>6, <1>7, <2>1, ZenonT(60) DEF CommandsInv
  <2>2. ASSUME NEW d \in Commands, HasRun(d)'
        PROVE  runs'[command'[d].run].key.trigger = "manual"
    BY <1>2, <1>6, <1>7, <2>2, ZenonT(60) DEF CommandsInv
  <2>3. ASSUME NEW d \in Commands, NEW e \in Commands, HasRun(d)', HasRun(e)',
               command'[d].run = command'[e].run
        PROVE  d = e
    BY <1>6, <1>7, <2>3, Zenon DEF CommandsInv
  <2>4. ASSUME NEW d \in Commands, runSucceeded(command'[d].result)
        PROVE  HasRun(d)' /\ command'[d].pc = "done" /\ ~Active(runs'[command'[d].run])
    BY <1>2, <1>5, <1>6, <1>7, <2>4, ZenonT(60) DEF CommandsInv
  <2> QED BY <1>6, <2>1, <2>2, <2>3, <2>4, ZenonT(60) DEF CommandsInv
<1>9. ManualRunReplacesOlder'
  BY <1>2, Zenon DEF ManualRunReplacesOlder
<1> QED BY <1>2, <1>8, <1>9, Zenon
-----------------------------------------------------------------------------
(* The deployment                                                          *)

DeploymentInv == SchedTypeOK /\ IngressInv /\ CommandsInv /\ ManualRunReplacesOlder

\* Nothing is delivered, no command runs and no run was created by hand yet.
LEMMA DeploymentStarts ==
  ASSUME DeploymentInit
  PROVE  DeploymentInv
<1> USE DEF DeploymentInit
<1>1. SchedTypeOK
  BY SchedInitTypeOK, Zenon DEF Init
<1>2. \A r \in Handlers : ~Busy(r)
  BY Zenon DEF IngressInit, Busy
<1>3. \A m \in MRs : \A e : ~UnderWay(m, e)
  BY <1>2, Zenon DEF Init, IntakeInit, UnderWay
<1>4. IngressTypeOK
  <2>1. forge \in [MRs -> [state : MRStates, head : Heads, past : SUBSET Heads]]
    <3> DEFINE fresh == {[state |-> "none", head |-> h, past |-> {}] : h \in Heads}
    <3>1. forge \in [MRs -> fresh]
      BY Zenon DEF Init, IntakeInit
    <3>2. fresh \subseteq [state : MRStates, head : Heads, past : SUBSET Heads]
      BY DEF MRStates
    <3> HIDE DEF fresh
    <3> QED BY <3>1, <3>2, Zenon
  <2>2. moves \in 0..MaxMoves /\ received \in Nat
    <3>1. moves = 0 /\ received = 0
      BY Zenon DEF Init, IntakeInit, IngressInit
    <3> QED BY <3>1, IntakeAssumption
  <2>3. applied \in [1..MaxMoves -> [Sources -> Nat]]
    BY Zenon DEF IngressInit
  <2>4. sources \subseteq Sources
    BY Zenon DEF IngressInit, Sources
  <2>5. wire \in [MRs -> SUBSET Events]
    BY Zenon DEF Init, IntakeInit
  <2>6. requests \in [Handlers -> Requests \cup {NoDelivery}] /\ headers \in BOOLEAN
        /\ hook_events = {} /\ audit_logs = {}
    BY Zenon DEF IngressInit
  <2> QED BY <2>1, <2>2, <2>3, <2>4, <2>5, <2>6, ZenonT(60) DEF IngressTypeOK
<1>5. hook_events = {} /\ audit_logs = {}
  BY Zenon DEF IngressInit
<1>6. NamedDeliveries
  <2>1. \A n \in 1..MaxMoves, source \in Sources : applied[n][source] = 0
    BY Zenon DEF IngressInit
  <2> QED BY <1>2, <1>3, <1>5, <2>1, ZenonT(60) DEF NamedDeliveries
<1>7. IngressInv
  BY <1>2, <1>3, <1>4, <1>5, <1>6, ZenonT(60)
     DEF IngressInv, EventsAreNumbered, FreshDeliveries, AcknowledgedEventsAreApplied
<1>8. CommandsInv
  <2>1. command = [c \in Commands |-> NotBegun]
    BY Zenon DEF ManualInit, NotBegun
  <2>2. NotBegun \notin CommandRecords /\ ~runSucceeded(NotBegun.result)
    BY Zenon DEF NotBegun, CommandRecords, runSucceeded
  <2> QED BY <2>1, <2>2, Zenon DEF CommandsInv, Begun, HasRun
<1>9. \A i \in DOMAIN runs : runs[i].key.trigger = "webhook"
  <2>1. runs = [i \in 1..Len(Backlog) |->
                  InsertReviewRun(Backlog[i].mr, Backlog[i].head,
                    [trigger |-> "webhook", mr |-> Backlog[i].mr,
                     head |-> Backlog[i].head, nonce |-> 0])]
    BY Zenon DEF Init, SchedInit
  <2> QED BY <2>1, Zenon DEF InsertReviewRun
<1>10. ManualRunReplacesOlder
  BY <1>9, Zenon DEF ManualRunReplacesOlder
<1> QED BY <1>1, <1>7, <1>8, <1>10, ZenonT(60) DEF DeploymentInv

\* A step of anyone keeps all of it.
LEMMA DeploymentStep ==
  ASSUME DeploymentInv, [DeploymentNext]_deploymentVars
  PROVE  DeploymentInv'
<1>0. /\ SchedTypeOK /\ StoreTypeOK /\ IngressInv /\ CommandsInv
      /\ ManualRunReplacesOlder
  BY TypeParts, Zenon DEF DeploymentInv
<1>i. /\ moves \in 0..MaxMoves /\ moves \in Nat /\ moves <= moves /\ MaxMoves \in Nat
      /\ forge \in [MRs -> [state : MRStates, head : Heads, past : SUBSET Heads]]
  BY <1>0, IntakeAssumption DEF IngressInv, IngressTypeOK
<1>1. ASSUME [SchedNext]_schedAllVars, UNCHANGED <<intakeVars, ingressVars, command>>
      PROVE  DeploymentInv'
  <2>1. NothingRevives /\ SchedTypeOK'
    BY <1>0, <1>1, WorkersReviveNothing, Zenon
  <2>2. IngressInv'
    <3>1. UNCHANGED <<ingressVars, wire>> /\ moves' = moves /\ forge' = forge
      BY <1>1, Zenon DEF intakeVars
    <3> QED BY <1>0, <1>i, <3>1, IngressElsewhere, Zenon
  <2>3. CommandsInv' /\ ManualRunReplacesOlder'
    BY <1>0, <1>1, <2>1, CommandsElsewhere, Zenon
  <2> QED BY <2>1, <2>2, <2>3, Zenon DEF DeploymentInv
<1>2. ASSUME NEW m \in MRs, ForgeMovesOn(m), UNCHANGED <<schedVars, command>>
      PROVE  DeploymentInv'
  <2>1. IngressInv'
    BY <1>0, <1>2, IngressForge, Zenon
  <2>2. UNCHANGED <<runs, lastId>>
    BY <1>2, Zenon DEF ForgeMovesOn, ForgeMoves
  <2>3. NothingRevives
    BY <1>0, <2>2, SameTable, Zenon
  <2>4. SchedTypeOK'
    BY <1>0, <1>2, <2>3, WorkersStay, ZenonT(60) DEF NothingRevives
  <2>5. CommandsInv' /\ ManualRunReplacesOlder'
    BY <1>0, <1>2, <2>3, CommandsElsewhere, ZenonT(60)
  <2> QED BY <2>1, <2>4, <2>5, Zenon DEF DeploymentInv
<1>3. ASSUME IngressStep, UNCHANGED <<schedVars, command>>
      PROVE  DeploymentInv'
  <2>1. IngressInv' /\ NothingRevives
    BY <1>0, <1>3, IngressSteps, HandlersReviveNothing, Zenon
  <2>2. SchedTypeOK'
    BY <1>0, <1>3, <2>1, WorkersStay, Zenon DEF NothingRevives
  <2>3. CommandsInv' /\ ManualRunReplacesOlder'
    BY <1>0, <1>3, <2>1, CommandsElsewhere, Zenon
  <2> QED BY <2>1, <2>2, <2>3, Zenon DEF DeploymentInv
<1>4. ASSUME NEW c \in Commands, CommandStarts(c) \/ CommandStep(c),
             UNCHANGED <<schedVars, ingressVars>>
      PROVE  DeploymentInv'
  <2>1. IngressInv'
    <3>1. UNCHANGED <<forge, wire>>
      BY <1>4, Zenon DEF CommandStarts, GetMergeRequest, CommandStep, Trigger,
                  WaitForTerminalRun, ProcessRun, WriteBack, processPendingRun,
                  CommandStops, CommandAt
    <3>2. moves' = moves \/ (moves < MaxMoves /\ moves' = moves + 1)
      BY <1>4, Zenon DEF CommandStarts, GetMergeRequest, CommandStep, Trigger,
                  WaitForTerminalRun, ProcessRun, WriteBack, processPendingRun,
                  CommandStops
    <3>3. moves' \in 0..MaxMoves /\ moves <= moves'
      BY <1>i, <3>2
    <3> QED BY <1>0, <1>i, <1>4, <3>1, <3>3, IngressElsewhere, ZenonT(60)
  <2>2. ASSUME StoreTypeOK', lastId' \in {lastId, lastId + 1}
        PROVE  SchedTypeOK'
    BY <1>0, <1>4, <2>2, WorkersStay, ZenonT(60) DEF StoreTypeOK
  <2>3. CASE CommandStarts(c)
    <3>1. CommandsInv' /\ ManualRunReplacesOlder' /\ UNCHANGED <<runs, lastId>>
      BY <1>0, <2>3, CommandsStart, Zenon
    <3> QED BY <1>0, <2>1, <2>2, <3>1, Zenon DEF DeploymentInv, StoreTypeOK
  <2>4. CASE Trigger(c)
    BY <1>0, <2>1, <2>2, <2>4, TriggerReplaces, ZenonT(60) DEF DeploymentInv
  <2>5. CASE \/ WaitForTerminalRun(c) \/ ProcessRun(c) \/ WriteBack(c)
             \/ processPendingRun(c) \/ CommandStops(c)
    BY <1>0, <2>1, <2>2, <2>5, CommandsGoOn, ZenonT(60) DEF DeploymentInv
  <2> QED BY <1>4, <2>3, <2>4, <2>5, ZenonT(60) DEF CommandStep
<1>5. CASE UNCHANGED deploymentVars
  BY <1>1, <1>5, Zenon DEF deploymentVars, vars
<1>6. CASE DeploymentNext
  BY <1>1, <1>2, <1>3, <1>4, <1>6, ZenonT(60) DEF DeploymentNext
<1> QED BY <1>5, <1>6, Zenon

\* The invariant behind the four theorems below, for any number of workers,
\* requests and commands, with crashes, lost requests and events in any order.
LEMMA DeploymentInvariant == DeploymentSpec => []DeploymentInv
<1>1. DeploymentInit => DeploymentInv
  BY DeploymentStarts, Zenon
<1>2. DeploymentInv /\ [DeploymentNext]_deploymentVars => DeploymentInv'
  BY DeploymentStep
<1> QED BY <1>1, <1>2, PTL DEF DeploymentSpec

\* What a webhook handler acknowledged has been applied, whichever requests
\* came in together and whatever was lost or rolled back.
THEOREM AcknowledgedIsApplied == DeploymentSpec => []AcknowledgedEventsAreApplied
<1>1. DeploymentInv => AcknowledgedEventsAreApplied
  BY DEF DeploymentInv, IngressInv
<1> QED BY <1>1, DeploymentInvariant, PTL

\* If the forge names its deliveries, the handlers apply an event at most once
\* for each hook, however often and concurrently it is delivered.
THEOREM DeliveriesApplyOnce == DeploymentSpec => []EventsAreAppliedOnce
<1>1. ASSUME DeploymentInv PROVE EventsAreAppliedOnce
  <2>1. headers => NamedDeliveries
    BY <1>1, Zenon DEF DeploymentInv, IngressInv
  <2>2. DOMAIN applied = 1..MaxMoves
    BY <1>1, Zenon DEF DeploymentInv, IngressInv, IngressTypeOK
  <2> QED BY <2>1, <2>2 DEF NamedDeliveries, EventsAreAppliedOnce
<1> QED BY <1>1, DeploymentInvariant, PTL

\* A run created by the manual trigger leaves no older run of its merge request
\* active but other manual ones, and neither workers nor webhooks revive one.
THEOREM ManualRunWins == DeploymentSpec => []ManualRunReplacesOlder
<1>1. DeploymentInv => ManualRunReplacesOlder
  BY DEF DeploymentInv
<1> QED BY <1>1, DeploymentInvariant, PTL

\* A command that exited with success has a run that is over for good, though
\* it claims nothing and a worker may have processed the same run.
THEOREM SuccessIsFinal == DeploymentSpec => []ReportedSuccessIsFinal
<1>1. DeploymentInv => ReportedSuccessIsFinal
  BY Zenon DEF DeploymentInv, CommandsInv, ReportedSuccessIsFinal
<1> QED BY <1>1, DeploymentInvariant, PTL
=============================================================================
