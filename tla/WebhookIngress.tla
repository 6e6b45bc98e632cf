--------------------------- MODULE WebhookIngress ---------------------------
(***************************************************************************)
(* internal/hooks/handler.go and internal/githubhooks: the HTTP handlers   *)
(* that turn deliveries into events of internal/runs.                      *)
(*                                                                         *)
(* A request looks its delivery key up, then inserts the key and processes *)
(* the event in one transaction, then writes an audit entry and answers.   *)
(* Several requests are handled at the same time, some of them repeated    *)
(* deliveries of one event.  The events and the order in which the forge   *)
(* sends them are those of RunIntake.                                      *)
(***************************************************************************)
EXTENDS RunIntake

CONSTANTS
  Handlers,     \* requests that are handled at the same time
  NoDelivery,   \* a handler without a request
  MaxLosses,    \* bound on rejected requests, failed statements and stops
  MaxOddMoves   \* bound on the moves of an odd deployment, below MaxMoves

VARIABLES
  platform,     \* where each merge request lives, "gitlab" or "github"
  headers,      \* does the forge name its deliveries?  GitHub always does
  sources,      \* the hooks that are set up: the project's, or two others
  edits,        \* the events that leave the head as it was
  requests,     \* the request each handler is busy with
  received,     \* requests without a header so far
  losses,       \* losses so far
  hook_events,  \* the delivery keys of the table
  audit_logs,   \* webhook_received entries that acknowledge an event
  applied       \* history: transactions committed per event and source

ingressVars == <<platform, headers, sources, edits, requests, received, losses,
                 hook_events, audit_logs, applied>>

Sources == {"project", "group", "system"}

IngressInit ==
  /\ platform \in [MRs -> {"gitlab", "github"}]
  /\ headers \in BOOLEAN
  /\ sources \in {{"project"}, {"group", "system"}}
  /\ ~headers => sources = {"project"}
  /\ (\E m \in MRs : platform[m] = "github") => headers /\ sources = {"project"}
  /\ edits = {}
  /\ requests = [r \in Handlers |-> NoDelivery]
  /\ received = 0
  /\ losses = 0
  /\ hook_events = {}
  /\ audit_logs = {}
  /\ applied = [n \in 1..MaxMoves |-> [s \in Sources |-> 0]]

\* Anything but a GitLab with one hook that names its deliveries and a service
\* that loses none.
Odd ==
  \/ ~headers \/ losses > 0 \/ sources # {"project"}
  \/ \E m \in MRs : platform[m] = "github"

\* The forge moves on, and the handlers know nothing of it yet.
ForgeMovesOn(m) ==
  /\ Odd => moves < MaxOddMoves
  /\ ForgeMoves(m)
  /\ edits' = IF forge'[m].head = forge[m].head THEN edits \cup {moves'} ELSE edits
  /\ UNCHANGED <<platform, headers, sources, requests, received, losses, hook_events,
                 audit_logs, applied>>
-----------------------------------------------------------------------------
(* The words of the forges for an event, and those of internal/runs        *)

GitLabPayload(e) ==
  [object_kind |-> IF e.action = "rerun" THEN "note" ELSE "merge_request",
   object_attributes |->
     [action |-> e.action, state |-> e.state, last_commit |-> e.head]]

\* The hook that sends an event is not part of it.
NormalizeWebhook(e) ==
  LET raw == GitLabPayload(e).object_attributes
  IN [e EXCEPT !.action = raw.action, !.state = raw.state, !.head = raw.last_commit]

\* A closed pull request may be merged; "edited" is a change of the title.
GitHubPayload(e) ==
  [action |-> CASE e.action = "open" -> "opened"
                [] e.action = "reopen" -> "reopened"
                [] e.action = "update" /\ e.n \in edits -> "edited"
                [] e.action = "update" /\ e.n \notin edits -> "synchronize"
                [] OTHER -> "closed",
   state |-> IF e.state = "opened" THEN "open" ELSE "closed",
   merged |-> e.state = "merged"]

normalizeAction(action, merged) ==
  CASE action = "opened" -> "open"
    [] action = "reopened" -> "reopen"
    [] action = "synchronize" -> "update"
    [] action = "closed" -> IF merged THEN "merge" ELSE "close"
    [] OTHER -> action

normalizeState(state, merged) ==
  IF state = "closed" /\ merged THEN "merged" ELSE state

NormalizeGitHub(e) ==
  LET raw == GitHubPayload(e)
  IN [e EXCEPT !.action = normalizeAction(raw.action, raw.merged),
               !.state = normalizeState(raw.state, raw.merged)]
-----------------------------------------------------------------------------
(* One request                                                             *)

\* A hook of the whole instance has one header for all that it sends, and the
\* payload says what it is.  Payloads of a group's hook name the group.
Header(e, source) ==
  IF source = "system" THEN "System Hook"
  ELSE IF e.action = "rerun" THEN "Note Hook" ELSE "Merge Request Hook"

detectHookSource(header) == IF header = "System Hook" THEN "system" ELSE "project"

inferWebhookSource(namesGroup, fallback) ==
  IF fallback # "system" /\ namesGroup THEN "group" ELSE fallback

hookSource(q) == inferWebhookSource(q.group, detectHookSource(q.header))

isNoteEvent(q) ==
  \/ q.header = "Note Hook"
  \/ q.header = "System Hook" /\ GitLabPayload(q.ev).object_kind = "note"

isMREvent(q) ==
  \/ q.header = "Merge Request Hook"
  \/ q.header = "System Hook" /\ GitLabPayload(q.ev).object_kind = "merge_request"

\* The key in the header identifies what one hook says of an event; without
\* such a header every request gets a key of its own.
extractDeliveryKey(e, source) ==
  IF headers THEN 2 * e.n - (IF source = "system" THEN 1 ELSE 0)
  ELSE 2 * MaxMoves + received + 1

GetHookEventByDeliveryKey(key) == key \in hook_events

InsertHookEvent(key) == hook_events' = hook_events \cup {key}

InsertAuditLog(outcome, m, e) ==
  audit_logs' = audit_logs \cup {[outcome |-> outcome, mr |-> m, ev |-> e]}

\* Some statement fails or the server stops: no audit entry, no answer.
Loses ==
  /\ losses < MaxLosses /\ moves <= MaxOddMoves
  /\ losses' = losses + 1

\* The audit entry that goes with a positive answer.
Acknowledge(outcome, m, e) ==
  \/ InsertAuditLog(outcome, m, e) /\ UNCHANGED losses
  \/ Loses /\ UNCHANGED audit_logs

\* A request comes in and looks its key up.  A lookup that fails is like one
\* that finds nothing.  A bad token, signature or body is refused before.
Receive(r, m, e, source) ==
  LET key == extractDeliveryKey(e, source)
      proceed == requests' = [requests EXCEPT ![r] =
        [mr |-> m, ev |-> e, key |-> key, header |-> Header(e, source),
         group |-> source = "group"]]
  IN
  /\ requests[r] = NoDelivery
  /\ received' = IF headers THEN received ELSE received + 1
  /\ \/ wire' = [wire EXCEPT ![m] = @ \ {e}] /\ UNCHANGED duplicates
     \/ /\ duplicates < MaxDuplicates
        /\ duplicates' = duplicates + 1
        /\ UNCHANGED wire
  /\ \/ /\ GetHookEventByDeliveryKey(key)
        /\ Acknowledge("deduplicated", m, e) /\ UNCHANGED requests
     \/ /\ ~GetHookEventByDeliveryKey(key)
        /\ proceed /\ UNCHANGED <<audit_logs, losses>>
     \/ /\ GetHookEventByDeliveryKey(key)
        /\ proceed /\ Loses /\ UNCHANGED audit_logs
     \/ Loses /\ UNCHANGED <<requests, audit_logs>>
  /\ UNCHANGED <<runs, lastId, forge, moves, mrs, platform, headers, sources, edits,
                 hook_events, applied>>

\* The request ends in the transaction, or with the answer after it.
Ends(r) ==
  /\ requests[r] # NoDelivery
  /\ requests' = [requests EXCEPT ![r] = NoDelivery]
  /\ UNCHANGED <<forge, wire, moves, duplicates, platform, headers, sources, edits, received>>

\* Comments on GitHub are not handled.
Supported(q) == platform[q.mr] = "gitlab" \/ q.ev.action # "rerun"

\* Mutant of Commits: a row that is there already does not stop the event.
Commits_Regardless(r) ==
  /\ InsertHookEvent(requests[r].key)
  /\ applied' = [applied EXCEPT ![requests[r].ev.n][hookSource(requests[r])] = @ + 1]
  /\ Acknowledge("verified", requests[r].mr, requests[r].ev)

\* The row and what comes of the event, in one transaction.
Commits(r) ==
  /\ requests[r].key \notin hook_events
  /\ InsertHookEvent(requests[r].key)
  /\ applied' = [applied EXCEPT ![requests[r].ev.n][hookSource(requests[r])] = @ + 1]
  /\ Acknowledge("verified", requests[r].mr, requests[r].ev)

RollsBack == UNCHANGED <<runs, lastId, mrs, hook_events, applied>>

\* The unique index on delivery_key refuses the row.
InsertFindsDuplicate(r) ==
  /\ Ends(r) /\ Supported(requests[r])
  /\ requests[r].key \in hook_events
  /\ Acknowledge("deduplicated", requests[r].mr, requests[r].ev)
  /\ RollsBack

\* Some statement fails, and the answer is 500.
TransactionFails(r) ==
  /\ Ends(r) /\ Supported(requests[r])
  /\ Loses /\ UNCHANGED audit_logs
  /\ RollsBack

ProcessMergeRequestEvent(r) ==
  LET m == requests[r].mr  e == requests[r].ev IN
  /\ Ends(r)
  /\ platform[m] = "gitlab" /\ isMREvent(requests[r])
  /\ ProcessEvent(m, NormalizeWebhook(e))
  /\ Commits(r)

\* The comments sent here are rerun and focus commands, which differ in the
\* scope of the run only.  The merge request must be known.
executeWithQuerier(m, e) == resolveEntities(m) /\ ExecuteRerun(m, e)

\* Mutant of handleNoteEvent: the hook event is inserted before the
\* transaction, and stays when the command fails.
handleNoteEvent_KeepsRow(r) ==
  LET m == requests[r].mr  e == requests[r].ev IN
  /\ Ends(r)
  /\ platform[m] = "gitlab" /\ isNoteEvent(requests[r])
  /\ \/ executeWithQuerier(m, [e EXCEPT !.n = requests[r].key]) /\ Commits(r)
     \/ /\ ~resolveEntities(m) /\ requests[r].key \notin hook_events
        /\ InsertHookEvent(requests[r].key)
        /\ UNCHANGED <<runs, lastId, mrs, applied, audit_logs, losses>>

\* The delivery key is the nonce of the run.  A command on a merge request
\* never seen before fails, and the hook event is rolled back with it.
handleNoteEvent(r) ==
  LET m == requests[r].mr  e == requests[r].ev IN
  /\ Ends(r)
  /\ platform[m] = "gitlab" /\ isNoteEvent(requests[r])
  /\ \/ executeWithQuerier(m, [e EXCEPT !.n = requests[r].key]) /\ Commits(r)
     \/ /\ ~resolveEntities(m) /\ requests[r].key \notin hook_events
        /\ RollsBack /\ UNCHANGED <<audit_logs, losses>>

\* internal/runs ignores actions that it does not know.
ProcessPullRequestEvent(r) ==
  LET m == requests[r].mr  e == NormalizeGitHub(requests[r].ev) IN
  /\ Ends(r)
  /\ platform[m] = "github" /\ requests[r].ev.action # "rerun"
  /\ \/ ProcessEvent(m, e)
     \/ e.action \notin Actions /\ UNCHANGED <<runs, lastId, mrs>>
  /\ Commits(r)

\* The row is inserted by itself, and a failure is ignored.
IgnoreUnsupportedEvent(r) ==
  /\ Ends(r) /\ ~Supported(requests[r])
  /\ \/ /\ InsertHookEvent(requests[r].key)
        /\ Acknowledge("verified", requests[r].mr, requests[r].ev)
     \/ /\ Loses /\ UNCHANGED hook_events
        /\ InsertAuditLog("verified", requests[r].mr, requests[r].ev)
  /\ UNCHANGED <<runs, lastId, mrs, applied>>

HandlerStep(r) ==
  \/ \E m \in MRs : \E e \in wire[m] : \E source \in sources :
       Receive(r, m, e, source)
  \/ InsertFindsDuplicate(r)
  \/ TransactionFails(r)
  \/ ProcessMergeRequestEvent(r)
  \/ handleNoteEvent(r)
  \/ ProcessPullRequestEvent(r)
  \/ IgnoreUnsupportedEvent(r)

IngressStep == \E r \in Handlers : HandlerStep(r)
-----------------------------------------------------------------------------
(* Properties                                                              *)

\* What the audit trail calls verified or deduplicated, and the forge was
\* told is taken care of, has been committed: a delivery whose transaction
\* was rolled back leaves no row that would make the next one a duplicate.
AcknowledgedEventsAreApplied ==
  \A a \in audit_logs :
    a.outcome \in {"verified", "deduplicated"} /\ Supported(a)
    => \E source \in Sources : applied[a.ev.n][source] > 0

\* If the forge names its deliveries, requests for the same event that pass
\* the lookup together still commit it only once for each hook.
EventsAreAppliedOnce ==
  headers => \A n \in DOMAIN applied, source \in Sources : applied[n][source] <= 1
=============================================================================
