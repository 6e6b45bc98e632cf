--------------------------- MODULE ForgeSnapshot ---------------------------
(***************************************************************************)
(* internal/gitlab/client.go: GetMergeRequestSnapshot reads the merge      *)
(* request, its versions, its diffs page by page and its head commit, one  *)
(* request after the other, while the author may push.  A head is its      *)
(* number; version i belongs to head i.                                    *)
(***************************************************************************)
EXTENDS Integers, FiniteSetsExt, SequencesExt

CONSTANTS
  MaxPages,                \* pages of the list of diffs
  diffNotReadyMaxRetries,
  rateLimitMaxRetries

VARIABLES
  forge,    \* [versions, pushes, faults]: the versions; what is left to happen
  snap      \* what the client has read, and where it is

snapVars == <<forge, snap>>

\* Versions created within one second have equal times.
Version(i, ready) == [id |-> i, at |-> i \div 2, ready |-> ready]

head == Len(forge.versions)

NewestReady == Max({0} \cup {i \in DOMAIN forge.versions : forge.versions[i].ready})

NoSnapshot ==
  [pc |-> "out", attempt |-> 0, tries |-> 0, mr |-> 0, refs |-> FALSE,
   version |-> 0, endpoint |-> "paginated", diffs |-> <<>>, commit |-> 0,
   from |-> 0]

\* An author pushes; the forge prepares the diff later.
Push ==
  /\ forge.pushes > 0
  /\ forge' = [forge EXCEPT !.pushes = @ - 1,
                            !.versions = Append(@, Version(head + 1, FALSE))]
  /\ UNCHANGED snap

Prepare ==
  /\ \E i \in DOMAIN forge.versions :
       /\ ~forge.versions[i].ready
       /\ \A j \in 1..(i - 1) : forge.versions[j].ready
       /\ forge' = [forge EXCEPT !.versions[i].ready = TRUE]
  /\ UNCHANGED snap

StartSnapshot ==
  /\ snap.pc = "out"
  /\ snap' = [NoSnapshot EXCEPT !.pc = "mr", !.from = NewestReady]
  /\ UNCHANGED forge

-----------------------------------------------------------------------------
(* Requests                                                                *)

\* doJSON: an answer with status 429 is asked for again a few times.
TooManyRequests ==
  /\ snap.pc \in {"mr", "versions", "diffs", "commit"}
  /\ forge.faults > 0
  /\ snap.tries < rateLimitMaxRetries
  /\ forge' = [forge EXCEPT !.faults = @ - 1]
  /\ snap' = [snap EXCEPT !.tries = @ + 1]

\* Any other failure ends the snapshot, except that the head commit is
\* optional and that diffs have two more endpoints to try after a 5xx.
nextEndpoint == [paginated |-> "plain", plain |-> "changes"]

Fails(serverError) ==
  /\ forge.faults > 0
  /\ forge' = [forge EXCEPT !.faults = @ - 1]
  /\ snap' =
       IF snap.pc = "diffs" /\ serverError /\ snap.endpoint # "changes"
       THEN [snap EXCEPT !.endpoint = nextEndpoint[@], !.diffs = <<>>, !.tries = 0]
       ELSE IF snap.pc = "commit" THEN [snap EXCEPT !.pc = "done"]
       ELSE [snap EXCEPT !.pc = "failed"]

RequestFails ==
  /\ snap.pc \in {"mr", "versions", "diffs", "commit"}
  /\ \E serverError \in BOOLEAN : Fails(serverError)

GetMergeRequest ==
  /\ snap.pc = "mr"
  /\ snap' = [snap EXCEPT !.pc = "versions", !.tries = 0, !.mr = head,
                          !.refs = forge.versions[head].ready]
  /\ UNCHANGED forge

newerThan(v, w) == v.at > w.at \/ (v.at = w.at /\ v.id > w.id)

\* Mutant: the identifier does not break ties.
latestVersion_NoTie(list) ==
  FoldLeft(LAMBDA l, v : IF v.at > l.at THEN v ELSE l, Head(list), Tail(list))

latestVersion(list) ==
  FoldLeft(LAMBDA l, v : IF newerThan(v, l) THEN v ELSE l, Head(list), Tail(list))

\* The list may come in either order.
GetMergeRequestVersions ==
  /\ snap.pc = "versions"
  /\ \E list \in {forge.versions, Reverse(forge.versions)} :
       LET latest == latestVersion(list)
       IN snap' =
            IF latest.ready /\ snap.refs
            THEN [snap EXCEPT !.pc = "diffs", !.tries = 0, !.version = latest.id]
            ELSE IF snap.attempt >= diffNotReadyMaxRetries
            THEN [snap EXCEPT !.pc = "failed"]
            ELSE [snap EXCEPT !.pc = "mr", !.tries = 0, !.attempt = @ + 1]
  /\ UNCHANGED forge

\* The forge answers with the diffs of the newest version that is prepared.
GetMergeRequestDiffs ==
  LET got == Append(snap.diffs, NewestReady)
      more == snap.endpoint = "paginated" /\ Len(got) < MaxPages
  IN /\ snap.pc = "diffs"
     /\ snap' = [snap EXCEPT !.diffs = got, !.tries = 0,
                             !.pc = IF more THEN "diffs" ELSE "commit"]
     /\ UNCHANGED forge

GetCommit ==
  /\ snap.pc = "commit"
  /\ snap' = [snap EXCEPT !.pc = "done", !.commit = snap.mr]
  /\ UNCHANGED forge

SnapshotStep ==
  \/ Push \/ Prepare \/ TooManyRequests \/ RequestFails
  \/ GetMergeRequest \/ GetMergeRequestVersions \/ GetMergeRequestDiffs \/ GetCommit

-----------------------------------------------------------------------------
\* GetMergeRequestSnapshot is not one read, but it never goes back: what it
\* read later is not older than what it read earlier, the version is at least
\* as new as the newest prepared one when the load began, and the diffs are
\* never those of a version before the one the review is recorded for.
SnapshotMovesForward ==
  snap.pc = "done" =>
    /\ snap.from <= snap.version /\ snap.mr <= snap.version
    /\ snap.commit \in {0, snap.mr}
    /\ \A i \in DOMAIN snap.diffs :
         /\ snap.version <= snap.diffs[i]
         /\ i > 1 => snap.diffs[i - 1] <= snap.diffs[i]
=============================================================================
