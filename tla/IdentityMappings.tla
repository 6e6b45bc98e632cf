-------------------------- MODULE IdentityMappings --------------------------
(***************************************************************************)
(* The table identity_mappings of one project: which user of the forge a   *)
(* git identity belongs to.  Every run of the production processor adds    *)
(* what it observes in its snapshot, one statement after the other and     *)
(* outside a transaction; an operator's resolution is to last.             *)
(*                                                                         *)
(* Mail addresses and names are taken as trimmed and in lower case, which  *)
(* is how keys are made of them; "" is an unknown one.  Confidence is in   *)
(* percent.  The columns that hold the original spelling are left out.     *)
(***************************************************************************)
EXTENDS Integers, FiniteSetsExt, SequencesExt

VARIABLES
  mappings,    \* the rows, by git_identity_key
  pending,     \* by run, the observations that it has yet to store
  resolutions  \* by key, what an operator set last (history)

identityVars == <<mappings, pending, resolutions>>

gitIdentityKey(author) ==
  LET known == SelectSeq(<<"email", "username", "name">>,
                         LAMBDA c : author[c] # "")
  IN IF known = <<>> THEN <<>> ELSE <<Head(known), author[Head(known)]>>

\* Who made the commit; failing that, who opened the merge request.
observation(run, role, author, opener) ==
  LET user == IF author.username # "" THEN author.username ELSE opener.username
      id == IF author.id # "" THEN author.id ELSE opener.id
  IN [key |-> gitIdentityKey(author), role |-> role, user |-> user, id |-> id,
      run |-> run, source |-> "observed", by |-> "",
      status |-> IF user = "" THEN "unresolved" ELSE "auto",
      confidence |-> IF user = "" THEN 55 ELSE IF author.email # "" THEN 94 ELSE 72]

persistIdentityMappingsFromInput(run, input) ==
  SelectSeq(<<observation(run, "commit_author", input.author, input.opener),
              observation(run, "commit_committer", input.committer, input.opener)>>,
            LAMBDA o : o.key # <<>>)

\* Mutant: the user is taken from the observation whatever the status is.
UpsertIdentityMapping_User(rows, o) ==
  [k \in DOMAIN rows \cup {o.key} |->
    IF k # o.key THEN rows[k]
    ELSE IF k \notin DOMAIN rows THEN o
    ELSE LET row == [rows[k] EXCEPT !.role = o.role, !.run = o.run,
                                    !.confidence = Max({@, o.confidence}),
                                    !.user = o.user, !.id = o.id]
         IN IF row.status = "manual" THEN row
            ELSE [row EXCEPT !.source = o.source, !.status = o.status]]

UpsertIdentityMapping(rows, o) ==
  [k \in DOMAIN rows \cup {o.key} |->
    IF k # o.key THEN rows[k]
    ELSE IF k \notin DOMAIN rows THEN o
    ELSE LET row == [rows[k] EXCEPT !.role = o.role, !.run = o.run,
                                    !.confidence = Max({@, o.confidence})]
         IN IF row.status = "manual" THEN row
            ELSE [row EXCEPT !.user = o.user, !.id = o.id,
                             !.source = o.source, !.status = o.status]]

\* UPDATE ... WHERE id = ?
ResolveRow(row, user, id, actor) ==
  [row EXCEPT !.user = user, !.id = id, !.source = "manual", !.status = "manual",
              !.by = actor]

-----------------------------------------------------------------------------
\* One round of the loop over the observations of a run.
Observe(run) ==
  /\ pending[run] # <<>>
  /\ mappings' = UpsertIdentityMapping(mappings, Head(pending[run]))
  /\ pending' = [pending EXCEPT ![run] = Tail(@)]
  /\ UNCHANGED resolutions

\* POST .../identity-mappings/{id}/resolve, one transaction.  Without a user
\* or without the row it is refused.
ResolveIdentityMapping(key, user, id, actor) ==
  /\ user # "" /\ key \in DOMAIN mappings
  /\ mappings' = [mappings EXCEPT ![key] = ResolveRow(@, user, id, actor)]
  /\ resolutions' = [k \in DOMAIN resolutions \cup {key} |->
                       IF k = key THEN [user |-> user, id |-> id] ELSE resolutions[k]]
  /\ UNCHANGED pending

-----------------------------------------------------------------------------
\* What an operator decided about a git identity stays, whatever the runs that
\* were under way or come later observe, and in whichever order their
\* statements reach the table; and a mapping that no operator has touched is
\* called unresolved exactly as long as no user is known for it
\* (UpsertIdentityMapping, ResolveIdentityMapping).
ResolvedIdentitiesStay ==
  \A k \in DOMAIN mappings :
    LET row == mappings[k]
    IN IF k \in DOMAIN resolutions
       THEN /\ row.status = "manual" /\ row.source = "manual"
            /\ [user |-> row.user, id |-> row.id] = resolutions[k]
       ELSE row.status = (IF row.user = "" THEN "unresolved" ELSE "auto")
=============================================================================
