----------------------------- MODULE MCPipeline -----------------------------
(***************************************************************************)
(* Scenarios for ReviewPipeline, in families: each varies one part of the  *)
(* system and leaves the others at their simplest.                         *)
(***************************************************************************)
EXTENDS ReviewPipeline

-----------------------------------------------------------------------------
(* Policies and files                                                      *)

Values == Fields \cup {"language"}
Nothing0 == [f \in Values |-> 0]
NoPolicy == [set |-> Nothing0, extra |-> Nothing0, review |-> Nothing0,
             include |-> {}, exclude |-> {}]
Extra(n, v) == [NoPolicy EXCEPT !.extra[n] = v]

PlatformPolicy == [NoPolicy EXCEPT !.set["gate"] = 1, !.set["route"] = 1,
                                   !.set["language"] = 1, !.review["files"] = 3]

NoYaml == [kind |-> "none"]
Cfg(fields, v) == [kind |-> "config",
  cfg |-> [f \in Fields |-> IF f \in fields THEN v ELSE Absent]]

Hunk(old, new, lines) == [oldStart |-> old, newStart |-> new, lines |-> lines]
File(new, old, traits, hunks) ==
  [new |-> new, old |-> old, traits |-> traits, hunks |-> hunks]

One == <<Hunk(1, 1, <<" ", "+", " ">>)>>
Mixed == <<Hunk(1, 1, <<" ", " ", "-", "-", " ", " ", "+">>),
           Hunk(9, 8, <<"+", "-", "\\">>)>>
Long == <<Hunk(1, 1, <<" ", "+", "-", "+", "+", "+", "+", " ">>)>>
Gone == <<Hunk(1, 0, <<"-", "-">>)>>

Plain(name, hunks) == File(<<name>>, <<name>>, {}, hunks)

-----------------------------------------------------------------------------
(* What providers say                                                      *)

Item(title, body, severity, confidence, path, kind, key, line) ==
  [k \in RequiredKeys \cup {key} |->
     CASE k = "category" -> "bug" [] k = "severity" -> severity
       [] k = "confidence" -> confidence [] k = "title" -> title
       [] k = "body_markdown" -> body [] k = "path" -> path
       [] k = "anchor_kind" -> kind [] OTHER -> line]

Found(severity) == Item("t", "b", severity, 9, <<"a">>, "new_line", "new_line", 2)

Doc(findings) == [typed |-> TRUE, named |-> TRUE, status |-> "", note |-> FALSE,
                  list |-> TRUE, findings |-> findings]
Text(wrap, doc) == [wrap |-> wrap, mentions |-> FALSE, doc |-> doc]
Says(findings) == [kind |-> "message", status |-> 200, tool |-> TRUE,
                   text |-> Text("plain", Doc(findings))]

Clean == Says(<<>>)
Silent == [kind |-> "message", status |-> 200, tool |-> FALSE, text |-> NoText]
Fault(kind) == [Silent EXCEPT !.kind = kind]
Status(n, mentions) == [Silent EXCEPT !.kind = "status", !.status = n,
                                      !.text.mentions = mentions]

-----------------------------------------------------------------------------
MCPacks == <<[id |-> "p1", gate |-> 0, exclusions |-> {}, bypass |-> {}],
             [id |-> "p2", gate |-> 5, exclusions |-> {"style"}, bypass |-> {"risk"}]>>

MCChains == [r \in {21, 22, 23} |->
  CASE r = 21 -> [primary |-> 2, fallbacks |-> <<2, 3, 0>>]
    [] r = 22 -> [primary |-> 3, fallbacks |-> <<>>]
    [] r = 23 -> [primary |-> 2, fallbacks |-> <<9>>]]

MCDefaultFallbacks == <<2, 9, 2>>
MCDefaultSettings == [before |-> 1, after |-> 1, lines |-> 4, files |-> 2]

Unknown == [email |-> "", username |-> "", name |-> "", id |-> ""]
Person(email, username) == [Unknown EXCEPT !.email = email, !.username = username,
                                           !.id = username]
Commit(opener, author, committer) ==
  [opener |-> opener, author |-> author, committer |-> committer]

Simple ==
  [driver |-> "engine", forge |-> "gitlab", publish |-> "full-review-comments",
   exit |-> "incomplete", dry |-> FALSE, targets |-> 1, threshold |-> 0,
   compare |-> FALSE, versions |-> 1, pushes |-> 0, faults |-> 0,
   files |-> [v \in 1..4 |-> <<Plain("a", One)>>], base |-> 1,
   platform |-> PlatformPolicy, project |-> NoPolicy, nopolicy |-> NoPolicy,
   yaml |-> [base |-> <<NoYaml>>, head |-> <<NoYaml>>], root |-> "root",
   reviews |-> <<>>, selected |-> {"p1"}, scope |-> 0, advisor |-> 0,
   answers |-> {Clean}, limits |-> [s \in Scopes |-> 0], contended |-> FALSE,
   people |-> <<Commit(Unknown, Unknown, Unknown)>>, users |-> {}]

\* The author pushes and the forge fails while the snapshot is loaded.
SnapshotFamily ==
  {[Simple EXCEPT !.driver = d, !.versions = 2, !.pushes = 2, !.faults = 2,
      !.files = [v \in 1..4 |-> <<Plain("a", One), Plain("b", IF v > 2 THEN Mixed ELSE One)>>]]
   : d \in {"engine", "llm"}}

\* Other reviews use the limiter.
LimiterFamily ==
  {[Simple EXCEPT !.contended = TRUE, !.selected = {},
                  !.limits = [s \in Scopes |-> IF s = 1 THEN n ELSE 0]] : n \in 1..2}

\* Routes and failures.
Odd == [Clean EXCEPT !.text.doc.named = FALSE]
Loud == [Odd EXCEPT !.text.mentions = TRUE]
Written == [Silent EXCEPT !.text = Text("fenced", Doc(<<Found("low")>>))]

ChainFamily ==
  {[Simple EXCEPT !.driver = d, !.scope = r, !.advisor = IF d = "llm" THEN 0 ELSE a,
      !.answers = {Clean, Odd, Loud, Written, Silent,
                   Fault("timeout"), Fault("lost"), Fault("garbled"), Fault("empty"),
                   Status(503, FALSE), Status(429, FALSE), Status(429, TRUE)}]
   : d \in {"engine", "cli", "llm"}, r \in {0, 2, 9, 21, 22, 23}, a \in {0, 3}}

\* Files, hunks and budgets.
Files ==
  {Plain("a", One), Plain("b", Mixed), Plain("c", <<>>), Plain("h", Long),
   File(<<>>, <<"d">>, {"deleted_file"}, Gone),
   File(<<"e">>, <<"e">>, {"lock_file"}, One),
   File(<<"f">>, <<"b">>, {"renamed_file", "test"}, Mixed),
   File(<<"g">>, <<"g">>, {"malformed"}, One),
   File(<<>>, <<>>, {}, One)}

FilesFamily ==
  {[Simple EXCEPT !.driver = "llm", !.files = [v \in 1..4 |-> fs], !.project = p]
   : fs \in UNION {[1..n -> Files] : n \in 1..3},
     p \in {NoPolicy, Extra("lines", 2), Extra("files", 1),
            [Extra("lines", 7) EXCEPT !.review["files"] = 3, !.include = {{<<"a">>, <<"b">>, <<"d">>}}],
            [Extra("lines", 3) EXCEPT !.exclude = {{<<"a">>}}]}}
  \cup
  {[Simple EXCEPT !.driver = d, !.files = [v \in 1..4 |-> fs]]
   : d \in {"engine", "cli"}, fs \in UNION {[1..n -> Files] : n \in 1..2}}

\* Findings on lines of all kinds.
Places == {<<"new_line", "new_line">>, <<"old", "old_line">>,
           <<"range", "range_start_new_line">>, <<"range", "range_start_old_line">>}

Located(place, line, path) ==
  Says(<<Item("t", "b", "low", 9, path, place[1], place[2], line)>>)

With(item, more) == [k \in DOMAIN item \cup DOMAIN more |->
                       IF k \in DOMAIN more THEN more[k] ELSE item[k]]

Ranged(line, end) ==
  LET i == Item("t", "b", "low", 0, <<"b">>, "range", "range_start_new_line", line)
  IN Says(<<With(i, [range_end_new_line |-> end])>>)

\* Findings with more line numbers, kinds of ends, renames, directories.
Kinds == {"", "old", "added", "context"}
Detailed ==
  {With(Item("t", "b", "low", 9, <<"b">>, "range", "range_start_new_line", m),
        [range_start_kind |-> s, range_end_kind |-> e, range_start_old_line |-> o,
         range_end_old_line |-> o, range_end_new_line |-> n, evidence |-> w])
   : s \in Kinds, e \in Kinds, m \in {0, 4}, n \in {0, 5}, o \in {0, 3},
     w \in {<<>>, <<"old", "new">>}}
  \cup
  {With(Item("t", "", "low", 9, path, kind, "new_line", n), [old_line |-> o])
   : path \in {<<"b">>, <<"a", "->", "b">>, <<"d", "">>},
     kind \in {"context", "new", "deleted", "removed", "range"}, n \in {0, 2, 5}, o \in {0, 3}}

PlacesFamily ==
  {[Simple EXCEPT !.files = [v \in 1..4 |-> fs],
      !.answers = {Located(p, n, path) : p \in Places, n \in 0..11,
                                         path \in {<<"a">>, <<"b">>, <<>>}}
                  \cup {Ranged(m, n) : m \in 1..9, n \in 1..10}]
   : fs \in {<<Plain("b", Mixed)>>, <<Plain("b", Long)>>, <<Plain("a", Gone), Plain("b", Mixed)>>,
             <<File(<<"b">>, <<"a">>, {"renamed_file"}, Mixed),
               File(<<"a">>, <<"b">>, {"renamed_file"}, One)>>}}
  \cup
  {[Simple EXCEPT !.driver = d, !.forge = g, !.files = [v \in 1..4 |-> <<Plain("b", Mixed)>>],
      !.answers = {Says(<<i>>) : i \in Detailed}
                  \cup {Located(p, n, <<"b">>) : p \in Places, n \in 0..11}]
   : d \in {"engine", "cli"}, g \in {"gitlab", "github"}}
  \cup
  {[Simple EXCEPT !.driver = "llm", !.files = [v \in 1..4 |-> <<Plain("b", Mixed)>>],
      !.answers = {Says(<<i>>) : i \in Detailed}]}

\* What two packs say of the same and of different things.
Lax(findings, list) ==
  [Silent EXCEPT !.text = Text("quoted",
     [Doc(findings) EXCEPT !.typed = FALSE, !.list = list])]

Aliased == [type |-> "bug", severity |-> "high", description |-> "t",
            file |-> <<"a">>, line |-> 2]

Reports ==
  {Says(<<Item(t, b, s, c, <<"a">>, "new_line", "new_line", n)>>)
   : t \in {"t", "style"}, b \in {"b", "risk"}, s \in {"low", "high"},
     c \in {4, 9}, n \in {2}}
  \cup {Says(<<Found("low"), Found("critical")>>), Lax(<<Aliased, Scalar>>, TRUE),
        Lax(<<Aliased>>, FALSE), Lax(<<Found("medium"), Aliased>>, TRUE),
        Says(<<Item("", "b", "low", 9, <<"a">>, "new_line", "new_line", 2)>>)}

ReportsFamily ==
  {[Simple EXCEPT !.selected = {}, !.answers = Reports]}
  \cup
  {[Simple EXCEPT !.driver = "cli", !.forge = g, !.publish = p, !.exit = e, !.dry = d,
                  !.compare = d, !.selected = {}, !.answers = Reports]
   : g \in {"gitlab", "github"}, e \in {"never", "incomplete"}, d \in BOOLEAN,
     p \in {"full-review-comments", "summary-only", "artifact-only"}}

\* The options of the command: what is refused, and several targets.
OptionsFamily ==
  {[Simple EXCEPT !.driver = "cli", !.forge = g, !.publish = p, !.exit = e, !.dry = d,
                  !.compare = d, !.targets = n, !.threshold = t,
                  !.files = [v \in 1..4 |-> <<Plain("h", Long), Plain("a", One)>>],
                  !.answers = {Clean, Says(<<Found("high")>>), Fault("lost")}]
   : g \in {"gitlab", "github"}, p \in {"summary-only", "artifact-only", "none"},
     e \in {"never", "requested_changes", "incomplete", "all"}, d \in BOOLEAN,
     n \in 0..2, t \in {0, 50, 101}}

\* Layers of policy, the repository's file at base and head, REVIEW.md.
Yamls == {<<NoYaml>>, <<[kind |-> "bad"], Cfg({"language"}, 3)>>, <<[kind |-> "error"]>>,
          <<Cfg({"gate", "route", "include", "before"}, 2), Cfg({"exclude"}, 2)>>,
          <<Cfg({"lines", "confidence", "after"}, 0)>>}

Deep(p) == File(p, p, {}, One)
Paths == {<<"x">>, <<"d", "x">>, <<"d", "e", "x">>, <<"d", "e", "y">>}
Dirs == {<<"d">>, <<"d", "e">>}

RulesFamily ==
  {[Simple EXCEPT !.driver = d, !.base = b, !.yaml = [base |-> y, head |-> z],
      !.project = [NoPolicy EXCEPT !.set["gate"] = 3, !.review["language"] = 2]]
   : d \in {"cli", "llm"}, b \in {0, 1}, y \in Yamls, z \in Yamls}
  \cup
  {[Simple EXCEPT !.root = r, !.reviews = rv,
      !.files = [v \in 1..4 |-> <<Deep(p), Deep(q)>>]]
   : r \in {"root", "error"}, p \in Paths, q \in Paths,
     rv \in UNION {[ds -> {"r1"}] : ds \in SUBSET Dirs}
            \cup {[ds \in Dirs |-> IF Len(ds) = 1 THEN "r1" ELSE "r2"]}}

\* Commits of one project, seen by three runs, and an operator.
Opener == Person("", "v")
Author == Person("m", "")
IdentityFamily ==
  {[Simple EXCEPT !.users = {"", "u", "v"},
      !.people = <<Commit(Opener, Author, Author), other,
                   Commit(Unknown, Person("m", "u"), [Unknown EXCEPT !.name = "n"])>>]
   : other \in {Commit(Unknown, Author, Opener), Commit(Opener, Unknown, Author)}}

MCScenarios ==
  SnapshotFamily \cup LimiterFamily \cup ChainFamily \cup FilesFamily
  \cup PlacesFamily \cup ReportsFamily \cup OptionsFamily \cup RulesFamily
  \cup IdentityFamily
=============================================================================
