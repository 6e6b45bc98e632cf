---------------------------- MODULE OutputParser ----------------------------
(***************************************************************************)
(* internal/llm/parser.go: from the text a provider returns to a review    *)
(* result.  A text is how its JSON object is wrapped, and the object:      *)
(*   typed     json.Unmarshal into ReviewResult succeeds                   *)
(*   named     schema_version and review_run_id are there                  *)
(*   status, note                                                          *)
(*   list      findings is a list                                          *)
(*   findings  its items, each a function from the keys it has to values   *)
(* Numbers that are no int32 and values of the wrong type count as absent  *)
(* in the lenient parse and make the object untyped.  A path is a sequence *)
(* of names, with the name "->" in it if it is a rename.  A line is        *)
(* positive, and 0 stands for a null line.  Evidence is the words of its   *)
(* first line.                                                             *)
(***************************************************************************)
EXTENDS Integers, Sequences, SequencesExt

Wraps == {"plain", "quoted", "fenced", "broken", "prose"}

\* An item of the list that is not an object.
Scalar == [scalar |-> ""]

LineKeys == {"old_line", "new_line", "range_start_old_line",
             "range_start_new_line", "range_end_old_line", "range_end_new_line"}
KindKeys == {"range_start_kind", "range_end_kind"}

isObject(item) == "scalar" \notin DOMAIN item

-----------------------------------------------------------------------------
(* The lenient parse                                                       *)

\* The first of the keys that has a value, blank if none has.
Alias(item, keys, blank) ==
  LET has == SelectSeq(keys, LAMBDA k : k \in DOMAIN item /\ item[k] # blank)
  IN IF has = <<>> THEN blank ELSE item[Head(has)]

stringAlias(item, keys) == Alias(item, keys, "")
int32Alias(item, keys) == Alias(item, keys, 0)
float64Alias(item, keys) == Alias(item, keys, 0)
stringSliceAlias(item, keys) == Alias(item, keys, <<>>)

parseFindingWithAliases(item) ==
  LET Keys(k) == IF k = "new_line" THEN <<k, "line_start", "line">> ELSE <<k>>
      lines == [k \in LineKeys |-> int32Alias(item, Keys(k))]
      kind == stringAlias(item, <<"anchor_kind">>)
      category == stringAlias(item, <<"category", "type">>)
  IN [category |-> IF category = "" THEN "code_defect" ELSE category,
      severity |-> stringAlias(item, <<"severity">>),
      confidence |-> float64Alias(item, <<"confidence">>),
      title |-> stringAlias(item, <<"title", "description">>),
      body |-> stringAlias(item, <<"body_markdown", "body", "description">>),
      path |-> Alias(item, <<"path", "file_path", "file">>, <<>>),
      kind |-> IF kind # "" THEN kind
               ELSE IF lines["new_line"] # 0 THEN "new_line"
               ELSE IF lines["old_line"] # 0 THEN "old_line" ELSE "",
      lines |-> lines, kinds |-> [k \in KindKeys |-> stringAlias(item, <<k>>)],
      evidence |-> stringSliceAlias(item, <<"evidence">>)]

\* json.Unmarshal reads the names of the schema only.
unmarshalFinding(item) ==
  [category |-> stringAlias(item, <<"category">>),
   severity |-> stringAlias(item, <<"severity">>),
   confidence |-> float64Alias(item, <<"confidence">>),
   title |-> stringAlias(item, <<"title">>),
   body |-> stringAlias(item, <<"body_markdown">>),
   path |-> Alias(item, <<"path">>, <<>>),
   kind |-> stringAlias(item, <<"anchor_kind">>),
   lines |-> [k \in LineKeys |-> int32Alias(item, <<k>>)],
   kinds |-> [k \in KindKeys |-> stringAlias(item, <<k>>)],
   evidence |-> stringSliceAlias(item, <<"evidence">>)]

Parsed(doc, findings) ==
  [ok |-> TRUE, named |-> doc.named, status |-> doc.status, note |-> doc.note,
   findings |-> findings]

NotParsed == [ok |-> FALSE, named |-> FALSE, status |-> "", note |-> FALSE,
              findings |-> <<>>]

findingAllowsEmptyPath(f) == \A k \in LineKeys : f.lines[k] = 0

validateReviewResult(r) ==
  /\ r.ok /\ r.named
  /\ IF r.status = "parser_error" THEN r.note
     ELSE \A i \in DOMAIN r.findings :
            LET f == r.findings[i] IN
            /\ "" \notin {f.category, f.severity, f.title, f.kind}
            /\ f.path # <<>> \/ findingAllowsEmptyPath(f)

\* Mutant: the lenient parse gives up the list at the first odd item.
parseReviewResultWithAliases_All(doc) ==
  LET items == IF doc.list /\ \A i \in DOMAIN doc.findings : isObject(doc.findings[i])
               THEN doc.findings ELSE <<>>
      r == Parsed(doc, [i \in DOMAIN items |-> parseFindingWithAliases(items[i])])
  IN IF validateReviewResult(r) THEN r ELSE NotParsed

parseReviewResultWithAliases(doc) ==
  LET items == IF doc.list THEN SelectSeq(doc.findings, isObject) ELSE <<>>
      r == Parsed(doc, [i \in DOMAIN items |-> parseFindingWithAliases(items[i])])
  IN IF validateReviewResult(r) THEN r ELSE NotParsed

-----------------------------------------------------------------------------
(* The stages                                                              *)

unquoteJSONString(raw) == raw.wrap = "quoted"
extractMarkedJSON(raw) == raw.wrap \in {"plain", "fenced"}
tolerantRepairJSON(raw) == raw.wrap \in {"plain", "fenced", "broken"}

\* Some stage makes the object out of the text; what it holds is then judged
\* the same way in every stage.
ParseReviewResult(raw) ==
  LET doc == raw.doc
      strict == Parsed(doc, [i \in DOMAIN doc.findings |->
                               unmarshalFinding(doc.findings[i])])
      r == IF doc.typed /\ validateReviewResult(strict) THEN strict
           ELSE parseReviewResultWithAliases(doc)
  IN IF \/ raw.wrap = "plain" \/ unquoteJSONString(raw)
        \/ extractMarkedJSON(raw) \/ tolerantRepairJSON(raw)
     THEN [r EXCEPT !.status = IF @ = "" /\ r.ok THEN "completed" ELSE @]
     ELSE NotParsed

RequiredKeys == {"category", "severity", "confidence", "title",
                 "body_markdown", "path", "anchor_kind"}
KnownKeys == RequiredKeys \cup LineKeys \cup KindKeys \cup {"evidence"}

\* reviewResultValidationSchema: no other key, every required one.
validateReviewResultStrictIssues(raw) ==
  /\ raw.wrap = "plain"
  /\ raw.doc.typed /\ raw.doc.named /\ raw.doc.list
  /\ \A i \in DOMAIN raw.doc.findings :
       /\ RequiredKeys \subseteq DOMAIN raw.doc.findings[i]
       /\ DOMAIN raw.doc.findings[i] \subseteq KnownKeys
=============================================================================
