---------------------------- MODULE RulesLoader ----------------------------
(***************************************************************************)
(* internal/rules: the policy a review runs under and the instructions it  *)
(* is given.  A layer of policy is a function from fields to numbers, 0    *)
(* where it says nothing; a number stands for a value of that field.  In   *)
(* ai-review.yaml 0 is a value, Absent says nothing and Invalid is one the *)
(* validation refuses.                                                     *)
(***************************************************************************)
EXTENDS ContextAssembler

CONSTANTS
  ConfigRef,        \* "head" or "base", the platform's config_ref
  DefaultLanguage   \* what reviewlang.Normalize makes of an empty value

Texts == {"confidence", "severity", "include", "exclude", "gate", "route"}
Fields == Texts \cup Numbers \cup {"language"}

Absent == -1
Invalid == -2

hostOnlyAIReviewFields == {"gate", "route", "severity", "confidence"}

-----------------------------------------------------------------------------
(* Layers                                                                  *)

Overlay(base, layer, fields) ==
  [f \in DOMAIN base |->
     IF f \in fields /\ layer[f] > 0 THEN layer[f] ELSE base[f]]

outputLanguageFromExtra(layer) ==
  IF layer.review["language"] > 0 THEN layer.review["language"]
  ELSE layer.extra["language"]

overlayOutputLanguage(current, explicit, layer) ==
  IF explicit > 0 THEN explicit
  ELSE IF outputLanguageFromExtra(layer) > 0 THEN outputLanguageFromExtra(layer)
  ELSE IF current > 0 THEN current ELSE DefaultLanguage

\* A number of the project that equals the built-in default is taken for
\* one that was not given.
mergePolicySettings(base, settings) ==
  [n \in Numbers |-> IF settings[n] # DefaultSettings[n] THEN settings[n]
                     ELSE base[n]]

policySettingsFromPlatformDefaults(platform) ==
  mergePolicySettings(DefaultSettings, SettingsFromPolicy(platform))

\* Platform, then group, then project.  A layer that is missing has no value
\* set.  The group's extra is read for the language only.
mergeEffectivePolicyFull(platform, group, project) ==
  LET texts == Overlay(Overlay(platform.set, group.set, Texts), project.set, Texts)
      numbers == mergePolicySettings(policySettingsFromPlatformDefaults(platform),
                                     SettingsFromPolicy(project))
      ofPlatform == overlayOutputLanguage(0, platform.set["language"], platform)
      ofGroup == overlayOutputLanguage(ofPlatform, group.set["language"], group)
  IN [f \in Fields |->
        IF f = "language" THEN overlayOutputLanguage(ofGroup, 0, project)
        ELSE IF f \in Numbers THEN numbers[f] ELSE texts[f]]

-----------------------------------------------------------------------------
(* ai-review.yaml                                                          *)

\* Mutant: the gate may be chosen by the repository.
stripHostOnlyAIReviewFields_Gate(cfg) ==
  [f \in DOMAIN cfg |->
     IF f \in hostOnlyAIReviewFields \ {"gate"} THEN Absent ELSE cfg[f]]

stripHostOnlyAIReviewFields(cfg) ==
  [f \in DOMAIN cfg |-> IF f \in hostOnlyAIReviewFields THEN Absent ELSE cfg[f]]

validateAIReviewConfig(cfg) ==
  LET Least(f) == IF f \in {"before", "after", "confidence"} THEN 0 ELSE 1
  IN [f \in DOMAIN cfg |-> IF cfg[f] >= Least(f) THEN cfg[f] ELSE Absent]

applyAIReviewConfig(effective, cfg) ==
  [f \in Fields |-> IF cfg[f] # Absent THEN cfg[f] ELSE effective[f]]

\* 0 is the head: of the change, or because the base is not known.
resolveConfigRef(base) == IF ConfigRef = "head" \/ base = 0 THEN 0 ELSE base

-----------------------------------------------------------------------------
(* REVIEW.md                                                               *)

ParentDirs(path) == {SubSeq(path, 1, n) : n \in 1..(Len(path) - 1)}

directoryReviewCandidates(paths) == UNION {ParentDirs(p) : p \in paths}

Nearest(path, dirs) ==
  LET above == dirs \cap ParentDirs(path)
  IN {d \in above : \A e \in above : Len(e) <= Len(d)}

\* Mutant: only the directory a file is in is looked at.
loadDirectoryScopedReviews_Own(paths, read) ==
  [d \in {SubSeq(p, 1, Len(p) - 1) : p \in paths} \cap DOMAIN read |-> read[d]]

\* read holds the files that could be fetched and are not blank; a fetch that
\* fails is passed over.
loadDirectoryScopedReviews(paths, read) ==
  LET cache == directoryReviewCandidates(paths) \cap DOMAIN read
  IN [d \in UNION {Nearest(p, cache) : p \in paths} |-> read[d]]
=============================================================================
