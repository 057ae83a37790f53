--------------------------- MODULE InvestigationIR ---------------------------
(***************************************************************************)
(* assemble_investigation_ir: the pipeline of 20 stages that the built-in  *)
(* pipeline generator makes of every research task.  A topic is framed,    *)
(* tutorials on what the reader has to know first are written or taken     *)
(* from a cache, hypotheses are made, evidence is gathered for each, and   *)
(* findings, a report and its judgement follow; six gates send the work    *)
(* back.                                                                   *)
(***************************************************************************)
EXTENDS PipelineVersion

Texts     == ArrayOf(Text)
Number    == TypeNamed("number")
Kind      == TypeNamed("investigationType")
Action    == TypeNamed("recommendedAction")
Audience  == ObjectWith({"role", "knowsAbout", "doesNotKnow", "caresAbout"})
Concepts  == ArrayOf(ObjectWith({"name", "tier", "deps"}))
Hypothesis == ObjectWith({"id", "axis", "claim", "expectedEvidence", "conceptsUsed"})
Evidence  == ObjectWith({"hypothesisId", "verdict", "positiveEvidence", "negativeEvidence", "rawArtifacts"})
Classified == ArrayOf(ObjectWith({"hypothesisId", "verdict", "positiveEvidence", "negativeEvidence",
                "primaryCount", "officialCount", "thirdPartyCount", "aggregatorCount", "unknownCount"}))
Audit     == ObjectWith({"sectionToTutorial", "sectionToFindings"})
Scores    == ObjectWith({"explicit_requirements", "implicit_requirements", "synthesis", "references",
                "communication", "instruction_following"})

Stage(name, type, ins, outs) ==
  [name |-> name, type |-> type, ins |-> ins, outs |-> outs, fanout |-> None, impl |-> name,
   routes |-> {}, resume |-> None, mcps |-> <<>>, extra |-> None]
Agent(name, ins, outs) == Stage(name, "agent", ins, outs)
Script(name, module, ins, outs) == [Stage(name, "script", ins, outs) EXCEPT !.impl = module]
Fanout(name, input, ins, outs) == [Agent(name, ins, outs) EXCEPT !.fanout = input]
Gate(name, ins, targets) == [Stage(name, "gate", ins, <<>>) EXCEPT !.routes = {{t} : t \in targets}]

Framing  == [investigationType |-> Kind, audience |-> Audience, axes |-> Texts]
Tutorials == [tutorialSlugs |-> Texts, tutorialMarkdowns |-> Texts]
Findings == [findingIds |-> Texts, findingMarkdowns |-> Texts,
             findingTutorialAnchors |-> ArrayOf(Texts), findingEvidenceAnchors |-> ArrayOf(Texts)]

FramingStages ==
  << Agent("topicFraming",
       [taskText |-> Text, audienceHint |-> Text, framingRejectionFeedback |-> Text],
       Framing @@ [subjectDomain |-> Text, framingRationale |-> Text]),
     Gate("framingGate", Framing, {"prereqExtraction", "topicFraming"}),
     Agent("prereqExtraction", Framing @@ [prereqRejectionFeedback |-> Text],
       [concepts |-> Concepts, tutorialOutline |-> Texts]),
     Gate("prereqGate", [concepts |-> Concepts, tutorialOutline |-> Texts],
       {"tutorialAuthoring", "prereqExtraction"}) >>

TutorialStages ==
  << Script("lookupTutorialCache", "lookup_tutorial_cache",
       [slugs |-> Texts, subjectDomain |-> Text, tutorialRejectionFeedback |-> Text],
       [cachedSlugs |-> Texts, cachedContents |-> Texts, missingSlugs |-> Texts]),
     Fanout("tutorialAuthoring", "concept",
       [concept |-> Text, audience |-> Audience, axes |-> Texts, tutorialRejectionFeedback |-> Text],
       [slug |-> Text, markdown |-> Text]),
     Script("writeTutorialCache", "write_tutorial_cache",
       [slugs |-> Texts, contents |-> Texts, subjectDomain |-> Text], [written |-> Number]),
     Script("mergeTutorials", "merge_tutorials",
       [cachedSlugs |-> Texts, cachedContents |-> Texts, freshSlugs |-> Texts, freshContents |-> Texts],
       [slugs |-> Texts, contents |-> Texts]),
     Gate("tutorialReviewGate", Tutorials, {"hypothesize", "lookupTutorialCache"}) >>

\* mcps: the servers made of the catalog entries recommended for the search.
EvidenceStages(mcps) ==
  << Agent("hypothesize",
       Framing @@ Tutorials @@ [findingsRejectionFeedback |-> Text, humanRejectionFeedback |-> Text],
       [hypotheses |-> ArrayOf(Hypothesis), round |-> Number]),
     [Fanout("evidenceGather", "hypothesis",
        Tutorials @@ [hypothesis |-> Hypothesis, subjectDomain |-> Text,
                      primaryRejectionFeedback |-> Text, judgeRejectionFeedback |-> Text],
        [evidence |-> Evidence]) EXCEPT !.mcps = mcps],
     Script("sourceClassify", "classify_evidence_bundle",
       [evidence |-> ArrayOf(Evidence), subjectDomain |-> Text], [classifiedEvidence |-> Classified]),
     Gate("primarySourceGate", [investigationType |-> Kind, classifiedEvidence |-> Classified],
       {"findingsSynthesisGate", "evidenceGather"}),
     Gate("findingsSynthesisGate", [classifiedEvidence |-> Classified],
       {"findingsAuthoring", "hypothesize"}) >>

ReportStages ==
  << Fanout("findingsAuthoring", "evidence",
       Tutorials @@ [evidence |-> Evidence, classifiedEvidence |-> Classified, audience |-> Audience,
                     judgeRejectionFeedback |-> Text],
       [id |-> Text, markdown |-> Text, tutorialAnchors |-> Texts, evidenceAnchors |-> Texts]),
     Gate("humanReviewGate", Tutorials @@ Findings, {"reportAssembly", "hypothesize"}),
     Agent("reportAssembly",
       Tutorials @@ Findings @@ [investigationType |-> Kind, audience |-> Audience],
       [markdown |-> Text, audit |-> Audit]),
     Agent("reportJudge",
       Framing @@ Tutorials @@ Findings @@ [taskText |-> Text, reportMarkdown |-> Text,
                                            reportAudit |-> Audit, classifiedEvidence |-> Classified],
       [axisScores |-> Scores, axisFeedback |-> Scores, totalScore |-> Number,
        recommendedAction |-> Action, judgeRound |-> Number, judgeWarnings |-> Texts]),
     Gate("reportJudgeGate", [recommendedAction |-> Action, judgeRound |-> Number],
       {"pipelineComplete", "evidenceGather", "findingsAuthoring"}),
     Script("pipelineComplete", "noop_terminal", [reportMarkdown |-> Text],
       [done |-> TypeNamed("boolean")]) >>

-----------------------------------------------------------------------------

\* Wires from the ports of one stage to the inputs of another: <<port, input>>.
Link(from, to, ends) ==
  [k \in DOMAIN ends |-> [from |-> from, port |-> ends[k][1], to |-> to, input |-> ends[k][2], guard |-> "always"]]
\* Ports and inputs of the same names.
Same(from, to, names) == Link(from, to, [k \in DOMAIN names |-> <<names[k], names[k]>>])
Back(gate, to, input) == Link(gate, to, << <<Feedback, input>> >>)

TutorialEnds == << <<"slugs", "tutorialSlugs">>, <<"contents", "tutorialMarkdowns">> >>
FindingEnds  == << <<"id", "findingIds">>, <<"markdown", "findingMarkdowns">>,
                   <<"tutorialAnchors", "findingTutorialAnchors">>,
                   <<"evidenceAnchors", "findingEvidenceAnchors">> >>
TheFraming   == <<"investigationType", "audience", "axes">>

FramingWires ==
  FlattenSeq(<< Same(External, "topicFraming", <<"taskText", "audienceHint">>),
     Same(External, "reportJudge", <<"taskText">>),
     Same("topicFraming", "framingGate", TheFraming),
     Back("framingGate", "topicFraming", "framingRejectionFeedback"),
     Same("topicFraming", "prereqExtraction", TheFraming),
     Back("prereqGate", "prereqExtraction", "prereqRejectionFeedback"),
     Same("prereqExtraction", "prereqGate", <<"concepts", "tutorialOutline">>) >>)

TutorialWires ==
  FlattenSeq(<< Link("prereqExtraction", "lookupTutorialCache", << <<"tutorialOutline", "slugs">> >>),
     Same("topicFraming", "lookupTutorialCache", <<"subjectDomain">>),
     Back("tutorialReviewGate", "lookupTutorialCache", "tutorialRejectionFeedback"),
     Link("lookupTutorialCache", "tutorialAuthoring", << <<"missingSlugs", "concept">> >>),
     Same("topicFraming", "tutorialAuthoring", <<"audience", "axes">>),
     Back("tutorialReviewGate", "tutorialAuthoring", "tutorialRejectionFeedback"),
     Link("tutorialAuthoring", "writeTutorialCache", << <<"slug", "slugs">>, <<"markdown", "contents">> >>),
     Same("topicFraming", "writeTutorialCache", <<"subjectDomain">>),
     Same("lookupTutorialCache", "mergeTutorials", <<"cachedSlugs", "cachedContents">>),
     Link("tutorialAuthoring", "mergeTutorials", << <<"slug", "freshSlugs">>, <<"markdown", "freshContents">> >>) >>)

BundleWires ==
  FlattenSeq([k \in 1..7 |->
    Link("mergeTutorials",
         <<"tutorialReviewGate", "hypothesize", "evidenceGather", "findingsAuthoring",
           "humanReviewGate", "reportAssembly", "reportJudge">>[k], TutorialEnds)])

EvidenceWires ==
  FlattenSeq(<< Same("topicFraming", "hypothesize", TheFraming),
     Back("findingsSynthesisGate", "hypothesize", "findingsRejectionFeedback"),
     Back("humanReviewGate", "hypothesize", "humanRejectionFeedback"),
     Link("hypothesize", "evidenceGather", << <<"hypotheses", "hypothesis">> >>),
     Same("topicFraming", "evidenceGather", <<"subjectDomain">>),
     Back("primarySourceGate", "evidenceGather", "primaryRejectionFeedback"),
     Back("reportJudgeGate", "evidenceGather", "judgeRejectionFeedback"),
     Same("evidenceGather", "sourceClassify", <<"evidence">>),
     Same("topicFraming", "sourceClassify", <<"subjectDomain">>),
     Same("topicFraming", "primarySourceGate", <<"investigationType">>),
     Same("sourceClassify", "primarySourceGate", <<"classifiedEvidence">>),
     Same("sourceClassify", "findingsSynthesisGate", <<"classifiedEvidence">>) >>)

ReportWires ==
  FlattenSeq(<< Same("evidenceGather", "findingsAuthoring", <<"evidence">>),
     Same("sourceClassify", "findingsAuthoring", <<"classifiedEvidence">>),
     Same("topicFraming", "findingsAuthoring", <<"audience">>),
     Back("reportJudgeGate", "findingsAuthoring", "judgeRejectionFeedback"),
     Link("findingsAuthoring", "humanReviewGate", FindingEnds),
     Link("findingsAuthoring", "reportAssembly", FindingEnds),
     Link("findingsAuthoring", "reportJudge", FindingEnds),
     Same("topicFraming", "reportAssembly", <<"investigationType", "audience">>),
     Same("topicFraming", "reportJudge", TheFraming),
     Link("reportAssembly", "reportJudge", << <<"markdown", "reportMarkdown">>, <<"audit", "reportAudit">> >>),
     Same("sourceClassify", "reportJudge", <<"classifiedEvidence">>),
     Same("reportJudge", "reportJudgeGate", <<"recommendedAction", "judgeRound">>),
     Link("reportAssembly", "pipelineComplete", << <<"markdown", "reportMarkdown">> >>) >>)

-----------------------------------------------------------------------------

\* store_schema: every port a stage that is no gate declares.
StoreOf(stages) ==
  UNION {{[stage |-> s.name, port |-> p, type |-> s.outs[p]] : p \in DOMAIN s.outs} : s \in ToSet(stages)}

\* assembleInvestigationIR
Investigation(mcps) ==
  LET stages == FramingStages \o TutorialStages \o EvidenceStages(mcps) \o ReportStages
  IN [stages |-> stages,
      wires  |-> FramingWires \o TutorialWires \o BundleWires \o EvidenceWires \o ReportWires,
      external |-> {"taskText", "audienceHint"},
      store  |-> StoreOf(stages),
      single |-> FALSE]

\* The servers made of the recommended catalog entries [entryId, name, command], each part
\* None if it is missing: the entryId is taken as it is, a name only if it is an
\* identifier, and if an entry has neither, the script throws.
Servers(recommended) ==
  LET name(m)  == IF m.entryId # None THEN m.entryId ELSE m.name
      named(m) == m.entryId # None \/ m.name \notin {None, NoIdentifier}
      server(m) == [name |-> name(m), command |-> IF m.command = None THEN "" ELSE m.command]
  IN {[k \in DOMAIN r |-> server(r[k])] : r \in {x \in {recommended} : \A m \in ToSet(x) : named(m)}}
=============================================================================
