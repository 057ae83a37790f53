----------------------------- MODULE MCGenerator -----------------------------
(* An agent writes a pipeline that gathers evidence on each topic of a plan,     *)
(* with a review that may send it back, and a sub-pipeline that digests sources; *)
(* or one that writes guides; and the assembled investigation.                   *)
EXTENDS PipelineGenerator

Main ==
  LET stages ==
        << Agent("plan", [task |-> Text, planFeedback |-> Text, styleFeedback |-> Text], [topics |-> Texts]),
           Fanout("gather", "topic", [topic |-> Text, subject |-> Text],
             [evidence |-> ObjectWith({"claim", "source"})]),
           Agent("judge", [evidenceList |-> ArrayOf(ObjectWith({"claim", "source"}))],
             [verdict |-> Text, report |-> Text]),
           Gate("review", [verdict |-> Text], {"publish", "plan"}),
           Script("publish", "publish", [report |-> Text], [page |-> Text]) >>
  IN [stages |-> stages,
      wires  |-> FlattenSeq(<< Same(External, "plan", <<"task">>), Same(External, "gather", <<"subject">>),
                   Link("plan", "gather", << <<"topics", "topic">> >>),
                   Link("gather", "judge", << <<"evidence", "evidenceList">> >>),
                   Same("judge", "review", <<"verdict">>), Same("judge", "publish", <<"report">>),
                   Back("review", "plan", "planFeedback") >>),
      external |-> {"task", "subject"}, store |-> {}, single |-> FALSE]

Sub ==
  LET stages ==
        << Agent("list", [task |-> Text], [names |-> Texts]),
           Fanout("read", "name", [name |-> Text], [slug |-> Text, markdown |-> Text]),
           Script("join", "merge", [slugs |-> Texts, markdowns |-> Texts], [page |-> Text]) >>
  IN [stages |-> stages,
      wires  |-> FlattenSeq(<< Same(External, "list", <<"task">>),
                   Link("list", "read", << <<"names", "name">> >>),
                   Link("read", "join", << <<"slug", "slugs">>, <<"markdown", "markdowns">> >>) >>),
      external |-> {"task"}, store |-> {}, single |-> FALSE]

TheDrafts == {<<Sub, Main>>}

\* A fanout whose outputs are called id and guide: a part of "guides" is each of them.
GuidesOnly ==
  [stages |->
     << Agent("list", [task |-> Text], [names |-> Texts]),
        Fanout("write", "name", [name |-> Text], [id |-> Text, guide |-> Text]),
        Script("join", "merge", [ids |-> Texts, guides |-> Texts], [page |-> Text]) >>,
   wires  |-> FlattenSeq(<< Same(External, "list", <<"task">>),
                Link("list", "write", << <<"names", "name">> >>),
                Link("write", "join", << <<"id", "ids">>, <<"guide", "guides">> >>) >>),
   external |-> {"task"}, store |-> {}, single |-> FALSE]

TheGuideDrafts == {<<GuidesOnly>>}

Entry(entryId, name, command) == [entryId |-> entryId, name |-> name, command |-> command]

TheRecommendations ==
  {<<>>, <<Entry("etherscan", NoIdentifier, "npx")>>,
   <<Entry(None, "arxiv", "uvx"), Entry("github", "arxiv", "npx")>>,
   <<Entry("arxiv", None, "uvx"), Entry(None, "arxiv", "uvx")>>,
   <<Entry("etherscan", NoIdentifier, None)>>, <<Entry(NoIdentifier, "arxiv", "uvx")>>,
   <<Entry(None, Reserved, "npx")>>, <<Entry(None, NoIdentifier, "npx")>>, <<Entry(None, None, "npx")>>}

TheMisnomers ==
  {<<"planFeedback", "feedback">>, <<"guide", "prose">>, <<"markdown", "texts">>, <<"slug", "slugList">>,
   <<"evidence", "evidences">>, <<"verdict", "finalVerdict">>, <<"markdowns", "digestMarkdowns">>,
   <<"topic", "topics">>, <<"report", "reportText">>}

\* The names of which one is part of the other, whatever their case.
TheInside ==
  {<<"audience", "audienceHint">>, <<"audit", "reportAudit">>, <<"concept", "concepts">>,
   <<"contents", "cachedContents">>, <<"contents", "freshContents">>,
   <<"evidence", "classifiedEvidence">>, <<"evidence", "evidenceAnchors">>,
   <<"evidence", "evidenceList">>, <<"evidence", "evidences">>,
   <<"evidence", "findingEvidenceAnchors">>, <<"evidenceAnchors", "findingEvidenceAnchors">>,
   <<"feedback", "__gate_feedback__">>, <<"feedback", "axisFeedback">>,
   <<"feedback", "findingsRejectionFeedback">>, <<"feedback", "framingRejectionFeedback">>,
   <<"feedback", "humanRejectionFeedback">>, <<"feedback", "judgeRejectionFeedback">>,
   <<"feedback", "planFeedback">>, <<"feedback", "prereqRejectionFeedback">>,
   <<"feedback", "primaryRejectionFeedback">>, <<"feedback", "styleFeedback">>,
   <<"feedback", "tutorialRejectionFeedback">>, <<"hint", "audienceHint">>,
   <<"id", "classifiedEvidence">>, <<"id", "evidence">>, <<"id", "evidenceAnchors">>,
   <<"guide", "guides">>, <<"id", "evidenceList">>, <<"id", "evidences">>, <<"id", "guide">>,
   <<"id", "guides">>, <<"id", "ids">>, <<"ids", "findingIds">>, <<"id", "findingEvidenceAnchors">>,
   <<"id", "findingIds">>, <<"markdown", "digestMarkdowns">>, <<"markdown", "findingMarkdowns">>,
   <<"markdown", "markdowns">>, <<"markdown", "reportMarkdown">>,
   <<"markdown", "tutorialMarkdowns">>, <<"markdowns", "digestMarkdowns">>,
   <<"markdowns", "findingMarkdowns">>, <<"markdowns", "tutorialMarkdowns">>, <<"name", "names">>,
   <<"recommended", "recommendedAction">>, <<"report", "reportAudit">>,
   <<"report", "reportMarkdown">>, <<"report", "reportText">>, <<"round", "judgeRound">>,
   <<"slug", "cachedSlugs">>, <<"slug", "freshSlugs">>, <<"slug", "missingSlugs">>,
   <<"slug", "slugList">>, <<"slug", "slugs">>, <<"slug", "tutorialSlugs">>,
   <<"slugs", "cachedSlugs">>, <<"slugs", "freshSlugs">>, <<"slugs", "missingSlugs">>,
   <<"slugs", "tutorialSlugs">>, <<"subject", "subjectDomain">>, <<"task", "taskText">>,
   <<"topic", "topics">>, <<"tutorialAnchors", "findingTutorialAnchors">>,
   <<"verdict", "finalVerdict">>}
=============================================================================
