------------------------------ MODULE MCRecords ------------------------------
(***************************************************************************)
(* The instance for TLC of the components that keep records of their own:  *)
(* versions of a specification, uploaded documents, commands, reviews of   *)
(* results, demo data, prompts, candidates of what the agent learns, and   *)
(* the series of acceptance runs of a host.                                *)
(* They share no record and no request, so a behaviour of the whole projects  *)
(* onto each of them; one is chosen to be in focus and the others stand    *)
(* still, which adds their state spaces instead of multiplying them.       *)
(***************************************************************************)
EXTENDS SpecVersions, AgentCommand, AnalysisReview, DemoData,
        PromptRegistry, AgentLearning, Uploads, GateSeries

CONSTANT y1

VARIABLE focus

\* Bound: all series but one stop when they have built: it is by the tags of their
\* images alone that they meet.  The second commit is only checked out in between.
OneSeriesRuns ==
  /\ series[y1].pc \notin Over
  /\ \A s \in Series : series'[s].sha \in {"none", "c"}
  /\ \A s \in Series \ {y1} :
       /\ series'[s].pc \in {"start", "head", "hash", "build", "inspect"}
       /\ series'[s].digests = NotBuilt
       /\ series'[s].source.edited = "nothing"

Still(f, vars) == focus # f => UNCHANGED vars

\* What may be written in a file.
Plain == [form |-> "table", records |-> <<"a">>, order |-> <<"code", "name", "rest">>,
          missing |-> {}, stray |-> 0]
Orders == {<<"code", "name", "rest">>, <<"name", "code", "rest">>, <<"rest", "name", "code">>,
           <<"extra", "code", "name", "rest">>}
Documents ==
  {Plain, [Plain EXCEPT !.form = "image"], [Plain EXCEPT !.form = "corrupt"],
   [Plain EXCEPT !.form = "labelled", !.stray = 1],
   [Plain EXCEPT !.form = "labelled", !.missing = {<<1, "code">>}]}
  \cup {[Plain EXCEPT !.form = form, !.records = <<"a", "b", "c">>] :
          form \in {"table", "labelled", "delimited"}}
  \cup {[Plain EXCEPT !.form = form, !.records = <<"a", second>>, !.order = order, !.missing = m] :
          form \in {"table", "labelled", "delimited"}, second \in {"a", "b"}, order \in Orders,
          m \in {{}, {<<2, "name">>}}}
TheContents == {[f \in Papers |-> d] : d \in Documents}

\* Of the components that may start in several ways, only the one in focus does.
RecordsInit ==
  /\ focus \in {"versions", "commands", "reviews", "demo", "prompts",
               "learning", "uploads", "series"}
  /\ SpecInit
  /\ CommandInit
  /\ ReviewInit
  /\ DemoInit
  /\ PromptInit
  /\ LearningInit
  /\ focus # "reviews" =>
       \A i \in Positions :
         /\ results[i] = Materialized("RESOLVED", "CUSTOMER", TRUE, TRUE)
         /\ reviews[i] = NoReview
  /\ UploadInit
  /\ GateSeriesInit
  /\ focus # "uploads" => \A f \in Papers : written[f] = Plain
  /\ tree.at = "c"
  /\ focus # "demo" => canonical = "complete"

RecordsNext ==
  /\ UNCHANGED focus
  /\ \/ focus = "versions" /\ SpecNext
     \/ focus = "commands" /\ CommandNext
     \/ focus = "reviews" /\ ReviewNext
     \/ focus = "demo" /\ DemoNext
     \/ focus = "prompts" /\ PromptNext
     \/ focus = "learning" /\ LearningNext
     \/ focus = "uploads" /\ UploadNext
     \/ focus = "series" /\ GateSeriesNext /\ OneSeriesRuns
  /\ Still("versions", specVars)
  /\ Still("commands", commandVars)
  /\ Still("reviews", reviewVars)
  /\ Still("demo", demoVars)
  /\ Still("prompts", promptVars)
  /\ Still("learning", learningVars)
  /\ Still("uploads", uploadVars)
  /\ Still("series", seriesVars)

RecordsSpec ==
  RecordsInit /\ [][RecordsNext]_<<focus, specVars, commandVars, reviewVars,
                                   demoVars, promptVars, learningVars, uploadVars,
                                   seriesVars>>
=============================================================================
