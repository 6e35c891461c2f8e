------------------------------- MODULE MCDesk -------------------------------
(***************************************************************************)
(* The instance for TLC of what stands around the runs: the threads of     *)
(* the chat, the answers in them and what of these is saved and shown,     *)
(* the weekly digest, the pages of the chat and of a run, and the          *)
(* acceptance gate. As in MCRecords, one of them is in focus in a          *)
(* behaviour and the others stand still.                                   *)
(***************************************************************************)
EXTENDS ChatThread, GroundedAnswer, ChatPage, RunPage, GateRun, Digest, SavedAnswer

CONSTANTS w1, w2, c1, c2, j1, j2, v1

VARIABLE focus

Still(f, vars) == focus # f => UNCHANGED vars

\* Bound: which of the requests comes first makes no difference, and the last leaves unsaid
\* what it is about.
InTurn ==
  \A p \in Posts : post[p].pc = "new" /\ post'[p].pc # "new" =>
    /\ p = CHOOSE q \in Posts : post[q].pc = "new"
    /\ (\A q \in Posts \ {p} : post[q].pc # "new") => post'[p].names = Nothing

\* Bound: a second thread, attachments and commands are tried with one page only, the
\* first two not together.
OneAtATime ==
  LET threads == Len(kept')
      pages   == Cardinality({g \in Views : page'[g].used})
  IN  /\ threads > 1 => pages <= 1
      /\ \A g \in Views :
           ~page[g].used /\ page'[g].used => g = CHOOSE h \in Views : ~page[h].used
      /\ pages > 1 => \A g \in Views : page'[g].busy # "command"
      /\ (\E g \in Views : page'[g].shelf # NoShelf) => pages <= 1 /\ threads <= 1
      /\ (\E m \in DOMAIN requests' : requests'[m].files # {}) => pages <= 1 /\ threads <= 1

\* Bound: clocks differ from UTC in digests of one row only, which nobody changes and
\* which are read without failure.
Plain(zone) == zone.base = 0 /\ zone.shift = 0 /\ zone.at = 0
OutOfSight == [sort |-> "POSITIONS", kind |-> "SETTLED", changed |-> 0]
OfThisWeek == {row \in Row : row.changed = 13 /\ row.kind \in {"PUBLISHED", "SHORTAGE", "EXPERT", "ASSIGNED"}}

OneDigest ==
  /\ clock \in {zone \in Zones : Usual(zone) /\ (zone.shift = 0 => zone.at = 0)}
  /\ \/ /\ Plain(clock) /\ moment = 20
        /\ reader \in Roles
        /\ item \in {(w1 :> one) @@ (w2 :> other) :
                      one \in {row \in Row : row.changed \in {5, 8, 15, 16}}, other \in OfThisWeek}
     \/ /\ ~Plain(clock) /\ moment \in 16 .. 22
        /\ reader = "MANAGER"
        /\ item \in {(w1 :> [sort |-> "SPECIFICATIONS", kind |-> "PROJECT", changed |-> t]) @@
                       (w2 :> OutOfSight) : t \in 0 .. moment}
  /\ DigestInit

OneIsTouched ==
  /\ item'[w2] = item[w2]
  /\ \/ Plain(clock)
     \/ /\ UNCHANGED <<item, moment>>
        /\ \A sort \in Sorts : digest'.sources[sort] # "UNAVAILABLE"

\* Saved answers: what is said varies in answers without citations, in which nothing changes;
\* the citations of plain answers vary, one at a time or two that are read together, the
\* second of which stays as it is.
InOrder == <<j1, j2>>
AllOn == [orchestrator |-> TRUE, killed |-> FALSE, actions |-> TRUE, universal |-> TRUE]
PlainAnalysis == [summary |-> "PLAIN", facts |-> <<"PLAIN">>, drivers |-> <<"PLAIN">>,
                  complete |-> TRUE, weeks |-> 1, wape |-> 60]
Said == [type |-> "OTHER", text |-> "PLAIN", missing |-> FALSE, review |-> FALSE, levels |-> {},
         analysis |-> NoAnalysis]
SaidFreely ==
  [kind |-> "ANSWER", review |-> FALSE, level |-> "HIGH", fact |-> "NORMAL", verdict |-> "EXACT",
   advice |-> "REORDER", lack |-> "SOURCE_STALE"]
PlainFor(channel) ==
  CASE channel = "ATTACHMENT" -> [status |-> "PREVIEW"]
    [] channel = "ACTION"     -> [status |-> "PROPOSED", risky |-> FALSE]
    [] channel = "COMMAND"    -> Said
    [] channel = "UNIVERSAL"  -> SaidFreely
    [] channel = "DECISION"   -> [text |-> "PLAIN", sure |-> 1, review |-> FALSE]

Asking(files, action, position, known, cmd, elsewhere) ==
  [files |-> files, action |-> action, position |-> position, known |-> known, command |-> cmd,
   elsewhere |-> elsewhere, cites |-> <<>>]
Saying(m, o) == m @@ [output |-> o]
AskCommand == Asking(FALSE, FALSE, FALSE, FALSE, "OTHER", FALSE)
AskFreely  == Asking(FALSE, FALSE, FALSE, TRUE, "NONE", FALSE)
AskOld     == Asking(FALSE, FALSE, TRUE, FALSE, "NONE", FALSE)

Commands ==
  {[Said EXCEPT !.type = "RISKS", !.text = t, !.missing = n, !.review = r, !.levels = l] :
     t \in TextKinds, n \in BOOLEAN, r \in BOOLEAN, l \in SUBSET ToSet(Levels)}
  \cup {[Said EXCEPT !.type = "ANALYSIS", !.text = t, !.analysis = a] : t \in TextKinds, a \in
          {[PlainAnalysis EXCEPT !.summary = t, !.facts = x, !.drivers = y] :
             t \in TextKinds, x \in Lists, y \in Lists}
          \cup {[PlainAnalysis EXCEPT !.complete = b, !.weeks = n, !.wape = e] :
                  b \in BOOLEAN, n \in 0 .. MaxWeeks + 1, e \in {0, 60, 150}}}
FreeAnswers ==
  {[SaidFreely EXCEPT !.kind = k, !.review = r, !.level = l, !.fact = x] :
     k \in {"ANSWER", "CLARIFICATION"}, r \in BOOLEAN, l \in DOMAIN LevelLabels,
     x \in DOMAIN FactLabels \cup {NoLabel}}
  \cup {o \in UniversalOutput : o.kind = "ANSWER" /\ o.review /\ o.level = "LOW" /\ o.fact = NoLabel}
Contents ==
  {Saying(AskCommand, o) : o \in Commands}
  \cup {Saying(AskFreely, o) : o \in FreeAnswers}
  \cup {Saying(AskOld, o) : o \in DecisionOutput}
  \cup {Saying(Asking(TRUE, FALSE, FALSE, FALSE, "NONE", FALSE), o) : o \in AttachmentOutput}
  \cup {Saying(Asking(FALSE, TRUE, FALSE, FALSE, "NONE", FALSE), o) : o \in ActionOutput}

CiteSets ==
  {[c \in {c1} |-> cite] : cite \in Citations}
  \cup {[c \in {c1, c2} |-> IF c = c1 THEN x ELSE y] : x \in Citations, y \in Citations}

SomeGrants ==
  {[members |-> m, asked |-> j1, role |-> [p \in AccessProjects |-> IF p = j1 THEN r ELSE "VIEWER"],
    claims |-> h] : m \in {{j1, j2}, {j2}}, r \in {"ANALYST", "VIEWER"}, h \in {{}, {v1}}}

OneSaved ==
  /\ \/ /\ switches = AllOn /\ message \in Contents
     \/ /\ switches \in Switches
        /\ \E files, action, position, known, elsewhere \in BOOLEAN,
              cmd \in {"NONE", "ANALYSIS", "OTHER"} :
             LET m == Asking(files, action, position, known, cmd, elsewhere)
             IN  message = Saying(m, PlainFor(Channel(m)))
     \/ /\ switches = AllOn
        /\ \E m \in {AskCommand, AskFreely}, cites \in CiteSets :
             /\ Cardinality(DOMAIN cites) = 2 => m = AskCommand /\ ReadTogether(cites[c1], cites[c2])
             /\ message = [Saying(m, PlainFor(Channel(m))) EXCEPT !.cites = cites]
  /\ grants = [members |-> {j1, j2}, asked |-> j1, claims |-> {v1},
                role |-> [p \in AccessProjects |-> IF p = j1 THEN "ANALYST" ELSE "VIEWER"]]
  /\ \E row \in CitedRows : cited = [c \in DOMAIN message.cites |-> row]
  /\ SavedInit

NothingSaid ==
  /\ switches = AllOn /\ message = Saying(AskCommand, Said)
  /\ grants = [members |-> {}, asked |-> j1, claims |-> {},
                role |-> [p \in AccessProjects |-> "NONE"]]
  /\ cited = <<>> /\ saved = NoMessage /\ reading = Idle /\ view = Blank

OneIsRead ==
  \/ UNCHANGED <<grants, cited>>
  \/ /\ reading.active /\ reading.cites # <<>> /\ ~message.known
     /\ grants' \in SomeGrants
     /\ DOMAIN cited = {c1, c2} => cited'[c2] = cited[c2]

-----------------------------------------------------------------------------
(* The instance *)

DeskInit ==
  /\ focus \in {"chat", "answer", "chatpage", "runpage", "gate", "digest", "saved"}
  /\ ChatInit
  /\ AnswerInit
  /\ ChatPageInit
  /\ RunPageInit
  /\ GateInit
  /\ IF focus = "digest" THEN OneDigest
     ELSE /\ item = [e \in DigestItems |-> OutOfSight]
          /\ clock = [base |-> 0, shift |-> 0, at |-> 0] /\ reader = "VIEWER"
          /\ moment = 0 /\ digest = NoDigest
  /\ IF focus = "saved" THEN OneSaved ELSE NothingSaid

DeskNext ==
  /\ UNCHANGED focus
  /\ \/ focus = "chat" /\ ChatNext /\ InTurn
     \/ focus = "answer" /\ AnswerNext
     \/ focus = "chatpage" /\ ChatPageNext /\ OneAtATime
     \/ focus = "runpage" /\ RunPageNext
     \/ focus = "gate" /\ GateNext
     \/ focus = "digest" /\ DigestNext /\ OneIsTouched
     \/ focus = "saved" /\ SavedNext /\ OneIsRead
  /\ Still("chat", chatVars)
  /\ Still("answer", answerVars)
  /\ Still("chatpage", chatPageVars)
  /\ Still("runpage", runPageVars)
  /\ Still("gate", gateVars)
  /\ Still("digest", digestVars)
  /\ Still("saved", savedVars)

DeskSpec ==
  DeskInit /\ [][DeskNext]_<<focus, chatVars, answerVars, chatPageVars,
                            runPageVars, gateVars, digestVars, savedVars>>
=============================================================================
