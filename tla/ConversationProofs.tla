-------------------------- MODULE ConversationProofs --------------------------
(***************************************************************************)
(* Theorems about what a user is told and keeps: what the pages keep of    *)
(* what was typed (ChatPage) and show of the runs they poll (RunPage),     *)
(* what a follow-up in the universal chat is about (ChatThread), and what  *)
(* the agent's answer (GroundedAnswer) and that to a command               *)
(* (CommandEvidence) rest on.  They hold for every number of pages, posts, *)
(* runs, intents and requests, and whichever of them fail.                 *)
(***************************************************************************)
EXTENDS ChatPage, RunPage, ChatThread, GroundedAnswer, CommandEvidence, FoldTheorems,
        TLAPS

-----------------------------------------------------------------------------
(* The composer of the chat.  SubmittedIsNotLost is about a step; what a page  *)
(* holds while it waits makes it true.                                         *)

PageFields == {"open", "used", "active", "draft", "busy", "text", "files", "post"}

\* The composer is empty while a message is on its way, and has its text when that
\* went wrong; a page that waits for an answer has sent something.
PageSound(g) ==
  /\ PageFields \subseteq DOMAIN page[g]
  /\ page[g].open \in BOOLEAN /\ page[g].active \in Threads \cup {0}
  /\ ~page[g].used => ~page[g].open /\ page[g].busy = "none"
  /\ page[g].draft \in Texts /\ page[g].text \in Texts /\ page[g].files \subseteq Drops
  /\ page[g].busy = "send" => page[g].post \in DOMAIN requests
  /\ page[g].busy \in {"create", "send"} => page[g].draft = ""
  /\ page[g].busy \in {"reload", "reloaded"} => page[g].draft = page[g].text

Holds(m) == \E t \in Threads : \E i \in DOMAIN kept[t] : kept[t][i] = <<m, "user">>

\* What the server says it stored is there.
RequestSound(m) ==
  /\ requests[m].thread \in Threads
  /\ requests[m].stage \in {"stored", "answered"} => Holds(m)

Written == Nat \X {"user", "assistant"}

ComposerInv ==
  /\ kept \in Seq(Seq(Written)) /\ Len(kept) <= MaxThreads
  /\ requests \in Seq(Posting)
  /\ DOMAIN page = Views
  /\ \A m \in DOMAIN requests : RequestSound(m)
  /\ \A g \in Views : PageSound(g)

\* What SubmittedIsNotLost says of one page.
Submitted(g) ==
  /\ page[g].open
  /\ page[g].busy \in {"create", "send", "reload", "reloaded"} /\ page'[g].busy = "none"
  => \/ page'[g].draft = page[g].text
     \/ /\ page[g].post # 0
        /\ \E t \in Threads : \E i \in DOMAIN kept[t] : kept[t][i] = <<page[g].post, "user">>

\* A page that is not open has nothing to lose.
LEMMA Closed ==
  ASSUME NEW p \in {Fresh, Gone}
  PROVE  /\ PageFields \subseteq DOMAIN p
         /\ p.open = FALSE /\ p.used \in BOOLEAN /\ p.active = 0 /\ p.draft = "" /\ p.busy = "none"
         /\ p.text = "" /\ p.files = {} /\ p.post = 0
<1>1. CASE p = Fresh
  BY <1>1 DEF Fresh, PageFields
<1>2. CASE p = Gone
  BY <1>2 DEF Gone, Fresh, PageFields
<1> QED
  BY <1>1, <1>2

LEMMA ClosedIsSound ==
  ASSUME NEW g \in Views, page[g] \in {Fresh, Gone}
  PROVE  PageSound(g)
<1>1. PICK p \in {Fresh, Gone} : page[g] = p
  OBVIOUS
<1> QED
  BY <1>1, Closed DEF PageSound, Texts

LEMMA ComposerBegins == ChatPageInit => ComposerInv
<1> SUFFICES ASSUME ChatPageInit PROVE ComposerInv
  OBVIOUS
<1>1. /\ kept \in Seq(Seq(Written)) /\ Len(kept) = 0
      /\ requests \in Seq(Posting) /\ DOMAIN requests = {}
      /\ DOMAIN page = Views
  BY DEF ChatPageInit
<1>2. ASSUME NEW g \in Views PROVE PageSound(g)
  BY ClosedIsSound DEF ChatPageInit
<1>3. Len(kept) <= MaxThreads
  <2>1. MaxThreads \in Nat
    BY ChatPageAssumption
  <2> QED
    BY <1>1, <2>1
<1> QED
  BY <1>1, <1>2, <1>3 DEF ComposerInv

\* Threads and messages only become more.
Grown ==
  /\ Threads \subseteq Threads' /\ DOMAIN requests \subseteq DOMAIN requests'
  /\ \A t \in Threads : \A i \in DOMAIN kept[t] :
       i \in DOMAIN kept'[t] /\ kept'[t][i] = kept[t][i]

LEMMA HeldStays ==
  ASSUME Grown, NEW m, Holds(m)
  PROVE  Holds(m)'
BY DEF Holds, Grown

\* A page that does nothing stays sound.
LEMMA PageAlone ==
  ASSUME Grown, NEW g \in Views, PageSound(g), page'[g] = page[g]
  PROVE  PageSound(g)' /\ Submitted(g)
<1>1. PageSound(g)'
  BY DEF PageSound, Grown
<1>2. Submitted(g)
  BY DEF Submitted
<1> QED
  BY <1>1, <1>2

\* A page with some fields as they were.
PageAs(p, q, fields) == DOMAIN q = DOMAIN p /\ \A f \in fields : q[f] = p[f]

\* An action of one page that says nothing to the server and hears nothing new.
PageStep(g) ==
  /\ PageSound(g)' /\ Submitted(g)
  /\ DOMAIN page' = Views
  /\ \A h \in Views \ {g} : page'[h] = page[h]

LEMMA NothingGrows == UNCHANGED <<kept, requests>> => Grown
BY DEF Grown, Threads

LEMMA OpeningKeeps ==
  ASSUME ComposerInv, NEW g \in Views,
         OpenPage(g) \/ ClosePage(g) \/ NewThread(g) \/ ReadThread(g)
         \/ (\E t \in Threads : SelectThread(g, t))
         \/ (\E text \in Texts : Type(g, text))
  PROVE  PageStep(g) /\ UNCHANGED <<kept, requests>>
<1>1. PageSound(g) /\ DOMAIN page = Views
  BY DEF ComposerInv
<1>2. UNCHANGED <<kept, requests>> /\ Threads' = Threads
  BY DEF OpenPage, ClosePage, NewThread, ReadThread, SelectThread, Type, Threads
<1>3. DOMAIN page' = Views /\ \A h \in Views \ {g} : page'[h] = page[h]
  BY <1>1 DEF OpenPage, ClosePage, NewThread, ReadThread, SelectThread, Type, Show
<1>4. CASE OpenPage(g)
  <2>1. page'[g] = With(page[g], [open |-> TRUE, used |-> TRUE, listed |-> Threads])
    BY <1>1, <1>4 DEF OpenPage, Show
  <2>2. PageAs(page[g], page'[g], {"active", "draft", "busy", "text", "files", "post"})
    BY <1>1, <2>1 DEF PageAs, With, PageSound, PageFields
  <2>3. page'[g].busy = "none" /\ page'[g].open = TRUE /\ page'[g].used = TRUE
    BY <1>1, <1>4, <2>1, <2>2 DEF OpenPage, PageAs, PageSound, PageFields, With
  <2> QED
    BY <1>1, <1>2, <1>3, <1>4, <2>2, <2>3
       DEF PageStep, PageSound, PageFields, PageAs, Submitted, OpenPage
<1>5. CASE ClosePage(g)
  <2>1. CASE Free(g)
    <3>1. page'[g] = Gone
      BY <1>1, <1>5, <2>1 DEF ClosePage
    <3> QED
      BY <1>1, <1>2, <1>3, <2>1, <3>1, Closed
         DEF PageStep, PageSound, Submitted, Free, Texts
  <2>2. CASE ~Free(g)
    <3>1. page'[g] = [page[g] EXCEPT !.open = FALSE]
      BY <1>1, <1>5, <2>2 DEF ClosePage
    <3> QED
      BY <1>1, <1>2, <1>3, <1>5, <2>2, <3>1
         DEF PageStep, PageSound, PageFields, Submitted, Free, ClosePage
  <2> QED
    BY <2>1, <2>2
<1>6. CASE NewThread(g)
  <2>1. page'[g] = With(page[g], [busy |-> "new"])
    BY <1>1, <1>6 DEF NewThread, Show
  <2>2. PageAs(page[g], page'[g], {"open", "active", "draft", "used", "text", "files", "post"})
    BY <1>1, <2>1 DEF PageAs, With, PageSound, PageFields
  <2>3. page'[g].busy = "new" /\ page[g].busy = "none" /\ page[g].open
    BY <1>1, <1>6, <2>1 DEF With, PageSound, PageFields, NewThread, Free
  <2> QED
    BY <1>1, <1>2, <1>3, <2>2, <2>3
       DEF PageStep, PageSound, PageFields, PageAs, Submitted
<1>7. CASE ReadThread(g)
  <2>1. PICK busy \in {"selected", "reloaded"} :
          /\ page'[g] = With(page[g], [busy |-> busy, seen |-> kept[page[g].active]])
          /\ busy = "reloaded" => page[g].busy = "reload"
    <3>1. CASE page[g].busy = "select"
      BY <1>1, <1>7, <3>1 DEF ReadThread, Show
    <3>2. CASE page[g].busy = "reload"
      BY <1>1, <1>7, <3>2 DEF ReadThread, Show
    <3> QED
      BY <1>7, <3>1, <3>2 DEF ReadThread
  <2>2. PageAs(page[g], page'[g], {"open", "active", "draft", "used", "text", "files", "post"})
    BY <1>1, <2>1 DEF PageAs, With, PageSound, PageFields
  <2>3. page'[g].busy = busy
    BY <1>1, <2>1 DEF With, PageSound, PageFields
  <2>4. page[g].busy # "none" 
    BY <1>7 DEF ReadThread
  <2> QED
    BY <1>1, <1>2, <1>3, <2>1, <2>2, <2>3, <2>4
       DEF PageStep, PageSound, PageFields, PageAs, Submitted
<1>8. ASSUME NEW t \in Threads, SelectThread(g, t) PROVE PageStep(g)
  <2>1. page'[g] = With(page[g], [active |-> t, feed |-> <<>>, busy |-> "select"])
    BY <1>1, <1>8 DEF SelectThread, Show
  <2>2. PageAs(page[g], page'[g], {"open", "draft", "used", "text", "files", "post"})
    BY <1>1, <2>1 DEF PageAs, With, PageSound, PageFields
  <2>3. page'[g].busy = "select" /\ page'[g].active = t /\ page[g].open /\ page[g].busy = "none"
    BY <1>1, <1>8, <2>1 DEF With, PageSound, PageFields, SelectThread, Free
  <2> QED
    BY <1>1, <1>2, <1>3, <2>2, <2>3
       DEF PageStep, PageSound, PageFields, PageAs, Submitted
<1>9. ASSUME NEW text \in Texts, Type(g, text) PROVE PageStep(g)
  <2>1. page'[g] = With(page[g], [draft |-> text])
    BY <1>1, <1>9 DEF Type, Show
  <2>2. PageAs(page[g], page'[g], {"open", "active", "busy", "used", "text", "files", "post"})
    BY <1>1, <2>1 DEF PageAs, With, PageSound, PageFields
  <2>3. page'[g].draft = text /\ page[g].busy = "none"
    BY <1>1, <1>9, <2>1 DEF With, PageSound, PageFields, Type, Free
  <2> QED
    BY <1>1, <1>2, <1>3, <2>2, <2>3
       DEF PageStep, PageSound, PageFields, PageAs, Submitted
<1> QED
  BY <1>2, <1>4, <1>5, <1>6, <1>7, <1>8, <1>9

\* What a page is when it has finished what it was doing.
LEMMA PageFinished ==
  ASSUME NEW g \in Views, PageSound(g), DOMAIN page = Views,
         NEW changes, Finish(g, changes), changes.busy = "none" \/ "busy" \notin DOMAIN changes
  PROVE  /\ DOMAIN page' = Views
         /\ \A h \in Views \ {g} : page'[h] = page[h]
         /\ ~page[g].open => page'[g] = Gone
         /\ page[g].open =>
              /\ DOMAIN page'[g] = DOMAIN page[g]
              /\ \A x \in {"open", "used", "active", "draft"} :
                   page'[g][x] = IF x \in DOMAIN changes THEN changes[x] ELSE page[g][x]
              /\ \A x \in {"text", "files", "post"} :
                   page'[g][x] = IF x \in DOMAIN changes THEN changes[x] ELSE AtRest[x]
              /\ page'[g].busy = "none"
<1>1. /\ DOMAIN page' = Views
      /\ \A h \in Views \ {g} : page'[h] = page[h]
      /\ page'[g] = IF page[g].open THEN With(With(page[g], AtRest), changes) ELSE Gone
  BY DEF Finish
<1>2. CASE ~page[g].open
  BY <1>1, <1>2
<1>3. CASE page[g].open
  <2>1. page'[g] = With(With(page[g], AtRest), changes)
    BY <1>1, <1>3
  <2>2. DOMAIN page'[g] = DOMAIN page[g]
    BY <2>1 DEF With
  <2>3. \A x \in PageFields :
          page'[g][x] = IF x \in DOMAIN changes THEN changes[x]
                        ELSE IF x \in DOMAIN AtRest THEN AtRest[x] ELSE page[g][x]
    BY <2>1 DEF With, PageSound
  <2>4. DOMAIN AtRest = {"busy", "text", "files", "post", "seen"} /\ AtRest.busy = "none"
    BY DEF AtRest
  <2> QED
    BY <1>1, <1>3, <2>2, <2>3, <2>4 DEF PageFields
<1> QED
  BY <1>2, <1>3

\* A page that has finished is sound, and lost nothing if its composer is as it was.
LEMMA FinishedIsSound ==
  ASSUME NEW g \in Views, PageSound(g), DOMAIN page = Views, Threads \subseteq Threads',
         NEW changes, Finish(g, changes),
         changes = AtRest
           \/ \A x \in {"open", "used", "busy", "text", "files", "post"} : x \notin DOMAIN changes,
         "active" \in DOMAIN changes => changes.active \in Threads',
         "draft" \in DOMAIN changes => changes.draft \in Texts
  PROVE  /\ PageSound(g)'
         /\ DOMAIN page' = Views
         /\ \A h \in Views \ {g} : page'[h] = page[h]
         /\ page[g].open => page'[g].draft = IF "draft" \in DOMAIN changes THEN changes.draft
                                             ELSE page[g].draft
<1>1. /\ DOMAIN AtRest = {"busy", "text", "files", "post", "seen"}
      /\ AtRest.busy = "none" /\ AtRest.text = "" /\ AtRest.files = {} /\ AtRest.post = 0
  BY DEF AtRest
<1>2. changes.busy = "none" \/ "busy" \notin DOMAIN changes
  BY <1>1 DEF PageFields
<1>3. /\ DOMAIN page' = Views
      /\ \A h \in Views \ {g} : page'[h] = page[h]
  BY <1>2, PageFinished
<1>4. CASE ~page[g].open
  <2>1. page'[g] = Gone
    BY <1>2, <1>4, PageFinished
  <2>2. PageSound(g)'
    BY <2>1, Closed DEF PageSound, Texts
  <2> QED
    BY <1>3, <1>4, <2>2
<1>5. CASE page[g].open
  <2>1. /\ DOMAIN page'[g] = DOMAIN page[g]
        /\ \A x \in {"open", "used", "active", "draft"} :
             page'[g][x] = IF x \in DOMAIN changes THEN changes[x] ELSE page[g][x]
        /\ \A x \in {"text", "files", "post"} :
             page'[g][x] = IF x \in DOMAIN changes THEN changes[x] ELSE AtRest[x]
        /\ page'[g].busy = "none"
    BY <1>2, <1>5, PageFinished
  <2>2. /\ page'[g].open = page[g].open /\ page'[g].used = page[g].used
        /\ page'[g].text = "" /\ page'[g].files = {}
    <3>1. CASE changes = AtRest
      BY <1>1, <2>1, <3>1
    <3>2. CASE \A x \in {"open", "used", "busy", "text", "files", "post"} : x \notin DOMAIN changes
      BY <1>1, <2>1, <3>2
    <3> QED
      BY <3>1, <3>2
  <2>3. /\ page'[g].active \in Threads' \cup {0} /\ page'[g].draft \in Texts
        /\ page'[g].draft = IF "draft" \in DOMAIN changes THEN changes.draft ELSE page[g].draft
    BY <1>1, <2>1 DEF PageSound
  <2>4. PageSound(g)'
    BY <1>5, <2>1, <2>2, <2>3 DEF PageSound, Texts
  <2> QED
    BY <1>3, <2>3, <2>4
<1> QED
  BY <1>4, <1>5

\* What comes back from the server, or does not, ends what a page was doing.
LEMMA EndingKeeps ==
  ASSUME ComposerInv, NEW g \in Views,
         ShowThread(g) \/ (page[g].busy = "command" /\ Finish(g, AtRest) /\ Command(g))
         \/ Answered(g)
  PROVE  PageStep(g) /\ UNCHANGED <<kept, requests>>
<1>1. PageSound(g) /\ DOMAIN page = Views
  BY DEF ComposerInv
<1>2. UNCHANGED <<kept, requests>> /\ Threads' = Threads
  BY DEF ShowThread, Command, Answered, Threads
<1>3. /\ DOMAIN AtRest = {"busy", "text", "files", "post", "seen"}
      /\ "draft" \notin DOMAIN AtRest /\ "active" \notin DOMAIN AtRest
  BY DEF AtRest
<1>4. CASE \E feed : Finish(g, [feed |-> feed]) /\ page[g].busy \in {"selected", "reload", "reloaded"}
  <2>1. PICK feed : Finish(g, [feed |-> feed])
    BY <1>4
  <2> DEFINE c == [feed |-> feed]
  <2>2. DOMAIN c = {"feed"} /\ Finish(g, c)
    BY <2>1
  <2> HIDE DEF c
  <2>3. /\ PageSound(g)' /\ DOMAIN page' = Views /\ \A h \in Views \ {g} : page'[h] = page[h]
        /\ page[g].open => page'[g].draft = page[g].draft
    BY <1>1, <1>2, <2>2, FinishedIsSound
  <2>4. page[g].busy \in {"reload", "reloaded"} => page[g].draft = page[g].text
    BY <1>1 DEF PageSound
  <2>5. Submitted(g)
    BY <1>4, <2>3, <2>4 DEF Submitted
  <2> QED
    BY <1>2, <2>3, <2>5 DEF PageStep
<1>5. CASE Finish(g, AtRest) /\ page[g].busy \in {"select", "selected", "command"}
  <2>1. /\ PageSound(g)' /\ DOMAIN page' = Views /\ \A h \in Views \ {g} : page'[h] = page[h]
    BY <1>1, <1>2, <1>3, <1>5, FinishedIsSound
  <2> QED
    BY <1>2, <1>5, <2>1 DEF PageStep, Submitted
<1>6. CASE Answered(g)
  <2>0. PICK m : m = page[g].post
    OBVIOUS
  <2> DEFINE c == [shelf |-> NoShelf, feed |-> Merged(page[g].feed, m)]
  <2>1. /\ page[g].busy = "send" /\ requests[m].stage = "answered"
        /\ DOMAIN c = {"shelf", "feed"} /\ Finish(g, c)
    BY <1>6, <2>0 DEF Answered
  <2>2. m # 0 /\ Holds(m)
    <3>1. m \in DOMAIN requests
      BY <1>1, <2>0, <2>1 DEF PageSound
    <3>2. DOMAIN requests = 1 .. Len(requests)
      BY DEF ComposerInv
    <3>3. RequestSound(m)
      BY <3>1 DEF ComposerInv
    <3> QED
      BY <2>1, <3>1, <3>2, <3>3 DEF RequestSound
  <2> HIDE DEF c
  <2>3. /\ PageSound(g)' /\ DOMAIN page' = Views /\ \A h \in Views \ {g} : page'[h] = page[h]
    BY <1>1, <1>2, <2>1, FinishedIsSound
  <2>4. Submitted(g)
    BY <2>0, <2>2 DEF Submitted, Holds
  <2> QED
    BY <1>2, <2>3, <2>4 DEF PageStep
<1> QED
  BY <1>2, <1>4, <1>5, <1>6 DEF ShowThread

\* A page that begins or goes on with something.
LEMMA WaitingKeeps ==
  ASSUME ComposerInv, NEW g \in Views,
         SendFails(g) \/ (Free(g) /\ Show(g, [busy |-> "command"]) /\ Command(g))
         \/ (\E f \in Drops : Attach(g, f) \/ Attached(g, f) \/ RemoveAttachment(g, f))
  PROVE  PageStep(g) /\ UNCHANGED <<kept, requests>>
<1>1. PageSound(g) /\ DOMAIN page = Views
  BY DEF ComposerInv
<1>2. UNCHANGED <<kept, requests>> /\ Threads' = Threads
  BY DEF SendFails, Command, Attach, Attached, RemoveAttachment, Threads
<1>3. CASE SendFails(g)
  <2> DEFINE draft == GivenBack(page[g].draft, page[g].text)
  <2>1. /\ page[g].busy = "send"
        /\ page' = [page EXCEPT ![g] = With(@, [busy |-> "reload", draft |-> draft])]
    BY <1>3 DEF SendFails, Show
  <2>2. draft \in Texts /\ draft = page[g].text
    BY <1>1, <2>1 DEF PageSound, GivenBack
  <2> HIDE DEF draft
  <2>3. /\ DOMAIN page' = Views /\ \A h \in Views \ {g} : page'[h] = page[h]
        /\ page'[g] = With(page[g], [busy |-> "reload", draft |-> draft])
    BY <1>1, <2>1
  <2>4. /\ PageAs(page[g], page'[g], {"open", "active", "used", "text", "files", "post"})
        /\ page'[g].busy = "reload" /\ page'[g].draft = draft
    BY <1>1, <2>3 DEF PageAs, With, PageSound, PageFields
  <2>5. PageSound(g)'
    BY <1>1, <1>2, <2>1, <2>2, <2>4 DEF PageSound, PageFields, PageAs
  <2> QED
    BY <1>2, <2>3, <2>4, <2>5 DEF PageStep, Submitted
<1>4. CASE Free(g) /\ Show(g, [busy |-> "command"])
  <2>1. /\ DOMAIN page' = Views /\ \A h \in Views \ {g} : page'[h] = page[h]
        /\ page'[g] = With(page[g], [busy |-> "command"])
    BY <1>1, <1>4 DEF Show
  <2>2. /\ PageAs(page[g], page'[g], {"open", "active", "used", "draft", "text", "files", "post"})
        /\ page'[g].busy = "command"
    BY <1>1, <2>1 DEF PageAs, With, PageSound, PageFields
  <2>3. PageSound(g)'
    BY <1>1, <1>2, <1>4, <2>2 DEF PageSound, PageFields, PageAs, Free
  <2> QED
    BY <1>2, <2>1, <2>2, <2>3 DEF PageStep, Submitted
<1>5. CASE \E f \in Drops : Attach(g, f) \/ Attached(g, f) \/ RemoveAttachment(g, f)
  <2>1. PICK dropped : page' = [page EXCEPT ![g] = With(@, [shelf |-> dropped])]
    BY <1>5 DEF Attach, Attached, RemoveAttachment, Show
  <2>2. /\ DOMAIN page' = Views /\ \A h \in Views \ {g} : page'[h] = page[h]
        /\ page'[g] = With(page[g], [shelf |-> dropped])
    BY <1>1, <2>1
  <2>3. PageAs(page[g], page'[g],
               {"open", "active", "used", "draft", "busy", "text", "files", "post"})
    BY <1>1, <2>2 DEF PageAs, With, PageSound, PageFields
  <2>4. PageSound(g)'
    BY <1>1, <1>2, <2>3 DEF PageSound, PageFields, PageAs
  <2> QED
    BY <1>2, <2>2, <2>3, <2>4 DEF PageStep, PageAs, Submitted
<1> QED
  BY <1>3, <1>4, <1>5

-----------------------------------------------------------------------------
(* Sending.                                                                    *)

\* What else changes on the page: its composer is emptied, or was empty before.
AlsoChanged(g, also) ==
  /\ page[g].used
  /\ DOMAIN also \subseteq {"active", "listed", "draft"}
  /\ "active" \in DOMAIN also => also["active"] \in Threads'
  /\ IF "draft" \in DOMAIN also THEN also["draft"] = "" ELSE page[g].draft = ""

\* A message that is sent is waited for by the page it is sent from.
LEMMA AskedKeeps ==
  ASSUME ComposerInv, NEW g \in Views, NEW t \in Threads', Len(kept') <= MaxThreads,
         kept' \in Seq(Seq(Written)), Threads \subseteq Threads',
         \A k \in Threads : kept'[k] = kept[k],
         NEW text \in Texts, NEW files \in SUBSET Drops, NEW also,
         Asked(g, t, text, files, also),
         AlsoChanged(g, also)
  PROVE  ComposerInv' /\ PageStep(g)
<1>0. PICK m : m = Len(requests) + 1
  OBVIOUS
<1> DEFINE asked == [thread |-> t, text |-> text, files |-> files, stage |-> "sent"]
<1>1. PageSound(g) /\ DOMAIN page = Views
  BY DEF ComposerInv
<1>2. /\ requests \in Seq(Posting) /\ requests' = Append(requests, asked) /\ asked \in Posting
  <2>1. t \in 1 .. MaxThreads
    <3>1. Len(kept') \in Nat
      OBVIOUS
    <3>2. MaxThreads \in Nat
      BY ChatPageAssumption
    <3> QED
      BY <3>1, <3>2 DEF Threads
  <2> QED
    BY <2>1 DEF ComposerInv, Asked, Posting
<1> HIDE DEF asked
<1>3. /\ requests' \in Seq(Posting) /\ DOMAIN requests' = DOMAIN requests \cup {m}
      /\ \A k \in DOMAIN requests : requests'[k] = requests[k]
      /\ requests'[m] = asked /\ m \in DOMAIN requests' /\ m \notin DOMAIN requests
  BY <1>0, <1>2
<1>4. Grown
  <2>1. DOMAIN requests \subseteq DOMAIN requests'
    BY <1>3
  <2> QED
    BY <2>1 DEF Grown
<1>5. \A k \in DOMAIN requests' : RequestSound(k)'
  <2>1. ASSUME NEW k \in DOMAIN requests PROVE RequestSound(k)'
    <3>1. RequestSound(k) /\ requests'[k] = requests[k]
      BY <1>3 DEF ComposerInv
    <3> QED
      BY <1>4, <3>1, HeldStays DEF RequestSound, Grown
  <2>2. RequestSound(m)'
    <3>1. requests'[m].thread = t /\ requests'[m].stage = "sent"
      BY <1>3 DEF asked
    <3> QED
      BY <3>1 DEF RequestSound
  <2> QED
    BY <1>3, <2>1, <2>2
<1> DEFINE feed == Append(page[g].feed, <<m, "pending">>)
           sent == [busy |-> "send", post |-> m, text |-> text, files |-> files, feed |-> feed]
<1>6. page' = [page EXCEPT ![g] = With(With(@, also), sent)]
  BY <1>0 DEF Asked
<1>. HIDE DEF feed
<1>7. /\ DOMAIN page' = Views /\ \A h \in Views \ {g} : page'[h] = page[h]
      /\ page'[g] = With(With(page[g], also), sent)
  BY <1>1, <1>6
<1>8. /\ PageFields \subseteq DOMAIN page'[g]
      /\ page'[g].busy = "send" /\ page'[g].post = m
      /\ page'[g].text = text /\ page'[g].files = files
      /\ \A x \in {"open", "used", "active", "draft"} :
           page'[g][x] = IF x \in DOMAIN also THEN also[x] ELSE page[g][x]
  <2>1. PageFields \subseteq DOMAIN page[g]
    BY <1>1 DEF PageSound
  <2> QED
    <3> DEFINE mid == With(page[g], also)
    <3>1. /\ DOMAIN mid = DOMAIN page[g]
          /\ \A x \in PageFields : mid[x] = IF x \in DOMAIN also THEN also[x] ELSE page[g][x]
      BY <2>1 DEF With
    <3> HIDE DEF mid
    <3>2. page'[g] = With(mid, sent)
      BY <1>7 DEF mid
    <3>3. DOMAIN page'[g] = DOMAIN mid
      BY <3>2 DEF With
    <3>4. \A x \in PageFields : page'[g][x] = IF x \in DOMAIN sent THEN sent[x] ELSE mid[x]
      BY <2>1, <3>1, <3>2 DEF With
    <3>5. DOMAIN sent = {"busy", "post", "text", "files", "feed"}
      OBVIOUS
    <3> QED
      BY <2>1, <3>1, <3>3, <3>4, <3>5 DEF PageFields
<1>9. PageSound(g)'
  <2>1. /\ page'[g].open = page[g].open /\ page'[g].used = page[g].used
        /\ page'[g].draft = ""
        /\ page'[g].active \in Threads' \cup {0}
    BY <1>1, <1>8 DEF PageSound, AlsoChanged
  <2> QED
    BY <1>1, <1>3, <1>8, <2>1 DEF PageSound, Texts, AlsoChanged
<1>10. \A h \in Views : PageSound(h)'
  BY <1>4, <1>7, <1>9, PageAlone DEF ComposerInv
<1> QED
  BY <1>3, <1>5, <1>7, <1>8, <1>9, <1>10 DEF ComposerInv, PageStep, Submitted

\* A step of one page keeps the whole, and loses nothing on any page.
LEMMA PageStepKeeps ==
  ASSUME ComposerInv, NEW g \in Views, PageStep(g), Grown,
         kept' \in Seq(Seq(Written)), Len(kept') <= MaxThreads, UNCHANGED requests
  PROVE  ComposerInv' /\ \A h \in Views : Submitted(h)
<1>1. ASSUME NEW h \in Views PROVE PageSound(h)' /\ Submitted(h)
  <2>1. CASE h = g
    BY <2>1 DEF PageStep
  <2>2. CASE h # g
    BY <2>2, PageAlone DEF PageStep, ComposerInv
  <2> QED
    BY <2>1, <2>2
<1>2. ASSUME NEW m \in DOMAIN requests PROVE RequestSound(m)'
  BY HeldStays DEF ComposerInv, RequestSound, Grown
<1> QED
  BY <1>1, <1>2 DEF ComposerInv, PageStep

\* A thread that is made is empty and leaves the others as they are.
LEMMA ThreadMade ==
  ASSUME ComposerInv, Len(kept) < MaxThreads, kept' = Append(kept, <<>>)
  PROVE  /\ kept' \in Seq(Seq(Written)) /\ Len(kept') <= MaxThreads
         /\ Threads' = Threads \cup {Len(kept) + 1}
         /\ \A k \in Threads : kept'[k] = kept[k]
<1>1. kept \in Seq(Seq(Written)) /\ <<>> \in Seq(Written) /\ Len(kept) \in Nat
  BY DEF ComposerInv
<1>2. MaxThreads \in Nat
  BY ChatPageAssumption
<1> QED
  BY <1>1, <1>2 DEF Threads

LEMMA SendKeeps ==
  ASSUME ComposerInv, NEW g \in Views, Send(g)
  PROVE  ComposerInv' /\ \A h \in Views : Submitted(h)
<1>1. PageSound(g) /\ DOMAIN page = Views /\ UNCHANGED kept /\ Threads' = Threads /\ Free(g)
  BY DEF ComposerInv, Send, Threads
<1>2. PICK text \in Texts, files \in SUBSET Drops :
        \/ /\ Show(g, [busy |-> "create", text |-> text, files |-> files, draft |-> ""])
           /\ UNCHANGED requests
        \/ page[g].active # 0 /\ Asked(g, page[g].active, text, files, [draft |-> ""])
  <2> DEFINE files == {f \in Drops : page[g].shelf[f] = "READY"}
  <2>1. files \in SUBSET Drops
    OBVIOUS
  <2> DEFINE offered == IF page[g].feed = <<>> THEN Suggestions ELSE {}
  <2>2. PICK text \in {page[g].draft} \cup offered :
          IF page[g].active = 0
          THEN /\ Show(g, [busy |-> "create", text |-> text, files |-> files, draft |-> ""])
               /\ UNCHANGED requests
          ELSE Asked(g, page[g].active, text, files, [draft |-> ""])
    BY DEF Send
  <2>3. text \in Texts
    BY <1>1 DEF PageSound, Texts
  <2> HIDE DEF files
  <2> QED
    BY <2>1, <2>2, <2>3
<1>3. CASE /\ Show(g, [busy |-> "create", text |-> text, files |-> files, draft |-> ""])
           /\ UNCHANGED requests
  <2>1. /\ DOMAIN page' = Views /\ \A h \in Views \ {g} : page'[h] = page[h]
        /\ page'[g] = With(page[g], [busy |-> "create", text |-> text, files |-> files,
                                     draft |-> ""])
    BY <1>1, <1>3 DEF Show
  <2>2. /\ PageAs(page[g], page'[g], {"open", "active", "used", "post"})
        /\ page'[g].busy = "create" /\ page'[g].text = text /\ page'[g].files = files
        /\ page'[g].draft = ""
    BY <1>1, <2>1 DEF PageAs, With, PageSound, PageFields
  <2>3. PageSound(g)'
    BY <1>1, <1>3, <2>2 DEF PageSound, PageFields, PageAs, Free, Texts
  <2>4. PageStep(g)
    BY <2>1, <2>2, <2>3 DEF PageStep, Submitted
  <2>5. Grown
    BY <1>1, <1>3, NothingGrows
  <2> QED
    BY <1>1, <1>3, <2>4, <2>5, PageStepKeeps DEF ComposerInv
<1>4. CASE page[g].active # 0 /\ Asked(g, page[g].active, text, files, [draft |-> ""])
  <2> DEFINE also == [draft |-> ""]
  <2>1. DOMAIN also = {"draft"} /\ also["draft"] = ""
    OBVIOUS
  <2>2. Asked(g, page[g].active, text, files, also)
    BY <1>4
  <2> HIDE DEF also
  <2>3. AlsoChanged(g, also)
    BY <1>1, <2>1 DEF AlsoChanged, PageSound, Free
  <2>4. PICK t : t = page[g].active
    OBVIOUS
  <2>5. t \in Threads' /\ Asked(g, t, text, files, also)
    BY <1>1, <1>4, <2>2, <2>4 DEF PageSound
  <2>6. kept' \in Seq(Seq(Written)) /\ Len(kept') <= MaxThreads
    BY <1>1 DEF ComposerInv
  <2>7. ComposerInv' /\ PageStep(g)
    BY <1>1, <2>3, <2>5, <2>6, AskedKeeps
  <2> QED
    BY <2>7 DEF PageStep, Submitted
<1> QED
  BY <1>2, <1>3, <1>4

LEMMA CreateThreadKeeps ==
  ASSUME ComposerInv, NEW g \in Views, CreateThread(g)
  PROVE  ComposerInv' /\ \A h \in Views : Submitted(h)
<1>1. PageSound(g) /\ DOMAIN page = Views
  BY DEF ComposerInv
<1>2. PICK t : t = Len(kept) + 1
  OBVIOUS
<1>3. /\ kept' \in Seq(Seq(Written)) /\ Len(kept') <= MaxThreads
      /\ Threads' = Threads \cup {t}
      /\ \A k \in Threads : kept'[k] = kept[k]
  BY <1>2, ThreadMade DEF CreateThread
<1> DEFINE listed == page[g].listed \cup {t}
<1>4. CASE page[g].busy = "new"
  <2> DEFINE c == [feed |-> <<>>, active |-> t, listed |-> listed]
  <2>1. UNCHANGED requests /\ Finish(g, c)
    BY <1>2, <1>4 DEF CreateThread
  <2>2. DOMAIN c = {"feed", "active", "listed"} /\ c.active = t
    OBVIOUS
  <2> HIDE DEF c
  <2>3. /\ PageSound(g)' /\ DOMAIN page' = Views /\ \A h \in Views \ {g} : page'[h] = page[h]
    BY <1>1, <1>3, <2>1, <2>2, FinishedIsSound
  <2>4. PageStep(g)
    BY <1>4, <2>3 DEF PageStep, Submitted
  <2>5. Grown
    BY <1>3, <2>1 DEF Grown
  <2> QED
    BY <1>3, <2>1, <2>4, <2>5, PageStepKeeps
<1>5. CASE page[g].busy = "create"
  <2> DEFINE also == [active |-> t, listed |-> listed]
  <2>1. Asked(g, t, page[g].text, page[g].files, also)
    BY <1>2, <1>5 DEF CreateThread
  <2>2. DOMAIN also = {"active", "listed"} /\ also["active"] = t
    OBVIOUS
  <2> HIDE DEF also
  <2>3. AlsoChanged(g, also)
    BY <1>1, <1>3, <1>5, <2>2 DEF AlsoChanged, PageSound
  <2>4. PICK text \in Texts, files \in SUBSET Drops : text = page[g].text /\ files = page[g].files
    BY <1>1 DEF PageSound
  <2>5. Asked(g, t, text, files, also)
    BY <2>1, <2>4
  <2>6. t \in Threads' /\ Threads \subseteq Threads'
    BY <1>3
  <2>7. ComposerInv' /\ PageStep(g)
    BY <1>3, <2>3, <2>5, <2>6, AskedKeeps
  <2> QED
    BY <2>7 DEF PageStep, Submitted
<1> QED
  BY <1>4, <1>5 DEF CreateThread

LEMMA CreateFailsKeeps ==
  ASSUME ComposerInv, NEW g \in Views, CreateFails(g)
  PROVE  ComposerInv' /\ \A h \in Views : Submitted(h)
<1>1. PageSound(g) /\ DOMAIN page = Views /\ UNCHANGED requests
  BY DEF ComposerInv, CreateFails
<1>2. /\ kept' \in Seq(Seq(Written)) /\ Len(kept') <= MaxThreads
      /\ Threads \subseteq Threads'
      /\ \A k \in Threads : kept'[k] = kept[k]
  <2>1. CASE kept' = kept
    BY <2>1 DEF ComposerInv, Threads
  <2>2. CASE Len(kept) < MaxThreads /\ kept' = Append(kept, <<>>)
    BY <2>2, ThreadMade
  <2> QED
    BY <2>1, <2>2 DEF CreateFails
<1> DEFINE draft == IF page[g].busy = "new" THEN page[g].draft
                    ELSE GivenBack(page[g].draft, page[g].text)
           c == [draft |-> draft]
<1>3. Finish(g, c) /\ page[g].busy \in {"create", "new"}
  BY DEF CreateFails
<1>4. draft \in Texts /\ (page[g].busy = "create" => draft = page[g].text)
  BY <1>1 DEF PageSound, GivenBack
<1> HIDE DEF draft
<1>5. DOMAIN c = {"draft"} /\ c.draft = draft
  OBVIOUS
<1> HIDE DEF c
<1>6. /\ PageSound(g)' /\ DOMAIN page' = Views /\ \A h \in Views \ {g} : page'[h] = page[h]
      /\ page[g].open => page'[g].draft = draft
  BY <1>1, <1>2, <1>3, <1>4, <1>5, FinishedIsSound
<1>7. Submitted(g)
  BY <1>3, <1>4, <1>6 DEF Submitted
<1>8. PageStep(g)
  BY <1>6, <1>7 DEF PageStep
<1>9. Grown
  BY <1>1, <1>2 DEF Grown
<1> QED
  BY <1>1, <1>2, <1>8, <1>9, PageStepKeeps

-----------------------------------------------------------------------------
(* The server, and all together.                                               *)

LEMMA ServerKeeps ==
  ASSUME ComposerInv, NEW m \in DOMAIN requests,
         StoreQuestion(m) \/ StoreAnswer(m) \/ PostFails(m)
  PROVE  ComposerInv' /\ \A h \in Views : Submitted(h)
<1>1. /\ requests \in Seq(Posting) /\ kept \in Seq(Seq(Written)) /\ UNCHANGED page
      /\ RequestSound(m) /\ m \in Nat
  BY DEF ComposerInv, StoreQuestion, StoreAnswer, PostFails
<1>2. PICK stage \in {"stored", "answered", "failed"} :
        /\ requests' = [requests EXCEPT ![m].stage = stage]
        /\ stage = "answered" => requests[m].stage = "stored"
        /\ stage = "stored" =>
             kept' = [kept EXCEPT ![requests[m].thread] = Append(@, <<m, "user">>)]
  BY DEF StoreQuestion, StoreAnswer, PostFails
<1>3. /\ requests' \in Seq(Posting) /\ DOMAIN requests' = DOMAIN requests
      /\ \A k \in DOMAIN requests : requests'[k].thread = requests[k].thread
      /\ \A k \in DOMAIN requests \ {m} : requests'[k].stage = requests[k].stage
      /\ requests'[m].stage = stage
  <2>1. requests[m] \in Posting
    BY <1>1
  <2>2. [requests[m] EXCEPT !.stage = stage] =
          [thread |-> requests[m].thread, text |-> requests[m].text,
           files |-> requests[m].files, stage |-> stage]
    BY <2>1 DEF Posting
  <2>3. requests' = [requests EXCEPT ![m] = [thread |-> requests[m].thread,
          text |-> requests[m].text, files |-> requests[m].files, stage |-> stage]]
    BY <1>2, <2>2
  <2>4. [thread |-> requests[m].thread, text |-> requests[m].text,
         files |-> requests[m].files, stage |-> stage] \in Posting
    BY <2>1 DEF Posting
  <2> QED
    BY <1>1, <2>3, <2>4
<1>4. PICK t \in Threads : t = requests[m].thread
  BY <1>1 DEF RequestSound
<1>5. PICK e \in Written : kept' = kept \/ kept' = [kept EXCEPT ![t] = Append(@, e)]
  <2>1. <<m, "user">> \in Written /\ <<m, "assistant">> \in Written
    BY <1>1 DEF Written
  <2> QED
    BY <1>4, <2>1 DEF StoreQuestion, StoreAnswer, PostFails
<1>6. /\ kept' \in Seq(Seq(Written)) /\ Len(kept') = Len(kept) /\ Threads' = Threads
      /\ \A k \in Threads : \A i \in DOMAIN kept[k] :
           i \in DOMAIN kept'[k] /\ kept'[k][i] = kept[k][i]
  <2>1. kept[t] \in Seq(Written)
    BY <1>1, <1>4 DEF Threads
  <2>2. /\ Append(kept[t], e) \in Seq(Written)
        /\ \A i \in DOMAIN kept[t] : /\ i \in DOMAIN Append(kept[t], e)
                                     /\ Append(kept[t], e)[i] = kept[t][i]
    BY <2>1
  <2>3. CASE kept' = kept
    BY <1>1, <2>3 DEF Threads
  <2>4. CASE kept' = [kept EXCEPT ![t] = Append(kept[t], e)]
    <3>1. DOMAIN kept = Threads /\ t \in DOMAIN kept
      BY <1>1, <1>4 DEF Threads
    <3>2. kept' \in Seq(Seq(Written)) /\ Len(kept') = Len(kept)
      BY <1>1, <2>2, <2>4, <3>1
    <3> QED
      BY <2>2, <2>4, <3>1, <3>2 DEF Threads
  <2> QED
    BY <1>5, <2>3, <2>4
<1>7. Grown
  BY <1>3, <1>6 DEF Grown
<1>8. ASSUME NEW k \in DOMAIN requests' PROVE RequestSound(k)'
  <2>1. RequestSound(k) /\ requests'[k].thread \in Threads'
    BY <1>3, <1>6, <1>8 DEF ComposerInv, RequestSound
  <2>2. CASE k # m \/ stage = "answered"
    <3>1. requests'[k].stage \in {"stored", "answered"} => Holds(k)
      BY <1>1, <1>2, <1>3, <1>8, <2>1, <2>2 DEF RequestSound
    <3> QED
      BY <1>7, <2>1, <3>1, HeldStays DEF RequestSound
  <2>3. CASE k = m /\ stage = "stored"
    <3>1. kept' = [kept EXCEPT ![t] = Append(kept[t], <<m, "user">>)]
      BY <1>2, <1>4, <2>3
    <3>2. kept[t] \in Seq(Written) /\ t \in DOMAIN kept
      BY <1>1, <1>4 DEF Threads
    <3>3. kept'[t] = Append(kept[t], <<m, "user">>)
      BY <3>1, <3>2
    <3>4. /\ Len(kept[t]) + 1 \in DOMAIN kept'[t]
          /\ kept'[t][Len(kept[t]) + 1] = <<m, "user">>
      BY <3>2, <3>3
    <3>5. Holds(m)'
      BY <1>4, <1>6, <3>4 DEF Holds
    <3> QED
      BY <2>1, <2>3, <3>5 DEF RequestSound
  <2>4. CASE k = m /\ stage = "failed"
    BY <1>3, <2>1, <2>4 DEF RequestSound
  <2> QED
    BY <2>2, <2>3, <2>4
<1>9. \A h \in Views : PageSound(h)' /\ Submitted(h)
  BY <1>1, <1>7, PageAlone DEF ComposerInv
<1> QED
  BY <1>1, <1>3, <1>6, <1>8, <1>9 DEF ComposerInv

LEMMA ComposerKeeps ==
  ASSUME ComposerInv, [ChatPageNext]_chatPageVars
  PROVE  ComposerInv' /\ \A h \in Views : Submitted(h)
<1>1. ASSUME NEW g \in Views, PageStep(g), UNCHANGED <<kept, requests>>
      PROVE  ComposerInv' /\ \A h \in Views : Submitted(h)
  BY <1>1, NothingGrows, PageStepKeeps DEF ComposerInv
<1>2. ASSUME NEW m \in DOMAIN requests, StoreQuestion(m) \/ StoreAnswer(m) \/ PostFails(m)
      PROVE  ComposerInv' /\ \A h \in Views : Submitted(h)
  BY <1>2, ServerKeeps
<1>3. ASSUME NEW g \in Views,
             OpenPage(g) \/ ClosePage(g) \/ NewThread(g) \/ ReadThread(g)
             \/ (\E t \in Threads : SelectThread(g, t))
             \/ (\E text \in Texts : Type(g, text))
      PROVE  ComposerInv' /\ \A h \in Views : Submitted(h)
  BY <1>1, <1>3, OpeningKeeps
<1>4. ASSUME NEW g \in Views, ShowThread(g) \/ Answered(g)
      PROVE  ComposerInv' /\ \A h \in Views : Submitted(h)
  BY <1>1, <1>4, EndingKeeps
<1>5. ASSUME NEW g \in Views, Command(g)
      PROVE  ComposerInv' /\ \A h \in Views : Submitted(h)
  <2>1. CASE Free(g) /\ Show(g, [busy |-> "command"])
    BY <1>1, <1>5, <2>1, WaitingKeeps
  <2>2. CASE page[g].busy = "command" /\ Finish(g, AtRest)
    BY <1>1, <1>5, <2>2, EndingKeeps
  <2> QED
    BY <1>5, <2>1, <2>2 DEF Command
<1>6. ASSUME NEW g \in Views,
             SendFails(g) \/ (\E f \in Drops : Attach(g, f) \/ Attached(g, f)
                                               \/ RemoveAttachment(g, f))
      PROVE  ComposerInv' /\ \A h \in Views : Submitted(h)
  BY <1>1, <1>6, WaitingKeeps
<1>7. ASSUME NEW g \in Views, Send(g) \/ CreateThread(g) \/ CreateFails(g)
      PROVE  ComposerInv' /\ \A h \in Views : Submitted(h)
  BY <1>7, SendKeeps, CreateThreadKeeps, CreateFailsKeeps
<1>8. CASE UNCHANGED chatPageVars
  <2>1. Grown /\ UNCHANGED <<kept, requests, page>>
    BY <1>8, NothingGrows DEF chatPageVars
  <2>2. ASSUME NEW h \in Views PROVE PageSound(h)' /\ Submitted(h)
    BY <2>1, PageAlone DEF ComposerInv
  <2>3. ASSUME NEW m \in DOMAIN requests' PROVE RequestSound(m)'
    BY <2>1 DEF ComposerInv, RequestSound, Holds, Threads
  <2> QED
    BY <2>1, <2>2, <2>3 DEF ComposerInv
<1> QED
  BY <1>2, <1>3, <1>4, <1>5, <1>6, <1>7, <1>8 DEF ChatPageNext

\* A question that was submitted is not lost: when the page that sent it is idle
\* again, it is in the thread or back in the composer, for every number of pages,
\* threads and messages, whatever fails or is answered late (agent-chat.tsx:
\* sendMessage).
THEOREM SubmittedQuestionsKept == ChatPageSpec => SubmittedIsNotLost
<1>1. ChatPageInit => ComposerInv
  BY ComposerBegins
<1>2. ComposerInv /\ [ChatPageNext]_chatPageVars => ComposerInv'
  BY ComposerKeeps
<1>3. ComposerInv /\ [ChatPageNext]_chatPageVars => \A h \in Views : Submitted(h)
  BY ComposerKeeps
<1>4. (\A h \in Views : Submitted(h)) =>
        \A g \in Views :
          /\ page[g].open
          /\ page[g].busy \in {"create", "send", "reload", "reloaded"} /\ page'[g].busy = "none"
          => \/ page'[g].draft = page[g].text
             \/ /\ page[g].post # 0
                /\ \E t \in Threads : \E i \in DOMAIN kept[t] :
                     kept[t][i] = <<page[g].post, "user">>
  BY DEF Submitted
<1> QED
  BY <1>1, <1>2, <1>3, <1>4, PTL DEF ChatPageSpec, SubmittedIsNotLost

\* What is left of a feed, message by message.
Leaving(walk, feed, gone) ==
  /\ walk[0] = <<>> /\ walk[Len(feed)] = Without(feed, gone)
  /\ \A i \in 1 .. Len(feed) :
       walk[i] = IF feed[i] \in gone THEN walk[i - 1] ELSE Append(walk[i - 1], feed[i])

LEMMA LeavingPossible ==
  ASSUME NEW M, NEW feed \in Seq(M), NEW gone
  PROVE  \E walk : Leaving(walk, feed, gone)
<1> DEFINE n == Len(feed)
           step == [x \in Seq(M) \X (1 .. n) |->
                      IF feed[x[2]] \in gone THEN x[1] ELSE Append(x[1], feed[x[2]])]
           it == CHOOSE g : g = [s \in SUBSET DOMAIN feed |->
                   IF s = {} THEN <<>>
                   ELSE IF feed[Max(s)] \in gone THEN g[s \ {Max(s)}]
                        ELSE Append(g[s \ {Max(s)}], feed[Max(s)])]
           walk == [i \in 0 .. n |-> it[1 .. i]]
<1>1. Without(feed, gone) = it[DOMAIN feed]
  BY DEF Without, FoldLeft, MapThenFoldSet
<1>2. n \in Nat /\ DOMAIN feed = 1 .. n /\ <<>> \in Seq(M) /\ \A i \in 1 .. n : feed[i] \in M
  OBVIOUS
<1>3. step \in [Seq(M) \X (1 .. n) -> Seq(M)]
  OBVIOUS
<1>4. PICK g \in [SUBSET (1 .. n) -> Seq(M)] : Folded(g, n, <<>>, step)
  <2> HIDE DEF step, n
  <2> QED BY <1>2, <1>3, FoldPossible
<1>5. ASSUME NEW s \in SUBSET (1 .. n), s # {}
      PROVE  step[<<g[s \ {Max(s)}], Max(s)>>] =
               IF feed[Max(s)] \in gone THEN g[s \ {Max(s)}]
               ELSE Append(g[s \ {Max(s)}], feed[Max(s)])
  <2>1. PICK k \in 1 .. n : k = Max(s)
    <3> HIDE DEF n
    <3> QED BY <1>2, <1>5, GreatestIs
  <2>2. PICK w \in Seq(M) : w = g[s \ {k}]
    OBVIOUS
  <2> QED BY <2>1, <2>2
<1>6. g = [s \in SUBSET DOMAIN feed |->
             IF s = {} THEN <<>>
             ELSE IF feed[Max(s)] \in gone THEN g[s \ {Max(s)}]
                  ELSE Append(g[s \ {Max(s)}], feed[Max(s)])]
  <2> HIDE DEF step, n
  <2> QED BY <1>2, <1>4, <1>5 DEF Folded
<1>7. it = [s \in SUBSET DOMAIN feed |->
             IF s = {} THEN <<>>
             ELSE IF feed[Max(s)] \in gone THEN it[s \ {Max(s)}]
                  ELSE Append(it[s \ {Max(s)}], feed[Max(s)])]
  BY <1>6
<1> HIDE DEF it
<1>8. walk[0] = <<>>
  BY <1>2, <1>7
<1>9. ASSUME NEW i \in 1 .. n
      PROVE  walk[i] = IF feed[i] \in gone THEN walk[i - 1] ELSE Append(walk[i - 1], feed[i])
  <2>1. Max(1 .. i) = i /\ (1 .. i) \ {i} = 1 .. (i - 1)
    BY <1>2, GreatestOfFirst
  <2>2. 1 .. i \in SUBSET DOMAIN feed /\ 1 .. i # {}
    <3>1. i \in Nat /\ i >= 1 /\ 1 .. i \subseteq 1 .. n /\ 1 \in 1 .. i
      BY <1>2
    <3> QED BY <1>2, <3>1
  <2>3. it[1 .. i] = IF feed[i] \in gone THEN it[1 .. (i - 1)] ELSE Append(it[1 .. (i - 1)], feed[i])
    BY <1>7, <2>1, <2>2
  <2>4. walk[i] = it[1 .. i] /\ walk[i - 1] = it[1 .. (i - 1)]
    BY <1>2
  <2> QED BY <2>3, <2>4
<1>10. walk[n] = it[DOMAIN feed]
  BY <1>2
<1>11. Leaving(walk, feed, gone)
  BY <1>1, <1>8, <1>9, <1>10 DEF Leaving
<1> QED BY <1>11

\* What is left of the first k messages stands in the feed, in its order.
LeftOf(w, k, M, feed, gone) ==
  /\ w \in Seq(M)
  /\ \A i \in DOMAIN w : \E a \in 1 .. k : w[i] = feed[a] /\ feed[a] \notin gone
  /\ \A i, j \in DOMAIN w :
       i < j => \E a, b \in 1 .. k : a < b /\ w[i] = feed[a] /\ w[j] = feed[b]

LEMMA WithoutIs ==
  ASSUME NEW M, NEW feed \in Seq(M), NEW gone
  PROVE  LeftOf(Without(feed, gone), Len(feed), M, feed, gone)
<1> DEFINE n == Len(feed)
<1>1. PICK walk : Leaving(walk, feed, gone)
  BY LeavingPossible
<1>2. /\ walk[0] = <<>> /\ walk[n] = Without(feed, gone)
      /\ \A i \in 1 .. n : walk[i] = IF feed[i] \in gone THEN walk[i - 1]
                                      ELSE Append(walk[i - 1], feed[i])
  BY <1>1 DEF Leaving
<1> DEFINE S == {k \in 0 .. n : LeftOf(walk[k], k, M, feed, gone)}
<1>3. n \in Nat /\ DOMAIN feed = 1 .. n /\ \A i \in 1 .. n : feed[i] \in M
  OBVIOUS
<1>4. 0 \in S
  <2>1. LeftOf(<<>>, 0, M, feed, gone)
    BY DEF LeftOf
  <2> QED BY <1>2, <1>3, <2>1
<1>5. ASSUME NEW k \in 1 .. n, k - 1 \in S PROVE k \in S
  <2>1. LeftOf(walk[k - 1], k - 1, M, feed, gone) /\ k \in Nat
    BY <1>3, <1>5
  <2>2. PICK w : w = walk[k - 1]
    OBVIOUS
  <2>3. CASE feed[k] \in gone
    <3>1. walk[k] = w
      BY <1>2, <2>2, <2>3
    <3>2. LeftOf(w, k, M, feed, gone)
      BY <2>1, <2>2 DEF LeftOf
    <3> QED BY <3>1, <3>2
  <2>4. CASE feed[k] \notin gone
    <3>1. walk[k] = Append(w, feed[k])
      BY <1>2, <2>2, <2>4
    <3>2. PICK v : v = Append(w, feed[k])
      OBVIOUS
    <3>3. /\ w \in Seq(M) /\ v \in Seq(M) /\ DOMAIN v = DOMAIN w \cup {Len(w) + 1}
          /\ v[Len(w) + 1] = feed[k] /\ \A i \in DOMAIN w : v[i] = w[i]
          /\ DOMAIN w = 1 .. Len(w) /\ Len(w) \in Nat
      BY <1>3, <2>1, <2>2, <3>2 DEF LeftOf
    <3>4. ASSUME NEW i \in DOMAIN v
          PROVE  \E a \in 1 .. k : v[i] = feed[a] /\ feed[a] \notin gone
      BY <2>1, <2>2, <2>4, <3>3 DEF LeftOf
    <3>5. ASSUME NEW i \in DOMAIN v, NEW j \in DOMAIN v, i < j
          PROVE  \E a, b \in 1 .. k : a < b /\ v[i] = feed[a] /\ v[j] = feed[b]
      <4>0. i \in DOMAIN w
        BY <3>3, <3>5
      <4>1. CASE j \in DOMAIN w
        <5>1. v[i] = w[i] /\ v[j] = w[j]
          BY <3>3, <4>0, <4>1
        <5>2. PICK a \in 1 .. (k - 1), b \in 1 .. (k - 1) : a < b /\ w[i] = feed[a] /\ w[j] = feed[b]
          BY <2>1, <2>2, <3>5, <4>0, <4>1 DEF LeftOf
        <5> QED BY <2>1, <5>1, <5>2
      <4>2. CASE j = Len(w) + 1
        <5>1. PICK a \in 1 .. (k - 1) : w[i] = feed[a]
          BY <2>1, <2>2, <4>0 DEF LeftOf
        <5>2. a \in 1 .. k /\ k \in 1 .. k /\ a < k
          BY <2>1
        <5> QED BY <3>3, <4>0, <4>2, <5>1, <5>2
      <4> QED BY <3>3, <3>5, <4>1, <4>2
    <3>6. LeftOf(v, k, M, feed, gone)
      BY <3>3, <3>4, <3>5 DEF LeftOf
    <3>7. k \in 0 .. n
      BY <1>3
    <3> QED BY <3>1, <3>2, <3>6, <3>7
  <2> QED BY <2>3, <2>4
<1>6. n \in S
  <2> HIDE DEF S, n
  <2>1. 0 .. n \subseteq S
    BY <1>3, <1>4, <1>5, AllAlong
  <2> QED BY <1>3, <2>1
<1>7. LeftOf(walk[n], n, M, feed, gone)
  <2> QED BY <1>6
<1> QED BY <1>2, <1>7
-----------------------------------------------------------------------------
(* What a page shows.  FeedIsThread is not inductive: that an answer may take  *)
(* its place after all that is shown is a matter of when it was asked, and     *)
(* that a thread that is read again is in order, of what the server wrote.     *)

Message == Nat \X {"user", "assistant", "pending"}
Stored(feed) == {i \in DOMAIN feed : feed[i][2] # "pending"}

\* What FeedIsThread says of a feed.
Shows(feed, whole) ==
  /\ \A i \in Stored(feed) : \E k \in DOMAIN whole : whole[k] = feed[i]
  /\ \A i, j \in Stored(feed) :
       i < j => feed[i] # feed[j] /\ InItsOrder(feed, whole, i, j)

\* All of it was in the thread before the question m, which may not be there yet.
Precedes(feed, whole, m) ==
  \A i \in Stored(feed) : \E k \in DOMAIN whole :
    whole[k] = feed[i] /\ \A l \in 1 .. k : whole[l] # <<m, "user">>

\* A thread, and the same one later.
Prolongs(longer, whole) ==
  /\ longer \in Seq(Written) /\ whole \in Seq(Written)
  /\ Len(whole) <= Len(longer) /\ \A i \in DOMAIN whole : longer[i] = whole[i]

\* The thread a page shows.
Whole(ks, active) == IF active = 0 THEN <<>> ELSE ks[active]

\* A page p, when the server keeps the threads ks and was sent the messages rs.
FeedOk(p, ks, rs) ==
  LET whole == Whole(ks, p.active)
  IN  /\ {"feed", "seen"} \subseteq DOMAIN p
      /\ p.feed \in Seq(Message) /\ Shows(p.feed, whole)
      /\ \A i \in DOMAIN p.feed :
           p.feed[i][2] = "pending" =>
             /\ p.busy \in {"send", "reload", "reloaded"}
             /\ p.feed[i][1] = p.post /\ p.post \in 1 .. MaxPosts
      /\ p.busy \in {"send", "reload", "reloaded", "select", "selected"} => p.active # 0
      /\ p.busy = "create" => p.active = 0
      /\ p.busy = "send" => rs[p.post].thread = p.active /\ Precedes(p.feed, whole, p.post)
      /\ p.busy \in {"selected", "reloaded"} => Prolongs(whole, p.seen)

\* What was stored of a message, in its thread.
StoredOf(m) ==
  LET whole == kept[requests[m].thread]
  IN  /\ requests[m].stage = "stored" => \E i \in DOMAIN whole : whole[i] = <<m, "user">>
      /\ requests[m].stage = "answered" =>
           \E i, j \in DOMAIN whole :
             i < j /\ whole[i] = <<m, "user">> /\ whole[j] = <<m, "assistant">>

\* A thread holds nothing twice, and nothing that was not stored.
ThreadSound(t) ==
  /\ \A i, j \in DOMAIN kept[t] : i # j => kept[t][i] # kept[t][j]
  /\ \A i \in DOMAIN kept[t], m \in Nat :
       /\ kept[t][i] = <<m, "user">> => m \in DOMAIN requests /\ requests[m].stage # "sent"
       /\ kept[t][i] = <<m, "assistant">> =>
            m \in DOMAIN requests /\ requests[m].stage = "answered"

FeedInv ==
  /\ \A m \in DOMAIN requests : StoredOf(m)
  /\ \A t \in Threads : ThreadSound(t)
  /\ \A g \in Views : FeedOk(page[g], kept, requests)

LEMMA WordsKept ==
  ASSUME NEW feed \in Seq(Message), NEW whole
  PROVE  /\ Stored(feed) \subseteq DOMAIN feed /\ Stored(<<>>) = {}
         /\ \A i \in DOMAIN feed : i \in Nat /\ feed[i] \in Message
         /\ Shows(<<>>, whole)
BY DEF Stored, Shows

\* Threads only become longer: what is shown of one stays what it holds.
LEMMA LongerShows ==
  ASSUME NEW feed, NEW longer, NEW whole, Prolongs(longer, whole), Shows(feed, whole)
  PROVE  Shows(feed, longer)
<1>1. /\ DOMAIN whole \subseteq DOMAIN longer /\ \A i \in DOMAIN whole : longer[i] = whole[i]
  BY DEF Prolongs
<1>2. ASSUME NEW i \in Stored(feed), NEW j \in Stored(feed), i < j
      PROVE  feed[i] # feed[j] /\ InItsOrder(feed, longer, i, j)
  <2>1. feed[i] # feed[j] /\ InItsOrder(feed, whole, i, j)
    BY <1>2 DEF Shows
  <2> QED
    BY <1>1, <2>1 DEF InItsOrder
<1> QED
  BY <1>1, <1>2 DEF Shows

LEMMA LongerPrecedes ==
  ASSUME NEW feed, NEW longer, NEW whole, Prolongs(longer, whole), NEW m, Precedes(feed, whole, m)
  PROVE  Precedes(feed, longer, m)
<1>1. /\ DOMAIN whole \subseteq DOMAIN longer /\ \A i \in DOMAIN whole : longer[i] = whole[i]
      /\ \A k \in DOMAIN whole : 1 .. k \subseteq DOMAIN whole
  BY DEF Prolongs
<1>2. ASSUME NEW i \in Stored(feed)
      PROVE  \E k \in DOMAIN longer :
               longer[k] = feed[i] /\ \A l \in 1 .. k : longer[l] # <<m, "user">>
  <2>1. PICK k \in DOMAIN whole : whole[k] = feed[i] /\ \A l \in 1 .. k : whole[l] # <<m, "user">>
    BY DEF Precedes
  <2>2. k \in DOMAIN longer /\ \A l \in 1 .. k : longer[l] = whole[l]
    BY <1>1
  <2> QED
    BY <1>1, <2>1, <2>2
<1> QED
  BY <1>2 DEF Precedes

LEMMA LongerContinues ==
  ASSUME NEW longer, NEW whole, NEW part, Prolongs(longer, whole), Prolongs(whole, part)
  PROVE  Prolongs(longer, part)
BY DEF Prolongs

\* Less of a feed is still in order.
LEMMA LessShows ==
  ASSUME NEW feed \in Seq(Message), NEW gone, NEW whole, Shows(feed, whole)
  PROVE  Without(feed, gone) \in Seq(Message) /\ Shows(Without(feed, gone), whole)
<1>1. PICK left : left = Without(feed, gone)
  OBVIOUS
<1>2. LeftOf(left, Len(feed), Message, feed, gone)
  BY <1>1, WithoutIs
<1>3. DOMAIN feed = 1 .. Len(feed)
  OBVIOUS
<1>4. ASSUME NEW i \in Stored(left)
      PROVE  \E k \in DOMAIN whole : whole[k] = left[i]
  <2>1. PICK a \in DOMAIN feed : left[i] = feed[a]
    BY <1>2, <1>3 DEF LeftOf, Stored
  <2>2. a \in Stored(feed)
    BY <2>1 DEF Stored
  <2> QED
    BY <2>1, <2>2 DEF Shows
<1>5. ASSUME NEW i \in Stored(left), NEW j \in Stored(left), i < j
      PROVE  left[i] # left[j] /\ InItsOrder(left, whole, i, j)
  <2>1. PICK a \in DOMAIN feed, b \in DOMAIN feed : a < b /\ left[i] = feed[a] /\ left[j] = feed[b]
    BY <1>2, <1>3, <1>5 DEF LeftOf, Stored
  <2>2. a \in Stored(feed) /\ b \in Stored(feed)
    BY <2>1 DEF Stored
  <2>3. feed[a] # feed[b] /\ InItsOrder(feed, whole, a, b)
    BY <2>1, <2>2 DEF Shows
  <2> QED
    BY <2>1, <2>3 DEF InItsOrder
<1>6. Shows(left, whole)
  BY <1>4, <1>5 DEF Shows
<1> QED
  BY <1>1, <1>2, <1>6 DEF LeftOf

\* The message that is shown before it is sent changes nothing of this.
ShowsPending(longer, feed, m) ==
  /\ longer \in Seq(Message) /\ DOMAIN longer = DOMAIN feed \cup {Len(feed) + 1}
  /\ longer[Len(feed) + 1] = <<m, "pending">>
  /\ \A i \in DOMAIN feed : longer[i] = feed[i]

LEMMA PendingIs ==
  ASSUME NEW feed \in Seq(Message), NEW m \in Nat
  PROVE  ShowsPending(Append(feed, <<m, "pending">>), feed, m)
<1>1. <<m, "pending">> \in Message
  BY DEF Message
<1> QED
  BY <1>1 DEF ShowsPending

LEMMA PendingShows ==
  ASSUME NEW feed \in Seq(Message), NEW whole, Shows(feed, whole), NEW m \in Nat,
         NEW longer, ShowsPending(longer, feed, m)
  PROVE  Shows(longer, whole)
<1>1. <<m, "pending">>[2] = "pending"
  OBVIOUS
<1>2. Stored(longer) = Stored(feed) /\ \A i \in Stored(feed) : longer[i] = feed[i]
  BY <1>1 DEF Stored, ShowsPending
<1>3. ASSUME NEW i \in Stored(longer), NEW j \in Stored(longer), i < j
      PROVE  longer[i] # longer[j] /\ InItsOrder(longer, whole, i, j)
  <2>1. feed[i] # feed[j] /\ InItsOrder(feed, whole, i, j) /\ longer[i] = feed[i] /\ longer[j] = feed[j]
    BY <1>2, <1>3 DEF Shows
  <2> QED
    BY <2>1 DEF InItsOrder
<1>4. ASSUME NEW i \in Stored(longer)
      PROVE  \E k \in DOMAIN whole : whole[k] = longer[i]
  <2>1. i \in Stored(feed) /\ longer[i] = feed[i]
    BY <1>2
  <2>2. PICK k \in DOMAIN whole : whole[k] = feed[i]
    BY <2>1 DEF Shows
  <2> QED
    BY <2>1, <2>2
<1> QED
  BY <1>3, <1>4 DEF Shows

\* A thread from its beginning.
LEMMA BeginningShows ==
  ASSUME NEW seen, NEW whole, Prolongs(whole, seen),
         \A i, j \in DOMAIN whole : i # j => whole[i] # whole[j]
  PROVE  /\ seen \in Seq(Message) /\ Shows(seen, whole)
         /\ \A i \in DOMAIN seen : seen[i][2] # "pending"
<1>1. /\ seen \in Seq(Written) /\ DOMAIN seen \subseteq DOMAIN whole
      /\ \A i \in DOMAIN seen : whole[i] = seen[i]
  BY DEF Prolongs
<1>2. seen \in Seq(Message)
  BY <1>1 DEF Message, Written
<1>3. ASSUME NEW i \in DOMAIN seen PROVE seen[i][2] # "pending"
  <2>1. seen[i] \in Written
    BY <1>1
  <2> QED
    BY <2>1 DEF Written
<1>4. Shows(seen, whole)
  BY <1>1 DEF Shows, InItsOrder, Stored
<1> QED
  BY <1>2, <1>3, <1>4

\* What was asked is not yet in the thread: all that is shown precedes it.
LEMMA NewIsLast ==
  ASSUME NEW feed, NEW whole \in Seq(Written), Shows(feed, whole), NEW m,
         \A k \in DOMAIN whole : whole[k] # <<m, "user">>
  PROVE  Precedes(feed, whole, m)
<1>1. \A k \in DOMAIN whole : 1 .. k \subseteq DOMAIN whole
  OBVIOUS
<1> QED
  BY <1>1 DEF Shows, Precedes

\* The answer takes its place behind what precedes the question.
LEMMA MergedShows ==
  ASSUME NEW feed \in Seq(Message), NEW whole \in Seq(Written), NEW m \in Nat,
         Shows(feed, whole), Precedes(feed, whole, m),
         NEW p \in DOMAIN whole, NEW q \in DOMAIN whole,
         p < q, whole[p] = <<m, "user">>, whole[q] = <<m, "assistant">>,
         \A i \in DOMAIN feed : feed[i][2] = "pending" => feed[i][1] = m
  PROVE  /\ Merged(feed, m) \in Seq(Message) /\ Shows(Merged(feed, m), whole)
         /\ \A i \in DOMAIN Merged(feed, m) : Merged(feed, m)[i][2] # "pending"
<1> DEFINE mine == {m} \X {"user", "assistant", "pending"}
<1>1. PICK left : left = Without(feed, mine)
  OBVIOUS
<1>2. LeftOf(left, Len(feed), Message, feed, mine)
  BY <1>1, WithoutIs
<1>3. left \in Seq(Message) /\ Shows(left, whole)
  BY <1>1, LessShows
<1>4. ASSUME NEW i \in DOMAIN left
      PROVE  /\ left[i][1] # m /\ left[i][2] # "pending" /\ left[i] \in Message
             /\ \E a \in Stored(feed) : left[i] = feed[a]
  <2>1. PICK a \in DOMAIN feed : left[i] = feed[a] /\ feed[a] \notin mine
    BY <1>2 DEF LeftOf
  <2>2. feed[a] \in Message
    OBVIOUS
  <2>3. PICK x \in Nat, r \in {"user", "assistant", "pending"} : feed[a] = <<x, r>>
    BY <2>2 DEF Message
  <2>4. x # m
    BY <2>1, <2>3
  <2>5. r # "pending"
    BY <2>3, <2>4
  <2> QED
    BY <2>1, <2>2, <2>3, <2>4, <2>5 DEF Stored
<1> HIDE DEF mine
<1>5. PICK new : new = Merged(feed, m)
  OBVIOUS
<1>6. new = left \o <<<<m, "user">>, <<m, "assistant">>>>
  BY <1>1, <1>5 DEF Merged, mine
<1>7. <<m, "user">> \in Message /\ <<m, "assistant">> \in Message
  BY DEF Message
<1>8. PICK n \in Nat : n = Len(left) /\ DOMAIN left = 1 .. n
  BY <1>3
<1>9. /\ new \in Seq(Message) /\ DOMAIN new = 1 .. (n + 2)
      /\ \A i \in 1 .. n : new[i] = left[i]
      /\ new[n + 1] = <<m, "user">> /\ new[n + 2] = <<m, "assistant">>
  BY <1>3, <1>6, <1>7, <1>8
<1>10. \A i \in 1 .. (n + 2) : i \in 1 .. n \/ i = n + 1 \/ i = n + 2
  OBVIOUS
<1>11. ASSUME NEW i \in DOMAIN new PROVE new[i][2] # "pending" /\ \E k \in DOMAIN whole : whole[k] = new[i]
  <2>1. CASE i \in 1 .. n
    <3>1. i \in Stored(left)
      BY <1>4, <1>8, <2>1 DEF Stored
    <3> QED
      BY <1>3, <1>4, <1>8, <1>9, <2>1, <3>1 DEF Shows
  <2>2. CASE i = n + 1
    <3>1. new[i] = whole[p] /\ new[i] = <<m, "user">>
      BY <1>9, <2>2
    <3> QED
      BY <3>1
  <2>3. CASE i = n + 2
    <3>1. new[i] = whole[q] /\ new[i] = <<m, "assistant">>
      BY <1>9, <2>3
    <3> QED
      BY <3>1
  <2> QED
    BY <1>9, <1>10, <2>1, <2>2, <2>3
<1>12. ASSUME NEW i \in 1 .. n
       PROVE  /\ \E k \in DOMAIN whole : k < p /\ whole[k] = new[i]
              /\ new[i] # <<m, "user">> /\ new[i] # <<m, "assistant">>
  <2>1. PICK a \in Stored(feed) : left[i] = feed[a]
    BY <1>4, <1>8
  <2>2. PICK k \in DOMAIN whole : whole[k] = feed[a] /\ \A l \in 1 .. k : whole[l] # <<m, "user">>
    BY DEF Precedes
  <2>3. k < p
    <3>1. k \in Nat /\ p \in Nat /\ p >= 1
      OBVIOUS
    <3>2. p \notin 1 .. k
      BY <2>2
    <3> QED
      BY <3>1, <3>2
  <2>4. left[i][1] # m
    BY <1>4, <1>8
  <2> QED
    BY <1>9, <2>1, <2>2, <2>3, <2>4
<1>13. ASSUME NEW i \in DOMAIN new, NEW j \in DOMAIN new, i < j
       PROVE  new[i] # new[j] /\ \E k, l \in DOMAIN whole : k < l /\ whole[k] = new[i] /\ whole[l] = new[j]
  <2>1. CASE j \in 1 .. n
    <3>1. i \in 1 .. n
      BY <1>9, <1>13, <2>1
    <3>2. i \in Stored(left) /\ j \in Stored(left)
      BY <1>4, <1>8, <2>1, <3>1 DEF Stored
    <3>3. left[i] # left[j] /\ InItsOrder(left, whole, i, j)
      BY <1>3, <1>13, <3>2 DEF Shows
    <3> QED
      BY <1>9, <2>1, <3>1, <3>3 DEF InItsOrder
  <2>2. CASE j = n + 1
    <3>1. i \in 1 .. n
      BY <1>9, <1>13, <2>2
    <3> QED
      BY <1>9, <1>12, <2>2, <3>1
  <2>3. CASE j = n + 2 /\ i = n + 1
    <3>1. /\ new[i] = whole[p] /\ new[i] = <<m, "user">>
          /\ new[j] = whole[q] /\ new[j] = <<m, "assistant">>
      BY <1>9, <2>3
    <3>2. new[i] # new[j]
      BY <3>1
    <3> QED
      BY <3>1, <3>2
  <2>4. CASE j = n + 2 /\ i \in 1 .. n
    <3>1. PICK k \in DOMAIN whole : k < p /\ whole[k] = new[i]
      BY <1>12, <2>4
    <3>2. k < q
      BY <3>1
    <3> QED
      BY <1>9, <1>12, <2>4, <3>1, <3>2
  <2>5. i \in 1 .. (n + 2) /\ j \in 1 .. (n + 2)
    BY <1>9
  <2>6. j \in 1 .. n \/ j = n + 1 \/ (j = n + 2 /\ i = n + 1) \/ (j = n + 2 /\ i \in 1 .. n)
    BY <1>13, <2>5
  <2> QED
    BY <2>1, <2>2, <2>3, <2>4, <2>6
<1>14. Shows(new, whole)
  BY <1>11, <1>13 DEF Shows, InItsOrder, Stored
<1> QED
  BY <1>5, <1>9, <1>11, <1>14
-----------------------------------------------------------------------------
(* What pages show, one kind of step after the other.                          *)

\* What the server keeps, and the same later.
Later(ks, rs, ls, qs) ==
  /\ DOMAIN ks \subseteq DOMAIN ls /\ DOMAIN rs \subseteq DOMAIN qs
  /\ \A t \in DOMAIN ks : Prolongs(ls[t], ks[t])
  /\ \A m \in DOMAIN rs : qs[m].thread = rs[m].thread

\* The fields FeedOk is about.
FeedFields == {"feed", "seen", "active", "busy", "post"}

LEMMA FeedAlone ==
  ASSUME NEW ks, NEW rs, NEW ls, NEW qs, Later(ks, rs, ls, qs), 0 \notin DOMAIN ks,
         NEW p, FeedOk(p, ks, rs), p.active \in DOMAIN ks \cup {0},
         p.busy = "send" => p.post \in DOMAIN rs
  PROVE  FeedOk(p, ls, qs)
<1>1. CASE p.active = 0
  BY <1>1 DEF FeedOk, Whole
<1>2. CASE p.active # 0
  <2>1. PICK whole, longer : whole = ks[p.active] /\ longer = ls[p.active]
    OBVIOUS
  <2>2. Prolongs(longer, whole)
    BY <1>2, <2>1 DEF Later
  <2>3. Shows(p.feed, longer)
    BY <1>2, <2>1, <2>2, LongerShows DEF FeedOk, Whole
  <2>4. p.busy = "send" => qs[p.post].thread = p.active /\ Precedes(p.feed, longer, p.post)
    BY <1>2, <2>1, <2>2, LongerPrecedes DEF FeedOk, Whole, Later
  <2>5. p.busy \in {"selected", "reloaded"} => Prolongs(longer, p.seen)
    BY <1>2, <2>1, <2>2, LongerContinues DEF FeedOk, Whole
  <2> QED
    BY <1>2, <2>1, <2>3, <2>4, <2>5 DEF FeedOk, Whole
<1> QED
  BY <1>1, <1>2

LEMMA SameFeed ==
  ASSUME NEW ks, NEW rs, NEW p, FeedOk(p, ks, rs), NEW q, PageAs(p, q, FeedFields)
  PROVE  FeedOk(q, ks, rs)
BY DEF FeedOk, PageAs, FeedFields

\* A page that does not wait for a message it shows.
LEMMA RestingFeed ==
  ASSUME NEW ks, NEW rs, NEW q, {"feed", "seen"} \subseteq DOMAIN q,
         q.feed \in Seq(Message), Shows(q.feed, Whole(ks, q.active)),
         \A i \in DOMAIN q.feed : q.feed[i][2] # "pending",
         \/ q.busy \in {"none", "new", "command"}
         \/ q.busy = "create" /\ q.active = 0
         \/ q.busy = "select" /\ q.active # 0
  PROVE  FeedOk(q, ks, rs)
BY DEF FeedOk

\* A page that waits for its thread.
LEMMA WaitingFeed ==
  ASSUME NEW ks, NEW rs, NEW q, {"feed", "seen"} \subseteq DOMAIN q,
         q.feed \in Seq(Message), Shows(q.feed, Whole(ks, q.active)), q.active # 0,
         q.busy \in {"selected", "reload", "reloaded"},
         q.busy # "reload" => Prolongs(Whole(ks, q.active), q.seen),
         \A i \in DOMAIN q.feed :
           q.feed[i][2] = "pending" =>
             q.busy # "selected" /\ q.feed[i][1] = q.post /\ q.post \in 1 .. MaxPosts
  PROVE  FeedOk(q, ks, rs)
<1>1. q.busy = "selected" \/ q.busy = "reload" \/ q.busy = "reloaded"
  OBVIOUS
<1> QED
  BY <1>1 DEF FeedOk

\* A page that shows what it asked, behind what there was before.
LEMMA AskingFeed ==
  ASSUME NEW ks, NEW rs, NEW q, {"feed", "seen"} \subseteq DOMAIN q,
         NEW feed \in Seq(Message), NEW m \in 1 .. MaxPosts, NEW t, t # 0,
         ks[t] \in Seq(Written), Shows(feed, ks[t]),
         \A i \in DOMAIN feed : feed[i][2] # "pending",
         \A k \in DOMAIN ks[t] : ks[t][k] # <<m, "user">>,
         q.feed = Append(feed, <<m, "pending">>), q.active = t, q.busy = "send", q.post = m,
         rs[m].thread = t
  PROVE  FeedOk(q, ks, rs)
<1>1. PICK whole, longer : whole = ks[t] /\ longer = Append(feed, <<m, "pending">>)
  OBVIOUS
<1>2. m \in Nat
  <2>1. MaxPosts \in Nat
    BY ChatPageAssumption
  <2> QED
    BY <2>1
<1>3. ShowsPending(longer, feed, m)
  BY <1>1, <1>2, PendingIs
<1>7. Shows(longer, whole)
  <2>1. Shows(feed, whole)
    BY <1>1
  <2> QED
    BY <1>2, <1>3, <2>1, PendingShows
<1>4. Precedes(longer, whole, m)
  BY <1>1, <1>7, NewIsLast
<1>5. ASSUME NEW i \in DOMAIN longer, longer[i][2] = "pending" PROVE longer[i][1] = m
  <2>1. longer[i] = <<m, "pending">>
    BY <1>3, <1>5 DEF ShowsPending
  <2> QED
    BY <2>1
<1>6. longer \in Seq(Message)
  BY <1>3 DEF ShowsPending
<1> QED
  BY <1>1, <1>4, <1>5, <1>6, <1>7 DEF FeedOk, Whole

\* What a page shows when it has finished.
LEMMA FinishedFeed ==
  ASSUME NEW p, {"feed", "seen"} \cup PageFields \subseteq DOMAIN p, NEW changes,
         NEW q, q = With(With(p, AtRest), changes),
         "busy" \notin DOMAIN changes \/ changes = AtRest
  PROVE  /\ {"feed", "seen"} \subseteq DOMAIN q /\ q.busy = "none"
         /\ q.feed = (IF "feed" \in DOMAIN changes THEN changes.feed ELSE p.feed)
         /\ q.active = (IF "active" \in DOMAIN changes THEN changes.active ELSE p.active)
<1>1. DOMAIN AtRest = {"busy", "text", "files", "post", "seen"} /\ AtRest.busy = "none"
  BY DEF AtRest
<1>2. DOMAIN q = DOMAIN p
  BY DEF With
<1>3. \A x \in DOMAIN p :
        q[x] = IF x \in DOMAIN changes THEN changes[x]
               ELSE IF x \in DOMAIN AtRest THEN AtRest[x] ELSE p[x]
  BY DEF With
<1> QED
  BY <1>1, <1>2, <1>3 DEF PageFields

LEMMA GoneFeed ==
  ASSUME NEW ks, NEW rs, NEW q \in {Fresh, Gone}
  PROVE  FeedOk(q, ks, rs)
<1>1. {"feed", "seen"} \subseteq DOMAIN q /\ q.feed = <<>> /\ q.active = 0 /\ q.busy = "none"
  <2>1. CASE q = Fresh
    BY <2>1 DEF Fresh
  <2>2. CASE q = Gone
    BY <2>2 DEF Gone, Fresh
  <2> QED
    BY <2>1, <2>2
<1>2. <<>> \in Seq(Message) /\ Shows(<<>>, Whole(ks, 0)) /\ DOMAIN <<>> = {}
  BY DEF Shows, Stored
<1> QED
  BY <1>1, <1>2, RestingFeed

\* What FeedOk says, in parts.
LEMMA FeedSaid ==
  ASSUME NEW ks, NEW rs, NEW p, FeedOk(p, ks, rs)
  PROVE  /\ {"feed", "seen"} \subseteq DOMAIN p
         /\ p.feed \in Seq(Message) /\ Shows(p.feed, Whole(ks, p.active))
         /\ p.busy \notin {"send", "reload", "reloaded"} =>
              \A i \in DOMAIN p.feed : p.feed[i][2] # "pending"
BY DEF FeedOk

\* A page is opened or closed, something is attached or typed.
LEMMA QuietFeeds ==
  ASSUME ComposerInv, FeedInv, NEW g \in Views,
         OpenPage(g) \/ ClosePage(g) \/ (\E text \in Texts : Type(g, text))
         \/ (\E f \in Drops : Attach(g, f) \/ Attached(g, f) \/ RemoveAttachment(g, f))
  PROVE  FeedOk(page'[g], kept, requests)
<1>1. PICK p : p = page[g]
  OBVIOUS
<1>2. /\ DOMAIN page = Views /\ FeedOk(p, kept, requests)
      /\ {"feed", "seen"} \cup PageFields \subseteq DOMAIN p
  BY <1>1 DEF ComposerInv, PageSound, FeedInv, FeedOk
<1>3. ASSUME NEW c, page'[g] = With(p, c), DOMAIN c \cap FeedFields = {}
      PROVE  FeedOk(page'[g], kept, requests)
  <2>1. PageAs(p, page'[g], FeedFields)
    BY <1>2, <1>3 DEF PageAs, With, FeedFields, PageFields
  <2> QED
    BY <1>2, <2>1, SameFeed
<1>4. CASE OpenPage(g)
  <2> DEFINE c == [open |-> TRUE, used |-> TRUE, listed |-> Threads]
  <2>1. page'[g] = With(p, c)
    BY <1>1, <1>2, <1>4 DEF OpenPage, Show
  <2>2. DOMAIN c \cap FeedFields = {}
    BY DEF FeedFields
  <2> HIDE DEF c
  <2> QED
    BY <1>3, <2>1, <2>2
<1>5. CASE ClosePage(g)
  <2>1. CASE Free(g)
    <3>1. page'[g] = Gone
      BY <1>2, <1>5, <2>1 DEF ClosePage
    <3> QED
      BY <3>1, GoneFeed
  <2>2. CASE ~Free(g)
    <3>1. page'[g] = [p EXCEPT !.open = FALSE]
      BY <1>1, <1>2, <1>5, <2>2 DEF ClosePage
    <3>2. PageAs(p, page'[g], FeedFields)
      BY <1>2, <3>1 DEF PageAs, FeedFields
    <3> QED
      BY <1>2, <3>2, SameFeed
  <2> QED
    BY <2>1, <2>2
<1>6. ASSUME NEW text \in Texts, Type(g, text) PROVE FeedOk(page'[g], kept, requests)
  <2> DEFINE c == [draft |-> text]
  <2>1. page'[g] = With(p, c)
    BY <1>1, <1>2, <1>6 DEF Type, Show
  <2>2. DOMAIN c \cap FeedFields = {}
    BY DEF FeedFields
  <2> HIDE DEF c
  <2> QED
    BY <1>3, <2>1, <2>2
<1>7. ASSUME NEW f \in Drops, Attach(g, f) \/ Attached(g, f) \/ RemoveAttachment(g, f)
      PROVE  FeedOk(page'[g], kept, requests)
  <2>1. PICK files : page'[g] = With(p, [shelf |-> files])
    BY <1>1, <1>2, <1>7 DEF Attach, Attached, RemoveAttachment, Show
  <2> DEFINE c == [shelf |-> files]
  <2>2. DOMAIN c \cap FeedFields = {} /\ page'[g] = With(p, c)
    BY <2>1 DEF FeedFields
  <2> HIDE DEF c
  <2> QED
    BY <1>3, <2>2
<1> QED
  BY <1>4, <1>5, <1>6, <1>7

\* A page begins to do something, or hears that something went wrong.
LEMMA BusyFeeds ==
  ASSUME ComposerInv, FeedInv, NEW g \in Views,
         NewThread(g) \/ ReadThread(g) \/ SendFails(g)
         \/ (\E t \in Threads : SelectThread(g, t))
         \/ (Free(g) /\ Show(g, [busy |-> "command"]))
  PROVE  FeedOk(page'[g], kept, requests)
<1>1. PICK p, q : p = page[g] /\ q = page'[g]
  OBVIOUS
<1>2. /\ DOMAIN page = Views /\ FeedOk(p, kept, requests) /\ p.active \in Threads \cup {0}
      /\ {"feed", "seen"} \cup PageFields \subseteq DOMAIN p
  BY <1>1 DEF ComposerInv, PageSound, FeedInv, FeedOk
<1>3. /\ p.feed \in Seq(Message) /\ Shows(p.feed, Whole(kept, p.active))
      /\ p.busy \notin {"send", "reload", "reloaded"} =>
           \A i \in DOMAIN p.feed : p.feed[i][2] # "pending"
  BY <1>2, FeedSaid
<1>4. ASSUME NEW c, Free(g), Show(g, c), DOMAIN c = {"busy"}, c.busy \in {"new", "command"}
      PROVE  FeedOk(q, kept, requests)
  <2>1. q = With(p, c)
    BY <1>1, <1>2, <1>4 DEF Show
  <2>2. DOMAIN q = DOMAIN p /\ q.busy = c.busy /\ q.feed = p.feed /\ q.active = p.active
    BY <1>2, <1>4, <2>1 DEF With, PageFields
  <2>3. p.busy = "none"
    BY <1>1, <1>4 DEF Free
  <2> QED
    BY <1>2, <1>3, <1>4, <2>2, <2>3, RestingFeed
<1>5. CASE NewThread(g) \/ (Free(g) /\ Show(g, [busy |-> "command"]))
  <2>1. PICK busy \in {"new", "command"} : Free(g) /\ Show(g, [busy |-> busy])
    BY <1>5 DEF NewThread
  <2> DEFINE c == [busy |-> busy]
  <2>2. DOMAIN c = {"busy"} /\ c.busy = busy /\ Show(g, c)
    BY <2>1
  <2> HIDE DEF c
  <2> QED
    BY <1>1, <1>4, <2>1, <2>2
<1>6. CASE ReadThread(g)
  <2>1. PICK busy \in {"selected", "reloaded"} :
          /\ q = With(p, [busy |-> busy, seen |-> kept[p.active]])
          /\ (busy = "selected" /\ p.busy = "select") \/ (busy = "reloaded" /\ p.busy = "reload")
    <3>1. CASE page[g].busy = "select"
      BY <1>1, <1>2, <1>6, <3>1 DEF ReadThread, Show
    <3>2. CASE page[g].busy = "reload"
      BY <1>1, <1>2, <1>6, <3>2 DEF ReadThread, Show
    <3> QED
      BY <1>6, <3>1, <3>2 DEF ReadThread
  <2>2. /\ DOMAIN q = DOMAIN p /\ q.busy = busy /\ q.seen = kept[p.active]
        /\ q.feed = p.feed /\ q.active = p.active /\ q.post = p.post
    BY <1>2, <2>1 DEF With, PageFields
  <2>3. p.active # 0
    BY <1>2, <2>1 DEF FeedOk
  <2>4. Prolongs(kept[p.active], kept[p.active])
    <3>1. kept[p.active] \in Seq(Written)
      BY <1>2, <2>3 DEF ComposerInv, Threads
    <3> QED
      BY <3>1 DEF Prolongs
  <2>5. Prolongs(Whole(kept, q.active), q.seen)
    BY <2>2, <2>3, <2>4 DEF Whole
  <2>6. \A i \in DOMAIN q.feed :
          q.feed[i][2] = "pending" =>
            /\ q.busy = "reloaded" /\ q.feed[i][1] = q.post /\ q.post \in 1 .. MaxPosts
    BY <1>2, <1>3, <2>1, <2>2 DEF FeedOk
  <2> QED
    BY <1>1, <1>2, <1>3, <2>1, <2>2, <2>3, <2>5, <2>6, WaitingFeed
<1>7. CASE SendFails(g)
  <2>1. PICK draft : q = With(p, [busy |-> "reload", draft |-> draft])
    BY <1>1, <1>2, <1>7 DEF SendFails, Show
  <2>2. /\ DOMAIN q = DOMAIN p /\ q.busy = "reload"
        /\ q.feed = p.feed /\ q.active = p.active /\ q.post = p.post
    BY <1>2, <2>1 DEF With, PageFields
  <2>3. p.busy = "send"
    BY <1>1, <1>7 DEF SendFails
  <2>4. \A i \in DOMAIN q.feed :
          q.feed[i][2] = "pending" => q.feed[i][1] = q.post /\ q.post \in 1 .. MaxPosts
    BY <1>2, <2>2 DEF FeedOk
  <2>5. q.active # 0
    BY <1>2, <2>2, <2>3 DEF FeedOk
  <2> QED
    BY <1>1, <1>2, <1>3, <2>2, <2>4, <2>5, WaitingFeed
<1>8. ASSUME NEW t \in Threads, SelectThread(g, t) PROVE FeedOk(q, kept, requests)
  <2>1. q = With(p, [active |-> t, feed |-> <<>>, busy |-> "select"])
    BY <1>1, <1>2, <1>8 DEF SelectThread, Show
  <2>2. DOMAIN q = DOMAIN p /\ q.busy = "select" /\ q.feed = <<>> /\ q.active = t
    BY <1>2, <2>1 DEF With, PageFields
  <2>3. <<>> \in Seq(Message) /\ Shows(<<>>, Whole(kept, t)) /\ DOMAIN <<>> = {}
    BY DEF Shows, Stored
  <2>4. t # 0
    BY DEF Threads
  <2> QED
    BY <1>2, <2>2, <2>3, <2>4, RestingFeed
<1> QED
  BY <1>1, <1>5, <1>6, <1>7, <1>8

\* A page that has finished shows what it was given, and nothing that is pending.
LEMMA EndedFeed ==
  ASSUME ComposerInv, NEW g \in Views, NEW ks, NEW rs, {"feed", "seen"} \subseteq DOMAIN page[g],
         NEW changes, Finish(g, changes), "busy" \notin DOMAIN changes \/ changes = AtRest,
         NEW feed \in Seq(Message), NEW active,
         feed = (IF "feed" \in DOMAIN changes THEN changes.feed ELSE page[g].feed),
         active = (IF "active" \in DOMAIN changes THEN changes.active ELSE page[g].active),
         Shows(feed, Whole(ks, active)), \A i \in DOMAIN feed : feed[i][2] # "pending"
  PROVE  FeedOk(page'[g], ks, rs)
<1>1. PICK p, q : p = page[g] /\ q = page'[g]
  OBVIOUS
<1>2. DOMAIN page = Views /\ {"feed", "seen"} \cup PageFields \subseteq DOMAIN p
  BY <1>1 DEF ComposerInv, PageSound
<1>3. CASE page[g].open
  <2>1. q = With(With(p, AtRest), changes)
    BY <1>1, <1>2, <1>3 DEF Finish
  <2>2. /\ {"feed", "seen"} \subseteq DOMAIN q /\ q.busy = "none"
        /\ q.feed = feed /\ q.active = active
    BY <1>1, <1>2, <2>1, FinishedFeed
  <2>3. FeedOk(q, ks, rs)
    BY <2>2, RestingFeed
  <2> QED
    BY <1>1, <2>3
<1>4. CASE ~page[g].open
  <2>1. q = Gone
    BY <1>1, <1>2, <1>4 DEF Finish
  <2> QED
    BY <1>1, <2>1, GoneFeed
<1> QED
  BY <1>3, <1>4

\* What was asked of a page comes back, or does not.
LEMMA EndingFeeds ==
  ASSUME ComposerInv, FeedInv, NEW g \in Views,
         ShowThread(g) \/ Answered(g) \/ (page[g].busy = "command" /\ Finish(g, AtRest))
  PROVE  FeedOk(page'[g], kept, requests)
<1>1. PICK p, ks, rs : p = page[g] /\ ks = kept /\ rs = requests
  OBVIOUS
<1>2. /\ DOMAIN page = Views /\ FeedOk(p, ks, rs) /\ p.active \in Threads \cup {0}
      /\ {"feed", "seen"} \cup PageFields \subseteq DOMAIN p
  BY <1>1 DEF ComposerInv, PageSound, FeedInv, FeedOk
<1>3. PICK active, feed, whole : active = p.active /\ feed = p.feed /\ whole = Whole(ks, active)
  OBVIOUS
<1>4. /\ feed \in Seq(Message) /\ Shows(feed, whole)
      /\ p.busy \notin {"send", "reload", "reloaded"} =>
           \A i \in DOMAIN feed : feed[i][2] # "pending"
  BY <1>2, <1>3, FeedSaid
<1>5. /\ DOMAIN AtRest = {"busy", "text", "files", "post", "seen"}
      /\ "feed" \notin DOMAIN AtRest /\ "active" \notin DOMAIN AtRest
  BY DEF AtRest
<1>6. CASE Finish(g, AtRest) /\ page[g].busy \in {"select", "selected", "command"}
  <2>1. \A i \in DOMAIN feed : feed[i][2] # "pending"
    BY <1>1, <1>4, <1>6
  <2>2. FeedOk(page'[g], ks, rs)
    BY <1>1, <1>2, <1>3, <1>4, <1>5, <1>6, <2>1, EndedFeed
  <2> QED
    BY <1>1, <2>2
<1>7. ASSUME NEW new \in Seq(Message), Finish(g, [feed |-> new]), Shows(new, whole),
             \A i \in DOMAIN new : new[i][2] # "pending"
      PROVE  FeedOk(page'[g], kept, requests)
  <2> DEFINE c == [feed |-> new]
  <2>1. DOMAIN c = {"feed"} /\ c.feed = new /\ Finish(g, c)
    BY <1>7
  <2> HIDE DEF c
  <2>2. FeedOk(page'[g], ks, rs)
    BY <1>1, <1>2, <1>3, <1>7, <2>1, EndedFeed
  <2> QED
    BY <1>1, <2>2
<1>8. CASE Finish(g, [feed |-> page[g].seen]) /\ page[g].busy \in {"selected", "reloaded"}
  <2>1. PICK seen : seen = p.seen
    OBVIOUS
  <2>2. Prolongs(whole, seen) /\ active # 0
    BY <1>1, <1>2, <1>3, <1>8, <2>1 DEF FeedOk
  <2>3. \A i, j \in DOMAIN whole : i # j => whole[i] # whole[j]
    <3>1. ThreadSound(active)
      BY <1>2, <1>3, <2>2 DEF FeedInv
    <3> QED
      BY <1>1, <1>3, <2>2, <3>1 DEF ThreadSound, Whole
  <2>4. /\ seen \in Seq(Message) /\ Shows(seen, whole)
        /\ \A i \in DOMAIN seen : seen[i][2] # "pending"
    BY <2>2, <2>3, BeginningShows
  <2>5. Finish(g, [feed |-> seen])
    BY <1>1, <1>8, <2>1
  <2> QED
    BY <1>7, <2>4, <2>5
<1>9. CASE Finish(g, [feed |-> NotPending(page[g].feed)])
  <2> DEFINE gone == (1 .. MaxPosts) \X {"pending"}
  <2>1. PICK new : new = Without(feed, gone)
    OBVIOUS
  <2>2. Finish(g, [feed |-> new])
    BY <1>1, <1>3, <1>9, <2>1 DEF NotPending
  <2>3. new \in Seq(Message) /\ Shows(new, whole)
    BY <1>4, <2>1, LessShows
  <2>4. ASSUME NEW i \in DOMAIN new PROVE new[i][2] # "pending"
    <3>1. LeftOf(new, Len(feed), Message, feed, gone)
      BY <1>4, <2>1, WithoutIs
    <3>2. PICK a \in 1 .. Len(feed) : new[i] = feed[a] /\ feed[a] \notin gone
      BY <3>1 DEF LeftOf
    <3>3. a \in DOMAIN feed /\ feed[a] \in Message
      BY <1>4, <3>2
    <3>4. feed[a][2] = "pending" => feed[a][1] \in 1 .. MaxPosts
      BY <1>2, <1>3, <3>3 DEF FeedOk
    <3>5. PICK x \in Nat, r \in {"user", "assistant", "pending"} : feed[a] = <<x, r>>
      BY <3>3 DEF Message
    <3>6. r # "pending"
      BY <3>2, <3>4, <3>5
    <3> QED
      BY <3>2, <3>5, <3>6
  <2> QED
    BY <1>7, <2>2, <2>3, <2>4
<1>10. CASE Answered(g)
  <2>1. PICK m : m = p.post
    OBVIOUS
  <2>2. /\ p.busy = "send" /\ rs[m].stage = "answered"
        /\ Finish(g, [shelf |-> NoShelf, feed |-> Merged(feed, m)])
    BY <1>1, <1>3, <1>10, <2>1 DEF Answered
  <2>3. /\ active # 0 /\ rs[m].thread = active /\ Precedes(feed, whole, m)
        /\ \A i \in DOMAIN feed : feed[i][2] = "pending" => feed[i][1] = m
    BY <1>2, <1>3, <2>1, <2>2 DEF FeedOk
  <2>4. m \in DOMAIN requests /\ m \in Nat /\ whole \in Seq(Written) /\ whole = ks[active]
    <3>1. m \in DOMAIN requests /\ requests \in Seq(Posting)
      BY <1>1, <2>1, <2>2 DEF ComposerInv, PageSound
    <3>2. whole = ks[active] /\ kept \in Seq(Seq(Written)) /\ active \in 1 .. Len(kept)
      BY <1>2, <1>3, <2>3 DEF ComposerInv, Whole, Threads
    <3> QED
      BY <1>1, <3>1, <3>2
  <2>5. PICK i \in DOMAIN whole, j \in DOMAIN whole :
          i < j /\ whole[i] = <<m, "user">> /\ whole[j] = <<m, "assistant">>
    <3>1. StoredOf(m)
      BY <2>4 DEF FeedInv
    <3> QED
      BY <1>1, <2>2, <2>3, <2>4, <3>1 DEF StoredOf
  <2>6. PICK new : new = Merged(feed, m)
    OBVIOUS
  <2>7. /\ new \in Seq(Message) /\ Shows(new, whole)
        /\ \A k \in DOMAIN new : new[k][2] # "pending"
    BY <1>4, <2>3, <2>4, <2>5, <2>6, MergedShows
  <2> DEFINE c == [shelf |-> NoShelf, feed |-> new]
  <2>8. DOMAIN c = {"shelf", "feed"} /\ c.feed = new /\ Finish(g, c)
    BY <2>2, <2>6
  <2> HIDE DEF c
  <2>9. FeedOk(page'[g], ks, rs)
    BY <1>1, <1>2, <1>3, <2>7, <2>8, EndedFeed
  <2> QED
    BY <1>1, <2>9
<1> QED
  BY <1>6, <1>8, <1>9, <1>10 DEF ShowThread

-----------------------------------------------------------------------------
(* What pages show, and the server.                                            *)

\* What the server kept stays, and what it was sent is found.
Remembered ==
  /\ Later(kept, requests, kept', requests')
  /\ \A m \in DOMAIN requests' : StoredOf(m)'
  /\ \A t \in Threads' : ThreadSound(t)'

\* A thread is made, a message is sent, or nothing happens.
LEMMA NothingStored ==
  ASSUME ComposerInv, FeedInv,
         kept' = kept \/ kept' = Append(kept, <<>>),
         requests' = requests
           \/ \E r : r.stage = "sent" /\ requests' = Append(requests, r)
  PROVE  Remembered
<1>1. kept \in Seq(Seq(Written)) /\ requests \in Seq(Posting)
  BY DEF ComposerInv
<1>2. /\ DOMAIN kept = Threads /\ Threads \subseteq Threads' /\ DOMAIN kept' = Threads'
      /\ \A t \in Threads : kept'[t] = kept[t]
      /\ \A t \in Threads' \ Threads : kept'[t] = <<>>
  <2>1. CASE kept' = kept
    BY <1>1, <2>1 DEF Threads
  <2>2. CASE kept' = Append(kept, <<>>)
    <3>1. /\ <<>> \in Seq(Written) /\ Len(kept') = Len(kept) + 1 /\ Len(kept) \in Nat
          /\ DOMAIN kept = 1 .. Len(kept) /\ DOMAIN kept' = 1 .. (Len(kept) + 1)
          /\ \A t \in 1 .. Len(kept) : kept'[t] = kept[t]
          /\ kept'[Len(kept) + 1] = <<>>
      BY <1>1, <2>2
    <3> QED
      BY <3>1 DEF Threads
  <2> QED
    BY <2>1, <2>2
<1>3. /\ DOMAIN requests \subseteq DOMAIN requests'
      /\ \A m \in DOMAIN requests : requests'[m] = requests[m]
      /\ \A m \in DOMAIN requests' \ DOMAIN requests : requests'[m].stage = "sent"
  <2>1. CASE requests' = requests
    BY <2>1
  <2>2. ASSUME NEW r, r.stage = "sent", requests' = Append(requests, r)
        PROVE  /\ DOMAIN requests \subseteq DOMAIN requests'
               /\ \A m \in DOMAIN requests : requests'[m] = requests[m]
               /\ \A m \in DOMAIN requests' \ DOMAIN requests : requests'[m].stage = "sent"
    BY <1>1, <2>2
  <2> QED
    BY <2>1, <2>2
<1>4. \A t \in DOMAIN kept : Prolongs(kept'[t], kept[t])
  BY <1>1, <1>2 DEF Prolongs
<1>5. ASSUME NEW m \in DOMAIN requests' PROVE StoredOf(m)'
  <2>1. CASE m \in DOMAIN requests
    <3>1. StoredOf(m) /\ requests[m].thread \in Threads
      BY <2>1 DEF FeedInv, ComposerInv, RequestSound
    <3>2. requests'[m] = requests[m] /\ kept'[requests[m].thread] = kept[requests[m].thread]
      BY <1>2, <1>3, <2>1, <3>1
    <3> QED
      BY <3>1, <3>2 DEF StoredOf
  <2>2. CASE m \notin DOMAIN requests
    BY <1>3, <2>2 DEF StoredOf
  <2> QED
    BY <2>1, <2>2
<1>6. ASSUME NEW t \in Threads' PROVE ThreadSound(t)'
  <2>1. CASE t \in Threads
    <3>1. ThreadSound(t) /\ kept'[t] = kept[t]
      BY <1>2, <2>1 DEF FeedInv
    <3> QED
      BY <1>3, <3>1 DEF ThreadSound
  <2>2. CASE t \notin Threads
    <3>1. kept'[t] = <<>>
      BY <1>2, <2>2
    <3> QED
      BY <3>1 DEF ThreadSound
  <2> QED
    BY <2>1, <2>2
<1> QED
  BY <1>2, <1>3, <1>4, <1>5, <1>6 DEF Remembered, Later

\* Meanwhile a page shows what it showed.
LEMMA FeedsStay ==
  ASSUME ComposerInv, FeedInv, Remembered, NEW g \in Views
  PROVE  FeedOk(page[g], kept', requests')
<1>1. PICK p, ks, rs, ls, qs :
        p = page[g] /\ ks = kept /\ rs = requests /\ ls = kept' /\ qs = requests'
  OBVIOUS
<1>2. Later(ks, rs, ls, qs) /\ FeedOk(p, ks, rs)
  BY <1>1 DEF Remembered, FeedInv
<1>3. 0 \notin DOMAIN ks /\ p.active \in DOMAIN ks \cup {0} /\ (p.busy = "send" => p.post \in DOMAIN rs)
  <2>1. /\ kept \in Seq(Seq(Written)) /\ page[g].active \in Threads \cup {0}
        /\ page[g].busy = "send" => page[g].post \in DOMAIN requests
    BY DEF ComposerInv, PageSound
  <2>2. DOMAIN ks = Threads /\ 0 \notin Threads
    BY <1>1, <2>1 DEF Threads
  <2> QED
    BY <1>1, <2>1, <2>2
<1>4. FeedOk(p, ls, qs)
  BY <1>2, <1>3, FeedAlone
<1> QED
  BY <1>1, <1>4

LEMMA FeedStep ==
  ASSUME ComposerInv, ComposerInv', FeedInv, Remembered, NEW g \in Views,
         \A h \in Views \ {g} : page'[h] = page[h], FeedOk(page'[g], kept', requests')
  PROVE  FeedInv'
<1>1. ASSUME NEW h \in Views PROVE FeedOk(page'[h], kept', requests')
  <2>1. CASE h = g
    BY <2>1
  <2>2. CASE h # g
    BY <2>2, FeedsStay
  <2> QED
    BY <2>1, <2>2
<1> QED
  BY <1>1 DEF FeedInv, Remembered

\* The message that is asked is shown behind what there was.
LEMMA AskedFeeds ==
  ASSUME ComposerInv, FeedInv, Remembered, kept' \in Seq(Seq(Written)), NEW g \in Views,
         NEW t \in Threads', NEW text, NEW files, NEW also, Asked(g, t, text, files, also),
         DOMAIN also \cap {"feed", "seen", "busy", "post"} = {},
         t = (IF "active" \in DOMAIN also THEN also.active ELSE page[g].active),
         Shows(page[g].feed, kept'[t]),
         \A i \in DOMAIN page[g].feed : page[g].feed[i][2] # "pending"
  PROVE  /\ FeedOk(page'[g], kept', requests')
         /\ \A h \in Views \ {g} : page'[h] = page[h]
<1>1. PICK p, q, ls, qs : p = page[g] /\ q = page'[g] /\ ls = kept' /\ qs = requests'
  OBVIOUS
<1>2. /\ DOMAIN page = Views /\ FeedOk(p, kept, requests)
      /\ {"feed", "seen"} \cup PageFields \subseteq DOMAIN p
  BY <1>1 DEF ComposerInv, PageSound, FeedInv, FeedOk
<1>3. PICK m \in Nat : m = Len(requests) + 1
  BY DEF ComposerInv
<1>4. m \in 1 .. MaxPosts
  <2>1. MaxPosts \in Nat /\ Len(requests) < MaxPosts
    BY ChatPageAssumption DEF Asked
  <2>2. Len(requests) \in Nat
    BY DEF ComposerInv
  <2> QED
    BY <1>3, <2>1, <2>2
<1>5. PICK feed \in Seq(Message) : feed = p.feed
  BY <1>2, FeedSaid
<1>6. \A h \in Views \ {g} : page'[h] = page[h]
  BY <1>2 DEF Asked
<1> DEFINE c == [busy |-> "send", post |-> m, text |-> text, files |-> files,
                 feed |-> Append(feed, <<m, "pending">>)]
<1>7. q = With(With(p, also), c)
  BY <1>1, <1>2, <1>3, <1>5 DEF Asked
<1>8. /\ DOMAIN c = {"busy", "post", "text", "files", "feed"}
      /\ c.busy = "send" /\ c.post = m /\ c.feed = Append(feed, <<m, "pending">>)
  OBVIOUS
<1> HIDE DEF c
<1>9. DOMAIN q = DOMAIN p
  BY <1>7 DEF With
<1>10. \A x \in DOMAIN p :
         q[x] = IF x \in DOMAIN c THEN c[x] ELSE IF x \in DOMAIN also THEN also[x] ELSE p[x]
  BY <1>7 DEF With
<1>11. /\ {"feed", "seen"} \subseteq DOMAIN q /\ q.busy = "send" /\ q.post = m
       /\ q.feed = Append(feed, <<m, "pending">>)
       /\ q.active = (IF "active" \in DOMAIN also THEN also.active ELSE p.active)
  BY <1>2, <1>8, <1>9, <1>10 DEF PageFields
<1>12. q.active = t /\ t # 0
  BY <1>1, <1>11 DEF Threads
<1>13. ls[t] \in Seq(Written)
  BY <1>1 DEF Threads
<1>14. qs[m].thread = t /\ qs[m].stage = "sent" /\ m \in DOMAIN qs
  <2> DEFINE r == [thread |-> t, text |-> text, files |-> files, stage |-> "sent"]
  <2>1. qs = Append(requests, r)
    BY <1>1 DEF Asked
  <2>2. r.thread = t /\ r.stage = "sent" /\ requests \in Seq(Posting)
    BY DEF ComposerInv
  <2> HIDE DEF r
  <2>3. qs[m] = r /\ m \in DOMAIN qs
    BY <1>3, <2>1, <2>2
  <2> QED
    BY <2>2, <2>3
<1>15. \A k \in DOMAIN ls[t] : ls[t][k] # <<m, "user">>
  <2>1. ThreadSound(t)'
    BY DEF Remembered
  <2>2. \A i \in DOMAIN ls[t], k \in Nat :
          ls[t][i] = <<k, "user">> => k \in DOMAIN qs /\ qs[k].stage # "sent"
    BY <1>1, <2>1 DEF ThreadSound
  <2> QED
    BY <1>14, <2>2
<1>16. Shows(feed, ls[t]) /\ \A i \in DOMAIN feed : feed[i][2] # "pending"
  BY <1>1, <1>5
<1>17. FeedOk(q, ls, qs)
  BY <1>4, <1>11, <1>12, <1>13, <1>14, <1>15, <1>16, AskingFeed
<1> QED
  BY <1>1, <1>6, <1>17

LEMMA SendFeeds ==
  ASSUME ComposerInv, ComposerInv', FeedInv, NEW g \in Views, Send(g)
  PROVE  FeedInv'
<1>1. PICK p : p = page[g]
  OBVIOUS
<1>2. /\ DOMAIN page = Views /\ UNCHANGED kept /\ Threads' = Threads /\ p.busy = "none"
      /\ {"feed", "seen"} \cup PageFields \subseteq DOMAIN p
      /\ FeedOk(p, kept, requests) /\ p.active \in Threads \cup {0}
  BY <1>1 DEF ComposerInv, Send, Free, PageSound, FeedInv, FeedOk, Threads
<1>3. /\ p.feed \in Seq(Message) /\ Shows(p.feed, Whole(kept, p.active))
      /\ \A i \in DOMAIN p.feed : p.feed[i][2] # "pending"
  BY <1>2, FeedSaid
<1>4. PICK text, files :
        \/ /\ Show(g, [busy |-> "create", text |-> text, files |-> files, draft |-> ""])
           /\ UNCHANGED requests /\ page[g].active = 0
        \/ page[g].active # 0 /\ Asked(g, page[g].active, text, files, [draft |-> ""])
  <2> DEFINE files == {f \in Drops : page[g].shelf[f] = "READY"}
             offered == IF page[g].feed = <<>> THEN Suggestions ELSE {}
  <2>1. PICK text \in {page[g].draft} \cup offered :
          IF page[g].active = 0
          THEN /\ Show(g, [busy |-> "create", text |-> text, files |-> files, draft |-> ""])
               /\ UNCHANGED requests
          ELSE Asked(g, page[g].active, text, files, [draft |-> ""])
    BY DEF Send
  <2> HIDE DEF files
  <2> QED
    BY <2>1
<1>5. CASE /\ Show(g, [busy |-> "create", text |-> text, files |-> files, draft |-> ""])
           /\ UNCHANGED requests /\ page[g].active = 0
  <2> DEFINE c == [busy |-> "create", text |-> text, files |-> files, draft |-> ""]
  <2>1. page'[g] = With(p, c) /\ \A h \in Views \ {g} : page'[h] = page[h]
    BY <1>1, <1>2, <1>5 DEF Show
  <2>2. DOMAIN c = {"busy", "text", "files", "draft"} /\ c.busy = "create"
    OBVIOUS
  <2> HIDE DEF c
  <2>3. PICK q : q = page'[g]
    OBVIOUS
  <2>4. DOMAIN q = DOMAIN p /\ q.busy = "create" /\ q.feed = p.feed /\ q.active = p.active
    BY <1>2, <2>1, <2>2, <2>3 DEF With, PageFields
  <2>5. p.active = 0
    BY <1>1, <1>5
  <2>6. PICK ks, rs : ks = kept /\ rs = requests /\ ks = kept' /\ rs = requests'
    BY <1>2, <1>5
  <2>7. FeedOk(q, ks, rs)
    BY <1>2, <1>3, <2>4, <2>5, <2>6, RestingFeed
  <2>8. Remembered
    BY <1>2, <1>5, NothingStored
  <2> QED
    BY <2>1, <2>3, <2>6, <2>7, <2>8, FeedStep
<1>6. CASE page[g].active # 0 /\ Asked(g, page[g].active, text, files, [draft |-> ""])
  <2> DEFINE also == [draft |-> ""]
  <2>1. PICK t : t = page[g].active
    OBVIOUS
  <2>2. Asked(g, t, text, files, also) /\ DOMAIN also = {"draft"} /\ t # 0
    BY <1>6, <2>1
  <2> HIDE DEF also
  <2>3. PICK r : r.stage = "sent" /\ requests' = Append(requests, r)
    BY <2>2 DEF Asked
  <2>4. Remembered
    BY <1>2, <2>3, NothingStored
  <2>5. t \in Threads' /\ Shows(page[g].feed, kept'[t]) /\ kept' \in Seq(Seq(Written))
    BY <1>1, <1>2, <1>3, <2>1, <2>2 DEF Whole, ComposerInv
  <2>6. t = (IF "active" \in DOMAIN also THEN also.active ELSE page[g].active)
    BY <2>1, <2>2
  <2>7. FeedOk(page'[g], kept', requests') /\ \A h \in Views \ {g} : page'[h] = page[h]
    BY <1>1, <1>3, <2>2, <2>4, <2>5, <2>6, AskedFeeds
  <2> QED
    BY <2>4, <2>7, FeedStep
<1> QED
  BY <1>4, <1>5, <1>6

LEMMA CreateFeeds ==
  ASSUME ComposerInv, ComposerInv', FeedInv, NEW g \in Views, CreateThread(g) \/ CreateFails(g)
  PROVE  FeedInv'
<1>1. PICK p, ls, qs : p = page[g] /\ ls = kept' /\ qs = requests'
  OBVIOUS
<1>2. /\ DOMAIN page = Views /\ p.busy \in {"create", "new"}
      /\ {"feed", "seen"} \cup PageFields \subseteq DOMAIN p
      /\ FeedOk(p, kept, requests) /\ kept' \in Seq(Seq(Written))
  BY <1>1 DEF ComposerInv, CreateThread, CreateFails, PageSound, FeedInv, FeedOk
<1>3. Remembered
  <2>1. kept' = kept \/ kept' = Append(kept, <<>>)
    BY DEF CreateThread, CreateFails
  <2>2. requests' = requests \/ \E r : r.stage = "sent" /\ requests' = Append(requests, r)
    <3>1. ASSUME NEW t, NEW text, NEW files, NEW also, Asked(g, t, text, files, also)
          PROVE  \E r : r.stage = "sent" /\ requests' = Append(requests, r)
      <4>1. PICK r : r = [thread |-> t, text |-> text, files |-> files, stage |-> "sent"]
        OBVIOUS
      <4>2. r.stage = "sent" /\ requests' = Append(requests, r)
        BY <3>1, <4>1 DEF Asked
      <4> QED
        BY <4>2
    <3> QED
      BY <3>1 DEF CreateThread, CreateFails
  <2> QED
    BY <2>1, <2>2, NothingStored
<1>4. FeedOk(p, ls, qs)
  BY <1>1, <1>3, FeedsStay
<1>5. /\ p.feed \in Seq(Message) /\ Shows(p.feed, Whole(ls, p.active))
      /\ \A i \in DOMAIN p.feed : p.feed[i][2] # "pending"
  BY <1>2, <1>4, FeedSaid
<1>6. <<>> \in Seq(Message) /\ \A whole : Shows(<<>>, whole)
  BY DEF Shows, Stored
<1>7. ASSUME NEW c, Finish(g, c) PROVE \A h \in Views \ {g} : page'[h] = page[h]
  BY <1>2, <1>7 DEF Finish
<1>8. PICK t : t = Len(kept) + 1
  OBVIOUS
<1> DEFINE listed == page[g].listed \cup {t}
<1>9. CASE CreateThread(g) /\ page[g].busy = "new"
  <2> DEFINE c == [feed |-> <<>>, active |-> t, listed |-> listed]
  <2>1. Finish(g, c)
    BY <1>8, <1>9 DEF CreateThread
  <2>2. DOMAIN c = {"feed", "active", "listed"} /\ c.active = t /\ c.feed = <<>>
    OBVIOUS
  <2> HIDE DEF c
  <2>3. FeedOk(page'[g], ls, qs)
    <3>1. PICK feed \in Seq(Message) : feed = <<>>
      BY <1>6
    <3>2. Shows(feed, Whole(ls, t)) /\ \A i \in DOMAIN feed : feed[i][2] # "pending"
      BY <1>6, <3>1
    <3> QED
      BY <1>1, <1>2, <2>1, <2>2, <3>1, <3>2, EndedFeed
  <2> QED
    BY <1>1, <1>3, <1>7, <2>1, <2>3, FeedStep
<1>10. CASE CreateThread(g) /\ page[g].busy = "create"
  <2> DEFINE also == [active |-> t, listed |-> listed]
  <2>1. Asked(g, t, page[g].text, page[g].files, also) /\ kept' = Append(kept, <<>>)
    BY <1>8, <1>10 DEF CreateThread
  <2>2. DOMAIN also = {"active", "listed"} /\ also.active = t
    OBVIOUS
  <2> HIDE DEF also
  <2>3. t \in Threads' /\ kept'[t] = <<>>
    <3>1. kept \in Seq(Seq(Written)) /\ <<>> \in Seq(Written)
      BY DEF ComposerInv
    <3> QED
      BY <1>8, <2>1, <3>1 DEF Threads
  <2>4. p.active = 0
    BY <1>1, <1>2, <1>10 DEF FeedOk
  <2>5. Shows(page[g].feed, kept'[t])
    BY <1>1, <1>5, <2>3, <2>4 DEF Whole
  <2>6. PICK text, files : text = page[g].text /\ files = page[g].files
    OBVIOUS
  <2>7. Asked(g, t, text, files, also)
    BY <2>1, <2>6
  <2>8. FeedOk(page'[g], kept', requests') /\ \A h \in Views \ {g} : page'[h] = page[h]
    BY <1>1, <1>2, <1>3, <1>5, <2>2, <2>3, <2>5, <2>7, AskedFeeds
  <2> QED
    BY <1>3, <2>8, FeedStep
<1>11. CASE CreateFails(g)
  <2>1. PICK draft : Finish(g, [draft |-> draft])
    BY <1>11 DEF CreateFails
  <2> DEFINE c == [draft |-> draft]
  <2>2. DOMAIN c = {"draft"} /\ Finish(g, c)
    BY <2>1
  <2> HIDE DEF c
  <2>3. PICK feed \in Seq(Message), active \in {p.active} : feed = p.feed
    BY <1>5
  <2>4. FeedOk(page'[g], ls, qs)
    BY <1>1, <1>2, <1>5, <2>2, <2>3, EndedFeed
  <2> QED
    BY <1>1, <1>3, <1>7, <2>2, <2>4, FeedStep
<1> QED
  BY <1>1, <1>2, <1>9, <1>10, <1>11

\* The server stores a question or its answer, or gives up.
LEMMA ServerFeeds ==
  ASSUME ComposerInv, FeedInv, NEW m \in DOMAIN requests,
         StoreQuestion(m) \/ StoreAnswer(m) \/ PostFails(m)
  PROVE  Remembered /\ UNCHANGED page
<1>1. /\ requests \in Seq(Posting) /\ kept \in Seq(Seq(Written)) /\ UNCHANGED page
      /\ m \in Nat /\ requests[m].thread \in Threads /\ DOMAIN kept = Threads
  BY DEF ComposerInv, RequestSound, Threads, StoreQuestion, StoreAnswer, PostFails
<1>2. PICK t \in Threads : t = requests[m].thread
  BY <1>1
<1>3. PICK whole \in Seq(Written), n \in Nat : whole = kept[t] /\ n = Len(whole)
  BY <1>1
<1>4. PICK stage \in {"stored", "answered", "failed"}, r \in {"user", "assistant"} :
        /\ requests' = [requests EXCEPT ![m].stage = stage]
        /\ stage = "stored" => requests[m].stage = "sent" /\ r = "user"
        /\ stage = "answered" => requests[m].stage = "stored" /\ r = "assistant"
        /\ stage = "failed" => requests[m].stage \in {"sent", "stored"} /\ kept' = kept
        /\ stage # "failed" => kept' = [kept EXCEPT ![t] = Append(@, <<m, r>>)]
  BY <1>2 DEF StoreQuestion, StoreAnswer, PostFails
<1>5. /\ DOMAIN requests' = DOMAIN requests
      /\ \A k \in DOMAIN requests : requests'[k].thread = requests[k].thread
      /\ \A k \in DOMAIN requests \ {m} : requests'[k].stage = requests[k].stage
      /\ requests'[m].stage = stage
  <2>1. requests[m] \in Posting
    BY <1>1
  <2>2. \A k \in DOMAIN requests :
          requests'[k] = IF k = m THEN [requests[m] EXCEPT !.stage = stage] ELSE requests[k]
    BY <1>1, <1>4
  <2> QED
    BY <1>1, <1>4, <2>1, <2>2 DEF Posting
<1>6. PICK new \in Seq(Written) :
        /\ new = kept'[t] /\ Prolongs(new, whole)
        /\ stage = "failed" => new = whole
        /\ stage # "failed" => /\ n + 1 \in DOMAIN new /\ new[n + 1] = <<m, r>>
                               /\ \A i \in DOMAIN new : i \in DOMAIN whole \/ i = n + 1
  <2>1. CASE stage = "failed"
    BY <1>3, <1>4, <2>1 DEF Prolongs
  <2>2. CASE stage # "failed"
    <3>1. <<m, r>> \in Written
      BY <1>1 DEF Written
    <3>2. PICK new : new = Append(whole, <<m, r>>)
      OBVIOUS
    <3>3. kept'[t] = new
      BY <1>1, <1>3, <1>4, <2>2, <3>2
    <3>4. /\ new \in Seq(Written) /\ DOMAIN new = DOMAIN whole \cup {n + 1}
          /\ new[n + 1] = <<m, r>> /\ \A i \in DOMAIN whole : new[i] = whole[i]
          /\ Len(whole) <= Len(new)
      BY <1>3, <3>1, <3>2
    <3>5. Prolongs(new, whole)
      BY <3>4 DEF Prolongs
    <3> QED
      BY <2>2, <3>3, <3>4, <3>5
  <2> QED
    BY <2>1, <2>2
<1>7. /\ Threads' = Threads /\ DOMAIN kept' = DOMAIN kept
      /\ \A k \in Threads \ {t} : kept'[k] = kept[k]
  <2>1. kept' = kept \/ kept' = [kept EXCEPT ![t] = Append(whole, <<m, r>>)]
    BY <1>3, <1>4
  <2>2. kept' \in Seq(Seq(Written)) /\ Len(kept') = Len(kept)
    <3>1. PICK x \in Seq(Written) : x = Append(whole, <<m, r>>)
      <4>1. PICK e \in Written : e = <<m, r>>
        BY <1>1 DEF Written
      <4>2. Append(whole, e) \in Seq(Written)
        OBVIOUS
      <4> QED
        BY <4>1, <4>2
    <3>2. CASE kept' = kept
      BY <1>1, <3>2
    <3>3. CASE kept' = [kept EXCEPT ![t] = x]
      BY <1>1, <3>3
    <3> QED
      BY <2>1, <3>1, <3>2, <3>3
  <2> QED
    BY <1>1, <2>1, <2>2 DEF Threads
<1>8. Later(kept, requests, kept', requests')
  <2>1. ASSUME NEW k \in Threads PROVE Prolongs(kept'[k], kept[k])
    <3>1. CASE k = t
      BY <1>3, <1>6, <3>1
    <3>2. CASE k # t
      <4>1. kept'[k] = kept[k] /\ kept[k] \in Seq(Written)
        BY <1>1, <1>7, <3>2
      <4> QED
        BY <4>1 DEF Prolongs
    <3> QED
      BY <3>1, <3>2
  <2> QED
    BY <1>1, <1>5, <1>7, <2>1 DEF Later
<1>9. \A k \in Threads : \A i \in DOMAIN kept[k] :
        i \in DOMAIN kept'[k] /\ kept'[k][i] = kept[k][i]
  BY <1>1, <1>8 DEF Later, Prolongs
<1>10. ASSUME NEW k \in DOMAIN requests' PROVE StoredOf(k)'
  <2>1. StoredOf(k) /\ requests[k].thread \in Threads /\ requests'[k].thread = requests[k].thread
    BY <1>5, <1>10 DEF FeedInv, ComposerInv, RequestSound
  <2>2. PICK u \in Threads : u = requests[k].thread
    BY <2>1
  <2>3. CASE k # m
    <3>1. requests'[k].stage = requests[k].stage
      BY <1>5, <1>10, <2>3
    <3>2. requests[k].stage = "stored" => \E i \in DOMAIN kept'[u] : kept'[u][i] = <<k, "user">>
      BY <1>9, <2>1, <2>2 DEF StoredOf
    <3>3. requests[k].stage = "answered" =>
            \E i, j \in DOMAIN kept'[u] :
              i < j /\ kept'[u][i] = <<k, "user">> /\ kept'[u][j] = <<k, "assistant">>
      BY <1>9, <2>1, <2>2 DEF StoredOf
    <3> QED
      BY <2>1, <2>2, <3>1, <3>2, <3>3 DEF StoredOf
  <2>4. CASE k = m /\ stage = "stored"
    <3>1. kept'[requests'[k].thread] = new /\ requests'[k].stage = "stored"
      BY <1>2, <1>5, <1>6, <2>1, <2>4
    <3>2. n + 1 \in DOMAIN new /\ new[n + 1] = <<k, "user">>
      BY <1>4, <1>6, <2>4
    <3>3. \E i \in DOMAIN new : new[i] = <<k, "user">>
      BY <3>2
    <3> QED
      BY <3>1, <3>3 DEF StoredOf
  <2>5. CASE k = m /\ stage = "answered"
    <3>1. PICK i \in DOMAIN whole : whole[i] = <<m, "user">>
      BY <1>2, <1>3, <1>4, <2>1, <2>5 DEF StoredOf
    <3>2. i \in DOMAIN new /\ new[i] = <<m, "user">> /\ i < n + 1
      BY <1>3, <1>6, <3>1 DEF Prolongs
    <3>3. n + 1 \in DOMAIN new /\ new[n + 1] = <<m, "assistant">>
      BY <1>4, <1>6, <2>5
    <3>4. \E a, b \in DOMAIN new : a < b /\ new[a] = <<m, "user">> /\ new[b] = <<m, "assistant">>
      BY <3>2, <3>3
    <3>5. kept'[requests'[k].thread] = new /\ requests'[k].stage = "answered"
      BY <1>2, <1>5, <1>6, <2>1, <2>5
    <3> QED
      BY <2>5, <3>4, <3>5 DEF StoredOf
  <2>6. CASE k = m /\ stage = "failed"
    BY <1>5, <2>6 DEF StoredOf
  <2> QED
    BY <2>3, <2>4, <2>5, <2>6
<1>11. ASSUME NEW u \in Threads' PROVE ThreadSound(u)'
  <2>1. ThreadSound(u) /\ ThreadSound(t)
    BY <1>7 DEF FeedInv
  <2>2. \A k \in Nat, i \in DOMAIN kept[u] :
          /\ kept[u][i] = <<k, "user">> => k \in DOMAIN requests' /\ requests'[k].stage # "sent"
          /\ kept[u][i] = <<k, "assistant">> =>
               k \in DOMAIN requests' /\ requests'[k].stage = "answered"
    BY <1>4, <1>5, <2>1 DEF ThreadSound
  <2>3. CASE u # t \/ stage = "failed"
    <3>1. kept'[u] = kept[u]
      BY <1>3, <1>6, <1>7, <2>3
    <3> QED
      BY <2>1, <2>2, <3>1 DEF ThreadSound
  <2>4. CASE u = t /\ stage # "failed"
    <3>1. /\ \A i \in DOMAIN new : i \in DOMAIN whole \/ i = n + 1
          /\ \A i \in DOMAIN whole : new[i] = whole[i]
          /\ new[n + 1] = <<m, r>>
      BY <1>6, <2>4 DEF Prolongs
    <3>2. \A i \in DOMAIN whole : whole[i] # <<m, r>>
      <4>1. \A i \in DOMAIN whole :
              /\ whole[i] = <<m, "user">> => requests[m].stage # "sent"
              /\ whole[i] = <<m, "assistant">> => requests[m].stage = "answered"
        BY <1>1, <1>3, <2>1 DEF ThreadSound
      <4> QED
        BY <1>4, <2>4, <4>1
    <3>3. \A i, j \in DOMAIN whole : i # j => whole[i] # whole[j]
      BY <1>3, <2>1 DEF ThreadSound
    <3>4. \A i, j \in DOMAIN new : i # j => new[i] # new[j]
      BY <3>1, <3>2, <3>3
    <3>5. ASSUME NEW i \in DOMAIN new, NEW k \in Nat
          PROVE  /\ new[i] = <<k, "user">> => k \in DOMAIN requests' /\ requests'[k].stage # "sent"
                 /\ new[i] = <<k, "assistant">> =>
                      k \in DOMAIN requests' /\ requests'[k].stage = "answered"
      <4>1. CASE i \in DOMAIN whole
        BY <1>3, <2>2, <2>4, <3>1, <4>1
      <4>2. CASE i = n + 1
        BY <1>4, <1>5, <2>4, <3>1, <4>2
      <4> QED
        BY <3>1, <4>1, <4>2
    <3> QED
      BY <1>6, <2>4, <3>4, <3>5 DEF ThreadSound
  <2> QED
    BY <2>3, <2>4
<1> QED
  BY <1>1, <1>8, <1>10, <1>11 DEF Remembered

LEMMA FeedsBegin == ChatPageInit => FeedInv
<1> SUFFICES ASSUME ChatPageInit PROVE FeedInv
  OBVIOUS
<1>1. DOMAIN requests = {} /\ Threads = {}
  BY DEF ChatPageInit, Threads
<1>2. ASSUME NEW g \in Views PROVE FeedOk(page[g], kept, requests)
  <2>1. page[g] = Fresh
    BY DEF ChatPageInit
  <2> QED
    BY <2>1, GoneFeed
<1> QED
  BY <1>1, <1>2 DEF FeedInv

LEMMA FeedsKept ==
  ASSUME ComposerInv, ComposerInv', FeedInv, [ChatPageNext]_chatPageVars
  PROVE  FeedInv'
<1>1. ASSUME UNCHANGED <<kept, requests>>, NEW g \in Views, FeedOk(page'[g], kept, requests),
             \A h \in Views \ {g} : page'[h] = page[h]
      PROVE  FeedInv'
  <2>1. Remembered
    BY <1>1, NothingStored
  <2> QED
    BY <1>1, <2>1, FeedStep
<1>2. ASSUME Remembered, UNCHANGED page PROVE FeedInv'
  <2>1. \A h \in Views : FeedOk(page'[h], kept', requests')
    BY <1>2, FeedsStay
  <2> QED
    BY <1>2, <2>1 DEF FeedInv, Remembered
<1>3. ASSUME NEW m \in DOMAIN requests, StoreQuestion(m) \/ StoreAnswer(m) \/ PostFails(m)
      PROVE  FeedInv'
  BY <1>2, <1>3, ServerFeeds
<1>4. ASSUME NEW g \in Views,
             OpenPage(g) \/ ClosePage(g) \/ (\E text \in Texts : Type(g, text))
             \/ (\E f \in Drops : Attach(g, f) \/ Attached(g, f) \/ RemoveAttachment(g, f))
      PROVE  FeedInv'
  <2>1. UNCHANGED <<kept, requests>> /\ \A h \in Views \ {g} : page'[h] = page[h]
    BY <1>4 DEF ComposerInv, OpenPage, ClosePage, Type, Attach, Attached, RemoveAttachment, Show
  <2>2. FeedOk(page'[g], kept, requests)
    BY <1>4, QuietFeeds
  <2> QED
    BY <1>1, <2>1, <2>2
<1>5. ASSUME NEW g \in Views,
             NewThread(g) \/ ReadThread(g) \/ SendFails(g)
             \/ (\E t \in Threads : SelectThread(g, t))
      PROVE  FeedInv'
  <2>1. UNCHANGED <<kept, requests>> /\ \A h \in Views \ {g} : page'[h] = page[h]
    BY <1>5 DEF ComposerInv, NewThread, ReadThread, SendFails, SelectThread, Show
  <2>2. FeedOk(page'[g], kept, requests)
    BY <1>5, BusyFeeds
  <2> QED
    BY <1>1, <2>1, <2>2
<1>6. ASSUME NEW g \in Views, ShowThread(g) \/ Answered(g)
      PROVE  FeedInv'
  <2>1. UNCHANGED <<kept, requests>> /\ \A h \in Views \ {g} : page'[h] = page[h]
    BY <1>6 DEF ComposerInv, ShowThread, Answered, Finish
  <2>2. FeedOk(page'[g], kept, requests)
    BY <1>6, EndingFeeds
  <2> QED
    BY <1>1, <2>1, <2>2
<1>7. ASSUME NEW g \in Views, Command(g) PROVE FeedInv'
  <2>1. UNCHANGED <<kept, requests>> /\ \A h \in Views \ {g} : page'[h] = page[h]
    BY <1>7 DEF ComposerInv, Command, Show, Finish
  <2>2. \/ Free(g) /\ Show(g, [busy |-> "command"])
        \/ page[g].busy = "command" /\ Finish(g, AtRest)
    BY <1>7 DEF Command
  <2>3. FeedOk(page'[g], kept, requests)
    BY <2>2, BusyFeeds, EndingFeeds
  <2> QED
    BY <1>1, <2>1, <2>3
<1>8. ASSUME NEW g \in Views, Send(g) \/ CreateThread(g) \/ CreateFails(g) PROVE FeedInv'
  BY <1>8, SendFeeds, CreateFeeds
<1>9. CASE UNCHANGED chatPageVars
  <2>1. Remembered /\ UNCHANGED page
    BY <1>9, NothingStored DEF chatPageVars
  <2> QED
    BY <1>2, <2>1
<1> QED
  BY <1>3, <1>4, <1>5, <1>6, <1>7, <1>8, <1>9 DEF ChatPageNext

\* What an open page shows of a thread is what the thread holds, in its order and
\* nothing twice, and nothing stays on it that was not stored: for every number of
\* pages, threads and messages, whoever else writes in the thread and whatever is
\* refused, lost or answered late (agent-chat.tsx: sendMessage, reloadMessages).
THEOREM FeedsShowTheirThreads == ChatPageSpec => []FeedIsThread
<1>1. ChatPageInit => ComposerInv /\ FeedInv
  BY ComposerBegins, FeedsBegin
<1>2. ComposerInv /\ FeedInv /\ [ChatPageNext]_chatPageVars => ComposerInv' /\ FeedInv'
  BY ComposerKeeps, FeedsKept
<1>3. FeedInv => FeedIsThread
  <2> SUFFICES ASSUME FeedInv, NEW g \in Views, page[g].open
               PROVE  LET feed == page[g].feed
                          stored == {i \in DOMAIN feed : feed[i][2] # "pending"}
                      IN  /\ \A i \in stored : \E k \in DOMAIN ThreadOf(g) : ThreadOf(g)[k] = feed[i]
                          /\ \A i, j \in stored :
                               i < j => feed[i] # feed[j] /\ InItsOrder(feed, ThreadOf(g), i, j)
                          /\ page[g].busy = "none" => stored = DOMAIN feed
    BY DEF FeedIsThread
  <2>1. PICK feed : feed = page[g].feed
    OBVIOUS
  <2>2. ThreadOf(g) = Whole(kept, page[g].active)
    BY DEF ThreadOf, Whole
  <2>3. FeedOk(page[g], kept, requests)
    BY DEF FeedInv
  <2>4. Shows(feed, ThreadOf(g)) /\ (page[g].busy = "none" => \A i \in DOMAIN feed : feed[i][2] # "pending")
    BY <2>1, <2>2, <2>3, FeedSaid
  <2>5. Stored(feed) = {i \in DOMAIN feed : feed[i][2] # "pending"}
    BY DEF Stored
  <2> QED
    BY <2>1, <2>4, <2>5 DEF Shows
<1> QED
  BY <1>1, <1>2, <1>3, PTL DEF ChatPageSpec

-----------------------------------------------------------------------------
(* The page of a run.  That it follows what it shows needs that one loop at    *)
(* most is alive, the one whose controller the page has.                       *)

LoopPcs == {"unused", "delay", "asked", "body", "ended"}
Live(l) == poll[l].pc \in {"delay", "asked", "body"}

\* A run once made has its number, and a status.
RunsSound == \A r \in RunIds : runs[r] = Nowhere \/ (runs[r].id = r /\ runs[r].status # "none")

\* What is shown was read from the server.
ShownSound ==
  \/ shown = Nowhere
  \/ /\ shown.id \in RunIds /\ shown.status # "none"
     /\ runs[shown.id].id # 0 /\ shown.version <= runs[shown.id].version

\* A living loop is the page's own, and knows what is shown or something newer.
LoopSound(l) ==
  Live(l) =>
    /\ l = abort /\ ~stop /\ actionBusy = "none" /\ shown # Nowhere
    /\ poll[l].pc \in {"delay", "asked"} => poll[l].current = shown
    /\ poll[l].pc = "body" =>
         /\ poll[l].current.id = shown.id /\ poll[l].current.status # "none"
         /\ shown.version <= poll[l].current.version
         /\ poll[l].current.version <= runs[shown.id].version

\* A run that is not over is followed, or is being changed, or something failed.
Followed == Over(shown) \/ actionBusy # "none" \/ failed \/ \E l \in Polls : Live(l)

RunPageInv ==
  /\ RunPageTypeOK
  /\ RunsSound /\ ShownSound /\ Followed
  /\ \A l \in Polls : LoopSound(l)

\* What PageFollowsRun says of the step.
ShownNewer ==
  /\ shown'.id = shown.id => shown'.version >= shown.version
  /\ shown'.id # shown.id => shown = Nowhere \/ actionBusy # "none"

LEMMA NowhereIs ==
  /\ Nowhere \in RunNow /\ Nowhere.id = 0 /\ Nowhere.version = 0 /\ Nowhere.status = "none"
  /\ Over(Nowhere) /\ NoLoop \in Loop /\ NoLoop.pc = "unused"
  /\ 0 \notin RunIds
BY RunPageAssumption DEF Nowhere, RunNow, RunStatuses, Over, Loop, NoLoop, RunIds

LEMMA PageBegins == RunPageInit => RunPageInv
BY NowhereIs DEF RunPageInit, RunPageInv, RunPageTypeOK, RunsSound, ShownSound, Followed,
                 LoopSound, Live

-----------------------------------------------------------------------------
(* Loops                                                                       *)

\* Moving a loop on.
LoopAt(l, pc) == [poll EXCEPT ![l].pc = pc]
LEMMA LoopMoves ==
  ASSUME RunPageTypeOK, NEW l \in Polls, NEW pc \in LoopPcs, NEW new, new = LoopAt(l, pc)
  PROVE  /\ new \in [Polls -> Loop]
         /\ new[l].pc = pc /\ new[l].current = poll[l].current
         /\ \A k \in Polls \ {l} : new[k] = poll[k]
<1>1. poll \in [Polls -> Loop] /\ poll[l] \in Loop
  BY DEF RunPageTypeOK
<1>2. /\ [poll[l] EXCEPT !.pc = pc] = [pc |-> pc, current |-> poll[l].current]
      /\ [pc |-> pc, current |-> poll[l].current] \in Loop
  BY <1>1 DEF Loop, LoopPcs
<1>3. new = [poll EXCEPT ![l] = [pc |-> pc, current |-> poll[l].current]]
  BY <1>2 DEF LoopAt
<1> QED
  BY <1>1, <1>2, <1>3

\* When the loop of the page is aborted, none is alive.
LEMMA AbortEndsAll ==
  ASSUME RunPageInv, NEW new, new = Aborted(abort)
  PROVE  /\ new \in [Polls -> Loop]
         /\ \A l \in Polls : new[l].pc \notin {"delay", "asked", "body"}
<1>1. CASE abort = "none"
  BY <1>1, RunPageAssumption DEF RunPageInv, RunPageTypeOK, LoopSound, Live, Aborted
<1>2. CASE abort # "none"
  <2>1. PICK l \in Polls : l = abort /\ new = [poll EXCEPT ![l].pc = "ended"]
    BY <1>2 DEF RunPageInv, RunPageTypeOK, Aborted
  <2>2. PICK pc \in LoopPcs : pc = "ended"
    BY DEF LoopPcs
  <2>3. /\ new \in [Polls -> Loop] /\ new[l].pc = "ended"
        /\ \A k \in Polls \ {l} : new[k] = poll[k]
    <3>1. RunPageTypeOK
      BY DEF RunPageInv
    <3>2. new = LoopAt(l, pc)
      BY <2>1, <2>2 DEF LoopAt
    <3>3. /\ new \in [Polls -> Loop] /\ new[l].pc = pc
          /\ \A k \in Polls \ {l} : new[k] = poll[k]
      BY <3>1, <3>2, LoopMoves
    <3> QED
      BY <3>3, <2>2
  <2>4. \A k \in Polls \ {l} : ~Live(k)
    BY <2>1 DEF RunPageInv, LoopSound
  <2> QED
    BY <2>3, <2>4 DEF Live
<1> QED
  BY <1>1, <1>2

\* A loop that is started is the one that is alive, if its run is not over.
LEMMA StartedFollows ==
  ASSUME RunPageInv, NEW run \in RunNow, StartObserving(run)
  PROVE  /\ poll' \in [Polls -> Loop] /\ abort' \in Polls \cup {"none"}
         /\ stop' = FALSE /\ observing' \in BOOLEAN
         /\ \A k \in Polls : poll'[k].pc \in {"delay", "asked", "body"} =>
              /\ k = abort' /\ poll'[k] = [pc |-> "delay", current |-> run]
              /\ ~Over(run)
         /\ Over(run) \/ \E k \in Polls : poll'[k].pc = "delay"
<1>1. PICK l \in Polls :
        /\ poll' = [Aborted(abort) EXCEPT
                      ![l] = [pc |-> IF Over(run) THEN "ended" ELSE "delay", current |-> run]]
        /\ abort' = IF Over(run) THEN "none" ELSE l
        /\ stop' = FALSE /\ observing' = ~Over(run)
  BY DEF StartObserving
<1>2. PICK old : old = Aborted(abort)
  OBVIOUS
<1>3. /\ old \in [Polls -> Loop]
      /\ \A k \in Polls : old[k].pc \notin {"delay", "asked", "body"}
  BY <1>2, AbortEndsAll
<1>4. PICK pc \in {"ended", "delay"} :
        /\ poll' = [old EXCEPT ![l] = [pc |-> pc, current |-> run]]
        /\ IF Over(run) THEN pc = "ended" ELSE pc = "delay"
  BY <1>1, <1>2
<1>5. [pc |-> pc, current |-> run] \in Loop
  BY DEF Loop
<1>6. /\ poll' \in [Polls -> Loop] /\ poll'[l] = [pc |-> pc, current |-> run]
      /\ \A k \in Polls \ {l} : poll'[k] = old[k]
  BY <1>3, <1>4, <1>5
<1>7. Over(run) \in BOOLEAN
  BY DEF Over
<1>8. \A k \in Polls : poll'[k].pc \in {"delay", "asked", "body"} => k = l /\ ~Over(run)
  BY <1>3, <1>4, <1>6
<1>9. /\ abort' = IF Over(run) THEN "none" ELSE l
      /\ stop' = FALSE /\ observing' \in BOOLEAN
  BY <1>1, <1>7
<1>10. ~Over(run) => poll'[l] = [pc |-> "delay", current |-> run]
  BY <1>4, <1>6
<1> QED
  BY <1>6, <1>8, <1>9, <1>10

\* Where no loop is alive, the invariant is about what is shown.
LEMMA NoLoopAlive ==
  ASSUME RunPageTypeOK', RunsSound', ShownSound', Followed',
         \A l \in Polls : poll'[l].pc \notin {"delay", "asked", "body"}
  PROVE  RunPageInv'
BY DEF RunPageInv, LoopSound, Live

-----------------------------------------------------------------------------
(* The server, and the page that is opened                                     *)

\* The runs of the server only get newer.
LEMMA RunsGetNewer ==
  ASSUME RunPageInv, RunsSound', runs' \in [RunIds -> RunNow],
         \A r \in RunIds : runs[r].id # 0 =>
           runs'[r].id = runs[r].id /\ runs'[r].version >= runs[r].version,
         UNCHANGED <<shown, actionBusy, failed, observing, stop, abort, poll>>
  PROVE  RunPageInv' /\ ShownNewer
<1>1. RunPageTypeOK'
  BY DEF RunPageInv, RunPageTypeOK
<1>2. ShownSound'
  <2>1. CASE shown = Nowhere
    BY <2>1 DEF ShownSound
  <2>2. CASE shown # Nowhere
    <3>1. /\ shown.id \in RunIds /\ shown.status # "none"
          /\ runs[shown.id].id # 0 /\ shown.version <= runs[shown.id].version
      BY <2>2 DEF RunPageInv, ShownSound
    <3>2. /\ shown.version \in Int /\ runs[shown.id].version \in Int
          /\ runs'[shown.id].version \in Int
      BY <3>1 DEF RunPageInv, RunPageTypeOK, RunNow
    <3> QED
      BY <3>1, <3>2, NowhereIs DEF ShownSound
  <2> QED
    BY <2>1, <2>2
<1>3. Followed'
  BY DEF RunPageInv, Followed, Over, Live
<1>4. ASSUME NEW l \in Polls PROVE LoopSound(l)'
  <2>1. CASE ~Live(l)
    BY <2>1 DEF LoopSound, Live
  <2>2. CASE Live(l) /\ poll[l].pc # "body"
    BY <2>2 DEF RunPageInv, LoopSound, Live
  <2>3. CASE poll[l].pc = "body"
    <3>1. LoopSound(l) /\ shown # Nowhere
      BY <2>3 DEF RunPageInv, LoopSound, Live
    <3>2. shown.id \in RunIds /\ runs[shown.id].id # 0
      BY <3>1 DEF RunPageInv, ShownSound
    <3>3. /\ poll[l].current.version \in Int /\ runs[shown.id].version \in Int
          /\ runs'[shown.id].version \in Int
      BY <3>2 DEF RunPageInv, RunPageTypeOK, Loop, RunNow
    <3> QED
      BY <2>3, <3>1, <3>2, <3>3 DEF LoopSound, Live
  <2> QED
    BY <2>1, <2>2, <2>3
<1>5. ShownNewer
  BY DEF ShownNewer, RunPageInv, RunPageTypeOK, RunNow
<1> QED
  BY <1>1, <1>2, <1>3, <1>4, <1>5 DEF RunPageInv

LEMMA RunMovesKeeps ==
  ASSUME RunPageInv, NEW r \in RunIds, RunMoves(r)
  PROVE  RunPageInv' /\ ShownNewer
<1>1. PICK status \in RunStatuses \ {"none"} : runs' = [runs EXCEPT ![r] = Changed(r, status)]
  BY DEF RunMoves, RunStatuses
<1>2. /\ runs[r] \in RunNow /\ runs[r].id = r /\ r \in Nat \ {0}
      /\ runs[r].version < MaxVersion /\ MaxVersion \in Nat
  BY NowhereIs, RunPageAssumption
     DEF RunMoves, RunPageInv, RunPageTypeOK, RunsSound, Made, RunIds
<1>3. PICK new : new = Changed(r, status)
  OBVIOUS
<1>4. /\ runs' = [runs EXCEPT ![r] = new]
      /\ new \in RunNow /\ new.id = r /\ new.version > runs[r].version /\ new.status = status
  <2>1. runs[r].version \in 0 .. MaxVersion /\ r \in 0 .. MaxRuns
    BY <1>2 DEF RunNow, RunIds
  <2> QED
    BY <1>1, <1>2, <1>3, <2>1 DEF RunNow, Changed
<1>5. /\ runs' \in [RunIds -> RunNow] /\ runs'[r] = new
      /\ \A k \in RunIds \ {r} : runs'[k] = runs[k]
  BY <1>3, <1>4 DEF RunPageInv, RunPageTypeOK
<1>6. RunsSound'
  BY <1>4, <1>5 DEF RunPageInv, RunsSound
<1>7. \A k \in RunIds : runs[k].id # 0 =>
        runs'[k].id = runs[k].id /\ runs'[k].version >= runs[k].version
  <2>1. \A k \in RunIds : runs[k].version \in Int /\ runs'[k].version \in Int
    BY <1>5 DEF RunPageInv, RunPageTypeOK, RunNow
  <2>2. runs'[r].id = runs[r].id /\ runs'[r].version >= runs[r].version
    BY <1>2, <1>4, <1>5, <2>1
  <2>3. ASSUME NEW k \in RunIds \ {r}
        PROVE  runs'[k].id = runs[k].id /\ runs'[k].version >= runs[k].version
    BY <1>5, <2>1
  <2> QED
    BY <2>2, <2>3
<1> QED
  BY <1>5, <1>6, <1>7, RunsGetNewer DEF RunMoves

-----------------------------------------------------------------------------
(* A run that is shown and followed                                            *)

LEMMA ShownAndStarted ==
  ASSUME RunPageInv, NEW run \in RunNow, StartObserving(run), shown' = run,
         actionBusy' = "none", failed' \in BOOLEAN,
         runs' \in [RunIds -> RunNow], RunsSound',
         run.id \in RunIds, run.status # "none",
         runs'[run.id].id # 0, run.version <= runs'[run.id].version
  PROVE  RunPageInv'
<1>1. /\ poll' \in [Polls -> Loop] /\ abort' \in Polls \cup {"none"}
      /\ stop' = FALSE /\ observing' \in BOOLEAN
      /\ \A k \in Polls : poll'[k].pc \in {"delay", "asked", "body"} =>
           /\ k = abort' /\ poll'[k] = [pc |-> "delay", current |-> run]
           /\ ~Over(run)
      /\ Over(run) \/ \E k \in Polls : poll'[k].pc = "delay"
  BY StartedFollows
<1>2. RunPageTypeOK'
  BY <1>1 DEF RunPageTypeOK
<1>3. ShownSound'
  BY DEF ShownSound
<1>4. Followed'
  BY <1>1 DEF Followed, Over, Live
<1>5. shown' # Nowhere
  BY NowhereIs
<1>6. ASSUME NEW k \in Polls PROVE LoopSound(k)'
  BY <1>1, <1>5 DEF LoopSound, Live
<1> QED
  BY <1>2, <1>3, <1>4, <1>6 DEF RunPageInv

LEMMA OpenRunKeeps ==
  ASSUME RunPageInv, NEW r \in RunIds, OpenRun(r)
  PROVE  RunPageInv' /\ ShownNewer
<1>1. /\ runs[r] \in RunNow /\ runs[r].id = r /\ runs[r].status # "none" /\ r # 0
      /\ runs[r].version \in Int
  BY NowhereIs DEF OpenRun, Made, RunPageInv, RunPageTypeOK, RunsSound, RunNow
<1>2. /\ shown = Nowhere /\ shown' = runs[r] /\ actionBusy' = "none"
      /\ UNCHANGED <<runs, actionBusy, failed>>
  BY DEF OpenRun
<1>3. ShownNewer
  BY <1>1, <1>2, NowhereIs DEF ShownNewer
<1>4. RunsSound'
  BY <1>2 DEF RunPageInv, RunsSound
<1>5. PICK run \in RunNow : run = runs[r]
  BY <1>1
<1>6. CASE Over(runs[r])
  <2>1. UNCHANGED <<observing, stop, abort, poll>>
    BY <1>6 DEF OpenRun
  <2>2. \A l \in Polls : poll'[l].pc \notin {"delay", "asked", "body"}
    BY <1>2, <2>1 DEF RunPageInv, LoopSound, Live
  <2>3. RunPageTypeOK' /\ ShownSound' /\ Followed'
    BY <1>1, <1>2, <1>6, <2>1 DEF RunPageInv, RunPageTypeOK, ShownSound, Followed, Over
  <2> QED
    BY <1>3, <1>4, <2>2, <2>3, NoLoopAlive
<1>7. CASE ~Over(runs[r])
  <2>1. StartObserving(run)
    BY <1>5, <1>7 DEF OpenRun
  <2>2. /\ shown' = run /\ failed' \in BOOLEAN /\ runs' \in [RunIds -> RunNow]
        /\ run.id \in RunIds /\ run.status # "none"
        /\ runs'[run.id].id # 0 /\ run.version <= runs'[run.id].version
    BY <1>1, <1>2, <1>5 DEF RunPageInv, RunPageTypeOK
  <2> QED
    BY <1>2, <1>3, <1>4, <2>1, <2>2, ShownAndStarted
<1> QED
  BY <1>6, <1>7

-----------------------------------------------------------------------------
(* Polling                                                                     *)

LEMMA PollKeeps ==
  ASSUME RunPageInv, NEW l \in Polls, Poll(l)
  PROVE  RunPageInv' /\ ShownNewer
<1>1. PICK pc \in LoopPcs : pc = "asked"
  BY DEF LoopPcs
<1>2. PICK new : new = poll'
  OBVIOUS
<1>3. new = LoopAt(l, pc) /\ RunPageTypeOK
  BY <1>1, <1>2 DEF Poll, LoopAt, RunPageInv
<1>4. /\ new \in [Polls -> Loop]
      /\ new[l].pc = pc /\ new[l].current = poll[l].current
      /\ \A k \in Polls \ {l} : new[k] = poll[k]
  BY <1>3, LoopMoves
<1>5. /\ poll' \in [Polls -> Loop]
      /\ poll'[l].pc = "asked" /\ poll'[l].current = poll[l].current
      /\ \A k \in Polls \ {l} : poll'[k] = poll[k]
  BY <1>1, <1>2, <1>4
<1>6. /\ UNCHANGED <<runs, shown, actionBusy, failed, observing, stop, abort>>
      /\ poll[l].pc = "delay"
  BY DEF Poll
<1>7. RunPageTypeOK' /\ RunsSound' /\ ShownSound'
  BY <1>5, <1>6 DEF RunPageInv, RunPageTypeOK, RunsSound, ShownSound
<1>8. Followed'
  BY <1>5 DEF Followed, Live
<1>9. ASSUME NEW k \in Polls PROVE LoopSound(k)'
  BY <1>5, <1>6 DEF RunPageInv, LoopSound, Live
<1>10. ShownNewer
  BY <1>6 DEF ShownNewer, RunPageInv, RunPageTypeOK, RunNow
<1> QED
  BY <1>7, <1>8, <1>9, <1>10 DEF RunPageInv

LEMMA PollAnsweredKeeps ==
  ASSUME RunPageInv, NEW l \in Polls, PollAnswered(l)
  PROVE  RunPageInv' /\ ShownNewer
<1>1. /\ UNCHANGED <<runs, shown, actionBusy, failed, observing, stop, abort>>
      /\ poll[l].pc = "asked"
  BY DEF PollAnswered
<1>2. /\ poll[l].current = shown /\ shown # Nowhere
      /\ l = abort /\ ~stop /\ actionBusy = "none"
  BY <1>1 DEF RunPageInv, LoopSound, Live
<1>3. /\ shown.id \in RunIds /\ runs[shown.id] \in RunNow /\ runs[shown.id].id = shown.id
      /\ runs[shown.id].status # "none" /\ shown.version <= runs[shown.id].version
      /\ runs[shown.id].version \in Int
  BY <1>2, NowhereIs DEF RunPageInv, ShownSound, RunsSound, RunPageTypeOK, RunNow
<1>4. PICK answer \in RunNow : answer = runs[shown.id]
  BY <1>3
<1>5. /\ poll' \in [Polls -> Loop] /\ poll'[l] = [pc |-> "body", current |-> answer]
      /\ \A k \in Polls \ {l} : poll'[k] = poll[k]
  <2>1. poll \in [Polls -> Loop] /\ poll[l] \in Loop
    BY DEF RunPageInv, RunPageTypeOK
  <2>2. poll' = [poll EXCEPT ![l] = [pc |-> "body", current |-> answer]]
    BY <1>2, <1>4 DEF PollAnswered
  <2>3. [pc |-> "body", current |-> answer] \in Loop
    BY DEF Loop
  <2> QED
    BY <2>1, <2>2, <2>3
<1>6. RunPageTypeOK' /\ RunsSound' /\ ShownSound'
  BY <1>1, <1>5 DEF RunPageInv, RunPageTypeOK, RunsSound, ShownSound
<1>7. Followed'
  BY <1>5 DEF Followed, Live
<1>8. ASSUME NEW k \in Polls PROVE LoopSound(k)'
  <2>1. CASE k = l
    BY <1>1, <1>2, <1>3, <1>4, <1>5, <2>1 DEF LoopSound, Live
  <2>2. CASE k # l
    BY <1>1, <1>5, <2>2 DEF RunPageInv, LoopSound, Live
  <2> QED
    BY <2>1, <2>2
<1>9. ShownNewer
  BY <1>1 DEF ShownNewer, RunPageInv, RunPageTypeOK, RunNow
<1> QED
  BY <1>6, <1>7, <1>8, <1>9 DEF RunPageInv

\* A loop that ends was the only one.
LEMMA LoopEnds ==
  ASSUME RunPageInv, NEW l \in Polls, Live(l), poll' = LoopAt(l, "ended"), Ends(l)
  PROVE  /\ poll' \in [Polls -> Loop] /\ abort' = "none" /\ observing' = FALSE
         /\ \A k \in Polls : poll'[k].pc \notin {"delay", "asked", "body"}
<1>1. PICK pc \in LoopPcs : pc = "ended"
  BY DEF LoopPcs
<1>2. PICK new : new = poll'
  OBVIOUS
<1>3. new = LoopAt(l, pc) /\ RunPageTypeOK
  BY <1>1, <1>2 DEF RunPageInv
<1>4. /\ new \in [Polls -> Loop] /\ new[l].pc = pc
      /\ \A k \in Polls \ {l} : new[k] = poll[k]
  BY <1>3, LoopMoves
<1>5. l = abort /\ \A k \in Polls \ {l} : ~Live(k)
  BY DEF RunPageInv, LoopSound
<1>6. \A k \in Polls \ {l} : poll[k].pc \notin {"delay", "asked", "body"}
  BY <1>5 DEF Live
<1>7. \A k \in Polls : new[k].pc \notin {"delay", "asked", "body"}
  BY <1>1, <1>4, <1>6
<1> QED
  BY <1>2, <1>4, <1>5, <1>7 DEF Ends

LEMMA PollThrowsKeeps ==
  ASSUME RunPageInv, NEW l \in Polls, PollThrows(l)
  PROVE  RunPageInv' /\ ShownNewer
<1>1. /\ poll' = LoopAt(l, "ended") /\ Ends(l) /\ Live(l)
      /\ UNCHANGED <<runs, shown, actionBusy, stop>> /\ failed' = TRUE
  BY DEF PollThrows, LoopAt, Live
<1>2. /\ poll' \in [Polls -> Loop] /\ abort' = "none" /\ observing' = FALSE
      /\ \A k \in Polls : poll'[k].pc \notin {"delay", "asked", "body"}
  BY <1>1, LoopEnds
<1>3. RunPageTypeOK' /\ RunsSound' /\ ShownSound' /\ Followed'
  BY <1>1, <1>2 DEF RunPageInv, RunPageTypeOK, RunsSound, ShownSound, Followed
<1>4. ShownNewer
  BY <1>1 DEF ShownNewer, RunPageInv, RunPageTypeOK, RunNow
<1> QED
  BY <1>2, <1>3, <1>4, NoLoopAlive

LEMMA ShowPolledKeeps ==
  ASSUME RunPageInv, NEW l \in Polls, ShowPolled(l)
  PROVE  RunPageInv' /\ ShownNewer
<1>1. Live(l) /\ poll[l].pc = "body" /\ UNCHANGED <<runs, actionBusy, failed, stop>>
  BY DEF ShowPolled, Live
<1>2. /\ l = abort /\ stop = FALSE /\ actionBusy = "none" /\ shown # Nowhere
      /\ poll[l].current.id = shown.id /\ poll[l].current.status # "none"
      /\ shown.version <= poll[l].current.version
      /\ poll[l].current.version <= runs[shown.id].version
  BY <1>1 DEF RunPageInv, LoopSound, RunPageTypeOK
<1>3. PICK answer \in RunNow : answer = poll[l].current
  BY DEF RunPageInv, RunPageTypeOK, Loop
<1>4. /\ shown.id \in RunIds /\ runs[shown.id].id # 0
  BY <1>2 DEF RunPageInv, ShownSound
<1>5. shown' = answer
  BY <1>2, <1>3 DEF ShowPolled
<1>6. RunsSound' /\ ShownSound' /\ shown' # Nowhere
  BY <1>1, <1>2, <1>3, <1>4, <1>5, NowhereIs DEF RunPageInv, RunsSound, ShownSound
<1>7. ShownNewer
  BY <1>2, <1>3, <1>5 DEF ShownNewer
<1>8. CASE Over(answer)
  <2>1. poll' = LoopAt(l, "ended") /\ Ends(l)
    BY <1>3, <1>8 DEF ShowPolled, LoopAt
  <2>2. /\ poll' \in [Polls -> Loop] /\ abort' = "none" /\ observing' = FALSE
        /\ \A k \in Polls : poll'[k].pc \notin {"delay", "asked", "body"}
    BY <1>1, <2>1, LoopEnds
  <2>3. RunPageTypeOK' /\ Followed'
    BY <1>1, <1>5, <1>8, <2>2 DEF RunPageInv, RunPageTypeOK, Followed, Over
  <2> QED
    BY <1>6, <1>7, <2>2, <2>3, NoLoopAlive
<1>9. CASE ~Over(answer)
  <2>1. PICK pc \in LoopPcs : pc = "delay"
    BY DEF LoopPcs
  <2>2. PICK new : new = poll'
    OBVIOUS
  <2>3. /\ new = LoopAt(l, pc) /\ RunPageTypeOK /\ UNCHANGED <<abort, observing>>
    <3>1. ~(stop \/ Over(poll[l].current))
      BY <1>2, <1>3, <1>9
    <3>2. poll' = [poll EXCEPT ![l].pc = "delay"] /\ UNCHANGED <<abort, observing>>
      BY <3>1 DEF ShowPolled
    <3> QED
      BY <3>2, <2>1, <2>2 DEF LoopAt, RunPageInv
  <2>4. /\ new \in [Polls -> Loop]
        /\ new[l].pc = pc /\ new[l].current = poll[l].current
        /\ \A k \in Polls \ {l} : new[k] = poll[k]
    BY <2>3, LoopMoves
  <2>5. /\ poll' \in [Polls -> Loop]
        /\ poll'[l].pc = "delay" /\ poll'[l].current = answer
        /\ \A k \in Polls \ {l} : poll'[k] = poll[k]
    BY <1>3, <2>1, <2>2, <2>4
  <2>6. RunPageTypeOK'
    BY <1>1, <1>5, <2>3, <2>5 DEF RunPageTypeOK
  <2>7. Followed'
    BY <2>5 DEF Followed, Live
  <2>8. \A k \in Polls \ {l} : poll'[k].pc \notin {"delay", "asked", "body"}
    BY <1>2, <2>5 DEF RunPageInv, LoopSound, Live
  <2>9. ASSUME NEW k \in Polls PROVE LoopSound(k)'
    BY <1>1, <1>2, <1>5, <1>6, <2>3, <2>5, <2>8 DEF LoopSound, Live
  <2> QED
    BY <1>6, <1>7, <2>6, <2>7, <2>9 DEF RunPageInv
<1> QED
  BY <1>8, <1>9

-----------------------------------------------------------------------------
(* Actions                                                                     *)

LEMMA ActKeeps ==
  ASSUME RunPageInv, NEW kind \in {"launch", "cancel", "retry", "import"}, Act(kind)
  PROVE  RunPageInv' /\ ShownNewer
<1>1. /\ actionBusy' = kind /\ poll' = Aborted(abort) /\ UNCHANGED <<runs, shown>>
      /\ abort' = "none" /\ stop' = TRUE /\ observing' = FALSE
  BY DEF Act, StopObserving
<1>2. failed' \in BOOLEAN
  BY DEF Act, AbortedReading
<1>3. PICK new : new = poll'
  OBVIOUS
<1>4. /\ new \in [Polls -> Loop]
      /\ \A l \in Polls : new[l].pc \notin {"delay", "asked", "body"}
  BY <1>1, <1>3, AbortEndsAll
<1>5. /\ poll' \in [Polls -> Loop]
      /\ \A l \in Polls : poll'[l].pc \notin {"delay", "asked", "body"}
  BY <1>3, <1>4
<1>6. RunPageTypeOK' /\ RunsSound' /\ ShownSound' /\ Followed'
  BY <1>1, <1>2, <1>5 DEF RunPageInv, RunPageTypeOK, RunsSound, ShownSound, Followed
<1>7. ShownNewer
  BY <1>1 DEF ShownNewer, RunPageInv, RunPageTypeOK, RunNow
<1> QED
  BY <1>5, <1>6, <1>7, NoLoopAlive

\* What the server does for the page keeps its runs sound, and its answer is not
\* older than what is shown.
RunsNoOlder ==
  \A k \in RunIds : runs[k].id # 0 =>
    runs'[k].id = runs[k].id /\ runs'[k].version >= runs[k].version

LEMMA OneRunServed ==
  ASSUME RunPageInv, NEW r \in RunIds, NEW answer \in RunNow,
         runs' = [runs EXCEPT ![r] = answer],
         answer.id = r, answer.status # "none",
         runs[r].id = 0 \/ answer.version >= runs[r].version
  PROVE  /\ runs' \in [RunIds -> RunNow] /\ RunsSound' /\ RunsNoOlder /\ runs'[r] = answer
         /\ shown.id = r => answer.version >= shown.version
<1>1. /\ runs \in [RunIds -> RunNow] /\ RunsSound
      /\ \A k \in RunIds : runs[k].version \in Int /\ runs[k].id \in Int
  BY DEF RunPageInv, RunPageTypeOK, RunNow
<1>2. /\ runs' \in [RunIds -> RunNow] /\ runs'[r] = answer
      /\ \A k \in RunIds \ {r} : runs'[k] = runs[k]
  BY <1>1
<1>3. RunsSound'
  BY <1>1, <1>2 DEF RunsSound
<1>4. RunsNoOlder
  <2>1. ASSUME NEW k \in RunIds \ {r}
        PROVE  runs'[k].id = runs[k].id /\ runs'[k].version >= runs[k].version
    BY <1>1, <1>2
  <2>2. runs[r].id # 0 => runs'[r].id = runs[r].id /\ runs'[r].version >= runs[r].version
    BY <1>1, <1>2, NowhereIs DEF RunsSound
  <2> QED
    BY <2>1, <2>2 DEF RunsNoOlder
<1>5. ASSUME shown.id = r PROVE answer.version >= shown.version
  <2>1. runs[r].id # 0 /\ shown.version <= runs[r].version
    BY <1>5, NowhereIs DEF RunPageInv, ShownSound
  <2>2. shown.version \in Int /\ answer.version \in Int
    BY DEF RunPageInv, RunPageTypeOK, RunNow
  <2> QED
    BY <1>1, <2>1, <2>2
<1> QED
  BY <1>2, <1>3, <1>4, <1>5

LEMMA ChangedIs ==
  ASSUME RunPageInv, NEW r \in RunIds, NEW status \in RunStatuses \ {"none"},
         runs[r].version < MaxVersion, NEW new, new = Changed(r, status)
  PROVE  /\ new \in RunNow /\ new.id = r /\ new.status = status
         /\ new.version >= runs[r].version
<1>1. /\ runs[r].version \in 0 .. MaxVersion /\ r \in 0 .. MaxRuns /\ MaxVersion \in Nat
  BY RunPageAssumption DEF RunPageInv, RunPageTypeOK, RunNow, RunIds
<1> QED
  BY <1>1 DEF Changed, RunNow

LEMMA ServedSound ==
  ASSUME RunPageInv, NEW r \in RunIds, NEW answer \in RunNow, Served(actionBusy, r, answer)
  PROVE  /\ runs' \in [RunIds -> RunNow] /\ RunsSound' /\ RunsNoOlder /\ runs'[r] = answer
         /\ answer.id = r /\ answer.status # "none" /\ actionBusy # "none"
         /\ shown.id = r => answer.version >= shown.version
         /\ actionBusy = "cancel" => Over(answer)
<1>1. CASE /\ actionBusy \in {"launch", "retry"} /\ r \in RunIds \ Made /\ answer = NewRun(r)
           /\ runs' = [runs EXCEPT ![r] = answer]
  <2>1. runs[r].id = 0 /\ answer.id = r /\ answer.status = "RUNNING"
    BY <1>1 DEF Made, NewRun
  <2>2. /\ runs' \in [RunIds -> RunNow] /\ RunsSound' /\ RunsNoOlder /\ runs'[r] = answer
        /\ shown.id = r => answer.version >= shown.version
    BY <1>1, <2>1, OneRunServed
  <2> QED
    BY <1>1, <2>1, <2>2
<1>2. CASE /\ actionBusy = "cancel" /\ r = shown.id
           /\ Over(runs[r]) /\ answer = runs[r] /\ UNCHANGED runs
  <2>1. /\ runs[r].id # 0 /\ shown.version <= runs[r].version
    BY <1>2, NowhereIs DEF RunPageInv, ShownSound
  <2>2. /\ runs[r].id = r /\ runs[r].status # "none"
        /\ runs[r].version \in Int /\ shown.version \in Int
    BY <2>1, NowhereIs DEF RunPageInv, RunsSound, RunPageTypeOK, RunNow
  <2>3. runs' \in [RunIds -> RunNow] /\ RunsSound'
    BY <1>2 DEF RunPageInv, RunPageTypeOK, RunsSound
  <2>4. RunsNoOlder
    BY <1>2 DEF RunsNoOlder, RunPageInv, RunPageTypeOK, RunNow
  <2> QED
    BY <1>2, <2>1, <2>2, <2>3, <2>4
<1>3. CASE /\ actionBusy = "cancel" /\ r = shown.id
           /\ runs[r].version < MaxVersion /\ answer = Changed(r, "CANCELLED")
           /\ runs' = [runs EXCEPT ![r] = answer]
  <2>1. PICK status \in RunStatuses \ {"none"} : status = "CANCELLED"
    BY DEF RunStatuses
  <2>2. /\ answer.id = r /\ answer.status = status /\ answer.version >= runs[r].version
    BY <1>3, <2>1, ChangedIs
  <2>3. /\ runs' \in [RunIds -> RunNow] /\ RunsSound' /\ RunsNoOlder /\ runs'[r] = answer
        /\ shown.id = r => answer.version >= shown.version
    BY <1>3, <2>2, OneRunServed
  <2> QED
    BY <1>3, <2>1, <2>2, <2>3 DEF Over
<1>4. CASE /\ actionBusy = "import" /\ r = shown.id
           /\ runs[r].version < MaxVersion /\ answer = Changed(r, "RUNNING")
           /\ runs' = [runs EXCEPT ![r] = answer]
  <2>1. PICK status \in RunStatuses \ {"none"} : status = "RUNNING"
    BY DEF RunStatuses
  <2>2. /\ answer.id = r /\ answer.status = status /\ answer.version >= runs[r].version
    BY <1>4, <2>1, ChangedIs
  <2>3. /\ runs' \in [RunIds -> RunNow] /\ RunsSound' /\ RunsNoOlder /\ runs'[r] = answer
        /\ shown.id = r => answer.version >= shown.version
    BY <1>4, <2>2, OneRunServed
  <2> QED
    BY <1>4, <2>1, <2>2, <2>3
<1> QED
  BY <1>1, <1>2, <1>3, <1>4 DEF Served

LEMMA ActedKeeps ==
  ASSUME RunPageInv, Acted
  PROVE  RunPageInv' /\ ShownNewer
<1>1. PICK r \in RunIds, answer \in RunNow :
        /\ Served(actionBusy, r, answer)
        /\ shown' = answer /\ actionBusy' = "none" /\ UNCHANGED failed
        /\ IF actionBusy = "cancel" THEN UNCHANGED <<observing, stop, abort, poll>>
           ELSE StartObserving(answer)
  BY DEF Acted
<1>2. /\ runs' \in [RunIds -> RunNow] /\ RunsSound' /\ runs'[r] = answer
      /\ answer.id = r /\ answer.status # "none" /\ actionBusy # "none"
      /\ shown.id = r => answer.version >= shown.version
      /\ actionBusy = "cancel" => Over(answer)
  BY <1>1, ServedSound
<1>3. ShownNewer
  BY <1>1, <1>2 DEF ShownNewer
<1>4. r # 0 /\ answer.version \in Int /\ failed' \in BOOLEAN
  BY <1>1, NowhereIs DEF RunNow, RunPageInv, RunPageTypeOK
<1>5. CASE actionBusy = "cancel"
  <2>1. UNCHANGED <<observing, stop, abort, poll>>
    BY <1>1, <1>5
  <2>2. \A l \in Polls : poll'[l].pc \notin {"delay", "asked", "body"}
    BY <1>2, <2>1 DEF RunPageInv, LoopSound, Live
  <2>3. RunPageTypeOK' /\ ShownSound' /\ Followed'
    BY <1>1, <1>2, <1>4, <1>5, <2>1
       DEF RunPageInv, RunPageTypeOK, ShownSound, Followed, Over
  <2> QED
    BY <1>2, <1>3, <2>2, <2>3, NoLoopAlive
<1>6. CASE actionBusy # "cancel"
  <2>1. StartObserving(answer)
    BY <1>1, <1>6
  <2>2. /\ answer.id \in RunIds
        /\ runs'[answer.id].id # 0 /\ answer.version <= runs'[answer.id].version
    BY <1>2, <1>4
  <2> QED
    BY <1>1, <1>2, <1>3, <1>4, <2>1, <2>2, ShownAndStarted
<1> QED
  BY <1>5, <1>6

LEMMA ActFailsKeeps ==
  ASSUME RunPageInv, ActFails
  PROVE  RunPageInv' /\ ShownNewer
<1>1. /\ actionBusy # "none" /\ actionBusy' = "none" /\ failed' = TRUE
      /\ UNCHANGED <<shown, observing, stop, abort, poll>>
  BY DEF ActFails
<1>2. runs' \in [RunIds -> RunNow] /\ RunsSound' /\ RunsNoOlder
  <2>1. CASE UNCHANGED runs
    BY <2>1 DEF RunPageInv, RunPageTypeOK, RunsSound, RunsNoOlder, RunNow
  <2>2. CASE \E r \in RunIds, answer \in RunNow : Served(actionBusy, r, answer)
    BY <2>2, ServedSound
  <2> QED
    BY <2>1, <2>2 DEF ActFails
<1>3. \A l \in Polls : poll'[l].pc \notin {"delay", "asked", "body"}
  BY <1>1 DEF RunPageInv, LoopSound, Live
<1>4. RunPageTypeOK' /\ Followed'
  BY <1>1, <1>2 DEF RunPageInv, RunPageTypeOK, Followed
<1>5. ShownSound'
  <2>1. CASE shown = Nowhere
    BY <1>1, <2>1 DEF ShownSound
  <2>2. CASE shown # Nowhere
    <3>1. /\ shown.id \in RunIds /\ shown.status # "none"
          /\ runs[shown.id].id # 0 /\ shown.version <= runs[shown.id].version
      BY <2>2 DEF RunPageInv, ShownSound
    <3>2. /\ shown.version \in Int /\ runs[shown.id].version \in Int
          /\ runs'[shown.id].version \in Int
      BY <1>2, <3>1 DEF RunPageInv, RunPageTypeOK, RunNow
    <3> QED
      BY <1>1, <1>2, <3>1, <3>2, NowhereIs DEF ShownSound, RunsNoOlder
  <2> QED
    BY <2>1, <2>2
<1>6. ShownNewer
  BY <1>1 DEF ShownNewer, RunPageInv, RunPageTypeOK, RunNow
<1> QED
  BY <1>2, <1>3, <1>4, <1>5, <1>6, NoLoopAlive

LEMMA PageIdles ==
  ASSUME RunPageInv, UNCHANGED runPageVars
  PROVE  RunPageInv'
BY DEF runPageVars, RunPageInv, RunPageTypeOK, RunsSound, ShownSound, Followed, LoopSound, Live, Over

LEMMA RunPageStep ==
  ASSUME RunPageInv, RunPageNext
  PROVE  RunPageInv' /\ ShownNewer
<1>1. CASE \E r \in RunIds : RunMoves(r) \/ OpenRun(r)
  BY <1>1, RunMovesKeeps, OpenRunKeeps
<1>2. CASE \E l \in Polls : Poll(l) \/ PollAnswered(l) \/ PollThrows(l) \/ ShowPolled(l)
  BY <1>2, PollKeeps, PollAnsweredKeeps, PollThrowsKeeps, ShowPolledKeeps
<1>3. CASE \E kind \in {"launch", "cancel", "retry", "import"} : Act(kind)
  BY <1>3, ActKeeps
<1>4. CASE Acted
  BY <1>4, ActedKeeps
<1>5. CASE ActFails
  BY <1>5, ActFailsKeeps
<1> QED
  BY <1>1, <1>2, <1>3, <1>4, <1>5 DEF RunPageNext

\* A page that shows a run which is not over follows it, is asking for its change, or
\* says that something failed; and never shows an older state after a newer one, nor
\* another run unasked (scenario-launcher.tsx: observe, stopObserving).
THEOREM RunPagesFollow == RunPageSpec => PageFollowsRun
<1>1. RunPageInit => RunPageInv
  BY PageBegins
<1>2. RunPageInv /\ [RunPageNext]_runPageVars => RunPageInv'
  BY RunPageStep, PageIdles
<1>3. ASSUME RunPageInv, RunPageNext
      PROVE  /\ Over(shown) \/ actionBusy # "none" \/ failed \/ \E l \in Polls : Follows(l)
             /\ shown'.id = shown.id => shown'.version >= shown.version
             /\ shown'.id # shown.id => shown = Nowhere \/ actionBusy # "none"
  <2>1. \A l \in Polls : Live(l) => Follows(l)
    BY <1>3 DEF RunPageInv, LoopSound, Live, Follows
  <2>2. Over(shown) \/ actionBusy # "none" \/ failed \/ \E l \in Polls : Follows(l)
    BY <1>3, <2>1 DEF RunPageInv, Followed
  <2>3. ShownNewer
    BY <1>3, RunPageStep
  <2> QED
    BY <2>2, <2>3 DEF ShownNewer
<1>4. RunPageInv /\ [RunPageNext]_runPageVars =>
        [/\ Over(shown) \/ actionBusy # "none" \/ failed \/ \E l \in Polls : Follows(l)
         /\ shown'.id = shown.id => shown'.version >= shown.version
         /\ shown'.id # shown.id => shown = Nowhere \/ actionBusy # "none"]_runPageVars
  BY <1>3
<1> QED
  BY <1>1, <1>2, <1>4, PTL DEF RunPageSpec, PageFollowsRun

-----------------------------------------------------------------------------
(* The thread of the universal chat.  What a request has found rests on what   *)
(* it read of the thread, which only grows while the request is at work.       *)

\* What is said about the topic t by a request p that read the answers up to
\* its seen, if the message did not name it.
Continues(p, t) ==
  /\ t \in Materials \cup post[p].granted
  /\ \E i \in UniversalAnswers :
       /\ i <= post[p].seen /\ thread[i].topic = t
       /\ \A j \in UniversalAnswers : i < j => j > post[p].seen
Unsaid(p) == post[p].found.topic # Nothing /\ post[p].names = Nothing
PostSound(p) ==
  PostAt(p, "writing") =>
    /\ post[p].seen <= Len(thread)
    /\ post[p].found.kind \in Universal /\ Unsaid(p) => Continues(p, post[p].found.topic)

\* An answer in the thread is of a request that is over.
SavedByAnswered == \A a \in 1 .. Len(thread) : post[thread[a].post].pc = "answered"

ThreadInv ==
  /\ ChatTypeOK
  /\ SavedByAnswered
  /\ \A p \in Posts : PostSound(p)
  /\ FollowUpContinues

LEMMA ThreadBegins == ChatInit => ThreadInv
<1> SUFFICES ASSUME ChatInit PROVE ThreadInv
  OBVIOUS
<1>1. NoPost \in Post
  BY DEF NoPost, Post, Asks, Found, Kinds, Universal
<1>2. ChatTypeOK
  BY <1>1 DEF ChatInit, ChatTypeOK
<1>3. DOMAIN thread = {}
  BY DEF ChatInit
<1>4. \A p \in Posts : PostSound(p)
  BY DEF ChatInit, PostSound, PostAt, NoPost
<1> QED
  BY <1>2, <1>3, <1>4 DEF ThreadInv, FollowUpContinues, UniversalAnswers, SavedByAnswered,
                          ChatInit

\* The answers are records, in a sequence.
LEMMA AnswersAre ==
  ASSUME ThreadInv
  PROVE  /\ Len(thread) \in Nat /\ DOMAIN thread = 1 .. Len(thread)
         /\ \A a \in 1 .. Len(thread) : thread[a] \in Answer /\ thread[a].post \in Posts
         /\ UniversalAnswers \subseteq 1 .. Len(thread)
<1>1. thread \in Seq(Answer)
  BY DEF ThreadInv, ChatTypeOK
<1>2. \A a \in 1 .. Len(thread) : thread[a] \in Answer
  BY <1>1
<1> QED
  BY <1>1, <1>2 DEF Answer, UniversalAnswers

\* A step of one request that writes nothing leaves the answers alone.
LEMMA NothingWritten ==
  ASSUME ThreadInv, NEW p \in Posts, NEW new \in Post,
         post' = [post EXCEPT ![p] = new], UNCHANGED thread, readable' \subseteq Projects,
         ~PostAt(p, "answered"), PostSound(p)'
  PROVE  ThreadInv'
<1>1. ChatTypeOK'
  BY DEF ThreadInv, ChatTypeOK
<1>2. /\ post'[p] = new
      /\ \A q \in Posts \ {p} : post'[q] = post[q]
  BY DEF ThreadInv, ChatTypeOK
<1>3. \A a \in 1 .. Len(thread) : thread[a].post \in Posts \ {p}
  BY AnswersAre DEF ThreadInv, SavedByAnswered, PostAt
<1>4. UniversalAnswers' = UniversalAnswers /\ UniversalAnswers \subseteq 1 .. Len(thread)
  BY AnswersAre DEF UniversalAnswers
<1>5. SavedByAnswered'
  BY <1>2, <1>3 DEF ThreadInv, SavedByAnswered
<1>6. ASSUME NEW q \in Posts PROVE PostSound(q)'
  <2>1. CASE q = p
    BY <2>1
  <2>2. CASE q # p
    BY <1>2, <1>4, <2>2 DEF ThreadInv, PostSound, PostAt, Unsaid, Continues
  <2> QED
    BY <2>1, <2>2
<1>7. FollowUpContinues'
  BY <1>2, <1>3, <1>4 DEF ThreadInv, FollowUpContinues
<1> QED
  BY <1>1, <1>5, <1>6, <1>7 DEF ThreadInv

LEMMA AskKeeps ==
  ASSUME ThreadInv, NEW p \in Posts, Ask(p)
  PROVE  ThreadInv'
<1>1. PICK asks \in Asks, names \in Topics \cup {Nothing} :
        post' = [post EXCEPT ![p] =
                   [pc |-> "asked", asks |-> asks, names |-> names, granted |-> readable,
                    seen |-> post[p].seen, found |-> post[p].found]]
  BY DEF Ask
<1>2. post \in [Posts -> Post] /\ readable \subseteq Projects
  BY DEF ThreadInv, ChatTypeOK
<1>3. PICK new : new = [pc |-> "asked", asks |-> asks, names |-> names, granted |-> readable,
                        seen |-> post[p].seen, found |-> post[p].found]
  OBVIOUS
<1>4. post' = [post EXCEPT ![p] = new] /\ new \in Post
  <2>1. post[p] \in Post
    BY <1>2
  <2>2. new \in Post
    BY <1>2, <1>3, <2>1 DEF Post
  <2> QED
    BY <1>1, <1>3, <2>2
<1>5. PostSound(p)'
  BY <1>2, <1>3, <1>4 DEF PostSound, PostAt
<1> QED
  BY <1>2, <1>4, <1>5, NothingWritten DEF Ask, PostAt

LEMMA FailKeeps ==
  ASSUME ThreadInv, NEW p \in Posts, Fail(p)
  PROVE  ThreadInv'
<1>1. PICK new : new = [NoPost EXCEPT !.pc = "failed"]
  OBVIOUS
<1>2. post' = [post EXCEPT ![p] = new]
  BY <1>1 DEF Fail, Breaks
<1>3. new \in Post /\ new.pc = "failed"
  BY <1>1 DEF NoPost, Post, Asks, Found, Kinds, Universal
<1>4. post \in [Posts -> Post] /\ readable \subseteq Projects
  BY DEF ThreadInv, ChatTypeOK
<1>5. PostSound(p)'
  BY <1>2, <1>3, <1>4 DEF PostSound, PostAt
<1> QED
  BY <1>2, <1>3, <1>4, <1>5, NothingWritten DEF Fail, PostAt

\* What a request has found is sound, if what it found is when it is found.
LEMMA FindsKeeps ==
  ASSUME ThreadInv, NEW p \in Posts, PostAt(p, "asked"), UNCHANGED <<thread, readable>>,
         NEW kind \in Kinds, NEW topic \in Topics \cup {Nothing},
         NEW found, found = Found(kind, topic), Finds(p, found),
         kind \in Universal /\ topic # Nothing /\ post[p].names = Nothing =>
           /\ topic \in Materials \cup post[p].granted
           /\ \E i \in LastUniversal : thread[i].topic = topic
  PROVE  ThreadInv'
<1>1. /\ post \in [Posts -> Post] /\ readable \subseteq Projects /\ thread \in Seq(Answer)
      /\ found \in [kind : Kinds, topic : Topics \cup {Nothing}]
      /\ found.kind = kind /\ found.topic = topic
      /\ Len(thread) \in Nat /\ DOMAIN thread = 1 .. Len(thread)
  BY DEF ThreadInv, ChatTypeOK, Found
<1>2. PICK new : new = [pc |-> "writing", asks |-> "other", names |-> post[p].names,
                        granted |-> post[p].granted, seen |-> Len(thread), found |-> found]
  OBVIOUS
<1>3. post' = [post EXCEPT ![p] = new] /\ new \in Post
  <2>1. post[p] \in Post
    BY <1>1
  <2>2. new \in Post
    BY <1>1, <1>2, <2>1 DEF Post, Asks
  <2> QED
    BY <1>2, <2>2 DEF Finds
<1>4. post'[p] = new
  BY <1>1, <1>3
<1>5. UniversalAnswers' = UniversalAnswers /\ UniversalAnswers \subseteq DOMAIN thread
  BY DEF UniversalAnswers
<1>6. ASSUME post'[p].found.kind \in Universal, Unsaid(p)'
      PROVE  Continues(p, topic)'
  <2>1. /\ topic \in Materials \cup post[p].granted
        /\ \E i \in LastUniversal : thread[i].topic = topic
    BY <1>1, <1>2, <1>4, <1>6 DEF Unsaid
  <2>2. PICK i \in LastUniversal : thread[i].topic = topic
    BY <2>1
  <2>3. i \in UniversalAnswers /\ i <= Len(thread) /\ \A j \in UniversalAnswers : j <= i
    BY <1>1, <1>5, <2>2 DEF LastUniversal
  <2>4. \A j \in UniversalAnswers : i \in Int /\ j \in Int
    BY <1>1, <1>5, <2>3
  <2>5. \A j \in UniversalAnswers : i < j => j > Len(thread)
    BY <2>3, <2>4
  <2>6. /\ topic \in Materials \cup post'[p].granted
        /\ post'[p].seen = Len(thread) /\ thread' = thread
    BY <1>2, <1>4, <2>1
  <2> QED
    BY <1>5, <2>2, <2>3, <2>5, <2>6 DEF Continues
<1>7. PostSound(p)'
  <2>1. post'[p].seen <= Len(thread') /\ post'[p].found.topic = topic
    BY <1>1, <1>2, <1>4
  <2> QED
    BY <1>6, <2>1 DEF PostSound
<1> QED
  BY <1>1, <1>3, <1>7, NothingWritten DEF PostAt

LEMMA AnswerElsewhereKeeps ==
  ASSUME ThreadInv, NEW p \in Posts, AnswerElsewhere(p)
  PROVE  ThreadInv'
<1>1. PICK kind \in Kinds, topic \in Topics \cup {Nothing} :
        kind = "otherwise" /\ topic = Nothing
  BY DEF Kinds
<1>2. PICK found : found = Found(kind, topic)
  OBVIOUS
<1>3. Finds(p, found) /\ PostAt(p, "asked") /\ UNCHANGED <<thread, readable>>
  BY <1>1, <1>2 DEF AnswerElsewhere
<1> QED
  BY <1>1, <1>2, <1>3, FindsKeeps DEF Universal

\* What a message is resolved to: it names it, or the memory has it, or it is nothing.
LEMMA ResolvedIs ==
  ASSUME ThreadInv, NEW p \in Posts, NEW memory \in Memories
  PROVE  \E kind \in Kinds, topic \in Topics \cup {Nothing} :
           /\ Resolved(p, memory) = Found(kind, topic)
           /\ topic # Nothing =>
                topic = post[p].names \/ (topic = memory /\ StillThere(p, memory))
<1>1. post[p] \in Post /\ post[p].granted \subseteq Projects
  BY DEF ThreadInv, ChatTypeOK, Post
<1>2. "answer" \in Kinds /\ "clarification" \in Kinds /\ "otherwise" \in Kinds
  BY DEF Kinds, Universal
<1>3. CASE post[p].asks = "portfolio"
  <2>1. Resolved(p, memory) = Found("answer", Nothing)
    BY <1>3 DEF Resolved
  <2> QED
    BY <1>2, <2>1
<1>4. CASE post[p].asks # "portfolio" /\ post[p].names \in Materials \cup post[p].granted
  <2>1. Resolved(p, memory) = Found("answer", post[p].names)
    BY <1>4 DEF Resolved
  <2>2. post[p].names \in Topics
    BY <1>1, <1>4 DEF Topics
  <2> QED
    BY <1>2, <2>1, <2>2
<1>5. CASE /\ post[p].asks # "portfolio" /\ post[p].names \notin Materials \cup post[p].granted
           /\ StillThere(p, memory)
  <2>1. Resolved(p, memory) = Found("answer", memory)
    BY <1>5 DEF Resolved, FollowsUp
  <2>2. memory \in Topics
    BY <1>5 DEF StillThere, Topics
  <2> QED
    BY <1>2, <1>5, <2>1, <2>2
<1>6. CASE /\ post[p].asks # "portfolio" /\ post[p].names \notin Materials \cup post[p].granted
           /\ ~StillThere(p, memory)
  <2>1. Resolved(p, memory) \in {Found("clarification", Nothing), Found("otherwise", Nothing)}
    BY <1>6 DEF Resolved, FollowsUp
  <2> QED
    BY <1>2, <2>1
<1> QED
  BY <1>3, <1>4, <1>5, <1>6

LEMMA RespondKeeps ==
  ASSUME ThreadInv, NEW p \in Posts, Respond(p)
  PROVE  ThreadInv'
<1>1. PostAt(p, "asked") /\ UNCHANGED <<thread, readable>>
  BY DEF Respond
<1>2. ASSUME NEW memory \in Memories, Finds(p, Resolved(p, memory)) PROVE ThreadInv'
  <2>1. PICK kind \in Kinds, topic \in Topics \cup {Nothing} :
          /\ Resolved(p, memory) = Found(kind, topic)
          /\ topic # Nothing =>
               topic = post[p].names \/ (topic = memory /\ StillThere(p, memory))
    BY ResolvedIs
  <2>2. PICK found : found = Found(kind, topic)
    OBVIOUS
  <2>3. Finds(p, found)
    BY <1>2, <2>1, <2>2
  <2>4. ASSUME topic # Nothing, post[p].names = Nothing
        PROVE  /\ topic \in Materials \cup post[p].granted
               /\ \E i \in LastUniversal : thread[i].topic = topic
    <3>1. topic = memory /\ StillThere(p, memory)
      BY <2>1, <2>4
    <3>2. topic \in Materials \cup post[p].granted
      BY <3>1 DEF StillThere
    <3>3. \E i \in LastUniversal : thread[i].topic = topic
      BY <2>4, <3>1 DEF Memories, Recalled
    <3> QED
      BY <3>2, <3>3
  <2> QED
    BY <1>1, <2>2, <2>3, <2>4, FindsKeeps
<1>3. ASSUME Finds(p, Found("clarification", Nothing)) PROVE ThreadInv'
  <2>1. PICK kind \in Kinds, topic \in Topics \cup {Nothing} :
          kind = "clarification" /\ topic = Nothing
    BY DEF Kinds, Universal
  <2>2. PICK found : found = Found(kind, topic)
    OBVIOUS
  <2>3. Finds(p, found)
    BY <1>3, <2>1, <2>2
  <2> QED
    BY <1>1, <2>1, <2>2, <2>3, FindsKeeps
<1> QED
  BY <1>2, <1>3 DEF Respond

LEMMA SaveAnswerKeeps ==
  ASSUME ThreadInv, NEW p \in Posts, SaveAnswer(p)
  PROVE  ThreadInv'
<1>1. /\ post \in [Posts -> Post] /\ readable \subseteq Projects /\ thread \in Seq(Answer)
      /\ Len(thread) \in Nat /\ DOMAIN thread = 1 .. Len(thread)
  BY DEF ThreadInv, ChatTypeOK
<1>2. PICK answer : answer = [post |-> p, kind |-> post[p].found.kind,
                              topic |-> post[p].found.topic]
  OBVIOUS
<1>3. PICK new : new = [pc |-> "answered", asks |-> post[p].asks, names |-> post[p].names,
                        granted |-> post[p].granted, seen |-> post[p].seen,
                        found |-> NoPost.found]
  OBVIOUS
<1>4. post[p] \in Post /\ NoPost.found \in [kind : Kinds, topic : Topics \cup {Nothing}]
  BY <1>1 DEF NoPost, Found, Kinds
<1>5. /\ post' = [post EXCEPT ![p] = new] /\ new \in Post
      /\ UNCHANGED readable /\ PostAt(p, "writing")
  <2>1. new \in Post
    BY <1>3, <1>4 DEF Post
  <2> QED
    BY <1>3, <2>1 DEF SaveAnswer
<1>6. answer \in Answer /\ answer.post = p
  BY <1>2, <1>4 DEF Answer, Post
<1>7. thread' = Append(thread, answer)
  BY <1>2 DEF SaveAnswer
<1>8. /\ thread' \in Seq(Answer) /\ DOMAIN thread' = 1 .. Len(thread) + 1
      /\ Len(thread') = Len(thread) + 1
      /\ thread'[Len(thread) + 1] = answer
      /\ \A i \in 1 .. Len(thread) : thread'[i] = thread[i]
  BY <1>1, <1>6, <1>7
<1>9. /\ post'[p] = new
      /\ \A q \in Posts \ {p} : post'[q] = post[q]
  BY <1>1, <1>5
<1>10. ChatTypeOK'
  BY <1>1, <1>5, <1>8 DEF ChatTypeOK
<1>11. \A a \in 1 .. Len(thread) : thread[a].post \in Posts \ {p}
  BY <1>5, AnswersAre DEF ThreadInv, SavedByAnswered, PostAt
<1>12. SavedByAnswered'
  <2>1. \A a \in 1 .. Len(thread) : post'[thread'[a].post].pc = "answered"
    BY <1>1, <1>8, <1>9, <1>11 DEF ThreadInv, SavedByAnswered
  <2>2. post'[thread'[Len(thread) + 1].post].pc = "answered"
    BY <1>3, <1>6, <1>8, <1>9
  <2> QED
    BY <1>1, <1>8, <2>1, <2>2 DEF SavedByAnswered
\* Of the universal answers there was, nothing changes.
<1>13. /\ UniversalAnswers \subseteq 1 .. Len(thread)
       /\ UniversalAnswers \subseteq UniversalAnswers'
       /\ \A j \in UniversalAnswers' : j \in UniversalAnswers \/ j = Len(thread) + 1
  BY <1>1, <1>8 DEF UniversalAnswers
<1>14. ASSUME NEW q \in Posts PROVE PostSound(q)'
  <2>1. CASE q = p
    BY <1>3, <1>9, <2>1 DEF PostSound, PostAt
  <2>2. CASE q # p /\ PostAt(q, "writing")
    <3>1. post[q] \in Post /\ post[q].seen \in Nat /\ post[q].seen <= Len(thread)
      BY <1>1, <2>2 DEF ThreadInv, PostSound, Post
    <3>2. post'[q] = post[q]
      BY <1>9, <2>2
    <3>3. ASSUME post[q].found.kind \in Universal, Unsaid(q)
          PROVE  Continues(q, post[q].found.topic)'
      <4>1. Continues(q, post[q].found.topic)
        BY <2>2, <3>3 DEF ThreadInv, PostSound
      <4>2. PICK i \in UniversalAnswers :
              /\ i <= post[q].seen /\ thread[i].topic = post[q].found.topic
              /\ \A j \in UniversalAnswers : i < j => j > post[q].seen
        BY <4>1 DEF Continues
      <4>3. i \in UniversalAnswers' /\ thread'[i].topic = post[q].found.topic
        BY <1>8, <1>13, <4>2
      <4>4. \A j \in UniversalAnswers' : i < j => j > post[q].seen
        BY <1>1, <1>13, <3>1, <4>2
      <4> QED
        BY <3>2, <4>1, <4>2, <4>3, <4>4 DEF Continues
    <3> QED
      BY <1>1, <1>8, <3>1, <3>2, <3>3 DEF PostSound, Unsaid
  <2>3. CASE q # p /\ ~PostAt(q, "writing")
    BY <1>9, <2>3 DEF PostSound, PostAt
  <2> QED
    BY <2>1, <2>2, <2>3
<1>15. FollowUpContinues'
  <2> SUFFICES ASSUME NEW a \in UniversalAnswers', thread'[a].topic # Nothing,
                      post'[thread'[a].post].names = Nothing
               PROVE  /\ thread'[a].topic \in Materials \cup post'[thread'[a].post].granted
                      /\ \E i \in UniversalAnswers' :
                           /\ i < a /\ thread'[i].topic = thread'[a].topic
                           /\ \A j \in UniversalAnswers' :
                                i < j /\ j < a => j > post'[thread'[a].post].seen
    BY DEF FollowUpContinues
  <2>1. CASE a \in UniversalAnswers
    <3>1. a \in 1 .. Len(thread) /\ thread'[a] = thread[a]
      BY <1>8, <1>13, <2>1
    <3>2. PICK q \in Posts : q = thread[a].post /\ post'[q] = post[q]
      BY <1>1, <1>9, <1>11, <3>1
    <3>3. /\ thread[a].topic \in Materials \cup post[q].granted
          /\ \E i \in UniversalAnswers :
               /\ i < a /\ thread[i].topic = thread[a].topic
               /\ \A j \in UniversalAnswers : i < j /\ j < a => j > post[q].seen
      BY <2>1, <3>1, <3>2 DEF ThreadInv, FollowUpContinues
    <3>4. PICK i \in UniversalAnswers :
            /\ i < a /\ thread[i].topic = thread[a].topic
            /\ \A j \in UniversalAnswers : i < j /\ j < a => j > post[q].seen
      BY <3>3
    <3>5. i \in UniversalAnswers' /\ thread'[i].topic = thread'[a].topic
      BY <1>8, <1>13, <3>1, <3>4
    <3>6. \A j \in UniversalAnswers' : j < a => j \in UniversalAnswers
      BY <1>1, <1>13, <3>1
    <3>7. \A j \in UniversalAnswers' : i < j /\ j < a => j > post'[q].seen
      BY <3>2, <3>4, <3>6
    <3> QED
      BY <3>1, <3>2, <3>3, <3>4, <3>5, <3>7
  <2>2. CASE a = Len(thread) + 1
    <3>1. /\ thread'[a] = answer /\ thread'[a].post = p
          /\ thread'[a].topic = post[p].found.topic /\ thread'[a].kind = post[p].found.kind
      BY <1>2, <1>6, <1>8, <2>2
    <3>2. /\ post'[p].names = post[p].names /\ post'[p].granted = post[p].granted
          /\ post'[p].seen = post[p].seen
      BY <1>3, <1>9
    <3>3. post[p].found.kind \in Universal
      BY <3>1 DEF UniversalAnswers
    <3>4. Unsaid(p)
      BY <3>1, <3>2 DEF Unsaid
    <3>5. Continues(p, post[p].found.topic) /\ post[p].seen <= Len(thread)
      BY <1>5, <3>3, <3>4 DEF ThreadInv, PostSound
    <3>6. PICK i \in UniversalAnswers :
            /\ i <= post[p].seen /\ thread[i].topic = post[p].found.topic
            /\ \A j \in UniversalAnswers : i < j => j > post[p].seen
      BY <3>5 DEF Continues
    <3>7. i \in UniversalAnswers' /\ i < a /\ thread'[i].topic = thread'[a].topic
      BY <1>1, <1>8, <1>13, <2>2, <3>1, <3>6
    <3>8. \A j \in UniversalAnswers' : j < a => j \in UniversalAnswers
      BY <1>1, <1>13, <2>2
    <3>9. \A j \in UniversalAnswers' : i < j /\ j < a => j > post'[p].seen
      BY <3>2, <3>6, <3>8
    <3> QED
      BY <3>1, <3>2, <3>5, <3>7, <3>9 DEF Continues
  <2> QED
    BY <1>13, <2>1, <2>2
<1> QED
  BY <1>10, <1>12, <1>14, <1>15 DEF ThreadInv

LEMMA OthersKeep ==
  ASSUME ThreadInv, UNCHANGED <<thread, post>>, readable' \subseteq Projects
  PROVE  ThreadInv'
<1>1. UniversalAnswers' = UniversalAnswers
  BY DEF UniversalAnswers
<1>2. ChatTypeOK' /\ FollowUpContinues'
  BY <1>1 DEF ThreadInv, ChatTypeOK, FollowUpContinues
<1>3. \A p \in Posts : PostSound(p)'
  BY <1>1 DEF ThreadInv, PostSound, PostAt, Unsaid, Continues
<1> QED
  BY <1>2, <1>3 DEF ThreadInv, SavedByAnswered

LEMMA ThreadStep ==
  ASSUME ThreadInv, [ChatNext]_chatVars
  PROVE  ThreadInv'
<1>1. CASE \E p \in Posts : Ask(p) \/ AnswerElsewhere(p) \/ Respond(p) \/ SaveAnswer(p) \/ Fail(p)
  BY <1>1, AskKeeps, AnswerElsewhereKeeps, RespondKeeps, SaveAnswerKeeps, FailKeeps
<1>2. CASE \E q \in Projects : ChangeAccess(q)
  BY <1>2, OthersKeep DEF ChangeAccess, ThreadInv, ChatTypeOK
<1>3. CASE UNCHANGED chatVars
  BY <1>3, OthersKeep DEF chatVars, ThreadInv, ChatTypeOK
<1> QED
  BY <1>1, <1>2, <1>3 DEF ChatNext

\* A question that leaves unsaid what it is about is answered about what was last
\* talked about when it was read, and never about a project its user may not read,
\* however many requests overlap in the thread and whatever becomes of the user's
\* access (universal-chat-memory.ts, resolveProject in universal-chat-service.ts).
THEOREM FollowUpsContinue == ChatSpec => []FollowUpContinues
<1>1. ThreadInv => FollowUpContinues
  BY DEF ThreadInv
<1> QED
  BY ThreadBegins, ThreadStep, <1>1, PTL DEF ChatSpec

-----------------------------------------------------------------------------
(* The answer of AgentService.  What is learnt is only ever added to, so that  *)
(* what a step relied on is still among the facts when the answer is given.    *)

TurnFields == {"pc", "intents", "names", "facts", "failed", "found"}
IsFact(f) == f.source \in Sources /\ f.says \in Says[f.source][1] \cup Says[f.source][2]
            /\ f = Fact(f.source, f.says)
SomeFrom(s) == \E f \in turn.facts : f.source = s

\* Where SAP was asked for its state; where a current version was found.
AfterSap == {"search", "checkStock", "coverage"}
AfterFound == {"check", "checkStock", "responsibility", "analogue", "coverage", "rulesOnly"}

FactsSound ==
  /\ DOMAIN turn = TurnFields
  /\ \A f \in turn.facts : IsFact(f)
  /\ turn.failed # {} => SomeFrom("ERROR")
  /\ Fact("SAP_state", "UNAVAILABLE") \in turn.facts => SomeFrom("ERROR")
  /\ turn.pc \in AfterSap \/ SomeFrom("stock") \/ SomeFrom("check") => SomeFrom("SAP_state")
  /\ turn.pc \in AfterFound \/ (\E s \in {"check", "responsibility", "analogue"} : SomeFrom(s))
       => turn.found = "current"

AnswerInv == FactsSound /\ AnswerGrounded

LEMMA AnswerBegins == AnswerInit => AnswerInv
<1> SUFFICES ASSUME AnswerInit PROVE AnswerInv
  OBVIOUS
<1>1. /\ DOMAIN turn = TurnFields /\ turn.facts = {} /\ turn.failed = {}
      /\ turn.pc = "received"
  BY DEF AnswerInit, NoTurn, TurnFields
<1> QED
  BY <1>1 DEF AnswerInv, FactsSound, SomeFrom, AfterSap, AfterFound, AnswerGrounded, TurnAt

\* What the sources that matter may say.
LEMMA SaysIs ==
  /\ Sources = {"ERROR", "APPIUS_state", "SAP_state", "specifications", "version", "positions",
                "check", "stock", "item", "search", "substitutes", "bom", "responsibility",
                "analogue", "run", "result", "summary"}
  /\ Says["ERROR"] = <<{}, Systems>>
  /\ Says["APPIUS_state"] = <<AppiusStates, {}>>
  /\ Says["SAP_state"] = <<{"AVAILABLE", "UNAVAILABLE"}, {"STALE"}>>
  /\ Says["specifications"] = <<{"listed"}, {}>>
  /\ Says["version"] = <<{"current"}, {"superseded"}>>
  /\ Says["positions"] = <<{"none", "some"}, {}>>
  /\ Says["item"] = <<{"none", "enough"}, {"short"}>>
  /\ Says["search"] = <<{"none", "some"}, {}>>
  /\ Says["analogue"] = <<{"covered"}, {"unfounded", "uncovered", "partial", "deviating"}>>
BY DEF Sources, Says

\* A step that learns the facts new, in order.
Learns(pc, new) ==
  /\ DOMAIN turn' = TurnFields
  /\ turn'.pc = pc /\ turn'.facts = turn.facts \cup new
  /\ turn'.failed = turn.failed /\ turn'.found = turn.found
FreshFacts(pc, new) ==
  /\ pc # "answered"
  /\ \A f \in new : IsFact(f)
  /\ Fact("SAP_state", "UNAVAILABLE") \in new => \E f \in new : f.source = "ERROR"
  /\ pc \in AfterSap \/ (\E f \in new : f.source \in {"stock", "check"})
       => \E f \in turn.facts \cup new : f.source = "SAP_state"
  /\ pc \in AfterFound \/ (\E f \in new : f.source \in {"check", "responsibility", "analogue"})
       => turn.found = "current"

LEMMA GoesIs ==
  ASSUME FactsSound, NEW pc, Goes(pc)
  PROVE  Learns(pc, {})
BY DEF Goes, Learns, TurnFields, FactsSound

LEMMA ToldIs ==
  ASSUME FactsSound, NEW pc, NEW fact, Told(fact, pc)
  PROVE  Learns(pc, {fact})
BY DEF Told, Learns, TurnFields, FactsSound

LEMMA LearnsKeeps ==
  ASSUME FactsSound, NEW pc, NEW new, Learns(pc, new), FreshFacts(pc, new)
  PROVE  AnswerInv'
<1>1. \A s : SomeFrom(s)' <=> \E f \in turn.facts \cup new : f.source = s
  BY DEF Learns, SomeFrom
<1>2. \A f \in turn'.facts : IsFact(f)
  BY DEF Learns, FreshFacts, FactsSound
<1>3. turn'.failed # {} => SomeFrom("ERROR")'
  BY <1>1 DEF Learns, FactsSound, SomeFrom
<1>4. Fact("SAP_state", "UNAVAILABLE") \in turn'.facts => SomeFrom("ERROR")'
  BY <1>1 DEF Learns, FreshFacts, FactsSound, SomeFrom
<1>5. turn'.pc \in AfterSap \/ SomeFrom("stock")' \/ SomeFrom("check")' => SomeFrom("SAP_state")'
  BY <1>1 DEF Learns, FreshFacts, FactsSound, SomeFrom
<1>6. turn'.pc \in AfterFound
        \/ (\E s \in {"check", "responsibility", "analogue"} : SomeFrom(s)')
        => turn'.found = "current"
  BY <1>1 DEF Learns, FreshFacts, FactsSound, SomeFrom
<1>7. AnswerGrounded'
  BY DEF Learns, FreshFacts, AnswerGrounded, TurnAt
<1> QED
  BY <1>2, <1>3, <1>4, <1>5, <1>6, <1>7 DEF AnswerInv, FactsSound, Learns, IsFact, SomeFrom

\* A call that fails: of its system it is known, and the error is a fact.
LEMMA FailsKeeps ==
  ASSUME FactsSound, NEW system \in Systems, NEW pc, Fails(system, pc),
         pc # "answered", pc \in AfterSap => SomeFrom("SAP_state"),
         pc \in AfterFound => turn.found = "current"
  PROVE  AnswerInv'
<1>1. PICK error : error = Fact("ERROR", system)
  OBVIOUS
<1>2. error.source = "ERROR" /\ error.says = system /\ error # Fact("SAP_state", "UNAVAILABLE")
  BY <1>1 DEF Fact
<1>3. IsFact(error)
  BY <1>1, <1>2, SaysIs DEF IsFact
<1>4. /\ DOMAIN turn' = TurnFields
      /\ turn'.pc = pc /\ turn'.facts = turn.facts \cup {error} /\ turn'.found = turn.found
  BY <1>1 DEF Fails, TurnFields, FactsSound
<1>5. \A s : SomeFrom(s)' <=> SomeFrom(s) \/ s = "ERROR"
  BY <1>2, <1>4 DEF SomeFrom
<1>6. \A f \in turn'.facts : IsFact(f)
  BY <1>3, <1>4 DEF FactsSound
<1>7. /\ turn'.pc \in AfterSap \/ SomeFrom("stock")' \/ SomeFrom("check")' => SomeFrom("SAP_state")'
      /\ SomeFrom("ERROR")'
  BY <1>4, <1>5 DEF FactsSound
<1>8. turn'.pc \in AfterFound
        \/ (\E s \in {"check", "responsibility", "analogue"} : SomeFrom(s)')
        => turn'.found = "current"
  BY <1>4, <1>5 DEF FactsSound
<1>9. AnswerGrounded'
  BY <1>4 DEF AnswerGrounded, TurnAt
<1> QED
  BY <1>4, <1>6, <1>7, <1>8, <1>9 DEF AnswerInv, FactsSound, IsFact, SomeFrom

\* Going on with nothing learnt.
LEMMA GoesKeeps ==
  ASSUME FactsSound, NEW pc, Goes(pc), pc # "answered",
         pc \in AfterSap => SomeFrom("SAP_state"), pc \in AfterFound => turn.found = "current"
  PROVE  AnswerInv'
<1>1. FreshFacts(pc, {})
  BY DEF FreshFacts, SomeFrom
<1> QED
  BY <1>1, GoesIs, LearnsKeeps

\* One fact more.
LEMMA ToldKeeps ==
  ASSUME FactsSound, NEW s \in Sources, NEW what \in Says[s][1] \cup Says[s][2], NEW pc,
         Told(Fact(s, what), pc), pc # "answered",
         s = "SAP_state" => what # "UNAVAILABLE",
         pc \in AfterSap \/ s \in {"stock", "check"} => SomeFrom("SAP_state") \/ s = "SAP_state",
         pc \in AfterFound \/ s \in {"check", "responsibility", "analogue"}
           => turn.found = "current"
  PROVE  AnswerInv'
<1>1. PICK fact : fact = Fact(s, what)
  OBVIOUS
<1>2. fact.source = s /\ fact.says = what
  BY <1>1 DEF Fact
<1>3. Fact("SAP_state", "UNAVAILABLE").source = "SAP_state"
        /\ Fact("SAP_state", "UNAVAILABLE").says = "UNAVAILABLE"
  BY DEF Fact
<1>4. IsFact(fact)
  BY <1>1, <1>2 DEF IsFact
<1>5. FreshFacts(pc, {fact})
  BY <1>2, <1>3, <1>4 DEF FreshFacts, SomeFrom
<1> QED
  BY <1>1, <1>5, ToldIs, LearnsKeeps

\* What a source may say, but for the state of SAP, which has its own step.
LEMMA TellsKeeps ==
  ASSUME FactsSound, NEW s \in Sources, NEW pc, Tells(s, pc), pc # "answered",
         s # "SAP_state", s \in {"stock", "check"} => SomeFrom("SAP_state"),
         pc \in AfterSap => SomeFrom("SAP_state"),
         pc \in AfterFound \/ s \in {"check", "responsibility", "analogue"}
           => turn.found = "current"
  PROVE  AnswerInv'
BY ToldKeeps DEF Tells

\* ensureAppiusAvailable
LEMMA EnsureAppiusKeeps ==
  ASSUME FactsSound, NEW yes, NEW no, EnsureAppius(yes, no),
         "answered" \notin {yes, no}, {yes, no} \cap AfterSap = {},
         yes \in AfterFound \/ no \in AfterFound => turn.found = "current"
  PROVE  AnswerInv'
<1>1. CASE Goes(yes) \/ Goes(no)
  BY <1>1, GoesKeeps
<1>2. CASE StateUnknown("APPIUS", no)
  BY <1>2, FailsKeeps DEF StateUnknown, Systems
<1>3. ASSUME NEW state \in {"AVAILABLE"}, Told(Fact("APPIUS_state", state), yes)
      PROVE  AnswerInv'
  <2>1. "APPIUS_state" \in Sources /\ Says["APPIUS_state"][1] = AppiusStates
    BY SaysIs
  <2>2. state \in Says["APPIUS_state"][1] \cup Says["APPIUS_state"][2]
    BY <2>1 DEF AppiusStates
  <2> QED
    BY <1>3, <2>1, <2>2, ToldKeeps
<1>4. ASSUME NEW state \in AppiusStates \ {"AVAILABLE"},
             turn' = [turn EXCEPT !.pc = no,
               !.facts = @ \cup {Fact("APPIUS_state", state), Fact("ERROR", "APPIUS")}]
      PROVE  AnswerInv'
  <2>1. PICK new : new = {Fact("APPIUS_state", state), Fact("ERROR", "APPIUS")}
    OBVIOUS
  <2>2. Learns(no, new)
    BY <1>4, <2>1 DEF Learns, TurnFields, FactsSound
  <2>3. \A f \in new : IsFact(f) /\ f.source \in {"APPIUS_state", "ERROR"}
    <3>1. /\ "APPIUS_state" \in Sources /\ "ERROR" \in Sources
          /\ state \in Says["APPIUS_state"][1] /\ "APPIUS" \in Says["ERROR"][2]
      BY SaysIs DEF Systems
    <3> QED
      BY <2>1, <3>1 DEF IsFact, Fact
  <2>4. Fact("SAP_state", "UNAVAILABLE") \notin new
    BY <2>3 DEF Fact
  <2>5. FreshFacts(no, new)
    BY <2>3, <2>4 DEF FreshFacts
  <2> QED
    BY <2>2, <2>5, LearnsKeeps
<1> QED
  BY <1>1, <1>2, <1>3, <1>4 DEF EnsureAppius, Ensures

\* ensureSapAvailable: on both ways its state is among the facts, or an error of it.
LEMMA EnsureSapKeeps ==
  ASSUME FactsSound, NEW yes, NEW no, EnsureSap(yes, no),
         "answered" \notin {yes, no}, no \notin AfterSap,
         yes \in AfterFound \/ no \in AfterFound => turn.found = "current"
  PROVE  AnswerInv'
<1>1. CASE Goes(no)
  BY <1>1, GoesKeeps
<1>2. CASE Goes(yes) /\ Heard("SAP_state") # {}
  BY <1>2, GoesKeeps DEF Heard, SomeFrom
<1>3. CASE StateUnknown("SAP", no)
  BY <1>3, FailsKeeps DEF StateUnknown, Systems
<1>4. ASSUME NEW state \in {"AVAILABLE", "STALE"}, Told(Fact("SAP_state", state), yes)
      PROVE  AnswerInv'
  <2>1. "SAP_state" \in Sources /\ state \in Says["SAP_state"][1] \cup Says["SAP_state"][2]
    BY SaysIs
  <2> QED
    BY <1>4, <2>1, ToldKeeps
<1>5. ASSUME NEW state \in SapStates \ {"AVAILABLE", "STALE"},
             turn' = [turn EXCEPT !.pc = no,
               !.facts = @ \cup {Fact("SAP_state", state), Fact("ERROR", "SAP")}]
      PROVE  AnswerInv'
  <2>1. PICK new : new = {Fact("SAP_state", state), Fact("ERROR", "SAP")}
    OBVIOUS
  <2>2. Learns(no, new)
    BY <1>5, <2>1 DEF Learns, TurnFields, FactsSound
  <2>3. \A f \in new : IsFact(f) /\ f.source \in {"SAP_state", "ERROR"}
    <3>1. /\ "SAP_state" \in Sources /\ "ERROR" \in Sources
          /\ state \in Says["SAP_state"][1] /\ "SAP" \in Says["ERROR"][2]
      BY SaysIs DEF Systems, SapStates
    <3> QED
      BY <2>1, <3>1 DEF IsFact, Fact
  <2>4. \E f \in new : f.source = "ERROR"
    BY <2>1 DEF Fact
  <2>5. FreshFacts(no, new)
    BY <2>3, <2>4 DEF FreshFacts
  <2> QED
    BY <2>2, <2>5, LearnsKeeps
<1> QED
  BY <1>1, <1>2, <1>3, <1>4, <1>5 DEF EnsureSap, Ensures

-----------------------------------------------------------------------------
(* The tools                                                                   *)

\* What the provider may be told of the answers of the tools.
LEMMA FactsAre ==
  /\ {"specifications", "version", "positions", "item", "search", "analogue", "ERROR",
      "stock", "check", "substitutes", "bom", "responsibility", "run", "result", "summary"}
        \subseteq Sources
  /\ \A system \in Systems : system \in Says["ERROR"][1] \cup Says["ERROR"][2]
  /\ "listed" \in Says["specifications"][1] \cup Says["specifications"][2]
  /\ \A what \in {"current", "superseded"} : what \in Says["version"][1] \cup Says["version"][2]
  /\ \A what \in {"none", "some"} : what \in Says["positions"][1] \cup Says["positions"][2]
  /\ \A what \in {"none", "enough", "short"} : what \in Says["item"][1] \cup Says["item"][2]
  /\ \A what \in {"none", "some"} : what \in Says["search"][1] \cup Says["search"][2]
  /\ \A what \in {"covered", "unfounded", "uncovered", "partial", "deviating"} :
       what \in Says["analogue"][1] \cup Says["analogue"][2]
BY SaysIs

\* An error that callTool does not raise is a fact all the same.
LEMMA RefusedKeeps ==
  ASSUME FactsSound, NEW system \in Systems, NEW pc, Refused(system, pc),
         pc # "answered", pc \notin AfterSap, pc \notin AfterFound
  PROVE  AnswerInv'
BY ToldKeeps, FactsAre DEF Refused

LEMMA CatalogueKeeps ==
  ASSUME FactsSound, Catalogue \/ CatalogueDetails
  PROVE  AnswerInv'
<1> USE DEF Systems, AfterSap, AfterFound
<1>1. CASE Catalogue
  <2>1. CASE Fails("CATALOG", "run") \/ Refused("CATALOG", "run")
    BY <2>1, FailsKeeps, RefusedKeeps
  <2>2. CASE Told(Fact("item", "none"), "run") \/ Told(Fact("search", "none"), "run")
    BY <2>2, FactsAre, ToldKeeps
  <2>3. CASE Told(Fact("search", "some"), "details")
    BY <2>3, FactsAre, ToldKeeps
  <2>4. ASSUME NEW what \in {"enough", "short"}, Told(Fact("item", what), "details")
        PROVE  AnswerInv'
    BY <2>4, FactsAre, ToldKeeps
  <2> QED
    BY <1>1, <2>1, <2>2, <2>3, <2>4 DEF Catalogue
<1>2. CASE CatalogueDetails
  <2>1. CASE Goes("run")
    BY <2>1, GoesKeeps
  <2>2. CASE Tells("substitutes", "details") \/ Tells("bom", "run")
    BY <2>2, FactsAre, TellsKeeps
  <2>3. CASE Fails("CATALOG", "details") \/ Fails("CATALOG", "run")
    BY <2>3, FailsKeeps
  <2> QED
    BY <1>2, <2>1, <2>2, <2>3 DEF CatalogueDetails
<1> QED
  BY <1>1, <1>2

LEMMA SpecificationKeeps ==
  ASSUME FactsSound, Specification \/ ListSpecifications \/ LatestVersions
  PROVE  AnswerInv'
<1> USE DEF Systems, AfterSap, AfterFound
<1>1. CASE Specification
  BY <1>1, EnsureAppiusKeeps, GoesKeeps DEF Specification
<1>2. CASE ListSpecifications
  BY <1>2, FactsAre, ToldKeeps, FailsKeeps DEF ListSpecifications
<1>3. CASE LatestVersions
  <2>1. CASE Goes("stock") \/ Fails("APPIUS", "versions")
    BY <2>1, GoesKeeps, FailsKeeps
  <2>2. ASSUME NEW state \in {"current", "superseded"}, Told(Fact("version", state), "versions")
        PROVE  AnswerInv'
    BY <2>2, FactsAre, ToldKeeps
  <2>3. ASSUME NEW state \in {"current", "superseded"}, NEW some \in {"none", "some"},
               turn' = [turn EXCEPT !.facts = @ \cup
                          {Fact("version", state), Fact("positions", some)}]
        PROVE  AnswerInv'
    <3>1. PICK new : new = {Fact("version", state), Fact("positions", some)}
      OBVIOUS
    <3>2. Learns(turn.pc, new)
      BY <2>3, <3>1 DEF Learns, TurnFields, FactsSound
    <3>3. \A f \in new : IsFact(f) /\ f.source \in {"version", "positions"}
      BY <3>1, FactsAre DEF IsFact, Fact
    <3>4. Fact("SAP_state", "UNAVAILABLE") \notin new
      BY <3>3 DEF Fact
    <3>5. turn.pc = "versions"
      BY <1>3 DEF LatestVersions, TurnAt
    <3>6. FreshFacts(turn.pc, new)
      BY <3>3, <3>4, <3>5 DEF FreshFacts
    <3> QED
      BY <3>2, <3>6, LearnsKeeps
  <2> QED
    BY <1>3, <2>1, <2>2, <2>3 DEF LatestVersions
<1> QED
  BY <1>1, <1>2, <1>3

LEMMA StockKeeps ==
  ASSUME FactsSound, Stock \/ SearchStock \/ Check \/ CheckStock
  PROVE  AnswerInv'
<1> USE DEF Systems, AfterSap, AfterFound
<1>1. CASE Stock
  BY <1>1, EnsureSapKeeps, GoesKeeps DEF Stock
<1>2. CASE SearchStock
  <2>1. SomeFrom("SAP_state")
    BY <1>2 DEF SearchStock, TurnAt, FactsSound
  <2> QED
    BY <1>2, <2>1, FactsAre, TellsKeeps, FailsKeeps DEF SearchStock
<1>3. CASE Check
  <2>1. turn.found = "current"
    BY <1>3 DEF Check, TurnAt, FactsSound
  <2> QED
    BY <1>3, <2>1, EnsureSapKeeps, GoesKeeps DEF Check
<1>4. CASE CheckStock
  <2>1. SomeFrom("SAP_state") /\ turn.found = "current"
    BY <1>4 DEF CheckStock, TurnAt, FactsSound
  <2> QED
    BY <1>4, <2>1, FactsAre, TellsKeeps, FailsKeeps DEF CheckStock
<1> QED
  BY <1>1, <1>2, <1>3, <1>4

LEMMA ResolveKeeps ==
  ASSUME FactsSound, Resolve \/ Resolving
  PROVE  AnswerInv'
<1> USE DEF Systems, AfterSap, AfterFound
<1>1. CASE Resolve
  BY <1>1, EnsureAppiusKeeps, GoesKeeps DEF Resolve
<1>2. CASE Resolving
  <2>1. CASE Fails("APPIUS", "run") \/ Fails("APPIUS", "resolving")
    BY <2>1, FailsKeeps
  <2>2. ASSUME NEW state \in {"current", "superseded"},
               Told(Fact("version", state), "resolving")
        PROVE  AnswerInv'
    BY <2>2, FactsAre, ToldKeeps
  <2>3. CASE Told(Fact("positions", "none"), "run")
    BY <2>3, FactsAre, ToldKeeps
  <2>4. ASSUME turn' = [turn EXCEPT !.pc = "check", !.found = "current",
                          !.facts = @ \cup {Fact("positions", "some")}]
        PROVE  AnswerInv'
    <3>1. PICK fact : fact = Fact("positions", "some")
      OBVIOUS
    <3>2. /\ DOMAIN turn' = TurnFields /\ turn'.pc = "check" /\ turn'.found = "current"
          /\ turn'.facts = turn.facts \cup {fact} /\ turn'.failed = turn.failed
      BY <2>4, <3>1 DEF TurnFields, FactsSound
    <3>3. /\ fact.source = "positions" /\ fact # Fact("SAP_state", "UNAVAILABLE")
          /\ IsFact(fact)
      BY <3>1, FactsAre DEF Fact, IsFact
    <3>4. \A s : SomeFrom(s)' <=> SomeFrom(s) \/ s = "positions"
      BY <3>2, <3>3 DEF SomeFrom
    <3>5. FactsSound'
      BY <3>2, <3>3, <3>4 DEF FactsSound, IsFact, SomeFrom
    <3> QED
      BY <3>2, <3>5 DEF AnswerInv, AnswerGrounded, TurnAt
  <2> QED
    BY <1>2, <2>1, <2>2, <2>3, <2>4 DEF Resolving, OnlyCurrent
<1> QED
  BY <1>1, <1>2

LEMMA PositionKeeps ==
  ASSUME FactsSound, ResponsibilityFacts \/ Analogue \/ Coverage
  PROVE  AnswerInv'
<1> USE DEF Systems, AfterSap, AfterFound
<1>1. CASE ResponsibilityFacts
  <2>1. turn.found = "current"
    BY <1>1 DEF ResponsibilityFacts, TurnAt, FactsSound
  <2> QED
    BY <1>1, <2>1, FactsAre, TellsKeeps, FailsKeeps, GoesKeeps DEF ResponsibilityFacts
<1>2. CASE Analogue
  <2>1. turn.found = "current"
    BY <1>2 DEF Analogue, TurnAt, FactsSound
  <2>2. CASE Goes("run") \/ Fails("NORMATIVE", "run") \/ EnsureSap("coverage", "rulesOnly")
    BY <2>1, <2>2, GoesKeeps, FailsKeeps, EnsureSapKeeps
  <2>3. CASE Told(Fact("analogue", "unfounded"), "run")
    BY <2>1, <2>3, FactsAre, ToldKeeps
  <2> QED
    BY <1>2, <2>2, <2>3 DEF Analogue
<1>3. CASE Coverage
  <2>1. turn.found = "current"
    BY <1>3 DEF Coverage, TurnAt, FactsSound
  <2>2. CASE Fails("SAP", "run")
    BY <2>2, FailsKeeps
  <2>3. ASSUME NEW what \in {"covered", "uncovered", "partial", "deviating"},
               Told(Fact("analogue", what), "run")
        PROVE  AnswerInv'
    BY <2>1, <2>3, FactsAre, ToldKeeps
  <2> QED
    BY <1>3, <2>2, <2>3 DEF Coverage
<1> QED
  BY <1>1, <1>2, <1>3

LEMMA RunKeeps ==
  ASSUME FactsSound, RunFacts \/ ReportFacts \/ ResultFacts
  PROVE  AnswerInv'
<1> USE DEF Systems, AfterSap, AfterFound
<1>1. CASE RunFacts
  BY <1>1, FactsAre, TellsKeeps, FailsKeeps, RefusedKeeps, GoesKeeps DEF RunFacts
<1>2. CASE ReportFacts
  BY <1>2, FactsAre, TellsKeeps, FailsKeeps, RefusedKeeps, GoesKeeps DEF ReportFacts
<1>3. CASE ResultFacts
  BY <1>3, FactsAre, TellsKeeps, FailsKeeps, GoesKeeps DEF ResultFacts
<1> QED
  BY <1>1, <1>2, <1>3

-----------------------------------------------------------------------------
(* The answer                                                                  *)

LEMMA BlockKeeps ==
  ASSUME FactsSound, Block
  PROVE  AnswerInv'
<1>1. Learns("answered", {})
  BY GoesIs DEF Block
<1>2. output'.from = "guard"
  BY DEF Block, NoOutput
<1>3. FactsSound'
  BY <1>1 DEF Learns, FactsSound, IsFact, SomeFrom, AfterSap, AfterFound
<1> QED
  BY <1>2, <1>3 DEF AnswerInv, AnswerGrounded

LEMMA ClassifyKeeps ==
  ASSUME FactsSound, ClassifyIntents
  PROVE  AnswerInv'
<1>1. PICK pc \in {"catalogue", "specification"} : Learns(pc, {})
  BY DEF ClassifyIntents, Learns, TurnFields, FactsSound
<1>2. FreshFacts(pc, {})
  BY DEF FreshFacts, AfterSap, AfterFound
<1> QED
  BY <1>1, <1>2, LearnsKeeps

\* Who calls for a person, and who does not.
LEMMA ReviewIs ==
  ASSUME FactsSound
  PROVE  /\ SomeFrom("ERROR") => CallsForReview
         /\ Fact("SAP_state", "STALE") \in turn.facts => CallsForReview
         /\ Fact("version", "superseded") \in turn.facts => CallsForReview
         /\ \A f \in turn.facts : f.source = "SAP_state" =>
              f \in {Fact("SAP_state", w) : w \in {"AVAILABLE", "UNAVAILABLE", "STALE"}}
         /\ \A f \in turn.facts : f.source = "version" =>
              f \in {Fact("version", w) : w \in {"current", "superseded"}}
<1>1. \A f \in turn.facts : f.source = "ERROR" => f.says \in Says[f.source][2]
  BY SaysIs DEF FactsSound, IsFact
<1>2. /\ Fact("SAP_state", "STALE").source = "SAP_state"
      /\ Fact("SAP_state", "STALE").says = "STALE"
      /\ Fact("version", "superseded").source = "version"
      /\ Fact("version", "superseded").says = "superseded"
  BY DEF Fact
<1>3. "STALE" \in Says["SAP_state"][2] /\ "superseded" \in Says["version"][2]
  BY SaysIs
<1>4. ASSUME NEW f \in turn.facts, f.source = "SAP_state"
      PROVE  f \in {Fact("SAP_state", w) : w \in {"AVAILABLE", "UNAVAILABLE", "STALE"}}
  BY <1>4, SaysIs DEF FactsSound, IsFact
<1>5. ASSUME NEW f \in turn.facts, f.source = "version"
      PROVE  f \in {Fact("version", w) : w \in {"current", "superseded"}}
  BY <1>5, SaysIs DEF FactsSound, IsFact
<1> QED
  BY <1>1, <1>2, <1>3, <1>4, <1>5 DEF SomeFrom, CallsForReview

\* The answer of a provider or of its stand-in.
LEMMA AnswersKeeps ==
  ASSUME FactsSound, NEW from, NEW sure, NEW review, Answers(from, sure, review),
         from = "provider" =>
           /\ sure = (HasSections /\ Heard("ERROR") = {})
           /\ review = (~HasSections \/ CallsForReview),
         from = "fallback" => sure = FALSE /\ review = TRUE,
         from \in {"provider", "fallback", "identity"}
  PROVE  AnswerInv'
<1>1. Learns("answered", {}) /\ turn'.pc = "answered"
  BY GoesIs DEF Answers, Learns
<1>2. /\ turn'.facts = turn.facts /\ turn'.failed = turn.failed /\ turn'.found = turn.found
      /\ FactsSound'
  BY <1>1 DEF Learns, FactsSound, IsFact, SomeFrom, AfterSap, AfterFound
<1>3. \E bare \in BOOLEAN :
        /\ bare = (turn.intents # {} /\ Cited = {})
        /\ output'.from = from /\ output'.citations = Cited
        /\ output'.sure = (sure /\ ~bare) /\ output'.review = (review \/ bare)
  BY DEF Answers, Grounded
<1>4. CASE from = "identity"
  BY <1>2, <1>3, <1>4 DEF AnswerInv, AnswerGrounded
<1>5. CASE from = "fallback"
  <2>1. output'.from = "fallback" /\ output'.review /\ ~output'.sure
    BY <1>3, <1>5
  <2> QED
    BY <1>2, <2>1 DEF AnswerInv, AnswerGrounded
<1>6. CASE from = "provider"
  <2>1. SomeFrom("ERROR") <=> Heard("ERROR") # {}
    BY DEF SomeFrom, Heard
  <2>2. turn.failed # {} \/ Heard("ERROR") # {} => output'.review /\ ~output'.sure
    BY <1>3, <1>6, <2>1, ReviewIs DEF FactsSound
  <2>3. ASSUME ~output'.review
        PROVE  /\ HasSections /\ ~CallsForReview /\ Cited # {} /\ ~SomeFrom("ERROR")
    <3>1. HasSections /\ ~CallsForReview
      BY <1>3, <1>6, <2>3
    <3>2. ~SomeFrom("ERROR")
      BY <3>1, ReviewIs
    <3>3. PICK f \in turn.facts :
            f.source \notin {"APPIUS_state", "SAP_state"} \/ f.says = "STALE"
      BY <3>1 DEF HasSections
    <3>4. f.source # "ERROR"
      BY <3>2, <3>3 DEF SomeFrom
    <3> QED
      BY <3>1, <3>2, <3>3, <3>4 DEF Cited
  <2>4. ASSUME ~output'.review
        PROVE  /\ Heard("SAP_state") \subseteq {Fact("SAP_state", "AVAILABLE")}
               /\ Heard("version") \subseteq {Fact("version", "current")}
    <3>1. /\ Fact("SAP_state", "STALE") \notin turn.facts
          /\ Fact("SAP_state", "UNAVAILABLE") \notin turn.facts
          /\ Fact("version", "superseded") \notin turn.facts
      BY <2>3, <2>4, ReviewIs DEF FactsSound
    <3> QED
      BY <3>1, ReviewIs DEF Heard
  <2>5. /\ \A s \in {"stock", "check"} : Heard(s) # {} => Heard("SAP_state") # {}
        /\ \A s \in {"check", "responsibility", "analogue"} :
             Heard(s) # {} => turn.found = "current"
    BY DEF Heard, FactsSound, SomeFrom
  <2>6. \A s : Heard(s)' = Heard(s)
    BY <1>2 DEF Heard
  <2>7. output'.from = "provider" /\ output'.citations = Cited
    BY <1>3, <1>6
  <2>8. AnswerGrounded'
    BY <1>2, <2>2, <2>3, <2>4, <2>5, <2>6, <2>7 DEF AnswerGrounded
  <2> QED
    BY <1>2, <2>8 DEF AnswerInv
<1> QED
  BY <1>4, <1>5, <1>6

LEMMA AnswerStep ==
  ASSUME AnswerInv, [AnswerNext]_answerVars
  PROVE  AnswerInv'
<1>1. FactsSound
  BY DEF AnswerInv
<1>2. CASE ProviderAnswers
  BY <1>1, <1>2, AnswersKeeps DEF ProviderAnswers
<1>3. CASE IdentityAnswers \/ ProviderFails
  BY <1>1, <1>3, AnswersKeeps DEF IdentityAnswers, ProviderFails
<1>4. CASE UNCHANGED answerVars
  BY <1>4 DEF answerVars, AnswerInv, FactsSound, IsFact, SomeFrom, AnswerGrounded, TurnAt, Heard
<1> QED
  BY <1>1, <1>2, <1>3, <1>4, CatalogueKeeps, SpecificationKeeps, StockKeeps, ResolveKeeps,
     PositionKeeps, RunKeeps, BlockKeeps, ClassifyKeeps
     DEF AnswerNext

\* In whatever order the tools fail, are refused or tell of something old, and for
\* every number of intents, an answer given without asking for a person cites
\* sources in force and passes over no failure (collectFacts, finalize and the
\* provider in agent-service.ts).
THEOREM AnswersGrounded == AnswerSpec => []AnswerGrounded
<1>1. AnswerInv => AnswerGrounded
  BY DEF AnswerInv
<1> QED
  BY AnswerBegins, AnswerStep, <1>1, PTL DEF AnswerSpec

-----------------------------------------------------------------------------
(* How sure the agent says it is of a command.  Every port gathers what it can, *)
(* and only complete evidence goes without a person.                           *)

Proves(e) ==
  CompleteEvidence(e) =>
    /\ command.kind # "STOCKS"
    /\ command.kind \in {"SUMMARY", "KPI"} => e.items
    /\ command.kind = "KPI" => e.told = command.wants
    /\ command.kind = "SUMMARY" => sapRow.state \in {"AVAILABLE", "SLOW"}
    /\ command.kind = "RISKS" /\ ~e.items =>
         /\ command.scoped
         /\ \E s \in e.seen : Comparable(s)
         /\ "MATERIAL" \in command.wants =>
              \A s \in e.seen : Forecast(s) => shelf[s].runsOut \notin command.levels
         /\ "SOURCE" \in command.wants => sapRow.snapshot \notin command.levels

CommandMeant ==
  /\ command.kind \in CommandKinds
  /\ command.kind = "KPI" => command.wants \subseteq Metrics /\ command.wants # {}
EvidenceSound == Proves(evidence)
Concluded ==
  reply # NoReply =>
    /\ evidence # NoEvidence
    /\ reply = [conclusion |-> IF evidence.items THEN "NOT_EMPTY"
                               ELSE IF CompleteEvidence(evidence) THEN "PROVEN_EMPTY"
                               ELSE "UNPROVEN_EMPTY",
                sure |-> IF evidence.items THEN evidence.cited ELSE CompleteEvidence(evidence),
                review |-> ~CompleteEvidence(evidence) \/ evidence.ownReview]

EvidenceInv == CommandMeant /\ EvidenceSound /\ Concluded

LEMMA OwnedUp == EvidenceInv => AnswersOwnUp
<1> SUFFICES ASSUME EvidenceInv, reply # NoReply PROVE AnswersOwnUp
  BY DEF AnswersOwnUp
<1>1. /\ reply.conclusion = (IF evidence.items THEN "NOT_EMPTY"
                             ELSE IF CompleteEvidence(evidence) THEN "PROVEN_EMPTY"
                             ELSE "UNPROVEN_EMPTY")
      /\ reply.sure = (IF evidence.items THEN evidence.cited ELSE CompleteEvidence(evidence))
      /\ reply.review = (~CompleteEvidence(evidence) \/ evidence.ownReview)
  BY DEF EvidenceInv, Concluded
<1>2. ASSUME ~reply.review
      PROVE  /\ evidence.cited /\ reply.sure
             /\ command.kind # "STOCKS"
             /\ command.kind = "KPI" => evidence.told = command.wants
             /\ command.kind = "SUMMARY" => sapRow.state \in {"AVAILABLE", "SLOW"}
  <2>1. CompleteEvidence(evidence) /\ evidence.cited
    BY <1>1, <1>2 DEF CompleteEvidence
  <2> QED
    BY <1>1, <2>1 DEF EvidenceInv, EvidenceSound, Proves
<1>3. reply.conclusion = "UNPROVEN_EMPTY" => reply.review /\ ~reply.sure
  BY <1>1
<1>4. ASSUME reply.conclusion = "PROVEN_EMPTY"
      PROVE  /\ command.kind \in {"MY_TASKS", "RISKS"}
             /\ command.kind = "RISKS" =>
                  /\ command.scoped
                  /\ \E s \in evidence.seen : Comparable(s)
                  /\ "MATERIAL" \in command.wants =>
                       \A s \in evidence.seen :
                         Forecast(s) => shelf[s].runsOut \notin command.levels
                  /\ "SOURCE" \in command.wants => sapRow.snapshot \notin command.levels
  BY <1>1, <1>4 DEF EvidenceInv, EvidenceSound, Proves, CommandMeant, CommandKinds
<1> QED
  BY <1>2, <1>3, <1>4 DEF AnswersOwnUp

LEMMA EvidenceBegins == EvidenceInit => EvidenceInv
<1> SUFFICES ASSUME EvidenceInit PROVE EvidenceInv
  OBVIOUS
<1>1. CommandMeant
  BY DEF EvidenceInit, CommandMeant, TypedCommand
<1>2. evidence.availability = "not asked"
  BY DEF EvidenceInit, NoEvidence, Gathered
<1>3. EvidenceSound
  BY <1>2 DEF EvidenceSound, Proves, CompleteEvidence
<1> QED
  BY <1>1, <1>3 DEF EvidenceInv, Concluded, EvidenceInit

\* What a port gathers is sound, if it proves what it claims.
LEMMA GatherKeeps ==
  ASSUME EvidenceInv, evidence = NoEvidence, NEW e, Gather(e), Proves(e)
  PROVE  EvidenceInv'
<1>1. reply = NoReply
  BY DEF EvidenceInv, Concluded
<1>2. EvidenceSound'
  BY DEF EvidenceSound, Proves, Gather, CompleteEvidence, Comparable, Forecast
<1> QED
  BY <1>1, <1>2 DEF EvidenceInv, Concluded, CommandMeant, Gather

LEMMA SummarizeKeeps ==
  ASSUME EvidenceInv, Summarize
  PROVE  EvidenceInv'
<1>1. PICK found, period, cited \in BOOLEAN :
        \E missing \in SUBSET Gaps, complete \in BOOLEAN :
          /\ missing = If(~found, "selection") \cup If(period, "period")
                         \cup If(sapRow.state \notin {"AVAILABLE", "SLOW"}, "source")
          /\ complete = (missing = {} /\ cited)
          /\ Gather(Gathered(TRUE, IF complete THEN "COMPLETE" ELSE "PARTIAL",
                             complete, cited, missing))
  BY DEF Summarize, If, Gaps
<1>2. PICK missing \in SUBSET Gaps, complete \in BOOLEAN :
        /\ missing = If(~found, "selection") \cup If(period, "period")
                       \cup If(sapRow.state \notin {"AVAILABLE", "SLOW"}, "source")
        /\ complete = (missing = {} /\ cited)
        /\ Gather(Gathered(TRUE, IF complete THEN "COMPLETE" ELSE "PARTIAL",
                           complete, cited, missing))
  BY <1>1
<1>3. PICK e : e = Gathered(TRUE, IF complete THEN "COMPLETE" ELSE "PARTIAL",
                            complete, cited, missing)
  OBVIOUS
<1>4. e.items /\ e.missing = missing
  BY <1>3 DEF Gathered
<1>5. missing = {} => sapRow.state \in {"AVAILABLE", "SLOW"}
  BY <1>2 DEF If
<1>6. command.kind = "SUMMARY" /\ evidence = NoEvidence
  BY DEF Summarize, MustGather
<1>7. Proves(e)
  BY <1>4, <1>5, <1>6 DEF Proves, CompleteEvidence
<1> QED
  BY <1>2, <1>3, <1>6, <1>7, GatherKeeps

LEMMA ListTasksKeeps ==
  ASSUME EvidenceInv, ListTasks
  PROVE  EvidenceInv'
<1>1. PICK some, unreadable \in BOOLEAN :
        Gather(Gathered(some, IF unreadable THEN "PARTIAL" ELSE "COMPLETE", ~unreadable,
                        TRUE, If(unreadable, "rows")))
  BY DEF ListTasks
<1>2. PICK e : e = Gathered(some, IF unreadable THEN "PARTIAL" ELSE "COMPLETE", ~unreadable,
                            TRUE, If(unreadable, "rows"))
  OBVIOUS
<1>3. command.kind = "MY_TASKS" /\ evidence = NoEvidence
  BY DEF ListTasks, MustGather
<1>4. Proves(e)
  BY <1>3 DEF Proves
<1> QED
  BY <1>1, <1>2, <1>3, <1>4, GatherKeeps

LEMMA EvaluateRisksKeeps ==
  ASSUME EvidenceInv, EvaluateRisks
  PROVE  EvidenceInv'
<1> DEFINE old == sapRow.snapshot \in RiskLevels
           comparable(part) == command.scoped /\ \E s \in part : Comparable(s)
           told(s) == Forecast(s) /\ AskedFor("MATERIAL", shelf[s].runsOut)
           risks(part) ==
             If(AskedFor("SOURCE", sapRow.snapshot), "SOURCE")
               \cup If(command.scoped /\ \E s \in part : told(s), "MATERIAL")
           missing(part) ==
             IF command.scoped THEN If(~comparable(part), "history") ELSE {"scope"}
           found(part) ==
             [Gathered(risks(part) # {},
                       IF missing(part) = {} THEN "COMPLETE"
                       ELSE IF risks(part) # {} THEN "PARTIAL" ELSE "UNAVAILABLE",
                       missing(part) = {}, old \/ comparable(part), missing(part))
              EXCEPT !.ownReview = risks(part) # {}, !.seen = part]
<1>1. PICK part \in Pages : Gather(found(part))
  BY DEF EvaluateRisks
<1>2. command.kind = "RISKS" /\ evidence = NoEvidence
  BY DEF EvaluateRisks, MustGather
<1>3. PICK e : e = found(part)
  OBVIOUS
<1>4. /\ e.items = (risks(part) # {}) /\ e.missing = missing(part) /\ e.seen = part
  BY <1>3 DEF Gathered
<1>5. missing(part) = {} => comparable(part)
  BY DEF If
<1>6. ASSUME risks(part) = {}, command.scoped
      PROVE  /\ "MATERIAL" \in command.wants =>
                  \A s \in part : Forecast(s) => shelf[s].runsOut \notin command.levels
             /\ "SOURCE" \in command.wants => sapRow.snapshot \notin command.levels
  <2>1. /\ ~AskedFor("SOURCE", sapRow.snapshot)
        /\ ~\E s \in part : told(s)
    BY <1>6 DEF If
  <2> QED BY <2>1 DEF AskedFor
<1> HIDE DEF risks, comparable, missing
<1>7. Proves(e)
  <2>1. SUFFICES ASSUME CompleteEvidence(e), ~e.items PROVE Proves(e)
    BY <1>2 DEF Proves
  <2>2. missing(part) = {} /\ risks(part) = {}
    BY <1>4, <2>1 DEF CompleteEvidence
  <2>3. command.scoped /\ \E s \in part : Comparable(s)
    BY <1>5, <2>2 DEF comparable
  <2> QED BY <1>2, <1>4, <1>6, <2>2, <2>3 DEF Proves
<1> QED
  BY <1>1, <1>2, <1>3, <1>7, GatherKeeps

LEMMA SearchStocksKeeps ==
  ASSUME EvidenceInv, SearchStocks
  PROVE  EvidenceInv'
<1>1. command.kind = "STOCKS" /\ evidence = NoEvidence
  BY DEF SearchStocks, MustGather
<1>2. PICK e : Gather(e) /\ ~e.covered
  <2>1. CASE \E gaps, cited : Gather(Gathered(FALSE, "UNAVAILABLE", FALSE, cited, gaps))
    BY <2>1 DEF Gathered
  <2>2. CASE \E part \in Pages, found \in BOOLEAN :
               Gather([Gathered(found, "PARTIAL", FALSE,
                                found \/ sapRow.snapshot # "undated",
                                {"reservations"} \cup If(part # Shelves, "page"))
                       EXCEPT !.seen = part])
    BY <2>2 DEF Gathered
  <2> QED
    BY <2>1, <2>2 DEF SearchStocks
<1>3. Proves(e)
  BY <1>2 DEF Proves, CompleteEvidence
<1> QED
  BY <1>1, <1>2, <1>3, GatherKeeps

LEMMA CalculateKpiKeeps ==
  ASSUME EvidenceInv, CalculateKpi
  PROVE  EvidenceInv'
<1> DEFINE asked == command.wants
           measured(part) == command.scoped /\ \E s \in part : Counted(s)
           told(part, events) ==
             asked \cap (If(events, "process") \cup If(measured(part), "STOCK_COVERAGE"))
           missing(part, events) ==
             If("unknown" \in asked, "definition")
               \cup If("process" \in asked \ told(part, events), "events")
               \cup If("STOCK_COVERAGE" \in asked \ told(part, events),
                       IF command.scoped THEN "history" ELSE "scope")
           found(part, events) ==
             [Gathered(told(part, events) # {},
                       IF missing(part, events) = {} THEN "COMPLETE"
                       ELSE IF told(part, events) # {} THEN "PARTIAL" ELSE "UNAVAILABLE",
                       missing(part, events) = {}, told(part, events) # {},
                       missing(part, events))
              EXCEPT !.seen = part, !.told = told(part, events)]
<1>1. PICK part \in Pages, events \in BOOLEAN : Gather(found(part, events))
  BY DEF CalculateKpi
<1>2. command.kind = "KPI" /\ evidence = NoEvidence
  BY DEF CalculateKpi, MustGather
<1>3. PICK e : e = found(part, events)
  OBVIOUS
<1>4. PICK these : these = told(part, events)
  OBVIOUS
<1>5. /\ e.items = (these # {}) /\ e.missing = missing(part, events)
      /\ e.told = these
  BY <1>3, <1>4 DEF Gathered
<1>6. asked \subseteq Metrics /\ asked # {}
  BY <1>2 DEF EvidenceInv, CommandMeant
<1>7. ASSUME missing(part, events) = {} PROVE these = asked
  <2>1. /\ "unknown" \notin asked /\ "process" \notin asked \ these
        /\ "STOCK_COVERAGE" \notin asked \ these
    BY <1>4, <1>7 DEF If
  <2> QED
    BY <1>4, <1>6, <2>1 DEF Metrics
<1>8. Proves(e)
  BY <1>2, <1>5, <1>6, <1>7 DEF Proves, CompleteEvidence
<1> QED
  BY <1>1, <1>2, <1>3, <1>8, GatherKeeps

LEMMA EvidenceStep ==
  ASSUME EvidenceInv, [EvidenceNext]_evidenceVars
  PROVE  EvidenceInv'
<1>1. CASE UNCHANGED evidenceVars
  BY <1>1 DEF evidenceVars, EvidenceInv, CommandMeant, EvidenceSound, Proves, Concluded,
              CompleteEvidence, Comparable, Forecast
<1>2. CASE Conclude
  <2>1. UNCHANGED <<shelf, sapRow, command, evidence>> /\ evidence # NoEvidence
    BY <1>2 DEF Conclude
  <2>2. EvidenceSound' /\ CommandMeant'
    BY <2>1 DEF EvidenceInv, EvidenceSound, CommandMeant, Proves, CompleteEvidence,
                Comparable, Forecast
  <2>3. Concluded'
    BY <1>2, <2>1 DEF Conclude, Concluded, CompleteEvidence
  <2> QED
    BY <2>2, <2>3 DEF EvidenceInv
<1> QED
  BY <1>1, <1>2, SummarizeKeeps, ListTasksKeeps, EvaluateRisksKeeps, SearchStocksKeeps,
     CalculateKpiKeeps
     DEF EvidenceNext

\* For every stock, every page of it and whatever it was asked, an answer that is
\* given without a person rests on evidence that covers what was asked
\* (assessNegativeEvidence over the ports).
THEOREM CommandsOwnUp == EvidenceSpec => []AnswersOwnUp
<1> QED
  BY EvidenceBegins, EvidenceStep, OwnedUp, PTL DEF EvidenceSpec
=============================================================================
