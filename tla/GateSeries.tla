----------------------------- MODULE GateSeries -----------------------------
(***************************************************************************)
(* A series of official runs of the fast gate (scripts/fastgate-official): *)
(* the images of one commit are built and inspected, REQUIRED_RUNS         *)
(* disposable projects are run from them one after the other, each is      *)
(* attested, copied and removed, and the whole is reviewed and verified    *)
(* offline before PASS is printed.  What it works with is shared: the      *)
(* working tree, which developers edit and switch, and the host's images,  *)
(* which are tagged by commit, so that another series of the same commit   *)
(* replaces them.  One run from within is the module GateRun.              *)
(*                                                                         *)
(* A digest is the number of the build that made an image.  Scores,        *)
(* signatures and the reviewer are what may fail for reasons of their own. *)
(***************************************************************************)
EXTENDS Naturals, FiniteSets, Sequences

CONSTANTS
  Series,         \* invocations of the script on one host
  Commits,
  Images,         \* what the compose file builds
  VerifierImage,  \* the one of them that is not a service of a run
  REQUIRED_RUNS,  \* 3 in the code
  MaxBuilds       \* bound on how often an image of a commit changes

Services == Images \ {VerifierImage}

ASSUME SeriesAssumption ==
  /\ VerifierImage \in Images
  /\ "application" \in Services
  /\ REQUIRED_RUNS \in Nat \ {0}
  /\ MaxBuilds \in Nat

VARIABLES
  tree,        \* the working tree: the commit checked out, and what is edited in it
  image,       \* image[c][i]: what the tag of i at commit c stands for, 0 if nothing
  project,     \* project[s]: the runs of s of which containers, volumes or networks exist
  container,   \* container[s][i]: the digest the container of i in the present project
               \*   was created from, 0 if there is none
  series       \* what each invocation holds in memory, and ran: what the directory of
               \*   each run says of its images

seriesVars == <<tree, image, project, container, series>>

\* The reviewer's script is told apart from the other files of the tree.  Edits of
\* one kind are alike, and no two commits have the same script.
Tree == [at : Commits, edited : {"nothing", "script", "elsewhere"}]

Script(t) == [at |-> t.at, edited |-> t.edited = "script"]

NoTree == [at |-> "none", edited |-> "nothing"]
NoScript == [at |-> "none", edited |-> FALSE]
Scripts == [at : Commits \cup {"none"}, edited : BOOLEAN]

\* git status --porcelain.
Clean == tree.edited = "nothing"

NotBuilt == [i \in Images |-> 0]
NoContainers == [i \in Services |-> 0]

\* An invocation that holds nothing yet, or nothing any more.
Invocation(pc) ==
  [pc |-> pc, sha |-> "none", source |-> NoTree, todo |-> Images, digests |-> NotBuilt,
   ordinal |-> 1, error |-> FALSE, active |-> FALSE, script |-> NoScript,
   reviewed |-> NoScript, ran |-> <<>>]

GateSeriesInit ==
  /\ tree \in {t \in Tree : t.edited = "nothing"}
  /\ image = [c \in Commits |-> NotBuilt]
  /\ project = [s \in Series |-> {}]
  /\ container = [s \in Series |-> NoContainers]
  /\ series = [s \in Series |-> Invocation("start")]

Pcs ==
  {"start", "head", "hash", "build", "inspect", "attestor", "isolate", "run", "compare",
   "rehash", "up", "capture", "copy", "down", "removed", "attest", "chain", "gate", "script",
   "review", "judge", "verifier", "verify", "last", "passed", "thrown", "failed",
   "interrupted", "killed"}

Held ==
  [pc : Pcs, sha : Commits \cup {"none"}, source : Tree \cup {NoTree}, todo : SUBSET Images,
   digests : [Images -> Nat], ordinal : Nat, error : BOOLEAN, active : BOOLEAN,
   script : Scripts, reviewed : Scripts,
   ran : Seq([images : [Images -> Nat], observed : [Services -> Nat]])]

GateSeriesTypeOK ==
  /\ tree \in Tree
  /\ image \in [Commits -> [Images -> Nat]]
  /\ project \in [Series -> SUBSET Nat]
  /\ container \in [Series -> [Services -> Nat]]
  /\ series \in [Series -> Held]

\* Series s moves on to pc.
Go(s, pc) == series' = [series EXCEPT ![s].pc = pc]

\* A command that may fail, or be timed out, and then throws.
Command(s, pc) == Go(s, pc) \/ Go(s, "thrown")

\* A command whose output must be as the condition says.
Require(s, condition, pc) == (condition /\ Go(s, pc)) \/ Go(s, "thrown")

OnHost == <<tree, image, project, container>>

-----------------------------------------------------------------------------
(* Building *)

\* assertCleanTrackedTree, then the doctor, who may find the host unfit.
BeginSeries(s) ==
  /\ series[s].pc = "start"
  /\ Require(s, Clean, "head")
  /\ UNCHANGED OnHost

ReadHead(s) ==
  /\ series[s].pc = "head"
  /\ \/ series' = [series EXCEPT ![s].sha = tree.at, ![s].pc = "hash"]
     \/ Go(s, "thrown")
  /\ UNCHANGED OnHost

HashTree(s) ==
  /\ series[s].pc = "hash"
  /\ \/ series' = [series EXCEPT ![s].source = tree, ![s].pc = "build"]
     \/ Go(s, "thrown")
  /\ UNCHANGED OnHost

\* docker compose build, in an archive of the commit: every image is built and
\* tagged with the commit; the cache may give the same image again.
BuildImage(s, i) ==
  LET built == image[series[s].sha][i]
  IN  /\ series[s].pc = "build" /\ i \in series[s].todo
      /\ \E n \in {built, built + 1} \cap 1 .. MaxBuilds :
           image' = [image EXCEPT ![series[s].sha][i] = n]
      /\ series' = [series EXCEPT ![s].todo = @ \ {i}]
      /\ UNCHANGED <<tree, project, container>>

ImagesBuilt(s) ==
  /\ series[s].pc = "build"
  /\ \/ series[s].todo = {} /\ series' = [series EXCEPT ![s].pc = "inspect", ![s].todo = Images]
     \/ Go(s, "thrown")
  /\ UNCHANGED OnHost

\* inspectImageDigests asks for one image after the other.
InspectImage(s, i) ==
  /\ series[s].pc = "inspect" /\ i \in series[s].todo
  /\ \/ series' = [series EXCEPT ![s].digests[i] = image[series[s].sha][i],
                                 ![s].todo = @ \ {i},
                                 ![s].pc = IF series[s].todo = {i} THEN "attestor" ELSE @]
     \/ Go(s, "thrown")
  /\ UNCHANGED OnHost

\* createHostAttestor: the key of the host is there, private, and the pinned one.
CreateAttestor(s) ==
  /\ series[s].pc = "attestor"
  /\ Command(s, "isolate")
  /\ UNCHANGED OnHost

\* A tag is looked up again.
StillTagged(s, i) == image[series[s].sha][i] = series[s].digests[i]

\* attestApplicationImageIsolation, which also tries the image and may find it wanting.
AttestIsolation(s) ==
  /\ series[s].pc = "isolate"
  /\ Require(s, StillTagged(s, "application"), "run")
  /\ UNCHANGED OnHost

-----------------------------------------------------------------------------
(* The runs *)

StartRun(s) ==
  /\ series[s].pc = "run"
  /\ Require(s, Clean, "compare")
  /\ UNCHANGED OnHost

CompareHead(s) ==
  /\ series[s].pc = "compare"
  /\ Require(s, tree.at = series[s].sha, "rehash")
  /\ UNCHANGED OnHost

\* The hash of the tree, and with the last check the project becomes the active one.
CompareSource(s) ==
  /\ series[s].pc = "rehash"
  /\ \/ /\ tree = series[s].source
        /\ series' = [series EXCEPT ![s].pc = "up", ![s].active = TRUE, ![s].error = FALSE]
     \/ Go(s, "thrown")
  /\ UNCHANGED OnHost

\* docker compose up creates the containers one by one from the tags.
CreateContainer(s, i) ==
  /\ series[s].pc = "up" /\ container[s][i] = 0
  /\ container' = [container EXCEPT ![s][i] = image[series[s].sha][i]]
  /\ project' = [project EXCEPT ![s] = @ \cup {series[s].ordinal}]
  /\ UNCHANGED <<tree, image, series>>

\* It ends with the exit status of the supervisor, or fails or is timed out at
\* any moment; the error is kept until the project has been removed.
RunEnds(s) ==
  /\ series[s].pc = "up"
  /\ \E error \in BOOLEAN :
       /\ ~error => \A i \in Services : container[s][i] # 0
       /\ series' = [series EXCEPT ![s].error = error, ![s].pc = "capture"]
  /\ UNCHANGED OnHost

\* attestRuntimeContainer: there is a container of every service, of the image
\* that was inspected.
Attested(s) == \A i \in Services : container[s][i] = series[s].digests[i]

\* captureRuntimeContainerAttestation writes down what was observed, beside the
\* digests the run was given in its environment; it throws if something is amiss
\* (or a container has a mount, a right or a network it may not have).
Capture(s) ==
  /\ series[s].pc = "capture"
  /\ \/ /\ Attested(s)
        /\ series' = [series EXCEPT
             ![s].pc = "copy",
             ![s].ran = Append(@, [images |-> series[s].digests, observed |-> container[s]])]
     \/ Go(s, "thrown")
  /\ UNCHANGED OnHost

CopyArtifacts(s) ==
  /\ series[s].pc = "copy"
  /\ Command(s, "down")
  /\ UNCHANGED OnHost

\* docker compose down, whose status nobody looks at: containers go first, networks and
\* volumes last, and it may stop anywhere.
Down(s) ==
  \E kept \in SUBSET Services :
    /\ container' = [container EXCEPT ![s] = [i \in Services |-> IF i \in kept THEN @[i] ELSE 0]]
    /\ \/ UNCHANGED project
       \/ kept = {} /\ project' = [project EXCEPT ![s] = @ \ {series[s].ordinal}]

Cleanup(s) ==
  /\ series[s].pc = "down"
  /\ Down(s)
  /\ Go(s, "removed")
  /\ UNCHANGED <<tree, image>>

\* Faulty variant: down is believed.
Believed(s) == series[s].pc = "removed"

Removed(s) == series[s].ordinal \notin project[s]

\* Only after assertProjectResourcesRemoved the project is no longer active, and
\* only then the error of the run is thrown.
AssertRemoved(s) ==
  /\ series[s].pc = "removed"
  /\ \/ /\ Removed(s)
        /\ series' = [series EXCEPT ![s].pc = IF series[s].error THEN "thrown" ELSE "attest",
                                    ![s].active = FALSE]
     \/ Go(s, "thrown")
  /\ UNCHANGED OnHost

\* createHostRunAttestation reads the artifacts that were copied and signs them.
AttestRun(s) ==
  /\ series[s].pc = "attest"
  /\ Command(s, "chain")
  /\ UNCHANGED OnHost

\* verifyHostWitnessChain.
CheckChain(s) ==
  /\ series[s].pc = "chain"
  /\ Command(s, "gate")
  /\ UNCHANGED OnHost

\* assertRunGate, and on to the next run.
AcceptRun(s) ==
  /\ series[s].pc = "gate"
  /\ \/ Go(s, "thrown")
     \/ /\ series[s].ordinal < REQUIRED_RUNS
        /\ series' = [series EXCEPT ![s].pc = "run", ![s].ordinal = @ + 1]
     \/ series[s].ordinal = REQUIRED_RUNS /\ Go(s, "script")
  /\ UNCHANGED OnHost

-----------------------------------------------------------------------------
(* After the runs *)

\* runIndependentReview commits to the artifacts and hashes the reviewer's script,
\* a file of the working tree.
HashScript(s) ==
  /\ series[s].pc = "script"
  /\ \/ series' = [series EXCEPT ![s].script = Script(tree), ![s].pc = "review"]
     \/ Go(s, "thrown")
  /\ UNCHANGED OnHost

\* The script is started from the tree as it is by then, and certifies its own
\* hash, which is compared with the one taken before it.
ReviewSeries(s) ==
  /\ series[s].pc = "review"
  /\ \/ /\ Script(tree) = series[s].script
        /\ series' = [series EXCEPT ![s].reviewed = Script(tree), ![s].pc = "judge"]
     \/ Go(s, "thrown")
  /\ UNCHANGED OnHost

\* The rest of the witness's envelope, the verdict and the number of findings.
JudgeReview(s) ==
  /\ series[s].pc = "judge"
  /\ Command(s, "verifier")
  /\ UNCHANGED OnHost

\* runOfflineVerifier looks the tag of the verifier up before it uses it.
InspectVerifier(s) ==
  /\ series[s].pc = "verifier"
  /\ Require(s, StillTagged(s, VerifierImage), "verify")
  /\ UNCHANGED OnHost

\* verifyOfficialFastGateAggregate: the runs are as many as required, and say the
\* same of their images.
EnoughRuns(s) ==
  LET ran == series[s].ran
  IN  Len(ran) = REQUIRED_RUNS /\ \A r \in DOMAIN ran : ran[r].images = ran[1].images

\* runtimeServiceValid, for the image of a container.
ServiceAttested(run, i) == run.observed[i] = run.images[i]

\* verifyHostRunAttestation.
RunAttested(run) == \A i \in Services : ServiceAttested(run, i)

\* The verifier's own copy of the reviewer's script is that of the commit: its
\* image was built from the archive, by whichever series.
OwnScript(s) == [at |-> series[s].sha, edited |-> FALSE]

\* verifyArtifactPackage: the runs, and the review, which is of the images that
\* build-attestation.json names.
PackageValid(s) ==
  /\ EnoughRuns(s)
  /\ \A r \in DOMAIN series[s].ran : RunAttested(series[s].ran[r])
  /\ series[s].ran[1].images = series[s].digests
  /\ series[s].reviewed = OwnScript(s)

OfflineVerifier(s) ==
  /\ series[s].pc = "verify"
  /\ Require(s, PackageValid(s), "last")
  /\ UNCHANGED OnHost

\* assertCleanTrackedTree once more, and PASS is printed.
LastCheck(s) ==
  /\ series[s].pc = "last"
  /\ Require(s, Clean, "passed")
  /\ UNCHANGED OnHost

\* The handler of main: the active project is brought down once more, with an
\* environment in which compose may refuse to read its file.
Abandon(s) ==
  /\ series[s].pc = "thrown"
  /\ IF series[s].active THEN Down(s) ELSE UNCHANGED <<project, container>>
  /\ series' = [series EXCEPT ![s] = [Invocation("failed") EXCEPT
                                        !.active = series[s].active, !.ordinal = series[s].ordinal]]
  /\ UNCHANGED <<tree, image>>

\* The handler of SIGINT and SIGTERM.  From its installation on main never waits,
\* so that it runs when main is over: the signal makes commands fail before.
SignalHandler(s) ==
  /\ series[s].pc \in {"passed", "failed"}
  /\ IF series[s].active THEN Down(s) ELSE UNCHANGED <<project, container>>
  /\ Go(s, "interrupted")
  /\ UNCHANGED <<tree, image>>

Over == {"failed", "interrupted", "killed"}

\* The host stops the script: no handler runs.
Killed(s) ==
  /\ series[s].pc \notin Over \cup {"passed"}
  /\ series' = [series EXCEPT ![s] = Invocation("killed")]
  /\ UNCHANGED OnHost

-----------------------------------------------------------------------------
(* Developers *)

EditTree ==
  /\ \E e \in {"script", "elsewhere"} :
       tree' = [tree EXCEPT !.edited = IF Clean THEN e ELSE "nothing"]
  /\ UNCHANGED <<image, project, container, series>>

Checkout(c) ==
  /\ Clean /\ c # tree.at
  /\ tree' = [tree EXCEPT !.at = c]
  /\ UNCHANGED <<image, project, container, series>>

GateSeriesNext ==
  \/ \E s \in Series :
       \/ BeginSeries(s) \/ ReadHead(s) \/ HashTree(s) \/ ImagesBuilt(s)
       \/ \E i \in Images : BuildImage(s, i) \/ InspectImage(s, i)
       \/ CreateAttestor(s) \/ AttestIsolation(s)
       \/ StartRun(s) \/ CompareHead(s) \/ CompareSource(s) \/ RunEnds(s) \/ Capture(s)
       \/ \E i \in Services : CreateContainer(s, i)
       \/ CopyArtifacts(s) \/ Cleanup(s) \/ AssertRemoved(s)
       \/ AttestRun(s) \/ CheckChain(s) \/ AcceptRun(s)
       \/ HashScript(s) \/ ReviewSeries(s) \/ JudgeReview(s)
       \/ InspectVerifier(s) \/ OfflineVerifier(s) \/ LastCheck(s)
       \/ Abandon(s) \/ SignalHandler(s) \/ Killed(s)
  \/ EditTree
  \/ \E c \in Commits : Checkout(c)

GateSeriesSpec == GateSeriesInit /\ [][GateSeriesNext]_seriesVars

-----------------------------------------------------------------------------
(* Properties *)

\* fastgate-official.ts: a series that passed ran as often as required, each time
\* from the very images it had inspected, although another series may have moved
\* their tags; its review names the reviewer's script of its own commit, although
\* somebody may have edited the working tree since; nothing of its projects is left
\* on the host, and no run was started beside the remains of an earlier one.
SeriesIsOfOneBuild ==
  \A s \in Series :
    /\ series[s].pc = "passed" =>
         /\ Len(series[s].ran) = REQUIRED_RUNS
         /\ \A r \in DOMAIN series[s].ran :
              series[s].ran[r].observed = [i \in Services |-> series[s].digests[i]]
         /\ series[s].reviewed = OwnScript(s)
         /\ project[s] = {}
    /\ series[s].pc \notin Over => project[s] \subseteq {series[s].ordinal}
=============================================================================
