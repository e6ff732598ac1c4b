----------------------------- MODULE Lifecycle -----------------------------
(***************************************************************************)
(* The kernels composed, by what drives them: callers of the broker and the *)
(* engine in any order; `nas demo', which authorizes, seals the receipts as *)
(* evidence, reviews, releases and then tampers; and the sample that the    *)
(* web application runs once and renders.                                   *)
(***************************************************************************)
EXTENDS Authz, ReleaseGate, ResourcePattern, Policies, SequencesExt

CONSTANTS Callers,       \* maps each caller to [bodies, requests, allows]: what
                         \* it has signed and registered, what it asks for, and
                         \* a bound on the requests allowed
          Demo, App,     \* the two programs that drive the kernels themselves
          Times,         \* what the clock may show, at each reading anew
          Authority,     \* seals the evidence and decides
          Author,        \* who made the build
          Running        \* `nas demo' has not exited

VARIABLES driver,    \* what drives the kernels in this behaviour
          asked,     \* the receipts of the demo
          log,       \* its evidence log
          decisions, \* its release decisions
          exitCode   \* of the demo

lifeVars == <<vars, driver, asked, log, decisions, exitCode>>

----------------------------------------------------------------------------
(* What a grant's pattern admits is not a parameter here.                   *)
Patterns == {c.resource : c \in UNION {b.capabilities : b \in Bodies}}

Resources == {r.resource : r \in Requests}

Matched == {p \in Patterns \X Resources : ResourceMatches(p[1], p[2])}

Meant == {p \in Patterns \X Resources : Means(p[1], p[2])}

----------------------------------------------------------------------------
(* The demo's grant and its two requests.                                   *)

DemoGrant(now) ==
  [id |-> "grant_demo_1", subjectId |-> "agent.frontend", audience |-> "fs-adapter",
   capabilities |-> {[action |-> "fs.write",
                      resource |-> <<"repo:", Slash, "src", Slash, Star, Star>>]},
   issuedAt |-> now, notBefore |-> Absent, expiresAt |-> 2999,
   nonce |-> "nonce-demo-0001", maxUses |-> 1, keyId |-> Ring.defaultKeyId]

AllowReq(now) ==
  [grantId |-> "grant_demo_1", subjectId |-> "agent.frontend",
   audience |-> "fs-adapter", nonce |-> "nonce-demo-0001", action |-> "fs.write",
   resource |-> <<"repo:", Slash, "src", Slash, "app", Slash, "page.tsx">>,
   at |-> now, wellFormed |-> TRUE]

DenyReq(now) ==
  [AllowReq(now) EXCEPT !.action = "secret.use",
                        !.resource = <<"secret:", Slash, "GITHUB_TOKEN">>]

\* Bug: the request that is allowed comes first.
DemoRequestsAllowFirst(now) == <<AllowReq(now), DenyReq(now)>>

DemoRequests(now) == <<DenyReq(now), AllowReq(now)>>

ASSUME LifecycleAssumption ==
  /\ Matching = Matched
  /\ \A s \in Patterns \union Resources : s \in Seq(Range(s))
  /\ \A p \in Patterns : {SegmentRun, AnyRun} \intersect Range(p) = {}
  /\ Times # {} /\ Times \subseteq 0..2998  \* the grant has not expired
  /\ Demo # App /\ DOMAIN Callers \intersect {Demo, App} = {}
  /\ \A c \in DOMAIN Callers :
       Callers[c].bodies \subseteq Bodies /\ Callers[c].requests \subseteq Requests
  /\ \A now \in Times : /\ DemoGrant(now) \in Bodies
                        /\ {AllowReq(now), DenyReq(now)} \subseteq Requests
                        /\ (Range(AllowReq(now).resource) \union {Star})
                             \intersect (ControlChars \union LineSeparators) = {}
  /\ HasKey(Ring, Ring.defaultKeyId)

----------------------------------------------------------------------------
(* The evidence, the review and the release documents of the two programs.  *)

Entry(kind, text) == [kind |-> kind, summary |-> [text |-> text]]

ReceiptToEvidenceInput(r) == [kind |-> "authz_receipt", summary |-> r]

DemoEvidence ==
  << ReceiptToEvidenceInput(asked[1]), ReceiptToEvidenceInput(asked[2]),
     Entry("test", "typecheck"), Entry("test", "lint"), Entry("test", "unit"),
     Entry("build", "succeeded"), Entry("accessibility_result", "axe"),
     Entry("anti_slop_review", "accepted") >>

AppEvidence ==
  << Entry("test", "typecheck"), Entry("test", "lint"), Entry("test", "unit"),
     Entry("test", "integration"), Entry("accessibility_result", "axe"),
     Entry("command", "scan"), Entry("build", "succeeded"),
     Entry("anti_slop_review", "accepted") >>

Gate ==
  INSTANCE AntiSlopGate WITH
    Dimensions <- AntiSlopDimension,
    Required <- [t \in DOMAIN REQUIRED_DIMENSIONS |-> ToSet(REQUIRED_DIMENSIONS[t])]

AntiSlop ==
  LET required == requiredDimensionsFor("product_feature") IN
  Gate!EvaluateReview(
    [changeType |-> "product_feature", createdAt |-> 0, exceptions |-> <<>>,
     grades |-> [i \in DOMAIN required |->
                   [dimension |-> required[i], grade |-> "pass"]]])

\* A check passed, with the evidence of the given place in the log.
Passed(name, place) ==
  [name |-> name, status |-> "pass", evidenceId |-> log[place].id]

DemoChecks == <<Passed("typecheck", 3), Passed("lint", 4), Passed("unit", 5)>>

AppChecks ==
  << Passed("typecheck", 1), Passed("lint", 2), Passed("unit", 3),
     Passed("integration", 4), Passed("accessibility", 5), Passed("security", 6) >>

Document(environment, policy, checks) ==
  [manifest |-> [targetEnvironment |-> environment, createdAt |-> 0,
                 createdBy |-> Author],
   policy |-> policy, checks |-> checks, evidence |-> log,
   antiSlop |-> [accepted |-> AntiSlop.accepted,
                 blocking |-> DOMAIN AntiSlop.blocking],
   review |-> NoReview, hardBlockers |-> {}, riskAcceptances |-> {}]

\* The first record's summary is altered, and nothing else.
Tampered(in) ==
  [in EXCEPT !.evidence[1].input.summary = [text |-> "silently altered"]]

DemoDocuments ==
  LET staging == Document("staging", STAGING_POLICY, DemoChecks)
  IN <<staging, Tampered(staging)>>

AppDocuments ==
  << Document("staging", STAGING_POLICY, AppChecks),
     Document("production", PRODUCTION_POLICY, AppChecks) >>

----------------------------------------------------------------------------
LifeInit ==
  /\ Init
  /\ driver \in DOMAIN Callers \union {Demo, App}
  /\ asked = <<>> /\ log = <<>> /\ decisions = <<>>
  /\ exitCode = Running

Call ==
  /\ driver \in DOMAIN Callers
  /\ \/ \E b \in Callers[driver].bodies :
          \/ Issue(b)
          \/ \E s \in KnownSignatures : Register(b, s)
     \/ /\ Len(allows) < Callers[driver].allows
        /\ \E req \in Callers[driver].requests : Authorize(req)
     \/ Restart
  /\ UNCHANGED <<driver, asked, log, decisions, exitCode>>

DemoIssue ==
  /\ driver = Demo /\ minted = {}
  /\ \E now \in Times : Issue(DemoGrant(now))
  /\ UNCHANGED <<driver, asked, log, decisions, exitCode>>

DemoRegister ==
  /\ driver = Demo /\ grants["grant_demo_1"] = NoGrant
  /\ \E g \in minted : Register(g.body, g.signature)
  /\ UNCHANGED <<driver, asked, log, decisions, exitCode>>

\* The clock is read again for the first request, and the second has its time.
DemoAsk ==
  /\ driver = Demo /\ grants["grant_demo_1"] # NoGrant
  /\ Len(asked) < 2
  /\ \E now \in Times :
       /\ asked # <<>> => now = asked[1].request.at
       /\ Authorize(DemoRequests(now)[Len(asked) + 1])
  /\ asked' = Append(asked, receipt')
  /\ UNCHANGED <<driver, log, decisions, exitCode>>

SealNext(evidence) ==
  /\ Len(log) < Len(evidence)
  /\ log' = Append(log, Seal(log, Len(log), evidence[Len(log) + 1], Authority, Ring))
  /\ UNCHANGED <<vars, driver, asked, decisions, exitCode>>

EvaluateNext(documents) ==
  /\ Len(decisions) < Len(documents)
  /\ LET in == documents[Len(decisions) + 1]
     IN decisions' = Append(decisions,
                            EvaluateRelease(in, Len(decisions), Authority, Ring))
  /\ UNCHANGED <<vars, driver, asked, log, exitCode>>

DemoSeal == driver = Demo /\ Len(asked) = 2 /\ SealNext(DemoEvidence)

DemoEvaluate ==
  /\ driver = Demo /\ Len(log) = 8
  /\ EvaluateNext(DemoDocuments)

Ok ==
  /\ asked[2].outcome = "allowed"
  /\ asked[1].outcome = "no_matching_capability"
  /\ VerifyChain(log, Ring)
  /\ AntiSlop.accepted
  /\ decisions[1].verdict = "pass"
  /\ decisions[2].verdict = "blocked"

DemoExit ==
  /\ driver = Demo /\ Len(decisions) = 2 /\ exitCode = Running
  /\ exitCode' = IF Ok THEN 0 ELSE 1
  /\ UNCHANGED <<vars, driver, asked, log, decisions>>

AppSeal == driver = App /\ SealNext(AppEvidence)

\* What getLifecycle computes it keeps: later calls return the same.
AppEvaluate == driver = App /\ Len(log) = 8 /\ EvaluateNext(AppDocuments)

LifeNext ==
  \/ Call
  \/ DemoIssue \/ DemoRegister \/ DemoAsk \/ DemoSeal \/ DemoEvaluate \/ DemoExit
  \/ AppSeal \/ AppEvaluate

LifeSpec == LifeInit /\ [][LifeNext]_lifeVars

----------------------------------------------------------------------------
LifeTypeOK ==
  /\ TypeOK
  /\ driver \in DOMAIN Callers \union {Demo, App}
  /\ \A i \in DOMAIN asked : asked[i].request \in Requests
  /\ Len(log) <= 8 /\ VerifyChain(log, Ring)
  /\ \A i \in DOMAIN decisions :
       VerifyDecisionSignature(decisions[i], Ring) /\ decisions[i].id = i - 1
  /\ exitCode \in {Running, 0, 1}

\* A capability of the grant that req names is meant for it.
Admitted(req) ==
  \E c \in grants[req.grantId].body.capabilities :
    c.action = req.action /\ <<c.resource, req.resource>> \in Meant

(* Of the requests that get as far as the capabilities of a grant, exactly  *)
(* those are allowed that a pattern admits by the meaning of its stars      *)
(* (resource.ts:6-8): no pairing of stars, anchor, separator or control     *)
(* character lets another resource in or keeps one out.                     *)
PatternsMeanWhatTheySay ==
  [][/\ receipt' # receipt
     /\ receipt'.outcome \in {"allowed", "no_matching_capability"}
     => (receipt'.outcome = "allowed" <=> Admitted(receipt'.request))]_lifeVars

(* The demo reports success exactly if the clock did not step back between  *)
(* its two readings (demo.ts:60, :75), although its grant has one use and   *)
(* two requests claim it; and the receipts it seals say of exactly the      *)
(* requests the engine allowed that they were.                              *)
DemoTellsWhatHappened ==
  exitCode # Running =>
    /\ (exitCode = 0) <=> \E g \in minted : g.body.issuedAt <= asked[1].request.at
    /\ {log[i].input.summary.request : i \in
          {j \in DOMAIN log : /\ log[j].input.kind = "authz_receipt"
                              /\ log[j].input.summary.outcome = "allowed"}}
         = {allows[i].request : i \in DOMAIN allows}

(* Both programs show a release that passes, then one that is refused, and  *)
(* refused for the reason that the program gives for it and no other: the   *)
(* altered record (demo.ts:169-178), the missing independent review         *)
(* (lifecycle.ts:166-167).                                                  *)
RefusedForTheReasonShown ==
  Len(decisions) = 2 =>
    /\ decisions[1].verdict = "pass" /\ decisions[1].warnings = {}
    /\ decisions[2].verdict = "blocked"
    /\ decisions[2].blocking =
         {IF driver = Demo THEN Reason("chain", "evidence")
          ELSE Reason("review", "self or none")}
============================================================================
