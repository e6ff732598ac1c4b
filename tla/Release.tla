------------------------------ MODULE Release ------------------------------
(***************************************************************************)
(* The release gate at work.  An authority seals evidence; whoever prepares *)
(* a release reports checks and attaches a copy of the evidence to a        *)
(* ReleaseInputs document, possibly cut short, altered or forged; `nas      *)
(* gate' evaluates the document at any time and may leave its decision in a *)
(* file; the file may be altered; a deployer accepts a decision that        *)
(* verifies and authorizes.                                                 *)
(***************************************************************************)
EXTENDS ReleaseGate, CommandLine, SequencesExt

CONSTANTS Drafts,        \* documents before any check or evidence is in them
          CheckReports,  \* the reports that a check may be given
          EvidenceInputs,
          InputsPath,    \* the word that names the document
          Manifests,     \* release manifests
          Authority,     \* the authority that seals evidence and decides
          Other,         \* another identity
          Ring,          \* the authority's signer
          ForeignRing,   \* a signer whose secrets are not Ring's
          Scopes         \* bounds on the evidence sealed, on the check reports
                         \* of a document and on the decisions made, and the
                         \* argument lists that nas is run with

ASSUME ReleaseAssumption ==
  /\ \A s \in Scopes :
        /\ {s.evidence, s.reports, s.decisions} \subseteq Nat
        /\ \A line \in s.lines :
             line # <<>> /\ line \in Seq(Range(line)) /\ Bare \notin Range(line)
  /\ "--out" \in Flags
  /\ HasKey(Ring, Ring.defaultKeyId)
  /\ HasKey(ForeignRing, ForeignRing.defaultKeyId)
  /\ \A k \in DOMAIN Ring.keys, f \in DOMAIN ForeignRing.keys :
        Ring.keys[k] # ForeignRing.keys[f]
  /\ \A c \in CheckReports : c.status \in {"pass", "fail", "incomplete", "skipped"}
  /\ \A d \in Drafts :
       /\ d = [manifest |-> d.manifest, policy |-> d.policy, checks |-> <<>>,
               evidence |-> <<>>, antiSlop |-> d.antiSlop, review |-> d.review,
               hardBlockers |-> d.hardBlockers,
               riskAcceptances |-> d.riskAcceptances]
       /\ d.manifest \in Manifests
       /\ d.manifest.createdAt \in Nat
       /\ \A r \in d.riskAcceptances : r.expiresAt \in Nat

ASSUME PathAssumption == InputsPath # ""

VARIABLES scope,     \* the bounds of this behaviour
          chain,     \* the authority's evidence log
          inputs,    \* the document
          file,      \* the decision that `nas gate --out' wrote
          issued,    \* history: [decision, inputs] of every decision made
          exitCode   \* of the last run of nas: 0 lets a pipeline deploy

vars == <<scope, chain, inputs, file, issued, exitCode>>

NoDecision == [verdict |-> "none"]  \* there is no decision file

Init ==
  /\ scope \in Scopes
  /\ chain = <<>>
  /\ inputs \in Drafts
  /\ file = NoDecision
  /\ issued = {}
  /\ exitCode = 1

----------------------------------------------------------------------------
(* Preparation of a release, until the last decision of the bounds is made. *)

Undecided == Cardinality(issued) < scope.decisions

Sealing(input) ==
  /\ Undecided
  /\ Len(chain) < scope.evidence
  /\ chain' = Append(chain, Seal(chain, Len(chain), input, Authority, Ring))
  /\ UNCHANGED <<scope, inputs, file, issued>>

\* By a program that keeps the authority's log.
SealEvidence(input) == Sealing(input) /\ UNCHANGED exitCode

ReportCheck(report) ==
  /\ Undecided
  /\ Len(inputs.checks) < scope.reports
  /\ inputs' = [inputs EXCEPT !.checks = Append(@, report)]
  /\ UNCHANGED <<scope, chain, file, issued, exitCode>>

Attach(evidence) ==
  /\ Undecided
  /\ inputs' = [inputs EXCEPT !.evidence = evidence]
  /\ UNCHANGED <<scope, chain, file, issued, exitCode>>

\* The evidence so far, or the first records of it.
AttachEvidence == \E n \in 0..Len(chain) : Attach(SubSeq(chain, 1, n))

\* The evidence with the input of one record changed.
AttachAltered ==
  \E i \in 1..Len(chain), x \in EvidenceInputs :
    Attach([chain EXCEPT ![i].input = x])

\* The evidence with a record that another signer sealed after it.
AttachForged ==
  \E x \in EvidenceInputs :
    Attach(Append(chain, Seal(chain, Len(chain), x, Authority, ForeignRing)))

----------------------------------------------------------------------------
\* Bug: any verdict but "blocked" exits 0.
GateTolerant(out) ==
  /\ Undecided
  /\ UNCHANGED <<scope, chain, inputs>>
  /\ LET d == EvaluateRelease(inputs, Cardinality(issued), Authority, Ring) IN
     /\ issued' = issued \union {[decision |-> d, inputs |-> inputs]}
     /\ file' = IF out THEN d ELSE file
     /\ exitCode' = IF d.verdict # "blocked" THEN 0 ELSE 2

(* gateCommand on a document with the shape of one.  Without --out the file *)
(* of an earlier decision stays.                                            *)
Gate(out) ==
  /\ Undecided
  /\ UNCHANGED <<scope, chain, inputs>>
  /\ LET d == EvaluateRelease(inputs, Cardinality(issued), Authority, Ring) IN
     /\ issued' = issued \union {[decision |-> d, inputs |-> inputs]}
     /\ file' = IF out THEN d ELSE file
     /\ exitCode' = IF d.verdict \in {"pass", "warning"} THEN 0 ELSE 2

\* gateCommand gets to the document, which its second word names.
Gates(args) == Word(args, 1, "gate") /\ Word(args, 2, InputsPath)

\* evidenceAdd has what it needs: a file goes before an inline text, which may
\* be empty.
Adds(args) ==
  /\ Word(args, 1, "evidence") /\ Word(args, 2, "add")
  /\ HasValue(args, "--kind") /\ HasValue(args, "--summary")
  /\ IF Given(args, "--file") THEN HasValue(args, "--file") ELSE Given(args, "--content")

\* What runCli answers by itself.
Prints(args) == Word(args, 1, "help") \/ Word(args, 1, "version")

\* Commands that look at a review, at the evidence, or at a chain of their own,
\* and exit 0 if they like what they see.
Inspects(args) ==
  \/ Word(args, 1, "demo")
  \/ Word(args, 1, "antislop") /\ Len(args.positionals) > 1 /\ ~Word(args, 2, "")
  \/ Word(args, 1, "evidence") /\ (Word(args, 2, "verify") \/ Word(args, 2, "list"))

Succeeds ==
  /\ exitCode' = 0
  /\ UNCHANGED <<scope, chain, inputs, file, issued>>

\* Bug: an error exits as a refusal does.
FailsAsRefusal ==
  /\ exitCode' = 2
  /\ UNCHANGED <<scope, chain, inputs, file, issued>>

\* No command or an unknown one, a word missing, a file that is not a document,
\* no signing key, or a command that does not like what it sees.
Fails ==
  /\ exitCode' = 1
  /\ UNCHANGED <<scope, chain, inputs, file, issued>>

\* runCli.  Only help and version cannot fail.
Nas(line) ==
  LET args == ParseArgs(line)
  IN \/ Gates(args) /\ Gate(HasValue(args, "--out"))
     \/ Adds(args) /\ \E x \in EvidenceInputs : Sealing(x) /\ exitCode' = 0
     \/ (Prints(args) \/ Inspects(args)) /\ Succeeds
     \/ ~Prints(args) /\ Fails

\* One field of the decision file is changed.
AlterDecision ==
  /\ file \in {e.decision : e \in issued}
  /\ file' \in {[file EXCEPT !.verdict = v] : v \in {"pass", "blocked"}}
               \union {[file EXCEPT !.manifest = m] : m \in Manifests}
               \union {[file EXCEPT !.blocking = {}], [file EXCEPT !.signedBy = Other]}
  /\ UNCHANGED <<scope, chain, inputs, issued, exitCode>>

----------------------------------------------------------------------------
(* A deployer that asks the kernel's two questions of the file deploys what *)
(* it describes; that changes nothing here.                                 *)
Deployable ==
  /\ file # NoDecision
  /\ VerifyDecisionSignature(file, Ring)
  /\ DecisionAuthorizesDeploy(file)

Next ==
  \/ \E x \in EvidenceInputs : SealEvidence(x)
  \/ \E r \in CheckReports : ReportCheck(r)
  \/ AttachEvidence
  \/ AttachAltered
  \/ AttachForged
  \/ \E line \in scope.lines : Nas(line)
  \/ AlterDecision

Spec == Init /\ [][Next]_vars

----------------------------------------------------------------------------
IsDecision(d) ==
  /\ DOMAIN d = {"id", "verdict", "manifest", "blocking", "warnings",
                 "inputsDigest", "signedBy", "signature"}
  /\ d.verdict \in {"pass", "warning", "fail", "blocked"}
  /\ d.manifest \in Manifests

TypeOK ==
  /\ scope \in Scopes
  /\ Len(chain) <= scope.evidence /\ VerifyChain(chain, Ring)
  /\ Len(inputs.checks) <= scope.reports
  /\ \E d \in Drafts :
       inputs = [d EXCEPT !.checks = inputs.checks, !.evidence = inputs.evidence]
  /\ file = NoDecision \/ IsDecision(file)
  /\ \A e \in issued : IsDecision(e.decision) /\ e.decision.id < scope.decisions
  /\ exitCode \in 0..2
  /\ exitCode = 2 => issued # {}

(* When a document may be released, as the contract tells it: the evidence  *)
(* is what the authority sealed (not: what verifies), each check is         *)
(* reported once, and nothing that the policy asks for is missing.          *)
CheckSatisfied(in, n) ==
  \E i \in DOMAIN in.checks :
    /\ in.checks[i].name = n
    /\ \/ /\ in.checks[i].status = "pass"
          /\ \E j \in DOMAIN in.evidence :
                in.evidence[j].id = in.checks[i].evidenceId
       \/ in.checks[i].status = "incomplete" /\ in.policy.allowIncompleteAsWarning

Reviewed(in) ==
  /\ in.review # NoReview
  /\ in.review.approved
  /\ in.review.reviewer # in.review.authorId
  /\ in.review.reviewer # in.manifest.createdBy

Ready(in) ==
  /\ IsPrefix(in.evidence, chain)
  /\ \A k \in in.policy.requiredEvidenceKinds :
       \E j \in DOMAIN in.evidence : in.evidence[j].input.kind = k
  /\ \A i, j \in DOMAIN in.checks : in.checks[i].name = in.checks[j].name => i = j
  /\ \A n \in in.policy.requiredChecks : CheckSatisfied(in, n)
  /\ in.policy.requireAntiSlopAccepted =>
       in.antiSlop.accepted /\ in.antiSlop.blocking = {}
  /\ in.policy.requireIndependentReview => Reviewed(in)
  /\ in.hardBlockers = {}

Clean(in) ==
  /\ \A i \in DOMAIN in.checks :
       in.checks[i].name \in in.policy.requiredChecks =>
         in.checks[i].status # "incomplete"
  /\ \A r \in in.riskAcceptances : r.expiresAt > in.manifest.createdAt

(* The gate lets through exactly the documents that are ready, and calls    *)
(* exactly the clean ones of them a pass (evaluate.ts:39-148): no copy of   *)
(* the evidence, repeated report, contradictory anti-slop result or         *)
(* self-review gets a release out, and nothing else holds one back.         *)
VerdictIsRight ==
  \A e \in issued :
    /\ DecisionAuthorizesDeploy(e.decision) <=> Ready(e.inputs)
    /\ e.decision.verdict = "pass" <=> Ready(e.inputs) /\ Clean(e.inputs)

(* What a deployer takes from the file was decided: its verdict, manifest   *)
(* and reasons are those of one decision, which the gate issued on a ready  *)
(* document for that manifest (verify.ts:10, :26).                          *)
DeployedWasDecided ==
  Deployable => \E e \in issued :
    /\ \A field \in {"id", "verdict", "manifest", "blocking", "warnings"} :
         file[field] = e.decision[field]
    /\ file.manifest = e.inputs.manifest
    /\ Ready(e.inputs)

(* A run whose line says gate first exits 0 only if the line names the      *)
(* document and that is ready: a pipeline that deploys on this 0 deploys    *)
(* nothing else.  Another 0 tells nothing of a release: the first word that *)
(* no flag took was another command, as in `nas --json gate version', and   *)
(* nothing was decided.  The decision file is written exactly by a run that *)
(* decides and whose line gives --out a word (run.ts:40-53, gate.ts:31,     *)
(* :52; args.ts:17).                                                        *)
ExitZeroIffReady ==
  [][\A line \in scope.lines : Nas(line) =>
       IF issued' = issued
       THEN (exitCode' = 0 => ~Says(line, 1, "gate")) /\ file' = file
       ELSE /\ Says(line, 1, "gate") /\ Says(line, 2, InputsPath)
            /\ (exitCode' = 0) <=> Ready(inputs)
            /\ (file' # file) <=> AsksFor(line, "--out")]_vars

(* What release.ts:83 says: without allowIncompleteAsWarning, any check     *)
(* that is incomplete blocks.                                               *)
AnyIncompleteBlocks ==
  \A e \in issued :
    /\ ~e.inputs.policy.allowIncompleteAsWarning
    /\ \E i \in DOMAIN e.inputs.checks : e.inputs.checks[i].status = "incomplete"
    => e.decision.verdict = "blocked"
============================================================================
