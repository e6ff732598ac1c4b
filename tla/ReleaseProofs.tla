---------------------------- MODULE ReleaseProofs ----------------------------
(***************************************************************************)
(* The release gate decides rightly for every document, policy, number of   *)
(* checks and length of the evidence.  First, what the gate says of one     *)
(* document; then the invariant: a copy of the evidence that verifies is    *)
(* the start of the authority's chain, every decision is the gate's, and    *)
(* the decision file carries the signature of one.  Last, how nas reads its *)
(* line, by induction from its end, and what its exit code tells.           *)
(***************************************************************************)
EXTENDS Release, ChainProofs, FiniteSetTheorems

Unique(checks) ==
  \A i, j \in DOMAIN checks : checks[i].name = checks[j].name => i = j

(* A document of the model: a draft with reports and evidence filled in.    *)
Document(in) ==
  /\ in.checks \in Seq(CheckReports)
  /\ IsSeq(in.evidence)
  /\ \E d \in Drafts :
       in = [d EXCEPT !.checks = in.checks, !.evidence = in.evidence]

(* Ready, but for the evidence: there, what the gate can tell.              *)
LooksReady(in) ==
  /\ VerifyChain(in.evidence, Ring)
  /\ \A k \in in.policy.requiredEvidenceKinds :
       \E j \in DOMAIN in.evidence : in.evidence[j].input.kind = k
  /\ Unique(in.checks)
  /\ \A n \in in.policy.requiredChecks : CheckSatisfied(in, n)
  /\ in.policy.requireAntiSlopAccepted =>
       in.antiSlop.accepted /\ in.antiSlop.blocking = {}
  /\ in.policy.requireIndependentReview => Reviewed(in)
  /\ in.hardBlockers = {}

----------------------------------------------------------------------------
(* Reports of one name are found exactly if two of them are.                *)
LEMMA DuplicatedIff ==
  ASSUME NEW S, NEW checks \in Seq(S)
  PROVE  Duplicated(checks) = {} <=> Unique(checks)
  <1>1. DOMAIN checks = 1..Len(checks) /\ Len(checks) \in Nat
    OBVIOUS
  <1>2. ASSUME Unique(checks) PROVE Duplicated(checks) = {}
    <2>1. \A j \in DOMAIN checks : \A k \in 1..(j - 1) :
            k \in DOMAIN checks /\ k # j
      BY <1>1
    <2> QED BY <1>2, <2>1 DEF Duplicated, Unique
  <1>3. ASSUME Duplicated(checks) = {}, NEW i \in DOMAIN checks, NEW j \in DOMAIN checks,
               checks[i].name = checks[j].name
        PROVE  i = j
    <2>1. \A m \in DOMAIN checks : \A k \in 1..(m - 1) : checks[k].name # checks[m].name
      BY <1>3 DEF Duplicated
    <2>2. i < j => i \in 1..(j - 1)
      BY <1>1
    <2>3. j < i => j \in 1..(i - 1)
      BY <1>1
    <2> QED BY <1>1, <1>3, <2>1, <2>2, <2>3
  <1> QED BY <1>2, <1>3 DEF Unique

(* A name reported once stands for that report.                             *)
LEMMA OneReport ==
  ASSUME NEW S, NEW checks \in Seq(S), Unique(checks), NEW i \in DOMAIN checks
  PROVE  CheckByName(checks, checks[i].name) = checks[i]
  <1>1. i \in Int
    OBVIOUS
  <1>2. Reports(checks, checks[i].name) = {i}
    BY DEF Reports, Unique
  <1>3. Max({i}) = i
    BY <1>1 DEF Max
  <1> QED BY <1>2, <1>3 DEF CheckByName

(* Structural reasons are missing exactly if nothing structural is wrong.   *)
LEMMA NothingBlocks ==
  ASSUME NEW in
  PROVE  Blocked(in, Ring) = {} <=>
           /\ VerifyChain(in.evidence, Ring)
           /\ in.policy.requiredEvidenceKinds \subseteq Kinds(in.evidence)
           /\ Duplicated(in.checks) = {}
           /\ in.policy.requiredChecks \subseteq Reported(in)
           /\ Unbacked(in) = {}
           /\ ~in.policy.allowIncompleteAsWarning => RequiredWith(in, "incomplete") = {}
           /\ RequiredWith(in, "skipped") = {}
           /\ ~ReviewBlocks(in)
           /\ in.hardBlockers = {}
  <1> DEFINE Each(what, S) == {Reason(what, n) : n \in S}
             incompletes == IF in.policy.allowIncompleteAsWarning THEN {}
                            ELSE RequiredWith(in, "incomplete")
             B1 == IF VerifyChain(in.evidence, Ring) THEN {} ELSE {Reason("chain", "evidence")}
             B2 == Each("kind", in.policy.requiredEvidenceKinds \ Kinds(in.evidence))
             B3 == Each("duplicate", Duplicated(in.checks))
             B4 == Each("missing", in.policy.requiredChecks \ Reported(in))
             B5 == Each("unbacked", Unbacked(in))
             B6 == Each("incomplete", incompletes)
             B7 == Each("skipped", RequiredWith(in, "skipped"))
             B8 == IF ReviewBlocks(in) THEN {Reason("review", "self or none")} ELSE {}
             B9 == Each("hard", in.hardBlockers)
  <1>1. Blocked(in, Ring) = UNION {B1, B2, B3, B4, B5, B6, B7, B8, B9}
    BY DEF Blocked
  <1>2. \A what, S : Each(what, S) = {} <=> S = {}
    OBVIOUS
  <1>3. B1 = {} <=> VerifyChain(in.evidence, Ring)
    OBVIOUS
  <1>4. B2 = {} <=> in.policy.requiredEvidenceKinds \subseteq Kinds(in.evidence)
    OBVIOUS
  <1>5. B4 = {} <=> in.policy.requiredChecks \subseteq Reported(in)
    OBVIOUS
  <1>6. B6 = {} <=> (~in.policy.allowIncompleteAsWarning => RequiredWith(in, "incomplete") = {})
    OBVIOUS
  <1>7. B8 = {} <=> ~ReviewBlocks(in)
    OBVIOUS
  <1>8. /\ B3 = {} <=> Duplicated(in.checks) = {}
        /\ B5 = {} <=> Unbacked(in) = {}
        /\ B7 = {} <=> RequiredWith(in, "skipped") = {}
        /\ B9 = {} <=> in.hardBlockers = {}
    BY <1>2
  <1> HIDE DEF B1, B2, B3, B4, B5, B6, B7, B8, B9
  <1>9. UNION {B1, B2, B3, B4, B5, B6, B7, B8, B9} = {} <=>
          /\ B1 = {} /\ B2 = {} /\ B3 = {} /\ B4 = {} /\ B5 = {}
          /\ B6 = {} /\ B7 = {} /\ B8 = {} /\ B9 = {}
    OBVIOUS
  <1> QED BY <1>1, <1>3, <1>4, <1>5, <1>6, <1>7, <1>8, <1>9

(* Nothing fails exactly if no check, anti-slop result or review does.      *)
LEMMA NothingFails ==
  ASSUME NEW in
  PROVE  Failed(in) = {} <=>
           /\ RequiredWith(in, "fail") = {}
           /\ ~AntiSlopFails(in)
           /\ ~(/\ in.policy.requireIndependentReview
                /\ ~ReviewBlocks(in)
                /\ ~in.review.approved)
  <1> DEFINE F1 == {Reason("failed", n) : n \in RequiredWith(in, "fail")}
             F2 == IF AntiSlopFails(in) THEN {Reason("anti-slop", in.antiSlop.blocking)} ELSE {}
             rejected == /\ in.policy.requireIndependentReview
                         /\ ~ReviewBlocks(in)
                         /\ ~in.review.approved
             F3 == IF rejected THEN {Reason("review", "rejected")} ELSE {}
  <1>1. Failed(in) = UNION {F1, F2, F3}
    BY DEF Failed
  <1>2. F1 = {} <=> RequiredWith(in, "fail") = {}
    OBVIOUS
  <1>3. F2 = {} <=> ~AntiSlopFails(in)
    OBVIOUS
  <1>4. F3 = {} <=> ~rejected
    OBVIOUS
  <1> HIDE DEF F1, F2, F3, rejected
  <1>5. UNION {F1, F2, F3} = {} <=> F1 = {} /\ F2 = {} /\ F3 = {}
    OBVIOUS
  <1> QED BY <1>1, <1>2, <1>3, <1>4, <1>5 DEF rejected

(* With each name reported once, the checks give no reason exactly if every *)
(* required one is satisfied.                                               *)
LEMMA ChecksSatisfied ==
  ASSUME NEW in, in.checks \in Seq(CheckReports), Unique(in.checks)
  PROVE  (/\ in.policy.requiredChecks \subseteq Reported(in)
          /\ Unbacked(in) = {}
          /\ ~in.policy.allowIncompleteAsWarning => RequiredWith(in, "incomplete") = {}
          /\ RequiredWith(in, "skipped") = {}
          /\ RequiredWith(in, "fail") = {})
         <=> \A n \in in.policy.requiredChecks : CheckSatisfied(in, n)
  <1>1. \A i \in DOMAIN in.checks :
          /\ CheckByName(in.checks, in.checks[i].name) = in.checks[i]
          /\ in.checks[i].status \in {"pass", "fail", "incomplete", "skipped"}
    BY OneReport, ReleaseAssumption
  <1>2. ASSUME NEW n \in in.policy.requiredChecks, NEW i \in DOMAIN in.checks,
               in.checks[i].name = n
        PROVE  /\ n \in Reported(in)
               /\ \A s : n \in RequiredWith(in, s) <=> in.checks[i].status = s
               /\ n \in Unbacked(in) <=> /\ in.checks[i].status = "pass"
                                         /\ ~(\E j \in DOMAIN in.evidence :
                                                in.evidence[j].id = in.checks[i].evidenceId)
               /\ CheckSatisfied(in, n) <=>
                    \/ /\ in.checks[i].status = "pass"
                       /\ \E j \in DOMAIN in.evidence :
                            in.evidence[j].id = in.checks[i].evidenceId
                    \/ /\ in.checks[i].status = "incomplete"
                       /\ in.policy.allowIncompleteAsWarning
    <2>1. n \in Reported(in)
      BY <1>2 DEF Reported, Reports
    <2>2. \A s : n \in RequiredWith(in, s) <=> in.checks[i].status = s
      BY <1>1, <1>2, <2>1 DEF RequiredWith
    <2>3. n \in Unbacked(in) <=> /\ in.checks[i].status = "pass"
                                 /\ in.checks[i].evidenceId \notin Ids(in.evidence)
      BY <1>1, <1>2, <2>2 DEF Unbacked
    <2>4. \A j \in DOMAIN in.checks : in.checks[j].name = n => j = i
      BY <1>2 DEF Unique
    <2>5. CheckSatisfied(in, n) <=>
                    \/ /\ in.checks[i].status = "pass"
                       /\ \E j \in DOMAIN in.evidence :
                            in.evidence[j].id = in.checks[i].evidenceId
                    \/ /\ in.checks[i].status = "incomplete"
                       /\ in.policy.allowIncompleteAsWarning
      BY <1>2, <2>4 DEF CheckSatisfied
    <2> QED BY <2>1, <2>2, <2>3, <2>5 DEF Ids
  <1>3. \A s : RequiredWith(in, s) \subseteq Reported(in)
    BY DEF RequiredWith
  <1>4. /\ Reported(in) \subseteq in.policy.requiredChecks
        /\ Unbacked(in) \subseteq Reported(in)
        /\ \A n \in Reported(in) : \E i \in DOMAIN in.checks : in.checks[i].name = n
    BY DEF Reported, Reports, Unbacked, RequiredWith
  <1>5. ASSUME \A n \in in.policy.requiredChecks : CheckSatisfied(in, n)
        PROVE  /\ in.policy.requiredChecks \subseteq Reported(in)
               /\ Unbacked(in) = {}
               /\ ~in.policy.allowIncompleteAsWarning => RequiredWith(in, "incomplete") = {}
               /\ RequiredWith(in, "skipped") = {}
               /\ RequiredWith(in, "fail") = {}
    <2>1. in.policy.requiredChecks \subseteq Reported(in)
      BY <1>5 DEF CheckSatisfied, Reported, Reports
    <2> QED BY <1>2, <1>3, <1>4, <1>5, <2>1
  <1>6. ASSUME /\ in.policy.requiredChecks \subseteq Reported(in)
               /\ Unbacked(in) = {}
               /\ ~in.policy.allowIncompleteAsWarning => RequiredWith(in, "incomplete") = {}
               /\ RequiredWith(in, "skipped") = {}
               /\ RequiredWith(in, "fail") = {},
               NEW n \in in.policy.requiredChecks
        PROVE  CheckSatisfied(in, n)
    <2>1. PICK i \in DOMAIN in.checks : in.checks[i].name = n
      BY <1>4, <1>6
    <2> QED BY <1>1, <1>2, <1>6, <2>1
  <1> QED BY <1>5, <1>6

(* What a document of the model has whatever was filled in.                 *)
LEMMA DocumentFields ==
  ASSUME NEW in, Document(in)
  PROVE  /\ in.manifest \in Manifests
         /\ in.manifest.createdAt \in Nat
         /\ \A r \in in.riskAcceptances : r.expiresAt \in Nat
  <1>1. PICK d \in Drafts : in = [d EXCEPT !.checks = in.checks, !.evidence = in.evidence]
    BY DEF Document
  <1>2. {"manifest", "riskAcceptances"} \subseteq DOMAIN d
    BY ReleaseAssumption
  <1>3. in.manifest = d.manifest /\ in.riskAcceptances = d.riskAcceptances
    BY <1>1, <1>2
  <1> QED BY <1>3, ReleaseAssumption

(* The verdict authorizes exactly the documents that look ready, and is a   *)
(* pass for exactly the clean ones of them.                                 *)
LEMMA GateDecides ==
  ASSUME NEW in, Document(in)
  PROVE  /\ Verdict(in, Ring) \in {"pass", "warning"} <=> LooksReady(in)
         /\ Verdict(in, Ring) = "pass" <=> LooksReady(in) /\ Clean(in)
  <1>1. in.checks \in Seq(CheckReports)
    BY DEF Document
  <1>2. Duplicated(in.checks) = {} <=> Unique(in.checks)
    BY <1>1, DuplicatedIff
  <1>3. in.policy.requiredEvidenceKinds \subseteq Kinds(in.evidence) <=>
          \A k \in in.policy.requiredEvidenceKinds :
            \E j \in DOMAIN in.evidence : in.evidence[j].input.kind = k
    BY DEF Kinds
  <1>4. ~AntiSlopFails(in) <=>
          (in.policy.requireAntiSlopAccepted =>
             in.antiSlop.accepted /\ in.antiSlop.blocking = {})
    BY DEF AntiSlopFails
  <1>5. /\ ~ReviewBlocks(in)
        /\ ~(/\ in.policy.requireIndependentReview
             /\ ~ReviewBlocks(in)
             /\ ~in.review.approved)
        <=> (in.policy.requireIndependentReview => Reviewed(in))
    BY DEF ReviewBlocks, SelfReview, Reviewed
  <1>6. Blocked(in, Ring) = {} /\ Failed(in) = {} <=> LooksReady(in)
    <2>1. CASE Unique(in.checks)
      BY <1>1, <1>2, <1>3, <1>4, <1>5, <2>1, ChecksSatisfied, NothingBlocks, NothingFails
         DEF LooksReady
    <2>2. CASE ~Unique(in.checks)
      BY <1>2, <2>2, NothingBlocks DEF LooksReady
    <2> QED BY <2>1, <2>2
  <1>7. ASSUME LooksReady(in)
        PROVE  Warnings(in) = {} <=> Clean(in)
    <2>1. Unique(in.checks)
      BY <1>7 DEF LooksReady
    <2>2. \A i \in DOMAIN in.checks :
            CheckByName(in.checks, in.checks[i].name) = in.checks[i]
      BY <1>1, <2>1, OneReport
    <2>3. RequiredWith(in, "incomplete") = {} <=>
            \A i \in DOMAIN in.checks :
              in.checks[i].name \in in.policy.requiredChecks =>
                in.checks[i].status # "incomplete"
      BY <2>2 DEF RequiredWith, Reported, Reports
    <2>4. ~in.policy.allowIncompleteAsWarning => RequiredWith(in, "incomplete") = {}
      BY <1>6, <1>7, NothingBlocks
    <2> DEFINE incompletes == IF in.policy.allowIncompleteAsWarning
                              THEN RequiredWith(in, "incomplete") ELSE {}
               expired == {r \in in.riskAcceptances : r.expiresAt <= in.manifest.createdAt}
    <2>5. expired = {} <=> \A r \in in.riskAcceptances : r.expiresAt > in.manifest.createdAt
      BY DocumentFields
    <2>6. incompletes = {} <=> RequiredWith(in, "incomplete") = {}
      BY <2>4
    <2>7. Warnings(in) = {} <=> incompletes = {} /\ expired = {}
      <3>1. Warnings(in) = {Reason("incomplete", n) : n \in incompletes}
                             \union {Reason("expired", r) : r \in expired}
        BY DEF Warnings
      <3> HIDE DEF incompletes, expired
      <3> QED BY <3>1
    <2> HIDE DEF incompletes, expired
    <2> QED BY <2>3, <2>5, <2>6, <2>7 DEF Clean
  <1> QED BY <1>6, <1>7 DEF Verdict

----------------------------------------------------------------------------
(* The invariant.                                                           *)

IsRecord(r) ==
  r = [id |-> r.id, sequence |-> r.sequence, input |-> r.input,
       prevDigest |-> r.prevDigest, signedBy |-> r.signedBy,
       recordDigest |-> r.recordDigest, signature |-> r.signature]

ChainOK == /\ IsSeq(chain)
           /\ \A i \in 1..Len(chain) : IsRecord(chain[i])
           /\ VerifyChain(chain, Ring)

(* What verifies is the start of the authority's chain.                     *)
Genuine(in) == VerifyChain(in.evidence, Ring) => IsPrefix(in.evidence, chain)

DecisionsOK ==
  \A e \in issued :
    /\ Document(e.inputs)
    /\ Genuine(e.inputs)
    /\ e.decision = EvaluateRelease(e.inputs, e.decision.id, Authority, Ring)

FileOK ==
  file # NoDecision => \E e \in issued : file.signature = e.decision.signature

RInv ==
  /\ TypeOK
  /\ ChainOK
  /\ Document(inputs) /\ Genuine(inputs)
  /\ DecisionsOK
  /\ FileOK

(* The start of the authority's chain verifies.                             *)
LEMMA StartVerifies ==
  ASSUME ChainOK, NEW ev, IsSeq(ev), IsPrefix(ev, chain)
  PROVE  VerifyChain(ev, Ring)
  <1>1. Len(ev) \in Nat /\ Len(chain) \in Nat
    BY DEF IsSeq, ChainOK
  <1>2. Len(ev) <= Len(chain) /\ \A i \in 1..Len(ev) : ev[i] = chain[i]
    BY PrefixPointwise DEF ChainOK
  <1>3. ASSUME NEW i \in 1..Len(ev) PROVE Intact(ev[i], Ring) /\ Linked(ev, i)
    <2>1. i \in 1..Len(chain) /\ (i # 1 => i - 1 \in 1..Len(ev))
      BY <1>1, <1>2
    <2>2. Intact(chain[i], Ring) /\ Linked(chain, i)
      BY <2>1 DEF ChainOK, VerifyChain
    <2> QED BY <1>2, <2>1, <2>2 DEF Linked
  <1> QED BY <1>3 DEF VerifyChain

(* So, of a document whose evidence is genuine when it verifies, looking    *)
(* ready is being ready.                                                    *)
LEMMA LooksAreReal ==
  ASSUME ChainOK, NEW in, Document(in), Genuine(in)
  PROVE  LooksReady(in) <=> Ready(in)
  BY StartVerifies DEF Document, Genuine, LooksReady, Ready, Unique

(* Sealing more leaves what was the start of the chain its start.           *)
LEMMA StaysPrefix ==
  ASSUME IsSeq(chain), NEW r, chain' = Append(chain, r), NEW ev, IsSeq(ev),
         IsPrefix(ev, chain)
  PROVE  IsPrefix(ev, chain')
  <1>1. /\ IsSeq(chain') /\ Len(chain') = Len(chain) + 1 /\ Len(chain) \in Nat
        /\ \A i \in 1..Len(chain) : chain'[i] = chain[i]
    BY AppendIsSeq
  <1>2. Len(ev) \in Nat
    BY DEF IsSeq
  <1>3. Len(ev) <= Len(chain) /\ \A i \in 1..Len(ev) : ev[i] = chain[i]
    BY PrefixPointwise
  <1>4. Len(ev) <= Len(chain') /\ \A i \in 1..Len(ev) : ev[i] = chain'[i]
    BY <1>1, <1>2, <1>3
  <1> QED BY <1>1, <1>4, PrefixPointwise

----------------------------------------------------------------------------
(* The three ways in which evidence is attached.                            *)

(* A copy of the first records is the start of the chain.                   *)
LEMMA CopyIsGenuine ==
  ASSUME ChainOK, NEW n \in 0..Len(chain)
  PROVE  IsSeq(SubSeq(chain, 1, n)) /\ IsPrefix(SubSeq(chain, 1, n), chain)
  <1>1. /\ IsSeq(SubSeq(chain, 1, n)) /\ Len(SubSeq(chain, 1, n)) = n
        /\ \A i \in 1..n : SubSeq(chain, 1, n)[i] = chain[i]
    BY CutIsSeq DEF ChainOK
  <1>2. n <= Len(chain) /\ IsSeq(chain)
    BY DEF ChainOK, IsSeq
  <1> QED BY <1>1, <1>2, PrefixPointwise

(* A copy with an input changed verifies only if nothing was changed.       *)
LEMMA AlteredIsNot ==
  ASSUME ChainOK, NEW i \in 1..Len(chain), NEW x,
         NEW ev, ev = [chain EXCEPT ![i].input = x]
  PROVE  /\ IsSeq(ev)
         /\ VerifyChain(ev, Ring) => ev = chain
  <1> DEFINE r == [chain[i] EXCEPT !.input = x]
  <1>1. IsSeq(chain) /\ IsRecord(chain[i])
    BY DEF ChainOK
  <1>2. ev = [chain EXCEPT ![i] = r]
    OBVIOUS
  <1>3. chain \in Seq(Range(chain) \union {r})
    BY <1>1, SeqMonotonic DEF IsSeq
  <1>4. /\ ev \in Seq(Range(chain) \union {r}) /\ Len(ev) = Len(chain)
        /\ ev[i] = r
    BY <1>2, <1>3, ExceptSeq
  <1>5. r.input = x /\ r.signature = chain[i].signature
    BY <1>1 DEF IsRecord
  <1>6. ASSUME VerifyChain(ev, Ring) PROVE ev = chain
    <2>1. Intact(r, Ring) /\ Intact(chain[i], Ring)
      BY <1>4, <1>6 DEF VerifyChain, ChainOK
    <2>2. RecordBody(r) = RecordBody(chain[i])
      BY <1>5, <2>1, SameSignatureSameBody
    <2>3. chain[i].input = x
      BY <1>5, <2>2, BodyFields
    <2>4. r = chain[i]
      BY <1>1, <2>3 DEF IsRecord
    <2> QED BY <1>2, <1>3, <2>4
  <1> QED BY <1>4, <1>6, SeqIsSeq

(* A copy with a record of another signer does not verify.                  *)
LEMMA ForgedIsNot ==
  ASSUME ChainOK, NEW x,
         NEW ev, ev = Append(chain, Seal(chain, Len(chain), x, Authority, ForeignRing))
  PROVE  IsSeq(ev) /\ ~VerifyChain(ev, Ring)
  <1> DEFINE r == Seal(chain, Len(chain), x, Authority, ForeignRing)
  <1>1. /\ IsSeq(ev) /\ Len(ev) = Len(chain) + 1 /\ Len(chain) \in Nat
        /\ ev[Len(chain) + 1] = r
    BY AppendIsSeq DEF ChainOK
  <1>2. r.signature = Sign(ForeignRing, r.recordDigest)
    BY DEF Seal
  <1>3. ~Intact(r, Ring)
    BY <1>2, ForeignRefused, ReleaseAssumption DEF Intact
  <1>4. Len(chain) + 1 \in 1..Len(ev)
    BY <1>1
  <1> QED BY <1>1, <1>3, <1>4 DEF VerifyChain

(* A draft is a document.                                                   *)
LEMMA DraftIsDocument ==
  ASSUME NEW d \in Drafts
  PROVE  Document(d) /\ d.evidence = <<>> /\ d.checks = <<>>
  <1>1. d = [manifest |-> d.manifest, policy |-> d.policy, checks |-> <<>>,
             evidence |-> <<>>, antiSlop |-> d.antiSlop, review |-> d.review,
             hardBlockers |-> d.hardBlockers, riskAcceptances |-> d.riskAcceptances]
    BY ReleaseAssumption
  <1>2. d.evidence = <<>> /\ d.checks = <<>>
    BY <1>1
  <1>3. d = [d EXCEPT !.checks = d.checks, !.evidence = d.evidence]
    BY <1>1, <1>2
  <1>4. <<>> \in Seq(CheckReports) /\ IsSeq(<<>>)
    BY DEF IsSeq
  <1> QED BY <1>2, <1>3, <1>4 DEF Document

(* So is a document with other evidence.                                    *)
LEMMA WithEvidence ==
  ASSUME NEW in, Document(in), NEW ev, IsSeq(ev)
  PROVE  LET new == [in EXCEPT !.evidence = ev]
         IN Document(new) /\ new.evidence = ev /\ new.checks = in.checks
  <1> DEFINE new == [in EXCEPT !.evidence = ev]
  <1>1. PICK d \in Drafts : in = [d EXCEPT !.checks = in.checks, !.evidence = in.evidence]
    BY DEF Document
  <1>2. {"checks", "evidence"} \subseteq DOMAIN d /\ DOMAIN in = DOMAIN d
    <2>1. d = [manifest |-> d.manifest, policy |-> d.policy, checks |-> <<>>,
               evidence |-> <<>>, antiSlop |-> d.antiSlop, review |-> d.review,
               hardBlockers |-> d.hardBlockers, riskAcceptances |-> d.riskAcceptances]
      BY ReleaseAssumption
    <2> QED BY <1>1, <2>1
  <1>3. new.evidence = ev /\ new.checks = in.checks
    BY <1>2
  <1>4. new = [d EXCEPT !.checks = new.checks, !.evidence = new.evidence]
    BY <1>1, <1>2, <1>3
  <1>5. new.checks \in Seq(CheckReports)
    BY <1>3 DEF Document
  <1> HIDE DEF new
  <1> QED BY <1>3, <1>4, <1>5 DEF Document, new

(* So is one with another report.                                           *)
LEMMA WithReport ==
  ASSUME NEW in, Document(in), NEW report \in CheckReports
  PROVE  LET new == [in EXCEPT !.checks = Append(@, report)]
         IN /\ Document(new) /\ new.evidence = in.evidence
            /\ Len(new.checks) = Len(in.checks) + 1
  <1> DEFINE new == [in EXCEPT !.checks = Append(@, report)]
  <1>1. PICK d \in Drafts : in = [d EXCEPT !.checks = in.checks, !.evidence = in.evidence]
    BY DEF Document
  <1>2. {"checks", "evidence"} \subseteq DOMAIN d /\ DOMAIN in = DOMAIN d
    BY <1>1, ReleaseAssumption
  <1>3. new.evidence = in.evidence /\ new.checks = Append(in.checks, report)
    BY <1>2
  <1>4. new = [d EXCEPT !.checks = new.checks, !.evidence = new.evidence]
    BY <1>1, <1>2, <1>3
  <1>5. new.checks \in Seq(CheckReports) /\ Len(new.checks) = Len(in.checks) + 1
    BY <1>3 DEF Document
  <1> HIDE DEF new
  <1> QED BY <1>3, <1>4, <1>5 DEF Document, new

(* What the gate decides has the shape of a decision.                       *)
LEMMA DecisionShape ==
  ASSUME NEW in, Document(in), NEW id
  PROVE  LET d == EvaluateRelease(in, id, Authority, Ring)
         IN /\ IsDecision(d) /\ d.id = id /\ d.verdict = Verdict(in, Ring)
            /\ d.manifest = in.manifest
            /\ d.signature = Sign(Ring, Sha256(DecisionBody(d)))
  <1> DEFINE d == EvaluateRelease(in, id, Authority, Ring)
  <1>1. /\ DOMAIN d = {"id", "verdict", "manifest", "blocking", "warnings",
                       "inputsDigest", "signedBy", "signature"}
        /\ d.id = id /\ d.verdict = Verdict(in, Ring) /\ d.manifest = in.manifest
        /\ d.signature = Sign(Ring, Sha256(DecisionBody(d)))
    BY DEF EvaluateRelease, DecisionBody
  <1>2. Verdict(in, Ring) \in {"pass", "warning", "fail", "blocked"}
    BY DEF Verdict
  <1> QED BY <1>1, <1>2, DocumentFields DEF IsDecision

----------------------------------------------------------------------------
(* The invariant holds of a draft without evidence.                         *)
THEOREM InitRInv == ASSUME Init PROVE RInv
  <1>1. /\ scope \in Scopes /\ chain = <<>> /\ inputs \in Drafts
        /\ file = NoDecision /\ issued = {} /\ exitCode = 1
    BY DEF Init
  <1>2. Document(inputs) /\ inputs.evidence = <<>> /\ inputs.checks = <<>>
    BY <1>1, DraftIsDocument
  <1>3. ChainOK
    BY <1>1 DEF ChainOK, IsSeq, VerifyChain
  <1>4. IsPrefix(<<>>, chain)
    BY <1>1, <1>3, PrefixPointwise DEF ChainOK
  <1>5. scope.evidence \in Nat /\ scope.reports \in Nat
    BY <1>1, ReleaseAssumption
  <1>6. TypeOK
    <2>1. Len(chain) = 0 /\ Len(inputs.checks) = 0
      BY <1>1, <1>2
    <2>2. \E d \in Drafts :
            inputs = [d EXCEPT !.checks = inputs.checks, !.evidence = inputs.evidence]
      BY <1>2 DEF Document
    <2>3. exitCode \in 0..2 /\ (exitCode = 2 => issued # {})
      BY <1>1
    <2>4. \A e \in issued : IsDecision(e.decision) /\ e.decision.id < scope.decisions
      BY <1>1
    <2>5. Len(chain) <= scope.evidence /\ VerifyChain(chain, Ring)
      BY <1>3, <1>5, <2>1 DEF ChainOK
    <2>6. Len(inputs.checks) <= scope.reports
      BY <1>5, <2>1
    <2> QED BY <1>1, <2>2, <2>3, <2>4, <2>5, <2>6 DEF TypeOK
  <1> QED BY <1>1, <1>2, <1>3, <1>4, <1>6 DEF RInv, Genuine, DecisionsOK, FileOK

(* The invariant but for the document does not mind another one.            *)
LEMMA AttachRInv ==
  ASSUME RInv, NEW ev, Attach(ev), IsSeq(ev),
         VerifyChain(ev, Ring) => IsPrefix(ev, chain)
  PROVE  RInv'
  <1>1. /\ inputs' = [inputs EXCEPT !.evidence = ev]
        /\ UNCHANGED <<scope, chain, file, issued, exitCode>>
    BY DEF Attach
  <1>2. Document(inputs') /\ inputs'.evidence = ev /\ inputs'.checks = inputs.checks
    BY <1>1, WithEvidence DEF RInv
  <1>3. Genuine(inputs)'
    BY <1>1, <1>2 DEF Genuine
  <1>4. TypeOK'
    BY <1>1, <1>2 DEF RInv, TypeOK, Document
  <1> QED BY <1>1, <1>2, <1>3, <1>4
          DEF RInv, ChainOK, DecisionsOK, FileOK, Genuine

(* Every step of the gate at work preserves it.                             *)
THEOREM StepRInv == ASSUME RInv, [Next]_vars PROVE RInv'
  <1>1. ASSUME NEW x \in EvidenceInputs, Sealing(x), exitCode' \in {0, exitCode} PROVE RInv'
    <2> DEFINE r == Seal(chain, Len(chain), x, Authority, Ring)
    <2>1. /\ chain' = Append(chain, r) /\ Len(chain) < scope.evidence
          /\ UNCHANGED <<scope, inputs, file, issued>>
      BY <1>1 DEF Sealing
    <2>2. IsRecord(r)
      BY DEF IsRecord, Seal
    <2>3. VerifyChain(chain', Ring)
      BY <2>1, SealExtends, ReleaseAssumption DEF RInv, ChainOK
    <2> HIDE DEF r
    <2>4. /\ IsSeq(chain') /\ Len(chain') = Len(chain) + 1 /\ Len(chain) \in Nat
          /\ \A i \in 1..Len(chain) : chain'[i] = chain[i]
          /\ chain'[Len(chain) + 1] = r
      BY <2>1, AppendIsSeq DEF RInv, ChainOK
    <2>5. ChainOK'
      <3>1. ASSUME NEW i \in 1..Len(chain') PROVE IsRecord(chain'[i])
        <4>1. CASE i \in 1..Len(chain)
          BY <2>4, <4>1 DEF RInv, ChainOK
        <4>2. CASE i = Len(chain) + 1
          BY <2>2, <2>4, <4>2
        <4> QED BY <2>4, <4>1, <4>2
      <3> QED BY <2>3, <2>4, <3>1 DEF ChainOK
    <2>6. ASSUME NEW in, Document(in), Genuine(in)
          PROVE  VerifyChain(in.evidence, Ring) => IsPrefix(in.evidence, chain')
      BY <2>1, <2>6, StaysPrefix DEF Genuine, RInv, ChainOK, Document
    <2>7. Genuine(inputs)' /\ Document(inputs)'
      BY <2>1, <2>6 DEF Genuine, RInv
    <2>8. DecisionsOK'
      BY <2>1, <2>6 DEF Genuine, RInv, DecisionsOK
    <2>9. TypeOK'
      <3>1. scope.evidence \in Nat
        BY ReleaseAssumption DEF RInv, TypeOK
      <3>2. Len(chain') <= scope.evidence
        BY <2>1, <2>4, <3>1
      <3>3. exitCode' \in 0..2 /\ (exitCode' = 2 => issued' # {})
        BY <1>1, <2>1 DEF RInv, TypeOK
      <3> QED BY <2>1, <2>3, <3>2, <3>3 DEF RInv, TypeOK
    <2> QED BY <2>1, <2>5, <2>7, <2>8, <2>9 DEF RInv, FileOK
  <1>2. ASSUME NEW r \in CheckReports, ReportCheck(r) PROVE RInv'
    <2>1. /\ inputs' = [inputs EXCEPT !.checks = Append(@, r)]
          /\ Len(inputs.checks) < scope.reports
          /\ UNCHANGED <<scope, chain, file, issued, exitCode>>
      BY <1>2 DEF ReportCheck
    <2>2. /\ Document(inputs') /\ inputs'.evidence = inputs.evidence
          /\ Len(inputs'.checks) = Len(inputs.checks) + 1
      BY <2>1, WithReport DEF RInv
    <2>3. Genuine(inputs)'
      BY <2>1, <2>2 DEF Genuine, RInv
    <2>4. scope.reports \in Nat /\ Len(inputs.checks) \in Nat
      BY ReleaseAssumption DEF RInv, TypeOK, Document
    <2>5. TypeOK'
      <3>1. Len(inputs'.checks) <= scope.reports
        BY <2>1, <2>2, <2>4
      <3>2. \E d \in Drafts :
              inputs' = [d EXCEPT !.checks = inputs'.checks, !.evidence = inputs'.evidence]
        BY <2>2 DEF Document
      <3> QED BY <2>1, <3>1, <3>2 DEF RInv, TypeOK
    <2> QED BY <2>1, <2>2, <2>3, <2>5
            DEF RInv, ChainOK, DecisionsOK, FileOK, Genuine
  <1>3. CASE AttachEvidence
    <2>1. PICK n \in 0..Len(chain) : Attach(SubSeq(chain, 1, n))
      BY <1>3 DEF AttachEvidence
    <2> QED BY <2>1, CopyIsGenuine, AttachRInv DEF RInv
  <1>4. CASE AttachAltered
    <2>1. PICK i \in 1..Len(chain), x \in EvidenceInputs :
            Attach([chain EXCEPT ![i].input = x])
      BY <1>4 DEF AttachAltered
    <2> DEFINE ev == [chain EXCEPT ![i].input = x]
    <2>2. IsSeq(ev) /\ (VerifyChain(ev, Ring) => ev = chain)
      BY AlteredIsNot DEF RInv
    <2>3. IsPrefix(chain, chain)
      <3>1. IsSeq(chain) /\ Len(chain) \in Nat
        BY DEF RInv, ChainOK, IsSeq
      <3> QED BY <3>1, PrefixPointwise
    <2> HIDE DEF ev
    <2>4. Attach(ev)
      BY <2>1 DEF ev
    <2> QED BY <2>2, <2>3, <2>4, AttachRInv
  <1>5. CASE AttachForged
    <2>1. PICK x \in EvidenceInputs :
            Attach(Append(chain, Seal(chain, Len(chain), x, Authority, ForeignRing)))
      BY <1>5 DEF AttachForged
    <2> QED BY <2>1, ForgedIsNot, AttachRInv DEF RInv
  <1>6. ASSUME NEW out, Gate(out) PROVE RInv'
    <2> DEFINE id == Cardinality(issued)
               d == EvaluateRelease(inputs, id, Authority, Ring)
    <2>1. /\ Undecided /\ UNCHANGED <<scope, chain, inputs>>
          /\ issued' = issued \union {[decision |-> d, inputs |-> inputs]}
          /\ file' = IF out THEN d ELSE file
          /\ exitCode' \in 0..2
      BY <1>6 DEF Gate
    <2>2. IsDecision(d) /\ d.id = id
      BY DecisionShape DEF RInv
    <2>3. d = EvaluateRelease(inputs, d.id, Authority, Ring)
      BY <2>2
    <2> HIDE DEF d
    <2>4. file' = file \/ file' = d
      BY <2>1
    <2>5. TypeOK'
      <3>1. file' = NoDecision \/ IsDecision(file')
        BY <2>2, <2>4 DEF RInv, TypeOK
      <3>2. \A e \in issued' : IsDecision(e.decision) /\ e.decision.id < scope.decisions
        BY <2>1, <2>2 DEF RInv, TypeOK, Undecided
      <3>3. issued' # {}
        BY <2>1
      <3> QED BY <2>1, <3>1, <3>2, <3>3 DEF RInv, TypeOK
    <2>6. DecisionsOK'
      BY <2>1, <2>3 DEF RInv, DecisionsOK, Genuine
    <2>7. FileOK'
      <3>1. CASE file' = file
        BY <2>1, <3>1 DEF RInv, FileOK
      <3>2. CASE file' = d
        <4>1. [decision |-> d, inputs |-> inputs] \in issued'
          BY <2>1
        <4> QED BY <3>2, <4>1 DEF FileOK
      <3> QED BY <2>4, <3>1, <3>2
    <2> QED BY <2>1, <2>5, <2>6, <2>7 DEF RInv, ChainOK, Genuine
  <1>7. CASE Succeeds \/ Fails
    <2>1. UNCHANGED <<scope, chain, inputs, file, issued>> /\ exitCode' \in {0, 1}
      BY <1>7 DEF Succeeds, Fails
    <2>2. TypeOK'
      <3>1. exitCode' \in 0..2 /\ exitCode' # 2
        BY <2>1
      <3> QED BY <2>1, <3>1 DEF RInv, TypeOK
    <2> QED BY <2>1, <2>2 DEF RInv, ChainOK, DecisionsOK, FileOK, Genuine
  <1>8. CASE AlterDecision
    <2>1. /\ UNCHANGED <<scope, chain, inputs, issued, exitCode>>
          /\ file \in {e.decision : e \in issued}
          /\ file' \in {[file EXCEPT !.verdict = v] : v \in {"pass", "blocked"}}
                       \union {[file EXCEPT !.manifest = m] : m \in Manifests}
                       \union {[file EXCEPT !.blocking = {}], [file EXCEPT !.signedBy = Other]}
      BY <1>8 DEF AlterDecision
    <2>2. IsDecision(file)
      BY <2>1 DEF RInv, TypeOK
    <2>3. file'.signature = file.signature /\ IsDecision(file')
      BY <2>1, <2>2 DEF IsDecision
    <2>4. TypeOK'
      BY <2>1, <2>3 DEF RInv, TypeOK
    <2>5. FileOK'
      BY <2>1, <2>3 DEF FileOK
    <2> QED BY <2>1, <2>4, <2>5 DEF RInv, ChainOK, DecisionsOK, Genuine
  <1>9. CASE UNCHANGED vars
    BY <1>9 DEF vars, RInv, TypeOK, ChainOK, DecisionsOK, FileOK, Genuine
  <1>10. ASSUME NEW line \in scope.lines, Nas(line) PROVE RInv'
    BY <1>1, <1>6, <1>7, <1>10 DEF Nas
  <1>11. ASSUME NEW x \in EvidenceInputs, SealEvidence(x) PROVE RInv'
    BY <1>1, <1>11 DEF SealEvidence
  <1> QED BY <1>2, <1>3, <1>4, <1>5, <1>8, <1>9, <1>10, <1>11 DEF Next

----------------------------------------------------------------------------
(* It holds throughout.                                                     *)
LEMMA Invariance == Spec => []RInv
  BY InitRInv, StepRInv, PTL DEF Spec

(* Type correctness of the release gate at work.                            *)
THEOREM TypeCorrect == Spec => []TypeOK
  <1>1. RInv => TypeOK
    BY DEF RInv
  <1> QED BY Invariance, <1>1, PTL

(* It has the verdicts right.                                               *)
LEMMA RightVerdicts == ASSUME RInv PROVE VerdictIsRight
  <1>1. ASSUME NEW e \in issued
        PROVE  /\ DecisionAuthorizesDeploy(e.decision) <=> Ready(e.inputs)
               /\ e.decision.verdict = "pass" <=> Ready(e.inputs) /\ Clean(e.inputs)
    <2>1. /\ Document(e.inputs) /\ Genuine(e.inputs)
          /\ e.decision = EvaluateRelease(e.inputs, e.decision.id, Authority, Ring)
      BY DEF RInv, DecisionsOK
    <2>2. e.decision.verdict = Verdict(e.inputs, Ring)
      BY <2>1, DecisionShape
    <2>3. LooksReady(e.inputs) <=> Ready(e.inputs)
      BY <2>1, LooksAreReal DEF RInv
    <2> QED BY <2>1, <2>2, <2>3, GateDecides DEF DecisionAuthorizesDeploy
  <1> QED BY <1>1 DEF VerdictIsRight

(* For every document, policy and history of the evidence: a decision       *)
(* authorizes exactly what is ready, and is a pass exactly for what is also *)
(* clean (evaluate.ts:39-148).                                              *)
THEOREM VerdictsAreRight == Spec => []VerdictIsRight
  BY Invariance, RightVerdicts, PTL

(* What a deployer accepts from the decision file, the gate decided on a    *)
(* document that was ready, however the file was altered (verify.ts:10).    *)
THEOREM OnlyDecidedIsDeployed == Spec => []DeployedWasDecided
  <1>1. ASSUME RInv, Deployable PROVE \E e \in issued :
          /\ \A field \in {"id", "verdict", "manifest", "blocking", "warnings"} :
               file[field] = e.decision[field]
          /\ file.manifest = e.inputs.manifest
          /\ Ready(e.inputs)
    <2>1. PICK e \in issued : file.signature = e.decision.signature
      BY <1>1 DEF RInv, FileOK, Deployable
    <2>2. /\ Document(e.inputs)
          /\ e.decision = EvaluateRelease(e.inputs, e.decision.id, Authority, Ring)
      BY <1>1 DEF RInv, DecisionsOK
    <2>3. /\ e.decision.signature = Sign(Ring, Sha256(DecisionBody(e.decision)))
          /\ e.decision.manifest = e.inputs.manifest
      BY <2>2, DecisionShape
    <2>4. VerifySignature(Ring, Sha256(DecisionBody(e.decision)), file.signature)
      BY <2>1, <2>3, SignedVerifies, ReleaseAssumption
    <2>5. VerifySignature(Ring, Sha256(DecisionBody(file)), file.signature)
      BY <1>1 DEF Deployable, VerifyDecisionSignature
    <2>6. Sha256(DecisionBody(file)) = Sha256(DecisionBody(e.decision))
      BY <2>4, <2>5, SignedOnce
    <2>7. DecisionBody(file) = DecisionBody(e.decision)
      BY <2>6, Sha256Injective
    <2>8. \A d : /\ DecisionBody(d).id = d.id /\ DecisionBody(d).verdict = d.verdict
                 /\ DecisionBody(d).manifest = d.manifest
                 /\ DecisionBody(d).blocking = d.blocking
                 /\ DecisionBody(d).warnings = d.warnings
      BY DEF DecisionBody
    <2>9. /\ file.id = e.decision.id /\ file.verdict = e.decision.verdict
          /\ file.manifest = e.decision.manifest
          /\ file.blocking = e.decision.blocking
          /\ file.warnings = e.decision.warnings
      BY <2>7, <2>8
    <2>10. Ready(e.inputs)
      BY <1>1, <2>9, RightVerdicts DEF VerdictIsRight, Deployable, DecisionAuthorizesDeploy
    <2> QED BY <2>3, <2>9, <2>10
  <1>2. RInv => DeployedWasDecided
    BY <1>1 DEF DeployedWasDecided
  <1> QED BY Invariance, <1>2, PTL

----------------------------------------------------------------------------
(* How a line is read.                                                      *)

\* Whether a word that the flag at place i may take follows it, and its value.
Takes(argv, i) == i < Len(argv) /\ argv[i + 1] \notin Flags

ValueAt(argv, i) == IF Takes(argv, i) THEN argv[i + 1] ELSE Bare

Empty == [positionals |-> <<>>, flags |-> [f \in {} |-> Bare]]

WithWord(args, word) == [args EXCEPT !.positionals = <<word>> \o @]

WithFlag(args, name, value) ==
  IF name \in DOMAIN args.flags THEN args
  ELSE [args EXCEPT !.flags = Put(@, name, value)]

\* What ParseFrom makes of place i, given what it makes of later ones.
ParseStep(argv, f, i) ==
  IF i > Len(argv) THEN Empty
  ELSE IF argv[i] \notin Flags THEN WithWord(f[i + 1], argv[i])
  ELSE WithFlag(f[IF Takes(argv, i) THEN i + 2 ELSE i + 1], argv[i], ValueAt(argv, i))

\* The lines that argv can be read as.
Parsed(argv) ==
  [positionals : Seq(Range(argv)),
   flags : UNION {[D -> Range(argv) \union {Bare}] : D \in SUBSET Range(argv)}]

(* A word or a flag added to a line gives a line with it.                   *)
LEMMA AddedWord ==
  ASSUME NEW argv, NEW args \in Parsed(argv), NEW w \in Range(argv)
  PROVE  /\ WithWord(args, w) \in Parsed(argv)
         /\ WithWord(args, w).positionals = <<w>> \o args.positionals
         /\ WithWord(args, w).flags = args.flags
  <1>1. <<w>> \o args.positionals \in Seq(Range(argv))
    BY DEF Parsed
  <1> QED BY <1>1 DEF WithWord, Parsed

(* What is said of a flag later on the line is kept.                        *)
LEMMA AddedFlag ==
  ASSUME NEW argv, NEW args \in Parsed(argv), NEW name \in Range(argv),
         NEW value \in Range(argv) \union {Bare}
  PROVE  /\ WithFlag(args, name, value) \in Parsed(argv)
         /\ WithFlag(args, name, value).positionals = args.positionals
         /\ LET flags == WithFlag(args, name, value).flags IN
            /\ DOMAIN flags = DOMAIN args.flags \union {name}
            /\ \A f \in DOMAIN args.flags : flags[f] = args.flags[f]
            /\ name \notin DOMAIN args.flags => flags[name] = value
  <1> DEFINE W == Range(argv) \union {Bare}
             flags == args.flags
             D == DOMAIN flags
             new == Put(flags, name, value)
  <1>1. D \in SUBSET Range(argv) /\ flags \in [D -> W]
    BY DEF Parsed
  <1>2. /\ DOMAIN new = D \union {name}
        /\ \A f \in D \union {name} : new[f] = IF f = name THEN value ELSE flags[f]
        /\ new \in [D \union {name} -> W]
    BY <1>1 DEF Put
  <1>3. new \in UNION {[E -> W] : E \in SUBSET Range(argv)}
    <2>1. D \union {name} \in SUBSET Range(argv)
      BY <1>1
    <2> QED BY <1>2, <2>1
  <1>4. CASE name \in D
    BY <1>1, <1>4 DEF WithFlag
  <1>5. CASE name \notin D
    <2>1. WithFlag(args, name, value) = [args EXCEPT !.flags = new]
      BY <1>5 DEF WithFlag
    <2> HIDE DEF new
    <2>2. /\ WithFlag(args, name, value).flags = new
          /\ WithFlag(args, name, value).positionals = args.positionals
          /\ WithFlag(args, name, value) \in Parsed(argv)
      BY <1>3, <2>1 DEF Parsed
    <2> QED BY <1>2, <1>5, <2>2
  <1> QED BY <1>4, <1>5

(* Reading a line is defined by recursion, and that has a solution.         *)
LEMMA ParseUnfolds ==
  ASSUME NEW argv, IsSeq(argv)
  PROVE  \A i \in 1..(Len(argv) + 1) :
           /\ ParseFrom(argv)[i] \in Parsed(argv)
           /\ ParseFrom(argv)[i] = ParseStep(argv, ParseFrom(argv), i)
  <1> DEFINE n == Len(argv)
             S == 1..(n + 1)
             V == Parsed(argv)
             Solves(f) == f = [i \in S |-> ParseStep(argv, f, i)]
             h == ParseFrom(argv)
  <1>1. n \in Nat /\ \A i \in 1..n : argv[i] \in Range(argv)
    BY DEF IsSeq, Range
  <1>2. Empty \in V
    <2>1. [f \in {} |-> Bare] \in [{} -> Range(argv) \union {Bare}] /\ {} \in SUBSET Range(argv)
      OBVIOUS
    <2>2. <<>> \in Seq(Range(argv))
      OBVIOUS
    <2> QED BY <2>1, <2>2 DEF Empty, Parsed
  <1>3. \A i \in S : /\ i <= n => i + 1 \in S
                     /\ Takes(argv, i) => i + 2 \in S /\ i <= n /\ i + 1 \in 1..n
    BY <1>1 DEF Takes
  <1>4. ASSUME NEW f, NEW i \in S,
               i <= n => f[i + 1] \in V,
               Takes(argv, i) => f[i + 2] \in V
        PROVE  ParseStep(argv, f, i) \in V
    <2> DEFINE j == IF Takes(argv, i) THEN i + 2 ELSE i + 1
    <2>1. CASE i > n
      BY <1>2, <2>1 DEF ParseStep
    <2>2. CASE i <= n
      <3>1. argv[i] \in Range(argv) /\ f[i + 1] \in V /\ f[j] \in V /\ ~(i > n)
        BY <1>1, <1>4, <2>2
      <3>2. ValueAt(argv, i) \in Range(argv) \union {Bare}
        BY <1>1, <1>3 DEF ValueAt
      <3>3. WithWord(f[i + 1], argv[i]) \in V
        BY <3>1, AddedWord
      <3>4. WithFlag(f[j], argv[i], ValueAt(argv, i)) \in V
        BY <3>1, <3>2, AddedFlag
      <3> HIDE DEF V
      <3> QED BY <3>1, <3>3, <3>4 DEF ParseStep
    <2> QED BY <1>1, <2>1, <2>2
  <1>5. \E f : Solves(f)
    <2> DEFINE rank == [i \in S |-> n + 1 - i]
               G == [i \in S |-> [f \in [S -> V] |-> ParseStep(argv, f, i)]]
    <2>1. rank \in [S -> 0..n]
      BY <1>1
    <2>2. G \in [S -> [[S -> V] -> V]]
      <3> HIDE DEF V, S
      <3>1. ASSUME NEW i \in S, NEW f \in [S -> V] PROVE ParseStep(argv, f, i) \in V
        BY <1>3, <1>4
      <3> QED BY <3>1
    <2>3. ASSUME NEW i \in S, NEW f \in [S -> V], NEW g \in [S -> V],
                 \A j \in S : rank[j] < rank[i] => f[j] = g[j]
          PROVE  G[i][f] = G[i][g]
      <3>1. \A j \in S : j > i => f[j] = g[j]
        BY <1>1, <2>3
      <3>2. (i <= n => f[i + 1] = g[i + 1]) /\ (Takes(argv, i) => f[i + 2] = g[i + 2])
        BY <1>1, <1>3, <3>1
      <3>3. ParseStep(argv, f, i) = ParseStep(argv, g, i)
        BY <1>1, <3>2 DEF ParseStep
      <3> HIDE DEF V, S
      <3> QED BY <3>3
    <2> HIDE DEF V, S, rank, G, n
    <2>4. V # {} /\ n \in Nat
      BY <1>1, <1>2
    <2>5. IsRecursion(G, S, V, rank, n)
      BY <2>1, <2>2, <2>3, <2>4 DEF IsRecursion
    <2>6. PICK f \in [S -> V] : \A i \in S : f[i] = G[i][f]
      BY <2>5, RecursionDefines
    <2>7. \A i \in S : f[i] = ParseStep(argv, f, i)
      BY <2>6 DEF G
    <2>8. Solves(f)
      BY <2>7
    <2> QED BY <2>8
  <1>6. Solves(h)
    <2>1. h = CHOOSE f : Solves(f)
      BY DEF ParseFrom, ParseStep, Empty, WithWord, WithFlag, ValueAt, Takes
    <2> HIDE DEF h, Solves
    <2> QED BY <1>5, <2>1, Zenon
  <1>7. \A i \in S : h[i] = ParseStep(argv, h, i)
    <2> HIDE DEF h
    <2> QED BY <1>6
  <1> DEFINE T == {k \in Nat : \A i \in S : n + 1 - i <= k => h[i] \in V}
  <1> HIDE DEF h, V
  <1>8. 0 \in T
    <2>1. n + 1 \in S /\ n + 1 > n
      BY <1>1
    <2>2. h[n + 1] = Empty
      BY <1>7, <2>1 DEF ParseStep
    <2> QED BY <1>1, <1>2, <2>2
  <1>9. ASSUME NEW k \in Nat, k \in T PROVE k + 1 \in T
    <2>1. ASSUME NEW i \in S, n + 1 - i <= k + 1 PROVE h[i] \in V
      <3>1. (i <= n => h[i + 1] \in V) /\ (Takes(argv, i) => h[i + 2] \in V)
        BY <1>1, <1>3, <1>9, <2>1
      <3> QED BY <1>4, <1>7, <3>1
    <2> QED BY <2>1
  <1>10. n + 1 \in T
    <2> HIDE DEF T
    <2> QED BY <1>1, <1>8, <1>9, SetInduction
  <1>11. \A i \in S : h[i] \in V
    BY <1>1, <1>10
  <1> QED BY <1>7, <1>11 DEF h, V

\* The words from place i on that no flag takes.
PlacesFrom(argv, i) ==
  {j \in i..Len(argv) : argv[j] \notin Flags /\ (j > i => argv[j - 1] \notin Flags)}

\* args has the words and the values that the places of argv from i on give.
SaysFrom(argv, i, args) ==
  \A n \in 1..Len(args.positionals) :
    \E j \in PlacesFrom(argv, i) :
      /\ argv[j] = args.positionals[n]
      /\ Cardinality({k \in PlacesFrom(argv, i) : k <= j}) = n

AsksFrom(argv, i, args) ==
  \A f \in Flags :
    /\ f \in DOMAIN args.flags <=> \E j \in i..Len(argv) : argv[j] = f
    /\ \A j \in i..Len(argv) :
         argv[j] = f /\ (\A k \in i..Len(argv) : argv[k] = f => k <= j)
         => args.flags[f] = ValueAt(argv, j)

(* Of some places on a line, one is the last.                               *)
LEMMA LastOfThem ==
  ASSUME NEW N \in Nat, NEW M \in SUBSET (1..N), M # {}
  PROVE  \E i \in M : \A k \in M : k <= i
  <1> DEFINE Left == {N - k : k \in M}
  <1>1. Left # {} /\ Left \subseteq Nat
    OBVIOUS
  <1> HIDE DEF Left
  <1>2. PICK x \in Left : \A y \in Left : ~(<<y, x>> \in OpToRel(<, Nat))
    BY <1>1, WFMin, NatLessThanWellFounded
  <1>3. \A y \in Left : ~(y < x)
    BY <1>1, <1>2 DEF OpToRel
  <1>4. PICK i \in M : x = N - i
    BY DEF Left
  <1>5. ASSUME NEW k \in M PROVE k <= i
    <2>1. N - k \in Left
      BY DEF Left
    <2>2. ~(N - k < N - i)
      BY <1>3, <1>4, <2>1
    <2> QED BY <2>2
  <1> QED BY <1>5

(* Reading a word.                                                          *)
LEMMA WordIsRead ==
  ASSUME NEW argv, IsSeq(argv), NEW i \in 1..Len(argv), argv[i] \notin Flags,
         NEW args \in Parsed(argv), SaysFrom(argv, i + 1, args), AsksFrom(argv, i + 1, args)
  PROVE  /\ SaysFrom(argv, i, WithWord(args, argv[i]))
         /\ AsksFrom(argv, i, WithWord(args, argv[i]))
  <1> DEFINE P == PlacesFrom(argv, i)
             Q == PlacesFrom(argv, i + 1)
             new == WithWord(args, argv[i])
             pos == args.positionals
  <1>1. Len(argv) \in Nat /\ i \in Nat /\ argv[i] \in Range(argv)
    BY DEF IsSeq, Range
  <1>2. P = {i} \union Q /\ i \notin Q
    BY <1>1 DEF PlacesFrom
  <1>3. new.positionals = <<argv[i]>> \o pos /\ new.flags = args.flags
    BY <1>1, AddedWord
  <1>4. pos \in Seq(Range(argv))
    BY DEF Parsed
  <1> DEFINE words == <<argv[i]>> \o pos
  <1>5. /\ Len(words) = Len(pos) + 1 /\ Len(pos) \in Nat /\ words[1] = argv[i]
        /\ \A n \in 2..(Len(pos) + 1) : words[n] = pos[n - 1]
    BY <1>1, <1>4
  <1> HIDE DEF words, pos, new, P, Q
  <1>6. \A j \in Q : j \in Nat /\ j > i /\ j <= Len(argv)
    BY <1>1 DEF Q, PlacesFrom
  <1>7. ASSUME NEW n \in 1..Len(words)
        PROVE  \E j \in P : argv[j] = words[n] /\ Cardinality({k \in P : k <= j}) = n
    <2>1. CASE n = 1
      <3>1. {k \in P : k <= i} = {i}
        BY <1>1, <1>2, <1>6
      <3>2. Cardinality({i}) = 1
        BY FS_Singleton
      <3> QED BY <1>2, <1>5, <2>1, <3>1, <3>2
    <2>2. CASE n # 1
      <3>1. n - 1 \in 1..Len(pos) /\ n \in 2..(Len(pos) + 1) /\ n - 1 + 1 = n
        BY <1>5, <2>2
      <3>2. PICK j \in Q : argv[j] = pos[n - 1] /\ Cardinality({k \in Q : k <= j}) = n - 1
        BY <3>1 DEF SaysFrom, pos, Q
      <3> DEFINE K == {k \in Q : k <= j}
      <3>3. {k \in P : k <= j} = K \union {i} /\ i \notin K
        BY <1>1, <1>2, <1>6
      <3>4. IsFiniteSet(K)
        <4>1. IsFiniteSet(1..Len(argv))
          BY <1>1, FS_Interval
        <4>2. K \subseteq 1..Len(argv)
          BY <1>1, <1>6
        <4> QED BY <4>1, <4>2, FS_Subset
      <3> HIDE DEF K
      <3>5. Cardinality(K \union {i}) = n - 1 + 1
        BY <3>2, <3>3, <3>4, FS_AddElement DEF K
      <3> QED BY <1>2, <1>5, <3>1, <3>2, <3>3, <3>5
    <2> QED BY <2>1, <2>2
  <1>8. SaysFrom(argv, i, new)
    BY <1>3, <1>7 DEF SaysFrom, words, P, pos
  <1>9. \A j \in i..Len(argv) : \A f \in Flags : argv[j] = f => j \in (i + 1)..Len(argv)
    BY <1>1
  <1>10. \A j \in (i + 1)..Len(argv) : j \in i..Len(argv)
    BY <1>1
  <1>11. AsksFrom(argv, i, new)
    BY <1>3, <1>9, <1>10 DEF AsksFrom
  <1> QED BY <1>8, <1>11 DEF new

(* Reading a flag, and the word that it takes if there is one.              *)
LEMMA FlagIsRead ==
  ASSUME NEW argv, IsSeq(argv), NEW i \in 1..Len(argv), argv[i] \in Flags,
         NEW m, m = (IF Takes(argv, i) THEN i + 2 ELSE i + 1),
         NEW args \in Parsed(argv), SaysFrom(argv, m, args), AsksFrom(argv, m, args),
         NEW new, new = WithFlag(args, argv[i], ValueAt(argv, i))
  PROVE  SaysFrom(argv, i, new) /\ AsksFrom(argv, i, new)
  <1>1. /\ Len(argv) \in Nat /\ i \in Nat
        /\ \A j \in 1..Len(argv) : argv[j] \in Range(argv)
    BY DEF IsSeq, Range
  <1>2. ValueAt(argv, i) \in Range(argv) \union {Bare}
    BY <1>1 DEF ValueAt, Takes
  <1>3. /\ new.positionals = args.positionals
        /\ DOMAIN new.flags = DOMAIN args.flags \union {argv[i]}
        /\ \A f \in DOMAIN args.flags : new.flags[f] = args.flags[f]
        /\ argv[i] \notin DOMAIN args.flags => new.flags[argv[i]] = ValueAt(argv, i)
    BY <1>1, <1>2, AddedFlag
  <1>4. PlacesFrom(argv, i) = PlacesFrom(argv, m)
    <2>1. CASE Takes(argv, i)
      BY <1>1, <2>1 DEF PlacesFrom, Takes
    <2>2. CASE ~Takes(argv, i)
      BY <1>1, <2>2 DEF PlacesFrom, Takes
    <2> QED BY <2>1, <2>2
  <1>5. SaysFrom(argv, i, new)
    BY <1>3, <1>4 DEF SaysFrom
  <1>6. \A j : j \in i..Len(argv) /\ argv[j] \in Flags <=>
               j = i \/ (j \in m..Len(argv) /\ argv[j] \in Flags)
    <2>1. CASE Takes(argv, i)
      BY <1>1, <2>1 DEF Takes
    <2>2. CASE ~Takes(argv, i)
      BY <1>1, <2>2
    <2> QED BY <2>1, <2>2
  <1>7. \A j \in m..Len(argv) : j > i /\ j \in Nat
    BY <1>1
  <1>8. ASSUME NEW f \in Flags
        PROVE  f \in DOMAIN new.flags <=> \E j \in i..Len(argv) : argv[j] = f
    BY <1>3, <1>6 DEF AsksFrom
  <1>9. ASSUME NEW f \in Flags, NEW j \in i..Len(argv), argv[j] = f,
               \A k \in i..Len(argv) : argv[k] = f => k <= j
        PROVE  new.flags[f] = ValueAt(argv, j)
    <2>1. CASE \E k \in m..Len(argv) : argv[k] = f
      <3>1. PICK k \in m..Len(argv) : argv[k] = f
        BY <2>1
      <3>2. k <= j /\ k > i /\ k \in Nat
        BY <1>6, <1>7, <1>9, <3>1
      <3>3. j \in m..Len(argv)
        BY <1>1, <1>6, <1>9, <3>2
      <3>4. \A l \in m..Len(argv) : argv[l] = f => l <= j
        BY <1>6, <1>9
      <3>5. f \in DOMAIN args.flags /\ args.flags[f] = ValueAt(argv, j)
        BY <1>9, <3>3, <3>4 DEF AsksFrom
      <3> QED BY <1>3, <3>5
    <2>2. CASE ~\E k \in m..Len(argv) : argv[k] = f
      <3>1. j = i /\ f \notin DOMAIN args.flags
        BY <1>6, <1>9, <2>2 DEF AsksFrom
      <3> QED BY <1>3, <1>9, <3>1
    <2> QED BY <2>1, <2>2
  <1>10. AsksFrom(argv, i, new)
    BY <1>8, <1>9 DEF AsksFrom
  <1> QED BY <1>5, <1>10

(* Every line is read as what its arguments, one by one, say.               *)
LEMMA LineIsRead ==
  ASSUME NEW argv, IsSeq(argv)
  PROVE  LET args == ParseArgs(argv) IN
         /\ \A n \in 1..Len(args.positionals) : Says(argv, n, args.positionals[n])
         /\ \A f \in Flags :
              Bare \notin Range(argv) => (HasValue(args, f) <=> AsksFor(argv, f))
  <1> DEFINE N == Len(argv)
             S == 1..(N + 1)
             h == ParseFrom(argv)
             Right(i) == h[i] \in Parsed(argv) /\ SaysFrom(argv, i, h[i]) /\ AsksFrom(argv, i, h[i])
             T == {k \in Nat : \A i \in S : N + 1 - i <= k => Right(i)}
  <1>1. N \in Nat
    BY DEF IsSeq
  <1>2. \A i \in S : h[i] \in Parsed(argv) /\ h[i] = ParseStep(argv, h, i)
    BY ParseUnfolds
  <1> HIDE DEF h
  <1>3. Right(N + 1)
    <2>1. N + 1 \in S /\ N + 1 > N /\ (N + 1)..N = {}
      BY <1>1
    <2>2. h[N + 1] = Empty
      BY <1>2, <2>1 DEF ParseStep
    <2>3. 1..Len(Empty.positionals) = {} /\ DOMAIN Empty.flags = {}
      BY DEF Empty
    <2> QED BY <1>2, <2>1, <2>2, <2>3 DEF SaysFrom, AsksFrom
  <1>4. ASSUME NEW i \in 1..N, \A j \in S : j > i => Right(j)
        PROVE  Right(i)
    <2>1. i \in S /\ i \in Nat /\ ~(i > N) /\ i + 1 \in S /\ i + 1 > i
      BY <1>1
    <2>2. CASE argv[i] \notin Flags
      <3>1. h[i] = WithWord(h[i + 1], argv[i])
        BY <1>2, <2>1, <2>2 DEF ParseStep
      <3>2. Right(i + 1)
        BY <1>4, <2>1
      <3> QED BY <1>2, <2>1, <2>2, <3>1, <3>2, WordIsRead
    <2>3. CASE argv[i] \in Flags
      <3> DEFINE m == IF Takes(argv, i) THEN i + 2 ELSE i + 1
      <3>1. h[i] = WithFlag(h[m], argv[i], ValueAt(argv, i))
        BY <1>2, <2>1, <2>3 DEF ParseStep
      <3>2. m \in S /\ m > i
        BY <1>1, <2>1 DEF Takes
      <3>3. Right(m)
        BY <1>4, <3>2
      <3> QED BY <1>2, <2>1, <2>3, <3>1, <3>3, FlagIsRead
    <2> QED BY <2>2, <2>3
  <1> HIDE DEF Right
  <1>5. 0 \in T
    BY <1>1, <1>3
  <1>6. ASSUME NEW k \in Nat, k \in T PROVE k + 1 \in T
    <2>1. ASSUME NEW i \in S, N + 1 - i <= k + 1 PROVE Right(i)
      <3>1. CASE i = N + 1
        BY <1>3, <3>1
      <3>2. CASE i \in 1..N
        <4>1. \A j \in S : j > i => Right(j)
          BY <1>1, <1>6, <2>1
        <4> QED BY <1>4, <3>2, <4>1
      <3> QED BY <1>1, <3>1, <3>2
    <2> QED BY <2>1
  <1>7. N + 1 \in T
    <2> HIDE DEF T
    <2> QED BY <1>1, <1>5, <1>6, SetInduction
  <1>8. Right(1) /\ ParseArgs(argv) = h[1]
    <2>1. 1 \in S
      BY <1>1
    <2> QED BY <1>1, <1>7, <2>1 DEF ParseArgs, h
  <1> DEFINE args == h[1]
  <1>9. SaysFrom(argv, 1, args) /\ AsksFrom(argv, 1, args)
    BY <1>8 DEF Right
  <1> HIDE DEF args
  <1>10. DOMAIN argv = 1..N
    BY DEF IsSeq
  <1>11. PlacesFrom(argv, 1) = Places(argv)
    BY <1>10 DEF PlacesFrom, Places
  <1>12. \A n \in 1..Len(args.positionals) : Says(argv, n, args.positionals[n])
    BY <1>9, <1>11 DEF SaysFrom, Says
  <1>13. ASSUME NEW f \in Flags, Bare \notin Range(argv)
         PROVE  HasValue(args, f) <=> AsksFor(argv, f)
    <2> DEFINE Latest(i) == argv[i] = f /\ \A j \in 1..N : argv[j] = f => j <= i
    <2>1. \A i \in 1..N : Latest(i) =>
            (args.flags[f] \notin {Bare, ""} <=> i < N /\ argv[i + 1] \notin Flags \union {""})
      <3>1. ASSUME NEW i \in 1..N, Latest(i)
            PROVE  args.flags[f] \notin {Bare, ""} <=>
                     i < N /\ argv[i + 1] \notin Flags \union {""}
        <4>1. args.flags[f] = ValueAt(argv, i)
          BY <1>9, <3>1 DEF AsksFrom
        <4>2. i < N => argv[i + 1] # Bare
          BY <1>1, <1>10, <1>13 DEF Range
        <4> QED BY <4>1, <4>2 DEF ValueAt, Takes
      <3> QED BY <3>1
    <2>2. f \in DOMAIN args.flags <=> \E j \in 1..N : argv[j] = f
      BY <1>9 DEF AsksFrom
    <2>3. (\E j \in 1..N : argv[j] = f) => \E i \in 1..N : Latest(i)
      <3> SUFFICES ASSUME NEW j \in 1..N, argv[j] = f PROVE \E i \in 1..N : Latest(i)
        OBVIOUS
      <3> DEFINE M == {k \in 1..N : argv[k] = f}
      <3>1. M # {} /\ M \in SUBSET (1..N)
        OBVIOUS
      <3>2. \E i \in M : \A k \in M : k <= i
        <4> HIDE DEF M
        <4> QED BY <1>1, <3>1, LastOfThem
      <3> QED BY <3>2
    <2>4. HasValue(args, f) <=> \E i \in 1..N : Latest(i) /\ args.flags[f] \notin {Bare, ""}
      <3>1. HasValue(args, f) <=> f \in DOMAIN args.flags /\ args.flags[f] \notin {Bare, ""}
        BY DEF HasValue
      <3>2. (\E j \in 1..N : argv[j] = f) <=> \E i \in 1..N : Latest(i)
        BY <2>3
      <3> QED BY <2>2, <3>1, <3>2
    <2>5. AsksFor(argv, f) <=>
            \E i \in 1..N : Latest(i) /\ i < N /\ argv[i + 1] \notin Flags \union {""}
      BY <1>10 DEF AsksFor
    <2> QED BY <2>1, <2>4, <2>5
  <1> QED BY <1>8, <1>12, <1>13 DEF args

----------------------------------------------------------------------------
(* What a run of nas says with its exit code and its file.                  *)

\* Decisions are numbered as they are made, so a new one is like no other.
Numbered ==
  /\ IsFiniteSet(issued)
  /\ \A e \in issued : e.decision.id \in Nat /\ e.decision.id < Cardinality(issued)
  /\ file # NoDecision => file.id \in Nat /\ file.id < Cardinality(issued)

(* A run that decides makes a decision that nobody has made before.         *)
LEMMA GateIsNew ==
  ASSUME RInv, Numbered, NEW out, Gate(out)
  PROVE  /\ Numbered'
         /\ issued' # issued
         /\ (file' # file) <=> out
         /\ (exitCode' = 0) <=> Ready(inputs)
  <1> DEFINE id == Cardinality(issued)
             d == EvaluateRelease(inputs, id, Authority, Ring)
             e == [decision |-> d, inputs |-> inputs]
  <1>1. /\ issued' = issued \union {e}
        /\ file' = IF out THEN d ELSE file
        /\ exitCode' = IF d.verdict \in {"pass", "warning"} THEN 0 ELSE 2
    BY DEF Gate
  <1>2. IsDecision(d) /\ d.id = id /\ d.verdict = Verdict(inputs, Ring)
    BY DecisionShape DEF RInv
  <1>3. e.decision = d
    OBVIOUS
  <1> HIDE DEF d, e
  <1>4. id \in Nat
    BY FS_CardinalityType DEF Numbered
  <1>5. e \notin issued
    BY <1>2, <1>3, <1>4 DEF Numbered
  <1>6. IsFiniteSet(issued') /\ Cardinality(issued') = id + 1
    BY <1>1, <1>5, FS_AddElement DEF Numbered
  <1>7. d # NoDecision
    <2>1. "id" \in DOMAIN d
      BY <1>2 DEF IsDecision
    <2>2. "id" \notin DOMAIN NoDecision
      BY DEF NoDecision
    <2> QED BY <2>1, <2>2
  <1>8. file # d
    BY <1>2, <1>4, <1>7 DEF Numbered
  <1> HIDE DEF id
  <1>9. Numbered'
    <2>1. \A x \in issued' : x.decision.id \in Nat /\ x.decision.id < id + 1
      <3>1. \A x \in issued : x.decision.id \in Nat /\ x.decision.id < id
        BY DEF Numbered, id
      <3>2. \A k \in Nat : k < id => k < id + 1
        BY <1>4
      <3> QED BY <1>1, <1>2, <1>3, <1>4, <3>1, <3>2
    <2>2. file' # NoDecision => file'.id \in Nat /\ file'.id < id + 1
      <3>1. CASE file' = d
        BY <1>2, <1>4, <3>1
      <3>2. CASE file' = file
        <4>1. file # NoDecision => file.id \in Nat /\ file.id < id
          BY DEF Numbered, id
        <4> QED BY <1>4, <3>2, <4>1
      <3> QED BY <1>1, <3>1, <3>2
    <2> QED BY <1>6, <2>1, <2>2 DEF Numbered
  <1>10. (exitCode' = 0) <=> Ready(inputs)
    <2>1. Verdict(inputs, Ring) \in {"pass", "warning"} <=> Ready(inputs)
      BY GateDecides, LooksAreReal DEF RInv
    <2> QED BY <1>1, <1>2, <2>1
  <1> QED BY <1>1, <1>5, <1>8, <1>9, <1>10

(* A positional word is said, in its place.                                 *)
LEMMA WordIsSaid ==
  ASSUME NEW line, line \in Seq(Range(line)), NEW n \in Nat \ {0}, NEW word,
         Word(ParseArgs(line), n, word)
  PROVE  Says(line, n, word)
  <1> DEFINE args == ParseArgs(line)
  <1>1. \A k \in 1..Len(args.positionals) : Says(line, k, args.positionals[k])
    BY LineIsRead DEF IsSeq
  <1>2. args.positionals \in Seq(Range(line))
    <2>1. 1 \in 1..(Len(line) + 1)
      OBVIOUS
    <2>2. args \in Parsed(line)
      BY <2>1, ParseUnfolds DEF ParseArgs, IsSeq
    <2> QED BY <2>2 DEF Parsed
  <1> HIDE DEF args
  <1>3. /\ Len(args.positionals) \in Nat /\ n <= Len(args.positionals)
        /\ args.positionals[n] = word
    BY <1>2 DEF Word, args
  <1>4. n \in 1..Len(args.positionals)
    BY <1>3
  <1> QED BY <1>1, <1>3, <1>4

(* A line says one word first.                                              *)
LEMMA OneFirstWord ==
  ASSUME NEW line, line \in Seq(Range(line)), NEW v, NEW w,
         Says(line, 1, v), Says(line, 1, w)
  PROVE  v = w
  <1> DEFINE UpTo(i) == {k \in Places(line) : k <= i}
  <1>1. /\ Len(line) \in Nat /\ DOMAIN line = 1..Len(line)
        /\ IsFiniteSet(1..Len(line))
    BY FS_Interval
  <1>2. \A i : UpTo(i) \subseteq 1..Len(line)
    BY <1>1 DEF Places
  <1>3. \A i : IsFiniteSet(UpTo(i))
    BY <1>1, <1>2, FS_Subset
  <1>4. PICK i \in Places(line) : line[i] = v /\ Cardinality(UpTo(i)) = 1
    BY DEF Says
  <1>5. PICK j \in Places(line) : line[j] = w /\ Cardinality(UpTo(j)) = 1
    BY DEF Says
  <1>6. i \in Nat /\ j \in Nat
    BY <1>1 DEF Places
  <1>7. i \in UpTo(i) /\ j \in UpTo(j) /\ (i \in UpTo(j) \/ j \in UpTo(i))
    BY <1>6
  <1> HIDE DEF UpTo
  <1>8. (\E x : UpTo(i) = {x}) /\ (\E x : UpTo(j) = {x})
    BY <1>3, <1>4, <1>5, FS_Singleton
  <1> QED BY <1>4, <1>5, <1>7, <1>8

(* Only a line that says another word first succeeds and decides nothing.   *)
LEMMA AnotherCommand ==
  ASSUME NEW line, line \in Seq(Range(line)), NEW args, args = ParseArgs(line),
         Adds(args) \/ Prints(args) \/ Inspects(args)
  PROVE  ~Says(line, 1, "gate")
  <1>1. PICK command \in {"evidence", "help", "version", "demo", "antislop"} :
          Word(args, 1, command)
    BY DEF Adds, Prints, Inspects
  <1>2. Says(line, 1, command) /\ command # "gate"
    BY <1>1, WordIsSaid
  <1> QED BY <1>2, OneFirstWord

(* No decision is made yet.                                                 *)
LEMMA InitNumbered == ASSUME Init PROVE Numbered
  BY FS_EmptySet DEF Init, Numbered

(* Every step of the gate at work keeps the numbering.                      *)
LEMMA StepNumbered == ASSUME RInv, Numbered, [Next]_vars PROVE Numbered'
  <1>1. ASSUME UNCHANGED <<issued, file>> PROVE Numbered'
    BY <1>1 DEF Numbered
  <1>2. CASE \E x \in EvidenceInputs : SealEvidence(x)
    BY <1>1, <1>2 DEF SealEvidence, Sealing
  <1>3. CASE \E r \in CheckReports : ReportCheck(r)
    BY <1>1, <1>3 DEF ReportCheck
  <1>4. CASE AttachEvidence \/ AttachAltered \/ AttachForged
    BY <1>1, <1>4 DEF AttachEvidence, AttachAltered, AttachForged, Attach
  <1>5. CASE \E line \in scope.lines : Nas(line)
    <2>1. CASE \E out : Gate(out)
      BY <2>1, GateIsNew
    <2>2. CASE Succeeds \/ Fails
      BY <1>1, <2>2 DEF Succeeds, Fails
    <2>3. CASE \E x : Sealing(x)
      BY <1>1, <2>3 DEF Sealing
    <2> QED BY <1>5, <2>1, <2>2, <2>3 DEF Nas
  <1>6. CASE AlterDecision
    <2>1. /\ issued' = issued /\ file \in {e.decision : e \in issued}
          /\ file' \in {[file EXCEPT !.verdict = v] : v \in {"pass", "blocked"}}
                       \union {[file EXCEPT !.manifest = m] : m \in Manifests}
                       \union {[file EXCEPT !.blocking = {}], [file EXCEPT !.signedBy = Other]}
      BY <1>6 DEF AlterDecision
    <2>2. IsDecision(file)
      BY <2>1 DEF RInv, TypeOK
    <2>3. file'.id = file.id
      BY <2>1, <2>2 DEF IsDecision
    <2>4. file.id \in Nat /\ file.id < Cardinality(issued)
      BY <2>1 DEF Numbered
    <2> QED BY <2>1, <2>3, <2>4 DEF Numbered
  <1>7. CASE UNCHANGED vars
    BY <1>1, <1>7 DEF vars
  <1> QED BY <1>2, <1>3, <1>4, <1>5, <1>6, <1>7 DEF Next

(* What ExitZeroIffReady says of one run.                                   *)
LEMMA RunTells ==
  ASSUME RInv, Numbered, NEW line \in scope.lines, Nas(line)
  PROVE  IF issued' = issued
         THEN (exitCode' = 0 => ~Says(line, 1, "gate")) /\ file' = file
         ELSE /\ Says(line, 1, "gate") /\ Says(line, 2, InputsPath)
              /\ (exitCode' = 0) <=> Ready(inputs)
              /\ (file' # file) <=> AsksFor(line, "--out")
  <1>1. line \in Seq(Range(line)) /\ Bare \notin Range(line) /\ "--out" \in Flags
    BY ReleaseAssumption DEF RInv, TypeOK
  <1> DEFINE args == ParseArgs(line)
  <1>2. CASE Fails
    BY <1>2 DEF Fails
  <1>3. CASE Gates(args) /\ Gate(HasValue(args, "--out"))
    <2>1. HasValue(args, "--out") <=> AsksFor(line, "--out")
      BY <1>1, LineIsRead DEF IsSeq
    <2>2. Says(line, 1, "gate") /\ Says(line, 2, InputsPath)
      BY <1>1, <1>3, WordIsSaid DEF Gates
    <2>3. /\ issued' # issued
          /\ (file' # file) <=> HasValue(args, "--out")
          /\ (exitCode' = 0) <=> Ready(inputs)
      BY <1>3, GateIsNew
    <2> QED BY <2>1, <2>2, <2>3
  <1>4. CASE Adds(args) /\ \E x \in EvidenceInputs : Sealing(x) /\ exitCode' = 0
    <2>1. ~Says(line, 1, "gate")
      BY <1>1, <1>4, AnotherCommand
    <2> QED BY <1>4, <2>1 DEF Sealing
  <1>5. CASE (Prints(args) \/ Inspects(args)) /\ Succeeds
    <2>1. ~Says(line, 1, "gate")
      BY <1>1, <1>5, AnotherCommand
    <2> QED BY <1>5, <2>1 DEF Succeeds
  <1> QED BY <1>2, <1>3, <1>4, <1>5 DEF Nas

(* For every argument list and document: a run whose line says gate first   *)
(* exits 0 only if it names the document and that is ready, a run of        *)
(* another command decides nothing and leaves the decision file, and one    *)
(* that decides writes it exactly if its line gives --out a word            *)
(* (run.ts:40-53; gate.ts:31, :52; args.ts:17).                             *)
THEOREM ExitCodesAreRight == Spec => ExitZeroIffReady
  <1>1. RInv /\ Numbered /\ [Next]_vars => (RInv /\ Numbered)'
    BY StepRInv, StepNumbered
  <1>2. Init => RInv /\ Numbered
    BY InitRInv, InitNumbered
  <1>3. RInv /\ Numbered => \A line \in scope.lines : Nas(line) =>
          IF issued' = issued
          THEN (exitCode' = 0 => ~Says(line, 1, "gate")) /\ file' = file
          ELSE /\ Says(line, 1, "gate") /\ Says(line, 2, InputsPath)
               /\ (exitCode' = 0) <=> Ready(inputs)
               /\ (file' # file) <=> AsksFor(line, "--out")
    BY RunTells
  <1> QED BY <1>1, <1>2, <1>3, PTL DEF Spec, ExitZeroIffReady
=============================================================================
