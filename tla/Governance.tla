---------------------------- MODULE Governance ----------------------------
(***************************************************************************)
(* The contribution state machine of @nas/contracts.  Records are values    *)
(* that applyContributionTransition never mutates: whoever holds a version  *)
(* of a contribution's record may apply a transition to it, prepared at any *)
(* time from any state, so the versions of one contribution form a tree.    *)
(***************************************************************************)
EXTENDS Integers, Sequences, SequencesExt

CONSTANTS Requests,    \* contribution requests
          Actors,      \* identities that apply transitions
          Times,       \* instants at which they do
          MaxHistory   \* bound on the transitions of a record

Absent == -1  \* an optional timestamp that is not there

ASSUME GovernanceAssumption ==
  /\ MaxHistory \in Nat
  /\ Times \subseteq Nat
  /\ \A r \in Requests :
       /\ r.highImpact \in BOOLEAN
       /\ r.requestedBy \in Actors
       /\ r.expiresAt \in Nat \union {Absent}

State == {"proposed", "triaged", "product_specific_exception", "design_review",
          "implementation", "verification", "published", "deprecated", "rejected"}

\* Bug: a rejected contribution may be proposed again.
AllowedReopening ==
  [proposed                   |-> {"triaged", "rejected"},
   triaged                    |-> {"design_review", "product_specific_exception",
                                   "rejected"},
   product_specific_exception |-> {"implementation", "rejected"},
   design_review              |-> {"implementation", "rejected"},
   implementation             |-> {"verification"},
   verification               |-> {"published", "implementation", "rejected"},
   published                  |-> {"deprecated"},
   deprecated                 |-> {},
   rejected                   |-> {"triaged"}]

Allowed ==
  [proposed                   |-> {"triaged", "rejected"},
   triaged                    |-> {"design_review", "product_specific_exception",
                                   "rejected"},
   product_specific_exception |-> {"implementation", "rejected"},
   design_review              |-> {"implementation", "rejected"},
   implementation             |-> {"verification"},
   verification               |-> {"published", "implementation", "rejected"},
   published                  |-> {"deprecated"},
   deprecated                 |-> {},
   rejected                   |-> {}]

Transition == [from : State, to : State, actor : Actors, at : Times]

VARIABLE record  \* the version of the record that the last transition returned

----------------------------------------------------------------------------
SelfPublish(rec, t) ==
  /\ t.to = "published"
  /\ rec.request.highImpact
  /\ t.actor = rec.request.requestedBy

\* Bug: an exception may be routed at the instant it expires.
DeadLenient(rec, t) == rec.request.expiresAt < t.at

Dead(rec, t) == rec.request.expiresAt <= t.at

\* Bug: the state that a transition starts from is not compared.
OutcomeStale(rec, t) ==
  LET exception == t.to = "product_specific_exception" IN
  IF Allowed[rec.state] = {} THEN "GOV_TERMINAL_STATE"
  ELSE IF t.to \notin Allowed[rec.state] THEN "GOV_FORBIDDEN_TRANSITION"
  ELSE IF SelfPublish(rec, t) THEN "GOV_SELF_PUBLISH"
  ELSE IF exception /\ rec.request.expiresAt = Absent
       THEN "GOV_EXCEPTION_NEEDS_EXPIRY"
  ELSE IF exception /\ Dead(rec, t) THEN "GOV_EXCEPTION_ALREADY_EXPIRED"
  ELSE "ok"

\* The first rule that a transition breaks, or "ok".
Outcome(rec, t) ==
  LET exception == t.to = "product_specific_exception" IN
  IF t.from # rec.state THEN "GOV_STATE_MISMATCH"
  ELSE IF Allowed[rec.state] = {} THEN "GOV_TERMINAL_STATE"
  ELSE IF t.to \notin Allowed[rec.state] THEN "GOV_FORBIDDEN_TRANSITION"
  ELSE IF SelfPublish(rec, t) THEN "GOV_SELF_PUBLISH"
  ELSE IF exception /\ rec.request.expiresAt = Absent
       THEN "GOV_EXCEPTION_NEEDS_EXPIRY"
  ELSE IF exception /\ Dead(rec, t) THEN "GOV_EXCEPTION_ALREADY_EXPIRED"
  ELSE "ok"

----------------------------------------------------------------------------
Init ==
  \E r \in Requests :
    record = [request |-> r, state |-> "proposed", history |-> <<>>]

\* Bug: the new record keeps the old history.
ApplyUnrecorded(t) ==
  /\ Len(record.history) < MaxHistory
  /\ Outcome(record, t) = "ok"
  /\ record' = [record EXCEPT !.state = t.to]

Apply(t) ==
  /\ Len(record.history) < MaxHistory
  /\ Outcome(record, t) = "ok"
  /\ record' = [record EXCEPT !.state = t.to, !.history = Append(@, t)]

\* A refused transition returns a code and no record.
Refuse(t) == Outcome(record, t) # "ok" /\ UNCHANGED record

Next == \E t \in Transition : Apply(t) \/ Refuse(t)

Spec == Init /\ [][Next]_record

----------------------------------------------------------------------------
TypeOK ==
  /\ record \in [request : Requests, state : State, history : Seq(Transition)]
  /\ Len(record.history) <= MaxHistory
  /\ record.history = <<>> <=> record.state = "proposed"

Steps == DOMAIN record.history

Step(i) == record.history[i]

(* The history of a record explains its state: it starts at `proposed',     *)
(* each transition starts where the one before it ended, and the record is  *)
(* where the last one ended, however stale the transitions that its holders *)
(* tried to apply were (governance.ts:134).                                 *)
HistoryExplainsState ==
  /\ \A i \in Steps :
       Step(i).from = IF i = 1 THEN "proposed" ELSE Step(i - 1).to
  /\ record.state = IF Steps = {} THEN "proposed" ELSE Last(record.history).to

(* A high-impact contribution is never published by its requester, and what *)
(* is published was verified after it was last implemented, and was first   *)
(* reviewed or routed as an exception that had not expired by then          *)
(* (governance.ts:13, :156, :175).                                          *)
PublishedProperly ==
  \A i \in Steps : Step(i).to = "published" =>
    /\ record.request.highImpact => Step(i).actor # record.request.requestedBy
    /\ i > 1 /\ Step(i - 1).to = "verification"
    /\ \E j \in 1..(i - 1) :
         \/ Step(j).to = "design_review"
         \/ /\ Step(j).to = "product_specific_exception"
            /\ record.request.expiresAt > Step(j).at

(* Nothing leaves a terminal state, and published work is only deprecated:  *)
(* once any of the three is in the history, it is last or followed by       *)
(* deprecation alone (governance.ts:86-92).                                 *)
FinalMeansFinal ==
  \A i \in Steps :
    /\ Step(i).to \in {"rejected", "deprecated"} => i = Len(record.history)
    /\ Step(i).to = "published" =>
         \A j \in Steps : j > i => Step(j).to = "deprecated"

(* What governance.md:30 draws: rejection is possible from any state before *)
(* publication.                                                             *)
RejectableUntilPublished ==
  record.state \notin {"published", "deprecated", "rejected"} =>
    \E t \in Transition : t.to = "rejected" /\ Outcome(record, t) = "ok"
============================================================================
