---------------------------- MODULE SystemReview ----------------------------
(***************************************************************************)
(* A change to the governed product under review: the reviewer cites       *)
(* anti-patterns of the catalog, and the findings of the design-system     *)
(* check, of the architecture check and of the citations are turned into   *)
(* the grades that the anti-slop gate evaluates.                           *)
(***************************************************************************)
EXTENDS DesignSystem, AntiSlopGate, InterfacePatterns

CONSTANT Scopes  \* bounds: [catalogs, edits, citations, violations]

ASSUME ReviewAssumption ==
  /\ IsFiniteSet(Dimensions)
  /\ \A s \in Scopes : s.edits \in Nat /\ \A c \in s.catalogs : IsCatalog(c)

VARIABLES scope,
          catalog,  \* INTERFACE_PATTERN_CATALOG
          cited,    \* the findings of the reviewer's citations
          accepted  \* what the gate said of the last review

reviewVars == <<vars, scope, catalog, cited, accepted>>

ReviewInit ==
  /\ Init
  /\ scope \in Scopes
  /\ catalog \in scope.catalogs
  /\ cited = {}
  /\ accepted = FALSE

\* interfacePatternFinding of a reference by id or by number, or it throws.
Cite(field, ref) ==
  /\ Cardinality(cited) < scope.citations
  /\ \E p \in Cited(catalog, field, ref) : cited' = cited \union {PatternFinding(p)}
  /\ UNCHANGED <<vars, scope, catalog, accepted>>

AllFindings(violations) == Findings \union cited \union ArchitectureFindings(violations)

(* A review of the given dimensions, which a caller lists in some order.    *)
ReviewOf(t, dimensions, findings) ==
  [changeType |-> t, createdAt |-> now, exceptions |-> <<>>,
   grades |-> GradesFromSystemFindings(SetToSeq(dimensions), findings)]

Review(t, dimensions, violations) ==
  /\ UNCHANGED <<vars, scope, catalog, cited>>
  /\ accepted' = EvaluateReview(ReviewOf(t, dimensions, AllFindings(violations))).accepted

ReviewNext ==
  \/ Next /\ edits' <= scope.edits /\ UNCHANGED <<scope, catalog, cited, accepted>>
  \/ \E i \in DOMAIN catalog, field \in {"id", "number"} : Cite(field, catalog[i][field])
  \/ \E t \in DOMAIN Required, v \in scope.violations :
        \E ds \in {Required[t], Dimensions} : Review(t, ds, v)

ReviewSpec == ReviewInit /\ [][ReviewNext]_reviewVars

----------------------------------------------------------------------------
ReviewTypeOK ==
  /\ TypeOK
  /\ scope \in Scopes /\ catalog \in scope.catalogs /\ edits <= scope.edits
  /\ \A f \in cited : /\ f.code = "DS_INTERFACE_PATTERN"
                      /\ \E i \in DOMAIN catalog : f = PatternFinding(catalog[i])
  /\ accepted \in BOOLEAN

(* A catalog is valid exactly if review shorthand is safe with it: each     *)
(* number up to its length cites a pattern, and citing a pattern by its     *)
(* number or by its id gives a finding of that very pattern                 *)
(* (interface-patterns.ts:70-71: no gap orphans a shorthand).               *)
CitationsUnambiguous ==
  CatalogProblems(catalog) = {} <=>
    /\ \A n \in 1..Len(catalog) : Cited(catalog, "number", n) # {}
    /\ \A i \in DOMAIN catalog, field \in {"id", "number"} :
         Cited(catalog, field, catalog[i][field]) = {catalog[i]}

(* A review accepts a change exactly if no blocking finding lies in a       *)
(* dimension that it looked at: no number of good dimensions or of lesser   *)
(* findings outweighs one, lesser findings alone never block, and only by   *)
(* leaving out a dimension that the type of change does not require can its *)
(* findings be passed over (grades.ts:4-14, policy.ts:6-9).                 *)
ReviewJudgesFindings ==
  [][\A t \in DOMAIN Required, v \in scope.violations :
       \A ds \in {Required[t], Dimensions} :
         Review(t, ds, v) =>
           (accepted' <=> \A f \in Findings \union cited \union ArchitectureFindings(v) :
                             f.dimension \in ds => f.severity \in {"moderate", "minor", "info"})
    ]_reviewVars
=============================================================================
