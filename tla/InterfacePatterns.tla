------------------------- MODULE InterfacePatterns --------------------------
(***************************************************************************)
(* The catalog of interface anti-patterns: its validation, and the finding *)
(* that a reviewer gets by citing a pattern.  A catalog is a sequence of   *)
(* patterns; their descriptions are left out.                              *)
(***************************************************************************)
EXTENDS Integers, SystemFindings

\* What the schemas demand of a catalog.
InterfacePattern ==
  [id : STRING, number : Nat \ {0}, dimension : STRING, severity : Severities]

IsCatalog(c) == c \in Seq(InterfacePattern) /\ c # <<>>

CatalogProblem(code, at) == [code |-> code, at |-> at]

\* Bug: the last number of the catalog is never looked for.
GapsButTheLast(c) ==
  {n \in 1..(Len(c) - 1) : \A i \in DOMAIN c : c[i].number # n}

Gaps(c) == {n \in 1..Len(c) : \A i \in DOMAIN c : c[i].number # n}

\* validateInterfacePatternCatalog: a catalog is valid when it has no problems.
CatalogProblems(c) ==
  LET Again(field) == {i \in DOMAIN c : \E j \in 1..(i - 1) : c[j][field] = c[i][field]}
  IN {CatalogProblem("CAT_DUPLICATE_ID", i) : i \in Again("id")}
     \union {CatalogProblem("CAT_DUPLICATE_NUMBER", i) : i \in Again("number")}
     \union {CatalogProblem("CAT_NUMBER_GAP", n) : n \in Gaps(c)}

(* interfacePattern: the maps byId and byNumber hold the last pattern under *)
(* a key; a reference to none throws.                                       *)
Cited(c, field, ref) ==
  {c[i] : i \in {j \in DOMAIN c : /\ c[j][field] = ref
                                  /\ \A k \in (j + 1)..Len(c) : c[k][field] # ref}}

\* interfacePatternFinding.
PatternFinding(p) == Finding("DS_INTERFACE_PATTERN", p.severity, p.dimension, <<p.id>>)
=============================================================================
