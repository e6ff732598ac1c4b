------------------------- MODULE SystemReviewProofs -------------------------
(***************************************************************************)
(* The design-system script, the anti-slop gate, and the reviews in which   *)
(* findings are graded for it, for every registry, catalog, policy and set  *)
(* of dimensions and any number of edits and grades: the states are well    *)
(* typed, what the validations let through is founded and unambiguous, and  *)
(* exit codes and verdicts are right.                                       *)
(***************************************************************************)
EXTENDS SystemReview, AntiSlop, SequenceTheorems, FiniteSetTheorems,
        WellFoundedInduction, TLAPS

----------------------------------------------------------------------------
\* Taking an entry out of a sequence leaves a sequence of such entries.
LEMMA RemoveAtType ==
  ASSUME NEW C, NEW s \in Seq(C), NEW i \in DOMAIN s
  PROVE  RemoveAt(s, i) \in Seq(C)
  <1>1. i \in 1..Len(s)
    OBVIOUS
  <1>2. SubSeq(s, 1, i - 1) \in Seq(C) /\ SubSeq(s, i + 1, Len(s)) \in Seq(C)
    BY <1>1, SubSeqProperties
  <1> QED BY <1>2, ConcatProperties DEF RemoveAt

\* Every step of the design system keeps its states typed.
LEMMA TypeInductive == (Init => TypeOK) /\ (TypeOK /\ [Next]_vars => TypeOK')
  <1>1. ASSUME Init PROVE TypeOK
    <2>1. \A r \in Registries : IsRegistry(r) /\ Parses(r)
      BY DesignSystemAssumption
    <2> QED BY <1>1, <2>1, DesignSystemAssumption DEF Init, TypeOK
  <1>2. ASSUME TypeOK, [Next]_vars PROVE TypeOK'
    <2> USE TypeOK
    <2>0. ASSUME Edit PROVE edits' \in 0..MaxEdits
      BY <2>0, DesignSystemAssumption DEF TypeOK, Edit
    <2>1. ASSUME NEW t \in Tables, NEW e \in Candidates[t], AddEntry(t, e) PROVE TypeOK'
      <3>1. IsRegistry(registry')
        BY <2>1, AppendProperties DEF TypeOK, IsRegistry, AddEntry
      <3> QED BY <2>0, <2>1, <3>1 DEF TypeOK, AddEntry, Edit
    <2>2. ASSUME NEW t \in Tables, NEW e \in Candidates[t], NEW i \in DOMAIN registry[t],
                 ReplaceEntry(t, i, e)
          PROVE  TypeOK'
      <3>1. [registry[t] EXCEPT ![i] = e] \in Seq(Candidates[t])
        <4>1. registry[t] \in Seq(Candidates[t])
          BY DEF TypeOK, IsRegistry
        <4>2. i \in 1..Len(registry[t])
          BY <4>1
        <4> QED BY <4>1, <4>2, ExceptSeq
      <3>2. IsRegistry(registry')
        BY <2>2, <3>1 DEF TypeOK, IsRegistry, ReplaceEntry
      <3> QED BY <2>0, <2>2, <3>2 DEF TypeOK, ReplaceEntry, Edit
    <2>3. ASSUME NEW t \in Tables, NEW i \in DOMAIN registry[t], RemoveEntry(t, i)
          PROVE  TypeOK'
      <3>1. RemoveAt(registry[t], i) \in Seq(Candidates[t])
        <4>1. registry[t] \in Seq(Candidates[t])
          BY DEF TypeOK, IsRegistry
        <4> QED BY <4>1, RemoveAtType
      <3>2. IsRegistry(registry')
        BY <2>3, <3>1 DEF TypeOK, IsRegistry, RemoveEntry
      <3> QED BY <2>0, <2>3, <3>2 DEF TypeOK, RemoveEntry, Edit
    <2>4. ASSUME NEW src \in Sources, EditSource(src) PROVE TypeOK'
      BY <2>0, <2>4 DEF TypeOK, EditSource, Edit
    <2>5. ASSUME NEW a \in {NoArtifact, ByHand}, TouchArtifact(a) PROVE TypeOK'
      BY <2>0, <2>5 DEF TypeOK, TouchArtifact, Edit
    <2>6. CASE Build
      BY <2>6 DEF TypeOK, Build
    <2>7. CASE Tick
      BY <2>7, DesignSystemAssumption DEF TypeOK, Tick
    <2>8. ASSUME NEW write \in BOOLEAN, Check(write) PROVE TypeOK'
      <3>1. (artifact' = built.registry /\ Parses(built.registry)) \/ artifact' = artifact
        BY <2>8 DEF Check
      <3>2. exitCode' \in {0, 1}
        BY <2>8 DEF Check, ExitCode
      <3> QED BY <2>8, <3>1, <3>2 DEF TypeOK, Check
    <2>9. CASE UNCHANGED vars
      BY <2>9 DEF TypeOK, vars
    <2> QED BY <1>2, <2>1, <2>2, <2>3, <2>4, <2>5, <2>6, <2>7, <2>8, <2>9 DEF Next
  <1> QED BY <1>1, <1>2

(* Type correctness: the registry stays a registry through every edit, and  *)
(* the artifact is never a registry that does not parse (main parses before *)
(* it writes).                                                              *)
THEOREM TypeCorrect == Spec => []TypeOK
  BY TypeInductive, PTL DEF Spec

----------------------------------------------------------------------------
(* Where nothing is defined twice and whatever refers is above what it      *)
(* refers to, no set of ids refers endlessly to itself: an entry of least   *)
(* rank among those of the set cannot refer to one of them.                 *)
LEMMA LayeredIsFounded ==
  ASSUME NEW r, NEW table, NEW field, NEW rank, NEW C, r[table] \in Seq(C),
         Repeated(r[table]) = {},
         \A e \in Entries(r, table) : e[rank] \in Nat,
         Climbs(r, table, field, rank) = {},
         NEW S, S \subseteq Ids(r, table), S # {}
  PROVE  ~Endless(r, table, field, S)
  <1> SUFFICES ASSUME Endless(r, table, field, S) PROVE FALSE
    OBVIOUS
  <1> DEFINE Of == {e \in Entries(r, table) : e.id \in S}
             Ranks == {e[rank] : e \in Of}
  <1>1. Ranks \subseteq Nat /\ Ranks # {}
    BY DEF Ids
  <1>2. PICK n \in Ranks : \A m \in Ranks : ~(<<m, n>> \in OpToRel(<, Nat))
    <2> HIDE DEF Ranks
    <2> QED BY <1>1, WFMin, NatLessThanWellFounded
  <1>3. \A m \in Ranks : ~(m < n)
    BY <1>1, <1>2 DEF OpToRel
  <1>4. PICK x \in Of : x[rank] = n
    OBVIOUS
  <1>5. PICK y \in Entries(r, table) : y.id = x.id /\ y[field] \intersect S # {}
    BY DEF Endless
  <1>6. Held(r, table) = Entries(r, table)
    BY DEF Held, Entries, ToSet
  <1>7. PICK z \in Entries(r, table) : z.id \in y[field] /\ z.id \in S
    BY <1>5 DEF Ids
  <1>8. z[rank] < y[rank]
    BY <1>6, <1>7 DEF Climbs
  <1>9. z[rank] \in Ranks
    BY <1>7
  <1>10. y = x
    <2>1. PICK i, j \in DOMAIN r[table] : y = r[table][i] /\ x = r[table][j]
      BY DEF Entries, ToSet
    <2>2. i \in Nat \ {0} /\ j \in Nat \ {0} /\ r[table][i].id = r[table][j].id
      BY <1>5, <2>1
    <2>3. ~(i < j) /\ ~(j < i)
      BY <2>1, <2>2 DEF Repeated
    <2> QED BY <2>1, <2>2, <2>3
  <1> QED BY <1>3, <1>4, <1>8, <1>9, <1>10

----------------------------------------------------------------------------
(* A registry has no problems exactly if it has none of a kind.             *)
LEMMA ProblemsByKind ==
  ASSUME NEW r
  PROVE  Problems(r) = {} <=>
           /\ DuplicateIds(r) = {} /\ DuplicateExposures(r) = {}
           /\ MissingReferences(r) = {}
           /\ OrderProblems(r) = {} /\ DeprecationMismatches(r) = {}
  BY DEF Problems

(* No id is reported as repeated exactly if no table repeats one.           *)
LEMMA IdsByTable ==
  ASSUME NEW r
  PROVE  DuplicateIds(r) = {} <=> \A t \in Tables : Repeated(r[t]) = {}
  <1>1. ASSUME NEW t \in Tables, NEW i \in Repeated(r[t]) PROVE DuplicateIds(r) # {}
    <2>1. Problem("REG_DUPLICATE_ID", t, r[t][i]) \in DuplicateIds(r)
      BY <1>1 DEF DuplicateIds
    <2> QED BY <2>1
  <1>2. ASSUME \A t \in Tables : Repeated(r[t]) = {} PROVE DuplicateIds(r) = {}
    BY <1>2 DEF DuplicateIds
  <1> QED BY <1>1, <1>2

(* The problems of order are those of aliases and of compositions.          *)
LEMMA OrderByKind ==
  ASSUME NEW r
  PROVE  OrderProblems(r) = {} <=>
           /\ Climbs(r, "tokens", "aliasOf", "tier") = {}
           /\ Climbs(r, "components", "composedOf", "atomicLevel") = {}
           /\ \A x \in Entries(r, "components") : ~(x.composedOf # {} /\ x.atomicLevel <= Atom)
  BY DEF OrderProblems

\* The references of a table through one of its fields are all there.
Resolves(r, table, field, target) ==
  \A e \in Entries(r, table) : e[field] \subseteq Ids(r, target)

(* A reference is reported as missing exactly if it resolves to nothing.    *)
LEMMA MissingByField ==
  ASSUME NEW r, NEW code, NEW table, NEW field, NEW target
  PROVE  Missing(r, code, table, field, target) = {} <=> Resolves(r, table, field, target)
  BY DEF Missing, Resolves

AllResolve(r) ==
  /\ Resolves(r, "tokens", "aliasOf", "tokens")
  /\ Resolves(r, "components", "usesTokens", "tokens")
  /\ Resolves(r, "components", "followsPrinciples", "principles")
  /\ Resolves(r, "components", "accessibility", "accessibilityRules")
  /\ Resolves(r, "components", "ownerId", "owners")
  /\ Resolves(r, "components", "composedOf", "components")
  /\ Resolves(r, "components", "replacedBy", "components")
  /\ Resolves(r, "patterns", "consistsOf", "components")
  /\ Resolves(r, "patterns", "usesTokens", "tokens")
  /\ Resolves(r, "exceptions", "ownerId", "owners")

(* The same of all references of a registry.                                *)
LEMMA MissingByTable ==
  ASSUME NEW r PROVE MissingReferences(r) = {} <=> AllResolve(r)
  BY MissingByField DEF MissingReferences, AllResolve

(* What the validation lets through is founded, whatever was edited before. *)
THEOREM Founded == Spec => []ValidIsFounded
  <1>1. ASSUME TypeOK PROVE ValidIsFounded
    <2> SUFFICES ASSUME Parses(registry), Problems(registry) = {} PROVE
             /\ \A S \in SUBSET Ids(registry, "tokens") :
                  S # {} => ~Endless(registry, "tokens", "aliasOf", S)
             /\ \A S \in SUBSET Ids(registry, "components") :
                  S # {} => ~Endless(registry, "components", "composedOf", S)
             /\ \A t \in Entries(registry, "tokens") :
                  t.hasValue \/ t.aliasOf \intersect Ids(registry, "tokens") # {}
      BY DEF ValidIsFounded
    <2>1. \A t \in Tables : registry[t] \in Seq(Candidates[t]) /\ Repeated(registry[t]) = {}
      BY <1>1, ProblemsByKind, IdsByTable DEF TypeOK, IsRegistry
    <2>2. "tokens" \in Tables /\ "components" \in Tables
      BY DEF Tables
    <2>3. /\ \A e \in Entries(registry, "tokens") : e["tier"] \in Nat
          /\ \A e \in Entries(registry, "components") : e["atomicLevel"] \in Nat
      BY <2>1, <2>2, DesignSystemAssumption DEF Entries, ToSet
    <2>4. /\ Climbs(registry, "tokens", "aliasOf", "tier") = {}
          /\ Climbs(registry, "components", "composedOf", "atomicLevel") = {}
      BY ProblemsByKind, OrderByKind
    <2>5. \A S \in SUBSET Ids(registry, "tokens") :
            S # {} => ~Endless(registry, "tokens", "aliasOf", S)
      BY <2>1, <2>2, <2>3, <2>4, LayeredIsFounded
    <2>6. \A S \in SUBSET Ids(registry, "components") :
            S # {} => ~Endless(registry, "components", "composedOf", S)
      BY <2>1, <2>2, <2>3, <2>4, LayeredIsFounded
    <2>7. \A t \in Entries(registry, "tokens") :
            t.hasValue \/ t.aliasOf \intersect Ids(registry, "tokens") # {}
      <3>1. \A t \in Entries(registry, "tokens") : t["aliasOf"] \subseteq Ids(registry, "tokens")
        BY ProblemsByKind, MissingByTable DEF AllResolve, Resolves
      <3>2. \A t \in Entries(registry, "tokens") : t.hasValue <=> t.aliasOf = {}
        BY DEF Parses, TokenParses
      <3> QED BY <3>1, <3>2
    <2> QED BY <2>5, <2>6, <2>7
  <1> QED BY <1>1, TypeCorrect, PTL

----------------------------------------------------------------------------
\* What the candidates are holds of the entries of every registry.
LEMMA EntriesAreCandidates ==
  ASSUME NEW r, IsRegistry(r), NEW t \in Tables
  PROVE  /\ Entries(r, t) \subseteq Candidates[t]
         /\ DOMAIN r[t] = 1..Len(r[t]) /\ Len(r[t]) \in Nat
         /\ \A i \in DOMAIN r[t] : r[t][i] \in Candidates[t]
  BY DEF IsRegistry, Entries, ToSet

(* No id is reported exactly if ids are unique in each table.               *)
LEMMA IdsAreUnique ==
  ASSUME NEW r, IsRegistry(r)
  PROVE  DuplicateIds(r) = {} <=>
           \A t \in Tables : \A i, j \in DOMAIN r[t] : r[t][i].id = r[t][j].id => i = j
  <1>1. ASSUME NEW t \in Tables
        PROVE  Repeated(r[t]) = {} <=>
                 \A i, j \in DOMAIN r[t] : r[t][i].id = r[t][j].id => i = j
    <2>1. DOMAIN r[t] = 1..Len(r[t]) /\ Len(r[t]) \in Nat
      BY EntriesAreCandidates
    <2>2. ASSUME Repeated(r[t]) = {}, NEW i \in DOMAIN r[t], NEW j \in DOMAIN r[t],
                 r[t][i].id = r[t][j].id
          PROVE  i = j
      <3>1. ~(i < j) /\ ~(j < i)
        BY <2>1, <2>2 DEF Repeated
      <3> QED BY <2>1, <3>1
    <2>3. ASSUME \A i, j \in DOMAIN r[t] : r[t][i].id = r[t][j].id => i = j
          PROVE  Repeated(r[t]) = {}
      BY <2>1, <2>3 DEF Repeated
    <2> QED BY <2>2, <2>3
  <1> QED BY <1>1, IdsByTable

(* No exposure is reported exactly if no two share a variable or an export. *)
LEMMA ExposuresAreUnique ==
  ASSUME NEW r, IsRegistry(r)
  PROVE  DuplicateExposures(r) = {} <=>
           /\ \A i, j \in DOMAIN r["tokens"] :
                i # j => r["tokens"][i].cssVariable \intersect r["tokens"][j].cssVariable = {}
           /\ \A i, j \in DOMAIN r["components"] :
                i # j => \/ r["components"][i].name # r["components"][j].name
                         \/ r["components"][i].sourcePath # r["components"][j].sourcePath
  <1> DEFINE tokens == r["tokens"]
             components == r["components"]
             again == {i \in DOMAIN tokens :
                         /\ tokens[i].cssVariable # {}
                         /\ \E j \in 1..(i - 1) : tokens[j].cssVariable = tokens[i].cssVariable}
             named == {i \in DOMAIN components : \E j \in 1..(i - 1) :
                         /\ components[j].sourcePath = components[i].sourcePath
                         /\ components[j].name = components[i].name}
  <1>1. "tokens" \in Tables /\ "components" \in Tables
    BY DEF Tables
  <1>2. /\ DOMAIN tokens = 1..Len(tokens) /\ Len(tokens) \in Nat
        /\ DOMAIN components = 1..Len(components) /\ Len(components) \in Nat
        /\ \A i \in DOMAIN tokens : \A a, b \in tokens[i].cssVariable : a = b
    BY <1>1, EntriesAreCandidates, DesignSystemAssumption
  <1>3. DuplicateExposures(r) = {} <=> again = {} /\ named = {}
    BY DEF DuplicateExposures
  <1>4. again = {} <=> \A i, j \in DOMAIN tokens :
                         i # j => tokens[i].cssVariable \intersect tokens[j].cssVariable = {}
    <2>1. ASSUME again = {}, NEW i \in DOMAIN tokens, NEW j \in DOMAIN tokens, i # j,
                 tokens[i].cssVariable \intersect tokens[j].cssVariable # {}
          PROVE  FALSE
      <3>1. tokens[i].cssVariable = tokens[j].cssVariable /\ tokens[i].cssVariable # {}
        <4>1. PICK c : c \in tokens[i].cssVariable /\ c \in tokens[j].cssVariable
          BY <2>1
        <4>2. tokens[i].cssVariable = {c}
          BY <1>2, <2>1, <4>1
        <4>3. tokens[j].cssVariable = {c}
          BY <1>2, <2>1, <4>1
        <4> QED BY <4>2, <4>3
      <3>2. i \in again \/ j \in again
        <4>1. j \in 1..(i - 1) \/ i \in 1..(j - 1)
          BY <1>2, <2>1
        <4> QED BY <2>1, <3>1, <4>1
      <3> QED BY <2>1, <3>2
    <2>2. ASSUME \A i, j \in DOMAIN tokens :
                   i # j => tokens[i].cssVariable \intersect tokens[j].cssVariable = {},
                 NEW i \in again
          PROVE  FALSE
      <3>1. PICK j \in 1..(i - 1) : tokens[j].cssVariable = tokens[i].cssVariable
        OBVIOUS
      <3>2. j \in DOMAIN tokens /\ j # i
        BY <1>2
      <3> QED BY <2>2, <3>1, <3>2
    <2> QED BY <2>1, <2>2
  <1>5. named = {} <=> \A i, j \in DOMAIN components :
                         i # j => \/ components[i].name # components[j].name
                                  \/ components[i].sourcePath # components[j].sourcePath
    <2>1. ASSUME named = {}, NEW i \in DOMAIN components, NEW j \in DOMAIN components, i # j,
                 components[i].name = components[j].name,
                 components[i].sourcePath = components[j].sourcePath
          PROVE  FALSE
      <3> i < j \/ j < i
        BY <1>2, <2>1
      <3> QED BY <1>2, <2>1
    <2>2. ASSUME \A i, j \in DOMAIN components :
                   i # j => \/ components[i].name # components[j].name
                            \/ components[i].sourcePath # components[j].sourcePath
          PROVE  named = {}
      BY <1>2, <2>2
    <2> QED BY <2>1, <2>2
  <1> QED BY <1>3, <1>4, <1>5

(* The references of the definition and those of the loops are the same.    *)
LEMMA ReferencesResolve ==
  ASSUME NEW r PROVE References(r) \subseteq Definitions(r) <=> AllResolve(r)
  <1>1. \A table \in Tables : \A id : <<table, id>> \in Definitions(r) <=> id \in Ids(r, table)
    BY DEF Definitions
  <1> DEFINE OfComponent(e) == ({"tokens"} \X e.usesTokens)
                               \union ({"principles"} \X e.followsPrinciples)
                               \union ({"accessibilityRules"} \X e.accessibility)
                               \union ({"owners"} \X e.ownerId)
                               \union ({"components"} \X (e.composedOf \union e.replacedBy))
             OfPattern(e) == ({"components"} \X e.consistsOf) \union ({"tokens"} \X e.usesTokens)
             D == Definitions(r)
  <1>2. References(r) \subseteq D <=>
          /\ \A e \in Entries(r, "tokens") : {"tokens"} \X e.aliasOf \subseteq D
          /\ \A e \in Entries(r, "components") : OfComponent(e) \subseteq D
          /\ \A e \in Entries(r, "patterns") : OfPattern(e) \subseteq D
          /\ \A e \in Entries(r, "exceptions") : {"owners"} \X e.ownerId \subseteq D
    <2> DEFINE T1 == {{"tokens"} \X e.aliasOf : e \in Entries(r, "tokens")}
               T2 == {OfComponent(e) : e \in Entries(r, "components")}
               T3 == {OfPattern(e) : e \in Entries(r, "patterns")}
               T4 == {{"owners"} \X e.ownerId : e \in Entries(r, "exceptions")}
    <2>1. References(r) = UNION (T1 \union T2 \union T3 \union T4)
      BY Zenon DEF References
    <2>2. References(r) \subseteq D <=> \A s \in T1 \union T2 \union T3 \union T4 : s \subseteq D
      <3> HIDE DEF T1, T2, T3, T4, D
      <3> QED BY <2>1
    <2> HIDE DEF OfComponent, OfPattern, D
    <2> QED BY <2>2, Zenon
  <1>3. \A table \in Tables : \A S : {table} \X S \subseteq D <=> S \subseteq Ids(r, table)
    <2> TAKE table \in Tables
    <2> TAKE S
    <2>1. {table} \X S \subseteq D <=> \A id \in S : <<table, id>> \in D
      <3> HIDE DEF D
      <3> QED OBVIOUS
    <2> QED BY <1>1, <2>1
  <1>4. {"tokens", "components", "principles", "owners", "accessibilityRules"} \subseteq Tables
    BY DEF Tables
  <1>5. ASSUME NEW e
        PROVE  OfComponent(e) \subseteq D <=>
                 /\ e.usesTokens \subseteq Ids(r, "tokens")
                 /\ e.followsPrinciples \subseteq Ids(r, "principles")
                 /\ e.accessibility \subseteq Ids(r, "accessibilityRules")
                 /\ e.ownerId \subseteq Ids(r, "owners")
                 /\ e.composedOf \subseteq Ids(r, "components")
                 /\ e.replacedBy \subseteq Ids(r, "components")
    <2>1. OfComponent(e) \subseteq D <=>
            /\ {"tokens"} \X e.usesTokens \subseteq D
            /\ {"principles"} \X e.followsPrinciples \subseteq D
            /\ {"accessibilityRules"} \X e.accessibility \subseteq D
            /\ {"owners"} \X e.ownerId \subseteq D
            /\ {"components"} \X (e.composedOf \union e.replacedBy) \subseteq D
      <3> \A A1, A2, A3, A4, A5, X :
             A1 \union A2 \union A3 \union A4 \union A5 \subseteq X <=>
               /\ A1 \subseteq X /\ A2 \subseteq X /\ A3 \subseteq X
               /\ A4 \subseteq X /\ A5 \subseteq X
        OBVIOUS
      <3> HIDE DEF D
      <3> QED BY Zenon
    <2>2. e.composedOf \union e.replacedBy \subseteq Ids(r, "components") <=>
            e.composedOf \subseteq Ids(r, "components") /\ e.replacedBy \subseteq Ids(r, "components")
      OBVIOUS
    <2> HIDE DEF OfComponent, D
    <2> QED BY <1>3, <1>4, <2>1, <2>2
  <1>6. ASSUME NEW e
        PROVE  OfPattern(e) \subseteq D <=>
                 /\ e.consistsOf \subseteq Ids(r, "components")
                 /\ e.usesTokens \subseteq Ids(r, "tokens")
    <2>1. OfPattern(e) \subseteq D <=>
            {"components"} \X e.consistsOf \subseteq D /\ {"tokens"} \X e.usesTokens \subseteq D
      <3> HIDE DEF D
      <3> QED BY Zenon
    <2> QED BY <1>3, <1>4, <2>1
  <1> HIDE DEF OfComponent, OfPattern, D
  <1> QED BY <1>2, <1>3, <1>4, <1>5, <1>6 DEF AllResolve, Resolves, D

\* Once ids are unique, the entries that a map of ids holds are all of them.
LEMMA HeldAreEntries ==
  ASSUME NEW r, NEW t, Repeated(r[t]) = {} PROVE Held(r, t) = Entries(r, t)
  BY DEF Held, Entries, ToSet

(* No problem of order is reported exactly if no reference climbs.          *)
LEMMA OrderIsLayered ==
  ASSUME NEW r, IsRegistry(r), DuplicateIds(r) = {}, AllResolve(r)
  PROVE  OrderProblems(r) = {} <=> Layered(r)
  <1>1. "tokens" \in Tables /\ "components" \in Tables
    BY DEF Tables
  <1>2. Held(r, "tokens") = Entries(r, "tokens") /\ Held(r, "components") = Entries(r, "components")
    BY <1>1, HeldAreEntries, IdsByTable
  <1>3. /\ \A e \in Entries(r, "tokens") : e.tier \in Nat
        /\ \A e \in Entries(r, "components") : e.atomicLevel \in Nat
    BY <1>1, EntriesAreCandidates, DesignSystemAssumption
  <1>4. Climbs(r, "tokens", "aliasOf", "tier") = {} <=>
          \A x, y \in Entries(r, "tokens") : y.id \in x.aliasOf => y.tier < x.tier
    BY <1>2, <1>3 DEF Climbs
  <1>5. Climbs(r, "components", "composedOf", "atomicLevel") = {} <=>
          \A x, y \in Entries(r, "components") :
            y.id \in x.composedOf => y.atomicLevel < x.atomicLevel
    BY <1>2, <1>3 DEF Climbs
  <1>6. (\A x \in Entries(r, "components") : ~(x.composedOf # {} /\ x.atomicLevel <= Atom)) <=>
          \A x, y \in Entries(r, "components") : y.id \in x.composedOf => x.atomicLevel > Atom
    <2>1. \A x \in Entries(r, "components") : x["composedOf"] \subseteq Ids(r, "components")
      BY DEF AllResolve, Resolves
    <2>2. \A x \in Entries(r, "components") :
            x.composedOf # {} <=> \E y \in Entries(r, "components") : y.id \in x.composedOf
      BY <2>1 DEF Ids
    <2> QED BY <1>3, <2>2 DEF Atom
  <1> QED BY <1>4, <1>5, <1>6, OrderByKind DEF Layered

(* A registry is valid exactly if it is coherent: what the validation loops *)
(* over tables look for is all that can be wrong between two entries.       *)
LEMMA ValidIsCoherent ==
  ASSUME NEW r, IsRegistry(r) PROVE Problems(r) = {} <=> Coherent(r)
  <1>1. Unique(r) <=> DuplicateIds(r) = {} /\ DuplicateExposures(r) = {}
    BY IdsAreUnique, ExposuresAreUnique DEF Unique
  <1>2. References(r) \subseteq Definitions(r) <=> MissingReferences(r) = {}
    BY ReferencesResolve, MissingByTable
  <1>3. DuplicateIds(r) = {} /\ MissingReferences(r) = {} =>
          (OrderProblems(r) = {} <=> Layered(r))
    BY OrderIsLayered, MissingByTable
  <1>4. DeprecationMismatches(r) = {} <=>
          \A c \in Entries(r, "components") : c.status = "deprecated" <=> c.deprecation
    <2>1. \A c \in Entries(r, "components") : c.deprecation \in BOOLEAN
      BY EntriesAreCandidates, DesignSystemAssumption DEF Tables
    <2>2. DeprecationMismatches(r) = {} <=>
            \A c \in Entries(r, "components") : ~((c.status = "deprecated") # c.deprecation)
      BY Zenon DEF DeprecationMismatches
    <2> QED BY <2>1, <2>2
  <1> QED BY <1>1, <1>2, <1>3, <1>4, ProblemsByKind DEF Coherent

----------------------------------------------------------------------------
(* The check finds nothing exactly in a governed system.                    *)
LEMMA NothingFoundIffGoverned ==
  ASSUME TypeOK, NEW r, IsRegistry(r), Parses(r), NEW src
  PROVE  CheckDesignSystem(r, src, now) = {} <=> Governed(r, src)
  <1>1. IntegrityFindings(r) = {} <=> Coherent(r)
    BY ValidIsCoherent DEF IntegrityFindings
  <1>2. /\ now \in Int
        /\ \A e \in Entries(r, "exceptions") : e.expiresAt \in Int
    BY EntriesAreCandidates, DesignSystemAssumption DEF Tables, TypeOK
  <1>3. ExceptionFindings(r, now) = {} <=> \A e \in Entries(r, "exceptions") : e.expiresAt > now
    <2>1. ExceptionFindings(r, now) = {} <=> Expired(r, now) = {}
      BY Zenon DEF ExceptionFindings
    <2> QED BY <1>2, <2>1 DEF Expired
  <1>4. RawValueFindings(r, src, now) = {} <=> \A o \in src.rawValues : HasException(r, now, o)
    BY DEF RawValueFindings
  <1>5. MissingPathFindings(r, src) = {} <=>
          \A c \in Entries(r, "components") : c.sourcePath \in src.files /\ c.tests \subseteq src.files
    <2> DEFINE Absent(c) == ({c.sourcePath} \union c.tests) \ src.files
               Report(c, p) == Finding("DS_BROKEN_REFERENCE", "serious", "maintainability",
                                       <<c.id, p>>)
    <2>1. MissingPathFindings(r, src)
            = UNION {{Report(c, p) : p \in Absent(c)} : c \in Entries(r, "components")}
      BY Zenon DEF MissingPathFindings
    <2>2. MissingPathFindings(r, src) = {} <=>
            \A c \in Entries(r, "components") : Absent(c) = {}
      <3> HIDE DEF Absent, Report
      <3>1. ASSUME NEW c \in Entries(r, "components"), NEW p \in Absent(c)
            PROVE  MissingPathFindings(r, src) # {}
        <4>1. Report(c, p) \in MissingPathFindings(r, src)
          <5>1. Report(c, p) \in {Report(c, q) : q \in Absent(c)}
            BY <3>1, Zenon
          <5> QED BY <2>1, <3>1, <5>1
        <4> QED BY <4>1
      <3>2. ASSUME \A c \in Entries(r, "components") : Absent(c) = {},
                   NEW f \in MissingPathFindings(r, src)
            PROVE  FALSE
        BY <2>1, <3>2, Zenon
      <3> QED BY <3>1, <3>2
    <2> QED BY <2>2
  <1>6. UnregisteredFindings(r, src) = {} <=>
          \A n \in src.exported : \E c \in Entries(r, "components") : c.name = n
    BY DEF UnregisteredFindings
  <1>7. UndocumentedFindings(r) = {} <=>
          \A c \in Entries(r, "components") : Interactive(c) => "focus_visible" \in c.states
    BY DEF UndocumentedFindings
  <1>8. CheckDesignSystem(r, src, now) = {} <=>
          /\ IntegrityFindings(r) = {} /\ ExceptionFindings(r, now) = {}
          /\ RawValueFindings(r, src, now) = {} /\ MissingPathFindings(r, src) = {}
          /\ UnregisteredFindings(r, src) = {} /\ UndocumentedFindings(r) = {}
    BY DEF CheckDesignSystem
  <1> QED BY <1>1, <1>3, <1>4, <1>5, <1>6, <1>7, <1>8 DEF Governed, HasException

(* The script exits with 0 exactly on a governed system with a fresh        *)
(* artifact (check-design-system.mjs:12).                                   *)
THEOREM ExitCodeIsRight == Spec => ExitZeroIffGoverned
  <1>1. ASSUME TypeOK, NEW write \in BOOLEAN, Check(write)
        PROVE  exitCode' = 0 <=> Governed(built.registry, Scanned) /\ artifact' = built.registry
    <2>1. CASE ~Parses(built.registry)
      BY <1>1, <2>1 DEF Check, Governed
    <2>2. CASE Parses(built.registry)
      <3>1. Findings = {} <=> Governed(built.registry, Scanned)
        BY <1>1, <2>2, NothingFoundIffGoverned DEF Findings, TypeOK
      <3> QED BY <1>1, <2>2, <3>1 DEF Check, ExitCode
    <2> QED BY <2>1, <2>2
  <1>2. TypeOK => \A write \in BOOLEAN : Check(write) =>
          (exitCode' = 0 <=> Governed(built.registry, Scanned) /\ artifact' = built.registry)
    BY <1>1
  <1> QED BY <1>2, TypeCorrect, PTL DEF ExitZeroIffGoverned

----------------------------------------------------------------------------
\* An exception that has not expired is one that may still excuse something.
LEMMA ExcusedByTheRest ==
  ASSUME NEW r, IsRegistry(r), NEW t \in Int, NEW o
  PROVE  HasException(r, t, o) <=>
           \E e \in Entries(r, "exceptions") \ Expired(r, t) : Covers(e, o)
  <1>1. \A e \in Entries(r, "exceptions") : e.expiresAt \in Int
    BY EntriesAreCandidates, DesignSystemAssumption DEF Tables
  <1> QED BY <1>1 DEF HasException, Expired

(* Time heals nothing, and what it breaks is reported with its cause.       *)
THEOREM TimeHealsNothing == Spec => TimeOnlyExpires
  <1>1. ASSUME TypeOK, Tick
        PROVE  /\ Findings \subseteq Findings'
               /\ Findings' # Findings =>
                    \E e \in Expired(built.registry, now') \ Expired(built.registry, now) :
                      \E f \in Findings' : f.code = "DS_EXCEPTION_EXPIRED" /\ f.at = <<e.id>>
    <2> DEFINE r == built.registry
               Lost == Expired(r, now') \ Expired(r, now)
    <2>1. /\ IsRegistry(r) /\ now \in Int /\ now' = now + 1
          /\ UNCHANGED <<built, Scanned>>
      BY <1>1 DEF TypeOK, Tick, Scanned
    <2>2. \A e \in Entries(r, "exceptions") : e.expiresAt \in Int
      BY <2>1, EntriesAreCandidates, DesignSystemAssumption DEF Tables
    <2>3. Expired(r, now) \subseteq Expired(r, now')
      BY <2>1, <2>2 DEF Expired
    <2>4. \A o : HasException(r, now', o) => HasException(r, now, o)
      BY <2>1, <2>3, ExcusedByTheRest
    <2>5. Findings' = CheckDesignSystem(r, Scanned, now')
      BY <2>1 DEF Findings
    <2>6. ExceptionFindings(r, now) \subseteq ExceptionFindings(r, now')
      BY <2>3 DEF ExceptionFindings
    <2>7. RawValueFindings(r, Scanned, now) \subseteq RawValueFindings(r, Scanned, now')
      BY <2>4 DEF RawValueFindings
    <2>8. Findings \subseteq Findings'
      BY <2>5, <2>6, <2>7 DEF Findings, CheckDesignSystem
    <2>9. ASSUME Lost = {} PROVE Findings' = Findings
      <3>1. Expired(r, now') = Expired(r, now)
        BY <2>3, <2>9
      <3>2. \A o : HasException(r, now', o) <=> HasException(r, now, o)
        BY <2>1, <3>1, ExcusedByTheRest
      <3>3. /\ ExceptionFindings(r, now') = ExceptionFindings(r, now)
            /\ RawValueFindings(r, Scanned, now') = RawValueFindings(r, Scanned, now)
        BY <3>1, <3>2 DEF ExceptionFindings, RawValueFindings
      <3> QED BY <2>5, <3>3 DEF Findings, CheckDesignSystem
    <2>10. ASSUME NEW e \in Lost
           PROVE  \E f \in Findings' : f.code = "DS_EXCEPTION_EXPIRED" /\ f.at = <<e.id>>
      <3> DEFINE f == Finding("DS_EXCEPTION_EXPIRED", "moderate", "maintainability", <<e.id>>)
      <3>1. f \in ExceptionFindings(r, now')
        BY DEF ExceptionFindings
      <3>2. f \in Findings'
        BY <2>5, <3>1 DEF CheckDesignSystem
      <3> QED BY <3>2 DEF Finding
    <2> QED BY <2>8, <2>9, <2>10
  <1> QED BY <1>1, TypeCorrect, PTL DEF TimeOnlyExpires

----------------------------------------------------------------------------
(* The anti-slop gate.                                                      *)

Sound(r) == r \in ReviewType /\ Consistent(r)

(* What the gate says, dimension by dimension.                              *)
LEMMA GateByDimension ==
  ASSUME NEW r, NEW d
  PROVE  LET gate == EvaluateReview(r) IN
         /\ d \in DOMAIN gate.blocking <=>
              d \in Untested(r) \/ (d \in GradedAs(r, "fail") /\ ~Excepted(r, d))
         /\ d \in gate.concerns <=>
              d \in GradedAs(r, "pass_with_concern")
                \/ (d \in GradedAs(r, "fail") /\ Excepted(r, d))
         /\ d \in gate.exceptionsApplied <=> d \in GradedAs(r, "fail") /\ Excepted(r, d)
  BY DEF EvaluateReview

(* The gate accepts exactly if it blocks nothing.                           *)
LEMMA GateAccepts ==
  ASSUME NEW r
  PROVE  LET gate == EvaluateReview(r) IN
         /\ gate.accepted \in BOOLEAN
         /\ gate.accepted <=> \A d : d \notin DOMAIN gate.blocking
  <1>1. EvaluateReview(r).accepted = (DOMAIN EvaluateReview(r).blocking = {})
    BY DEF EvaluateReview
  <1> QED BY <1>1, Zenon

\* A grade of a review is a dimension and what it got.
LEMMA GradeIsARecord ==
  ASSUME NEW r \in ReviewType, NEW i \in DOMAIN r.grades
  PROVE  /\ r.grades[i].dimension \in Dimensions /\ r.grades[i].grade \in Grade
         /\ r.grades[i] = [dimension |-> r.grades[i].dimension, grade |-> r.grades[i].grade]
  <1>1. r.grades \in Seq([dimension : Dimensions, grade : Grade])
    BY DEF ReviewType
  <1>2. i \in 1..Len(r.grades)
    BY <1>1
  <1>3. r.grades[i] \in [dimension : Dimensions, grade : Grade]
    BY <1>1, <1>2, ElementOfSeq, Zenon
  <1>4. \A x \in [dimension : Dimensions, grade : Grade] :
          /\ x.dimension \in Dimensions /\ x.grade \in Grade
          /\ x = [dimension |-> x.dimension, grade |-> x.grade]
    OBVIOUS
  <1> QED BY <1>3, <1>4, Zenon

(* Grades are given to dimensions.                                          *)
LEMMA GradesAreOfDimensions ==
  ASSUME NEW r \in ReviewType
  PROVE  /\ \A g : GradedAs(r, g) \subseteq Dimensions
         /\ Untested(r) \subseteq Dimensions
         /\ \A d : d \in Graded(r) <=> \E g \in Grade : d \in GradedAs(r, g)
         /\ \A d, g : d \in GradedAs(r, g) <=>
              \E i \in DOMAIN r.grades : r.grades[i].dimension = d /\ r.grades[i].grade = g
  <1>1. r.grades \in Seq([dimension : Dimensions, grade : Grade])
        /\ r.changeType \in DOMAIN Required
    BY DEF ReviewType
  <1>2. \A i \in DOMAIN r.grades : r.grades[i].dimension \in Dimensions /\ r.grades[i].grade \in Grade
    BY GradeIsARecord
  <1> QED BY <1>1, <1>2, RequiredAssumption DEF GradedAs, Graded, Untested

(* A consistent review gives a dimension at most one grade.                 *)
LEMMA OneGrade ==
  ASSUME NEW r, Consistent(r), NEW d, NEW g, NEW h,
         d \in GradedAs(r, g), d \in GradedAs(r, h)
  PROVE  g = h
  BY DEF Consistent, GradedAs

(* The result of the gate has its type.                                     *)
LEMMA ResultIsTyped ==
  ASSUME NEW r \in ReviewType
  PROVE  /\ EvaluateReview(r) \in GateResult
         /\ EvaluateReview(r).exceptionsApplied \subseteq EvaluateReview(r).concerns
  <1> DEFINE g == EvaluateReview(r)
  <1>1. g = [accepted |-> g.accepted, blocking |-> g.blocking, concerns |-> g.concerns,
             exceptionsApplied |-> g.exceptionsApplied]
    BY DEF EvaluateReview
  <1>2. g.accepted \in BOOLEAN
    BY GateAccepts
  <1>3. DOMAIN g.blocking \subseteq Dimensions
    BY GateByDimension, GradesAreOfDimensions
  <1>4. g.blocking \in [DOMAIN g.blocking -> {"fail", "not_tested"}]
    BY DEF EvaluateReview
  <1>5. g.concerns \subseteq Dimensions /\ g.exceptionsApplied \subseteq Dimensions
    BY GateByDimension, GradesAreOfDimensions
  <1>6. g.exceptionsApplied \subseteq g.concerns
    BY DEF EvaluateReview
  <1> HIDE DEF g
  <1>7. g.blocking \in UNION {[S -> {"fail", "not_tested"}] : S \in SUBSET Dimensions}
    BY <1>3, <1>4
  <1>8. g \in GateResult
    BY <1>1, <1>2, <1>5, <1>7 DEF GateResult
  <1> QED BY <1>6, <1>8 DEF g

(* Each dimension is acceptable exactly if it does not block.               *)
LEMMA AcceptableByDimension ==
  ASSUME NEW r, Sound(r), NEW d \in Dimensions
  PROVE  Acceptable(r, d) <=> d \notin DOMAIN EvaluateReview(r).blocking
  <1>1. /\ r.grades \in Seq([dimension : Dimensions, grade : Grade])
        /\ r.changeType \in DOMAIN Required /\ r \in ReviewType
    BY DEF Sound, ReviewType
  <1>2. Live(r, d) <=> Excepted(r, d)
    BY DEF Live, Excepted
  <1>3. Says(r, d, "fail") <=> d \in GradedAs(r, "fail")
    <2> DEFINE At(i) == r.grades[i]
    <2>1. \A i \in DOMAIN r.grades :
            At(i) = [dimension |-> At(i).dimension, grade |-> At(i).grade]
      BY <1>1, GradeIsARecord
    <2>2. Says(r, d, "fail") <=>
            \E i \in DOMAIN r.grades : At(i) = [dimension |-> d, grade |-> "fail"]
      BY DEF Says
    <2>3. d \in GradedAs(r, "fail") <=>
            \E i \in DOMAIN r.grades : At(i).dimension = d /\ At(i).grade = "fail"
      BY DEF GradedAs
    <2> HIDE DEF At
    <2> QED BY <2>1, <2>2, <2>3
  <1>4. Acceptable(r, d) <=>
          \/ d \in GradedAs(r, "pass") \/ d \in GradedAs(r, "pass_with_concern")
          \/ d \in GradedAs(r, "fail") /\ Excepted(r, d)
          \/ d \notin Required[r.changeType] /\ d \notin GradedAs(r, "fail")
    BY <1>1, <1>2, <1>3 DEF Acceptable, GradedAs
  <1>5. d \in Untested(r) <=>
          d \in Required[r.changeType] /\ (d \notin Graded(r) \/ d \in GradedAs(r, "not_tested"))
    BY DEF Untested
  <1>6. d \in Graded(r) <=> \/ d \in GradedAs(r, "pass") \/ d \in GradedAs(r, "pass_with_concern")
                            \/ d \in GradedAs(r, "fail") \/ d \in GradedAs(r, "not_tested")
    BY <1>1, GradesAreOfDimensions DEF Grade
  <1>7. \A g, h \in Grade : d \in GradedAs(r, g) /\ d \in GradedAs(r, h) => g = h
    BY OneGrade DEF Sound
  <1>8. /\ ~(d \in GradedAs(r, "not_tested") /\ d \in GradedAs(r, "pass"))
        /\ ~(d \in GradedAs(r, "not_tested") /\ d \in GradedAs(r, "pass_with_concern"))
        /\ ~(d \in GradedAs(r, "not_tested") /\ d \in GradedAs(r, "fail"))
        /\ ~(d \in GradedAs(r, "fail") /\ d \in GradedAs(r, "pass"))
        /\ ~(d \in GradedAs(r, "fail") /\ d \in GradedAs(r, "pass_with_concern"))
    BY <1>7 DEF Grade
  <1>9. d \in DOMAIN EvaluateReview(r).blocking <=>
          d \in Untested(r) \/ (d \in GradedAs(r, "fail") /\ ~Excepted(r, d))
    BY GateByDimension
  <1> QED BY <1>4, <1>5, <1>6, <1>8, <1>9

(* What `nas antislop' said is what the gate says of the review it was run  *)
(* on: the invariant behind the properties of the gate.                     *)
Ran ==
  \/ result.exit = 1 /\ result.gate = NoResult /\ result.of.grades = <<>>
  \/ result.exit = 1 /\ result.gate = NoResult /\ ~Consistent(result.of)
  \/ /\ Consistent(result.of) /\ result.gate = EvaluateReview(result.of)
     /\ result.exit = IF result.gate.accepted THEN 0 ELSE 1

GateInv == review \in ReviewType /\ result.of \in ReviewType /\ Ran

(* What one more grade does to a review.                                    *)
LEMMA AppendedGrade ==
  ASSUME NEW r \in ReviewType, NEW d \in Dimensions, NEW g \in Grade, NEW n,
         n = [r EXCEPT !.grades = Append(@, [dimension |-> d, grade |-> g])]
  PROVE  /\ n \in ReviewType
         /\ n.changeType = r.changeType /\ n.createdAt = r.createdAt
         /\ n.exceptions = r.exceptions
         /\ n.grades = Append(r.grades, [dimension |-> d, grade |-> g])
  <1> DEFINE S == [dimension : Dimensions, grade : Grade]
             x == [dimension |-> d, grade |-> g]
             more == Append(r.grades, x)
  <1>1. r.grades \in Seq(S) /\ x \in S
    BY DEF ReviewType
  <1>2. more \in Seq(S)
    BY <1>1, AppendProperties
  <1>3. n = [r EXCEPT !.grades = more]
    OBVIOUS
  <1> HIDE DEF S, more
  <1>4. r \in [changeType : DOMAIN Required, createdAt : {CreatedAt}, grades : Seq(S),
               exceptions : Seq([dimension : Dimensions, expiresAt : Expiries])]
    BY DEF ReviewType, S
  <1>5. /\ n \in [changeType : DOMAIN Required, createdAt : {CreatedAt}, grades : Seq(S),
                  exceptions : Seq([dimension : Dimensions, expiresAt : Expiries])]
        /\ n.changeType = r.changeType /\ n.createdAt = r.createdAt
        /\ n.exceptions = r.exceptions /\ n.grades = more
    BY <1>2, <1>3, <1>4
  <1> QED BY <1>5 DEF ReviewType, S, more

(* A review with one more exception is a review.                            *)
LEMMA AppendedException ==
  ASSUME NEW r \in ReviewType, NEW d \in Dimensions, NEW e \in Expiries
  PROVE  [r EXCEPT !.exceptions = Append(@, [dimension |-> d, expiresAt |-> e])] \in ReviewType
  <1> DEFINE S == [dimension : Dimensions, expiresAt : Expiries]
             x == [dimension |-> d, expiresAt |-> e]
             more == Append(r.exceptions, x)
  <1>1. r.exceptions \in Seq(S) /\ x \in S
    BY DEF ReviewType
  <1>2. more \in Seq(S)
    BY <1>1, AppendProperties
  <1> HIDE DEF S, more
  <1>3. r \in [changeType : DOMAIN Required, createdAt : {CreatedAt},
               grades : Seq([dimension : Dimensions, grade : Grade]), exceptions : Seq(S)]
    BY DEF ReviewType, S
  <1>4. [r EXCEPT !.exceptions = more] \in
          [changeType : DOMAIN Required, createdAt : {CreatedAt},
           grades : Seq([dimension : Dimensions, grade : Grade]), exceptions : Seq(S)]
    BY <1>2, <1>3
  <1> QED BY <1>4 DEF ReviewType, S, more

(* A result shown is the result of the gate for the review it was run on.   *)
LEMMA GateInvariant == GateSpec => []GateInv
  <1>1. GateInit => GateInv
    BY DEF GateInit, GateInv, ReviewType, Ran, AntiSlopAssumption
  <1>2. ASSUME GateInv, [GateNext]_gateVars PROVE GateInv'
    <2>1. CASE UNCHANGED gateVars
      BY <1>2, <2>1 DEF GateInv, Ran, gateVars
    <2>2. ASSUME NEW d \in Dimensions, NEW g \in Grade, AddGrade(d, g) PROVE GateInv'
      <3>1. review' \in ReviewType
        BY <1>2, <2>2, AppendedGrade DEF GateInv, AddGrade
      <3> QED BY <1>2, <2>2, <3>1 DEF GateInv, Ran, AddGrade
    <2>3. ASSUME NEW d \in Dimensions, NEW e \in Expiries, AddException(d, e) PROVE GateInv'
      <3>1. review' \in ReviewType
        BY <1>2, <2>3, AppendedException DEF GateInv, AddException
      <3> QED BY <1>2, <2>3, <3>1 DEF GateInv, Ran, AddException
    <2>4. CASE Run
      <3>1. review' = review /\ review \in ReviewType
        BY <1>2, <2>4 DEF GateInv, Run
      <3>2. CASE Consistent(review)
        <4>1. result' = [exit |-> IF EvaluateReview(review).accepted THEN 0 ELSE 1,
                         gate |-> EvaluateReview(review), of |-> review]
          BY <2>4, <3>2 DEF Run
        <4> QED BY <3>1, <3>2, <4>1 DEF GateInv, Ran
      <3>3. CASE ~Consistent(review)
        <4>1. result' = [exit |-> 1, gate |-> NoResult, of |-> review]
          BY <2>4, <3>3 DEF Run
        <4> QED BY <3>1, <3>3, <4>1 DEF GateInv, Ran
      <3> QED BY <3>2, <3>3
    <2> QED BY <1>2, <2>1, <2>2, <2>3, <2>4 DEF GateNext
  <1> QED BY <1>1, <1>2, PTL DEF GateSpec

\* A result that the command did give is the gate's.
LEMMA GivenIsTheGates ==
  ASSUME GateInv
  PROVE  /\ result.exit = 0 => result.gate # NoResult
         /\ result.gate # NoResult =>
              /\ Sound(result.of) /\ result.gate = EvaluateReview(result.of)
              /\ result.exit = IF result.gate.accepted THEN 0 ELSE 1
  <1>1. EvaluateReview(result.of) \in GateResult
    BY ResultIsTyped DEF GateInv
  <1>2. EvaluateReview(result.of) # NoResult
    BY <1>1, AntiSlopAssumption
  <1> QED BY <1>2 DEF GateInv, Ran, Sound

(* A review and what the command says of it keep their types: exit 0 is     *)
(* only ever an accepting gate result (AntiSlop.tla).                       *)
THEOREM GateTypeCorrect == GateSpec => []GateTypeOK
  <1>1. ASSUME GateInv PROVE GateTypeOK
    <2>1. result.exit \in {0, 1}
      BY <1>1 DEF GateInv, Ran
    <2>2. result.gate \in GateResult \union {NoResult}
      BY <1>1, GivenIsTheGates, ResultIsTyped DEF GateInv
    <2>3. result.exit = 0 => result.gate # NoResult /\ result.gate.accepted
      BY <1>1, GivenIsTheGates
    <2>4. result.gate # NoResult => result.gate.exceptionsApplied \subseteq result.gate.concerns
      BY <1>1, GivenIsTheGates, ResultIsTyped DEF GateInv
    <2> QED BY <1>1, <2>1, <2>2, <2>3, <2>4 DEF GateTypeOK, GateInv
  <1> QED BY <1>1, GateInvariant, PTL

(* The command exits with 0 exactly on a consistent review of which every   *)
(* dimension is acceptable (engine.ts:26-86, antislop.ts:44).               *)
THEOREM NoDimensionIsOutweighed == GateSpec => []AcceptedIffEveryDimensionIs
  <1>1. ASSUME GateInv, result.gate # NoResult
        PROVE  /\ Consistent(result.of)
               /\ result.exit = 0 <=> \A d \in Dimensions : Acceptable(result.of, d)
    <2>1. /\ Sound(result.of) /\ result.gate = EvaluateReview(result.of)
          /\ result.exit = IF result.gate.accepted THEN 0 ELSE 1
      BY <1>1, GivenIsTheGates
    <2>2. result.exit = 0 <=> result.gate.accepted
      BY <2>1
    <2>3. result.gate.accepted <=> \A d : d \notin DOMAIN EvaluateReview(result.of).blocking
      BY <2>1, GateAccepts
    <2>4. \A d : d \in DOMAIN EvaluateReview(result.of).blocking => d \in Dimensions
      BY <2>1, GateByDimension, GradesAreOfDimensions DEF Sound
    <2>5. \A d \in Dimensions :
            Acceptable(result.of, d) <=> d \notin DOMAIN EvaluateReview(result.of).blocking
      BY <2>1, AcceptableByDimension
    <2> QED BY <2>1, <2>2, <2>3, <2>4, <2>5 DEF Sound
  <1>2. GateInv => AcceptedIffEveryDimensionIs
    BY <1>1, GivenIsTheGates DEF AcceptedIffEveryDimensionIs, Consistent
  <1> QED BY <1>2, GateInvariant, PTL

(* Whatever failed or raised a concern is named, on one side or the other   *)
(* and not on both (engine.ts:58-77).                                       *)
THEOREM EveryFailureIsNamed == GateSpec => []NothingHidden
  <1>1. ASSUME GateInv, result.gate # NoResult, NEW d \in Dimensions,
               Says(result.of, d, "fail") \/ Says(result.of, d, "pass_with_concern")
        PROVE  (d \in DOMAIN result.gate.blocking) # (d \in result.gate.concerns)
    <2> DEFINE r == result.of
    <2>1. Sound(r) /\ result.gate = EvaluateReview(r)
      BY <1>1, GivenIsTheGates
    <2>2. d \in GradedAs(r, "fail") \/ d \in GradedAs(r, "pass_with_concern")
      BY <1>1 DEF Says, GradedAs
    <2>3. \A g, h : d \in GradedAs(r, g) /\ d \in GradedAs(r, h) => g = h
      BY <2>1, OneGrade DEF Sound
    <2>4. /\ ~(d \in GradedAs(r, "fail") /\ d \in GradedAs(r, "pass_with_concern"))
          /\ ~(d \in GradedAs(r, "fail") /\ d \in GradedAs(r, "not_tested"))
          /\ ~(d \in GradedAs(r, "pass_with_concern") /\ d \in GradedAs(r, "not_tested"))
      BY <2>3
    <2>5. d \in Graded(r)
      BY <2>1, <2>2, GradesAreOfDimensions DEF Sound, Grade
    <2>6. d \in Untested(r) => d \in GradedAs(r, "not_tested")
      BY <2>5 DEF Untested
    <2>7. /\ d \in DOMAIN result.gate.blocking <=>
               d \in Untested(r) \/ (d \in GradedAs(r, "fail") /\ ~Excepted(r, d))
          /\ d \in result.gate.concerns <=>
               d \in GradedAs(r, "pass_with_concern")
                 \/ (d \in GradedAs(r, "fail") /\ Excepted(r, d))
      BY <2>1, GateByDimension
    <2>8. (d \in DOMAIN result.gate.blocking) <=> ~(d \in result.gate.concerns)
      BY <2>2, <2>4, <2>6, <2>7
    <2> QED BY <2>8
  <1>2. GateInv => NothingHidden
    BY <1>1 DEF NothingHidden
  <1> QED BY <1>2, GateInvariant, PTL

(* A grade given to a new dimension changes what is said of that dimension  *)
(* alone (anti-slop.ts:8: there is no aggregate score).                     *)
THEOREM DimensionsAreApart == GateSpec => GradesDoNotMix
  <1>1. ASSUME GateInv, NEW d \in Dimensions, NEW g \in Grade, AddGrade(d, g),
               NEW o \in Dimensions \ {d}
        PROVE  LET was == EvaluateReview(review)  is == EvaluateReview(review') IN
               /\ o \in DOMAIN was.blocking <=> o \in DOMAIN is.blocking
               /\ o \in was.concerns <=> o \in is.concerns
    <2> DEFINE x == [dimension |-> d, grade |-> g]
               n == Len(review.grades)
    <2>1. /\ review \in ReviewType /\ review' \in ReviewType
          /\ review'.changeType = review.changeType
          /\ review'.createdAt = review.createdAt /\ review'.exceptions = review.exceptions
          /\ review'.grades = Append(review.grades, x)
      BY <1>1, AppendedGrade DEF GateInv, AddGrade
    <2>2. review.grades \in Seq([dimension : Dimensions, grade : Grade]) /\ n \in Nat
      BY <2>1 DEF ReviewType
    <2>3. /\ DOMAIN review.grades = 1..n /\ DOMAIN review'.grades = 1..(n + 1)
          /\ \A i \in 1..n : review'.grades[i] = review.grades[i]
          /\ review'.grades[n + 1] = x
      BY <2>1, <2>2
    <2>4. ASSUME NEW h PROVE o \in GradedAs(review', h) <=> o \in GradedAs(review, h)
      <3>1. /\ o \in GradedAs(review', h) <=>
                 \E i \in 1..(n + 1) : /\ review'.grades[i].dimension = o
                                      /\ review'.grades[i].grade = h
            /\ o \in GradedAs(review, h) <=>
                 \E i \in 1..n : review.grades[i].dimension = o /\ review.grades[i].grade = h
        <4>1. \A r : o \in GradedAs(r, h) <=>
                \E i \in DOMAIN r.grades : r.grades[i].dimension = o /\ r.grades[i].grade = h
          BY DEF GradedAs
        <4>2. DOMAIN review.grades = 1..n /\ DOMAIN review'.grades = 1..(n + 1)
          BY <2>3
        <4> HIDE DEF n, x
        <4> QED BY <4>1, <4>2
      <3>2. x.dimension = d /\ d # o
        OBVIOUS
      <3>3. \A i \in 1..(n + 1) : i \in 1..n \/ i = n + 1
        BY <2>2
      <3>4. \A i \in 1..n : i \in 1..(n + 1)
        BY <2>2
      <3> HIDE DEF n, x
      <3> QED BY <2>3, <3>1, <3>2, <3>3, <3>4
    <2>5. o \in Graded(review') <=> o \in Graded(review)
      BY <2>1, <2>4, GradesAreOfDimensions
    <2>6. Excepted(review', o) <=> Excepted(review, o)
      BY <2>1 DEF Excepted
    <2>7. o \in Untested(review') <=> o \in Untested(review)
      BY <2>1, <2>4, <2>5 DEF Untested
    <2> QED BY <2>4, <2>6, <2>7, GateByDimension
  <1>2. GateInv =>
          \A d \in Dimensions, g \in Grade :
            AddGrade(d, g) /\ d \notin Graded(review) =>
              \A o \in Dimensions \ {d} :
                LET was == EvaluateReview(review)  is == EvaluateReview(review') IN
                /\ o \in DOMAIN was.blocking <=> o \in DOMAIN is.blocking
                /\ o \in was.concerns <=> o \in is.concerns
    BY <1>1
  <1> QED BY <1>2, GateInvariant, PTL DEF GradesDoNotMix

----------------------------------------------------------------------------
(* Reviews of the design system.                                            *)

(* Citing and reviewing are steps or stutters of the design system.         *)
LEMMA ReviewStepLooks == [ReviewNext]_reviewVars => [Next]_vars
  <1>1. ASSUME NEW field, NEW ref, Cite(field, ref) PROVE UNCHANGED vars
    BY <1>1 DEF Cite
  <1>2. ASSUME NEW t, NEW ds, NEW v, Review(t, ds, v) PROVE UNCHANGED vars
    BY <1>2 DEF Review
  <1>3. UNCHANGED reviewVars => UNCHANGED vars
    BY DEF reviewVars
  <1> QED BY <1>1, <1>2, <1>3 DEF ReviewNext

(* Citing and reviewing only look at the design system: every behaviour     *)
(* with reviews is one of the design system.                                *)
THEOREM ReviewsOnlyLook == ReviewSpec => Spec
  <1>1. ReviewInit => Init
    BY DEF ReviewInit
  <1> QED BY <1>1, ReviewStepLooks, PTL DEF ReviewSpec, Spec

(* Type correctness of reviews: every citation is the finding of a pattern  *)
(* of the catalog (interface-patterns.ts:633-664).                          *)
THEOREM ReviewTypeCorrect == ReviewSpec => []ReviewTypeOK
  <1>1. ReviewInit => ReviewTypeOK
    <2>1. \A s \in Scopes : s.edits \in Nat
      BY ReviewAssumption
    <2>2. ReviewInit => TypeOK
      BY TypeInductive DEF ReviewInit
    <2>3. ReviewInit => edits = 0
      BY DEF ReviewInit, Init
    <2>4. ReviewInit => /\ scope \in Scopes /\ catalog \in scope.catalogs
                       /\ edits <= scope.edits /\ cited = {}
      BY <2>1, <2>3 DEF ReviewInit
    <2>5. ReviewInit => accepted \in BOOLEAN
      BY DEF ReviewInit
    <2> QED BY <2>2, <2>4, <2>5 DEF ReviewTypeOK
  <1>2. ASSUME ReviewTypeOK, [ReviewNext]_reviewVars PROVE ReviewTypeOK'
    <2>1. TypeOK'
      BY <1>2, ReviewStepLooks, TypeInductive DEF ReviewTypeOK
    <2>2. CASE Next /\ edits' <= scope.edits /\ UNCHANGED <<scope, catalog, cited, accepted>>
      BY <1>2, <2>1, <2>2 DEF ReviewTypeOK
    <2>3. ASSUME NEW i \in DOMAIN catalog, NEW field \in {"id", "number"},
                 Cite(field, catalog[i][field])
          PROVE  ReviewTypeOK'
      <3>1. PICK p \in Cited(catalog, field, catalog[i][field]) :
              cited' = cited \union {PatternFinding(p)}
        BY <2>3 DEF Cite
      <3>2. \E j \in DOMAIN catalog : p = catalog[j]
        BY <3>1 DEF Cited
      <3>3. PatternFinding(p).code = "DS_INTERFACE_PATTERN"
        BY DEF PatternFinding, Finding
      <3> QED BY <1>2, <2>1, <2>3, <3>1, <3>2, <3>3 DEF ReviewTypeOK, Cite, vars
    <2>4. ASSUME NEW t \in DOMAIN Required, NEW v \in scope.violations,
                 NEW ds \in {Required[t], Dimensions}, Review(t, ds, v)
          PROVE  ReviewTypeOK'
      <3>1. accepted' \in BOOLEAN
        BY <2>4, GateAccepts DEF Review
      <3> QED BY <1>2, <2>1, <2>4, <3>1 DEF ReviewTypeOK, Review, vars
    <2>5. CASE UNCHANGED reviewVars
      BY <1>2, <2>1, <2>5 DEF ReviewTypeOK, reviewVars, vars
    <2> QED BY <1>2, <2>2, <2>3, <2>4, <2>5 DEF ReviewNext
  <1> QED BY <1>1, <1>2, PTL DEF ReviewSpec

(* When citing is unambiguous, every number up to the length is the number  *)
(* of one pattern, so that there is none left for a second one.             *)
LEMMA NumbersArePermuted ==
  ASSUME NEW c, IsCatalog(c), \A n \in 1..Len(c) : \E i \in DOMAIN c : c[i].number = n
  PROVE  \A i, j \in DOMAIN c : c[i].number = c[j].number => i = j
  <1> DEFINE D == 1..Len(c)
             at == [n \in D |-> CHOOSE i \in D : c[i].number = n]
  <1>1. Len(c) \in Nat /\ DOMAIN c = D
    BY DEF IsCatalog
  <1>2. \A n \in D : at[n] \in D /\ c[at[n]].number = n
    BY <1>1
  <1>3. at \in [D -> D] /\ \A m, n \in D : at[m] = at[n] => m = n
    BY <1>2
  <1>4. at \in Injection(D, D)
    BY <1>3 DEF Injection, IsInjective
  <1>5. IsFiniteSet(D)
    BY <1>1, FS_Interval
  <1> HIDE DEF at, D
  <1>6. at \in Surjection(D, D)
    BY <1>4, <1>5, FS_Injection
  <1>7. \A i \in D : \E n \in D : at[n] = i
    BY <1>6 DEF Surjection
  <1>8. ASSUME NEW i \in D, NEW j \in D, c[i].number = c[j].number PROVE i = j
    <2>1. PICK m \in D : at[m] = i
      BY <1>7
    <2>2. PICK n \in D : at[n] = j
      BY <1>7
    <2>3. m = n
      BY <1>2, <1>8, <2>1, <2>2
    <2> QED BY <2>1, <2>2, <2>3
  <1> QED BY <1>1, <1>8

(* A catalog is valid exactly if citing with it is unambiguous.             *)
THEOREM CitingIsSafe == ReviewSpec => []CitationsUnambiguous
  <1>1. ASSUME NEW c, IsCatalog(c)
        PROVE  CatalogProblems(c) = {} <=>
                 /\ \A n \in 1..Len(c) : Cited(c, "number", n) # {}
                 /\ \A i \in DOMAIN c, field \in {"id", "number"} :
                      Cited(c, field, c[i][field]) = {c[i]}
    <2> DEFINE Single(field) == \A i, j \in DOMAIN c : c[i][field] = c[j][field] => i = j
               Total == \A n \in 1..Len(c) : \E i \in DOMAIN c : c[i].number = n
    <2>1. Len(c) \in Nat /\ DOMAIN c = 1..Len(c)
      BY <1>1 DEF IsCatalog
    <2>2. CatalogProblems(c) = {} <=>
            /\ \A i \in DOMAIN c : \A j \in 1..(i - 1) : c[j]["id"] # c[i]["id"]
            /\ \A i \in DOMAIN c : \A j \in 1..(i - 1) : c[j]["number"] # c[i]["number"]
            /\ Total
      <3> DEFINE Again(field) == {i \in DOMAIN c : \E j \in 1..(i - 1) : c[j][field] = c[i][field]}
      <3>1. CatalogProblems(c) = {} <=> Again("id") = {} /\ Again("number") = {} /\ Gaps(c) = {}
        <4>1. CatalogProblems(c) =
                {CatalogProblem("CAT_DUPLICATE_ID", i) : i \in Again("id")}
                \union {CatalogProblem("CAT_DUPLICATE_NUMBER", i) : i \in Again("number")}
                \union {CatalogProblem("CAT_NUMBER_GAP", n) : n \in Gaps(c)}
          BY DEF CatalogProblems
        <4> HIDE DEF Again
        <4> QED BY <4>1
      <3>2. \A field : Again(field) = {} <=>
              \A i \in DOMAIN c : \A j \in 1..(i - 1) : c[j][field] # c[i][field]
        OBVIOUS
      <3>3. Gaps(c) = {} <=> Total
        BY DEF Gaps
      <3> HIDE DEF Again
      <3> QED BY <3>1, <3>2, <3>3
    <2>3. ASSUME NEW field
          PROVE  (\A i \in DOMAIN c : \A j \in 1..(i - 1) : c[j][field] # c[i][field]) <=> Single(field)
      BY <2>1
    <2>4. CatalogProblems(c) = {} <=> Single("id") /\ Single("number") /\ Total
      BY <2>2, <2>3
    <2>5. ASSUME NEW field, Single(field), NEW i \in DOMAIN c
          PROVE  Cited(c, field, c[i][field]) = {c[i]}
      <3>1. \A k \in (i + 1)..Len(c) : k \in DOMAIN c /\ k # i
        BY <2>1
      <3>2. {j \in DOMAIN c : /\ c[j][field] = c[i][field]
                             /\ \A k \in (j + 1)..Len(c) : c[k][field] # c[i][field]} = {i}
        BY <2>5, <3>1
      <3> QED BY <3>2 DEF Cited
    <2>6. ASSUME Single("id"), Single("number"), Total
          PROVE  /\ \A n \in 1..Len(c) : Cited(c, "number", n) # {}
                 /\ \A i \in DOMAIN c, field \in {"id", "number"} :
                      Cited(c, field, c[i][field]) = {c[i]}
      <3>1. \A i \in DOMAIN c, field \in {"id", "number"} :
              Cited(c, field, c[i][field]) = {c[i]}
        BY <2>5, <2>6
      <3>2. ASSUME NEW n \in 1..Len(c) PROVE Cited(c, "number", n) # {}
        <4>1. PICK i \in DOMAIN c : c[i]["number"] = n
          BY <2>6
        <4> QED BY <3>1, <4>1
      <3> QED BY <3>1, <3>2
    <2>7. ASSUME \A n \in 1..Len(c) : Cited(c, "number", n) # {},
                 \A i \in DOMAIN c, field \in {"id", "number"} :
                   Cited(c, field, c[i][field]) = {c[i]}
          PROVE  Single("id") /\ Single("number") /\ Total
      <3>1. Total
        BY <2>7 DEF Cited
      <3>2. Single("number")
        BY <1>1, <3>1, NumbersArePermuted
      <3>3. ASSUME NEW i \in DOMAIN c, NEW j \in DOMAIN c, c[i]["id"] = c[j]["id"]
            PROVE  i = j
        <4>1. {c[i]} = {c[j]}
          BY <2>7, <3>3
        <4> QED BY <3>2, <4>1
      <3> QED BY <3>1, <3>2, <3>3
    <2> HIDE DEF Single, Total
    <2> QED BY <2>4, <2>6, <2>7
  <1>2. ReviewTypeOK => IsCatalog(catalog)
    BY ReviewAssumption DEF ReviewTypeOK
  <1>3. ReviewTypeOK => CitationsUnambiguous
    BY <1>1, <1>2 DEF CitationsUnambiguous
  <1> QED BY <1>3, ReviewTypeCorrect, PTL

\* A set that is listed in some order is listed whole and each element once.
LEMMA ListedOnce ==
  ASSUME NEW S, IsFiniteSet(S)
  PROVE  \A x : x \in S <=> \E i \in DOMAIN SetToSeq(S) : SetToSeq(S)[i] = x
  <1> DEFINE D == 1..Cardinality(S)
             s == SetToSeq(S)
  <1>1. Cardinality(S) \in Nat /\ \E b : b \in Bijection(D, S)
    BY FS_CardinalityType DEF ExistsBijection
  <1>2. \E f \in [D -> S] : IsInjective(f)
    BY <1>1 DEF Bijection, Injection
  <1>3. s \in [D -> S] /\ IsInjective(s)
    BY <1>2 DEF SetToSeq
  <1>4. s \in Injection(D, S)
    BY <1>3 DEF Injection
  <1>5. Cardinality(D) = Cardinality(S)
    BY <1>1, FS_Interval
  <1> HIDE DEF D, s
  <1>6. s \in Surjection(D, S)
    BY <1>4, <1>5, FS_Injection
  <1>7. DOMAIN s = D /\ (\A i \in D : s[i] \in S) /\ \A x \in S : \E i \in D : s[i] = x
    BY <1>6 DEF Surjection
  <1>8. \A x : x \in S <=> \E i \in DOMAIN s : s[i] = x
    BY <1>7
  <1> QED BY <1>8 DEF s

\* The grade of a dimension depends on its findings and on no others.
GradeOf(fs, d) ==
  IF \E f \in In(fs, d) : Blocking(f) THEN "fail"
  ELSE IF In(fs, d) # {} THEN "pass_with_concern" ELSE "pass"

(* The grade of a listed dimension is that of the findings in it.           *)
LEMMA GradedByFindings ==
  ASSUME NEW t, NEW ds, IsFiniteSet(ds), NEW fs, NEW d, NEW g
  PROVE  d \in GradedAs(ReviewOf(t, ds, fs), g) <=> d \in ds /\ g = GradeOf(fs, d)
  <1> DEFINE r == ReviewOf(t, ds, fs)
             s == SetToSeq(ds)
  <1>1. r.grades = [i \in DOMAIN s |-> [dimension |-> s[i], grade |-> GradeOf(fs, s[i])]]
    BY DEF ReviewOf, GradesFromSystemFindings, GradeOf
  <1>2. \A x : x \in ds <=> \E i \in DOMAIN s : s[i] = x
    BY ListedOnce
  <1>3. d \in GradedAs(r, g) <=>
          \E i \in DOMAIN r.grades : r.grades[i].dimension = d /\ r.grades[i].grade = g
    BY DEF GradedAs
  <1> HIDE DEF r, s
  <1>4. /\ DOMAIN r.grades = DOMAIN s
        /\ \A i \in DOMAIN s : r.grades[i].dimension = s[i] /\ r.grades[i].grade = GradeOf(fs, s[i])
    BY <1>1
  <1>5. d \in GradedAs(r, g) <=> \E i \in DOMAIN s : s[i] = d /\ GradeOf(fs, s[i]) = g
    BY <1>3, <1>4
  <1>6. d \in GradedAs(r, g) <=> d \in ds /\ g = GradeOf(fs, d)
    BY <1>2, <1>5
  <1> QED BY <1>6 DEF r

\* A review of the dimensions that are required, or of more, judges them alone.
LEMMA GateJudgesFindings ==
  ASSUME NEW t, NEW ds, IsFiniteSet(ds), NEW fs, Required[t] \subseteq ds
  PROVE  EvaluateReview(ReviewOf(t, ds, fs)).accepted <=>
           \A f \in fs : f.dimension \in ds => ~Blocking(f)
  <1> DEFINE r == ReviewOf(t, ds, fs)
  <1>1. r.changeType = t /\ r.exceptions = <<>>
    BY DEF ReviewOf
  <1>2. \A d : ~Excepted(r, d)
    BY <1>1 DEF Excepted
  <1>3. ASSUME NEW d \in ds PROVE d \in Graded(r) /\ d \notin GradedAs(r, "not_tested")
    <2>1. d \in GradedAs(r, GradeOf(fs, d))
      BY GradedByFindings
    <2>2. d \in Graded(r)
      BY <2>1 DEF Graded, GradedAs
    <2>3. GradeOf(fs, d) # "not_tested"
      BY DEF GradeOf
    <2>4. d \in GradedAs(r, "not_tested") => "not_tested" = GradeOf(fs, d)
      BY GradedByFindings
    <2> QED BY <2>2, <2>3, <2>4
  <1>4. Untested(r) = {}
    BY <1>1, <1>3 DEF Untested
  <1>5. \A d : d \in GradedAs(r, "fail") <=> d \in ds /\ \E f \in In(fs, d) : Blocking(f)
    <2>1. \A d : d \in GradedAs(r, "fail") <=> d \in ds /\ "fail" = GradeOf(fs, d)
      BY GradedByFindings
    <2>2. \A d : "fail" = GradeOf(fs, d) <=> \E f \in In(fs, d) : Blocking(f)
      BY DEF GradeOf
    <2> HIDE DEF r
    <2> QED BY <2>1, <2>2
  <1> HIDE DEF r
  <1>6. EvaluateReview(r).accepted <=> \A d : d \notin GradedAs(r, "fail")
    BY <1>2, <1>4, GateAccepts, GateByDimension
  <1>7. (\A d : d \notin GradedAs(r, "fail")) <=>
          \A f \in fs : f.dimension \in ds => ~Blocking(f)
    BY <1>5 DEF In
  <1> QED BY <1>6, <1>7 DEF r

(* Every finding has one of the severities that grades are made of.         *)
LEMMA SeveritiesAreKnown ==
  ASSUME ReviewTypeOK, NEW v, NEW f \in AllFindings(v)
  PROVE  f.severity \in Severities
  <1>1. ASSUME f \in Findings PROVE f.severity \in Severities
    <2> DEFINE r == built.registry
    <2>1. f \in UNION {IntegrityFindings(r), ExceptionFindings(r, now),
                      RawValueFindings(r, Scanned, now), MissingPathFindings(r, Scanned),
                      UnregisteredFindings(r, Scanned), UndocumentedFindings(r)}
      BY <1>1 DEF Findings, CheckDesignSystem
    <2> HIDE DEF r
    <2>2. ASSUME f \in IntegrityFindings(r) PROVE f.severity = "serious"
      <3>1. PICK p, code :
              f = Finding(code, "serious", "maintainability", <<p.code>> \o p.path)
        BY <2>2, Zenon DEF IntegrityFindings
      <3> QED BY <3>1 DEF Finding
    <2>3. ASSUME f \in RawValueFindings(r, Scanned, now) PROVE f.severity = "serious"
      BY <2>3 DEF RawValueFindings, Finding
    <2>4. ASSUME f \in MissingPathFindings(r, Scanned) PROVE f.severity = "serious"
      BY <2>4 DEF MissingPathFindings, Finding
    <2>5. ASSUME f \in UnregisteredFindings(r, Scanned) PROVE f.severity = "serious"
      BY <2>5 DEF UnregisteredFindings, Finding
    <2>6. ASSUME f \in ExceptionFindings(r, now) PROVE f.severity = "moderate"
      BY <2>6 DEF ExceptionFindings, Finding
    <2>7. ASSUME f \in UndocumentedFindings(r) PROVE f.severity = "moderate"
      BY <2>7 DEF UndocumentedFindings, Finding
    <2> QED BY <2>1, <2>2, <2>3, <2>4, <2>5, <2>6, <2>7 DEF Severities
  <1>2. ASSUME f \in cited PROVE f.severity \in Severities
    <2>1. PICK i \in DOMAIN catalog : f = PatternFinding(catalog[i])
      BY <1>2 DEF ReviewTypeOK
    <2>2. catalog \in Seq(InterfacePattern)
      BY ReviewAssumption DEF ReviewTypeOK, IsCatalog
    <2>3. i \in 1..Len(catalog)
      BY <2>2
    <2>4. catalog[i] \in InterfacePattern
      BY <2>2, <2>3, ElementOfSeq
    <2> QED BY <2>1, <2>4 DEF PatternFinding, Finding, InterfacePattern
  <1>3. ASSUME f \in ArchitectureFindings(v) PROVE f.severity \in Severities
    <2>1. f.severity \in {"serious", "critical"}
      BY <1>3 DEF ArchitectureFindings, Finding
    <2> QED BY <2>1 DEF Severities
  <1> QED BY <1>1, <1>2, <1>3 DEF AllFindings

(* A review accepts a change exactly if no blocking finding lies in a       *)
(* dimension that it looked at (grades.ts:4-14).                            *)
THEOREM FindingsAreNotOutweighed == ReviewSpec => ReviewJudgesFindings
  <1>1. ASSUME ReviewTypeOK, NEW t \in DOMAIN Required, NEW v \in scope.violations,
               NEW ds \in {Required[t], Dimensions}, Review(t, ds, v)
        PROVE  accepted' <=> \A f \in Findings \union cited \union ArchitectureFindings(v) :
                               f.dimension \in ds => f.severity \in {"moderate", "minor", "info"}
    <2>1. Required[t] \subseteq ds /\ ds \subseteq Dimensions
      BY RequiredAssumption
    <2>2. IsFiniteSet(ds)
      BY <2>1, ReviewAssumption, FS_Subset
    <2>3. accepted' <=> \A f \in AllFindings(v) : f.dimension \in ds => ~Blocking(f)
      BY <1>1, <2>1, <2>2, GateJudgesFindings DEF Review
    <2>4. \A f \in AllFindings(v) : ~Blocking(f) <=> f.severity \in {"moderate", "minor", "info"}
      BY <1>1, SeveritiesAreKnown DEF Blocking, Severities
    <2> QED BY <2>3, <2>4 DEF AllFindings
  <1>2. ReviewTypeOK =>
          \A t \in DOMAIN Required, v \in scope.violations :
            \A ds \in {Required[t], Dimensions} :
              Review(t, ds, v) =>
                (accepted' <=> \A f \in Findings \union cited \union ArchitectureFindings(v) :
                                 f.dimension \in ds => f.severity \in {"moderate", "minor", "info"})
    BY <1>1
  <1> QED BY <1>2, ReviewTypeCorrect, PTL DEF ReviewJudgesFindings
=============================================================================
