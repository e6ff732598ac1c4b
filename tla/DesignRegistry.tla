--------------------------- MODULE DesignRegistry ---------------------------
(***************************************************************************)
(* The design-system registry and validateDesignSystemRegistry.  A registry *)
(* is a function from tables to sequences of entries, each with an `id'.   *)
(* `tier' and `atomicLevel' hold their place in TOKEN_TIER_ORDER and        *)
(* ATOMIC_LEVEL_ORDER; an optional field is a set of at most one element,  *)
(* and so is the owner, which makes every reference a set of ids.  A       *)
(* problem is the pair of its code and the entry it is reported at; the    *)
(* wording, the counts and the order of the problems are left out.         *)
(***************************************************************************)
EXTENDS Integers, Sequences, SequencesExt

Tables == {"tokens", "components", "principles", "owners", "accessibilityRules",
           "patterns", "exceptions"}

Primitive == 0  \* TOKEN_TIER_ORDER.primitive
Atom == 1       \* ATOMIC_LEVEL_ORDER.atom

Entries(r, table) == ToSet(r[table])

Ids(r, table) == {e.id : e \in Entries(r, table)}

----------------------------------------------------------------------------
\* Its sources are value, valueByTheme and aliasOf: hasValue stands for the two first.
TokenParses(t) ==
  /\ t.hasValue <=> t.aliasOf = {}
  /\ t.tier = Primitive => t.aliasOf = {}

ComponentParses(c) == c.followsPrinciples # {}

\* What the schemas demand of a registry, whatever its references.
Parses(r) ==
  /\ \A table \in {"tokens", "components", "principles", "owners"} : r[table] # <<>>
  /\ \A t \in Entries(r, "tokens") : TokenParses(t)
  /\ \A c \in Entries(r, "components") : ComponentParses(c)

----------------------------------------------------------------------------
Problem(code, table, e) == [code |-> code, path |-> <<table, e.id>>]

\* The positions whose id occurs further up: uniqueById keeps the first entry.
Repeated(s) == {i \in DOMAIN s : \E j \in 1..(i - 1) : s[j].id = s[i].id}

\* The entries that the map of uniqueById holds.
Held(r, table) == {r[table][i] : i \in DOMAIN r[table] \ Repeated(r[table])}

DuplicateIds(r) ==
  UNION {{Problem("REG_DUPLICATE_ID", t, r[t][i]) : i \in Repeated(r[t])} : t \in Tables}

\* seenCssVars and seenNames.  A name is keyed by its source path and itself,
\* joined by "#"; no path or name with a "#" in it is considered.
DuplicateExposures(r) ==
  LET tokens == r["tokens"]  components == r["components"]
      again == {i \in DOMAIN tokens :
                  /\ tokens[i].cssVariable # {}
                  /\ \E j \in 1..(i - 1) : tokens[j].cssVariable = tokens[i].cssVariable}
      named == {i \in DOMAIN components : \E j \in 1..(i - 1) :
                  /\ components[j].sourcePath = components[i].sourcePath
                  /\ components[j].name = components[i].name}
  IN {Problem("REG_DUPLICATE_CSS_VARIABLE", "tokens", tokens[i]) : i \in again}
     \union {Problem("REG_DUPLICATE_NAME", "components", components[i]) : i \in named}

(* The entries of a table that refer, in one of their fields, to an id that *)
(* another table does not have.                                             *)
Missing(r, code, table, field, target) ==
  {Problem(code, table, e) : e \in {x \in Entries(r, table) : x[field] \ Ids(r, target) # {}}}

MissingReferences(r) ==
  UNION {Missing(r, "REG_ALIAS_MISSING", "tokens", "aliasOf", "tokens"),
         Missing(r, "REG_MISSING_TOKEN", "components", "usesTokens", "tokens"),
         Missing(r, "REG_MISSING_PRINCIPLE", "components", "followsPrinciples", "principles"),
         Missing(r, "REG_MISSING_RULE", "components", "accessibility", "accessibilityRules"),
         Missing(r, "REG_MISSING_OWNER", "components", "ownerId", "owners"),
         Missing(r, "REG_MISSING_COMPONENT", "components", "composedOf", "components"),
         Missing(r, "REG_MISSING_COMPONENT", "components", "replacedBy", "components"),
         Missing(r, "REG_MISSING_COMPONENT", "patterns", "consistsOf", "components"),
         Missing(r, "REG_MISSING_TOKEN", "patterns", "usesTokens", "tokens"),
         Missing(r, "REG_MISSING_OWNER", "exceptions", "ownerId", "owners")}

\* Bug: an entry of the same tier or level passes for a lower one.
ClimbsHigher(r, table, field, rank) ==
  {x \in Entries(r, table) :
     \E y \in Held(r, table) : y.id \in x[field] /\ y[rank] > x[rank]}

\* The entries that refer to one of their own table that is not strictly lower.
Climbs(r, table, field, rank) ==
  {x \in Entries(r, table) :
     \E y \in Held(r, table) : y.id \in x[field] /\ y[rank] >= x[rank]}

OrderProblems(r) ==
  {Problem("REG_ALIAS_TIER", "tokens", t) : t \in Climbs(r, "tokens", "aliasOf", "tier")}
  \union {Problem("REG_COMPOSITION_LEVEL", "components", c) :
            c \in Climbs(r, "components", "composedOf", "atomicLevel")}
  \union {Problem("REG_ATOM_COMPOSED", "components", c) :
            c \in {x \in Entries(r, "components") :
                     x.composedOf # {} /\ x.atomicLevel <= Atom}}

\* The status and the deprecation record must agree.
DeprecationMismatches(r) ==
  {Problem("REG_DEPRECATION_MISMATCH", "components", c) :
     c \in {x \in Entries(r, "components") : (x.status = "deprecated") # x.deprecation}}

\* validateDesignSystemRegistry: a registry is valid when it has no problems.
Problems(r) ==
  UNION {DuplicateIds(r), DuplicateExposures(r), MissingReferences(r), OrderProblems(r),
         DeprecationMismatches(r)}

----------------------------------------------------------------------------
(* What a coherent registry is, told of pairs of entries and without the    *)
(* maps of first entries: nothing is defined twice, everything that is      *)
(* referred to is defined, and whatever is built on something is above it.  *)
References(r) ==
  UNION ({{"tokens"} \X e.aliasOf : e \in Entries(r, "tokens")}
         \union {({"tokens"} \X e.usesTokens)
                 \union ({"principles"} \X e.followsPrinciples)
                 \union ({"accessibilityRules"} \X e.accessibility)
                 \union ({"owners"} \X e.ownerId)
                 \union ({"components"} \X (e.composedOf \union e.replacedBy)) :
                   e \in Entries(r, "components")}
         \union {({"components"} \X e.consistsOf) \union ({"tokens"} \X e.usesTokens) :
                   e \in Entries(r, "patterns")}
         \union {{"owners"} \X e.ownerId : e \in Entries(r, "exceptions")})

Definitions(r) == UNION {{t} \X Ids(r, t) : t \in Tables}

\* No two positions of a table agree in what should be unique.
Unique(r) ==
  /\ \A t \in Tables : \A i, j \in DOMAIN r[t] : r[t][i].id = r[t][j].id => i = j
  /\ \A i, j \in DOMAIN r["tokens"] :
       i # j => r["tokens"][i].cssVariable \intersect r["tokens"][j].cssVariable = {}
  /\ \A i, j \in DOMAIN r["components"] :
       i # j => \/ r["components"][i].name # r["components"][j].name
                \/ r["components"][i].sourcePath # r["components"][j].sourcePath

Layered(r) ==
  /\ \A x, y \in Entries(r, "tokens") : y.id \in x.aliasOf => y.tier < x.tier
  /\ \A x, y \in Entries(r, "components") :
       y.id \in x.composedOf => y.atomicLevel < x.atomicLevel /\ x.atomicLevel > Atom

Coherent(r) ==
  /\ Unique(r)
  /\ References(r) \subseteq Definitions(r)
  /\ Layered(r)
  /\ \A c \in Entries(r, "components") : c.status = "deprecated" <=> c.deprecation

----------------------------------------------------------------------------
(* A set of ids each of which refers, in a field, to one of the set: it is  *)
(* there exactly if following the field can go on for ever.                 *)
Endless(r, table, field, S) ==
  \A id \in S : \E e \in Entries(r, table) : e.id = id /\ e[field] \intersect S # {}
=============================================================================
