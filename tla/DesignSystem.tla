---------------------------- MODULE DesignSystem ----------------------------
(***************************************************************************)
(* A governed product language at work: contributors edit the registry and *)
(* the sources it describes and build them now and then, somebody may touch *)
(* the generated artifact, time passes, and check-design-system.mjs is run *)
(* at any moment, with or without --write.  The script imports the last     *)
(* build and scans the working tree.  What the scanner makes of a text is a *)
(* choice of raw values; lines of occurrences are left out.                 *)
(***************************************************************************)
EXTENDS DesignRegistry, SystemFindings

CONSTANTS Candidates,  \* for each table, the entries that may be written in it
          Registries,  \* registries to begin with
          Sources,     \* what the governed sources may be
          Horizon,     \* bound on the time that passes
          MaxEdits,    \* bound on the edits
          NoArtifact,  \* there is no artifact
          ByHand       \* an artifact that no run of the script wrote

IsRegistry(r) == DOMAIN r = Tables /\ \A t \in Tables : r[t] \in Seq(Candidates[t])

ASSUME DesignSystemAssumption ==
  /\ DOMAIN Candidates = Tables
  /\ \A t \in Candidates["tokens"] :
       t.tier \in Nat /\ \A a, b \in t.cssVariable : a = b
  /\ \A c \in Candidates["components"] : c.atomicLevel \in Nat /\ c.deprecation \in BOOLEAN
  /\ \A e \in Candidates["exceptions"] : e.expiresAt \in Int
  /\ \A r \in Registries : IsRegistry(r) /\ Parses(r)
  /\ {Horizon, MaxEdits} \subseteq Nat

VARIABLES registry,  \* packages/ui/src/registry.ts
          source,    \* [rawValues, exported, files] of the governed paths
          built,     \* [registry, exported] of packages/ui/dist
          now,
          artifact,  \* docs/design-system/registry.json, as the registry it holds
          exitCode,  \* of the last run of the script
          edits      \* edits so far

vars == <<registry, source, built, now, artifact, exitCode, edits>>

----------------------------------------------------------------------------
IntegrityFindings(r) ==
  LET Duplicate(p) == p.code \in {"REG_DUPLICATE_ID", "REG_DUPLICATE_NAME"}
  IN {Finding(IF Duplicate(p) THEN "DS_DUPLICATE_COMPONENT" ELSE "DS_BROKEN_REFERENCE",
              "serious", "maintainability", <<p.code>> \o p.path) : p \in Problems(r)}

\* Bug: an exception is neither active nor expired at the instant it expires.
ExpiredAfterwards(r, t) == {e \in Entries(r, "exceptions") : e.expiresAt < t}

Expired(r, t) == {e \in Entries(r, "exceptions") : e.expiresAt <= t}

ExceptionFindings(r, t) ==
  {Finding("DS_EXCEPTION_EXPIRED", "moderate", "maintainability", <<e.id>>) : e \in Expired(r, t)}

\* A scope is a path, or a path and the exact value found there.
Covers(e, o) == e.scope \in {<<o.path>>, <<o.path, o.value>>}

\* Bug: an exception for one value of a file covers every value in it.
HasExceptionForFile(r, t, o) ==
  \E e \in Entries(r, "exceptions") : e.expiresAt > t /\ e.scope[1] = o.path

HasException(r, t, o) == \E e \in Entries(r, "exceptions") : e.expiresAt > t /\ Covers(e, o)

RawValueFindings(r, src, t) ==
  {Finding("DS_RAW_VALUE", "serious", "design_consistency", <<o.path, o.value>>) :
     o \in {p \in src.rawValues : ~HasException(r, t, p)}}

\* missingRegistryPaths of the script.
MissingPathFindings(r, src) ==
  UNION {{Finding("DS_BROKEN_REFERENCE", "serious", "maintainability", <<c.id, p>>) :
            p \in ({c.sourcePath} \union c.tests) \ src.files} : c \in Entries(r, "components")}

UnregisteredFindings(r, src) ==
  {Finding("DS_UNREGISTERED_COMPONENT", "serious", "maintainability", <<n>>) :
     n \in src.exported \ {c.name : c \in Entries(r, "components")}}

Interactive(c) == c.category \in {"input", "navigation"}

UndocumentedFindings(r) ==
  {Finding("DS_UNDOCUMENTED_STATE", "moderate", "interaction_quality", <<c.id>>) :
     c \in {x \in Entries(r, "components") : Interactive(x) /\ "focus_visible" \notin x.states}}

CheckDesignSystem(r, src, t) ==
  UNION {IntegrityFindings(r), ExceptionFindings(r, t), RawValueFindings(r, src, t),
         MissingPathFindings(r, src), UnregisteredFindings(r, src), UndocumentedFindings(r)}

\* The facts of a run: components as they were built, the rest as it is now.
Scanned == [source EXCEPT !.exported = built.exported]

Findings == CheckDesignSystem(built.registry, Scanned, now)

----------------------------------------------------------------------------
Init ==
  /\ registry \in Registries
  /\ source \in Sources
  /\ built = [registry |-> registry, exported |-> source.exported]
  /\ now = 0
  /\ artifact = registry
  /\ exitCode = 1
  /\ edits = 0

Edit ==
  /\ edits < MaxEdits
  /\ edits' = edits + 1
  /\ UNCHANGED <<built, now, exitCode>>

AddEntry(table, e) ==
  /\ Edit
  /\ registry' = [registry EXCEPT ![table] = Append(@, e)]
  /\ UNCHANGED <<source, artifact>>

ReplaceEntry(table, i, e) ==
  /\ Edit
  /\ i \in DOMAIN registry[table]
  /\ registry' = [registry EXCEPT ![table][i] = e]
  /\ UNCHANGED <<source, artifact>>

RemoveEntry(table, i) ==
  /\ Edit
  /\ i \in DOMAIN registry[table]
  /\ registry' = [registry EXCEPT ![table] = RemoveAt(@, i)]
  /\ UNCHANGED <<source, artifact>>

EditSource(src) ==
  /\ Edit
  /\ source' = src
  /\ UNCHANGED <<registry, artifact>>

TouchArtifact(a) ==
  /\ Edit
  /\ artifact' = a
  /\ UNCHANGED <<registry, source>>

\* pnpm build.
Build ==
  /\ built' = [registry |-> registry, exported |-> source.exported]
  /\ UNCHANGED <<registry, source, now, artifact, exitCode, edits>>

Tick ==
  /\ now < Horizon
  /\ now' = now + 1
  /\ UNCHANGED <<registry, source, built, artifact, exitCode, edits>>

\* What the run wrote or found, and what it then says of it.
ExitCode == IF artifact' = built.registry /\ Findings = {} THEN 0 ELSE 1

\* Bug: the artifact is written before the registry is parsed.
CheckUnparsed(write) ==
  /\ UNCHANGED <<registry, source, built, now, edits>>
  /\ artifact' = IF write THEN built.registry ELSE artifact
  /\ exitCode' = IF Parses(built.registry) THEN ExitCode ELSE 1

(* main: a registry that does not parse ends it before anything is written; *)
(* a written artifact is fresh, whatever the check then finds; one that is  *)
(* missing or stale ends it before the check.                               *)
Check(write) ==
  /\ UNCHANGED <<registry, source, built, now, edits>>
  /\ artifact' = IF write /\ Parses(built.registry) THEN built.registry ELSE artifact
  /\ exitCode' = IF Parses(built.registry) THEN ExitCode ELSE 1

Next ==
  \/ \E t \in Tables : \E e \in Candidates[t] :
        AddEntry(t, e) \/ \E i \in DOMAIN registry[t] : ReplaceEntry(t, i, e)
  \/ \E t \in Tables : \E i \in DOMAIN registry[t] : RemoveEntry(t, i)
  \/ \E src \in Sources : EditSource(src)
  \/ \E a \in {NoArtifact, ByHand} : TouchArtifact(a)
  \/ Build
  \/ Tick
  \/ \E write \in BOOLEAN : Check(write)

Spec == Init /\ [][Next]_vars

----------------------------------------------------------------------------
TypeOK ==
  /\ IsRegistry(registry) /\ IsRegistry(built.registry)
  /\ source \in Sources /\ \E src \in Sources : built.exported = src.exported
  /\ now \in 0..Horizon /\ edits \in 0..MaxEdits
  /\ artifact \notin {NoArtifact, ByHand} => IsRegistry(artifact) /\ Parses(artifact)
  /\ exitCode \in {0, 1}

(* A registry without problems is founded: no alias and no composition goes *)
(* round in a circle, and a token that aliases nothing has a value, so what *)
(* the chain of aliases of any token ends in is a value                     *)
(* (design-system.ts:357-361).                                              *)
ValidIsFounded ==
  Parses(registry) /\ Problems(registry) = {} =>
    /\ \A S \in SUBSET Ids(registry, "tokens") :
         S # {} => ~Endless(registry, "tokens", "aliasOf", S)
    /\ \A S \in SUBSET Ids(registry, "components") :
         S # {} => ~Endless(registry, "components", "composedOf", S)
    /\ \A t \in Entries(registry, "tokens") :
         t.hasValue \/ t.aliasOf \intersect Ids(registry, "tokens") # {}

(* The system as the documents want it (docs/design-system/README.md): the  *)
(* registry is coherent and describes what there is, every raw value has an *)
(* exception, and no exception is overdue.                                  *)
Governed(r, src) ==
  /\ Parses(r) /\ Coherent(r)
  /\ \A e \in Entries(r, "exceptions") : e.expiresAt > now
  /\ \A o \in src.rawValues : \E e \in Entries(r, "exceptions") : Covers(e, o)
  /\ \A n \in src.exported : \E c \in Entries(r, "components") : c.name = n
  /\ \A c \in Entries(r, "components") :
       /\ c.sourcePath \in src.files /\ c.tests \subseteq src.files
       /\ Interactive(c) => "focus_visible" \in c.states

(* The script succeeds exactly on a governed system, as last built, whose   *)
(* artifact it finds or leaves fresh, after whatever edits, in whatever     *)
(* order, made it so (check-design-system.mjs:12).                          *)
ExitZeroIffGoverned ==
  [][\A write \in BOOLEAN :
       Check(write) =>
         (exitCode' = 0 <=> Governed(built.registry, Scanned) /\ artifact' = built.registry)]_vars

(* The freshness check fails when the committed artifact is not the one of  *)
(* packages/ui/src/registry.ts (check-design-system.mjs:176).               *)
DriftFails ==
  [][\A write \in BOOLEAN : Check(write) /\ exitCode' = 0 => artifact' = registry]_vars

(* Time alone heals nothing, and what it breaks has its cause in the report:*)
(* when a raw value loses its exception, an exception that has expired just *)
(* now is reported with it (design-system.ts:47-59, 62-79).                 *)
TimeOnlyExpires ==
  [][Tick =>
       /\ Findings \subseteq Findings'
       /\ Findings' # Findings =>
            \E e \in Expired(built.registry, now') \ Expired(built.registry, now) :
              \E f \in Findings' : f.code = "DS_EXCEPTION_EXPIRED" /\ f.at = <<e.id>>]_vars
=============================================================================
