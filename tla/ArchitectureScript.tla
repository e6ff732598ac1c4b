------------------------- MODULE ArchitectureScript -------------------------
(***************************************************************************)
(* scripts/check-architecture.mjs: the workspace is scanned, and the       *)
(* command prints the impact of changed files, or brings the committed      *)
(* artifact up to date or compares it, and then checks the architecture.    *)
(* The scan is a choice of graph; schema errors end the program before it   *)
(* does anything and are left out.                                          *)
(***************************************************************************)
EXTENDS ArchitectureCheck, FiniteSets, FiniteSetsExt, SequencesExt

CONSTANTS MaxFiles,  \* bound on the number of changed files
          Elsewhere, \* for a file outside every module
          Running    \* the exit code of a command that has not ended

ASSUME RunningAssumption == Running \notin {0, 1}

ASSUME FiniteAssumption == IsFiniteSet(Nodes)

ASSUME ExceptionsAssumption == {} \in Exceptions

VARIABLES mode,      \* what the command was asked to do
          artifact,  \* how the committed scan compares with this one
          files, impacted, queue,  \* of computeImpact
          exitCode

scriptVars == <<vars, archVars, mode, artifact, files, impacted, queue, exitCode>>

I == INSTANCE Impact WITH declared <- Declared

----------------------------------------------------------------------------
InitImpact ==
  /\ mode = "--impact"
  /\ files \in UNION {kSubset(k, I!File) : k \in 0..MaxFiles}
  /\ \A f \in files : f.scanned => f.module \in scanned
  /\ layer \in [Nodes -> {Undeclared} \union Orders]
  /\ exceptions = {}
  /\ artifact = "fresh"

InitCheck ==
  /\ mode \in {"", "--write"}
  /\ files = {}
  /\ layer \in [Nodes -> Orders \union {Undeclared, NoLayer}]
  /\ exceptions \in Exceptions
  /\ artifact \in {"missing", "stale", "fresh"}

\* The scan observes dependencies between modules that it has found, and never
\* that a module depends on itself.
ScriptInit ==
  /\ Init
  /\ scanned \in SUBSET Nodes
  /\ edges \subseteq {e \in scanned \X scanned : e[1] # e[2]}
  /\ InitImpact \/ InitCheck
  /\ I!Init
  /\ report = {}
  /\ exitCode = Running

ComputeImpact ==
  /\ mode = "--impact" /\ exitCode = Running
  /\ \/ I!VisitDependents /\ UNCHANGED exitCode
     \/ I!Computed /\ exitCode' = 0 /\ UNCHANGED <<impacted, queue>>
  /\ UNCHANGED <<vars, archVars, mode, artifact, files>>

WriteArtifact ==
  /\ mode = "--write" /\ exitCode = Running
  /\ mode' = "" /\ artifact' = "fresh"
  /\ UNCHANGED <<vars, archVars, files, impacted, queue, exitCode>>

Accepted == artifact = "fresh"

RejectArtifact ==
  /\ mode = "" /\ exitCode = Running /\ ~Accepted
  /\ exitCode' = 1
  /\ UNCHANGED <<vars, archVars, mode, artifact, files, impacted, queue>>

Check ==
  /\ mode = "" /\ exitCode = Running /\ Accepted
  /\ CheckArchitecture
  /\ exitCode' = IF report' = {} THEN Running ELSE IF Report.valid THEN 0 ELSE 1
  /\ UNCHANGED <<mode, artifact, files, impacted, queue>>

ScriptNext == ComputeImpact \/ WriteArtifact \/ RejectArtifact \/ Check

ScriptSpec == ScriptInit /\ [][ScriptNext]_scriptVars

\* The script is a sequential program: it runs until it exits.
FairScriptSpec == ScriptSpec /\ WF_scriptVars(ScriptNext)

----------------------------------------------------------------------------
ScriptTypeOK ==
  /\ TypeOK
  /\ scanned \subseteq Nodes /\ edges \subseteq scanned \X scanned
  /\ layer \in [Nodes -> Orders \union {Undeclared, NoLayer}]
  /\ exceptions \in Exceptions
  /\ \A r \in report : r.valid = (r.violations = {})
  /\ Cardinality(report) <= 1
  /\ impacted \subseteq Nodes \ I!Changed
  /\ ToSet(queue) \subseteq I!Changed \union impacted
  /\ exitCode \in {Running, 0, 1}

(* The command succeeds exactly when the committed scan is this one and the *)
(* architecture is sound: no exception, layer, or finished node of the      *)
(* search hides a cycle or an ungoverned module (architecture.ts:11-19,     *)
(* check-architecture.mjs:14).                                              *)
ExitZeroIffSound ==
  mode = "" /\ exitCode # Running => (exitCode = 0 <=> artifact = "fresh" /\ Sound)

(* A set of modules that has all dependents of its members.                 *)
Closed(S) == \A e \in edges : e[2] \in S => e[1] \in S

(* The impact report demands what each declared module demands that         *)
(* transitively depends on the module of a changed file, and nothing more,  *)
(* through cycles and through modules that are changed themselves or not    *)
(* declared (impact.ts:10-17, 51-62).                                       *)
ImpactIsExact ==
  LET owners == {f.module : f \in {g \in files : g.scanned \/ g.module \in Declared}}
      dependents == {n \in Nodes : \A S \in SUBSET Nodes : owners \subseteq S /\ Closed(S) => n \in S}
  IN mode = "--impact" /\ exitCode = 0 => I!Demanding = dependents \intersect Declared

(* The recursion of the search and the loop over the queue end on every     *)
(* graph, so every command exits.                                           *)
Exits == <>(exitCode # Running)
=============================================================================
