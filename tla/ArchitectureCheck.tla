-------------------------- MODULE ArchitectureCheck --------------------------
(***************************************************************************)
(* checkArchitecture: the layer rules against the observed dependency      *)
(* graph.  The loops over modules and edges are the operators on the rules *)
(* and the graph; the cycle search is FindCycles, step by step; the report *)
(* is made when the search has ended.  Wording, rationales and the order   *)
(* of the violations are left out: a report holds a set of them.           *)
(***************************************************************************)
EXTENDS FindCycles

CONSTANTS Orders,     \* the orders of the declared layers
          Undeclared, \* for a module that the rules do not declare
          NoLayer,    \* for a module assigned to a layer they do not declare
          Exceptions  \* the exception lists considered, as sets of edges

ASSUME OrdersAssumption ==
  /\ Orders \subseteq Nat
  /\ {Undeclared, NoLayer} \intersect Orders = {} /\ Undeclared # NoLayer

VARIABLES scanned,    \* the modules that the scan has found
          layer,      \* what the rules make of each module
          exceptions, \* allowedExceptions
          report      \* the ArchitectureReports returned, at most one

archVars == <<scanned, layer, exceptions, report>>

Declared == {n \in Nodes : layer[n] # Undeclared}

Layered == {n \in Nodes : layer[n] \in Orders}

----------------------------------------------------------------------------
\* A violation of one module, not of an edge, names it twice.
Violation(code, from, to) == [code |-> code, from |-> from, to |-> to]

\* Every declared module must have a layer, scanned or not.
MissingLayers ==
  {Violation("ARCH_MISSING_LAYER", n, n) : n \in {m \in Nodes : layer[m] = NoLayer}}

\* Every scanned module must be declared, and so must both ends of an edge.
UnknownModules ==
  LET Unknown(e) == {e[1], e[2]} \ Declared # {}
  IN {Violation("ARCH_UNKNOWN_MODULE", n, n) : n \in scanned \ Declared}
     \union {Violation("ARCH_UNKNOWN_MODULE", e[1], e[2]) : e \in {d \in edges : Unknown(d)}}

\* Bug: an edge within a layer passes for a downward one.
AgainstTheLayersUpOnly ==
  {e \in edges : /\ {e[1], e[2]} \subseteq Layered
                 /\ layer[e[2]] > layer[e[1]]}

\* Edges between modules of known layers that do not point strictly down.
AgainstTheLayers ==
  {e \in edges : /\ {e[1], e[2]} \subseteq Layered
                 /\ layer[e[2]] >= layer[e[1]]}

ExceptionsApplied == AgainstTheLayers \intersect exceptions

ForbiddenEdges ==
  {Violation("ARCH_FORBIDDEN_EDGE", e[1], e[2]) : e \in AgainstTheLayers \ ExceptionsApplied}

\* Bug: a cycle is not reported when an exception admits the edge that closes it.
CyclesNotExcepted ==
  {Violation("ARCH_CYCLE", cycles[i][1], cycles[i][Len(cycles[i]) - 1]) :
     i \in {j \in DOMAIN cycles :
              <<cycles[j][Len(cycles[j]) - 1], cycles[j][1]>> \notin exceptions}}

\* The pair named for a cycle is its first and its last module.
Cycles ==
  {Violation("ARCH_CYCLE", cycles[i][1], cycles[i][Len(cycles[i]) - 1]) : i \in DOMAIN cycles}

Report ==
  LET violations == MissingLayers \union UnknownModules \union ForbiddenEdges \union Cycles
  IN [valid |-> violations = {},
      violations |-> violations,
      exceptionsApplied |-> ExceptionsApplied]

----------------------------------------------------------------------------
ReturnReport ==
  /\ Finished /\ report = {}
  /\ report' = {Report}
  /\ UNCHANGED <<vars, scanned, layer, exceptions>>

Search == Next /\ UNCHANGED archVars

CheckArchitecture == Search \/ ReturnReport

----------------------------------------------------------------------------
(* What a sound architecture is, without the order of the checks: every     *)
(* module, scanned or declared, has a layer, dependencies point strictly    *)
(* down except where the rules make an exception, and no set of modules     *)
(* depends on itself.                                                       *)
Sound ==
  /\ scanned \union Declared \subseteq Layered
  /\ \A e \in edges \ exceptions : layer[e[2]] < layer[e[1]]
  /\ \A S \in SUBSET Nodes : ~Knot(S)

(* Layers and declarations alone exclude cycles: where a cycle is reported, *)
(* the report also has another violation or an exception that was applied,  *)
(* so the edge that made the cycle possible is there to be seen             *)
(* (contracts/architecture.ts:104).                                         *)
CyclesHaveACause ==
  \A r \in report :
    (\E v \in r.violations : v.code = "ARCH_CYCLE") =>
      \/ \E v \in r.violations : v.code # "ARCH_CYCLE"
      \/ r.exceptionsApplied # {}
=============================================================================
