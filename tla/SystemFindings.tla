--------------------------- MODULE SystemFindings ---------------------------
(***************************************************************************)
(* SystemFinding and what is made of findings: gradesFromSystemFindings,   *)
(* and architectureFindings.  `at' names what was found and where, as a    *)
(* sequence of strings; rationale and remediation are left out.            *)
(***************************************************************************)
EXTENDS Sequences

Severities == {"critical", "serious", "moderate", "minor", "info"}

Finding(code, severity, dimension, at) ==
  [code |-> code, severity |-> severity, dimension |-> dimension, at |-> at]

In(findings, dimension) == {f \in findings : f.dimension = dimension}

Blocking(f) == f.severity \in {"critical", "serious"}

\* Bug: a dimension is graded by its findings only if they are all blocking.
GradesIfAllBlock(dimensions, findings) ==
  [i \in DOMAIN dimensions |->
     LET relevant == In(findings, dimensions[i])
     IN [dimension |-> dimensions[i],
         grade |-> IF relevant = {} THEN "pass"
                   ELSE IF \A f \in relevant : Blocking(f) THEN "fail"
                   ELSE "pass_with_concern"]]

\* gradesFromSystemFindings: one grade for each dimension of the list.
GradesFromSystemFindings(dimensions, findings) ==
  [i \in DOMAIN dimensions |->
     LET relevant == In(findings, dimensions[i])
     IN [dimension |-> dimensions[i],
         grade |-> IF \E f \in relevant : Blocking(f) THEN "fail"
                   ELSE IF relevant # {} THEN "pass_with_concern"
                   ELSE "pass"]]

\* architectureFindings, of the codes of a report's violations.
ArchitectureFindings(codes) ==
  {Finding(c, IF c = "ARCH_UNKNOWN_MODULE" THEN "serious" ELSE "critical",
           "architecture_depth", <<c>>) : c \in codes}
=============================================================================
