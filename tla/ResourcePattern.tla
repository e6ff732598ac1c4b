-------------------------- MODULE ResourcePattern --------------------------
(***************************************************************************)
(* How a capability's resource pattern is matched against the resource of  *)
(* a request (kernel-authz/resource.ts).  A pattern and a resource are     *)
(* sequences of symbols; a symbol is "*", "/", or a run of other           *)
(* characters that no property tells apart.                                *)
(***************************************************************************)
EXTENDS Integers, Sequences, FiniteSets

CONSTANTS ControlChars,   \* the symbols with a code below 0x20, and DEL
          LineSeparators  \* U+2028 and U+2029, which the `.' of a RegExp is not

Star == "*"
Slash == "/"

(* A compiled pattern is a sequence of pieces: a literal symbol, "[^/]*" or *)
(* ".*".                                                                    *)
SegmentRun == "[^/]*"
AnyRun == ".*"

\* Bug: a pair of stars is not consumed as one.
CompileStarByStar(pattern) ==
  LET piece(i) == IF pattern[i] # Star THEN pattern[i]
                  ELSE IF i < Len(pattern) /\ pattern[i + 1] = Star THEN AnyRun
                  ELSE SegmentRun
  IN [i \in DOMAIN pattern |-> piece(i)]

\* compileResourcePattern: left to right, a pair of stars before a single one.
\* The pieces of a pattern from each of its places on.
CompileFrom(pattern) ==
  LET from[i \in 1..(Len(pattern) + 1)] ==
        IF i > Len(pattern) THEN <<>>
        ELSE IF pattern[i] # Star THEN <<pattern[i]>> \o from[i + 1]
        ELSE IF i < Len(pattern) /\ pattern[i + 1] = Star
             THEN <<AnyRun>> \o from[i + 2]
        ELSE <<SegmentRun>> \o from[i + 1]
  IN from

Compile(pattern) == CompileFrom(pattern)[1]

\* What the pieces "[^/]*" and ".*" of a RegExp do not run over.
Stops(piece) == IF piece = SegmentRun THEN {Slash} ELSE LineSeparators

(* RegExp.test, anchored at both ends: the places of the resource from      *)
(* which the pieces from the i-th on match all of the rest.                 *)
MatchFrom(pieces, resource) ==
  LET end == Len(resource) + 1
      runs(i, j, k) == \A l \in j..(k - 1) : resource[l] \notin Stops(pieces[i])
      from[i \in 1..(Len(pieces) + 1)] ==
        IF i > Len(pieces) THEN {end}
        ELSE IF pieces[i] \in {SegmentRun, AnyRun}
             THEN {j \in 1..end : \E k \in from[i + 1] : j <= k /\ runs(i, j, k)}
        ELSE {j \in 1..Len(resource) : resource[j] = pieces[i] /\ j + 1 \in from[i + 1]}
  IN from

Test(pieces, resource) == 1 \in MatchFrom(pieces, resource)[1]

HasControlChar(s) == \E i \in DOMAIN s : s[i] \in ControlChars

ResourceMatches(pattern, resource) ==
  /\ pattern # <<>> /\ resource # <<>>
  /\ ~HasControlChar(pattern) /\ ~HasControlChar(resource)
  /\ Test(Compile(pattern), resource)

----------------------------------------------------------------------------
(* What a pattern means, told without compiling it: the resource can be cut *)
(* into one part for each symbol of the pattern, where the part of a        *)
(* literal is that literal, the part of a star that is alone has no slash,  *)
(* and of two stars the first may have any part without a line separator    *)
(* and the second has none.                                                 *)
StarsUpTo(pattern, k) ==
  Cardinality({j \in 1..k : \A i \in j..k : pattern[i] = Star})

PartOf(pattern, k, part) ==
  LET stars == StarsUpTo(pattern, k)
      paired == k < Len(pattern) /\ pattern[k + 1] = Star
      avoids(set) == \A i \in DOMAIN part : part[i] \notin set
  IN \/ stars = 0 /\ part = <<pattern[k]>>
     \/ stars % 2 = 1 /\ paired /\ avoids(LineSeparators)
     \/ stars % 2 = 1 /\ ~paired /\ avoids({Slash})
     \/ stars > 0 /\ stars % 2 = 0 /\ part = <<>>

Means(pattern, resource) ==
  /\ pattern # <<>> /\ resource # <<>>
  /\ \A s \in {pattern, resource} : \A i \in DOMAIN s : s[i] \notin ControlChars
  /\ \E cut \in [0..Len(pattern) -> 0..Len(resource)] :
       /\ cut[0] = 0 /\ cut[Len(pattern)] = Len(resource)
       /\ \A k \in DOMAIN pattern :
            /\ cut[k - 1] <= cut[k]
            /\ PartOf(pattern, k, SubSeq(resource, cut[k - 1] + 1, cut[k]))
============================================================================
