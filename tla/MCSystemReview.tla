--------------------------- MODULE MCSystemReview ---------------------------
(* A registry of two tokens, two components and one of each of the rest,   *)
(* which starts coherent; the entries to be written break every rule of    *)
(* the registry, alone or in pairs.                                        *)
EXTENDS SystemReview

Token(id, tier, aliasOf, css) ==
  [id |-> id, tier |-> tier, hasValue |-> aliasOf = {}, aliasOf |-> aliasOf,
   cssVariable |-> css]

Button == [id |-> "button", name |-> "Button", sourcePath |-> "button.tsx",
           atomicLevel |-> 1, category |-> "input", states |-> {"focus_visible"},
           composedOf |-> {}, usesTokens |-> {"accent"},
           followsPrinciples |-> {"plain"}, accessibility |-> {"contrast"},
           ownerId |-> {"team"}, status |-> "stable", deprecation |-> FALSE,
           replacedBy |-> {}, tests |-> {"button.test.tsx"}]

Search == [Button EXCEPT !.id = "search", !.name = "Search", !.sourcePath = "search.tsx",
                         !.atomicLevel = 2, !.composedOf = {"button"}, !.tests = {}]

Exception == [id |-> "media", scope |-> <<"base.css", "1023px">>, ownerId |-> {"team"},
              expiresAt |-> 1]

Id(i) == [id |-> i]

MCCandidates ==
  [tokens |-> {Token("gray", 0, {}, {}), Token("gray", 2, {}, {"--nas-accent"}),
               Token("accent", 1, {"gray"}, {"--nas-accent"}),
               Token("accent", 1, {"text"}, {}), Token("text", 1, {"accent"}, {}),
               Token("text", 2, {"accent"}, {"--nas-accent"}),
               [Token("text", 1, {}, {}) EXCEPT !.hasValue = FALSE]},
   components |-> {Button, Search,
                   [Button EXCEPT !.states = {}, !.composedOf = {"form"}],
                   [Search EXCEPT !.status = "deprecated", !.deprecation = TRUE,
                                  !.replacedBy = {"form"}, !.category = "layout"],
                   [Button EXCEPT !.id = "link", !.status = "deprecated"],
                   [Search EXCEPT !.composedOf = {"form"}],
                   [Search EXCEPT !.id = "form", !.name = "Form", !.composedOf = {"search"}]},
   principles |-> {Id("plain")},
   owners |-> {Id("team"), Id("platform")},
   accessibilityRules |-> {Id("contrast")},
   patterns |-> {[id |-> "primary-action", consistsOf |-> {"search"}, usesTokens |-> {"text"}]},
   exceptions |-> {Exception,
                   [Exception EXCEPT !.id = "file", !.scope = <<"base.css">>,
                                     !.ownerId = {"platform"}, !.expiresAt = 2]}]

MCRegistry ==
  [tokens |-> <<Token("gray", 0, {}, {}), Token("accent", 1, {"gray"}, {"--nas-accent"})>>,
   components |-> <<Button, Search>>,
   principles |-> <<Id("plain")>>, owners |-> <<Id("team")>>,
   accessibilityRules |-> <<Id("contrast")>>, patterns |-> <<>>,
   exceptions |-> <<Exception>>]

MCRegistries == {MCRegistry}

MCSource ==
  [rawValues |-> {[path |-> "base.css", value |-> "1023px"]},
   exported |-> {"Button"}, files |-> {"button.tsx", "search.tsx", "button.test.tsx"}]

MCSources ==
  {MCSource,
   [MCSource EXCEPT !.rawValues = {}, !.exported = {"Button", "Form"},
                    !.files = @ \ {"button.test.tsx"}],
   [MCSource EXCEPT !.rawValues = @ \union {[path |-> "base.css", value |-> "#fff"]}]}

MCRequired ==
  [design_change |-> {"design_consistency", "interaction_quality"},
   refactor |-> {"architecture_depth", "maintainability"}]

Pattern(id, n) ==
  [id |-> id, number |-> n,
   dimension |-> IF id = "glow" THEN "design_consistency" ELSE "interaction_quality",
   severity |-> IF id = "kicker" THEN "minor" ELSE "serious"]

Catalogs == UNION {[1..n -> {Pattern(id, k) : id \in {"glow", "kicker"}, k \in 1..4}] : n \in 1..3}

Catalog == <<Pattern("glow", 1), Pattern("kicker", 2), Pattern("stripe", 3)>>

\* Edits of the system; catalogs; reviews of the system as it comes.
MCScopes ==
  {[edits |-> MaxEdits, catalogs |-> {Catalog}, citations |-> 0, violations |-> {}],
   [edits |-> 0, catalogs |-> Catalogs, citations |-> 1, violations |-> {}],
   [edits |-> 0, catalogs |-> {Catalog}, citations |-> 2,
    violations |-> {{}, {"ARCH_UNKNOWN_MODULE"}, {"ARCH_FORBIDDEN_EDGE", "ARCH_CYCLE"}}]}
=============================================================================
