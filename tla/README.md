# A verification project for `no-ai-slop`

TLA+ models of the trust kernels and gates of `no-ai-slop`, TLC runs that check
them on small instances, and TLAPS proofs of the properties that matter most for
every value of the parameters. Paths below are relative to the repository.

## 1. The system

A TypeScript monorepo. Everything is synchronous, in-process code over values;
there is no server and no thread. What makes it hard is therefore not
scheduling inside a process but

* **commands as processes**: every `nas` command is a process of its own, and
  they share the file `.nas/evidence/chain.json` without a lock;
* **documents that travel**: grants, evidence chains, release inputs, decisions
  and contribution records are JSON values that leave the code that made them and
  come back later: stale, cut, altered, twice, or in another order;
* **gates over many inputs**: a verdict is a function of a dozen independent
  facts, and one that is overlooked lets a release out.

| Component | State | Operations | Talks to | Hard behaviour | Correct means |
| --- | --- | --- | --- | --- | --- |
| `crypto` | none | canonical JSON, SHA-256, HMAC | all kernels | encoding must be injective | equal digests only for equal values |
| signer (`kernel-evidence/signer.ts`, `cli/context.ts`) | key ring | `sign`, `verify`, `hasKey` | log, broker, gate | unknown and rotated keys | fail-closed; only a holder of the key signs |
| evidence log, TC-17 (`kernel-evidence/log.ts`) | sealed records | constructor, `append`, `toJSON`, `verifyChain` | signer | alterations of a serialized chain that combine | what verifies was sealed |
| evidence store (`cli/store.ts`, `commands/evidence.ts`) | the chain file | `add`, `verify`, `list` | log, file system | racing processes, kills, changed keys | append-only; a loss is never silent |
| authorization, TC-07 (`kernel-authz`) | registered grants, uses consumed | `issue`, `registerGrant`, `authorize` | signer | altered and re-registered grants, replays, window ends, restarts | allowed only under a minted grant, within budget |
| resource patterns (`kernel-authz/resource.ts`) | none | `resourceMatches` | engine | `*` against `**` | matches what the pattern means |
| release gate, TC-10 (`kernel-release`) | none | `evaluateRelease`, verify | log, signer, anti-slop | repeated checks, contradictory results, self-review, copies of evidence | out goes exactly what is ready |
| `nas` shell and `nas gate` (`cli/args.ts`, `run.ts`, `commands/gate.ts`) | a decision file | `parseArgs`, `gateCommand` | release gate | flags that swallow words, runs that fail, stale decision files | told `gate`, exit 0 only for a release that was decided |
| anti-slop gate (`anti-slop/engine.ts`) | none | `evaluateReview`, `nas antislop` | release gate | several exceptions, repeated grades, expiry | no dimension makes up for another |
| governance (`contracts/governance.ts`) | a record per contribution | `applyContributionTransition` | none | stale transitions, loops, self-publication | history explains state; final is final |
| architecture check (`anti-slop/checks/architecture.ts`) | search state | `checkArchitecture`, `findCycles` | scripts | search that skips finished nodes | valid never with a cycle |
| change impact (`checks/impact.ts`) | search state | `computeImpact` | scripts | closure over cyclic graphs | every dependent, once |
| design-system check (`contracts/design-system.ts`, `checks/design-system.ts`) | none | `validateDesignSystemRegistry`, `checkDesignSystem` | contracts, script | references between seven tables, circles nobody looks for, exceptions that expire | nothing dangling, climbing or overdue is called valid |
| design-system script (`scripts/check-design-system.mjs`) | the committed `registry.json`, the last build | check, `--write` | build, file system, check | the registry is taken from the build, the facts from the working tree | exit 0 only for a governed system |
| interface anti-patterns (`contracts/interface-patterns.ts`, `checks/interface-patterns.ts`) | a fixed catalog | validation, citation by id or number | reviewers, grades | numbers with gaps or shared | a citation names one pattern |
| grades from findings (`checks/grades.ts`, `architectureFindings`) | none | `gradesFromSystemFindings` | the checks, anti-slop gate | findings of dimensions nobody listed | a blocking finding blocks |
| `nas demo` (`cli/commands/demo.ts`) | receipts, log, decisions of one run | authorize, seal, review, release, tamper | all kernels | order of the two requests, two readings of the clock | success is reported exactly when all went as told |
| web application (`app/lib/lifecycle.ts`, pages) | a sample computed once | `getLifecycle` | evidence, release and anti-slop kernels | a sample refused for another reason than the page gives | what is shown was computed |
| policies (`kernel-release/policy.ts`, `anti-slop/policy.ts`) | none | two release policies, the required dimensions | gates, demo, web app | a lifecycle that one of them does not fit | what the programs show agrees with them |
| `ui` | none | tokens, components, registry data | web app | none | data only |

## 2. The modules

    Signing ── EvidenceChain ─┬─ EvidenceLog
       │                      ├─ EvidenceStore ── refines ── AppendOnlyLog
       │                      └─ ReleaseGate ─┬─ Release ── CommandLine
       └─ Authz ──────────────────────────────┤
          ResourcePattern, Policies ──────────┴─ Lifecycle ── AntiSlopGate
    Governance      AntiSlopGate ── AntiSlop
    FindCycles ── ArchitectureCheck ─┐
                              Impact ─┴─ ArchitectureScript
    DesignRegistry ──┬── DesignSystem ──────┐
    SystemFindings ──┴── InterfacePatterns ─┴─ SystemReview ── AntiSlopGate

| Proofs | About |
| --- | --- |
| `ChainProofs` | `Signing`, `EvidenceChain`, induction: lemmas the next four use |
| `EvidenceLogProofs`, `EvidenceStoreProofs` | the module of that name |
| `ReleaseProofs` | `ReleaseGate`, `Release`, `CommandLine` |
| `AuthzProofs` | `Authz`, `ResourcePattern`, `Lifecycle` |
| `GovernanceProofs` | `Governance` |
| `ArchitectureProofs` | `FindCycles`, `ArchitectureCheck`, `Impact`, `ArchitectureScript` |
| `SystemReviewProofs` | `AntiSlop`, `DesignSystem`, `SystemReview` |

An `MC…` module instantiates the module it is named for. A definition whose
comment starts with "Bug" is the definition below it with a plausible mistake; no
specification uses it. It is there to show that a property can fail.

**`Signing`** (`crypto/src/index.ts`, `kernel-evidence/src/signer.ts`).
`Sha256` and `HmacSha256` are constructors: injective, and an HMAC can be made
only from its secret. This is the one cryptographic assumption of the project.
A signer is a record of its keys and its default key.

**`EvidenceChain`** (`log.ts`) has `Seal` (what `append` makes), `RecordBody`
(what the digest covers) and `VerifyChain`. **`EvidenceLog`** is one log and a
copy of its chain outside it: `AppendRecord`, `Export` (`toJSON`), `Load` (the
verifying constructor), and the alterations that `log.test.ts` makes one at a
time (`AlterRecord`, `DeleteRecord`, `SwapRecords`, `InsertForeign`), here in any
series. `sealed` is history: the chains a log has held.

**`EvidenceStore`** (`store.ts`, `commands/evidence.ts`). A process is `idle`, has
`sealed` a record in memory, has `truncated` the file, or has `written` it. Whether
commands may overlap is `overlap`, chosen at the start: the code has no lock, so both
are real, and what must hold then differs. `SealRecord` is the command up to the
write; it is one step because its only access to shared state is one read.
`writeFileSync` is two steps, because it opens the file with `O_TRUNC` and then fills
it; if another process has filled it in between, the shorter text may leave a tail of
the longer (`Garbled`). `Crash` is a kill at any point. **`AppendOnlyLog`** is the
abstract specification: a log that grows by one record, or is lost as a whole and
stays so.

**`Authz`** (`kernel-authz`). `Issue`, `Register`, `Authorize`, `Restart`.
A grant is presented with any body and any signature known to the presenter:
those of minted grants and foreign ones. `Outcome` is the ladder of checks of
`authorize`, in its order. `since` marks where the present engine began. Which
resources a pattern admits is the parameter `Matching` here. **`ResourcePattern`**
(`resource.ts`) gives it a value: `Compile` reads a pattern into the pieces of a
regular expression, `Test` matches them; a symbol stands for any run of characters
that the code does not tell apart. Both are recursive functions of a place, from its
end backwards: `CompileFrom` has the pieces of the rest of a pattern, `MatchFrom` the
places of a resource from which the rest of the pieces match. `Means` says the same
without compiling.

**`ReleaseGate`** is `evaluateRelease` and `verify.ts` as operators,
**`CommandLine`** is `args.ts`; `ParseFrom` is what the parser makes of the arguments
from each place of the line on. **`Release`** puts them to work: evidence is sealed,
checks are reported, a copy of the evidence (whole, cut, altered, forged) is
attached, `Nas` runs a command line, and the decision file is altered. `Nas` is the
whole dispatch of `runCli`, by the words that no flag took: the line gets to a
document (`Gates`), and the run is a `Gate` with or without `--out`; or it has what
`nas evidence add` asks for (`Adds`), and a record is sealed (`Sealing`, the step
that `SealEvidence` is without a command line); or it is `help` or `version`
(`Prints`), which always succeed; or another command that changes nothing here
(`Inspects`: `demo`, `antislop`, `evidence verify`, `evidence list`), which
`Succeeds` or `Fails`. Every line but `help` and `version` may fail, and one that is
none of these always does: a `gate` without its document, an unknown command, no
command. What `Inspects` looks at is not in this module, so which of the two outcomes
it has is left open; their kernels are in `EvidenceStore`, `AntiSlop` and
`Lifecycle`. `Deployable` says which manifests a deployer would let out: the deployer
is outside the repository, it asks what `verify.ts` offers. The bounds on evidence,
reports and decisions and the lines to run are a `scope` chosen at the start.

**`Lifecycle`** composes the kernels under what drives them, the `driver` of a
behaviour: a caller of the broker and the engine in any order (`Call`); `nas demo`,
step by step (`DemoIssue` … `DemoExit`), with a clock that may show anything at each
of the two readings the outcome depends on (`demo.ts:60`, `:75`); or `getLifecycle`
of the web application (`AppSeal`, `AppEvaluate`). Each call to a kernel is a step,
because each changes the state of the broker, the engine or the log. **`Policies`**
holds the data of the two policies.

**`Governance`**: the record is the version that the last transition returned, and
`Apply`/`Refuse` try every transition, whichever state it was prepared for.

**`AntiSlopGate`** is `evaluateReview` as operators. **`AntiSlop`**: a review is
written one grade and exception at a time, and the command runs on it at any
moment. Its specification is `GateSpec`, so that its names are not those of the
specifications it is extended together with.

**`FindCycles`**: the recursion of `visit` as a machine. The frame of a node on
the stack has still to look at `todo[node]`; `Look` is one turn of its loop,
`Return` its end, `VisitRoot` a turn of the outer loop. **`ArchitectureCheck`**
extends it with the rules: `scanned` is the set of modules that the scan found, and
`layer` says what the rules make of each module, scanned or not
(an order, an undeclared layer, nothing), the loops over modules and edges are
operators, and `ReturnReport` follows the search. **`Impact`** is
`computeImpact`: the queue, and one turn of its loop (`VisitDependents`).
**`ArchitectureScript`** is the command around both: it computes an impact, or
writes or compares the committed scan (`WriteArtifact`, `RejectArtifact`) and
then checks, and exits. The scan itself is a choice of modules and of dependencies
among them; a module that the rules declare may be missing from it.

**`DesignRegistry`** is the registry and `validateDesignSystemRegistry`, as sets of
problems; the schemas' demands that references do not express are `Parses`.
`Coherent` says the same without maps of first entries. **`DesignSystem`** is the
work on it: entries are added, replaced and removed (`AddEntry`, `ReplaceEntry`,
`RemoveEntry`), sources edited (`EditSource`), the artifact touched by hand or
deleted (`TouchArtifact`), packages built (`Build`), time passes (`Tick`), and
`Check` is one run of the script, with or without `--write`. A run imports `dist`,
so it sees the registry and the exported components as they were `built`, and the
raw values and files as they are now (`Scanned`). **`SystemFindings`** makes grades
of findings, **`InterfacePatterns`** validates and cites the catalog.
**`SystemReview`** composes all three with `AntiSlopGate`: `Cite` is a citation,
`Review` a review of the dimensions a caller lists, over the findings of the
design-system check, of the architecture check and of the citations. Nothing in
the repository chains these calls; it is what `grades.ts` offers them for.

## 3. The runs

| Run | Bounds | Shows |
| --- | --- | --- |
| `evidence_log` | 3 records, 3 seals, 3 alterations | `ValidCopyWasSealed`: no series of alterations makes a valid chain that was not sealed |
| `evidence_store` | 2 processes, 2 keys, 4 seals | `DiskSound`: races never leave a chain that parses and does not verify; one command at a time: `NoSilentLoss`, `ReadersSeeGrowth`, `UnreadableOnlyIfKilled`, and refinement of `AppendOnlyLog` |
| `evidence_store_lost_update` | same | violated: a sealed record is overwritten |
| `lifecycle` | 2 grant ids, 4 bodies, 10 requests, 4 allowed; 43 patterns and 41 resources in pairs; 2 instants for the demo | `AllowedByMintedGrant`, `UseBudget`, `AllowedWhileBudgetLasts`, `PatternsMeanWhatTheySay`, `DemoTellsWhatHappened`, `RefusedForTheReasonShown` |
| `release` | 11 drafts, 7 reports; 2 records, 2 reports, 1 decision, or 1, 1, 2 and 2 command lines, or 1, 1, 1 and 8 lines | `VerdictIsRight`, `ExitZeroIffReady`, `DeployedWasDecided` |
| `release_incomplete` | same | violated: see section 6 |
| `governance` | 2 actors, 2 instants, 7 transitions | `HistoryExplainsState`, `PublishedProperly`, `FinalMeansFinal` |
| `governance_reject` | same | violated: see section 6 |
| `anti_slop` | 3 dimensions, 3 grades, 2 exceptions | `AcceptedIffEveryDimensionIs`, `NothingHidden`, `GradesDoNotMix` |
| `architecture` | all scans, graphs and layerings of 3 modules, 2 exceptions, 2 files | `ExitZeroIffSound`, `CyclesHaveACause`, `FoundIffCyclic`, `ReportedAreCycles`, `ImpactIsExact`, `Exits` |
| `system_review` | 18 entries, 3 sources, 2 edits, 3 instants; all catalogs of up to 3 patterns with numbers up to 4; 2 citations | `ValidIsFounded`, `ExitZeroIffGoverned`, `TimeOnlyExpires`, `CitationsUnambiguous`, `ReviewJudgesFindings` |
| `design_system_drift` | same | violated: see section 6 |

Why the bounds are enough. Three records have a first, a middle and a last one,
so every way a link can break exists, and three alterations allow changing a
record, its digest and its neighbour's link. Two processes suffice for a lost
update; four seals let each act twice. Four allowed requests exceed the largest
budget (two) twice over, so a budget that is reset or leaks shows. Patterns of up
to three symbols, and of four where two pairs of stars need them, have every way in
which a star meets another, a slash or an end; resources of up to three symbols
have a separator or a line end in each place. At two instants the clock of the demo
stands still, moves on or steps back. A release has
one required check and one required kind, since the gate treats each in the same
loop; two reports are what a shadowed duplicate needs. Seven transitions are the
shortest path to publication, with one loop back from verification, and its
deprecation. Three dimensions are two required ones and one that is not. On three
modules a cycle can hang off a finished node, share a node with another cycle, or
pass through an undeclared module; the proofs cover every other number. Two
orders make each edge go down, across or up; two exceptions can excuse a whole
cycle of two, and the longer path of a cycle of three. Two changed files can
belong to modules that depend on each other. The registry starts coherent, and two
edits are what a circle, a duplicate with a dangling reference, or a raw value with
a wrong exception needs; the entries to choose from break each rule of the
validation. Two exceptions end at different instants. The scopes of `SystemReview`
spend the bounds on one question at a time: edits, catalogs, or reviews.

`CHECK_DEADLOCK FALSE` is set for `architecture` and `lifecycle`, whose programs
end. The other models never stop: a refused or repeated operation is a step too.

**Specifications of intent.** `Ready`, `Clean`, `Covers`, `Means`, `Says` and
`AsksFor` (of a command line), `Acceptable`, `Sound`, `Closed`, `Coherent` and
`Governed` say what should hold without the code's intermediate structures (no
map-keeps-last, no three lists, no ladder of checks, no recursion over arguments),
so that agreement with them is information. `Ready` asks that the evidence *is* a prefix of what the
authority sealed where the code asks that it *verifies*.

**Fairness.** None is assumed, except in `architecture`: the script is a
sequential program, and weak fairness of its next step says that it runs on until
it exits. That it does is not assumed but checked.

## 4. The proofs

Every theorem holds for all values of the constants that satisfy the named
assumptions of the module. Each invariant is proved from an inductive one, which
adds what the property itself does not say and a step needs.

Some facts are about what a recursive function computes, over all patterns or all
command lines. The induction theorems of the library take an operator as a parameter,
which the provers cannot instantiate, so `ChainProofs` has two lemmas that take sets and
functions instead: `SetInduction` (a set of numbers closed under the step has all of
them, from the well-foundedness of the numbers) and `RecursionDefines` (a recursion in which each
value rests on values of lower rank has a solution). A
proof then names the set of places for which its claim holds.

* `ChainProofs`: `Sha256` and `HmacSha256` are injective; what a ring signs it
  verifies and a ring with other secrets refuses (`SignedVerifies`,
  `ForeignRefused`); a valid chain stays valid when it is sealed once more
  (`SealExtends`) or cut (`CutVerifies`).
* `EvidenceLogProofs` (two rings without a common secret, each with its default
  key): `TypeCorrect`, `OnlySealedChainsVerify`. Every signature in a copy was made
  by the log or by the foreign signer, since alterations only move signatures. A
  record of a copy that verifies is then one that the log sealed, and it fixes the
  digest of its predecessor: by well-founded induction on its length the copy is a
  chain that the log has held.
* `EvidenceStoreProofs` (any number of processes and rings): `TypeCorrect`,
  `RacesNeverForge`, `NothingIsLostSilently`, `OnlyKillsMakeItUnreadable`,
  `ShownOnlyGrows`, and the refinement `StoreIsAppendOnly`. `Sound` says of any
  interleaving that each process holds a chain that verifies, and draws ids nobody
  else has; `Serial` says where the one running command is and, from that, what the
  file holds: without it none of the properties of serial use is inductive.
* `AuthzProofs` (bodies have the fields of a grant; a foreign signature was not made
  with a key of the ring): `TypeCorrect`, `OnlyMintedGrantsAllow`, `BudgetKept`,
  `DenialsBurnNothing`. The inductive invariant adds that each minted grant carries
  the HMAC of its own body under a key of the ring, and that `uses` counts the
  requests the present engine allowed under each id. Without the first one could
  register a body under a signature of unknown origin; without the second the
  budget would speak of the history where the engine looks at its counter.
  `ProgramsUseTheKernels` shows that the demo and the web application take only
  steps of the broker and the engine, so these theorems are about them as well;
  `LifeTypeCorrect` is the type correctness of the composition.

  `PatternsAreRight` is about every pattern and resource (finite sequences; no symbol of
  a pattern is one of the two names for pieces). By induction from the end of the pattern,
  the places that `MatchFrom` gives are those from which the rest of the resource can be
  cut as the rest of the pattern means (`MatcherIsRight`); the parity of the run of stars
  before a place says how the compiler paired them.

  `DemoIsTruthful` and `RefusalsAreTheOnesShown` are about the two programs, at any
  instants before the demo's grant expires in the year 2999, and if the demo's own
  resource has no control character and no line separator in it (it has none). The
  inductive invariant `ProgInv` adds to the types what the demo has been answered so far,
  from the one grant it minted (`DemoAsks`), and that records are sealed and documents
  decided on in their order (`InOrder`). That an altered first record is found, and that
  the anti-slop gate accepts the programs' own review, are lemmas (`TamperedIsCaught`,
  `ReviewAccepts`); which reasons the gate then gives is computed from the two policies.
* `ReleaseProofs` (two rings without a common secret; drafts have the fields of a
  document): `TypeCorrect`, `VerdictsAreRight`, `OnlyDecidedIsDeployed`. First, for
  one document, `evaluateRelease` with its maps and lists says what `Ready` and
  `Clean` say; then the invariant: a copy of the evidence that verifies is a prefix
  of the authority's chain, and the decision file carries the signature of a
  decision that was issued, whatever else was done to it.

  `ExitCodesAreRight` (lines are finite sequences without the mark of an absent word,
  and `--out` is a flag; the word that names the document is not empty): a property of
  steps. By induction from the end of the line, the n-th positional word is the n-th
  that no flag takes, and a flag has the value that its last mention gives it
  (`LineIsRead`). Hence the word at which `runCli` branches is the first that no flag
  took (`WordIsSaid`), and since a line has one such word (`OneFirstWord`), a run that
  was told another command did not get to the gate (`AnotherCommand`), whatever it exits
  with. That a decision differs from what the file had needs the invariant `Numbered`:
  decisions carry the number of their turn, and the file, even an altered one, a number
  that is past.
* `GovernanceProofs`: `TypeCorrect`, `HistoryIsTrue`, `PublicationIsProper`,
  `FinalIsFinal`. A transition looks at the state alone, and publication needs what
  came long before it. The invariant therefore adds that each recorded step was legal
  when it was taken, and that any step into implementation or beyond has a design
  review, or an exception that had not expired, before it in the history.
* `ArchitectureProofs`: `TypeCorrect`, `CycleExistenceIsSound`, `ReportsAreGenuine` of
  the search: as long as nothing was reported, a finished node depends on finished
  nodes only, a node on the stack depends, as far as it was looked at, on finished
  nodes and the node above it, and no finished set is a knot; the stack is a path. A
  knot is a set of modules that each depend on one of the set; in a finite graph
  there is one exactly when there is a cycle. `ScriptTypeCorrect`, `ExitCodeIsRight`
  and `CyclesAreExplained` of the command (orders are natural numbers, neither mark
  for "no order" is one): a step of the script is a step or a stutter of the search;
  when that has ended, the violations are empty exactly if the architecture is sound,
  and where all edges point down a knot would have a module of least order.
  `ReportIsExact` of the impact (finitely many modules): a module reached is in the
  queue or has all its dependents reached, and every set that has the changed modules
  and is closed under dependents has all that was reached. `CommandsRunDown` and
  `CommandsAreNeverStuck` are the part of `Exits` that needs no fairness: `StepsLeft`, a
  natural number, falls with every step (the roots, the edges not looked at and the stack,
  or the queue and the modules not impacted), and until the exit the guards of a next step
  hold (`HasNext`).
* `SystemReviewProofs`, on the design system (tiers, levels and expiries are numbers,
  a token has at most one CSS variable): `TypeCorrect`, `Founded`, `ExitCodeIsRight`,
  `TimeHealsNothing`. Nothing in the code looks for circles; that there are none
  follows from the order of tiers and levels, by an entry of least rank in a supposed
  circle, once ids are unique. On the anti-slop gate: `GateTypeCorrect`,
  `NoDimensionIsOutweighed`, `EveryFailureIsNamed`, `DimensionsAreApart`, from what the
  gate says of each single dimension (`GateByDimension`) and the invariant that a
  result is the gate's for the review it was run on. On reviews (finitely many
  dimensions, catalogs of the schema's shape): `ReviewsOnlyLook`, by which the theorems
  of the design system hold of every behaviour with reviews; `ReviewTypeCorrect`;
  `CitingIsSafe`, where a catalog without gaps has no shared number because finitely
  many numbers leave no room for it; and `FindingsAreNotOutweighed`.

Only model-checked: `Exits`, since it needs fairness, which this prover cannot use; its two
premises are theorems of `ArchitectureProofs`. Every other property of a passing run is
stated by a theorem.

## 5. What is not modelled

* Canonical JSON text and hashes as bits: digests and HMACs are injective
  constructors. The shape checks of the schemas, beyond those a property depends on: a
  malformed request is a flag, and a registry or a catalog parses or does not.
* The wording of reasons, findings, receipts and pages; ids and timestamps that no
  property tells apart; help, version and error texts; the `--json` outputs.
* What `nas antislop`, `nas demo` and `nas evidence verify` or `list` make of their input
  inside `Release`: there they succeed or fail.
* What scanners make of texts: raw values in sources, imports of modules, exported
  names. They are inputs, chosen freely. The 46 patterns and the registry that the code lists
  as data are replaced by small candidates that break each rule once.
* Joined keys: the validation tells components apart by `sourcePath#name`
  (`design-system.ts:409`), and the model by the pair, which is the same unless a path or
  a name has a `#` in it.
* `policyFor`, which nothing calls.
* `ui` is data: tokens, stateless components and the registry, whose validation is
  modelled. Pages of the web application render what `getLifecycle` and the committed
  artifacts say. `system.ts` calls the checks that the two scripts call, on inputs that
  are fixed when the application is built, and keeps the answer.
* `scripts/dod.mjs` counts statuses in a JSON file.

One hazard is listed without a property: nothing relates the id of an evidence record
to a build (`evaluate.ts:55`). Whether it should is not for this project to say.

## 6. Where the code and its documents disagree

| Where | The documents | The code |
| --- | --- | --- |
| `store.ts:46` | an append-only log (`log.ts:47`) | concurrent adds lose a record reported as sealed |
| `evaluate.ts:74` | any incomplete check blocks (`release.ts:83`) | only one the policy requires |
| `governance.ts:102` | rejection from any pre-published state (`governance.md:30`) | not from `implementation` |
| `check-design-system.mjs:163` | the freshness check fails on drift from `registry.ts` (`:176`) | it compares with the last build, so drift that was not built passes |

Each has a run that TLC must find violated: `evidence_store_lost_update`,
`release_incomplete`, `governance_reject` and `design_system_drift`. Lesser ones have
none:

* `authz.ts:83` says that a nonce is not replayed, and a grant with `maxUses` above 1
  lets it through that often (`UseBudget` bounds it).
* `verify.ts:6` says that what verifies has not been altered, and `signedBy` is not
  covered by the signature (`DeployedWasDecided` names the fields that are).
* `resource.ts:6-8` says that `**` matches any run of characters, and it stops at the
  line separators U+2028 and U+2029, over which `*` runs. `Means` says what the code
  does: a pair of stars has any part without a line separator.
* `checks/design-system.ts:18` speaks of focus and disabled states, and only
  `focus_visible` is looked for.
* `system.ts` speaks of checks "on every render", and keeps the first answer; the
  expiry that a page shows (`system/page.tsx:425`) is computed when it is rendered.
* `log.ts:51` says that any deletion makes the chain invalid, and a chain cut at its
  tail verifies, as `ARCHITECTURE.md:136` admits. `ValidCopyWasSealed` therefore asks
  that a valid chain is one the log has held, not that it is the last.
* `HELP` lists `--json` without a value, and the parser gives it the word after it
  (`args.ts:17`): `nas --json gate version` prints the version and exits 0, and nothing is
  decided. `ExitZeroIffReady` therefore speaks of the exit code of lines whose first free
  word is `gate`, and says of every line that only a decision touches the decision file.

## 7. Plan

Done: the components of section 1, as far as section 5 does not except them, and the
theorems of section 4. What is left, in this order:

1. The suite `repo-system.test.ts` beside the two scripts: the same checks from the
   sources instead of the build.
2. `nas antislop` and `nas evidence verify` or `list` inside `Release`, with the exit
   code that their kernels give them instead of either.
