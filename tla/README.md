# A TLA+ model of Deductra

Deductra is a local platform for logic puzzles in which every deduction is an event, every event
is checked by independent solvers before it may change a reasoning state, and everything durable is
an append-only, hash-chained log. This directory models that core, checks it with TLC and proves
its main invariants with TLAPS. Paths below are relative to `src/src/deductra/` unless they start
with `src/`.

## 1. The system

### Components

| Component | State it keeps | Operations | What makes it correct |
|---|---|---|---|
| Reasoning state (`reasoning/state.py`, `reducer.py`) | candidates per variable, asserted atoms, contradictions, sequence number; immutable and content addressed | genesis from givens, three reductions (eliminate, assign, contradict), derivation of a branch state | candidates and atoms always agree; states only narrow |
| Branch projection (`reasoning/branches.py`, `events.py`) | branch records, retained state of every branch, active branch | fold one event: open, close, mutate, or only advance | unclosed branches are one path; parents are restored exactly; closed branches are final; search results stay in search branches |
| Event integrity (`reasoning/integrity.py`) | none | verify an event, verify a chain | contiguous, linked, sealed |
| Human engine (`reasoning/engine.py`, `policy.py`, `rules.py`) | current state, candidates already tried in it, step counter | the solve loop | no solution is lost, "solved" means the unique solution, the loop returns |
| Verification authority (`verification/`) | none | ask every backend about base and negated claim; combine certificates | a wrong or slow backend can block a deduction, never cause one |
| SQLite event store (`memory/sqlite_store.py`) | `events` and `streams` tables | append, read | atomic appends; a stream is always one verified chain that agrees with its head; damage is noticed |
| Memory projections (`memory/projections/`) | sealed event streams; attempts, learning totals, novelty and artifact indexes are rebuilt from them | seal an event, rebuild | the bundle is what the streams state, however they are delivered; nothing counts twice |
| Logic Grid play (`families/logic_grid/play.py`, `checker.py`) | marks, conflicts, checkpoints, status, cursor, retained moves | eleven player actions in four validation modes | marks equal the projection of the active path; nothing is forgotten; completion is earned |
| Logic Grid attempt store (`sqlite_attempt_store.py`, `attempts.py`) | four tables: stream row and three logs | create, append, two kinds of advice, read | the derived record agrees with the logs; advice belongs to the session it was computed for |
| Logic Grid assistance (`assistance.py`) | none | classify marks, evaluate a move, hint ladder | advice is true in every solution, also when marks are wrong |
| Logic Grid / Logic Equations rules | none | discover rule applications | every application is entailed |
| Solver encodings and checkers (`verification/logic_*`, `checker.py`) | none | evaluate a clue | rules, checker and both encodings read a clue alike |
| Generation contracts (`generation/`) | the lineage of a request: events and candidates | record an event, decide on a candidate | decision and validators agree; uncertainty is never accepted |
| Logic Grid builder (`builder.py`) | the author's draft | validate, compile, prove | a draft without errors compiles; "ready" means the author's one solution |
| Hypergraph, reports, agents, structured I/O, snapshots, CLI | none or sealed documents | pure conversions, one remote call | see section 7 |

### Interaction

Rules propose; the engine checks the proposal's form and hands the claim to the coordinator; the
coordinator asks all backends and returns one decision; only a verified claim becomes an event,
which the reducer applies. Event streams are folded into branch projections and are stored by
`SQLiteEventStore`. Separately, a player's session is a pure fold over play actions; it is stored
by `SQLiteLogicGridAttemptStore` together with evaluations and hints that were computed earlier,
outside the store's transaction, for some session hash. A stored attempt hands its facts over to the
memory projections. The builder uses the engine and both backends to prove a draft, and a generator
would hand its evidence to the generation gates.

### What is hard here

There are no threads in the package. What is hard is

* **several connections on one SQLite file**: appends are serialised by `BEGIN IMMEDIATE`, but reads
  are several autocommitted statements; a client may die anywhere;
* **stale inputs**: an event carries the hash of the state it was computed from, advice carries the
  session hash, a session to append was extended from an earlier head;
* **long sequences**: branches opened and closed, undo/redo/restore along a tree of moves, facts that
  must be counted once and not after completion;
* **partial failure of the verifiers**: a backend times out, rejects the problem or is wrong;
* **the same thing written several times**: four evaluators of a clue, three judges of a generated
  candidate, two validators of an authored draft;
* **delivery**: a rebuild is handed events late, twice, altered or incomplete;
* **boundaries**: the first event of a stream, the step limit, a session without events, equal times.

`PROJECT.json` lists these hazards line by line with the property that covers each.

## 2. Modules

```
ReasoningState ─┬─ BranchProjection ── implements ── ScopeStack
                ├─ PlaySession
                └─ Verification ─┬─ HumanEngine ── implements ── SoundNarrowing
                                 ├─ LogicGridRules ─┬─ LogicGridEngine (with HumanEngine)
                                 │                  └─ Assistance (with PlaySession)
                                 └─ LogicEquationsRules ── LogicEquationsEngine (with HumanEngine) ─┐
ClueSemantics ─┬─ LogicEquationsClues ─────────────────────────────────────────────────────────────┴─ LogicEquationsReaders
               └─ LogicGridBuilder
EventStore    AttemptStore    MemoryProjections    Generation
```

`*Proofs` modules hold the theorems, `MC*` modules the instances for TLC.

**ReasoningState** — pure operators. A state is a record of `cand` (candidates), `assigned`,
`excluded` and `other` atoms, `contradictions` and `sequence_no`. `create_initial_state` applies
givens in declared order (an exclusion after the assignment of its variable is refused);
`Eliminate`, `Assign`, `Contradict` are the payloads of `reduce_state`, `derive_branch_state` adds a
branch assumption. Atoms that constrain several variables are opaque: the reducer records and never
interprets them. `validate_state` is translated, but note that `reduce_state` does not call it.

**BranchProjection** — `reduce_branch_projection`: one action per payload kind it distinguishes
(`BranchOpened`, `BranchClosed`, `CandidatesEliminated`, `ValueAssigned`, `ContradictionDetected`,
`OtherEvent`). The event's branch and claimed source state are arbitrary, so stale and misdirected
events are tried at every point; a refused event raises and changes nothing. The source
hash is the pair of branch and sequence number, which determine the retained state. `searched` is a
history variable: candidates removed by events of search origin.

**ScopeStack** — the abstract promise: a stack of scopes, of which only the innermost changes, and
leaving one gives back the enclosing one exactly.

**Verification** — `Models(s)` are the puzzle's solutions the state still admits. A backend in
`Honest` answers what a correct solver may (timeouts at either check included); the rest answer
anything. A correct backend in `Tabulating` (CP-SAT) also answers "invalid" to every question about a state in which some clue has more than
`MAX_TABLE_COMBINATIONS` combinations of candidates (`encodable`; 1,000,000 in `logic_grid_cpsat.py:38` and `logic_equations_cpsat.py:38`); `Tables` are
the variables of each clue. `coordinator_verify` is the coordinator's decision table. An obligation's assumptions are the
proposal's premises: a claim is asked of the solutions that satisfy both the state and them.

**HumanEngine** — the solve loop, one turn per action (`RejectProposal`, `Evaluate`, `Stall`,
`Finish`). The rules (`find_applications`) are a parameter: right or wrong, with premises asserted in the
state or not, and the policy may pick any untried candidate. `validate_proposal` refuses
premises that are not asserted; without that check a claim verified under a mere presumption would be
applied as a fact. A turn is atomic because it runs in one thread on immutable values.

**LogicGridRules** — the rule catalogue as operators on a state: associations (`equal`,
`not_equal` between two items), category bijection (occupied rows, sole positions), order bounds, and completion of
any clue by trying the open item's rows. `absence_premise` gives the atom that explains why a candidate
is missing, and a rule that needs one does not fire without it. A clue is a direct relation or the set of assignments it
allows over its items. `LogicGridContract` is what `LogicGridSpec` validates and the proofs assume. **LogicGridEngine** gives the catalogue to HumanEngine as `find_applications`.

**Assistance** — the assistance service over a play session. `EvaluateMove` and `RequestHint` read the
session, ask the backends anew for every question and put the result in `answer`; the player goes on when the
answer is dismissed, so an answer is always about the session it was computed for (how answers age is
AttemptStore's subject). `Verdicts` relates every mark to the verdicts it may get, which `classify_atom` reads off, `Outcomes` all combinations over the
marks, `state_from_supported_marks` the state the rules run on. The service's two ways to raise on its own inputs (an
impossible state; no event for a mark) are the answer `Failed`.

**SoundNarrowing** — the abstract promise: remove candidates no solution uses, until a verdict;
"solved" only when everything is decided.

**EventStore** — both tables, the write lock, and each client's program counter. `append` is
`Begin`, `Check`, `InsertStream`, `InsertEvent`, `UpdateHead`, `Commit`, `Return`, with `Rollback`
where the code rolls back and `Crash` anywhere. The write transaction works on a copy (`work`)
that becomes visible at `Commit`. A read is `SelectRows` then `SelectHead`: two statements, no
transaction. `DamageRow`/`DamageHead` are changes behind the store's back, at most `MaxDamage`; a
damaged row either no longer parses (`representation`) or no longer matches its digest (`content`).
The digest is a parameter. Only `DuplicatesAreStored` needs it to tell events apart: two events with one digest must have one
identifier (`DigestAssumption`), which is what the store relies on when it compares hashes.

**PlaySession** — a session with its eleven actions. The tree of moves is `moves` (parent and
action of each), the cursor `head`; `project_marks` replays the path, which is a recursive function.
The fixed cells are the puzzle's givens, of which the module assumes what `_validate_givens` demands (`ValidGivens`). The
clues are the set `ClueModels` of assignments they accept. `append_outcome` is part of every
action, rejected ones included, because a rejected action is an event too.

**AttemptStore** — the stream row, the three logs, and readers that take four statements.
Writes are single steps here, since each one holds `BEGIN IMMEDIATE` from its first to its last statement;
the statement-by-statement study of that pattern is EventStore. Sessions and advice offered to
a write are arbitrary, hence as stale as they like; writers need no identity.

**ClueSemantics** — what an expression tree means to each reader: the human rules, the final checker,
the Z3 and the CP-SAT encoding, in both families. The operators take the reader as a parameter and
differ where the code does: the sign of a remainder, refused divisors, ordinals against row
positions. The models of the code are immutable, so an expression is made of expressions made before it:
`Expressions` is the list of all of them in that order (`IsExpression` says what each may be made of, as its class validates), and what the
code computes by recursion is a recursive function on them. An arithmetic fault (division by zero, an inexact quotient) makes the comparison around
it false, in every reader, and not the whole clue.

**LogicEquationsRules** — the six rules of the second family (a rule per technique, and
all-different) on what they see of a clue: its technique, its variables, its order, the assignments it
allows. **LogicEquationsEngine** gives them to HumanEngine; **LogicEquationsClues** derives the
clues and the backends' solutions from expressions, and **LogicEquationsReaders** joins the two: the loop runs on the clues as the rules read
them, its backends on the solutions of an encoding, and the final checker looks at what was solved. `ReadersAgree` says where they may differ: on a
clue with a `negative_modulus` under the assignment at hand, and nowhere else.

**MemoryProjections** — `streams` is what writers sealed; `rebuild_memory_projections` is a function of
the events handed to it. `seal_projection_event` asks for no more than the code: the payload's kind
fits the stream and an attempt begins with its start; so streams may hold events the rebuild refuses.
An event's digest is the pair of what it commits to. Totals are sums of functions, and an index is replayed event by event as a function
of how many have been read.

**Generation** — a lineage grows by `Record` (candidates with their assembly events, progress, terminal
events of any candidate) until `Decide` turns one candidate's evidence into a result. The decision
(`quarantine_reasons`, `rejection_reasons`), the validator of the result (`validate_terminal_shape`) and that of
the document around it (`validate_pair`) are translated apart from each other, as they are in the code.

**LogicGridBuilder** — `validate_draft` gives the levels of the messages a draft gets, `compile` the
specification, `validate_logic_grid_contract` what the specification validates of itself,
`Assessments` the outcomes of an assessment with or without proof. The engine inside the proof is its promise
(SolvedIsUnique): it stops short, or reports the only solution its backends know.
Templates, like expressions, are listed in the order they are made (`Templates`), and the expressions include what they compile to
(`CompiledAssumption`, a matter of how far the list goes). The author's edits are external: any draft of the right shape (`IsDraft`).

## 3. Runs

| Run | Instance | Checks |
|---|---|---|
| `branches` | two variables (3 and 2 values), root and two branches, five events; 245k states | consistency of every retained state; one open path; search confinement; implements ScopeStack, hence branches only narrow and parents are restored exactly |
| `engine` | three variables over 1..3, five clues (one per Logic Equations technique); guessing, presuming and contract-breaking rules beside the catalogue; one clue with a modulus by a negative number; two backends, one of them wrong at will; three steps; 3.6k states | solutions preserved; verified states valid; solved is unique; rules, encodings and checker agree but for that modulus; termination; implements SoundNarrowing |
| `logic_grid` | three rows, an anchor and two categories, seven clues (one per technique), givens of every kind; two correct backends, one with tables of at most 18 combinations; 21k states | each rule sound from its clue and premises; premises explain the claim; nothing the rules propose is refused, for its premises or by the backends, unless a table is too large, and then everything is; a stall leaves no clue unsatisfied by the candidates; the outcome does not depend on the order |
| `event_store` | two clients, two traces, nine events (a chain of three, rivals, a foreign revision, a reused identifier, a bad digest), one damage; 89k states | chains and heads agree; acknowledged is durable; append-only, and no more once damaged; reads are current; duplicate means stored; lock is released |
| `play` | two rows and three categories, the anchor and another fixed by givens, an excluded given, two checkpoint names, four modes, five events; 1.27M states | marks, checkpoints included, follow history; a session can be rebuilt (closed move graph, well-formed marks, fixed givens); conflicts current; completed is solved |
| `assistance` | three rows and three categories, a strict order clue and two solutions, one of two backends wrong at will, three player actions; 276k states | verdicts, hints and corrections true of every solution; no step beside a mark that is not right; suggestions playable; no failure |
| `attempt_store` | two event identifiers, two times, two items of advice, one reader; 147k states | record agrees with logs; one history: acknowledged sessions are prefixes of the stored one, and advice belongs to a session in it; facts distinct, before completion, and kept; reads are snapshots |
| `projections` | two attempts of one user, two novelty streams, an artifact stream, five events; 34k states | delivery is checked (delayed, repeated, altered and lost events at every place); learning counts once; indexes are the streams' last word |
| `generation` | two candidates, lineages of four events, of this and of another request, all evidence that differs from passing evidence in at most two places; 549k states | decision, result and document agree |
| `builder` | three categories with three items, every template, numbers that do not follow the order, drafts up to two edits away; 16k states | drafts without errors compile; ready means the author's one solution, read alike by rules, checker and encodings |
| `stale_read`, `fresh_hint` | as `event_store` and `attempt_store` | the first two disagreements of section 6 |

**Why the bounds are enough.** Five events open two nested branches, narrow or contradict the inner
one and close it; or close one and open its sibling. The third value of `x` lets elimination happen both with
and without an assertion. In the engine three steps reach the limit and a solution both, on
the open puzzle, on one further along, on one without solution, on one decided against its clue, and
on states prepare_problem refuses. Two clients suffice for the store's races, since the lock admits one
writer and a reader needs one rival; three chained events give a first, middle and last row. Five
play events fit: mark, checkpoint, undo, another mark, restore. The rules need three rows, where a sole position
differs from a decided item and an order has a middle. Three player actions put a wrong mark, undo it
and redo or replace it, which is what the lookup of a mark's event depends on; two solutions make some
marks neither right nor wrong. Five projection events give an artifact that is recorded, superseded and
loses its replacement, or two attempts that share a rule; every event is moved to every place,
repeated, altered and dropped, in each of these states. Two deviations in the evidence set a quarantine against a
rejection, which is where the order of the gates matters; three would say nothing a pair does not, and the theorem
covers the rest. Two edits make a draft wrong in two parts, or wrong and repaired. The engine's puzzle has
quotients that are inexact, negative remainders of a positive divisor and, in its fourth clue, a modulus whose divisor is negative in every solution: the rules
propose what does not hold in a solution of the encodings, and the checker refuses one solution the loop ends with and accepts another. In `logic_grid` the last
clue has 27 combinations on the open puzzle, above the limit of 18, and 18 or fewer once a given excludes a row of one of its items. The hint level is 6, which reveals
everything; lower levels reveal parts of the same record. `MaxDamage`, `MaxSequence`,
`MAX_PLAY_EVENTS`, `MaxTime`, `MaxAdvice`, `MaxEvents`, `MaxRevisions` are bounds of the instances, except that the
code itself has a `MAX_PLAY_EVENTS` (10,000), a `max_steps` and the builder's limits, which the instance makes small enough to be exceeded.

**Symmetry** is used where identifiers are only compared for equality (branch identifiers other
than the root, play event identifiers), and in no run with a liveness property. ScopeStack, which
`branches` is shown to implement, knows no branch identifiers, so the mapping is symmetric.

**Deadlock** is checked except in `branches` (the trace ends at `MaxSequence`) and
`play`, `assistance` (the code refuses every action at `MAX_PLAY_EVENTS`), `projections` (at `MaxEvents`),
`generation` (a decision ends it) and `builder` (at `MaxRevisions`).

**Fairness.** `HumanEngine!FairSpec`: the turn is weakly fair, because solve runs in one thread,
nothing in it blocks and every backend call has a timeout. `EventStore!FairSpec`: each client's
running call is weakly fair (a live process continues between two statements; SQLite
statements return or fail within the busy timeout). A crash is not fair, nor is starting a call.
`Terminates` and `LockReleased` rest on this; nothing else does.

## 4. Proofs

All theorems hold for every value of the constants that satisfies the named assumptions. What the assumptions on puzzles say is what
the validators of the specification demand (`GivensAssumption`, `RowsAssumption`, `CluesAssumption`, `EquationsAssumption`), that a
solution satisfies the clues (`CluesHoldAssumption`, `StartAssumption`, `ReadersAssumption`) and that at least one backend is correct
(`BackendsAssumption`); `GridTablesAssumption` and `EquationTablesAssumption` say that a table is over the variables of a clue. What those on data say is how it is made (`ExpressionsAssumption`, `TemplatesAssumption`, `PayloadsAssumption`). TLC evaluates every one of them on
the instances. Three theorems have a hypothesis of their own, stated in them and explained below: `CatalogueInUse`.

**BranchProjectionProofs.** The inductive invariant `Inv` is the conjunction of `TypeOK`, `Rooted`
(the root never goes away nor gets a parent), `ParentFrozen`, `StatesConsistent`, `OneOpenPath`, `LifecycleMatchesState` and `SearchConfined`. None
is inductive alone: a branch opens from the active branch's state, so consistency of the new state
needs consistency of that one; that closing returns to the right parent needs `OneOpenPath`, and
that the parent is still in the state the child was derived from needs `ParentFrozen`;
`SearchConfined` needs the branch method in the record. `Inv` gives
`TypeCorrect`, `StatesStayConsistent`, `OpenBranchesNest`, `LifecycleAgrees`, `SearchIsConfined`, and
the action properties `HistoryIsFixed`, `BranchesOnlyNarrow`; what of these no run checks (`TypeOK`, `LifecycleMatchesState`,
`ClosedNeverChanges`, `NarrowingOnly`) rests on the proof alone. The module begins with the lemmas on single operators
(what genesis, eliminate, assign, contradict and derive preserve).

`BranchesAreScopes` is the refinement of ScopeStack. The mapping follows parents recursively (`Path`), so the proof first shows that the
records determine the way to every branch (`RoutesAgree`: at the branch opened first among those where two ways differ, they do not), and
that a way exists (`RouteInv`, inductive: an opened branch continues the way to its parent, and nothing else changes one). Then an opening
appends a scope, a closing drops the last, and an elimination, assignment or contradiction replaces the last one, because a way
passes its end only there (`LeadsTo`).

**HumanEngineProofs.** From "at least one backend is correct", `VerifiedMeansEntailed` shows that a
verified claim is entailed by the state and the premises, and `AssertedPremises` that asserted premises
hold in every solution the state admits, so the claim is entailed by the state alone. `HInv` adds to the checked
invariants that after one verified step a solution is left, and that "solved" is only
said of a decided state. Together they give `SolutionsArePreserved`, `VerifiedStatesStayValid` (the code's
guard against invalid results is unreachable, although neither the proposal check nor the reducer
looks at all-different), `SolvedVerdictIsUnique`, and the refinement `EngineNarrowsSoundly`.

**LogicGridEngineProofs.** `CatalogueIsSound`: every application the five rules discover in a reachable state is entailed by
the state's candidates and the one clue or category it cites. The solve loop keeps states well typed; then each rule has a lemma. The sole
position is the one that needs counting: a category with as many items as rows, placed injectively, fills every
row (`FS_Injection` of the library), hence the item that alone can take a row does.

The invariant `GInv` adds that every missing candidate is explained by an asserted atom (`AbsencesExplained`). It holds at the start because only givens
take candidates away (`StartsAssumption`) and is kept because a conclusion asserts what it removes. It gives `PremisesAreComplete`: what a rule
cites explains its claim without the other candidates (order bounds excepted, section 5). Three theorems are about the loop with exactly this catalogue (`CatalogueInUse`: the
parameter `find_applications` of HumanEngine is the catalogue, as in the run). `CatalogueIsNeverRejected`: its proposals
pass `validate_proposal`, and correct backends verify them unless they time out, provided that all of them can encode the puzzle at its start (`Encodable`): a
narrower state has smaller tables (`NarrowerIsEncodable`), so that the limit, once kept, stays kept, which is why `GInv` has the current state within the initial
one. If they cannot, nothing is ever verified and the puzzle stays as it is (`TooLargeIsNotVerified`). `StallsAreConsistent`, again for puzzles that can be encoded: when the loop is
exhausted, every remaining candidate of a direct relation, or of a clue with one open item, belongs to an assignment the other candidates admit, and no
category has a sole position or an occupied row left to use; were it otherwise, a rule would have fired and been verified.

`OutcomeNeverDependsOnOrder` is confluence. The lemma it turns on: a proposal in a state never removes a candidate that a smaller, exhausted state (one with nothing left to propose) still
has, because there the same clue or category supports it (`ClueSparesExhausted`, `CategorySparesExhausted`). Hence the invariant `OrderInv`: whatever the policy has chosen,
every exhausted state within the initial one is within the current one. The outcome, where one fixed order ends, is such a state; so is a stalled loop's, which
by the same lemma is within the outcome; so the two have the same candidates. A puzzle above the table limit ends where it started, in any order. That the
fixed order ends at all is counted by the candidates left (`ChainNarrows`): each application removes one, or is not new.

**ClueSemanticsProofs** is about what clues mean. `EquationsCatalogueIsSound` does for the six rules of Logic Equations what `CatalogueIsSound` does for
Logic Grid: a bound excludes a value only when no candidate of the other end is in order with it, and a trial of the one open variable is the only
assignment its other variables leave.

The recursive functions on expressions and templates are opened in the same way each time. A function on the first *n* made exists, by
extending the one on the first *n - 1*; so the function the module defines exists, and its value at an expression is its body on the values of the parts
(the lemmas `...Exists` and `...Unfolds`). What is true of an expression when it is true of its parts is then true of all, by
`Upwards`: were it false of some, take the one made first. That is how an induction over data is done with this prover, which has no instance of
the library's induction theorems: a least counterexample, one formula at a time.

`ReadersAlwaysAgree` is about any clues. The readers' arithmetic differs only in remainders of and by negative divisors. A quotient is exact in one reading exactly when it is
in the other (`QuotientsAgree`, from `SameMultiples`); a modulus by a negative divisor is where they disagree: it has a value to rules and checker, and none to the encodings, although
no validator keeps a puzzle from having one (section 6). So the readers come in two pairs (`Twin`) that always give an expression one number (`NumbersAgree`) and one truth
(`TruthsAgree`), and the pairs agree on an expression that has no negative modulus in any part under the assignment (`NegativesOfParts` takes this to the
parts). Hence the encodings have the same solutions; a proposal holds in each of them unless the clue it cites has a negative modulus there; and the checker accepts what is solved
as far as the clues without one go.

`ReadyAlwaysMeansUnique` and `ValidDraftsAlwaysCompile` rest on one small invariant, `BuilderInv`: the draft is a draft, and the assessment is none or one the
code may compute for this very draft (a revision resets it). The rest is about one call. `FaultFree` lists what a draft without invalid or incomplete messages is like
(`FaultsAreReported`). For uniqueness, `TemplatesMean` shows by `Upwards` that a template and the expression it compiles to are
true of the same arrangements in each reading: items are compared by ordinal in two readers and by row in two, which agree because the anchor's ordinals are its
rows (`ArrangementsHaveRows`). So the arrangements the engine's backends know are the ones the author means. For compilation, `FaultFreeDraftsCompile`
goes through the contract of the specification conjunct by conjunct: ids are tuples of keys, which differ where keys do; numbers are on all of the anchor's items or none; and
an expression fits its specification if the template refers to declared items and to numbers only where there are some (`TemplatesFit`).

**SealedEventProofs** is about what is decided from sealed events. `AlwaysChained`: a stream is always the chain its writer made. From `Chained` alone follow the three properties of
the rebuild, for any number of streams, users and events:

* `DeliveryAlwaysChecked`. Splitting the delivered events by stream and ordering them by number depends on the set of events and on their number only
  (`OrderedAsListed`, `SplitIsStreams`), so moving one changes nothing. A repeated event makes the set smaller than the delivery; an altered one is not what its digest commits to; a lost
  one leaves a gap in the numbers, unless it is the last (section 5).
* `LearningAlwaysCountsOnce`. A total over the disjoint unions of attempts, kinds and users is the sum of the totals (`TotalOfDisjoint`), and evidence
  is counted by events, which differ between streams.
* `IndexesAlwaysLastWord`. The replay of a stream is a recursive function of the number of events read; that it shows the last word of
  each entry so far is shown up to the least number at which it would not (`NoveltyReplay`, `ArtifactReplay`).

`GatesAlwaysAgree` is the theorem on generation. A decision is never changed once made, so `GatesAgree` is inductive as it stands and the
argument is about one call: `UncertainIsQuarantined` (the reasons for quarantine are exactly the ways evidence may be
uncertain) and `AcceptedMeetsRequest` (evidence without reasons meets the request and the hard gates). Both go through the
enumerations the code declares, which is what the assumption on `Verifications` states.

**EventStoreProofs.** `StoreInv` records what the transaction has done at each program counter
(`Transaction`), that only the lock's holder is in one, and what a reader holds between its two
statements (`Reading`: a beginning of the stream). From it `ChainsStayIntact`, `StoredFactsLast`,
`HistoryOnlyGrows` (growth by one linked event, and none after damage) and `ReadsReturnTheStream`, for any number of clients,
traces and damages. `DuplicatesAreStored`: the store says "duplicate" on any violated key. The place of the event is still free, because the
insert comes after the check of the head, and a row of the same hash is the same event unless SHA-256 collides; so what was violated is the
identifier.

**AttemptStoreProofs.** The inductive invariant `AInv` is `RecordAgreesWithLogs` and `OneHistory` together with: nothing is logged before
the stream exists, and what a reader holds is the row of the logs as they were when it began (`ReadersHoldRows`). The derived
`updated_at` is a maximum over all logs, which is what makes the check `InTime` keep the logs in order: advice is
observed after the session it is about and before whatever follows it. From `AInv`: `RecordsAgree`, `HistoryIsOne`, `FactsAreSound` (first
observations are unique, and completion withdraws what is not before it), the action property `FactsStay` (appending to a log leaves first observations first), and
`SnapshotsAreRead`. That last one rests on the read's own check: the row holds the whole record, so a row equal to the one rebuilt from the
four parts determines the three logs, whatever was written in between. It is assumed that identifiers are finitely
many (`EventIdsAssumption`; the code bounds their length).

**AssistanceProofs.** First the session. The marks of a retained move are defined by recursion over its parents;
`ProjectionsAgree` and `ProjectionExtends` show that the moves determine them and that a new move changes no other's. The inductive invariant `SessionInv` says of every
retained move, not only the active one, that its marks are legal (no cell both assigned and excluded, fixed cells as given, in strict mode no
conflict) and explained by givens or by an action in the history; undo, redo and restore may go to any of them. It gives `MarksFollow`,
`SessionsAreWellFormed`, `ConflictsStayCurrent` and `CompletionMeansSolved`.

Then the advice. `AssistanceOnlyReads` shows that a service call is a stutter of the session, so `SessionInv` holds beside it. `AdviceInv` adds that the
answer on the table is good for the session as it is. The argument: a cross-verified atom holds in every solution, because one correct backend
took part; so a supported mark is right and a contradicted one wrong. The state rebuilt from right marks has the same solutions as the genesis
state and is reached by asserted atoms (`SupportedState`), hence is never impossible, and the catalogue, which is sound from any such state,
proposes true steps; their claims are open in that state, hence not on the grid, not a fixed cell, and in no conflict with marks that
are right. `AdviceHolds`, `StepsComeAfterCorrections`, `SuggestionsCanBePlayed` and `AssistanceNeverFails` follow.

**Only model-checked.** Every safety invariant and every safety action property that a passing run checks is stated by a theorem, and so are the refinements of
ScopeStack and SoundNarrowing. These stay with TLC:

* Liveness (`Terminates`, `LockReleased`), for which the prover has no rule about fairness (that the step limit holds is in
  `EngineInvariant`, that only the lock's holder is in a transaction in `StoreInvariant`), and with it everything about ENABLED.
* The properties of the two runs that TLC refutes.

## 5. Observations that are modelled and are not faults

* A contradicted root can neither be changed nor closed; a branch closed as "abandoned" may have been
  contradicted.
* A branch that is not a search branch, opened below a search branch, inherits what was found there;
  `SearchConfined` is stated with that inheritance.
* A state whose givens decide every variable is reported solved without verification, even against
  a clue; `SolvedIsUnique` therefore speaks of puzzles with a solution or at least one verified step.
* An order bound cites no premises: it follows from the candidates alone, whatever removed the others.
* Hints never suggest to mark an item whose other rows are all excluded: the rebuilt state has asserted the
  remaining row already. Following hints alone may end in `human_rules_exhausted` with an unfinished grid.
* A puzzle with a clue of more than 1,000,000 combinations of candidates (six rows and a cardinality clue on four associations, that is eight items, suffice) cannot be advanced at all: CP-SAT's refusal rejects
  every proposal, those included that would make the clue smaller, and the verdict is `human_rules_exhausted`. The documentation
  states the limit (`logic-grid-backend-encodings.md:33`), and a test asserts the refusal (`src/tests/families/logic_grid/test_backend_encodings.py:409`).
* The service always asks about a mark and its opposite; that both are verified quarantines the mark.
* The event store accepts any well-chained event, also one the reducer would refuse later.
* In deferred mode the conflicts shown by a check are cleared by a refused undo or redo. A puzzle whose
  givens alone conflict is outside `ConflictsAreCurrent`.
* A session at the event limit cannot be completed any more.
* A rebuild cannot notice that the last events of a stream are missing: a chain's beginning is a chain.
* An artifact may stay superseded by one that was removed later; two artifacts may supersede each other.
* The order and difference templates of the builder are not checked for items of one category or for an item
  compared with itself; such a clue compiles, and the proof decides.
* A generation lineage may carry terminal events of several candidates; only the last event is compared with the decision.
* A fact observed at the very time of completion is withdrawn ("at or after" in the documentation).

## 6. Disagreements between code and documentation

* `stale_read`: `read_stream` may raise an integrity error for an intact stream when an append commits between its
  two SELECTs (`memory/sqlite_store.py:196`, `:256`). The four-SELECT read of the attempt store has the same shape;
  there `ReadsAreSnapshots` shows that what it returns is right.
* `fresh_hint`: `record_hint_result` fails on an attempt without play events
  (`families/logic_grid/sqlite_attempt_store.py:418`).

Met while modelling, without a run of their own:

* `verify_stream` loads all rows before it verifies the chain, so a row that no longer parses is reported as
  the first invalid one even when an earlier row fails its digest (`memory/sqlite_store.py:316`), against
  `src/docs/architecture/event-protocol-and-store.md:26`.
* `request_hint` evaluates a contradicted mark a second time and does not look at the result's status; the correction it
  demands may carry an inconclusive evaluation (`families/logic_grid/assistance.py:887`, against
  `logic-grid-assistance.md:23`). `AdviceIsTrue` shows that the mark is wrong all the same.
* A modulus with a negative divisor has a value to the rules and the checker of Logic Equations
  (`families/logic_equations/rules.py:234`, `checker.py`) and none to both encodings; `logic-equations-backend-encodings.md:22` says
  "Modulo requires a positive divisor". `modulo` in ClueSemantics has both readings, and the instance of `engine` shows what follows: a rule's proposal is refused that the clue, as the rules read
  it, implies; and a puzzle is called solved whose solution the family's own checker refuses. `ReadersAgree` shows that nothing else sets the readers apart.
* An acceptance whose evidence has no identifiers, and a decision whose lineage does not end with it, raise instead of being
  quarantined; `generator-foundation.md:39` lists "incomplete evidence" as quarantined. `GatesAgree` states exactly when a decision raises.
* Two attempt streams with one attempt id would make the bundle depend on the order of enumeration, which
  `event-sourced-memory-projections.md:42` leaves free. Streams made by the program have ids derived from the attempt
  (`families/logic_grid/attempts.py:446`), which is an assumption of MemoryProjections.

## 7. Not modelled

* **Structured I/O** (`structured_io.py`): conversion between puzzles and JSON documents; it keeps no state and its faults would be in
  the wording of fields, which the models leave out.
* **The builder's texts and previews**: messages have a level in the model and no wording.
* **Digests and canonical JSON**: represented by what they commit to.
* **Trace documents, hypergraph, reports, schemas, golden puzzles**: pure renderings and fixtures.
* **verify_stream's report**: changes no state; its one disagreement is in section 6.
* **Snapshots**: no code resumes from one.
* **Agents**: one remote call between two checks of text; its output has no authority over any state modelled here.
* **The CLI**: prints one solve.
* `database is locked` before `BEGIN`: the call fails and nothing has happened.

## 8. Plan

Modelled: every component above except those of section 7. Proved: every safety property the passing runs check. What is left, in the order of its worth:

1. A theorem on liveness, once the prover has rules for fairness: the measure for `Terminates` is the step counter with the candidates not yet tried, for
   `LockReleased` the program counter of the lock's holder.
2. The agent guardrails, if their outputs ever gain authority.
