# nullpii in TLA+

Models, model checks and proofs of [nullpii](../src/README.md): a library that
replaces personal data in text by placeholders and puts it back, a gateway
that serves it to other programs, a mod for Claude Code that uses the
gateway as a sidecar, and the evaluation that generates corpora and compares
tools on them. Paths below are relative to `src/`, `sidecar.ts` is
`packages/gateway/src/routes/sidecar.ts`, `register.ts` is
`packages/claude-code-mod/hooks/register.ts`, `bench_full.py` is
`packages/eval/scripts/bench_full.py`.

## The system

| Component | State | Operations | Interacts with | What is hard | What makes it correct |
|---|---|---|---|---|---|
| **Vault** (`src/vault.ts`) | per session: placeholder → value, label → next index, label and value → placeholder | create, sanitize, restore, destroy, clear | called by the engine | merging spans; counters over long sequences of calls; sessions that come and go | every output goes back to its text; a placeholder has one meaning for ever; what was masked once stays masked |
| **Engine** (`src/nullpii.ts`, `src/backend/backend.ts`) | init promise, calls in flight, disposed flag, ONNX session, policy | sanitize, restore, warmup, updatePolicy, dispose | model cache, vault | policy read before and after awaits; failed init and load tried again; dispose against everything that runs | no mix of policies shows what they all hide; no session released in use or loaded after dispose |
| **Sidecar sessions** (`sidecar-sessions.ts`) | key → vault, cache, secret, last use | open, use, close, sweep, closeAll | engine, routes | expiry with and without a request, ownership, a full table | a session's values are its owner's and leave with it; none in use is evicted |
| **Sidecar routes** (`sidecar.ts`) | closing flag | policy, sessions, sanitize, restore, shutdown | all of the gateway, the mod | sanitize awaits while policy, sessions and process change | 412 instead of a mix; nothing in use lost to a shutdown |
| **Sanitize cache** (`sanitize-cache.ts`) | answers by digest, in order of use | get, set, clear | sanitize route | changes of the policy while an answer is made, values learned after it was cached | a cached answer hides what a fresh one would |
| **Live policy** (`live-policy.ts`) | policy, version, generation, tools, the file | replace | engine, routes | ABA of versions, a crash around the write | a change is seen by every later request at once |
| **Start and stop** (`startup.ts`, `server.ts`, `bin/nullpii-gateway.mjs`) | phase of the warmup | report, failed, signal, close | engine, shutdown route | requests during the start, shutdown during the start | every accepted shutdown ends the process, no refused one does |
| **JSON walk and Messages walks** (`sanitizer.ts`, `openai-sanitizer.ts`) | accumulators of one call | sanitize and restore a body | engine | parallel leaves, one of several failing | no string is left out, tool input of a shell is never restored |
| **Relays** (`sse-relay.ts`, `openai-sse-relay.ts`, `sse-frames.ts`) | open blocks, held text, restore streams | frame, end | restore stream | shards of interleaved blocks, early end | the client gets what the whole reply restores to |
| **Restore stream** (`src/restore-stream.ts`) | the buffer | push, end | vault | placeholders across chunks, the cap | same |
| **Model cache** (`src/hf-hub.ts`, `src/model-manager.ts`) | files and digest files on disk | ensure, download | hub | two processes, crash between rename and digest, timeouts and retries | an unverified file is never loaded |
| **Mod: sessions and calls** (`register.ts`) | session, pause, Allow all, the questions in line | open, sanitize, restore, ask, pause | sidecar, Claude Code's hooks, the user's answers | calls side by side, dialogs answered in another session, a sidecar that forgot its values | real values leave on the person's word for just these |
| **Mod: policy** (`register.ts`, `categories.ts`) | the policy accepted, also over restarts; the review in flight | review, settle, put back, change | sidecar, other sessions' mods, the user's answers | 412 in the middle of calls, changes that cross a command or an answer | nothing masked under a policy the user has not seen, nothing undone silently |
| **Mod: start** (`register.ts`) | the start under way, its phase, what it replaced, whether it passes | find, replace, start, wait, restart | sidecar's shutdown and status, other windows | a loss found by several calls, children that exit late, sessions that begin during a start | nothing goes out unprotected but on the person's word |
| Detection (`normalize.ts`, `gliner-decoder.ts`, `chunking.ts`, `segments.ts`, `recognizers.ts`, …) | none | pure functions | engine | windows, offsets | every position is seen by a window |
| **Trace corpora** (`eval/scripts/r2/traces_v2_gen.py`, `r3/traces_v3_gen`) | the document being built, its spans, the attempts on it | plan, draw, emit turns and sections, check, draw again | templates, styles | modes that forbid gold on every path of every template, offsets through two layouts, shares rounded against ratios | gold follows the mode, spans name their text, a planned corpus passes its own checks |
| **Bench** (`bench_full.py`, `eval/src/nullpii_eval`) | checkpoints, `.state`, `matrix.json`, the lock, a worker for each tool | start, load, resume, predict, flush, mark, score, record | loaders, tool adapters | kills between two writes, resumed runs under another cap, one tool of several failing | a cell that reads OK was scored on its own samples |
| Tool adapters, report sets, configuration, CLI, logs, docs | none over time | | | | |

`PROJECT.json` has the same list with the modules of each part, and the hazards
at their lines.

## Modules

| Module | What it is |
|---|---|
| `VaultText` | Texts, spans, whole words: what the vault and its promise are both stated in |
| `Vault` | `vault.ts`: one action per operation, the pure helpers as operators |
| `VaultPromise` | The abstract specification: placeholders mean values, a call hides what the detector found and what the session knew and nothing else; no counters, no merging |
| `VaultProperties` | The vault's invariants, its action property, and the refinement `KeepsPromise` |
| `RestoreStream` | `restore-stream.ts`: `push` and `end` over every chunking, with its properties |
| `MCVault`, `MCVaultStream` | Six requests over three characters; the same beside a stream |
| `VaultProofs` | TLAPS proofs of all the vault's invariants and of the refinement |
| `RestoreProofs` | TLAPS proof that a stream restores what the whole text restores to |
| `Sidecar` | `sidecar.ts` with `sidecar-sessions.ts`, `sanitize-cache.ts`, `live-policy.ts`, `startup.ts`, and the engine as far as it reads the policy and the vault around its awaits |
| `SidecarProperties` | The sidecar's invariants, action properties and liveness |
| `MCSidecar` | Values, texts and policies for TLC |
| `SidecarProofs` | TLAPS proofs of all the sidecar's invariants and action properties |
| `Engine`, `EngineProperties` | The life of the model in `nullpii.ts` and `backend.ts`: initialisation, loads, calls, warmup, dispose |
| `ModelCache`, `ModelCacheProperties` | `ensure()` of `model-manager.ts` and the downloads of `hf-hub.ts`, by processes that share a directory |
| `MCModel` | The engine and the cache for TLC, each behaviour of one of them |
| `ModelProofs` | TLAPS proofs of the engine's three invariants and of what the cache promises |
| `ModStart` | A window of the mod and its sidecar: sessions, starts, replacements, losses, and what is sent meanwhile |
| `ModPolicy` | The policy between the mod and the sidecar: reviews, questions, commands, changes made elsewhere |
| `ModQuestions` | The questions before values leave by tool calls, and the pause |
| `MCMod` | The three for TLC, each behaviour of one of them |
| `ModProofs` | TLAPS proofs of what the mod promises: the start's, the policy's, the questions' |
| `TraceLabels` | The fourteen gold categories |
| `TraceTemplates` | The 81 templates of traces-v3, turn by turn |
| `TracesV3` | Plan, modes, styles and the building of one document |
| `TraceSkeletons` | The 57 skeletons of traces-v2 |
| `TracesV2` | Slots, short and long documents, checks and redraws |
| `TraceText` | The offsets: spans of appended text, and segments rendered in a style |
| `TraceCorporaProperties`, `MCTraceCorpora` | Their properties; one run over the three machines |
| `TraceCorporaProofs` | TLAPS proofs of all four: plans, modes and calls for every corpus size, the bound of long documents, the offsets of documents of any text |
| `BenchLoaders` | Which rows each loader of `public_datasets.py` and of the bench gives for a cap |
| `BenchRun` | `bench_full.py`: runs, workers, checkpoints, kills |
| `Scoring` | The greedy matching of `metrics.py` and of `_confusion`, on spans that may overlap |
| `BenchProperties`, `MCBench` | Their properties; two tools, two processes |
| `BenchProofs` | TLAPS proofs of the bench's three invariants, and of what they need of the loaders |
| `Recursion` | Lemmas: induction over the naturals and recursion along a list, for the proofs about corpora and loaders |

Which composes which: `VaultProperties` instantiates `VaultPromise` under a
refinement mapping; `MCVaultStream`, `MCModel`, `MCMod`, `MCTraceCorpora` and `MCBench` put machines that
share no state side by side, each behaviour running one of them (`way`, `part`, `machine`), so that
one run answers for all. `Sidecar` has in it the part of the vault and of the engine that its
handlers interleave with; `Engine` and `ModelCache` are kept apart, since an
initialisation only waits for what `ensure()` gives it: fetched or failed. The mod is in
three parts that touch in one place each: `ModStart` opens a session and lets its review
end well or not, which `ModPolicy` tells in full; `ModQuestions` lets the sidecar forget
its values, which is what a restart in `ModStart` does.

### How the vault corresponds to the code

`entries`, `counters` and `byValue` are the three maps of `Session`
(`src/vault.ts:18-28`). JavaScript runs one call to its end, so each call is
one action, and `Sanitize` is the whole of `sanitize`: the known-value pass
(`KnownSpans`), the clamp, the merge (`Runs` gives the ranges a left-to-right
fold of the sorted spans leaves, `MergedLabel` the label the fold keeps) and
the allocation (`Minting` ... `Counted`). Instead of a string with placeholders
in it, an output is the text and its `cover`: which ranges were replaced by
which placeholder; `RestoreOf` is what `restore` does with one placeholder.
A placeholder carries its session instead of the sixteen hexadecimal digits of
its id, so two sessions with one prefix do not exist here. The strict mode and the
counts in the results are left out; so is the escaping of `[[` before the call.

### How the sidecar corresponds to the code

A handler runs to its next await as one action. Only the sanitize route
awaits, so it is four kinds of step: `SanitizeHit` or `SanitizeStart` to the
await, `BeginLeaf` when a detection reads the policy (`nullpii.ts:518-523`),
`EndLeaf` when it reads it again (`finalSpans`) and masks into the vault in the same turn,
`AnswerSanitize` when the last leaf ends and the handler goes on. `FailLeaf` is
a leaf that throws, with its siblings running on (`sanitizer.ts:609`), `Abandon`
an object's walk that ends there.

- A leaf is one detection: the values found by the model or the recognizers, and those in
  the text that are missed. A text is a set of leaves. They may begin in any
  order; an array's do, an object's go one after the other, which is one of the orders here.
- A policy is the set of labels it masks and is its own version: the
  version in the code is a digest of the contents. Thresholds, the URL list and
  the list of restore tools are not told apart; the tool of a restore is one of
  three kinds.
- A secret is named by the vault it was made with; only the caller
  it was given to can present it. All `Callers` hold the bearer token; the checks of token, host and origin,
  and the refusals of malformed requests (400), change no state and are left out.
- Idle time is counted per session in ticks up to `Ttl`, in place of a clock.
- The bound of the cache on entries stands for both of its bounds. A single
  answer is never over the bound on characters: the response limit is below it.
- Every value is long enough for the known-value pass; `Vault` has its details.
- `reply`, `submitted`, `opener`, and `seen` and `knew` of a request are
  history the properties are stated with; no guard reads them, but for a secret
  (`opener`) and an id (used once).
- Fastify's close is external: it takes no request any more, waits for those
  that run, then runs `onClose` (`Stop`).

### How the restore stream corresponds to the code

A character is a brace or the whole body of a placeholder, of this session or a
foreign one, so that a placeholder is five characters and any of them can be
the last of a chunk. `Restored` says of each place of the output which character of the text it comes from, instead
of folding over the text. `SafeBoundary` is `findSafeBoundary` with the cap, `Push` and `End`
are the methods of those names in the lenient mode (the strict one throws at the
first anomaly). The counts a stream keeps are those of its texts; the doc of `end()`
says it resets the state, but the totals stay, and nothing reads them after. When an unclosed run passes
the cap, `SafeBoundary` gives the whole buffer (`restore-stream.ts:103`), a `{` at its end included,
though line 31 says that no such prefix is returned.

### How the engine corresponds to the code

A promise that several callers wait for is a number: `initPromise` and
`sessionLoad` hold the one the field holds, 0 for null, and `inits` and `loads` say
how each stands. A caller is its stage and the promise, or the session, it is at.
`Settles` is the runtime: downloads and loads that end well or not, with the
fallback from an accelerator to the CPU. `Dispose` marks the engine at once and
takes a snapshot of what it waits for; `Release`, `ReleaseBegins`, `ReleaseEnds` and `Clear` are the steps
between its awaits. A second `dispose()` may return before the
first one's release ended, for the load is taken: `NothingAfterDispose` speaks of
the time when no disposer still holds one.

### How the model cache corresponds to the code

A file's bytes are `Pinned`, `Others`, `Cut` or absent; a sidecar names a hash,
and reads as `Cut` while it is being rewritten. `ReadSidecar` and `Hash`
are two steps of `verifiedSha`, another process may act between them; `Move`,
`EmptySidecar` and `WriteSidecar` the three of a download's end, a process may be
killed between any two (`Stop`). `MoveFails` and `SidecarFails` are a rename and a digest write that fail, after which the next candidate
is tried or the call rejected. `Got`, `Missed` and `NotCached` are the control of `ensure` and
`pickOnnx`: shared files, a look at each candidate, then fetching them in turn. `Conditions` is what
earlier runs can leave of a file. Models without pins are trusted as they come, and left out, and so are
the progress events.

### How the mod corresponds to the code

A hook runs to its next await as one step. Who waits for a promise goes on before any
other event once it is settled (`Quiet` in `ModStart`, since a resolved promise's continuation
is a microtask); a request and its answer are two steps wherever the mod can act between
them to an effect.

- **`ModStart`**. `mod` holds the module's variables that decide what is sent; `problem` is
  the band's line as far as it is tested: none, a start's (`STARTING_PREFIX`), or another.
  `waiter` has one `waitForSidecar` for each start, since two may run at once (a session that begins
  during a start begins another); `kind` is what began it: a session, a replacement by this window,
  or a loss. `call` is a prompt, an attachment or a tool call and where it awaits: the dialog (`asked`), the
  hold, `untilRestarted`, a session, an answer, the tool. The sidecar is what its status and routes tell: up or
  closing, how its warmup stands, its release, who has a session on it. Processes that were
  spawned listen or end in any order, and the end of one counts for the start that
  is under way when it is heard of, as in `startSidecar`. `PromptsWait` says whether Claude Code holds prompts back
  while `session.start` runs, which the mod's code does not decide: `mod` checks the weaker
  case, FALSE, and the violation below needs no such prompt. `out` and `chosen` are history.
- **`ModPolicy`**. A policy is the set of its readable categories, and its own version, as the
  version is a digest. `review` is the one review every refused call shares; `stored` is what
  `$.store` keeps, which other sessions' mods write too. `seen` is history: policies the
  user made, kept, or started from. A category is masked or off; the third mode,
  `ask`, takes the same steps.
- **`ModQuestions`**. `line` is the chain of `clearQuestions`; `put` the generation the first
  question was put in. `shows` is what a question lists and `out` what the call takes with it:
  the tool gets what was looked up and listed, whatever the sidecar learned or lost
  since. A tool is one that values are held from or one they are restored for.

Left out of all three: the text of dialogs and screens, counts and the padlock, the taking over of
a session key another client holds (409), token and address, the check of a typed prompt
by `confirmed`, presets, and the keys of a policy besides its categories. `session.end` is one of the
events by which a session ends on the sidecar (`OthersDo`). Pausing is in `ModQuestions` only:
what it lets out is said by the person in a dialog of its own.

Seen while modelling, beside the finding: "until ready", answered in a second session's dialog while
the start of the first one is still running, passes in the next start too, if that one begins before a
sidecar is up: `startPass` is reset by a session, by a loss and by a start that came up, not by
`beginStart` (register.ts:739). The comment at register.ts:427 says the answer holds for one
start only; `OnlyOnTheirWord` asks that it was said in this session.

### How the trace corpora correspond to the code

traces-v3: a template is a sequence of steps, a step the set of ways it can go,
a way a run of turns open in some modes, and a turn says who speaks and which gold
categories it places always or sometimes. `Choose` takes a way, `UserTurn` and its
siblings emit a turn in the template's style, which may add gold of its
own (`HeaderGold`, `TurnGold`) and keep the call id (`CallStyle`). The 81
templates were compared, turn by turn, with traces of the generator over
several hundred seeds and languages. `End` (with `BreaksMode`) and `Check` are the checks
that make a document be drawn again or a build raise.

traces-v2: a skeleton keeps its kind, how often its loop runs at least and what it plants;
a document grows by blocks and sections to its target (`Iterate`, `Section`), `Validate` has it drawn
again. Lengths are in hundreds of
characters, rounded up, so a bound of a length is met to within a block.

`TraceText` is the text algebra of both, over texts of letters, line
breaks, blanks, the mark of a style and an escape: `Extended` is `Doc.extend`, the shown
segments what each style makes of a turn's. `TagsSurvive` says of them where each tagged segment
went (`Survive`, by a map of places) and what of its characters is still there (`Within`). The words, the values and their
formats are left out.

### How the bench corresponds to the code

`BenchLoaders` states for each loader how many rows it fetches for a cap, which
it skips, on which it raises, and for which the seeded generator draws a value; a sample is the
row it was made of and the number of draws before it, so equal samples have equal texts and
gold (`Numbered` gives equal ones one number). `ReadFile` reads the rows fetched of one file, `ReadFiles` goes from file to
file with the samples and the generator as they are, `Load` cuts to the cap. `BenchRun` has one worker for each tool (`run_combo` in its thread): rows go to a
buffered file, `Flush` and `Mark` are the two writes a kill may come between, `Record` and
`WriteMatrix` the main thread's, the matrix being torn between them; `Kill` leaves any part of a buffer on disk, the last
line perhaps cut. Predictors are external: each gives one
prediction for each text, or raises. confusion.json, the CSV and the building of the tools are left
out. A checkpoint is named by tool and dataset only: a run with another threshold or another tool
configuration resumes it, which the model does not tell apart. `Scoring` takes one document
at a time: `free` is what `evaluate` has not matched yet, `open` the same of `_confusion`.
Spans of one side may overlap, with one label too: `adapters_presidio.py:340` maps several types of the
analyzer to one label and returns all it found, `adapters.py:585` drops only near-duplicates, `adapters.py:680`
keeps overlaps, and `bench_full.py:561` reads nested entities.

What the model made visible besides the finding: a kill while `matrix.json` is
rewritten makes every later run stop at `json.loads` (`Torn` in `Start`), before it takes the lock, so `RunsEnd`
says nothing of it and no other property does: no text of the repository promises otherwise; a run
resumed with a smaller cap records CRASHED, as the rows kept are more than its
samples. All loaders but `ai4privacy_300k_report` (a stride) and `thestack` (two files, the first of
which may run out at the prefetch) give the same first samples under every cap; only the first of these is in
the bench's registry. And scoring: with predictions [0,4] and [2,5] and gold [0,2] and [2,4], all of one label, `evaluate`
gives the first prediction the later of two equals, which was the only one for the second, and counts one
true positive where `_confusion`, which takes the first, counts two. How much such ties can cost is what
`GreedyLosesOnlyTies` bounds.

## What is checked

Runs of TLC, with `CHECK_DEADLOCK FALSE` as all of these systems may stop (ids run
out, the process ends, a run is over).

| Run | Bounds | Shows |
|---|---|---|
| `vault` | 2 ids, 6 requests, states with up to 4 outputs expanded; `MinKnown` 2 so that a value of one character is too short. Or a stream: 8 characters in chunks of up to 3, the cap at 4 | `TypeOK`, `Consistent`; `RoundTrip`; `Unambiguous` over sessions and time; `OneTokenPerLabel`; `ReadingOrder`; `KeepsPromise`; `RestoresTheWhole` |
| `vault_one_token` | the vault alone | a violation, see the findings |
| `sidecar_policy` | 1 session, 1 slot, two policies, two changes (so ABA), two texts of which one has two leaves, a cache of one answer, so that the second evicts the first | `NamedPolicyHolds`, `HiddenByAllIsHidden`, `RunsHideTheKnown`, `AnswersMatchPolicy`, `TypeOK` |
| `sidecar_sessions` | 2 callers, 3 keys and 3 vaults in a table of 2, TTL of 2 ticks, 1 slot, a text of one leaf; callers, keys and vaults are symmetric | `VaultsFollowSessions`, `OwnValuesOnly`, `ShutdownLosesNothing`, `ExpiredStayExpired`, `NeverEvicted` |
| `sidecar_progress` | 1 session, 2 vaults, 1 slot, a text of two leaves whose answer is too large; no symmetry | `Answered`, `ExpiredAreForgotten`, `ClosingEnds` |
| `sidecar_known` | 1 session, 2 texts | a violation, see the findings |
| `model` | 2 calls, 1 warmup, 2 disposers; 2 initialisations and 2 loads, of which the first may fail. Or 2 processes started 3 times, 1 shared file, 3 candidates (one of them unpinned), 2 attempts; every condition of every file, but bad bytes from an earlier run only of one graph | `NoReleaseUnderUse`, `OneSession`, `NothingAfterDispose`, `EverythingSettles`; `UsedIsPinned`, `GoodCopiesStay`, `EnsureEnds` |
| `mod` | a prompt or call at a time, 2 starts, 1 event (another session, a loss, an act of another window); or 2 categories, 1 request, 1 command, 2 changes made elsewhere; or 2 tool calls, 2 placeholders, 2 sessions. Placeholders and categories, and tool calls, are symmetric | `OnlyOnTheirWord`; `MaskedAsAccepted`, `NothingSilentlyUndone`; `ReleasedOnTheirWord` |
| `mod_replaced_start` | the same, with prompts that wait for `session.start` | a violation, see the findings |
| `trace_corpora` | all 81 templates and 57 skeletons, corpora of 60, 99, 150, 600 and 1200 documents, 2 attempts; blocks of 1, 8 and 25 hundred characters; texts of 2 values and a few separators | `GoldFollowsMode`, `PlansPassTheirChecks`, `LongDocumentFits`, `DocumentsHoldTogether` (spans, tagged values, calls and their outputs) |
| `bench` | 2 processes, 3 starts, 1 kill; a tool in batches of 2 and one of 1, flushed every 2 rows; caps 2 and 3; sets of 5 rows whose second is any odd kind, under every loader of the registries but the report's and `thestack`; matching: 4 characters, 2 spans a side, any of one label and those of length 2 of another, overlapping or not | `OkMeansScored`, `CheckpointMatchesCell`, `GreedyLosesOnlyTies`, `RunsEnd` |
| `bench_report` | the same, with the report loader | a violation, see the findings |

Why these bounds: two sessions are enough for one to be confused with
another, a request needs two leaves to be masked under two policies and two
changes to end under the policy it began with; three keys and vaults in a table of two fill it and let a
key change hands while a request runs (with a text of one leaf only, for time: siblings that run on after a failure are in `sidecar_progress`, and that they stay their caller's is the theorem `NoOneReadsAnothers`). `MaxChanges` bounds the counter of policy changes,
`MaxOutputs` the history of the vault. An engine needs two calls to share a load and two
disposers to fight for it; a cache two processes and one restart to find what a kill left, and a candidate that
is not pinned. A checkpoint needs a cap below and one above what was marked, and three
starts to resume what a resumed run left. A window needs one event after its first
start to lose a sidecar, to begin a session during a start or to meet another window, and one event allows for
two starts (a third cannot be reached); two categories are enough for a change to
undo another's, two outside changes for one to cross the answer about the first; two calls and
two sessions for an answer to come in the wrong one. With two events TLC has gone through 22 million states
of `ModStart` without a violation, which is not all of them. The proofs below hold for every value of the
bounds of the modules they are about.

Each property of each passing run has a mutant in `PROJECT.json`: an operator
named in its comment as one (`Mutant: ...`) that changes one definition as a bug
might, and with which TLC finds the property violated.

### Fairness

Of the sidecar `FairSpec` assumes what the runtime does without being asked. A request that
was let in goes on (`WF` of `FlightStep`): promises settle, downloads and
inference have time limits or end. The warmup goes on or fails. The interval's
sweep fires (`sidecar.ts:271`; its timer is `unref`ed, which matters only to a
process with nothing else to do). An accepted shutdown is followed by the signal
(`setImmediate`), the signal by the stop. Nothing is assumed of callers, nor of
signals from outside, nor of the clock: `ExpiredAreForgotten` speaks of sessions
that did expire. `Close`, `Tick` and policy changes need not happen.

Of the engine (`FairEngine`): every await ends, weakly fair for what the runtime
settles and for each caller's next step; `Mask` is strongly fair, since a
call alternates between windows and detection, and a text has finitely many. Of the
cache (`FairCache`): a process goes on while it lives, a download ends by its
timeout; that a process is killed is never assumed. Of a bench run: each process goes on (`GoesOn`),
starts and kills are not assumed. Nothing is assumed of the mod or of the corpora, where no
property is about progress.

### Findings

- **One value, two placeholders** (`vault_one_token`). README.md:81 says one
  value always gets the same placeholder in a session. The vault keys values on
  label and text, so under two labels it gets two; a test
  (`test/vault.test.ts:102`) wants it so. `OneTokenPerLabel` is what holds.
- **A cached answer shows what is known** (`sidecar_known`). README.md:82 says
  that what a session masked once it masks again in every later call, and
  `sanitize-cache.ts:15` that a cached answer is what a new run would give. A text
  in which the detector missed a value, sent before and again after the session
  learned the value from another text, is answered from the cache, value
  shown. `RunsHideTheKnown` is what holds: requests that are not answered from the cache
  do hide it.
- **Resumed under another cap** (`bench_report`). `_ai4privacy_report` takes rows at a
  stride of the rows by the cap (bench_full.py:359), and predictions are resumed by
  position (bench_full.py:755): a run resumed under another cap scores predictions made
  for other samples, and its cell reads OK. bench_full.py:11 promises that a re-run picks up from `.state`.
- **A replacement that does not wait** (`mod_replaced_start`). README.md:134 of
  `packages/claude-code-mod` says that a start that follows this window's own replacement of an
  older sidecar waits under `pass` too. `session.start` resets `startReplacedOne`
  (register.ts:2243) also while such a start runs: when the window's next session begins meanwhile, the start's next
  poll puts its phase line back on the band (register.ts:991), and a prompt is sent
  unprotected.

## What is proved

With TLAPS, for any number of sessions, callers, requests, labels, policies,
texts, processes, files and rows, from the named assumptions on the constants of each module only. The theorems about
the bench's cells have a hypothesis besides, which their section below explains and which is proved for the
loaders of the code. Every invariant and every action property of a passing run is a theorem.

**`VaultProofs`**: `TypeCorrect`, `AlwaysConsistent`, `RestoresExactly`,
`NeverAmbiguous`, `OneTokenForAll`, `IndicesFollowTheText`, and the refinement `VaultKeepsItsPromise`.
`TypeOK /\ Consistent` is inductive:
`RoundTrip` is not, since it says nothing of the counters, and a counter that
fell behind would mint a placeholder that has a meaning already. Above the
invariant stand two lemmas on pure operators: the runs of a merge are apart and
lie in the text (`MergedIsSpanSet`), and the placeholders minted in one call are
new and distinct (`MintedFacts`, from `FewerElements`: counting the smaller
starts gives every minted span of one label its own index). `RestoresExactly`
follows from `Consistent` in each state; `NeverAmbiguous` needs a step
more, as it speaks of sessions that are gone: a placeholder names its session and
its session never comes back. `VaultKeepsItsPromise` maps each step to one of
`VaultPromise` or to a stutter: the merged runs cover the characters of what was detected or known and
no others, and each placeholder of the call means the value under it. `IndicesFollowTheText` is about one
call: the first places at which new values stand have growing indices. An earlier `ReadingOrder`, which asked
that of all places, was false (the text X Y X), though no request of the run showed it: the attempt to
prove it did, and `MCVault` now has such a request (`Repeated`).

**`RestoreProofs`**: `StreamRestoresTheWhole`, for any chunks and bodies, and any cap with room for a placeholder. `InvStream`: the
stream has told what restoring a part of the text gives, the buffer is the rest, and, unless it gave up, no placeholder
ever lies across the place between them, whatever is still to come (`Clean`). `BoundaryIsClean` shows this of `findSafeBoundary`: an opening that
is not closed is held back, and so is a brace that may be half of one. Over a clean cut
the restored halves join to the restored whole, as do their counts (`EmitJoins`).

**`SidecarProofs`**: `TypeCorrect`, `NoVaultOutlivesItsSession`,
`NamedPolicyIsKept`, `ChangesShowNothing`, `KnownIsHiddenByRuns`,
`NoOneReadsAnothers`, `AnswersAlwaysMatchPolicy`, `NothingIsLostToShutdown`, and of the
steps `NoOneRevivesTheExpired` and `NoOneLosesASession`. The
inductive invariant `IInv` has four parts. `StoresOK`: the tables agree and
each cached answer hides what its version detects. `FlightsOK`: each running
request belongs to the caller its vault was opened by, has read
only policies in its `seen`, has hidden in each masked leaf what all of them hide
and what it knew, and has read one policy if no change crossed it. `ReplyOK`:
the properties of the last answer. `PhasesOK`: the rest. `NamedPolicyHolds` is not inductive without the
second part (the answer is made of leaves masked earlier) nor without the first (a hit).
The lemmas `Retaining`, `FlightsStay` and `FlightsMove` say once what dropping sessions
and moving one request keep, so that each action has a short lemma. The two
action properties rest on the invariant and on `StepMoves`, which lists all that a
step may do to the session table: nothing, a sweep, a sweep that makes one live
session fresh, a new session under a key that has none, a close by the owner, a
tick, the end.

**`ModelProofs`**, the engine: `NothingIsReleasedUnderUse`, `TheModelIsLoadedOnce`,
`NothingIsLeftAfterDispose`, for any number of calls, warmups, disposers,
initialisations and loads. None is inductive: `EngineInv` (proved by
`EngineAlways`) adds that a caller waits for a promise that exists, that a disposer's
snapshot has every call that runs, since none begins once `disposed` is set
(`CallsOK`, `DisposersOK`), and that every load but the one `sessionLoad` names, or a disposer took, has
failed or been released (`LoadsOK`).

The cache: `WhatIsUsedIsPinned` and the action property
`GoodCopiesAreKept`, for any processes, any list of shared files and of candidates. `CacheInv` (`CacheAlways`) says of each
process what it has found so far to be on disk: it has looked at a prefix of the
lists, and each file it went past is pinned there, and stays so because what is moved
to a file's place is always pinned. That is what makes the argument local: what one process found
is not undone by another.

**`TraceCorporaProofs`**, for any templates, sizes, texts and values, and blocks of up to 4900 characters:

- `PlansNeverRaise` and `PlansAreAccepted`: a plan of any 60 documents or more passes its own
  checks (the rounding of the shares is the whole difficulty), and so does that of traces-v2, whose slots, kinds and
  skeletons are counted from their definitions.
- `GoldKeepsToItsMode` and `GoldFollowsItsMode`. That no gold is placed against the mode
  is local to `Allowed`; that a document which is not clean has some is not: whatever ways were taken, the
  steps left surely plant a category, or gold is there already (`DocInv`). `ResultsNameTheirCalls` is the same kind of argument
  about the ids: a call and its output are in consecutive turns.
- `LongDocumentsFit`: a target is passed by one block at most.
- `DocumentsStayTogether`, of three parts: `ResultsNameTheirCalls`, `SpansStayExact` and `TaggedValuesSurvive`. Appending and moving
  keep every span on its text (`TextInv`); a fragment of any length is assembled with its spans exact
  (`AssembleIsExact`). Stripping, escaping, prefixing and closing a fragment each map its tagged segments one to one, in
  order, to those of what they make of it, and the characters of each into the new text; such maps compose, so any
  style keeps them (`FragInv`).

What `GoldFollowsItsMode` and `ResultsNameTheirCalls` need of the templates is a finite fact about the 81 of them: that each plants
something in every mode but clean, that a way which begins with an output follows one that ends in a call.
`TemplatesAssumption` states it and TLC evaluates it in the runs of the corpora. `TraceTextAssumption` says that a value
to be planted is not empty, as `_pii` makes sure (`traces_v2_gen.py:1049`).

**`BenchProofs`**: `OkCellsAreScored` and `CheckpointsMatchCells`, for any processes, tools, batches, caps,
kills and failures, `SteadySetsAgree` for any rows, and `GreedyLosesTiesAlone` for any spans, overlapping or not.

- The first two have a hypothesis, `LoadersAgree`: the samples of two caps are the same as far as both go. It is
  what the code relies on and does not check. `InvBench` says that the marked rows of a checkpoint are right (each is the sample at its place under some
  cap), that a worker's rows are those of its file and buffer, that only the holder of the
  lock has workers, and that a cell reads OK only with the samples of a cap. A kill keeps it, as rows beyond the mark
  are vouched for by nobody and cut off by the next run.
- `SteadySetsAgree` proves that hypothesis for every loader of the registries but the report's, which breaks it
  (`bench_report`), on sets that are of one file or fetched as a whole (`SteadySets`), and `SteadySetsAreScored` draws the conclusion. Two readings of the same rows
  for two caps are the same until the first has its samples, and from then on the second only adds to
  them (`Together`, `ReadTogether`); a larger cap fetches no fewer rows (`FetchedGrows`), and the generator stands alike at each row
  both read. The hypothesis on the files is needed: a second file is begun where the
  first one's prefetch ends, which the cap decides.
- `GreedyLosesTiesAlone` looks at a greedy pass through one invariant: what was taken is a pairing (`OwnPairing`), and
  a prediction is left without a span only if all it matches are taken (`GivenAnother`). Any
  other pairing therefore has at most twice as many pairs (`AtMostTwice`). When the spans of one label are apart, on both sides,
  the greedy choice costs nothing at all: with an IoU of a half two spans apart that match one are its two halves
  (`Halves`), so nothing else matches either of them (`Star`); any pairing then
  maps one to one into what was taken (`NoneIsLarger`). Without that, a pair of a better pairing whose
  gold span was left has a prediction that took another one, so it matches two and is counted in `Ties`.

**`ModProofs`**, the start: `UnprotectedOnTheirWord`, for any number of calls, starts,
sessions and acts of other windows. `OnlyOnTheirWord` speaks of what was just sent; `StartInv`
adds why it could be: a start under way is the last one begun (`Started`), `mid` tells that it
is one after a loss (`MidTells`) and excludes `startPass` (`MidHolds`), which is set only on their word or
by the option (`PassChosen`), and a dialog of this start was put before
any loss (`AskedHere`). `MidTells` is what an answer that comes late is caught by: without the comparison of
`startCount` a dialog of an earlier start would speak for one after a loss. Most actions only need
`Calm`, `KindsKept` and `CallsKept`: no start begins, none passes that did not, nobody is asked
in another start than this.

The policy and the questions: `MaskedUnderTheSeen` and `UndoesNothingSilently` from `PolicyInv`
(`PolicyAlways`): the policy held, stored, being put back, sent with a request or worked out by a
command is one the user has seen, and a command's is its change applied to the version it
names. The sidecar's check of the version does the rest, which is why a policy may change at any time
between. `LeavesOnTheirWord` from `QuestionsInv`: Allow all, "as text for the session" and the
pause are on only if said in this session, over any line of calls.

Induction. The library's induction theorems take an operator as a parameter, which the provers here cannot
instantiate. `Recursion` states the same with sets and functions: `InductionUpTo` for a set of the numbers that have a property (from
the well-foundedness of `<`), `Iterates` for the existence of a recursion along a list whose step is a function. What the
models compute character by character, row by row or file by file is defined by recursive functions in a `LET`;
the proofs first show that such a function exists and is of its type, and then go along it.

Only model-checked: liveness (`Answered`, `ExpiredAreForgotten`, `ClosingEnds`, `EverythingSettles`,
`EnsureEnds`, `RunsEnd`), which needs `ENABLED`, out of the prover's reach. No model here has a `RECURSIVE`
operator. Of what the theorems assume, `TemplatesAssumption` and `RegistryAssumption` are about 81 fixed templates and are evaluated, not
proved.

## Not modelled

- Of the Claude Code mod: what its section above leaves out, its screens (`look.ts`,
  `padlock.ts`, `preview.ts`) and its doctor.
- The relays (`sse-relay.ts`) and the Messages walks: the state of several open
  blocks above the restore stream. Every event is handled in one turn of one stream.
- The proxy routes: one vault session for each request around an upstream call.
- Detection (`normalize.ts`, `gliner-decoder.ts`, `url-filter.ts`, `validators.ts`, ...): pure
  tables and patterns, better tested than modelled.
- The tool adapters of the bench (calls of other tools' libraries, one text at a time), the
  builders of report sets, the reports: conversions of finished files.
- Command line, logs, screens, configuration.

## Plan

Done: the vault, its promise and its stream, the sidecar, the engine's life, the model
cache, the mod, the corpora and the bench, with their proofs. Left, in this order:

1. **SseRelay** above the restore stream: shards of interleaved blocks, an early end.
2. **Proxy**: the routes around an upstream call, with the relays.
3. The windows of `segments.ts` and `chunking.ts` with a reference definition: every
   position is seen by a window.

## Running

    tlc -workers 2 -config MCSidecarPolicy.cfg MCSidecar
    tlapm SidecarProofs.tla
