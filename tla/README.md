# A TLA+ verification of census-insight-agent

census-insight-agent answers questions over a fixed corpus of census reports. A
backend (FastAPI, LangGraph) retrieves evidence, asks a model to draft an answer
and refuses to publish a draft whose citations do not check; questions that need a
computation or a chart are answered by a generated program that an isolated
executor runs. This directory models the parts of it whose correctness depends on
the order in which things happen, or on data that is cut, moved and bound again on
its way from a page to an answer, checks the models with TLC on small instances,
and proves the main invariants with TLAPS for every instance.

Contents: the inventory of the system (1), the modules (2), the runs (3), the
proofs (4), where the code and its documentation disagree (5), what is not modelled
and why (6), and the plan (7). `PROJECT.json` holds the same facts for tools: the
source lines each definition translates, the runs, the mutants, the hazards and the
theorems. Paths are relative to `src/`.

## 1. The system

### Components, their state and their operations

| component | state | operations | hard behaviour |
|---|---|---|---|
| Job queue and executor (`executor/`, `backend/app/execution/client.py`) | directories `inbox/`, `processing/`, `results/`, `jobs/`; the worker's current job; artifact directories of a session | claim, execute, report, unclaim, recover; submit, wait, inspect, accept, discard | the worker is killed at any step, recovery is killed too; the turn gives up while its job is queued or runs |
| Agent turn (`backend/app/agent/graph.py`, run by `service.py`) | the LangGraph state: classification, scope, draft, citations, claims, validation errors, retry and attempt counters, final response, and the durable claim history | nineteen nodes, six routing functions | bounded repairs; state of an earlier or of a failed turn that leaks into a later one; every route must end in a validated answer or a refusal |
| Session service (`backend/app/agent/service.py`, `state.py`, `postgres_state.py`, `persistence.py`, `checkpoint.py`) | sessions and child sessions, transcripts, traces, checkpoints, directories, per-session locks | chat, research with sections, delete, feedback, list, prune | deletion during a turn; a crash between two writes; advisory locks taken inside one another and a bounded pool of connections |
| Upload pipeline (`backend/app/ingestion/uploads.py`, `worker.py`) | job files, staged and listed documents, the withdrawn list, the broker's queue | stage, process with retry, finish, fail, delete, finish withdrawals, recover | broker and filesystem disagree; redelivery; a crash in the middle of a deletion |
| Ingestion (`backend/app/ingestion/service.py`) | manifests, state files, table stores, the vector index | ingest, skip unchanged, delete stale points | an ingestion stops between any two writes; a source is replaced in between; files written in place |
| Retrieval and agent tools (`backend/app/retrieval/`, `agent/tools.py`) | the index, the withdrawn list, a cache of titles | search, scroll, table lookups, evidence by ID | a document withdrawn or ingested again between two reads |
| Page mapping, chunking, coverage (`backend/app/ingestion/pages.py`, `chunking.py`, `coverage.py`) | none | give the converter's blocks to pages, split pages into chunks, report coverage | counting past skipped pages; tables larger than a chunk |
| Structured tables (`backend/app/tables/`) | the table store | extract tables, bind rows to chunks, select a column | a table that goes on over a page; two tables that look alike |
| Evidence packing, citations, quotes, calculations (`agent/evidence.py`, `citations.py`, `quotes.py`, `calculations.py`, `years.py`) | none | pack within a budget, calculate, derive claims, validate citations, refuse or repair | one budget for several targets; year and residence of a cell a fragment does not print |
| Datasets of artifacts (`backend/app/execution/hydration.py`, `lineage.py`, `agent/graph.py`, `agent/tools.py`) | none | require, collect, propose, bind, check completeness, rank | a model that omits rows, garbles an ID or takes a neighbour's column |
| API and event streams (`backend/app/api.py`, `main.py`) | a queue per stream | chat and research streams, transcripts, uploads, sessions | exactly one final event; a client that goes away; a producer that goes on |
| Web client (`web/src`) | threads, a pending turn, a stream reader, a polling timer | send, read, load, poll | closed streams; answers that are only in the transcript; replies that cross |
| Code policy and output validation (`executor/policy.py`) | none | accept or refuse a program | refusal must be total |
| Providers (`backend/app/agent/provider.py`, `backend/app/providers/`) | none | model and embedding calls with timeouts | a call may time out, fail or answer malformed data |
| Trust metrics, observability, evaluation (`trust.py`, `observability.py`, `evals/`) | append-only records | record, aggregate | none that state machines settle |
| Streamlit client (`frontend/`), scripts (`scripts/`) | none beyond what the API keeps | render; prune, back up, prepare | pruning while a session is live |

### Interactions

The API calls the session service, which holds the session's lock, picks a
checkpoint and runs the agent graph. The graph calls the provider, the retrieval
tools and, for artifact tasks, the queue client. The queue is a shared directory:
the backend writes `inbox/`, the worker moves a request to `processing/`, writes
`jobs/<id>/` and `results/<id>.json`, and the backend reads and removes the result
and moves the outputs into the session's artifact directory. The upload API writes
a job file and enqueues a broker message; the ingestion worker reads the file, runs
the ingestion service and updates the same manifests and index the retrieval
component reads. The withdrawn list is written by deletion and read by every search.
A turn feeds an event stream whether or not somebody reads it; what the stream loses,
the browser finds in the saved transcript.

### What makes each component correct

* queue: a program runs at most once; a claim is never stranded; only validated
  outputs become an artifact; a result tells the truth about its job;
* turn: every answer that is not a refusal passed validation against the evidence of
  this very turn, or is a produced artifact; repairs are bounded; only validated,
  cited claims become memory; a failed turn leaves memory alone; every turn ends;
* sessions: one turn at a time in a session, on any replica; locks and connections are
  given back; a session in use keeps its row and checkpoints; a deletion is whole;
* uploads: every accepted upload ends up listed or reported as failed; a withdrawn
  document is not retrievable; indexed evidence does not outlive its source;
* ingestion and reads: an ingestion that ends leaves exactly its version; a scroll beside one
  misses no point that was there all the time;
* documents: every page has one status and its own text; every line is in a chunk of its
  page; a row is bound to the chunk that shows it; a selected column is the one asked for;
* evidence and citations: packed evidence fits the budget and covers every target; a
  citation shows the value it is cited for, in the column of the year claimed;
* datasets: a row is the cell it says it is; a ranking is over all entities of one table;
* streaming: no stream and no unanswered question blocks the composer for good, and the
  chat is the transcript.

## 2. The modules

| module | models | extends or implements |
|---|---|---|
| `JobContract` | what the executor promises of a job | |
| `ExecutionQueue` | the job queue: directories, worker, recovery, the turn that waits | implements `JobContract` |
| `ExecutionQueueProofs` | its theorems | `ExecutionQueue` |
| `TurnContract` | what a session promises of its turns | |
| `AgentTurn` | the turns of one session: the graph, its checkpoints, the pin | implements `TurnContract` |
| `AgentTurnProofs` | its theorems | `AgentTurn` |
| `Sessions` | sessions and child sessions under chat, research, delete, feedback, pruning; both backends | |
| `SessionsProofs` | its theorems | `Sessions` |
| `Conversation` | the event streams, the transcript and the browser that reads both | |
| `ConversationProofs` | its theorems | `Conversation` |
| `UploadPipeline`, `MCUploadPipeline` | uploads: staging, indexing in either mode, withdrawal, deletion, crash, recovery | |
| `UploadPipelineProofs` | its theorems | `UploadPipeline` |
| `Library`, `MCLibrary` | one document's ingestions, withdrawal, and the reads beside them | |
| `LibraryProofs` | its theorems | `Library` |
| `Corpus`, `MCCorpus` | one document from Markdown to pages, chunks, tables and a selected column | |
| `Answers`, `MCAnswers` | from retrieved evidence to a validated answer | |
| `AnswersProofs` | its theorems | `Answers` |
| `Dataset`, `MCDataset` | from an artifact request and its evidence to a ranked dataset | |
| `DatasetProofs` | its theorems | `Dataset` |

The modules meet at the following seams. `AgentTurn` takes the outcome of validation and of
the executor as a choice; `Answers` is the validation and `ExecutionQueue` the executor.
`Sessions` takes a turn as two steps and `AgentTurn` is the turn. `UploadPipeline` takes an
ingestion as a few steps that change the library and `Library` is the ingestion, with the
withdrawal as it is in `UploadPipeline`. `Answers` and `Dataset` take the chunks as `Corpus`
cuts them: table fragments, the later ones with the header lines the chunker repeats.

Each module ends with its properties. The operators marked as mutants, slips or faulty
variants are bugs a plausible change to the code would introduce, one per property, used to
see that the property notices.

### ExecutionQueue

State. `inbox`, `processing`, `result`, `staging` are the four directories of the
shared volume and survive everything. `phase`, `current` are the worker's memory:
`Worker.serve`, `run_once`, `execute_request` and `recover_interrupted` are at the step
`phase` names. `turn`, `got`, `store` belong to the agent turn that submitted the job:
`ExecutionQueueClient.wait`, `inspect_artifact`, `ArtifactStore.accept`. `verdict` and
`starts` are history: what was concluded of a job, and how often its program started.

Actions. `Submit` is `submit`; `Claim`, `Refuse`, `StartProgram`, `Succeed`, `Fail`,
`Report`, `Unclaim` are the worker's straight path; `Crash` and `Restart` may happen
between any two of them, also inside recovery, whose steps are `BeginRemoval`,
`EndRemoval`, `ReportInterrupted`, `Release`, `BeginServing`. `atomic_json` makes a file
appear in one step. `shutil.rmtree` does not: a directory being removed is `torn` until
the removal ends. `WaitTimesOut` and `Abandon` are the turn giving up.

Left out: heartbeats (a health file nobody acts on here), the sandbox of the generated
program, the contents of outputs beyond validated or not. A job ID is used once
(`uuid4`).

### AgentTurn

State. One variable per group of fields of `AgentState`; `pc` is the node to run next
and `steps` the supersteps of this run. Evidence is represented by the number of the
turn that retrieved it, remembered claims by the turn that validated them, a draft by
what the validators can tell of it. That makes "a field of an earlier turn leaked into
this one" visible: the numbers differ. `history`, `support` are in the thread's
checkpoints, and `pinned` is the checkpoint the session record names.

Actions. `BeginTurn` is the start of `_observed_turn`: the checkpoint to resume from and
the reset of every per-turn field (and of nothing else). Then one action per node of the
graph, which includes the routing function behind it; `PinCheckpoint`, `Deliver`; `Fail`
at any point: an exception of a node, the recursion limit, the deadline, the trace that
cannot be written, the death of the process.

The model's answers are choices, restricted by what the code checks of them.
`inconsistency_analysis` takes the route of `lookup` everywhere and is represented by it;
chart and table questions are one task. Left out: the summary of `load_memory`, and the
recovery of a claim history from old traces (`persistence.py:325-393`).

### Sessions

State. `row`, `checkpoints`, `transcripts`, `dirs` are what is kept of each session.
`step`, `on`, `at`, `by` say what each request, or section of a research, is doing, to
which session, on which replica, for which research. `locked`, `inUse`, `held` are the
three layers of a lock: the asyncio lock of a replica, the lock connections taken from its
pool, and the advisory lock of the database. On SQLite there is one replica and the first
layer only.

Actions. `TakeLocal`, `Connect` or `PoolTimeout`, `Acquire`, `Leave` are `session_lock`.
`Open`, `StartTurn`, `FinishTurn`, `Record` are a chat turn and the turn of a section;
`Plan`, `CreateSection`, `CreateFails`, `Compile` a research, whose sections take the locks
of their own child sessions while it holds its own; `ListOwned`, `DropCheckpoints`,
`DropRow`, `DropDirectory` a deletion, child by child. `ReadTrace` and `WriteFeedback` take
no lock, nor do the three steps of the maintenance script. `Crash` kills a replica with
everything in it; its advisory locks go with its connections.

Left out: titles, the order of a listing, time stamps, the migration of the schema. A lock
connection is assumed to live as long as its request: nothing in the code notices one that
drops (`postgres_state.py:349`), and exclusion fails at once under it. A section's child
session is created under a fresh ID.

### Conversation

State. The server: `transcript`, what it does with each turn (`serve`), the events it has
put (`queue`). The browser: the thread (`shown`, `pending`, `status`), the transcripts it has
asked for (`asked`, `replies`: a transcript in flight is a length), its polls. Between them:
`link`, the connection of each stream. `raced` is history: a question and a transcript
crossed.

Actions. `Send`, `SendLost`, `Read`, `Close`, `Reset`, `Reload`, `OpenThread`,
`LoadArrives`, `LoadFails`, `Poll` are the client's; `StartTurn`, `Progress`, `RecordTurn`,
`Announce`, `Sink`, `ServeLoad`, `Crash` the server's. A turn records its answer and then
announces it, to a queue that is read by `_drain` as long as there is a connection; the
browser falls back to the transcript.

Bounds: 75 polls are `Polls`; polls in flight are at most `MaxLoads`; `Mishaps` lists what may
go wrong, each once, `MaxMishaps` of them in one behaviour. Left out: what entries say, the
rendering, other chats of the same browser.

### UploadPipeline

State. `pdfs`, `overrides`, `listed`, `withdrawn` are the files of the library,
`points` the index, `job` the job files, `queue` the broker, `th` the threads. Nothing
makes two of these change together, so an action is one file operation, one call, or one
look at several files.

Threads. A request thread per upload: `stage` (`CheckLibrary` to `SaveJob`) and the
hand-over in `api.py` (`Enqueue`, `EnqueueRaises`, and `fail` when the broker refuses).
The runner indexes: in the API process under `_ingestion_lock` (`StartPending`), or in the
Celery worker (`StartMessage`, `Retry`, `Acknowledge`, late acknowledgement). The deleter
is `delete_document`. The boot thread is `UploadService.__init__` with
`_recover_interrupted_jobs`. All but the deleter run `_finish_withdrawal`, whose steps
(`FinishWithdrawal`, `RemovePoints`, `RemovePdf`, `RemoveOverride`, `RemoveMarker`) are
excluded from each other by a lock within a process, not between processes. `CrashApi`
and `CrashWorker` kill a process between any two steps.

Abstractions. A document ID stands for the checksum of its PDF (a PDF is uploaded under
one title). `listed` stands for the generated manifest, the ingestion state and the
tables of a document, which are written and removed together. The worker's sweep at boot
is the sweep of its next job. `DELETE` may be sent for any document that has an override.
The limits of `list_jobs` (50 for `stage`, 1000 for recovery and deletion) are not reached.
Errors of the disk are left out; the index and the broker fail at will, and the broker may
take a message and lose the reply.

### Library

State. `source` is the version on disk; `index` says for each point which version wrote it
last; `manifest`, `recorded` (the state file) and `tables` are files, the first two written
in place and so possibly `Torn`; `withdrawn` is the marker. A point's ID is a hash of its
page, position and text, so that versions share points: a version is a set of point IDs and
a checksum, which a corrected Markdown leaves as it is. `writer` is the ingestion in
progress, `call` the tool call in progress, `answer` what the last one returned.

Actions. `Begin`, `MapPages`, `MapFails`, `Upsert`, `DeleteStale`, `WriteManifest`,
`WriteState`, `WriteTables` are `IngestionService.ingest`; `Stop` ends it anywhere;
`ChangeSource` replaces the source in between. `Withdraw`, `RemoveDerived`,
`FinishWithdrawal` are a withdrawal. The reads: a search reads the marker and then queries; a
scroll reads page after page and the marker last; a lookup in the table store reads marker,
manifest, store and points; a follow-up retrieves remembered points.

Left out: scores, the titles added to section paths, more documents than one (points of
another document never share an ID).

### Corpus

State. A document is what MCCorpus makes of it: the PDF's pages as blocks (headings,
statements, titles, paragraphs, tables), the Markdown of a converter as texts, each with the
page it is really of, and the reviewed decisions. `pages` are the pages mapped so far,
`chunks` what the chunker has flushed, `tables` what the extraction has built, `selection`
the column a request got. What a text is really of, and what a column really means, is
carried along and read by the properties only.

Actions follow the code's loops: mapping as a whole and then page by page with its status; the
chunker block by block, with the heading path, the buffer and the split of a table; the
extraction block by block, with the statement, the pending title and the table that goes on;
the binding of rows; the request. `MCDocuments` is the product of first and second pages that
fit together and of what a converter may do to them.

Abstractions: lengths are in lines; header cells are words or blank; alignment scores are a
best page or none; a value is a number that is bare or in words.

### Answers

State. `evidence`, `targets`, `asked` are the question; `included`, `used`, `position`,
`turn`, `moved` the two loops of `pack_targeted_assessment_evidence`; `calculations`,
`selected` what the tools and the assessment return; `draft`, `retries`, `claims`, `pruned`,
`errors` the validation. A chunk is what the validation reads of it: rows over the columns of
the document's table, which header words a quote shows, sentences that state a value, the
residences its title names, size and rank.

Actions: packing step by step (`Reserve`, then `Fill` in rounds), the calculation, the
selection and the draft as choices, the enrichment and derivation of claims, the validation
claim by claim, the decision: answered, repaired once, refused.

The sorts, the filters and the loops over claims are written with `InOrder` and `At`, the
elements of a set in their order and the members of a sequence at some positions, which the
proofs can reason about where a recursion is out of their reach. The IDs of chunks and the
targets of a list are distinct by assumption, as the code makes them (`deduplicated`,
`dict.fromkeys`). The IDs of claims are not: drafts of two claims with one ID are among those
checked. If both are source claims, the decision refuses them as an incomplete assessment of
support (`SourcesAreDistinct`, `graph.py:2226-2235`); if one is derived, it does not (section
5).

A claim is bound to a region, a measure, a residence and a year, each of which may be missing;
without a region or a metric the table store gives no verdict (`TableYearVerdict`,
`years.py:64`), and the quote alone decides. Left out: the words of metrics that a quote has to
show, populations and units, relative percentages, claims without a value, drafts that are
refusals.

### Dataset

State. `request` is the question, what a classifier makes of it, and the document; `asked`
the canonical requirement; `evidence` the chunks of the turn by their places in the document;
`selection` the rows of a table column, `rows` the dataset, `ranked` and `winner` the outcome.

Actions: `Require` is the canonical requirement and the refusals before any tool is called;
`CollectTable` is the column of the table store, `CollectSearch` any selection of chunks and
the scan of the document's tables, each with the title of its section; `ProposeRow` any row,
bound cell by cell (the chunk, if the ID is garbled; the column, by header words or by its
position in a group of three; the row); `Prepare` what is checked of the whole dataset;
`Rank` the completeness and the sort; `Return` the answer.

The model is not told what the columns mean: `means` and `of` are for the properties, and for
`Fitting`, which selects a column of the table store by its year, residence and population. A
population scope is a set of words: one that names everyone or one category is reduced to it,
any other is kept as it is (`Canonical`, `scopes.py:48-51`), and is then looked for in a
chunk's context and decides with the metric which subgroups were asked for (`MatchesRow`,
`hydration.py:217-220`, `:284-293`). A column without a unit is selected and refused when the
lineage of its rows is checked (`lineage.py:56`). The year is the first one the question
names.

One title per section, header lines are header lines, and numbers name no year (see section 5
for what happens otherwise). Left out: the kind of chart, labels that end in a residence,
computed values, retries of the provider, metrics that name a residence (`selection.py:91`),
and other words for the sexes than persons, males and females.

What the dataset takes from the parts before it is assumed by name. `DocumentAssumption`:
chunks have distinct IDs; a column is of the year, the residence and the population its header
lines name, if they name one (nothing is assumed of the order or the number of columns under
one header); a chunk of a subgroup or its title says so; a table of contents has no columns of
a year. `RequirementAssumption`: a request for a ranking is of one document, whose fragments
of one table begin with one line, as the chunker repeats it; and the records of a table column
are the lines of all its entities, each once (`Corpus`: `SelectionIsTheOnlyOne`).
`ProposalAssumption`: proposals have the fields of the schema. TLC evaluates them on the
instance of `dataset`.

## 3. The runs

Passing runs:

| run | instance | distinct states | shows |
|---|---|---|---|
| `queue` | 2 jobs, 2 crashes | 83 thousand | types, single execution, what the directories mean, real successes, published outputs; that a submitted job leaves the queue (`QueueDrains`), and that the queue implements `JobContract` |
| `turn` | 3 turns, history of 2, recursion limit 24 | 332 thousand | responses rest on this turn's evidence, the memory on validated responses, turns are bounded and end, and `TurnContract` is implemented |
| `sessions` | one session, two sections, a chat, a research, a delete; SQLite, and Postgres with two replicas of two lock connections; one mishap | 465 thousand | locks exclude and are given back (`LocksExclude`), a running turn keeps its session, deletion is whole, every request ends |
| `conversation` | two turns after an old one, one poll, two mishaps of eight | 442 thousand | the chat shows the transcript, answers outlive their streams, streams and waiting end |
| `uploads_in_process` | 2 uploads of one PDF, 2 crashes of the API | 21 thousand | evidence has its source and failed documents are excluded from retrieval (`LibraryIsSound`), cleanups are current, every job ends |
| `uploads_durable` | 1 upload, 2 retries, one crash of each process | 230 thousand | no accepted job is lost, a finished job is not reported again, every accepted job ends |
| `library` | three versions, three ingestions, one that stops, one change of the source, pages of one point | 3 million | an ingestion that ends leaves exactly its version; what begins after a withdrawal does not see the document; a scroll beside an ingestion misses no point that was there all the time |
| `corpus` | about 150 documents of three pages, 24 columns asked of each, chunks of four lines | 4.9 thousand | pages and their statuses, chunks and bound rows, the selected column |
| `answers` | two or three chunks of two or three regions, about 110 drafts, with and without the table store, one repair | 770 thousand | packing, citations, years, derived claims |
| `dataset` | about a hundred questions over documents of two districts, of total, rural and urban and of persons, males and females; proposals of up to four rows | 17 thousand | rows are cells, targets have one row, rankings are over all entities of their table |

Why the instances are large enough:

* queue: the worker holds one job; a second one is what a wrong claim would take. One
  crash reaches every step of the straight path, a second one every step of recovery.
  A third crash meets the states of the second again.
* turn: a response depends on its turn and on the memory. With a history of two, three
  turns fill it and drop the oldest entry, resume from a pinned, an unpinned and a failed
  turn. The recursion limit is the configured one; turns take at most sixteen supersteps.
* sessions: two requests race for a lock, a third waits meanwhile; a research with two
  sections has one that waits for the other (`Concurrency = 1`), and a pool of two
  connections is exhausted by the research and one section. Mishaps are independent of one
  another, which is why one of them, at every step, is enough.
* conversation: the second turn is the one that may be sent while the first one's transcript
  is in flight. Two mishaps reach the case of a lost stream whose reload fails too. The
  number of polls only matters for when they stop.
* uploads, in the API process: documents meet only in discovery, where one document's
  missing PDF makes a job of another fail, which an index that fails at will does too;
  so one document is enough. Two requests are what races for one PDF, both at once or one
  after the other, and two crashes reach recovery and a crash during recovery. **Two
  requests are not enough for every property**: with three, `EvidenceHasSource` and
  `FailedIsNotRetrievable`, the parts of `LibraryIsSound`, are violated (section 5). The
  passing run says that it takes three requests, or more, for one PDF; `LibraryStaysSound`
  says so for any number of documents and crashes (section 4).
* uploads, in the worker: an accepted job meets other jobs only in the library, and the
  properties of this run are about jobs and messages. Two retries distinguish the first,
  a middle and the last attempt. `UploadSettles` and `AcceptedJobsHaveMessages` speak of
  requests that were answered: for the others see `QueuedJobsAreOwned` in section 5.
* library: three points are shared by each two of the versions, and a page of a scroll is
  one point, so that every interleaving of pages and writes occurs. The third ingestion is
  the one after one that stopped.
* corpus: a document has a page where a table starts, a page where it goes on, is repeated,
  is printed with other values, or another one begins, and a page of a graph and prose; a
  converter lists, skips and orders them rightly or wrongly; four lines cut every table at
  least once. The selection is asked for every year, residence, subgroup and metric.
* answers: two regions, of which one has the table whole and one a later fragment, prose, a
  subgroup's table, or a chunk that is excluded; the budget holds two chunks and a half. Claims
  lack a region, a metric, a residence or a year, and share an ID with a source claim or with
  the claim the application derives.
* dataset: a ranking of two districts and the state's row is the smallest that can omit
  something; documents carry a second year, a second metric and a subgroup's table of the same
  districts with equal values, and groups of three that are persons, males and females, in a
  first fragment, in a later one without its header, and under a header "total". Scopes name a
  category (persons, males, everyone), two, a subgroup, or a subgroup and a sex.

In all runs the system may stop (`CHECK_DEADLOCK FALSE`): the jobs, turns, requests,
uploads, calls and documents are finitely many and nobody promises another.

Runs that end in a counterexample: `library_withdrawn` and `ranking_partial`; see section 5.

`TypeOK` of `Sessions`, `Conversation`, `Library` and `Answers` states what their variables
hold; it is checked by naming it in the run's `.cfg`.

### Fairness

Liveness is checked under these assumptions, and failures are never forced:

* queue: the worker's loop goes on, someone starts the container again after it was
  killed (the compose file sets no restart policy, so this is an assumption about its
  operation) and its recovery goes on, and a turn that has read a result handles it. The
  program a worker runs is ended by its deadline.
* turn: a node that is running finishes: every provider and tool call has a timeout.
* sessions: every task goes on, the pool times out, and the database grants a free advisory
  lock to somebody who waits for it. Clients, operators and crashes are not forced to act.
* conversation: a turn on the server goes on, bytes and replies arrive, a dead peer is
  noticed, the timer fires. Each kind of step is taken finitely often, so that one condition
  for each turn and one for the transcripts is as strong as one for each step.
* uploads: each thread goes on while its process lives: index and broker calls have
  timeouts. The ingestion lock is taken by one job after the other, and a request or a
  deletion that waits for it gets it (strong fairness of `StartPending`,
  `LockForDeletion`). A process that died is started again.

## 4. The proofs

All theorems hold for every value of the constants, from the assumptions on the constants
that each module names and TLC evaluates on every run: numbers are numbers, sequences are
sequences, what the code makes distinct is distinct; and, for `Dataset`, what a printed table
and a record of the table store are (section 2). None of the properties is inductive;
each proof module defines the strengthening and proves that it holds initially and is kept
by every action. The strengthenings were checked by TLC before they were proved, on instances
larger than the runs' where those left doubts: `Sessions` with two researches or two deletions
and two mishaps, `Library` with six ingestions, three that stop and four changes of the source
(without reads), `Conversation` with three turns and three mishaps, `UploadPipeline` with three
uploads of two PDFs and a crash.

`ExecutionQueueProofs`: `TypeCorrect`, `ExecutedOnce`, `DirectoriesAgree`, `SuccessesAreReal`,
`OnlyValidatedOutputs`, `RefinesContract`. That a program is started once, say, does not
follow from the program having been started at most once before: one needs that a claimed job
has not been started (`CurrentInv`), that a queued job is untouched (`UntouchedInv`), and that
the worker's memory agrees with the one claim (`ClaimInv`). `OutcomeInv` relates results,
verdicts and what turns were told, which publishing needs, and what is staged of a job whose
report waits, which `SuccessesAreReal` needs.

`AgentTurnProofs`: `TypeCorrect`, `ResponsesGrounded`, `MemoryValidated`,
`TurnsAreBounded`, `RefinesContract`. The bound needs how many supersteps lead to each
node (`Trail`); groundedness needs what each node behind `assess_evidence` may rely on
(`Basis`), which is where the reset of the state at the start of a turn matters; the memory
needs `ValidMemory` of the running history and of the pinned one, since a failed turn
goes back to the pinned one.

`UploadPipelineProofs`: `TypeCorrect`, `OneWithdrawalPerProcess`, `CleanupStaysCurrent`,
`NoAcceptedJobIsLost`, `FinishedJobsStay`, `LibraryStaysSound`. The argument
for the accepted jobs: a message
names a request that has passed the hand-over (`Sent`); the runner's message stays in the
broker until it is acknowledged, and when it is about to be acknowledged either its job
has ended or the next attempt is in the broker (`RunnerInv`); the job the runner works on
is not finished unless its request was refused meanwhile; and while the API recovers, the
threads of its former life are gone (`BootInv`). Most steps go through a few lemmas about
what a step of a thread may change (`RequestMove`, `RunnerMove`, `ServiceMove`,
`LockKept`). `CleanupStaysCurrent` is stated for indexing in the API process only: between
processes the withdrawal lock excludes nobody, and the statement is false.

`LibraryStaysSound` (`LibraryIsSound`) holds for any number of documents, jobs and crashes,
with two hypotheses: indexing in the API process, and at most two requests for one PDF. Both
are needed. Three requests for a PDF violate it (section 5), and in the durable mode one does,
when the reply of the broker is lost and the API withdraws what the worker indexes. The
argument: a marker is left by a request that is over and is not the one being indexed
(`MarkersAreOfOthers`, with the places of the threads in `Placed`). While the runner indexes a
document under its second request, the marker there was left by the first; there is no third
to finish that withdrawal in the meantime, and deletion and the runner share a lock
(`IndexesAlone`), so the PDF stays as long as points may still be written (`UpsertHasPdf`). A
document whose points were removed has none again before its files are gone
(`EmptiedHasNoPoints`), and a failure is reported after the document was marked or emptied
(`GivenUpIsOut`).

`SessionsProofs`: `TypeCorrect`, `SessionsAreExclusive` (`LocksExclude`),
`TurnsKeepTheirSession` and `DeletionsAreWhole`, the last two of every step. Exclusion needs
that each local lock, each connection and each advisory lock is owned by exactly one task,
in a step that gives it back (`LockInv`); a time-out or a raise then gives back what it took
and nothing else, and a crash takes all of one replica. A turn keeps its session because
whoever removes a row holds the lock of the chat above it, and a section only runs while its
research waits for it under that lock, or has sunk (`SectionInv`, `RowInv`). The deletion
needs what it has already removed at each of its steps, child by child, and which child
sessions it could not have seen: those of a research that sank, whose sections go on
creating rows without its lock (`KilledInv`, `DeleteInv`).

`LibraryProofs`: `TypeCorrect`, `IngestionsAreExact` (`IngestedExactly`),
`WithdrawalsAreFinal` (`WithdrawnIsExcluded`), `ScrollsAreComplete` (`ScrollIsComplete`). An
ingestion that ends may have done nothing, because the state file says so: the proof needs
that whatever is in the collection was written by the recorded version or by one that
stopped (`IndexInv`), that state file and manifest agree unless one stopped between them
(`RecordInv`), and what the ingestion may rely on at each step (`WriterInv`). Nothing
is written once a withdrawal has started (`GoneInv`), so a read that began later can
only see what is left of its own earlier steps (`LateInv`). A scroll owes the points that
were there all the time and lie before its offset (`ScrollInv`), which are kept by whatever is
written between two of its steps. Nothing is said of the version each point was read in: a
scroll may mix two (section 5).

`ConversationProofs`: `TypeCorrect`, `ChatsAreTranscripts` (`ChatIsTranscript`). That the chat
shows pairs needs what the server has written for each turn (`TranscriptInv`) and that the
answer of the pending turn is still to come (`ShownInv`); that a quiet page shows the whole
transcript needs, while it is not quiet, who will bring what is missing: a stream that
is open, a transcript in flight that was read late enough, a poll that will ask
(`FreshReplies`, `FreshPending`, `FreshView`), and that each stream that was left asks once
(`LoadInv`).

`AnswersProofs`, the packing: `BudgetIsKept`, `TargetsAreReserved`, `PackingIsFair`
(`PackingKeepsTargets`), for every retrieval, list of targets and budget. The budget needs that
during the reservations fewer chunks are packed than targets have had their turn
(`PackingInv`); the reservations need that a target that had its turn keeps its chunk
(`ServedStays`, `ServedGrows`) although the list goes on growing in the fill (`ReservedInv`).
That no chunk is packed twice is about places: each packed chunk is at a place of its
own in the groups, before the next one its group will look at (`PlacedInv`), and a chunk has
one place in the groups (`PlacesAreDistinct`), from what a sort by a strict total order
returns (`OrderIsTotal`).

`AnswersProofs`, the validation: `CitationsAlwaysSupport` (`CitationsSupport`),
`YearsAreColumns` (`YearIsColumn`), `DerivedClaimsRest` (`DerivedRestsOnInputs`), for every
draft. An answer passed because no claim of it had an error, and the claims were checked one
by one; the invariant says of each claim checked so far what its check has established, as
long as no error was reported (`CitedInv`, `PrunedInv`, `DerivedInv`), and that the checked
claims are those of the draft, in its order (`OrderInv`). A derived claim is cited with what
its inputs cite, which are checked before it because `add_deterministic_derived_claims`
appends what it derives (`DraftInv`, `PreparedRests`), and which no later claim of another ID
changes (`InputsStay`). Two source claims of an answer have two IDs because the decision
refuses them otherwise (`SourcesAreDistinct`); that a source claim has the ID of a derived one
is the one exemption, of `DerivedRestsOnInputs` alone (`DerivedIdsAreOwn`). The operands of a
derivation are numbers of the evidence because the calculation was refused otherwise. A quote
shows the value whatever else is asked of it (`QuotesShow`).

`DatasetProofs`: `RowsShowCells` (`RowsAreCells`), `EveryTargetIsThere` (`EveryTargetOnce`),
`RankingsAreComplete` (`RankingOfEntities`), for any documents, requests and proposals that
satisfy the three assumptions. A row shows a cell because exactly one cell of its chunk
matched, in a column whose header words name the requested year and no other sex than the one
asked for, and whose residence the header words say (`HeadersTell`) or its place in a group of
three (`PositionTells`, `ColumnMeans`, `AcceptedShows`), and because the residences a row may
have are those of the question (`RequirementInv`). A place tells the residence only if the
group is of total, rural and urban, in this order; nothing in the code or in the assumptions
makes it so, and a group that is not is the exemption of `RowsAreCells` (`OtherThree`; section
5). The year, the sex, the entity and the subgroup of such a row hold without it. The evidence
is chunks of the document with their titles and nothing else (`EvidenceInv`), so an ID names
one of them. A ranking by proposal is complete by counting: the rows' labels are distinct and
among the labels of the table's fragments, as many as these are, and hence all of them
(`ProposalIsWhole`); fragments of one printed table have one signature, so no entity of it is
outside the count. A ranking by column is complete because the column is (`ColumnIsWhole`).
The winner is first in a sort by a strict total order (`BeforeIsOrder`, `SortedIsRanking`).

Only model-checked: the liveness properties (`QueueDrains`, `TurnEnds`, `UploadSettles`,
`RequestsEnd`, `AnswerOutlivesStream`, `StreamsEnd`), which are out of the prover's reach;
the properties of `Corpus`, which say what a long fold over the blocks of a document
computes, by induction over that document; and `CoverageIsExact` of the three, which is about
single pages, but rests on what the documents of the instance carry (that marks and matches
name the true page) and on counting along a sort. `LibraryIsSound` is proved as far as it is
true.

## 5. Where the code and its documentation disagree

Two statements that the code does not keep have a run, whose counterexample is a behaviour
of the code; the quotations are in `PROJECT.json` under "findings".

| run | what happens |
|---|---|
| `library_withdrawn` | A follow-up retrieves remembered points by ID and never reads the withdrawn list: a document whose withdrawal is being retried is cited. A scroll of several pages reads the list after its last page, and returns what it read before a withdrawal that ended meanwhile. |
| `ranking_partial` | The completeness check counts the table's entities without the state's row and the proposal's rows with it: a proposal with the state's row and without one district is ranked over the other districts. |

The others are stated in their modules as well, and are seen violated when the `.cfg` of the
module's run names the statement alone, with the change given:

| statement | change to | what happens |
|---|---|---|
| `ExecutionQueue!FinishedStaysFinished` (`worker.py:8`, `:56`) | `ExecutionQueue.cfg` | The worker is killed between writing the result and removing the claim (l. 140-141). Recovery fails the job without looking at `results/`, replaces a success and deletes its validated outputs. |
| `ExecutionQueue!ResultsReaped` (`worker.py:8-9`) | `ExecutionQueue.cfg` | A turn that stops waiting (`client.py:63`) does not withdraw its job, which still runs; its result and outputs stay on the volume. |
| `AgentTurn!SourcesAreRemembered` (`FAILURE_ANALYSIS.md:424`) | `AgentTurn.cfg`, `MaxTurns = 4`, `HistoryLimit = 1` | A clarification that is resolved into `source_support` (`graph.py:611`) restates the claims an earlier turn left in `source_support_claims`, the one field the start of a turn does not reset. They may have left the bounded history. |
| `AgentTurn!EveryAnswerCited` (`DESIGN.md:414`) | `AgentTurn.cfg` | A repaired `source_support` draft without any claim passes validation (`graph.py:2147`) and is published as an answer. |
| `AgentTurn!FailedTurnsLeaveNoMemory` (`DESIGN.md:392`) | `AgentTurn.cfg` | The checkpoint is pinned (`service.py:584`) before the turn's trace is written. If that fails, the caller is told of a failure and the next turn remembers the claims. So does the turn after a first turn that failed after `persist_result`. |
| `Sessions!CollisionsOnlySerialize` (`postgres_state.py:34`) | `Sessions.cfg`, `Twins = {p1, k1}` | A research waits for a section whose child session's ID begins with the same 32 bits, and the section waits for the research's advisory lock: both wait forever, and so does every later request on the session. |
| `Sessions!BriefNeverSinks` (`service.py:296`) | `Sessions.cfg`, `Mishaps = {"fault"}` | `sessions.create` runs before the `try` of `run_section` (l. 278): when it raises, the research raises without a report or a recorded error, and its other sections go on without its lock. |
| `Sessions!FeedbackGoesWithSession` (`persistence.py:317`) | `Sessions.cfg` | A feedback request that has found its trace creates the directory of a session that was deleted meanwhile. |
| `Conversation!AnswerAppears` (`web/src/lib/api.ts:144`) | `Conversation.cfg`, `Sends = 1`, `Mishaps = {"close"}`, `MaxMishaps = 1` | A turn that ends after the last poll (`chat-view.tsx:66`) is in the transcript and never in the chat; the composer stays disabled until the page is reloaded. |
| `Answers!OtherYearNeverPasses` (`years.py:4`) | `Answers.cfg` | A claim without a region or a metric, or a table store that cannot be read, leaves the year of a cell to words a fragment does not print (`quotes.py:171`): a cell of 2001 passes for 2011. |
| `Dataset!NamedResidencesOnly` (`DESIGN.md:487-488`) | `Dataset.cfg` | A ranking that names rural and urban leaves the requirement without one residence (`scopes.py:80`), and the table store then selects the column of the total (`tools.py:362`, `selection.py:96`): the dataset is of a residence the question does not name. |
| `Dataset!PositionTellsResidence` (`hydration.py:134-136`) | `Dataset.cfg` | Three columns under one header are taken for total, rural and urban whatever they are (`hydration.py:125-154` asks for no header that names a residence). In a table of persons, males and females a cell of the males is bound as rural, and one of the females as urban. |
| `UploadPipeline!EvidenceHasSource` (`DESIGN.md:120`) | `UploadInProcess.cfg`, `Uploads = {u1, u2, u3}`, `MaxCrashes <- NoCrash` | Three requests for one PDF pass `stage` concurrently (`uploads.py:176`). After a failed withdrawal one job indexes while another request finishes the withdrawal: the points outlive the PDF. |
| `UploadPipeline!QueuedJobsAreOwned` (`uploads.py:133`) | `UploadDurable.cfg`, `MaxRetries = 0` | The API dies between the job file and the message (`api.py:861`): the job stays queued, cannot be uploaded again and cannot be deleted. |
| `UploadPipeline!ErrorsAreRetried` (`worker.py:12`) | `UploadDurable.cfg`, `MaxRetries = 1`, `MaxCrashes <- NoCrash` | `ingest` records errors of the embedding service and of the index in the document's result (`ingestion/service.py:236`), so the worker never retries them. |

Also observed while modelling, without a statement in a module:

* Turn: `DESIGN.md:372` gives a recursion limit of 16; the configured one is 24. The longest
  path takes sixteen supersteps, and LangGraph needs one more to finish. `DESIGN.md:14-15`
  has every source claim assessed; the claims a model writes for `source_support` are not.
* Uploads: `DESIGN.md:638-639` refuses to delete a document whose job is active, in both
  modes; the code's check (`uploads.py:349`) is not repeated under the lock, and the worker
  does not take that lock. In the durable mode a request and the worker may finish the same
  withdrawal in two processes (`uploads.py:183`). The broker takes a message and its reply is
  lost (`api.py:862`): the request gives the job up while the worker runs it, and may report a
  finished job as failed. A crash of `delete_document` between the PDF and its override
  (`uploads.py:352`) makes discovery raise for every document until the deletion is repeated.
  Discovery lists PDFs before it reads overrides (`discovery.py:70`): an upload in between
  fails another document's job. `list_jobs` shows `stage` the newest 50 jobs only
  (`uploads.py:312`). Two first calls of `get_upload_service` (`api.py:818`) may build two
  services with locks of their own.
* Library: a scroll beside an ingestion may return some points of the old version and others
  of the new one (`tools.py:237`); a torn state file makes every later ingestion of its
  document fail; a torn manifest makes the catalogue answer 503 (`api.py:683`) and is not
  rewritten when the document is unchanged; an ingestion that stopped before a change of its
  source leaves points for good; titles are cached by document and checksum (`tools.py:147`)
  and go stale when a transcription changes the text and not the checksum.
* Corpus: a document that begins with a deep heading nests a later, shallower one in it. A
  table without bare numbers is one chunk of any size, and the overlap may make prose exceed
  the limit. A header row of years is made of bare numbers and not repeated. A statement that
  goes on under its number alone, without its title, loses the subgroup, so that half a table
  may be selected (the properties ask for `regular` documents); a table whose next page is not
  indexed is selected without a sign; two tables with equal headers under one statement are
  merged. The report of a failed ingestion counts transcribed pages as indexed
  (`coverage.py:144`). `validate_page_for_chunking` never refuses.
* Answers: a comparison may pass with one side cited (`graph.py:2170-2196`). A derived claim
  may pair inputs of different residence when the values are equal (`calculations.py:135`).
  The fill stops after a round without progress although a smaller chunk would fit
  (`evidence.py:103-121`). A quote may show the row of a district with the same value. A claim
  of the model may have the ID the application gives to a claim it derives
  (`derived_comparison_N`): the check of IDs is of source claims alone (`graph.py:2226-2235`),
  and a citation then goes to whichever of the two has it (`DerivedRestsOnInputs` exempts it
  by `DerivedIdsAreOwn`). A claim without a year whose text names several is taken to be of
  2011 by the table store, and a column of 2011 then spares its quote the question which years
  it shows (`years.py:87-89`).
* Sessions: two researches of one chat, one of them asked by a client of a section's hidden
  session while the chat is deleted, leave a section of the second without a chat. A section
  that a sunk research creates after the deletion has listed the sections is left over, and so
  is the directory of a section when a deletion dies between its row and its directory.
* Dataset: words of a metric are looked for in the header and in the whole context, so that a
  sibling metric's column of the same year may be taken (`hydration.py:276`). Every earlier
  line of a table counts as a header line. Header labels outside the block list inflate the
  count of entities, which refuses. A year the question names and the classifier omits becomes
  2011. A table column that names no residence is selected for the total. A population scope
  that names no category is looked for in the context as a whole and in no column. Two titles
  in one section leave both chunks without a title. With several residences a ranking counts
  rows per residence (`RankingOfEntities` excludes it, and proposals with the state's row,
  which are `ranking_partial`).
* Conversation: a transcript that is answered before the server saved a question, and arrives
  after its answer was shown, removes both until the next load (`chat-provider.tsx:145`); a
  connection that is reset shows the turn as failed although it may succeed (`api.ts:132`).
  `ChatIsTranscript` excludes both, by `raced` and `spent`.

## 6. What is not modelled

* Code policy: a filter over the syntax of Python, with no order of events; its data is the
  grammar. Trust metrics and observability: append-only records and their aggregation.
* Providers, vector search, Celery, LangGraph: external. They appear as choices: any
  answer, any failure, a lost reply. The retries and the deadline of the provider's
  structured calls are part of "a node finishes".
* The API's other handlers: request validation, page images, the scorecard, the catalogue.
* Rendering in the clients, the Streamlit client, evaluation data, prompts, deployment files,
  scripts other than the pruning of sessions.
* The summary of the conversation and the recovery of claim histories from old traces.
* A database connection that drops while its request goes on; limits of `list_jobs`.

## 7. The plan

1. Done: `ExecutionQueue`, `AgentTurn`, `UploadPipeline` and their proofs; `Sessions`,
   `Conversation`, `Library`, `Answers`, `Corpus`, `Dataset`.
2. Done: the proofs of `Sessions`, `Library`, `Conversation`, `Answers` and `Dataset`, and
   `LibraryIsSound` for two requests for one PDF. Next: what can be said of `Corpus` one
   page and one block at a time.
3. Abstract specifications worth stating: a session as a serial object that `Sessions`
   implements; the library as a set of documents that appear and disappear at once, which
   `Library` implements up to `debris` and `UploadPipeline` up to three requests for one PDF.
4. To model: the provider's structured call (attempts against a deadline), which would replace
   the choice "a node fails" in `AgentTurn`; the words of metrics in `Dataset`.
