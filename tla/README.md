# A verification project for the RERS backend

RERS records road events: edge nodes (cameras) report what they see, a language
model says whether a picture shows an accident, responders are notified, and an
operator's page shows the nodes and the events. The backend is a set of AWS
Lambda functions in Python over two DynamoDB tables and an SNS topic, put
together by `coreBackendSetup.tf`. There is no documentation and no test in the
repository: what the code intends is taken from its comments and responses.

## The system

| Part | State it keeps | Operations | Talks to |
|---|---|---|---|
| `EdgeNodeTable` (`coreBackendSetup.tf:622`) | a row per node: `node_status`, `last_seen`, name, coordinates | PutItem, UpdateItem, GetItem, Scan | all the functions below but the last three |
| `register_edge_point.py` (POST /edge-node) | none | one PutItem under a new id | `EdgeNodeTable` |
| `update_edge_node.py` (PUT /edge-node) | none | one UpdateItem of status and coordinates | `EdgeNodeTable` |
| `heartbeat.py` (PUT /heartbeat) | none | timestamp, GetItem, UpdateItem | `EdgeNodeTable` |
| `get_edge_node.py` (GET /edge-node) | none | GetItem, marks the node offline if it is late | `EdgeNodeTable` |
| `get_all_nodes.py` (GET /all-nodes) | none | Scan, marks every late node offline | `EdgeNodeTable` |
| `record_event_lambda.py` (POST /event) | none | checks the node, has the image validated, updates the node, stores the event, publishes it | both tables, the topic, `event_validate_lambda` |
| `event_validate_lambda.py` | none | asks the language model, parses the answer | SSM, the OpenAI API |
| `update_event.py` (PUT /event) | none | one UpdateItem of an event | event table |
| `get_event_lambda.py`, `get_all_events.py` | none | read the event table | event table |
| `SNS-message-receiver.py` | none | confirms a subscription, takes notifications | the topic |
| `coreBackendSetup.tf` | | tables, topic, routes, timeouts (30 s), permissions | |

Vendored libraries (the rest of `event_validate_lambda/`), the scripts
(`image-base64.py`, `test-openai.py`, `zipLambda.sh`), archives and pictures are
not modelled.

### What is hard

The functions keep no state and share nothing but the tables, and not one of
them uses a condition, a transaction or a consistent read. So whatever must hold
of a node has to survive

* *concurrent invocations*: `heartbeat`, `get_edge_node`, `get_all_nodes` and
  `record_event_lambda` all read a row, decide, and write it in a later call;
* *stale reads*: GetItem and Scan may answer from a replica that lags;
* *timestamps that are old when written*: `heartbeat` and
  `update_node_attributes` take `last_seen` before their table calls;
* *failures between steps*: an exception becomes a 500 (or, in
  `validate_image` and `update_node_attributes`, is swallowed), and the
  environment may end at any point, at the latest after 30 s;
* *UpdateItem creating rows* that nobody registered;
* *scans that see one page*: neither `get_all_nodes` nor `get_all_events` asks for
  more than the first 1 MB.

On the other side of the topic stands a server (`SNS-message-receiver.py`) to which
SNS delivers at least once and in any order, which may crash in the middle of a
request, and which swallows the failures of its own subscription.

`PROJECT.json` lists each place where one of these bites under `hazards`.

### What makes each part correct

* Heartbeats and polls: how far a race can take the row away from the truth is
  bounded by the replica lag and the Lambda timeout together, and it is put right
  by the next heartbeat or poll. They never create a node.
* The report pipeline: responders are notified only of events that are stored and that
  an analysis called an accident (with one exception, a denial in a text, see
  "Validation"); a device told "validated" can rely on both; an
  accident that has stood longer than the bound is not overwritten by a report.
* `update_event`: never removes an event.
* Event readers: what a notification names can be looked up, once the replica has
  caught up; the list leaves it out only if its page is full.
* The receiver: what it is sent is printed before it is acknowledged. (That a
  subscription it calls confirmed is one does not hold.)

## The modules

| Module | Models | State |
|---|---|---|
| `EdgeNodeTable` | the table, its replica, the clock | `nodes`, `replica`, `now`, and the history `changed` (when each attribute last changed) |
| `EdgeNodeHandlers` | register, update, heartbeat and the two polls | `calls`: what each Lambda environment is doing |
| `EdgeAuthors` | `EdgeNodeHandlers` with the history of who changed each status | the same, and the history `setBy` |
| `EventValidate` | `event_validate_lambda` and `validate_image` | none: an operator from replies to verdicts |
| `RecordEvent` | `record_event_lambda` and `update_event` | `reports`: each request's invocation; `events`; `topic` |
| `Rers` | all functions over one table and one clock (`EdgeAuthors` with `RecordEvent`) | all of the above |
| `NodeStatus` | abstract: what the node table promises to those who look at it | `rows`, `changed`, `now`, `setBy` |
| `EventPromise` | abstract: what POST /event and PUT /event promise to devices, responders and operators | `events`, `topic`, `believed`, `due`, `told` |
| `Scan` | the first page of a DynamoDB scan | none |
| `Responders` | SNS, the receiver, `get_event_lambda`, `get_all_events` | `subscription`, `inFlight`, `dropped`; `server`, `heard`, `lenient`; `visible`, `storedAt` |
| `Notified` | `RecordEvent` with `Responders` | both, and the history `sent` |
| `Service` | `Rers` with `Responders`: everything at once; proved about, too large to check | all of the above |
| `*_proofs` | the theorems about the module named | |
| `MC*` | values of the constants for TLC | |

`EdgeNodeHandlers` and `RecordEvent` EXTEND `EdgeNodeTable`. `EdgeAuthors` EXTENDS
`EdgeNodeHandlers`, and `Rers` EXTENDS `EdgeAuthors` and `RecordEvent`. `EdgeAuthors`
INSTANCEs `NodeStatus`, which it implements, and `RecordEvent` INSTANCEs `EventPromise`. `Notified` EXTENDS `RecordEvent` and INSTANCEs `Responders`
with the events of its own table. `Service` EXTENDS `Rers` and `Notified`.

**The table.** A row is `[exists, status, seen]`. `Write` is the only thing that
changes `nodes`; `UpdateItem` is DynamoDB's: it keeps the attributes it does not
name and makes the row if there is none. A read returns either the row or its
replica (`Readable`). The replica catches up one row at a time (`Replicate`), and
the clock does not move while it lags by more than `Lag` ticks. That bound is an
assumption about DynamoDB (which says "usually within a second"). Without it no
bound on a race exists, and with it every race bound is `Lag + Timeout`.

**Time.** `now` counts ticks. `Threshold` is `TIME_THRESHOLD_MINUTES * 60`,
`Timeout` the 30 s of every function, and `Timeout <= Threshold` is all that is
assumed of them. A tick stands for the resolution of the timestamps. The code
truncates to seconds in some places and not in others
(`record_event_lambda.py:169`); what that does within one second is below the
resolution of the model. The clock starts late enough for the default
`last_seen` of 0 to be late, as it is today.

**Invocations.** An invocation is split exactly where the code calls out: each
table call, SNS call and validation is a step, and so is reading the clock in the
polls, where it comes after the read and decides which rows are late. Two pieces
of local state are merged into the neighbouring step, because nothing else can
observe them: `last_seen` in `heartbeat` (taken when the invocation begins) and
the timestamp in `update_node_attributes` (taken when the verdict is in).
`register_edge_point` and `update_edge_node` make a single call and are one step; the
`last_seen` that `Register` puts is any time of the last `Timeout` ticks
(`RunningSince`), since the code notes it before the call.
`Fail` (`RecordFails`, `RecordKilled`) ends an invocation between any two steps.
A write whose answer is lost is a write followed by `Fail`. `WithinTimeout` lets the
clock move only if every invocation that runs is within its timeout then.

| Action | Code |
|---|---|
| `Register`, `UpdateEdgeNode` | the whole handlers |
| `HeartbeatBegin`, `-Get`, `-Update` | `heartbeat.py:10-24`, `26-31`, `33-59` |
| `GetEdgeNodeRead`, `-Judge`, `-Mark` | `get_edge_node.py:22-29`, `30-34`, `34-45` |
| `GetAllNodesScan`, `-Judge`, `-Mark` | `get_all_nodes.py:21-26`, `27-32`, `33-43` (one step per late row; in any order, since a scan has none) |
| `Reject`, `CheckNode`, `Validate` | `record_event_lambda.py:16-40`, `42-47`, `49-66` |
| `ReadStatus`, `UpdateNode`, `UpdateNodeFails` | `record_event_lambda.py:163-179`, `181-201`, `202-203` |
| `Store`, `Publish`, `Respond`, `RecordFails` | `record_event_lambda.py:67-84`, `86-88`, `90-96`, `98-99` |
| `UpdateEvent` | the whole of `update_event.py` |
| `Refuse` | what Flask does before `SNS-message-receiver.py:12` returns |
| `TakeConfirmation`, `ConfirmSubscription` | `SNS-message-receiver.py:11-25`, `41-53` |
| `TakeNotification`, `Answer` | `SNS-message-receiver.py:11-32`, and the answer on its way |
| `GetEvent`, `GetAllEvents` | `get_event_lambda.py:11-32`, `get_all_events.py:17-30`, as the set of answers possible in a state |

**Validation.** A reply of the language model is `[open, doc, close]`: what stands before
the document (nothing, ```` ```json ````, another fence, words), what kind of document it
is, and what stands after it. `OnReply` is the handler's clean-up, parse and result;
`ValidateImage` is what `record_event_lambda` makes of any payload. `said` remembers what
the analysis said to somebody who reads it, which the code does not keep: "yes", a
"quoted no", or "nothing" of the kind. The prompt asks for a boolean in an object. A text
in its place is true in Python whatever it says, so that `"accident": "false"` is
published like a confirmation (`record_event_lambda.py:54`). That is what the code does, and no comment
says otherwise. `PublishedWasConfirmed`, `AccidentBeginsForAReason` and
`HeardIsTrue` name this one exception and leave room for no other.

**Who did it.** An operator may write any status, so that from the table alone a poll that
marks a node for no reason could pass for an operator. `EdgeAuthors` therefore
records in `setBy` which function has changed each status. No step depends on
it, and every behaviour with it is one of `EdgeNodeHandlers` (`AuthorsImplementHandlers`).

**What the node table promises.** `NodeStatus` has no invocations, reads or replicas:
each function is one step on one row, taken on a view that is right but for what has
changed within the last `Window` ticks. `Beat`, for one, writes "online" if the node
may have been offline within the window, and `Lose`, which is both polls, may only mark a
node that looks lost. `Becomes` records the author of the change, and `EdgeAuthors` has the
same `setBy`, so that each function has to implement the action that bears its name.
It does with `rows <- nodes` and `Window <- Lag + Timeout`: whatever interleaves, a race is never
worse than a single step on slightly old news.

**What a report promises.** `EventPromise` has no nodes, invocations or clock: a report is
believed, recorded, published and answered, each at most once and in this order,
and may be given up at any point. `Claims` says what an answer is worth: "validated"
that the event was published, "invalid" that there is an event and no notification
of it is out or to come, a 400 or a 404 that there is no event. `RecordEvent` implements it
with `believed`, `due` and `told` computed from `reports` (a notification is due from
the put_item of a validated event until its publication or the end of the report).

**Scans.** Rows come in the order of a hash, and a page holds all of them or at least
`NodesPerPage` (`EventsPerPage`) of the first. `get_all_nodes` marks on that page
only. A page's exact length depends on sizes in bytes and is left open.

**Responders.** SNS repeats a message until it has the server's answer: a 200 or a
4xx, or it gives up. It delivers notifications to confirmed subscriptions only. `lenient`
says what the Flask there makes of `get_json()` on SNS's text/plain: None in older
ones, so that the handler parses the body itself, an exception in newer ones
(`Refuse`). `heard` is what the server has printed: it keeps nothing else. `AnswerLost` is
a crash and restart, or an answer too late for SNS.

**Each component by itself, and together.** `EdgeNodeHandlers` has an action for
what reports do to the table (`ReportLands`), `RecordEvent` one for what everybody
else does to it (`OthersWrite`). They are the assumption each makes about the
other. `Rers` has neither: it runs the real actions of both over one table and
implements both specifications (`ImplementsHandlers`, which is that of `EdgeAuthors`, and
`ImplementsRecordEvent`), so
that a property of either component is one of the service. `Service` adds the topic, the
receiver and the readers, and implements both `Rers` and `Notified`.

## The runs

Bounds: `MaxTime` stops the clock (and is in the guard of `AdvanceClock`); the
sets in the cfg files bound the rest. `MCRers` and `MCNotified` also restrict the
behaviours of some runs, as told below. There is no other bound. In the `Edge...` runs
for safety and in `RecordRaces` the clock runs long enough for a row to become late and for a
change to become older than `Lag + Timeout`, which is when a property could fail. In
`Rers` it stops sooner (the late rows there are the ones `update_edge_node` makes without a
`last_seen`): its question is whether each write of one component is one that the other
allows for, and that is also proved without bounds. Nodes do not interact except in a
scan, which is why one node is enough everywhere but in `EdgeScan` and `EdgeSilence`.

| Run | Instance | Shows |
|---|---|---|
| `EdgeRaces` | 1 node, 2 environments, threshold 3, timeout 1, lag 0 | the race bounds, `HeartbeatRevives` and `ImplementsNodeStatus`, for every pair of concurrent handlers |
| `EdgeLag` | 1 node, 1 environment, reports, lag 1 | the same with stale reads, `AccidentEndsForAReason` and `NotFoundIsNew`; the inductive invariant `HandlerInv` |
| `EdgeScan` | 2 nodes, 1 environment, reports | a scan marks the late rows only, one by one, with writes in between, all within one tick |
| `EdgeRevive` | 1 node that beats, 2 environments | `BeatingNodeRevives` |
| `EdgeSilence` | 2 silent nodes, one to a page, 1 environment | `SilentNodeGoesOffline`, `ScanOmitsTheOverflow` |
| `RecordRaces` | 1 report, lag 1, anything others may write | the pipeline's properties, `ImplementsEventPromise` and the inductive invariant `RecordInv` |
| `Rers` | 1 report, 1 environment, 1 node; `LeanSpec` | the refinements, `AccidentBeginsForAReason` |
| `Notified` | 1 report, a receiver with 2 threads, 2 event ids, one to a page | the way from the table to the responder; the inductive invariant `NotifiedInv` |
| `AccidentOverwritten`, `ValidatedUnmarked`, `FencedReply` | as `Rers`, the first with two reports and `ReportsAlone`, the third with `OnlyFencedReplies` | the first three disagreements below |
| `SubscriptionConfirmed` | as `Notified`, 1 thread | the fourth |

One report is enough in `RecordRaces`: a second report of the same node is, to the
first, one more writer of the row, and `OthersWrite` already writes anything that
one could. `Notified` has one event id that nobody stored, for `update_event` to
be called with by mistake; `RecordRaces` and `Rers` have none. Environments are interchangeable in `EdgeRaces`,
nodes in `EdgeScan` and threads in `Notified`, where symmetry is used; there is no
symmetry in the liveness runs. In `RecordRaces`, `Rers` and `Notified` event statuses are
"validated" and "invalid": an update may write either, and nothing would tell a third
one from them.

`Rers` runs `LeanSpec` of `MCRers`: of a single node, `get_edge_node` and `get_all_nodes`
read and write the same, so that only the second is called, and `update_event`, which touches no
row of a node, is left to `RecordRaces`. Two of the violations are constrained so that their
traces show one thing. In `ReportsAlone` nodes register and report, nobody else writes, and
the status that a report reads is up to date: what goes wrong is the order of two
reports alone. In `OnlyFencedReplies` every reply stands between plain fences.
`EdgeScan` has a `Timeout` of 0, for with two rows more would be too many states: a
mark that comes a tick after the scan is in `EdgeRaces` and `EdgeLag`, and in the theorem.

`Notified` runs `QuietSpec` of `MCNotified`: others register the node and then leave
its row alone, since what they may write to it is the question of `RecordRaces`, and
nothing on the way to the responder reads it. Its lags and timeouts are 0 and its clock
stands still or moves by one tick, enough for an event to be older than `EventLag`; the
proofs have none of these bounds. In that run the id of a mistaken update comes
before the event in the order of the hash, so that a full page may leave the event out.

### Properties

* `ReadsAreRecent`: when a handler holds a row that no longer agrees with the
  table, the difference is younger than its own start minus `Lag`.
* `NoPhantomRows`: heartbeats and polls create no rows, though UpdateItem would.
* `LastSeenRegressionBounded`: a late heartbeat takes `last_seen` back by at most
  the timeout, and never so far that the node looks late.
* `WrongOfflineIsRecent`, `LostAccidentToReportIsRecent`: a node in order is marked
  offline, and an accident overwritten by a report, only within `Lag + Timeout` of the
  change that was missed.
* `AccidentEndsForAReason`: an accident ends because an operator says so, because the
  node has been silent for longer than the threshold, or because of a change
  that young; no poll, heartbeat or report takes one away otherwise (`setBy` tells who).
* `AccidentBeginsForAReason`: an accident begins because an operator says so or with the
  update step of a report of that very node, whose analysis called it an accident (or
  denied it in a text); no heartbeat, poll, registration, failed validation or
  denial in the form that was asked for makes one.
* `HeartbeatRevives`: the row a heartbeat leaves behind is not offline, unless the mark
  is so young that the heartbeat may have missed it.
* `NotFoundIsNew`, `RefusedIsNew`: a heartbeat, or a report, of an existing node is
  answered with 404 only while the row is new.
* `ScanOmitsTheOverflow`: a poll leaves out new nodes, and nodes behind a full page of
  others in the order of the hash.
* `ImplementsNodeStatus`, `ImplementsEventPromise`: the refinements above.
* `PublishedIsStored`, `AnswersStayTrue`, `PublishedWasConfirmed`: the pipeline in spite
  of every failure. The second says what an answer is worth (`Claims`), and that
  nothing that happens later makes it untrue; the last that the pipeline fails closed, but
  for the denial in a text.
* `HeardIsTrue`, `HeardNodeIsFound`, `MissingIsRecent`, `ListOmitsTheOverflow`: what a
  responder hears of was called an accident by an analysis (or denied in a text), is stored and is never denied to the device; its
  node exists; both can be looked up but for the replica's lag; it is in the list but
  for that and a full page before it. They depend on the order check, store, publish,
  and on a failed store ending the report.
* `NotificationsAreNotLost`: what was published to a confirmed subscription is on its way,
  printed, or known to SNS as undelivered, whenever the server crashes.
* `BeatingNodeRevives`, `SilentNodeGoesOffline`: races are put right.

### Fairness

`Progress`: an invocation that Lambda has accepted goes on or ends (the timeout
sees to it). `BeatFairness` and `WatchFairness` are about
the outside: the nodes of `Beating` keep sending heartbeats, or somebody keeps
listing the nodes; again and again a request finds a free environment, and not
every single one of them fails at the same call (strong fairness of each step:
between two chances `Fail` may win any number of times). Nothing is assumed of
operators, single-node polls or reports. Replicas catch up: under `WatchFairness` it
is enough that they do when the table rests, under `BeatFairness` they must
do so again and again though heartbeats keep changing the row. `SilentNodeGoesOffline`
is about nodes on the first page only: beyond it nothing ever marks a node.
`Responders` has no fairness and `Notified` no liveness: SNS may give up, and a report
may fail at any step, so that nothing there must happen. The code has no timer, so
`SilentNodeGoesOffline` needs somebody to poll: without `WatchFairness` it is false.

### Where the code and its comments disagree

* `record_event_lambda.py:181` says that the status is only updated if it is not
  already "accident"; read and write are two calls. Two reports of one node both read
  "online", one writes its "accident", and the other, whose verdict is none, writes
  "online" over it (`AccidentOverwritten`).
* `record_event_lambda.py:64` says that the node is set to "accident" for
  validated events; when that update fails the exception is swallowed and the event
  is stored and published all the same (`ValidatedUnmarked`).
* `event_validate_lambda.py:73` says that extra formatting is removed; an answer
  between plain fences is not parsed, and an accident it reports is stored as invalid
  (`FencedReply`).
* `SNS-message-receiver.py:26` answers "Subscription confirmed" also when
  `confirm_subscription` has failed; SNS then has its 200 and does not ask again
  (`SubscriptionConfirmed`).

## The proofs

Proved for any nodes, environments, requests and statuses, any `Threshold`,
`Timeout <= Threshold`, `Lag` and `MaxTime` in Nat, from the assumptions named in the modules
(`StatusesAssumption`, `TimeAssumption`, `DevicesAssumption`, `RequestsAssumption`,
`ReportingAssumption`, `PageAssumption`, `MessagesAssumption`):

* `EdgeNodeTable_proofs`: every write, replication and tick keeps `TableInv` (what a
  replica has missed is younger than `Lag`; its rows exist; no `last_seen` lies in
  the future); a row that a read misses is new.
* `Scan_proofs`: a page that leaves a key out is full, what is left out comes after what
  is not, and what fits a page is on the page whole.
* `EdgeNodeHandlers_proofs`: `HandlerInv` is inductive, hence `TypeOK` and
  `ReadsAreRecent`; from it, the action properties of the runs. `SmallFleetsAreSeen`
  says when the missing LastEvaluatedKey does no harm.
* `EdgeAuthors_proofs`: `AuthorsImplementHandlers`, so that `HandlerInv` holds here too;
  from it `AccidentsEndForAReason`, and `HandlersKeepPromise`: every step is the step of
  `NodeStatus` with the same author, or none.
* `RecordEvent_proofs`: `RecordInv` is inductive, hence the type invariant and the
  pipeline's safety properties; from it, `LostAccidentToReportIsRecent`,
  `RefusedIsNew` and `RecordKeepsPromise`: every step is one of `EventPromise` or none.
  `AnswersAreKept` is proved of `EventPromise` and carried over by the refinement.
  `RepliesAreJudged` says which of all replies the code takes for a yes: the objects that
  say "yes" or deny in a text, if they stand alone or between fences that open with
  ```` ```json ````; all other confirmations are lost, and all other denials respected.
* `Rers_proofs`: both specifications are implemented, `AccidentsBeginForAReason` needs
  both invariants (and that `setBy` has an author for every change), and `RersIsSafe` draws the conclusion.
* `Notified_proofs`: every step is one of `RecordEvent` or none, so that `RecordInv`
  holds; with it, `NotifiedInv` is inductive, and the five properties follow.
  `ShortListsAreComplete` is `SmallFleetsAreSeen` for events.
* `Service_proofs`: the whole service implements `Rers` and `Notified`; `ServiceIsSafe`
  has every safety property of the runs that is proved of either.

The properties are not inductive. That a poll marks a node wrongly only within
`Lag + Timeout` needs to know, when it marks, that the row was late *when read*
and that whatever the read missed is recent; that in turn needs the age of the
invocation to be bounded (`CallInv`, first conjunct) and the replica to have been
recent when it was read (`TableInv`). `NoPhantomRows` needs that a row once seen
stays, also when it was seen in the replica. In the pipeline each program counter
carries what the earlier steps have left behind (`ReportInv`): an event is in the
table before "publish", in the topic before the answer "validated", and `accident`
implies that `said` is not "nothing". `NotifiedInv` adds that what is in flight or heard is in the
topic, that a thread about to answer 200 has its message in `heard` already, and
that what the replica of the event table has missed is younger than `EventLag`.

The refinement of `NodeStatus` rests on `HandlerInv`: an invocation that writes has
read its row within `Lag + Timeout`, so that either what it read still stands, or it
changed within the window, and the abstract step may take the same view.

The refinement of `EventPromise` rests on `RecordInv`: a report that has not been stored
has no event, one that is about to be published has been stored as validated after an
analysis that is believed, and no two requests share an id. An operator's update is an `Update`
there, for it never hits a report that is still to be recorded. That answers stay true
takes an invariant of the abstract specification only: no notification is due of a
report that has been answered (`PromiseInv`).

A composition implements a component because the invariant of the *other* component
shows that its writes are within what the first allows for: a report updates a row
within `Timeout` of its timestamp and only if the row exists (`ReportInv`, hence
`ReportLands`), a heartbeat likewise (`CallInv`, hence `OthersWrite`). `Service`
uses the same lemma once more: it implements `Rers` by forgetting the responders, so that
`RersInv` holds of it, and that invariant makes each handler's step an `OthersWrite`
of `Notified`.

Only model-checked: liveness, `BeatingNodeRevives` and `SilentNodeGoesOffline` (it needs
fairness and ENABLED, which are out of the prover's reach; what is proved in their
stead is the part a single step contributes, `HeartbeatRevives` and
`ScanOmitsTheOverflow`), and the disagreements, which are counterexamples. Only proved:
`Service`, whose parts are model-checked by themselves but whose product is too large.

## Not modelled

* The libraries unpacked beside `event_validate_lambda.py` (openai, aiohttp, requests,
  urllib3, yarl, idna and what they need: nearly all the lines of Python in the
  repository). They are third-party code, deployed unchanged; the project's own code is
  the ten functions, the receiver and the Terraform file. So the share of all lines that
  the models stand for is small, and it cannot grow without modelling those packages.
* Input validation that only answers 400, the contents of answers, coordinates,
  names, pictures and categories; so neither which numbers `register_edge_point`
  refuses nor the Decimal that `heartbeat` cannot print.
* API Gateway, which gives up after 29 s while the function goes on: for the device this
  is an answer that never came, which no property relies on.
* Retries of the OpenAI and boto3 clients: they are inside a step that takes any
  time within the timeout and may fail.
* Stale contents of an event: `GetEvent` tells whether an event is found, not which
  of its statuses is read.
* IAM policies, permissions and deployment: they have no behaviour.
* Concurrency limits of Lambda: `Envs` is any set. A device's repeated request is
  another request.
* Scripts run by hand (`image-base64.py`, `test-openai.py`, `zipLambda.sh`).

## Plan

Done, in this order: `EdgeNodeTable`, `EdgeNodeHandlers`, `EventValidate`,
`RecordEvent`, `Rers`; then `NodeStatus` and its refinement (`EdgeAuthors`), pages of scans
(`Scan`), `Responders` and `Notified`; then `EventPromise` and its refinement, and
`Service`; each with its proofs. What is left:

1. What `NodeStatus` itself guarantees, proved there and carried over by the refinement as
   `AnswersStayTrue` is: the bounds on accidents and marks, which are now proved of
   `EdgeNodeHandlers` and `EdgeAuthors` directly.
2. What a poll that comes to its end has marked, as the safety part of
   `SilentNodeGoesOffline`.
3. `Requests`: what each handler accepts and refuses (numbers, required fields,
   statuses), as pure operators against a reference definition.
4. A device that repeats a report, and events told apart by what they report.
