# Verification of the robot-side runtime

This directory specifies and checks the robot-side runtime of the repository: a
receding-horizon control loop that asks a remote π0.5 policy server for chunks
of actions, executes the first few of each chunk, and must hold the robot when
anything goes wrong. The source is the reference: each definition of a module
translates code, and `PROJECT.json` ("map") names the lines.

## The system

| Component | State it keeps | Operations | Specified in |
|---|---|---|---|
| Process-owned transport (`remote_client.py`, `ProcessOwnedTransport`, `_process_transport_worker`) | the current child process, its two queues, the request id; the children that are still running; their sockets | `infer`, `reconnect`, `close`, `_ensure_worker`; the loop of the child | `ProcessTransport` |
| Thread-bounded client (`remote_client.py`, `BoundedRemotePolicyClient`) | the transport it was given; one thread per call, late ones included | `infer`; the exit of the program, which waits for the threads | `BoundedClient` |
| Receding-horizon runtime (`runtime.py`, with `contracts.py`, `adapters.py`, `safety.py`, `simulation.py`) | configuration, metrics; position inside the run and the chunk; commands and holds of the mock robot | `run`, `_request_policy`, `_fail_safe_hold` | `ClosedLoop` |
| Typed OpenPI client (`official_openpi.py`, `observation_builder.py`, `mock_openpi_bridge.py`) | none of its own | building the wire observation, calling the transport, decoding the chunk; thread-confined or thread-bounded | `RuntimeSystem` and `BoundedSystem` (with the components above) |
| Panda action bridge (`panda_bridge.py`, `panda_task.py`) | none | limits and steps of joint targets, reach predicate | `PandaBridge` |
| Panda episode scripts (`scripts/run_remote_pi05_panda_*.py`, `run_remote_stage18_held_out_evaluation.py`, `collect_remote_stage18_adapter_data.py`, `run_remote_panda_reach_baselines.py`, `run_remote_stage20*.py`) | transport, simulator, counters per episode and over all episodes | episodes with injected faults, holds, reports | `PandaEpisodes` |
| Verified asset download (`scripts/download_verified_panda_menagerie.py`) | final and `.partial` files on disk | resumable download, verification, promotion | `AssetDownload` |
| Control studies (`run_remote_stage20_control_feasibility.py`, `run_remote_stage20b_control_contract.py`) with their preregistered rules (`stage20.py`, `stage20b.py`) | development rows, the selected condition, final rows; `report.json` | development episodes, selection, final episodes, report | `ControlStudy` |
| Data collection and training (`collect_remote_stage*.py`, `analyze_remote_stage22_probes.py`, `train_stage*.py`) with their splits (`stage21a.py`, `stage22.py`) | rows in memory; `pilot.json`, `data.json`, the report of the analysis | warm-up, requests, pilot gate, analysis | `ProbeStudy` |
| Metrics and diagnostics (`metrics.py`, `embodiment_diagnostics.py`, `stage19_analysis.py`) | none | percentile, labels of failures, interpretation of an action | not modelled, but for the interpretations in `PandaEpisodes` |
| Smoke tests of simulator and bridge | the physics of the simulator | one scripted motion | not modelled |
| Analysis and profiling scripts | rows of reports | those that call `ClosedLoopRuntime.run` several times | as callers, in `RuntimeSystem` |

How they interact: the scripts build one transport and one typed client, wrap
them in a bridge that adds static camera frames, and call
`ClosedLoopRuntime.run`, possibly several times. A step of the loop is a
synchronous call through all layers: `run` → bridge → typed client →
`transport.infer`. The transport talks to its child only through two
`multiprocessing` queues; the child talks to the server over one WebSocket. The
only signals back into the loop are a returned payload and an exception.

What is hard about it:

- *Late answers.* A deadline does not cancel a request. The answer may be on a
  queue or a socket when the next request is made, and must not be executed.
- *Failures between two steps.* Children crash, cannot start, hang, lose their
  connection or cannot pickle their reply; `terminate()` is only a signal and
  `join()` may expire; `KeyboardInterrupt` passes the `except` clauses.
- *Failures between two actions.* Validation, adaptation or filtering may raise
  after part of a chunk was executed; whichever layer fails, the run must end in
  exactly one hold.
- *Bookkeeping.* Horizon, chunk length and remaining budget meet in one slice;
  the metrics are written on several paths and outlive a run.
- *Liveness.* The server may never answer, and still every call and every run
  has to come back, and the program has to be able to end.
- *Scripts that meet in files.* Collections and analyses are started by hand,
  stopped anywhere and started again; each writes its file only at its end, by
  truncating the old one, and turns a failed request into a row.

`PROJECT.json` ("hazards") lists each of these at its line, with the properties
that would catch it going wrong.

What makes each component correct:

- transport: the payload of a call is the answer to that call's observation; a
  child that missed a deadline is never asked again; no child is left behind; a
  call always returns;
- thread-bounded client: the same, provided the caller reconnects after an
  unconfirmed request, as the class asks;
- runtime: rows of the newest chunk, in order, at most a horizon of them; a hold
  is final and an unfinished run has one; the metrics tell what the robot got;
- the assembled system: only actions computed from the newest observation are
  executed, no observation is sent twice, every run returns;
- bridge: a command stays inside the joint limits and within one velocity step
  of the position it was computed for;
- episodes: the arm only moves for an action computed from where it is, every
  episode is carried through or held and has its row, and the counters of the
  report are those of the robot;
- download: a target is absent or verified, the status never says more than
  that, and what was fetched when a transfer begins is not taken back;
- studies: a report that can be read is about one complete collection, with
  nothing learned from what it is scored on, or about the condition the declared
  rule prefers, with every final pair of target and controller.

## Modules

```
PolicyCall          what a policy transport promises: a synchronous call
  ^ implements        ^ implements (caller reconnects)
ProcessTransport    BoundedClient
  |                   |
  +- RuntimeSystem    +- BoundedSystem      with the typed client and ClosedLoop
  |     | implements        | implements (caller reconnects)
  +-- ClosedLoop  <---------+
        | implements
      RecedingHorizon   what a run promises

PandaBridge  <- PandaEpisodes     the bridge, and the scripts that use it
AssetDownload                     stands alone
Study  <- ProbeStudy, ControlStudy  <- Studies    scripts that meet in files
```

`XProofs` holds the theorems about module `X`; `MCX` is the module the
configurations instantiate.

### PolicyCall

Two actions: a call begins, a call finishes with the answer to *its own*
observation or with an exception. Call number n carries observation n. It is
read off the `OpenPITransport` protocol and its two implementations, and its
fairness says that a call finishes.

### ProcessTransport

One caller thread and the children it starts. Every start of a child makes a new
*generation* g with its own pair of queues, as `_ensure_worker` does; a
generation that was closed may still be running. The caller's program counter
`pc` says in which blocking call it is (`starting`, `waiting` and `joining` are
the three `get`/`join` calls with a timeout); between two blocking calls the
code runs without interaction and is one action. So `InferOnLiveWorker` is
`infer` up to its `get`, with `_ensure_worker` finding the child alive;
`InferStartsWorker` is `_ensure_worker` up to its `get`; each outcome of a `get`
is an action: `StartupReady`, `StartupFails`, `StartupTimesOut`,
`ReplyIsMalformed`, `ReplyIsMismatched`, `ReplyIsError`, `ReplyIsAnswer`,
`RequestTimesOut`, `CallIsInterrupted`. `close(force=True)` is part of the
actions that call it (`CloseForced`), and an action of its own for `reconnect`.

A child is a loop: `WorkerConnects` or `WorkerCannotConnect`, then
`WorkerTakesRequest`, `WorkerSends`, `WorkerReceives`, or `WorkerTakesClose`.
`transport.infer` is split at the only point that matters, between send and
receive, because the `except BaseException` of the loop also catches what is
raised between the two. The socket is the sequence `wire[g]` of observations
whose reply was not read, so what is received is the *oldest* reply, whatever
request it is received for. Children crash at any time, die of SIGTERM at any
later time, lose their connection, and drop replies that cannot be pickled.

Observations are named by the call that carries them: an answer is stale exactly
when its observation is another call's. The content of observations and
payloads is abstracted away, except that a payload may fail to be a dictionary.

Two switches choose what is assumed of the surroundings. `CallerMayInterrupt`:
`KeyboardInterrupt` may reach the caller in a `get`. `RecvMayAbort`: the child
may leave `recv()` with an exception and the reply unread (Ctrl-C reaches the
whole process group, and the loop goes on after catching it).

Abstractions: an interrupt is modelled in the two `get` calls of `infer`, not in
the `join` of `close`; the time a `join` takes is abstracted to either outcome;
request ids are bounded by the number of calls.

### BoundedClient

Each call of `infer` has a thread that runs `transport.infer` once: submitted,
sending, receiving, done, or cancelled before it began. `future.result` ends in
`ResultIsPayload`, `ResultIsError`, `ResultIsTimeoutError`, `DeadlineExpires` or
`CallIsInterrupted`; the last three leave the call *unconfirmed*. Threads of
earlier calls go on at their own pace on the socket of their transport. The
transport is injected and therefore external: its actions are a send and a
receive of the oldest reply; it may refuse a second receiver, raise, time out on
its own or lose its connection. `ResultIsTimeoutError` is there because
`requires-python` is 3.11, where the `TimeoutError` of
`concurrent.futures` is the built-in one.

A client keeps the transport it was given, so "reconnect" is a new client around
a new transport (`NewConnection`). `CallerReconnects` says whether the caller
does that after an unconfirmed call, as the docstring asks.

### RecedingHorizon and ClosedLoop

`RecedingHorizon` is the promise of a run: ask, execute at most `horizon`
actions of the answer, ask again, until the budget is used up or the robot
holds.

`ClosedLoop` is `ClosedLoopRuntime.run`, one action per step of the loop:
`StartRun`, `BudgetUsed`, `RequestPolicy` (observe and call), then the policy
raises (`PolicyRaises`), is interrupted (`RunIsInterrupted`, which a history
variable records) or answers (`PolicyAnswers`: count, validate, cut to
`actions_to_execute`), and `ExecuteAction` or `ActionRaises` per action.
`FailSafeHold` is `_fail_safe_hold`. The metrics are those of the runtime
object: they go on over its runs. An action is abstracted to its length and to
whether its values are inside the filter's limits, outside, or not finite; this
is all that `ActionChunk.validate`, the adapter and the filter tell apart when
they decide to raise or clip. Chunks range over *all* sequences of actions up to
the bound, empty and ragged ones included.

### RuntimeSystem

The two machines composed, with one variable of its own: `carried`, the
observation each call of the transport carried. While `run` is inside `infer`
(`loop = "calling"`) the transport may work; the return of `transport.infer` and
what client and `run` do with it are one step (`CallFails`, `AnswerIsRefused`,
`AnswerIsDecoded`). A decoded chunk is valid and of length eight per row, as
`_to_policy_response` validates it; whether building an observation or decoding
an answer raises is a free choice. Between runs the script may reset or close
the transport.

### BoundedSystem

The same composition for the other mode of the typed client, which is its
default: `ClosedLoop` over `BoundedClient`. `CallClient` is the call, and the
return of the client with what `run` does about it is one step (`ClientRaises`,
`AnswerIsRefused`, `AnswerIsDecoded`). What an answer is about is what the
payload was computed from, whichever thread read it: `AnswerIsDecoded` hands the
loop the observation `carried` by the call the payload answers, and nothing
makes it the newest one. `ThreadSteps` are the threads of all calls, inside and
between runs; `ClientIsReplaced` is a program that builds a new client between
two runs, which `CallerReconnects` makes it do after an unconfirmed call.
`ExitBegins` is the end of the main thread and `ThreadsAreJoined` the hook by
which `concurrent.futures` waits for every thread of every pool;
`shutdown(wait=False)` has only put this off.

### PandaBridge

`to_position_command` as operators: limit the velocity, integrate over one
control period, limit the target, limit the gripper, and say whether any of this
changed the action. Numbers are integers in a unit in which positions,
velocities times the period and gripper openings are whole; the rounding of
floats is left out. NaN and the infinities are the one value `NotFinite`.
Lengths are fixed by typing: every caller takes positions and actions from
places that have the right number of them. `IsSafeCommand` says what may be
commanded to a robot that is at a position.

### PandaEpisodes

The scripts that drive the simulated Panda share the simulator, the bridge and
the shape of their loops, so they are one module with the variable `script`, and
operators say where they differ:

| Difference | Operator | Code |
|---|---|---|
| which failures become a hold, and which leave the script | `GuardsExecution`, `GuardsObservation` | what the `try` of the script covers |
| when an answer is counted | `CountsAnswers` | before or after the bridge accepted it |
| how many episodes and replans | `Episodes`, `Steps` | targets, conditions or samples; one for the demo |
| where an action comes from | `HasPolicy`, `ArmsOf`, `AdapterActions`, `Interpretations` | policy, policy and adapter, or a controller |

`StartEpisode` is the reset (a new position, actuators at home, fresh counters),
`Observe` reads positions and renders, `PolicyAnswers` and `PolicyRaises` are
the typed client, `Execute` is the bridge, the actuators and the physics of a
control period, `BridgeRefuses` its `ValueError`; `ExecutionRaises` is an
execution that breaks off after the actuators were written and before anything
was counted: in the physics, or, in the two scripts that measure the movement
outside of a `try` (`MeasuresMovement`), after it. `PictureRaises` is the
picture the baselines save before they add a row. `SafeHold`, `Record`, `Finish`
and `Abort` are the `except`, the row, the report and the `finally`. After
physics, positions are *any* of `Positions`, also outside the limits or not
finite. `asked`, `moved` and `movedInAll` are history: the position of the last
observation, and what the simulation executed to its end.

Abstractions: an arm of the held-out evaluation is a free choice per episode
(the code runs all arms of a condition, which are episodes to the module); the
mismatch diagnosis executes any `MaxSteps` of its interpretations; of the two
control experiments only the controllers that use the bridge are modelled;
images, distances and the reach predicate are left out, and reaching a target is
a free choice where it ends a loop.

### AssetDownload

One action per step of `main` and `download` between which the script may be
killed: `ReadManifest`, `TargetIsVerified` or `TargetIsMissing`, `StartCurl`,
`CurlEnds`, `PartialIsVerified`, `SourceFails` (next mirror) or
`VerificationFails`, `Promote`, `WriteStatus`. Files are sequences of blocks, a
blob is `<<1, ..., n>>` and 0 is a block of anything else, so a verified file is
one that equals its blob. Curl is external. It asks for what comes after the
partial file; a range request gets the right range or nothing, and the answer to
a request for a whole file may be any page (`MayBeWrong`; `--fail-with-body`
saves error pages, too). It writes block by block (`CurlWrites`): to a file it
resumes by appending, to a new one, which it empties as it opens it, by position
(`Written`). An attempt that fails is made again (`CurlRetries`; the script
passes `--retry 3 --retry-all-errors`), and before that curl sets the file back
to the length it had when the transfer began (`SetBack`), so what failed
attempts fetched is lost. `began` is history: the partial file as it was then.
When the interpreter is killed, curl may live on as an *orphan* that writes to,
and sets back, the file it has open, also after that was renamed.

Abstractions: blobs are not empty; the manifest comes with sizes (Tree API) or
without (local Git tree), which is all that differs.

### Study, ProbeStudy, ControlStudy and Studies

`ProbeStudy` is a collector script (stages 18, 21A, 22 and 23) and an analysis
script (all but stage 23), each started by hand and stopped anywhere, possibly
at the same time. The variable `study` says which stage it is, and operators say
where stages differ: `HasPilot` (a pilot mode and a warm-up request),
`PilotPasses` and `PilotIsJudged` (the gate, and the `max()` over pairs that
raises without a pair), `Split`, `Accepted` (the assertion of the analysis, or
its absence), `LearnedFrom` and `ScoredOn` (the rows that fits, normalisation,
shuffles and early stopping depend on, and the rows the metrics are computed
over). A row is abstracted to whether its request was answered, because requests
are made in one fixed order; a fit to the rows it depends on. A file is absent,
torn or whole: `Path.write_text` truncates (`FileIsOpened`, `ReportIsOpened`)
and then writes (`FileIsWritten`, `ReportIsWritten`).

`ControlStudy` is the script of stages 20 and 20B: `DevelopmentEpisode` in the
order of the two loops, `ConditionIsSelected` by `Rank`, the tuple whose minimum
the code takes, `FinalEpisode` for each target and controller, and the report.
The rows of a condition are kept as their number and their sums, which is all
the rule asks of them; means over equally many rows compare as sums. Distances
are numbers (a distance that is NaN is left out).

`Studies` puts the two side by side: a behaviour carries out one of the six
studies, and only that one moves.

## Runs

| Run | Configuration | What it shows |
|---|---|---|
| `transport_safety` | 3 calls, 2 children, both switches on | `TypeOK`; `NoChildIsLeaked`; `RetiredIsNeverReused`; `StaleReplyNeedsInterrupt`: the id check fires only after an interrupt; `StaleAnswerNeedsKeptChild`: a stale answer gets past the id check only through a child that was kept after an error reply |
| `transport_unconfirmed` | 2 calls, 2 children, interrupts of the caller | *violated*, see "Findings" |
| `bounded_shared` | 2 runs of up to 2 actions, 4 calls, 2 transports, a caller that does not reconnect | `BoundedSystemTypeOK`, `StaleNeedsUnconfirmed`, `LateRequestIsUnconfirmed`; `StaleActionNeedsUnconfirmed`: what it takes for the robot to execute an action about an old observation; `EveryBoundedRunReturns`; `ExitHangsOnUnconfirmedOnly` |
| `bounded_reconnecting` | 2 runs of up to 2 actions, horizon 1 or 2, chunks of up to 2, 3 calls, 2 transports, a caller that does | `OneThreadPerSocket` and the refinements of `PolicyCall` and `ClosedLoop` |
| `closed_loop` | 2 runs of up to 3 actions, horizon 1 or 2, chunks of up to 3 | `LoopTypeOK`, `RowsOfLatestChunkInOrder`, `HoldIsFinal`, `UnfinishedRunHolds`, `MetricsTellTheRobot`, `ValidatedChunkIsExecutable`, and the refinement of `RecedingHorizon` |
| `system` | 2 runs of up to 2 actions, 3 calls, 2 children, interrupts | `PayloadIsForThisCall`, `ExecutedActionIsFresh`, `ObservationIsAskedOnce`, `EveryRunReturns`, `DroppedChildrenDie`, and the refinements of `PolicyCall` and `ClosedLoop` |
| `panda_episodes` | every script, 2 episodes of 2 replans, 2 joints | `EpisodeTypeOK`, `ActuatorsAreSafe`, `MovesFromObservedPosition`, `CountersTellTheRobot`, `ReportIsWhole` |
| `held_out_refusal` | 1 episode | *violated*, see "Findings" |
| `asset_download` | 3 starts, 2 mirrors, a retry per transfer, files of 2 blocks and of 1 | `DownloadTypeOK`, `SpoiltTargetNeedsOrphan`, `StatusNeverOverstates`, `FetchedBytesAreKept` |
| `download_resume` | 1 start, 3 retries per transfer | *violated*, see "Findings" |
| `studies` | every study; 2 collections of 3 groups with 2 requests each, a pilot of 3; 2 runs of a control study of 2 conditions on 2 targets | `StudiesTypeOK`, `RecordedFilesAreSound`, `ReportIsOfDeclaredRule` |
| `pilot_gate` | 2 collections | *violated*, see "Findings" |

Every property of a passing run has a mutant in `PROJECT.json`: a small
plausible bug of the code (a dropped id check, a child kept after a timeout, a
hold that does not return, a forgotten limit) under which the same run finds the
property violated.

Why the bounds are enough for the cases that matter. Staleness needs a request
that was abandoned and one that comes after it; the third call shows the state
after a recovery. Two children are an old generation that still runs and a new
one. In the loop, a chunk longer than the horizon, a horizon longer than the
rest of the budget and a chunk shorter than both all occur with budget 3,
horizon 2 and chunk 3; two runs show what outlives a run. Two runs of two
actions are also the least for a stale action over the thread-bounded client:
one run to abandon a request, one to execute its answer. In `bounded_shared` the
four calls are the most the runs can make; where a run meets the bound on calls
or children it goes on as if building the observation had raised, so a bound
never keeps a run from returning. For the bridge, one of the two joints starts
within a step of its limit, and the actions are too fast upwards, too fast
downwards, too wide for the gripper, and none of it; the positions include one
at a limit, one outside and one that is not finite. Two episodes show what one
leaves to the next, two replans what a failure leaves of an episode. For the
download, two blocks are the least of which a part can be retained, an answer of
three is longer than any blob, and three starts are a kill, a resumption and
what follows it. One retry per transfer stands for the three of the script,
because a retry brings the transfer back to where it began; the theorems hold
for any number. For the studies, each split has a group, a group has two
requests, so that it can be answered in part, and two collections are one to be
read and one to overwrite it. Two conditions on two targets tie in successes and
distances, where the number of steps (stage 20), the clips and the declared
order (stage 20B) then decide. As the two conditions differ in their steps, the
keys that come after them in stage 20, the period and the declared order, never
decide in the run; `ReportOfDeclaredRule` covers them, for all conditions. What
the bounds cut off is covered by the theorems.

Deadlock is checked in the runs of `ProcessTransport`, where a caller that is in
no call can always reset or close; the other configurations switch the check
off because the program ends after its last run or call.

### Fairness

Fairness is assumed only of the robot-side thread and of the operating system:

- a wait of the caller ends (`WF(WaitEnds)`), as `Queue.get`, `Process.join` and
  `future.result` have timeouts, so one of the actions that end a wait is always
  possible;
- a process whose main function returned, or that was sent SIGTERM, ends;
- in `RuntimeSystem` and `BoundedSystem`, the thread inside `run` goes on
  (`RunSteps`, `BoundedRunSteps`), and at the exit a join of threads that have
  all ended returns.

`PandaEpisodes`, `AssetDownload` and the studies have no fairness: their runs
only check safety. Nothing is assumed of the server, the network, the children
or the threads of the bounded client: the server may never answer.

## Findings

`transport_unconfirmed` (documentation and code disagree). The class says of an
unconfirmed request that "the process is terminated and the instance is
closed", and `docs/STAGE_07_PROCESS_OWNED_DEADLINE_TRANSPORT.md` that it
"terminates that child and is never reused". This is so when a deadline expires.
When a `KeyboardInterrupt` ends the `get` of `infer` (`remote_client.py:145`),
the request has no reply either, but only `Empty` is caught: the child stays,
and the next `infer` finds it alive and queues its own request behind the
interrupted one. Neither text mentions interrupts, and the consequence is
bounded: the late reply has another id and is refused (lines 151-153), which
fails one more call and closes the child. `UnconfirmedNeedsAnInterrupt` proves
that there is no other way to it.

An *error reply*, which confirms its request, also leaves the child in place
(line 154), and that is the only way a stale answer can get past the id check: a
child whose `recv()` was left with the reply unread reports an error, is kept,
and answers the next request with the old reply under the new id
(`StaleAnswerNeedsKeptChild`, checked with `RecvMayAbort` true).

`held_out_refusal` (documentation and code disagree).
`docs/INTERVIEW_GUIDE.md:35-36` has the runtime enter "a traceable safe hold on
policy or adapter failure", and
`docs/STAGE_18_FROZEN_POLICY_ACTION_ADAPTER.md:27-29` an adapter that cannot
bypass safe holds. `run_episode` of the held-out evaluation calls
`apply_command` (line 116) after the `try` that turns failures into a hold;
`combine_residual_action` checks lengths, not values, so a residual that is not
finite reaches the bridge, whose `ValueError` ends the evaluation: no hold, no
row, no report.

`download_resume` (message, documentation and code disagree). A failed
verification says "partial is retained for resume" (line 178), and
`docs/STAGE_08_SIMULATION_READINESS.md:74-76` that the downloader is resumable
and falls back to another mirror. A wrong answer to the request for a whole file
stays in the partial file as its beginning: a page that comes with a success
status, or the error page of the last attempt, which `--fail-with-body` saves
and no retry sets back any more. The next mirror and every later start append to
it. It is discarded only if the manifest knows the size (the local one does not)
and the file is longer than that.

`pilot_gate` (documentation and code disagree).
`docs/STAGE_22_COUNTERFACTUAL_INTENT_BENCHMARK.md:82-85` lets the collection
proceed only after a pilot that passed, and
`docs/STAGE_23_UPSTREAM_REPRESENTATION_PROBE.md:55-60` forbids the full
extraction after one that did not. The mode is a flag of the command line;
`--mode full` reads no `pilot.json`, and the report of a full collection of
stage 22 says `pilot_gate_passed` whatever the pilot said
(`collect_remote_stage22_counterfactual.py:70`).

Two more things are in properties that hold, as the exceptions they need. A
request over the thread-bounded client that missed its deadline and never gets
its answer keeps the program from ending, whatever `shutdown(wait=False)` says
(`ExitHangsOnUnconfirmedOnly`). And the download has orphans:
`SpoiltTargetNeedsOrphan` needs its exception. A curl that outlived its killed
script has the partial file open when a later start promotes it, and then writes
into the target that was just verified; the next start would fetch it again.

## Proofs

The theorems hold for every value of the constants that satisfies the
assumptions named in the modules (`BoundsAssumption`, `SwitchAssumption`,
`LoopBoundsAssumption`, `DimAssumption`, `BoundedAssumption`: the bounds are
positive, the switches Boolean, two lengths of action differ;
`ProbeAssumption`: the splits are in order and a pilot is part of a collection;
`ControlAssumption`: every condition has its steps and period;
`BridgeAssumption`: what `__post_init__` checks, with `NotFinite` not a number;
`EpisodeAssumption`: home is a finite position; `DownloadAssumption`: there are
files, none of them empty, and mirrors).

| Theorem | Statement | Inductive invariant |
|---|---|---|
| `ProcessTransportProofs!TypeCorrect` | types and bookkeeping of the transport | `TypeOK /\ CallBookkeeping` |
| `!PayloadFresh` | `PayloadIsForThisCall`, if `~RecvMayAbort` | `FreshInv` |
| `!NoLeak` | `NoChildIsLeaked` | itself, over the types |
| `!RetiredStaysRetired` | `RetiredIsNeverReused` | `HeldIsNotRetired` |
| `!StaleReplyNeedsAnInterrupt` | `StaleReplyNeedsInterrupt` | `LockStep` |
| `!UnconfirmedNeedsAnInterrupt` | `UnconfirmedIsNeverReused` on a child on which the caller was not interrupted | `LockStep` |
| `!StaleAnswerNeedsAKeptChild` | `StaleAnswerNeedsKeptChild` | `KeptInv` |
| `!TransportImplementsPolicyCall` | every step is a step or stutter of `PolicyCall`, if `~RecvMayAbort` | `FreshInv` |
| `BoundedClientProofs!BoundedTypeCorrect`, `!StaleAnswersNeedUnconfirmed`, `!LateRequestsAreUnconfirmed`, `!SocketsHaveOneThread`, `!BoundedImplementsPolicyCall` | the invariants of the thread-bounded client, and the refinement if `CallerReconnects` | `BoundedInv` |
| `ClosedLoopProofs!LoopTypeCorrect`, `!OnlyRowsOfLatestChunk`, `!NothingAfterHold`, `!NoHalfExecutedChunk`, `!UnfinishedRunsHold`, `!MetricsAreTrue` | the invariants of the loop | `LoopInv`, and for the metrics `RequestsAccountedFor` and `ExecutionsCounted` |
| `!LoopImplementsRecedingHorizon` | the loop implements `RecedingHorizon` | `LoopInv` |
| `!AnyPolicyIsDisciplined` | the invariants of the loop that do not say what an answer is about, for `AnyPolicySpec`: any policy, stale answers included | `DisciplineInv` |
| `!AnyPolicyWindsDown` | `RunsWindDown`: a run over any policy takes at most `3 * MaxSteps + 3` steps | `DisciplineInv` |
| `RuntimeSystemProofs!SystemTypeCorrect`, `!SystemImplementsAnyPolicy`, `!SystemIsDisciplined`, `!SystemImplementsRecedingHorizon`, `!SystemKeepsTransport`, `!ObservationsAreAskedOnce`, `!FailedRunsHold` | what the assembled runtime guarantees over any transport | `SystemShape` |
| `!StaleActionsNeedAKeptChild` | `StaleActionNeedsKeptChild`: what a stale action of the robot needs over the process-owned transport | `StalePending`, `ErrorsHeld` over `SystemShape` |
| `!SystemWindsDown` | `SystemRunsWindDown`: every step of the thread inside a run brings its end closer | `SystemShape` |
| `!SystemImplementsClosedLoop`, `!SystemImplementsPolicyCall`, `!ExecutedActionsAreFresh` | freshness of the assembled runtime, if `~RecvMayAbort` | `SystemInv` |
| `BoundedSystemProofs!BoundedSystemTypeCorrect`, `!BoundedSystemStaleNeedsUnconfirmed` | types, and what carries over from the thread-bounded client alone | `BoundedSystemInv` |
| `!BoundedSystemImplementsAnyPolicy`, `!BoundedSystemIsDisciplined`, `!BoundedSystemWindsDown` | the discipline and the wind-down of a run over the thread-bounded client, late threads or not | `BoundedSystemInv` |
| `!ExitsWaitForUnconfirmed` | `ExitWaitsForUnconfirmed`: an exit waits only for threads of unconfirmed calls | `BoundedSystemInv` |
| `!BoundedStaleActionNeedsUnconfirmed` | what a stale action of the robot needs | `StaleInStep` over `BoundedSystemInv` |
| `!BoundedSystemImplementsClosedLoop`, `!BoundedSystemImplementsPolicyCall` | freshness over the thread-bounded client, if `CallerReconnects` | `BoundedSystemInv` |
| `PandaEpisodesProofs!CommandsAreSafe`, `!UnclippedIsExact` | lemmas about the bridge: its commands are safe, and exact unless marked as clipped | none, for every position and action it accepts |
| `!EpisodeTypeCorrect`, `!ActuatorsAreAlwaysSafe`, `!MovesAreFromObservedPosition` | types, actuators and movements of every script | `LoopInv`, with `AskedInStep` for the movements |
| `!CountersAreTrue`, `!ReportsAreWhole` | what a report says | `CountInv`, `ReportSoFar` over `LoopInv` |
| `!BridgeEndsOnlyWithCause` | `BridgeEndsWithCause`: what it takes for the bridge to end an evaluation | `ActionAtHand` over `LoopInv` |
| `AssetDownloadProofs!DownloadTypeCorrect`, `!TargetsAreSpoiltByOrphansOnly`, `!StatusIsNeverTooHigh`, `!BytesAreKept` | the properties of the download | `DownloadInv`, and `PassedAreVerified` for the status |
| `StudiesProofs!ProbeTypeCorrect`, `!RecordedFilesSound` | types, and what files on record say | `ProbeInv` |
| `!ControlTypeCorrect`, `!ReportOfDeclaredRule` | types, and what a report of a control study says | `ControlInv` |
| `!StudiesTypeCorrect`, `!StudiesAreSound` | the same of the six studies together, as the run checks them | `StudiesInv` |

The arguments in short.

*Freshness of the transport.* `PayloadIsForThisCall` is not inductive: the reply
that would break it is on a queue long before it is read. `FreshInv` adds that
everything on the queues, being served or on the socket of the *current*
generation is consistent: a request or reply with id n carries the observation
of the call that used id n (`QueuesCurrent`), and while a child serves a request
its socket holds at most that request's reply (`SocketInStep`). The second part
is what `RecvMayAbort` would break. A reply with the id of the call in progress
then is about its observation, so the id check is enough.

*Faults of the transport.* `StaleReplyNeedsInterrupt` says that without an
interrupt the id check never fires. `LockStep` says why: of a generation that
was not interrupted, at most one thing is under way at any time. Between calls
its queues are empty and the child idle (`Quiet`); while the caller waits for
the startup message, that is all there can be (`Opening`); while it waits for an
answer, the request in progress is on one queue, in the child or, answered, on
the other (`Awaited`). `UnconfirmedNeedsAnInterrupt` reads the same invariant as
a statement about requests: no earlier one is under way on such a child.
`StaleAnswerNeedsKeptChild` assumes nothing of `recv()`: as long as the caller
has seen no error reply of the current generation, every answer on its queue is
consistent unless an error is queued before it, and the socket is in step unless
an error is queued at all (`CurrentUntilError`, part of `KeptInv`). So a stale
answer comes from a child that was kept after an error reply.

*The thread-bounded client.* There is no id to compare, so the argument is about
who uses the socket: over a transport whose calls were all confirmed, only the
thread of the call in progress is at work (`ThreadsInStep`) and the socket holds
at most its reply (`SocketsInStep`). A caller that reconnects makes no call over
the transport of an unconfirmed one (`ReconnectsInStep`).

*The loop.* `DisciplineInv` says what is pending: a non-empty part of a
validated chunk, which fits the budget, the horizon and the chunk; and that no
hold is in the run that goes on. That no chunk is half executed follows because
the first action that was accepted shows the length of all of them. None of this
depends on what an answer is about, so it is proved of `AnyPolicySpec`, the loop
over a policy that may answer about any observation whatever. `LoopInv` adds
that the policy answers about the last one, and with it that rows are of the
newest chunk.

*The assembled runtime, over any transport.* Every step of the system is a step
or a stutter of the transport and of the loop over *some* policy: a decoded
answer is about an observation that was sent at some time (`AnswerWasAskedFor`
of the transport). So the discipline of the loop, the invariants of the
transport and the promise of `RecedingHorizon` hold of the system with no
assumption on `recv()`: staleness can make the robot execute an action about an
old observation, but never after a hold, out of order, or in a number that
breaks the budget. `SystemShape` is the conjunction of the two invariants and
of `CallInStep`, which links them: while the transport works, the loop waits,
and the call in progress carries the newest observation.

*Freshness of the assembled runtime.* With `PayloadFresh`, a decoded answer is
about the newest observation, which makes the system a `ClosedLoop` whose policy
always answers about the last observation. Without it, a stale action needs a
child that was kept after an error reply, in an earlier run than the one that
executes it: an error reply makes the call raise and the run hold (`ErrorsHeld`),
so its stale successor can only be read by a later run (`StalePending`).

*The runtime over the thread-bounded client* is put together in the same way.
Without the assumption that the caller reconnects, what is left is that a stale
payload comes over a transport with an unconfirmed call, and that such a call
raised, or was interrupted, in a run that ended with it (`StaleInStep`): no run
goes on after a call that raised, so the stale action is in a later run.

*Winding down.* That every run returns is liveness, and stays with TLC. What the
code contributes to it is proved: `StepsLeft` counts the steps a run can still
take (three for each action of the budget that is left, at most), every step of
a run lowers it, and through all layers `SystemStepsLeft` and `BoundedStepsLeft`
add the waits of the call in progress. So no layer asks, waits or starts a child
a second time within a call, and a run that does not return is one whose thread
can take no step or takes none, which the deadlines and the fairness exclude.
For the exit of a program over the thread-bounded client the safety core is
`ExitWaitsForUnconfirmed`: a thread that still runs then belongs to a call that
was reported as unconfirmed.

*The episodes.* A command is safe for the position it was computed for, by the
lemmas about the bridge: limiting the velocity first bounds the step, limiting
the target second can only bring it closer to a position within the limits.
`LoopInv` ties the loop counters to `phase` (a step is left while acting), and
`AskedInStep` says that from an observation to the execution of its answer the
arm is where it was asked for, which in the mismatch diagnosis is home, before
every interpretation. `CountInv` relates the counters of the episode in progress
to what was executed in it, by phase, as the suite counts an answer before it is
executed; `ReportSoFar` says that the rows are those of the episodes before the
current one. `BridgeEndsWithCause` delimits the finding `held_out_refusal`: the
bridge ends a script only where its `try` leaves the execution out, and then the
adapter has made the action something that is not finite, or the simulation has
diverged. What the policy itself answers never does.

*The download.* Three facts make a promoted file the blob: a file that has an
orphan is recorded (`OrphansAreRecorded`); without an orphan, what a transfer
writes next comes after what is there, and what was there when the transfer
began is still there (`TransferInStep`); and what is promoted
was verified and has not been written to since (`PromotionInStep`). The targets
of the entries before the current one are verified (`PassedAreVerified`), which
is what the last status of a complete download needs.

*The studies.* What `Accepted` counts is what makes a collection complete: as
many answered rows as there are requests, in a sequence not longer than that,
are all of them (by the cardinality of a subset), so the test split is whole and
the split by group keeps what is learned apart from what is scored. The rest is
that a result was computed from an accepted collection before it reached the
file. For stage 18, whose training takes what there is, only the second half
holds and is all the property says. For the control studies, an ordering by
tuples is unfolded for the two lengths there are, so the minimum of the ranks is
a condition none is preferred to; loop counters give the number of rows of each
condition and the place of each final pair.

Only model-checked: liveness (`DroppedChildrenDie`, `EveryRunReturns`,
`EveryBoundedRunReturns`, `ExitHangsOnUnconfirmedOnly`) and the fairness part of
the refinements of `PolicyCall`. They need that a fair action is enabled, and
`ENABLED` is beyond this prover; the part of them that is about steps and states
is proved, as said above. Every safety property of a passing run is proved.

Some properties are only proved, because they have no run of their own: those
about the assembled systems with `RecvMayAbort` or late threads
(`StaleActionNeedsKeptChild`, `RowsOfOneAnswer`), the measures (`RunsWindDown`,
`SystemRunsWindDown`, `BoundedRunsWindDown`), `ExitWaitsForUnconfirmed` and
`BridgeEndsWithCause`. They are defined in the proof modules, next to their
theorems.

## What is not modelled

- The content of observations, images and actions, float arithmetic, timing
  values, logging and reports: the modelled properties do not tell them apart.
- Interrupts outside the waits of `infer`.
- The official WebSocket client and the policy server: external, modelled by
  what the code can see of them.
- A `WebsocketClientPolicy` used directly in thread-confined mode, which has no
  deadline at all: a run over it returns only if the server answers.
- Physics, the numbers of fits and metrics, distances that are NaN, and a reader
  that gets part of an old and part of a new file (it is taken to fail).
- The audit mode of stage 22, which only writes its own report, the checkpoints
  of stage 18, the feature server (a patch of an external model), and the smoke
  tests: one pass in a straight line.
- `stage19_analysis.py`, `metrics.py`, `analyze_stage10_12.py`, the latency
  profile and the plots: statistics and formatting of rows that were recorded,
  without state, order or failure to get wrong.
- Memory, disk and permission errors of the file system under the download.

## Plan

What is done is above; what is left, in order of importance:

1. An abstract specification of the download (a set of verified files that only
   grows, but for orphans), implemented by `AssetDownload`, with the refinement
   proved; and whether repeated starts make progress when a mirror behaves.
2. The episodes composed with `ProcessTransport`: a call that raises leaves a
   transport the next episode can use; and the collections of `ProbeStudy` over
   it, where a failed request is followed by the next one on the same transport.
3. The reach predicate of `panda_task.py`, and the percentile index of
   `metrics.py` against a reference definition.
4. Stage 22's gate rule over the metrics of both model families, and the
   agreement rules of the reports.
