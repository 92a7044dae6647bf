# A verification project for monotomni

Mono+Omni is a Scala / Scala.js library with two services.  `Mono+Omni()`
draws 64 bit identifiers that are meant to be unique and increasing without any
coordination.  A `RemoteClock` estimates the difference between the local clock
and that of a time server from time trials, round trips that carry the server's
time stamp.  This directory holds TLA+ modules that model the library, TLC
configurations that check them on small instances, and theorems that TLAPS
checks for every value of the constants.

Paths below are relative to the repository:  `shared` stands for
`src/monotomni/shared/src/main/scala/...`, `js` for `src/monotomni/js/...` and
`jvm` for `src/monotomni/jvm/...`.

## 1. Inventory

| Part | State it keeps | Operations | Hard behaviour |
|---|---|---|---|
| **Omni** (shared package.scala) | `counter`, an AtomicLong per process | `apply`, `count`, `shiftTime` | threads interleave between reading the time and drawing; the wall clock is set back; the 8 bit count wraps |
| **RemoteClock scheduler** (shared RemoteClock.scala) | `live`, `promisedDT`, the Timer's tasks, the burst's futures | constructor, `start`, `stop`, `ready`, `scheduleNextTrial`, its TimerTask, `onComplete` | `stop`/`start` while a task or burst is under way; two callers of `start`; `timeTrial()` that throws; the loop must never die |
| **RemoteClockState and logTimeTrial** (shared RemoteClock.scala) | `DT`, `L`, `E_NormalizedLq`, `successTrials`, `failedTrials` | `deltaT`, `reportSuccess`, `reportFailure`, `logTimeTrial` | trials overlap and end in any order; clocks are set during a trial; start and end are read late; boundary cases of Int, Double and NaN |
| **PendingTimeTrial** (shared TimeTrial.scala) | a promise, `start`, a TimeoutMonitor | construction, expiry | the monitor fires as the answer arrives |
| **URL connection** and the global executor (jvm URL.scala, package.scala) | the pool's workers and queue | `timeTrial` | requests block workers without a timeout, and recording a trial needs a worker |
| **JSONP connection** (js JSONP.scala) | `pendingTimeTrials`, a map keyed by identifier | `timeTrial`, `logTimeTrial`, `timeout` | answers, timeouts and late answers in any order; identifiers that repeat |
| **AJAX connection** (js AJAX.scala) | an XMLHttpRequest per trial | `timeTrial`, `onload` | `promise.success` after the monitor's `tryFailure` throws; a body that cannot be read; errors without a handler |
| **NodeJS connection** (js NodeJS.scala) | none of its own; the request's events | `timeTrial`, `data` | a body in several pieces; no listener for a refused connection |
| **AMI and decoding** (shared package.scala, RemoteClock.scala) | none | `RemoteClock.ami`, `now`, `M0I`, `AM1` | an estimate that changes between two conversions; carries; units of the time field |
| **TimeTrial formats** (shared and js TimeTrial.scala) | none | `BINARY`, `STRING`, `JSON`, `XML`, `JSONP` | a short read leaves zero bytes; a piece of an answer that reads as a stamp |
| **Example time server** (TimeServerRoutes.scala) | none | one stamp per request, written in the format asked for | unknown formats and identifiers that no route matches |
| **Default** (js and jvm Default.scala) | none | chooses a connection and a format | a JVM, a browser on the server's host or another, no browser |
| **HostName, JavaScript facade, Demo, build** | none | lookup, conversion, printing | |

How they interact.  The scheduler's TimerTask asks the connection for a burst of
three trials.  The connection sends a request and then builds a
`PendingTimeTrial`, which reads the local clock (`start`), draws a `Mono+Omni()`
and starts a TimeoutMonitor.  The answer, an error or the monitor completes the
promise.  The executor then runs `logTimeTrial` (or `recover`), under the
RemoteClock's lock, which updates the RemoteClockState and returns a wait; when
all three are recorded, `onComplete` schedules the next burst after the longest
of the waits.  The first `logTimeTrial` also completes `promisedDT`, which is what
`ready()` and `RemoteClock.apply` wait for.  JSONP finds its trials again by
their identifiers, so it depends on what Omni guarantees of them.

What makes each part correct, in one line each:

* Omni: no two calls that can be told apart by host or by fewer than 256 draws
  return the same identifier; identifiers follow the real-time order of calls.
* Scheduler: a live clock measures for ever, a stopped one comes to rest, a
  failure backs off, and the ready callback runs when there is an estimate.
* RemoteClockState: the estimate is as good as the best lag seen; it recovers
  from clocks that are set; every trial is counted once.
* Connections: every trial gets exactly one outcome, its own as far as identifiers tell trials apart, and is recorded;
  nothing that waits for it leaks.
* AMI: conversion to the server's time keeps identifiers unique and in order.
* Formats: a trial succeeds with the stamp the server wrote, or not at all.

## 2. Modules

| Module | Models | State and actions |
|---|---|---|
| `MOILayout` | the layout of an identifier | operators only: `TickOf`, `shiftTime`, `CountField`, `MakeMOI` |
| `Omni` | `Omni.apply` by several threads of several processes | `clock`, `counter` per process; `pc`, `reading`, `ticket` per thread; one action per operand of the or: `ReadTime`, `Draw`, `Return`; `Tick` and `StepBack` are the operating system's |
| `OmniProofs` | | its theorems, section 5 |
| `Scheduler` | the scheduler of RemoteClock | `live`, `ready` (promisedDT); a *chain* is one life of the loop, `pc[c]` its place in it; `Start`/`Resume` are the two halves of `start()`, `CheckLive`/`Arm` of `scheduleNextTrial`, `Fire`/`FireStopped`/`FireThrows` the TimerTask, `Answer`/`Expire` complete a promise, `InitLog`/`LogTrial`/`RejectTrial`/`Recover` record it, `Complete` is `onComplete` |
| `Sampler` | what a clock promises its owner | `live`, `phase` (resting, waiting, sampling; several once it was started too early); one action per change of phase |
| `SchedulerProofs` | | its theorems, section 5 |
| `RemoteIdentifiers` | `RemoteClock.ami` on top of `Omni` | adds `ready`, `deltaT` and the conversions made; `BecomeReady`, `SetDeltaT`, `Ami`; `Local` is any step of `Omni` |
| `LagModel` | what `logTimeTrial` computes | an estimator record (deltaT, L, lq, successes, failures); `LogTimeTrial` and `SuggestedWait`, one operator per branch |
| `RemoteClockState` | the estimate under overlapping trials and moving clocks | `time`, `local`, `server`; per trial `phase`, `start`, `stamp`, `end`; `Send`, `ReadStart`, `Stamp`, `Answer`, `Fail`, `ReadEnd`, `Log`, `Recover`, in the code's order |
| `TimeTrialFormats` | how a server writes a TimeTrial and how each connection reads it | operators only: `Written`; `fromInputStream`, `fromArrayBuffer`, `fromUint8Array`, which yield the stamp read or nothing |
| `TimeTrials` | the abstract specification of `timeTrial()` | `outcome` per trial, `running`; `Begin`, `Settle`, `End` |
| `UrlConnection` | the URL connection on the shared executor | `request`, `promise`, `record` per trial; a request holds a worker from `OpenConnection` to `Return` |
| `AjaxConnection` | the AJAX connection | `xhr`, `promise`; one action per way `onload` may end (`OnLoad`, `OnLoadUnreadable`, `OnLoadStatus`, `OnLoadLate`), `XhrFails`, `Expire` |
| `JsonpConnection` | the JSONP connection's map | `registry` of <<identifier, trial>>; `TimeTrial`, `Respond`, `RespondUnknown`, `Expire`, `Remove`; `Tick` and `StepBack` move the page's clock, `Draw` draws other identifiers |
| `NodeConnection` | the NodeJS connection | `request`, `coming` (the rest of the body), `promise`, `running`; `Respond`, `Data`, `DataLate`, `Refuse`, `Expire` |
| `Connections` | Default's choice and the connection chosen | INSTANCEs of the four connections over one `promise`, and of `TimeTrials` with `outcome <- promise` |
| `RemoteIdentifiersProofs`, `RemoteClockStateProofs`, `TimeTrialFormatsProofs`, `JsonpProofs`, `ConnectionsProofs` | | their modules' theorems, section 5 |
| `ConnectionsStampProofs` | | those of `Connections` that need the theorems of both `ConnectionsProofs` and `TimeTrialFormatsProofs` |
| `MC*` | | instances for TLC: model values and symmetry |

`RemoteClockState` extends `LagModel`, `Omni` extends `MOILayout`,
`RemoteIdentifiers` extends `Omni`, and the connections that read bodies extend
`TimeTrialFormats`.  `Connections` composes: `Default` picks one of the four, and
that one goes on while the variables of the others rest.  The scheduler abstracts what
a trial measures to a choice of a wait, and the connections abstract what the
scheduler does with a recorded trial; only URL has the scheduler's burst in it,
because there the two compete for the pool's workers.  What the scheduler takes from the
connections is `ExecutorRuns`, whether the executor runs what it is given.  Definitions with the comment "Mutation" are altered copies of the
definition that follows them; nothing uses them, they are there to show that the
properties can fail.

## 3. What is checked

Runs that pass:

| Run | Shows | Bounds |
|---|---|---|
| `omni_calls` | `EveryTicketOnce`, `DistinctWithinWindow`: whatever the interleaving and however the clocks are set back; `IncreasingInRealTime` for processes whose clock was not | 2 threads of one process and 1 of another, 3 calls, a count of 2 values that wraps, clocks that cross `dawnOfTime` and are set back to before it |
| `sched_loop` | `OnlyThrowsEndTheLoop`, `FailureBacksOff`, and, as liveness, `StopDrains`, `AnswerAnnounced`, `LiveKeepsSampling`, for an executor that runs what it is given; for a program that starts the clock only when its last loop is over, `PatientMeansOneBurst` and `SamplerImplemented` (the scheduler implements `Sampler`, liveness included) | 2 callers, any number of `stop`/`start`, 2 chains at once, bursts of 2, waits 0 and 1 |
| `state_trials` | `AccurateWhileSteady`, `EveryTrialCounted`, `OneSoundTrialSuffices` | 2 overlapping trials, 3 in all, times 0..3, a timeout of 3, both clocks set at any time; one pair of offsets makes the true difference 0 |
| `conn_trials` | `TrialsImplemented` (every connection implements `TimeTrials`, liveness included), `StampIntact`, `EveryTrialRecorded`, `FirstOutcomeStands`, `OwnAnswerOnly`, `RegistryExact`, `RegistryDrains` | every choice of a connection, four formats and none, 3 trials; bursts of 2 on one worker, so that requests that timed out hold it; a stamp of 2 bytes and 3 digits that may be cut anywhere; a page whose clock begins before `dawnOfTime` and is set back to it at any time, 4 draws and a count of 2 values, so that identifiers repeat |
| `ami_calls` | `FieldsSurvive`, `AmisDistinct`, `AmisInRealTime` | 2 processes, 3 calls, 2 conversions, estimates -2 and 1 that are set at any time, a time field of two bits: conversions leave the era and return |

Every passing run also checks its module's type invariant.  `state_trials` checks
`MeanStays` besides: no step takes its mean from a request lag model that has one.

Why the bounds are enough.  The fields of an identifier are narrow because TLC's
integers have 32 bits; the operators do not depend on the widths, the small ones
make wraps and tick boundaries frequent, and the theorems hold for every width.
Three calls are what a wrap, and a thread that calls again after another, need.
Two trials in a burst show every mixture that three do, because trials of a burst
meet only in `Finished` and in the maximum of their waits.  Two chains at once is
what `stop`/`start` and the race of two callers of `start` produce; more chains
are more of the same, since chains share only `live` and `promisedDT`.  Three
trials take the estimator through its first success and through two later ones,
and because trials overlap, lags of 3 and 2 fit in the time bound: each branch of
`LaterTrial` is taken, the lag model's included.

Runs that violate one property, which a doc or comment states (section 4):
`omni_order`, `sched_throw`, `sched_restart`, `sched_ready`, `state_sign`,
`url_silent`, `ami_units`.

Deadlock is not checked: each model stops when its bound is reached, a stopped
clock has nothing to do, and a pool whose workers are all blocked is the subject
of `url_silent`.

### Abstractions

* **Clocks** tick at the same instant, in whole milliseconds; both are an offset
  from one time.  Drift is left to `SetClock`.
* **Doubles** are exact fractions with NaN; `toLong` truncates and takes NaN to 0.
  Rounding is not modelled.  The statistics streams are a library outside the
  repository and are modelled from their use: number, sum, least value, mean.
* **`live`** is a plain field, read as coherent: each read happens in a task of
  its own, after the locks of the Timer or the executor were taken.
* **A timeout** may come at any time after the trial was begun; only
  `RemoteClockState` has a clock, and there a trial that ends late is what the
  late reading of `end` produces.
* **`MaxTime < HalfInt`**: no trial takes 24 days, so `(E - S).toInt` wraps only
  when a clock was set.
* **Chains** are numbered by the model; a number is used again when its chain is
  over.  `start()` waits (a bound, not the code) while `MaxChains` exist.
* **`hasty`** is a history variable of `Scheduler`: `start()` has been called while a chain was
  left or another thread was in `start()`.  No action depends on it; it tells the properties of
  a patient program from those of any.
* **What is over is forgotten**: the locals of a returned call, the delay of a chain
  that ended, the fields of a recorded trial go back to 0.
* **A TimerTask that throws** (`FireThrows`) takes only its own chain: in JavaScript, where `timeTrial()`
  of JSONP throws, each task is a timeout of its own.  A `java.util.Timer` would lose its thread and every
  later `schedule`, but no `timeTrial()` of the JVM throws, since URL does its work inside a Future.
* **`ticket`** of `JsonpConnection` is a history variable: the value of Omni's counter that a trial's
  identifier was drawn from.  `ToldApart` needs it to say which trials the code tells apart.
* **Texts** are sequences of digits between two marks: the fixed pieces of JSON and
  XML are one character each, and a character that occurs in no answer (`Letter`) stands
  for a page of help or of an error.  `trim()`, the order of the exceptions and what they
  are called are left out.  JSONP's answer is a script and not read by any parser of
  the library; its stamp arrives whole or not at all.
* **A stamp is a Long** (`Stamp \subseteq Longs` in `UrlAssumption`, `AjaxAssumption` and
  `NodeAssumption`): what two's complement of `Bytes` bytes holds, whatever their number.
* **The piece of a body** that comes first is a prefix of any length, for `data` events and
  for one `read()` of URL alike.
* **A connection of its own**: a program measures over one connection; the other
  variables of `Connections` stay as `Init` leaves them.

### Fairness

`Omni`, `RemoteIdentifiers` and `RemoteClockState` are checked for safety only.  In
`Scheduler` the Timer's thread and the TimeoutMonitors go on with what they were given (weak
fairness of `TimerStep` of each chain), and a thread inside `start()` goes on; nobody has to call
`start()` or `stop()`.  Recording a trial, completing a burst and running the ready callback are
the executor's (`ExecutorStep`, `RunCallback`), and are fair only if `ExecutorRuns`.  In JavaScript the
executor is the event loop, and this holds though no server ever answers.  On the JVM it is the
global pool, whose workers are also held by requests (`URL.scala:36`, native `package.scala:11`): there it
holds as long as every request ends, late or in an error, which is what `EveryTrialRecorded` of
`conn_trials` shows, and `url_silent` shows that it fails when servers keep silent.  `LiveKeepsSampling`,
`StopDrains` and `AnswerAnnounced` state the assumption, and so does `Sampler` (`BurstsEnd`), whose fairness
`SamplerImplemented` concludes from that of the scheduler.  The runs have `ExecutorRuns = TRUE`.  In
`UrlConnection` a free worker takes what is queued; submissions are served in turn, so
none is passed over for ever although workers become busy again in between, which is
strong fairness of `Dispatch` (`OpenConnection` or `Record`).  That a JVM's requests end
is assumed in `Connections` (`ServerAnswers`, for `EveryTrialRecorded`); `url_silent`
shows what becomes of the property without it.  The JavaScript connections have the
fairness of their monitors only, as long as the process lives, and JSONP that of the
callbacks that are due: no server answers for sure, no script arrives for sure.
`TrialsImplemented` concludes the fairness of the abstract `Settle` from it.

## 4. What the checks found

1. `omni_order`: when the 8 bit count wraps within one tick of 256 ms the next
   identifier of a thread is smaller than its last one, and the 257th repeats one;
   the README promises unique and monotonically increasing identifiers.
   (`package.scala:35` keeps 8 bits where its comment says 24.)
2. `sched_throw`: when `timeTrial()` throws inside the TimerTask, the loop ends while
   `live` stays set; `start()` then refuses, for ever.  `OnlyThrowsEndTheLoop` shows
   that nothing else does this.
3. `sched_restart`: `stop()` followed by `start()` while a task is armed or a burst
   under way leaves the old loop running beside the new one.  `PatientMeansOneBurst` shows what
   avoids it: to start only when the old loop is over, which no method of RemoteClock
   tells; after `stop()` a program has to wait until the task that may be armed has run (up to
   `maxWait`) and the burst that may be under way is recorded (its timeout, and the executor).
4. `sched_ready`: `ready()`'s callback may run before any estimate exists; the promise
   is completed before the trial is logged, even when that trial is then rejected.
5. `state_sign`: `ts - S + Lq` is computed where the comment defines `ts - (S + Lq)`.
   `AccurateWhileSteady` shows the consequence: the estimate is never behind and up
   to twice the least lag ahead.
6. `url_silent`: the timeout fails the promise and does not end the request
   (`URL.scala:22` speaks of a request that times out), and enough silent requests hold
   every worker of the pool that recording needs: sampling stops.  This is the case that
   `LiveKeepsSampling` leaves out on the JVM.
7. `ami_units`: `ami()` shifts a difference in milliseconds into a field that counts ticks of
   256 ms, so the AMI does not approximate the server's identifier, as
   `RemoteClock.scala:38` says it does.  Uniqueness and order survive all the same
   (`ami_calls`), since every identifier is moved alike.

Seen while modelling, without a run of their own:

* A first trial whose difference is exactly 0 leaves the request lag model empty, since
  `deltaT(0)` changes nothing (`RemoteClock.scala:232`): its mean is NaN, the predicted stamp and
  every later wait are 0.  A later trial of low lag then puts that NaN into the stream, where
  it stays until the estimate changes.  `MeanStays` states the case that is left.
* The end of a trial is read when the executor gets to it, so the lag that "shouldn't
  happen" (`RemoteClock.scala:109`) does.
* JSONP's map is keyed by identifiers, and these repeat when the count wraps within a tick, or when the
  clock is set back to a tick whose counts were drawn before (256 draws, spread over any time, are
  then enough).  The second trial is not entered (`JSONP.scala:30`), the late script of the first
  completes whichever trial is entered (`JSONP.scala:47`), and the end of one removes the entry of the other
  (`JSONP.scala:55`): a stamp is paired with the wrong start, or a trial can only time out.
  `OwnAnswerOnly` and `RegistryExact` say that this happens to such trials alone, and that even then no
  script finds a promise that was completed before.
* Over NodeJS the first `data` event decides (`NodeJS.scala:53`).  In BINARY a piece of fewer
  than 8 bytes is filled up with zeroes, in STRING a piece of the digits is a number: the
  trial succeeds with a wrong stamp.  So does a BINARY answer of which URL's one `read()`
  returns a part (`TimeTrial.scala:62`), and over NodeJS the page of an error status, as
  its first 8 bytes.  `StampIntact` holds of everything else.
* A refused connection ends a NodeJS process (`NodeJS.scala:50`).
* With a clock before `dawnOfTime` the identifiers of JSONP are negative and no route of
  the server matches them: such trials time out.
* Every factory claims to support the format JSONP (`TimeServerConnectionFactory.scala:13`); only
  the JSONP connection's trials can succeed with it.
* `M0I.timestamp` and `AM1.timestamp` take ticks for milliseconds (`package.scala:64,74`).

## 5. What is proved

`OmniProofs` proves of `Omni`, for every number of processes and threads, every
field width allowed by `LayoutAssumption` and all clocks:

* `TypeCorrect`: `Spec => []TypeOK`.  The only step that needs more than its own
  guard is `Return`: the identifier is a `MOI`, which is the arithmetic lemma
  `MakeMOIType`.
* `TicketsOnce`: `Spec => []EveryTicketOnce`.  This is the inductive invariant.
  `DistinctWithinWindow` is not inductive by itself, since it says nothing of the
  calls in flight: two threads might hold the same ticket and return later.
  `EveryTicketOnce` says that tickets held and tickets issued, of one process,
  are all different and below the counter, and that every identifier issued is
  `MakeMOI` of its call's time, ticket and host.
* `UniqueWithinWindow`: `Spec => []DistinctWithinWindow`.  From `EveryTicketOnce` and two
  facts of the layout: the host and count fields can be recovered from an identifier
  (`FieldsRecoverable`, by the uniqueness of division with remainder,
  `SplitUnique`), and two tickets that are congruent modulo `CountSpan` and closer than
  it are equal (`CloseAndCongruent`).

* `OrderedInRealTime`: `Spec => []IncreasingInRealTime`.  `OrderInv` adds to
  `EveryTicketOnce` what a call knows of the calls that had returned when it began:
  their tickets are smaller than the one it draws, because every ticket issued is
  below the counter, and their times are not later than the one it reads, unless
  the clock was set back (`ClockIsLatest`, `CallsUnderWay`, `CallsReturned`).
  `BeganBefore` closes the case of a call that has just returned: none that returned
  earlier can have begun after it.  `OrderKept` shows that every action preserves it.
  The rest is arithmetic: within the era of the layout (`InEra`, 17.4 years to
  either side of `dawnOfTime`) `shiftTime` is exact (`ShiftTimeExact`), a
  later tick outweighs all lower fields (`LaterTickLarger`), and within a tick the
  count decides (`MakeMOIIncreases`).

The division lemmas (`DivMod`, `SmallMultiple`, `DivMonotone`) are stated once, because
the SMT backend does not handle division by a constant that is not a literal.

`SchedulerProofs` proves of `Scheduler`, for any number of callers, chains and trials in
a burst and for every wait:

* `TypeCorrect`: `Spec => []TypeOK`.
* `LoopGoesOn`: `Spec => []OnlyThrowsEndTheLoop`.  With the types this is inductive:
  a chain leaves the loop at `FireThrows`, which sets `thrown`, or where `live` was
  read as false, and `start()` occupies a chain in the step that sets `live`.
* `FailuresBackOff`: `Spec => FailureBacksOff`.  The action property needs the
  invariant `RecoveredWaitsLongest`: from `Recover` to `Complete` nobody changes the
  wait of a recovered trial, so the maximum of the burst's waits is `MaxWait`.
  `LongestWait` states that maximum as a predicate, which the provers can use as it is.
* `OneBurst`: `Spec => []PatientMeansOneBurst`, and `ImplementsSampler`: `Spec =>
  Clock!Safety`, the refinement without its fairness.  Both rest on `OneLoop`, which holds until
  `start()` is called too early: at most one chain, and none, with `live` cleared, while a thread
  is between the two halves of `start()`.  `PhaseOf` says that the phase is then that chain's place, and `ChainStepMaps` maps
  its steps.

`RemoteIdentifiersProofs` proves of `RemoteIdentifiers`, for every estimate:

* `RemoteImplementsOmni`: `RemoteSpec => Spec`, so that `Omni`'s theorems hold of it.
* `RemoteTypeCorrect`, and `ConversionsMade`: each AMI is `Convert` of the identifier its call
  returned.
* `ConvertedUnique`: `RemoteSpec => []AmisDistinct`.  Adding a multiple of `TimeUnit`, and
  wrapping, leaves what is below `TimeUnit` as it was (`ConvertByUnits`), and calls that are told
  apart differ there already (`ToldApartBelow`).
* `ConvertedInOrder`: `RemoteSpec => []AmisInRealTime`, from `OrderedInRealTime` and the
  exactness of `Convert` within the era (`ConvertExact`).
* `FieldsKept`: `RemoteSpec => []FieldsSurvive`.  A conversion moves an identifier by a multiple of
  `TimeUnit` (`MovedByUnits`), which is a multiple of what the readers of `AM1` take their
  remainders by; this needs the field widths to divide each other, as powers of two do
  (`FieldsAligned`).

`RemoteClockStateProofs` proves of `RemoteClockState`, for any set of trials, every
timeout, wait and offset:

* `TypeCorrect`, with `LogEffect` and `SuggestedWaitType`: whatever logTimeTrial computes is an
  estimator, and the wait it suggests is a Long up to `maxWait`.
* `TrialsCounted`: `Spec => []EveryTrialCounted`, with the finiteness of the trials under
  way (`CountInv`).
* `Recovery`: `Spec => OneSoundTrialSuffices`, and `Accuracy`: `Spec => []AccurateWhileSteady`.  Both
  rest on `IInv`, which says of a sound trial under way that its stamp lies between its start
  and its end, up to the true difference (`SoundTrial`), and of the lags that their sum is at
  least their number times the least of them (`LagsAddUp`): a trial whose lag is below the mean
  and not the least is then the only one that may leave the estimate alone.  `SoundLog` lists
  where the error ends after a sound trial; its cases are those of the branches of
  `LaterTrial`, located in `LocatedEffect`.
* `MeanKept`: `Spec => MeanStays`.

`ConnectionsProofs` proves of `Connections`:

* `ImplementsTimeTrials`: `Spec => Trials!Safety`, the refinement without its fairness.  One
  lemma per connection (`UrlSteps`, `AjaxSteps`, `JsonpSteps`, `NodeSteps`) shows that each of
  its steps begins trials, settles a pending one, ends the process or leaves the outcomes
  alone, and `OneTrialMaps` turns that into a step of `TimeTrials`.
* `OutcomeFinal`: `Spec => FirstOutcomeStands`, for any number of trials and workers.

`JsonpProofs` proves of `JsonpConnection`, for any number of trials, draws and ticks, with a clock that
is set back at any time:

* `AnswersOwn`: `Spec => []OwnAnswerOnly`, and `RegistryCorrect`: `Spec => []RegistryExact`.  Neither is
  inductive.  The invariant adds that the count field of an identifier is the remainder of the
  counter it was drawn from, and that no two trials drew the same (`Identified`): by
  `DrawsDiffer`, trials that share an identifier were drawn `CountSpan` or more apart, so they are
  not told apart (`SharedNotToldApart`).  `Answered` says that a script completes trials of its own
  identifier only.  `Kept` says that the map holds a trial under its own identifier and only while it is
  pending or its callback is due, and that it holds a trial as long as that if the trial is `Alone` with its
  identifier: another trial's `Remove` may take the entry of one that is not.

`ConnectionsProofs` carries that over to `Connections`, under `ConnectionsAssumption`:
`AnswersOwn` and `RegistryCorrect` there say the same of a program that may have chosen any
connection.  The invariant is cited through an instance of `JsonpProofs`; the steps of the other
connections leave the variables of this one alone.

`TimeTrialFormatsProofs` proves of `TimeTrialFormats`, for every width of a byte, number of bytes,
base of the decimal text and stamp:

* `BinaryReadsBack`: the bytes of a Long are read back as that Long, negative ones included.
* `DecimalReadsBack`: a stamp's decimal text is read as that stamp, or, when it is negative or
  longer than `N2Long` accepts, as nothing.  `TextReadsBack` says of a whole answer in STRING, JSON,
  XML or an unknown format that it is read as the stamp written or as nothing.
* `PartUnread`: a first part of an answer in JSON or XML is read as nothing until the last piece
  has come.  This is what STRING lacks: there every part of the digits is a number.

Digits are recursive functions, so these facts need induction on the number of digits.  The
library's induction theorem takes an operator as a parameter and cannot be used; the module
derives one for sets instead, from the least element of a set of numbers (`LeastNumber`,
`Induction`).  That a recursive definition is a function which obeys its equations is proved
from it as well (`Iteration`, then `NumberPrefixes`, `QuotientsRecur`, `ValuesRecur`).
`DigitsNumber` is the heart of the round trips: digits that leave nothing over denote the whole number.

`ConnectionsStampProofs` proves of `Connections`:

* `TypeCorrect`: `Spec => []TypeOK`, with one lemma per connection.  That what is still to come of a
  NodeJS answer is a sequence of bytes rests on `WrittenType`.
* `StampsIntact`: `Spec => []StampIntact`.  Over URL and AJAX one step makes an answer and reads it, so
  the theorems on the formats settle it.  Over NodeJS it is not inductive: the stamp is
  made at `Respond`, the body read by a later `Data`, after which more pieces may come.
  `BodiesIntact` adds that while a trial is pending either nothing of its answer has been made, or all
  of it is still to come and is what is written for the stamp in `stamped` (or the page of an
  error).  A trial that is not pending has lost this, but its outcome is settled, and a later piece
  changes nothing.

Assumed: the ASSUMEs of the modules, which TLC evaluates in the runs.  The connections
state theirs as definitions (`UrlAssumption`, ...), because they are instantiated; `Connections`
assumes them all.  Only model-checked: all liveness (`StopDrains`, `AnswerAnnounced`,
`LiveKeepsSampling`, `EveryTrialRecorded`, `RegistryDrains`, and the fairness in
`TrialsImplemented` and `SamplerImplemented`), which is beyond this prover.  Every invariant and
every action property of the passing runs is stated by a theorem.

## 6. What is not modelled

The JavaScript facade and the demo, which have no state; the readers `M0I.timestamp` and
`AM1.timestamp`, and `now()`; akka-http's server; host name lookup, whose result is
the constant `host`; memory visibility of `live`; rounding of doubles; the threads of
TimeoutMonitors that outlive their trial; the timeouts that `Default` fills in.

`public_html/js/monotomni-opt.js` is what the build makes of the same Scala sources, minified,
together with the Scala library, Java classes (BigInteger, regular expressions,
charsets, readers) and the mathematical library.  The modules translate the Scala sources, which a reader
can compare with them.  Of the generated file only the statistics streams are mapped, which
no other file of the repository holds; about sixty of its thousand lines stem from the parts
modelled here, and modelling the rest would be modelling the Java library.

## 7. Plan

Order chosen: identifiers first, because JSONP depends on them; then the loop that
keeps everything going; then the estimate; then the connections.  All of these
are in place, as are AMIs, the formats, all four connections, the choice among them, and the
abstract specifications of a clock and of a trial that they implement.  Next:

1. `RemoteClockSystem`: scheduler, estimator and a connection composed: stale estimates across
   `stop`/`start`, waits that come from `SuggestedWait`.
2. A further abstract specification: an identifier source (each identifier once per window)
   implemented by `Omni`.
