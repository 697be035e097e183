# A verification project for the Arrow / Memjet RIP

The repository turns a PDF into bilevel colour planes and prints them on a Memjet
print engine (the "PES"). These TLA+ modules model the part of it that can go
wrong in ways a unit test hardly reaches: the print session against an engine that
moves on its own, the submission worker against its deadlines, the adapter against
the process it supervises, the log poller against the process that writes the log,
several rasterizers in one directory, and the arithmetic by which a picture becomes
a printhead's lines. TLC checks them on small instances; TLAPS proves their safety
for every value of the constants.

## 1. Inventory

| Part | Code | State it keeps | Operations | Model |
|---|---|---|---|---|
| Print session | `src/pes_orchestrator.cpp` | `phase_`, `dataDone_`, `handleOpen`, the loop variables of each wait | `runPrintSession`: ten gates, guards before `prepareToPrint` and `startPrinting`, `cleanup` | `PesSession`; its promise in `PrintService` |
| Submission worker | `src/pes_orchestrator.cpp`, `src/jsl_wrapper.cpp` | `workerOk`, `dataDone_`, `addPageOk`, the retry counter | `addPageMultiColor`, `timedJoin`, `abortJob`, `closeJob`, `detach` | `JslSubmit`, `Submission`; within a session `SessionThreads` |
| JSL submission library | `jsl-sdk/jobSubmissionLib.h` (binary) | the handle | open, add page, abort, close | in `JslSubmit` and `PesSession`, from its header |
| Legacy orchestration | `src/memjet-rip.cpp` 336-563, `src/jsl_wrapper.cpp` | place in `main`, the colour at hand, the stream, looks at the queue | `waitForQueuedJob`, prepare and start in one controller process, hold, close, finish; one job or one per colour | `LegacySession` |
| Thrift controller | `src/thrift_controller_fullcycle.py` | none between runs | one run per probe or command | in `PesSession` (`Reported`, `Call...`) and `LegacySession` |
| Print engine | none (API under `vendor/pdl_py`) | engine state, job queue | commands, and its own moves | `PesEngine` |
| RIP program | `src/memjet-rip.cpp`, `src/logger.cpp`, `src/error_codes.cpp` | how far it has come, the planes filed, the job opened | the stages of `main`, its output lines and exit code; repacking to the strip, test pattern, inversion | `RipProcess`, `Page` |
| Adapter | `adapter/service.py` | `_jobs` under `_lock` | `POST /jobs`, `_run_job`, `_consume_line`, `GET /jobs/{id}` | `Adapter` |
| Print verification | `src/utils.cpp` | `lastPos`, the signals found, two deadlines | `verifyPrintExecution` | `Verification` |
| PDF rasterizer | `src/pdf_rasterizer.cpp` | temporary files, a read buffer | `rasterizeToCmykPlanes`, `rasterizeToFile`: two attempts per picture, cleanup of old files | `Rasterizer` |
| Bilevel converter | `src/bilevel_converter.cpp` | the picture's working copy, or two rows of errors | streaming and whole-picture error diffusion, packing | `ErrorDiffusion`, `Streaming`, `Page` |
| Configuration | `src/config.cpp` | none | switches, numbers and their ranges, the choice of mode | `RuntimeConfig`, `Page` |
| Other senders | `src/gbor_generator.cpp` and four more | - | not built by `CMakeLists.txt` | not modelled |
| Blender mock-ups | `scripts/blender` | - | offline pictures | not modelled |

How they interact. The adapter runs one RIP process per job and reads its two
pipes. The RIP rasterizes, then opens a stream to the printhead with the JSL
library and hands its pages to a worker thread (the legacy way adds them on the main
thread). For everything else it starts the
controller script in a new process, once per probe and once per command; the
controller talks Thrift to the engine. When the session is over the RIP polls the
log of the engine's data server. Nothing is persisted: after a crash there is only
what the engine still has in its queue.

What is hard here:

- every decision is taken on a probe that is stale when the command arrives, and the
  engine (its operator, its faults, another RIP) is free to move in between;
- ten gates, each with its timeout and its early return, and one cleanup for all;
- a blocking library call that only an abort from another thread ends, a retry loop
  with long pauses in it, and a thread that is joined, aborted or detached;
- two pipes of limited size read one after the other; a process that may die at any
  point between a verdict, the line that tells it and the exit code;
- a log that grows, in pieces, while it is read;
- temporary files of several processes in one directory, which each of them clears;
- errors stored in 16 bits and divided toward zero, two rows of them standing for a
  whole picture, and lines padded to 128 bits by three pieces of code;
- an older orchestration that goes by exit codes alone and may share the engine with
  a session.

## 2. Modules

    PesEngine    <- PesSession   <- MCPesSession, PesSessionProofs
    PrintService <- PesSession (INSTANCE, refinement)
    PesSession, JslSubmit, Submission (INSTANCE, refinement)
                 <- SessionThreads <- MCSessionThreads, SessionThreadsProofs
    PesSession, RuntimeConfig   <- LegacySession <- MCLegacySession, LegacySessionProofs
    RipProcess  <- Adapter      <- AdapterProofs
    Verification                <- VerificationProofs
    Rasterizer                  <- RasterizerProofs
    ErrorDiffusion <- Streaming (INSTANCE, refinement)
    Streaming, RuntimeConfig    <- Page <- MCPage, PageProofs

**PesEngine** (external). The engine's states are those of the vendored
`EngineState`; a job's `fate` is where it is between the submission library and the
paper (`JobState`, with the ways to leave the queue made explicit). The commands
`initialiseEngine`, `prepareToPrint`, `startPrinting`, `finishPrinting` do what the
API's comments say of them. Everything else the engine does is nondeterministic,
in any order the API's states allow, and may fall between any two steps of a RIP. A
RIP may find the engine in any of its states (`EngineInit`): in a print session that
another RIP left unfinished, with a job in the middle of being printed, paused, or in
the PRINT_READY that `pes_orchestrator.cpp:931` knows as a "valid post-finish terminal
state" and to which POST_JOB may lead.

**PesSession**. `pc[s]` is the session's place in `runPrintSession`, `polls[s]` the
polls of the wait loop it is in, `known[s]` and `activeSeen[s]` the loop's flags,
`handleOpen[s]` and `stream[s]` the stream as the session and as the library sees
it. The main modelling decisions:

- *A probe and the command decided on it are two steps*, because they are two
  processes in the code. A wait loop that succeeds does so in the very step of the
  probe that satisfied it.
- *A probe may fail.* `getStatus` then yields `UNKNOWN`, queue length 0, not ready
  (`Unreadable`). A command may take effect and still be reported as failed, and the
  other way round.
- *What the engine's state is called.* `Reported` follows `_status_to_json` and
  `getStatus`. The API may deliver the state as a number ("i32", what the vendored
  bindings do) or by name; the controller's table of numbers is not the API's, so
  under "i32" the session sees other states than the engine is in. Both are in `env`.
- *Switches.* `PES_BYPASS_STATE_GATES`, `PES_ALLOW_UNKNOWN_READY`, `PES_CALL_FINISH`
  and the choice of worker or inline submission are in `env` too.
- *Timeouts* are a number of polls per wait loop (`Polls`).
- The submission says what the stream and the job go through, not who does it: the
  page may be taken, the stream aborted and closed, each in a step of its own that
  leaves the session in "submit", until the submission succeeds or fails (`AddPage`).
  `SessionThreads` has the threads behind these steps.

**PrintService**. What a caller of `runPrintSession` relies on, without gates, probes
and engine states: a session sends its job at most once, through a stream that is the
printhead's only one and that is aborted before it is closed if the job did not go out
whole; it comes to one outcome, which never changes; by then its stream is closed; and
it may succeed only at a moment when nothing is in the queue and some job has gone
through it. `Service`, in `PesSession`, is the refinement mapping (`ImplementsService`).
The jobs of the legacy way are jobs from elsewhere there.

**SessionThreads**. A session with the threads of `JslSubmit` in the place of its
submission, for one session, `Self`; the others, if any, are as in `PesSession`. The
main thread and the session share `pc`, the stream and the handle: `JslSubmit`'s
`handle` is the session's stream, and `taken` is whether the engine has the job, which
may already be printing or lost while the main thread still waits. The worker that
`detach` leaves behind runs on through the session's cleanup and after its end.
`ImplementsSession` says that nothing comes of all this that `PesSession` does not
have, and `KeepsThreads` that the session in turn does with the stream only what
`JslSubmit` has.

**Submission** and **JslSubmit**. `Submission` is what `runPrintSession` expects of
a submission: from pending to ok, or to failed, the stream closed in the end, ok
only if the page was taken. `JslSubmit` has the two threads and the library in full:
the worker's attempts and retries, its abort and close after a failure, the store of
`workerOk` and the store of `dataDone_` as separate steps; the main thread's
`timedJoin` as a poll, a sleep and a wake-up, the abort, the second join, the
detach, the close and the cleanup. It is checked and proved as a part of
`SessionThreads`, where `Contract` is the refinement mapping to `Submission`; alone it
is run only for finding 3.

**RipProcess** and **Adapter**. A line of output is the `event` and the `error_code`
it carries as JSON, or mere text. A pipe holds `PipeSize` lines and its writer waits
when it is full. `WriteLine` lets a late submission worker break a line, which then
is no JSON. `RipCrashes` is possible wherever the process is alive. The adapter's
lock makes each access to a job's record one step; one job stands for any number,
for jobs share only the lock. `GET` is two steps, because the copied record shares
its list of events with the original.

**Verification**. Positions in the log count half lines, since the server may write
a line in two pieces. `ReadLine` is one `getline`, `ReachEnd` the one that fails,
`SeekEnd` the seek that then sets `lastPos`; the server may write between any two.
The stall timeout may strike after any poll without progress, the hard timeout
before any poll.

**Rasterizer**. One call per process (`Calls`), files of processes long gone
(`Leftovers`), and `files`, the time each file was last written. Ghostscript is
started and ended by two steps, each creating or closing its files, and between them
another process may clean up; the cleanup itself is a list (`Scan`) and the deletions
(`Sweep`), any of which may fail. The clock may stand still for any time, as one that
counts seconds does, so the sort by age is free among equals. What Ghostscript made is
`whole`, `short` or `undrawn` (exit code 0 and a page missing, told on stderr only);
`picture` is what the buffer holds, `unread` if not all could be read. `Kill` ends a
process anywhere. Options of Ghostscript, the ICC profile's use and the pixels are
left out.

**LegacySession**. The orchestration `--legacy-jsl` and `USE_LEGACY_ORCHESTRATION`
bring back, as one more process on the engine of `PesSession`; `fleet` says which
RIPs run. `legacyPc` is its place in `main`, `plane` the colour's job at hand, `tries`
the looks of `waitForQueuedJob`, which sees nothing but the length of the queue and,
outside Windows, takes the output of a controller that failed for a queued job
(`SeesQueue`). Prepare and start are judged by one exit code; they are two steps,
between which the engine and others may move. `fleet` also has the printhead's rule
that it takes one stream at a time. The jobs of all colours carry one id in the
code; here they differ, so that a property can tell them apart.

**ErrorDiffusion** and **Streaming**. `ErrorDiffusion` is the converter with a whole
picture in memory, one pixel a step. `Streaming` reads a line, diffuses it pixel by
pixel and holds two rows of errors. Each store goes through `Int16`, each share of an
error through `Sixteenth`, the C++ division toward zero. `Whole` is the refinement
mapping: the working copy is the picture with the rows' errors added (`Pending`).

**RuntimeConfig** and **Page**. `loadRuntimeConfig` on switches and numbers of every
kind (unset, empty, no number, out of range). `Page` is step 2 of `main` and the
opening of the job: settings, picture, planes, each packed, widened to the strip,
replaced by the test pattern and inverted, in the code's order, then the job with its
strip. A plane's memory is its size in bits and the set of bits that are one, so that
`DotsIn` can say what a printhead finds there which knows only the strip's width.

In each module, definitions listed in its header as "mistaken forms" are plausible
bugs of the definitions after them. They are used by no specification: they show
that the properties can tell them from the code.

## 3. Runs

| Run | Configuration | Distinct states | What it shows |
|---|---|---|---|
| `session` | one session with its threads, names, all switches, 3 polls (4 for completion), 2 retries, 3 looks per join | 251,088 | streams, what success means, finish, termination, every race of worker and deadlines, refinement of `PesSession`, `PrintService` and `Submission` |
| `session_pair` | numbers, 2 polls; two sessions, a session beside the legacy way, and that one with two colours | 2,401,503 | what survives wrong state names and a second RIP of either kind |
| `adapter` | pipes of 3, 2 progress lines, 2 warnings | 10,177 | the record follows the verdict and ends |
| `verification` | 4 lines, 3 polls | 414,763 | nothing logged before is missed, no failure is passed over |
| `page` | every 3x2 picture of 2 grays, one of 129 dots; 34 settings | 618,250 | conversion, padding and strips |
| `rasterizer` | 2 calls, 1 leftover, 4 files kept, 2 ticks | 93,065 | no bad page, no file in use deleted, nothing left behind |
| `session_stale` | one job left in the queue | violated | see finding 1 |
| `session_numbers` | states by number | violated | see finding 2 |
| `jsl_handle` | 1 retry, 1 look | violated | see finding 3 |
| `adapter_exit` | as `adapter` | violated | see finding 4 |
| `verification_skips` | 3 lines, 2 polls | violated | see finding 5 |
| `rasterizer_unread` | 1 call, alone | violated | see finding 6 |

The properties worth knowing:

- `StreamClosedAtEnd`: by whatever of its exits a session ends, the stream is closed.
- `SuccessMeansOwnJobRan`, `SuccessMeansAJobRan`: a reported success has a job's
  departure from the queue behind it: its own, if it is alone and the queue was
  empty; some job's in any case.
- `ImplementsSession`: with its two threads a session does nothing that `PesSession`
  does not. If the wrapper left a stream open whose page failed (`LeavesStreamOpen` in
  `JslSubmit`), the session would take for closed what is not.
- `ImplementsService`: a session keeps the promise of `PrintService`, whichever of its
  exits it takes. If an engine in an unknown state passed for idle (`IdleOrUnknown`),
  a failed probe would be enough for a success that the promise does not allow.
- `SuccessOnlyWhenDrained`, `SuccessOnlyWhenIdle`: at the moment success is
  reported, the queue really is empty and the engine really is in a terminal state,
  although a failed probe reads as an empty queue.
- `FinishSparesOwnJob`: the finish of a completed print does not cancel it. With
  numbered states this does not hold, for the same reason as finding 2.
- `StreamsClosedAtEnd`, `LegacySuccessMeansQueued`: whoever else works the queue, the
  streams of sessions and of the legacy way are closed when they end, and the legacy
  way's success means that a job was queued. On Windows that is so on any engine. On
  other systems, where it takes a failed probe for a queued job, it is so if the RIPs
  found the engine outside of a print session (`SessionStates`): such an engine starts
  only what it has prepared, and prepares only for a job. Of an engine found in
  PRINT_READY it is not so, and the property leaves that case out: the probe fails
  (`memjet-rip.cpp:455`), prepare finds the engine "already primed" and ends with exit
  code 0, start is accepted, and success is reported with nothing ever queued.
- `ErrorsStaySmall`: no store into a 16-bit error wraps. A value read from a row
  stays within -69..324 and the pixel at hand within -124..379.
- `StreamingImplementsWhole`: two rows of errors give the dots of the whole picture in
  memory. Clearing the wrong row (`KeepsNextRow`) is found on a picture of two lines.
- `PlanesFitStrip`, `PaddingIsBlank`: the printhead finds in each plane as many lines
  as the job says and in them the dots that were drawn, and nothing in the padding.
  Not so for a strip narrower than the raster: `repackToStripWidth` then leaves the
  plane as it is, and the property is stated without that case.
- `MeetsContract`, `ClosedWhenLeft`, `OnlyDetachedOutlives`: the submission's
  outcome, stream and thread agree, however late the worker is and whatever the session
  and the engine do meanwhile. The contract implies that an ok means a page taken.
- `CompletedIsOk`, `EndIsFinal`, `AnswerShowsEnd`, `ExitSettles`: a job's end in the
  adapter is the RIP's verdict, is final, and is shown with its event.
- `PrintedIsVerified`, `PassIsTrue`: what the log said before the verification began
  decides it; what comes later may be missed (finding 5) but is never invented.
- `PictureIsChecked`: a picture that reaches the conversion was drawn whole and read to
  its end. The one exception is a CMYK picture whose first attempt was refused and
  whose reading failed: that one should not get through either (`OnlyWholePictures`),
  but does (finding 6).
- `RunningIsSpared`: no cleanup takes a file a running call needs, if it keeps at
  least 3N - 2 files with N calls around: three of each other call, one of its own,
  and the PDF in question is the oldest of its call's. One fewer is too few (the
  mutant `KeepsOneLess`; for N = 3, 7 do and 6 do not). The default of 20 is enough
  for seven processes, counting those that left files behind meanwhile.
- `LeftBehind`: which files a call leaves, whichever of its steps fails.
- `Termination`, `LegacyEnds`, `MainLeaves`, `WorkerEnds`, `JobEnds`,
  `VerificationEnds`, `PageEnds`, `CallEnds`: all of it ends.

### Bounds, and why they are enough

A wait loop behaves differently on its first, on a middle and on its last poll:
three polls have all of them, and the wait for completion needs one more to see
activity first. Two retries have a first, a middle and a last attempt; a join of
three looks likewise. `session` has the session alone, as two with threads have
millions of states; two sessions without threads are in `session_pair`,
and the theorems allow any number beside the one with threads. In the passing runs no
job is left over, so that an engine found printing prints nothing; the theorems allow
any jobs left over. Two sessions meet in every pair of places; a third adds no
new kind of interference, for sessions see one another only through the engine.
The legacy way with two colours runs alone, for beside a session it has three million
states more; the theorems cover that as well. Pictures of 3 by 2 have an inner pixel
with all its neighbours, both edges and a last line, and the strips stand in every
relation to a raster of 3 or of 129 dots: narrower, as wide, within the same 128-bit
word, in the next and in the one after. Pipes of three lines fill up (a failing RIP
writes two lines to stdout after whatever was there) and make the writer wait. Four log lines are the three signals
and one more, before, between or after them. Two calls of the rasterizer are a
cleaner and its victim, four kept files are just enough for them, and two ticks make
the leftover too old but no running call's file. The theorems of section 5 do not
depend on any of these bounds.

### Fairness

Each session's own steps are weakly fair (a thread that can run is scheduled); the
engine is not, since it owes the RIP nothing. Controller processes are assumed to
return: the code has no timeout there (`runThriftCmd`, line 300), which is listed as
a hazard. Inline submission is not fair, since the library may block for good; this
is why `Termination` is stated for submission by a worker. The legacy way's steps are
fair but its `addPage`, which is on the main thread: `LegacyEnds` excepts a call that
never returns. In `SessionThreads` the main thread and the worker are fair, and a
blocked `jslibAddPage` is owed a return only after the job was aborted, as its header
says. In `Page` the one process is fair; `main` stops there, so the run does
not look for deadlock.
In `Adapter` the job's thread and the RIP's writes are fair, crashes and requests are
not. In `Verification` the poller is fair and the log's writer is not. In `Rasterizer`
each call's steps are fair, the ends of Ghostscript included: `system()` has no
timeout, so a Ghostscript that hangs hangs the RIP. Kills and the clock are not.

`JobEnds` holds as long as the RIP's stderr fits its pipe (`MaxStderr < PipeSize`).
With `MaxStderr = PipeSize` TLC finds the two processes waiting for each other: the
adapter reads stdout to its end first, while the RIP waits to write to stderr.

## 4. Findings

1. `SuccessMeansOwnJobRan`, run `session_stale`: the call of `clearJobQueue` that is
   to remove stale jobs is part of a comment line (`pes_orchestrator.cpp:1262`), and
   the queue gate takes any queued job for its own.
2. `SuccessOnlyWhenIdle`, run `session_numbers`: the controller's table of state
   numbers is not the API's; FAULT is read as PRIMED_IDLE.
3. `ClosedHandleIsLeftAlone`, run `jsl_handle`: the wrapper closes a failed stream
   and the session closes it again.
4. `ExitWithoutEvent`, run `adapter_exit`: a RIP that dies without an event leaves
   the job with the code of an earlier line, where the documentation promises
   `RIP_RUNTIME_EXCEPTION`.
5. `SignalsAreSeen`, run `verification_skips`: lines that arrive between the end of
   a poll's file and its seek to the end are never read.
6. `OnlyWholePictures`, run `rasterizer_unread`: the read buffer is sized before it is
   read into and not emptied when that fails, so that the check for an empty buffer
   (`pdf_rasterizer.cpp:1061`) passes whatever becomes of the retry, where
   `VALIDATION.md:91` and `:108` promise an abort.

One more divergence changes no property here: the wait in front of "if engine was
OFF, initialize it" (`pes_orchestrator.cpp:982`) does not accept OFF, so a
session on an engine that is off ends there; `InitialiseEngine` is reached only if the
engine is switched off between the two probes.

## 5. Proofs

| Module | Theorems | Obligations rest on |
|---|---|---|
| `PesSessionProofs` | `TypeCorrect`, `StreamsAreClosed`, `SuccessNeedsAJob`, `SuccessNeedsOwnJob`, `SuccessNeedsDrainedQueue`, `SuccessNeedsIdleEngine`, `FinishSparesTheJob`, `SessionsImplementService` | `PollsAssumption`, `EnvsAssumption`, `JobsAssumption`; `SuccessNeedsOwnJob` also assumes one session and no job left over, `SuccessNeedsIdleEngine` an API that delivers names, `FinishSparesTheJob` one session and such an API |
| `SessionThreadsProofs` | `ThreadsImplementSession`, `SessionKeepsThreads`, `ThreadedTypeCorrect`, `ThreadedStreamsAreClosed`, `ThreadedSuccessNeedsOwnJob`, `ThreadedSuccessNeedsIdleEngine`, `ThreadedFinishSparesTheJob`, `ThreadsImplementService`; of the submission `ThreadsTypesCorrect`, `LeavesStreamClosed`, `OutlivesOnlyDetached`, `ThreadsMeetContract` | those of `PesSession`; `SelfAssumption`, `BoundsAssumption`: retries and polls are natural, one poll at least |
| `AdapterProofs` | `TypeCorrect`, `CompletedJobsAreOk`, `AnswersShowTheEnd`, `ExitSettlesJobs`, `EndsAreFinal` | a pipe holds a line |
| `VerificationProofs` | `TypeCorrect`, `PrintedJobsAreVerified`, `PassesAreTrue` | one poll at least |
| `LegacySessionProofs` | `FleetStreamsAreClosed`, `FleetSuccessNeedsAJob`, `LegacySuccessNeedsAJob`, `FleetSuccessNeedsDrainedQueue`, `FleetImplementsService` | those of `PesSession`, and `LegacyPlanesAssumption`: the colours' jobs are some and distinct; `LegacySuccessNeedsAJob` states its own condition |
| `RasterizerProofs` | `TypeCorrect`, `NothingLeftBehind`, `FilesInUseAreSpared`, `PicturesAreChecked` | finite sets of calls and leftovers; the last two also assume `KeepsEnough` |
| `PageProofs` | `NoWrap`, `PageImplementsWhole`, `LinesArePadded`, `PageTypes`, `PlanesFit`, `PaddingStaysBlank` | `PicturesAssumption`: pictures of some size, grays of 0..255 |

The inductive invariants stand at the end of each specification, as named parts.

- `PesSession`: `HandleInv` ties the session's view of its stream to the library's
  and to its place: what is not closed is known to be open, only where it will still
  be closed. `JobInv` says that a session beyond the queue gate has some job in the
  queue or gone from it; `StreamClosedAtEnd` and success are not inductive without
  them. `CompletionInv` carries what a probe saw across the engine's moves: the engine
  prints one job at a time and none in SESSION_COMPLETE, and a session that saw that
  state, alone and by its name, may rely on nothing printing until it commands it.
  The refinement of `PrintService` rests on the same parts: no engine move and no
  command takes a job back to where it was, a session between its gates has its stream
  where the promise wants it, and the step that reports success is the one whose probe
  read the empty queue. A failed probe reads as an empty queue too, but then its state
  is UNKNOWN, which is no idle state.
- `SessionThreads`: `StepsAgree` ties the main thread's place to the session's, and
  `ThreadsInv` adds the invariant of `JslSubmit` wherever a worker is used. Each step
  of the composition is a step of `PesSession` or a stutter: the worker's attempts,
  pauses and stores are stutters, its abort and close and the library's taking of the
  page are the finer steps of `AddPage`, and the main thread's joins are the
  submission's success or failure. No join can report ok unless the worker's flag is
  set, and `WorkerInv` knows that flag to be the truth. The theorems of `PesSession`
  then hold with threads, and are cited, not proved again. `SessionKeepsThreads` is the
  other direction: what the session and the engine do leaves the threads alone.
- `JslSubmit`: `WorkerInv` says that the worker's flags tell the truth and that a
  worker that failed has aborted before it says so; `MainInv` says in which places of
  the main thread which outcome and handle are possible. They give the refinement of
  `Submission`, within the session: initial states map to initial states, and each step
  to a step of the contract or to a stutter.
- `Adapter`: `PipeInv` is the heart. A line that ends the job agrees with the
  verdict, and no line with an event follows it, be it in the RIP, in the pipe or
  already read. `ProcessInv` says that the verdict is the last thing the process
  finds; `RecordInv` ties the record to the thread.
- `Verification`: `ReadInv` says that a position within a line, or one after an end
  of file, is beyond the lines that were complete at the beginning, and that the
  signals of the lines passed are found. `EndInv` draws the conclusion when a poll
  ends without a pass.
- `LegacySession`: every step of a session or of the engine keeps the invariant of
  `PesSession`, which is cited, and the legacy way's steps are shown to keep it too.
  `SeenInv` is what the legacy way's success rests on, one of two things. Where a failed
  probe counts for nothing, the wait itself has seen a job (`SeenByWait`). Elsewhere an
  engine that was found at rest is in a print session only after some job was queued
  (`SeenByEngine`): prepare is accepted for a job, start in a print session, and a job
  once seen stays seen, be it queued or gone. This needs no assumption on the engine's
  initial state but the one the property states.
- `Rasterizer`: `StampInv` and `TidyInv` say which files a call has at each place.
  `RunningIsSpared` is proved by counting. The other N-1 calls have at most three
  candidates each and the call whose PDF is in question one that is no older, so with
  3N - 2 kept every file of a call is among the latest; what a cleanup is about to
  delete (`DoomedInv`) therefore belongs to processes long gone, in whatever order
  calls list and delete. `PictureIsChecked` needs this: a call whose output another
  deletes between its two attempts would judge what is not there.
- `Page`: the errors that reach a pixel from the row above are at most 7 + 39 + 23 = 69
  either way, and 55 more from its left neighbour; `ErrorsStaySmall` states the bound
  for each place of the two rows, by how many neighbours have been done, and with it
  no `Int16` wraps. Without wrapping the sums of `Streaming` and of `ErrorDiffusion`
  are the same whatever their order, which gives the refinement. `Holds`, `Blank` and
  `Fits` relate a plane's memory to its dots through packing, widening, pattern and
  inversion.

Only model-checked: all liveness (`Termination`, `LegacyEnds`, `MainLeaves`,
`WorkerEnds`, `JobEnds`, `VerificationEnds`, `PageEnds`, `CallEnds`), which is out of
the prover's reach. Every safety property that a passing run checks is stated by a
theorem, the refinements included. `FairSpec` of `PesSession` adds fairness to `Spec`;
that the threads keep this fairness too is not proved and not needed, for
`Termination` is checked with the threads themselves.

## 6. Not modelled, and assumptions

- Colour: the tone settings and the separation into inks are arithmetic in floating
  point. A CMYK plane is one of a few patterns (`InkPatterns`), the diffusion of its
  inks being `ErrorDiffusion`. Thresholding without diffusion and `rasterize`, which
  `main` does not call, are left out.
- The parsing of the command line and of the controller's JSON, byte by byte.
- What a printhead does with planes wider than its strip (a hazard; the library says
  nothing of it).
- The senders `gbor_generator`, `direct_tcp_sender`, `xitron_api_sender` and the
  programs beside them, and the test programs: `CMakeLists.txt` builds none of the
  senders into the RIP, and they share no state with it.
- The controller's retry of prepare is a wait inside one command; its interactive menu,
  pause, resume and settings are not used by the RIP.
- The legacy way is modelled with a controller configured. Without one
  (`thriftControllerPath` empty) `runThriftCommands` and `waitForQueuedJob` do nothing and
  return true (`memjet-rip.cpp:381`, `:409`): the RIP then submits and looks at nothing.
- What the legacy way's success means outside Windows on an engine found in a print
  session: nothing (see `LegacySuccessMeansQueued` above).
- The legacy way's best-effort commands whose exit code nobody reads are steps that
  may do nothing.
- Text and layout of messages; the adapter's log tail; elapsed times other than by
  counting polls.
- The order of the engine's queue: it may print any assembled job.
- A Ghostscript whose RIP was killed is taken to end with it. Removing one's own file
  always succeeds; memory does not run out after a picture was read.
- The log is not rotated or truncated while it is read.
- The RIP's output is text Python can decode. A byte that is none raises in
  `_run_job` and leaves the job running (listed as a hazard).
- A worker that is detached goes on with references to what `runPrintSession` had on
  its stack. `OnlyDetachedOutlives` says when that can happen; what the memory then
  holds is beyond the model.
- A crash of the RIP in the middle of a session leaves what another session finds as
  `Leftover`.

## 7. What could follow

1. A RIP from end to end: the stages of `RipProcess` with `PrintService` in the place
   of its print stage and `Verification` after it, below the adapter.
2. `Adapter` with several jobs whose RIPs share one engine.
3. Threads for every session of `SessionThreads`, not for one of them.
4. Abstract specifications of the adapter's answers and of the rasterizer's calls.
