# TLA+ models of the firmware-update orchestrator

This directory models `src/redfish-core/lib/update_service.hpp`. That file is
bmcweb's Redfish UpdateService. It holds the firmware-update orchestrator and
the task callback that tracks an accepted update. It is model-checked with TLC
and, for its central invariants and its refinement of an abstract guard, proved with TLAPS.

## 1. The system

All of it runs on one asio `io_context`, so every handler below runs to
completion before the next one starts. The process-wide session is four
globals (lines 43-54):

| global | meaning |
|---|---|
| `fwUpdateInProgress` | the single-flight flag |
| `fwUpdateMatcher` | InterfacesAdded match on `/xyz/openbmc_project/software` |
| `fwUpdateErrorMatcher` | InterfacesAdded match on `/xyz/openbmc_project/logging` |
| `fwAvailableTimer` | the availability watchdog |

`cleanUp()` (56-61) clears the flag and both matchers. It leaves the timer
alone.

The parts and how they interact:

- **Routes.** `handleUpdateServicePost` (674-720) and the SimpleUpdate action
  (409-530) call `monitorForSoftwareAvailable` (269-403). They then write the
  image (`uploadImageFile`, 532-551) or start `DownloadViaTFTP` (510-526).
- **monitorForSoftwareAvailable.** It refuses with 503 when the flag is set.
  Otherwise it replaces the timer, sets the flag and installs both matchers.
  The callbacks of all three capture the request's `asyncResp`.
- **The platform.** The software manager turns an image in `/tmp/images` into
  a software object or an error-log entry.
  - The software matcher runs `softwareInterfaceAdded` (81-265), which calls
    `getDbusObject`. Its reply does one of two things:
    - On failure, it answers InternalError and calls `cleanUp()` (108-130).
    - On success, it destroys the timer (134), activates the image, creates a
      task (139-257) and clears the flag (259).
  - The error matcher classifies the message id (356-398). For a string
    message it destroys the timer (355).
- **Timer handler.** The timer's wait handler (290-309) calls `cleanUp()`
  first. Only then does it test for `operation_aborted`. Destroying a pending
  `steady_timer` posts this handler with `operation_aborted`.
- **setApplyTime.** `setApplyTime` (553-590) runs before a multipart image is
  written. It rejects an apply time other than Immediate or OnReset with
  PropertyValueNotInList; otherwise it writes `RequestedApplyTime` and answers
  when that D-Bus call replies.
- **Task callback.** The task callback (141-251) runs for every
  PropertiesChanged signal on the object. It moves the task between Running,
  Stopping, Completed and Exception, and re-arms its deadline. The task's own
  lifecycle (match reset, deadline, disposal) is in `task.hpp`. That file is
  not in this repository, so it is modelled from spec 4.2/4.5.

Not modelled:

| lines | what | why |
|---|---|---|
| 722-1042 | GET/PATCH UpdateService and FirmwareInventory | Read D-Bus and render JSON. They never touch the session globals. |
| 62-77 | `activateImage` | Only its effect is kept: the object is recorded as activated. |
| all | message texts and logging | Left out. Responses are sets of message kinds. |

## 2. Modules

### UpdateSession.tla

This module models the session and every handler that writes it.

Constants:
- `Req`: the requests.
- `NoReq`: the null pointer.
- `MaxForeignLogs`: a bound on entries logged by unrelated daemons.

A matcher or timer is named by the request whose `asyncResp` its callback
captured.

Variables:
- `fwUpdateInProgress`, `fwUpdateMatcher`, `fwUpdateErrorMatcher`, `fwAvailableTimer`: the four globals.
- `wait[r]`: the state of request r's timer handler: idle, waiting, aborted, expired or done.
- `arrived`: requests whose route has run.
- `resp[r]`: the message kinds written into r's response.
- `images` and `processed`: the image pipeline.
- `tftp`, `lookups` and `applyTimeCalls`: outstanding D-Bus replies.
- `activated` and `tasks`: what the task path did.
- `foreignLogs`: how many entries unrelated daemons have logged.

Actions and the code they model:

| action | lines | notes |
|---|---|---|
| `PostUpdate` | 674-720 | Branches `OctetStream`, `Multipart` and `BadContentType`. The parse outcome of a multipart body is chosen from `MultipartOutcome`. |
| `SimpleUpdate` | 409-530 | Branches `UriRejected` and `TftpStarted`. |
| `TftpReply` | 510-523 | Success, or `cleanUp()`. |
| `TimerExpires` | 287-289 | The deadline passes. |
| `TimerHandler` | 290-309 | The wait handler. |
| `SoftwareObjectAdded` | 81-102 | The software matcher's callback. |
| `LookupReply` | 103-260 | Branches `LookupFailed` and `LookupFound`. |
| `ImageErrorLogged`, `ForeignLogged` | 323-402 | The error matcher's callback (`ErrorMatcherFires`). |

`MonitorThen(r, cleaned)` is `monitorForSoftwareAvailable`. When `cleaned` is
true, it also includes the `cleanUp()` that the same handler calls afterwards
on a failed write. So the whole handler is one step.

`ApplyTimeReply` (575-589) is the reply to `setApplyTime`'s D-Bus write; the
variable `applyTimeCalls` holds the outstanding writes. `Multipart(r,
outcome, applyTime)` covers every exit of `updateMultipartContext`:

- `parseError`: the MIME parse fails (InternalError);
- `noAnswer`: a part has no Content-Disposition (602-606). The handler
  leaves without writing anything, with monitoring armed. `json::parse`
  throwing on a malformed UpdateParameters part (628-629) leaves the handler
  by an exception; that is not modelled;
- `invalid`: a Targets or missing-part check answers an error;
- `written` / `badWrite`: `setApplyTime`, then the upload.

### UpdateGuard.tla

This is the abstract specification of what the single-flight guard promises
(spec 4.1). Its one variable is `holder`, the request holding the session or
`NoReq`. `Acquire(r)` takes a free session; `Release` frees a held one.
`GuardSpec` adds weak fairness on `Release`: a session is never held for
ever.

`UpdateSession` instantiates it as `Guard` with the refinement mapping
`holder <- sessionHolder`, where `sessionHolder` is `fwUpdateMatcher` while
`fwUpdateInProgress` is set and `NoReq` otherwise. `GuardRefinementSafe`
(`Guard!GuardSafe`) and `GuardRefinement` (`Guard!GuardSpec`) are the
properties that say the code implements it.
`Release` is not tied to the holder: anyone may release. So the foreign
teardown that `NoForeignTeardown` finds (a refused request's `cleanUp()`)
still refines the guard. The refinement says that the session is never handed
straight from one request to another. It does not say who may end it.

### Task.tla

This module models the task callback and the task lifecycle.

- `Callback(t, s)` is the callback of lines 141-251. It is a function of the
  task and the signal that returns the new task and whether it returned
  `task::completed`.
- `Deliver` runs `Callback` on a delivered signal. After completion the timer
  is cancelled and the match reset is posted; one signal that was already
  dispatched may still be delivered.
- `MatchReset` runs the posted reset.
- `Deadline` fires the task's watchdog.
- The lifecycle actions `CreateTask`, `Deliver`, `MatchReset`, `Deadline`,
  `TaskInit` and `TaskNext` are `spec_modelled`.

### UpdateSessionProofs.tla

This module holds the TLAPS proofs about the session (section 5).

### TaskProofs.tla

This module proves the task model's type invariant and `LiveTaskHasDeadline` (section 5).

### MCUpdateSession.tla, MCTask.tla

These modules give the model values and symmetry sets for TLC.

## 3. Runs

Every run sets `CHECK_DEADLOCK FALSE`. After the last request has been served
the server idles: nothing is left to do, and that is a correct end state, not
a deadlock. `arrived` makes each request arrive once, and `MaxSignals` and
`MaxForeignLogs` bound the environment.

Passing runs:

| run | cfg | what it shows |
|---|---|---|
| us_safety | `MCUpdateSession_safety.cfg` | With 3 requests under symmetry (6.6M states), `TypeOK`, `GuardHasReleaser`, `OnlyHeldTimerArmed` and `BusyCreatesNoSession` hold. |
| us_guard_live | `MCUpdateSession_live.cfg` | With 2 requests, the session implements `UpdateGuard`, fairness included (`GuardRefinementSafe`, `GuardRefinement`). So the flag set by an accepted update is always cleared again. |
| us_single_answered | `MCUpdateSession_single.cfg` | With 1 request, `EveryAcceptedAnswered` holds. |
| task_disposal | `MCTask.cfg` | With 2 tasks, progress values {50,100,101} and 3 signals per task, `TaskTypeOK`, `LiveTaskHasDeadline` and `TaskEventuallyDisposed` hold. |

`GuardHasReleaser` says: while the flag is set, the holder's timer handler is
still pending. `OnlyHeldTimerArmed` says: every armed wait belongs to the
timer `fwAvailableTimer` holds. So replacing the pointer (284) or nulling it
(134, 355) always cancels the one armed timer, and no orphaned timer can fire a
timeout into an earlier request. It does not say that the aborted handler is
harmless: that handler still runs `cleanUp()` (291), which is what
`us_every_accepted_answered` shows. `BusyCreatesNoSession` says: a request
answered Busy (275-282) never has a timer armed for it and is never named by a
matcher or the timer pointer. `LiveTaskHasDeadline` says: while a task's match
is live, its watchdog is armed. `TaskEventuallyDisposed` says: every task's match is
eventually released.

Violation runs. Each checks what the spec says, and TLC finds a
counterexample:

| run | what TLC finds |
|---|---|
| us_every_accepted_answered | 3 requests, no foreign log entries. r1 is accepted and its write fails: `cleanUp()` (549) frees the session, but r1's timer stays armed. r2 is accepted, and its new timer (284) aborts r1's wait. r1's aborted handler runs `cleanUp()` before its abort check (291), which frees r2's session. r3 is accepted and replaces r2's timer. r2's aborted handler returns silently, and r2 never gets an answer. |
| us_no_foreign_teardown | A refused request's failed write (549) or TFTP error (515) calls `cleanUp()` on another request's session. |
| us_rejected_uploads_nothing | One request: a multipart update whose apply time is rejected (PropertyValueNotInList, 573) still has its image uploaded (671). |
| us_task_tracks_own_image | A refused request's image becomes the session holder's task. |
| task_terminal | The late signal after completion moves a terminal task (Exception to Completed in TLC's trace). |
| task_completion | A delivery error or a badly typed property ends a task that is still Running. |
| task_percent | A Progress value of 101 is stored. |

Why the bounds are enough:

- Three requests is the smallest instance in which a stale timer handler can
  free one session and let a third update replace that session's timer. Two requests already show the Busy-path
  teardown.
- With two tasks, each can be created, signalled three times and disposed.
  This includes the late signal after completion.
- The progress values cover an in-range value, 100, and one out-of-range
  value.

## 4. Fairness

The io_context runs every posted handler and every D-Bus reply it receives,
and a steady_timer's deadline passes. So `TimerExpires`, `TimerHandler`,
`TftpReply`, `LookupReply`, `MatchReset` and `Deadline` are weakly fair.
Clients and the platform (new requests, object creation, error logs, task
signals) owe nothing and get no fairness.

## 5. Proofs

`UpdateSessionProofs.tla` proves five theorems for every value of the
constants. The only assumption is `ConstAssumption`: `NoReq \notin Req` and
`MaxForeignLogs \in Nat`.

- **TypeCorrect** (`Spec => []TypeOK`). It has one step per action. The step
  for `PostUpdate` splits into its three branches. Most steps need lemmas
  about the helpers:
  - `DestroyTimerFacts`: destroying a timer keeps waits typed and pending
    waits pending;
  - `ClassifyType`;
  - `RespondType`;
  - `MonitorThenFacts`.
- **GuardRefinementHolds** (`Spec => GuardRefinementSafe`). The session
  implements the safety part of `UpdateGuard`. It needs no invariant:
  - The initial state maps to a free session.
  - The only step that sets the flag is an accepted
    `monitorForSoftwareAvailable`. It found the flag clear, so it maps to
    `Acquire(r)` (`MonitorThenRefines`).
  - A step that clears the flag is a `Release` or a stutter
    (`ClearIsRelease`).
  - Every other step leaves the flag and the matcher alone, a stutter
    (`KeepIsStutter`).
- **TaskTypeCorrect** (`TaskSpec => []TaskTypeOK`, in `TaskProofs`). It
  assumes `TaskAssumption`: progress values are uint8 and `MaxSignals` is a
  natural. The lemma `CallbackType` splits on the four kinds of signal and
  shows the callback returns a well-typed task.
- **TaskDeadlineInvariant** (`TaskSpec => []LiveTaskHasDeadline`, in
  `TaskProofs`). The invariant is inductive together with `TaskTypeOK`. The
  lemma `CallbackKeepsDeadline` says: a callback that returns
  `!task::completed` keeps the watchdog armed or re-arms it (200, 243). A
  completing callback moves the match to closing. The late signal, the reset
  and the deadline leave it gone. This is the safety half of
  `TaskEventuallyDisposed`: a live match always has a timer to end it. The
  liveness half stays with TLC.
- **GuardInvariant** (`Spec => []GuardHasReleaser`). On its own the invariant
  is not inductive; conjoined with `TypeOK` it is. The argument for each
  step:
  - Every path through `cleanUp()`, and the task path, clears the flag.
  - `monitorForSoftwareAvailable` either refuses (nothing changes) or
    installs request r as the matcher with r's wait set to waiting.
  - Destroying a timer only moves a waiting handler to aborted, which is
    still pending (`DestroyTimerFacts`, `ErrorMatcherKeepsPending`).
  - `TimerExpires` moves waiting to expired, which is also still pending.

- **TimerInvariant** (`Spec => []OnlyHeldTimerArmed`). The invariant is
  inductive together with `TypeOK`. The only step that arms a wait is an
  accepted `monitorForSoftwareAvailable`. That step first destroys the timer
  the pointer held, and by the invariant that was the only armed one. The
  steps that null the pointer (`LookupFound`, the error matcher) destroy the
  timer too. The lemma `DestroyHeldTimer` states this: destroying the one armed
  timer leaves no wait armed.
- **BusyInvariant** (`Spec => []BusyCreatesNoSession`). Alone, the invariant
  is not inductive. Nothing in it stops a request that has not arrived from
  being named by a pointer, and that request could later be answered Busy. The
  strengthening `NotArrivedUntouched` (defined in `UpdateSession`, and checked
  by TLC on the 3-request instance before the proof) closes the gap. It says
  that until its handler runs, a request has an idle wait, an empty response
  and no pointer naming it. It also says that every outstanding `setApplyTime`
  or `getDbusObject` reply belongs to a request that has arrived. The step
  proof has two generic lemmas:
  - `ArrivalStepBusy`: a route handler for request r writes Busy only while
    the flag is set, and then monitoring leaves the waits and pointers alone.
  - `QuietStepBusy`: every other handler answers only arrived requests, never
    with Busy, and names nobody new.

  Each action then discharges their hypotheses (`MonitorThenArrival`,
  `ErrorMatcherBusy`, `RespondArrived`, `DestroyTimerKeepsIdle`).

Only model-checked:
- The liveness properties (`GuardRefinement`'s fairness part,
  `EveryAcceptedAnswered` and `TaskEventuallyDisposed`). They need fairness and ENABLED, which TLAPS
  cannot handle.
- The properties that TLC finds violated (`EveryAcceptedAnswered` with three
  requests, `NoForeignTeardown`, `TaskTracksOwnImage`,
  `RejectedUploadsNothing`, `TerminalAbsorbing`, `CompletionIsTerminal`,
  `PercentBounded`). They are findings, not theorems.
