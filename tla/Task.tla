-------------------------------- MODULE Task --------------------------------
(***************************************************************************)
(* The task that tracks an accepted firmware update: the callback passed   *)
(* to task::TaskData::createTask in update_service.hpp (lines 139-257) and *)
(* the lifecycle task.hpp gives it (spec 3, 4.2, 4.5; task.hpp is not part *)
(* of this repository).  A task owns a PropertiesChanged match on its      *)
(* software object and a watchdog timer.  Each signal the match delivers   *)
(* runs the callback; when the callback returns task::completed the timer  *)
(* is cancelled and the match's reset is posted, so one more signal        *)
(* already dispatched may still run the callback (spec 4.2).  When the     *)
(* timer fires the task is disposed and stays as it was (spec 9).          *)
(***************************************************************************)
EXTENDS Naturals

CONSTANTS
    TaskId,         \* the software objects a task may be created for
    ProgressValue,  \* the uint8 Progress values the platform may report
    MaxSignals      \* bound on the signals delivered to one task

ASSUME TaskAssumption ==
    /\ ProgressValue \subseteq 0..255
    /\ MaxSignals \in Nat

VARIABLES
    created,  \* the objects a task has been created for
    task      \* per object, the TaskData fields the callback reads and writes

taskVars == <<created, task>>

TaskState == {"Running", "Stopping", "Completed", "Exception"}
Terminal == {"Completed", "Exception"}

(* The watchdog: cancelled, or armed for 5 minutes or for 5 hours.         *)
Timer == {"Off", "Short", "Long"}

(* The match: installed, reset posted, or reset.                           *)
MatchState == {"live", "closing", "gone"}

TaskRec == [state : TaskState, percentComplete : 0..255, timer : Timer,
            match : MatchState, signals : 0..MaxSignals]

(* Activation values are xyz.openbmc_project.Software.Activation.          *)
(* Activations.<name>; the callback matches them by suffix (179-204).      *)
(* "Activating" does not end with "Active", nor "Staging" with "Staged".   *)
ActivationValue == {"NotReady", "Invalid", "Ready", "Activating", "Active",
                    "Failed", "Staged", "Staging"}
EndsInvalidOrFailed == {"Invalid", "Failed"}
EndsStaged == {"Staged"}
EndsActive == {"Active"}

(* A PropertiesChanged signal: the interface, and whether the Activation  *)
(* or Progress property in it holds a value, the wrong variant type, or is *)
(* absent.  "Error" is a call of the callback with a non-zero error code.  *)
Signal ==
    [iface : {"Activation"}, kind : {"value"}, value : ActivationValue]
    \cup [iface : {"ActivationProgress"}, kind : {"value"}, value : ProgressValue]
    \cup [iface : {"Activation", "ActivationProgress"}, kind : {"BadType", "Absent"},
          value : {"none"}]
    \cup [iface : {"Other", "Error"}, kind : {"Absent"}, value : {"none"}]

TaskTypeOK ==
    /\ created \subseteq TaskId
    /\ task \in [TaskId -> TaskRec]

-----------------------------------------------------------------------------
(* Mutant of Callback: a staged image is reported with a state name that *)
(* is not a Redfish TaskState.                                              *)
CallbackPaused(t, s) ==
    IF s.iface = "Activation" /\ s.kind = "value" /\ s.value \in {"Staged"}
    THEN [done |-> FALSE, task |-> [t EXCEPT !.state = "Paused", !.timer = "Long"]]
    ELSE [done |-> FALSE, task |-> t]

(* Mutant of Callback: a staged image cancels the watchdog instead of      *)
(* extending it to 5 hours (line 200).                                      *)
CallbackStagedCancels(t, s) ==
    IF s.iface = "Activation" /\ s.kind = "value" /\ s.value \in EndsStaged
    THEN [done |-> FALSE, task |-> [t EXCEPT !.state = "Stopping", !.timer = "Off"]]
    ELSE [done |-> FALSE, task |-> t]

(* The callback of lines 141-251: the task after it, and whether it        *)
(* returned task::completed.                                                *)
Callback(t, s) ==
    LET Result(done, t2) == [done |-> done, task |-> t2]
        act  == s.iface = "Activation" /\ s.kind = "value"
        prog == s.iface = "ActivationProgress" /\ s.kind = "value"
    IN
    CASE s.iface = "Error"                                     \* 145-148
             -> Result(TRUE, t)
      [] s.iface = "Activation" /\ s.kind = "BadType"          \* 165-170
             -> Result(TRUE, t)
      [] act /\ s.value \in EndsInvalidOrFailed                \* 179-187
             -> Result(TRUE, [t EXCEPT !.state = "Exception"])
      [] act /\ s.value \in EndsStaged                         \* 189-202
             -> Result(FALSE, [t EXCEPT !.state = "Stopping", !.timer = "Long"])
      [] act /\ s.value \in EndsActive                         \* 204-210
             -> Result(TRUE, [t EXCEPT !.state = "Completed"])
      [] s.iface = "ActivationProgress" /\ s.kind = "BadType"  \* 223-228
             -> Result(TRUE, t)
      [] prog                                                  \* 236-243
             -> Result(FALSE, [t EXCEPT !.percentComplete = s.value, !.timer = "Short"])
      [] OTHER                                   \* 174-176, 211, 232-234, 250
             -> Result(FALSE, t)

(* createTask, then startTimer(5 minutes) (139-255).                       *)
NewTask ==
    [state |-> "Running", percentComplete |-> 0, timer |-> "Short",
     match |-> "live", signals |-> 0]

CreateTask(o) ==
    /\ o \notin created
    /\ created' = created \cup {o}
    /\ task' = [task EXCEPT ![o] = NewTask]

(* The match delivers signal s to object o's task.  On task::completed the *)
(* timer is cancelled and the reset posted; a signal delivered after that  *)
(* is the last one.                                                         *)
Deliver(o, s) ==
    LET t == task[o]
        r == Callback(t, s)
    IN
    /\ o \in created
    /\ t.match \in {"live", "closing"}
    /\ t.signals < MaxSignals
    /\ task' = [task EXCEPT ![o] =
                  [r.task EXCEPT
                     !.timer   = IF r.done THEN "Off" ELSE @,
                     !.match   = IF t.match = "closing" THEN "gone"
                                 ELSE IF r.done THEN "closing" ELSE "live",
                     !.signals = @ + 1]]
    /\ UNCHANGED created

(* The posted match.reset() runs.                                          *)
MatchReset(o) ==
    /\ o \in created
    /\ task[o].match = "closing"
    /\ task' = [task EXCEPT ![o].match = "gone"]
    /\ UNCHANGED created

(* Mutant of Deadline: the timer handler forgets to reset the match.     *)
DeadlineKeepsMatch(o) ==
    /\ o \in created
    /\ task[o].timer # "Off"
    /\ task' = [task EXCEPT ![o].timer = "Off"]
    /\ UNCHANGED created

(* The watchdog fires: the task is disposed and its state left as it was.  *)
Deadline(o) ==
    /\ o \in created
    /\ task[o].timer # "Off"
    /\ task' = [task EXCEPT ![o].timer = "Off", ![o].match = "gone"]
    /\ UNCHANGED created

TaskInit ==
    /\ created = {}
    /\ task = [o \in TaskId |-> [NewTask EXCEPT !.timer = "Off", !.match = "gone"]]

(* Tasks are created by the orchestrator; here any object may get one.     *)
TaskNext ==
    \E o \in TaskId :
        \/ CreateTask(o)
        \/ \E s \in Signal : Deliver(o, s)
        \/ MatchReset(o)
        \/ Deadline(o)

(* The io_context runs the posted reset, and a timer's deadline passes.    *)
TaskFairness == \A o \in TaskId : WF_taskVars(MatchReset(o)) /\ WF_taskVars(Deadline(o))

TaskSpec == TaskInit /\ [][TaskNext]_taskVars /\ TaskFairness

-----------------------------------------------------------------------------
(* Properties.                                                              *)

(* Every task is eventually disposed: its match is released, so no task   *)
(* keeps a D-Bus match or a timer forever whatever the platform signals.  *)
TaskEventuallyDisposed ==
    \A o \in TaskId : (o \in created) ~> (task[o].match = "gone")

(* A task whose match is still installed has its watchdog armed: every    *)
(* callback that keeps the match re-arms or keeps the deadline (200, 243), *)
(* so no task can hold its D-Bus match with nothing left to dispose of it. *)
LiveTaskHasDeadline ==
    \A o \in created : task[o].match = "live" => task[o].timer # "Off"

(* Completed and Exception are terminal: a task that reached one is never  *)
(* moved to another state (spec 4.5).                                       *)
TerminalAbsorbing ==
    [][\A o \in created : task[o].state \in Terminal => task'[o].state = task[o].state]_taskVars

(* When the callback ends a task, the task is Completed or Exception      *)
(* (spec 3 and 4.5: a delivery error ends it Completed).                  *)
CompletionIsTerminal ==
    \A o \in created : task[o].match = "closing" => task[o].state \in Terminal

(* The percentage a task reports stays within 0..100 (spec 8).            *)
PercentBounded == \A o \in created : task[o].percentComplete <= 100

=============================================================================
