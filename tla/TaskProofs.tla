------------------------------ MODULE TaskProofs ------------------------------
(***************************************************************************)
(* Type correctness of the task model: whatever signals the platform       *)
(* sends, the callback of update_service.hpp (141-251) leaves the task's   *)
(* fields in their ranges, in particular percentComplete in the uint8      *)
(* range it is declared with.                                              *)
(***************************************************************************)
EXTENDS Task, TLAPS

(* The callback returns a well-typed task and a completion flag, for every *)
(* kind of signal: an activation value, a progress value (a uint8 by       *)
(* TaskAssumption), a badly typed or absent property, or an error.         *)
LEMMA CallbackType ==
    ASSUME NEW t \in TaskRec, NEW s \in Signal
    PROVE  /\ Callback(t, s).task \in TaskRec
           /\ Callback(t, s).done \in BOOLEAN
<1>1. CASE s \in [iface : {"Activation"}, kind : {"value"}, value : ActivationValue]
  BY <1>1 DEF Callback, TaskRec, TaskState, Timer, EndsInvalidOrFailed,
              EndsStaged, EndsActive
<1>2. CASE s \in [iface : {"ActivationProgress"}, kind : {"value"}, value : ProgressValue]
  <2>1. s.value \in 0..255
    BY <1>2, TaskAssumption
  <2>2. QED
    BY <1>2, <2>1 DEF Callback, TaskRec, Timer
<1>3. CASE s \in [iface : {"Activation", "ActivationProgress"},
                  kind : {"BadType", "Absent"}, value : {"none"}]
  BY <1>3 DEF Callback
<1>4. CASE s \in [iface : {"Other", "Error"}, kind : {"Absent"}, value : {"none"}]
  BY <1>4 DEF Callback
<1>5. QED
  BY <1>1, <1>2, <1>3, <1>4 DEF Signal

LEMMA TaskInitTypeOK == TaskInit => TaskTypeOK
<1> SUFFICES ASSUME TaskInit PROVE TaskTypeOK
  OBVIOUS
<1>1. NewTask \in TaskRec
  BY TaskAssumption DEF NewTask, TaskRec, TaskState, Timer, MatchState
<1>2. [NewTask EXCEPT !.timer = "Off", !.match = "gone"] \in TaskRec
  BY <1>1 DEF TaskRec, Timer, MatchState
<1>3. QED
  BY <1>2 DEF TaskInit, TaskTypeOK

LEMMA TaskNextTypeOK == TaskTypeOK /\ [TaskNext]_taskVars => TaskTypeOK'
<1> SUFFICES ASSUME TaskTypeOK, [TaskNext]_taskVars PROVE TaskTypeOK'
  OBVIOUS
<1>1. ASSUME NEW o \in TaskId, CreateTask(o) PROVE TaskTypeOK'
  <2>1. NewTask \in TaskRec
    BY TaskAssumption DEF NewTask, TaskRec, TaskState, Timer, MatchState
  <2>2. QED
    BY <1>1, <2>1 DEF CreateTask, TaskTypeOK
<1>2. ASSUME NEW o \in TaskId, NEW s \in Signal, Deliver(o, s) PROVE TaskTypeOK'
  <2> DEFINE t == task[o]
             r == Callback(t, s)
  <2>1. t \in TaskRec
    BY DEF TaskTypeOK
  <2>2. r.task \in TaskRec /\ r.done \in BOOLEAN
    BY <2>1, CallbackType
  <2>3. t.signals < MaxSignals
    BY <1>2 DEF Deliver
  <2> DEFINE u == r.task
             n == [u EXCEPT !.timer   = IF r.done THEN "Off" ELSE @,
                            !.match   = IF t.match = "closing" THEN "gone"
                                        ELSE IF r.done THEN "closing" ELSE "live",
                            !.signals = @ + 1]
  <2>4. u.signals = t.signals
    BY <2>1 DEF Callback
  <2>5. u.signals + 1 \in 0..MaxSignals
    BY <2>1, <2>3, <2>4, TaskAssumption DEF TaskRec
  <2>6. n \in TaskRec
    BY <2>2, <2>5 DEF TaskRec, Timer, MatchState
  <2>7. task' = [task EXCEPT ![o] = n]
    BY <1>2 DEF Deliver
  <2>8. QED
    BY <1>2, <2>6, <2>7 DEF Deliver, TaskTypeOK
<1>3. ASSUME NEW o \in TaskId, MatchReset(o) PROVE TaskTypeOK'
  BY <1>3 DEF MatchReset, TaskTypeOK, TaskRec, MatchState
<1>4. ASSUME NEW o \in TaskId, Deadline(o) PROVE TaskTypeOK'
  <2>1. task[o] \in TaskRec
    BY DEF TaskTypeOK
  <2>2. [task[o] EXCEPT !.timer = "Off", !.match = "gone"] \in TaskRec
    BY <2>1 DEF TaskRec, MatchState, Timer
  <2>3. task' = [task EXCEPT ![o] = [task[o] EXCEPT !.timer = "Off", !.match = "gone"]]
    BY <1>4 DEF Deadline
  <2>4. QED
    BY <1>4, <2>2, <2>3 DEF Deadline, TaskTypeOK
<1>5. CASE UNCHANGED taskVars
  BY <1>5 DEF taskVars, TaskTypeOK
<1>6. QED
  BY <1>1, <1>2, <1>3, <1>4, <1>5 DEF TaskNext

(* Every task keeps a Redfish task state, a uint8 percentage, a watchdog  *)
(* state, a match state and a bounded signal count, whatever the platform *)
(* signals.                                                                *)
THEOREM TaskTypeCorrect == TaskSpec => []TaskTypeOK
BY TaskInitTypeOK, TaskNextTypeOK, PTL DEF TaskSpec

-----------------------------------------------------------------------------
(* LiveTaskHasDeadline.  Inductive together with TaskTypeOK: a callback    *)
(* that does not complete the task leaves the watchdog armed or re-arms it *)
(* (CallbackKeepsDeadline), a completing one moves the match to closing,   *)
(* and the deadline and the reset both leave the match gone.              *)

(* A callback that returns !task::completed never cancels the watchdog.  *)
LEMMA CallbackKeepsDeadline ==
    ASSUME NEW t \in TaskRec, NEW s \in Signal, t.timer # "Off",
           ~Callback(t, s).done
    PROVE  Callback(t, s).task.timer # "Off"
BY DEF Callback, TaskRec

LEMMA TaskInitDeadline == TaskInit => LiveTaskHasDeadline
BY DEF TaskInit, LiveTaskHasDeadline

LEMMA TaskNextDeadline ==
    TaskTypeOK /\ LiveTaskHasDeadline /\ [TaskNext]_taskVars => LiveTaskHasDeadline'
<1> SUFFICES ASSUME TaskTypeOK, LiveTaskHasDeadline, [TaskNext]_taskVars
             PROVE  LiveTaskHasDeadline'
  OBVIOUS
<1>1. ASSUME NEW o \in TaskId, CreateTask(o) PROVE LiveTaskHasDeadline'
  BY <1>1 DEF CreateTask, NewTask, LiveTaskHasDeadline, TaskTypeOK
<1>2. ASSUME NEW o \in TaskId, NEW s \in Signal, Deliver(o, s)
      PROVE  LiveTaskHasDeadline'
  <2> DEFINE t == task[o]
             r == Callback(t, s)
             u == r.task
             n == [u EXCEPT !.timer   = IF r.done THEN "Off" ELSE @,
                            !.match   = IF t.match = "closing" THEN "gone"
                                        ELSE IF r.done THEN "closing" ELSE "live",
                            !.signals = @ + 1]
  <2>1. t \in TaskRec
    BY DEF TaskTypeOK
  <2>2. u \in TaskRec
    BY <2>1, CallbackType
  <2>3. task' = [task EXCEPT ![o] = n] /\ created' = created
    BY <1>2 DEF Deliver
  <2>4. n.match = "live" => n.timer # "Off"
    <3>1. CASE t.match = "closing" \/ r.done
      BY <2>2, <3>1
    <3>2. CASE ~(t.match = "closing" \/ r.done)
      <4>1. t.match = "live"
        BY <1>2, <3>2 DEF Deliver
      <4>2. t.timer # "Off"
        BY <1>2, <4>1 DEF Deliver, LiveTaskHasDeadline
      <4>3. u.timer # "Off"
        BY <2>1, <3>2, <4>2, CallbackKeepsDeadline
      <4>4. QED
        BY <2>2, <3>2, <4>3
    <3>3. QED
      BY <3>1, <3>2
  <2>5. QED
    BY <2>3, <2>4 DEF LiveTaskHasDeadline, TaskTypeOK
<1>3. ASSUME NEW o \in TaskId, MatchReset(o) PROVE LiveTaskHasDeadline'
  BY <1>3 DEF MatchReset, LiveTaskHasDeadline, TaskTypeOK
<1>4. ASSUME NEW o \in TaskId, Deadline(o) PROVE LiveTaskHasDeadline'
  BY <1>4 DEF Deadline, LiveTaskHasDeadline, TaskTypeOK
<1>5. CASE UNCHANGED taskVars
  BY <1>5 DEF taskVars, LiveTaskHasDeadline
<1>6. QED
  BY <1>1, <1>2, <1>3, <1>4, <1>5 DEF TaskNext

(* As long as a task keeps its PropertiesChanged match, its watchdog is   *)
(* armed, whatever the platform signals: the disposal that                 *)
(* TaskEventuallyDisposed needs always has a timer to come from.           *)
THEOREM TaskDeadlineInvariant == TaskSpec => []LiveTaskHasDeadline
<1>1. TaskInit => TaskTypeOK /\ LiveTaskHasDeadline
  BY TaskInitTypeOK, TaskInitDeadline
<1>2. TaskTypeOK /\ LiveTaskHasDeadline /\ [TaskNext]_taskVars
        => TaskTypeOK' /\ LiveTaskHasDeadline'
  BY TaskNextTypeOK, TaskNextDeadline
<1>3. QED
  BY <1>1, <1>2, PTL DEF TaskSpec

=============================================================================
