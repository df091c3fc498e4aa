---------------------------- MODULE UpdateSession ----------------------------
(***************************************************************************)
(* The firmware-update orchestrator of redfish-core/lib/update_service.hpp *)
(* and the process-wide session it keeps: the single-flight flag           *)
(* fwUpdateInProgress, the two D-Bus matchers fwUpdateMatcher and          *)
(* fwUpdateErrorMatcher, and the availability timer fwAvailableTimer.      *)
(*                                                                         *)
(* Everything runs on one asio io_context, so every action below is one    *)
(* handler run to completion.  A matcher or a timer is identified by the   *)
(* request whose asyncResp its callback captured.  Destroying a            *)
(* steady_timer whose wait is pending does not run the wait handler: it    *)
(* posts it with operation_aborted, and it runs later as its own step.     *)
(*                                                                         *)
(* The platform (phosphor software manager, logging daemon, TFTP service)  *)
(* is the environment: it turns an image written to /tmp/images into a     *)
(* software object or an error-log entry, and unrelated daemons log        *)
(* entries of their own.  A software object is named by the request whose *)
(* image it was built from.                                                *)
(***************************************************************************)
EXTENDS Naturals, FiniteSets

CONSTANTS
    Req,            \* the HTTP requests that reach the update routes
    NoReq,          \* a null matcher or timer pointer
    MaxForeignLogs  \* bound on log entries logged by unrelated daemons

ASSUME ConstAssumption ==
    /\ NoReq \notin Req
    /\ MaxForeignLogs \in Nat

VARIABLES
    fwUpdateInProgress,    \* line 51
    fwUpdateMatcher,       \* line 46: whose InterfacesAdded matcher on /software
    fwUpdateErrorMatcher,  \* line 48: whose InterfacesAdded matcher on /logging
    fwAvailableTimer,      \* line 54: whose steady_timer the pointer holds
    wait,        \* per request: state of its timer's async_wait handler
    arrived,     \* requests whose route handler has run
    resp,        \* per request: the messages written into its response
    images,      \* images written to /tmp/images or fetched over TFTP
    processed,   \* images the platform has turned into an object or a log
    tftp,        \* DownloadViaTFTP calls whose reply is outstanding
    lookups,     \* getDbusObject calls whose reply is outstanding
    applyTimeCalls, \* RequestedApplyTime writes whose reply is outstanding
    activated,   \* objects whose RequestedActivation was set
    tasks,       \* tasks created: [req, obj]
    foreignLogs  \* log entries logged so far by unrelated daemons

vars == <<fwUpdateInProgress, fwUpdateMatcher, fwUpdateErrorMatcher,
          fwAvailableTimer, wait, arrived, resp, images, processed, tftp,
          lookups, applyTimeCalls, activated, tasks, foreignLogs>>

(* The states of a timer's async_wait handler: never armed, armed, posted *)
(* with operation_aborted, posted with success (expired), and run.         *)
WaitState == {"idle", "waiting", "aborted", "expired", "done"}
Pending == {"waiting", "aborted", "expired"}

Msg == {"Busy", "InternalError", "ValidationError", "BadRequest", "Success",
        "Task", "InvalidUpload", "AlreadyExists", "ResourceExhaustion"}

(* Message ids of the image errors the software manager logs (356-394),   *)
(* and what unrelated daemons log: a string message or a non-string one.  *)
ImageError == {"UnTarFailure", "ManifestFileFailure", "ImageFailure",
               "AlreadyExists", "BusyFailure"}
ForeignMessage == {"Unrelated", "NonString"}

Lookup == [req : Req, obj : Req]

Ptr == Req \cup {NoReq}

TypeOK ==
    /\ fwUpdateInProgress \in BOOLEAN
    /\ fwUpdateMatcher \in Ptr
    /\ fwUpdateErrorMatcher \in Ptr
    /\ fwAvailableTimer \in Ptr
    /\ wait \in [Req -> WaitState]
    /\ arrived \subseteq Req
    /\ resp \in [Req -> SUBSET Msg]
    /\ images \subseteq Req
    /\ processed \subseteq Req
    /\ tftp \subseteq Req
    /\ lookups \subseteq Lookup
    /\ applyTimeCalls \subseteq Req
    /\ activated \subseteq Req
    /\ tasks \subseteq Lookup
    /\ foreignLogs \in 0..MaxForeignLogs

-----------------------------------------------------------------------------
(* Helpers.                                                                 *)

(* Destroying (or replacing) the steady_timer held by pointer t: a pending *)
(* wait is posted with operation_aborted; a posted or run one is kept.     *)
DestroyTimer(w, t) ==
    IF t # NoReq /\ w[t] = "waiting" THEN [w EXCEPT ![t] = "aborted"] ELSE w

(* Adds the messages ms to request r's response.                           *)
Respond(r, ms) == resp' = [resp EXCEPT ![r] = @ \cup ms]

(* cleanUp(), lines 56-61: the timer pointer is left as it is.             *)
CleanUp ==
    /\ fwUpdateInProgress' = FALSE
    /\ fwUpdateMatcher' = NoReq
    /\ fwUpdateErrorMatcher' = NoReq

(* Mutant of MonitorThen: the fwUpdateInProgress check of line 275 is     *)
(* dropped, so a second update replaces the session of the first.         *)
MonitorThenNoBusyCheck(r, cleaned) ==
    /\ fwUpdateInProgress' = ~cleaned
    /\ fwUpdateMatcher' = IF cleaned THEN NoReq ELSE r
    /\ fwUpdateErrorMatcher' = IF cleaned THEN NoReq ELSE r
    /\ fwAvailableTimer' = r
    /\ wait' = [DestroyTimer(wait, fwAvailableTimer) EXCEPT ![r] = "waiting"]

(* monitorForSoftwareAvailable(r), lines 269-403, and, when cleaned, the   *)
(* cleanUp() the same handler calls after it.  A busy call (275-282) only  *)
(* answers; otherwise the new timer replaces the old one (284-289) and     *)
(* both matchers are installed (316-324).                                  *)
MonitorThen(r, cleaned) ==
    LET accepted == ~fwUpdateInProgress
        matcher  == IF cleaned THEN NoReq
                    ELSE IF accepted THEN r ELSE fwUpdateMatcher
        errMatch == IF cleaned THEN NoReq
                    ELSE IF accepted THEN r ELSE fwUpdateErrorMatcher
    IN  /\ fwUpdateInProgress' = ~cleaned
        /\ fwUpdateMatcher' = matcher
        /\ fwUpdateErrorMatcher' = errMatch
        /\ fwAvailableTimer' = IF accepted THEN r ELSE fwAvailableTimer
        /\ wait' = IF accepted
                   THEN [DestroyTimer(wait, fwAvailableTimer) EXCEPT ![r] = "waiting"]
                   ELSE wait

BusyMsg == IF fwUpdateInProgress THEN {"Busy"} ELSE {}

(* The error classifier, lines 356-398.                                    *)
Classify(id) ==
    CASE id \in {"UnTarFailure", "ManifestFileFailure", "ImageFailure"}
                                   -> {"InvalidUpload"}
      [] id = "AlreadyExists"      -> {"InvalidUpload", "AlreadyExists"}
      [] id = "BusyFailure"        -> {"ResourceExhaustion"}
      [] OTHER                     -> {"InternalError"}

-----------------------------------------------------------------------------
(* Route handlers.                                                          *)

(* An application/octet-stream body (688-695): monitor, then             *)
(* uploadImageFile (532-551); a failed write answers InternalError and     *)
(* calls cleanUp().  The image is written whether or not monitoring was    *)
(* accepted.                                                               *)
OctetStream(r, written) ==
    /\ MonitorThen(r, ~written)
    /\ images' = IF written THEN images \cup {r} ELSE images
    /\ Respond(r, BusyMsg \cup (IF written THEN {} ELSE {"InternalError"}))
    /\ UNCHANGED applyTimeCalls

(* A multipart/form-data body (696-714): monitor, then parse it and run    *)
(* updateMultipartContext (592-672).  The outcomes:                        *)
(*   parseError  the MIME parse fails: InternalError (705-712);            *)
(*   noAnswer    a part without Content-Disposition returns (602-606): the *)
(*               handler leaves without writing anything (json::parse      *)
(*               throwing at 628-629 leaves the handler by an exception,   *)
(*               which is not modelled);                                   *)
(*   invalid     a Targets or missing-part check answers an error (630-665);*)
(*   written     setApplyTime, then the image is written (669-671);        *)
(*   badWrite    the same, and the write fails (547-550).                  *)
(* setApplyTime (553-590) answers PropertyValueNotInList for an apply time *)
(* other than Immediate or OnReset and returns; the upload goes on anyway. *)
(* Otherwise it sets RequestedApplyTime, whose reply comes later.          *)
MultipartOutcome == {"parseError", "noAnswer", "invalid", "written", "badWrite"}

ApplyTime == {"Immediate", "OnReset", "Other"}

Multipart(r, outcome, applyTime) ==
    LET uploads == outcome \in {"written", "badWrite"}
    IN
    /\ MonitorThen(r, outcome = "badWrite")
    /\ images' = IF outcome = "written" THEN images \cup {r} ELSE images
    /\ applyTimeCalls' = IF uploads /\ applyTime # "Other"
                         THEN applyTimeCalls \cup {r} ELSE applyTimeCalls
    /\ Respond(r, BusyMsg
                  \cup (IF outcome = "invalid" \/ (uploads /\ applyTime = "Other")
                        THEN {"ValidationError"} ELSE {})
                  \cup (IF outcome \in {"parseError", "badWrite"}
                        THEN {"InternalError"} ELSE {}))

(* Any other content type (715-719).                                       *)
BadContentType(r) ==
    /\ Respond(r, {"BadRequest"})
    /\ UNCHANGED <<fwUpdateInProgress, fwUpdateMatcher, fwUpdateErrorMatcher,
                   fwAvailableTimer, wait, images, applyTimeCalls>>

(* handleUpdateServicePost, lines 674-720.                                 *)
PostUpdate(r) ==
    /\ r \notin arrived
    /\ arrived' = arrived \cup {r}
    /\ \/ \E written \in BOOLEAN : OctetStream(r, written)
       \/ \E outcome \in MultipartOutcome, at \in ApplyTime : Multipart(r, outcome, at)
       \/ BadContentType(r)
    /\ UNCHANGED <<processed, tftp, lookups, activated, tasks, foreignLogs>>

(* SimpleUpdate with a missing protocol, a protocol other than TFTP or a  *)
(* URI without a '/' (433-490): answered before any monitoring.            *)
UriRejected(r) ==
    /\ Respond(r, {"ValidationError"})
    /\ UNCHANGED <<fwUpdateInProgress, fwUpdateMatcher, fwUpdateErrorMatcher,
                   fwAvailableTimer, wait, tftp>>

(* SimpleUpdate with a TFTP URI (492-526): monitor, answer success even    *)
(* when monitoring was refused, and call DownloadViaTFTP in every case.    *)
TftpStarted(r) ==
    /\ MonitorThen(r, FALSE)
    /\ Respond(r, BusyMsg \cup {"Success"})
    /\ tftp' = tftp \cup {r}

(* The SimpleUpdate action, lines 409-530.                                 *)
SimpleUpdate(r) ==
    /\ r \notin arrived
    /\ arrived' = arrived \cup {r}
    /\ UriRejected(r) \/ TftpStarted(r)
    /\ UNCHANGED <<images, processed, lookups, applyTimeCalls, activated, tasks,
                   foreignLogs>>

(* The reply to DownloadViaTFTP, lines 510-523: success means the image   *)
(* will arrive; an error calls cleanUp(), whoever holds the session.       *)
TftpSucceeded(r) ==
    /\ images' = images \cup {r}
    /\ UNCHANGED <<fwUpdateInProgress, fwUpdateMatcher, fwUpdateErrorMatcher>>

TftpFailed(r) ==
    /\ CleanUp
    /\ UNCHANGED images

TftpReply(r) ==
    /\ r \in tftp
    /\ tftp' = tftp \ {r}
    /\ TftpSucceeded(r) \/ TftpFailed(r)
    /\ UNCHANGED <<fwAvailableTimer, wait, arrived, resp, processed, lookups,
                   applyTimeCalls, activated, tasks, foreignLogs>>

(* The reply to setApplyTime's RequestedApplyTime write (576-589): an      *)
(* error answers InternalError, success answers Success.  Neither touches  *)
(* the session.                                                            *)
ApplyTimeReply(r) ==
    /\ r \in applyTimeCalls
    /\ applyTimeCalls' = applyTimeCalls \ {r}
    /\ \E ok \in BOOLEAN : Respond(r, IF ok THEN {"Success"} ELSE {"InternalError"})
    /\ UNCHANGED <<fwUpdateInProgress, fwUpdateMatcher, fwUpdateErrorMatcher,
                   fwAvailableTimer, wait, arrived, images, processed, tftp,
                   lookups, activated, tasks, foreignLogs>>

-----------------------------------------------------------------------------
(* The availability timer.                                                  *)

(* The deadline passes: the wait handler is posted with success.          *)
TimerExpires(r) ==
    /\ wait[r] = "waiting"
    /\ wait' = [wait EXCEPT ![r] = "expired"]
    /\ UNCHANGED <<fwUpdateInProgress, fwUpdateMatcher, fwUpdateErrorMatcher,
                   fwAvailableTimer, arrived, resp, images, processed, tftp,
                   lookups, applyTimeCalls, activated, tasks, foreignLogs>>

(* Mutant of TimerHandler: the operation_aborted check comes before      *)
(* cleanUp(), as spec 4.3 describes it.                                     *)
TimerHandlerAbortFirst(r) ==
    /\ wait[r] \in {"aborted", "expired"}
    /\ wait' = [wait EXCEPT ![r] = "done"]
    /\ IF wait[r] = "expired"
       THEN CleanUp /\ Respond(r, {"InternalError"})
       ELSE UNCHANGED <<fwUpdateInProgress, fwUpdateMatcher,
                        fwUpdateErrorMatcher, resp>>
    /\ UNCHANGED <<fwAvailableTimer, arrived, images, processed, tftp,
                   lookups, applyTimeCalls, activated, tasks, foreignLogs>>

(* Mutant of TimerHandler: the timeout cleans up but writes no error.      *)
TimerHandlerSilent(r) ==
    /\ wait[r] \in {"aborted", "expired"}
    /\ wait' = [wait EXCEPT ![r] = "done"]
    /\ CleanUp
    /\ UNCHANGED <<fwAvailableTimer, arrived, resp, images, processed, tftp,
                   lookups, applyTimeCalls, activated, tasks, foreignLogs>>

(* The wait handler of lines 290-309: cleanUp() first, whatever the error *)
(* code, and only then the operation_aborted check.                        *)
TimerHandler(r) ==
    /\ wait[r] \in {"aborted", "expired"}
    /\ wait' = [wait EXCEPT ![r] = "done"]
    /\ CleanUp
    /\ IF wait[r] = "expired" THEN Respond(r, {"InternalError"})
                              ELSE UNCHANGED resp
    /\ UNCHANGED <<fwAvailableTimer, arrived, images, processed, tftp,
                   lookups, applyTimeCalls, activated, tasks, foreignLogs>>

-----------------------------------------------------------------------------
(* The matchers and the platform.                                           *)

(* Mutant of SoftwareObjectAdded: the callback runs with whatever the    *)
(* matcher pointer holds, null included.                                   *)
SoftwareObjectAddedNoGuard(o) ==
    /\ o \in images \ processed
    /\ processed' = processed \cup {o}
    /\ lookups' = lookups \cup {[req |-> fwUpdateMatcher, obj |-> o]}
    /\ UNCHANGED <<fwUpdateInProgress, fwUpdateMatcher, fwUpdateErrorMatcher,
                   fwAvailableTimer, wait, arrived, resp, images, tftp,
                   applyTimeCalls, activated, tasks, foreignLogs>>

(* The software manager builds object o from an image and signals          *)
(* InterfacesAdded with the Activation interface on /software.  The        *)
(* matcher installed then, whoever's it is, runs softwareInterfaceAdded    *)
(* (81-265) and issues getDbusObject for o (101-102).                      *)
SoftwareObjectAdded(o) ==
    /\ o \in images \ processed
    /\ processed' = processed \cup {o}
    /\ lookups' = IF fwUpdateMatcher # NoReq
                  THEN lookups \cup {[req |-> fwUpdateMatcher, obj |-> o]}
                  ELSE lookups
    /\ UNCHANGED <<fwUpdateInProgress, fwUpdateMatcher, fwUpdateErrorMatcher,
                   fwAvailableTimer, wait, arrived, resp, images, tftp,
                   applyTimeCalls, activated, tasks, foreignLogs>>

(* The getDbusObject reply with an error, or with a service count other   *)
(* than one (108-130): InternalError and cleanUp().                        *)
LookupFailed(l) ==
    /\ Respond(l.req, {"InternalError"})
    /\ CleanUp
    /\ UNCHANGED <<fwAvailableTimer, wait, activated, tasks>>

(* Mutant of LookupFound: the pointer is released without destroying the *)
(* timer (release() for reset()), so its wait stays armed.                  *)
LookupFoundKeepsTimer(l) ==
    /\ fwAvailableTimer' = NoReq
    /\ wait' = wait
    /\ activated' = activated \cup {l.obj}
    /\ tasks' = tasks \cup {l}
    /\ Respond(l.req, {"Task"})
    /\ fwUpdateInProgress' = FALSE
    /\ UNCHANGED <<fwUpdateMatcher, fwUpdateErrorMatcher>>

(* The getDbusObject reply naming one service (131-259): the timer is      *)
(* destroyed (134), the image activated (136), a task created and put in   *)
(* the response (137-258), and the flag cleared (259); the matchers stay   *)
(* installed.  Nothing checks that this update still holds the session.    *)
LookupFound(l) ==
    /\ fwAvailableTimer' = NoReq
    /\ wait' = DestroyTimer(wait, fwAvailableTimer)
    /\ activated' = activated \cup {l.obj}
    /\ tasks' = tasks \cup {l}
    /\ Respond(l.req, {"Task"})
    /\ fwUpdateInProgress' = FALSE
    /\ UNCHANGED <<fwUpdateMatcher, fwUpdateErrorMatcher>>

(* The getDbusObject reply, lines 103-260.                                 *)
LookupReply(l) ==
    /\ l \in lookups
    /\ lookups' = lookups \ {l}
    /\ LookupFailed(l) \/ LookupFound(l)
    /\ UNCHANGED <<arrived, images, processed, tftp, applyTimeCalls, foreignLogs>>

(* The error matcher's callback, lines 329-402, for a log entry carrying   *)
(* message id: a non-string message is ignored (350-354); any string one   *)
(* destroys the timer (355) and answers its classification.                *)
ErrorMatcherFires(id) ==
    IF fwUpdateErrorMatcher = NoReq \/ id = "NonString"
    THEN UNCHANGED <<fwAvailableTimer, wait, resp>>
    ELSE /\ fwAvailableTimer' = NoReq
         /\ wait' = DestroyTimer(wait, fwAvailableTimer)
         /\ Respond(fwUpdateErrorMatcher, Classify(id))

(* The software manager rejects image o and logs an image error.          *)
ImageErrorLogged(o, id) ==
    /\ o \in images \ processed
    /\ processed' = processed \cup {o}
    /\ ErrorMatcherFires(id)
    /\ UNCHANGED <<fwUpdateInProgress, fwUpdateMatcher, fwUpdateErrorMatcher,
                   arrived, images, tftp, lookups, applyTimeCalls, activated, tasks, foreignLogs>>

(* Another daemon logs an entry under /xyz/openbmc_project/logging.       *)
ForeignLogged(id) ==
    /\ foreignLogs < MaxForeignLogs
    /\ foreignLogs' = foreignLogs + 1
    /\ ErrorMatcherFires(id)
    /\ UNCHANGED <<fwUpdateInProgress, fwUpdateMatcher, fwUpdateErrorMatcher,
                   arrived, images, processed, tftp, lookups, applyTimeCalls,
                   activated, tasks>>

-----------------------------------------------------------------------------
Init ==
    /\ fwUpdateInProgress = FALSE
    /\ fwUpdateMatcher = NoReq
    /\ fwUpdateErrorMatcher = NoReq
    /\ fwAvailableTimer = NoReq
    /\ wait = [r \in Req |-> "idle"]
    /\ arrived = {}
    /\ resp = [r \in Req |-> {}]
    /\ images = {}
    /\ processed = {}
    /\ tftp = {}
    /\ lookups = {}
    /\ applyTimeCalls = {}
    /\ activated = {}
    /\ tasks = {}
    /\ foreignLogs = 0

Next ==
    \/ \E r \in Req : PostUpdate(r) \/ SimpleUpdate(r) \/ TftpReply(r)
                      \/ ApplyTimeReply(r)
                      \/ TimerExpires(r) \/ TimerHandler(r)
    \/ \E o \in Req : SoftwareObjectAdded(o)
    \/ \E l \in lookups : LookupReply(l)
    \/ \E o \in Req, id \in ImageError : ImageErrorLogged(o, id)
    \/ \E id \in ForeignMessage : ForeignLogged(id)

(* The io_context runs every posted handler and every D-Bus reply; a      *)
(* steady_timer's deadline passes.  Clients and the platform owe nothing.  *)
Fairness ==
    /\ \A r \in Req : WF_vars(TimerExpires(r)) /\ WF_vars(TimerHandler(r))
                      /\ WF_vars(TftpReply(r)) /\ WF_vars(ApplyTimeReply(r))
    /\ \A o, q \in Req : WF_vars(LookupReply([req |-> q, obj |-> o]))

Spec == Init /\ [][Next]_vars /\ Fairness

-----------------------------------------------------------------------------
(* Properties.                                                              *)

(* A request's response carries an outcome: a task, an error, or the      *)
(* immediate success of SimpleUpdate.                                      *)
Answered(r) == resp[r] \ {"Busy"} # {}

(* While the single-flight flag is set, the timer handler of the request   *)
(* holding the session is still to run, so some handler will clear the     *)
(* flag.  This is what the cleanUp() at the top of the timer handler       *)
(* (line 291) buys: the error matcher (355) only destroys the timer.       *)
GuardHasReleaser ==
    fwUpdateInProgress =>
        /\ fwUpdateMatcher \in Req
        /\ wait[fwUpdateMatcher] \in Pending

(* The session as the single-flight guard of spec 4.1 sees it: the holder *)
(* is the request whose matchers are installed while the flag is set.      *)
sessionHolder == IF fwUpdateInProgress THEN fwUpdateMatcher ELSE NoReq

Guard == INSTANCE UpdateGuard WITH holder <- sessionHolder

(* The session implements the guard: an update is accepted only while     *)
(* nobody holds the session, and the holder changes only by a release      *)
(* (cleanUp() or the task hand-off at 259), never straight to another      *)
(* request.                                                                *)
GuardRefinementSafe == Guard!GuardSafe

(* ... and, under the io_context's fairness, every accepted session is   *)
(* released again, so the service never stays Busy for good.               *)
GuardRefinement == Guard!GuardSpec

(* Every request whose monitoring was accepted eventually gets an answer: *)
(* a task, a classified error, a timeout, or SimpleUpdate's success.       *)
EveryAcceptedAnswered ==
    \A r \in Req : (wait[r] # "idle") ~> Answered(r)

(* A session's software matcher is removed only once the request that     *)
(* installed it has an answer: no handler of another update tears it down  *)
(* (spec 4.1, 4.3: a cancelled timer's handler is a no-op).                *)
NoForeignTeardown ==
    [][(fwUpdateMatcher \in Req /\ fwUpdateMatcher' # fwUpdateMatcher)
         => (resp'[fwUpdateMatcher] \ {"Busy"} # {})]_vars

(* A request answered with a validation error has nothing uploaded: its  *)
(* image never reaches /tmp/images (spec 6: a malformed part is rejected   *)
(* before orchestration, with no side effect).                             *)
RejectedUploadsNothing ==
    \A r \in Req : "ValidationError" \in resp[r] => r \notin images

(* The task handed to a request tracks the image that request uploaded:    *)
(* a refused update's image is never activated under another's task.       *)
TaskTracksOwnImage == \A t \in tasks : t.req = t.obj

(* Every armed timer is the one fwAvailableTimer holds: each time the      *)
(* pointer is replaced (284) or nulled (134, 355) the old steady_timer is  *)
(* destroyed and its wait cancelled, so no orphaned timer of an earlier     *)
(* update is left to fire a timeout into its request's response.           *)
OnlyHeldTimerArmed ==
    \A r \in Req : wait[r] = "waiting" => fwAvailableTimer = r

(* A request answered Busy (275-282) started nothing: no timer was armed   *)
(* for it and no matcher or timer pointer names it, however the updates    *)
(* before and after it interleave.                                          *)
BusyCreatesNoSession ==
    \A r \in Req : "Busy" \in resp[r] =>
        /\ wait[r] = "idle"
        /\ r \notin {fwUpdateMatcher, fwUpdateErrorMatcher, fwAvailableTimer}

(* What makes BusyCreatesNoSession inductive: a request whose handler has  *)
(* not run has no timer, no answer and no pointer naming it, and every     *)
(* outstanding D-Bus reply belongs to a request that has arrived.          *)
NotArrivedUntouched ==
    /\ \A r \in Req \ arrived :
           /\ wait[r] = "idle"
           /\ resp[r] = {}
           /\ r \notin {fwUpdateMatcher, fwUpdateErrorMatcher, fwAvailableTimer}
    /\ applyTimeCalls \subseteq arrived
    /\ \A l \in lookups : l.req \in arrived

=============================================================================
