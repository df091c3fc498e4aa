------------------------- MODULE UpdateSessionProofs -------------------------
(***************************************************************************)
(* Proofs about the update session of UpdateSession: the type invariant,   *)
(* and GuardHasReleaser, the invariant that keeps the single-flight flag   *)
(* from sticking: while fwUpdateInProgress is set, the timer handler of the*)
(* request that holds the session is still to run, and it calls cleanUp(). *)
(***************************************************************************)
EXTENDS UpdateSession, TLAPS

-----------------------------------------------------------------------------
(* Lemmas about the helpers.                                                *)

(* Destroying a timer keeps the wait states well typed, and only moves a  *)
(* pending wait to another pending state.                                  *)
LEMMA DestroyTimerFacts ==
    ASSUME NEW w \in [Req -> WaitState], NEW t \in Ptr
    PROVE  /\ DestroyTimer(w, t) \in [Req -> WaitState]
           /\ \A x \in Req : w[x] \in Pending => DestroyTimer(w, t)[x] \in Pending
BY DEF DestroyTimer, WaitState, Pending, Ptr

(* The classifier answers with response messages only.                     *)
LEMMA ClassifyType ==
    ASSUME NEW id
    PROVE  Classify(id) \subseteq Msg
BY DEF Classify, Msg

(* Adding messages to one response keeps the responses well typed.        *)
LEMMA RespondType ==
    ASSUME NEW r \in Req, NEW ms \in SUBSET Msg,
           resp \in [Req -> SUBSET Msg], Respond(r, ms)
    PROVE  resp' \in [Req -> SUBSET Msg]
BY DEF Respond

(* What monitorForSoftwareAvailable, followed or not by cleanUp(), leaves *)
(* in the session: well typed, and with the guard backed by a pending     *)
(* timer handler whenever it was before.                                   *)
LEMMA MonitorThenFacts ==
    ASSUME TypeOK, NEW r \in Req, NEW cleaned \in BOOLEAN, MonitorThen(r, cleaned)
    PROVE  /\ fwUpdateInProgress' \in BOOLEAN
           /\ fwUpdateMatcher' \in Ptr
           /\ fwUpdateErrorMatcher' \in Ptr
           /\ fwAvailableTimer' \in Ptr
           /\ wait' \in [Req -> WaitState]
           /\ GuardHasReleaser => GuardHasReleaser'
<1> DEFINE w1 == DestroyTimer(wait, fwAvailableTimer)
<1>1. w1 \in [Req -> WaitState]
  BY DestroyTimerFacts DEF TypeOK
<1>2. CASE ~fwUpdateInProgress
  <2>1. wait' = [w1 EXCEPT ![r] = "waiting"] /\ fwAvailableTimer' = r
    BY <1>2 DEF MonitorThen
  <2>2. wait' \in [Req -> WaitState]
    BY <1>1, <2>1 DEF WaitState
  <2>3. fwUpdateInProgress' => fwUpdateMatcher' = r
    BY <1>2 DEF MonitorThen
  <2>4. QED
    BY <1>2, <2>1, <2>2, <2>3 DEF MonitorThen, TypeOK, Ptr, GuardHasReleaser, Pending
<1>3. CASE fwUpdateInProgress
  BY <1>3 DEF MonitorThen, TypeOK, Ptr, GuardHasReleaser
<1>4. QED
  BY <1>2, <1>3

-----------------------------------------------------------------------------
(* Type correctness.                                                        *)

LEMMA InitTypeOK == Init => TypeOK
<1> SUFFICES ASSUME Init PROVE TypeOK
  OBVIOUS
<1>1. wait \in [Req -> WaitState]
  BY DEF Init, WaitState
<1>2. resp \in [Req -> SUBSET Msg]
  BY DEF Init
<1>3. foreignLogs \in 0..MaxForeignLogs
  BY ConstAssumption DEF Init
<1>4. QED
  BY <1>1, <1>2, <1>3 DEF Init, TypeOK, Ptr

LEMMA NextTypeOK == TypeOK /\ [Next]_vars => TypeOK'
<1> SUFFICES ASSUME TypeOK, [Next]_vars PROVE TypeOK'
  OBVIOUS
<1>a. BusyMsg \subseteq Msg
  BY DEF BusyMsg, Msg
<1>1. ASSUME NEW r \in Req, PostUpdate(r) PROVE TypeOK'
  <2>1. CASE \E written \in BOOLEAN : OctetStream(r, written)
    <3>1. PICK written \in BOOLEAN : OctetStream(r, written)
      BY <2>1
    <3>2. resp' \in [Req -> SUBSET Msg]
      BY <3>1, <1>a, RespondType DEF OctetStream, TypeOK, Msg
    <3>3. QED
      BY <1>1, <3>1, <3>2, MonitorThenFacts DEF PostUpdate, OctetStream, TypeOK
  <2>2. CASE \E outcome \in MultipartOutcome, at \in ApplyTime : Multipart(r, outcome, at)
    <3>1. PICK outcome \in MultipartOutcome, at \in ApplyTime : Multipart(r, outcome, at)
      BY <2>2
    <3>2. resp' \in [Req -> SUBSET Msg]
      BY <3>1, <1>a, RespondType DEF Multipart, TypeOK, Msg
    <3>3. applyTimeCalls' \subseteq Req
      BY <3>1 DEF Multipart, TypeOK
    <3>4. QED
      BY <1>1, <3>1, <3>2, <3>3, MonitorThenFacts DEF PostUpdate, Multipart, TypeOK
  <2>3. CASE BadContentType(r)
    <3>1. resp' \in [Req -> SUBSET Msg]
      BY <2>3, RespondType DEF BadContentType, TypeOK, Msg
    <3>2. QED
      BY <1>1, <2>3, <3>1 DEF PostUpdate, BadContentType, TypeOK
  <2>4. QED
    BY <1>1, <2>1, <2>2, <2>3 DEF PostUpdate
<1>2. ASSUME NEW r \in Req, SimpleUpdate(r) PROVE TypeOK'
  <2>1. CASE TftpStarted(r)
    <3>1. resp' \in [Req -> SUBSET Msg]
      BY <2>1, <1>a, RespondType DEF TftpStarted, TypeOK, Msg
    <3>2. QED
      BY <1>2, <2>1, <3>1, MonitorThenFacts DEF SimpleUpdate, TftpStarted, TypeOK
  <2>2. CASE UriRejected(r)
    <3>1. resp' \in [Req -> SUBSET Msg]
      BY <2>2, RespondType DEF UriRejected, TypeOK, Msg
    <3>2. QED
      BY <1>2, <2>2, <3>1 DEF SimpleUpdate, UriRejected, TypeOK
  <2>3. QED
    BY <1>2, <2>1, <2>2 DEF SimpleUpdate
<1>3. ASSUME NEW r \in Req, TftpReply(r) PROVE TypeOK'
  BY <1>3 DEF TftpReply, TftpSucceeded, TftpFailed, CleanUp, TypeOK, Ptr
<1>c. ASSUME NEW r \in Req, ApplyTimeReply(r) PROVE TypeOK'
  <2>1. resp' \in [Req -> SUBSET Msg]
    BY <1>c, RespondType DEF ApplyTimeReply, TypeOK, Msg
  <2>2. QED
    BY <1>c, <2>1 DEF ApplyTimeReply, TypeOK
<1>4. ASSUME NEW r \in Req, TimerExpires(r) PROVE TypeOK'
  BY <1>4 DEF TimerExpires, TypeOK, WaitState
<1>5. ASSUME NEW r \in Req, TimerHandler(r) PROVE TypeOK'
  <2>1. resp' \in [Req -> SUBSET Msg]
    BY <1>5, RespondType DEF TimerHandler, TypeOK, Msg
  <2>2. QED
    BY <1>5, <2>1 DEF TimerHandler, CleanUp, TypeOK, WaitState, Ptr
<1>6. ASSUME NEW o \in Req, SoftwareObjectAdded(o) PROVE TypeOK'
  BY <1>6 DEF SoftwareObjectAdded, TypeOK, Lookup, Ptr
<1>7. ASSUME NEW l \in lookups, LookupReply(l) PROVE TypeOK'
  <2>1. l \in Lookup /\ l.req \in Req /\ l.obj \in Req
    BY DEF TypeOK, Lookup
  <2>2. CASE LookupFailed(l)
    <3>1. resp' \in [Req -> SUBSET Msg]
      BY <2>1, <2>2, RespondType DEF LookupFailed, TypeOK, Msg
    <3>2. QED
      BY <1>7, <2>2, <3>1 DEF LookupReply, LookupFailed, CleanUp, TypeOK, Ptr
  <2>3. CASE LookupFound(l)
    <3>1. resp' \in [Req -> SUBSET Msg]
      BY <2>1, <2>3, RespondType DEF LookupFound, TypeOK, Msg
    <3>2. DestroyTimer(wait, fwAvailableTimer) \in [Req -> WaitState]
      BY DestroyTimerFacts DEF TypeOK
    <3>3. QED
      BY <1>7, <2>1, <2>3, <3>1, <3>2 DEF LookupReply, LookupFound, TypeOK, Ptr
  <2>4. QED
    BY <1>7, <2>2, <2>3 DEF LookupReply
<1>b. ASSUME NEW id, ErrorMatcherFires(id)
      PROVE  /\ fwAvailableTimer' \in Ptr
             /\ wait' \in [Req -> WaitState]
             /\ resp' \in [Req -> SUBSET Msg]
  <2>1. CASE fwUpdateErrorMatcher = NoReq \/ id = "NonString"
    BY <1>b, <2>1 DEF ErrorMatcherFires, TypeOK
  <2>2. CASE ~(fwUpdateErrorMatcher = NoReq \/ id = "NonString")
    <3>1. fwUpdateErrorMatcher \in Req
      BY <2>2 DEF TypeOK, Ptr
    <3>2. Respond(fwUpdateErrorMatcher, Classify(id))
      BY <1>b, <2>2 DEF ErrorMatcherFires
    <3>3. resp' \in [Req -> SUBSET Msg]
      BY <3>1, <3>2, ClassifyType, RespondType DEF TypeOK
    <3>4. DestroyTimer(wait, fwAvailableTimer) \in [Req -> WaitState]
      BY DestroyTimerFacts DEF TypeOK
    <3>5. QED
      BY <1>b, <2>2, <3>3, <3>4 DEF ErrorMatcherFires, Ptr
  <2>3. QED
    BY <2>1, <2>2
<1>8. ASSUME NEW o \in Req, NEW id \in ImageError, ImageErrorLogged(o, id)
      PROVE TypeOK'
  BY <1>8, <1>b DEF ImageErrorLogged, TypeOK
<1>9. ASSUME NEW id \in ForeignMessage, ForeignLogged(id) PROVE TypeOK'
  BY <1>9, <1>b, ConstAssumption DEF ForeignLogged, TypeOK
<1>10. CASE UNCHANGED vars
  BY <1>10 DEF vars, TypeOK
<1>11. QED
  BY <1>1, <1>2, <1>3, <1>c, <1>4, <1>5, <1>6, <1>7, <1>8, <1>9, <1>10 DEF Next

(* The session's variables always have the types TypeOK gives them.        *)
THEOREM TypeCorrect == Spec => []TypeOK
BY InitTypeOK, NextTypeOK, PTL DEF Spec

-----------------------------------------------------------------------------
(* GuardHasReleaser.  It is inductive together with TypeOK: every handler  *)
(* either clears the flag (cleanUp(), the task path at 259), installs a    *)
(* fresh matcher and a waiting timer (monitorForSoftwareAvailable), or     *)
(* leaves the holder's wait pending; destroying a timer only moves a       *)
(* pending wait to "aborted", which still runs the handler.                *)

LEMMA InitGuard == Init => GuardHasReleaser
BY DEF Init, GuardHasReleaser

(* The error matcher's callback leaves every pending wait pending.        *)
LEMMA ErrorMatcherKeepsPending ==
    ASSUME TypeOK, NEW id, ErrorMatcherFires(id)
    PROVE  \A x \in Req : wait[x] \in Pending => wait'[x] \in Pending
<1>1. CASE fwUpdateErrorMatcher = NoReq \/ id = "NonString"
  BY <1>1 DEF ErrorMatcherFires
<1>2. CASE ~(fwUpdateErrorMatcher = NoReq \/ id = "NonString")
  <2>1. wait' = DestroyTimer(wait, fwAvailableTimer)
    BY <1>2 DEF ErrorMatcherFires
  <2>2. QED
    BY <2>1, DestroyTimerFacts DEF TypeOK
<1>3. QED
  BY <1>1, <1>2

LEMMA NextGuard ==
    TypeOK /\ GuardHasReleaser /\ [Next]_vars => GuardHasReleaser'
<1> SUFFICES ASSUME TypeOK, GuardHasReleaser, [Next]_vars
             PROVE  GuardHasReleaser'
  OBVIOUS
<1>1. ASSUME NEW r \in Req, PostUpdate(r) PROVE GuardHasReleaser'
  <2>1. CASE \E written \in BOOLEAN : OctetStream(r, written)
    BY <2>1, MonitorThenFacts DEF OctetStream
  <2>2. CASE \E outcome \in MultipartOutcome, at \in ApplyTime : Multipart(r, outcome, at)
    BY <2>2, MonitorThenFacts DEF Multipart
  <2>3. CASE BadContentType(r)
    BY <2>3 DEF BadContentType, GuardHasReleaser
  <2>4. QED
    BY <1>1, <2>1, <2>2, <2>3 DEF PostUpdate
<1>2. ASSUME NEW r \in Req, SimpleUpdate(r) PROVE GuardHasReleaser'
  <2>1. CASE TftpStarted(r)
    BY <2>1, MonitorThenFacts DEF TftpStarted
  <2>2. CASE UriRejected(r)
    BY <2>2 DEF UriRejected, GuardHasReleaser
  <2>3. QED
    BY <1>2, <2>1, <2>2 DEF SimpleUpdate
<1>3. ASSUME NEW r \in Req, TftpReply(r) PROVE GuardHasReleaser'
  BY <1>3 DEF TftpReply, TftpSucceeded, TftpFailed, CleanUp, GuardHasReleaser
<1>c. ASSUME NEW r \in Req, ApplyTimeReply(r) PROVE GuardHasReleaser'
  BY <1>c DEF ApplyTimeReply, GuardHasReleaser
<1>4. ASSUME NEW r \in Req, TimerExpires(r) PROVE GuardHasReleaser'
  BY <1>4 DEF TimerExpires, GuardHasReleaser, Pending, TypeOK
<1>5. ASSUME NEW r \in Req, TimerHandler(r) PROVE GuardHasReleaser'
  BY <1>5 DEF TimerHandler, CleanUp, GuardHasReleaser
<1>6. ASSUME NEW o \in Req, SoftwareObjectAdded(o) PROVE GuardHasReleaser'
  BY <1>6 DEF SoftwareObjectAdded, GuardHasReleaser
<1>7. ASSUME NEW l \in lookups, LookupReply(l) PROVE GuardHasReleaser'
  BY <1>7 DEF LookupReply, LookupFailed, LookupFound, CleanUp, GuardHasReleaser
<1>8. ASSUME NEW o \in Req, NEW id \in ImageError, ImageErrorLogged(o, id)
      PROVE GuardHasReleaser'
  <2>1. \A x \in Req : wait[x] \in Pending => wait'[x] \in Pending
    BY <1>8, ErrorMatcherKeepsPending DEF ImageErrorLogged
  <2>2. QED
    BY <1>8, <2>1 DEF ImageErrorLogged, GuardHasReleaser
<1>9. ASSUME NEW id \in ForeignMessage, ForeignLogged(id) PROVE GuardHasReleaser'
  <2>1. \A x \in Req : wait[x] \in Pending => wait'[x] \in Pending
    BY <1>9, ErrorMatcherKeepsPending DEF ForeignLogged
  <2>2. QED
    BY <1>9, <2>1 DEF ForeignLogged, GuardHasReleaser
<1>10. CASE UNCHANGED vars
  BY <1>10 DEF vars, GuardHasReleaser
<1>11. QED
  BY <1>1, <1>2, <1>3, <1>c, <1>4, <1>5, <1>6, <1>7, <1>8, <1>9, <1>10 DEF Next

(* While fwUpdateInProgress is set, the holder's timer handler, which     *)
(* calls cleanUp() first (line 291), is still to run: the flag can never   *)
(* be left set with nothing to clear it.                                   *)
THEOREM GuardInvariant == Spec => []GuardHasReleaser
<1>1. Init => TypeOK /\ GuardHasReleaser
  BY InitTypeOK, InitGuard
<1>2. TypeOK /\ GuardHasReleaser /\ [Next]_vars => TypeOK' /\ GuardHasReleaser'
  BY NextTypeOK, NextGuard
<1>3. QED
  BY <1>1, <1>2, PTL DEF Spec

-----------------------------------------------------------------------------
(* The session implements the single-flight guard of UpdateGuard under    *)
(* the mapping holder <- sessionHolder.  No invariant is needed: the only  *)
(* step that sets the flag is an accepted monitorForSoftwareAvailable,     *)
(* which finds it clear; every other step clears it or leaves the flag and *)
(* the software matcher as they were.                                      *)

(* A step that clears the flag is a release or a stutter of the guard.     *)
LEMMA ClearIsRelease ==
    ASSUME fwUpdateInProgress' = FALSE
    PROVE  [Guard!GuardNext]_sessionHolder
BY DEF Guard!GuardNext, Guard!Release, sessionHolder

(* A step that keeps the flag and the software matcher is a stutter.     *)
LEMMA KeepIsStutter ==
    ASSUME UNCHANGED <<fwUpdateInProgress, fwUpdateMatcher>>
    PROVE  [Guard!GuardNext]_sessionHolder
BY DEF sessionHolder

(* monitorForSoftwareAvailable, with or without the cleanUp() after it.    *)
LEMMA MonitorThenRefines ==
    ASSUME NEW r \in Req, NEW cleaned \in BOOLEAN, MonitorThen(r, cleaned)
    PROVE  [Guard!GuardNext]_sessionHolder
<1>1. CASE cleaned
  BY <1>1, ClearIsRelease DEF MonitorThen
<1>2. CASE ~cleaned /\ ~fwUpdateInProgress
  <2>1. sessionHolder = NoReq /\ sessionHolder' = r
    BY <1>2 DEF MonitorThen, sessionHolder
  <2>2. QED
    BY <2>1 DEF Guard!GuardNext, Guard!Acquire
<1>3. CASE ~cleaned /\ fwUpdateInProgress
  BY <1>3, KeepIsStutter DEF MonitorThen
<1>4. QED
  BY <1>1, <1>2, <1>3

LEMMA NextRefines == [Next]_vars => [Guard!GuardNext]_sessionHolder
<1> SUFFICES ASSUME [Next]_vars PROVE [Guard!GuardNext]_sessionHolder
  OBVIOUS
<1>1. ASSUME NEW r \in Req, PostUpdate(r) PROVE [Guard!GuardNext]_sessionHolder
  <2>1. CASE \E written \in BOOLEAN : OctetStream(r, written)
    BY <2>1, MonitorThenRefines DEF OctetStream
  <2>2. CASE \E outcome \in MultipartOutcome, at \in ApplyTime : Multipart(r, outcome, at)
    BY <2>2, MonitorThenRefines DEF Multipart
  <2>3. CASE BadContentType(r)
    BY <2>3, KeepIsStutter DEF BadContentType
  <2>4. QED
    BY <1>1, <2>1, <2>2, <2>3 DEF PostUpdate
<1>2. ASSUME NEW r \in Req, SimpleUpdate(r) PROVE [Guard!GuardNext]_sessionHolder
  <2>1. CASE TftpStarted(r)
    BY <2>1, MonitorThenRefines DEF TftpStarted
  <2>2. CASE UriRejected(r)
    BY <2>2, KeepIsStutter DEF UriRejected
  <2>3. QED
    BY <1>2, <2>1, <2>2 DEF SimpleUpdate
<1>3. ASSUME NEW r \in Req, TftpReply(r) PROVE [Guard!GuardNext]_sessionHolder
  <2>1. CASE TftpSucceeded(r)
    BY <2>1, KeepIsStutter DEF TftpSucceeded
  <2>2. CASE TftpFailed(r)
    BY <2>2, ClearIsRelease DEF TftpFailed, CleanUp
  <2>3. QED
    BY <1>3, <2>1, <2>2 DEF TftpReply
<1>4. ASSUME NEW r \in Req, TimerHandler(r) PROVE [Guard!GuardNext]_sessionHolder
  BY <1>4, ClearIsRelease DEF TimerHandler, CleanUp
<1>5. ASSUME NEW l \in lookups, LookupReply(l) PROVE [Guard!GuardNext]_sessionHolder
  <2>1. fwUpdateInProgress' = FALSE
    BY <1>5 DEF LookupReply, LookupFailed, LookupFound, CleanUp
  <2>2. QED
    BY <2>1, ClearIsRelease
<1>6. ASSUME NEW r \in Req,
             \/ ApplyTimeReply(r) \/ TimerExpires(r) \/ SoftwareObjectAdded(r)
             \/ \E id \in ImageError : ImageErrorLogged(r, id)
      PROVE  [Guard!GuardNext]_sessionHolder
  <2>1. UNCHANGED <<fwUpdateInProgress, fwUpdateMatcher>>
    BY <1>6 DEF ApplyTimeReply, TimerExpires, SoftwareObjectAdded, ImageErrorLogged
  <2>2. QED
    BY <2>1, KeepIsStutter
<1>7. ASSUME NEW id \in ForeignMessage, ForeignLogged(id)
      PROVE  [Guard!GuardNext]_sessionHolder
  BY <1>7, KeepIsStutter DEF ForeignLogged
<1>8. CASE UNCHANGED vars
  BY <1>8, KeepIsStutter DEF vars
<1>9. QED
  BY <1>1, <1>2, <1>3, <1>4, <1>5, <1>6, <1>7, <1>8 DEF Next

(* The update session implements the single-flight guard: an update is    *)
(* accepted only while no other holds the session, and the holder changes  *)
(* only through a release (cleanUp() or the task hand-off at line 259).    *)
THEOREM GuardRefinementHolds == Spec => GuardRefinementSafe
<1>1. Init => Guard!GuardInit
  BY DEF Init, Guard!GuardInit, sessionHolder
<1>2. QED
  BY <1>1, NextRefines, PTL DEF Spec, GuardRefinementSafe, Guard!GuardSafe

-----------------------------------------------------------------------------
(* OnlyHeldTimerArmed.  Inductive together with TypeOK: the only step that *)
(* arms a wait is an accepted monitorForSoftwareAvailable, which destroys  *)
(* the timer the pointer held, and by the invariant that was the only     *)
(* armed one; the steps that null the pointer (134, 355) destroy it too.   *)

(* Destroying the one armed timer leaves no wait armed.                    *)
LEMMA DestroyHeldTimer ==
    ASSUME NEW w \in [Req -> WaitState], NEW t \in Ptr,
           \A x \in Req : w[x] = "waiting" => t = x
    PROVE  \A x \in Req : DestroyTimer(w, t)[x] # "waiting"
BY ConstAssumption DEF DestroyTimer, Ptr

(* monitorForSoftwareAvailable arms only the timer it stores.             *)
LEMMA MonitorThenTimer ==
    ASSUME TypeOK, OnlyHeldTimerArmed, NEW r \in Req, NEW cleaned \in BOOLEAN,
           MonitorThen(r, cleaned)
    PROVE  OnlyHeldTimerArmed'
<1>1. CASE ~fwUpdateInProgress
  <2> DEFINE w1 == DestroyTimer(wait, fwAvailableTimer)
  <2>1. \A x \in Req : w1[x] # "waiting"
    BY DestroyHeldTimer DEF TypeOK, OnlyHeldTimerArmed
  <2>2. w1 \in [Req -> WaitState]
    BY DestroyTimerFacts DEF TypeOK
  <2>3. wait' = [w1 EXCEPT ![r] = "waiting"] /\ fwAvailableTimer' = r
    BY <1>1 DEF MonitorThen
  <2>4. QED
    BY <2>1, <2>2, <2>3 DEF OnlyHeldTimerArmed
<1>2. CASE fwUpdateInProgress
  BY <1>2 DEF MonitorThen, OnlyHeldTimerArmed
<1>3. QED
  BY <1>1, <1>2

(* The error matcher's callback nulls the pointer only with the timer.    *)
LEMMA ErrorMatcherTimer ==
    ASSUME TypeOK, OnlyHeldTimerArmed, NEW id, ErrorMatcherFires(id)
    PROVE  OnlyHeldTimerArmed'
<1>1. CASE fwUpdateErrorMatcher = NoReq \/ id = "NonString"
  BY <1>1 DEF ErrorMatcherFires, OnlyHeldTimerArmed
<1>2. CASE ~(fwUpdateErrorMatcher = NoReq \/ id = "NonString")
  <2>1. wait' = DestroyTimer(wait, fwAvailableTimer)
    BY <1>2 DEF ErrorMatcherFires
  <2>2. QED
    BY <2>1, DestroyHeldTimer DEF TypeOK, OnlyHeldTimerArmed
<1>3. QED
  BY <1>1, <1>2

LEMMA InitTimer == Init => OnlyHeldTimerArmed
BY DEF Init, OnlyHeldTimerArmed

LEMMA NextTimer ==
    TypeOK /\ OnlyHeldTimerArmed /\ [Next]_vars => OnlyHeldTimerArmed'
<1> SUFFICES ASSUME TypeOK, OnlyHeldTimerArmed, [Next]_vars
             PROVE  OnlyHeldTimerArmed'
  OBVIOUS
<1>1. ASSUME NEW r \in Req, PostUpdate(r) PROVE OnlyHeldTimerArmed'
  <2>1. CASE \E written \in BOOLEAN : OctetStream(r, written)
    BY <2>1, MonitorThenTimer DEF OctetStream
  <2>2. CASE \E outcome \in MultipartOutcome, at \in ApplyTime : Multipart(r, outcome, at)
    BY <2>2, MonitorThenTimer DEF Multipart
  <2>3. CASE BadContentType(r)
    BY <2>3 DEF BadContentType, OnlyHeldTimerArmed
  <2>4. QED
    BY <1>1, <2>1, <2>2, <2>3 DEF PostUpdate
<1>2. ASSUME NEW r \in Req, SimpleUpdate(r) PROVE OnlyHeldTimerArmed'
  <2>1. CASE TftpStarted(r)
    BY <2>1, MonitorThenTimer DEF TftpStarted
  <2>2. CASE UriRejected(r)
    BY <2>2 DEF UriRejected, OnlyHeldTimerArmed
  <2>3. QED
    BY <1>2, <2>1, <2>2 DEF SimpleUpdate
<1>3. ASSUME NEW r \in Req,
             TftpReply(r) \/ ApplyTimeReply(r) \/ SoftwareObjectAdded(r)
      PROVE  OnlyHeldTimerArmed'
  BY <1>3 DEF TftpReply, ApplyTimeReply, SoftwareObjectAdded, OnlyHeldTimerArmed
<1>4. ASSUME NEW r \in Req, TimerExpires(r) \/ TimerHandler(r)
      PROVE  OnlyHeldTimerArmed'
  BY <1>4 DEF TimerExpires, TimerHandler, OnlyHeldTimerArmed, TypeOK
<1>5. ASSUME NEW l \in lookups, LookupReply(l) PROVE OnlyHeldTimerArmed'
  <2>1. CASE LookupFailed(l)
    BY <2>1 DEF LookupFailed, OnlyHeldTimerArmed
  <2>2. CASE LookupFound(l)
    BY <2>2, DestroyHeldTimer DEF LookupFound, OnlyHeldTimerArmed, TypeOK
  <2>3. QED
    BY <1>5, <2>1, <2>2 DEF LookupReply
<1>6. ASSUME NEW o \in Req, NEW id \in ImageError, ImageErrorLogged(o, id)
      PROVE  OnlyHeldTimerArmed'
  BY <1>6, ErrorMatcherTimer DEF ImageErrorLogged
<1>7. ASSUME NEW id \in ForeignMessage, ForeignLogged(id) PROVE OnlyHeldTimerArmed'
  BY <1>7, ErrorMatcherTimer DEF ForeignLogged
<1>8. CASE UNCHANGED vars
  BY <1>8 DEF vars, OnlyHeldTimerArmed
<1>9. QED
  BY <1>1, <1>2, <1>3, <1>4, <1>5, <1>6, <1>7, <1>8 DEF Next

(* At most one availability timer is ever armed, and it is the one        *)
(* fwAvailableTimer holds: replacing or nulling the pointer (134, 284,     *)
(* 355) always cancels the timer it held.                                   *)
THEOREM TimerInvariant == Spec => []OnlyHeldTimerArmed
<1>1. Init => TypeOK /\ OnlyHeldTimerArmed
  BY InitTypeOK, InitTimer
<1>2. TypeOK /\ OnlyHeldTimerArmed /\ [Next]_vars => TypeOK' /\ OnlyHeldTimerArmed'
  BY NextTypeOK, NextTimer
<1>3. QED
  BY <1>1, <1>2, PTL DEF Spec

-----------------------------------------------------------------------------
(* BusyCreatesNoSession.  It is not inductive alone: a request that has   *)
(* not arrived could be answered Busy by a step that also names it in a    *)
(* pointer.  NotArrivedUntouched rules that out: until its handler runs a  *)
(* request has no timer, no answer and no pointer, and every D-Bus reply  *)
(* that answers belongs to a request that has arrived.  A Busy answer is   *)
(* only written by the arriving request's own handler, when the flag is    *)
(* set and monitoring leaves the session alone.                            *)

Ptrs == {fwUpdateMatcher, fwUpdateErrorMatcher, fwAvailableTimer}

BusyInv == NotArrivedUntouched /\ BusyCreatesNoSession

(* Destroying a timer leaves a never-armed wait never armed.               *)
LEMMA DestroyTimerKeepsIdle ==
    ASSUME NEW w \in [Req -> WaitState], NEW t \in Ptr, NEW x \in Req,
           w[x] = "idle"
    PROVE  DestroyTimer(w, t)[x] = "idle"
BY DEF DestroyTimer, Ptr

(* A step of an arrived request's handler, or of the platform: it arms no  *)
(* wait of its own, names nobody new in a pointer, answers only arrived    *)
(* requests and never with Busy, and issues D-Bus calls only for requests  *)
(* that arrived.                                                           *)
LEMMA QuietStepBusy ==
    ASSUME TypeOK, BusyInv,
           UNCHANGED arrived,
           \A x \in Req : wait[x] = "idle" => wait'[x] = "idle",
           Ptrs' \subseteq Ptrs \cup {NoReq},
           \A x \in Req : \/ resp'[x] = resp[x]
                          \/ x \in arrived /\ ("Busy" \in resp'[x] => "Busy" \in resp[x]),
           applyTimeCalls' \subseteq applyTimeCalls,
           \A l \in lookups' : l \in lookups \/ l.req \in Ptrs \cap Req
    PROVE  BusyInv'
<1>1. \A x \in Req \ arrived : x \notin Ptrs
  BY DEF BusyInv, NotArrivedUntouched, Ptrs
<1>2. \A x \in Req : x \notin Ptrs => x \notin Ptrs'
  BY ConstAssumption
<1>3. NotArrivedUntouched'
  <2>1. \A x \in Req \ arrived' : wait'[x] = "idle" /\ resp'[x] = {}
    BY DEF BusyInv, NotArrivedUntouched
  <2>2. \A l \in lookups' : l.req \in arrived'
    BY <1>1 DEF BusyInv, NotArrivedUntouched
  <2>3. QED
    BY <1>1, <1>2, <2>1, <2>2 DEF BusyInv, NotArrivedUntouched, Ptrs
<1>4. BusyCreatesNoSession'
  <2> SUFFICES ASSUME NEW x \in Req, "Busy" \in resp'[x]
               PROVE  wait'[x] = "idle" /\ x \notin Ptrs'
    BY DEF BusyCreatesNoSession, Ptrs
  <2>1. "Busy" \in resp[x]
    OBVIOUS
  <2>2. wait[x] = "idle" /\ x \notin Ptrs
    BY <2>1 DEF BusyInv, BusyCreatesNoSession, Ptrs
  <2>3. QED
    BY <1>2, <2>2
<1>5. QED
  BY <1>3, <1>4 DEF BusyInv

(* Answering an arrived request with anything but Busy.                   *)
LEMMA RespondArrived ==
    ASSUME TypeOK, NEW y \in arrived, NEW ms, "Busy" \notin ms, Respond(y, ms)
    PROVE  \A x \in Req : \/ resp'[x] = resp[x]
                          \/ x \in arrived /\ ("Busy" \in resp'[x] => "Busy" \in resp[x])
BY DEF Respond, TypeOK

(* A route handler running for request r: it may arm only r's wait and    *)
(* name only r in a pointer, and it writes Busy only while the flag is    *)
(* set, in which case it leaves the waits and the pointers alone (cleanUp() *)
(* may still null the matchers).                                           *)
LEMMA ArrivalStepBusy ==
    ASSUME TypeOK, BusyInv, NEW r \in Req \ arrived,
           arrived' = arrived \cup {r},
           NEW ms, Respond(r, ms), "Busy" \in ms => fwUpdateInProgress,
           \A x \in Req \ {r} : wait[x] = "idle" => wait'[x] = "idle",
           Ptrs' \subseteq Ptrs \cup {r, NoReq},
           fwUpdateInProgress => wait' = wait /\ Ptrs' \subseteq Ptrs \cup {NoReq},
           applyTimeCalls' \subseteq applyTimeCalls \cup {r},
           lookups' = lookups
    PROVE  BusyInv'
<1>1. \A x \in Req \ arrived : x \notin Ptrs /\ wait[x] = "idle" /\ resp[x] = {}
  BY DEF BusyInv, NotArrivedUntouched, Ptrs
<1>2. \A x \in Req \ {r} : resp'[x] = resp[x]
  BY DEF Respond, TypeOK
<1>3. resp'[r] = ms
  BY <1>1 DEF Respond, TypeOK
<1>4. NotArrivedUntouched'
  <2>1. \A x \in Req \ arrived' : wait'[x] = "idle" /\ resp'[x] = {} /\ x \notin Ptrs'
    BY <1>1, <1>2, ConstAssumption
  <2>2. QED
    BY <2>1 DEF BusyInv, NotArrivedUntouched, Ptrs
<1>5. BusyCreatesNoSession'
  <2> SUFFICES ASSUME NEW x \in Req, "Busy" \in resp'[x]
               PROVE  wait'[x] = "idle" /\ x \notin Ptrs'
    BY DEF BusyCreatesNoSession, Ptrs
  <2>1. CASE x = r
    <3>1. fwUpdateInProgress
      BY <1>3, <2>1
    <3>2. QED
      BY <1>1, <2>1, <3>1, ConstAssumption
  <2>4. CASE x # r
    <3>1. "Busy" \in resp[x]
      BY <1>2, <2>4
    <3>2. wait[x] = "idle" /\ x \notin Ptrs
      BY <3>1 DEF BusyInv, BusyCreatesNoSession, Ptrs
    <3>3. QED
      BY <2>4, <3>2, ConstAssumption
  <2>5. QED
    BY <2>1, <2>4
<1>6. QED
  BY <1>4, <1>5 DEF BusyInv

(* What monitorForSoftwareAvailable changes, as ArrivalStepBusy needs it. *)
LEMMA MonitorThenArrival ==
    ASSUME TypeOK, NEW r \in Req, NEW cleaned \in BOOLEAN, MonitorThen(r, cleaned)
    PROVE  /\ \A x \in Req \ {r} : wait[x] = "idle" => wait'[x] = "idle"
           /\ Ptrs' \subseteq Ptrs \cup {r, NoReq}
           /\ fwUpdateInProgress => wait' = wait /\ Ptrs' \subseteq Ptrs \cup {NoReq}
<1>1. CASE ~fwUpdateInProgress
  <2> DEFINE w1 == DestroyTimer(wait, fwAvailableTimer)
  <2>1. w1 \in [Req -> WaitState]
    BY DestroyTimerFacts DEF TypeOK
  <2>2. \A x \in Req : wait[x] = "idle" => w1[x] = "idle"
    BY DestroyTimerKeepsIdle DEF TypeOK
  <2>3. wait' = [w1 EXCEPT ![r] = "waiting"]
    BY <1>1 DEF MonitorThen
  <2>4. QED
    BY <1>1, <2>1, <2>2, <2>3 DEF MonitorThen, Ptrs
<1>2. CASE fwUpdateInProgress
  BY <1>2 DEF MonitorThen, Ptrs
<1>3. QED
  BY <1>1, <1>2

(* The error matcher's callback answers the arrived request that           *)
(* installed it with a classified error, never Busy.                       *)
LEMMA ErrorMatcherBusy ==
    ASSUME TypeOK, BusyInv, NEW id, ErrorMatcherFires(id),
           UNCHANGED <<fwUpdateMatcher, fwUpdateErrorMatcher>>
    PROVE  /\ \A x \in Req : wait[x] = "idle" => wait'[x] = "idle"
           /\ Ptrs' \subseteq Ptrs \cup {NoReq}
           /\ \A x \in Req : \/ resp'[x] = resp[x]
                             \/ x \in arrived /\ ("Busy" \in resp'[x] => "Busy" \in resp[x])
<1>1. CASE fwUpdateErrorMatcher = NoReq \/ id = "NonString"
  BY <1>1 DEF ErrorMatcherFires, Ptrs
<1>2. CASE ~(fwUpdateErrorMatcher = NoReq \/ id = "NonString")
  <2>1. fwUpdateErrorMatcher \in arrived
    BY <1>2 DEF TypeOK, Ptr, BusyInv, NotArrivedUntouched
  <2>2. "Busy" \notin Classify(id)
    BY DEF Classify
  <2>3. wait' = DestroyTimer(wait, fwAvailableTimer) /\ fwAvailableTimer' = NoReq
    BY <1>2 DEF ErrorMatcherFires
  <2>4. \A x \in Req : wait[x] = "idle" => wait'[x] = "idle"
    BY <2>3, DestroyTimerKeepsIdle DEF TypeOK
  <2>5. Respond(fwUpdateErrorMatcher, Classify(id))
    BY <1>2 DEF ErrorMatcherFires
  <2>6. QED
    BY <2>1, <2>2, <2>3, <2>4, <2>5, RespondArrived DEF Ptrs
<1>3. QED
  BY <1>1, <1>2

LEMMA InitBusy == Init => BusyInv
BY ConstAssumption DEF Init, BusyInv, NotArrivedUntouched, BusyCreatesNoSession

LEMMA NextBusy == TypeOK /\ BusyInv /\ [Next]_vars => BusyInv'
<1> SUFFICES ASSUME TypeOK, BusyInv, [Next]_vars PROVE BusyInv'
  OBVIOUS
<1>a. "Busy" \in BusyMsg => fwUpdateInProgress
  BY DEF BusyMsg
<1>1. ASSUME NEW r \in Req, PostUpdate(r) PROVE BusyInv'
  <2>1. r \in Req \ arrived /\ arrived' = arrived \cup {r} /\ lookups' = lookups
    BY <1>1 DEF PostUpdate
  <2>2. CASE \E written \in BOOLEAN : OctetStream(r, written)
    <3>1. PICK written \in BOOLEAN : OctetStream(r, written)
      BY <2>2
    <3>2. QED
      BY <2>1, <3>1, <1>a, MonitorThenArrival, ArrivalStepBusy DEF OctetStream
  <2>3. CASE \E outcome \in MultipartOutcome, at \in ApplyTime : Multipart(r, outcome, at)
    <3>1. PICK outcome \in MultipartOutcome, at \in ApplyTime : Multipart(r, outcome, at)
      BY <2>3
    <3>2. applyTimeCalls' \subseteq applyTimeCalls \cup {r}
      BY <3>1 DEF Multipart
    <3>3. QED
      BY <2>1, <3>1, <3>2, <1>a, MonitorThenArrival, ArrivalStepBusy DEF Multipart
  <2>4. CASE BadContentType(r)
    BY <2>1, <2>4, ArrivalStepBusy DEF BadContentType, Ptrs
  <2>5. QED
    BY <1>1, <2>2, <2>3, <2>4 DEF PostUpdate
<1>2. ASSUME NEW r \in Req, SimpleUpdate(r) PROVE BusyInv'
  <2>1. r \in Req \ arrived /\ arrived' = arrived \cup {r} /\ lookups' = lookups
        /\ applyTimeCalls' = applyTimeCalls
    BY <1>2 DEF SimpleUpdate
  <2>2. CASE TftpStarted(r)
    BY <2>1, <2>2, <1>a, MonitorThenArrival, ArrivalStepBusy DEF TftpStarted
  <2>3. CASE UriRejected(r)
    BY <2>1, <2>3, ArrivalStepBusy DEF UriRejected, Ptrs
  <2>4. QED
    BY <1>2, <2>2, <2>3 DEF SimpleUpdate
<1>3. ASSUME NEW r \in Req, TftpReply(r) PROVE BusyInv'
  BY <1>3, QuietStepBusy DEF TftpReply, TftpSucceeded, TftpFailed, CleanUp, Ptrs
<1>4. ASSUME NEW r \in Req, ApplyTimeReply(r) PROVE BusyInv'
  <2>1. r \in arrived
    BY <1>4 DEF ApplyTimeReply, BusyInv, NotArrivedUntouched
  <2>2. \E ms : "Busy" \notin ms /\ Respond(r, ms)
    BY <1>4 DEF ApplyTimeReply
  <2>3. QED
    BY <1>4, <2>1, <2>2, RespondArrived, QuietStepBusy DEF ApplyTimeReply, Ptrs
<1>5. ASSUME NEW r \in Req, TimerExpires(r) PROVE BusyInv'
  BY <1>5, QuietStepBusy DEF TimerExpires, Ptrs, TypeOK
<1>6. ASSUME NEW r \in Req, TimerHandler(r) PROVE BusyInv'
  <2>1. r \in arrived
    BY <1>6 DEF TimerHandler, BusyInv, NotArrivedUntouched
  <2>2. \A x \in Req : \/ resp'[x] = resp[x]
                       \/ x \in arrived /\ ("Busy" \in resp'[x] => "Busy" \in resp[x])
    BY <1>6, <2>1, RespondArrived DEF TimerHandler
  <2>3. QED
    BY <1>6, <2>2, QuietStepBusy DEF TimerHandler, CleanUp, Ptrs, TypeOK
<1>7. ASSUME NEW o \in Req, SoftwareObjectAdded(o) PROVE BusyInv'
  BY <1>7, QuietStepBusy DEF SoftwareObjectAdded, Ptrs, TypeOK, Ptr
<1>8. ASSUME NEW l \in lookups, LookupReply(l) PROVE BusyInv'
  <2>1. l.req \in arrived
    BY DEF BusyInv, NotArrivedUntouched
  <2>2. CASE LookupFailed(l)
    BY <1>8, <2>1, <2>2, RespondArrived, QuietStepBusy
       DEF LookupReply, LookupFailed, CleanUp, Ptrs
  <2>3. CASE LookupFound(l)
    <3>1. \A x \in Req : wait[x] = "idle" => wait'[x] = "idle"
      BY <2>3, DestroyTimerKeepsIdle DEF LookupFound, TypeOK
    <3>2. QED
      BY <1>8, <2>1, <2>3, <3>1, RespondArrived, QuietStepBusy
         DEF LookupReply, LookupFound, Ptrs
  <2>4. QED
    BY <1>8, <2>2, <2>3 DEF LookupReply
<1>9. ASSUME NEW o \in Req, NEW id \in ImageError, ImageErrorLogged(o, id)
      PROVE  BusyInv'
  BY <1>9, ErrorMatcherBusy, QuietStepBusy DEF ImageErrorLogged, Ptrs
<1>10. ASSUME NEW id \in ForeignMessage, ForeignLogged(id) PROVE BusyInv'
  BY <1>10, ErrorMatcherBusy, QuietStepBusy DEF ForeignLogged, Ptrs
<1>11. CASE UNCHANGED vars
  BY <1>11 DEF vars, BusyInv, NotArrivedUntouched, BusyCreatesNoSession
<1>12. QED
  BY <1>1, <1>2, <1>3, <1>4, <1>5, <1>6, <1>7, <1>8, <1>9, <1>10, <1>11 DEF Next

(* A request answered Busy never gets a timer or a matcher of its own:   *)
(* the Busy answer (275-282) comes with no session state, however the      *)
(* updates before and after it interleave.                                 *)
THEOREM BusyInvariant == Spec => []BusyCreatesNoSession
<1>1. Init => TypeOK /\ BusyInv
  BY InitTypeOK, InitBusy
<1>2. TypeOK /\ BusyInv /\ [Next]_vars => TypeOK' /\ BusyInv'
  BY NextTypeOK, NextBusy
<1>3. QED
  BY <1>1, <1>2, PTL DEF Spec, BusyInv

=============================================================================
