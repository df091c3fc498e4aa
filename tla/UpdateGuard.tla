----------------------------- MODULE UpdateGuard -----------------------------
(***************************************************************************)
(* What the single-flight guard of update_service.hpp promises (spec 4.1): *)
(* at any time at most one request holds the update session; a request    *)
(* acquires it only when nobody holds it, the holder loses it only by a    *)
(* release, and a session once acquired is always released again.         *)
(***************************************************************************)
CONSTANTS
    Req,    \* the requests that may ask for the session
    NoReq   \* nobody

VARIABLE holder  \* the request holding the session, or NoReq

(* tryBegin() succeeding for request r.                                     *)
Acquire(r) ==
    /\ holder = NoReq
    /\ holder' = r

(* cleanup(), or the hand-off of the session to a task.                     *)
Release ==
    /\ holder # NoReq
    /\ holder' = NoReq

GuardInit == holder = NoReq

GuardNext == Release \/ \E r \in Req : Acquire(r)

GuardSafe == GuardInit /\ [][GuardNext]_holder

(* A session is never held for ever.                                        *)
GuardSpec == GuardSafe /\ WF_holder(Release)

=============================================================================
