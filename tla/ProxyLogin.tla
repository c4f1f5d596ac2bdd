----------------------------- MODULE ProxyLogin -----------------------------
(***************************************************************************)
(* The credentials of kagura-memory-mcp: ProxyAuth of src/src/mcp/auth.ts, *)
(* the requests of mcp/transport.ts that use it, and the one browser login *)
(* a process may make (auth/login.ts over DeviceFlow).                     *)
(*                                                                         *)
(* A pair of tokens is a number; 0 is no profile.  What the other clients  *)
(* of credentials.json do is external: the module Credentials says why     *)
(* they too change the file only under the lock.  A rejected refresh frees *)
(* the lock and reaches authenticate() in the same turn of the event loop, *)
(* which no other holder of the lock can enter, so it is one step.         *)
(***************************************************************************)
EXTENDS DeviceFlow

CONSTANTS
    Requests,
    Free,               \* the lock: held by nobody
    Unreadable,         \* credentials.json that exists and cannot be read
    LoginTimeout,       \* loginTimeoutMs
    MaxOutside,         \* bound: things that happen outside this process
    MaxFaults           \* bound: failed saves and lost answers

ASSUME ProxyLoginAssumption ==
    /\ Free \notin Requests /\ Unreadable \notin Nat
    /\ LoginTimeout \in 0..MaxTime
    /\ MaxOutside \in Nat /\ MaxFaults \in Nat

VARIABLES
    disk,       \* the profile on file: a pair, 0, or Unreadable
    mem,        \* SharedCredentialsState: the pair in use, and the pair on
                \* file it replaces when it could not be saved
    holder,     \* of the lock on the file
    live,       \* pairs whose refresh token the server honours
    accepted,   \* pairs whose access token the server accepts
    fresh,      \* pairs whose access token has not reached its expiry
    last,       \* the newest pair the server issued
    req,        \* per request: where it is, and its locals
    login,      \* "allowed" (options.login), "running" (loginAttempt) or "spent"
    logins,     \* history: browser logins begun
    outside, faults

server == <<live, accepted, fresh, last>>
store == <<disk, mem>>
bounds == <<outside, faults>>
vars == <<store, holder, server, req, login, logins, bounds, flowVars>>

Outcomes == {"none", "answered", "rejected", "loginRequired", "loginFailed",
             "expired", "fileError", "networkError"}
Request == [pc : {"start", "mutex", "lock", "sending", "login", "post", "done"},
            call : {"header", "force", "retry"},  \* the retry is a header too
            again : {"yes", "no"},    \* its login, if any, came from the
                                      \* catch of getAuthHeader
            stale : Nat,              \* expectedStaleToken; 0 is null
            base : Nat,               \* the pair being refreshed
            bearer : Nat,             \* of the POST
            outcome : Outcomes]

TypeOK ==
    /\ FlowTypeOK
    /\ disk \in Nat \cup {Unreadable}
    /\ mem \in [cred : Nat, used : Nat]
    /\ holder \in Requests \cup {Free}
    /\ live \in SUBSET Nat /\ accepted \in SUBSET Nat /\ fresh \in SUBSET Nat
    /\ last \in Nat /\ logins \in Nat /\ outside \in Nat /\ faults \in Nat
    /\ req \in [Requests -> Request]
    /\ login \in {"allowed", "running", "spent"}

Ready == [pc |-> "start", call |-> "header", again |-> "no", stale |-> 0,
          base |-> 0, bearer |-> 0, outcome |-> "none"]
Over(outcome) == [Ready EXCEPT !.pc = "done", !.outcome = outcome]

Init ==
    /\ FlowInit
    /\ disk \in {0, 1} /\ mem = [cred |-> disk, used |-> 0]
    /\ holder = Free
    /\ live = {1} /\ last = 1
    /\ accepted \in SUBSET {1} /\ fresh \in SUBSET {1}
    /\ req = [r \in Requests |-> Ready]
    /\ login \in {"allowed", "spent"} /\ logins = 0
    /\ outside = 0 /\ faults = 0

-----------------------------------------------------------------------------
(* sharedStateFrom: the copy in memory stays in use while the file is      *)
(* behind it.                                                              *)
Behind(onFile) == mem.used # 0 /\ onFile = mem.used
Loaded == IF Behind(disk) THEN mem ELSE [cred |-> disk, used |-> 0]

AlreadyRotated(stale) ==
    IF stale = 0 THEN disk \in fresh ELSE disk # stale /\ disk \in fresh

Goto(r, pc) == req' = [req EXCEPT ![r].pc = pc]
AwaitLogin(r, caught) ==
    req' = [req EXCEPT ![r].pc = "login", ![r].again = caught]
Finish(r, outcome) == req' = [req EXCEPT ![r] = Over(outcome)]

(* Without loginAttempt: a request that finds a login running is refused.  *)
AuthenticateAlone(r, caught) ==
    /\ IF login = "allowed"
       THEN login' = "running" /\ logins' = logins + 1 /\ BeginFlow /\ AwaitLogin(r, caught)
       ELSE Finish(r, "loginRequired") /\ UNCHANGED <<login, logins, flow>>

(* authenticate(): join the login that runs, refuse a second one, else     *)
(* begin it.  login() reads the file strictly before it asks for a code.   *)
(* caught says whether the call comes from the catch of getAuthHeader.     *)
Authenticate(r, caught) ==
    \/ /\ login = "running"
       /\ AwaitLogin(r, caught)
       /\ UNCHANGED <<login, logins, flow>>
    \/ /\ login = "spent"
       /\ Finish(r, "loginRequired")
       /\ UNCHANGED <<login, logins, flow>>
    \/ /\ login = "allowed" /\ disk # Unreadable
       /\ login' = "running" /\ logins' = logins + 1
       /\ BeginFlow
       /\ AwaitLogin(r, caught)
    \/ /\ login = "allowed" /\ disk = Unreadable
       /\ login' = "spent"
       /\ Finish(r, "loginFailed")
       /\ UNCHANGED <<logins, flow>>

(* getAuthHeader and forceRefresh, up to their first await: reload(), and  *)
(* the access token that is current by then as the rejected one.           *)
Call(r) ==
    /\ req[r].pc = "start"
    /\ \/ /\ disk = Unreadable
          /\ Finish(r, "fileError")
          /\ UNCHANGED <<mem, login, logins, flow>>
       \/ /\ disk = 0
          /\ Authenticate(r, "no")
          /\ UNCHANGED mem
       \/ /\ disk \notin {0, Unreadable}
          /\ mem' = Loaded
          /\ req' = [req EXCEPT ![r].pc = "mutex", ![r].again = "no",
                ![r].stale = IF req[r].call = "force" THEN Loaded.cred ELSE 0]
          /\ UNCHANGED <<login, logins, flow>>
    /\ UNCHANGED <<disk, holder, server, bounds, clock, decision, history>>

(* The call returned: the header goes into the POST, and a forced refresh  *)
(* is followed by another getAuthHeader.                                   *)
Returned(r, pair) ==
    req' = IF req[r].call = "force"
           THEN [req EXCEPT ![r] = [Ready EXCEPT !.call = "retry"]]
           ELSE [req EXCEPT ![r] =
                    [Ready EXCEPT !.pc = "post", !.call = req[r].call, !.bearer = pair]]

MutexFree == \A r \in Requests : req[r].pc \notin {"lock", "sending"}

(* maybeRefresh in the mutex: a fresh token is used as it is.              *)
EnterMutex(r) ==
    /\ req[r].pc = "mutex" /\ MutexFree
    /\ IF req[r].stale = 0 /\ mem.cred \in fresh
       THEN Returned(r, mem.cred)
       ELSE Goto(r, "lock")
    /\ UNCHANGED <<store, holder, server, login, logins, bounds, flowVars>>

(* KaguraAuthExpiredError: the first one leads to authenticate(), also     *)
(* when the call began with a login because there was no profile; one that *)
(* follows the login of the catch is the caller's.                         *)
LoginExpired(r) ==
    \/ /\ req[r].again = "no"
       /\ Authenticate(r, "yes")
    \/ /\ req[r].again = "yes"
       /\ Finish(r, "expired")
       /\ UNCHANGED <<login, logins, flow>>

(* refreshProfileLocked: what the file holds decides, under the lock.      *)
TakeLock(r) ==
    /\ req[r].pc = "lock" /\ holder = Free
    /\ \/ /\ disk = Unreadable
          /\ Finish(r, "fileError")
          /\ UNCHANGED <<mem, holder, login, logins, flow>>
       \/ /\ disk = 0
          /\ LoginExpired(r)
          /\ UNCHANGED <<mem, holder>>
       \/ /\ disk \notin {0, Unreadable}
          /\ ~Behind(disk) /\ AlreadyRotated(req[r].stale)
          /\ mem' = [cred |-> disk, used |-> 0]
          /\ Returned(r, disk)
          /\ UNCHANGED <<holder, login, logins, flow>>
       \/ /\ disk \notin {0, Unreadable}
          /\ Behind(disk) \/ ~AlreadyRotated(req[r].stale)
          /\ holder' = r
          /\ req' = [req EXCEPT ![r].pc = "sending",
                                ![r].base = IF Behind(disk) THEN mem.cred ELSE disk]
          /\ UNCHANGED <<mem, login, logins, flow>>
    /\ UNCHANGED <<disk, server, bounds, clock, decision, history>>

Rotate(base) ==
    /\ last' = last + 1
    /\ live' = (live \ {base}) \cup {last + 1}
    /\ accepted' = (accepted \ {base}) \cup {last + 1}
    /\ fresh' = (fresh \ {base}) \cup {last + 1}

(* The server rotates the pair, and the answer is saved; a save that fails *)
(* leaves the only working pair in memory (reportUnsaved).                 *)
RefreshAnswered(r) ==
    /\ req[r].pc = "sending" /\ req[r].base \in live
    /\ Rotate(req[r].base)
    /\ holder' = Free
    /\ Returned(r, last + 1)
    /\ \/ /\ disk # Unreadable
          /\ disk' = last + 1 /\ mem' = [cred |-> last + 1, used |-> 0]
          /\ UNCHANGED faults
       \/ /\ faults < MaxFaults \/ disk = Unreadable
          /\ faults' = IF disk = Unreadable THEN faults ELSE faults + 1
          /\ mem' = [cred |-> last + 1,
                     used |-> IF disk = Unreadable THEN req[r].base ELSE disk]
          /\ UNCHANGED disk
    /\ UNCHANGED <<login, logins, outside, flowVars>>

RefusedHoldingLock(r) ==
    /\ req[r].pc = "sending" /\ req[r].base \notin live
    /\ LoginExpired(r)
    /\ UNCHANGED <<store, holder, server, bounds, clock, decision, history>>

RefreshRefused(r) ==
    /\ req[r].pc = "sending" /\ req[r].base \notin live
    /\ holder' = Free
    /\ LoginExpired(r)
    /\ UNCHANGED <<store, server, bounds, clock, decision, history>>

(* The request to the token endpoint fails, before or after the server ran *)
(* it; its deadline of 30 s ends one that is never answered.               *)
RefreshLost(r) ==
    /\ req[r].pc = "sending" /\ faults < MaxFaults
    /\ faults' = faults + 1 /\ holder' = Free
    /\ Finish(r, "networkError")
    /\ IF req[r].base \in live
       THEN Rotate(req[r].base) \/ UNCHANGED server
       ELSE UNCHANGED server
    /\ UNCHANGED <<store, login, logins, outside, flowVars>>

(* send(): a first 401 is followed by a forced refresh and one retry.      *)
Post(r) ==
    /\ req[r].pc = "post"
    /\ \/ /\ req[r].bearer \in accepted
          /\ Finish(r, "answered")
       \/ /\ req[r].bearer \notin accepted /\ req[r].call = "header"
          /\ req' = [req EXCEPT ![r].pc = "start", ![r].call = "force"]
       \/ /\ req[r].bearer \notin accepted /\ req[r].call = "retry"
          /\ Finish(r, "rejected")
    /\ UNCHANGED <<store, holder, server, login, logins, bounds, flowVars>>

-----------------------------------------------------------------------------
(* The login.                                                              *)

LoginRepeats == "allowed"

(* loginAttempted is never reset.                                          *)
AfterLogin == "spent"

(* Every request that waits for the login gets its outcome.  After it, a   *)
(* header is taken from the new pair, inside the try that was still ahead  *)
(* of a call without a profile, or in the catch.                           *)
Settle(saved) ==
    /\ login' = AfterLogin
    /\ EndFlow
    /\ req' = [r \in Requests |->
          IF req[r].pc # "login" THEN req[r]
          ELSE IF ~saved THEN Over("loginFailed")
          ELSE IF req[r].call = "force" THEN [Ready EXCEPT !.call = "retry"]
          ELSE [req[r] EXCEPT !.pc = "mutex"]]

(* 200: the server has issued a pair that only this process knows.         *)
LoginGranted ==
    /\ PollGranted
    /\ last' = last + 1
    /\ live' = live \cup {last + 1}
    /\ accepted' = accepted \cup {last + 1} /\ fresh' = fresh \cup {last + 1}
    /\ UNCHANGED <<store, holder, req, login, logins, bounds>>

(* updateProfile, under the lock, and the reload() of deviceLogin.         *)
SaveLogin ==
    /\ login = "running" /\ flow.phase = "approved" /\ holder = Free
    /\ \/ /\ disk # Unreadable
          /\ disk' = last /\ mem' = [cred |-> last, used |-> 0]
          /\ Settle(TRUE)
          /\ UNCHANGED faults
       \/ /\ disk = Unreadable \/ faults < MaxFaults
          /\ faults' = IF disk = Unreadable THEN faults ELSE faults + 1
          /\ Settle(FALSE)
          /\ UNCHANGED store
    /\ UNCHANGED <<holder, server, logins, outside>>

LoginStep ==
    /\ FlowStep
    /\ UNCHANGED <<store, holder, server, req, login, logins, bounds>>

LoginEnded ==
    /\ login = "running" /\ flow.phase \in Ended \ {"approved"}
    /\ Settle(FALSE)
    /\ UNCHANGED <<store, holder, server, logins, bounds>>

(* The timer of deviceLogin, or the end of the process's input, aborts the *)
(* request or the sleep; once the token is here nothing looks at it.       *)
Abort ==
    /\ login = "running" /\ InProgress /\ clock >= LoginTimeout
    /\ End("expired")
    /\ UNCHANGED <<store, holder, server, req, login, logins, bounds,
                   clock, decision, history>>

Time ==
    /\ Tick \/ Decide
    /\ UNCHANGED <<store, holder, server, req, login, logins, bounds>>

-----------------------------------------------------------------------------
(* Outside: the server, and other processes that take the lock.            *)
World ==
    /\ outside < MaxOutside /\ outside' = outside + 1
    /\ \/ \E n \in fresh :       \* an access token reaches its expiry
             /\ fresh' = fresh \ {n} /\ accepted' = accepted \ {n}
             /\ UNCHANGED <<disk, live, last>>
       \/ \E n \in accepted :    \* the server withdraws an access token
             /\ accepted' = accepted \ {n}
             /\ UNCHANGED <<disk, live, fresh, last>>
       \/ \E n \in live :        \* a grant is revoked
             /\ live' = live \ {n} /\ accepted' = accepted \ {n}
             /\ UNCHANGED <<disk, fresh, last>>
       \/ /\ holder = Free /\ disk \in live    \* another process refreshes
          /\ Rotate(disk) /\ disk' = last + 1
       \/ /\ holder = Free /\ disk # Unreadable    \* or logs in
          /\ Rotate(0) /\ disk' = last + 1
       \/ /\ holder = Free /\ disk \notin {0, Unreadable}    \* or logs out
          /\ disk' = 0 /\ live' = live \ {disk} /\ accepted' = accepted \ {disk}
          /\ UNCHANGED <<fresh, last>>
       \/ /\ disk' = Unreadable
          /\ UNCHANGED <<live, accepted, fresh, last>>
    /\ UNCHANGED <<mem, holder, req, login, logins, faults, flowVars>>

RequestStep(r) ==
    \/ Call(r) \/ EnterMutex(r) \/ TakeLock(r) \/ RefreshAnswered(r)
    \/ RefreshRefused(r) \/ Post(r)

AllDone == (\A r \in Requests : req[r].pc = "done") /\ UNCHANGED vars

Next ==
    \/ \E r \in Requests : RequestStep(r) \/ RefreshLost(r)
    \/ LoginStep \/ LoginGranted \/ SaveLogin \/ LoginEnded \/ Abort
    \/ Time \/ World \/ AllDone

Spec == Init /\ [][Next]_vars

(* The event loop runs what is ready, the server answers or the deadlines  *)
(* of the requests end them, and time passes; nobody need approve.         *)
Fairness ==
    /\ \A r \in Requests : SF_vars(RequestStep(r))
    /\ WF_vars(LoginStep) /\ WF_vars(LoginGranted)
    /\ SF_vars(SaveLogin) /\ WF_vars(LoginEnded) /\ WF_vars(Abort)
    /\ WF_vars(Tick /\ Time)
FairSpec == Spec /\ Fairness

-----------------------------------------------------------------------------
Usable == disk # Unreadable /\ disk \in live

(* A request is told to log in, and a browser login begins, only while the *)
(* file holds no profile that could be refreshed: one that a login or      *)
(* another process has just saved is found first (auth.ts:161-217).        *)
NeverAsksInVain ==
    [][(\/ logins' # logins
        \/ \E r \in Requests : /\ req'[r].outcome = "loginRequired"
                               /\ req[r].outcome # "loginRequired")
       => ~Usable /\ login # "running"]_vars

(* A process opens the browser at most once, however many requests find    *)
(* themselves without a login and however it ends (auth.ts:205-217).       *)
OneLogin == logins <= 1

(* Every request is answered or refused, though nobody ever looks at the   *)
(* browser (auth.ts:219-224, deviceFlow.ts:411).                           *)
EveryRequestEnds == \A r \in Requests : <>(req[r].pc = "done")
=============================================================================
