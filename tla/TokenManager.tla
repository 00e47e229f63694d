----------------------------- MODULE TokenManager -----------------------------
(***************************************************************************)
(* packages/host-agent-core/src/token/token-manager.ts: the token that the *)
(* daemon presents, the timer that rotates it before it expires, and the   *)
(* retries of a rotation that fails.                                       *)
(*                                                                         *)
(* Time passes in Tick, in units of RETRY_DELAY_MS; every duration below   *)
(* is what remains of it.  A timer that is due fires before time passes.   *)
(***************************************************************************)
EXTENDS Naturals

CONSTANTS
    Lifetimes,       \* values of expiresIn that the gateway answers
    MaxExpiresIn,    \* MAX_EXPIRES_IN_S
    RefreshBefore,   \* refreshBeforeExpiry
    Skew,            \* CLOCK_SKEW_MARGIN_S
    RetryDelay,      \* RETRY_DELAY_MS
    MaxRetries,      \* maxRefreshRetries
    MaxDelay,        \* the longest delay of setTimeout(); a longer one is ignored
    MaxLatency       \* the time a request to the gateway may take

ASSUME TokenManagerAssumption ==
    /\ Lifetimes \subseteq Nat
    /\ MaxExpiresIn \in Nat
    /\ RefreshBefore \in Nat
    /\ Skew \in Nat /\ Skew < RefreshBefore
    /\ RetryDelay \in Nat
    /\ MaxRetries \in Nat \ {0}
    /\ MaxDelay \in Nat
    /\ MaxLatency \in Nat

VARIABLES
    token,        \* this.tokens !== null
    expiry,       \* time until this.tokenExpiresAt, 0 once it is past
    lifetime,     \* the lifetime that expiry was computed from
    serverLife,   \* time for which the gateway still accepts the token
    waited,       \* history: the time the answer took that expiry was computed from
    timer,        \* is the timeout in this.timer pending?
    delay,        \* time until it fires
    retryCount,   \* this.retryCount
    flight,       \* the request under way: none, start()'s or doRefresh()'s
    age,          \* the time it has taken
    answered,     \* the gateway has issued a token for it
    offer,        \* expiresIn of that token
    offerLife,    \* time for which the gateway accepts that token
    gaveUp,       \* onRefreshFailed was called, or start() rejected
    stopped       \* stop() was called

tokenVars == <<token, expiry, lifetime, serverLife, waited>>
timerVars == <<timer, delay>>
flightVars == <<flight, age>>
offerVars == <<answered, offer, offerLife>>
vars == <<tokenVars, timerVars, retryCount, flightVars, offerVars, gaveUp, stopped>>

CountersOK ==
    /\ expiry \in Nat
    /\ lifetime \in Nat
    /\ serverLife \in Nat
    /\ waited \in Nat
    /\ delay \in Nat
    /\ retryCount \in 0..MaxRetries
    /\ age \in Nat
    /\ offer \in Nat
    /\ offerLife \in Nat

FlagsOK ==
    /\ token \in BOOLEAN
    /\ timer \in BOOLEAN
    /\ answered \in BOOLEAN
    /\ gaveUp \in BOOLEAN
    /\ stopped \in BOOLEAN

\* Every variable keeps its type; the retries keep their bound.
TypeOK == CountersOK /\ FlagsOK /\ flight \in {"none", "fetch", "refresh"}

Init ==
    /\ token = FALSE /\ expiry = 0 /\ lifetime = 0 /\ serverLife = 0 /\ waited = 0
    /\ timer = FALSE /\ delay = 0
    /\ retryCount = 0
    /\ flight = "none" /\ age = 0
    /\ answered = FALSE /\ offer = 0 /\ offerLife = 0
    /\ gaveUp = FALSE
    /\ stopped = FALSE

-----------------------------------------------------------------------------
(* Helpers *)

Usable_NoMargin == token /\ expiry > 0

\* The accessToken getter returns the token instead of throwing.
Usable == token /\ expiry > Skew

Less1(n) == IF n > 0 THEN n - 1 ELSE 0

\* calcExpiresAt() accepts the lifetime.
ValidLifetime(l) == 0 < l /\ l <= MaxExpiresIn

\* setTimeout() turns a delay beyond its 32 bits into the shortest one.
SetTimer(d) ==
    /\ timer' = TRUE
    /\ delay' = IF d <= MaxDelay THEN d ELSE 0

ScheduleRefresh_NotWhenNear(l) ==
    \/ l > RefreshBefore /\ SetTimer(l - RefreshBefore)
    \/ l <= RefreshBefore /\ UNCHANGED timerVars

\* scheduleRefresh()
ScheduleRefresh(l) ==
    SetTimer(IF l > RefreshBefore THEN l - RefreshBefore ELSE 0)

RetryBackoff_OneTooMany(k) == RetryDelay * 2 ^ k

\* Exponential backoff of the k-th retry.
RetryBackoff(k) == RetryDelay * 2 ^ (k - 1)

Send(kind) ==
    /\ flight' = kind
    /\ age' = 0
    /\ UNCHANGED offerVars

Answered ==
    /\ flight' = "none" /\ age' = 0
    /\ answered' = FALSE /\ offer' = 0 /\ offerLife' = 0

-----------------------------------------------------------------------------
(* start() and stop() *)

Start ==
    /\ ~token /\ flight = "none" /\ ~gaveUp
    /\ Send("fetch")
    /\ UNCHANGED <<tokenVars, timerVars, retryCount, gaveUp, stopped>>

\* start() resolves; an invalid lifetime makes it reject, and the daemon exits.
FetchReturns ==
    /\ flight = "fetch" /\ answered
    /\ token' = TRUE
    /\ serverLife' = offerLife
    /\ \/ /\ ValidLifetime(offer)
          /\ expiry' = offer /\ lifetime' = offer /\ waited' = age
          /\ ScheduleRefresh(offer)
          /\ UNCHANGED gaveUp
       \/ /\ ~ValidLifetime(offer)
          /\ gaveUp' = TRUE
          /\ UNCHANGED <<expiry, lifetime, waited, timerVars>>
    /\ Answered
    /\ UNCHANGED <<retryCount, stopped>>

FetchFails ==
    /\ flight = "fetch"
    /\ gaveUp' = TRUE
    /\ Answered
    /\ UNCHANGED <<tokenVars, timerVars, retryCount, stopped>>

\* stop() clears the timer; it does not know of a request under way.
Stop ==
    /\ token /\ ~stopped
    /\ stopped' = TRUE
    /\ timer' = FALSE /\ delay' = 0
    /\ UNCHANGED <<tokenVars, retryCount, flightVars, offerVars, gaveUp>>

-----------------------------------------------------------------------------
(* doRefresh() *)

RefreshStarts ==
    /\ timer /\ delay = 0
    /\ timer' = FALSE /\ delay' = 0
    /\ Send("refresh")
    /\ UNCHANGED <<tokenVars, retryCount, gaveUp, stopped>>

RefreshFailure_NeverTooMany ==
    /\ retryCount' = retryCount + 1
    /\ \/ /\ expiry <= Skew
          /\ gaveUp' = TRUE
          /\ UNCHANGED timerVars
       \/ /\ expiry > Skew
          /\ SetTimer(RetryBackoff(retryCount'))
          /\ UNCHANGED gaveUp
    /\ Answered
    /\ UNCHANGED stopped

RefreshFailure_Silent ==
    /\ retryCount' = retryCount + 1
    /\ \/ /\ expiry <= Skew \/ retryCount' >= MaxRetries
          /\ UNCHANGED timerVars
       \/ /\ expiry > Skew /\ retryCount' < MaxRetries
          /\ SetTimer(RetryBackoff(retryCount'))
    /\ Answered
    /\ UNCHANGED <<gaveUp, stopped>>

\* The catch of doRefresh(): give up once the token has lapsed or the retries are
\* used up, else try again later.
RefreshFailure ==
    /\ retryCount' = retryCount + 1
    /\ \/ /\ expiry <= Skew \/ retryCount' >= MaxRetries
          /\ gaveUp' = TRUE
          /\ UNCHANGED timerVars
       \/ /\ expiry > Skew /\ retryCount' < MaxRetries
          /\ SetTimer(RetryBackoff(retryCount'))
          /\ UNCHANGED gaveUp
    /\ Answered
    /\ UNCHANGED stopped

\* The new tokens are stored; with an invalid lifetime calcExpiresAt() throws
\* after that, and tokenExpiresAt stays that of the old token.
RefreshReturns ==
    /\ flight = "refresh" /\ answered
    /\ serverLife' = offerLife
    /\ UNCHANGED token
    /\ \/ /\ ValidLifetime(offer)
          /\ expiry' = offer /\ lifetime' = offer /\ waited' = age
          /\ retryCount' = 0
          /\ ScheduleRefresh(offer)
          /\ Answered
          /\ UNCHANGED <<gaveUp, stopped>>
       \/ /\ ~ValidLifetime(offer)
          /\ RefreshFailure
          /\ UNCHANGED <<expiry, lifetime, waited>>

\* The request, or its answer, is lost, or the gateway refuses.
RefreshFails ==
    /\ flight = "refresh"
    /\ RefreshFailure
    /\ UNCHANGED tokenVars

-----------------------------------------------------------------------------
(* The gateway (external) and time *)

\* The gateway issues a token; its lifetime starts here, not when it arrives.
GatewayIssues ==
    /\ flight # "none" /\ ~answered
    /\ answered' = TRUE
    /\ offer' \in Lifetimes
    /\ offerLife' = offer'
    /\ UNCHANGED <<tokenVars, timerVars, retryCount, flightVars, gaveUp, stopped>>

\* What one unit of time does.
Elapse ==
    /\ expiry' = Less1(expiry)
    /\ serverLife' = Less1(serverLife)
    /\ delay' = Less1(delay)
    /\ offerLife' = Less1(offerLife)
    /\ age' = IF flight # "none" THEN age + 1 ELSE age
    /\ UNCHANGED <<token, lifetime, waited, timer, retryCount, flight, answered, offer, gaveUp,
                   stopped>>

\* A timer that is due, or an answer that is overdue, comes first.
Tick ==
    /\ timer => delay > 0
    /\ flight # "none" => age < MaxLatency
    /\ Elapse

-----------------------------------------------------------------------------

Next ==
    /\ ~gaveUp
    /\ \/ Start \/ FetchReturns \/ FetchFails \/ Stop
       \/ RefreshStarts \/ RefreshReturns \/ RefreshFails
       \/ GatewayIssues \/ Tick

Spec == Init /\ [][Next]_vars

\* Time passes, and requests settle within MaxLatency, one way or the other.
Fairness ==
    /\ WF_vars(~gaveUp /\ RefreshStarts)
    /\ WF_vars(~gaveUp /\ (RefreshReturns \/ RefreshFails))
    /\ WF_vars(~gaveUp /\ Tick)

FairSpec == Spec /\ Fairness

-----------------------------------------------------------------------------
(* Properties *)

\* The rotation is never forgotten and never doubled: a manager that has a token
\* waits for its timer or for one answer, until it gives up or is stopped.
NeverAbandoned ==
    token /\ ~gaveUp /\ ~stopped => (timer <=> flight # "refresh")

\* The getter hands out no token that the gateway no longer accepts, unless the answer
\* that brought it took longer than the margin for the clock skew: across rotations that
\* fail, and lifetimes that are refused after the token was stored.
UsableTokenIsAccepted ==
    Usable /\ waited <= Skew => serverLife > 0

\* "Refreshes 5 minutes before expiry", not earlier.
RefreshIsTimely ==
    [][flight # "refresh" /\ flight' = "refresh" => expiry <= RefreshBefore]_vars

\* A token that lapsed is replaced, or the daemon is told, or has ended.
LapseIsResolved ==
    token /\ ~Usable ~> (~token \/ Usable \/ gaveUp \/ stopped)
=============================================================================
