---------------------------- MODULE LoginThrottle ----------------------------
(***************************************************************************)
(* LoginAttemptLimiter (services/login_throttle.py) as login_route uses it *)
(* (api/auth.py:157).  A key is a client host and a username.  Times are   *)
(* kept as ages, in ticks: Window stands for window_seconds, and an age    *)
(* stops growing at Oldest since nothing tells older failures apart.       *)
(***************************************************************************)
EXTENDS Naturals, Sequences, FiniteSets, SequencesExt, Selections

CONSTANTS Visitors,     \* threads that serve login requests
          Keys,
          MaxAttempts,
          Window,
          MaxKeys,
          MaxLag        \* ticks a thread may wait for the limiter's lock

ASSUME LimiterAssumption == /\ MaxAttempts \in Nat \ {0} /\ Window \in Nat \ {0}
                            /\ MaxKeys \in Nat \ {0} /\ MaxLag \in Nat
                            /\ IsFiniteSet(Visitors) /\ Keys # {}

VARIABLES attempts,   \* _attempts: the ages of each key's failures, oldest call first
          order,      \* the keys of _attempts, in the order of their insertion
          visits      \* what each thread is doing

throttleVars == <<attempts, order, visits>>

Oldest == Window + MaxLag
Visit == [at: {"none", "verify", "record"}, key: Keys, lag: 0 .. MaxLag]

ThrottleTypeOK == /\ attempts \in [Keys -> Seq(0 .. Oldest)]
                  /\ order \in Seq(Keys)
                  /\ visits \in [Visitors -> Visit]

InitThrottle == /\ attempts = [k \in Keys |-> << >>]
                /\ order = << >>
                /\ visits \in [Visitors -> [at: {"none"}, key: {CHOOSE k \in Keys : TRUE}, lag: {0}]]

-----------------------------------------------------------------------------
(* _prune for a caller that read the clock lag ticks ago: the expired      *)
(* failures at the front go, up to the first one that is not.              *)
Pruned(ages, lag) ==
    LET kept == {i \in 1 .. Len(ages) : ages[i] < Window + lag} IN
    IF kept = {} THEN << >>
    ELSE SubSeq(ages, CHOOSE i \in kept : \A j \in kept : i <= j, Len(ages))

(* A key without failures is no key of _attempts.                          *)
Remaining(keys, table) == Selected(keys, {i \in DOMAIN keys : table[keys[i]] # << >>})

\* Mutant: one attempt more.
LockedOutLater(k) == Len(Pruned(attempts[k], 0)) > MaxAttempts

LockedOut(k) == Len(Pruned(attempts[k], 0)) >= MaxAttempts

(* login_route asks retry_after before it looks at the password.           *)
Ask(v, k) ==
    /\ visits[v].at = "none"
    /\ attempts' = [attempts EXCEPT ![k] = Pruned(@, 0)]
    /\ order' = Remaining(order, attempts')
    /\ ~LockedOut(k)
    /\ visits' = [visits EXCEPT ![v] = [at |-> "verify", key |-> k, lag |-> 0]]

\* Mutant: a refusal begins the window anew.
RefuseAnew(k) ==
    /\ LockedOut(k)
    /\ attempts' = [attempts EXCEPT ![k] = [i \in DOMAIN @ |-> 0]]
    /\ UNCHANGED <<order, visits>>

Refuse(k) ==
    /\ LockedOut(k)
    /\ attempts' = [attempts EXCEPT ![k] = Pruned(@, 0)]
    /\ UNCHANGED <<order, visits>>

Leaves(v) == visits' = [visits EXCEPT ![v] = [@ EXCEPT !.at = "none", !.lag = 0,
                                                       !.key = CHOOSE k \in Keys : TRUE]]

(* The password is right: clear.                                           *)
Succeed(v) ==
    /\ visits[v].at = "verify"
    /\ attempts' = [attempts EXCEPT ![visits[v].key] = << >>]
    /\ order' = Remaining(order, attempts')
    /\ Leaves(v)

(* The password is wrong: record_failure reads the clock, then waits for   *)
(* the lock.                                                               *)
Mistake(v) ==
    /\ visits[v].at = "verify"
    /\ visits' = [visits EXCEPT ![v].at = "record"]
    /\ UNCHANGED <<attempts, order>>

(* A request that ends otherwise: the database fails.                      *)
GiveUp(v) ==
    /\ visits[v].at = "verify"
    /\ Leaves(v)
    /\ UNCHANGED <<attempts, order>>

(* Under the lock.  A key that has no failures left prunes all the others, *)
(* and then evicts the keys inserted first, until there is room.           *)
Record(v) ==
    LET k == visits[v].key
        lag == visits[v].lag
        mine == Pruned(attempts[k], lag)
        table == [j \in Keys |-> IF mine = << >> \/ j = k THEN Pruned(attempts[j], lag)
                                 ELSE attempts[j]]
        keys == Remaining(order, table)
        excess == IF mine = << >> /\ Len(keys) >= MaxKeys THEN Len(keys) - MaxKeys + 1 ELSE 0
        evicted == ToSet(SubSeq(keys, 1, excess))
    IN
    /\ visits[v].at = "record"
    /\ attempts' = [j \in Keys |-> CASE j = k -> Append(mine, lag)
                                     [] j \in evicted -> << >>
                                     [] OTHER -> table[j]]
    /\ order' = SubSeq(keys, excess + 1, Len(keys)) \o (IF mine = << >> THEN <<k>> ELSE << >>)
    /\ Leaves(v)

Older(age) == IF age < Oldest THEN age + 1 ELSE Oldest

Tick ==
    /\ \A v \in Visitors : visits[v].at = "record" => visits[v].lag < MaxLag
    /\ attempts' = [k \in Keys |-> [i \in DOMAIN attempts[k] |-> Older(attempts[k][i])]]
    /\ visits' = [v \in Visitors |-> IF visits[v].at = "record"
                                     THEN [visits[v] EXCEPT !.lag = @ + 1] ELSE visits[v]]
    /\ UNCHANGED order

VisitorStep(v) == \/ \E k \in Keys : Ask(v, k)
                  \/ Succeed(v) \/ Mistake(v) \/ GiveUp(v) \/ Record(v)

NextThrottle == (\E v \in Visitors : VisitorStep(v)) \/ (\E k \in Keys : Refuse(k)) \/ Tick

(* Time passes, and a thread that waits for the lock gets it.              *)
ThrottleFairness == WF_throttleVars(Tick) /\ \A v \in Visitors : WF_throttleVars(Record(v))

SpecThrottle == InitThrottle /\ [][NextThrottle]_throttleVars /\ ThrottleFairness

-----------------------------------------------------------------------------
(* The failures of a key within one window are bounded: requests that were *)
(* let in together are all counted, none is let in after the limit, so     *)
(* that concurrency adds at most one attempt per thread beyond the first.  *)
(* The table and its order of eviction agree and never exceed max_keys,    *)
(* however many usernames a client tries (record_failure).                 *)
LimiterStaysBounded ==
    /\ \A k \in Keys : Len(attempts[k]) <= MaxAttempts - 1 + Cardinality(Visitors)
    /\ IsInjective(order) /\ Len(order) <= MaxKeys
    /\ ToSet(order) = {k \in Keys : attempts[k] # << >>}

(* A lockout ends by itself: nobody who is locked out can prolong it       *)
(* (retry_after, which records nothing).                                   *)
LockoutsEnd == \A k \in Keys : LockedOut(k) ~> ~LockedOut(k)
=============================================================================
