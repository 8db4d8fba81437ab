--------------------------- MODULE LoginThrottle ---------------------------
(***************************************************************************)
(* Login attempts against the three throttle counters in Redis              *)
(* (app/core/sessions/throttling.py) as login_action uses them.  Every await *)
(* of the store is a step: attempts in flight together read the counters    *)
(* before any of them has recorded its failure.                             *)
(***************************************************************************)
EXTENDS Naturals, FiniteSets

CONSTANTS Accounts, Addresses,
          Attempts,         \* attempts that can be in flight together
          IpMax, AccountIpMax, AccountMax,            \* limits
          IpWindow, AccountIpWindow, AccountWindow    \* in ticks of the clock

ASSUME ThrottleAssumption ==
    /\ {IpMax, AccountIpMax, AccountMax} \subseteq Nat \ {0}
    /\ {IpWindow, AccountIpWindow, AccountWindow} \subseteq Nat \ {0}
    /\ IsFiniteSet(Attempts)

\* _keys: the names of the three counters of an attempt.
IpKey(addr) == <<"ip", addr>>
AccountIpKey(acct, addr) == <<"acct_ip", acct, addr>>
AccountKey(acct) == <<"acct", acct>>
Keys == {IpKey(addr) : addr \in Addresses}
        \cup {AccountIpKey(acct, addr) : acct \in Accounts, addr \in Addresses}
        \cup {AccountKey(acct) : acct \in Accounts}

Limit(k) == CASE k[1] = "ip" -> IpMax
              [] k[1] = "acct_ip" -> AccountIpMax
              [] OTHER -> AccountMax
Window(k) == CASE k[1] = "ip" -> IpWindow
               [] k[1] = "acct_ip" -> AccountIpWindow
               [] OTHER -> AccountWindow

VARIABLES count,    \* count[k]: the counter, 0 when the key does not exist
          left,     \* left[k]: ticks to the end of its window
          attempt   \* attempt[r]: what the request is doing, and for whom

throttleVars == <<count, left, attempt>>

\* The awaits of check, then of record_failure or record_success.
CheckSteps == {"check_ip", "check_acct_ip", "check_acct"}
FailSteps == {"fail_ip", "fail_acct_ip", "fail_acct"}
PassSteps == {"pass_acct_ip", "pass_acct"}
Steps == {"idle", "verify"} \cup CheckSteps \cup FailSteps \cup PassSteps

\* Each counter, its window and each request hold a value of their type.
ThrottleTypeOK ==
    /\ count \in [Keys -> Nat]
    /\ left \in [Keys -> Nat]
    /\ attempt \in [Attempts -> [at : Steps, acct : Accounts, addr : Addresses]]

ThrottleInit ==
    /\ count = [k \in Keys |-> 0]
    /\ left = [k \in Keys |-> 0]
    /\ attempt \in [Attempts -> [at : {"idle"}, acct : Accounts, addr : Addresses]]

At(r, step) == attempt[r].at = step
Goto(r, step) == attempt' = [attempt EXCEPT ![r].at = step]

\* The counter an await is about.
KeyAt(r) ==
    LET a == attempt[r] IN
    CASE a.at \in {"check_ip", "fail_ip"} -> IpKey(a.addr)
      [] a.at \in {"check_acct_ip", "fail_acct_ip", "pass_acct_ip"} ->
            AccountIpKey(a.acct, a.addr)
      [] OTHER -> AccountKey(a.acct)

\* login_action up to throttle.check.
Submit(r, acct, addr) ==
    /\ At(r, "idle")
    /\ attempt' = [attempt EXCEPT ![r] = [at |-> "check_ip", acct |-> acct, addr |-> addr]]
    /\ UNCHANGED <<count, left>>

\* Mutant: one more than the limit.
UnderLimitOffByOne(k) == count[k] <= Limit(k)

UnderLimit(k) == count[k] < Limit(k)

\* check: one await per counter, in this order.
CheckPasses(r) ==
    /\ attempt[r].at \in CheckSteps /\ UnderLimit(KeyAt(r))
    /\ Goto(r, CASE At(r, "check_ip") -> "check_acct_ip"
                 [] At(r, "check_acct_ip") -> "check_acct"
                 [] OTHER -> "verify")
    /\ UNCHANGED <<count, left>>

CheckBlocks(r) ==
    /\ attempt[r].at \in CheckSteps /\ ~UnderLimit(KeyAt(r))
    /\ Goto(r, "idle")
    /\ UNCHANGED <<count, left>>

\* The user query and verify_password: the attempt fails or passes.
Verify(r) ==
    /\ At(r, "verify")
    /\ Goto(r, "fail_ip") \/ Goto(r, "pass_acct_ip")
    /\ UNCHANGED <<count, left>>

\* Mutant: INCR and EXPIRE as two calls, the second one lost.
IncrementTwoCalls(k) ==
    /\ count' = [count EXCEPT ![k] = @ + 1]
    /\ UNCHANGED left

\* The Lua script: INCR, and EXPIRE when the key was created.
Increment(k) ==
    /\ count' = [count EXCEPT ![k] = @ + 1]
    /\ left' = [left EXCEPT ![k] = IF count[k] = 0 THEN Window(k) ELSE @]

\* record_failure: one await per counter, in this order.
RecordFailure(r) ==
    /\ attempt[r].at \in FailSteps
    /\ Increment(KeyAt(r))
    /\ Goto(r, CASE At(r, "fail_ip") -> "fail_acct_ip"
                 [] At(r, "fail_acct_ip") -> "fail_acct"
                 [] OTHER -> "idle")

\* Mutant: a success forgives the address too.
ResetAddressToo(r) ==
    LET gone == {KeyAt(r), IpKey(attempt[r].addr)} IN
    /\ count' = [k \in Keys |-> IF k \in gone THEN 0 ELSE count[k]]
    /\ left' = [k \in Keys |-> IF k \in gone THEN 0 ELSE left[k]]

Reset(r) ==
    /\ count' = [count EXCEPT ![KeyAt(r)] = 0]
    /\ left' = [left EXCEPT ![KeyAt(r)] = 0]

\* record_success: the address's own counter is left alone.
RecordSuccess(r) ==
    /\ attempt[r].at \in PassSteps
    /\ Reset(r)
    /\ Goto(r, IF At(r, "pass_acct_ip") THEN "pass_acct" ELSE "idle")

\* The store is unreachable: check answers 503; record_failure and
\* record_success are given up half way and the login answers as decided.
StoreUnavailable(r) ==
    /\ attempt[r].at \in CheckSteps \cup FailSteps \cup PassSteps
    /\ Goto(r, "idle")
    /\ UNCHANGED <<count, left>>

\* Time passes; a key whose window ends is gone.
Tick ==
    /\ \E k \in Keys : left[k] > 0
    /\ left' = [k \in Keys |-> IF left[k] > 0 THEN left[k] - 1 ELSE 0]
    /\ count' = [k \in Keys |-> IF left[k] = 1 THEN 0 ELSE count[k]]
    /\ UNCHANGED attempt

AttemptNext(r) ==
    \/ \E acct \in Accounts, addr \in Addresses : Submit(r, acct, addr)
    \/ CheckPasses(r) \/ CheckBlocks(r) \/ Verify(r)
    \/ RecordFailure(r) \/ RecordSuccess(r) \/ StoreUnavailable(r)

ThrottleNext == Tick \/ \E r \in Attempts : AttemptNext(r)

ThrottleSpec == ThrottleInit /\ [][ThrottleNext]_throttleVars

\* Time passes; nothing is asked of the users.
FairThrottleSpec == ThrottleSpec /\ WF_throttleVars(Tick)

-----------------------------------------------------------------------------
\* Concurrent attempts race past a limit by at most what is in flight: check
\* and record_failure are separate awaits, so a counter exceeds its limit by at
\* most one less than the number of attempts in flight together.
ThrottleBounded ==
    \A k \in Keys : count[k] < Limit(k) + Cardinality(Attempts)

\* Only the end of its window lowers an address's counter: no login that
\* succeeds, of whatever account, erases the failures of its address.
AddressRemembered ==
    [][\A addr \in Addresses :
        count'[IpKey(addr)] < count[IpKey(addr)] => left[IpKey(addr)] = 1
      ]_throttleVars

\* No permanent lockout: whatever attempts keep arriving, every counter is
\* below its limit again and again.
NoPermanentLockout ==
    \A k \in Keys : []<>(count[k] < Limit(k))
=============================================================================
