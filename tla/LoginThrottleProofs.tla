------------------------ MODULE LoginThrottleProofs ------------------------
(***************************************************************************)
(* Proofs about LoginThrottle, for any accounts, addresses, limits, windows *)
(* and any finite number of attempts in flight.                             *)
(***************************************************************************)
EXTENDS LoginThrottle, FiniteSetTheorems, TLAPS

Attempt == [at : Steps, acct : Accounts, addr : Addresses]

\* The three counters of an attempt are three different keys.
LEMMA KeysDiffer ==
    ASSUME NEW acct \in Accounts, NEW addr \in Addresses
    PROVE  /\ {IpKey(addr), AccountIpKey(acct, addr), AccountKey(acct)} \subseteq Keys
           /\ IpKey(addr) # AccountIpKey(acct, addr)
           /\ IpKey(addr) # AccountKey(acct)
           /\ AccountIpKey(acct, addr) # AccountKey(acct)
<1>1. {IpKey(addr), AccountIpKey(acct, addr), AccountKey(acct)} \subseteq Keys
  BY DEF Keys
<1>2. IpKey(addr)[1] = "ip" /\ AccountIpKey(acct, addr)[1] = "acct_ip" /\ AccountKey(acct)[1] = "acct"
  BY DEF IpKey, AccountIpKey, AccountKey
<1>3. QED
  BY <1>1, <1>2

\* Limits and windows are positive.
LEMMA LimitTypes == \A k \in Keys : Limit(k) \in Nat \ {0} /\ Window(k) \in Nat \ {0}
BY ThrottleAssumption DEF Limit, Window

\* An await is about one of the counters.
LEMMA KeyTypes ==
    ASSUME ThrottleTypeOK, NEW r \in Attempts
    PROVE  KeyAt(r) \in Keys
<1>1. attempt[r].acct \in Accounts /\ attempt[r].addr \in Addresses
  BY DEF ThrottleTypeOK
<1>2. KeyAt(r) \in {IpKey(attempt[r].addr), AccountIpKey(attempt[r].acct, attempt[r].addr),
                    AccountKey(attempt[r].acct)}
  BY DEF KeyAt
<1>3. QED
  BY <1>1, <1>2, KeysDiffer

\* What a step of an attempt does to the attempts.
LEMMA Moves ==
    ASSUME ThrottleTypeOK, NEW r \in Attempts, NEW s \in Steps, Goto(r, s)
    PROVE  /\ attempt' \in [Attempts -> Attempt]
           /\ \A q \in Attempts \ {r} : attempt'[q] = attempt[q]
           /\ attempt'[r].at = s
           /\ attempt'[r].acct = attempt[r].acct /\ attempt'[r].addr = attempt[r].addr
BY DEF ThrottleTypeOK, Goto, Attempt

\* The counters begin well typed.
LEMMA TypesInit == ThrottleInit => ThrottleTypeOK
BY DEF ThrottleInit, ThrottleTypeOK, Steps

\* Every step keeps the types.
LEMMA TypesStep == ThrottleTypeOK /\ [ThrottleNext]_throttleVars => ThrottleTypeOK'
<1> SUFFICES ASSUME ThrottleTypeOK, [ThrottleNext]_throttleVars PROVE ThrottleTypeOK'
  OBVIOUS
<1>1. CASE Tick
  <2>1. \A n \in Nat : n > 0 => n - 1 \in Nat
    OBVIOUS
  <2>2. QED
    BY <1>1, <2>1 DEF Tick, ThrottleTypeOK
<1>2. ASSUME NEW r \in Attempts, AttemptNext(r) PROVE ThrottleTypeOK'
  <2>1. CASE \E acct \in Accounts, addr \in Addresses : Submit(r, acct, addr)
    BY <2>1 DEF Submit, ThrottleTypeOK, Steps, CheckSteps
  <2>2. CASE CheckPasses(r) \/ CheckBlocks(r) \/ Verify(r) \/ StoreUnavailable(r)
    <3>1. \E s \in Steps : Goto(r, s)
      BY <2>2 DEF CheckPasses, CheckBlocks, Verify, StoreUnavailable, Steps, CheckSteps,
         FailSteps, PassSteps
    <3>2. UNCHANGED <<count, left>>
      BY <2>2 DEF CheckPasses, CheckBlocks, Verify, StoreUnavailable
    <3>3. QED
      BY <3>1, <3>2, Moves DEF ThrottleTypeOK, Attempt
  <2>3. CASE RecordFailure(r)
    <3>1. \E s \in Steps : Goto(r, s)
      BY <2>3 DEF RecordFailure, Steps, FailSteps
    <3>2. count' \in [Keys -> Nat] /\ left' \in [Keys -> Nat]
      BY <2>3, KeyTypes, LimitTypes DEF RecordFailure, Increment, ThrottleTypeOK
    <3>3. QED
      BY <3>1, <3>2, Moves DEF ThrottleTypeOK, Attempt
  <2>4. CASE RecordSuccess(r)
    <3>1. \E s \in Steps : Goto(r, s)
      BY <2>4 DEF RecordSuccess, Steps, PassSteps
    <3>2. count' \in [Keys -> Nat] /\ left' \in [Keys -> Nat]
      BY <2>4, KeyTypes DEF RecordSuccess, Reset, ThrottleTypeOK
    <3>3. QED
      BY <3>1, <3>2, Moves DEF ThrottleTypeOK, Attempt
  <2>5. QED
    BY <1>2, <2>1, <2>2, <2>3, <2>4 DEF AttemptNext
<1>3. CASE UNCHANGED throttleVars
  BY <1>3 DEF throttleVars, ThrottleTypeOK
<1>4. QED
  BY <1>1, <1>2, <1>3 DEF ThrottleNext

\* Counters, windows and attempts have their types in every state.
THEOREM ThrottleTypesCorrect == ThrottleSpec => []ThrottleTypeOK
BY TypesInit, TypesStep, PTL DEF ThrottleSpec

-----------------------------------------------------------------------------
(* How far concurrent attempts can overrun a limit                          *)

\* The attempts that passed the check of counter k and have yet to record a
\* failure on it.
OwesIp == {"check_acct_ip", "check_acct", "verify", "fail_ip"}
OwesAccountIp == {"check_acct", "verify", "fail_ip", "fail_acct_ip"}
OwesAccount == {"verify", "fail_ip", "fail_acct_ip", "fail_acct"}

Owes(a, k) ==
    \/ k = IpKey(a.addr) /\ a.at \in OwesIp
    \/ k = AccountIpKey(a.acct, a.addr) /\ a.at \in OwesAccountIp
    \/ k = AccountKey(a.acct) /\ a.at \in OwesAccount

Owed(k) == {r \in Attempts : Owes(attempt[r], k)}

\* A counter and the failures still to be recorded on it stay below the limit
\* and one per attempt: the bound on the counter alone is not inductive.
OverrunInv ==
    /\ ThrottleTypeOK
    /\ \A k \in Keys : count[k] + Cardinality(Owed(k)) < Limit(k) + Cardinality(Attempts)

\* Sets of attempts can be counted.
LEMMA OwedFinite ==
    ASSUME NEW S \in SUBSET Attempts
    PROVE  /\ IsFiniteSet(S) /\ Cardinality(S) \in Nat
           /\ Cardinality(Attempts) \in Nat /\ Cardinality(S) <= Cardinality(Attempts)
BY FS_Subset, FS_CardinalityType, ThrottleAssumption

\* Fewer or the same debts, and a counter that did not grow.
LEMMA OverrunShrinks ==
    ASSUME OverrunInv, ThrottleTypeOK', NEW k \in Keys,
           Owed(k)' \subseteq Owed(k), count'[k] <= count[k]
    PROVE  count'[k] + Cardinality(Owed(k)') < Limit(k) + Cardinality(Attempts)
<1>1. Owed(k) \in SUBSET Attempts /\ Owed(k)' \in SUBSET Attempts
  BY DEF Owed
<1>2. /\ Cardinality(Owed(k)') <= Cardinality(Owed(k))
      /\ Cardinality(Owed(k)') \in Nat /\ Cardinality(Owed(k)) \in Nat
      /\ Cardinality(Attempts) \in Nat
  BY <1>1, OwedFinite, FS_Subset
<1>3. count[k] \in Nat /\ count'[k] \in Nat /\ Limit(k) \in Nat
  BY LimitTypes DEF OverrunInv, ThrottleTypeOK
<1>4. count[k] + Cardinality(Owed(k)) < Limit(k) + Cardinality(Attempts)
  BY DEF OverrunInv
<1>5. QED
  BY <1>2, <1>3, <1>4

\* A check that passes found the counter below its limit.
LEMMA OverrunChecked ==
    ASSUME ThrottleTypeOK', NEW k \in Keys, count'[k] < Limit(k)
    PROVE  count'[k] + Cardinality(Owed(k)') < Limit(k) + Cardinality(Attempts)
<1>1. Owed(k)' \in SUBSET Attempts
  BY DEF Owed
<1>2. count'[k] \in Nat /\ Limit(k) \in Nat
  BY LimitTypes DEF ThrottleTypeOK
<1>3. QED
  BY <1>1, <1>2, OwedFinite

\* A recorded failure pays one debt.
LEMMA OverrunPaid ==
    ASSUME OverrunInv, ThrottleTypeOK', NEW k \in Keys, NEW r \in Owed(k),
           Owed(k)' \subseteq Owed(k) \ {r}, count'[k] = count[k] + 1
    PROVE  count'[k] + Cardinality(Owed(k)') < Limit(k) + Cardinality(Attempts)
<1>1. Owed(k) \in SUBSET Attempts /\ Owed(k)' \in SUBSET Attempts
  BY DEF Owed
<1>2. IsFiniteSet(Owed(k) \ {r}) /\ Cardinality(Owed(k) \ {r}) = Cardinality(Owed(k)) - 1
  BY <1>1, OwedFinite, FS_RemoveElement
<1>3. /\ Cardinality(Owed(k)') <= Cardinality(Owed(k) \ {r})
      /\ Cardinality(Owed(k)') \in Nat /\ Cardinality(Owed(k)) \in Nat
      /\ Cardinality(Attempts) \in Nat
  BY <1>1, <1>2, OwedFinite, FS_Subset
<1>4. count[k] \in Nat /\ Limit(k) \in Nat
  BY LimitTypes DEF OverrunInv, ThrottleTypeOK
<1>5. count[k] + Cardinality(Owed(k)) < Limit(k) + Cardinality(Attempts)
  BY DEF OverrunInv
<1>6. QED
  BY <1>2, <1>3, <1>4, <1>5

\* No counter begins above its limit.
LEMMA OverrunInit == ThrottleInit => OverrunInv
<1> SUFFICES ASSUME ThrottleInit PROVE OverrunInv
  OBVIOUS
<1>1. ThrottleTypeOK
  BY TypesInit
<1>2. ASSUME NEW k \in Keys PROVE count[k] + Cardinality(Owed(k)) < Limit(k) + Cardinality(Attempts)
  <2>1. Owed(k) \in SUBSET Attempts /\ count[k] = 0
    BY DEF Owed, ThrottleInit
  <2>2. QED
    BY <2>1, OwedFinite, LimitTypes
<1>3. QED
  BY <1>1, <1>2 DEF OverrunInv

\* Every step keeps the bound of counters and debts.
LEMMA OverrunStep == OverrunInv /\ [ThrottleNext]_throttleVars => OverrunInv'
<1> SUFFICES ASSUME OverrunInv, [ThrottleNext]_throttleVars PROVE OverrunInv'
  OBVIOUS
<1>a. ThrottleTypeOK /\ ThrottleTypeOK'
  BY TypesStep DEF OverrunInv
<1> SUFFICES ASSUME NEW k \in Keys
             PROVE  count'[k] + Cardinality(Owed(k)') < Limit(k) + Cardinality(Attempts)
  BY <1>a DEF OverrunInv
<1>b. count[k] \in Nat
  BY <1>a DEF ThrottleTypeOK
<1>1. CASE Tick
  <2>1. Owed(k)' = Owed(k) /\ count'[k] <= count[k]
    BY <1>1, <1>b DEF Tick, Owed
  <2>2. QED
    BY <1>a, <2>1, OverrunShrinks
<1>2. ASSUME NEW r \in Attempts, AttemptNext(r)
      PROVE  count'[k] + Cardinality(Owed(k)') < Limit(k) + Cardinality(Attempts)
  <2>0. attempt[r] \in Attempt /\ attempt'[r] \in Attempt
    BY <1>a DEF ThrottleTypeOK, Attempt
  <2>a. ASSUME NEW s \in Steps, Goto(r, s)
        PROVE  /\ \A q \in Attempts \ {r} : attempt'[q] = attempt[q]
               /\ attempt'[r].at = s
               /\ attempt'[r].acct = attempt[r].acct /\ attempt'[r].addr = attempt[r].addr
    BY <1>a, <2>a, Moves
  <2>b. ASSUME \A q \in Attempts \ {r} : attempt'[q] = attempt[q],
               Owes(attempt'[r], k) => Owes(attempt[r], k), count'[k] <= count[k]
        PROVE  count'[k] + Cardinality(Owed(k)') < Limit(k) + Cardinality(Attempts)
    <3>1. Owed(k)' \subseteq Owed(k)
      BY <2>b DEF Owed
    <3>2. QED
      BY <1>a, <2>b, <3>1, OverrunShrinks
  <2>1. CASE \E acct \in Accounts, addr \in Addresses : Submit(r, acct, addr)
    <3>1. ~Owes(attempt'[r], k)
      BY <1>a, <2>1 DEF Submit, ThrottleTypeOK, Owes, OwesIp, OwesAccountIp, OwesAccount
    <3>2. \A q \in Attempts \ {r} : attempt'[q] = attempt[q]
      BY <1>a, <2>1 DEF Submit, ThrottleTypeOK
    <3>3. count' = count
      BY <2>1 DEF Submit
    <3>4. QED
      BY <1>b, <2>b, <3>1, <3>2, <3>3
  <2>2. CASE CheckBlocks(r) \/ StoreUnavailable(r)
    <3>1. Goto(r, "idle") /\ "idle" \in Steps /\ count' = count
      BY <2>2 DEF CheckBlocks, StoreUnavailable, Steps
    <3>2. ~Owes(attempt'[r], k)
      BY <2>a, <3>1 DEF Owes, OwesIp, OwesAccountIp, OwesAccount
    <3>3. QED
      BY <1>b, <2>a, <2>b, <3>1, <3>2
  <2>3. CASE Verify(r)
    <3>1. PICK s \in {"fail_ip", "pass_acct_ip"} : Goto(r, s)
      BY <2>3 DEF Verify
    <3>2. s \in Steps /\ count' = count /\ attempt[r].at = "verify"
      BY <2>3 DEF Verify, Steps, FailSteps, PassSteps, At
    <3>3. Owes(attempt'[r], k) => Owes(attempt[r], k)
      BY <2>a, <3>1, <3>2 DEF Owes, OwesIp, OwesAccountIp, OwesAccount
    <3>4. QED
      BY <1>b, <2>a, <2>b, <3>1, <3>2, <3>3
  <2>4. CASE CheckPasses(r)
    <3> DEFINE s == CASE At(r, "check_ip") -> "check_acct_ip"
                      [] At(r, "check_acct_ip") -> "check_acct"
                      [] OTHER -> "verify"
    <3>1. s \in Steps /\ Goto(r, s) /\ count' = count
      BY <2>4 DEF CheckPasses, Steps, CheckSteps
    <3>2. CASE k = KeyAt(r)
      <4>1. count'[k] < Limit(k)
        BY <2>4, <3>1, <3>2 DEF CheckPasses, UnderLimit
      <4>2. QED
        BY <1>a, <4>1, OverrunChecked
    <3>3. CASE k # KeyAt(r)
      <4>1. Owes(attempt'[r], k) => Owes(attempt[r], k)
        BY <2>4, <2>a, <3>1, <3>3 DEF CheckPasses, CheckSteps, At, KeyAt, Owes, OwesIp,
           OwesAccountIp, OwesAccount
      <4>2. QED
        BY <1>b, <2>a, <2>b, <3>1, <4>1
    <3>4. QED
      BY <3>2, <3>3
  <2>5. CASE RecordFailure(r)
    <3> DEFINE s == CASE At(r, "fail_ip") -> "fail_acct_ip"
                      [] At(r, "fail_acct_ip") -> "fail_acct"
                      [] OTHER -> "idle"
    <3>1. s \in Steps /\ Goto(r, s) /\ attempt[r].at \in FailSteps
      BY <2>5 DEF RecordFailure, Steps, FailSteps
    <3>2. CASE k = KeyAt(r)
      <4>1. count'[k] = count[k] + 1
        BY <1>a, <2>5, <3>2 DEF RecordFailure, Increment, ThrottleTypeOK
      <4>2. Owes(attempt[r], k)
        BY <3>1, <3>2 DEF FailSteps, KeyAt, Owes, OwesIp, OwesAccountIp, OwesAccount
      <4>3. ~Owes(attempt'[r], k)
        <5>1. attempt[r].acct \in Accounts /\ attempt[r].addr \in Addresses
          BY <2>0 DEF Attempt
        <5>2. QED
          BY <2>a, <3>1, <3>2, <5>1, KeysDiffer DEF FailSteps, At, KeyAt, Owes, OwesIp,
             OwesAccountIp, OwesAccount
      <4>4. r \in Owed(k) /\ Owed(k)' \subseteq Owed(k) \ {r}
        BY <2>a, <3>1, <4>2, <4>3 DEF Owed
      <4>5. QED
        BY <1>a, <4>1, <4>4, OverrunPaid
    <3>3. CASE k # KeyAt(r)
      <4>1. count'[k] = count[k]
        BY <1>a, <2>5, <3>3 DEF RecordFailure, Increment, ThrottleTypeOK
      <4>2. Owes(attempt'[r], k) => Owes(attempt[r], k)
        BY <2>a, <3>1, <3>3 DEF FailSteps, At, KeyAt, Owes, OwesIp, OwesAccountIp, OwesAccount
      <4>3. QED
        BY <1>b, <2>a, <2>b, <3>1, <4>1, <4>2
    <3>4. QED
      BY <3>2, <3>3
  <2>6. CASE RecordSuccess(r)
    <3>1. PICK s \in {"pass_acct", "idle"} : Goto(r, s)
      BY <2>6 DEF RecordSuccess
    <3>2. s \in Steps /\ ~Owes(attempt'[r], k)
      BY <2>a, <3>1 DEF Steps, PassSteps, Owes, OwesIp, OwesAccountIp, OwesAccount
    <3>3. count'[k] <= count[k]
      BY <1>a, <1>b, <2>6 DEF RecordSuccess, Reset, ThrottleTypeOK
    <3>4. QED
      BY <2>a, <2>b, <3>1, <3>2, <3>3
  <2>7. QED
    BY <1>2, <2>1, <2>2, <2>3, <2>4, <2>5, <2>6 DEF AttemptNext
<1>3. CASE UNCHANGED throttleVars
  <2>1. Owed(k)' = Owed(k) /\ count'[k] <= count[k]
    BY <1>3, <1>b DEF throttleVars, Owed
  <2>2. QED
    BY <1>a, <2>1, OverrunShrinks
<1>4. QED
  BY <1>1, <1>2, <1>3 DEF ThrottleNext

\* Attempts in flight together overrun a limit by less than their number,
\* although check and record_failure are separate awaits of the store.
THEOREM OverrunBounded == ThrottleSpec => []ThrottleBounded
<1>1. OverrunInv => ThrottleBounded
  <2> SUFFICES ASSUME OverrunInv, NEW k \in Keys PROVE count[k] < Limit(k) + Cardinality(Attempts)
    BY DEF ThrottleBounded
  <2>1. Owed(k) \in SUBSET Attempts /\ count[k] \in Nat /\ Limit(k) \in Nat
    BY LimitTypes DEF Owed, OverrunInv, ThrottleTypeOK
  <2>2. QED
    BY <2>1, OwedFinite DEF OverrunInv
<1>2. QED
  BY <1>1, OverrunInit, OverrunStep, PTL DEF ThrottleSpec

-----------------------------------------------------------------------------
\* Only the end of its window lowers an address's counter: record_success
\* resets the two counters of the account, never the one of the address.
THEOREM AddressNotForgiven == ThrottleSpec => AddressRemembered
<1> DEFINE Remembers ==
        \A addr \in Addresses : count'[IpKey(addr)] < count[IpKey(addr)] => left[IpKey(addr)] = 1
<1>1. ThrottleTypeOK /\ [ThrottleNext]_throttleVars => [Remembers]_throttleVars
  <2> SUFFICES ASSUME ThrottleTypeOK, ThrottleNext, NEW addr \in Addresses,
                      count'[IpKey(addr)] < count[IpKey(addr)]
               PROVE  left[IpKey(addr)] = 1
    OBVIOUS
  <2>1. IpKey(addr) \in Keys /\ IpKey(addr)[1] = "ip"
    BY DEF Keys, IpKey
  <2>2. count[IpKey(addr)] \in Nat
    BY <2>1 DEF ThrottleTypeOK
  <2>3. CASE Tick
    BY <2>1, <2>2, <2>3 DEF Tick
  <2>4. ASSUME NEW r \in Attempts, AttemptNext(r) PROVE left[IpKey(addr)] = 1
    <3>1. CASE RecordSuccess(r)
      <4>1. KeyAt(r)[1] # "ip"
        BY <3>1 DEF RecordSuccess, PassSteps, KeyAt, AccountIpKey, AccountKey
      <4>2. QED
        BY <2>1, <2>2, <3>1, <4>1 DEF RecordSuccess, Reset, ThrottleTypeOK
    <3>2. CASE RecordFailure(r)
      BY <2>1, <2>2, <3>2 DEF RecordFailure, Increment, ThrottleTypeOK
    <3>3. CASE count' = count
      BY <2>2, <3>3
    <3>4. QED
      BY <2>4, <3>1, <3>2, <3>3 DEF AttemptNext, Submit, CheckPasses, CheckBlocks, Verify,
         StoreUnavailable
  <2>5. QED
    BY <2>3, <2>4 DEF ThrottleNext
<1>2. QED
  BY <1>1, ThrottleTypesCorrect, PTL DEF ThrottleSpec, AddressRemembered
=============================================================================
