------------------------ MODULE ErasurePromiseProofs ------------------------
(***************************************************************************)
(* What every implementation of ErasurePromise inherits, for any number of *)
(* confirmations.                                                          *)
(***************************************************************************)
EXTENDS ErasurePromise, TLAPS

LEMMA PromiseInitial == PromiseInit => PromiseInv
<1> SUFFICES ASSUME PromiseInit PROVE PromiseInv
  OBVIOUS
<1>1. PromiseType
  <2>1. 0 \in Nat /\ 0 \in 0..0 /\ FALSE \in BOOLEAN /\ {} \subseteq 1..0
    OBVIOUS
  <2> QED
    BY <2>1, Zenon DEF PromiseInit, PromiseType
<1>2. Settled /\ Honest
  BY DEF PromiseInit, Settled, Honest
<1> QED
  BY <1>1, <1>2 DEF PromiseInv

LEMMA PromiseStep == PromiseInv /\ [PromiseNext]_promise => PromiseInv'
<1> SUFFICES ASSUME PromiseInv, [PromiseNext]_promise PROVE PromiseInv'
  OBVIOUS
<1> USE DEF PromiseInv, PromiseType, Settled, Honest
<1>1. CASE Grant
  BY <1>1 DEF Grant
<1>2. CASE Send
  BY <1>2 DEF Send
<1>3. CASE Report
  BY <1>3 DEF Report
<1>4. CASE Settle
  BY <1>4 DEF Settle
<1>5. CASE Withdraw
  <2>1. withdrawals' # grantedAt'
    <3>1. withdrawals \in Nat /\ grantedAt \in 0..withdrawals
      OBVIOUS
    <3>2. withdrawals' = withdrawals + 1 /\ grantedAt' = grantedAt
      BY <1>5 DEF Withdraw
    <3> QED
      BY ONLY <3>1, <3>2
  <2>2. Settled'
    BY <2>1
  <2>3. withdrawals' \in Nat /\ grantedAt' \in 0..withdrawals'
    BY <1>5 DEF Withdraw
  <2>4. held' \in BOOLEAN
    BY <1>5 DEF Withdraw
  <2> QED
    BY <1>5, <2>2, <2>3, <2>4 DEF Withdraw
<1>6. CASE Forget
  BY <1>6 DEF Forget
<1>7. ASSUME NEW o \in 1..MaxOps, Execute(o) PROVE PromiseInv'
  BY <1>7 DEF Execute
<1>8. ASSUME NEW o \in 1..MaxOps, Refuse(o) PROVE PromiseInv'
  BY <1>8 DEF Refuse
<1>9. CASE UNCHANGED promise
  BY <1>9 DEF promise
<1> QED
  BY <1>1, <1>2, <1>3, <1>4, <1>5, <1>6, <1>7, <1>8, <1>9 DEF PromiseNext

\* Under the authority an erasure was granted by, the next one is granted only after it
\* was reported as done or settled as not done; and nothing is reported that Core did not
\* do, or done that was settled as not done (confirm, finish, recover, hide).
THEOREM PromiseInvariant == PromiseSpec => []PromiseInv
<1>1. PromiseInit => PromiseInv
  BY PromiseInitial
<1>2. PromiseInv /\ [PromiseNext]_promise => PromiseInv'
  BY PromiseStep
<1> QED
  BY <1>1, <1>2, PTL DEF PromiseSpec
=============================================================================
