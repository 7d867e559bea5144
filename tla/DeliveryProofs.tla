---------------------------- MODULE DeliveryProofs ----------------------------
(***************************************************************************)
(* What the delivery contract is worth to a producer that knows nothing of *)
(* the pipeline behind it.                                                 *)
(***************************************************************************)
EXTENDS Delivery, TLAPS

(* Every step of the contract keeps it.                                    *)
LEMMA ContractStep ==
    ASSUME Trustworthy, [Next]_vars
    PROVE  Trustworthy'
  <1> USE DEF Trustworthy
  <1>1. CASE Accept
    BY <1>1 DEF Accept
  <1>2. ASSUME NEW t, Call(t) PROVE Trustworthy'
    BY <1>2 DEF Call
  <1>3. ASSUME NEW t, Fail(t) PROVE Trustworthy'
    BY <1>3 DEF Fail
  <1>4. CASE Sent
    BY <1>4 DEF Sent
  <1>5. CASE GiveUp
    BY <1>5 DEF GiveUp
  <1>6. CASE Replay
    BY <1>6 DEF Replay
  <1>7. CASE UNCHANGED vars
    BY <1>7 DEF vars
  <1>8. QED
    BY <1>1, <1>2, <1>3, <1>4, <1>5, <1>6, <1>7 DEF Next

(* Whoever keeps the contract can be trusted: without deduplication a      *)
(* message is delivered at most once until an operator accepts more, a     *)
(* plain failure delivered nothing, and a sent message was accepted.       *)
THEOREM ContractIsTrustworthy == Spec => []Trustworthy
  <1>1. Init => Trustworthy
    BY DEF Init, Trustworthy
  <1>2. Trustworthy /\ [Next]_vars => Trustworthy'
    BY ContractStep
  <1>3. QED
    BY <1>1, <1>2, PTL DEF Spec
=============================================================================
