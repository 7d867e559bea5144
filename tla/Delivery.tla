-------------------------------- MODULE Delivery --------------------------------
(***************************************************************************)
(* What Crewflow's outboxes promise about one message, whatever carries    *)
(* it.  A provider call is known by the token of its attempt and may have  *)
(* delivered from the moment it is announced until it is seen to fail.  A  *)
(* channel that cannot deduplicate announces a call only while no other    *)
(* may have delivered; a row that says "sent" was accepted; a message      *)
(* whose fate is unknown is given up as uncertain, and comes back only     *)
(* when an operator accepts a duplicate.                                   *)
(***************************************************************************)
EXTENDS Naturals

VARIABLES
    state,      \* none, open, sent, failed, uncertain or cancelled
    live,       \* tokens of the calls that may have delivered
    strict      \* the channel cannot deduplicate, and no operator allowed a duplicate

vars == <<state, live, strict>>

Init == state = "none" /\ live = {} /\ strict \in BOOLEAN

(* A producer commits the row.                                             *)
Accept == state = "none" /\ state' = "open" /\ UNCHANGED <<live, strict>>

(* A call is announced, under a token of its own.                          *)
Call(t) == /\ state = "open" /\ t \notin live
           /\ strict => live = {}
           /\ live' = live \cup {t}
           /\ UNCHANGED <<state, strict>>

(* A call is seen to fail, perhaps after the row was given up; never the   *)
(* last one of a message that was sent.                                    *)
Fail(t) == /\ t \in live
           /\ live' = live \ {t}
           /\ state = "sent" => live' # {}
           /\ UNCHANGED <<state, strict>>

(* Acceptance is recorded.                                                 *)
Sent == state = "open" /\ live # {} /\ state' = "sent" /\ UNCHANGED <<live, strict>>

(* Given up: as failed only when a strict channel knows that nothing was   *)
(* delivered, else as uncertain; or cancelled by the business.             *)
GiveUp == /\ state = "open"
          /\ \/ state' = "failed" /\ (strict => live = {})
             \/ state' \in {"uncertain", "cancelled"}
          /\ UNCHANGED <<live, strict>>

(* An operator replays: an uncertain message only by accepting a duplicate.*)
Replay == /\ state \in {"failed", "uncertain"}
          /\ state' = "open"
          /\ strict' = (strict /\ state # "uncertain")
          /\ UNCHANGED live

Next ==
    \/ Accept \/ Sent \/ GiveUp \/ Replay
    \/ \E t \in live' : Call(t)
    \/ \E t \in live : Fail(t)

Spec == Init /\ [][Next]_vars

-----------------------------------------------------------------------------
(* What a producer may conclude from the contract alone: a channel that    *)
(* cannot deduplicate delivers at most once until an operator accepts a    *)
(* duplicate, a message that says failed on it was not delivered and may   *)
(* be replayed, and one that says sent was accepted on any channel.        *)
Trustworthy ==
    /\ strict => \A s, t \in live : s = t
    /\ strict /\ state = "failed" => live = {}
    /\ state = "sent" => live # {}
=================================================================================
