----------------------------- MODULE Transitions -----------------------------
(***************************************************************************)
(* The status machines of packages/rab-shared/src/state: one table per     *)
(* entity, and the guard assertTransition every service calls before it    *)
(* changes a status.  "none" stands for "no row yet"; it is not a status,  *)
(* and no table has an entry for it.                                       *)
(*                                                                         *)
(* Statuses no code path ever writes are left out: confirmed as a SHIFT    *)
(* status, and the attendance statuses scheduled, on_break, late, disputed *)
(* and absent.                                                             *)
(***************************************************************************)

SHIFT_TRANSITIONS ==
    [ draft            |-> {"open", "cancelled"},
      pending_manager_approval |-> {"open", "declined"},
      declined         |-> {},
      open             |-> {"offered", "cancelled"},
      offered          |-> {"partially_filled", "fully_filled", "cancelled"},
      partially_filled |-> {"offered", "fully_filled", "in_progress",
                            "cancelled"},
      fully_filled     |-> {"offered", "partially_filled", "in_progress",
                            "cancelled"},
      in_progress      |-> {"completed", "cancelled"},
      completed        |-> {},
      cancelled        |-> {} ]

SHIFT_ASSIGNMENT_TRANSITIONS ==
    [ offered        |-> {"staff_accepted", "declined", "withdrawn",
                          "cancelled"},
      staff_accepted |-> {"confirmed", "rejected", "cancelled"},
      confirmed      |-> {"cancelled", "no_show", "completed"},
      no_show        |-> {"completed"},
      declined       |-> {},
      rejected       |-> {},
      withdrawn      |-> {},
      cancelled      |-> {},
      completed      |-> {} ]

OFFER_TRANSITIONS ==
    [ pending           |-> {"staff_accepted", "declined", "expired",
                             "withdrawn"},
      staff_accepted    |-> {"manager_confirmed", "manager_rejected"},
      manager_confirmed |-> {},
      manager_rejected  |-> {},
      declined          |-> {},
      expired           |-> {},
      withdrawn         |-> {} ]

ATTENDANCE_TRANSITIONS ==
    [ clocked_in        |-> {"clocked_out", "missing_clock_out"},
      clocked_out       |-> {"under_review", "approved"},
      missing_clock_out |-> {"clocked_out"},
      under_review      |-> {"approved"},
      approved          |-> {} ]

(* assertTransition: an unknown status, like a missing edge, is refused.   *)
assertTransition(table, from, to) ==
    /\ from \in DOMAIN table
    /\ to \in table[from]
=============================================================================
