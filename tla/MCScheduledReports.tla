------------------------- MODULE MCScheduledReports -------------------------
(* Small instances of ScheduledReports for TLC.  A day is one instant, a month two; the
   date of instant 1 has no counterpart in the next month. *)
EXTENDS ScheduledReports, TLC

MCChoices == 1 :> {"DAILY", "MONTHLY"}
MCPeriod == "DAILY" :> 1 @@ "MONTHLY" :> 2
MCNoSuchDay == "DAILY" :> {} @@ "MONTHLY" :> {1}
\* The forms refuse the last.
MCDates == 1 :> {[start |-> 0, end |-> 1], [start |-> 1, end |-> None],
                 [start |-> 1, end |-> 1]}
=============================================================================
