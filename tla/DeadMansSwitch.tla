--------------------------- MODULE DeadMansSwitch ---------------------------
(***************************************************************************)
(* The safety check-in timer of boddos/safety/deadman.py: the check-ins a  *)
(* node has armed and the operations on them.  Time is counted in whole    *)
(* units of the wall clock the code reads (time.time()).                   *)
(*                                                                         *)
(* The module states what each operation does to the table of armed        *)
(* check-ins; DeadmanLoop composes them with the task that polls it.       *)
(***************************************************************************)
EXTENDS Integers

CONSTANTS
    Labels,         \* the names check-ins are armed under
    Intervals,      \* the values of minutes * 60 the clients ask for
    NotRecurring,   \* interval_s is None
    Unarmed         \* the label is not a key of _active

ASSUME DeadManAssumption ==
    /\ Intervals \subseteq Nat
    /\ NotRecurring \notin Nat
    /\ Unarmed \notin [deadline : Nat,
                       interval_s : Nat \cup {NotRecurring},
                       fired : BOOLEAN]

VARIABLES
    now,        \* the clock
    active      \* _active: the CheckIn armed under each label, if any

CheckIn == [deadline   : Nat,
            interval_s : Intervals \cup {NotRecurring},
            fired      : BOOLEAN]

DeadManTypeOK == /\ now \in Nat
                 /\ active \in [Labels -> CheckIn \cup {Unarmed}]

DeadManInit == /\ now = 0
               /\ active = [l \in Labels |-> Unarmed]

Armed(l) == active[l] # Unarmed

\* arm(label, minutes, recurring): whatever was armed under the label is replaced.
Arm(l, interval, recurring) ==
    active' = [active EXCEPT ![l] =
                 [deadline   |-> now + interval,
                  interval_s |-> IF recurring THEN interval ELSE NotRecurring,
                  fired      |-> FALSE]]

\* `if c.interval_s`: None and 0.0 are both false.
Rearms(l) == active[l].interval_s \notin {NotRecurring, 0}

\* Mutant of CheckInArmed: `fired` is not reset.
CheckInStaysFired(l) ==
    /\ Armed(l)
    /\ active' = [active EXCEPT ![l] =
                    IF Rearms(l)
                    THEN [active[l] EXCEPT !.deadline = now + active[l].interval_s]
                    ELSE Unarmed]

\* check_in(label) of an armed label.
CheckInArmed(l) ==
    /\ Armed(l)
    /\ active' = [active EXCEPT ![l] =
                    IF Rearms(l)
                    THEN [active[l] EXCEPT !.deadline = now + active[l].interval_s,
                                           !.fired = FALSE]
                    ELSE Unarmed]

\* Mutant of CancelArmed: the check-in stays in the table.
CancelForgets(l) ==
    /\ Armed(l)
    /\ UNCHANGED active

\* cancel(label) of an armed label.
CancelArmed(l) ==
    /\ Armed(l)
    /\ active' = [active EXCEPT ![l] = Unarmed]

\* due(): the check-ins whose deadline has passed and that have not fired yet ...
IsDue(l) == /\ Armed(l)
            /\ ~ active[l].fired
            /\ now >= active[l].deadline

Due == {l \in Labels : IsDue(l)}

\* Mutant of MarkFired: due() only reads.
MarkNothing == UNCHANGED active

\* ... which the call marks as fired.
MarkFired ==
    active' = [l \in Labels |->
                 IF IsDue(l) THEN [active[l] EXCEPT !.fired = TRUE] ELSE active[l]]
=============================================================================
