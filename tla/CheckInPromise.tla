--------------------------- MODULE CheckInPromise ---------------------------
(***************************************************************************)
(* What the dead-man's switch promises its clients, without the polling:   *)
(* every check-in that is neither answered nor cancelled by its deadline   *)
(* is alarmed exactly once, within Window of the deadline, and a check-in  *)
(* resolved in time never is.  One resolved after its deadline may go      *)
(* either way.  The promises hold until the node is restarted.             *)
(***************************************************************************)
EXTENDS Integers, Sequences

CONSTANTS
    Labels,     \* the names check-ins are armed under
    Intervals,  \* the delays a client may ask for
    NoPledge,   \* no deadline is promised for the label
    Window      \* how long after its deadline an alarm may be raised

VARIABLES
    now,        \* the clock
    pledge,     \* the deadline promised for each label, with its number
    episode,    \* how many deadlines each label has had
    late,       \* deadlines resolved too late whose alarm is on its way
    alarms      \* the numbers of the deadlines alarmed, for each label

vars == <<now, pledge, episode, late, alarms>>

Alarmed(l, e) == \E i \in DOMAIN alarms[l] : alarms[l][i] = e

Outstanding(l) == /\ pledge[l] # NoPledge
                  /\ ~ Alarmed(l, pledge[l].episode)

Missed(l) == Outstanding(l) /\ now >= pledge[l].deadline

Init == /\ now = 0
        /\ pledge = [l \in Labels |-> NoPledge]
        /\ episode = [l \in Labels |-> 0]
        /\ late = {}
        /\ alarms = [l \in Labels |-> <<>>]

\* The deadline of l ends; if it was missed its alarm may be on its way.
Resolve(l) ==
    /\ \/ UNCHANGED late
       \/ /\ Missed(l)
          /\ late' = late \cup {[label |-> l, episode |-> pledge[l].episode]}
    /\ UNCHANGED <<now, alarms>>

\* The client is promised a new deadline, in place of the one it had.
Promise(l) ==
    /\ Resolve(l)
    /\ episode' = [episode EXCEPT ![l] = @ + 1]
    /\ \E d \in Intervals : pledge' = [pledge EXCEPT ![l] =
            [episode |-> episode[l] + 1, deadline |-> now + d]]

\* The client answers for the last time, or cancels.
Release(l) ==
    /\ pledge[l] # NoPledge
    /\ Resolve(l)
    /\ pledge' = [pledge EXCEPT ![l] = NoPledge]
    /\ UNCHANGED episode

\* The alarm for a missed deadline goes out.
Raise(l) ==
    /\ \E e \in 1 .. episode[l] :
          /\ \/ Missed(l) /\ e = pledge[l].episode
             \/ [label |-> l, episode |-> e] \in late
          /\ ~ Alarmed(l, e)
          /\ alarms' = [alarms EXCEPT ![l] = Append(@, e)]
          /\ late' = late \ {[label |-> l, episode |-> e]}
    /\ UNCHANGED <<now, pledge, episode>>

\* The node is restarted: its promises are forgotten.
Forget ==
    /\ pledge' = [l \in Labels |-> NoPledge]
    /\ late' = {}
    /\ UNCHANGED <<now, episode, alarms>>

\* Time passes, but never beyond Window for a deadline that is to be alarmed.
Tick ==
    /\ \A l \in Labels : Outstanding(l) => now < pledge[l].deadline + Window
    /\ now' = now + 1
    /\ UNCHANGED <<pledge, episode, late, alarms>>

Next == \/ Tick
        \/ Forget
        \/ \E l \in Labels : Promise(l) \/ Release(l) \/ Raise(l)

Spec == Init /\ [][Next]_vars
=============================================================================
