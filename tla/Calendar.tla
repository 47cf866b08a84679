------------------------------ MODULE Calendar ------------------------------
(***************************************************************************)
(* The calendar that schedules and cron workflows share                    *)
(* (service_schedules/due.py).  A cron expression is the set of instants   *)
(* it stands for, up to a horizon.                                         *)
(***************************************************************************)
EXTENDS Naturals

CONSTANTS
    Horizon,      \* the last instant of the clock
    Expression,   \* cron expressions
    SlotsOf,      \* [Expression -> SUBSET (0 .. Horizon)]
    NoSlot        \* an empty instant

ASSUME CalendarAssumption ==
    /\ Horizon \in Nat
    /\ SlotsOf \in [Expression -> SUBSET (0 .. Horizon)]
    /\ NoSlot \notin Nat

\* Any instant after the horizon.
Beyond == Horizon + 1
Slot == 0 .. Beyond

\* Mutant: the occurrence at t counts as following it.
SlotFrom(e, t) ==
    IF \E s \in SlotsOf[e] : s >= t
    THEN CHOOSE s \in SlotsOf[e] : s >= t /\ \A q \in SlotsOf[e] : q >= t => s <= q
    ELSE Beyond

\* The first occurrence strictly after t.
SlotAfter(e, t) ==
    IF \E s \in SlotsOf[e] : s > t
    THEN CHOOSE s \in SlotsOf[e] : s > t /\ \A q \in SlotsOf[e] : q > t => s <= q
    ELSE Beyond
=============================================================================
