-------------------------------- MODULE Drv ---------------------------------
(***************************************************************************)
(* Loading of drivers (drv.c, include/drv.h).  run_initcalls registers the *)
(* drivers in the order the linker left them in, which is any.  driver_init *)
(* goes round the list: a driver that is only loaded on demand, or that    *)
(* depends on one not loaded yet, is moved to the end; the others are      *)
(* probed.  What is left in the end is given up.  A step is one round of   *)
(* one of the two loops.                                                   *)
(***************************************************************************)
EXTENDS Integers, Sequences, SequencesExt, FiniteSets

CONSTANTS
    Drivers,
    Deps,           \* driver |-> the sequence of drivers it names in .deps
    OnDemand,       \* drivers with .on_demand = 1
    MayFail,        \* drivers whose probe may fail
    Devices,        \* driver |-> the devices its probe registers
    Ring            \* the head of a list

DrvAssumption ==
    /\ Ring \notin Drivers /\ OnDemand \subseteq Drivers /\ MayFail \subseteq Drivers
    /\ \A d \in Drivers : Range(Deps[d]) \subseteq Drivers

VARIABLES
    g_drivers, g_drivers_initialized, g_drivers_failed,
    on_demand,          \* drivers whose on_demand is still set
    devices,            \* s_devfs->devices, the newest first
    pos, temp,          \* the loop's cursor and the one after it
    phase               \* "load", "rest", "done"; "wild" after a NULL pointer

vars == <<g_drivers, g_drivers_initialized, g_drivers_failed, on_demand, devices, pos, temp, phase>>

\* node->next in a list.
After(list, d) ==
    LET k == CHOOSE i \in DOMAIN list : list[i] = d
    IN  IF k = Len(list) THEN Ring ELSE list[k + 1]

First(list) == IF list = <<>> THEN Ring ELSE list[1]
Second(list) == IF Len(list) < 2 THEN Ring ELSE list[2]

\* register_driver appends to g_drivers; terminal_register_dev comes first.
Init ==
    /\ g_drivers \in SetToSeqs(Drivers)
    /\ g_drivers_initialized = <<>> /\ g_drivers_failed = <<>>
    /\ on_demand = OnDemand /\ devices = <<"tty">>
    /\ pos = First(g_drivers) /\ temp = Second(g_drivers)
    /\ phase = "load"

\* v_ilist_for_each_safe: on to the node seen before this one was moved.
Advance(list) ==
    /\ pos' = temp
    /\ temp' = IF temp = Ring THEN First(list) ELSE After(list, temp)

Missing(d) == {k \in DOMAIN Deps[d] : Deps[d][k] \notin Range(g_drivers_initialized)}
FirstMissing(d) == Deps[d][CHOOSE k \in Missing(d) : \A j \in Missing(d) : k <= j]

\* Mutant: a driver put off goes to the front of the list.
Postpone_Front(rest) ==
    /\ g_drivers' = <<pos>> \o rest
    /\ UNCHANGED <<g_drivers_initialized, g_drivers_failed, devices, phase>>

Postpone(rest) ==
    /\ g_drivers' = Append(rest, pos)
    /\ UNCHANGED <<g_drivers_initialized, g_drivers_failed, devices, phase>>

\* devfs_register_char, devfs_register_block: for each device of the driver.
Probe(rest) ==
    /\ g_drivers' = rest
    /\ \/ /\ g_drivers_initialized' = Append(g_drivers_initialized, pos)
          /\ devices' = Reverse(Devices[pos]) \o devices
          /\ UNCHANGED g_drivers_failed
       \/ /\ pos \in MayFail
          /\ g_drivers_failed' = Append(g_drivers_failed, pos)
          /\ UNCHANGED <<g_drivers_initialized, devices>>
    /\ UNCHANGED <<on_demand, phase>>

\* deps_loaded asks for the missing driver by clearing its on_demand, and does
\* not expect it to be in neither list.
Load ==
    LET rest == SelectSeq(g_drivers, LAMBDA d : d # pos) IN
    /\ phase = "load" /\ pos # Ring
    /\ IF pos \in on_demand THEN Postpone(rest) /\ UNCHANGED on_demand
       ELSE IF Missing(pos) = {} THEN Probe(rest)
       ELSE IF FirstMissing(pos) \in Range(rest)
       THEN Postpone(rest) /\ on_demand' = on_demand \ {FirstMissing(pos)}
       ELSE /\ phase' = "wild"
            /\ UNCHANGED <<g_drivers, g_drivers_initialized, g_drivers_failed, on_demand, devices>>
    /\ Advance(g_drivers')

EndLoad ==
    /\ phase = "load" /\ pos = Ring
    /\ phase' = "rest" /\ pos' = First(g_drivers) /\ temp' = Second(g_drivers)
    /\ UNCHANGED <<g_drivers, g_drivers_initialized, g_drivers_failed, on_demand, devices>>

\* Drivers nobody asked for are dropped; the others have failed.
Rest ==
    LET rest == SelectSeq(g_drivers, LAMBDA d : d # pos) IN
    /\ phase = "rest" /\ pos # Ring
    /\ g_drivers' = rest
    /\ g_drivers_failed' = (IF pos \in on_demand THEN g_drivers_failed ELSE Append(g_drivers_failed, pos))
    /\ Advance(rest)
    /\ UNCHANGED <<g_drivers_initialized, on_demand, devices, phase>>

EndRest ==
    /\ phase = "rest" /\ pos = Ring
    /\ phase' = "done"
    /\ UNCHANGED <<g_drivers, g_drivers_initialized, g_drivers_failed, on_demand, devices, pos, temp>>

driver_init == Load \/ EndLoad \/ Rest \/ EndRest

Next == driver_init

Spec == Init /\ [][Next]_vars
FairSpec == Spec /\ WF_vars(driver_init)

-----------------------------------------------------------------------------

\* Whom somebody who is loaded, or may be, needs.
RECURSIVE Needed(_)
Needed(ds) ==
    LET more == ds \cup UNION {Range(Deps[d]) : d \in ds}
    IN  IF more = ds THEN ds ELSE Needed(more)

\* driver_init has come to an end: every driver that is needed has been
\* loaded, or its own probe has failed; each after those it depends on; and
\* the devices are those of the drivers loaded.
Settled ==
    /\ phase = "done"
    /\ Range(g_drivers_initialized) \cup Range(g_drivers_failed) = Needed(Drivers \ OnDemand)
    /\ Range(g_drivers_failed) \subseteq MayFail
    /\ \A i \in DOMAIN g_drivers_initialized : LET d == g_drivers_initialized[i] IN
          Range(Deps[d]) \subseteq {g_drivers_initialized[j] : j \in 1..i - 1}
    /\ Range(devices) = {"tty"} \cup UNION {Range(Devices[d]) : d \in Range(g_drivers_initialized)}
=============================================================================
