---------------------------- MODULE DriverLifecycle ----------------------------
(***************************************************************************)
(* legion_add() and legion_remove() of legion-laptop.c: what the driver    *)
(* sets up for a platform device, how a probe that fails half way takes it *)
(* back, and in which order removal takes it down while users are inside   *)
(* of the driver's files and WMI events arrive.                            *)
(*                                                                         *)
(* There is one global structure _priv for all devices; legion_shared says *)
(* whether it is in use.  The steps of probing and removing are kept as a  *)
(* sequence of what is left to do, one action per step, so that devices,   *)
(* users and events interleave with them.                                  *)
(***************************************************************************)
EXTENDS Integers, Sequences, Functions

CONSTANTS Devices,       \* platform devices the driver matches
          NoDevice,
          MaxProbes,     \* bound: attempts to bind a device
          MaxFailures    \* bound: failing steps of a probe

ASSUME BoundsAssumption == MaxProbes \in Nat /\ MaxFailures \in Nat

VARIABLES
  allowed,               \* the laptop is in the allow-list, or force is set
  devm,                  \* Linux 6.14 and later: the profile is devres managed
  phase, todo,           \* per device: what is going on, the steps left
  platformDevice,        \* _priv.platform_device
  shared,                \* legion_shared is &_priv
  held,                  \* what _priv has acquired or registered
  groupOn,               \* devices that have the sysfs attributes
  profiles,              \* devices that have a platform profile
  inside,                \* per kind of file: a user is inside of a handler
  event,                 \* legion_wmi_notify(): "none", "sleep"
  probes, failures       \* counters for the bounds

(* History: a second device was probed while the driver had one already,   *)
(* and has taken its place in _priv.platform_device.                       *)
VARIABLE overwritten

boundVars == <<probes, failures>>
vars == <<allowed, devm, phase, todo, platformDevice, shared, held, groupOn, profiles,
          inside, event, boundVars, overwritten>>

------------------------------------------------------------------------------
Files == {"sysfs", "hwmon", "debugfs", "profile"}

(* legion_add(), in order.                                                 *)
ProbeSteps ==
  <<"shared", "list", "acpi", "memoryio", "ecram", "ecid", "debugfs", "sysfs", "hwmon",
    "profile", "wmi", "leds">>

(* The labels at its end: what a step that fails has still to take back.   *)
UndoSteps ==
  <<"profile", "hwmon", "sysfs", "debugfs", "ecram", "memoryio", "shared">>

(* Variants for mutation: a label too far down for a step that follows the *)
(* attributes, and a refused device that takes back what is another's.     *)
UndoTooLittle(step) ==
  IF step \in {"hwmon", "profile", "wmi"} THEN SubSeq(UndoSteps, 4, 7) ELSE <<"shared">>
UndoTooMuch(step) == <<"shared">>

Undo(step) ==
  CASE step \in {"shared", "list"}     -> <<>>
    [] step \in {"acpi", "memoryio"}   -> SubSeq(UndoSteps, 7, 7)
    [] step = "ecram"                  -> SubSeq(UndoSteps, 6, 7)
    [] step = "ecid"                   -> SubSeq(UndoSteps, 5, 7)
    [] step = "sysfs"                  -> SubSeq(UndoSteps, 4, 7)
    [] step = "hwmon"                  -> SubSeq(UndoSteps, 3, 7)
    [] step = "profile"                -> SubSeq(UndoSteps, 2, 7)
    [] step = "wmi"                    -> UndoSteps

(* Variants for mutation: the profile before the events that notify its    *)
(* users, the events after the toggle, the controller before the files.    *)
RemoveProfileFirst ==
  <<"leds", "profile", "wmi", "toggle", "hwmon", "sysfs", "debugfs", "ecram", "memoryio",
    "shared">>
RemoveToggleFirst ==
  <<"leds", "toggle", "wmi", "profile", "hwmon", "sysfs", "debugfs", "ecram", "memoryio",
    "shared">>
RemoveEcFirst ==
  <<"leds", "wmi", "profile", "toggle", "hwmon", "ecram", "sysfs", "debugfs", "memoryio",
    "shared">>

(* legion_remove(), in order.                                              *)
RemoveSteps ==
  <<"leds", "wmi", "profile", "toggle", "hwmon", "sysfs", "debugfs", "ecram", "memoryio",
    "shared">>

Init ==
  /\ allowed \in BOOLEAN /\ devm \in BOOLEAN
  /\ phase = [d \in Devices |-> "unbound"]
  /\ todo = [d \in Devices |-> <<>>]
  /\ platformDevice = NoDevice
  /\ shared = FALSE /\ held = {} /\ groupOn = {} /\ profiles = {}
  /\ inside = [f \in Files |-> FALSE]
  /\ event = "none"
  /\ probes = 0 /\ failures = 0
  /\ overwritten = FALSE

------------------------------------------------------------------------------
(* legion_add()                                                            *)

(* Variant for mutation: the device is not noted.                          *)
ProbeForgets(d) ==
  /\ phase[d] = "unbound" /\ probes < MaxProbes
  /\ probes' = probes + 1
  /\ phase' = [phase EXCEPT ![d] = "probe"]
  /\ todo' = [todo EXCEPT ![d] = ProbeSteps]
  /\ UNCHANGED <<allowed, devm, platformDevice, shared, held, groupOn, profiles, inside,
                 event, failures, overwritten>>

(* The platform bus calls it; the structure takes over the device before   *)
(* it is known whether the structure is free.                              *)
Probe(d) ==
  /\ phase[d] = "unbound" /\ probes < MaxProbes
  /\ probes' = probes + 1
  /\ phase' = [phase EXCEPT ![d] = "probe"]
  /\ todo' = [todo EXCEPT ![d] = ProbeSteps]
  /\ platformDevice' = d
  /\ overwritten' = (overwritten \/ \E e \in Devices \ {d} : phase[e] # "unbound")
  /\ UNCHANGED <<allowed, devm, shared, held, groupOn, profiles, inside, event, failures>>

Left(d) == Head(todo[d])
Done(d) == todo' = [todo EXCEPT ![d] = Tail(todo[d])] /\ UNCHANGED phase

(* goto err_...                                                            *)
GiveUp(d) ==
  /\ phase' = [phase EXCEPT ![d] = "fail"]
  /\ todo' = [todo EXCEPT ![d] = Undo(Left(d))]

(* legion_shared_init()                                                    *)
ShareInit(d) ==
  /\ phase[d] = "probe" /\ todo[d] # <<>> /\ Left(d) = "shared"
  /\ IF shared THEN GiveUp(d) /\ UNCHANGED shared
               ELSE Done(d) /\ shared' = TRUE
  /\ UNCHANGED <<allowed, devm, platformDevice, held, groupOn, profiles, inside, event,
                 boundVars, overwritten>>

(* dmi_first_match(optimistic_allowlist), denylist and force               *)
CheckList(d) ==
  /\ phase[d] = "probe" /\ todo[d] # <<>> /\ Left(d) = "list"
  /\ IF allowed THEN Done(d) ELSE GiveUp(d)
  /\ UNCHANGED <<allowed, devm, platformDevice, shared, held, groupOn, profiles, inside,
                 event, boundVars, overwritten>>

(* acpi_init(), and the ID of the embedded controller                      *)
Check(d) ==
  /\ phase[d] = "probe" /\ todo[d] # <<>> /\ Left(d) \in {"acpi", "ecid"}
  /\ Done(d)
  /\ UNCHANGED <<allowed, devm, platformDevice, shared, held, groupOn, profiles, inside,
                 event, boundVars, overwritten>>

(* ecram_memoryio_init() .. legion_wmi_init().  The attributes belong to   *)
(* the device that is in the structure at that moment.                     *)
Acquire(d) ==
  /\ phase[d] = "probe" /\ todo[d] # <<>>
  /\ Left(d) \in {"memoryio", "ecram", "debugfs", "sysfs", "hwmon", "profile", "wmi"}
  /\ held' = held \cup {Left(d)}
  /\ groupOn' = IF Left(d) = "sysfs" THEN groupOn \cup {platformDevice} ELSE groupOn
  /\ profiles' = IF Left(d) = "profile" THEN profiles \cup {platformDevice} ELSE profiles
  /\ Done(d)
  /\ UNCHANGED <<allowed, devm, platformDevice, shared, inside, event, boundVars, overwritten>>

(* One of them fails; debugfs does not matter.                             *)
ProbeFails(d) ==
  /\ phase[d] = "probe" /\ todo[d] # <<>>
  /\ Left(d) \notin {"shared", "list", "debugfs", "leds"}
  /\ failures < MaxFailures
  /\ failures' = failures + 1
  /\ GiveUp(d)
  /\ UNCHANGED <<allowed, devm, platformDevice, shared, held, groupOn, profiles, inside,
                 event, probes, overwritten>>

(* Keyboard light, Y logo and IO ports: errors do not matter.              *)
AddLeds(d) ==
  /\ phase[d] = "probe" /\ todo[d] # <<>> /\ Left(d) = "leds"
  /\ held' \in {held, held \cup {"leds"}}
  /\ phase' = [phase EXCEPT ![d] = "bound"]
  /\ todo' = [todo EXCEPT ![d] = <<>>]
  /\ UNCHANGED <<allowed, devm, platformDevice, shared, groupOn, profiles, inside, event,
                 boundVars, overwritten>>

------------------------------------------------------------------------------
(* legion_remove(), and the way back out of legion_add()                   *)

Remove(d) ==
  /\ phase[d] = "bound"
  /\ phase' = [phase EXCEPT ![d] = "remove"]
  /\ todo' = [todo EXCEPT ![d] = RemoveSteps]
  /\ UNCHANGED <<allowed, devm, platformDevice, shared, held, groupOn, profiles, inside,
                 event, boundVars, overwritten>>

Leaving(d) == phase[d] \in {"fail", "remove"} /\ todo[d] # <<>>

(* A file is removed when no handler of it is running any more, and a WMI  *)
(* driver when no event is being handled.                                  *)
CanRelease(step) ==
  /\ step \in Files => ~inside[step]
  /\ step = "wmi" => event = "none"

Release(d) ==
  /\ Leaving(d)
  /\ Left(d) \in {"leds", "wmi", "hwmon", "debugfs", "ecram", "memoryio"}
  /\ CanRelease(Left(d))
  /\ held' = held \ {Left(d)}
  /\ Done(d)
  /\ UNCHANGED <<allowed, devm, platformDevice, shared, groupOn, profiles, inside, event,
                 boundVars, overwritten>>

(* legion_sysfs_exit(): from the device that is in the structure now.      *)
ReleaseSysfs(d) ==
  /\ Leaving(d) /\ Left(d) = "sysfs"
  /\ platformDevice \in groupOn => CanRelease("sysfs")
  /\ groupOn' = groupOn \ {platformDevice}
  /\ held' = held \ {"sysfs"}
  /\ Done(d)
  /\ UNCHANGED <<allowed, devm, platformDevice, shared, profiles, inside, event, boundVars,
                 overwritten>>

(* legion_platform_profile_exit(): since Linux 6.14 it does nothing.       *)
ReleaseProfile(d) ==
  /\ Leaving(d) /\ Left(d) = "profile"
  /\ IF devm THEN UNCHANGED <<held, profiles>>
             ELSE /\ CanRelease("profile")
                  /\ held' = held \ {"profile"}
                  /\ profiles' = {}
  /\ Done(d)
  /\ UNCHANGED <<allowed, devm, platformDevice, shared, groupOn, inside, event, boundVars,
                 overwritten>>

(* toggle_powermode()                                                      *)
Toggle(d) ==
  /\ Leaving(d) /\ Left(d) = "toggle"
  /\ Done(d)
  /\ UNCHANGED <<allowed, devm, platformDevice, shared, held, groupOn, profiles, inside,
                 event, boundVars, overwritten>>

(* legion_shared_exit()                                                    *)
ShareExit(d) ==
  /\ Leaving(d) /\ Left(d) = "shared"
  /\ shared' = FALSE
  /\ Done(d)
  /\ UNCHANGED <<allowed, devm, platformDevice, held, groupOn, profiles, inside, event,
                 boundVars, overwritten>>

(* Back in the driver core, which releases what devres manages.            *)
Unbind(d) ==
  /\ phase[d] \in {"fail", "remove"} /\ todo[d] = <<>>
  /\ IF devm /\ d \in profiles
       THEN CanRelease("profile") /\ profiles' = profiles \ {d} /\ held' = held \ {"profile"}
       ELSE UNCHANGED <<profiles, held>>
  /\ phase' = [phase EXCEPT ![d] = "unbound"]
  /\ UNCHANGED <<allowed, devm, todo, platformDevice, shared, groupOn, inside, event,
                 boundVars, overwritten>>

------------------------------------------------------------------------------
(* Users and events                                                        *)

Present(f) ==
  CASE f = "sysfs" -> groupOn # {} [] f = "profile" -> profiles # {} [] OTHER -> f \in held

(* A removal that waits for the last user lets nobody in any more.         *)
Closing(f) ==
  \E d \in Devices :
    \/ Leaving(d) /\ Left(d) = f /\ ~(f = "profile" /\ devm)
    \/ f = "profile" /\ devm /\ d \in profiles /\ phase[d] \in {"fail", "remove"} /\ todo[d] = <<>>

(* A handler that reads or writes the embedded controller.                 *)
Enter(f) ==
  /\ Present(f) /\ ~inside[f] /\ ~Closing(f)
  /\ inside' = [inside EXCEPT ![f] = TRUE]
  /\ UNCHANGED <<allowed, devm, phase, todo, platformDevice, shared, held, groupOn, profiles,
                 event, boundVars, overwritten>>

Leave(f) ==
  /\ inside[f]
  /\ inside' = [inside EXCEPT ![f] = FALSE]
  /\ UNCHANGED <<allowed, devm, phase, todo, platformDevice, shared, held, groupOn, profiles,
                 event, boundVars, overwritten>>

(* legion_wmi_notify(), up to the end of its half second                   *)
EventComes ==
  /\ "wmi" \in held /\ event = "none"
  /\ event' = "sleep"
  /\ UNCHANGED <<allowed, devm, phase, todo, platformDevice, shared, held, groupOn, profiles,
                 inside, boundVars, overwritten>>

(* ... and then it notifies the users of priv->ppdev.                      *)
EventNotifies ==
  /\ event = "sleep"
  /\ event' = "none"
  /\ UNCHANGED <<allowed, devm, phase, todo, platformDevice, shared, held, groupOn, profiles,
                 inside, boundVars, overwritten>>

Next ==
  \/ \E d \in Devices :
       \/ Probe(d) \/ ShareInit(d) \/ CheckList(d) \/ Check(d) \/ Acquire(d)
       \/ ProbeFails(d) \/ AddLeds(d)
       \/ Remove(d) \/ Release(d) \/ ReleaseSysfs(d) \/ ReleaseProfile(d) \/ Toggle(d)
       \/ ShareExit(d) \/ Unbind(d)
  \/ \E f \in Files : Enter(f) \/ Leave(f)
  \/ EventComes \/ EventNotifies

Spec == Init /\ [][Next]_vars

------------------------------------------------------------------------------
(* Properties                                                              *)

(* The variables have their types; attributes and profiles belong to       *)
(* devices the driver has noted (legion_add(), legion_sysfs_init()).       *)
TypeOK ==
  /\ allowed \in BOOLEAN /\ devm \in BOOLEAN /\ shared \in BOOLEAN /\ overwritten \in BOOLEAN
  /\ phase \in [Devices -> {"unbound", "probe", "fail", "bound", "remove"}]
  /\ \A d \in Devices : Range(todo[d]) \subseteq Range(ProbeSteps) \cup {"toggle"}
  /\ platformDevice \in Devices \cup {NoDevice}
  /\ held \subseteq Range(ProbeSteps)
  /\ groupOn \subseteq Devices /\ profiles \subseteq Devices
  /\ inside \in [Files -> BOOLEAN] /\ event \in {"none", "sleep"}
  /\ probes \in 0 .. MaxProbes /\ failures \in 0 .. MaxFailures

(* The device uses what is in _priv.                                       *)
Owner(d) ==
  \/ phase[d] = "bound"
  \/ phase[d] = "probe" /\ Left(d) # "shared"
  \/ phase[d] \in {"fail", "remove"} /\ "shared" \in Range(todo[d])

(* legion_shared_init(): the one structure serves one device at a time,    *)
(* whatever is refused, fails and is removed in between.                   *)
SingleOwner == \A d, e \in Devices : Owner(d) /\ Owner(e) => d = e

(* legion_add(), legion_remove(): a driver that has left every device has  *)
(* taken back everything, whichever step failed, and can be probed again.  *)
(* It keeps legion_shared on a laptop that is not in the list (see         *)
(* RefusesSecondOnly), and the attributes of a device that another one has *)
(* overwritten.                                                            *)
NothingLeft ==
  (\A d \in Devices : phase[d] = "unbound") /\ ~overwritten =>
    /\ held = {} /\ groupOn = {} /\ profiles = {}
    /\ allowed => ~shared

(* legion_wmi_notify(): while an event may come or is being handled there  *)
(* is a legion_shared to read (its test for NULL would not help) and, half *)
(* a second later still, a profile whose users can be notified.  (A second *)
(* device probed at the same time gets the profile of the first one, and   *)
(* takes it along when it is refused.)                                     *)
NotifierSafe ==
  "wmi" \in held \/ event = "sleep" => shared /\ (overwritten \/ "profile" \in held)

(* legion_remove(): a user inside of an attribute, a sensor or a debugfs   *)
(* file always finds the controller set up.  Profiles that are devres      *)
(* managed outlive it, and so do the attributes of an overwritten device.  *)
UsersSafe ==
  \A f \in Files :
    inside[f] /\ ~overwritten /\ ~(f = "profile" /\ devm) => "ecram" \in held

(* legion_remove() 7921: "first unregister wmi, so toggling powermode does *)
(* not generate events anymore that even might be delayed"; and toggling   *)
(* needs the controller.                                                   *)
QuietToggle ==
  \A d \in Devices : Leaving(d) /\ Left(d) = "toggle" =>
    "wmi" \notin held /\ event = "none" /\ "ecram" \in held

(* legion_shared_init() initialises the mutex of the fan curve anew, which *)
(* is only right while no handler that could hold it is running.           *)
MutexFresh ==
  [][~shared /\ shared' /\ ~overwritten => \A f \in Files \ {"profile"} : ~inside[f]]_vars

(* legion_shared_init() 3263, "Found multiple platform devices": a device  *)
(* is refused only while the driver has another one.                       *)
RefusesSecondOnly ==
  [][\A d \in Devices :
       phase[d] = "probe" /\ phase'[d] = "fail" /\ Left(d) = "shared" =>
         \E e \in Devices \ {d} : phase[e] # "unbound"]_vars
================================================================================
