------------------------------- MODULE PowerMode -------------------------------
(***************************************************************************)
(* The power mode of legion-laptop.c: the sysfs file powermode, the        *)
(* kernel's platform profile, the WMI event of the Fn+Q key, the           *)
(* remembered defaults of the fan curve, and the toggling at the end of    *)
(* legion_remove().                                                        *)
(*                                                                         *)
(* Modes have two numberings.  The driver speaks WMI; models of method     *)
(* "EC" keep the mode in a register of the embedded controller under       *)
(* another number, models of method "WMI" hand it to the firmware, which   *)
(* changes the mode some time after the call, or after the event of a key. *)
(* The driver waits for half a second then, which is taken to be enough.   *)
(*                                                                         *)
(* fancurve_mutex is held by the files powermode and                       *)
(* fancurve_defaults_powermode, but not by the platform profile, the WMI   *)
(* event and toggle_powermode().                                           *)
(***************************************************************************)
EXTENDS Integers, Sequences, FiniteSets

CONSTANTS Threads,       \* processes using the driver's files
          Event, Remover,\* the threads of WMI events and of legion_remove()
          NoThread,
          Values,        \* numbers users write to powermode
          ProfileModes,  \* modes for which the kernel knows a profile
          MaxCalls,      \* bound: calls of the files
          MaxKeys,       \* bound: uses of Fn+Q
          MaxFailures    \* bound: failing ACPI calls

ASSUME ThreadsAssumption ==
  /\ Event \notin Threads /\ Remover \notin Threads /\ Event # Remover
  /\ NoThread \notin Threads
ASSUME BoundsAssumption == MaxCalls \in Nat /\ MaxKeys \in Nat /\ MaxFailures \in Nat

VARIABLES
  method,                \* access_method_powermode
  hw,                    \* the mode of the hardware, in its own numbering
  due,                   \* mode changes the firmware has still to do
  table,                 \* 0, or the mode whose default fan curve was loaded
  memory,                \* fancurve_defaults_powermode
  holder,                \* the thread inside fancurve_mutex
  pc, call, read,        \* per thread: place, request, mode it has read
  registered, events,    \* the WMI driver, and its events not yet handled
  told,                  \* a notification that has not been followed up
  heard,                 \* the profile as last read after a notification
  calls, keys, failures  \* counters for the bounds

(* History: what the properties speak about; no action depends on it.      *)
VARIABLES
  early,                 \* heard may be old: notified or read too early
  moved,                 \* per thread: the mode has changed since read
  asked,                 \* modes there were or others asked for since
                         \* toggle_powermode() has read the old one
  away,                  \* toggle_powermode() has asked for another mode
  misread                \* it has failed to read the old one

boundVars == <<calls, keys, failures>>
toggleVars == <<asked, away, misread>>
listenVars == <<told, heard, early>>
vars == <<method, hw, due, table, memory, holder, pc, call, read, registered, events,
          listenVars, boundVars, moved, toggleVars>>

All == Threads \cup {Event, Remover}

------------------------------------------------------------------------------
(* enum legion_wmi_powermode: low power, balanced, performance, custom,    *)
(* max power.                                                              *)
Balanced == 2
Custom == 255
WmiModes == {1, Balanced, 3, Custom, 224}

(* Variant for mutation: quiet and performance are mixed up on writing.    *)
WmiToEcSwapped(m) ==
  CASE m = 1 -> 1 [] m = 2 -> 0 [] m = 3 -> 2 [] m = 255 -> 3 [] m = 224 -> 7
    [] OTHER -> 0

(* ec_to_wmi_powermode() and wmi_to_ec_powermode(): unknown is balanced.   *)
EcToWmi(m) ==
  CASE m = 2 -> 1 [] m = 0 -> 2 [] m = 1 -> 3 [] m = 3 -> 255 [] m = 7 -> 224
    [] OTHER -> Balanced

WmiToEc(m) ==
  CASE m = 1 -> 2 [] m = 2 -> 0 [] m = 3 -> 1 [] m = 255 -> 3 [] m = 224 -> 7
    [] OTHER -> 0

(* A mode as the hardware numbers it.                                      *)
Native(m) == IF method = "EC" THEN WmiToEc(m) ELSE m

NativeModes == {Native(m) : m \in WmiModes}

(* read_powermode() when the call succeeds.                                *)
Mode(m) == IF method = "EC" THEN EcToWmi(m) ELSE m

(* legion_platform_profile_get(): a profile, or -EINVAL.                   *)
Profile(m) == IF m \in ProfileModes THEN m ELSE -1

(* legion_platform_profile_probe(): custom and max power on WMI only.      *)
Choices == IF method = "WMI" THEN ProfileModes ELSE ProfileModes \cap {1, Balanced, 3}

(* The parameter of wmi_write_powermode() is an u8.                        *)
Byte(v) == v % 256

(* The mode that writing a number asks for, as the hardware numbers it.    *)
Meant(v) == IF method = "EC" THEN WmiToEc(v) ELSE Byte(v)

NoCall == [op |-> "none", val |-> 0]

Init ==
  /\ method \in {"EC", "WMI"}
  /\ hw \in NativeModes
  /\ due = <<>> /\ table = 0 /\ memory = 0
  /\ holder = NoThread
  /\ pc = [t \in All |-> "idle"]
  /\ call = [t \in All |-> NoCall]
  /\ read = [t \in All |-> 0]
  /\ registered = TRUE /\ events = 0
  /\ told = FALSE /\ heard = Profile(Mode(hw)) /\ early = FALSE
  /\ moved = [t \in All |-> FALSE]
  /\ asked = {} /\ away = FALSE /\ misread = FALSE
  /\ calls = 0 /\ keys = 0 /\ failures = 0

Goto(t, label) == pc' = [pc EXCEPT ![t] = label] /\ UNCHANGED call

(* A handler returns, and its locals are gone.                             *)
Return(t) ==
  /\ pc' = [pc EXCEPT ![t] = "idle"]
  /\ call' = [call EXCEPT ![t] = NoCall]

------------------------------------------------------------------------------
(* The firmware                                                            *)

(* A change of the mode replaces the fan curve.                            *)
Select(m) ==
  /\ hw' = m
  /\ table' = IF m = hw THEN table ELSE 0
  /\ moved' = [t \in All |-> moved[t] \/ (pc[t] = "forget" /\ m # hw)]

KeepMode == UNCHANGED <<hw, table, moved>>

(* Somebody else than toggle_powermode() asks for a mode.                  *)
Ask(m) ==
  /\ asked' = IF pc[Remover] \in {"away", "back", "done"} THEN asked \cup {m} ELSE asked
  /\ UNCHANGED <<away, misread>>

(* The next change that was asked for is done.                             *)
Apply ==
  /\ due # <<>>
  /\ Select(Head(due).mode)
  /\ due' = Tail(due)
  /\ UNCHANGED <<method, memory, holder, pc, call, read, registered, events, listenVars,
                 boundVars, toggleVars>>

(* Fn+Q: first the WMI event, then the change.                             *)
Key(m) ==
  /\ keys < MaxKeys
  /\ keys' = keys + 1
  /\ due' = Append(due, [mode |-> Native(m), by |-> Event])
  /\ events' = IF registered THEN events + 1 ELSE events
  /\ Ask(Native(m))
  /\ UNCHANGED <<method, hw, table, memory, holder, pc, call, read, registered, listenVars,
                 calls, failures, moved>>

CanFail == method = "WMI" /\ failures < MaxFailures

Failing ==
  /\ CanFail
  /\ failures' = failures + 1

(* Variant for mutation: the number is not checked.                        *)
WriteUnchecked(t, v) ==
  \/ /\ method = "EC"
     /\ Select(WmiToEc(v))
     /\ UNCHANGED due
  \/ /\ method = "WMI"
     /\ due' = Append(due, [mode |-> Byte(v), by |-> t])
     /\ KeepMode

(* write_powermode(): accepted ...                                         *)
Write(t, v) ==
  \/ /\ method = "EC"
     /\ Select(WmiToEc(v))
     /\ UNCHANGED due
  \/ /\ method = "WMI" /\ Byte(v) \in WmiModes
     /\ due' = Append(due, [mode |-> Byte(v), by |-> t])
     /\ KeepMode

(* ... or refused.                                                         *)
Refuse(v) ==
  /\ method = "WMI"
  /\ \/ Byte(v) \notin WmiModes /\ UNCHANGED failures
     \/ Byte(v) \in WmiModes /\ Failing
  /\ KeepMode
  /\ UNCHANGED due

(* read_powermode(): what all its callers do with an error is to go on     *)
(* with a variable that has not been set.                                  *)
Read(t) ==
  \/ /\ read' = [read EXCEPT ![t] = Mode(hw)]
     /\ UNCHANGED failures
  \/ /\ Failing
     /\ \E v \in Values : read' = [read EXCEPT ![t] = v]

------------------------------------------------------------------------------
(* The driver's files                                                      *)

(* powermode_store, legion_platform_profile_set,                           *)
(* fancurve_defaults_powermode_store and _show.                            *)
Begin(t, op, v) ==
  /\ pc[t] = "idle" /\ calls < MaxCalls
  /\ calls' = calls + 1
  /\ CASE op = "store" -> v \in Values
       [] op = "profile" -> v \in Choices
       [] op = "defaults" -> v \in WmiModes \cap Values /\ method = "WMI"
       [] op = "show" -> v = 0
  /\ call' = [call EXCEPT ![t] = [op |-> op, val |-> v]]
  /\ pc' = [pc EXCEPT ![t] = IF op = "profile" THEN "write" ELSE "lock"]
  /\ UNCHANGED <<method, hw, due, table, memory, holder, read, registered, events, listenVars,
                 keys, failures, moved, toggleVars>>

Lock(t) ==
  /\ pc[t] = "lock" /\ holder = NoThread
  /\ holder' = t
  /\ Goto(t, CASE call[t].op = "store" -> "write" [] call[t].op = "defaults" -> "load"
               [] call[t].op = "show" -> "read")
  /\ UNCHANGED <<method, hw, due, table, memory, read, registered, events, listenVars,
                 boundVars, moved, toggleVars>>

(* powermode_store: write_powermode(), then half a second of waiting.      *)
StoreMode(t) ==
  /\ pc[t] = "write" /\ call[t].op = "store"
  /\ holder' = NoThread
  /\ \/ /\ Write(t, call[t].val) /\ UNCHANGED failures
        /\ Goto(t, "sleep")
        /\ Ask(Meant(call[t].val))
     \/ /\ Refuse(call[t].val)
        /\ Return(t)
        /\ UNCHANGED toggleVars
  /\ UNCHANGED <<method, memory, read, registered, events, listenVars, calls, keys>>

(* legion_platform_profile_set: no waiting; the kernel's profile core      *)
(* notifies as soon as the handler has returned.                           *)
SetProfile(t) ==
  /\ pc[t] = "write" /\ call[t].op = "profile"
  /\ Return(t)
  /\ \/ /\ Write(t, call[t].val) /\ UNCHANGED failures
        /\ told' = TRUE
        /\ early' = (early \/ due' # <<>>)
        /\ Ask(Meant(call[t].val))
     \/ /\ Refuse(call[t].val)
        /\ UNCHANGED <<told, early, toggleVars>>
  /\ UNCHANGED <<method, memory, holder, read, registered, events, heard, calls, keys>>

(* Variant for mutation: the mode is remembered although loading failed.   *)
LoadDefaultsAnyway(t) ==
  /\ pc[t] = "load"
  /\ \/ table' = call[t].val /\ UNCHANGED failures
     \/ Failing /\ UNCHANGED table
  /\ Goto(t, "remember")
  /\ UNCHANGED <<method, hw, due, memory, holder, read, registered, events, listenVars,
                 calls, keys, moved, toggleVars>>

(* wmi_write_fancurve_defaults(): the firmware loads the table of a mode.  *)
LoadDefaults(t) ==
  /\ pc[t] = "load"
  /\ \/ /\ table' = call[t].val
        /\ Goto(t, "remember")
        /\ UNCHANGED <<failures, holder>>
     \/ /\ Failing
        /\ holder' = NoThread
        /\ Return(t)
        /\ UNCHANGED table
  /\ UNCHANGED <<method, hw, due, memory, read, registered, events, listenVars, calls,
                 keys, moved, toggleVars>>

Remember(t) ==
  /\ pc[t] = "remember"
  /\ memory' = call[t].val
  /\ holder' = NoThread
  /\ Return(t)
  /\ UNCHANGED <<method, hw, due, table, read, registered, events, listenVars,
                 boundVars, moved, toggleVars>>

(* fancurve_defaults_powermode_show: the mode, read under the mutex ...    *)
ReadForShow(t) ==
  /\ pc[t] = "read"
  /\ Read(t)
  /\ moved' = [moved EXCEPT ![t] = read'[t] # Mode(hw)]
  /\ holder' = NoThread
  /\ Goto(t, "forget")
  /\ UNCHANGED <<method, hw, due, table, memory, registered, events, listenVars, calls,
                 keys, toggleVars>>

(* Variant for mutation: forgets while in the custom mode.                 *)
ForgetInCustom(t) ==
  /\ pc[t] = "forget"
  /\ memory' = IF read[t] = Custom THEN 0 ELSE memory
  /\ Return(t)
  /\ read' = [read EXCEPT ![t] = 0] /\ moved' = [moved EXCEPT ![t] = FALSE]
  /\ UNCHANGED <<method, hw, due, table, holder, registered, events, listenVars,
                 boundVars, toggleVars>>

(* ... and, after it was released, compared with custom.                   *)
Forget(t) ==
  /\ pc[t] = "forget"
  /\ memory' = IF read[t] # Custom THEN 0 ELSE memory
  /\ Return(t)
  /\ read' = [read EXCEPT ![t] = 0] /\ moved' = [moved EXCEPT ![t] = FALSE]
  /\ UNCHANGED <<method, hw, due, table, holder, registered, events, listenVars,
                 boundVars, toggleVars>>

------------------------------------------------------------------------------
(* Notifications                                                           *)

(* legion_wmi_notify() is called.                                          *)
TakeEvent ==
  /\ pc[Event] = "idle" /\ events > 0
  /\ events' = events - 1
  /\ Goto(Event, "sleep")
  /\ UNCHANGED <<method, hw, due, table, memory, holder, read, registered, listenVars,
                 boundVars, moved, toggleVars>>

(* Variant for mutation: notified at once.                                 *)
WaitsForNothing(t) == FALSE

(* The changes a thread waits for: its own, or those of its events.        *)
WaitsFor(t) ==
  Cardinality({i \in DOMAIN due : due[i].by = t}) > (IF t = Event THEN events ELSE 0)

(* msleep(500), then legion_platform_profile_notify().                     *)
Notify(t) ==
  /\ pc[t] = "sleep" /\ ~WaitsFor(t)
  /\ told' = TRUE
  /\ Return(t)
  /\ UNCHANGED <<method, hw, due, table, memory, holder, read, registered, events,
                 heard, early, boundVars, moved, toggleVars>>

(* Who was notified reads the profile: legion_platform_profile_get().      *)
Listen ==
  /\ told
  /\ told' = FALSE
  /\ \/ /\ heard' = Profile(Mode(hw))
        /\ early' = (early /\ due # <<>>)
        /\ UNCHANGED failures
     \/ /\ Failing
        /\ \E v \in Values : heard' = Profile(v)
        /\ early' = TRUE
  /\ UNCHANGED <<method, hw, due, table, memory, holder, pc, call, read, registered, events,
                 calls, keys, moved, toggleVars>>

------------------------------------------------------------------------------
(* toggle_powermode(), called by legion_remove()                           *)

(* legion_wmi_exit() waits for a running notification.                     *)
Remove ==
  /\ pc[Remover] = "idle" /\ registered
  /\ pc[Event] = "idle"
  /\ registered' = FALSE /\ events' = 0
  /\ Goto(Remover, "old")
  /\ UNCHANGED <<method, hw, due, table, memory, holder, read, listenVars, boundVars,
                 moved, toggleVars>>

ReadOld ==
  /\ pc[Remover] = "old"
  /\ Read(Remover)
  /\ asked' = {hw} \cup {due[i].mode : i \in DOMAIN due}
  /\ misread' = (failures' # failures)
  /\ Goto(Remover, "away")
  /\ UNCHANGED <<method, hw, due, table, memory, holder, registered, events, listenVars,
                 calls, keys, moved, away>>

(* next_powermode = old_powermode == 0 ? 1 : 0                             *)
NextMode(old) == IF old = 0 THEN 1 ELSE 0

GoAway ==
  /\ pc[Remover] = "away"
  /\ \/ /\ Write(Remover, NextMode(read[Remover])) /\ UNCHANGED failures
        /\ away' = (hw' # hw \/ (due' # due /\ due'[Len(due')].mode # hw))
     \/ /\ Refuse(NextMode(read[Remover]))
        /\ UNCHANGED away
  /\ Goto(Remover, "back")
  /\ UNCHANGED <<method, memory, holder, read, registered, events, listenVars, calls,
                 keys, asked, misread>>

(* mdelay(1500), then the old mode again.                                  *)
ComeBack ==
  /\ pc[Remover] = "back" /\ ~WaitsFor(Remover)
  /\ \/ Write(Remover, read[Remover]) /\ UNCHANGED failures
     \/ Refuse(read[Remover])
  /\ Goto(Remover, "done")
  /\ UNCHANGED <<method, memory, holder, read, registered, events, listenVars, calls,
                 keys, toggleVars>>

Handler(t) ==
  \/ Lock(t) \/ StoreMode(t) \/ SetProfile(t) \/ LoadDefaults(t) \/ Remember(t)
  \/ ReadForShow(t) \/ Forget(t) \/ Notify(t)

Next ==
  \/ Apply
  \/ \E m \in WmiModes \cap Values : Key(m)
  \/ \E t \in Threads :
       \/ \E op \in {"store", "profile", "defaults", "show"}, v \in Values \cup {0} :
            Begin(t, op, v)
       \/ Handler(t)
  \/ TakeEvent \/ Notify(Event) \/ Listen
  \/ Remove \/ ReadOld \/ GoAway \/ ComeBack

Spec == Init /\ [][Next]_vars

------------------------------------------------------------------------------
(* Properties                                                              *)

(* The variables have their types, and only known modes reach the hardware *)
(* (wmi_write_powermode(), wmi_to_ec_powermode()).                         *)
TypeOK ==
  /\ method \in {"EC", "WMI"}
  /\ hw \in NativeModes
  /\ due \in Seq([mode : NativeModes, by : All])
  /\ table \in {0} \cup WmiModes /\ memory \in {0} \cup WmiModes
  /\ holder \in Threads \cup {NoThread}
  /\ pc \in [All -> {"idle", "lock", "write", "load", "remember", "read", "forget",
                     "sleep", "old", "away", "back", "done"}]
  /\ call \in [All -> [op : {"none", "store", "profile", "defaults", "show"},
                       val : {0} \cup Values \cup ProfileModes]]
  /\ read \in [All -> {0} \cup WmiModes \cup Values]
  /\ heard \in ProfileModes \cup {-1}
  /\ events \in Nat /\ registered \in BOOLEAN /\ told \in BOOLEAN
  /\ calls \in 0..MaxCalls /\ keys \in 0..MaxKeys /\ failures \in 0..MaxFailures
  /\ early \in BOOLEAN /\ moved \in [All -> BOOLEAN] /\ away \in BOOLEAN
  /\ asked \subseteq NativeModes /\ misread \in BOOLEAN

(* Whoever follows the notifications knows the mode: when no change is due *)
(* and no notification outstanding, the profile that was read after the    *)
(* last notification is that of the hardware, although changes come from   *)
(* files, from keys and from the kernel, take effect late, and only the    *)
(* half second before a notification orders them.  Excepted is a profile   *)
(* set through the kernel, which notifies before the change is done, and   *)
(* a reading that failed.                                                  *)
ListenersCurrent ==
  /\ registered /\ ~told /\ ~early
  /\ due = <<>> /\ events = 0
  /\ \A t \in Threads \cup {Event} : pc[t] # "sleep"
  => heard = Profile(Mode(hw))

(* The remembered default is the one loaded: as long as no change of the   *)
(* mode has replaced the fan curve that fancurve_defaults_powermode has    *)
(* loaded last, that file shows no other mode, also when loading a further *)
(* one has failed.                                                         *)
MemoryIsTable ==
  holder = NoThread /\ memory # 0 /\ table # 0 => table = memory

(* "set to 0 if not in CUSTOM mode": showing the defaults forgets them     *)
(* only when the mode is not custom.  Excepted is a mode that has changed  *)
(* since it was read: the comparison is made after the mutex was released. *)
DefaultsKept ==
  [][memory # 0 /\ memory' = 0 =>
       Mode(hw) # Custom \/ \E t \in Threads : pc[t] = "forget" /\ moved[t]]_vars

(* Toggling comes back: whoever writes modes, sets profiles or presses     *)
(* keys while the driver is unloaded, and whichever calls fail, the mode   *)
(* that is left is the one there was, or was due, when legion_remove() had *)
(* read it, or one that somebody else has asked for since, and never the   *)
(* one that toggle_powermode() goes through, in either numbering.  Excepted*)
(* is a mode that it failed to read.                                       *)
ToggleComesBack == pc[Remover] = "done" /\ due = <<>> /\ ~misread => hw \in asked

(* legion-laptop.c:4684: "Shortly toggle powermode to a different mode and *)
(* switch back, e.g. to reset fan curve": another mode has been asked for  *)
(* before the old one is selected again.                                   *)
TogglesAway ==
  [][pc[Remover] = "back" /\ pc'[Remover] = "done" => away]_vars
================================================================================
