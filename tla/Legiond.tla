-------------------------------- MODULE Legiond --------------------------------
(***************************************************************************)
(* The daemon legiond (extra/service/legiond): it runs the fan, CPU and    *)
(* GPU commands that belong to the current power state whenever the power  *)
(* profile or the supply changes and whenever legiond-ctl asks for it.     *)
(*                                                                         *)
(* Two kinds of threads share the globals config, delayed and triggered    *)
(* without a lock: the main thread, which waits in select() for commands   *)
(* and inotify events and re-arms one POSIX timer, and the threads that    *)
(* SIGEV_THREAD starts for timer_handler(), one for each expiry.  The      *)
(* commands they run take seconds.                                         *)
(*                                                                         *)
(* Time is left out: an armed timer may expire at any later moment.        *)
(***************************************************************************)
EXTENDS Integers, Sequences

CONSTANTS Main,          \* the main thread
          Handlers,      \* timer threads that may run at the same time
          Profiles,      \* contents of platform_profile that occur
          Inis,          \* contents of legiond.ini that occur
          Delays,        \* arguments of legiond-ctl fanset; 0 is none
          MaxRequests,   \* bound: uses of legiond-ctl
          MaxChanges,    \* bound: changes of the profile, supply or ini file
          MaxRestarts    \* bound: restarts of the service

ASSUME ThreadsAssumption == Main \notin Handlers
ASSUME DelaysAssumption == Delays \subseteq Int

VARIABLES
  profile, online,       \* the files platform_profile and ADP0/online
  changed,               \* an inotify event is queued
  ini,                   \* the file legiond.ini
  applied,               \* the last setting given to the fan, CPU and GPU
  requests,              \* clients waiting in the queue of the socket
  timer,                 \* "off", or who has armed it
  config, delayed, triggered,   \* the globals of legiond.c
  readable,              \* inotify_fd as select() has reported it
  ret,                   \* the request main() is working on
  pc, acState, powerState,      \* per thread: where it is, what it has read
  sent, changes, restarts       \* counters for the bounds

(* History: what the properties speak about; no action depends on it.      *)
VARIABLES
  pending,               \* a trigger has not been followed by a new reading
  lost,                  \* arming has left the timer off
  overlapped             \* a timer thread was started while another one ran

fileVars == <<profile, online, ini>>
boundVars == <<sent, changes, restarts>>
historyVars == <<pending, lost, overlapped>>
vars == <<fileVars, changed, applied, requests, timer, config, delayed,
          triggered, readable, ret, pc, acState, powerState, boundVars, historyVars>>

Threads == Handlers \cup {Main}

------------------------------------------------------------------------------
(* POWER_STATE: even numbers on the charger, the next odd one on battery.  *)
PowerMode ==
  [quiet |-> 0, balanced |-> 2, custom |-> 4, performance |-> 6, extreme |-> 7]

(* get_powerstate() computes the number of the battery's state by adding   *)
(* one, also where the enumeration has no such state.                      *)
PowerState(p, ac) ==
  IF p \notin DOMAIN PowerMode THEN -1
  ELSE IF ac THEN PowerMode[p] ELSE PowerMode[p] + 1

(* set_fancurve(): the preset of a power state; none outside of 0..7.      *)
FanPreset ==
  [s \in 0..7 |-> <<"quiet-ac", "quiet-battery", "balanced-ac", "balanced-battery",
                    "balanced-performance-ac", "balanced-performance-battery",
                    "performance-ac", "extreme-ac">>[s + 1]]

(* Variant for mutation: the charger's extreme state counts as well.       *)
HasCommandForAll(s) == s \in 0..7

(* set_cpu(), set_gpu(): states for which legiond.ini can hold a command;  *)
(* parseconf() never fills the entries of P_AC_E.                          *)
HasCommand(s) == s \in 0..6

(* init_config(): no control is enabled, and gpu_control is the empty      *)
(* string, which is not "false".                                           *)
Cleared == [fan |-> FALSE, cpu |-> FALSE, gpu |-> ""]

NoRequest == [cmd |-> "-", delay |-> 0]
Request == [cmd : {"A"}, delay : Delays] \cup [cmd : {"B", "R"}, delay : {0}]

(* The main thread waits in select(), no timer thread exists.              *)
Idle == [t \in Threads |-> IF t = Main THEN "select" ELSE "none"]

(* main() up to the loop: parseconf(), and the timer of the first run.     *)
Start ==
  /\ config' = ini
  /\ timer' = "startup"
  /\ delayed' = 0
  /\ triggered' = FALSE
  /\ changed' = FALSE
  /\ requests' = <<>>
  /\ readable' = FALSE
  /\ ret' = NoRequest
  /\ pc' = Idle
  /\ acState' = [t \in Threads |-> TRUE]
  /\ powerState' = [t \in Threads |-> -1]
  /\ pending' = TRUE /\ lost' = FALSE /\ overlapped' = FALSE

Init ==
  /\ profile \in Profiles /\ online \in BOOLEAN
  /\ ini \in Inis
  /\ applied = [fan |-> "none", cpu |-> -1, gpu |-> -1]
  /\ config = ini /\ timer = "startup"
  /\ delayed = 0 /\ triggered = FALSE
  /\ changed = FALSE /\ requests = <<>> /\ readable = FALSE
  /\ ret = NoRequest
  /\ pc = Idle
  /\ acState = [t \in Threads |-> TRUE]
  /\ powerState = [t \in Threads |-> -1]
  /\ sent = 0 /\ changes = 0 /\ restarts = 0
  /\ pending = TRUE /\ lost = FALSE /\ overlapped = FALSE

------------------------------------------------------------------------------
(* The environment: users, the kernel, systemd.                            *)

(* legiond-ctl fanset [delay] | cpuset | reload                            *)
Send(r) ==
  /\ sent < MaxRequests
  /\ requests' = Append(requests, r)
  /\ sent' = sent + 1
  /\ UNCHANGED <<fileVars, changed, applied, timer, config, delayed, triggered, readable,
                 ret, pc, acState, powerState, changes, restarts, historyVars>>

(* The power profile or the supply changes, and inotify reports it.        *)
Change(p, ac) ==
  /\ changes < MaxChanges
  /\ <<p, ac>> # <<profile, online>>
  /\ profile' = p /\ online' = ac
  /\ changed' = TRUE
  /\ changes' = changes + 1
  /\ UNCHANGED <<ini, applied, requests, timer, config, delayed, triggered, readable,
                 ret, pc, acState, powerState, sent, restarts, historyVars>>

(* The user edits legiond.ini.                                             *)
Edit(i) ==
  /\ changes < MaxChanges
  /\ i # ini
  /\ ini' = i
  /\ changes' = changes + 1
  /\ UNCHANGED <<profile, online, changed, applied, requests, timer, config, delayed,
                 triggered, readable, ret, pc, acState, powerState, sent, restarts,
                 historyVars>>

(* SIGTERM and a new start: waiting clients and events are lost.           *)
Restart ==
  /\ restarts < MaxRestarts
  /\ restarts' = restarts + 1
  /\ Start
  /\ UNCHANGED <<fileVars, applied, sent, changes>>

------------------------------------------------------------------------------
(* parseconf(), get_powerstate() and set_all(), run by any thread.         *)

Goto(t, label) == pc' = [pc EXCEPT ![t] = label]

(* The locals of get_powerstate() and set_all() are gone.                  *)
Forget(t) ==
  /\ acState' = [acState EXCEPT ![t] = TRUE]
  /\ powerState' = [powerState EXCEPT ![t] = -1]

(* init_config(config)                                                     *)
ClearConfig(t) ==
  /\ pc[t] = "parse"
  /\ config' = Cleared
  /\ Goto(t, "fill")
  /\ UNCHANGED <<fileVars, changed, applied, requests, timer, delayed, triggered,
                 readable, ret, acState, powerState, boundVars, historyVars>>

(* ini_parse(config_path, handler, config)                                 *)
FillConfig(t) ==
  /\ pc[t] = "fill"
  /\ config' = ini
  /\ Goto(t, "ac")
  /\ UNCHANGED <<fileVars, changed, applied, requests, timer, delayed, triggered,
                 readable, ret, acState, powerState, boundVars, historyVars>>

(* get_powerstate(): first the supply ...                                  *)
ReadAc(t) ==
  /\ pc[t] = "ac"
  /\ acState' = [acState EXCEPT ![t] = online]
  /\ pending' = (pending /\ t = Main)
  /\ Goto(t, "profile")
  /\ UNCHANGED <<fileVars, changed, applied, requests, timer, config, delayed,
                 triggered, readable, ret, powerState, boundVars, lost, overlapped>>

(* ... then the profile.                                                   *)
ReadProfile(t) ==
  /\ pc[t] = "profile"
  /\ powerState' = [powerState EXCEPT ![t] = PowerState(profile, acState[t])]
  /\ Goto(t, IF t = Main /\ ret.cmd = "B" THEN "cpu" ELSE "fan")
  /\ UNCHANGED <<fileVars, changed, applied, requests, timer, config, delayed,
                 triggered, readable, ret, acState, boundVars, historyVars>>

(* set_fancurve(): legion_cli fancurve-write-preset-to-hw <preset>         *)
SetFan(t) ==
  /\ pc[t] = "fan"
  /\ applied' = IF config.fan /\ powerState[t] \in DOMAIN FanPreset
                  THEN [applied EXCEPT !.fan = FanPreset[powerState[t]]] ELSE applied
  /\ Goto(t, "cpu")
  /\ UNCHANGED <<fileVars, changed, requests, timer, config, delayed, triggered,
                 readable, ret, acState, powerState, boundVars, historyVars>>

(* set_cpu(): the command of the power state.                              *)
SetCpu(t) ==
  /\ pc[t] = "cpu"
  /\ applied' = IF config.cpu /\ HasCommand(powerState[t])
                  THEN [applied EXCEPT !.cpu = powerState[t]] ELSE applied
  /\ Goto(t, IF t = Main /\ ret.cmd = "B" THEN "inotify" ELSE "gpu")
  /\ UNCHANGED <<fileVars, changed, requests, timer, config, delayed, triggered,
                 readable, ret, acState, powerState, boundVars, historyVars>>

(* set_gpu(): unless gpu_control is "false", a tool and the limit of the   *)
(* power state.  A gpu_control that names no tool leaves the tool's name   *)
(* uninitialized: -2 stands for whatever is run then.                      *)
SetGpu(t) ==
  /\ pc[t] = "gpu"
  /\ \/ /\ config.gpu = "false" \/ powerState[t] \notin DOMAIN FanPreset
        /\ UNCHANGED applied
     \/ /\ config.gpu = "" /\ powerState[t] \in DOMAIN FanPreset
        /\ applied' \in {applied, [applied EXCEPT !.gpu = -2]}
     \/ /\ config.gpu \notin {"", "false"} /\ powerState[t] \in DOMAIN FanPreset
        /\ applied' = IF HasCommand(powerState[t])
                        THEN [applied EXCEPT !.gpu = powerState[t]] ELSE applied
  /\ Goto(t, IF t = Main THEN "inotify" ELSE "reset")
  /\ UNCHANGED <<fileVars, changed, requests, timer, config, delayed, triggered,
                 readable, ret, acState, powerState, boundVars, historyVars>>

------------------------------------------------------------------------------
(* timer_handler()                                                         *)

(* The timer expires and a thread is started.                              *)
Expire(h) ==
  /\ timer # "off"
  /\ pc[h] = "none"
  /\ timer' = "off"
  /\ Goto(h, "parse")
  /\ overlapped' = \E g \in Handlers : pc[g] # "none"
  /\ UNCHANGED <<fileVars, changed, applied, requests, config, delayed, triggered,
                 readable, ret, acState, powerState, boundVars, pending, lost>>

(* if (delayed) delayed = 0;                                               *)
ResetDelayed(h) ==
  /\ pc[h] = "reset"
  /\ delayed' = 0
  /\ Goto(h, "trigger")
  /\ UNCHANGED <<fileVars, changed, applied, requests, timer, config, triggered, readable,
                 ret, acState, powerState, boundVars, historyVars>>

(* triggered = true, and the thread ends.                                  *)
SetTriggered(h) ==
  /\ pc[h] = "trigger"
  /\ triggered' = TRUE
  /\ pc' = [pc EXCEPT ![h] = "none"]
  /\ Forget(h)
  /\ UNCHANGED <<fileVars, changed, applied, requests, timer, config, delayed, readable,
                 ret, boundVars, historyVars>>

------------------------------------------------------------------------------
(* The loop of main()                                                      *)

(* Variant for mutation: select() does not watch inotify_fd, so that       *)
(* events are seen only when a client wakes the main thread up.            *)
SelectSocketOnly ==
  /\ pc[Main] = "select"
  /\ requests # <<>>
  /\ readable' = changed
  /\ Goto(Main, "command")
  /\ ret' = Head(requests)
  /\ requests' = Tail(requests)
  /\ UNCHANGED <<fileVars, changed, applied, timer, config, delayed, triggered, acState,
                 powerState, boundVars, historyVars>>

(* select(), and accept() and recv() when a client is waiting.             *)
Select ==
  /\ pc[Main] = "select"
  /\ requests # <<>> \/ changed
  /\ readable' = changed
  /\ IF requests = <<>>
       THEN /\ Goto(Main, "inotify")
            /\ UNCHANGED <<requests, ret>>
       ELSE /\ Goto(Main, "command")
            /\ ret' = Head(requests)
            /\ requests' = Tail(requests)
  /\ UNCHANGED <<fileVars, changed, applied, timer, config, delayed, triggered, acState,
                 powerState, boundVars, historyVars>>

(* set_timer(): a positive delay arms the timer, 0 disarms it, and         *)
(* timer_settime() refuses a negative one.                                 *)
SetTimer(delay, who) ==
  /\ timer' = CASE delay > 0 -> who [] delay = 0 -> "off" [] delay < 0 -> timer
  /\ lost' = (timer' = "off")

(* Variant for mutation: nothing to do when a run is taken to be going on. *)
FansetWhileUntriggered ==
  /\ pc[Main] = "command" /\ ret.cmd = "A"
  /\ triggered' = FALSE
  /\ pending' = TRUE
  /\ Goto(Main, IF triggered THEN "delayed?" ELSE "inotify")
  /\ UNCHANGED <<fileVars, changed, applied, requests, timer, config, delayed, readable,
                 ret, acState, powerState, boundVars, lost, overlapped>>

(* 'A': a fan curve is to be set.                                          *)
Fanset ==
  /\ pc[Main] = "command" /\ ret.cmd = "A"
  /\ triggered' = FALSE
  /\ pending' = TRUE
  /\ Goto(Main, "delayed?")
  /\ UNCHANGED <<fileVars, changed, applied, requests, timer, config, delayed, readable,
                 ret, acState, powerState, boundVars, lost, overlapped>>

(* if (delayed) ... else if (ret[1] == '0') ... else ...                   *)
CheckDelayed ==
  /\ pc[Main] = "delayed?"
  /\ IF delayed # 0
       THEN Goto(Main, "extend") /\ UNCHANGED <<delayed, timer, lost>>
       ELSE /\ Goto(Main, "inotify")
            /\ IF ret.delay = 0
                 THEN SetTimer(1, "fanset") /\ UNCHANGED delayed
                 ELSE SetTimer(ret.delay, "user") /\ delayed' = ret.delay
  /\ UNCHANGED <<fileVars, changed, applied, requests, config, triggered, readable, ret,
                 acState, powerState, boundVars, pending, overlapped>>

(* set_timer(&its, delayed, 0, timerid) reads delayed once more.           *)
ExtendDelay ==
  /\ pc[Main] = "extend"
  /\ SetTimer(delayed, "user")
  /\ Goto(Main, "inotify")
  /\ UNCHANGED <<fileVars, changed, applied, requests, config, delayed, triggered, readable,
                 ret, acState, powerState, boundVars, pending, overlapped>>

(* 'B': the CPU command again, once everything has been set.               *)
Cpuset ==
  /\ pc[Main] = "command" /\ ret.cmd = "B"
  /\ Goto(Main, IF triggered THEN "ac" ELSE "inotify")
  /\ UNCHANGED <<fileVars, changed, applied, requests, timer, config, delayed, triggered,
                 readable, ret, acState, powerState, boundVars, historyVars>>

(* 'R': everything again with a new configuration, by the main thread.     *)
Reload ==
  /\ pc[Main] = "command" /\ ret.cmd = "R"
  /\ Goto(Main, "parse")
  /\ UNCHANGED <<fileVars, changed, applied, requests, timer, config, delayed, triggered,
                 readable, ret, acState, powerState, boundVars, historyVars>>

(* Variant for mutation: the events are read but the timer is left alone.  *)
InotifyWithoutTimer ==
  /\ pc[Main] = "inotify"
  /\ changed' = (changed /\ ~readable)
  /\ pending' = (pending \/ readable)
  /\ Goto(Main, "select")
  /\ readable' = FALSE
  /\ ret' = NoRequest
  /\ Forget(Main)
  /\ UNCHANGED <<fileVars, applied, requests, timer, config, delayed, triggered, boundVars,
                 lost, overlapped>>

(* Variant for mutation: an event that came after select() is dropped.     *)
InotifyDropsEvents ==
  /\ pc[Main] = "inotify"
  /\ IF readable THEN SetTimer(3, "power") /\ pending' = TRUE
                 ELSE UNCHANGED <<timer, lost, pending>>
  /\ changed' = FALSE
  /\ Goto(Main, "select")
  /\ readable' = FALSE
  /\ ret' = NoRequest
  /\ Forget(Main)
  /\ UNCHANGED <<fileVars, applied, requests, config, delayed, triggered, boundVars,
                 overlapped>>

(* The inotify events select() has reported: three seconds from now.       *)
Inotify ==
  /\ pc[Main] = "inotify"
  /\ IF readable
       THEN /\ SetTimer(3, "power")
            /\ changed' = FALSE
            /\ pending' = TRUE
       ELSE UNCHANGED <<timer, lost, changed, pending>>
  /\ Goto(Main, "select")
  /\ readable' = FALSE
  /\ ret' = NoRequest
  /\ Forget(Main)
  /\ UNCHANGED <<fileVars, applied, requests, config, delayed, triggered, boundVars, overlapped>>

Work(t) ==
  \/ ClearConfig(t) \/ FillConfig(t) \/ ReadAc(t) \/ ReadProfile(t)
  \/ SetFan(t) \/ SetCpu(t) \/ SetGpu(t)

MainStep ==
  \/ Select \/ Fanset \/ CheckDelayed \/ ExtendDelay \/ Cpuset \/ Reload \/ Inotify
  \/ Work(Main)

HandlerStep(h) == Work(h) \/ ResetDelayed(h) \/ SetTriggered(h)

Next ==
  \/ \E r \in Request : Send(r)
  \/ \E p \in Profiles, ac \in BOOLEAN : Change(p, ac)
  \/ \E i \in Inis : Edit(i)
  \/ Restart
  \/ MainStep
  \/ \E h \in Handlers : Expire(h) \/ HandlerStep(h)

Spec == Init /\ [][Next]_vars

(* Threads that can run do run, and an armed timer expires.                *)
FairSpec ==
  /\ Spec
  /\ WF_vars(MainStep)
  /\ WF_vars(\E h \in Handlers : Expire(h))
  /\ \A h \in Handlers : WF_vars(HandlerStep(h))

------------------------------------------------------------------------------
Label == {"none", "parse", "fill", "ac", "profile", "fan", "cpu", "gpu", "reset",
          "trigger", "select", "command", "delayed?", "extend", "inotify"}

Setting == [fan : {"none"} \cup {FanPreset[s] : s \in DOMAIN FanPreset},
            cpu : -2..6, gpu : -2..6]

(* The variables have their types; power states beyond the presets do not  *)
(* become settings (set_fancurve(), set_cpu(), set_gpu()).                 *)
TypeOK ==
  /\ profile \in Profiles /\ online \in BOOLEAN /\ ini \in Inis
  /\ changed \in BOOLEAN
  /\ applied \in Setting
  /\ requests \in Seq(Request)
  /\ timer \in {"off", "startup", "fanset", "user", "power"}
  /\ config \in Inis \cup {Cleared}
  /\ delayed \in Delays \cup {0}
  /\ triggered \in BOOLEAN /\ readable \in BOOLEAN
  /\ ret \in Request \cup {NoRequest}
  /\ pc \in [Threads -> Label]
  /\ acState \in [Threads -> BOOLEAN]
  /\ powerState \in [Threads -> -1..8]
  /\ pending \in BOOLEAN /\ lost \in BOOLEAN /\ overlapped \in BOOLEAN

(* A timer thread that has not yet read the power state.                   *)
AboutToRead(t) == pc[t] \in {"parse", "fill", "ac"}

(* As long as a trigger (a start, a fanset command, a reported change) has *)
(* not been followed by a new reading of the power state, something is     *)
(* under way that will do it: the daemon forgets no trigger.  The case in  *)
(* which set_timer() itself leaves the timer off is LastTriggerServed's.   *)
NothingForgotten ==
  pending /\ ~lost => \/ timer # "off"
                      \/ \E h \in Handlers : AboutToRead(h)
                      \/ pc[Main] \in {"delayed?", "extend"}

Quiet ==
  /\ timer = "off" /\ ~changed /\ requests = <<>>
  /\ pc = Idle

(* The enabled controls have the settings of the current power state.      *)
InEffect ==
  LET s == PowerState(profile, online) IN
  /\ ini.fan /\ s \in DOMAIN FanPreset => applied.fan = FanPreset[s]
  /\ ini.cpu /\ HasCommand(s) => applied.cpu = s
  /\ ini.gpu = "nvidia" /\ HasCommand(s) => applied.gpu = s

(* When the daemon has come to rest the fan, the CPU and the GPU have the  *)
(* settings of the current power state, although changes were reported     *)
(* late, the state is read from two files, other commands re-armed or      *)
(* reloaded meanwhile, and config is cleared under its readers.  Excepted  *)
(* are triggers that were lost, and timer threads that overlapped: the     *)
(* older one may apply its older state last.                               *)
Settled == Quiet /\ ~lost /\ ~overlapped /\ config = ini => InEffect

(* Every trigger is followed by a reading of the power state, unless       *)
(* set_timer() left the timer off.                                         *)
TriggersServed == (pending /\ ~lost) ~> (~pending \/ lost)

(* The daemon converges: once the profile, the supply and legiond.ini no   *)
(* longer change, their settings come into effect and stay, whatever was   *)
(* reported while the main thread was at work, is half read or half        *)
(* applied.  A report that stays in the queue of inotify is no trigger and *)
(* keeps the daemon from being Quiet, so neither TriggersServed nor        *)
(* Settled notices it.  The exceptions are those of Settled.               *)
ChangesTakeEffect == <>[](~lost /\ ~overlapped /\ config = ini => InEffect)

(* README.org:8: "We don't have to trigger it every time, just need to     *)
(* make sure it gets triggered last time": TriggersServed without the      *)
(* exception.                                                              *)
LastTriggerServed == pending ~> ~pending
==============================================================================
