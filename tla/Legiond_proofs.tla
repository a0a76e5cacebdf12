----------------------------- MODULE Legiond_proofs -----------------------------
(***************************************************************************)
(* For any number of timer threads, any configurations, profiles and       *)
(* delays, and without bounds on requests, changes and restarts: legiond's *)
(* state keeps its shape, it forgets no trigger that set_timer() has not   *)
(* itself left without a timer, and when it comes to rest the hardware has *)
(* the settings of the current power state.                                *)
(***************************************************************************)
EXTENDS Legiond, TLAPS

USE DEF fileVars, boundVars, historyVars

(* get_powerstate() returns -1 or a number up to 8, one above the last     *)
(* power state.                                                            *)
LEMMA PowerStateRange ==
  ASSUME NEW p, NEW ac \in BOOLEAN
  PROVE  PowerState(p, ac) \in -1..8
<1>1. ASSUME p \in DOMAIN PowerMode
      PROVE  PowerMode[p] \in {0, 2, 4, 6, 7}
  BY <1>1 DEF PowerMode
<1> QED
  BY <1>1 DEF PowerState

(* A command carries a delay that legiond-ctl takes.                       *)
LEMMA RequestDelay ==
  ASSUME NEW r \in Request \cup {NoRequest}
  PROVE  r.delay \in Delays \cup {0}
BY DEF Request, NoRequest

(* Moving a thread keeps pc well formed and moves no other thread.         *)
LEMMA GotoMoves ==
  ASSUME TypeOK, NEW t \in Threads, NEW label \in Label, Goto(t, label)
  PROVE  /\ pc' \in [Threads -> Label]
         /\ pc'[t] = label
         /\ \A u \in Threads \ {t} : pc'[u] = pc[u]
BY DEF TypeOK, Goto

(* Nothing read yet: every thread's locals as they are at the start.       *)
LEMMA InitialLocals ==
  /\ Idle \in [Threads -> Label]
  /\ [t \in Threads |-> TRUE] \in [Threads -> BOOLEAN]
  /\ [t \in Threads |-> -1] \in [Threads -> -1..8]
BY DEF Idle, Label

(* A thread that ends forgets only its own locals.                         *)
LEMMA ForgetLocals ==
  ASSUME TypeOK, NEW t \in Threads, Forget(t)
  PROVE  acState' \in [Threads -> BOOLEAN] /\ powerState' \in [Threads -> -1..8]
BY DEF TypeOK, Forget

LEMMA InitTypeOK == Init => TypeOK
<1> SUFFICES ASSUME Init PROVE TypeOK
  OBVIOUS
<1>1. /\ pc \in [Threads -> Label]
      /\ acState \in [Threads -> BOOLEAN]
      /\ powerState \in [Threads -> -1..8]
  BY InitialLocals DEF Init
<1>2. applied \in Setting
  BY DEF Init, Setting
<1>3. requests \in Seq(Request)
  BY DEF Init
<1> QED
  BY <1>1, <1>2, <1>3 DEF Init, TypeOK

LEMMA WorkTypeOK ==
  ASSUME TypeOK, NEW t \in Threads, Work(t)
  PROVE  TypeOK'
<1>1. CASE ClearConfig(t)
  <2>1. pc' \in [Threads -> Label]
    BY <1>1, GotoMoves DEF ClearConfig, Label
  <2> QED
    BY <1>1, <2>1 DEF ClearConfig, TypeOK
<1>2. CASE FillConfig(t)
  <2>1. pc' \in [Threads -> Label]
    BY <1>2, GotoMoves DEF FillConfig, Label
  <2> QED
    BY <1>2, <2>1 DEF FillConfig, TypeOK
<1>3. CASE ReadAc(t)
  <2>1. pc' \in [Threads -> Label]
    BY <1>3, GotoMoves DEF ReadAc, Label
  <2>2. pending' \in BOOLEAN
    BY <1>3 DEF ReadAc
  <2> QED
    BY <1>3, <2>1, <2>2 DEF ReadAc, TypeOK
<1>4. CASE ReadProfile(t)
  <2>1. pc' \in [Threads -> Label]
    BY <1>4, GotoMoves DEF ReadProfile, Label
  <2>2. PowerState(profile, acState[t]) \in -1..8
    BY PowerStateRange DEF TypeOK
  <2>3. powerState' \in [Threads -> -1..8]
    BY <1>4, <2>2 DEF ReadProfile, TypeOK
  <2> QED
    BY <1>4, <2>1, <2>3 DEF ReadProfile, TypeOK
<1>5. CASE SetFan(t)
  <2>1. pc' \in [Threads -> Label]
    BY <1>5, GotoMoves DEF SetFan, Label
  <2>2. applied' \in Setting
    BY <1>5 DEF SetFan, TypeOK, Setting
  <2> QED
    BY <1>5, <2>1, <2>2 DEF SetFan, TypeOK
<1>6. CASE SetCpu(t)
  <2>1. pc' \in [Threads -> Label]
    BY <1>6, GotoMoves DEF SetCpu, Label
  <2>2. applied' \in Setting
    BY <1>6 DEF SetCpu, TypeOK, Setting, HasCommand
  <2> QED
    BY <1>6, <2>1, <2>2 DEF SetCpu, TypeOK
<1>7. CASE SetGpu(t)
  <2>1. pc' \in [Threads -> Label]
    BY <1>7, GotoMoves DEF SetGpu, Label
  <2>2. applied' \in Setting
    <3>1. applied \in Setting
      BY DEF TypeOK
    <3>2. CASE applied' = applied
      BY <3>1, <3>2
    <3>3. CASE applied' = [applied EXCEPT !.gpu = -2]
      BY <3>1, <3>3 DEF Setting
    <3>4. CASE /\ HasCommand(powerState[t])
               /\ applied' = [applied EXCEPT !.gpu = powerState[t]]
      BY <3>1, <3>4 DEF Setting, HasCommand
    <3> QED
      BY <1>7, <3>2, <3>3, <3>4 DEF SetGpu
  <2>3. UNCHANGED <<fileVars, changed, requests, timer, config, delayed, triggered,
                    readable, ret, acState, powerState, historyVars>>
    BY <1>7 DEF SetGpu
  <2> QED
    BY <2>1, <2>2, <2>3 DEF TypeOK
<1> QED
  BY <1>1, <1>2, <1>3, <1>4, <1>5, <1>6, <1>7 DEF Work

LEMMA EnvironmentTypeOK ==
  ASSUME TypeOK,
         \/ \E r \in Request : Send(r)
         \/ \E p \in Profiles, ac \in BOOLEAN : Change(p, ac)
         \/ \E i \in Inis : Edit(i)
         \/ Restart
  PROVE  TypeOK'
<1>1. CASE \E r \in Request : Send(r)
  BY <1>1 DEF Send, TypeOK
<1>2. CASE \E p \in Profiles, ac \in BOOLEAN : Change(p, ac)
  BY <1>2 DEF Change, TypeOK
<1>3. CASE \E i \in Inis : Edit(i)
  BY <1>3 DEF Edit, TypeOK
<1>4. CASE Restart
  <2>1. /\ pc' \in [Threads -> Label]
        /\ acState' \in [Threads -> BOOLEAN]
        /\ powerState' \in [Threads -> -1..8]
    BY <1>4, InitialLocals DEF Restart, Start
  <2>2. requests' \in Seq(Request)
    BY <1>4 DEF Restart, Start
  <2>3. applied' \in Setting
    BY <1>4 DEF Restart, TypeOK
  <2> QED
    BY <1>4, <2>1, <2>2, <2>3 DEF Restart, Start, TypeOK
<1> QED
  BY <1>1, <1>2, <1>3, <1>4

LEMMA HandlerTypeOK ==
  ASSUME TypeOK, NEW h \in Handlers,
         Expire(h) \/ ResetDelayed(h) \/ SetTriggered(h)
  PROVE  TypeOK'
<1>1. h \in Threads
  BY DEF Threads
<1>2. CASE Expire(h)
  <2>1. pc' \in [Threads -> Label]
    BY <1>1, <1>2, GotoMoves DEF Expire, Label
  <2>2. overlapped' \in BOOLEAN
    BY <1>2 DEF Expire
  <2> QED
    BY <1>2, <2>1, <2>2 DEF Expire, TypeOK
<1>3. CASE ResetDelayed(h)
  <2>1. pc' \in [Threads -> Label]
    BY <1>1, <1>3, GotoMoves DEF ResetDelayed, Label
  <2> QED
    BY <1>3, <2>1 DEF ResetDelayed, TypeOK
<1>4. CASE SetTriggered(h)
  <2>1. pc' \in [Threads -> Label]
    BY <1>1, <1>4 DEF SetTriggered, TypeOK, Label
  <2> QED
    BY <1>1, <1>4, <2>1, ForgetLocals DEF SetTriggered, TypeOK
<1> QED
  BY <1>2, <1>3, <1>4

(* set_timer() leaves the timer armed unless that is recorded as a loss.   *)
LEMMA SetTimerArms ==
  ASSUME TypeOK, NEW delay \in Int, NEW who \in {"fanset", "user", "power"},
         SetTimer(delay, who)
  PROVE  /\ timer' \in {"off", "startup", "fanset", "user", "power"}
         /\ lost' \in BOOLEAN
         /\ lost' \/ timer' # "off"
<1>1. timer' \in {"off", "startup", "fanset", "user", "power"}
  BY DEF SetTimer, TypeOK
<1> QED
  BY <1>1 DEF SetTimer

(* What main() may pass to set_timer() is an integer.                      *)
LEMMA MainDelays ==
  ASSUME TypeOK
  PROVE  /\ ret.delay \in Delays \cup {0} /\ ret.delay \in Int
         /\ delayed \in Int
<1>1. ret.delay \in Delays \cup {0}
  BY RequestDelay DEF TypeOK
<1>2. \A d \in Delays \cup {0} : d \in Int
  BY DelaysAssumption
<1>3. delayed \in Delays \cup {0}
  BY DEF TypeOK
<1> QED
  BY <1>1, <1>2, <1>3, Zenon

LEMMA MainTypeOK ==
  ASSUME TypeOK,
         \/ Select \/ Fanset \/ CheckDelayed \/ ExtendDelay \/ Cpuset \/ Reload
         \/ Inotify
  PROVE  TypeOK'
<1>1. Main \in Threads
  BY DEF Threads
<1>2. CASE Select
  <2>1. CASE requests = <<>>
    <3>1. pc' \in [Threads -> Label]
      BY <1>1, <1>2, <2>1, GotoMoves DEF Select, Label
    <3> QED
      BY <1>2, <2>1, <3>1 DEF Select, TypeOK
  <2>2. CASE requests # <<>>
    <3>1. pc' \in [Threads -> Label]
      BY <1>1, <1>2, <2>2, GotoMoves DEF Select, Label
    <3>2. ret' \in Request /\ requests' \in Seq(Request)
      BY <1>2, <2>2 DEF Select, TypeOK
    <3> QED
      BY <1>2, <2>2, <3>1, <3>2 DEF Select, TypeOK
  <2> QED
    BY <2>1, <2>2
<1>3. CASE Fanset
  <2>1. pc' \in [Threads -> Label]
    BY <1>1, <1>3, GotoMoves DEF Fanset, Label
  <2> QED
    BY <1>3, <2>1 DEF Fanset, TypeOK
<1>4. CASE CheckDelayed
  <2>1. pc' \in [Threads -> Label]
    BY <1>1, <1>4, GotoMoves DEF CheckDelayed, Label
  <2>2. ret.delay \in Delays \cup {0} /\ ret.delay \in Int
    BY MainDelays
  <2>3. delayed' \in Delays \cup {0}
    BY <1>4, <2>2 DEF CheckDelayed, TypeOK
  <2>4. /\ timer' \in {"off", "startup", "fanset", "user", "power"}
        /\ lost' \in BOOLEAN
    BY <1>4, <2>2, SetTimerArms DEF CheckDelayed, TypeOK
  <2> QED
    BY <1>4, <2>1, <2>3, <2>4 DEF CheckDelayed, TypeOK
<1>5. CASE ExtendDelay
  <2>1. pc' \in [Threads -> Label]
    BY <1>1, <1>5, GotoMoves DEF ExtendDelay, Label
  <2>2. delayed \in Int
    BY DelaysAssumption DEF TypeOK
  <2>3. /\ timer' \in {"off", "startup", "fanset", "user", "power"}
        /\ lost' \in BOOLEAN
    BY <1>5, <2>2, SetTimerArms DEF ExtendDelay
  <2> QED
    BY <1>5, <2>1, <2>3 DEF ExtendDelay, TypeOK
<1>6. CASE Cpuset
  <2>1. pc' \in [Threads -> Label]
    BY <1>1, <1>6, GotoMoves DEF Cpuset, Label
  <2> QED
    BY <1>6, <2>1 DEF Cpuset, TypeOK
<1>7. CASE Reload
  <2>1. pc' \in [Threads -> Label]
    BY <1>1, <1>7, GotoMoves DEF Reload, Label
  <2> QED
    BY <1>7, <2>1 DEF Reload, TypeOK
<1>8. CASE Inotify
  <2>1. pc' \in [Threads -> Label]
    BY <1>1, <1>8, GotoMoves DEF Inotify, Label
  <2>2. /\ timer' \in {"off", "startup", "fanset", "user", "power"}
        /\ lost' \in BOOLEAN
    BY <1>8, SetTimerArms DEF Inotify, TypeOK
  <2>3. changed' \in BOOLEAN /\ pending' \in BOOLEAN
    BY <1>8 DEF Inotify, TypeOK
  <2>4. acState' \in [Threads -> BOOLEAN] /\ powerState' \in [Threads -> -1..8]
    BY <1>1, <1>8, ForgetLocals DEF Inotify
  <2> QED
    BY <1>8, <2>1, <2>2, <2>3, <2>4 DEF Inotify, TypeOK
<1> QED
  BY <1>2, <1>3, <1>4, <1>5, <1>6, <1>7, <1>8

LEMMA StepTypeOK == TypeOK /\ [Next]_vars => TypeOK'
<1> SUFFICES ASSUME TypeOK, [Next]_vars PROVE TypeOK'
  OBVIOUS
<1>1. CASE UNCHANGED vars
  BY <1>1 DEF TypeOK, vars
<1>2. CASE MainStep
  BY <1>2, MainTypeOK, WorkTypeOK DEF MainStep, Threads
<1>3. CASE \E h \in Handlers : Expire(h) \/ HandlerStep(h)
  BY <1>3, HandlerTypeOK, WorkTypeOK DEF HandlerStep, Threads
<1> QED
  BY <1>1, <1>2, <1>3, EnvironmentTypeOK DEF Next

(* The globals of legiond.c, the locals of its threads and the requests    *)
(* keep their declared values in every interleaving.                       *)
THEOREM LegiondTypeCorrect == Spec => []TypeOK
<1> QED
  BY InitTypeOK, StepTypeOK, PTL DEF Spec

(* NothingForgotten is inductive: together with the types of the locals it *)
(* is preserved by every step.  A timer thread on its way to get_power-    *)
(* state() stays on it, and leaving the main thread's two steps of arming  *)
(* leaves either an armed timer or a recorded loss.                        *)
LEMMA WorkForgetsNothing ==
  ASSUME TypeOK, NothingForgotten, NEW t \in Threads, Work(t)
  PROVE  NothingForgotten'
<1> USE DEF Label
<1>1. CASE ClearConfig(t)
  BY <1>1, GotoMoves DEF ClearConfig, NothingForgotten, AboutToRead, Threads
<1>2. CASE FillConfig(t)
  BY <1>2, GotoMoves DEF FillConfig, NothingForgotten, AboutToRead, Threads
<1>3. CASE ReadAc(t)
  <2>1. CASE t = Main
    <3>1. \A h \in Handlers : pc'[h] = pc[h]
      BY <1>3, <2>1, GotoMoves, ThreadsAssumption DEF ReadAc, Threads
    <3> QED
      BY <1>3, <2>1, <3>1 DEF ReadAc, NothingForgotten, AboutToRead
  <2>2. CASE t # Main
    BY <1>3, <2>2 DEF ReadAc, NothingForgotten
  <2> QED
    BY <2>1, <2>2
<1>4. CASE ReadProfile(t) \/ SetFan(t) \/ SetCpu(t) \/ SetGpu(t)
  <2>1. /\ pc[t] \in {"profile", "fan", "cpu", "gpu"}
        /\ UNCHANGED <<timer, pending, lost>>
    BY <1>4 DEF ReadProfile, SetFan, SetCpu, SetGpu
  <2>2. \E label \in Label : Goto(t, label)
    BY <1>4 DEF ReadProfile, SetFan, SetCpu, SetGpu
  <2>3. \A u \in Threads \ {t} : pc'[u] = pc[u]
    BY <2>2, GotoMoves
  <2> QED
    BY <2>1, <2>3 DEF NothingForgotten, AboutToRead, Threads
<1> QED
  BY <1>1, <1>2, <1>3, <1>4 DEF Work

LEMMA HandlerForgetsNothing ==
  ASSUME TypeOK, NothingForgotten, NEW h \in Handlers,
         Expire(h) \/ ResetDelayed(h) \/ SetTriggered(h)
  PROVE  NothingForgotten'
<1> USE DEF Label
<1>1. h \in Threads /\ Main \in Threads /\ h # Main
  BY ThreadsAssumption DEF Threads
<1>2. CASE Expire(h)
  <2>1. pc'[h] = "parse"
    BY <1>1, <1>2, GotoMoves DEF Expire
  <2> QED
    BY <2>1 DEF NothingForgotten, AboutToRead
<1>3. CASE ResetDelayed(h) \/ SetTriggered(h)
  <2>1. /\ pc[h] \in {"reset", "trigger"}
        /\ UNCHANGED <<timer, pending, lost>>
    BY <1>3 DEF ResetDelayed, SetTriggered
  <2>2. \A u \in Threads \ {h} : pc'[u] = pc[u]
    BY <1>1, <1>3, GotoMoves DEF ResetDelayed, SetTriggered, TypeOK
  <2> QED
    BY <1>1, <2>1, <2>2 DEF NothingForgotten, AboutToRead, Threads
<1> QED
  BY <1>2, <1>3

LEMMA MainForgetsNothing ==
  ASSUME TypeOK, NothingForgotten,
         \/ Select \/ Fanset \/ CheckDelayed \/ ExtendDelay \/ Cpuset \/ Reload
         \/ Inotify
  PROVE  NothingForgotten'
<1> USE DEF Label
<1>1. Main \in Threads /\ Main \notin Handlers
  BY ThreadsAssumption DEF Threads
<1>2. \E label \in Label : Goto(Main, label)
  BY DEF Select, Fanset, CheckDelayed, ExtendDelay, Cpuset, Reload, Inotify
<1>3. \A h \in Handlers : pc'[h] = pc[h]
  BY <1>1, <1>2, GotoMoves DEF Threads
<1>4. CASE Select \/ Cpuset \/ Reload
  BY <1>3, <1>4 DEF Select, Cpuset, Reload, NothingForgotten, AboutToRead
<1>5. CASE Fanset
  <2>1. pc'[Main] = "delayed?"
    BY <1>1, <1>5, GotoMoves DEF Fanset
  <2> QED
    BY <2>1 DEF NothingForgotten
<1>6. CASE CheckDelayed
  <2>1. CASE delayed # 0
    <3>1. pc'[Main] = "extend"
      BY <1>1, <1>6, <2>1, GotoMoves DEF CheckDelayed
    <3> QED
      BY <3>1 DEF NothingForgotten
  <2>2. CASE delayed = 0
    <3>1. ret.delay \in Int
      BY MainDelays
    <3>2. lost' \/ timer' # "off"
      BY <1>6, <2>2, <3>1, SetTimerArms DEF CheckDelayed
    <3> QED
      BY <3>2 DEF NothingForgotten
  <2> QED
    BY <2>1, <2>2
<1>7. CASE ExtendDelay
  <2>1. lost' \/ timer' # "off"
    BY <1>7, MainDelays, SetTimerArms DEF ExtendDelay
  <2> QED
    BY <2>1 DEF NothingForgotten
<1>8. CASE Inotify
  <2>1. CASE readable
    <3>1. lost' \/ timer' # "off"
      BY <1>8, <2>1, SetTimerArms DEF Inotify
    <3> QED
      BY <3>1 DEF NothingForgotten
  <2>2. CASE ~readable
    BY <1>3, <1>8, <2>2 DEF Inotify, NothingForgotten, AboutToRead
  <2> QED
    BY <2>1, <2>2
<1> QED
  BY <1>4, <1>5, <1>6, <1>7, <1>8

LEMMA StepForgetsNothing ==
  ASSUME TypeOK, NothingForgotten, [Next]_vars
  PROVE  NothingForgotten'
<1>1. CASE UNCHANGED vars
  BY <1>1 DEF NothingForgotten, AboutToRead, vars
<1>2. CASE \/ \E r \in Request : Send(r)
           \/ \E p \in Profiles, ac \in BOOLEAN : Change(p, ac)
           \/ \E i \in Inis : Edit(i)
  <2>1. UNCHANGED <<timer, pc, pending, lost>>
    BY <1>2 DEF Send, Change, Edit
  <2> QED
    BY <2>1 DEF NothingForgotten, AboutToRead
<1>3. CASE Restart
  BY <1>3 DEF Restart, Start, NothingForgotten
<1>4. CASE MainStep
  BY <1>4, MainForgetsNothing, WorkForgetsNothing DEF MainStep, Threads
<1>5. CASE \E h \in Handlers : Expire(h) \/ HandlerStep(h)
  BY <1>5, HandlerForgetsNothing, WorkForgetsNothing DEF HandlerStep, Threads
<1> QED
  BY <1>1, <1>2, <1>3, <1>4, <1>5 DEF Next

(* No trigger is forgotten: with any number of timer threads, commands,    *)
(* changes and restarts, as long as a start, a fanset or a reported change *)
(* has not been followed by a new reading of the power state, the timer is *)
(* armed or a thread is about to arm it or to read - unless set_timer()    *)
(* was itself called in a way that disarmed the timer.                     *)
THEOREM TriggerSafety == Spec => []NothingForgotten
<1>1. Init => NothingForgotten
  BY DEF Init, NothingForgotten
<1>2. TypeOK /\ NothingForgotten /\ [Next]_vars => NothingForgotten'
  BY StepForgetsNothing
<1> QED
  BY <1>1, <1>2, LegiondTypeCorrect, PTL DEF Spec

(* What the daemon still owes the hardware.  A thread that is past         *)
(* get_powerstate() but not yet past the command holds the power state of  *)
(* the files.                                                              *)
Current(t) ==
  /\ pc[t] = "profile" => acState[t] = online
  /\ pc[t] \in {"fan", "cpu", "gpu"} => powerState[t] = PowerState(profile, online)

(* A thread on its way to a command; 'B' passes the CPU command only.      *)
WillDo(t, labels) ==
  /\ pc[t] \in labels
  /\ ~(t = Main /\ ret.cmd = "B")

WillSetFan == \E t \in Threads : WillDo(t, {"fill", "ac", "profile", "fan"})
WillSetCpu == \E t \in Threads : WillDo(t, {"fill", "ac", "profile", "fan", "cpu"})
WillSetGpu ==
  \E t \in Threads : WillDo(t, {"fill", "ac", "profile", "fan", "cpu", "gpu"})

(* Each enabled setting is that of power state s, or a thread will set it. *)
FanDue(s) == config.fan /\ s \in DOMAIN FanPreset =>
               applied.fan = FanPreset[s] \/ WillSetFan
CpuDue(s) == config.cpu /\ HasCommand(s) => applied.cpu = s \/ WillSetCpu
GpuDue(s) == config.gpu = "nvidia" /\ HasCommand(s) => applied.gpu = s \/ WillSetGpu
AllDue == LET s == PowerState(profile, online) IN FanDue(s) /\ CpuDue(s) /\ GpuDue(s)

(* A timer thread will read the power state again.                         *)
Rerun == timer # "off" \/ changed \/ \E h \in Handlers : AboutToRead(h)

OneHandler ==
  ~overlapped => \A g, h \in Handlers : pc[g] # "none" /\ pc[h] # "none" => g = h
FullReload == pc[Main] \in {"parse", "fill"} => ret.cmd # "B"
MainInv == ~changed => Current(Main)
RunInv == ~lost /\ ~overlapped /\ ~Rerun => (\A h \in Handlers : Current(h)) /\ AllDue

(* Settled is not inductive: it speaks of the daemon at rest only.  What   *)
(* every step keeps is that, unless a timer thread is still to read the    *)
(* power state, every thread works with the present one and every enabled  *)
(* setting is right or about to be set.                                    *)
SettleInv == OneHandler /\ FullReload /\ MainInv /\ RunInv

WorkLabel == {"parse", "fill", "ac", "profile", "fan", "cpu", "gpu"}

(* parseconf(), get_powerstate() and set_all() leave the files, the timer  *)
(* and the other threads alone.                                            *)
LEMMA WorkFrame ==
  ASSUME TypeOK, NEW t \in Threads, Work(t)
  PROVE  /\ UNCHANGED <<profile, online, ini, changed, timer, lost, overlapped, ret>>
         /\ pc[t] \in WorkLabel
         /\ pc'[t] \in (WorkLabel \cup {"inotify", "reset"}) \ {"parse"}
         /\ pc'[t] = "fill" => pc[t] = "parse"
         /\ \A u \in Threads \ {t} :
              pc'[u] = pc[u] /\ acState'[u] = acState[u] /\ powerState'[u] = powerState[u]
<1> USE DEF WorkLabel, Label
<1>1. CASE ClearConfig(t)
  BY <1>1, GotoMoves DEF ClearConfig
<1>2. CASE FillConfig(t)
  BY <1>2, GotoMoves DEF FillConfig
<1>3. CASE ReadAc(t)
  BY <1>3, GotoMoves DEF ReadAc, TypeOK
<1>4. CASE ReadProfile(t)
  BY <1>4, GotoMoves DEF ReadProfile, TypeOK
<1>5. CASE SetFan(t)
  BY <1>5, GotoMoves DEF SetFan
<1>6. CASE SetCpu(t)
  BY <1>6, GotoMoves DEF SetCpu
<1>7. CASE SetGpu(t)
  <2>1. UNCHANGED <<profile, online, ini, changed, timer, lost, overlapped, ret,
                    acState, powerState>>
    BY <1>7 DEF SetGpu
  <2>2. pc[t] = "gpu" /\ Goto(t, IF t = Main THEN "inotify" ELSE "reset")
    BY <1>7 DEF SetGpu
  <2> QED
    BY <2>1, <2>2, GotoMoves
<1> QED
  BY <1>1, <1>2, <1>3, <1>4, <1>5, <1>6, <1>7 DEF Work

(* The locals a thread works with after one of its steps are current if    *)
(* those before were.                                                      *)
LEMMA WorkCurrent ==
  ASSUME TypeOK, NEW t \in Threads, Work(t), Current(t)
  PROVE  Current(t)'
<1> USE DEF Label
<1>1. CASE ClearConfig(t) \/ FillConfig(t) \/ SetGpu(t)
  <2>1. pc'[t] \in {"fill", "ac", "inotify", "reset"}
    BY <1>1, GotoMoves DEF ClearConfig, FillConfig, SetGpu
  <2> QED
    BY <2>1 DEF Current
<1>2. CASE ReadAc(t)
  <2>1. pc'[t] = "profile"
    BY <1>2, GotoMoves DEF ReadAc
  <2>2. acState'[t] = online'
    BY <1>2 DEF ReadAc, TypeOK
  <2> QED
    BY <2>1, <2>2 DEF Current
<1>3. CASE ReadProfile(t)
  <2>1. pc'[t] \in {"fan", "cpu"}
    BY <1>3, GotoMoves DEF ReadProfile
  <2>2. powerState'[t] = PowerState(profile, acState[t])
    BY <1>3 DEF ReadProfile, TypeOK
  <2>3. acState[t] = online
    BY <1>3 DEF ReadProfile, Current
  <2>4. PowerState(profile, online)' = PowerState(profile, online)
    BY <1>3 DEF ReadProfile, PowerState
  <2> QED
    BY <2>1, <2>2, <2>3, <2>4 DEF Current
<1>4. CASE SetFan(t) \/ SetCpu(t)
  <2>1. pc[t] \in {"fan", "cpu"} /\ pc'[t] \in {"cpu", "gpu", "inotify"}
    BY <1>4, GotoMoves DEF SetFan, SetCpu
  <2>2. UNCHANGED <<powerState, profile, online>>
    BY <1>4 DEF SetFan, SetCpu
  <2> QED
    BY <2>1, <2>2 DEF Current, PowerState
<1> QED
  BY <1>1, <1>2, <1>3, <1>4 DEF Work

(* Threads another one's step leaves alone stay current.                   *)
LEMMA OthersCurrent ==
  ASSUME NEW u, Current(u), UNCHANGED <<profile, online>>,
         pc'[u] = pc[u], acState'[u] = acState[u], powerState'[u] = powerState[u]
  PROVE  Current(u)'
BY DEF Current, PowerState

(* A thread that loads the configuration owes every setting it enables.    *)
LEMMA AllOwed ==
  ASSUME NEW t \in Threads, WillDo(t, {"fill", "ac", "profile"})'
  PROVE  AllDue'
BY DEF WillDo, AllDue, FanDue, CpuDue, GpuDue, WillSetFan, WillSetCpu, WillSetGpu

(* Steps that leave the settings, the configuration and the files alone    *)
(* owe what was owed, if no thread has come past a command.                *)
LEMMA DueKept ==
  ASSUME AllDue, UNCHANGED <<profile, online, config, applied>>,
         WillSetFan => WillSetFan', WillSetCpu => WillSetCpu', WillSetGpu => WillSetGpu'
  PROVE  AllDue'
BY DEF AllDue, FanDue, CpuDue, GpuDue, PowerState

(* A step of a thread that is past reading, or of the main thread, leaves  *)
(* every enabled setting right or owed.                                    *)
LEMMA WorkDue ==
  ASSUME TypeOK, FullReload, NEW t \in Threads, Work(t), Current(t), AllDue,
         t = Main \/ ~AboutToRead(t)
  PROVE  AllDue'
<1> DEFINE s == PowerState(profile, online)
<1> USE DEF Label
<1>1. s' = s
  BY WorkFrame DEF PowerState
<1>2. ret' = ret /\ \A u \in Threads \ {t} : pc'[u] = pc[u]
  BY WorkFrame
<1>3. FanDue(s) /\ CpuDue(s) /\ GpuDue(s)
  BY DEF AllDue
<1>4. SUFFICES FanDue(s)' /\ CpuDue(s)' /\ GpuDue(s)'
  BY DEF AllDue
<1> HIDE DEF s
<1>5. CASE ClearConfig(t)
  BY <1>5 DEF ClearConfig, Cleared, FanDue, CpuDue, GpuDue
<1>6. CASE FillConfig(t)
  <2>1. t = Main /\ pc[t] = "fill"
    BY <1>6 DEF FillConfig, AboutToRead
  <2>2. pc'[t] = "ac"
    BY <1>6, GotoMoves DEF FillConfig
  <2>3. WillDo(t, {"fill", "ac", "profile"})'
    BY <1>2, <2>1, <2>2 DEF FullReload, WillDo
  <2> QED
    BY <2>3, AllOwed DEF AllDue, s
<1>7. CASE ReadAc(t) \/ ReadProfile(t)
  <2>1. UNCHANGED <<config, applied>>
    BY <1>7 DEF ReadAc, ReadProfile
  <2>2. /\ pc[t] \in {"ac", "profile"}
        /\ \/ pc'[t] \in {"profile", "fan"}
           \/ t = Main /\ ret.cmd = "B"
    BY <1>7, GotoMoves DEF ReadAc, ReadProfile
  <2>3. /\ WillSetFan => WillSetFan'
        /\ WillSetCpu => WillSetCpu'
        /\ WillSetGpu => WillSetGpu'
    BY <1>2, <2>2 DEF WillSetFan, WillSetCpu, WillSetGpu, WillDo
  <2> QED
    BY <1>3, <1>1, <2>1, <2>3 DEF FanDue, CpuDue, GpuDue
<1>8. CASE SetFan(t)
  <2>1. pc[t] = "fan" /\ pc'[t] = "cpu" /\ powerState[t] = s
    BY <1>8, GotoMoves DEF SetFan, Current, s
  <2>2. WillSetCpu => WillSetCpu'
    BY <1>2, <2>1 DEF WillSetCpu, WillDo
  <2>3. WillSetGpu => WillSetGpu'
    BY <1>2, <2>1 DEF WillSetGpu, WillDo
  <2>4. config' = config /\ applied'.cpu = applied.cpu /\ applied'.gpu = applied.gpu
    BY <1>8 DEF SetFan, TypeOK, Setting
  <2>5. config.fan /\ s \in DOMAIN FanPreset => applied'.fan = FanPreset[s]
    BY <1>8, <2>1 DEF SetFan, TypeOK, Setting
  <2> QED
    BY <1>1, <1>3, <2>2, <2>3, <2>4, <2>5 DEF FanDue, CpuDue, GpuDue
<1>9. CASE SetCpu(t)
  <2>1. /\ pc[t] = "cpu" /\ powerState[t] = s
        /\ pc'[t] = "gpu" \/ (t = Main /\ ret.cmd = "B")
    BY <1>9, GotoMoves DEF SetCpu, Current, s
  <2>2. WillSetFan => WillSetFan'
    BY <1>2, <2>1 DEF WillSetFan, WillDo
  <2>3. WillSetGpu => WillSetGpu'
    BY <1>2, <2>1 DEF WillSetGpu, WillDo
  <2>4. config' = config /\ applied'.fan = applied.fan /\ applied'.gpu = applied.gpu
    BY <1>9 DEF SetCpu, TypeOK, Setting
  <2>5. config.cpu /\ HasCommand(s) => applied'.cpu = s
    BY <1>9, <2>1 DEF SetCpu, TypeOK, Setting
  <2> QED
    BY <1>1, <1>3, <2>2, <2>3, <2>4, <2>5 DEF FanDue, CpuDue, GpuDue
<1>10. CASE SetGpu(t)
  <2>1. pc[t] = "gpu" /\ powerState[t] = s
    BY <1>10 DEF SetGpu, Current, s
  <2>2. WillSetFan => WillSetFan'
    BY <1>2, <2>1 DEF WillSetFan, WillDo
  <2>3. WillSetCpu => WillSetCpu'
    BY <1>2, <2>1 DEF WillSetCpu, WillDo
  <2>4. config' = config /\ applied'.fan = applied.fan /\ applied'.cpu = applied.cpu
    BY <1>10 DEF SetGpu, TypeOK, Setting
  <2>5. config.gpu = "nvidia" /\ HasCommand(s) => applied'.gpu = s
    BY <1>10, <2>1 DEF SetGpu, TypeOK, Setting, HasCommand, FanPreset
  <2> QED
    BY <1>1, <1>3, <2>2, <2>3, <2>4, <2>5 DEF FanDue, CpuDue, GpuDue
<1> QED
  BY <1>5, <1>6, <1>7, <1>8, <1>9, <1>10 DEF Work

LEMMA WorkSettles ==
  ASSUME TypeOK, SettleInv, NEW t \in Threads, Work(t)
  PROVE  SettleInv'
<1> USE DEF SettleInv
<1>1. /\ UNCHANGED <<profile, online, changed, timer, lost, overlapped, ret>>
      /\ pc[t] \in WorkLabel /\ pc'[t] # "parse" /\ pc'[t] # "none"
      /\ pc'[t] = "fill" => pc[t] = "parse"
      /\ \A u \in Threads \ {t} :
           pc'[u] = pc[u] /\ acState'[u] = acState[u] /\ powerState'[u] = powerState[u]
  BY WorkFrame DEF WorkLabel
<1>2. pc[t] # "none" /\ Main \in Threads /\ Handlers \subseteq Threads
  BY <1>1 DEF WorkLabel, Threads
<1>3. OneHandler'
  BY <1>1, <1>2 DEF OneHandler
<1>4. FullReload'
  BY <1>1, <1>2 DEF FullReload
<1>5. MainInv'
  <2>1. CASE t = Main
    BY <1>1, <2>1, WorkCurrent DEF MainInv
  <2>2. CASE t # Main
    BY <1>1, <1>2, <2>2, OthersCurrent DEF MainInv
  <2> QED
    BY <2>1, <2>2
<1>6. RunInv'
  <2> SUFFICES ASSUME ~lost, ~overlapped, ~Rerun'
               PROVE  (\A h \in Handlers : Current(h)') /\ AllDue'
    BY <1>1 DEF RunInv
  <2>1. timer = "off" /\ ~changed
    BY <1>1 DEF Rerun
  <2>2. CASE Rerun
    <3>1. PICK h \in Handlers : AboutToRead(h)
      BY <2>1, <2>2 DEF Rerun
    <3>2. ~AboutToRead(h)'
      BY DEF Rerun
    <3>3. h = t
      BY <1>1, <1>2, <3>1, <3>2 DEF AboutToRead
    <3>4. ReadAc(t)
      <4>1. ~ClearConfig(t) /\ ~FillConfig(t)
        BY <1>2, <3>2, <3>3, GotoMoves DEF ClearConfig, FillConfig, AboutToRead, Label
      <4>2. pc[t] \notin {"profile", "fan", "cpu", "gpu"}
        BY <3>1, <3>3 DEF AboutToRead
      <4> QED
        BY <4>1, <4>2 DEF Work, ReadProfile, SetFan, SetCpu, SetGpu
    <3>5. pc'[t] = "profile" /\ acState'[t] = online'
      BY <3>4, GotoMoves DEF ReadAc, TypeOK, Label
    <3>6. \A g \in Handlers \ {t} : pc'[g] = "none"
      BY <1>1, <1>2, <3>3 DEF OneHandler
    <3>7. \A g \in Handlers : Current(g)'
      BY <3>5, <3>6 DEF Current
    <3>8. t # Main
      BY <3>3, ThreadsAssumption
    <3>9. AllDue'
      BY <3>5, <3>8, AllOwed DEF WillDo
    <3> QED
      BY <3>7, <3>9
  <2>3. CASE ~Rerun
    <3>1. (\A h \in Handlers : Current(h)) /\ AllDue
      BY <2>3 DEF RunInv
    <3>2. Current(t)
      BY <2>1, <3>1 DEF MainInv, Threads
    <3>3. \A h \in Handlers : Current(h)'
      BY <1>1, <1>2, <3>1, <3>2, WorkCurrent, OthersCurrent
    <3>4. t = Main \/ ~AboutToRead(t)
      BY <2>3 DEF Rerun, Threads
    <3>5. AllDue'
      BY <3>1, <3>2, <3>4, WorkDue
    <3> QED
      BY <3>3, <3>5
  <2> QED
    BY <2>2, <2>3
<1> QED
  BY <1>3, <1>4, <1>5, <1>6

LEMMA EnvironmentSettles ==
  ASSUME TypeOK, SettleInv,
         \/ \E r \in Request : Send(r)
         \/ \E p \in Profiles, ac \in BOOLEAN : Change(p, ac)
         \/ \E i \in Inis : Edit(i)
         \/ Restart
  PROVE  SettleInv'
<1> USE DEF SettleInv
<1>1. CASE (\E r \in Request : Send(r)) \/ (\E i \in Inis : Edit(i))
  <2>1. UNCHANGED <<profile, online, changed, applied, timer, config, ret, pc, acState,
                    powerState, lost, overlapped>>
    BY <1>1 DEF Send, Edit
  <2>2. OneHandler' /\ FullReload' /\ (Rerun' <=> Rerun)
    BY <2>1 DEF OneHandler, FullReload, Rerun, AboutToRead
  <2>3. \A t : Current(t) => Current(t)'
    BY <2>1 DEF Current, PowerState
  <2>4. AllDue => AllDue'
    BY <2>1 DEF AllDue, FanDue, CpuDue, GpuDue, WillSetFan, WillSetCpu, WillSetGpu,
       WillDo, PowerState
  <2> QED
    BY <2>1, <2>2, <2>3, <2>4 DEF MainInv, RunInv
<1>2. CASE \E p \in Profiles, ac \in BOOLEAN : Change(p, ac)
  BY <1>2 DEF Change, OneHandler, FullReload, MainInv, RunInv, Rerun
<1>3. CASE Restart
  <2>1. timer' = "startup" /\ pc' = Idle
    BY <1>3 DEF Restart, Start
  <2>2. pc'[Main] = "select" /\ \A h \in Handlers : pc'[h] = "none"
    BY <2>1, ThreadsAssumption DEF Idle, Threads
  <2> QED
    BY <2>1, <2>2 DEF OneHandler, FullReload, MainInv, Current, RunInv, Rerun
<1> QED
  BY <1>1, <1>2, <1>3

LEMMA HandlerSettles ==
  ASSUME TypeOK, SettleInv, NEW h \in Handlers,
         Expire(h) \/ ResetDelayed(h) \/ SetTriggered(h)
  PROVE  SettleInv'
<1> USE DEF SettleInv, Label
<1>1. /\ h \in Threads /\ Main \in Threads /\ h # Main
      /\ Handlers \subseteq Threads
  BY ThreadsAssumption DEF Threads
<1>2. /\ UNCHANGED <<profile, online, changed, applied, config, ret, lost>>
      /\ pc'[h] \in {"parse", "trigger", "none"}
      /\ \A u \in Threads \ {h} :
           pc'[u] = pc[u] /\ acState'[u] = acState[u] /\ powerState'[u] = powerState[u]
  <2>1. CASE Expire(h)
    BY <1>1, <2>1, GotoMoves DEF Expire
  <2>2. CASE ResetDelayed(h)
    BY <1>1, <2>2, GotoMoves DEF ResetDelayed
  <2>3. CASE SetTriggered(h)
    BY <1>1, <2>3 DEF SetTriggered, Forget, TypeOK
  <2> QED
    BY <2>1, <2>2, <2>3
<1>3. FullReload'
  BY <1>1, <1>2 DEF FullReload
<1>4. MainInv'
  BY <1>1, <1>2, OthersCurrent DEF MainInv
<1>5. CASE Expire(h)
  <2>1. pc'[h] = "parse" /\ overlapped' = (\E g \in Handlers : pc[g] # "none")
    BY <1>1, <1>5, GotoMoves DEF Expire
  <2>2. OneHandler'
    BY <1>1, <1>2, <2>1 DEF OneHandler
  <2>3. Rerun'
    BY <2>1 DEF Rerun, AboutToRead
  <2> QED
    BY <1>3, <1>4, <2>2, <2>3 DEF RunInv
<1>6. CASE ResetDelayed(h) \/ SetTriggered(h)
  <2>1. /\ UNCHANGED <<timer, overlapped>>
        /\ pc[h] \in {"reset", "trigger"} /\ pc'[h] \in {"trigger", "none"}
    BY <1>1, <1>6, GotoMoves DEF ResetDelayed, SetTriggered, TypeOK
  <2>2. OneHandler'
    BY <1>1, <1>2, <2>1 DEF OneHandler
  <2>3. Rerun => Rerun'
    BY <1>1, <1>2, <2>1 DEF Rerun, AboutToRead
  <2>4. ASSUME NEW g \in Handlers, Current(g)
        PROVE  Current(g)'
    <3>1. CASE g = h
      BY <2>1, <3>1 DEF Current
    <3>2. CASE g # h
      BY <1>1, <1>2, <2>4, <3>2, OthersCurrent
    <3> QED
      BY <3>1, <3>2
  <2>5. AllDue => AllDue'
    <3>1. /\ WillSetFan => WillSetFan'
          /\ WillSetCpu => WillSetCpu'
          /\ WillSetGpu => WillSetGpu'
      BY <1>2, <2>1 DEF WillSetFan, WillSetCpu, WillSetGpu, WillDo
    <3> QED
      BY <1>2, <3>1, DueKept
  <2>6. RunInv'
    BY <1>2, <2>1, <2>3, <2>4, <2>5 DEF RunInv
  <2> QED
    BY <1>3, <1>4, <2>2, <2>6
<1> QED
  BY <1>5, <1>6

(* The main thread outside of set_all() owes nothing itself.               *)
LEMMA MainSettles ==
  ASSUME TypeOK, SettleInv,
         \/ Select \/ Fanset \/ CheckDelayed \/ ExtendDelay \/ Cpuset \/ Reload
         \/ Inotify
  PROVE  SettleInv'
<1> USE DEF SettleInv, Label
<1>1. /\ Main \in Threads /\ Main \notin Handlers
      /\ Handlers \subseteq Threads
  BY ThreadsAssumption DEF Threads
<1>2. /\ UNCHANGED <<profile, online, applied, config, overlapped>>
      /\ pc[Main] \in {"select", "command", "delayed?", "extend", "inotify"}
      /\ pc'[Main] \in {"select", "command", "delayed?", "extend", "inotify", "ac", "parse"}
      /\ pc'[Main] = "parse" => ret'.cmd = "R"
      /\ \A u \in Threads \ {Main} : pc'[u] = pc[u]
  <2>1. CASE Select
    BY <1>1, <2>1, GotoMoves DEF Select
  <2>2. CASE Fanset \/ Cpuset \/ Reload
    BY <1>1, <2>2, GotoMoves DEF Fanset, Cpuset, Reload
  <2>3. CASE CheckDelayed \/ ExtendDelay \/ Inotify
    BY <1>1, <2>3, GotoMoves DEF CheckDelayed, ExtendDelay, Inotify
  <2> QED
    BY <2>1, <2>2, <2>3
<1>3. \A h \in Handlers : acState'[h] = acState[h] /\ powerState'[h] = powerState[h]
  BY <1>1 DEF Select, Fanset, CheckDelayed, ExtendDelay, Cpuset, Reload, Inotify, Forget,
     TypeOK, Threads
<1>4. OneHandler'
  BY <1>1, <1>2 DEF OneHandler
<1>5. FullReload'
  BY <1>2 DEF FullReload
<1>6. MainInv'
  BY <1>2 DEF MainInv, Current
<1>7. \/ UNCHANGED <<timer, changed, lost>>
      \/ lost'
      \/ timer' # "off"
  <2>1. CASE Select \/ Fanset \/ Cpuset \/ Reload
    BY <2>1 DEF Select, Fanset, Cpuset, Reload
  <2>2. CASE CheckDelayed
    BY <2>2, MainDelays, SetTimerArms DEF CheckDelayed
  <2>3. CASE ExtendDelay
    BY <2>3, MainDelays, SetTimerArms DEF ExtendDelay
  <2>4. CASE Inotify
    BY <2>4, SetTimerArms DEF Inotify
  <2> QED
    BY <2>1, <2>2, <2>3, <2>4
<1>8. RunInv'
  <2> SUFFICES ASSUME ~lost', ~overlapped, ~Rerun'
               PROVE  (\A h \in Handlers : Current(h)') /\ AllDue'
    BY <1>2 DEF RunInv
  <2>1. UNCHANGED <<timer, changed, lost>>
    BY <1>7 DEF Rerun
  <2>2. ~Rerun
    BY <1>1, <1>2, <2>1 DEF Rerun, AboutToRead
  <2>3. (\A h \in Handlers : Current(h)) /\ AllDue
    BY <2>1, <2>2 DEF RunInv
  <2>4. \A h \in Handlers : Current(h)'
    BY <1>1, <1>2, <1>3, <2>3, OthersCurrent
  <2>5. /\ WillSetFan => WillSetFan'
        /\ WillSetCpu => WillSetCpu'
        /\ WillSetGpu => WillSetGpu'
    BY <1>2 DEF WillSetFan, WillSetCpu, WillSetGpu, WillDo
  <2>6. AllDue'
    BY <1>2, <2>3, <2>5, DueKept
  <2> QED
    BY <2>4, <2>6
<1> QED
  BY <1>4, <1>5, <1>6, <1>8

LEMMA StepSettles ==
  ASSUME TypeOK, SettleInv, [Next]_vars
  PROVE  SettleInv'
<1>1. CASE UNCHANGED vars
  BY <1>1 DEF vars, SettleInv, OneHandler, FullReload, MainInv, RunInv, Rerun, AboutToRead,
     Current, AllDue, FanDue, CpuDue, GpuDue, WillSetFan, WillSetCpu, WillSetGpu, WillDo,
     PowerState
<1>2. CASE MainStep
  BY <1>2, MainSettles, WorkSettles DEF MainStep, Threads
<1>3. CASE \E h \in Handlers : Expire(h) \/ HandlerStep(h)
  BY <1>3, HandlerSettles, WorkSettles DEF HandlerStep, Threads
<1> QED
  BY <1>1, <1>2, <1>3, EnvironmentSettles DEF Next

(* The daemon settles: for any number of timer threads, configurations,    *)
(* commands, changes and restarts, whenever it is at rest with the current *)
(* legiond.ini, no trigger has been lost and no timer threads overlapped,  *)
(* the fan, the CPU and the GPU have the settings of the power state that  *)
(* the files hold.                                                         *)
THEOREM SettingsSettle == Spec => []Settled
<1>1. Init => SettleInv
  <2> SUFFICES ASSUME Init PROVE SettleInv
    OBVIOUS
  <2>1. pc[Main] = "select" /\ \A h \in Handlers : pc[h] = "none"
    BY ThreadsAssumption DEF Init, Idle, Threads
  <2> QED
    BY <2>1 DEF Init, SettleInv, OneHandler, FullReload, MainInv, Current, RunInv, Rerun
<1>2. TypeOK /\ SettleInv /\ [Next]_vars => SettleInv'
  BY StepSettles
<1>3. SettleInv => Settled
  <2> SUFFICES ASSUME SettleInv, Quiet, ~lost, ~overlapped, config = ini
               PROVE  InEffect
    BY DEF Settled
  <2>1. \A t \in Threads : pc[t] \in {"select", "none"}
    BY DEF Quiet, Idle
  <2>2. ~Rerun /\ ~WillSetFan /\ ~WillSetCpu /\ ~WillSetGpu
    BY <2>1 DEF Quiet, Rerun, AboutToRead, WillSetFan, WillSetCpu, WillSetGpu, WillDo,
       Threads
  <2>3. AllDue
    BY <2>2 DEF SettleInv, RunInv
  <2> QED
    BY <2>2, <2>3 DEF InEffect, AllDue, FanDue, CpuDue, GpuDue
<1> QED
  BY <1>1, <1>2, <1>3, LegiondTypeCorrect, PTL DEF Spec
================================================================================
