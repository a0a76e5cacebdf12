---------------------------- MODULE PowerMode_proofs ----------------------------
(***************************************************************************)
(* Whatever files, keys, the kernel's profile and the unloading do, in any *)
(* interleaving and with any failures: who listens to the notifications    *)
(* knows the mode, the remembered default is the fan curve loaded last,    *)
(* and toggling leaves no mode that nobody has asked for.                  *)
(***************************************************************************)
EXTENDS PowerMode, FiniteSetTheorems, SequenceTheorems, TLAPS

(***************************************************************************)
(* The inductive invariant.                                                *)
(***************************************************************************)

(* Users' threads are in handlers of files, the thread of events sleeps,   *)
(* and that of legion_remove() toggles once the WMI driver is gone.        *)
PlaceInv ==
  /\ \A t \in Threads : pc[t] \notin {"old", "away", "back", "done"}
  /\ pc[Event] \in {"idle", "sleep"}
  /\ pc[Remover] \in {"idle", "old", "away", "back", "done"}
  /\ registered <=> pc[Remover] = "idle"

CallInv ==
  \A t \in Threads :
    /\ pc[t] = "lock" => call[t].op \in {"store", "defaults", "show"}
    /\ call[t].op = "defaults" => call[t].val \in WmiModes
    /\ pc[t] \in {"load", "remember"} => call[t].op = "defaults"

(* fancurve_mutex.                                                         *)
Inside(t) ==
  \/ pc[t] \in {"load", "remember", "read"}
  \/ pc[t] = "write" /\ call[t].op = "store"

MutexInv == \A t \in Threads : Inside(t) => holder = t

(* Whoever asked for a change that is due notifies later, or early says    *)
(* that a notification came before it.                                     *)
DueInv ==
  \A i \in DOMAIN due :
    /\ due[i].by \in Threads => early \/ pc[due[i].by] = "sleep"
    /\ due[i].by = Event /\ registered => events > 0 \/ pc[Event] = "sleep"
    /\ due[i].by = Remover => ~registered

ListenInv ==
  /\ registered /\ ~told /\ ~early /\ events = 0
  /\ \A t \in Threads \cup {Event} : pc[t] # "sleep"
  => heard = Profile(Mode(hw))

(* Between loading and remembering the mutex keeps others away.            *)
TableInv ==
  /\ \A t \in Threads : pc[t] = "remember" => table \in {0, call[t].val}
  /\ (\A t \in Threads : pc[t] # "remember") /\ memory # 0 /\ table # 0 =>
       table = memory

ForgetInv ==
  \A t \in Threads : pc[t] = "forget" /\ ~moved[t] => read[t] = Mode(hw)

(* Unless the old mode was misread: every mode that is due was asked for,  *)
(* so is that of the hardware but where toggle_powermode() has gone away,  *)
(* which needs the controller's numbering, and the one it remembers.       *)
ToggleInv ==
  ~misread =>
    /\ \/ pc[Remover] \in {"away", "done"}
       \/ pc[Remover] = "back" /\ method = "WMI"
       => hw \in asked
    /\ pc[Remover] \in {"away", "back", "done"} =>
         \A i \in DOMAIN due : due[i].mode \in asked
    /\ pc[Remover] \in {"away", "back"} =>
         \E m \in NativeModes : m \in asked /\ read[Remover] = Mode(m)

IInv ==
  TypeOK /\ PlaceInv /\ CallInv /\ MutexInv /\ DueInv /\ ListenInv /\ TableInv
  /\ ForgetInv /\ ToggleInv

------------------------------------------------------------------------------
(* The two numberings agree: a mode of the hardware comes back when it is  *)
(* read and written again, and no number leads out of the modes.           *)
LEMMA Numbering ==
  ASSUME method \in {"EC", "WMI"}
  PROVE  /\ \A m \in NativeModes : Mode(m) \in WmiModes
         /\ method = "EC" => /\ \A v : WmiToEc(v) \in NativeModes
                             /\ \A m \in NativeModes : WmiToEc(Mode(m)) = m
         /\ method = "WMI" => /\ NativeModes = WmiModes
                              /\ \A m \in NativeModes : Mode(m) = m /\ Byte(m) = m
<1>1. CASE method = "EC"
  <2>1. NativeModes = {WmiToEc(m) : m \in WmiModes}
    BY <1>1 DEF NativeModes, Native
  <2>2. WmiToEc(1) = 2 /\ WmiToEc(2) = 0 /\ WmiToEc(3) = 1 /\ WmiToEc(255) = 3
        /\ WmiToEc(224) = 7
    BY DEF WmiToEc
  <2>3. NativeModes = {0, 1, 2, 3, 7}
    BY <2>1, <2>2 DEF WmiModes, Balanced, Custom
  <2>4. \A v : WmiToEc(v) \in {0, 1, 2, 3, 7}
    BY DEF WmiToEc
  <2>5. EcToWmi(2) = 1 /\ EcToWmi(0) = 2 /\ EcToWmi(1) = 3 /\ EcToWmi(3) = 255
        /\ EcToWmi(7) = 224
    BY DEF EcToWmi
  <2>6. \A m \in {0, 1, 2, 3, 7} : EcToWmi(m) \in WmiModes /\ WmiToEc(EcToWmi(m)) = m
    BY <2>2, <2>5 DEF WmiModes, Balanced, Custom
  <2> QED  BY <1>1, <2>3, <2>4, <2>6 DEF Mode
<1>2. CASE method = "WMI"
  <2>1. NativeModes = WmiModes
    BY <1>2 DEF NativeModes, Native
  <2>2. \A m \in WmiModes : Mode(m) = m /\ Byte(m) = m
    BY <1>2 DEF Mode, Byte, WmiModes, Balanced, Custom
  <2> QED  BY <1>2, <2>1, <2>2
<1> QED  BY <1>1, <1>2

LEMMA ProfileIs == \A m : Profile(m) \in ProfileModes \cup {-1}
BY DEF Profile

(* The first of the changes that are due, and a further one.               *)
LEMMA FirstDue ==
  ASSUME NEW S, NEW s \in Seq(S), s # << >>
  PROVE  /\ Tail(s) \in Seq(S) /\ Head(s) = s[1] /\ s[1] \in S /\ 1 \in DOMAIN s
         /\ Len(Tail(s)) = Len(s) - 1
         /\ \A i \in DOMAIN Tail(s) : i + 1 \in DOMAIN s /\ Tail(s)[i] = s[i + 1]
<1>1. /\ Tail(s) \in Seq(S) /\ Len(Tail(s)) = Len(s) - 1 /\ Head(s) = s[1] /\ Head(s) \in S
      /\ \A i \in 1 .. Len(Tail(s)) : Tail(s)[i] = s[i + 1]
      /\ Len(s) \in Nat /\ Len(s) > 0
  BY HeadTailProperties, LenProperties, EmptySeq
<1>2. DOMAIN s = 1 .. Len(s) /\ DOMAIN Tail(s) = 1 .. Len(Tail(s))
  BY <1>1, LenProperties
<1> QED  BY <1>1, <1>2

LEMMA OneMoreDue ==
  ASSUME NEW S, NEW s \in Seq(S), NEW d \in S, NEW a, a = Append(s, d)
  PROVE  /\ a \in Seq(S) /\ a # << >> /\ Len(a) = Len(s) + 1 /\ a[Len(a)] = d
         /\ \A i \in DOMAIN a : \/ i \in DOMAIN s /\ a[i] = s[i]
                                \/ a[i] = d
<1>1. /\ a \in Seq(S) /\ Len(a) = Len(s) + 1 /\ a[Len(s) + 1] = d
      /\ \A i \in 1 .. Len(s) : a[i] = s[i]
      /\ Len(s) \in Nat
  BY AppendProperties, LenProperties
<1>2. DOMAIN s = 1 .. Len(s) /\ DOMAIN a = 1 .. Len(a)
  BY <1>1, LenProperties
<1>3. a # << >>
  BY <1>1, EmptySeq
<1> QED  BY <1>1, <1>2, <1>3

(* A thread that has waited long enough: its changes have been done.       *)
LEMMA WaitedFor ==
  ASSUME NEW S, due \in Seq(S), NEW t, ~WaitsFor(t), t = Event => events = 0
  PROVE  \A i \in DOMAIN due : due[i].by # t
<1> DEFINE D == {i \in DOMAIN due : due[i].by = t}
<1>1. D \subseteq 1 .. Len(due) /\ Len(due) \in Nat
  BY LenProperties
<1>2. IsFiniteSet(D) /\ Cardinality(D) \in Nat
  <2> HIDE DEF D
  <2>1. IsFiniteSet(1 .. Len(due))
    BY <1>1, FS_Interval
  <2>2. IsFiniteSet(D)
    BY <1>1, <2>1, FS_Subset
  <2> QED  BY <2>2, FS_CardinalityType
<1>3. ~(Cardinality(D) > 0)
  BY DEF WaitsFor
<1> HIDE DEF D
<1>4. D = {}
  BY <1>2, <1>3, FS_EmptySet
<1> QED  BY <1>4 DEF D

(* The parts of the invariant that the steps need.                         *)
DueChanges == [mode : NativeModes, by : All]

LEMMA Types ==
  ASSUME IInv
  PROVE  /\ method \in {"EC", "WMI"} /\ hw \in NativeModes /\ due \in Seq(DueChanges)
         /\ \A i \in DOMAIN due : due[i].mode \in NativeModes /\ due[i].by \in All
         /\ DOMAIN pc = All /\ DOMAIN call = All /\ DOMAIN read = All /\ DOMAIN moved = All
         /\ PlaceInv /\ CallInv /\ MutexInv /\ DueInv /\ ListenInv /\ TableInv
         /\ ForgetInv /\ ToggleInv
<1>1. due \in Seq(DueChanges)
  BY DEF IInv, TypeOK, DueChanges
<1>2. \A i \in DOMAIN due : due[i] \in DueChanges
  BY <1>1
<1>3. \A d \in DueChanges : d.mode \in NativeModes /\ d.by \in All
  BY DEF DueChanges
<1> QED  BY <1>1, <1>2, <1>3 DEF IInv, TypeOK

LEMMA Threaded ==
  /\ Event \in All /\ Remover \in All /\ Threads \subseteq All
  /\ Event \notin Threads /\ Remover \notin Threads /\ Event # Remover
  /\ \A t \in All : t \in Threads \/ t = Event \/ t = Remover
BY ThreadsAssumption DEF All

------------------------------------------------------------------------------
(* What a step that stays inside a handler of a file leaves alone: the     *)
(* changes that are due, the notifications and the toggling.               *)
LEMMA FileSteps ==
  ASSUME IInv, NEW t \in Threads, pc[t] # "sleep",
         NEW l \in {"idle", "lock", "write", "load", "remember", "read", "forget"},
         pc' = [pc EXCEPT ![t] = l],
         UNCHANGED <<method, hw, due, registered, events, told, heard, early, asked,
                     misread>>,
         read'[Remover] = read[Remover]
  PROVE  /\ PlaceInv' /\ DueInv' /\ ListenInv' /\ ToggleInv'
         /\ pc' \in [All -> {"idle", "lock", "write", "load", "remember", "read",
                             "forget", "sleep", "old", "away", "back", "done"}]
         /\ pc'[t] = l /\ \A u \in All : u # t => pc'[u] = pc[u]
<1>1. /\ pc' \in [All -> {"idle", "lock", "write", "load", "remember", "read",
                          "forget", "sleep", "old", "away", "back", "done"}]
      /\ pc'[t] = l /\ \A u \in All : u # t => pc'[u] = pc[u]
  BY Threaded DEF IInv, TypeOK
<1>2. pc'[Event] = pc[Event] /\ pc'[Remover] = pc[Remover]
  BY <1>1, Threaded
<1>3. PlaceInv'
  BY <1>1, <1>2, Threaded, Types DEF PlaceInv
<1>4. \A u \in All : (pc'[u] = "sleep") <=> (pc[u] = "sleep")
  BY <1>1
<1>5. NativeModes' = NativeModes
  BY DEF NativeModes, Native
<1>6. DueInv'
  BY <1>4, Types, Threaded DEF DueInv
<1>7. Profile(Mode(hw))' = Profile(Mode(hw))
  BY DEF Profile, Mode
<1>8. ListenInv'
  BY <1>4, <1>7, Types, Threaded DEF ListenInv
<1>9. \A m : Mode(m)' = Mode(m)
  BY DEF Mode
<1>10. ToggleInv'
  BY <1>2, <1>5, <1>9, Types DEF ToggleInv
<1> QED  BY <1>1, <1>3, <1>6, <1>8, <1>10

(* What a step of others leaves alone in the handlers of the files: a      *)
(* change of the mode takes the fan curve away and is noticed.             *)
LEMMA OtherSteps ==
  ASSUME IInv, UNCHANGED <<method, holder, memory>>,
         \A u \in Threads : pc'[u] = pc[u] /\ call'[u] = call[u] /\ read'[u] = read[u],
         table' = table \/ table' = 0,
         \A u \in Threads : pc[u] = "forget" /\ ~moved'[u] => ~moved[u] /\ hw' = hw
  PROVE  CallInv' /\ MutexInv' /\ TableInv' /\ ForgetInv'
<1>1. CallInv'
  BY Types DEF CallInv
<1>2. MutexInv'
  BY Types DEF MutexInv, Inside
<1>3. TableInv'
  BY Types DEF TableInv
<1>4. ForgetInv'
  <2>1. \A u \in Threads : pc'[u] = "forget" /\ ~moved'[u] =>
          read'[u] = Mode(hw) /\ hw' = hw
    BY Types DEF ForgetInv
  <2> QED  BY <2>1 DEF ForgetInv, Mode
<1> QED  BY <1>1, <1>2, <1>3, <1>4

(* A change of the mode in the hardware.                                   *)
LEMMA SelectDoes ==
  ASSUME IInv, NEW m \in NativeModes, Select(m), method' = method
  PROVE  /\ hw' = m /\ hw' \in NativeModes'
         /\ table' = table \/ table' = 0
         /\ moved' \in [All -> BOOLEAN]
         /\ \A u \in All : pc[u] = "forget" /\ ~moved'[u] => ~moved[u] /\ hw' = hw
<1>1. NativeModes' = NativeModes
  BY DEF NativeModes, Native
<1>2. moved \in [All -> BOOLEAN]
  BY DEF IInv, TypeOK
<1>3. hw' = m /\ (table' = table \/ table' = 0)
  BY DEF Select
<1>4. moved' = [u \in All |-> moved[u] \/ (pc[u] = "forget" /\ m # hw)]
  BY DEF Select
<1>5. moved' \in [All -> BOOLEAN]
  BY <1>2, <1>4
<1>6. \A u \in All : moved'[u] = (moved[u] \/ (pc[u] = "forget" /\ m # hw))
  BY <1>4
<1>7. \A u \in All : pc[u] = "forget" /\ ~moved'[u] => ~moved[u] /\ hw' = hw
  BY <1>3, <1>6
<1> QED  BY <1>1, <1>3, <1>5, <1>7

(* write_powermode, accepted: the mode is another at once, or one more     *)
(* change is due.                                                          *)
LEMMA WriteDoes ==
  ASSUME IInv, NEW t \in All, NEW v, Write(t, v), method' = method
  PROVE  /\ hw' \in NativeModes' /\ due' \in Seq(DueChanges) /\ DueChanges' = DueChanges
         /\ table' = table \/ table' = 0
         /\ moved' \in [All -> BOOLEAN]
         /\ \A u \in All : pc[u] = "forget" /\ ~moved'[u] => ~moved[u] /\ hw' = hw
         /\ \/ method = "EC" /\ hw' = Meant(v) /\ due' = due
            \/ /\ method = "WMI" /\ hw' = hw /\ Byte(v) \in WmiModes
               /\ due' # << >>
         /\ Meant(v) \in NativeModes
         /\ \A i \in DOMAIN due' : \/ i \in DOMAIN due /\ due'[i] = due[i]
                                   \/ due'[i].by = t /\ due'[i].mode = Meant(v)
<1>1. DueChanges' = DueChanges /\ NativeModes' = NativeModes
  BY DEF DueChanges, NativeModes, Native
<1>2. CASE method = "EC"
  <2>1. Select(Meant(v)) /\ due' = due
    BY <1>2 DEF Write, Meant
  <2>2. Meant(v) \in NativeModes
    BY <1>2, Numbering DEF Meant
  <2>3. /\ hw' = Meant(v) /\ hw' \in NativeModes'
        /\ table' = table \/ table' = 0
        /\ moved' \in [All -> BOOLEAN]
        /\ \A u \in All : pc[u] = "forget" /\ ~moved'[u] => ~moved[u] /\ hw' = hw
    BY <2>1, <2>2, SelectDoes
  <2> QED  BY <1>1, <1>2, <2>1, <2>2, <2>3, Types
<1>3. CASE method = "WMI"
  <2> DEFINE d == [mode |-> Byte(v), by |-> t]
  <2>1. due' = Append(due, d) /\ Byte(v) \in WmiModes /\ hw' = hw /\ table' = table
        /\ moved' = moved
    BY <1>3 DEF Write, KeepMode
  <2>2. /\ d \in DueChanges /\ d.by = t /\ d.mode = Meant(v)
        /\ Meant(v) \in NativeModes
    BY <1>3, <2>1, Numbering DEF DueChanges, Meant
  <2>3. due \in Seq(DueChanges) /\ hw \in NativeModes
    BY Types
  <2>4. moved \in [All -> BOOLEAN]
    BY DEF IInv, TypeOK
  <2> HIDE DEF d
  <2>5. /\ due' \in Seq(DueChanges) /\ due' # << >>
        /\ \A i \in DOMAIN due' : \/ i \in DOMAIN due /\ due'[i] = due[i]
                                  \/ due'[i] = d
    BY <2>1, <2>2, <2>3, OneMoreDue
  <2> QED  BY <1>1, <1>3, <2>1, <2>2, <2>3, <2>4, <2>5
<1> QED  BY <1>2, <1>3, Types

(* write_powermode, refused.                                               *)
LEMMA RefuseDoes ==
  ASSUME IInv, NEW v, Refuse(v)
  PROVE  /\ UNCHANGED <<hw, table, moved, due>> /\ failures' \in 0 .. MaxFailures
BY BoundsAssumption DEF Refuse, KeepMode, Failing, CanFail, IInv, TypeOK

(* read_powermode: the mode, or anything.                                  *)
LEMMA ReadDoes ==
  ASSUME IInv, NEW t \in All, Read(t)
  PROVE  /\ read' \in [All -> {0} \cup WmiModes \cup Values]
         /\ failures' \in 0 .. MaxFailures
         /\ \A u \in All : u # t => read'[u] = read[u]
         /\ failures' = failures => read'[t] = Mode(hw)
<1>1. Mode(hw) \in WmiModes
  BY Types, Numbering
<1>2. read \in [All -> {0} \cup WmiModes \cup Values] /\ failures \in 0 .. MaxFailures
  BY DEF IInv, TypeOK
<1>3. CASE read' = [read EXCEPT ![t] = Mode(hw)] /\ UNCHANGED failures
  BY <1>1, <1>2, <1>3
<1>4. CASE Failing /\ \E v \in Values : read' = [read EXCEPT ![t] = v]
  <2>1. failures' = failures + 1 /\ failures < MaxFailures
    BY <1>4 DEF Failing, CanFail
  <2>2. failures' # failures /\ failures' \in 0 .. MaxFailures
    BY <1>2, <2>1, BoundsAssumption
  <2> QED  BY <1>2, <1>4, <2>2
<1> QED  BY <1>3, <1>4 DEF Read

(* Somebody else asks for a mode, which is set or due from then on.        *)
LEMMA AskDoes ==
  ASSUME IInv, NEW m \in NativeModes, Ask(m), UNCHANGED <<method, read>>,
         pc'[Remover] = pc[Remover],
         hw' = hw \/ hw' = m,
         \A i \in DOMAIN due' : \/ i \in DOMAIN due /\ due'[i] = due[i]
                               \/ due'[i].mode = m
  PROVE  /\ ToggleInv'
         /\ asked' \subseteq NativeModes /\ UNCHANGED <<away, misread>>
<1>1. /\ UNCHANGED <<away, misread>> /\ asked \subseteq asked'
      /\ pc[Remover] \in {"away", "back", "done"} => m \in asked'
  BY DEF Ask
<1>2. asked' \subseteq NativeModes
  BY DEF Ask, IInv, TypeOK
<1>3. NativeModes' = NativeModes /\ \A n : Mode(n)' = Mode(n)
  BY DEF NativeModes, Native, Mode
<1>4. ASSUME ~misread
      PROVE  /\ \/ pc[Remover] \in {"away", "done"}
                \/ pc[Remover] = "back" /\ method = "WMI"
                => hw' \in asked'
             /\ pc[Remover] \in {"away", "back", "done"} =>
                  \A i \in DOMAIN due' : due'[i].mode \in asked'
             /\ pc[Remover] \in {"away", "back"} =>
                  \E n \in NativeModes : n \in asked' /\ read[Remover] = Mode(n)
  BY <1>1, <1>4, Types DEF ToggleInv
<1> QED  BY <1>1, <1>2, <1>3, <1>4 DEF ToggleInv

------------------------------------------------------------------------------
(* The handlers of the files.                                              *)
LEMMA BeginKeeps ==
  ASSUME IInv, NEW t \in Threads, NEW op \in {"store", "profile", "defaults", "show"},
         NEW v \in Values \cup {0}, Begin(t, op, v)
  PROVE  IInv'
<1> DEFINE l == IF op = "profile" THEN "write" ELSE "lock"
           r == [op |-> op, val |-> v]
<1>1. /\ pc[t] = "idle" /\ pc' = [pc EXCEPT ![t] = l] /\ call' = [call EXCEPT ![t] = r]
      /\ calls' = calls + 1 /\ calls < MaxCalls
      /\ UNCHANGED <<method, hw, due, table, memory, holder, read, registered, events,
                     told, heard, early, keys, failures, moved, asked, away, misread>>
  BY DEF Begin, listenVars, toggleVars
<1>2. /\ v \in {0} \cup Values \cup ProfileModes
      /\ op = "defaults" => v \in WmiModes
  BY DEF Begin
<1>3. r.op = op /\ r.val = v /\ l \in {"write", "lock"}
      /\ (l = "write" <=> op = "profile")
      /\ r \in [op : {"none", "store", "profile", "defaults", "show"},
                val : {0} \cup Values \cup ProfileModes]
  BY <1>2
<1> HIDE DEF l, r
<1>4. /\ PlaceInv' /\ DueInv' /\ ListenInv' /\ ToggleInv'
      /\ pc' \in [All -> {"idle", "lock", "write", "load", "remember", "read",
                          "forget", "sleep", "old", "away", "back", "done"}]
      /\ pc'[t] = l /\ \A u \in All : u # t => pc'[u] = pc[u]
  BY <1>1, <1>3, FileSteps
<1>5. /\ call'[t] = r /\ \A u \in All : u # t => call'[u] = call[u]
      /\ call' \in [All -> [op : {"none", "store", "profile", "defaults", "show"},
                            val : {0} \cup Values \cup ProfileModes]]
  BY <1>1, <1>3, Threaded DEF IInv, TypeOK
<1>6. \A u \in Threads : u # t => pc'[u] = pc[u] /\ call'[u] = call[u]
  BY <1>4, <1>5, Threaded
<1>7. CallInv'
  BY <1>2, <1>3, <1>4, <1>5, <1>6, Types DEF CallInv
<1>8. MutexInv'
  BY <1>1, <1>3, <1>4, <1>5, <1>6, Types DEF MutexInv, Inside
<1>9. TableInv'
  BY <1>1, <1>3, <1>4, <1>6, Types DEF TableInv
<1>10. ForgetInv'
  BY <1>1, <1>3, <1>4, <1>6, Types DEF ForgetInv, Mode
<1>11. TypeOK'
  <2>1. NativeModes' = NativeModes
    BY <1>1 DEF NativeModes, Native
  <2>2. calls' \in 0 .. MaxCalls
    BY <1>1, BoundsAssumption DEF IInv, TypeOK
  <2> QED  BY <1>1, <1>4, <1>5, <2>1, <2>2 DEF IInv, TypeOK
<1> QED  BY <1>4, <1>7, <1>8, <1>9, <1>10, <1>11 DEF IInv

(* The mutex was free: nobody is inside.                                   *)
LEMMA LockKeeps ==
  ASSUME IInv, NEW t \in Threads, Lock(t)
  PROVE  IInv'
<1> DEFINE l == CASE call[t].op = "store" -> "write" [] call[t].op = "defaults" -> "load"
                  [] call[t].op = "show" -> "read"
<1>1. /\ pc[t] = "lock" /\ holder = NoThread /\ holder' = t
      /\ pc' = [pc EXCEPT ![t] = l] /\ call' = call
      /\ UNCHANGED <<method, hw, due, table, memory, read, registered, events, told, heard,
                     early, calls, keys, failures, moved, asked, away, misread>>
  BY DEF Lock, Goto, listenVars, boundVars, toggleVars
<1>2. call[t].op \in {"store", "defaults", "show"}
  BY <1>1, Types DEF CallInv
<1>3. /\ l \in {"write", "load", "read"}
      /\ l = "write" <=> call[t].op = "store"
      /\ l = "load" <=> call[t].op = "defaults"
  BY <1>2
<1> HIDE DEF l
<1>4. /\ PlaceInv' /\ DueInv' /\ ListenInv' /\ ToggleInv'
      /\ pc' \in [All -> {"idle", "lock", "write", "load", "remember", "read",
                          "forget", "sleep", "old", "away", "back", "done"}]
      /\ pc'[t] = l /\ \A u \in All : u # t => pc'[u] = pc[u]
  BY <1>1, <1>3, FileSteps
<1>5. \A u \in Threads : ~Inside(u)
  BY <1>1, Types, ThreadsAssumption DEF MutexInv
<1>6. \A u \in Threads : u # t => pc'[u] = pc[u]
  BY <1>4, Threaded
<1>7. CallInv'
  BY <1>1, <1>3, <1>4, <1>6, Types DEF CallInv
<1>8. MutexInv'
  BY <1>1, <1>5, <1>6 DEF MutexInv, Inside
<1>9. TableInv'
  BY <1>1, <1>3, <1>4, <1>6, Types DEF TableInv
<1>10. ForgetInv'
  BY <1>1, <1>3, <1>4, <1>6, Types DEF ForgetInv, Mode
<1>11. TypeOK'
  <2>1. NativeModes' = NativeModes
    BY <1>1 DEF NativeModes, Native
  <2> QED  BY <1>1, <1>4, <2>1 DEF IInv, TypeOK
<1> QED  BY <1>4, <1>7, <1>8, <1>9, <1>10, <1>11 DEF IInv

(* A handler returns.                                                      *)
LEMMA ReturnDoes ==
  ASSUME IInv, NEW t \in All, Return(t)
  PROVE  /\ pc' = [pc EXCEPT ![t] = "idle"] /\ pc'[t] = "idle"
         /\ \A u \in All : u # t => pc'[u] = pc[u] /\ call'[u] = call[u]
         /\ pc' \in [All -> {"idle", "lock", "write", "load", "remember", "read",
                             "forget", "sleep", "old", "away", "back", "done"}]
         /\ call' \in [All -> [op : {"none", "store", "profile", "defaults", "show"},
                               val : {0} \cup Values \cup ProfileModes]]
         /\ call'[t].op = "none"
<1> DEFINE C == [op : {"none", "store", "profile", "defaults", "show"},
                 val : {0} \cup Values \cup ProfileModes]
<1>1. NoCall \in C /\ NoCall.op = "none"
  BY DEF NoCall
<1>2. call \in [All -> C] /\ pc \in [All -> {"idle", "lock", "write", "load", "remember",
                 "read", "forget", "sleep", "old", "away", "back", "done"}]
  BY DEF IInv, TypeOK
<1>3. call' = [call EXCEPT ![t] = NoCall] /\ pc' = [pc EXCEPT ![t] = "idle"]
  BY DEF Return
<1> HIDE DEF C
<1>4. call' \in [All -> C] /\ call'[t].op = "none"
      /\ \A u \in All : u # t => call'[u] = call[u]
  BY <1>1, <1>2, <1>3
<1>5. /\ pc' \in [All -> {"idle", "lock", "write", "load", "remember", "read",
                          "forget", "sleep", "old", "away", "back", "done"}]
      /\ pc'[t] = "idle" /\ \A u \in All : u # t => pc'[u] = pc[u]
  BY <1>2, <1>3
<1> QED  BY <1>3, <1>4, <1>5 DEF C

(* The firmware loads a table; nobody else can be about to remember one.   *)
LEMMA LoadDefaultsKeeps ==
  ASSUME IInv, NEW t \in Threads, LoadDefaults(t)
  PROVE  IInv'
<1>1. /\ pc[t] = "load" /\ t \in All
      /\ UNCHANGED <<method, hw, due, memory, read, registered, events, told, heard, early,
                     calls, keys, moved, asked, away, misread>>
  BY Threaded DEF LoadDefaults, listenVars, toggleVars
<1>2. /\ call[t].val \in WmiModes /\ call[t].op = "defaults" /\ holder = t
      /\ \A u \in Threads : u # t => ~Inside(u)
  BY <1>1, Types DEF CallInv, MutexInv, Inside
<1>3. NativeModes' = NativeModes
  BY <1>1 DEF NativeModes, Native
<1>4. CASE table' = call[t].val /\ Goto(t, "remember") /\ UNCHANGED <<failures, holder>>
  <2>1. pc' = [pc EXCEPT ![t] = "remember"] /\ call' = call
    BY <1>4 DEF Goto
  <2>2. /\ PlaceInv' /\ DueInv' /\ ListenInv' /\ ToggleInv'
        /\ pc' \in [All -> {"idle", "lock", "write", "load", "remember", "read",
                            "forget", "sleep", "old", "away", "back", "done"}]
        /\ pc'[t] = "remember" /\ \A u \in All : u # t => pc'[u] = pc[u]
    BY <1>1, <2>1, FileSteps
  <2>3. \A u \in Threads : u # t => pc'[u] = pc[u]
    BY <2>2, Threaded
  <2>4. CallInv'
    BY <1>2, <2>1, <2>2, <2>3, Types DEF CallInv
  <2>5. MutexInv'
    BY <1>2, <1>4, <2>1, <2>2, <2>3, Types DEF MutexInv, Inside
  <2>6. TableInv'
    BY <1>2, <1>4, <2>1, <2>2, <2>3 DEF TableInv, Inside
  <2>7. ForgetInv'
    BY <1>1, <2>2, <2>3, Types DEF ForgetInv, Mode
  <2>8. TypeOK'
    BY <1>1, <1>2, <1>3, <1>4, <2>1, <2>2 DEF IInv, TypeOK
  <2> QED  BY <2>2, <2>4, <2>5, <2>6, <2>7, <2>8 DEF IInv
<1>5. CASE Failing /\ holder' = NoThread /\ Return(t) /\ UNCHANGED table
  <2>1. /\ pc' = [pc EXCEPT ![t] = "idle"] /\ pc'[t] = "idle"
        /\ \A u \in All : u # t => pc'[u] = pc[u] /\ call'[u] = call[u]
        /\ call' \in [All -> [op : {"none", "store", "profile", "defaults", "show"},
                              val : {0} \cup Values \cup ProfileModes]]
        /\ call'[t].op = "none"
    BY <1>1, <1>5, ReturnDoes
  <2>2. /\ PlaceInv' /\ DueInv' /\ ListenInv' /\ ToggleInv'
        /\ pc' \in [All -> {"idle", "lock", "write", "load", "remember", "read",
                            "forget", "sleep", "old", "away", "back", "done"}]
    BY <1>1, <2>1, FileSteps
  <2>3. \A u \in Threads : u # t => pc'[u] = pc[u] /\ call'[u] = call[u]
    BY <2>1, Threaded
  <2>4. CallInv'
    BY <2>1, <2>3, Types DEF CallInv
  <2>5. MutexInv'
    BY <1>2, <2>1, <2>3 DEF MutexInv, Inside
  <2>6. TableInv'
    BY <1>1, <1>2, <1>5, <2>1, <2>3, Types DEF TableInv, Inside
  <2>7. ForgetInv'
    BY <1>1, <2>1, <2>3, Types DEF ForgetInv, Mode
  <2>8. failures' \in 0 .. MaxFailures
    BY <1>5, BoundsAssumption DEF Failing, CanFail, IInv, TypeOK
  <2>9. TypeOK'
    BY <1>1, <1>3, <1>5, <2>1, <2>2, <2>8 DEF IInv, TypeOK
  <2> QED  BY <2>2, <2>4, <2>5, <2>6, <2>7, <2>9 DEF IInv
<1> QED  BY <1>4, <1>5 DEF LoadDefaults

LEMMA RememberKeeps ==
  ASSUME IInv, NEW t \in Threads, Remember(t)
  PROVE  IInv'
<1>1. /\ pc[t] = "remember" /\ t \in All /\ memory' = call[t].val
      /\ holder' = NoThread /\ Return(t)
      /\ UNCHANGED <<method, hw, due, table, read, registered, events, told, heard, early,
                     calls, keys, failures, moved, asked, away, misread>>
  BY Threaded DEF Remember, listenVars, boundVars, toggleVars
<1>2. /\ call[t].val \in WmiModes /\ table \in {0, call[t].val}
      /\ \A u \in Threads : u # t => ~Inside(u)
  BY <1>1, Types DEF CallInv, MutexInv, TableInv, Inside
<1>3. /\ pc' = [pc EXCEPT ![t] = "idle"] /\ pc'[t] = "idle"
      /\ \A u \in All : u # t => pc'[u] = pc[u] /\ call'[u] = call[u]
      /\ call' \in [All -> [op : {"none", "store", "profile", "defaults", "show"},
                            val : {0} \cup Values \cup ProfileModes]]
      /\ call'[t].op = "none"
  BY <1>1, ReturnDoes
<1>4. /\ PlaceInv' /\ DueInv' /\ ListenInv' /\ ToggleInv'
      /\ pc' \in [All -> {"idle", "lock", "write", "load", "remember", "read",
                          "forget", "sleep", "old", "away", "back", "done"}]
  BY <1>1, <1>3, FileSteps
<1>5. \A u \in Threads : u # t => pc'[u] = pc[u] /\ call'[u] = call[u]
  BY <1>3, Threaded
<1>6. CallInv'
  BY <1>3, <1>5, Types DEF CallInv
<1>7. MutexInv'
  BY <1>2, <1>3, <1>5 DEF MutexInv, Inside
<1>8. TableInv'
  BY <1>1, <1>2, <1>3, <1>5 DEF TableInv, Inside
<1>9. ForgetInv'
  BY <1>1, <1>3, <1>5, Types DEF ForgetInv, Mode
<1>10. TypeOK'
  <2>1. NativeModes' = NativeModes
    BY <1>1 DEF NativeModes, Native
  <2> QED  BY <1>1, <1>2, <1>3, <1>4, <2>1 DEF IInv, TypeOK
<1> QED  BY <1>4, <1>6, <1>7, <1>8, <1>9, <1>10 DEF IInv

LEMMA ReadForShowKeeps ==
  ASSUME IInv, NEW t \in Threads, ReadForShow(t)
  PROVE  IInv'
<1>1. /\ pc[t] = "read" /\ t \in All /\ Read(t)
      /\ moved' = [moved EXCEPT ![t] = read'[t] # Mode(hw)]
      /\ holder' = NoThread
      /\ pc' = [pc EXCEPT ![t] = "forget"] /\ call' = call
      /\ UNCHANGED <<method, hw, due, table, memory, registered, events, told, heard, early,
                     calls, keys, asked, away, misread>>
  BY Threaded DEF ReadForShow, Goto, listenVars, toggleVars
<1>2. /\ read' \in [All -> {0} \cup WmiModes \cup Values]
      /\ failures' \in 0 .. MaxFailures
      /\ \A u \in All : u # t => read'[u] = read[u]
  BY <1>1, ReadDoes
<1>3. /\ PlaceInv' /\ DueInv' /\ ListenInv' /\ ToggleInv'
      /\ pc' \in [All -> {"idle", "lock", "write", "load", "remember", "read",
                          "forget", "sleep", "old", "away", "back", "done"}]
      /\ pc'[t] = "forget" /\ \A u \in All : u # t => pc'[u] = pc[u]
  BY <1>1, <1>2, Threaded, FileSteps
<1>4. /\ moved' \in [All -> BOOLEAN] /\ moved'[t] = (read'[t] # Mode(hw))
      /\ \A u \in All : u # t => moved'[u] = moved[u]
  BY <1>1 DEF IInv, TypeOK
<1>5. \A u \in Threads : u # t => pc'[u] = pc[u] /\ read'[u] = read[u] /\ moved'[u] = moved[u]
  BY <1>2, <1>3, <1>4, Threaded
<1>6. \A u \in Threads : u # t => ~Inside(u)
  BY <1>1, Types DEF MutexInv, Inside
<1>7. CallInv'
  BY <1>1, <1>3, <1>5, Types DEF CallInv
<1>8. MutexInv'
  BY <1>1, <1>3, <1>5, <1>6 DEF MutexInv, Inside
<1>9. TableInv'
  BY <1>1, <1>3, <1>5, <1>6, Types DEF TableInv, Inside
<1>10. ForgetInv'
  <2>1. Mode(hw)' = Mode(hw)
    BY <1>1 DEF Mode
  <2> QED  BY <1>4, <1>5, <2>1, Types DEF ForgetInv
<1>11. TypeOK'
  <2>1. NativeModes' = NativeModes
    BY <1>1 DEF NativeModes, Native
  <2> QED  BY <1>1, <1>2, <1>3, <1>4, <2>1, Zenon DEF IInv, TypeOK
<1> QED  BY <1>3, <1>7, <1>8, <1>9, <1>10, <1>11 DEF IInv

LEMMA ForgetKeeps ==
  ASSUME IInv, NEW t \in Threads, Forget(t)
  PROVE  IInv'
<1>1. /\ pc[t] = "forget" /\ t \in All /\ Return(t)
      /\ memory' = memory \/ memory' = 0
      /\ read' = [read EXCEPT ![t] = 0] /\ moved' = [moved EXCEPT ![t] = FALSE]
      /\ UNCHANGED <<method, hw, due, table, holder, registered, events, told, heard, early,
                     calls, keys, failures, asked, away, misread>>
  BY Threaded DEF Forget, listenVars, boundVars, toggleVars
<1>2. /\ read' \in [All -> {0} \cup WmiModes \cup Values] /\ moved' \in [All -> BOOLEAN]
      /\ \A u \in All : u # t => read'[u] = read[u] /\ moved'[u] = moved[u]
  BY <1>1 DEF IInv, TypeOK
<1>3. /\ pc' = [pc EXCEPT ![t] = "idle"] /\ pc'[t] = "idle"
      /\ \A u \in All : u # t => pc'[u] = pc[u] /\ call'[u] = call[u]
      /\ call' \in [All -> [op : {"none", "store", "profile", "defaults", "show"},
                            val : {0} \cup Values \cup ProfileModes]]
      /\ call'[t].op = "none"
  BY <1>1, ReturnDoes
<1>4. /\ PlaceInv' /\ DueInv' /\ ListenInv' /\ ToggleInv'
      /\ pc' \in [All -> {"idle", "lock", "write", "load", "remember", "read",
                          "forget", "sleep", "old", "away", "back", "done"}]
  BY <1>1, <1>2, <1>3, Threaded, FileSteps
<1>5. \A u \in Threads : u # t => /\ pc'[u] = pc[u] /\ call'[u] = call[u]
                                  /\ read'[u] = read[u] /\ moved'[u] = moved[u]
  BY <1>2, <1>3, Threaded
<1>6. CallInv'
  BY <1>3, <1>5, Types DEF CallInv
<1>7. MutexInv'
  BY <1>1, <1>3, <1>5, Types DEF MutexInv, Inside
<1>8. TableInv'
  BY <1>1, <1>3, <1>5, Types DEF TableInv
<1>9. ForgetInv'
  BY <1>1, <1>3, <1>5, Types DEF ForgetInv, Mode
<1>10. TypeOK'
  <2>1. NativeModes' = NativeModes
    BY <1>1 DEF NativeModes, Native
  <2>2. memory' \in {0} \cup WmiModes
    BY <1>1 DEF IInv, TypeOK
  <2> QED  BY <1>1, <1>2, <1>3, <1>4, <2>1, <2>2 DEF IInv, TypeOK
<1> QED  BY <1>4, <1>6, <1>7, <1>8, <1>9, <1>10 DEF IInv

(* powermode_store: a change that is accepted is followed by sleeping.     *)
LEMMA StoreModeKeeps ==
  ASSUME IInv, NEW t \in Threads, StoreMode(t)
  PROVE  IInv'
<1>1. /\ pc[t] = "write" /\ call[t].op = "store" /\ t \in All /\ holder' = NoThread
      /\ UNCHANGED <<method, memory, read, registered, events, told, heard, early, calls,
                     keys>>
  BY Threaded DEF StoreMode, listenVars
<1>2. \A u \in Threads : u # t => ~Inside(u)
  BY <1>1, Types DEF MutexInv, Inside
<1>3. CASE /\ Write(t, call[t].val) /\ UNCHANGED failures
           /\ Goto(t, "sleep") /\ Ask(Meant(call[t].val))
  <2>1. pc' = [pc EXCEPT ![t] = "sleep"] /\ call' = call
    BY <1>3 DEF Goto
  <2>2. /\ pc' \in [All -> {"idle", "lock", "write", "load", "remember", "read",
                            "forget", "sleep", "old", "away", "back", "done"}]
        /\ pc'[t] = "sleep" /\ \A u \in All : u # t => pc'[u] = pc[u]
    BY <1>1, <2>1 DEF IInv, TypeOK
  <2>3. /\ hw' \in NativeModes' /\ due' \in Seq(DueChanges) /\ DueChanges' = DueChanges
        /\ table' = table \/ table' = 0
        /\ moved' \in [All -> BOOLEAN]
        /\ \A u \in All : pc[u] = "forget" /\ ~moved'[u] => ~moved[u] /\ hw' = hw
        /\ hw' = hw \/ hw' = Meant(call[t].val)
        /\ Meant(call[t].val) \in NativeModes
        /\ \A i \in DOMAIN due' : \/ i \in DOMAIN due /\ due'[i] = due[i]
                                  \/ due'[i].by = t /\ due'[i].mode = Meant(call[t].val)
    BY <1>1, <1>3, WriteDoes
  <2>4. \A u \in Threads : u # t => pc'[u] = pc[u]
    BY <2>2, Threaded
  <2>5. pc'[Event] = pc[Event] /\ pc'[Remover] = pc[Remover]
    BY <2>2, Threaded
  <2>6. PlaceInv'
    BY <1>1, <2>2, <2>4, <2>5, Types DEF PlaceInv
  <2>7. CallInv'
    BY <2>1, <2>2, <2>4, Types DEF CallInv
  <2>8. MutexInv'
    BY <1>2, <2>1, <2>2, <2>4 DEF MutexInv, Inside
  <2>9. DueInv'
    <3>1. \A u \in Threads : pc[u] = "sleep" => pc'[u] = "sleep"
      BY <2>2, <2>4
    <3>2. ASSUME NEW i \in DOMAIN due'
          PROVE  /\ due'[i].by \in Threads => early' \/ pc'[due'[i].by] = "sleep"
                 /\ due'[i].by = Event /\ registered' => events' > 0 \/ pc'[Event] = "sleep"
                 /\ due'[i].by = Remover => ~registered'
      <4>1. CASE i \in DOMAIN due /\ due'[i] = due[i]
        BY <1>1, <2>5, <3>1, <4>1, Types DEF DueInv
      <4>2. CASE due'[i].by = t
        BY <2>2, <4>2, Threaded
      <4> QED  BY <2>3, <3>2, <4>1, <4>2
    <3> QED  BY <3>2 DEF DueInv
  <2>10. ListenInv'
    BY <2>2 DEF ListenInv
  <2>11. TableInv'
    BY <1>1, <1>2, <2>1, <2>2, <2>3, <2>4, Types DEF TableInv, Inside
  <2>12. ForgetInv'
    <3>1. \A u \in Threads : pc'[u] = "forget" /\ ~moved'[u] =>
            read'[u] = Mode(hw) /\ hw' = hw
      BY <1>1, <2>2, <2>3, <2>4, Types, Threaded DEF ForgetInv
    <3> QED  BY <1>1, <3>1 DEF ForgetInv, Mode
  <2>13. /\ ToggleInv'
         /\ asked' \subseteq NativeModes /\ UNCHANGED <<away, misread>>
    BY <1>1, <1>3, <2>3, <2>5, AskDoes
  <2>14. TypeOK'
    <3>1. NativeModes' = NativeModes
      BY <1>1 DEF NativeModes, Native
    <3>2. table' \in {0} \cup WmiModes
      BY <2>3 DEF IInv, TypeOK
    <3> QED  BY <1>1, <1>3, <2>1, <2>2, <2>3, <2>13, <3>1, <3>2
             DEF IInv, TypeOK, DueChanges
  <2> QED  BY <2>6, <2>7, <2>8, <2>9, <2>10, <2>11, <2>12, <2>13, <2>14 DEF IInv
<1>4. CASE Refuse(call[t].val) /\ Return(t) /\ UNCHANGED <<asked, away, misread>>
  <2>1. /\ pc' = [pc EXCEPT ![t] = "idle"] /\ pc'[t] = "idle"
        /\ \A u \in All : u # t => pc'[u] = pc[u] /\ call'[u] = call[u]
        /\ call' \in [All -> [op : {"none", "store", "profile", "defaults", "show"},
                              val : {0} \cup Values \cup ProfileModes]]
        /\ call'[t].op = "none"
    BY <1>1, <1>4, ReturnDoes
  <2>2. UNCHANGED <<hw, table, moved, due>> /\ failures' \in 0 .. MaxFailures
    BY <1>4, RefuseDoes
  <2>3. /\ PlaceInv' /\ DueInv' /\ ListenInv' /\ ToggleInv'
        /\ pc' \in [All -> {"idle", "lock", "write", "load", "remember", "read",
                            "forget", "sleep", "old", "away", "back", "done"}]
    BY <1>1, <1>4, <2>1, <2>2, FileSteps
  <2>4. \A u \in Threads : u # t => pc'[u] = pc[u] /\ call'[u] = call[u]
    BY <2>1, Threaded
  <2>5. CallInv'
    BY <2>1, <2>4, Types DEF CallInv
  <2>6. MutexInv'
    BY <1>2, <2>1, <2>4 DEF MutexInv, Inside
  <2>7. TableInv'
    BY <1>1, <1>2, <2>1, <2>2, <2>4, Types DEF TableInv, Inside
  <2>8. ForgetInv'
    BY <1>1, <2>1, <2>2, <2>4, Types DEF ForgetInv, Mode
  <2>9. TypeOK'
    <3>1. NativeModes' = NativeModes
      BY <1>1 DEF NativeModes, Native
    <3> QED  BY <1>1, <1>4, <2>1, <2>2, <2>3, <3>1 DEF IInv, TypeOK
  <2> QED  BY <2>3, <2>5, <2>6, <2>7, <2>8, <2>9 DEF IInv
<1> QED  BY <1>3, <1>4 DEF StoreMode, toggleVars

(* The kernel's profile: who is notified may read too early.               *)
LEMMA SetProfileKeeps ==
  ASSUME IInv, NEW t \in Threads, SetProfile(t)
  PROVE  IInv'
<1>1. /\ pc[t] = "write" /\ call[t].op = "profile" /\ t \in All /\ Return(t)
      /\ UNCHANGED <<method, memory, holder, read, registered, events, heard, calls, keys>>
  BY Threaded DEF SetProfile
<1>2. /\ pc' = [pc EXCEPT ![t] = "idle"] /\ pc'[t] = "idle"
      /\ \A u \in All : u # t => pc'[u] = pc[u] /\ call'[u] = call[u]
      /\ pc' \in [All -> {"idle", "lock", "write", "load", "remember", "read",
                          "forget", "sleep", "old", "away", "back", "done"}]
      /\ call' \in [All -> [op : {"none", "store", "profile", "defaults", "show"},
                            val : {0} \cup Values \cup ProfileModes]]
      /\ call'[t].op = "none"
  BY <1>1, ReturnDoes
<1>3. \A u \in Threads : u # t => pc'[u] = pc[u] /\ call'[u] = call[u]
  BY <1>2, Threaded
<1>4. pc'[Event] = pc[Event] /\ pc'[Remover] = pc[Remover]
  BY <1>2, Threaded
<1>5. PlaceInv'
  BY <1>1, <1>2, <1>3, <1>4, Types DEF PlaceInv
<1>6. CallInv'
  BY <1>2, <1>3, Types DEF CallInv
<1>7. MutexInv'
  BY <1>1, <1>2, <1>3, Types DEF MutexInv, Inside
<1>8. NativeModes' = NativeModes
  BY <1>1 DEF NativeModes, Native
<1>9. \A u \in Threads : pc[u] = "sleep" => pc'[u] = "sleep"
  BY <1>1, <1>3
<1>10. CASE /\ Write(t, call[t].val) /\ UNCHANGED failures /\ told' = TRUE
            /\ early' = (early \/ due' # << >>) /\ Ask(Meant(call[t].val))
  <2>1. /\ hw' \in NativeModes' /\ due' \in Seq(DueChanges) /\ DueChanges' = DueChanges
        /\ table' = table \/ table' = 0
        /\ moved' \in [All -> BOOLEAN]
        /\ \A u \in All : pc[u] = "forget" /\ ~moved'[u] => ~moved[u] /\ hw' = hw
        /\ hw' = hw \/ hw' = Meant(call[t].val)
        /\ Meant(call[t].val) \in NativeModes
        /\ \A i \in DOMAIN due' : \/ i \in DOMAIN due /\ due'[i] = due[i]
                                  \/ due'[i].by = t /\ due'[i].mode = Meant(call[t].val)
        /\ due' = due \/ due' # << >>
    BY <1>1, <1>10, WriteDoes
  <2>2. DueInv'
    <3>1. ASSUME NEW i \in DOMAIN due'
          PROVE  /\ due'[i].by \in Threads => early' \/ pc'[due'[i].by] = "sleep"
                 /\ due'[i].by = Event /\ registered' => events' > 0 \/ pc'[Event] = "sleep"
                 /\ due'[i].by = Remover => ~registered'
      <4>1. due' # << >>
        BY <2>1, <3>1
      <4>2. early'
        BY <1>10, <4>1
      <4>3. CASE i \in DOMAIN due /\ due'[i] = due[i]
        BY <1>1, <1>4, <4>2, <4>3, Types DEF DueInv
      <4>4. CASE due'[i].by = t
        BY <4>2, <4>4, Threaded
      <4> QED  BY <2>1, <3>1, <4>3, <4>4
    <3> QED  BY <3>1 DEF DueInv
  <2>3. ListenInv'
    BY <1>10 DEF ListenInv
  <2>4. TableInv'
    BY <1>1, <1>2, <1>3, <2>1, Types DEF TableInv
  <2>5. ForgetInv'
    <3>1. \A u \in Threads : pc'[u] = "forget" /\ ~moved'[u] =>
            read'[u] = Mode(hw) /\ hw' = hw
      BY <1>1, <1>2, <1>3, <2>1, Types, Threaded DEF ForgetInv
    <3> QED  BY <1>1, <3>1 DEF ForgetInv, Mode
  <2>6. /\ ToggleInv'
        /\ asked' \subseteq NativeModes /\ UNCHANGED <<away, misread>>
    BY <1>1, <1>4, <1>10, <2>1, AskDoes
  <2>7. TypeOK'
    <3>1. table' \in {0} \cup WmiModes
      BY <2>1 DEF IInv, TypeOK
    <3>2. early' \in BOOLEAN
      BY <1>10 DEF IInv, TypeOK
    <3> QED  BY <1>1, <1>2, <1>8, <1>10, <2>1, <2>6, <3>1, <3>2
             DEF IInv, TypeOK, DueChanges
  <2> QED  BY <1>5, <1>6, <1>7, <2>2, <2>3, <2>4, <2>5, <2>6, <2>7 DEF IInv
<1>11. CASE Refuse(call[t].val) /\ UNCHANGED <<told, early, asked, away, misread>>
  <2>1. UNCHANGED <<hw, table, moved, due>> /\ failures' \in 0 .. MaxFailures
    BY <1>11, RefuseDoes
  <2>2. /\ PlaceInv' /\ DueInv' /\ ListenInv' /\ ToggleInv'
    BY <1>1, <1>2, <1>11, <2>1, FileSteps
  <2>3. TableInv'
    BY <1>1, <1>2, <1>3, <2>1, Types DEF TableInv
  <2>4. ForgetInv'
    BY <1>1, <1>2, <1>3, <2>1, Types DEF ForgetInv, Mode
  <2>5. TypeOK'
    BY <1>1, <1>2, <1>8, <1>11, <2>1 DEF IInv, TypeOK
  <2> QED  BY <1>6, <1>7, <2>2, <2>3, <2>4, <2>5 DEF IInv
<1> QED  BY <1>10, <1>11 DEF SetProfile, toggleVars

------------------------------------------------------------------------------
(* The firmware.  A change that is done is one whose notification is still *)
(* to come.                                                                *)
LEMMA ApplyKeeps ==
  ASSUME IInv, Apply
  PROVE  IInv'
<1>1. /\ due # << >> /\ Select(Head(due).mode) /\ due' = Tail(due)
      /\ UNCHANGED <<method, memory, holder, pc, call, read, registered, events, told, heard,
                     early, calls, keys, failures, asked, away, misread>>
  BY DEF Apply, listenVars, boundVars, toggleVars
<1> DEFINE m == due[1].mode
<1>2. /\ due' \in Seq(DueChanges) /\ Head(due) = due[1] /\ 1 \in DOMAIN due
      /\ due[1] \in DueChanges /\ Len(due') = Len(due) - 1
      /\ \A i \in DOMAIN due' : i + 1 \in DOMAIN due /\ due'[i] = due[i + 1]
  <2> DEFINE d == due
  <2>1. d \in Seq(DueChanges) /\ d # << >> /\ d = due
    BY <1>1, Types
  <2> HIDE DEF d
  <2>2. /\ Tail(d) \in Seq(DueChanges) /\ Head(d) = d[1] /\ d[1] \in DueChanges
        /\ 1 \in DOMAIN d /\ Len(Tail(d)) = Len(d) - 1
        /\ \A i \in DOMAIN Tail(d) : i + 1 \in DOMAIN d /\ Tail(d)[i] = d[i + 1]
    BY <2>1, FirstDue
  <2> QED  BY <1>1, <2>1, <2>2
<1>3. m \in NativeModes /\ due[1].by \in All /\ Select(m)
  BY <1>1, <1>2, Types
<1>4. NativeModes' = NativeModes /\ DueChanges' = DueChanges
  BY <1>1 DEF NativeModes, Native, DueChanges
<1>5. m = due[1].mode
  OBVIOUS
<1> HIDE DEF m
<1>6. /\ hw' = m
      /\ table' = table \/ table' = 0
      /\ moved' \in [All -> BOOLEAN]
      /\ \A u \in All : pc[u] = "forget" /\ ~moved'[u] => ~moved[u] /\ hw' = hw
  BY <1>1, <1>3, SelectDoes
<1>7. CallInv' /\ MutexInv' /\ TableInv' /\ ForgetInv'
  BY <1>1, <1>6, Threaded, OtherSteps
<1>8. PlaceInv'
  BY <1>1, Types DEF PlaceInv
<1>9. DueInv'
  BY <1>1, <1>2, Types DEF DueInv
<1>10. ListenInv'
  <2>1. registered /\ ~early /\ events = 0 =>
          ~ \A t \in Threads \cup {Event} : pc[t] # "sleep"
    BY <1>2, <1>3, Types, Threaded DEF DueInv
  <2> QED  BY <1>1, <2>1 DEF ListenInv
<1>11. ToggleInv'
  <2>1. \A n : Mode(n)' = Mode(n)
    BY <1>1 DEF Mode
  <2>2. ~misread /\ pc[Remover] \in {"away", "back", "done"} =>
          hw' \in asked /\ \A i \in DOMAIN due' : due'[i].mode \in asked
    BY <1>2, <1>5, <1>6, Types DEF ToggleInv
  <2>3. ~misread /\ pc[Remover] \in {"away", "back"} =>
          \E n \in NativeModes : n \in asked /\ read[Remover] = Mode(n)
    BY Types DEF ToggleInv
  <2> QED  BY <1>1, <1>4, <2>1, <2>2, <2>3 DEF ToggleInv
<1>12. TypeOK'
  <2>1. table' \in {0} \cup WmiModes
    BY <1>6 DEF IInv, TypeOK
  <2> QED  BY <1>1, <1>2, <1>3, <1>4, <1>6, <2>1 DEF IInv, TypeOK, DueChanges
<1> QED  BY <1>7, <1>8, <1>9, <1>10, <1>11, <1>12 DEF IInv

LEMMA KeyKeeps ==
  ASSUME IInv, NEW m \in WmiModes \cap Values, Key(m)
  PROVE  IInv'
<1> DEFINE d == [mode |-> Native(m), by |-> Event]
<1>1. /\ keys < MaxKeys /\ keys' = keys + 1 /\ due' = Append(due, d)
      /\ events' = (IF registered THEN events + 1 ELSE events)
      /\ Ask(Native(m))
      /\ UNCHANGED <<method, hw, table, memory, holder, pc, call, read, registered, told,
                     heard, early, calls, failures, moved>>
  BY DEF Key, listenVars
<1>2. d \in DueChanges /\ d.by = Event /\ d.mode = Native(m) /\ Native(m) \in NativeModes
  BY Threaded DEF DueChanges, NativeModes
<1> HIDE DEF d
<1>3. /\ due' \in Seq(DueChanges)
      /\ \A i \in DOMAIN due' : \/ i \in DOMAIN due /\ due'[i] = due[i]
                                \/ due'[i] = d
  BY <1>1, <1>2, Types, OneMoreDue
<1>4. NativeModes' = NativeModes /\ DueChanges' = DueChanges
  BY <1>1 DEF NativeModes, Native, DueChanges
<1>5. events \in Nat /\ events' \in Nat /\ (registered => events' > 0) /\ events' >= events
  BY <1>1 DEF IInv, TypeOK
<1>6. CallInv' /\ MutexInv' /\ TableInv' /\ ForgetInv'
  BY <1>1, OtherSteps
<1>7. PlaceInv'
  BY <1>1, Types DEF PlaceInv
<1>8. DueInv'
  <2>1. ASSUME NEW i \in DOMAIN due'
        PROVE  /\ due'[i].by \in Threads => early' \/ pc'[due'[i].by] = "sleep"
               /\ due'[i].by = Event /\ registered' => events' > 0 \/ pc'[Event] = "sleep"
               /\ due'[i].by = Remover => ~registered'
    <3>1. CASE i \in DOMAIN due /\ due'[i] = due[i]
      BY <1>1, <1>5, <3>1, Types DEF DueInv
    <3>2. CASE due'[i] = d
      BY <1>1, <1>2, <1>5, <3>2, Threaded
    <3> QED  BY <1>3, <2>1, <3>1, <3>2
  <2> QED  BY <2>1 DEF DueInv
<1>9. ListenInv'
  BY <1>1, <1>5 DEF ListenInv
<1>10. /\ ToggleInv'
       /\ asked' \subseteq NativeModes /\ UNCHANGED <<away, misread>>
  BY <1>1, <1>2, <1>3, AskDoes
<1>11. TypeOK'
  <2>1. keys' \in 0 .. MaxKeys
    BY <1>1, BoundsAssumption DEF IInv, TypeOK
  <2> QED  BY <1>1, <1>3, <1>4, <1>5, <1>10, <2>1 DEF IInv, TypeOK, DueChanges
<1> QED  BY <1>6, <1>7, <1>8, <1>9, <1>10, <1>11 DEF IInv

------------------------------------------------------------------------------
(* Notifications.                                                          *)
LEMMA TakeEventKeeps ==
  ASSUME IInv, TakeEvent
  PROVE  IInv'
<1>1. /\ pc[Event] = "idle" /\ events > 0 /\ events' = events - 1
      /\ pc' = [pc EXCEPT ![Event] = "sleep"] /\ call' = call
      /\ UNCHANGED <<method, hw, due, table, memory, holder, read, registered, told, heard,
                     early, calls, keys, failures, moved, asked, away, misread>>
  BY DEF TakeEvent, Goto, listenVars, boundVars, toggleVars
<1>2. /\ pc' \in [All -> {"idle", "lock", "write", "load", "remember", "read",
                          "forget", "sleep", "old", "away", "back", "done"}]
      /\ pc'[Event] = "sleep" /\ \A u \in All : u # Event => pc'[u] = pc[u]
  BY <1>1, Threaded DEF IInv, TypeOK
<1>3. (\A u \in Threads : pc'[u] = pc[u]) /\ pc'[Remover] = pc[Remover]
  BY <1>2, Threaded
<1>4. NativeModes' = NativeModes /\ \A m : Mode(m)' = Mode(m)
  BY <1>1 DEF NativeModes, Native, Mode
<1>5. CallInv' /\ MutexInv' /\ TableInv' /\ ForgetInv'
  BY <1>1, <1>3, OtherSteps
<1>6. PlaceInv'
  BY <1>1, <1>2, <1>3, Types DEF PlaceInv
<1>7. DueInv'
  BY <1>1, <1>2, <1>3, Types DEF DueInv
<1>8. ListenInv'
  BY <1>2 DEF ListenInv
<1>9. ToggleInv'
  BY <1>1, <1>3, <1>4, Types DEF ToggleInv
<1>10. TypeOK'
  <2>1. events' \in Nat
    BY <1>1 DEF IInv, TypeOK
  <2> QED  BY <1>1, <1>2, <1>4, <2>1 DEF IInv, TypeOK
<1> QED  BY <1>5, <1>6, <1>7, <1>8, <1>9, <1>10 DEF IInv

(* No change of its own is due when a thread notifies.                     *)
LEMMA NotifyKeeps ==
  ASSUME IInv, NEW t \in Threads \cup {Event}, Notify(t)
  PROVE  IInv'
<1>1. /\ pc[t] = "sleep" /\ ~WaitsFor(t) /\ told' = TRUE /\ Return(t)
      /\ t \in All /\ t # Remover
      /\ UNCHANGED <<method, hw, due, table, memory, holder, read, registered, events, heard,
                     early, calls, keys, failures, moved, asked, away, misread>>
  BY Threaded DEF Notify, boundVars, toggleVars
<1>2. /\ pc'[t] = "idle"
      /\ \A u \in All : u # t => pc'[u] = pc[u] /\ call'[u] = call[u]
      /\ pc' \in [All -> {"idle", "lock", "write", "load", "remember", "read",
                          "forget", "sleep", "old", "away", "back", "done"}]
      /\ call' \in [All -> [op : {"none", "store", "profile", "defaults", "show"},
                            val : {0} \cup Values \cup ProfileModes]]
      /\ call'[t].op = "none"
  BY <1>1, ReturnDoes
<1>3. /\ \A u \in Threads : u # t => pc'[u] = pc[u] /\ call'[u] = call[u]
      /\ pc'[Remover] = pc[Remover] /\ (t # Event => pc'[Event] = pc[Event])
  BY <1>1, <1>2, Threaded
<1>4. NativeModes' = NativeModes /\ \A m : Mode(m)' = Mode(m)
  BY <1>1 DEF NativeModes, Native, Mode
<1>5. PlaceInv'
  BY <1>1, <1>2, <1>3, Types DEF PlaceInv
<1>6. CallInv'
  BY <1>2, <1>3, Types DEF CallInv
<1>7. MutexInv'
  BY <1>1, <1>2, <1>3, Types DEF MutexInv, Inside
<1>8. TableInv'
  BY <1>1, <1>2, <1>3, Types DEF TableInv
<1>9. ForgetInv'
  BY <1>1, <1>2, <1>3, Types DEF ForgetInv, Mode
<1>10. DueInv'
  <2>1. events \in Nat
    BY DEF IInv, TypeOK
  <2>2. t # Event \/ events = 0 => \A i \in DOMAIN due : due[i].by # t
    BY <1>1, Types, WaitedFor
  <2> QED  BY <1>1, <1>3, <2>1, <2>2, Types, Threaded DEF DueInv
<1>11. ListenInv'
  BY <1>1 DEF ListenInv
<1>12. ToggleInv'
  BY <1>1, <1>3, <1>4, Types DEF ToggleInv
<1>13. TypeOK'
  BY <1>1, <1>2, <1>4 DEF IInv, TypeOK
<1> QED  BY <1>5, <1>6, <1>7, <1>8, <1>9, <1>10, <1>11, <1>12, <1>13 DEF IInv

LEMMA ListenKeeps ==
  ASSUME IInv, Listen
  PROVE  IInv'
<1>1. /\ told' = FALSE
      /\ UNCHANGED <<method, hw, due, table, memory, holder, pc, call, read, registered,
                     events, calls, keys, moved, asked, away, misread>>
  BY DEF Listen, toggleVars
<1>2. \/ heard' = Profile(Mode(hw)) /\ early' = (early /\ due # << >>) /\ failures' = failures
      \/ Failing /\ (\E v \in Values : heard' = Profile(v)) /\ early' = TRUE
  BY DEF Listen
<1>3. NativeModes' = NativeModes /\ \A m : Mode(m)' = Mode(m) /\ Mode(hw)' = Mode(hw)
  BY <1>1 DEF NativeModes, Native, Mode
<1>4. CallInv' /\ MutexInv' /\ TableInv' /\ ForgetInv'
  BY <1>1, OtherSteps
<1>5. PlaceInv'
  BY <1>1, Types DEF PlaceInv
<1>6. DueInv'
  <2>1. ASSUME NEW i \in DOMAIN due, early
        PROVE  early'
    <3>1. due # << >>
      BY <2>1
    <3> QED  BY <1>2, <2>1, <3>1
  <2> QED  BY <1>1, <2>1, Types DEF DueInv
<1>7. ListenInv'
  BY <1>1, <1>2, <1>3 DEF ListenInv, Profile
<1>8. ToggleInv'
  BY <1>1, <1>3, Types DEF ToggleInv
<1>9. TypeOK'
  <2>1. heard' \in ProfileModes \cup {-1} /\ early' \in BOOLEAN
    BY <1>2, ProfileIs DEF IInv, TypeOK
  <2>2. failures' \in 0 .. MaxFailures
    BY <1>2, BoundsAssumption DEF Failing, CanFail, IInv, TypeOK
  <2> QED  BY <1>1, <1>3, <2>1, <2>2 DEF IInv, TypeOK
<1> QED  BY <1>4, <1>5, <1>6, <1>7, <1>8, <1>9 DEF IInv

------------------------------------------------------------------------------
(* toggle_powermode.                                                       *)
LEMMA RemoverGoes ==
  ASSUME IInv, NEW l \in {"old", "away", "back", "done"}, Goto(Remover, l)
  PROVE  /\ pc'[Remover] = l /\ call' = call
         /\ pc' \in [All -> {"idle", "lock", "write", "load", "remember", "read",
                             "forget", "sleep", "old", "away", "back", "done"}]
         /\ \A u \in Threads : pc'[u] = pc[u]
         /\ pc'[Event] = pc[Event]
BY Threaded DEF Goto, IInv, TypeOK

LEMMA RemoveKeeps ==
  ASSUME IInv, Remove
  PROVE  IInv'
<1>1. /\ registered' = FALSE /\ events' = 0 /\ Goto(Remover, "old")
      /\ UNCHANGED <<method, hw, due, table, memory, holder, read, told, heard, early,
                     calls, keys, failures, moved, asked, away, misread>>
  BY DEF Remove, listenVars, boundVars, toggleVars
<1>2. /\ pc'[Remover] = "old" /\ call' = call
      /\ pc' \in [All -> {"idle", "lock", "write", "load", "remember", "read",
                          "forget", "sleep", "old", "away", "back", "done"}]
      /\ \A u \in Threads : pc'[u] = pc[u]
      /\ pc'[Event] = pc[Event]
  BY <1>1, RemoverGoes
<1>3. NativeModes' = NativeModes
  BY <1>1 DEF NativeModes, Native
<1>4. CallInv' /\ MutexInv' /\ TableInv' /\ ForgetInv'
  BY <1>1, <1>2, OtherSteps
<1>5. PlaceInv'
  BY <1>1, <1>2, Types DEF PlaceInv
<1>6. DueInv'
  BY <1>1, <1>2, Types DEF DueInv
<1>7. ListenInv' /\ ToggleInv'
  BY <1>1, <1>2 DEF ListenInv, ToggleInv
<1>8. TypeOK'
  BY <1>1, <1>2, <1>3 DEF IInv, TypeOK
<1> QED  BY <1>4, <1>5, <1>6, <1>7, <1>8 DEF IInv

LEMMA ReadOldKeeps ==
  ASSUME IInv, ReadOld
  PROVE  IInv'
<1>1. /\ pc[Remover] = "old" /\ Read(Remover)
      /\ asked' = {hw} \cup {due[i].mode : i \in DOMAIN due}
      /\ misread' = (failures' # failures)
      /\ Goto(Remover, "away")
      /\ UNCHANGED <<method, hw, due, table, memory, holder, registered, events, told,
                     heard, early, calls, keys, moved, away>>
  BY DEF ReadOld, listenVars
<1>2. /\ pc'[Remover] = "away" /\ call' = call
      /\ pc' \in [All -> {"idle", "lock", "write", "load", "remember", "read",
                          "forget", "sleep", "old", "away", "back", "done"}]
      /\ \A u \in Threads : pc'[u] = pc[u]
      /\ pc'[Event] = pc[Event]
  BY <1>1, RemoverGoes
<1>3. /\ read' \in [All -> {0} \cup WmiModes \cup Values] /\ failures' \in 0 .. MaxFailures
      /\ \A u \in All : u # Remover => read'[u] = read[u]
      /\ failures' = failures => read'[Remover] = Mode(hw)
  BY <1>1, Threaded, ReadDoes
<1>4. \A u \in Threads : read'[u] = read[u]
  BY <1>3, Threaded
<1>5. NativeModes' = NativeModes
  BY <1>1 DEF NativeModes, Native
<1>6. CallInv' /\ MutexInv' /\ TableInv' /\ ForgetInv'
  BY <1>1, <1>2, <1>4, OtherSteps
<1>7. PlaceInv'
  BY <1>1, <1>2, Types DEF PlaceInv
<1>8. DueInv'
  BY <1>1, <1>2, Types DEF DueInv
<1>9. ~registered'
  BY <1>1, Types DEF PlaceInv
<1>10. ListenInv'
  BY <1>9 DEF ListenInv
<1>11. ToggleInv'
  <2>1. \A m : Mode(m)' = Mode(m)
    BY <1>1 DEF Mode
  <2>2. hw \in NativeModes /\ hw \in asked' /\ \A i \in DOMAIN due : due[i].mode \in asked'
    BY <1>1, Types
  <2> QED  BY <1>1, <1>2, <1>3, <1>5, <2>1, <2>2 DEF ToggleInv
<1>12. TypeOK'
  <2>1. asked' \subseteq NativeModes' /\ misread' \in BOOLEAN
    BY <1>1, <1>5, Types
  <2> QED  BY <1>1, <1>2, <1>3, <1>5, <2>1 DEF IInv, TypeOK
<1> QED  BY <1>6, <1>7, <1>8, <1>10, <1>11, <1>12 DEF IInv

LEMMA GoAwayKeeps ==
  ASSUME IInv, GoAway
  PROVE  IInv'
<1> DEFINE v == NextMode(read[Remover])
<1>1. /\ pc[Remover] = "away" /\ Goto(Remover, "back") /\ ~registered
      /\ UNCHANGED <<method, memory, holder, read, registered, events, told, heard, early,
                     calls, keys, asked, misread>>
  BY Types DEF GoAway, PlaceInv, listenVars
<1>2. /\ pc'[Remover] = "back" /\ call' = call
      /\ pc' \in [All -> {"idle", "lock", "write", "load", "remember", "read",
                          "forget", "sleep", "old", "away", "back", "done"}]
      /\ \A u \in Threads : pc'[u] = pc[u]
      /\ pc'[Event] = pc[Event]
  BY <1>1, RemoverGoes
<1>3. NativeModes' = NativeModes /\ DueChanges' = DueChanges
  BY <1>1 DEF NativeModes, Native, DueChanges
<1>4. \/ Write(Remover, v) /\ UNCHANGED failures /\ away' \in BOOLEAN
      \/ Refuse(v) /\ UNCHANGED away
  BY DEF GoAway
<1>4a. v = NextMode(read[Remover])
  OBVIOUS
<1> HIDE DEF v
<1>5. /\ hw' \in NativeModes' /\ due' \in Seq(DueChanges)
      /\ table' = table \/ table' = 0
      /\ moved' \in [All -> BOOLEAN]
      /\ \A u \in All : pc[u] = "forget" /\ ~moved'[u] => ~moved[u] /\ hw' = hw
      /\ \A i \in DOMAIN due' : \/ i \in DOMAIN due /\ due'[i] = due[i]
                                \/ due'[i].by = Remover
      /\ failures' \in 0 .. MaxFailures /\ away' \in BOOLEAN
  <2>1. /\ moved \in [All -> BOOLEAN] /\ failures \in 0 .. MaxFailures /\ away \in BOOLEAN
        /\ hw \in NativeModes
    BY DEF IInv, TypeOK
  <2>2. CASE Write(Remover, v) /\ UNCHANGED failures /\ away' \in BOOLEAN
    <3>1. /\ hw' \in NativeModes' /\ due' \in Seq(DueChanges)
          /\ table' = table \/ table' = 0
          /\ moved' \in [All -> BOOLEAN]
          /\ \A u \in All : pc[u] = "forget" /\ ~moved'[u] => ~moved[u] /\ hw' = hw
          /\ \A i \in DOMAIN due' : \/ i \in DOMAIN due /\ due'[i] = due[i]
                                    \/ due'[i].by = Remover
      BY <1>1, <2>2, Threaded, WriteDoes
    <3> QED  BY <2>1, <2>2, <3>1
  <2>3. CASE Refuse(v) /\ UNCHANGED away
    <3>1. UNCHANGED <<hw, table, moved, due>> /\ failures' \in 0 .. MaxFailures
      BY <2>3, RefuseDoes
    <3> QED  BY <1>3, <2>1, <2>3, <3>1, Types
  <2> QED  BY <1>4, <2>2, <2>3
<1>6. CallInv' /\ MutexInv' /\ TableInv' /\ ForgetInv'
  BY <1>1, <1>2, <1>5, Threaded, OtherSteps
<1>7. PlaceInv'
  BY <1>1, <1>2, Types DEF PlaceInv
<1>8. DueInv'
  BY <1>1, <1>2, <1>5, Types, Threaded DEF DueInv
<1>9. ListenInv'
  BY <1>1 DEF ListenInv
<1>10. ToggleInv'
  <2>1. \A m : Mode(m)' = Mode(m)
    BY <1>1 DEF Mode
  <2>2. ASSUME ~misread
        PROVE  /\ method = "WMI" => hw' = hw
               /\ \A i \in DOMAIN due' : i \in DOMAIN due /\ due'[i] = due[i]
    <3>1. CASE Write(Remover, v) /\ method = "EC"
      BY <1>1, <3>1, Threaded, WriteDoes
    <3>2. CASE Write(Remover, v) /\ method = "WMI"
      <4>1. Byte(v) \in WmiModes
        BY <1>1, <3>2, Threaded, WriteDoes
      <4>2. read[Remover] \in WmiModes
        BY <1>1, <2>2, <3>2, Types, Numbering DEF ToggleInv
      <4>3. v = 0
        BY <1>4a, <4>2 DEF NextMode, WmiModes, Balanced, Custom
      <4> QED  BY <4>1, <4>3 DEF Byte, WmiModes, Balanced, Custom
    <3>3. CASE Refuse(v)
      BY <3>3, RefuseDoes
    <3> QED  BY <1>4, <3>1, <3>2, <3>3, Types
  <2>3. ~misread =>
          /\ hw \in asked
          /\ \A i \in DOMAIN due : due[i].mode \in asked
          /\ \E m \in NativeModes : m \in asked /\ read[Remover] = Mode(m)
    BY <1>1, Types DEF ToggleInv
  <2> QED  BY <1>1, <1>2, <1>3, <2>1, <2>2, <2>3 DEF ToggleInv
<1>11. TypeOK'
  <2>1. table' \in {0} \cup WmiModes
    BY <1>5 DEF IInv, TypeOK
  <2> QED  BY <1>1, <1>2, <1>3, <1>5, <2>1 DEF IInv, TypeOK, DueChanges
<1> QED  BY <1>6, <1>7, <1>8, <1>9, <1>10, <1>11 DEF IInv

(* The mode it has read is one that was asked for, in either numbering.    *)
LEMMA ComeBackKeeps ==
  ASSUME IInv, ComeBack
  PROVE  IInv'
<1> DEFINE v == read[Remover]
<1>1. /\ pc[Remover] = "back" /\ Goto(Remover, "done") /\ ~registered
      /\ UNCHANGED <<method, memory, holder, read, registered, events, told, heard, early,
                     calls, keys, asked, away, misread>>
  BY Types DEF ComeBack, PlaceInv, listenVars, toggleVars
<1>2. /\ pc'[Remover] = "done" /\ call' = call
      /\ pc' \in [All -> {"idle", "lock", "write", "load", "remember", "read",
                          "forget", "sleep", "old", "away", "back", "done"}]
      /\ \A u \in Threads : pc'[u] = pc[u]
      /\ pc'[Event] = pc[Event]
  BY <1>1, RemoverGoes
<1>3. NativeModes' = NativeModes /\ DueChanges' = DueChanges
  BY <1>1 DEF NativeModes, Native, DueChanges
<1>4. \/ Write(Remover, v) /\ UNCHANGED failures
      \/ Refuse(v)
  BY DEF ComeBack
<1>5. v = read[Remover]
  OBVIOUS
<1> HIDE DEF v
<1>6. ~misread =>
        /\ method = "WMI" => hw \in asked
        /\ \A i \in DOMAIN due : due[i].mode \in asked
        /\ \E m \in NativeModes : m \in asked /\ v = Mode(m)
  BY <1>1, <1>5, Types DEF ToggleInv
<1>7. ~misread => Meant(v) \in asked
  BY <1>6, Types, Numbering DEF Meant
<1>8. /\ hw' \in NativeModes' /\ due' \in Seq(DueChanges)
      /\ table' = table \/ table' = 0
      /\ moved' \in [All -> BOOLEAN]
      /\ \A u \in All : pc[u] = "forget" /\ ~moved'[u] => ~moved[u] /\ hw' = hw
      /\ \A i \in DOMAIN due' : \/ i \in DOMAIN due /\ due'[i] = due[i]
                                \/ due'[i].by = Remover
      /\ failures' \in 0 .. MaxFailures
      /\ ~misread => hw' \in asked /\ \A i \in DOMAIN due' : due'[i].mode \in asked
  <2>1. /\ moved \in [All -> BOOLEAN] /\ failures \in 0 .. MaxFailures
        /\ hw \in NativeModes
    BY DEF IInv, TypeOK
  <2>2. CASE Write(Remover, v) /\ UNCHANGED failures
    <3>1. /\ hw' \in NativeModes' /\ due' \in Seq(DueChanges)
          /\ table' = table \/ table' = 0
          /\ moved' \in [All -> BOOLEAN]
          /\ \A u \in All : pc[u] = "forget" /\ ~moved'[u] => ~moved[u] /\ hw' = hw
          /\ hw' = Meant(v) \/ (method = "WMI" /\ hw' = hw)
          /\ \A i \in DOMAIN due' : \/ i \in DOMAIN due /\ due'[i] = due[i]
                                    \/ due'[i].by = Remover /\ due'[i].mode = Meant(v)
      BY <1>1, <2>2, Threaded, WriteDoes
    <3>2. ~misread => hw' \in asked /\ \A i \in DOMAIN due' : due'[i].mode \in asked
      BY <1>6, <1>7, <3>1
    <3> QED  BY <2>1, <2>2, <3>1, <3>2
  <2>3. CASE Refuse(v)
    <3>1. /\ UNCHANGED <<hw, table, moved, due>> /\ failures' \in 0 .. MaxFailures
          /\ method = "WMI"
      BY <2>3, RefuseDoes DEF Refuse
    <3> QED  BY <1>3, <1>6, <2>1, <3>1, Types
  <2> QED  BY <1>4, <2>2, <2>3
<1>9. CallInv' /\ MutexInv' /\ TableInv' /\ ForgetInv'
  BY <1>1, <1>2, <1>8, Threaded, OtherSteps
<1>10. PlaceInv'
  BY <1>1, <1>2, Types DEF PlaceInv
<1>11. DueInv'
  BY <1>1, <1>2, <1>8, Types, Threaded DEF DueInv
<1>12. ListenInv'
  BY <1>1 DEF ListenInv
<1>13. ToggleInv'
  BY <1>1, <1>2, <1>8 DEF ToggleInv
<1>14. TypeOK'
  <2>1. table' \in {0} \cup WmiModes
    BY <1>8 DEF IInv, TypeOK
  <2> QED  BY <1>1, <1>2, <1>3, <1>8, <2>1 DEF IInv, TypeOK, DueChanges
<1> QED  BY <1>9, <1>10, <1>11, <1>12, <1>13, <1>14 DEF IInv

------------------------------------------------------------------------------
LEMMA InitHolds ==
  ASSUME Init
  PROVE  IInv
<1>1. /\ method \in {"EC", "WMI"} /\ hw \in NativeModes
      /\ due = << >> /\ table = 0 /\ memory = 0 /\ holder = NoThread
      /\ pc = [t \in All |-> "idle"] /\ call = [t \in All |-> NoCall]
      /\ read = [t \in All |-> 0]
      /\ registered = TRUE /\ events = 0 /\ told = FALSE
      /\ heard = Profile(Mode(hw)) /\ early = FALSE
      /\ moved = [t \in All |-> FALSE]
      /\ asked = {} /\ away = FALSE /\ misread = FALSE
      /\ calls = 0 /\ keys = 0 /\ failures = 0
  BY DEF Init
<1>2. \A t \in All : pc[t] = "idle" /\ call[t] = NoCall
  BY <1>1
<1>3. /\ NoCall \in [op : {"none", "store", "profile", "defaults", "show"},
                     val : {0} \cup Values \cup ProfileModes]
      /\ NoCall.op = "none"
  BY DEF NoCall
<1>4. TypeOK
  <2>1. due \in Seq([mode : NativeModes, by : All])
    BY <1>1
  <2>2. /\ call \in [All -> [op : {"none", "store", "profile", "defaults", "show"},
                             val : {0} \cup Values \cup ProfileModes]]
        /\ pc \in [All -> {"idle", "lock", "write", "load", "remember", "read",
                           "forget", "sleep", "old", "away", "back", "done"}]
    BY <1>1, <1>3
  <2>3. read \in [All -> {0} \cup WmiModes \cup Values] /\ moved \in [All -> BOOLEAN]
    BY <1>1
  <2>4. heard \in ProfileModes \cup {-1}
    BY <1>1, ProfileIs
  <2>5. /\ events \in Nat /\ calls \in 0 .. MaxCalls /\ keys \in 0 .. MaxKeys
        /\ failures \in 0 .. MaxFailures
    BY <1>1, BoundsAssumption
  <2> QED  BY <1>1, <2>1, <2>2, <2>3, <2>4, <2>5 DEF TypeOK
<1>5. PlaceInv /\ CallInv /\ MutexInv
  BY <1>1, <1>2, <1>3, Threaded DEF PlaceInv, CallInv, MutexInv, Inside
<1>6. DueInv
  <2>1. DOMAIN due = {}
    BY <1>1
  <2> QED  BY <2>1 DEF DueInv
<1>7. ListenInv
  BY <1>1 DEF ListenInv
<1>8. TableInv /\ ForgetInv
  BY <1>1, <1>2, Threaded DEF TableInv, ForgetInv
<1>9. ToggleInv
  BY <1>2, Threaded DEF ToggleInv
<1> QED  BY <1>4, <1>5, <1>6, <1>7, <1>8, <1>9 DEF IInv

LEMMA NextKeeps ==
  ASSUME IInv, [Next]_vars
  PROVE  IInv'
<1>1. CASE Apply
  BY <1>1, ApplyKeeps
<1>2. ASSUME NEW m \in WmiModes \cap Values, Key(m)
      PROVE  IInv'
  BY <1>2, KeyKeeps
<1>3. ASSUME NEW t \in Threads, NEW op \in {"store", "profile", "defaults", "show"},
             NEW v \in Values \cup {0}, Begin(t, op, v)
      PROVE  IInv'
  BY <1>3, BeginKeeps
<1>4. ASSUME NEW t \in Threads, Handler(t)
      PROVE  IInv'
  <2>1. t \in Threads \cup {Event}
    OBVIOUS
  <2> QED  BY <1>4, <2>1, LockKeeps, StoreModeKeeps, SetProfileKeeps, LoadDefaultsKeeps,
              RememberKeeps, ReadForShowKeeps, ForgetKeeps, NotifyKeeps DEF Handler
<1>5. CASE TakeEvent
  BY <1>5, TakeEventKeeps
<1>6. CASE Notify(Event)
  BY <1>6, NotifyKeeps
<1>7. CASE Listen
  BY <1>7, ListenKeeps
<1>8. CASE Remove \/ ReadOld \/ GoAway \/ ComeBack
  BY <1>8, RemoveKeeps, ReadOldKeeps, GoAwayKeeps, ComeBackKeeps
<1>9. CASE UNCHANGED vars
  <2>1. UNCHANGED <<method, hw, due, table, memory, holder, pc, call, read, registered,
                    events, told, heard, early, calls, keys, failures, moved, asked,
                    away, misread>>
    BY <1>9 DEF vars, listenVars, boundVars, toggleVars
  <2>2. NativeModes' = NativeModes /\ \A m : Mode(m)' = Mode(m)
        /\ Profile(Mode(hw))' = Profile(Mode(hw))
    BY <2>1 DEF NativeModes, Native, Mode, Profile
  <2>3. CallInv' /\ MutexInv' /\ TableInv' /\ ForgetInv'
    BY <2>1, OtherSteps
  <2>4. PlaceInv' /\ DueInv' /\ ListenInv' /\ ToggleInv'
    BY <2>1, <2>2, Types DEF PlaceInv, DueInv, ListenInv, ToggleInv
  <2>5. TypeOK'
    BY <2>1, <2>2 DEF IInv, TypeOK
  <2> QED  BY <2>3, <2>4, <2>5 DEF IInv
<1> QED  BY <1>1, <1>2, <1>3, <1>4, <1>5, <1>6, <1>7, <1>8, <1>9 DEF Next

LEMMA Invariance == Spec => []IInv
<1>1. Init => IInv
  BY InitHolds
<1>2. IInv /\ [Next]_vars => IInv'
  BY NextKeeps
<1> QED  BY <1>1, <1>2, PTL DEF Spec

------------------------------------------------------------------------------
(* Only Forget clears the remembered default.                              *)
LEMMA WhoForgets ==
  ASSUME IInv, Next, memory # 0, memory' = 0
  PROVE  \E t \in Threads : Forget(t)
<1>1. \/ memory' = memory
      \/ \E t \in Threads : Remember(t) \/ Forget(t)
  <2>1. CASE Apply \/ TakeEvent \/ Notify(Event) \/ Listen
    BY <2>1 DEF Apply, TakeEvent, Notify, Listen
  <2>2. CASE Remove \/ ReadOld \/ GoAway \/ ComeBack
    BY <2>2 DEF Remove, ReadOld, GoAway, ComeBack
  <2>3. CASE \E m \in WmiModes \cap Values : Key(m)
    BY <2>3 DEF Key
  <2>4. ASSUME NEW t \in Threads, NEW op \in {"store", "profile", "defaults", "show"},
               NEW v \in Values \cup {0}, Begin(t, op, v)
        PROVE  memory' = memory
    BY <2>4 DEF Begin
  <2>5. ASSUME NEW t \in Threads, Handler(t)
        PROVE  memory' = memory \/ Remember(t) \/ Forget(t)
    BY <2>5 DEF Handler, Lock, StoreMode, SetProfile, LoadDefaults, ReadForShow, Notify
  <2> QED  BY <2>1, <2>2, <2>3, <2>4, <2>5 DEF Next
<1>2. ASSUME NEW t \in Threads, Remember(t)
      PROVE  memory' # 0
  <2>1. memory' = call[t].val /\ pc[t] = "remember"
    BY <1>2 DEF Remember
  <2>2. call[t].val \in WmiModes
    BY <2>1, Types DEF CallInv
  <2>3. 0 \notin WmiModes
    BY DEF WmiModes, Balanced, Custom
  <2> QED  BY <2>1, <2>2, <2>3
<1> QED  BY <1>1, <1>2

------------------------------------------------------------------------------
(* For any threads using the files, and any number of calls, keys and      *)
(* failures.                                                               *)

(* The variables have their types: no number written to a file and no key  *)
(* leads the hardware out of its modes.                                    *)
THEOREM PowerModeTypeCorrect == Spec => []TypeOK
<1>1. IInv => TypeOK
  BY DEF IInv
<1> QED  BY <1>1, Invariance, PTL

(* legion_platform_profile_notify: when nothing is outstanding, the        *)
(* profile read after the last notification is the hardware's, but for     *)
(* one set through the kernel and for readings that failed.                *)
THEOREM ListenersKnow == Spec => []ListenersCurrent
<1>1. IInv => ListenersCurrent
  BY DEF IInv, ListenInv, ListenersCurrent
<1> QED  BY <1>1, Invariance, PTL

(* fancurve_defaults_powermode: the remembered default is the table that   *)
(* was loaded, if that one is still there.                                 *)
THEOREM MemoryMatchesTable == Spec => []MemoryIsTable
<1>1. ASSUME IInv
      PROVE  MemoryIsTable
  <2>1. holder = NoThread => \A t \in Threads : pc[t] # "remember"
    BY <1>1, Types, ThreadsAssumption DEF MutexInv, Inside
  <2> QED  BY <1>1, <2>1, Types DEF TableInv, MemoryIsTable
<1> QED  BY <1>1, Invariance, PTL

(* fancurve_defaults_powermode_show: the default is forgotten only outside *)
(* of the custom mode, or when the mode has changed since it was read.     *)
THEOREM DefaultsForgotten == Spec => DefaultsKept
<1> DEFINE Kept == memory # 0 /\ memory' = 0 =>
             Mode(hw) # Custom \/ \E t \in Threads : pc[t] = "forget" /\ moved[t]
<1>1. IInv /\ [Next]_vars => [Kept]_vars
  <2> SUFFICES ASSUME IInv, Next, memory # 0, memory' = 0
               PROVE  Mode(hw) # Custom \/ \E t \in Threads : pc[t] = "forget" /\ moved[t]
    BY DEF vars
  <2>1. PICK t \in Threads : Forget(t)
    BY WhoForgets
  <2>2. pc[t] = "forget" /\ read[t] # Custom
    BY <2>1 DEF Forget
  <2> QED  BY <2>2, Types DEF ForgetInv
<1> QED  BY <1>1, Invariance, PTL DEF Spec, DefaultsKept

(* toggle_powermode: what it leaves is the mode there was or one that      *)
(* somebody else has asked for meanwhile, in either numbering.             *)
THEOREM TogglingComesBack == Spec => []ToggleComesBack
<1>1. ASSUME IInv
      PROVE  ToggleComesBack
  BY <1>1, Types DEF ToggleInv, ToggleComesBack
<1> QED  BY <1>1, Invariance, PTL
================================================================================
