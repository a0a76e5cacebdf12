----------------------------- MODULE FanCurve_proofs -----------------------------
(***************************************************************************)
(* For any number of user threads, any table size and curves, any requests *)
(* and without bounds on calls: a store through the fan-curve files is     *)
(* exact, the cached curve agrees with the hardware, a fan-control lock is *)
(* respected, and the driver implements the abstract curve store.          *)
(***************************************************************************)
EXTENDS FanCurve, TLAPS

(***************************************************************************)
(* The inductive invariant.  What the properties say of the end of a       *)
(* handler follows from where it is on the way, and from nobody else being *)
(* on the way at the same time.                                            *)
(***************************************************************************)
Holding(t) == pc[t] \notin {"idle", "lock"}

(* fancurve_mutex is what its name says.                                   *)
MutexInv == \A t \in Threads : Holding(t) <=> fancurve_mutex = t

(* A handler runs for a call the model offers, and at a place that belongs *)
(* to the call.                                                            *)
CallInv ==
  \A t \in Threads :
    /\ IF pc[t] = "idle" THEN req[t] = NoRequest
                         ELSE req[t] \in Requests /\ IsOffered(req[t])
    /\ pc[t] \in {"check", "modify", "write", "verify"} => IsStore(req[t])
    /\ pc[t] = "read" => IsStore(req[t]) \/ req[t].op \in {"show", "debugfs"}
    /\ pc[t] = "lockctl" => req[t].op = "lockctl"
    /\ pc[t] = "defaults" => req[t].op = "defaults"
    /\ pc[t] = "verify" => method = "N2CN"

(* A store that passed the check still finds the lock off when it writes:  *)
(* the lock is only switched under the mutex.                              *)
LockInv ==
  \A t \in Threads :
    method = "N2CN" /\ pc[t] \in {"read", "modify", "write"} /\ IsStore(req[t])
      => lockctl = "off"

(* Every loop over the points starts at point 0.                           *)
LoopInv ==
  \A t \in Threads :
    method # "EC" \/ pc[t] \notin {"read", "write"} => idx[t] = 0

(* The size that the hardware reports is not taken as it is.               *)
SizeInv ==
  /\ cache.size <= MAXFANCURVESIZE
  /\ \A t \in Threads : fc[t].size <= MAXFANCURVESIZE

(* The tables of WMI models have no temperatures.                          *)
TableInv ==
  ~HasTemps(method) =>
    \A i \in Points : hw.points[i].temp = 0 /\ before.points[i].temp = 0

(* The curve a read of table c yields, the curve to fill while reading,    *)
(* and the points of a curve as ec_write_fancurve_legion writes them.      *)
AsRead(m, c) ==
  LET size == Min({c.size, MAXFANCURVESIZE}) IN
  [points |-> IF HasTemps(m)
                THEN c.points
                ELSE [i \in Points |->
                        IF i < size THEN [pwm |-> c.points[i].pwm, temp |-> 0]
                                    ELSE ZeroPoint],
   size |-> size]
Target(t) == IF FillsCache(t) THEN cache ELSE fc[t]
Cleared(c) == [i \in Points |-> IF i < c.size THEN c.points[i] ELSE ZeroPoint]

(* Until a handler writes, the table is as it was when it took the mutex,  *)
(* or as the firmware loaded it since.                                     *)
Unwritten(t) ==
  pc[t] \in {"check", "read", "modify", "lockctl", "defaults"} => hw = before

(* What a handler that nothing disturbed has done so far: it has read the  *)
(* points below idx; it holds the curve that was there, then the one that  *)
(* is meant; it has written the points below idx.                          *)
Progress(t) ==
  /\ pc[t] = "read" =>
       \A i \in Points : i < idx[t] => Target(t).points[i] = before.points[i]
  /\ pc[t] = "modify" => fc[t] = AsRead(method, before)
  /\ pc[t] \in {"write", "verify"} =>
       /\ IsValid(AsRead(method, before), req[t])
       /\ fc[t] = Modified(AsRead(method, before), req[t])
  /\ pc[t] = "write" =>
       /\ hw.size = before.size
       /\ \A i \in Points :
            hw.points[i] = IF i < idx[t] THEN Cleared(fc[t])[i]
                                         ELSE before.points[i]
  /\ pc[t] = "verify" =>
       /\ hw.size = before.size
       /\ \/ hw = before
          \/ \A i \in Points : /\ hw.points[i].pwm = fc[t].points[i].pwm
                               /\ hw.points[i].temp = 0

(* StoreIsExact, for one thread.                                           *)
ExactAt(t) ==
  pc[t] = "unlock" /\ IsStore(req[t]) /\ ~disturbed
    => StoredExactly(method, before, hw, req[t], err[t])

HandlerInv(t) == Unwritten(t) /\ (~disturbed => Progress(t)) /\ ExactAt(t)

(* The cached curve agrees with the hardware also while a handler runs,    *)
(* but not while points are being written.                                 *)
Agrees == SamePoints(method, [cache EXCEPT !.size = Min({@, hw.size})], hw)
CacheInv ==
  fancurve_valid /\ fresh /\ ~clobbered =>
    \/ Agrees
    \/ method = "EC" /\ \E t \in Threads : pc[t] = "write"

IInv ==
  /\ TypeOK
  /\ MutexInv /\ CallInv /\ LockInv /\ LoopInv /\ SizeInv /\ TableInv
  /\ CacheInv
  /\ \A t \in Threads : HandlerInv(t)

------------------------------------------------------------------------------
(* The operators: what the conversions and the setters return.             *)

LEMMA MinIsLess ==
  ASSUME NEW a \in Nat, NEW b \in Nat
  PROVE  Min({a, b}) = IF a <= b THEN a ELSE b
BY DEF Min

(* The size a read yields is at most that of the table, and that reported. *)
LEMMA SizeRead ==
  ASSUME NEW size \in 0..255
  PROVE  /\ Min({size, MAXFANCURVESIZE}) \in 0..255
         /\ Min({size, MAXFANCURVESIZE}) <= MAXFANCURVESIZE
         /\ Min({size, MAXFANCURVESIZE}) <= size
         /\ size <= MAXFANCURVESIZE => Min({size, MAXFANCURVESIZE}) = size
         /\ \A i \in Points : i < size <=> i < Min({size, MAXFANCURVESIZE})
<1>1. size \in Nat /\ MAXFANCURVESIZE \in Nat
  BY SizeAssumption
<1>2. Min({size, MAXFANCURVESIZE})
        = IF size <= MAXFANCURVESIZE THEN size ELSE MAXFANCURVESIZE
  BY <1>1, MinIsLess
<1> QED
  BY <1>2, SizeAssumption DEF Points

LEMMA PointsAreNat == Points \subseteq Nat
BY SizeAssumption DEF Points

(* A pwm value fits its register in the unit of every model.               *)
LEMMA SpeedRange ==
  ASSUME NEW m \in Methods, NEW value \in 0..255
  PROVE  Speed(m, value) \in 0..255
<1>1. (value * 10000 + 25499) \div 25500 \in 0..255
  OBVIOUS
<1>2. (value * 100) \div 255 \in 0..255
  OBVIOUS
<1>3. (value * 100 + 127) \div 255 \in 0..255
  OBVIOUS
<1>4. m = "EC" \/ m = "WMI3" \/ m = "N2CN"
  BY MethodsAssumption
<1> QED
  BY <1>1, <1>2, <1>3, <1>4 DEF Speed

PointType == [pwm : 0..255, temp : 0..255]

LEMMA CurveShape ==
  ASSUME NEW points, NEW size
  PROVE  [points |-> points, size |-> size] \in CurveType
           <=> points \in [Points -> PointType] /\ size \in 0..255
BY DEF CurveType, PointType

LEMMA CurveParts ==
  ASSUME NEW c \in CurveType
  PROVE  /\ c.size \in 0..255
         /\ c.points \in [Points -> PointType]
         /\ c = [points |-> c.points, size |-> c.size]
         /\ \A i \in Points : /\ c.points[i] \in PointType
                              /\ c.points[i].pwm \in 0..255
                              /\ c.points[i].temp \in 0..255
BY DEF CurveType, PointType

LEMMA ZeroType == ZeroPoint \in PointType /\ ZeroCurve \in CurveType
BY DEF ZeroPoint, ZeroCurve, CurveType, PointType

(* One point, or the size, of a curve replaced.                            *)
LEMMA ReplacePoint ==
  ASSUME NEW c \in CurveType, NEW i \in Points, NEW p \in PointType
  PROVE  /\ [c EXCEPT !.points[i] = p] \in CurveType
         /\ [c EXCEPT !.points[i] = p].size = c.size
         /\ \A j \in Points : [c EXCEPT !.points[i] = p].points[j]
                                = IF j = i THEN p ELSE c.points[j]
BY DEF CurveType, PointType

LEMMA ReplacePoints ==
  ASSUME NEW c \in CurveType, NEW points \in [Points -> PointType]
  PROVE  /\ [c EXCEPT !.points = points] \in CurveType
         /\ [c EXCEPT !.points = points].size = c.size
         /\ [c EXCEPT !.points = points].points = points
BY DEF CurveType, PointType

LEMMA ReplaceSize ==
  ASSUME NEW c \in CurveType, NEW size \in 0..255
  PROVE  /\ [c EXCEPT !.size = size] \in CurveType
         /\ [c EXCEPT !.size = size].size = size
         /\ [c EXCEPT !.size = size].points = c.points
BY DEF CurveType, PointType

(* A table without temperatures.                                           *)
LEMMA SpeedsOnly ==
  ASSUME NEW c \in CurveType
  PROVE  [i \in Points |-> [pwm |-> c.points[i].pwm, temp |-> 0]]
           \in [Points -> PointType]
BY CurveParts DEF PointType

LEMMA HeldType ==
  ASSUME NEW m \in Methods, NEW c \in CurveType
  PROVE  /\ Held(m, c) \in CurveType
         /\ ~HasTemps(m) => \A i \in Points : Held(m, c).points[i].temp = 0
<1>1. CASE HasTemps(m)
  BY <1>1 DEF Held
<1>2. CASE ~HasTemps(m)
  <2>1. (IF m = "N2CN" THEN c.size ELSE MAXFANCURVESIZE) \in 0..255
    BY CurveParts, SizeAssumption
  <2>2. Held(m, c) = [points |-> [i \in Points |-> [pwm |-> c.points[i].pwm, temp |-> 0]],
                      size |-> IF m = "N2CN" THEN c.size ELSE MAXFANCURVESIZE]
    BY <1>2 DEF Held
  <2> QED
    BY <2>1, <2>2, SpeedsOnly, CurveShape
<1> QED
  BY <1>1, <1>2

LEMMA AsReadType ==
  ASSUME NEW m, NEW c \in CurveType
  PROVE  /\ AsRead(m, c) \in CurveType
         /\ AsRead(m, c).size = Min({c.size, MAXFANCURVESIZE})
<1>1. Min({c.size, MAXFANCURVESIZE}) \in 0..255
  BY SizeRead, CurveParts
<1>2. [i \in Points |->
         IF i < Min({c.size, MAXFANCURVESIZE})
           THEN [pwm |-> c.points[i].pwm, temp |-> 0]
           ELSE ZeroPoint] \in [Points -> PointType]
  BY CurveParts DEF ZeroPoint, PointType
<1>3. c.points \in [Points -> PointType]
  BY CurveParts
<1> QED
  BY <1>1, <1>2, <1>3 DEF AsRead, CurveType, PointType

LEMMA WmiTableType ==
  ASSUME hw \in CurveType, NEW n
  PROVE  /\ WmiTable(n) \in CurveType
         /\ WmiTable(n).size = Min({hw.size, MAXFANCURVESIZE})
<1>1. Min({hw.size, MAXFANCURVESIZE}) \in 0..255
  BY SizeRead, CurveParts
<1>2. [i \in Points |->
         IF i < Min({hw.size, MAXFANCURVESIZE}) /\ i < n
           THEN [pwm |-> hw.points[i].pwm, temp |-> 0]
           ELSE ZeroPoint] \in [Points -> PointType]
  BY CurveParts DEF ZeroPoint, PointType
<1> QED
  BY <1>1, <1>2 DEF WmiTable, CurveType, PointType

(* A store as the setters see it.                                          *)
LEMMA StoreRequest ==
  ASSUME NEW r \in Requests, IsStore(r)
  PROVE  /\ r.op \in {"pwm", "temp", "size"}
         /\ r.point \in Points
         /\ r.value \in Int
BY RequestsAssumption DEF IsStore

LEMMA SetSizeType ==
  ASSUME NEW c \in CurveType, c.size <= MAXFANCURVESIZE,
         NEW size \in 1..MAXFANCURVESIZE
  PROVE  /\ SetSize(c, size) \in CurveType
         /\ SetSize(c, size).size = c.size
         /\ \A i \in Points :
              i < c.size =>
                SetSize(c, size).points[i]
                  = IF size < c.size /\ i = size - 1
                      THEN [c.points[i] EXCEPT !.temp = 127] ELSE c.points[i]
<1> DEFINE last == IF c.size > 0 THEN c.size - 1 ELSE 0
           points == [i \in Points |->
                        IF size < c.size /\ i = size - 1
                          THEN [c.points[i] EXCEPT !.temp = 127]
                        ELSE IF i >= c.size /\ i < size THEN c.points[last]
                        ELSE c.points[i]]
<1>1. last \in Points
  <2>1. c.size \in 0..255
    BY CurveParts
  <2> QED
    BY <2>1, SizeAssumption DEF Points
<1>2. ASSUME NEW i \in Points
      PROVE  [c.points[i] EXCEPT !.temp = 127] \in PointType
  BY CurveParts DEF PointType
<1>3. points \in [Points -> PointType]
  BY <1>1, <1>2, CurveParts
<1>4. SetSize(c, size) = [c EXCEPT !.points = points]
  BY DEF SetSize
<1> HIDE DEF last, points
<1>5. /\ SetSize(c, size) \in CurveType
      /\ SetSize(c, size).size = c.size
      /\ SetSize(c, size).points = points
  BY <1>3, <1>4, ReplacePoints
<1>6. ASSUME NEW i \in Points, i < c.size
      PROVE  points[i] = IF size < c.size /\ i = size - 1
                           THEN [c.points[i] EXCEPT !.temp = 127] ELSE c.points[i]
  <2>1. ~(i >= c.size)
    BY <1>6, PointsAreNat, CurveParts
  <2> QED
    BY <2>1 DEF points
<1> QED
  BY <1>5, <1>6

(* A store on a curve as a read yields it: the size stays, and only the    *)
(* attributes that the request touches change.                             *)
LEMMA ModifiedCurve ==
  ASSUME NEW c \in CurveType, c.size <= MAXFANCURVESIZE, method \in Methods,
         NEW r \in Requests, IsStore(r), IsValid(c, r)
  PROVE  /\ Modified(c, r) \in CurveType
         /\ Modified(c, r).size = c.size
         /\ \A i \in Points, a \in Attributes :
              i < c.size /\ <<i, a>> \notin Touched(r)
                => Modified(c, r).points[i][a] = c.points[i][a]
         /\ r.op = "pwm" =>
              /\ r.point < c.size
              /\ Modified(c, r).points[r.point].pwm = Speed(method, r.value)
         /\ r.op = "temp" => Modified(c, r).points[r.point].temp = r.value
         /\ r.op = "size" =>
              /\ r.value \in 1..MAXFANCURVESIZE
              /\ r.value < c.size => Modified(c, r).points[r.value - 1].temp = 127
<1>1. /\ r.op \in {"pwm", "temp", "size"}
      /\ r.point \in Points
      /\ r.value \in Int
  BY StoreRequest
<1>2. CASE r.op = "pwm"
  <2>1. r.value \in 0..255 /\ r.point < c.size
    BY <1>2 DEF IsValid
  <2> DEFINE p == [c.points[r.point] EXCEPT !.pwm = Speed(method, r.value)]
  <2>2. /\ p \in PointType
        /\ p.pwm = Speed(method, r.value)
        /\ p.temp = c.points[r.point].temp
    <3>1. Speed(method, r.value) \in 0..255
      BY <2>1, SpeedRange
    <3>2. c.points[r.point] \in PointType
      BY <1>1, CurveParts
    <3> QED
      BY <3>1, <3>2 DEF PointType
  <2>3. Modified(c, r) = [c EXCEPT !.points[r.point] = p]
    BY <1>2 DEF Modified
  <2>4. Touched(r) = {<<r.point, "pwm">>}
    BY <1>2 DEF Touched, Attributes
  <2> HIDE DEF p
  <2>5. /\ Modified(c, r) \in CurveType
        /\ Modified(c, r).size = c.size
        /\ \A j \in Points : Modified(c, r).points[j]
                               = IF j = r.point THEN p ELSE c.points[j]
    BY <1>1, <2>2, <2>3, ReplacePoint
  <2> QED
    BY <1>1, <1>2, <2>1, <2>2, <2>4, <2>5 DEF Attributes
<1>3. CASE r.op = "temp"
  <2>1. r.value \in 0..127
    BY <1>3 DEF IsValid
  <2> DEFINE p == [c.points[r.point] EXCEPT !.temp = r.value]
  <2>2. /\ p \in PointType
        /\ p.temp = r.value
        /\ p.pwm = c.points[r.point].pwm
    BY <1>1, <2>1, CurveParts DEF PointType
  <2>3. Modified(c, r) = [c EXCEPT !.points[r.point] = p]
    BY <1>3 DEF Modified
  <2>4. Touched(r) = {<<r.point, "temp">>}
    BY <1>3 DEF Touched, Attributes
  <2> HIDE DEF p
  <2>5. /\ Modified(c, r) \in CurveType
        /\ Modified(c, r).size = c.size
        /\ \A j \in Points : Modified(c, r).points[j]
                               = IF j = r.point THEN p ELSE c.points[j]
    BY <1>1, <2>2, <2>3, ReplacePoint
  <2> QED
    BY <1>1, <1>3, <2>2, <2>4, <2>5 DEF Attributes
<1>4. CASE r.op = "size"
  <2>1. r.value \in 1..MAXFANCURVESIZE
    BY <1>4 DEF IsValid
  <2>2. Modified(c, r) = SetSize(c, r.value)
    BY <1>4 DEF Modified
  <2>3. Touched(r) = {<<r.value - 1, "temp">>}
    BY <1>4 DEF Touched, Attributes
  <2>4. /\ Modified(c, r) \in CurveType
        /\ Modified(c, r).size = c.size
        /\ \A i \in Points :
             i < c.size =>
               Modified(c, r).points[i]
                 = IF r.value < c.size /\ i = r.value - 1
                     THEN [c.points[i] EXCEPT !.temp = 127] ELSE c.points[i]
    BY <2>1, <2>2, SetSizeType
  <2>5. ASSUME NEW i \in Points
        PROVE  /\ [c.points[i] EXCEPT !.temp = 127].temp = 127
               /\ [c.points[i] EXCEPT !.temp = 127].pwm = c.points[i].pwm
    BY CurveParts DEF PointType
  <2>6. ASSUME NEW i \in Points, NEW a \in Attributes,
               i < c.size, <<i, a>> \notin Touched(r)
        PROVE  Modified(c, r).points[i][a] = c.points[i][a]
    BY <2>3, <2>4, <2>5, <2>6 DEF Attributes
  <2>7. ASSUME r.value < c.size
        PROVE  Modified(c, r).points[r.value - 1].temp = 127
    <3> DEFINE last == r.value - 1
    <3>1. c.size \in 0..255
      BY CurveParts
    <3>2. last \in Points /\ last < c.size
      BY <2>1, <2>7, <3>1, SizeAssumption DEF Points
    <3>3. Modified(c, r).points[last] = [c.points[last] EXCEPT !.temp = 127]
      BY <2>4, <2>7, <3>2
    <3> QED
      BY <2>5, <3>2, <3>3
  <2> QED
    BY <1>4, <2>1, <2>4, <2>6, <2>7
<1> QED
  BY <1>1, <1>2, <1>3, <1>4

(* A curve written to an EC: its points below the size, then cleared ones. *)
LEMMA ClearedType ==
  ASSUME NEW c \in CurveType
  PROVE  /\ Cleared(c) \in [Points -> PointType]
         /\ \A i \in Points : Cleared(c)[i] = IF i < c.size THEN c.points[i]
                                                            ELSE ZeroPoint
BY CurveParts, ZeroType DEF Cleared

LEMMA WrittenType ==
  ASSUME hw \in CurveType, NEW c \in CurveType
  PROVE  /\ Written(c) \in CurveType
         /\ Written(c).size = hw.size
         /\ \A i \in Points : /\ Written(c).points[i].pwm = c.points[i].pwm
                              /\ Written(c).points[i].temp = 0
<1> DEFINE points == [i \in Points |-> [pwm |-> c.points[i].pwm, temp |-> 0]]
<1>1. points \in [Points -> PointType]
  BY SpeedsOnly
<1>2. Written(c) = [hw EXCEPT !.points = points]
  BY DEF Written
<1>3. \A i \in Points : points[i].pwm = c.points[i].pwm /\ points[i].temp = 0
  OBVIOUS
<1> HIDE DEF points
<1> QED
  BY <1>1, <1>2, <1>3, ReplacePoints

------------------------------------------------------------------------------
(* Types.                                                                  *)
Label == {"idle", "lock", "check", "read", "modify", "write", "verify",
          "lockctl", "defaults", "unlock"}
Result == {"ok", "EBUSY", "EINVAL", "EOPNOTSUPP", "EPERM"}

LEMMA InitTypeOK == Init => TypeOK
<1> SUFFICES ASSUME Init PROVE TypeOK
  OBVIOUS
<1>1. /\ hw \in CurveType /\ before \in CurveType
  BY HeldType, LoadsAssumption DEF Init
<1>2. cache \in CurveType /\ fc \in [Threads -> CurveType]
  BY ZeroType DEF Init
<1>3. idx \in [Threads -> 0..MAXFANCURVESIZE]
  BY SizeAssumption DEF Init
<1>4. calls \in 0..MaxCalls /\ loads \in 0..MaxLoads
  BY BoundsAssumption DEF Init
<1>5. lockctl \in {"on", "off", "odd"}
  BY DEF Init
<1>6. method \in Methods
  BY DEF Init
<1> QED
  BY <1>1, <1>2, <1>3, <1>4, <1>5, <1>6 DEF Init, TypeOK

(* What a handler returns with, and where it goes.                         *)
LEMMA FailTypeOK ==
  ASSUME TypeOK, NEW t \in Threads, NEW e \in Result, Fail(t, e)
  PROVE  pc' \in [Threads -> Label] /\ err' \in [Threads -> Result]
BY DEF TypeOK, Fail, Label, Result

LEMMA ReadDoneTypeOK ==
  ASSUME TypeOK, NEW t \in Threads, NEW c \in CurveType, ReadDone(t, c)
  PROVE  /\ fc' \in [Threads -> CurveType] /\ cache' \in CurveType
         /\ fancurve_valid' \in BOOLEAN /\ pc' \in [Threads -> Label]
         /\ fresh' \in BOOLEAN /\ clobbered' \in BOOLEAN
         /\ err' \in [Threads -> Result] /\ disturbed' \in BOOLEAN
BY DEF TypeOK, ReadDone, AfterRead, Label, Result

LEMMA ReadFailedTypeOK ==
  ASSUME TypeOK, NEW t \in Threads, NEW c \in CurveType, ReadFailed(t, c)
  PROVE  /\ fc' \in [Threads -> CurveType] /\ pc' \in [Threads -> Label]
         /\ err' \in [Threads -> Result] /\ disturbed' \in BOOLEAN
<1>1. CASE fancurve_valid
  BY <1>1 DEF TypeOK, ReadFailed, AfterRead, Label, Result
<1>2. CASE ~fancurve_valid
  BY <1>2, FailTypeOK DEF TypeOK, ReadFailed, Result
<1> QED
  BY <1>1, <1>2

LEMMA WriteDoneTypeOK ==
  ASSUME TypeOK, NEW t \in Threads, WriteDone(t)
  PROVE  /\ cache' \in CurveType /\ fancurve_valid' \in BOOLEAN
         /\ pc' \in [Threads -> Label]
         /\ fresh' \in BOOLEAN /\ clobbered' \in BOOLEAN
BY DEF TypeOK, WriteDone, Label

LEMMA FirstStepLabel ==
  ASSUME NEW r
  PROVE  /\ FirstStep(r) \in {"lockctl", "defaults", "check", "read"}
         /\ FirstStep(r) = "lockctl" => r.op = "lockctl"
         /\ FirstStep(r) = "defaults" => r.op = "defaults"
         /\ FirstStep(r) = "check" => IsStore(r)
         /\ FirstStep(r) = "read" =>
              ~IsStore(r) /\ r.op # "lockctl" /\ r.op # "defaults"
BY DEF FirstStep

LEMMA CallTypeOK ==
  ASSUME TypeOK, NEW t \in Threads, NEW r \in Requests, Call(t, r)
  PROVE  TypeOK'
<1>1. pc' \in [Threads -> Label] /\ req' \in [Threads -> Requests \cup {NoRequest}]
  BY DEF TypeOK, Call, Label
<1>2. calls' \in 0..MaxCalls
  BY BoundsAssumption DEF TypeOK, Call
<1> QED
  BY <1>1, <1>2 DEF TypeOK, Call, historyVars, Label

LEMMA LockTypeOK ==
  ASSUME TypeOK, NEW t \in Threads, Lock(t)
  PROVE  TypeOK'
<1>1. pc' \in [Threads -> Label]
  BY FirstStepLabel DEF TypeOK, Lock, Label
<1> QED
  BY <1>1 DEF TypeOK, Lock, Label

LEMMA CheckAllowedTypeOK ==
  ASSUME TypeOK, NEW t \in Threads, CheckAllowed(t)
  PROVE  TypeOK'
<1>1. pc' \in [Threads -> Label] /\ err' \in [Threads -> Result]
  <2>1. CASE method # "N2CN" \/ lockctl = "off"
    BY <2>1 DEF TypeOK, CheckAllowed, Label, Result
  <2>2. CASE ~(method # "N2CN" \/ lockctl = "off")
    <3>1. Fail(t, IF lockctl = "on" THEN "EBUSY" ELSE "EINVAL")
      BY <2>2 DEF CheckAllowed
    <3>2. (IF lockctl = "on" THEN "EBUSY" ELSE "EINVAL") \in Result
      BY DEF Result
    <3> QED
      BY <3>1, <3>2, FailTypeOK
  <2> QED
    BY <2>1, <2>2
<1> QED
  BY <1>1 DEF TypeOK, CheckAllowed, historyVars, Label, Result

LEMMA EcReadPointTypeOK ==
  ASSUME TypeOK, NEW t \in Threads, EcReadPoint(t)
  PROVE  TypeOK'
<1>1. idx[t] \in Points /\ idx' \in [Threads -> 0..MAXFANCURVESIZE]
  BY SizeAssumption DEF TypeOK, EcReadPoint, Points
<1>2. hw.points[idx[t]] \in PointType
  BY <1>1, CurveParts DEF TypeOK
<1>3. cache' \in CurveType /\ fc' \in [Threads -> CurveType]
  <2>1. CASE FillsCache(t)
    <3>1. cache' = [cache EXCEPT !.points[idx[t]] = hw.points[idx[t]]] /\ fc' = fc
      BY <2>1 DEF EcReadPoint
    <3> QED
      BY <1>1, <1>2, <3>1, ReplacePoint DEF TypeOK
  <2>2. CASE ~FillsCache(t)
    <3>1. /\ fc' = [fc EXCEPT ![t] = [fc[t] EXCEPT !.points[idx[t]] = hw.points[idx[t]]]]
          /\ cache' = cache
      BY <2>2 DEF EcReadPoint
    <3>2. [fc[t] EXCEPT !.points[idx[t]] = hw.points[idx[t]]] \in CurveType
      BY <1>1, <1>2, ReplacePoint DEF TypeOK
    <3> QED
      BY <3>1, <3>2 DEF TypeOK
  <2> QED
    BY <2>1, <2>2
<1> QED
  BY <1>1, <1>3 DEF TypeOK, EcReadPoint, historyVars

(* The curve a thread has read from an EC, with its size.                  *)
LEMMA TargetType ==
  ASSUME TypeOK, NEW t \in Threads
  PROVE  /\ Target(t) \in CurveType
         /\ [Target(t) EXCEPT !.size = Min({hw.size, MAXFANCURVESIZE})] \in CurveType
         /\ [Target(t) EXCEPT !.size = Min({hw.size, MAXFANCURVESIZE})].points
              = Target(t).points
         /\ [Target(t) EXCEPT !.size = Min({hw.size, MAXFANCURVESIZE})].size
              = Min({hw.size, MAXFANCURVESIZE})
<1>1. Target(t) \in CurveType
  BY DEF TypeOK, Target
<1>2. Min({hw.size, MAXFANCURVESIZE}) \in 0..255
  BY SizeRead, CurveParts DEF TypeOK
<1> QED
  BY <1>1, <1>2, ReplaceSize

LEMMA EcReadSizeTypeOK ==
  ASSUME TypeOK, NEW t \in Threads, EcReadSize(t)
  PROVE  TypeOK'
<1>1. ReadDone(t, [Target(t) EXCEPT !.size = Min({hw.size, MAXFANCURVESIZE})])
  BY DEF EcReadSize, Target
<1>2. idx' \in [Threads -> 0..MAXFANCURVESIZE]
  BY SizeAssumption DEF TypeOK, EcReadSize
<1> QED
  BY <1>1, <1>2, TargetType, ReadDoneTypeOK DEF TypeOK, EcReadSize, Label, Result

LEMMA WmiReadTypeOK ==
  ASSUME TypeOK, NEW t \in Threads, WmiRead(t)
  PROVE  TypeOK'
<1>1. WmiTable(MAXFANCURVESIZE) \in CurveType
  BY WmiTableType DEF TypeOK
<1> QED
  BY <1>1, ReadDoneTypeOK DEF TypeOK, WmiRead, Label, Result

LEMMA WmiReadFailsTypeOK ==
  ASSUME TypeOK, NEW t \in Threads, WmiReadFails(t)
  PROVE  TypeOK'
<1>1. /\ fc' \in [Threads -> CurveType] /\ pc' \in [Threads -> Label]
      /\ err' \in [Threads -> Result] /\ disturbed' \in BOOLEAN
  BY ReadFailedTypeOK DEF TypeOK, WmiReadFails
<1> QED
  BY <1>1 DEF TypeOK, WmiReadFails, Label, Result

LEMMA WmiReadOutOfRangeTypeOK ==
  ASSUME TypeOK, NEW t \in Threads, WmiReadOutOfRange(t)
  PROVE  TypeOK'
<1>1. PICK n \in 0 .. Min({hw.size, MAXFANCURVESIZE}) - 1 :
        IF FillsCache(t)
          THEN cache' = WmiTable(n) /\ clobbered' = TRUE /\ ReadFailed(t, WmiTable(n))
          ELSE UNCHANGED <<cache, clobbered>> /\ ReadFailed(t, cache)
  BY DEF WmiReadOutOfRange
<1>2. WmiTable(n) \in CurveType
  BY WmiTableType DEF TypeOK
<1>3. cache' \in CurveType /\ clobbered' \in BOOLEAN
  BY <1>1, <1>2 DEF TypeOK
<1>4. /\ fc' \in [Threads -> CurveType] /\ pc' \in [Threads -> Label]
      /\ err' \in [Threads -> Result] /\ disturbed' \in BOOLEAN
  BY <1>1, <1>2, ReadFailedTypeOK DEF TypeOK
<1> QED
  BY <1>3, <1>4 DEF TypeOK, WmiReadOutOfRange, Label, Result

LEMMA ModifyTypeOK ==
  ASSUME TypeOK, CallInv, SizeInv, NEW t \in Threads, Modify(t)
  PROVE  TypeOK'
<1>1. CASE IsValid(fc[t], req[t])
  <2>1. Modified(fc[t], req[t]) \in CurveType
    BY <1>1, ModifiedCurve DEF TypeOK, CallInv, SizeInv, Modify
  <2>2. fc' \in [Threads -> CurveType] /\ pc' \in [Threads -> Label]
    BY <1>1, <2>1 DEF TypeOK, Modify, Label
  <2> QED
    BY <1>1, <2>2 DEF TypeOK, Modify, historyVars, Label
<1>2. CASE ~IsValid(fc[t], req[t])
  <2>1. pc' \in [Threads -> Label] /\ err' \in [Threads -> Result]
    BY <1>2, FailTypeOK DEF Modify, Result
  <2> QED
    BY <1>2, <2>1 DEF TypeOK, Modify, historyVars, Label, Result
<1> QED
  BY <1>1, <1>2

(* The point an EC is written at a time.                                   *)
LEMMA WritesPoint ==
  ASSUME TypeOK, NEW t \in Threads, EcWritePoint(t)
  PROVE  /\ idx[t] \in Points
         /\ hw' \in CurveType /\ hw'.size = hw.size
         /\ \A i \in Points : hw'.points[i] = IF i = idx[t] THEN Cleared(fc[t])[i]
                                                            ELSE hw.points[i]
<1>1. idx[t] \in Points
  BY SizeAssumption DEF TypeOK, EcWritePoint, Points
<1>2. /\ Cleared(fc[t])[idx[t]] \in PointType
      /\ Cleared(fc[t])[idx[t]] = IF idx[t] < fc[t].size THEN fc[t].points[idx[t]]
                                                         ELSE ZeroPoint
  <2>1. fc[t] \in CurveType
    BY DEF TypeOK
  <2> QED
    BY <1>1, <2>1, ClearedType
<1>3. hw' = [hw EXCEPT !.points[idx[t]] = Cleared(fc[t])[idx[t]]]
  BY <1>2 DEF EcWritePoint
<1> QED
  BY <1>1, <1>2, <1>3, ReplacePoint DEF TypeOK

LEMMA EcWritePointTypeOK ==
  ASSUME TypeOK, NEW t \in Threads, EcWritePoint(t)
  PROVE  TypeOK'
<1>1. hw' \in CurveType
  BY WritesPoint
<1>2. idx' \in [Threads -> 0..MAXFANCURVESIZE]
  BY SizeAssumption DEF TypeOK, EcWritePoint
<1> QED
  BY <1>1, <1>2 DEF TypeOK, EcWritePoint, historyVars

LEMMA WritesSize ==
  ASSUME TypeOK, NEW t \in Threads, EcWriteSize(t)
  PROVE  /\ hw' \in CurveType /\ hw'.points = hw.points
         /\ hw'.size = IF req[t].op = "size" THEN fc[t].size ELSE hw.size
<1>1. hw \in CurveType /\ fc[t].size \in 0..255
  BY CurveParts DEF TypeOK
<1>2. CASE req[t].op = "size"
  <2> DEFINE c == [hw EXCEPT !.size = fc[t].size]
  <2>1. hw' = c
    BY <1>2 DEF EcWriteSize
  <2>2. c \in CurveType /\ c.points = hw.points /\ c.size = fc[t].size
    BY <1>1, ReplaceSize
  <2> HIDE DEF c
  <2> QED
    BY <1>2, <2>1, <2>2
<1>3. CASE req[t].op # "size"
  BY <1>1, <1>3 DEF EcWriteSize
<1> QED
  BY <1>2, <1>3

LEMMA EcWriteSizeTypeOK ==
  ASSUME TypeOK, NEW t \in Threads, EcWriteSize(t)
  PROVE  TypeOK'
<1>1. hw' \in CurveType
  BY WritesSize
<1>2. idx' \in [Threads -> 0..MAXFANCURVESIZE]
  BY SizeAssumption DEF TypeOK, EcWriteSize
<1>3. /\ cache' \in CurveType /\ fancurve_valid' \in BOOLEAN
      /\ pc' \in [Threads -> Label] /\ fresh' \in BOOLEAN /\ clobbered' \in BOOLEAN
  BY WriteDoneTypeOK DEF EcWriteSize
<1> QED
  BY <1>1, <1>2, <1>3 DEF TypeOK, EcWriteSize, Label

LEMMA WmiWriteTypeOK ==
  ASSUME TypeOK, NEW t \in Threads, WmiWrite(t)
  PROVE  TypeOK'
<1>1. hw' \in CurveType
  BY WrittenType DEF TypeOK, WmiWrite
<1>2. /\ cache' \in CurveType /\ fancurve_valid' \in BOOLEAN
      /\ pc' \in [Threads -> Label] /\ fresh' \in BOOLEAN /\ clobbered' \in BOOLEAN
  <2>1. CASE method = "N2CN"
    BY <2>1 DEF TypeOK, WmiWrite, Label
  <2>2. CASE method # "N2CN"
    BY <2>2, WriteDoneTypeOK DEF WmiWrite
  <2> QED
    BY <2>1, <2>2
<1> QED
  BY <1>1, <1>2 DEF TypeOK, WmiWrite, Label

LEMMA WmiWriteFailsTypeOK ==
  ASSUME TypeOK, NEW t \in Threads, WmiWriteFails(t)
  PROVE  TypeOK'
<1>1. hw' \in CurveType
  BY WrittenType DEF TypeOK, WmiWriteFails
<1>2. pc' \in [Threads -> Label] /\ err' \in [Threads -> Result]
  BY FailTypeOK DEF WmiWriteFails, Result
<1> QED
  BY <1>1, <1>2 DEF TypeOK, WmiWriteFails, Label, Result

LEMMA WmiWriteDroppedTypeOK ==
  ASSUME TypeOK, NEW t \in Threads, WmiWriteDropped(t)
  PROVE  TypeOK'
BY DEF TypeOK, WmiWriteDropped, historyVars

LEMMA VerifyTypeOK ==
  ASSUME TypeOK, NEW t \in Threads, Verify(t)
  PROVE  TypeOK'
<1>1. CASE WriteDone(t) /\ UNCHANGED err
  BY <1>1, WriteDoneTypeOK DEF TypeOK, Verify, Label
<1>2. CASE /\ Fail(t, "EOPNOTSUPP")
           /\ UNCHANGED <<cache, fancurve_valid, fresh, clobbered>>
  <2>1. pc' \in [Threads -> Label] /\ err' \in [Threads -> Result]
    BY <1>2, FailTypeOK DEF Result
  <2> QED
    BY <1>2, <2>1 DEF TypeOK, Verify, Label, Result
<1> QED
  BY <1>1, <1>2 DEF Verify

LEMMA WriteLockctlTypeOK ==
  ASSUME TypeOK, CallInv, NEW t \in Threads, WriteLockctl(t)
  PROVE  TypeOK'
<1>1. req[t] \in Requests /\ req[t].op = "lockctl"
  BY DEF CallInv, WriteLockctl
<1>2. req[t].value \in {"on", "off"}
  BY <1>1, RequestsAssumption
<1> QED
  BY <1>2 DEF TypeOK, WriteLockctl, historyVars

LEMMA WriteDefaultsTypeOK ==
  ASSUME TypeOK, NEW t \in Threads, WriteDefaults(t)
  PROVE  TypeOK'
<1>1. CASE /\ \E c \in Loads : hw' = Held(method, c)
           /\ pc' = [pc EXCEPT ![t] = "unlock"]
           /\ disturbed' = TRUE
           /\ fresh' = FALSE
           /\ UNCHANGED err
  <2>1. hw' \in CurveType
    BY <1>1, HeldType, LoadsAssumption DEF TypeOK
  <2> QED
    BY <1>1, <2>1 DEF TypeOK, WriteDefaults
<1>2. CASE Fail(t, "EPERM") /\ UNCHANGED <<hw, disturbed, fresh>>
  <2>1. pc' \in [Threads -> Label] /\ err' \in [Threads -> Result]
    BY <1>2, FailTypeOK DEF Result
  <2> QED
    BY <1>2, <2>1 DEF TypeOK, WriteDefaults, Label, Result
<1> QED
  BY <1>1, <1>2 DEF WriteDefaults

LEMMA UnlockTypeOK ==
  ASSUME TypeOK, NEW t \in Threads, Unlock(t)
  PROVE  TypeOK'
<1>1. fc' \in [Threads -> CurveType]
  BY ZeroType DEF TypeOK, Unlock
<1> QED
  BY <1>1 DEF TypeOK, Unlock

LEMMA FirmwareLoadsTypeOK ==
  ASSUME TypeOK, NEW c \in Loads, FirmwareLoads(c)
  PROVE  TypeOK'
<1>1. hw' \in CurveType
  BY HeldType, LoadsAssumption DEF TypeOK, FirmwareLoads
<1>2. loads' \in 0..MaxLoads
  BY BoundsAssumption DEF TypeOK, FirmwareLoads
<1> QED
  BY <1>1, <1>2 DEF TypeOK, FirmwareLoads, driverVars

LEMMA NextTypeOK ==
  ASSUME TypeOK, CallInv, SizeInv, Next
  PROVE  TypeOK'
<1>1. ASSUME NEW t \in Threads, NEW r \in Requests, Call(t, r)
      PROVE  TypeOK'
  BY <1>1, CallTypeOK
<1>2. ASSUME NEW t \in Threads, Lock(t)
      PROVE  TypeOK'
  BY <1>2, LockTypeOK
<1>3. ASSUME NEW t \in Threads, Holder(t)
      PROVE  TypeOK'
  BY <1>3, CheckAllowedTypeOK, EcReadPointTypeOK, EcReadSizeTypeOK, WmiReadTypeOK,
     WmiReadFailsTypeOK, WmiReadOutOfRangeTypeOK, ModifyTypeOK, EcWritePointTypeOK,
     EcWriteSizeTypeOK, WmiWriteTypeOK, WmiWriteFailsTypeOK, WmiWriteDroppedTypeOK,
     VerifyTypeOK, WriteLockctlTypeOK, WriteDefaultsTypeOK, UnlockTypeOK DEF Holder
<1>4. ASSUME NEW c \in Loads, FirmwareLoads(c)
      PROVE  TypeOK'
  BY <1>4, FirmwareLoadsTypeOK
<1> QED
  BY <1>1, <1>2, <1>3, <1>4 DEF Next

------------------------------------------------------------------------------
(* Control: who holds the mutex, where the others are, what a handler's    *)
(* place says of its call.                                                 *)

(* While a thread holds the mutex, the others are outside or wait.         *)
LEMMA OthersWait ==
  ASSUME TypeOK, MutexInv, NEW t \in Threads, Holding(t)
  PROVE  /\ fancurve_mutex = t
         /\ \A u \in Threads \ {t} : pc[u] \in {"idle", "lock"}
BY ThreadsAssumption DEF TypeOK, MutexInv, Holding

LEMMA HolderHolds ==
  ASSUME NEW t \in Threads, Holder(t)
  PROVE  Holding(t)
BY DEF Holder, Holding, CheckAllowed, EcReadPoint, EcReadSize, WmiRead, WmiReadFails,
   WmiReadOutOfRange, Modify, EcWritePoint, EcWriteSize, WmiWrite, WmiWriteFails,
   WmiWriteDropped, Verify, WriteLockctl, WriteDefaults, Unlock

(* The places a step of the holder leads to, and which steps go there.     *)
Goes(t, label) == pc' = [pc EXCEPT ![t] = label]

LEMMA HolderGoes ==
  ASSUME NEW t \in Threads, Holder(t)
  PROVE  /\ req' = req \/ Unlock(t)
         /\ fancurve_mutex' = fancurve_mutex \/ Unlock(t)
         /\ method' = method
         /\ \/ UNCHANGED pc /\ (EcReadPoint(t) \/ EcWritePoint(t))
            \/ Goes(t, "read") /\ CheckAllowed(t) 
            \/ Goes(t, "modify") /\ pc[t] = "read" /\ IsStore(req[t])
            \/ Goes(t, "write") /\ pc[t] = "modify"
            \/ Goes(t, "verify") /\ pc[t] = "write" /\ method = "N2CN"
            \/ Goes(t, "unlock") /\ ~Unlock(t)
            \/ Goes(t, "idle") /\ Unlock(t)
<1>1. CASE CheckAllowed(t)
  BY <1>1 DEF CheckAllowed, Fail, Goes, Unlock
<1>2. CASE EcReadPoint(t)
  BY <1>2 DEF EcReadPoint
<1>3. CASE EcReadSize(t)
  BY <1>3 DEF EcReadSize, ReadDone, AfterRead, Goes, Unlock
<1>4. CASE WmiRead(t)
  BY <1>4 DEF WmiRead, ReadDone, AfterRead, Goes, Unlock
<1>5. CASE WmiReadFails(t)
  BY <1>5 DEF WmiReadFails, ReadFailed, Fail, AfterRead, Goes, Unlock
<1>6. CASE WmiReadOutOfRange(t)
  BY <1>6 DEF WmiReadOutOfRange, ReadFailed, Fail, AfterRead, Goes, Unlock
<1>7. CASE Modify(t)
  BY <1>7 DEF Modify, Fail, Goes, Unlock
<1>8. CASE EcWritePoint(t)
  BY <1>8 DEF EcWritePoint
<1>9. CASE EcWriteSize(t)
  BY <1>9 DEF EcWriteSize, WriteDone, Goes, Unlock
<1>10. CASE WmiWrite(t)
  BY <1>10 DEF WmiWrite, WriteDone, Goes, Unlock
<1>11. CASE WmiWriteFails(t)
  BY <1>11 DEF WmiWriteFails, Fail, Goes, Unlock
<1>12. CASE WmiWriteDropped(t)
  BY <1>12 DEF WmiWriteDropped, Goes
<1>13. CASE Verify(t)
  BY <1>13 DEF Verify, WriteDone, Fail, Goes, Unlock
<1>14. CASE WriteLockctl(t)
  BY <1>14 DEF WriteLockctl, Goes, Unlock
<1>15. CASE WriteDefaults(t)
  BY <1>15 DEF WriteDefaults, Fail, Goes, Unlock
<1>16. CASE Unlock(t)
  BY <1>16 DEF Unlock, Goes
<1> QED
  BY <1>1, <1>2, <1>3, <1>4, <1>5, <1>6, <1>7, <1>8, <1>9, <1>10, <1>11, <1>12,
     <1>13, <1>14, <1>15, <1>16 DEF Holder

LEMMA HolderMutexInv ==
  ASSUME TypeOK, MutexInv, NEW t \in Threads, Holder(t)
  PROVE  MutexInv'
<1>1. Holding(t) /\ fancurve_mutex = t /\ t # NoOwner
  BY HolderHolds, ThreadsAssumption DEF MutexInv
<1>2. pc \in [Threads -> Label]
  BY DEF TypeOK, Label
<1>3. CASE Unlock(t)
  BY <1>1, <1>2, <1>3, OthersWait, ThreadsAssumption DEF Unlock, MutexInv, Holding
<1>4. CASE ~Unlock(t)
  <2>1. fancurve_mutex' = t
    BY <1>1, <1>4, HolderGoes
  <2>2. \/ UNCHANGED pc
        \/ \E label \in Label \ {"idle", "lock"} : Goes(t, label)
    BY <1>4, HolderGoes DEF Label
  <2>3. \A u \in Threads : Holding(u)' <=> Holding(u)
    BY <1>1, <1>2, <2>2 DEF Goes, Holding
  <2> QED
    BY <1>1, <2>1, <2>3 DEF MutexInv
<1> QED
  BY <1>3, <1>4

LEMMA HolderCallInv ==
  ASSUME TypeOK, CallInv, NEW t \in Threads, Holder(t)
  PROVE  CallInv'
<1>1. method' = method
  BY HolderGoes
<1>2. pc \in [Threads -> Label] /\ req \in [Threads -> Requests \cup {NoRequest}]
  BY DEF TypeOK, Label
<1>3. CASE Unlock(t)
  BY <1>1, <1>2, <1>3 DEF Unlock, CallInv, IsOffered
<1>4. CASE ~Unlock(t)
  <2>1. req' = req
    BY <1>4, HolderGoes
  <2>2. Holding(t)
    BY HolderHolds
  <2>3. CASE UNCHANGED pc
    BY <1>1, <2>1, <2>3 DEF CallInv, IsOffered
  <2>4. CASE Goes(t, "read") /\ CheckAllowed(t)
    BY <1>1, <1>2, <2>1, <2>4 DEF CallInv, IsOffered, Goes, CheckAllowed
  <2>5. CASE Goes(t, "modify") /\ pc[t] = "read" /\ IsStore(req[t])
    BY <1>1, <1>2, <2>1, <2>5 DEF CallInv, IsOffered, Goes
  <2>6. CASE Goes(t, "write") /\ pc[t] = "modify"
    BY <1>1, <1>2, <2>1, <2>6 DEF CallInv, IsOffered, Goes
  <2>7. CASE Goes(t, "verify") /\ pc[t] = "write" /\ method = "N2CN"
    BY <1>1, <1>2, <2>1, <2>7 DEF CallInv, IsOffered, Goes
  <2>8. CASE Goes(t, "unlock")
    BY <1>1, <1>2, <2>1, <2>2, <2>8 DEF CallInv, IsOffered, Goes, Holding
  <2> QED
    BY <1>4, <2>3, <2>4, <2>5, <2>6, <2>7, <2>8, HolderGoes
<1> QED
  BY <1>3, <1>4

(* Only lockfancontroller_store switches the lock, and only at its end.    *)
LEMMA HolderLockctl ==
  ASSUME NEW t \in Threads, Holder(t)
  PROVE  lockctl' = lockctl \/ Goes(t, "unlock")
BY DEF Holder, CheckAllowed, EcReadPoint, EcReadSize, WmiRead, WmiReadFails,
   WmiReadOutOfRange, Modify, EcWritePoint, EcWriteSize, WmiWrite, WmiWriteFails,
   WmiWriteDropped, Verify, WriteLockctl, WriteDefaults, Unlock, Goes

LEMMA HolderLockInv ==
  ASSUME TypeOK, MutexInv, LockInv, NEW t \in Threads, Holder(t)
  PROVE  LockInv'
<1>1. method' = method
  BY HolderGoes
<1>2. pc \in [Threads -> Label] /\ req \in [Threads -> Requests \cup {NoRequest}]
  BY DEF TypeOK, Label
<1>3. Holding(t) /\ \A u \in Threads \ {t} : pc[u] \in {"idle", "lock"}
  BY HolderHolds, OthersWait
<1>4. \A u \in Threads \ {t} : pc'[u] = pc[u]
  BY <1>2, HolderGoes DEF Goes
<1>5. CASE pc'[t] \notin {"read", "modify", "write"}
  BY <1>3, <1>4, <1>5 DEF LockInv
<1>6. CASE pc'[t] \in {"read", "modify", "write"}
  <2>1. ~Unlock(t) /\ ~Goes(t, "unlock")
    BY <1>2, <1>6 DEF Unlock, Goes
  <2>2. req' = req /\ lockctl' = lockctl
    BY <2>1, HolderGoes, HolderLockctl
  <2>3. CASE UNCHANGED pc
    BY <1>1, <2>2, <2>3 DEF LockInv
  <2>4. CASE Goes(t, "read") /\ CheckAllowed(t)
    <3>1. method # "N2CN" \/ lockctl = "off"
      BY <1>2, <2>1, <2>4 DEF CheckAllowed, Fail, Goes
    <3> QED
      BY <1>1, <1>3, <1>4, <2>2, <3>1 DEF LockInv
  <2>5. CASE Goes(t, "modify") /\ pc[t] = "read" /\ IsStore(req[t])
    BY <1>1, <1>3, <1>4, <2>2, <2>5 DEF LockInv
  <2>6. CASE Goes(t, "write") /\ pc[t] = "modify"
    BY <1>1, <1>3, <1>4, <2>2, <2>6 DEF LockInv
  <2>7. CASE Goes(t, "verify")
    BY <1>2, <1>6, <2>7 DEF Goes
  <2> QED
    BY <2>1, <2>3, <2>4, <2>5, <2>6, <2>7, HolderGoes
<1> QED
  BY <1>5, <1>6

LEMMA HolderLoopInv ==
  ASSUME TypeOK, LoopInv, NEW t \in Threads, Holder(t)
  PROVE  LoopInv'
<1>1. method' = method
  BY HolderGoes
<1>2. /\ pc \in [Threads -> Label]
      /\ idx \in [Threads -> 0..MAXFANCURVESIZE]
  BY DEF TypeOK, Label
<1>3. \A u \in Threads \ {t} : pc'[u] = pc[u]
  BY <1>2, HolderGoes DEF Goes
<1>4. CASE EcReadPoint(t)
  BY <1>2, <1>4 DEF EcReadPoint, LoopInv
<1>5. CASE EcWritePoint(t)
  BY <1>2, <1>5 DEF EcWritePoint, LoopInv
<1>6. CASE EcReadSize(t)
  BY <1>1, <1>2, <1>3, <1>6 DEF EcReadSize, LoopInv
<1>7. CASE EcWriteSize(t)
  BY <1>1, <1>2, <1>3, <1>7 DEF EcWriteSize, LoopInv
<1>8. CASE ~(EcReadPoint(t) \/ EcWritePoint(t) \/ EcReadSize(t) \/ EcWriteSize(t))
  <2>1. UNCHANGED idx /\ (method # "EC" \/ pc[t] \notin {"read", "write"})
    BY <1>8, MethodsAssumption
       DEF Holder, CheckAllowed, WmiRead, WmiReadFails, WmiReadOutOfRange,
           Modify, WmiWrite, WmiWriteFails, WmiWriteDropped, Verify, WriteLockctl,
           WriteDefaults, Unlock, IsWMI, HasTemps
  <2> QED
    BY <1>1, <1>3, <2>1 DEF LoopInv
<1> QED
  BY <1>4, <1>5, <1>6, <1>7, <1>8

(* Curves of a bounded size, read, kept and filled.                        *)
LEMMA ReadDoneSizeInv ==
  ASSUME TypeOK, SizeInv, NEW t \in Threads, NEW c \in CurveType,
         c.size <= MAXFANCURVESIZE, ReadDone(t, c)
  PROVE  SizeInv'
BY DEF TypeOK, SizeInv, ReadDone

LEMMA ReadFailedSizeInv ==
  ASSUME TypeOK, SizeInv, NEW t \in Threads, NEW c \in CurveType,
         c.size <= MAXFANCURVESIZE, ReadFailed(t, c)
  PROVE  \A u \in Threads : fc'[u].size <= MAXFANCURVESIZE
BY DEF TypeOK, SizeInv, ReadFailed

LEMMA HolderSizeInv ==
  ASSUME TypeOK, CallInv, SizeInv, NEW t \in Threads, Holder(t)
  PROVE  SizeInv'
<1>1. hw.size \in 0..255 /\ cache \in CurveType /\ fc \in [Threads -> CurveType]
  BY CurveParts DEF TypeOK
<1>2. Min({hw.size, MAXFANCURVESIZE}) <= MAXFANCURVESIZE
  BY <1>1, SizeRead
<1>3. CASE UNCHANGED <<cache, fc>>
  BY <1>3 DEF SizeInv
<1>4. CASE EcReadPoint(t)
  <2>1. idx[t] \in Points /\ hw.points[idx[t]] \in PointType
    <3>1. idx[t] \in Points
      BY <1>4, SizeAssumption DEF TypeOK, EcReadPoint, Points
    <3> QED
      BY <3>1, CurveParts DEF TypeOK
  <2>2. CASE FillsCache(t)
    <3>1. cache' = [cache EXCEPT !.points[idx[t]] = hw.points[idx[t]]] /\ fc' = fc
      BY <1>4, <2>2 DEF EcReadPoint
    <3>2. cache'.size = cache.size
      BY <1>1, <2>1, <3>1, ReplacePoint
    <3> QED
      BY <3>1, <3>2 DEF SizeInv
  <2>3. CASE ~FillsCache(t)
    <3>1. /\ fc' = [fc EXCEPT ![t] = [fc[t] EXCEPT !.points[idx[t]] = hw.points[idx[t]]]]
          /\ cache' = cache
      BY <1>4, <2>3 DEF EcReadPoint
    <3>2. [fc[t] EXCEPT !.points[idx[t]] = hw.points[idx[t]]].size = fc[t].size
      BY <1>1, <2>1, ReplacePoint
    <3> QED
      BY <1>1, <3>1, <3>2 DEF SizeInv
  <2> QED
    BY <2>2, <2>3
<1>5. CASE EcReadSize(t)
  <2>1. ReadDone(t, [Target(t) EXCEPT !.size = Min({hw.size, MAXFANCURVESIZE})])
    BY <1>5 DEF EcReadSize, Target
  <2> QED
    BY <1>2, <2>1, TargetType, ReadDoneSizeInv
<1>6. CASE WmiRead(t)
  <2>1. /\ WmiTable(MAXFANCURVESIZE) \in CurveType
        /\ WmiTable(MAXFANCURVESIZE).size <= MAXFANCURVESIZE
    BY <1>2, WmiTableType DEF TypeOK
  <2> QED
    BY <1>6, <2>1, ReadDoneSizeInv DEF WmiRead
<1>7. CASE WmiReadFails(t)
  BY <1>1, <1>7, ReadFailedSizeInv DEF WmiReadFails, SizeInv
<1>8. CASE WmiReadOutOfRange(t)
  <2>1. PICK n \in 0 .. Min({hw.size, MAXFANCURVESIZE}) - 1 :
          IF FillsCache(t)
            THEN /\ cache' = WmiTable(n) /\ clobbered' = TRUE
                 /\ ReadFailed(t, WmiTable(n))
            ELSE UNCHANGED <<cache, clobbered>> /\ ReadFailed(t, cache)
    BY <1>8 DEF WmiReadOutOfRange
  <2>2. WmiTable(n) \in CurveType /\ WmiTable(n).size <= MAXFANCURVESIZE
    BY <1>2, WmiTableType DEF TypeOK
  <2>3. \A u \in Threads : fc'[u].size <= MAXFANCURVESIZE
    BY <1>1, <2>1, <2>2, ReadFailedSizeInv DEF SizeInv
  <2> QED
    BY <2>1, <2>2, <2>3 DEF SizeInv
<1>9. CASE Modify(t)
  <2>1. CASE IsValid(fc[t], req[t])
    <3>1. Modified(fc[t], req[t]).size = fc[t].size
      BY <1>1, <1>9, <2>1, ModifiedCurve DEF TypeOK, CallInv, SizeInv, Modify
    <3> QED
      BY <1>1, <1>9, <2>1, <3>1 DEF Modify, SizeInv
  <2>2. CASE ~IsValid(fc[t], req[t])
    BY <1>9, <2>2 DEF Modify, SizeInv
  <2> QED
    BY <2>1, <2>2
<1>10. CASE WriteDone(t) /\ UNCHANGED fc
  BY <1>10 DEF WriteDone, SizeInv
<1>11. CASE Unlock(t)
  BY <1>1, <1>11, SizeAssumption DEF Unlock, SizeInv, ZeroCurve
<1> QED
  BY <1>3, <1>4, <1>5, <1>6, <1>7, <1>8, <1>9, <1>10, <1>11
     DEF Holder, CheckAllowed, EcWritePoint, EcWriteSize, WmiWrite, WmiWriteFails,
         WmiWriteDropped, Verify, WriteLockctl, WriteDefaults

(* Calls, waiting and the firmware leave the holder where it is.           *)
LEMMA CallControl ==
  ASSUME TypeOK, MutexInv, CallInv, LockInv, LoopInv, SizeInv,
         NEW t \in Threads, NEW r \in Requests, Call(t, r)
  PROVE  MutexInv' /\ CallInv' /\ LockInv' /\ LoopInv' /\ SizeInv'
<1>1. pc \in [Threads -> Label] /\ req \in [Threads -> Requests \cup {NoRequest}]
  BY DEF TypeOK, Label
<1>2. /\ pc[t] = "idle" /\ pc'[t] = "lock" /\ req'[t] = r /\ IsOffered(r)
      /\ \A u \in Threads \ {t} : pc'[u] = pc[u] /\ req'[u] = req[u]
      /\ UNCHANGED <<method, lockctl, cache, fancurve_mutex, fc, idx>>
  BY <1>1 DEF Call
<1>3. MutexInv'
  BY <1>2 DEF MutexInv, Holding
<1>4. CallInv'
  BY <1>2 DEF CallInv, IsOffered
<1>5. LockInv'
  BY <1>2 DEF LockInv
<1>6. LoopInv'
  BY <1>2 DEF LoopInv
<1>7. SizeInv'
  BY <1>2 DEF SizeInv
<1> QED
  BY <1>3, <1>4, <1>5, <1>6, <1>7

LEMMA LockControl ==
  ASSUME TypeOK, MutexInv, CallInv, LockInv, LoopInv, SizeInv,
         NEW t \in Threads, Lock(t)
  PROVE  MutexInv' /\ CallInv' /\ LockInv' /\ LoopInv' /\ SizeInv'
<1>1. pc \in [Threads -> Label]
  BY DEF TypeOK, Label
<1>2. /\ pc[t] = "lock" /\ pc'[t] = FirstStep(req[t])
      /\ \A u \in Threads \ {t} : pc'[u] = pc[u]
      /\ fancurve_mutex = NoOwner /\ fancurve_mutex' = t
      /\ UNCHANGED <<method, lockctl, cache, req, fc, idx>>
  BY <1>1 DEF Lock
<1>3. MutexInv'
  BY <1>2, FirstStepLabel, ThreadsAssumption DEF MutexInv, Holding
<1>4. CallInv'
  <2>1. /\ req[t].op \in {"pwm", "temp", "size", "show", "debugfs", "defaults",
                          "lockctl"}
        /\ req[t] \in Requests /\ IsOffered(req[t])
    BY <1>2, RequestsAssumption DEF CallInv
  <2>2. pc'[t] = "read" => req[t].op \in {"show", "debugfs"}
    BY <1>2, <2>1, FirstStepLabel DEF IsStore
  <2>3. pc'[t] \in {"lockctl", "defaults", "check", "read"}
    BY <1>2, FirstStepLabel
  <2>4. /\ pc'[t] = "lockctl" => req[t].op = "lockctl"
        /\ pc'[t] = "defaults" => req[t].op = "defaults"
        /\ pc'[t] = "check" => IsStore(req[t])
    BY <1>2, FirstStepLabel
  <2>5. \A u \in Threads : IsOffered(req[u])' <=> IsOffered(req[u])
    BY <1>2 DEF IsOffered
  <2> QED
    BY <1>2, <2>1, <2>2, <2>3, <2>4, <2>5 DEF CallInv
<1>5. LockInv'
  <2>1. pc'[t] = "read" => ~IsStore(req[t])
    BY <1>2, FirstStepLabel
  <2>2. pc'[t] \notin {"modify", "write"}
    BY <1>2, FirstStepLabel
  <2> QED
    BY <1>2, <2>1, <2>2 DEF LockInv
<1>6. LoopInv'
  BY <1>2 DEF LoopInv
<1>7. SizeInv'
  BY <1>2 DEF SizeInv
<1> QED
  BY <1>3, <1>4, <1>5, <1>6, <1>7

LEMMA NextControl ==
  ASSUME TypeOK, MutexInv, CallInv, LockInv, LoopInv, SizeInv, Next
  PROVE  MutexInv' /\ CallInv' /\ LockInv' /\ LoopInv' /\ SizeInv'
<1>1. ASSUME NEW t \in Threads, NEW r \in Requests, Call(t, r)
      PROVE  MutexInv' /\ CallInv' /\ LockInv' /\ LoopInv' /\ SizeInv'
  BY <1>1, CallControl
<1>2. ASSUME NEW t \in Threads, Lock(t)
      PROVE  MutexInv' /\ CallInv' /\ LockInv' /\ LoopInv' /\ SizeInv'
  BY <1>2, LockControl
<1>3. ASSUME NEW t \in Threads, Holder(t)
      PROVE  MutexInv' /\ CallInv' /\ LockInv' /\ LoopInv' /\ SizeInv'
  BY <1>3, HolderMutexInv, HolderCallInv, HolderLockInv, HolderLoopInv, HolderSizeInv
<1>4. ASSUME NEW c \in Loads, FirmwareLoads(c)
      PROVE  MutexInv' /\ CallInv' /\ LockInv' /\ LoopInv' /\ SizeInv'
  BY <1>4 DEF FirmwareLoads, driverVars, MutexInv, Holding, CallInv, IsOffered,
              LockInv, LoopInv, SizeInv
<1> QED
  BY <1>1, <1>2, <1>3, <1>4 DEF Next

------------------------------------------------------------------------------
(* Curves: what a handler that got so far has read, means and has written. *)

(* While the holder makes a step, the others are outside or wait.          *)
LEMMA OnlyHolder ==
  ASSUME TypeOK, MutexInv, NEW t \in Threads, Holder(t)
  PROVE  /\ pc \in [Threads -> Label] /\ method' = method
         /\ \A u \in Threads \ {t} : pc[u] \in {"idle", "lock"} /\ pc'[u] = pc[u]
<1>1. pc \in [Threads -> Label]
  BY DEF TypeOK, Label
<1>2. \A u \in Threads \ {t} : pc[u] \in {"idle", "lock"}
  BY HolderHolds, OthersWait
<1>3. \A u \in Threads \ {t} : pc'[u] = pc[u]
  BY <1>1, HolderGoes DEF Goes
<1> QED
  BY <1>1, <1>2, <1>3, HolderGoes

(* A store that leaves the table alone is exact if it reports an error.    *)
LEMMA ExactWhenRefused ==
  ASSUME NEW m, NEW c, NEW r, NEW e, e # "ok"
  PROVE  StoredExactly(m, c, c, r, e)
BY DEF StoredExactly

(* A store is exact on an EC when the registers hold what is meant, and    *)
(* the size register what auto_points_size writes there.                   *)
LEMMA ExactOnEc ==
  ASSUME method \in Methods, method = "EC",
         NEW old \in CurveType, NEW new \in CurveType,
         NEW r \in Requests, IsStore(r), IsValid(AsRead(method, old), r),
         NEW fcm, fcm = Modified(AsRead(method, old), r),
         \A i \in Points : new.points[i] = Cleared(fcm)[i],
         new.size = IF r.op = "size" THEN fcm.size ELSE old.size,
         NEW e
  PROVE  StoredExactly(method, old, new, r, e)
<1> DEFINE c == AsRead(method, old)
           n == Min({old.size, MAXFANCURVESIZE})
<1>1. c \in CurveType /\ c.size = n
  BY AsReadType
<1>2. c.points = old.points
  BY DEF AsRead, HasTemps
<1>3. /\ old.size \in 0..255 /\ n \in 0..255 /\ n <= MAXFANCURVESIZE
      /\ \A i \in Points : i < old.size <=> i < n
  BY CurveParts, SizeRead
<1> HIDE DEF c, n
<1>4. /\ fcm \in CurveType
      /\ fcm.size = n
      /\ \A i \in Points, a \in Attributes :
           i < n /\ <<i, a>> \notin Touched(r)
             => fcm.points[i][a] = old.points[i][a]
      /\ r.op = "pwm" =>
           r.point < n /\ fcm.points[r.point].pwm = Speed(method, r.value)
      /\ r.op = "temp" => fcm.points[r.point].temp = r.value
      /\ r.op = "size" =>
           /\ r.value \in 1..MAXFANCURVESIZE
           /\ r.value < n => fcm.points[r.value - 1].temp = 127
  BY <1>1, <1>2, <1>3, ModifiedCurve DEF c
<1>5. \A i \in Points : new.points[i] = IF i < n THEN fcm.points[i] ELSE ZeroPoint
  BY <1>4, ClearedType
<1>6. r.op \in {"pwm", "temp", "size"} /\ r.point \in Points
  BY StoreRequest
<1>7. \A i \in InUse(old), a \in Attributes :
        <<i, a>> \notin Touched(r) => new.points[i][a] = old.points[i][a]
  BY <1>3, <1>4, <1>5 DEF InUse
<1>8. new.size \in {old.size, n}
  BY <1>4
<1>9. TookEffect(method, old, new, r)
  <2>1. r.op = "pwm" => new.points[r.point].pwm = Speed(method, r.value)
    BY <1>4, <1>5, <1>6
  <2>2. ASSUME r.op = "temp", r.point \in InUse(new)
        PROVE  new.points[r.point].temp = r.value
    <3>1. r.point < n
      BY <1>3, <2>2 DEF InUse
    <3> QED
      BY <1>4, <1>5, <1>6, <2>2, <3>1
  <2>3. ASSUME r.op = "size", r.value < n
        PROVE  new.points[r.value - 1].temp = 127
    <3> DEFINE last == r.value - 1
    <3>1. last \in Points /\ last < n
      BY <1>3, <1>4, <2>3, SizeAssumption DEF Points
    <3> QED
      BY <1>4, <1>5, <2>3, <3>1
  <2>4. ASSUME NEW i \in Points \ InUse(new)
        PROVE  new.points[i] = ZeroPoint
    <3>1. ~(i < n)
      BY <1>3, <1>4, <2>4 DEF InUse
    <3> QED
      BY <1>5, <3>1
  <2> QED
    BY <2>1, <2>2, <2>3, <2>4 DEF TookEffect, n
<1> QED
  BY <1>7, <1>8, <1>9 DEF StoredExactly, n

(* On a WMI model, which has no temperatures and keeps the size itself, it *)
(* is exact when the table holds the speeds that are meant.                *)
LEMMA ExactOnWmi ==
  ASSUME method \in Methods, ~HasTemps(method),
         NEW old \in CurveType, NEW new \in CurveType,
         \A i \in Points : old.points[i].temp = 0,
         NEW r \in Requests, IsStore(r), IsValid(AsRead(method, old), r),
         NEW fcm, fcm = Modified(AsRead(method, old), r),
         \A i \in Points : i < old.size => new.points[i].pwm = fcm.points[i].pwm,
         \A i \in Points : new.points[i].temp = 0,
         new.size = old.size,
         NEW e
  PROVE  StoredExactly(method, old, new, r, e)
<1> DEFINE c == AsRead(method, old)
           n == Min({old.size, MAXFANCURVESIZE})
<1>1. c \in CurveType /\ c.size = n
  BY AsReadType
<1>2. \A i \in Points : i < n => c.points[i].pwm = old.points[i].pwm
  BY DEF AsRead
<1>3. /\ old.size \in 0..255 /\ n \in 0..255 /\ n <= MAXFANCURVESIZE
      /\ \A i \in Points : i < old.size <=> i < n
  BY CurveParts, SizeRead
<1> HIDE DEF c, n
<1>4. /\ \A i \in Points :
           i < n /\ <<i, "pwm">> \notin Touched(r)
             => fcm.points[i].pwm = c.points[i].pwm
      /\ r.op = "pwm" =>
           r.point < n /\ fcm.points[r.point].pwm = Speed(method, r.value)
  BY <1>1, <1>3, ModifiedCurve DEF c, Attributes
<1>5. \A i \in Points : i < n => new.points[i].pwm = fcm.points[i].pwm
  BY <1>3
<1>6. ASSUME NEW i \in InUse(old), NEW a \in Attributes, <<i, a>> \notin Touched(r)
      PROVE  new.points[i][a] = old.points[i][a]
  <2>1. i \in Points /\ i < n
    BY <1>3 DEF InUse
  <2>2. CASE a = "pwm"
    <3>1. new.points[i].pwm = old.points[i].pwm
      BY <1>2, <1>4, <1>5, <1>6, <2>1, <2>2
    <3> QED
      BY <2>2, <3>1
  <2>3. CASE a = "temp"
    <3>1. new.points[i].temp = old.points[i].temp
      BY <2>1
    <3> QED
      BY <2>3, <3>1
  <2> QED
    BY <2>2, <2>3 DEF Attributes
<1>7. TookEffect(method, old, new, r)
  <2>1. r.point \in Points
    BY StoreRequest
  <2>2. r.op = "pwm" => r.point < old.size
    BY <1>3, <1>4, <2>1
  <2> QED
    BY <1>4, <2>1, <2>2 DEF TookEffect
<1> QED
  BY <1>6, <1>7 DEF StoredExactly

(* What the agreement of the cache with the hardware comes down to.        *)
LEMMA AgreesMeans ==
  ASSUME NEW m, NEW c \in CurveType, NEW d \in CurveType
  PROVE  SamePoints(m, [c EXCEPT !.size = Min({@, d.size})], d) <=>
           \A i \in Points : i < c.size /\ i < d.size =>
             /\ c.points[i].pwm = d.points[i].pwm
             /\ HasTemps(m) => c.points[i].temp = d.points[i].temp
<1>1. c.size \in 0..255 /\ d.size \in 0..255
  BY CurveParts
<1> DEFINE a == c.size
           b == d.size
<1>2. Min({c.size, d.size}) = IF c.size <= d.size THEN c.size ELSE d.size
  <2>1. a \in Nat /\ b \in Nat
    BY <1>1
  <2> HIDE DEF a, b
  <2>2. Min({a, b}) = IF a <= b THEN a ELSE b
    BY <2>1, MinIsLess
  <2> QED
    BY <2>2 DEF a, b
<1>3. \A i \in Points : i < Min({c.size, d.size}) <=> i < c.size /\ i < d.size
  <2> DEFINE k == Min({c.size, d.size})
  <2>1. \A i \in Points : i \in Nat
    BY PointsAreNat
  <2>2. k = IF a <= b THEN a ELSE b
    BY <1>2
  <2>3. a \in Int /\ b \in Int
    BY <1>1
  <2> HIDE DEF k, a, b
  <2>4. \A i \in Points : i < k <=> i < a /\ i < b
    BY <2>1, <2>2, <2>3
  <2> QED
    BY <2>4 DEF k, a, b
<1>4. Min({c.size, d.size}) \in 0..255
  BY <1>1, <1>2
<1> DEFINE e == [c EXCEPT !.size = Min({c.size, d.size})]
<1>5. e.size = Min({c.size, d.size}) /\ e.points = c.points
  BY <1>4, ReplaceSize
<1>6. SamePoints(m, [c EXCEPT !.size = Min({@, d.size})], d) <=> SamePoints(m, e, d)
  OBVIOUS
<1> HIDE DEF e
<1>7. SamePoints(m, e, d) <=>
        \A i \in Points : i < c.size /\ i < d.size =>
          /\ c.points[i].pwm = d.points[i].pwm
          /\ HasTemps(m) => c.points[i].temp = d.points[i].temp
  <2>1. CASE HasTemps(m)
    BY <1>3, <1>5, <2>1 DEF SamePoints, InUse, Attributes
  <2>2. CASE ~HasTemps(m)
    BY <1>3, <1>5, <2>2 DEF SamePoints, InUse
  <2> QED
    BY <2>1, <2>2
<1> QED
  BY <1>6, <1>7

LEMMA CurveEqual ==
  ASSUME NEW c \in CurveType, NEW d \in CurveType, c.size = d.size,
         \A i \in Points : c.points[i] = d.points[i]
  PROVE  c = d
<1>1. c.points = d.points
  BY CurveParts
<1>2. /\ c = [points |-> c.points, size |-> c.size]
      /\ d = [points |-> d.points, size |-> d.size]
  BY CurveParts
<1> QED
  BY <1>1, <1>2

(* What the two ways of reading yield, when they have read table c.        *)
LEMMA EcReads ==
  ASSUME NEW m, HasTemps(m), NEW c \in CurveType, NEW d \in CurveType,
         d.size = Min({c.size, MAXFANCURVESIZE}),
         \A i \in Points : d.points[i] = c.points[i]
  PROVE  d = AsRead(m, c)
<1>1. AsRead(m, c) \in CurveType /\ AsRead(m, c).size = d.size
  BY AsReadType
<1>2. AsRead(m, c).points = c.points
  BY DEF AsRead
<1> QED
  BY <1>1, <1>2, CurveEqual

LEMMA WmiReads ==
  ASSUME ~HasTemps(method)
  PROVE  WmiTable(MAXFANCURVESIZE) = AsRead(method, hw)
<1>1. \A i \in Points : i < MAXFANCURVESIZE
  BY SizeAssumption DEF Points
<1> QED
  BY <1>1 DEF WmiTable, AsRead

(* A step that leaves table and cache alone leaves them in agreement.      *)
LEMMA CacheKept ==
  ASSUME IInv, NEW t \in Threads, Holder(t),
         UNCHANGED <<hw, cache>>,
         pc[t] # "write" \/ method # "EC",
         fancurve_valid' /\ fresh' /\ ~clobbered'
           => fancurve_valid /\ fresh /\ ~clobbered
  PROVE  CacheInv'
<1>1. method' = method /\ \A u \in Threads \ {t} : pc[u] \in {"idle", "lock"}
  BY OnlyHolder DEF IInv
<1>2. ~(method = "EC" /\ \E u \in Threads : pc[u] = "write")
  BY <1>1
<1> QED
  BY <1>1, <1>2 DEF IInv, CacheInv, Agrees

(* The cache holds the curve c that was read or written, and the hardware  *)
(* has its speeds, and its temperatures on an EC.                          *)
LEMMA CacheFilled ==
  ASSUME TypeOK, TypeOK', method' = method,
         \A i \in Points : i < cache'.size /\ i < hw'.size =>
           /\ cache'.points[i].pwm = hw'.points[i].pwm
           /\ HasTemps(method) => cache'.points[i].temp = hw'.points[i].temp
  PROVE  CacheInv'
<1>1. cache' \in CurveType /\ hw' \in CurveType
  BY DEF TypeOK
<1>2. Agrees' <=> SamePoints(method, [cache' EXCEPT !.size = Min({@, hw'.size})], hw')
  BY DEF Agrees
<1>3. Agrees'
  BY <1>1, <1>2, AgreesMeans
<1> QED
  BY <1>3 DEF CacheInv

(* Outside of the critical section there is nothing to say of a handler.   *)
LEMMA Outside ==
  ASSUME NEW t, pc'[t] \in {"idle", "lock"}
  PROVE  HandlerInv(t)'
BY DEF HandlerInv, Unwritten, Progress, ExactAt

(* A handler that fails before it wrote has changed nothing.               *)
LEMMA RefusedData ==
  ASSUME NEW t, pc'[t] = "unlock", err'[t] # "ok", hw' = before'
  PROVE  HandlerInv(t)'
<1>1. StoredExactly(method', before', hw', req'[t], err'[t])
  BY ExactWhenRefused
<1> QED
  BY <1>1 DEF HandlerInv, Unwritten, Progress, ExactAt

LEMMA CheckAllowedData ==
  ASSUME IInv, NEW t \in Threads, CheckAllowed(t)
  PROVE  TableInv' /\ CacheInv' /\ HandlerInv(t)'
<1>1. /\ pc[t] = "check" /\ pc \in [Threads -> Label] /\ err \in [Threads -> Result]
      /\ hw = before /\ idx[t] = 0
  BY DEF IInv, TypeOK, Label, Result, HandlerInv, Unwritten, LoopInv, CheckAllowed
<1>2. UNCHANGED <<method, hw, cache, req, idx, before, disturbed, fancurve_valid,
                  fresh, clobbered>>
  BY DEF CheckAllowed, historyVars
<1>3. TableInv'
  BY <1>2 DEF IInv, TableInv
<1>4. CacheInv'
  BY <1>1, <1>2, CacheKept DEF Holder
<1>5. HandlerInv(t)'
  <2>1. \/ pc'[t] = "read"
        \/ pc'[t] = "unlock" /\ err'[t] # "ok"
    BY <1>1 DEF CheckAllowed, Fail
  <2>2. CASE pc'[t] = "read"
    <3>1. \A i \in Points : ~(i < idx'[t])
      BY <1>1, <1>2, PointsAreNat
    <3> QED
      BY <1>1, <1>2, <2>2, <3>1 DEF HandlerInv, Unwritten, Progress, ExactAt
  <2>3. CASE pc'[t] = "unlock" /\ err'[t] # "ok"
    <3>1. hw' = before'
      BY <1>1, <1>2
    <3> QED
      BY <2>3, <3>1, RefusedData
  <2> QED
    BY <2>1, <2>2, <2>3
<1> QED
  BY <1>3, <1>4, <1>5

LEMMA EcReadPointData ==
  ASSUME IInv, NEW t \in Threads, EcReadPoint(t)
  PROVE  TableInv' /\ CacheInv' /\ HandlerInv(t)'
<1>1. /\ pc[t] = "read" /\ pc' = pc /\ hw = before
      /\ idx[t] \in Points /\ idx' = [idx EXCEPT ![t] = idx[t] + 1]
      /\ idx \in [Threads -> 0..MAXFANCURVESIZE] /\ fc \in [Threads -> CurveType]
      /\ cache \in CurveType /\ hw \in CurveType
      /\ UNCHANGED <<method, hw, req, err, before, disturbed, fancurve_valid, fresh,
                     clobbered>>
  BY SizeAssumption
     DEF IInv, TypeOK, HandlerInv, Unwritten, EcReadPoint, historyVars, Points
<1> DEFINE p == hw.points[idx[t]]
<1>2. p \in PointType
  BY <1>1, CurveParts
<1>3. TableInv'
  BY <1>1 DEF IInv, TableInv
<1>4. /\ Target(t) \in CurveType
      /\ IF FillsCache(t)
           THEN cache' = [Target(t) EXCEPT !.points[idx[t]] = p] /\ fc' = fc
           ELSE /\ fc' = [fc EXCEPT ![t] = [Target(t) EXCEPT !.points[idx[t]] = p]]
                /\ cache' = cache
  BY <1>1 DEF EcReadPoint, Target
<1> HIDE DEF p
<1>5. /\ Target(t)'.size = Target(t).size
      /\ \A i \in Points : Target(t)'.points[i]
                             = IF i = idx[t] THEN p ELSE Target(t).points[i]
  <2> DEFINE d == [Target(t) EXCEPT !.points[idx[t]] = p]
  <2>1. /\ d.size = Target(t).size
        /\ \A i \in Points : d.points[i] = IF i = idx[t] THEN p ELSE Target(t).points[i]
    <3> DEFINE c == Target(t)
               n == idx[t]
    <3>1. c \in CurveType /\ n \in Points
      BY <1>1, <1>4
    <3> HIDE DEF c, n
    <3>2. /\ [c EXCEPT !.points[n] = p].size = c.size
          /\ \A i \in Points : [c EXCEPT !.points[n] = p].points[i]
                                 = IF i = n THEN p ELSE c.points[i]
      BY <1>2, <3>1, ReplacePoint
    <3> QED
      BY <3>2 DEF c, n
  <2>2. Target(t)' = d
    BY <1>1, <1>4 DEF Target, FillsCache
  <2> HIDE DEF d
  <2> QED
    BY <2>1, <2>2
<1>6. CacheInv'
  <2>1. CASE ~FillsCache(t)
    BY <1>1, <1>4, <2>1, CacheKept DEF Holder
  <2>2. CASE FillsCache(t)
    <3>1. Target(t) = cache /\ Target(t)' = cache'
      BY <1>1, <2>2 DEF Target, FillsCache
    <3>2. CASE ~(fancurve_valid /\ fresh /\ ~clobbered)
      BY <1>1, <3>2 DEF CacheInv
    <3>3. CASE fancurve_valid /\ fresh /\ ~clobbered
      <4>1. Agrees
        <5>1. \A u \in Threads : pc[u] # "write"
          BY <1>1, OnlyHolder DEF IInv, Holder
        <5> QED
          BY <3>3, <5>1 DEF IInv, CacheInv
      <4>2. \A i \in Points : i < cache.size /\ i < hw.size =>
              /\ cache.points[i].pwm = hw.points[i].pwm
              /\ HasTemps(method) => cache.points[i].temp = hw.points[i].temp
        BY <1>1, <4>1, AgreesMeans DEF Agrees
      <4> QED
        BY <1>1, <1>5, <3>1, <4>2, EcReadPointTypeOK, CacheFilled DEF IInv, p
    <3> QED
      BY <3>2, <3>3
  <2> QED
    BY <2>1, <2>2
<1>7. HandlerInv(t)'
  <2>1. ASSUME ~disturbed
        PROVE  \A i \in Points : i < idx'[t] => Target(t)'.points[i] = before.points[i]
    <3>1. \A i \in Points : i < idx[t] => Target(t).points[i] = before.points[i]
      BY <1>1, <2>1 DEF IInv, HandlerInv, Progress
    <3>2. \A i \in Points : i < idx'[t] => i < idx[t] \/ i = idx[t]
      BY <1>1, PointsAreNat
    <3> QED
      BY <1>1, <1>5, <3>1, <3>2 DEF p
  <2> QED
    BY <1>1, <2>1 DEF HandlerInv, Unwritten, Progress, ExactAt
<1> QED
  BY <1>3, <1>6, <1>7

(* A read that succeeded: of an undisturbed handler, with the curve that   *)
(* was there when it took the mutex.                                       *)
LEMMA ReadDoneData ==
  ASSUME IInv, TypeOK', NEW t \in Threads, Holder(t), pc[t] = "read",
         NEW c, ReadDone(t, c), UNCHANGED <<method, hw, req, before>>,
         ~disturbed => c = AsRead(method, before)
  PROVE  TableInv' /\ CacheInv' /\ HandlerInv(t)'
<1>1. /\ hw = before /\ hw \in CurveType
      /\ pc \in [Threads -> Label] /\ fc \in [Threads -> CurveType]
  BY DEF IInv, TypeOK, Label, HandlerInv, Unwritten
<1>2. TableInv'
  BY DEF IInv, TableInv
<1>3. CacheInv'
  <2>1. CASE disturbed
    BY <2>1 DEF ReadDone, CacheInv
  <2>2. CASE ~disturbed
    <3>1. cache' = AsRead(method, hw)
      BY <1>1, <2>2 DEF ReadDone
    <3>2. \A i \in Points : i < hw.size <=> i < Min({hw.size, MAXFANCURVESIZE})
      BY <1>1, CurveParts, SizeRead
    <3>3. \A i \in Points : i < hw.size =>
            /\ AsRead(method, hw).points[i].pwm = hw.points[i].pwm
            /\ HasTemps(method) => AsRead(method, hw).points[i] = hw.points[i]
      BY <3>2 DEF AsRead
    <3> QED
      BY <3>1, <3>3, CacheFilled DEF IInv
  <2> QED
    BY <2>1, <2>2
<1>4. HandlerInv(t)'
  <2>1. CASE IsStore(req[t])
    <3>1. pc'[t] = "modify" /\ fc'[t] = c /\ disturbed' = disturbed
      BY <1>1, <2>1 DEF ReadDone, AfterRead, FillsCache, IsStore
    <3> QED
      BY <1>1, <3>1 DEF HandlerInv, Unwritten, Progress, ExactAt
  <2>2. CASE ~IsStore(req[t])
    <3>1. pc'[t] = "unlock"
      BY <1>1, <2>2 DEF ReadDone, AfterRead
    <3> QED
      BY <2>2, <3>1 DEF HandlerInv, Unwritten, Progress, ExactAt
  <2> QED
    BY <2>1, <2>2
<1> QED
  BY <1>2, <1>3, <1>4

(* The last step of ec_read_fancurve_legion completes the curve.           *)
LEMMA EcReadsAll ==
  ASSUME IInv, NEW t \in Threads, EcReadSize(t), ~disturbed
  PROVE  [Target(t) EXCEPT !.size = Min({hw.size, MAXFANCURVESIZE})]
           = AsRead(method, before)
<1> DEFINE c == [Target(t) EXCEPT !.size = Min({hw.size, MAXFANCURVESIZE})]
<1>1. /\ pc[t] = "read" /\ HasTemps(method) /\ idx[t] = MAXFANCURVESIZE
      /\ hw = before /\ hw \in CurveType
  BY DEF IInv, TypeOK, HandlerInv, Unwritten, EcReadSize, HasTemps
<1>2. /\ c \in CurveType /\ c.points = Target(t).points
      /\ c.size = Min({hw.size, MAXFANCURVESIZE})
  BY TargetType DEF IInv
<1> HIDE DEF c
<1>3. \A i \in Points : i < idx[t]
  BY <1>1, SizeAssumption DEF Points
<1>4. \A i \in Points : c.points[i] = before.points[i]
  BY <1>1, <1>2, <1>3 DEF IInv, HandlerInv, Progress
<1>5. c = AsRead(method, before)
  BY <1>1, <1>2, <1>4, EcReads
<1> QED
  BY <1>5 DEF c

LEMMA EcReadSizeData ==
  ASSUME IInv, NEW t \in Threads, EcReadSize(t)
  PROVE  TableInv' /\ CacheInv' /\ HandlerInv(t)'
<1> DEFINE c == [Target(t) EXCEPT !.size = Min({hw.size, MAXFANCURVESIZE})]
<1>1. pc[t] = "read" /\ ReadDone(t, c) /\ UNCHANGED <<method, hw, req, before>>
  BY DEF EcReadSize, Target
<1>2. ~disturbed => c = AsRead(method, before)
  BY EcReadsAll
<1> HIDE DEF c
<1> QED
  BY <1>1, <1>2, EcReadSizeTypeOK, ReadDoneData DEF IInv, Holder

LEMMA WmiReadData ==
  ASSUME IInv, NEW t \in Threads, WmiRead(t)
  PROVE  TableInv' /\ CacheInv' /\ HandlerInv(t)'
<1>1. /\ pc[t] = "read" /\ ~HasTemps(method) /\ hw = before
      /\ ReadDone(t, WmiTable(MAXFANCURVESIZE))
      /\ UNCHANGED <<method, hw, req, before>>
  BY DEF IInv, HandlerInv, Unwritten, WmiRead, IsWMI
<1>2. WmiTable(MAXFANCURVESIZE) = AsRead(method, before)
  BY <1>1, WmiReads
<1> QED
  BY <1>1, <1>2, WmiReadTypeOK, ReadDoneData DEF IInv, Holder

(* A read that failed: nothing is promised of the older curve it uses.     *)
LEMMA ReadFailedData ==
  ASSUME IInv, NEW t \in Threads, pc[t] = "read",
         NEW c, ReadFailed(t, c), UNCHANGED <<method, hw, req, before>>
  PROVE  TableInv' /\ HandlerInv(t)'
<1>1. /\ hw = before /\ pc \in [Threads -> Label]
      /\ err \in [Threads -> Result]
  BY DEF IInv, TypeOK, Label, Result, HandlerInv, Unwritten
<1>2. TableInv'
  BY DEF IInv, TableInv
<1>3. CASE fancurve_valid
  BY <1>1, <1>2, <1>3
     DEF ReadFailed, AfterRead, HandlerInv, Unwritten, Progress, ExactAt
<1>4. CASE ~fancurve_valid
  <2>1. pc'[t] = "unlock" /\ err'[t] # "ok"
    BY <1>1, <1>4 DEF ReadFailed, Fail
  <2> QED
    BY <1>1, <1>2, <2>1, RefusedData
<1> QED
  BY <1>3, <1>4

LEMMA WmiReadFailsData ==
  ASSUME IInv, NEW t \in Threads, WmiReadFails(t)
  PROVE  TableInv' /\ CacheInv' /\ HandlerInv(t)'
<1>1. TableInv' /\ HandlerInv(t)'
  BY ReadFailedData DEF WmiReadFails
<1>2. CacheInv'
  BY CacheKept DEF WmiReadFails, Holder
<1> QED
  BY <1>1, <1>2

LEMMA WmiReadOutOfRangeData ==
  ASSUME IInv, NEW t \in Threads, WmiReadOutOfRange(t)
  PROVE  TableInv' /\ CacheInv' /\ HandlerInv(t)'
<1>1. PICK n \in 0 .. Min({hw.size, MAXFANCURVESIZE}) - 1 :
        IF FillsCache(t)
          THEN cache' = WmiTable(n) /\ clobbered' = TRUE /\ ReadFailed(t, WmiTable(n))
          ELSE UNCHANGED <<cache, clobbered>> /\ ReadFailed(t, cache)
  BY DEF WmiReadOutOfRange
<1>2. TableInv' /\ HandlerInv(t)'
  BY <1>1, ReadFailedData DEF WmiReadOutOfRange
<1>3. CacheInv'
  <2>1. CASE FillsCache(t)
    BY <1>1, <2>1 DEF CacheInv
  <2>2. CASE ~FillsCache(t)
    <3>1. /\ Holder(t) /\ pc[t] # "write"
          /\ UNCHANGED <<hw, cache, fancurve_valid, fresh, clobbered>>
      BY <1>1, <2>2 DEF WmiReadOutOfRange, Holder
    <3> QED
      BY <3>1, CacheKept
  <2> QED
    BY <2>1, <2>2
<1> QED
  BY <1>2, <1>3

LEMMA ModifyData ==
  ASSUME IInv, NEW t \in Threads, Modify(t)
  PROVE  TableInv' /\ CacheInv' /\ HandlerInv(t)'
<1>1. /\ pc[t] = "modify" /\ pc \in [Threads -> Label] /\ err \in [Threads -> Result]
      /\ fc \in [Threads -> CurveType]
      /\ hw = before /\ idx[t] = 0
      /\ ~disturbed => fc[t] = AsRead(method, before)
  BY DEF IInv, TypeOK, Label, Result, HandlerInv, Unwritten, Progress, LoopInv, Modify
<1>2. UNCHANGED <<method, hw, cache, req, idx, before, disturbed, fancurve_valid,
                  fresh, clobbered>>
  BY DEF Modify, historyVars
<1>3. TableInv'
  BY <1>2 DEF IInv, TableInv
<1>4. CacheInv'
  BY <1>1, <1>2, CacheKept DEF Holder
<1>5. HandlerInv(t)'
  <2>1. CASE IsValid(fc[t], req[t])
    <3>1. pc'[t] = "write" /\ fc'[t] = Modified(fc[t], req[t])
      BY <1>1, <2>1 DEF Modify
    <3>2. \A i \in Points : ~(i < idx'[t])
      BY <1>1, <1>2, PointsAreNat
    <3>3. \A c : Modified(c, req[t])' = Modified(c, req[t])
      BY <1>2 DEF Modified
    <3>4. ~disturbed =>
            /\ IsValid(AsRead(method, before), req[t])
            /\ fc'[t] = Modified(AsRead(method, before), req[t])
      BY <1>1, <2>1, <3>1
    <3>5. Unwritten(t)' /\ ExactAt(t)'
      BY <3>1 DEF Unwritten, ExactAt
    <3>6. ~disturbed => Progress(t)'
      BY <1>1, <1>2, <3>1, <3>2, <3>4 DEF Progress, Modified
    <3> QED
      BY <1>2, <3>5, <3>6 DEF HandlerInv
  <2>2. CASE ~IsValid(fc[t], req[t])
    <3>1. pc'[t] = "unlock" /\ err'[t] # "ok"
      BY <1>1, <2>2 DEF Modify, Fail
    <3> QED
      BY <1>1, <1>2, <3>1, RefusedData
  <2> QED
    BY <2>1, <2>2
<1> QED
  BY <1>3, <1>4, <1>5

(* What a handler that is about to write, or has just done so, stores.     *)
LEMMA WritesMeant ==
  ASSUME IInv, NEW t \in Threads, pc[t] \in {"write", "verify"}
  PROVE  /\ method \in Methods /\ hw \in CurveType /\ before \in CurveType
         /\ fc[t] \in CurveType /\ fc[t].size <= MAXFANCURVESIZE
         /\ req[t] \in Requests /\ IsStore(req[t])
         /\ pc \in [Threads -> Label] /\ err \in [Threads -> Result]
         /\ ~HasTemps(method) =>
              /\ \A i \in Points : hw.points[i].temp = 0
              /\ \A i \in Points : before.points[i].temp = 0
         /\ ~disturbed =>
              /\ IsValid(AsRead(method, before), req[t])
              /\ fc[t] = Modified(AsRead(method, before), req[t])
              /\ hw.size = before.size
BY DEF IInv, TypeOK, Label, Result, CallInv, SizeInv, TableInv, HandlerInv, Progress

LEMMA EcWritePointData ==
  ASSUME IInv, NEW t \in Threads, EcWritePoint(t)
  PROVE  TableInv' /\ CacheInv' /\ HandlerInv(t)'
<1>1. /\ pc[t] = "write" /\ pc' = pc /\ method = "EC" /\ HasTemps(method)
      /\ idx' = [idx EXCEPT ![t] = idx[t] + 1]
      /\ idx \in [Threads -> 0..MAXFANCURVESIZE]
      /\ UNCHANGED <<method, req, fc, before, disturbed>>
  BY DEF IInv, TypeOK, EcWritePoint, historyVars, HasTemps
<1>2. TableInv'
  BY <1>1 DEF TableInv
<1>3. CacheInv'
  BY <1>1 DEF CacheInv
<1>4. /\ hw'.size = hw.size
      /\ \A i \in Points : hw'.points[i] = IF i = idx[t] THEN Cleared(fc[t])[i]
                                                         ELSE hw.points[i]
  BY WritesPoint DEF IInv
<1>5. ASSUME ~disturbed
      PROVE  Progress(t)'
  <2>1. Progress(t)
    BY <1>5 DEF IInv, HandlerInv
  <2>2. \A i \in Points : i < idx'[t] <=> i < idx[t] \/ i = idx[t]
    BY <1>1, PointsAreNat
  <2>3. \A i \in Points :
          hw'.points[i] = IF i < idx'[t] THEN Cleared(fc[t])[i] ELSE before.points[i]
    BY <1>1, <1>4, <2>1, <2>2 DEF Progress
  <2>4. /\ hw'.size = before.size
        /\ IsValid(AsRead(method, before), req[t])
        /\ fc[t] = Modified(AsRead(method, before), req[t])
    BY <1>1, <1>4, <2>1 DEF Progress
  <2> QED
    BY <1>1, <2>3, <2>4 DEF Progress, Modified
<1>6. HandlerInv(t)'
  BY <1>1, <1>5 DEF HandlerInv, Unwritten, ExactAt
<1> QED
  BY <1>2, <1>3, <1>6

LEMMA EcWriteSizeData ==
  ASSUME IInv, NEW t \in Threads, EcWriteSize(t)
  PROVE  TableInv' /\ CacheInv' /\ HandlerInv(t)'
<1>1. /\ pc[t] = "write" /\ method = "EC" /\ HasTemps(method)
      /\ idx[t] = MAXFANCURVESIZE
      /\ WriteDone(t) /\ UNCHANGED <<method, req, fc, err, before, disturbed>>
  BY DEF EcWriteSize, HasTemps
<1>2. TableInv'
  BY <1>1 DEF TableInv
<1>3. /\ hw' \in CurveType /\ hw'.points = hw.points
      /\ hw'.size = IF req[t].op = "size" THEN fc[t].size ELSE hw.size
  BY WritesSize DEF IInv
<1>4. ~disturbed => \A i \in Points : hw'.points[i] = Cleared(fc[t])[i]
  <2>1. \A i \in Points : i < idx[t]
    BY <1>1, SizeAssumption DEF Points
  <2> QED
    BY <1>1, <1>3, <2>1 DEF IInv, HandlerInv, Progress
<1>5. CacheInv'
  <2>1. CASE disturbed
    BY <1>1, <2>1 DEF WriteDone, CacheInv
  <2>2. CASE ~disturbed
    <3>1. \A i \in Points : i < fc[t].size => hw'.points[i] = fc[t].points[i]
      BY <1>1, <1>4, <2>2, ClearedType, WritesMeant
    <3> QED
      BY <1>1, <3>1, EcWriteSizeTypeOK, CacheFilled DEF IInv, WriteDone
  <2> QED
    BY <2>1, <2>2
<1>6. HandlerInv(t)'
  <2>1. pc'[t] = "unlock"
    BY <1>1, WritesMeant DEF WriteDone
  <2>2. ASSUME ~disturbed
        PROVE  StoredExactly(method, before, hw', req[t], err[t])
    <3>1. hw'.size = IF req[t].op = "size" THEN fc[t].size ELSE before.size
      BY <1>1, <1>3, <2>2, WritesMeant
    <3> QED
      BY <1>1, <1>3, <1>4, <2>2, <3>1, WritesMeant, ExactOnEc
  <2> QED
    BY <1>1, <2>1, <2>2 DEF HandlerInv, Unwritten, Progress, ExactAt
<1> QED
  BY <1>2, <1>5, <1>6

(* An undisturbed store on a WMI model, with its speeds in the table.      *)
LEMMA WmiStored ==
  ASSUME IInv, NEW t \in Threads, pc[t] \in {"write", "verify"},
         ~HasTemps(method), ~disturbed,
         NEW new \in CurveType, new.size = before.size,
         \A i \in Points : i < before.size => new.points[i].pwm = fc[t].points[i].pwm,
         \A i \in Points : new.points[i].temp = 0,
         NEW e
  PROVE  StoredExactly(method, before, new, req[t], e)
BY WritesMeant, ExactOnWmi

(* Before the ACPI method was called the table is the one that was read.   *)
LEMMA WmiUnwritten ==
  ASSUME IInv, NEW t \in Threads, pc[t] = "write", ~HasTemps(method), ~disturbed
  PROVE  hw = before
<1>1. \A i \in Points : ~(i < idx[t])
  BY PointsAreNat DEF IInv, LoopInv, HasTemps
<1>2. \A i \in Points : hw.points[i] = before.points[i]
  BY <1>1 DEF IInv, HandlerInv, Progress
<1> QED
  BY <1>2, WritesMeant, CurveEqual

LEMMA WmiWriteData ==
  ASSUME IInv, NEW t \in Threads, WmiWrite(t)
  PROVE  TableInv' /\ CacheInv' /\ HandlerInv(t)'
<1>1. /\ pc[t] = "write" /\ ~HasTemps(method)
      /\ UNCHANGED <<method, req, fc, err, before, disturbed>>
      /\ hw' = Written(fc[t])
  BY DEF WmiWrite, IsWMI
<1>2. /\ hw' \in CurveType /\ hw'.size = hw.size
      /\ \A i \in Points : hw'.points[i].pwm = fc[t].points[i].pwm
      /\ \A i \in Points : hw'.points[i].temp = 0
  BY <1>1, WritesMeant, WrittenType
<1>3. TableInv'
  BY <1>1, <1>2, WritesMeant DEF TableInv
<1>4. CASE method = "N2CN"
  <2>1. pc'[t] = "verify" /\ fresh' = FALSE
    BY <1>1, <1>4, WritesMeant DEF WmiWrite
  <2>2. ~disturbed => Progress(t)'
    BY <1>1, <1>2, <2>1, WritesMeant DEF Progress, Modified
  <2> QED
    BY <1>1, <1>3, <2>1, <2>2 DEF CacheInv, HandlerInv, Unwritten, ExactAt
<1>5. CASE method # "N2CN"
  <2>1. WriteDone(t) /\ pc'[t] = "unlock"
    BY <1>1, <1>5, WritesMeant DEF WmiWrite, WriteDone
  <2>2. CacheInv'
    BY <1>1, <1>2, <2>1, WmiWriteTypeOK, CacheFilled DEF IInv, WriteDone
  <2>3. ~disturbed => StoredExactly(method, before, hw', req[t], err[t])
    BY <1>1, <1>2, WritesMeant, WmiStored
  <2> QED
    BY <1>1, <1>3, <2>1, <2>2, <2>3 DEF HandlerInv, Unwritten, Progress, ExactAt
<1> QED
  BY <1>4, <1>5

LEMMA WmiWriteFailsData ==
  ASSUME IInv, NEW t \in Threads, WmiWriteFails(t)
  PROVE  TableInv' /\ CacheInv' /\ HandlerInv(t)'
<1>1. /\ pc[t] = "write" /\ ~HasTemps(method)
      /\ UNCHANGED <<method, req, fc, before, disturbed>>
      /\ pc'[t] = "unlock" /\ err'[t] # "ok" /\ fresh' = FALSE
      /\ hw' = hw \/ hw' = Written(fc[t])
  BY WritesMeant DEF WmiWriteFails, IsWMI, Fail
<1>2. CacheInv'
  BY <1>1 DEF CacheInv
<1>3. CASE hw' = hw
  <2>1. TableInv'
    BY <1>1, <1>3, WritesMeant DEF TableInv
  <2>2. ~disturbed => StoredExactly(method, before, hw', req[t], err'[t])
    BY <1>1, <1>3, WmiUnwritten, ExactWhenRefused
  <2> QED
    BY <1>1, <1>2, <2>1, <2>2 DEF HandlerInv, Unwritten, Progress, ExactAt
<1>4. CASE hw' = Written(fc[t])
  <2>1. /\ hw' \in CurveType /\ hw'.size = hw.size
        /\ \A i \in Points : hw'.points[i].pwm = fc[t].points[i].pwm
        /\ \A i \in Points : hw'.points[i].temp = 0
    BY <1>1, <1>4, WritesMeant, WrittenType
  <2>2. TableInv'
    BY <1>1, <2>1, WritesMeant DEF TableInv
  <2>3. ~disturbed => StoredExactly(method, before, hw', req[t], err'[t])
    BY <1>1, <2>1, WritesMeant, WmiStored
  <2> QED
    BY <1>1, <1>2, <2>2, <2>3 DEF HandlerInv, Unwritten, Progress, ExactAt
<1> QED
  BY <1>1, <1>3, <1>4

LEMMA WmiWriteDroppedData ==
  ASSUME IInv, NEW t \in Threads, WmiWriteDropped(t)
  PROVE  TableInv' /\ CacheInv' /\ HandlerInv(t)'
<1>1. /\ pc[t] = "write" /\ method = "N2CN" /\ ~HasTemps(method)
      /\ pc'[t] = "verify"
      /\ UNCHANGED <<method, hw, cache, req, fc, err, before, disturbed,
                     fancurve_valid, fresh, clobbered>>
  BY WritesMeant DEF WmiWriteDropped, historyVars, HasTemps
<1>2. TableInv'
  BY <1>1 DEF IInv, TableInv
<1>3. CacheInv'
  BY <1>1, CacheKept DEF Holder
<1>4. ~disturbed => Progress(t)'
  BY <1>1, WmiUnwritten, WritesMeant DEF Progress, Modified
<1> QED
  BY <1>1, <1>2, <1>3, <1>4 DEF HandlerInv, Unwritten, ExactAt

LEMMA VerifyData ==
  ASSUME IInv, NEW t \in Threads, Verify(t)
  PROVE  TableInv' /\ CacheInv' /\ HandlerInv(t)'
<1>1. /\ pc[t] = "verify" /\ ~HasTemps(method)
      /\ UNCHANGED <<method, hw, req, fc, before, disturbed>>
  BY DEF Verify, IInv, CallInv, HasTemps
<1>2. TableInv'
  BY <1>1 DEF IInv, TableInv
<1>3. CASE /\ \A i \in Points :
                WmiTable(MAXFANCURVESIZE).points[i].pwm = fc[t].points[i].pwm
           /\ WriteDone(t)
           /\ UNCHANGED err
  <2>1. \A i \in Points : i < hw.size => hw.points[i].pwm = fc[t].points[i].pwm
    <3>1. hw.size \in 0..255
      BY <1>1, WritesMeant, CurveParts
    <3>2. \A i \in Points : i < hw.size <=> i < Min({hw.size, MAXFANCURVESIZE})
      BY <3>1, SizeRead
    <3>3. \A i \in Points : i < MAXFANCURVESIZE
      BY SizeAssumption DEF Points
    <3>4. \A i \in Points : i < hw.size =>
            WmiTable(MAXFANCURVESIZE).points[i].pwm = hw.points[i].pwm
      BY <3>2, <3>3 DEF WmiTable
    <3> QED
      BY <1>3, <3>4
  <2>2. pc'[t] = "unlock"
    BY <1>1, <1>3, WritesMeant DEF WriteDone
  <2>3. CacheInv'
    BY <1>1, <1>3, <2>1, VerifyTypeOK, CacheFilled DEF IInv, WriteDone
  <2>4. ~disturbed => StoredExactly(method, before, hw, req[t], err[t])
    BY <1>1, <2>1, WritesMeant, WmiStored
  <2> QED
    BY <1>1, <1>2, <1>3, <2>2, <2>3, <2>4 DEF HandlerInv, Unwritten, Progress, ExactAt
<1>4. CASE /\ Fail(t, "EOPNOTSUPP")
           /\ UNCHANGED <<cache, fancurve_valid, fresh, clobbered>>
  <2>1. pc'[t] = "unlock" /\ err'[t] # "ok"
    BY <1>1, <1>4, WritesMeant DEF Fail
  <2>2. CacheInv'
    BY <1>1, <1>4, CacheKept DEF Holder
  <2>3. ASSUME ~disturbed
        PROVE  StoredExactly(method, before, hw, req[t], err'[t])
    <3>1. CASE hw = before
      BY <2>1, <3>1, ExactWhenRefused
    <3>2. CASE \A i \in Points : /\ hw.points[i].pwm = fc[t].points[i].pwm
                                 /\ hw.points[i].temp = 0
      BY <1>1, <2>3, <3>2, WritesMeant, WmiStored
    <3> QED
      BY <1>1, <2>3, <3>1, <3>2 DEF IInv, HandlerInv, Progress
  <2> QED
    BY <1>1, <1>2, <2>1, <2>2, <2>3 DEF HandlerInv, Unwritten, Progress, ExactAt
<1> QED
  BY <1>3, <1>4 DEF Verify

LEMMA WriteLockctlData ==
  ASSUME IInv, NEW t \in Threads, WriteLockctl(t)
  PROVE  TableInv' /\ CacheInv' /\ HandlerInv(t)'
<1>1. /\ pc[t] = "lockctl" /\ pc'[t] = "unlock" /\ ~IsStore(req[t])
      /\ UNCHANGED <<method, hw, cache, req, before, fancurve_valid, fresh,
                     clobbered>>
  BY DEF IInv, TypeOK, CallInv, WriteLockctl, historyVars, IsStore
<1>2. TableInv'
  BY <1>1 DEF IInv, TableInv
<1>3. CacheInv'
  BY <1>1, CacheKept DEF Holder
<1> QED
  BY <1>1, <1>2, <1>3 DEF HandlerInv, Unwritten, Progress, ExactAt

LEMMA WriteDefaultsData ==
  ASSUME IInv, NEW t \in Threads, WriteDefaults(t)
  PROVE  TableInv' /\ CacheInv' /\ HandlerInv(t)'
<1>1. /\ pc[t] = "defaults" /\ pc'[t] = "unlock" /\ ~IsStore(req[t])
      /\ UNCHANGED <<method, cache, req, before, fancurve_valid, clobbered>>
  BY DEF IInv, TypeOK, CallInv, WriteDefaults, Fail, IsStore
<1>2. HandlerInv(t)'
  BY <1>1 DEF HandlerInv, Unwritten, Progress, ExactAt
<1>3. CASE (\E c \in Loads : hw' = Held(method, c)) /\ fresh' = FALSE
  <2>1. TableInv'
    BY <1>1, <1>3, HeldType, LoadsAssumption DEF IInv, TypeOK, TableInv
  <2> QED
    BY <1>2, <1>3, <2>1 DEF CacheInv
<1>4. CASE UNCHANGED <<hw, fresh>>
  <2>1. TableInv'
    BY <1>1, <1>4 DEF IInv, TableInv
  <2>2. CacheInv'
    BY <1>1, <1>4, CacheKept DEF Holder
  <2> QED
    BY <1>2, <2>1, <2>2
<1> QED
  BY <1>3, <1>4 DEF WriteDefaults

LEMMA UnlockData ==
  ASSUME IInv, NEW t \in Threads, Unlock(t)
  PROVE  TableInv' /\ CacheInv' /\ HandlerInv(t)'
<1>1. /\ pc[t] = "unlock" /\ pc'[t] = "idle" /\ before' = hw
      /\ UNCHANGED <<method, hw, cache, fancurve_valid, fresh, clobbered>>
  BY DEF IInv, TypeOK, Unlock
<1>2. TableInv'
  BY <1>1 DEF IInv, TableInv
<1>3. CacheInv'
  BY <1>1, CacheKept DEF Holder
<1> QED
  BY <1>1, <1>2, <1>3, Outside

LEMMA HolderData ==
  ASSUME IInv, NEW t \in Threads, Holder(t)
  PROVE  TableInv' /\ CacheInv' /\ \A u \in Threads : HandlerInv(u)'
<1>1. TableInv' /\ CacheInv' /\ HandlerInv(t)'
  BY CheckAllowedData, EcReadPointData, EcReadSizeData, WmiReadData, WmiReadFailsData,
     WmiReadOutOfRangeData, ModifyData, EcWritePointData, EcWriteSizeData, WmiWriteData,
     WmiWriteFailsData, WmiWriteDroppedData, VerifyData, WriteLockctlData,
     WriteDefaultsData, UnlockData DEF Holder
<1>2. \A u \in Threads \ {t} : HandlerInv(u)'
  BY OnlyHolder, Outside DEF IInv
<1> QED
  BY <1>1, <1>2

LEMMA CallData ==
  ASSUME IInv, NEW t \in Threads, NEW r \in Requests, Call(t, r)
  PROVE  TableInv' /\ CacheInv' /\ \A u \in Threads : HandlerInv(u)'
<1>1. /\ pc[t] = "idle" /\ pc'[t] = "lock"
      /\ \A u \in Threads \ {t} : pc'[u] = pc[u] /\ req'[u] = req[u]
      /\ UNCHANGED <<method, hw, cache, fc, idx, err, before, disturbed,
                     fancurve_valid, fresh, clobbered>>
  BY DEF IInv, TypeOK, Call, historyVars
<1>2. TableInv'
  BY <1>1 DEF IInv, TableInv
<1>3. CacheInv'
  BY <1>1 DEF IInv, CacheInv, Agrees
<1>4. HandlerInv(t)'
  BY <1>1, Outside
<1>5. ASSUME NEW u \in Threads \ {t}
      PROVE  HandlerInv(u)'
  BY <1>1 DEF IInv, HandlerInv, Unwritten, Progress, ExactAt, Target, FillsCache,
              Modified
<1> QED
  BY <1>2, <1>3, <1>4, <1>5

LEMMA LockData ==
  ASSUME IInv, NEW t \in Threads, Lock(t)
  PROVE  TableInv' /\ CacheInv' /\ \A u \in Threads : HandlerInv(u)'
<1>1. /\ pc[t] = "lock" /\ pc'[t] = FirstStep(req[t])
      /\ \A u \in Threads \ {t} : pc'[u] = pc[u]
      /\ before' = hw /\ fancurve_mutex = NoOwner
      /\ UNCHANGED <<method, hw, cache, idx, fancurve_valid, fresh, clobbered>>
  BY DEF IInv, TypeOK, Lock
<1>2. \A u \in Threads : pc[u] \in {"idle", "lock"}
  BY <1>1, ThreadsAssumption DEF IInv, TypeOK, MutexInv, Holding
<1>3. TableInv'
  BY <1>1 DEF IInv, TableInv
<1>4. CacheInv'
  BY <1>1, <1>2 DEF IInv, CacheInv, Agrees
<1>5. HandlerInv(t)'
  <2>1. pc'[t] \in {"lockctl", "defaults", "check", "read"}
    BY <1>1, FirstStepLabel
  <2>2. \A i \in Points : ~(i < idx'[t])
    BY <1>1, PointsAreNat DEF IInv, LoopInv
  <2> QED
    BY <1>1, <2>1, <2>2 DEF HandlerInv, Unwritten, Progress, ExactAt
<1>6. \A u \in Threads \ {t} : HandlerInv(u)'
  BY <1>1, <1>2, Outside
<1> QED
  BY <1>3, <1>4, <1>5, <1>6

LEMMA FirmwareLoadsData ==
  ASSUME IInv, NEW c \in Loads, FirmwareLoads(c)
  PROVE  TableInv' /\ CacheInv' /\ \A u \in Threads : HandlerInv(u)'
<1>1. /\ hw' = Held(method, c) /\ before' = hw' /\ fresh' = FALSE
      /\ disturbed' = (fancurve_mutex # NoOwner)
      /\ UNCHANGED <<method, pc>>
  BY DEF FirmwareLoads, driverVars
<1>2. TableInv'
  BY <1>1, HeldType, LoadsAssumption DEF IInv, TypeOK, TableInv
<1>3. CacheInv'
  BY <1>1 DEF CacheInv
<1>4. ASSUME NEW u \in Threads
      PROVE  HandlerInv(u)'
  <2>1. CASE Holding(u)
    <3>1. disturbed' = TRUE
      BY <1>1, <2>1, ThreadsAssumption DEF IInv, MutexInv
    <3> QED
      BY <1>1, <3>1 DEF HandlerInv, Unwritten, ExactAt
  <2>2. CASE ~Holding(u)
    BY <1>1, <2>2, Outside DEF Holding
  <2> QED
    BY <2>1, <2>2
<1> QED
  BY <1>2, <1>3, <1>4

------------------------------------------------------------------------------
(* The invariant, and what follows from it.                                *)

LEMMA InitIInv == Init => IInv
<1> SUFFICES ASSUME Init PROVE IInv
  OBVIOUS
<1>1. TypeOK
  BY InitTypeOK
<1>2. \A t \in Threads :
        /\ pc[t] = "idle" /\ req[t] = NoRequest /\ idx[t] = 0 /\ fc[t] = ZeroCurve
  BY DEF Init
<1>3. MutexInv
  BY <1>2, ThreadsAssumption DEF Init, MutexInv, Holding
<1>4. CallInv /\ LockInv /\ LoopInv
  BY <1>2 DEF CallInv, LockInv, LoopInv
<1>5. SizeInv
  BY <1>2, SizeAssumption DEF Init, SizeInv, ZeroCurve
<1>6. TableInv
  <2>1. hw = before /\ method \in Methods /\ \E c \in CurveType : hw = Held(method, c)
    BY LoadsAssumption DEF Init
  <2> QED
    BY <2>1, HeldType DEF TableInv
<1>7. CacheInv
  BY DEF Init, CacheInv
<1>8. \A t \in Threads : HandlerInv(t)
  BY <1>2 DEF HandlerInv, Unwritten, Progress, ExactAt
<1> QED
  BY <1>1, <1>3, <1>4, <1>5, <1>6, <1>7, <1>8 DEF IInv

LEMMA StutterIInv ==
  ASSUME IInv, UNCHANGED vars
  PROVE  IInv'
<1> USE DEF vars, driverVars, historyVars
<1>1. TypeOK'
  BY DEF IInv, TypeOK
<1>2. MutexInv' /\ CallInv' /\ LockInv' /\ LoopInv' /\ SizeInv' /\ TableInv'
  BY DEF IInv, MutexInv, Holding, CallInv, IsOffered, LockInv, LoopInv, SizeInv, TableInv
<1>3. CacheInv'
  BY DEF IInv, CacheInv, Agrees
<1>4. \A t \in Threads : HandlerInv(t)'
  BY DEF IInv, HandlerInv, Unwritten, Progress, ExactAt, Target, FillsCache, Modified
<1> QED
  BY <1>1, <1>2, <1>3, <1>4 DEF IInv

LEMMA NextIInv ==
  ASSUME IInv, Next
  PROVE  IInv'
<1>1. TypeOK'
  BY NextTypeOK DEF IInv
<1>2. MutexInv' /\ CallInv' /\ LockInv' /\ LoopInv' /\ SizeInv'
  BY NextControl DEF IInv
<1>3. TableInv' /\ CacheInv' /\ \A t \in Threads : HandlerInv(t)'
  BY HolderData, CallData, LockData, FirmwareLoadsData DEF Next
<1> QED
  BY <1>1, <1>2, <1>3 DEF IInv

LEMMA InvariantHolds == Spec => []IInv
<1>1. IInv /\ [Next]_vars => IInv'
  BY NextIInv, StutterIInv
<1> QED
  BY <1>1, InitIInv, PTL DEF Spec

(* The state of the fan-curve store keeps its shape: every table stays a   *)
(* table of bytes, and no loop over the points leaves it.                  *)
THEOREM FanCurveTypeCorrect == Spec => []TypeOK
<1>1. IInv => TypeOK
  BY DEF IInv
<1> QED
  BY <1>1, InvariantHolds, PTL

(* fancurve_mutex excludes: two handlers are never both between taking and *)
(* releasing it, on no error path either.                                  *)
THEOREM MutualExclusion ==
  Spec => [](\A t, u \in Threads : Holding(t) /\ Holding(u) => t = u)
<1>1. IInv => \A t, u \in Threads : Holding(t) /\ Holding(u) => t = u
  BY DEF IInv, MutexInv
<1> QED
  BY <1>1, InvariantHolds, PTL

(* A store through autopoint_store changes exactly what it names, whatever *)
(* the other handlers do, for any number of threads and points.            *)
THEOREM ExactStores == Spec => []StoreIsExact
<1>1. IInv => StoreIsExact
  BY DEF IInv, HandlerInv, ExactAt, StoreIsExact
<1> QED
  BY <1>1, InvariantHolds, PTL

(* Between handlers priv->fancurve is the curve in the hardware.           *)
THEOREM CacheAgreement == Spec => []CacheAgrees
<1>1. IInv => CacheAgrees
  <2> SUFFICES ASSUME IInv, fancurve_mutex = NoOwner, fancurve_valid, fresh, ~clobbered
               PROVE  Agrees
    BY DEF CacheAgrees, Agrees
  <2>1. \A t \in Threads : ~Holding(t)
    BY ThreadsAssumption DEF IInv, MutexInv
  <2> QED
    BY <2>1 DEF IInv, CacheInv, Holding
<1> QED
  BY <1>1, InvariantHolds, PTL

(* No store reaches the table of a model that keeps a fan-control lock     *)
(* while the lock is on.                                                   *)
THEOREM LockIsRespected == Spec => LockRespected
<1>1. ASSUME IInv, Next, method = "N2CN", hw' # hw
      PROVE  lockctl = "off" \/ loads' # loads
  <2>1. CASE \E c \in Loads : FirmwareLoads(c)
    BY <2>1 DEF IInv, TypeOK, FirmwareLoads
  <2>2. CASE \E t \in Threads : (\E r \in Requests : Call(t, r)) \/ Lock(t)
    BY <1>1, <2>2 DEF Call, Lock
  <2>3. CASE \E t \in Threads : Holder(t)
    <3>1. PICK t \in Threads : Holder(t)
      BY <2>3
    <3>2. WmiWrite(t) \/ WmiWriteFails(t) \/ WriteDefaults(t)
      BY <1>1, <3>1
         DEF Holder, CheckAllowed, EcReadPoint, EcReadSize, WmiRead, WmiReadFails,
             WmiReadOutOfRange, Modify, EcWritePoint, EcWriteSize, WmiWriteDropped,
             Verify, WriteLockctl, Unlock
    <3>3. ~WriteDefaults(t)
      BY <1>1 DEF IInv, CallInv, IsOffered, WriteDefaults
    <3>4. pc[t] = "write"
      BY <3>2, <3>3 DEF WmiWrite, WmiWriteFails
    <3>5. IsStore(req[t])
      BY <1>1, <3>4 DEF IInv, CallInv
    <3> QED
      BY <1>1, <3>4, <3>5 DEF IInv, LockInv
  <2> QED
    BY <1>1, <2>1, <2>2, <2>3 DEF Next
<1>2. IInv /\ [Next]_vars =>
        [method = "N2CN" /\ hw' # hw => lockctl = "off" \/ loads' # loads]_vars
  BY <1>1
<1> QED
  BY <1>2, InvariantHolds, PTL DEF Spec, LockRespected

------------------------------------------------------------------------------
(* The refinement: every step of the driver is a step of the curve store,  *)
(* or leaves the store as it is.                                           *)

Results == [t \in Threads |-> IF pc[t] = "unlock" THEN StoreResult(t) ELSE NoResult]
Overlaps == [t \in Threads |-> disturbed /\ fancurve_mutex = t]

(* A result is not NoResult.                                               *)
LEMMA ResultSettled ==
  ASSUME NEW t, NEW e \in Result, NEW c
  PROVE  [err |-> e, curve |-> c] # NoResult
BY DEF Result, NoResult

(* A step of the holder that leads elsewhere than to its return, and shows *)
(* nothing of what it does.                                                *)
LEMMA HolderStutters ==
  ASSUME IInv, NEW t \in Threads, Holder(t), ~Unlock(t), pc'[t] # "unlock",
         StoreCurve' = StoreCurve, disturbed' = disturbed
  PROVE  UNCHANGED Store!storeVars
<1>1. /\ method' = method /\ req' = req /\ fancurve_mutex' = fancurve_mutex
      /\ \A u \in Threads \ {t} : pc[u] \in {"idle", "lock"} /\ pc'[u] = pc[u]
  BY HolderGoes, OnlyHolder DEF IInv
<1>2. pc[t] # "unlock"
  BY DEF Holder, Unlock, CheckAllowed, EcReadPoint, EcReadSize, WmiRead, WmiReadFails,
         WmiReadOutOfRange, Modify, EcWritePoint, EcWriteSize, WmiWrite, WmiWriteFails,
         WmiWriteDropped, Verify, WriteLockctl, WriteDefaults
<1>3. /\ \A u \in Threads : pc[u] # "unlock" /\ pc'[u] # "unlock"
  BY <1>1, <1>2
<1> QED
  BY <1>1, <1>3 DEF Store!storeVars

(* A step of the holder to its return settles the result of its call.      *)
LEMMA HolderSettles ==
  ASSUME IInv, TypeOK', NEW t \in Threads, Holder(t), ~Unlock(t), pc'[t] = "unlock"
  PROVE  /\ Store!Settles(t)
         /\ Results'[t].err = err'[t]
         /\ Results'[t].curve = IF FillsCache(t) THEN cache' ELSE fc'[t]
         /\ Overlaps'[t] = disturbed' /\ Overlaps[t] = disturbed
         /\ Overlaps' = [Overlaps EXCEPT ![t] = disturbed']
<1>1. /\ method' = method /\ req' = req /\ fancurve_mutex' = fancurve_mutex
      /\ \A u \in Threads \ {t} : pc[u] \in {"idle", "lock"} /\ pc'[u] = pc[u]
  BY HolderGoes, OnlyHolder DEF IInv
<1>2. pc[t] # "unlock" /\ Holding(t) /\ fancurve_mutex = t
  BY HolderHolds
     DEF Holder, Unlock, CheckAllowed, EcReadPoint, EcReadSize, WmiRead, WmiReadFails,
         WmiReadOutOfRange, Modify, EcWritePoint, EcWriteSize, WmiWrite, WmiWriteFails,
         WmiWriteDropped, Verify, WriteLockctl, WriteDefaults, IInv, MutexInv
<1>3. disturbed \in BOOLEAN /\ disturbed' \in BOOLEAN /\ err'[t] \in Result
  BY DEF IInv, TypeOK, Result
<1>4. req[t] # NoRequest
  BY <1>2, RequestsAssumption DEF IInv, CallInv, Holding, NoRequest
<1>5. /\ Results = [u \in Threads |-> NoResult]
      /\ Results' = [u \in Threads |-> IF u = t THEN StoreResult(t)' ELSE NoResult]
  BY <1>1, <1>2 DEF Results
<1>6. StoreResult(t)' = [err |-> err'[t], curve |-> IF FillsCache(t) THEN cache' ELSE fc'[t]]
  BY <1>1 DEF StoreResult, FillsCache
<1>7. StoreResult(t)' # NoResult
  BY <1>3, <1>6, ResultSettled
<1>8. Store!Settles(t)
  <2>1. Results' = [Results EXCEPT ![t] = Results'[t]]
    BY <1>5
  <2>2. Results[t] = NoResult /\ Results'[t] # NoResult
    BY <1>5, <1>7
  <2> QED
    BY <1>1, <1>4, <2>1, <2>2 DEF Store!Settles, Store!InProgress, Results
<1>9. /\ Overlaps = [u \in Threads |-> disturbed /\ u = t]
      /\ Overlaps' = [u \in Threads |-> disturbed' /\ u = t]
  BY <1>1, <1>2 DEF Overlaps
<1>10. /\ Overlaps'[t] = disturbed' /\ Overlaps[t] = disturbed
       /\ Overlaps' = [Overlaps EXCEPT ![t] = disturbed']
  BY <1>3, <1>9
<1> QED
  BY <1>5, <1>6, <1>8, <1>10

(* What the users see while the holder is at work.                         *)
LEMMA HolderCurve ==
  ASSUME IInv, NEW t \in Threads, Holder(t)
  PROVE  /\ StoreCurve = IF pc[t] \in {"write", "verify"} THEN before ELSE hw
         /\ StoreCurve' = IF pc'[t] \in {"write", "verify"} THEN before' ELSE hw'
<1>1. \A u \in Threads \ {t} : pc[u] \in {"idle", "lock"} /\ pc'[u] = pc[u]
  BY OnlyHolder DEF IInv
<1> QED
  BY <1>1 DEF StoreCurve

(* A handler that leaves the curve alone answers its call.                 *)
LEMMA Answers ==
  ASSUME IInv, TypeOK', NEW t \in Threads, Holder(t), ~Unlock(t), pc'[t] = "unlock",
         StoreCurve' = StoreCurve,
         disturbed => disturbed',
         IsStore(req[t]) => err'[t] # "ok",
         req[t].op \in {"show", "debugfs"} /\ err'[t] = "ok" /\ ~disturbed' =>
           SamePoints(method, IF FillsCache(t) THEN cache' ELSE fc'[t], StoreCurve)
  PROVE  Store!StoreAnswers(t)
<1>1. /\ Store!Settles(t)
      /\ Results'[t].err = err'[t]
      /\ Results'[t].curve = IF FillsCache(t) THEN cache' ELSE fc'[t]
      /\ Overlaps'[t] = disturbed' /\ Overlaps[t] = disturbed
      /\ Overlaps' = [Overlaps EXCEPT ![t] = disturbed']
  BY HolderSettles
<1>2. disturbed' \in BOOLEAN /\ disturbed \in BOOLEAN
  BY DEF IInv, TypeOK
<1>3. Overlaps' = [Overlaps EXCEPT ![t] = Overlaps[t] \/ disturbed']
  <2>1. (Overlaps[t] \/ disturbed') = disturbed'
    BY <1>1, <1>2
  <2> QED
    BY <1>1, <2>1
<1>4. req[t].op \in {"show", "debugfs"} /\ Results'[t].err = "ok" /\ ~Overlaps'[t]
        => SamePoints(method, Results'[t].curve, StoreCurve)
  BY <1>1
<1>5. IsStore(req[t]) => Results'[t].err # "ok"
  BY <1>1
<1> QED
  BY <1>1, <1>2, <1>3, <1>4, <1>5 DEF Store!StoreAnswers, Results, Overlaps

(* A handler that has written lets its store take effect.                  *)
LEMMA Applies ==
  ASSUME IInv, TypeOK', NEW t \in Threads, Holder(t), ~Unlock(t), pc'[t] = "unlock",
         pc[t] \in {"write", "verify"}, disturbed' = disturbed, before' = before,
         HandlerInv(t)'
  PROVE  Store!StoreApplies(t)
<1>1. /\ Store!Settles(t)
      /\ Results'[t].err = err'[t]
      /\ Overlaps'[t] = disturbed' /\ Overlaps[t] = disturbed
      /\ Overlaps' = [Overlaps EXCEPT ![t] = disturbed']
  BY HolderSettles
<1>2. IsStore(req[t])
  BY WritesMeant
<1>3. StoreCurve = before /\ StoreCurve' = hw'
  BY HolderCurve
<1>4. method' = method /\ req' = req
  BY HolderGoes
<1>5. disturbed \/ StoredExactly(method, StoreCurve, StoreCurve', req[t], Results'[t].err)
  BY <1>1, <1>2, <1>3, <1>4 DEF HandlerInv, ExactAt
<1>6. Overlaps' = Overlaps
  BY <1>1 DEF Overlaps
<1> QED
  BY <1>1, <1>2, <1>5, <1>6 DEF Store!StoreApplies, Results, Overlaps

(* What the driver's step does to the curve store.                         *)
StoreStep == Store!StoreNext \/ UNCHANGED Store!storeVars

LEMMA CheckAllowedStep ==
  ASSUME IInv, TypeOK', NEW t \in Threads, CheckAllowed(t)
  PROVE  StoreStep
<1>1. /\ Holder(t) /\ ~Unlock(t) /\ pc[t] = "check" /\ IsStore(req[t])
      /\ pc \in [Threads -> Label] /\ err \in [Threads -> Result]
      /\ UNCHANGED <<hw, disturbed>>
  BY DEF IInv, TypeOK, Label, Result, CallInv, CheckAllowed, Holder, Unlock, historyVars
<1>2. CASE pc'[t] = "read"
  BY <1>1, <1>2, HolderCurve, HolderStutters DEF StoreStep
<1>3. CASE pc'[t] = "unlock" /\ err'[t] # "ok"
  BY <1>1, <1>3, HolderCurve, Answers DEF StoreStep, Store!StoreNext, IsStore
<1> QED
  BY <1>1, <1>2, <1>3 DEF CheckAllowed, Fail

LEMMA EcReadPointStep ==
  ASSUME IInv, NEW t \in Threads, EcReadPoint(t)
  PROVE  StoreStep
<1>1. /\ Holder(t) /\ ~Unlock(t) /\ pc[t] = "read" /\ pc' = pc
      /\ UNCHANGED <<hw, disturbed>>
  BY DEF EcReadPoint, Holder, Unlock, historyVars
<1> QED
  BY <1>1, HolderCurve, HolderStutters DEF StoreStep

LEMMA ReadDoneStep ==
  ASSUME IInv, TypeOK', NEW t \in Threads, Holder(t), ~Unlock(t), pc[t] = "read",
         NEW c, ReadDone(t, c), UNCHANGED <<method, hw, req, before>>,
         ~disturbed => c = AsRead(method, before)
  PROVE  StoreStep
<1>1. /\ hw = before /\ hw \in CurveType
      /\ pc \in [Threads -> Label] /\ fc \in [Threads -> CurveType]
      /\ disturbed' = disturbed
  BY DEF IInv, TypeOK, Label, HandlerInv, Unwritten, ReadDone
<1>2. CASE IsStore(req[t])
  <2>1. pc'[t] = "modify"
    BY <1>1, <1>2 DEF ReadDone, AfterRead
  <2> QED
    BY <1>1, <2>1, HolderCurve, HolderStutters DEF StoreStep
<1>3. CASE ~IsStore(req[t])
  <2>1. pc'[t] = "unlock"
    BY <1>1, <1>3 DEF ReadDone, AfterRead
  <2>2. StoreCurve = hw /\ StoreCurve' = hw
    BY <2>1, HolderCurve
  <2>3. (IF FillsCache(t) THEN cache' ELSE fc'[t]) = c
    BY <1>1 DEF ReadDone
  <2>4. ~disturbed => SamePoints(method, c, hw)
    <3>1. AsRead(method, hw).size = Min({hw.size, MAXFANCURVESIZE})
      BY <1>1, AsReadType
    <3>2. ASSUME NEW i \in InUse(AsRead(method, hw))
          PROVE  /\ AsRead(method, hw).points[i].pwm = hw.points[i].pwm
                 /\ HasTemps(method) => AsRead(method, hw).points[i] = hw.points[i]
      BY <3>1 DEF InUse, AsRead
    <3>3. CASE HasTemps(method)
      BY <1>1, <3>2, <3>3 DEF SamePoints
    <3>4. CASE ~HasTemps(method)
      BY <1>1, <3>2, <3>4 DEF SamePoints
    <3> QED
      BY <3>3, <3>4
  <2>5. Store!StoreAnswers(t)
    BY <1>1, <1>3, <2>1, <2>2, <2>3, <2>4, Answers
  <2> QED
    BY <2>5 DEF StoreStep, Store!StoreNext
<1> QED
  BY <1>2, <1>3

LEMMA EcReadSizeStep ==
  ASSUME IInv, TypeOK', NEW t \in Threads, EcReadSize(t)
  PROVE  StoreStep
<1> DEFINE c == [Target(t) EXCEPT !.size = Min({hw.size, MAXFANCURVESIZE})]
<1>1. /\ Holder(t) /\ ~Unlock(t) /\ pc[t] = "read"
      /\ ReadDone(t, c)
      /\ UNCHANGED <<method, hw, req, before>>
  BY DEF EcReadSize, Target, Holder, Unlock
<1>2. ~disturbed => c = AsRead(method, before)
  BY EcReadsAll
<1> HIDE DEF c
<1> QED
  BY <1>1, <1>2, ReadDoneStep

LEMMA WmiReadStep ==
  ASSUME IInv, TypeOK', NEW t \in Threads, WmiRead(t)
  PROVE  StoreStep
<1>1. /\ Holder(t) /\ ~Unlock(t) /\ pc[t] = "read" /\ ~HasTemps(method) /\ hw = before
      /\ ReadDone(t, WmiTable(MAXFANCURVESIZE))
      /\ UNCHANGED <<method, hw, req, before>>
  BY DEF IInv, HandlerInv, Unwritten, WmiRead, IsWMI, Holder, Unlock
<1>2. WmiTable(MAXFANCURVESIZE) = AsRead(method, before)
  BY <1>1, WmiReads
<1> QED
  BY <1>1, <1>2, ReadDoneStep

LEMMA ReadFailedStep ==
  ASSUME IInv, TypeOK', NEW t \in Threads, Holder(t), ~Unlock(t), pc[t] = "read",
         NEW c, ReadFailed(t, c), UNCHANGED <<method, hw, req>>
  PROVE  StoreStep
<1>1. /\ pc \in [Threads -> Label] /\ err \in [Threads -> Result]
      /\ disturbed \in BOOLEAN
  BY DEF IInv, TypeOK, Label, Result
<1>2. CASE fancurve_valid /\ IsStore(req[t])
  <2>1. pc'[t] = "modify" /\ disturbed' = TRUE
    BY <1>1, <1>2 DEF ReadFailed, AfterRead
  <2>2. StoreCurve' = StoreCurve
    BY <2>1, HolderCurve
  <2>3. /\ req[t] # NoRequest /\ fancurve_mutex = t /\ fancurve_mutex' = t
        /\ \A u \in Threads : pc[u] # "unlock" /\ pc'[u] # "unlock"
    BY <1>2, <2>1, HolderHolds, HolderGoes, OnlyHolder
       DEF IInv, MutexInv, IsStore, NoRequest
  <2>4. Results' = Results /\ Results[t] = NoResult
    BY <2>3 DEF Results
  <2>5. Overlaps' = [Overlaps EXCEPT ![t] = TRUE]
    BY <2>1, <2>3 DEF Overlaps
  <2>6. Store!StandIn(t)
    BY <1>2, <2>2, <2>3, <2>4, <2>5
       DEF Store!StandIn, Store!InProgress, Results, Overlaps
  <2> QED
    BY <2>6 DEF StoreStep, Store!StoreNext
<1>3. CASE fancurve_valid /\ ~IsStore(req[t])
  <2>1. pc'[t] = "unlock" /\ disturbed' = TRUE
    BY <1>1, <1>3 DEF ReadFailed, AfterRead
  <2>2. Store!StoreAnswers(t)
    BY <1>3, <2>1, HolderCurve, Answers
  <2> QED
    BY <2>2 DEF StoreStep, Store!StoreNext
<1>4. CASE ~fancurve_valid
  <2>1. pc'[t] = "unlock" /\ err'[t] # "ok" /\ disturbed' = disturbed
    BY <1>1, <1>4 DEF ReadFailed, Fail
  <2>2. Store!StoreAnswers(t)
    BY <2>1, HolderCurve, Answers
  <2> QED
    BY <2>2 DEF StoreStep, Store!StoreNext
<1> QED
  BY <1>2, <1>3, <1>4

LEMMA WmiReadFailedStep ==
  ASSUME IInv, TypeOK', NEW t \in Threads, WmiReadFails(t) \/ WmiReadOutOfRange(t)
  PROVE  StoreStep
<1>1. /\ Holder(t) /\ ~Unlock(t) /\ pc[t] = "read"
      /\ UNCHANGED <<method, hw, req>>
      /\ \E c : ReadFailed(t, c)
  BY DEF WmiReadFails, WmiReadOutOfRange, Holder, Unlock
<1> QED
  BY <1>1, ReadFailedStep

LEMMA ModifyStep ==
  ASSUME IInv, TypeOK', NEW t \in Threads, Modify(t)
  PROVE  StoreStep
<1>1. /\ Holder(t) /\ ~Unlock(t) /\ pc[t] = "modify" /\ IsStore(req[t]) /\ hw = before
      /\ pc \in [Threads -> Label] /\ err \in [Threads -> Result]
      /\ UNCHANGED <<hw, before, disturbed>>
  BY DEF IInv, TypeOK, Label, Result, CallInv, HandlerInv, Unwritten, Modify, Holder,
         Unlock, historyVars
<1>2. CASE pc'[t] = "write"
  BY <1>1, <1>2, HolderCurve, HolderStutters DEF StoreStep
<1>3. CASE pc'[t] = "unlock" /\ err'[t] # "ok"
  BY <1>1, <1>3, HolderCurve, Answers DEF StoreStep, Store!StoreNext, IsStore
<1> QED
  BY <1>1, <1>2, <1>3 DEF Modify, Fail

LEMMA WriteStep ==
  ASSUME IInv, TypeOK', NEW t \in Threads,
         \/ EcWritePoint(t) \/ EcWriteSize(t) \/ WmiWrite(t) \/ WmiWriteFails(t)
         \/ WmiWriteDropped(t) \/ Verify(t)
  PROVE  StoreStep
<1>1. /\ Holder(t) /\ ~Unlock(t) /\ pc[t] \in {"write", "verify"}
      /\ UNCHANGED <<before, disturbed>>
  BY DEF EcWritePoint, EcWriteSize, WmiWrite, WmiWriteFails, WmiWriteDropped, Verify,
         Holder, Unlock, historyVars
<1>2. pc'[t] \in {"write", "verify", "unlock"}
  BY WritesMeant
     DEF EcWritePoint, EcWriteSize, WmiWrite, WmiWriteFails, WmiWriteDropped, Verify,
         WriteDone, Fail
<1>3. CASE pc'[t] \in {"write", "verify"}
  BY <1>1, <1>3, HolderCurve, HolderStutters DEF StoreStep
<1>4. CASE pc'[t] = "unlock"
  <2>1. HandlerInv(t)'
    BY EcWritePointData, EcWriteSizeData, WmiWriteData, WmiWriteFailsData,
       WmiWriteDroppedData, VerifyData
  <2>2. Store!StoreApplies(t)
    BY <1>1, <1>4, <2>1, Applies
  <2> QED
    BY <2>2 DEF StoreStep, Store!StoreNext
<1> QED
  BY <1>2, <1>3, <1>4

LEMMA WriteLockctlStep ==
  ASSUME IInv, TypeOK', NEW t \in Threads, WriteLockctl(t)
  PROVE  StoreStep
<1>1. /\ Holder(t) /\ ~Unlock(t) /\ pc[t] = "lockctl" /\ pc'[t] = "unlock"
      /\ req[t].op = "lockctl" /\ UNCHANGED <<hw, disturbed>>
  BY DEF IInv, TypeOK, CallInv, WriteLockctl, Holder, Unlock, historyVars
<1>2. Store!StoreAnswers(t)
  BY <1>1, HolderCurve, Answers DEF IsStore
<1> QED
  BY <1>2 DEF StoreStep, Store!StoreNext

LEMMA WriteDefaultsStep ==
  ASSUME IInv, TypeOK', NEW t \in Threads, WriteDefaults(t)
  PROVE  StoreStep
<1>1. /\ Holder(t) /\ ~Unlock(t) /\ pc[t] = "defaults" /\ pc'[t] = "unlock"
      /\ req[t].op = "defaults" /\ err \in [Threads -> Result]
  BY DEF IInv, TypeOK, Result, CallInv, WriteDefaults, Fail, Holder, Unlock
<1>2. StoreCurve' = hw' /\ StoreCurve = hw
  BY <1>1, HolderCurve
<1>3. CASE (\E c \in Loads : hw' = Held(method, c)) /\ disturbed' = TRUE
  <2>1. /\ Store!Settles(t)
        /\ Overlaps' = [Overlaps EXCEPT ![t] = TRUE]
    BY <1>1, <1>3, HolderSettles
  <2>2. Store!StoreDefaults(t)
    BY <1>1, <1>2, <1>3, <2>1 DEF Store!StoreDefaults, Overlaps
  <2> QED
    BY <2>2 DEF StoreStep, Store!StoreNext
<1>4. CASE UNCHANGED <<hw, disturbed>>
  <2>1. Store!StoreAnswers(t)
    BY <1>1, <1>2, <1>4, Answers DEF IsStore
  <2> QED
    BY <2>1 DEF StoreStep, Store!StoreNext
<1> QED
  BY <1>3, <1>4 DEF WriteDefaults

LEMMA UnlockStep ==
  ASSUME IInv, TypeOK', NEW t \in Threads, Unlock(t)
  PROVE  StoreStep
<1>1. /\ Holder(t) /\ pc[t] = "unlock" /\ pc'[t] = "idle" /\ hw' = hw
      /\ pc \in [Threads -> Label] /\ err[t] \in Result
      /\ method' = method /\ req' = [req EXCEPT ![t] = NoRequest]
      /\ fancurve_mutex = t /\ fancurve_mutex' = NoOwner /\ disturbed' = FALSE
      /\ \A u \in Threads \ {t} : pc[u] \in {"idle", "lock"} /\ pc'[u] = pc[u]
  BY OnlyHolder DEF IInv, TypeOK, Label, Result, MutexInv, Holding, Unlock, Holder
<1>2. StoreCurve' = StoreCurve
  BY <1>1, HolderCurve
<1>3. req[t] # NoRequest
  BY <1>1, RequestsAssumption DEF IInv, CallInv, NoRequest
<1>4. Results[t] # NoResult
  BY <1>1, ResultSettled DEF Results, StoreResult
<1>5. Results' = [Results EXCEPT ![t] = NoResult]
  BY <1>1 DEF Results
<1>6. Overlaps' = [Overlaps EXCEPT ![t] = FALSE]
  BY <1>1, ThreadsAssumption DEF Overlaps
<1>7. Store!StoreReturns(t)
  BY <1>1, <1>2, <1>3, <1>4, <1>5, <1>6 DEF Store!StoreReturns, Results, Overlaps
<1> QED
  BY <1>7 DEF StoreStep, Store!StoreNext

LEMMA CallStep ==
  ASSUME IInv, NEW t \in Threads, NEW r \in Requests, Call(t, r)
  PROVE  StoreStep
<1>1. /\ pc[t] = "idle" /\ pc'[t] = "lock" /\ req[t] = NoRequest
      /\ req' = [req EXCEPT ![t] = r]
      /\ \A u \in Threads \ {t} : pc'[u] = pc[u] /\ req'[u] = req[u]
      /\ UNCHANGED <<method, hw, cache, fc, err, before, disturbed, fancurve_mutex>>
  BY DEF IInv, TypeOK, CallInv, Call, historyVars
<1>2. StoreCurve' = StoreCurve
  BY <1>1 DEF StoreCurve
<1>3. Results' = Results
  <2>1. ASSUME NEW u \in Threads
        PROVE  (IF pc[u] = "unlock" THEN StoreResult(u) ELSE NoResult)'
                 = IF pc[u] = "unlock" THEN StoreResult(u) ELSE NoResult
    BY <1>1 DEF StoreResult, FillsCache, NoResult
  <2> QED
    BY <2>1 DEF Results
<1>4. Overlaps' = Overlaps
  BY <1>1 DEF Overlaps
<1>5. Store!StoreCall(t, r)
  BY <1>1, <1>2, <1>3, <1>4 DEF Store!StoreCall, Results, Overlaps
<1> QED
  BY <1>5 DEF StoreStep, Store!StoreNext

LEMMA LockStep ==
  ASSUME IInv, NEW t \in Threads, Lock(t)
  PROVE  StoreStep
<1>1. /\ pc[t] = "lock" /\ pc'[t] = FirstStep(req[t])
      /\ \A u \in Threads \ {t} : pc'[u] = pc[u]
      /\ fancurve_mutex = NoOwner /\ disturbed' = FALSE
      /\ UNCHANGED <<method, hw, req>>
  BY DEF IInv, TypeOK, Lock
<1>2. \A u \in Threads : pc[u] \in {"idle", "lock"}
  BY <1>1, ThreadsAssumption DEF IInv, TypeOK, MutexInv, Holding
<1>3. pc'[t] \in {"lockctl", "defaults", "check", "read"}
  BY <1>1, FirstStepLabel
<1>4. StoreCurve' = StoreCurve
  BY <1>1, <1>2, <1>3 DEF StoreCurve
<1>5. Results' = Results
  BY <1>1, <1>2, <1>3 DEF Results, NoResult
<1>6. Overlaps' = Overlaps
  BY <1>1, ThreadsAssumption DEF Overlaps
<1> QED
  BY <1>1, <1>4, <1>5, <1>6 DEF StoreStep, Store!storeVars, Results, Overlaps

LEMMA FirmwareLoadsStep ==
  ASSUME IInv, NEW c \in Loads, FirmwareLoads(c)
  PROVE  StoreStep
<1>1. /\ hw' = Held(method, c) /\ before' = hw'
      /\ disturbed' = (fancurve_mutex # NoOwner)
      /\ UNCHANGED <<method, cache, fancurve_mutex, pc, req, fc, err>>
  BY DEF FirmwareLoads, driverVars
<1>2. StoreCurve' = Held(method, c)
  BY <1>1 DEF StoreCurve
<1>3. Results' = Results
  BY <1>1 DEF Results, StoreResult, FillsCache, NoResult
<1>4. \/ Overlaps' = Overlaps
      \/ \E t \in Threads : req[t] # NoRequest /\ Overlaps' = [Overlaps EXCEPT ![t] = TRUE]
  <2>1. CASE fancurve_mutex = NoOwner
    BY <1>1, <2>1, ThreadsAssumption DEF Overlaps
  <2>2. CASE fancurve_mutex # NoOwner
    <3>1. fancurve_mutex \in Threads
      BY <2>2 DEF IInv, TypeOK
    <3>2. req[fancurve_mutex] # NoRequest
      BY <3>1, RequestsAssumption DEF IInv, MutexInv, CallInv, Holding, NoRequest
    <3>3. Overlaps' = [Overlaps EXCEPT ![fancurve_mutex] = TRUE]
      BY <1>1, <2>2, <3>1 DEF Overlaps
    <3> QED
      BY <3>1, <3>2, <3>3
  <2> QED
    BY <2>1, <2>2
<1>5. Store!StoreLoads
  BY <1>1, <1>2, <1>3, <1>4 DEF Store!StoreLoads, Results, Overlaps
<1> QED
  BY <1>5 DEF StoreStep, Store!StoreNext

LEMMA InitStore ==
  ASSUME Init
  PROVE  Store!StoreInit
<1>1. \A t \in Threads : pc[t] = "idle"
  BY DEF Init
<1>2. StoreCurve = hw
  BY <1>1 DEF StoreCurve
<1>3. StoreCurve \in {Held(method, c) : c \in Loads}
  BY <1>2 DEF Init
<1>4. Results = [t \in Threads |-> NoResult]
  BY <1>1 DEF Results
<1>5. Overlaps = [t \in Threads |-> FALSE]
  BY DEF Init, Overlaps
<1>6. req = [t \in Threads |-> NoRequest]
  BY DEF Init
<1> QED
  BY <1>3, <1>4, <1>5, <1>6 DEF Store!StoreInit, Results, Overlaps

(* The driver implements the abstract curve store: one curve, on which     *)
(* every call takes effect at one instant between its call and its return. *)
THEOREM DriverImplementsStore == Spec => CurveStoreImplemented
<1>1. ASSUME IInv, IInv', [Next]_vars
      PROVE  [Store!StoreNext]_Store!storeVars
  <2>1. TypeOK'
    BY <1>1 DEF IInv
  <2>2. ASSUME NEW t \in Threads, Holder(t)
        PROVE  StoreStep
    BY <1>1, <2>1, <2>2, CheckAllowedStep, EcReadPointStep, EcReadSizeStep, WmiReadStep,
       WmiReadFailedStep, ModifyStep, WriteStep, WriteLockctlStep, WriteDefaultsStep,
       UnlockStep DEF Holder
  <2>3. CASE Next
    <3>1. StoreStep
      BY <1>1, <2>2, <2>3, CallStep, LockStep, FirmwareLoadsStep DEF Next
    <3> QED
      BY <3>1 DEF StoreStep
  <2>4. CASE UNCHANGED vars
    <3>1. UNCHANGED Store!storeVars
      BY <2>4
         DEF vars, driverVars, historyVars, Store!storeVars, StoreCurve, StoreResult,
             FillsCache, NoResult
    <3> QED
      BY <3>1
  <2> QED
    BY <1>1, <2>3, <2>4
<1> QED
  BY <1>1, InitStore, InvariantHolds, PTL
     DEF Spec, CurveStoreImplemented, Store!StoreSpec
==============================================================================
