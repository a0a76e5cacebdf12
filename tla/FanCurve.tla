------------------------------- MODULE FanCurve -------------------------------
(***************************************************************************)
(* The fan-curve store of legion-laptop.c: the sysfs, hwmon and debugfs    *)
(* handlers that read, change and write back the fan curve held by the     *)
(* embedded controller, the driver's cached copy of it, the fan-control    *)
(* lock that the controller keeps, and fancurve_mutex.                     *)
(*                                                                         *)
(* A curve can only be read and written as a whole, so writing one         *)
(* attribute of one point is a read-modify-write of the whole table.  On   *)
(* EC models the table is moved point by point through ecram_read and      *)
(* ecram_write (atomic bytes, see EcRam); on WMI models one ACPI method    *)
(* moves all fan speeds, and may fail.  The firmware loads another curve   *)
(* on its own whenever the power mode changes, whoever holds the mutex.    *)
(*                                                                         *)
(* Of the ten attributes of a point two are kept, one per way they are     *)
(* checked: "pwm" (pwm1: its point must be below the size, and the value   *)
(* is converted) and "temp" (a maximum temperature: no such check).        *)
(***************************************************************************)
EXTENDS Integers, FiniteSetsExt

CONSTANTS Threads,          \* user processes inside a handler
          NoOwner,          \* fancurve_mutex is free
          MAXFANCURVESIZE,  \* points of a table, 10 in the code
          Requests,         \* handler calls a user may make
          Loads,            \* curves the firmware may load
          Methods,          \* kinds of models: see method
          MaxCalls,         \* bound: handler calls in a behaviour
          MaxLoads          \* bound: curves loaded by the firmware

ASSUME ThreadsAssumption == NoOwner \notin Threads
ASSUME SizeAssumption == MAXFANCURVESIZE \in 1..255   \* a size is a byte
ASSUME MethodsAssumption == Methods \subseteq {"EC", "WMI3", "N2CN"}
ASSUME BoundsAssumption == MaxCalls \in Nat /\ MaxLoads \in Nat

VARIABLES
  method,         \* the model: "EC", "WMI3", or "N2CN" (WMI3, speed only, locked)
  hw,             \* the curve in the controller
  lockctl,        \* EC_LOCKFANCONTROLLER: "on", "off" or an unexpected value
  cache,          \* priv->fancurve
  fancurve_valid, \* priv->fancurve_valid
  fancurve_mutex, \* the holder, or NoOwner
  pc, req,        \* per thread: where it is, and its call
  fc, idx,        \* per thread: its local curve, the next point to move
  err,            \* per thread: the result: "ok" or an error
  calls, loads    \* counters for the bounds

(* History: what the properties compare with; no action depends on it.     *)
VARIABLES
  before,         \* hw when the mutex was taken, or a curve loaded since
  disturbed,      \* firmware loaded a curve, or a cached one stood in, since
  fresh,          \* the cache was filled later than hw was changed otherwise
  clobbered       \* a failing debugfs read has overwritten the cache since

driverVars == <<cache, fancurve_valid, fancurve_mutex, pc, req, fc, idx, err>>
historyVars == <<before, disturbed, fresh, clobbered>>
vars == <<method, hw, lockctl, driverVars, calls, loads, historyVars>>

Points == 0 .. MAXFANCURVESIZE - 1
NoRequest == [op |-> "none", point |-> 0, value |-> 0]
ZeroPoint == [pwm |-> 0, temp |-> 0]
ZeroCurve == [points |-> [i \in Points |-> ZeroPoint], size |-> 0]
CurveType == [points : [Points -> [pwm : 0..255, temp : 0..255]], size : 0..255]

ASSUME LoadsAssumption == Loads \subseteq CurveType

(* A file of a point names a point of the table; the number written to it  *)
(* is any number.  The switch of the lock takes a bool.                    *)
ASSUME RequestsAssumption ==
  \A r \in Requests :
    \/ r \in [op : {"pwm", "temp", "size"}, point : Points, value : Int]
    \/ r \in [op : {"show", "debugfs", "defaults"}, point : {0}, value : {0}]
    \/ r \in [op : {"lockctl"}, point : {0}, value : {"on", "off"}]

HasTemps(m) == m = "EC"
IsWMI == ~HasTemps(method)

(* Variant for mutation: a multiplication in the wrong unit.               *)
SpeedTooLarge(m, value) == (value * 10000 + 25499) \div 255

(* fancurve_set_speed_pwm: the conversion to the unit of model m.          *)
Speed(m, value) ==
  CASE m = "EC"   -> (value * 10000 + 25499) \div 25500
    [] m = "WMI3" -> (value * 100) \div 255
    [] m = "N2CN" -> (value * 100 + 127) \div 255

(* The setters: which values they refuse, and what they change.            *)
IsValid(c, r) ==
  CASE r.op = "pwm"  -> r.value \in 0..255 /\ r.point < c.size
    [] r.op = "temp" -> r.value \in 0..127
    [] r.op = "size" -> r.value \in 1..MAXFANCURVESIZE

SetSize(c, size) ==
  LET last == IF c.size > 0 THEN c.size - 1 ELSE 0 IN
  [c EXCEPT !.points =
     [i \in Points |->
        IF size < c.size /\ i = size - 1 THEN [c.points[i] EXCEPT !.temp = 127]
        ELSE IF i >= c.size /\ i < size THEN c.points[last]
        ELSE c.points[i]]]

Modified(c, r) ==
  CASE r.op = "pwm"  -> [c EXCEPT !.points[r.point].pwm = Speed(method, r.value)]
    [] r.op = "temp" -> [c EXCEPT !.points[r.point].temp = r.value]
    [] r.op = "size" -> SetSize(c, r.value)

------------------------------------------------------------------------------
(* A curve as the firmware of model m holds it:    WMI tables have no      *)
(* temperatures, and only the table of N2CN has a length of its own.       *)
Held(m, c) ==
  IF HasTemps(m)
    THEN c
    ELSE [points |-> [i \in Points |-> [pwm |-> c.points[i].pwm, temp |-> 0]],
          size |-> IF m = "N2CN" THEN c.size ELSE MAXFANCURVESIZE]

Init ==
  /\ method \in Methods
  /\ \E c \in Loads : hw = Held(method, c)
  /\ lockctl \in IF method = "N2CN" THEN {"on", "off", "odd"} ELSE {"off"}
  /\ cache = ZeroCurve
  /\ fancurve_valid = FALSE
  /\ fancurve_mutex = NoOwner
  /\ pc = [t \in Threads |-> "idle"]
  /\ req = [t \in Threads |-> NoRequest]
  /\ fc = [t \in Threads |-> ZeroCurve]
  /\ idx = [t \in Threads |-> 0]
  /\ err = [t \in Threads |-> "ok"]
  /\ calls = 0 /\ loads = 0
  /\ before = hw
  /\ disturbed = FALSE /\ fresh = FALSE /\ clobbered = FALSE

IsStore(r) == r.op \in {"pwm", "temp", "size"}

(* Attributes a model does not have are hidden (visibility callbacks) or   *)
(* refused on entry (wmi_fancurve_speed_only).                             *)
IsOffered(r) ==
  /\ method = "N2CN" /\ IsStore(r) => r.op = "pwm"
  /\ r.op = "defaults" => method = "WMI3"
  /\ r.op = "lockctl" => method = "N2CN"

(* A user reads or writes one of the files.                                *)
Call(t, r) ==
  /\ pc[t] = "idle"
  /\ calls < MaxCalls
  /\ IsOffered(r)
  /\ pc' = [pc EXCEPT ![t] = "lock"]
  /\ req' = [req EXCEPT ![t] = r]
  /\ calls' = calls + 1
  /\ UNCHANGED <<method, hw, lockctl, cache, fancurve_valid, fancurve_mutex,
                 fc, idx, err, loads, historyVars>>

(* What each handler does first once it has the mutex.                     *)
FirstStep(r) ==
  CASE r.op = "lockctl"  -> "lockctl"
    [] r.op = "defaults" -> "defaults"
    [] IsStore(r)        -> "check"
    [] OTHER             -> "read"

(* Variant for mutation: the mutex is taken without waiting for it.        *)
LockWithoutWaiting(t) ==
  /\ pc[t] = "lock"
  /\ fancurve_mutex' = t
  /\ pc' = [pc EXCEPT ![t] = FirstStep(req[t])]
  /\ before' = hw
  /\ disturbed' = FALSE
  /\ UNCHANGED <<method, hw, lockctl, cache, fancurve_valid, req, fc, idx, err,
                 calls, loads, fresh, clobbered>>

(* mutex_lock(&priv->fancurve_mutex)                                       *)
Lock(t) ==
  /\ pc[t] = "lock"
  /\ fancurve_mutex = NoOwner
  /\ fancurve_mutex' = t
  /\ pc' = [pc EXCEPT ![t] = FirstStep(req[t])]
  /\ before' = hw
  /\ disturbed' = FALSE
  /\ UNCHANGED <<method, hw, lockctl, cache, fancurve_valid, req, fc, idx, err,
                 calls, loads, fresh, clobbered>>

(* Variant for mutation: an error path that returns with the mutex held.   *)
FailHoldingMutex(t, e) ==
  /\ pc' = [pc EXCEPT ![t] = "idle"]
  /\ err' = err

(* goto error_mutex                                                        *)
Fail(t, e) ==
  /\ pc' = [pc EXCEPT ![t] = "unlock"]
  /\ err' = [err EXCEPT ![t] = e]

(* Variant for mutation: the fan-control lock is not looked at.            *)
CheckNothing(t) ==
  /\ pc[t] = "check"
  /\ pc' = [pc EXCEPT ![t] = "read"]
  /\ UNCHANGED <<method, hw, lockctl, cache, fancurve_valid, fancurve_mutex, req,
                 fc, idx, err, calls, loads, historyVars>>

(* fan_control_write_allowed()                                             *)
CheckAllowed(t) ==
  /\ pc[t] = "check"
  /\ IF method # "N2CN" \/ lockctl = "off"
       THEN pc' = [pc EXCEPT ![t] = "read"] /\ UNCHANGED err
       ELSE Fail(t, IF lockctl = "on" THEN "EBUSY" ELSE "EINVAL")
  /\ UNCHANGED <<method, hw, lockctl, cache, fancurve_valid, fancurve_mutex, req,
                 fc, idx, calls, loads, historyVars>>

------------------------------------------------------------------------------
(* read_fancurve().  The debugfs handler passes the address of the cache   *)
(* itself as the curve to fill; the others pass a curve on their stack.    *)
FillsCache(t) == req[t].op = "debugfs"

AfterRead(t) == IF IsStore(req[t]) THEN "modify" ELSE "unlock"

(* A read that succeeded: the result is also kept as the cached curve.     *)
ReadDone(t, c) ==
  /\ fc' = [fc EXCEPT ![t] = IF FillsCache(t) THEN @ ELSE c]
  /\ cache' = c
  /\ fancurve_valid' = TRUE
  /\ pc' = [pc EXCEPT ![t] = AfterRead(t)]
  /\ fresh' = ~disturbed
  /\ clobbered' = FALSE
  /\ UNCHANGED <<err, disturbed>>

(* ec_read_fancurve_legion: one point after the other.                     *)
EcReadPoint(t) ==
  /\ pc[t] = "read"
  /\ method = "EC"
  /\ idx[t] < MAXFANCURVESIZE
  /\ LET i == idx[t] IN
     IF FillsCache(t)
       THEN cache' = [cache EXCEPT !.points[i] = hw.points[i]] /\ UNCHANGED fc
       ELSE fc' = [fc EXCEPT ![t].points[i] = hw.points[i]] /\ UNCHANGED cache
  /\ idx' = [idx EXCEPT ![t] = @ + 1]
  /\ UNCHANGED <<method, hw, lockctl, fancurve_valid, fancurve_mutex, pc, req,
                 err, calls, loads, historyVars>>

(* Variant for mutation: the loop counter is not reset for the writing.    *)
EcReadSizeKeepsCounter(t) ==
  /\ pc[t] = "read"
  /\ method = "EC"
  /\ idx[t] = MAXFANCURVESIZE
  /\ LET target == IF FillsCache(t) THEN cache ELSE fc[t]
     IN  ReadDone(t, [target EXCEPT !.size = Min({hw.size, MAXFANCURVESIZE})])
  /\ UNCHANGED <<method, hw, lockctl, fancurve_mutex, req, idx, calls, loads,
                 before>>

(* ... and the size, which the hardware is not trusted with.               *)
EcReadSize(t) ==
  /\ pc[t] = "read"
  /\ method = "EC"
  /\ idx[t] = MAXFANCURVESIZE
  /\ LET target == IF FillsCache(t) THEN cache ELSE fc[t]
     IN  ReadDone(t, [target EXCEPT !.size = Min({hw.size, MAXFANCURVESIZE})])
  /\ idx' = [idx EXCEPT ![t] = 0]
  /\ UNCHANGED <<method, hw, lockctl, fancurve_mutex, req, calls, loads, before>>

(* wmi_read_fancurve_custom: the first n speeds of the firmware's table.   *)
WmiTable(n) ==
  LET size == Min({hw.size, MAXFANCURVESIZE}) IN
  [points |-> [i \in Points |->
                 IF i < size /\ i < n THEN [pwm |-> hw.points[i].pwm, temp |-> 0]
                                      ELSE ZeroPoint],
   size |-> size]

WmiRead(t) ==
  /\ pc[t] = "read"
  /\ IsWMI
  /\ ReadDone(t, WmiTable(MAXFANCURVESIZE))
  /\ UNCHANGED <<method, hw, lockctl, fancurve_mutex, req, idx, calls, loads, before>>

(* A read that failed: a valid cached curve stands in for it.              *)
ReadFailed(t, cached) ==
  IF fancurve_valid
    THEN /\ fc' = [fc EXCEPT ![t] = IF FillsCache(t) THEN @ ELSE cached]
         /\ pc' = [pc EXCEPT ![t] = AfterRead(t)]
         /\ disturbed' = TRUE
         /\ UNCHANGED err
    ELSE Fail(t, "EOPNOTSUPP") /\ UNCHANGED <<fc, disturbed>>

(* The ACPI method fails, or an N2CN reports an empty table.               *)
WmiReadFails(t) ==
  /\ pc[t] = "read"
  /\ IsWMI
  /\ ReadFailed(t, cache)
  /\ UNCHANGED <<method, hw, lockctl, cache, fancurve_valid, fancurve_mutex, req,
                 idx, calls, loads, before, fresh, clobbered>>

(* The firmware reports a speed above U8_MAX at point n: the curve to fill *)
(* has been cleared and filled up to there when the read gives up.         *)
WmiReadOutOfRange(t) ==
  /\ pc[t] = "read"
  /\ IsWMI
  /\ \E n \in 0 .. Min({hw.size, MAXFANCURVESIZE}) - 1 :
       IF FillsCache(t)
         THEN cache' = WmiTable(n) /\ clobbered' = TRUE /\ ReadFailed(t, WmiTable(n))
         ELSE UNCHANGED <<cache, clobbered>> /\ ReadFailed(t, cache)
  /\ UNCHANGED <<method, hw, lockctl, fancurve_valid, fancurve_mutex, req, idx,
                 calls, loads, before, fresh>>

------------------------------------------------------------------------------
(* The setter of autopoint_store.                                          *)
Modify(t) ==
  /\ pc[t] = "modify"
  /\ IF IsValid(fc[t], req[t])
       THEN /\ fc' = [fc EXCEPT ![t] = Modified(@, req[t])]
            /\ pc' = [pc EXCEPT ![t] = "write"]
            /\ UNCHANGED err
       ELSE Fail(t, "EOPNOTSUPP") /\ UNCHANGED fc
  /\ UNCHANGED <<method, hw, lockctl, cache, fancurve_valid, fancurve_mutex, req,
                 idx, calls, loads, historyVars>>

(* Variant for mutation: the curve that was written is not remembered.     *)
WriteDoneUncached(t) ==
  /\ fancurve_valid' = TRUE
  /\ pc' = [pc EXCEPT ![t] = "unlock"]
  /\ fresh' = ~disturbed
  /\ clobbered' = FALSE
  /\ UNCHANGED cache

(* write_fancurve() succeeded.                                             *)
WriteDone(t) ==
  /\ cache' = fc[t]
  /\ fancurve_valid' = TRUE
  /\ pc' = [pc EXCEPT ![t] = "unlock"]
  /\ fresh' = ~disturbed
  /\ clobbered' = FALSE

(* ec_write_fancurve_legion: one point after the other; points beyond the  *)
(* size are cleared.                                                       *)
EcWritePoint(t) ==
  /\ pc[t] = "write"
  /\ method = "EC"
  /\ idx[t] < MAXFANCURVESIZE
  /\ LET i == idx[t]
         p == IF i < fc[t].size THEN fc[t].points[i] ELSE ZeroPoint
     IN  hw' = [hw EXCEPT !.points[i] = p]
  /\ idx' = [idx EXCEPT ![t] = @ + 1]
  /\ UNCHANGED <<method, lockctl, cache, fancurve_valid, fancurve_mutex, pc, req,
                 fc, err, calls, loads, historyVars>>

(* ... and, for auto_points_size only, the size register.                  *)
EcWriteSize(t) ==
  /\ pc[t] = "write"
  /\ method = "EC"
  /\ idx[t] = MAXFANCURVESIZE
  /\ hw' = IF req[t].op = "size" THEN [hw EXCEPT !.size = fc[t].size] ELSE hw
  /\ idx' = [idx EXCEPT ![t] = 0]
  /\ WriteDone(t)
  /\ UNCHANGED <<method, lockctl, fancurve_mutex, req, fc, err, calls, loads,
                 before, disturbed>>

(* The table the firmware holds after WMI_METHOD_ID_FAN_SET_TABLE.         *)
Written(c) ==
  [hw EXCEPT !.points = [i \in Points |-> [pwm |-> c.points[i].pwm, temp |-> 0]]]

(* wmi_write_fancurve_custom: the ACPI method takes the table.             *)
WmiWrite(t) ==
  /\ pc[t] = "write"
  /\ IsWMI
  /\ hw' = Written(fc[t])
  /\ IF method = "N2CN"
       THEN /\ pc' = [pc EXCEPT ![t] = "verify"]
            /\ UNCHANGED <<cache, fancurve_valid, clobbered>>
            /\ fresh' = FALSE
       ELSE WriteDone(t)
  /\ UNCHANGED <<method, lockctl, fancurve_mutex, req, fc, idx, err, calls, loads,
                 before, disturbed>>

(* The ACPI method reports an error, with or without having taken it.      *)
WmiWriteFails(t) ==
  /\ pc[t] = "write"
  /\ IsWMI
  /\ hw' \in {hw, Written(fc[t])}
  /\ Fail(t, "EOPNOTSUPP")
  /\ fresh' = FALSE
  /\ UNCHANGED <<method, lockctl, cache, fancurve_valid, fancurve_mutex, req, fc,
                 idx, calls, loads, before, disturbed, clobbered>>

(* The firmware of N2CN may drop a table and report success nonetheless.   *)
WmiWriteDropped(t) ==
  /\ pc[t] = "write"
  /\ method = "N2CN"
  /\ pc' = [pc EXCEPT ![t] = "verify"]
  /\ UNCHANGED <<method, hw, lockctl, cache, fancurve_valid, fancurve_mutex, req,
                 fc, idx, err, calls, loads, historyVars>>

(* N2CN reads the table back and compares the speeds of all points; the    *)
(* reading may fail as well.                                               *)
Verify(t) ==
  /\ pc[t] = "verify"
  /\ \/ /\ \A i \in Points :
             WmiTable(MAXFANCURVESIZE).points[i].pwm = fc[t].points[i].pwm
        /\ WriteDone(t)
        /\ UNCHANGED err
     \/ /\ Fail(t, "EOPNOTSUPP")
        /\ UNCHANGED <<cache, fancurve_valid, fresh, clobbered>>
  /\ UNCHANGED <<method, hw, lockctl, fancurve_mutex, req, fc, idx, calls, loads,
                 before, disturbed>>

------------------------------------------------------------------------------
(* lockfancontroller_store                                                 *)
WriteLockctl(t) ==
  /\ pc[t] = "lockctl"
  /\ lockctl' = req[t].value
  /\ pc' = [pc EXCEPT ![t] = "unlock"]
  /\ UNCHANGED <<method, hw, cache, fancurve_valid, fancurve_mutex, req, fc, idx,
                 err, calls, loads, historyVars>>

(* fancurve_defaults_powermode_store: the firmware loads the default curve *)
(* of a power mode, or refuses.  The cached curve is left as it is.        *)
WriteDefaults(t) ==
  /\ pc[t] = "defaults"
  /\ \/ /\ \E c \in Loads : hw' = Held(method, c)
        /\ pc' = [pc EXCEPT ![t] = "unlock"]
        /\ disturbed' = TRUE
        /\ fresh' = FALSE
        /\ UNCHANGED err
     \/ /\ Fail(t, "EPERM")
        /\ UNCHANGED <<hw, disturbed, fresh>>
  /\ UNCHANGED <<method, lockctl, cache, fancurve_valid, fancurve_mutex, req, fc,
                 idx, calls, loads, before, clobbered>>

(* mutex_unlock(&priv->fancurve_mutex), and the handler returns.           *)
Unlock(t) ==
  /\ pc[t] = "unlock"
  /\ fancurve_mutex' = NoOwner
  /\ pc' = [pc EXCEPT ![t] = "idle"]
  /\ fc' = [fc EXCEPT ![t] = ZeroCurve]
  /\ err' = [err EXCEPT ![t] = "ok"]
  /\ req' = [req EXCEPT ![t] = NoRequest]
  /\ before' = hw
  /\ disturbed' = FALSE
  /\ UNCHANGED <<method, hw, lockctl, cache, fancurve_valid, idx, calls, loads,
                 fresh, clobbered>>

(* The power mode changes (Fn+Q, platform profile, power supply) and the   *)
(* firmware loads the curve of the new mode.                               *)
FirmwareLoads(c) ==
  /\ loads < MaxLoads
  /\ hw' = Held(method, c)
  /\ loads' = loads + 1
  /\ disturbed' = (fancurve_mutex # NoOwner)
  /\ before' = hw'
  /\ fresh' = FALSE
  /\ UNCHANGED <<method, lockctl, driverVars, calls, clobbered>>

Holder(t) ==
  \/ CheckAllowed(t)
  \/ EcReadPoint(t) \/ EcReadSize(t)
  \/ WmiRead(t) \/ WmiReadFails(t) \/ WmiReadOutOfRange(t)
  \/ Modify(t)
  \/ EcWritePoint(t) \/ EcWriteSize(t)
  \/ WmiWrite(t) \/ WmiWriteFails(t) \/ WmiWriteDropped(t) \/ Verify(t)
  \/ WriteLockctl(t) \/ WriteDefaults(t)
  \/ Unlock(t)

Next ==
  \/ \E t \in Threads : (\E r \in Requests : Call(t, r)) \/ Lock(t) \/ Holder(t)
  \/ \E c \in Loads : FirmwareLoads(c)

Spec == Init /\ [][Next]_vars

(* A handler that has started keeps running, and a kernel mutex serves its *)
(* waiters in turn.  Users need not call, the firmware need not load.      *)
FairSpec == Spec /\ \A t \in Threads : WF_vars(Holder(t)) /\ SF_vars(Lock(t))

------------------------------------------------------------------------------
TypeOK ==
  /\ method \in Methods
  /\ hw \in CurveType
  /\ lockctl \in {"on", "off", "odd"}
  /\ cache \in CurveType
  /\ fancurve_valid \in BOOLEAN
  /\ fancurve_mutex \in Threads \cup {NoOwner}
  /\ pc \in [Threads -> {"idle", "lock", "check", "read", "modify", "write",
                         "verify", "lockctl", "defaults", "unlock"}]
  /\ req \in [Threads -> Requests \cup {NoRequest}]
  /\ fc \in [Threads -> CurveType]
  /\ idx \in [Threads -> 0..MAXFANCURVESIZE]
  /\ err \in [Threads -> {"ok", "EBUSY", "EINVAL", "EOPNOTSUPP", "EPERM"}]
  /\ calls \in 0..MaxCalls /\ loads \in 0..MaxLoads
  /\ before \in CurveType
  /\ disturbed \in BOOLEAN /\ fresh \in BOOLEAN /\ clobbered \in BOOLEAN

InUse(c) == {i \in Points : i < c.size}
Attributes == {"pwm", "temp"}

(* Two curves have the same points, as far as this model's tables go.      *)
SamePoints(m, c, d) ==
  \A i \in InUse(c), a \in IF HasTemps(m) THEN Attributes ELSE {"pwm"} :
    c.points[i][a] = d.points[i][a]

(* The attributes a store may change: its own one, or, when the size is    *)
(* reduced, the temperature limit of the new last point.                   *)
Touched(r) ==
  CASE r.op \in Attributes -> {<<r.point, r.op>>}
    [] r.op = "size"       -> {<<r.value - 1, "temp">>}

(* What a store that reported success promises: the new attribute is in    *)
(* the hardware; a reduced size is made effective by a limit of 127 at the *)
(* new last point (README.md:767); EC points beyond the size are cleared.  *)
TookEffect(m, old, new, r) ==
  /\ r.op = "pwm" => new.points[r.point].pwm = Speed(m, r.value)
  /\ r.op = "temp" /\ HasTemps(m) /\ r.point \in InUse(new)
       => new.points[r.point].temp = r.value
  /\ r.op = "size" /\ HasTemps(m) /\ r.value < Min({old.size, MAXFANCURVESIZE})
       => new.points[r.value - 1].temp = 127
  /\ HasTemps(m) => \A i \in Points \ InUse(new) : new.points[i] = ZeroPoint

(* On model m, a store of r with result e may turn the old curve into the  *)
(* new one: it changes what it names and nothing else.                     *)
StoredExactly(m, old, new, r, e) ==
  /\ \A i \in InUse(old), a \in Attributes :
       <<i, a>> \notin Touched(r) => new.points[i][a] = old.points[i][a]
  /\ new.size \in {old.size, Min({old.size, MAXFANCURVESIZE})}
  /\ e = "ok" => TookEffect(m, old, new, r)

(* One store through sysfs changes exactly what it names, although the     *)
(* whole table is read, changed and written back and other handlers run    *)
(* at the same time: no store undoes another one, and one that reports an  *)
(* error changes nothing else.  (A curve the firmware loads meanwhile, and *)
(* a cached curve used because the hardware could not be read, are the     *)
(* exceptions: there the table written back is an older one.)              *)
StoreIsExact ==
  \A t \in Threads :
    pc[t] = "unlock" /\ IsStore(req[t]) /\ ~disturbed
      => StoredExactly(method, before, hw, req[t], err[t])

(* Between handlers, the curve kept in priv->fancurve is the one in the    *)
(* hardware, unless the hardware was changed by other means since, or a    *)
(* debugfs read, which fills priv->fancurve itself, gave up halfway.       *)
CacheAgrees ==
  fancurve_mutex = NoOwner /\ fancurve_valid /\ fresh /\ ~clobbered
    => SamePoints(method, [cache EXCEPT !.size = Min({@, hw.size})], hw)

(* A model that keeps a fan-control lock never has its curve written while *)
(* the lock is on: the check of the lock and the write are one critical    *)
(* section, and the lock is only switched inside another one.              *)
LockRespected ==
  [][method = "N2CN" /\ hw' # hw => lockctl = "off" \/ loads' # loads]_vars

(* Every handler returns, on every error path, so the mutex is released.   *)
EveryHandlerReturns == \A t \in Threads : (pc[t] # "idle") ~> (pc[t] = "idle")

------------------------------------------------------------------------------
(* The abstract curve store.  A half-written table does not count yet: the *)
(* store takes effect with its last register, or when it was verified.     *)
StoreCurve == IF \E t \in Threads : pc[t] \in {"write", "verify"} THEN before ELSE hw

NoResult == [err |-> "pending", curve |-> ZeroCurve]

StoreResult(t) ==
  [err |-> err[t], curve |-> IF FillsCache(t) THEN cache ELSE fc[t]]

Store ==
  INSTANCE CurveStore WITH
    NoCall     <- NoRequest,
    Pending    <- NoResult,
    kind       <- method,
    Loads      <- LAMBDA m : {Held(m, c) : c \in Loads},
    IsShow     <- LAMBDA r : r.op \in {"show", "debugfs"},
    Stored     <- StoredExactly,
    Seen       <- SamePoints,
    curve      <- StoreCurve,
    call       <- req,
    ret        <- [t \in Threads |-> IF pc[t] = "unlock" THEN StoreResult(t)
                                                        ELSE NoResult],
    overlapped <- [t \in Threads |-> disturbed /\ fancurve_mutex = t]

(* The driver is such a store: whatever the handlers do with whole tables, *)
(* registers and the cache, and in whatever order they run, every call     *)
(* takes effect at one instant between its call and its return.  A store   *)
(* that succeeded has been applied, what a show returns was the curve then,*)
(* a curve changes for no other reason.                                    *)
CurveStoreImplemented == Store!StoreSpec
==============================================================================
