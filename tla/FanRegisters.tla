----------------------------- MODULE FanRegisters -----------------------------
(***************************************************************************)
(* Where the fan curve lives.  legion-laptop.c knows five layouts of the   *)
(* table, each with a reader and a writer of its own: which attributes of  *)
(* a point the firmware keeps, at which addresses, with how many copies,   *)
(* and whether a table takes effect at once or when the firmware gets to   *)
(* executing it.  Beside the table are the registers of three controls     *)
(* (minifancurve, lockfancontroller, fan_fullspeed) whose files are        *)
(* written while the table is in use.                                      *)
(*                                                                         *)
(* A store is two steps here, what it reads and changes (Begin) and what   *)
(* it writes (Finish), since fancurve_mutex keeps other stores away and    *)
(* only the firmware comes between.  FanCurve has the steps of a single    *)
(* table, its failures and the cached copy.                                *)
(***************************************************************************)
EXTENDS ModelConfig, FiniteSets, FiniteSetsExt

CONSTANTS Machines,         \* names of models whose fan curve is accessible
          Curves            \* tables the firmware may hold: points and size

ASSUME MachinesAssumption ==
  /\ Machines \subseteq DOMAIN model
  /\ \A n \in Machines : model[n].fancurve # "NO_ACCESS"

MAXFANCURVESIZE == 10
FANCURVESIZE_IDEAPAD == 8
Points == 0 .. MAXFANCURVESIZE - 1

Speeds == {"pwm1", "pwm2"}
MaxTemps == {"cpu_max", "gpu_max", "ic_max"}
Temps == MaxTemps \cup {"cpu_min", "gpu_min", "ic_min"}
Ramps == {"accel", "decel"}
PointFiles == Speeds \cup Temps \cup Ramps

Controls == {"minifancurve", "lockfancontroller", "fan_fullspeed"}

ASSUME CurvesAssumption ==
  Curves \subseteq [size : 0..255, points : [Points -> [PointFiles -> 0..255]]]

------------------------------------------------------------------------------
(* Layouts.  Addresses of the EC RAM are the real ones; what is reached by *)
(* a WMI method is given addresses beyond it.                              *)
WmiTable == \h10000
WmiTableLength == WmiTable + MAXFANCURVESIZE
WmiFullSpeed == WmiTableLength + 1
LOQ_CMDR_ADDR == \hCFB6
EC4_FANFULLSPEED_REG == \hCFB6
EC4_FAN1_BASE == \hC50A
EC4_FAN2_BASE == \hC531

BaseRegister ==
  [pwm1 |-> "FAN1", pwm2 |-> "FAN2", accel |-> "ACC", decel |-> "DEC",
   cpu_max |-> "CPU_TEMP", cpu_min |-> "CPU_TEMP_HYST",
   gpu_max |-> "GPU_TEMP", gpu_min |-> "GPU_TEMP_HYST",
   ic_max |-> "VRM_TEMP", ic_min |-> "VRM_TEMP_HYST"]

Base(c, a) == c.registers[BaseRegister[a]]

(* The addresses to which the writer of each layout stores attribute a of  *)
(* point i: none if the firmware does not keep it.                         *)
WrittenEc(c, a, i) == {Base(c, a) + i}

WrittenIdeapad(c, a, i) ==
  IF i >= FANCURVESIZE_IDEAPAD \/ a \in Ramps \cup {"ic_max", "ic_min"} THEN {}
  ELSE IF a \in Speeds THEN {Base(c, a) + i}
  ELSE {Base(c, a) + i, Base(c, a) + 8 + i}

WrittenLoq(c, a, i) == IF a \in Ramps THEN {} ELSE {Base(c, a) + 6 * i}

(* Variant for mutation: the speeds of both fans go to the first one.      *)
WrittenLegion2024Fan1(c, a, i) ==
  CASE a = "cpu_max" -> {EC4_FAN1_BASE + 3 * i, EC4_FAN2_BASE + 3 * i}
    [] a = "gpu_max" -> {EC4_FAN1_BASE + 3 * i + 1, EC4_FAN2_BASE + 3 * i + 1}
    [] a \in Speeds -> {EC4_FAN1_BASE + 3 * i + 2}
    [] OTHER -> {}

WrittenLegion2024(c, a, i) ==
  CASE a = "cpu_max" -> {EC4_FAN1_BASE + 3 * i, EC4_FAN2_BASE + 3 * i}
    [] a = "gpu_max" -> {EC4_FAN1_BASE + 3 * i + 1, EC4_FAN2_BASE + 3 * i + 1}
    [] a = "pwm1" -> {EC4_FAN1_BASE + 3 * i + 2}
    [] a = "pwm2" -> {EC4_FAN2_BASE + 3 * i + 2}
    [] OTHER -> {}

WrittenWmi(c, a, i) == IF a = "pwm1" THEN {WmiTable + i} ELSE {}

WrittenTo(c, a, i) ==
  CASE c.fancurve = "EC"   -> WrittenEc(c, a, i)
    [] c.fancurve = "EC2"  -> WrittenIdeapad(c, a, i)
    [] c.fancurve = "EC3"  -> WrittenLoq(c, a, i)
    [] c.fancurve = "EC4"  -> WrittenLegion2024(c, a, i)
    [] c.fancurve = "WMI3" -> WrittenWmi(c, a, i)

(* LOQ machines: the table in use, which the reader looks at, is not the   *)
(* one that the writer fills; the temperatures of the third sensor have    *)
(* one place only.                                                         *)
ReadLoq(c, a, i) ==
  CASE a = "pwm1"    -> c.registers.FAN1_RPM_LSB + 3 * i
    [] a = "cpu_max" -> c.registers.FAN1_RPM_LSB + 3 * i - 1
    [] a = "cpu_min" -> c.registers.FAN1_RPM_LSB + 3 * i - 2
    [] a = "pwm2"    -> c.registers.FAN2_RPM_LSB + 3 * i
    [] a = "gpu_max" -> c.registers.FAN2_RPM_LSB + 3 * i - 1
    [] a = "gpu_min" -> c.registers.FAN2_RPM_LSB + 3 * i - 2
    [] OTHER         -> Base(c, a) + 6 * i

(* Of two copies the readers use the one at the lower address.             *)
ReadAt(c, a, i) ==
  IF c.fancurve = "EC3" THEN ReadLoq(c, a, i) ELSE Min(WrittenTo(c, a, i))

(* [x \in S |-> Op(x)], in the form of which TLC keeps the values.          *)
Table(S, Op(_)) == [x \in S |-> Op(x)]

(* Where attribute a of point i is read, where its first copy is written,  *)
(* and whose value an address holds.                                       *)
NotKept == 0
IsKept(n, a, i) == WrittenTo(model[n], a, i) # {}

ReadCell ==
  Table(Machines, LAMBDA n :
    Table(Points, LAMBDA i : Table(PointFiles, LAMBDA a :
      IF IsKept(n, a, i) THEN ReadAt(model[n], a, i) ELSE NotKept)))

WriteCell ==
  Table(Machines, LAMBDA n :
    Table(Points, LAMBDA i : Table(PointFiles, LAMBDA a :
      IF IsKept(n, a, i) THEN Min(WrittenTo(model[n], a, i)) ELSE NotKept)))

WrittenBy ==
  Table(Machines, LAMBDA n :
    LET kept == {p \in PointFiles \X Points : IsKept(n, p[1], p[2])} IN
    Table(UNION {WrittenTo(model[n], p[1], p[2]) : p \in kept},
          LAMBDA x : CHOOSE p \in kept : x \in WrittenTo(model[n], p[1], p[2])))

ReadBy ==
  Table(Machines, LAMBDA n :
    LET kept == {p \in PointFiles \X Points : IsKept(n, p[1], p[2])} IN
    Table({ReadCell[n][p[2]][p[1]] : p \in kept},
          LAMBDA x : CHOOSE p \in kept : x = ReadCell[n][p[2]][p[1]]))

------------------------------------------------------------------------------
(* Registers of the controls, and how their values are encoded.            *)
ControlRegister(c, f) ==
  CASE f = "minifancurve" -> c.registers.MINIFANCURVE
    [] f = "lockfancontroller" -> c.registers.LOCKFANCONTROLLER
    [] f = "fan_fullspeed" ->
         CASE c.fanfullspeed = "EC"  -> c.registers.MAXIMUMFANSPEED
           [] c.fanfullspeed = "EC4" -> EC4_FANFULLSPEED_REG
           [] OTHER -> WmiFullSpeed

Bit(byte, weight) == (byte \div weight) % 2

(* Variant for mutation: the bit is written without the rest of the byte.  *)
WithBitAlone(byte, weight, b) == b * weight

WithBit(byte, weight, b) == byte + (b - Bit(byte, weight)) * weight

(* What is written to the register, whose old content is byte.             *)
Encoded(c, f, byte, on) ==
  CASE f = "minifancurve" -> IF on = 1 THEN \h04 ELSE \hA0
    [] f = "lockfancontroller" -> IF on = 1 THEN 8 ELSE 0
    [] f = "fan_fullspeed" ->
         CASE c.fanfullspeed = "EC"  -> IF on = 1 THEN \h40 ELSE 0
           [] c.fanfullspeed = "EC4" -> WithBit(byte, 1, on)
           [] OTHER -> on

(* What the file then shows: -1 when the reader refuses the content.       *)
Decoded(c, f, byte) ==
  LET Of(on, off) == CASE byte = on -> 1 [] byte = off -> 0 [] OTHER -> -1 IN
  CASE f = "minifancurve" -> Of(\h04, \hA0)
    [] f = "lockfancontroller" -> Of(8, 0)
    [] f = "fan_fullspeed" ->
         CASE c.fanfullspeed = "EC"  -> Of(\h40, 0)
           [] c.fanfullspeed = "EC4" -> Bit(byte, 1)
           [] OTHER -> IF byte # 0 THEN 1 ELSE 0

(* Registers a writer resets, so that the firmware looks at the new table. *)
Counters(c) ==
  CASE c.fancurve = "EC" ->
         {\hC5FE, \hC5FF, \hC634, \hC635, \hC636, c.registers.CUR_POINT}
    [] c.fancurve = "EC2" -> {\hC5FE, \hC5FF}
    [] OTHER -> {}

(* The size of the table is a register of the EC layout only.              *)
SizeRegister(n) ==
  IF model[n].fancurve = "EC" THEN model[n].registers.POINTS_SIZE
                              ELSE WmiTableLength

(* The files of machine n.                                                 *)
IsSpeedOnly(n) == "wmi_fancurve_speed_only" \in model[n].flags
IsLocking(n) == "require_unlocked_fan_controller" \in model[n].flags
HasFile(n, f) ==
  CASE f = "minifancurve" ->
         "has_minifancurve" \in model[n].flags /\ ~IsSpeedOnly(n)
    [] f = "fan_fullspeed" -> model[n].fanfullspeed # "NO_ACCESS"
    [] f \in PointFiles \cup {"size"} -> f = "pwm1" \/ ~IsSpeedOnly(n)
    [] OTHER -> TRUE

(* Control registers that were "not found yet" have one address, which on  *)
(* ideapad machines is a cell of the table: such a control is no control.  *)
IsShared(n, f) ==
  \/ ControlRegister(model[n], f) \in DOMAIN WrittenBy[n]
  \/ \E g \in Controls \ {f} :
       ControlRegister(model[n], f) = ControlRegister(model[n], g)
OwnControls ==
  [n \in Machines |-> {f \in Controls : HasFile(n, f) /\ ~IsShared(n, f)}]

Addresses ==
  [n \in Machines |->
     DOMAIN WrittenBy[n] \cup DOMAIN ReadBy[n] \cup Counters(model[n])
       \cup {ControlRegister(model[n], f) : f \in Controls}
       \cup {SizeRegister(n), WmiTableLength, LOQ_CMDR_ADDR}]

------------------------------------------------------------------------------
VARIABLES
  machine,   \* the name of the model
  ram,       \* what the firmware holds: a byte per address
  store,     \* the store in progress, holding fancurve_mutex, or NoStore
  fancurve   \* its local curve: points and size

(* History: what the properties compare with; no action depends on it.     *)
VARIABLES
  meant,     \* what the files are to show after the stores that succeeded
  intended,  \* the same for the store in progress
  lost       \* cells known to differ from it: see Disturbs

historyVars == <<meant, intended, lost>>
registerVars == <<machine, ram, store, fancurve, historyVars>>

conf == model[machine]
NoStore == [file |-> "none", point |-> 0, value |-> 0, by |-> "nobody"]
NoCurve == [points |-> << >>, size |-> 0]
AtRest == store = NoStore

(* The units of speeds and the conversions from and to the pwm value of    *)
(* the files.                                                              *)
Unit(n) == CASE model[n].fancurve # "WMI3" -> "RPM_HUNDRED"
             [] n = "n2cn" -> "PERCENT_NEAREST"
             [] OTHER -> "PERCENT"

(* Variant for mutation: the product is rounded down, in every unit.       *)
ToUnitDown(n, pwm) == (pwm * 100) \div 255

ToUnit(n, pwm) ==
  CASE Unit(n) = "RPM_HUNDRED" -> (pwm * 10000 + 25499) \div 25500
    [] Unit(n) = "PERCENT" -> (pwm * 100) \div 255
    [] Unit(n) = "PERCENT_NEAREST" -> Min({(pwm * 100 + 127) \div 255, 100})

FromUnit(n, speed) ==
  IF Unit(n) = "RPM_HUNDRED" THEN (speed * 255 * 100) \div 10000
                             ELSE (speed * 255) \div 100

(* LOQ machines: the table waits for the firmware to execute it.           *)
IsPending(n, m) == model[n].fancurve = "EC3" /\ Bit(m[LOQ_CMDR_ADDR], 16) = 1

------------------------------------------------------------------------------
(* The readers.  Two points of the curve are never set on ideapad models   *)
(* and hold what was on the stack.                                         *)
CurveSize(n, m) ==
  CASE model[n].fancurve = "EC" ->
         Min({m[model[n].registers.POINTS_SIZE], MAXFANCURVESIZE})
    [] model[n].fancurve = "EC2" -> FANCURVESIZE_IDEAPAD
    [] n = "n2cn" -> Min({m[WmiTableLength], MAXFANCURVESIZE})
    [] OTHER -> MAXFANCURVESIZE

Content(m, x) == IF x = NotKept THEN 0 ELSE m[x]

IsUnset(n, i) == model[n].fancurve = "EC2" /\ i >= FANCURVESIZE_IDEAPAD

ReadCurve(n, m, junk) ==
  LET length == CurveSize(n, m) IN
  [size |-> length,
   points |-> [i \in Points |->
     IF IsUnset(n, i) THEN [a \in PointFiles |-> junk]
     ELSE IF n = "n2cn" /\ i >= length THEN [a \in PointFiles |-> 0]
     ELSE [a \in PointFiles |-> Content(m, ReadCell[n][i][a])]]]

(* Variant for mutation: only the first copy is written.                   *)
WriteCurveOnce(n, m, fc, writeSize) ==
  LET cells == WrittenBy[n] IN
  [x \in DOMAIN m |->
     IF x \in DOMAIN cells
          /\ x = WriteCell[n][cells[x][2]][cells[x][1]]
       THEN fc.points[cells[x][2]][cells[x][1]] ELSE m[x]]

(* The writers.  The EC layout clears the points beyond the size, and only *)
(* a store of the size writes it.                                          *)
WriteCurve(n, m, fc, writeSize) ==
  LET method == model[n].fancurve
      counters == Counters(model[n])
      cells == WrittenBy[n]
      Cell(p) == IF method = "EC" /\ p[2] >= fc.size
                   THEN 0 ELSE fc.points[p[2]][p[1]]
  IN [x \in DOMAIN m |->
        CASE x \in DOMAIN cells -> Cell(cells[x])
          [] x \in counters -> 0
          [] method = "EC" /\ writeSize /\ x = SizeRegister(n) -> fc.size
          [] method = "EC3" /\ x = LOQ_CMDR_ADDR -> WithBit(m[x], 16, 1)
          [] OTHER -> m[x]]

------------------------------------------------------------------------------
(* The setters: the values they refuse, and what they change.              *)
IsValid(size, r) ==
  CASE r.file \in Speeds -> r.value \in 0..255 /\ r.point < size
    [] r.file \in Temps  -> r.value \in 0..127
    [] r.file \in Ramps  -> r.value \in 2..5
    [] r.file = "size"   -> r.value \in 1..MAXFANCURVESIZE
    [] OTHER             -> TRUE

NewValue(n, r) == IF r.file \in Speeds THEN ToUnit(n, r.value) ELSE r.value

SetSize(fc, size) ==
  LET last == Max({fc.size - 1, 0}) IN
  [fc EXCEPT !.points =
     [i \in Points |->
        IF size < fc.size /\ i = size - 1
          THEN [a \in PointFiles |->
                  IF a \in MaxTemps THEN 127 ELSE fc.points[i][a]]
        ELSE IF i >= fc.size /\ i < size THEN fc.points[last]
        ELSE fc.points[i]]]

Changed(n, fc, r) ==
  IF r.file = "size" THEN SetSize(fc, r.value)
                     ELSE [fc EXCEPT !.points[r.point][r.file] = NewValue(n, r)]

(* fan_control_write_allowed: asked for by the stores of the curve and of  *)
(* fan_fullspeed.                                                          *)
IsAllowed(r) ==
  \/ ~IsLocking(machine)
  \/ r.file \in {"minifancurve", "lockfancontroller"}
  \/ Decoded(conf, "lockfancontroller",
             ram[conf.registers.LOCKFANCONTROLLER]) = 0

------------------------------------------------------------------------------
(* What the files show: the cells that are kept and the controls that have *)
(* a register of their own.  A table not yet executed counts as shown.     *)
ShownPoints(n, m) ==
  LET cell == IF IsPending(n, m) THEN WriteCell[n] ELSE ReadCell[n] IN
  [i \in Points |-> [a \in PointFiles |-> Content(m, cell[i][a])]]

ShownControl(n, m, f) ==
  Decoded(model[n], f, m[ControlRegister(model[n], f)])

Shown(n, m) ==
  [points |-> ShownPoints(n, m),
   controls |-> [f \in OwnControls[n] |-> ShownControl(n, m, f)]]

(* What a store is to change of the points, and nothing else; an EC table  *)
(* is empty beyond its size.                                               *)
Intended(n, old, size, r) ==
  LET cleared == IF model[n].fancurve = "EC" THEN size ELSE MAXFANCURVESIZE IN
  [i \in Points |-> [a \in PointFiles |->
     IF ReadCell[n][i][a] = NotKept \/ i >= cleared THEN 0
     ELSE IF r.file = a /\ r.point = i THEN NewValue(n, r)
     ELSE IF /\ r.file = "size" /\ a \in MaxTemps
             /\ r.value < size /\ i = r.value - 1 THEN 127
     ELSE old[i][a]]]

(* Cells that a store spoils: the one a shared control is written to; and  *)
(* on LOQ machines, whose writer is given back the table in use, those     *)
(* that an earlier store has changed in a table not yet executed.          *)
Disturbs(r) ==
  IF r.file \in Controls
    THEN LET x == ControlRegister(conf, r.file) IN
         {WrittenBy[machine][y] : y \in {x} \cap DOMAIN WrittenBy[machine]}
    ELSE IF IsPending(machine, ram)
           THEN {p \in PointFiles \X Points :
                   Content(ram, ReadCell[machine][p[2]][p[1]])
                     # Content(ram, WriteCell[machine][p[2]][p[1]])}
           ELSE {}

(* A table as the firmware of machine n may hold it: all copies agree, and *)
(* where it has a size it is empty beyond it.                              *)
HasSize(n) == model[n].fancurve = "EC" \/ n = "n2cn"

Loaded(n, m, curve) ==
  LET cells == IF model[n].fancurve = "EC3" THEN ReadBy[n] ELSE WrittenBy[n]
      used == IF HasSize(n) THEN curve.size ELSE MAXFANCURVESIZE
      Cell(p) == IF p[2] < used THEN curve.points[p[2]][p[1]] ELSE 0
      sizes == {SizeRegister(n), WmiTableLength}
  IN [x \in DOMAIN m |->
        CASE x \in DOMAIN cells -> Cell(cells[x])
          [] x \in sizes -> curve.size
          [] OTHER -> m[x]]

(* Before the driver is used: a table, the controls off.                   *)
AtPowerOn(n, curve) ==
  LET c == model[n] IN
  Loaded(n, [x \in Addresses[n] |->
               CASE x = LOQ_CMDR_ADDR -> \h20
                 [] x \in Counters(c) -> 1
                 [] x = c.registers.MINIFANCURVE -> \hA0
                 [] OTHER -> 0],
         curve)

RegistersInit ==
  /\ machine \in Machines
  /\ \E curve \in Curves : ram = AtPowerOn(machine, curve)
  /\ store = NoStore /\ fancurve = NoCurve
  /\ meant = Shown(machine, ram)
  /\ intended = << >>
  /\ lost = {}

(* A store of r is refused before anything is written: the lock, a value   *)
(* out of range, a point beyond the size.                                  *)
Refuse(r) ==
  /\ AtRest
  /\ HasFile(machine, r.file)
  /\ ~(IsAllowed(r) /\ IsValid(CurveSize(machine, ram), r))
  /\ UNCHANGED registerVars

(* ... or gets the mutex, reads the table and changes it.                  *)
Begin(r) ==
  /\ AtRest
  /\ HasFile(machine, r.file)
  /\ IsAllowed(r)
  /\ IsValid(CurveSize(machine, ram), r)
  /\ store' = r
  /\ IF r.file \in Controls
       THEN UNCHANGED <<fancurve, intended>>
       ELSE /\ \E junk \in IF conf.fancurve = "EC2" THEN {0, 1} ELSE {0} :
                 fancurve' = Changed(machine, ReadCurve(machine, ram, junk), r)
            /\ intended' = Intended(machine, meant.points,
                                    CurveSize(machine, ram), r)
  /\ lost' = (lost \cup Disturbs(r)) \ {<<r.file, r.point>>}
  /\ UNCHANGED <<machine, ram, meant>>

Unlock ==
  /\ store' = NoStore /\ fancurve' = NoCurve /\ intended' = << >>
  /\ UNCHANGED <<machine, lost>>

(* The table is written, or the register of a control, and the mutex is    *)
(* released.                                                               *)
FinishCurve ==
  /\ store.file \in PointFiles \cup {"size"}
  /\ ram' = WriteCurve(machine, ram, fancurve, store.file = "size")
  /\ meant' = [meant EXCEPT !.points = intended]
  /\ Unlock

FinishControl ==
  /\ store.file \in Controls
  /\ LET x == ControlRegister(conf, store.file) IN
     ram' = [ram EXCEPT ![x] = Encoded(conf, store.file, @, store.value)]
  /\ meant' = [meant EXCEPT !.controls =
                 [f \in DOMAIN @ |->
                    IF f = store.file THEN store.value ELSE @[f]]]
  /\ Unlock

(* A WMI method fails; the firmware has kept what it had.                  *)
WmiFails ==
  /\ ~AtRest
  /\ IF store.file \in Controls
       THEN ControlRegister(conf, store.file) = WmiFullSpeed
       ELSE conf.fancurve = "WMI3"
  /\ UNCHANGED <<ram, meant>>
  /\ Unlock

(* The firmware of an LOQ machine takes the table it was given.            *)
Execute ==
  /\ IsPending(machine, ram)
  /\ ram' = [x \in DOMAIN ram |->
               CASE x = LOQ_CMDR_ADDR -> WithBit(ram[x], 16, 0)
                 [] x \in DOMAIN ReadBy[machine] ->
                      LET p == ReadBy[machine][x] IN
                      ram[WriteCell[machine][p[2]][p[1]]]
                 [] OTHER -> ram[x]]
  /\ UNCHANGED <<machine, store, fancurve, historyVars>>

(* The power mode changes and with it the table.                           *)
FirmwareLoads ==
  /\ ~IsPending(machine, ram)
  /\ \E curve \in Curves :
       /\ machine = "n2cn" => curve.size = CurveSize(machine, ram)
       /\ ram' = Loaded(machine, ram, curve)
  /\ meant' = [meant EXCEPT !.points = ShownPoints(machine, ram')]
  /\ lost' = IF AtRest THEN {} ELSE lost
  /\ UNCHANGED <<machine, store, fancurve, intended>>

------------------------------------------------------------------------------
(* Every address holds a byte, of which the command byte keeps the bits    *)
(* that are not the driver's; the local curve is one of bytes too: no      *)
(* conversion of a pwm value leaves the range of the register.             *)
RegistersTypeOK ==
  /\ machine \in Machines
  /\ \A x \in DOMAIN ram : ram[x] \in 0..255
  /\ ram[LOQ_CMDR_ADDR] \in {\h20, \h21, \h30, \h31}
  /\ store # NoStore /\ store.file \notin Controls
       => /\ fancurve.size \in 0..MAXFANCURVESIZE
          /\ \A i \in Points, a \in PointFiles :
               fancurve.points[i][a] \in 0..255
  /\ lost \subseteq PointFiles \X Points

(* Between stores every file shows what the last successful store of it    *)
(* meant, whatever was stored to other files of the table or to the        *)
(* controls in between: no layout drops, mixes up or fails to read back an *)
(* attribute it keeps.  Left out are the cells that are lost.              *)
ShownIsMeant ==
  AtRest =>
    LET shown == Shown(machine, ram) IN
    /\ shown.controls = meant.controls
    /\ \A i \in Points, a \in PointFiles :
         shown.points[i][a] = meant.points[i][a] \/ <<a, i>> \in lost

(* Where a layout keeps an attribute twice the copies agree between        *)
(* stores: the firmware may use either.                                    *)
CopiesAgree ==
  AtRest =>
    \A x \in DOMAIN WrittenBy[machine] :
      LET p == WrittenBy[machine][x] IN
      ram[x] = ram[WriteCell[machine][p[2]][p[1]]] \/ p \in lost
=============================================================================
