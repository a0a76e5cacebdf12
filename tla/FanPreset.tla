------------------------------ MODULE FanPreset -------------------------------
(***************************************************************************)
(* FanCurveIO.write_fan_curve of legion.py: a preset, or a curve that was  *)
(* read before, is written to the driver one file after the other, up to a *)
(* hundred of them.  Nothing makes the sequence atomic: a file may be      *)
(* refused, other users store to the same files in between, the power mode *)
(* may change and, on LOQ machines, the firmware executes tables when it   *)
(* gets to them.  The driver and its registers are those of FanRegisters.  *)
(***************************************************************************)
EXTENDS FanRegisters, Sequences, SequencesExt

CONSTANTS Presets,        \* presets: entries, and the mini fan curve
          UserStores,     \* files another user may store to meanwhile
          Moments,        \* bound: when they do, as numbers of the writer's
                          \* next file; so the changes of the power mode
          MaxDisturbances \* bound: the number of both, and of stores that
                          \* come before the last table has been executed

ASSUME PresetsAssumption ==
  \A p \in Presets : /\ p.entries \in Seq([PointFiles -> Int])
                     /\ Len(p.entries) <= MAXFANCURVESIZE
                     /\ p.minifancurve \in {0, 1}

(* The point is part of a file's name; a control's value is the boolean    *)
(* that the number written is converted to.                                *)
ASSUME UserStoresAssumption ==
  \A r \in UserStores : /\ r.file \in PointFiles \cup {"size"} \cup Controls
                        /\ r.point \in Points
                        /\ r.file \in Controls => r.value \in {0, 1}
                        /\ r.by # "writer"

VARIABLES
  entries,       \* the entries to write, without the empty ones at the end
  enable_minifancurve,
  next,          \* the file that is written next: see Request
  phase,         \* "idle", "writing", "done" or "failed"
  disturbances   \* counter for the bound

(* History: what the properties compare with.                              *)
VARIABLES
  start,         \* what the files showed when the writer started
  fromHardware,  \* the preset was read from the driver just before
  disturbed      \* a user or the firmware changed the curve since

presetVars == <<entries, enable_minifancurve, fromHardware>>
writerVars == <<presetVars, next, phase, disturbances, start, disturbed>>
vars == <<registerVars, writerVars>>

(* The files of a point in the order of the writer; only those that exist. *)
PointOrder ==
  <<"pwm1", "pwm2", "cpu_min", "cpu_max", "gpu_min", "gpu_max",
    "ic_min", "ic_max", "accel", "decel">>
Order(n) == IF IsSpeedOnly(n) THEN <<"pwm1">> ELSE PointOrder

IsEmpty(entry) == \A f \in PointFiles : entry[f] = 0

Trimmed(es) == SubSeq(es, 1, Max({0} \cup {i \in DOMAIN es : ~IsEmpty(es[i])}))

MaxRpm == 10000
PwmOf(rpm) == ((rpm \div 100) * (100 * 255)) \div MaxRpm

(* Variant for mutation: both conversions round down.                      *)
Rpm1OfDown(pwm) == ((pwm * MaxRpm) \div (100 * 255)) * 100

Rpm1Of(pwm) == ((pwm * MaxRpm + 100 * 255 - 1) \div (100 * 255)) * 100
Rpm2Of(pwm) == ((pwm * MaxRpm + 100 * 225 - 1) \div (100 * 255)) * 100

(* The k-th store of the writer: first minifancurve, then point by point.  *)
PointRequest(k) ==
  LET width == Len(Order(machine))
      i == (k - 1) \div width
      f == Order(machine)[((k - 1) % width) + 1]
      v == entries[i + 1][f]
  IN [file |-> f, point |-> i, by |-> "writer",
      value |-> IF f \in Speeds THEN PwmOf(v) ELSE v]

Request(k) ==
  IF k = 0 THEN [file |-> "minifancurve", point |-> 0, by |-> "writer",
                 value |-> enable_minifancurve]
           ELSE PointRequest(k)

LastFile == Len(entries) * Len(Order(machine))

------------------------------------------------------------------------------
(* read_fan_curve: the files as the user reads them, in rpm.               *)
ReadEntry(fc, i) ==
  LET shown(f) ==
        IF i < fc.size THEN FromUnit(machine, fc.points[i][f]) ELSE 0
  IN [f \in PointFiles |->
        CASE f = "pwm1" -> Rpm1Of(shown("pwm1"))
          [] f = "pwm2" -> IF HasFile(machine, "pwm2")
                             THEN Rpm2Of(shown("pwm2")) ELSE Rpm1Of(shown("pwm1"))
          [] OTHER -> IF HasFile(machine, f) THEN fc.points[i][f] ELSE 0]

ReadEntries(fc) == [k \in 1..MAXFANCURVESIZE |-> ReadEntry(fc, k - 1)]

ReadMiniFanCurve ==
  IF HasFile(machine, "minifancurve")
     /\ ShownControl(machine, ram, "minifancurve") = 0 THEN 0 ELSE 1

Init ==
  /\ RegistersInit
  /\ entries = << >> /\ enable_minifancurve = 1
  /\ next = 0 /\ phase = "idle" /\ disturbances = 0
  /\ start = Shown(machine, ram).points /\ fromHardware = FALSE /\ disturbed = FALSE

(* write_fan_curve is called; a curve without entries is not written.      *)
Starts(es, mini, read) ==
  /\ phase = "idle" /\ AtRest
  /\ Trimmed(es) # << >>
  /\ entries' = Trimmed(es)
  /\ enable_minifancurve' = mini
  /\ fromHardware' = read
  /\ phase' = "writing"
  /\ next' = IF HasFile(machine, "minifancurve") THEN 0 ELSE 1
  /\ start' = Shown(machine, ram).points
  /\ disturbed' = IsPending(machine, ram)
  /\ UNCHANGED <<registerVars, disturbances>>

StartPreset ==
  \E preset \in Presets : Starts(preset.entries, preset.minifancurve, FALSE)

StartReadBack ==
  \E junk \in IF conf.fancurve = "EC2" THEN {0, 1} ELSE {0} :
    Starts(ReadEntries(ReadCurve(machine, ram, junk)), ReadMiniFanCurve, TRUE)

(* Variant for mutation: every error is only logged.                       *)
WriterHearsNothing(result) ==
  /\ next' = next + 1
  /\ phase' = IF next = LastFile THEN "done" ELSE "writing"
  /\ UNCHANGED <<presetVars, disturbances, start, disturbed>>

(* The file that is next has been written, or refused: the writer goes on  *)
(* or gives up; an error of minifancurve is only logged.                   *)
WriterHears(result) ==
  /\ IF result = "error" /\ next > 0
       THEN phase' = "failed" /\ next' = next
       ELSE /\ next' = next + 1
            /\ phase' = IF next = LastFile THEN "done" ELSE "writing"
  /\ UNCHANGED <<presetVars, disturbances, start, disturbed>>

WriterStores ==
  /\ phase = "writing"
  /\ \/ /\ Begin(Request(next))
        /\ IF IsPending(machine, ram)
             THEN /\ disturbances < MaxDisturbances
                  /\ disturbances' = disturbances + 1
             ELSE UNCHANGED disturbances
        /\ UNCHANGED <<presetVars, next, phase, start, disturbed>>
     \/ /\ Refuse(Request(next))
        /\ WriterHears("error")

MayDisturb == disturbances < MaxDisturbances /\ next \in Moments

(* Another user stores to one of the files.                                *)
UserStore ==
  /\ MayDisturb
  /\ \E r \in UserStores : Begin(r)
  /\ disturbances' = disturbances + 1
  /\ disturbed' = TRUE
  /\ UNCHANGED <<presetVars, next, phase, start>>

Hears(result) ==
  IF store.by = "writer" THEN WriterHears(result) ELSE UNCHANGED writerVars

StoreFinishes == (FinishCurve \/ FinishControl) /\ Hears("ok")

StoreFails == WmiFails /\ Hears("error")

FirmwareExecutes == Execute /\ UNCHANGED writerVars

PowerModeChanges ==
  /\ MayDisturb
  /\ FirmwareLoads
  /\ disturbances' = disturbances + 1
  /\ disturbed' = TRUE
  /\ UNCHANGED <<presetVars, next, phase, start>>

Next ==
  \/ StartPreset
  \/ StartReadBack
  \/ WriterStores
  \/ UserStore
  \/ StoreFinishes
  \/ StoreFails
  \/ FirmwareExecutes
  \/ PowerModeChanges

Spec == Init /\ [][Next]_vars

------------------------------------------------------------------------------
TypeOK ==
  /\ RegistersTypeOK
  /\ next \in 0..(LastFile + 1)
  /\ phase \in {"idle", "writing", "done", "failed"}

IsUndisturbed == phase # "idle" /\ AtRest /\ ~disturbed

(* The values that the entry of point i asks to be kept.                   *)
Wanted(i, a) ==
  LET v == entries[i + 1][a] IN
  IF a \in Speeds THEN ToUnit(machine, PwmOf(v)) ELSE v

(* The attributes of point i that the writer has files for, that are kept  *)
(* by the layout, in use and not known to be lost.                         *)
Watched(i) ==
  {a \in PointFiles :
     /\ HasFile(machine, a)
     /\ i < CurveSize(machine, ram)
     /\ ReadCell[machine][i][a] # NotKept
     /\ <<a, i>> \notin lost}

(* A preset that fails half way, or is still being written, never leaves a *)
(* point touched behind one that is not finished: the curve is the preset  *)
(* up to some point and what it was before behind it.                      *)
PresetIsPrefix ==
  IsUndisturbed =>
    LET points == ShownPoints(machine, ram)
        Kept(i, value) == \A a \in Watched(i) : points[i][a] = value[a]
        Asked(i) == [a \in PointFiles |-> Wanted(i, a)]
        unfinished ==
          {i \in Points : i >= Len(entries) \/ ~Kept(i, Asked(i))}
        touched == {i \in Points : ~Kept(i, start[i])}
    IN Max({0} \cup touched) <= Min({MAXFANCURVESIZE} \cup unfinished)

(* Once the writer is done the driver shows the speeds that the preset     *)
(* asked for, in rpm and in steps of 100 (of a percentage one step less at *)
(* most), its other values unchanged, and every point behind its last one  *)
(* as before; minifancurve is as it asked where it has a register.         *)
PresetWritten ==
  IsUndisturbed /\ phase = "done" =>
    LET shown == Shown(machine, ram)
        missing(i, a) ==
          (entries[i + 1][a] \div 100) * 100
            - Rpm1Of(FromUnit(machine, shown.points[i][a]))
    IN /\ \A i \in Points : \A a \in Watched(i) :
            IF i >= Len(entries) THEN shown.points[i][a] = start[i][a]
            ELSE IF a \in Speeds
            THEN missing(i, a) \in IF Unit(machine) = "PERCENT"
                                     THEN {0, 100} ELSE {0}
            ELSE shown.points[i][a] = entries[i + 1][a]
       /\ "minifancurve" \in OwnControls[machine]
            => shown.controls["minifancurve"] = enable_minifancurve

(* Writing back a curve that was just read changes no point of it, however *)
(* far the writer gets, but for speeds kept in percent, which both         *)
(* conversions round down.                                                 *)
WriteBackHarmless ==
  IsUndisturbed /\ fromHardware /\ Unit(machine) # "PERCENT" =>
    LET points == Shown(machine, ram).points IN
    \A i \in Points : \A a \in Watched(i) : points[i][a] = start[i][a]
=============================================================================
