------------------------------ MODULE Attributes ------------------------------
(***************************************************************************)
(* The files that hand one value of the firmware through: the switches and *)
(* power limits of the sysfs directory, the lights, and the fan speeds.    *)
(*                                                                         *)
(* Every file is a pair of method numbers of one of four WMI classes, on   *)
(* some models replaced by a feature of a fifth one; the numbers are what  *)
(* keeps the files apart.  A value is one WMI call, so that a store is one *)
(* step, with a lock (the features) or without.  A fan speed of the EC is  *)
(* two bytes, read without a lock and in no particular order, while the    *)
(* fan turns.                                                              *)
(*                                                                         *)
(* powermode, rapidcharge, lockfancontroller and fan_fullspeed are not     *)
(* here: see PowerMode, Charging and FanRegisters.  Nor is                 *)
(* gpu_ctgp2_powerlimit, which shows a further byte of the answer that     *)
(* gpu_ctgp_powerlimit shows the first one of.                             *)
(***************************************************************************)
EXTENDS ModelConfig, FiniteSets, FiniteSetsExt

CONSTANTS Machines,       \* names of models
          Values,         \* numbers written to the files
          Raws,           \* numbers the firmware may hold at first
          Rpms,           \* speeds of each fan, in rpm
          MaxCalls,       \* bound on stores and fan reads
          MaxTurns        \* bound on speed changes during one read

MaxWord == 65535   \* the largest number of two bytes

ASSUME MachinesAssumption == Machines \subseteq DOMAIN model
ASSUME ValuesAssumption ==
  Values \subseteq Nat /\ Raws \subseteq 0..255 /\ MaxCalls \in Nat
  /\ MaxTurns \in Nat
(* The driver has files for up to four fans.                               *)
ASSUME RpmsAssumption ==
  1..4 \subseteq DOMAIN Rpms /\ \A fan \in DOMAIN Rpms : Rpms[fan] \subseteq 0..MaxWord

VARIABLES machine,        \* name of the model the driver is bound to
          guids,          \* of the classes "CPU" and "GPU", those present
          fw,             \* the firmware's values, by class and get method
          lights,         \* lights the driver registered
          expected,       \* what each file is to show; history
          speed,          \* of each fan, as the firmware keeps it
          reading,        \* the fan speed file being read
          shown,          \* the last fan speed returned
          calls

vars == <<machine, guids, fw, lights, expected, speed, reading, shown, calls>>

conf == model[machine]
Has(flag) == flag \in conf.flags

Error == -1
NoMethod == 0

------------------------------------------------------------------------------
(* The methods of each file.                                               *)
Methods(class, get, set) ==
  [class |-> class, get |-> get, set |-> set, invert |-> FALSE]

Inverted(get, set) == [Methods("GAMEZONE", get, set) EXCEPT !.invert = TRUE]

SwitchFiles ==
  [winkey |-> Inverted(23, 22),
   touchpad |-> Inverted(26, 25),
   gsync |-> Inverted(41, 42),
   overdrive |-> Methods("GAMEZONE", 50, 51),
   igpumode |-> Methods("GAMEZONE", 64, 65),
   notify_dgpu |-> Methods("GAMEZONE", NoMethod, 66)]

InfoFiles ==
  [issupportgpuoc |-> Methods("GAMEZONE", 4, NoMethod),
   aslcodeversion |-> Methods("GAMEZONE", 11, NoMethod),
   issupportcpuoc |-> Methods("GAMEZONE", 14, NoMethod),
   issupportgsync |-> Methods("GAMEZONE", 40, NoMethod),
   powerchargemode |-> Methods("GAMEZONE", 47, NoMethod),
   thermalmode |-> Methods("GAMEZONE", 55, NoMethod),
   cpumaxfrequency |-> Methods("GAMEZONE", 60, NoMethod),
   isacfitforoc |-> Methods("GAMEZONE", 62, NoMethod),
   issupportigpumode |-> Methods("GAMEZONE", 63, NoMethod)]

CpuFiles ==
  [cpu_oc |-> Methods("CPU", 1, 2),
   cpu_shortterm_powerlimit |-> Methods("CPU", 3, 4),
   cpu_longterm_powerlimit |-> Methods("CPU", 5, 6),
   cpu_default_powerlimit |-> Methods("CPU", 7, NoMethod)]

(* Three limits of the CPU are asked of the GPU's class; the peak limit    *)
(* has the numbers of the GPU's temperature limit there.                   *)
CpuFilesOfGpu ==
  [cpu_peak_powerlimit |-> Methods("GPU", 8, 9),
   cpu_apu_sppt_powerlimit |-> Methods("GPU", 12, 13),
   cpu_cross_loading_powerlimit |-> Methods("GPU", 16, 17)]

GpuFiles ==
  [gpu_oc |-> Methods("GPU", 1, 2),
   gpu_ppab_powerlimit |-> Methods("GPU", 3, 4),
   gpu_ctgp_powerlimit |-> Methods("GPU", 5, 6),
   gpu_default_ppab_ctrgp_powerlimit |-> Methods("GPU", 7, NoMethod),
   gpu_temperature_limit |-> Methods("GPU", 8, 9),
   gpu_boost_clock |-> Methods("GPU", 10, NoMethod)]

FanFiles == [fan_maxspeed |-> Methods("FAN", 3, 4)]

(* f @@ g, defined here since the provers do not know that of TLC.         *)
Merged(f, g) ==
  [x \in DOMAIN f \cup DOMAIN g |-> IF x \in DOMAIN f THEN f[x] ELSE g[x]]

FilesOfGpu == Merged(CpuFilesOfGpu, GpuFiles)
OverclockFiles == Merged(CpuFiles, FilesOfGpu)
GameZoneFiles == Merged(SwitchFiles, InfoFiles)
WmiFiles == Merged(GameZoneFiles, Merged(OverclockFiles, FanFiles))

(* enum OtherMethodFeature: used instead when the model's power limits are *)
(* accessed by WMI3.                                                       *)
StoredFeatures ==
  [cpu_shortterm_powerlimit |-> \h01010000,
   cpu_longterm_powerlimit |-> \h01020000,
   cpu_peak_powerlimit |-> \h01030000,
   cpu_apu_sppt_powerlimit |-> \h01050000,
   cpu_cross_loading_powerlimit |-> \h01060000,
   gpu_ppab_powerlimit |-> \h02010000,
   gpu_ctgp_powerlimit |-> \h02020000]

(* These are only read that way: the store of the first one goes to its    *)
(* method in any case, those of the others fail on every model.            *)
ReadFeatures ==
  [gpu_temperature_limit |-> \h02030000,
   cpu_temperature_limit |-> \h01040000,
   cpu_l1_tau |-> \h01070000,
   gpu_power_target_offset |-> \h02040000]

Features == Merged(StoredFeatures, ReadFeatures)

Files == DOMAIN WmiFiles \cup DOMAIN ReadFeatures

OverFeature(features, f) == conf.powerlimits = "WMI3" /\ f \in DOMAIN features

Present(class) == class \in {"GAMEZONE", "FAN", "OTHER"} \cup guids

(* The value that a call of a class' set method changes, by the number of  *)
(* its get method.                                                         *)
GetOf(class, set) ==
  IF class = "GAMEZONE" /\ set \in {22, 25} THEN set + 1 ELSE set - 1

(* Where the file's value is read, and where a store puts it; << >> if     *)
(* there is no method.                                                     *)
ShowSource(f) ==
  IF OverFeature(Features, f) THEN <<"OTHER", Features[f]>>
  ELSE IF f \in DOMAIN WmiFiles /\ WmiFiles[f].get # NoMethod
    THEN <<WmiFiles[f].class, WmiFiles[f].get>>
  ELSE << >>

(* Variant for mutation: the stores know no features.                      *)
StoreTargetNoFeature(f) ==
  IF f \in DOMAIN WmiFiles /\ WmiFiles[f].set # NoMethod
    THEN <<WmiFiles[f].class, GetOf(WmiFiles[f].class, WmiFiles[f].set)>>
  ELSE << >>

StoreTarget(f) ==
  IF OverFeature(StoredFeatures, f) THEN <<"OTHER", StoredFeatures[f]>>
  ELSE IF f \in DOMAIN WmiFiles /\ WmiFiles[f].set # NoMethod
    THEN <<WmiFiles[f].class, GetOf(WmiFiles[f].class, WmiFiles[f].set)>>
  ELSE << >>

IsInverted(f) == f \in DOMAIN WmiFiles /\ WmiFiles[f].invert
Not(v) == IF v = 0 THEN 1 ELSE 0

(* show_simple_wmi_attribute, its variant for buffers, of which the first  *)
(* byte is taken, and wmi_common_method_other_show.                        *)
Show(f) ==
  LET source == ShowSource(f) IN
  IF source = << >> \/ ~Present(source[1]) THEN Error
  ELSE IF IsInverted(f) THEN Not(fw[source]) ELSE fw[source]

(* Variant for mutation: the argument is as wide as the number.            *)
RawWide(f, v) == IF IsInverted(f) THEN Not(v) ELSE v

(* set_simple_wmi_attribute hands one byte on; a feature takes a number.   *)
Raw(f, v) ==
  IF OverFeature(StoredFeatures, f) THEN v
  ELSE (IF IsInverted(f) THEN Not(v) ELSE v) % 256

(* legion_sysfs_is_visible                                                 *)
Visible(f) ==
  /\ f \in DOMAIN CpuFiles => "CPU" \in guids
  /\ f \in DOMAIN FilesOfGpu => "GPU" \in guids
  /\ Has("skip_oc_controls") => f \notin DOMAIN OverclockFiles

------------------------------------------------------------------------------
(* The lights.  The Y logo is a WMI light or a register of the EC.         *)
Lights ==
  [keyboard |-> [min |-> 1, max |-> 3], ylogo |-> [min |-> 0, max |-> 1],
   ioport |-> [min |-> 0, max |-> 2]]

IsEcLight(l) == l = "ylogo" /\ Has("ec_ylogo_register")

MaxBrightness(l) == IF IsEcLight(l) THEN 2 ELSE Lights[l].max - Lights[l].min

(* legion_wmi_light_get and legion_ec_ylogo_get                            *)
LightShown(l, raw) ==
  IF IsEcLight(l) THEN (IF raw > 2 THEN Error ELSE 2 - raw)
  ELSE IF l = "ylogo" THEN (IF raw = 1 THEN 1 ELSE 0)
  ELSE IF raw \in Lights[l].min .. Lights[l].max THEN raw - Lights[l].min
  ELSE Error

(* legion_wmi_light_set and legion_ec_ylogo_set                            *)
LightRaw(l, brightness) ==
  IF IsEcLight(l) THEN 2 - brightness
  ELSE IF l = "ylogo" THEN (IF brightness # 0 THEN 1 ELSE 2)
  ELSE Min({brightness + Lights[l].min, Lights[l].max})

(* The lights that legion_add tries to initialise.                         *)
TriedLights ==
  {l \in DOMAIN Lights :
     CASE l = "keyboard" -> conf.keyboard # "NO_ACCESS"
       [] l = "ylogo" -> Has("ec_ylogo_register") \/ ~Has("skip_ylogo_light")
       [] l = "ioport" -> ~Has("skip_ioport_light")}

------------------------------------------------------------------------------
(* The fans.  All EC models have the speed's bytes at the same registers.  *)
Fans == DOMAIN Rpms

FanFilesShown == IF Has("has_four_fans") THEN 1..4 ELSE 1..2

NotReading == [fan |-> 0]
NothingShown == [fan |-> 0, rpm |-> 0, during |-> {0}]

(* ACPI's branch for the first file picks a path and then the next one,    *)
(* and there is no branch for the second file.                             *)
FanRead(f) ==
  IF conf.fanspeed # "ACPI" THEN f ELSE IF f = 1 THEN 2 ELSE f

FanReadable(f) ==
  CASE conf.fanspeed = "NO_ACCESS" -> FALSE
    [] conf.fanspeed = "ACPI" -> f # 2
    [] OTHER -> f \in 1..2

Byte(rpm, part) == IF part = "LSB" THEN rpm % 256 ELSE rpm \div 256

(* Variant for mutation: the high byte is shifted by seven.                *)
RpmShift7(lsb, msb) == lsb + 128 * msb

Rpm(lsb, msb) == lsb + 256 * msb

------------------------------------------------------------------------------
Quantities ==
  LET methods == {WmiFiles[f] : f \in DOMAIN WmiFiles}
  IN {<<m.class, m.get>> : m \in {n \in methods : n.get # NoMethod}}
     \cup {<<m.class, GetOf(m.class, m.set)>> :
             m \in {n \in methods : n.set # NoMethod}}
     \cup {<<"OTHER", Features[f]>> : f \in DOMAIN Features}
     \cup {<<"LIGHT", l>> : l \in DOMAIN Lights}

LightValue(l) == LightShown(l, fw[<<"LIGHT", l>>])

Init ==
  /\ machine \in Machines
  /\ guids \in SUBSET {"CPU", "GPU"}
  /\ \E raw \in Raws : fw = [q \in Quantities |-> raw]
  /\ lights = {l \in TriedLights : LightValue(l) # Error}
  /\ expected = [x \in Files \cup lights |->
                   IF x \in Files THEN Show(x) ELSE LightValue(x)]
  /\ speed \in [Fans -> UNION {Rpms[fan] : fan \in Fans}]
  /\ \A fan \in Fans : speed[fan] \in Rpms[fan]
  /\ reading = NotReading /\ shown = NothingShown
  /\ calls = 0

Called == calls < MaxCalls /\ calls' = calls + 1

(* A store to one of the files; one that fails changes nothing.            *)
Store(f, v) ==
  /\ Called /\ Visible(f)
  /\ LET target == StoreTarget(f) IN
     IF target = << >> \/ ~Present(target[1])
       THEN UNCHANGED <<fw, expected>>
       ELSE /\ fw' = [fw EXCEPT ![target] = Raw(f, v)]
            /\ expected' = [expected EXCEPT ![f] =
                 IF IsInverted(f) THEN Not(Not(v))
                 ELSE IF OverFeature(StoredFeatures, f) THEN v ELSE v % 256]
  /\ UNCHANGED <<machine, guids, lights, speed, reading, shown>>

(* The LED core hands at most max_brightness to the driver.                *)
SetBrightness(l, v) ==
  LET brightness == Min({v, MaxBrightness(l)}) IN
  /\ Called
  /\ fw' = [fw EXCEPT ![<<"LIGHT", l>>] = LightRaw(l, brightness)]
  /\ expected' = [expected EXCEPT ![l] = brightness]
  /\ UNCHANGED <<machine, guids, lights, speed, reading, shown>>

(* A fan speed file is opened: methods other than the EC give the speed in *)
(* one call, ACPI in hundreds of rpm unless the table says otherwise.      *)
InHundreds == conf.fanspeed = "ACPI" /\ "acpi_fanspeed_is_rpm" \notin conf.flags

InOneCall(rpm) == IF InHundreds THEN 100 * (rpm \div 100) ELSE rpm

ReadFan(f) ==
  /\ Called /\ reading = NotReading
  /\ f \in FanFilesShown /\ FanReadable(f)
  /\ LET rpm == speed[FanRead(f)] IN
     IF conf.fanspeed = "EC"
       THEN /\ \E part \in {"LSB", "MSB"} :
                 reading' = [fan |-> f, part |-> part, byte |-> Byte(rpm, part),
                             during |-> {rpm}, turns |-> 0]
            /\ UNCHANGED shown
       ELSE /\ shown' = [fan |-> f, rpm |-> InOneCall(rpm), during |-> {speed[f]}]
            /\ UNCHANGED reading
  /\ UNCHANGED <<machine, guids, fw, lights, expected, speed>>

(* ec_read_fanspeed reads the other byte.                                  *)
ReadOtherByte ==
  /\ reading # NotReading
  /\ LET rpm == speed[FanRead(reading.fan)] IN
     shown' = [fan |-> reading.fan, during |-> reading.during,
               rpm |-> IF reading.part = "LSB"
                         THEN Rpm(reading.byte, Byte(rpm, "MSB"))
                         ELSE Rpm(Byte(rpm, "LSB"), reading.byte)]
  /\ reading' = NotReading
  /\ UNCHANGED <<machine, guids, fw, lights, expected, speed, calls>>

(* The firmware updates the speeds; between two reads is as good as any    *)
(* initial state.                                                          *)
FanTurns ==
  /\ reading # NotReading /\ reading.turns < MaxTurns
  /\ \E fan \in Fans : \E rpm \in Rpms[fan] \ {speed[fan]} :
       /\ speed' = [speed EXCEPT ![fan] = rpm]
       /\ reading' = [reading EXCEPT
                        !.turns = @ + 1,
                        !.during = @ \cup IF fan = reading.fan THEN {rpm}
                                          ELSE {}]
  /\ UNCHANGED <<machine, guids, fw, lights, expected, shown, calls>>

Next ==
  \/ \E f \in Files, v \in Values : Store(f, v)
  \/ \E l \in lights, v \in Values : SetBrightness(l, v)
  \/ \E f \in Fans : ReadFan(f)
  \/ ReadOtherByte
  \/ FanTurns

Spec == Init /\ [][Next]_vars

------------------------------------------------------------------------------
TypeOK ==
  /\ machine \in Machines
  /\ guids \subseteq {"CPU", "GPU"}
  /\ lights \subseteq TriedLights
  /\ \A q \in Quantities :
       fw[q] \in IF q[1] = "OTHER" THEN Values \cup Raws ELSE 0..255
  /\ DOMAIN fw = Quantities /\ DOMAIN expected = Files \cup lights
  /\ speed \in [Fans -> 0..MaxWord] /\ \A fan \in Fans : speed[fan] \in Rpms[fan]
  /\ \/ reading = NotReading
     \/ reading \in [fan : 1..2, part : {"LSB", "MSB"}, byte : 0..255,
                     during : SUBSET (0..MaxWord), turns : 0..MaxTurns]
  /\ shown \in [fan : {0} \cup Fans, rpm : 0..MaxWord, during : SUBSET (0..MaxWord)]
  /\ calls \in 0..MaxCalls

(* Files that do not keep apart: the peak limit of the CPU and the         *)
(* temperature limit of the GPU where both are methods 8 and 9 of the GPU's*)
(* class, and the latter where it is read from a feature but stored by its *)
(* method.                                                                 *)
Entangled ==
  IF conf.powerlimits = "WMI3" THEN {"gpu_temperature_limit"}
  ELSE {"cpu_peak_powerlimit", "gpu_temperature_limit"}

(* After any stores each visible file shows what was last stored to it, or *)
(* what it showed at first: the method and feature numbers keep the files  *)
(* apart (but for Entangled), show and store invert the same files, and a  *)
(* light comes back as it was set, clamped, with its own encoding.         *)
ShownIsStored ==
  /\ \A f \in Files \ (Entangled \cup {"notify_dgpu"}) :
       Visible(f) => Show(f) = expected[f]
  /\ \A l \in lights : LightValue(l) = expected[l]

(* How far from the truth a speed may be: the bytes of the EC are read     *)
(* apart, and hundreds are rounded down.                                   *)
Margin ==
  IF conf.fanspeed = "EC" THEN -255..255 ELSE IF InHundreds THEN -99..0 ELSE {0}

(* A fan speed is one that the fan in question had while the file was read.*)
(* As the bytes of the EC are read apart, the low byte may be that of      *)
(* another moment, but the result is always less than 256 rpm from a speed *)
(* the fan had; what is read in hundreds is rounded down.  The first file  *)
(* of ACPI models is left out: it shows the speed of the second fan.       *)
FanShown ==
  \/ conf.fanspeed = "ACPI" /\ shown.fan = 1
  \/ \E rpm \in shown.during : shown.rpm - rpm \in Margin
==============================================================================
