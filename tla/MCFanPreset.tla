----------------------------- MODULE MCFanPreset ------------------------------
EXTENDS FanPreset

Names == <<"pwm1", "pwm2", "cpu_min", "cpu_max", "gpu_min", "gpu_max",
           "ic_min", "ic_max", "accel", "decel">>
Rank(f) == CHOOSE k \in 1..10 : Names[k] = f

(* Tables whose speeds and temperatures all differ.                        *)
Curve(size, first) ==
  [size |-> size,
   points |-> [i \in 0..9 |-> [f \in PointFiles |->
     IF f \in Ramps THEN 2 + (i % 4) ELSE first + 10 * i + Rank(f)]]]

PresetPoint(rpm, temp) ==
  [f \in PointFiles |->
     CASE f = "pwm1" -> rpm [] f = "pwm2" -> rpm + 150
       [] f \in {"accel", "decel"} -> 4 [] OTHER -> temp + Rank(f)]
Nothing == [f \in PointFiles |-> 0]

(* A preset shorter than its table that switches the fans off, and one     *)
(* with an illegal acceleration.                                           *)
TwoPoints ==
  [entries |-> <<PresetPoint(3950, 40),
                 [PresetPoint(0, 60) EXCEPT !.pwm2 = 1799], Nothing>>,
   minifancurve |-> 0]
BadRamp ==
  [entries |-> <<PresetPoint(1700, 40),
                 [PresetPoint(2300, 60) EXCEPT !.accel = 0]>>,
   minifancurve |-> 1]
Of(f, i, v) == [file |-> f, point |-> i, value |-> v, by |-> "user"]
SomeStores ==
  {Of("pwm2", 1, 200), Of("cpu_max", 9, 77), Of("size", 2, 2),
   Of("minifancurve", 0, 1), Of("lockfancontroller", 0, 1),
   Of("fan_fullspeed", 0, 1)}

SomePresets == {TwoPoints, BadRamp}
SomeCurves == {Curve(3, 0), Curve(1, 100)}

(* Every configuration whose fan curve is accessible is one of Machines in *)
(* all that the model looks at: its layout, how it is written and locked   *)
(* and, unless one of Machines has a file more, its controls.              *)
LayoutRegisters(m) ==
  IF m.fancurve = "WMI3" THEN << >>
  ELSE [r \in DOMAIN m.registers \ {"POWERMODE"} |-> m.registers[r]]
IsLike(m, n) ==
  /\ m.fancurve = n.fancurve
  /\ LayoutRegisters(m) = LayoutRegisters(n)
  /\ m.flags \cap {"wmi_fancurve_speed_only", "require_unlocked_fan_controller"}
       = n.flags \cap {"wmi_fancurve_speed_only", "require_unlocked_fan_controller"}
  /\ (m.fanfullspeed = "EC4") = (n.fanfullspeed = "EC4")
  /\ "has_minifancurve" \in m.flags => "has_minifancurve" \in n.flags
ASSUME EveryLayout ==
  \A m \in Configs :
    m.fancurve = "NO_ACCESS" \/ \E n \in Machines : IsLike(m, model[n])
=============================================================================
