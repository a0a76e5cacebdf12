------------------------------ MODULE MCFanCurve ------------------------------
(* Two processes, tables of two points.  The requests hold a point beyond  *)
(* the size of the smaller curve (refused or cleared), and a size           *)
(* below and above the current one; the curves the firmware loads are      *)
(* shorter than the table and (as the hardware "might suddenly report")    *)
(* longer.                                                                 *)
EXTENDS FanCurve

Write(op, point, value) == [op |-> op, point |-> point, value |-> value]
Other(op, value) == [op |-> op, point |-> 0, value |-> value]

MCRequests ==
  { Write("pwm", 0, 255), Write("pwm", 1, 90),
    Write("temp", 1, 55), Write("size", 0, 1), Write("size", 0, 2),
    Other("show", 0), Other("debugfs", 0),
    Other("lockctl", "on"), Other("lockctl", "off"), Other("defaults", 0) }

Curve(pwm0, temp0, pwm1, temp1, size) ==
  [points |-> [i \in 0..1 |-> IF i = 0 THEN [pwm |-> pwm0, temp |-> temp0]
                                       ELSE [pwm |-> pwm1, temp |-> temp1]],
   size |-> size]

MCLoads == { Curve(10, 127, 0, 0, 1), Curve(30, 60, 40, 127, 200) }
==============================================================================
