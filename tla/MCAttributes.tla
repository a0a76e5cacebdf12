----------------------------- MODULE MCAttributes -----------------------------
EXTENDS Attributes

(* Speeds around the turn of a high byte; no two fans share one.           *)
SomeRpms == << {1535, 1536}, {2559, 4608}, {2300}, {2500} >>

(* Every configuration is like one of Machines in all that the model looks *)
(* at.                                                                     *)
IsLike(m, n) ==
  /\ (m.powerlimits = "WMI3") = (n.powerlimits = "WMI3")
  /\ m.fanspeed = n.fanspeed \/ {m.fanspeed, n.fanspeed} \subseteq {"WMI", "WMI3"}
  /\ (m.keyboard = "NO_ACCESS") = (n.keyboard = "NO_ACCESS")
  /\ \A flag \in {"skip_oc_controls", "has_four_fans", "ec_ylogo_register",
                  "skip_ylogo_light", "skip_ioport_light", "acpi_fanspeed_is_rpm"} :
       flag \in m.flags <=> flag \in n.flags
ASSUME EveryMachine ==
  \A m \in Configs : \E n \in Machines : IsLike(m, model[n])
=============================================================================
