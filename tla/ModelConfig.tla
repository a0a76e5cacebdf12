------------------------------ MODULE ModelConfig ------------------------------
(***************************************************************************)
(* The model tables of legion-laptop.c: where the firmware of each family  *)
(* of machines keeps its values in the EC RAM, and by which method each    *)
(* function of the driver reaches them.  Only the members that FanRegisters*)
(* and Attributes look at are kept.                                        *)
(*                                                                         *)
(* A configuration is a record; "flags" is the set of its boolean members  *)
(* that are true.  A member a table does not name is zero in C: the method *)
(* NO_ACCESS.                                                              *)
(***************************************************************************)
EXTENDS Integers, Sequences

(* struct ec_register_offsets                                              *)
v0 ==
  [CUR_POINT |-> \hC534, POINTS_SIZE |-> \hC535,
   FAN1 |-> \hC540, FAN2 |-> \hC550, ACC |-> \hC560, DEC |-> \hC570,
   CPU_TEMP |-> \hC580, CPU_TEMP_HYST |-> \hC590,
   GPU_TEMP |-> \hC5A0, GPU_TEMP_HYST |-> \hC5B0,
   VRM_TEMP |-> \hC5C0, VRM_TEMP_HYST |-> \hC5D0,
   FAN1_RPM_LSB |-> \hC5E0, FAN1_RPM_MSB |-> \hC5E1,
   FAN2_RPM_LSB |-> \hC5E2, FAN2_RPM_MSB |-> \hC5E3,
   MINIFANCURVE |-> \hC536, LOCKFANCONTROLLER |-> \hC4AB,
   FAN1_TARGET |-> \hC600, FAN2_TARGET |-> \hC601,
   MAXIMUMFANSPEED |-> \hBD, POWERMODE |-> \hC420]

rzcn == [v0 EXCEPT !.FAN1_TARGET = \hC5A0, !.FAN2_TARGET = \hC5A1]

v1 == [v0 EXCEPT !.POWERMODE = \hC41D]

(* Registers that were "not found yet" share one address.                  *)
NotFound == \hC5A0
Unknown == [r \in DOMAIN v0 |-> NotFound]

ideapad_v0 ==
  [Unknown EXCEPT !.FAN1 = \hC5A0, !.FAN2 = \hC5A8,
     !.CPU_TEMP = \hC550, !.CPU_TEMP_HYST = \hC590,
     !.GPU_TEMP = \hC5C0, !.GPU_TEMP_HYST = \hC5D0]

ideapad_v1 == ideapad_v0

loq_v0 ==
  [Unknown EXCEPT !.FAN1 = \hCF02, !.CPU_TEMP = \hCF01, !.CPU_TEMP_HYST = \hCF00,
     !.FAN2 = \hCF3E, !.GPU_TEMP = \hCF3D, !.GPU_TEMP_HYST = \hCF3C,
     !.VRM_TEMP = \hCF79, !.VRM_TEMP_HYST = \hCF78,
     !.FAN1_RPM_LSB = \hC509, !.FAN2_RPM_LSB = \hC530, !.POWERMODE = \hC40A]

loq_v1 == [loq_v0 EXCEPT !.FAN2_RPM_LSB = \hC53C]

------------------------------------------------------------------------------
(* struct model_config: the registers, and the four methods that differ     *)
(* most between models.                                                    *)
Model(registers, fancurve, fanfullspeed, fanspeed, temperature, flags) ==
  [registers |-> registers, fancurve |-> fancurve, fanfullspeed |-> fanfullspeed,
   fanspeed |-> fanspeed, temperature |-> temperature, keyboard |-> "WMI",
   powerlimits |-> "NO_ACCESS", flags |-> flags]

Mini == {"has_minifancurve"}
Legion2021 == Model(v0, "EC", "WMI", "EC", "EC", Mini)
Legion2023 == Model(v0, "WMI3", "WMI", "WMI3", "WMI3", {})
Loq(registers, fancurve, flags) ==
  [Model(registers, fancurve, "WMI3", "WMI3", "WMI3", flags) EXCEPT !.keyboard = "WMI2"]

(* struct model_config model_*, in the order of the file.                  *)
Models1 ==
  [v0 |-> Legion2021,
   efcn |-> [Legion2021 EXCEPT !.keyboard = "NO_ACCESS",
               !.flags = @ \cup {"ec_ylogo_register", "skip_ioport_light"}],
   j2cn |-> Legion2021,
   9vcn |-> Model(ideapad_v1, "EC2", "WMI", "WMI", "WMI", Mini),
   v2022 |-> Legion2021,
   4gcn |-> Legion2021]

Models2 ==
  [bvcn |-> Model(v0, "NO_ACCESS", "WMI", "WMI", "WMI", Mini),
   bhcn |-> [Model(v0, "EC", "WMI", "WMI", "ACPI", Mini) EXCEPT
               !.keyboard = "ACPI"],
   kwcn |-> Legion2023,
   g8cn |-> [Legion2023 EXCEPT !.flags = Mini],
   n2cn |-> Model(v0, "WMI3", "WMI3", "WMI3", "WMI3",
              {"wmi_fancurve_speed_only", "require_unlocked_fan_controller"}),
   nmcn |-> [Model(v0, "EC4", "EC4", "WMI3", "WMI3", {}) EXCEPT
               !.powerlimits = "WMI3"],
   nxcn |-> [Legion2023 EXCEPT !.flags = Mini]]

Models3 ==
  [m0cn |-> [Legion2023 EXCEPT !.flags = Mini],
   m1cn |-> [Legion2023 EXCEPT !.flags = Mini],
   m2cn |-> [Legion2023 EXCEPT !.flags = Mini],
   m6cn |-> [Legion2023 EXCEPT !.flags = Mini],
   k1cn |-> Legion2023,
   rzcn |-> [Model(rzcn, "NO_ACCESS", "NO_ACCESS", "ACPI", "WMI3",
               {"skip_ic_temp", "skip_oc_controls", "acpi_fanspeed_is_rpm",
                "fan_target_is_duty", "has_four_fans", "skip_ylogo_light",
                "skip_ioport_light"}) EXCEPT !.keyboard = "NO_ACCESS"],
   nscn |-> [Model(v0, "NO_ACCESS", "WMI", "WMI3", "WMI3", {}) EXCEPT
               !.keyboard = "NO_ACCESS"]]

Models4 ==
  [qncn |-> Model(v0, "NO_ACCESS", "WMI", "WMI3", "WMI3", {}),
   lpcn |-> [Legion2023 EXCEPT !.powerlimits = "WMI3"],
   kfcn |-> [Legion2021 EXCEPT !.flags = {}],
   hacn |-> Legion2021,
   k9cn |-> Legion2021,
   eucn |-> Model(v1, "EC", "WMI", "EC", "EC", Mini),
   fccn |-> Model(ideapad_v0, "EC2", "WMI", "WMI", "ACPI", {})]

Models5 ==
  [h3cn |-> [Model(ideapad_v0, "NO_ACCESS", "WMI", "NO_ACCESS", "WMI", {}) EXCEPT
               !.keyboard = "NO_ACCESS"],
   e9cn |-> [Model(v1, "NO_ACCESS", "WMI", "WMI", "WMI", {}) EXCEPT
               !.keyboard = "NO_ACCESS"],
   8jcn |-> Model(v0, "EC", "WMI", "WMI", "WMI", Mini),
   jncn |-> [Model(v1, "NO_ACCESS", "WMI", "WMI", "WMI", {}) EXCEPT
               !.keyboard = "NO_ACCESS"],
   j1cn |-> Legion2021,
   dmcn |-> Legion2021,
   khcn |-> Legion2021]

Models6 ==
  [lzcn |-> [Loq(loq_v0, "EC3", Mini) EXCEPT !.powerlimits = "WMI3"],
   necn |-> Loq(loq_v0, "EC3", Mini),
   nzcn |-> Loq(loq_v0, "EC3", Mini),
   nrcn |-> [Legion2023 EXCEPT !.flags = Mini],
   r3cn |-> Loq(loq_v1, "EC3", Mini),
   rxcn |-> [Model(v0, "WMI3", "WMI3", "WMI3", "WMI3", Mini) EXCEPT
               !.keyboard = "WMI2"]]

Models7 ==
  [s2cn |-> Loq(loq_v1, "EC3", Mini),
   m3cn |-> Legion2023,
   m3cn_8227 |-> Legion2023,
   q8cn |-> Loq(loq_v0, "WMI3", Mini),
   secn |-> Loq(loq_v1, "EC3", Mini \cup {"skip_oc_controls"})]

(* One table that has the entries of both.                                 *)
Joined(f, g) ==
  [n \in DOMAIN f \cup DOMAIN g |-> IF n \in DOMAIN f THEN f[n] ELSE g[n]]

model ==
  Joined(Joined(Joined(Models1, Models2), Joined(Models3, Models4)),
         Joined(Joined(Models5, Models6), Models7))

------------------------------------------------------------------------------
(* optimistic_allowlist: the machines, by BIOS family and, in two entries, *)
(* by product, in the order in which they are tried.                       *)
Entry(bios, m) == [bios |-> bios, product |-> "any", model |-> m]

AllowList1 ==
  << Entry("GKCN", "v0"),
     [bios |-> "M3CN", product |-> "82Y9", model |-> "m3cn_8227"],
     Entry("EUCN", "eucn"), Entry("EFCN", "efcn"), Entry("FSCN", "v0"),
     Entry("HHCN", "v0"), Entry("H1CN", "v0"), Entry("J2CN", "v0"),
     Entry("JUCN", "v0"), Entry("KFCN", "kfcn"), Entry("HACN", "hacn"),
     Entry("G9CN", "v0"), Entry("K9CN", "k9cn"), Entry("FCCN", "fccn"),
     Entry("H4CN", "h3cn"), Entry("H3CN", "h3cn") >>

AllowList2 ==
  << Entry("JNCN", "jncn"), Entry("E9CN", "e9cn"), Entry("8JCN", "8jcn"),
     Entry("KWCN", "kwcn"), Entry("G8CN", "g8cn"), Entry("LPCN", "lpcn"),
     Entry("BHCN", "bhcn"), Entry("K1CN", "k1cn"), Entry("NSCN", "nscn"),
     Entry("RZCN", "rzcn"), Entry("4GCN", "4gcn"), Entry("M3CN", "m3cn"),
     Entry("9VCN", "9vcn"), Entry("JYCN", "v2022"), Entry("BVCN", "bvcn"),
     Entry("J2CN", "j2cn") >>

AllowList3 ==
  << Entry("J1CN", "j1cn"), Entry("M0CN", "m0cn"), Entry("M1CN", "m1cn"),
     Entry("M2CN", "m2cn"), Entry("M6CN", "m6cn"), Entry("DMCN", "dmcn"),
     Entry("KHCN", "khcn"), Entry("JVCN", "khcn"), Entry("LZCN", "lzcn"),
     Entry("NECN", "necn"), Entry("NZCN", "nzcn"), Entry("QNCN", "qncn"),
     Entry("PQCN", "nzcn"), Entry("N0CN", "g8cn"),
     [bios |-> "N2CN", product |-> "83DE", model |-> "n2cn"],
     Entry("NXCN", "nxcn") >>

AllowList4 ==
  << Entry("NRCN", "nrcn"), Entry("R3CN", "r3cn"), Entry("RXCN", "rxcn"),
     Entry("S2CN", "s2cn"), Entry("SECN", "secn"), Entry("NMCN", "nmcn"),
     Entry("Q8CN", "q8cn") >>

optimistic_allowlist == AllowList1 \o AllowList2 \o AllowList3 \o AllowList4

(* dmi_first_match, and the first entry when a machine that is not in the  *)
(* list is forced.  (The second entry of J2CN is never reached.)           *)
Selected(bios, product) ==
  LET Matches(i) == LET e == optimistic_allowlist[i] IN
                    e.bios = bios /\ e.product \in {"any", product}
      matching == {i \in DOMAIN optimistic_allowlist : Matches(i)}
      first == IF matching = {} THEN 1
               ELSE CHOOSE i \in matching : \A j \in matching : i <= j
  IN  optimistic_allowlist[first].model

(* priv->conf of the machines that the driver can be bound to.             *)
Configs ==
  { model[Selected(e.bios, e.product)] :
      e \in {optimistic_allowlist[i] : i \in DOMAIN optimistic_allowlist} }
==============================================================================
