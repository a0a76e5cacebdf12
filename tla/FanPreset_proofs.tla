---------------------------- MODULE FanPreset_proofs ----------------------------
(***************************************************************************)
(* For every set of machines among the models, every table that the        *)
(* firmware may hold, any presets and any stores of other users: no pwm    *)
(* value leaves the range of its register, every file shows what was last  *)
(* stored to it, and the copies that a layout keeps agree.  While nobody   *)
(* disturbs the writer the curve is a prefix of its preset, in the end all *)
(* of it, and one that was read before is left as it was.                  *)
(***************************************************************************)
EXTENDS FanPreset, SequenceTheorems, TLAPS

(***************************************************************************)
(* The models of the driver: each has a layout that its registers are for. *)
(***************************************************************************)

(* The registers r, fan curve method x and full speed method y of a model fit: *)
(* each layout comes with the tables of registers it is for.               *)
Fits(r, x, y) ==
  /\ x \in {"NO_ACCESS", "EC", "EC2", "EC3", "EC4", "WMI3"}
  /\ r \in {v0, v1, rzcn, ideapad_v0, loq_v0, loq_v1}
  /\ x = "EC" => r \in {v0, v1}
  /\ x = "EC2" => r = ideapad_v0
  /\ x = "EC3" => r \in {loq_v0, loq_v1}
  /\ y # "EC"
  /\ x = "EC4" <=> y = "EC4"
Members ==
  {"registers", "fancurve", "fanfullspeed", "fanspeed", "temperature", "keyboard",
   "powerlimits", "flags"}
IsConf(m) ==
  /\ Fits(m.registers, m.fancurve, m.fanfullspeed)
  /\ m = [x \in Members |-> m[x]]

(* A model made of parts that fit has a layout that fits.                  *)
LEMMA ModelFits == \A r, x, y, z, w, s : Fits(r, x, y) => IsConf(Model(r,x,y,z,w,s))
  BY DEF Model, IsConf, Members

(* The members that entries change afterwards have no part in it.          *)
LEMMA ModelChanged == \A m, x : IsConf(m) => /\ IsConf([m EXCEPT !.flags = x])
                                   /\ IsConf([m EXCEPT !.keyboard = x])
                                   /\ IsConf([m EXCEPT !.powerlimits = x])
  BY DEF Model, IsConf, Members

(* Joined tables have the entries of both.                                 *)
LEMMA BothFit ==
  ASSUME NEW f, NEW g, \A n \in DOMAIN f : IsConf(f[n]), \A n \in DOMAIN g : IsConf(g[n])
  PROVE  \A n \in DOMAIN Joined(f, g) : IsConf(Joined(f, g)[n])
  BY DEF Joined

(* Every entry of the table of models fits its layout.                     *)
LEMMA EveryModelFits == \A n \in DOMAIN model : IsConf(model[n])
<1>1. \A y \in {"WMI", "WMI3", "NO_ACCESS"}, x \in {"WMI3", "NO_ACCESS"} :
        \A r \in {v0, v1, rzcn, ideapad_v0, loq_v0, loq_v1} : Fits(r, x, y)
  BY DEF Fits
<1>2. \A y \in {"WMI", "WMI3"} :
        /\ Fits(v0, "EC", y) /\ Fits(v1, "EC", y) /\ Fits(ideapad_v0, "EC2", y)
        /\ Fits(loq_v0, "EC3", y) /\ Fits(loq_v1, "EC3", y)
  BY DEF Fits
<1>3. Fits(v0, "EC4", "EC4")
  BY DEF Fits
<1>4. /\ IsConf(Legion2021) /\ IsConf(Legion2023)
      /\ IsConf(Loq(loq_v0, "EC3", Mini)) /\ IsConf(Loq(loq_v1, "EC3", Mini))
      /\ IsConf(Loq(loq_v0, "WMI3", Mini))
      /\ IsConf(Loq(loq_v1, "EC3", Mini \cup {"skip_oc_controls"}))
  BY <1>1, <1>2, ModelFits, ModelChanged DEF Legion2021, Legion2023, Loq
<1>5. /\ \A k : IsConf([Legion2021 EXCEPT !.keyboard = k])
      /\ \A s : IsConf([Legion2021 EXCEPT !.flags = s])
      /\ \A k, s : IsConf([Legion2021 EXCEPT !.keyboard = k, !.flags = s])
      /\ \A s : IsConf([Legion2023 EXCEPT !.flags = s])
      /\ \A s : IsConf([Legion2023 EXCEPT !.powerlimits = s])
      /\ \A s : IsConf([Loq(loq_v0, "EC3", Mini) EXCEPT !.powerlimits = s])
  BY <1>4, ModelChanged
<1>6. /\ \A y \in {"WMI", "WMI3", "NO_ACCESS"}, x \in {"WMI3", "NO_ACCESS"} :
           \A r \in {v0, v1, rzcn, ideapad_v0, loq_v0, loq_v1} :
             \A z, w, s, k : IsConf([Model(r, x, y, z, w, s) EXCEPT !.keyboard = k])
      /\ \A y \in {"WMI", "WMI3"} :
           \A z, w, s, k : IsConf([Model(v0, "EC", y, z, w, s) EXCEPT !.keyboard = k])
      /\ \A z, w, s, k :
           IsConf([Model(v0, "EC4", "EC4", z, w, s) EXCEPT !.powerlimits = k])
  <2>1. \A r, x, y, z, w, s, k :
          Fits(r, x, y) => /\ IsConf([Model(r, x, y, z, w, s) EXCEPT !.keyboard = k])
                           /\ IsConf([Model(r, x, y, z, w, s) EXCEPT !.powerlimits = k])
    <3> SUFFICES ASSUME NEW r, NEW x, NEW y, NEW z, NEW w, NEW s, NEW k, Fits(r, x, y)
                 PROVE  /\ IsConf([Model(r, x, y, z, w, s) EXCEPT !.keyboard = k])
                        /\ IsConf([Model(r, x, y, z, w, s) EXCEPT !.powerlimits = k])
      OBVIOUS
    <3>1. IsConf(Model(r, x, y, z, w, s))
      BY ModelFits, Zenon
    <3> QED
      BY <3>1, ModelChanged, Zenon
  <2>2. \A y \in {"WMI", "WMI3", "NO_ACCESS"}, x \in {"WMI3", "NO_ACCESS"} :
          \A r \in {v0, v1, rzcn, ideapad_v0, loq_v0, loq_v1} :
            \A z, w, s, k : IsConf([Model(r, x, y, z, w, s) EXCEPT !.keyboard = k])
    <3> SUFFICES ASSUME NEW y \in {"WMI", "WMI3", "NO_ACCESS"},
                        NEW x \in {"WMI3", "NO_ACCESS"},
                        NEW r \in {v0, v1, rzcn, ideapad_v0, loq_v0, loq_v1}
                 PROVE  \A z, w, s, k :
                          IsConf([Model(r, x, y, z, w, s) EXCEPT !.keyboard = k])
      OBVIOUS
    <3>1. Fits(r, x, y)
      BY <1>1
    <3> QED
      BY <2>1, <3>1, Zenon
  <2>3. \A y \in {"WMI", "WMI3"} :
          \A z, w, s, k : IsConf([Model(v0, "EC", y, z, w, s) EXCEPT !.keyboard = k])
    BY <1>2, <2>1, Zenon
  <2>4. \A z, w, s, k :
          IsConf([Model(v0, "EC4", "EC4", z, w, s) EXCEPT !.powerlimits = k])
    BY <1>3, <2>1, Zenon
  <2> QED
    BY <2>2, <2>3, <2>4
<1>7. \A n \in DOMAIN Models1 : IsConf(Models1[n])
  <2>1. DOMAIN Models1 =
          {"v0", "efcn", "j2cn", "9vcn", "v2022", "4gcn"}
    BY DEF Models1
  <2>2. /\ IsConf(Models1["v0"])
        /\ IsConf(Models1["efcn"])
        /\ IsConf(Models1["j2cn"])
        /\ IsConf(Models1["9vcn"])
        /\ IsConf(Models1["v2022"])
        /\ IsConf(Models1["4gcn"])
    BY <1>1, <1>2, <1>3, <1>4, <1>5, <1>6, ModelFits DEF Models1, ideapad_v1
  <2> QED
    BY <2>1, <2>2
<1>8. \A n \in DOMAIN Models2 : IsConf(Models2[n])
  <2>1. DOMAIN Models2 =
          {"bvcn", "bhcn", "kwcn", "g8cn", "n2cn", "nmcn", "nxcn"}
    BY DEF Models2
  <2>2. /\ IsConf(Models2["bvcn"])
        /\ IsConf(Models2["bhcn"])
        /\ IsConf(Models2["kwcn"])
        /\ IsConf(Models2["g8cn"])
        /\ IsConf(Models2["n2cn"])
        /\ IsConf(Models2["nmcn"])
        /\ IsConf(Models2["nxcn"])
    BY <1>1, <1>2, <1>3, <1>4, <1>5, <1>6, ModelFits DEF Models2
  <2> QED
    BY <2>1, <2>2
<1>9. \A n \in DOMAIN Models3 : IsConf(Models3[n])
  <2>1. DOMAIN Models3 =
          {"m0cn", "m1cn", "m2cn", "m6cn", "k1cn", "rzcn", "nscn"}
    BY DEF Models3
  <2>2. /\ IsConf(Models3["m0cn"])
        /\ IsConf(Models3["m1cn"])
        /\ IsConf(Models3["m2cn"])
        /\ IsConf(Models3["m6cn"])
        /\ IsConf(Models3["k1cn"])
        /\ IsConf(Models3["rzcn"])
        /\ IsConf(Models3["nscn"])
    BY <1>1, <1>2, <1>3, <1>4, <1>5, <1>6, ModelFits DEF Models3
  <2> QED
    BY <2>1, <2>2
<1>10. \A n \in DOMAIN Models4 : IsConf(Models4[n])
  <2>1. DOMAIN Models4 =
          {"qncn", "lpcn", "kfcn", "hacn", "k9cn", "eucn", "fccn"}
    BY DEF Models4
  <2>2. /\ IsConf(Models4["qncn"])
        /\ IsConf(Models4["lpcn"])
        /\ IsConf(Models4["kfcn"])
        /\ IsConf(Models4["hacn"])
        /\ IsConf(Models4["k9cn"])
        /\ IsConf(Models4["eucn"])
        /\ IsConf(Models4["fccn"])
    BY <1>1, <1>2, <1>3, <1>4, <1>5, <1>6, ModelFits DEF Models4
  <2> QED
    BY <2>1, <2>2
<1>11. \A n \in DOMAIN Models5 : IsConf(Models5[n])
  <2>1. DOMAIN Models5 =
          {"h3cn", "e9cn", "8jcn", "jncn", "j1cn", "dmcn", "khcn"}
    BY DEF Models5
  <2>2. /\ IsConf(Models5["h3cn"])
        /\ IsConf(Models5["e9cn"])
        /\ IsConf(Models5["8jcn"])
        /\ IsConf(Models5["jncn"])
        /\ IsConf(Models5["j1cn"])
        /\ IsConf(Models5["dmcn"])
        /\ IsConf(Models5["khcn"])
    BY <1>1, <1>2, <1>3, <1>4, <1>5, <1>6, ModelFits DEF Models5
  <2> QED
    BY <2>1, <2>2
<1>12. \A n \in DOMAIN Models6 : IsConf(Models6[n])
  <2>1. DOMAIN Models6 =
          {"lzcn", "necn", "nzcn", "nrcn", "r3cn", "rxcn"}
    BY DEF Models6
  <2>2. /\ IsConf(Models6["lzcn"])
        /\ IsConf(Models6["necn"])
        /\ IsConf(Models6["nzcn"])
        /\ IsConf(Models6["nrcn"])
        /\ IsConf(Models6["r3cn"])
        /\ IsConf(Models6["rxcn"])
    BY <1>1, <1>2, <1>3, <1>4, <1>5, <1>6, ModelFits DEF Models6
  <2> QED
    BY <2>1, <2>2
<1>13. \A n \in DOMAIN Models7 : IsConf(Models7[n])
  <2>1. DOMAIN Models7 =
          {"s2cn", "m3cn", "m3cn_8227", "q8cn", "secn"}
    BY DEF Models7
  <2>2. /\ IsConf(Models7["s2cn"])
        /\ IsConf(Models7["m3cn"])
        /\ IsConf(Models7["m3cn_8227"])
        /\ IsConf(Models7["q8cn"])
        /\ IsConf(Models7["secn"])
    BY <1>1, <1>2, <1>3, <1>4, <1>5, <1>6, ModelFits DEF Models7
  <2> QED
    BY <2>1, <2>2
<1> QED
  BY <1>7, <1>8, <1>9, <1>10, <1>11, <1>12, <1>13, BothFit DEF model

(***************************************************************************)
(* The layouts: no address is written for two cells.                       *)
(***************************************************************************)

(* The ten files of a point.                                               *)
LEMMA PointFileCases ==
  \A a \in PointFiles : a \in {"pwm1", "pwm2", "cpu_max", "gpu_max", "ic_max",
                               "cpu_min", "gpu_min", "ic_min", "accel", "decel"}
  BY DEF PointFiles, Speeds, Temps, MaxTemps, Ramps

(* The least of one number ...                                             *)
LEMMA MinOne == \A x \in Int : Min({x}) = x
  BY DEF Min

(* ... and of two.                                                         *)
LEMMA MinTwo == \A x, y \in Int : /\ Min({x, y}) \in {x, y}
                                 /\ Min({x, y}) <= x /\ Min({x, y}) <= y
  BY DEF Min

EcRegisters == {v0, v1}

(* The base registers of each layout are the numbers of legion-laptop.c.   *)
LEMMA EcBases ==
  ASSUME NEW c, c.registers \in EcRegisters
  PROVE  /\ Base(c, "pwm1") = \hC540 /\ Base(c, "pwm2") = \hC550
         /\ Base(c, "accel") = \hC560 /\ Base(c, "decel") = \hC570
         /\ Base(c, "cpu_max") = \hC580 /\ Base(c, "cpu_min") = \hC590
         /\ Base(c, "gpu_max") = \hC5A0 /\ Base(c, "gpu_min") = \hC5B0
         /\ Base(c, "ic_max") = \hC5C0 /\ Base(c, "ic_min") = \hC5D0
<1>1. \A r \in EcRegisters :
         /\ r.FAN1 = \hC540 /\ r.FAN2 = \hC550
         /\ r.ACC = \hC560 /\ r.DEC = \hC570
         /\ r.CPU_TEMP = \hC580 /\ r.CPU_TEMP_HYST = \hC590
         /\ r.GPU_TEMP = \hC5A0 /\ r.GPU_TEMP_HYST = \hC5B0
         /\ r.VRM_TEMP = \hC5C0 /\ r.VRM_TEMP_HYST = \hC5D0
  BY DEF EcRegisters, v0, v1
<1> QED
  BY <1>1 DEF Base, BaseRegister

LoqRegisters == {loq_v0, loq_v1}

(* Two cells of a layout never share an address.                           *)
Separate(c) ==
  \A a, b \in PointFiles, i, j \in Points :
     WrittenTo(c, a, i) \cap WrittenTo(c, b, j) # {} => a = b /\ i = j

(* The members of struct ec_register_offsets.                              *)
LEMMA RegisterNames ==
  DOMAIN v0 = {"CUR_POINT", "POINTS_SIZE", "FAN1", "FAN2", "ACC", "DEC",
     "CPU_TEMP", "CPU_TEMP_HYST", "GPU_TEMP", "GPU_TEMP_HYST", "VRM_TEMP",
     "VRM_TEMP_HYST", "FAN1_RPM_LSB", "FAN1_RPM_MSB", "FAN2_RPM_LSB",
     "FAN2_RPM_MSB", "MINIFANCURVE", "LOCKFANCONTROLLER", "FAN1_TARGET",
     "FAN2_TARGET", "MAXIMUMFANSPEED", "POWERMODE"}
  BY DEF v0

(* Registers that were not found have one address.                         *)
LEMMA UnknownRegisters ==
  /\ DOMAIN Unknown = DOMAIN v0
  /\ \A r \in DOMAIN v0 : Unknown[r] = NotFound
  BY DEF Unknown

(* Ideapad models use six of the tables.                                   *)
LEMMA IdeapadBases ==
  ASSUME NEW c, c.registers = ideapad_v0
  PROVE  /\ Base(c, "pwm1") = \hC5A0 /\ Base(c, "pwm2") = \hC5A8
         /\ Base(c, "cpu_max") = \hC550 /\ Base(c, "cpu_min") = \hC590
         /\ Base(c, "gpu_max") = \hC5C0 /\ Base(c, "gpu_min") = \hC5D0
<1>1. /\ ideapad_v0.FAN1 = \hC5A0 /\ ideapad_v0.FAN2 = \hC5A8
      /\ ideapad_v0.CPU_TEMP = \hC550 /\ ideapad_v0.CPU_TEMP_HYST = \hC590
      /\ ideapad_v0.GPU_TEMP = \hC5C0 /\ ideapad_v0.GPU_TEMP_HYST = \hC5D0
  BY RegisterNames, UnknownRegisters DEF ideapad_v0
<1> QED
  BY <1>1 DEF Base, BaseRegister

(* LOQ models: the table that is written and the two that are in use.      *)
LEMMA LoqBases ==
  ASSUME NEW c, c.registers \in LoqRegisters
  PROVE  /\ Base(c, "pwm1") = \hCF02 /\ Base(c, "pwm2") = \hCF3E
         /\ Base(c, "cpu_max") = \hCF01 /\ Base(c, "cpu_min") = \hCF00
         /\ Base(c, "gpu_max") = \hCF3D /\ Base(c, "gpu_min") = \hCF3C
         /\ Base(c, "ic_max") = \hCF79 /\ Base(c, "ic_min") = \hCF78
         /\ c.registers.FAN1_RPM_LSB = \hC509
         /\ c.registers.FAN2_RPM_LSB \in {\hC530, \hC53C}
<1>1. /\ loq_v0.FAN1 = \hCF02 /\ loq_v0.FAN2 = \hCF3E
      /\ loq_v0.CPU_TEMP = \hCF01 /\ loq_v0.CPU_TEMP_HYST = \hCF00
      /\ loq_v0.GPU_TEMP = \hCF3D /\ loq_v0.GPU_TEMP_HYST = \hCF3C
      /\ loq_v0.VRM_TEMP = \hCF79 /\ loq_v0.VRM_TEMP_HYST = \hCF78
      /\ loq_v0.FAN1_RPM_LSB = \hC509 /\ loq_v0.FAN2_RPM_LSB = \hC530
  BY RegisterNames, UnknownRegisters DEF loq_v0
<1>2. \A r \in {"FAN1", "FAN2", "CPU_TEMP", "CPU_TEMP_HYST", "GPU_TEMP",
                "GPU_TEMP_HYST", "VRM_TEMP", "VRM_TEMP_HYST", "FAN1_RPM_LSB"} :
        loq_v1[r] = loq_v0[r]
  <2>1. /\ loq_v1.FAN1 = \hCF02 /\ loq_v1.FAN2 = \hCF3E
      /\ loq_v1.CPU_TEMP = \hCF01 /\ loq_v1.CPU_TEMP_HYST = \hCF00
      /\ loq_v1.GPU_TEMP = \hCF3D /\ loq_v1.GPU_TEMP_HYST = \hCF3C
      /\ loq_v1.VRM_TEMP = \hCF79 /\ loq_v1.VRM_TEMP_HYST = \hCF78
      /\ loq_v1.FAN1_RPM_LSB = \hC509
    BY RegisterNames, UnknownRegisters, SMTT(60) DEF loq_v0, loq_v1
  <2> QED
    BY <2>1, <1>1
<1>3. loq_v1.FAN2_RPM_LSB = \hC53C
  BY RegisterNames, UnknownRegisters DEF loq_v0, loq_v1
<1> QED
  BY <1>1, <1>2, <1>3 DEF Base, BaseRegister, LoqRegisters

(* Ideapad: eight points, the temperatures twice, at a distance of eight.  *)
LEMMA IdeapadSeparate ==
  ASSUME NEW c, c.fancurve = "EC2", c.registers = ideapad_v0
  PROVE  Separate(c)
<1> DEFINE B(a) == Base(c, a)
           W(a, i) == WrittenTo(c, a, i)
           Pair == {"cpu_max", "gpu_max", "cpu_min", "gpu_min"}
<1>1. \A a, i : W(a, i) = WrittenIdeapad(c, a, i)
  BY DEF WrittenTo
<1>2. \A a \in PointFiles :
        a \in Ramps \cup {"ic_max", "ic_min"} \/ a \in Speeds \/ a \in Pair
  BY DEF PointFiles, Speeds, Temps, MaxTemps, Ramps
<1>3. \A a \in PointFiles, i \in Points :
        \/ W(a, i) = {}
        \/ i < 8 /\ a \in Speeds /\ W(a, i) = {B(a) + i}
        \/ i < 8 /\ a \in Pair /\ W(a, i) = {B(a) + i, B(a) + 8 + i}
  <2> SUFFICES ASSUME NEW a \in PointFiles, NEW i \in Points
               PROVE  \/ W(a, i) = {}
                      \/ i < 8 /\ a \in Speeds /\ W(a, i) = {B(a) + i}
                      \/ i < 8 /\ a \in Pair /\ W(a, i) = {B(a) + i, B(a) + 8 + i}
    OBVIOUS
  <2>0. i \in Int
    BY DEF Points
  <2>1. CASE i >= 8 \/ a \in Ramps \cup {"ic_max", "ic_min"}
    BY <1>1, <2>1 DEF WrittenIdeapad, FANCURVESIZE_IDEAPAD
  <2>2. CASE ~(i >= 8 \/ a \in Ramps \cup {"ic_max", "ic_min"}) /\ a \in Speeds
    <3>1. W(a, i) = {B(a) + i}
      BY <1>1, <2>2 DEF WrittenIdeapad, FANCURVESIZE_IDEAPAD
    <3> QED
      BY <2>0, <2>2, <3>1
  <2>3. CASE ~(i >= 8 \/ a \in Ramps \cup {"ic_max", "ic_min"}) /\ a \notin Speeds
    <3>1. W(a, i) = {B(a) + i, B(a) + 8 + i}
      BY <1>1, <2>3 DEF WrittenIdeapad, FANCURVESIZE_IDEAPAD
    <3>2. a \in Pair /\ i < 8
      BY <1>2, <2>0, <2>3
    <3> QED
      BY <3>1, <3>2
  <2> QED
    BY <2>1, <2>2, <2>3
<1>4. \A a, b \in Speeds \cup Pair :
        \A i, j \in 0..7 :
          /\ B(a) + i = B(b) + j => a = b /\ i = j
          /\ a \notin Speeds => B(a) + 8 + i # B(b) + j
          /\ a \notin Speeds /\ b \notin Speeds /\ B(a) + 8 + i = B(b) + 8 + j
               => a = b /\ i = j
  BY IdeapadBases DEF Speeds
<1> HIDE DEF B, W
<1> QED
  <2> SUFFICES ASSUME NEW a \in PointFiles, NEW b \in PointFiles, NEW i \in Points,
                      NEW j \in Points, NEW x, x \in W(a, i), x \in W(b, j)
               PROVE  a = b /\ i = j
    BY DEF Separate, W
  <2>1. a \in Speeds \cup Pair /\ b \in Speeds \cup Pair /\ i \in 0..7 /\ j \in 0..7
    BY <1>3 DEF Points, MAXFANCURVESIZE
  <2>2. /\ x = B(a) + i \/ (a \notin Speeds /\ x = B(a) + 8 + i)
        /\ x = B(b) + j \/ (b \notin Speeds /\ x = B(b) + 8 + j)
    BY <1>3 DEF Speeds
  <2> QED
    BY <1>4, <2>1, <2>2

(* Legion: ten tables of sixteen bytes.                                    *)
LEMMA EcSeparate ==
  ASSUME NEW c, c.fancurve = "EC", c.registers \in EcRegisters
  PROVE  Separate(c)
<1>1. \A a \in PointFiles, i \in Points : WrittenTo(c, a, i) = {Base(c, a) + i}
  BY DEF WrittenTo, WrittenEc
<1> DEFINE B(a) == Base(c, a)
<1>2. \A a, b \in PointFiles, i, j \in Points : B(a) + i = B(b) + j => a = b /\ i = j
  BY EcBases, PointFileCases DEF Points, MAXFANCURVESIZE
<1> QED
  BY <1>1, <1>2 DEF Separate

(* LOQ: records of six bytes that are interleaved.                         *)
LEMMA LoqSeparate ==
  ASSUME NEW c, c.fancurve = "EC3", c.registers \in LoqRegisters
  PROVE  Separate(c)
<1> DEFINE B(a) == Base(c, a)
           Kept == PointFiles \ Ramps
<1>1. \A a \in PointFiles, i \in Points :
        \/ WrittenTo(c, a, i) = {}
        \/ a \in Kept /\ WrittenTo(c, a, i) = {B(a) + 6 * i}
  BY DEF WrittenTo, WrittenLoq
<1>2. \A a, b \in Kept : \A i, j \in Points :
        B(a) + 6 * i = B(b) + 6 * j => a = b /\ i = j
  BY LoqBases, PointFileCases DEF Ramps, Points, MAXFANCURVESIZE
<1> QED
  BY <1>1, <1>2 DEF Separate

(* Legion 2024: records of three bytes, temperatures in the tables of both fans. *)
LEMMA Legion2024Written ==
  ASSUME NEW c, c.fancurve = "EC4", NEW a \in PointFiles, NEW i \in Points
  PROVE  \/ WrittenTo(c, a, i) = {}
         \/ a = "cpu_max" /\ WrittenTo(c, a, i) = {\hC50A + 3 * i, \hC531 + 3 * i}
         \/ a = "gpu_max" /\ WrittenTo(c, a, i) = {\hC50A + 3 * i + 1, \hC531 + 3 * i + 1}
         \/ a = "pwm1" /\ WrittenTo(c, a, i) = {\hC50A + 3 * i + 2}
         \/ a = "pwm2" /\ WrittenTo(c, a, i) = {\hC531 + 3 * i + 2}
  BY DEF WrittenTo, WrittenLegion2024, EC4_FAN1_BASE, EC4_FAN2_BASE

(* ... which are far enough from each other.                               *)
LEMMA Legion2024Separate ==
  ASSUME NEW c, c.fancurve = "EC4"
  PROVE  Separate(c)
<1> SUFFICES ASSUME NEW a \in PointFiles, NEW b \in PointFiles, NEW i \in Points,
                    NEW j \in Points, NEW x,
                    x \in WrittenTo(c, a, i), x \in WrittenTo(c, b, j)
             PROVE  a = b /\ i = j
  BY DEF Separate
<1>1. i \in 0..9 /\ j \in 0..9
  BY DEF Points, MAXFANCURVESIZE
<1> DEFINE Of(f, k) ==
      \/ f = "cpu_max" /\ x \in {\hC50A + 3 * k, \hC531 + 3 * k}
      \/ f = "gpu_max" /\ x \in {\hC50A + 3 * k + 1, \hC531 + 3 * k + 1}
      \/ f = "pwm1" /\ x = \hC50A + 3 * k + 2
      \/ f = "pwm2" /\ x = \hC531 + 3 * k + 2
<1>2. Of(a, i) /\ Of(b, j)
  BY Legion2024Written
<1> QED
  BY <1>1, <1>2

(* The WMI method has the speeds of one fan only.                          *)
LEMMA WmiSeparate ==
  ASSUME NEW c, c.fancurve = "WMI3"
  PROVE  Separate(c)
<1>1. \A a, i : WrittenTo(c, a, i) = WrittenWmi(c, a, i)
  BY DEF WrittenTo
<1> QED
  BY <1>1 DEF Separate, WrittenWmi, WmiTable, Points

(***************************************************************************)
(* What every layout has: where its cells are, which copy is read, and that *)
(* no two cells are read at one address.                                   *)
(***************************************************************************)

(* A configuration whose method is used with registers that it is for.     *)
HasLayout(c) ==
  \/ c.fancurve = "EC" /\ c.registers \in EcRegisters
  \/ c.fancurve = "EC2" /\ c.registers = ideapad_v0
  \/ c.fancurve = "EC3" /\ c.registers \in LoqRegisters
  \/ c.fancurve = "EC4"
  \/ c.fancurve = "WMI3"

(* No layout writes two cells to one address.                              *)
LEMMA LayoutSeparate ==
  ASSUME NEW c, HasLayout(c)
  PROVE  Separate(c)
  BY EcSeparate, IdeapadSeparate, LoqSeparate, Legion2024Separate, WmiSeparate
     DEF HasLayout

(* The addresses between which each layout keeps its cells.                *)
IsWritten(c, x) ==
  /\ x \in Int
  /\ c.fancurve = "EC" => \hC540 <= x /\ x <= \hC5D9
  /\ c.fancurve = "EC2" => \hC550 <= x /\ x <= \hC5DF
  /\ c.fancurve = "EC3" => \hCF00 <= x /\ x <= \hCFAF
  /\ c.fancurve = "EC4" => \hC50A <= x /\ x <= \hC54E
  /\ c.fancurve = "WMI3" => WmiTable <= x /\ x < WmiTableLength

(* No cell is outside of them.                                             *)
LEMMA WrittenRegion ==
  ASSUME NEW c, HasLayout(c), NEW a \in PointFiles, NEW i \in Points,
         NEW x \in WrittenTo(c, a, i)
  PROVE  IsWritten(c, x)
<1>0. i \in 0..9
  BY DEF Points, MAXFANCURVESIZE
<1>1. CASE c.fancurve = "EC" /\ c.registers \in EcRegisters
  <2>1. x = Base(c, a) + i
    BY <1>1 DEF WrittenTo, WrittenEc
  <2> QED
    BY <1>0, <1>1, <2>1, EcBases, PointFileCases DEF IsWritten
<1>2. CASE c.fancurve = "EC2" /\ c.registers = ideapad_v0
  <2>1. x \in WrittenIdeapad(c, a, i)
    BY <1>2 DEF WrittenTo
  <2>2. /\ a \notin Ramps \cup {"ic_max", "ic_min"} /\ ~(i >= 8)
        /\ x \in {Base(c, a) + i, Base(c, a) + 8 + i}
    BY <2>1 DEF WrittenIdeapad, FANCURVESIZE_IDEAPAD
  <2>3. a \in {"pwm1", "pwm2", "cpu_max", "gpu_max", "cpu_min", "gpu_min"}
    BY <2>2, PointFileCases DEF Ramps
  <2> QED
    BY <1>0, <1>2, <2>2, <2>3, IdeapadBases DEF IsWritten
<1>3. CASE c.fancurve = "EC3" /\ c.registers \in LoqRegisters
  <2>1. x = Base(c, a) + 6 * i /\ a \notin Ramps
    BY <1>3 DEF WrittenTo, WrittenLoq
  <2> QED
    BY <1>0, <1>3, <2>1, LoqBases, PointFileCases DEF IsWritten, Ramps
<1>4. CASE c.fancurve = "EC4"
  BY <1>0, <1>4, Legion2024Written DEF IsWritten
<1>5. CASE c.fancurve = "WMI3"
  BY <1>0, <1>5 DEF IsWritten, WrittenTo, WrittenWmi, WmiTable, WmiTableLength,
                    MAXFANCURVESIZE
<1> QED
  BY <1>1, <1>2, <1>3, <1>4, <1>5 DEF HasLayout

(* The first copy of a cell is one of its copies; LOQ machines have one only. *)
LEMMA FirstCopy ==
  ASSUME NEW c, HasLayout(c), NEW a \in PointFiles, NEW i \in Points,
         WrittenTo(c, a, i) # {}
  PROVE  /\ Min(WrittenTo(c, a, i)) \in WrittenTo(c, a, i)
         /\ c.fancurve = "EC3" =>
              \A x \in WrittenTo(c, a, i) : x = Min(WrittenTo(c, a, i))
<1> DEFINE W == WrittenTo(c, a, i)
<1>1. \A x \in W : x \in Int
  BY WrittenRegion DEF IsWritten
<1> DEFINE Goal == /\ Min(W) \in W
                   /\ c.fancurve = "EC3" => \A x \in W : x = Min(W)
<1>2. \A y : W = {y} => Goal
  BY <1>1, MinOne
<1>3. \A y, z : c.fancurve # "EC3" /\ W = {y, z} => Goal
  <2> SUFFICES ASSUME NEW y, NEW z, W = {y, z} PROVE Min(W) \in W
    OBVIOUS
  <2> QED
    BY <1>1, MinTwo
<1>4. Goal
  <2> HIDE DEF Goal
  <2>1. CASE c.fancurve = "EC"
    BY <1>2, <2>1 DEF WrittenTo, WrittenEc
  <2>2. CASE c.fancurve = "EC2"
    <3>1. W = WrittenIdeapad(c, a, i)
      BY <2>2 DEF WrittenTo
    <3>2. W = {Base(c, a) + i} \/ W = {Base(c, a) + i, Base(c, a) + 8 + i}
      BY <3>1 DEF WrittenIdeapad
    <3>3. CASE W = {Base(c, a) + i}
      BY <1>2, <3>3
    <3>4. CASE W = {Base(c, a) + i, Base(c, a) + 8 + i}
      <4> HIDE DEF W
      <4> QED
        BY <1>3, <2>2, <3>4
    <3> QED
      BY <3>2, <3>3, <3>4
  <2>3. CASE c.fancurve = "EC3"
    BY <1>2, <2>3 DEF WrittenTo, WrittenLoq
  <2>4. CASE c.fancurve = "EC4"
    <3> DEFINE x == \hC50A + 3 * i
               y == \hC531 + 3 * i
               x1 == \hC50A + 3 * i + 1
               y1 == \hC531 + 3 * i + 1
               x2 == \hC50A + 3 * i + 2
               y2 == \hC531 + 3 * i + 2
    <3>1. W = {x, y} \/ W = {x1, y1} \/ W = {x2} \/ W = {y2}
      BY <2>4, Legion2024Written
    <3> HIDE DEF x, y, x1, y1, x2, y2, W
    <3> QED
      BY <1>2, <1>3, <2>4, <3>1
  <2>5. CASE c.fancurve = "WMI3"
    BY <1>2, <2>5 DEF WrittenTo, WrittenWmi
  <2> QED
    BY <2>1, <2>2, <2>3, <2>4, <2>5 DEF HasLayout
<1> QED
  BY <1>4

(* The addresses between which the readers look.                           *)
IsRead(c, x) ==
  IF c.fancurve = "EC3"
    THEN /\ x \in Int
         /\ \/ \hC507 <= x /\ x <= \hC557
            \/ \hCF78 <= x /\ x <= \hCFAF
    ELSE IsWritten(c, x)

(* No cell is read outside of them.                                        *)
LEMMA ReadRegion ==
  ASSUME NEW c, HasLayout(c), NEW a \in PointFiles, NEW i \in Points,
         WrittenTo(c, a, i) # {}
  PROVE  IsRead(c, ReadAt(c, a, i))
<1>1. CASE c.fancurve # "EC3"
  BY <1>1, FirstCopy, WrittenRegion DEF ReadAt, IsRead
<1>2. CASE c.fancurve = "EC3"
  <2>0. i \in 0..9
    BY DEF Points, MAXFANCURVESIZE
  <2>1. c.registers \in LoqRegisters /\ a \notin Ramps
    BY <1>2 DEF HasLayout, WrittenTo, WrittenLoq
  <2>2. ReadAt(c, a, i) = ReadLoq(c, a, i)
    BY <1>2 DEF ReadAt
  <2>3. \/ a = "pwm1" /\ ReadLoq(c, a, i) = \hC509 + 3 * i
        \/ a = "cpu_max" /\ ReadLoq(c, a, i) = \hC509 + 3 * i - 1
        \/ a = "cpu_min" /\ ReadLoq(c, a, i) = \hC509 + 3 * i - 2
        \/ \E b \in {\hC530, \hC53C} :
             \/ a = "pwm2" /\ ReadLoq(c, a, i) = b + 3 * i
             \/ a = "gpu_max" /\ ReadLoq(c, a, i) = b + 3 * i - 1
             \/ a = "gpu_min" /\ ReadLoq(c, a, i) = b + 3 * i - 2
        \/ a = "ic_max" /\ ReadLoq(c, a, i) = \hCF79 + 6 * i
        \/ a = "ic_min" /\ ReadLoq(c, a, i) = \hCF78 + 6 * i
    BY <2>1, LoqBases, PointFileCases DEF ReadLoq, Ramps
  <2> QED
    BY <1>2, <2>0, <2>2, <2>3 DEF IsRead
<1> QED
  BY <1>1, <1>2

(* No two cells are read at one address.                                   *)
LEMMA ReadSeparate ==
  ASSUME NEW c, HasLayout(c),
         NEW a \in PointFiles, NEW i \in Points, WrittenTo(c, a, i) # {},
         NEW b \in PointFiles, NEW j \in Points, WrittenTo(c, b, j) # {},
         ReadAt(c, a, i) = ReadAt(c, b, j)
  PROVE  a = b /\ i = j
<1>1. CASE c.fancurve # "EC3"
  <2>1. ReadAt(c, a, i) \in WrittenTo(c, a, i) \cap WrittenTo(c, b, j)
    BY <1>1, FirstCopy DEF ReadAt
  <2> QED
    BY <2>1, LayoutSeparate DEF Separate
<1>2. CASE c.fancurve = "EC3"
  <2>0. i \in 0..9 /\ j \in 0..9
    BY DEF Points, MAXFANCURVESIZE
  <2>1. c.registers \in LoqRegisters /\ a \notin Ramps /\ b \notin Ramps
    BY <1>2 DEF HasLayout, WrittenTo, WrittenLoq
  <2>2. ReadLoq(c, a, i) = ReadLoq(c, b, j)
    BY <1>2 DEF ReadAt
  <2>4. PICK base \in {\hC530, \hC53C} : base = c.registers.FAN2_RPM_LSB
    BY <2>1, LoqBases
  <2> DEFINE Of(f, k) ==
        \/ f = "pwm1" /\ ReadLoq(c, f, k) = \hC509 + 3 * k
        \/ f = "cpu_max" /\ ReadLoq(c, f, k) = \hC509 + 3 * k - 1
        \/ f = "cpu_min" /\ ReadLoq(c, f, k) = \hC509 + 3 * k - 2
        \/ f = "pwm2" /\ ReadLoq(c, f, k) = base + 3 * k
        \/ f = "gpu_max" /\ ReadLoq(c, f, k) = base + 3 * k - 1
        \/ f = "gpu_min" /\ ReadLoq(c, f, k) = base + 3 * k - 2
        \/ f = "ic_max" /\ ReadLoq(c, f, k) = \hCF79 + 6 * k
        \/ f = "ic_min" /\ ReadLoq(c, f, k) = \hCF78 + 6 * k
  <2>5. Of(a, i) /\ Of(b, j)
    BY <2>1, <2>4, LoqBases, PointFileCases DEF ReadLoq, Ramps
  <2> QED
    BY <2>0, <2>2, <2>5
<1> QED
  BY <1>1, <1>2

(***************************************************************************)
(* The tables of FanRegisters hold what the layouts say.                   *)
(***************************************************************************)

(* Every machine of the model has a layout; full speed is set by the layout's *)
(* method or by WMI.                                                       *)
LEMMA MachineLayout ==
  ASSUME NEW n \in Machines
  PROVE  /\ HasLayout(model[n])
         /\ model[n].registers \in {v0, v1, rzcn, ideapad_v0, loq_v0, loq_v1}
         /\ model[n].fanfullspeed # "EC"
         /\ model[n].fanfullspeed = "EC4" <=> model[n].fancurve = "EC4"
  BY EveryModelFits, MachinesAssumption
     DEF IsConf, Fits, HasLayout, EcRegisters, LoqRegisters

(* The cells that the layout of n keeps, and where they are.               *)
Kept(n) == {p \in PointFiles \X Points : IsKept(n, p[1], p[2])}
WriteOf(n, p) == WriteCell[n][p[2]][p[1]]
ReadOf(n, p) == ReadCell[n][p[2]][p[1]]

(* What the tables of addresses hold.                                      *)
LEMMA CellTables ==
  ASSUME NEW n \in Machines, NEW a \in PointFiles, NEW i \in Points
  PROVE  /\ ReadCell[n][i][a] =
              IF IsKept(n, a, i) THEN ReadAt(model[n], a, i) ELSE NotKept
         /\ WriteCell[n][i][a] =
              IF IsKept(n, a, i) THEN Min(WrittenTo(model[n], a, i)) ELSE NotKept
  BY DEF ReadCell, WriteCell, Table

(* WrittenBy and WriteCell are inverse to each other on the first copies.  *)
LEMMA WrittenCells ==
  ASSUME NEW n \in Machines
  PROVE  /\ \A x \in DOMAIN WrittenBy[n] :
              /\ WrittenBy[n][x] \in Kept(n)
              /\ IsWritten(model[n], x)
              /\ model[n].fancurve = "EC3" => WriteOf(n, WrittenBy[n][x]) = x
         /\ \A p \in Kept(n) : /\ WriteOf(n, p) \in DOMAIN WrittenBy[n]
                               /\ WrittenBy[n][WriteOf(n, p)] = p
                               /\ WriteOf(n, p) # NotKept
<1> DEFINE c == model[n]
           W(p) == WrittenTo(c, p[1], p[2])
           Domain == UNION {W(p) : p \in Kept(n)}
<1>0. HasLayout(c)
  BY MachineLayout
<1>1. /\ DOMAIN WrittenBy[n] = Domain
      /\ \A x \in Domain : WrittenBy[n][x] = CHOOSE p \in Kept(n) : x \in W(p)
  BY DEF WrittenBy, Table, Kept
<1>2. \A p \in Kept(n) : /\ p \in PointFiles \X Points /\ p = <<p[1], p[2]>>
                         /\ p[1] \in PointFiles /\ p[2] \in Points
                         /\ W(p) # {} /\ IsKept(n, p[1], p[2])
  BY DEF Kept, IsKept
<1>3. \A p \in Kept(n) : \A x \in W(p) : IsWritten(c, x)
  BY <1>0, <1>2, WrittenRegion
<1>4. \A p, q \in Kept(n) : \A x : x \in W(p) /\ x \in W(q) => p = q
  <2> SUFFICES ASSUME NEW p \in Kept(n), NEW q \in Kept(n), NEW x,
                      x \in W(p), x \in W(q)
               PROVE  p = q
    OBVIOUS
  <2>1. p[1] = q[1] /\ p[2] = q[2]
    BY <1>0, <1>2, LayoutSeparate DEF Separate
  <2> QED
    BY <1>2, <2>1
<1>5. \A p \in Kept(n) : /\ WriteOf(n, p) = Min(W(p))
                         /\ Min(W(p)) \in W(p)
                         /\ c.fancurve = "EC3" => \A x \in W(p) : x = Min(W(p))
  <2> SUFFICES ASSUME NEW p \in Kept(n)
               PROVE  /\ WriteOf(n, p) = Min(W(p))
                      /\ Min(W(p)) \in W(p)
                      /\ c.fancurve = "EC3" => \A x \in W(p) : x = Min(W(p))
    OBVIOUS
  <2>1. WriteOf(n, p) = Min(W(p))
    BY <1>2, CellTables DEF WriteOf
  <2>2. /\ Min(W(p)) \in W(p)
        /\ c.fancurve = "EC3" => \A x \in W(p) : x = Min(W(p))
    BY <1>0, <1>2, FirstCopy
  <2> QED
    BY <2>1, <2>2
<1> HIDE DEF W
<1>6. \A x \in Domain : WrittenBy[n][x] \in Kept(n) /\ x \in W(WrittenBy[n][x])
  BY <1>1
<1>7. \A p \in Kept(n) : \A x \in W(p) : x \in Domain /\ WrittenBy[n][x] = p
  BY <1>4, <1>6
<1>8. \A x \in Int : IsWritten(c, x) => x # NotKept
  BY <1>0 DEF HasLayout, IsWritten, NotKept, WmiTable
<1> HIDE DEF Domain
<1> QED
  BY <1>1, <1>3, <1>5, <1>6, <1>7, <1>8 DEF IsWritten

(* ReadBy and ReadCell are inverse to each other; but for LOQ machines the *)
(* cell that is read is the first copy that is written.                    *)
LEMMA ReadCells ==
  ASSUME NEW n \in Machines
  PROVE  /\ \A x \in DOMAIN ReadBy[n] :
              /\ ReadBy[n][x] \in Kept(n)
              /\ IsRead(model[n], x)
              /\ ReadOf(n, ReadBy[n][x]) = x
         /\ \A p \in Kept(n) : /\ ReadOf(n, p) \in DOMAIN ReadBy[n]
                               /\ ReadBy[n][ReadOf(n, p)] = p
                               /\ ReadOf(n, p) # NotKept
                               /\ model[n].fancurve # "EC3"
                                    => ReadOf(n, p) = WriteOf(n, p)
<1> DEFINE c == model[n]
           R(p) == ReadOf(n, p)
           Domain == {R(p) : p \in Kept(n)}
<1>0. HasLayout(c)
  BY MachineLayout
<1>1. /\ DOMAIN ReadBy[n] = Domain
      /\ \A x \in Domain : ReadBy[n][x] = CHOOSE p \in Kept(n) : x = R(p)
  BY DEF ReadBy, Table, Kept, ReadOf
<1>2. \A p \in Kept(n) : /\ p \in PointFiles \X Points /\ p = <<p[1], p[2]>>
                         /\ p[1] \in PointFiles /\ p[2] \in Points
                         /\ WrittenTo(c, p[1], p[2]) # {}
                         /\ IsKept(n, p[1], p[2])
  BY DEF Kept, IsKept
<1>3. \A p \in Kept(n) : R(p) = ReadAt(c, p[1], p[2])
  BY <1>2, CellTables DEF ReadOf
<1>4. \A p \in Kept(n) : IsRead(c, R(p))
  BY <1>0, <1>2, <1>3, ReadRegion
<1>5. \A p, q \in Kept(n) : R(p) = R(q) => p = q
  <2> SUFFICES ASSUME NEW p \in Kept(n), NEW q \in Kept(n), R(p) = R(q)
               PROVE  p = q
    OBVIOUS
  <2>1. p[1] = q[1] /\ p[2] = q[2]
    BY <1>0, <1>2, <1>3, ReadSeparate
  <2> QED
    BY <1>2, <2>1
<1>6. \A p \in Kept(n) : c.fancurve # "EC3" => R(p) = WriteOf(n, p)
  BY <1>2, CellTables DEF ReadOf, WriteOf, ReadAt
<1>7. \A x : IsRead(c, x) => x # NotKept
  BY <1>0 DEF HasLayout, IsRead, IsWritten, NotKept, WmiTable
<1> HIDE DEF R
<1>8. \A x \in Domain : ReadBy[n][x] \in Kept(n) /\ x = R(ReadBy[n][x])
  BY <1>1
<1>9. \A p \in Kept(n) : R(p) \in Domain /\ ReadBy[n][R(p)] = p
  BY <1>5, <1>8
<1> HIDE DEF Domain
<1>10. /\ \A x \in DOMAIN ReadBy[n] :
            ReadBy[n][x] \in Kept(n) /\ IsRead(c, x) /\ R(ReadBy[n][x]) = x
       /\ \A p \in Kept(n) : /\ R(p) \in DOMAIN ReadBy[n]
                             /\ ReadBy[n][R(p)] = p
                             /\ R(p) # NotKept
                             /\ c.fancurve # "EC3" => R(p) = WriteOf(n, p)
  BY <1>1, <1>4, <1>6, <1>7, <1>8, <1>9
<1> QED
  BY <1>10 DEF R

(* A cell that is not kept has no address.                                 *)
LEMMA OtherCells ==
  ASSUME NEW n \in Machines, NEW a \in PointFiles, NEW i \in Points,
         <<a, i>> \notin Kept(n)
  PROVE  ReadCell[n][i][a] = NotKept /\ WriteCell[n][i][a] = NotKept
<1>1. ~IsKept(n, a, i)
  BY DEF Kept
<1> QED
  BY <1>1, CellTables

(* The registers of the controls: one of five addresses, of which the command *)
(* byte of LOQ machines is used by one layout and never by theirs; minifancurve *)
(* is never a WMI method.                                                  *)
LEMMA ControlRegisters ==
  ASSUME NEW n \in Machines, NEW f \in Controls
  PROVE  LET x == ControlRegister(model[n], f) IN
         /\ x \in {\hC536, \hC4AB, \hC5A0, WmiFullSpeed, LOQ_CMDR_ADDR}
         /\ x = LOQ_CMDR_ADDR <=> model[n].fancurve = "EC4" /\ f = "fan_fullspeed"
         /\ model[n].fancurve = "EC3" => x \in {\hC5A0, WmiFullSpeed}
         /\ f = "minifancurve" => x # WmiFullSpeed
<1> DEFINE c == model[n]
           m == c.registers.MINIFANCURVE
           l == c.registers.LOCKFANCONTROLLER
<1>1. c.registers \in {v0, v1, rzcn, ideapad_v0, loq_v0, loq_v1}
  BY MachineLayout
<1>2. c.fancurve = "EC3" => c.registers \in {loq_v0, loq_v1}
  BY MachineLayout DEF HasLayout, LoqRegisters
<1>3. v0.MINIFANCURVE = \hC536 /\ v0.LOCKFANCONTROLLER = \hC4AB
  BY DEF v0
<1>4. v1.MINIFANCURVE = \hC536 /\ v1.LOCKFANCONTROLLER = \hC4AB
  BY DEF v1, v0
<1>5. rzcn.MINIFANCURVE = \hC536 /\ rzcn.LOCKFANCONTROLLER = \hC4AB
  BY DEF rzcn, v0
<1>6. "MINIFANCURVE" \in DOMAIN v0 /\ "LOCKFANCONTROLLER" \in DOMAIN v0
  BY DEF v0
<1>7. ideapad_v0.MINIFANCURVE = \hC5A0 /\ ideapad_v0.LOCKFANCONTROLLER = \hC5A0
  BY <1>6, UnknownRegisters DEF ideapad_v0, NotFound
<1>8. loq_v0.MINIFANCURVE = \hC5A0 /\ loq_v0.LOCKFANCONTROLLER = \hC5A0
  BY <1>6, UnknownRegisters DEF loq_v0, NotFound
<1>9. loq_v1.MINIFANCURVE = \hC5A0 /\ loq_v1.LOCKFANCONTROLLER = \hC5A0
  BY <1>6, UnknownRegisters DEF loq_v1, loq_v0, NotFound
<1>10. /\ m \in {\hC536, \hC5A0} /\ l \in {\hC4AB, \hC5A0}
       /\ c.fancurve = "EC3" => m = \hC5A0 /\ l = \hC5A0
  BY <1>1, <1>2, <1>3, <1>4, <1>5, <1>7, <1>8, <1>9
<1>11. c.fanfullspeed # "EC" /\ (c.fanfullspeed = "EC4" <=> c.fancurve = "EC4")
  BY MachineLayout
<1>12. WmiFullSpeed = 65547 /\ LOQ_CMDR_ADDR = \hCFB6
       /\ EC4_FANFULLSPEED_REG = LOQ_CMDR_ADDR
  BY DEF WmiFullSpeed, WmiTableLength, WmiTable, MAXFANCURVESIZE, EC4_FANFULLSPEED_REG,
         LOQ_CMDR_ADDR
<1>13. CASE f = "minifancurve"
  BY <1>10, <1>12, <1>13 DEF ControlRegister
<1>14. CASE f = "lockfancontroller"
  BY <1>10, <1>12, <1>14 DEF ControlRegister
<1>15. CASE f = "fan_fullspeed"
  BY <1>11, <1>12, <1>15 DEF ControlRegister
<1> QED
  BY <1>13, <1>14, <1>15 DEF Controls

(***************************************************************************)
(* Registers beside the table, and the values written to them.             *)
(***************************************************************************)

(* Counters, the sizes and the command byte are no cells of the table, and no *)
(* control has its register there; a control register that is read as a cell *)
(* is written as one too.                                                  *)
LEMMA SpecialAddresses ==
  ASSUME NEW n \in Machines
  PROVE  /\ \A x \in Counters(model[n])
                      \cup {SizeRegister(n), WmiTableLength, LOQ_CMDR_ADDR} :
              x \notin DOMAIN WrittenBy[n] /\ x \notin DOMAIN ReadBy[n]
         /\ \A x \in {SizeRegister(n), WmiTableLength, LOQ_CMDR_ADDR} :
              x \notin Counters(model[n])
         /\ LOQ_CMDR_ADDR \notin {SizeRegister(n), WmiTableLength}
         /\ \A f \in Controls :
              /\ ControlRegister(model[n], f) \notin
                   Counters(model[n]) \cup {SizeRegister(n), WmiTableLength}
              /\ ControlRegister(model[n], f) \in DOMAIN ReadBy[n]
                   => /\ model[n].fancurve # "EC3"
                      /\ ControlRegister(model[n], f) \in DOMAIN WrittenBy[n]
<1> DEFINE c == model[n]
           Special == Counters(c) \cup {SizeRegister(n), WmiTableLength, LOQ_CMDR_ADDR}
<1>0. HasLayout(c)
  BY MachineLayout
<1>1. c.fancurve = "EC" =>
        c.registers.CUR_POINT = \hC534 /\ c.registers.POINTS_SIZE = \hC535
  BY <1>0 DEF HasLayout, EcRegisters, v0, v1
<1>2. /\ WmiTableLength = 65546 /\ LOQ_CMDR_ADDR = \hCFB6 /\ WmiTable = 65536
      /\ WmiFullSpeed = 65547
  BY DEF WmiFullSpeed, WmiTableLength, WmiTable, LOQ_CMDR_ADDR, MAXFANCURVESIZE
<1>3. /\ c.fancurve = "EC" => Counters(c) = {\hC5FE, \hC5FF, \hC634, \hC635, \hC636, \hC534}
      /\ c.fancurve = "EC2" => Counters(c) = {\hC5FE, \hC5FF}
      /\ c.fancurve \notin {"EC", "EC2"} => Counters(c) = {}
  BY <1>1 DEF Counters
<1>4. SizeRegister(n) = IF c.fancurve = "EC" THEN \hC535 ELSE WmiTableLength
  BY <1>1 DEF SizeRegister
<1>5. \A x \in Special : ~IsWritten(c, x) /\ ~IsRead(c, x)
  BY <1>0, <1>2, <1>3, <1>4 DEF IsRead, IsWritten, HasLayout
<1>6. \A x \in Special : x \notin DOMAIN WrittenBy[n] /\ x \notin DOMAIN ReadBy[n]
  BY <1>5, WrittenCells, ReadCells
<1>7. \A x \in {SizeRegister(n), WmiTableLength, LOQ_CMDR_ADDR} : x \notin Counters(c)
  BY <1>2, <1>3, <1>4
<1>8. LOQ_CMDR_ADDR \notin {SizeRegister(n), WmiTableLength}
  BY <1>2, <1>4
<1>9. ASSUME NEW f \in Controls
      PROVE  /\ ControlRegister(c, f)
                   \notin Counters(c) \cup {SizeRegister(n), WmiTableLength}
             /\ c.fancurve = "EC3" => ~IsRead(c, ControlRegister(c, f))
  <2> DEFINE x == ControlRegister(c, f)
  <2>1. /\ x \in {\hC536, \hC4AB, \hC5A0, WmiFullSpeed, LOQ_CMDR_ADDR}
        /\ c.fancurve = "EC3" => x \in {\hC5A0, WmiFullSpeed}
    BY ControlRegisters
  <2> HIDE DEF x
  <2>2. x \notin Counters(c) \cup {SizeRegister(n), WmiTableLength}
    BY <1>2, <1>3, <1>4, <2>1
  <2>3. c.fancurve = "EC3" => ~IsRead(c, x)
    BY <1>2, <2>1 DEF IsRead
  <2> QED
    BY <2>2, <2>3 DEF x
<1>10. c.fancurve # "EC3" => DOMAIN ReadBy[n] \subseteq DOMAIN WrittenBy[n]
  BY WrittenCells, ReadCells
<1> QED
  BY <1>6, <1>7, <1>8, <1>9, <1>10, ReadCells

(* All of them are addresses of the register file.                         *)
LEMMA AddressesInUse ==
  ASSUME NEW n \in Machines
  PROVE  /\ DOMAIN WrittenBy[n] \subseteq Addresses[n]
         /\ DOMAIN ReadBy[n] \subseteq Addresses[n]
         /\ \A f \in Controls : ControlRegister(model[n], f) \in Addresses[n]
         /\ SizeRegister(n) \in Addresses[n] /\ WmiTableLength \in Addresses[n]
         /\ LOQ_CMDR_ADDR \in Addresses[n]
  BY DEF Addresses

(* A control of its own shares its register with nothing.                  *)
LEMMA OwnRegisters ==
  ASSUME NEW n \in Machines
  PROVE  /\ OwnControls[n] \subseteq Controls
         /\ \A f \in OwnControls[n] :
              /\ ControlRegister(model[n], f) \notin DOMAIN WrittenBy[n]
              /\ ControlRegister(model[n], f) \notin DOMAIN ReadBy[n]
              /\ \A g \in Controls \ {f} :
                   ControlRegister(model[n], f) # ControlRegister(model[n], g)
<1>1. OwnControls[n] = {f \in Controls : HasFile(n, f) /\ ~IsShared(n, f)}
  BY DEF OwnControls
<1> QED
  BY <1>1, SpecialAddresses DEF IsShared

CommandBytes == {\h20, \h21, \h30, \h31}

(* Setting and clearing a bit of the command byte leaves the others alone. *)
LEMMA CommandBits ==
  \A byte \in CommandBytes :
    /\ WithBit(byte, 16, 0) \in CommandBytes /\ Bit(WithBit(byte, 16, 0), 16) = 0
    /\ WithBit(byte, 16, 1) \in CommandBytes /\ Bit(WithBit(byte, 16, 1), 16) = 1
    /\ WithBit(byte, 1, 0) \in CommandBytes /\ WithBit(byte, 1, 1) \in CommandBytes
  BY DEF CommandBytes, WithBit, Bit

(* What is written for a control fits in a byte and reads back as it was.  *)
LEMMA ControlEncoding ==
  ASSUME NEW c, NEW f \in Controls, NEW byte \in 0..255, NEW on \in {0, 1}
  PROVE  /\ Encoded(c, f, byte, on) \in 0..255
         /\ Decoded(c, f, Encoded(c, f, byte, on)) = on
<1>1. WithBit(byte, 1, on) \in 0..255 /\ Bit(WithBit(byte, 1, on), 1) = on
  BY DEF WithBit, Bit
<1>2. CASE f = "minifancurve"
  BY <1>2 DEF Encoded, Decoded
<1>3. CASE f = "lockfancontroller"
  BY <1>3 DEF Encoded, Decoded
<1>4. CASE f = "fan_fullspeed"
  <2>1. CASE c.fanfullspeed = "EC"
    BY <1>4, <2>1 DEF Encoded, Decoded
  <2>2. CASE c.fanfullspeed = "EC4"
    BY <1>1, <1>4, <2>2 DEF Encoded, Decoded
  <2>3. CASE c.fanfullspeed \notin {"EC", "EC4"}
    BY <1>4, <2>3 DEF Encoded, Decoded
  <2> QED
    BY <2>1, <2>2, <2>3
<1> QED
  BY <1>2, <1>3, <1>4 DEF Controls

(* A number limited by b.                                                  *)
LEMMA MinWith ==
  ASSUME NEW x \in Nat, NEW b \in Nat
  PROVE  Min({x, b}) \in 0..b
<1>1. /\ Min({x, b}) \in {x, b} /\ Min({x, b}) <= b
  BY MinTwo
<1> HIDE DEF Min
<1> QED
  BY <1>1

(* No conversion of a pwm value leaves 0..100, in any unit.                *)
LEMMA UnitRange ==
  ASSUME NEW n, NEW pwm \in 0..255
  PROVE  ToUnit(n, pwm) \in 0..100
<1>1. (pwm * 10000 + 25499) \div 25500 \in 0..100
  OBVIOUS
<1>2. (pwm * 100) \div 255 \in 0..100 /\ (pwm * 100 + 127) \div 255 \in 0..100
  OBVIOUS
<1>3. Min({(pwm * 100 + 127) \div 255, 100}) \in 0..100
  <2> DEFINE x == (pwm * 100 + 127) \div 255
  <2>1. x \in Nat
    BY <1>2
  <2> HIDE DEF x
  <2>2. Min({x, 100}) \in 0..100
    BY <2>1, MinWith
  <2> QED
    BY <2>2 DEF x
<1>4. Unit(n) \in {"RPM_HUNDRED", "PERCENT", "PERCENT_NEAREST"}
  <2>1. CASE model[n].fancurve # "WMI3" /\ n # "n2cn"
    BY <2>1 DEF Unit
  <2> QED
    BY DEF Unit
<1> QED
  BY <1>1, <1>2, <1>3, <1>4 DEF ToUnit

(* The machine with a table of speeds only reaches it by WMI.              *)
LEMMA SpeedOnlyModel ==
  model["n2cn"].fancurve = "WMI3" /\ IsSpeedOnly("n2cn")
<1>1. "n2cn" \notin DOMAIN Models1
  BY DEF Models1
<1>2. /\ "n2cn" \in DOMAIN Models2 /\ Models2["n2cn"].fancurve = "WMI3"
      /\ "wmi_fancurve_speed_only" \in Models2["n2cn"].flags
  BY DEF Models2, Model
<1>3. model["n2cn"] = Models2["n2cn"]
  BY <1>1, <1>2 DEF model, Joined
<1> QED
  BY <1>2, <1>3 DEF IsSpeedOnly

(* The size that a reader finds is the number of points at most.           *)
LEMMA CurveSizeRange ==
  ASSUME NEW n \in Machines, NEW m \in [Addresses[n] -> 0..255]
  PROVE  CurveSize(n, m) \in 0..MAXFANCURVESIZE
<1> DEFINE s == m[model[n].registers.POINTS_SIZE]
           w == m[WmiTableLength]
<1>1. model[n].fancurve = "EC" => s \in 0..255
  BY AddressesInUse DEF SizeRegister
<1>2. w \in 0..255
  BY AddressesInUse
<1> HIDE DEF s, w
<1>3. \A x \in 0..255 : Min({x, 10}) \in 0..10
  BY MinWith
<1>4. CASE model[n].fancurve = "EC"
  <2>1. CurveSize(n, m) = Min({s, 10})
    BY <1>4, SpeedOnlyModel DEF CurveSize, MAXFANCURVESIZE, s
  <2>2. Min({s, 10}) \in 0..10
    BY <1>1, <1>3, <1>4
  <2> QED
    BY <2>1, <2>2, Zenon DEF MAXFANCURVESIZE
<1>5. CASE model[n].fancurve = "EC2"
  BY <1>5, SpeedOnlyModel DEF CurveSize, MAXFANCURVESIZE, FANCURVESIZE_IDEAPAD
<1>6. CASE model[n].fancurve \notin {"EC", "EC2"} /\ n = "n2cn"
  <2>1. CurveSize(n, m) = Min({w, 10})
    BY <1>6 DEF CurveSize, MAXFANCURVESIZE, w
  <2>2. Min({w, 10}) \in 0..10
    BY <1>2, <1>3
  <2> QED
    BY <2>1, <2>2, Zenon DEF MAXFANCURVESIZE
<1>7. CASE model[n].fancurve \notin {"EC", "EC2"} /\ n # "n2cn"
  BY <1>7 DEF CurveSize, MAXFANCURVESIZE
<1> QED
  BY <1>4, <1>5, <1>6, <1>7

(***************************************************************************)
(* The inductive invariant.  RegInv is about the driver and its registers and *)
(* says what holds during a store too: the register file and the local curve *)
(* differ from what is meant only in lost cells and in the one being stored *)
(* to.  InvWriter says where the writer is.                                *)
(***************************************************************************)

CurveFiles == PointFiles \cup {"size"}
AllPoints == PointFiles \X Points
IsTableStore == store.file \in CurveFiles
At(points, p) == points[p[2]][p[1]]

(* A store that machine n accepts.                                         *)
IsRequest(n, r) ==
  /\ r.file \in CurveFiles \cup Controls
  /\ r.point \in Points
  /\ r.file \in Speeds => r.value \in 0..255
  /\ r.file \in Temps => r.value \in 0..127
  /\ r.file \in Ramps => r.value \in 2..5
  /\ r.file = "size" => r.value \in 1..MAXFANCURVESIZE
  /\ r.file \in Controls => r.value \in {0, 1}
  /\ n = "n2cn" => r.file \in Controls \cup {"pwm1"}

(* Bytes are bytes, and a store in progress is one that was accepted.      *)
InvTypes ==
  /\ machine \in Machines
  /\ ram \in [Addresses[machine] -> 0..255]
  /\ ram[LOQ_CMDR_ADDR] \in CommandBytes
  /\ lost \subseteq AllPoints
  /\ meant = [points |-> meant.points, controls |-> meant.controls]
  /\ store # NoStore => IsRequest(machine, store)
  /\ IsTableStore =>
       fancurve \in [size : 0..MAXFANCURVESIZE,
                     points : [Points -> [PointFiles -> 0..255]]]

(* The controls always show what is meant.                                 *)
InvControls ==
  meant.controls =
    [f \in OwnControls[machine] |-> ShownControl(machine, ram, f)]

(* The cell being stored to: it is taken off the lost ones already, but a table *)
(* reached by WMI may yet refuse it.                                       *)
InStore(p) == conf.fancurve # "WMI3" /\ p = <<store.file, store.point>>

(* The other cells show what is meant, unless they are lost.               *)
InvShown ==
  \A p \in AllPoints :
    \/ At(ShownPoints(machine, ram), p) = At(meant.points, p)
    \/ p \in lost \/ InStore(p)

(* Copies agree.                                                           *)
InvCopies ==
  \A x \in DOMAIN WrittenBy[machine] :
    LET p == WrittenBy[machine][x] IN
    ram[x] = ram[WriteOf(machine, p)] \/ p \in lost \/ InStore(p)

(* Nothing is ever lost in a table reached by WMI.                         *)
InvLost == conf.fancurve = "WMI3" => lost = {}

(* The table of the machine whose table has a length is empty beyond it.   *)
InvBeyond ==
  machine = "n2cn" =>
    \A p \in Kept(machine) :
      p[2] >= CurveSize(machine, ram) => ram[ReadOf(machine, p)] = 0

(* What the writer of the layout is going to write to a cell.              *)
StoredCell(p) ==
  IF conf.fancurve = "EC" /\ p[2] >= fancurve.size THEN 0 ELSE At(fancurve.points, p)

(* That is what is meant, unless the cell is lost.                         *)
InvStore ==
  IsTableStore =>
    /\ \A p \in Kept(machine) : StoredCell(p) = At(intended, p) \/ p \in lost
    /\ \A p \in AllPoints \ Kept(machine) : At(intended, p) = 0
    /\ machine = "n2cn" =>
         \A p \in Kept(machine) :
           p[2] >= CurveSize(machine, ram) => At(fancurve.points, p) = 0

(* A control whose register is a cell of the table spoils that cell.       *)
InvShared ==
  store.file \in Controls =>
    LET x == ControlRegister(conf, store.file) IN
    x \in DOMAIN WrittenBy[machine] => WrittenBy[machine][x] \in lost

RegInv ==
  /\ InvTypes /\ InvControls /\ InvShown /\ InvCopies
  /\ InvLost /\ InvBeyond /\ InvStore /\ InvShared

(* Where the writer is, and that a store in progress of its own is its next. *)
InvWriter ==
  /\ Len(entries) \in 0..MAXFANCURVESIZE
  /\ enable_minifancurve \in {0, 1}
  /\ next \in 0..(LastFile + 1)
  /\ phase \in {"idle", "writing", "done", "failed"}
  /\ phase = "writing" => next <= LastFile
  /\ store # NoStore /\ store.by = "writer" => phase = "writing"

IInv == RegInv /\ InvWriter

(***************************************************************************)
(* What the readers and the setters do to a curve.                         *)
(***************************************************************************)

(* The local curve of a store.                                             *)
CurveTypes == [size : 0..MAXFANCURVESIZE, points : [Points -> [PointFiles -> 0..255]]]

(* Cells are pairs of a file and a point.                                  *)
LEMMA KeptPoints ==
  ASSUME NEW n
  PROVE  /\ Kept(n) \subseteq AllPoints
         /\ \A p \in AllPoints : /\ p[1] \in PointFiles /\ p[2] \in Points
                                 /\ p = <<p[1], p[2]>>
  BY DEF Kept, AllPoints

(* What a cell shows is the byte at its address.                           *)
LEMMA ShownCell ==
  ASSUME NEW n \in Machines, NEW m, NEW p \in AllPoints
  PROVE  At(ShownPoints(n, m), p) =
           IF p \notin Kept(n) THEN 0
           ELSE IF IsPending(n, m) THEN m[WriteOf(n, p)] ELSE m[ReadOf(n, p)]
<1>1. p[1] \in PointFiles /\ p[2] \in Points /\ p = <<p[1], p[2]>>
  BY KeptPoints
<1>2. At(ShownPoints(n, m), p) =
        Content(m, IF IsPending(n, m) THEN WriteOf(n, p) ELSE ReadOf(n, p))
  BY <1>1 DEF At, ShownPoints, WriteOf, ReadOf
<1>3. CASE p \in Kept(n)
  BY <1>2, <1>3, WrittenCells, ReadCells DEF Content
<1>4. CASE p \notin Kept(n)
  BY <1>1, <1>2, <1>4, OtherCells DEF Content, ReadOf, WriteOf, NotKept
<1> QED
  BY <1>3, <1>4

(* The readers return the bytes of the table, and its size.                *)
LEMMA ReadCurveCells ==
  ASSUME NEW n \in Machines, NEW m \in [Addresses[n] -> 0..255], NEW junk \in {0, 1},
         n = "n2cn" =>
           \A p \in Kept(n) : p[2] >= CurveSize(n, m) => m[ReadOf(n, p)] = 0
  PROVE  /\ ReadCurve(n, m, junk) \in CurveTypes
         /\ ReadCurve(n, m, junk).size = CurveSize(n, m)
         /\ \A p \in Kept(n) : At(ReadCurve(n, m, junk).points, p) = m[ReadOf(n, p)]
<1> DEFINE rc == ReadCurve(n, m, junk)
           length == CurveSize(n, m)
           Read(i, a) == Content(m, ReadCell[n][i][a])
           Row(i) == IF IsUnset(n, i) THEN [a \in PointFiles |-> junk]
                     ELSE IF n = "n2cn" /\ i >= length THEN [a \in PointFiles |-> 0]
                     ELSE [a \in PointFiles |-> Read(i, a)]
<1>1. rc = [size |-> length, points |-> [i \in Points |-> Row(i)]]
  BY DEF ReadCurve
<1>2. \A i \in Points, a \in PointFiles : Read(i, a) \in 0..255
  <2> SUFFICES ASSUME NEW i \in Points, NEW a \in PointFiles
               PROVE  Read(i, a) \in 0..255
    OBVIOUS
  <2>1. CASE <<a, i>> \in Kept(n)
    <3>1. ReadOf(n, <<a, i>>) \in Addresses[n]
      BY <2>1, ReadCells, AddressesInUse
    <3>2. m[ReadOf(n, <<a, i>>)] \in 0..255
      BY <3>1
    <3>3. ReadOf(n, <<a, i>>) = ReadCell[n][i][a]
      BY DEF ReadOf
    <3>4. Read(i, a) = 0 \/ Read(i, a) = m[ReadOf(n, <<a, i>>)]
      BY <3>3 DEF Content
    <3> HIDE DEF Read
    <3> QED
      BY <3>2, <3>4
  <2>2. CASE <<a, i>> \notin Kept(n)
    <3>1. ReadCell[n][i][a] = NotKept
      BY <2>2, OtherCells
    <3>2. Read(i, a) = 0
      BY <3>1 DEF Content
    <3> QED
      BY <3>2
  <2> QED
    BY <2>1, <2>2
<1> HIDE DEF Read
<1>3. \A i \in Points : Row(i) \in [PointFiles -> 0..255]
  BY <1>2
<1>4. length \in 0..MAXFANCURVESIZE
  BY CurveSizeRange
<1>5. ASSUME NEW p \in Kept(n)
      PROVE  Row(p[2])[p[1]] = m[ReadOf(n, p)]
  <2>1. p \in AllPoints /\ p[1] \in PointFiles /\ p[2] \in Points
    BY KeptPoints
  <2>2. ~IsUnset(n, p[2])
    <3>1. IsKept(n, p[1], p[2])
      BY DEF Kept
    <3> QED
      BY <3>1 DEF IsUnset, IsKept, WrittenTo, WrittenIdeapad
  <2>3. Read(p[2], p[1]) = m[ReadOf(n, p)]
    BY ReadCells DEF Read, Content, ReadOf
  <2> QED
    BY <2>1, <2>2, <2>3
<1> HIDE DEF Row, length
<1>6. rc \in CurveTypes
  BY <1>1, <1>3, <1>4 DEF CurveTypes
<1>7. rc.size = length /\ \A p \in Kept(n) : At(rc.points, p) = m[ReadOf(n, p)]
  BY <1>1, <1>5, KeptPoints DEF At
<1> QED
  BY <1>6, <1>7 DEF length

(* The value stored for a point's file is a byte.                          *)
LEMMA StoredValue ==
  ASSUME NEW n, NEW r, IsRequest(n, r), r.file \in PointFiles
  PROVE  NewValue(n, r) \in 0..255
<1>1. ASSUME r.file \in Speeds PROVE ToUnit(n, r.value) \in 0..255
  <2>1. r.value \in 0..255
    BY <1>1 DEF IsRequest
  <2>2. ToUnit(n, r.value) \in 0..100
    BY <2>1, UnitRange
  <2> QED
    BY <2>2
<1>2. r.file \notin Speeds => r.value \in 0..255
  BY DEF IsRequest, PointFiles
<1> QED
  BY <1>1, <1>2 DEF NewValue

(* The last point of a curve, or the first one if it has none.             *)
LEMMA MaxOf ==
  ASSUME NEW k \in 0..10
  PROVE  Max({k - 1, 0}) \in 0..9
<1> DEFINE x == k - 1
           m == Max({x, 0})
<1>1. x \in Int /\ x <= 9
  OBVIOUS
<1> HIDE DEF x
<1>2. m \in {x, 0} /\ m >= 0
  BY <1>1 DEF Max
<1> HIDE DEF m
<1>3. m \in 0..9
  BY <1>1, <1>2
<1> QED
  BY <1>3 DEF m, x

(* Setting the size changes the last point that is left and those added.   *)
LEMMA SizedCurve ==
  ASSUME NEW fc \in CurveTypes, NEW size \in 1..MAXFANCURVESIZE
  PROVE  /\ SetSize(fc, size) \in CurveTypes
         /\ SetSize(fc, size).size = fc.size
         /\ \A i \in Points, a \in PointFiles :
              i < fc.size \/ i >= size =>
                SetSize(fc, size).points[i][a] =
                  IF size < fc.size /\ i = size - 1 /\ a \in MaxTemps THEN 127
                  ELSE fc.points[i][a]
<1> DEFINE last == Max({fc.size - 1, 0})
           Row(i) == IF size < fc.size /\ i = size - 1
                       THEN [a \in PointFiles |->
                               IF a \in MaxTemps THEN 127 ELSE fc.points[i][a]]
                     ELSE IF i >= fc.size /\ i < size THEN fc.points[last]
                     ELSE fc.points[i]
<1>1. /\ fc.size \in 0..10 /\ size \in 1..10
      /\ fc.points \in [Points -> [PointFiles -> 0..255]]
      /\ fc = [size |-> fc.size, points |-> fc.points]
  BY DEF CurveTypes, MAXFANCURVESIZE
<1>2. SetSize(fc, size) = [size |-> fc.size, points |-> [i \in Points |-> Row(i)]]
  <2>1. SetSize(fc, size) = [fc EXCEPT !.points = [i \in Points |-> Row(i)]]
    BY DEF SetSize
  <2> HIDE DEF Row
  <2> QED
    BY <1>1, <2>1
<1>3. last \in Points
  <2>1. \A k \in 0..10 : Max({k - 1, 0}) \in 0..9
    BY MaxOf
  <2>2. last \in 0..9
    BY <1>1, <2>1
  <2> QED
    BY <2>2 DEF Points, MAXFANCURVESIZE
<1> HIDE DEF last
<1>4. \A i \in Points : Row(i) \in [PointFiles -> 0..255]
  BY <1>1, <1>3
<1>5. \A i \in Points, a \in PointFiles :
        i < fc.size \/ i >= size =>
          Row(i)[a] = IF size < fc.size /\ i = size - 1 /\ a \in MaxTemps THEN 127
                      ELSE fc.points[i][a]
  BY <1>1 DEF Points
<1> HIDE DEF Row
<1> QED
  BY <1>1, <1>2, <1>4, <1>5 DEF CurveTypes, MAXFANCURVESIZE

(* A setter changes the one cell it is for.                                *)
LEMMA ChangedCurve ==
  ASSUME NEW n, NEW r, IsRequest(n, r), r.file \in CurveFiles, NEW fc \in CurveTypes
  PROVE  /\ Changed(n, fc, r) \in CurveTypes
         /\ Changed(n, fc, r).size = fc.size
         /\ \A p \in AllPoints :
              (r.file = "size" => p[2] < fc.size \/ p[2] >= r.value) =>
              At(Changed(n, fc, r).points, p) =
                IF p = <<r.file, r.point>> THEN NewValue(n, r)
                ELSE IF /\ r.file = "size" /\ p[1] \in MaxTemps
                        /\ r.value < fc.size /\ p[2] = r.value - 1 THEN 127
                ELSE At(fc.points, p)
<1>1. CASE r.file = "size"
  <2>1. r.value \in 1..MAXFANCURVESIZE /\ Changed(n, fc, r) = SetSize(fc, r.value)
    BY <1>1 DEF IsRequest, Changed
  <2>2. \A p \in AllPoints : p # <<r.file, r.point>>
    BY <1>1 DEF AllPoints, PointFiles, Speeds, Temps, MaxTemps, Ramps
  <2> DEFINE sized == SetSize(fc, r.value)
  <2>3. sized \in CurveTypes /\ sized.size = fc.size
    BY <2>1, SizedCurve
  <2>4. ASSUME NEW p \in AllPoints, p[2] < fc.size \/ p[2] >= r.value
        PROVE  At(sized.points, p) =
                 IF /\ p[1] \in MaxTemps /\ r.value < fc.size
                    /\ p[2] = r.value - 1 THEN 127
                 ELSE At(fc.points, p)
    <3>1. p[1] \in PointFiles /\ p[2] \in Points
      BY KeptPoints
    <3> QED
      BY <2>1, <2>4, <3>1, SizedCurve DEF At
  <2> HIDE DEF sized
  <2> QED
    BY <1>1, <2>1, <2>2, <2>3, <2>4 DEF sized
<1>2. CASE r.file # "size"
  <2>1. r.file \in PointFiles /\ r.point \in Points /\ NewValue(n, r) \in 0..255
    BY <1>2, StoredValue DEF IsRequest, CurveFiles
  <2>2. /\ fc = [size |-> fc.size, points |-> fc.points]
        /\ fc.size \in 0..MAXFANCURVESIZE
        /\ fc.points \in [Points -> [PointFiles -> 0..255]]
    BY DEF CurveTypes
  <2> DEFINE new == [fc.points EXCEPT ![r.point][r.file] = NewValue(n, r)]
  <2>3. Changed(n, fc, r) = [size |-> fc.size, points |-> new]
    BY <1>2, <2>2 DEF Changed
  <2>4. new \in [Points -> [PointFiles -> 0..255]]
    BY <2>1, <2>2
  <2>5. \A i \in Points, a \in PointFiles :
          new[i][a] = IF a = r.file /\ i = r.point THEN NewValue(n, r) ELSE fc.points[i][a]
    BY <2>1, <2>2
  <2> HIDE DEF new
  <2>6. \A p \in AllPoints : At(new, p) = IF p = <<r.file, r.point>> THEN NewValue(n, r)
                                          ELSE At(fc.points, p)
    BY <2>5, KeptPoints DEF At
  <2> QED
    BY <1>2, <2>2, <2>3, <2>4, <2>6 DEF CurveTypes
<1> QED
  BY <1>1, <1>2

(***************************************************************************)
(* A store begins: it is one that the files accept, and the local curve    *)
(* becomes what is meant to be written.                                    *)
(***************************************************************************)

(* Points, size and controls have files of different names.                *)
LEMMA FileNames ==
  /\ CurveFiles \cap Controls = {}
  /\ NoStore.file \notin CurveFiles \cup Controls
  /\ \A p \in AllPoints : p # <<NoStore.file, NoStore.point>>
  /\ \A f \in Controls \cup {"size"} : \A i : <<f, i>> \notin AllPoints
<1>1. \A f \in PointFiles : f \notin Controls /\ f # "none" /\ f # "size"
  BY PointFileCases DEF Controls
<1>2. NoStore.file = "none"
  BY DEF NoStore
<1>3. CurveFiles \cap Controls = {} /\ "none" \notin CurveFiles \cup Controls
  BY <1>1 DEF CurveFiles, Controls
<1>4. \A f, i : <<f, i>> \in AllPoints => f \in PointFiles
  BY DEF AllPoints
<1> QED
  BY <1>1, <1>2, <1>3, <1>4

(* Only LOQ machines have a table that waits.                              *)
LEMMA NotPending ==
  ASSUME NEW n, NEW m, model[n].fancurve # "EC3"
  PROVE  ~IsPending(n, m)
  BY DEF IsPending

(* What a store disturbs are cells, and none of a table reached by WMI.    *)
LEMMA Disturbed ==
  ASSUME RegInv, NEW r, r.file \in CurveFiles \cup Controls
  PROVE  /\ Disturbs(r) \subseteq AllPoints
         /\ conf.fancurve = "WMI3" => Disturbs(r) = {}
<1>1. machine \in Machines /\ conf = model[machine]
  BY DEF RegInv, InvTypes, conf
<1>2. CASE r.file \in Controls
  <2> DEFINE x == ControlRegister(conf, r.file)
  <2>1. Disturbs(r) = {WrittenBy[machine][y] : y \in {x} \cap DOMAIN WrittenBy[machine]}
    BY <1>2 DEF Disturbs
  <2>2. Disturbs(r) \subseteq AllPoints
    BY <1>1, <2>1, WrittenCells, KeptPoints
  <2>3. ASSUME conf.fancurve = "WMI3" PROVE Disturbs(r) = {}
    <3>1. x \in {\hC536, \hC4AB, \hC5A0, WmiFullSpeed, LOQ_CMDR_ADDR}
      BY <1>1, <1>2, ControlRegisters
    <3> HIDE DEF x
    <3>2. ~IsWritten(conf, x)
      BY <2>3, <3>1 DEF IsWritten, WmiFullSpeed, LOQ_CMDR_ADDR, WmiTable, WmiTableLength,
                       MAXFANCURVESIZE
    <3>3. x \notin DOMAIN WrittenBy[machine]
      BY <1>1, <3>2, WrittenCells
    <3> QED
      BY <2>1, <3>3 DEF x
  <2> QED
    BY <2>2, <2>3
<1>3. CASE r.file \notin Controls
  <2>1. conf.fancurve # "EC3" => Disturbs(r) = {}
    BY <1>1, <1>3, NotPending DEF Disturbs
  <2>2. Disturbs(r) \subseteq AllPoints
    BY <1>3 DEF Disturbs, AllPoints
  <2> QED
    BY <2>1, <2>2
<1> QED
  BY <1>2, <1>3

(* The stores that are asked for.                                          *)
IsAsked(r) ==
  /\ r.file \in CurveFiles \cup Controls
  /\ r.point \in Points
  /\ r.file \in Controls => r.value \in {0, 1}

(* One that passes the setter's checks is one that the machine accepts.    *)
LEMMA AcceptedRequest ==
  ASSUME NEW n \in Machines, NEW size, NEW r, IsAsked(r), HasFile(n, r.file),
         IsValid(size, r)
  PROVE  IsRequest(n, r)
<1>1. /\ r.file \in Speeds => r.value \in 0..255
      /\ r.file \in Temps => r.value \in 0..127
      /\ r.file \in Ramps => r.value \in 2..5
      /\ r.file = "size" => r.value \in 1..MAXFANCURVESIZE
  <2>1. \A f \in Speeds : f \notin Temps \cup Ramps \cup {"size"}
    BY DEF Speeds, Temps, MaxTemps, Ramps
  <2>2. \A f \in Temps : f \notin Speeds \cup Ramps \cup {"size"}
    BY DEF Speeds, Temps, MaxTemps, Ramps
  <2>3. \A f \in Ramps : f \notin Speeds \cup Temps \cup {"size"}
    BY DEF Speeds, Temps, MaxTemps, Ramps
  <2>4. CASE r.file \in Speeds
    BY <2>1, <2>4 DEF IsValid
  <2>5. CASE r.file \in Temps
    BY <2>2, <2>5 DEF IsValid
  <2>6. CASE r.file \in Ramps
    BY <2>3, <2>6 DEF IsValid
  <2>7. CASE r.file = "size"
    BY <2>1, <2>2, <2>3, <2>7 DEF IsValid
  <2> QED
    BY <2>1, <2>2, <2>3, <2>4, <2>5, <2>6, <2>7
<1>2. ASSUME n = "n2cn" PROVE r.file \in Controls \cup {"pwm1"}
  <2>1. IsSpeedOnly(n)
    BY <1>2, SpeedOnlyModel
  <2>2. ASSUME r.file \in CurveFiles PROVE r.file = "pwm1"
    <3>1. r.file \notin Controls
      BY <2>2, FileNames
    <3>2. r.file # "minifancurve" /\ r.file # "fan_fullspeed"
      BY <3>1 DEF Controls
    <3> QED
      BY <2>1, <2>2, <3>2 DEF HasFile, CurveFiles
  <2> QED
    BY <2>2 DEF IsAsked
<1> QED
  BY <1>1, <1>2 DEF IsRequest, IsAsked

(* The local curve, once the setter has changed it, is what is meant to be *)
(* written, but for the cells that the store disturbs.                     *)
LEMMA BeginCurve ==
  ASSUME RegInv, AtRest, NEW r, IsRequest(machine, r), r.file \in CurveFiles,
         NEW junk \in {0, 1}
  PROVE  LET fc == Changed(machine, ReadCurve(machine, ram, junk), r)
             goal == Intended(machine, meant.points, CurveSize(machine, ram), r)
         IN /\ fc \in CurveTypes
            /\ \A p \in Kept(machine) :
                 \/ (IF conf.fancurve = "EC" /\ p[2] >= fc.size THEN 0 ELSE At(fc.points, p))
                      = At(goal, p)
                 \/ p \in (lost \cup Disturbs(r)) \ {<<r.file, r.point>>}
            /\ \A p \in AllPoints \ Kept(machine) : At(goal, p) = 0
            /\ machine = "n2cn" =>
                 \A p \in Kept(machine) :
                   p[2] >= CurveSize(machine, ram) /\ r.point < CurveSize(machine, ram)
                     => At(fc.points, p) = 0
<1> DEFINE n == machine
           size == CurveSize(n, ram)
           old == ReadCurve(n, ram, junk)
           fc == Changed(n, old, r)
           goal == Intended(n, meant.points, size, r)
           cleared == IF conf.fancurve = "EC" THEN size ELSE MAXFANCURVESIZE
<1>1. /\ n \in Machines /\ conf = model[n] /\ ram \in [Addresses[n] -> 0..255]
      /\ lost \subseteq AllPoints
  BY DEF RegInv, InvTypes, conf
<1>2. /\ old \in CurveTypes /\ old.size = size
      /\ \A p \in Kept(n) : At(old.points, p) = ram[ReadOf(n, p)]
  BY <1>1, ReadCurveCells DEF RegInv, InvBeyond
<1>3. /\ fc \in CurveTypes /\ fc.size = size
      /\ \A p \in AllPoints :
           (r.file = "size" => p[2] < size \/ p[2] >= r.value) =>
              At(fc.points, p) =
                IF p = <<r.file, r.point>> THEN NewValue(n, r)
                ELSE IF /\ r.file = "size" /\ p[1] \in MaxTemps
                        /\ r.value < size /\ p[2] = r.value - 1 THEN 127
                ELSE At(old.points, p)
  BY <1>2, ChangedCurve
<1>4. \A p \in AllPoints :
        At(goal, p) =
          IF ReadOf(n, p) = NotKept \/ p[2] >= cleared THEN 0
          ELSE IF p = <<r.file, r.point>> THEN NewValue(n, r)
          ELSE IF /\ r.file = "size" /\ p[1] \in MaxTemps
                  /\ r.value < size /\ p[2] = r.value - 1 THEN 127
          ELSE At(meant.points, p)
  <2> SUFFICES ASSUME NEW p \in AllPoints
               PROVE  At(goal, p) =
                        IF ReadOf(n, p) = NotKept \/ p[2] >= cleared THEN 0
                        ELSE IF p = <<r.file, r.point>> THEN NewValue(n, r)
                        ELSE IF /\ r.file = "size" /\ p[1] \in MaxTemps
                                /\ r.value < size /\ p[2] = r.value - 1 THEN 127
                        ELSE At(meant.points, p)
    OBVIOUS
  <2>1. p[1] \in PointFiles /\ p[2] \in Points /\ p = <<p[1], p[2]>>
    BY KeptPoints
  <2>2. p = <<r.file, r.point>> <=> r.file = p[1] /\ r.point = p[2]
    BY <2>1
  <2> HIDE DEF size
  <2> QED
    BY <1>1, <2>1, <2>2 DEF Intended, At, ReadOf
<1>5. \A p \in AllPoints \ Kept(n) : At(goal, p) = 0
  <2>1. \A p \in AllPoints \ Kept(n) : ReadOf(n, p) = NotKept
    BY <1>1, OtherCells, KeptPoints DEF ReadOf
  <2> QED
    BY <1>4, <2>1
<1>6. \A p \in Kept(n) : At(meant.points, p) = ram[ReadOf(n, p)] \/ p \in lost \cup Disturbs(r)
  <2> SUFFICES ASSUME NEW p \in Kept(n), p \notin lost
               PROVE  At(meant.points, p) = ram[ReadOf(n, p)] \/ p \in Disturbs(r)
    OBVIOUS
  <2>0. p \in AllPoints
    BY KeptPoints
  <2>1. At(ShownPoints(n, ram), p) = At(meant.points, p)
    BY <2>0, FileNames DEF RegInv, InvShown, InStore, AtRest
  <2>2. CASE ~IsPending(n, ram)
    BY <1>1, <2>0, <2>1, <2>2, ShownCell
  <2>3. CASE IsPending(n, ram) /\ ram[WriteOf(n, p)] = ram[ReadOf(n, p)]
    BY <1>1, <2>0, <2>1, <2>3, ShownCell
  <2>4. CASE IsPending(n, ram) /\ ram[WriteOf(n, p)] # ram[ReadOf(n, p)]
    <3>1. WriteOf(n, p) # NotKept /\ ReadOf(n, p) # NotKept
      BY <1>1, WrittenCells, ReadCells
    <3>2. Content(ram, ReadOf(n, p)) # Content(ram, WriteOf(n, p))
      BY <2>4, <3>1 DEF Content
    <3>3. r.file \notin Controls
      BY FileNames
    <3> QED
      BY <2>0, <2>4, <3>2, <3>3 DEF Disturbs, AllPoints, ReadOf, WriteOf
  <2> QED
    BY <2>2, <2>3, <2>4
<1>7. ASSUME NEW p \in Kept(n), ~(conf.fancurve = "EC" /\ p[2] >= size)
      PROVE  /\ p[2] < cleared
             /\ r.file = "size" => p[2] < size
  <2>1. p[2] \in 0..9 /\ p[2] \in Points /\ p[1] \in PointFiles /\ IsKept(n, p[1], p[2])
    BY DEF Kept, Points, MAXFANCURVESIZE
  <2>2. size \in 0..MAXFANCURVESIZE
    BY <1>1, CurveSizeRange
  <2>3. p[2] < cleared
    BY <1>7, <2>1, <2>2 DEF MAXFANCURVESIZE
  <2>4. CASE conf.fancurve = "EC"
    BY <1>7, <2>1, <2>2, <2>3, <2>4
  <2>5. CASE conf.fancurve = "EC2"
    <3>1. size = 8
      BY <1>1, <2>5, SpeedOnlyModel DEF CurveSize, FANCURVESIZE_IDEAPAD
    <3>2. p[2] < 8
      BY <1>1, <2>1, <2>5 DEF IsKept, WrittenTo, WrittenIdeapad, FANCURVESIZE_IDEAPAD
    <3> QED
      BY <2>3, <3>1, <3>2
  <2>6. CASE conf.fancurve \notin {"EC", "EC2"} /\ n # "n2cn"
    <3>1. size = MAXFANCURVESIZE
      BY <1>1, <2>6 DEF CurveSize
    <3> QED
      BY <2>1, <2>3, <3>1 DEF MAXFANCURVESIZE
  <2>7. CASE n = "n2cn"
    <3>1. r.file # "size"
      BY <2>7 DEF IsRequest, Controls
    <3> QED
      BY <2>3, <3>1
  <2> QED
    BY <2>4, <2>5, <2>6, <2>7
<1>8. \A p \in Kept(n) :
        \/ (IF conf.fancurve = "EC" /\ p[2] >= fc.size THEN 0 ELSE At(fc.points, p))
             = At(goal, p)
        \/ p \in (lost \cup Disturbs(r)) \ {<<r.file, r.point>>}
  <2> SUFFICES ASSUME NEW p \in Kept(n)
               PROVE  \/ (IF conf.fancurve = "EC" /\ p[2] >= fc.size THEN 0 ELSE At(fc.points, p))
                            = At(goal, p)
                      \/ p \in (lost \cup Disturbs(r)) \ {<<r.file, r.point>>}
    OBVIOUS
  <2>0. p \in AllPoints
    BY KeptPoints
  <2> HIDE DEF fc, goal, size, old
  <2>1. CASE conf.fancurve = "EC" /\ p[2] >= size
    BY <1>3, <1>4, <2>0, <2>1
  <2>2. CASE ~(conf.fancurve = "EC" /\ p[2] >= size)
    <3>1. p[2] < cleared /\ (r.file = "size" => p[2] < size)
      BY <1>7, <2>2
    <3>2. ~(p[2] >= cleared)
      <4>1. size \in 0..MAXFANCURVESIZE
        BY <1>1, CurveSizeRange DEF size
      <4>2. p[2] \in Int /\ cleared \in Int
        BY <2>0, <4>1, KeptPoints DEF Points, MAXFANCURVESIZE
      <4> QED
        BY <3>1, <4>2
    <3>3. ReadOf(n, p) # NotKept
      BY <1>1, ReadCells
    <3>4. At(fc.points, p) =
            IF p = <<r.file, r.point>> THEN NewValue(n, r)
            ELSE IF /\ r.file = "size" /\ p[1] \in MaxTemps
                    /\ r.value < size /\ p[2] = r.value - 1 THEN 127
            ELSE ram[ReadOf(n, p)]
      BY <1>2, <1>3, <2>0, <3>1
    <3>5. At(goal, p) =
            IF p = <<r.file, r.point>> THEN NewValue(n, r)
            ELSE IF /\ r.file = "size" /\ p[1] \in MaxTemps
                    /\ r.value < size /\ p[2] = r.value - 1 THEN 127
            ELSE At(meant.points, p)
      BY <1>4, <2>0, <3>2, <3>3
    <3> HIDE DEF cleared
    <3> QED
      BY <1>3, <1>6, <2>2, <3>4, <3>5
  <2> QED
    BY <2>1, <2>2
<1>9. ASSUME n = "n2cn", NEW p \in Kept(n), p[2] >= size, r.point < size
      PROVE  At(fc.points, p) = 0
  <2>0. p \in AllPoints
    BY KeptPoints
  <2>1. r.file # "size"
    BY <1>9 DEF IsRequest, Controls
  <2>2. p # <<r.file, r.point>>
    <3>1. size \in Int /\ r.point \in Int
      BY <1>1, CurveSizeRange DEF IsRequest, Points
    <3> QED
      BY <1>9, <3>1
  <2>3. At(fc.points, p) = At(old.points, p)
    BY <1>3, <2>0, <2>1, <2>2
  <2> QED
    BY <1>2, <1>9, <2>3 DEF RegInv, InvBeyond
<1> QED
  BY <1>3, <1>5, <1>8, <1>9

(* A store begins.                                                         *)
LEMMA BeginKeeps ==
  ASSUME RegInv, NEW r, IsAsked(r), Begin(r)
  PROVE  RegInv'
<1> DEFINE n == machine
<1>1. /\ n \in Machines /\ conf = model[n] /\ ram \in [Addresses[n] -> 0..255]
      /\ lost \subseteq AllPoints
  BY DEF RegInv, InvTypes, conf
<1>2. /\ AtRest /\ HasFile(n, r.file) /\ IsValid(CurveSize(n, ram), r)
      /\ store' = r /\ lost' = (lost \cup Disturbs(r)) \ {<<r.file, r.point>>}
      /\ UNCHANGED <<machine, ram, meant>>
  BY DEF Begin
<1>3. IsRequest(n, r)
  BY <1>1, <1>2, AcceptedRequest
<1>4. conf' = conf
  BY <1>2 DEF conf
<1>5. r.file \in CurveFiles \cup Controls
  BY DEF IsAsked
<1>6. /\ Disturbs(r) \subseteq AllPoints
      /\ conf.fancurve = "WMI3" => Disturbs(r) = {}
  BY <1>5, Disturbed
<1>7. ASSUME r.file \in CurveFiles
      PROVE  \E junk \in {0, 1} :
               /\ fancurve' = Changed(n, ReadCurve(n, ram, junk), r)
               /\ intended' = Intended(n, meant.points, CurveSize(n, ram), r)
  <2>1. r.file \notin Controls
    BY <1>7, FileNames
  <2> QED
    BY <2>1 DEF Begin
<1>8. ASSUME r.file \in CurveFiles
      PROVE  /\ fancurve' \in CurveTypes
             /\ \A p \in Kept(n) :
                  \/ (IF conf.fancurve = "EC" /\ p[2] >= fancurve'.size THEN 0
                      ELSE At(fancurve'.points, p)) = At(intended', p)
                  \/ p \in lost'
             /\ \A p \in AllPoints \ Kept(n) : At(intended', p) = 0
             /\ n = "n2cn" => \A p \in Kept(n) :
                  p[2] >= CurveSize(n, ram) /\ r.point < CurveSize(n, ram)
                    => At(fancurve'.points, p) = 0
  <2>1. PICK junk \in {0, 1} :
               /\ fancurve' = Changed(n, ReadCurve(n, ram, junk), r)
               /\ intended' = Intended(n, meant.points, CurveSize(n, ram), r)
    BY <1>7, <1>8
  <2> QED
    BY <1>2, <1>3, <1>8, <2>1, BeginCurve
<1>9. InvTypes'
  <2>1. lost' \subseteq AllPoints
    BY <1>1, <1>2, <1>6
  <2>2. (store # NoStore => IsRequest(machine, store))'
    BY <1>2, <1>3 DEF IsRequest
  <2>3. IsTableStore' => fancurve' \in CurveTypes
    BY <1>2, <1>8 DEF IsTableStore
  <2> QED
    BY <1>2, <2>1, <2>2, <2>3 DEF RegInv, InvTypes, CurveTypes
<1>10. InvControls'
  BY <1>2 DEF RegInv, InvControls, ShownControl
<1>11. \A p \in AllPoints : p \in lost => p \in lost' \/ InStore(p)'
  <2>1. conf.fancurve = "WMI3" => lost = {}
    BY DEF RegInv, InvLost
  <2>2. \A p \in AllPoints : p \in lost /\ p \notin lost' => p = <<r.file, r.point>>
    BY <1>2
  <2> QED
    BY <1>2, <1>4, <2>1, <2>2 DEF InStore
<1>12. \A p \in AllPoints : ~InStore(p)
  BY <1>2, FileNames DEF InStore, AtRest
<1>13. InvShown'
  <2>1. ASSUME NEW p \in AllPoints
        PROVE  At(ShownPoints(n, ram), p) = At(meant.points, p) \/ p \in lost' \/ InStore(p)'
    BY <1>11, <1>12 DEF RegInv, InvShown
  <2>2. ShownPoints(n, ram)' = ShownPoints(n, ram) /\ meant' = meant
    BY <1>2
  <2> QED
    BY <2>1, <2>2 DEF InvShown, At
<1>14. InvCopies'
  <2>1. ASSUME NEW x \in DOMAIN WrittenBy[n], NEW p, p = WrittenBy[n][x]
        PROVE  ram[x] = ram[WriteOf(n, p)] \/ p \in lost' \/ InStore(p)'
    <3>1. p \in AllPoints
      BY <1>1, <2>1, WrittenCells, KeptPoints
    <3>2. ram[x] = ram[WriteOf(n, p)] \/ p \in lost \/ InStore(p)
      BY <2>1 DEF RegInv, InvCopies
    <3> QED
      BY <1>11, <1>12, <3>1, <3>2
  <2> QED
    BY <1>2, <2>1 DEF InvCopies, WriteOf
<1>15. InvLost'
  BY <1>2, <1>4, <1>6 DEF RegInv, InvLost
<1>16. InvBeyond'
  BY <1>2 DEF RegInv, InvBeyond, Kept, ReadOf
<1>17. InvStore'
  <2> SUFFICES ASSUME r.file \in CurveFiles PROVE InvStore'
    BY <1>2 DEF InvStore, IsTableStore
  <2>1. n = "n2cn" => r.point < CurveSize(n, ram)
    <3>1. n = "n2cn" => r.file = "pwm1"
      BY <1>3, FileNames DEF IsRequest
    <3> QED
      BY <1>2, <3>1 DEF IsValid, Speeds, Temps, MaxTemps, Ramps
  <2>2. \A p \in Kept(n) : StoredCell(p)' = At(intended', p) \/ p \in lost'
    BY <1>4, <1>8 DEF StoredCell, At
  <2>3. \A p \in AllPoints \ Kept(n) : At(intended', p) = 0
    BY <1>8
  <2>4. n = "n2cn" => \A p \in Kept(n) :
          p[2] >= CurveSize(n, ram) => At(fancurve'.points, p) = 0
    BY <1>8, <2>1
  <2> QED
    BY <1>2, <2>2, <2>3, <2>4 DEF InvStore, At
<1>18. InvShared'
  <2> DEFINE x == ControlRegister(conf, r.file)
  <2> SUFFICES ASSUME r.file \in Controls, x \in DOMAIN WrittenBy[n]
               PROVE  WrittenBy[n][x] \in lost'
    BY <1>2, <1>4 DEF InvShared
  <2>1. WrittenBy[n][x] \in Disturbs(r)
    BY DEF Disturbs
  <2>2. <<r.file, r.point>> \notin AllPoints
    BY FileNames
  <2> QED
    BY <1>2, <1>6, <2>1, <2>2
<1> QED
  BY <1>9, <1>10, <1>13, <1>14, <1>15, <1>16, <1>17, <1>18 DEF RegInv

(* Once the mutex is released nothing is in progress.                      *)
LEMMA UnlockFacts ==
  ASSUME Unlock
  PROVE  /\ store' = NoStore /\ lost' = lost /\ machine' = machine /\ conf' = conf
         /\ ~IsTableStore' /\ InvStore' /\ InvShared'
         /\ \A p \in AllPoints : ~InStore(p)'
<1>1. store' = NoStore /\ lost' = lost /\ machine' = machine /\ conf' = conf
  BY DEF Unlock, conf
<1>2. ~IsTableStore'
  BY <1>1, FileNames DEF IsTableStore
<1>3. \A p \in AllPoints : ~InStore(p)'
  BY <1>1, FileNames DEF InStore
<1>4. InvShared'
  BY <1>1, FileNames DEF InvShared
<1> QED
  BY <1>1, <1>2, <1>3, <1>4 DEF InvStore

(* The writers write the local curve to every copy of every cell, have the LOQ *)
(* table wait, and leave the controls alone.                               *)
LEMMA WriteCurveCells ==
  ASSUME NEW n \in Machines, NEW m \in [Addresses[n] -> 0..255], NEW fc \in CurveTypes,
         NEW writeSize \in BOOLEAN, m[LOQ_CMDR_ADDR] \in CommandBytes
  PROVE  LET w == WriteCurve(n, m, fc, writeSize)
             Cell(p) == IF model[n].fancurve = "EC" /\ p[2] >= fc.size
                          THEN 0 ELSE At(fc.points, p)
         IN /\ w \in [Addresses[n] -> 0..255]
            /\ w[LOQ_CMDR_ADDR] \in CommandBytes
            /\ model[n].fancurve = "EC3" => IsPending(n, w)
            /\ \A x \in DOMAIN WrittenBy[n] : w[x] = Cell(WrittenBy[n][x])
            /\ \A f \in OwnControls[n] :
                 w[ControlRegister(model[n], f)] = m[ControlRegister(model[n], f)]
            /\ n = "n2cn" => w[WmiTableLength] = m[WmiTableLength]
<1> DEFINE method == model[n].fancurve
           counters == Counters(model[n])
           cells == WrittenBy[n]
           Cell(p) == IF method = "EC" /\ p[2] >= fc.size THEN 0 ELSE At(fc.points, p)
           w == WriteCurve(n, m, fc, writeSize)
           Sets(x) == method = "EC" /\ writeSize /\ x = SizeRegister(n)
           Orders(x) == method = "EC3" /\ x = LOQ_CMDR_ADDR
           Byte(x) == CASE x \in DOMAIN cells -> Cell(cells[x])
                        [] x \in counters -> 0
                        [] Sets(x) -> fc.size
                        [] Orders(x) -> WithBit(m[x], 16, 1)
                        [] OTHER -> m[x]
<1>1. w = [x \in Addresses[n] |-> Byte(x)]
  BY DEF WriteCurve, At
<1>2. /\ fc.size \in 0..255 /\ fc.points \in [Points -> [PointFiles -> 0..255]]
  BY DEF CurveTypes, MAXFANCURVESIZE
<1>3. \A x \in DOMAIN cells : x \notin counters /\ ~Sets(x) /\ ~Orders(x)
  BY SpecialAddresses
<1>4. \A x \in counters : ~Sets(x) /\ ~Orders(x)
  BY SpecialAddresses
<1>5. \A x : ~(Sets(x) /\ Orders(x))
  OBVIOUS
<1>6. \A x \in DOMAIN cells : Cell(cells[x]) \in 0..255
  <2> SUFFICES ASSUME NEW x \in DOMAIN cells PROVE Cell(cells[x]) \in 0..255
    OBVIOUS
  <2>1. cells[x][1] \in PointFiles /\ cells[x][2] \in Points
    BY WrittenCells, KeptPoints
  <2>2. At(fc.points, cells[x]) \in 0..255
    <3>1. fc.points[cells[x][2]] \in [PointFiles -> 0..255]
      BY <1>2, <2>1
    <3> QED
      BY <2>1, <3>1 DEF At
  <2> QED
    BY <2>2
<1>7. \A x \in Addresses[n] : Orders(x) => WithBit(m[x], 16, 1) \in 0..255
  BY CommandBits DEF CommandBytes
<1> HIDE DEF Cell, Sets, Orders
<1>8. \A x \in DOMAIN cells : Byte(x) = Cell(cells[x])
  BY <1>3
<1>9. \A x : x \notin DOMAIN cells /\ x \in counters => Byte(x) = 0
  BY <1>4
<1>10. \A x : x \notin DOMAIN cells /\ x \notin counters /\ Sets(x) => Byte(x) = fc.size
  BY <1>5
<1>11. \A x : x \notin DOMAIN cells /\ x \notin counters /\ Orders(x)
                => Byte(x) = WithBit(m[x], 16, 1)
  BY <1>5
<1>12. \A x : x \notin DOMAIN cells /\ x \notin counters /\ ~Sets(x) /\ ~Orders(x)
                => Byte(x) = m[x]
  OBVIOUS
<1> HIDE DEF Byte
<1>13. \A x \in Addresses[n] : Byte(x) \in 0..255
  BY <1>2, <1>6, <1>7, <1>8, <1>9, <1>10, <1>11, <1>12
<1>14. w \in [Addresses[n] -> 0..255]
  BY <1>1, <1>13
<1>15. \A x \in DOMAIN cells : w[x] = Cell(cells[x])
  BY <1>1, <1>8, AddressesInUse
<1>16. /\ w[LOQ_CMDR_ADDR] \in CommandBytes
       /\ model[n].fancurve = "EC3" => IsPending(n, w)
  <2> DEFINE x == LOQ_CMDR_ADDR
  <2>1. x \in Addresses[n] /\ x \notin DOMAIN cells /\ x \notin counters /\ x # SizeRegister(n)
    BY SpecialAddresses, AddressesInUse
  <2>2. ~Sets(x)
    BY <2>1 DEF Sets
  <2>3. w[x] = IF Orders(x) THEN WithBit(m[x], 16, 1) ELSE m[x]
    BY <1>1, <1>11, <1>12, <2>1, <2>2
  <2>4. Orders(x) <=> method = "EC3"
    BY DEF Orders
  <2> QED
    BY <2>3, <2>4, CommandBits DEF IsPending
<1>17. ASSUME NEW f \in OwnControls[n]
       PROVE  w[ControlRegister(model[n], f)] = m[ControlRegister(model[n], f)]
  <2> DEFINE x == ControlRegister(model[n], f)
  <2>1. f \in Controls /\ x \notin DOMAIN cells
    BY OwnRegisters
  <2>2. x \in Addresses[n] /\ x \notin counters /\ x # SizeRegister(n)
    BY <2>1, AddressesInUse, SpecialAddresses
  <2>3. method = "EC3" => x # LOQ_CMDR_ADDR
    BY <2>1, ControlRegisters
  <2>4. ~Sets(x) /\ ~Orders(x)
    BY <2>2, <2>3 DEF Sets, Orders
  <2> QED
    BY <1>1, <1>12, <2>1, <2>2, <2>4
<1>18. ASSUME n = "n2cn" PROVE w[WmiTableLength] = m[WmiTableLength]
  <2> DEFINE x == WmiTableLength
  <2>1. method = "WMI3"
    BY <1>18, SpeedOnlyModel
  <2>2. x \in Addresses[n] /\ x \notin DOMAIN cells /\ x \notin counters
    BY SpecialAddresses, AddressesInUse
  <2>3. ~Sets(x) /\ ~Orders(x)
    BY <2>1 DEF Sets, Orders
  <2> QED
    BY <1>1, <1>12, <2>2, <2>3
<1> QED
  BY <1>14, <1>15, <1>16, <1>17, <1>18 DEF Cell

(***************************************************************************)
(* A store ends, with the table or the register written.                   *)
(***************************************************************************)

(* Whether a table waits is a matter of the command byte.                  *)
LEMMA PendingAlike ==
  ASSUME NEW n, NEW m, NEW w, w[LOQ_CMDR_ADDR] = m[LOQ_CMDR_ADDR]
  PROVE  IsPending(n, w) <=> IsPending(n, m)
  BY DEF IsPending

(* The size of a table reached by WMI is a matter of its length.           *)
LEMMA SizeAlike ==
  ASSUME NEW m, NEW w, w[WmiTableLength] = m[WmiTableLength]
  PROVE  CurveSize("n2cn", w) = CurveSize("n2cn", m)
  BY SpeedOnlyModel DEF CurveSize

(* The table is written.                                                   *)
LEMMA FinishCurveKeeps ==
  ASSUME RegInv, FinishCurve
  PROVE  RegInv'
<1> DEFINE n == machine
           writeSize == (store.file = "size")
<1>1. /\ n \in Machines /\ conf = model[n] /\ ram \in [Addresses[n] -> 0..255]
      /\ lost \subseteq AllPoints /\ ram[LOQ_CMDR_ADDR] \in CommandBytes
  BY DEF RegInv, InvTypes, conf
<1>2. /\ IsTableStore
      /\ ram' = WriteCurve(n, ram, fancurve, writeSize)
      /\ meant' = [meant EXCEPT !.points = intended]
      /\ Unlock
  BY DEF FinishCurve, IsTableStore, CurveFiles
<1>3. fancurve \in CurveTypes
  BY <1>2 DEF RegInv, InvTypes, CurveTypes
<1>4. /\ store' = NoStore /\ lost' = lost /\ machine' = machine /\ conf' = conf
      /\ ~IsTableStore' /\ InvStore' /\ InvShared'
      /\ \A p \in AllPoints : ~InStore(p)'
  BY <1>2, UnlockFacts
<1>5. writeSize \in BOOLEAN
  OBVIOUS
<1> HIDE DEF writeSize
<1>6. /\ ram' \in [Addresses[n] -> 0..255]
      /\ ram'[LOQ_CMDR_ADDR] \in CommandBytes
      /\ conf.fancurve = "EC3" => IsPending(n, ram')
      /\ \A x \in DOMAIN WrittenBy[n] : ram'[x] = StoredCell(WrittenBy[n][x])
      /\ \A f \in OwnControls[n] :
           ram'[ControlRegister(conf, f)] = ram[ControlRegister(conf, f)]
      /\ n = "n2cn" => ram'[WmiTableLength] = ram[WmiTableLength]
  <2> DEFINE Cell(p) == IF conf.fancurve = "EC" /\ p[2] >= fancurve.size
                          THEN 0 ELSE At(fancurve.points, p)
             w == WriteCurve(n, ram, fancurve, writeSize)
  <2>1. /\ w \in [Addresses[n] -> 0..255]
        /\ w[LOQ_CMDR_ADDR] \in CommandBytes
        /\ conf.fancurve = "EC3" => IsPending(n, w)
        /\ \A x \in DOMAIN WrittenBy[n] : w[x] = Cell(WrittenBy[n][x])
        /\ \A f \in OwnControls[n] :
             w[ControlRegister(conf, f)] = ram[ControlRegister(conf, f)]
        /\ n = "n2cn" => w[WmiTableLength] = ram[WmiTableLength]
    BY <1>1, <1>3, <1>5, WriteCurveCells
  <2> HIDE DEF w
  <2>2. \A p : Cell(p) = StoredCell(p)
    BY DEF StoredCell
  <2>3. ram' = w
    BY <1>2 DEF w
  <2> HIDE DEF Cell
  <2>4. \A x \in DOMAIN WrittenBy[n] : w[x] = StoredCell(WrittenBy[n][x])
    BY <2>1, <2>2
  <2> QED
    BY <2>1, <2>3, <2>4, Zenon
<1>7. meant' = [points |-> intended, controls |-> meant.controls]
  BY <1>2 DEF RegInv, InvTypes
<1>8. InvTypes'
  BY <1>1, <1>4, <1>6, <1>7 DEF InvTypes
<1>9. InvControls'
  <2>1. \A f \in OwnControls[n] : ShownControl(n, ram', f) = ShownControl(n, ram, f)
    BY <1>1, <1>6 DEF ShownControl
  <2>2. meant'.controls = [f \in OwnControls[n] |-> ShownControl(n, ram', f)]
    BY <1>7, <2>1 DEF RegInv, InvControls
  <2> QED
    BY <1>4, <2>2 DEF InvControls
<1>10. \A p \in Kept(n) : ram'[WriteOf(n, p)] = StoredCell(p)
  BY <1>1, <1>6, WrittenCells
<1>11. ASSUME NEW p \in AllPoints
       PROVE  At(ShownPoints(n, ram'), p) = At(intended, p) \/ p \in lost
  <2>1. CASE p \notin Kept(n)
    BY <1>1, <1>2, <2>1, ShownCell DEF RegInv, InvStore
  <2>2. CASE p \in Kept(n)
    <3>1. At(ShownPoints(n, ram'), p) = ram'[WriteOf(n, p)]
      BY <1>1, <1>6, <2>2, ShownCell, ReadCells
    <3> QED
      BY <1>2, <1>10, <2>2, <3>1 DEF RegInv, InvStore
  <2> QED
    BY <2>1, <2>2
<1>12. InvShown'
  <2>1. ShownPoints(n, ram') = ShownPoints(machine, ram)'
    BY <1>4
  <2> QED
    BY <1>4, <1>7, <1>11, <2>1 DEF InvShown, At
<1>13. InvCopies'
  <2>1. ASSUME NEW x \in DOMAIN WrittenBy[n], NEW p, p = WrittenBy[n][x]
        PROVE  ram'[x] = ram'[WriteOf(n, p)]
    BY <1>1, <1>6, <1>10, <2>1, WrittenCells
  <2> QED
    BY <1>4, <2>1 DEF InvCopies, WriteOf
<1>14. InvLost'
  BY <1>4 DEF RegInv, InvLost
<1>15. InvBeyond'
  <2> SUFFICES ASSUME n = "n2cn", NEW p \in Kept(n), p[2] >= CurveSize(n, ram')
               PROVE  ram'[ReadOf(n, p)] = 0
    BY <1>4 DEF InvBeyond, Kept, ReadOf
  <2>1. CurveSize(n, ram') = CurveSize(n, ram)
    BY <1>6, SizeAlike
  <2>2. ReadOf(n, p) = WriteOf(n, p) /\ conf.fancurve = "WMI3"
    BY <1>1, SpeedOnlyModel, ReadCells
  <2>3. At(fancurve.points, p) = 0
    BY <1>2, <2>1 DEF RegInv, InvStore
  <2> QED
    BY <1>10, <2>2, <2>3 DEF StoredCell
<1> QED
  BY <1>4, <1>8, <1>9, <1>12, <1>13, <1>14, <1>15 DEF RegInv

(* The register of a control is written.                                   *)
LEMMA FinishControlKeeps ==
  ASSUME RegInv, FinishControl
  PROVE  RegInv'
<1> DEFINE n == machine
           g == store.file
           x == ControlRegister(conf, g)
           byte == Encoded(conf, g, ram[x], store.value)
<1>1. /\ n \in Machines /\ conf = model[n] /\ ram \in [Addresses[n] -> 0..255]
      /\ lost \subseteq AllPoints /\ ram[LOQ_CMDR_ADDR] \in CommandBytes
  BY DEF RegInv, InvTypes, conf
<1>2. /\ g \in Controls /\ ram' = [ram EXCEPT ![x] = byte]
      /\ meant' = [meant EXCEPT !.controls =
                     [f \in DOMAIN @ |-> IF f = g THEN store.value ELSE @[f]]]
      /\ Unlock
  BY DEF FinishControl
<1>3. store.value \in {0, 1}
  <2>1. store # NoStore
    BY <1>2, FileNames
  <2> QED
    BY <1>2, <2>1 DEF RegInv, InvTypes, IsRequest
<1>4. /\ store' = NoStore /\ lost' = lost /\ machine' = machine /\ conf' = conf
      /\ ~IsTableStore' /\ InvStore' /\ InvShared'
      /\ \A p \in AllPoints : ~InStore(p)'
  BY <1>2, UnlockFacts
<1>5. x \in Addresses[n] /\ ram[x] \in 0..255
  BY <1>1, <1>2, AddressesInUse
<1>6. byte \in 0..255 /\ Decoded(conf, g, byte) = store.value
  <2> SUFFICES ASSUME NEW c, c = conf, NEW f, f = g, NEW b, b = ram[x],
                      NEW on, on = store.value
               PROVE  /\ Encoded(c, f, b, on) \in 0..255
                      /\ Decoded(c, f, Encoded(c, f, b, on)) = on
    OBVIOUS
  <2>1. f \in Controls /\ b \in 0..255 /\ on \in {0, 1}
    BY <1>2, <1>3, <1>5
  <2> QED
    BY <2>1, ControlEncoding, ZenonT(60)
<1>7. /\ x = LOQ_CMDR_ADDR => conf.fancurve = "EC4" /\ g = "fan_fullspeed"
      /\ x # WmiTableLength
      /\ x \in DOMAIN ReadBy[n] => x \in DOMAIN WrittenBy[n] /\ conf.fancurve # "EC3"
  BY <1>1, <1>2, ControlRegisters, SpecialAddresses
<1>8. x = LOQ_CMDR_ADDR => byte \in CommandBytes
  <2> SUFFICES ASSUME x = LOQ_CMDR_ADDR PROVE byte \in CommandBytes
    OBVIOUS
  <2>1. conf.fanfullspeed = "EC4" /\ g = "fan_fullspeed"
    BY <1>1, <1>7, MachineLayout
  <2>2. byte = WithBit(ram[x], 1, store.value)
    BY <2>1 DEF Encoded
  <2> QED
    BY <1>1, <1>3, <2>2, CommandBits
<1> HIDE DEF x, byte
<1>9. /\ ram' \in [Addresses[n] -> 0..255]
      /\ ram'[x] = byte
      /\ \A y \in Addresses[n] : y # x => ram'[y] = ram[y]
  BY <1>1, <1>2, <1>5, <1>6
<1>10. ram'[LOQ_CMDR_ADDR] \in CommandBytes
  BY <1>1, <1>8, <1>9, AddressesInUse
<1>11. meant' = [points |-> meant.points,
                controls |-> [f \in OwnControls[n] |->
                                IF f = g THEN store.value ELSE meant.controls[f]]]
  <2>1. DOMAIN meant.controls = OwnControls[n]
    BY DEF RegInv, InvControls
  <2>2. meant = [points |-> meant.points, controls |-> meant.controls]
    BY DEF RegInv, InvTypes
  <2> QED
    BY <1>2, <2>1, <2>2
<1>12. InvTypes'
  BY <1>1, <1>4, <1>9, <1>10, <1>11 DEF InvTypes
<1>13. InvControls'
  <2>1. ASSUME NEW f \in OwnControls[n]
        PROVE  ShownControl(n, ram', f) =
                 IF f = g THEN store.value ELSE meant.controls[f]
    <3>1. f \in Controls /\ ControlRegister(conf, f) \in Addresses[n]
      BY <1>1, OwnRegisters, AddressesInUse
    <3>2. CASE f = g
      BY <1>1, <1>6, <1>9, <3>2 DEF ShownControl, x
    <3>3. CASE f # g
      <4>1. ControlRegister(conf, f) # x
        BY <1>1, <1>2, <3>3, OwnRegisters DEF x
      <4>2. ShownControl(n, ram', f) = ShownControl(n, ram, f)
        BY <1>1, <1>9, <3>1, <4>1 DEF ShownControl
      <4> QED
        BY <3>3, <4>2 DEF RegInv, InvControls
    <3> QED
      BY <3>2, <3>3
  <2>2. meant'.controls = [f \in OwnControls[n] |-> ShownControl(n, ram', f)]
    BY <1>11, <2>1
  <2> QED
    BY <1>4, <2>2 DEF InvControls
<1>14. x \in DOMAIN WrittenBy[n] => WrittenBy[n][x] \in lost
  BY <1>1, <1>2 DEF RegInv, InvShared, x
<1>15. \A p \in Kept(n) :
         \/ p \in lost
         \/ /\ ram'[WriteOf(n, p)] = ram[WriteOf(n, p)]
            /\ ram'[ReadOf(n, p)] = ram[ReadOf(n, p)]
  <2> SUFFICES ASSUME NEW p \in Kept(n), p \notin lost
               PROVE  /\ ram'[WriteOf(n, p)] = ram[WriteOf(n, p)]
                      /\ ram'[ReadOf(n, p)] = ram[ReadOf(n, p)]
    OBVIOUS
  <2>1. /\ WriteOf(n, p) \in DOMAIN WrittenBy[n] /\ WrittenBy[n][WriteOf(n, p)] = p
        /\ ReadOf(n, p) \in DOMAIN ReadBy[n]
        /\ conf.fancurve # "EC3" => ReadOf(n, p) = WriteOf(n, p)
    BY <1>1, WrittenCells, ReadCells
  <2>2. WriteOf(n, p) # x
    BY <1>14, <2>1
  <2>3. ReadOf(n, p) # x
    BY <1>7, <2>1, <2>2
  <2>4. WriteOf(n, p) \in Addresses[n] /\ ReadOf(n, p) \in Addresses[n]
    BY <1>1, <2>1, AddressesInUse
  <2> QED
    BY <1>9, <2>2, <2>3, <2>4
<1>16. conf.fancurve = "EC3" => (IsPending(n, ram') <=> IsPending(n, ram))
  <2>1. conf.fancurve = "EC3" => ram'[LOQ_CMDR_ADDR] = ram[LOQ_CMDR_ADDR]
    BY <1>1, <1>7, <1>9, AddressesInUse
  <2> QED
    BY <2>1, PendingAlike
<1>17. IsPending(n, ram') <=> IsPending(n, ram)
  BY <1>1, <1>16, NotPending
<1>18. \A p \in AllPoints : ~InStore(p)
  BY <1>2, FileNames DEF InStore
<1>19. InvShown'
  <2>1. ASSUME NEW p \in AllPoints
        PROVE  At(ShownPoints(n, ram'), p) = At(meant.points, p) \/ p \in lost
    <3>1. At(ShownPoints(n, ram), p) = At(meant.points, p) \/ p \in lost
      BY <1>18 DEF RegInv, InvShown
    <3>2. p \in lost \/ At(ShownPoints(n, ram'), p) = At(ShownPoints(n, ram), p)
      BY <1>1, <1>15, <1>17, ShownCell
    <3> QED
      BY <3>1, <3>2
  <2>2. ShownPoints(n, ram') = ShownPoints(machine, ram)'
    BY <1>4
  <2> QED
    BY <1>4, <1>11, <2>1, <2>2 DEF InvShown, At
<1>20. InvCopies'
  <2>1. ASSUME NEW y \in DOMAIN WrittenBy[n], NEW p, p = WrittenBy[n][y]
        PROVE  ram'[y] = ram'[WriteOf(n, p)] \/ p \in lost
    <3>1. p \in Kept(n) /\ p \in AllPoints /\ y \in Addresses[n]
      BY <1>1, <2>1, WrittenCells, KeptPoints, AddressesInUse
    <3>2. ram[y] = ram[WriteOf(n, p)] \/ p \in lost
      BY <1>18, <2>1, <3>1 DEF RegInv, InvCopies
    <3>3. y = x => p \in lost
      BY <1>14, <2>1
    <3> QED
      BY <1>9, <1>15, <3>1, <3>2, <3>3
  <2> QED
    BY <1>4, <2>1 DEF InvCopies, WriteOf
<1>21. InvLost'
  BY <1>4 DEF RegInv, InvLost
<1>22. InvBeyond'
  <2> SUFFICES ASSUME n = "n2cn", NEW p \in Kept(n), p[2] >= CurveSize(n, ram')
               PROVE  ram'[ReadOf(n, p)] = 0
    BY <1>4 DEF InvBeyond, Kept, ReadOf
  <2>1. CurveSize(n, ram') = CurveSize(n, ram)
    <3>1. ram'[WmiTableLength] = ram[WmiTableLength]
      BY <1>1, <1>7, <1>9, AddressesInUse
    <3> QED
      BY <3>1, SizeAlike
  <2>2. lost = {}
    BY <1>1, SpeedOnlyModel DEF RegInv, InvLost
  <2>3. ram[ReadOf(n, p)] = 0
    BY <2>1 DEF RegInv, InvBeyond
  <2> QED
    BY <1>15, <2>2, <2>3
<1> QED
  BY <1>4, <1>12, <1>13, <1>19, <1>20, <1>21, <1>22 DEF RegInv

(***************************************************************************)
(* A WMI method fails, or the firmware acts on its own.                    *)
(***************************************************************************)

(* A WMI method fails: everything is as before the store.                  *)
LEMMA WmiFailsKeeps ==
  ASSUME RegInv, WmiFails
  PROVE  RegInv'
<1> DEFINE n == machine
<1>1. /\ store' = NoStore /\ lost' = lost /\ machine' = machine /\ conf' = conf
      /\ ~IsTableStore' /\ InvStore' /\ InvShared'
      /\ \A p \in AllPoints : ~InStore(p)'
      /\ ram' = ram /\ meant' = meant
  BY UnlockFacts DEF WmiFails
<1>2. \A p \in AllPoints : ~InStore(p)
  <2>1. CASE store.file \in Controls
    BY <2>1, FileNames DEF InStore
  <2>2. CASE store.file \notin Controls
    BY <2>2 DEF InStore, WmiFails
  <2> QED
    BY <2>1, <2>2
<1>3. InvTypes'
  BY <1>1 DEF RegInv, InvTypes
<1>4. InvControls'
  BY <1>1 DEF RegInv, InvControls, ShownControl
<1>5. InvShown'
  <2>1. ASSUME NEW p \in AllPoints
        PROVE  At(ShownPoints(n, ram), p) = At(meant.points, p) \/ p \in lost
    BY <1>2 DEF RegInv, InvShown
  <2>2. ShownPoints(machine, ram)' = ShownPoints(n, ram)
    BY <1>1
  <2> QED
    BY <1>1, <2>1, <2>2 DEF InvShown, At
<1>6. InvCopies'
  <2>1. ASSUME NEW x \in DOMAIN WrittenBy[n], NEW p, p = WrittenBy[n][x]
        PROVE  ram[x] = ram[WriteOf(n, p)] \/ p \in lost
    <3>1. n \in Machines
      BY DEF RegInv, InvTypes
    <3>2. p \in AllPoints
      BY <2>1, <3>1, WrittenCells, KeptPoints
    <3> QED
      BY <1>2, <2>1, <3>2 DEF RegInv, InvCopies
  <2> QED
    BY <1>1, <2>1 DEF InvCopies, WriteOf
<1>7. InvLost' /\ InvBeyond'
  BY <1>1 DEF RegInv, InvLost, InvBeyond, Kept, ReadOf
<1> QED
  BY <1>1, <1>3, <1>4, <1>5, <1>6, <1>7 DEF RegInv

(* The firmware executes a table: what was shown as waiting is shown as read. *)
LEMMA ExecuteKeeps ==
  ASSUME RegInv, Execute
  PROVE  RegInv'
<1> DEFINE n == machine
           Moved(x) == ram[WriteOf(n, ReadBy[n][x])]
           Byte(x) == CASE x = LOQ_CMDR_ADDR -> WithBit(ram[x], 16, 0)
                        [] x \in DOMAIN ReadBy[n] -> Moved(x)
                        [] OTHER -> ram[x]
<1>1. /\ n \in Machines /\ conf = model[n] /\ ram \in [Addresses[n] -> 0..255]
      /\ ram[LOQ_CMDR_ADDR] \in CommandBytes
  BY DEF RegInv, InvTypes, conf
<1>2. /\ IsPending(n, ram) /\ conf.fancurve = "EC3" /\ n # "n2cn"
      /\ UNCHANGED <<machine, store, fancurve, meant, intended, lost>>
      /\ conf' = conf
  BY <1>1, SpeedOnlyModel DEF Execute, IsPending, historyVars, conf
<1>3. ram' = [x \in Addresses[n] |-> Byte(x)]
  BY <1>1 DEF Execute, WriteOf
<1>4. LOQ_CMDR_ADDR \notin DOMAIN ReadBy[n] /\ LOQ_CMDR_ADDR \in Addresses[n]
  BY <1>1, SpecialAddresses, AddressesInUse
<1>5. \A x \in DOMAIN ReadBy[n] : Moved(x) \in 0..255
  BY <1>1, ReadCells, WrittenCells, AddressesInUse
<1> HIDE DEF Moved
<1>6. /\ Byte(LOQ_CMDR_ADDR) = WithBit(ram[LOQ_CMDR_ADDR], 16, 0)
      /\ \A x \in DOMAIN ReadBy[n] : Byte(x) = Moved(x)
      /\ \A x : x # LOQ_CMDR_ADDR /\ x \notin DOMAIN ReadBy[n] => Byte(x) = ram[x]
  BY <1>4
<1> HIDE DEF Byte
<1>7. /\ WithBit(ram[LOQ_CMDR_ADDR], 16, 0) \in CommandBytes
      /\ Bit(WithBit(ram[LOQ_CMDR_ADDR], 16, 0), 16) = 0
      /\ CommandBytes \subseteq 0..255
  BY <1>1, CommandBits DEF CommandBytes
<1>8. ram' \in [Addresses[n] -> 0..255] /\ ram'[LOQ_CMDR_ADDR] \in CommandBytes
  <2>1. ASSUME NEW x \in Addresses[n] PROVE Byte(x) \in 0..255
    <3>1. CASE x = LOQ_CMDR_ADDR
      BY <1>6, <1>7, <3>1
    <3>2. CASE x \in DOMAIN ReadBy[n]
      BY <1>5, <1>6, <3>2
    <3>3. CASE x # LOQ_CMDR_ADDR /\ x \notin DOMAIN ReadBy[n]
      BY <1>1, <1>6, <3>3
    <3> QED
      BY <3>1, <3>2, <3>3
  <2>2. ram' \in [Addresses[n] -> 0..255]
    BY <1>3, <2>1
  <2>3. ram'[LOQ_CMDR_ADDR] = WithBit(ram[LOQ_CMDR_ADDR], 16, 0)
    BY <1>3, <1>4, <1>6
  <2> QED
    BY <1>7, <2>2, <2>3
<1>9. ~IsPending(n, ram')
  BY <1>3, <1>4, <1>6, <1>7 DEF IsPending
<1>10. \A p \in Kept(n) : ram'[ReadOf(n, p)] = ram[WriteOf(n, p)]
  <2> SUFFICES ASSUME NEW p \in Kept(n) PROVE ram'[ReadOf(n, p)] = ram[WriteOf(n, p)]
    OBVIOUS
  <2>1. ReadOf(n, p) \in DOMAIN ReadBy[n] /\ ReadBy[n][ReadOf(n, p)] = p
    BY <1>1, ReadCells
  <2>2. ReadOf(n, p) \in Addresses[n]
    BY <1>1, <2>1, AddressesInUse
  <2> QED
    BY <1>3, <1>6, <2>1, <2>2 DEF Moved
<1>11. InvTypes'
  BY <1>2, <1>8 DEF RegInv, InvTypes, IsTableStore
<1>12. InvControls'
  <2>1. ASSUME NEW f \in OwnControls[n]
        PROVE  ShownControl(n, ram', f) = ShownControl(n, ram, f)
    <3> DEFINE x == ControlRegister(conf, f)
    <3>1. f \in Controls /\ x \notin DOMAIN ReadBy[n] /\ x \in Addresses[n]
      BY <1>1, OwnRegisters, AddressesInUse
    <3>2. x # LOQ_CMDR_ADDR
      BY <1>1, <1>2, <3>1, ControlRegisters
    <3>3. ram'[x] = ram[x]
      BY <1>3, <1>6, <3>1, <3>2
    <3> QED
      BY <1>1, <3>3 DEF ShownControl
  <2> QED
    BY <1>2, <2>1 DEF RegInv, InvControls
<1>13. \A p : InStore(p)' <=> InStore(p)
  BY <1>2 DEF InStore
<1>14. InvShown'
  <2>1. ASSUME NEW p \in AllPoints
        PROVE  At(ShownPoints(n, ram'), p) = At(ShownPoints(n, ram), p)
    BY <1>1, <1>2, <1>9, <1>10, ShownCell
  <2>2. ShownPoints(machine, ram)' = ShownPoints(n, ram')
    BY <1>2
  <2>3. ASSUME NEW p \in AllPoints
        PROVE  At(ShownPoints(n, ram'), p) = At(meant.points, p) \/ p \in lost \/ InStore(p)'
    BY <1>13, <2>1 DEF RegInv, InvShown
  <2> QED
    BY <1>2, <2>2, <2>3 DEF InvShown, At
<1>15. InvCopies'
  <2>1. ASSUME NEW x \in DOMAIN WrittenBy[n], NEW p, p = WrittenBy[n][x]
        PROVE  WriteOf(n, p) = x
    BY <1>1, <1>2, <2>1, WrittenCells
  <2> QED
    BY <1>2, <2>1 DEF InvCopies, WriteOf
<1>16. InvLost' /\ InvBeyond'
  BY <1>2 DEF RegInv, InvLost, InvBeyond
<1>17. InvStore'
  BY <1>2 DEF RegInv, InvStore, IsTableStore, StoredCell, Kept, At
<1>18. InvShared'
  BY <1>2 DEF RegInv, InvShared
<1> QED
  BY <1>11, <1>12, <1>14, <1>15, <1>16, <1>17, <1>18 DEF RegInv

(* A table that the firmware loads has copies that agree and ends where its *)
(* length says; it leaves the controls alone.                              *)
LEMMA LoadedCells ==
  ASSUME NEW n \in Machines, NEW m \in [Addresses[n] -> 0..255], NEW curve \in Curves
  PROVE  LET l == Loaded(n, m, curve)
         IN /\ l \in [Addresses[n] -> 0..255]
            /\ l[LOQ_CMDR_ADDR] = m[LOQ_CMDR_ADDR]
            /\ model[n].fancurve # "EC3" =>
                 \A x \in DOMAIN WrittenBy[n] : l[x] = l[WriteOf(n, WrittenBy[n][x])]
            /\ \A f \in OwnControls[n] :
                 l[ControlRegister(model[n], f)] = m[ControlRegister(model[n], f)]
            /\ n = "n2cn" =>
                 /\ l[WmiTableLength] = curve.size
                 /\ \A p \in Kept(n) : p[2] >= curve.size => l[ReadOf(n, p)] = 0
<1> DEFINE cells == IF model[n].fancurve = "EC3" THEN ReadBy[n] ELSE WrittenBy[n]
           used == IF HasSize(n) THEN curve.size ELSE MAXFANCURVESIZE
           Cell(p) == IF p[2] < used THEN At(curve.points, p) ELSE 0
           sizes == {SizeRegister(n), WmiTableLength}
           l == Loaded(n, m, curve)
           Byte(x) == CASE x \in DOMAIN cells -> Cell(cells[x])
                        [] x \in sizes -> curve.size
                        [] OTHER -> m[x]
<1>1. l = [x \in Addresses[n] |-> Byte(x)]
  BY DEF Loaded, At
<1>2. curve.size \in 0..255 /\ curve.points \in [Points -> [PointFiles -> 0..255]]
  BY CurvesAssumption
<1>3. \A p \in AllPoints : Cell(p) \in 0..255
  <2> SUFFICES ASSUME NEW p \in AllPoints PROVE Cell(p) \in 0..255
    OBVIOUS
  <2>1. p[1] \in PointFiles /\ p[2] \in Points
    BY KeptPoints
  <2>2. curve.points[p[2]] \in [PointFiles -> 0..255]
    BY <1>2, <2>1
  <2>3. At(curve.points, p) \in 0..255
    BY <2>1, <2>2 DEF At
  <2> QED
    BY <2>3
<1> HIDE DEF Cell
<1>4. \A x \in DOMAIN cells : cells[x] \in Kept(n) /\ x \notin sizes /\ x # LOQ_CMDR_ADDR
  BY WrittenCells, ReadCells, SpecialAddresses
<1>5. LOQ_CMDR_ADDR \notin DOMAIN cells /\ LOQ_CMDR_ADDR \notin sizes
  BY SpecialAddresses
<1>6. \A f \in OwnControls[n] : /\ ControlRegister(model[n], f) \notin DOMAIN cells
                                /\ ControlRegister(model[n], f) \notin sizes
                                /\ ControlRegister(model[n], f) \in Addresses[n]
  BY OwnRegisters, SpecialAddresses, AddressesInUse
<1>7. WmiTableLength \in sizes /\ WmiTableLength \in Addresses[n]
  BY AddressesInUse
<1>8. DOMAIN cells \subseteq Addresses[n]
  BY AddressesInUse
<1>9. model[n].fancurve # "EC3" => cells = WrittenBy[n]
  OBVIOUS
<1> HIDE DEF cells, sizes
<1>10. /\ \A x \in DOMAIN cells : Byte(x) = Cell(cells[x])
       /\ \A x \in sizes : x \notin DOMAIN cells => Byte(x) = curve.size
       /\ \A x : x \notin DOMAIN cells /\ x \notin sizes => Byte(x) = m[x]
  BY <1>4
<1> HIDE DEF Byte
<1>11. \A x \in Addresses[n] : Byte(x) \in 0..255
  <2> SUFFICES ASSUME NEW x \in Addresses[n] PROVE Byte(x) \in 0..255
    OBVIOUS
  <2>1. CASE x \in DOMAIN cells
    BY <1>3, <1>4, <1>10, <2>1, KeptPoints
  <2>2. CASE x \notin DOMAIN cells /\ x \in sizes
    BY <1>2, <1>10, <2>2
  <2>3. CASE x \notin DOMAIN cells /\ x \notin sizes
    BY <1>10, <2>3
  <2> QED
    BY <2>1, <2>2, <2>3
<1>12. l \in [Addresses[n] -> 0..255]
  BY <1>1, <1>11
<1>13. l[LOQ_CMDR_ADDR] = m[LOQ_CMDR_ADDR]
  BY <1>1, <1>5, <1>10, AddressesInUse
<1>14. \A x \in DOMAIN cells : l[x] = Cell(cells[x])
  BY <1>1, <1>8, <1>10
<1>15. ASSUME model[n].fancurve # "EC3"
       PROVE  /\ \A x \in DOMAIN WrittenBy[n] : l[x] = Cell(WrittenBy[n][x])
              /\ \A p \in Kept(n) : l[WriteOf(n, p)] = Cell(p)
  BY <1>9, <1>14, <1>15, WrittenCells
<1>16. \A f \in OwnControls[n] :
         l[ControlRegister(model[n], f)] = m[ControlRegister(model[n], f)]
  BY <1>1, <1>6, <1>10
<1>17. ASSUME n = "n2cn"
       PROVE  /\ l[WmiTableLength] = curve.size
              /\ \A p \in Kept(n) : p[2] >= curve.size => l[ReadOf(n, p)] = 0
  <2>1. model[n].fancurve = "WMI3"
    BY <1>17, SpeedOnlyModel
  <2>2. l[WmiTableLength] = curve.size
    BY <1>1, <1>4, <1>7, <1>10
  <2>3. \A p \in Kept(n) : l[ReadOf(n, p)] = Cell(p)
    BY <1>15, <2>1, ReadCells
  <2>4. \A p \in Kept(n) : p[2] >= curve.size => Cell(p) = 0
    <3> SUFFICES ASSUME NEW p \in Kept(n), p[2] >= curve.size PROVE Cell(p) = 0
      OBVIOUS
    <3>1. p[2] \in Int
      BY KeptPoints DEF Points
    <3>2. used = curve.size
      BY <1>17 DEF HasSize
    <3> QED
      BY <1>2, <3>1, <3>2 DEF Cell
  <2> QED
    BY <2>2, <2>3, <2>4
<1>18. model[n].fancurve # "EC3" =>
         \A x \in DOMAIN WrittenBy[n] : l[x] = l[WriteOf(n, WrittenBy[n][x])]
  BY <1>15, WrittenCells
<1> HIDE DEF l
<1> QED
  BY <1>12, <1>13, <1>16, <1>17, <1>18 DEF l

(* ... as the reader of the length sees it.                                *)
LEMMA LoadedBeyond ==
  ASSUME "n2cn" \in Machines, NEW m \in [Addresses["n2cn"] -> 0..255], NEW curve \in Curves
  PROVE  LET l == Loaded("n2cn", m, curve)
         IN /\ \A p \in Kept("n2cn") :
                 p[2] >= CurveSize("n2cn", l) => l[ReadOf("n2cn", p)] = 0
            /\ curve.size <= MAXFANCURVESIZE => CurveSize("n2cn", l) = curve.size
<1> DEFINE l == Loaded("n2cn", m, curve)
           s == curve.size
<1>1. s \in 0..255
  BY CurvesAssumption
<1>2. l[WmiTableLength] = s
  BY LoadedCells
<1>3. \A p \in Kept("n2cn") : p[2] >= s => l[ReadOf("n2cn", p)] = 0
  BY LoadedCells
<1>4. CurveSize("n2cn", l) = Min({s, 10})
  BY <1>2, SpeedOnlyModel DEF CurveSize, MAXFANCURVESIZE
<1>5. \A p \in Kept("n2cn") : p[2] \in 0..9
  BY KeptPoints DEF Points, MAXFANCURVESIZE
<1> HIDE DEF l, s
<1> DEFINE k == Min({s, 10})
<1>6. k \in {s, 10} /\ k <= s /\ k <= 10
  <2>1. s \in Int /\ 10 \in Int
    BY <1>1
  <2> QED
    BY <2>1, MinTwo, Zenon
<1> HIDE DEF k
<1>7. \A p \in Kept("n2cn") : p[2] >= k => p[2] >= s
  BY <1>1, <1>5, <1>6
<1>8. s <= 10 => k = s
  BY <1>1, <1>6
<1>9. /\ \A p \in Kept("n2cn") :
           p[2] >= CurveSize("n2cn", l) => l[ReadOf("n2cn", p)] = 0
      /\ s <= MAXFANCURVESIZE => CurveSize("n2cn", l) = s
  BY <1>3, <1>4, <1>7, <1>8 DEF k, MAXFANCURVESIZE
<1> QED
  BY <1>9 DEF l, s

(* The power mode changes.                                                 *)
LEMMA FirmwareLoadsKeeps ==
  ASSUME RegInv, FirmwareLoads
  PROVE  RegInv'
<1> DEFINE n == machine
<1>1. /\ n \in Machines /\ conf = model[n] /\ ram \in [Addresses[n] -> 0..255]
      /\ lost \subseteq AllPoints /\ ram[LOQ_CMDR_ADDR] \in CommandBytes
  BY DEF RegInv, InvTypes, conf
<1>2. /\ meant' = [meant EXCEPT !.points = ShownPoints(n, ram')]
      /\ lost' = IF AtRest THEN {} ELSE lost
      /\ UNCHANGED <<machine, store, fancurve, intended>>
      /\ conf' = conf
  BY DEF FirmwareLoads, conf
<1>3. PICK curve \in Curves : /\ n = "n2cn" => curve.size = CurveSize(n, ram)
                              /\ ram' = Loaded(n, ram, curve)
  BY DEF FirmwareLoads
<1>4. /\ ram' \in [Addresses[n] -> 0..255]
      /\ ram'[LOQ_CMDR_ADDR] = ram[LOQ_CMDR_ADDR]
      /\ conf.fancurve # "EC3" =>
           \A x \in DOMAIN WrittenBy[n] : ram'[x] = ram'[WriteOf(n, WrittenBy[n][x])]
      /\ \A f \in OwnControls[n] :
           ram'[ControlRegister(conf, f)] = ram[ControlRegister(conf, f)]
  BY <1>1, <1>3, LoadedCells
<1>5. n = "n2cn" =>
        /\ \A p \in Kept(n) : p[2] >= CurveSize(n, ram') => ram'[ReadOf(n, p)] = 0
        /\ CurveSize(n, ram') = CurveSize(n, ram)
  <2> SUFFICES ASSUME n = "n2cn"
               PROVE  /\ \A p \in Kept(n) :
                           p[2] >= CurveSize(n, ram') => ram'[ReadOf(n, p)] = 0
                      /\ CurveSize(n, ram') = CurveSize(n, ram)
    OBVIOUS
  <2>1. CurveSize(n, ram) <= MAXFANCURVESIZE
    BY <1>1, CurveSizeRange DEF MAXFANCURVESIZE
  <2> QED
    BY <1>1, <1>3, <2>1, LoadedBeyond
<1>6. meant' = [points |-> ShownPoints(n, ram'), controls |-> meant.controls]
  BY <1>2 DEF RegInv, InvTypes
<1>7. lost' \subseteq lost /\ (store # NoStore => lost' = lost)
  BY <1>2 DEF AtRest
<1>8. InvTypes'
  <2>1. meant' = [points |-> meant'.points, controls |-> meant'.controls]
    BY <1>6
  <2>2. (store # NoStore => IsRequest(machine, store))'
    BY <1>2 DEF RegInv, InvTypes
  <2>3. (IsTableStore => fancurve \in CurveTypes)'
    BY <1>2 DEF RegInv, InvTypes, IsTableStore, CurveTypes
  <2> QED
    BY <1>1, <1>2, <1>4, <1>7, <2>1, <2>2, <2>3 DEF InvTypes, CurveTypes
<1>9. InvControls'
  <2>1. \A f \in OwnControls[n] : ShownControl(n, ram', f) = ShownControl(n, ram, f)
    BY <1>1, <1>4 DEF ShownControl
  <2> QED
    BY <1>2, <1>6, <2>1 DEF RegInv, InvControls
<1>10. InvShown'
  BY <1>2, <1>6 DEF InvShown
<1>11. InvCopies'
  <2>1. ASSUME NEW x \in DOMAIN WrittenBy[n], NEW p, p = WrittenBy[n][x]
        PROVE  ram'[x] = ram'[WriteOf(n, p)]
    <3>1. CASE conf.fancurve = "EC3"
      BY <1>1, <2>1, <3>1, WrittenCells
    <3>2. CASE conf.fancurve # "EC3"
      BY <1>4, <2>1, <3>2
    <3> QED
      BY <3>1, <3>2
  <2> QED
    BY <1>2, <2>1 DEF InvCopies, WriteOf
<1>12. InvLost'
  BY <1>2, <1>7 DEF RegInv, InvLost
<1>13. InvBeyond'
  BY <1>2, <1>5 DEF InvBeyond, ReadOf, Kept
<1>14. InvStore'
  <2> SUFFICES ASSUME IsTableStore PROVE InvStore'
    BY <1>2 DEF InvStore, IsTableStore
  <2>1. lost' = lost
    BY <1>7, FileNames DEF IsTableStore
  <2>2. \A p : StoredCell(p)' = StoredCell(p)
    BY <1>2 DEF StoredCell, At
  <2> QED
    BY <1>2, <1>5, <2>1, <2>2 DEF RegInv, InvStore, IsTableStore, Kept, At
<1>15. InvShared'
  <2> SUFFICES ASSUME store.file \in Controls PROVE InvShared'
    BY <1>2 DEF InvShared
  <2>1. lost' = lost
    BY <1>7, FileNames
  <2> QED
    BY <1>2, <2>1 DEF RegInv, InvShared
<1> QED
  BY <1>8, <1>9, <1>10, <1>11, <1>12, <1>13, <1>14, <1>15 DEF RegInv

(* The invariant is about these variables.                                 *)
LEMMA RegistersUnchanged ==
  ASSUME RegInv, UNCHANGED registerVars
  PROVE  RegInv'
<1>1. UNCHANGED <<machine, ram, store, fancurve, meant, intended, lost>> /\ conf' = conf
  BY DEF registerVars, historyVars, conf
<1>2. (IsTableStore' <=> IsTableStore) /\ \A p : (InStore(p)' <=> InStore(p))
  BY <1>1 DEF IsTableStore, InStore
<1>3. InvTypes'
  BY <1>1, <1>2 DEF RegInv, InvTypes
<1>4. InvControls'
  BY <1>1 DEF RegInv, InvControls
<1>5. InvShown'
  BY <1>1, <1>2 DEF RegInv, InvShown, At
<1>6. InvCopies'
  BY <1>1, <1>2 DEF RegInv, InvCopies
<1>7. InvLost' /\ InvBeyond'
  BY <1>1 DEF RegInv, InvLost, InvBeyond
<1>8. InvStore'
  BY <1>1, <1>2 DEF RegInv, InvStore, StoredCell, Kept, At
<1>9. InvShared'
  BY <1>1 DEF RegInv, InvShared
<1> QED
  BY <1>3, <1>4, <1>5, <1>6, <1>7, <1>8, <1>9 DEF RegInv

(* The registers before the driver is used.                                *)
LEMMA PowerOn ==
  ASSUME NEW n \in Machines
  PROVE  LET m == [x \in Addresses[n] |->
                     CASE x = LOQ_CMDR_ADDR -> \h20
                       [] x \in Counters(model[n]) -> 1
                       [] x = model[n].registers.MINIFANCURVE -> \hA0
                       [] OTHER -> 0]
         IN m \in [Addresses[n] -> 0..255] /\ m[LOQ_CMDR_ADDR] = \h20
<1> DEFINE Byte(x) == CASE x = LOQ_CMDR_ADDR -> \h20
                        [] x \in Counters(model[n]) -> 1
                        [] x = model[n].registers.MINIFANCURVE -> \hA0
                        [] OTHER -> 0
<1>1. ControlRegister(model[n], "minifancurve") = model[n].registers.MINIFANCURVE
  BY DEF ControlRegister
<1>2. "minifancurve" \in Controls
  BY DEF Controls
<1>3. /\ LOQ_CMDR_ADDR \notin Counters(model[n])
      /\ model[n].registers.MINIFANCURVE \notin Counters(model[n])
  BY <1>1, <1>2, SpecialAddresses
<1>4. LOQ_CMDR_ADDR # model[n].registers.MINIFANCURVE
  BY <1>1, <1>2, ControlRegisters
<1>5. Byte(LOQ_CMDR_ADDR) = \h20 /\ \A x : Byte(x) \in 0..255
  BY <1>3, <1>4
<1> HIDE DEF Byte
<1> QED
  BY <1>5, AddressesInUse DEF Byte

(* The driver starts with the invariant.                                   *)
LEMMA RegistersStart ==
  ASSUME RegistersInit
  PROVE  RegInv
<1> DEFINE n == machine
<1>1. /\ n \in Machines /\ conf = model[n]
      /\ store = NoStore /\ meant = Shown(n, ram) /\ lost = {}
  BY DEF RegistersInit, conf
<1>2. PICK curve \in Curves : ram = AtPowerOn(n, curve)
  BY DEF RegistersInit
<1>3. \E m \in [Addresses[n] -> 0..255] :
        m[LOQ_CMDR_ADDR] = \h20 /\ ram = Loaded(n, m, curve)
  BY <1>1, <1>2, PowerOn DEF AtPowerOn
<1>4. PICK m \in [Addresses[n] -> 0..255] :
        m[LOQ_CMDR_ADDR] = \h20 /\ ram = Loaded(n, m, curve)
  BY <1>3
<1>5. /\ ram \in [Addresses[n] -> 0..255]
      /\ ram[LOQ_CMDR_ADDR] = \h20
      /\ conf.fancurve # "EC3" =>
           \A x \in DOMAIN WrittenBy[n] : ram[x] = ram[WriteOf(n, WrittenBy[n][x])]
  BY <1>1, <1>4, LoadedCells
<1>6. n = "n2cn" =>
        \A p \in Kept(n) : p[2] >= CurveSize(n, ram) => ram[ReadOf(n, p)] = 0
  BY <1>1, <1>4, LoadedBeyond
<1>7. store.file \notin CurveFiles /\ store.file \notin Controls
  BY <1>1, FileNames
<1>8. InvTypes
  BY <1>1, <1>5, <1>7 DEF InvTypes, IsTableStore, CommandBytes, Shown
<1>9. InvControls
  BY <1>1 DEF InvControls, Shown
<1>10. InvShown
  BY <1>1 DEF InvShown, Shown
<1>11. InvCopies
  <2>1. ASSUME NEW x \in DOMAIN WrittenBy[n], NEW p, p = WrittenBy[n][x]
        PROVE  ram[x] = ram[WriteOf(n, p)]
    <3>1. CASE conf.fancurve = "EC3"
      BY <1>1, <2>1, <3>1, WrittenCells
    <3>2. CASE conf.fancurve # "EC3"
      BY <1>5, <2>1, <3>2
    <3> QED
      BY <3>1, <3>2
  <2> QED
    BY <2>1 DEF InvCopies
<1>12. InvLost /\ InvBeyond
  BY <1>1, <1>6 DEF InvLost, InvBeyond
<1>13. InvStore /\ InvShared
  BY <1>7 DEF InvStore, IsTableStore, InvShared
<1> QED
  BY <1>8, <1>9, <1>10, <1>11, <1>12, <1>13 DEF RegInv

(***************************************************************************)
(* The writer: its curve has ten points at most, and what it asks for is a *)
(* store to a file that exists.                                            *)
(***************************************************************************)

(* A set of numbers up to ten has a greatest one.                          *)
LEMMA MaxOfBounded ==
  ASSUME NEW S, S \subseteq 0..10, 0 \in S
  PROVE  Max(S) \in 0..10 /\ Max(S) \in S
<1>1. \E x \in S : \A y \in S : x >= y
  <2> SUFFICES ASSUME \A x \in S : \E y \in S : y > x PROVE FALSE
    OBVIOUS
  <2>1. \A x \in 10..10 : x \notin S
    OBVIOUS
  <2>2. \A x \in 9..10 : x \notin S
    BY <2>1
  <2>3. \A x \in 8..10 : x \notin S
    BY <2>2
  <2>4. \A x \in 7..10 : x \notin S
    BY <2>3
  <2>5. \A x \in 6..10 : x \notin S
    BY <2>4
  <2>6. \A x \in 5..10 : x \notin S
    BY <2>5
  <2>7. \A x \in 4..10 : x \notin S
    BY <2>6
  <2>8. \A x \in 3..10 : x \notin S
    BY <2>7
  <2>9. \A x \in 2..10 : x \notin S
    BY <2>8
  <2>10. \A x \in 1..10 : x \notin S
    BY <2>9
  <2> QED
    BY <2>10
<1>2. Max(S) \in S
  BY <1>1 DEF Max
<1> QED
  BY <1>2

(* The curve without its empty entries is not longer.                      *)
LEMMA TrimmedLength ==
  ASSUME NEW es, DOMAIN es \subseteq 1..10
  PROVE  /\ Len(Trimmed(es)) \in 0..10
         /\ Trimmed(es) # << >> => Len(Trimmed(es)) \in 1..10
<1> DEFINE S == {0} \cup {i \in DOMAIN es : ~IsEmpty(es[i])}
           k == Max(S)
           t == SubSeq(es, 1, k)
           V == {es[i] : i \in 1..k}
<1>1. S \subseteq 0..10 /\ 0 \in S
  OBVIOUS
<1> HIDE DEF S
<1>2. k \in 0..10
  BY <1>1, MaxOfBounded
<1> HIDE DEF k
<1>3. \A i \in 1..k : es[i] \in V
  OBVIOUS
<1> HIDE DEF V
<1>4. t \in Seq(V) /\ Len(t) = IF 1 <= k THEN k - 1 + 1 ELSE 0
  BY <1>2, <1>3, SubSeqProperties
<1> HIDE DEF t
<1>5. Len(t) \in 0..10 /\ (t # << >> => Len(t) \in 1..10)
  BY <1>2, <1>4, EmptySeq
<1> QED
  BY <1>5 DEF Trimmed, t, k, S

(* A point has one file or ten.                                            *)
LEMMA OrderFiles ==
  ASSUME NEW n
  PROVE  /\ Len(Order(n)) \in {1, 10}
         /\ \A j \in 1..Len(Order(n)) : Order(n)[j] \in PointFiles
<1>1. CASE IsSpeedOnly(n)
  <2>1. Order(n) = <<"pwm1">>
    BY <1>1 DEF Order
  <2> QED
    BY <2>1 DEF PointFiles, Speeds
<1>2. CASE ~IsSpeedOnly(n)
  <2>1. Order(n) = PointOrder
    BY <1>2 DEF Order
  <2>2. Len(PointOrder) = 10
    BY DEF PointOrder
  <2>3. \A j \in 1..10 : PointOrder[j] \in PointFiles
    BY DEF PointOrder, PointFiles, Speeds, Temps, MaxTemps, Ramps
  <2> QED
    BY <2>1, <2>2, <2>3
<1> QED
  BY <1>1, <1>2

(* The number of files to write.                                           *)
LEMMA LastFileRange ==
  ASSUME Len(entries) \in 0..10
  PROVE  LastFile \in Nat /\ (Len(entries) # 0 => LastFile >= 1)
<1> DEFINE w == Len(Order(machine))
           l == Len(entries)
<1>1. w = 1 \/ w = 10
  BY OrderFiles
<1> HIDE DEF w, l
<1>2. l \in 0..10
  BY DEF l
<1>3. l * w \in Nat /\ (l # 0 => l * w >= 1)
  BY <1>1, <1>2
<1> QED
  BY <1>3 DEF LastFile, w, l

(* The writer's next file is a file of a point, or minifancurve.           *)
LEMMA WriterAsks ==
  ASSUME InvWriter, phase = "writing"
  PROVE  IsAsked(Request(next)) /\ Request(next).by = "writer"
<1>1. CASE next = 0
  <2>1. /\ Request(next).file = "minifancurve" /\ Request(next).point = 0
        /\ Request(next).by = "writer" /\ Request(next).value = enable_minifancurve
    BY <1>1 DEF Request
  <2>2. enable_minifancurve \in {0, 1}
    BY DEF InvWriter
  <2> QED
    BY <2>1, <2>2 DEF IsAsked, Controls, Points, MAXFANCURVESIZE
<1>2. CASE next # 0
  <2> DEFINE w == Len(Order(machine))
             l == Len(entries)
             j == ((next - 1) % w) + 1
             i == (next - 1) \div w
             f == Order(machine)[j]
  <2>1. /\ l \in 0..10 /\ next \in Nat /\ next >= 1 /\ next <= l * w
        /\ w = 1 \/ w = 10
    <3>1. Len(entries) \in 0..10
      BY DEF InvWriter, MAXFANCURVESIZE
    <3>2. LastFile \in Nat
      BY <3>1, LastFileRange
    <3>3. next \in 0..(LastFile + 1) /\ next <= LastFile
      BY DEF InvWriter
    <3> QED
      BY <1>2, <3>1, <3>2, <3>3, OrderFiles DEF LastFile
  <2>2. Request(next).file = f /\ Request(next).point = i /\ Request(next).by = "writer"
    BY <1>2 DEF Request, PointRequest
  <2> HIDE DEF f
  <2> HIDE DEF w, l
  <2>3. i \in 0..9 /\ j \in 1..w
    <3>1. CASE w = 1
      BY <2>1, <3>1
    <3>2. CASE w = 10
      BY <2>1, <3>2
    <3> QED
      BY <2>1, <3>1, <3>2
  <2> HIDE DEF i, j
  <2>4. f \in PointFiles
    BY <2>3, OrderFiles DEF f, w
  <2>5. f \notin Controls
    BY <2>4, FileNames DEF CurveFiles
  <2> QED
    BY <2>2, <2>3, <2>4, <2>5 DEF IsAsked, CurveFiles, Points, MAXFANCURVESIZE
<1> QED
  BY <1>1, <1>2

(* The writer starts.                                                      *)
LEMMA StartsKeeps ==
  ASSUME IInv, NEW es, DOMAIN es \subseteq 1..10, NEW mini \in {0, 1}, NEW read,
         Starts(es, mini, read)
  PROVE  IInv'
<1>1. RegInv'
  BY RegistersUnchanged DEF IInv, Starts
<1>2. /\ entries' = Trimmed(es) /\ enable_minifancurve' = mini
      /\ phase' = "writing" /\ next' \in {0, 1} /\ machine' = machine
      /\ store' = NoStore /\ Trimmed(es) # << >>
  BY DEF Starts, registerVars, AtRest
<1>3. Len(entries') \in 1..10
  BY <1>2, TrimmedLength
<1>4. LastFile' \in Nat /\ LastFile' >= 1
  <2> DEFINE w == Len(Order(machine))
             l == Len(entries')
  <2>1. LastFile' = l * w
    BY <1>2 DEF LastFile
  <2>2. w = 1 \/ w = 10
    BY OrderFiles
  <2> HIDE DEF w, l
  <2>3. l \in 1..10
    BY <1>3 DEF l
  <2>4. l * w \in Nat /\ l * w >= 1
    BY <2>2, <2>3
  <2> QED
    BY <2>1, <2>4
<1>5. Len(entries') \in 0..MAXFANCURVESIZE
  BY <1>3 DEF MAXFANCURVESIZE
<1>6. next' \in 0..(LastFile' + 1) /\ next' <= LastFile'
  <2>1. \A k \in Nat, j \in {0, 1} : k >= 1 => j \in 0..(k + 1) /\ j <= k
    OBVIOUS
  <2> QED
    BY <1>2, <1>4, <2>1
<1>7. InvWriter'
  BY <1>2, <1>5, <1>6 DEF InvWriter
<1> QED
  BY <1>1, <1>7 DEF IInv

(* The writer has heard of its store.                                      *)
LEMMA WriterKeeps ==
  ASSUME InvWriter, NEW result, WriterHears(result), phase = "writing",
         store' = NoStore, machine' = machine
  PROVE  InvWriter'
<1>1. /\ LastFile' = LastFile /\ entries' = entries
      /\ enable_minifancurve' = enable_minifancurve
  BY DEF WriterHears, presetVars, LastFile
<1>2. LastFile \in Nat
  BY LastFileRange DEF InvWriter, MAXFANCURVESIZE
<1>3. next \in 0..LastFile
  BY <1>2 DEF InvWriter
<1>4. \/ phase' = "failed" /\ next' = next
      \/ next' = next + 1 /\ next = LastFile /\ phase' = "done"
      \/ next' = next + 1 /\ next # LastFile /\ phase' = "writing"
  BY DEF WriterHears
<1>5. /\ next' \in 0..(LastFile + 1) /\ phase' \in {"idle", "writing", "done", "failed"}
      /\ phase' = "writing" => next' <= LastFile
  BY <1>2, <1>3, <1>4
<1> QED
  BY <1>1, <1>5 DEF InvWriter

(* Nothing of the writer changes.                                          *)
LEMMA WriterWaits ==
  ASSUME InvWriter, UNCHANGED <<entries, enable_minifancurve, next, phase, machine>>,
         store' # NoStore /\ store'.by = "writer" => phase = "writing"
  PROVE  InvWriter'
<1>1. LastFile' = LastFile
  BY DEF LastFile
<1> QED
  BY <1>1 DEF InvWriter

(***************************************************************************)
(* The actions, one by one.                                                *)
(***************************************************************************)

(* Initially the invariant holds.                                          *)
LEMMA InitIInv ==
  ASSUME Init
  PROVE  IInv
<1>1. RegInv
  BY RegistersStart DEF Init
<1>2. entries = << >> /\ next = 0 /\ phase = "idle" /\ store = NoStore
      /\ enable_minifancurve = 1
  BY DEF Init, RegistersInit
<1>3. Len(entries) = 0
  BY <1>2
<1>4. LastFile \in Nat
  BY <1>3, LastFileRange
<1>5. InvWriter
  BY <1>2, <1>3, <1>4 DEF InvWriter, MAXFANCURVESIZE
<1> QED
  BY <1>1, <1>5 DEF IInv

(* A preset is to be written.                                              *)
LEMMA StartPresetKeeps ==
  ASSUME IInv, StartPreset
  PROVE  IInv'
<1>1. PICK preset \in Presets : Starts(preset.entries, preset.minifancurve, FALSE)
  BY DEF StartPreset
<1>2. /\ preset.entries \in Seq([PointFiles -> Int]) /\ Len(preset.entries) <= 10
      /\ preset.minifancurve \in {0, 1}
  BY PresetsAssumption DEF MAXFANCURVESIZE
<1>3. DOMAIN preset.entries = 1..Len(preset.entries) /\ Len(preset.entries) \in Nat
  BY <1>2, LenProperties
<1>4. DOMAIN preset.entries \subseteq 1..10
  BY <1>2, <1>3
<1> QED
  BY <1>1, <1>2, <1>4, StartsKeeps

(* A curve that was just read is to be written back.                       *)
LEMMA StartReadBackKeeps ==
  ASSUME IInv, StartReadBack
  PROVE  IInv'
<1>1. PICK junk :
        Starts(ReadEntries(ReadCurve(machine, ram, junk)), ReadMiniFanCurve, TRUE)
  BY DEF StartReadBack
<1> DEFINE es == ReadEntries(ReadCurve(machine, ram, junk))
<1>2. DOMAIN es \subseteq 1..10
  BY DEF ReadEntries, MAXFANCURVESIZE
<1>3. ReadMiniFanCurve \in {0, 1}
  BY DEF ReadMiniFanCurve
<1> HIDE DEF es
<1>4. Starts(es, ReadMiniFanCurve, TRUE)
  BY <1>1 DEF es
<1> QED
  BY <1>2, <1>3, <1>4, StartsKeeps

(* The writer stores, or is refused.                                       *)
LEMMA WriterStoresKeeps ==
  ASSUME IInv, WriterStores
  PROVE  IInv'
<1>1. RegInv /\ InvWriter /\ phase = "writing"
  BY DEF IInv, WriterStores
<1>2. IsAsked(Request(next)) /\ Request(next).by = "writer"
  BY <1>1, WriterAsks
<1>3. CASE Begin(Request(next)) /\ UNCHANGED <<presetVars, next, phase, start, disturbed>>
  <2>1. RegInv'
    BY <1>1, <1>2, <1>3, BeginKeeps
  <2>2. machine' = machine
    BY <1>3 DEF Begin
  <2>3. InvWriter'
    BY <1>1, <1>3, <2>2, WriterWaits DEF presetVars
  <2> QED
    BY <2>1, <2>3 DEF IInv
<1>4. CASE Refuse(Request(next)) /\ WriterHears("error")
  <2>1. UNCHANGED registerVars /\ store = NoStore
    BY <1>4 DEF Refuse, AtRest
  <2>2. RegInv'
    BY <1>1, <2>1, RegistersUnchanged
  <2>3. store' = NoStore /\ machine' = machine
    BY <2>1 DEF registerVars
  <2>4. InvWriter'
    BY <1>1, <1>4, <2>3, WriterKeeps
  <2> QED
    BY <2>2, <2>4 DEF IInv
<1> QED
  BY <1>3, <1>4 DEF WriterStores

(* Another user stores.                                                    *)
LEMMA UserStoreKeeps ==
  ASSUME IInv, UserStore
  PROVE  IInv'
<1>1. PICK r \in UserStores : Begin(r)
  BY DEF UserStore
<1>2. IsAsked(r) /\ r.by # "writer"
  BY UserStoresAssumption DEF IsAsked, CurveFiles
<1>3. RegInv'
  BY <1>1, <1>2, BeginKeeps DEF IInv
<1>4. /\ machine' = machine /\ store' = r
      /\ UNCHANGED <<entries, enable_minifancurve, next, phase>>
  BY <1>1 DEF Begin, UserStore, presetVars
<1>5. InvWriter'
  BY <1>2, <1>4, WriterWaits DEF IInv
<1> QED
  BY <1>3, <1>5 DEF IInv

(* A store ends, well or not: the writer hears of it if it is its own.     *)
LEMMA StoreEnds ==
  ASSUME InvWriter, NEW result, Hears(result), Unlock, store # NoStore
  PROVE  InvWriter'
<1>1. store' = NoStore /\ machine' = machine
  BY DEF Unlock
<1>2. CASE store.by = "writer"
  <2>1. phase = "writing" /\ WriterHears(result)
    BY <1>2 DEF InvWriter, Hears
  <2> QED
    BY <1>1, <2>1, WriterKeeps
<1>3. CASE store.by # "writer"
  <2>1. UNCHANGED <<entries, enable_minifancurve, next, phase, machine>>
    BY <1>1, <1>3 DEF Hears, writerVars, presetVars
  <2> QED
    BY <1>1, <2>1, WriterWaits
<1> QED
  BY <1>2, <1>3

(* A store ends well.                                                      *)
LEMMA StoreFinishesKeeps ==
  ASSUME IInv, StoreFinishes
  PROVE  IInv'
<1>1. RegInv'
  BY FinishCurveKeeps, FinishControlKeeps DEF IInv, StoreFinishes
<1>2. store.file \in CurveFiles \cup Controls /\ Unlock
  BY DEF StoreFinishes, FinishCurve, FinishControl, CurveFiles
<1>3. store # NoStore
  BY <1>2, FileNames
<1>4. InvWriter'
  BY <1>2, <1>3, StoreEnds DEF IInv, StoreFinishes
<1> QED
  BY <1>1, <1>4 DEF IInv

(* A store fails.                                                          *)
LEMMA StoreFailsKeeps ==
  ASSUME IInv, StoreFails
  PROVE  IInv'
<1>1. RegInv'
  BY WmiFailsKeeps DEF IInv, StoreFails
<1>2. store # NoStore /\ Unlock
  BY DEF StoreFails, WmiFails, AtRest
<1>3. InvWriter'
  BY <1>2, StoreEnds DEF IInv, StoreFails
<1> QED
  BY <1>1, <1>3 DEF IInv

(* The firmware takes a table that was waiting.                            *)
LEMMA FirmwareExecutesKeeps ==
  ASSUME IInv, FirmwareExecutes
  PROVE  IInv'
<1>1. RegInv'
  BY ExecuteKeeps DEF IInv, FirmwareExecutes
<1>2. UNCHANGED <<machine, store, entries, enable_minifancurve, next, phase>>
  BY DEF FirmwareExecutes, Execute, writerVars, presetVars
<1>3. InvWriter'
  <2>1. store' # NoStore /\ store'.by = "writer" => phase = "writing"
    BY <1>2 DEF IInv, InvWriter
  <2> QED
    BY <1>2, <2>1, WriterWaits DEF IInv
<1> QED
  BY <1>1, <1>3 DEF IInv

(* The power mode changes under the writer.                                *)
LEMMA PowerModeChangesKeeps ==
  ASSUME IInv, PowerModeChanges
  PROVE  IInv'
<1>1. RegInv'
  BY FirmwareLoadsKeeps DEF IInv, PowerModeChanges
<1>2. UNCHANGED <<machine, store, entries, enable_minifancurve, next, phase>>
  BY DEF PowerModeChanges, FirmwareLoads, presetVars
<1>3. InvWriter'
  <2>1. store' # NoStore /\ store'.by = "writer" => phase = "writing"
    BY <1>2 DEF IInv, InvWriter
  <2> QED
    BY <1>2, <2>1, WriterWaits DEF IInv
<1> QED
  BY <1>1, <1>3 DEF IInv

(* Steps of nothing.                                                       *)
LEMMA StutteringKeeps ==
  ASSUME IInv, UNCHANGED vars
  PROVE  IInv'
<1>1. UNCHANGED registerVars
  BY DEF vars
<1>2. UNCHANGED <<machine, store, entries, enable_minifancurve, next, phase>>
  BY DEF vars, registerVars, writerVars, presetVars
<1>3. RegInv'
  BY <1>1, RegistersUnchanged DEF IInv
<1>4. InvWriter'
  <2>1. store' # NoStore /\ store'.by = "writer" => phase = "writing"
    BY <1>2 DEF IInv, InvWriter
  <2> QED
    BY <1>2, <2>1, WriterWaits DEF IInv
<1> QED
  BY <1>3, <1>4 DEF IInv

(* Every step keeps the invariant.                                         *)
LEMMA NextKeepsIInv ==
  ASSUME IInv, [Next]_vars
  PROVE  IInv'
<1>1. CASE StartPreset
  BY <1>1, StartPresetKeeps
<1>2. CASE StartReadBack
  BY <1>2, StartReadBackKeeps
<1>3. CASE WriterStores
  BY <1>3, WriterStoresKeeps
<1>4. CASE UserStore
  BY <1>4, UserStoreKeeps
<1>5. CASE StoreFinishes
  BY <1>5, StoreFinishesKeeps
<1>6. CASE StoreFails
  BY <1>6, StoreFailsKeeps
<1>7. CASE FirmwareExecutes
  BY <1>7, FirmwareExecutesKeeps
<1>8. CASE PowerModeChanges
  BY <1>8, PowerModeChangesKeeps
<1>9. CASE UNCHANGED vars
  BY <1>9, StutteringKeeps
<1> QED
  BY <1>1, <1>2, <1>3, <1>4, <1>5, <1>6, <1>7, <1>8, <1>9 DEF Next

(* The invariant holds in every reachable state.                           *)
LEMMA Invariance == Spec => []IInv
<1>1. Init => IInv
  BY InitIInv
<1>2. IInv /\ [Next]_vars => IInv'
  BY NextKeepsIInv
<1> QED
  BY <1>1, <1>2, PTL DEF Spec

(* The invariant implies the properties.                                   *)
LEMMA IInvTypeOK == IInv => TypeOK
<1> SUFFICES ASSUME IInv PROVE TypeOK
  OBVIOUS
<1>1. InvTypes /\ InvWriter
  BY DEF IInv, RegInv
<1>2. machine \in Machines /\ \A x \in DOMAIN ram : ram[x] \in 0..255
  BY <1>1 DEF InvTypes
<1>3. ram[LOQ_CMDR_ADDR] \in {\h20, \h21, \h30, \h31}
  BY <1>1 DEF InvTypes, CommandBytes
<1>4. ASSUME store # NoStore, store.file \notin Controls
      PROVE  /\ fancurve.size \in 0..MAXFANCURVESIZE
             /\ \A i \in Points, a \in PointFiles : fancurve.points[i][a] \in 0..255
  <2>1. IsTableStore
    BY <1>1, <1>4 DEF InvTypes, IsRequest, IsTableStore
  <2>2. /\ fancurve.size \in 0..MAXFANCURVESIZE
        /\ fancurve.points \in [Points -> [PointFiles -> 0..255]]
    BY <1>1, <2>1 DEF InvTypes
  <2> QED
    BY <2>2
<1>5. lost \subseteq PointFiles \X Points
  BY <1>1 DEF InvTypes, AllPoints
<1>6. RegistersTypeOK
  BY <1>2, <1>3, <1>4, <1>5 DEF RegistersTypeOK
<1> QED
  BY <1>1, <1>6 DEF TypeOK, InvWriter

(* Between stores no cell is being stored to.                              *)
LEMMA RestHasNoStore ==
  ASSUME AtRest
  PROVE  \A p \in AllPoints : ~InStore(p)
BY FileNames DEF AtRest, InStore

(* No control is without its register, no cell without what is meant.      *)
LEMMA IInvShownIsMeant == IInv => ShownIsMeant
<1> SUFFICES ASSUME IInv, AtRest PROVE ShownIsMeant
  BY DEF ShownIsMeant
<1>1. InvControls /\ InvShown
  BY DEF IInv, RegInv
<1>2. Shown(machine, ram).controls = meant.controls
  BY <1>1 DEF InvControls, Shown
<1>3. ASSUME NEW i \in Points, NEW a \in PointFiles
      PROVE  Shown(machine, ram).points[i][a] = meant.points[i][a] \/ <<a, i>> \in lost
  <2> DEFINE p == <<a, i>>
  <2>1. p \in AllPoints
    BY DEF AllPoints
  <2>2. At(ShownPoints(machine, ram), p) = At(meant.points, p) \/ p \in lost
    BY <1>1, <2>1, RestHasNoStore DEF InvShown
  <2> QED
    BY <2>2 DEF At, Shown
<1> QED
  BY <1>2, <1>3 DEF ShownIsMeant

(* No copy differs but of a lost cell.                                     *)
LEMMA IInvCopiesAgree == IInv => CopiesAgree
<1> SUFFICES ASSUME IInv, AtRest,
                    NEW x \in DOMAIN WrittenBy[machine],
                    NEW p, p = WrittenBy[machine][x]
             PROVE  ram[x] = ram[WriteCell[machine][p[2]][p[1]]] \/ p \in lost
  BY DEF CopiesAgree
<1>1. machine \in Machines /\ InvCopies
  BY DEF IInv, RegInv, InvTypes
<1>2. p \in AllPoints
  BY <1>1, WrittenCells, KeptPoints
<1> QED
  BY <1>1, <1>2, RestHasNoStore DEF InvCopies, WriteOf

(* Every register holds a byte, no conversion of a pwm value leaves its    *)
(* range, the command byte keeps its bits, the writer is where it can be.  *)
THEOREM FanPresetTypeCorrect == Spec => []TypeOK
  BY Invariance, IInvTypeOK, PTL

(* Whatever is stored by whom, to which file, on whichever model: between  *)
(* stores every file shows what the last successful store to it meant, but *)
(* for cells known to be lost.                                             *)
THEOREM FilesShowWhatWasStored == Spec => []ShownIsMeant
  BY Invariance, IInvShownIsMeant, PTL

(* Where a layout writes a value twice both copies agree between stores.   *)
THEOREM CopiesStayEqual == Spec => []CopiesAgree
  BY Invariance, IInvCopiesAgree, PTL

(***************************************************************************)
(* The writer.  While nobody else has changed the curve since it started   *)
(* the curve is determined by the number of the file that it writes next.  *)
(***************************************************************************)
Active == phase # "idle" /\ ~disturbed

(* The number of the store to a file: see Request.                         *)
Width(n) == Len(Order(n))
Place(n, a) == CHOOSE j \in 1..Width(n) : Order(n)[j] = a
NumberOf(n, p) == p[2] * Width(n) + Place(n, p[1])

(* The cells in use that the writer has files for, and what it asks of one. *)
Followed ==
  {p \in Kept(machine) : HasFile(machine, p[1]) /\ p[2] < CurveSize(machine, ram)}
WantedAt(p) == Wanted(p[2], p[1])

InvEntries == \A i \in 1..Len(entries), a \in PointFiles : entries[i][a] \in Int

(* A store in progress is that of the next file.                           *)
InvTurn == store # NoStore => store = Request(next) /\ phase = "writing"

InvDone == phase = "done" => next = LastFile + 1

(* A cell is as asked for once its file is written, and as before until    *)
(* then.                                                                   *)
InvProgress ==
  \A p \in Followed :
    \/ At(meant.points, p) =
         IF NumberOf(machine, p) < next THEN WantedAt(p) ELSE At(start, p)
    \/ p \in lost \/ InStore(p)

(* A store in progress means to change its own cell to that, and no other. *)
InvGoal ==
  IsTableStore =>
    \A p \in Followed :
      At(intended, p) = IF p = <<store.file, store.point>> THEN WantedAt(p)
                        ELSE At(meant.points, p)

(* The driver refuses speeds out of range, so those written are in range.  *)
InvAccepted ==
  \A p \in AllPoints :
    HasFile(machine, p[1]) /\ p[1] \in Speeds /\ NumberOf(machine, p) < next
      => PwmOf(entries[p[2] + 1][p[1]]) \in 0..255

InvMini ==
  "minifancurve" \in OwnControls[machine] /\ next >= 1
    => meant.controls["minifancurve"] = enable_minifancurve

(* What a curve that was read asks for is what was shown.                  *)
InvReadBack ==
  fromHardware /\ Unit(machine) # "PERCENT" =>
    \A p \in Followed :
      /\ p[2] < Len(entries)
      /\ p[1] \in Speeds => PwmOf(entries[p[2] + 1][p[1]]) \in 0..255
      => WantedAt(p) = At(start, p)

PresetInv ==
  Active => InvTurn /\ InvDone /\ InvProgress /\ InvGoal /\ InvAccepted
              /\ InvMini /\ InvReadBack
PresetIInv == InvEntries /\ PresetInv

(* The place of a file among those of its point.                           *)
LEMMA OrderPlaces ==
  ASSUME NEW n, NEW a \in PointFiles, HasFile(n, a)
  PROVE  /\ Place(n, a) \in 1..Width(n)
         /\ Order(n)[Place(n, a)] = a
         /\ \A j \in 1..Width(n) : Order(n)[j] = a => j = Place(n, a)
<1>1. \E j \in 1..Width(n) :
        Order(n)[j] = a /\ \A k \in 1..Width(n) : Order(n)[k] = a => k = j
  <2>1. CASE IsSpeedOnly(n)
    <3>1. a = "pwm1"
      BY <2>1 DEF HasFile, PointFiles, Speeds, Temps, MaxTemps, Ramps
    <3>2. Order(n) = <<"pwm1">>
      BY <2>1 DEF Order
    <3> QED
      BY <3>1, <3>2 DEF Width
  <2>2. CASE ~IsSpeedOnly(n)
    <3>1. Order(n) = PointOrder /\ Width(n) = 10
      BY <2>2 DEF Order, Width, PointOrder
    <3>2. \A j, k \in 1..10 : PointOrder[j] = PointOrder[k] => j = k
      BY DEF PointOrder
    <3>3. \E j \in 1..10 : PointOrder[j] = a
      BY PointFileCases DEF PointOrder
    <3> QED
      BY <3>1, <3>2, <3>3
  <2> QED
    BY <2>1, <2>2
<1> QED
  BY <1>1 DEF Place

(* The writer's k-th store to a point is the one with that number.         *)
LEMMA StoreNumber ==
  ASSUME NEW k \in Nat, k >= 1,
         NEW p \in AllPoints, HasFile(machine, p[1])
  PROVE  /\ p = <<Request(k).file, Request(k).point>> => k = NumberOf(machine, p)
         /\ k = NumberOf(machine, p) =>
              /\ Request(k).file = p[1] /\ Request(k).point = p[2]
              /\ Request(k).value = IF p[1] \in Speeds
                                      THEN PwmOf(entries[p[2] + 1][p[1]])
                                      ELSE entries[p[2] + 1][p[1]]
<1> DEFINE w == Width(machine)
           i == (k - 1) \div w
           j == ((k - 1) % w) + 1
           l == Place(machine, p[1])
           f == Order(machine)[j]
           v == entries[i + 1][f]
<1>1. w \in {1, 10} /\ p[1] \in PointFiles /\ p[2] \in 0..9 /\ p = <<p[1], p[2]>>
  BY OrderFiles, KeptPoints DEF Width, Points, MAXFANCURVESIZE
<1>2. /\ l \in 1..w /\ Order(machine)[l] = p[1]
      /\ \A m \in 1..w : Order(machine)[m] = p[1] => m = l
  BY <1>1, OrderPlaces
<1>3. /\ Request(k).file = f /\ Request(k).point = i
      /\ Request(k).value = IF f \in Speeds THEN PwmOf(v) ELSE v
  BY DEF Request, PointRequest, Width
<1>4. NumberOf(machine, p) = p[2] * w + l
  BY DEF NumberOf
<1> HIDE DEF w, l
<1>5. i = p[2] /\ j = l <=> k = p[2] * w + l
  <2>1. \A x \in 0..9, y \in 1..w :
          (k - 1) \div w = x /\ ((k - 1) % w) + 1 = y <=> k = x * w + y
    <3>1. CASE w = 1
      BY <3>1
    <3>2. CASE w = 10
      BY <3>2
    <3> QED
      BY <1>1, <3>1, <3>2
  <2> QED
    BY <1>1, <1>2, <2>1
<1>6. j \in 1..w
  <2>1. CASE w = 1
    BY <2>1
  <2>2. CASE w = 10
    BY <2>2
  <2> QED
    BY <1>1, <2>1, <2>2
<1> HIDE DEF i, j
<1>7. p = <<Request(k).file, Request(k).point>> => k = NumberOf(machine, p)
  <2> SUFFICES ASSUME p = <<f, i>> PROVE k = p[2] * w + l
    BY <1>3, <1>4
  <2>1. p[1] = f /\ p[2] = i
    OBVIOUS
  <2>2. j = l
    BY <1>2, <1>6, <2>1
  <2> QED
    BY <1>5, <2>1, <2>2
<1>8. ASSUME k = NumberOf(machine, p)
      PROVE  i = p[2] /\ f = p[1] /\ v = entries[p[2] + 1][p[1]]
  BY <1>2, <1>4, <1>5, <1>8
<1> HIDE DEF f, v
<1>9. k = NumberOf(machine, p) =>
        /\ Request(k).file = p[1] /\ Request(k).point = p[2]
        /\ Request(k).value = IF p[1] \in Speeds
                                THEN PwmOf(entries[p[2] + 1][p[1]])
                                ELSE entries[p[2] + 1][p[1]]
  BY <1>3, <1>8
<1> QED
  BY <1>7, <1>9

(* Stores are numbered from one, those to a point before those to the next. *)
LEMMA NumberRange ==
  ASSUME NEW p \in AllPoints, HasFile(machine, p[1])
  PROVE  /\ NumberOf(machine, p) \in Nat /\ NumberOf(machine, p) >= 1
         /\ \A q \in AllPoints :
              HasFile(machine, q[1]) /\ NumberOf(machine, p) < NumberOf(machine, q)
                => p[2] <= q[2]
         /\ Len(entries) \in 0..10 =>
              (NumberOf(machine, p) < LastFile + 1 <=> p[2] < Len(entries))
<1> DEFINE w == Width(machine)
           l == Len(entries)
<1>1. w \in {1, 10} /\ p[1] \in PointFiles /\ p[2] \in 0..9
  BY OrderFiles, KeptPoints DEF Width, Points, MAXFANCURVESIZE
<1>2. LastFile = l * w
  BY DEF LastFile, Width
<1> HIDE DEF w, l
<1>3. ASSUME NEW q \in AllPoints, HasFile(machine, q[1])
      PROVE  \E j \in 1..w : NumberOf(machine, q) = q[2] * w + j /\ q[2] \in 0..9
  <2>1. q[1] \in PointFiles /\ q[2] \in 0..9
    BY KeptPoints DEF Points, MAXFANCURVESIZE
  <2>2. Place(machine, q[1]) \in 1..w
    BY <1>3, <2>1, OrderPlaces DEF w
  <2>3. NumberOf(machine, q) = q[2] * w + Place(machine, q[1])
    BY DEF NumberOf, w
  <2> QED
    BY <2>1, <2>2, <2>3
<1>4. PICK j \in 1..w : NumberOf(machine, p) = p[2] * w + j
  BY <1>3
<1>5. NumberOf(machine, p) \in Nat /\ NumberOf(machine, p) >= 1
  BY <1>1, <1>4
<1>6. ASSUME NEW q \in AllPoints, HasFile(machine, q[1]),
             NumberOf(machine, p) < NumberOf(machine, q)
      PROVE  p[2] <= q[2]
  <2>1. PICK m \in 1..w : NumberOf(machine, q) = q[2] * w + m /\ q[2] \in 0..9
    BY <1>3, <1>6
  <2> HIDE DEF LastFile
  <2>2. \A x, y \in 0..9, a, b \in 1..w : x * w + a < y * w + b => x <= y
    <3>1. CASE w = 1
      BY <3>1
    <3>2. CASE w = 10
      BY <3>2
    <3> QED
      BY <1>1, <3>1, <3>2
  <2> QED
    BY <1>1, <1>4, <1>6, <2>1, <2>2
<1>7. l \in 0..10 => (NumberOf(machine, p) < LastFile + 1 <=> p[2] < l)
  <2>1. \A x \in 0..9, y \in 0..10, a \in 1..w : x * w + a < y * w + 1 <=> x < y
    <3>1. CASE w = 1
      BY <3>1
    <3>2. CASE w = 10
      BY <3>2
    <3> QED
      BY <1>1, <3>1, <3>2
  <2> QED
    BY <1>1, <1>2, <1>4, <2>1
<1> QED
  BY <1>5, <1>6, <1>7 DEF l

(***************************************************************************)
(* The conversions of speeds, and the cells that a store of the writer     *)
(* means to change.                                                        *)
(***************************************************************************)

(* The percentages that pwm values are rounded to and shown as, and the    *)
(* speeds in hundreds of rpm.                                              *)
LEMMA HundredsKept ==
  \A h \in 0..100 :
    LET pwm == (h * 25500) \div 10000
        unit == (pwm * 10000 + 25499) \div 25500
        shown == (unit * 255 * 100) \div 10000
    IN (shown * 10000 + 25499) \div 25500 = h
OBVIOUS

(* A speed kept in percent, rounded down: it loses a step at most.         *)
LEMMA PercentsKept ==
  \A h \in 0..100 :
    LET pwm == (h * 25500) \div 10000
        unit == (pwm * 100) \div 255
        shown == (unit * 255) \div 100
        s == (shown * 10000 + 25499) \div 25500
    IN s = h \/ s = h - 1
OBVIOUS

(* A speed kept in percent, rounded to the nearest: it loses nothing.      *)
LEMMA NearestKept ==
  \A h \in 0..100 :
    LET pwm == (h * 25500) \div 10000
        unit == (pwm * 100 + 127) \div 255
        shown == (unit * 255) \div 100
    IN unit <= 100 /\ unit >= 0 /\ (shown * 10000 + 25499) \div 25500 = h
OBVIOUS

(* A speed in hundreds of rpm that is read and written again is the same.  *)
LEMMA RpmReadBack ==
  \A b \in 0..255 :
    LET q == (b * 255 * 100) \div 10000
        h == (q * 10000 + 25499) \div 25500
        g == (q * 10000 + 22499) \div 25500
        pwm == (b * 25500) \div 10000
    IN h = b /\ g = b /\ (pwm * 10000 + 25499) \div 25500 = b
OBVIOUS

(* So is one in percent, rounded to the nearest.                           *)
LEMMA NearestReadBack ==
  \A b \in 0..255 :
    LET q == (b * 255) \div 100
        h == (q * 10000 + 25499) \div 25500
        pwm == (b * 25500) \div 10000
    IN h = b /\ (pwm <= 255 => b <= 100) /\ (pwm * 100 + 127) \div 255 = b
OBVIOUS

(* The units.                                                              *)
LEMMA Units ==
  \A n : Unit(n) \in {"RPM_HUNDRED", "PERCENT", "PERCENT_NEAREST"}
<1> SUFFICES ASSUME NEW n
             PROVE  Unit(n) \in {"RPM_HUNDRED", "PERCENT", "PERCENT_NEAREST"}
  OBVIOUS
<1>1. CASE model[n].fancurve # "WMI3" /\ n # "n2cn"
  BY <1>1 DEF Unit
<1> QED
  BY DEF Unit

(* A percentage is not limited any further.                                *)
LEMMA MinHundred == \A x \in 0..100 : Min({x, 100}) = x
<1> SUFFICES ASSUME NEW x \in 0..100 PROVE Min({x, 100}) = x
  OBVIOUS
<1>1. Min({x, 100}) \in {x, 100} /\ Min({x, 100}) <= x
  BY MinTwo
<1> HIDE DEF Min
<1> QED
  BY <1>1

(* The conversion that rounds to the nearest, up to a hundred percent.     *)
LEMMA NearestUnit ==
  ASSUME NEW n, Unit(n) = "PERCENT_NEAREST", NEW pwm,
         (pwm * 100 + 127) \div 255 \in 0..100
  PROVE  ToUnit(n, pwm) = (pwm * 100 + 127) \div 255
<1> DEFINE unit == (pwm * 100 + 127) \div 255
<1>1. ToUnit(n, pwm) = Min({unit, 100})
  BY DEF ToUnit
<1>2. unit \in 0..100
  OBVIOUS
<1> HIDE DEF unit
<1>3. Min({unit, 100}) = unit
  BY <1>2, MinHundred
<1> QED
  BY <1>1, <1>3, Zenon DEF unit

(* A speed that is stored is shown in steps of 100 rpm; of a percentage it *)
(* may be one step less.                                                   *)
LEMMA SpeedKept ==
  ASSUME NEW n, NEW v \in Int, PwmOf(v) \in 0..255
  PROVE  (v \div 100) * 100 - Rpm1Of(FromUnit(n, ToUnit(n, PwmOf(v))))
           \in IF Unit(n) = "PERCENT" THEN {0, 100} ELSE {0}
<1> DEFINE h == v \div 100
           pwm == PwmOf(v)
<1>1. pwm = (h * 25500) \div 10000
  BY DEF PwmOf, MaxRpm
<1>2. h \in Int
  OBVIOUS
<1> HIDE DEF h
<1>3. h \in 0..100
  BY <1>1, <1>2
<1>4. pwm \in 0..255
  OBVIOUS
<1> SUFFICES h * 100 - Rpm1Of(FromUnit(n, ToUnit(n, pwm)))
               \in IF Unit(n) = "PERCENT" THEN {0, 100} ELSE {0}
  BY DEF h
<1> HIDE DEF pwm
<1>5. CASE Unit(n) = "RPM_HUNDRED"
  <2>1. Rpm1Of(FromUnit(n, ToUnit(n, pwm))) = h * 100
    BY <1>1, <1>3, <1>5, HundredsKept DEF Rpm1Of, FromUnit, ToUnit, MaxRpm
  <2> QED
    BY <1>3, <1>5, <2>1
<1>6. CASE Unit(n) = "PERCENT"
  <2>1. \/ Rpm1Of(FromUnit(n, ToUnit(n, pwm))) = h * 100
        \/ Rpm1Of(FromUnit(n, ToUnit(n, pwm))) = (h - 1) * 100
    BY <1>1, <1>3, <1>6, PercentsKept DEF Rpm1Of, FromUnit, ToUnit, MaxRpm
  <2> QED
    BY <1>3, <1>6, <2>1
<1>7. CASE Unit(n) = "PERCENT_NEAREST"
  <2> DEFINE unit == (pwm * 100 + 127) \div 255
  <2>1. unit \in 0..100 /\ (((unit * 255) \div 100) * 10000 + 25499) \div 25500 = h
    BY <1>1, <1>3, NearestKept
  <2> HIDE DEF unit
  <2>2. unit \in 0..100
    BY <2>1
  <2>3. ToUnit(n, pwm) = unit
    BY <1>7, <2>2, NearestUnit DEF unit
  <2>4. Rpm1Of(FromUnit(n, unit)) = h * 100
    BY <1>7, <2>1 DEF Rpm1Of, FromUnit, MaxRpm
  <2> QED
    BY <1>3, <1>7, <2>3, <2>4
<1> QED
  BY <1>5, <1>6, <1>7, Units

(* A speed that was shown and is stored again is the byte it was, but for  *)
(* percentages.  A percentage above 100 is shown but not accepted.         *)
LEMMA SpeedReadBack ==
  ASSUME NEW n, NEW b \in 0..255, Unit(n) # "PERCENT", NEW v, PwmOf(v) \in 0..255,
         \/ v = Rpm1Of(FromUnit(n, b))
         \/ v = Rpm2Of(FromUnit(n, b)) /\ Unit(n) = "RPM_HUNDRED"
  PROVE  ToUnit(n, PwmOf(v)) = b
<1>1. CASE Unit(n) = "RPM_HUNDRED"
  <2>1. v = b * 100
    BY <1>1, RpmReadBack DEF Rpm1Of, Rpm2Of, FromUnit, MaxRpm
  <2>2. PwmOf(v) = (b * 25500) \div 10000
    BY <2>1 DEF PwmOf, MaxRpm
  <2> QED
    BY <1>1, <2>2, RpmReadBack DEF ToUnit
<1>2. CASE Unit(n) = "PERCENT_NEAREST"
  <2>1. v = b * 100
    BY <1>2, NearestReadBack DEF Rpm1Of, FromUnit, MaxRpm
  <2>2. PwmOf(v) = (b * 25500) \div 10000
    BY <2>1 DEF PwmOf, MaxRpm
  <2> DEFINE pwm == PwmOf(v)
             unit == (pwm * 100 + 127) \div 255
  <2>3. unit = b /\ b \in 0..100
    BY <2>2, NearestReadBack
  <2> HIDE DEF unit, pwm
  <2>4. unit \in 0..100
    BY <2>3
  <2>5. ToUnit(n, pwm) = unit
    BY <1>2, <2>4, NearestUnit DEF unit
  <2> QED
    BY <2>3, <2>5 DEF pwm
<1> QED
  BY <1>1, <1>2, Units

(* The length that a table has for its readers depends on one byte.        *)
LEMMA LengthAlike ==
  ASSUME NEW n, NEW m, NEW w,
         w[SizeRegister(n)] = m[SizeRegister(n)], w[WmiTableLength] = m[WmiTableLength]
  PROVE  CurveSize(n, w) = CurveSize(n, m)
<1>1. model[n].fancurve = "EC" =>
        w[model[n].registers.POINTS_SIZE] = m[model[n].registers.POINTS_SIZE]
  BY DEF SizeRegister
<1> QED
  BY <1>1, SpeedOnlyModel DEF CurveSize

(* A table that is written for another file than the size keeps its length. *)
LEMMA WriteKeepsSize ==
  ASSUME NEW n \in Machines, NEW m \in [Addresses[n] -> 0..255], NEW fc
  PROVE  CurveSize(n, WriteCurve(n, m, fc, FALSE)) = CurveSize(n, m)
<1> DEFINE w == WriteCurve(n, m, fc, FALSE)
<1>1. \A x \in {SizeRegister(n), WmiTableLength} :
        /\ x \in DOMAIN m /\ x \notin DOMAIN WrittenBy[n]
        /\ x \notin Counters(model[n]) /\ x # LOQ_CMDR_ADDR
  BY AddressesInUse, SpecialAddresses
<1>2. \A x \in {SizeRegister(n), WmiTableLength} : w[x] = m[x]
  BY <1>1 DEF WriteCurve
<1> HIDE DEF w
<1> QED
  BY <1>2, LengthAlike DEF w

(* What a store means to have written, cell by cell.                       *)
LEMMA IntendedCells ==
  ASSUME NEW n \in Machines, NEW old, NEW size, NEW r
  PROVE  \A p \in AllPoints :
           At(Intended(n, old, size, r), p) =
             IF \/ ReadOf(n, p) = NotKept
                \/ p[2] >= (IF model[n].fancurve = "EC" THEN size ELSE MAXFANCURVESIZE)
               THEN 0
             ELSE IF p = <<r.file, r.point>> THEN NewValue(n, r)
             ELSE IF /\ r.file = "size" /\ p[1] \in MaxTemps
                     /\ r.value < size /\ p[2] = r.value - 1 THEN 127
             ELSE At(old, p)
<1> SUFFICES ASSUME NEW p \in AllPoints
             PROVE  At(Intended(n, old, size, r), p) =
                      IF \/ ReadOf(n, p) = NotKept
                         \/ p[2] >= (IF model[n].fancurve = "EC" THEN size
                                                                ELSE MAXFANCURVESIZE)
                        THEN 0
                      ELSE IF p = <<r.file, r.point>> THEN NewValue(n, r)
                      ELSE IF /\ r.file = "size" /\ p[1] \in MaxTemps
                              /\ r.value < size /\ p[2] = r.value - 1 THEN 127
                      ELSE At(old, p)
  OBVIOUS
<1>1. p[1] \in PointFiles /\ p[2] \in Points /\ p = <<p[1], p[2]>>
  BY KeptPoints
<1>2. p = <<r.file, r.point>> <=> r.file = p[1] /\ r.point = p[2]
  BY <1>1
<1> QED
  BY <1>1, <1>2 DEF Intended, At, ReadOf

(* The writer's stores but the first are to files of points.               *)
LEMMA StoreFile ==
  ASSUME NEW k \in Nat
  PROVE  /\ k >= 1 => Request(k).file \in PointFiles
         /\ k = 0 => /\ Request(k).file = "minifancurve"
                     /\ Request(k).value = enable_minifancurve
<1>1. ASSUME k >= 1 PROVE Request(k).file \in PointFiles
  <2> DEFINE w == Len(Order(machine))
             j == ((k - 1) % w) + 1
  <2>1. w \in {1, 10}
    BY OrderFiles
  <2>2. Request(k).file = Order(machine)[j]
    BY <1>1 DEF Request, PointRequest
  <2> HIDE DEF w
  <2>3. j \in 1..w
    <3>1. CASE w = 1
      BY <1>1, <3>1
    <3>2. CASE w = 10
      BY <1>1, <3>2
    <3> QED
      BY <2>1, <3>1, <3>2
  <2> HIDE DEF j
  <2> QED
    BY <2>2, <2>3, OrderFiles DEF w
<1> QED
  BY <1>1 DEF Request

(* As long as the machine and the preset are the same ..                   *)
LEMMA PresetSame ==
  ASSUME UNCHANGED <<machine, presetVars>>
  PROVE  /\ LastFile' = LastFile
         /\ \A p : WantedAt(p)' = WantedAt(p)
         /\ next' = next => Request(next)' = Request(next)
<1>1. LastFile' = LastFile
  BY DEF LastFile, presetVars
<1>2. \A p : WantedAt(p)' = WantedAt(p)
  BY DEF WantedAt, Wanted, presetVars
<1>3. next' = next => Request(next)' = Request(next)
  BY DEF Request, PointRequest, presetVars
<1> QED
  BY <1>1, <1>2, <1>3

(* .. and so is the length of the table, the cells to follow are the same. *)
LEMMA FollowedSame ==
  ASSUME machine' = machine, CurveSize(machine, ram') = CurveSize(machine, ram)
  PROVE  Followed' = Followed
BY DEF Followed

(* What is known of a curve that was read does not depend on later stores. *)
LEMMA ReadBackSame ==
  ASSUME UNCHANGED <<machine, presetVars, start>>, Followed' = Followed, InvReadBack
  PROVE  InvReadBack'
<1>1. \A p : WantedAt(p)' = WantedAt(p)
  BY PresetSame
<1> QED
  BY <1>1 DEF InvReadBack, presetVars, At

(* The numbers of the points.                                              *)
LEMMA PointNumbers == Points = 0..9
  BY DEF Points, MAXFANCURVESIZE

(* Cells to follow are cells.                                              *)
LEMMA FollowedCells ==
  /\ Followed \subseteq Kept(machine) /\ Followed \subseteq AllPoints
  /\ \A p \in Followed : HasFile(machine, p[1]) /\ p[2] < CurveSize(machine, ram)
BY KeptPoints DEF Followed

(***************************************************************************)
(* The steps of the writer, and of the driver and the firmware for it.     *)
(***************************************************************************)

(* A store of the writer begins.                                           *)
LEMMA WriterBegins ==
  ASSUME IInv, Active, PresetInv, phase = "writing", Begin(Request(next)),
         UNCHANGED <<presetVars, next, phase, start, disturbed>>
  PROVE  PresetInv'
<1> DEFINE n == machine
           r == Request(next)
<1>1. /\ n \in Machines /\ conf = model[n] /\ ram \in [Addresses[n] -> 0..255]
  BY DEF IInv, RegInv, InvTypes, conf
<1>2. /\ AtRest /\ HasFile(n, r.file) /\ IsValid(CurveSize(n, ram), r)
      /\ store' = r /\ lost' = (lost \cup Disturbs(r)) \ {<<r.file, r.point>>}
      /\ UNCHANGED <<machine, ram, meant>>
  BY DEF Begin
<1>3. /\ r' = r /\ LastFile' = LastFile /\ \A p : WantedAt(p)' = WantedAt(p)
      /\ Followed' = Followed /\ conf' = conf
  BY <1>2, PresetSame, FollowedSame DEF conf
<1>4. InvTurn' /\ InvDone'
  BY <1>2, <1>3 DEF InvTurn, InvDone
<1>5. InvProgress'
  <2>1. ASSUME NEW p \in Followed, p \notin lost', ~InStore(p)'
        PROVE  p \notin lost /\ ~InStore(p)
    <3>1. p \in AllPoints
      BY FollowedCells
    <3>2. ~InStore(p)
      BY <1>2, <3>1, FileNames DEF InStore, AtRest
    <3>3. CASE conf.fancurve = "WMI3"
      BY <3>2, <3>3 DEF IInv, RegInv, InvLost
    <3>4. CASE conf.fancurve # "WMI3"
      <4>1. p # <<r.file, r.point>>
        BY <1>2, <1>3, <2>1, <3>4 DEF InStore
      <4> QED
        BY <1>2, <2>1, <3>2, <4>1
    <3> QED
      BY <3>3, <3>4
  <2>2. ASSUME NEW p \in Followed
        PROVE  \/ At(meant.points, p) =
                    IF NumberOf(machine, p) < next THEN WantedAt(p) ELSE At(start, p)
               \/ p \in lost' \/ InStore(p)'
    BY <2>1 DEF PresetInv, InvProgress
  <2> QED
    BY <1>2, <1>3, <2>2 DEF InvProgress, At
<1>6. InvGoal'
  <2> SUFFICES ASSUME r.file \in CurveFiles, NEW p \in Followed
               PROVE  At(intended', p) = IF p = <<r.file, r.point>> THEN WantedAt(p)
                                         ELSE At(meant.points, p)
    BY <1>2, <1>3 DEF InvGoal, IsTableStore, At
  <2>1. next \in Nat
    <3>1. LastFile \in Nat
      BY LastFileRange DEF IInv, InvWriter, MAXFANCURVESIZE
    <3> QED
      BY <3>1 DEF IInv, InvWriter
  <2>2. next >= 1 /\ r.file \in PointFiles
    <3>1. next # 0
      BY StoreFile, FileNames DEF Controls
    <3> QED
      BY <2>1, <3>1, StoreFile
  <2>3. r.file # "size" /\ r.file \notin Controls
    BY <2>2, FileNames, PointFileCases
  <2>4. intended' = Intended(n, meant.points, CurveSize(n, ram), r)
    BY <2>3 DEF Begin
  <2>5. p \in Kept(n) /\ p \in AllPoints /\ HasFile(n, p[1]) /\ p[2] < CurveSize(n, ram)
    BY FollowedCells
  <2>6. ReadOf(n, p) # NotKept
    BY <1>1, <2>5, ReadCells
  <2>7. ~(p[2] >= (IF model[n].fancurve = "EC" THEN CurveSize(n, ram) ELSE MAXFANCURVESIZE))
    <3> DEFINE size == CurveSize(n, ram)
    <3>1. size \in 0..10 /\ p[2] \in 0..9
      BY <1>1, <2>5, CurveSizeRange, KeptPoints DEF Points, MAXFANCURVESIZE
    <3>2. p[2] < size
      BY <2>5
    <3> HIDE DEF size
    <3>3. ~(p[2] >= size) /\ ~(p[2] >= 10)
      BY <3>1, <3>2
    <3> QED
      BY <3>3 DEF size, MAXFANCURVESIZE
  <2>8. At(intended', p) = IF p = <<r.file, r.point>> THEN NewValue(n, r)
                           ELSE At(meant.points, p)
    BY <1>1, <2>3, <2>4, <2>5, <2>6, <2>7, IntendedCells
  <2>9. p = <<r.file, r.point>> => NewValue(n, r) = WantedAt(p)
    <3> SUFFICES ASSUME p = <<r.file, r.point>> PROVE NewValue(n, r) = WantedAt(p)
      OBVIOUS
    <3>1. /\ r.file = p[1]
          /\ r.value = IF p[1] \in Speeds THEN PwmOf(entries[p[2] + 1][p[1]])
                                          ELSE entries[p[2] + 1][p[1]]
      BY <2>1, <2>2, <2>5, StoreNumber
    <3> QED
      BY <3>1 DEF NewValue, WantedAt, Wanted
  <2> QED
    BY <2>8, <2>9
<1>7. InvAccepted' /\ InvMini'
  BY <1>2 DEF PresetInv, InvAccepted, InvMini, presetVars
<1>8. InvReadBack'
  BY <1>2, <1>3, ReadBackSame DEF PresetInv
<1> QED
  BY <1>4, <1>5, <1>6, <1>7, <1>8 DEF PresetInv

(* The stores of minifancurve: they are never refused, and never fail.     *)
LEMMA MiniAccepted ==
  ASSUME NEW n \in Machines, "minifancurve" \in OwnControls[n], NEW r,
         r.file = "minifancurve"
  PROVE  /\ HasFile(n, r.file)
         /\ n = machine => IsAllowed(r)
         /\ \A size : IsValid(size, r)
<1>1. r.file \notin Speeds \cup Temps \cup Ramps
  BY DEF Speeds, Temps, MaxTemps, Ramps
<1> QED
  BY <1>1 DEF OwnControls, IsAllowed, IsValid

(* A store of the writer is refused: it gives up, but for minifancurve.    *)
LEMMA WriterRefused ==
  ASSUME IInv, Active, PresetInv, phase = "writing", Refuse(Request(next)),
         WriterHears("error")
  PROVE  PresetInv'
<1> DEFINE n == machine
           r == Request(next)
<1>1. n \in Machines /\ conf = model[n] /\ next \in Nat /\ LastFile \in Nat
  <2>1. LastFile \in Nat
    BY LastFileRange DEF IInv, InvWriter, MAXFANCURVESIZE
  <2> QED
    BY <2>1 DEF IInv, InvWriter, RegInv, InvTypes, conf
<1>2. /\ UNCHANGED <<machine, ram, store, fancurve, meant, intended, lost>>
      /\ store = NoStore /\ conf' = conf
      /\ ~(IsAllowed(r) /\ IsValid(CurveSize(n, ram), r))
  BY DEF Refuse, registerVars, historyVars, AtRest, conf
<1>3. UNCHANGED <<presetVars, start, disturbed>>
  BY DEF WriterHears
<1>4. /\ LastFile' = LastFile /\ Followed' = Followed
      /\ \A p : WantedAt(p)' = WantedAt(p)
  BY <1>2, <1>3, PresetSame, FollowedSame
<1>5. \/ next' = next /\ phase' = "failed"
      \/ /\ next = 0 /\ next' = 1
         /\ phase' = IF next = LastFile THEN "done" ELSE "writing"
  BY <1>1 DEF WriterHears
<1>6. InvTurn' /\ InvDone' /\ InvGoal'
  <2>1. ~IsTableStore'
    BY <1>2, FileNames DEF IsTableStore
  <2>2. phase' = "done" => next' = LastFile' + 1
    BY <1>1, <1>4, <1>5
  <2> QED
    BY <1>2, <2>1, <2>2 DEF InvTurn, InvDone, InvGoal
<1>7. \A p \in AllPoints : HasFile(n, p[1]) =>
        (NumberOf(n, p) < next' <=> NumberOf(n, p) < next)
  <2> SUFFICES ASSUME NEW p \in AllPoints, HasFile(n, p[1])
               PROVE  NumberOf(n, p) < next' <=> NumberOf(n, p) < next
    OBVIOUS
  <2>1. NumberOf(n, p) \in Nat /\ NumberOf(n, p) >= 1
    BY NumberRange
  <2> QED
    BY <1>5, <2>1
<1>8. InvProgress'
  <2>1. ASSUME NEW p \in Followed
        PROVE  \/ At(meant.points, p) =
                    IF NumberOf(n, p) < next' THEN WantedAt(p) ELSE At(start, p)
               \/ p \in lost \/ InStore(p)
    <3>1. NumberOf(n, p) < next' <=> NumberOf(n, p) < next
      BY <1>7, FollowedCells
    <3> QED
      BY <3>1 DEF PresetInv, InvProgress
  <2>2. \A p : InStore(p)' = InStore(p)
    BY <1>2 DEF InStore
  <2> QED
    BY <1>2, <1>3, <1>4, <2>1, <2>2 DEF InvProgress, At
<1>9. InvAccepted'
  BY <1>2, <1>3, <1>7 DEF PresetInv, InvAccepted, presetVars
<1>10. InvMini'
  <2>1. CASE next >= 1
    BY <1>2, <1>3, <2>1 DEF PresetInv, InvMini, presetVars
  <2>2. CASE next = 0
    <3>1. r.file = "minifancurve"
      BY <2>2, StoreFile
    <3>2. "minifancurve" \notin OwnControls[n]
      BY <1>1, <1>2, <3>1, MiniAccepted
    <3> QED
      BY <1>2, <3>2 DEF InvMini
  <2> QED
    BY <1>1, <2>1, <2>2
<1>11. InvReadBack'
  BY <1>2, <1>3, <1>4, ReadBackSame DEF PresetInv
<1> QED
  BY <1>6, <1>8, <1>9, <1>10, <1>11 DEF PresetInv

(* An undisturbed store is the writer's, and the next of its files.        *)
LEMMA WritersStore ==
  ASSUME IInv, Active, PresetInv, store # NoStore
  PROVE  /\ store = Request(next) /\ store.by = "writer" /\ phase = "writing"
         /\ next \in Nat /\ LastFile \in Nat
         /\ next >= 1 => store.file \in PointFiles
         /\ next = 0 => store.file = "minifancurve" /\ store.value = enable_minifancurve
<1>1. store = Request(next) /\ phase = "writing"
  BY DEF PresetInv, InvTurn
<1>2. LastFile \in Nat
  BY LastFileRange DEF IInv, InvWriter, MAXFANCURVESIZE
<1>3. next \in Nat
  BY <1>2 DEF IInv, InvWriter
<1>4. store.by = "writer"
  BY <1>1, WriterAsks DEF IInv
<1> QED
  BY <1>1, <1>2, <1>3, <1>4, StoreFile

(* The writer has heard that its store went well.                          *)
LEMMA WriterGoesOn ==
  ASSUME IInv, Active, PresetInv, store # NoStore, Hears("ok"), Unlock
  PROVE  /\ next' = next + 1 /\ UNCHANGED <<machine, presetVars, start, disturbed>>
         /\ InvTurn' /\ InvDone' /\ InvGoal'
<1>1. WriterHears("ok")
  BY WritersStore DEF Hears
<1>2. /\ next' = next + 1 /\ UNCHANGED <<presetVars, start, disturbed>>
      /\ phase' = IF next = LastFile THEN "done" ELSE "writing"
  BY <1>1 DEF WriterHears
<1>3. machine' = machine /\ store' = NoStore /\ ~IsTableStore'
  BY UnlockFacts
<1>4. LastFile' = LastFile
  BY <1>2, <1>3, PresetSame
<1> QED
  BY <1>2, <1>3, <1>4 DEF InvTurn, InvDone, InvGoal

(* A store of the writer to a file of a point ends well.                   *)
LEMMA WriterFinishesCurve ==
  ASSUME IInv, Active, PresetInv, FinishCurve, Hears("ok")
  PROVE  PresetInv'
<1> DEFINE n == machine
<1>1. n \in Machines /\ conf = model[n] /\ ram \in [Addresses[n] -> 0..255]
  BY DEF IInv, RegInv, InvTypes, conf
<1>2. store.file \in CurveFiles /\ Unlock /\ store # NoStore /\ IsTableStore
  BY FileNames DEF FinishCurve, CurveFiles, IsTableStore
<1>3. /\ store = Request(next) /\ next \in Nat /\ next >= 1 /\ store.file \in PointFiles
  <2>1. next # 0
    BY <1>2, WritersStore, FileNames DEF Controls
  <2> QED
    BY <1>2, <2>1, WritersStore
<1>4. /\ next' = next + 1 /\ UNCHANGED <<machine, presetVars, start, disturbed>>
      /\ InvTurn' /\ InvDone' /\ InvGoal'
  BY <1>2, WriterGoesOn
<1>5. Followed' = Followed
  <2>1. store.file # "size"
    BY <1>3, FileNames, PointFileCases
  <2>2. ram' = WriteCurve(n, ram, fancurve, FALSE)
    BY <2>1 DEF FinishCurve
  <2>3. CurveSize(n, ram') = CurveSize(n, ram)
    BY <1>1, <2>2, WriteKeepsSize
  <2> QED
    BY <1>4, <2>3, FollowedSame
<1>6. \A p : WantedAt(p)' = WantedAt(p)
  BY <1>4, PresetSame
<1>7. /\ meant' = [points |-> intended, controls |-> meant.controls]
      /\ lost' = lost
  BY <1>2, UnlockFacts DEF FinishCurve, IInv, RegInv, InvTypes
<1>8. ASSUME NEW p \in AllPoints, HasFile(n, p[1])
      PROVE  /\ NumberOf(n, p) \in Nat
             /\ p = <<store.file, store.point>> <=> NumberOf(n, p) = next
  <2>1. NumberOf(n, p) \in Nat
    BY <1>8, NumberRange
  <2>2. /\ p = <<store.file, store.point>> => NumberOf(n, p) = next
        /\ NumberOf(n, p) = next => p[1] = store.file /\ p[2] = store.point
    BY <1>3, <1>8, StoreNumber
  <2>3. p = <<p[1], p[2]>>
    BY KeptPoints
  <2> QED
    BY <2>1, <2>2, <2>3
<1>9. InvProgress'
  <2>1. ASSUME NEW p \in Followed, p \notin lost
        PROVE  At(intended, p) =
                 IF NumberOf(n, p) < next + 1 THEN WantedAt(p) ELSE At(start, p)
    <3>1. /\ NumberOf(n, p) \in Nat
          /\ p = <<store.file, store.point>> <=> NumberOf(n, p) = next
      BY <1>8, FollowedCells
    <3>2. At(intended, p) = IF p = <<store.file, store.point>> THEN WantedAt(p)
                            ELSE At(meant.points, p)
      BY <1>2 DEF PresetInv, InvGoal
    <3>3. CASE p = <<store.file, store.point>>
      <4>1. NumberOf(n, p) < next + 1
        BY <1>3, <3>1, <3>3
      <4> QED
        BY <3>2, <3>3, <4>1
    <3>4. CASE p # <<store.file, store.point>>
      <4>1. NumberOf(n, p) < next + 1 <=> NumberOf(n, p) < next
        BY <1>3, <3>1, <3>4
      <4>2. At(meant.points, p) =
              IF NumberOf(n, p) < next THEN WantedAt(p) ELSE At(start, p)
        BY <2>1, <3>4 DEF PresetInv, InvProgress, InStore
      <4> QED
        BY <3>2, <3>4, <4>1, <4>2
    <3> QED
      BY <3>3, <3>4
  <2>2. meant'.points = intended
    BY <1>7
  <2> QED
    BY <1>4, <1>5, <1>6, <1>7, <2>1, <2>2 DEF InvProgress, At
<1>10. InvAccepted'
  <2> SUFFICES ASSUME NEW p \in AllPoints, HasFile(n, p[1]), p[1] \in Speeds,
                      NumberOf(n, p) < next + 1
               PROVE  PwmOf(entries[p[2] + 1][p[1]]) \in 0..255
    BY <1>4 DEF InvAccepted, presetVars
  <2>1. NumberOf(n, p) \in Nat
    BY <1>8
  <2>2. CASE NumberOf(n, p) < next
    BY <2>2 DEF PresetInv, InvAccepted
  <2>3. CASE NumberOf(n, p) = next
    <3>1. store.file = p[1] /\ store.value = PwmOf(entries[p[2] + 1][p[1]])
      BY <1>3, <2>3, StoreNumber
    <3>2. IsRequest(n, store)
      BY <1>2 DEF IInv, RegInv, InvTypes
    <3> QED
      BY <3>1, <3>2 DEF IsRequest
  <2>4. NumberOf(n, p) < next \/ NumberOf(n, p) = next
    BY <1>3, <2>1
  <2> QED
    BY <2>2, <2>3, <2>4
<1>11. InvMini'
  BY <1>3, <1>4, <1>7 DEF PresetInv, InvMini, presetVars
<1>12. InvReadBack'
  BY <1>4, <1>5, ReadBackSame DEF PresetInv
<1> QED
  BY <1>4, <1>9, <1>10, <1>11, <1>12 DEF PresetInv

(* No control of its own has its register among the sizes of the table.    *)
LEMMA ControlKeepsSize ==
  ASSUME NEW n \in Machines, NEW m \in [Addresses[n] -> 0..255], NEW f \in Controls,
         NEW byte
  PROVE  CurveSize(n, [m EXCEPT ![ControlRegister(model[n], f)] = byte]) = CurveSize(n, m)
<1> DEFINE x == ControlRegister(model[n], f)
           w == [m EXCEPT ![x] = byte]
<1>1. x \notin {SizeRegister(n), WmiTableLength}
  BY SpecialAddresses
<1> HIDE DEF x
<1>2. w[SizeRegister(n)] = m[SizeRegister(n)] /\ w[WmiTableLength] = m[WmiTableLength]
  BY <1>1
<1> HIDE DEF w
<1>3. CurveSize(n, w) = CurveSize(n, m)
  BY <1>2, LengthAlike, Zenon
<1> QED
  BY <1>3, Zenon DEF w, x

(* A store of the writer to minifancurve ends well.                        *)
LEMMA WriterFinishesControl ==
  ASSUME IInv, Active, PresetInv, FinishControl, Hears("ok")
  PROVE  PresetInv'
<1> DEFINE n == machine
<1>1. n \in Machines /\ conf = model[n] /\ ram \in [Addresses[n] -> 0..255]
  BY DEF IInv, RegInv, InvTypes, conf
<1>2. store.file \in Controls /\ Unlock /\ store # NoStore
  BY FileNames DEF FinishControl
<1>3. /\ next = 0 /\ store.file = "minifancurve" /\ store.value = enable_minifancurve
  <2>1. store.file \notin PointFiles
    BY <1>2, FileNames DEF CurveFiles
  <2> QED
    BY <1>2, <2>1, WritersStore
<1>4. /\ next' = 1 /\ UNCHANGED <<machine, presetVars, start, disturbed>>
      /\ InvTurn' /\ InvDone' /\ InvGoal'
  BY <1>2, <1>3, WriterGoesOn
<1>5. Followed' = Followed
  <2>1. PICK byte : ram' = [ram EXCEPT ![ControlRegister(model[n], store.file)] = byte]
    BY <1>1 DEF FinishControl
  <2>2. CurveSize(n, ram') = CurveSize(n, ram)
    BY <1>1, <1>2, <2>1, ControlKeepsSize
  <2> QED
    BY <1>4, <2>2, FollowedSame
<1>6. \A p : WantedAt(p)' = WantedAt(p)
  BY <1>4, PresetSame
<1>7. /\ meant' = [points |-> meant.points,
                   controls |-> [f \in DOMAIN meant.controls |->
                                   IF f = store.file THEN store.value
                                                     ELSE meant.controls[f]]]
      /\ lost' = lost
  BY <1>2, UnlockFacts DEF FinishControl, IInv, RegInv, InvTypes
<1>8. ASSUME NEW p \in AllPoints, HasFile(n, p[1])
      PROVE  ~(NumberOf(n, p) < next) /\ ~(NumberOf(n, p) < 1)
  BY <1>3, <1>8, NumberRange
<1>9. InvProgress'
  <2>1. ASSUME NEW p \in Followed, p \notin lost
        PROVE  At(meant.points, p) =
                 IF NumberOf(n, p) < 1 THEN WantedAt(p) ELSE At(start, p)
    <3>1. p \in AllPoints /\ ~InStore(p)
      BY <1>2, FollowedCells, FileNames DEF InStore
    <3> QED
      BY <1>8, <2>1, <3>1, FollowedCells DEF PresetInv, InvProgress
  <2>2. meant'.points = meant.points
    BY <1>7
  <2> QED
    BY <1>4, <1>5, <1>6, <1>7, <2>1, <2>2 DEF InvProgress, At
<1>10. InvAccepted'
  BY <1>4, <1>8 DEF InvAccepted
<1>11. InvMini'
  <2> SUFFICES ASSUME "minifancurve" \in OwnControls[n]
               PROVE  meant'.controls["minifancurve"] = enable_minifancurve
    BY <1>4 DEF InvMini, presetVars
  <2>1. "minifancurve" \in DOMAIN meant.controls
    BY DEF IInv, RegInv, InvControls
  <2> QED
    BY <1>3, <1>7, <2>1
<1>12. InvReadBack'
  BY <1>4, <1>5, ReadBackSame DEF PresetInv
<1> QED
  BY <1>4, <1>9, <1>10, <1>11, <1>12 DEF PresetInv

(* A store of the writer fails: nothing was written, and it gives up.      *)
LEMMA WriterFails ==
  ASSUME IInv, Active, PresetInv, StoreFails
  PROVE  PresetInv'
<1> DEFINE n == machine
<1>1. n \in Machines /\ conf = model[n]
  BY DEF IInv, RegInv, InvTypes, conf
<1>2. /\ UNCHANGED <<ram, meant>> /\ Unlock /\ store # NoStore
      /\ IF store.file \in Controls THEN ControlRegister(conf, store.file) = WmiFullSpeed
                                    ELSE conf.fancurve = "WMI3"
  BY DEF StoreFails, WmiFails, AtRest
<1>3. /\ store = Request(next) /\ next \in Nat /\ next >= 1 /\ conf.fancurve = "WMI3"
  <2>1. next # 0
    <3> SUFFICES ASSUME next = 0 PROVE FALSE
      OBVIOUS
    <3>1. store.file = "minifancurve"
      BY <1>2, WritersStore
    <3> QED
      BY <1>1, <1>2, <3>1, ControlRegisters DEF Controls
  <2>2. next \in Nat /\ store = Request(next) /\ store.file \in PointFiles
    BY <1>2, <2>1, WritersStore
  <2> QED
    BY <1>2, <2>1, <2>2, FileNames DEF CurveFiles
<1>4. WriterHears("error")
  BY <1>2, WritersStore DEF StoreFails, Hears
<1>5. next' = next /\ phase' = "failed" /\ UNCHANGED <<presetVars, start, disturbed>>
  BY <1>3, <1>4 DEF WriterHears
<1>6. machine' = machine /\ lost' = lost /\ store' = NoStore /\ ~IsTableStore'
  BY <1>2, UnlockFacts
<1>7. Followed' = Followed /\ \A p : WantedAt(p)' = WantedAt(p)
  BY <1>2, <1>5, <1>6, PresetSame, FollowedSame
<1>8. InvTurn' /\ InvDone' /\ InvGoal'
  BY <1>5, <1>6 DEF InvTurn, InvDone, InvGoal
<1>9. InvProgress'
  <2>1. ASSUME NEW p \in Followed
        PROVE  \/ At(meant.points, p) =
                    IF NumberOf(n, p) < next THEN WantedAt(p) ELSE At(start, p)
               \/ p \in lost
    BY <1>3 DEF PresetInv, InvProgress, InStore
  <2> QED
    BY <1>2, <1>5, <1>6, <1>7, <2>1 DEF InvProgress, At
<1>10. InvAccepted' /\ InvMini'
  BY <1>2, <1>5, <1>6 DEF PresetInv, InvAccepted, InvMini, presetVars
<1>11. InvReadBack'
  BY <1>5, <1>6, <1>7, ReadBackSame DEF PresetInv
<1> QED
  BY <1>8, <1>9, <1>10, <1>11 DEF PresetInv

(* An LOQ machine takes a table between two stores, or during one.         *)
LEMMA WriterExecuted ==
  ASSUME IInv, Active, PresetInv, FirmwareExecutes
  PROVE  PresetInv'
<1> DEFINE n == machine
<1>1. n \in Machines /\ conf = model[n]
  BY DEF IInv, RegInv, InvTypes, conf
<1>2. /\ UNCHANGED <<machine, store, meant, intended, lost>>
      /\ UNCHANGED <<presetVars, next, phase, start>>
      /\ model[n].fancurve = "EC3" /\ n # "n2cn" /\ conf' = conf
  BY SpeedOnlyModel DEF FirmwareExecutes, Execute, IsPending, writerVars, historyVars, conf
<1>3. Followed' = Followed
  <2>1. CurveSize(n, ram') = CurveSize(n, ram)
    BY <1>2 DEF CurveSize
  <2> QED
    BY <1>2, <2>1, FollowedSame
<1>4. /\ LastFile' = LastFile /\ Request(next)' = Request(next)
      /\ \A p : WantedAt(p)' = WantedAt(p)
  BY <1>2, PresetSame
<1>5. InvTurn' /\ InvDone'
  BY <1>2, <1>4 DEF PresetInv, InvTurn, InvDone
<1>6. InvProgress'
  <2>1. \A p : InStore(p)' = InStore(p)
    BY <1>2 DEF InStore
  <2> QED
    BY <1>2, <1>3, <1>4, <2>1 DEF PresetInv, InvProgress, At
<1>7. InvGoal'
  BY <1>2, <1>3, <1>4 DEF PresetInv, InvGoal, IsTableStore, At
<1>8. InvAccepted' /\ InvMini'
  BY <1>2 DEF PresetInv, InvAccepted, InvMini, presetVars
<1>9. InvReadBack'
  BY <1>2, <1>3, ReadBackSame DEF PresetInv
<1> QED
  BY <1>5, <1>6, <1>7, <1>8, <1>9 DEF PresetInv

(* Nothing happens.                                                        *)
LEMMA WriterStutters ==
  ASSUME Active, PresetInv, UNCHANGED vars
  PROVE  PresetInv'
<1>1. UNCHANGED <<machine, ram, store, meant, intended, lost>>
  BY DEF vars, registerVars, historyVars
<1>2. UNCHANGED <<presetVars, next, phase, start>>
  BY DEF vars, writerVars
<1>3. Followed' = Followed
  BY <1>1, FollowedSame
<1>4. /\ LastFile' = LastFile /\ Request(next)' = Request(next)
      /\ \A p : WantedAt(p)' = WantedAt(p)
  BY <1>1, <1>2, PresetSame
<1>5. InvTurn' /\ InvDone'
  BY <1>1, <1>2, <1>4 DEF PresetInv, InvTurn, InvDone
<1>6. InvProgress'
  <2>1. \A p : InStore(p)' = InStore(p)
    BY <1>1 DEF InStore, conf
  <2> QED
    BY <1>1, <1>2, <1>3, <1>4, <2>1 DEF PresetInv, InvProgress, At
<1>7. InvGoal'
  BY <1>1, <1>3, <1>4 DEF PresetInv, InvGoal, IsTableStore, At
<1>8. InvAccepted' /\ InvMini'
  BY <1>1, <1>2 DEF PresetInv, InvAccepted, InvMini, presetVars
<1>9. InvReadBack'
  BY <1>1, <1>2, <1>3, ReadBackSame DEF PresetInv
<1> QED
  BY <1>5, <1>6, <1>7, <1>8, <1>9 DEF PresetInv

(* A curve without its empty entries is the beginning of the curve.        *)
LEMMA TrimmedEntries ==
  ASSUME NEW l \in 0..10, NEW es, DOMAIN es = 1..l
  PROVE  \A i \in 1..Len(Trimmed(es)) : i \in 1..l /\ Trimmed(es)[i] = es[i]
<1> DEFINE S == {0} \cup {i \in DOMAIN es : ~IsEmpty(es[i])}
           k == Max(S)
           t == SubSeq(es, 1, k)
           V == {es[i] : i \in 1..k}
<1>1. S \subseteq 0..l /\ S \subseteq 0..10 /\ 0 \in S
  OBVIOUS
<1> HIDE DEF S
<1>2. k \in 0..l
  BY <1>1, MaxOfBounded
<1> HIDE DEF k
<1>3. \A i \in 1..k : es[i] \in V
  OBVIOUS
<1> HIDE DEF V
<1>4. /\ Len(t) = IF 1 <= k THEN k - 1 + 1 ELSE 0
      /\ \A i \in 1..(k - 1 + 1) : t[i] = es[1 + i - 1]
  BY <1>2, <1>3, SubSeqProperties
<1> HIDE DEF t
<1>5. \A i \in 1..Len(t) : i \in 1..l /\ t[i] = es[i]
  <2> SUFFICES ASSUME NEW i \in 1..Len(t) PROVE i \in 1..l /\ t[i] = es[i]
    OBVIOUS
  <2>1. Len(t) = k /\ k - 1 + 1 = k /\ 1 + i - 1 = i
    BY <1>2, <1>4
  <2> QED
    BY <1>2, <1>4, <2>1
<1> QED
  BY <1>5 DEF Trimmed, t, k, S

(* What read_fan_curve makes of a curve are numbers.                       *)
LEMMA ReadEntryNumbers ==
  ASSUME NEW fc \in CurveTypes, NEW i \in Points, NEW a \in PointFiles
  PROVE  ReadEntry(fc, i)[a] \in Int
<1> DEFINE shown(f) == IF i < fc.size THEN FromUnit(machine, fc.points[i][f]) ELSE 0
<1>1. \A f \in PointFiles : fc.points[i][f] \in 0..255
  <2>1. fc.points[i] \in [PointFiles -> 0..255]
    BY DEF CurveTypes
  <2> QED
    BY <2>1
<1>2. \A b \in 0..255 : FromUnit(machine, b) \in Int
  BY DEF FromUnit
<1>3. \A f \in PointFiles : shown(f) \in Int
  <2> SUFFICES ASSUME NEW f \in PointFiles PROVE shown(f) \in Int
    OBVIOUS
  <2>1. FromUnit(machine, fc.points[i][f]) \in Int
    BY <1>1, <1>2, Zenon
  <2> QED
    BY <2>1
<1>4. "pwm1" \in PointFiles /\ "pwm2" \in PointFiles
  BY DEF PointFiles, Speeds
<1>5. \A q \in Int : Rpm1Of(q) \in Int /\ Rpm2Of(q) \in Int
  BY DEF Rpm1Of, Rpm2Of, MaxRpm
<1>6. ReadEntry(fc, i)[a] =
        CASE a = "pwm1" -> Rpm1Of(shown("pwm1"))
          [] a = "pwm2" -> IF HasFile(machine, "pwm2") THEN Rpm2Of(shown("pwm2"))
                                                       ELSE Rpm1Of(shown("pwm1"))
          [] OTHER -> IF HasFile(machine, a) THEN fc.points[i][a] ELSE 0
  BY DEF ReadEntry
<1> HIDE DEF shown
<1>7. CASE a = "pwm1"
  BY <1>3, <1>4, <1>5, <1>6, <1>7
<1>8. CASE a = "pwm2"
  <2>1. \/ ReadEntry(fc, i)[a] = Rpm2Of(shown("pwm2"))
        \/ ReadEntry(fc, i)[a] = Rpm1Of(shown("pwm1"))
    BY <1>6, <1>8
  <2> QED
    BY <1>3, <1>4, <1>5, <2>1
<1>9. CASE a \notin {"pwm1", "pwm2"}
  BY <1>1, <1>6, <1>9
<1> QED
  BY <1>7, <1>8, <1>9

(* .. of which a file that exists gives back the byte that it shows.       *)
LEMMA ReadEntryCells ==
  ASSUME NEW fc, NEW p \in AllPoints, HasFile(machine, p[1]), p[2] < fc.size
  PROVE  LET v == ReadEntry(fc, p[2])[p[1]]
             b == At(fc.points, p)
         IN /\ p[1] \notin Speeds => v = b
            /\ p[1] \in Speeds =>
                 \/ v = Rpm1Of(FromUnit(machine, b))
                 \/ v = Rpm2Of(FromUnit(machine, b)) /\ Unit(machine) # "PERCENT_NEAREST"
<1> DEFINE i == p[2]
           a == p[1]
           shown(f) == IF i < fc.size THEN FromUnit(machine, fc.points[i][f]) ELSE 0
<1>1. a \in PointFiles
  BY KeptPoints
<1>2. ReadEntry(fc, i)[a] =
        CASE a = "pwm1" -> Rpm1Of(shown("pwm1"))
          [] a = "pwm2" -> IF HasFile(machine, "pwm2") THEN Rpm2Of(shown("pwm2"))
                                                       ELSE Rpm1Of(shown("pwm1"))
          [] OTHER -> IF HasFile(machine, a) THEN fc.points[i][a] ELSE 0
  BY <1>1 DEF ReadEntry
<1>3. shown(a) = FromUnit(machine, At(fc.points, p))
  BY DEF At
<1> HIDE DEF shown
<1>4. CASE a = "pwm1"
  BY <1>2, <1>3, <1>4 DEF Speeds
<1>5. CASE a = "pwm2"
  <2>1. ~IsSpeedOnly(machine)
    BY <1>5 DEF HasFile, PointFiles, Speeds
  <2>2. Unit(machine) # "PERCENT_NEAREST"
    <3>1. machine # "n2cn"
      BY <2>1, SpeedOnlyModel
    <3> QED
      BY <3>1 DEF Unit
  <2>3. ReadEntry(fc, i)[a] = Rpm2Of(shown(a))
    BY <1>2, <1>5
  <2> QED
    BY <1>3, <1>5, <2>2, <2>3 DEF Speeds
<1>6. CASE a \notin {"pwm1", "pwm2"}
  BY <1>2, <1>6 DEF Speeds, At
<1> QED
  BY <1>4, <1>5, <1>6

(* The writer starts; es is a preset, or the curve that is shown.          *)
LEMMA WriterStarts ==
  ASSUME IInv, NEW es, NEW mini, NEW read, Starts(es, mini, read), Active',
         NEW fc,
         read => /\ \A p \in Kept(machine) : At(fc.points, p) = ram[ReadOf(machine, p)]
                 /\ fc.size = CurveSize(machine, ram)
                 /\ \A i \in Points :
                      i < Len(Trimmed(es)) => Trimmed(es)[i + 1] = ReadEntry(fc, i)
  PROVE  PresetInv'
<1> DEFINE n == machine
<1>1. n \in Machines /\ ram \in [Addresses[n] -> 0..255]
  BY DEF IInv, RegInv, InvTypes
<1>2. /\ UNCHANGED <<machine, ram, store, meant, intended, lost>>
      /\ store = NoStore
      /\ entries' = Trimmed(es) /\ fromHardware' = read /\ phase' = "writing"
      /\ next' = IF HasFile(n, "minifancurve") THEN 0 ELSE 1
      /\ start' = ShownPoints(n, ram)
      /\ ~IsPending(n, ram)
  BY DEF Starts, AtRest, registerVars, historyVars, Shown, Active
<1>3. Followed' = Followed
  BY <1>2, FollowedSame
<1>4. InvTurn' /\ InvDone' /\ InvGoal'
  BY <1>2, FileNames DEF InvTurn, InvDone, InvGoal, IsTableStore
<1>5. \A p \in AllPoints : HasFile(n, p[1]) => ~(NumberOf(n, p) < next')
  <2> SUFFICES ASSUME NEW p \in AllPoints, HasFile(n, p[1])
               PROVE  ~(NumberOf(n, p) < next')
    OBVIOUS
  <2>1. NumberOf(n, p) \in Nat /\ NumberOf(n, p) >= 1
    BY NumberRange
  <2>2. next' = 0 \/ next' = 1
    BY <1>2
  <2> QED
    BY <2>1, <2>2
<1>6. InvProgress'
  <2>1. ASSUME NEW p \in Followed, p \notin lost
        PROVE  At(meant.points, p) = At(ShownPoints(n, ram), p)
    <3>1. p \in AllPoints
      BY FollowedCells
    <3>2. ~InStore(p)
      BY <1>2, <3>1, FileNames DEF InStore
    <3> QED
      BY <2>1, <3>1, <3>2 DEF IInv, RegInv, InvShown
  <2>2. \A p \in Followed : ~(NumberOf(n, p) < next')
    BY <1>5, FollowedCells
  <2> QED
    BY <1>2, <1>3, <2>1, <2>2 DEF InvProgress, At
<1>7. InvAccepted'
  BY <1>2, <1>5 DEF InvAccepted
<1>8. InvMini'
  BY <1>1, <1>2 DEF InvMini, OwnControls
<1>9. InvReadBack'
  <2> SUFFICES ASSUME read, Unit(n) # "PERCENT", NEW p \in Followed,
                      p[2] < Len(entries'),
                      p[1] \in Speeds => PwmOf(entries'[p[2] + 1][p[1]]) \in 0..255
               PROVE  WantedAt(p)' = At(start', p)
    BY <1>2, <1>3 DEF InvReadBack, At
  <2> DEFINE b == ram[ReadOf(n, p)]
             v == entries'[p[2] + 1][p[1]]
  <2>1. /\ p \in AllPoints /\ p \in Kept(n) /\ HasFile(n, p[1])
        /\ p[2] < CurveSize(n, ram) /\ p[2] \in 0..9
    <3>1. p \in AllPoints /\ p \in Kept(n)
      BY FollowedCells
    <3>2. HasFile(n, p[1]) /\ p[2] < CurveSize(n, ram)
      BY FollowedCells, Zenon
    <3>3. p[2] \in Points
      BY <3>1, KeptPoints, Zenon
    <3>4. p[2] \in 0..9
      BY <3>3, PointNumbers, Zenon
    <3> QED
      BY <3>1, <3>2, <3>4
  <2>2. b \in 0..255
    <3>1. ReadOf(n, p) \in Addresses[n]
      BY <1>1, <2>1, ReadCells, AddressesInUse
    <3> QED
      BY <1>1, <3>1
  <2>3. At(start', p) = b
    BY <1>1, <1>2, <2>1, ShownCell
  <2>4. v = ReadEntry(fc, p[2])[p[1]]
    <3>1. p[2] \in Points
      BY <2>1, KeptPoints
    <3>2. p[2] < Len(Trimmed(es))
      BY <1>2
    <3>3. Trimmed(es)[p[2] + 1] = ReadEntry(fc, p[2])
      BY <3>1, <3>2
    <3> QED
      BY <1>2, <3>3
  <2>5. At(fc.points, p) = b /\ p[2] < fc.size
    BY <2>1
  <2>6. WantedAt(p)' = IF p[1] \in Speeds THEN ToUnit(n, PwmOf(v)) ELSE v
    BY <1>2 DEF WantedAt, Wanted
  <2>7. /\ p[1] \notin Speeds => v = b
        /\ p[1] \in Speeds => \/ v = Rpm1Of(FromUnit(n, b))
                              \/ v = Rpm2Of(FromUnit(n, b)) /\ Unit(n) # "PERCENT_NEAREST"
    BY <2>1, <2>4, <2>5, ReadEntryCells
  <2> HIDE DEF b, v
  <2>8. CASE p[1] \in Speeds
    <3>1. ToUnit(n, PwmOf(v)) = b
      <4>1. PwmOf(v) \in 0..255
        BY <2>8 DEF v
      <4>2. \/ v = Rpm1Of(FromUnit(n, b))
            \/ v = Rpm2Of(FromUnit(n, b)) /\ Unit(n) = "RPM_HUNDRED"
        BY <2>7, <2>8, Units
      <4> QED
        BY <2>2, <4>1, <4>2, SpeedReadBack
    <3> QED
      BY <2>3, <2>6, <2>8, <3>1
  <2>9. CASE p[1] \notin Speeds
    BY <2>3, <2>6, <2>7, <2>9
  <2> QED
    BY <2>8, <2>9
<1> QED
  BY <1>4, <1>6, <1>7, <1>8, <1>9 DEF PresetInv

(* A preset of a user is started.                                          *)
LEMMA StartPresetProgress ==
  ASSUME IInv, StartPreset
  PROVE  InvEntries' /\ PresetInv'
<1>1. PICK preset \in Presets : Starts(preset.entries, preset.minifancurve, FALSE)
  BY DEF StartPreset
<1> DEFINE es == preset.entries
           l == Len(es)
<1>2. /\ es \in Seq([PointFiles -> Int]) /\ l <= 10
  BY PresetsAssumption DEF MAXFANCURVESIZE
<1> HIDE DEF es
<1>3. DOMAIN es = 1..l /\ l \in 0..10 /\ \A i \in 1..l : es[i] \in [PointFiles -> Int]
  <2>1. l \in Nat /\ DOMAIN es = 1..l
    BY <1>2, LenProperties
  <2>2. \A i \in 1..l : es[i] \in [PointFiles -> Int]
    BY <1>2, ElementOfSeq
  <2>3. l \in Nat /\ l <= 10
    BY <1>2, <2>1, Zenon
  <2> HIDE DEF l
  <2>4. l \in 0..10
    BY <2>3
  <2> QED
    BY <2>1, <2>2, <2>4, Zenon
<1> HIDE DEF l
<1>4. entries' = Trimmed(es)
  BY <1>1 DEF Starts, es
<1>5. \A i \in 1..Len(Trimmed(es)) : i \in 1..l /\ Trimmed(es)[i] = es[i]
  BY <1>3, TrimmedEntries
<1>6. InvEntries'
  BY <1>3, <1>4, <1>5 DEF InvEntries
<1>7. PresetInv'
  <2>1. CASE Active'
    BY <1>1, <2>1, WriterStarts
  <2> QED
    BY <2>1 DEF PresetInv
<1> QED
  BY <1>6, <1>7

(* A curve that was just read is started.                                  *)
LEMMA StartReadBackProgress ==
  ASSUME IInv, StartReadBack
  PROVE  InvEntries' /\ PresetInv'
<1>1. PICK junk \in {0, 1} :
        Starts(ReadEntries(ReadCurve(machine, ram, junk)), ReadMiniFanCurve, TRUE)
  BY DEF StartReadBack
<1> DEFINE fc == ReadCurve(machine, ram, junk)
           es == ReadEntries(fc)
<1>2. machine \in Machines /\ ram \in [Addresses[machine] -> 0..255] /\ InvBeyond
  BY DEF IInv, RegInv, InvTypes
<1>3. /\ fc \in CurveTypes /\ fc.size = CurveSize(machine, ram)
      /\ \A p \in Kept(machine) : At(fc.points, p) = ram[ReadOf(machine, p)]
  BY <1>2, ReadCurveCells DEF InvBeyond
<1> HIDE DEF fc
<1>4. DOMAIN es = 1..10 /\ \A i \in Points : i + 1 \in 1..10 /\ es[i + 1] = ReadEntry(fc, i)
  BY DEF ReadEntries, Points, MAXFANCURVESIZE
<1> HIDE DEF es
<1>5. entries' = Trimmed(es)
  BY <1>1 DEF Starts, es, fc
<1>6. \A i \in 1..Len(Trimmed(es)) : i \in 1..10 /\ Trimmed(es)[i] = es[i]
  BY <1>4, TrimmedEntries
<1>7. \A i \in Points :
        i < Len(Trimmed(es)) => Trimmed(es)[i + 1] = ReadEntry(fc, i)
  <2> SUFFICES ASSUME NEW i \in Points, i < Len(Trimmed(es))
               PROVE  Trimmed(es)[i + 1] = ReadEntry(fc, i)
    OBVIOUS
  <2>1. Len(Trimmed(es)) \in 0..10
    BY <1>4, TrimmedLength
  <2>2. i + 1 \in 1..Len(Trimmed(es))
    BY <2>1 DEF Points, MAXFANCURVESIZE
  <2> QED
    BY <1>4, <1>6, <2>2
<1>8. InvEntries'
  <2>1. ASSUME NEW i \in 1..Len(Trimmed(es)), NEW a \in PointFiles
        PROVE  Trimmed(es)[i][a] \in Int
    <3>1. i - 1 \in Points /\ i - 1 + 1 = i
      BY <1>6 DEF Points, MAXFANCURVESIZE
    <3>2. Trimmed(es)[i] = ReadEntry(fc, i - 1)
      BY <1>4, <1>6, <3>1
    <3> QED
      BY <1>3, <3>1, <3>2, ReadEntryNumbers
  <2> QED
    BY <1>5, <2>1 DEF InvEntries
<1>9. PresetInv'
  <2>1. CASE Active'
    <3>1. Starts(es, ReadMiniFanCurve, TRUE)
      BY <1>1 DEF es, fc
    <3> QED
      BY <1>3, <1>7, <2>1, <3>1, WriterStarts
  <2> QED
    BY <2>1 DEF PresetInv
<1> QED
  BY <1>8, <1>9

(* Only a start changes the entries.                                       *)
LEMMA EntriesKept ==
  ASSUME InvEntries, UNCHANGED presetVars
  PROVE  InvEntries'
BY DEF InvEntries, presetVars

(* Every step keeps what is known of an undisturbed writer.                *)
LEMMA NextKeepsPreset ==
  ASSUME IInv, PresetIInv, [Next]_vars
  PROVE  PresetIInv'
<1>1. CASE StartPreset
  BY <1>1, StartPresetProgress DEF PresetIInv
<1>2. CASE StartReadBack
  BY <1>2, StartReadBackProgress DEF PresetIInv
<1>3. CASE WriterStores
  <2>1. UNCHANGED presetVars /\ phase = "writing" /\ disturbed' = disturbed
    BY <1>3 DEF WriterStores, WriterHears
  <2>2. CASE Active
    <3>1. PresetInv
      BY DEF PresetIInv
    <3> QED
      BY <1>3, <2>1, <2>2, <3>1, WriterBegins, WriterRefused, EntriesKept
      DEF WriterStores, PresetIInv
  <2>3. CASE ~Active
    <3>1. ~Active'
      BY <2>1, <2>3 DEF Active
    <3> QED
      BY <2>1, <3>1, EntriesKept DEF PresetIInv, PresetInv
  <2> QED
    BY <2>2, <2>3
<1>4. CASE UserStore
  BY <1>4, EntriesKept DEF UserStore, PresetIInv, PresetInv, Active
<1>5. CASE StoreFinishes
  <2>1. /\ FinishCurve \/ FinishControl
        /\ Hears("ok")
    BY <1>5 DEF StoreFinishes
  <2>2. UNCHANGED presetVars /\ disturbed' = disturbed /\ (phase = "idle" => ~Active')
    <3>1. store # NoStore
      BY <2>1, FileNames DEF FinishCurve, FinishControl, CurveFiles
    <3>2. CASE store.by = "writer"
      BY <2>1, <3>1, <3>2 DEF Hears, WriterHears, IInv, InvWriter
    <3>3. CASE store.by # "writer"
      BY <2>1, <3>3 DEF Hears, writerVars, Active
    <3> QED
      BY <3>2, <3>3
  <2>3. CASE Active
    <3>1. PresetInv
      BY DEF PresetIInv
    <3> QED
      BY <2>1, <2>2, <2>3, <3>1, WriterFinishesCurve, WriterFinishesControl, EntriesKept
      DEF PresetIInv
  <2>4. CASE ~Active
    <3>1. ~Active'
      BY <2>2, <2>4 DEF Active
    <3> QED
      BY <2>2, <3>1, EntriesKept DEF PresetIInv, PresetInv
  <2> QED
    BY <2>3, <2>4
<1>6. CASE StoreFails
  <2>1. store # NoStore /\ Hears("error")
    BY <1>6 DEF StoreFails, WmiFails, AtRest
  <2>2. UNCHANGED presetVars /\ disturbed' = disturbed /\ (phase = "idle" => ~Active')
    <3>1. CASE store.by = "writer"
      BY <2>1, <3>1 DEF Hears, WriterHears, IInv, InvWriter
    <3>2. CASE store.by # "writer"
      BY <2>1, <3>2 DEF Hears, writerVars, Active
    <3> QED
      BY <3>1, <3>2
  <2>3. CASE Active
    <3>1. PresetInv
      BY DEF PresetIInv
    <3> QED
      BY <1>6, <2>2, <2>3, <3>1, WriterFails, EntriesKept DEF PresetIInv
  <2>4. CASE ~Active
    <3>1. ~Active'
      BY <2>2, <2>4 DEF Active
    <3> QED
      BY <2>2, <3>1, EntriesKept DEF PresetIInv, PresetInv
  <2> QED
    BY <2>3, <2>4
<1>7. CASE FirmwareExecutes
  <2>1. UNCHANGED <<presetVars, phase, disturbed>>
    BY <1>7 DEF FirmwareExecutes, writerVars
  <2>2. CASE Active
    BY <1>7, <2>1, <2>2, WriterExecuted, EntriesKept DEF PresetIInv
  <2>3. CASE ~Active
    BY <2>1, <2>3, EntriesKept DEF PresetIInv, PresetInv, Active
  <2> QED
    BY <2>2, <2>3
<1>8. CASE PowerModeChanges
  BY <1>8, EntriesKept DEF PowerModeChanges, PresetIInv, PresetInv, Active
<1>9. CASE UNCHANGED vars
  <2>1. UNCHANGED <<presetVars, phase, disturbed>>
    BY <1>9 DEF vars, writerVars
  <2>2. CASE Active
    BY <1>9, <2>1, <2>2, WriterStutters, EntriesKept DEF PresetIInv
  <2>3. CASE ~Active
    BY <2>1, <2>3, EntriesKept DEF PresetIInv, PresetInv, Active
  <2> QED
    BY <2>2, <2>3
<1> QED
  BY <1>1, <1>2, <1>3, <1>4, <1>5, <1>6, <1>7, <1>8, <1>9 DEF Next

(* What is known of an undisturbed writer holds in every reachable state.  *)
LEMMA PresetInvariance == Spec => []PresetIInv
<1>1. Init => PresetIInv
  BY DEF Init, PresetIInv, InvEntries, PresetInv, Active
<1>2. IInv /\ PresetIInv /\ [Next]_vars => PresetIInv'
  BY NextKeepsPreset
<1> QED
  BY <1>1, <1>2, Invariance, PTL DEF Spec

(***************************************************************************)
(* What the invariant says of the files that are watched.                  *)
(***************************************************************************)

(* A set of numbers up to ten has a least one.                             *)
LEMMA MinOfBounded ==
  ASSUME NEW S, S \subseteq 0..10, 10 \in S
  PROVE  Min(S) \in S
<1>1. \E x \in S : \A y \in S : x <= y
  <2> SUFFICES ASSUME \A x \in S : \E y \in S : y < x PROVE FALSE
    OBVIOUS
  <2>1. \A x \in 0..0 : x \notin S
    OBVIOUS
  <2>2. \A x \in 0..1 : x \notin S
    BY <2>1
  <2>3. \A x \in 0..2 : x \notin S
    BY <2>2
  <2>4. \A x \in 0..3 : x \notin S
    BY <2>3
  <2>5. \A x \in 0..4 : x \notin S
    BY <2>4
  <2>6. \A x \in 0..5 : x \notin S
    BY <2>5
  <2>7. \A x \in 0..6 : x \notin S
    BY <2>6
  <2>8. \A x \in 0..7 : x \notin S
    BY <2>7
  <2>9. \A x \in 0..8 : x \notin S
    BY <2>8
  <2>10. \A x \in 0..9 : x \notin S
    BY <2>9
  <2> QED
    BY <2>10
<1> QED
  BY <1>1 DEF Min

(* Between two stores of an undisturbed writer every attribute to follow   *)
(* shows what the preset asks for if its file has been written, and what   *)
(* it was before otherwise.                                                *)
LEMMA WatchedShown ==
  ASSUME IInv, PresetInv, IsUndisturbed, NEW i \in Points, NEW a \in Watched(i)
  PROVE  /\ a \in PointFiles /\ <<a, i>> \in AllPoints /\ <<a, i>> \in Followed
         /\ HasFile(machine, a)
         /\ Shown(machine, ram).points[i][a] = ShownPoints(machine, ram)[i][a]
         /\ ShownPoints(machine, ram)[i][a] =
              IF NumberOf(machine, <<a, i>>) < next THEN Wanted(i, a) ELSE start[i][a]
<1> DEFINE p == <<a, i>>
<1>1. /\ a \in PointFiles /\ HasFile(machine, a) /\ i < CurveSize(machine, ram)
      /\ ReadCell[machine][i][a] # NotKept /\ p \notin lost
  BY DEF Watched
<1>2. p \in AllPoints
  BY <1>1 DEF AllPoints
<1>3. machine \in Machines
  BY DEF IInv, RegInv, InvTypes
<1>4. p \in Kept(machine)
  BY <1>1, <1>3, OtherCells
<1>5. p \in Followed
  BY <1>1, <1>4 DEF Followed
<1>6. ~InStore(p)
  BY <1>2, RestHasNoStore DEF IsUndisturbed
<1>7. At(ShownPoints(machine, ram), p) = At(meant.points, p)
  BY <1>1, <1>2, <1>6 DEF IInv, RegInv, InvShown
<1>8. At(meant.points, p) =
        IF NumberOf(machine, p) < next THEN WantedAt(p) ELSE At(start, p)
  BY <1>1, <1>5, <1>6 DEF PresetInv, Active, IsUndisturbed, InvProgress
<1>9. Shown(machine, ram).points = ShownPoints(machine, ram)
  BY DEF Shown
<1> QED
  BY <1>1, <1>2, <1>5, <1>7, <1>8, <1>9 DEF At, WantedAt

(* The writer's next file.                                                 *)
LEMMA NextRange ==
  ASSUME IInv
  PROVE  next \in Nat /\ LastFile \in Nat /\ next <= LastFile + 1 /\ Len(entries) \in 0..10
<1>1. Len(entries) \in 0..10
  BY DEF IInv, InvWriter, MAXFANCURVESIZE
<1>2. LastFile \in Nat
  BY <1>1, LastFileRange
<1> QED
  BY <1>1, <1>2 DEF IInv, InvWriter

(* A point that was touched has a file that was written, one that is not   *)
(* finished one that was not.                                              *)
LEMMA PrefixHolds ==
  ASSUME IInv, PresetInv
  PROVE  PresetIsPrefix
<1> SUFFICES ASSUME IsUndisturbed
             PROVE  LET points == ShownPoints(machine, ram)
                        Kept_(i, value) == \A a \in Watched(i) : points[i][a] = value[a]
                        Asked(i) == [a \in PointFiles |-> Wanted(i, a)]
                        unfinished ==
                          {i \in Points : i >= Len(entries) \/ ~Kept_(i, Asked(i))}
                        touched == {i \in Points : ~Kept_(i, start[i])}
                    IN Max({0} \cup touched) <= Min({MAXFANCURVESIZE} \cup unfinished)
  BY DEF PresetIsPrefix
<1> DEFINE points == ShownPoints(machine, ram)
           Holds(i, value) == \A a \in Watched(i) : points[i][a] = value[a]
           Asked(i) == [a \in PointFiles |-> Wanted(i, a)]
           unfinished == {i \in Points : i >= Len(entries) \/ ~Holds(i, Asked(i))}
           touched == {i \in Points : ~Holds(i, start[i])}
           S == {0} \cup touched
           T == {10} \cup unfinished
<1>1. /\ next \in Nat /\ LastFile \in Nat /\ next <= LastFile + 1
      /\ Len(entries) \in 0..10
  BY NextRange
<1>2. ASSUME NEW i \in touched
      PROVE  \E p \in AllPoints : /\ HasFile(machine, p[1]) /\ p[2] = i
                                  /\ NumberOf(machine, p) < next
  <2>1. PICK a \in Watched(i) : points[i][a] # start[i][a]
    OBVIOUS
  <2> DEFINE p == <<a, i>>
  <2>2. /\ p \in AllPoints /\ HasFile(machine, a) /\ NumberOf(machine, p) < next
    BY <2>1, WatchedShown
  <2>3. p[1] = a /\ p[2] = i
    OBVIOUS
  <2> QED
    BY <2>2, <2>3
<1>3. ASSUME NEW i \in unfinished, i < Len(entries)
      PROVE  \E p \in AllPoints : /\ HasFile(machine, p[1]) /\ p[2] = i
                                  /\ ~(NumberOf(machine, p) < next)
  <2>0. i \in Points /\ ~(i >= Len(entries))
    BY <1>1, <1>3 DEF Points
  <2>1. PICK a \in Watched(i) : points[i][a] # Asked(i)[a]
    BY <2>0
  <2> DEFINE p == <<a, i>>
  <2>2. a \in PointFiles
    BY DEF Watched
  <2>3. points[i][a] # Wanted(i, a)
    BY <2>1, <2>2
  <2>4. /\ p \in AllPoints /\ HasFile(machine, a) /\ ~(NumberOf(machine, p) < next)
    BY <2>0, <2>3, WatchedShown
  <2>5. p[1] = a /\ p[2] = i
    OBVIOUS
  <2> QED
    BY <2>4, <2>5
<1>4. touched \subseteq 0..9 /\ unfinished \subseteq 0..9
  BY DEF Points, MAXFANCURVESIZE
<1> HIDE DEF touched, unfinished
<1>5. ASSUME NEW i \in touched, NEW j \in unfinished
      PROVE  i <= j
  <2>1. i \in 0..9 /\ j \in 0..9
    BY <1>4
  <2>2. PICK p \in AllPoints : /\ HasFile(machine, p[1]) /\ p[2] = i
                               /\ NumberOf(machine, p) < next
    BY <1>2
  <2>3. NumberOf(machine, p) \in Nat
    BY <2>2, NumberRange
  <2>4. CASE j >= Len(entries)
    <3>1. NumberOf(machine, p) < LastFile + 1
      BY <1>1, <2>2, <2>3
    <3>2. i < Len(entries)
      BY <1>1, <2>2, <3>1, NumberRange
    <3> QED
      BY <1>1, <2>1, <2>4, <3>2
  <2>5. CASE j < Len(entries)
    <3>1. PICK q \in AllPoints : /\ HasFile(machine, q[1]) /\ q[2] = j
                                 /\ ~(NumberOf(machine, q) < next)
      BY <1>3, <2>5
    <3>2. NumberOf(machine, q) \in Nat
      BY <3>1, NumberRange
    <3>3. NumberOf(machine, p) < NumberOf(machine, q)
      BY <1>1, <2>2, <2>3, <3>1, <3>2
    <3> QED
      BY <2>2, <3>1, <3>3, NumberRange
  <2> QED
    BY <1>1, <2>1, <2>4, <2>5
<1>6. Max(S) \in S /\ Min(T) \in T
  <2>1. S \subseteq 0..10 /\ T \subseteq 0..10 /\ 0 \in S /\ 10 \in T
    BY <1>4
  <2> HIDE DEF S, T
  <2> QED
    BY <2>1, MaxOfBounded, MinOfBounded
<1>7. \A x \in S, y \in T : x <= y
  BY <1>4, <1>5
<1> HIDE DEF S, T
<1>8. Max(S) <= Min(T)
  BY <1>6, <1>7
<1> QED
  BY <1>8 DEF S, T, touched, unfinished, MAXFANCURVESIZE

(* A done preset is shown: its speeds were accepted, so they were in range *)
(* and survive the conversions.                                            *)
LEMMA WrittenHolds ==
  ASSUME IInv, PresetIInv
  PROVE  PresetWritten
<1> SUFFICES ASSUME IsUndisturbed, phase = "done"
             PROVE  LET shown == Shown(machine, ram)
                        missing(i, a) ==
                          (entries[i + 1][a] \div 100) * 100
                            - Rpm1Of(FromUnit(machine, shown.points[i][a]))
                    IN /\ \A i \in Points : \A a \in Watched(i) :
                            IF i >= Len(entries) THEN shown.points[i][a] = start[i][a]
                            ELSE IF a \in Speeds
                            THEN missing(i, a) \in IF Unit(machine) = "PERCENT"
                                                     THEN {0, 100} ELSE {0}
                            ELSE shown.points[i][a] = entries[i + 1][a]
                       /\ "minifancurve" \in OwnControls[machine]
                            => shown.controls["minifancurve"] = enable_minifancurve
  BY DEF PresetWritten
<1> DEFINE shown == Shown(machine, ram)
           missing(i, a) == (entries[i + 1][a] \div 100) * 100
                              - Rpm1Of(FromUnit(machine, shown.points[i][a]))
<1>1. InvEntries /\ PresetInv /\ InvDone /\ InvAccepted /\ InvMini
  BY DEF PresetIInv, PresetInv, Active, IsUndisturbed
<1>2. /\ next \in Nat /\ LastFile \in Nat /\ Len(entries) \in 0..10
      /\ next = LastFile + 1
  BY <1>1, NextRange DEF InvDone
<1>3. ASSUME NEW i \in Points, NEW a \in Watched(i)
      PROVE  IF i >= Len(entries) THEN shown.points[i][a] = start[i][a]
             ELSE IF a \in Speeds
             THEN missing(i, a) \in IF Unit(machine) = "PERCENT" THEN {0, 100} ELSE {0}
             ELSE shown.points[i][a] = entries[i + 1][a]
  <2> DEFINE p == <<a, i>>
  <2>1. /\ a \in PointFiles /\ p \in AllPoints /\ HasFile(machine, a)
        /\ shown.points[i][a] =
             IF NumberOf(machine, p) < next THEN Wanted(i, a) ELSE start[i][a]
    BY <1>1, WatchedShown
  <2>2. p[1] = a /\ p[2] = i
    OBVIOUS
  <2>3. NumberOf(machine, p) < next <=> i < Len(entries)
    BY <1>2, <2>1, <2>2, NumberRange
  <2>4. i \in Nat
    BY DEF Points, MAXFANCURVESIZE
  <2>5. CASE i >= Len(entries)
    BY <1>2, <2>1, <2>3, <2>4, <2>5
  <2>6. CASE ~(i >= Len(entries))
    <3>1. i < Len(entries) /\ i + 1 \in 1..Len(entries)
      BY <1>2, <2>4, <2>6
    <3>2. shown.points[i][a] = Wanted(i, a)
      BY <2>1, <2>3, <3>1
    <3>3. CASE a \in Speeds
      <4> DEFINE v == entries[i + 1][a]
      <4>1. v \in Int
        BY <1>1, <2>1, <3>1 DEF InvEntries
      <4>2. PwmOf(v) \in 0..255
        BY <1>1, <2>1, <2>2, <2>3, <3>1, <3>3 DEF InvAccepted
      <4>3. shown.points[i][a] = ToUnit(machine, PwmOf(v))
        BY <3>2, <3>3 DEF Wanted
      <4> HIDE DEF v
      <4>4. (v \div 100) * 100 - Rpm1Of(FromUnit(machine, ToUnit(machine, PwmOf(v))))
              \in IF Unit(machine) = "PERCENT" THEN {0, 100} ELSE {0}
        BY <4>1, <4>2, SpeedKept
      <4>5. missing(i, a) \in IF Unit(machine) = "PERCENT" THEN {0, 100} ELSE {0}
        BY <4>3, <4>4, Zenon DEF v
      <4> QED
        BY <2>6, <3>3, <4>5
    <3>4. CASE a \notin Speeds
      <4>1. shown.points[i][a] = entries[i + 1][a]
        BY <3>2, <3>4 DEF Wanted
      <4> QED
        BY <2>6, <3>4, <4>1
    <3> QED
      BY <3>3, <3>4
  <2> QED
    BY <2>5, <2>6
<1>4. ASSUME "minifancurve" \in OwnControls[machine]
      PROVE  shown.controls["minifancurve"] = enable_minifancurve
  <2>1. meant.controls["minifancurve"] = enable_minifancurve
    BY <1>1, <1>2, <1>4 DEF InvMini
  <2>2. meant.controls = shown.controls
    BY DEF IInv, RegInv, InvControls, Shown
  <2> QED
    BY <2>1, <2>2
<1> HIDE DEF missing, shown
<1> QED
  BY <1>3, <1>4 DEF missing, shown

(* What was read and has been written again is what was shown.             *)
LEMMA WriteBackHolds ==
  ASSUME IInv, PresetIInv
  PROVE  WriteBackHarmless
<1> SUFFICES ASSUME IsUndisturbed, fromHardware, Unit(machine) # "PERCENT",
                    NEW i \in Points, NEW a \in Watched(i)
             PROVE  Shown(machine, ram).points[i][a] = start[i][a]
  BY DEF WriteBackHarmless
<1> DEFINE p == <<a, i>>
<1>1. PresetInv /\ InvAccepted /\ InvReadBack
  BY DEF PresetIInv, PresetInv, Active, IsUndisturbed
<1>2. /\ a \in PointFiles /\ p \in AllPoints /\ HasFile(machine, a) /\ p \in Followed
      /\ Shown(machine, ram).points[i][a] =
           IF NumberOf(machine, p) < next THEN Wanted(i, a) ELSE start[i][a]
  BY <1>1, WatchedShown
<1>3. p[1] = a /\ p[2] = i
  OBVIOUS
<1>4. CASE NumberOf(machine, p) < next
  <2>1. /\ NumberOf(machine, p) \in Nat /\ next \in Nat /\ LastFile \in Nat
        /\ next <= LastFile + 1 /\ Len(entries) \in 0..10
    BY <1>2, <1>3, NumberRange, NextRange
  <2>2. NumberOf(machine, p) < LastFile + 1
    BY <1>4, <2>1
  <2>3. p[2] < Len(entries)
    BY <1>2, <1>3, <2>1, <2>2, NumberRange
  <2>4. a \in Speeds => PwmOf(entries[p[2] + 1][p[1]]) \in 0..255
    BY <1>1, <1>2, <1>3, <1>4 DEF InvAccepted
  <2>5. WantedAt(p) = At(start, p)
    BY <1>1, <1>2, <1>3, <2>3, <2>4 DEF InvReadBack
  <2>6. Wanted(i, a) = start[i][a]
    BY <1>3, <2>5 DEF WantedAt, At
  <2> QED
    BY <1>2, <1>4, <2>6
<1>5. CASE ~(NumberOf(machine, p) < next)
  BY <1>2, <1>5
<1> QED
  BY <1>4, <1>5

(* A preset that fails half way, or is still being written, leaves every   *)
(* point as asked for up to some point and as before behind it.            *)
THEOREM PresetLeavesPrefix == Spec => []PresetIsPrefix
<1>1. IInv /\ PresetIInv => PresetIsPrefix
  BY PrefixHolds DEF PresetIInv
<1> QED
  BY <1>1, Invariance, PresetInvariance, PTL

(* A writer that is done has written the preset, whatever was asked for:   *)
(* no conversion loses more of a speed than a step of its unit.            *)
THEOREM PresetIsWritten == Spec => []PresetWritten
<1>1. IInv /\ PresetIInv => PresetWritten
  BY WrittenHolds
<1> QED
  BY <1>1, Invariance, PresetInvariance, PTL

(* Writing back a curve just read never changes a point that is shown.     *)
THEOREM WriteBackChangesNothing == Spec => []WriteBackHarmless
<1>1. IInv /\ PresetIInv => WriteBackHarmless
  BY WriteBackHolds
<1> QED
  BY <1>1, Invariance, PresetInvariance, PTL
================================================================================
