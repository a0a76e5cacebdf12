---------------------------- MODULE Attributes_proofs ----------------------------
(***************************************************************************)
(* For every set of machines, every number stored and every speed of the   *)
(* fans: the files of Attributes keep their types, show what was stored to *)
(* them, and show a speed the fan had.                                     *)
(*                                                                         *)
(* That the files keep apart is a fact about the tables of methods, which  *)
(* the first part establishes group by group; the state comes second.      *)
(***************************************************************************)
EXTENDS Attributes, TLAPS

(* Min of FiniteSetsExt.                                                   *)
LEMMA MinOfTwo ==
  ASSUME NEW a \in Int, NEW b \in Int
  PROVE  Min({a, b}) = IF a <= b THEN a ELSE b
<1>1. \E x \in {a, b} : \A y \in {a, b} : x =< y
  OBVIOUS
<1> QED
  BY <1>1 DEF Min

------------------------------------------------------------------------------
(* The tables of methods.  A store changes what its own file shows ...     *)
Paired(m) == m.set # NoMethod => m.get # NoMethod /\ GetOf(m.class, m.set) = m.get

(* ... and nothing that another file shows.                                *)
Apart(m, n) ==
  m.set # NoMethod /\ n.get # NoMethod /\ m.class = n.class
    => GetOf(m.class, m.set) # n.get

(* The groups of files, class by class.                                    *)
LEMMA SwitchMethods ==
  ASSUME NEW f \in DOMAIN SwitchFiles
  PROVE  /\ SwitchFiles[f].class = "GAMEZONE"
         /\ f # "notify_dgpu" => Paired(SwitchFiles[f])
         /\ \A g \in DOMAIN SwitchFiles \ {f} : Apart(SwitchFiles[f], SwitchFiles[g])
         /\ \A g \in DOMAIN InfoFiles : Apart(SwitchFiles[f], InfoFiles[g])
<1> USE DEF SwitchFiles, Methods, Inverted, NoMethod
<1>1. SwitchFiles[f].class = "GAMEZONE"
  OBVIOUS
<1>2. f # "notify_dgpu" => Paired(SwitchFiles[f])
  BY DEF Paired, GetOf
<1>3. \A g \in DOMAIN SwitchFiles \ {f} : Apart(SwitchFiles[f], SwitchFiles[g])
  BY DEF Apart, GetOf
<1>4. \A g \in DOMAIN InfoFiles : Apart(SwitchFiles[f], InfoFiles[g])
  BY DEF Apart, GetOf, InfoFiles
<1> QED
  BY <1>1, <1>2, <1>3, <1>4

LEMMA InfoMethods ==
  ASSUME NEW f \in DOMAIN InfoFiles
  PROVE  InfoFiles[f].class = "GAMEZONE" /\ InfoFiles[f].set = NoMethod
<1>1. InfoFiles[f].class = "GAMEZONE"
  BY DEF InfoFiles, Methods
<1>2. InfoFiles[f].set = NoMethod
  BY DEF InfoFiles, Methods
<1> QED
  BY <1>1, <1>2

LEMMA CpuMethods ==
  ASSUME NEW f \in DOMAIN CpuFiles
  PROVE  /\ CpuFiles[f].class = "CPU" /\ CpuFiles[f].invert = FALSE
         /\ Paired(CpuFiles[f])
         /\ \A g \in DOMAIN CpuFiles \ {f} : Apart(CpuFiles[f], CpuFiles[g])
<1> USE DEF CpuFiles, Methods, NoMethod
<1>1. CpuFiles[f].class = "CPU"
  OBVIOUS
<1>2. CpuFiles[f].invert = FALSE
  OBVIOUS
<1>3. Paired(CpuFiles[f])
  BY DEF Paired, GetOf
<1>4. \A g \in DOMAIN CpuFiles \ {f} : Apart(CpuFiles[f], CpuFiles[g])
  BY DEF Apart, GetOf
<1> QED
  BY <1>1, <1>2, <1>3, <1>4

(* The peak limit of the CPU and the temperature limit of the GPU are not  *)
(* kept apart.                                                             *)
Shared == {"cpu_peak_powerlimit", "gpu_temperature_limit"}

LEMMA GpuMethods ==
  ASSUME NEW f \in DOMAIN FilesOfGpu
  PROVE  /\ FilesOfGpu[f].class = "GPU" /\ FilesOfGpu[f].invert = FALSE
         /\ Paired(FilesOfGpu[f])
         /\ \A g \in DOMAIN FilesOfGpu \ ({f} \cup Shared) :
              Apart(FilesOfGpu[f], FilesOfGpu[g])
<1> USE DEF CpuFilesOfGpu, GpuFiles, Methods, NoMethod
<1>1. /\ f \in DOMAIN CpuFilesOfGpu \/ f \in DOMAIN GpuFiles \ DOMAIN CpuFilesOfGpu
      /\ \A x \in DOMAIN CpuFilesOfGpu : FilesOfGpu[x] = CpuFilesOfGpu[x]
      /\ \A x \in DOMAIN GpuFiles : FilesOfGpu[x] = GpuFiles[x]
      /\ DOMAIN FilesOfGpu = DOMAIN CpuFilesOfGpu \cup DOMAIN GpuFiles
  <2>1. DOMAIN CpuFilesOfGpu \cap DOMAIN GpuFiles = {}
    OBVIOUS
  <2> HIDE DEF CpuFilesOfGpu, GpuFiles
  <2> QED
    BY <2>1 DEF FilesOfGpu, Merged
<1>2. \A x \in DOMAIN CpuFilesOfGpu :
         /\ CpuFilesOfGpu[x].class = "GPU" /\ CpuFilesOfGpu[x].invert = FALSE
         /\ Paired(CpuFilesOfGpu[x])
  BY DEF Paired, GetOf
<1>3. \A x \in DOMAIN GpuFiles :
         /\ GpuFiles[x].class = "GPU" /\ GpuFiles[x].invert = FALSE
         /\ Paired(GpuFiles[x])
  BY DEF Paired, GetOf
<1>4. \A x, y \in DOMAIN CpuFilesOfGpu :
         x # y => Apart(CpuFilesOfGpu[x], CpuFilesOfGpu[y])
  BY DEF Apart, GetOf
<1>5. \A x, y \in DOMAIN GpuFiles : x # y => Apart(GpuFiles[x], GpuFiles[y])
  BY DEF Apart, GetOf
<1>6. \A x \in DOMAIN CpuFilesOfGpu, y \in DOMAIN GpuFiles :
         /\ y \notin Shared => Apart(CpuFilesOfGpu[x], GpuFiles[y])
         /\ x \notin Shared => Apart(GpuFiles[y], CpuFilesOfGpu[x])
  BY DEF Apart, GetOf, Shared
<1> HIDE DEF CpuFilesOfGpu, GpuFiles
<1> QED
  BY <1>1, <1>2, <1>3, <1>4, <1>5, <1>6

LEMMA FanMethods ==
  ASSUME NEW f \in DOMAIN FanFiles
  PROVE  /\ FanFiles[f].class = "FAN" /\ FanFiles[f].invert = FALSE
         /\ Paired(FanFiles[f])
         /\ \A g \in DOMAIN FanFiles : g = f
BY DEF FanFiles, Methods, NoMethod, Paired, GetOf

(* No two groups have a file in common.                                    *)
LEMMA GroupsDisjoint ==
  /\ DOMAIN SwitchFiles \cap DOMAIN InfoFiles = {}
  /\ DOMAIN CpuFiles \cap DOMAIN FilesOfGpu = {}
  /\ DOMAIN OverclockFiles \cap DOMAIN FanFiles = {}
  /\ DOMAIN GameZoneFiles \cap DOMAIN Merged(OverclockFiles, FanFiles) = {}
<1>1. /\ DOMAIN FilesOfGpu = DOMAIN CpuFilesOfGpu \cup DOMAIN GpuFiles
      /\ DOMAIN OverclockFiles = DOMAIN CpuFiles \cup DOMAIN FilesOfGpu
      /\ DOMAIN GameZoneFiles = DOMAIN SwitchFiles \cup DOMAIN InfoFiles
      /\ DOMAIN Merged(OverclockFiles, FanFiles)
           = DOMAIN OverclockFiles \cup DOMAIN FanFiles
  BY DEF Merged, FilesOfGpu, OverclockFiles, GameZoneFiles
<1> QED
  BY <1>1 DEF SwitchFiles, InfoFiles, CpuFiles, CpuFilesOfGpu, GpuFiles, FanFiles

(* A file of a WMI class is one of the groups' of this class.              *)
LEMMA WmiFilesAre ==
  ASSUME NEW f \in DOMAIN WmiFiles
  PROVE  \/ f \in DOMAIN SwitchFiles /\ WmiFiles[f] = SwitchFiles[f]
         \/ f \in DOMAIN InfoFiles /\ WmiFiles[f] = InfoFiles[f]
         \/ f \in DOMAIN CpuFiles /\ WmiFiles[f] = CpuFiles[f]
         \/ f \in DOMAIN FilesOfGpu /\ WmiFiles[f] = FilesOfGpu[f]
         \/ f \in DOMAIN FanFiles /\ WmiFiles[f] = FanFiles[f]
<1> DEFINE others == Merged(OverclockFiles, FanFiles)
<1>1. /\ DOMAIN WmiFiles = DOMAIN GameZoneFiles \cup DOMAIN others
      /\ \A x \in DOMAIN GameZoneFiles : WmiFiles[x] = GameZoneFiles[x]
      /\ \A x \in DOMAIN others : WmiFiles[x] = others[x]
  BY GroupsDisjoint DEF Merged, WmiFiles
<1>2. /\ DOMAIN others = DOMAIN OverclockFiles \cup DOMAIN FanFiles
      /\ \A x \in DOMAIN OverclockFiles : others[x] = OverclockFiles[x]
      /\ \A x \in DOMAIN FanFiles : others[x] = FanFiles[x]
  BY GroupsDisjoint DEF Merged
<1>3. /\ DOMAIN OverclockFiles = DOMAIN CpuFiles \cup DOMAIN FilesOfGpu
      /\ \A x \in DOMAIN CpuFiles : OverclockFiles[x] = CpuFiles[x]
      /\ \A x \in DOMAIN FilesOfGpu : OverclockFiles[x] = FilesOfGpu[x]
  BY GroupsDisjoint DEF Merged, OverclockFiles
<1>4. /\ DOMAIN GameZoneFiles = DOMAIN SwitchFiles \cup DOMAIN InfoFiles
      /\ \A x \in DOMAIN SwitchFiles : GameZoneFiles[x] = SwitchFiles[x]
      /\ \A x \in DOMAIN InfoFiles : GameZoneFiles[x] = InfoFiles[x]
  BY GroupsDisjoint DEF Merged, GameZoneFiles
<1> HIDE DEF others
<1> QED
  BY <1>1, <1>2, <1>3, <1>4

LEMMA WmiMethods ==
  ASSUME NEW f \in DOMAIN WmiFiles
  PROVE  /\ WmiFiles[f].class \in {"GAMEZONE", "CPU", "GPU", "FAN"}
         /\ f # "notify_dgpu" => Paired(WmiFiles[f])
         /\ WmiFiles[f].class # "GAMEZONE" => WmiFiles[f].invert = FALSE
<1>1. CASE f \in DOMAIN SwitchFiles /\ WmiFiles[f] = SwitchFiles[f]
  BY <1>1, SwitchMethods
<1>2. CASE f \in DOMAIN InfoFiles /\ WmiFiles[f] = InfoFiles[f]
  BY <1>2, InfoMethods DEF Paired
<1>3. CASE f \in DOMAIN CpuFiles /\ WmiFiles[f] = CpuFiles[f]
  BY <1>3, CpuMethods
<1>4. CASE f \in DOMAIN FilesOfGpu /\ WmiFiles[f] = FilesOfGpu[f]
  BY <1>4, GpuMethods
<1>5. CASE f \in DOMAIN FanFiles /\ WmiFiles[f] = FanFiles[f]
  BY <1>5, FanMethods
<1> QED
  BY <1>1, <1>2, <1>3, <1>4, <1>5, WmiFilesAre

LEMMA GroupOfClass ==
  ASSUME NEW f \in DOMAIN WmiFiles
  PROVE  /\ WmiFiles[f].class = "GAMEZONE" =>
              \/ f \in DOMAIN SwitchFiles /\ WmiFiles[f] = SwitchFiles[f]
              \/ f \in DOMAIN InfoFiles /\ WmiFiles[f] = InfoFiles[f]
         /\ WmiFiles[f].class = "CPU" =>
              f \in DOMAIN CpuFiles /\ WmiFiles[f] = CpuFiles[f]
         /\ WmiFiles[f].class = "GPU" =>
              f \in DOMAIN FilesOfGpu /\ WmiFiles[f] = FilesOfGpu[f]
         /\ WmiFiles[f].class = "FAN" =>
              f \in DOMAIN FanFiles /\ WmiFiles[f] = FanFiles[f]
<1>1. CASE f \in DOMAIN SwitchFiles /\ WmiFiles[f] = SwitchFiles[f]
  <2>1. WmiFiles[f].class = "GAMEZONE"
    BY <1>1, SwitchMethods
  <2> QED
    BY <1>1, <2>1
<1>2. CASE f \in DOMAIN InfoFiles /\ WmiFiles[f] = InfoFiles[f]
  <2>1. WmiFiles[f].class = "GAMEZONE"
    BY <1>2, InfoMethods
  <2> QED
    BY <1>2, <2>1
<1>3. CASE f \in DOMAIN CpuFiles /\ WmiFiles[f] = CpuFiles[f]
  <2>1. WmiFiles[f].class = "CPU"
    BY <1>3, CpuMethods
  <2> QED
    BY <1>3, <2>1
<1>4. CASE f \in DOMAIN FilesOfGpu /\ WmiFiles[f] = FilesOfGpu[f]
  <2>1. WmiFiles[f].class = "GPU"
    BY <1>4, GpuMethods
  <2> QED
    BY <1>4, <2>1
<1>5. CASE f \in DOMAIN FanFiles /\ WmiFiles[f] = FanFiles[f]
  <2>1. WmiFiles[f].class = "FAN"
    BY <1>5, FanMethods
  <2> QED
    BY <1>5, <2>1
<1> QED
  BY <1>1, <1>2, <1>3, <1>4, <1>5, WmiFilesAre

(* No file of a class changes what another one shows, but for the two      *)
(* shared ones.                                                            *)
LEMMA WmiFilesApart ==
  ASSUME NEW f \in DOMAIN WmiFiles, NEW g \in DOMAIN WmiFiles \ Shared, f # g
  PROVE  Apart(WmiFiles[f], WmiFiles[g])
<1> SUFFICES ASSUME WmiFiles[f].class = WmiFiles[g].class,
                    WmiFiles[f].set # NoMethod
             PROVE  Apart(WmiFiles[f], WmiFiles[g])
  BY DEF Apart
<1>1. CASE f \in DOMAIN SwitchFiles /\ WmiFiles[f] = SwitchFiles[f]
  <2>1. WmiFiles[f].class = "GAMEZONE"
    BY <1>1, SwitchMethods
  <2>2. \/ g \in DOMAIN SwitchFiles /\ WmiFiles[g] = SwitchFiles[g]
        \/ g \in DOMAIN InfoFiles /\ WmiFiles[g] = InfoFiles[g]
    BY <2>1, GroupOfClass
  <2> QED
    BY <1>1, <2>2, SwitchMethods
<1>2. CASE f \in DOMAIN InfoFiles /\ WmiFiles[f] = InfoFiles[f]
  BY <1>2, InfoMethods
<1>3. CASE f \in DOMAIN CpuFiles /\ WmiFiles[f] = CpuFiles[f]
  <2>1. WmiFiles[f].class = "CPU"
    BY <1>3, CpuMethods
  <2>2. g \in DOMAIN CpuFiles /\ WmiFiles[g] = CpuFiles[g]
    BY <2>1, GroupOfClass
  <2> QED
    BY <1>3, <2>2, CpuMethods
<1>4. CASE f \in DOMAIN FilesOfGpu /\ WmiFiles[f] = FilesOfGpu[f]
  <2>1. WmiFiles[f].class = "GPU"
    BY <1>4, GpuMethods
  <2>2. g \in DOMAIN FilesOfGpu /\ WmiFiles[g] = FilesOfGpu[g]
    BY <2>1, GroupOfClass
  <2> QED
    BY <1>4, <2>2, GpuMethods
<1>5. CASE f \in DOMAIN FanFiles /\ WmiFiles[f] = FanFiles[f]
  <2>1. WmiFiles[f].class = "FAN"
    BY <1>5, FanMethods
  <2>2. g \in DOMAIN FanFiles
    BY <2>1, GroupOfClass
  <2> QED
    BY <1>5, <2>2, FanMethods
<1> QED
  BY <1>1, <1>2, <1>3, <1>4, <1>5, WmiFilesAre

(* The features have numbers of their own, and only the GPU's temperature  *)
(* limit is a file of a WMI class without being stored as a feature.       *)
LEMMA FeatureNumbers ==
  /\ DOMAIN Features = DOMAIN StoredFeatures \cup DOMAIN ReadFeatures
  /\ \A f \in DOMAIN StoredFeatures : Features[f] = StoredFeatures[f]
  /\ \A f \in DOMAIN StoredFeatures : \A g \in DOMAIN Features \ {f} :
       StoredFeatures[f] # Features[g]
<1>1. DOMAIN StoredFeatures \cap DOMAIN ReadFeatures = {}
  BY DEF StoredFeatures, ReadFeatures
<1>2. \A f, g \in DOMAIN StoredFeatures : f # g => StoredFeatures[f] # StoredFeatures[g]
  BY DEF StoredFeatures
<1>3. \A f \in DOMAIN StoredFeatures, g \in DOMAIN ReadFeatures :
        StoredFeatures[f] # ReadFeatures[g]
  BY DEF StoredFeatures, ReadFeatures
<1> QED
  BY <1>1, <1>2, <1>3 DEF Features, Merged

LEMMA FeatureFiles ==
  /\ DOMAIN StoredFeatures \subseteq DOMAIN OverclockFiles
  /\ DOMAIN ReadFeatures \cap DOMAIN WmiFiles = {"gpu_temperature_limit"}
<1>1. DOMAIN WmiFiles = DOMAIN SwitchFiles \cup DOMAIN InfoFiles
                          \cup DOMAIN OverclockFiles \cup DOMAIN FanFiles
  BY DEF Merged, WmiFiles, GameZoneFiles
<1>2. DOMAIN OverclockFiles
        = DOMAIN CpuFiles \cup DOMAIN CpuFilesOfGpu \cup DOMAIN GpuFiles
  BY DEF Merged, OverclockFiles, FilesOfGpu
<1>3. DOMAIN StoredFeatures \subseteq DOMAIN OverclockFiles
  BY <1>2 DEF StoredFeatures, CpuFiles, CpuFilesOfGpu, GpuFiles
<1>4. DOMAIN ReadFeatures \cap DOMAIN WmiFiles = {"gpu_temperature_limit"}
  BY <1>1, <1>2 DEF ReadFeatures, SwitchFiles, InfoFiles, CpuFiles, CpuFilesOfGpu,
     GpuFiles, FanFiles
<1> QED
  BY <1>3, <1>4

------------------------------------------------------------------------------
(* Where a file is read from, and where it is stored to.                   *)
LEMMA MethodTarget ==
  ASSUME NEW f, StoreTarget(f) # << >>, ~OverFeature(StoredFeatures, f)
  PROVE  /\ f \in DOMAIN WmiFiles /\ WmiFiles[f].set # NoMethod
         /\ StoreTarget(f)
              = <<WmiFiles[f].class, GetOf(WmiFiles[f].class, WmiFiles[f].set)>>
BY DEF StoreTarget

LEMMA MethodSource ==
  ASSUME NEW f, ShowSource(f) # << >>, ~OverFeature(Features, f)
  PROVE  /\ f \in DOMAIN WmiFiles /\ WmiFiles[f].get # NoMethod
         /\ ShowSource(f) = <<WmiFiles[f].class, WmiFiles[f].get>>
BY DEF ShowSource

(* The files that keep apart show what is stored to them ...               *)
Separate == Files \ (Entangled \cup {"notify_dgpu"})

LEMMA TargetIsSource ==
  ASSUME NEW f \in Separate, StoreTarget(f) # << >>
  PROVE  ShowSource(f) = StoreTarget(f)
<1>1. CASE OverFeature(StoredFeatures, f)
  <2>1. OverFeature(Features, f) /\ Features[f] = StoredFeatures[f]
    BY <1>1, FeatureNumbers DEF OverFeature
  <2> QED
    BY <1>1, <2>1 DEF ShowSource, StoreTarget
<1>2. CASE ~OverFeature(StoredFeatures, f)
  <2>1. /\ f \in DOMAIN WmiFiles /\ WmiFiles[f].set # NoMethod
        /\ StoreTarget(f)
             = <<WmiFiles[f].class, GetOf(WmiFiles[f].class, WmiFiles[f].set)>>
    BY <1>2, MethodTarget
  <2>2. ~OverFeature(Features, f)
    BY <1>2, <2>1, FeatureNumbers, FeatureFiles DEF OverFeature, Separate, Entangled
  <2>3. f # "notify_dgpu"
    BY DEF Separate
  <2>4. /\ WmiFiles[f].get # NoMethod
        /\ GetOf(WmiFiles[f].class, WmiFiles[f].set) = WmiFiles[f].get
    BY <2>1, <2>3, WmiMethods DEF Paired
  <2> QED
    BY <2>1, <2>2, <2>4 DEF ShowSource
<1> QED
  BY <1>1, <1>2

(* ... and not what is stored to another one.                              *)
LEMMA TargetsApart ==
  ASSUME NEW f \in Separate, NEW g \in Files, f # g,
         ShowSource(f) # << >>, StoreTarget(g) # << >>
  PROVE  ShowSource(f) # StoreTarget(g)
<1>1. CASE OverFeature(Features, f) /\ OverFeature(StoredFeatures, g)
  <2>1. StoredFeatures[g] # Features[f]
    BY <1>1, FeatureNumbers DEF OverFeature
  <2> QED
    BY <1>1, <2>1 DEF ShowSource, StoreTarget
<1>2. CASE OverFeature(Features, f) /\ ~OverFeature(StoredFeatures, g)
  <2>1. /\ g \in DOMAIN WmiFiles
        /\ StoreTarget(g)
             = <<WmiFiles[g].class, GetOf(WmiFiles[g].class, WmiFiles[g].set)>>
    BY <1>2, MethodTarget
  <2>2. WmiFiles[g].class # "OTHER"
    BY <2>1, WmiMethods
  <2> QED
    BY <1>2, <2>1, <2>2 DEF ShowSource
<1>3. CASE ~OverFeature(Features, f) /\ OverFeature(StoredFeatures, g)
  <2>1. /\ f \in DOMAIN WmiFiles
        /\ ShowSource(f) = <<WmiFiles[f].class, WmiFiles[f].get>>
    BY <1>3, MethodSource
  <2>2. WmiFiles[f].class # "OTHER"
    BY <2>1, WmiMethods
  <2> QED
    BY <1>3, <2>1, <2>2 DEF StoreTarget
<1>4. CASE ~OverFeature(Features, f) /\ ~OverFeature(StoredFeatures, g)
  <2>1. /\ f \in DOMAIN WmiFiles /\ WmiFiles[f].get # NoMethod
        /\ ShowSource(f) = <<WmiFiles[f].class, WmiFiles[f].get>>
    BY <1>4, MethodSource
  <2>2. /\ g \in DOMAIN WmiFiles /\ WmiFiles[g].set # NoMethod
        /\ StoreTarget(g)
             = <<WmiFiles[g].class, GetOf(WmiFiles[g].class, WmiFiles[g].set)>>
    BY <1>4, MethodTarget
  <2>3. f \notin Shared
    <3>1. "cpu_peak_powerlimit" \in DOMAIN StoredFeatures
      BY DEF StoredFeatures
    <3> QED
      BY <1>4, <3>1, FeatureNumbers DEF Separate, Entangled, Shared, OverFeature
  <2>4. Apart(WmiFiles[g], WmiFiles[f])
    BY <2>1, <2>2, <2>3, WmiFilesApart
  <2> QED
    BY <2>1, <2>2, <2>4 DEF Apart
<1> QED
  BY <1>1, <1>2, <1>3, <1>4

(* Only files of the embedded controller's switches are inverted.          *)
LEMMA FeaturesNotInverted ==
  ASSUME NEW f, OverFeature(StoredFeatures, f)
  PROVE  ~IsInverted(f)
<1> SUFFICES ASSUME f \in DOMAIN WmiFiles
             PROVE  WmiFiles[f].invert = FALSE
  BY DEF IsInverted
<1>1. f \in DOMAIN StoredFeatures
  BY DEF OverFeature
<1>2. f \notin DOMAIN SwitchFiles /\ f \notin DOMAIN InfoFiles
  BY <1>1 DEF StoredFeatures, SwitchFiles, InfoFiles
<1>3. CASE f \in DOMAIN CpuFiles /\ WmiFiles[f] = CpuFiles[f]
  BY <1>3, CpuMethods
<1>4. CASE f \in DOMAIN FilesOfGpu /\ WmiFiles[f] = FilesOfGpu[f]
  BY <1>4, GpuMethods
<1>5. CASE f \in DOMAIN FanFiles /\ WmiFiles[f] = FanFiles[f]
  BY <1>5, FanMethods
<1> QED
  BY <1>2, <1>3, <1>4, <1>5, WmiFilesAre

(* What a file shows depends on the machine, its classes and the firmware. *)
LEMMA ShowFrame ==
  ASSUME UNCHANGED <<machine, guids>>, NEW f
  PROVE  /\ ShowSource(f)' = ShowSource(f)
         /\ Visible(f)' = Visible(f)
         /\ Separate' = Separate
         /\ fw' = fw => Show(f)' = Show(f)
<1>1. ShowSource(f)' = ShowSource(f)
  BY DEF ShowSource, OverFeature, conf
<1>2. Visible(f)' = Visible(f)
  BY DEF Visible, Has, conf
<1>3. Separate' = Separate
  BY DEF Separate, Entangled, conf
<1>4. fw' = fw => Show(f)' = Show(f)
  BY <1>1 DEF Show, Present
<1> QED
  BY <1>1, <1>2, <1>3, <1>4

------------------------------------------------------------------------------
(* The encodings of a light: what is written reads back.                   *)
LEMMA LightReadsBack ==
  ASSUME NEW l \in DOMAIN Lights, NEW b \in 0..MaxBrightness(l)
  PROVE  LightRaw(l, b) \in 0..255 /\ LightShown(l, LightRaw(l, b)) = b
<1>1. CASE IsEcLight(l)
  BY <1>1 DEF MaxBrightness, LightRaw, LightShown
<1>2. CASE ~IsEcLight(l)
  <2>1. b \in 0..(Lights[l].max - Lights[l].min)
    BY <1>2 DEF MaxBrightness
  <2>2. CASE l = "ylogo"
    <3>1. b \in 0..1
      BY <2>1, <2>2 DEF Lights
    <3> QED
      BY <1>2, <2>2, <3>1 DEF LightRaw, LightShown
  <2>3. CASE l # "ylogo"
    <3>1. Lights[l].min \in {0, 1} /\ Lights[l].max \in {2, 3}
      BY <2>3 DEF Lights
    <3>2. b + Lights[l].min \in Int /\ b + Lights[l].min <= Lights[l].max
      BY <2>1, <3>1
    <3>3. Min({b + Lights[l].min, Lights[l].max}) = b + Lights[l].min
      BY <3>1, <3>2, MinOfTwo
    <3>4. LightRaw(l, b) = b + Lights[l].min
      BY <1>2, <2>3, <3>3 DEF LightRaw
    <3>5. b + Lights[l].min \in Lights[l].min .. Lights[l].max
      BY <2>1, <3>1
    <3>6. LightShown(l, b + Lights[l].min) = b
      BY <1>2, <2>1, <2>3, <3>1, <3>5 DEF LightShown
    <3> QED
      BY <2>1, <3>1, <3>4, <3>5, <3>6
  <2> QED
    BY <2>2, <2>3
<1> QED
  BY <1>1, <1>2

(* The LED core clamps what it hands on.                                   *)
LEMMA BrightnessRange ==
  ASSUME NEW l \in DOMAIN Lights, NEW v \in Values
  PROVE  Min({v, MaxBrightness(l)}) \in 0..MaxBrightness(l)
<1>1. MaxBrightness(l) \in {1, 2}
  BY DEF MaxBrightness, Lights
<1>2. v \in Nat
  BY ValuesAssumption
<1>3. Min({v, MaxBrightness(l)}) = IF v <= MaxBrightness(l) THEN v ELSE MaxBrightness(l)
  BY <1>1, <1>2, MinOfTwo
<1> QED
  BY <1>1, <1>2, <1>3

(* A store lands in a place of its kind, with a value of that place.       *)
LEMMA TargetKind ==
  ASSUME NEW f, StoreTarget(f) # << >>
  PROVE  StoreTarget(f)[1] = "OTHER" <=> OverFeature(StoredFeatures, f)
<1>1. CASE OverFeature(StoredFeatures, f)
  BY <1>1 DEF StoreTarget
<1>2. CASE ~OverFeature(StoredFeatures, f)
  <2>1. f \in DOMAIN WmiFiles /\ StoreTarget(f)[1] = WmiFiles[f].class
    BY <1>2, MethodTarget
  <2> QED
    BY <1>2, <2>1, WmiMethods
<1> QED
  BY <1>1, <1>2

LEMMA RawKind ==
  ASSUME NEW f, NEW v \in Values
  PROVE  Raw(f, v) \in IF OverFeature(StoredFeatures, f) THEN Values ELSE 0..255
<1>1. v \in Nat /\ Not(v) \in {0, 1}
  BY ValuesAssumption DEF Not
<1> QED
  BY <1>1 DEF Raw

LEMMA LightsOfDriver == TypeOK => lights \subseteq DOMAIN Lights
BY DEF TypeOK, TriedLights

------------------------------------------------------------------------------
LEMMA WordSize == MaxWord = 65535
BY DEF MaxWord

LEMMA WordInt == MaxWord \in Int
BY WordSize

LEMMA BelowWord ==
  ASSUME NEW rpm \in Int, rpm <= MaxWord
  PROVE  rpm < 65536
BY WordSize

LEMMA WordRange ==
  ASSUME NEW rpm \in 0..MaxWord
  PROVE  rpm \in Int /\ 0 <= rpm /\ rpm <= MaxWord
BY WordInt

(* A speed read in one call: at most rounded down to hundreds.             *)
LEMMA Hundreds ==
  ASSUME NEW w \in Int, NEW r \in 0..w, NEW h \in Int,
         0 <= h, 100 * h <= r, r <= 100 * h + 99
  PROVE  100 * h \in 0..w /\ 100 * h - r \in -99..0
<1> DEFINE k == 100 * h
<1>1. k \in Int /\ k >= 0 /\ k <= r /\ r <= k + 99
  OBVIOUS
<1> HIDE DEF k
<1>2. k \in 0..w /\ k - r \in -99..0
  BY <1>1
<1> QED
  BY <1>2 DEF k

LEMMA RoundedDown ==
  ASSUME NEW rpm \in 0..MaxWord
  PROVE  /\ 100 * (rpm \div 100) \in 0..MaxWord
         /\ 100 * (rpm \div 100) - rpm \in -99..0
<1>1. MaxWord \in Int /\ rpm \in Int /\ 0 <= rpm
  BY WordInt, WordRange
<1>2. /\ rpm \div 100 \in Int /\ 0 <= rpm \div 100
      /\ 100 * (rpm \div 100) <= rpm /\ rpm <= 100 * (rpm \div 100) + 99
  BY <1>1
<1> QED
  BY <1>1, <1>2, Hundreds

LEMMA OneCall ==
  ASSUME NEW rpm \in 0..MaxWord
  PROVE  /\ InOneCall(rpm) \in 0..MaxWord
         /\ InHundreds => InOneCall(rpm) - rpm \in -99..0
         /\ ~InHundreds => InOneCall(rpm) = rpm
<1>1. CASE InHundreds
  <2>1. InOneCall(rpm) = 100 * (rpm \div 100)
    BY <1>1 DEF InOneCall
  <2> QED
    BY <1>1, <2>1, RoundedDown, Zenon
<1>2. CASE ~InHundreds
  <2>1. InOneCall(rpm) = rpm
    BY <1>2 DEF InOneCall
  <2> QED
    BY <1>2, <2>1, Zenon
<1> QED
  BY <1>1, <1>2

LEMMA InitTypeOK == Init => TypeOK
<1> SUFFICES ASSUME Init PROVE TypeOK
  OBVIOUS
<1>1. \A q \in Quantities : fw[q] \in IF q[1] = "OTHER" THEN Values \cup Raws ELSE 0..255
  BY ValuesAssumption DEF Init
<1>2. DOMAIN fw = Quantities /\ DOMAIN expected = Files \cup lights
  BY DEF Init
<1>3. \A fan \in Fans : speed[fan] \in Rpms[fan] /\ speed[fan] \in 0..MaxWord
  BY RpmsAssumption DEF Init, Fans
<1>4. speed \in [Fans -> 0..MaxWord]
  BY <1>3 DEF Init
<1>5. shown \in [fan : {0} \cup Fans, rpm : 0..MaxWord, during : SUBSET (0..MaxWord)]
  BY WordSize DEF Init, NothingShown
<1>6. calls \in 0..MaxCalls
  BY ValuesAssumption DEF Init
<1> QED
  BY <1>1, <1>2, <1>3, <1>4, <1>5, <1>6 DEF Init, TypeOK

LEMMA StoreTypeOK ==
  ASSUME TypeOK, NEW f \in Files, NEW v \in Values, Store(f, v)
  PROVE  TypeOK'
<1>1. calls' \in 0..MaxCalls
  BY ValuesAssumption DEF Store, Called, TypeOK
<1>2. UNCHANGED <<machine, guids, lights, speed, reading, shown>>
  BY DEF Store
<1>3. DOMAIN fw' = Quantities /\ DOMAIN expected' = Files \cup lights
  BY DEF Store, TypeOK
<1>4. \A q \in Quantities :
        fw'[q] \in IF q[1] = "OTHER" THEN Values \cup Raws ELSE 0..255
  <2>1. CASE StoreTarget(f) = << >> \/ ~Present(StoreTarget(f)[1])
    BY <2>1 DEF Store, TypeOK
  <2>2. CASE ~(StoreTarget(f) = << >> \/ ~Present(StoreTarget(f)[1]))
    <3> DEFINE target == StoreTarget(f)
               raw == Raw(f, v)
    <3>1. fw' = [fw EXCEPT ![target] = raw]
      BY <2>2 DEF Store
    <3>2. raw \in IF target[1] = "OTHER" THEN Values \cup Raws ELSE 0..255
      BY <2>2, TargetKind, RawKind
    <3> HIDE DEF target, raw
    <3> QED
      BY <3>1, <3>2 DEF TypeOK
  <2> QED
    BY <2>1, <2>2
<1>5. lights' \subseteq TriedLights'
  BY <1>2 DEF TypeOK, TriedLights, Has, conf
<1> QED
  BY <1>1, <1>2, <1>3, <1>4, <1>5 DEF TypeOK

LEMMA SetBrightnessTypeOK ==
  ASSUME TypeOK, NEW l \in lights, NEW v \in Values, SetBrightness(l, v)
  PROVE  TypeOK'
<1> DEFINE brightness == Min({v, MaxBrightness(l)})
           raw == LightRaw(l, brightness)
<1>1. calls' \in 0..MaxCalls
  BY ValuesAssumption DEF SetBrightness, Called, TypeOK
<1>2. UNCHANGED <<machine, guids, lights, speed, reading, shown>>
  BY DEF SetBrightness
<1>3. DOMAIN fw' = Quantities /\ DOMAIN expected' = Files \cup lights
  BY DEF SetBrightness, TypeOK
<1>4. raw \in 0..255
  BY LightsOfDriver, BrightnessRange, LightReadsBack
<1>5. fw' = [fw EXCEPT ![<<"LIGHT", l>>] = raw]
  BY DEF SetBrightness
<1> HIDE DEF raw
<1>6. \A q \in Quantities :
        fw'[q] \in IF q[1] = "OTHER" THEN Values \cup Raws ELSE 0..255
  BY <1>4, <1>5 DEF TypeOK
<1>7. lights' \subseteq TriedLights'
  BY <1>2 DEF TypeOK, TriedLights, Has, conf
<1> QED
  BY <1>1, <1>2, <1>3, <1>6, <1>7 DEF TypeOK

(* The file of a fan shows that fan, or on ACPI models another one that    *)
(* the driver knows.                                                       *)
LEMMA FanReadIs ==
  ASSUME NEW f \in Fans, f \in FanFilesShown, FanReadable(f)
  PROVE  /\ FanRead(f) \in Fans
         /\ conf.fanspeed # "ACPI" \/ f # 1 => FanRead(f) = f
         /\ conf.fanspeed = "EC" => f \in 1..2
<1>1. f \in 1..4 /\ 2 \in Fans
  BY RpmsAssumption DEF FanFilesShown, Fans
<1> QED
  BY <1>1 DEF FanReadable, FanRead

(* The two bytes of a speed.                                               *)
LEMMA BytesOfSpeed ==
  ASSUME NEW rpm \in 0..MaxWord
  PROVE  /\ \A part : Byte(rpm, part) \in 0..255
         /\ rpm = Rpm(Byte(rpm, "LSB"), Byte(rpm, "MSB"))
<1>1. rpm \in Int /\ 0 <= rpm /\ rpm < 65536
  BY WordRange, BelowWord
<1>2. rpm % 256 \in 0..255 /\ rpm \div 256 \in 0..255
      /\ rpm = (rpm % 256) + 256 * (rpm \div 256)
  BY <1>1
<1> QED
  BY <1>2 DEF Byte, Rpm

LEMMA RpmBounds ==
  ASSUME NEW lsb \in Int, NEW msb \in Int, 0 <= lsb, lsb <= 255, 0 <= msb, msb <= 255
  PROVE  Rpm(lsb, msb) \in 0..MaxWord
<1> DEFINE rpm == Rpm(lsb, msb)
<1>1. rpm \in Int /\ 0 <= rpm /\ rpm <= 65535
  BY DEF Rpm
<1> HIDE DEF rpm
<1>2. rpm <= MaxWord /\ MaxWord \in Int
  BY <1>1, WordSize
<1>3. rpm \in 0..MaxWord
  BY <1>1, <1>2
<1> QED
  BY <1>3 DEF rpm

LEMMA RpmRange ==
  ASSUME NEW lsb \in 0..255, NEW msb \in 0..255
  PROVE  Rpm(lsb, msb) \in 0..MaxWord
<1>1. /\ lsb \in Int /\ 0 <= lsb /\ lsb <= 255
      /\ msb \in Int /\ 0 <= msb /\ msb <= 255
  OBVIOUS
<1> QED
  BY <1>1, RpmBounds

LEMMA SpeedRange ==
  ASSUME TypeOK, NEW fan \in Fans
  PROVE  speed[fan] \in Rpms[fan] /\ speed[fan] \in 0..MaxWord
BY DEF TypeOK

LEMMA ReadFanTypeOK ==
  ASSUME TypeOK, NEW f \in Fans, ReadFan(f)
  PROVE  TypeOK'
<1> DEFINE rpm == speed[FanRead(f)]
<1>1. calls' \in 0..MaxCalls
  BY ValuesAssumption DEF ReadFan, Called, TypeOK
<1>2. UNCHANGED <<machine, guids, fw, lights, expected, speed>>
  BY DEF ReadFan
<1>3. /\ rpm \in 0..MaxWord /\ speed[f] \in 0..MaxWord
      /\ conf.fanspeed = "EC" => f \in 1..2
  BY FanReadIs, SpeedRange DEF ReadFan
<1>4. \A part : Byte(rpm, part) \in 0..255
  BY <1>3, BytesOfSpeed
<1> HIDE DEF rpm
<1>5. CASE conf.fanspeed = "EC"
  <2>1. PICK part \in {"LSB", "MSB"} :
          reading' = [fan |-> f, part |-> part, byte |-> Byte(rpm, part),
                      during |-> {rpm}, turns |-> 0]
    BY <1>5 DEF ReadFan, rpm
  <2>2. shown' = shown
    BY <1>5 DEF ReadFan
  <2>3. 0 \in 0..MaxTurns
    BY ValuesAssumption
  <2>4. reading' \in [fan : 1..2, part : {"LSB", "MSB"}, byte : 0..255,
                      during : SUBSET (0..MaxWord), turns : 0..MaxTurns]
    BY <1>3, <1>4, <1>5, <2>1, <2>3
  <2>5. lights' \subseteq TriedLights'
    BY <1>2 DEF TypeOK, TriedLights, Has, conf
  <2> QED
    BY <1>1, <1>2, <2>2, <2>4, <2>5 DEF TypeOK
<1>6. CASE conf.fanspeed # "EC"
  <2>1. reading' = reading
    BY <1>6 DEF ReadFan
  <2>2. shown' = [fan |-> f, rpm |-> InOneCall(rpm), during |-> {speed[f]}]
    BY <1>6 DEF ReadFan, rpm
  <2>3. shown' \in [fan : {0} \cup Fans, rpm : 0..MaxWord, during : SUBSET (0..MaxWord)]
    BY <1>3, <2>2, OneCall
  <2>4. lights' \subseteq TriedLights'
    BY <1>2 DEF TypeOK, TriedLights, Has, conf
  <2> QED
    BY <1>1, <1>2, <2>1, <2>3, <2>4 DEF TypeOK
<1> QED
  BY <1>5, <1>6

(* While a file of the EC is read: the byte is one of a speed the fan had, *)
(* and its present speed is among those it had.                            *)
ReadingInv ==
  reading # NotReading =>
    /\ conf.fanspeed = "EC"
    /\ speed[reading.fan] \in reading.during
    /\ \E rpm \in reading.during : reading.byte = Byte(rpm, reading.part)

LEMMA ReadingType ==
  ASSUME TypeOK, reading # NotReading
  PROVE  /\ reading \in [fan : 1..2, part : {"LSB", "MSB"}, byte : 0..255,
                         during : SUBSET (0..MaxWord), turns : 0..MaxTurns]
         /\ reading.fan \in Fans
         /\ conf.fanspeed = "EC" => FanRead(reading.fan) = reading.fan
<1>1. reading \in [fan : 1..2, part : {"LSB", "MSB"}, byte : 0..255,
                   during : SUBSET (0..MaxWord), turns : 0..MaxTurns]
  BY DEF TypeOK
<1>2. reading.fan \in Fans
  BY <1>1, RpmsAssumption DEF Fans
<1> QED
  BY <1>1, <1>2 DEF FanRead

LEMMA ReadOtherByteTypeOK ==
  ASSUME TypeOK, ReadingInv, ReadOtherByte
  PROVE  TypeOK'
<1> DEFINE rpm == speed[FanRead(reading.fan)]
<1>1. reading # NotReading /\ conf.fanspeed = "EC"
  BY DEF ReadOtherByte, ReadingInv
<1>2. /\ reading.fan \in Fans /\ reading.byte \in 0..255
      /\ reading.during \subseteq 0..MaxWord
      /\ FanRead(reading.fan) = reading.fan
  BY <1>1, ReadingType
<1>3. rpm \in 0..MaxWord
  BY <1>2, SpeedRange
<1>4. \A part : Byte(rpm, part) \in 0..255
  BY <1>3, BytesOfSpeed
<1> HIDE DEF rpm
<1>5. /\ Rpm(reading.byte, Byte(rpm, "MSB")) \in 0..MaxWord
      /\ Rpm(Byte(rpm, "LSB"), reading.byte) \in 0..MaxWord
  BY <1>2, <1>4, RpmRange
<1>6. shown' = [fan |-> reading.fan, during |-> reading.during,
                rpm |-> IF reading.part = "LSB"
                          THEN Rpm(reading.byte, Byte(rpm, "MSB"))
                          ELSE Rpm(Byte(rpm, "LSB"), reading.byte)]
  BY DEF ReadOtherByte, rpm
<1>7. shown' \in [fan : {0} \cup Fans, rpm : 0..MaxWord, during : SUBSET (0..MaxWord)]
  BY <1>2, <1>5, <1>6
<1>8. /\ reading' = NotReading
      /\ UNCHANGED <<machine, guids, fw, lights, expected, speed, calls>>
  BY DEF ReadOtherByte
<1>9. lights' \subseteq TriedLights'
  BY <1>8 DEF TypeOK, TriedLights, Has, conf
<1> QED
  BY <1>7, <1>8, <1>9 DEF TypeOK

LEMMA FanTurnsDoes ==
  ASSUME TypeOK, ReadingInv, FanTurns
  PROVE  /\ speed' \in [Fans -> 0..MaxWord] /\ \A fan \in Fans : speed'[fan] \in Rpms[fan]
         /\ reading' \in [fan : 1..2, part : {"LSB", "MSB"}, byte : 0..255,
                          during : SUBSET (0..MaxWord), turns : 0..MaxTurns]
         /\ reading'.byte = reading.byte /\ reading'.part = reading.part
         /\ reading.during \subseteq reading'.during
         /\ speed'[reading'.fan] \in reading'.during
<1>1. /\ reading # NotReading /\ reading.turns < MaxTurns
      /\ speed[reading.fan] \in reading.during
  BY DEF FanTurns, ReadingInv
<1>2. /\ reading \in [fan : 1..2, part : {"LSB", "MSB"}, byte : 0..255,
                      during : SUBSET (0..MaxWord), turns : 0..MaxTurns]
      /\ reading.fan \in Fans
  BY <1>1, ReadingType
<1>3. PICK fan \in Fans : \E rpm \in Rpms[fan] :
        /\ speed' = [speed EXCEPT ![fan] = rpm]
        /\ reading' = [reading EXCEPT
                         !.turns = @ + 1,
                         !.during = @ \cup IF fan = reading.fan THEN {rpm} ELSE {}]
  BY DEF FanTurns
<1>4. PICK rpm \in Rpms[fan] :
        /\ speed' = [speed EXCEPT ![fan] = rpm]
        /\ reading' = [reading EXCEPT
                         !.turns = @ + 1,
                         !.during = @ \cup IF fan = reading.fan THEN {rpm} ELSE {}]
  BY <1>3
<1>5. rpm \in 0..MaxWord
  BY RpmsAssumption DEF Fans
<1>6. /\ reading'.fan = reading.fan /\ reading'.byte = reading.byte
      /\ reading'.part = reading.part /\ reading'.turns = reading.turns + 1
      /\ reading'.during = reading.during \cup IF fan = reading.fan THEN {rpm} ELSE {}
  BY <1>2, <1>4
<1>7. reading'.turns \in 0..MaxTurns
  BY <1>1, <1>2, <1>6, ValuesAssumption
<1>8. reading' \in [fan : 1..2, part : {"LSB", "MSB"}, byte : 0..255,
                    during : SUBSET (0..MaxWord), turns : 0..MaxTurns]
  BY <1>2, <1>4, <1>5, <1>6, <1>7
<1>9. speed' \in [Fans -> 0..MaxWord] /\ \A g \in Fans : speed'[g] \in Rpms[g]
  BY <1>4, <1>5 DEF TypeOK
<1>10. speed'[reading.fan] \in reading'.during
  BY <1>1, <1>2, <1>4, <1>6 DEF TypeOK
<1> QED
  BY <1>6, <1>8, <1>9, <1>10

LEMMA StepTypeOK == TypeOK /\ ReadingInv /\ [Next]_vars => TypeOK'
<1> SUFFICES ASSUME TypeOK, ReadingInv, [Next]_vars PROVE TypeOK'
  OBVIOUS
<1>1. CASE UNCHANGED vars
  BY <1>1 DEF TypeOK, vars, TriedLights, Has, conf
<1>2. CASE FanTurns
  <2>1. UNCHANGED <<machine, guids, fw, lights, expected, shown, calls>>
    BY <1>2 DEF FanTurns
  <2>2. lights' \subseteq TriedLights'
    BY <2>1 DEF TypeOK, TriedLights, Has, conf
  <2> QED
    BY <1>2, <2>1, <2>2, FanTurnsDoes DEF TypeOK
<1> QED
  BY <1>1, <1>2, StoreTypeOK, SetBrightnessTypeOK, ReadFanTypeOK, ReadOtherByteTypeOK
     DEF Next

LEMMA StepReadingInv == TypeOK /\ ReadingInv /\ [Next]_vars => ReadingInv'
<1> SUFFICES ASSUME TypeOK, ReadingInv, [Next]_vars PROVE ReadingInv'
  OBVIOUS
<1>1. CASE UNCHANGED <<machine, speed, reading>>
  BY <1>1 DEF ReadingInv, conf
<1>2. ASSUME NEW f \in Fans, ReadFan(f), reading' # reading
      PROVE  ReadingInv'
  <2>1. conf.fanspeed = "EC" /\ conf' = conf /\ speed' = speed
    BY <1>2 DEF ReadFan, conf
  <2>2. FanRead(f) = f
    BY <1>2, <2>1, FanReadIs DEF ReadFan
  <2>3. PICK part \in {"LSB", "MSB"} :
          reading' = [fan |-> f, part |-> part, byte |-> Byte(speed[f], part),
                      during |-> {speed[f]}, turns |-> 0]
    BY <1>2, <2>1, <2>2 DEF ReadFan
  <2> QED
    BY <2>1, <2>3 DEF ReadingInv
<1>3. CASE ReadOtherByte
  BY <1>3 DEF ReadOtherByte, ReadingInv
<1>4. CASE FanTurns
  <2>1. conf' = conf /\ reading # NotReading
    BY <1>4 DEF FanTurns, conf
  <2> QED
    BY <1>4, <2>1, FanTurnsDoes DEF ReadingInv
<1>5. ASSUME NEW f \in Fans, ReadFan(f), reading' = reading
      PROVE  ReadingInv'
  BY <1>1, <1>5 DEF ReadFan
<1> QED
  BY <1>1, <1>2, <1>3, <1>4, <1>5 DEF Next, vars, Store, SetBrightness

(* Every file and light has its type, whatever is stored and read.         *)
THEOREM AttributesTypeCorrect == Spec => []TypeOK
<1>1. Init => ReadingInv
  BY DEF Init, ReadingInv
<1> QED
  BY <1>1, InitTypeOK, StepTypeOK, StepReadingInv, PTL DEF Spec

LEMMA ReadingInvariant == Spec => []ReadingInv
<1>1. Init => ReadingInv
  BY DEF Init, ReadingInv
<1> QED
  BY <1>1, InitTypeOK, StepTypeOK, StepReadingInv, PTL DEF Spec

------------------------------------------------------------------------------
(* A speed put together of two bytes differs by less than the low byte's   *)
(* range from the speed that the high byte belongs to.                     *)
LEMMA LowBytes ==
  ASSUME NEW lsb \in Int, NEW low \in Int, NEW msb \in Int,
         0 <= lsb, lsb <= 255, 0 <= low, low <= 255
  PROVE  Rpm(lsb, msb) - Rpm(low, msb) \in -255..255
BY DEF Rpm

LEMMA SameHighByte ==
  ASSUME NEW lsb \in 0..255, NEW rpm \in 0..MaxWord
  PROVE  Rpm(lsb, Byte(rpm, "MSB")) - rpm \in -255..255
<1> DEFINE low == Byte(rpm, "LSB")
           high == Byte(rpm, "MSB")
<1>1. low \in 0..255 /\ high \in 0..255 /\ rpm = Rpm(low, high)
  BY BytesOfSpeed
<1> HIDE DEF low, high
<1>2. /\ lsb \in Int /\ 0 <= lsb /\ lsb <= 255
      /\ low \in Int /\ 0 <= low /\ low <= 255 /\ high \in Int
  BY <1>1
<1>3. Rpm(lsb, high) - Rpm(low, high) \in -255..255
  BY <1>2, LowBytes
<1> QED
  BY <1>1, <1>3 DEF high

LEMMA OtherByteShown ==
  ASSUME TypeOK, ReadingInv, ReadOtherByte
  PROVE  FanShown'
<1> DEFINE rpm == speed[reading.fan]
<1>1. reading # NotReading /\ conf.fanspeed = "EC" /\ conf' = conf
  BY DEF ReadOtherByte, ReadingInv, conf
<1>2. /\ reading.fan \in Fans /\ reading.byte \in 0..255
      /\ reading.part \in {"LSB", "MSB"}
      /\ reading.during \subseteq 0..MaxWord
      /\ FanRead(reading.fan) = reading.fan
  BY <1>1, ReadingType
<1>3. PICK old \in reading.during : reading.byte = Byte(old, reading.part)
  BY <1>1 DEF ReadingInv
<1>4. rpm \in reading.during
  BY <1>1 DEF ReadingInv
<1>5. /\ shown'.during = reading.during
      /\ shown'.rpm = IF reading.part = "LSB"
                        THEN Rpm(reading.byte, Byte(rpm, "MSB"))
                        ELSE Rpm(Byte(rpm, "LSB"), reading.byte)
  BY <1>2 DEF ReadOtherByte
<1> HIDE DEF rpm
<1>6. Margin' = -255..255
  BY <1>1 DEF Margin
<1>7. old \in 0..MaxWord /\ rpm \in 0..MaxWord
  BY <1>2, <1>3, <1>4
<1>8. Byte(rpm, "LSB") \in 0..255
  BY <1>7, BytesOfSpeed
<1>9. CASE reading.part = "LSB"
  <2>1. shown'.rpm = Rpm(reading.byte, Byte(rpm, "MSB"))
    BY <1>5, <1>9
  <2>2. Rpm(reading.byte, Byte(rpm, "MSB")) - rpm \in -255..255
    BY <1>2, <1>7, SameHighByte
  <2>3. shown'.rpm - rpm \in -255..255
    BY <2>1, <2>2, Zenon
  <2> QED
    BY <1>4, <1>5, <1>6, <2>3 DEF FanShown
<1>10. CASE reading.part = "MSB"
  <2>1. shown'.rpm = Rpm(Byte(rpm, "LSB"), Byte(old, "MSB"))
    BY <1>3, <1>5, <1>10
  <2>2. shown'.rpm - old \in -255..255
    BY <1>7, <1>8, <2>1, SameHighByte
  <2> QED
    BY <1>3, <1>5, <1>6, <2>2 DEF FanShown
<1> QED
  BY <1>2, <1>9, <1>10

LEMMA ReadFanShown ==
  ASSUME TypeOK, FanShown, NEW f \in Fans, ReadFan(f)
  PROVE  FanShown'
<1>1. conf' = conf
  BY DEF ReadFan, conf
<1>2. Margin' = Margin
  BY <1>1 DEF Margin, InHundreds
<1>3. CASE conf.fanspeed = "EC"
  BY <1>1, <1>2, <1>3 DEF ReadFan, FanShown
<1>4. CASE conf.fanspeed # "EC"
  <2>1. shown' = [fan |-> f, rpm |-> InOneCall(speed[FanRead(f)]), during |-> {speed[f]}]
    BY <1>4 DEF ReadFan
  <2>2. conf.fanspeed # "ACPI" \/ f # 1 => FanRead(f) = f
    BY FanReadIs DEF ReadFan
  <2>3. speed[f] \in 0..MaxWord
    BY DEF TypeOK
  <2>4. InOneCall(speed[f]) - speed[f] \in Margin
    <3>1. CASE InHundreds
      BY <1>4, <2>3, <3>1, OneCall DEF Margin
    <3>2. CASE ~InHundreds
      <4>1. speed[f] \in Int
        BY <2>3, WordRange
      <4>2. InOneCall(speed[f]) = speed[f]
        BY <2>3, <3>2, OneCall
      <4>3. InOneCall(speed[f]) - speed[f] = 0
        BY <4>1, <4>2
      <4> QED
        BY <1>4, <3>2, <4>3 DEF Margin
    <3> QED
      BY <3>1, <3>2
  <2> QED
    BY <1>1, <1>2, <2>1, <2>2, <2>4 DEF FanShown
<1> QED
  BY <1>3, <1>4

(* For any speeds, and however often they change while a file is read: a   *)
(* fan speed that the driver shows is one the fan had meanwhile, or, put   *)
(* together of two bytes, less than 256 rpm from one, or rounded down to   *)
(* hundreds.                                                               *)
THEOREM FanSpeedsShown == Spec => []FanShown
<1>1. Init => FanShown
  <2> SUFFICES ASSUME Init PROVE FanShown
    OBVIOUS
  <2>1. shown.rpm = 0 /\ shown.during = {0}
    BY DEF Init, NothingShown
  <2>2. shown.rpm - 0 = 0 /\ 0 \in -255..255 /\ 0 \in -99..0
    BY <2>1
  <2>3. shown.rpm - 0 \in Margin
    BY <2>2 DEF Margin
  <2> QED
    BY <2>1, <2>3 DEF FanShown
<1>2. TypeOK /\ ReadingInv /\ FanShown /\ [Next]_vars => FanShown'
  <2> SUFFICES ASSUME TypeOK, ReadingInv, FanShown, [Next]_vars PROVE FanShown'
    OBVIOUS
  <2>1. CASE UNCHANGED <<machine, shown>>
    BY <2>1 DEF FanShown, Margin, InHundreds, conf
  <2> QED
    BY <2>1, ReadFanShown, OtherByteShown DEF Next, vars, Store, SetBrightness, FanTurns
<1> QED
  BY <1>1, <1>2, AttributesTypeCorrect, ReadingInvariant, PTL DEF Spec

------------------------------------------------------------------------------
(* The files show what was stored to them.                                 *)
FilesShown == \A f \in Separate : Visible(f) => Show(f) = expected[f]
LightsShown == \A l \in lights : LightValue(l) = expected[l]

LEMMA LightsAreNoFiles == DOMAIN Lights \cap Files = {}
<1>1. DOMAIN WmiFiles = DOMAIN SwitchFiles \cup DOMAIN InfoFiles \cup DOMAIN CpuFiles
         \cup DOMAIN CpuFilesOfGpu \cup DOMAIN GpuFiles \cup DOMAIN FanFiles
  BY DEF Merged, WmiFiles, GameZoneFiles, OverclockFiles, FilesOfGpu
<1> QED
  BY <1>1 DEF Files, Lights, SwitchFiles, InfoFiles, CpuFiles, CpuFilesOfGpu, GpuFiles,
     FanFiles, ReadFeatures

(* Files and lights have places of their own.                              *)
LEMMA SourceIsNoLight ==
  ASSUME NEW f, ShowSource(f) # << >>, NEW l
  PROVE  ShowSource(f) # <<"LIGHT", l>>
<1>1. CASE OverFeature(Features, f)
  BY <1>1 DEF ShowSource
<1>2. CASE ~OverFeature(Features, f)
  <2>1. /\ f \in DOMAIN WmiFiles
        /\ ShowSource(f) = <<WmiFiles[f].class, WmiFiles[f].get>>
    BY <1>2, MethodSource
  <2>2. WmiFiles[f].class # "LIGHT"
    BY <2>1, WmiMethods
  <2> QED
    BY <2>1, <2>2
<1> QED
  BY <1>1, <1>2

LEMMA TargetIsNoLight ==
  ASSUME NEW f, StoreTarget(f) # << >>, NEW l
  PROVE  StoreTarget(f) # <<"LIGHT", l>>
<1>1. CASE OverFeature(StoredFeatures, f)
  BY <1>1 DEF StoreTarget
<1>2. CASE ~OverFeature(StoredFeatures, f)
  <2>1. f \in DOMAIN WmiFiles /\ StoreTarget(f)[1] = WmiFiles[f].class
    BY <1>2, MethodTarget
  <2>2. WmiFiles[f].class # "LIGHT"
    BY <2>1, WmiMethods
  <2> QED
    BY <2>1, <2>2
<1> QED
  BY <1>1, <1>2

LEMMA SourcePlace ==
  ASSUME NEW f, ShowSource(f) # << >>
  PROVE  ShowSource(f) \in Quantities
<1>1. CASE OverFeature(Features, f)
  <2>1. f \in DOMAIN Features /\ ShowSource(f) = <<"OTHER", Features[f]>>
    BY <1>1 DEF ShowSource, OverFeature
  <2>2. ShowSource(f) \in {<<"OTHER", Features[x]>> : x \in DOMAIN Features}
    BY <2>1
  <2> QED
    BY <2>2 DEF Quantities
<1>2. CASE ~OverFeature(Features, f)
  <2> DEFINE methods == {WmiFiles[x] : x \in DOMAIN WmiFiles}
  <2>1. /\ WmiFiles[f] \in methods /\ WmiFiles[f].get # NoMethod
        /\ ShowSource(f) = <<WmiFiles[f].class, WmiFiles[f].get>>
    BY <1>2, MethodSource
  <2> HIDE DEF methods
  <2>2. ShowSource(f) \in {<<m.class, m.get>> : m \in {n \in methods : n.get # NoMethod}}
    BY <2>1
  <2> QED
    BY <2>2 DEF Quantities, methods
<1> QED
  BY <1>1, <1>2

(* What a store writes is shown as it was stored.                          *)
LEMMA RawReadsBack ==
  ASSUME NEW f, NEW v \in Values
  PROVE  (IF IsInverted(f) THEN Not(Raw(f, v)) ELSE Raw(f, v))
           = IF IsInverted(f) THEN Not(Not(v))
             ELSE IF OverFeature(StoredFeatures, f) THEN v ELSE v % 256
<1>1. IsInverted(f) => ~OverFeature(StoredFeatures, f)
  BY FeaturesNotInverted
<1>2. Not(v) % 256 = Not(v)
  BY DEF Not
<1> QED
  BY <1>1, <1>2 DEF Raw

LEMMA StoreShown ==
  ASSUME TypeOK, FilesShown, LightsShown, NEW g \in Files, NEW v \in Values, Store(g, v)
  PROVE  FilesShown' /\ LightsShown'
<1> DEFINE target == StoreTarget(g)
           raw == Raw(g, v)
           new == IF IsInverted(g) THEN Not(Not(v))
                  ELSE IF OverFeature(StoredFeatures, g) THEN v ELSE v % 256
<1>1. UNCHANGED <<machine, guids, lights>>
  BY DEF Store
<1>2. ASSUME UNCHANGED <<fw, expected>>
      PROVE  FilesShown' /\ LightsShown'
  <2>1. FilesShown'
    BY <1>1, <1>2, ShowFrame DEF FilesShown
  <2>2. LightsShown'
    BY <1>1, <1>2 DEF LightsShown, LightValue, LightShown, IsEcLight, Has, conf
  <2> QED
    BY <2>1, <2>2
<1>3. CASE target = << >> \/ ~Present(target[1])
  BY <1>2, <1>3 DEF Store
<1>4. CASE ~(target = << >> \/ ~Present(target[1]))
  <2>1. fw' = [fw EXCEPT ![target] = raw] /\ expected' = [expected EXCEPT ![g] = new]
    BY <1>4 DEF Store
  <2>2. g \in DOMAIN expected /\ g \notin DOMAIN Lights
    BY LightsAreNoFiles DEF TypeOK
  <2>3. ASSUME NEW f \in Separate, Visible(f)
        PROVE  Show(f)' = expected'[f]
    <3>1. /\ ShowSource(f)' = ShowSource(f)
          /\ Present(ShowSource(f)[1])' = Present(ShowSource(f)[1])
          /\ IsInverted(f)' = IsInverted(f)
      BY <1>1, ShowFrame DEF Present, IsInverted
    <3>2. CASE f # g
      <4>1. ShowSource(f) # << >> => ShowSource(f) # target
        BY <1>4, <3>2, TargetsApart
      <4>2. ShowSource(f) # << >> => fw'[ShowSource(f)] = fw[ShowSource(f)]
        <5> HIDE DEF target, raw
        <5> QED
          BY <2>1, <4>1
      <4>3. Show(f)' = Show(f)
        BY <3>1, <4>2 DEF Show, Present
      <4>4. expected'[f] = expected[f]
        <5> HIDE DEF new
        <5> QED
          BY <2>1, <3>2
      <4> QED
        BY <2>3, <4>3, <4>4 DEF FilesShown
    <3>3. CASE f = g
      <4>1. ShowSource(f) = target
        BY <1>4, <3>3, TargetIsSource
      <4>2. target \in Quantities
        BY <1>4, <4>1, SourcePlace
      <4>3. fw'[target] = raw
        BY <2>1, <4>2 DEF TypeOK
      <4>4. expected'[g] = new
        <5> HIDE DEF new
        <5> QED
          BY <2>1, <2>2
      <4>5. Show(f)' = IF IsInverted(g) THEN Not(raw) ELSE raw
        <5> HIDE DEF raw
        <5> QED
          BY <1>4, <3>1, <3>3, <4>1, <4>3 DEF Show
      <4> QED
        BY <3>3, <4>4, <4>5, RawReadsBack
    <3> QED
      BY <3>2, <3>3
  <2>4. FilesShown'
    BY <1>1, <2>3, ShowFrame DEF FilesShown
  <2>5. ASSUME NEW l \in lights
        PROVE  LightValue(l)' = expected'[l]
    <3>1. <<"LIGHT", l>> # target
      BY <1>4, TargetIsNoLight
    <3>2. l # g
      BY <2>2, LightsOfDriver
    <3>3. fw'[<<"LIGHT", l>>] = fw[<<"LIGHT", l>>] /\ expected'[l] = expected[l]
      <4> HIDE DEF target, raw, new
      <4> QED
        BY <2>1, <3>1, <3>2
    <3>4. LightValue(l)' = LightValue(l)
      BY <1>1, <3>3 DEF LightValue, LightShown, IsEcLight, Has, conf
    <3> QED
      BY <3>3, <3>4 DEF LightsShown
  <2> QED
    BY <1>1, <2>4, <2>5 DEF LightsShown
<1> QED
  BY <1>3, <1>4

LEMMA SetBrightnessShown ==
  ASSUME TypeOK, FilesShown, LightsShown, NEW l \in lights, NEW v \in Values,
         SetBrightness(l, v)
  PROVE  FilesShown' /\ LightsShown'
<1> DEFINE brightness == Min({v, MaxBrightness(l)})
           raw == LightRaw(l, brightness)
<1>1. UNCHANGED <<machine, guids, lights>>
  BY DEF SetBrightness
<1>2. /\ fw' = [fw EXCEPT ![<<"LIGHT", l>>] = raw]
      /\ expected' = [expected EXCEPT ![l] = brightness]
  BY DEF SetBrightness
<1>3. l \in DOMAIN Lights /\ l \in DOMAIN expected /\ l \notin Files
  BY LightsOfDriver, LightsAreNoFiles DEF TypeOK
<1>4. LightShown(l, raw) = brightness
  BY <1>3, BrightnessRange, LightReadsBack
<1> HIDE DEF brightness, raw
<1>5. ASSUME NEW f \in Separate, Visible(f)
      PROVE  Show(f)' = expected'[f]
  <2>1. /\ ShowSource(f)' = ShowSource(f)
        /\ Present(ShowSource(f)[1])' = Present(ShowSource(f)[1])
        /\ IsInverted(f)' = IsInverted(f)
    BY <1>1, ShowFrame DEF Present, IsInverted
  <2>2. ShowSource(f) # << >> => fw'[ShowSource(f)] = fw[ShowSource(f)]
    BY <1>2, SourceIsNoLight
  <2>3. Show(f)' = Show(f)
    BY <2>1, <2>2 DEF Show, Present
  <2>4. expected'[f] = expected[f]
    BY <1>2, <1>3 DEF Separate
  <2> QED
    BY <1>5, <2>3, <2>4 DEF FilesShown
<1>6. ASSUME NEW k \in lights
      PROVE  LightValue(k)' = expected'[k]
  <2>1. <<"LIGHT", k>> \in Quantities
    BY <1>6, LightsOfDriver DEF Quantities
  <2>2. LightValue(k)' = LightShown(k, fw'[<<"LIGHT", k>>])
    BY <1>1 DEF LightValue, LightShown, IsEcLight, Has, conf
  <2>3. CASE k = l
    <3>1. fw'[<<"LIGHT", k>>] = raw /\ expected'[k] = brightness
      BY <1>2, <1>3, <2>1, <2>3 DEF TypeOK
    <3> QED
      BY <1>4, <2>2, <2>3, <3>1
  <2>4. CASE k # l
    <3>1. fw'[<<"LIGHT", k>>] = fw[<<"LIGHT", k>>] /\ expected'[k] = expected[k]
      BY <1>2, <2>4
    <3> QED
      BY <2>2, <3>1 DEF LightValue, LightsShown
  <2> QED
    BY <2>3, <2>4
<1>7. FilesShown'
  BY <1>1, <1>5, ShowFrame DEF FilesShown
<1> QED
  BY <1>1, <1>6, <1>7 DEF LightsShown

(* For any numbers stored in any order, on every machine of the tables and *)
(* whichever WMI classes it has: each visible file but the entangled ones  *)
(* shows what was last stored to it, and each light its brightness.        *)
THEOREM StoresAreShown == Spec => []ShownIsStored
<1>1. Init => FilesShown /\ LightsShown
  <2> SUFFICES ASSUME Init PROVE FilesShown /\ LightsShown
    OBVIOUS
  <2>1. expected = [x \in Files \cup lights |->
                      IF x \in Files THEN Show(x) ELSE LightValue(x)]
    BY DEF Init
  <2>2. lights \cap Files = {}
    BY InitTypeOK, LightsOfDriver, LightsAreNoFiles
  <2>3. Separate \subseteq Files
    BY DEF Separate
  <2> QED
    BY <2>1, <2>2, <2>3 DEF FilesShown, LightsShown
<1>2. TypeOK /\ FilesShown /\ LightsShown /\ [Next]_vars => FilesShown' /\ LightsShown'
  <2> SUFFICES ASSUME TypeOK, FilesShown, LightsShown, [Next]_vars
               PROVE  FilesShown' /\ LightsShown'
    OBVIOUS
  <2>1. CASE UNCHANGED <<machine, guids, fw, lights, expected>>
    <3>1. FilesShown'
      BY <2>1, ShowFrame DEF FilesShown
    <3>2. LightsShown'
      BY <2>1 DEF LightsShown, LightValue, LightShown, IsEcLight, Has, conf
    <3> QED
      BY <3>1, <3>2
  <2> QED
    BY <2>1, StoreShown, SetBrightnessShown DEF Next, vars, ReadFan, ReadOtherByte, FanTurns
<1>3. FilesShown /\ LightsShown => ShownIsStored
  BY DEF FilesShown, LightsShown, Separate, ShownIsStored
<1> QED
  BY <1>1, <1>2, <1>3, AttributesTypeCorrect, PTL DEF Spec
==================================================================================
