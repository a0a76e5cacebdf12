------------------------- MODULE DriverLifecycle_proofs -------------------------
(***************************************************************************)
(* For any number of platform devices, and without bounds on probes and    *)
(* failures: _priv serves one device at a time, a driver that has left     *)
(* every device has taken back everything, and neither users nor events    *)
(* ever find less than they need.                                          *)
(***************************************************************************)
EXTENDS DriverLifecycle, SequenceTheorems, TLAPS

(***************************************************************************)
(* The inductive invariant.                                                *)
(***************************************************************************)
Suffix(s, k) == SubSeq(s, k, Len(s))
Remaining(d) == Range(todo[d])

(* What is left to do in a phase p: the rest of legion_add(), of its       *)
(* labels at the end, or of legion_remove().                               *)
StepsOf(p, s) ==
  CASE p \in {"unbound", "bound"} -> s = <<>>
    [] p = "probe"  -> \E k \in 1 .. 12 : s = Suffix(ProbeSteps, k)
    [] p = "fail"   -> \E k \in 1 .. 8 : s = Suffix(UndoSteps, k)
    [] p = "remove" -> \E k \in 1 .. 11 : s = Suffix(RemoveSteps, k)

StepsInv ==
  /\ DOMAIN todo = Devices
  /\ \A d \in Devices : StepsOf(phase[d], todo[d])

(* A device with the steps R left uses _priv, and has what the step sets   *)
(* up: a device in its probe has what it has passed, one that leaves has   *)
(* what it has not yet come to.                                            *)
Owns(p, R) ==
  CASE p = "unbound" -> FALSE
    [] p = "bound"   -> TRUE
    [] p = "probe"   -> "shared" \notin R
    [] OTHER         -> "shared" \in R

HasStep(p, R, step) ==
  CASE p = "unbound" -> FALSE
    [] p = "bound"   -> TRUE
    [] p = "probe"   -> step \notin R
    [] OTHER         -> step \in R

IsOwner(d) == Owns(phase[d], Remaining(d))
Has(d, step) == HasStep(phase[d], Remaining(d), step)

(* legion_shared says whether there is an owner; on a laptop that is not   *)
(* in the list it may stay behind (see RefusesSecondOnly).                 *)
OwnerInv ==
  /\ \A d, e \in Devices : IsOwner(d) /\ IsOwner(e) => d = e
  /\ \A d \in Devices : IsOwner(d) => shared
  /\ shared /\ allowed => \E d \in Devices : IsOwner(d)

Controlled == {"memoryio", "ecram", "debugfs", "sysfs", "hwmon", "wmi"}

(* What is held, but for the profile, is exactly what the owner has.       *)
HeldInv ==
  /\ held \subseteq Controlled \cup {"profile", "leds"}
  /\ held \subseteq {"profile"} \/ \E d \in Devices : IsOwner(d)
  /\ \A d \in Devices : IsOwner(d) =>
       /\ \A step \in Controlled : step \in held <=> Has(d, step)
       /\ "leds" \in held => Has(d, "leds")

(* Nothing is released under its users.                                    *)
UseInv ==
  /\ event = "sleep" => "wmi" \in held
  /\ inside["hwmon"] => "hwmon" \in held
  /\ inside["debugfs"] => "debugfs" \in held
  /\ inside["sysfs"] => groupOn # {}
  /\ inside["profile"] => profiles # {}

(* As long as no device was overwritten there is one device at most, and   *)
(* the attributes and the profile are its own.                             *)
AloneInv ==
  ~overwritten =>
    /\ \A d, e \in Devices : phase[d] # "unbound" /\ phase[e] # "unbound" => d = e
    /\ \A d \in Devices : phase[d] # "unbound" => platformDevice = d
    /\ \A d \in groupOn \cup profiles : phase[d] # "unbound"
    /\ groupOn # {} <=> "sysfs" \in held
    /\ profiles # {} <=> "profile" \in held
    /\ \A d \in Devices : Has(d, "profile") => "profile" \in held
    /\ \A d \in Devices : "profile" \in held /\ phase[d] # "unbound" =>
         Has(d, "profile") \/ (devm /\ phase[d] # "probe")

(* Attributes and profiles are given to a device that has been noted.      *)
NotedInv == \A d \in Devices : phase[d] # "unbound" => platformDevice \in Devices

IInv ==
  /\ TypeOK
  /\ StepsInv /\ NotedInv /\ OwnerInv /\ HeldInv /\ UseInv /\ AloneInv

------------------------------------------------------------------------------
(* What is left of a sequence from its k-th element on.                    *)
LEMMA SuffixFirst ==
  ASSUME NEW S, NEW s \in Seq(S), NEW k \in 1 .. Len(s)
  PROVE  /\ Suffix(s, k) # <<>>
         /\ Head(Suffix(s, k)) = s[k]
         /\ Tail(Suffix(s, k)) = Suffix(s, k + 1)
<1>1. k \in Int /\ Len(s) \in Int /\ k <= Len(s) /\ Len(s) \in k .. Len(s)
  OBVIOUS
<1>2. Len(Suffix(s, k)) = Len(s) - k + 1
  BY <1>1, SubSeqProperties, ElementOfSeq DEF Suffix
<1>3. Suffix(s, k) # <<>>
  BY <1>1, <1>2
<1> QED
  BY <1>1, <1>3, HeadTailOfSubSeq DEF Suffix

LEMMA SuffixRange ==
  ASSUME NEW S, NEW s \in Seq(S), NEW k \in 1 .. Len(s) + 1
  PROVE  Range(Suffix(s, k)) = {s[i] : i \in k .. Len(s)}
<1> DEFINE q == Suffix(s, k)
<1>1. k \in Int /\ Len(s) \in Nat /\ 1 <= k /\ k <= Len(s) + 1
  OBVIOUS
<1>2. \A i \in k .. Len(s) : s[i] \in S
  BY <1>1, ElementOfSeq
<1>3. /\ q \in Seq(S)
      /\ Len(q) = IF k <= Len(s) THEN Len(s) - k + 1 ELSE 0
      /\ \A i \in 1 .. Len(s) - k + 1 : q[i] = s[k + i - 1]
  BY <1>1, <1>2, SubSeqProperties DEF Suffix
<1> HIDE DEF q
<1>4. DOMAIN q = 1 .. Len(s) - k + 1
  BY <1>1, <1>3
<1>5. ASSUME NEW i \in DOMAIN q
      PROVE  \E j \in k .. Len(s) : q[i] = s[j]
  <2>1. i \in Int /\ k + i - 1 \in k .. Len(s) /\ q[i] = s[k + i - 1]
    BY <1>1, <1>3, <1>4
  <2> QED  BY <2>1
<1>6. ASSUME NEW j \in k .. Len(s)
      PROVE  \E i \in DOMAIN q : q[i] = s[j]
  <2>1. j - k + 1 \in DOMAIN q /\ k + (j - k + 1) - 1 = j
    BY <1>1, <1>4
  <2>2. q[j - k + 1] = s[j]
    BY <1>1, <1>3, <1>4, <2>1
  <2> QED  BY <2>1, <2>2
<1>7. Range(q) = {s[i] : i \in k .. Len(s)}
  BY <1>5, <1>6 DEF Range
<1> QED  BY <1>7 DEF q

LEMMA EmptyRange == Range(<<>>) = {}
BY DEF Range

LEMMA EmptySuffix ==
  ASSUME NEW s, NEW n \in Nat, Len(s) = n
  PROVE  Suffix(s, n + 1) = <<>>
<1>1. n + 1 \in Int /\ n \in Int /\ n < n + 1
  OBVIOUS
<1> QED  BY <1>1, SubSeqEmpty DEF Suffix

(* The three sequences, element by element.                                *)
StepNames ==
  {"shared", "list", "acpi", "memoryio", "ecram", "ecid", "debugfs", "sysfs", "hwmon",
   "profile", "wmi", "leds", "toggle"}

LEMMA ProbeList ==
  /\ ProbeSteps \in Seq(StepNames) /\ Len(ProbeSteps) = 12
  /\ ProbeSteps[1] = "shared" /\ ProbeSteps[2] = "list" /\ ProbeSteps[3] = "acpi"
  /\ ProbeSteps[4] = "memoryio" /\ ProbeSteps[5] = "ecram"
  /\ ProbeSteps[6] = "ecid" /\ ProbeSteps[7] = "debugfs"
  /\ ProbeSteps[8] = "sysfs" /\ ProbeSteps[9] = "hwmon"
  /\ ProbeSteps[10] = "profile" /\ ProbeSteps[11] = "wmi"
  /\ ProbeSteps[12] = "leds"
BY DEF ProbeSteps, StepNames

LEMMA UndoList ==
  /\ UndoSteps \in Seq(StepNames) /\ Len(UndoSteps) = 7
  /\ UndoSteps[1] = "profile" /\ UndoSteps[2] = "hwmon" /\ UndoSteps[3] = "sysfs"
  /\ UndoSteps[4] = "debugfs" /\ UndoSteps[5] = "ecram"
  /\ UndoSteps[6] = "memoryio" /\ UndoSteps[7] = "shared"
BY DEF UndoSteps, StepNames

LEMMA RemoveList ==
  /\ RemoveSteps \in Seq(StepNames) /\ Len(RemoveSteps) = 10
  /\ RemoveSteps[1] = "leds" /\ RemoveSteps[2] = "wmi"
  /\ RemoveSteps[3] = "profile" /\ RemoveSteps[4] = "toggle"
  /\ RemoveSteps[5] = "hwmon" /\ RemoveSteps[6] = "sysfs"
  /\ RemoveSteps[7] = "debugfs" /\ RemoveSteps[8] = "ecram"
  /\ RemoveSteps[9] = "memoryio" /\ RemoveSteps[10] = "shared"
BY DEF RemoveSteps, StepNames

LEMMA StepNamesAre == Range(ProbeSteps) = StepNames \ {"toggle"}
<1>1. Range(ProbeSteps) = {ProbeSteps[i] : i \in 1 .. 12}
  BY ProbeList DEF Range
<1>2. ASSUME NEW i \in 1 .. 12
      PROVE  ProbeSteps[i] \in StepNames \ {"toggle"}
  <2>1. \/ i = 1 \/ i = 2 \/ i = 3 \/ i = 4 \/ i = 5 \/ i = 6
        \/ i = 7 \/ i = 8 \/ i = 9 \/ i = 10 \/ i = 11 \/ i = 12
    OBVIOUS
  <2> QED  BY <2>1, ProbeList DEF StepNames
<1>3. ASSUME NEW x \in StepNames \ {"toggle"}
      PROVE  \E i \in 1 .. 12 : ProbeSteps[i] = x
  BY ProbeList DEF StepNames
<1> QED  BY <1>1, <1>2, <1>3

LEMMA ListsEnd ==
  Suffix(UndoSteps, 8) = <<>> /\ Suffix(RemoveSteps, 11) = <<>>
<1>1. /\ 7 \in Nat /\ 7 + 1 = 8 /\ Len(UndoSteps) = 7
      /\ 10 \in Nat /\ 10 + 1 = 11 /\ Len(RemoveSteps) = 10
  BY UndoList, RemoveList
<1>2. Suffix(UndoSteps, 7 + 1) = <<>>
  BY <1>1, EmptySuffix, Zenon
<1>3. Suffix(RemoveSteps, 10 + 1) = <<>>
  BY <1>1, EmptySuffix, Zenon
<1> QED  BY <1>1, <1>2, <1>3

(* ... and which of their elements are left from the k-th on.              *)
LEMMA ProbeAfter ==
  ASSUME NEW k \in 1 .. 13
  PROVE  \A x : x \in Range(Suffix(ProbeSteps, k)) <=>
                  \E i \in 1 .. 12 : k <= i /\ ProbeSteps[i] = x
<1>1. k \in 1 .. Len(ProbeSteps) + 1 /\ ProbeSteps \in Seq(StepNames)
  BY ProbeList
<1>2. Range(Suffix(ProbeSteps, k)) = {ProbeSteps[i] : i \in k .. Len(ProbeSteps)}
  BY <1>1, SuffixRange, Zenon
<1>3. \A i : i \in k .. Len(ProbeSteps) <=> i \in 1 .. 12 /\ k <= i
  BY ProbeList
<1> QED  BY <1>2, <1>3

LEMMA UndoAfter ==
  ASSUME NEW k \in 1 .. 8
  PROVE  \A x : x \in Range(Suffix(UndoSteps, k)) <=>
                  \E i \in 1 .. 7 : k <= i /\ UndoSteps[i] = x
<1>1. k \in 1 .. Len(UndoSteps) + 1 /\ UndoSteps \in Seq(StepNames)
  BY UndoList
<1>2. Range(Suffix(UndoSteps, k)) = {UndoSteps[i] : i \in k .. Len(UndoSteps)}
  BY <1>1, SuffixRange, Zenon
<1>3. \A i : i \in k .. Len(UndoSteps) <=> i \in 1 .. 7 /\ k <= i
  BY UndoList
<1> QED  BY <1>2, <1>3

LEMMA RemoveAfter ==
  ASSUME NEW k \in 1 .. 11
  PROVE  \A x : x \in Range(Suffix(RemoveSteps, k)) <=>
                  \E i \in 1 .. 10 : k <= i /\ RemoveSteps[i] = x
<1>1. k \in 1 .. Len(RemoveSteps) + 1 /\ RemoveSteps \in Seq(StepNames)
  BY RemoveList
<1>2. Range(Suffix(RemoveSteps, k)) = {RemoveSteps[i] : i \in k .. Len(RemoveSteps)}
  BY <1>1, SuffixRange, Zenon
<1>3. \A i : i \in k .. Len(RemoveSteps) <=> i \in 1 .. 10 /\ k <= i
  BY RemoveList
<1> QED  BY <1>2, <1>3

LEMMA ProbeRest ==
  ASSUME NEW k \in 1 .. 13, NEW R, R = Range(Suffix(ProbeSteps, k))
  PROVE  /\ R \subseteq StepNames
         /\ "shared" \in R <=> k <= 1
         /\ "list" \in R <=> k <= 2
         /\ "acpi" \in R <=> k <= 3
         /\ "memoryio" \in R <=> k <= 4
         /\ "ecram" \in R <=> k <= 5
         /\ "ecid" \in R <=> k <= 6
         /\ "debugfs" \in R <=> k <= 7
         /\ "sysfs" \in R <=> k <= 8
         /\ "hwmon" \in R <=> k <= 9
         /\ "profile" \in R <=> k <= 10
         /\ "wmi" \in R <=> k <= 11
         /\ "leds" \in R <=> k <= 12
         /\ "toggle" \notin R
<1>1. \A x : x \in R <=> \E i \in 1 .. 12 : k <= i /\ ProbeSteps[i] = x
  BY ProbeAfter
<1>2. ASSUME NEW i \in 1 .. 12
      PROVE  \/ i = 1 \/ i = 2 \/ i = 3 \/ i = 4 \/ i = 5 \/ i = 6
             \/ i = 7 \/ i = 8 \/ i = 9 \/ i = 10 \/ i = 11 \/ i = 12
  OBVIOUS
<1> QED
  BY <1>1, <1>2, ProbeList, SMTT(60) DEF StepNames

LEMMA UndoRest ==
  ASSUME NEW k \in 1 .. 8, NEW R, R = Range(Suffix(UndoSteps, k))
  PROVE  /\ R \subseteq StepNames
         /\ "shared" \in R <=> k <= 7
         /\ "list" \notin R
         /\ "acpi" \notin R
         /\ "memoryio" \in R <=> k <= 6
         /\ "ecram" \in R <=> k <= 5
         /\ "ecid" \notin R
         /\ "debugfs" \in R <=> k <= 4
         /\ "sysfs" \in R <=> k <= 3
         /\ "hwmon" \in R <=> k <= 2
         /\ "profile" \in R <=> k <= 1
         /\ "wmi" \notin R
         /\ "leds" \notin R
         /\ "toggle" \notin R
<1>1. \A x : x \in R <=> \E i \in 1 .. 7 : k <= i /\ UndoSteps[i] = x
  BY UndoAfter
<1>2. ASSUME NEW i \in 1 .. 7
      PROVE  \/ i = 1 \/ i = 2 \/ i = 3 \/ i = 4
             \/ i = 5 \/ i = 6 \/ i = 7
  OBVIOUS
<1> QED
  BY <1>1, <1>2, UndoList, SMTT(60) DEF StepNames

LEMMA RemoveRest ==
  ASSUME NEW k \in 1 .. 11, NEW R, R = Range(Suffix(RemoveSteps, k))
  PROVE  /\ R \subseteq StepNames
         /\ "shared" \in R <=> k <= 10
         /\ "list" \notin R
         /\ "acpi" \notin R
         /\ "memoryio" \in R <=> k <= 9
         /\ "ecram" \in R <=> k <= 8
         /\ "ecid" \notin R
         /\ "debugfs" \in R <=> k <= 7
         /\ "sysfs" \in R <=> k <= 6
         /\ "hwmon" \in R <=> k <= 5
         /\ "profile" \in R <=> k <= 3
         /\ "wmi" \in R <=> k <= 2
         /\ "leds" \in R <=> k <= 1
         /\ "toggle" \in R <=> k <= 4
<1>1. \A x : x \in R <=> \E i \in 1 .. 10 : k <= i /\ RemoveSteps[i] = x
  BY RemoveAfter
<1>2. ASSUME NEW i \in 1 .. 10
      PROVE  \/ i = 1 \/ i = 2 \/ i = 3 \/ i = 4 \/ i = 5
             \/ i = 6 \/ i = 7 \/ i = 8 \/ i = 9 \/ i = 10
  OBVIOUS
<1> QED
  BY <1>1, <1>2, RemoveList, SMTT(60) DEF StepNames

------------------------------------------------------------------------------
(* What the steps left say about what a device has.                        *)
Phases == {"unbound", "probe", "fail", "bound", "remove"}

LEMMA StepsLeft ==
  ASSUME NEW p \in Phases, NEW s, StepsOf(p, s)
  PROVE  /\ Range(s) \subseteq StepNames
         /\ p \in {"unbound", "bound"} => s = <<>> /\ Range(s) = {}
         /\ s = <<>> => p # "probe" /\ Range(s) = {}
<1>1. CASE p \in {"unbound", "bound"}
  BY <1>1, EmptyRange DEF StepsOf
<1>2. CASE p = "probe"
  <2>1. PICK k \in 1 .. 12 : s = Suffix(ProbeSteps, k)
    BY <1>2 DEF StepsOf
  <2>2. k \in 1 .. 13
    BY <2>1
  <2>3. Range(s) \subseteq StepNames
    BY <2>1, <2>2, ProbeRest
  <2>4. s # <<>>
    BY <2>1, ProbeList, SuffixFirst
  <2> QED  BY <1>2, <2>3, <2>4
<1>3. CASE p = "fail"
  <2>1. PICK k \in 1 .. 8 : s = Suffix(UndoSteps, k)
    BY <1>3 DEF StepsOf
  <2>2. Range(s) \subseteq StepNames
    BY <2>1, UndoRest
  <2> QED  BY <1>3, <2>2, EmptyRange
<1>4. CASE p = "remove"
  <2>1. PICK k \in 1 .. 11 : s = Suffix(RemoveSteps, k)
    BY <1>4 DEF StepsOf
  <2>2. Range(s) \subseteq StepNames
    BY <2>1, RemoveRest
  <2> QED  BY <1>4, <2>2, EmptyRange
<1> QED  BY <1>1, <1>2, <1>3, <1>4 DEF Phases

LEMMA HasInOrder ==
  ASSUME NEW p \in Phases, NEW s, StepsOf(p, s), NEW R, R = Range(s)
  PROVE  /\ \A step \in Controlled \cup {"profile", "leds"} :
              HasStep(p, R, step) => Owns(p, R)
         /\ \A step \in {"debugfs", "sysfs", "hwmon", "profile", "wmi"} :
              HasStep(p, R, step) => HasStep(p, R, "ecram")
         /\ HasStep(p, R, "wmi") => HasStep(p, R, "profile")
         /\ HasStep(p, R, "leds") => HasStep(p, R, "profile")
         /\ p \in {"probe", "fail"} => ~HasStep(p, R, "leds")
         /\ p = "probe" => (Owns(p, R) <=> Head(s) # "shared")
         /\ "shared" \notin R /\ p \in {"fail", "remove"} => R = {}
<1>1. CASE p \in {"unbound", "bound"}
  BY <1>1 DEF HasStep, Owns
<1>2. CASE p = "probe"
  <2>1. PICK k \in 1 .. 12 : s = Suffix(ProbeSteps, k)
    BY <1>2 DEF StepsOf
  <2>2. k \in 1 .. 13 /\ k \in Int
    BY <2>1
  <2>3. Head(s) = ProbeSteps[k]
    BY <2>1, ProbeList, SuffixFirst
  <2>4. Head(s) = "shared" <=> k = 1
    BY <2>3, ProbeList
  <2> QED  BY <1>2, <2>1, <2>2, <2>4, ProbeRest DEF HasStep, Owns, Controlled
<1>3. CASE p = "fail"
  <2>1. PICK k \in 1 .. 8 : s = Suffix(UndoSteps, k)
    BY <1>3 DEF StepsOf
  <2>2. k \in Int /\ (k = 8 => R = {})
    BY <2>1, ListsEnd, EmptyRange
  <2> QED  BY <1>3, <2>1, <2>2, UndoRest DEF HasStep, Owns, Controlled
<1>4. CASE p = "remove"
  <2>1. PICK k \in 1 .. 11 : s = Suffix(RemoveSteps, k)
    BY <1>4 DEF StepsOf
  <2>2. k \in Int /\ (k = 11 => R = {})
    BY <2>1, ListsEnd, EmptyRange
  <2> QED  BY <1>4, <2>1, <2>2, RemoveRest DEF HasStep, Owns, Controlled
<1> QED  BY <1>1, <1>2, <1>3, <1>4 DEF Phases

(* Done(d): one step less.                                                 *)
LEMMA DropFirst ==
  ASSUME NEW s, NEW n \in Nat, NEW k \in 1 .. n, NEW A, NEW B,
         \A i, j \in 1 .. n : s[i] = s[j] => i = j,
         \A x : x \in A <=> \E i \in 1 .. n : k <= i /\ s[i] = x,
         \A x : x \in B <=> \E i \in 1 .. n : k + 1 <= i /\ s[i] = x
  PROVE  B = A \ {s[k]}
<1>1. \A i \in 1 .. n : k + 1 <= i <=> k <= i /\ i # k
  OBVIOUS
<1>2. ASSUME NEW x \in B
      PROVE  x \in A /\ x # s[k]
  <2>1. PICK i \in 1 .. n : k + 1 <= i /\ s[i] = x
    BY <1>2
  <2>2. k <= i /\ i # k
    BY <1>1, <2>1
  <2> QED  BY <2>1, <2>2
<1>3. ASSUME NEW x \in A, x # s[k]
      PROVE  x \in B
  <2>1. PICK i \in 1 .. n : k <= i /\ s[i] = x
    BY <1>3
  <2>2. k + 1 <= i
    BY <1>1, <1>3, <2>1
  <2> QED  BY <2>1, <2>2
<1> QED  BY <1>2, <1>3

LEMMA OneStepLess ==
  ASSUME NEW p \in {"probe", "fail", "remove"}, NEW s, StepsOf(p, s), s # <<>>
  PROVE  /\ Head(s) \in Range(s)
         /\ Range(Tail(s)) = Range(s) \ {Head(s)}
         /\ Head(s) # "leds" \/ p # "probe" => StepsOf(p, Tail(s))
         /\ p \in {"fail", "remove"} /\ Head(s) = "shared" => Range(s) = {"shared"}
         /\ p \in {"fail", "remove"} /\ Head(s) = "toggle" =>
              p = "remove" /\ "wmi" \notin Range(s) /\ "ecram" \in Range(s)
         /\ p = "probe" /\ Head(s) = "leds" => Range(s) = {"leds"}
<1>1. CASE p = "probe"
  <2>1. PICK k \in 1 .. 12 : s = Suffix(ProbeSteps, k)
    BY <1>1 DEF StepsOf
  <2>2. Head(s) = ProbeSteps[k] /\ Tail(s) = Suffix(ProbeSteps, k + 1)
    BY <2>1, ProbeList, SuffixFirst
  <2>3. k + 1 \in 1 .. 13 /\ k \in 1 .. 13
    BY <2>1
  <2>4. \A x : x \in Range(s) <=> \E i \in 1 .. 12 : k <= i /\ ProbeSteps[i] = x
    BY <2>1, <2>3, ProbeAfter
  <2>5. \A x : x \in Range(Tail(s)) <=>
                 \E i \in 1 .. 12 : k + 1 <= i /\ ProbeSteps[i] = x
    BY <2>2, <2>3, ProbeAfter
  <2>6. \A i, j \in 1 .. 12 : ProbeSteps[i] = ProbeSteps[j] => i = j
    BY ProbeList, SMTT(60)
  <2>7. Head(s) \in Range(s)
    BY <2>1, <2>2, <2>4
  <2>8. Range(Tail(s)) = Range(s) \ {Head(s)}
    <3> DEFINE A == Range(s)
               B == Range(Tail(s))
    <3>1. 12 \in Nat /\ k \in 1 .. 12
      BY <2>1
    <3>2. /\ \A x : x \in A <=> \E i \in 1 .. 12 : k <= i /\ ProbeSteps[i] = x
          /\ \A x : x \in B <=> \E i \in 1 .. 12 : k + 1 <= i /\ ProbeSteps[i] = x
      BY <2>4, <2>5
    <3> HIDE DEF A, B
    <3>3. B = A \ {ProbeSteps[k]}
      BY <2>6, <3>1, <3>2, DropFirst
    <3> QED  BY <2>2, <3>3 DEF A, B
  <2>9. Head(s) = "leds" <=> k = 12
    BY <2>1, <2>2, ProbeList
  <2>10. Head(s) = "leds" => Range(s) = {"leds"}
    BY <2>4, <2>9, ProbeList
  <2>11. Head(s) # "leds" => StepsOf(p, Tail(s))
    <3>1. k # 12 => k + 1 \in 1 .. 12
      BY <2>1
    <3> QED  BY <1>1, <2>2, <2>9, <3>1 DEF StepsOf
  <2> QED  BY <1>1, <2>7, <2>8, <2>10, <2>11
<1>2. CASE p = "fail"
  <2>1. PICK k \in 1 .. 8 : s = Suffix(UndoSteps, k)
    BY <1>2 DEF StepsOf
  <2>2. k \in 1 .. 7
    BY <2>1, ListsEnd
  <2>3. Head(s) = UndoSteps[k] /\ Tail(s) = Suffix(UndoSteps, k + 1)
    BY <2>1, <2>2, UndoList, SuffixFirst
  <2>4. k + 1 \in 1 .. 8 /\ k \in 1 .. 8
    BY <2>2
  <2>5. \A x : x \in Range(s) <=> \E i \in 1 .. 7 : k <= i /\ UndoSteps[i] = x
    BY <2>1, <2>4, UndoAfter
  <2>6. \A x : x \in Range(Tail(s)) <=>
                 \E i \in 1 .. 7 : k + 1 <= i /\ UndoSteps[i] = x
    BY <2>3, <2>4, UndoAfter
  <2>7. \A i, j \in 1 .. 7 : UndoSteps[i] = UndoSteps[j] => i = j
    BY UndoList, SMTT(60)
  <2>8. Head(s) \in Range(s)
    BY <2>2, <2>3, <2>5
  <2>9. Range(Tail(s)) = Range(s) \ {Head(s)}
    BY <2>2, <2>3, <2>5, <2>6, <2>7, DropFirst
  <2>10. Head(s) # "toggle" /\ (Head(s) = "shared" <=> k = 7)
    BY <2>2, <2>3, UndoList
  <2>11. Head(s) = "shared" => Range(s) = {"shared"}
    BY <2>5, <2>10, UndoList
  <2>12. StepsOf(p, Tail(s))
    BY <1>2, <2>3, <2>4 DEF StepsOf
  <2> QED  BY <1>2, <2>8, <2>9, <2>10, <2>11, <2>12
<1>3. CASE p = "remove"
  <2>1. PICK k \in 1 .. 11 : s = Suffix(RemoveSteps, k)
    BY <1>3 DEF StepsOf
  <2>2. k \in 1 .. 10
    BY <2>1, ListsEnd
  <2>3. Head(s) = RemoveSteps[k] /\ Tail(s) = Suffix(RemoveSteps, k + 1)
    BY <2>1, <2>2, RemoveList, SuffixFirst
  <2>4. k + 1 \in 1 .. 11 /\ k \in 1 .. 11
    BY <2>2
  <2>5. \A x : x \in Range(s) <=> \E i \in 1 .. 10 : k <= i /\ RemoveSteps[i] = x
    BY <2>1, <2>4, RemoveAfter
  <2>6. \A x : x \in Range(Tail(s)) <=>
                 \E i \in 1 .. 10 : k + 1 <= i /\ RemoveSteps[i] = x
    BY <2>3, <2>4, RemoveAfter
  <2>7. \A i, j \in 1 .. 10 : RemoveSteps[i] = RemoveSteps[j] => i = j
    BY RemoveList, SMTT(60)
  <2>8. Head(s) \in Range(s)
    BY <2>2, <2>3, <2>5
  <2>9. Range(Tail(s)) = Range(s) \ {Head(s)}
    BY <2>2, <2>3, <2>5, <2>6, <2>7, DropFirst
  <2>10. (Head(s) = "toggle" <=> k = 4) /\ (Head(s) = "shared" <=> k = 10)
    BY <2>2, <2>3, RemoveList
  <2>11. Head(s) = "shared" => Range(s) = {"shared"}
    BY <2>5, <2>10, RemoveList
  <2>12. StepsOf(p, Tail(s))
    BY <1>3, <2>3, <2>4 DEF StepsOf
  <2>13. Head(s) = "toggle" => "wmi" \notin Range(s) /\ "ecram" \in Range(s)
    BY <2>5, <2>10, RemoveList
  <2> QED  BY <1>3, <2>8, <2>9, <2>11, <2>12, <2>13
<1> QED  BY <1>1, <1>2, <1>3

(* goto err_...: what the labels take back is what the probe has set up so *)
(* far, neither more nor less.                                             *)
LEMMA UndoIsSuffix ==
  /\ Undo("shared") = Suffix(UndoSteps, 8) /\ Undo("list") = Suffix(UndoSteps, 8)
  /\ Undo("acpi") = Suffix(UndoSteps, 7) /\ Undo("memoryio") = Suffix(UndoSteps, 7)
  /\ Undo("ecram") = Suffix(UndoSteps, 6) /\ Undo("ecid") = Suffix(UndoSteps, 5)
  /\ Undo("sysfs") = Suffix(UndoSteps, 4) /\ Undo("hwmon") = Suffix(UndoSteps, 3)
  /\ Undo("profile") = Suffix(UndoSteps, 2) /\ Undo("wmi") = Suffix(UndoSteps, 1)
<1>1. \A n : Suffix(UndoSteps, n) = SubSeq(UndoSteps, n, 7)
  BY UndoList DEF Suffix
<1>2. Suffix(UndoSteps, 1) = UndoSteps
  BY UndoList, SubSeqFull DEF Suffix
<1> QED  BY <1>1, <1>2, ListsEnd DEF Undo

LEMMA UndoTakesBack ==
  ASSUME NEW s, StepsOf("probe", s), Head(s) \notin {"debugfs", "leds"},
         NEW u, u = Undo(Head(s))
  PROVE  /\ StepsOf("fail", u)
         /\ Head(s) \in {"shared", "list"} =>
              /\ u = <<>>
              /\ \A step \in Controlled \cup {"profile", "leds"} : step \in Range(s)
         /\ Head(s) \notin {"shared", "list"} =>
              /\ "shared" \in Range(u) /\ "shared" \notin Range(s)
              /\ \A step \in Controlled \cup {"profile"} :
                   step \in Range(u) <=> step \notin Range(s)
<1>1. PICK k \in 1 .. 12 : s = Suffix(ProbeSteps, k)
  BY DEF StepsOf
<1>2. Head(s) = ProbeSteps[k]
  BY <1>1, ProbeList, SuffixFirst
<1>3. \/ k = 1 \/ k = 2 \/ k = 3 \/ k = 4 \/ k = 5 \/ k = 6
      \/ k = 7 \/ k = 8 \/ k = 9 \/ k = 10 \/ k = 11 \/ k = 12
  BY <1>1
<1>4. k # 7 /\ k # 12
  BY <1>2, ProbeList
<1> DEFINE j == IF k <= 2 THEN 8 ELSE IF k <= 4 THEN 7 ELSE IF k = 5 THEN 6
                ELSE IF k = 6 THEN 5 ELSE 12 - k
<1>5. u = Suffix(UndoSteps, j)
  <2>1. k \in {1, 2, 3, 4, 5, 6} => u = Suffix(UndoSteps, j)
    BY <1>2, ProbeList, UndoIsSuffix
  <2>2. k \in {8, 9, 10, 11} => u = Suffix(UndoSteps, j)
    BY <1>2, ProbeList, UndoIsSuffix
  <2> QED  BY <1>3, <1>4, <2>1, <2>2
<1>6. /\ j \in 1 .. 8
      /\ k <= 2 => j = 8
      /\ k > 2 => /\ j <= 7
                  /\ j <= 6 <=> k > 4
                  /\ j <= 5 <=> k > 5
                  /\ j <= 4 <=> k > 7
                  /\ j <= 3 <=> k > 8
                  /\ j <= 2 <=> k > 9
                  /\ j <= 1 <=> k > 10
  BY <1>2, <1>3, <1>4
<1> HIDE DEF j
<1>7. Head(s) \in {"shared", "list"} <=> k <= 2
  BY <1>2, <1>3, ProbeList
<1>8. StepsOf("fail", u)
  BY <1>5, <1>6 DEF StepsOf
<1>9. k <= 2 => u = <<>>
  BY <1>5, <1>6, ListsEnd
<1> DEFINE R == Range(s)
           U == Range(u)
<1>10. k \in 1 .. 13 /\ R = Range(Suffix(ProbeSteps, k))
  BY <1>1
<1>11. U = Range(Suffix(UndoSteps, j))
  BY <1>5
<1> HIDE DEF R, U
<1>12. k <= 2 => \A step \in Controlled \cup {"profile", "leds"} : step \in R
  BY <1>10, ProbeRest DEF Controlled
<1>13. k > 2 => "shared" \in U /\ "shared" \notin R
  BY <1>6, <1>10, <1>11, ProbeRest, UndoRest
<1>14. k > 2 => \A step \in Controlled \cup {"profile"} : step \in U <=> step \notin R
  <2>1. k # 7 /\ k # 12 /\ k \in Int
    BY <1>1, <1>4
  <2> QED
    BY <1>6, <1>10, <1>11, <2>1, ProbeRest, UndoRest DEF Controlled
<1>15. k \in Int
  BY <1>1
<1> QED
  BY <1>7, <1>8, <1>9, <1>12, <1>13, <1>14, <1>15 DEF R, U

(* Where legion_add() and legion_remove() begin.                           *)
LEMMA FirstSteps ==
  /\ StepsOf("probe", ProbeSteps) /\ StepsOf("remove", RemoveSteps)
  /\ StepsOf("unbound", <<>>) /\ StepsOf("bound", <<>>)
  /\ \A step \in Controlled \cup {"profile", "leds", "shared"} :
       step \in Range(ProbeSteps) /\ step \in Range(RemoveSteps)
<1>1. ProbeSteps = Suffix(ProbeSteps, 1) /\ RemoveSteps = Suffix(RemoveSteps, 1)
  BY ProbeList, RemoveList, SubSeqFull DEF Suffix
<1>2. StepsOf("probe", ProbeSteps) /\ StepsOf("remove", RemoveSteps)
  BY <1>1 DEF StepsOf
<1>3. StepsOf("unbound", <<>>) /\ StepsOf("bound", <<>>)
  BY DEF StepsOf
<1>4. 1 \in 1 .. 13 /\ 1 \in 1 .. 11
  OBVIOUS
<1>5. ASSUME NEW step \in Controlled \cup {"profile", "leds", "shared"}
      PROVE  step \in Range(Suffix(ProbeSteps, 1)) /\ step \in Range(Suffix(RemoveSteps, 1))
  BY <1>4, ProbeRest, RemoveRest DEF Controlled
<1> QED  BY <1>1, <1>2, <1>3, <1>5

------------------------------------------------------------------------------
(* A step of one device leaves the others as they are.                     *)
LEMMA Change ==
  ASSUME NEW d \in Devices, NEW p, NEW s,
         phase \in [Devices -> Phases], DOMAIN todo = Devices,
         phase' = [phase EXCEPT ![d] = p], todo' = [todo EXCEPT ![d] = s]
  PROVE  /\ phase'[d] = p /\ todo'[d] = s /\ DOMAIN todo' = Devices
         /\ \A e \in Devices : e # d => phase'[e] = phase[e] /\ todo'[e] = todo[e]
OBVIOUS

(* What holds of a device before it does anything.                         *)
LEMMA Before ==
  ASSUME IInv
  PROVE  /\ phase \in [Devices -> Phases] /\ DOMAIN todo = Devices
         /\ StepsInv /\ NotedInv /\ OwnerInv /\ HeldInv /\ UseInv /\ AloneInv
         /\ \A d \in Devices : phase[d] \in Phases /\ StepsOf(phase[d], todo[d])
BY DEF IInv, TypeOK, StepsInv, Phases

(* Done(d): the device stays the owner, unless this was the step of        *)
(* legion_shared, and has what it had, but for this step.                  *)
LEMMA DoneIs ==
  ASSUME IInv, NEW d \in Devices, phase[d] \in {"probe", "fail", "remove"},
         todo[d] # <<>>, Done(d), ~(phase[d] = "probe" /\ Left(d) = "leds")
  PROVE  /\ phase' = [phase EXCEPT ![d] = phase[d]]
         /\ todo' = [todo EXCEPT ![d] = Tail(todo[d])]
         /\ StepsInv'
         /\ phase'[d] = phase[d]
         /\ Range(todo'[d]) = Range(todo[d]) \ {Left(d)}
         /\ Left(d) \in Range(todo[d])
         /\ \A e \in Devices : e # d => phase'[e] = phase[e] /\ todo'[e] = todo[e]
<1>1. phase' = [phase EXCEPT ![d] = phase[d]] /\ todo' = [todo EXCEPT ![d] = Tail(todo[d])]
  BY Before DEF Done
<1>2. /\ phase'[d] = phase[d] /\ todo'[d] = Tail(todo[d]) /\ DOMAIN todo' = Devices
      /\ \A e \in Devices : e # d => phase'[e] = phase[e] /\ todo'[e] = todo[e]
  BY <1>1, Before, Change
<1>3. StepsOf(phase[d], todo[d])
  BY Before
<1>4. /\ Left(d) \in Range(todo[d])
      /\ Range(Tail(todo[d])) = Range(todo[d]) \ {Left(d)}
      /\ StepsOf(phase[d], Tail(todo[d]))
  BY <1>3, OneStepLess DEF Left
<1>5. StepsInv'
  BY <1>2, <1>4, Before DEF StepsInv
<1> QED  BY <1>1, <1>2, <1>4, <1>5

(* A step that changes neither what the device has nor whether it uses     *)
(* _priv keeps the invariant.                                              *)
LEMMA Quiet ==
  ASSUME IInv, NEW d \in Devices,
         \A e \in Devices : e # d => phase'[e] = phase[e] /\ todo'[e] = todo[e],
         phase[d] # "unbound", phase'[d] # "unbound",
         phase'[d] = "probe" => phase[d] = "probe",
         Owns(phase'[d], Range(todo'[d])) <=> Owns(phase[d], Range(todo[d])),
         \A step \in Controlled \cup {"profile", "leds"} :
           HasStep(phase'[d], Range(todo'[d]), step) <=>
             HasStep(phase[d], Range(todo[d]), step),
         UNCHANGED <<allowed, devm, platformDevice, shared, held, groupOn, profiles,
                     inside, event, overwritten>>
  PROVE  NotedInv' /\ OwnerInv' /\ HeldInv' /\ UseInv' /\ AloneInv'
<1>1. \A e \in Devices :
        Owns(phase'[e], Range(todo'[e])) <=> Owns(phase[e], Range(todo[e]))
  OBVIOUS
<1>2. \A e \in Devices : \A step \in Controlled \cup {"profile", "leds"} :
        HasStep(phase'[e], Range(todo'[e]), step) <=>
          HasStep(phase[e], Range(todo[e]), step)
  OBVIOUS
<1>3. \A e \in Devices : phase'[e] # "unbound" <=> phase[e] # "unbound"
  OBVIOUS
<1>4. \A e \in Devices : phase'[e] = "probe" => phase[e] = "probe"
  OBVIOUS
<1>5. NotedInv'
  BY <1>3, Before DEF NotedInv
<1>6. OwnerInv'
  BY <1>1, Before DEF OwnerInv, IsOwner, Remaining
<1>7. HeldInv'
  <2>1. \A step \in Controlled \cup {"profile", "leds"} : \A e \in Devices :
          HasStep(phase'[e], Range(todo'[e]), step) <=>
            HasStep(phase[e], Range(todo[e]), step)
    BY <1>2
  <2>2. HeldInv
    BY Before
  <2> QED  BY <1>1, <2>1, <2>2 DEF HeldInv, IsOwner, Has, Remaining
<1>8. UseInv'
  BY Before DEF UseInv
<1>9. AloneInv'
  <2>1. \A e \in Devices : HasStep(phase'[e], Range(todo'[e]), "profile") <=>
                             HasStep(phase[e], Range(todo[e]), "profile")
    BY <1>2
  <2>2. AloneInv
    BY Before
  <2>3. UNCHANGED <<overwritten, platformDevice, groupOn, profiles, held, devm>>
    OBVIOUS
  <2> SUFFICES ASSUME ~overwritten'
               PROVE  AloneInv'
    BY DEF AloneInv
  <2>4. /\ \A e, f \in Devices : phase[e] # "unbound" /\ phase[f] # "unbound" => e = f
        /\ \A e \in Devices : phase[e] # "unbound" => platformDevice = e
        /\ \A e \in groupOn \cup profiles : e \in Devices /\ phase[e] # "unbound"
        /\ groupOn # {} <=> "sysfs" \in held
        /\ profiles # {} <=> "profile" \in held
    BY <2>2, <2>3 DEF AloneInv, IInv, TypeOK
  <2>5. \A e \in Devices : HasStep(phase[e], Range(todo[e]), "profile") =>
                              "profile" \in held
    BY <2>2, <2>3 DEF AloneInv, Has, Remaining
  <2>6. \A e \in Devices : "profile" \in held /\ phase[e] # "unbound" =>
          HasStep(phase[e], Range(todo[e]), "profile") \/ (devm /\ phase[e] # "probe")
    BY <2>2, <2>3 DEF AloneInv, Has, Remaining
  <2>7. /\ \A e, f \in Devices : phase'[e] # "unbound" /\ phase'[f] # "unbound" => e = f
        /\ \A e \in Devices : phase'[e] # "unbound" => platformDevice' = e
        /\ \A e \in groupOn' \cup profiles' : phase'[e] # "unbound"
        /\ groupOn' # {} <=> "sysfs" \in held'
        /\ profiles' # {} <=> "profile" \in held'
    BY <1>3, <2>3, <2>4
  <2>8. \A e \in Devices : HasStep(phase'[e], Range(todo'[e]), "profile") =>
                              "profile" \in held'
    BY <2>1, <2>3, <2>5
  <2>9. \A e \in Devices : "profile" \in held' /\ phase'[e] # "unbound" =>
          HasStep(phase'[e], Range(todo'[e]), "profile") \/ (devm' /\ phase'[e] # "probe")
    BY <1>3, <1>4, <2>1, <2>3, <2>6
  <2> QED  BY <2>7, <2>8, <2>9 DEF AloneInv, Has, Remaining
<1> QED  BY <1>5, <1>6, <1>7, <1>8, <1>9

(* AloneInv, in the terms in which the steps change it.                    *)
LEMMA Alone ==
  ASSUME IInv, ~overwritten
  PROVE  /\ \A d, e \in Devices : phase[d] # "unbound" /\ phase[e] # "unbound" => d = e
         /\ \A d \in Devices : phase[d] # "unbound" => platformDevice = d
         /\ \A d \in groupOn : d \in Devices /\ phase[d] # "unbound"
         /\ \A d \in profiles : d \in Devices /\ phase[d] # "unbound"
         /\ groupOn # {} <=> "sysfs" \in held
         /\ profiles # {} <=> "profile" \in held
         /\ \A d \in Devices : HasStep(phase[d], Range(todo[d]), "profile") =>
              "profile" \in held
         /\ \A d \in Devices : "profile" \in held /\ phase[d] # "unbound" =>
              \/ HasStep(phase[d], Range(todo[d]), "profile")
              \/ devm /\ phase[d] # "probe"
<1>1. AloneInv /\ groupOn \subseteq Devices /\ profiles \subseteq Devices
  BY DEF IInv, TypeOK
<1>2. /\ \A d, e \in Devices : phase[d] # "unbound" /\ phase[e] # "unbound" => d = e
      /\ \A d \in Devices : phase[d] # "unbound" => platformDevice = d
      /\ \A d \in groupOn : d \in Devices /\ phase[d] # "unbound"
      /\ \A d \in profiles : d \in Devices /\ phase[d] # "unbound"
      /\ groupOn # {} <=> "sysfs" \in held
      /\ profiles # {} <=> "profile" \in held
  BY <1>1 DEF AloneInv
<1>3. \A d \in Devices : HasStep(phase[d], Range(todo[d]), "profile") => "profile" \in held
  BY <1>1 DEF AloneInv, Has, Remaining
<1>4. \A d \in Devices : "profile" \in held /\ phase[d] # "unbound" =>
        HasStep(phase[d], Range(todo[d]), "profile") \/ (devm /\ phase[d] # "probe")
  BY <1>1 DEF AloneInv, Has, Remaining
<1> QED  BY <1>2, <1>3, <1>4

LEMMA AloneNext ==
  ASSUME ~overwritten' =>
         /\ \A d, e \in Devices : phase'[d] # "unbound" /\ phase'[e] # "unbound" => d = e
         /\ \A d \in Devices : phase'[d] # "unbound" => platformDevice' = d
         /\ \A d \in groupOn' : phase'[d] # "unbound"
         /\ \A d \in profiles' : phase'[d] # "unbound"
         /\ groupOn' # {} <=> "sysfs" \in held'
         /\ profiles' # {} <=> "profile" \in held'
         /\ \A d \in Devices : HasStep(phase'[d], Range(todo'[d]), "profile") =>
              "profile" \in held'
         /\ \A d \in Devices : "profile" \in held' /\ phase'[d] # "unbound" =>
              \/ HasStep(phase'[d], Range(todo'[d]), "profile")
              \/ devm' /\ phase'[d] # "probe"
  PROVE  AloneInv'
BY DEF AloneInv, Has, Remaining

(* ... and the others: an owner, and what it holds.                        *)
LEMMA Owning ==
  ASSUME IInv, NEW d \in Devices, Owns(phase[d], Range(todo[d]))
  PROVE  /\ shared
         /\ \A e \in Devices : Owns(phase[e], Range(todo[e])) => e = d
         /\ \A step \in Controlled : step \in held <=> HasStep(phase[d], Range(todo[d]), step)
         /\ "leds" \in held => HasStep(phase[d], Range(todo[d]), "leds")
         /\ held \subseteq Controlled \cup {"profile", "leds"}
BY Before DEF OwnerInv, HeldInv, IsOwner, Has, Remaining

LEMMA OwningNext ==
  ASSUME NEW d \in Devices,
         \A e \in Devices : e # d => ~Owns(phase'[e], Range(todo'[e])),
         Owns(phase'[d], Range(todo'[d])), shared',
         held' \subseteq Controlled \cup {"profile", "leds"},
         \A step \in Controlled : step \in held' <=> HasStep(phase'[d], Range(todo'[d]), step),
         "leds" \in held' => HasStep(phase'[d], Range(todo'[d]), "leds")
  PROVE  OwnerInv' /\ HeldInv'
<1>1. \A e \in Devices : Owns(phase'[e], Range(todo'[e])) => e = d
  OBVIOUS
<1>2. OwnerInv'
  BY <1>1 DEF OwnerInv, IsOwner, Remaining
<1>3. HeldInv'
  BY <1>1 DEF HeldInv, IsOwner, Has, Remaining
<1> QED  BY <1>2, <1>3

(* A device that does not use _priv before and after its step.             *)
LEMMA Idling ==
  ASSUME IInv, NEW d \in Devices,
         \A e \in Devices : e # d => phase'[e] = phase[e] /\ todo'[e] = todo[e],
         ~Owns(phase[d], Range(todo[d])), ~Owns(phase'[d], Range(todo'[d])),
         shared' = shared, allowed' = allowed,
         held' \subseteq held, held \ {"profile"} \subseteq held'
  PROVE  OwnerInv' /\ HeldInv'
<1>1. \A e \in Devices : Owns(phase'[e], Range(todo'[e])) => 
        e # d /\ Owns(phase[e], Range(todo[e])) /\ phase'[e] = phase[e] /\ todo'[e] = todo[e]
  OBVIOUS
<1>2. \A e \in Devices : Owns(phase[e], Range(todo[e])) =>
        Owns(phase'[e], Range(todo'[e]))
  OBVIOUS
<1>3. OwnerInv'
  <2>1. /\ \A e, f \in Devices :
             Owns(phase[e], Range(todo[e])) /\ Owns(phase[f], Range(todo[f])) => e = f
        /\ \A e \in Devices : Owns(phase[e], Range(todo[e])) => shared
        /\ shared /\ allowed => \E e \in Devices : Owns(phase[e], Range(todo[e]))
    BY Before DEF OwnerInv, IsOwner, Remaining
  <2>2. \A e, f \in Devices :
          Owns(phase'[e], Range(todo'[e])) /\ Owns(phase'[f], Range(todo'[f])) => e = f
    BY <1>1, <2>1
  <2>3. \A e \in Devices : Owns(phase'[e], Range(todo'[e])) => shared'
    BY <1>1, <2>1
  <2>4. shared' /\ allowed' => \E e \in Devices : Owns(phase'[e], Range(todo'[e]))
    BY <1>2, <2>1
  <2> QED  BY <2>2, <2>3, <2>4 DEF OwnerInv, IsOwner, Remaining
<1>4. HeldInv'
  <2>1. /\ held \subseteq Controlled \cup {"profile", "leds"}
        /\ held \subseteq {"profile"} \/ \E e \in Devices : Owns(phase[e], Range(todo[e]))
    BY Before DEF HeldInv, IsOwner, Remaining
  <2>2. held' \subseteq Controlled \cup {"profile", "leds"}
    BY <2>1
  <2>3. held' \subseteq {"profile"} \/ \E e \in Devices : Owns(phase'[e], Range(todo'[e]))
    BY <1>2, <2>1
  <2>4. ASSUME NEW e \in Devices, Owns(phase'[e], Range(todo'[e]))
        PROVE  /\ \A step \in Controlled :
                    step \in held' <=> HasStep(phase'[e], Range(todo'[e]), step)
               /\ "leds" \in held' => HasStep(phase'[e], Range(todo'[e]), "leds")
    <3>1. Owns(phase[e], Range(todo[e])) /\ phase'[e] = phase[e] /\ todo'[e] = todo[e]
      BY <1>1, <2>4
    <3>2. /\ \A step \in Controlled : step \in held <=> HasStep(phase[e], Range(todo[e]), step)
          /\ "leds" \in held => HasStep(phase[e], Range(todo[e]), "leds")
      BY <3>1, Owning
    <3>3. \A step \in Controlled : step # "profile"
      BY DEF Controlled
    <3> QED  BY <3>1, <3>2, <3>3
  <2> QED  BY <2>2, <2>3, <2>4 DEF HeldInv, IsOwner, Has, Remaining
<1> QED  BY <1>3, <1>4

(* The types after a step.                                                 *)
LEMMA TypesNext ==
  ASSUME IInv, StepsInv', phase' \in [Devices -> Phases],
         held' \subseteq held \cup Controlled \cup {"profile", "leds"}
  PROVE  /\ phase' \in [Devices -> {"unbound", "probe", "fail", "bound", "remove"}]
         /\ \A d \in Devices : Range(todo'[d]) \subseteq Range(ProbeSteps) \cup {"toggle"}
         /\ held' \subseteq Range(ProbeSteps)
<1>1. ASSUME NEW d \in Devices
      PROVE  Range(todo'[d]) \subseteq Range(ProbeSteps) \cup {"toggle"}
  <2>1. phase'[d] \in Phases /\ StepsOf(phase'[d], todo'[d])
    BY DEF StepsInv
  <2>2. Range(todo'[d]) \subseteq StepNames
    BY <2>1, StepsLeft
  <2> QED  BY <2>2, StepNamesAre
<1>2. held \subseteq Range(ProbeSteps)
  BY DEF IInv, TypeOK
<1>3. Controlled \cup {"profile", "leds"} \subseteq Range(ProbeSteps)
  BY StepNamesAre DEF Controlled, StepNames
<1>4. held' \subseteq Range(ProbeSteps)
  BY <1>2, <1>3
<1>5. phase' \in [Devices -> {"unbound", "probe", "fail", "bound", "remove"}]
  BY DEF Phases
<1> QED  BY <1>1, <1>4, <1>5

------------------------------------------------------------------------------
(* Each action of legion_add() and legion_remove() keeps the invariant.    *)

(* Done(d) of a step that sets nothing up and takes nothing back.          *)
LEMMA DoneQuiet ==
  ASSUME IInv, NEW d \in Devices, phase[d] \in {"probe", "fail", "remove"},
         todo[d] # <<>>, Done(d), Left(d) \in {"list", "acpi", "ecid", "toggle"},
         UNCHANGED <<allowed, devm, platformDevice, shared, held, groupOn, profiles,
                     inside, event, boundVars, overwritten>>
  PROVE  IInv'
<1>1. /\ StepsInv' /\ phase' = [phase EXCEPT ![d] = phase[d]]
      /\ phase'[d] = phase[d] /\ Range(todo'[d]) = Range(todo[d]) \ {Left(d)}
      /\ \A e \in Devices : e # d => phase'[e] = phase[e] /\ todo'[e] = todo[e]
  BY DoneIs
<1>2. \A step \in Controlled \cup {"profile", "leds", "shared"} :
        step \in Range(todo'[d]) <=> step \in Range(todo[d])
  BY <1>1 DEF Controlled
<1>3. Owns(phase'[d], Range(todo'[d])) <=> Owns(phase[d], Range(todo[d]))
  BY <1>1, <1>2 DEF Owns
<1>4. \A step \in Controlled \cup {"profile", "leds"} :
        HasStep(phase'[d], Range(todo'[d]), step) <=>
          HasStep(phase[d], Range(todo[d]), step)
  BY <1>1, <1>2 DEF HasStep
<1>5. NotedInv' /\ OwnerInv' /\ HeldInv' /\ UseInv' /\ AloneInv'
  BY <1>1, <1>3, <1>4, Quiet
<1>6. TypeOK'
  <2>1. phase' \in [Devices -> Phases] /\ held' = held
    BY <1>1, Before
  <2> QED  BY <1>1, <2>1, TypesNext DEF TypeOK, IInv, boundVars
<1> QED  BY <1>1, <1>5, <1>6 DEF IInv

(* goto err_... of an owner, with what it has set up so far still to be    *)
(* taken back, and of a device that is refused by legion_shared_init().    *)
LEMMA GiveUpQuiet ==
  ASSUME IInv, NEW d \in Devices, phase[d] = "probe", GiveUp(d),
         Left(d) \notin {"list", "debugfs", "leds"},
         failures' \in 0 .. MaxFailures, probes' = probes,
         UNCHANGED <<allowed, devm, platformDevice, shared, held, groupOn, profiles,
                     inside, event, overwritten>>
  PROVE  IInv'
<1>1. StepsOf("probe", todo[d])
  BY Before
<1>2. /\ phase' = [phase EXCEPT ![d] = "fail"]
      /\ phase'[d] = "fail" /\ todo'[d] = Undo(Left(d)) /\ DOMAIN todo' = Devices
      /\ \A e \in Devices : e # d => phase'[e] = phase[e] /\ todo'[e] = todo[e]
  BY Before, Change DEF GiveUp
<1>3. /\ StepsOf("fail", todo'[d])
      /\ Left(d) = "shared" =>
           /\ todo'[d] = <<>>
           /\ \A step \in Controlled \cup {"profile", "leds"} : step \in Range(todo[d])
      /\ Left(d) # "shared" =>
           /\ "shared" \in Range(todo'[d]) /\ "shared" \notin Range(todo[d])
           /\ \A step \in Controlled \cup {"profile"} :
                step \in Range(todo'[d]) <=> step \notin Range(todo[d])
  BY <1>1, <1>2, UndoTakesBack DEF Left
<1>4. StepsInv'
  BY <1>2, <1>3, Before DEF StepsInv
<1>5. /\ ~HasStep("fail", Range(todo'[d]), "leds")
      /\ ~HasStep("probe", Range(todo[d]), "leds")
      /\ Owns("probe", Range(todo[d])) <=> Left(d) # "shared"
  BY <1>1, <1>3, HasInOrder DEF Left, Phases
<1>6. Owns(phase'[d], Range(todo'[d])) <=> Owns(phase[d], Range(todo[d]))
  BY <1>2, <1>3, <1>5, EmptyRange DEF Owns
<1>7. \A step \in Controlled \cup {"profile", "leds"} :
        HasStep(phase'[d], Range(todo'[d]), step) <=>
          HasStep(phase[d], Range(todo[d]), step)
  BY <1>2, <1>3, <1>5, EmptyRange DEF HasStep
<1>8. NotedInv' /\ OwnerInv' /\ HeldInv' /\ UseInv' /\ AloneInv'
  BY <1>2, <1>6, <1>7, Quiet
<1>9. TypeOK'
  <2>1. phase' \in [Devices -> Phases] /\ held' = held
    BY <1>2, Before DEF Phases
  <2> QED  BY <1>4, <2>1, TypesNext DEF TypeOK, IInv
<1> QED  BY <1>4, <1>8, <1>9 DEF IInv

LEMMA CheckKeeps ==
  ASSUME IInv, NEW d \in Devices, Check(d)
  PROVE  IInv'
BY DoneQuiet DEF Check

LEMMA ToggleKeeps ==
  ASSUME IInv, NEW d \in Devices, Toggle(d)
  PROVE  IInv'
BY DoneQuiet DEF Toggle, Leaving

LEMMA ProbeFailsKeeps ==
  ASSUME IInv, NEW d \in Devices, ProbeFails(d)
  PROVE  IInv'
<1>1. failures' \in 0 .. MaxFailures
  <2>1. failures \in 0 .. MaxFailures /\ failures < MaxFailures /\ failures' = failures + 1
    BY DEF IInv, TypeOK, ProbeFails
  <2> QED  BY <2>1, BoundsAssumption
<1> QED  BY <1>1, GiveUpQuiet DEF ProbeFails

LEMMA RemoveKeeps ==
  ASSUME IInv, NEW d \in Devices, Remove(d)
  PROVE  IInv'
<1>1. /\ phase' = [phase EXCEPT ![d] = "remove"]
      /\ phase'[d] = "remove" /\ todo'[d] = RemoveSteps /\ DOMAIN todo' = Devices
      /\ \A e \in Devices : e # d => phase'[e] = phase[e] /\ todo'[e] = todo[e]
  BY Before, Change DEF Remove
<1>2. StepsInv'
  BY <1>1, Before, FirstSteps DEF StepsInv
<1>3. phase[d] = "bound"
  BY DEF Remove
<1>4. Owns(phase'[d], Range(todo'[d])) <=> Owns(phase[d], Range(todo[d]))
  BY <1>1, <1>3, FirstSteps DEF Owns
<1>5. \A step \in Controlled \cup {"profile", "leds"} :
        HasStep(phase'[d], Range(todo'[d]), step) <=>
          HasStep(phase[d], Range(todo[d]), step)
  BY <1>1, <1>3, FirstSteps DEF HasStep
<1>6. NotedInv' /\ OwnerInv' /\ HeldInv' /\ UseInv' /\ AloneInv'
  BY <1>1, <1>3, <1>4, <1>5, Quiet DEF Remove
<1>7. TypeOK'
  <2>1. phase' \in [Devices -> Phases] /\ held' = held
    BY <1>1, Before DEF Phases, Remove
  <2> QED  BY <1>2, <2>1, TypesNext DEF TypeOK, IInv, Remove, boundVars
<1> QED  BY <1>2, <1>6, <1>7 DEF IInv

(* The only owner gives _priv up.                                          *)
LEMMA NobodyNext ==
  ASSUME \A e \in Devices : ~Owns(phase'[e], Range(todo'[e])),
         ~(shared' /\ allowed'), held' \subseteq {"profile"}
  PROVE  OwnerInv' /\ HeldInv'
BY DEF OwnerInv, HeldInv, IsOwner, Remaining

LEMMA ProbeKeeps ==
  ASSUME IInv, NEW d \in Devices, Probe(d)
  PROVE  IInv'
<1>1. /\ phase' = [phase EXCEPT ![d] = "probe"]
      /\ phase'[d] = "probe" /\ todo'[d] = ProbeSteps /\ DOMAIN todo' = Devices
      /\ \A e \in Devices : e # d => phase'[e] = phase[e] /\ todo'[e] = todo[e]
  BY Before, Change DEF Probe
<1>2. /\ phase[d] = "unbound" /\ platformDevice' = d
      /\ UNCHANGED <<allowed, devm, shared, held, groupOn, profiles, inside, event,
                     failures>>
      /\ overwritten' = (overwritten \/ \E e \in Devices \ {d} : phase[e] # "unbound")
      /\ probes < MaxProbes /\ probes' = probes + 1
  BY DEF Probe
<1>3. StepsInv'
  BY <1>1, Before, FirstSteps DEF StepsInv
<1>4. ~Owns(phase[d], Range(todo[d])) /\ ~Owns(phase'[d], Range(todo'[d]))
  BY <1>1, <1>2, FirstSteps DEF Owns
<1>5. OwnerInv' /\ HeldInv'
  BY <1>1, <1>2, <1>4, Idling
<1>6. NotedInv'
  BY <1>2 DEF NotedInv
<1>7. UseInv'
  BY <1>2, Before DEF UseInv
<1>8. AloneInv'
  <2> SUFFICES ASSUME ~overwritten'
               PROVE  AloneInv'
    BY DEF AloneInv
  <2>1. ~overwritten /\ \A e \in Devices : e # d => phase[e] = "unbound"
    BY <1>2
  <2>2. groupOn = {} /\ profiles = {} /\ "sysfs" \notin held /\ "profile" \notin held
    BY <1>2, <2>1, Alone
  <2>3. ~HasStep(phase'[d], Range(todo'[d]), "profile")
    BY <1>1, FirstSteps DEF HasStep
  <2>4. \A e \in Devices : e # d => ~HasStep(phase'[e], Range(todo'[e]), "profile")
    BY <1>1, <2>1 DEF HasStep
  <2> QED  BY <1>1, <1>2, <2>1, <2>2, <2>3, <2>4, AloneNext
<1>9. TypeOK'
  <2>1. phase' \in [Devices -> Phases] /\ held' = held
    BY <1>1, <1>2, Before DEF Phases
  <2>2. probes' \in 0 .. MaxProbes
    BY <1>2, BoundsAssumption DEF TypeOK, IInv
  <2>3. overwritten' \in BOOLEAN
    BY <1>2
  <2> QED  BY <1>2, <1>3, <2>1, <2>2, <2>3, TypesNext DEF TypeOK, IInv
<1> QED  BY <1>3, <1>5, <1>6, <1>7, <1>8, <1>9 DEF IInv

LEMMA ShareInitKeeps ==
  ASSUME IInv, NEW d \in Devices, ShareInit(d)
  PROVE  IInv'
<1>1. CASE shared
  <2>1. failures' \in 0 .. MaxFailures
    BY DEF IInv, TypeOK, ShareInit, boundVars
  <2> QED  BY <1>1, <2>1, GiveUpQuiet DEF ShareInit, boundVars
<1>2. CASE ~shared
  <2>1. /\ phase[d] = "probe" /\ Left(d) = "shared" /\ shared' = TRUE
        /\ UNCHANGED <<allowed, devm, platformDevice, held, groupOn, profiles, inside, event,
                       probes, failures, overwritten>>
    BY <1>2 DEF ShareInit, boundVars
  <2>2. /\ StepsInv' /\ phase' = [phase EXCEPT ![d] = phase[d]]
        /\ phase'[d] = "probe" /\ Range(todo'[d]) = Range(todo[d]) \ {"shared"}
        /\ "shared" \in Range(todo[d])
        /\ \A e \in Devices : e # d => phase'[e] = phase[e] /\ todo'[e] = todo[e]
    BY <1>2, <2>1, DoneIs DEF ShareInit
  <2>3. \A e \in Devices : ~Owns(phase[e], Range(todo[e]))
    BY <1>2, Owning
  <2>4. Owns(phase'[d], Range(todo'[d])) /\ ~Owns(phase[d], Range(todo[d]))
    BY <2>1, <2>2 DEF Owns
  <2>5. \A step \in Controlled \cup {"profile", "leds"} :
          HasStep(phase'[d], Range(todo'[d]), step) <=> HasStep(phase[d], Range(todo[d]), step)
    BY <2>1, <2>2 DEF HasStep, Controlled
  <2>6. \A step \in Controlled \cup {"profile", "leds"} :
          ~HasStep(phase[d], Range(todo[d]), step)
    BY <2>1, <2>4, Before, HasInOrder
  <2>7. held' \subseteq {"profile"}
    BY <2>1, <2>3, Before DEF HeldInv, IsOwner, Remaining
  <2>8. OwnerInv' /\ HeldInv'
    <3>1. \A step \in Controlled :
            step \notin held' /\ ~HasStep(phase'[d], Range(todo'[d]), step)
      BY <2>5, <2>6, <2>7 DEF Controlled
    <3>2. \A e \in Devices : e # d => ~Owns(phase'[e], Range(todo'[e]))
      BY <2>2, <2>3
    <3>3. held' \subseteq Controlled \cup {"profile", "leds"} /\ "leds" \notin held'
      BY <2>7
    <3> QED  BY <2>1, <2>4, <3>1, <3>2, <3>3, OwningNext
  <2>9. NotedInv' /\ UseInv'
    BY <2>1, <2>2, Before DEF NotedInv, UseInv
  <2>10. AloneInv'
    <3> SUFFICES ASSUME ~overwritten'
                 PROVE  AloneInv'
      BY DEF AloneInv
    <3>1. \A e \in Devices : HasStep(phase'[e], Range(todo'[e]), "profile") <=>
                               HasStep(phase[e], Range(todo[e]), "profile")
      BY <2>2, <2>5
    <3>2. \A e \in Devices : phase'[e] = phase[e]
      BY <2>1, <2>2
    <3> QED  BY <2>1, <3>1, <3>2, Alone, AloneNext
  <2>11. TypeOK'
    <3>1. phase' \in [Devices -> Phases]
      BY <2>2, Before
    <3> QED  BY <2>1, <2>2, <3>1, TypesNext DEF TypeOK, IInv
  <2> QED  BY <2>2, <2>8, <2>9, <2>10, <2>11 DEF IInv
<1> QED  BY <1>1, <1>2

LEMMA CheckListKeeps ==
  ASSUME IInv, NEW d \in Devices, CheckList(d)
  PROVE  IInv'
<1>1. CASE allowed
  BY <1>1, DoneQuiet DEF CheckList
<1>2. CASE ~allowed
  <2>1. /\ phase[d] = "probe" /\ Left(d) = "list" /\ GiveUp(d)
        /\ UNCHANGED <<allowed, devm, platformDevice, shared, held, groupOn, profiles, inside,
                       event, probes, failures, overwritten>>
    BY <1>2 DEF CheckList, boundVars
  <2>2. StepsOf("probe", todo[d])
    BY <2>1, Before
  <2>3. /\ phase' = [phase EXCEPT ![d] = "fail"]
        /\ phase'[d] = "fail" /\ todo'[d] = Undo(Left(d)) /\ DOMAIN todo' = Devices
        /\ \A e \in Devices : e # d => phase'[e] = phase[e] /\ todo'[e] = todo[e]
    BY <2>1, Before, Change DEF GiveUp
  <2>4. /\ StepsOf("fail", todo'[d]) /\ Range(todo'[d]) = {}
        /\ \A step \in Controlled \cup {"profile", "leds"} : step \in Range(todo[d])
    BY <2>1, <2>2, <2>3, UndoTakesBack, EmptyRange DEF Left
  <2>5. StepsInv'
    BY <2>3, <2>4, Before DEF StepsInv
  <2>6. Owns(phase[d], Range(todo[d]))
    BY <2>1, <2>2, HasInOrder DEF Left, Phases
  <2>7. \A step \in Controlled \cup {"profile", "leds"} :
          ~HasStep(phase[d], Range(todo[d]), step)
    BY <2>1, <2>4 DEF HasStep
  <2>8. held' \subseteq {"profile"}
    BY <2>1, <2>6, <2>7, Owning
  <2>9. \A e \in Devices : ~Owns(phase'[e], Range(todo'[e]))
    <3>1. \A e \in Devices : e # d => ~Owns(phase[e], Range(todo[e]))
      BY <2>6, Owning
    <3>2. ~Owns(phase'[d], Range(todo'[d]))
      BY <2>3, <2>4 DEF Owns
    <3> QED  BY <2>3, <3>1, <3>2
  <2>10. OwnerInv' /\ HeldInv'
    BY <1>2, <2>1, <2>8, <2>9, NobodyNext
  <2>11. NotedInv'
    BY <2>1, <2>3, Before DEF NotedInv
  <2>12. UseInv'
    BY <2>1, Before DEF UseInv
  <2>13. AloneInv'
    <3> SUFFICES ASSUME ~overwritten'
                 PROVE  AloneInv'
      BY DEF AloneInv
    <3>1. ~HasStep(phase'[d], Range(todo'[d]), "profile")
      BY <2>3, <2>4 DEF HasStep
    <3>2. ~HasStep(phase[d], Range(todo[d]), "profile")
      BY <2>7
    <3>3. \A e \in Devices : HasStep(phase'[e], Range(todo'[e]), "profile") <=>
                               HasStep(phase[e], Range(todo[e]), "profile")
      BY <2>3, <3>1, <3>2
    <3>4. \A e \in Devices : (phase'[e] # "unbound" <=> phase[e] # "unbound")
                             /\ (phase'[e] = "probe" => phase[e] = "probe")
      BY <2>1, <2>3
    <3> QED  BY <2>1, <3>3, <3>4, Alone, AloneNext
  <2>14. TypeOK'
    <3>1. phase' \in [Devices -> Phases]
      BY <2>3, Before DEF Phases
    <3> QED  BY <2>1, <2>5, <3>1, TypesNext DEF TypeOK, IInv
  <2> QED  BY <2>5, <2>10, <2>11, <2>12, <2>13, <2>14 DEF IInv
<1> QED  BY <1>1, <1>2

LEMMA AcquireKeeps ==
  ASSUME IInv, NEW d \in Devices, Acquire(d)
  PROVE  IInv'
<1> DEFINE x == Left(d)
<1>1. /\ phase[d] = "probe" /\ held' = held \cup {x}
      /\ x \in {"memoryio", "ecram", "debugfs", "sysfs", "hwmon", "profile", "wmi"}
      /\ groupOn' = IF x = "sysfs" THEN groupOn \cup {platformDevice} ELSE groupOn
      /\ profiles' = IF x = "profile" THEN profiles \cup {platformDevice} ELSE profiles
      /\ UNCHANGED <<allowed, devm, platformDevice, shared, inside, event, probes, failures,
                     overwritten>>
  BY DEF Acquire, boundVars
<1>2. x = Left(d)
  OBVIOUS
<1> HIDE DEF x
<1>3. /\ StepsInv' /\ phase' = [phase EXCEPT ![d] = phase[d]]
      /\ phase'[d] = "probe" /\ Range(todo'[d]) = Range(todo[d]) \ {x}
      /\ \A e \in Devices : e # d => phase'[e] = phase[e] /\ todo'[e] = todo[e]
  BY <1>1, <1>2, DoneIs DEF Acquire
<1>4. Owns(phase[d], Range(todo[d]))
  BY <1>1, <1>2, Before, HasInOrder DEF Left
<1>5. /\ Owns(phase'[d], Range(todo'[d]))
      /\ \A step : HasStep(phase'[d], Range(todo'[d]), step) <=>
                     HasStep(phase[d], Range(todo[d]), step) \/ step = x
  BY <1>1, <1>3, <1>4 DEF Owns, HasStep
<1>6. OwnerInv' /\ HeldInv'
  <2>1. /\ shared
        /\ \A e \in Devices : Owns(phase[e], Range(todo[e])) => e = d
        /\ \A step \in Controlled : step \in held <=> HasStep(phase[d], Range(todo[d]), step)
        /\ "leds" \in held => HasStep(phase[d], Range(todo[d]), "leds")
        /\ held \subseteq Controlled \cup {"profile", "leds"}
    BY <1>4, Owning
  <2>2. \A e \in Devices : e # d => ~Owns(phase'[e], Range(todo'[e]))
    BY <1>3, <2>1
  <2>3. held' \subseteq Controlled \cup {"profile", "leds"}
    BY <1>1, <2>1 DEF Controlled
  <2>4. \A step \in Controlled : step \in held' <=> HasStep(phase'[d], Range(todo'[d]), step)
    BY <1>1, <1>5, <2>1
  <2>5. "leds" \in held' => HasStep(phase'[d], Range(todo'[d]), "leds")
    BY <1>1, <1>5, <2>1
  <2> QED  BY <1>1, <1>5, <2>1, <2>2, <2>3, <2>4, <2>5, OwningNext
<1>7. platformDevice \in Devices
  BY <1>1, Before DEF NotedInv
<1>8. NotedInv' /\ UseInv'
  <2>1. NotedInv'
    BY <1>1, <1>7 DEF NotedInv
  <2>2. held \subseteq held' /\ groupOn \subseteq groupOn' /\ profiles \subseteq profiles'
    BY <1>1
  <2>3. UseInv'
    BY <1>1, <2>2, Before DEF UseInv
  <2> QED  BY <2>1, <2>3
<1>9. AloneInv'
  <2> SUFFICES ASSUME ~overwritten'
               PROVE  AloneInv'
    BY DEF AloneInv
  <2>1. platformDevice = d /\ \A e \in Devices : phase'[e] = phase[e]
    BY <1>1, <1>3, Alone
  <2>2. \A e \in Devices : e # d => phase[e] = "unbound"
    BY <1>1, Alone
  <2>3. \A e \in Devices : e # d => ~HasStep(phase'[e], Range(todo'[e]), "profile")
    BY <2>1, <2>2 DEF HasStep
  <2>4. /\ groupOn' # {} <=> "sysfs" \in held'
        /\ profiles' # {} <=> "profile" \in held'
    BY <1>1, <2>1, Alone
  <2>5. /\ HasStep(phase'[d], Range(todo'[d]), "profile") => "profile" \in held'
        /\ "profile" \in held' => HasStep(phase'[d], Range(todo'[d]), "profile")
    BY <1>1, <1>5, Alone
  <2>6. \A e \in groupOn' \cup profiles' : phase'[e] # "unbound"
    BY <1>1, <2>1, Alone
  <2> QED  BY <1>1, <2>1, <2>2, <2>3, <2>4, <2>5, <2>6, Alone, AloneNext
<1>10. TypeOK'
  <2>1. phase' \in [Devices -> Phases]
    BY <1>3, Before
  <2>2. held' \subseteq held \cup Controlled \cup {"profile", "leds"}
    BY <1>1 DEF Controlled
  <2>3. groupOn' \subseteq Devices /\ profiles' \subseteq Devices
    BY <1>1, <1>7 DEF TypeOK, IInv
  <2> QED  BY <1>1, <1>3, <2>1, <2>2, <2>3, TypesNext DEF TypeOK, IInv
<1> QED  BY <1>3, <1>6, <1>8, <1>9, <1>10 DEF IInv

LEMMA AddLedsKeeps ==
  ASSUME IInv, NEW d \in Devices, AddLeds(d)
  PROVE  IInv'
<1>1. /\ phase[d] = "probe" /\ todo[d] # <<>> /\ Left(d) = "leds"
      /\ held \subseteq held' /\ held' \subseteq held \cup {"leds"}
      /\ UNCHANGED <<allowed, devm, platformDevice, shared, groupOn, profiles, inside, event,
                     probes, failures, overwritten>>
  BY DEF AddLeds, boundVars
<1>2. /\ phase' = [phase EXCEPT ![d] = "bound"]
      /\ phase'[d] = "bound" /\ todo'[d] = <<>> /\ DOMAIN todo' = Devices
      /\ \A e \in Devices : e # d => phase'[e] = phase[e] /\ todo'[e] = todo[e]
  BY Before, Change DEF AddLeds
<1>3. StepsInv'
  BY <1>2, Before, FirstSteps DEF StepsInv
<1>4. Range(todo[d]) = {"leds"}
  BY <1>1, Before, OneStepLess DEF Left
<1>5. /\ Owns(phase[d], Range(todo[d])) /\ Owns(phase'[d], Range(todo'[d]))
      /\ \A step \in Controlled \cup {"profile"} : HasStep(phase[d], Range(todo[d]), step)
      /\ \A step : HasStep(phase'[d], Range(todo'[d]), step)
  BY <1>1, <1>2, <1>4 DEF Owns, HasStep, Controlled
<1>6. OwnerInv' /\ HeldInv'
  <2>1. /\ shared
        /\ \A e \in Devices : Owns(phase[e], Range(todo[e])) => e = d
        /\ \A step \in Controlled : step \in held <=> HasStep(phase[d], Range(todo[d]), step)
        /\ held \subseteq Controlled \cup {"profile", "leds"}
    BY <1>5, Owning
  <2>2. \A e \in Devices : e # d => ~Owns(phase'[e], Range(todo'[e]))
    BY <1>2, <2>1
  <2>3. held' \subseteq Controlled \cup {"profile", "leds"}
    BY <1>1, <2>1
  <2>4. \A step \in Controlled : step \in held' <=> HasStep(phase'[d], Range(todo'[d]), step)
    BY <1>1, <1>5, <2>1
  <2> QED  BY <1>1, <1>5, <2>1, <2>2, <2>3, <2>4, OwningNext
<1>7. NotedInv' /\ UseInv'
  BY <1>1, <1>2, Before DEF NotedInv, UseInv
<1>8. AloneInv'
  <2> SUFFICES ASSUME ~overwritten'
               PROVE  AloneInv'
    BY DEF AloneInv
  <2>1. platformDevice = d /\ \A e \in Devices : e # d => phase'[e] = "unbound"
    BY <1>1, <1>2, Alone
  <2>2. \A e \in Devices : e # d => ~HasStep(phase'[e], Range(todo'[e]), "profile")
    BY <2>1 DEF HasStep
  <2>3. /\ groupOn' # {} <=> "sysfs" \in held'
        /\ profiles' # {} <=> "profile" \in held'
    BY <1>1, Alone
  <2>4. "profile" \in held'
    BY <1>1, <1>5, Alone
  <2>5. \A e \in groupOn' \cup profiles' : phase'[e] # "unbound"
    BY <1>1, <1>2, <2>1, Alone
  <2> QED  BY <1>1, <1>2, <1>5, <2>1, <2>2, <2>3, <2>4, <2>5, AloneNext
<1>9. TypeOK'
  <2>1. phase' \in [Devices -> Phases]
    BY <1>2, Before DEF Phases
  <2>2. held' \subseteq held \cup Controlled \cup {"profile", "leds"}
    BY <1>1
  <2> QED  BY <1>1, <1>3, <2>1, <2>2, TypesNext DEF TypeOK, IInv
<1> QED  BY <1>3, <1>6, <1>7, <1>8, <1>9 DEF IInv

(* A device that leaves is the owner until it gives legion_shared back.    *)
LEMMA LeavingOwns ==
  ASSUME IInv, NEW d \in Devices, Leaving(d)
  PROVE  Owns(phase[d], Range(todo[d]))
<1>1. StepsOf(phase[d], todo[d]) /\ phase[d] \in {"fail", "remove"} /\ todo[d] # <<>>
  BY Before DEF Leaving
<1>2. Left(d) \in Range(todo[d])
  BY <1>1, OneStepLess DEF Left
<1>3. "shared" \in Range(todo[d])
  BY <1>1, <1>2, HasInOrder DEF Phases
<1> QED  BY <1>1, <1>3 DEF Owns

(* What all releases have in common.                                       *)
LEMMA OneReleased ==
  ASSUME IInv, NEW d \in Devices, Leaving(d), Done(d), NEW x, x = Left(d),
         x \in Controlled \cup {"profile", "leds"},
         held' = held \ {x} \/ (x = "profile" /\ held' = held),
         UNCHANGED <<allowed, platformDevice, shared>>
  PROVE  /\ StepsInv' /\ NotedInv' /\ OwnerInv' /\ HeldInv'
         /\ phase' \in [Devices -> Phases]
         /\ \A e \in Devices : phase'[e] = phase[e]
         /\ \A e \in Devices : e # d => todo'[e] = todo[e]
         /\ HasStep(phase[d], Range(todo[d]), x)
         /\ \A step : HasStep(phase'[d], Range(todo'[d]), step) <=>
                        HasStep(phase[d], Range(todo[d]), step) /\ step # x
         /\ held' \subseteq held \cup Controlled \cup {"profile", "leds"}
<1>1. phase[d] \in {"fail", "remove"} /\ todo[d] # <<>>
  BY DEF Leaving
<1>2. /\ StepsInv' /\ phase' = [phase EXCEPT ![d] = phase[d]]
      /\ phase'[d] = phase[d] /\ Range(todo'[d]) = Range(todo[d]) \ {x}
      /\ x \in Range(todo[d])
      /\ \A e \in Devices : e # d => phase'[e] = phase[e] /\ todo'[e] = todo[e]
  BY <1>1, DoneIs
<1>3. Owns(phase[d], Range(todo[d]))
  BY LeavingOwns
<1>4. /\ Owns(phase'[d], Range(todo'[d]))
      /\ HasStep(phase[d], Range(todo[d]), x)
      /\ \A step : HasStep(phase'[d], Range(todo'[d]), step) <=>
                     HasStep(phase[d], Range(todo[d]), step) /\ step # x
  BY <1>1, <1>2, <1>3 DEF Owns, HasStep, Controlled
<1>5. OwnerInv' /\ HeldInv'
  <2>1. /\ shared
        /\ \A e \in Devices : Owns(phase[e], Range(todo[e])) => e = d
        /\ \A step \in Controlled : step \in held <=> HasStep(phase[d], Range(todo[d]), step)
        /\ "leds" \in held => HasStep(phase[d], Range(todo[d]), "leds")
        /\ held \subseteq Controlled \cup {"profile", "leds"}
    BY <1>3, Owning
  <2>2. \A e \in Devices : e # d => ~Owns(phase'[e], Range(todo'[e]))
    BY <1>2, <2>1
  <2>3. \A step \in Controlled \cup {"leds"} : step \in held' <=> step \in held /\ step # x
    BY DEF Controlled
  <2>4. held' \subseteq Controlled \cup {"profile", "leds"} /\ shared'
    BY <2>1
  <2>5. \A step \in Controlled : step \in held' <=> HasStep(phase'[d], Range(todo'[d]), step)
    BY <1>4, <2>1, <2>3
  <2>6. "leds" \in held' => HasStep(phase'[d], Range(todo'[d]), "leds")
    BY <1>4, <2>1, <2>3
  <2> QED  BY <1>4, <2>2, <2>4, <2>5, <2>6, OwningNext
<1>6. phase' \in [Devices -> Phases] /\ \A e \in Devices : phase'[e] = phase[e]
  BY <1>2, Before
<1>7. NotedInv'
  BY <1>6, Before DEF NotedInv
<1> QED  BY <1>2, <1>4, <1>5, <1>6, <1>7

LEMMA ReleaseKeeps ==
  ASSUME IInv, NEW d \in Devices, Release(d)
  PROVE  IInv'
<1> DEFINE x == Left(d)
<1>1. /\ Leaving(d) /\ Done(d) /\ CanRelease(x) /\ held' = held \ {x}
      /\ x \in {"leds", "wmi", "hwmon", "debugfs", "ecram", "memoryio"}
      /\ UNCHANGED <<allowed, devm, platformDevice, shared, groupOn, profiles, inside, event,
                     probes, failures, overwritten>>
  BY DEF Release, boundVars
<1>2. x = Left(d)
  OBVIOUS
<1> HIDE DEF x
<1>3. x \in Controlled \cup {"profile", "leds"}
  BY <1>1 DEF Controlled
<1>4. /\ StepsInv' /\ NotedInv' /\ OwnerInv' /\ HeldInv'
      /\ phase' \in [Devices -> Phases]
      /\ \A e \in Devices : phase'[e] = phase[e]
      /\ \A e \in Devices : e # d => todo'[e] = todo[e]
      /\ \A step : HasStep(phase'[d], Range(todo'[d]), step) <=>
                     HasStep(phase[d], Range(todo[d]), step) /\ step # x
      /\ held' \subseteq held \cup Controlled \cup {"profile", "leds"}
  BY <1>1, <1>2, <1>3, OneReleased
<1>5. UseInv'
  BY <1>1, Before DEF UseInv, CanRelease, Files
<1>6. AloneInv'
  <2> SUFFICES ASSUME ~overwritten'
               PROVE  AloneInv'
    BY DEF AloneInv
  <2>1. \A e \in Devices : HasStep(phase'[e], Range(todo'[e]), "profile") <=>
                             HasStep(phase[e], Range(todo[e]), "profile")
    BY <1>1, <1>4
  <2>2. ("profile" \in held' <=> "profile" \in held) /\ ("sysfs" \in held' <=> "sysfs" \in held)
    BY <1>1
  <2> QED  BY <1>1, <1>4, <2>1, <2>2, Alone, AloneNext
<1>7. TypeOK'
  BY <1>1, <1>4, TypesNext DEF TypeOK, IInv
<1> QED  BY <1>4, <1>5, <1>6, <1>7 DEF IInv

LEMMA ReleaseSysfsKeeps ==
  ASSUME IInv, NEW d \in Devices, ReleaseSysfs(d)
  PROVE  IInv'
<1>1. /\ Leaving(d) /\ Done(d) /\ Left(d) = "sysfs"
      /\ platformDevice \in groupOn => ~inside["sysfs"]
      /\ groupOn' = groupOn \ {platformDevice} /\ held' = held \ {"sysfs"}
      /\ UNCHANGED <<allowed, devm, platformDevice, shared, profiles, inside, event,
                     probes, failures, overwritten>>
  BY DEF ReleaseSysfs, CanRelease, Files, boundVars
<1>2. "sysfs" \in Controlled \cup {"profile", "leds"}
  BY DEF Controlled
<1>3. /\ StepsInv' /\ NotedInv' /\ OwnerInv' /\ HeldInv'
      /\ phase' \in [Devices -> Phases]
      /\ \A e \in Devices : phase'[e] = phase[e]
      /\ \A e \in Devices : e # d => todo'[e] = todo[e]
      /\ \A step : HasStep(phase'[d], Range(todo'[d]), step) <=>
                     HasStep(phase[d], Range(todo[d]), step) /\ step # "sysfs"
      /\ held' \subseteq held \cup Controlled \cup {"profile", "leds"}
  BY <1>1, <1>2, OneReleased
<1>4. UseInv'
  <2>1. groupOn' = groupOn \/ ~inside["sysfs"]
    BY <1>1
  <2> QED  BY <1>1, <2>1, Before DEF UseInv
<1>5. AloneInv'
  <2> SUFFICES ASSUME ~overwritten'
               PROVE  AloneInv'
    BY DEF AloneInv
  <2>1. \A e \in Devices : HasStep(phase'[e], Range(todo'[e]), "profile") <=>
                             HasStep(phase[e], Range(todo[e]), "profile")
    BY <1>1, <1>3
  <2>2. ("profile" \in held' <=> "profile" \in held) /\ "sysfs" \notin held'
    BY <1>1
  <2>3. groupOn' = {}
    <3>1. \A e \in groupOn : e = platformDevice
      BY <1>1, Alone
    <3> QED  BY <1>1, <3>1
  <2> QED  BY <1>1, <1>3, <2>1, <2>2, <2>3, Alone, AloneNext
<1>6. TypeOK'
  <2>1. groupOn' \subseteq Devices
    BY <1>1 DEF TypeOK, IInv
  <2> QED  BY <1>1, <1>3, <2>1, TypesNext DEF TypeOK, IInv
<1> QED  BY <1>3, <1>4, <1>5, <1>6 DEF IInv

LEMMA ReleaseProfileKeeps ==
  ASSUME IInv, NEW d \in Devices, ReleaseProfile(d)
  PROVE  IInv'
<1>1. /\ Leaving(d) /\ Done(d) /\ Left(d) = "profile"
      /\ \/ devm /\ held' = held /\ profiles' = profiles
         \/ ~devm /\ ~inside["profile"] /\ held' = held \ {"profile"} /\ profiles' = {}
      /\ UNCHANGED <<allowed, devm, platformDevice, shared, groupOn, inside, event,
                     probes, failures, overwritten>>
  BY DEF ReleaseProfile, CanRelease, Files, boundVars
<1>2. /\ StepsInv' /\ NotedInv' /\ OwnerInv' /\ HeldInv'
      /\ phase' \in [Devices -> Phases]
      /\ \A e \in Devices : phase'[e] = phase[e]
      /\ \A e \in Devices : e # d => todo'[e] = todo[e]
      /\ \A step : HasStep(phase'[d], Range(todo'[d]), step) <=>
                     HasStep(phase[d], Range(todo[d]), step) /\ step # "profile"
      /\ held' \subseteq held \cup Controlled \cup {"profile", "leds"}
  <2>1. /\ "profile" \in Controlled \cup {"profile", "leds"}
        /\ held' = held \ {"profile"} \/ held' = held
    BY <1>1
  <2> QED  BY <1>1, <2>1, OneReleased
<1>3. UseInv'
  <2>1. \A step : step # "profile" => (step \in held' <=> step \in held)
    BY <1>1
  <2>2. profiles' = profiles \/ ~inside["profile"]
    BY <1>1
  <2> QED  BY <1>1, <2>1, <2>2, Before DEF UseInv
<1>4. AloneInv'
  <2> SUFFICES ASSUME ~overwritten'
               PROVE  AloneInv'
    BY DEF AloneInv
  <2>1. phase[d] \in {"fail", "remove"}
    BY <1>1 DEF Leaving
  <2>2. \A e \in Devices : e # d => phase[e] = "unbound"
    BY <1>1, <2>1, Alone
  <2>3. \A e \in Devices : ~HasStep(phase'[e], Range(todo'[e]), "profile")
    BY <1>2, <2>2 DEF HasStep
  <2>4. \A e \in Devices : "profile" \in held' => devm' /\ phase'[d] # "probe"
    BY <1>1, <1>2, <2>1
  <2>5. /\ groupOn' # {} <=> "sysfs" \in held'
        /\ profiles' # {} <=> "profile" \in held'
    BY <1>1, Alone
  <2>6. \A e \in groupOn' \cup profiles' : phase'[e] # "unbound"
    BY <1>1, <1>2, Alone
  <2>7. \A e \in Devices : "profile" \in held' /\ phase'[e] # "unbound" =>
                              devm' /\ phase'[e] # "probe"
    BY <1>2, <2>2, <2>4
  <2> QED  BY <1>1, <1>2, <2>3, <2>5, <2>6, <2>7, Alone, AloneNext
<1>5. TypeOK'
  <2>1. profiles' \subseteq Devices
    BY <1>1 DEF TypeOK, IInv
  <2> QED  BY <1>1, <1>2, <2>1, TypesNext DEF TypeOK, IInv
<1> QED  BY <1>2, <1>3, <1>4, <1>5 DEF IInv

LEMMA ShareExitKeeps ==
  ASSUME IInv, NEW d \in Devices, ShareExit(d)
  PROVE  IInv'
<1>1. /\ Leaving(d) /\ Done(d) /\ Left(d) = "shared" /\ shared' = FALSE
      /\ phase[d] \in {"fail", "remove"} /\ todo[d] # <<>>
      /\ UNCHANGED <<allowed, devm, platformDevice, held, groupOn, profiles, inside, event,
                     probes, failures, overwritten>>
  BY DEF ShareExit, Leaving, boundVars
<1>2. /\ StepsInv' /\ phase' = [phase EXCEPT ![d] = phase[d]]
      /\ phase'[d] = phase[d] /\ Range(todo'[d]) = Range(todo[d]) \ {"shared"}
      /\ \A e \in Devices : e # d => phase'[e] = phase[e] /\ todo'[e] = todo[e]
  BY <1>1, DoneIs
<1>3. Range(todo[d]) = {"shared"} /\ Range(todo'[d]) = {}
  BY <1>1, <1>2, Before, OneStepLess DEF Left
<1>4. \A step \in Controlled \cup {"profile", "leds"} :
        ~HasStep(phase[d], Range(todo[d]), step) /\ ~HasStep(phase'[d], Range(todo'[d]), step)
  BY <1>1, <1>2, <1>3 DEF HasStep, Controlled
<1>5. Owns(phase[d], Range(todo[d])) /\ ~Owns(phase'[d], Range(todo'[d]))
  BY <1>1, <1>2, <1>3 DEF Owns
<1>6. OwnerInv' /\ HeldInv'
  <2>1. \A e \in Devices : ~Owns(phase'[e], Range(todo'[e]))
    BY <1>2, <1>5, Owning
  <2>2. held' \subseteq {"profile"}
    BY <1>1, <1>4, <1>5, Owning
  <2> QED  BY <1>1, <2>1, <2>2, NobodyNext
<1>7. phase' \in [Devices -> Phases] /\ \A e \in Devices : phase'[e] = phase[e]
  BY <1>2, Before
<1>8. NotedInv' /\ UseInv'
  BY <1>1, <1>7, Before DEF NotedInv, UseInv
<1>9. AloneInv'
  <2> SUFFICES ASSUME ~overwritten'
               PROVE  AloneInv'
    BY DEF AloneInv
  <2>1. \A e \in Devices : HasStep(phase'[e], Range(todo'[e]), "profile") <=>
                             HasStep(phase[e], Range(todo[e]), "profile")
    BY <1>2, <1>4
  <2> QED  BY <1>1, <1>7, <2>1, Alone, AloneNext
<1>10. TypeOK'
  BY <1>1, <1>2, <1>7, TypesNext DEF TypeOK, IInv
<1> QED  BY <1>2, <1>6, <1>8, <1>9, <1>10 DEF IInv

LEMMA UnbindKeeps ==
  ASSUME IInv, NEW d \in Devices, Unbind(d)
  PROVE  IInv'
<1>1. /\ phase[d] \in {"fail", "remove"} /\ todo[d] = <<>>
      /\ \/ /\ devm /\ d \in profiles /\ ~inside["profile"]
            /\ profiles' = profiles \ {d} /\ held' = held \ {"profile"}
         \/ ~(devm /\ d \in profiles) /\ profiles' = profiles /\ held' = held
      /\ phase' = [phase EXCEPT ![d] = "unbound"]
      /\ UNCHANGED <<allowed, devm, todo, platformDevice, shared, groupOn, inside, event,
                     probes, failures, overwritten>>
  BY DEF Unbind, CanRelease, Files, boundVars
<1>2. /\ phase' \in [Devices -> Phases] /\ phase'[d] = "unbound"
      /\ \A e \in Devices : e # d => phase'[e] = phase[e] /\ todo'[e] = todo[e]
  BY <1>1, Before DEF Phases
<1>3. StepsInv'
  BY <1>1, <1>2, Before, FirstSteps DEF StepsInv
<1>4. ~Owns(phase[d], Range(todo[d])) /\ ~Owns(phase'[d], Range(todo'[d]))
  BY <1>1, <1>2, EmptyRange DEF Owns
<1>5. \A step : /\ ~HasStep(phase[d], Range(todo[d]), step)
                /\ ~HasStep(phase'[d], Range(todo'[d]), step)
  BY <1>1, <1>2, EmptyRange DEF HasStep
<1>6. held' \subseteq held /\ held \ {"profile"} \subseteq held'
  BY <1>1
<1>7. OwnerInv' /\ HeldInv'
  BY <1>1, <1>2, <1>4, <1>6, Idling
<1>8. NotedInv'
  BY <1>1, <1>2, Before DEF NotedInv
<1>9. UseInv'
  <2>1. profiles' = profiles \/ ~inside["profile"]
    BY <1>1
  <2> QED  BY <1>1, <1>6, <2>1, Before DEF UseInv
<1>10. AloneInv'
  <2> SUFFICES ASSUME ~overwritten'
               PROVE  AloneInv'
    BY DEF AloneInv
  <2>1. \A e \in Devices : e # d => phase[e] = "unbound"
    BY <1>1, Alone
  <2>2. \A e \in Devices : phase'[e] = "unbound"
    BY <1>2, <2>1
  <2>3. held \subseteq {"profile"}
    <3>1. \A e \in Devices : ~Owns(phase[e], Range(todo[e]))
      BY <1>4, <2>1 DEF Owns
    <3> QED  BY <3>1, Before DEF HeldInv, IsOwner, Remaining
  <2>4. groupOn' = {} /\ "sysfs" \notin held'
    BY <1>1, <1>6, <2>3, Alone
  <2>5. \A e \in profiles : e = d
    BY <1>1, <2>1, Alone
  <2>6. "profile" \in held => devm
    BY <1>1, <1>5, Alone
  <2>7. profiles' = {} /\ "profile" \notin held'
    <3>1. CASE devm /\ d \in profiles
      BY <1>1, <2>5, <3>1
    <3>2. CASE ~(devm /\ d \in profiles)
      <4>1. profiles = {}
        BY <1>1, <2>5, <2>6, <3>2, Alone
      <4> QED  BY <1>1, <3>2, <4>1, Alone
    <3> QED  BY <3>1, <3>2
  <2>8. \A e \in Devices : ~HasStep(phase'[e], Range(todo'[e]), "profile")
    BY <2>2 DEF HasStep
  <2> QED  BY <2>2, <2>4, <2>7, <2>8, AloneNext
<1>11. TypeOK'
  <2>1. profiles' \subseteq Devices
    BY <1>1 DEF TypeOK, IInv
  <2>2. held' \subseteq held \cup Controlled \cup {"profile", "leds"}
    BY <1>6
  <2> QED  BY <1>1, <1>2, <1>3, <2>1, <2>2, TypesNext DEF TypeOK, IInv
<1> QED  BY <1>3, <1>7, <1>8, <1>9, <1>10, <1>11 DEF IInv

------------------------------------------------------------------------------
(* Users and events.                                                       *)
LEMMA NothingMoves ==
  ASSUME IInv,
         UNCHANGED <<allowed, devm, phase, todo, platformDevice, shared, held, groupOn,
                     profiles, boundVars, overwritten>>
  PROVE  /\ StepsInv' /\ NotedInv' /\ OwnerInv' /\ HeldInv' /\ AloneInv'
         /\ inside' \in [Files -> BOOLEAN] /\ event' \in {"none", "sleep"} => TypeOK'
<1>1. UNCHANGED <<allowed, devm, phase, todo, platformDevice, shared, held, groupOn,
                  profiles, probes, failures, overwritten>>
  BY DEF boundVars
<1>2. StepsInv' /\ NotedInv'
  BY <1>1, Before DEF StepsInv, NotedInv
<1>3. OwnerInv' /\ HeldInv'
  BY <1>1, Before DEF OwnerInv, HeldInv, IsOwner, Has, Remaining
<1>4. AloneInv'
  BY <1>1, Alone, AloneNext
<1>5. ASSUME inside' \in [Files -> BOOLEAN], event' \in {"none", "sleep"}
      PROVE  TypeOK'
  BY <1>1, <1>5 DEF IInv, TypeOK
<1> QED  BY <1>2, <1>3, <1>4, <1>5

LEMMA EnterKeeps ==
  ASSUME IInv, NEW f \in Files, Enter(f)
  PROVE  IInv'
<1>1. /\ Present(f) /\ inside' = [inside EXCEPT ![f] = TRUE] /\ event' = event
      /\ UNCHANGED <<allowed, devm, phase, todo, platformDevice, shared, held, groupOn,
                     profiles, boundVars, overwritten>>
  BY DEF Enter
<1>2. inside \in [Files -> BOOLEAN] /\ event \in {"none", "sleep"}
  BY DEF IInv, TypeOK
<1>3. inside' \in [Files -> BOOLEAN]
  BY <1>1, <1>2
<1>4. \A g \in Files : inside'[g] => inside[g] \/ g = f
  BY <1>1, <1>2
<1>5. UseInv'
  BY <1>1, <1>4, Before DEF UseInv, Present, Files
<1> QED  BY <1>1, <1>2, <1>3, <1>5, NothingMoves DEF IInv

LEMMA LeaveKeeps ==
  ASSUME IInv, NEW f \in Files, Leave(f)
  PROVE  IInv'
<1>1. /\ inside' = [inside EXCEPT ![f] = FALSE] /\ event' = event
      /\ UNCHANGED <<allowed, devm, phase, todo, platformDevice, shared, held, groupOn,
                     profiles, boundVars, overwritten>>
  BY DEF Leave
<1>2. inside \in [Files -> BOOLEAN] /\ event \in {"none", "sleep"}
  BY DEF IInv, TypeOK
<1>3. inside' \in [Files -> BOOLEAN]
  BY <1>1, <1>2
<1>4. \A g \in Files : inside'[g] => inside[g]
  BY <1>1, <1>2
<1>5. UseInv'
  BY <1>1, <1>4, Before DEF UseInv, Files
<1> QED  BY <1>1, <1>2, <1>3, <1>5, NothingMoves DEF IInv

LEMMA EventKeeps ==
  ASSUME IInv, EventComes \/ EventNotifies
  PROVE  IInv'
<1>1. /\ inside' = inside
      /\ event' = "none" \/ (event' = "sleep" /\ "wmi" \in held)
      /\ UNCHANGED <<allowed, devm, phase, todo, platformDevice, shared, held, groupOn,
                     profiles, boundVars, overwritten>>
  BY DEF EventComes, EventNotifies
<1>2. UseInv'
  BY <1>1, Before DEF UseInv
<1>3. inside' \in [Files -> BOOLEAN] /\ event' \in {"none", "sleep"}
  BY <1>1 DEF IInv, TypeOK
<1> QED  BY <1>1, <1>2, <1>3, NothingMoves DEF IInv

------------------------------------------------------------------------------
LEMMA InitEstablishes == Init => IInv
<1> SUFFICES ASSUME Init
             PROVE  IInv
  OBVIOUS
<1>1. /\ phase = [d \in Devices |-> "unbound"] /\ todo = [d \in Devices |-> <<>>]
      /\ platformDevice = NoDevice /\ shared = FALSE /\ held = {}
      /\ groupOn = {} /\ profiles = {} /\ event = "none" /\ overwritten = FALSE
      /\ inside = [f \in Files |-> FALSE]
  BY DEF Init
<1>2. TypeOK
  <2>1. \A d \in Devices : Range(todo[d]) = {}
    BY <1>1, EmptyRange
  <2>2. probes \in 0 .. MaxProbes /\ failures \in 0 .. MaxFailures
    BY BoundsAssumption DEF Init
  <2>3. phase \in [Devices -> {"unbound", "probe", "fail", "bound", "remove"}]
    BY <1>1
  <2>4. \A d \in Devices : Range(todo[d]) \subseteq Range(ProbeSteps) \cup {"toggle"}
    BY <2>1
  <2>5. inside \in [Files -> BOOLEAN]
    BY <1>1
  <2> QED  BY <1>1, <2>2, <2>3, <2>4, <2>5 DEF TypeOK, Init
<1>3. StepsInv
  BY <1>1, FirstSteps DEF StepsInv
<1>4. NotedInv
  BY <1>1 DEF NotedInv
<1>5. \A d \in Devices : ~Owns(phase[d], Range(todo[d]))
  BY <1>1 DEF Owns
<1>6. OwnerInv /\ HeldInv
  BY <1>1, <1>5 DEF OwnerInv, HeldInv, IsOwner, Remaining
<1>7. UseInv
  BY <1>1 DEF UseInv, Files
<1>8. AloneInv
  <2>1. \A d \in Devices : ~HasStep(phase[d], Range(todo[d]), "profile")
    BY <1>1 DEF HasStep
  <2> QED  BY <1>1, <2>1 DEF AloneInv, Has, Remaining
<1> QED  BY <1>2, <1>3, <1>4, <1>6, <1>7, <1>8 DEF IInv

LEMMA NextKeeps == IInv /\ [Next]_vars => IInv'
<1> SUFFICES ASSUME IInv, [Next]_vars
             PROVE  IInv'
  OBVIOUS
<1>1. ASSUME NEW d \in Devices,
             \/ Probe(d) \/ ShareInit(d) \/ CheckList(d) \/ Check(d) \/ Acquire(d)
             \/ ProbeFails(d) \/ AddLeds(d)
      PROVE  IInv'
  BY <1>1, ProbeKeeps, ShareInitKeeps, CheckListKeeps, CheckKeeps, AcquireKeeps,
     ProbeFailsKeeps, AddLedsKeeps
<1>2. ASSUME NEW d \in Devices,
             \/ Remove(d) \/ Release(d) \/ ReleaseSysfs(d) \/ ReleaseProfile(d) \/ Toggle(d)
             \/ ShareExit(d) \/ Unbind(d)
      PROVE  IInv'
  BY <1>2, RemoveKeeps, ReleaseKeeps, ReleaseSysfsKeeps, ReleaseProfileKeeps,
     ToggleKeeps, ShareExitKeeps, UnbindKeeps
<1>3. ASSUME NEW f \in Files, Enter(f) \/ Leave(f)
      PROVE  IInv'
  BY <1>3, EnterKeeps, LeaveKeeps
<1>4. CASE EventComes \/ EventNotifies
  BY <1>4, EventKeeps
<1>5. CASE UNCHANGED vars
  <2>1. UNCHANGED <<allowed, devm, phase, todo, platformDevice, shared, held, groupOn,
                    profiles, boundVars, overwritten, inside, event>>
    BY <1>5 DEF vars
  <2>2. inside' \in [Files -> BOOLEAN] /\ event' \in {"none", "sleep"}
    BY <2>1 DEF IInv, TypeOK
  <2>3. UseInv'
    BY <2>1, Before DEF UseInv
  <2> QED  BY <2>1, <2>2, <2>3, NothingMoves DEF IInv
<1> QED  BY <1>1, <1>2, <1>3, <1>4, <1>5 DEF Next

LEMMA Invariance == Spec => []IInv
BY InitEstablishes, NextKeeps, PTL DEF Spec

------------------------------------------------------------------------------
(* The theorems.                                                           *)

(* The variables of the driver have their types, however many devices are  *)
(* probed and removed.                                                     *)
THEOREM LifecycleTypeCorrect == Spec => []TypeOK
<1>1. IInv => TypeOK
  BY DEF IInv
<1> QED  BY <1>1, Invariance, PTL

(* legion_shared_init(): whatever is refused, fails and is removed in      *)
(* between, the one structure _priv serves at most one device.             *)
THEOREM OneOwner == Spec => []SingleOwner
<1>1. IInv => SingleOwner
  <2> SUFFICES ASSUME IInv, NEW d \in Devices, NEW e \in Devices, Owner(d), Owner(e)
               PROVE  d = e
    BY DEF SingleOwner
  <2>1. ASSUME NEW f \in Devices, Owner(f)
        PROVE  Owns(phase[f], Range(todo[f]))
    <3>1. phase[f] \in Phases /\ StepsOf(phase[f], todo[f])
      BY Before
    <3>2. phase[f] = "probe" => (Owns("probe", Range(todo[f])) <=> Left(f) # "shared")
      BY <3>1, HasInOrder DEF Left
    <3> QED  BY <2>1, <3>2 DEF Owner, Owns
  <2>2. Owns(phase[d], Range(todo[d])) /\ Owns(phase[e], Range(todo[e]))
    BY <2>1
  <2> QED  BY <2>2, Owning
<1> QED  BY <1>1, Invariance, PTL

(* legion_add(), legion_remove(): a driver that has left every device has  *)
(* taken back everything, whichever step of whichever probe failed.        *)
THEOREM EverythingTakenBack == Spec => []NothingLeft
<1>1. IInv => NothingLeft
  <2> SUFFICES ASSUME IInv, \A d \in Devices : phase[d] = "unbound", ~overwritten
               PROVE  held = {} /\ groupOn = {} /\ profiles = {} /\ (allowed => ~shared)
    BY DEF NothingLeft
  <2>1. \A d \in Devices : ~Owns(phase[d], Range(todo[d]))
    BY DEF Owns
  <2>2. held \subseteq {"profile"} /\ (allowed => ~shared)
    BY <2>1, Before DEF HeldInv, OwnerInv, IsOwner, Remaining
  <2>3. groupOn = {} /\ profiles = {}
    BY Alone
  <2>4. "profile" \notin held
    BY <2>3, Alone
  <2> QED  BY <2>2, <2>3, <2>4
<1> QED  BY <1>1, Invariance, PTL

(* What the owner has, for a step that is held.                            *)
LEMMA HeldByOwner ==
  ASSUME IInv, NEW step \in Controlled, step \in held
  PROVE  \E d \in Devices :
           /\ phase[d] \in Phases /\ StepsOf(phase[d], todo[d])
           /\ Owns(phase[d], Range(todo[d])) /\ HasStep(phase[d], Range(todo[d]), step)
<1>1. step # "profile"
  BY DEF Controlled
<1>2. PICK d \in Devices : Owns(phase[d], Range(todo[d]))
  BY <1>1, Before DEF HeldInv, IsOwner, Remaining
<1>3. HasStep(phase[d], Range(todo[d]), step)
  BY <1>2, Owning
<1> QED  BY <1>2, <1>3, Before

(* legion_wmi_notify(): an event finds legion_shared, and half a second    *)
(* later a profile whose users it can notify.                              *)
THEOREM NotifierFindsAll == Spec => []NotifierSafe
<1>1. IInv => NotifierSafe
  <2> SUFFICES ASSUME IInv, "wmi" \in held \/ event = "sleep"
               PROVE  shared /\ (overwritten \/ "profile" \in held)
    BY DEF NotifierSafe
  <2>1. "wmi" \in held /\ "wmi" \in Controlled
    BY Before DEF UseInv, Controlled
  <2>2. PICK d \in Devices :
          /\ phase[d] \in Phases /\ StepsOf(phase[d], todo[d])
          /\ Owns(phase[d], Range(todo[d])) /\ HasStep(phase[d], Range(todo[d]), "wmi")
    BY <2>1, HeldByOwner
  <2>3. HasStep(phase[d], Range(todo[d]), "profile")
    BY <2>2, HasInOrder
  <2> QED  BY <2>2, <2>3, Owning, Alone
<1> QED  BY <1>1, Invariance, PTL

(* legion_remove(): a user inside of a file finds the controller set up.   *)
THEOREM UsersFindController == Spec => []UsersSafe
<1>1. IInv => UsersSafe
  <2> SUFFICES ASSUME IInv, NEW f \in Files, inside[f], ~overwritten,
                      ~(f = "profile" /\ devm)
               PROVE  "ecram" \in held
    BY DEF UsersSafe
  <2>1. "ecram" \in Controlled
    BY DEF Controlled
  <2>2. ASSUME NEW step \in {"debugfs", "sysfs", "hwmon", "profile", "wmi"},
               NEW d \in Devices, HasStep(phase[d], Range(todo[d]), step)
        PROVE  "ecram" \in held
    <3>1. phase[d] \in Phases /\ StepsOf(phase[d], todo[d])
      BY Before
    <3>2. HasStep(phase[d], Range(todo[d]), "ecram")
      BY <2>2, <3>1, HasInOrder
    <3>3. Owns(phase[d], Range(todo[d]))
      BY <2>1, <3>1, <3>2, HasInOrder
    <3> QED  BY <2>1, <3>2, <3>3, Owning
  <2>3. ASSUME NEW step \in {"debugfs", "sysfs", "hwmon"}, step \in held
        PROVE  "ecram" \in held
    <3>1. step \in Controlled
      BY DEF Controlled
    <3>2. PICK d \in Devices : HasStep(phase[d], Range(todo[d]), step)
      BY <2>3, <3>1, HeldByOwner
    <3> QED  BY <2>2, <3>2
  <2>4. CASE f \in {"debugfs", "hwmon"}
    BY <2>3, <2>4, Before DEF UseInv
  <2>5. CASE f = "sysfs"
    <3>1. groupOn # {}
      BY <2>5, Before DEF UseInv
    <3> QED  BY <2>3, <3>1, Alone
  <2>6. CASE f = "profile"
    <3>1. profiles # {} /\ ~devm
      BY <2>6, Before DEF UseInv
    <3>2. PICK d \in Devices : phase[d] # "unbound"
      BY <3>1, Alone
    <3>3. "profile" \in held
      BY <3>1, Alone
    <3>4. HasStep(phase[d], Range(todo[d]), "profile")
      BY <3>1, <3>2, <3>3, Alone
    <3> QED  BY <2>2, <3>4
  <2> QED  BY <2>4, <2>5, <2>6 DEF Files
<1> QED  BY <1>1, Invariance, PTL

(* legion_remove() 7921: toggle_powermode() is called when no event can be *)
(* generated or delayed any more, and while the controller is still there. *)
THEOREM TogglesQuietly == Spec => []QuietToggle
<1>1. IInv => QuietToggle
  <2> SUFFICES ASSUME IInv, NEW d \in Devices, Leaving(d), Left(d) = "toggle"
               PROVE  "wmi" \notin held /\ event = "none" /\ "ecram" \in held
    BY DEF QuietToggle
  <2>1. /\ phase[d] \in {"fail", "remove"} /\ todo[d] # <<>>
        /\ StepsOf(phase[d], todo[d])
    BY Before DEF Leaving
  <2>2. phase[d] = "remove" /\ "wmi" \notin Range(todo[d]) /\ "ecram" \in Range(todo[d])
    BY <2>1, OneStepLess DEF Left
  <2>3. /\ ~HasStep(phase[d], Range(todo[d]), "wmi")
        /\ HasStep(phase[d], Range(todo[d]), "ecram")
    BY <2>2 DEF HasStep
  <2>4. Owns(phase[d], Range(todo[d]))
    BY LeavingOwns
  <2>5. "wmi" \notin held /\ "ecram" \in held
    BY <2>3, <2>4, Owning DEF Controlled
  <2>6. event = "none"
    BY <2>5, Before DEF UseInv, IInv, TypeOK
  <2> QED  BY <2>5, <2>6
<1> QED  BY <1>1, Invariance, PTL

(* legion_shared_init() initialises the mutex of the fan curve only while  *)
(* no handler that could hold it is running.                               *)
THEOREM MutexIsFresh == Spec => MutexFresh
<1>1. IInv /\ [Next]_vars =>
        [~shared /\ shared' /\ ~overwritten => \A f \in Files \ {"profile"} : ~inside[f]]_vars
  <2> SUFFICES ASSUME IInv, ~shared, ~overwritten, NEW f \in Files \ {"profile"}
               PROVE  ~inside[f]
    OBVIOUS
  <2>1. \A d \in Devices : ~Owns(phase[d], Range(todo[d]))
    BY Owning
  <2>2. held \subseteq {"profile"}
    BY <2>1, Before DEF HeldInv, IsOwner, Remaining
  <2>3. groupOn = {}
    BY <2>2, Alone
  <2> QED  BY <2>2, <2>3, Before DEF UseInv, Files
<1> QED  BY <1>1, Invariance, PTL DEF Spec, MutexFresh

================================================================================
