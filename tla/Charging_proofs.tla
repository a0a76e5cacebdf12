---------------------------- MODULE Charging_proofs ----------------------------
(***************************************************************************)
(* Whatever the GUI and the CLI are asked to do, however often accesses    *)
(* fail, and whichever limits are given: conservation and rapid charging   *)
(* exclude each other as far as two writes can, a request that went        *)
(* through is in effect, and the four controllers show it.                 *)
(***************************************************************************)
EXTENDS Charging, SequenceTheorems, TLAPS

(***************************************************************************)
(* The inductive invariant.                                                *)
(***************************************************************************)

(* What is left of the request that f be v: everything, the second of two  *)
(* writes, the comparison that comes first, or nothing.  The files of the  *)
(* features in there exist.                                                *)
IsLeft(s, there, p, f, v) ==
  \/ s = << >>
  \/ s = <<Write(f, v)>>
  \/ /\ v /\ Other(f) \in there
     /\ s = <<Write(Other(f), FALSE), Write(f, v)>>
  \/ p = "cli" /\ s = <<Compare(f, v)>>

StepsInv ==
  \A p \in Processes :
    /\ IsLeft(todo[p], exists, p, asked[p].feature, asked[p].value)
    /\ IsBusy(p) => asked[p].feature \in exists

(* The other one is off before one is switched on.                         *)
Last(p) == todo[p] = <<Write(asked[p].feature, asked[p].value)>> /\ asked[p].value

ExclusionInv ==
  /\ ~overlapped => ~(IsBusy("gui") /\ IsBusy("cli"))
  /\ ~overlapped /\ ~silent =>
       /\ ~(on["conservation"] /\ on["rapid"])
       /\ \A p \in Processes : Last(p) => ~on[Other(asked[p].feature)]

(* A request nobody has come in between of finds what its first write did. *)
RequestInv ==
  \A p \in Processes : asked[p].clean =>
    /\ Last(p) => ~on[Other(asked[p].feature)]
    /\ ~IsBusy(p) =>
         /\ on[asked[p].feature] = asked[p].value
         /\ asked[p].value /\ asked[p].set => ~on[Other(asked[p].feature)]

(* A controller that could be wrong is still to be read: all of them until *)
(* the writes are done, the clicked one first.                             *)
ToShow == {shows[i] : i \in 1 .. Len(shows)}

ViewInv ==
  /\ shows \in Seq(Controllers)
  /\ IsBusy("gui") =>
       Len(shows) = 4 /\ ToShow = Controllers /\ Head(shows) = own /\ own[1] \in exists
  /\ ~IsBusy("gui") /\ ~unseen =>
       \A c \in Controllers : c[1] \in exists =>
         c \in stale \/ c \in ToShow \/ checked[c] = on[c[1]]

IInv == TypeOK /\ StepsInv /\ ExclusionInv /\ RequestInv /\ ViewInv

------------------------------------------------------------------------------
(* Lists of one and of two elements.                                       *)
LEMMA ShortLists ==
  ASSUME NEW a, NEW b
  PROVE  /\ <<a>> # << >> /\ Head(<<a>>) = a /\ Tail(<<a>>) = << >> /\ Len(<<a>>) = 1
         /\ <<a, b>> # << >> /\ Head(<<a, b>>) = a /\ Tail(<<a, b>>) = <<b>>
         /\ Len(<<a, b>>) = 2
         /\ \A c : <<c>> # <<a, b>>
         /\ \A c : <<a>> = <<c>> => a = c
OBVIOUS

LEMMA Together ==
  ASSUME NEW a, NEW b
  PROVE  <<a>> \o <<b>> = <<a, b>> /\ << >> \o <<b>> = <<b>>
<1> DEFINE S == {a, b}
<1>1. <<a>> \in Seq(S) /\ <<b>> \in Seq(S) /\ <<a, b>> \in Seq(S)
  OBVIOUS
<1>2. /\ Len(<<a>>) = 1 /\ Len(<<b>>) = 1 /\ Len(<<a, b>>) = 2
      /\ <<a>>[1] = a /\ <<b>>[1] = b /\ <<a, b>>[1] = a /\ <<a, b>>[2] = b
  OBVIOUS
<1> HIDE DEF S
<1>3. /\ <<a>> \o <<b>> \in Seq(S) /\ Len(<<a>> \o <<b>>) = 2
      /\ (<<a>> \o <<b>>)[1] = a /\ (<<a>> \o <<b>>)[2] = b
  BY <1>1, <1>2, ConcatProperties
<1> DEFINE c == <<a>> \o <<b>>
<1>4. c \in Seq(S) /\ Len(c) = 2 /\ c[1] = a /\ c[2] = b
  BY <1>3
<1> HIDE DEF c
<1>5. \A i \in 1 .. Len(c) : c[i] = <<a, b>>[i]
  BY <1>2, <1>4
<1>6. c = <<a, b>>
  BY <1>1, <1>2, <1>4, <1>5, SeqEqual
<1>7. << >> \o <<b>> = <<b>>
  BY <1>1, ConcatEmptySeq
<1> QED  BY <1>6, <1>7 DEF c

LEMMA StepsDiffer ==
  ASSUME NEW f, NEW v, NEW g, NEW u
  PROVE  /\ Write(f, v).op = "write" /\ Write(f, v).feature = f /\ Write(f, v).value = v
         /\ Compare(f, v).op = "compare" /\ Compare(f, v).feature = f
         /\ Compare(f, v).value = v
         /\ Write(f, v) # Compare(g, u)
BY DEF Write, Compare

LEMMA StepLists ==
  ASSUME NEW f, NEW v, NEW g
  PROVE  /\ <<Write(f, v)>> # << >> /\ Head(<<Write(f, v)>>) = Write(f, v)
         /\ Tail(<<Write(f, v)>>) = << >>
         /\ <<Write(g, FALSE), Write(f, v)>> # << >>
         /\ Head(<<Write(g, FALSE), Write(f, v)>>) = Write(g, FALSE)
         /\ Tail(<<Write(g, FALSE), Write(f, v)>>) = <<Write(f, v)>>
         /\ <<Write(g, FALSE), Write(f, v)>> # <<Write(f, v)>>
         /\ <<Compare(f, v)>> # << >> /\ Head(<<Compare(f, v)>>) = Compare(f, v)
         /\ <<Compare(f, v)>> # <<Write(f, v)>>
<1> DEFINE w == Write(f, v)
           o == Write(g, FALSE)
           c == Compare(f, v)
<1>1. c # w
  BY StepsDiffer
<1> HIDE DEF w, o, c
<1>2. <<w>> # << >> /\ Head(<<w>>) = w /\ Tail(<<w>>) = << >>
  BY ShortLists
<1>3. <<c>> # << >> /\ Head(<<c>>) = c /\ <<c>> # <<w>>
  BY <1>1, ShortLists
<1>4. /\ <<o, w>> # << >> /\ Head(<<o, w>>) = o /\ Tail(<<o, w>>) = <<w>>
      /\ <<o, w>> # <<w>>
  BY ShortLists
<1> QED  BY <1>2, <1>3, <1>4, Zenon DEF w, o, c

LEMMA OtherIs ==
  ASSUME NEW f \in Features
  PROVE  /\ Other(f) \in Features /\ Other(f) # f
         /\ \A g \in Features : g = f \/ g = Other(f)
         /\ \/ f = "conservation" /\ Other(f) = "rapid"
            \/ f = "rapid" /\ Other(f) = "conservation"
BY DEF Other, Features

(* BatteryConservation.set and RapidChargingFeature.set: the other one is  *)
(* switched off first, if its file is there.                               *)
LEMMA SetStepsAre ==
  ASSUME NEW f, NEW v \in BOOLEAN
  PROVE  SetSteps(f, v) = IF v /\ Other(f) \in exists
                            THEN <<Write(Other(f), FALSE), Write(f, v)>>
                            ELSE <<Write(f, v)>>
BY Together DEF SetSteps

(* The types that the steps need.                                          *)
LEMMA Types ==
  ASSUME IInv
  PROVE  /\ exists \subseteq Features /\ on \in [Features -> BOOLEAN]
         /\ \A f \in Features : f \notin exists => ~on[f]
         /\ DOMAIN todo = Processes
         /\ asked \in [Processes -> [feature : Features, value : BOOLEAN, clean : BOOLEAN,
                                     set : BOOLEAN]]
         /\ \A p \in Processes : asked[p].feature \in Features /\ asked[p].value \in BOOLEAN
         /\ StepsInv /\ ExclusionInv /\ RequestInv /\ ViewInv
<1>1. asked \in [Processes -> [feature : Features, value : BOOLEAN, clean : BOOLEAN,
                               set : BOOLEAN]]
  BY DEF IInv, TypeOK
<1>2. \A p \in Processes : asked[p].feature \in Features /\ asked[p].value \in BOOLEAN
  BY <1>1
<1> QED  BY <1>1, <1>2 DEF IInv, TypeOK

(* A process that compares is the CLI; one that writes is at the other     *)
(* feature, which it switches off, or at its last write.                   *)
LEMMA NextCompare ==
  ASSUME NEW s, NEW there, NEW p, NEW f, NEW v, IsLeft(s, there, p, f, v),
         s # << >>, Head(s).op = "compare"
  PROVE  p = "cli" /\ Head(s) = Compare(f, v)
<1> DEFINE g == Other(f)
<1>1. s # <<Write(f, v)>>
  BY StepLists, StepsDiffer
<1>2. s # <<Write(g, FALSE), Write(f, v)>>
  <2> HIDE DEF g
  <2> DEFINE l == <<Write(g, FALSE), Write(f, v)>>
  <2>1. Head(l) = Write(g, FALSE)
    BY StepLists
  <2>2. Write(g, FALSE).op # "compare"
    BY StepsDiffer
  <2> HIDE DEF l
  <2>3. s # l
    BY <2>1, <2>2
  <2> QED  BY <2>3 DEF l
<1>3. p = "cli" /\ s = <<Compare(f, v)>>
  BY <1>1, <1>2, Zenon DEF IsLeft
<1> QED  BY <1>3, StepLists

LEMMA NextWrite ==
  ASSUME NEW s, NEW there, NEW p, NEW f, NEW v \in BOOLEAN, IsLeft(s, there, p, f, v),
         s # << >>, Head(s).op = "write"
  PROVE  \/ /\ s = <<Write(f, v)>>
            /\ Head(s) = Write(f, v) /\ Tail(s) = << >>
         \/ /\ v /\ Other(f) \in there
            /\ Head(s) = Write(Other(f), FALSE) /\ Tail(s) = <<Write(f, v)>>
<1> DEFINE g == Other(f)
<1>1. s # <<Compare(f, v)>>
  BY StepLists, StepsDiffer
<1>2. CASE s = <<Write(f, v)>>
  BY <1>2, StepLists
<1>3. CASE v /\ g \in there /\ s = <<Write(g, FALSE), Write(f, v)>>
  <2> DEFINE l == <<Write(g, FALSE), Write(f, v)>>
  <2>1. s = l
    BY <1>3
  <2> HIDE DEF g
  <2>2. Head(l) = Write(g, FALSE) /\ Tail(l) = <<Write(f, v)>>
    BY StepLists
  <2> HIDE DEF l
  <2>3. Head(s) = Write(g, FALSE) /\ Tail(s) = <<Write(f, v)>>
    BY <2>1, <2>2
  <2> QED  BY <1>3, <2>3 DEF g
<1> QED  BY <1>1, <1>2, <1>3, Zenon DEF IsLeft

(* What is left when the next access is over, done or not.                 *)
LEMMA NextIsLeft ==
  ASSUME NEW s, NEW there, NEW p, p # "cli", NEW f, NEW v \in BOOLEAN,
         IsLeft(s, there, p, f, v), s # << >>
  PROVE  Tail(s) = << >> \/ Tail(s) = <<Write(f, v)>>
<1> DEFINE g == Other(f)
<1>1. CASE s = <<Write(f, v)>>
  BY <1>1, StepLists
<1>2. CASE s = <<Write(g, FALSE), Write(f, v)>>
  <2> HIDE DEF g
  <2> QED  BY <1>2, StepLists
<1> QED  BY <1>1, <1>2, Zenon DEF IsLeft

LEMMA WhatIsLeft ==
  ASSUME IInv, NEW p \in Processes, NEW f, f = asked[p].feature,
         NEW v \in BOOLEAN, v = asked[p].value
  PROVE  IsLeft(todo[p], exists, p, f, v)
BY Types DEF StepsInv

LEMMA LengthLeft ==
  ASSUME NEW there, NEW p, NEW f, NEW v \in BOOLEAN, NEW s, IsLeft(s, there, p, f, v)
  PROVE  Len(s) \in 0 .. 2
<1>1. Len(<< >>) = 0
  OBVIOUS
<1>2. Len(s) = 0 \/ Len(s) = 1 \/ Len(s) = 2
  BY <1>1, ShortLists, Zenon DEF IsLeft
<1> QED  BY <1>2

(* What set has to do.                                                     *)
LEMMA SetLeft ==
  ASSUME NEW p, NEW f \in Features, NEW v \in BOOLEAN, NEW s, s = SetSteps(f, v)
  PROVE  /\ s # << >> /\ IsLeft(s, exists, p, f, v)
         /\ (s = <<Write(f, v)>> /\ v) => Other(f) \notin exists
<1>1. CASE v /\ Other(f) \in exists
  <2>1. s = <<Write(Other(f), FALSE), Write(f, v)>>
    BY <1>1, SetStepsAre
  <2>2. s # << >> /\ s # <<Write(f, v)>>
    BY <2>1, StepLists
  <2> QED  BY <1>1, <2>1, <2>2 DEF IsLeft
<1>2. CASE ~(v /\ Other(f) \in exists)
  <2>1. s = <<Write(f, v)>>
    BY <1>2, SetStepsAre
  <2>2. s # << >>
    BY <2>1, StepLists
  <2> QED  BY <1>2, <2>1, <2>2 DEF IsLeft
<1> QED  BY <1>1, <1>2

------------------------------------------------------------------------------
(* A request begins: Click, Command and Apply.                             *)
LEMMA StartsKeeps ==
  ASSUME IInv, NEW p \in Processes, NEW f \in Features, NEW v \in BOOLEAN,
         NEW set \in BOOLEAN, Starts(p, f, v, set),
         NEW s, todo' = [todo EXCEPT ![p] = s],
         s = SetSteps(f, v) \/ (p = "cli" /\ s = <<Compare(f, v)>>)
  PROVE  /\ StepsInv' /\ ExclusionInv' /\ RequestInv'
         /\ DOMAIN todo' = Processes /\ \A q \in Processes : Len(todo'[q]) \in 0 .. 2
         /\ asked' \in [Processes -> [feature : Features, value : BOOLEAN, clean : BOOLEAN,
                                      set : BOOLEAN]]
         /\ requests' \in [Processes -> 0 .. MaxRequests]
         /\ todo'[p] # << >> /\ overlapped' \in BOOLEAN
<1> DEFINE other == IF p = "gui" THEN "cli" ELSE "gui"
           r == [feature |-> f, value |-> v, clean |-> TRUE, set |-> set]
<1>1. /\ todo[p] = << >> /\ f \in exists
      /\ asked' = [asked EXCEPT ![p] = r]
      /\ overlapped' = (overlapped \/ IsBusy(other))
      /\ UNCHANGED <<exists, viaCli, on, stale, failures, silent>>
  BY DEF Starts, IsBusy
<1>2. r.feature = f /\ r.value = v /\ r.clean = TRUE /\ r.set = set
      /\ r \in [feature : Features, value : BOOLEAN, clean : BOOLEAN, set : BOOLEAN]
  OBVIOUS
<1>3. other \in Processes /\ other # p /\ \A q \in Processes : q = p \/ q = other
  BY DEF Processes
<1> HIDE DEF r, other
<1>4. /\ asked'[p] = r /\ todo'[p] = s
      /\ DOMAIN todo' = Processes
      /\ asked' \in [Processes -> [feature : Features, value : BOOLEAN, clean : BOOLEAN,
                                   set : BOOLEAN]]
      /\ \A q \in Processes : q # p => asked'[q] = asked[q] /\ todo'[q] = todo[q]
  BY <1>1, <1>2, Types
<1>5. /\ s # << >> /\ IsLeft(s, exists, p, f, v)
      /\ (s = <<Write(f, v)>> /\ v) => Other(f) \notin exists
  <2>1. CASE s = SetSteps(f, v)
    BY <2>1, SetLeft
  <2>2. CASE p = "cli" /\ s = <<Compare(f, v)>>
    <3>1. s # << >> /\ s # <<Write(f, v)>>
      BY <2>2, StepLists
    <3> QED  BY <2>2, <3>1 DEF IsLeft
  <2>3. s = SetSteps(f, v) \/ (p = "cli" /\ s = <<Compare(f, v)>>)
    OBVIOUS
  <2> QED  BY <2>1, <2>2, <2>3
<1>6. StepsInv'
  <2>1. IsLeft(todo'[p], exists', p, asked'[p].feature, asked'[p].value)
    BY <1>1, <1>2, <1>4, <1>5
  <2>2. asked'[p].feature \in exists'
    BY <1>1, <1>2, <1>4
  <2>3. \A q \in Processes : q # p =>
          /\ IsLeft(todo'[q], exists', q, asked'[q].feature, asked'[q].value)
          /\ todo'[q] # << >> => asked'[q].feature \in exists'
    BY <1>1, <1>4, Types DEF StepsInv, IsBusy
  <2> QED  BY <2>1, <2>2, <2>3 DEF StepsInv, IsBusy
<1>7. todo'[p] = <<Write(asked'[p].feature, asked'[p].value)>> /\ asked'[p].value =>
        ~on'[Other(asked'[p].feature)]
  <2>1. todo'[p] = <<Write(f, v)>> /\ v => ~on[Other(f)]
    BY <1>4, <1>5, Types, OtherIs
  <2> QED  BY <1>1, <1>2, <1>4, <2>1
<1>8. ExclusionInv'
  <2>1. ~overlapped' => ~overlapped /\ todo'[other] = << >>
    BY <1>1, <1>3, <1>4 DEF IsBusy
  <2>2. \A q \in Processes :
          q # p /\ (Last(q) => ~on[Other(asked[q].feature)]) =>
          (todo'[q] = <<Write(asked'[q].feature, asked'[q].value)>> /\ asked'[q].value =>
             ~on'[Other(asked'[q].feature)])
    BY <1>1, <1>4 DEF Last
  <2>3. ~overlapped /\ ~silent => ~(on["conservation"] /\ on["rapid"])
    BY Types DEF ExclusionInv
  <2>4. ~overlapped /\ ~silent => \A q \in Processes : Last(q) => ~on[Other(asked[q].feature)]
    BY Types DEF ExclusionInv
  <2>5. ~overlapped' => ~(todo'["gui"] # << >> /\ todo'["cli"] # << >>)
    BY <1>3, <2>1 DEF Processes
  <2> QED  BY <1>1, <1>7, <2>1, <2>2, <2>3, <2>4, <2>5 DEF ExclusionInv, Last, IsBusy
<1>9. RequestInv'
  <2>1. \A q \in Processes : q # p => asked'[q] = asked[q] /\ todo'[q] = todo[q] /\ on' = on
    BY <1>1, <1>4
  <2>2. todo'[p] # << >>
    BY <1>4, <1>5
  <2> QED  BY <1>7, <2>1, <2>2, Types DEF RequestInv, Last, IsBusy
<1>10. requests' \in [Processes -> 0 .. MaxRequests]
  <2>1. /\ requests \in [Processes -> 0 .. MaxRequests] /\ requests[p] < MaxRequests
        /\ requests' = [requests EXCEPT ![p] = requests[p] + 1]
    BY DEF IInv, TypeOK, Starts
  <2>2. requests[p] + 1 \in 0 .. MaxRequests
    BY <2>1, BoundsAssumption
  <2> QED  BY <2>1, <2>2
<1>11. \A q \in Processes : Len(todo'[q]) \in 0 .. 2
  <2>1. \A q \in Processes : asked'[q].value \in BOOLEAN
    BY <1>4
  <2> QED  BY <1>6, <2>1, LengthLeft DEF StepsInv
<1>12. overlapped' \in BOOLEAN
  BY <1>1 DEF IsBusy, IInv, TypeOK
<1> QED  BY <1>4, <1>5, <1>6, <1>8, <1>9, <1>10, <1>11, <1>12

------------------------------------------------------------------------------
(* The controllers.                                                        *)
LEMMA FourControllers ==
  /\ \A f \in Features, k \in {"check", "tray"} :
       /\ <<f, k>> \in Controllers /\ <<f, k>>[1] = f /\ <<f, k>>[2] = k
  /\ \A c \in Controllers :
       /\ c[1] \in Features /\ c[2] \in {"check", "tray"} /\ c = <<c[1], c[2]>>
BY DEF Controllers, Features

(* BoolFeatureController and BoolFeatureTrayController: the clicked one    *)
(* and its dependent controllers are all there are.                        *)
LEMMA AllAreShown ==
  ASSUME NEW c \in Controllers, NEW s, s = <<c>> \o Dependents(c)
  PROVE  /\ s \in Seq(Controllers) /\ Len(s) = 4 /\ Head(s) = c
         /\ {s[i] : i \in 1 .. Len(s)} = Controllers
<1> DEFINE d == Dependents(c)
<1>1. c[1] \in Features /\ c[2] \in {"check", "tray"} /\ c = <<c[1], c[2]>>
  BY FourControllers
<1>2. /\ d \in Seq(Controllers) /\ Len(d) = 3
      /\ {d[1], d[2], d[3]} \cup {c} = Controllers
  <2> DEFINE f == c[1]
             g == Other(c[1])
  <2>1. f \in Features /\ g \in Features /\ \A h \in Features : h = f \/ h = g
    BY <1>1, OtherIs
  <2>2. CASE c[2] = "check"
    <3>1. d = << <<g, "check">>, <<"conservation", "tray">>, <<"rapid", "tray">> >>
      BY <2>2 DEF Dependents
    <3>2. Len(d) = 3 /\ d[1] = <<g, "check">> /\ d[2] = <<"conservation", "tray">>
          /\ d[3] = <<"rapid", "tray">>
      BY <3>1
    <3>3. c = <<f, "check">>
      BY <1>1, <2>2
    <3>4. <<g, "check">> \in Controllers /\ <<"conservation", "tray">> \in Controllers
          /\ <<"rapid", "tray">> \in Controllers
      BY <2>1, FourControllers DEF Features
    <3>5. d \in Seq(Controllers)
      BY <3>1, <3>4
    <3>6. ASSUME NEW e \in Controllers
          PROVE  e \in {d[1], d[2], d[3]} \cup {c}
      <4>1. e = <<e[1], e[2]>> /\ e[1] \in Features /\ e[2] \in {"check", "tray"}
        BY FourControllers
      <4> QED  BY <2>1, <3>2, <3>3, <4>1 DEF Features
    <3> QED  BY <3>2, <3>4, <3>5, <3>6
  <2>3. CASE c[2] = "tray"
    <3>1. d = << <<"conservation", "check">>, <<"rapid", "check">>, <<g, "tray">> >>
      BY <2>3 DEF Dependents
    <3>2. Len(d) = 3 /\ d[3] = <<g, "tray">> /\ d[1] = <<"conservation", "check">>
          /\ d[2] = <<"rapid", "check">>
      BY <3>1
    <3>3. c = <<f, "tray">>
      BY <1>1, <2>3
    <3>4. <<g, "tray">> \in Controllers /\ <<"conservation", "check">> \in Controllers
          /\ <<"rapid", "check">> \in Controllers
      BY <2>1, FourControllers DEF Features
    <3>5. d \in Seq(Controllers)
      BY <3>1, <3>4
    <3>6. ASSUME NEW e \in Controllers
          PROVE  e \in {d[1], d[2], d[3]} \cup {c}
      <4>1. e = <<e[1], e[2]>> /\ e[1] \in Features /\ e[2] \in {"check", "tray"}
        BY FourControllers
      <4> QED  BY <2>1, <3>2, <3>3, <4>1 DEF Features
    <3> QED  BY <3>2, <3>4, <3>5, <3>6
  <2> QED  BY <1>1, <2>2, <2>3
<1> HIDE DEF d
<1>3. <<c>> \in Seq(Controllers) /\ Len(<<c>>) = 1 /\ <<c>>[1] = c
  BY <1>1
<1>4. s = <<c>> \o d
  BY DEF d
<1>5. /\ s \in Seq(Controllers) /\ Len(s) = 4 /\ s[1] = c
      /\ s[2] = d[1] /\ s[3] = d[2] /\ s[4] = d[3]
  <2> DEFINE b == <<c>>
  <2>1. b \in Seq(Controllers) /\ Len(b) = 1 /\ b[1] = c /\ s = b \o d
    BY <1>3, <1>4
  <2> HIDE DEF b
  <2>2. d \in Seq(Controllers) /\ Len(d) = 3
    BY <1>2
  <2>3. /\ b \o d \in Seq(Controllers) /\ Len(b \o d) = Len(b) + Len(d)
        /\ \A i \in 1 .. Len(b) + Len(d) :
             (b \o d)[i] = IF i <= Len(b) THEN b[i] ELSE d[i - Len(b)]
    BY <2>1, <2>2, ConcatProperties
  <2>4. /\ s \in Seq(Controllers) /\ Len(s) = 4
        /\ \A i \in 1 .. 4 : s[i] = IF i <= 1 THEN b[i] ELSE d[i - 1]
    <3> DEFINE t == b \o d
    <3>1. t = s
      BY <2>1
    <3>2. /\ t \in Seq(Controllers) /\ Len(t) = Len(b) + Len(d)
          /\ \A i \in 1 .. Len(b) + Len(d) :
               t[i] = IF i <= Len(b) THEN b[i] ELSE d[i - Len(b)]
      BY <2>3, Zenon
    <3> HIDE DEF t
    <3>3. Len(b) = 1 /\ Len(d) = 3
      BY <2>1, <2>2
    <3> QED  BY <3>1, <3>2, <3>3
  <2> QED  BY <2>1, <2>4
<1>6. Head(s) = c
  BY <1>5
<1>7. {s[i] : i \in 1 .. Len(s)} = {s[1], s[2], s[3], s[4]}
  BY <1>5
<1> QED  BY <1>2, <1>5, <1>6, <1>7

(* The next one has read: it alone is no longer in the list.               *)
LEMMA TheRest ==
  ASSUME NEW S, NEW s \in Seq(S), s # << >>
  PROVE  /\ Tail(s) \in Seq(S) /\ Len(Tail(s)) = Len(s) - 1 /\ Head(s) \in S
         /\ Len(s) \in Nat
         /\ \A c \in {s[i] : i \in 1 .. Len(s)} :
              c = Head(s) \/ c \in {Tail(s)[i] : i \in 1 .. Len(Tail(s))}
<1>1. /\ Tail(s) \in Seq(S) /\ Len(Tail(s)) = Len(s) - 1 /\ Head(s) = s[1] /\ Head(s) \in S
      /\ \A i \in 1 .. Len(Tail(s)) : Tail(s)[i] = s[i + 1]
      /\ Len(s) \in Nat /\ Len(s) > 0
  BY HeadTailProperties, LenProperties, EmptySeq
<1>2. ASSUME NEW i \in 1 .. Len(s)
      PROVE  s[i] = Head(s) \/ s[i] \in {Tail(s)[j] : j \in 1 .. Len(Tail(s))}
  <2>1. CASE i = 1
    BY <1>1, <2>1
  <2>2. CASE i # 1
    <3>1. i - 1 \in 1 .. Len(Tail(s)) /\ Tail(s)[i - 1] = s[i]
      BY <1>1, <2>2
    <3> QED  BY <3>1
  <2> QED  BY <2>1, <2>2
<1> QED  BY <1>1, <1>2

------------------------------------------------------------------------------
(* What a process does when it is asked.                                   *)
LEMMA ClickKeeps ==
  ASSUME IInv, NEW c \in Controllers, Click(c)
  PROVE  IInv'
<1> DEFINE f == c[1]
           v == ~checked[c]
           s == SetSteps(f, v)
<1>1. f \in Features /\ v \in BOOLEAN /\ v = ~checked[c]
  BY FourControllers DEF IInv, TypeOK
<1>2. /\ Starts("gui", f, v, TRUE)
      /\ todo' = [todo EXCEPT !["gui"] = s]
      /\ shows' = <<c>> \o Dependents(c)
      /\ checked' = [checked EXCEPT ![c] = v]
      /\ own' = c /\ unseen' = FALSE
  BY DEF Click
<1>3. s = SetSteps(f, v) /\ "gui" \in Processes /\ f = c[1]
  BY DEF Processes
<1> HIDE DEF f, v, s
<1>4. /\ StepsInv' /\ ExclusionInv' /\ RequestInv'
      /\ DOMAIN todo' = Processes /\ \A q \in Processes : Len(todo'[q]) \in 0 .. 2
      /\ asked' \in [Processes -> [feature : Features, value : BOOLEAN, clean : BOOLEAN,
                                   set : BOOLEAN]]
      /\ requests' \in [Processes -> 0 .. MaxRequests]
      /\ todo'["gui"] # << >> /\ overlapped' \in BOOLEAN
  BY <1>1, <1>2, <1>3, StartsKeeps
<1>5. /\ shows' \in Seq(Controllers) /\ Len(shows') = 4 /\ Head(shows') = c
      /\ {shows'[i] : i \in 1 .. Len(shows')} = Controllers
  <2> DEFINE sh == <<c>> \o Dependents(c)
  <2>1. /\ sh \in Seq(Controllers) /\ Len(sh) = 4 /\ Head(sh) = c
        /\ {sh[i] : i \in 1 .. Len(sh)} = Controllers
    BY AllAreShown
  <2>2. shows' = sh
    BY <1>2
  <2> HIDE DEF sh
  <2> QED  BY <2>1, <2>2
<1>6. f \in exists /\ UNCHANGED <<exists, viaCli, on, stale, failures, silent>>
  BY <1>2 DEF Starts
<1>7. ViewInv'
  BY <1>2, <1>3, <1>4, <1>5, <1>6 DEF ViewInv, ToShow, IsBusy
<1>8. TypeOK'
  <2>1. checked' \in [Controllers -> BOOLEAN]
    BY <1>1, <1>2 DEF IInv, TypeOK
  <2>2. Len(shows') \in 0 .. 4
    BY <1>5
  <2>3. own' \in Controllers /\ unseen' \in BOOLEAN
    BY <1>2, Zenon
  <2> QED  BY <1>4, <1>6, <2>1, <2>2, <2>3 DEF IInv, TypeOK
<1> QED  BY <1>4, <1>7, <1>8 DEF IInv

(* A command leaves the controllers alone: they show what they showed.     *)
LEMMA CliStartsKeeps ==
  ASSUME IInv, NEW f \in Features, NEW v \in BOOLEAN, NEW set \in BOOLEAN,
         Starts("cli", f, v, set),
         NEW s, todo' = [todo EXCEPT !["cli"] = s],
         s = SetSteps(f, v) \/ s = <<Compare(f, v)>>,
         UNCHANGED <<shows, own, checked, unseen>>
  PROVE  IInv'
<1>1. "cli" \in Processes /\ "gui" \in Processes
  BY DEF Processes
<1>2. s = SetSteps(f, v) \/ ("cli" = "cli" /\ s = <<Compare(f, v)>>)
  OBVIOUS
<1>3. /\ StepsInv' /\ ExclusionInv' /\ RequestInv'
      /\ DOMAIN todo' = Processes /\ \A q \in Processes : Len(todo'[q]) \in 0 .. 2
      /\ asked' \in [Processes -> [feature : Features, value : BOOLEAN, clean : BOOLEAN,
                                   set : BOOLEAN]]
      /\ requests' \in [Processes -> 0 .. MaxRequests]
      /\ overlapped' \in BOOLEAN
  BY <1>1, <1>2, StartsKeeps
<1>4. UNCHANGED <<exists, viaCli, on, stale, failures, silent>>
  BY DEF Starts
<1>5. todo'["gui"] = todo["gui"]
  BY <1>1, Types
<1>6. ViewInv'
  BY <1>4, <1>5, Types DEF ViewInv, ToShow, IsBusy
<1>7. TypeOK'
  BY <1>3, <1>4 DEF IInv, TypeOK
<1> QED  BY <1>3, <1>6, <1>7 DEF IInv

LEMMA CommandKeeps ==
  ASSUME IInv, NEW f \in Features, NEW v \in BOOLEAN, Command(f, v)
  PROVE  IInv'
<1>1. /\ Starts("cli", f, v, TRUE)
      /\ todo' = [todo EXCEPT !["cli"] = SetSteps(f, v)]
      /\ UNCHANGED <<shows, own, checked, unseen>>
  BY DEF Command
<1> QED  BY <1>1, CliStartsKeeps

LEMMA ApplyKeeps ==
  ASSUME IInv, NEW charge \in Charges, NEW limits \in Limits,
         Apply(charge, limits[1], limits[2])
  PROVE  IInv'
<1> DEFINE v == charge > limits[2]
<1>1. /\ Starts("cli", "conservation", v, FALSE)
      /\ todo' = [todo EXCEPT !["cli"] = <<Compare("conservation", v)>>]
      /\ UNCHANGED <<shows, own, checked, unseen>>
  BY DEF Apply
<1>2. v \in BOOLEAN /\ "conservation" \in Features
  BY DEF Features
<1> HIDE DEF v
<1> QED  BY <1>1, <1>2, CliStartsKeeps

------------------------------------------------------------------------------
(* set_if_not_set: the feature is what was asked for, or is now set.       *)
LEMMA ComparesKeeps ==
  ASSUME IInv, NEW p \in Processes, Compares(p)
  PROVE  IInv'
<1> DEFINE f == asked[p].feature
           v == asked[p].value
           needed == on[f] # v
           s == IF needed THEN SetSteps(f, v) ELSE << >>
           r == [asked[p] EXCEPT !.set = needed]
<1>1. f \in Features /\ v \in BOOLEAN /\ f = asked[p].feature /\ v = asked[p].value
  BY Types
<1>2. p = "cli" /\ Head(todo[p]) = Compare(f, v) /\ todo[p] # << >>
  <2>1. todo[p] # << >> /\ Head(todo[p]).op = "compare"
    BY DEF Compares, IsBusy
  <2> HIDE DEF f, v
  <2>2. IsLeft(todo[p], exists, p, f, v)
    BY <1>1, WhatIsLeft
  <2> DEFINE t == todo[p]
  <2>3. IsLeft(t, exists, p, f, v) /\ t # << >> /\ Head(t).op = "compare"
    BY <2>1, <2>2
  <2> HIDE DEF t
  <2>4. p = "cli" /\ Head(t) = Compare(f, v)
    BY <2>3, NextCompare, Zenon
  <2> QED  BY <2>3, <2>4, Zenon DEF t
<1>3. f \in exists
  BY <1>2, Types DEF StepsInv, IsBusy
<1>4. /\ todo' = [todo EXCEPT ![p] = s]
      /\ asked' = [asked EXCEPT ![p] = r]
      /\ UNCHANGED <<exists, viaCli, on, shows, own, checked, stale, requests, failures,
                     overlapped, silent, unseen>>
  <2> DEFINE step == Head(todo[p])
  <2>1. step.feature = f /\ step.value = v
    BY <1>2, StepsDiffer
  <2>2. NeedsSet(step) = needed
    BY <2>1 DEF NeedsSet
  <2>3. /\ todo' = [todo EXCEPT ![p] = IF NeedsSet(step)
                                         THEN SetSteps(step.feature, step.value)
                                         ELSE << >>]
        /\ asked' = [asked EXCEPT ![p].set = NeedsSet(step)]
    BY DEF Compares
  <2>4. UNCHANGED <<exists, viaCli, on, shows, own, checked, stale, requests, failures,
                    overlapped, silent, unseen>>
    BY DEF Compares, hidden
  <2> HIDE DEF step
  <2>5. todo' = [todo EXCEPT ![p] = s]
    BY <2>1, <2>2, <2>3, Zenon
  <2>6. asked' = [asked EXCEPT ![p] = r]
    BY <2>2, <2>3
  <2> QED  BY <2>4, <2>5, <2>6
<1>5. needed \in BOOLEAN /\ (~needed => on[f] = v)
      /\ (needed => s = SetSteps(f, v)) /\ (~needed => s = << >>)
  OBVIOUS
<1>6. /\ r \in [feature : Features, value : BOOLEAN, clean : BOOLEAN, set : BOOLEAN]
      /\ r.feature = f /\ r.value = v /\ r.clean = asked[p].clean /\ r.set = needed
  BY <1>5, Types
<1> HIDE DEF f, v, needed, s, r
<1>7. /\ IsLeft(s, exists, p, f, v)
      /\ (s = <<Write(f, v)>> /\ v) => Other(f) \notin exists
      /\ needed => s # << >>
  <2>1. CASE needed
    BY <1>1, <1>5, <2>1, SetLeft
  <2>2. CASE ~needed
    BY <1>5, <2>2, StepLists DEF IsLeft
  <2> QED  BY <2>1, <2>2
<1>8. /\ asked'[p] = r /\ todo'[p] = s
      /\ DOMAIN todo' = Processes
      /\ asked' \in [Processes -> [feature : Features, value : BOOLEAN, clean : BOOLEAN,
                                   set : BOOLEAN]]
      /\ \A q \in Processes : q # p => asked'[q] = asked[q] /\ todo'[q] = todo[q]
  BY <1>4, <1>6, Types
<1>9. StepsInv'
  <2>1. /\ IsLeft(todo'[p], exists', p, asked'[p].feature, asked'[p].value)
        /\ asked'[p].feature \in exists'
    BY <1>3, <1>4, <1>6, <1>7, <1>8
  <2>2. \A q \in Processes : q # p =>
          /\ IsLeft(todo'[q], exists', q, asked'[q].feature, asked'[q].value)
          /\ todo'[q] # << >> => asked'[q].feature \in exists'
    BY <1>4, <1>8, Types DEF StepsInv, IsBusy
  <2> QED  BY <2>1, <2>2 DEF StepsInv, IsBusy
<1>10. todo'[p] = <<Write(asked'[p].feature, asked'[p].value)>> /\ asked'[p].value =>
         ~on'[Other(asked'[p].feature)]
  <2>1. s = <<Write(f, v)>> /\ v => ~on[Other(f)]
    BY <1>1, <1>7, Types, OtherIs
  <2> QED  BY <1>4, <1>6, <1>8, <2>1
<1>11. ExclusionInv'
  <2>1. \A q \in Processes :
          q # p /\ (Last(q) => ~on[Other(asked[q].feature)]) =>
          (todo'[q] = <<Write(asked'[q].feature, asked'[q].value)>> /\ asked'[q].value =>
             ~on'[Other(asked'[q].feature)])
    BY <1>4, <1>8 DEF Last
  <2>2. ~overlapped /\ ~silent =>
          /\ ~(on["conservation"] /\ on["rapid"])
          /\ \A q \in Processes : Last(q) => ~on[Other(asked[q].feature)]
    BY Types DEF ExclusionInv
  <2>3. ~overlapped => ~(todo["gui"] # << >> /\ todo["cli"] # << >>)
    BY Types DEF ExclusionInv, IsBusy
  <2>4. ~overlapped => ~(todo'["gui"] # << >> /\ todo'["cli"] # << >>)
    BY <1>2, <1>8, <2>3 DEF Processes
  <2> QED  BY <1>4, <1>10, <2>1, <2>2, <2>4 DEF ExclusionInv, Last, IsBusy
<1>12. RequestInv'
  <2>1. \A q \in Processes : q # p =>
          asked'[q] = asked[q] /\ todo'[q] = todo[q] /\ on' = on
    BY <1>4, <1>8
  <2>2. todo'[p] = << >> => on'[asked'[p].feature] = asked'[p].value /\ ~asked'[p].set
    BY <1>4, <1>5, <1>6, <1>7, <1>8
  <2> QED  BY <1>10, <2>1, <2>2, Types DEF RequestInv, Last, IsBusy
<1>13. ViewInv'
  <2>1. todo'["gui"] = todo["gui"]
    BY <1>2, <1>8 DEF Processes
  <2> QED  BY <1>4, <2>1, Types DEF ViewInv, ToShow, IsBusy
<1>14. TypeOK'
  <2>1. \A q \in Processes : asked'[q].value \in BOOLEAN
    BY <1>8
  <2>2. \A q \in Processes : Len(todo'[q]) \in 0 .. 2
    BY <1>9, <2>1, LengthLeft DEF StepsInv
  <2> QED  BY <1>4, <1>8, <2>2 DEF IInv, TypeOK
<1> QED  BY <1>9, <1>11, <1>12, <1>13, <1>14 DEF IInv

------------------------------------------------------------------------------
(* A write.  Of the other feature it is the first, of the feature asked    *)
(* for the last; nobody else's request is clean after it.                  *)
LEMMA WritesKeeps ==
  ASSUME IInv, NEW p \in Processes, Writes(p)
  PROVE  IInv'
<1> DEFINE f == asked[p].feature
           v == asked[p].value
           t == todo[p]
           g == Head(t).feature
           u == Head(t).value
           s == Tail(t)
           o == Other(f)
           unclean(q) == [asked[q] EXCEPT !.clean = FALSE]
<1>1. f \in Features /\ v \in BOOLEAN /\ f = asked[p].feature /\ v = asked[p].value
      /\ o \in Features /\ o # f
  BY Types, OtherIs
<1>2. \/ /\ t = <<Write(f, v)>>
         /\ g = f /\ u = v /\ s = << >>
      \/ /\ v /\ o \in exists
         /\ g = o /\ u = FALSE /\ s = <<Write(f, v)>>
  <2>1. t # << >> /\ Head(t).op = "write"
    BY DEF Writes, IsBusy
  <2> HIDE DEF f, v
  <2>2. IsLeft(t, exists, p, f, v)
    BY <1>1, WhatIsLeft
  <2>3. /\ Write(f, v).feature = f /\ Write(f, v).value = v
        /\ Write(o, FALSE).feature = o /\ Write(o, FALSE).value = FALSE
    BY DEF Write
  <2> DEFINE w == Write(f, v)
             x == Write(o, FALSE)
  <2> HIDE DEF t
  <2>4. \/ t = <<w>> /\ Head(t) = w /\ Tail(t) = << >>
        \/ v /\ o \in exists /\ Head(t) = x /\ Tail(t) = <<w>>
    BY <1>1, <2>1, <2>2, NextWrite
  <2> HIDE DEF w, x, o
  <2>5. w.feature = f /\ w.value = v /\ x.feature = o /\ x.value = FALSE
    BY <2>3 DEF w, x
  <2> QED  BY <2>4, <2>5 DEF w
<1>3. t # << >> /\ f \in exists
  <2>1. t # << >>
    BY DEF Writes, IsBusy
  <2> QED  BY <2>1, Types DEF StepsInv, IsBusy
<1>4. /\ on' = [on EXCEPT ![g] = u]
      /\ todo' = [todo EXCEPT ![p] = s]
      /\ asked' = [q \in Processes |-> IF q = p THEN asked[q] ELSE unclean(q)]
      /\ unseen' = (unseen \/ p # "gui")
      /\ UNCHANGED <<exists, viaCli, shows, own, checked, stale, requests, failures,
                     overlapped, silent>>
  BY DEF Writes
<1>5. \A q \in Processes :
        /\ unclean(q) \in [feature : Features, value : BOOLEAN, clean : BOOLEAN,
                           set : BOOLEAN]
        /\ unclean(q).feature = asked[q].feature /\ unclean(q).value = asked[q].value
        /\ unclean(q).clean = FALSE
  BY Types
<1> HIDE DEF f, v, t, g, u, s, o, unclean
<1>6. /\ asked'[p] = asked[p] /\ todo'[p] = s /\ DOMAIN todo' = Processes
      /\ \A q \in Processes : q # p =>
           /\ asked'[q].feature = asked[q].feature /\ asked'[q].value = asked[q].value
           /\ asked'[q].clean = FALSE
           /\ todo'[q] = todo[q]
      /\ asked' \in [Processes -> [feature : Features, value : BOOLEAN, clean : BOOLEAN,
                                   set : BOOLEAN]]
  BY <1>4, <1>5, Types
<1>7. /\ g \in Features /\ g \in exists /\ u \in BOOLEAN
      /\ on' \in [Features -> BOOLEAN] /\ on'[g] = u
      /\ \A h \in Features : h # g => on'[h] = on[h]
      /\ \A h \in Features : h \notin exists => ~on'[h]
  <2>1. g \in Features /\ g \in exists /\ u \in BOOLEAN
    BY <1>1, <1>2, <1>3
  <2> QED  BY <1>4, <2>1, Types
<1>8. asked'[p].feature = f /\ asked'[p].value = v /\ o = Other(f) /\ todo[p] = t
  BY <1>1, <1>6 DEF o, t
<1>9. StepsInv'
  <2>1. IsLeft(s, exists, p, f, v)
    BY <1>2 DEF IsLeft
  <2>2. \A q \in Processes : q # p =>
          /\ IsLeft(todo'[q], exists', q, asked'[q].feature, asked'[q].value)
          /\ todo'[q] # << >> => asked'[q].feature \in exists'
    BY <1>4, <1>6, Types DEF StepsInv, IsBusy
  <2>3. /\ IsLeft(todo'[p], exists', p, asked'[p].feature, asked'[p].value)
        /\ asked'[p].feature \in exists'
    BY <1>3, <1>4, <1>6, <1>8, <2>1
  <2> QED  BY <2>2, <2>3 DEF StepsInv, IsBusy
(* Before its last write the other one is off.                             *)
<1>10. todo'[p] = <<Write(f, v)>> /\ v => ~on'[o]
  <2>1. s = << >> => s # <<Write(f, v)>>
    BY StepLists
  <2> QED  BY <1>2, <1>6, <1>7, <2>1
<1>11. ExclusionInv'
  <2>1. ~overlapped => \A q \in Processes : q # p => todo'[q] = << >>
    BY <1>3, <1>6, <1>8, Types DEF ExclusionInv, IsBusy, Processes
  <2>2. ~overlapped /\ ~silent => ~(on'[f] /\ on'[o])
    <3> SUFFICES ASSUME ~overlapped, ~silent
                 PROVE  ~(on'[f] /\ on'[o])
      OBVIOUS
    <3>1. ~(on[f] /\ on[o])
      BY <1>1, Types, OtherIs DEF ExclusionInv, o
    <3>2. t = <<Write(f, v)>> /\ v => ~on[o]
      BY <1>1, <1>8, Types DEF ExclusionInv, Last
    <3> QED  BY <1>1, <1>2, <1>7, <3>1, <3>2
  <2>3. ~overlapped /\ ~silent => ~(on'["conservation"] /\ on'["rapid"])
    BY <1>1, <2>2, OtherIs DEF o
  <2>4. ~overlapped /\ ~silent =>
          \A q \in Processes :
            todo'[q] = <<Write(asked'[q].feature, asked'[q].value)>> /\ asked'[q].value =>
              ~on'[Other(asked'[q].feature)]
    <3>1. \A q \in Processes : << >> # <<Write(asked'[q].feature, asked'[q].value)>>
      BY StepLists
    <3>2. todo'[p] = <<Write(asked'[p].feature, asked'[p].value)>> /\ asked'[p].value =>
            ~on'[Other(asked'[p].feature)]
      BY <1>8, <1>10
    <3> QED  BY <2>1, <3>1, <3>2
  <2>5. ~overlapped => ~(todo'["gui"] # << >> /\ todo'["cli"] # << >>)
    BY <2>1 DEF Processes
  <2> QED  BY <1>4, <2>3, <2>4, <2>5 DEF ExclusionInv, Last, IsBusy
<1>12. RequestInv'
  <2>1. asked'[p].clean /\ todo'[p] = << >> =>
          /\ on'[f] = v
          /\ v => ~on'[o]
    <3> SUFFICES ASSUME asked[p].clean, s = << >>
                 PROVE  /\ on'[f] = v
                        /\ v => ~on'[o]
      BY <1>6
    <3>1. << >> # <<Write(f, v)>>
      BY StepLists
    <3>2. t = <<Write(f, v)>> /\ g = f /\ u = v
      BY <1>2, <3>1
    <3>3. v => ~on[o]
      BY <1>1, <1>8, <3>2, Types DEF RequestInv, Last
    <3> QED  BY <1>1, <1>7, <3>2, <3>3
  <2>2. asked'[p].clean =>
          /\ todo'[p] = <<Write(asked'[p].feature, asked'[p].value)>> /\ asked'[p].value =>
               ~on'[Other(asked'[p].feature)]
          /\ todo'[p] = << >> =>
               /\ on'[asked'[p].feature] = asked'[p].value
               /\ asked'[p].value /\ asked'[p].set => ~on'[Other(asked'[p].feature)]
    BY <1>8, <1>10, <2>1
  <2> QED  BY <1>6, <2>2 DEF RequestInv, Last, IsBusy
<1>13. ViewInv'
  <2>1. CASE p = "gui"
    <3>1. ToShow = Controllers /\ Len(shows) = 4 /\ Head(shows) = own /\ own[1] \in exists
      BY <1>3, <1>8, <2>1, Types DEF ViewInv, IsBusy
    <3> QED  BY <1>4, <3>1, Types DEF ViewInv, ToShow, IsBusy
  <2>2. CASE p # "gui"
    <3>1. unseen' /\ todo'["gui"] = todo["gui"]
      BY <1>4, <1>6, <2>2 DEF Processes
    <3> QED  BY <1>4, <3>1, Types DEF ViewInv, ToShow, IsBusy
  <2> QED  BY <2>1, <2>2
<1>14. TypeOK'
  <2>1. \A q \in Processes : asked'[q].value \in BOOLEAN
    BY <1>6
  <2>2. \A q \in Processes : Len(todo'[q]) \in 0 .. 2
    BY <1>9, <2>1, LengthLeft DEF StepsInv
  <2>3. unseen' \in BOOLEAN
    BY <1>4 DEF IInv, TypeOK
  <2> QED  BY <1>4, <1>6, <1>7, <2>2, <2>3 DEF IInv, TypeOK
<1> QED  BY <1>9, <1>11, <1>12, <1>13, <1>14 DEF IInv

------------------------------------------------------------------------------
(* An access fails, or a controller reads.  After a failure the request is *)
(* no longer clean.                                                        *)
LEMMA FailureKeeps ==
  ASSUME IInv, NEW p \in Processes, Failure(p)
  PROVE  /\ asked' \in [Processes -> [feature : Features, value : BOOLEAN, clean : BOOLEAN,
                                      set : BOOLEAN]]
         /\ \A q \in Processes : /\ asked'[q].feature = asked[q].feature
                                 /\ asked'[q].value = asked[q].value
                                 /\ q # p => asked'[q] = asked[q]
         /\ asked'[p].clean = FALSE
         /\ failures' \in 0 .. MaxFailures
         /\ UNCHANGED <<exists, viaCli, on, own, checked, requests>>
<1> DEFINE r == [asked[p] EXCEPT !.clean = FALSE]
<1>1. asked' = [asked EXCEPT ![p] = r]
  BY DEF Failure
<1>2. /\ r \in [feature : Features, value : BOOLEAN, clean : BOOLEAN, set : BOOLEAN]
      /\ r.feature = asked[p].feature /\ r.value = asked[p].value /\ r.clean = FALSE
  BY Types
<1>3. failures' \in 0 .. MaxFailures
  BY BoundsAssumption DEF Failure, IInv, TypeOK
<1>4. UNCHANGED <<exists, viaCli, on, own, checked, requests>>
  BY DEF Failure
<1> HIDE DEF r
<1> QED  BY <1>1, <1>2, <1>3, <1>4, Types

(* A process that gives up leaves nothing behind that it will still write. *)
LEMMA RaisesKeeps ==
  ASSUME IInv, NEW p \in Processes, Raises(p)
  PROVE  IInv'
<1>1. /\ asked' \in [Processes -> [feature : Features, value : BOOLEAN, clean : BOOLEAN,
                                   set : BOOLEAN]]
      /\ \A q \in Processes : /\ asked'[q].feature = asked[q].feature
                              /\ asked'[q].value = asked[q].value
                              /\ q # p => asked'[q] = asked[q]
      /\ asked'[p].clean = FALSE
      /\ failures' \in 0 .. MaxFailures
      /\ UNCHANGED <<exists, viaCli, on, own, checked, requests>>
  BY FailureKeeps DEF Raises
<1>2. /\ todo[p] # << >>
      /\ todo' = [todo EXCEPT ![p] = << >>]
      /\ UNCHANGED <<overlapped, silent, unseen>>
  BY DEF Raises, IsBusy, hidden
<1>3. /\ todo'[p] = << >> /\ DOMAIN todo' = Processes
      /\ \A q \in Processes : q # p => todo'[q] = todo[q]
  BY <1>2, Types
<1>4. StepsInv'
  <2>1. IsLeft(todo'[p], exists', p, asked'[p].feature, asked'[p].value)
    BY <1>3 DEF IsLeft
  <2> QED  BY <1>1, <1>3, <2>1, Types DEF StepsInv, IsBusy
<1>5. \A q \in Processes :
        /\ todo'[q] = <<Write(asked'[q].feature, asked'[q].value)>> =>
             q # p /\ todo[q] = <<Write(asked[q].feature, asked[q].value)>>
        /\ todo'[q] # << >> => q # p
  <2>1. << >> # <<Write(asked'[p].feature, asked'[p].value)>>
    BY StepLists
  <2> QED  BY <1>1, <1>3, <2>1
<1>6. ExclusionInv'
  <2>1. ~overlapped => ~(todo'["gui"] # << >> /\ todo'["cli"] # << >>)
    BY <1>3, Types DEF ExclusionInv, IsBusy, Processes
  <2> QED  BY <1>1, <1>2, <1>5, <2>1, Types DEF ExclusionInv, Last, IsBusy
<1>7. RequestInv'
  BY <1>1, <1>3, <1>5, Types DEF RequestInv, Last, IsBusy
<1>8. /\ ViewInv' /\ Len(shows') \in 0 .. 4
      /\ stale' \subseteq {c \in Controllers : c[1] \in exists}
  <2>1. /\ stale \subseteq {c \in Controllers : c[1] \in exists} /\ own \in Controllers
        /\ Len(shows) \in 0 .. 4
    BY DEF IInv, TypeOK
  <2>2. CASE p = "gui"
    <3>1. shows' = Tail(shows) /\ stale' = stale \cup {own}
      BY <2>2 DEF Raises
    <3>2. /\ shows \in Seq(Controllers) /\ Len(shows) = 4
          /\ ToShow = Controllers /\ Head(shows) = own /\ own[1] \in exists
      BY <1>2, <2>2, Types DEF ViewInv, IsBusy
    <3>3. shows # << >>
      <4>1. Len(<< >>) = 0
        OBVIOUS
      <4>2. Len(shows) # 0
        BY <3>2
      <4> QED  BY <4>1, <4>2, Zenon
    <3>4. /\ shows' \in Seq(Controllers) /\ Len(shows') = 3
          /\ \A c \in ToShow : c = own \/ c \in ToShow'
      <4> DEFINE l == Tail(shows)
      <4>1. /\ l \in Seq(Controllers) /\ Len(l) = Len(shows) - 1
            /\ \A c \in ToShow : c = Head(shows) \/ c \in {l[i] : i \in 1 .. Len(l)}
        BY <3>2, <3>3, TheRest DEF ToShow
      <4>2. shows' = l
        BY <3>1
      <4> HIDE DEF l
      <4>3. ToShow' = {l[i] : i \in 1 .. Len(l)}
        BY <4>2 DEF ToShow
      <4> QED  BY <3>2, <4>1, <4>2, <4>3
    <3>5. todo'["gui"] = << >>
      BY <1>3, <2>2
    <3>6. ViewInv'
      BY <3>1, <3>2, <3>4, <3>5 DEF ViewInv, IsBusy
    <3> QED  BY <2>1, <3>1, <3>2, <3>4, <3>6
  <2>3. CASE p # "gui"
    <3>1. UNCHANGED <<shows, stale>> /\ todo'["gui"] = todo["gui"]
      BY <1>3, <2>3 DEF Raises, Processes
    <3>2. ViewInv'
      BY <1>1, <1>2, <3>1, Types DEF ViewInv, ToShow, IsBusy
    <3> QED  BY <2>1, <3>1, <3>2
  <2> QED  BY <2>2, <2>3
<1>9. TypeOK'
  <2>1. \A q \in Processes : Len(todo'[q]) \in 0 .. 2
    BY <1>1, <1>4, LengthLeft DEF StepsInv
  <2> QED  BY <1>1, <1>2, <1>3, <1>8, <2>1 DEF IInv, TypeOK
<1> QED  BY <1>4, <1>6, <1>7, <1>8, <1>9 DEF IInv

(* A write of the GUI that another process failed to do: it goes on.       *)
LEMMA FailsSilentlyKeeps ==
  ASSUME IInv, FailsSilently
  PROVE  IInv'
<1> DEFINE f == asked["gui"].feature
           v == asked["gui"].value
           t == todo["gui"]
           s == Tail(t)
<1>1. /\ asked' \in [Processes -> [feature : Features, value : BOOLEAN, clean : BOOLEAN,
                                   set : BOOLEAN]]
      /\ \A q \in Processes : /\ asked'[q].feature = asked[q].feature
                              /\ asked'[q].value = asked[q].value
                              /\ q # "gui" => asked'[q] = asked[q]
      /\ asked'["gui"].clean = FALSE
      /\ failures' \in 0 .. MaxFailures
      /\ UNCHANGED <<exists, viaCli, on, own, checked, requests>>
  BY FailureKeeps DEF FailsSilently, Processes
<1>2. /\ t # << >> /\ silent' = TRUE
      /\ todo' = [todo EXCEPT !["gui"] = s]
      /\ UNCHANGED <<shows, stale, overlapped, unseen>>
  BY DEF FailsSilently, IsBusy
<1>3. /\ f \in Features /\ v \in BOOLEAN /\ f = asked["gui"].feature
      /\ v = asked["gui"].value /\ "gui" \in Processes /\ f \in exists
  <2>1. "gui" \in Processes
    BY DEF Processes
  <2> QED  BY <1>2, <2>1, Types DEF StepsInv, IsBusy
<1>4. s = << >> \/ s = <<Write(f, v)>>
  <2> HIDE DEF f, v
  <2>1. IsLeft(t, exists, "gui", f, v)
    BY <1>3, WhatIsLeft
  <2> HIDE DEF t
  <2>2. Tail(t) = << >> \/ Tail(t) = <<Write(f, v)>>
    BY <1>2, <1>3, <2>1, NextIsLeft
  <2> QED  BY <2>2
<1> HIDE DEF f, v, t, s
<1>5. /\ todo'["gui"] = s /\ DOMAIN todo' = Processes
      /\ \A q \in Processes : q # "gui" => todo'[q] = todo[q]
  BY <1>2, <1>3, Types
<1>6. StepsInv'
  <2>1. IsLeft(todo'["gui"], exists', "gui", asked'["gui"].feature, asked'["gui"].value)
    BY <1>1, <1>3, <1>4, <1>5 DEF IsLeft
  <2>2. asked'["gui"].feature \in exists'
    BY <1>1, <1>3
  <2> QED  BY <1>1, <1>5, <2>1, <2>2, Types DEF StepsInv, IsBusy
<1>7. ExclusionInv'
  <2>1. ~overlapped => ~(todo'["gui"] # << >> /\ todo'["cli"] # << >>)
    BY <1>2, <1>5, Types DEF ExclusionInv, IsBusy, Processes, t
  <2> QED  BY <1>2, <2>1 DEF ExclusionInv, IsBusy
<1>8. RequestInv'
  BY <1>1, <1>5, Types DEF RequestInv, Last, IsBusy
<1>9. ViewInv'
  <2>1. /\ shows \in Seq(Controllers) /\ Len(shows) = 4
        /\ ToShow = Controllers /\ Head(shows) = own /\ own[1] \in exists
    BY <1>2, Types DEF ViewInv, IsBusy, t
  <2> QED  BY <1>1, <1>2, <2>1 DEF ViewInv, ToShow
<1>10. TypeOK'
  <2>1. \A q \in Processes : Len(todo'[q]) \in 0 .. 2
    BY <1>1, <1>6, LengthLeft DEF StepsInv
  <2> QED  BY <1>1, <1>2, <1>5, <2>1 DEF IInv, TypeOK
<1> QED  BY <1>6, <1>7, <1>8, <1>9, <1>10 DEF IInv

(* The next controller reads, or fails to.  No other one is forgotten.     *)
LEMMA ShowsKeep ==
  ASSUME IInv, ~IsBusy("gui"), shows # << >>,
         NEW c, c = Head(shows), shows' = Tail(shows),
         UNCHANGED <<exists, on, todo, unseen>>,
         \/ c[1] \in exists /\ checked' = [checked EXCEPT ![c] = on[c[1]]] /\ stale' = stale \ {c}
         \/ c[1] \notin exists /\ UNCHANGED <<checked, stale>>
         \/ c[1] \in exists /\ checked' = checked /\ stale' = stale \cup {c}
  PROVE  /\ ViewInv' /\ Len(shows') \in 0 .. 4
         /\ checked' \in [Controllers -> BOOLEAN]
         /\ stale' \subseteq {d \in Controllers : d[1] \in exists'}
<1>1. /\ stale \subseteq {d \in Controllers : d[1] \in exists}
      /\ checked \in [Controllers -> BOOLEAN] /\ Len(shows) \in 0 .. 4
  BY DEF IInv, TypeOK
<1>2. shows \in Seq(Controllers)
  BY Types DEF ViewInv
<1>3. /\ c \in Controllers
      /\ shows' \in Seq(Controllers) /\ Len(shows') = Len(shows) - 1
      /\ \A d \in ToShow : d = c \/ d \in ToShow'
  <2> DEFINE l == Tail(shows)
  <2>1. /\ l \in Seq(Controllers) /\ Len(l) = Len(shows) - 1 /\ Head(shows) \in Controllers
        /\ \A d \in ToShow : d = Head(shows) \/ d \in {l[i] : i \in 1 .. Len(l)}
    BY <1>2, TheRest DEF ToShow
  <2>2. shows' = l
    OBVIOUS
  <2> HIDE DEF l
  <2>3. ToShow' = {l[i] : i \in 1 .. Len(l)}
    BY <2>2 DEF ToShow
  <2> QED  BY <2>1, <2>2, <2>3
<1>4. Len(shows') \in 0 .. 4
  <2>1. Len(shows) # 0
    BY <1>2, EmptySeq
  <2> QED  BY <1>1, <1>3, <2>1
<1>5. on[c[1]] \in BOOLEAN
  BY <1>3, FourControllers, Types
<1>6. /\ checked' \in [Controllers -> BOOLEAN]
      /\ stale' \subseteq {d \in Controllers : d[1] \in exists'}
  BY <1>1, <1>3, <1>5
<1>7. ASSUME ~unseen, NEW d \in Controllers, d[1] \in exists
      PROVE  d \in stale' \/ d \in ToShow' \/ checked'[d] = on[d[1]]
  <2>1. d \in stale \/ d \in ToShow \/ checked[d] = on[d[1]]
    BY <1>7, Types DEF ViewInv
  <2>2. CASE d = c
    BY <1>1, <1>3, <1>7, <2>2
  <2>3. CASE d # c
    BY <1>1, <1>3, <1>7, <2>1, <2>3
  <2> QED  BY <2>2, <2>3
<1>8. ViewInv'
  BY <1>3, <1>7 DEF ViewInv, IsBusy
<1> QED  BY <1>4, <1>6, <1>8

LEMMA ShowsKeeps ==
  ASSUME IInv, Shows
  PROVE  IInv'
<1> DEFINE c == Head(shows)
<1>1. /\ ~IsBusy("gui") /\ shows # << >> /\ shows' = Tail(shows)
      /\ UNCHANGED <<exists, viaCli, on, todo, asked, own, requests, failures,
                     overlapped, silent, unseen>>
      /\ \/ c[1] \in exists /\ checked' = [checked EXCEPT ![c] = on[c[1]]] /\ stale' = stale \ {c}
         \/ c[1] \notin exists /\ UNCHANGED <<checked, stale>>
  BY DEF Shows, hidden
<1>2. c = Head(shows)
  OBVIOUS
<1> HIDE DEF c
<1>3. /\ ViewInv' /\ Len(shows') \in 0 .. 4
      /\ checked' \in [Controllers -> BOOLEAN]
      /\ stale' \subseteq {d \in Controllers : d[1] \in exists'}
  BY <1>1, <1>2, ShowsKeep
<1>4. StepsInv' /\ ExclusionInv' /\ RequestInv'
  BY <1>1, Types DEF StepsInv, ExclusionInv, RequestInv, Last, IsBusy
<1>5. TypeOK'
  BY <1>1, <1>3 DEF IInv, TypeOK
<1> QED  BY <1>3, <1>4, <1>5 DEF IInv

LEMMA ShowFailsKeeps ==
  ASSUME IInv, ShowFails
  PROVE  IInv'
<1> DEFINE c == Head(shows)
<1>1. /\ asked' \in [Processes -> [feature : Features, value : BOOLEAN, clean : BOOLEAN,
                                   set : BOOLEAN]]
      /\ \A q \in Processes : /\ asked'[q].feature = asked[q].feature
                              /\ asked'[q].value = asked[q].value
                              /\ q # "gui" => asked'[q] = asked[q]
      /\ asked'["gui"].clean = FALSE
      /\ failures' \in 0 .. MaxFailures
      /\ UNCHANGED <<exists, viaCli, on, own, checked, requests>>
  BY FailureKeeps DEF ShowFails, Processes
<1>2. /\ ~IsBusy("gui") /\ shows # << >> /\ shows' = Tail(shows)
      /\ UNCHANGED <<todo, overlapped, silent, unseen>>
      /\ c[1] \in exists /\ stale' = stale \cup {c} /\ c = Head(shows)
  BY DEF ShowFails, hidden
<1> HIDE DEF c
<1>3. /\ ViewInv' /\ Len(shows') \in 0 .. 4
      /\ checked' \in [Controllers -> BOOLEAN]
      /\ stale' \subseteq {d \in Controllers : d[1] \in exists'}
  BY <1>1, <1>2, ShowsKeep
<1>4. StepsInv' /\ ExclusionInv' /\ RequestInv'
  BY <1>1, <1>2, Types DEF StepsInv, ExclusionInv, RequestInv, Last, IsBusy
<1>5. TypeOK'
  BY <1>1, <1>2, <1>3 DEF IInv, TypeOK
<1> QED  BY <1>3, <1>4, <1>5 DEF IInv

------------------------------------------------------------------------------
(* At the start nothing has been asked and every controller is current.    *)
LEMMA InitHolds ==
  ASSUME Init
  PROVE  IInv
<1>1. /\ \A p \in Processes : todo[p] = << >>
      /\ DOMAIN todo = Processes /\ shows = << >>
      /\ asked = [p \in Processes |-> NoRequest]
      /\ requests = [p \in Processes |-> 0] /\ failures = 0
      /\ overlapped = FALSE /\ silent = FALSE /\ unseen = FALSE
      /\ exists \subseteq Features /\ viaCli \in BOOLEAN
      /\ stale = {} /\ own = <<"conservation", "check">>
      /\ checked = [c \in Controllers |-> on[c[1]]]
  BY DEF Init
<1>2. /\ on \in [Features -> BOOLEAN] /\ ~(on["rapid"] /\ on["conservation"])
      /\ \A f \in Features \ exists : ~on[f]
  BY DEF Init
<1>3. /\ NoRequest \in [feature : Features, value : BOOLEAN, clean : BOOLEAN, set : BOOLEAN]
      /\ NoRequest.clean = FALSE
  BY DEF NoRequest, Features
<1>4. \A p \in Processes : asked[p] = NoRequest
  BY <1>1
<1>5. Len(<< >>) = 0 /\ << >> \in Seq(Controllers)
  OBVIOUS
<1>6. TypeOK
  <2>1. /\ asked \in [Processes -> [feature : Features, value : BOOLEAN, clean : BOOLEAN,
                                    set : BOOLEAN]]
        /\ requests \in [Processes -> 0 .. MaxRequests] /\ failures \in 0 .. MaxFailures
    BY <1>1, <1>3, BoundsAssumption
  <2>2. checked \in [Controllers -> BOOLEAN] /\ own \in Controllers
    BY <1>1, <1>2, FourControllers DEF Features
  <2>3. Len(shows) \in 0 .. 4 /\ \A p \in Processes : Len(todo[p]) \in 0 .. 2
    <3>1. Len(shows) = 0 /\ \A p \in Processes : Len(todo[p]) = 0
      BY <1>1, <1>5, Zenon
    <3> QED  BY <3>1
  <2> QED  BY <1>1, <1>2, <2>1, <2>2, <2>3 DEF TypeOK
<1>7. StepsInv
  BY <1>1, Zenon DEF StepsInv, IsLeft, IsBusy
<1>8. ExclusionInv
  <2>1. \A p \in Processes : ~Last(p)
    BY <1>1, StepLists DEF Last
  <2> QED  BY <1>1, <1>2, <2>1 DEF ExclusionInv, IsBusy, Processes
<1>9. RequestInv
  BY <1>3, <1>4 DEF RequestInv
<1>10. ViewInv
  <2>1. shows \in Seq(Controllers)
    BY <1>1, <1>5
  <2>2. ~IsBusy("gui")
    BY <1>1 DEF IsBusy, Processes
  <2> QED  BY <1>1, <2>1, <2>2 DEF ViewInv
<1> QED  BY <1>6, <1>7, <1>8, <1>9, <1>10 DEF IInv

LEMMA NextKeeps ==
  ASSUME IInv, [Next]_vars
  PROVE  IInv'
<1>1. ASSUME NEW c \in Controllers, Click(c)
      PROVE  IInv'
  BY <1>1, ClickKeeps
<1>2. ASSUME NEW f \in Features, NEW v \in BOOLEAN, Command(f, v)
      PROVE  IInv'
  BY <1>2, CommandKeeps
<1>3. ASSUME NEW charge \in Charges, NEW limits \in Limits,
             Apply(charge, limits[1], limits[2])
      PROVE  IInv'
  BY <1>3, ApplyKeeps
<1>4. ASSUME NEW p \in Processes, Compares(p)
      PROVE  IInv'
  BY <1>4, ComparesKeeps
<1>5. ASSUME NEW p \in Processes, Writes(p)
      PROVE  IInv'
  BY <1>5, WritesKeeps
<1>6. ASSUME NEW p \in Processes, Raises(p)
      PROVE  IInv'
  BY <1>6, RaisesKeeps
<1>7. CASE FailsSilently
  BY <1>7, FailsSilentlyKeeps
<1>8. CASE Shows
  BY <1>8, ShowsKeeps
<1>9. CASE ShowFails
  BY <1>9, ShowFailsKeeps
<1>10. CASE UNCHANGED vars
  <2>1. UNCHANGED <<exists, viaCli, on, todo, shows, asked, own, checked, stale, requests,
                    failures, overlapped, silent, unseen>>
    BY <1>10 DEF vars, hidden
  <2>2. TypeOK'
    BY <2>1 DEF IInv, TypeOK
  <2>3. StepsInv' /\ ExclusionInv' /\ RequestInv'
    BY <2>1, Types DEF StepsInv, ExclusionInv, RequestInv, Last, IsBusy
  <2>4. ViewInv'
    BY <2>1, Types DEF ViewInv, ToShow, IsBusy
  <2> QED  BY <2>2, <2>3, <2>4 DEF IInv
<1> QED  BY <1>1, <1>2, <1>3, <1>4, <1>5, <1>6, <1>7, <1>8, <1>9, <1>10 DEF Next

LEMMA Invariance == Spec => []IInv
<1>1. Init => IInv
  BY InitHolds
<1>2. IInv /\ [Next]_vars => IInv'
  BY NextKeeps
<1> QED  BY <1>1, <1>2, PTL DEF Spec

------------------------------------------------------------------------------
(* For all limits and charges, and any number of requests and of failures. *)

(* The variables have their types: of a request at most two writes and of  *)
(* a click at most four readings are outstanding, and a feature without a  *)
(* file is never switched on.                                              *)
THEOREM ChargingTypeCorrect == Spec => []TypeOK
<1>1. IInv => TypeOK
  BY DEF IInv
<1> QED  BY <1>1, Invariance, PTL

(* BatteryConservation.set and RapidChargingFeature.set: both features are *)
(* on only if the requests of two processes have met, or a write of the    *)
(* GUI failed and it did not hear of it.                                   *)
THEOREM ExclusionKept == Spec => []NotBoth
<1>1. IInv => NotBoth
  BY DEF IInv, ExclusionInv, NotBoth
<1> QED  BY <1>1, Invariance, PTL

(* A request that ended without an error and without a write of another    *)
(* process in between is in effect, and the other feature is off if it     *)
(* switched one on.                                                        *)
THEOREM RequestsTakeEffect == Spec => []AskedIsDone
<1>1. IInv => AskedIsDone
  BY DEF IInv, RequestInv, AskedIsDone
<1> QED  BY <1>1, Invariance, PTL

(* When the handler of a click has ended, each of the four controllers     *)
(* shows the firmware's bit, unless it failed to read it or another        *)
(* process wrote since the click.                                          *)
THEOREM ViewIsCurrent == Spec => []ViewAgrees
<1>1. ASSUME IInv
      PROVE  ViewAgrees
  <2>1. shows = << >> => ToShow = {}
    BY DEF ToShow
  <2>2. ViewInv
    BY <1>1, Types
  <2> QED  BY <2>1, <2>2 DEF ViewInv, ViewAgrees
<1> QED  BY <1>1, Invariance, PTL
==============================================================================
