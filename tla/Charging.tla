------------------------------- MODULE Charging -------------------------------
(***************************************************************************)
(* Battery conservation and rapid charging, which exclude each other.  The *)
(* firmware keeps a bit for each, the kernel a file for each; that one is  *)
(* switched off before the other is switched on is left to legion.py, in   *)
(* two writes.  Two processes use it here: the GUI, with a check box and a *)
(* tray action for either file, and legion_cli, as a command or as the     *)
(* script that turns conservation on and off by the charge of the battery. *)
(*                                                                         *)
(* A process has a list of writes it has still to do, and the GUI one of   *)
(* controllers that have still to read their files; one file access is one *)
(* step.  Without root the GUI has another process write for it, and does  *)
(* not look at its exit code.                                              *)
(***************************************************************************)
EXTENDS Integers, Sequences

CONSTANTS Limits,         \* pairs of limits given to the apply command
          Charges,        \* charges of the battery, in percent
          MaxRequests,    \* bound on clicks and on commands
          MaxFailures     \* bound on file accesses that fail

ASSUME LimitsAssumption ==
  /\ Limits \subseteq {<<low, up>> : low \in 0..100, up \in 0..100}
  /\ Charges \subseteq 0..100
ASSUME BoundsAssumption == MaxRequests \in Nat /\ MaxFailures \in Nat

Features == {"conservation", "rapid"}
Other(f) == IF f = "rapid" THEN "conservation" ELSE "rapid"
Processes == {"gui", "cli"}
Controllers == {"conservation", "rapid"} \X {"check", "tray"}

VARIABLES exists,         \* the features whose file was found
          viaCli,         \* the GUI writes through legion_cli
          on,             \* the firmware's bits
          todo,           \* of each process, the writes it has still to do
          shows,          \* the controllers that have still to read
          asked,          \* of each process, its last request
          own,            \* the controller that was clicked
          checked,        \* the state of each controller
          stale,          \* controllers whose last reading failed
          requests, failures,
          overlapped,     \* two requests have met; history
          silent,         \* a write failed and the GUI went on; history
          unseen          \* writes of others since the last click; history

hidden == <<overlapped, silent, unseen>>
vars == <<exists, viaCli, on, todo, shows, asked, own, checked, stale, requests,
          failures, hidden>>

------------------------------------------------------------------------------
Write(f, v) == [op |-> "write", feature |-> f, value |-> v]
Compare(f, v) == [op |-> "compare", feature |-> f, value |-> v]

(* Variant for mutation: the other one is switched off afterwards.         *)
SetStepsLate(f, v) ==
  <<Write(f, v)>>
  \o (IF v /\ Other(f) \in exists THEN <<Write(Other(f), FALSE)>> ELSE << >>)

(* BatteryConservation.set and RapidChargingFeature.set                    *)
SetSteps(f, v) ==
  (IF v /\ Other(f) \in exists THEN <<Write(Other(f), FALSE)>> ELSE << >>)
  \o <<Write(f, v)>>

(* Variant for mutation: the tray is told of the check boxes only.         *)
DependentsUntold(c) ==
  IF c[2] = "check"
    THEN << <<Other(c[1]), "check">>, <<c[1], "tray">> >>
    ELSE << <<"conservation", "check">>, <<"rapid", "check">> >>

(* Variant for mutation: and of the clicked one once more.                 *)
DependentsAndSelf(c) ==
  << <<"conservation", "check">>, <<"rapid", "check">>,
     <<"conservation", "tray">>, <<"rapid", "tray">> >>

(* The controllers that are updated after one was clicked: itself first.   *)
Dependents(c) ==
  IF c[2] = "check"
    THEN << <<Other(c[1]), "check">>, <<"conservation", "tray">>,
            <<"rapid", "tray">> >>
    ELSE << <<"conservation", "check">>, <<"rapid", "check">>,
            <<Other(c[1]), "tray">> >>

IsBusy(p) == todo[p] # << >>

NoRequest == [feature |-> "rapid", value |-> FALSE, clean |-> FALSE, set |-> FALSE]

Init ==
  /\ exists \in SUBSET Features
  /\ viaCli \in BOOLEAN
  /\ on \in {o \in [Features -> BOOLEAN] :
               ~(o["rapid"] /\ o["conservation"])
               /\ \A f \in Features \ exists : ~o[f]}
  /\ todo = [p \in Processes |-> << >>] /\ shows = << >>
  /\ asked = [p \in Processes |-> NoRequest]
  /\ own \in {<<"conservation", "check">>}
  /\ checked = [c \in Controllers |-> on[c[1]]]
  /\ stale = {}
  /\ requests = [p \in Processes |-> 0] /\ failures = 0
  /\ overlapped = FALSE /\ silent = FALSE /\ unseen = FALSE

(* Process p is asked for f to be v, by a set or by a compare first.       *)
Starts(p, f, v, set) ==
  /\ ~IsBusy(p) /\ (p = "gui" => shows = << >>) /\ f \in exists
  /\ requests[p] < MaxRequests
  /\ requests' = [requests EXCEPT ![p] = @ + 1]
  /\ asked' = [asked EXCEPT ![p] =
                 [feature |-> f, value |-> v, clean |-> TRUE, set |-> set]]
  /\ overlapped' = (overlapped \/ IsBusy(IF p = "gui" THEN "cli" ELSE "gui"))
  /\ UNCHANGED <<exists, viaCli, on, stale, failures, silent>>

(* BoolFeatureController and BoolFeatureTrayController: Qt has switched the*)
(* check mark, the handler sets the feature and reads it back; then it has *)
(* the dependent controllers read theirs.                                  *)
Click(c) ==
  /\ Starts("gui", c[1], ~checked[c], TRUE)
  /\ checked' = [checked EXCEPT ![c] = ~@]
  /\ own' = c
  /\ unseen' = FALSE
  /\ todo' = [todo EXCEPT !["gui"] = SetSteps(c[1], ~checked[c])]
  /\ shows' = <<c>> \o Dependents(c)

(* batteryconservation-enable, rapid-charging-disable and so on            *)
Command(f, v) ==
  /\ Starts("cli", f, v, TRUE)
  /\ todo' = [todo EXCEPT !["cli"] = SetSteps(f, v)]
  /\ UNCHANGED <<shows, own, checked, unseen>>

(* CustomConservationController.run, outside of the limits                 *)
Apply(charge, low, up) ==
  LET v == charge > up IN
  /\ charge > up \/ charge < low
  /\ Starts("cli", "conservation", v, FALSE)
  /\ todo' = [todo EXCEPT !["cli"] = <<Compare("conservation", v)>>]
  /\ UNCHANGED <<shows, own, checked, unseen>>

(* Variant for mutation: set_if_not_set skips the wrong case.              *)
NeedsSetSwapped(step) == on[step.feature] = step.value

NeedsSet(step) == on[step.feature] # step.value

(* set_if_not_set                                                          *)
Compares(p) ==
  /\ IsBusy(p) /\ Head(todo[p]).op = "compare"
  /\ LET step == Head(todo[p])
         needed == NeedsSet(step)
     IN /\ todo' = [todo EXCEPT ![p] =
               IF needed THEN SetSteps(step.feature, step.value) ELSE << >>]
        /\ asked' = [asked EXCEPT ![p].set = needed]
  /\ UNCHANGED <<exists, viaCli, on, shows, own, checked, stale, requests, failures,
                 hidden>>

Writes(p) ==
  /\ IsBusy(p) /\ Head(todo[p]).op = "write"
  /\ on' = [on EXCEPT ![Head(todo[p]).feature] = Head(todo[p]).value]
  /\ todo' = [todo EXCEPT ![p] = Tail(@)]
  /\ asked' = [q \in Processes |->
                 IF q = p THEN asked[q] ELSE [asked[q] EXCEPT !.clean = FALSE]]
  /\ unseen' = (unseen \/ p # "gui")
  /\ UNCHANGED <<exists, viaCli, shows, own, checked, stale, requests, failures,
                 overlapped, silent>>

Failure(p) ==
  /\ failures < MaxFailures /\ failures' = failures + 1
  /\ asked' = [asked EXCEPT ![p].clean = FALSE]
  /\ UNCHANGED <<exists, viaCli, on, own, checked, requests>>

(* An access fails and an exception leaves the request: it ends a command; *)
(* the handler of a click still has the dependent controllers updated.     *)
Raises(p) ==
  /\ IsBusy(p) /\ Failure(p)
  /\ todo' = [todo EXCEPT ![p] = << >>]
  /\ IF p = "gui" THEN shows' = Tail(shows) /\ stale' = stale \cup {own}
                  ELSE UNCHANGED <<shows, stale>>
  /\ UNCHANGED hidden

(* write_file_with_legion_cli logs the exit code and goes on.              *)
FailsSilently ==
  /\ viaCli /\ IsBusy("gui") /\ Failure("gui")
  /\ todo' = [todo EXCEPT !["gui"] = Tail(@)]
  /\ silent' = TRUE
  /\ UNCHANGED <<shows, stale, overlapped, unseen>>

(* A controller reads its feature; one without a file is disabled.         *)
Shows ==
  /\ ~IsBusy("gui") /\ shows # << >>
  /\ LET c == Head(shows) IN
     IF c[1] \in exists
       THEN checked' = [checked EXCEPT ![c] = on[c[1]]] /\ stale' = stale \ {c}
       ELSE UNCHANGED <<checked, stale>>
  /\ shows' = Tail(shows)
  /\ UNCHANGED <<exists, viaCli, on, todo, asked, own, requests, failures, hidden>>

ShowFails ==
  /\ ~IsBusy("gui") /\ shows # << >> /\ Head(shows)[1] \in exists
  /\ Failure("gui")
  /\ stale' = stale \cup {Head(shows)}
  /\ shows' = Tail(shows)
  /\ UNCHANGED <<todo, hidden>>

Next ==
  \/ \E c \in Controllers : Click(c)
  \/ \E f \in Features, v \in BOOLEAN : Command(f, v)
  \/ \E charge \in Charges, limits \in Limits :
       Apply(charge, limits[1], limits[2])
  \/ \E p \in Processes : Compares(p) \/ Writes(p) \/ Raises(p)
  \/ FailsSilently
  \/ Shows
  \/ ShowFails

Spec == Init /\ [][Next]_vars

------------------------------------------------------------------------------
(* The variables have their types: at most two writes and four controllers *)
(* are outstanding, and only a file that is there is ever switched on.     *)
TypeOK ==
  /\ exists \subseteq Features /\ viaCli \in BOOLEAN
  /\ on \in [Features -> BOOLEAN] /\ \A f \in Features \ exists : ~on[f]
  /\ DOMAIN todo = Processes /\ \A p \in Processes : Len(todo[p]) \in 0..2
  /\ Len(shows) \in 0..4
  /\ asked \in [Processes -> [feature : Features, value : BOOLEAN, clean : BOOLEAN,
                             set : BOOLEAN]]
  /\ checked \in [Controllers -> BOOLEAN]
  /\ stale \subseteq {c \in Controllers : c[1] \in exists}
  /\ own \in Controllers
  /\ requests \in [Processes -> 0..MaxRequests] /\ failures \in 0..MaxFailures
  /\ overlapped \in BOOLEAN /\ silent \in BOOLEAN /\ unseen \in BOOLEAN

(* "disable rapid charging when enabling battery conservation" and the     *)
(* other way round: at no moment are both on, whatever fails, but when two *)
(* processes' requests have met, or when the GUI did not hear that another *)
(* process failed to switch one off.                                       *)
NotBoth ==
  on["conservation"] /\ on["rapid"] => overlapped \/ silent

(* A request that was carried out without an error, and after which nobody *)
(* else wrote, is in effect; if it switched a feature on the other one is  *)
(* off, even when both were on before.  (A request of set_if_not_set that  *)
(* found its value does not look at the other one.)                        *)
AskedIsDone ==
  \A p \in Processes :
    asked[p].clean /\ ~IsBusy(p) =>
      /\ on[asked[p].feature] = asked[p].value
      /\ asked[p].value /\ asked[p].set => ~on[Other(asked[p].feature)]

(* When the GUI has handled a click its four controllers show the firmware,*)
(* except one that could not read and unless another process wrote since   *)
(* the click: switching one feature shows that the other went off.         *)
ViewAgrees ==
  ~IsBusy("gui") /\ shows = << >> /\ ~unseen =>
    \A c \in Controllers \ stale :
      c[1] \in exists => checked[c] = on[c[1]]
==============================================================================
