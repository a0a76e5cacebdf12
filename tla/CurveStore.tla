------------------------------ MODULE CurveStore ------------------------------
(***************************************************************************)
(* What the users of the fan-curve files rely on, without saying how the   *)
(* driver does it: there is one curve, every store and every show takes    *)
(* effect at one instant between its call and its return, and a store      *)
(* changes what it names.  FanCurve describes how the driver builds this   *)
(* out of reading and writing whole tables under fancurve_mutex.           *)
(*                                                                         *)
(* Two things the driver cannot exclude are said openly.  The firmware may *)
(* load another curve at any time, also in the middle of a store, and a    *)
(* table that cannot be read is replaced by an older one.  Such a call is  *)
(* "overlapped", and nothing is promised of the curve it leaves or shows.  *)
(***************************************************************************)

CONSTANTS Threads,            \* user processes
          Requests,           \* calls they may make
          NoCall, Pending,    \* no call, a call without a result yet
          Loads(_),           \* curves the firmware may load
          IsStore(_),         \* requests that change an attribute
          IsShow(_),          \* requests that return a curve
          Stored(_, _, _, _, _), \* from a curve to a curve by a store
          Seen(_, _, _)       \* a curve, shown where another one is held

VARIABLES kind,               \* the kind of machine
          curve,              \* the curve the controller holds
          call,               \* call[t]: the request of thread t, or NoCall
          ret,                \* ret[t]: its result, or Pending
          overlapped          \* overlapped[t]: see above

storeVars == <<kind, curve, call, ret, overlapped>>

StoreInit ==
  /\ curve \in Loads(kind)
  /\ call = [t \in Threads |-> NoCall]
  /\ ret = [t \in Threads |-> Pending]
  /\ overlapped = [t \in Threads |-> FALSE]

InProgress(t) == call[t] # NoCall /\ ret[t] = Pending

StoreCall(t, r) ==
  /\ call[t] = NoCall
  /\ call' = [call EXCEPT ![t] = r]
  /\ UNCHANGED <<kind, curve, ret, overlapped>>

(* The result of thread t is settled, and that of no other one.            *)
Settles(t) ==
  /\ InProgress(t)
  /\ ret'[t] # Pending
  /\ ret' = [ret EXCEPT ![t] = ret'[t]]
  /\ UNCHANGED <<kind, call>>

(* The instant at which a store takes effect.  One that reports an error   *)
(* may have taken effect nonetheless.                                      *)
StoreApplies(t) ==
  /\ Settles(t)
  /\ IsStore(call[t])
  /\ overlapped[t] \/ Stored(kind, curve, curve', call[t], ret'[t].err)
  /\ UNCHANGED overlapped

(* A call that leaves the curve alone: a show, a switch of the lock, a     *)
(* store that is refused.  What a show returns is the curve of this        *)
(* instant, unless it had to return an older one.                          *)
StoreAnswers(t) ==
  /\ Settles(t)
  /\ IsStore(call[t]) => ret'[t].err # "ok"
  /\ \E o \in BOOLEAN :
       /\ overlapped' = [overlapped EXCEPT ![t] = @ \/ o]
       /\ IsShow(call[t]) /\ ret'[t].err = "ok" /\ ~overlapped'[t]
            => Seen(kind, ret'[t].curve, curve)
  /\ UNCHANGED curve

(* A store whose table could not be read goes on with an older one.        *)
StandIn(t) ==
  /\ InProgress(t)
  /\ IsStore(call[t])
  /\ overlapped' = [overlapped EXCEPT ![t] = TRUE]
  /\ UNCHANGED <<kind, curve, call, ret>>

StoreReturns(t) ==
  /\ call[t] # NoCall /\ ret[t] # Pending
  /\ call' = [call EXCEPT ![t] = NoCall]
  /\ ret' = [ret EXCEPT ![t] = Pending]
  /\ overlapped' = [overlapped EXCEPT ![t] = FALSE]
  /\ UNCHANGED <<kind, curve>>

(* The user asks for the default curve of a power mode.                    *)
StoreDefaults(t) ==
  /\ Settles(t)
  /\ call[t].op = "defaults"
  /\ curve' \in Loads(kind)
  /\ overlapped' = [overlapped EXCEPT ![t] = TRUE]

(* The firmware loads a curve of its own, and overlaps the call that is    *)
(* being served.                                                           *)
StoreLoads ==
  /\ curve' \in Loads(kind)
  /\ \/ UNCHANGED overlapped
     \/ \E t \in Threads :
          call[t] # NoCall /\ overlapped' = [overlapped EXCEPT ![t] = TRUE]
  /\ UNCHANGED <<kind, call, ret>>

StoreNext ==
  \/ \E t \in Threads :
       \/ \E r \in Requests : StoreCall(t, r)
       \/ StoreApplies(t) \/ StoreAnswers(t) \/ StandIn(t)
       \/ StoreReturns(t) \/ StoreDefaults(t)
  \/ StoreLoads

StoreSpec == StoreInit /\ [][StoreNext]_storeVars
==============================================================================
