-------------------------------- MODULE EcRam --------------------------------
(***************************************************************************)
(* What the callers of ecram_read() and ecram_write() rely on: the RAM of  *)
(* the embedded controller is an array of bytes, and every access of every *)
(* kernel thread takes effect at one instant between its call and its      *)
(* return.  EcPortIo describes how the driver builds this out of byte-wide *)
(* port accesses.                                                          *)
(***************************************************************************)

CONSTANTS Threads,      \* kernel threads that run the driver's handlers
          Offsets,      \* the u16 offsets of the EC RAM that are accessed
          Values,       \* the u8 values that are stored there
          NoCall,       \* call[t] of a thread that is outside of ecram_*()
          NoValue,      \* the missing value of a read request
          Pending,      \* ret[t] before the access has taken effect
          Done          \* ret[t] of a write that has taken effect

VARIABLES ec_readonly,  \* module parameter, fixed at load: writes are skipped
          mem,          \* content of the EC RAM
          call,         \* call[t]: the request thread t has passed in
          ret           \* ret[t]: what the access of thread t has returned

ramVars == <<ec_readonly, mem, call, ret>>

Request == [op : {"read"}, off : Offsets, val : {NoValue}]
             \cup [op : {"write"}, off : Offsets, val : Values]

RamTypeOK ==
  /\ ec_readonly \in BOOLEAN
  /\ mem \in [Offsets -> Values]
  /\ call \in [Threads -> Request \cup {NoCall}]
  /\ ret \in [Threads -> Values \cup {Pending, Done}]

RamInit ==
  /\ ec_readonly \in BOOLEAN
  /\ mem \in [Offsets -> Values]
  /\ call = [t \in Threads |-> NoCall]
  /\ ret = [t \in Threads |-> Pending]

RamCall(t, r) ==
  /\ call[t] = NoCall
  /\ call' = [call EXCEPT ![t] = r]
  /\ ret' = [ret EXCEPT ![t] = Pending]
  /\ UNCHANGED <<ec_readonly, mem>>

(* The instant at which a read takes the value it will return.             *)
RamRead(t) ==
  /\ call[t] # NoCall
  /\ call[t].op = "read"
  /\ ret[t] = Pending
  /\ ret' = [ret EXCEPT ![t] = mem[call[t].off]]
  /\ UNCHANGED <<ec_readonly, mem, call>>

(* The instant at which a write takes effect.                              *)
RamWrite(t) ==
  /\ call[t] # NoCall
  /\ call[t].op = "write"
  /\ ~ec_readonly
  /\ ret[t] = Pending
  /\ mem' = [mem EXCEPT ![call[t].off] = call[t].val]
  /\ ret' = [ret EXCEPT ![t] = Done]
  /\ UNCHANGED <<ec_readonly, call>>

(* A write of a driver that was loaded with ec_readonly has no effect.     *)
RamSkip(t) ==
  /\ call[t] # NoCall
  /\ call[t].op = "write"
  /\ ec_readonly
  /\ ret[t] = Pending
  /\ ret' = [ret EXCEPT ![t] = Done]
  /\ UNCHANGED <<ec_readonly, mem, call>>

RamReturn(t) ==
  /\ call[t] # NoCall
  /\ ret[t] # Pending
  /\ call' = [call EXCEPT ![t] = NoCall]
  /\ UNCHANGED <<ec_readonly, mem, ret>>

(* The controller's own firmware updates its RAM (sensors, fan control).   *)
RamFirmware(a, v) ==
  /\ mem' = [mem EXCEPT ![a] = v]
  /\ UNCHANGED <<ec_readonly, call, ret>>

RamNext ==
  \/ \E t \in Threads :
       \/ \E r \in Request : RamCall(t, r)
       \/ RamRead(t)
       \/ RamWrite(t)
       \/ RamSkip(t)
       \/ RamReturn(t)
  \/ \E a \in Offsets, v \in Values : RamFirmware(a, v)

RamSpec == RamInit /\ [][RamNext]_ramVars
==============================================================================
