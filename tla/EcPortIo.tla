------------------------------- MODULE EcPortIo -------------------------------
(***************************************************************************)
(* ecram_read() and ecram_write() of legion-laptop.c at the granularity of *)
(* single outb/inb instructions.  One byte of EC RAM is reached by twelve  *)
(* port accesses: select an internal register through the super-I/O index, *)
(* latch the high byte of the offset, then the low byte, then move the     *)
(* data.  The chip keeps the selections and latches between instructions   *)
(* and does not know which thread they belong to, so io_port_mutex has to  *)
(* keep the twelve accesses of one thread together.                        *)
(***************************************************************************)
EXTENDS Integers, Sequences

CONSTANTS Threads, Offsets, Values,
          NoCall, NoValue, Pending, Done, NoOwner

(* The halves of a u16 offset, and the offset the chip makes of them.      *)
HiByte(off) == (off \div 256) % 256
LoByte(off) == off % 256
Joined(h, l) == 256 * h + l

HiBytes == {HiByte(a) : a \in Offsets}
LoBytes == {LoByte(a) : a \in Offsets}

ASSUME OffsetsAssumption == \A a \in Offsets : a \in Nat /\ a < 65536
ASSUME TokensAssumption ==
  /\ NoOwner \notin Threads
  /\ Pending \notin Values /\ Done \notin Values /\ Pending # Done
  /\ NoCall \notin [op : {"read"}, off : Offsets, val : {NoValue}]
                     \cup [op : {"write"}, off : Offsets, val : Values]

VARIABLES
  mem, call, ret,       \* as in EcRam
  ec_readonly,          \* module parameter, fixed when the module is loaded
  io_port_mutex,        \* the thread that holds the mutex, or NoOwner
  pc,                   \* where a thread is in ecram_portio_read/write
  at,                   \* at[t]: the next of thread t's twelve port accesses
  sioIndex,             \* last byte written to ECRAM_PORTIO_ADDR_PORT
  d2Index,              \* internal register selected through 0x2E
  hi, lo                \* latched halves of the offset

portVars == <<sioIndex, d2Index, hi, lo>>
threadVars == <<io_port_mutex, pc, at>>
vars == <<mem, call, ret, ec_readonly, threadVars, portVars>>

Ram == INSTANCE EcRam
Request == Ram!Request

SIO_D2ADDR == 46        \* 0x2E: the next data byte selects a register
SIO_D2DATA == 47        \* 0x2F: the next data byte goes to that register
D2_ADDR_LO == 16        \* 0x10
D2_ADDR_HI == 17        \* 0x11
D2_RAM     == 18        \* 0x12

(* Variant for mutation: the two halves of the offset are exchanged.       *)
PortBytesSwapped(r) ==
  << SIO_D2ADDR, D2_ADDR_HI, SIO_D2DATA, LoByte(r.off),
     SIO_D2ADDR, D2_ADDR_LO, SIO_D2DATA, HiByte(r.off),
     SIO_D2ADDR, D2_RAM,     SIO_D2DATA, r.val >>

(* The bytes of the twelve accesses, in program order: odd ones go to the  *)
(* address port and even ones to the data port.  The twelfth is inb() when *)
(* the request is a read.                                                  *)
PortBytes(r) ==
  << SIO_D2ADDR, D2_ADDR_HI, SIO_D2DATA, HiByte(r.off),
     SIO_D2ADDR, D2_ADDR_LO, SIO_D2DATA, LoByte(r.off),
     SIO_D2ADDR, D2_RAM,     SIO_D2DATA, r.val >>
Accesses == 12
ToAddrPort(n) == n % 2 = 1

TypeOK ==
  /\ Ram!RamTypeOK
  /\ io_port_mutex \in Threads \cup {NoOwner}
  /\ pc \in [Threads -> {"idle", "lock", "ports", "unlock", "return"}]
  /\ at \in [Threads -> 1..Accesses]
  /\ sioIndex \in {SIO_D2ADDR, SIO_D2DATA}
  /\ d2Index \in {D2_ADDR_LO, D2_ADDR_HI, D2_RAM}
  /\ hi \in HiBytes
  /\ lo \in LoBytes

(* Any selection, and the latched halves of any offsets, may be left over  *)
(* from earlier accesses.                                                  *)
Init ==
  /\ Ram!RamInit
  /\ io_port_mutex = NoOwner
  /\ pc = [t \in Threads |-> "idle"]
  /\ at = [t \in Threads |-> 1]
  /\ sioIndex \in {SIO_D2ADDR, SIO_D2DATA}
  /\ d2Index \in {D2_ADDR_LO, D2_ADDR_HI, D2_RAM}
  /\ hi \in HiBytes
  /\ lo \in LoBytes

(* ecram_read() or ecram_write() is called.                                *)
Enter(t, r) ==
  /\ pc[t] = "idle"
  /\ call' = [call EXCEPT ![t] = r]
  /\ ret' = [ret EXCEPT ![t] = Pending]
  /\ pc' = [pc EXCEPT ![t] = IF r.op = "write" /\ ec_readonly
                               THEN "return" ELSE "lock"]
  /\ at' = [at EXCEPT ![t] = 1]
  /\ UNCHANGED <<ec_readonly, mem, io_port_mutex, portVars>>

(* ecram_write() of a driver loaded with ec_readonly logs and returns.     *)
SkipWrite(t) ==
  /\ pc[t] = "return"
  /\ ret[t] = Pending
  /\ ret' = [ret EXCEPT ![t] = Done]
  /\ UNCHANGED <<ec_readonly, mem, call, threadVars, portVars>>

(* Variant for mutation: the mutex is taken without waiting for it.        *)
LockWithoutWaiting(t) ==
  /\ pc[t] = "lock"
  /\ io_port_mutex' = t
  /\ pc' = [pc EXCEPT ![t] = "ports"]
  /\ UNCHANGED <<ec_readonly, mem, call, ret, at, portVars>>

(* mutex_lock(&ec_portio->io_port_mutex)                                   *)
Lock(t) ==
  /\ pc[t] = "lock"
  /\ io_port_mutex = NoOwner
  /\ io_port_mutex' = t
  /\ pc' = [pc EXCEPT ![t] = "ports"]
  /\ UNCHANGED <<ec_readonly, mem, call, ret, at, portVars>>

(* Variant for mutation: one access too many.                              *)
AdvancePast(t) ==
  IF at[t] > Accesses
    THEN pc' = [pc EXCEPT ![t] = "unlock"] /\ UNCHANGED at
    ELSE at' = [at EXCEPT ![t] = @ + 1] /\ UNCHANGED pc

(* The program counter after one of the twelve accesses.                   *)
Advance(t) ==
  IF at[t] = Accesses
    THEN pc' = [pc EXCEPT ![t] = "unlock"] /\ UNCHANGED at
    ELSE at' = [at EXCEPT ![t] = @ + 1] /\ UNCHANGED pc

(* outb(byte, ECRAM_PORTIO_ADDR_PORT)                                      *)
OutbAddr(t) ==
  /\ pc[t] = "ports"
  /\ ToAddrPort(at[t])
  /\ sioIndex' = PortBytes(call[t])[at[t]]
  /\ Advance(t)
  /\ UNCHANGED <<ec_readonly, mem, call, ret, io_port_mutex, d2Index, hi, lo>>

RamSelected == sioIndex = SIO_D2DATA /\ d2Index = D2_RAM

(* The chip's reaction to a byte on its data port.  A byte for an offset   *)
(* outside of Offsets lands in RAM that is not modelled.                   *)
ChipTakes(byte) ==
  \/ /\ sioIndex = SIO_D2ADDR
     /\ d2Index' = byte
     /\ UNCHANGED <<mem, hi, lo>>
  \/ /\ sioIndex = SIO_D2DATA /\ d2Index = D2_ADDR_HI
     /\ hi' = byte
     /\ UNCHANGED <<mem, d2Index, lo>>
  \/ /\ sioIndex = SIO_D2DATA /\ d2Index = D2_ADDR_LO
     /\ lo' = byte
     /\ UNCHANGED <<mem, d2Index, hi>>
  \/ /\ RamSelected
     /\ mem' = [a \in Offsets |-> IF a = Joined(hi, lo) THEN byte ELSE mem[a]]
     /\ UNCHANGED <<d2Index, hi, lo>>

(* The twelfth access of a read is inb, every other even one is outb.      *)
IsInb(t) == at[t] = Accesses /\ call[t].op = "read"

(* outb(byte, ECRAM_PORTIO_DATA_PORT)                                      *)
OutbData(t) ==
  /\ pc[t] = "ports"
  /\ ~ToAddrPort(at[t])
  /\ ~IsInb(t)
  /\ ChipTakes(PortBytes(call[t])[at[t]])
  /\ ret' = IF at[t] = Accesses THEN [ret EXCEPT ![t] = Done] ELSE ret
  /\ Advance(t)
  /\ UNCHANGED <<ec_readonly, call, io_port_mutex, sioIndex>>

(* *value = inb(ECRAM_PORTIO_DATA_PORT): the addressed byte, or anything   *)
(* when another register or RAM that is not modelled is selected.          *)
InbData(t) ==
  /\ pc[t] = "ports"
  /\ IsInb(t)
  /\ \E v \in Values :
       /\ RamSelected /\ Joined(hi, lo) \in Offsets => v = mem[Joined(hi, lo)]
       /\ ret' = [ret EXCEPT ![t] = v]
  /\ Advance(t)
  /\ UNCHANGED <<ec_readonly, mem, call, io_port_mutex, portVars>>

(* Variant for mutation: the function returns with the mutex held.         *)
UnlockForgotten(t) ==
  /\ pc[t] = "unlock"
  /\ pc' = [pc EXCEPT ![t] = "return"]
  /\ UNCHANGED <<ec_readonly, mem, call, ret, io_port_mutex, at, portVars>>

(* mutex_unlock(&ec_portio->io_port_mutex)                                 *)
Unlock(t) ==
  /\ pc[t] = "unlock"
  /\ io_port_mutex' = NoOwner
  /\ pc' = [pc EXCEPT ![t] = "return"]
  /\ UNCHANGED <<ec_readonly, mem, call, ret, at, portVars>>

Return(t) ==
  /\ pc[t] = "return"
  /\ ret[t] # Pending
  /\ call' = [call EXCEPT ![t] = NoCall]
  /\ pc' = [pc EXCEPT ![t] = "idle"]
  /\ UNCHANGED <<ec_readonly, mem, ret, io_port_mutex, at, portVars>>

(* The firmware of the controller updates its RAM behind the ports.        *)
Firmware(a, v) ==
  /\ mem' = [mem EXCEPT ![a] = v]
  /\ UNCHANGED <<ec_readonly, call, ret, threadVars, portVars>>

Step(t) ==
  SkipWrite(t) \/ OutbAddr(t) \/ OutbData(t) \/ InbData(t) \/ Unlock(t) \/ Return(t)

Next ==
  \/ \E t \in Threads : (\E r \in Request : Enter(t, r)) \/ Lock(t) \/ Step(t)
  \/ \E a \in Offsets, v \in Values : Firmware(a, v)

Spec == Init /\ [][Next]_vars

(* A thread inside ecram_*() keeps running, and a kernel mutex is handed   *)
(* to its waiters in turn, so no waiter is passed over forever.  Nobody is *)
(* obliged to call, and the firmware is not obliged to write.              *)
Fairness == \A t \in Threads : WF_vars(Step(t)) /\ SF_vars(Lock(t))
FairSpec == Spec /\ Fairness

------------------------------------------------------------------------------
(* The selections and latches the chip must hold when thread t is about to *)
(* issue its n-th access.                                                  *)
Latched(t, n) ==
  /\ n > 1 => sioIndex = IF n % 4 \in {2, 3} THEN SIO_D2ADDR ELSE SIO_D2DATA
  /\ n \in 3..6 => d2Index = D2_ADDR_HI
  /\ n \in 7..10 => d2Index = D2_ADDR_LO
  /\ n \in 11..12 => d2Index = D2_RAM
  /\ n > 4 => hi = HiByte(call[t].off)
  /\ n > 8 => lo = LoByte(call[t].off)

(* No thread ever issues a port access while the chip holds a selection or *)
(* a latched offset that belongs to another thread's access: what the      *)
(* mutex around ecram_portio_read/write is for.                            *)
LatchesAreOwn == \A t \in Threads : pc[t] = "ports" => Latched(t, at[t])

(* Who holds the mutex, and how far its request has come: the parts that   *)
(* make LatchesAreOwn inductive and tie the port accesses to the calls.    *)
MutexInv ==
  \A t \in Threads : pc[t] \in {"ports", "unlock"} <=> io_port_mutex = t
ProgressInv ==
  \A t \in Threads :
    /\ pc[t] = "idle" <=> call[t] = NoCall
    /\ pc[t] \in {"lock", "ports"} => ret[t] = Pending
    /\ pc[t] = "lock" => at[t] = 1
    /\ pc[t] = "unlock" => ret[t] # Pending
    /\ pc[t] \in {"lock", "ports"} /\ call[t].op = "write" => ~ec_readonly
    /\ pc[t] = "return" /\ ret[t] = Pending
         => call[t].op = "write" /\ ec_readonly
Inv == TypeOK /\ MutexInv /\ ProgressInv /\ LatchesAreOwn

(* The driver's port sequences implement the atomic EC RAM.                *)
RamImplemented == Ram!RamSpec

(* Every call of ecram_read() or ecram_write() returns.                    *)
EveryAccessReturns ==
  \A t \in Threads : (call[t] # NoCall) ~> (call[t] = NoCall)
==============================================================================
