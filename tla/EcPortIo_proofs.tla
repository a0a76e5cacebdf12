--------------------------- MODULE EcPortIo_proofs ---------------------------
(***************************************************************************)
(* For any set of threads, of u16 offsets and of bytes: the port accesses  *)
(* of EcPortIo never use another thread's latches, and they implement the  *)
(* atomic EC RAM of EcRam.                                                 *)
(***************************************************************************)
EXTENDS EcPortIo, TLAPS

USE DEF Accesses, ToAddrPort, IsInb, SIO_D2ADDR, SIO_D2DATA,
        D2_ADDR_LO, D2_ADDR_HI, D2_RAM

(* The chip joins the two bytes of an offset to that same offset.          *)
LEMMA JoinedHalves ==
  ASSUME NEW off \in Nat, off < 65536
  PROVE  Joined(HiByte(off), LoByte(off)) = off
<1>1. /\ off \div 256 \in Int
      /\ off % 256 \in Int
      /\ 0 <= off % 256 /\ off % 256 < 256
      /\ off = 256 * (off \div 256) + (off % 256)
  OBVIOUS
<1>2. 0 <= off \div 256 /\ off \div 256 < 256
  BY <1>1
<1>3. (off \div 256) % 256 = off \div 256
  BY <1>1, <1>2
<1> QED
  BY <1>1, <1>3 DEF Joined, HiByte, LoByte

(* A thread that is not idle has passed in a well-formed request.          *)
LEMMA BusyRequest ==
  ASSUME Inv, NEW t \in Threads, pc[t] # "idle"
  PROVE  /\ call[t] \in Request
         /\ call[t].op \in {"read", "write"}
         /\ call[t].off \in Offsets
         /\ call[t].off \in Nat
         /\ call[t].off < 65536
         /\ call[t].op = "write" => call[t].val \in Values
         /\ HiByte(call[t].off) \in HiBytes
         /\ LoByte(call[t].off) \in LoBytes
<1>1. call[t] \in Request
  BY DEF Inv, TypeOK, ProgressInv, Ram!RamTypeOK, Request
<1>2. /\ call[t].op \in {"read", "write"}
      /\ call[t].off \in Offsets
      /\ call[t].op = "write" => call[t].val \in Values
  BY <1>1 DEF Request, Ram!Request
<1>3. QED
  BY <1>1, <1>2, OffsetsAssumption DEF HiBytes, LoBytes

(* Every request differs from NoCall.                                      *)
LEMMA RequestIsCall ==
  ASSUME NEW r \in Request
  PROVE  r # NoCall /\ r.op \in {"read", "write"}
BY TokensAssumption DEF Request, Ram!Request

(* At its last access a thread finds its own offset latched.               *)
LEMMA LastAccess ==
  ASSUME Inv, NEW t \in Threads, pc[t] = "ports", at[t] = 12
  PROVE  RamSelected /\ Joined(hi, lo) = call[t].off
<1>1. Latched(t, 12)
  BY DEF Inv, LatchesAreOwn
<1>2. RamSelected /\ hi = HiByte(call[t].off) /\ lo = LoByte(call[t].off)
  BY <1>1 DEF Latched, RamSelected
<1>3. call[t].off \in Nat /\ call[t].off < 65536
  BY BusyRequest
<1>4. QED
  BY <1>2, <1>3, JoinedHalves

LEMMA InitInv == Init => Inv
<1> SUFFICES ASSUME Init PROVE Inv
  OBVIOUS
<1>1. TypeOK
  BY DEF Init, TypeOK, Ram!RamInit, Ram!RamTypeOK
<1>2. MutexInv
  BY TokensAssumption DEF Init, MutexInv
<1>3. ProgressInv
  BY DEF Init, ProgressInv, Ram!RamInit
<1>4. LatchesAreOwn
  BY DEF Init, LatchesAreOwn
<1> QED
  BY <1>1, <1>2, <1>3, <1>4 DEF Inv

(* The steps that leave the ports alone.                                   *)
LEMMA EnterInv ==
  ASSUME Inv, NEW t \in Threads, NEW r \in Request, Enter(t, r)
  PROVE  Inv'
<1> USE DEF Enter, portVars
<1>1. TypeOK'
  BY DEF Inv, TypeOK, Ram!RamTypeOK, Request
<1>2. MutexInv'
  BY DEF Inv, TypeOK, MutexInv
<1>3. ProgressInv'
  BY RequestIsCall DEF Inv, TypeOK, Ram!RamTypeOK, ProgressInv
<1>4. LatchesAreOwn'
  BY DEF Inv, TypeOK, LatchesAreOwn, Latched, Ram!RamTypeOK
<1> QED
  BY <1>1, <1>2, <1>3, <1>4 DEF Inv

LEMMA SkipWriteInv ==
  ASSUME Inv, NEW t \in Threads, SkipWrite(t)
  PROVE  Inv'
<1> USE DEF SkipWrite, portVars, threadVars
<1>1. TypeOK'
  BY DEF Inv, TypeOK, Ram!RamTypeOK
<1>2. MutexInv'
  BY DEF Inv, TypeOK, MutexInv
<1>3. ProgressInv'
  BY DEF Inv, TypeOK, Ram!RamTypeOK, MutexInv, ProgressInv
<1>4. LatchesAreOwn'
  BY DEF Inv, TypeOK, MutexInv, LatchesAreOwn, Latched
<1> QED
  BY <1>1, <1>2, <1>3, <1>4 DEF Inv

LEMMA LockInv ==
  ASSUME Inv, NEW t \in Threads, Lock(t)
  PROVE  Inv'
<1> USE DEF Lock, portVars
<1>1. TypeOK'
  BY DEF Inv, TypeOK, Ram!RamTypeOK
<1>2. MutexInv'
  BY TokensAssumption DEF Inv, TypeOK, MutexInv
<1>3. ProgressInv'
  BY DEF Inv, TypeOK, Ram!RamTypeOK, MutexInv, ProgressInv
<1>4. LatchesAreOwn'
  BY DEF Inv, TypeOK, LatchesAreOwn, Latched, ProgressInv
<1> QED
  BY <1>1, <1>2, <1>3, <1>4 DEF Inv

LEMMA UnlockInv ==
  ASSUME Inv, NEW t \in Threads, Unlock(t)
  PROVE  Inv'
<1> USE DEF Unlock, portVars
<1>1. TypeOK'
  BY DEF Inv, TypeOK, Ram!RamTypeOK
<1>2. MutexInv'
  BY TokensAssumption DEF Inv, TypeOK, MutexInv
<1>3. ProgressInv'
  BY DEF Inv, TypeOK, Ram!RamTypeOK, MutexInv, ProgressInv
<1>4. LatchesAreOwn'
  BY DEF Inv, TypeOK, MutexInv, LatchesAreOwn, Latched
<1> QED
  BY <1>1, <1>2, <1>3, <1>4 DEF Inv

LEMMA ReturnInv ==
  ASSUME Inv, NEW t \in Threads, Return(t)
  PROVE  Inv'
<1> USE DEF Return, portVars
<1>1. TypeOK'
  BY DEF Inv, TypeOK, Ram!RamTypeOK
<1>2. MutexInv'
  BY DEF Inv, TypeOK, MutexInv
<1>3. ProgressInv'
  BY DEF Inv, TypeOK, Ram!RamTypeOK, MutexInv, ProgressInv
<1>4. LatchesAreOwn'
  BY DEF Inv, TypeOK, MutexInv, LatchesAreOwn, Latched
<1> QED
  BY <1>1, <1>2, <1>3, <1>4 DEF Inv

(* Only the owner of the mutex is at the ports, so a step of the owner that *)
(* keeps its own latches in order keeps everybody's.                        *)
LEMMA OwnerAlone ==
  ASSUME Inv, NEW t \in Threads, NEW u \in Threads,
         pc[t] = "ports", pc[u] \in {"ports", "unlock"}
  PROVE  u = t
BY DEF Inv, MutexInv

(* Selecting a register: odd accesses.                                     *)
LEMMA OutbAddrInv ==
  ASSUME Inv, NEW t \in Threads, OutbAddr(t)
  PROVE  Inv'
<1> USE DEF OutbAddr, Advance
<1> DEFINE n == at[t]
<1>1. n \in {1, 3, 5, 7, 9, 11}
  BY DEF Inv, TypeOK
<1>2. /\ at' = [at EXCEPT ![t] = n + 1]
      /\ pc' = pc
      /\ sioIndex' = IF n \in {1, 5, 9} THEN 46 ELSE 47
  BY <1>1 DEF PortBytes
<1>3. TypeOK'
  BY <1>1, <1>2 DEF Inv, TypeOK, Ram!RamTypeOK
<1>4. MutexInv'
  BY <1>2 DEF Inv, MutexInv
<1>5. ProgressInv'
  BY <1>2 DEF Inv, ProgressInv
<1>6. ASSUME NEW u \in Threads, pc'[u] = "ports"
      PROVE  Latched(u, at[u])'
  <2>1. u = t
    BY <1>2, <1>6, OwnerAlone
  <2>2. Latched(t, n)
    BY DEF Inv, LatchesAreOwn
  <2>3. at'[t] = n + 1
    BY <1>2 DEF Inv, TypeOK
  <2> QED
    BY <1>1, <1>2, <2>1, <2>2, <2>3 DEF Latched
<1> QED
  BY <1>3, <1>4, <1>5, <1>6 DEF Inv, LatchesAreOwn

(* A byte for the data port, before the last access: it selects a register *)
(* or latches half of the offset, and does not touch the RAM.              *)
LEMMA OutbDataEffect ==
  ASSUME Inv, NEW t \in Threads, OutbData(t), at[t] # 12
  PROVE  /\ at[t] \in {2, 4, 6, 8, 10}
         /\ at' = [at EXCEPT ![t] = @ + 1]
         /\ UNCHANGED <<mem, pc, ret, sioIndex, call, io_port_mutex, ec_readonly>>
         /\ hi' = IF at[t] = 4 THEN HiByte(call[t].off) ELSE hi
         /\ lo' = IF at[t] = 8 THEN LoByte(call[t].off) ELSE lo
         /\ d2Index' = CASE at[t] = 2 -> 17
                        [] at[t] = 6 -> 16
                        [] at[t] = 10 -> 18
                        [] OTHER -> d2Index
<1> USE DEF OutbData, Advance
<1>1. at[t] \in {2, 4, 6, 8, 10}
  BY DEF Inv, TypeOK
<1>2. Latched(t, at[t])
  BY DEF Inv, LatchesAreOwn
<1>3. /\ at' = [at EXCEPT ![t] = @ + 1]
      /\ UNCHANGED <<pc, ret, sioIndex, call, io_port_mutex, ec_readonly>>
  BY <1>1
<1>4. ChipTakes(PortBytes(call[t])[at[t]])
  OBVIOUS
<1>5. CASE at[t] \in {2, 6, 10}
  BY <1>2, <1>3, <1>4, <1>5 DEF Latched, ChipTakes, RamSelected, PortBytes
<1>6. CASE at[t] \in {4, 8}
  BY <1>2, <1>3, <1>4, <1>6 DEF Latched, ChipTakes, RamSelected, PortBytes
<1> QED
  BY <1>1, <1>5, <1>6

(* The last access of a write stores its value at its own offset.          *)
LEMMA OutbDataStores ==
  ASSUME Inv, NEW t \in Threads, OutbData(t), at[t] = 12
  PROVE  /\ call[t].op = "write"
         /\ mem' = [mem EXCEPT ![call[t].off] = call[t].val]
         /\ ret' = [ret EXCEPT ![t] = Done]
         /\ pc' = [pc EXCEPT ![t] = "unlock"]
         /\ UNCHANGED <<at, call, io_port_mutex, ec_readonly, portVars>>
<1> USE DEF OutbData, Advance
<1>1. call[t].op = "write" /\ call[t].off \in Offsets
  BY BusyRequest
<1>2. RamSelected /\ Joined(hi, lo) = call[t].off
  BY LastAccess
<1>3. PortBytes(call[t])[at[t]] = call[t].val
  BY DEF PortBytes
<1>4. /\ mem' = [a \in Offsets |-> IF a = call[t].off THEN call[t].val ELSE mem[a]]
      /\ UNCHANGED <<d2Index, hi, lo>>
  BY <1>2, <1>3 DEF ChipTakes, RamSelected
<1>5. mem' = [mem EXCEPT ![call[t].off] = call[t].val]
  BY <1>1, <1>4 DEF Inv, TypeOK, Ram!RamTypeOK
<1> QED
  BY <1>1, <1>4, <1>5 DEF portVars

LEMMA OutbDataInv ==
  ASSUME Inv, NEW t \in Threads, OutbData(t)
  PROVE  Inv'
<1>0. pc[t] = "ports"
  BY DEF OutbData
<1>1. CASE at[t] # 12
  <2> USE OutbDataEffect, <1>0, <1>1
  <2>1. TypeOK'
    BY BusyRequest DEF Inv, TypeOK, Ram!RamTypeOK
  <2>2. MutexInv'
    BY DEF Inv, MutexInv
  <2>3. ProgressInv'
    BY DEF Inv, TypeOK, ProgressInv
  <2>4. ASSUME NEW u \in Threads, pc'[u] = "ports"
        PROVE  Latched(u, at[u])'
    <3>1. u = t
      BY <2>4, OwnerAlone
    <3>2. Latched(t, at[t])
      BY DEF Inv, LatchesAreOwn
    <3>3. at'[t] = at[t] + 1 /\ at[t] \in {2, 4, 6, 8, 10}
      BY DEF Inv, TypeOK
    <3> QED
      BY <3>1, <3>2, <3>3 DEF Latched
  <2> QED
    BY <2>1, <2>2, <2>3, <2>4 DEF Inv, LatchesAreOwn
<1>2. CASE at[t] = 12
  <2> USE OutbDataStores, <1>0, <1>2
  <2>1. TypeOK'
    BY BusyRequest DEF Inv, TypeOK, Ram!RamTypeOK, portVars
  <2>2. MutexInv'
    BY DEF Inv, TypeOK, MutexInv
  <2>3. ProgressInv'
    BY TokensAssumption DEF Inv, TypeOK, Ram!RamTypeOK, ProgressInv
  <2>4. LatchesAreOwn'
    BY DEF Inv, TypeOK, MutexInv, LatchesAreOwn, Latched, portVars
  <2> QED
    BY <2>1, <2>2, <2>3, <2>4 DEF Inv
<1> QED
  BY <1>1, <1>2

(* The last access of a read returns the byte at its own offset.           *)
LEMMA InbDataReads ==
  ASSUME Inv, NEW t \in Threads, InbData(t)
  PROVE  /\ call[t].op = "read"
         /\ mem[call[t].off] \in Values
         /\ ret' = [ret EXCEPT ![t] = mem[call[t].off]]
         /\ pc' = [pc EXCEPT ![t] = "unlock"]
         /\ UNCHANGED <<at, mem, call, io_port_mutex, ec_readonly, portVars>>
<1> USE DEF InbData, Advance
<1>1. call[t].off \in Offsets
  BY BusyRequest
<1>2. RamSelected /\ Joined(hi, lo) = call[t].off
  BY LastAccess
<1> QED
  BY <1>1, <1>2 DEF Inv, TypeOK, Ram!RamTypeOK

LEMMA InbDataInv ==
  ASSUME Inv, NEW t \in Threads, InbData(t)
  PROVE  Inv'
<1>0. pc[t] = "ports"
  BY DEF InbData
<1> USE InbDataReads, <1>0
<1>1. TypeOK'
  BY DEF Inv, TypeOK, Ram!RamTypeOK, portVars
<1>2. MutexInv'
  BY DEF Inv, TypeOK, MutexInv
<1>3. ProgressInv'
  BY TokensAssumption DEF Inv, TypeOK, Ram!RamTypeOK, ProgressInv
<1>4. LatchesAreOwn'
  BY DEF Inv, TypeOK, MutexInv, LatchesAreOwn, Latched, portVars
<1> QED
  BY <1>1, <1>2, <1>3, <1>4 DEF Inv

LEMMA FirmwareInv ==
  ASSUME Inv, NEW a \in Offsets, NEW v \in Values, Firmware(a, v)
  PROVE  Inv'
BY DEF Firmware, threadVars, portVars, Inv, TypeOK, Ram!RamTypeOK, MutexInv,
       ProgressInv, LatchesAreOwn, Latched

LEMMA NextInv == Inv /\ [Next]_vars => Inv'
<1> SUFFICES ASSUME Inv, [Next]_vars PROVE Inv'
  OBVIOUS
<1>1. ASSUME NEW t \in Threads, NEW r \in Request, Enter(t, r) PROVE Inv'
  BY <1>1, EnterInv
<1>2. ASSUME NEW t \in Threads, Lock(t) PROVE Inv'
  BY <1>2, LockInv
<1>3. ASSUME NEW t \in Threads, Step(t) PROVE Inv'
  BY <1>3, SkipWriteInv, OutbAddrInv, OutbDataInv, InbDataInv, UnlockInv,
     ReturnInv DEF Step
<1>4. ASSUME NEW a \in Offsets, NEW v \in Values, Firmware(a, v) PROVE Inv'
  BY <1>4, FirmwareInv
<1>5. CASE UNCHANGED vars
  BY <1>5 DEF vars, threadVars, portVars, Inv, TypeOK, Ram!RamTypeOK, MutexInv,
     ProgressInv, LatchesAreOwn, Latched
<1> QED
  BY <1>1, <1>2, <1>3, <1>4, <1>5 DEF Next

(* Threads, chip registers and requests always have their declared shape:  *)
(* in particular the latches only ever hold bytes of known offsets.        *)
THEOREM TypeCorrect == Spec => []TypeOK
<1>1. Inv => TypeOK
  BY DEF Inv
<1> QED
  BY <1>1, InitInv, NextInv, PTL DEF Spec

(* Whenever a thread issues a port access of ecram_portio_read/write, the  *)
(* selections and latches in the chip are those of its own access.         *)
THEOREM LatchSafety == Spec => []LatchesAreOwn
<1>1. Inv => LatchesAreOwn
  BY DEF Inv
<1> QED
  BY <1>1, InitInv, NextInv, PTL DEF Spec

(* Each step of a thread at the ports is a step, or a stutter, of the      *)
(* atomic RAM.                                                             *)
LEMMA StepImplements ==
  ASSUME Inv, NEW t \in Threads, Step(t)
  PROVE  [Ram!RamNext]_(Ram!ramVars)
<1> USE DEF Ram!ramVars
<1>1. CASE SkipWrite(t)
  <2>1. Ram!RamSkip(t)
    BY <1>1 DEF SkipWrite, Ram!RamSkip, Inv, ProgressInv
  <2> QED
    BY <2>1 DEF Ram!RamNext
<1>2. CASE OutbAddr(t)
  BY <1>2 DEF OutbAddr
<1>3. CASE OutbData(t)
  <2>1. CASE at[t] # 12
    BY <1>3, <2>1, OutbDataEffect
  <2>2. CASE at[t] = 12
    <3>1. pc[t] = "ports"
      BY <1>3 DEF OutbData
    <3>2. Ram!RamWrite(t)
      BY <1>3, <2>2, <3>1, OutbDataStores
         DEF Ram!RamWrite, Inv, ProgressInv
    <3> QED
      BY <3>2 DEF Ram!RamNext
  <2> QED
    BY <2>1, <2>2
<1>4. CASE InbData(t)
  <2>1. pc[t] = "ports"
    BY <1>4 DEF InbData
  <2>2. Ram!RamRead(t)
    BY <1>4, <2>1, InbDataReads DEF Ram!RamRead, Inv, ProgressInv
  <2> QED
    BY <2>2 DEF Ram!RamNext
<1>5. CASE Unlock(t)
  BY <1>5 DEF Unlock
<1>6. CASE Return(t)
  <2>1. Ram!RamReturn(t)
    BY <1>6 DEF Return, Ram!RamReturn, Inv, ProgressInv
  <2> QED
    BY <2>1 DEF Ram!RamNext
<1> QED
  BY <1>1, <1>2, <1>3, <1>4, <1>5, <1>6 DEF Step

LEMMA NextImplements ==
  ASSUME Inv, [Next]_vars
  PROVE  [Ram!RamNext]_(Ram!ramVars)
<1>1. ASSUME NEW t \in Threads, NEW r \in Request, Enter(t, r)
      PROVE  Ram!RamNext
  <2>1. Ram!RamCall(t, r)
    BY <1>1 DEF Enter, Ram!RamCall, Inv, ProgressInv
  <2> QED
    BY <2>1 DEF Ram!RamNext, Request
<1>2. ASSUME NEW t \in Threads, Lock(t)
      PROVE  UNCHANGED Ram!ramVars
  BY <1>2 DEF Lock, Ram!ramVars
<1>3. ASSUME NEW a \in Offsets, NEW v \in Values, Firmware(a, v)
      PROVE  Ram!RamNext
  <2>1. Ram!RamFirmware(a, v)
    BY <1>3 DEF Firmware, Ram!RamFirmware
  <2> QED
    BY <2>1 DEF Ram!RamNext
<1>4. CASE UNCHANGED vars
  BY <1>4 DEF vars, Ram!ramVars
<1> QED
  BY <1>1, <1>2, <1>3, <1>4, StepImplements DEF Next

(* ecram_read() and ecram_write() behave as atomic accesses to the EC RAM. *)
THEOREM Implementation == Spec => RamImplemented
<1>1. Init => Ram!RamInit
  BY DEF Init
<1>2. Inv /\ [Next]_vars => [Ram!RamNext]_(Ram!ramVars)
  BY NextImplements
<1>3. Spec => []Inv
  BY InitInv, NextInv, PTL DEF Spec
<1> QED
  BY <1>1, <1>2, <1>3, PTL DEF Spec, RamImplemented, Ram!RamSpec
==============================================================================
