-------------------------------- MODULE Swd --------------------------------
(***************************************************************************)
(* The SWD host (components/ocd/swd): Swd turns a memory access into        *)
(* transfers on the debug port (DP) and the memory access port (AP), and    *)
(* GpioSwd bangs one transfer out on two pins and reads the answer back.    *)
(*                                                                         *)
(* A function of Swd is the sequence of its transfers; it gives up at the   *)
(* first one whose answer is not Ok.  Between any two transfers the target  *)
(* may lose its power, and a transfer may be hit by noise.  The target is   *)
(* external: an ADIv5 debug port whose reads of the AP are pipelined, whose *)
(* errors stick, and whose address increment wraps at the end of a page.    *)
(*                                                                         *)
(* A transfer that is answered Wait is repeated for ever (gpio_swd.cpp:148) *)
(* and changes nothing: the repetition is left out, so this model is of     *)
(* targets that do not say Wait for ever.                                   *)
(***************************************************************************)
EXTENDS Naturals, Sequences, SequencesExt

CONSTANTS
    LastWord,       \* the target's memory is the words 0..LastWord
    PageSize,       \* words between wraps of the address increment
    Data,           \* values of a word
    MaxNoise,       \* bound on disturbed transfers
    MaxPowerLosses  \* bound on the target's losses of power

ASSUME SwdAssumption ==
    /\ LastWord \in Nat /\ PageSize \in Nat \ {0}
    /\ Data \subseteq Nat /\ 0 \in Data
    /\ {MaxNoise, MaxPowerLosses} \subseteq Nat

Words == 0..LastWord

VARIABLES
    mem,        \* the target's memory
    powered,    \* the target has power
    linked,     \* it has seen a line reset since
    sticky,     \* its sticky error flags
    bank,       \* APBANKSEL of its SELECT register
    inc,        \* CSW asks for single increments
    tar,        \* TAR
    buf,        \* the result of the last access of the AP, not yet read
    driven,     \* the probe's SWDIO pin is an output
    noise, losses

target == <<mem, powered, linked, sticky, bank, inc, tar, buf>>
swdVars == <<target, driven, noise, losses>>

SwdInit ==
    /\ mem = [a \in Words |-> 0]
    /\ powered = TRUE
    /\ linked = FALSE
    /\ sticky = FALSE
    /\ bank = 0
    /\ inc = FALSE
    /\ tar = 0
    /\ buf = 0
    /\ driven = TRUE
    /\ noise = 0
    /\ losses = 0

-----------------------------------------------------------------------------
(* Swd's functions, as sequences of transfers *)

Read(reg) == [rnw |-> TRUE, reg |-> reg, val |-> 0]
Write(reg, val) == [rnw |-> FALSE, reg |-> reg, val |-> val]

CleareErrors == <<Write("ABORT", 0)>>
ReadDp(reg) == <<Read(reg)>>
WriteDp(reg, val) == <<Write(reg, val)>>

\* The AP answers a read with the result of the one before, hence two reads.
ReadAp(reg) == <<Read(reg), Read(reg)>>

\* The cached CSW, mCsw, is never assigned, so it never saves the write.
WriteAp(reg, val) == <<Write(reg, val), Read("RDBUFF")>>

\* Mutant: the last word is fetched with one more read of DRW, as in readMemory.
ReadApMultiple_ReadsAhead(n) == [i \in 1..(n + 1) |-> Read("DRW")]

ReadApMultiple(n) == [i \in 1..n |-> Read("DRW")] \o ReadDp("RDBUFF")

WriteApMultiple(ds) == [i \in DOMAIN ds |-> Write("DRW", ds[i])] \o ReadDp("RDBUFF")

\* writeAp(AP_CSW, csw, true), then the address.
Setup(a) == WriteDp("SELECT", 0) \o WriteAp("CSW", 1) \o <<Write("TAR", a)>>

\* Mutant: the dummy read at the end is left out.
WriteMemory_NoDummy(a, d) == Setup(a) \o <<Write("DRW", d)>>

WriteMemory(a, d) == Setup(a) \o <<Write("DRW", d)>> \o ReadDp("RDBUFF")

\* Mutant: the dummy read before the data is left out.
ReadMemory_NoDummy(a) == Setup(a) \o <<Read("DRW")>>

\* The second read asks for register 0xC of the AP, DRW again, not for RDBUFF.
ReadMemory(a) == Setup(a) \o <<Read("DRW"), Read("DRW")>>

WriteMemoryBlock32(a, ds) == Setup(a) \o WriteApMultiple(ds)
ReadMemoryBlock32(a, n) == Setup(a) \o ReadApMultiple(n)

-----------------------------------------------------------------------------
(* The target's answer *)

ApRegs == {"CSW", "TAR", "DRW"}

\* After an error the target refuses all but what tells about it or clears it.
Refused(t) == sticky /\ ~(t.reg = "ABORT" \/ (t.rnw /\ t.reg \in {"IDCODE", "CTRL_STAT"}))

NextAddress == IF (tar + 1) % PageSize = 0 THEN tar + 1 - PageSize ELSE tar + 1

\* An access through DRW moves the address along and may end in a bus error.
AccessMemory(t) ==
    /\ tar' = IF inc /\ tar \in Words THEN NextAddress ELSE tar
    /\ sticky' = (tar \notin Words)
    /\ mem' = IF tar \in Words /\ ~t.rnw THEN [mem EXCEPT ![tar] = t.val] ELSE mem
    /\ buf' = IF tar \in Words /\ t.rnw THEN mem[tar] ELSE buf
    /\ UNCHANGED <<powered, linked, bank, inc>>

AccessRegister(t) ==
    /\ bank' = IF t.reg = "SELECT" THEN t.val ELSE bank
    /\ inc' = IF t.reg = "CSW" /\ bank = 0 THEN t.val = 1 ELSE inc
    /\ tar' = IF t.reg = "TAR" /\ bank = 0 THEN t.val ELSE tar
    /\ sticky' = (sticky /\ t.reg # "ABORT")
    /\ UNCHANGED <<mem, powered, linked, buf>>

\* What the target does with a transfer it accepts.
Perform(t) ==
    IF t.reg = "DRW" /\ bank = 0 THEN AccessMemory(t) ELSE AccessRegister(t)

\* The power comes and goes; the debug registers do not survive.
LosePower ==
    /\ powered
    /\ losses < MaxPowerLosses
    /\ losses' = losses + 1
    /\ powered' = FALSE
    /\ linked' = FALSE
    /\ sticky' = FALSE
    /\ bank' = 0
    /\ inc' = FALSE
    /\ tar' = 0
    /\ buf' = 0
    /\ UNCHANGED <<mem, driven, noise>>

GetPower ==
    /\ ~powered
    /\ powered' = TRUE
    /\ UNCHANGED <<mem, linked, sticky, bank, inc, tar, buf, driven, noise, losses>>

-----------------------------------------------------------------------------
(* GpioSwd *)

Disturbed == noise < MaxNoise /\ noise' = noise + 1
Heard == driven /\ linked

\* sequence: a line reset, if the pin is an output.
LineReset ==
    /\ linked' = (linked \/ (driven /\ powered))
    /\ UNCHANGED <<mem, powered, sticky, bank, inc, tar, buf, driven, noise, losses>>

\* Other bits: the target, if it hears them, waits for a line reset.
Garble ==
    /\ linked' = (linked /\ ~driven)
    /\ UNCHANGED <<mem, powered, sticky, bank, inc, tar, buf, driven, noise, losses>>

\* The request is acknowledged and its data, if any, arrives.
TransferOk(t) ==
    /\ Heard
    /\ ~Refused(t)
    /\ Perform(t)
    /\ UNCHANGED <<driven, noise, losses>>

TransferFault(t) ==
    /\ Heard
    /\ Refused(t)
    /\ UNCHANGED swdVars

\* Noise on the data of a read: the target has done its part, the probe sees a
\* wrong parity.
ReadParityError(t) ==
    /\ Heard /\ ~Refused(t)
    /\ t.rnw
    /\ Disturbed
    /\ Perform(t)
    /\ UNCHANGED <<driven, losses>>

\* Noise on the data of a write: acknowledged already, so the probe sees Ok; the
\* target drops it and holds WDATAERR.
WriteLost(t) ==
    /\ Heard /\ ~Refused(t)
    /\ ~t.rnw
    /\ Disturbed
    /\ sticky' = TRUE
    /\ UNCHANGED <<mem, powered, linked, bank, inc, tar, buf, driven, losses>>

\* No acknowledgement, because the target is not there, was disturbed, or the
\* pin does not drive the line: the pin stays an input.
NoAnswer ==
    /\ \/ ~Heard /\ UNCHANGED noise
       \/ Heard /\ Disturbed
    /\ driven' = FALSE
    /\ UNCHANGED <<target, losses>>

-----------------------------------------------------------------------------
SwdTypeOK ==
    /\ mem \in [Words -> Data]
    /\ {powered, linked, sticky, inc, driven} \subseteq BOOLEAN
    /\ bank \in 0..1
    /\ tar \in 0..(LastWord + 1)
    /\ buf \in Data
    /\ noise \in 0..MaxNoise
    /\ losses \in 0..MaxPowerLosses
=============================================================================
