-------------------------------- MODULE Gpio --------------------------------
(***************************************************************************)
(* GPIO sequencing of the VCA card (plx_hw.c): the power-button, reset     *)
(* and BIOS-recovery lines of each node CPU are bits of GPIO_REG, one     *)
(* register of the card's PLX chip seen by every node's device context.   *)
(*   signal_bit                   - hold a bit low for ms, then raise it,  *)
(*   plx_card_reset               - debounced reset pulse of one CPU,      *)
(*   plx_card_press_power_button  - power-button pulse (hold or toggle),  *)
(*   plx_turn_rcv_mode            - _clear_bit / _set_bit of a RCV bit,    *)
(*   plx_init_vca_g2_gpios        - default value, once for all nodes.     *)
(* Each read-modify-write holds the CALLING device's mmio_lock; the       *)
(* reset debounce holds the TARGET node's reset_lock.                     *)
(*                                                                         *)
(* Time: a step of code takes no time; time passes (Tick) only while      *)
(* every caller is idle, asleep, or blocked on a lock.  Sleeps count      *)
(* down; "time since reset_ts" counts up and saturates at the grace       *)
(* period, which is all the jiffies comparisons tell apart.              *)
(***************************************************************************)
EXTENDS Integers, FiniteSets

CONSTANTS
  Threads,       \* callers (ioctl / sysfs contexts, probe)
  NumCpus,       \* plx_get_cpu_num for an MV card
  CallerNodes,   \* nodes whose driver is loaded and takes calls
  ResetPulse,    \* RESET_PULSE_TIME, in ticks
  TogglePulse,   \* POWER_OFF_PULSE_TIME
  HoldPulse,     \* POWER_OFF_HOLD_TIME
  DefWait,       \* GPIO_DEF_WAIT_TIME
  ResetGrace,    \* RESET_GRACE_PERIOD_MS
  DefGpioVal,    \* PLX_MV_DEF_GPIO_VAL, as the set of bits it sets
  InitGpio       \* GPIO_REG at power-on (no defaults in the EEPROM)

(* Node i of the card is plx_contexts[card][i]: its device context, its *)
(* mmio_lock, its reset_lock and reset_ts.                              *)
Cpus == 0 .. NumCpus - 1

(* plx_reset_bits[1], plx_power_button_bits, plx_bios_rcv_bits.        *)
ResetBit(c) == <<"reset", c>>
PowerBit(c) == <<"power", c>>
RcvBit(c)   == <<"rcv", c>>
CardResetBit == <<"card_reset", 0>>
Bits == {CardResetBit} \cup
        UNION { {ResetBit(c), PowerBit(c), RcvBit(c)} : c \in Cpus }

None == "none"

ASSUME CallerNodes \subseteq Cpus
ASSUME DefGpioVal \subseteq Bits /\ InitGpio \subseteq Bits
ASSUME {ResetPulse, TogglePulse, HoldPulse, DefWait, ResetGrace} \subseteq Nat

VARIABLES
  gpio,          \* the bits of GPIO_REG that are high
  intent,        \* GPIO_REG if every read-modify-write were atomic
  mmioLock,      \* holder of each node's mmio_lock
  probe,         \* "new" / "running" / "done" / "absent" per node
  sinceReset,    \* ticks since node->reset_ts, capped at ResetGrace
  pc, op, xdev, cpu, bit, rem, data

vars == <<gpio, intent, mmioLock, probe, sinceReset,
          pc, op, xdev, cpu, bit, rem, data>>

Ops == {"reset", "hold", "toggle", "rcv_on", "rcv_off", "g2init"}

Pulse(o) == CASE o = "reset"  -> ResetPulse
              [] o = "hold"   -> HoldPulse
              [] o = "toggle" -> TogglePulse

Goto(t, l) == pc' = [pc EXCEPT ![t] = l]

(* The function returns: its locals and arguments are gone.            *)
Return(t) ==
  /\ Goto(t, "idle")
  /\ op' = [op EXCEPT ![t] = None]
  /\ xdev' = [xdev EXCEPT ![t] = 0]
  /\ cpu' = [cpu EXCEPT ![t] = 0]
  /\ bit' = [bit EXCEPT ![t] = CardResetBit]
  /\ rem' = [rem EXCEPT ![t] = 0]
  /\ data' = [data EXCEPT ![t] = {}]

-----------------------------------------------------------------------------

Init ==
  /\ gpio = InitGpio
  /\ intent = InitGpio
  /\ mmioLock = [x \in Cpus |-> None]
  /\ probe = [x \in Cpus |-> IF x \in CallerNodes THEN "new" ELSE "absent"]
  /\ sinceReset = [c \in Cpus |-> ResetGrace]
  /\ pc = [t \in Threads |-> "idle"]
  /\ op = [t \in Threads |-> None]
  /\ xdev = [t \in Threads |-> 0]
  /\ cpu = [t \in Threads |-> 0]
  /\ bit = [t \in Threads |-> CardResetBit]
  /\ rem = [t \in Threads |-> 0]
  /\ data = [t \in Threads |-> {}]

(* Mutant: the range check written with <= (an off-by-one).            *)
ValidCpuOffByOne(c) == c >= 0 /\ c <= NumCpus

(* The cpu_id range check of plx_card_reset and                         *)
(* plx_card_press_power_button.                                         *)
ValidCpu(c) == c >= 0 /\ c < NumCpus

(* The bit an operation drives for cpu c (card_bits[cpu_id] etc.).      *)
OpBit(o, c) == CASE o = "reset"             -> ResetBit(c)
                 [] o \in {"hold", "toggle"} -> PowerBit(c)
                 [] o \in {"rcv_on", "rcv_off"} -> RcvBit(c)
                 [] o = "g2init"             -> CardResetBit

(* plx_contexts[card][cpu_id] is set: node cpu_id's driver is probed. *)
NodeContext(c) == c \in CallerNodes /\ probe[c] = "done"

(* A caller enters an operation through node x's device context with a *)
(* cpu_id it chose.  plx_init_vca_g2_gpios runs once, in x's probe;     *)
(* the other operations need x probed.  Reset and power press return   *)
(* at once on a cpu_id out of range, reset also when the target node   *)
(* has no context; plx_turn_rcv_mode checks nothing and its callers    *)
(* pass only valid ids.                                                 *)
Call(t) ==
  /\ pc[t] = "idle"
  /\ \E x \in CallerNodes, c \in -1 .. NumCpus, o \in Ops :
       /\ IF o = "g2init" THEN probe[x] = "new" /\ c = 0
                          ELSE probe[x] = "done"
       /\ o \in {"rcv_on", "rcv_off"} => c \in Cpus
       /\ IF \/ o \in {"reset", "hold", "toggle"} /\ ~ValidCpu(c)
             \/ o = "reset" /\ ~NodeContext(c)
          THEN UNCHANGED vars
          ELSE /\ xdev' = [xdev EXCEPT ![t] = x]
               /\ cpu' = [cpu EXCEPT ![t] = c]
               /\ op' = [op EXCEPT ![t] = o]
               /\ bit' = [bit EXCEPT ![t] = OpBit(o, c)]
               /\ probe' = IF o = "g2init" THEN [probe EXCEPT ![x] = "running"]
                                           ELSE probe
               /\ Goto(t, CASE o = "reset" -> "rst_check"
                            [] o \in {"hold", "toggle"} -> "sb_low_read"
                            [] o \in {"rcv_on", "rcv_off"} -> "rmw_read"
                            [] o = "g2init" -> "g2_read")
               /\ UNCHANGED <<gpio, intent, mmioLock, sinceReset, rem, data>>

(* plx_card_reset: under the target node's reset_lock, ignore the       *)
(* trigger within the grace period after reset_ts, else stamp reset_ts. *)
(* The section does not sleep, so it is one step.                       *)
plx_card_reset_check(t) ==
  /\ pc[t] = "rst_check"
  /\ IF sinceReset[cpu[t]] < ResetGrace
     THEN Return(t) /\ UNCHANGED sinceReset
     ELSE /\ Goto(t, "sb_low_read")
          /\ sinceReset' = [sinceReset EXCEPT ![cpu[t]] = 0]
          /\ UNCHANGED <<op, xdev, cpu, bit, rem, data>>
  /\ UNCHANGED <<gpio, intent, mmioLock, probe>>

(* mutex_lock(&xdev->mmio_lock); data = plx_mmio_read(GPIO_REG): the    *)
(* opening of every read-modify-write of GPIO_REG, through the caller's *)
(* own device context.                                                  *)
(* Mutant: the read-modify-write without mutex_lock (the holder is      *)
(* recorded, but nobody waits for it).                                  *)
mmio_lock_read_nolock(t) ==
  /\ pc[t] \in {"sb_low_read", "sb_high_read", "rmw_read", "g2_read"}
  /\ mmioLock' = [mmioLock EXCEPT ![xdev[t]] = t]
  /\ data' = [data EXCEPT ![t] = gpio]
  /\ Goto(t, CASE pc[t] = "sb_low_read" -> "sb_low_write"
               [] pc[t] = "sb_high_read" -> "sb_high_write"
               [] pc[t] = "rmw_read" -> "rmw_write"
               [] pc[t] = "g2_read" -> "g2_write")
  /\ UNCHANGED <<gpio, intent, probe, sinceReset, op, xdev, cpu, bit, rem>>

AfterRead == [sb_low_read  |-> "sb_low_write", sb_high_read |-> "sb_high_write",
              rmw_read     |-> "rmw_write",    g2_read      |-> "g2_write"]

mmio_lock_read(t) ==
  /\ pc[t] \in DOMAIN AfterRead
  /\ mmioLock[xdev[t]] = None
  /\ mmioLock' = [mmioLock EXCEPT ![xdev[t]] = t]
  /\ data' = [data EXCEPT ![t] = gpio]
  /\ Goto(t, AfterRead[pc[t]])
  /\ UNCHANGED <<gpio, intent, probe, sinceReset, op, xdev, cpu, bit, rem>>

(* Write GPIO_REG with bit b cleared (low) or set (high) in the value    *)
(* read, then mutex_unlock.  intent applies the same change to intent.  *)
WriteBit(t, high) ==
  LET upd(v) == IF high THEN v \cup {bit[t]} ELSE v \ {bit[t]}
  IN  /\ gpio' = upd(data[t])
      /\ intent' = upd(intent)
      /\ mmioLock' = [mmioLock EXCEPT ![xdev[t]] = None]

(* signal_bit, first half: drive the bit low, unlock, and wait ms.      *)
signal_bit_low(t) ==
  /\ pc[t] = "sb_low_write"
  /\ WriteBit(t, FALSE)
  /\ rem' = [rem EXCEPT ![t] = Pulse(op[t])]
  /\ Goto(t, "sb_sleep")
  /\ UNCHANGED <<probe, sinceReset, op, xdev, cpu, bit, data>>

(* wait_for_completion_interruptible_timeout returns at the timeout...  *)
signal_bit_wake(t) ==
  /\ pc[t] = "sb_sleep"
  /\ rem[t] = 0
  /\ Goto(t, "sb_high_read")
  /\ UNCHANGED <<gpio, intent, mmioLock, probe, sinceReset, op, xdev, cpu, bit, rem, data>>

(* ... or before it, on a signal or on the completion of driver unload. *)
signal_bit_interrupted(t) ==
  /\ pc[t] = "sb_sleep"
  /\ rem[t] > 0
  /\ rem' = [rem EXCEPT ![t] = 0]
  /\ UNCHANGED <<gpio, intent, mmioLock, probe, sinceReset, pc, op, xdev, cpu, bit, data>>

(* signal_bit, second half: drive the bit high again and unlock (a bit  *)
(* found high already is only logged, "UNEXPECTED RESET SIGNAL").       *)
(* plx_card_reset then stamps reset_ts again; a power press returns.    *)
signal_bit_high(t) ==
  /\ pc[t] = "sb_high_write"
  /\ WriteBit(t, TRUE)
  /\ IF op[t] = "reset"
     THEN Goto(t, "rst_stamp") /\ UNCHANGED <<op, xdev, cpu, bit, rem, data>>
     ELSE Return(t)
  /\ UNCHANGED <<probe, sinceReset>>

(* plx_card_reset after the pulse: reset_ts = jiffies under reset_lock;  *)
(* the msleep(100) that follows touches no state.                       *)
plx_card_reset_stamp(t) ==
  /\ pc[t] = "rst_stamp"
  /\ sinceReset' = [sinceReset EXCEPT ![cpu[t]] = 0]
  /\ Return(t)
  /\ UNCHANGED <<gpio, intent, mmioLock, probe>>

(* plx_turn_rcv_mode: _clear_bit (recovery on) or _set_bit (off).        *)
plx_turn_rcv_mode(t) ==
  /\ pc[t] = "rmw_write"
  /\ WriteBit(t, op[t] = "rcv_off")
  /\ Return(t)
  /\ UNCHANGED <<probe, sinceReset>>

(* plx_init_vca_g2_gpios: if PLX_CARD_RESET_BIT reads low, write the     *)
(* default value and msleep with mmio_lock held; else just unlock.      *)
plx_init_vca_g2_gpios(t) ==
  /\ pc[t] = "g2_write"
  /\ IF CardResetBit \in data[t]
     THEN /\ mmioLock' = [mmioLock EXCEPT ![xdev[t]] = None]
          /\ probe' = [probe EXCEPT ![xdev[t]] = "done"]
          /\ Return(t)
          /\ UNCHANGED <<gpio, intent>>
     ELSE /\ gpio' = DefGpioVal
          /\ intent' = DefGpioVal
          /\ rem' = [rem EXCEPT ![t] = DefWait]
          /\ Goto(t, "g2_sleep")
          /\ UNCHANGED <<mmioLock, probe, op, xdev, cpu, bit, data>>
  /\ UNCHANGED sinceReset

(* ... and after the msleep, mutex_unlock.                              *)
plx_init_vca_g2_gpios_done(t) ==
  /\ pc[t] = "g2_sleep"
  /\ rem[t] = 0
  /\ mmioLock' = [mmioLock EXCEPT ![xdev[t]] = None]
  /\ probe' = [probe EXCEPT ![xdev[t]] = "done"]
  /\ Return(t)
  /\ UNCHANGED <<gpio, intent, sinceReset>>

(* A thread can run unless it is idle, asleep, or waiting for a lock.  *)
Runnable(t) ==
  /\ pc[t] # "idle"
  /\ pc[t] \in {"sb_sleep", "g2_sleep"} => rem[t] = 0
  /\ pc[t] \in DOMAIN AfterRead => mmioLock[xdev[t]] = None

(* One tick of jiffies: code runs in no time, so time passes only when  *)
(* no thread can run.  Sleeps count down; times since reset_ts count up *)
(* to the grace period, the most the debounce tells apart.              *)
Tick ==
  /\ \A t \in Threads : ~Runnable(t)
  /\ rem' = [t \in Threads |->
               IF pc[t] \in {"sb_sleep", "g2_sleep"} /\ rem[t] > 0
               THEN rem[t] - 1 ELSE rem[t]]
  /\ sinceReset' = [c \in Cpus |->
               IF sinceReset[c] < ResetGrace THEN sinceReset[c] + 1
                                             ELSE sinceReset[c]]
  /\ UNCHANGED <<gpio, intent, mmioLock, probe, pc, op, xdev, cpu, bit, data>>

(* The steps a thread takes on its own once called.                     *)
Step(t) ==
  \/ plx_card_reset_check(t)
  \/ mmio_lock_read(t)
  \/ signal_bit_low(t)
  \/ signal_bit_wake(t)
  \/ signal_bit_high(t)
  \/ plx_card_reset_stamp(t)
  \/ plx_turn_rcv_mode(t)
  \/ plx_init_vca_g2_gpios(t)
  \/ plx_init_vca_g2_gpios_done(t)

Next ==
  \/ \E t \in Threads : Call(t) \/ Step(t) \/ signal_bit_interrupted(t)
  \/ Tick

(* Mutexes hand over to a waiter (the kernel mutex's handoff keeps a    *)
(* waiter from starving), so a thread that is repeatedly able to take   *)
(* its lock eventually does: strong fairness on a thread's own steps.  *)
(* Time keeps passing: code that takes no time cannot hold the clock  *)
(* back forever, so Tick, enabled again whenever the threads pause, is  *)
(* strongly fair.  Callers need not call, and a sleep need not be      *)
(* interrupted.                                                         *)
Spec == Init /\ [][Next]_vars /\ \A t \in Threads : SF_vars(Step(t))
                              /\ SF_vars(Tick)

-----------------------------------------------------------------------------
(* Properties                                                           *)

TypeOK ==
  /\ gpio \subseteq Bits /\ intent \subseteq Bits
  /\ mmioLock \in [Cpus -> Threads \cup {None}]
  /\ probe \in [Cpus -> {"new", "running", "done", "absent"}]
  /\ sinceReset \in [Cpus -> 0 .. ResetGrace]
  /\ op \in [Threads -> Ops \cup {None}]
  /\ xdev \in [Threads -> Cpus] /\ cpu \in [Threads -> Cpus]
  /\ bit \in [Threads -> Bits] /\ data \in [Threads -> SUBSET Bits]
  /\ rem \in [Threads -> Nat]

(* No update of GPIO_REG is lost: every read-modify-write of a bit, and *)
(* the default value, take effect as if done atomically.  Depends on   *)
(* mmio_lock being held from the read to the write by every writer.    *)
GpioNoLostUpdate == gpio = intent

(* While plx_card_reset sleeps in signal_bit, the node's reset line     *)
(* stays low: no other caller releases the pulse early.  Depends on the *)
(* reset_ts debounce of plx_card_reset and on mmio_lock.               *)
ResetPulseHeld ==
  \A t \in Threads : pc[t] = "sb_sleep" /\ op[t] = "reset" => bit[t] \notin gpio

(* The same for the power button: while a press sleeps, the button line *)
(* stays low (signal_bit: "Set input bit to 0 for defined amount of    *)
(* time").  plx_card_press_power_button has no debounce.               *)
PowerPulseHeld ==
  \A t \in Threads : pc[t] = "sb_sleep" /\ op[t] \in {"hold", "toggle"}
                       => bit[t] \notin gpio

=============================================================================
