------------------------------ MODULE SwrMaster -----------------------------
(* The Qualcomm SoundWire master, drivers/soundwire/qcom.c, on the clock of   *)
(* the WSA macro: runtime PM, which stops the bus and gives the clock back,   *)
(* and the interrupt thread, which takes the clock for itself and tells the   *)
(* bus which amplifiers are there.                                            *)
(*                                                                            *)
(* The hardware enumerates by itself and latches one bit for all changes of   *)
(* status.  The thread handles what it has sampled and then clears the bit,   *)
(* with whatever was latched meanwhile.  The wake interrupt is not wired on   *)
(* this machine's speaker bus; error interrupts, which only log and mask      *)
(* themselves, are left out.                                                  *)
EXTENDS WsaMacro

CONSTANTS
    Slaves,     \* the amplifiers of the bus
    MaxChanges  \* attachments and detachments

ASSUME MasterAssumption == IsFiniteSet(Slaves) /\ MaxChanges \in Nat

VARIABLES
    mpm,        \* runtime PM of the master: active, suspended, error
    link,       \* SWRM_MCP_SLV_STATUS: the amplifiers attached
    latch,      \* the status interrupt bit
    irq,        \* the interrupt thread: idle, sampled, changed, tell, clear, again
    seen,       \* ctrl->slave_status, the register as it was last handled
    status,     \* ctrl->status, the amplifiers in it
    told,       \* what the bus was told last (sdw_handle_slave_status)
    raced,      \* history: a change came after the thread's last look
    changes,    \* changes so far
    dead,       \* history: a clock was refused, or the bus did not stop
    blind       \* history: a register of the master was used without clock

masterVars == <<mpm, link, latch, irq, seen, status, told, raced, changes, dead,
                blind>>

\* Every use of the master's registers.
Access == blind' = (blind \/ hclk' = 0)

MasterInit ==
    /\ mpm = "active"
    /\ link = Slaves /\ seen = Slaves /\ status = Slaves /\ told = Slaves
    /\ latch = FALSE /\ irq = "idle" /\ raced = FALSE
    /\ dead = FALSE /\ blind = FALSE

-----------------------------------------------------------------------------
(* Runtime PM *)

\* pm_runtime_get_sync of a stream that opens, which finds the master awake or
\* runs swrm_runtime_resume: clock first, then the bus is started.
MasterGet ==
    /\ mpm \in {"active", "suspended"}
    /\ mpm' = "active"
    /\ IF mpm = "active" THEN UNCHANGED <<rpm, hclk, rm, mclkUsers, blind>>
       ELSE HclkGet /\ Access
    /\ UNCHANGED dead

\* The resume ignores that it got no clock, and uses the registers; the stream
\* fails to open for the macro, which is in error.
MasterIsAwakeUnclocked ==
    /\ mpm = "suspended"
    /\ mpm' = "active"
    /\ HclkRefused /\ Access
    /\ dead' = TRUE

\* swrm_runtime_suspend: the bus is stopped, then the clock.
swrm_runtime_suspend ==
    /\ mpm = "active"
    /\ mpm' = "suspended"
    /\ blind' = (blind \/ hclk = 0)
    /\ HclkPut
    /\ UNCHANGED <<link, latch, irq, seen, status, told, raced, changes, dead>>

\* A slave does not take its part in stopping: the suspend fails with the clock
\* running, and runtime PM serves no one from now on.
swrm_runtime_suspend_fails ==
    /\ mpm = "active"
    /\ mpm' = "error" /\ dead' = TRUE
    /\ blind' = (blind \/ hclk = 0)
    /\ UNCHANGED <<rpm, hclk, rm, mclkUsers, link, latch, irq, seen, status, told, raced,
                   changes>>

-----------------------------------------------------------------------------
(* The interrupt thread *)

\* An amplifier comes or goes while the bus runs.
LinkChanges(a) ==
    /\ mpm = "active" /\ hclk > 0
    /\ changes < MaxChanges /\ changes' = changes + 1
    /\ link' = IF a \in link THEN link \ {a} ELSE link \cup {a}
    /\ latch' = TRUE
    /\ raced' = (raced \/ irq \in {"tell", "clear"})
    /\ UNCHANGED <<mpm, irq, seen, status, told, dead, blind>>

\* Mutant: the thread relies on the clock of the stream.
IrqEnter_NoClock ==
    /\ irq = "idle" /\ latch
    /\ irq' = "sampled"
    /\ UNCHANGED <<rpm, hclk, rm, mclkUsers>>
    /\ Access
    /\ UNCHANGED <<mpm, link, latch, seen, status, told, raced, changes, dead>>

\* The thread takes the clock and samples the status.
irq_enter ==
    /\ irq = "idle" /\ latch
    /\ irq' = "sampled"
    /\ HclkGet
    /\ Access
    /\ UNCHANGED <<mpm, link, latch, seen, status, told, raced, changes, dead>>

\* The thread gets no clock, and does not look.
irq_enter_refused ==
    /\ irq = "idle" /\ latch
    /\ irq' = "sampled"
    /\ HclkRefused
    /\ dead' = TRUE
    /\ Access
    /\ UNCHANGED <<mpm, link, latch, seen, status, told, raced, changes>>

Thread == UNCHANGED <<mpm, rpm, hclk, rm, mclkUsers, link, changes, dead>> /\ Access

\* "Slave status not changed", or else it is read once more.
irq_compare ==
    /\ irq = "sampled"
    /\ irq' = IF seen = link THEN "clear" ELSE "changed"
    /\ raced' = (raced /\ seen # link)
    /\ Thread /\ UNCHANGED <<latch, seen, status, told>>

\* Mutant: the register is not noted for the next comparison.
GetDeviceStatus_NotNoted ==
    /\ irq = "changed"
    /\ irq' = "tell"
    /\ status' = link /\ UNCHANGED seen
    /\ raced' = FALSE
    /\ Thread /\ UNCHANGED <<latch, told>>

qcom_swrm_get_device_status ==
    /\ irq = "changed"
    /\ irq' = "tell"
    /\ status' = link /\ seen' = link
    /\ raced' = FALSE
    /\ Thread /\ UNCHANGED <<latch, told>>

\* qcom_swrm_enumerate gives the slaves their numbers, and the bus is told.
qcom_swrm_enumerate ==
    /\ irq = "tell"
    /\ irq' = "clear"
    /\ told' = status
    /\ Thread /\ UNCHANGED <<latch, seen, status, raced>>

\* The bit sampled is cleared, and read again.
irq_clear ==
    /\ irq = "clear"
    /\ irq' = "again"
    /\ latch' = FALSE
    /\ Thread /\ UNCHANGED <<seen, status, told, raced>>

irq_again ==
    /\ irq = "again" /\ latch
    /\ irq' = "sampled"
    /\ Thread /\ UNCHANGED <<latch, seen, status, told, raced>>

irq_return ==
    /\ irq = "again" /\ ~latch
    /\ irq' = "idle"
    /\ blind' = (blind \/ hclk = 0)
    /\ HclkPut
    /\ UNCHANGED <<mpm, link, latch, seen, status, told, raced, changes, dead>>

Interrupt ==
    \/ irq_enter \/ irq_enter_refused \/ irq_compare
    \/ qcom_swrm_get_device_status \/ qcom_swrm_enumerate
    \/ irq_clear \/ irq_again \/ irq_return

-----------------------------------------------------------------------------
(* Properties *)

MasterTypeOK ==
    /\ mpm \in {"active", "suspended", "error"}
    /\ link \subseteq Slaves /\ seen \subseteq Slaves
    /\ status \subseteq Slaves /\ told \subseteq Slaves
    /\ irq \in {"idle", "sampled", "changed", "tell", "clear", "again"}
    /\ latch \in BOOLEAN /\ raced \in BOOLEAN /\ dead \in BOOLEAN
    /\ changes \in 0..MaxChanges

\* Unless a clock was refused, no register of the macro or of the master is
\* used while its clock is stopped: by streams, controls, the interrupt thread
\* and two devices' runtime PM, in any order (clk_prepare_enable in
\* qcom_swrm_irq_handler, regcache_cache_only in wsa_macro_runtime_suspend).
Clocked == ~dead => ~blind /\ ~rm.stray

\* Once the interrupt thread has nothing to do, the bus knows which amplifiers
\* are there, unless one came or went after the thread's last look and before
\* its clearing of the bit.
StatusIsSeen == irq = "idle" /\ ~latch /\ ~raced => told = link

-----------------------------------------------------------------------------
(* Not true of the code *)

\* The window of StatusIsSeen is there: a change is lost with the bit.
NothingIsMissed == irq = "idle" /\ ~latch => told = link
=============================================================================
