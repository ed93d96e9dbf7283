----------------------------- MODULE Interrupt -----------------------------
(***************************************************************************)
(* threads/interrupt.c: interrupts from devices and traps of the running   *)
(* thread, nested as the interrupt flag allows, the acknowledgement of the *)
(* two interrupt controllers (PICs), and the yield on return.  A thread    *)
(* has a stack of interrupt frames; each saves the flag of what it         *)
(* interrupted.                                                            *)
(***************************************************************************)
EXTENDS Naturals, Sequences, FiniteSets

CONSTANTS Thread,
          Master, Slave,     \* external interrupt vectors of the two PICs
          MaxDepth           \* bound on the frames of a thread

ASSUME InterruptAssumption == Master \cap Slave = {} /\ MaxDepth \in Nat \ {0}

VARIABLES current,
          flag,              \* the CPU's interrupt flag
          frames,            \* [Thread -> sequence of [vec, flag, at]]
          level,             \* [Thread -> flag to restore when it is switched to]
          in_external_intr, yield_on_return,
          pending,           \* interrupts the devices ask for
          service,           \* interrupts the PICs wait to see acknowledged
          failed             \* an ASSERT failed
intrVars == <<current, flag, frames, level, in_external_intr, yield_on_return, pending, service, failed>>

External == Master \cup Slave
Cascade == "cascade"         \* the master's line from the slave
Top == frames[current][Len(frames[current])]
At(where) == frames[current] # <<>> /\ Top.at = where
Pop == frames' = [frames EXCEPT ![current] = SubSeq(@, 1, Len(@) - 1)]
InCode == frames[current] = <<>> \/ At("trap")
assert(p) == failed' = (failed \/ ~p)

IntrInit ==
  /\ current \in Thread /\ flag = TRUE
  /\ frames = [t \in Thread |-> <<>>] /\ level = [t \in Thread |-> TRUE]
  /\ in_external_intr = FALSE /\ yield_on_return = FALSE
  /\ pending = {} /\ service = {} /\ failed = FALSE

Raise(v) ==
  /\ v \notin pending /\ pending' = pending \cup {v}
  /\ UNCHANGED <<current, flag, frames, level, in_external_intr, yield_on_return, service, failed>>

\* What a PIC remembers of an interrupt delivered.
InService(v) == IF v \in Slave THEN {v, Cascade} ELSE {v}

\* A PIC delivers v unless its last one has not been acknowledged: through an
\* interrupt gate, which clears the flag, into intr_handler.
EnterExternal(v) ==
  /\ flag /\ v \in pending /\ Len(frames[current]) < MaxDepth
  /\ service \cap (Master \cup {Cascade}) = {} /\ (v \in Slave => service \cap Slave = {})
  /\ pending' = pending \ {v} /\ service' = service \cup InService(v)
  /\ flag' = FALSE
  /\ frames' = [frames EXCEPT ![current] = Append(@, [vec |-> v, flag |-> flag, at |-> "external"])]
  /\ assert(~in_external_intr)
  /\ in_external_intr' = TRUE /\ yield_on_return' = FALSE
  /\ UNCHANGED <<current, level>>

\* A handler, timer_interrupt for one, asks for a yield.
intr_yield_on_return ==
  /\ At("external") /\ ~yield_on_return /\ yield_on_return' = TRUE
  /\ assert(in_external_intr)
  /\ UNCHANGED <<current, flag, frames, level, in_external_intr, pending, service>>

pic_end_of_interrupt(v) ==
  service' = service \ (Master \cup {Cascade} \cup IF v \in Slave THEN Slave ELSE {})

\* schedule(): another thread goes on with the flag it left off with.
SwitchFrom(lev, fs) ==
  \E t \in Thread :
    /\ current' = t /\ flag' = IF t = current THEN lev ELSE level[t]
    /\ level' = [level EXCEPT ![current] = lev]
    /\ frames' = fs

\* Mutant: the handler counts as running until the thread comes back.
LeaveExternalLate ==
  /\ At("external")
  /\ assert(~flag /\ in_external_intr)
  /\ in_external_intr' = yield_on_return
  /\ pic_end_of_interrupt(Top.vec)
  /\ LET returning == [frames EXCEPT ![current][Len(frames[current])].at = "return"]
     IN IF yield_on_return THEN SwitchFrom(FALSE, returning)
        ELSE frames' = returning /\ UNCHANGED <<current, flag, level>>
  /\ UNCHANGED <<yield_on_return, pending>>

\* The end of intr_handler: acknowledge, then perhaps thread_yield.
LeaveExternal ==
  /\ At("external")
  /\ assert(~flag /\ in_external_intr)
  /\ in_external_intr' = FALSE
  /\ pic_end_of_interrupt(Top.vec)
  /\ LET returning == [frames EXCEPT ![current][Len(frames[current])].at = "return"]
     IN IF yield_on_return THEN SwitchFrom(FALSE, returning)
        ELSE frames' = returning /\ UNCHANGED <<current, flag, level>>
  /\ UNCHANGED <<yield_on_return, pending>>

\* intr_exit: the interrupted flag comes back with the registers.
Return ==
  /\ At("return") \/ At("trap")
  /\ flag' = Top.flag /\ Pop
  /\ UNCHANGED <<current, level, in_external_intr, yield_on_return, pending, service, failed>>

\* An exception or system call of the running thread, through a trap gate
\* (INTR_ON: the flag stays) or an interrupt gate.
EnterInternal(gate) ==
  /\ InCode /\ Len(frames[current]) < MaxDepth - 1
  /\ flag' = (flag /\ gate = "trap")
  /\ frames' = [frames EXCEPT ![current] = Append(@, [vec |-> gate, flag |-> flag, at |-> "trap"])]
  /\ UNCHANGED <<current, level, in_external_intr, yield_on_return, pending, service, failed>>

\* intr_disable and intr_enable by a thread's code or an internal handler.
intr_set_level(lev) ==
  /\ InCode /\ flag # lev /\ flag' = lev
  /\ assert(lev => ~in_external_intr)
  /\ UNCHANGED <<current, frames, level, in_external_intr, yield_on_return, pending, service>>

thread_yield ==
  /\ InCode
  /\ assert(~in_external_intr)
  /\ SwitchFrom(flag, frames)
  /\ UNCHANGED <<in_external_intr, yield_on_return, pending, service>>

IntrNext ==
  \/ \E v \in External : Raise(v) \/ EnterExternal(v)
  \/ intr_yield_on_return \/ LeaveExternal \/ Return \/ thread_yield
  \/ \E gate \in {"trap", "interrupt"} : EnterInternal(gate)
  \/ \E lev \in BOOLEAN : intr_set_level(lev)

IntrSpec == IntrInit /\ [][IntrNext]_intrVars
-----------------------------------------------------------------------------
\* intr_context() tells whether an external handler runs, on any thread: then
\* interrupts are off and there is no other, nothing sleeps or is switched
\* away from inside it, and all of interrupt.c's assertions hold.
ContextTold ==
  /\ ~failed
  /\ in_external_intr <=> At("external")
  /\ in_external_intr => ~flag
  /\ \A t \in Thread \ {current} : \A k \in DOMAIN frames[t] : frames[t][k].at # "external"

\* Outside external handlers every interrupt delivered has been acknowledged,
\* also when the handler made the thread yield: else the PICs would hold back
\* all others for as long as it waits.
Acknowledged == ~in_external_intr => service = {}

\* The two together.
InterruptsSound == ContextTold /\ Acknowledged
=============================================================================
