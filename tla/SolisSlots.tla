----------------------------- MODULE SolisSlots -----------------------------
(***************************************************************************)
(* How solis_agile_charge.py programs the inverter's timed slots:          *)
(* apply_schedule/_apply, SolisCloud.write and the clears of main(). A job *)
(* runs alone (concurrencyPolicy: Forbid) every 15 minutes. Each slot has  *)
(* a window, a current and one bit of a switch register the cloud only     *)
(* writes whole, from the raw value the caller last saw.                   *)
(*                                                                         *)
(* Every call to SolisCloud may fail, be refused, lose its answer after    *)
(* being applied or not, or be acknowledged and ignored; the Kubernetes    *)
(* deadline may kill the job between any two. A lost POST is taken to have *)
(* landed, or not, by the time it is read back 15 seconds later.           *)
(*                                                                         *)
(* Charge and discharge slots are programmed alike, so Slots numbers both  *)
(* kinds in sorted(desired) order. Windows are opaque, a current is rated  *)
(* (TRUE) or zero, and planning is a choice of target: see README.         *)
(***************************************************************************)
EXTENDS Naturals, Sequences, FiniteSets, SeqSelect

CONSTANTS
  NumSlots,      \* slots of both kinds: 2 * MAX_SLOTS
  Windows,       \* windows a plan may hold
  Off,           \* DISABLED_WINDOW
  MaxTries,      \* SOLIS_RETRIES
  Deadline       \* whether activeDeadlineSeconds may kill a job

ASSUME SlotsAreNat  == NumSlots \in Nat
ASSUME OffIsNoPlan  == Off \notin Windows
ASSUME TriesAreNat  == MaxTries \in Nat \ {0}
ASSUME DeadlineBool == Deadline \in BOOLEAN

Slots     == 1 .. NumSlots
Targets   == [Slots -> Windows \cup {Off}]
AllOff    == [s \in Slots |-> Off]
Registers == {"switch", "window", "current"} \X Slots

VARIABLES
  inverter,   \* its registers: [switch, window, current], each per slot
  pc,         \* where in _apply the job stands
  clearing,   \* this _apply is clear_schedule(), called by main()
  target,     \* desired: the window each slot must hold, Off to disable it
  force,      \* rewrite everything and trust no equality (must_write)
  raw,        \* the switch register as last read or echoed (yuanzhi)
  writes,     \* registers still to write, in order
  tries,      \* attempts at the first of them
  outcome,    \* how the last job ended
  taken,      \* ghost: registers the inverter took from this forced _apply
  ignored     \* ghost: it acknowledged a write of this _apply and ignored it

ghosts == <<taken, ignored>>
vars == <<inverter, pc, clearing, target, force, raw, writes, tries, outcome, taken, ignored>>

Enabled(s) == target[s] # Off

\* What a register must hold: the bit, the window or the current of _desired_slots.
Wanted(r) == IF r[1] = "window" THEN target[r[2]] ELSE Enabled(r[2])
Holds(r)  == inverter[r[1]][r[2]] = Wanted(r)

Init ==
  /\ inverter \in [switch : [Slots -> BOOLEAN], window : Targets, current : [Slots -> BOOLEAN]]
  /\ pc = "idle" /\ clearing = FALSE /\ outcome = "none"
  /\ target = AllOff /\ force = FALSE
  /\ raw = [s \in Slots |-> FALSE] /\ writes = <<>> /\ tries = 0
  /\ taken = {} /\ ignored = FALSE

----------------------------------------------------------------------------
(* Starting, failing and being killed. *)

\* A run that got as far as apply_schedule, with any plan; force is the daily
\* re-commit, the charge-outcome re-commit and the clears of run_optimizer.
Start(plan, forced) ==
  /\ pc = "idle"
  /\ pc' = "read" /\ clearing' = FALSE
  /\ target' = plan /\ force' = forced
  /\ taken' = {} /\ ignored' = FALSE
  /\ UNCHANGED <<inverter, raw, writes, tries, outcome>>

Clear ==
  /\ pc' = "read" /\ clearing' = TRUE
  /\ target' = AllOff /\ force' = TRUE
  /\ writes' = <<>> /\ tries' = 0
  /\ taken' = {} /\ ignored' = FALSE

\* The clock or the storage mode could not be verified (exit 2, 4), or
\* planning raised: main() clears.
Abort ==
  /\ pc = "idle"
  /\ Clear
  /\ UNCHANGED <<inverter, raw, outcome>>

\* A SolisError, a refused write or a read-back mismatch (exit 5): main()
\* clears once, and gives up when the clear itself fails.
Fails ==
  /\ IF clearing
     THEN /\ pc' = "idle" /\ outcome' = "failed"
          /\ writes' = <<>> /\ tries' = 0
          /\ UNCHANGED <<clearing, target, force, ghosts>>
     ELSE Clear /\ UNCHANGED outcome
  /\ UNCHANGED <<inverter, raw>>

CallFails ==
  /\ pc \in {"read", "write", "readback", "refetch", "check"}
  /\ Fails

Kill ==
  /\ Deadline
  /\ pc # "idle"
  /\ pc' = "idle" /\ outcome' = "killed"
  /\ writes' = <<>> /\ tries' = 0
  /\ UNCHANGED <<inverter, clearing, target, force, raw, ghosts>>

----------------------------------------------------------------------------
(* Faulty variants, for mutation tests of the properties. *)

SwitchesFirst(offs, values, ons) == offs \o ons \o values

RawUnchanged == raw

LandedAnyway(r) == Holds(r)

OnlySwitchesMatch == \A s \in Slots : Holds(<<"switch", s>>)

----------------------------------------------------------------------------
(* _apply *)

Switches == [s \in Slots |-> <<"switch", s>>]
Values   == [i \in 1 .. 2 * NumSlots |->
               <<IF i % 2 = 1 THEN "current" ELSE "window", (i + 1) \div 2>>]

\* Switches and enabled slots are compared with live reads; what a disabled
\* slot holds comes from Home Assistant, whose cache may say anything.
Needed(r, cached) ==
  \/ force
  \/ IF r[1] = "switch" \/ Enabled(r[2]) THEN ~Holds(r) ELSE r \in cached

\* writes = offs + values + ons
InOrder(offs, values, ons) == offs \o values \o ons

Writes(cached) ==
  LET needed == {r \in Registers : Needed(r, cached)}
      ons    == {r \in needed : Enabled(r[2])}
  IN InOrder(Select(Switches, needed \ ons), Select(Values, needed), Select(Switches, ons))

\* All the reads before the first write. With nothing to write the job ends.
Read(cached) ==
  /\ pc = "read"
  /\ raw' = inverter.switch
  /\ writes' = Writes(cached)
  /\ IF writes' = <<>>
     THEN pc' = "idle" /\ outcome' = "done"
     ELSE pc' = "write" /\ UNCHANGED outcome
  /\ UNCHANGED <<inverter, clearing, target, force, tries, ghosts>>

Current == Head(writes)

Advance ==
  /\ writes' = Tail(writes)
  /\ tries' = 0
  /\ pc' = IF Tail(writes) = <<>> THEN "check" ELSE "write"

\* A switch is written as the whole register: raw with this slot's bit.
Register(r) == [raw EXCEPT ![r[2]] = Wanted(r)]

Take(r) ==
  /\ inverter' = IF r[1] = "switch" THEN [inverter EXCEPT !.switch = Register(r)]
                 ELSE [inverter EXCEPT ![r[1]][r[2]] = Wanted(r)]
  /\ taken' = IF force THEN taken \cup {r} ELSE taken

\* The raw value kept from the echo of a switch write.
RawEchoed == Register(Current)

\* The POST is acknowledged. An echo that does not parse costs one more read.
Acknowledged ==
  /\ pc = "write"
  /\ \/ Take(Current) /\ UNCHANGED ignored
     \/ ignored' = TRUE /\ UNCHANGED <<inverter, taken>>
  /\ \/ Current[1] = "switch" /\ raw' = RawEchoed /\ Advance
     \/ Current[1] = "switch" /\ pc' = "refetch" /\ UNCHANGED <<raw, writes, tries>>
     \/ Current[1] # "switch" /\ Advance /\ UNCHANGED raw
  /\ UNCHANGED <<clearing, target, force, outcome>>

Refetch ==
  /\ pc = "refetch"
  /\ raw' = inverter.switch
  /\ Advance
  /\ UNCHANGED <<inverter, clearing, target, force, outcome, ghosts>>

\* A timeout, or "datalogger busy": the write may have been applied.
Lost ==
  /\ pc = "write"
  /\ Take(Current) \/ UNCHANGED <<inverter, taken>>
  /\ pc' = "readback"
  /\ UNCHANGED <<clearing, target, force, raw, writes, tries, outcome, ignored>>

\* _same_value(current, value) and not must_write
Landed(r) == Holds(r) /\ ~force

ReadBack ==
  /\ pc = "readback"
  /\ Landed(Current)
  /\ IF Current[1] = "switch" THEN pc' = "refetch" /\ UNCHANGED <<writes, tries>> ELSE Advance
  /\ UNCHANGED <<inverter, clearing, target, force, raw, outcome, ghosts>>

\* range(1, SOLIS_RETRIES + 1)
MayRetry == tries + 1 < MaxTries

\* Retried with a fresh raw value; after SOLIS_RETRIES attempts an error.
Retry ==
  /\ pc = "readback"
  /\ ~Landed(Current)
  /\ IF MayRetry
     THEN /\ pc' = "write" /\ tries' = tries + 1
          /\ raw' = IF Current[1] = "switch" THEN inverter.switch ELSE raw
          /\ UNCHANGED <<inverter, clearing, target, force, writes, outcome, ghosts>>
     ELSE Fails

\* Every switch, and the window and the current of every enabled slot.
Matches ==
  \A s \in Slots :
    /\ Holds(<<"switch", s>>)
    /\ Enabled(s) => Holds(<<"window", s>>) /\ Holds(<<"current", s>>)

Check ==
  /\ pc = "check"
  /\ IF Matches
     THEN /\ pc' = "idle" /\ outcome' = "done"
          /\ UNCHANGED <<inverter, clearing, target, force, raw, writes, tries, ghosts>>
     ELSE Fails

----------------------------------------------------------------------------
Job ==
  \/ \E cached \in SUBSET {r \in Registers : r[1] # "switch" /\ ~Enabled(r[2])} : Read(cached)
  \/ CallFails
  \/ Acknowledged \/ Refetch \/ Lost \/ ReadBack \/ Retry
  \/ Check

Next ==
  \/ \E plan \in Targets, forced \in BOOLEAN : Start(plan, forced)
  \/ Abort \/ Job \/ Kill

Spec == Init /\ [][Next]_vars

----------------------------------------------------------------------------
(* Properties *)

\* The registers, the plan and the job's bookkeeping keep their types.
TypeOK ==
  /\ inverter \in [switch : [Slots -> BOOLEAN], window : Targets, current : [Slots -> BOOLEAN]]
  /\ pc \in {"idle", "read", "write", "readback", "refetch", "check"}
  /\ clearing \in BOOLEAN /\ force \in BOOLEAN /\ ignored \in BOOLEAN
  /\ target \in Targets
  /\ raw \in [Slots -> BOOLEAN]
  /\ writes \in Seq(Registers)
  /\ tries \in 0 .. MaxTries - 1
  /\ outcome \in {"none", "done", "failed", "killed"}
  /\ taken \subseteq Registers

Armed(s) == inverter.switch[s]

\* apply_schedule returned: exactly the planned slots are armed, with their
\* window and current, even when the inverter ignored acknowledged writes, the
\* cache lied or the plan was a clear.
ReportedIsProgrammed ==
  pc = "idle" /\ outcome = "done" =>
    \A s \in Slots :
      /\ Armed(s) = Enabled(s)
      /\ Armed(s) => inverter.window[s] = target[s] /\ inverter.current[s]

\* Switch writes go out one bit at a time, on a fresh raw value: no step of the
\* job flips the switch of a slot it is not writing.
SwitchesAreIsolated ==
  [][~ignored' => \A s \in Slots :
       inverter'.switch[s] # inverter.switch[s] =>
         pc = "write" /\ Current = <<"switch", s>>]_vars

\* _apply arms a slot only when it already holds the window and the current
\* planned for it, whatever failed or was retried before.
ArmedOnlyAsPlanned ==
  [][\A s \in Slots : ~inverter.switch[s] /\ inverter'.switch[s] /\ ~ignored' =>
       Enabled(s) /\ inverter.window[s] = target[s] /\ inverter.current[s]]_vars

\* must_write: a forced apply succeeds only when the inverter took every
\* register in it; finding the right value already stored proves nothing.
ForcedIsDelivered ==
  pc = "idle" /\ outcome = "done" /\ force /\ ~ignored => taken = Registers

=============================================================================
