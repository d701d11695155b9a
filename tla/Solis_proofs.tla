------------------------- MODULE Solis_proofs --------------------------
(***************************************************************************)
(* What a job promises of the inverter's slots, for any number of slots,   *)
(* windows and attempts, with and without the deadline: a successful       *)
(* apply_schedule leaves exactly its plan armed, switches are written one  *)
(* at a time, a slot is armed only when it holds what was planned for it,  *)
(* and a forced apply succeeds only when every register was taken.         *)
(*                                                                         *)
(* Success follows from the last check alone. The others need to know what *)
(* is still to write: the raw value equals the switch register wherever a  *)
(* switch may be written next (RawIsFresh), armings come last (OnsLast),   *)
(* and what does not hold yet, or was not taken yet, is still in `writes`  *)
(* (Pending, Delivered). A write that the inverter acknowledges and        *)
(* ignores breaks the last three until the next _apply, and `ignored` says *)
(* so.                                                                     *)
(*                                                                         *)
(* The last section is about SolisVerdict, for any charge window.          *)
(***************************************************************************)
EXTENDS SolisSlots, SolisVerdict, Basics_proofs

Writing == pc \in {"write", "readback", "refetch"}

\* The job writes the first of `writes`; only a switch is fetched again.
HasCurrent ==
  /\ Writing => writes # <<>>
  /\ pc = "refetch" => Current[1] = "switch"

\* The raw value a switch is written from is the register's.
RawIsFresh ==
  ~ignored /\ (pc = "write" \/ (pc = "readback" /\ Current[1] # "switch")) =>
    raw = inverter.switch

\* A switch that is to be on.
Arms(r) == r[1] = "switch" /\ Enabled(r[2])

\* Once a write arms a slot, all that follow arm one.
OnsLast ==
  Writing => \A i, j \in 1 .. Len(writes) : i <= j /\ Arms(writes[i]) => Arms(writes[j])

\* What an enabled slot does not hold yet is still to be written.
Pending ==
  Writing /\ ~ignored =>
    \A k \in {"window", "current"}, s \in Slots :
      Enabled(s) => Holds(<<k, s>>) \/ <<k, s>> \in Range(writes)

\* What a forced apply has not had taken yet is still to be written; a switch
\* that is only fetched again was taken.
Delivered ==
  force /\ ~ignored =>
    /\ Writing => Registers \subseteq taken \cup Range(writes)
    /\ pc = "refetch" => Current \in taken
    /\ pc = "check" => taken = Registers

IInv ==
  /\ TypeOK /\ HasCurrent /\ RawIsFresh /\ OnsLast /\ Pending /\ Delivered
  /\ ReportedIsProgrammed /\ ForcedIsDelivered

----------------------------------------------------------------------------
(* What Read finds to write. *)

\* Every switch is in Switches, every window and current in Values.
LEMMA SwitchesAreSwitches ==
  /\ Switches \in Seq(Registers) /\ Values \in Seq(Registers)
  /\ Range(Switches) = {r \in Registers : r[1] = "switch"}
  /\ Range(Values) = {r \in Registers : r[1] # "switch"}
<1> USE SlotsAreNat DEF Slots, Registers
<1>1. Switches \in Seq(Registers) /\ Len(Switches) = NumSlots
  BY DEF Switches
<1>2. Values \in Seq(Registers) /\ Len(Values) = 2 * NumSlots
  BY DEF Values
<1>3. Range(Switches) = {Switches[s] : s \in 1 .. NumSlots}
  BY <1>1, RangeEquality
<1>4. Range(Values) = {Values[i] : i \in 1 .. 2 * NumSlots}
  BY <1>2, RangeEquality
<1>5. Range(Switches) = {r \in Registers : r[1] = "switch"}
  BY <1>3 DEF Switches
<1>6. Range(Values) \subseteq {r \in Registers : r[1] # "switch"}
  BY <1>4 DEF Values
<1>7. ASSUME NEW s \in Slots PROVE <<"window", s>> \in Range(Values) /\ <<"current", s>> \in Range(Values)
  <2>1. 2 * s \in 1 .. 2 * NumSlots /\ Values[2 * s] = <<"window", s>>
    <3>1. (2 * s) % 2 = 0 /\ (2 * s + 1) \div 2 = s
      OBVIOUS
    <3>2. \A i \in 1 .. 2 * NumSlots :
            i % 2 = 0 /\ (i + 1) \div 2 = s => Values[i] = <<"window", s>>
      BY DEF Values
    <3>3. 2 * s \in 1 .. 2 * NumSlots
      OBVIOUS
    <3> QED BY <3>1, <3>2, <3>3
  <2>2. 2 * s - 1 \in 1 .. 2 * NumSlots /\ Values[2 * s - 1] = <<"current", s>>
    BY DEF Values
  <2> QED BY <1>4, <2>1, <2>2
<1>8. {r \in Registers : r[1] # "switch"} \subseteq Range(Values)
  <2> SUFFICES ASSUME NEW r \in Registers, r[1] # "switch" PROVE r \in Range(Values)
    OBVIOUS
  <2>1. r = <<"window", r[2]>> \/ r = <<"current", r[2]>>
    OBVIOUS
  <2> QED BY <2>1, <1>7
<1> QED BY <1>1, <1>2, <1>5, <1>6, <1>8

\* It is every register that needs a write, armings last.
LEMMA WritesProperties ==
  ASSUME NEW cached
  PROVE  /\ Writes(cached) \in Seq(Registers)
         /\ Range(Writes(cached)) = {r \in Registers : Needed(r, cached)}
         /\ \A i, j \in 1 .. Len(Writes(cached)) :
              i <= j /\ Arms(Writes(cached)[i]) => Arms(Writes(cached)[j])
<1> DEFINE needed == {r \in Registers : Needed(r, cached)}
           ons    == {r \in needed : Enabled(r[2])}
           a == Select(Switches, needed \ ons)
           b == Select(Values, needed)
           c == Select(Switches, ons)
<1>1. Writes(cached) = (a \o b) \o c
  BY DEF Writes, InOrder
<1>2. a \in Seq(Registers) /\ b \in Seq(Registers) /\ c \in Seq(Registers)
  BY SwitchesAreSwitches, SelectProperties
<1>3. /\ Range(a) = {r \in Registers : r[1] = "switch"} \cap (needed \ ons)
      /\ Range(b) = {r \in Registers : r[1] # "switch"} \cap needed
      /\ Range(c) = {r \in Registers : r[1] = "switch"} \cap ons
  BY SwitchesAreSwitches, SelectRange
<1>4. \A r \in Range(c) : Arms(r)
  BY <1>3 DEF Arms
<1>5. \A r \in Range(a) \cup Range(b) : ~Arms(r)
  BY <1>3 DEF Arms
<1>6. Range(a) \cup Range(b) \cup Range(c) = needed
  BY <1>3
<1> HIDE DEF needed, ons, a, b, c
<1>7. a \o b \in Seq(Registers) /\ Range(a \o b) = Range(a) \cup Range(b)
  BY <1>2, RangeConcatenation, ConcatProperties
<1>8. /\ (a \o b) \o c \in Seq(Registers)
      /\ Range((a \o b) \o c) = Range(a) \cup Range(b) \cup Range(c)
  <2> DEFINE ab == a \o b
  <2>1. ab \in Seq(Registers) /\ Range(ab) = Range(a) \cup Range(b)
    BY <1>7
  <2> HIDE DEF ab
  <2>2. ab \o c \in Seq(Registers)
    BY <1>2, <2>1, ConcatProperties
  <2>3. Range(ab \o c) = Range(ab) \cup Range(c)
    BY <1>2, <2>1, RangeConcatenation
  <2> QED BY <2>1, <2>2, <2>3 DEF ab
<1>9. ASSUME NEW i \in 1 .. Len((a \o b) \o c), NEW j \in 1 .. Len((a \o b) \o c),
             i <= j, Arms(((a \o b) \o c)[i])
      PROVE  Arms(((a \o b) \o c)[j])
  <2> DEFINE ab == a \o b
  <2>1. ab \in Seq(Registers) /\ Len(ab) \in Nat /\ Len(c) \in Nat
    BY <1>2, <1>7
  <2>2. \A r \in Range(ab) : ~Arms(r)
    BY <1>5, <1>7
  <2> HIDE DEF ab
  <2>3. i \in 1 .. Len(ab) + Len(c) /\ j \in 1 .. Len(ab) + Len(c) /\ Arms((ab \o c)[i])
    BY <1>2, <1>9, <2>1, ConcatProperties DEF ab
  <2>4. (ab \o c)[i] = IF i <= Len(ab) THEN ab[i] ELSE c[i - Len(ab)]
    BY <1>2, <2>1, <2>3, ConcatProperties
  <2>5. (ab \o c)[j] = IF j <= Len(ab) THEN ab[j] ELSE c[j - Len(ab)]
    BY <1>2, <2>1, <2>3, ConcatProperties
  <2>6. Range(ab) = {ab[k] : k \in 1 .. Len(ab)} /\ Range(c) = {c[k] : k \in 1 .. Len(c)}
    BY <1>2, <2>1, RangeEquality
  <2>7. i > Len(ab)
    BY <2>1, <2>2, <2>3, <2>4, <2>6
  <2>8. j - Len(ab) \in 1 .. Len(c)
    BY <2>1, <2>3, <2>7, <1>9
  <2>9. Arms(c[j - Len(ab)])
    BY <1>4, <2>6, <2>8
  <2> QED BY <2>1, <2>3, <2>5, <2>7, <2>8, <2>9, <1>9 DEF ab
<1> QED BY <1>1, <1>6, <1>8, <1>9 DEF needed

----------------------------------------------------------------------------
(* What a write does to the registers. *)

\* What a register holds, by its kind.
LEMMA HoldsByKind ==
  ASSUME TypeOK, NEW s \in Slots
  PROVE  /\ Holds(<<"switch", s>>) <=> inverter.switch[s] = Enabled(s)
         /\ Holds(<<"window", s>>) <=> inverter.window[s] = target[s]
         /\ Holds(<<"current", s>>) <=> inverter.current[s] = Enabled(s)
BY DEF Holds, Wanted, TypeOK, Registers

\* A register that is taken holds what is wanted, and no other value is
\* disturbed; a switch is written as the raw value with its own bit.
LEMMA TakeProperties ==
  ASSUME TypeOK, NEW r \in Registers, Take(r)
  PROVE  /\ inverter' \in [switch : [Slots -> BOOLEAN], window : Targets, current : [Slots -> BOOLEAN]]
         /\ \A s \in Slots :
              /\ inverter'.window[s] = IF r = <<"window", s>> THEN target[s] ELSE inverter.window[s]
              /\ inverter'.current[s] = IF r = <<"current", s>> THEN Enabled(s) ELSE inverter.current[s]
         /\ inverter'.switch = IF r[1] = "switch" THEN Register(r) ELSE inverter.switch
         /\ taken' = IF force THEN taken \cup {r} ELSE taken
<1> USE DEF TypeOK, Registers, Take
<1>1. Enabled(r[2]) \in BOOLEAN /\ target[r[2]] \in Windows \cup {Off}
  BY DEF Enabled, Targets
<1>2. Register(r) \in [Slots -> BOOLEAN] \/ r[1] # "switch"
  BY <1>1 DEF Register, Wanted
<1>3. CASE r[1] = "switch"
  BY <1>2, <1>3
<1>4. CASE r[1] = "window"
  <2> DEFINE W == [inverter.window EXCEPT ![r[2]] = target[r[2]]]
  <2>1. inverter' = [inverter EXCEPT !.window = W]
    BY <1>4 DEF Wanted
  <2>2. W \in Targets
    BY <1>1 DEF Targets
  <2>3. \A s \in Slots : W[s] = IF r = <<"window", s>> THEN target[s] ELSE inverter.window[s]
    BY <1>4 DEF Targets
  <2> HIDE DEF W, Take
  <2>4. inverter'.window = W /\ inverter'.switch = inverter.switch /\ inverter'.current = inverter.current
    BY <2>1
  <2>5. inverter' \in [switch : [Slots -> BOOLEAN], window : Targets, current : [Slots -> BOOLEAN]]
    BY <2>1, <2>2
  <2>6. \A s \in Slots : r # <<"current", s>>
    BY <1>4
  <2>7. taken' = IF force THEN taken \cup {r} ELSE taken
    BY DEF Take
  <2> QED BY <1>4, <2>3, <2>4, <2>5, <2>6, <2>7
<1>5. CASE r[1] = "current"
  <2> DEFINE W == [inverter.current EXCEPT ![r[2]] = Enabled(r[2])]
  <2>1. inverter' = [inverter EXCEPT !.current = W]
    BY <1>5 DEF Wanted
  <2>2. W \in [Slots -> BOOLEAN]
    BY <1>1
  <2>3. \A s \in Slots : W[s] = IF r = <<"current", s>> THEN Enabled(s) ELSE inverter.current[s]
    BY <1>5
  <2> HIDE DEF W, Take
  <2>4. inverter'.current = W /\ inverter'.switch = inverter.switch /\ inverter'.window = inverter.window
    BY <2>1
  <2>5. inverter' \in [switch : [Slots -> BOOLEAN], window : Targets, current : [Slots -> BOOLEAN]]
    BY <2>1, <2>2
  <2>6. \A s \in Slots : r # <<"window", s>>
    BY <1>5
  <2>7. taken' = IF force THEN taken \cup {r} ELSE taken
    BY DEF Take
  <2> QED BY <1>5, <2>3, <2>4, <2>5, <2>6, <2>7
<1> QED BY <1>3, <1>4, <1>5

\* The first write, and those that follow it.
LEMMA WritesSplit ==
  ASSUME TypeOK, writes # <<>>
  PROVE  /\ Current \in Registers /\ Current = writes[1] /\ Len(writes) \in Nat \ {0}
         /\ Tail(writes) \in Seq(Registers) /\ Len(Tail(writes)) = Len(writes) - 1
         /\ \A i \in 1 .. Len(writes) - 1 : Tail(writes)[i] = writes[i + 1]
         /\ Range(writes) = {Current} \cup Range(Tail(writes))
<1>1. writes \in Seq(Registers)
  BY DEF TypeOK
<1>2. /\ Tail(writes) \in Seq(Registers) /\ Len(Tail(writes)) = Len(writes) - 1
      /\ \A i \in 1 .. Len(writes) - 1 : Tail(writes)[i] = writes[i + 1]
      /\ Current \in Registers /\ Current = writes[1] /\ Len(writes) \in Nat \ {0}
  BY <1>1 DEF Current
<1>3. /\ Range(writes) = {writes[i] : i \in 1 .. Len(writes)}
      /\ Range(Tail(writes)) = {Tail(writes)[i] : i \in 1 .. Len(Tail(writes))}
  BY <1>1, <1>2, RangeEquality
<1>4. Range(writes) \subseteq {Current} \cup Range(Tail(writes))
  <2> SUFFICES ASSUME NEW i \in 1 .. Len(writes)
               PROVE  writes[i] \in {Current} \cup Range(Tail(writes))
    BY <1>3
  <2>1. CASE i = 1
    BY <2>1, <1>2
  <2>2. CASE i # 1
    <3>1. i - 1 \in 1 .. Len(writes) - 1 /\ Tail(writes)[i - 1] = writes[i]
      BY <2>2, <1>2
    <3> QED BY <3>1, <1>2, <1>3
  <2> QED BY <2>1, <2>2
<1>5. {Current} \cup Range(Tail(writes)) \subseteq Range(writes)
  <2>1. \A i \in 1 .. Len(writes) - 1 : i + 1 \in 1 .. Len(writes)
    BY <1>2
  <2> QED BY <2>1, <1>2, <1>3
<1> QED BY <1>2, <1>4, <1>5

----------------------------------------------------------------------------
(* The invariant, step by step. *)

\* The registers' type.
Inverters == [switch : [Slots -> BOOLEAN], window : Targets, current : [Slots -> BOOLEAN]]

\* Nothing is promised of a job that has nothing to write and no success to tell.
LEMMA NothingToShow ==
  ASSUME TypeOK', pc' \in {"idle", "read"}, pc' = "idle" => outcome' # "done"
  PROVE  IInv'
BY DEF IInv, HasCurrent, RawIsFresh, OnsLast, Pending, Delivered, Writing,
       ReportedIsProgrammed, ForcedIsDelivered

\* The invariant holds whatever the inverter holds at first.
LEMMA InitIInv == Init => IInv
<1> SUFFICES ASSUME Init PROVE IInv
  OBVIOUS
<1>1. TypeOK
  <2>1. AllOff \in Targets
    BY DEF AllOff, Targets
  <2>2. 0 \in 0 .. MaxTries - 1 /\ <<>> \in Seq(Registers)
    BY TriesAreNat
  <2> QED BY <2>1, <2>2 DEF Init, TypeOK
<1> QED BY <1>1 DEF Init, IInv, HasCurrent, RawIsFresh, OnsLast, Pending, Delivered, Writing,
       ReportedIsProgrammed, ForcedIsDelivered

\* A run starts.
LEMMA StartKeeps ==
  ASSUME IInv, NEW plan \in Targets, NEW forced \in BOOLEAN, Start(plan, forced)
  PROVE  IInv'
<1>1. TypeOK'
  BY DEF IInv, TypeOK, Start
<1> QED BY <1>1, NothingToShow DEF Start

\* A clear starts over, with every slot off.
LEMMA ClearKeeps ==
  ASSUME IInv, Clear, UNCHANGED <<inverter, raw, outcome>>
  PROVE  IInv'
<1>1. AllOff \in Targets
  BY DEF AllOff, Targets
<1>2. 0 \in 0 .. MaxTries - 1 /\ <<>> \in Seq(Registers)
  BY TriesAreNat
<1>3. TypeOK'
  BY <1>1, <1>2 DEF IInv, TypeOK, Clear
<1> QED BY <1>3, NothingToShow DEF Clear

\* A failure clears, or ends a clear that failed.
LEMMA FailsKeeps == ASSUME IInv, Fails PROVE IInv'
<1>1. CASE clearing
  <2>1. TypeOK'
    BY <1>1, TriesAreNat DEF IInv, TypeOK, Fails, ghosts
  <2> QED BY <1>1, <2>1, NothingToShow DEF Fails
<1>2. CASE ~clearing
  BY <1>2, ClearKeeps DEF Fails
<1> QED BY <1>1, <1>2

\* The deadline kills the job.
LEMMA KillKeeps == ASSUME IInv, Kill PROVE IInv'
<1>1. TypeOK'
  BY TriesAreNat DEF IInv, TypeOK, Kill, ghosts
<1> QED BY <1>1, NothingToShow DEF Kill

\* The job goes on with the same write: nothing that held is disturbed.
LEMMA StayKeeps ==
  ASSUME IInv, Writing, Writing',
         UNCHANGED <<clearing, target, force, writes, outcome>>,
         inverter' \in Inverters, raw' \in [Slots -> BOOLEAN], tries' \in 0 .. MaxTries - 1,
         taken \subseteq taken', taken' \subseteq Registers, ignored' \in BOOLEAN, ignored => ignored',
         pc' = "refetch" => Current[1] = "switch" /\ (force /\ ~ignored' => Current \in taken'),
         ~ignored' /\ (pc' = "write" \/ (pc' = "readback" /\ Current[1] # "switch")) =>
           raw' = inverter'.switch,
         ~ignored' => \A s \in Slots : /\ Holds(<<"window", s>>) => Holds(<<"window", s>>)'
                                       /\ Holds(<<"current", s>>) => Holds(<<"current", s>>)'
  PROVE  IInv'
<1>1. TypeOK'
  BY DEF IInv, TypeOK, Inverters, Writing
<1>2. HasCurrent' /\ RawIsFresh'
  BY DEF IInv, HasCurrent, RawIsFresh, Current, Writing
<1>3. OnsLast'
  BY DEF IInv, OnsLast, Arms, Enabled
<1>4. Pending'
  BY DEF IInv, Pending, Enabled
<1>5. Delivered'
  BY DEF IInv, Delivered, Writing, Current
<1>6. ReportedIsProgrammed' /\ ForcedIsDelivered'
  BY DEF ReportedIsProgrammed, ForcedIsDelivered, Writing
<1> QED BY <1>1, <1>2, <1>3, <1>4, <1>5, <1>6 DEF IInv

\* The job goes on to the next write: this one holds, and was taken if forced.
LEMMA AdvanceKeeps ==
  ASSUME IInv, Writing, Advance,
         UNCHANGED <<clearing, target, force, outcome>>,
         inverter' \in Inverters, raw' \in [Slots -> BOOLEAN],
         taken \subseteq taken', taken' \subseteq Registers, ignored' \in BOOLEAN, ignored => ignored',
         ~ignored' => raw' = inverter'.switch,
         ~ignored' => \A s \in Slots :
           /\ Holds(<<"window", s>>) \/ Current = <<"window", s>> => Holds(<<"window", s>>)'
           /\ Holds(<<"current", s>>) \/ Current = <<"current", s>> => Holds(<<"current", s>>)',
         force /\ ~ignored' => Current \in taken'
  PROVE  IInv'
<1>0. TypeOK /\ writes # <<>>
  BY DEF IInv, HasCurrent
<1>1. TypeOK'
  BY <1>0, WritesSplit, TriesAreNat DEF TypeOK, Inverters, Advance
<1>2. HasCurrent' /\ RawIsFresh'
  BY DEF HasCurrent, RawIsFresh, Advance, Writing
<1>3. OnsLast'
  <2> SUFFICES ASSUME Writing', NEW i \in 1 .. Len(writes'), NEW j \in 1 .. Len(writes'),
                      i <= j, Arms(writes[i])'
               PROVE  Arms(writes[j])'
    BY DEF OnsLast
  <2>1. /\ i + 1 \in 1 .. Len(writes) /\ writes'[i] = writes[i + 1]
        /\ j + 1 \in 1 .. Len(writes) /\ writes'[j] = writes[j + 1]
    BY <1>0, WritesSplit DEF Advance
  <2>2. Arms(writes[i + 1])
    BY <2>1 DEF Arms, Enabled
  <2>3. Arms(writes[j + 1])
    BY <2>1, <2>2 DEF IInv, OnsLast
  <2> QED BY <2>1, <2>3 DEF Arms, Enabled
<1>4. Range(writes) = {Current} \cup Range(writes')
  BY <1>0, WritesSplit DEF Advance
<1>5. Pending'
  <2> SUFFICES ASSUME ~ignored', NEW k \in {"window", "current"}, NEW s \in Slots, Enabled(s)
               PROVE  Holds(<<k, s>>)' \/ <<k, s>> \in Range(writes')
    BY DEF Pending, Enabled
  <2>1. Holds(<<k, s>>) \/ <<k, s>> \in Range(writes)
    BY DEF IInv, Pending
  <2> QED BY <2>1, <1>4
<1>6. Delivered'
  <2> SUFFICES ASSUME force, ~ignored'
               PROVE  Registers \subseteq taken' \cup Range(writes') /\ (writes' = <<>> => taken' = Registers)
    BY DEF Delivered, Advance, Writing
  <2>1. Registers \subseteq taken' \cup Range(writes')
    BY <1>4 DEF IInv, Delivered
  <2>2. Range(<<>>) = {}
    BY DEF Range
  <2> QED BY <2>1, <2>2
<1>7. ReportedIsProgrammed' /\ ForcedIsDelivered'
  BY DEF ReportedIsProgrammed, ForcedIsDelivered, Advance
<1> QED BY <1>1, <1>2, <1>3, <1>5, <1>6, <1>7 DEF IInv

\* What is read decides what is written. With nothing to write, what the plan
\* needs is there already, and a forced apply finds no registers at all.
LEMMA ReadKeeps ==
  ASSUME IInv, NEW cached, Read(cached),
         \A r \in cached : r[1] # "switch" /\ ~Enabled(r[2])
  PROVE  IInv'
<1>1. /\ writes' \in Seq(Registers)
      /\ Range(writes') = {r \in Registers : Needed(r, cached)}
      /\ \A i, j \in 1 .. Len(writes') : i <= j /\ Arms(writes'[i]) => Arms(writes'[j])
  BY WritesProperties DEF Read
<1>2. TypeOK'
  BY <1>1 DEF IInv, TypeOK, Read, ghosts
<1>3. UNCHANGED <<inverter, target, force, taken, ignored>>
  BY DEF Read, ghosts
<1>4. ASSUME NEW r \in Registers, r \notin Range(writes'), r[1] = "switch" \/ Enabled(r[2])
      PROVE  ~force /\ Holds(r)
  BY <1>1, <1>4 DEF Needed
<1>5. CASE writes' = <<>>
  <2>1. Range(writes') = {}
    BY <1>5 DEF Range
  <2>2. \A s \in Slots : /\ Holds(<<"switch", s>>)
                         /\ Enabled(s) => Holds(<<"window", s>>) /\ Holds(<<"current", s>>)
    BY <1>4, <2>1 DEF Registers
  <2>3. ReportedIsProgrammed'
    BY <1>3, <2>2, HoldsByKind DEF IInv, ReportedIsProgrammed, Armed, Enabled
  <2>4. ForcedIsDelivered'
    <3> SUFFICES ASSUME force PROVE taken = Registers
      BY <1>3 DEF ForcedIsDelivered
    <3>1. Registers = {}
      BY <1>1, <2>1 DEF Needed
    <3> QED BY <3>1 DEF IInv, TypeOK
  <2> QED BY <1>2, <1>5, <2>3, <2>4
       DEF IInv, HasCurrent, RawIsFresh, OnsLast, Pending, Delivered, Writing, Read
<1>6. CASE writes' # <<>>
  <2>1. pc' = "write" /\ raw' = inverter.switch
    BY <1>6 DEF Read
  <2>2. HasCurrent' /\ RawIsFresh'
    BY <1>3, <1>6, <2>1 DEF HasCurrent, RawIsFresh, Writing
  <2>3. OnsLast'
    BY <1>1, <1>3 DEF OnsLast, Arms, Enabled
  <2>4. Pending'
    <3> SUFFICES ASSUME NEW k \in {"window", "current"}, NEW s \in Slots, Enabled(s)
                 PROVE  Holds(<<k, s>>)' \/ <<k, s>> \in Range(writes')
      BY <1>3 DEF Pending, Enabled
    <3>1. Holds(<<k, s>>) \/ <<k, s>> \in Range(writes')
      BY <1>4 DEF Registers
    <3> QED BY <3>1, <1>3 DEF Holds, Wanted, Enabled
  <2>5. Delivered'
    BY <1>1, <1>3, <2>1 DEF Delivered, Needed, Writing
  <2>6. ReportedIsProgrammed' /\ ForcedIsDelivered'
    BY <2>1 DEF ReportedIsProgrammed, ForcedIsDelivered
  <2> QED BY <1>2, <2>2, <2>3, <2>4, <2>5, <2>6 DEF IInv
<1> QED BY <1>5, <1>6

\* A write that is taken leaves what held, and makes its own register hold.
LEMMA TakeHolds ==
  ASSUME TypeOK, NEW r \in Registers, Take(r), UNCHANGED target, NEW s \in Slots
  PROVE  /\ Holds(<<"window", s>>) \/ r = <<"window", s>> => Holds(<<"window", s>>)'
         /\ Holds(<<"current", s>>) \/ r = <<"current", s>> => Holds(<<"current", s>>)'
<1>1. /\ Holds(<<"window", s>>)' <=> inverter'.window[s] = target[s]
      /\ Holds(<<"current", s>>)' <=> inverter'.current[s] = Enabled(s)
  BY TakeProperties DEF Holds, Wanted, Enabled, TypeOK, Registers
<1> QED BY <1>1, HoldsByKind, TakeProperties

\* What an untouched inverter holds, it goes on holding.
LEMMA SameHolds ==
  ASSUME UNCHANGED <<inverter, target>>, NEW r
  PROVE  Holds(r) <=> Holds(r)'
BY DEF Holds, Wanted, Enabled

\* The write is acknowledged: the inverter took it, or ignores it from here on.
LEMMA AcknowledgedKeeps == ASSUME IInv, Acknowledged PROVE IInv'
<1>1. TypeOK /\ writes # <<>> /\ Writing /\ pc = "write"
  BY DEF IInv, HasCurrent, Writing, Acknowledged
<1>2. Current \in Registers
  BY <1>1, WritesSplit
<1>3. UNCHANGED <<clearing, target, force, outcome>>
  BY DEF Acknowledged
<1>4. /\ inverter' \in Inverters /\ taken \subseteq taken' /\ taken' \subseteq Registers
      /\ ignored' \in BOOLEAN /\ (ignored => ignored')
      /\ ~ignored' => Take(Current)
  <2>1. CASE Take(Current) /\ UNCHANGED ignored
    BY <2>1, <1>1, <1>2, TakeProperties DEF TypeOK, Inverters
  <2>2. CASE ignored' = TRUE /\ UNCHANGED <<inverter, taken>>
    BY <2>2, <1>1 DEF TypeOK, Inverters
  <2> QED BY <2>1, <2>2 DEF Acknowledged
<1>5. ~ignored' => \A s \in Slots :
        /\ Holds(<<"window", s>>) \/ Current = <<"window", s>> => Holds(<<"window", s>>)'
        /\ Holds(<<"current", s>>) \/ Current = <<"current", s>> => Holds(<<"current", s>>)'
  BY <1>1, <1>2, <1>3, <1>4, TakeHolds
<1>6. force /\ ~ignored' => Current \in taken'
  BY <1>1, <1>2, <1>4, TakeProperties
<1>7. ~ignored' => raw = inverter.switch
  BY <1>1, <1>4 DEF IInv, RawIsFresh, TypeOK
<1>8. Current[1] = "switch" => Register(Current) \in [Slots -> BOOLEAN]
  BY <1>1, <1>2 DEF Register, Wanted, Enabled, TypeOK, Registers
<1>9. ~ignored' => inverter'.switch = IF Current[1] = "switch" THEN Register(Current) ELSE inverter.switch
  BY <1>1, <1>2, <1>4, TakeProperties
<1>10. CASE Current[1] = "switch" /\ raw' = RawEchoed /\ Advance
  BY <1>1, <1>3, <1>4, <1>5, <1>6, <1>8, <1>9, <1>10, AdvanceKeeps DEF RawEchoed
<1>11. CASE Current[1] = "switch" /\ pc' = "refetch" /\ UNCHANGED <<raw, writes, tries>>
  BY <1>1, <1>3, <1>4, <1>5, <1>6, <1>11, StayKeeps DEF TypeOK, Writing
<1>12. CASE Current[1] # "switch" /\ Advance /\ UNCHANGED raw
  BY <1>1, <1>3, <1>4, <1>5, <1>6, <1>7, <1>9, <1>12, AdvanceKeeps DEF TypeOK
<1> QED BY <1>10, <1>11, <1>12 DEF Acknowledged

\* The register is read again after its own write: raw is fresh, and it goes on.
LEMMA RefetchKeeps == ASSUME IInv, Refetch PROVE IInv'
<1>1. TypeOK /\ Writing /\ Current[1] = "switch" /\ (force /\ ~ignored => Current \in taken)
  BY DEF IInv, HasCurrent, Delivered, Writing, Refetch
<1>2. UNCHANGED <<inverter, clearing, target, force, outcome, taken, ignored>>
  BY DEF Refetch, ghosts
<1>3. \A r : Holds(r) <=> Holds(r)'
  BY <1>2, SameHolds
<1>4. raw' = inverter.switch /\ Advance /\ inverter.switch \in [Slots -> BOOLEAN]
  BY <1>1 DEF Refetch, TypeOK
<1> QED BY <1>1, <1>2, <1>3, <1>4, AdvanceKeeps DEF TypeOK, Inverters

\* The answer is lost, the write taken or not: it stays the current one.
LEMMA LostKeeps == ASSUME IInv, Lost PROVE IInv'
<1>1. TypeOK /\ writes # <<>> /\ Writing /\ pc = "write" /\ Writing'
  BY DEF IInv, HasCurrent, Writing, Lost
<1>2. Current \in Registers
  BY <1>1, WritesSplit
<1>3. UNCHANGED <<clearing, target, force, raw, writes, tries, outcome, ignored>> /\ pc' = "readback"
  BY DEF Lost
<1>4. CASE Take(Current)
  <2>1. inverter' \in Inverters /\ taken \subseteq taken' /\ taken' \subseteq Registers
    BY <1>1, <1>2, <1>4, TakeProperties DEF TypeOK, Inverters
  <2>2. \A s \in Slots : /\ Holds(<<"window", s>>) => Holds(<<"window", s>>)'
                         /\ Holds(<<"current", s>>) => Holds(<<"current", s>>)'
    BY <1>1, <1>2, <1>3, <1>4, TakeHolds
  <2>3. ~ignored' /\ Current[1] # "switch" => raw' = inverter'.switch
    BY <1>1, <1>2, <1>3, <1>4, TakeProperties DEF IInv, RawIsFresh
  <2> QED BY <1>1, <1>3, <2>1, <2>2, <2>3, StayKeeps DEF TypeOK
<1>5. CASE UNCHANGED <<inverter, taken>>
  <2>1. \A r : Holds(r) <=> Holds(r)'
    BY <1>3, <1>5, SameHolds
  <2>2. ~ignored' => raw' = inverter'.switch
    BY <1>1, <1>3, <1>5 DEF IInv, RawIsFresh
  <2> QED BY <1>1, <1>3, <1>5, <2>1, <2>2, StayKeeps DEF TypeOK, Inverters
<1> QED BY <1>4, <1>5 DEF Lost

\* The read-back finds the value in place, in an apply that may trust it.
LEMMA ReadBackKeeps == ASSUME IInv, ReadBack PROVE IInv'
<1>1. TypeOK /\ Writing /\ pc = "readback" /\ Holds(Current) /\ ~force
  BY DEF IInv, Writing, ReadBack, Landed
<1>2. UNCHANGED <<inverter, clearing, target, force, raw, outcome, taken, ignored>>
  BY DEF ReadBack, ghosts
<1>3. \A r : Holds(r) <=> Holds(r)'
  BY <1>2, SameHolds
<1>4. inverter \in Inverters /\ raw \in [Slots -> BOOLEAN] /\ tries \in 0 .. MaxTries - 1
      /\ taken \subseteq Registers /\ ignored \in BOOLEAN
  BY <1>1 DEF TypeOK, Inverters
<1>5. CASE Current[1] = "switch"
  <2>1. pc' = "refetch" /\ UNCHANGED <<writes, tries>>
    BY <1>5 DEF ReadBack
  <2> QED BY <1>1, <1>2, <1>3, <1>4, <1>5, <2>1, StayKeeps DEF Writing
<1>6. CASE Current[1] # "switch"
  <2>1. Advance
    BY <1>6 DEF ReadBack
  <2>2. ~ignored => raw = inverter.switch
    BY <1>1, <1>6 DEF IInv, RawIsFresh
  <2> QED BY <1>1, <1>2, <1>3, <1>4, <2>1, <2>2, AdvanceKeeps
<1> QED BY <1>5, <1>6

\* A retry starts from a raw value read again; the last attempt fails.
LEMMA RetryKeeps == ASSUME IInv, Retry PROVE IInv'
<1>1. TypeOK /\ Writing /\ pc = "readback"
  BY DEF IInv, Writing, Retry
<1>2. CASE MayRetry
  <2>1. /\ pc' = "write" /\ tries' = tries + 1
        /\ raw' = IF Current[1] = "switch" THEN inverter.switch ELSE raw
        /\ UNCHANGED <<inverter, clearing, target, force, writes, outcome, taken, ignored>>
    BY <1>2 DEF Retry, ghosts
  <2>2. \A r : Holds(r) <=> Holds(r)'
    BY <2>1, SameHolds
  <2>3. /\ inverter \in Inverters /\ taken \subseteq Registers /\ ignored \in BOOLEAN
        /\ raw' \in [Slots -> BOOLEAN]
    BY <1>1, <2>1 DEF TypeOK, Inverters
  <2>4. tries' \in 0 .. MaxTries - 1
    BY <1>1, <1>2, <2>1, TriesAreNat DEF MayRetry, TypeOK
  <2>5. ~ignored' => raw' = inverter'.switch
    BY <1>1, <2>1 DEF IInv, RawIsFresh
  <2> QED BY <1>1, <2>1, <2>2, <2>3, <2>4, <2>5, StayKeeps DEF Writing
<1>3. CASE ~MayRetry
  BY <1>3, FailsKeeps DEF Retry
<1> QED BY <1>2, <1>3

\* Success is told of what the last reads found, with nothing left to take.
LEMMA CheckKeeps == ASSUME IInv, Check PROVE IInv'
<1>1. TypeOK /\ pc = "check"
  BY DEF IInv, Check
<1>2. CASE Matches
  <2>1. /\ pc' = "idle" /\ outcome' = "done"
        /\ UNCHANGED <<inverter, clearing, target, force, raw, writes, tries, taken, ignored>>
    BY <1>2 DEF Check, ghosts
  <2>2. TypeOK'
    BY <1>1, <2>1 DEF TypeOK
  <2>3. ReportedIsProgrammed'
    BY <1>1, <1>2, <2>1, HoldsByKind DEF ReportedIsProgrammed, Matches, Armed, Enabled
  <2>4. ForcedIsDelivered'
    BY <1>1, <2>1 DEF IInv, Delivered, ForcedIsDelivered
  <2> QED BY <2>1, <2>2, <2>3, <2>4
       DEF IInv, HasCurrent, RawIsFresh, OnsLast, Pending, Delivered, Writing
<1>3. CASE ~Matches
  BY <1>3, FailsKeeps DEF Check
<1> QED BY <1>2, <1>3

\* A step that changes nothing.
LEMMA StutterKeeps == ASSUME IInv, UNCHANGED vars PROVE IInv'
<1>1. UNCHANGED <<inverter, pc, clearing, target, force, raw, writes, tries, outcome, taken, ignored>>
  BY DEF vars
<1>2. \A r : Holds(r) <=> Holds(r)'
  BY <1>1, SameHolds
<1>3. TypeOK' /\ HasCurrent' /\ RawIsFresh'
  BY <1>1 DEF IInv, TypeOK, HasCurrent, RawIsFresh, Writing, Current
<1>4. OnsLast' /\ Pending' /\ Delivered'
  BY <1>1, <1>2 DEF IInv, OnsLast, Pending, Delivered, Writing, Current, Arms, Enabled
<1>5. ReportedIsProgrammed' /\ ForcedIsDelivered'
  BY <1>1 DEF IInv, ReportedIsProgrammed, ForcedIsDelivered, Armed, Enabled
<1> QED BY <1>3, <1>4, <1>5 DEF IInv

\* Every step keeps the invariant.
LEMMA NextKeeps == ASSUME IInv, [Next]_vars PROVE IInv'
<1>1. ASSUME NEW plan \in Targets, NEW forced \in BOOLEAN, Start(plan, forced) PROVE IInv'
  BY <1>1, StartKeeps
<1>2. CASE Abort
  BY <1>2, ClearKeeps DEF Abort
<1>3. ASSUME NEW cached \in SUBSET {r \in Registers : r[1] # "switch" /\ ~Enabled(r[2])}, Read(cached)
      PROVE  IInv'
  BY <1>3, ReadKeeps
<1>4. CASE CallFails
  BY <1>4, FailsKeeps DEF CallFails
<1>5. CASE Acknowledged \/ Refetch \/ Lost \/ ReadBack \/ Retry \/ Check
  BY <1>5, AcknowledgedKeeps, RefetchKeeps, LostKeeps, ReadBackKeeps, RetryKeeps, CheckKeeps
<1>6. CASE Kill
  BY <1>6, KillKeeps
<1>7. CASE UNCHANGED vars
  BY <1>7, StutterKeeps
<1> QED BY <1>1, <1>2, <1>3, <1>4, <1>5, <1>6, <1>7 DEF Next, Job

----------------------------------------------------------------------------
(* The theorems. *)

\* The invariant holds in every state a job can reach.
THEOREM InvariantHolds == Spec => []IInv
BY InitIInv, NextKeeps, PTL DEF Spec

\* The registers, the plan and the job's bookkeeping keep their types, through
\* every failure, kill and lost answer of SolisCloud.write and _apply.
THEOREM SlotsTypeCorrect == Spec => []TypeOK
<1>1. IInv => TypeOK
  BY DEF IInv
<1> QED BY <1>1, InvariantHolds, PTL

\* apply_schedule returns only with exactly the plan armed in the inverter.
THEOREM SuccessIsProgrammed == Spec => []ReportedIsProgrammed
<1>1. IInv => ReportedIsProgrammed
  BY DEF IInv
<1> QED BY <1>1, InvariantHolds, PTL

\* A forced apply (must_write) returns only after the inverter took every register.
THEOREM ForcedReachesEveryRegister == Spec => []ForcedIsDelivered
<1>1. IInv => ForcedIsDelivered
  BY DEF IInv
<1> QED BY <1>1, InvariantHolds, PTL

\* Only a write of a switch that is taken changes the switches, and only its bit.
LEMMA SwitchStep ==
  ASSUME IInv, [Next]_vars, ~ignored', NEW s \in Slots, inverter'.switch[s] # inverter.switch[s]
  PROVE  /\ pc = "write" /\ Current = <<"switch", s>> /\ inverter'.switch[s] = Enabled(s)
         /\ writes # <<>> /\ ~ignored
<1>1. (Acknowledged \/ Lost) /\ Take(Current)
  <2>1. ~UNCHANGED inverter
    OBVIOUS
  <2>2. ~(\/ \E plan \in Targets, forced \in BOOLEAN : Start(plan, forced)
          \/ Abort \/ CallFails \/ Kill \/ UNCHANGED vars
          \/ \E cached \in SUBSET {r \in Registers : r[1] # "switch" /\ ~Enabled(r[2])} : Read(cached)
          \/ Refetch \/ ReadBack \/ Retry \/ Check)
    BY <2>1 DEF Start, Abort, CallFails, Fails, Kill, Read, Refetch, ReadBack, Retry, Check, vars
  <2> QED BY <2>1, <2>2 DEF Next, Job, Acknowledged, Lost
<1>2. TypeOK /\ pc = "write" /\ writes # <<>> /\ Writing
  BY <1>1 DEF IInv, HasCurrent, Writing, Acknowledged, Lost
<1>3. ~ignored
  BY <1>1 DEF Acknowledged, Lost
<1>4. Current \in Registers
  BY <1>2, WritesSplit
<1>5. Current[1] = "switch" /\ inverter'.switch = Register(Current)
  BY <1>1, <1>2, <1>4, TakeProperties
<1>6. raw = inverter.switch /\ raw \in [Slots -> BOOLEAN]
  BY <1>2, <1>3 DEF IInv, RawIsFresh, TypeOK
<1>7. Current = <<"switch", Current[2]>> /\ Current[2] \in Slots
  BY <1>4, <1>5 DEF Registers
<1>8. Register(Current)[s] = IF s = Current[2] THEN Enabled(s) ELSE raw[s]
  BY <1>5, <1>6, <1>7 DEF Register, Wanted
<1> QED BY <1>2, <1>3, <1>5, <1>6, <1>7, <1>8

\* No step of the job flips the switch of a slot other than the one it writes.
THEOREM SwitchesStayIsolated == Spec => SwitchesAreIsolated
<1>1. IInv /\ [Next]_vars =>
        [~ignored' => \A s \in Slots : inverter'.switch[s] # inverter.switch[s] =>
           pc = "write" /\ Current = <<"switch", s>>]_vars
  BY SwitchStep
<1> QED BY <1>1, InvariantHolds, PTL DEF Spec, SwitchesAreIsolated

\* When a slot is armed, everything it needs has been written: armings come
\* last, so what is still to write is no window and no current.
LEMMA ArmStep ==
  ASSUME IInv, [Next]_vars, ~ignored', NEW s \in Slots, ~inverter.switch[s], inverter'.switch[s]
  PROVE  Enabled(s) /\ inverter.window[s] = target[s] /\ inverter.current[s]
<1>1. /\ pc = "write" /\ Current = <<"switch", s>> /\ inverter'.switch[s] = Enabled(s)
      /\ writes # <<>> /\ ~ignored
  BY SwitchStep
<1>2. TypeOK /\ Writing
  BY <1>1 DEF IInv, Writing
<1>3. Enabled(s) /\ Arms(Current)
  BY <1>1 DEF Arms
<1>4. Range(writes) = {writes[i] : i \in 1 .. Len(writes)} /\ 1 \in 1 .. Len(writes) /\ Current = writes[1]
  <2>1. writes \in Seq(Registers)
    BY <1>2 DEF TypeOK
  <2> QED BY <1>1, <1>2, <2>1, RangeEquality, WritesSplit
<1>5. \A r \in Range(writes) : Arms(r)
  BY <1>2, <1>3, <1>4 DEF IInv, OnsLast
<1>6. Holds(<<"window", s>>) /\ Holds(<<"current", s>>)
  BY <1>1, <1>2, <1>3, <1>5 DEF IInv, Pending, Arms
<1> QED BY <1>2, <1>3, <1>6, HoldsByKind

\* _apply arms a slot only once it holds the window and current of the plan.
THEOREM ArmedAsPlanned == Spec => ArmedOnlyAsPlanned
<1>1. IInv /\ [Next]_vars =>
        [\A s \in Slots : ~inverter.switch[s] /\ inverter'.switch[s] /\ ~ignored' =>
           Enabled(s) /\ inverter.window[s] = target[s] /\ inverter.current[s]]_vars
  BY ArmStep
<1> QED BY <1>1, InvariantHolds, PTL DEF Spec, ArmedOnlyAsPlanned

----------------------------------------------------------------------------
(* The charge-outcome check: a dead slot is rewritten as soon as settle    *)
(* time and cooldown allow.                                                *)
(*                                                                         *)
(* A bound on the ticks without charge says nothing of why they end. They  *)
(* are counted only while readings arrive and the battery sensors, no      *)
(* older than they may be, show no charge. So the newest reading is of now *)
(* and shows the mode as it is (DeadSeen): the age of the reading and a    *)
(* stale mode hold no run back. What still may, the settle time and the    *)
(* cooldown, began with the window or with a rewrite, which both start the *)
(* count again. A run that may look sees at most as many dead ticks as lie *)
(* between two runs, and leaves the rest to the next (DeadBounded). Ticks  *)
(* on which a sensor is unreadable or too old start the count again: while *)
(* they last the check is silent, and nothing is claimed.                  *)

\* Ticks since the last one of a run.
SinceRun == (now - 1) % Interval

\* Runs, and the markers they leave, are at every third tick.
OnTheClock ==
  /\ now \in 0 .. Closes
  /\ due => SinceRun = 0
  /\ \/ marker = Never
     \/ marker \in 0 .. now /\ (marker - 1) % Interval = 0
  /\ deadFor \in Nat

\* What is known while a dead slot is counted.
DeadSeen ==
  /\ received = now /\ BatteryIsRecent /\ ~battery.soc /\ ~battery.watts
  /\ select = timed
  /\ Opens <= now /\ now < Closes
  /\ deadFor <= now - Opens + 1
  /\ marker # Never => deadFor <= now - marker

\* A run is due every third tick, and leaves at most three of them dead.
DeadBounded == deadFor <= IF due THEN Cooldown ELSE Interval + SinceRun

OutcomeInv == OnTheClock /\ DeadBounded /\ (deadFor # 0 => DeadSeen)

USE DEF Interval, Settle, MaxAge, Cooldown, Never

\* Nothing is counted yet.
LEMMA OutcomeInit == ASSUME WindowIsOne PROVE VerdictInit => OutcomeInv
BY DEF WindowIsOne, VerdictInit, OutcomeInv, OnTheClock, DeadBounded, SinceRun, DeadSeen

\* A tick counts one more, on a reading of now.
LEMMA TickKeepsOutcome ==
  ASSUME WindowIsOne, OutcomeInv, NEW arrives \in BOOLEAN, NEW stops \in BOOLEAN, NEW flips \in BOOLEAN,
         NEW fills \in BOOLEAN, Tick(arrives, stops, flips, fills)
  PROVE  OutcomeInv'
<1> USE DEF WindowIsOne
<1>1. now' = now + 1 /\ now' \in 1 .. Closes /\ ~due /\ marker' = marker
  BY DEF Tick, OutcomeInv, OnTheClock
<1>2. due' = (SinceRun' = 0)
  BY DEF Tick, SinceRun, OutcomeInv, OnTheClock
<1>3. SinceRun' = 0 \/ SinceRun' = SinceRun + 1
  BY <1>1 DEF SinceRun, OutcomeInv, OnTheClock
<1>4. \/ deadFor' = 0
      \/ deadFor' = deadFor + 1 /\ arrives /\ InWindow(now') /\ BatteryIsRecent' /\ ~battery'.soc /\ ~battery'.watts
  BY DEF Tick
<1>5. OnTheClock'
  <2>1. deadFor' \in Nat
    BY <1>4 DEF OutcomeInv, OnTheClock
  <2>2. \/ marker' = Never
        \/ marker' \in 0 .. now' /\ (marker' - 1) % Interval = 0
    BY <1>1 DEF OutcomeInv, OnTheClock
  <2>3. due' => SinceRun' = 0
    BY <1>2
  <2> QED BY <1>1, <2>1, <2>2, <2>3 DEF OnTheClock
<1>6. SinceRun \in 0 .. 2
  BY DEF SinceRun, OutcomeInv, OnTheClock
<1>7. DeadBounded'
  BY <1>1, <1>2, <1>3, <1>4, <1>6 DEF DeadBounded, OutcomeInv, OnTheClock
<1>8. ASSUME deadFor' # 0 PROVE DeadSeen'
  <2>1. deadFor' = deadFor + 1 /\ arrives /\ InWindow(now') /\ BatteryIsRecent' /\ ~battery'.soc /\ ~battery'.watts
    BY <1>4, <1>8
  <2>2. received' = now' /\ select' = timed'
    BY <2>1 DEF Tick
  <2> QED BY <1>1, <2>1, <2>2 DEF DeadSeen, InWindow, OutcomeInv, OnTheClock
<1> QED BY <1>5, <1>7, <1>8 DEF OutcomeInv

\* A run writes, which ends the count, or has its reason not to.
LEMMA RunKeepsOutcome == ASSUME WindowIsOne, OutcomeInv, Run PROVE OutcomeInv'
<1> USE DEF WindowIsOne
<1>1. now' = now /\ due /\ due' = FALSE /\ SinceRun = 0 /\ SinceRun' = SinceRun /\ full' = full
  BY DEF Run, OutcomeInv, OnTheClock, SinceRun
<1>2. ASSUME ModeSure
      PROVE  /\ deadFor # 0 => select' = timed'
             /\ StillDead \in {0, deadFor} /\ (deadFor # 0 => StillDead = 0)
  <2>1. CASE select
    BY <1>2, <2>1 DEF ModeSure, OutcomeInv, OnTheClock, DeadSeen, StillDead
  <2>2. CASE ~select
    BY <1>2, <2>2 DEF ModeSure, OutcomeInv, OnTheClock, DeadSeen, StillDead
  <2> QED BY <2>1, <2>2
<1>3. CASE ModeSure /\ Programs
  <2>1. deadFor' = 0
    BY <1>2, <1>3 DEF Programs
  <2> QED BY <1>1, <1>2, <1>3, <2>1 DEF Programs, OutcomeInv, OnTheClock, DeadBounded
<1>4. CASE (ModeSure \/ ModeUnsure) /\ Clears
  BY <1>1, <1>4 DEF Clears, OutcomeInv, OnTheClock, DeadBounded
<1>5. CASE ModeSure /\ armed /\ Verdict
  <2>1. CASE Condemns /\ ~Cooling
    <3>1. Recommits
      BY <1>5, <2>1 DEF Verdict
    <3>2. deadFor' = 0
      BY <3>1, <1>2, <1>5 DEF Recommits, Clears
    <3>3. OnTheClock'
      <4>1. marker' = marker \/ marker' = now
        BY <3>1 DEF Recommits, Clears
      <4> QED BY <1>1, <1>2, <1>5, <3>2, <4>1 DEF OutcomeInv, OnTheClock, SinceRun
    <3> QED BY <1>1, <3>2, <3>3 DEF OutcomeInv, DeadBounded
  <2>2. CASE ~(Condemns /\ ~Cooling)
    <3>1. UNCHANGED <<armed, running, received, battery, marker, wrote, recommits, deadFor>>
      BY <1>5, <2>2 DEF Verdict
    <3>2. ASSUME deadFor # 0 PROVE deadFor <= Interval
      <4>1. DeadSeen
        BY <3>2 DEF OutcomeInv
      <4>2. CASE ~Judges
        BY <4>1, <4>2 DEF Judges, LastGenuine, DeadSeen, OutcomeInv, OnTheClock
      <4>3. CASE Cooling
        <5>1. marker # Never
          BY <4>3 DEF Cooling, OutcomeInv, OnTheClock
        <5>2. now - marker <= Interval
          BY <5>1, <4>3, <1>1 DEF Cooling, OutcomeInv, OnTheClock, SinceRun
        <5> QED BY <4>1, <5>1, <5>2 DEF DeadSeen, OutcomeInv, OnTheClock
      <4> QED BY <2>2, <4>1, <4>2, <4>3 DEF DeadSeen, Condemns
    <3>3. OnTheClock'
      BY <1>1, <1>2, <1>5, <3>1 DEF OutcomeInv, OnTheClock
    <3>4. DeadBounded'
      BY <1>1, <3>1, <3>2 DEF DeadBounded, OutcomeInv, OnTheClock
    <3>5. deadFor' # 0 => DeadSeen'
      BY <1>1, <1>2, <1>5, <3>1 DEF OutcomeInv, DeadSeen, BatteryIsRecent, LastGenuine
    <3> QED BY <3>3, <3>4, <3>5 DEF OutcomeInv
  <2> QED BY <2>1, <2>2
<1> QED BY <1>3, <1>4, <1>5 DEF Run

\* A killed or missed run starts the count again: only working jobs count.
LEMMA KilledKeepsOutcome == ASSUME WindowIsOne, OutcomeInv, Killed PROVE OutcomeInv'
<1>1. now' = now /\ due' = FALSE /\ deadFor' = 0 /\ marker' = marker
  BY DEF Killed
<1> QED BY <1>1 DEF OutcomeInv, OnTheClock, DeadBounded, SinceRun, WindowIsOne

\* Every step keeps the invariant, a restart of Home Assistant among them.
LEMMA NextKeepsOutcome == ASSUME WindowIsOne, OutcomeInv, [VerdictNext]_verdictVars PROVE OutcomeInv'
<1>1. CASE UNCHANGED verdictVars
  BY <1>1 DEF verdictVars, OutcomeInv, OnTheClock, DeadBounded, DeadSeen, SinceRun, BatteryIsRecent, LastGenuine
<1>2. CASE HassRestarts
  BY <1>2 DEF HassRestarts, OutcomeInv, OnTheClock, DeadBounded, DeadSeen, SinceRun, WindowIsOne, BatteryIsRecent, LastGenuine
<1> QED BY <1>1, <1>2, TickKeepsOutcome, RunKeepsOutcome, KilledKeepsOutcome DEF VerdictNext

\* verify_charging rewrites a slot that does not run within the cooldown, in
\* whatever order its gates open, for any window.
THEOREM DeadSlotsAreRewritten ==
  ASSUME WindowIsOne
  PROVE  VerdictSpec => []DeadIsRewritten
<1>1. OutcomeInv => DeadIsRewritten
  BY DEF OutcomeInv, OnTheClock, DeadBounded, DeadIsRewritten, SinceRun
<1>2. OutcomeInv /\ [VerdictNext]_verdictVars => OutcomeInv'
  BY NextKeepsOutcome
<1> QED BY OutcomeInit, <1>1, <1>2, PTL DEF VerdictSpec

\* Every step keeps the types: what is read or written is so at an instant of the
\* model.
LEMMA StepKeepsVerdictTypes ==
  ASSUME WindowIsOne, OutcomeInv, OutcomeInv', VerdictTypeOK, [VerdictNext]_verdictVars
  PROVE  VerdictTypeOK'
<1> DEFINE Instants == (0 .. Closes) \cup {Never}
<1>1. now \in 0 .. Closes /\ now' \in 0 .. Closes /\ deadFor' \in 0 .. Closes
  <2>1. now \in 0 .. Closes /\ now' \in 0 .. Closes /\ deadFor' \in Nat
    BY DEF OutcomeInv, OnTheClock
  <2>2. deadFor' # 0 => now' < Closes /\ deadFor' <= now' - Opens + 1
    BY DEF OutcomeInv, DeadSeen
  <2>3. Opens \in Nat /\ Closes \in Nat
    BY DEF WindowIsOne
  <2>4. CASE deadFor' = 0
    BY <2>1, <2>3, <2>4
  <2>5. CASE deadFor' # 0
    <3>1. \A d \in Nat, m \in 0 .. Closes : m < Closes /\ d <= m - Opens + 1 => d \in 0 .. Closes
      BY <2>3
    <3> QED BY <2>1, <2>2, <2>5, <3>1
  <2> QED BY <2>1, <2>4, <2>5
<1>2. now \in Instants /\ now' \in Instants /\ Never \in Instants
  BY <1>1
<1>3. /\ due \in BOOLEAN /\ armed \in BOOLEAN /\ running \in BOOLEAN /\ timed \in BOOLEAN
      /\ select \in BOOLEAN /\ full \in BOOLEAN
      /\ received \in Instants /\ marker \in Instants /\ wrote \in Instants /\ recommits \in Instants
  BY DEF VerdictTypeOK
<1> HIDE DEF Instants
<1>4. ASSUME ModeSure \/ ModeUnsure PROVE timed' \in BOOLEAN /\ select' \in BOOLEAN
  BY <1>3, <1>4 DEF ModeSure, ModeUnsure
<1>5. ASSUME Programs \/ Clears \/ Recommits
      PROVE  /\ armed' \in BOOLEAN /\ running' \in BOOLEAN
             /\ received' \in Instants /\ marker' \in Instants /\ wrote' \in Instants /\ recommits' \in Instants
  BY <1>2, <1>3, <1>5 DEF Programs, Clears, Recommits
<1>6. ASSUME Verdict
      PROVE  /\ armed' \in BOOLEAN /\ running' \in BOOLEAN
             /\ received' \in Instants /\ marker' \in Instants /\ wrote' \in Instants /\ recommits' \in Instants
  BY <1>3, <1>5, <1>6 DEF Verdict
<1>7. /\ due' \in BOOLEAN /\ armed' \in BOOLEAN /\ running' \in BOOLEAN /\ timed' \in BOOLEAN
      /\ select' \in BOOLEAN /\ full' \in BOOLEAN
      /\ received' \in Instants /\ marker' \in Instants /\ wrote' \in Instants /\ recommits' \in Instants
  <2>1. ASSUME NEW arrives \in BOOLEAN, NEW stops \in BOOLEAN, NEW flips \in BOOLEAN, NEW fills \in BOOLEAN,
               Tick(arrives, stops, flips, fills)
        PROVE  <1>7
    <3>1. UNCHANGED <<armed, marker, wrote, recommits>>
      BY <2>1 DEF Tick
    <3>2. due' \in BOOLEAN /\ running' \in BOOLEAN /\ timed' \in BOOLEAN /\ full' \in BOOLEAN
      BY <2>1 DEF Tick
    <3>3. CASE arrives
      <4>1. select' = timed' /\ received' = now'
        BY <2>1, <3>3 DEF Tick
      <4> QED BY <1>2, <1>3, <3>1, <3>2, <4>1
    <3>4. CASE ~arrives
      <4>1. UNCHANGED <<select, received>>
        BY <2>1, <3>4 DEF Tick
      <4> QED BY <1>3, <3>1, <3>2, <4>1
    <3> QED BY <3>3, <3>4
  <2>2. CASE HassRestarts
    BY <1>2, <1>3, <2>2 DEF HassRestarts
  <2>3. CASE Run
    <3>1. due' = FALSE /\ full' = full
      BY <2>3 DEF Run
    <3>2. CASE (ModeSure \/ ModeUnsure) /\ (Programs \/ Clears)
      BY <1>3, <1>4, <1>5, <3>1, <3>2
    <3>3. CASE ModeSure /\ armed /\ Verdict
      BY <1>3, <1>4, <1>6, <3>1, <3>3
    <3> QED BY <2>3, <3>2, <3>3 DEF Run
  <2>4. CASE Killed
    <3>1. due' = FALSE /\ UNCHANGED <<now, armed, full, received, battery, marker, recommits>>
      BY <2>4 DEF Killed
    <3>2. running' \in BOOLEAN /\ timed' \in BOOLEAN /\ select' \in BOOLEAN /\ wrote' \in Instants
      BY <1>2, <1>3, <1>4, <2>4 DEF Killed
    <3> QED BY <1>3, <3>1, <3>2
  <2>5. CASE UNCHANGED verdictVars
    BY <1>3, <2>5 DEF verdictVars
  <2> QED BY <2>1, <2>2, <2>3, <2>4, <2>5 DEF VerdictNext
<1>8. battery' \in [watts : BOOLEAN, soc : BOOLEAN, at : 0 .. Closes] \cup {Unreadable}
  <2>1. battery \in [watts : BOOLEAN, soc : BOOLEAN, at : 0 .. Closes] \cup {Unreadable}
    BY DEF VerdictTypeOK
  <2>2. ASSUME NEW arrives \in BOOLEAN, NEW stops \in BOOLEAN, NEW flips \in BOOLEAN, NEW fills \in BOOLEAN,
               Tick(arrives, stops, flips, fills)
        PROVE  <1>8
    <3>1. battery' \in Hears(Charging', full') /\ now' = now + 1
      BY <2>2 DEF Tick
    <3>2. now + 1 \in 0 .. Closes
      BY <1>1, <3>1
    <3>3. Charging' \in BOOLEAN /\ full' \in BOOLEAN
      BY <1>7 DEF Charging
    <3>4. CASE battery = Unreadable
      <4>1. now + 1 .. now = {}
        BY <1>1
      <4> QED BY <3>1, <3>2, <3>3, <3>4, <4>1 DEF Hears
    <3>5. CASE battery # Unreadable
      <4>1. battery.watts \in BOOLEAN /\ battery.soc \in BOOLEAN /\ battery.at \in 0 .. Closes
        BY <2>1, <3>5
      <4>2. battery.at .. now \subseteq 0 .. Closes
        <5>1. \A a, b \in 0 .. Closes : a .. b \subseteq 0 .. Closes
          BY DEF WindowIsOne
        <5> QED BY <1>1, <4>1, <5>1
      <4>3. \/ battery' \in [watts : {battery.watts, Charging'}, soc : {battery.soc, full'}, at : battery.at .. now]
            \/ battery' = [watts |-> Charging', soc |-> full', at |-> now + 1]
            \/ battery' = Unreadable
        BY <3>1, <3>5 DEF Hears
      <4>4. {battery.watts, Charging'} \subseteq BOOLEAN /\ {battery.soc, full'} \subseteq BOOLEAN
        BY <3>3, <4>1
      <4> QED BY <3>2, <3>3, <4>2, <4>3, <4>4
    <3> QED BY <3>4, <3>5
  <2>3. CASE HassRestarts \/ Run \/ Killed \/ UNCHANGED verdictVars
    <3>1. battery' = battery
      BY <2>3 DEF HassRestarts, Run, Killed, Programs, Clears, Recommits, Verdict, verdictVars
    <3> QED BY <2>1, <3>1
  <2> QED BY <2>2, <2>3 DEF VerdictNext
<1> QED BY <1>1, <1>7, <1>8 DEF VerdictTypeOK, Instants

\* Instants are instants of the window or before it, and the count fits in it.
THEOREM VerdictTypeCorrect ==
  ASSUME WindowIsOne
  PROVE  VerdictSpec => []VerdictTypeOK
<1>1. VerdictInit => VerdictTypeOK
  <2> SUFFICES ASSUME VerdictInit PROVE VerdictTypeOK
    OBVIOUS
  <2>1. now \in 0 .. Closes /\ deadFor \in 0 .. Closes
    BY DEF VerdictInit, WindowIsOne
  <2>2. /\ due \in BOOLEAN /\ armed \in BOOLEAN /\ running \in BOOLEAN /\ timed \in BOOLEAN
        /\ select \in BOOLEAN /\ full \in BOOLEAN
    BY DEF VerdictInit
  <2>3. received = Never /\ battery = Unreadable /\ marker = Never /\ wrote = Never /\ recommits = Never
    BY DEF VerdictInit
  <2> QED BY <2>1, <2>2, <2>3 DEF VerdictTypeOK
<1>2. OutcomeInv /\ [VerdictNext]_verdictVars => OutcomeInv'
  BY NextKeepsOutcome
<1>3. OutcomeInv /\ OutcomeInv' /\ VerdictTypeOK /\ [VerdictNext]_verdictVars => VerdictTypeOK'
  BY StepKeepsVerdictTypes
<1> QED BY OutcomeInit, <1>1, <1>2, <1>3, PTL DEF VerdictSpec
=============================================================================
