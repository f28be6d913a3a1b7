-------------------------- MODULE ServerStartProofs --------------------------
(* Proofs about ServerStart, for any number of processes.  The invariant of   *)
(* the check is that of two processes that have taken their snapshots, one   *)
(* has the other in its own, still to be tried or counted already.           *)
EXTENDS ServerStart, TLAPS, FiniteSetTheorems

Looked == {"counting"} \cup Passed

Types ==
    /\ pc \in [Process -> {"off"} \cup Checking \cup Passed]
    /\ ended \in [Process -> Endings]
    /\ listed \in [Process -> SUBSET Process] /\ opened \in [Process -> SUBSET Process]
    /\ count \in [Process -> Nat]
    /\ port \subseteq Process /\ device \subseteq Process
    /\ sent \in [Process -> 0..SAMPLES]
    /\ commands \in 0..MaxCommands /\ starts \in 0..MaxStarts /\ kills \in 0..MaxKills
    /\ elevated \in [Process -> BOOLEAN] /\ alone \in [Process -> BOOLEAN]
    /\ present \in BOOLEAN /\ sampleFile \in BOOLEAN
    /\ there \in BOOLEAN /\ config \in SUBSET Keys

\* Before its snapshot a process has nothing to try and has counted nothing.
Fresh(p) ==
    /\ pc[p] \notin Looked => listed[p] = {} /\ opened[p] = {}
    /\ pc[p] = "snapshot" => count[p] = 0

\* What is counted, and what is left to count, is no more than there is.
Bounded(p) == count[p] + Cardinality(listed[p]) <= Cardinality(Process)

\* Every process counted is counted by itself.
Counts(p) ==
    /\ count[p] = 0 => opened[p] = {}
    /\ count[p] <= 1 => \A a, b \in opened[p] : a = b

Sees(p, q) == MayOpen(p, q) => q \in listed[p] \cup opened[p]

SeesSelf(p) == pc[p] \in Looked => p \in listed[p] \cup opened[p]

Decided(p) == pc[p] \in Passed => listed[p] = {} /\ count[p] <= 1

CheckInv ==
    /\ \A p \in Process : Fresh(p) /\ Counts(p) /\ SeesSelf(p) /\ Decided(p)
    /\ \A p, q \in Process :
          p # q /\ pc[p] \in Looked /\ pc[q] \in Looked => Sees(p, q) \/ Sees(q, p)

DeviceInv ==
    /\ \A p, q \in device : p = q
    /\ \A p \in device : pc[p] \in {"sample", "serving"}

----------------------------------------------------------------------------
LEMMA InitInv == Init => Types /\ CheckInv /\ DeviceInv /\ \A p \in Process : Bounded(p)
<1> SUFFICES ASSUME Init PROVE Types /\ CheckInv /\ DeviceInv /\ \A p \in Process : Bounded(p)
  OBVIOUS
<1>1. Types
  <2>1. 0 \in 0..SAMPLES /\ 0 \in 0..MaxCommands /\ 0 \in 0..MaxStarts /\ 0 \in 0..MaxKills
    BY StartAssumption
  <2> QED
    BY <2>1 DEF Init, Types, Endings
<1>2. CheckInv
  BY DEF Init, CheckInv, Fresh, Counts, SeesSelf, Decided, Looked, Passed, Keys
<1>3. DeviceInv
  BY DEF Init, DeviceInv
<1>4. Cardinality({}) = 0 /\ Cardinality(Process) \in Nat
  BY StartAssumption, FS_EmptySet, FS_CardinalityType
<1>5. \A p \in Process : Bounded(p)
  BY <1>4 DEF Init, Bounded
<1> QED
  BY <1>1, <1>2, <1>3, <1>5

\* The end of a process, by whatever step.
LEMMA EndTypes ==
  ASSUME Types, NEW p \in Process, NEW how \in Endings, End(p, how),
         commands' \in 0..MaxCommands, kills' \in 0..MaxKills
  PROVE  Types'
  BY DEF Types, End, world, file

LEMMA TypesStep == Types /\ [Next]_vars => Types'
<1> SUFFICES ASSUME Types, [Next]_vars PROVE Types'
  OBVIOUS
<1> USE StartAssumption
<1>1. ASSUME NEW p \in Process, Start(p) PROVE Types'
  <2>1. starts' \in 0..MaxStarts /\ 0 \in 0..SAMPLES
    BY <1>1 DEF Types, Start
  <2>2. ended' \in [Process -> Endings]
    BY <1>1 DEF Types, Start, Endings
  <2>3. alone' \in [Process -> BOOLEAN]
    <3>1. \A q \in Process : (IF q = p THEN Alive = {}
                              ELSE alone[q] /\ pc[q] # "snapshot" /\ MayOpen(p, q)) \in BOOLEAN
      OBVIOUS
    <3> QED
      BY <1>1, <3>1, Zenon DEF Start
  <2> QED
    BY <1>1, <2>1, <2>2, <2>3 DEF Types, Start, held, world, file, Checking
<1>2. ASSUME NEW p \in Process, Kill(p) PROVE Types'
  <2>1. kills' \in 0..MaxKills /\ commands' \in 0..MaxCommands
    BY <1>2 DEF Kill, Types
  <2>2. "killed" \in Endings
    BY DEF Endings
  <2> QED
    BY <1>2, <2>1, <2>2, EndTypes DEF Kill
<1>3. ASSUME NEW p \in Process, NEW how \in Endings, Fail(p, how) PROVE Types'
  <2>1. kills' \in 0..MaxKills /\ commands' \in 0..MaxCommands
    BY <1>3 DEF Fail, Types
  <2> QED
    BY <1>3, <2>1, EndTypes DEF Fail
<1>4. ASSUME NEW p \in Process, NEW from, NEW to \in Checking \cup Passed,
             Goes(p, from, to), UNCHANGED <<count, opened, sent, commands>>,
             listed' \in [Process -> SUBSET Process], port' \subseteq Process,
             device' \subseteq Process
      PROVE  Types'
  BY <1>4 DEF Types, Goes, bounds, world, file
<1>5. ASSUME NEW p \in Process, Step(p) PROVE Types'
  <2>1. CASE Snapshot(p)
    <3>1. Alive \subseteq Process
      BY DEF Alive
    <3> QED
      BY <1>4, <2>1, <3>1 DEF Snapshot, Types, held, written, Checking
  <2>2. CASE TryOpen(p)
    BY <2>2 DEF TryOpen, Types, life, held, written, bounds, world, file
  <2>3. CASE Passes(p)
    BY <1>4, <2>3 DEF Passes, Types, check, held, written, Passed, Keys
  <2>4. CASE GivesUp(p)
    BY <1>3, <2>4 DEF GivesUp, Endings
  <2>5. CASE ReadConfig(p)
    BY <1>3, <1>4, <2>5 DEF ReadConfig, Reads, Types, check, held, written, Passed, Keys, Endings
  <2>11. CASE FindConfig(p)
    BY <1>4, <2>11 DEF FindConfig, Types, check, held, written, Passed, Keys
  <2>12. CASE CreateConfig(p) \/ WriteKey(p)
    <3>1. "LocalIP" \in Passed /\ \A k \in Keys : AfterKey(k) \in Passed
      BY DEF Passed, Keys, AfterKey
    <3> QED
      BY <2>12, <3>1 DEF CreateConfig, WriteKey, Types, check, held, written, bounds
  <2>6. CASE Listen(p)
    BY <1>3, <1>4, <2>6 DEF Listen, Types, check, written, Passed, Keys, Endings
  <2>8. CASE OpenDevice(p)
    BY <1>3, <1>4, <2>8 DEF OpenDevice, Types, check, written, Passed, Keys, Endings
  <2>9. CASE WriteSample(p)
    <3>1. CASE Fail(p, "null device")
      BY <1>3, <3>1 DEF Endings
    <3>2. CASE ~Fail(p, "null device")
      <4>1. sent[p] < SAMPLES /\ sent' = [sent EXCEPT ![p] = sent[p] + 1]
            /\ UNCHANGED <<life, check, held, commands, bounds, world, alone>>
        BY <2>9, <3>2 DEF WriteSample
      <4>2. sent[p] + 1 \in 0..SAMPLES
        BY <4>1 DEF Types
      <4> QED
        BY <4>1, <4>2 DEF Types, life, check, held, bounds, world, file
    <3> QED
      BY <3>1, <3>2
  <2>10. CASE Run(p)
    BY <1>4, <2>10 DEF Run, Types, check, held, written, Passed, Keys
  <2> QED
    BY <1>5, <2>1, <2>2, <2>3, <2>4, <2>5, <2>6, <2>8, <2>9, <2>10, <2>11, <2>12 DEF Step
<1>7. ASSUME NEW p \in Process, Command(p) PROVE Types'
  <2>1. commands' \in 0..MaxCommands /\ kills' \in 0..MaxKills
    <3>1. commands < MaxCommands /\ commands' = commands + 1 /\ kills' = kills
      BY <1>7 DEF Command
    <3> QED
      BY <3>1 DEF Types
  <2>2. CASE End(p, "null device")
    BY <2>1, <2>2, EndTypes DEF Endings
  <2>3. CASE ~End(p, "null device")
    BY <1>7, <2>1, <2>3 DEF Command, Types, life, check, held, world, file
  <2> QED
    BY <2>2, <2>3
<1>8. CASE UNCHANGED vars
  BY <1>8 DEF vars, Types, life, check, held, written, bounds, world, file
<1> QED
  BY <1>1, <1>2, <1>5, <1>7, <1>8 DEF Next

----------------------------------------------------------------------------
(* The check.  A step starts a process, ends one, is one of the check's own  *)
(* two, or leaves the check alone and moves a process from one place behind  *)
(* the snapshot to another.                                                  *)

LEMMA StartCheck ==
  ASSUME Types, CheckInv, NEW p \in Process, Start(p)
  PROVE  CheckInv'
<1>1. /\ pc[p] = "off" /\ pc' = [pc EXCEPT ![p] = "snapshot"]
      /\ count' = [count EXCEPT ![p] = 0]
      /\ UNCHANGED <<listed, opened, elevated>>
  BY DEF Start, world
<1>2. p \notin {} /\ listed[p] = {} /\ opened[p] = {}
  BY <1>1 DEF CheckInv, Fresh, Looked, Passed, Keys
<1>3. \A q \in Process : /\ pc'[q] = IF q = p THEN "snapshot" ELSE pc[q]
                         /\ count'[q] = IF q = p THEN 0 ELSE count[q]
  BY <1>1 DEF Types
<1>4. \A q \in Process : (Fresh(q) /\ Counts(q) /\ SeesSelf(q) /\ Decided(q))'
  BY <1>1, <1>2, <1>3 DEF CheckInv, Fresh, Counts, SeesSelf, Decided, Looked, Passed, Keys
<1>5. \A q, r \in Process : q # r /\ pc'[q] \in Looked /\ pc'[r] \in Looked
         => Sees(q, r)' \/ Sees(r, q)'
  BY <1>1, <1>3 DEF CheckInv, Sees, MayOpen, Looked, Passed, Keys
<1> QED
  BY <1>4, <1>5 DEF CheckInv

LEMMA EndCheck ==
  ASSUME Types, CheckInv, NEW p \in Process, NEW how, End(p, how)
  PROVE  CheckInv'
<1>1. /\ pc' = [pc EXCEPT ![p] = "off"]
      /\ listed' = [q \in Process |-> IF q = p THEN {} ELSE listed[q] \ {p}]
      /\ opened' = [q \in Process |-> IF q = p THEN {} ELSE opened[q] \ {p}]
      /\ UNCHANGED <<count, elevated>>
  BY DEF End, world
<1>2. \A q \in Process : /\ pc'[q] = IF q = p THEN "off" ELSE pc[q]
                         /\ listed'[q] = IF q = p THEN {} ELSE listed[q] \ {p}
                         /\ opened'[q] = IF q = p THEN {} ELSE opened[q] \ {p}
  BY <1>1 DEF Types
<1>3. \A q \in Process : (Fresh(q) /\ Counts(q) /\ SeesSelf(q) /\ Decided(q))'
  BY <1>1, <1>2 DEF CheckInv, Fresh, Counts, SeesSelf, Decided, Looked, Passed, Keys
<1>4. \A q, r \in Process : q # r /\ pc'[q] \in Looked /\ pc'[r] \in Looked
         => Sees(q, r)' \/ Sees(r, q)'
  <2> SUFFICES ASSUME NEW q \in Process, NEW r \in Process, q # r,
                      pc'[q] \in Looked, pc'[r] \in Looked
               PROVE  Sees(q, r)' \/ Sees(r, q)'
    OBVIOUS
  <2>1. q # p /\ r # p /\ pc[q] \in Looked /\ pc[r] \in Looked
    BY <1>2 DEF Looked, Passed, Keys
  <2>2. Sees(q, r) \/ Sees(r, q)
    BY <2>1 DEF CheckInv
  <2> QED
    BY <1>1, <1>2, <2>1, <2>2 DEF Sees, MayOpen
<1> QED
  BY <1>3, <1>4 DEF CheckInv

\* The snapshot has every process that is there: itself, and each that looked
\* before.
LEMMA SnapshotCheck ==
  ASSUME Types, CheckInv, NEW p \in Process, Snapshot(p)
  PROVE  CheckInv'
<1>1. /\ pc[p] = "snapshot" /\ pc' = [pc EXCEPT ![p] = "counting"]
      /\ listed' = [listed EXCEPT ![p] = Alive]
      /\ UNCHANGED <<count, opened, elevated>>
  BY DEF Snapshot, Goes, world
<1>2. \A q \in Process : /\ pc'[q] = IF q = p THEN "counting" ELSE pc[q]
                         /\ listed'[q] = IF q = p THEN Alive ELSE listed[q]
  BY <1>1 DEF Types
<1>3. count[p] = 0 /\ opened[p] = {}
  BY <1>1 DEF CheckInv, Fresh, Looked, Passed, Keys
<1>4. \A q \in Process : pc[q] \in Looked \cup {"snapshot"} => q \in Alive
  BY DEF Alive, Looked, Passed, Keys
<1>5. \A q \in Process : (Fresh(q) /\ Counts(q) /\ SeesSelf(q) /\ Decided(q))'
  BY <1>1, <1>2, <1>3, <1>4 DEF CheckInv, Fresh, Counts, SeesSelf, Decided, Looked, Passed, Keys
<1>6. \A q, r \in Process : q # r /\ pc'[q] \in Looked /\ pc'[r] \in Looked
         => Sees(q, r)' \/ Sees(r, q)'
  <2> SUFFICES ASSUME NEW q \in Process, NEW r \in Process, q # r,
                      pc'[q] \in Looked, pc'[r] \in Looked
               PROVE  Sees(q, r)' \/ Sees(r, q)'
    OBVIOUS
  <2>1. CASE q = p
    <3>1. r \in Alive
      BY <1>2, <1>4, <2>1
    <3> QED
      BY <1>2, <2>1, <3>1 DEF Sees
  <2>2. CASE r = p
    <3>1. q \in Alive
      BY <1>2, <1>4, <2>2
    <3> QED
      BY <1>2, <2>2, <3>1 DEF Sees
  <2>3. CASE q # p /\ r # p
    <3>1. Sees(q, r) \/ Sees(r, q)
      BY <1>2, <2>3 DEF CheckInv
    <3> QED
      BY <1>1, <1>2, <2>3, <3>1 DEF Sees, MayOpen
  <2> QED
    BY <2>1, <2>2, <2>3
<1> QED
  BY <1>5, <1>6 DEF CheckInv

LEMMA TryOpenCheck ==
  ASSUME Types, CheckInv, NEW p \in Process, TryOpen(p)
  PROVE  CheckInv'
<1>1. PICK q \in listed[p] :
        /\ listed' = [listed EXCEPT ![p] = listed[p] \ {q}]
        /\ IF MayOpen(p, q)
           THEN /\ count' = [count EXCEPT ![p] = count[p] + 1]
                /\ opened' = [opened EXCEPT ![p] = opened[p] \cup {q}]
           ELSE UNCHANGED <<count, opened>>
  BY DEF TryOpen
<1>2. pc[p] = "counting" /\ UNCHANGED <<pc, elevated>> /\ q \in Process
  BY DEF TryOpen, life, world, Types
<1>3. \A r \in Process :
         /\ listed'[r] = IF r = p THEN listed[p] \ {q} ELSE listed[r]
         /\ count'[r] = IF r = p /\ MayOpen(p, q) THEN count[p] + 1 ELSE count[r]
         /\ opened'[r] = IF r = p /\ MayOpen(p, q) THEN opened[p] \cup {q} ELSE opened[r]
  BY <1>1 DEF Types
<1>4. \A r \in Process : count[r] \in Nat
  BY DEF Types
<1>5. \A r \in Process : Counts(r)'
  <2> TAKE r \in Process
  <2>1. Counts(r)
    BY DEF CheckInv
  <2>2. CASE r = p /\ MayOpen(p, q)
    <3>1. count'[r] = count[r] + 1 /\ opened'[r] = opened[r] \cup {q}
      BY <1>3, <2>2
    <3>2. count'[r] # 0 /\ (count'[r] <= 1 => count[r] = 0)
      BY <1>4, <3>1
    <3> QED
      BY <2>1, <3>1, <3>2 DEF Counts
  <2>3. CASE ~(r = p /\ MayOpen(p, q))
    BY <1>3, <2>1, <2>3 DEF Counts
  <2> QED
    BY <2>2, <2>3
<1>6. \A r \in Process : (Fresh(r) /\ Decided(r))'
  BY <1>2, <1>3 DEF CheckInv, Fresh, Decided, Looked, Passed, Keys
<1>7. \A r, s \in Process : Sees(r, s) => Sees(r, s)'
  BY <1>2, <1>3 DEF Sees, MayOpen
<1>8. \A r \in Process : SeesSelf(r)'
  <2> TAKE r \in Process
  <2>1. Sees(r, r) <=> r \in listed[r] \cup opened[r]
    BY DEF Sees, MayOpen
  <2>2. Sees(r, r)' <=> (r \in listed[r] \cup opened[r])'
    BY DEF Sees, MayOpen
  <2> QED
    BY <1>2, <1>7, <2>1, <2>2 DEF CheckInv, SeesSelf
<1>9. \A r, s \in Process : r # s /\ pc'[r] \in Looked /\ pc'[s] \in Looked
         => Sees(r, s)' \/ Sees(s, r)'
  BY <1>2, <1>7 DEF CheckInv
<1> QED
  BY <1>5, <1>6, <1>8, <1>9 DEF CheckInv

LEMMA MoveCheck ==
  ASSUME Types, CheckInv, NEW p \in Process, NEW to \in Passed, pc[p] \in Looked,
         pc' = [pc EXCEPT ![p] = to], UNCHANGED <<check, elevated>>,
         listed[p] = {} /\ count[p] <= 1
  PROVE  CheckInv'
<1>1. \A q \in Process : pc'[q] = IF q = p THEN to ELSE pc[q]
  BY DEF Types
<1>2. UNCHANGED <<listed, count, opened, elevated>>
  BY DEF check
<1>3. to \in Looked /\ to # "snapshot"
  BY DEF Looked, Passed, Keys
<1>4. \A q \in Process : (Fresh(q) /\ Counts(q) /\ SeesSelf(q) /\ Decided(q))'
  BY <1>1, <1>2, <1>3 DEF CheckInv, Fresh, Counts, SeesSelf, Decided
<1>5. \A q, r \in Process : q # r /\ pc'[q] \in Looked /\ pc'[r] \in Looked
         => Sees(q, r)' \/ Sees(r, q)'
  BY <1>1, <1>2, <1>3 DEF CheckInv, Sees, MayOpen
<1> QED
  BY <1>4, <1>5 DEF CheckInv

LEMMA SameCheck ==
  ASSUME CheckInv, UNCHANGED <<life, check, elevated>>
  PROVE  CheckInv'
  BY DEF CheckInv, life, check, Fresh, Counts, SeesSelf, Decided, Sees, MayOpen

LEMMA CheckStep == Types /\ CheckInv /\ [Next]_vars => CheckInv'
<1> SUFFICES ASSUME Types, CheckInv, [Next]_vars PROVE CheckInv'
  OBVIOUS
<1>1. ASSUME NEW p \in Process, Kill(p) PROVE CheckInv'
  BY <1>1, EndCheck DEF Kill
<1>2. ASSUME NEW p \in Process, NEW how, Fail(p, how) PROVE CheckInv'
  BY <1>2, EndCheck DEF Fail
<1>3. ASSUME NEW p \in Process, NEW from \in Passed, NEW to \in Passed, Goes(p, from, to),
             UNCHANGED check
      PROVE  CheckInv'
  <2>1. listed[p] = {} /\ count[p] <= 1 /\ pc[p] \in Looked
    BY <1>3 DEF Goes, CheckInv, Decided, Looked
  <2> QED
    BY <1>3, <2>1, MoveCheck DEF Goes, world
<1>4. ASSUME NEW p \in Process, Step(p) PROVE CheckInv'
  <2>1. CASE Snapshot(p)
    BY <2>1, SnapshotCheck
  <2>2. CASE TryOpen(p)
    BY <2>2, TryOpenCheck
  <2>3. CASE Passes(p)
    <3>1. listed[p] = {} /\ count[p] <= 1 /\ pc[p] \in Looked /\ "config" \in Passed
      BY <2>3 DEF Passes, NotRunning, Goes, Looked, Passed, Keys
    <3> QED
      BY <2>3, <3>1, MoveCheck DEF Passes, Goes, world
  <2>4. CASE GivesUp(p)
    BY <1>2, <2>4 DEF GivesUp
  <2>5. CASE ReadConfig(p)
    BY <1>2, <1>3, <2>5 DEF ReadConfig, Reads, Passed, Keys
  <2>11. CASE FindConfig(p)
    BY <1>3, <2>11 DEF FindConfig, Passed, Keys
  <2>12. CASE CreateConfig(p) \/ WriteKey(p)
    <3>1. PICK to \in Passed : pc' = [pc EXCEPT ![p] = to]
      BY <2>12 DEF CreateConfig, WriteKey, AfterKey, Keys, Passed
    <3>2. pc[p] \in Passed
      BY <2>12 DEF CreateConfig, WriteKey, Passed, Keys
    <3>3. listed[p] = {} /\ count[p] <= 1 /\ pc[p] \in Looked
      BY <3>2 DEF CheckInv, Decided, Looked
    <3>4. UNCHANGED <<check, elevated>>
      BY <2>12 DEF CreateConfig, WriteKey
    <3> QED
      BY <3>1, <3>3, <3>4, MoveCheck
  <2>6. CASE Listen(p)
    BY <1>2, <1>3, <2>6 DEF Listen, Passed, Keys
  <2>8. CASE OpenDevice(p)
    BY <1>2, <1>3, <2>8 DEF OpenDevice, Passed, Keys
  <2>9. CASE WriteSample(p)
    BY <1>2, <2>9, SameCheck DEF WriteSample, world
  <2>10. CASE Run(p)
    BY <1>3, <2>10 DEF Run, Passed, Keys
  <2> QED
    BY <1>4, <2>1, <2>2, <2>3, <2>4, <2>5, <2>6, <2>8, <2>9, <2>10, <2>11, <2>12 DEF Step
<1>6. ASSUME NEW p \in Process, Command(p) PROVE CheckInv'
  BY <1>6, EndCheck, SameCheck DEF Command, world
<1>7. CASE UNCHANGED vars
  BY <1>7, SameCheck DEF vars, world
<1> QED
  BY <1>1, <1>4, <1>6, <1>7, StartCheck DEF Next

----------------------------------------------------------------------------
(* The device.                                                               *)

LEMMA EndDevice ==
  ASSUME Types, DeviceInv, NEW p \in Process, NEW how, End(p, how)
  PROVE  DeviceInv'
<1>1. /\ pc' = [pc EXCEPT ![p] = "off"]
      /\ device' = device \ {p}
  BY DEF End
<1>2. \A q \in Process : pc'[q] = IF q = p THEN "off" ELSE pc[q]
  BY <1>1 DEF Types
<1>3. device \subseteq Process
  BY DEF Types
<1> QED
  BY <1>1, <1>2, <1>3 DEF DeviceInv

\* A step from one place to another that keeps the device.
LEMMA GoDevice ==
  ASSUME Types, DeviceInv, NEW p \in Process, NEW from, NEW to, Goes(p, from, to),
         from \notin {"sample", "serving"} \/ to = "serving",
         UNCHANGED device
  PROVE  DeviceInv'
<1>1. pc[p] = from /\ pc' = [pc EXCEPT ![p] = to] 
  BY DEF Goes
<1>2. \A q \in Process : pc'[q] = IF q = p THEN to ELSE pc[q]
  BY <1>1 DEF Types
<1>3. device \subseteq Process
  BY DEF Types
<1> QED
  BY <1>1, <1>2, <1>3 DEF DeviceInv

LEMMA DeviceStep == Types /\ DeviceInv /\ [Next]_vars => DeviceInv'
<1> SUFFICES ASSUME Types, DeviceInv, [Next]_vars PROVE DeviceInv'
  OBVIOUS
<1>0. device \subseteq Process
  BY DEF Types
<1>1. ASSUME NEW p \in Process, Start(p) PROVE DeviceInv'
  <2>1. \A q \in Process : pc'[q] = IF q = p THEN "snapshot" ELSE pc[q]
    BY <1>1 DEF Start, Types
  <2>2. pc[p] = "off" /\ UNCHANGED device
    BY <1>1 DEF Start, held
  <2> QED
    BY <1>0, <2>1, <2>2 DEF DeviceInv
<1>2. ASSUME NEW p \in Process, Kill(p) PROVE DeviceInv'
  BY <1>2, EndDevice DEF Kill
<1>3. ASSUME NEW p \in Process, NEW how, Fail(p, how) PROVE DeviceInv'
  BY <1>3, EndDevice DEF Fail
<1>4. ASSUME UNCHANGED <<pc, device>> PROVE DeviceInv'
  BY <1>4 DEF DeviceInv
<1>5. ASSUME NEW p \in Process, Step(p) PROVE DeviceInv'
  <2>1. CASE Snapshot(p)
    BY <2>1, GoDevice DEF Snapshot, held
  <2>2. CASE TryOpen(p)
    BY <1>4, <2>2 DEF TryOpen, life, held
  <2>3. CASE Passes(p)
    BY <2>3, GoDevice DEF Passes, held
  <2>4. CASE GivesUp(p)
    BY <1>3, <2>4 DEF GivesUp
  <2>5. CASE ReadConfig(p)
    BY <1>3, <2>5, GoDevice DEF ReadConfig, Reads, held
  <2>11. CASE FindConfig(p)
    BY <2>11, GoDevice DEF FindConfig, held
  <2>12. CASE CreateConfig(p) \/ WriteKey(p)
    <3>1. /\ pc[p] \notin {"sample", "serving"} /\ UNCHANGED device
          /\ \A q \in Process : q # p => pc'[q] = pc[q]
      BY <2>12 DEF CreateConfig, WriteKey, Keys, held, Types
    <3> QED
      BY <1>0, <3>1 DEF DeviceInv
  <2>6. CASE Listen(p)
    BY <1>3, <2>6, GoDevice DEF Listen
  <2>8. CASE OpenDevice(p)
    <3>1. CASE Fail(p, "device failed")
      BY <1>3, <3>1
    <3>2. CASE Goes(p, "device", "sample") /\ UNCHANGED device
      BY <3>2, GoDevice
    <3>3. CASE /\ Goes(p, "device", "sample") /\ device = {} /\ device' = device \cup {p}
      <4>1. \A q \in Process : pc'[q] = IF q = p THEN "sample" ELSE pc[q]
        BY <3>3 DEF Goes, Types
      <4> QED
        BY <3>3, <4>1 DEF DeviceInv, Goes
    <3> QED
      BY <2>8, <3>1, <3>2, <3>3 DEF OpenDevice, DeviceIsFree
  <2>9. CASE WriteSample(p)
    BY <1>3, <1>4, <2>9 DEF WriteSample, life, held
  <2>10. CASE Run(p)
    BY <2>10, GoDevice DEF Run, held
  <2> QED
    BY <1>5, <2>1, <2>2, <2>3, <2>4, <2>5, <2>6, <2>8, <2>9, <2>10, <2>11, <2>12 DEF Step
<1>7. ASSUME NEW p \in Process, Command(p) PROVE DeviceInv'
  BY <1>4, <1>7, EndDevice DEF Command, life, held
<1>8. CASE UNCHANGED vars
  BY <1>4, <1>8 DEF vars, life, held
<1> QED
  BY <1>1, <1>2, <1>5, <1>7, <1>8 DEF Next

----------------------------------------------------------------------------
(* The number of processes counted.                                          *)

LEMMA BoundedStep ==
  Types /\ CheckInv /\ (\A r \in Process : Bounded(r)) /\ [Next]_vars
      => (\A r \in Process : Bounded(r))'
<1> SUFFICES ASSUME Types, CheckInv, \A r \in Process : Bounded(r), [Next]_vars,
                    NEW r \in Process
             PROVE  Bounded(r)'
  OBVIOUS
<1> DEFINE N == Cardinality(Process)
<1>a. N \in Nat /\ \A S \in SUBSET Process : /\ IsFiniteSet(S)
                                            /\ Cardinality(S) \in Nat /\ Cardinality(S) <= N
  BY StartAssumption, FS_Subset, FS_CardinalityType
<1>b. \A S \in SUBSET Process : \A q \in S : Cardinality(S \ {q}) = Cardinality(S) - 1
  BY <1>a, FS_RemoveElement
<1>c. Cardinality({}) = 0
  BY FS_EmptySet
<1>d. count[r] \in Nat /\ listed[r] \in SUBSET Process /\ count[r] + Cardinality(listed[r]) <= N
  BY DEF Types, Bounded
<1> HIDE DEF N
<1>0. ASSUME count'[r] = count[r], listed'[r] \subseteq listed[r] PROVE Bounded(r)'
  <2>1. Cardinality(listed'[r]) <= Cardinality(listed[r])
    BY <1>0, <1>a, <1>d, FS_Subset
  <2>2. Cardinality(listed'[r]) \in Nat /\ Cardinality(listed[r]) \in Nat
    BY <1>0, <1>a, <1>d
  <2> QED
    BY <1>0, <1>a, <1>d, <2>1, <2>2 DEF Bounded, N
<1>1. ASSUME NEW p \in Process, Start(p) PROVE Bounded(r)'
  <2>1. listed' = listed /\ count'[r] = IF r = p THEN 0 ELSE count[r]
    BY <1>1 DEF Start, Types
  <2>2. CASE r = p
    BY <1>a, <1>d, <2>1, <2>2 DEF Bounded, N
  <2>3. CASE r # p
    BY <1>0, <2>1, <2>3
  <2> QED
    BY <2>2, <2>3
<1>2. ASSUME NEW p \in Process, NEW how, End(p, how) PROVE Bounded(r)'
  <2>1. count' = count /\ listed'[r] = IF r = p THEN {} ELSE listed[r] \ {p}
    BY <1>2 DEF End
  <2> QED
    BY <1>0, <2>1
<1>3. ASSUME NEW p \in Process, Snapshot(p) PROVE Bounded(r)'
  <2>1. count' = count /\ listed'[r] = IF r = p THEN Alive ELSE listed[r]
    BY <1>3 DEF Snapshot, Types
  <2>2. CASE r = p
    <3>1. count[r] = 0
      BY <1>3, <2>2 DEF CheckInv, Fresh, Snapshot, Goes
    <3>2. Alive \in SUBSET Process
      BY DEF Alive
    <3> QED
      BY <1>a, <2>1, <2>2, <3>1, <3>2 DEF Bounded, N
  <2>3. CASE r # p
    BY <1>0, <2>1, <2>3
  <2> QED
    BY <2>2, <2>3
<1>4. ASSUME NEW p \in Process, TryOpen(p) PROVE Bounded(r)'
  <2>1. PICK q \in listed[p] :
          /\ listed' = [listed EXCEPT ![p] = listed[p] \ {q}]
          /\ IF MayOpen(p, q) THEN count' = [count EXCEPT ![p] = count[p] + 1]
             ELSE UNCHANGED count
    BY <1>4 DEF TryOpen
  <2>2. CASE r = p
    <3>1. listed'[r] = listed[r] \ {q} /\ q \in listed[r]
          /\ count'[r] \in {count[r], count[r] + 1}
      BY <2>1, <2>2 DEF Types
    <3>2. Cardinality(listed'[r]) = Cardinality(listed[r]) - 1
          /\ Cardinality(listed[r]) \in Nat
      BY <1>a, <1>b, <1>d, <3>1
    <3> QED
      BY <1>a, <1>d, <3>1, <3>2 DEF Bounded, N
  <2>3. CASE r # p
    <3>1. count'[r] = count[r] /\ listed'[r] = listed[r]
      BY <2>1, <2>3 DEF Types
    <3> QED
      BY <1>0, <3>1
  <2> QED
    BY <2>2, <2>3
<1>5. ASSUME UNCHANGED check PROVE Bounded(r)'
  BY <1>0, <1>5 DEF check
<1>6. ASSUME NEW p \in Process, NEW how, Fail(p, how) PROVE Bounded(r)'
  BY <1>2, <1>6 DEF Fail
<1>7. ASSUME NEW p \in Process, Step(p) PROVE Bounded(r)'
  BY <1>3, <1>4, <1>5, <1>6, <1>7
     DEF Step, Passes, GivesUp, FindConfig, CreateConfig, WriteKey, ReadConfig, Reads, Listen, OpenDevice,
         WriteSample, Run
<1>8. ASSUME NEW p \in Process, Kill(p) \/ Command(p) PROVE Bounded(r)'
  BY <1>2, <1>5, <1>8 DEF Kill, Command
<1> QED
  BY <1>1, <1>5, <1>7, <1>8 DEF Next, vars

----------------------------------------------------------------------------
IInv == Types /\ CheckInv /\ DeviceInv /\ \A p \in Process : Bounded(p)

\* What two starters know of each other, and who has the device, always.
THEOREM StartInvariant == Spec => []IInv
<1>1. Init => IInv
  BY InitInv DEF IInv
<1>2. IInv /\ [Next]_vars => IInv'
  BY TypesStep, CheckStep, DeviceStep, BoundedStep DEF IInv
<1> QED
  BY <1>1, <1>2, PTL DEF Spec

\* Every variable keeps its type: no process counts more than there are.
THEOREM StartTypeCorrect == Spec => []TypeOK
<1>1. IInv => TypeOK
  <2> SUFFICES ASSUME IInv PROVE TypeOK
    OBVIOUS
  <2>1. Types /\ \A p \in Process : count[p] + Cardinality(listed[p]) <= Cardinality(Process)
    BY DEF IInv, Bounded
  <2>2. \A p \in Process : Cardinality(listed[p]) \in Nat /\ Cardinality(Process) \in Nat
    BY <2>1, StartAssumption, FS_Subset, FS_CardinalityType DEF Types
  <2>3. \A p \in Process : count[p] \in 0..Cardinality(Process)
    BY <2>1, <2>2 DEF Types
  <2> QED
    BY <2>1, <2>3 DEF Types, TypeOK
<1> QED
  BY <1>1, StartInvariant, PTL

\* Of any number of processes that may open each other, started, killed and
\* restarted in any order, at most one gets past the check.
THEOREM CheckExcludes == Spec => []OnlyOnePasses
<1>1. IInv => OnlyOnePasses
  <2> SUFFICES ASSUME IInv, NEW p \in Process, NEW q \in Process, p # q,
                      pc[p] \in Passed, pc[q] \in Passed, MayOpen(p, q), MayOpen(q, p)
               PROVE  FALSE
    BY DEF OnlyOnePasses
  <2>1. p \in opened[p] /\ q \in opened[q]
    BY DEF IInv, CheckInv, SeesSelf, Decided, Looked
  <2>2. q \in opened[p] \/ p \in opened[q]
    BY DEF IInv, CheckInv, Sees, Decided, Looked
  <2> QED
    BY <2>1, <2>2 DEF IInv, CheckInv, Counts, Decided
<1> QED
  BY <1>1, StartInvariant, PTL

\* Nothing else reaches the board while a sample is uploaded to it, whatever
\* rights the processes have.
THEOREM UploadsExclude == Spec => UploadUndisturbed
<1>1. IInv /\ [Next]_vars
        => [\A p, q \in Process : p # q /\ Uploads(p) => ~Writes(q)]_vars
  <2> SUFFICES ASSUME IInv, Next, NEW p \in Process, NEW q \in Process, p # q,
                      Uploads(p), Writes(q)
               PROVE  FALSE
    OBVIOUS
  <2>0. p \in device /\ q \notin device /\ pc[p] = "sample"
    BY DEF IInv, DeviceInv, Uploads
  <2>1. sent'[q] > sent[q]
    BY <2>0 DEF Writes
  <2>2. sent[q] \in Nat /\ sent[q] <= sent[q]
    BY StartAssumption DEF IInv, Types
  <2>3. sent'[q] # sent[q]
    BY <2>1, <2>2
  <2>4. PICK r \in Process : Start(r) \/ Kill(r) \/ Step(r) \/ Command(r)
    BY DEF Next
  <2>5. CASE Start(r)
    <3>1. sent'[q] = 0
      BY <2>3, <2>5 DEF Start, IInv, Types
    <3> QED
      BY <2>1, <2>2, <3>1
  <2>6. CASE WriteSample(r)
    BY <2>0, <2>3, <2>6 DEF WriteSample, Fail, End, IInv, Types
  <2>7. CASE ~WriteSample(r) /\ ~Start(r)
    <3>1. UNCHANGED sent
      BY <2>4, <2>7
         DEF Kill, Step, Command, End, Fail, Snapshot, TryOpen, Passes, GivesUp,
             FindConfig, CreateConfig, WriteKey, ReadConfig, Reads, Listen, OpenDevice, Run, written
    <3> QED
      BY <2>3, <3>1
  <2> QED
    BY <2>5, <2>6, <2>7
<1> QED
  BY <1>1, StartInvariant, PTL DEF Spec, UploadUndisturbed
==============================================================================
