-------------------------- MODULE SystemModeProofs --------------------------
(***************************************************************************)
(* The hard latch holds for any number of starts and incidents, from any   *)
(* journal that is not in MAINTENANCE.                                     *)
(***************************************************************************)
EXTENDS SystemMode, TLAPS

\* One transaction of set_mode on a soft mode: refused, or soft over soft.
LEMMA SoftWrite ==
  ASSUME TypeOK, NEW m \in Soft, NEW r \in Reason, SetMode(m, r)
  PROVE  /\ epoch' = epoch /\ mode' \in Hard \union Soft /\ reason' \in Reason
         /\ Opening' <=> Opening
         /\ ~Opening => mode' = mode /\ reason' = reason
BY DEF TypeOK, SetMode, Refused, Write, Opening, Hard, Soft, durable

\* On a hard mode: shut afterwards, and a new epoch unless a stronger mode
\* already holds.
LEMMA HardWrite ==
  ASSUME TypeOK, NEW m \in Hard, NEW r \in Reason, SetMode(m, r)
  PROVE  /\ epoch' \in Nat /\ mode' \in Hard /\ reason' \in Reason
         /\ ~Opening'
         /\ \/ UNCHANGED durable /\ m = "halted"
                 /\ mode \in {"emergency_exit", "maintenance"}
            \/ epoch' = epoch + 1 /\ mode' = m /\ reason' = r
                 /\ (m = "halted" => mode \notin {"emergency_exit", "maintenance"})
BY DEF TypeOK, SetMode, Refused, Write, Opening, Hard, Soft, durable

\* _latch_halted: the same, and the same incident twice is one epoch.
LEMMA LatchWrite ==
  ASSUME TypeOK, NEW r \in Reason, LatchHalted(r)
  PROVE  /\ epoch' \in Nat /\ mode' \in Hard /\ reason' \in Reason
         /\ ~Opening'
         /\ \/ /\ UNCHANGED durable
               /\ \/ mode \in {"emergency_exit", "maintenance"}
                  \/ mode = "halted" /\ reason = r
            \/ epoch' = epoch + 1 /\ mode' = "halted" /\ reason' = r
                 /\ mode \notin {"emergency_exit", "maintenance"}
<1>1. "halted" \in Hard
  BY DEF Hard
<1>2. CASE \/ mode \in {"emergency_exit", "maintenance"}
           \/ mode = "halted" /\ reason = r
  BY <1>2 DEF LatchHalted, TypeOK, Opening, Hard, durable
<1>3. CASE ~(\/ mode \in {"emergency_exit", "maintenance"}
             \/ mode = "halted" /\ reason = r)
  <2>1. SetMode("halted", r)
    BY <1>3 DEF LatchHalted
  <2> QED
    BY <1>1, <1>3, <2>1, HardWrite
<1> QED BY <1>2, <1>3

\* A compare-and-swap of the epoch.
LEMMA ReleaseWrite ==
  ASSUME TypeOK, NEW m \in Hard \union Soft, NEW r \in Reason, NEW e \in Nat,
         ReleaseTo(m, r, e)
  PROVE  /\ mode' \in Hard \union Soft /\ reason' \in Reason
         /\ epoch' \in Nat
         /\ epoch # e => UNCHANGED durable
         /\ epoch = e =>
              /\ mode' = m /\ reason' = r
              /\ epoch' = IF m \in Hard THEN epoch + 1 ELSE epoch
BY DEF TypeOK, ReleaseTo, Write, durable

\* What every step does to the durable state: it never turns the epoch back.
LEMMA DurableType ==
  ASSUME TypeOK, Next
  PROVE  /\ mode' \in Hard \union Soft /\ reason' \in Reason
         /\ epoch' \in Nat /\ epoch <= epoch'
<1> DEFINE Goal ==
      /\ mode' \in Hard \union Soft /\ reason' \in Reason
      /\ epoch' \in Nat /\ epoch <= epoch'
<1>0. /\ "halted" \in Hard /\ "emergency_exit" \in Hard
      /\ "starting" \in Soft /\ "ready" \in Soft /\ "degraded" \in Soft
      /\ {"transition", "incident", "invalid", "hold", "activated"} \subseteq Reason
      /\ epoch \in Nat /\ keep \in Hard \union {"none"} /\ hold \in Nat
      /\ ctl.epoch \in Nat
  BY DEF Hard, Soft, Reason, TypeOK
<1>1. ASSUME NEW m \in Hard \union Soft, NEW r \in Reason, SetMode(m, r)
      PROVE Goal
  BY <1>0, <1>1, SoftWrite, HardWrite DEF TypeOK, durable
<1>2. ASSUME NEW r \in Reason, LatchHalted(r) PROVE Goal
  BY <1>0, <1>2, LatchWrite DEF TypeOK, durable
<1>3. ASSUME NEW m \in Hard \union Soft, NEW r \in Reason, NEW e \in Nat,
             ReleaseTo(m, r, e)
      PROVE Goal
  BY <1>0, <1>3, ReleaseWrite DEF TypeOK, durable
<1>4. ASSUME UNCHANGED durable PROVE Goal
  BY <1>0, <1>4 DEF TypeOK, durable
<1>5. CASE Incident
  BY <1>0, <1>1, <1>2, <1>5
  DEF Incident, Halt, StreamHalt, Emergency, LatchIncident, Degrade
<1>6. CASE Start
  <2>1. CASE RecoverEnd
    <3>1. keep # "none" => keep \in Hard \union Soft
      BY <1>0
    <3> QED
      BY <1>0, <1>1, <2>1, <3>1 DEF RecoverEnd
  <2> QED
    BY <1>0, <1>1, <1>4, <1>6, <2>1
    DEF Start, StartBegin, RecoverBegin, RecoverAborts, Subscribe, Joined, durable
<1>7. CASE StartFails \/ Crash \/ PromoteCheck \/ PromoteSet \/ CanaryHold
  BY <1>0, <1>1, <1>2, <1>4, <1>7
  DEF StartFails, Crash, PromoteCheck, PromoteSet, CanaryHold, HoldCheck, HoldSet,
      HoldRead, durable
<1>8. CASE CanaryNext
  BY <1>0, <1>2, <1>3, <1>4, <1>8
  DEF CanaryNext, Artifact, ActivateCheck, Activate, EnforceCanary, durable
<1>9. CASE Command
  BY <1>0, <1>1, <1>2, <1>3, <1>4, <1>9
  DEF Command, ResumeRead, ResumeRelease, ResumeVerified, FlattenLatch,
      FlattenRead, FlattenRelease, CommandFails, durable
<1> QED
  BY <1>5, <1>6, <1>7, <1>8, <1>9 DEF Next

LEMMA InitType == Init => TypeOK
<1> SUFFICES ASSUME Init PROVE TypeOK
  OBVIOUS
<1>1. PICK o \in Origins : mode = o.mode /\ reason = o.reason
                           /\ epoch = IF o.mode \in Hard THEN 1 ELSE 0
  BY DEF Init
<1>2. o \in [mode : Hard \union Soft, reason : Reason]
  BY ModeConstants
<1>3. ctl = [cmd |-> "idle", epoch |-> 0, quiet |-> TRUE] /\ gated \in BOOLEAN
  BY ModeConstants DEF Init, Idle
<1>4. 0 \in 0..MaxStarts /\ 0 \in 0..epoch /\ epoch \in Nat
  BY <1>1, ModeConstants
<1>5. mode \in Hard \union Soft /\ reason \in Reason
  BY <1>1, <1>2
<1>6. ctl \in [cmd : CommandName, epoch : 0..epoch, quiet : BOOLEAN]
  BY <1>3, <1>4 DEF CommandName
<1>7. ctl.cmd = "idle" /\ act = FALSE /\ proc \in Stage
  BY <1>3 DEF Init, Stage
<1> QED
  BY <1>3, <1>4, <1>5, <1>6, <1>7 DEF Init, TypeOK

\* The fields of the control record, for a step that ends, keeps or begins one.
LEMMA CommandType ==
  ASSUME TypeOK, epoch' \in Nat, epoch <= epoch',
         NEW C, C = [cmd : CommandName, epoch : 0..epoch', quiet : BOOLEAN]
  PROVE  /\ ctl \in C /\ Idle \in C
         /\ [Idle EXCEPT !.cmd = "flatten_read"] \in C
         /\ [cmd |-> "resume", epoch |-> epoch, quiet |-> TRUE] \in C
         /\ [ctl EXCEPT !.cmd = "flatten", !.epoch = epoch] \in C
         /\ \A q \in BOOLEAN : [ctl EXCEPT !.quiet = q] \in C
         /\ \A d \in {"verify", "failed"} : [ctl EXCEPT !.cmd = d] \in C
         /\ hold \in 0..epoch' /\ epoch \in 0..epoch'
<1> USE DEF CommandName
<1>1. /\ ctl \in [cmd : CommandName, epoch : 0..epoch, quiet : BOOLEAN]
      /\ epoch \in Nat /\ hold \in 0..epoch
  BY DEF TypeOK
<1>2. \A n \in 0..epoch : n \in 0..epoch'
  BY <1>1
<1>3. 0 \in 0..epoch' /\ epoch \in 0..epoch' /\ hold \in 0..epoch'
  BY <1>1
<1>4. ctl \in C
  BY <1>1, <1>2
<1> HIDE <1>1
<1>5. Idle \in C /\ [Idle EXCEPT !.cmd = "flatten_read"] \in C
  BY <1>3 DEF Idle
<1>6. [cmd |-> "resume", epoch |-> epoch, quiet |-> TRUE] \in C
  BY <1>3
<1>7. /\ [ctl EXCEPT !.cmd = "flatten", !.epoch = epoch] \in C
      /\ \A q \in BOOLEAN : [ctl EXCEPT !.quiet = q] \in C
      /\ \A d \in {"verify", "failed"} : [ctl EXCEPT !.cmd = d] \in C
  BY <1>3, <1>4
<1> QED BY <1>3, <1>4, <1>5, <1>6, <1>7

\* The types of the variables that are no part of the transaction.
LEMMA OtherTypes ==
  ASSUME TypeOK, Next,
         NEW C, C = [cmd : CommandName, epoch : 0..epoch', quiet : BOOLEAN]
  PROVE  /\ ctl' \in C /\ hold' \in 0..epoch'
         /\ proc' \in Stage
         /\ starts' \in 0..MaxStarts /\ latched' \in BOOLEAN
         /\ keep' \in Hard \union {"none"}
         /\ prom' \in BOOLEAN /\ gated' \in BOOLEAN
         /\ consumed' \in BOOLEAN /\ artifact' \in BOOLEAN
         /\ act' \in BOOLEAN /\ warned' \in BOOLEAN
         /\ (ctl'.cmd # "idle" \/ act') => proc' = "running"
         /\ current' \subseteq Approval \union Flatten
         /\ incident' \in BOOLEAN
<1> DEFINE Rest == /\ ctl' \in C /\ hold' \in 0..epoch'
                   /\ proc' \in Stage
                   /\ starts' \in 0..MaxStarts /\ latched' \in BOOLEAN
                   /\ keep' \in Hard \union {"none"}
                   /\ prom' \in BOOLEAN /\ gated' \in BOOLEAN
                   /\ consumed' \in BOOLEAN /\ artifact' \in BOOLEAN
                   /\ act' \in BOOLEAN /\ warned' \in BOOLEAN
                   /\ (ctl'.cmd # "idle" \/ act') => proc' = "running"
                   /\ current' \subseteq Approval \union Flatten
                   /\ incident' \in BOOLEAN
<1>2. /\ ctl \in C /\ Idle \in C
      /\ [Idle EXCEPT !.cmd = "flatten_read"] \in C
      /\ [cmd |-> "resume", epoch |-> epoch, quiet |-> TRUE] \in C
      /\ [ctl EXCEPT !.cmd = "flatten", !.epoch = epoch] \in C
      /\ \A q \in BOOLEAN : [ctl EXCEPT !.quiet = q] \in C
      /\ \A d \in {"verify", "failed"} : [ctl EXCEPT !.cmd = d] \in C
      /\ hold \in 0..epoch' /\ epoch \in 0..epoch'
  BY DurableType, CommandType
<1>3. /\ proc \in Stage /\ starts \in 0..MaxStarts /\ latched \in BOOLEAN
      /\ keep \in Hard \union {"none"} /\ prom \in BOOLEAN /\ gated \in BOOLEAN
      /\ consumed \in BOOLEAN /\ artifact \in BOOLEAN /\ act \in BOOLEAN
      /\ warned \in BOOLEAN /\ incident \in BOOLEAN
      /\ (ctl.cmd # "idle" \/ act) => proc = "running"
      /\ current \subseteq Approval \union Flatten
      /\ ctl.quiet \in BOOLEAN
      /\ \A q \in BOOLEAN : [ctl EXCEPT !.quiet = q].cmd = ctl.cmd
      /\ Idle.cmd = "idle"
      /\ starts < MaxStarts => starts + 1 \in 0..MaxStarts
  BY ModeConstants DEF TypeOK, Idle
<1> USE DEF durable, startup, canary, Overtaken, Stage, CommandName, Approval,
            Flatten
<1>4. CASE Incident
  <2>1. CASE Halt
    BY <1>2, <1>3, <2>1 DEF Halt, Rest
  <2>2. CASE StreamHalt
    BY <1>2, <1>3, <2>2 DEF StreamHalt, Rest
  <2>3. CASE Emergency
    BY <1>2, <1>3, <2>3 DEF Emergency, Rest
  <2>4. CASE LatchIncident
    BY <1>2, <1>3, <2>4 DEF LatchIncident, Rest
  <2>5. CASE Degrade
    <3>1. PICK q \in {ctl.quiet, FALSE} : ctl' = [ctl EXCEPT !.quiet = q]
      BY <2>5 DEF Degrade
    <3>2. ctl' \in C /\ ctl'.cmd = ctl.cmd
      BY <1>2, <1>3, <3>1
    <3> QED
      BY <1>2, <1>3, <2>5, <3>2 DEF Degrade, Rest
  <2> QED
    BY <1>4, <2>1, <2>2, <2>3, <2>4, <2>5 DEF Incident
<1>5. CASE Start
  <2>1. CASE StartBegin
    BY <1>2, <1>3, <2>1 DEF StartBegin, Rest
  <2>2. CASE RecoverBegin
    BY <1>2, <1>3, <2>2 DEF RecoverBegin, Rest
  <2>3. CASE RecoverEnd
    BY <1>2, <1>3, <2>3 DEF RecoverEnd, Rest
  <2>4. CASE RecoverAborts
    BY <1>2, <1>3, <2>4 DEF RecoverAborts, Rest
  <2>5. CASE Subscribe
    BY <1>2, <1>3, <2>5 DEF Subscribe, Rest
  <2>6. CASE Joined
    BY <1>2, <1>3, <2>6 DEF Joined, Rest
  <2> QED
    BY <1>5, <2>1, <2>2, <2>3, <2>4, <2>5, <2>6 DEF Start
<1>6. CASE StartFails
  BY <1>2, <1>3, <1>6 DEF StartFails, Rest
<1>7. CASE Crash
  <2>1. 0 \in 0..epoch'
    BY DurableType
  <2> QED
    BY <1>2, <1>3, <1>7, <2>1 DEF Crash, Rest
<1>8. CASE PromoteCheck
  BY <1>2, <1>3, <1>8 DEF PromoteCheck, Rest
<1>9. CASE PromoteSet
  BY <1>2, <1>3, <1>9 DEF PromoteSet, Rest
<1>10. CASE CanaryHold
  <2>1. CASE HoldCheck
    BY <1>2, <1>3, <2>1 DEF HoldCheck, Rest
  <2>2. CASE HoldSet
    BY <1>2, <1>3, <2>2 DEF HoldSet, Rest
  <2>3. CASE HoldRead
    BY <1>2, <1>3, <2>3 DEF HoldRead, Rest
  <2> QED
    BY <1>10, <2>1, <2>2, <2>3 DEF CanaryHold
<1>11. CASE CanaryNext
  <2>1. CASE Artifact
    BY <1>2, <1>3, <2>1 DEF Artifact, Rest
  <2>2. CASE ActivateCheck
    BY <1>2, <1>3, <2>2 DEF ActivateCheck, Rest
  <2>3. CASE Activate
    BY <1>2, <1>3, <2>3 DEF Activate, Rest
  <2>4. CASE EnforceCanary
    BY <1>2, <1>3, <2>4 DEF EnforceCanary, Rest
  <2> QED
    BY <1>11, <2>1, <2>2, <2>3, <2>4 DEF CanaryNext
<1>12. CASE Command
  <2>1. CASE ResumeRead
    BY <1>2, <1>3, <2>1 DEF ResumeRead, Rest
  <2>2. CASE ResumeRelease
    BY <1>2, <1>3, <2>2 DEF ResumeRelease, Rest
  <2>3. CASE ResumeVerified
    BY <1>2, <1>3, <2>3 DEF ResumeVerified, Rest
  <2>4. CASE FlattenLatch
    BY <1>2, <1>3, <2>4 DEF FlattenLatch, Rest
  <2>5. CASE FlattenRead
    BY <1>2, <1>3, <2>5 DEF FlattenRead, Rest
  <2>6. CASE FlattenRelease
    BY <1>2, <1>3, <2>6 DEF FlattenRelease, Rest
  <2>7. CASE CommandFails
    BY <1>2, <1>3, <2>7 DEF CommandFails, Rest
  <2> QED
    BY <1>12, <2>1, <2>2, <2>3, <2>4, <2>5, <2>6, <2>7 DEF Command
<1> QED
  BY <1>4, <1>5, <1>6, <1>7, <1>8, <1>9, <1>10, <1>11, <1>12 DEF Next

LEMMA NextType == TypeOK /\ [Next]_vars => TypeOK'
<1> SUFFICES ASSUME TypeOK, [Next]_vars PROVE TypeOK'
  OBVIOUS
<1>1. CASE UNCHANGED vars
  BY <1>1 DEF vars, durable, startup, canary, TypeOK
<1>2. CASE Next
  BY <1>2, DurableType, OtherTypes DEF TypeOK
<1> QED BY <1>1, <1>2

\* The type invariant holds for any journal, any number of starts and epochs.
THEOREM TypeCorrect == Spec => []TypeOK
BY InitType, NextType, PTL DEF Spec

\* No step lets an overtaken approval look current.
LEMMA LatchInvNext ==
  ASSUME TypeOK, LatchInv, [Next]_vars PROVE LatchInv'
<1> USE DEF LatchInv, Exclusive, ResumeCurrent, HoldCurrent, ActivationAtHold,
            FlattenCurrent, Opening, Hard, durable, startup, canary, Overtaken,
            OpFree, WsFree, Idle, Approval, Flatten
<1>1. /\ epoch \in Nat /\ hold \in Nat /\ hold <= epoch
      /\ ctl.epoch \in Nat /\ ctl.epoch <= epoch
      /\ (ctl.cmd # "idle" \/ act) => proc = "running"
      /\ mode \in Hard \union Soft /\ keep \in Hard \union {"none"}
      /\ \A q : [ctl EXCEPT !.quiet = q].cmd = ctl.cmd
      /\ \A q : [ctl EXCEPT !.quiet = q].epoch = ctl.epoch
  BY DEF TypeOK
<1>2. /\ "halted" \in Hard /\ "emergency_exit" \in Hard
      /\ "starting" \in Soft /\ "ready" \in Soft /\ "degraded" \in Soft
      /\ {"transition", "incident", "invalid", "hold", "activated"} \subseteq Reason
  BY DEF Soft, Reason
<1>3. CASE UNCHANGED vars
  BY <1>3 DEF vars
<1>4. CASE Incident
  <2>1. CASE Halt
    BY <1>1, <1>2, <2>1, HardWrite DEF Halt
  <2>2. CASE StreamHalt
    BY <1>1, <1>2, <2>2, HardWrite DEF StreamHalt
  <2>3. CASE Emergency
    BY <1>1, <1>2, <2>3, HardWrite DEF Emergency
  <2>4. CASE LatchIncident
    BY <1>1, <1>2, <2>4, LatchWrite DEF LatchIncident
  <2>5. CASE Degrade
    BY <1>1, <1>2, <2>5, SoftWrite DEF Degrade
  <2> QED
    BY <1>4, <2>1, <2>2, <2>3, <2>4, <2>5 DEF Incident
<1>5. CASE Start
  <2>1. CASE StartBegin
    BY <1>1, <1>2, <2>1, SoftWrite DEF StartBegin
  <2>2. CASE RecoverBegin
    BY <1>1, <1>2, <2>2, SoftWrite DEF RecoverBegin
  <2>3. CASE RecoverEnd
    BY <1>1, <1>2, <2>3, SoftWrite, HardWrite DEF RecoverEnd
  <2>4. CASE RecoverAborts
    BY <1>1, <1>2, <2>4, HardWrite DEF RecoverAborts
  <2>5. CASE Subscribe
    BY <1>1, <1>2, <2>5, SoftWrite DEF Subscribe
  <2>6. CASE Joined
    BY <1>1, <1>2, <2>6 DEF Joined
  <2> QED
    BY <1>5, <2>1, <2>2, <2>3, <2>4, <2>5, <2>6 DEF Start
<1>6. CASE StartFails
  BY <1>1, <1>2, <1>6, LatchWrite DEF StartFails
<1>7. CASE Crash
  BY <1>1, <1>2, <1>7 DEF Crash
<1>8. CASE PromoteCheck
  BY <1>1, <1>2, <1>8 DEF PromoteCheck
<1>9. CASE PromoteSet
  BY <1>1, <1>2, <1>9, SoftWrite DEF PromoteSet
<1>10. CASE CanaryHold
  <2>1. CASE HoldCheck
    BY <1>1, <1>2, <2>1 DEF HoldCheck
  <2>2. CASE HoldSet
    BY <1>1, <1>2, <2>2, HardWrite DEF HoldSet
  <2>3. CASE HoldRead
    BY <1>1, <1>2, <2>3 DEF HoldRead
  <2> QED
    BY <1>10, <2>1, <2>2, <2>3 DEF CanaryHold
<1>11. CASE CanaryNext
  <2>1. CASE Artifact
    BY <1>1, <1>2, <2>1 DEF Artifact
  <2>2. CASE ActivateCheck
    BY <1>1, <1>2, <2>2 DEF ActivateCheck
  <2>3. CASE Activate
    BY <1>1, <1>2, <2>3, ReleaseWrite DEF Activate
  <2>4. CASE EnforceCanary
    BY <1>1, <1>2, <2>4, LatchWrite DEF EnforceCanary
  <2> QED
    BY <1>11, <2>1, <2>2, <2>3, <2>4 DEF CanaryNext
<1>12. CASE Command
  <2>1. CASE ResumeRead
    BY <1>1, <1>2, <2>1 DEF ResumeRead
  <2>2. CASE ResumeRelease
    BY <1>1, <1>2, <2>2, ReleaseWrite DEF ResumeRelease
  <2>3. CASE ResumeVerified
    BY <1>1, <1>2, <2>3 DEF ResumeVerified
  <2>4. CASE FlattenLatch
    BY <1>1, <1>2, <2>4, HardWrite DEF FlattenLatch
  <2>5. CASE FlattenRead
    BY <1>1, <1>2, <2>5 DEF FlattenRead
  <2>6. CASE FlattenRelease
    BY <1>1, <1>2, <2>6, ReleaseWrite DEF FlattenRelease
  <2>7. CASE CommandFails
    BY <1>1, <1>2, <2>7, LatchWrite DEF CommandFails
  <2> QED
    BY <1>12, <2>1, <2>2, <2>3, <2>4, <2>5, <2>6, <2>7 DEF Command
<1> QED
  BY <1>3, <1>4, <1>5, <1>6, <1>7, <1>8, <1>9, <1>10, <1>11, <1>12 DEF Next

Approvals == current \cap Approval

\* A step of HardLatch, read off the mode and the approvals under way.
LatchStep ==
  \/ ~Opening' /\ Approvals' = {}
  \/ \E a \in Approval : ~Opening /\ ~Opening' /\ Approvals' = Approvals \union {a}
  \/ \E a \in Approval : a \in Approvals /\ Opening' /\ Approvals' = Approvals \ {a}
  \/ \E S \in SUBSET Approval : (Opening' <=> Opening) /\ Approvals' = Approvals \ S
  \/ (Opening' <=> Opening) /\ Approvals' = Approvals

LEMMA NextLatches ==
  ASSUME TypeOK, LatchInv, [Next]_vars PROVE LatchStep
<1> USE DEF LatchStep, Approvals, LatchInv, Exclusive, ResumeCurrent, HoldCurrent,
            ActivationAtHold, FlattenCurrent, Opening, Hard, durable, startup,
            canary, Overtaken, OpFree, WsFree, Approval, Flatten
<1>1. /\ epoch \in Nat /\ hold \in Nat /\ hold <= epoch
      /\ ctl.epoch \in Nat /\ ctl.epoch <= epoch
      /\ (ctl.cmd # "idle" \/ act) => proc = "running"
      /\ mode \in Hard \union Soft /\ keep \in Hard \union {"none"}
  BY DEF TypeOK
<1>2. /\ "halted" \in Hard /\ "emergency_exit" \in Hard
      /\ "starting" \in Soft /\ "ready" \in Soft /\ "degraded" \in Soft
      /\ {"transition", "incident", "invalid", "hold", "activated"} \subseteq Reason
  BY DEF Soft, Reason
<1>3. CASE UNCHANGED vars
  BY <1>3 DEF vars
<1>4. CASE Incident
  <2>1. CASE Halt
    BY <1>1, <1>2, <2>1, HardWrite DEF Halt
  <2>2. CASE StreamHalt
    BY <1>1, <1>2, <2>2, HardWrite DEF StreamHalt
  <2>3. CASE Emergency
    BY <1>1, <1>2, <2>3, HardWrite DEF Emergency
  <2>4. CASE LatchIncident
    BY <1>1, <1>2, <2>4, LatchWrite DEF LatchIncident
  <2>5. CASE Degrade
    BY <1>1, <1>2, <2>5, SoftWrite DEF Degrade
  <2> QED
    BY <1>4, <2>1, <2>2, <2>3, <2>4, <2>5 DEF Incident
<1>5. CASE Start
  <2>1. CASE StartBegin
    BY <1>1, <1>2, <2>1, SoftWrite DEF StartBegin
  <2>2. CASE RecoverBegin
    BY <1>1, <1>2, <2>2, SoftWrite DEF RecoverBegin
  <2>3. CASE RecoverEnd
    BY <1>1, <1>2, <2>3, SoftWrite, HardWrite DEF RecoverEnd
  <2>4. CASE RecoverAborts
    BY <1>1, <1>2, <2>4, HardWrite DEF RecoverAborts
  <2>5. CASE Subscribe
    BY <1>1, <1>2, <2>5, SoftWrite DEF Subscribe
  <2>6. CASE Joined
    BY <1>1, <1>2, <2>6 DEF Joined
  <2> QED
    BY <1>5, <2>1, <2>2, <2>3, <2>4, <2>5, <2>6 DEF Start
<1>6. CASE StartFails
  BY <1>1, <1>2, <1>6, LatchWrite DEF StartFails
<1>7. CASE Crash
  BY <1>1, <1>2, <1>7 DEF Crash
<1>8. CASE PromoteCheck
  BY <1>1, <1>2, <1>8 DEF PromoteCheck
<1>9. CASE PromoteSet
  BY <1>1, <1>2, <1>9, SoftWrite DEF PromoteSet
<1>10. CASE CanaryHold
  <2>1. CASE HoldCheck
    BY <1>1, <1>2, <2>1 DEF HoldCheck
  <2>2. CASE HoldSet
    BY <1>1, <1>2, <2>2, HardWrite DEF HoldSet
  <2>3. CASE HoldRead
    BY <1>1, <1>2, <2>3 DEF HoldRead
  <2> QED
    BY <1>10, <2>1, <2>2, <2>3 DEF CanaryHold
<1>11. CASE CanaryNext
  <2>1. CASE Artifact
    BY <1>1, <1>2, <2>1 DEF Artifact
  <2>2. CASE ActivateCheck
    BY <1>1, <1>2, <2>2 DEF ActivateCheck
  <2>3. CASE Activate
    BY <1>1, <1>2, <2>3, ReleaseWrite DEF Activate
  <2>4. CASE EnforceCanary
    BY <1>1, <1>2, <2>4, LatchWrite DEF EnforceCanary
  <2> QED
    BY <1>11, <2>1, <2>2, <2>3, <2>4 DEF CanaryNext
<1>12. CASE Command
  <2>1. CASE ResumeRead
    BY <1>1, <1>2, <2>1 DEF ResumeRead
  <2>2. CASE ResumeRelease
    BY <1>1, <1>2, <2>2, ReleaseWrite DEF ResumeRelease
  <2>3. CASE ResumeVerified
    BY <1>1, <1>2, <2>3 DEF ResumeVerified
  <2>4. CASE FlattenLatch
    BY <1>1, <1>2, <2>4, HardWrite DEF FlattenLatch
  <2>5. CASE FlattenRead
    BY <1>1, <1>2, <2>5 DEF FlattenRead
  <2>6. CASE FlattenRelease
    BY <1>1, <1>2, <2>6, ReleaseWrite DEF FlattenRelease
  <2>7. CASE CommandFails
    BY <1>1, <1>2, <2>7, LatchWrite DEF CommandFails
  <2> QED
    BY <1>12, <2>1, <2>2, <2>3, <2>4, <2>5, <2>6, <2>7 DEF Command
<1> QED
  BY <1>3, <1>4, <1>5, <1>6, <1>7, <1>8, <1>9, <1>10, <1>11, <1>12 DEF Next

\* The same steps seen from EMERGENCY_EXIT.
LEMMA NextFenced ==
  ASSUME TypeOK, LatchInv, [Next]_vars,
         mode = "emergency_exit", mode' # mode
  PROVE  mode' = "halted" /\ "flatten" \in current
<1> USE DEF LatchInv, Exclusive, ResumeCurrent, HoldCurrent, ActivationAtHold,
            FlattenCurrent, Opening, Hard, durable, startup, canary, Overtaken
<1>1. /\ epoch \in Nat /\ hold \in Nat /\ hold <= epoch
      /\ ctl.epoch \in Nat /\ ctl.epoch <= epoch
      /\ (ctl.cmd # "idle" \/ act) => proc = "running"
      /\ mode \in Hard \union Soft /\ keep \in Hard \union {"none"}
  BY DEF TypeOK
<1>2. /\ "halted" \in Hard /\ "emergency_exit" \in Hard
      /\ "starting" \in Soft /\ "ready" \in Soft /\ "degraded" \in Soft
      /\ {"transition", "incident", "invalid", "hold", "activated"} \subseteq Reason
  BY DEF Soft, Reason
<1>3. CASE UNCHANGED vars
  BY <1>3 DEF vars
<1>4. CASE Incident
  <2>1. CASE Halt
    BY <1>1, <1>2, <2>1, HardWrite DEF Halt
  <2>2. CASE StreamHalt
    BY <1>1, <1>2, <2>2, HardWrite DEF StreamHalt
  <2>3. CASE Emergency
    BY <1>1, <1>2, <2>3, HardWrite DEF Emergency
  <2>4. CASE LatchIncident
    BY <1>1, <1>2, <2>4, LatchWrite DEF LatchIncident
  <2>5. CASE Degrade
    BY <1>1, <1>2, <2>5, SoftWrite DEF Degrade
  <2> QED
    BY <1>4, <2>1, <2>2, <2>3, <2>4, <2>5 DEF Incident
<1>5. CASE Start
  <2>1. CASE StartBegin
    BY <1>1, <1>2, <2>1, SoftWrite DEF StartBegin
  <2>2. CASE RecoverBegin
    BY <1>1, <1>2, <2>2, SoftWrite DEF RecoverBegin
  <2>3. CASE RecoverEnd
    BY <1>1, <1>2, <2>3, SoftWrite, HardWrite DEF RecoverEnd
  <2>4. CASE RecoverAborts
    BY <1>1, <1>2, <2>4, HardWrite DEF RecoverAborts
  <2>5. CASE Subscribe
    BY <1>1, <1>2, <2>5, SoftWrite DEF Subscribe
  <2>6. CASE Joined
    BY <1>1, <1>2, <2>6 DEF Joined
  <2> QED
    BY <1>5, <2>1, <2>2, <2>3, <2>4, <2>5, <2>6 DEF Start
<1>6. CASE StartFails
  BY <1>1, <1>2, <1>6, LatchWrite DEF StartFails
<1>7. CASE Crash
  BY <1>1, <1>2, <1>7 DEF Crash
<1>8. CASE PromoteCheck
  BY <1>1, <1>2, <1>8 DEF PromoteCheck
<1>9. CASE PromoteSet
  BY <1>1, <1>2, <1>9, SoftWrite DEF PromoteSet
<1>10. CASE CanaryHold
  <2>1. CASE HoldCheck
    BY <1>1, <1>2, <2>1 DEF HoldCheck
  <2>2. CASE HoldSet
    BY <1>1, <1>2, <2>2, HardWrite DEF HoldSet
  <2>3. CASE HoldRead
    BY <1>1, <1>2, <2>3 DEF HoldRead
  <2> QED
    BY <1>10, <2>1, <2>2, <2>3 DEF CanaryHold
<1>11. CASE CanaryNext
  <2>1. CASE Artifact
    BY <1>1, <1>2, <2>1 DEF Artifact
  <2>2. CASE ActivateCheck
    BY <1>1, <1>2, <2>2 DEF ActivateCheck
  <2>3. CASE Activate
    BY <1>1, <1>2, <2>3, ReleaseWrite DEF Activate
  <2>4. CASE EnforceCanary
    BY <1>1, <1>2, <2>4, LatchWrite DEF EnforceCanary
  <2> QED
    BY <1>11, <2>1, <2>2, <2>3, <2>4 DEF CanaryNext
<1>12. CASE Command
  <2>1. CASE ResumeRead
    BY <1>1, <1>2, <2>1 DEF ResumeRead
  <2>2. CASE ResumeRelease
    BY <1>1, <1>2, <2>2, ReleaseWrite DEF ResumeRelease
  <2>3. CASE ResumeVerified
    BY <1>1, <1>2, <2>3 DEF ResumeVerified
  <2>4. CASE FlattenLatch
    BY <1>1, <1>2, <2>4, HardWrite DEF FlattenLatch
  <2>5. CASE FlattenRead
    BY <1>1, <1>2, <2>5 DEF FlattenRead
  <2>6. CASE FlattenRelease
    BY <1>1, <1>2, <2>6, ReleaseWrite DEF FlattenRelease
  <2>7. CASE CommandFails
    BY <1>1, <1>2, <2>7, LatchWrite DEF CommandFails
  <2> QED
    BY <1>12, <2>1, <2>2, <2>3, <2>4, <2>5, <2>6, <2>7 DEF Command
<1> QED
  BY <1>3, <1>4, <1>5, <1>6, <1>7, <1>8, <1>9, <1>10, <1>11, <1>12 DEF Next

\* Nobody opens the system on an epoch that an incident has overtaken.
THEOREM LatchInvariant ==
  ASSUME NoMaintenance
  PROVE  Spec => []LatchInv
<1>1. Init => LatchInv
  BY ModeConstants
  DEF NoMaintenance, Init, LatchInv, Exclusive, ResumeCurrent, HoldCurrent,
      ActivationAtHold, FlattenCurrent, Idle
<1>2. TypeOK /\ LatchInv /\ [Next]_vars => LatchInv'
  BY LatchInvNext
<1> QED
  BY <1>1, <1>2, TypeCorrect, PTL DEF Spec

\* Whatever start-ups, threads, commands and other processes do to the mode, in
\* any order, is an incident, the beginning, the end or the withdrawal of an
\* approval: SystemMode implements HardLatch, unless the journal was restored
\* into MAINTENANCE.
THEOREM LatchImplemented ==
  ASSUME NoMaintenance
  PROVE  Spec => LatchHolds
<1>1. Init => Latch!Init
  BY DEF Init, Latch!Init, Opening
<1>2. TypeOK /\ LatchInv /\ [Next]_vars => [Latch!Next]_(Latch!lvars)
  <2> SUFFICES ASSUME LatchStep PROVE [Latch!Next]_(Latch!lvars)
    BY NextLatches
  <2> USE DEF Approvals, Opening
  <2>1. CASE ~Opening' /\ Approvals' = {}
    BY <2>1 DEF Latch!Next, Latch!Incident
  <2>2. ASSUME NEW a \in Approval,
               ~Opening, ~Opening', Approvals' = Approvals \union {a}
        PROVE  Latch!Next
    BY <2>2 DEF Latch!Next, Latch!Begin
  <2>3. ASSUME NEW a \in Approval,
               a \in Approvals, Opening', Approvals' = Approvals \ {a}
        PROVE  Latch!Next
    BY <2>3 DEF Latch!Next, Latch!Release
  <2>4. ASSUME NEW S \in SUBSET Approval,
               Opening' <=> Opening, Approvals' = Approvals \ S
        PROVE  Latch!Next
    BY <2>4 DEF Latch!Next, Latch!Withdraw
  <2>5. CASE (Opening' <=> Opening) /\ Approvals' = Approvals
    BY <2>5 DEF Latch!lvars
  <2> QED
    BY <2>1, <2>2, <2>3, <2>4, <2>5 DEF LatchStep
<1> QED
  BY <1>1, <1>2, TypeCorrect, LatchInvariant, PTL DEF Spec, LatchHolds, Latch!Spec

\* An unprotected position is settled by a flatten that saw it, and by nothing
\* else: no restart, resume, promotion, activation or halt ends EMERGENCY_EXIT.
THEOREM EmergencyKept ==
  ASSUME NoMaintenance
  PROVE  Spec => EmergencyFenced
<1>1. TypeOK /\ LatchInv /\ [Next]_vars =>
        [mode = "emergency_exit" /\ mode' # mode =>
           mode' = "halted" /\ "flatten" \in current]_vars
  BY NextFenced
<1> QED
  BY <1>1, TypeCorrect, LatchInvariant, PTL DEF Spec, EmergencyFenced

-----------------------------------------------------------------------------
(* The hold of a canary.                                                   *)

\* Only an activation and a resume open a system that is shut.
LEMMA HoldNext ==
  ASSUME TypeOK, HoldInv, [Next]_vars PROVE HoldInv'
<1> USE DEF HoldInv, CanaryOpensFromHold, durable, startup, canary, OpFree, Idle
<1>1. /\ epoch \in Nat /\ hold \in Nat /\ ctl.epoch \in Nat
      /\ gated \in BOOLEAN /\ consumed \in BOOLEAN /\ act \in BOOLEAN
      /\ (ctl.cmd # "idle" \/ act) => proc = "running"
      /\ keep \in Hard \union {"none"}
      /\ \A q : [ctl EXCEPT !.quiet = q].cmd = ctl.cmd
      /\ \A c : [ctl EXCEPT !.cmd = c].cmd = c
  BY DEF TypeOK
<1>2. /\ "halted" \in Hard /\ "emergency_exit" \in Hard
      /\ "starting" \in Soft /\ "ready" \in Soft /\ "degraded" \in Soft
      /\ {"transition", "incident", "invalid", "hold", "activated"} \subseteq Reason
  BY DEF Hard, Soft, Reason
<1>3. CASE UNCHANGED vars
  BY <1>3 DEF vars, Opening
<1>4. CASE Incident
  <2>1. CASE Halt \/ StreamHalt \/ Emergency
    <3>1. /\ UNCHANGED <<proc, gated, hold, consumed, act>> /\ ctl'.cmd = ctl.cmd
      BY <1>1, <2>1 DEF Halt, StreamHalt, Emergency
    <3>2. ~Opening'
      BY <1>2, <2>1, HardWrite DEF Halt, StreamHalt, Emergency
    <3> QED
      BY <3>1, <3>2
  <2>2. CASE LatchIncident
    BY <1>1, <1>2, <2>2, LatchWrite DEF LatchIncident
  <2>3. CASE Degrade
    BY <1>1, <1>2, <2>3, SoftWrite DEF Degrade
  <2> QED
    BY <1>4, <2>1, <2>2, <2>3 DEF Incident
<1>5. CASE Start
  <2>1. CASE RecoverEnd
    BY <1>1, <1>2, <2>1, SoftWrite, HardWrite DEF RecoverEnd
  <2> QED
    BY <1>1, <1>2, <1>5, <2>1, SoftWrite, HardWrite
    DEF Start, StartBegin, RecoverBegin, RecoverAborts, Subscribe, Joined, Opening
<1>6. CASE StartFails \/ Crash
  BY <1>1, <1>2, <1>6, LatchWrite DEF StartFails, Crash
<1>7. CASE PromoteCheck \/ PromoteSet
  BY <1>1, <1>2, <1>7, SoftWrite DEF PromoteCheck, PromoteSet, Opening
<1>8. CASE HoldCheck
  BY <1>1, <1>8 DEF HoldCheck, Opening, Hard
<1>9. CASE HoldSet
  BY <1>1, <1>2, <1>9, HardWrite DEF HoldSet
<1>10. CASE HoldRead
  BY <1>1, <1>10 DEF HoldRead, Opening
<1>11. CASE CanaryNext
  <2>1. CASE Artifact \/ ActivateCheck
    BY <1>1, <2>1 DEF Artifact, ActivateCheck, Opening
  <2>2. CASE Activate
    BY <1>1, <1>2, <2>2, ReleaseWrite DEF Activate
  <2>3. CASE EnforceCanary
    BY <1>1, <1>2, <2>3, LatchWrite DEF EnforceCanary, Opening
  <2> QED
    BY <1>11, <2>1, <2>2, <2>3 DEF CanaryNext
<1>12. CASE Command
  <2>1. CASE ResumeRead
    BY <1>1, <2>1 DEF ResumeRead, CanaryOk, Opening
  <2>2. CASE ResumeRelease
    <3>1. (gated => hold # 0) /\ UNCHANGED <<startup, canary>>
      BY <2>2 DEF ResumeRelease
    <3>2. ctl'.cmd # "resume" /\ proc = "running"
      <4>1. proc = "running" /\ ctl' \in {[ctl EXCEPT !.cmd = "verify"], [ctl EXCEPT !.cmd = "failed"]}
        BY <1>1, <2>2 DEF ResumeRelease
      <4> QED
        BY <1>1, <4>1
    <3>3. \/ ~gated \/ hold' # 0
      BY <3>1
    <3> QED
      BY <1>1, <3>1, <3>2, <3>3
  <2>3. CASE ResumeVerified \/ FlattenRead
    <3>1. UNCHANGED <<mode, proc, gated, hold, consumed, act>>
      BY <2>3 DEF ResumeVerified, FlattenRead
    <3>2. ctl'.cmd # "resume"
      <4>1. CASE ResumeVerified
        BY <4>1 DEF ResumeVerified
      <4>2. CASE FlattenRead
        BY <4>2 DEF FlattenRead, TypeOK
      <4> QED
        BY <2>3, <4>1, <4>2
    <3> QED
      BY <3>1, <3>2 DEF Opening
  <2>4. CASE FlattenLatch \/ CommandFails
    BY <1>1, <1>2, <2>4, HardWrite, LatchWrite DEF FlattenLatch, CommandFails
  <2>5. CASE FlattenRelease
    BY <1>1, <1>2, <2>5, ReleaseWrite DEF FlattenRelease, Opening
  <2> QED
    BY <1>12, <2>1, <2>2, <2>3, <2>4, <2>5 DEF Command
<1> QED
  BY <1>3, <1>4, <1>5, <1>6, <1>7, <1>8, <1>9, <1>10, <1>11, <1>12 DEF Next, CanaryHold

\* A canary that runs and is open has installed its hold: no mode it found, no
\* promotion and no resume opens it otherwise, from any journal at all.
THEOREM CanaryHeld == Spec => []CanaryOpensFromHold
<1>1. Init => HoldInv
  BY DEF Init, HoldInv, CanaryOpensFromHold, Idle
<1>2. TypeOK /\ HoldInv /\ [Next]_vars => HoldInv'
  BY HoldNext
<1>3. HoldInv => CanaryOpensFromHold
  BY DEF HoldInv
<1> QED
  BY <1>1, <1>2, <1>3, TypeCorrect, PTL DEF Spec

=============================================================================
