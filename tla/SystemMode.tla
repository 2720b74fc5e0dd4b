----------------------------- MODULE SystemMode -----------------------------
(***************************************************************************)
(* The durable system mode, its hard epoch, and everyone who writes it:    *)
(* start-up and recovery, the promotion to READY, incidents on any thread  *)
(* or in another process, the operator's resume and flatten commands, and  *)
(* the hold that a canary process starts under.                            *)
(*                                                                         *)
(* set_mode is one transaction.  The control thread (resume, flatten), the *)
(* canary activation and _latch_halted hold the operation lock; the other  *)
(* writers hold none, so they come between any two transactions.           *)
(***************************************************************************)
EXTENDS Naturals

CONSTANTS
  Deploys,   \* is canary_activation_path configured? one value or both
  Origins,   \* mode and reason the journal may have before the first start
  MaxEpoch,  \* bound: from this epoch on nobody starts anything new
  MaxStarts  \* bound on process starts

Hard == {"halted", "emergency_exit", "maintenance"}
Soft == {"starting", "ready", "degraded"}
Reason == {"init", "transition", "incident", "invalid", "hold", "activated"}

ASSUME ModeConstants ==
  /\ Deploys \subseteq BOOLEAN
  /\ Origins \subseteq [mode : Hard \union Soft, reason : Reason]
  /\ MaxEpoch \in Nat /\ MaxStarts \in Nat

VARIABLES
  mode, epoch, reason,  \* system_state, durable
  proc, starts,         \* how far start() got, and how often it was called
  latched,              \* start(): was the mode hard?
  keep,                 \* Reconciler.run(startup=True): the hard mode it found
  ctl,                  \* the control thread's command
  prom,                 \* _promote_ready_if_safe between its check and its write
  gated,                \* configuration: canary_activation_path is set
  hold, consumed,       \* the canary's startup epoch (0: none), and its use
  artifact, act,        \* a valid activation exists; _try_activate at its CAS
  warned,               \* _canary_activation_failure_reported
  current, incident     \* history: see below

durable == <<mode, epoch, reason>>
startup == <<proc, starts, latched, keep>>
canary == <<gated, hold, consumed, artifact, act, warned>>
vars == <<durable, startup, ctl, prom, canary, current, incident>>

(* current holds what is under way and not overtaken by a newer incident: a *)
(* resume, an activation or a flatten since it read the epoch.  incident    *)
(* tells whether there has been any incident at all.                        *)
Approval == {"resume", "activation"}
Flatten == {"flatten"}

Opening == mode \notin Hard

-----------------------------------------------------------------------------
(* SqliteJournal.set_mode.                                                 *)

\* A soft mode never replaces a hard one, and a plain halt neither of the two
\* stronger ones.
Refused(m) ==
  \/ mode \in Hard /\ m \notin Hard
  \/ mode \in {"emergency_exit", "maintenance"} /\ m = "halted"

\* Mutant: a halt of a system that is halted already is no news.
Write_OnceHalted(m, r) ==
  /\ mode' = m /\ reason' = r
  /\ epoch' = IF m \in Hard /\ m # mode THEN epoch + 1 ELSE epoch

\* Every write of a hard mode, HALTED over HALTED too, is a new hard epoch.
Write(m, r) ==
  /\ mode' = m /\ reason' = r
  /\ epoch' = IF m \in Hard THEN epoch + 1 ELSE epoch

SetMode(m, r) == IF Refused(m) THEN UNCHANGED durable ELSE Write(m, r)

\* Mutant: allow_hard_release without expected_hard_epoch.
ReleaseTo_NoEpoch(m, r, e) == Write(m, r)

\* allow_hard_release with expected_hard_epoch: a compare-and-swap.
ReleaseTo(m, r, e) == IF epoch # e THEN UNCHANGED durable ELSE Write(m, r)

\* A halt overtakes every approval, an emergency a flatten under way as well.
Overtaken(S) == current' = current \ S /\ incident' = TRUE

-----------------------------------------------------------------------------
(* Locks.                                                                  *)

Idle == [cmd |-> "idle", epoch |-> 0, quiet |-> TRUE]

Up == proc # "down"

Stage == {"down", "starting", "recovering", "unsafe", "recovered", "joining",
          "hold_check", "hold_set", "hold_read", "running"}
CommandName == {"idle", "resume", "verify", "failed", "flatten_read", "flatten"}

\* operation_lock: a command, the hold being installed, an activation.
OpFree == ctl.cmd = "idle" /\ proc \notin {"hold_set", "hold_read"} /\ ~act

\* _ws_state_lock: a promotion or an activation.
WsFree == ~prom /\ ~act

Bounded == epoch < MaxEpoch

-----------------------------------------------------------------------------
(* Incidents.                                                              *)

\* halt_entries of the CLI process, a shadow write, a breached account limit, a
\* failed projection: set_mode(HALTED) with no lock held.
Halt ==
  /\ Bounded
  /\ SetMode("halted", "transition")
  /\ Overtaken(Approval)
  /\ UNCHANGED <<startup, ctl, prom, canary>>

\* The same from PrivateStreamService, inside an event of its own.
StreamHalt ==
  /\ Bounded /\ proc \in {"joining", "running"}
  /\ SetMode("halted", "transition")
  /\ Overtaken(Approval)
  /\ ctl' = [ctl EXCEPT !.quiet = FALSE]
  /\ UNCHANGED <<startup, prom, canary>>

\* A position without protection, found by the watchdog, a fill or a run.
Emergency ==
  /\ Bounded /\ Up
  /\ SetMode("emergency_exit", "transition")
  /\ Overtaken(Approval \union Flatten)
  /\ UNCHANGED <<startup, ctl, prom, canary>>

\* _latch_halted of reason r, once the operation lock is its caller's.
LatchHalted(r) ==
  IF mode \in {"emergency_exit", "maintenance"} \/ (mode = "halted" /\ reason = r)
  THEN UNCHANGED durable
  ELSE SetMode("halted", r)

LatchIncident ==
  /\ Bounded /\ Up /\ OpFree
  /\ LatchHalted("incident")
  /\ Overtaken(Approval)
  /\ UNCHANGED <<startup, ctl, prom, canary>>

\* A WebSocket disconnect, an unresolved difference, stale market data.
Degrade ==
  /\ Up
  /\ SetMode("degraded", "transition")
  /\ \E q \in {ctl.quiet, FALSE} : ctl' = [ctl EXCEPT !.quiet = q]
  /\ UNCHANGED <<startup, prom, canary, current, incident>>

-----------------------------------------------------------------------------
(* ProductionRuntime.start.                                                *)

\* A new process: a hard mode stays as it is.
StartBegin ==
  /\ proc = "down" /\ Bounded /\ starts < MaxStarts
  /\ proc' = "starting" /\ starts' = starts + 1
  /\ latched' = (mode \in Hard)
  /\ SetMode("starting", "transition")
  /\ UNCHANGED <<keep, ctl, prom, canary, current, incident>>

\* Mutant: the mode is kept whatever it is.
RecoverBegin_KeepAny ==
  /\ proc = "starting"
  /\ proc' = "recovering"
  /\ keep' = mode
  /\ SetMode("starting", "transition")
  /\ UNCHANGED <<starts, latched, ctl, prom, canary, current, incident>>

\* Reconciler.run(startup=True) notes the hard mode it finds.
RecoverBegin ==
  /\ proc = "starting"
  /\ proc' = "recovering"
  /\ keep' = IF mode \in Hard THEN mode ELSE "none"
  /\ SetMode("starting", "transition")
  /\ UNCHANGED <<starts, latched, ctl, prom, canary, current, incident>>

\* At its end it writes that mode again, as a new epoch without a reason; a
\* soft mode becomes READY or DEGRADED.
RecoverEnd ==
  /\ proc = "recovering"
  /\ \E safe \in BOOLEAN :
       /\ proc' = IF safe THEN "recovered" ELSE "unsafe"
       /\ IF keep # "none" THEN SetMode(keep, "transition")
          ELSE SetMode(IF safe THEN "ready" ELSE "degraded", "transition")
  /\ UNCHANGED <<starts, latched, keep, ctl, prom, canary, current, incident>>

\* The streams start: DEGRADED until the second baseline.
Subscribe ==
  /\ proc = "recovered"
  /\ proc' = "joining"
  /\ IF latched THEN UNCHANGED durable ELSE SetMode("degraded", "transition")
  /\ UNCHANGED <<starts, latched, keep, ctl, prom, canary, current, incident>>

\* The second baseline is complete; its promotion, if any, is Promote's.
Joined ==
  /\ proc = "joining" /\ WsFree
  /\ proc' = "hold_check"
  /\ UNCHANGED <<durable, starts, latched, keep, ctl, prom, canary, current,
                 incident>>

\* Reconciler.run raises: HALTED, then start() fails.
RecoverAborts ==
  /\ proc = "recovering" /\ Bounded
  /\ proc' = "unsafe"
  /\ SetMode("halted", "transition")
  /\ Overtaken(Approval)
  /\ UNCHANGED <<starts, latched, keep, ctl, prom, canary>>

\* Anything before the threads start raises: _latch_halted, and the process ends.
StartFails ==
  /\ proc \in {"starting", "recovering", "recovered", "unsafe", "joining"}
  /\ starts < MaxStarts
  /\ proc' = "down" /\ prom' = FALSE
  /\ LatchHalted("incident")
  /\ Overtaken(Approval)
  /\ UNCHANGED <<starts, latched, keep, ctl, canary>>

\* Stopped or killed: only system_state survives.
Crash ==
  /\ Up /\ starts < MaxStarts
  /\ proc' = "down" /\ prom' = FALSE /\ ctl' = Idle
  /\ hold' = 0 /\ consumed' = FALSE /\ artifact' = FALSE /\ act' = FALSE
  /\ warned' = FALSE
  /\ current' = {}
  /\ UNCHANGED <<durable, starts, latched, keep, gated, incident>>

-----------------------------------------------------------------------------
(* Promotion to READY, by a periodic run, a reconnect or start().          *)

\* Mutant: an activation that was never issued counts as one that is not needed.
CanaryOk_NoHold == gated => consumed \/ hold = 0 \/ artifact

\* _canary_activation_valid.
CanaryOk == gated => consumed \/ (hold # 0 /\ artifact)

\* _promote_ready_if_safe looks at the mode and writes it in two transactions.
PromoteCheck ==
  /\ proc \in {"joining", "hold_check", "hold_set", "hold_read", "running"}
  /\ WsFree /\ CanaryOk /\ mode \notin Hard
  /\ prom' = TRUE
  /\ UNCHANGED <<durable, startup, ctl, canary, current, incident>>

PromoteSet ==
  /\ prom
  /\ SetMode("ready", "transition")
  /\ prom' = FALSE
  /\ UNCHANGED <<startup, ctl, canary, current, incident>>

-----------------------------------------------------------------------------
(* The canary's start-up hold and its activation.                          *)

\* _install_canary_activation_hold is not for a mode that is already hard,
\* unless the journal was just initialised.
HoldCheck ==
  /\ proc = "hold_check"
  /\ proc' = IF \/ ~gated
                \/ mode \in {"emergency_exit", "maintenance"}
                \/ mode = "halted" /\ reason # "init"
             THEN "running" ELSE "hold_set"
  /\ UNCHANGED <<durable, starts, latched, keep, ctl, prom, canary, current,
                 incident>>

HoldSet ==
  /\ proc = "hold_set"
  /\ SetMode("halted", "hold")
  /\ proc' = IF Refused("halted") THEN "running" ELSE "hold_read"
  /\ UNCHANGED <<starts, latched, keep, ctl, prom, canary, current, incident>>

\* The hold counts only if it is still in force when it is read back.
HoldRead ==
  /\ proc = "hold_read"
  /\ proc' = "running"
  /\ \/ /\ mode = "halted" /\ reason = "hold"
        /\ hold' = epoch
        /\ current' = current \union {"activation"}
     \/ /\ ~(mode = "halted" /\ reason = "hold")
        /\ UNCHANGED <<hold, current>>
  /\ UNCHANGED <<durable, starts, latched, keep, ctl, prom, gated,
                 consumed, artifact, act, warned, incident>>

\* The signed activation for this hold is installed, replaced or expires.
Artifact ==
  /\ proc = "running" /\ hold # 0
  /\ artifact' = ~artifact
  /\ UNCHANGED <<durable, startup, ctl, prom, gated, hold, consumed, act,
                 warned, current, incident>>

\* Mutant: it waits for the reason that set_mode writes by default.
ActivateCheck_DefaultReason ==
  /\ proc = "running" /\ gated /\ hold # 0 /\ ~consumed /\ artifact
  /\ OpFree /\ WsFree
  /\ mode = "halted" /\ epoch = hold /\ reason = "transition"
  /\ act' = TRUE
  /\ UNCHANGED <<durable, startup, ctl, prom, gated, hold, consumed, artifact,
                 warned, current, incident>>

\* _try_activate_canary_entries, with both locks, up to its compare-and-swap.
ActivateCheck ==
  /\ proc = "running" /\ gated /\ hold # 0 /\ ~consumed /\ artifact
  /\ OpFree /\ WsFree
  /\ mode = "halted" /\ epoch = hold /\ reason = "hold"
  /\ act' = TRUE
  /\ UNCHANGED <<durable, startup, ctl, prom, gated, hold, consumed, artifact,
                 warned, current, incident>>

Activate ==
  /\ act /\ act' = FALSE
  /\ ReleaseTo("ready", "activated", hold)
  /\ consumed' = (epoch = hold)
  /\ current' = IF epoch = hold THEN current \ {"activation"} ELSE current
  /\ UNCHANGED <<startup, ctl, prom, gated, hold, artifact, warned, incident>>

\* _enforce_canary_activation: without a valid activation only the hold itself
\* may be in force; said once, until an activation is valid again.
EnforceCanary ==
  /\ proc = "running" /\ gated /\ ~consumed /\ Bounded
  /\ \/ /\ hold # 0 /\ artifact
        /\ warned' = FALSE
        /\ UNCHANGED <<durable, current, incident>>
     \/ /\ ~(hold # 0 /\ artifact) /\ ~warned
        /\ warned' = TRUE
        /\ IF mode = "halted" /\ epoch = hold /\ reason = "hold"
           THEN UNCHANGED <<durable, current, incident>>
           ELSE OpFree /\ LatchHalted("invalid") /\ Overtaken(Approval)
  /\ UNCHANGED <<startup, ctl, prom, gated, hold, consumed, artifact, act>>

-----------------------------------------------------------------------------
(* The operator's commands, one at a time on the control thread.           *)

\* _resume_entries reads mode and epoch before anything else.
ResumeRead ==
  /\ proc = "running" /\ Bounded /\ OpFree /\ CanaryOk
  /\ mode \in {"halted", "maintenance"}
  /\ ctl' = [cmd |-> "resume", epoch |-> epoch, quiet |-> TRUE]
  /\ current' = current \union {"resume"}
  /\ UNCHANGED <<durable, startup, prom, canary, incident>>

\* The run was safe and the event fence holds: compare-and-swap to READY.
ResumeRelease ==
  /\ ctl.cmd = "resume" /\ ctl.quiet /\ WsFree
  /\ ReleaseTo("ready", "transition", ctl.epoch)
  /\ ctl' = [ctl EXCEPT !.cmd = IF epoch = ctl.epoch THEN "verify" ELSE "failed"]
  /\ current' = IF epoch = ctl.epoch THEN current \ {"resume"} ELSE current
  /\ UNCHANGED <<startup, prom, canary, incident>>

\* _health after the release.
ResumeVerified ==
  /\ ctl.cmd = "verify" /\ mode = "ready" /\ CanaryOk
  /\ ctl' = Idle
  /\ UNCHANGED <<durable, startup, prom, canary, current, incident>>

\* _flatten_and_cancel: the mode first, its epoch in another transaction.
FlattenLatch ==
  /\ proc = "running" /\ Bounded /\ OpFree
  /\ SetMode("emergency_exit", "transition")
  /\ ctl' = [Idle EXCEPT !.cmd = "flatten_read"]
  /\ current' = {} /\ incident' = TRUE
  /\ UNCHANGED <<startup, prom, canary>>

FlattenRead ==
  /\ ctl.cmd = "flatten_read"
  /\ ctl' = [ctl EXCEPT !.cmd = "flatten", !.epoch = epoch]
  /\ current' = current \union {"flatten"}
  /\ UNCHANGED <<durable, startup, prom, canary, incident>>

\* Nothing is left at the exchange: compare-and-swap to HALTED.
FlattenRelease ==
  /\ ctl.cmd = "flatten"
  /\ ReleaseTo("halted", "transition", ctl.epoch)
  /\ ctl' = IF epoch = ctl.epoch THEN Idle ELSE [ctl EXCEPT !.cmd = "failed"]
  /\ current' = IF epoch = ctl.epoch THEN current \ Flatten ELSE current
  /\ UNCHANGED <<startup, prom, canary, incident>>

\* Any step of a command raises; the control loop latches.
CommandFails ==
  /\ ctl.cmd # "idle"
  /\ ctl' = Idle
  /\ LatchHalted("incident")
  /\ Overtaken(Approval \union Flatten)
  /\ UNCHANGED <<startup, prom, canary>>

-----------------------------------------------------------------------------

Init ==
  /\ \E o \in Origins :
       /\ mode = o.mode /\ reason = o.reason
       /\ epoch = IF o.mode \in Hard THEN 1 ELSE 0
  /\ proc = "down" /\ starts = 0 /\ latched = FALSE /\ keep = "none"
  /\ ctl = Idle /\ prom = FALSE
  /\ gated \in Deploys
  /\ hold = 0 /\ consumed = FALSE /\ artifact = FALSE /\ act = FALSE
  /\ warned = FALSE
  /\ current = {} /\ incident = FALSE

Incident == Halt \/ StreamHalt \/ Emergency \/ LatchIncident \/ Degrade

Start ==
  StartBegin \/ RecoverBegin \/ RecoverEnd \/ RecoverAborts \/ Subscribe \/ Joined

CanaryHold == HoldCheck \/ HoldSet \/ HoldRead

CanaryNext == Artifact \/ ActivateCheck \/ Activate \/ EnforceCanary

Command ==
  \/ ResumeRead \/ ResumeRelease \/ ResumeVerified
  \/ FlattenLatch \/ FlattenRead \/ FlattenRelease \/ CommandFails

Next ==
  \/ Incident \/ Start \/ StartFails \/ Crash
  \/ PromoteCheck \/ PromoteSet \/ CanaryHold \/ CanaryNext \/ Command

Spec == Init /\ [][Next]_vars

(* The threads and the start-up keep running, a command ends, and a poll of *)
(* the activation, which competes with commands for the operation lock,     *)
(* finds the lock free and its streams up again and again.                  *)
Fairness ==
  /\ WF_vars(Start) /\ WF_vars(CanaryHold)
  /\ WF_vars(PromoteSet) /\ WF_vars(Activate)
  /\ WF_vars(FlattenRead) /\ WF_vars(FlattenRelease)
  /\ WF_vars(ResumeRelease \/ ResumeVerified \/ CommandFails)
  /\ SF_vars(ActivateCheck)

FairSpec == Spec /\ Fairness

-----------------------------------------------------------------------------
(* Properties.                                                             *)

\* The type of every variable: a held epoch is one that has been written, and
\* only a process that runs has commands and activations.
TypeOK ==
  /\ mode \in Hard \union Soft /\ epoch \in Nat /\ reason \in Reason
  /\ proc \in Stage
  /\ starts \in 0..MaxStarts /\ latched \in BOOLEAN
  /\ keep \in Hard \union {"none"}
  /\ ctl \in [cmd : CommandName, epoch : 0..epoch, quiet : BOOLEAN]
  /\ prom \in BOOLEAN
  /\ gated \in BOOLEAN /\ hold \in 0..epoch /\ consumed \in BOOLEAN
  /\ artifact \in BOOLEAN /\ act \in BOOLEAN /\ warned \in BOOLEAN
  /\ (ctl.cmd # "idle" \/ act) => proc = "running"
  /\ current \subseteq Approval \union Flatten /\ incident \in BOOLEAN

Latch == INSTANCE HardLatch WITH open <- Opening, current <- current \cap Approval

\* Every transaction on the mode, of every thread and of every process, is a
\* step of the hard latch: whatever order halts, restarts, promotions, resumes
\* and activations come in, a shut system opens only by an approval that no
\* later incident has overtaken.
LatchHolds == Latch!Spec

\* Every journal but one that was restored or migrated into MAINTENANCE.
NoMaintenance == \A o \in Origins : o.mode # "maintenance"

Exclusive ==
  /\ act => ctl.cmd = "idle" /\ ~prom
  /\ proc # "running" => current \cap Approval = {} /\ hold = 0

ResumeCurrent ==
  ctl.cmd = "resume" /\ ctl.epoch = epoch => mode = "halted" /\ "resume" \in current

HoldCurrent ==
  hold # 0 /\ hold = epoch /\ mode = "halted" /\ reason = "hold" =>
    "activation" \in current

ActivationAtHold == act => hold # 0 /\ (hold = epoch => mode = "halted" /\ reason = "hold")

FlattenCurrent ==
  /\ ctl.cmd \in {"flatten_read", "flatten"} => mode = "emergency_exit"
  /\ ctl.cmd = "flatten" /\ ctl.epoch = epoch => "flatten" \in current

\* Why it holds, for a journal that is not in MAINTENANCE: whoever is about to
\* open the system has read an epoch, and if that epoch is still the current one,
\* nothing has overtaken the approval and the mode is what was read.  No two
\* holders of the operation lock and no promotion come between.
LatchInv ==
  /\ mode # "maintenance" /\ keep # "maintenance"
  /\ Exclusive /\ ResumeCurrent /\ HoldCurrent /\ ActivationAtHold /\ FlattenCurrent

\* EMERGENCY_EXIT ends only in HALTED, at the end of a flatten that has seen no
\* further unprotected position since it read its epoch.
EmergencyFenced ==
  [][mode = "emergency_exit" /\ mode' # mode =>
       mode' = "halted" /\ "flatten" \in current]_vars

\* A canary process never opens without the start-up hold it is to be released
\* from by a signed activation, whatever mode it found and kept.
CanaryOpensFromHold == gated /\ proc = "running" /\ Opening => hold # 0

\* Why: whatever could open a canary that has no hold would need one.
HoldInv ==
  /\ proc # "running" => hold = 0 /\ ~consumed
  /\ act \/ consumed => hold # 0
  /\ proc = "hold_read" => ~Opening
  /\ gated /\ hold = 0 => ctl.cmd # "resume"
  /\ CanaryOpensFromHold

\* While the activation is valid, the hold is released or is no longer the
\* latest incident; commands and promotions cannot keep it waiting for ever.
ActivationOpens ==
  (hold # 0 /\ epoch = hold) ~>
    (Opening \/ epoch # hold \/ ~artifact \/ proc # "running")

=============================================================================
