--------------------------- MODULE OperatorChannel ---------------------------
(***************************************************************************)
(* What goes between the operators and the runtime, through tables that    *)
(* survive it: commands (control_commands, drained by _control_loop),      *)
(* pages (outbox_events and alert_deliveries, drained by AlertDispatcher), *)
(* and the signed receipts for pages, which arrive as files.               *)
(*                                                                         *)
(* A page is named by what raises it, a failed command or an incident;     *)
(* a receipt that is refused is an incident like others.                   *)
(* Any transaction may fail and the process may be killed at any step. A   *)
(* thread that an exception ends makes the heartbeat unhealthy, and        *)
(* systemd starts the process again.                                       *)
(***************************************************************************)
EXTENDS Naturals, FiniteSets

CONSTANTS
  Commands,     \* ids of commands
  Incidents,    \* what the runtime pages about
  Nobody,       \* no command, page or receipt
  MaxAttempts,  \* max_attempts of record_alert_attempt
  MaxFaults     \* bound: failed transactions, lost archive moves, kills

ASSUME ChannelConstants ==
  /\ Commands \intersect Incidents = {} /\ Nobody \notin Commands \union Incidents
  /\ MaxAttempts \in Nat \ {0} /\ MaxFaults \in Nat

Pages == Commands \union Incidents
Receipts == {"provider", "human-ack", "escalation"} \X Incidents

VARIABLES
  cmd,     \* control_commands.status
  ran,     \* history: how often a command's effect took place
  ctl,     \* the control thread
  page,    \* alert_deliveries
  disp,    \* the dispatcher's thread
  heard,   \* history: pages that the webhook took
  inbox,   \* receipts: not yet there, dropped, or archived
  orphans, \* history: commands whose process ended while it had them
  faults

vars == <<cmd, ran, ctl, page, disp, heard, inbox, orphans, faults>>

\* The threads as a start of the process leaves them.
CtlIdle == [pc |-> "idle", todo |-> {}, c |-> Nobody, file |-> Nobody]
DispIdle == [pc |-> "idle", todo |-> {}, p |-> Nobody, accepted |-> FALSE]

Fault == faults < MaxFaults /\ faults' = faults + 1

-----------------------------------------------------------------------------
(* Pages.                                                                  *)

Unsent == {"pending", "retry"}

\* enqueue_outbox.
Raised(p) ==
  IF page[p].state = "none" THEN [page EXCEPT ![p].state = "pending"] ELSE page

\* The runtime raises a page about an incident.
Raise(p) ==
  /\ page[p].state = "none" /\ page' = Raised(p)
  /\ UNCHANGED <<cmd, ran, ctl, disp, heard, inbox, orphans, faults>>

\* get_due_alerts: what is new, and those retries whose time has come. The batch
\* is worked on without another look.
DispRead ==
  /\ disp.pc = "idle"
  /\ \E retries \in SUBSET {p \in Pages : page[p].state = "retry"} :
       LET due == {p \in Pages : page[p].state = "pending"} \union retries
       IN due # {} /\ disp' = [DispIdle EXCEPT !.pc = "batch", !.todo = due]
  /\ UNCHANGED <<cmd, ran, ctl, page, heard, inbox, orphans, faults>>

\* requests.post: the webhook may take the page and its answer be lost.
DispPost ==
  /\ disp.pc = "batch"
  /\ \E p \in disp.todo, taken, answered \in BOOLEAN :
       /\ heard' = IF taken THEN heard \union {p} ELSE heard
       /\ disp' = [pc |-> "record", todo |-> disp.todo \ {p}, p |-> p,
                   accepted |-> taken /\ answered]
  /\ UNCHANGED <<cmd, ran, ctl, page, inbox, orphans, faults>>

\* Mutant: one attempt more.
Attempted_OneMore(row, accepted) ==
  IF row.state \notin Unsent THEN row
  ELSE [row EXCEPT !.tries = @ + 1,
          !.state = IF accepted THEN "ingested"
                    ELSE IF row.tries + 1 > MaxAttempts THEN "dlq" ELSE "retry"]

\* record_alert_attempt. A page that a receipt has moved on stays where it is.
Attempted(row, accepted) ==
  IF row.state \notin Unsent THEN row
  ELSE [row EXCEPT !.tries = @ + 1,
          !.state = IF accepted THEN "ingested"
                    ELSE IF row.tries + 1 >= MaxAttempts THEN "dlq" ELSE "retry"]

NextInBatch ==
  disp' = IF disp.todo = {} THEN DispIdle
          ELSE [DispIdle EXCEPT !.pc = "batch", !.todo = disp.todo]

Record(accepted) ==
  /\ page' = [page EXCEPT ![disp.p] = Attempted(@, accepted)] /\ NextInBatch
  /\ UNCHANGED <<cmd, ran, ctl, heard, inbox, orphans, faults>>

\* Mutant: the status of the answer is not looked at.
DispRecord_AnyStatus == disp.pc = "record" /\ Record(TRUE)

DispRecord == disp.pc = "record" /\ Record(disp.accepted)

\* The record fails: in the try, it is an attempt that failed; in its handler, the
\* end of the thread.
DispRecordFails ==
  /\ disp.pc = "record" /\ Fault
  /\ disp' = IF disp.accepted THEN [disp EXCEPT !.accepted = FALSE]
             ELSE [DispIdle EXCEPT !.pc = "dead"]
  /\ UNCHANGED <<cmd, ran, ctl, page, heard, inbox, orphans>>

Dispatcher == DispRead \/ DispPost \/ DispRecord

-----------------------------------------------------------------------------
(* Receipts. Who signs them has the page from the webhook.                 *)

Drop(f) ==
  /\ inbox[f] = "none" /\ f[2] \in heard /\ inbox' = [inbox EXCEPT ![f] = "there"]
  /\ UNCHANGED <<cmd, ran, ctl, page, disp, heard, orphans, faults>>

\* record_alert_provider_received, _human_ack, _escalation.
Accepts(row, kind) ==
  \/ kind = "provider"
  \/ kind = "human-ack" /\ row.provider
  \/ kind = "escalation" /\ ~row.acked

Received(row, kind) ==
  CASE kind = "provider" ->
         [row EXCEPT !.provider = TRUE,
                     !.state = IF row.acked THEN "acknowledged" ELSE "provider_received"]
    [] kind = "human-ack" -> [row EXCEPT !.acked = TRUE, !.state = "acknowledged"]
    [] kind = "escalation" -> [row EXCEPT !.state = "escalated"]

CtlApply(f) ==
  /\ ctl.pc = "idle" /\ inbox[f] = "there"
  /\ \/ /\ Accepts(page[f[2]], f[1])
        /\ page' = [page EXCEPT ![f[2]] = Received(@, f[1])]
        /\ ctl' = [ctl EXCEPT !.pc = "archive", !.file = f]
        /\ UNCHANGED faults
     \/ /\ \/ ~Accepts(page[f[2]], f[1]) /\ UNCHANGED faults
           \/ Fault
        /\ ctl' = [ctl EXCEPT !.pc = "refuse", !.file = f]
        /\ UNCHANGED page
  /\ UNCHANGED <<cmd, ran, disp, heard, inbox, orphans>>

\* The handler: an exception here leaves the file where it is, and the loop goes on.
CtlRefuse ==
  /\ ctl.pc = "refuse"
  /\ \/ ctl' = [ctl EXCEPT !.pc = "reject"] /\ page' \in {Raised(p) : p \in Incidents} /\ UNCHANGED faults
     \/ Fault /\ ctl' = CtlIdle /\ UNCHANGED page
  /\ UNCHANGED <<cmd, ran, disp, heard, inbox, orphans>>

\* A move to `processed` that fails makes a receipt that took effect a refused one;
\* a move to `rejected` that fails leaves the file there.
CtlArchive ==
  /\ ctl.pc \in {"archive", "reject"}
  /\ \/ /\ inbox' = [inbox EXCEPT ![ctl.file] = "gone"] /\ ctl' = CtlIdle
        /\ UNCHANGED faults
     \/ /\ Fault /\ UNCHANGED inbox
        /\ ctl' = IF ctl.pc = "archive" THEN [ctl EXCEPT !.pc = "refuse"] ELSE CtlIdle
  /\ UNCHANGED <<cmd, ran, page, disp, heard, orphans>>

-----------------------------------------------------------------------------
(* Commands.                                                               *)

\* enqueue_control_command, from a process of the operator.
Enqueue(c) ==
  /\ cmd[c] = "none" /\ cmd' = [cmd EXCEPT ![c] = "pending"]
  /\ UNCHANGED <<ran, ctl, page, disp, heard, inbox, orphans, faults>>

Pending == {c \in Commands : cmd[c] = "pending"}

NextCommand == ctl' = [CtlIdle EXCEPT !.pc = IF ctl.todo = {} THEN "idle" ELSE "batch",
                                      !.todo = ctl.todo]

\* Mutant: commands are read without being marked.
CtlClaim_Unmarked ==
  /\ ctl.pc = "idle" /\ Pending # {}
  /\ ctl' = [CtlIdle EXCEPT !.pc = "batch", !.todo = Pending]
  /\ UNCHANGED <<cmd, ran, page, disp, heard, inbox, orphans, faults>>

\* claim_control_commands, all that wait at once.
CtlClaim ==
  /\ ctl.pc = "idle" /\ Pending # {}
  /\ cmd' = [c \in Commands |-> IF c \in Pending THEN "running" ELSE cmd[c]]
  /\ ctl' = [CtlIdle EXCEPT !.pc = "batch", !.todo = Pending]
  /\ UNCHANGED <<ran, page, disp, heard, inbox, orphans, faults>>

\* The command does what it does, in whole or up to an exception.
CtlRun ==
  /\ ctl.pc = "batch"
  /\ \E c \in ctl.todo :
       \/ /\ ran' = [ran EXCEPT ![c] = @ + 1]
          /\ ctl' = [ctl EXCEPT !.pc = "finish", !.todo = @ \ {c}, !.c = c]
       \/ /\ ran' \in {ran, [ran EXCEPT ![c] = @ + 1]}
          /\ ctl' = [ctl EXCEPT !.pc = "failed", !.todo = @ \ {c}, !.c = c]
  /\ UNCHANGED <<cmd, page, disp, heard, inbox, orphans, faults>>

\* Mutant: a failure to store the answer is caught, and forgotten.
CtlFinish_Swallowed ==
  /\ ctl.pc = "finish" /\ NextCommand
  /\ \/ cmd' = [cmd EXCEPT ![ctl.c] = "completed"] /\ UNCHANGED faults
     \/ Fault /\ UNCHANGED cmd
  /\ UNCHANGED <<ran, page, disp, heard, inbox, orphans>>

\* finish_control_command. It is inside the try: its failure fails the command.
CtlFinish ==
  /\ ctl.pc = "finish"
  /\ \/ cmd' = [cmd EXCEPT ![ctl.c] = "completed"] /\ NextCommand /\ UNCHANGED faults
     \/ Fault /\ ctl' = [ctl EXCEPT !.pc = "failed"] /\ UNCHANGED cmd
  /\ UNCHANGED <<ran, page, disp, heard, inbox, orphans>>

\* Mutant: the answer to the operator is written first, the page about it later.
CtlFailed_AnswerFirst ==
  /\ ctl.pc = "failed"
  /\ cmd' = [cmd EXCEPT ![ctl.c] = "failed"] /\ ctl' = [ctl EXCEPT !.pc = "answer"]
  /\ UNCHANGED <<ran, page, disp, heard, inbox, orphans, faults>>

\* The handler: HALTED, an event and a page, and then the answer.
CtlFailed ==
  /\ ctl.pc = "failed"
  /\ page' = Raised(ctl.c) /\ ctl' = [ctl EXCEPT !.pc = "answer"]
  /\ UNCHANGED <<cmd, ran, disp, heard, inbox, orphans, faults>>

CtlAnswer ==
  /\ ctl.pc = "answer"
  /\ cmd' = [cmd EXCEPT ![ctl.c] = "failed"] /\ NextCommand
  /\ UNCHANGED <<ran, page, disp, heard, inbox, orphans, faults>>

Held == ctl.todo \union ({ctl.c} \intersect Commands)

\* What fails outside the try, or in its handler, ends the thread.
CtlDies ==
  /\ ctl.pc \in {"idle", "failed", "answer"} /\ Fault
  /\ ctl' = [CtlIdle EXCEPT !.pc = "dead"] /\ orphans' = orphans \union Held
  /\ UNCHANGED <<cmd, ran, page, disp, heard, inbox>>

Control ==
  \/ \E f \in Receipts : CtlApply(f)
  \/ CtlRefuse \/ CtlArchive \/ CtlClaim \/ CtlRun \/ CtlFinish \/ CtlFailed \/ CtlAnswer

-----------------------------------------------------------------------------
(* The process.                                                            *)

Starts == ctl' = CtlIdle /\ disp' = DispIdle /\ orphans' = orphans \union Held

Killed ==
  /\ Fault /\ Starts /\ UNCHANGED <<cmd, ran, page, heard, inbox>>

\* Mutant: the heartbeat looks at the control thread only.
Replaced_ControlOnly ==
  /\ ctl.pc = "dead"
  /\ Starts /\ UNCHANGED <<cmd, ran, page, heard, inbox, faults>>

\* _liveness sees a dead thread; without WATCHDOG=1 systemd kills and restarts.
Replaced ==
  /\ ctl.pc = "dead" \/ disp.pc = "dead"
  /\ Starts /\ UNCHANGED <<cmd, ran, page, heard, inbox, faults>>

-----------------------------------------------------------------------------
Init ==
  /\ cmd = [c \in Commands |-> "none"] /\ ran = [c \in Commands |-> 0]
  /\ page = [p \in Pages |-> [state |-> "none", tries |-> 0, provider |-> FALSE,
                              acked |-> FALSE]]
  /\ heard = {}
  /\ inbox = [f \in Receipts |-> "none"]
  /\ ctl = CtlIdle /\ disp = DispIdle /\ orphans = {} /\ faults = 0

Outside ==
  \/ \E c \in Commands : Enqueue(c)
  \/ \E p \in Incidents : Raise(p)
  \/ \E f \in Receipts : Drop(f)

Next ==
  \/ Outside \/ Dispatcher \/ DispRecordFails \/ Control \/ CtlDies \/ Killed \/ Replaced

Spec == Init /\ [][Next]_vars

\* The threads run, every retry comes due, and systemd does its part. Nothing is
\* assumed of the webhook, the operators and who signs receipts.
FairSpec ==
  Spec /\ WF_vars(Dispatcher) /\ WF_vars(Control) /\ WF_vars(Replaced)

-----------------------------------------------------------------------------
Controller ==
  [pc : {"idle", "archive", "refuse", "reject", "batch", "finish", "failed", "answer", "dead"},
   todo : SUBSET Commands, c : Commands \union {Nobody}, file : Receipts \union {Nobody}]

Sender ==
  [pc : {"idle", "batch", "record", "dead"}, todo : SUBSET Pages,
   p : Pages \union {Nobody}, accepted : BOOLEAN]

Delivery ==
  [state : {"none", "pending", "retry", "ingested", "dlq", "escalated",
            "provider_received", "acknowledged"},
   tries : 0..MaxAttempts, provider : BOOLEAN, acked : BOOLEAN]

\* Every variable stays in its type; no page is tried more often than MaxAttempts.
TypeOK ==
  /\ cmd \in [Commands -> {"none", "pending", "running", "completed", "failed"}]
  /\ ran \in [Commands -> Nat]
  /\ ctl \in Controller /\ disp \in Sender
  /\ page \in [Pages -> Delivery] /\ heard \subseteq Pages
  /\ inbox \in [Receipts -> {"none", "there", "gone"}]
  /\ orphans \subseteq Commands /\ faults \in 0..MaxFaults

\* A page that the dispatcher has done with has reached the webhook, or is a dead
\* letter after all its attempts: no crash, no lost answer, no receipt and no stale
\* batch makes one go quiet unheard. (AlertDispatcher._run, record_alert_attempt.)
QuietIsHeard ==
  \A p \in Pages :
    /\ page[p].state \notin Unsent \union {"none", "dlq"} => p \in heard
    /\ page[p].state = "dlq" => page[p].tries = MaxAttempts

\* A command takes effect once at most, however often its process is killed, and
\* one that is at work, or ever was, is never claimed again.
RunsOnce ==
  \A c \in Commands : ran[c] <= 1 /\ (ran[c] = 1 => cmd[c] \in {"running", "completed", "failed"})

\* Who reads `failed` can count on the page; who reads `completed` on the effect; a
\* command that is running is in the control thread's hands or was in those of one
\* that ended. (_control_loop, runtime.py; enqueue_and_wait, cli/operations.py.)
AnswersAreTrue ==
  \A c \in Commands :
    /\ cmd[c] = "failed" => page[c].state # "none"
    /\ cmd[c] = "completed" => ran[c] = 1
    /\ cmd[c] = "running" => c \in Held \union orphans

\* An acknowledgement is final: no receipt that is applied twice, no late attempt of
\* a batch read before it puts the page back among those that wait.
AckedStays ==
  [][\A p \in Pages : page[p].state = "acknowledged" => page'[p].state = "acknowledged"]_vars

\* Every page is sent until it was taken, acknowledged elsewhere or given up, also
\* when the thread that sends it dies.
PagesGoOut ==
  \A p \in Pages : page[p].state = "pending" ~> page[p].state \notin Unsent

\* Every command is answered, unless the process ended while it had it.
CommandsAnswered ==
  \A c \in Commands :
    cmd[c] = "pending" ~> cmd[c] \in {"completed", "failed"} \/ c \in orphans

=============================================================================
