------------------------ MODULE OperatorChannelProofs ------------------------
(***************************************************************************)
(* Proofs about OperatorChannel, for any commands, incidents and number of *)
(* attempts, and with any number of failures: MaxFaults only bounds TLC.   *)
(***************************************************************************)
EXTENDS OperatorChannel, TLAPS

\* A row of alert_deliveries, the webhook having taken its page or not.
RowSound(row, taken) ==
  /\ row.state \notin Unsent \union {"none", "dlq"} => taken
  /\ row.state \in Unsent \union {"none"} => row.tries < MaxAttempts
  /\ row.state = "dlq" => row.tries = MaxAttempts
  /\ row.state = "acknowledged" => row.acked

PagesSound == \A p \in Pages : RowSound(page[p], p \in heard)

SenderSound ==
  disp.pc = "record" => disp.p \in Pages /\ (disp.accepted => disp.p \in heard)

InboxSound == \A f \in Receipts : inbox[f] # "none" => f[2] \in heard

\* What the control thread has in its hands.
ControlSound ==
  /\ ctl.pc \in {"idle", "archive", "refuse", "reject", "dead"} => ctl.todo = {}
  /\ ctl.pc \notin {"finish", "failed", "answer"} => ctl.c = Nobody
  /\ ctl.pc \in {"finish", "failed", "answer"} =>
       ctl.c \in Commands /\ ctl.c \notin ctl.todo /\ cmd[ctl.c] = "running"
  /\ ctl.pc = "finish" => ran[ctl.c] = 1
  /\ ctl.pc = "answer" => page[ctl.c].state # "none"
  /\ ctl.pc \in {"archive", "refuse", "reject"} =>
       ctl.file \in Receipts /\ inbox[ctl.file] # "none"
  /\ \A c \in ctl.todo : cmd[c] = "running" /\ ran[c] = 0

CommandsSound ==
  \A c \in Commands :
    /\ ran[c] <= 1
    /\ cmd[c] \in {"none", "pending"} => ran[c] = 0
    /\ cmd[c] = "completed" => ran[c] = 1
    /\ cmd[c] = "failed" => page[c].state # "none"
    /\ cmd[c] = "running" => c \in Held \union orphans

ChannelInv ==
  /\ TypeOK /\ PagesSound /\ SenderSound /\ InboxSound /\ ControlSound /\ CommandsSound

-----------------------------------------------------------------------------
\* Raising a page leaves rows well typed and sound, and takes none away.
LEMMA RaisedSound ==
  ASSUME ChannelInv, NEW q \in Pages
  PROVE  /\ Raised(q) \in [Pages -> Delivery]
         /\ \A p \in Pages : RowSound(Raised(q)[p], p \in heard)
         /\ \A p \in Pages : page[p].state # "none" => Raised(q)[p].state # "none"
         /\ Raised(q)[q].state # "none"
         /\ \A p \in Pages : page[p].state = "acknowledged" => Raised(q)[p] = page[p]
<1>1. page \in [Pages -> Delivery]
  BY DEF ChannelInv, TypeOK
<1>2. CASE page[q].state = "none"
  <2>1. Raised(q) = [page EXCEPT ![q].state = "pending"]
    BY <1>2 DEF Raised
  <2>2. /\ Raised(q)[q] = [page[q] EXCEPT !.state = "pending"]
        /\ \A p \in Pages : p # q => Raised(q)[p] = page[p]
    BY <1>1, <2>1
  <2>3. Raised(q)[q] \in Delivery
    BY <1>1, <2>2 DEF Delivery
  <2>4. Raised(q)[q].state = "pending" /\ Raised(q)[q].tries = page[q].tries
    BY <1>1, <2>2 DEF Delivery
  <2>5. RowSound(Raised(q)[q], q \in heard)
    BY <1>2, <2>4 DEF ChannelInv, PagesSound, RowSound, Unsent
  <2>6. Raised(q) \in [Pages -> Delivery]
    BY <1>1, <2>1, <2>2, <2>3
  <2> QED
    BY <1>2, <2>2, <2>4, <2>5, <2>6 DEF ChannelInv, PagesSound
<1>3. CASE page[q].state # "none"
  BY <1>1, <1>3 DEF Raised, ChannelInv, PagesSound
<1> QED
  BY <1>2, <1>3

\* An attempt that was answered well only if the webhook took the page.
LEMMA AttemptedSound ==
  ASSUME NEW row \in Delivery, NEW p, RowSound(row, p \in heard),
         NEW accepted \in BOOLEAN, accepted => p \in heard, ChannelConstants
  PROVE  /\ Attempted(row, accepted) \in Delivery
         /\ RowSound(Attempted(row, accepted), p \in heard)
         /\ row.state # "none" => Attempted(row, accepted).state # "none"
         /\ row.state = "acknowledged" => Attempted(row, accepted) = row
<1> DEFINE st == IF accepted THEN "ingested"
                 ELSE IF row.tries + 1 >= MaxAttempts THEN "dlq" ELSE "retry"
<1>1. CASE row.state \notin Unsent
  BY <1>1 DEF Attempted
<1>2. CASE row.state \in Unsent
  <2>1. row.tries \in 0..MaxAttempts /\ row.tries < MaxAttempts /\ MaxAttempts \in Nat
    BY <1>2 DEF RowSound, Delivery, ChannelConstants
  <2>2. Attempted(row, accepted) = [row EXCEPT !.tries = @ + 1, !.state = st]
    BY <1>2 DEF Attempted
  <2>3. row.tries + 1 \in 0..MaxAttempts
    BY <2>1
  <2>4. st \in {"ingested", "dlq", "retry"}
    OBVIOUS
  <2> HIDE DEF st
  <2>5. /\ Attempted(row, accepted) \in Delivery
        /\ Attempted(row, accepted).state = st
        /\ Attempted(row, accepted).tries = row.tries + 1
    BY <2>2, <2>3, <2>4 DEF Delivery
  <2>6. /\ st = "ingested" => p \in heard
        /\ st = "retry" => row.tries + 1 < MaxAttempts
        /\ st = "dlq" => row.tries + 1 = MaxAttempts
    BY <2>1 DEF st
  <2>7. RowSound(Attempted(row, accepted), p \in heard)
    BY <2>4, <2>5, <2>6 DEF RowSound, Unsent
  <2> QED
    BY <1>2, <2>4, <2>5, <2>7 DEF Unsent
<1> QED
  BY <1>1, <1>2

\* A receipt, of which it is only known that the webhook took its page.
LEMMA ReceivedSound ==
  ASSUME NEW row \in Delivery, RowSound(row, TRUE), NEW kind, Accepts(row, kind)
  PROVE  /\ Received(row, kind) \in Delivery
         /\ RowSound(Received(row, kind), TRUE)
         /\ Received(row, kind).state # "none"
         /\ row.state = "acknowledged" => Received(row, kind).state = "acknowledged"
<1>1. CASE kind = "provider"
  <2> DEFINE st == IF row.acked THEN "acknowledged" ELSE "provider_received"
  <2>1. Received(row, kind) = [row EXCEPT !.provider = TRUE, !.state = st]
    BY <1>1 DEF Received
  <2>2. st \in {"acknowledged", "provider_received"} /\ (st = "acknowledged" <=> row.acked)
    BY DEF Delivery
  <2> HIDE DEF st
  <2>3. /\ Received(row, kind) \in Delivery
        /\ Received(row, kind).state = st /\ Received(row, kind).acked = row.acked
    BY <2>1, <2>2 DEF Delivery
  <2> QED
    BY <2>2, <2>3 DEF RowSound, Unsent
<1>2. CASE kind = "human-ack"
  <2>1. Received(row, kind) = [row EXCEPT !.acked = TRUE, !.state = "acknowledged"]
    BY <1>2 DEF Received
  <2>2. /\ Received(row, kind) \in Delivery
        /\ Received(row, kind).state = "acknowledged" /\ Received(row, kind).acked = TRUE
    BY <2>1 DEF Delivery
  <2> QED
    BY <2>2 DEF RowSound, Unsent
<1>3. CASE kind = "escalation"
  <2>1. Received(row, kind) = [row EXCEPT !.state = "escalated"] /\ ~row.acked
    BY <1>3 DEF Received, Accepts
  <2>2. Received(row, kind) \in Delivery /\ Received(row, kind).state = "escalated"
    BY <2>1 DEF Delivery
  <2> QED
    BY <2>1, <2>2 DEF RowSound, Unsent
<1> QED
  BY <1>1, <1>2, <1>3 DEF Accepts

-----------------------------------------------------------------------------
LEMMA ChannelInit ==
  ASSUME ChannelConstants, Init PROVE ChannelInv
<1> USE DEF Init, CtlIdle, DispIdle
<1>1. TypeOK
  BY DEF TypeOK, Controller, Sender, Delivery, ChannelConstants
<1>2. PagesSound
  BY DEF PagesSound, RowSound, Unsent, ChannelConstants
<1>3. SenderSound /\ InboxSound /\ ControlSound
  BY DEF SenderSound, InboxSound, ControlSound
<1>4. CommandsSound
  BY DEF CommandsSound
<1> QED
  BY <1>1, <1>2, <1>3, <1>4 DEF ChannelInv

\* Faults are counted, one at a time.
LEMMA FaultCounted ==
  ASSUME ChannelConstants, faults \in 0..MaxFaults, Fault \/ UNCHANGED faults
  PROVE  faults' \in 0..MaxFaults
BY DEF Fault, ChannelConstants

\* The dispatcher and those outside change neither commands nor the control thread.
LEMMA DispatcherKeeps ==
  ASSUME ChannelConstants, ChannelInv,
         Dispatcher \/ DispRecordFails \/ \E f \in Receipts : Drop(f)
  PROVE  ChannelInv'
<1> USE DEF ChannelInv
<1>1. CASE DispRead
  <2>1. disp'.pc = "batch" /\ disp' \in Sender
    <3>1. PICK retries \in SUBSET {p \in Pages : page[p].state = "retry"} :
            disp' = [DispIdle EXCEPT !.pc = "batch",
                       !.todo = {p \in Pages : page[p].state = "pending"} \union retries]
      BY <1>1 DEF DispRead
    <3> QED
      BY <3>1 DEF DispIdle, Sender
  <2> QED
    BY <1>1, <2>1 DEF DispRead, TypeOK, PagesSound, SenderSound, InboxSound, ControlSound,
       CommandsSound, Held
<1>2. CASE DispPost
  <2>1. PICK p \in disp.todo, taken \in BOOLEAN, answered \in BOOLEAN :
          /\ heard' = IF taken THEN heard \union {p} ELSE heard
          /\ disp' = [pc |-> "record", todo |-> disp.todo \ {p}, p |-> p,
                      accepted |-> taken /\ answered]
    BY <1>2 DEF DispPost
  <2>2. p \in Pages /\ disp.todo \in SUBSET Pages
    BY DEF TypeOK, Sender
  <2>3. disp' \in Sender
    BY <2>1, <2>2 DEF Sender
  <2>4. heard \subseteq heard' /\ heard' \subseteq Pages
    BY <2>1, <2>2 DEF TypeOK
  <2>5. SenderSound'
    BY <2>1, <2>2 DEF SenderSound
  <2>6. UNCHANGED <<cmd, ran, ctl, page, inbox, orphans, faults>>
    BY <1>2 DEF DispPost
  <2>7. TypeOK'
    BY <2>3, <2>4, <2>6 DEF TypeOK
  <2>8. PagesSound'
    BY <2>4, <2>6 DEF PagesSound, RowSound
  <2> QED
    BY <2>4, <2>5, <2>6, <2>7, <2>8 DEF InboxSound, ControlSound, CommandsSound, Held
<1>3. CASE DispRecord
  <2>1. /\ disp.pc = "record" /\ disp.p \in Pages /\ disp.accepted \in BOOLEAN
        /\ disp.accepted => disp.p \in heard
    BY <1>3 DEF DispRecord, SenderSound, TypeOK, Sender
  <2> DEFINE new == Attempted(page[disp.p], disp.accepted)
  <2>2. page[disp.p] \in Delivery /\ RowSound(page[disp.p], disp.p \in heard)
    BY <2>1 DEF TypeOK, PagesSound
  <2>3. /\ new \in Delivery /\ RowSound(new, disp.p \in heard)
        /\ page[disp.p].state # "none" => new.state # "none"
    BY <2>1, <2>2, AttemptedSound, Zenon
  <2>4. /\ page' = [page EXCEPT ![disp.p] = new]
        /\ UNCHANGED <<cmd, ran, ctl, heard, inbox, orphans, faults>>
    BY <1>3 DEF DispRecord, Record
  <2> HIDE DEF new
  <2>5. /\ page' \in [Pages -> Delivery] /\ page'[disp.p] = new
        /\ \A p \in Pages : p # disp.p => page'[p] = page[p]
    BY <2>1, <2>3, <2>4 DEF TypeOK
  <2>6. disp' \in Sender /\ disp'.pc # "record"
    <3>1. disp.todo \in SUBSET Pages
      BY DEF TypeOK, Sender
    <3> QED
      BY <1>3, <3>1 DEF DispRecord, Record, NextInBatch, DispIdle, Sender
  <2>7. TypeOK'
    BY <2>4, <2>5, <2>6 DEF TypeOK
  <2>8. PagesSound'
    BY <2>3, <2>4, <2>5 DEF PagesSound
  <2>9. \A p \in Pages : page[p].state # "none" => page'[p].state # "none"
    BY <2>3, <2>5
  <2>10. ControlSound'
    BY <2>4, <2>9 DEF ControlSound, Pages
  <2>11. CommandsSound'
    BY <2>4, <2>9 DEF CommandsSound, Held, Pages
  <2> QED
    BY <2>4, <2>6, <2>7, <2>8, <2>10, <2>11 DEF SenderSound, InboxSound
<1>4. CASE DispRecordFails
  <2>1. /\ disp.pc = "record"
        /\ UNCHANGED <<cmd, ran, ctl, page, heard, inbox, orphans>>
        /\ faults' \in 0..MaxFaults
    BY <1>4, FaultCounted DEF DispRecordFails, TypeOK
  <2>2. disp' \in Sender /\ SenderSound'
    <3>1. CASE disp.accepted
      <4>1. disp' = [disp EXCEPT !.accepted = FALSE]
        BY <1>4, <3>1 DEF DispRecordFails
      <4>2. disp' \in Sender /\ disp'.p = disp.p /\ disp'.accepted = FALSE
        BY <4>1 DEF TypeOK, Sender
      <4> QED
        BY <2>1, <4>2 DEF SenderSound
    <3>2. CASE ~disp.accepted
      BY <1>4, <3>2 DEF DispRecordFails, DispIdle, Sender, SenderSound
    <3> QED
      BY <3>1, <3>2
  <2> QED
    BY <2>1, <2>2 DEF TypeOK, PagesSound, InboxSound, ControlSound, CommandsSound, Held
<1>5. ASSUME NEW f \in Receipts, Drop(f) PROVE ChannelInv'
  <2>1. /\ inbox' = [inbox EXCEPT ![f] = "there"] /\ f[2] \in heard
        /\ UNCHANGED <<cmd, ran, ctl, page, disp, heard, orphans, faults>>
    BY <1>5 DEF Drop
  <2>2. InboxSound'
    BY <2>1 DEF InboxSound, TypeOK
  <2> QED
    BY <2>1, <2>2 DEF TypeOK, PagesSound, SenderSound, ControlSound, CommandsSound, Held
<1> QED
  BY <1>1, <1>2, <1>3, <1>4, <1>5 DEF Dispatcher

\* Receipts: taken from the inbox between commands, when no command is in hand.
LEMMA ReceiptsKeep ==
  ASSUME ChannelConstants, ChannelInv,
         (\E f \in Receipts : CtlApply(f)) \/ CtlRefuse \/ CtlArchive
  PROVE  ChannelInv'
<1> USE DEF ChannelInv
<1>1. ctl.pc \in {"idle", "archive", "refuse", "reject"} => ctl.todo = {} /\ ctl.c = Nobody
  BY DEF ControlSound
<1>2. ASSUME NEW f \in Receipts, CtlApply(f) PROVE ChannelInv'
  <2>1. /\ ctl.pc = "idle" /\ inbox[f] = "there" /\ f[2] \in heard
        /\ UNCHANGED <<cmd, ran, disp, heard, inbox, orphans>> /\ faults' \in 0..MaxFaults
    BY <1>2, FaultCounted DEF CtlApply, InboxSound, TypeOK
  <2>2. /\ ctl' \in Controller /\ ctl'.todo = {} /\ ctl'.c = Nobody /\ ctl'.file = f
        /\ ctl'.pc \in {"archive", "refuse"}
    BY <1>1, <1>2, <2>1 DEF CtlApply, TypeOK, Controller
  <2>3. /\ page' \in [Pages -> Delivery] /\ PagesSound'
        /\ \A p \in Pages : page[p].state # "none" => page'[p].state # "none"
    <3>1. CASE page' = page
      BY <2>1, <3>1 DEF TypeOK, PagesSound
    <3>2. CASE page' # page
      <4>1. f[2] \in Pages
        BY DEF Receipts, Pages
      <4> DEFINE new == Received(page[f[2]], f[1])
      <4>2. page' = [page EXCEPT ![f[2]] = new] /\ Accepts(page[f[2]], f[1])
        BY <1>2, <3>2 DEF CtlApply
      <4>3. page[f[2]] \in Delivery /\ RowSound(page[f[2]], TRUE)
        BY <2>1, <4>1 DEF TypeOK, PagesSound, RowSound
      <4>4. new \in Delivery /\ RowSound(new, TRUE) /\ new.state # "none"
        BY <4>2, <4>3, ReceivedSound
      <4> HIDE DEF new
      <4>5. /\ page' \in [Pages -> Delivery] /\ page'[f[2]] = new
            /\ \A p \in Pages : p # f[2] => page'[p] = page[p]
        BY <4>1, <4>2, <4>4 DEF TypeOK
      <4> QED
        BY <2>1, <4>4, <4>5 DEF PagesSound, RowSound
    <3> QED
      BY <3>1, <3>2
  <2>4. TypeOK'
    BY <2>1, <2>2, <2>3 DEF TypeOK
  <2>5. ControlSound'
    BY <2>1, <2>2 DEF ControlSound
  <2>6. Held' = Held
    BY <1>1, <2>1, <2>2 DEF Held
  <2>7. CommandsSound'
    BY <2>1, <2>3, <2>6 DEF CommandsSound, Pages
  <2> QED
    BY <2>1, <2>3, <2>4, <2>5, <2>7 DEF SenderSound, InboxSound
<1>3. CASE CtlRefuse
  <2>1. /\ ctl.pc = "refuse" /\ ctl.file \in Receipts
        /\ UNCHANGED <<cmd, ran, disp, heard, inbox, orphans>> /\ faults' \in 0..MaxFaults
    BY <1>3, FaultCounted DEF CtlRefuse, ControlSound, TypeOK
  <2>2. /\ ctl' \in Controller /\ ctl'.todo = {} /\ ctl'.c = Nobody
        /\ ctl'.pc \in {"idle", "reject"} /\ (ctl'.pc = "reject" => ctl'.file = ctl.file)
    BY <1>1, <1>3, <2>1 DEF CtlRefuse, CtlIdle, TypeOK, Controller
  <2>3. /\ page' \in [Pages -> Delivery]
        /\ \A p \in Pages : RowSound(page'[p], p \in heard)
        /\ \A p \in Pages : page[p].state # "none" => page'[p].state # "none"
    <3>1. CASE page' = page
      BY <3>1 DEF TypeOK, PagesSound
    <3>2. ASSUME NEW p \in Incidents, page' = Raised(p)
          PROVE  /\ page' \in [Pages -> Delivery]
                 /\ \A q \in Pages : RowSound(page'[q], q \in heard)
                 /\ \A q \in Pages : page[q].state # "none" => page'[q].state # "none"
      <4>1. p \in Pages
        BY DEF Pages
      <4> QED
        BY <3>2, <4>1, RaisedSound
    <3> QED
      BY <1>3, <3>1, <3>2 DEF CtlRefuse
  <2>4. TypeOK' /\ PagesSound'
    BY <2>1, <2>2, <2>3 DEF TypeOK, PagesSound
  <2>5. ControlSound'
    BY <2>1, <2>2 DEF ControlSound
  <2>6. Held' = Held
    BY <1>1, <2>1, <2>2 DEF Held
  <2>7. CommandsSound'
    BY <2>1, <2>3, <2>6 DEF CommandsSound, Pages
  <2> QED
    BY <2>1, <2>4, <2>5, <2>7 DEF SenderSound, InboxSound
<1>4. CASE CtlArchive
  <2>1. /\ ctl.pc \in {"archive", "reject"} /\ ctl.file \in Receipts
        /\ UNCHANGED <<cmd, ran, page, disp, heard, orphans>> /\ faults' \in 0..MaxFaults
    BY <1>4, FaultCounted DEF CtlArchive, ControlSound, TypeOK
  <2>2. /\ ctl' \in Controller /\ ctl'.todo = {} /\ ctl'.c = Nobody
        /\ ctl'.pc \in {"idle", "refuse"}
        /\ ctl'.pc = "refuse" => ctl'.file = ctl.file /\ inbox' = inbox
    BY <1>1, <1>4, <2>1 DEF CtlArchive, CtlIdle, TypeOK, Controller
  <2>3. inbox' \in [Receipts -> {"none", "there", "gone"}] /\ InboxSound'
    BY <1>4, <2>1 DEF CtlArchive, InboxSound, ControlSound, TypeOK
  <2>4. TypeOK' /\ PagesSound' /\ SenderSound'
    BY <2>1, <2>2, <2>3 DEF TypeOK, PagesSound, SenderSound
  <2>5. ControlSound'
    BY <2>1, <2>2 DEF ControlSound
  <2>6. Held' = Held
    BY <1>1, <2>1, <2>2 DEF Held
  <2>7. CommandsSound'
    BY <2>1, <2>6 DEF CommandsSound
  <2> QED
    BY <2>3, <2>4, <2>5, <2>7
<1> QED
  BY <1>2, <1>3, <1>4

\* Commands, and the pages about those that fail.
LEMMA CommandsKeep ==
  ASSUME ChannelConstants, ChannelInv,
         \/ \E c \in Commands : Enqueue(c)
         \/ CtlClaim \/ CtlRun \/ CtlFinish \/ CtlFailed \/ CtlAnswer
  PROVE  ChannelInv'
<1> USE DEF ChannelInv
<1>1. /\ ctl.pc = "idle" => ctl.todo = {} /\ ctl.c = Nobody
      /\ ctl.pc = "batch" => ctl.c = Nobody
      /\ ctl.pc \in {"finish", "failed", "answer"} =>
           ctl.c \in Commands /\ ctl.c \notin ctl.todo /\ cmd[ctl.c] = "running"
      /\ Nobody \notin Commands /\ ctl.todo \subseteq Commands /\ ctl \in Controller
  BY DEF ControlSound, ChannelConstants, TypeOK, Controller
<1>2. ASSUME NEW c \in Commands, Enqueue(c) PROVE ChannelInv'
  <2>1. /\ cmd[c] = "none" /\ cmd' = [cmd EXCEPT ![c] = "pending"]
        /\ UNCHANGED <<ran, ctl, page, disp, heard, inbox, orphans, faults>>
    BY <1>2 DEF Enqueue
  <2>2. /\ cmd'[c] = "pending" /\ \A d \in Commands : d # c => cmd'[d] = cmd[d]
        /\ cmd' \in [Commands -> {"none", "pending", "running", "completed", "failed"}]
    BY <2>1 DEF TypeOK
  <2>3. TypeOK' /\ PagesSound' /\ SenderSound' /\ InboxSound'
    BY <2>1, <2>2 DEF TypeOK, PagesSound, SenderSound, InboxSound
  <2>4. ControlSound'
    BY <1>1, <2>1, <2>2 DEF ControlSound
  <2>5. CommandsSound'
    BY <2>1, <2>2 DEF CommandsSound, Held
  <2> QED
    BY <2>3, <2>4, <2>5
<1>3. CASE CtlClaim
  <2>1. /\ ctl.pc = "idle" /\ UNCHANGED <<ran, page, disp, heard, inbox, orphans, faults>>
        /\ cmd' = [c \in Commands |-> IF c \in Pending THEN "running" ELSE cmd[c]]
        /\ ctl' \in Controller /\ ctl'.pc = "batch" /\ ctl'.todo = Pending /\ ctl'.c = Nobody
    BY <1>3 DEF CtlClaim, CtlIdle, Controller, Pending
  <2>2. /\ cmd' \in [Commands -> {"none", "pending", "running", "completed", "failed"}]
        /\ \A c \in Commands : cmd'[c] = IF cmd[c] = "pending" THEN "running" ELSE cmd[c]
    BY <2>1 DEF TypeOK, Pending
  <2>3. TypeOK' /\ PagesSound' /\ SenderSound' /\ InboxSound'
    BY <2>1, <2>2 DEF TypeOK, PagesSound, SenderSound, InboxSound
  <2>4. ControlSound'
    BY <2>1, <2>2 DEF ControlSound, CommandsSound, Pending
  <2>5. Held' = Pending /\ Held = {}
    BY <1>1, <2>1 DEF Held, Pending
  <2>6. CommandsSound'
    BY <2>1, <2>2, <2>5 DEF CommandsSound, Pending
  <2> QED
    BY <2>3, <2>4, <2>6
<1>4. CASE CtlRun
  <2>1. PICK c \in ctl.todo :
          /\ ran' \in {ran, [ran EXCEPT ![c] = @ + 1]}
          /\ ctl' \in {[ctl EXCEPT !.pc = "finish", !.todo = @ \ {c}, !.c = c],
                       [ctl EXCEPT !.pc = "failed", !.todo = @ \ {c}, !.c = c]}
          /\ ctl'.pc = "finish" => ran' = [ran EXCEPT ![c] = @ + 1]
    BY <1>1, <1>4 DEF CtlRun, Controller
  <2>2. /\ ctl.pc = "batch" /\ c \in Commands /\ cmd[c] = "running" /\ ran[c] = 0
        /\ UNCHANGED <<cmd, page, disp, heard, inbox, orphans, faults>>
    BY <1>1, <1>4, <2>1 DEF CtlRun, ControlSound
  <2>3. /\ ctl' \in Controller /\ ctl'.pc \in {"finish", "failed"}
        /\ ctl'.todo = ctl.todo \ {c} /\ ctl'.c = c
    <3>1. ctl.todo \ {c} \in SUBSET Commands
      BY <1>1
    <3>2. CASE ctl' = [ctl EXCEPT !.pc = "finish", !.todo = @ \ {c}, !.c = c]
      BY <1>1, <2>2, <3>1, <3>2 DEF Controller
    <3>3. CASE ctl' = [ctl EXCEPT !.pc = "failed", !.todo = @ \ {c}, !.c = c]
      BY <1>1, <2>2, <3>1, <3>3 DEF Controller
    <3> QED
      BY <2>1, <3>2, <3>3
  <2>4. /\ ran' \in [Commands -> Nat] /\ ran'[c] \in {0, 1}
        /\ ctl'.pc = "finish" => ran'[c] = 1
        /\ \A d \in Commands : d # c => ran'[d] = ran[d]
    BY <2>1, <2>2 DEF TypeOK
  <2>5. TypeOK' /\ PagesSound' /\ SenderSound' /\ InboxSound'
    BY <2>2, <2>3, <2>4 DEF TypeOK, PagesSound, SenderSound, InboxSound
  <2>6. ControlSound'
    BY <1>1, <2>2, <2>3, <2>4 DEF ControlSound
  <2>7. Held' = Held
    BY <1>1, <2>1, <2>2, <2>3 DEF Held
  <2>8. CommandsSound'
    BY <2>2, <2>4, <2>7 DEF CommandsSound
  <2> QED
    BY <2>5, <2>6, <2>8
<1>5. ASSUME ctl.pc \in {"finish", "answer"}, NEW answer \in {"completed", "failed"},
             answer = "completed" => ran[ctl.c] = 1,
             answer = "failed" => page[ctl.c].state # "none",
             cmd' = [cmd EXCEPT ![ctl.c] = answer], NextCommand,
             UNCHANGED <<ran, page, disp, heard, inbox, orphans, faults>>
      PROVE  ChannelInv'
  <2>1. /\ ctl' \in Controller /\ ctl'.pc \in {"idle", "batch"} /\ ctl'.todo = ctl.todo
        /\ ctl'.c = Nobody /\ (ctl'.pc = "idle" => ctl.todo = {})
    BY <1>1, <1>5 DEF NextCommand, CtlIdle, Controller
  <2>2. /\ ctl.c \in Commands /\ cmd'[ctl.c] = answer
        /\ \A d \in Commands : d # ctl.c => cmd'[d] = cmd[d]
        /\ cmd' \in [Commands -> {"none", "pending", "running", "completed", "failed"}]
    BY <1>1, <1>5 DEF TypeOK
  <2>3. TypeOK' /\ PagesSound' /\ SenderSound' /\ InboxSound'
    BY <1>5, <2>1, <2>2 DEF TypeOK, PagesSound, SenderSound, InboxSound
  <2>4. ControlSound'
    BY <1>1, <1>5, <2>1, <2>2 DEF ControlSound
  <2>5. Held' = ctl.todo /\ Held = ctl.todo \union {ctl.c}
    BY <1>1, <2>1, <2>2 DEF Held
  <2>6. CommandsSound'
    BY <1>5, <2>2, <2>5 DEF CommandsSound
  <2> QED
    BY <2>3, <2>4, <2>6
<1>6. CASE CtlFinish
  <2>1. CASE cmd' = [cmd EXCEPT ![ctl.c] = "completed"] /\ NextCommand /\ UNCHANGED faults
    BY <1>5, <1>6, <2>1 DEF CtlFinish, ControlSound
  <2>2. CASE Fault /\ ctl' = [ctl EXCEPT !.pc = "failed"] /\ UNCHANGED cmd
    <3>1. /\ ctl' \in Controller /\ ctl'.pc = "failed" /\ ctl'.todo = ctl.todo
          /\ ctl'.c = ctl.c /\ faults' \in 0..MaxFaults /\ ctl.pc = "finish"
          /\ UNCHANGED <<cmd, ran, page, disp, heard, inbox, orphans>>
      BY <1>1, <1>6, <2>2, FaultCounted DEF CtlFinish, Controller, TypeOK
    <3>2. TypeOK' /\ PagesSound' /\ SenderSound' /\ InboxSound'
      BY <3>1 DEF TypeOK, PagesSound, SenderSound, InboxSound
    <3>3. ControlSound' /\ CommandsSound'
      BY <1>1, <3>1 DEF ControlSound, CommandsSound, Held
    <3> QED
      BY <3>2, <3>3
  <2> QED
    BY <1>6, <2>1, <2>2 DEF CtlFinish
<1>7. CASE CtlFailed
  <2>1. /\ ctl.pc = "failed" /\ ctl.c \in Commands /\ ctl.c \in Pages /\ page' = Raised(ctl.c)
        /\ UNCHANGED <<cmd, ran, disp, heard, inbox, orphans, faults>>
    BY <1>1, <1>7 DEF CtlFailed, Pages
  <2>2. /\ ctl' \in Controller /\ ctl'.pc = "answer" /\ ctl'.todo = ctl.todo /\ ctl'.c = ctl.c
    BY <1>1, <1>7 DEF CtlFailed, Controller
  <2>3. /\ page' \in [Pages -> Delivery] /\ \A p \in Pages : RowSound(page'[p], p \in heard)
        /\ \A p \in Pages : page[p].state # "none" => page'[p].state # "none"
        /\ page'[ctl.c].state # "none"
    BY <2>1, RaisedSound
  <2>4. TypeOK' /\ PagesSound' /\ SenderSound' /\ InboxSound'
    BY <2>1, <2>2, <2>3 DEF TypeOK, PagesSound, SenderSound, InboxSound
  <2>5. ControlSound'
    BY <1>1, <2>1, <2>2, <2>3 DEF ControlSound
  <2>6. CommandsSound'
    BY <2>1, <2>2, <2>3 DEF CommandsSound, Held, Pages
  <2> QED
    BY <2>4, <2>5, <2>6
<1>8. CASE CtlAnswer
  BY <1>5, <1>8 DEF CtlAnswer, ControlSound
<1> QED
  BY <1>2, <1>3, <1>4, <1>6, <1>7, <1>8

\* The runtime raises a page, a thread dies, the process is killed or replaced.
LEMMA ProcessKeeps ==
  ASSUME ChannelConstants, ChannelInv,
         (\E p \in Incidents : Raise(p)) \/ CtlDies \/ Killed \/ Replaced
  PROVE  ChannelInv'
<1> USE DEF ChannelInv
<1>1. ASSUME NEW p \in Incidents, Raise(p) PROVE ChannelInv'
  <2>1. /\ p \in Pages /\ page' = Raised(p)
        /\ UNCHANGED <<cmd, ran, ctl, disp, heard, inbox, orphans, faults>>
    BY <1>1 DEF Raise, Pages
  <2>2. /\ page' \in [Pages -> Delivery] /\ \A q \in Pages : RowSound(page'[q], q \in heard)
        /\ \A q \in Pages : page[q].state # "none" => page'[q].state # "none"
    BY <2>1, RaisedSound
  <2>3. TypeOK' /\ PagesSound' /\ SenderSound' /\ InboxSound'
    BY <2>1, <2>2 DEF TypeOK, PagesSound, SenderSound, InboxSound
  <2>4. ControlSound' /\ CommandsSound'
    BY <2>1, <2>2 DEF ControlSound, CommandsSound, Held, Pages
  <2> QED
    BY <2>3, <2>4
<1>2. Held \subseteq Commands
  BY DEF Held, TypeOK, Controller
<1>3. ASSUME ctl' \in Controller, ctl'.pc \in {"idle", "dead"}, ctl'.todo = {},
             ctl'.c = Nobody, orphans' = orphans \union Held,
             disp' \in Sender, SenderSound', faults' \in 0..MaxFaults,
             UNCHANGED <<cmd, ran, page, heard, inbox>>
      PROVE  ChannelInv'
  <2>1. TypeOK' /\ PagesSound' /\ InboxSound' /\ ControlSound'
    BY <1>2, <1>3 DEF TypeOK, PagesSound, InboxSound, ControlSound
  <2>2. CommandsSound'
    BY <1>3 DEF CommandsSound
  <2> QED
    BY <1>3, <2>1, <2>2
<1>4. CASE CtlDies
  <2>1. disp' = disp /\ SenderSound' /\ faults' \in 0..MaxFaults /\ disp \in Sender
    BY <1>4, FaultCounted DEF CtlDies, SenderSound, TypeOK
  <2>2. [CtlIdle EXCEPT !.pc = "dead"] \in Controller
    BY DEF CtlIdle, Controller
  <2> QED
    BY <1>3, <1>4, <2>1, <2>2 DEF CtlDies, CtlIdle
<1>5. CASE Killed \/ Replaced
  <2>1. Starts /\ faults' \in 0..MaxFaults /\ UNCHANGED <<cmd, ran, page, heard, inbox>>
    BY <1>5, FaultCounted DEF Killed, Replaced, TypeOK
  <2>2. CtlIdle \in Controller /\ DispIdle \in Sender
    BY DEF CtlIdle, DispIdle, Controller, Sender
  <2>3. SenderSound'
    BY <2>1 DEF Starts, DispIdle, SenderSound
  <2> QED
    BY <1>3, <2>1, <2>2, <2>3 DEF Starts, CtlIdle
<1> QED
  BY <1>1, <1>4, <1>5

\* The invariant is inductive.
THEOREM ChannelInvariant == Spec => []ChannelInv
<1> USE ChannelConstants
<1>1. Init => ChannelInv
  BY ChannelInit
<1>2. ChannelInv /\ [Next]_vars => ChannelInv'
  <2> SUFFICES ASSUME ChannelInv, [Next]_vars PROVE ChannelInv'
    OBVIOUS
  <2>1. CASE Next
    BY <2>1, DispatcherKeeps, ReceiptsKeep, CommandsKeep, ProcessKeeps
       DEF Next, Outside, Control
  <2>2. CASE UNCHANGED vars
    BY <2>2 DEF vars, ChannelInv, TypeOK, PagesSound, SenderSound, InboxSound, ControlSound,
       CommandsSound, Held
  <2> QED
    BY <2>1, <2>2
<1> QED
  BY <1>1, <1>2, PTL DEF Spec

-----------------------------------------------------------------------------
\* Every variable stays in its type; no page is tried more often than MaxAttempts.
THEOREM TypeCorrect == Spec => []TypeOK
BY ChannelInvariant, PTL DEF ChannelInv

\* A page the dispatcher has done with was taken by the webhook, or is a dead letter
\* after all its attempts.
THEOREM NoPageGoesQuiet == Spec => []QuietIsHeard
<1>1. ChannelInv => QuietIsHeard
  BY DEF ChannelInv, PagesSound, RowSound, QuietIsHeard
<1> QED
  BY <1>1, ChannelInvariant, PTL

\* A command takes effect once at most, whatever ends while it is at work.
THEOREM CommandsRunOnce == Spec => []RunsOnce
<1>1. ChannelInv => RunsOnce
  <2> SUFFICES ASSUME ChannelInv, NEW c \in Commands
               PROVE  ran[c] <= 1 /\ (ran[c] = 1 => cmd[c] \in {"running", "completed", "failed"})
    BY DEF RunsOnce
  <2> QED
    BY DEF ChannelInv, CommandsSound, TypeOK
<1> QED
  BY <1>1, ChannelInvariant, PTL

\* What the operator reads of a command is so: the page, the effect, the hands it is in.
THEOREM AnswersHold == Spec => []AnswersAreTrue
<1>1. ChannelInv => AnswersAreTrue
  BY DEF ChannelInv, CommandsSound, AnswersAreTrue
<1> QED
  BY <1>1, ChannelInvariant, PTL

\* An acknowledged page stays acknowledged.
THEOREM AcknowledgedStays == Spec => AckedStays
<1> USE ChannelConstants
<1>1. ASSUME ChannelInv, [Next]_vars, NEW p \in Pages, page[p].state = "acknowledged"
      PROVE  page'[p].state = "acknowledged"
  <2> USE <1>1 DEF ChannelInv
  <2>1. ASSUME NEW q \in Pages, page' = Raised(q) PROVE page'[p].state = "acknowledged"
    BY <2>1, RaisedSound
  <2>2. CASE DispRecord
    <3>1. /\ disp.p \in Pages /\ disp.accepted \in BOOLEAN
          /\ disp.accepted => disp.p \in heard
      BY <2>2 DEF DispRecord, SenderSound, TypeOK, Sender
    <3>2. page[disp.p] \in Delivery /\ RowSound(page[disp.p], disp.p \in heard)
      BY <3>1 DEF TypeOK, PagesSound
    <3>3. page[disp.p].state = "acknowledged" =>
            Attempted(page[disp.p], disp.accepted) = page[disp.p]
      BY <3>1, <3>2, AttemptedSound, Zenon
    <3> QED
      BY <2>2, <3>1, <3>3 DEF DispRecord, Record, TypeOK
  <2>3. ASSUME NEW f \in Receipts, CtlApply(f) PROVE page'[p].state = "acknowledged"
    <3>1. CASE page' = page
      BY <3>1
    <3>2. CASE page' # page
      <4>1. f[2] \in Pages /\ f[2] \in heard
        BY <2>3 DEF Receipts, Pages, CtlApply, InboxSound
      <4> DEFINE new == Received(page[f[2]], f[1])
      <4>2. page' = [page EXCEPT ![f[2]] = new] /\ Accepts(page[f[2]], f[1])
        BY <2>3, <3>2 DEF CtlApply
      <4>3. page[f[2]] \in Delivery /\ RowSound(page[f[2]], TRUE)
        BY <4>1 DEF TypeOK, PagesSound, RowSound
      <4>4. page[f[2]].state = "acknowledged" => new.state = "acknowledged"
        BY <4>2, <4>3, ReceivedSound
      <4> HIDE DEF new
      <4> QED
        BY <4>1, <4>2, <4>4 DEF TypeOK
    <3> QED
      BY <3>1, <3>2
  <2>4. CASE CtlRefuse
    BY <2>1, <2>4 DEF CtlRefuse, Pages
  <2>5. CASE CtlFailed
    <3>1. ctl.c \in Pages
      BY <2>5 DEF CtlFailed, ControlSound, Pages
    <3> QED
      BY <2>1, <2>5, <3>1 DEF CtlFailed
  <2>6. ASSUME NEW q \in Incidents, Raise(q) PROVE page'[p].state = "acknowledged"
    BY <2>1, <2>6 DEF Raise, Pages
  <2>7. CASE UNCHANGED page
    BY <2>7
  <2> QED
    BY <2>2, <2>3, <2>4, <2>5, <2>6, <2>7
       DEF vars, Next, Outside, Dispatcher, Control, DispRead, DispPost, DispRecordFails, Drop,
           Enqueue, CtlArchive, CtlClaim, CtlRun, CtlFinish, CtlAnswer, CtlDies, Killed, Replaced
<1>2. ChannelInv /\ [Next]_vars =>
        [\A p \in Pages : page[p].state = "acknowledged" => page'[p].state = "acknowledged"]_vars
  BY <1>1
<1> QED
  BY <1>2, ChannelInvariant, PTL DEF Spec, AckedStays

=============================================================================
