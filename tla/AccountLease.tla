---------------------------- MODULE AccountLease ----------------------------
(***************************************************************************)
(* The lease that lets one runtime at a time write to an exchange account: *)
(* SignedAccountLeaseClient and AccountLeaseStore in                       *)
(* okx_quant/ops/account_lease.py, the guard the runtime installs in front *)
(* of every socket write, and the writes on their way to the exchange.     *)
(*                                                                         *)
(* `now` is the broker's clock. A runtime reads its own, which may be off  *)
(* by MaxSkew either way at each reading. The broker reads its clock when  *)
(* a request comes in and commits up to MaxStall later, requests in any    *)
(* order. A holder id belongs to one process and is never used again; a    *)
(* fresh lease_id always comes with a fresh fencing token, so that the     *)
(* token stands for both. Signatures are left out.                         *)
(***************************************************************************)
EXTENDS Integers, FiniteSets

CONSTANTS
  Holders,      \* runtime processes
  NoHolder,     \* nobody: an account without a row
  TTL,          \* ttl_s
  Margin,       \* safety_margin_s
  MaxSkew,      \* how far off a runtime's clock may be
  MaxStall,     \* how long a request waits for the broker's database
  MaxFlight,    \* how long a write takes to the exchange
  MaxRequests,  \* bound: requests not yet served or lost
  MaxTime       \* bound on now

\* The constructor wants a TTL of 15 to 60 seconds; the margin is 5.
ASSUME LeaseConstants ==
  /\ NoHolder \notin Holders
  /\ TTL \in Nat /\ Margin \in Nat /\ TTL > Margin
  /\ MaxSkew \in Nat /\ MaxStall \in Nat /\ MaxFlight \in Nat
  /\ MaxRequests \in Nat /\ MaxTime \in Nat

\* Nothing in the code relates the margin to the skew of a clock, the wait for the
\* broker's database and the time limit of a write. What the margin does not cover
\* of the first two: so long may a runtime go by a lease that has ended.
Overlap == MaxSkew + MaxStall - Margin

VARIABLES
  now,
  row,       \* account_writer_leases: holder, token, expires
  past,      \* history: the leases that another one replaced, and when they ended
  released,  \* history: tokens that were given back
  client,    \* of each process: how far it is, what its renewals wait for, its claims
  reqs,      \* requests the broker has not served
  grants,    \* answers under way
  flights    \* writes under way to the exchange

vars == <<now, row, past, released, client, reqs, grants, flights>>

NoClaims == [token |-> 0, expires |-> 0]

-----------------------------------------------------------------------------
(* A runtime: start(), the renewing thread, and stop(), which does not wait *)
(* for a renewal that takes longer than the two seconds of its join.        *)

\* Of a release no answer is awaited: stop() goes on whatever it is.
Ask(h, kind) ==
  /\ Cardinality(reqs) < MaxRequests
  /\ reqs' = reqs \union {[h |-> h, kind |-> kind, token |-> client[h].claims.token,
                           heard |-> kind # "release"]}

\* Nobody waits any more for an answer to what h has asked.
Unheard(h) ==
  /\ reqs' = {IF r.h = h THEN [r EXCEPT !.heard = FALSE] ELSE r : r \in reqs}
  /\ grants' = {g \in grants : g.h # h}

Start(h) ==
  /\ client[h].pc = "off" /\ ~client[h].waits /\ Ask(h, "acquire")
  /\ client' = [client EXCEPT ![h].waits = TRUE]
  /\ UNCHANGED <<now, row, past, released, grants, flights>>

\* That the thread sleeps a third of the TTL is left out.
Renew(h) ==
  /\ client[h].pc = "running" /\ ~client[h].waits /\ client[h].claims.token # 0
  /\ Ask(h, "renew") /\ client' = [client EXCEPT ![h].waits = TRUE]
  /\ UNCHANGED <<now, row, past, released, grants, flights>>

\* validate_lease_claims: a grant that has expired on the way is refused.
Timely(g) == now - MaxSkew <= g.expires

\* The answer to an acquire or a renewal becomes the claims, stopped or not.
Granted(h) ==
  /\ client[h].waits
  /\ \E g \in grants :
       /\ g.h = h /\ Timely(g) /\ grants' = grants \ {g}
       /\ client' = [client EXCEPT ![h] =
                       [pc |-> IF client[h].pc = "off" THEN "running" ELSE client[h].pc,
                        waits |-> FALSE, claims |-> [token |-> g.token, expires |-> g.expires]]]
  /\ UNCHANGED <<now, row, past, released, reqs, flights>>

\* A timeout, a conflict, an answer refused; what was asked may still be done.
Failed(h) ==
  /\ client[h].waits /\ Unheard(h)
  /\ client' = [client EXCEPT ![h] =
                  [pc |-> IF client[h].pc = "off" THEN "stopped" ELSE client[h].pc,
                   waits |-> FALSE, claims |-> client[h].claims]]
  /\ UNCHANGED <<now, row, past, released, flights>>

Release(h) ==
  /\ client[h].pc = "running" /\ client[h].claims.token # 0 /\ Ask(h, "release")
  /\ client' = [client EXCEPT ![h].pc = "stopping"]
  /\ UNCHANGED <<now, row, past, released, grants, flights>>

\* stop() drops the claims whatever became of the request.
Stopped(h) ==
  /\ client[h].pc = "stopping"
  /\ client' = [client EXCEPT ![h] = [@ EXCEPT !.pc = "stopped", !.claims = NoClaims]]
  /\ UNCHANGED <<now, row, past, released, reqs, grants, flights>>

\* The process is killed. Killed later, it looks like one that has stopped.
Dies(h) ==
  /\ client[h].pc = "running" /\ Unheard(h)
  /\ client' = [client EXCEPT ![h] = [pc |-> "stopped", waits |-> FALSE, claims |-> NoClaims]]
  /\ UNCHANGED <<now, row, past, released, flights>>

-----------------------------------------------------------------------------
(* valid(), read at the earliest time the runtime's clock may show, and    *)
(* the writes it guards.                                                   *)

\* Mutant: the lease is used up to its last second.
Valid_NoMargin(h) ==
  client[h].claims.token # 0 /\ now - MaxSkew < client[h].claims.expires

Valid(h) ==
  client[h].claims.token # 0 /\ now - MaxSkew + Margin < client[h].claims.expires

Send(h) ==
  /\ flights' = flights \union {[token |-> client[h].claims.token, at |-> now]}
  /\ UNCHANGED <<now, row, past, released, client, reqs, grants>>

Alone(h) == \A f \in flights : f.token # client[h].claims.token

\* A trading write passes the guard at the socket, also while the runtime is
\* HALTED, and in a thread that stop() does not join. Bound: one at a time.
Write(h) == client[h].pc # "off" /\ Valid(h) /\ Alone(h) /\ Send(h)

\* The exchange executes a write; it knows nothing of leases.
Land ==
  \E f \in flights :
    /\ flights' = flights \ {f}
    /\ UNCHANGED <<now, row, past, released, client, reqs, grants>>

-----------------------------------------------------------------------------
(* The broker. do_POST reads the clock before the store opens its          *)
(* transaction: a stamp is up to MaxStall old when it is written. That it  *)
(* is no older than its request is left out.                               *)

Lose ==
  \E r \in reqs :
    /\ reqs' = reqs \ {r}
    /\ UNCHANGED <<now, row, past, released, client, grants, flights>>

Take(r, token, stamp) ==
  /\ row' = [holder |-> r.h, token |-> token, expires |-> stamp + TTL]
  /\ grants' = IF r.heard
                THEN grants \union {[h |-> r.h, token |-> token, expires |-> stamp + TTL]}
                ELSE grants
  /\ past' = IF token = row.token THEN past
             ELSE past \union {[row EXCEPT !.expires = IF stamp < @ THEN stamp ELSE @]}
  /\ UNCHANGED released

Conflict == UNCHANGED <<row, past, released, grants>>

\* AccountLeaseStore.acquire.
Acquire(r, stamp) ==
  IF row.expires > stamp
  THEN IF row.holder = r.h THEN Take(r, row.token, stamp) ELSE Conflict
  ELSE Take(r, row.token + 1, stamp)

Holds(r) == row.holder = r.h /\ row.token = r.token

\* Mutant: a renewal asks if the lease has expired, not whose it is.
RenewRow_Anyone(r, stamp) ==
  IF row.expires > stamp THEN Take(r, r.token, stamp) ELSE Conflict

\* AccountLeaseStore.renew.
RenewRow(r, stamp) ==
  IF Holds(r) /\ row.expires > stamp THEN Take(r, row.token, stamp) ELSE Conflict

\* Mutant: a released lease ends a second before it was released.
ReleaseRow_Early(r, stamp) ==
  IF Holds(r)
  THEN /\ row' = [row EXCEPT !.expires = stamp - 1]
       /\ released' = released \union {r.token} /\ UNCHANGED <<past, grants>>
  ELSE Conflict

\* AccountLeaseStore.release.
ReleaseRow(r, stamp) ==
  IF Holds(r)
  THEN /\ row' = [row EXCEPT !.expires = stamp]
       /\ released' = released \union {r.token} /\ UNCHANGED <<past, grants>>
  ELSE Conflict

Commit ==
  \E r \in reqs, stamp \in (now - MaxStall)..now :
    /\ stamp >= 0 /\ reqs' = reqs \ {r}
    /\ \/ r.kind = "acquire" /\ Acquire(r, stamp)
       \/ r.kind = "renew" /\ RenewRow(r, stamp)
       \/ r.kind = "release" /\ ReleaseRow(r, stamp)
    /\ UNCHANGED <<now, client, flights>>

\* Time passes; a write that has not arrived in time never does.
Tick ==
  /\ now < MaxTime /\ now' = now + 1
  /\ flights' = {f \in flights : now' - f.at <= MaxFlight}
  /\ UNCHANGED <<row, past, released, client, reqs, grants>>

-----------------------------------------------------------------------------
Init ==
  /\ now = 0
  /\ row = [holder |-> NoHolder, token |-> 0, expires |-> 0]
  /\ past = {} /\ released = {} /\ reqs = {} /\ grants = {} /\ flights = {}
  /\ client = [h \in Holders |-> [pc |-> "off", waits |-> FALSE, claims |-> NoClaims]]

Client(h) ==
  \/ Start(h) \/ Renew(h) \/ Granted(h) \/ Failed(h)
  \/ Release(h) \/ Stopped(h) \/ Dies(h) \/ Write(h)

Next == (\E h \in Holders : Client(h)) \/ Lose \/ Commit \/ Land \/ Tick

Spec == Init /\ [][Next]_vars

-----------------------------------------------------------------------------
Runtime ==
  [pc : {"off", "running", "stopping", "stopped"}, waits : BOOLEAN,
   claims : [token : Nat, expires : Nat]]

Lease == [holder : Holders \union {NoHolder}, token : Nat, expires : Nat]

Request ==
  [h : Holders, kind : {"acquire", "renew", "release"}, token : Nat, heard : BOOLEAN]

\* Every variable stays in its type; no expiry lies before time began.
TypeOK ==
  /\ now \in Nat /\ released \in SUBSET Nat
  /\ row \in Lease /\ past \in SUBSET Lease
  /\ client \in [Holders -> Runtime]
  /\ reqs \in SUBSET Request
  /\ grants \in SUBSET [h : Holders, token : Nat, expires : Nat]
  /\ flights \in SUBSET [token : Nat, at : Nat]

Given(h) == client[h].claims.token \in released

Leases == past \union {row}

\* A runtime goes by a lease that it has not given back for less than Overlap after
\* the lease has ended at the broker: until then, and with no Overlap always, the
\* row is its own, whatever answers were late and whatever order the broker served
\* its requests in. (valid(), AccountLeaseStore, account_lease.py)
ValidIsHeld ==
  \A h \in Holders : Valid(h) /\ ~Given(h) =>
    \E l \in Leases : /\ l.holder = h /\ l.token = client[h].claims.token
                      /\ now < l.expires + Overlap

\* Two runtimes are allowed to write at the same time only while the lease of one of
\* them has ended by less than Overlap, or if one was given back and does not know it.
OneWriter ==
  \A g, h \in Holders : Valid(g) /\ Valid(h) /\ g # h =>
    \/ Given(g) \/ Given(h)
    \/ \E l \in past : /\ l.holder \in {g, h} /\ l.token = client[l.holder].claims.token
                       /\ l.expires <= now /\ now < l.expires + Overlap

\* Once Overlap and a flight have gone by since a lease ended, none of its writes is
\* under way any more, unless it was given back with one: from then on whoever has
\* the row is alone at the exchange. (The guard at the socket; the window that
\* docs/DEMO_OPERATIONS_RUNBOOK.md:49 tells an operator to wait for.)
WritesStop ==
  \A f \in flights : f.token \notin released =>
    \E l \in Leases : l.token = f.token /\ now < l.expires + Overlap + MaxFlight

=============================================================================
