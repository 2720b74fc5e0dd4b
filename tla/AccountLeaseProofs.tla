------------------------- MODULE AccountLeaseProofs -------------------------
(***************************************************************************)
(* Proofs about AccountLease, for any processes, times and bounds. Nothing *)
(* is assumed of the margin but that a TTL is longer: the theorems say for *)
(* how long a lease may outlive its end, not that it does not.             *)
(***************************************************************************)
EXTENDS AccountLease, TLAPS

\* What has been replaced has ended, and its token is not used again.
PastOver == \A l \in past : l.token < row.token /\ l.expires <= now

\* A claim of holder h on token t until e has come back, or the broker gave that
\* lease to h until then (a later renewal may have been stamped earlier, by MaxStall).
Backed(h, t, e) ==
  t \in released \/ \E l \in Leases : l.holder = h /\ l.token = t /\ e - MaxStall <= l.expires

\* Token 0 is no claim.
Sound(h, t, e) == (t # 0 => Backed(h, t, e)) /\ e <= now + TTL

ClaimsSound ==
  \A h \in Holders : Sound(h, client[h].claims.token, client[h].claims.expires)

GrantsSound == \A g \in grants : Sound(g.h, g.token, g.expires)

\* A write under way has time left, and was sent before its lease had ended too long.
FlightsSound ==
  \A f \in flights :
    /\ f.at <= now /\ now <= f.at + MaxFlight
    /\ f.token \in released \/ \E l \in Leases : l.token = f.token /\ f.at < l.expires + Overlap

LeaseInv == TypeOK /\ PastOver /\ ClaimsSound /\ GrantsSound /\ FlightsSound

-----------------------------------------------------------------------------
LEMMA AskType ==
  ASSUME TypeOK, NEW h \in Holders, NEW kind \in {"acquire", "renew", "release"}, Ask(h, kind)
  PROVE  reqs' \in SUBSET Request
<1> DEFINE r == [h |-> h, kind |-> kind, token |-> client[h].claims.token,
                 heard |-> kind # "release"]
<1>1. (kind # "release") \in BOOLEAN BY Zenon
<1>2. client[h].claims.token \in Nat BY DEF TypeOK, Runtime
<1>3. r \in Request BY <1>1, <1>2, Zenon DEF Request
<1>4. reqs' = reqs \union {r} BY Zenon DEF Ask
<1> HIDE DEF r
<1> QED BY <1>3, <1>4 DEF TypeOK

LEMMA UnheardType ==
  ASSUME TypeOK, NEW h \in Holders, Unheard(h)
  PROVE  reqs' \in SUBSET Request /\ grants' \subseteq grants
<1>1. ASSUME NEW r \in Request PROVE [r EXCEPT !.heard = FALSE] \in Request BY DEF Request
<1> QED BY <1>1 DEF TypeOK, Unheard

\* Every step of a runtime or the broker keeps the types.
LEMMA TypeKept == TypeOK /\ [Next]_vars => TypeOK'
<1> SUFFICES ASSUME TypeOK, [Next]_vars PROVE TypeOK' OBVIOUS
<1> USE LeaseConstants DEF TypeOK, Runtime, Lease, Request, NoClaims
<1>1. ASSUME NEW h \in Holders, Client(h) PROVE TypeOK'
  <2>1. CASE Start(h)
    BY <2>1, AskType DEF Start
  <2>2. CASE Renew(h)
    BY <2>2, AskType DEF Renew
  <2>3. CASE Granted(h)
    <3>1. PICK g \in grants : client' = [client EXCEPT ![h] =
                       [pc |-> IF client[h].pc = "off" THEN "running" ELSE client[h].pc,
                        waits |-> FALSE, claims |-> [token |-> g.token, expires |-> g.expires]]]
      BY <2>3, Zenon DEF Granted
    <3>2. client' \in [Holders -> Runtime] BY <3>1
    <3> QED BY <2>3, <3>2 DEF Granted
  <2>4. CASE Failed(h)
    <3>1. client' = [client EXCEPT ![h] =
                  [pc |-> IF client[h].pc = "off" THEN "stopped" ELSE client[h].pc,
                   waits |-> FALSE, claims |-> client[h].claims]]
      BY <2>4, Zenon DEF Failed
    <3>2. client' \in [Holders -> Runtime] BY <3>1
    <3> QED BY <2>4, <3>2, UnheardType DEF Failed
  <2>5. CASE Release(h)
    BY <2>5, AskType DEF Release
  <2>6. CASE Stopped(h)
    <3>1. client' = [client EXCEPT ![h] = [client[h] EXCEPT !.pc = "stopped", !.claims = NoClaims]]
      BY <2>6 DEF Stopped
    <3>2. client' \in [Holders -> Runtime] BY <3>1
    <3> QED BY <2>6, <3>2 DEF Stopped
  <2>7. CASE Dies(h)
    BY <2>7, UnheardType DEF Dies
  <2>8. CASE Write(h) BY <2>8 DEF Write, Send
  <2> QED BY <1>1, <2>1, <2>2, <2>3, <2>4, <2>5, <2>6, <2>7, <2>8 DEF Client
<1>2. CASE Lose BY <1>2 DEF Lose
<1>3. CASE Commit
  <2>1. PICK r \in reqs, stamp \in (now - MaxStall)..now :
          /\ stamp >= 0 /\ reqs' = reqs \ {r}
          /\ \/ Acquire(r, stamp) \/ RenewRow(r, stamp) \/ ReleaseRow(r, stamp)
          /\ UNCHANGED <<now, client, flights>>
    BY <1>3 DEF Commit
  <2>2. stamp \in Nat /\ stamp + TTL \in Nat /\ row.token + 1 \in Nat BY <2>1
  <2>3. ASSUME NEW t \in Nat, Take(r, t, stamp) PROVE TypeOK'
    BY <2>1, <2>2, <2>3 DEF Take
  <2>4. CASE Conflict BY <2>1, <2>4 DEF Conflict
  <2>5. CASE Acquire(r, stamp) BY <2>2, <2>3, <2>4, <2>5 DEF Acquire
  <2>6. CASE RenewRow(r, stamp) BY <2>2, <2>3, <2>4, <2>6 DEF RenewRow
  <2>7. CASE ReleaseRow(r, stamp)
    <3>1. CASE Holds(r) BY <2>1, <2>2, <2>7, <3>1 DEF ReleaseRow
    <3> QED BY <2>4, <2>7, <3>1 DEF ReleaseRow
  <2> QED BY <2>1, <2>5, <2>6, <2>7
<1>4. CASE Land BY <1>4 DEF Land
<1>5. CASE Tick BY <1>5 DEF Tick
<1>6. CASE UNCHANGED vars BY <1>6 DEF vars
<1> QED BY <1>1, <1>2, <1>3, <1>4, <1>5, <1>6 DEF Next

\* The leases of the store, the claims of the clients and the writes keep their
\* types, for every set of processes and every bound. (TypeOK, AccountLease)
THEOREM TypeCorrect == Spec => []TypeOK
<1>1. Init => TypeOK BY LeaseConstants DEF Init, TypeOK, Runtime, Lease, NoClaims
<1> QED BY <1>1, TypeKept, PTL DEF Spec

-----------------------------------------------------------------------------
\* What the broker, stamping s, does to its row: nothing, a renewal, a release, or,
\* once the lease ran out, a fresh one.
RowStep(s) ==
  /\ released \subseteq released'
  /\ \/ UNCHANGED <<row, past>>
     \/ /\ UNCHANGED past /\ row'.holder = row.holder /\ row'.token = row.token
        /\ row'.expires = s + TTL \/ row.token \in released'
     \/ past' = past \union {row} /\ row.expires <= s /\ row'.token = row.token + 1

\* It takes no claim's backing away, and no write's.
LEMMA RowMoves ==
  ASSUME TypeOK, TypeOK', PastOver, UNCHANGED now,
         NEW s \in Nat, now - MaxStall <= s, s <= now, RowStep(s)
  PROVE  /\ PastOver'
         /\ \A h, t : \A e \in Nat : Sound(h, t, e) => Sound(h, t, e)'
         /\ FlightsSound /\ UNCHANGED flights => FlightsSound'
<1> USE LeaseConstants DEF TypeOK, Lease, RowStep
<1>1. PastOver'
  BY DEF PastOver
<1>2. ASSUME NEW l \in Leases, l.token \notin released'
      PROVE  \E m \in Leases' : /\ m.holder = l.holder /\ m.token = l.token
                                /\ l.expires <= m.expires \/ m.expires = s + TTL
  <2>1. CASE UNCHANGED <<row, past>> \/ past' = past \union {row}
    BY <2>1 DEF Leases
  <2>2. CASE UNCHANGED past /\ row'.holder = row.holder /\ row'.token = row.token
             /\ (row'.expires = s + TTL \/ row.token \in released')
    BY <1>2, <2>2 DEF Leases
  <2> QED
    BY <2>1, <2>2
<1>3. /\ \A l \in Leases : l.expires \in Nat
      /\ \A l \in Leases' : l.expires \in Nat
  BY DEF Leases
<1>4. ASSUME NEW h, NEW t, NEW e \in Nat, Sound(h, t, e)
      PROVE  Sound(h, t, e)'
  <2>1. ASSUME t # 0, t \notin released'
        PROVE  \E m \in Leases' : m.holder = h /\ m.token = t /\ e - MaxStall <= m.expires
    <3>1. PICK l \in Leases : l.holder = h /\ l.token = t /\ e - MaxStall <= l.expires
      BY <1>4, <2>1 DEF Sound, Backed
    <3>2. PICK m \in Leases' : /\ m.holder = h /\ m.token = t
                               /\ l.expires <= m.expires \/ m.expires = s + TTL
      BY <1>2, <2>1, <3>1
    <3> QED
      BY <1>3, <1>4, <3>1, <3>2 DEF Sound
  <2> QED
    BY <1>4, <2>1 DEF Sound, Backed
<1>5. ASSUME FlightsSound, UNCHANGED flights
      PROVE  FlightsSound'
  <2> SUFFICES ASSUME NEW f \in flights, f.token \notin released'
               PROVE  \E m \in Leases' : m.token = f.token /\ f.at < m.expires + Overlap
    BY <1>5 DEF FlightsSound
  <2>1. PICK l \in Leases : l.token = f.token /\ f.at < l.expires + Overlap
    BY <1>5 DEF FlightsSound
  <2>2. PICK m \in Leases' : /\ m.token = f.token
                             /\ l.expires <= m.expires \/ m.expires = s + TTL
    BY <1>2, <2>1
  <2>3. f.at \in Nat /\ f.at <= now
    BY <1>5 DEF FlightsSound
  <2> QED
    BY <1>3, <2>1, <2>2, <2>3 DEF Overlap
<1> QED
  BY <1>1, <1>4, <1>5

\* What valid() accepts was given back, or has ended less than Overlap ago.
LEMMA ClaimOutlived ==
  ASSUME TypeOK, ClaimsSound, NEW h \in Holders, Valid(h), client[h].claims.token \notin released
  PROVE  \E l \in Leases : /\ l.holder = h /\ l.token = client[h].claims.token
                           /\ now < l.expires + Overlap
<1> DEFINE c == client[h].claims
<1>1. c.token \in Nat /\ c.expires \in Nat /\ now \in Nat /\ \A l \in Leases : l.expires \in Nat
  BY DEF TypeOK, Runtime, Lease, Leases
<1>2. c.token # 0 /\ now - MaxSkew + Margin < c.expires
  BY DEF Valid
<1>3. PICK l \in Leases : l.holder = h /\ l.token = c.token /\ c.expires - MaxStall <= l.expires
  BY <1>2 DEF ClaimsSound, Sound, Backed
<1> QED
  BY <1>1, <1>2, <1>3, LeaseConstants DEF Overlap

\* LeaseInv is inductive: one step per action.
LEMMA LeaseInvKept == LeaseInv /\ [Next]_vars => LeaseInv'
<1> SUFFICES ASSUME LeaseInv, [Next]_vars PROVE LeaseInv' OBVIOUS
<1>1. TypeOK /\ TypeOK' /\ PastOver /\ ClaimsSound /\ GrantsSound /\ FlightsSound
  BY TypeKept DEF LeaseInv
<1> DEFINE Rest == PastOver' /\ ClaimsSound' /\ GrantsSound' /\ FlightsSound'
<1> SUFFICES Rest BY <1>1 DEF LeaseInv
<1> USE <1>1
<1>2. ASSUME UNCHANGED <<now, row, past, released>>
      PROVE  PastOver' /\ \A h, t, e : Sound(h, t, e) <=> Sound(h, t, e)'
  BY <1>2 DEF PastOver, Sound, Backed, Leases
<1>3. ASSUME UNCHANGED <<now, row, past, released, client, grants, flights>> PROVE Rest
  BY <1>2, <1>3 DEF ClaimsSound, GrantsSound, FlightsSound, Leases
<1>4. ASSUME NEW h \in Holders, Client(h) PROVE Rest
  <2>1. ASSUME UNCHANGED <<now, row, past, released, flights>>, grants' \subseteq grants,
               \A k \in Holders : \/ client'[k].claims = client[k].claims
                                  \/ client'[k].claims = NoClaims
                                  \/ \E g \in grants : /\ g.h = k
                                       /\ client'[k].claims = [token |-> g.token,
                                                               expires |-> g.expires]
        PROVE Rest
    <3>1. ASSUME NEW k \in Holders
          PROVE  Sound(k, client'[k].claims.token, client'[k].claims.expires)
      <4>1. CASE client'[k].claims = client[k].claims BY <4>1 DEF ClaimsSound
      <4>2. CASE client'[k].claims = NoClaims
        BY <4>2, LeaseConstants DEF NoClaims, Sound, TypeOK, Runtime
      <4>3. ASSUME NEW g \in grants, g.h = k,
                   client'[k].claims = [token |-> g.token, expires |-> g.expires]
            PROVE  Sound(k, client'[k].claims.token, client'[k].claims.expires)
        BY <4>3 DEF GrantsSound
      <4> QED BY <2>1, <4>1, <4>2, <4>3
    <3>2. PastOver' /\ ClaimsSound' /\ GrantsSound'
      BY <1>2, <2>1, <3>1 DEF ClaimsSound, GrantsSound
    <3> QED BY <2>1, <3>2 DEF FlightsSound, Leases
  <2>2. CASE Start(h) BY <2>1, <2>2 DEF Start, TypeOK, Runtime
  <2>3. CASE Renew(h) BY <2>1, <2>3 DEF Renew, TypeOK, Runtime
  <2>4. CASE Granted(h) BY <2>1, <2>4 DEF Granted, TypeOK, Runtime
  <2>5. CASE Failed(h) BY <2>1, <2>5 DEF Failed, Unheard, TypeOK, Runtime
  <2>6. CASE Release(h) BY <2>1, <2>6 DEF Release, TypeOK, Runtime
  <2>7. CASE Stopped(h) BY <2>1, <2>7 DEF Stopped, TypeOK, Runtime
  <2>8. CASE Dies(h) BY <2>1, <2>8 DEF Dies, Unheard, TypeOK, Runtime
  <2>9. CASE Write(h)
    <3>1. Valid(h) /\ flights' = flights \union {[token |-> client[h].claims.token, at |-> now]}
          /\ UNCHANGED <<now, row, past, released, client, grants>>
      BY <2>9 DEF Write, Send
    <3>2. \/ client[h].claims.token \in released
          \/ \E l \in Leases : l.token = client[h].claims.token /\ now < l.expires + Overlap
      BY <3>1, ClaimOutlived
    <3>3. FlightsSound' BY <3>1, <3>2, LeaseConstants DEF FlightsSound, Leases, TypeOK
    <3> QED BY <1>2, <3>1, <3>3 DEF ClaimsSound, GrantsSound
  <2> QED BY <1>4, <2>2, <2>3, <2>4, <2>5, <2>6, <2>7, <2>8, <2>9 DEF Client
<1>5. CASE Lose BY <1>3, <1>5 DEF Lose
<1>6. CASE Commit
  <2>1. PICK r \in reqs, s \in (now - MaxStall)..now :
          /\ s >= 0
          /\ \/ Acquire(r, s) \/ RenewRow(r, s) \/ ReleaseRow(r, s)
          /\ UNCHANGED <<now, client, flights>>
    BY <1>6 DEF Commit
  <2>2. s \in Nat /\ now - MaxStall <= s /\ s <= now
    BY <2>1, LeaseConstants DEF TypeOK
  <2> DEFINE New(g) == row' = [holder |-> g.h, token |-> g.token, expires |-> g.expires]
                       /\ g.expires = s + TTL
  <2>3. RowStep(s) /\ \A g \in grants' : g \in grants \/ New(g)
    <3>1. CASE Conflict BY <3>1 DEF Conflict, RowStep
    <3>2. ASSUME NEW t, Take(r, t, s)
          PROVE  /\ UNCHANGED released
                 /\ row' = [holder |-> r.h, token |-> t, expires |-> s + TTL]
                 /\ past' = IF t = row.token THEN past
                            ELSE past \union {[row EXCEPT !.expires = IF s < row.expires THEN s ELSE row.expires]}
                 /\ \A g \in grants' : g \in grants \/ New(g)
      BY <3>2 DEF Take
    <3>3. CASE Acquire(r, s)
      <4>1. CASE row.expires > s
        <5>1. CASE row.holder = r.h /\ Take(r, row.token, s)
          BY <3>2, <5>1 DEF RowStep
        <5> QED BY <3>1, <3>3, <4>1, <5>1 DEF Acquire
      <4>2. CASE ~(row.expires > s)
        <5>1. Take(r, row.token + 1, s)
          BY <3>3, <4>2 DEF Acquire
        <5>2. row = [row EXCEPT !.expires = IF s < row.expires THEN s ELSE row.expires]
              /\ row.token + 1 # row.token /\ row.expires <= s
          BY <2>2, <4>2 DEF TypeOK, Lease
        <5>3. past' = past \union {row} /\ row'.token = row.token + 1
          BY <3>2, <5>1, <5>2
        <5> QED BY <3>2, <5>1, <5>2, <5>3 DEF RowStep
      <4> QED BY <4>1, <4>2
    <3>4. CASE RenewRow(r, s)
      <4>1. CASE Holds(r) /\ Take(r, row.token, s)
        BY <3>2, <4>1 DEF RowStep, Holds
      <4> QED BY <3>1, <3>4, <4>1 DEF RenewRow
    <3>5. CASE ReleaseRow(r, s)
      <4>1. CASE Holds(r)
        BY <3>5, <4>1 DEF ReleaseRow, Holds, RowStep, TypeOK, Lease
      <4> QED BY <3>1, <3>5, <4>1 DEF ReleaseRow
    <3> QED BY <2>1, <3>3, <3>4, <3>5
  <2>4. /\ PastOver' /\ FlightsSound'
        /\ \A h, t : \A e \in Nat : Sound(h, t, e) => Sound(h, t, e)'
    BY <2>1, <2>2, <2>3, RowMoves
  <2>5. ClaimsSound' BY <2>1, <2>4 DEF ClaimsSound, TypeOK, Runtime
  <2>6. GrantsSound'
    <3> SUFFICES ASSUME NEW g \in grants' PROVE Sound(g.h, g.token, g.expires)'
      BY DEF GrantsSound
    <3>1. CASE g \in grants BY <2>4, <3>1 DEF GrantsSound, TypeOK
    <3>2. CASE New(g)
      <4>1. row'.holder = g.h /\ row'.token = g.token /\ row'.expires = g.expires /\ row' \in Leases'
        BY <3>2 DEF Leases
      <4>2. g.expires \in Nat /\ g.expires - MaxStall <= row'.expires /\ g.expires <= now' + TTL
        BY <2>1, <2>2, <3>2, <4>1, LeaseConstants DEF TypeOK
      <4> QED BY <4>1, <4>2 DEF Sound, Backed
    <3> QED BY <2>3, <3>1, <3>2
  <2> QED BY <2>4, <2>5, <2>6
<1>7. CASE Land
  <2>1. PICK f \in flights : flights' = flights \ {f} /\ UNCHANGED <<now, row, past, released, client, grants>>
    BY <1>7 DEF Land
  <2> QED BY <1>2, <2>1 DEF ClaimsSound, GrantsSound, FlightsSound, Leases
<1>8. CASE Tick
  <2>1. /\ now' = now + 1 /\ flights' = {f \in flights : now' - f.at <= MaxFlight}
        /\ UNCHANGED <<row, past, released, client, grants>>
    BY <1>8 DEF Tick
  <2>2. \A h, t : \A e \in Nat : Sound(h, t, e) => Sound(h, t, e)'
    BY <2>1, LeaseConstants DEF Sound, Backed, Leases, TypeOK
  <2>3. PastOver' BY <2>1 DEF PastOver, TypeOK, Lease
  <2>4. ClaimsSound' BY <2>1, <2>2 DEF ClaimsSound, TypeOK, Runtime
  <2>5. GrantsSound' BY <2>1, <2>2 DEF GrantsSound, TypeOK
  <2>6. FlightsSound' BY <2>1, LeaseConstants DEF FlightsSound, Leases, TypeOK
  <2> QED BY <2>3, <2>4, <2>5, <2>6
<1>9. CASE UNCHANGED vars BY <1>3, <1>9 DEF vars
<1> QED BY <1>4, <1>5, <1>6, <1>7, <1>8, <1>9 DEF Next

\* The claims, the grants under way and the writes under way all stem from a lease of
\* the broker that runs, or ended as long ago as their time stamps allow, or was given back.
THEOREM LeaseInvariant == Spec => []LeaseInv
<1>1. Init => LeaseInv
  <2> SUFFICES ASSUME Init PROVE LeaseInv OBVIOUS
  <2>1. TypeOK BY LeaseConstants DEF Init, TypeOK, Runtime, Lease, NoClaims
  <2>2. ClaimsSound
    BY LeaseConstants DEF Init, ClaimsSound, Sound, NoClaims
  <2> QED BY <2>1, <2>2 DEF Init, LeaseInv, PastOver, GrantsSound, FlightsSound
<1> QED BY <1>1, LeaseInvKept, PTL DEF Spec

-----------------------------------------------------------------------------
\* A runtime calls a lease valid only until Overlap after its end, whatever the margin
\* is: what skew and stalls take of it is all that is lost.
THEOREM LeaseHeld == Spec => []ValidIsHeld
<1>1. LeaseInv => ValidIsHeld
  BY ClaimOutlived DEF LeaseInv, ValidIsHeld, Given
<1> QED BY <1>1, LeaseInvariant, PTL

\* Two runtimes pass the guard at the socket together only within Overlap of the end
\* of one of their leases, or after one was given back.
THEOREM AtMostOneWriter == Spec => []OneWriter
<1>1. PastOver /\ ValidIsHeld => OneWriter
  <2> SUFFICES ASSUME PastOver, ValidIsHeld,
                      NEW g \in Holders, NEW h \in Holders, Valid(g), Valid(h), g # h, ~Given(g), ~Given(h)
               PROVE  \E l \in past : /\ l.holder \in {g, h} /\ l.token = client[l.holder].claims.token
                                      /\ l.expires <= now /\ now < l.expires + Overlap
    BY DEF OneWriter
  <2>1. PICK a \in Leases : /\ a.holder = g /\ a.token = client[g].claims.token
                            /\ now < a.expires + Overlap
    BY DEF ValidIsHeld
  <2>2. PICK b \in Leases : /\ b.holder = h /\ b.token = client[h].claims.token
                            /\ now < b.expires + Overlap
    BY DEF ValidIsHeld
  <2>3. a \in past \/ b \in past
    BY <2>1, <2>2 DEF Leases
  <2> QED BY <2>1, <2>2, <2>3 DEF PastOver
<1> QED BY <1>1, LeaseInvariant, LeaseHeld, PTL DEF LeaseInv

\* No write of a lease is under way later than Overlap and a flight after its end,
\* unless the lease was given back: this is the window to wait for before another
\* runtime may count on being alone.
THEOREM WritesEnd == Spec => []WritesStop
<1>1. LeaseInv => WritesStop
  <2> SUFFICES ASSUME LeaseInv, NEW f \in flights, f.token \notin released
               PROVE  \E l \in Leases : l.token = f.token /\ now < l.expires + Overlap + MaxFlight
    BY DEF WritesStop
  <2>1. /\ f.at \in Nat /\ now \in Nat /\ now <= f.at + MaxFlight
        /\ \A l \in Leases : l.expires \in Nat
    BY DEF LeaseInv, FlightsSound, Leases, TypeOK, Lease
  <2>2. PICK l \in Leases : l.token = f.token /\ f.at < l.expires + Overlap
    BY DEF LeaseInv, FlightsSound
  <2> QED BY <2>1, <2>2, LeaseConstants DEF Overlap
<1> QED BY <1>1, LeaseInvariant, PTL

=============================================================================
